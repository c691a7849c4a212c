----------------------------- MODULE OtpDelivery -----------------------------
(***************************************************************************)
(* How a code reaches its user, and how the row of its Delivery follows:    *)
(* the hand-off of POST /otp/request to the BullMQ queue "otp-send"         *)
(* (otp-queue.ts), the worker that sends it over a chain of channels        *)
(* (otp-worker.ts), the provider, and the provider's status callbacks       *)
(* (POST /webhooks/twilio/status in app.ts).                                *)
(*                                                                         *)
(* BullMQ delivers at least once.  A run of the job holds a lock; when the  *)
(* worker dies or fails to renew it, the job stalls and is run again, and   *)
(* the first run, if alive, goes on.  The provider may answer after it has  *)
(* accepted a message, or never; its callbacks come late, twice, out of     *)
(* order, or not at all, as tests/integration/delivery.test.ts has them.    *)
(***************************************************************************)
EXTENDS Naturals, Sequences, FiniteSets

CONSTANTS
  Delivery,    \* deliveries
  None,        \* no delivery
  Worker,      \* runs of the job the worker processes can have at once
  Handler,     \* callbacks handled at once
  Channels,    \* length of the chain: the requested channel, then the fallbacks
  Attempts,    \* job.opts.attempts
  MaxStalls,   \* how often BullMQ runs a stalled job again (maxStalledCount)
  MaxMishaps   \* bound: failures of the database, a worker, a lock or an answer

ASSUME SetsAssumption == None \notin Delivery /\ IsFiniteSet(Worker)
ASSUME ChannelsAssumption == Channels \in Nat \ {0}
ASSUME AttemptsAssumption == Attempts \in Nat \ {0}
ASSUME MaxStallsAssumption == MaxStalls \in Nat
ASSUME MaxMishapsAssumption == MaxMishaps \in Nat

VARIABLES
  row,      \* row[d]: the Delivery row
  job,      \* job[d]: its job in the queue
  work,     \* work[w]: the run of a job in the worker process
  msgs,     \* the messages the provider accepted; msgs[sid] is of that delivery
  cb,       \* cb[h]: the callback being handled
  events,   \* events[d]: types of webhook event emitted
  mishaps   \* history: how often something failed for d

vars == <<row, job, work, msgs, cb, events, mishaps>>

-----------------------------------------------------------------------------
Reported == {"sent", "delivered", "failed"}     \* the values of TWILIO_STATUS

NoRun == [pc |-> "idle", d |-> None, at |-> 0, attempt |-> 0, sid |-> 0, locked |-> FALSE]

NoCallback == [pc |-> "idle", d |-> None, next |-> "none"]

JobStates == {"none", "waiting", "active", "completed", "failed"}

Jobs == [state : JobStates, made : 0..Attempts, stalls : 0..MaxStalls]

Runs == [pc : {"send", "record", "emit", "done", "giveup", "announce", "throw"}, d : Delivery,
         at : 1..Channels, attempt : 1..Attempts, sid : Nat, locked : BOOLEAN]

Callbacks == [pc : {"update", "emit"}, d : Delivery, next : Reported]

(* sid = 0: no providerMessageId. *)
TypeOK ==
  /\ row \in [Delivery -> [status : {"none", "queued"} \cup Reported, sid : Nat, attempts : 0..Attempts]]
  /\ job \in [Delivery -> Jobs]
  /\ work \in [Worker -> {NoRun} \cup Runs]
  /\ msgs \in Seq(Delivery)
  /\ cb \in [Handler -> {NoCallback} \cup Callbacks]
  /\ events \in [Delivery -> SUBSET Reported]
  /\ mishaps \in [Delivery -> 0..MaxMishaps]

Init ==
  /\ row = [d \in Delivery |-> [status |-> "none", sid |-> 0, attempts |-> 0]]
  /\ job = [d \in Delivery |-> [state |-> "none", made |-> 0, stalls |-> 0]]
  /\ work = [w \in Worker |-> NoRun]
  /\ msgs = <<>>
  /\ cb = [h \in Handler |-> NoCallback]
  /\ events = [d \in Delivery |-> {}]
  /\ mishaps = [d \in Delivery |-> 0]

Mishap(d) == mishaps[d] < MaxMishaps /\ mishaps' = [mishaps EXCEPT ![d] = @ + 1]

Unharmed(d) == mishaps[d] = 0

\* createWebhookEmitter swallows its errors: the event is emitted or lost
Emit(d, type) ==
  \/ events' = [events EXCEPT ![d] = @ \cup {type}] /\ UNCHANGED mishaps
  \/ Mishap(d) /\ UNCHANGED events

-----------------------------------------------------------------------------
(* POST /otp/request, after the code is committed.  When the insert of the
   row or the enqueue fails the caller gets a 500 and no job exists. *)
Create(d) ==
  /\ row[d].status = "none"
  /\ row' = [row EXCEPT ![d].status = "queued"]
  /\ UNCHANGED <<job, work, msgs, cb, events, mishaps>>

Enqueue(d) ==
  /\ row[d].status = "queued"
  /\ job[d].state = "none"
  /\ job' = [job EXCEPT ![d].state = "waiting"]
  /\ UNCHANGED <<row, work, msgs, cb, events, mishaps>>

-----------------------------------------------------------------------------
(* The worker. *)
Take(w, d) ==
  /\ work[w].pc = "idle"
  /\ job[d].state = "waiting"
  /\ job' = [job EXCEPT ![d].state = "active"]
  /\ work' = [work EXCEPT ![w] = [pc |-> "send", d |-> d, at |-> 1, sid |-> 0,
                                  attempt |-> job[d].made + 1, locked |-> TRUE]]
  /\ UNCHANGED <<row, msgs, cb, events, mishaps>>

\* The catch of the loop over the chain
OnTo(r) ==
  IF r.at < Channels THEN [r EXCEPT !.pc = "send", !.at = @ + 1]
                     ELSE [r EXCEPT !.pc = "giveup"]

NextChannel(w) == work' = [work EXCEPT ![w] = OnTo(@)]

\* The answer need not name the message: data.sid and info.messageId are optional
SendAccepted(w) ==
  /\ work[w].pc = "send"
  /\ msgs' = Append(msgs, work[w].d)
  /\ \E sid \in {0, Len(msgs) + 1} : work' = [work EXCEPT ![w].pc = "record", ![w].sid = sid]
  /\ UNCHANGED <<row, job, cb, events, mishaps>>

\* Mistake: a refusal is taken for an answer without an id
SendRefusedUnnoticed(w) ==
  /\ work[w].pc = "send"
  /\ work' = [work EXCEPT ![w].pc = "record", ![w].sid = 0]
  /\ UNCHANGED <<row, job, msgs, cb, events, mishaps>>

\* ProviderError: refused, or no sender configured for the channel
SendRefused(w) ==
  /\ work[w].pc = "send"
  /\ NextChannel(w)
  /\ UNCHANGED <<row, job, msgs, cb, events, mishaps>>

\* Accepted, but the answer does not arrive: fetch or sendMail throws
SendUnanswered(w) ==
  /\ work[w].pc = "send"
  /\ Mishap(work[w].d)
  /\ msgs' = Append(msgs, work[w].d)
  /\ NextChannel(w)
  /\ UNCHANGED <<row, job, cb, events>>

\* An update with no providerMessageId (undefined) leaves the one the row has
StoredSid(w) == IF work[w].sid = 0 THEN row[work[w].d].sid ELSE work[w].sid

Sent(w) == [row EXCEPT ![work[w].d] =
              [status |-> "sent", sid |-> StoredSid(w), attempts |-> work[w].attempt]]

\* Mistake: the loop is not left after a success
RecordSentGoesOn(w) ==
  /\ work[w].pc = "record"
  /\ row' = Sent(w)
  /\ NextChannel(w)
  /\ UNCHANGED <<job, msgs, cb, events, mishaps>>

RecordSent(w) ==
  /\ work[w].pc = "record"
  /\ row' = Sent(w)
  /\ work' = [work EXCEPT ![w].pc = "emit"]
  /\ UNCHANGED <<job, msgs, cb, events, mishaps>>

\* The update is inside the try: its error, committed or not, is the channel's
RecordFails(w) ==
  /\ work[w].pc = "record"
  /\ Mishap(work[w].d)
  /\ row' \in {row, Sent(w)}
  /\ NextChannel(w)
  /\ UNCHANGED <<job, msgs, cb, events>>

EmitSent(w) ==
  /\ work[w].pc = "emit"
  /\ Emit(work[w].d, "sent")
  /\ work' = [work EXCEPT ![w].pc = "done"]
  /\ UNCHANGED <<row, job, msgs, cb>>

\* Mistake: the attempts made are compared without the one under way
IsLastAttemptLate(w) == work[w].attempt > Attempts

IsLastAttempt(w) == work[w].attempt >= Attempts

\* Every channel failed
GiveUp(w) ==
  /\ work[w].pc = "giveup"
  /\ row' = [row EXCEPT ![work[w].d].status = IF IsLastAttempt(w) THEN "failed" ELSE "queued",
                        ![work[w].d].attempts = work[w].attempt]
  /\ work' = [work EXCEPT ![w].pc = IF IsLastAttempt(w) THEN "announce" ELSE "throw"]
  /\ UNCHANGED <<job, msgs, cb, events, mishaps>>

GiveUpFails(w) ==
  /\ work[w].pc = "giveup"
  /\ Mishap(work[w].d)
  /\ work' = [work EXCEPT ![w].pc = "throw"]
  /\ UNCHANGED <<row, job, msgs, cb, events>>

EmitFailed(w) ==
  /\ work[w].pc = "announce"
  /\ Emit(work[w].d, "failed")
  /\ work' = [work EXCEPT ![w].pc = "throw"]
  /\ UNCHANGED <<row, job, msgs, cb>>

-----------------------------------------------------------------------------
(* BullMQ.  A run that has lost its lock cannot finish the job. *)
Complete(w) ==
  /\ work[w].pc = "done"
  /\ job' = IF work[w].locked THEN [job EXCEPT ![work[w].d].state = "completed"] ELSE job
  /\ work' = [work EXCEPT ![w] = NoRun]
  /\ UNCHANGED <<row, msgs, cb, events, mishaps>>

\* Mistake: no attempt is counted when the run throws
RetryUncounted(w) == [job[work[w].d] EXCEPT !.state = "waiting"]

\* Mistake: one attempt more than configured
RetryOnceMore(w) ==
  LET made == job[work[w].d].made + 1
  IN  [job[work[w].d] EXCEPT !.made = made,
                             !.state = IF made <= Attempts THEN "waiting" ELSE "failed"]

\* The job after a run that threw: again after the backoff, or failed for good
Retry(w) ==
  LET made == job[work[w].d].made + 1
  IN  [job[work[w].d] EXCEPT !.made = made,
                             !.state = IF made < Attempts THEN "waiting" ELSE "failed"]

Throw(w) ==
  /\ work[w].pc = "throw"
  /\ job' = IF work[w].locked THEN [job EXCEPT ![work[w].d] = Retry(w)] ELSE job
  /\ work' = [work EXCEPT ![w] = NoRun]
  /\ UNCHANGED <<row, msgs, cb, events, mishaps>>

\* The process dies, or
Crash(w) ==
  /\ work[w].pc # "idle"
  /\ Mishap(work[w].d)
  /\ work' = [work EXCEPT ![w] = NoRun]
  /\ UNCHANGED <<row, job, msgs, cb, events>>

\* does not renew the lock of its run in time
LoseLock(w) ==
  /\ work[w].locked
  /\ Mishap(work[w].d)
  /\ work' = [work EXCEPT ![w].locked = FALSE]
  /\ UNCHANGED <<row, job, msgs, cb, events>>

Held(d) == \E w \in Worker : work[w].d = d /\ work[w].locked

\* A stalled job is run again MaxStalls times, then failed
Restarted(j) ==
  IF j.stalls < MaxStalls THEN [j EXCEPT !.state = "waiting", !.stalls = @ + 1]
                          ELSE [j EXCEPT !.state = "failed"]

Stalled(d) ==
  /\ job[d].state = "active"
  /\ ~Held(d)
  /\ job' = [job EXCEPT ![d] = Restarted(@)]
  /\ UNCHANGED <<row, work, msgs, cb, events, mishaps>>

-----------------------------------------------------------------------------
(* POST /webhooks/twilio/status. *)
STATUS_RANK(status) == CASE status = "sent" -> 1 [] status = "delivered" -> 2 [] OTHER -> 0

\* next !== "failed" && (STATUS_RANK[next] ?? 0) <= (STATUS_RANK[status] ?? 0)
Stale(d, next) == next # "failed" /\ STATUS_RANK(next) <= STATUS_RANK(row[d].status)

\* Mistake: only stale callbacks are stopped
AlreadyDoneNever(d) == FALSE

AlreadyDone(d) == row[d].status = "delivered"

(* findFirst by providerMessageId and the decision, which the update acts on
   later.  A callback that finds no row or is refused here changes nothing. *)
CallbackBegin(h, d, sid, next) ==
  /\ cb[h].pc = "idle"
  /\ row[d].sid = sid
  /\ ~Stale(d, next)
  /\ ~AlreadyDone(d)
  /\ cb' = [cb EXCEPT ![h] = [pc |-> "update", d |-> d, next |-> next]]
  /\ UNCHANGED <<row, job, work, msgs, events, mishaps>>

\* Mistake: only a delivered message is announced
AnnouncesDelivered(next) == next = "delivered"

Announces(next) == next \in {"delivered", "failed"}

CallbackUpdate(h) ==
  /\ cb[h].pc = "update"
  /\ row' = [row EXCEPT ![cb[h].d].status = cb[h].next]
  /\ cb' = [cb EXCEPT ![h] = IF Announces(cb[h].next) THEN [@ EXCEPT !.pc = "emit"] ELSE NoCallback]
  /\ UNCHANGED <<job, work, msgs, events, mishaps>>

CallbackEmit(h) ==
  /\ cb[h].pc = "emit"
  /\ Emit(cb[h].d, cb[h].next)
  /\ cb' = [cb EXCEPT ![h] = NoCallback]
  /\ UNCHANGED <<row, job, work, msgs>>

\* A database error, answered 500, or a crash of the server
CallbackFails(h) ==
  /\ cb[h].pc # "idle"
  /\ Mishap(cb[h].d)
  /\ cb' = [cb EXCEPT ![h] = NoCallback]
  /\ UNCHANGED <<row, job, work, msgs, events>>

-----------------------------------------------------------------------------
Run(w) ==
  \/ \E d \in Delivery : Take(w, d)
  \/ SendAccepted(w) \/ SendRefused(w) \/ SendUnanswered(w)
  \/ RecordSent(w) \/ RecordFails(w) \/ EmitSent(w)
  \/ GiveUp(w) \/ GiveUpFails(w) \/ EmitFailed(w)
  \/ Complete(w) \/ Throw(w)

Callback(h) == CallbackUpdate(h) \/ CallbackEmit(h) \/ CallbackFails(h)

Next ==
  \/ \E d \in Delivery : Create(d) \/ Enqueue(d) \/ Stalled(d)
  \/ \E w \in Worker : Run(w) \/ Crash(w) \/ LoseLock(w)
  \/ \E h \in Handler :
       \/ Callback(h)
       \/ \E d \in Delivery, sid \in DOMAIN msgs, next \in Reported : CallbackBegin(h, d, sid, next)

Spec == Init /\ [][Next]_vars

(* A run goes on (fetch and the database answer or time out), BullMQ finds
   stalled jobs, a callback under way ends.  Nobody owes a callback, and
   nothing makes a lock last. *)
FairSpec ==
  /\ Spec
  /\ \A w \in Worker : WF_vars(Run(w))
  /\ \A d \in Delivery : WF_vars(Stalled(d))
  /\ \A h \in Handler : WF_vars(Callback(h))

-----------------------------------------------------------------------------
MessagesOf(d) == {sid \in DOMAIN msgs : msgs[sid] = d}

Quiet(d) == (\A w \in Worker : work[w].d # d) /\ (\A h \in Handler : cb[h].d # d)

(* A row that says sent or delivered stands for a message the provider accepted,
   and the id it stores, if the provider gave one, is of a message of its own
   delivery, whatever runs again or fails (the update of otp-worker.ts:26, the
   findFirst of app.ts:808). *)
SentMeansAccepted ==
  \A d \in Delivery :
    /\ row[d].status \in {"sent", "delivered"} => MessagesOf(d) # {}
    /\ row[d].sid # 0 => row[d].sid \in MessagesOf(d)

(* "stops at the first success" (otp-worker.ts:11): the user gets one message,
   and at most one more for every failure on the way: an answer, an update, a
   worker or a lock that was lost. *)
OneMessage == \A d \in Delivery : Cardinality(MessagesOf(d)) <= 1 + mishaps[d]

(* "if every channel fails ... the last retry marks the delivery failed"
   (otp-worker.ts:11): when the queue has given the job up, the row says so. *)
ExhaustedMarked ==
  \A d \in Delivery : job[d].state = "failed" /\ Unharmed(d) => row[d].status = "failed"

(* Once nobody works on a delivery, the state its row was left in was
   announced by a webhook event, unless something failed meanwhile. *)
Announced ==
  \A d \in Delivery :
    Quiet(d) /\ Unharmed(d) /\ row[d].status \in Reported => row[d].status \in events[d]

(* "cannot undo a delivery" (tests/integration/delivery.test.ts:175): no step
   takes a row back from delivered, unless something failed for it. *)
DeliveredStays ==
  [][\A d \in Delivery :
       row[d].status = "delivered" /\ Unharmed(d)' => row'[d].status = "delivered"]_vars

(* "Callbacks can arrive out of order: never move a delivery backwards"
   (app.ts:809): no callback turns a failed delivery into a sent one. *)
LateSentIgnored ==
  [][\A d \in Delivery : ~(row[d].status = "failed" /\ row'[d].status = "sent")]_vars

(* The queue is done with every job, whatever fails and however often runs stall. *)
JobEnds == \A d \in Delivery : job[d].state = "waiting" ~> job[d].state \in {"completed", "failed"}

(* Every delivery handed to the queue leaves "queued" for good or a failure is to blame. *)
Settles == \A d \in Delivery : job[d].state = "waiting" ~> ~Unharmed(d) \/ row[d].status \in Reported

(* The provider takes at most one message per channel for every attempt and
   every stall of the job. *)
MessagesBounded ==
  \A d \in Delivery : Cardinality(MessagesOf(d)) <= Channels * (Attempts + job[d].stalls)

-----------------------------------------------------------------------------
(* The inductive invariant.  First, the lock of a job: a run that holds it is the
   only one, of the attempt that BullMQ counts next, and while a job can be
   run again an attempt is left. *)
JobsHeld ==
  /\ \A w \in Worker : work[w] # NoRun => job[work[w].d].state # "none"
  /\ \A w \in Worker : work[w].locked =>
       job[work[w].d].state = "active" /\ work[w].attempt = job[work[w].d].made + 1
  /\ \A v, w \in Worker :
       work[v].locked /\ work[w].locked /\ work[v].d = work[w].d => v = w
  /\ \A d \in Delivery : job[d].state # "failed" => job[d].made < Attempts

(* Every run was started by an attempt or a stall, and goes down the chain once: a
   channel it may still try is counted as if its message had been accepted. *)
Pending(d) ==
  {p \in Worker \X (1..Channels) :
     LET r == work[p[1]]
     IN  r.d = d /\ (p[2] > r.at \/ (p[2] = r.at /\ r.pc = "send"))}

Started(j) ==
  j.made + j.stalls
    + (IF j.state \in {"active", "completed", "failed"} /\ j.made < Attempts THEN 1 ELSE 0)

MessagesAccounted ==
  \A d \in Delivery :
    Cardinality(MessagesOf(d)) + Cardinality(Pending(d)) <= Channels * Started(job[d])

(* What may still send a message: a run that tries a channel; one that holds the
   lock and leaves the job to be tried again; the job itself, until a run has it.
   Each can be the first message, or is paid for by a failure. *)
MaySend(r) == r.pc = "send" \/ (r.locked /\ r.pc \in {"giveup", "announce", "throw"})

Chances(d) == {w \in Worker : work[w].d = d /\ MaySend(work[w])}

Unstarted(d) == job[d].state \in {"none", "waiting"} \/ (job[d].state = "active" /\ ~Held(d))

MessagesPaid ==
  \A d \in Delivery :
    Cardinality(MessagesOf(d)) + Cardinality(Chances(d)) + (IF Unstarted(d) THEN 1 ELSE 0) <= 1 + mishaps[d]

(* An id in a row, or about to be written there, is of a message of that delivery;
   only a row of an accepted message is sent, and only one with an id is
   delivered or called back. *)
SidsAgree ==
  /\ \A d \in Delivery : row[d].sid # 0 => row[d].sid \in MessagesOf(d)
  /\ \A w \in Worker : work[w].pc = "record" =>
       /\ MessagesOf(work[w].d) # {}
       /\ work[w].sid # 0 => work[w].sid \in MessagesOf(work[w].d)
  /\ \A d \in Delivery : row[d].status = "sent" => MessagesOf(d) # {}
  /\ \A d \in Delivery : row[d].status = "delivered" => row[d].sid # 0
  /\ \A h \in Handler : cb[h].pc # "idle" => row[cb[h].d].sid # 0

(* While nothing has failed for d: its run holds the lock, and its active job has a
   run; *)
NothingStalls(d) ==
  /\ \A w \in Worker : work[w].d = d => work[w].locked
  /\ job[d].state = "active" => \E w \in Worker : work[w].d = d

\* a message was accepted only if the run is past it, or the job is over;
MessagesAgree(d) ==
  /\ job[d].state \in {"none", "waiting", "failed"} => MessagesOf(d) = {}
  /\ \A w \in Worker : work[w].d = d =>
       /\ work[w].pc \in {"send", "giveup", "announce", "throw"} => MessagesOf(d) = {}
       /\ work[w].pc = "record" => row[d].sid = 0

\* a run that ends the last attempt has marked the row;
FailuresMarked(d) ==
  /\ job[d].state = "failed" => row[d].status = "failed"
  /\ \A w \in Worker : work[w].d = d =>
       /\ work[w].pc = "announce" => IsLastAttempt(w)
       /\ work[w].pc \in {"announce", "throw"} /\ IsLastAttempt(w) => row[d].status = "failed"

\* and what the row says has been announced or is about to be.
EventsAgree(d) ==
  /\ row[d].sid # 0 \/ row[d].status = "sent" =>
       "sent" \in events[d] \/ \E w \in Worker : work[w].d = d /\ work[w].pc = "emit"
  /\ \A type \in {"delivered", "failed"} : row[d].status = type =>
       \/ type \in events[d]
       \/ \E h \in Handler : cb[h].pc = "emit" /\ cb[h].d = d /\ cb[h].next = type
       \/ type = "failed" /\ \E w \in Worker : work[w].d = d /\ work[w].pc = "announce"

InOrder(d) == NothingStalls(d) /\ MessagesAgree(d) /\ FailuresMarked(d) /\ EventsAgree(d)

IInv ==
  /\ TypeOK
  /\ JobsHeld
  /\ MessagesAccounted
  /\ MessagesPaid
  /\ SidsAgree
  /\ \A d \in Delivery : Unharmed(d) => InOrder(d)
=============================================================================
