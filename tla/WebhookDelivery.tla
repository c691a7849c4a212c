--------------------------- MODULE WebhookDelivery ---------------------------
(***************************************************************************)
(* Webhook endpoints and the delivery of events to them: the routes that    *)
(* register, revoke and rotate an endpoint (app.ts), createWebhookEmitter   *)
(* (webhook-queue.ts), the worker (webhook-worker.ts) and its POST          *)
(* (webhook-http.ts).  The endpoints are those of one application that are  *)
(* subscribed to the type of the events: findMany returns no other.         *)
(*                                                                         *)
(* As in OtpDelivery the queue delivers at least once: a run that dies or    *)
(* loses its lock stalls the job, which runs again.  A receiver takes a post  *)
(* or refuses it: the secret it was last told may be the one that signed it   *)
(* or another.                                                              *)
(***************************************************************************)
EXTENDS Naturals, FiniteSets

CONSTANTS
  Event,       \* events emitted
  Endpoint,    \* endpoints registered
  Worker,      \* runs of jobs at once
  None,        \* no target
  Attempts,    \* job.opts.attempts
  MaxStalls,   \* how often BullMQ runs a stalled job again
  MaxSecret,   \* bound: rotations of an endpoint's secret
  MaxMishaps   \* bound: failures of the database, Redis, a worker, a lock or an answer

ASSUME AttemptsAssumption == Attempts \in Nat \ {0}
ASSUME BoundsAssumption == MaxStalls \in Nat /\ MaxSecret \in Nat /\ MaxMishaps \in Nat
ASSUME SetsAssumption == IsFiniteSet(Worker) /\ None \notin Event \X Endpoint

VARIABLES
  endpoint,   \* endpoint[e]: its row: state, and the number of its secret
  emitter,    \* emitter[ev]: the emission of ev: the endpoints left, and where it is;
              \* history: due: the endpoints that were live when it began
  log,        \* log[t]: status of the WebhookLog row of target t = <<event, endpoint>>
  job,        \* job[t]: its job in the queue
  work,       \* work[w]: the run of a job in the worker process
  got,        \* got[t]: posts made, whether one was verified and taken by the receiver, and
              \* whether one was answered 2xx in time
  stale,      \* history: stale[e]: posts made to e after its row had changed
  mishaps     \* history: how often something failed

vars == <<endpoint, emitter, log, job, work, got, stale, mishaps>>

-----------------------------------------------------------------------------
Target == Event \X Endpoint

NoRun == [pc |-> "idle", t |-> None, attempt |-> 0, secret |-> 0, locked |-> FALSE]

JobStates == {"none", "waiting", "active", "completed", "failed"}

Jobs == [state : JobStates, made : 0..Attempts, stalls : 0..MaxStalls]

Runs == [pc : {"lookup", "post", "record", "catch", "done", "throw"}, t : Target,
         attempt : 1..Attempts, secret : 0..MaxSecret, locked : BOOLEAN]

TypeOK ==
  /\ endpoint \in [Endpoint -> [state : {"none", "live", "revoked"}, secret : 0..MaxSecret]]
  /\ emitter \in [Event -> [pc : {"idle", "log", "add", "done", "failed"},
                         left : SUBSET Endpoint, due : SUBSET Endpoint]]
  /\ log \in [Target -> {"none", "pending", "success", "failed", "cancelled"}]
  /\ job \in [Target -> Jobs]
  /\ work \in [Worker -> {NoRun} \cup Runs]
  /\ got \in [Target -> [posts : Nat, received : BOOLEAN, answered : BOOLEAN]]
  /\ stale \in [Endpoint -> Nat]
  /\ mishaps \in 0..MaxMishaps

Init ==
  /\ endpoint = [e \in Endpoint |-> [state |-> "none", secret |-> 0]]
  /\ emitter = [ev \in Event |-> [pc |-> "idle", left |-> {}, due |-> {}]]
  /\ log = [t \in Target |-> "none"]
  /\ job = [t \in Target |-> [state |-> "none", made |-> 0, stalls |-> 0]]
  /\ work = [w \in Worker |-> NoRun]
  /\ got = [t \in Target |-> [posts |-> 0, received |-> FALSE, answered |-> FALSE]]
  /\ stale = [e \in Endpoint |-> 0]
  /\ mishaps = 0

Mishap == mishaps < MaxMishaps /\ mishaps' = mishaps + 1

-----------------------------------------------------------------------------
(* The routes under /applications/:applicationId/webhooks. *)

\* POST: the response is the only one that shows the secret
Register(e) ==
  /\ endpoint[e].state = "none"
  /\ endpoint' = [endpoint EXCEPT ![e].state = "live"]
  /\ UNCHANGED <<emitter, log, job, work, got, stale, mishaps>>

\* DELETE: updateMany where revokedAt is null, else 404
Revoke(e) ==
  /\ endpoint[e].state = "live"
  /\ endpoint' = [endpoint EXCEPT ![e].state = "revoked"]
  /\ UNCHANGED <<emitter, log, job, work, got, stale, mishaps>>

\* POST .../rotate-secret: updateMany where revokedAt is null, else 404
Rotate(e) ==
  /\ endpoint[e].state = "live"
  /\ endpoint[e].secret < MaxSecret
  /\ endpoint' = [endpoint EXCEPT ![e].secret = @ + 1]
  /\ UNCHANGED <<emitter, log, job, work, got, stale, mishaps>>

-----------------------------------------------------------------------------
(* createWebhookEmitter. *)
Subscribers == {e \in Endpoint : endpoint[e].state = "live"}

\* findMany; with no endpoint the emission is over
Find(ev) ==
  /\ emitter[ev].pc = "idle"
  /\ emitter' = [emitter EXCEPT ![ev] = [pc |-> IF Subscribers = {} THEN "done" ELSE "log",
                                         left |-> Subscribers,
                                         due |-> {e \in Endpoint : endpoint[e].state = "live"}]]
  /\ UNCHANGED <<endpoint, log, job, work, got, stale, mishaps>>

\* webhookLog.create for the next endpoint of the loop
LogCreate(ev, e) ==
  /\ emitter[ev].pc = "log"
  /\ e \in emitter[ev].left
  /\ log[<<ev, e>>] = "none"
  /\ log' = [log EXCEPT ![<<ev, e>>] = "pending"]
  /\ emitter' = [emitter EXCEPT ![ev].pc = "add"]
  /\ UNCHANGED <<endpoint, job, work, got, stale, mishaps>>

\* Mistake: the loop is left after the first endpoint
AddedFirst(ev, e) == [emitter[ev] EXCEPT !.pc = "done", !.left = {}]

\* The emission after e's job is added: the next endpoint, if one is left
Added(ev, e) ==
  LET left == emitter[ev].left \ {e}
  IN  [emitter[ev] EXCEPT !.pc = IF left = {} THEN "done" ELSE "log", !.left = left]

\* queue.add for the endpoint whose log was just created
QueueAdd(ev, e) ==
  /\ emitter[ev].pc = "add"
  /\ e \in emitter[ev].left
  /\ log[<<ev, e>>] # "none"
  /\ job' = [job EXCEPT ![<<ev, e>>].state = "waiting"]
  /\ emitter' = [emitter EXCEPT ![ev] = Added(ev, e)]
  /\ UNCHANGED <<endpoint, log, work, got, stale, mishaps>>

\* An error of the database or Redis, which the emitter swallows, or a crash
EmitFails(ev) ==
  /\ emitter[ev].pc \in {"idle", "log", "add"}
  /\ Mishap
  /\ emitter' = [emitter EXCEPT ![ev].pc = "failed"]
  /\ UNCHANGED <<endpoint, log, job, work, got, stale>>

-----------------------------------------------------------------------------
(* The worker.  A run's steps are the awaits of its processor. *)
Take(w, t) ==
  /\ work[w].pc = "idle"
  /\ job[t].state = "waiting"
  /\ job' = [job EXCEPT ![t].state = "active"]
  /\ work' = [work EXCEPT ![w] = [pc |-> "lookup", t |-> t, attempt |-> job[t].made + 1,
                                  secret |-> 0, locked |-> TRUE]]
  /\ UNCHANGED <<endpoint, emitter, log, got, stale, mishaps>>

EndpointOf(w) == endpoint[work[w].t[2]]

\* Mistake: only an endpoint whose row is gone is skipped
SkipsMissing(w) == EndpointOf(w).state = "none"

Skips(w) == EndpointOf(w).state = "revoked"

\* findUnique finds it live: the body is signed with the secret it has now
LookupLive(w) ==
  /\ work[w].pc = "lookup"
  /\ ~Skips(w)
  /\ work' = [work EXCEPT ![w].pc = "post", ![w].secret = EndpointOf(w).secret]
  /\ UNCHANGED <<endpoint, emitter, log, job, got, stale, mishaps>>

LookupRevoked(w) ==
  /\ work[w].pc = "lookup"
  /\ Skips(w)
  /\ log' = [log EXCEPT ![work[w].t] = "cancelled"]
  /\ work' = [work EXCEPT ![w].pc = "done"]
  /\ UNCHANGED <<endpoint, emitter, job, got, stale, mishaps>>

\* Outside the try: the job fails, and the log is left as it was
LookupFails(w) ==
  /\ work[w].pc = "lookup"
  /\ Mishap
  /\ work' = [work EXCEPT ![w].pc = "throw"]
  /\ UNCHANGED <<endpoint, emitter, log, job, got, stale>>

\* The row the run looked up is no longer the endpoint's
IsStale(w) ==
  /\ work[w].pc = "post"
  /\ EndpointOf(w).state = "revoked" \/ EndpointOf(w).secret # work[w].secret

Posted(w, received, answered) ==
  /\ got' = [got EXCEPT ![work[w].t] = [posts |-> @.posts + 1, received |-> @.received \/ received,
                                        answered |-> @.answered \/ answered]]
  /\ stale' = [stale EXCEPT ![work[w].t[2]] = IF IsStale(w) THEN @ + 1 ELSE @]

PostAccepted(w) ==
  /\ work[w].pc = "post"
  /\ Posted(w, TRUE, TRUE)
  /\ work' = [work EXCEPT ![w].pc = "record"]
  /\ UNCHANGED <<endpoint, emitter, log, job, mishaps>>

\* No 2xx, no connection, or a destination that guardedLookup refuses
PostRefused(w) ==
  /\ work[w].pc = "post"
  /\ Posted(w, FALSE, FALSE)
  /\ work' = [work EXCEPT ![w].pc = "catch"]
  /\ UNCHANGED <<endpoint, emitter, log, job, mishaps>>

\* Mistake: a post that ran into the timeout is a success
TimeoutRecorded(w) ==
  /\ work[w].pc = "post"
  /\ Mishap
  /\ Posted(w, TRUE, FALSE)
  /\ work' = [work EXCEPT ![w].pc = "record"]
  /\ UNCHANGED <<endpoint, emitter, log, job>>

\* The receiver takes the event, and its answer comes after 5 seconds or never
PostUnanswered(w) ==
  /\ work[w].pc = "post"
  /\ Mishap
  /\ Posted(w, TRUE, FALSE)
  /\ work' = [work EXCEPT ![w].pc = "catch"]
  /\ UNCHANGED <<endpoint, emitter, log, job>>

\* Mistake: the error of a run that succeeded is not told apart from the rest
RecordedThenRetried(w) ==
  /\ work[w].pc = "record"
  /\ log' = [log EXCEPT ![work[w].t] = "success"]
  /\ work' = [work EXCEPT ![w].pc = "throw"]
  /\ UNCHANGED <<endpoint, emitter, job, got, stale, mishaps>>

RecordSuccess(w) ==
  /\ work[w].pc = "record"
  /\ log' = [log EXCEPT ![work[w].t] = "success"]
  /\ work' = [work EXCEPT ![w].pc = "done"]
  /\ UNCHANGED <<endpoint, emitter, job, got, stale, mishaps>>

\* The update is inside the try: its error, committed or not, is the attempt's
RecordFails(w) ==
  /\ work[w].pc = "record"
  /\ Mishap
  /\ log' \in {log, [log EXCEPT ![work[w].t] = "success"]}
  /\ work' = [work EXCEPT ![w].pc = "catch"]
  /\ UNCHANGED <<endpoint, emitter, job, got, stale>>

\* Mistake: the attempts made are compared without the one under way
IsLastLate(w) == work[w].attempt > Attempts

IsLast(w) == work[w].attempt >= Attempts

Catch(w) ==
  /\ work[w].pc = "catch"
  /\ log' = [log EXCEPT ![work[w].t] = IF IsLast(w) THEN "failed" ELSE "pending"]
  /\ work' = [work EXCEPT ![w].pc = "throw"]
  /\ UNCHANGED <<endpoint, emitter, job, got, stale, mishaps>>

CatchFails(w) ==
  /\ work[w].pc = "catch"
  /\ Mishap
  /\ work' = [work EXCEPT ![w].pc = "throw"]
  /\ UNCHANGED <<endpoint, emitter, log, job, got, stale>>

-----------------------------------------------------------------------------
(* BullMQ.  A run that has lost its lock cannot finish the job. *)
Finish(w, new) ==
  /\ job' = IF work[w].locked THEN [job EXCEPT ![work[w].t] = new] ELSE job
  /\ work' = [work EXCEPT ![w] = NoRun]
  /\ UNCHANGED <<endpoint, emitter, log, got, stale, mishaps>>

\* Mistake: one attempt more than configured
RetriedOnceMore(j) ==
  [j EXCEPT !.made = @ + 1, !.state = IF j.made + 1 <= Attempts THEN "waiting" ELSE "failed"]

\* The job after a run that threw: again after the backoff, or failed for good
Retried(j) ==
  [j EXCEPT !.made = @ + 1, !.state = IF j.made + 1 < Attempts THEN "waiting" ELSE "failed"]

Complete(w) ==
  work[w].pc = "done" /\ Finish(w, [job[work[w].t] EXCEPT !.state = "completed"])

Throw(w) ==
  work[w].pc = "throw" /\ Finish(w, Retried(job[work[w].t]))

\* The process dies
Crash(w) ==
  /\ work[w].pc # "idle"
  /\ Mishap
  /\ work' = [work EXCEPT ![w] = NoRun]
  /\ UNCHANGED <<endpoint, emitter, log, job, got, stale>>

\* or does not renew the lock of its run in time
LoseLock(w) ==
  /\ work[w].locked
  /\ Mishap
  /\ work' = [work EXCEPT ![w].locked = FALSE]
  /\ UNCHANGED <<endpoint, emitter, log, job, got, stale>>

\* A stalled job is run again MaxStalls times, then failed
Restarted(j) ==
  IF j.stalls < MaxStalls THEN [j EXCEPT !.state = "waiting", !.stalls = @ + 1]
                          ELSE [j EXCEPT !.state = "failed"]

Stalled(t) ==
  /\ job[t].state = "active"
  /\ \A w \in Worker : ~(work[w].t = t /\ work[w].locked)
  /\ job' = [job EXCEPT ![t] = Restarted(@)]
  /\ UNCHANGED <<endpoint, emitter, log, work, got, stale, mishaps>>

-----------------------------------------------------------------------------
Manage(e) == Register(e) \/ Revoke(e) \/ Rotate(e)

Emit(ev) ==
  Find(ev) \/ EmitFails(ev) \/ \E e \in Endpoint : LogCreate(ev, e) \/ QueueAdd(ev, e)

Run(w) ==
  \/ \E t \in Target : Take(w, t)
  \/ LookupLive(w) \/ LookupRevoked(w) \/ LookupFails(w)
  \/ PostAccepted(w) \/ PostRefused(w) \/ PostUnanswered(w)
  \/ RecordSuccess(w) \/ RecordFails(w) \/ Catch(w) \/ CatchFails(w)
  \/ Complete(w) \/ Throw(w)

Next ==
  \/ \E e \in Endpoint : Manage(e)
  \/ \E ev \in Event : Emit(ev)
  \/ \E w \in Worker : Run(w) \/ Crash(w) \/ LoseLock(w)
  \/ \E t \in Target : Stalled(t)

Spec == Init /\ [][Next]_vars

-----------------------------------------------------------------------------
Unharmed == mishaps = 0

\* A log that has no job
Orphan(ev, e) == log[<<ev, e>>] # "none" /\ job[<<ev, e>>].state = "none"

\* Row changes of e so far
Changes(e) == endpoint[e].secret + (IF endpoint[e].state = "revoked" THEN 1 ELSE 0)

(* A log that says success is of an event its endpoint verified and answered 2xx
   in time (webhook-worker.ts:49-53), whatever failed or ran twice: not of one
   whose answer was late, or went to a run that had lost its job. *)
SuccessMeansReceived == \A t \in Target : log[t] = "success" => got[t].answered

(* A log that says failed is of an event the endpoint never took, unless an
   answer, the database or a worker failed (webhook-worker.ts:50, inside the try). *)
FailedNeverReceived ==
  \A t \in Target : log[t] = "failed" /\ Unharmed => ~got[t].received

(* An event is posted once per attempt and once per stall at most, and the
   retries stop at the first 2xx unless something failed. *)
PostsBounded ==
  \A t \in Target :
    /\ got[t].posts <= Attempts + job[t].stalls
    /\ job[t].state \in {"none", "waiting"} /\ Unharmed => ~got[t].received

(* The endpoint's row is read at webhook-worker.ts:28 and used at 38.  Only the
   runs under way when it is revoked or its secret replaced ("at once",
   app.ts:478) act on the old one: at most one post each. *)
StalePostsBounded ==
  \A e \in Endpoint :
    stale[e] + Cardinality({w \in Worker : work[w].t # None /\ work[w].t[2] = e /\ IsStale(w)})
      <= Cardinality(Worker) * Changes(e)

(* "one signed delivery per subscribed endpoint" (webhook-queue.ts:41): an emission
   that reaches its end has a job for every endpoint that was live when it began,
   whatever was revoked, posted or crashed meanwhile.  One that met an error, which
   nobody hears of, has a log for none but these, and at most one log that no job
   will ever settle (webhook-queue.ts:62-67). *)
EveryoneQueued ==
  \A ev \in Event :
    /\ emitter[ev].pc = "done" => \A e \in emitter[ev].due : job[<<ev, e>>].state # "none"
    /\ \A e \in Endpoint : log[<<ev, e>>] # "none" => e \in emitter[ev].due
    /\ \A e, f \in Endpoint : Orphan(ev, e) /\ Orphan(ev, f) => e = f

(* No event is forgotten: when the queue is done with a job its log is settled,
   unless something failed (isLast at webhook-worker.ts:26 against the
   attempts that BullMQ counts). *)
EndedIsSettled ==
  \A t \in Target :
    job[t].state \in {"completed", "failed"} /\ Unharmed
      => log[t] \in {"success", "failed", "cancelled"}

-----------------------------------------------------------------------------
(* The inductive invariant.  First, the lock of a job: a run that holds it is the
   only one, of the attempt that BullMQ counts next, and while a job can be
   run again an attempt is left. *)
JobsHeld ==
  /\ \A w \in Worker : work[w] # NoRun => job[work[w].t].state # "none"
  /\ \A w \in Worker : work[w].locked =>
       job[work[w].t].state = "active" /\ work[w].attempt = job[work[w].t].made + 1
  /\ \A v, w \in Worker :
       work[v].locked /\ work[w].locked /\ work[v].t = work[w].t => v = w
  /\ \A t \in Target : job[t].state # "failed" => job[t].made < Attempts

(* The emitter's loop: whoever is due and no longer left has a job; what is left has
   none, and no log but the one that was just created. *)
EmissionInOrder(ev) ==
  LET left == emitter[ev].left
  IN  /\ emitter[ev].pc = "idle" => emitter[ev].due = {}
      /\ left \subseteq emitter[ev].due
      /\ \A e \in Endpoint : log[<<ev, e>>] # "none" => e \in emitter[ev].due
      /\ emitter[ev].pc \in {"log", "add", "done"} =>
           \A e \in emitter[ev].due \ left : job[<<ev, e>>].state # "none"
      /\ emitter[ev].pc = "done" => left = {}
      /\ emitter[ev].pc = "log" => \A e \in left : log[<<ev, e>>] = "none"
      /\ emitter[ev].pc = "add" =>
           /\ \A e \in left : job[<<ev, e>>].state = "none"
           /\ \E e \in left : log[<<ev, e>>] # "none" /\ \A f \in left \ {e} : log[<<ev, f>>] = "none"
      /\ \A e, f \in Endpoint : Orphan(ev, e) /\ Orphan(ev, f) => e = f

EmissionsInOrder ==
  /\ \A ev \in Event : EmissionInOrder(ev)
  /\ \A t \in Target : log[t] = "none" => job[t].state = "none"

(* Every run was started by an attempt or a stall, and posts once: those that
   may still post are counted as if they had. *)
Unposted(t) == {w \in Worker : work[w].t = t /\ work[w].pc \in {"lookup", "post"}}

Started(j) ==
  j.made + j.stalls
    + (IF j.state \in {"active", "completed", "failed"} /\ j.made < Attempts THEN 1 ELSE 0)

RunsAccounted == \A t \in Target : got[t].posts + Cardinality(Unposted(t)) <= Started(job[t])

(* A run that is about to record a success has had a 2xx. *)
AnswerKnown ==
  \A w \in Worker : work[w].pc = "record" => got[work[w].t].answered

(* While nothing has failed: every run holds its lock and every active job has a
   run; *)
NothingStalls ==
  /\ \A w \in Worker : work[w] # NoRun => work[w].locked
  /\ \A t \in Target : job[t].state = "active" => \E w \in Worker : work[w].t = t

\* and the log and the receiver agree with where the run, or the job, is.
RunsAgree ==
  \A w \in Worker :
    LET t == work[w].t
    IN  /\ work[w].pc \in {"lookup", "post", "record", "catch"} => log[t] = "pending"
        /\ work[w].pc \in {"lookup", "post", "catch", "throw"} => ~got[t].received
        /\ work[w].pc = "throw" => log[t] = IF IsLast(w) THEN "failed" ELSE "pending"
        /\ work[w].pc = "done" => log[t] \in {"success", "cancelled"}

JobsAgree ==
  \A t \in Target :
    /\ job[t].state = "none" => log[t] \in {"none", "pending"}
    /\ job[t].state = "waiting" => log[t] = "pending"
    /\ job[t].state = "completed" => log[t] \in {"success", "cancelled"}
    /\ job[t].state = "failed" => log[t] = "failed"
    /\ job[t].state \in {"none", "waiting", "failed"} => ~got[t].received

UnharmedInOrder == Unharmed => NothingStalls /\ RunsAgree /\ JobsAgree

IInv ==
  /\ TypeOK
  /\ JobsHeld
  /\ EmissionsInOrder
  /\ RunsAccounted
  /\ AnswerKnown
  /\ SuccessMeansReceived
  /\ StalePostsBounded
  /\ UnharmedInOrder
=============================================================================
