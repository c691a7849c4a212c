-------------------------- MODULE OtpDeliveryProofs --------------------------
(***************************************************************************)
(* Proofs about OtpDelivery for any number of deliveries, runs, callbacks,  *)
(* channels, attempts, stalls and failures: the inductive invariant IInv    *)
(* and the properties that follow from it.                                  *)
(*                                                                         *)
(* A step of Next is one of the request, of a run (its start, Step, its     *)
(* end, the loss of its lock), of the queue, or of a callback.  For each    *)
(* kind a lemma says once what the step changes; every part of IInv is then *)
(* proved from those lemmas, and an unharmed delivery is shown to be left   *)
(* alone by the steps of the others (Untouched).                            *)
(***************************************************************************)
EXTENDS OtpDelivery, FiniteSetTheorems, TLAPS

\* The pcs of a run
Stages == {"send", "record", "emit", "done", "giveup", "announce", "throw"}

\* The bounds are numbers.
LEMMA Bounds ==
  /\ Channels \in Nat /\ Channels >= 1 /\ Attempts \in Nat /\ Attempts >= 1
  /\ MaxStalls \in Nat /\ MaxMishaps \in Nat /\ IsFiniteSet(Worker) /\ None \notin Delivery
  BY ChannelsAssumption, AttemptsAssumption, MaxStallsAssumption, MaxMishapsAssumption, SetsAssumption

\* The idle run has no delivery and no lock.
LEMMA NoRunIs == NoRun.pc = "idle" /\ NoRun.d = None /\ ~NoRun.locked /\ NoRun.at = 0
  BY DEF NoRun

\* A run that is not idle is a run of a delivery, and so is a callback.
LEMMA BusyRun ==
  ASSUME TypeOK, NEW w \in Worker, work[w].pc # "idle" \/ work[w].locked \/ work[w].d \in Delivery
  PROVE  work[w] \in Runs /\ work[w].d \in Delivery /\ work[w] # NoRun
  BY Bounds DEF TypeOK, NoRun, Runs

\* A callback that is not idle is of a delivery, too.
LEMMA BusyCallback ==
  ASSUME TypeOK, NEW h \in Handler, cb[h].pc # "idle"
  PROVE  cb[h] \in Callbacks /\ cb[h].d \in Delivery /\ cb[h].next \in Reported
  BY DEF TypeOK, NoCallback, Callbacks

\* A step that only moves a run to another pc.
LEMMA SetPc ==
  ASSUME TypeOK, NEW w \in Worker, work[w] \in Runs, NEW p \in Stages, work' = [work EXCEPT ![w].pc = p]
  PROVE  /\ work'[w] \in Runs /\ work'[w].pc = p /\ work'[w].at = work[w].at /\ work'[w].sid = work[w].sid
         /\ work'[w].d = work[w].d /\ work'[w].attempt = work[w].attempt /\ work'[w].locked = work[w].locked
         /\ \A v \in Worker : v # w => work'[v] = work[v]
         /\ work' \in [Worker -> {NoRun} \cup Runs]
<1>1. work' = [work EXCEPT ![w] = [work[w] EXCEPT !.pc = p]]
  OBVIOUS
<1>2. [work[w] EXCEPT !.pc = p] \in Runs
  BY DEF Runs, Stages
<1>3. work'[w] = [work[w] EXCEPT !.pc = p] /\ work' \in [Worker -> {NoRun} \cup Runs]
      /\ \A v \in Worker : v # w => work'[v] = work[v]
  BY <1>1, <1>2 DEF TypeOK
<1> QED  BY <1>2, <1>3 DEF Runs

\* The next channel of the chain, if one is left
Onward(w) ==
  \/ work[w].at < Channels /\ work'[w].pc = "send" /\ work'[w].at = work[w].at + 1
  \/ work[w].at = Channels /\ work'[w].pc = "giveup" /\ work'[w].at = work[w].at

\* The run after the failure of a channel.
LEMMA NextChannelFacts ==
  ASSUME TypeOK, NEW w \in Worker, work[w] \in Runs, NextChannel(w)
  PROVE  /\ work'[w] \in Runs /\ Onward(w) /\ work'[w].sid = work[w].sid
         /\ work'[w].d = work[w].d /\ work'[w].attempt = work[w].attempt /\ work'[w].locked = work[w].locked
         /\ \A v \in Worker : v # w => work'[v] = work[v]
         /\ work' \in [Worker -> {NoRun} \cup Runs]
<1> DEFINE r == work[w]
<1>1. work' = [work EXCEPT ![w] = OnTo(r)]
  BY DEF NextChannel
<1>2. r.at \in 1..Channels
  BY DEF Runs
<1>3. CASE r.at < Channels
  <2>1. OnTo(r) = [r EXCEPT !.pc = "send", !.at = r.at + 1]
    BY <1>3 DEF OnTo
  <2>2. OnTo(r) \in Runs
    <3>1. r.at + 1 \in 1..Channels
      BY <1>2, <1>3, Bounds
    <3> QED  BY <2>1, <3>1 DEF Runs
  <2>3. work'[w] = OnTo(r) /\ work' \in [Worker -> {NoRun} \cup Runs]
        /\ \A v \in Worker : v # w => work'[v] = work[v]
    BY <1>1, <2>2 DEF TypeOK
  <2> QED  BY <1>3, <2>1, <2>2, <2>3 DEF Runs, Onward
<1>4. CASE ~(r.at < Channels)
  <2>1. OnTo(r) = [r EXCEPT !.pc = "giveup"] /\ r.at = Channels
    BY <1>2, <1>4, Bounds DEF OnTo
  <2>2. OnTo(r) \in Runs
    BY <2>1 DEF Runs
  <2>3. work'[w] = OnTo(r) /\ work' \in [Worker -> {NoRun} \cup Runs]
        /\ \A v \in Worker : v # w => work'[v] = work[v]
    BY <1>1, <2>2 DEF TypeOK
  <2> QED  BY <2>1, <2>2, <2>3 DEF Runs, Onward
<1> QED  BY <1>3, <1>4

-----------------------------------------------------------------------------
\* The steps of a run between its start and its end
Step(w) ==
  \/ SendAccepted(w) \/ SendRefused(w) \/ SendUnanswered(w)
  \/ RecordSent(w) \/ RecordFails(w) \/ EmitSent(w)
  \/ GiveUp(w) \/ GiveUpFails(w) \/ EmitFailed(w)

\* What they do to the run: it stays at its delivery, and goes forward.
LEMMA StepWork ==
  ASSUME TypeOK, NEW w \in Worker, Step(w)
  PROVE  /\ UNCHANGED <<job, cb>> /\ work' \in [Worker -> {NoRun} \cup Runs]
         /\ work[w] \in Runs /\ work'[w] \in Runs /\ work[w].d \in Delivery
         /\ work[w] # NoRun /\ work'[w] # NoRun
         /\ \A v \in Worker : /\ work'[v].d = work[v].d /\ work'[v].locked = work[v].locked
                              /\ work'[v].attempt = work[v].attempt
                              /\ v # w => work'[v] = work[v]
         /\ \/ Onward(w) /\ work[w].pc \in {"send", "record"}
            \/ work'[w].at = work[w].at /\ work'[w].pc \notin {"send", "giveup"}
         /\ work'[w].pc = "record" =>
              SendAccepted(w) /\ work'[w].sid \in {0, Len(msgs) + 1} /\ msgs' = Append(msgs, work[w].d)
<1>1. UNCHANGED <<job, cb>> /\ work[w].pc # "idle"
  BY DEF Step, SendAccepted, SendRefused, SendUnanswered, RecordSent, RecordFails, EmitSent,
         GiveUp, GiveUpFails, EmitFailed
<1>2. work[w] \in Runs /\ work[w].d \in Delivery /\ work[w] # NoRun
  BY <1>1, BusyRun
<1>3. CASE SendAccepted(w)
  <2>1. Len(msgs) + 1 \in Nat
    BY DEF TypeOK
  <2>2. PICK sid \in {0, Len(msgs) + 1} :
          work' = [work EXCEPT ![w] = [work[w] EXCEPT !.pc = "record", !.sid = sid]]
    BY <1>3 DEF SendAccepted, TypeOK
  <2>3. [work[w] EXCEPT !.pc = "record", !.sid = sid] \in Runs
    <3>1. sid \in Nat
      BY <2>1
    <3> QED  BY <1>2, <3>1 DEF Runs
  <2>4. /\ work'[w] = [work[w] EXCEPT !.pc = "record", !.sid = sid]
        /\ \A v \in Worker : v # w => work'[v] = work[v]
        /\ work' \in [Worker -> {NoRun} \cup Runs]
    BY <2>2, <2>3 DEF TypeOK
  <2>5. /\ work'[w].pc = "record" /\ work'[w].at = work[w].at /\ work'[w].sid = sid
        /\ work'[w].d = work[w].d /\ work'[w].attempt = work[w].attempt /\ work'[w].locked = work[w].locked
    BY <1>2, <2>4 DEF Runs
  <2>6. msgs' = Append(msgs, work[w].d)
    BY <1>3 DEF SendAccepted
  <2> QED  BY <1>1, <1>2, <1>3, <2>3, <2>4, <2>5, <2>6, NoRunIs
<1>4. CASE SendRefused(w) \/ SendUnanswered(w) \/ RecordFails(w)
  <2>1. NextChannel(w) /\ work[w].pc \in {"send", "record"}
    BY <1>4 DEF SendRefused, SendUnanswered, RecordFails
  <2> QED  BY <1>1, <1>2, <2>1, NextChannelFacts DEF Onward, NoRun
<1>5. ASSUME NEW p \in Stages \ {"send", "giveup", "record"}, work' = [work EXCEPT ![w].pc = p]
      PROVE  /\ work' \in [Worker -> {NoRun} \cup Runs]
             /\ work'[w] \in Runs /\ work'[w] # NoRun
             /\ \A v \in Worker : /\ work'[v].d = work[v].d /\ work'[v].locked = work[v].locked
                                  /\ work'[v].attempt = work[v].attempt
                                  /\ v # w => work'[v] = work[v]
             /\ work'[w].at = work[w].at /\ work'[w].pc \notin {"send", "giveup", "record"}
  <2>1. p \in Stages /\ p \notin {"send", "giveup", "record", "idle"}
    BY <1>5 DEF Stages
  <2>2. /\ work'[w] \in Runs /\ work'[w].pc = p /\ work'[w].at = work[w].at
        /\ work'[w].d = work[w].d /\ work'[w].attempt = work[w].attempt /\ work'[w].locked = work[w].locked
        /\ \A v \in Worker : v # w => work'[v] = work[v]
        /\ work' \in [Worker -> {NoRun} \cup Runs]
    BY <1>2, <1>5, <2>1, SetPc
  <2> QED  BY <2>1, <2>2, NoRunIs
<1>6. CASE RecordSent(w) \/ EmitSent(w) \/ GiveUp(w) \/ GiveUpFails(w) \/ EmitFailed(w)
  <2>1. \E p \in Stages \ {"send", "giveup", "record"} : work' = [work EXCEPT ![w].pc = p]
    BY <1>6 DEF RecordSent, EmitSent, GiveUp, GiveUpFails, EmitFailed, Stages
  <2> QED  BY <1>1, <1>2, <1>5, <2>1
<1> QED  BY <1>3, <1>4, <1>6 DEF Step

\* The provider gets one message more, or none.
LEMMA StepMsgs ==
  ASSUME NEW w \in Worker, Step(w)
  PROVE  msgs' = msgs \/ (work[w].pc = "send" /\ msgs' = Append(msgs, work[w].d))
  BY DEF Step, SendAccepted, SendRefused, SendUnanswered, RecordSent, RecordFails, EmitSent,
         GiveUp, GiveUpFails, EmitFailed

\* One message more, of the delivery it was sent for.
LEMMA Appended ==
  ASSUME TypeOK, NEW e \in Delivery, msgs' = Append(msgs, e)
  PROVE  /\ msgs' \in Seq(Delivery)
         /\ MessagesOf(e)' = MessagesOf(e) \cup {Len(msgs) + 1} /\ Len(msgs) + 1 \notin MessagesOf(e)
         /\ \A d \in Delivery : d # e => MessagesOf(d)' = MessagesOf(d)
<1>1. msgs \in Seq(Delivery) /\ Len(msgs) \in Nat
  BY DEF TypeOK
<1>2. /\ msgs' \in Seq(Delivery) /\ Len(msgs') = Len(msgs) + 1
      /\ \A i \in 1..Len(msgs) : msgs'[i] = msgs[i]
      /\ msgs'[Len(msgs) + 1] = e
  BY <1>1
<1>3. DOMAIN msgs = 1..Len(msgs) /\ DOMAIN msgs' = 1..(Len(msgs) + 1)
  BY <1>1, <1>2
<1> QED  BY <1>1, <1>2, <1>3 DEF MessagesOf

\* What becomes of the row, of the events and of the mishaps.
LEMMA StepRow ==
  ASSUME TypeOK, NEW w \in Worker, Step(w)
  PROVE  LET d == work[w].d
         IN  /\ \A e \in Delivery : e # d => row'[e] = row[e]
             /\ \/ row'[d] = row[d]
                \/ /\ work[w].pc = "record" /\ row'[d].status = "sent" /\ row'[d].sid = StoredSid(w)
                   /\ row'[d].attempts = work[w].attempt
                \/ /\ GiveUp(w) /\ row'[d].sid = row[d].sid /\ row'[d].attempts = work[w].attempt
                   /\ row'[d].status = IF IsLastAttempt(w) THEN "failed" ELSE "queued"
<1> DEFINE d == work[w].d
<1>1. d \in Delivery
  BY StepWork
<1>2. CASE row' = Sent(w) /\ work[w].pc = "record"
  BY <1>1, <1>2 DEF Sent, TypeOK
<1>3. CASE GiveUp(w)
  <2> DEFINE s == IF IsLastAttempt(w) THEN "failed" ELSE "queued"
  <2>1. row' = [row EXCEPT ![d] = [row[d] EXCEPT !.status = s, !.attempts = work[w].attempt]]
    BY <1>3 DEF GiveUp, TypeOK
  <2>2. row'[d] = [row[d] EXCEPT !.status = s, !.attempts = work[w].attempt]
    BY <1>1, <2>1 DEF TypeOK
  <2>3. row'[d].status = s /\ row'[d].sid = row[d].sid /\ row'[d].attempts = work[w].attempt
    BY <1>1, <2>2 DEF TypeOK
  <2>4. \A e \in Delivery : e # d => row'[e] = row[e]
    BY <2>1 DEF TypeOK
  <2> QED  BY <1>3, <2>3, <2>4
<1>4. CASE row' = row
  BY <1>4
<1> QED  BY <1>2, <1>3, <1>4 DEF Step, SendAccepted, SendRefused, SendUnanswered, RecordSent, RecordFails,
            EmitSent, GiveUpFails, EmitFailed

\* An event is added, or lost to a mishap.
LEMMA EmitFacts ==
  ASSUME TypeOK, NEW d \in Delivery, NEW type \in Reported, Emit(d, type)
  PROVE  /\ events' \in [Delivery -> SUBSET Reported]
         /\ \A e \in Delivery : events[e] \subseteq events'[e] /\ (e # d => events'[e] = events[e])
         /\ Mishap(d) \/ (type \in events'[d] /\ UNCHANGED mishaps)
  BY DEF Emit, TypeOK

\* A mishap of one delivery is none of another.
LEMMA MishapFacts ==
  ASSUME TypeOK, NEW d \in Delivery, Mishap(d)
  PROVE  /\ mishaps' \in [Delivery -> 0..MaxMishaps] /\ ~Unharmed(d)'
         /\ \A e \in Delivery : e # d => mishaps'[e] = mishaps[e]
  BY Bounds DEF Mishap, Unharmed, TypeOK

\* What a step of a run does to the mishaps and the events.
LEMMA StepHarm ==
  ASSUME TypeOK, NEW w \in Worker, Step(w)
  PROVE  LET d == work[w].d
         IN  /\ mishaps' \in [Delivery -> 0..MaxMishaps] /\ events' \in [Delivery -> SUBSET Reported]
             /\ \A e \in Delivery : e # d => mishaps'[e] = mishaps[e] /\ events'[e] = events[e]
             /\ \A e \in Delivery : events[e] \subseteq events'[e]
             /\ Mishap(d) \/ UNCHANGED mishaps
<1> DEFINE d == work[w].d
<1>1. d \in Delivery
  BY StepWork
<1>2. CASE EmitSent(w)
  <2>1. Emit(d, "sent")
    BY <1>2 DEF EmitSent
  <2> QED  BY <1>1, <2>1, EmitFacts, MishapFacts DEF Reported, TypeOK
<1>3. CASE EmitFailed(w)
  <2>1. Emit(d, "failed")
    BY <1>3 DEF EmitFailed
  <2> QED  BY <1>1, <2>1, EmitFacts, MishapFacts DEF Reported, TypeOK
<1>4. CASE events' = events /\ (Mishap(d) \/ UNCHANGED mishaps)
  BY <1>1, <1>4, MishapFacts DEF TypeOK
<1> QED  BY <1>2, <1>3, <1>4 DEF Step, SendAccepted, SendRefused, SendUnanswered, RecordSent, RecordFails,
            GiveUp, GiveUpFails

\* The start of a run.
LEMMA TakeFacts ==
  ASSUME TypeOK, NEW w \in Worker, NEW d \in Delivery, Take(w, d)
  PROVE  /\ UNCHANGED <<row, msgs, cb, events, mishaps>>
         /\ work[w] = NoRun /\ job[d].state = "waiting"
         /\ work'[w] # NoRun
         /\ work'[w].pc = "send" /\ work'[w].d = d /\ work'[w].at = 1 /\ work'[w].locked
         /\ work'[w].attempt = job[d].made + 1 /\ work'[w].sid = 0
         /\ \A v \in Worker : v # w => work'[v] = work[v]
         /\ job' \in [Delivery -> Jobs]
         /\ job'[d].state = "active" /\ job'[d].made = job[d].made /\ job'[d].stalls = job[d].stalls
         /\ \A e \in Delivery : e # d => job'[e] = job[e]
<1>1. work[w] = NoRun /\ job[d].state = "waiting" /\ UNCHANGED <<row, msgs, cb, events, mishaps>>
  BY DEF Take, TypeOK, Runs
<1>2. work' = [work EXCEPT ![w] = [pc |-> "send", d |-> d, at |-> 1, sid |-> 0,
                                   attempt |-> job[d].made + 1, locked |-> TRUE]]
  BY DEF Take
<1>3. /\ work'[w] = [pc |-> "send", d |-> d, at |-> 1, sid |-> 0, attempt |-> job[d].made + 1, locked |-> TRUE]
      /\ \A v \in Worker : v # w => work'[v] = work[v]
  BY <1>2 DEF TypeOK
<1>4. /\ work'[w].pc = "send" /\ work'[w].d = d /\ work'[w].at = 1 /\ work'[w].locked
      /\ work'[w].attempt = job[d].made + 1 /\ work'[w].sid = 0
  BY <1>3
<1>5. job[d] \in Jobs /\ job' = [job EXCEPT ![d] = [job[d] EXCEPT !.state = "active"]]
  BY DEF Take, TypeOK
<1>6. [job[d] EXCEPT !.state = "active"] \in Jobs
  BY <1>5 DEF Jobs, JobStates
<1>7. /\ job' \in [Delivery -> Jobs]
      /\ job'[d] = [job[d] EXCEPT !.state = "active"] /\ \A e \in Delivery : e # d => job'[e] = job[e]
  BY <1>5, <1>6 DEF TypeOK
<1>8. job'[d].state = "active" /\ job'[d].made = job[d].made /\ job'[d].stalls = job[d].stalls
  BY <1>5, <1>7 DEF Jobs
<1> QED  BY <1>1, <1>2, <1>3, <1>4, <1>7, <1>8, NoRunIs

\* The end of a run, and what it does to its job.
LEMMA EndFacts ==
  ASSUME TypeOK, NEW w \in Worker, Complete(w) \/ Throw(w) \/ Crash(w)
  PROVE  /\ work[w] \in Runs /\ work[w].d \in Delivery /\ work[w] # NoRun
         /\ \A v \in Worker : work'[v] = IF v = w THEN NoRun ELSE work[v]
         /\ work' \in [Worker -> {NoRun} \cup Runs]
         /\ UNCHANGED <<row, msgs, cb, events>>
         /\ \A d \in Delivery : d # work[w].d => job'[d] = job[d]
         /\ LET j == job[work[w].d]
                k == job'[work[w].d]
            IN  \/ k = j /\ job' = job /\ Crash(w)
                \/ k = j /\ job' = job /\ ~work[w].locked /\ UNCHANGED mishaps
                \/ /\ work[w].locked /\ work[w].pc = "done" /\ UNCHANGED mishaps
                   /\ k.state = "completed" /\ k.made = j.made /\ k.stalls = j.stalls
                \/ /\ work[w].locked /\ work[w].pc = "throw" /\ UNCHANGED mishaps
                   /\ k.state = IF j.made + 1 < Attempts THEN "waiting" ELSE "failed"
                   /\ k.made = j.made + 1 /\ k.stalls = j.stalls
<1>1. work[w].pc # "idle" /\ work' = [work EXCEPT ![w] = NoRun] /\ UNCHANGED <<row, msgs, cb, events>>
  BY DEF Complete, Throw, Crash
<1>2. work[w] \in Runs /\ work[w].d \in Delivery /\ work[w] # NoRun /\ job[work[w].d] \in Jobs
  BY <1>1, BusyRun DEF TypeOK
<1>3. (\A v \in Worker : work'[v] = IF v = w THEN NoRun ELSE work[v]) /\ work' \in [Worker -> {NoRun} \cup Runs]
  BY <1>1 DEF TypeOK
<1>4. CASE Crash(w) \/ (~work[w].locked /\ UNCHANGED <<job, mishaps>>)
  BY <1>1, <1>2, <1>3, <1>4 DEF Crash
<1>5. CASE work[w].locked /\ Complete(w)
  <2>1. job' = [job EXCEPT ![work[w].d] = [job[work[w].d] EXCEPT !.state = "completed"]]
    BY <1>5 DEF Complete, TypeOK
  <2> QED  BY <1>1, <1>2, <1>3, <1>5, <2>1 DEF TypeOK, Jobs, Complete
<1>6. CASE work[w].locked /\ Throw(w)
  <2>1. job' = [job EXCEPT ![work[w].d] = Retry(w)]
    BY <1>6 DEF Throw
  <2> QED  BY <1>1, <1>2, <1>3, <1>6, <2>1 DEF TypeOK, Jobs, Throw, Retry
<1> QED  BY <1>4, <1>5, <1>6 DEF Complete, Throw

\* A lock that is lost.
LEMMA LoseLockFacts ==
  ASSUME TypeOK, NEW w \in Worker, LoseLock(w)
  PROVE  /\ UNCHANGED <<row, job, msgs, cb, events>> /\ Mishap(work[w].d)
         /\ work[w] \in Runs /\ work'[w] \in Runs /\ work[w].d \in Delivery
         /\ work[w].locked /\ ~work'[w].locked /\ work[w] # NoRun /\ work'[w] # NoRun
         /\ \A v \in Worker : /\ work'[v].d = work[v].d /\ work'[v].pc = work[v].pc /\ work'[v].at = work[v].at
                              /\ work'[v].sid = work[v].sid /\ work'[v].attempt = work[v].attempt
                              /\ v # w => work'[v] = work[v]
         /\ work' \in [Worker -> {NoRun} \cup Runs]
<1>1. work[w] \in Runs /\ work[w].d \in Delivery /\ work[w].pc # "idle" /\ work[w] # NoRun
  BY BusyRun DEF LoseLock, Runs
<1>2. work' = [work EXCEPT ![w] = [work[w] EXCEPT !.locked = FALSE]]
  BY DEF LoseLock, TypeOK
<1>3. [work[w] EXCEPT !.locked = FALSE] \in Runs
  BY <1>1 DEF Runs
<1>4. /\ work'[w] = [work[w] EXCEPT !.locked = FALSE] /\ \A v \in Worker : v # w => work'[v] = work[v]
      /\ work' \in [Worker -> {NoRun} \cup Runs]
  BY <1>2, <1>3 DEF TypeOK
<1>5. /\ work'[w].d = work[w].d /\ work'[w].pc = work[w].pc /\ work'[w].at = work[w].at
      /\ work'[w].sid = work[w].sid /\ work'[w].attempt = work[w].attempt /\ ~work'[w].locked
  BY <1>1, <1>4 DEF Runs
<1> QED  BY <1>1, <1>3, <1>4, <1>5, NoRunIs DEF LoseLock

\* A job that stalls.
LEMMA StalledFacts ==
  ASSUME TypeOK, NEW d \in Delivery, Stalled(d)
  PROVE  /\ UNCHANGED <<row, work, msgs, cb, events, mishaps>> /\ job' \in [Delivery -> Jobs]
         /\ job[d].state = "active" /\ \A w \in Worker : ~(work[w].d = d /\ work[w].locked)
         /\ \A e \in Delivery : e # d => job'[e] = job[e]
         /\ job'[d].made = job[d].made
         /\ \/ job'[d].state = "waiting" /\ job'[d].stalls = job[d].stalls + 1
            \/ job'[d].state = "failed" /\ job'[d].stalls = job[d].stalls
<1>1. job[d] \in Jobs /\ job' = [job EXCEPT ![d] = Restarted(job[d])]
  BY DEF Stalled, TypeOK
<1>2. job[d].stalls \in 0..MaxStalls
  BY <1>1 DEF Jobs
<1>3. CASE job[d].stalls < MaxStalls
  <2>1. job[d].stalls + 1 \in 0..MaxStalls
    BY <1>2, <1>3, Bounds
  <2>2. Restarted(job[d]) = [job[d] EXCEPT !.state = "waiting", !.stalls = job[d].stalls + 1]
    BY <1>3 DEF Restarted
  <2>3. Restarted(job[d]) \in Jobs
    BY <1>1, <2>1, <2>2 DEF Jobs, JobStates
  <2>4. job'[d] = Restarted(job[d]) /\ (\A e \in Delivery : e # d => job'[e] = job[e]) /\ job' \in [Delivery -> Jobs]
    BY <1>1, <2>3 DEF TypeOK
  <2> QED  BY <1>1, <2>2, <2>4 DEF Stalled, Held, Jobs
<1>4. CASE ~(job[d].stalls < MaxStalls)
  <2>1. Restarted(job[d]) = [job[d] EXCEPT !.state = "failed"]
    BY <1>4 DEF Restarted
  <2>2. Restarted(job[d]) \in Jobs
    BY <1>1, <2>1 DEF Jobs, JobStates
  <2>3. job'[d] = Restarted(job[d]) /\ (\A e \in Delivery : e # d => job'[e] = job[e]) /\ job' \in [Delivery -> Jobs]
    BY <1>1, <2>2 DEF TypeOK
  <2> QED  BY <1>1, <2>1, <2>3 DEF Stalled, Held, Jobs
<1> QED  BY <1>3, <1>4

\* The request: its row, then its job.
LEMMA RequestFacts ==
  ASSUME TypeOK, NEW d \in Delivery, Create(d) \/ Enqueue(d)
  PROVE  /\ UNCHANGED <<work, msgs, cb, events, mishaps>>
         /\ \A e \in Delivery : e # d => row'[e] = row[e] /\ job'[e] = job[e]
         /\ row'[d].sid = row[d].sid /\ row'[d].status \in {row[d].status, "queued"}
         /\ job'[d].made = job[d].made /\ job'[d].stalls = job[d].stalls
         /\ job'[d].state = job[d].state \/ (job[d].state = "none" /\ job'[d].state = "waiting")
         /\ TypeOK'
<1>1. CASE Create(d)
  <2>1. row' = [row EXCEPT ![d] = [row[d] EXCEPT !.status = "queued"]]
    BY <1>1 DEF Create, TypeOK
  <2>2. /\ row'[d].sid = row[d].sid /\ row'[d].status = "queued"
        /\ \A e \in Delivery : e # d => row'[e] = row[e]
        /\ row' \in [Delivery -> [status : {"none", "queued"} \cup Reported, sid : Nat, attempts : 0..Attempts]]
    BY <2>1 DEF TypeOK
  <2> QED  BY <1>1, <2>2 DEF Create, TypeOK
<1>2. CASE Enqueue(d)
  <2>1. job' = [job EXCEPT ![d] = [job[d] EXCEPT !.state = "waiting"]] /\ job[d] \in Jobs
    BY <1>2 DEF Enqueue, TypeOK
  <2>2. [job[d] EXCEPT !.state = "waiting"] \in Jobs
    BY <2>1 DEF Jobs, JobStates
  <2>3. /\ job'[d] = [job[d] EXCEPT !.state = "waiting"] /\ \A e \in Delivery : e # d => job'[e] = job[e]
        /\ job' \in [Delivery -> Jobs]
    BY <2>1, <2>2 DEF TypeOK
  <2>4. job'[d].made = job[d].made /\ job'[d].stalls = job[d].stalls /\ job'[d].state = "waiting"
    BY <2>1, <2>3 DEF Jobs
  <2> QED  BY <1>2, <2>3, <2>4 DEF Enqueue, TypeOK
<1> QED  BY <1>1, <1>2

-----------------------------------------------------------------------------
\* The callbacks.
LEMMA BeginFacts ==
  ASSUME TypeOK, NEW h \in Handler, NEW d \in Delivery, NEW sid \in DOMAIN msgs, NEW next \in Reported,
         CallbackBegin(h, d, sid, next)
  PROVE  /\ UNCHANGED <<row, job, work, msgs, events, mishaps>>
         /\ row[d].sid # 0 /\ row[d].status # "delivered" /\ cb[h] = NoCallback
         /\ cb'[h].pc = "update" /\ cb'[h].d = d /\ cb'[h].next = next
         /\ \A g \in Handler : g # h => cb'[g] = cb[g]
         /\ TypeOK'
<1>1. sid # 0
  BY DEF TypeOK
<1>2. cb[h] = NoCallback
  BY DEF CallbackBegin, TypeOK, Callbacks
<1>3. cb' = [cb EXCEPT ![h] = [pc |-> "update", d |-> d, next |-> next]]
  BY DEF CallbackBegin
<1>4. [pc |-> "update", d |-> d, next |-> next] \in Callbacks
  BY DEF Callbacks
<1>5. /\ cb'[h] = [pc |-> "update", d |-> d, next |-> next]
      /\ \A g \in Handler : g # h => cb'[g] = cb[g]
      /\ cb' \in [Handler -> {NoCallback} \cup Callbacks]
  BY <1>3, <1>4 DEF TypeOK
<1>6. UNCHANGED <<row, job, work, msgs, events, mishaps>> /\ row[d].sid = sid /\ row[d].status # "delivered"
  BY DEF CallbackBegin, AlreadyDone
<1>7. TypeOK'
  BY <1>5, <1>6 DEF TypeOK
<1> QED  BY <1>1, <1>2, <1>5, <1>6, <1>7

\* A step of a callback under way: the update, the event, or a failure.
LEMMA CallbackFacts ==
  ASSUME TypeOK, NEW h \in Handler, Callback(h)
  PROVE  LET d == cb[h].d
             next == cb[h].next
         IN  /\ UNCHANGED <<job, work, msgs>> /\ TypeOK'
             /\ cb[h].pc # "idle" /\ d \in Delivery /\ next \in Reported
             /\ \A g \in Handler : g # h => cb'[g] = cb[g]
             /\ \A e \in Delivery : e # d => row'[e] = row[e] /\ events'[e] = events[e] /\ mishaps'[e] = mishaps[e]
             /\ \A e \in Delivery : events[e] \subseteq events'[e]
             /\ \/ /\ cb[h].pc = "update" /\ row'[d].status = next /\ row'[d].sid = row[d].sid
                   /\ UNCHANGED <<events, mishaps>>
                   /\ IF next \in {"delivered", "failed"}
                      THEN cb'[h].pc = "emit" /\ cb'[h].d = d /\ cb'[h].next = next
                      ELSE cb'[h] = NoCallback
                \/ /\ cb[h].pc = "emit" /\ row' = row /\ cb'[h] = NoCallback
                   /\ next \in events'[d] /\ UNCHANGED mishaps
                \/ row' = row /\ Mishap(d) /\ cb'[h] = NoCallback
<1> DEFINE d == cb[h].d
           next == cb[h].next
<1>1. cb[h].pc # "idle" /\ UNCHANGED <<job, work, msgs>>
  BY DEF Callback, CallbackUpdate, CallbackEmit, CallbackFails
<1>2. cb[h] \in Callbacks /\ d \in Delivery /\ next \in Reported
  BY <1>1, BusyCallback
<1>3. CASE CallbackUpdate(h)
  <2> DEFINE c == IF next \in {"delivered", "failed"} THEN [cb[h] EXCEPT !.pc = "emit"] ELSE NoCallback
  <2>1. row' = [row EXCEPT ![d] = [row[d] EXCEPT !.status = next]]
    BY <1>3 DEF CallbackUpdate, TypeOK
  <2>2. /\ row'[d].sid = row[d].sid /\ row'[d].status = next /\ \A e \in Delivery : e # d => row'[e] = row[e]
        /\ row' \in [Delivery -> [status : {"none", "queued"} \cup Reported, sid : Nat, attempts : 0..Attempts]]
    BY <1>2, <2>1 DEF TypeOK
  <2>3. cb' = [cb EXCEPT ![h] = c]
    BY <1>3 DEF CallbackUpdate, Announces
  <2>4. [cb[h] EXCEPT !.pc = "emit"] \in Callbacks
    BY <1>2 DEF Callbacks
  <2>5. cb'[h] = c /\ (\A g \in Handler : g # h => cb'[g] = cb[g]) /\ cb' \in [Handler -> {NoCallback} \cup Callbacks]
    BY <2>3, <2>4 DEF TypeOK
  <2>6. next \in {"delivered", "failed"} => cb'[h].pc = "emit" /\ cb'[h].d = d /\ cb'[h].next = next
    BY <1>2, <2>5 DEF Callbacks
  <2>7. cb[h].pc = "update" /\ UNCHANGED <<events, mishaps>>
    BY <1>3 DEF CallbackUpdate
  <2>8. TypeOK'
    BY <1>1, <2>2, <2>5, <2>7 DEF TypeOK
  <2> QED  BY <1>1, <1>2, <2>2, <2>5, <2>6, <2>7, <2>8
<1>4. CASE CallbackEmit(h) \/ CallbackFails(h)
  <2>1. cb' = [cb EXCEPT ![h] = NoCallback] /\ row' = row
    BY <1>4 DEF CallbackEmit, CallbackFails
  <2>2. /\ cb'[h] = NoCallback /\ \A g \in Handler : g # h => cb'[g] = cb[g]
        /\ cb' \in [Handler -> {NoCallback} \cup Callbacks]
    BY <2>1 DEF TypeOK
  <2>3. (cb[h].pc = "emit" /\ Emit(d, next)) \/ (Mishap(d) /\ events' = events)
    BY <1>4 DEF CallbackEmit, CallbackFails
  <2>4. /\ events' \in [Delivery -> SUBSET Reported]
        /\ \A e \in Delivery : events[e] \subseteq events'[e] /\ (e # d => events'[e] = events[e])
        /\ \/ Mishap(d)
           \/ cb[h].pc = "emit" /\ next \in events'[d] /\ UNCHANGED mishaps
    <3>1. CASE Mishap(d) /\ events' = events
      BY <3>1 DEF TypeOK
    <3>2. CASE cb[h].pc = "emit" /\ Emit(d, next)
      BY <1>2, <3>2, EmitFacts
    <3> QED  BY <2>3, <3>1, <3>2
  <2>5. mishaps' \in [Delivery -> 0..MaxMishaps] /\ \A e \in Delivery : e # d => mishaps'[e] = mishaps[e]
    BY <1>2, <2>4, MishapFacts DEF TypeOK
  <2>6. TypeOK'
    BY <1>1, <2>1, <2>2, <2>4, <2>5 DEF TypeOK
  <2> QED  BY <1>1, <1>2, <2>1, <2>2, <2>4, <2>5, <2>6
<1> QED  BY <1>3, <1>4 DEF Callback

\* What Next can do: the request, the four kinds of step of a run, the queue, the callbacks.
LEMMA NextCases ==
  ASSUME Next
  PROVE  \/ \E d \in Delivery : Create(d) \/ Enqueue(d) \/ Stalled(d)
         \/ \E w \in Worker, d \in Delivery : Take(w, d)
         \/ \E w \in Worker : Step(w) \/ Complete(w) \/ Throw(w) \/ Crash(w) \/ LoseLock(w)
         \/ \E h \in Handler : Callback(h)
         \/ \E h \in Handler, d \in Delivery, sid \in DOMAIN msgs, next \in Reported : CallbackBegin(h, d, sid, next)
  BY DEF Next, Run, Step

\* Types at the start, after a step of a run, and after every step.
LEMMA TypeInit == Init => TypeOK
<1> USE Bounds
<1> QED  BY DEF Init, TypeOK, Jobs, JobStates

\* A step of a run keeps the types.
LEMMA TypeStep ==
  ASSUME TypeOK, NEW w \in Worker, Step(w) PROVE TypeOK'
<1>1. /\ UNCHANGED <<job, cb>> /\ work' \in [Worker -> {NoRun} \cup Runs]
      /\ work[w] \in Runs /\ work[w].d \in Delivery
  BY StepWork
<1>2. msgs' \in Seq(Delivery)
  BY <1>1, StepMsgs, Appended DEF TypeOK
<1>3. mishaps' \in [Delivery -> 0..MaxMishaps] /\ events' \in [Delivery -> SUBSET Reported]
  BY StepHarm
<1>4. row' \in [Delivery -> [status : {"none", "queued"} \cup Reported, sid : Nat, attempts : 0..Attempts]]
  <2>1. work[w].sid \in Nat /\ work[w].attempt \in 0..Attempts
    BY <1>1, Bounds DEF Runs
  <2>2. CASE row' = Sent(w)
    <3>1. StoredSid(w) \in Nat
      BY <1>1, <2>1 DEF StoredSid, TypeOK
    <3> QED  BY <1>1, <2>1, <2>2, <3>1 DEF Sent, TypeOK, Reported
  <2>3. CASE GiveUp(w)
    <3> DEFINE s == IF IsLastAttempt(w) THEN "failed" ELSE "queued"
    <3>1. row' = [row EXCEPT ![work[w].d] = [row[work[w].d] EXCEPT !.status = s, !.attempts = work[w].attempt]]
      BY <2>3 DEF GiveUp, TypeOK
    <3>2. s \in {"none", "queued"} \cup Reported
      BY DEF Reported
    <3> HIDE DEF s
    <3> QED  BY <1>1, <2>1, <3>1, <3>2 DEF TypeOK
  <2>4. CASE row' = row
    BY <2>4 DEF TypeOK
  <2> QED  BY <2>2, <2>3, <2>4 DEF Step, SendAccepted, SendRefused, SendUnanswered, RecordSent, RecordFails,
              EmitSent, GiveUpFails, EmitFailed
<1> QED  BY <1>1, <1>2, <1>3, <1>4 DEF TypeOK

\* Every step keeps the types: the attempt of a run is one the queue still has.
LEMMA TypeNext ==
  ASSUME TypeOK, JobsHeld, Next PROVE TypeOK'
<1>1. ASSUME NEW d \in Delivery, Create(d) \/ Enqueue(d) PROVE TypeOK'
  BY <1>1, RequestFacts
<1>2. ASSUME NEW d \in Delivery, Stalled(d) PROVE TypeOK'
  BY <1>2, StalledFacts DEF TypeOK
<1>3. ASSUME NEW w \in Worker, NEW d \in Delivery, Take(w, d) PROVE TypeOK'
  <2>1. job[d].made + 1 \in 1..Attempts
    <3>1. job[d].state = "waiting" /\ job[d].made \in Nat
      <4>1. job[d] \in Jobs
        BY DEF TypeOK
      <4>2. job[d].state = "waiting"
        BY <1>3, TakeFacts
      <4> QED  BY <4>1, <4>2, Bounds DEF Jobs
    <3>2. job[d].made < Attempts
      BY <3>1 DEF JobsHeld
    <3> QED  BY <3>1, <3>2, Bounds
  <2>2. [pc |-> "send", d |-> d, at |-> 1, sid |-> 0, attempt |-> job[d].made + 1, locked |-> TRUE] \in Runs
    BY <2>1, Bounds DEF Runs
  <2>3. work' \in [Worker -> {NoRun} \cup Runs]
    BY <1>3, <2>2 DEF Take, TypeOK
  <2> QED  BY <1>3, <2>3, TakeFacts DEF TypeOK
<1>4. ASSUME NEW w \in Worker, Step(w) PROVE TypeOK'
  BY <1>4, TypeStep
<1>5. ASSUME NEW w \in Worker, Complete(w) \/ Throw(w) \/ Crash(w) PROVE TypeOK'
  <2>1. /\ work[w] \in Runs /\ work[w].d \in Delivery /\ job[work[w].d] \in Jobs
        /\ work' \in [Worker -> {NoRun} \cup Runs] /\ UNCHANGED <<row, msgs, cb, events>>
    BY <1>5, EndFacts DEF TypeOK
  <2>2. mishaps' \in [Delivery -> 0..MaxMishaps]
    BY <1>5, <2>1, MishapFacts DEF Complete, Throw, Crash, TypeOK
  <2>3. job' \in [Delivery -> Jobs]
    <3>1. CASE Complete(w) /\ work[w].locked
      <4>1. job' = [job EXCEPT ![work[w].d] = [job[work[w].d] EXCEPT !.state = "completed"]]
        BY <3>1 DEF Complete, TypeOK
      <4>2. [job[work[w].d] EXCEPT !.state = "completed"] \in Jobs
        BY <2>1 DEF Jobs, JobStates
      <4> QED  BY <4>1, <4>2 DEF TypeOK
    <3>2. CASE Throw(w) /\ work[w].locked
      <4>1. job' = [job EXCEPT ![work[w].d] = Retry(w)]
        BY <3>2 DEF Throw
      <4>2. job[work[w].d].made + 1 \in 0..Attempts
        <5>1. job[work[w].d].made < Attempts /\ job[work[w].d].made \in Nat
          BY <2>1, <3>2 DEF JobsHeld, Jobs
        <5> QED  BY <5>1, Bounds
      <4>3. Retry(w) \in Jobs
        BY <2>1, <4>2 DEF Retry, Jobs, JobStates
      <4> QED  BY <4>1, <4>3 DEF TypeOK
    <3>3. CASE job' = job
      BY <3>3 DEF TypeOK
    <3> QED  BY <1>5, <3>1, <3>2, <3>3 DEF Complete, Throw, Crash
  <2> QED  BY <2>1, <2>2, <2>3 DEF TypeOK
<1>6. ASSUME NEW w \in Worker, LoseLock(w) PROVE TypeOK'
  <2>1. work[w].d \in Delivery /\ Mishap(work[w].d)
    BY <1>6, LoseLockFacts
  <2>2. mishaps' \in [Delivery -> 0..MaxMishaps]
    BY <2>1, MishapFacts
  <2> QED  BY <1>6, <2>2, LoseLockFacts DEF TypeOK
<1>7. ASSUME NEW h \in Handler, Callback(h) PROVE TypeOK'
  BY <1>7, CallbackFacts
<1>8. ASSUME NEW h \in Handler, NEW d \in Delivery, NEW sid \in DOMAIN msgs, NEW next \in Reported,
             CallbackBegin(h, d, sid, next)
      PROVE  TypeOK'
  BY <1>8, BeginFacts
<1> QED  BY <1>1, <1>2, <1>3, <1>4, <1>5, <1>6, <1>7, <1>8, NextCases

-----------------------------------------------------------------------------
\* Runs that stay at their deliveries and take no lock leave the invariant on jobs as it is.
LEMMA JobsHeldKept ==
  ASSUME JobsHeld, job' = job,
         \A v \in Worker : /\ work'[v] # NoRun => work[v] # NoRun
                           /\ work'[v].locked => work[v].locked
                           /\ work'[v].d = work[v].d
                           /\ work'[v].attempt = work[v].attempt
  PROVE  JobsHeld'
<1>1. ASSUME NEW v \in Worker, work'[v] # NoRun PROVE job'[work'[v].d].state # "none"
  BY <1>1 DEF JobsHeld
<1>2. ASSUME NEW v \in Worker, work'[v].locked
      PROVE  job'[work'[v].d].state = "active" /\ work'[v].attempt = job'[work'[v].d].made + 1
  BY <1>2 DEF JobsHeld
<1>3. ASSUME NEW u \in Worker, NEW v \in Worker, work'[u].locked, work'[v].locked, work'[u].d = work'[v].d
      PROVE  u = v
  BY <1>3 DEF JobsHeld
<1>4. \A d \in Delivery : job'[d].state # "failed" => job'[d].made < Attempts
  BY DEF JobsHeld
<1> QED  BY <1>1, <1>2, <1>3, <1>4 DEF JobsHeld

\* Every step keeps the invariant on jobs.
LEMMA JobsHeldNext == ASSUME IInv, Next PROVE JobsHeld'
<1> USE AttemptsAssumption
<1>1. TypeOK /\ JobsHeld
  BY DEF IInv
<1>2. \A w \in Worker : work[w] # NoRun => work[w].d \in Delivery
  BY <1>1 DEF TypeOK, Runs
<1>3. \A w \in Worker : work[w].locked => work[w] # NoRun
  BY NoRunIs
<1>4. ASSUME NEW d \in Delivery, Create(d) \/ Enqueue(d) PROVE JobsHeld'
  BY <1>1, <1>2, <1>3, <1>4, RequestFacts DEF JobsHeld
<1>5. ASSUME NEW w \in Worker, NEW d \in Delivery, Take(w, d) PROVE JobsHeld'
  <2>1. /\ work[w] = NoRun /\ job[d].state = "waiting" /\ work'[w] # NoRun
        /\ work'[w].d = d /\ work'[w].locked /\ work'[w].attempt = job[d].made + 1
        /\ \A v \in Worker : v # w => work'[v] = work[v]
        /\ job'[d].state = "active" /\ job'[d].made = job[d].made
        /\ \A e \in Delivery : e # d => job'[e] = job[e]
    BY <1>1, <1>5, TakeFacts
  <2> QED  BY <1>1, <1>2, <1>3, <2>1 DEF JobsHeld
<1>6. ASSUME NEW w \in Worker, Step(w) PROVE JobsHeld'
  BY <1>1, <1>6, StepWork, JobsHeldKept
<1>7. ASSUME NEW w \in Worker, Complete(w) \/ Throw(w) \/ Crash(w) PROVE JobsHeld'
  <2>1. \A v \in Worker : work'[v] # NoRun => v # w /\ work'[v] = work[v] /\ job[work[v].d].state # "none"
    BY <1>1, <1>7, EndFacts DEF JobsHeld
  <2>2. \A v \in Worker : work'[v].locked => work'[v] # NoRun
    BY NoRunIs
  <2>3. ASSUME work[w].locked
        PROVE  \A v \in Worker : work'[v].locked => work[v].d # work[w].d /\ work[v].d \in Delivery /\ work[v].locked
    BY <1>1, <1>2, <1>3, <1>7, <2>1, <2>2, <2>3, EndFacts DEF JobsHeld
  <2>4. \A v \in Worker : work'[v] # NoRun => job'[work'[v].d].state # "none"
    BY <1>1, <1>2, <1>7, <2>1, EndFacts DEF JobsHeld
  <2>5. \A v \in Worker : work'[v].locked =>
          job'[work'[v].d].state = "active" /\ work'[v].attempt = job'[work'[v].d].made + 1
    BY <1>1, <1>2, <1>3, <1>7, <2>1, <2>2, <2>3, EndFacts DEF JobsHeld
  <2>6. \A u, v \in Worker : work'[u].locked /\ work'[v].locked /\ work'[u].d = work'[v].d => u = v
    BY <1>1, <2>1, <2>2 DEF JobsHeld
  <2>7. \A d \in Delivery : job'[d].state # "failed" => job'[d].made < Attempts
    <3>1. \A d \in Delivery : d # work[w].d => job'[d] = job[d]
      BY <1>1, <1>7, EndFacts
    <3>2. job[work[w].d] \in Jobs /\ work[w].d \in Delivery
      BY <1>1, <1>7, EndFacts DEF TypeOK
    <3>3. job'[work[w].d].state # "failed" => job'[work[w].d].made < Attempts
      BY <1>1, <1>7, <3>2, EndFacts DEF JobsHeld
    <3> QED  BY <1>1, <3>1, <3>3 DEF JobsHeld
  <2> QED  BY <2>4, <2>5, <2>6, <2>7 DEF JobsHeld
<1>8. ASSUME NEW w \in Worker, LoseLock(w) PROVE JobsHeld'
  BY <1>1, <1>8, LoseLockFacts, JobsHeldKept
<1>9. ASSUME NEW d \in Delivery, Stalled(d) PROVE JobsHeld'
  BY <1>1, <1>2, <1>3, <1>9, StalledFacts DEF JobsHeld
<1>10. ASSUME UNCHANGED <<job, work>> PROVE JobsHeld'
  BY <1>1, <1>10, JobsHeldKept
<1>11. ASSUME NEW h \in Handler, Callback(h) PROVE JobsHeld'
  BY <1>1, <1>10, <1>11, CallbackFacts
<1>12. ASSUME NEW h \in Handler, NEW d \in Delivery, NEW sid \in DOMAIN msgs, NEW next \in Reported,
              CallbackBegin(h, d, sid, next)
       PROVE  JobsHeld'
  BY <1>10, <1>12 DEF CallbackBegin
<1> QED  BY <1>4, <1>5, <1>6, <1>7, <1>8, <1>9, <1>11, <1>12, NextCases

-----------------------------------------------------------------------------
\* The messages and the channels left are finitely many.
LEMMA MessagesFinite ==
  ASSUME TypeOK, NEW d
  PROVE  IsFiniteSet(MessagesOf(d)) /\ Cardinality(MessagesOf(d)) \in Nat
<1>1. DOMAIN msgs = 1..Len(msgs) /\ Len(msgs) \in Nat
  BY DEF TypeOK
<1>2. IsFiniteSet(1..Len(msgs))
  BY <1>1, FS_Interval
<1>3. MessagesOf(d) \subseteq 1..Len(msgs)
  BY <1>1 DEF MessagesOf
<1> QED  BY <1>2, <1>3, FS_Subset, FS_CardinalityType

\* The pairs of a run and a channel are finitely many.
LEMMA PairsFinite == IsFiniteSet(Worker \X (1..Channels)) /\ Cardinality(1..Channels) = Channels
<1>1. IsFiniteSet(1..Channels) /\ Cardinality(1..Channels) = Channels
  BY Bounds, FS_Interval
<1> QED  BY <1>1, Bounds, FS_Product

\* The channels left to try are finitely many.
LEMMA PendingFinite ==
  ASSUME NEW d
  PROVE  IsFiniteSet(Pending(d)) /\ Cardinality(Pending(d)) \in Nat
<1>1. Pending(d) \subseteq Worker \X (1..Channels)
  BY DEF Pending
<1> QED  BY <1>1, PairsFinite, FS_Subset, FS_CardinalityType

\* The runs started are counted by a number.
LEMMA StartedType ==
  ASSUME TypeOK, NEW d \in Delivery
  PROVE  Started(job[d]) \in Nat /\ job[d].made \in Nat /\ job[d].stalls \in Nat
<1>1. job[d] \in Jobs
  BY DEF TypeOK
<1> QED  BY <1>1, Bounds DEF Jobs, Started

\* Multiplication by the length of the chain.
LEMMA Times ==
  ASSUME NEW k \in Nat, NEW m \in Nat, NEW n \in Nat
  PROVE  /\ k * m \in Nat /\ k * (m + 1) = k * m + k
         /\ m <= n => k * m <= k * n
<1>1. k * m \in Nat /\ k * (m + 1) = k * m + k
  OBVIOUS
<1>2. ASSUME m <= n PROVE k * m <= k * n
  <2>1. PICK i \in Nat : n = m + i
    BY <1>2
  <2>2. k * n = k * m + k * i /\ k * i \in Nat
    BY <2>1
  <2> QED  BY <1>1, <2>2
<1> QED  BY <1>1, <1>2

\* No channel more to try, the same messages, no fewer runs started.
LEMMA AccountKept ==
  ASSUME TypeOK, MessagesAccounted, TypeOK', NEW d \in Delivery,
         Pending(d)' \subseteq Pending(d), MessagesOf(d)' = MessagesOf(d),
         Started(job'[d]) >= Started(job[d])
  PROVE  Cardinality(MessagesOf(d)') + Cardinality(Pending(d)') <= Channels * Started(job'[d])
<1>1. Cardinality(Pending(d)') <= Cardinality(Pending(d)) /\ Cardinality(Pending(d)') \in Nat
      /\ Cardinality(Pending(d)) \in Nat
  BY PendingFinite, FS_Subset, FS_CardinalityType
<1>2. Started(job[d]) \in Nat /\ Started(job'[d]) \in Nat
  <2>1. job[d] \in Jobs /\ job'[d] \in Jobs
    BY DEF TypeOK
  <2> QED  BY <2>1, Bounds DEF Jobs, Started
<1>3. Channels * Started(job[d]) <= Channels * Started(job'[d])
      /\ Channels * Started(job[d]) \in Nat /\ Channels * Started(job'[d]) \in Nat
  BY <1>2, Times, Bounds
<1>4. Cardinality(MessagesOf(d)) + Cardinality(Pending(d)) <= Channels * Started(job[d])
  BY DEF MessagesAccounted
<1> QED  BY <1>1, <1>3, <1>4, MessagesFinite

\* A message accepted is of a channel that was still to be tried.
LEMMA SentAccounted ==
  ASSUME TypeOK, NEW w \in Worker, Step(w), NEW d \in Delivery
  PROVE  /\ Pending(d)' \subseteq Pending(d)
         /\ work[w].d = d /\ work[w].pc = "send" =>
              <<w, work[w].at>> \in Pending(d) /\ <<w, work[w].at>> \notin Pending(d)'
<1>1. /\ work[w].at \in 1..Channels
      /\ \A v \in Worker : work'[v].d = work[v].d /\ (v # w => work'[v] = work[v])
      /\ \/ Onward(w) /\ work[w].pc \in {"send", "record"}
         \/ work'[w].at = work[w].at /\ work'[w].pc \notin {"send", "giveup"}
  BY StepWork DEF Runs
<1>2. ASSUME NEW c \in 1..Channels, c > work'[w].at \/ (c = work'[w].at /\ work'[w].pc = "send")
      PROVE  c > work[w].at
  BY <1>1, <1>2, Bounds DEF Onward
<1>3. Pending(d)' \subseteq Pending(d)
  <2> SUFFICES ASSUME NEW p \in Worker \X (1..Channels), p \in Pending(d)' PROVE p \in Pending(d)
    BY DEF Pending
  <2> DEFINE v == p[1]
             c == p[2]
  <2>1. work'[v].d = d /\ (c > work'[v].at \/ (c = work'[v].at /\ work'[v].pc = "send"))
    BY DEF Pending
  <2>2. CASE v = w
    BY <1>1, <1>2, <2>1, <2>2 DEF Pending
  <2>3. CASE v # w
    BY <1>1, <2>1, <2>3 DEF Pending
  <2> QED  BY <2>2, <2>3
<1>4. ASSUME work[w].d = d, work[w].pc = "send"
      PROVE  <<w, work[w].at>> \in Pending(d) /\ <<w, work[w].at>> \notin Pending(d)'
  <2>1. ~(work[w].at > work[w].at)
    BY <1>1
  <2> QED  BY <1>1, <1>2, <1>4, <2>1 DEF Pending
<1> QED  BY <1>3, <1>4

\* A run that starts has the whole chain before it.
LEMMA TakeAccounted ==
  ASSUME TypeOK, NEW w \in Worker, NEW d \in Delivery, Take(w, d)
  PROVE  /\ Cardinality(Pending(d)') = Cardinality(Pending(d)) + Channels
         /\ \A e \in Delivery : e # d => Pending(e)' = Pending(e)
<1>1. /\ work[w] = NoRun /\ work'[w].d = d /\ work'[w].at = 1 /\ work'[w].pc = "send"
      /\ \A v \in Worker : v # w => work'[v] = work[v]
  BY TakeFacts
<1>2. work[w].d = None
  BY <1>1, NoRunIs
<1> DEFINE Chain == {w} \X (1..Channels)
<1>3. Pending(d)' = Pending(d) \cup Chain
  <2>1. ASSUME NEW p \in Worker \X (1..Channels) PROVE p \in Pending(d)' <=> p \in Pending(d) \cup Chain
    <3>1. p = <<p[1], p[2]>> /\ p[1] \in Worker /\ p[2] \in 1..Channels
      OBVIOUS
    <3>2. CASE p[1] = w
      <4>1. p \in Chain
        BY <3>1, <3>2
      <4>2. p[2] > 1 \/ p[2] = 1
        BY <3>1
      <4>3. p \in Pending(d)'
        BY <1>1, <3>2, <4>2 DEF Pending
      <4> QED  BY <4>1, <4>3
    <3>3. CASE p[1] # w
      <4>1. p \notin Chain
        BY <3>3
      <4>2. work'[p[1]] = work[p[1]]
        BY <1>1, <3>1, <3>3
      <4> QED  BY <4>1, <4>2 DEF Pending
    <3> QED  BY <3>2, <3>3
  <2>2. Chain \subseteq Worker \X (1..Channels)
    OBVIOUS
  <2>3. Pending(d)' \subseteq Worker \X (1..Channels) /\ Pending(d) \subseteq Worker \X (1..Channels)
    BY DEF Pending
  <2> QED  BY <2>1, <2>2, <2>3
<1>4. Pending(d) \cap Chain = {}
  <2>1. \A p \in Pending(d) : p[1] # w
    BY <1>2, SetsAssumption DEF Pending
  <2> QED  BY <2>1
<1>5. IsFiniteSet(Chain) /\ Cardinality(Chain) = Channels
  <2>1. IsFiniteSet(1..Channels) /\ Cardinality(1..Channels) = Channels
    BY Bounds, FS_Interval
  <2>2. IsFiniteSet({w}) /\ Cardinality({w}) = 1
    BY FS_Singleton
  <2> QED  BY <2>1, <2>2, Bounds, FS_Product
<1>6. Cardinality(Pending(d)') = Cardinality(Pending(d)) + Channels
  <2> HIDE DEF Chain
  <2>1. Cardinality(Pending(d) \cup Chain) = Cardinality(Pending(d)) + Cardinality(Chain) - Cardinality(Pending(d) \cap Chain)
    BY <1>5, PendingFinite, FS_Union
  <2>2. Cardinality(Pending(d) \cap Chain) = 0
    BY <1>4, FS_EmptySet
  <2>3. Cardinality(Pending(d)) \in Nat
    BY PendingFinite
  <2>4. Cardinality(Pending(d)') = Cardinality(Pending(d) \cup Chain)
    BY <1>3
  <2> QED  BY <1>5, <2>1, <2>2, <2>3, <2>4, Bounds
<1>7. ASSUME NEW e \in Delivery, e # d PROVE Pending(e)' = Pending(e)
  <2>1. \A v \in Worker : /\ work'[v].d = e <=> work[v].d = e
                          /\ work[v].d = e => work'[v] = work[v]
    BY <1>1, <1>2, <1>7, SetsAssumption
  <2> QED  BY <2>1 DEF Pending
<1> QED  BY <1>6, <1>7

\* Every step keeps the account of messages and channels.
LEMMA AccountedNext == ASSUME IInv, Next, TypeOK' PROVE MessagesAccounted'
<1>1. TypeOK /\ JobsHeld /\ MessagesAccounted
  BY DEF IInv
<1> SUFFICES ASSUME NEW d \in Delivery
             PROVE  Cardinality(MessagesOf(d)') + Cardinality(Pending(d)') <= Channels * Started(job'[d])
  BY DEF MessagesAccounted
<1> DEFINE Goal == Cardinality(MessagesOf(d)') + Cardinality(Pending(d)') <= Channels * Started(job'[d])
<1>2. Started(job[d]) \in Nat /\ job[d].made \in Nat /\ job[d].stalls \in Nat
  BY <1>1, StartedType
<1>3. ASSUME UNCHANGED <<work, msgs>>, Started(job'[d]) >= Started(job[d]) PROVE Goal
  <2>1. Pending(d)' \subseteq Pending(d) /\ MessagesOf(d)' = MessagesOf(d)
    BY <1>3 DEF Pending, MessagesOf
  <2> QED  BY <1>1, <1>3, <2>1, AccountKept
<1>4. ASSUME NEW e \in Delivery, Create(e) \/ Enqueue(e) PROVE Goal
  <2>1. /\ job'[d].made = job[d].made /\ job'[d].stalls = job[d].stalls
        /\ job'[d].state = job[d].state \/ (job[d].state = "none" /\ job'[d].state = "waiting")
    BY <1>1, <1>4, RequestFacts
  <2>2. Started(job'[d]) >= Started(job[d])
    BY <1>2, <2>1 DEF Started
  <2> QED  BY <1>1, <1>3, <1>4, <2>2, RequestFacts
<1>5. ASSUME NEW e \in Delivery, Stalled(e) PROVE Goal
  <2>1. Started(job'[d]) >= Started(job[d])
    <3>1. CASE d = e
      <4>1. /\ job[d].state = "active" /\ job'[d].made = job[d].made
            /\ \/ job'[d].state = "waiting" /\ job'[d].stalls = job[d].stalls + 1
               \/ job'[d].state = "failed" /\ job'[d].stalls = job[d].stalls
        BY <1>1, <1>5, <3>1, StalledFacts
      <4> QED  BY <1>2, <4>1 DEF Started
    <3>2. CASE d # e
      BY <1>1, <1>2, <1>5, <3>2, StalledFacts
    <3> QED  BY <3>1, <3>2
  <2> QED  BY <1>1, <1>3, <1>5, <2>1, StalledFacts
<1>6. ASSUME NEW w \in Worker, NEW e \in Delivery, Take(w, e) PROVE Goal
  <2>1. MessagesOf(d)' = MessagesOf(d)
    BY <1>1, <1>6, TakeFacts DEF MessagesOf
  <2>2. CASE d = e
    <3>1. /\ job[d].state = "waiting" /\ job'[d].state = "active" /\ job'[d].made = job[d].made
          /\ job'[d].stalls = job[d].stalls
      BY <1>1, <1>6, <2>2, TakeFacts
    <3>2. Started(job'[d]) = Started(job[d]) + 1
      BY <1>1, <1>2, <3>1 DEF Started, JobsHeld
    <3>3. Cardinality(Pending(d)') = Cardinality(Pending(d)) + Channels
      BY <1>1, <1>6, <2>2, TakeAccounted
    <3>4. /\ Channels * (Started(job[d]) + 1) = Channels * Started(job[d]) + Channels
          /\ Channels * Started(job[d]) \in Nat
      BY <1>2, Times, Bounds
    <3>5. Cardinality(MessagesOf(d)) + Cardinality(Pending(d)) <= Channels * Started(job[d])
      BY <1>1 DEF MessagesAccounted
    <3> QED  BY <1>1, <2>1, <3>2, <3>3, <3>4, <3>5, MessagesFinite, PendingFinite, Bounds
  <2>3. CASE d # e
    <3>1. job'[d] = job[d]
      BY <1>1, <1>6, <2>3, TakeFacts
    <3>2. Pending(d)' = Pending(d)
      BY <1>1, <1>6, <2>3, TakeAccounted
    <3> QED  BY <1>1, <1>2, <2>1, <3>1, <3>2, AccountKept
  <2> QED  BY <2>2, <2>3
<1>7. ASSUME NEW w \in Worker, Step(w) PROVE Goal
  <2>1. job' = job /\ work[w].d \in Delivery
    BY <1>1, <1>7, StepWork
  <2>2. Pending(d)' \subseteq Pending(d)
    BY <1>1, <1>7, SentAccounted
  <2>3. CASE MessagesOf(d)' = MessagesOf(d)
    BY <1>1, <1>2, <2>1, <2>2, <2>3, AccountKept
  <2>4. CASE MessagesOf(d)' # MessagesOf(d)
    <3>1. work[w].pc = "send" /\ msgs' = Append(msgs, work[w].d)
      BY <1>7, <2>4, StepMsgs DEF MessagesOf
    <3>2. /\ work[w].d = d /\ MessagesOf(d)' = MessagesOf(d) \cup {Len(msgs) + 1}
          /\ Len(msgs) + 1 \notin MessagesOf(d)
      BY <1>1, <2>1, <2>4, <3>1, Appended
    <3>3. Cardinality(MessagesOf(d)') = Cardinality(MessagesOf(d)) + 1
      BY <1>1, <3>2, MessagesFinite, FS_AddElement
    <3>4. <<w, work[w].at>> \in Pending(d) /\ <<w, work[w].at>> \notin Pending(d)'
      BY <1>1, <1>7, <3>1, <3>2, SentAccounted
    <3>5. Pending(d)' \subseteq Pending(d) \ {<<w, work[w].at>>}
      BY <2>2, <3>4
    <3>6. /\ IsFiniteSet(Pending(d) \ {<<w, work[w].at>>})
          /\ Cardinality(Pending(d) \ {<<w, work[w].at>>}) = Cardinality(Pending(d)) - 1
      BY <3>4, PendingFinite, FS_RemoveElement
    <3>7. Cardinality(Pending(d)') <= Cardinality(Pending(d)) - 1 /\ Cardinality(Pending(d)') \in Nat
      BY <3>5, <3>6, FS_Subset, FS_CardinalityType
    <3>8. /\ Cardinality(MessagesOf(d)) + Cardinality(Pending(d)) <= Channels * Started(job[d])
          /\ Channels * Started(job[d]) \in Nat
      BY <1>1, <1>2, Times, Bounds DEF MessagesAccounted
    <3> QED  BY <1>1, <2>1, <3>3, <3>7, <3>8, MessagesFinite, PendingFinite
  <2> QED  BY <2>3, <2>4
<1>8. ASSUME NEW w \in Worker, Complete(w) \/ Throw(w) \/ Crash(w) PROVE Goal
  <2>1. \A v \in Worker : work'[v] = IF v = w THEN NoRun ELSE work[v]
    BY <1>1, <1>8, EndFacts
  <2>2. Pending(d)' \subseteq Pending(d)
    BY <2>1, NoRunIs, SetsAssumption DEF Pending
  <2>3. MessagesOf(d)' = MessagesOf(d)
    BY <1>1, <1>8, EndFacts DEF MessagesOf
  <2>4. Started(job'[d]) >= Started(job[d])
    <3>1. CASE d = work[w].d /\ job'[d] # job[d]
      <4>1. job[d].state = "active" /\ job[d].made < Attempts
        BY <1>1, <1>8, <3>1, EndFacts DEF JobsHeld
      <4>2. Started(job[d]) = job[d].made + job[d].stalls + 1
        BY <4>1 DEF Started
      <4>3. \/ job'[d].state = "completed" /\ job'[d].made = job[d].made /\ job'[d].stalls = job[d].stalls
            \/ /\ job'[d].state = IF job[d].made + 1 < Attempts THEN "waiting" ELSE "failed"
               /\ job'[d].made = job[d].made + 1 /\ job'[d].stalls = job[d].stalls
        BY <1>1, <1>8, <3>1, EndFacts
      <4> QED  BY <1>2, <4>1, <4>2, <4>3, Bounds DEF Started
    <3>2. CASE d # work[w].d \/ job'[d] = job[d]
      <4>1. job'[d] = job[d]
        BY <1>1, <1>8, <3>2, EndFacts
      <4> QED  BY <1>2, <4>1
    <3> QED  BY <3>1, <3>2
  <2> QED  BY <1>1, <2>2, <2>3, <2>4, AccountKept
<1>9. ASSUME NEW w \in Worker, LoseLock(w) PROVE Goal
  <2>1. Pending(d)' \subseteq Pending(d) /\ MessagesOf(d)' = MessagesOf(d) /\ job' = job
    BY <1>1, <1>9, LoseLockFacts DEF Pending, MessagesOf
  <2> QED  BY <1>1, <1>2, <2>1, AccountKept
<1>10. ASSUME NEW h \in Handler, Callback(h) PROVE Goal
  BY <1>1, <1>2, <1>3, <1>10, CallbackFacts
<1>11. ASSUME NEW h \in Handler, NEW e \in Delivery, NEW sid \in DOMAIN msgs, NEW next \in Reported,
              CallbackBegin(h, e, sid, next)
       PROVE  Goal
  BY <1>1, <1>2, <1>3, <1>11, BeginFacts
<1> QED  BY <1>4, <1>5, <1>6, <1>7, <1>8, <1>9, <1>10, <1>11, NextCases

-----------------------------------------------------------------------------
\* Those who may still send are finitely many.
LEMMA ChancesFinite ==
  ASSUME NEW d
  PROVE  IsFiniteSet(Chances(d)) /\ Cardinality(Chances(d)) \in Nat
<1>1. Chances(d) \subseteq Worker
  BY DEF Chances
<1> QED  BY <1>1, Bounds, FS_Subset, FS_CardinalityType

\* The messages accepted and those that may follow without another failure.
Spent(d) == Cardinality(MessagesOf(d)) + Cardinality(Chances(d)) + (IF Unstarted(d) THEN 1 ELSE 0)

\* A step at a delivery that gives one chance to one run, or takes it, and pays for what it adds.
LEMMA PaidStep ==
  ASSUME TypeOK, TypeOK', MessagesPaid, NEW d \in Delivery, NEW w \in Worker,
         \A v \in Worker : v # w => (v \in Chances(d)' <=> v \in Chances(d)),
         NEW m \in {0, 1}, Cardinality(MessagesOf(d)') = Cardinality(MessagesOf(d)) + m,
         NEW k \in {0, 1}, mishaps'[d] = mishaps[d] + k,
         m + (IF w \in Chances(d)' THEN 1 ELSE 0) + (IF Unstarted(d)' THEN 1 ELSE 0)
           <= k + (IF w \in Chances(d) THEN 1 ELSE 0) + (IF Unstarted(d) THEN 1 ELSE 0)
  PROVE  Spent(d)' <= 1 + mishaps'[d]
<1> DEFINE Others == Chances(d) \ {w}
<1>1. Chances(d) \subseteq Worker /\ Chances(d)' \subseteq Worker
  BY DEF Chances
<1>2. IsFiniteSet(Others) /\ Cardinality(Others) \in Nat
  <2>1. Others \subseteq Chances(d)
    OBVIOUS
  <2> QED  BY <2>1, ChancesFinite, FS_Subset, FS_CardinalityType
<1>3. Chances(d) = IF w \in Chances(d) THEN Others \cup {w} ELSE Others
  OBVIOUS
<1>4. Chances(d)' = IF w \in Chances(d)' THEN Others \cup {w} ELSE Others
  BY <1>1
<1>5. w \notin Others
  OBVIOUS
<1> HIDE DEF Others
<1>6. Cardinality(Others \cup {w}) = Cardinality(Others) + 1
  BY <1>2, <1>5, FS_AddElement
<1>7. Cardinality(Chances(d)) = Cardinality(Others) + (IF w \in Chances(d) THEN 1 ELSE 0)
  <2>1. CASE w \in Chances(d)
    BY <1>3, <1>6, <2>1
  <2>2. CASE w \notin Chances(d)
    <3>1. Chances(d) = Others
      BY <1>3, <2>2
    <3> QED  BY <1>2, <2>2, <3>1
  <2> QED  BY <2>1, <2>2
<1>8. Cardinality(Chances(d)') = Cardinality(Others) + (IF w \in Chances(d)' THEN 1 ELSE 0)
  <2>1. CASE w \in Chances(d)'
    BY <1>4, <1>6, <2>1
  <2>2. CASE w \notin Chances(d)'
    <3>1. Chances(d)' = Others
      BY <1>4, <2>2
    <3> QED  BY <1>2, <2>2, <3>1
  <2> QED  BY <2>1, <2>2
<1>9. /\ mishaps[d] \in Nat /\ Cardinality(MessagesOf(d)) \in Nat
      /\ Cardinality(MessagesOf(d)) + Cardinality(Chances(d)) + (IF Unstarted(d) THEN 1 ELSE 0) <= 1 + mishaps[d]
  BY MessagesFinite, Bounds DEF TypeOK, MessagesPaid
<1> QED  BY <1>2, <1>7, <1>8, <1>9 DEF Spent

\* A step that leaves a delivery, its runs and its job alone.
LEMMA PaidUntouched ==
  ASSUME MessagesPaid, NEW d \in Delivery,
         job'[d] = job[d], mishaps'[d] = mishaps[d], MessagesOf(d)' = MessagesOf(d),
         \A v \in Worker : (work[v].d = d \/ work'[v].d = d) => work'[v] = work[v]
  PROVE  Spent(d)' <= 1 + mishaps'[d]
<1>1. Chances(d)' = Chances(d)
  BY DEF Chances
<1>2. Unstarted(d)' <=> Unstarted(d)
  BY DEF Unstarted, Held
<1>3. Spent(d) <= 1 + mishaps[d]
  BY DEF MessagesPaid, Spent
<1> QED  BY <1>1, <1>2, <1>3 DEF Spent

\* A step of the request, of the queue or of a callback sends nothing and starts nothing anew.
LEMMA PaidElsewhere ==
  ASSUME TypeOK, TypeOK', MessagesPaid, NEW d \in Delivery, UNCHANGED <<work, msgs>>,
         Unstarted(d)' => Unstarted(d), mishaps'[d] >= mishaps[d]
  PROVE  Spent(d)' <= 1 + mishaps'[d]
<1>1. Chances(d)' = Chances(d) /\ MessagesOf(d)' = MessagesOf(d)
  BY DEF Chances, MessagesOf
<1>2. Spent(d) <= 1 + mishaps[d] /\ mishaps[d] \in Nat /\ mishaps'[d] \in Nat
  BY Bounds DEF MessagesPaid, Spent, TypeOK
<1>3. Cardinality(MessagesOf(d)) \in Nat /\ Cardinality(Chances(d)) \in Nat
  BY MessagesFinite, ChancesFinite
<1> QED  BY <1>1, <1>2, <1>3 DEF Spent

\* A mishap counts one.
LEMMA MishapCounts ==
  ASSUME TypeOK, NEW d \in Delivery
  PROVE  /\ mishaps[d] \in Nat
         /\ Mishap(d) => mishaps'[d] = mishaps[d] + 1
         /\ UNCHANGED mishaps => mishaps'[d] = mishaps[d] + 0
  BY Bounds DEF TypeOK, Mishap

\* A step of the run of d: a message is a chance used, and a chance regained is paid for.
LEMMA PaidRun ==
  ASSUME TypeOK, TypeOK', MessagesPaid, NEW w \in Worker, Step(w), NEW d \in Delivery, work[w].d = d
  PROVE  Spent(d)' <= 1 + mishaps'[d]
<1>1. /\ job' = job /\ work[w] \in Runs /\ work'[w] \in Runs
      /\ \A v \in Worker : /\ work'[v].d = work[v].d /\ work'[v].locked = work[v].locked
                           /\ v # w => work'[v] = work[v]
  BY StepWork
<1>2. \A v \in Worker : v # w => (v \in Chances(d)' <=> v \in Chances(d))
  BY <1>1 DEF Chances
<1>3. Unstarted(d)' <=> Unstarted(d)
  BY <1>1 DEF Unstarted, Held
<1>4. (w \in Chances(d) <=> MaySend(work[w])) /\ (w \in Chances(d)' <=> MaySend(work'[w]))
  BY <1>1 DEF Chances
<1>5. UNCHANGED mishaps \/ Mishap(d)
  BY StepHarm
<1>6. ASSUME NEW m \in {0, 1}, Cardinality(MessagesOf(d)') = Cardinality(MessagesOf(d)) + m,
             NEW k \in {0, 1}, mishaps'[d] = mishaps[d] + k,
             m + (IF MaySend(work'[w]) THEN 1 ELSE 0) <= k + (IF MaySend(work[w]) THEN 1 ELSE 0)
      PROVE  Spent(d)' <= 1 + mishaps'[d]
  <2>1. m + (IF w \in Chances(d)' THEN 1 ELSE 0) + (IF Unstarted(d)' THEN 1 ELSE 0)
          <= k + (IF w \in Chances(d) THEN 1 ELSE 0) + (IF Unstarted(d) THEN 1 ELSE 0)
    BY <1>3, <1>4, <1>6
  <2> QED  BY <1>2, <1>6, <2>1, PaidStep
<1>7. Cardinality(MessagesOf(d)) \in Nat
  BY MessagesFinite
<1>8. CASE msgs' = Append(msgs, d) /\ work[w].pc = "send"
  <2>1. Cardinality(MessagesOf(d)') = Cardinality(MessagesOf(d)) + 1
    <3>1. /\ MessagesOf(d)' = MessagesOf(d) \cup {Len(msgs) + 1} /\ Len(msgs) + 1 \notin MessagesOf(d)
      BY <1>8, Appended
    <3> QED  BY <3>1, MessagesFinite, FS_AddElement
  <2>2. MaySend(work[w])
    BY <1>8 DEF MaySend
  <2>3. Mishap(d) \/ ~MaySend(work'[w])
    <3>1. CASE SendAccepted(w)
      <4>1. work'[w].pc = "record"
        BY <3>1 DEF SendAccepted, TypeOK
      <4> QED  BY <4>1 DEF MaySend
    <3>2. CASE SendUnanswered(w)
      BY <3>2 DEF SendUnanswered
    <3>3. msgs' # msgs
      <4>1. Len(msgs') = Len(msgs) + 1 /\ Len(msgs) \in Nat
        BY <1>8 DEF TypeOK
      <4> QED  BY <4>1
    <3> QED  BY <3>1, <3>2, <3>3 DEF Step, SendRefused, RecordSent, RecordFails, EmitSent, GiveUp, GiveUpFails,
                EmitFailed
  <2>4. CASE Mishap(d)
    BY <1>6, <2>1, <2>2, <2>4, MishapCounts
  <2>5. CASE ~MaySend(work'[w]) /\ UNCHANGED mishaps
    BY <1>6, <2>1, <2>2, <2>5, MishapCounts
  <2> QED  BY <1>5, <2>3, <2>4, <2>5
<1>9. CASE msgs' = msgs
  <2>1. Cardinality(MessagesOf(d)') = Cardinality(MessagesOf(d)) + 0
    BY <1>7, <1>9 DEF MessagesOf
  <2>2. Mishap(d) \/ (MaySend(work'[w]) => MaySend(work[w]))
    <3>1. CASE SendAccepted(w) \/ SendRefused(w) \/ SendUnanswered(w)
      BY <3>1 DEF SendAccepted, SendRefused, SendUnanswered, MaySend
    <3>2. CASE RecordFails(w) \/ GiveUpFails(w)
      BY <3>2 DEF RecordFails, GiveUpFails
    <3>3. CASE RecordSent(w) \/ EmitSent(w)
      <4>1. RecordSent(w) => work'[w].pc = "emit"
        BY DEF RecordSent, TypeOK
      <4>2. EmitSent(w) => work'[w].pc = "done"
        BY DEF EmitSent, TypeOK
      <4> QED  BY <3>3, <4>1, <4>2 DEF MaySend
    <3>4. CASE GiveUp(w) \/ EmitFailed(w)
      <4>1. GiveUp(w) => /\ work[w].pc = "giveup"
                         /\ work'[w].pc = IF IsLastAttempt(w) THEN "announce" ELSE "throw"
        BY DEF GiveUp, TypeOK
      <4>2. EmitFailed(w) => work[w].pc = "announce" /\ work'[w].pc = "throw"
        BY DEF EmitFailed, TypeOK
      <4> QED  BY <1>1, <3>4, <4>1, <4>2 DEF MaySend
    <3> QED  BY <3>1, <3>2, <3>3, <3>4 DEF Step
  <2>3. CASE Mishap(d)
    BY <1>6, <2>1, <2>3, MishapCounts
  <2>4. CASE (MaySend(work'[w]) => MaySend(work[w])) /\ UNCHANGED mishaps
    BY <1>6, <2>1, <2>4, MishapCounts
  <2> QED  BY <1>5, <2>2, <2>3, <2>4
<1> QED  BY <1>8, <1>9, StepMsgs

\* The end of the run of d, or of its lock: the chance it had goes to the job, or a failure pays for one.
LEMMA PaidEnd ==
  ASSUME TypeOK, TypeOK', MessagesPaid, NEW w \in Worker, NEW d \in Delivery, work[w].d = d,
         Complete(w) \/ Throw(w) \/ Crash(w) \/ LoseLock(w)
  PROVE  Spent(d)' <= 1 + mishaps'[d]
<1>1. /\ msgs' = msgs /\ \A v \in Worker : v # w => work'[v] = work[v]
      /\ work'[w] = NoRun \/ (LoseLock(w) /\ work'[w].d = d /\ work'[w].pc = work[w].pc /\ ~work'[w].locked)
  BY EndFacts, LoseLockFacts
<1>2. \A v \in Worker : v # w => (v \in Chances(d)' <=> v \in Chances(d))
  BY <1>1 DEF Chances
<1>3. w \in Chances(d)' => w \in Chances(d)
  BY <1>1, NoRunIs DEF Chances, MaySend
<1>4. Cardinality(MessagesOf(d)') = Cardinality(MessagesOf(d)) + 0
  <2>1. MessagesOf(d)' = MessagesOf(d)
    BY <1>1 DEF MessagesOf
  <2>2. Cardinality(MessagesOf(d)) \in Nat
    BY MessagesFinite
  <2> QED  BY <2>1, <2>2
<1>5. ASSUME NEW k \in {0, 1}, mishaps'[d] = mishaps[d] + k,
             (IF w \in Chances(d)' THEN 1 ELSE 0) + (IF Unstarted(d)' THEN 1 ELSE 0)
               <= k + (IF w \in Chances(d) THEN 1 ELSE 0) + (IF Unstarted(d) THEN 1 ELSE 0)
      PROVE  Spent(d)' <= 1 + mishaps'[d]
  <2> DEFINE m == 0
  <2>1. m + (IF w \in Chances(d)' THEN 1 ELSE 0) + (IF Unstarted(d)' THEN 1 ELSE 0)
          <= k + (IF w \in Chances(d) THEN 1 ELSE 0) + (IF Unstarted(d) THEN 1 ELSE 0)
    BY <1>5
  <2> QED  BY <1>2, <1>4, <1>5, <2>1, PaidStep
<1>6. CASE Crash(w) \/ LoseLock(w)
  <2>1. mishaps'[d] = mishaps[d] + 1
    BY <1>6, MishapCounts DEF Crash, LoseLock
  <2> QED  BY <1>3, <1>5, <2>1
<1>7. CASE (Complete(w) \/ Throw(w)) /\ ~Crash(w) /\ ~LoseLock(w)
  <2>1. work'[w] = NoRun /\ w \notin Chances(d)'
    BY <1>1, <1>7, NoRunIs DEF Chances, MaySend
  <2>2. mishaps'[d] = mishaps[d] + 0
    BY <1>7, MishapCounts DEF Complete, Throw
  <2>3. (Unstarted(d)' => Unstarted(d)) \/ w \in Chances(d)
    <3>1. CASE ~work[w].locked
      <4>1. job' = job
        BY <1>7, <3>1 DEF Complete, Throw
      <4>2. \A v \in Worker : work[v].d = d /\ work[v].locked => v # w /\ work'[v] = work[v]
        BY <1>1, <3>1
      <4> QED  BY <4>1, <4>2 DEF Unstarted, Held
    <3>2. CASE work[w].locked /\ Complete(w)
      <4>1. job'[d].state = "completed"
        <5>1. job' = [job EXCEPT ![d] = [job[d] EXCEPT !.state = "completed"]]
          BY <3>2 DEF Complete, TypeOK
        <5> QED  BY <5>1 DEF TypeOK, Jobs
      <4> QED  BY <4>1 DEF Unstarted
    <3>3. CASE work[w].locked /\ Throw(w)
      BY <3>3 DEF Throw, Chances, MaySend
    <3> QED  BY <1>7, <3>1, <3>2, <3>3
  <2> QED  BY <1>5, <2>1, <2>2, <2>3
<1> QED  BY <1>6, <1>7

\* Every step keeps the messages within what the failures pay for.
LEMMA PaidNext == ASSUME IInv, Next, TypeOK' PROVE MessagesPaid'
<1>1. TypeOK /\ MessagesPaid
  BY DEF IInv
<1> SUFFICES ASSUME NEW d \in Delivery PROVE Spent(d)' <= 1 + mishaps'[d]
  BY DEF MessagesPaid, Spent
<1>2. mishaps[d] \in Nat
  BY <1>1, MishapCounts
<1>3. ASSUME NEW e \in Delivery, Create(e) \/ Enqueue(e) PROVE Spent(d)' <= 1 + mishaps'[d]
  <2>1. /\ UNCHANGED <<work, msgs, mishaps>>
        /\ job'[d].state = job[d].state \/ (job[d].state = "none" /\ job'[d].state = "waiting")
    <3>1. CASE e = d
      BY <1>1, <1>3, <3>1, RequestFacts
    <3>2. CASE e # d
      BY <1>1, <1>3, <3>2, RequestFacts
    <3> QED  BY <3>1, <3>2
  <2>2. Unstarted(d)' => Unstarted(d)
    BY <2>1 DEF Unstarted, Held
  <2> QED  BY <1>1, <1>2, <2>1, <2>2, PaidElsewhere
<1>4. ASSUME NEW e \in Delivery, Stalled(e) PROVE Spent(d)' <= 1 + mishaps'[d]
  <2>1. UNCHANGED <<work, msgs, mishaps>>
    BY <1>4 DEF Stalled
  <2>2. Unstarted(d)' => Unstarted(d)
    <3>1. CASE e = d
      BY <1>4, <3>1 DEF Stalled, Unstarted
    <3>2. CASE e # d
      <4>1. job'[d] = job[d]
        BY <1>1, <1>4, <3>2, StalledFacts
      <4> QED  BY <2>1, <4>1 DEF Unstarted, Held
    <3> QED  BY <3>1, <3>2
  <2> QED  BY <1>1, <1>2, <2>1, <2>2, PaidElsewhere
<1>5. ASSUME NEW w \in Worker, NEW e \in Delivery, Take(w, e) PROVE Spent(d)' <= 1 + mishaps'[d]
  <2>1. /\ UNCHANGED <<msgs, mishaps>> /\ work[w] = NoRun /\ work'[w].d = e
        /\ work'[w].pc = "send" /\ work'[w].locked
        /\ job[e].state = "waiting" /\ job'[e].state = "active"
        /\ \A v \in Worker : v # w => work'[v] = work[v]
        /\ e # d => job'[d] = job[d]
    BY <1>1, <1>5, TakeFacts
  <2>2. MessagesOf(d)' = MessagesOf(d) /\ work[w].d = None
    BY <2>1, NoRunIs DEF MessagesOf
  <2>3. CASE e = d
    <3>1. \A v \in Worker : v # w => (v \in Chances(d)' <=> v \in Chances(d))
      BY <2>1 DEF Chances
    <3>2. Unstarted(d) /\ ~Unstarted(d)'
      BY <2>1, <2>3 DEF Unstarted, Held
    <3>3. w \notin Chances(d)
      BY <2>2, SetsAssumption DEF Chances
    <3> DEFINE m == 0
               k == 0
    <3>4. Cardinality(MessagesOf(d)') = Cardinality(MessagesOf(d)) + m /\ mishaps'[d] = mishaps[d] + k
      BY <1>1, <1>2, <2>1, <2>2, MessagesFinite
    <3>5. m + (IF w \in Chances(d)' THEN 1 ELSE 0) + (IF Unstarted(d)' THEN 1 ELSE 0)
            <= k + (IF w \in Chances(d) THEN 1 ELSE 0) + (IF Unstarted(d) THEN 1 ELSE 0)
      BY <3>2
    <3> HIDE DEF m, k
    <3>6. m \in {0, 1} /\ k \in {0, 1}
      BY DEF m, k
    <3> QED  BY <1>1, <3>1, <3>4, <3>5, <3>6, PaidStep
  <2>4. CASE e # d
    BY <1>1, <2>1, <2>2, <2>4, SetsAssumption, PaidUntouched
  <2> QED  BY <2>3, <2>4
<1>6. ASSUME NEW w \in Worker, Step(w) PROVE Spent(d)' <= 1 + mishaps'[d]
  <2>1. CASE work[w].d = d
    BY <1>1, <1>6, <2>1, PaidRun
  <2>2. CASE work[w].d # d
    <3>1. /\ job' = job /\ work[w].d \in Delivery /\ work'[w].d = work[w].d
          /\ \A v \in Worker : v # w => work'[v] = work[v]
      BY <1>1, <1>6, StepWork
    <3>2. mishaps'[d] = mishaps[d]
      BY <1>1, <1>6, <2>2, StepHarm
    <3>3. MessagesOf(d)' = MessagesOf(d)
      <4>1. CASE msgs' = msgs
        BY <4>1 DEF MessagesOf
      <4>2. CASE msgs' = Append(msgs, work[w].d)
        BY <1>1, <2>2, <3>1, <4>2, Appended
      <4> QED  BY <1>6, <4>1, <4>2, StepMsgs
    <3> QED  BY <1>1, <2>2, <3>1, <3>2, <3>3, PaidUntouched
  <2> QED  BY <2>1, <2>2
<1>7. ASSUME NEW w \in Worker, Complete(w) \/ Throw(w) \/ Crash(w) \/ LoseLock(w)
      PROVE  Spent(d)' <= 1 + mishaps'[d]
  <2>1. CASE work[w].d = d
    BY <1>1, <1>7, <2>1, PaidEnd
  <2>2. CASE work[w].d # d
    <3>1. /\ msgs' = msgs /\ work[w].d \in Delivery /\ job'[d] = job[d]
          /\ \A v \in Worker : v # w => work'[v] = work[v]
          /\ work'[w].d # d
      <4>1. None # d
        BY SetsAssumption
      <4>2. CASE LoseLock(w)
        BY <1>1, <2>2, <4>2, LoseLockFacts
      <4>3. CASE Complete(w) \/ Throw(w) \/ Crash(w)
        BY <1>1, <2>2, <4>1, <4>3, EndFacts, NoRunIs
      <4> QED  BY <1>7, <4>2, <4>3
    <3>2. mishaps'[d] = mishaps[d]
      BY <1>1, <1>7, <2>2, <3>1, MishapFacts DEF Complete, Throw, Crash, LoseLock
    <3>3. MessagesOf(d)' = MessagesOf(d)
      BY <3>1 DEF MessagesOf
    <3> QED  BY <1>1, <2>2, <3>1, <3>2, <3>3, PaidUntouched
  <2> QED  BY <2>1, <2>2
<1>8. ASSUME UNCHANGED <<job, work, msgs>>, mishaps'[d] >= mishaps[d] PROVE Spent(d)' <= 1 + mishaps'[d]
  <2>1. Unstarted(d)' => Unstarted(d)
    BY <1>8 DEF Unstarted, Held
  <2> QED  BY <1>1, <1>8, <2>1, PaidElsewhere
<1>9. ASSUME NEW h \in Handler, Callback(h) PROVE Spent(d)' <= 1 + mishaps'[d]
  <2>1. UNCHANGED <<job, work, msgs>>
    BY <1>1, <1>9, CallbackFacts
  <2>2. mishaps'[d] >= mishaps[d]
    <3>1. UNCHANGED mishaps \/ Mishap(cb[h].d)
      BY <1>9 DEF Callback, CallbackUpdate, CallbackEmit, CallbackFails, Emit
    <3>2. cb[h].d \in Delivery
      BY <1>1, <1>9, CallbackFacts
    <3>3. ASSUME NEW e \in Delivery, Mishap(e) PROVE mishaps'[d] >= mishaps[d]
      BY <1>1, <1>2, <3>3 DEF Mishap, TypeOK
    <3> QED  BY <1>2, <3>1, <3>2, <3>3
  <2> QED  BY <1>8, <2>1, <2>2
<1>10. ASSUME NEW h \in Handler, NEW e \in Delivery, NEW sid \in DOMAIN msgs, NEW next \in Reported,
              CallbackBegin(h, e, sid, next)
       PROVE  Spent(d)' <= 1 + mishaps'[d]
  BY <1>2, <1>8, <1>10 DEF CallbackBegin
<1> QED  BY <1>3, <1>4, <1>5, <1>6, <1>7, <1>9, <1>10, NextCases

-----------------------------------------------------------------------------
\* The provider forgets no message, and counts them from 1.
LEMMA MessagesStay ==
  ASSUME TypeOK, Next, NEW d \in Delivery
  PROVE  MessagesOf(d) \subseteq MessagesOf(d)'
<1>1. CASE msgs' = msgs
  BY <1>1 DEF MessagesOf
<1>2. ASSUME NEW w \in Worker, Step(w) PROVE MessagesOf(d) \subseteq MessagesOf(d)'
  <2>1. work[w].d \in Delivery
    BY <1>2, StepWork
  <2>2. CASE msgs' = Append(msgs, work[w].d)
    BY <2>1, <2>2, Appended
  <2> QED  BY <1>1, <1>2, <2>2, StepMsgs
<1>3. \/ msgs' = msgs
      \/ \E w \in Worker : Step(w)
  BY NextCases DEF Create, Enqueue, Stalled, Take, Complete, Throw, Crash, LoseLock,
         Callback, CallbackUpdate, CallbackEmit, CallbackFails, CallbackBegin
<1> QED  BY <1>1, <1>2, <1>3

\* No message has the id 0.
LEMMA MessageIds ==
  ASSUME TypeOK, NEW d, NEW sid \in MessagesOf(d) PROVE sid # 0
<1>1. DOMAIN msgs = 1..Len(msgs) /\ Len(msgs) \in Nat
  BY DEF TypeOK
<1> QED  BY <1>1 DEF MessagesOf

\* A step that stores no id but those the rows have.
LEMMA SidsKept ==
  ASSUME TypeOK, TypeOK', SidsAgree, Next,
         \A d \in Delivery : row'[d].sid = row[d].sid,
         \A d \in Delivery : row'[d].status = row[d].status \/ row'[d].status \notin {"sent", "delivered"}
                            \/ row[d].sid # 0,
         \A w \in Worker : work'[w].pc = "record" => work'[w] = work[w]
                                                      \/ (work[w].pc = "record" /\ work'[w].sid = work[w].sid
                                                          /\ work'[w].d = work[w].d),
         \A h \in Handler : cb'[h].pc # "idle" => row[cb'[h].d].sid # 0
  PROVE  SidsAgree'
<1>1. \A d \in Delivery : MessagesOf(d) \subseteq MessagesOf(d)'
  BY MessagesStay
<1>2. \A d \in Delivery : row'[d].sid # 0 => row'[d].sid \in MessagesOf(d)'
  BY <1>1 DEF SidsAgree
<1>3. ASSUME NEW w \in Worker, work'[w].pc = "record"
      PROVE  /\ MessagesOf(work[w].d)' # {}
             /\ work'[w].sid # 0 => work'[w].sid \in MessagesOf(work[w].d)'
  <2>1. work[w].pc = "record" /\ work'[w].sid = work[w].sid /\ work'[w].d = work[w].d
    BY <1>3
  <2>2. PICK d \in Delivery : work[w].d = d
    BY <2>1, BusyRun
  <2>3. MessagesOf(d) # {} /\ (work[w].sid # 0 => work[w].sid \in MessagesOf(d))
    BY <2>1, <2>2 DEF SidsAgree
  <2>4. MessagesOf(d)' # {} /\ (work'[w].sid # 0 => work'[w].sid \in MessagesOf(d)')
    BY <1>1, <2>1, <2>3
  <2> QED  BY <2>1, <2>2, <2>4 DEF MessagesOf
<1>4. ASSUME NEW h \in Handler, cb'[h].pc # "idle" PROVE row'[cb'[h].d].sid # 0
  <2>1. cb'[h].d \in Delivery
    BY <1>4 DEF TypeOK, NoCallback, Callbacks
  <2> QED  BY <1>4, <2>1
<1>5. ASSUME NEW d \in Delivery PROVE row'[d].status = "sent" => MessagesOf(d)' # {}
  BY <1>1, <1>5 DEF SidsAgree
<1>6. \A d \in Delivery : row'[d].status = "delivered" => row'[d].sid # 0
  BY DEF SidsAgree
<1> QED  BY <1>2, <1>3, <1>4, <1>5, <1>6 DEF SidsAgree

\* Every step keeps the invariant on ids.
LEMMA SidsNext == ASSUME IInv, Next, TypeOK' PROVE SidsAgree'
<1>1. TypeOK /\ SidsAgree
  BY DEF IInv
<1>2. /\ \A d \in Delivery : row[d].sid # 0 => row[d].sid \in MessagesOf(d)
      /\ \A d \in Delivery : row[d].status = "sent" => MessagesOf(d) # {}
      /\ \A d \in Delivery : row[d].status = "delivered" => row[d].sid # 0
      /\ \A h \in Handler : cb[h].pc # "idle" => row[cb[h].d].sid # 0
  BY <1>1 DEF SidsAgree
<1>3. ASSUME UNCHANGED <<row, cb>>,
             \A w \in Worker : work'[w].pc = "record" => work'[w] = work[w]
                                                      \/ (work[w].pc = "record" /\ work'[w].sid = work[w].sid
                                                          /\ work'[w].d = work[w].d)
      PROVE  SidsAgree'
  BY <1>1, <1>2, <1>3, SidsKept
<1>4. ASSUME NEW d \in Delivery, Create(d) \/ Enqueue(d) PROVE SidsAgree'
  <2>1. /\ UNCHANGED <<work, cb>>
        /\ row'[d].sid = row[d].sid /\ row'[d].status \in {row[d].status, "queued"}
        /\ \A e \in Delivery : e # d => row'[e] = row[e]
    BY <1>1, <1>4, RequestFacts
  <2> QED  BY <1>1, <1>2, <2>1, SidsKept
<1>5. ASSUME NEW d \in Delivery, Stalled(d) PROVE SidsAgree'
  BY <1>1, <1>3, <1>5, StalledFacts
<1>6. ASSUME NEW w \in Worker, NEW d \in Delivery, Take(w, d) PROVE SidsAgree'
  <2>1. UNCHANGED <<row, cb>> /\ work'[w].pc = "send" /\ \A v \in Worker : v # w => work'[v] = work[v]
    BY <1>1, <1>6, TakeFacts
  <2> QED  BY <1>3, <2>1
<1>7. ASSUME NEW w \in Worker, Step(w) PROVE SidsAgree'
  <2>1. /\ cb' = cb /\ work[w].d \in Delivery /\ work'[w].d = work[w].d
        /\ \A v \in Worker : v # w => work'[v] = work[v]
        /\ work'[w].pc = "record" => work'[w].sid \in {0, Len(msgs) + 1} /\ msgs' = Append(msgs, work[w].d)
    BY <1>1, <1>7, StepWork
  <2>2. \A d \in Delivery : MessagesOf(d) \subseteq MessagesOf(d)'
    BY <1>1, MessagesStay
  <2>3. PICK d \in Delivery : work[w].d = d
    BY <2>1
  <2>4. work[w].pc = "record" =>
          MessagesOf(d) # {} /\ (StoredSid(w) # 0 => StoredSid(w) \in MessagesOf(d))
            /\ (row[d].sid # 0 => StoredSid(w) # 0)
    BY <1>1, <2>3 DEF SidsAgree, StoredSid
  <2>5. /\ \A e \in Delivery : e # d => row'[e] = row[e]
        /\ \/ row'[d].sid = row[d].sid /\ row'[d].status \in {row[d].status, "failed", "queued"}
           \/ work[w].pc = "record" /\ row'[d].sid = StoredSid(w) /\ row'[d].status = "sent"
    BY <1>1, <1>7, <2>3, StepRow
  <2>6. \A e \in Delivery : row'[e].sid # 0 => row'[e].sid \in MessagesOf(e)'
    BY <1>2, <2>2, <2>4, <2>5
  <2>7. ASSUME NEW e \in Delivery PROVE row'[e].status = "sent" => MessagesOf(e)' # {}
    BY <1>2, <2>2, <2>4, <2>5, <2>7
  <2>8. \A e \in Delivery : row'[e].status = "delivered" => row'[e].sid # 0
    BY <1>2, <2>5
  <2>9. \A h \in Handler : cb'[h].pc # "idle" => row'[cb'[h].d].sid # 0
    <3>1. \A h \in Handler : cb[h].pc # "idle" => cb[h].d \in Delivery
      BY <1>1, BusyCallback
    <3> QED  BY <1>2, <2>1, <2>4, <2>5, <3>1
  <2>10. ASSUME NEW v \in Worker, work'[v].pc = "record"
         PROVE  /\ MessagesOf(work[v].d)' # {}
                /\ work'[v].sid # 0 => work'[v].sid \in MessagesOf(work[v].d)'
    <3>1. CASE v = w
      <4>1. Len(msgs) + 1 \in MessagesOf(d)'
        BY <1>1, <2>1, <2>3, <2>10, <3>1, Appended
      <4>2. MessagesOf(d)' # {} /\ (work'[w].sid # 0 => work'[w].sid \in MessagesOf(d)')
        BY <2>1, <2>10, <3>1, <4>1
      <4> QED  BY <2>1, <2>3, <3>1, <4>2 DEF MessagesOf
    <3>2. CASE v # w
      <4>1. work'[v] = work[v] /\ work[v].pc = "record"
        BY <2>1, <2>10, <3>2
      <4>2. PICK e \in Delivery : work[v].d = e
        BY <1>1, <4>1, BusyRun
      <4>3. MessagesOf(e) # {} /\ (work[v].sid # 0 => work[v].sid \in MessagesOf(e))
        BY <1>1, <4>1, <4>2 DEF SidsAgree
      <4>4. MessagesOf(e)' # {} /\ (work'[v].sid # 0 => work'[v].sid \in MessagesOf(e)') /\ work'[v].d = e
        BY <2>2, <4>1, <4>2, <4>3
      <4> QED  BY <4>4 DEF MessagesOf
    <3> QED  BY <3>1, <3>2
  <2> QED  BY <2>6, <2>7, <2>8, <2>9, <2>10 DEF SidsAgree
<1>8. ASSUME NEW w \in Worker, Complete(w) \/ Throw(w) \/ Crash(w) PROVE SidsAgree'
  <2>1. UNCHANGED <<row, cb>> /\ \A v \in Worker : work'[v] = IF v = w THEN NoRun ELSE work[v]
    BY <1>1, <1>8, EndFacts
  <2>2. \A v \in Worker : work'[v].pc = "record" => work'[v] = work[v]
    BY <2>1, NoRunIs
  <2> QED  BY <1>3, <2>1, <2>2
<1>9. ASSUME NEW w \in Worker, LoseLock(w) PROVE SidsAgree'
  BY <1>1, <1>3, <1>9, LoseLockFacts
<1>10. ASSUME NEW h \in Handler, Callback(h) PROVE SidsAgree'
  <2>1. /\ work' = work /\ cb[h].d \in Delivery /\ row[cb[h].d].sid # 0
        /\ \A g \in Handler : g # h => cb'[g] = cb[g]
        /\ cb'[h].pc # "idle" => cb'[h].d = cb[h].d
        /\ \A e \in Delivery : row'[e].sid = row[e].sid /\ (e # cb[h].d => row'[e] = row[e])
    BY <1>1, <1>2, <1>10, CallbackFacts DEF NoCallback
  <2> QED  BY <1>1, <1>2, <2>1, SidsKept
<1>11. ASSUME NEW h \in Handler, NEW d \in Delivery, NEW sid \in DOMAIN msgs, NEW next \in Reported,
              CallbackBegin(h, d, sid, next)
       PROVE  SidsAgree'
  <2>1. /\ UNCHANGED <<row, work>> /\ row[d].sid # 0 /\ cb'[h].d = d
        /\ \A g \in Handler : g # h => cb'[g] = cb[g]
    BY <1>1, <1>11, BeginFacts
  <2> QED  BY <1>1, <1>2, <2>1, SidsKept
<1> QED  BY <1>4, <1>5, <1>6, <1>7, <1>8, <1>9, <1>10, <1>11, NextCases

-----------------------------------------------------------------------------
\* A delivery nothing has failed for after a step is one nothing had failed for before.
LEMMA StillUnharmed ==
  ASSUME TypeOK, Next, NEW d \in Delivery, Unharmed(d)'
  PROVE  Unharmed(d) /\ ~Mishap(d)
<1>1. ~Mishap(d)
  BY MishapFacts
<1>2. CASE UNCHANGED mishaps
  BY <1>1, <1>2 DEF Unharmed
<1>3. ASSUME NEW e \in Delivery, Mishap(e) PROVE Unharmed(d)
  BY <1>1, <1>3, MishapFacts DEF Unharmed
<1>4. ASSUME NEW w \in Worker, Step(w) PROVE Unharmed(d)
  BY <1>2, <1>3, <1>1, <1>4, StepHarm, StepWork
<1>5. ASSUME NEW w \in Worker, Complete(w) \/ Throw(w) \/ Crash(w) PROVE Unharmed(d)
  BY <1>2, <1>3, <1>1, <1>5, EndFacts DEF Complete, Throw, Crash
<1>6. ASSUME NEW w \in Worker, LoseLock(w) PROVE Unharmed(d)
  BY <1>3, <1>1, <1>6, LoseLockFacts
<1>7. ASSUME NEW h \in Handler, Callback(h) PROVE Unharmed(d)
  <2>1. UNCHANGED mishaps \/ Mishap(cb[h].d)
    BY <1>7 DEF Callback, CallbackUpdate, CallbackEmit, CallbackFails, Emit
  <2>2. cb[h].d \in Delivery
    BY <1>7, CallbackFacts
  <2> QED  BY <1>2, <1>3, <1>1, <2>1, <2>2
<1>8. ASSUME NEW e \in Delivery, Create(e) \/ Enqueue(e) \/ Stalled(e) \/ \E w \in Worker : Take(w, e)
      PROVE  Unharmed(d)
  BY <1>2, <1>8 DEF Create, Enqueue, Stalled, Take
<1>9. ASSUME NEW h \in Handler, NEW e \in Delivery, NEW sid \in DOMAIN msgs, NEW next \in Reported,
             CallbackBegin(h, e, sid, next)
      PROVE  Unharmed(d)
  BY <1>2, <1>9 DEF CallbackBegin
<1> QED  BY <1>1, <1>4, <1>5, <1>6, <1>7, <1>8, <1>9, NextCases

\* The run of a delivery nothing has failed for is the only one, and holds its job.
LEMMA OneRun ==
  ASSUME TypeOK, JobsHeld, NEW d \in Delivery, InOrder(d), NEW w \in Worker, work[w].d = d
  PROVE  /\ work[w].locked /\ job[d].state = "active" /\ work[w].attempt = job[d].made + 1
         /\ \A v \in Worker : work[v].d = d => v = w
<1>1. \A v \in Worker : work[v].d = d => work[v].locked
  BY DEF InOrder, NothingStalls
<1> QED  BY <1>1 DEF JobsHeld

\* A row without messages has no id, and no callback for it is under way.
LEMMA NoMessage ==
  ASSUME SidsAgree, NEW d \in Delivery, MessagesOf(d) = {}
  PROVE  /\ row[d].sid = 0 /\ row[d].status \notin {"sent", "delivered"}
         /\ \A h \in Handler : cb[h].pc # "idle" => cb[h].d # d
  BY DEF SidsAgree

\* A step that leaves a delivery, its run and its events to announce alone.
LEMMA Untouched ==
  ASSUME NEW d \in Delivery, InOrder(d),
         row'[d] = row[d], job'[d] = job[d], events'[d] = events[d], MessagesOf(d)' = MessagesOf(d),
         \A w \in Worker : (work[w].d = d \/ work'[w].d = d) => work'[w] = work[w],
         \A h \in Handler : cb[h].d = d /\ cb[h].pc = "emit" => cb'[h] = cb[h]
  PROVE  InOrder(d)'
<1>1. NothingStalls(d)'
  BY DEF InOrder, NothingStalls
<1>2. MessagesAgree(d)'
  <2>1. \A w \in Worker : work'[w].d = d => work[w].d = d /\ work'[w] = work[w]
    OBVIOUS
  <2>2. MessagesAgree(d)
    BY DEF InOrder
  <2> HIDE DEF MessagesOf
  <2> QED  BY <2>1, <2>2 DEF MessagesAgree
<1>3. FailuresMarked(d)'
  BY DEF InOrder, FailuresMarked, IsLastAttempt
<1>4. EventsAgree(d)'
  BY DEF InOrder, EventsAgree
<1> QED  BY <1>1, <1>2, <1>3, <1>4 DEF InOrder

\* The request for d.
LEMMA InOrderRequest ==
  ASSUME TypeOK, JobsHeld, SidsAgree, NEW d \in Delivery, InOrder(d), Create(d) \/ Enqueue(d)
  PROVE  InOrder(d)'
<1>1. /\ UNCHANGED <<work, msgs, cb, events>>
      /\ row'[d].sid = row[d].sid /\ row'[d].status \in {row[d].status, "queued"}
      /\ job'[d].state = job[d].state \/ (job[d].state = "none" /\ job'[d].state = "waiting")
  BY RequestFacts
<1>2. row'[d].status = row[d].status \/ (row[d].status = "none" /\ row'[d].status = "queued")
  <2>1. CASE Create(d)
    BY <1>1, <2>1 DEF Create
  <2>2. CASE Enqueue(d)
    BY <2>2 DEF Enqueue
  <2> QED  BY <2>1, <2>2
<1>3. MessagesOf(d)' = MessagesOf(d)
  BY <1>1 DEF MessagesOf
<1>4. NothingStalls(d)'
  BY <1>1 DEF InOrder, NothingStalls
<1>5. MessagesAgree(d)'
  BY <1>1, <1>3 DEF InOrder, MessagesAgree
<1>6. FailuresMarked(d)'
  BY <1>1, <1>2 DEF InOrder, FailuresMarked, IsLastAttempt
<1>7. EventsAgree(d)'
  BY <1>1, <1>2 DEF InOrder, EventsAgree
<1> QED  BY <1>4, <1>5, <1>6, <1>7 DEF InOrder

\* The start of a run of d.
LEMMA InOrderTake ==
  ASSUME TypeOK, JobsHeld, SidsAgree, NEW d \in Delivery, InOrder(d), NEW w \in Worker, Take(w, d)
  PROVE  InOrder(d)'
<1>1. /\ UNCHANGED <<row, msgs, cb, events>> /\ job[d].state = "waiting" /\ job'[d].state = "active"
      /\ work'[w].pc = "send" /\ work'[w].d = d /\ work'[w].locked
      /\ \A v \in Worker : v # w => work'[v] = work[v]
  BY TakeFacts
<1>2. \A v \in Worker : work[v].d # d
  BY <1>1, OneRun
<1>3. MessagesOf(d)' = {}
  BY <1>1 DEF InOrder, MessagesAgree, MessagesOf
<1>4. NothingStalls(d)'
  BY <1>1, <1>2 DEF NothingStalls
<1>5. MessagesAgree(d)'
  BY <1>1, <1>2, <1>3 DEF MessagesAgree
<1>6. FailuresMarked(d)'
  BY <1>1, <1>2 DEF FailuresMarked
<1>7. EventsAgree(d)'
  BY <1>1, <1>2 DEF InOrder, EventsAgree
<1> QED  BY <1>4, <1>5, <1>6, <1>7 DEF InOrder

\* The end of the run of d.
LEMMA InOrderEnd ==
  ASSUME TypeOK, JobsHeld, SidsAgree, NEW d \in Delivery, InOrder(d), ~Mishap(d),
         NEW w \in Worker, Complete(w) \/ Throw(w) \/ Crash(w), work[w].d = d
  PROVE  InOrder(d)'
<1>1. /\ work[w].locked /\ work[w].attempt = job[d].made + 1
      /\ \A v \in Worker : work[v].d = d => v = w
  BY OneRun
<1>2. ~Crash(w)
  BY DEF Crash
<1>3. /\ UNCHANGED <<row, msgs, cb, events>> /\ \A v \in Worker : work'[v] = IF v = w THEN NoRun ELSE work[v]
      /\ \/ work[w].pc = "done" /\ job'[d].state = "completed"
         \/ work[w].pc = "throw" /\ job'[d].state = IF job[d].made + 1 < Attempts THEN "waiting" ELSE "failed"
  BY <1>1, <1>2, EndFacts
<1>4. \A v \in Worker : work'[v].d # d
  BY <1>1, <1>3, NoRunIs, SetsAssumption
<1>5. MessagesOf(d)' = MessagesOf(d)
  BY <1>3 DEF MessagesOf
<1>6. NothingStalls(d)'
  BY <1>3, <1>4 DEF NothingStalls
<1>7. MessagesAgree(d)'
  <2>1. CASE work[w].pc = "done" /\ job'[d].state = "completed"
    BY <1>4, <2>1 DEF MessagesAgree
  <2>2. CASE work[w].pc = "throw" /\ job'[d].state \in {"waiting", "failed"}
    <3>1. MessagesOf(d) = {}
      BY <2>2 DEF InOrder, MessagesAgree
    <3> QED  BY <1>4, <1>5, <2>2, <3>1 DEF MessagesAgree
  <2> QED  BY <1>3, <2>1, <2>2
<1>8. FailuresMarked(d)'
  <2>1. job'[d].state = "failed" => work[w].pc = "throw" /\ IsLastAttempt(w)
    <3>1. job[d] \in Jobs
      BY DEF TypeOK
    <3> QED  BY <1>1, <1>3, <3>1, Bounds DEF IsLastAttempt, Jobs
  <2>2. job'[d].state = "failed" => row[d].status = "failed"
    BY <2>1 DEF InOrder, FailuresMarked
  <2> QED  BY <1>3, <1>4, <2>2 DEF FailuresMarked
<1>9. EventsAgree(d)'
  BY <1>1, <1>3, <1>4 DEF InOrder, EventsAgree
<1> QED  BY <1>6, <1>7, <1>8, <1>9 DEF InOrder

\* A callback for d.
LEMMA InOrderCallback ==
  ASSUME TypeOK, JobsHeld, SidsAgree, NEW d \in Delivery, InOrder(d), ~Mishap(d),
         NEW h \in Handler, Callback(h), cb[h].d = d
  PROVE  InOrder(d)'
<1> DEFINE next == cb[h].next
<1>1. /\ UNCHANGED <<job, work, msgs>> /\ cb[h].pc # "idle" /\ next \in Reported
      /\ \A g \in Handler : g # h => cb'[g] = cb[g]
      /\ events[d] \subseteq events'[d]
      /\ \/ /\ cb[h].pc = "update" /\ row'[d].status = next /\ row'[d].sid = row[d].sid
            /\ IF next \in {"delivered", "failed"}
               THEN cb'[h].pc = "emit" /\ cb'[h].d = d /\ cb'[h].next = next
               ELSE cb'[h] = NoCallback
         \/ cb[h].pc = "emit" /\ row' = row /\ next \in events'[d]
  BY CallbackFacts
<1>2. MessagesOf(d) # {} /\ MessagesOf(d)' = MessagesOf(d)
  BY <1>1, NoMessage DEF MessagesOf
<1>3. row'[d].sid = row[d].sid
  BY <1>1
<1>4. NothingStalls(d)'
  BY <1>1 DEF InOrder, NothingStalls
<1>5. MessagesAgree(d)'
  BY <1>1, <1>2, <1>3 DEF InOrder, MessagesAgree
<1>6. FailuresMarked(d)'
  <2>1. job[d].state # "failed" /\ \A w \in Worker : work[w].d = d => work[w].pc \notin {"announce", "throw"}
    BY <1>2 DEF InOrder, MessagesAgree
  <2> QED  BY <1>1, <2>1 DEF FailuresMarked
<1>7. EventsAgree(d)'
  <2>1. row'[d].sid # 0 \/ row'[d].status = "sent" =>
          "sent" \in events'[d] \/ \E w \in Worker : work'[w].d = d /\ work'[w].pc = "emit"
    <3>1. row[d].sid # 0
      BY <1>1 DEF SidsAgree
    <3> QED  BY <1>1, <3>1 DEF InOrder, EventsAgree
  <2>2. ASSUME NEW type \in {"delivered", "failed"}, row'[d].status = type
        PROVE  \/ type \in events'[d]
               \/ \E g \in Handler : cb'[g].pc = "emit" /\ cb'[g].d = d /\ cb'[g].next = type
               \/ type = "failed" /\ \E w \in Worker : work'[w].d = d /\ work'[w].pc = "announce"
    <3>1. CASE cb[h].pc = "update"
      BY <1>1, <2>2, <3>1
    <3>2. CASE cb[h].pc = "emit"
      BY <1>1, <2>2, <3>2 DEF InOrder, EventsAgree
    <3> QED  BY <1>1, <3>1, <3>2
  <2> QED  BY <2>1, <2>2 DEF EventsAgree
<1> QED  BY <1>4, <1>5, <1>6, <1>7 DEF InOrder

\* A step of the run of d between its start and its end.
LEMMA InOrderStep ==
  ASSUME TypeOK, JobsHeld, SidsAgree, NEW d \in Delivery, InOrder(d), ~Mishap(d),
         NEW w \in Worker, Step(w), work[w].d = d
  PROVE  InOrder(d)'
<1>1. /\ work[w].locked /\ job[d].state = "active" /\ work[w].attempt = job[d].made + 1
      /\ \A v \in Worker : work[v].d = d => v = w
  BY OneRun
<1>2. /\ UNCHANGED <<job, cb>> /\ work'[w].d = d /\ work'[w].locked /\ work'[w].attempt = work[w].attempt
      /\ \A v \in Worker : work'[v].d = d => v = w
  BY <1>1, StepWork
<1>3. NothingStalls(d)'
  BY <1>1, <1>2 DEF NothingStalls
<1>4. job'[d].state = "active"
  BY <1>1, <1>2
<1>5. events[d] \subseteq events'[d] /\ row[d] \in [status : {"none", "queued"} \cup Reported, sid : Nat, attempts : 0..Attempts]
  BY StepHarm DEF TypeOK
\* Of the run, what the parts of the invariant say while it is the only one and the job is active
<1>6. ASSUME /\ work'[w].pc \in {"send", "giveup", "announce", "throw"} => MessagesOf(d)' = {}
             /\ work'[w].pc = "record" => row'[d].sid = 0,
             /\ work'[w].pc = "announce" => IsLastAttempt(w)
             /\ work'[w].pc \in {"announce", "throw"} /\ IsLastAttempt(w) => row'[d].status = "failed",
             row'[d].sid # 0 \/ row'[d].status = "sent" => "sent" \in events'[d] \/ work'[w].pc = "emit",
             \/ row'[d].status \notin {"delivered", "failed"}
             \/ row'[d].status = row[d].status /\ work[w].pc # "announce"
             \/ row'[d].status = "failed" /\ ("failed" \in events'[d] \/ work'[w].pc = "announce")
      PROVE  InOrder(d)'
  <2>1. MessagesAgree(d)'
    BY <1>2, <1>4, <1>6 DEF MessagesAgree
  <2>2. FailuresMarked(d)'
    BY <1>2, <1>4, <1>6 DEF FailuresMarked, IsLastAttempt
  <2>3. row'[d].sid # 0 \/ row'[d].status = "sent" =>
          "sent" \in events'[d] \/ \E v \in Worker : work'[v].d = d /\ work'[v].pc = "emit"
    BY <1>2, <1>6
  <2>4. ASSUME NEW type \in {"delivered", "failed"}, row'[d].status = type
        PROVE  \/ type \in events'[d]
               \/ \E h \in Handler : cb'[h].pc = "emit" /\ cb'[h].d = d /\ cb'[h].next = type
               \/ type = "failed" /\ \E v \in Worker : work'[v].d = d /\ work'[v].pc = "announce"
    <3>1. CASE row'[d].status = row[d].status /\ work[w].pc # "announce"
      <4>1. \A v \in Worker : work[v].d = d => work[v].pc # "announce"
        BY <1>1, <3>1
      <4> QED  BY <1>2, <1>5, <2>4, <3>1, <4>1 DEF InOrder, EventsAgree
    <3>2. CASE row'[d].status = "failed" /\ ("failed" \in events'[d] \/ work'[w].pc = "announce")
      BY <1>2, <2>4, <3>2
    <3> QED  BY <1>6, <2>4, <3>1, <3>2
  <2> QED  BY <1>3, <2>1, <2>2, <2>3, <2>4 DEF InOrder, EventsAgree
<1>7. MessagesAgree(d) /\ FailuresMarked(d) /\ EventsAgree(d)
  BY DEF InOrder
<1>8. CASE SendAccepted(w) \/ SendRefused(w)
  <2>1. row' = row /\ work[w].pc = "send"
    BY <1>8 DEF SendAccepted, SendRefused
  <2>2. MessagesOf(d) = {} /\ row[d].sid = 0 /\ row[d].status # "sent"
    BY <1>7, <2>1, NoMessage DEF MessagesAgree
  <2>3. CASE SendAccepted(w)
    <3>1. work'[w].pc = "record"
      BY <2>3 DEF SendAccepted, TypeOK
    <3> QED  BY <1>6, <2>1, <2>2, <3>1
  <2>4. CASE SendRefused(w)
    <3>1. work'[w].pc \in {"send", "giveup"} /\ MessagesOf(d)' = {}
      <4>1. NextChannel(w) /\ msgs' = msgs
        BY <2>4 DEF SendRefused
      <4>2. work[w] \in Runs
        BY StepWork
      <4>3. Onward(w)
        BY <4>1, <4>2, NextChannelFacts
      <4> QED  BY <2>2, <4>1, <4>3 DEF Onward, MessagesOf
    <3> QED  BY <1>6, <2>1, <2>2, <3>1
  <2> QED  BY <1>8, <2>3, <2>4
<1>9. ~SendUnanswered(w) /\ ~RecordFails(w) /\ ~GiveUpFails(w)
  BY DEF SendUnanswered, RecordFails, GiveUpFails
<1>10. CASE RecordSent(w)
  <2>1. work[w].pc = "record" /\ msgs' = msgs /\ row' = Sent(w) /\ work'[w].pc = "emit"
    BY <1>10 DEF RecordSent, TypeOK
  <2>2. row'[d].status = "sent"
    BY <2>1 DEF Sent, TypeOK
  <2> QED  BY <1>6, <2>1, <2>2
<1>11. CASE EmitSent(w)
  <2>1. work[w].pc = "emit" /\ row' = row /\ msgs' = msgs /\ work'[w].pc = "done" /\ Emit(d, "sent")
    BY <1>11 DEF EmitSent, TypeOK
  <2>2. "sent" \in events'[d]
    BY <2>1, EmitFacts DEF Reported
  <2> QED  BY <1>6, <2>1, <2>2
<1>12. CASE GiveUp(w)
  <2>1. /\ work[w].pc = "giveup" /\ msgs' = msgs
        /\ work'[w].pc = IF IsLastAttempt(w) THEN "announce" ELSE "throw"
    BY <1>12 DEF GiveUp, TypeOK
  <2>2. row'[d].sid = row[d].sid /\ row'[d].status = IF IsLastAttempt(w) THEN "failed" ELSE "queued"
    <3>1. LET s == IF IsLastAttempt(w) THEN "failed" ELSE "queued"
          IN  row' = [row EXCEPT ![d] = [row[d] EXCEPT !.status = s, !.attempts = work[w].attempt]]
      BY <1>12 DEF GiveUp, TypeOK
    <3> QED  BY <3>1 DEF TypeOK
  <2>3. MessagesOf(d) = {} /\ MessagesOf(d)' = {}
    BY <1>7, <2>1 DEF MessagesAgree, MessagesOf
  <2>4. row'[d].sid = 0
    BY <2>2, <2>3, NoMessage
  <2> QED  BY <1>6, <2>1, <2>2, <2>3, <2>4
<1>13. CASE EmitFailed(w)
  <2>1. work[w].pc = "announce" /\ row' = row /\ msgs' = msgs /\ work'[w].pc = "throw" /\ Emit(d, "failed")
    BY <1>13 DEF EmitFailed, TypeOK
  <2>2. "failed" \in events'[d]
    BY <2>1, EmitFacts DEF Reported
  <2>3. MessagesOf(d) = {} /\ MessagesOf(d)' = {}
    BY <1>7, <2>1 DEF MessagesAgree, MessagesOf
  <2>4. row'[d].sid = 0
    BY <2>1, <2>3, NoMessage
  <2>5. row'[d].status = "failed"
    BY <1>7, <2>1 DEF FailuresMarked
  <2> QED  BY <1>6, <2>1, <2>2, <2>3, <2>4, <2>5
<1> QED  BY <1>8, <1>9, <1>10, <1>11, <1>12, <1>13 DEF Step

\* Of a delivery nothing has failed for, the parts of the invariant hold after every step.
LEMMA InOrderNext ==
  ASSUME IInv, Next, NEW d \in Delivery, Unharmed(d)'
  PROVE  InOrder(d)'
<1>1. TypeOK /\ JobsHeld /\ SidsAgree
  BY DEF IInv
<1>2. InOrder(d) /\ ~Mishap(d)
  BY <1>1, StillUnharmed DEF IInv
<1>3. ASSUME NEW e \in Delivery, Create(e) \/ Enqueue(e) PROVE InOrder(d)'
  <2>1. CASE e = d
    BY <1>1, <1>2, <1>3, <2>1, InOrderRequest
  <2>2. CASE e # d
    <3>1. UNCHANGED <<work, msgs, cb, events>> /\ row'[d] = row[d] /\ job'[d] = job[d]
      BY <1>1, <1>3, <2>2, RequestFacts
    <3> QED  BY <1>2, <3>1, Untouched DEF MessagesOf
  <2> QED  BY <2>1, <2>2
<1>4. ASSUME NEW e \in Delivery, Stalled(e) PROVE InOrder(d)'
  <2>1. /\ UNCHANGED <<row, work, msgs, cb, events>> /\ job[e].state = "active"
        /\ \A w \in Worker : ~(work[w].d = e /\ work[w].locked)
        /\ e # d => job'[d] = job[d]
    BY <1>1, <1>4, StalledFacts
  <2>2. e # d
    BY <1>2, <2>1 DEF InOrder, NothingStalls
  <2> QED  BY <1>2, <2>1, <2>2, Untouched DEF MessagesOf
<1>5. ASSUME NEW w \in Worker, NEW e \in Delivery, Take(w, e) PROVE InOrder(d)'
  <2>1. CASE e = d
    BY <1>1, <1>2, <1>5, <2>1, InOrderTake
  <2>2. CASE e # d
    <3>1. /\ UNCHANGED <<row, msgs, cb, events>> /\ work[w] = NoRun /\ work'[w].d = e
          /\ \A v \in Worker : v # w => work'[v] = work[v]
      BY <1>1, <1>5, TakeFacts
    <3>2. job'[d] = job[d]
      BY <1>1, <1>5, <2>2, TakeFacts
    <3>3. work[w].d # d
      BY <3>1, NoRunIs, SetsAssumption
    <3> QED  BY <1>2, <2>2, <3>1, <3>2, <3>3, Untouched DEF MessagesOf
  <2> QED  BY <2>1, <2>2
<1>6. ASSUME NEW w \in Worker, Step(w) PROVE InOrder(d)'
  <2>1. CASE work[w].d = d
    BY <1>1, <1>2, <1>6, <2>1, InOrderStep
  <2>2. CASE work[w].d # d
    <3>1. /\ UNCHANGED <<job, cb>> /\ work[w].d \in Delivery /\ work'[w].d = work[w].d
          /\ \A v \in Worker : v # w => work'[v] = work[v]
      BY <1>1, <1>6, StepWork
    <3>2. row'[d] = row[d] /\ events'[d] = events[d]
      BY <1>1, <1>6, <2>2, StepRow, StepHarm
    <3>3. MessagesOf(d)' = MessagesOf(d)
      <4>1. CASE msgs' = msgs
        BY <4>1 DEF MessagesOf
      <4>2. CASE msgs' = Append(msgs, work[w].d)
        BY <1>1, <2>2, <3>1, <4>2, Appended
      <4> QED  BY <1>6, <4>1, <4>2, StepMsgs
    <3> QED  BY <1>2, <2>2, <3>1, <3>2, <3>3, Untouched
  <2> QED  BY <2>1, <2>2
<1>7. ASSUME NEW w \in Worker, Complete(w) \/ Throw(w) \/ Crash(w) PROVE InOrder(d)'
  <2>1. CASE work[w].d = d
    BY <1>1, <1>2, <1>7, <2>1, InOrderEnd
  <2>2. CASE work[w].d # d
    <3>1. /\ UNCHANGED <<row, msgs, cb, events>> /\ \A v \in Worker : work'[v] = IF v = w THEN NoRun ELSE work[v]
          /\ job'[d] = job[d]
      BY <1>1, <1>7, <2>2, EndFacts
    <3>2. \A v \in Worker : work[v].d = d \/ work'[v].d = d => work'[v] = work[v]
      BY <2>2, <3>1, NoRunIs, SetsAssumption
    <3> QED  BY <1>2, <3>1, <3>2, Untouched DEF MessagesOf
  <2> QED  BY <2>1, <2>2
<1>8. ASSUME NEW w \in Worker, LoseLock(w) PROVE InOrder(d)'
  <2>1. /\ UNCHANGED <<row, job, msgs, cb, events>> /\ work'[w].d = work[w].d /\ Mishap(work[w].d)
        /\ \A v \in Worker : v # w => work'[v] = work[v]
    BY <1>1, <1>8, LoseLockFacts
  <2>2. work[w].d # d
    BY <1>2, <2>1
  <2> QED  BY <1>2, <2>1, <2>2, Untouched DEF MessagesOf
<1>9. ASSUME NEW h \in Handler, Callback(h) PROVE InOrder(d)'
  <2>1. CASE cb[h].d = d
    BY <1>1, <1>2, <1>9, <2>1, InOrderCallback
  <2>2. CASE cb[h].d # d
    <3>1. /\ UNCHANGED <<job, work, msgs>> /\ row'[d] = row[d] /\ events'[d] = events[d]
          /\ \A g \in Handler : g # h => cb'[g] = cb[g]
      BY <1>1, <1>9, <2>2, CallbackFacts
    <3> QED  BY <1>2, <2>2, <3>1, Untouched DEF MessagesOf
  <2> QED  BY <2>1, <2>2
<1>10. ASSUME NEW h \in Handler, NEW e \in Delivery, NEW sid \in DOMAIN msgs, NEW next \in Reported,
              CallbackBegin(h, e, sid, next)
       PROVE  InOrder(d)'
  <2>1. /\ UNCHANGED <<row, job, work, msgs, events>> /\ cb[h] = NoCallback
        /\ \A g \in Handler : g # h => cb'[g] = cb[g]
    BY <1>1, <1>10, BeginFacts
  <2>2. cb[h].pc # "emit"
    BY <2>1 DEF NoCallback
  <2> QED  BY <1>2, <2>1, <2>2, Untouched DEF MessagesOf
<1> QED  BY <1>3, <1>4, <1>5, <1>6, <1>7, <1>8, <1>9, <1>10, NextCases

-----------------------------------------------------------------------------
\* The first state: no row, no job, no run.
LEMMA InitIInv == Init => IInv
<1> SUFFICES ASSUME Init PROVE IInv
  OBVIOUS
<1>1. TypeOK
  BY TypeInit
<1>2. /\ \A w \in Worker : work[w] = NoRun
      /\ \A h \in Handler : cb[h] = NoCallback
      /\ \A d \in Delivery : /\ row[d].status = "none" /\ row[d].sid = 0
                             /\ job[d].state = "none" /\ job[d].made = 0 /\ job[d].stalls = 0
      /\ msgs = <<>>
  BY DEF Init
<1>3. \A w \in Worker : work[w].pc = "idle" /\ work[w].d = None /\ ~work[w].locked
  BY <1>2, NoRunIs
<1>4. \A d \in Delivery : MessagesOf(d) = {}
  BY <1>2 DEF MessagesOf
<1>5. JobsHeld
  BY <1>2, <1>3, Bounds DEF JobsHeld
<1>6. MessagesAccounted
  <2> SUFFICES ASSUME NEW d \in Delivery
               PROVE  Cardinality(MessagesOf(d)) + Cardinality(Pending(d)) <= Channels * Started(job[d])
    BY DEF MessagesAccounted
  <2>1. Pending(d) = {}
    BY <1>3, SetsAssumption DEF Pending
  <2>2. Started(job[d]) = 0
    BY <1>2 DEF Started
  <2> QED  BY <1>4, <2>1, <2>2, FS_EmptySet, Bounds
<1>7. MessagesPaid
  <2> SUFFICES ASSUME NEW d \in Delivery
               PROVE  Cardinality(MessagesOf(d)) + Cardinality(Chances(d)) + (IF Unstarted(d) THEN 1 ELSE 0)
                        <= 1 + mishaps[d]
    BY DEF MessagesPaid
  <2>1. Chances(d) = {} /\ mishaps[d] = 0
    BY <1>3, SetsAssumption DEF Chances, Init
  <2> QED  BY <1>4, <2>1, FS_EmptySet
<1>8. SidsAgree
  BY <1>2, <1>3 DEF SidsAgree, NoCallback
<1>9. ASSUME NEW d \in Delivery PROVE InOrder(d)
  <2>1. \A w \in Worker : work[w].d # d
    BY <1>3, SetsAssumption
  <2>2. NothingStalls(d)
    BY <1>2, <2>1 DEF NothingStalls
  <2>3. MessagesAgree(d)
    BY <1>2, <1>4, <2>1 DEF MessagesAgree
  <2>4. FailuresMarked(d)
    BY <1>2, <2>1 DEF FailuresMarked
  <2>5. EventsAgree(d)
    BY <1>2 DEF EventsAgree
  <2> QED  BY <2>2, <2>3, <2>4, <2>5 DEF InOrder
<1> QED  BY <1>1, <1>5, <1>6, <1>7, <1>8, <1>9 DEF IInv

\* Every step keeps the inductive invariant.
LEMMA NextIInv == IInv /\ [Next]_vars => IInv'
<1>1. ASSUME IInv, Next PROVE IInv'
  <2>1. TypeOK'
    BY <1>1, TypeNext DEF IInv
  <2>2. JobsHeld' /\ MessagesAccounted' /\ MessagesPaid' /\ SidsAgree'
    BY <1>1, <2>1, JobsHeldNext, AccountedNext, PaidNext, SidsNext
  <2>3. \A d \in Delivery : Unharmed(d)' => InOrder(d)'
    BY <1>1, InOrderNext
  <2> QED  BY <2>1, <2>2, <2>3 DEF IInv
<1>2. ASSUME IInv, UNCHANGED vars PROVE IInv'
  <2> USE <1>2 DEF vars
  <2>1. TypeOK' /\ JobsHeld'
    BY DEF IInv, TypeOK, JobsHeld
  <2>2. \A d \in Delivery : MessagesOf(d)' = MessagesOf(d) /\ Pending(d)' = Pending(d)
    BY DEF MessagesOf, Pending
  <2>3. MessagesAccounted'
    BY <2>2 DEF IInv, MessagesAccounted
  <2>4. SidsAgree'
    BY DEF IInv, SidsAgree, MessagesOf
  <2>5. MessagesPaid'
    BY <2>2 DEF IInv, MessagesPaid, Chances, Unstarted, Held
  <2>6. ASSUME NEW d \in Delivery, Unharmed(d)' PROVE InOrder(d)'
    <3>1. InOrder(d)
      BY <2>6 DEF IInv, Unharmed
    <3> QED  BY <2>2, <3>1, Untouched
  <2> QED  BY <2>1, <2>3, <2>4, <2>5, <2>6 DEF IInv
<1> QED  BY <1>1, <1>2

(* The inductive invariant holds in every state the queue, the worker, the
   provider and the callbacks can reach, for any number of deliveries, runs,
   handlers, channels, attempts, stalls and failures. *)
THEOREM Invariant == Spec => []IInv
  BY InitIInv, NextIInv, PTL DEF Spec

(* A row that says sent or delivered stands for a message the provider accepted,
   and its id is of a message of that delivery, whatever fails, stalls or runs
   twice (otp-worker.ts:26). *)
THEOREM SentIsAccepted == Spec => []SentMeansAccepted
<1>1. IInv => SentMeansAccepted
  BY DEF IInv, SidsAgree, SentMeansAccepted
<1> QED  BY <1>1, Invariant, PTL

(* The user gets one message, and at most one more for every failure on the way:
   the chain and the retries stop at the first success (otp-worker.ts:11). *)
THEOREM OneMessageOnly == Spec => []OneMessage
<1>1. ASSUME IInv, NEW d \in Delivery PROVE Cardinality(MessagesOf(d)) <= 1 + mishaps[d]
  <2>1. TypeOK /\ MessagesPaid
    BY <1>1 DEF IInv
  <2>2. Cardinality(MessagesOf(d)) + Cardinality(Chances(d)) + (IF Unstarted(d) THEN 1 ELSE 0) <= 1 + mishaps[d]
    BY <2>1 DEF MessagesPaid
  <2>3. mishaps[d] \in Nat
    BY <2>1, Bounds DEF TypeOK
  <2> QED  BY <2>1, <2>2, <2>3, MessagesFinite, ChancesFinite
<1>2. IInv => OneMessage
  BY <1>1 DEF OneMessage
<1> QED  BY <1>2, Invariant, PTL

(* When the queue gives a job up, the row says failed unless a failure of the
   database, a worker, a lock or an answer is to blame (otp-worker.ts:11). *)
THEOREM ExhaustedIsMarked == Spec => []ExhaustedMarked
<1>1. IInv => ExhaustedMarked
  BY DEF IInv, InOrder, FailuresMarked, ExhaustedMarked
<1> QED  BY <1>1, Invariant, PTL

(* What the row of a delivery at rest says was announced by an event, unless
   something failed for it (the emits of otp-worker.ts and app.ts). *)
THEOREM AllIsAnnounced == Spec => []Announced
<1>1. ASSUME IInv, NEW d \in Delivery, Quiet(d), Unharmed(d), row[d].status \in Reported
      PROVE  row[d].status \in events[d]
  <2>1. EventsAgree(d)
    BY <1>1 DEF IInv, InOrder
  <2>2. CASE row[d].status = "sent"
    BY <1>1, <2>1, <2>2 DEF EventsAgree, Quiet
  <2>3. CASE row[d].status \in {"delivered", "failed"}
    BY <1>1, <2>1, <2>3 DEF EventsAgree, Quiet
  <2> QED  BY <1>1, <2>2, <2>3 DEF Reported
<1>2. IInv => Announced
  BY <1>1 DEF Announced
<1> QED  BY <1>2, Invariant, PTL

(* Whatever stalls, dies or is run twice, the provider takes at most one message
   per channel for each attempt and each stall of the job: what a user can be
   sent, and billed for, is bounded by the settings of the queue (otp-queue.ts). *)
THEOREM MessagesAreBounded == Spec => []MessagesBounded
<1>1. ASSUME IInv, NEW d \in Delivery
      PROVE  Cardinality(MessagesOf(d)) <= Channels * (Attempts + job[d].stalls)
  <2>1. TypeOK /\ JobsHeld /\ MessagesAccounted
    BY <1>1 DEF IInv
  <2>2. job[d] \in Jobs
    BY <2>1 DEF TypeOK
  <2>3. Started(job[d]) \in Nat /\ Attempts + job[d].stalls \in Nat /\ Started(job[d]) <= Attempts + job[d].stalls
    BY <2>2, Bounds DEF Jobs, Started
  <2>4. Channels * Started(job[d]) <= Channels * (Attempts + job[d].stalls)
        /\ Channels * Started(job[d]) \in Nat /\ Channels * (Attempts + job[d].stalls) \in Nat
    BY <2>3, Times, Bounds
  <2>5. Cardinality(MessagesOf(d)) + Cardinality(Pending(d)) <= Channels * Started(job[d])
    BY <2>1 DEF MessagesAccounted
  <2> QED  BY <2>1, <2>4, <2>5, MessagesFinite, PendingFinite
<1>2. IInv => MessagesBounded
  BY <1>1 DEF MessagesBounded
<1> QED  BY <1>2, Invariant, PTL

-----------------------------------------------------------------------------
\* What a callback has read of the row is still so: it was not delivered.
ReadHolds == \A h \in Handler : cb[h].pc = "update" => row[cb[h].d].status # "delivered"

\* No request, run of a job or queue makes a row delivered.
LEMMA OnlyCallbacksDeliver ==
  ASSUME TypeOK, Next, NEW d \in Delivery, row'[d].status = "delivered", row[d].status # "delivered"
  PROVE  \E h \in Handler : Callback(h) /\ cb[h].pc = "update" /\ cb[h].d = d /\ cb'[h].pc # "update"
<1>1. row' # row
  OBVIOUS
<1>2. ASSUME NEW e \in Delivery, Create(e) \/ Enqueue(e) PROVE FALSE
  <2>1. row'[d].status \in {row[d].status, "queued"}
    BY <1>2, RequestFacts
  <2> QED  BY <2>1
<1>3. ASSUME NEW w \in Worker, Step(w) PROVE FALSE
  <2>1. row'[d] = row[d] \/ row'[d].status \in {"sent", "failed", "queued"}
    <3>1. CASE work[w].d = d
      BY <1>3, <3>1, StepRow
    <3>2. CASE work[w].d # d
      BY <1>3, <3>2, StepRow
    <3> QED  BY <3>1, <3>2
  <2> QED  BY <2>1
<1>4. ASSUME NEW h \in Handler, Callback(h)
      PROVE  cb[h].pc = "update" /\ cb[h].d = d /\ cb'[h].pc # "update"
  <2>1. NoCallback.pc # "update"
    BY DEF NoCallback
  <2> QED  BY <1>4, <2>1, CallbackFacts
<1>5. ~ \E e \in Delivery : Stalled(e) \/ \E w \in Worker : Take(w, e)
  BY <1>1 DEF Stalled, Take
<1>6. ~ \E w \in Worker : Complete(w) \/ Throw(w) \/ Crash(w) \/ LoseLock(w)
  BY <1>1 DEF Complete, Throw, Crash, LoseLock
<1>7. ~ \E h \in Handler, e \in Delivery, sid \in DOMAIN msgs, next \in Reported : CallbackBegin(h, e, sid, next)
  BY <1>1 DEF CallbackBegin
<1> QED  BY <1>2, <1>3, <1>4, <1>5, <1>6, <1>7, NextCases

\* One handler at a time: what it has read no other callback changes.
LEMMA ReadHoldsNext ==
  ASSUME \A g, h \in Handler : g = h, IInv, ReadHolds, [Next]_vars
  PROVE  ReadHolds'
<1>1. TypeOK
  BY DEF IInv
<1>2. ASSUME Next, NEW h \in Handler, cb'[h].pc = "update" PROVE row'[cb'[h].d].status # "delivered"
  <2>1. CASE Callback(h)
    <3>1. cb'[h].pc # "update"
      <4>1. NoCallback.pc # "update"
        BY DEF NoCallback
      <4> QED  BY <1>1, <2>1, <4>1, CallbackFacts
    <3> QED  BY <1>2, <3>1
  <2>2. CASE ~Callback(h)
    <3>1. cb'[h].d \in Delivery /\ row[cb'[h].d].status # "delivered"
      <4>1. CASE \E e \in Delivery, sid \in DOMAIN msgs, next \in Reported : CallbackBegin(h, e, sid, next)
        BY <1>1, <4>1, BeginFacts
      <4>2. CASE cb' = cb
        BY <1>1, <1>2, <4>2, BusyCallback DEF ReadHolds
      <4>3. \/ cb' = cb
            \/ \E g \in Handler : Callback(g)
            \/ \E g \in Handler, e \in Delivery, sid \in DOMAIN msgs, next \in Reported : CallbackBegin(g, e, sid, next)
        <5>1. ASSUME NEW w \in Worker, Step(w) PROVE cb' = cb
          BY <1>1, <5>1, StepWork
        <5> QED  BY <1>2, <5>1, NextCases DEF Create, Enqueue, Stalled, Take, Complete, Throw, Crash, LoseLock
      <4> QED  BY <2>2, <4>1, <4>2, <4>3
    <3>2. ASSUME row'[cb'[h].d].status = "delivered" PROVE FALSE
      BY <1>1, <1>2, <2>2, <3>1, <3>2, OnlyCallbacksDeliver
    <3> QED  BY <3>2
  <2> QED  BY <2>1, <2>2
<1>3. CASE UNCHANGED vars
  BY <1>3 DEF vars, ReadHolds
<1> QED  BY <1>2, <1>3 DEF ReadHolds

(* Callbacks handled one at a time never take a row back from delivered, and no
   run of the job does, unless something failed for the delivery
   (tests/integration/delivery.test.ts:175).  Without the hypothesis TLC has a
   counterexample: the check and the update of two callbacks interleave. *)
THEOREM OneByOneDeliveredStays ==
  ASSUME \A g, h \in Handler : g = h
  PROVE  Spec => DeliveredStays
<1>1. Init => ReadHolds
  BY DEF Init, ReadHolds, NoCallback
<1>2. IInv /\ ReadHolds /\ [Next]_vars => ReadHolds'
  BY ReadHoldsNext
<1>3. ASSUME IInv, ReadHolds, Next, NEW d \in Delivery, row[d].status = "delivered", Unharmed(d)'
      PROVE  row'[d].status = "delivered"
  <2>1. TypeOK /\ InOrder(d) /\ ~Mishap(d) /\ row[d].sid # 0 /\ MessagesOf(d) # {}
    BY <1>3, StillUnharmed DEF IInv, SidsAgree
  <2>2. ASSUME NEW e \in Delivery, Create(e) \/ Enqueue(e) PROVE row'[d].status = "delivered"
    <3>1. row'[d] = row[d]
      <4>1. CASE e = d
        BY <1>3, <2>2, <4>1 DEF Create, Enqueue
      <4>2. CASE e # d
        BY <2>1, <2>2, <4>2, RequestFacts
      <4> QED  BY <4>1, <4>2
    <3> QED  BY <1>3, <3>1
  <2>3. ASSUME NEW w \in Worker, Step(w) PROVE row'[d].status = "delivered"
    <3>1. CASE work[w].d = d
      <4>1. work[w].pc \notin {"record", "giveup"}
        BY <2>1, <3>1 DEF InOrder, MessagesAgree
      <4>2. ~GiveUp(w)
        BY <4>1 DEF GiveUp
      <4> QED  BY <1>3, <2>1, <2>3, <3>1, <4>1, <4>2, StepRow
    <3>2. CASE work[w].d # d
      BY <1>3, <2>1, <2>3, <3>2, StepRow
    <3> QED  BY <3>1, <3>2
  <2>4. ASSUME NEW h \in Handler, Callback(h) PROVE row'[d].status = "delivered"
    <3>1. ~(cb[h].pc = "update" /\ cb[h].d = d)
      BY <1>3 DEF ReadHolds
    <3> QED  BY <1>3, <2>1, <2>4, <3>1, CallbackFacts
  <2>5. CASE row' = row
    BY <1>3, <2>5
  <2>6. \/ row' = row
        \/ \E e \in Delivery : Create(e) \/ Enqueue(e)
        \/ \E w \in Worker : Step(w)
        \/ \E h \in Handler : Callback(h)
    BY <1>3, NextCases DEF Stalled, Take, Complete, Throw, Crash, LoseLock, CallbackBegin
  <2> QED  BY <2>2, <2>3, <2>4, <2>5, <2>6
<1>4. IInv /\ ReadHolds /\ [Next]_vars =>
        [\A d \in Delivery : row[d].status = "delivered" /\ Unharmed(d)' => row'[d].status = "delivered"]_vars
  BY <1>3
<1> QED  BY <1>1, <1>2, <1>4, Invariant, PTL DEF Spec, DeliveredStays
=============================================================================
