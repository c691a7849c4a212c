---------------------------- MODULE WebhookProofs ----------------------------
(***************************************************************************)
(* What holds of webhooks for every number of events, endpoints and workers,   *)
(* and for every bound on attempts, stalls, rotations and failures.            *)
(*                                                                         *)
(* A run that is started posts once, and a job is held by the one run that has  *)
(* its lock: from these two (RunsAccounted, JobsHeld) come the bounds on posts. *)
(* While nothing fails no run loses its lock, so the log, the job and what the  *)
(* receiver has seen can be told from where the job's run is (UnharmedInOrder). *)
(***************************************************************************)
EXTENDS WebhookDelivery, FiniteSetTheorems, TLAPS

\* The pcs of a run
Stages == {"lookup", "post", "record", "catch", "done", "throw"}

\* A run that is not idle is a run of a target.
LEMMA BusyRun ==
  ASSUME TypeOK, NEW w \in Worker, work[w].pc # "idle" \/ work[w].locked
  PROVE  work[w] \in Runs /\ work[w].t \in Target /\ work[w].t[1] \in Event /\ work[w].t[2] \in Endpoint
  BY DEF TypeOK, NoRun, Runs, Target

\* Changing a field of a run or of a job keeps its type.
LEMMA RunUpdate ==
  ASSUME NEW r \in Runs
  PROVE  /\ \A p \in Stages : [r EXCEPT !.pc = p] \in Runs
         /\ \A p \in Stages, s \in 0..MaxSecret : [r EXCEPT !.pc = p, !.secret = s] \in Runs
         /\ \A b \in BOOLEAN : [r EXCEPT !.locked = b] \in Runs
  BY DEF Runs, Stages

LEMMA JobUpdate ==
  ASSUME NEW j \in Jobs
  PROVE  /\ \A s \in JobStates : [j EXCEPT !.state = s] \in Jobs
         /\ \A s \in JobStates, n \in 0..Attempts : [j EXCEPT !.made = n, !.state = s] \in Jobs
         /\ \A s \in JobStates, n \in 0..MaxStalls : [j EXCEPT !.state = s, !.stalls = n] \in Jobs
  BY DEF Jobs

LEMMA TypeInit == Init => TypeOK
<1> USE AttemptsAssumption, BoundsAssumption
<1> QED  BY DEF Init, TypeOK, Jobs, JobStates, Target

LEMMA TypeManage ==
  ASSUME TypeOK, NEW e \in Endpoint, Manage(e) PROVE TypeOK'
<1>1. CASE Register(e)
  BY <1>1 DEF Register, TypeOK
<1>2. CASE Revoke(e)
  BY <1>2 DEF Revoke, TypeOK
<1>3. CASE Rotate(e)
  BY <1>3, BoundsAssumption DEF Rotate, TypeOK
<1> QED  BY <1>1, <1>2, <1>3 DEF Manage

LEMMA TypeEmit ==
  ASSUME TypeOK, NEW ev \in Event, Emit(ev) PROVE TypeOK'
<1> USE BoundsAssumption
<1> DEFINE Emitters == [pc : {"idle", "log", "add", "done", "failed"}, left : SUBSET Endpoint, due : SUBSET Endpoint]
<1>0. emitter[ev] \in Emitters
  BY DEF TypeOK
<1>1. CASE Find(ev)
  BY <1>1 DEF Find, Subscribers, TypeOK
<1>2. CASE EmitFails(ev)
  <2>1. [emitter[ev] EXCEPT !.pc = "failed"] \in Emitters
    BY <1>0
  <2>2. emitter' = [emitter EXCEPT ![ev] = [emitter[ev] EXCEPT !.pc = "failed"]]
    BY <1>2 DEF EmitFails, TypeOK
  <2>3. emitter' \in [Event -> Emitters]
    BY <2>1, <2>2 DEF TypeOK
  <2> QED  BY <1>2, <2>3 DEF EmitFails, Mishap, TypeOK
<1>3. ASSUME NEW e \in Endpoint, LogCreate(ev, e) PROVE TypeOK'
  BY <1>3 DEF LogCreate, TypeOK, Target
<1>4. ASSUME NEW e \in Endpoint, QueueAdd(ev, e) PROVE TypeOK'
  <2>1. Added(ev, e) \in Emitters
    <3> DEFINE left == emitter[ev].left \ {e}
               pc == IF left = {} THEN "done" ELSE "log"
    <3>1. left \in SUBSET Endpoint /\ pc \in {"done", "log"}
      BY <1>0
    <3>2. Added(ev, e) = [emitter[ev] EXCEPT !.pc = pc, !.left = left]
      BY DEF Added
    <3> HIDE DEF left, pc
    <3> QED  BY <1>0, <3>1, <3>2
  <2>2. job' \in [Target -> Jobs]
    BY <1>4 DEF QueueAdd, TypeOK, Target, Jobs, JobStates
  <2> QED  BY <1>4, <2>1, <2>2 DEF QueueAdd, TypeOK
<1> QED  BY <1>1, <1>2, <1>3, <1>4 DEF Emit

LEMMA TypeRun ==
  ASSUME IInv, NEW w \in Worker, Run(w) \/ Crash(w) \/ LoseLock(w) PROVE TypeOK'
<1> USE AttemptsAssumption, BoundsAssumption
<1>1. TypeOK /\ JobsHeld
  BY DEF IInv
<1>2. work' \in [Worker -> {NoRun} \cup Runs]
  <2>1. ASSUME NEW t \in Target, Take(w, t) PROVE work' \in [Worker -> {NoRun} \cup Runs]
    BY <1>1, <2>1 DEF Take, TypeOK, JobsHeld, Runs, Jobs
  <2>2. CASE LookupLive(w)
    <3>1. work[w] \in Runs /\ EndpointOf(w).secret \in 0..MaxSecret
      BY <1>1, <2>2, BusyRun DEF LookupLive, EndpointOf, TypeOK
    <3>2. work' = [work EXCEPT ![w] = [work[w] EXCEPT !.pc = "post", !.secret = EndpointOf(w).secret]]
      BY <1>1, <2>2 DEF LookupLive, TypeOK
    <3> QED  BY <1>1, <3>1, <3>2, RunUpdate DEF TypeOK, Stages
  <2>3. ASSUME work[w].pc # "idle", NEW p \in Stages, work' = [work EXCEPT ![w].pc = p]
        PROVE  work' \in [Worker -> {NoRun} \cup Runs]
    BY <1>1, <2>3, BusyRun, RunUpdate DEF TypeOK
  <2>4. CASE LookupRevoked(w) \/ LookupFails(w) \/ PostAccepted(w) \/ PostRefused(w) \/ PostUnanswered(w)
    BY <2>3, <2>4 DEF LookupRevoked, LookupFails, PostAccepted, PostRefused, PostUnanswered, Stages
  <2>5. CASE RecordSuccess(w) \/ RecordFails(w) \/ Catch(w) \/ CatchFails(w)
    BY <2>3, <2>5 DEF RecordSuccess, RecordFails, Catch, CatchFails, Stages
  <2>6. CASE Complete(w) \/ Throw(w) \/ Crash(w)
    BY <1>1, <2>6 DEF Complete, Throw, Finish, Crash, TypeOK
  <2>7. CASE LoseLock(w)
    BY <1>1, <2>7, BusyRun, RunUpdate DEF LoseLock, TypeOK
  <2> QED  BY <2>1, <2>2, <2>4, <2>5, <2>6, <2>7 DEF Run
<1>3. job' \in [Target -> Jobs]
  <2>1. ASSUME NEW t \in Target, Take(w, t) PROVE job' \in [Target -> Jobs]
    BY <1>1, <2>1 DEF Take, TypeOK, Jobs, JobStates
  <2>2. ASSUME work[w].pc # "idle", NEW new \in Jobs, Finish(w, new) PROVE job' \in [Target -> Jobs]
    BY <1>1, <2>2, BusyRun DEF Finish, TypeOK
  <2>3. CASE Complete(w)
    BY <1>1, <2>2, <2>3, BusyRun, JobUpdate DEF Complete, TypeOK, JobStates
  <2>4. CASE Throw(w) /\ work[w].locked
    <3>1. work[w].t \in Target /\ job[work[w].t] \in Jobs /\ job[work[w].t].made < Attempts
      BY <1>1, <2>4, BusyRun DEF TypeOK, JobsHeld
    <3>2. Retried(job[work[w].t]) \in Jobs
      <4>1. job[work[w].t].made + 1 \in 0..Attempts
        BY <3>1 DEF Jobs
      <4> QED  BY <3>1, <4>1, JobUpdate DEF Retried, JobStates
    <3> QED  BY <2>2, <2>4, <3>2 DEF Throw
  <2>5. CASE Throw(w) /\ ~work[w].locked
    BY <1>1, <2>5 DEF Throw, Finish, TypeOK
  <2>6. CASE UNCHANGED job
    BY <1>1, <2>6 DEF TypeOK
  <2> QED  BY <2>1, <2>3, <2>4, <2>5, <2>6
         DEF Run, LookupLive, LookupRevoked, LookupFails, PostAccepted, PostRefused, PostUnanswered,
             RecordSuccess, RecordFails, Catch, CatchFails, Crash, LoseLock
<1>4. log' \in [Target -> {"none", "pending", "success", "failed", "cancelled"}]
  <2>1. log' = log \/ \E s \in {"pending", "success", "failed", "cancelled"} : log' = [log EXCEPT ![work[w].t] = s]
    BY DEF Run, Take, LookupLive, LookupRevoked, LookupFails, PostAccepted, PostRefused, PostUnanswered,
           RecordSuccess, RecordFails, Catch, CatchFails, Complete, Throw, Finish, Crash, LoseLock
  <2> QED  BY <1>1, <2>1 DEF TypeOK
<1>5. got' \in [Target -> [posts : Nat, received : BOOLEAN, answered : BOOLEAN]] /\ stale' \in [Endpoint -> Nat]
  <2>1. ASSUME NEW r \in BOOLEAN, NEW a \in BOOLEAN, work[w].pc = "post", Posted(w, r, a)
        PROVE  got' \in [Target -> [posts : Nat, received : BOOLEAN, answered : BOOLEAN]] /\ stale' \in [Endpoint -> Nat]
    <3>1. work[w].t \in Target /\ work[w].t[2] \in Endpoint
      BY <1>1, <2>1, BusyRun
    <3>2. [posts |-> got[work[w].t].posts + 1, received |-> got[work[w].t].received \/ r,
           answered |-> got[work[w].t].answered \/ a]
            \in [posts : Nat, received : BOOLEAN, answered : BOOLEAN]
      BY <1>1, <3>1 DEF TypeOK
    <3>3. got' \in [Target -> [posts : Nat, received : BOOLEAN, answered : BOOLEAN]]
      BY <1>1, <2>1, <3>1, <3>2 DEF Posted, TypeOK
    <3>4. stale' \in [Endpoint -> Nat]
      BY <1>1, <2>1, <3>1 DEF Posted, TypeOK
    <3> QED  BY <3>3, <3>4
  <2>2. CASE PostAccepted(w) \/ PostRefused(w) \/ PostUnanswered(w)
    BY <2>1, <2>2 DEF PostAccepted, PostRefused, PostUnanswered
  <2>3. CASE UNCHANGED <<got, stale>>
    BY <1>1, <2>3 DEF TypeOK
  <2> QED  BY <2>2, <2>3
         DEF Run, Take, LookupLive, LookupRevoked, LookupFails, RecordSuccess, RecordFails, Catch, CatchFails,
             Complete, Throw, Finish, Crash, LoseLock
<1>6. mishaps' \in 0..MaxMishaps
  <2>1. Mishap \/ UNCHANGED mishaps
    BY DEF Run, Take, LookupLive, LookupRevoked, LookupFails, PostAccepted, PostRefused, PostUnanswered,
           RecordSuccess, RecordFails, Catch, CatchFails, Complete, Throw, Finish, Crash, LoseLock
  <2> QED  BY <1>1, <2>1 DEF TypeOK, Mishap
<1>7. UNCHANGED <<endpoint, emitter>>
  BY DEF Run, Take, LookupLive, LookupRevoked, LookupFails, PostAccepted, PostRefused, PostUnanswered,
         RecordSuccess, RecordFails, Catch, CatchFails, Complete, Throw, Finish, Crash, LoseLock
<1> QED  BY <1>1, <1>2, <1>3, <1>4, <1>5, <1>6, <1>7 DEF TypeOK

LEMMA TypeStalled ==
  ASSUME IInv, NEW t \in Target, Stalled(t) PROVE TypeOK'
<1>1. TypeOK
  BY DEF IInv
<1>2. job[t] \in Jobs /\ job[t].stalls \in 0..MaxStalls
  BY <1>1 DEF TypeOK, Jobs
<1>3. CASE job[t].stalls < MaxStalls
  <2>1. job[t].stalls + 1 \in 0..MaxStalls
    BY <1>2, <1>3, BoundsAssumption
  <2>2. [job[t] EXCEPT !.state = "waiting", !.stalls = job[t].stalls + 1] \in Jobs
    BY <1>2, <2>1, JobUpdate DEF JobStates
  <2> QED  BY <1>1, <1>3, <2>2 DEF Stalled, Restarted, TypeOK
<1>4. CASE ~(job[t].stalls < MaxStalls)
  <2>1. [job[t] EXCEPT !.state = "failed"] \in Jobs
    BY <1>2, JobUpdate DEF JobStates
  <2> QED  BY <1>1, <1>4, <2>1 DEF Stalled, Restarted, TypeOK
<1> QED  BY <1>3, <1>4

-----------------------------------------------------------------------------
\* The steps of a run between its start and its end
Step(w) ==
  \/ LookupLive(w) \/ LookupRevoked(w) \/ LookupFails(w)
  \/ PostAccepted(w) \/ PostRefused(w) \/ PostUnanswered(w)
  \/ RecordSuccess(w) \/ RecordFails(w) \/ Catch(w) \/ CatchFails(w)

\* Such a step changes the stage of its own run and no job.
LEMMA StepFacts ==
  ASSUME TypeOK, NEW w \in Worker, Step(w)
  PROVE  /\ UNCHANGED <<job, endpoint, emitter>>
         /\ work[w] \in Runs /\ work[w].t \in Target /\ work'[w].pc \in Stages
         /\ work[w] # NoRun /\ work'[w] # NoRun
         /\ \A v \in Worker : /\ work'[v].t = work[v].t /\ work'[v].locked = work[v].locked
                              /\ work'[v].attempt = work[v].attempt
                              /\ v # w => work'[v] = work[v]
<1>1. UNCHANGED <<job, endpoint, emitter>> /\ work[w].pc # "idle"
  BY DEF Step, LookupLive, LookupRevoked, LookupFails, PostAccepted, PostRefused, PostUnanswered,
         RecordSuccess, RecordFails, Catch, CatchFails
<1>2. work[w] \in Runs /\ work[w].t \in Target
  BY <1>1, BusyRun
<1>3. \E p \in Stages, s \in 0..MaxSecret : work' = [work EXCEPT ![w] = [work[w] EXCEPT !.pc = p, !.secret = s]]
  <2>1. ASSUME NEW p \in Stages, work' = [work EXCEPT ![w].pc = p]
        PROVE  work' = [work EXCEPT ![w] = [work[w] EXCEPT !.pc = p, !.secret = work[w].secret]]
    <3>1. [work[w] EXCEPT !.pc = p] = [work[w] EXCEPT !.pc = p, !.secret = work[w].secret]
      BY <1>2 DEF Runs
    <3> QED  BY <2>1, <3>1
  <2>2. CASE LookupLive(w)
    <3>1. work' = [work EXCEPT ![w] = [work[w] EXCEPT !.pc = "post", !.secret = EndpointOf(w).secret]]
      BY <2>2 DEF LookupLive, TypeOK
    <3>2. EndpointOf(w).secret \in 0..MaxSecret
      BY <1>2 DEF EndpointOf, Target, TypeOK
    <3> QED  BY <3>1, <3>2 DEF Stages
  <2>3. CASE ~LookupLive(w)
    <3>1. \E p \in Stages : work' = [work EXCEPT ![w].pc = p]
      BY <2>3 DEF Step, LookupRevoked, LookupFails, PostAccepted, PostRefused, PostUnanswered,
             RecordSuccess, RecordFails, Catch, CatchFails, Stages
    <3>2. work[w].secret \in 0..MaxSecret
      BY <1>2 DEF Runs
    <3> QED  BY <2>1, <3>1, <3>2
  <2> QED  BY <2>2, <2>3
<1>4. PICK p \in Stages, s \in 0..MaxSecret : work' = [work EXCEPT ![w] = [work[w] EXCEPT !.pc = p, !.secret = s]]
  BY <1>3
<1>5. /\ work'[w].pc = p /\ work'[w].t = work[w].t /\ work'[w].locked = work[w].locked
      /\ work'[w].attempt = work[w].attempt
  BY <1>2, <1>4 DEF TypeOK, Runs
<1>6. \A v \in Worker \ {w} : work'[v] = work[v]
  BY <1>4 DEF TypeOK
<1>7. work[w] # NoRun /\ work'[w] # NoRun
  BY <1>1, <1>5 DEF NoRun, Stages
<1> QED  BY <1>1, <1>2, <1>5, <1>6, <1>7

\* The start of a run.
LEMMA TakeFacts ==
  ASSUME TypeOK, NEW w \in Worker, NEW t \in Target, Take(w, t)
  PROVE  /\ UNCHANGED <<endpoint, emitter, log, got, stale, mishaps>>
         /\ work[w].pc = "idle" /\ work[w] = NoRun /\ job[t].state = "waiting"
         /\ work'[w].pc = "lookup" /\ work'[w].t = t /\ work'[w].locked
         /\ work'[w].attempt = job[t].made + 1 /\ work'[w] # NoRun
         /\ \A v \in Worker : v # w => work'[v] = work[v]
         /\ job'[t].state = "active" /\ job'[t].made = job[t].made /\ job'[t].stalls = job[t].stalls
         /\ \A u \in Target : u # t => job'[u] = job[u]
<1>1. work[w] = NoRun
  BY DEF Take, TypeOK, Runs
<1>2. work' = [work EXCEPT ![w] = [pc |-> "lookup", t |-> t, attempt |-> job[t].made + 1,
                                   secret |-> 0, locked |-> TRUE]]
  BY DEF Take
<1>3. work'[w] = [pc |-> "lookup", t |-> t, attempt |-> job[t].made + 1, secret |-> 0, locked |-> TRUE]
  BY <1>2 DEF TypeOK
<1>4. \A v \in Worker : v # w => work'[v] = work[v]
  BY <1>2 DEF TypeOK
<1>5. job[t] \in Jobs /\ job' = [job EXCEPT ![t] = [job[t] EXCEPT !.state = "active"]]
  BY DEF Take, TypeOK
<1>6. /\ job'[t].state = "active" /\ job'[t].made = job[t].made /\ job'[t].stalls = job[t].stalls
      /\ \A u \in Target : u # t => job'[u] = job[u]
  BY <1>5 DEF TypeOK, Jobs
<1> QED  BY <1>1, <1>3, <1>4, <1>6 DEF Take, NoRun

\* The end of a run, and what it does to its job.
LEMMA EndFacts ==
  ASSUME TypeOK, NEW w \in Worker, Complete(w) \/ Throw(w) \/ Crash(w)
  PROVE  /\ work[w] \in Runs /\ work[w].t \in Target /\ work[w] # NoRun
         /\ \A v \in Worker : work'[v] = IF v = w THEN NoRun ELSE work[v]
         /\ UNCHANGED <<endpoint, emitter, log, got, stale>>
         /\ \A t \in Target : t # work[w].t => job'[t] = job[t]
         /\ LET j == job[work[w].t]
                k == job'[work[w].t]
            IN  \/ k = j /\ Crash(w)
                \/ k = j /\ ~work[w].locked /\ UNCHANGED mishaps
                \/ /\ work[w].locked /\ work[w].pc = "done" /\ UNCHANGED mishaps
                   /\ k.state = "completed" /\ k.made = j.made /\ k.stalls = j.stalls
                \/ /\ work[w].locked /\ work[w].pc = "throw" /\ UNCHANGED mishaps
                   /\ k.state = IF j.made + 1 < Attempts THEN "waiting" ELSE "failed"
                   /\ k.made = j.made + 1 /\ k.stalls = j.stalls
<1>1. work[w].pc # "idle" /\ work' = [work EXCEPT ![w] = NoRun] /\ UNCHANGED <<endpoint, emitter, log, got, stale>>
  BY DEF Complete, Throw, Crash, Finish
<1>2. work[w] \in Runs /\ work[w].t \in Target /\ work[w] # NoRun /\ job[work[w].t] \in Jobs
  BY <1>1, BusyRun DEF TypeOK, NoRun
<1>3. \A v \in Worker : work'[v] = IF v = w THEN NoRun ELSE work[v]
  BY <1>1 DEF TypeOK
<1>4. CASE Crash(w) \/ (~work[w].locked /\ UNCHANGED <<job, mishaps>>)
  BY <1>1, <1>2, <1>3, <1>4 DEF Crash
<1>5. CASE work[w].locked /\ Complete(w)
  <2>1. job' = [job EXCEPT ![work[w].t] = [job[work[w].t] EXCEPT !.state = "completed"]]
    BY <1>5 DEF Complete, Finish
  <2> QED  BY <1>1, <1>2, <1>3, <1>5, <2>1 DEF TypeOK, Jobs, Complete, Finish
<1>6. CASE work[w].locked /\ Throw(w)
  <2>1. job' = [job EXCEPT ![work[w].t] = Retried(job[work[w].t])]
    BY <1>6 DEF Throw, Finish
  <2> QED  BY <1>1, <1>2, <1>3, <1>6, <2>1 DEF TypeOK, Jobs, Throw, Finish, Retried
<1> QED  BY <1>4, <1>5, <1>6 DEF Complete, Throw, Finish

LEMMA LoseLockFacts ==
  ASSUME TypeOK, NEW w \in Worker, LoseLock(w)
  PROVE  /\ UNCHANGED <<endpoint, emitter, log, job, got, stale>> /\ Mishap
         /\ work[w] \in Runs /\ work[w].t \in Target
         /\ work[w].locked /\ ~work'[w].locked /\ work[w] # NoRun /\ work'[w] # NoRun
         /\ \A v \in Worker : /\ work'[v].t = work[v].t /\ work'[v].pc = work[v].pc
                              /\ work'[v].secret = work[v].secret /\ work'[v].attempt = work[v].attempt
                              /\ v # w => work'[v] = work[v]
<1>1. work[w] \in Runs /\ work[w].t \in Target /\ work[w].pc # "idle"
  BY BusyRun DEF LoseLock, Runs
<1>2. work' = [work EXCEPT ![w] = [work[w] EXCEPT !.locked = FALSE]]
  BY DEF LoseLock, TypeOK
<1>3. /\ ~work'[w].locked /\ work'[w].pc = work[w].pc
      /\ \A v \in Worker : /\ work'[v].t = work[v].t /\ work'[v].pc = work[v].pc
                           /\ work'[v].secret = work[v].secret /\ work'[v].attempt = work[v].attempt
                           /\ v # w => work'[v] = work[v]
  BY <1>1, <1>2 DEF TypeOK, Runs
<1> QED  BY <1>1, <1>3 DEF LoseLock, NoRun

LEMMA StalledFacts ==
  ASSUME TypeOK, NEW t \in Target, Stalled(t)
  PROVE  /\ UNCHANGED <<endpoint, emitter, log, work, got, stale, mishaps>>
         /\ job[t].state = "active" /\ \A w \in Worker : ~(work[w].t = t /\ work[w].locked)
         /\ \A u \in Target : u # t => job'[u] = job[u]
         /\ job'[t].made = job[t].made
         /\ \/ job'[t].state = "waiting" /\ job'[t].stalls = job[t].stalls + 1
            \/ job'[t].state = "failed" /\ job'[t].stalls = job[t].stalls
<1>1. job[t] \in Jobs /\ job' = [job EXCEPT ![t] = Restarted(job[t])]
  BY DEF Stalled, TypeOK
<1>2. \A u \in Target : u # t => job'[u] = job[u]
  BY <1>1 DEF TypeOK
<1>3. job'[t] = Restarted(job[t])
  BY <1>1 DEF TypeOK
<1> QED  BY <1>1, <1>2, <1>3 DEF Stalled, Restarted, Jobs

\* What Next can do: the routes, the emitter, and the four kinds of step of a run.
LEMMA NextCases ==
  ASSUME Next
  PROVE  \/ \E e \in Endpoint : Manage(e)
         \/ \E ev \in Event : Emit(ev)
         \/ \E w \in Worker, t \in Target : Take(w, t)
         \/ \E w \in Worker : Step(w) \/ Complete(w) \/ Throw(w) \/ Crash(w) \/ LoseLock(w)
         \/ \E t \in Target : Stalled(t)
  BY DEF Next, Run, Step

-----------------------------------------------------------------------------
LEMMA EmitFacts ==
  ASSUME TypeOK, EmissionsInOrder, NEW ev \in Event, Emit(ev)
  PROVE  /\ UNCHANGED <<endpoint, work, got, stale>>
         /\ \A t \in Target :
              /\ job'[t].made = job[t].made /\ job'[t].stalls = job[t].stalls
              /\ \/ job'[t].state = job[t].state
                 \/ job[t].state = "none" /\ job'[t].state = "waiting" /\ log[t] # "none"
              /\ log'[t] = log[t] \/ (log[t] = "none" /\ log'[t] = "pending")
<1>1. CASE Find(ev) \/ EmitFails(ev)
  BY <1>1 DEF Find, EmitFails
<1>2. ASSUME NEW e \in Endpoint, LogCreate(ev, e) PROVE \A t \in Target : log'[t] = log[t] \/ (log[t] = "none" /\ log'[t] = "pending")
  BY <1>2 DEF LogCreate, TypeOK, Target
<1>3. ASSUME NEW e \in Endpoint, QueueAdd(ev, e)
      PROVE  \A t \in Target :
               /\ job'[t].made = job[t].made /\ job'[t].stalls = job[t].stalls
               /\ \/ job'[t].state = job[t].state
                  \/ job[t].state = "none" /\ job'[t].state = "waiting" /\ log[t] # "none"
  <2>1. /\ <<ev, e>> \in Target /\ job[<<ev, e>>].state = "none" /\ job[<<ev, e>>] \in Jobs
        /\ log[<<ev, e>>] # "none"
    BY <1>3 DEF QueueAdd, EmissionsInOrder, EmissionInOrder, TypeOK, Target
  <2>2. job' = [job EXCEPT ![<<ev, e>>] = [job[<<ev, e>>] EXCEPT !.state = "waiting"]]
    BY <1>3 DEF QueueAdd, TypeOK
  <2>3. job'[<<ev, e>>] = [job[<<ev, e>>] EXCEPT !.state = "waiting"] /\ \A t \in Target : t # <<ev, e>> => job'[t] = job[t]
    BY <2>1, <2>2 DEF TypeOK
  <2> QED  BY <2>1, <2>3 DEF Jobs
<1> QED  BY <1>1, <1>2, <1>3 DEF Emit, LogCreate, QueueAdd

\* Runs that stay at their targets and take no lock leave the invariant on jobs as it is.
LEMMA JobsHeldKept ==
  ASSUME JobsHeld, job' = job,
         \A v \in Worker : /\ work'[v] # NoRun => work[v] # NoRun
                           /\ work'[v].locked => work[v].locked
                           /\ work'[v].t = work[v].t
                           /\ work'[v].attempt = work[v].attempt
  PROVE  JobsHeld'
<1>1. ASSUME NEW v \in Worker, work'[v] # NoRun PROVE job'[work'[v].t].state # "none"
  BY <1>1 DEF JobsHeld
<1>2. ASSUME NEW v \in Worker, work'[v].locked
      PROVE  job'[work'[v].t].state = "active" /\ work'[v].attempt = job'[work'[v].t].made + 1
  BY <1>2 DEF JobsHeld
<1>3. ASSUME NEW u \in Worker, NEW v \in Worker, work'[u].locked, work'[v].locked, work'[u].t = work'[v].t
      PROVE  u = v
  BY <1>3 DEF JobsHeld
<1>4. \A t \in Target : job'[t].state # "failed" => job'[t].made < Attempts
  BY DEF JobsHeld
<1> QED  BY <1>1, <1>2, <1>3, <1>4 DEF JobsHeld

LEMMA JobsHeldNext == ASSUME IInv, Next PROVE JobsHeld'
<1> USE AttemptsAssumption
<1>1. TypeOK /\ JobsHeld /\ EmissionsInOrder /\ SetsAssumption
  BY SetsAssumption DEF IInv
<1>2. \A w \in Worker : work[w] # NoRun => work[w].t \in Target
  BY <1>1 DEF TypeOK, Runs
<1>3. \A w \in Worker : work[w].locked => work[w] # NoRun
  BY DEF NoRun
<1>4. ASSUME NEW e \in Endpoint, Manage(e) PROVE JobsHeld'
  BY <1>1, <1>4 DEF Manage, Register, Revoke, Rotate, JobsHeld
<1>5. ASSUME NEW ev \in Event, Emit(ev) PROVE JobsHeld'
  BY <1>1, <1>2, <1>3, <1>5, EmitFacts DEF JobsHeld
<1>6. ASSUME NEW w \in Worker, NEW t \in Target, Take(w, t) PROVE JobsHeld'
  BY <1>1, <1>2, <1>3, <1>6, TakeFacts DEF JobsHeld
<1>7. ASSUME NEW w \in Worker, Step(w) PROVE JobsHeld'
  BY <1>1, <1>7, StepFacts, JobsHeldKept
<1>8. ASSUME NEW w \in Worker, Complete(w) \/ Throw(w) \/ Crash(w) PROVE JobsHeld'
  <2>1. \A v \in Worker : work'[v] # NoRun => v # w /\ work'[v] = work[v] /\ job[work[v].t].state # "none"
    BY <1>1, <1>8, EndFacts DEF JobsHeld
  <2>2. \A v \in Worker : work'[v].locked => work'[v] # NoRun
    BY DEF NoRun
  <2>3. ASSUME work[w].locked
        PROVE  \A v \in Worker : work'[v].locked => work[v].t # work[w].t /\ work[v].t \in Target /\ work[v].locked
    BY <1>1, <1>2, <1>3, <1>8, <2>1, <2>2, <2>3, EndFacts DEF JobsHeld
  <2>4. \A v \in Worker : work'[v] # NoRun => job'[work'[v].t].state # "none"
    BY <1>1, <1>2, <1>8, <2>1, EndFacts DEF JobsHeld
  <2>5. \A v \in Worker : work'[v].locked =>
          job'[work'[v].t].state = "active" /\ work'[v].attempt = job'[work'[v].t].made + 1
    BY <1>1, <1>2, <1>3, <1>8, <2>1, <2>2, <2>3, EndFacts DEF JobsHeld, Mishap
  <2>6. \A u, v \in Worker : work'[u].locked /\ work'[v].locked /\ work'[u].t = work'[v].t => u = v
    BY <1>1, <2>1, <2>2 DEF JobsHeld
  <2>7. \A t \in Target : job'[t].state # "failed" => job'[t].made < Attempts
    <3>1. \A t \in Target : job[t].state # "failed" => job[t].made < Attempts
      BY <1>1 DEF JobsHeld
    <3>2. job[work[w].t].made \in Nat /\ job[work[w].t].state # "none"
      BY <1>1, <1>8, EndFacts DEF JobsHeld, TypeOK, Jobs
    <3>3. job'[work[w].t].state # "failed" => job'[work[w].t].made < Attempts
      BY <1>1, <1>8, <2>5, <3>1, <3>2, EndFacts DEF JobsHeld
    <3> QED  BY <1>1, <1>8, <3>1, <3>3, EndFacts
  <2> QED  BY <2>4, <2>5, <2>6, <2>7 DEF JobsHeld
<1>9. ASSUME NEW w \in Worker, LoseLock(w) PROVE JobsHeld'
  BY <1>1, <1>9, LoseLockFacts, JobsHeldKept
<1>10. ASSUME NEW t \in Target, Stalled(t) PROVE JobsHeld'
  BY <1>1, <1>2, <1>3, <1>10, StalledFacts DEF JobsHeld
<1> QED  BY <1>4, <1>5, <1>6, <1>7, <1>8, <1>9, <1>10, NextCases

-----------------------------------------------------------------------------
\* The log of a run's target is what a step may write, and it is not "none" after.
LEMMA StepLog ==
  ASSUME TypeOK, NEW w \in Worker, Step(w)
  PROVE  /\ \A t \in Target : t # work[w].t => log'[t] = log[t]
         /\ log'[work[w].t] = log[work[w].t] \/ log'[work[w].t] # "none"
<1>1. work[w].t \in Target
  BY StepFacts
<1>2. log' = log \/ \E s \in {"pending", "success", "failed", "cancelled"} : log' = [log EXCEPT ![work[w].t] = s]
  BY DEF Step, LookupLive, LookupRevoked, LookupFails, PostAccepted, PostRefused, PostUnanswered,
         RecordSuccess, RecordFails, Catch, CatchFails
<1> QED  BY <1>1, <1>2 DEF TypeOK

LEMMA EmissionKept ==
  ASSUME NEW ev \in Event, EmissionInOrder(ev), TypeOK, emitter'[ev] = emitter[ev],
         \A e \in Endpoint : /\ log'[<<ev, e>>] = "none" <=> log[<<ev, e>>] = "none"
                             /\ job'[<<ev, e>>].state = "none" <=> job[<<ev, e>>].state = "none"
  PROVE  EmissionInOrder(ev)'
<1> DEFINE left == emitter[ev].left
           due == emitter[ev].due
<1>1. left \subseteq Endpoint /\ due \subseteq Endpoint
  BY DEF TypeOK
<1>2. emitter'[ev].pc = "add" =>
        /\ \A e \in left : job'[<<ev, e>>].state = "none"
        /\ \E e \in left : log'[<<ev, e>>] # "none" /\ \A f \in left \ {e} : log'[<<ev, f>>] = "none"
  <2> SUFFICES ASSUME emitter[ev].pc = "add"
               PROVE  /\ \A e \in left : job'[<<ev, e>>].state = "none"
                      /\ \E e \in left : log'[<<ev, e>>] # "none" /\ \A f \in left \ {e} : log'[<<ev, f>>] = "none"
    OBVIOUS
  <2>1. PICK e \in left : log[<<ev, e>>] # "none" /\ \A f \in left \ {e} : log[<<ev, f>>] = "none"
    BY DEF EmissionInOrder
  <2>2. log'[<<ev, e>>] # "none" /\ \A f \in left \ {e} : log'[<<ev, f>>] = "none"
    BY <1>1, <2>1
  <2>3. \A f \in left : job'[<<ev, f>>].state = "none"
    BY <1>1 DEF EmissionInOrder
  <2> QED  BY <2>2, <2>3
<1>3. \A e, f \in Endpoint : Orphan(ev, e)' /\ Orphan(ev, f)' => e = f
  BY DEF EmissionInOrder, Orphan
<1>4. /\ \A e \in Endpoint : log'[<<ev, e>>] # "none" => e \in due
      /\ left \subseteq due
      /\ emitter'[ev].pc = "idle" => due = {}
      /\ emitter'[ev].pc = "done" => left = {}
  BY DEF EmissionInOrder
<1>5. emitter'[ev].pc \in {"log", "add", "done"} => \A e \in due \ left : job'[<<ev, e>>].state # "none"
  BY <1>1 DEF EmissionInOrder
<1>6. emitter'[ev].pc = "log" => \A e \in left : log'[<<ev, e>>] = "none"
  BY <1>1 DEF EmissionInOrder
<1> QED  BY <1>2, <1>3, <1>4, <1>5, <1>6 DEF EmissionInOrder

LEMMA EmissionsKept ==
  ASSUME EmissionsInOrder, TypeOK, emitter' = emitter,
         \A t \in Target : /\ log'[t] = "none" <=> log[t] = "none"
                           /\ job'[t].state = "none" <=> job[t].state = "none"
  PROVE  EmissionsInOrder'
<1>1. \A ev \in Event, e \in Endpoint : <<ev, e>> \in Target
  BY DEF Target
<1>2. ASSUME NEW ev \in Event PROVE EmissionInOrder(ev)'
  BY <1>1, EmissionKept DEF EmissionsInOrder
<1>3. \A t \in Target : log'[t] = "none" => job'[t].state = "none"
  BY DEF EmissionsInOrder
<1> QED  BY <1>2, <1>3 DEF EmissionsInOrder

\* Where an emission is, no two of its logs lack a job.
LEMMA OrphanLeft ==
  ASSUME TypeOK, NEW ev \in Event, EmissionInOrder(ev), NEW e \in Endpoint, Orphan(ev, e),
         emitter[ev].pc # "failed"
  PROVE  emitter[ev].pc = "add" /\ e \in emitter[ev].left
<1>1. e \in emitter[ev].due
  BY DEF EmissionInOrder, Orphan
<1>2. emitter[ev].pc \in {"log", "add", "done"}
  BY <1>1 DEF EmissionInOrder, TypeOK
<1>3. e \in emitter[ev].left
  BY <1>1, <1>2 DEF EmissionInOrder, Orphan
<1> QED  BY <1>2, <1>3 DEF EmissionInOrder, Orphan

\* A step of an emission keeps its own order.
LEMMA EmissionStep ==
  ASSUME TypeOK, EmissionsInOrder, NEW ev \in Event, Emit(ev)
  PROVE  EmissionInOrder(ev)' /\ \A t \in Target : log'[t] = "none" => job'[t].state = "none"
<1> DEFINE r == emitter[ev]
           s == emitter'[ev]
<1>1. /\ EmissionInOrder(ev) /\ r.left \subseteq Endpoint /\ r.due \subseteq Endpoint
      /\ r \in [pc : {"idle", "log", "add", "done", "failed"}, left : SUBSET Endpoint, due : SUBSET Endpoint]
  BY DEF EmissionsInOrder, TypeOK
<1>2. \A f \in Event, g \in Endpoint : <<f, g>> \in Target /\ (f = ev => \A h \in Endpoint : <<f, g>> = <<ev, h>> => g = h)
  BY DEF Target
<1>3. CASE Find(ev)
  <2>1. r.pc = "idle" /\ s = [pc |-> IF Subscribers = {} THEN "done" ELSE "log",
                             left |-> Subscribers, due |-> {e \in Endpoint : endpoint[e].state = "live"}]
        /\ log' = log /\ job' = job
    BY <1>3 DEF Find, TypeOK
  <2>2. s.left = Subscribers /\ s.due = Subscribers /\ s.pc = IF Subscribers = {} THEN "done" ELSE "log"
    BY <2>1 DEF Subscribers
  <2>3. \A e \in Endpoint : log[<<ev, e>>] = "none" /\ job[<<ev, e>>].state = "none"
    BY <1>1, <1>2, <2>1 DEF EmissionInOrder, EmissionsInOrder
  <2>4. Subscribers \subseteq Endpoint
    BY DEF Subscribers
  <2> HIDE DEF r, s
  <2>5. EmissionInOrder(ev)'
    BY <2>1, <2>2, <2>3, <2>4 DEF EmissionInOrder, Orphan, s
  <2> QED  BY <2>1, <2>5 DEF EmissionsInOrder
<1>4. CASE EmitFails(ev)
  <2>1. s = [r EXCEPT !.pc = "failed"] /\ log' = log /\ job' = job
    BY <1>4 DEF EmitFails, TypeOK
  <2>2. s.pc = "failed" /\ s.due = r.due /\ s.left = r.left
    BY <1>1, <2>1
  <2> HIDE DEF r, s
  <2>3. EmissionInOrder(ev)'
    BY <1>1, <2>1, <2>2 DEF EmissionInOrder, Orphan, r, s
  <2> QED  BY <2>1, <2>3 DEF EmissionsInOrder
<1>5. ASSUME NEW e \in Endpoint, LogCreate(ev, e)
      PROVE  EmissionInOrder(ev)' /\ \A t \in Target : log'[t] = "none" => job'[t].state = "none"
  <2>1. r.pc = "log" /\ e \in r.left /\ s = [r EXCEPT !.pc = "add"] /\ job' = job
    BY <1>5 DEF LogCreate, TypeOK
  <2>2. s.pc = "add" /\ s.due = r.due /\ s.left = r.left
    BY <1>1, <2>1
  <2>3. log'[<<ev, e>>] = "pending" /\ \A t \in Target : t # <<ev, e>> => log'[t] = log[t]
    BY <1>2, <1>5 DEF LogCreate, TypeOK
  <2>4. \A g \in Endpoint : g # e => log'[<<ev, g>>] = log[<<ev, g>>]
    BY <1>2, <2>3
  <2>5. \A g \in r.left : log[<<ev, g>>] = "none" /\ job[<<ev, g>>].state = "none"
    BY <1>1, <1>2, <2>1 DEF EmissionInOrder, EmissionsInOrder
  <2>6. r.left \subseteq r.due /\ \A g \in Endpoint : log[<<ev, g>>] # "none" => g \in r.due
    BY <1>1 DEF EmissionInOrder
  <2>7. \A g \in r.due \ r.left : job[<<ev, g>>].state # "none"
    BY <1>1, <2>1 DEF EmissionInOrder
  <2>8. \A g \in Endpoint : Orphan(ev, g)' => g = e
    <3>1. \A g \in Endpoint : ~Orphan(ev, g)
      BY <1>1, <2>1, OrphanLeft
    <3> QED  BY <2>1, <2>4, <3>1 DEF Orphan
  <2> HIDE DEF r, s
  <2>9. log'[<<ev, e>>] # "none" /\ \A g \in r.left \ {e} : log'[<<ev, g>>] = "none"
    BY <1>1, <2>3, <2>4, <2>5
  <2>10. \A g \in Endpoint : log'[<<ev, g>>] # "none" => g \in r.due
    BY <2>1, <2>4, <2>6
  <2>11. EmissionInOrder(ev)'
    BY <2>1, <2>2, <2>5, <2>6, <2>7, <2>8, <2>9, <2>10 DEF EmissionInOrder, s
  <2>12. \A t \in Target : log'[t] = "none" => job'[t].state = "none"
    BY <2>1, <2>3, <2>9 DEF EmissionsInOrder
  <2> QED  BY <2>11, <2>12
<1>6. ASSUME NEW e \in Endpoint, QueueAdd(ev, e)
      PROVE  EmissionInOrder(ev)' /\ \A t \in Target : log'[t] = "none" => job'[t].state = "none"
  <2>1. /\ r.pc = "add" /\ e \in r.left /\ log' = log /\ log[<<ev, e>>] # "none"
        /\ s = [r EXCEPT !.pc = IF r.left \ {e} = {} THEN "done" ELSE "log", !.left = r.left \ {e}]
    BY <1>6 DEF QueueAdd, Added, TypeOK
  <2>2. s.pc = (IF s.left = {} THEN "done" ELSE "log") /\ s.due = r.due /\ s.left = r.left \ {e}
    BY <1>1, <2>1
  <2>3. job'[<<ev, e>>].state # "none" /\ \A t \in Target : t # <<ev, e>> => job'[t] = job[t]
    BY <1>2, <1>6 DEF QueueAdd, TypeOK, Jobs
  <2>4. \A g \in Endpoint : g # e => job'[<<ev, g>>] = job[<<ev, g>>]
    BY <1>2, <2>3
  <2>5. \A g \in r.left \ {e} : log[<<ev, g>>] = "none"
    <3>1. PICK h \in r.left : log[<<ev, h>>] # "none" /\ \A g \in r.left \ {h} : log[<<ev, g>>] = "none"
      BY <1>1, <2>1 DEF EmissionInOrder
    <3> QED  BY <2>1, <3>1
  <2>6. r.left \subseteq r.due /\ \A g \in Endpoint : log[<<ev, g>>] # "none" => g \in r.due
    BY <1>1 DEF EmissionInOrder
  <2>7. \A g \in r.due \ s.left : job'[<<ev, g>>].state # "none"
    <3>1. \A g \in r.due \ r.left : job[<<ev, g>>].state # "none"
      BY <1>1, <2>1 DEF EmissionInOrder
    <3> QED  BY <1>1, <2>2, <2>3, <2>4, <3>1
  <2>8. \A g \in Endpoint : ~Orphan(ev, g)'
    <3>1. \A g \in Endpoint : Orphan(ev, g) => g = e
      BY <1>1, <2>1, <2>5, OrphanLeft DEF Orphan
    <3> QED  BY <2>1, <2>3, <2>4, <3>1 DEF Orphan
  <2> HIDE DEF r, s
  <2>9. EmissionInOrder(ev)'
    BY <2>1, <2>2, <2>5, <2>6, <2>7, <2>8 DEF EmissionInOrder, s
  <2>10. \A t \in Target : log'[t] = "none" => job'[t].state = "none"
    BY <2>1, <2>3 DEF EmissionsInOrder
  <2> QED  BY <2>9, <2>10
<1> QED  BY <1>3, <1>4, <1>5, <1>6 DEF Emit

\* The emission of one event touches nothing of another.
LEMMA OtherEmissions ==
  ASSUME TypeOK, NEW ev \in Event, Emit(ev), NEW f \in Event, f # ev
  PROVE  emitter'[f] = emitter[f] /\ \A e \in Endpoint : log'[<<f, e>>] = log[<<f, e>>] /\ job'[<<f, e>>] = job[<<f, e>>]
<1>1. \A e, g \in Endpoint : <<f, e>> \in Target /\ <<f, e>> # <<ev, g>>
  BY DEF Target
<1>2. CASE Find(ev) \/ EmitFails(ev)
  BY <1>2 DEF Find, EmitFails, TypeOK
<1>3. ASSUME NEW g \in Endpoint, LogCreate(ev, g) \/ QueueAdd(ev, g)
      PROVE  emitter'[f] = emitter[f] /\ \A e \in Endpoint : log'[<<f, e>>] = log[<<f, e>>] /\ job'[<<f, e>>] = job[<<f, e>>]
  BY <1>1, <1>3 DEF LogCreate, QueueAdd, TypeOK
<1> QED  BY <1>2, <1>3 DEF Emit

LEMMA EmissionsNext == ASSUME IInv, Next PROVE EmissionsInOrder'
<1>1. TypeOK /\ JobsHeld /\ EmissionsInOrder
  BY DEF IInv
<1>2. ASSUME NEW ev \in Event, Emit(ev) PROVE EmissionsInOrder'
  <2>1. ASSUME NEW f \in Event PROVE EmissionInOrder(f)'
    <3>1. CASE f = ev
      BY <1>1, <1>2, <3>1, EmissionStep
    <3>2. CASE f # ev
      BY <1>1, <1>2, <3>2, OtherEmissions, EmissionKept DEF EmissionsInOrder
    <3> QED  BY <3>1, <3>2
  <2>2. \A t \in Target : log'[t] = "none" => job'[t].state = "none"
    BY <1>1, <1>2, EmissionStep
  <2> QED  BY <2>1, <2>2 DEF EmissionsInOrder
<1>3. ASSUME NEW e \in Endpoint, Manage(e) PROVE EmissionsInOrder'
  BY <1>1, <1>3, EmissionsKept DEF Manage, Register, Revoke, Rotate
<1>4. ASSUME NEW w \in Worker, NEW t \in Target, Take(w, t) PROVE EmissionsInOrder'
  <2>1. \A u \in Target : job'[u].state = "none" <=> job[u].state = "none"
    BY <1>1, <1>4, TakeFacts
  <2> QED  BY <1>1, <1>4, <2>1, TakeFacts, EmissionsKept
<1>5. ASSUME NEW w \in Worker, Step(w) PROVE EmissionsInOrder'
  <2>1. job' = job /\ emitter' = emitter /\ work[w].t \in Target /\ job[work[w].t].state # "none"
    BY <1>1, <1>5, StepFacts DEF JobsHeld
  <2>2. \A t \in Target : log'[t] = "none" <=> log[t] = "none"
    BY <1>1, <1>5, <2>1, StepLog DEF EmissionsInOrder
  <2> QED  BY <1>1, <2>1, <2>2, EmissionsKept
<1>6. ASSUME NEW w \in Worker, Complete(w) \/ Throw(w) \/ Crash(w) PROVE EmissionsInOrder'
  <2>1. work[w].t \in Target /\ job[work[w].t].state # "none" /\ emitter' = emitter /\ log' = log
    BY <1>1, <1>6, EndFacts DEF JobsHeld
  <2>2. \A t \in Target : job'[t].state = "none" <=> job[t].state = "none"
    BY <1>1, <1>6, <2>1, EndFacts
  <2> QED  BY <1>1, <2>1, <2>2, EmissionsKept
<1>7. ASSUME NEW w \in Worker, LoseLock(w) PROVE EmissionsInOrder'
  BY <1>1, <1>7, LoseLockFacts, EmissionsKept
<1>8. ASSUME NEW t \in Target, Stalled(t) PROVE EmissionsInOrder'
  <2>1. \A u \in Target : job'[u].state = "none" <=> job[u].state = "none"
    BY <1>1, <1>8, StalledFacts
  <2> QED  BY <1>1, <1>8, <2>1, StalledFacts, EmissionsKept
<1> QED  BY <1>2, <1>3, <1>4, <1>5, <1>6, <1>7, <1>8, NextCases

-----------------------------------------------------------------------------
PostStep(w) == PostAccepted(w) \/ PostRefused(w) \/ PostUnanswered(w)

\* A post adds one, and is the run's only one; no other step is seen by the receiver.
LEMMA PostFacts ==
  ASSUME TypeOK, NEW w \in Worker, Step(w), PostStep(w)
  PROVE  /\ work[w].pc = "post" /\ work'[w].pc \in {"record", "catch"} /\ UNCHANGED log
         /\ got'[work[w].t].posts = got[work[w].t].posts + 1
         /\ got[work[w].t].answered => got'[work[w].t].answered
         /\ work'[w].pc = "record" => got'[work[w].t].answered
         /\ work'[w].pc = "catch" => Mishap \/ (got'[work[w].t].received <=> got[work[w].t].received)
         /\ \A t \in Target : t # work[w].t => got'[t] = got[t]
         /\ stale' = [stale EXCEPT ![work[w].t[2]] = IF IsStale(w) THEN stale[work[w].t[2]] + 1
                                                                   ELSE stale[work[w].t[2]]]
<1>1. work[w] \in Runs /\ work[w].t \in Target
  BY StepFacts
<1>2. \E r, a \in BOOLEAN : /\ Posted(w, r, a)
                            /\ \/ a /\ work' = [work EXCEPT ![w].pc = "record"]
                               \/ work' = [work EXCEPT ![w].pc = "catch"] /\ (Mishap \/ ~r)
  BY DEF PostStep, PostAccepted, PostRefused, PostUnanswered
<1>3. PICK r, a \in BOOLEAN : /\ Posted(w, r, a)
                              /\ \/ a /\ work' = [work EXCEPT ![w].pc = "record"]
                                 \/ work' = [work EXCEPT ![w].pc = "catch"] /\ (Mishap \/ ~r)
  BY <1>2
<1>4. /\ got'[work[w].t] = [posts |-> got[work[w].t].posts + 1, received |-> got[work[w].t].received \/ r,
                            answered |-> got[work[w].t].answered \/ a]
      /\ \A t \in Target : t # work[w].t => got'[t] = got[t]
  BY <1>1, <1>3 DEF Posted, TypeOK
<1>5. (a /\ work'[w].pc = "record") \/ (work'[w].pc = "catch" /\ (Mishap \/ ~r))
  BY <1>1, <1>3 DEF TypeOK, Runs
<1>6. work[w].pc = "post" /\ UNCHANGED log
  BY DEF PostStep, PostAccepted, PostRefused, PostUnanswered
<1>7. stale' = [stale EXCEPT ![work[w].t[2]] = IF IsStale(w) THEN stale[work[w].t[2]] + 1
                                                             ELSE stale[work[w].t[2]]]
  BY <1>3 DEF Posted
<1>8. got[work[w].t].received \in BOOLEAN /\ got[work[w].t].answered \in BOOLEAN
  BY <1>1 DEF TypeOK
<1>9. got'[work[w].t].posts = got[work[w].t].posts + 1
  BY <1>4
<1>10. /\ got'[work[w].t].received = (got[work[w].t].received \/ r)
       /\ got'[work[w].t].answered = (got[work[w].t].answered \/ a)
  <2> DEFINE p == got[work[w].t].received \/ r
             q == got[work[w].t].answered \/ a
  <2>1. got'[work[w].t] = [posts |-> got[work[w].t].posts + 1, received |-> p, answered |-> q]
    BY <1>4, Zenon
  <2> HIDE DEF p, q
  <2>2. got'[work[w].t].received = p /\ got'[work[w].t].answered = q
    BY <2>1
  <2> QED  BY <2>2, Zenon DEF p, q
<1> QED  BY <1>4, <1>5, <1>6, <1>7, <1>8, <1>9, <1>10

LEMMA UnseenFacts ==
  ASSUME TypeOK, NEW w \in Worker, Step(w), ~PostStep(w)
  PROVE  /\ UNCHANGED <<got, stale>>
         /\ work'[w].pc \in {"lookup", "post"} => work[w].pc = "lookup"
         /\ work'[w].pc # "record"
         /\ work'[w].pc = "post" => work'[w].secret = endpoint[work[w].t[2]].secret
                                    /\ endpoint[work[w].t[2]].state # "revoked"
<1>1. work[w] \in Runs /\ work[w].t \in Target
  BY StepFacts
<1>2. CASE LookupLive(w)
  <2>1. work' = [work EXCEPT ![w] = [work[w] EXCEPT !.pc = "post", !.secret = EndpointOf(w).secret]]
    BY <1>2 DEF LookupLive, TypeOK
  <2>2. work'[w] = [work[w] EXCEPT !.pc = "post", !.secret = EndpointOf(w).secret]
    BY <2>1 DEF TypeOK
  <2>3. work'[w].pc = "post" /\ work'[w].secret = EndpointOf(w).secret
    BY <1>1, <2>2 DEF Runs
  <2> QED  BY <1>2, <2>3 DEF LookupLive, EndpointOf, Skips
<1>3. CASE ~LookupLive(w)
  <2>1. /\ UNCHANGED <<got, stale>>
        /\ \/ work' = [work EXCEPT ![w].pc = "done"]
           \/ work' = [work EXCEPT ![w].pc = "throw"]
           \/ work' = [work EXCEPT ![w].pc = "catch"]
    BY <1>3 DEF Step, PostStep, LookupRevoked, LookupFails, RecordSuccess, RecordFails, Catch, CatchFails
  <2>2. work'[w].pc \in {"done", "throw", "catch"}
    BY <1>1, <2>1 DEF TypeOK, Runs
  <2> QED  BY <2>1, <2>2
<1> QED  BY <1>2, <1>3

\* Runs are finitely many, so those that may still post can be counted.
LEMMA UnpostedFinite ==
  ASSUME NEW t \in Target
  PROVE  IsFiniteSet(Unposted(t)) /\ Cardinality(Unposted(t)) \in Nat
<1>1. Unposted(t) \in SUBSET Worker /\ IsFiniteSet(Worker)
  BY SetsAssumption DEF Unposted
<1> QED  BY <1>1, FS_Subset, FS_CardinalityType

\* Fewer runs that may still post, the same posts, no fewer runs started.
LEMMA AccountKept ==
  ASSUME TypeOK, RunsAccounted, TypeOK', NEW t \in Target,
         Unposted(t)' \subseteq Unposted(t), got'[t].posts = got[t].posts,
         Started(job'[t]) >= Started(job[t])
  PROVE  got'[t].posts + Cardinality(Unposted(t)') <= Started(job'[t])
<1>1. IsFiniteSet(Unposted(t)') /\ Cardinality(Unposted(t)') <= Cardinality(Unposted(t))
  BY UnpostedFinite, FS_Subset
<1>2. Cardinality(Unposted(t)') \in Nat /\ Cardinality(Unposted(t)) \in Nat
  BY <1>1, UnpostedFinite, FS_CardinalityType
<1>3. got[t].posts \in Nat /\ Started(job[t]) \in Nat /\ Started(job'[t]) \in Nat
  BY AttemptsAssumption, BoundsAssumption DEF TypeOK, Jobs, Started
<1> QED  BY <1>1, <1>2, <1>3 DEF RunsAccounted

LEMMA StartedType ==
  ASSUME TypeOK, NEW t \in Target PROVE Started(job[t]) \in Nat /\ job[t].made \in Nat /\ job[t].stalls \in Nat
  BY AttemptsAssumption, BoundsAssumption DEF TypeOK, Jobs, Started

LEMMA AccountedNext == ASSUME IInv, Next, TypeOK' PROVE RunsAccounted'
<1> USE AttemptsAssumption
<1>1. TypeOK /\ JobsHeld /\ RunsAccounted /\ EmissionsInOrder
  BY DEF IInv
<1>2. \A t \in Target : Started(job[t]) \in Nat /\ job[t].made \in Nat /\ job[t].stalls \in Nat
  BY <1>1, StartedType
<1>3. ASSUME NEW e \in Endpoint, Manage(e) PROVE RunsAccounted'
  BY <1>1, <1>3 DEF Manage, Register, Revoke, Rotate, RunsAccounted, Unposted
<1>4. ASSUME NEW ev \in Event, Emit(ev) PROVE RunsAccounted'
  <2> SUFFICES ASSUME NEW t \in Target
               PROVE  got'[t].posts + Cardinality(Unposted(t)') <= Started(job'[t])
    BY DEF RunsAccounted
  <2>1. got'[t].posts = got[t].posts /\ Unposted(t)' \subseteq Unposted(t)
    BY <1>1, <1>4, EmitFacts DEF Unposted
  <2>2. Started(job'[t]) = Started(job[t])
    BY <1>1, <1>4, EmitFacts DEF Started
  <2> QED  BY <1>1, <1>2, <2>1, <2>2, AccountKept
<1>5. ASSUME NEW w \in Worker, NEW u \in Target, Take(w, u) PROVE RunsAccounted'
  <2> SUFFICES ASSUME NEW t \in Target
               PROVE  got'[t].posts + Cardinality(Unposted(t)') <= Started(job'[t])
    BY DEF RunsAccounted
  <2>1. CASE t = u
    <3>1. Unposted(t)' = Unposted(t) \cup {w} /\ w \notin Unposted(t)
      BY <1>1, <1>5, <2>1, TakeFacts DEF Unposted
    <3>2. Cardinality(Unposted(t)') = Cardinality(Unposted(t)) + 1
      BY <3>1, UnpostedFinite, FS_AddElement
    <3>3. got'[t].posts = got[t].posts /\ got[t].posts \in Nat
      BY <1>1, <1>5, TakeFacts DEF TypeOK
    <3>4. Started(job'[t]) = Started(job[t]) + 1
      BY <1>1, <1>2, <1>5, <2>1, TakeFacts DEF Started, JobsHeld
    <3> QED  BY <1>1, <1>2, <3>2, <3>3, <3>4, UnpostedFinite DEF RunsAccounted
  <2>2. CASE t # u
    <3>1. Unposted(t)' \subseteq Unposted(t) /\ got'[t].posts = got[t].posts /\ job'[t] = job[t]
      BY <1>1, <1>5, <2>2, TakeFacts DEF Unposted
    <3> QED  BY <1>1, <1>2, <3>1, AccountKept
  <2> QED  BY <2>1, <2>2
<1>6. ASSUME NEW w \in Worker, Step(w) PROVE RunsAccounted'
  <2> SUFFICES ASSUME NEW t \in Target
               PROVE  got'[t].posts + Cardinality(Unposted(t)') <= Started(job'[t])
    BY DEF RunsAccounted
  <2>1. /\ job' = job /\ work[w].t \in Target
        /\ \A v \in Worker : work'[v].t = work[v].t /\ (v # w => work'[v] = work[v])
    BY <1>1, <1>6, StepFacts
  <2>2. CASE PostStep(w)
    <3>1. work[w].pc = "post" /\ work'[w].pc \in {"record", "catch"}
      BY <1>1, <1>6, <2>2, PostFacts
    <3>2. Unposted(t)' = Unposted(t) \ {w} /\ (w \in Unposted(t) <=> t = work[w].t)
      BY <2>1, <3>1 DEF Unposted
    <3>3. CASE t = work[w].t
      <4>1. Cardinality(Unposted(t)') = Cardinality(Unposted(t)) - 1
        BY <3>2, <3>3, UnpostedFinite, FS_RemoveElement
      <4>2. got'[t].posts = got[t].posts + 1 /\ got[t].posts \in Nat
        BY <1>1, <1>6, <2>2, <3>3, PostFacts DEF TypeOK
      <4> QED  BY <1>1, <1>2, <2>1, <4>1, <4>2, UnpostedFinite DEF RunsAccounted
    <3>4. CASE t # work[w].t
      <4>1. got'[t] = got[t]
        BY <1>1, <1>6, <2>2, <3>4, PostFacts
      <4> QED  BY <1>1, <1>2, <2>1, <3>2, <4>1, AccountKept
    <3> QED  BY <3>3, <3>4
  <2>3. CASE ~PostStep(w)
    <3>1. got' = got /\ (work'[w].pc \in {"lookup", "post"} => work[w].pc = "lookup")
      BY <1>1, <1>6, <2>3, UnseenFacts
    <3>2. Unposted(t)' \subseteq Unposted(t)
      BY <2>1, <3>1 DEF Unposted
    <3> QED  BY <1>1, <1>2, <2>1, <3>1, <3>2, AccountKept
  <2> QED  BY <2>2, <2>3
<1>7. ASSUME NEW w \in Worker, Complete(w) \/ Throw(w) \/ Crash(w) PROVE RunsAccounted'
  <2> SUFFICES ASSUME NEW t \in Target
               PROVE  got'[t].posts + Cardinality(Unposted(t)') <= Started(job'[t])
    BY DEF RunsAccounted
  <2>1. \A v \in Worker : work'[v] = IF v = w THEN NoRun ELSE work[v]
    BY <1>1, <1>7, EndFacts
  <2>2. Unposted(t)' \subseteq Unposted(t)
    BY <2>1 DEF Unposted, NoRun
  <2>3. got'[t].posts = got[t].posts
    BY <1>1, <1>7, EndFacts
  <2>4. Started(job'[t]) >= Started(job[t])
    <3>1. work[w].t \in Target /\ (t # work[w].t => job'[t] = job[t])
      BY <1>1, <1>7, EndFacts
    <3>2. CASE t = work[w].t /\ job'[t] # job[t]
      <4>1. job[t].state = "active" /\ job[t].made < Attempts
        BY <1>1, <1>7, <3>2, EndFacts DEF JobsHeld
      <4>2. Started(job[t]) = job[t].made + job[t].stalls + 1
        BY <4>1 DEF Started
      <4>3. \/ job'[t].state = "completed" /\ job'[t].made = job[t].made /\ job'[t].stalls = job[t].stalls
            \/ /\ job'[t].state = IF job[t].made + 1 < Attempts THEN "waiting" ELSE "failed"
               /\ job'[t].made = job[t].made + 1 /\ job'[t].stalls = job[t].stalls
        BY <1>1, <1>7, <3>2, EndFacts
      <4> QED  BY <1>2, <4>1, <4>2, <4>3 DEF Started
    <3> QED  BY <1>2, <3>1, <3>2
  <2> QED  BY <1>1, <2>2, <2>3, <2>4, AccountKept
<1>8. ASSUME NEW w \in Worker, LoseLock(w) PROVE RunsAccounted'
  <2> SUFFICES ASSUME NEW t \in Target
               PROVE  got'[t].posts + Cardinality(Unposted(t)') <= Started(job'[t])
    BY DEF RunsAccounted
  <2>1. Unposted(t)' \subseteq Unposted(t) /\ got' = got /\ job' = job
    BY <1>1, <1>8, LoseLockFacts DEF Unposted
  <2> QED  BY <1>1, <1>2, <2>1, AccountKept
<1>9. ASSUME NEW u \in Target, Stalled(u) PROVE RunsAccounted'
  <2> SUFFICES ASSUME NEW t \in Target
               PROVE  got'[t].posts + Cardinality(Unposted(t)') <= Started(job'[t])
    BY DEF RunsAccounted
  <2>1. Unposted(t)' \subseteq Unposted(t) /\ got' = got
    BY <1>1, <1>9, StalledFacts DEF Unposted
  <2>2. Started(job'[t]) >= Started(job[t])
    BY <1>1, <1>2, <1>9, StalledFacts DEF Started, JobsHeld
  <2> QED  BY <1>1, <2>1, <2>2, AccountKept
<1> QED  BY <1>3, <1>4, <1>5, <1>6, <1>7, <1>8, <1>9, NextCases

-----------------------------------------------------------------------------
\* A success is written by a run that had its answer, and an answer is never taken back.
LEMMA StepSuccess ==
  ASSUME TypeOK, NEW w \in Worker, Step(w), NEW t \in Target
  PROVE  /\ got[t].answered => got'[t].answered
         /\ log'[t] = "success" => log[t] = "success" \/ (t = work[w].t /\ work[w].pc = "record")
         /\ work'[w].pc = "record" => got'[work[w].t].answered
<1>1. work[w].t \in Target
  BY StepFacts
<1>2. CASE PostStep(w)
  BY <1>1, <1>2, PostFacts
<1>3. CASE ~PostStep(w)
  <2>1. got' = got /\ work'[w].pc # "record"
    BY <1>3, UnseenFacts
  <2>2. CASE RecordSuccess(w) \/ RecordFails(w)
    BY <1>1, <2>1, <2>2 DEF RecordSuccess, RecordFails, TypeOK
  <2>3. CASE ~(RecordSuccess(w) \/ RecordFails(w))
    <3>1. log' = log \/ \E s \in {"pending", "failed", "cancelled"} : log' = [log EXCEPT ![work[w].t] = s]
      BY <1>3, <2>3 DEF Step, PostStep, LookupLive, LookupRevoked, LookupFails, Catch, CatchFails
    <3> QED  BY <1>1, <2>1, <3>1 DEF TypeOK
  <2> QED  BY <2>2, <2>3
<1> QED  BY <1>2, <1>3

LEMMA SuccessNext == ASSUME IInv, Next PROVE AnswerKnown' /\ SuccessMeansReceived'
<1>1. TypeOK /\ AnswerKnown /\ SuccessMeansReceived /\ EmissionsInOrder
  BY DEF IInv
<1>2. \A w \in Worker : work[w].pc # "idle" => work[w].t \in Target
  BY <1>1 DEF TypeOK, NoRun, Runs
<1>3. ASSUME got' = got, \A w \in Worker : work'[w].pc = "record" => work[w].pc = "record" /\ work'[w].t = work[w].t,
             \A t \in Target : log'[t] = "success" => log[t] = "success"
      PROVE  AnswerKnown' /\ SuccessMeansReceived'
  BY <1>1, <1>3 DEF AnswerKnown, SuccessMeansReceived
<1>4. ASSUME NEW e \in Endpoint, Manage(e) PROVE AnswerKnown' /\ SuccessMeansReceived'
  BY <1>3, <1>4 DEF Manage, Register, Revoke, Rotate
<1>5. ASSUME NEW ev \in Event, Emit(ev) PROVE AnswerKnown' /\ SuccessMeansReceived'
  BY <1>1, <1>3, <1>5, EmitFacts
<1>6. ASSUME NEW w \in Worker, NEW t \in Target, Take(w, t) PROVE AnswerKnown' /\ SuccessMeansReceived'
  BY <1>1, <1>3, <1>6, TakeFacts
<1>7. ASSUME NEW w \in Worker, Step(w) PROVE AnswerKnown' /\ SuccessMeansReceived'
  <2>1. /\ work[w].t \in Target
        /\ \A v \in Worker : work'[v].t = work[v].t /\ (v # w => work'[v] = work[v])
    BY <1>1, <1>7, StepFacts
  <2>2. \A t \in Target :
          /\ got[t].answered => got'[t].answered
          /\ log'[t] = "success" => log[t] = "success" \/ (t = work[w].t /\ work[w].pc = "record")
    BY <1>1, <1>7, StepSuccess
  <2>3. work'[w].pc = "record" => got'[work[w].t].answered
    BY <1>1, <1>7, <2>1, StepSuccess
  <2> QED  BY <1>1, <1>2, <2>1, <2>2, <2>3 DEF AnswerKnown, SuccessMeansReceived
<1>8. ASSUME NEW w \in Worker, Complete(w) \/ Throw(w) \/ Crash(w)
      PROVE  AnswerKnown' /\ SuccessMeansReceived'
  BY <1>1, <1>3, <1>8, EndFacts DEF NoRun
<1>9. ASSUME NEW w \in Worker, LoseLock(w) PROVE AnswerKnown' /\ SuccessMeansReceived'
  BY <1>1, <1>3, <1>9, LoseLockFacts
<1>10. ASSUME NEW t \in Target, Stalled(t) PROVE AnswerKnown' /\ SuccessMeansReceived'
  BY <1>1, <1>3, <1>10, StalledFacts
<1> QED  BY <1>4, <1>5, <1>6, <1>7, <1>8, <1>9, <1>10, NextCases

-----------------------------------------------------------------------------
\* The runs that will post to e on a row that is no longer its own
StaleRuns(e) == {w \in Worker : work[w].t # None /\ work[w].t[2] = e /\ IsStale(w)}

LEMMA StaleFinite ==
  ASSUME NEW e
  PROVE  /\ IsFiniteSet(StaleRuns(e)) /\ Cardinality(StaleRuns(e)) \in Nat
         /\ Cardinality(Worker) \in Nat /\ Cardinality(StaleRuns(e)) <= Cardinality(Worker)
<1>1. StaleRuns(e) \subseteq Worker /\ IsFiniteSet(Worker)
  BY SetsAssumption DEF StaleRuns
<1> QED  BY <1>1, FS_Subset, FS_CardinalityType

LEMMA ProductType == ASSUME NEW m \in Nat, NEW n \in Nat PROVE m * n \in Nat
  OBVIOUS

LEMMA StaleKept ==
  ASSUME TypeOK, StalePostsBounded, NEW e \in Endpoint, stale'[e] = stale[e],
         StaleRuns(e)' \subseteq StaleRuns(e), endpoint'[e].secret = endpoint[e].secret,
         endpoint'[e].state = "revoked" <=> endpoint[e].state = "revoked"
  PROVE  stale'[e] + Cardinality(StaleRuns(e)') <= Cardinality(Worker) * Changes(e)'
<1>1. Cardinality(StaleRuns(e)') <= Cardinality(StaleRuns(e)) /\ Cardinality(StaleRuns(e)') \in Nat
  BY StaleFinite, FS_Subset, FS_CardinalityType
<1>2. stale[e] + Cardinality(StaleRuns(e)) <= Cardinality(Worker) * Changes(e)
  BY DEF StalePostsBounded, StaleRuns
<1>3. Changes(e)' = Changes(e) /\ Changes(e) \in Nat
  BY BoundsAssumption DEF Changes, TypeOK
<1>4. Cardinality(Worker) * Changes(e) \in Nat /\ stale[e] \in Nat
  BY <1>3, StaleFinite, ProductType DEF TypeOK
<1> QED  BY <1>1, <1>2, <1>3, <1>4, StaleFinite

\* Every change of a row leaves at most one stale post to each run under way.
LEMMA StaleChanged ==
  ASSUME TypeOK, StalePostsBounded, NEW e \in Endpoint, stale' = stale, Changes(e)' = Changes(e) + 1
  PROVE  stale'[e] + Cardinality(StaleRuns(e)') <= Cardinality(Worker) * Changes(e)'
<1>1. StaleRuns(e)' \subseteq Worker
  BY DEF StaleRuns
<1>2. Cardinality(StaleRuns(e)') <= Cardinality(Worker) /\ Cardinality(StaleRuns(e)') \in Nat
  BY <1>1, SetsAssumption, FS_Subset, FS_CardinalityType
<1>3. stale[e] + Cardinality(StaleRuns(e)) <= Cardinality(Worker) * Changes(e)
  BY DEF StalePostsBounded, StaleRuns
<1>4. Changes(e) \in Nat
  BY BoundsAssumption DEF Changes, TypeOK
<1>5. Cardinality(Worker) * (Changes(e) + 1) = Cardinality(Worker) * Changes(e) + Cardinality(Worker)
  BY <1>4, StaleFinite
<1>6. Cardinality(Worker) * Changes(e) \in Nat /\ stale[e] \in Nat
  BY <1>4, StaleFinite, ProductType DEF TypeOK
<1> QED  BY <1>2, <1>3, <1>5, <1>6, StaleFinite

LEMMA StaleNext == ASSUME IInv, Next, TypeOK' PROVE StalePostsBounded'
<1>1. TypeOK /\ StalePostsBounded /\ EmissionsInOrder
  BY DEF IInv
<1> SUFFICES ASSUME NEW e \in Endpoint
             PROVE  stale'[e] + Cardinality(StaleRuns(e)') <= Cardinality(Worker) * Changes(e)'
  BY DEF StalePostsBounded, StaleRuns
<1> DEFINE Goal == stale'[e] + Cardinality(StaleRuns(e)') <= Cardinality(Worker) * Changes(e)'
<1>2. ASSUME stale' = stale, endpoint' = endpoint,
             \A w \in Worker : work'[w] = NoRun \/ work'[w].pc = "lookup"
                               \/ (work'[w].pc = work[w].pc /\ work'[w].t = work[w].t /\ work'[w].secret = work[w].secret)
      PROVE  Goal
  <2>1. StaleRuns(e)' \subseteq StaleRuns(e)
    BY <1>2 DEF StaleRuns, IsStale, EndpointOf, NoRun
  <2> QED  BY <1>1, <1>2, <2>1, StaleKept
<1>3. ASSUME NEW f \in Endpoint, Manage(f) PROVE Goal
  <2>1. stale' = stale /\ work' = work
    BY <1>3 DEF Manage, Register, Revoke, Rotate
  <2>2. CASE endpoint'[e].secret = endpoint[e].secret
             /\ (endpoint'[e].state = "revoked" <=> endpoint[e].state = "revoked")
    <3>1. StaleRuns(e)' \subseteq StaleRuns(e)
      BY <2>1, <2>2 DEF StaleRuns, IsStale, EndpointOf
    <3> QED  BY <1>1, <2>1, <2>2, <3>1, StaleKept
  <2>3. CASE Revoke(f) /\ f = e
    BY <1>1, <2>1, <2>3, StaleChanged, BoundsAssumption DEF Revoke, Changes, TypeOK
  <2>4. CASE Rotate(f) /\ f = e
    BY <1>1, <2>1, <2>4, StaleChanged, BoundsAssumption DEF Rotate, Changes, TypeOK
  <2>5. CASE f # e \/ Register(f)
    BY <1>1, <1>3, <2>2, <2>5 DEF Manage, Register, Revoke, Rotate, TypeOK
  <2> QED  BY <1>3, <2>3, <2>4, <2>5 DEF Manage
<1>4. ASSUME NEW ev \in Event, Emit(ev) PROVE Goal
  BY <1>1, <1>2, <1>4, EmitFacts
<1>5. ASSUME NEW w \in Worker, NEW t \in Target, Take(w, t) PROVE Goal
  BY <1>1, <1>2, <1>5, TakeFacts
<1>6. ASSUME NEW w \in Worker, Step(w) PROVE Goal
  <2>1. /\ endpoint' = endpoint /\ work[w].t \in Target /\ work[w].t[2] \in Endpoint
        /\ \A v \in Worker : work'[v].t = work[v].t /\ (v # w => work'[v] = work[v])
    BY <1>1, <1>6, StepFacts DEF Target
  <2>2. CASE PostStep(w)
    <3>1. /\ work[w].pc = "post" /\ work'[w].pc # "post"
          /\ stale' = [stale EXCEPT ![work[w].t[2]] = IF IsStale(w) THEN stale[work[w].t[2]] + 1
                                                                    ELSE stale[work[w].t[2]]]
      BY <1>1, <1>6, <2>2, PostFacts
    <3>2. StaleRuns(e)' = StaleRuns(e) \ {w}
      BY <2>1, <3>1 DEF StaleRuns, IsStale, EndpointOf
    <3>3. CASE e = work[w].t[2] /\ IsStale(w)
      <4>1. w \in StaleRuns(e)
        BY <2>1, <3>3, SetsAssumption DEF StaleRuns, Target
      <4>2. Cardinality(StaleRuns(e)') = Cardinality(StaleRuns(e)) - 1
        BY <3>2, <4>1, StaleFinite, FS_RemoveElement
      <4>3. stale'[e] = stale[e] + 1 /\ stale[e] \in Nat
        BY <1>1, <3>1, <3>3 DEF TypeOK
      <4>4. stale[e] + Cardinality(StaleRuns(e)) <= Cardinality(Worker) * Changes(e)
        BY <1>1 DEF StalePostsBounded, StaleRuns
      <4>5. Changes(e)' = Changes(e)
        BY <2>1 DEF Changes
      <4> QED  BY <4>2, <4>3, <4>4, <4>5, StaleFinite
    <3>4. CASE ~(e = work[w].t[2] /\ IsStale(w))
      <4>1. stale'[e] = stale[e]
        BY <1>1, <3>1, <3>4 DEF TypeOK
      <4> QED  BY <1>1, <2>1, <3>2, <4>1, StaleKept
    <3> QED  BY <3>3, <3>4
  <2>3. CASE ~PostStep(w)
    <3>1. /\ stale' = stale
          /\ work'[w].pc = "post" => work'[w].secret = endpoint[work[w].t[2]].secret
                                     /\ endpoint[work[w].t[2]].state # "revoked"
      BY <1>1, <1>6, <2>3, UnseenFacts
    <3>2. StaleRuns(e)' \subseteq StaleRuns(e)
      BY <2>1, <3>1 DEF StaleRuns, IsStale, EndpointOf
    <3> QED  BY <1>1, <2>1, <3>1, <3>2, StaleKept
  <2> QED  BY <2>2, <2>3
<1>7. ASSUME NEW w \in Worker, Complete(w) \/ Throw(w) \/ Crash(w) PROVE Goal
  BY <1>1, <1>2, <1>7, EndFacts
<1>8. ASSUME NEW w \in Worker, LoseLock(w) PROVE Goal
  BY <1>1, <1>2, <1>8, LoseLockFacts
<1>9. ASSUME NEW t \in Target, Stalled(t) PROVE Goal
  BY <1>1, <1>2, <1>9, StalledFacts
<1> QED  BY <1>3, <1>4, <1>5, <1>6, <1>7, <1>8, <1>9, NextCases

-----------------------------------------------------------------------------
\* While nothing fails, these are the steps of a run.
LEMMA UnharmedStep ==
  ASSUME TypeOK, NEW w \in Worker, Step(w), ~Mishap
  PROVE  LET t == work[w].t
         IN  /\ \A u \in Target : u # t => got'[u] = got[u]
             /\ \/ /\ work[w].pc = "lookup" /\ work'[w].pc = "post"
                   /\ log'[t] = log[t] /\ got'[t] = got[t]
                \/ work[w].pc = "lookup" /\ work'[w].pc = "done" /\ log'[t] = "cancelled"
                \/ work[w].pc = "post" /\ work'[w].pc = "record" /\ log'[t] = log[t]
                \/ /\ work[w].pc = "post" /\ work'[w].pc = "catch"
                   /\ log'[t] = log[t] /\ (got'[t].received <=> got[t].received)
                \/ work[w].pc = "record" /\ work'[w].pc = "done" /\ log'[t] = "success"
                \/ /\ work[w].pc = "catch" /\ work'[w].pc = "throw" /\ got'[t] = got[t]
                   /\ log'[t] = IF IsLast(w) THEN "failed" ELSE "pending"
<1>1. work[w] \in Runs /\ work[w].t \in Target
  BY StepFacts
<1>2. ASSUME NEW p \in Stages, work' = [work EXCEPT ![w].pc = p] PROVE work'[w].pc = p
  BY <1>1, <1>2 DEF TypeOK, Runs
<1>3. ASSUME NEW s \in {"pending", "success", "failed", "cancelled"}, log' = [log EXCEPT ![work[w].t] = s]
      PROVE  log'[work[w].t] = s
  BY <1>1, <1>3 DEF TypeOK
<1>4. CASE PostStep(w)
  BY <1>1, <1>4, PostFacts
<1>5. CASE ~PostStep(w)
  <2>1. got' = got
    BY <1>5, UnseenFacts
  <2>2. CASE LookupLive(w)
    <3>1. work' = [work EXCEPT ![w] = [work[w] EXCEPT !.pc = "post", !.secret = EndpointOf(w).secret]]
      BY <2>2 DEF LookupLive, TypeOK
    <3>2. work'[w] = [work[w] EXCEPT !.pc = "post", !.secret = EndpointOf(w).secret]
      BY <3>1 DEF TypeOK
    <3>3. work'[w].pc = "post"
      BY <1>1, <3>2 DEF Runs
    <3> QED  BY <2>1, <2>2, <3>3 DEF LookupLive
  <2>3. CASE LookupRevoked(w)
    BY <1>2, <1>3, <2>1, <2>3 DEF LookupRevoked, Stages
  <2>4. CASE RecordSuccess(w)
    BY <1>2, <1>3, <2>1, <2>4 DEF RecordSuccess, Stages
  <2>5. CASE Catch(w)
    <3>1. work[w].pc = "catch" /\ work' = [work EXCEPT ![w].pc = "throw"]
          /\ log' = [log EXCEPT ![work[w].t] = IF IsLast(w) THEN "failed" ELSE "pending"]
      BY <2>5 DEF Catch
    <3>2. work'[w].pc = "throw"
      BY <1>2, <3>1 DEF Stages
    <3>3. log'[work[w].t] = IF IsLast(w) THEN "failed" ELSE "pending"
      BY <1>3, <3>1
    <3> QED  BY <2>1, <3>1, <3>2, <3>3
  <2> QED  BY <1>5, <2>2, <2>3, <2>4, <2>5 DEF Step, PostStep, LookupFails, RecordFails, CatchFails
<1> QED  BY <1>4, <1>5

\* Nothing has failed only if nothing had, and this step did not.
LEMMA UnharmedBefore ==
  ASSUME TypeOK, Next, Unharmed' PROVE Unharmed /\ ~Mishap
<1>1. Mishap \/ UNCHANGED mishaps
  BY DEF Next, Manage, Register, Revoke, Rotate, Emit, Find, LogCreate, QueueAdd, EmitFails, Run, Take,
         LookupLive, LookupRevoked, LookupFails, PostAccepted, PostRefused, PostUnanswered,
         RecordSuccess, RecordFails, Catch, CatchFails, Complete, Throw, Finish, Crash, LoseLock, Stalled
<1>2. mishaps \in Nat
  BY BoundsAssumption DEF TypeOK
<1> QED  BY <1>1, <1>2 DEF Unharmed, Mishap

InOrder == NothingStalls /\ RunsAgree /\ JobsAgree

LEMMA OrderEmit ==
  ASSUME IInv, InOrder, ~Mishap, NEW ev \in Event, Emit(ev) PROVE InOrder'
<1>1. TypeOK /\ JobsHeld /\ EmissionsInOrder /\ InOrder
  BY DEF IInv
<1>2. /\ UNCHANGED <<work, got>>
      /\ \A t \in Target :
           /\ \/ job'[t].state = job[t].state
              \/ job[t].state = "none" /\ job'[t].state = "waiting" /\ log[t] # "none"
           /\ log'[t] = log[t] \/ (log[t] = "none" /\ log'[t] = "pending")
  BY <1>1, EmitFacts
<1>3. \A w \in Worker : work[w].pc # "idle" => work[w].t \in Target /\ log'[work[w].t] = log[work[w].t]
  <2>1. ASSUME NEW w \in Worker, work[w].pc # "idle"
        PROVE  work[w].t \in Target /\ log[work[w].t] # "none"
    <3>1. work[w].t \in Target /\ work[w] # NoRun
      BY <1>1, <2>1, BusyRun DEF NoRun
    <3> QED  BY <1>1, <3>1 DEF JobsHeld, EmissionsInOrder
  <2> QED  BY <1>2, <2>1
<1>4. NothingStalls'
  BY <1>1, <1>2 DEF InOrder, NothingStalls
<1>5. RunsAgree'
  <2> SUFFICES ASSUME NEW w \in Worker, work[w].pc # "idle"
               PROVE  log'[work[w].t] = log[work[w].t] /\ got' = got /\ work'[w] = work[w]
    BY <1>1, <1>2 DEF InOrder, RunsAgree, IsLast
  <2> QED  BY <1>2, <1>3
<1>6. JobsAgree'
  BY <1>1, <1>2 DEF InOrder, JobsAgree
<1> QED  BY <1>4, <1>5, <1>6 DEF InOrder

LEMMA OrderTake ==
  ASSUME IInv, InOrder, NEW w \in Worker, NEW t \in Target, Take(w, t) PROVE InOrder'
<1>1. TypeOK /\ JobsHeld /\ InOrder
  BY DEF IInv
<1>2. /\ UNCHANGED <<emitter, log, got>> /\ work[w] = NoRun /\ job[t].state = "waiting"
      /\ work'[w].pc = "lookup" /\ work'[w].t = t /\ work'[w].locked
      /\ \A v \in Worker : v # w => work'[v] = work[v]
      /\ job'[t].state = "active" /\ \A u \in Target : u # t => job'[u] = job[u]
  BY <1>1, TakeFacts
<1>3. NothingStalls'
  <2>1. \A u \in Target : work[w].t # u
    BY <1>2, SetsAssumption DEF NoRun, Target
  <2> QED  BY <1>1, <1>2, <2>1 DEF InOrder, NothingStalls
<1>4. RunsAgree'
  <2>1. log[t] = "pending" /\ ~got[t].received
    BY <1>1, <1>2 DEF InOrder, JobsAgree
  <2> QED  BY <1>1, <1>2, <2>1 DEF InOrder, RunsAgree, IsLast
<1>5. JobsAgree'
  BY <1>1, <1>2 DEF InOrder, JobsAgree
<1> QED  BY <1>3, <1>4, <1>5 DEF InOrder

LEMMA OrderStep ==
  ASSUME IInv, InOrder, ~Mishap, NEW w \in Worker, Step(w) PROVE InOrder'
<1>1. TypeOK /\ JobsHeld /\ InOrder
  BY DEF IInv
<1> DEFINE t == work[w].t
<1>2. /\ UNCHANGED <<job, emitter>> /\ t \in Target /\ work[w] # NoRun /\ work'[w] # NoRun
      /\ \A v \in Worker : /\ work'[v].t = work[v].t /\ work'[v].locked = work[v].locked
                           /\ work'[v].attempt = work[v].attempt
                           /\ v # w => work'[v] = work[v]
  BY <1>1, StepFacts
<1>3. \A u \in Target : u # t => log'[u] = log[u] /\ got'[u] = got[u]
  BY <1>1, StepLog, UnharmedStep
<1>4. job[t].state = "active" /\ work[w].locked
  BY <1>1, <1>2 DEF InOrder, NothingStalls, JobsHeld
<1>5. NothingStalls'
  BY <1>1, <1>2 DEF InOrder, NothingStalls
<1>6. JobsAgree'
  BY <1>1, <1>2, <1>3, <1>4 DEF InOrder, JobsAgree
<1>7. RunsAgree'
  <2> SUFFICES ASSUME NEW v \in Worker
               PROVE  /\ work'[v].pc \in {"lookup", "post", "record", "catch"} => log'[work'[v].t] = "pending"
                      /\ work'[v].pc \in {"lookup", "post", "catch", "throw"} => ~got'[work'[v].t].received
                      /\ work'[v].pc = "throw" => log'[work'[v].t] = IF IsLast(v)' THEN "failed" ELSE "pending"
                      /\ work'[v].pc = "done" => log'[work'[v].t] \in {"success", "cancelled"}
    BY DEF RunsAgree
  <2>1. IsLast(v)' <=> IsLast(v)
    BY <1>2 DEF IsLast
  <2>2. CASE v = w
    <3>1. /\ work[w].pc \in {"lookup", "post", "record", "catch"} => log[t] = "pending"
          /\ work[w].pc \in {"lookup", "post", "catch", "throw"} => ~got[t].received
      BY <1>1 DEF InOrder, RunsAgree
    <3>2. work'[w].t = t
      BY <1>2
    <3>3. \/ /\ work[w].pc = "lookup" /\ work'[w].pc = "post" /\ log'[t] = log[t] /\ got'[t] = got[t]
          \/ work[w].pc = "lookup" /\ work'[w].pc = "done" /\ log'[t] = "cancelled"
          \/ work[w].pc = "post" /\ work'[w].pc = "record" /\ log'[t] = log[t]
          \/ /\ work[w].pc = "post" /\ work'[w].pc = "catch" /\ log'[t] = log[t]
             /\ (got'[t].received <=> got[t].received)
          \/ work[w].pc = "record" /\ work'[w].pc = "done" /\ log'[t] = "success"
          \/ /\ work[w].pc = "catch" /\ work'[w].pc = "throw" /\ got'[t] = got[t]
             /\ log'[t] = IF IsLast(w) THEN "failed" ELSE "pending"
      BY <1>1, UnharmedStep
    <3> HIDE DEF t
    <3> QED  BY <2>1, <2>2, <3>1, <3>2, <3>3
  <2>3. CASE v # w /\ work[v].pc # "idle"
    <3>1. work[v].t \in Target /\ work[v] # NoRun
      BY <1>1, <2>3, BusyRun DEF NoRun
    <3>2. work[v].t # t
      BY <1>1, <1>4, <2>3, <3>1 DEF InOrder, NothingStalls, JobsHeld
    <3>3. work'[v] = work[v] /\ log'[work[v].t] = log[work[v].t] /\ got'[work[v].t] = got[work[v].t]
      BY <1>2, <1>3, <2>3, <3>1, <3>2
    <3> QED  BY <1>1, <2>1, <3>3 DEF InOrder, RunsAgree
  <2>4. CASE v # w /\ work[v].pc = "idle"
    BY <1>2, <2>4
  <2> QED  BY <2>2, <2>3, <2>4
<1> QED  BY <1>5, <1>6, <1>7 DEF InOrder

LEMMA OrderEnd ==
  ASSUME IInv, InOrder, ~Mishap, NEW w \in Worker, Complete(w) \/ Throw(w) PROVE InOrder'
<1>1. TypeOK /\ JobsHeld /\ InOrder
  BY DEF IInv
<1> DEFINE t == work[w].t
<1>2. /\ t \in Target /\ work[w] # NoRun /\ UNCHANGED <<emitter, log, got>>
      /\ \A v \in Worker : work'[v] = IF v = w THEN NoRun ELSE work[v]
      /\ \A u \in Target : u # t => job'[u] = job[u]
  BY <1>1, EndFacts
<1>3. job[t].state = "active" /\ work[w].locked /\ work[w].attempt = job[t].made + 1
  BY <1>1, <1>2 DEF InOrder, NothingStalls, JobsHeld
<1>4. \/ work[w].pc = "done" /\ job'[t].state = "completed"
      \/ work[w].pc = "throw" /\ job'[t].state = IF job[t].made + 1 < Attempts THEN "waiting" ELSE "failed"
  <2>1. ~Crash(w)
    BY DEF Crash
  <2> QED  BY <1>1, <1>3, <2>1, EndFacts
<1>5. NothingStalls'
  BY <1>1, <1>2, <1>4 DEF InOrder, NothingStalls
<1>6. RunsAgree'
  BY <1>1, <1>2 DEF InOrder, RunsAgree, NoRun, IsLast
<1>7. JobsAgree'
  <2>1. \/ job'[t].state = "completed" /\ log[t] \in {"success", "cancelled"}
        \/ job'[t].state = "waiting" /\ log[t] = "pending" /\ ~got[t].received
        \/ job'[t].state = "failed" /\ log[t] = "failed" /\ ~got[t].received
    <3>1. IsLast(w) <=> ~(job[t].made + 1 < Attempts)
      BY <1>1, <1>2, <1>3, AttemptsAssumption DEF IsLast, TypeOK, Jobs
    <3> QED  BY <1>1, <1>4, <3>1 DEF InOrder, RunsAgree
  <2> HIDE DEF t
  <2> QED  BY <1>1, <1>2, <2>1 DEF InOrder, JobsAgree
<1> QED  BY <1>5, <1>6, <1>7 DEF InOrder

LEMMA OrderNext == ASSUME IInv, Next PROVE UnharmedInOrder'
<1> SUFFICES ASSUME Unharmed' PROVE InOrder'
  BY DEF UnharmedInOrder, InOrder
<1>1. TypeOK /\ JobsHeld /\ Unharmed /\ ~Mishap /\ InOrder
  BY UnharmedBefore DEF IInv, UnharmedInOrder, InOrder
<1>2. ASSUME NEW e \in Endpoint, Manage(e) PROVE InOrder'
  BY <1>1, <1>2 DEF Manage, Register, Revoke, Rotate, InOrder, NothingStalls, RunsAgree, JobsAgree, IsLast
<1>3. ASSUME NEW ev \in Event, Emit(ev) PROVE InOrder'
  BY <1>1, <1>3, OrderEmit
<1>4. ASSUME NEW w \in Worker, NEW t \in Target, Take(w, t) PROVE InOrder'
  BY <1>1, <1>4, OrderTake
<1>5. ASSUME NEW w \in Worker, Step(w) PROVE InOrder'
  BY <1>1, <1>5, OrderStep
<1>6. ASSUME NEW w \in Worker, Complete(w) \/ Throw(w) PROVE InOrder'
  BY <1>1, <1>6, OrderEnd
<1>7. ASSUME NEW t \in Target, Stalled(t) PROVE FALSE
  <2>1. PICK w \in Worker : work[w].t = t
    BY <1>1, <1>7 DEF Stalled, InOrder, NothingStalls
  <2>2. work[w] # NoRun
    BY <2>1, SetsAssumption DEF NoRun, Target
  <2> QED  BY <1>1, <1>7, <2>1, <2>2 DEF Stalled, InOrder, NothingStalls
<1> QED  BY <1>1, <1>2, <1>3, <1>4, <1>5, <1>6, <1>7, NextCases DEF Crash, LoseLock

-----------------------------------------------------------------------------
LEMMA InitIInv == Init => IInv
<1> SUFFICES ASSUME Init PROVE IInv
  OBVIOUS
<1> USE AttemptsAssumption, BoundsAssumption
<1>1. TypeOK
  BY TypeInit
<1>2. \A w \in Worker : work[w] = NoRun
  BY DEF Init
<1>3. \A t \in Target : /\ job[t] = [state |-> "none", made |-> 0, stalls |-> 0]
                        /\ got[t] = [posts |-> 0, received |-> FALSE, answered |-> FALSE] /\ log[t] = "none"
  BY DEF Init
<1>4. \A ev \in Event : emitter[ev] = [pc |-> "idle", left |-> {}, due |-> {}]
  BY DEF Init
<1>5. JobsHeld
  <2>1. \A w \in Worker : work[w] = NoRun /\ ~work[w].locked
    <3>1. ~NoRun.locked
      BY DEF NoRun
    <3> QED  BY <1>2, <3>1
  <2>2. \A t \in Target : job[t].state = "none" /\ job[t].made < Attempts
    BY <1>3
  <2> QED  BY <2>1, <2>2 DEF JobsHeld
<1>6. EmissionsInOrder
  BY <1>3, <1>4 DEF EmissionsInOrder, EmissionInOrder, Orphan, Target
<1>7. RunsAccounted
  <2> SUFFICES ASSUME NEW t \in Target PROVE got[t].posts + Cardinality(Unposted(t)) <= Started(job[t])
    BY DEF RunsAccounted
  <2>1. Unposted(t) = {}
    BY <1>2 DEF Unposted, NoRun
  <2> QED  BY <1>3, <2>1, FS_EmptySet DEF Started
<1>8. AnswerKnown /\ SuccessMeansReceived
  BY <1>2, <1>3 DEF AnswerKnown, SuccessMeansReceived, NoRun
<1>9. StalePostsBounded
  <2> SUFFICES ASSUME NEW e \in Endpoint
               PROVE  stale[e] + Cardinality(StaleRuns(e)) <= Cardinality(Worker) * Changes(e)
    BY DEF StalePostsBounded, StaleRuns
  <2>1. StaleRuns(e) = {}
    BY <1>2 DEF StaleRuns, IsStale, NoRun
  <2>2. stale[e] = 0 /\ Changes(e) = 0
    BY DEF Init, Changes
  <2> QED  BY <2>1, <2>2, FS_EmptySet, StaleFinite
<1>10. UnharmedInOrder
  <2>1. \A w \in Worker : work[w] = NoRun /\ work[w].pc = "idle"
    <3>1. NoRun.pc = "idle"
      BY DEF NoRun
    <3> QED  BY <1>2, <3>1
  <2>2. \A t \in Target : job[t].state = "none" /\ log[t] = "none" /\ ~got[t].received
    BY <1>3
  <2>3. NothingStalls /\ RunsAgree
    BY <2>1, <2>2 DEF NothingStalls, RunsAgree
  <2>4. JobsAgree
    BY <2>2 DEF JobsAgree
  <2> QED  BY <2>3, <2>4 DEF UnharmedInOrder
<1> QED  BY <1>1, <1>5, <1>6, <1>7, <1>8, <1>9, <1>10 DEF IInv

LEMMA NextIInv == IInv /\ [Next]_vars => IInv'
<1>1. ASSUME IInv, Next PROVE IInv'
  <2>1. TypeOK'
    <3>1. CASE \E e \in Endpoint : Manage(e)
      BY <1>1, <3>1, TypeManage DEF IInv
    <3>2. CASE \E ev \in Event : Emit(ev)
      BY <1>1, <3>2, TypeEmit DEF IInv
    <3>3. CASE \E w \in Worker : Run(w) \/ Crash(w) \/ LoseLock(w)
      BY <1>1, <3>3, TypeRun
    <3>4. CASE \E t \in Target : Stalled(t)
      BY <1>1, <3>4, TypeStalled
    <3> QED  BY <1>1, <3>1, <3>2, <3>3, <3>4 DEF Next
  <2> QED  BY <1>1, <2>1, JobsHeldNext, EmissionsNext, AccountedNext, SuccessNext, StaleNext, OrderNext DEF IInv
<1>2. ASSUME IInv, UNCHANGED vars PROVE IInv'
  <2>1. TypeOK' /\ JobsHeld' /\ EmissionsInOrder'
    <3>1. TypeOK'
      BY <1>2 DEF vars, IInv, TypeOK
    <3>2. JobsHeld'
      BY <1>2 DEF vars, IInv, JobsHeld
    <3>3. EmissionsInOrder'
      BY <1>2, EmissionsKept DEF vars, IInv
    <3> QED  BY <3>1, <3>2, <3>3
  <2>2. RunsAccounted' /\ AnswerKnown' /\ SuccessMeansReceived'
    BY <1>2 DEF vars, IInv, RunsAccounted, Unposted, AnswerKnown, SuccessMeansReceived
  <2>3. StalePostsBounded'
    BY <1>2 DEF vars, IInv, StalePostsBounded, IsStale, EndpointOf, Changes
  <2>4. UnharmedInOrder'
    BY <1>2 DEF vars, IInv, UnharmedInOrder, Unharmed, NothingStalls, RunsAgree, JobsAgree, IsLast
  <2> QED  BY <2>1, <2>2, <2>3, <2>4 DEF IInv
<1> QED  BY <1>1, <1>2

(* The inductive invariant holds of every behaviour: for every number of events,
   endpoints and workers, and every choice of the bounds. *)
THEOREM Invariant == Spec => []IInv
  BY InitIInv, NextIInv, PTL DEF Spec

(* A log that says success is of an event its endpoint answered 2xx in time
   (webhook-worker.ts:49-53). *)
THEOREM SuccessReceived == Spec => []SuccessMeansReceived
<1>1. IInv => SuccessMeansReceived
  BY DEF IInv
<1> QED  BY Invariant, <1>1, PTL

(* A log that says failed is of an event its endpoint did not take, while nothing
   fails: the run that wrote it is the last one, or has thrown
   (webhook-worker.ts:54-69). *)
THEOREM FailedNotReceived == Spec => []FailedNeverReceived
<1>1. IInv => FailedNeverReceived
  <2> SUFFICES ASSUME IInv, NEW t \in Target, log[t] = "failed", Unharmed
               PROVE  ~got[t].received
    BY DEF FailedNeverReceived
  <2>1. TypeOK /\ JobsHeld /\ InOrder
    BY DEF IInv, UnharmedInOrder, InOrder
  <2>2. CASE job[t].state = "active"
    <3>1. PICK w \in Worker : work[w].t = t
      BY <2>1, <2>2 DEF InOrder, NothingStalls
    <3>2. work[w] # NoRun
      BY <3>1, SetsAssumption DEF NoRun, Target
    <3>3. work[w] \in Runs
      BY <2>1, <3>2 DEF TypeOK
    <3>4. work[w].pc = "throw"
      BY <2>1, <3>1, <3>3 DEF Runs, InOrder, RunsAgree
    <3> QED  BY <2>1, <3>1, <3>4 DEF InOrder, RunsAgree
  <2>3. CASE job[t].state # "active"
    <3>1. job[t].state \in JobStates
      BY <2>1 DEF TypeOK, Jobs
    <3> QED  BY <2>1, <2>3, <3>1 DEF JobStates, InOrder, JobsAgree
  <2> QED  BY <2>2, <2>3
<1> QED  BY Invariant, <1>1, PTL

(* An event is posted at most once per attempt and once per stall
   (webhook-worker.ts:38, BullMQ's attempts and maxStalledCount). *)
THEOREM PostsAreBounded == Spec => []PostsBounded
<1>1. IInv => PostsBounded
  <2> SUFFICES ASSUME IInv, NEW t \in Target
               PROVE  /\ got[t].posts <= Attempts + job[t].stalls
                      /\ job[t].state \in {"none", "waiting"} /\ Unharmed => ~got[t].received
    BY DEF PostsBounded
  <2>1. TypeOK /\ JobsHeld /\ RunsAccounted
    BY DEF IInv
  <2>2. got[t].posts + Cardinality(Unposted(t)) <= Started(job[t])
    BY <2>1 DEF RunsAccounted
  <2>3. Started(job[t]) <= Attempts + job[t].stalls /\ Started(job[t]) \in Nat
    BY <2>1, AttemptsAssumption, BoundsAssumption DEF Started, TypeOK, Jobs
  <2>4. got[t].posts \in Nat /\ job[t].stalls \in Nat
    BY <2>1, BoundsAssumption DEF TypeOK, Jobs
  <2>5. job[t].state \in {"none", "waiting"} /\ Unharmed => ~got[t].received
    BY DEF IInv, UnharmedInOrder, JobsAgree
  <2> QED  BY <2>2, <2>3, <2>4, <2>5, UnpostedFinite, AttemptsAssumption
<1> QED  BY Invariant, <1>1, PTL

(* After an endpoint is revoked or its secret replaced, each worker makes at most
   one post on the row as it was (webhook-worker.ts:28 and 38). *)
THEOREM StaleAreBounded == Spec => []StalePostsBounded
<1>1. IInv => StalePostsBounded
  BY DEF IInv
<1> QED  BY Invariant, <1>1, PTL

(* An emission that reaches its end has queued a job for every endpoint that was live
   when it began; one that failed leaves at most one log without a job
   (webhook-queue.ts:53-68). *)
THEOREM AllAreQueued == Spec => []EveryoneQueued
<1>1. IInv => EveryoneQueued
  <2> SUFFICES ASSUME IInv, NEW ev \in Event
               PROVE  /\ emitter[ev].pc = "done" => \A e \in emitter[ev].due : job[<<ev, e>>].state # "none"
                      /\ \A e \in Endpoint : log[<<ev, e>>] # "none" => e \in emitter[ev].due
                      /\ \A e, f \in Endpoint : Orphan(ev, e) /\ Orphan(ev, f) => e = f
    BY DEF EveryoneQueued
  <2>1. EmissionInOrder(ev)
    BY DEF IInv, EmissionsInOrder
  <2> QED  BY <2>1 DEF EmissionInOrder
<1> QED  BY Invariant, <1>1, PTL

(* A job that is over has a settled log, while nothing fails (isLast,
   webhook-worker.ts:26). *)
THEOREM EndedAreSettled == Spec => []EndedIsSettled
<1>1. IInv => EndedIsSettled
  BY DEF IInv, UnharmedInOrder, JobsAgree, EndedIsSettled
<1> QED  BY Invariant, <1>1, PTL

-----------------------------------------------------------------------------
(* The other end: what the receiver's two checks give together, for every
   secret, event id, clock and order of arrival.  Its module is instantiated,
   with constants and a state of its own. *)
CONSTANTS EventId, Secret, Known, Malformed, Tolerance, Ttl
VARIABLES now, seen, taken

Receiver == INSTANCE WebhookReceiver

(* The defaults of webhook-signature.ts:7 and 56, for a tolerance of any length. *)
Defaults == Tolerance \in Nat /\ Ttl = 2 * Tolerance /\ Tolerance > 0 /\ Malformed \notin Nat

(* Whatever was processed is in the map until its memory ends, and was processed
   inside its window and after the last memory of its id had ended. *)
StillRemembered ==
  \A x \in taken : x[3] + Ttl * 1000 <= now \/ seen[x[1]] >= x[3] + Ttl * 1000

RInv ==
  /\ now \in Nat
  /\ seen \in [EventId -> Nat]
  /\ taken \subseteq EventId \X Nat \X Nat
  /\ \A x \in taken : x[3] <= now
  /\ StillRemembered
  /\ Receiver!AcceptedInWindow
  /\ Receiver!RepeatsFarApart

LEMMA ReceiverInit == Receiver!Init => RInv
  BY DEF Receiver!Init, RInv, StillRemembered, Receiver!AcceptedInWindow, Receiver!RepeatsFarApart

LEMMA ReceiverTick == ASSUME Defaults, RInv, Receiver!Tick PROVE RInv'
  BY SMTT(30) DEF Defaults, RInv, Receiver!Tick, StillRemembered, Receiver!AcceptedInWindow, Receiver!RepeatsFarApart, Receiver!Seconds

(* A step of the receiver: the event is new and taken, or nothing but what has
   expired is forgotten. *)
LEMMA ReceiverReceive ==
  ASSUME Defaults, RInv, NEW id \in EventId, NEW secret \in Secret, NEW ts \in Nat \cup {Malformed},
         Receiver!Receive(id, secret, ts)
  PROVE  RInv'
<1>1. ts \in Nat /\ Receiver!Seconds(now) - ts <= Tolerance /\ ts - Receiver!Seconds(now) <= Tolerance
  <2>1. Receiver!Seconds(now) \in Int
    BY DEF RInv, Receiver!Seconds
  <2>2. ts # Malformed /\ ~Receiver!Expired(ts)
    BY DEF Receiver!Receive, Receiver!Verdict
  <2> QED  BY <2>1, <2>2 DEF Defaults, Receiver!Expired
<1>2. Receiver!Remembered \in [EventId -> Nat] /\ now' = now /\ now \in Nat /\ Ttl * 1000 \in Nat
  BY DEF Receiver!Remembered, RInv, Receiver!Receive, Defaults
<1>3. \A x \in taken : x[1] \in EventId /\ x[2] \in Nat /\ x[3] \in Nat
  BY DEF RInv
<1>4. \A x \in taken : x[3] + Ttl * 1000 <= now \/ Receiver!Remembered[x[1]] >= x[3] + Ttl * 1000
  <2> TAKE x \in taken
  <2>1. x[3] + Ttl * 1000 <= now \/ seen[x[1]] >= x[3] + Ttl * 1000
    BY DEF RInv, StillRemembered
  <2>2. x[1] \in EventId /\ seen[x[1]] \in Nat
    BY <1>3 DEF RInv
  <2> QED  BY <1>2, <1>3, <2>1, <2>2 DEF Receiver!Remembered
<1>5. CASE ~Receiver!FirstTime(id)
  <2>1. seen' = Receiver!Remembered /\ taken' = taken
    BY <1>5 DEF Receiver!Receive
  <2> QED  BY <1>2, <1>4, <2>1 DEF RInv, StillRemembered, Receiver!AcceptedInWindow, Receiver!RepeatsFarApart
<1>6. CASE Receiver!FirstTime(id)
  <2> DEFINE z == <<id, ts, now>>
  <2>1. seen' = [Receiver!Remembered EXCEPT ![id] = now + Ttl * 1000] /\ taken' = taken \cup {z}
    BY <1>6 DEF Receiver!Receive
  <2>2. z[1] = id /\ z[2] = ts /\ z[3] = now
    OBVIOUS
  <2>3. \A x \in taken : x[1] = id => x[3] + Ttl * 1000 <= now
    <3> TAKE x \in taken
    <3> HAVE x[1] = id
    <3>1. Receiver!Remembered[id] = 0
      BY <1>6 DEF Receiver!FirstTime
    <3> QED  BY <1>2, <1>3, <1>4, <3>1 DEF Defaults
  <2>4. now' \in Nat /\ seen' \in [EventId -> Nat]
    BY <1>2, <2>1
  <2>5. taken' \subseteq EventId \X Nat \X Nat
    BY <1>1, <1>2, <2>1 DEF RInv
  <2>6. \A x \in taken' : x[3] <= now'
    BY <1>2, <2>1, <2>2 DEF RInv
  <2>7. StillRemembered'
    <3> SUFFICES ASSUME NEW x \in taken'
                 PROVE  x[3] + Ttl * 1000 <= now \/ seen'[x[1]] >= x[3] + Ttl * 1000
      BY <1>2 DEF StillRemembered
    <3>1. CASE x = z
      BY <1>2, <2>1, <2>2, <3>1
    <3>2. CASE x \in taken /\ x[1] = id
      BY <2>3, <3>2
    <3>3. CASE x \in taken /\ x[1] # id
      BY <1>2, <1>3, <1>4, <2>1, <3>3
    <3> QED  BY <2>1, <3>1, <3>2, <3>3
  <2>8. Receiver!AcceptedInWindow'
    BY <1>1, <1>2, <2>1, <2>2 DEF RInv, Receiver!AcceptedInWindow, Receiver!Seconds
  <2>9. Receiver!RepeatsFarApart'
    <3> SUFFICES ASSUME NEW x \in taken', NEW y \in taken', x[1] = y[1], x[3] < y[3]
                 PROVE  y[3] >= x[3] + Ttl * 1000
      BY DEF Receiver!RepeatsFarApart
    <3>1. CASE x \in taken /\ y \in taken
      BY <3>1 DEF RInv, Receiver!RepeatsFarApart
    <3>2. CASE x \in taken /\ y = z
      BY <1>2, <1>3, <2>2, <2>3, <3>2
    <3>3. CASE x = z
      <4>1. y[3] <= now /\ x[3] = now /\ y[3] \in Nat
        BY <1>2, <1>3, <2>1, <2>2, <3>3 DEF RInv
      <4> QED  BY <1>2, <4>1
    <3> QED  BY <2>1, <3>1, <3>2, <3>3
  <2> QED  BY <2>4, <2>5, <2>6, <2>7, <2>8, <2>9 DEF RInv
<1> QED  BY <1>5, <1>6

(* The inductive invariant holds of every behaviour. *)
THEOREM ReceiverInvariant == ASSUME Defaults PROVE Receiver!Spec => []RInv
<1>1. RInv /\ [Receiver!Next]_Receiver!vars => RInv'
  <2>1. ASSUME RInv, UNCHANGED Receiver!vars PROVE RInv'
    BY <2>1, SMTT(30) DEF Receiver!vars, RInv, StillRemembered, Receiver!AcceptedInWindow, Receiver!RepeatsFarApart
  <2> QED  BY <2>1, ReceiverTick, ReceiverReceive DEF Receiver!Next
<1> QED  BY ReceiverInit, <1>1, PTL DEF Receiver!Spec

(* An event is processed once, except in the first and the last second of its
   window (webhook-signature.ts:37 rounds to seconds, 60 does not). *)
THEOREM OncePerWindow == ASSUME Defaults PROVE Receiver!Spec => []Receiver!RepeatsOnlyAtTheEnds
<1>1. RInv => Receiver!RepeatsOnlyAtTheEnds
  <2> SUFFICES ASSUME RInv, NEW x \in taken, NEW y \in taken,
                      x[1] = y[1], x[2] = y[2], x[3] < y[3]
               PROVE  Receiver!Seconds(x[3]) = x[2] - Tolerance /\ Receiver!Seconds(y[3]) = x[2] + Tolerance
    BY DEF Receiver!RepeatsOnlyAtTheEnds
  <2>1. y[3] >= x[3] + 2 * Tolerance * 1000
    BY DEF RInv, Receiver!RepeatsFarApart, Defaults
  <2>2. x[2] - Receiver!Seconds(x[3]) <= Tolerance /\ Receiver!Seconds(y[3]) - x[2] <= Tolerance
    BY DEF RInv, Receiver!AcceptedInWindow
  <2>3. x[2] \in Nat /\ x[3] \in Nat /\ y[3] \in Nat
    BY DEF RInv
  <2>4. Receiver!Seconds(y[3]) >= Receiver!Seconds(x[3]) + 2 * Tolerance
    BY <2>1, <2>3 DEF Receiver!Seconds, Defaults
  <2>5. Receiver!Seconds(x[3]) \in Int /\ Receiver!Seconds(y[3]) \in Int
    BY <2>3 DEF Receiver!Seconds
  <2> QED  BY <2>2, <2>3, <2>4, <2>5 DEF Defaults
<1> QED  BY ReceiverInvariant, <1>1, PTL
=============================================================================
