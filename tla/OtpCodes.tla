------------------------------ MODULE OtpCodes ------------------------------
(***************************************************************************)
(* The one-time codes of apps/server/src/app.ts: POST /otp/request issues  *)
(* a code, POST /otp/verify exchanges it for a session, and the worker's   *)
(* cleanup deletes old rows.  Handlers run concurrently (in one process    *)
(* they interleave at every await, and several processes share the         *)
(* database), so each statement the database executes is a step.           *)
(*                                                                         *)
(* The database is PostgreSQL at READ COMMITTED, its default: a statement  *)
(* outside a transaction is atomic; an UPDATE or DELETE waits for a row    *)
(* that a transaction has updated and then looks at the row again; a read  *)
(* sees committed rows only; the advisory lock and the row locks of a      *)
(* transaction are released when it ends, whichever way it ends.           *)
(***************************************************************************)
EXTENDS Naturals, FiniteSets

CONSTANTS
  User,         \* users of one application
  Id,           \* identifiers of OtpCode rows; their number bounds the codes
  Requester,    \* concurrent executions of POST /otp/request
  Verifier,     \* concurrent executions of POST /otp/verify
  MaxAttempts,  \* OTP_MAX_ATTEMPTS
  NoUser, NoId

ASSUME MaxAttemptsAssumption == MaxAttempts \in Nat \ {0}
ASSUME NoUserAssumption == NoUser \notin User
ASSUME NoIdAssumption == NoId \notin Id

VARIABLES
  otp,       \* the OtpCode table
  tx,        \* tx[r]: the request handler r and its transaction
  ver,       \* ver[v]: the verify handler v
  enqueued,  \* the codes handed to the otp queue
  opened     \* history: how many sessions were created from each code

vars == <<otp, tx, ver, enqueued, opened>>

-----------------------------------------------------------------------------
(* A row is "pending" between the INSERT and the COMMIT of its transaction;
   consumedAt is null exactly for pending and active rows. *)
RowStates == {"none", "pending", "active", "consumed", "deleted"}

(* "expired": expiresAt is past.  "old": cleanup's condition holds, expiresAt
   or consumedAt is more than a day past. *)
Ages == {"valid", "expired", "old"}

Row == [user : User \cup {NoUser}, state : RowStates,
        attempts : 0..MaxAttempts, age : Ages]
NoRow == [user |-> NoUser, state |-> "none", attempts |-> 0, age |-> "valid"]

TxStages == {"idle", "waiting", "locked", "retired", "inserted", "handoff"}
Tx == [pc : TxStages, user : User \cup {NoUser}, id : Id \cup {NoId},
       rows : SUBSET Id]
NoTx == [pc |-> "idle", user |-> NoUser, id |-> NoId, rows |-> {}]

VerStages == {"idle", "claim", "consume", "session"}
Ver == [pc : VerStages, id : Id \cup {NoId}]
NoVer == [pc |-> "idle", id |-> NoId]

TypeOK ==
  /\ otp \in [Id -> Row]
  /\ tx \in [Requester -> Tx]
  /\ ver \in [Verifier -> Ver]
  /\ enqueued \in SUBSET Id
  /\ opened \in [Id -> Nat]

Init ==
  /\ otp = [i \in Id |-> NoRow]
  /\ tx = [r \in Requester |-> NoTx]
  /\ ver = [v \in Verifier |-> NoVer]
  /\ enqueued = {}
  /\ opened = [i \in Id |-> 0]

-----------------------------------------------------------------------------
\* where: { userId, consumedAt: null }, as a read of committed rows sees it
ActiveRows(u) == {i \in Id : otp[i].state = "active" /\ otp[i].user = u}

\* r is inside its transaction, holding the advisory lock
InTx(r) == tx[r].pc \in {"locked", "retired", "inserted"}

\* Mistakes in the lock: no lock at all; a lock that waits for waiters as well
NoLock(u) == TRUE
LockFreeOfWaiters(u) == \A r \in Requester : tx[r].user # u

\* pg_advisory_xact_lock(hashtext(userId)) can be granted
LockFree(u) == \A r \in Requester : ~(InTx(r) /\ tx[r].user = u)

\* Mistake: an update does not wait for the transaction that updated the row
NoRowLock(i) == FALSE

\* A transaction has updated row i and has not ended
RowLocked(i) == \E r \in Requester : InTx(r) /\ i \in tx[r].rows

\* Mistake: the claim without consumedAt: null
ClaimConsumed(i) == otp[i].attempts < MaxAttempts

\* where: { id, consumedAt: null, attempts: { lt: maxAttempts } }
Claimable(i) == otp[i].state = "active" /\ otp[i].attempts < MaxAttempts

\* Mistake: where: { id } alone
ConsumeAgain(i) == TRUE

\* where: { id, consumedAt: null }
Consumable(i) == otp[i].state = "active"

-----------------------------------------------------------------------------
(* POST /otp/request.  Refusals (authentication, rate limits, risk) return
   before the first step and leave the codes alone.  The bound on the codes
   is in the guard: a request starts when rows are left for every request in
   flight. *)
Unused == {i \in Id : otp[i].state = "none"}
Starting == {r \in Requester : tx[r].pc \in {"waiting", "locked", "retired"}}

RequestBegin(r, u) ==
  /\ tx[r].pc = "idle"
  /\ Cardinality(Unused) > Cardinality(Starting)
  /\ tx' = [tx EXCEPT ![r] = [pc |-> "waiting", user |-> u, id |-> NoId, rows |-> {}]]
  /\ UNCHANGED <<otp, ver, enqueued, opened>>

RequestLock(r) ==
  /\ tx[r].pc = "waiting"
  /\ LockFree(tx[r].user)
  /\ tx' = [tx EXCEPT ![r].pc = "locked"]
  /\ UNCHANGED <<otp, ver, enqueued, opened>>

\* The updateMany that marks the user's unused codes consumed, not yet committed
RequestRetire(r) ==
  /\ tx[r].pc = "locked"
  /\ tx' = [tx EXCEPT ![r].pc = "retired", ![r].rows = ActiveRows(tx[r].user)]
  /\ UNCHANGED <<otp, ver, enqueued, opened>>

RequestInsert(r) ==
  /\ tx[r].pc = "retired"
  /\ \E i \in Unused :
       /\ otp' = [otp EXCEPT ![i] = [user |-> tx[r].user, state |-> "pending",
                                     attempts |-> 0, age |-> "valid"]]
       /\ tx' = [tx EXCEPT ![r].pc = "inserted", ![r].id = i]
  /\ UNCHANGED <<ver, enqueued, opened>>

\* The table once r's transaction is committed
Committed(r) ==
  [i \in Id |->
     [otp[i] EXCEPT !.state = IF i = tx[r].id THEN "active"
                              ELSE IF i \in tx[r].rows THEN "consumed" ELSE @]]

RequestCommit(r) ==
  /\ tx[r].pc = "inserted"
  /\ otp' = Committed(r)
  /\ tx' = [tx EXCEPT ![r].pc = "handoff", ![r].rows = {}]
  /\ UNCHANGED <<ver, enqueued, opened>>

\* delivery.create, enqueueOtp and the 202 reply
RequestHandOff(r) ==
  /\ tx[r].pc = "handoff"
  /\ enqueued' = enqueued \cup {tx[r].id}
  /\ tx' = [tx EXCEPT ![r] = NoTx]
  /\ UNCHANGED <<otp, ver, opened>>

\* Mistake: the retirement is not part of the transaction
RetirementStays(r) ==
  [i \in Id |-> IF tx[r].pc = "inserted" /\ i = tx[r].id THEN NoRow
                ELSE IF i \in tx[r].rows THEN [otp[i] EXCEPT !.state = "consumed"]
                ELSE otp[i]]

\* The table once r's transaction is rolled back
RolledBack(r) ==
  IF tx[r].pc = "inserted" THEN [otp EXCEPT ![tx[r].id] = NoRow] ELSE otp

(* A database or Redis error, the transaction's timeout, or a crash of the
   server: the handler ends with a 500 or not at all, its transaction is
   rolled back.  After the commit the code stays, unsent. *)
RequestFail(r) ==
  /\ tx[r].pc # "idle"
  /\ otp' = RolledBack(r)
  /\ tx' = [tx EXCEPT ![r] = NoTx]
  /\ UNCHANGED <<ver, enqueued, opened>>

-----------------------------------------------------------------------------
(* POST /otp/verify.  An answer ends the handler; which answer it is, the
   action's name and comment say. *)
Answer(v) == ver' = [ver EXCEPT ![v] = NoVer]

\* findFirst returns nothing: OTP_NOT_FOUND.  The read and the answer are one step.
VerifyNotFound(v, u) ==
  /\ ver[v].pc = "idle"
  /\ ActiveRows(u) = {}
  /\ UNCHANGED vars

\* The row found is past its expiresAt: OTP_EXPIRED
VerifyExpired(v, u) ==
  /\ ver[v].pc = "idle"
  /\ \E i \in ActiveRows(u) : otp[i].age # "valid"
  /\ UNCHANGED vars

VerifyFound(v, u) ==
  /\ ver[v].pc = "idle"
  /\ \E i \in ActiveRows(u) :
       /\ otp[i].age = "valid"
       /\ ver' = [ver EXCEPT ![v] = [pc |-> "claim", id |-> i]]
  /\ UNCHANGED <<otp, tx, enqueued, opened>>

\* claimed.count === 0: OTP_LOCKED
VerifyLocked(v) ==
  /\ ver[v].pc = "claim"
  /\ ~RowLocked(ver[v].id)
  /\ ~Claimable(ver[v].id)
  /\ Answer(v)
  /\ UNCHANGED <<otp, tx, enqueued, opened>>

Claim(v) ==
  /\ ver[v].pc = "claim"
  /\ ~RowLocked(ver[v].id)
  /\ Claimable(ver[v].id)
  /\ otp' = [otp EXCEPT ![ver[v].id].attempts = @ + 1]

\* An attempt is claimed and the code compared is wrong: OTP_INCORRECT
VerifyIncorrect(v) ==
  /\ Claim(v)
  /\ Answer(v)
  /\ UNCHANGED <<tx, enqueued, opened>>

\* An attempt is claimed and the code compared is right
VerifyCorrect(v) ==
  /\ Claim(v)
  /\ ver' = [ver EXCEPT ![v].pc = "consume"]
  /\ UNCHANGED <<tx, enqueued, opened>>

VerifyConsume(v) ==
  /\ ver[v].pc = "consume"
  /\ ~RowLocked(ver[v].id)
  /\ Consumable(ver[v].id)
  /\ otp' = [otp EXCEPT ![ver[v].id].state = "consumed"]
  /\ ver' = [ver EXCEPT ![v].pc = "session"]
  /\ UNCHANGED <<tx, enqueued, opened>>

\* Mistake: the handler returns without an answer
NeverLost(v) == FALSE

\* consumed.count === 0: OTP_NOT_FOUND
VerifyLost(v) ==
  /\ ver[v].pc = "consume"
  /\ ~RowLocked(ver[v].id)
  /\ ~Consumable(ver[v].id)
  /\ Answer(v)
  /\ UNCHANGED <<otp, tx, enqueued, opened>>

\* recordLogin, createSession, the webhook events and the 200 reply
VerifySession(v) ==
  /\ ver[v].pc = "session"
  /\ opened' = [opened EXCEPT ![ver[v].id] = @ + 1]
  /\ Answer(v)
  /\ UNCHANGED <<otp, tx, enqueued>>

\* An error or a crash between two statements: nothing is undone
VerifyFail(v) ==
  /\ ver[v].pc # "idle"
  /\ Answer(v)
  /\ UNCHANGED <<otp, tx, enqueued, opened>>

-----------------------------------------------------------------------------
(* Time passes, for a committed row: five minutes, then a day. *)
Tick(i) ==
  /\ otp[i].state \in {"active", "consumed"}
  /\ otp[i].age # "old"
  /\ otp' = [otp EXCEPT ![i].age = IF @ = "valid" THEN "expired" ELSE "old"]
  /\ UNCHANGED <<tx, ver, enqueued, opened>>

\* where: { OR: [expiresAt, consumedAt more than a day ago] }
Deletable(i) == otp[i].state \in {"active", "consumed"} /\ otp[i].age = "old"

\* The deleteMany of runCleanup
Cleanup ==
  /\ \E i \in Id : Deletable(i)
  /\ \A i \in Id : Deletable(i) => ~RowLocked(i)
  /\ otp' = [i \in Id |-> [otp[i] EXCEPT !.state = IF Deletable(i) THEN "deleted"
                                                   ELSE @]]
  /\ UNCHANGED <<tx, ver, enqueued, opened>>

-----------------------------------------------------------------------------
RequestStep(r) ==
  \/ RequestRetire(r) \/ RequestInsert(r) \/ RequestCommit(r) \/ RequestHandOff(r)

ClaimStep(v) == VerifyLocked(v) \/ VerifyIncorrect(v) \/ VerifyCorrect(v)
ConsumeStep(v) == VerifyConsume(v) \/ VerifyLost(v)

Next ==
  \/ \E r \in Requester, u \in User : RequestBegin(r, u)
  \/ \E r \in Requester : RequestLock(r) \/ RequestStep(r) \/ RequestFail(r)
  \/ \E v \in Verifier, u \in User :
       VerifyNotFound(v, u) \/ VerifyExpired(v, u) \/ VerifyFound(v, u)
  \/ \E v \in Verifier :
       ClaimStep(v) \/ ConsumeStep(v) \/ VerifySession(v) \/ VerifyFail(v)
  \/ \E i \in Id : Tick(i)
  \/ Cleanup

Spec == Init /\ [][Next]_vars

(* A handler that can take its next step takes it: the event loop runs every
   ready continuation.  A handler that waits for a lock gets it if the lock
   is free again and again: PostgreSQL queues the waiters.  Clients, failures,
   time and cleanup owe nothing. *)
Fairness ==
  /\ \A r \in Requester : SF_vars(RequestLock(r)) /\ WF_vars(RequestStep(r))
  /\ \A v \in Verifier :
       SF_vars(ClaimStep(v)) /\ SF_vars(ConsumeStep(v)) /\ WF_vars(VerifySession(v))

FairSpec == Spec /\ Fairness
-----------------------------------------------------------------------------
(* One active code per user (app.ts:666): the advisory lock must keep two
   requests from both retiring the same old code and each adding a new one. *)
OneActiveCode ==
  \A i, j \in Id :
    /\ otp[i].state = "active"
    /\ otp[j].state = "active"
    /\ otp[i].user = otp[j].user
    => i = j

(* Single use (app.ts:739): however many verifications compare the right code
   at once, at most one session comes of it, counting the one on its way. *)
SingleUse ==
  \A i \in Id :
    /\ opened[i] <= 1
    /\ \A v, w \in Verifier :
         /\ ver[v].pc = "session" /\ ver[v].id = i
         => opened[i] = 0 /\ (ver[w].pc = "session" /\ ver[w].id = i => v = w)

(* A code reaches the otp queue only once it is committed: a message never
   carries a code that a rollback took away. *)
SentCodeWasIssued == \A i \in enqueued : otp[i].state \notin {"none", "pending"}

\* The step leaves u with a code, or wins a login with it, or deletes it for its age.
CodeKept(u) ==
  ActiveRows(u) # {} /\ ActiveRows(u)' = {}
  => \/ \E v \in Verifier :
          ver[v].id \in ActiveRows(u) /\ ver[v].pc = "consume" /\ ver'[v].pc = "session"
     \/ \A i \in ActiveRows(u) : otp[i].age = "old"

(* A user who has a code keeps one until it wins a login or grows a day old:
   a request that fails half-way must not have retired the old code (the
   transaction of app.ts:668 is all or nothing). *)
KeepsACode == [][\A u \in User : CodeKept(u)]_vars

(* The state of OtpLogin that the rows and the handlers stand for. *)
live == [u \in User |-> ActiveRows(u)]
issued == {i \in Id : otp[i].state \notin {"none", "pending"}}
tries == [i \in Id |-> otp[i].attempts]
winning == {i \in Id : \E v \in Verifier : ver[v].pc = "session" /\ ver[v].id = i}

Login == INSTANCE OtpLogin WITH Code <- Id

(* However requests, verifications and cleanup interleave and fail, the login
   keeps the promise of OtpLogin: a guess only ever uses up a try of the live
   code, the code a request replaced can no longer win, a login that fails
   after the code was consumed is lost and not repeated. *)
ImplementsOtpLogin == Login!Spec

(* No request waits for ever, for the advisory lock or for a row lock. *)
RequestsEnd == \A r \in Requester : tx[r].pc = "waiting" ~> tx[r].pc = "idle"

(* Every verification is answered, whatever the requests do to its row. *)
VerifiesEnd == \A v \in Verifier : ver[v].pc = "claim" ~> ver[v].pc = "idle"

-----------------------------------------------------------------------------
(* Why the safety properties hold: an invariant that every step preserves.  *)

\* The advisory lock has one holder per user.
LockExclusive ==
  \A r, s \in Requester : InTx(r) /\ InTx(s) /\ tx[r].user = tx[s].user => r = s

\* What a transaction has updated is still there to be committed ...
RetiredHeld ==
  \A r \in Requester : \A i \in tx[r].rows :
    /\ tx[r].pc \in {"retired", "inserted"}
    /\ otp[i].state = "active"
    /\ otp[i].user = tx[r].user

\* ... and covers every active row of the user, so no new one slipped in.
RetiredCovers ==
  \A r \in Requester :
    tx[r].pc \in {"retired", "inserted"} => ActiveRows(tx[r].user) \subseteq tx[r].rows

InsertedRow ==
  /\ \A i \in Id : otp[i].state # "none" => otp[i].user \in User
  /\ \A r \in Requester :
       /\ tx[r].pc # "idle" => tx[r].user \in User
       /\ tx[r].pc \in {"inserted", "handoff"} => tx[r].id \in Id
       /\ tx[r].pc = "inserted" => /\ otp[tx[r].id].state = "pending"
                                  /\ otp[tx[r].id].user = tx[r].user
       /\ tx[r].pc = "handoff" => otp[tx[r].id].state \notin {"none", "pending"}

\* Guesses are only made at committed rows, sessions only come of used ones.
GuessedRow ==
  /\ \A i \in Id :
       /\ otp[i].state \in {"none", "pending"} => otp[i].attempts = 0
       /\ otp[i].state \in {"none", "pending", "active"} => opened[i] = 0
  /\ \A v \in Verifier :
       /\ ver[v].pc # "idle" => /\ ver[v].id \in Id
                               /\ otp[ver[v].id].state \notin {"none", "pending"}
       /\ ver[v].pc = "consume" => otp[ver[v].id].attempts > 0
       /\ ver[v].pc = "session" => otp[ver[v].id].state \in {"consumed", "deleted"}

IInv ==
  /\ TypeOK
  /\ LockExclusive
  /\ RetiredHeld
  /\ RetiredCovers
  /\ InsertedRow
  /\ GuessedRow
  /\ OneActiveCode
  /\ SingleUse
  /\ SentCodeWasIssued
=============================================================================
