--------------------------- MODULE OtpCodesProofs ---------------------------
(***************************************************************************)
(* The safety properties of OtpCodes hold for any users, codes and handlers *)
(* and any number of attempts.  IInv is inductive; the properties are among *)
(* its conjuncts.                                                           *)
(***************************************************************************)
EXTENDS OtpCodes, TLAPS

\* Changing one field of a record of the table, or of a handler, keeps its type.
LEMMA RowUpdate ==
  \A row \in Row :
    /\ \A s \in RowStates : [row EXCEPT !.state = s] \in Row
    /\ \A n \in 0..MaxAttempts : [row EXCEPT !.attempts = n] \in Row
  BY DEF Row

\* The same for the record of a request.
LEMMA TxUpdate ==
  \A t \in Tx, p \in TxStages :
    /\ [t EXCEPT !.pc = p] \in Tx
    /\ \A i \in Id : [t EXCEPT !.pc = p, !.id = i] \in Tx
    /\ \A s \in SUBSET Id : [t EXCEPT !.pc = p, !.rows = s] \in Tx
  BY DEF Tx

-----------------------------------------------------------------------------
\* The parts of the invariant about requests, and the rest of it.
RequestInv ==
  LockExclusive /\ RetiredHeld /\ RetiredCovers /\ InsertedRow /\ OneActiveCode
VerifyInv == GuessedRow /\ SingleUse

\* A step of anything else disturbs no request: it takes a row out of the active
\* ones only when no transaction holds it.
LEMMA RequestUndisturbed ==
  ASSUME TypeOK, RequestInv, tx' = tx,
         \A i \in Id : /\ otp'[i].user = otp[i].user
                       /\ \/ otp'[i].state = otp[i].state
                          \/ /\ otp[i].state \in {"active", "consumed"} /\ ~RowLocked(i)
                             /\ otp'[i].state \in {"consumed", "deleted"}
  PROVE  RequestInv'
<1>1. LockExclusive'
  BY DEF RequestInv, LockExclusive, InTx
<1>2. RetiredHeld'
  BY DEF RequestInv, RetiredHeld, RowLocked, InTx, TypeOK, Tx
<1>3. RetiredCovers'
  BY DEF RequestInv, RetiredCovers, ActiveRows
<1>4. InsertedRow'
  BY DEF RequestInv, InsertedRow
<1>5. OneActiveCode'
  BY DEF RequestInv, OneActiveCode
<1> QED
  BY <1>1, <1>2, <1>3, <1>4, <1>5 DEF RequestInv

\* A step of a request, of the clock or of cleanup disturbs no verification: a
\* committed row stays committed, keeps its attempts and is never used again.
LEMMA VerifyUndisturbed ==
  ASSUME TypeOK, VerifyInv, SentCodeWasIssued, UNCHANGED <<ver, opened, enqueued>>,
         \A i \in Id :
           IF otp[i].state \in {"none", "pending"}
           THEN otp'[i].state \in {"none", "pending", "active"} /\ otp'[i].attempts = 0
           ELSE /\ otp'[i].state \notin {"none", "pending"}
                /\ otp'[i].attempts = otp[i].attempts
                /\ otp[i].state # "active" => otp'[i].state \in {"consumed", "deleted"}
  PROVE  VerifyInv' /\ SentCodeWasIssued'
<1>1. GuessedRow'
  BY DEF VerifyInv, GuessedRow, TypeOK, Row, RowStates
<1>2. SingleUse'
  BY DEF VerifyInv, SingleUse
<1>3. SentCodeWasIssued'
  BY DEF SentCodeWasIssued, TypeOK
<1> QED
  BY <1>1, <1>2, <1>3 DEF VerifyInv

\* What a commit does to the table.
LEMMA CommitRows ==
  ASSUME TypeOK, RequestInv, NEW r \in Requester, RequestCommit(r)
  PROVE  /\ tx[r].id \in Id /\ otp[tx[r].id].state = "pending"
         /\ otp[tx[r].id].user = tx[r].user /\ tx[r].user \in User
         /\ tx[r].rows = ActiveRows(tx[r].user)
         /\ \A i \in Id :
              /\ otp'[i].user = otp[i].user
              /\ otp'[i].attempts = otp[i].attempts
              /\ otp'[i].state = IF i = tx[r].id THEN "active"
                                 ELSE IF i \in tx[r].rows THEN "consumed" ELSE otp[i].state
<1>1. tx[r].rows = ActiveRows(tx[r].user)
  BY DEF RequestCommit, RequestInv, RetiredHeld, RetiredCovers, ActiveRows, TypeOK, Tx
<1> QED
  BY <1>1 DEF RequestCommit, Committed, RequestInv, InsertedRow, TypeOK, Row

-----------------------------------------------------------------------------
(* Every step keeps the types: the field it writes is of the right type. *)
LEMMA TypeStep == TypeOK /\ InsertedRow /\ GuessedRow /\ [Next]_vars => TypeOK'
<1> SUFFICES ASSUME TypeOK, InsertedRow, GuessedRow, [Next]_vars PROVE TypeOK'
  OBVIOUS
<1>1. ASSUME NEW r \in Requester, NEW u \in User, RequestBegin(r, u) PROVE TypeOK'
  <2>1. [pc |-> "waiting", user |-> u, id |-> NoId, rows |-> {}] \in Tx
    BY DEF Tx, TxStages
  <2> QED
    BY <1>1, <2>1 DEF RequestBegin, TypeOK
<1>2. ASSUME NEW r \in Requester, RequestLock(r) PROVE TypeOK'
  <2>1. [tx[r] EXCEPT !.pc = "locked"] \in Tx
    BY TxUpdate DEF TypeOK, TxStages
  <2> QED
    BY <1>2, <2>1 DEF RequestLock, TypeOK
<1>3. ASSUME NEW r \in Requester, RequestRetire(r) PROVE TypeOK'
  <2>1. tx[r] \in Tx /\ "retired" \in TxStages /\ ActiveRows(tx[r].user) \in SUBSET Id
    BY DEF TypeOK, TxStages, ActiveRows
  <2>2. [tx[r] EXCEPT !.pc = "retired", !.rows = ActiveRows(tx[r].user)] \in Tx
    BY <2>1, TxUpdate
  <2>3. tx' = [tx EXCEPT ![r] = [tx[r] EXCEPT !.pc = "retired",
                                             !.rows = ActiveRows(tx[r].user)]]
    BY <1>3, <2>1 DEF RequestRetire, TypeOK
  <2> QED
    BY <1>3, <2>2, <2>3 DEF RequestRetire, TypeOK
<1>4. ASSUME NEW r \in Requester, RequestInsert(r) PROVE TypeOK'
  <2>1. PICK i \in Unused :
          /\ otp' = [otp EXCEPT ![i] = [user |-> tx[r].user, state |-> "pending",
                                        attempts |-> 0, age |-> "valid"]]
          /\ tx' = [tx EXCEPT ![r].pc = "inserted", ![r].id = i]
    BY <1>4 DEF RequestInsert
  <2>2. i \in Id
    BY DEF Unused
  <2>3. tx' \in [Requester -> Tx]
    <3>1. tx[r] \in Tx
      BY DEF TypeOK
    <3>2. [tx[r] EXCEPT !.pc = "inserted", !.id = i] \in Tx
      BY <2>2, <3>1, TxUpdate DEF TxStages
    <3>3. tx' = [tx EXCEPT ![r] = [tx[r] EXCEPT !.pc = "inserted", !.id = i]]
      BY <2>1 DEF TypeOK, Tx
    <3> QED
      BY <3>2, <3>3 DEF TypeOK
  <2>4. [user |-> tx[r].user, state |-> "pending", attempts |-> 0, age |-> "valid"] \in Row
    BY MaxAttemptsAssumption DEF TypeOK, Tx, Row, RowStates, Ages
  <2>5. otp' \in [Id -> Row]
    BY <2>1, <2>4 DEF TypeOK
  <2> QED
    BY <1>4, <2>3, <2>5 DEF RequestInsert, TypeOK
<1>5. ASSUME NEW r \in Requester, RequestCommit(r) PROVE TypeOK'
  <2>1. tx' \in [Requester -> Tx]
    <3>1. tx[r] \in Tx /\ {} \in SUBSET Id /\ "handoff" \in TxStages
      BY DEF TypeOK, TxStages
    <3>2. [tx[r] EXCEPT !.pc = "handoff", !.rows = {}] \in Tx
      BY <3>1, TxUpdate
    <3>3. tx' = [tx EXCEPT ![r] = [tx[r] EXCEPT !.pc = "handoff", !.rows = {}]]
      BY <1>5 DEF RequestCommit, TypeOK, Tx
    <3> QED
      BY <3>2, <3>3 DEF TypeOK
  <2>2. otp' \in [Id -> Row]
    <3> DEFINE after(i) == IF i = tx[r].id THEN "active"
                           ELSE IF i \in tx[r].rows THEN "consumed" ELSE otp[i].state
    <3>1. \A i \in Id : otp[i] \in Row /\ after(i) \in RowStates
      BY DEF TypeOK, Row, RowStates
    <3>2. \A i \in Id : [otp[i] EXCEPT !.state = after(i)] \in Row
      BY <3>1, RowUpdate
    <3>3. otp' = [i \in Id |-> [otp[i] EXCEPT !.state = after(i)]]
      BY <1>5 DEF RequestCommit, Committed
    <3> QED
      BY <3>2, <3>3
  <2> QED
    BY <1>5, <2>1, <2>2 DEF RequestCommit, TypeOK
<1>6. ASSUME NEW r \in Requester, RequestHandOff(r) PROVE TypeOK'
  <2>1. tx' \in [Requester -> Tx]
    BY <1>6 DEF RequestHandOff, TypeOK, NoTx, Tx, TxStages
  <2>2. enqueued' \in SUBSET Id
    BY <1>6 DEF RequestHandOff, InsertedRow, TypeOK
  <2> QED
    BY <1>6, <2>1, <2>2 DEF RequestHandOff, TypeOK
<1>7. ASSUME NEW r \in Requester, RequestFail(r) PROVE TypeOK'
  <2>1. NoRow \in Row /\ NoTx \in Tx
    BY MaxAttemptsAssumption DEF NoRow, Row, RowStates, Ages, NoTx, Tx, TxStages
  <2> QED
    BY <1>7, <2>1 DEF RequestFail, RolledBack, TypeOK
<1>8. ASSUME NEW v \in Verifier, NEW u \in User, VerifyFound(v, u) PROVE TypeOK'
  BY <1>8 DEF VerifyFound, ActiveRows, TypeOK, Ver, VerStages
<1>9. ASSUME NEW v \in Verifier, Answer(v) PROVE ver' \in [Verifier -> Ver]
  BY <1>9 DEF Answer, NoVer, TypeOK, Ver, VerStages
<1>10. ASSUME NEW v \in Verifier, Claim(v) PROVE otp' \in [Id -> Row]
  <2> DEFINE i == ver[v].id
  <2>1. ASSUME i \in Id PROVE otp[i] \in Row /\ otp[i].attempts + 1 \in 0..MaxAttempts
    BY <1>10, <2>1, MaxAttemptsAssumption DEF Claim, Claimable, TypeOK, Row
  <2>2. ASSUME i \in Id PROVE [otp[i] EXCEPT !.attempts = otp[i].attempts + 1] \in Row
    BY <2>1, <2>2, RowUpdate
  <2>3. otp' = [otp EXCEPT ![i] = [otp[i] EXCEPT !.attempts = otp[i].attempts + 1]]
    BY <1>10 DEF Claim, TypeOK, Row
  <2> QED
    BY <2>2, <2>3 DEF TypeOK
<1>11. ASSUME NEW v \in Verifier, ClaimStep(v) PROVE TypeOK'
  <2>1. CASE VerifyLocked(v)
    BY <1>9, <2>1 DEF VerifyLocked, TypeOK
  <2>2. CASE VerifyIncorrect(v)
    BY <1>9, <1>10, <2>2 DEF VerifyIncorrect, TypeOK
  <2>3. CASE VerifyCorrect(v)
    BY <1>10, <2>3 DEF VerifyCorrect, TypeOK, Ver, VerStages
  <2> QED
    BY <1>11, <2>1, <2>2, <2>3 DEF ClaimStep
<1>12. ASSUME NEW v \in Verifier, ConsumeStep(v) PROVE TypeOK'
  <2>1. CASE VerifyConsume(v)
    BY <2>1 DEF VerifyConsume, TypeOK, Row, RowStates, Ver, VerStages
  <2>2. CASE VerifyLost(v)
    BY <1>9, <2>2 DEF VerifyLost, TypeOK
  <2> QED
    BY <1>12, <2>1, <2>2 DEF ConsumeStep
<1>13. ASSUME NEW v \in Verifier, VerifySession(v) PROVE TypeOK'
  <2>1. ver[v].id \in Id /\ opened[ver[v].id] + 1 \in Nat
    BY <1>13 DEF VerifySession, TypeOK, GuessedRow
  <2> QED
    BY <1>9, <1>13, <2>1 DEF VerifySession, TypeOK
<1>14. ASSUME NEW v \in Verifier, VerifyFail(v) PROVE TypeOK'
  BY <1>9, <1>14 DEF VerifyFail, TypeOK
<1>15. ASSUME NEW i \in Id, Tick(i) PROVE TypeOK'
  BY <1>15 DEF Tick, TypeOK, Row, Ages
<1>16. CASE Cleanup
  <2> DEFINE after(i) == IF Deletable(i) THEN "deleted" ELSE otp[i].state
  <2>1. \A i \in Id : otp[i] \in Row /\ after(i) \in RowStates
    BY DEF TypeOK, Row, RowStates
  <2>2. \A i \in Id : [otp[i] EXCEPT !.state = after(i)] \in Row
    BY <2>1, RowUpdate
  <2>3. otp' = [i \in Id |-> [otp[i] EXCEPT !.state = after(i)]]
    BY <1>16 DEF Cleanup
  <2> QED
    BY <1>16, <2>2, <2>3 DEF Cleanup, TypeOK
<1>17. CASE UNCHANGED vars
  BY <1>17 DEF vars, TypeOK
<1> QED
  BY <1>1, <1>2, <1>3, <1>4, <1>5, <1>6, <1>7, <1>8, <1>11, <1>12, <1>13, <1>14,
     <1>15, <1>16, <1>17
  DEF Next, RequestStep, VerifyNotFound, VerifyExpired

-----------------------------------------------------------------------------
(* Every step keeps the requests apart: the lock, the rows it protects and   *)
(* the one active code. *)
LEMMA RequestInvStep == IInv /\ [Next]_vars => RequestInv'
<1> SUFFICES ASSUME IInv, [Next]_vars PROVE RequestInv'
  OBVIOUS
<1>0. TypeOK /\ RequestInv /\ VerifyInv
  BY DEF IInv, RequestInv, VerifyInv
<1>1. ASSUME NEW r \in Requester, NEW u \in User, RequestBegin(r, u) PROVE RequestInv'
  <2>1. LockExclusive'
    BY <1>0, <1>1 DEF RequestBegin, RequestInv, LockExclusive, InTx, TypeOK, Tx
  <2>2. RetiredHeld'
    BY <1>0, <1>1 DEF RequestBegin, RequestInv, RetiredHeld, TypeOK, Tx
  <2>3. RetiredCovers'
    BY <1>0, <1>1
    DEF RequestBegin, RequestInv, RetiredCovers, RetiredHeld, ActiveRows, TypeOK, Tx
  <2>4. InsertedRow'
    BY <1>0, <1>1 DEF RequestBegin, RequestInv, InsertedRow, TypeOK, Tx
  <2>5. OneActiveCode'
    BY <1>0, <1>1 DEF RequestBegin, RequestInv, OneActiveCode, TypeOK, Row
  <2> QED
    BY <2>1, <2>2, <2>3, <2>4, <2>5 DEF RequestInv
<1>2. ASSUME NEW r \in Requester, RequestLock(r) PROVE RequestInv'
  <2>1. LockExclusive'
    BY <1>0, <1>2 DEF RequestLock, RequestInv, LockExclusive, InTx, TypeOK, Tx, LockFree
  <2>2. RetiredHeld'
    BY <1>0, <1>2 DEF RequestLock, RequestInv, RetiredHeld, TypeOK, Tx
  <2>3. RetiredCovers'
    BY <1>0, <1>2
    DEF RequestLock, RequestInv, RetiredCovers, RetiredHeld, ActiveRows, TypeOK, Tx
  <2>4. InsertedRow'
    BY <1>0, <1>2 DEF RequestLock, RequestInv, InsertedRow, TypeOK, Tx
  <2>5. OneActiveCode'
    BY <1>0, <1>2 DEF RequestLock, RequestInv, OneActiveCode, TypeOK, Row
  <2> QED
    BY <2>1, <2>2, <2>3, <2>4, <2>5 DEF RequestInv
<1>3. ASSUME NEW r \in Requester, RequestRetire(r) PROVE RequestInv'
  <2>1. LockExclusive'
    BY <1>0, <1>3 DEF RequestRetire, RequestInv, LockExclusive, InTx, TypeOK, Tx
  <2>2. RetiredHeld'
    BY <1>0, <1>3 DEF RequestRetire, RequestInv, RetiredHeld, TypeOK, Tx, ActiveRows
  <2>3. RetiredCovers'
    BY <1>0, <1>3
    DEF RequestRetire, RequestInv, RetiredCovers, RetiredHeld, ActiveRows, TypeOK, Tx
  <2>4. InsertedRow'
    BY <1>0, <1>3 DEF RequestRetire, RequestInv, InsertedRow, TypeOK, Tx
  <2>5. OneActiveCode'
    BY <1>0, <1>3 DEF RequestRetire, RequestInv, OneActiveCode, TypeOK, Row
  <2> QED
    BY <2>1, <2>2, <2>3, <2>4, <2>5 DEF RequestInv
<1>4. ASSUME NEW r \in Requester, RequestInsert(r) PROVE RequestInv'
  <2>1. LockExclusive'
    BY <1>0, <1>4 DEF RequestInsert, RequestInv, LockExclusive, InTx, TypeOK, Tx, Unused
  <2>2. RetiredHeld'
    BY <1>0, <1>4 DEF RequestInsert, RequestInv, RetiredHeld, TypeOK, Tx, Unused
  <2>3. RetiredCovers'
    BY <1>0, <1>4
    DEF RequestInsert, RequestInv, RetiredCovers, RetiredHeld, ActiveRows, TypeOK, Tx,
        Unused
  <2>4. InsertedRow'
    BY <1>0, <1>4 DEF RequestInsert, RequestInv, InsertedRow, TypeOK, Tx, Unused
  <2>5. OneActiveCode'
    BY <1>0, <1>4 DEF RequestInsert, RequestInv, OneActiveCode, TypeOK, Row, Unused
  <2> QED
    BY <2>1, <2>2, <2>3, <2>4, <2>5 DEF RequestInv
<1>5. ASSUME NEW r \in Requester, RequestCommit(r) PROVE RequestInv'
  <2>1. LockExclusive'
    BY <1>0, <1>5
    DEF RequestCommit, RequestInv, LockExclusive, InTx, TypeOK, Tx, Committed,
        InsertedRow, RetiredHeld, RetiredCovers, ActiveRows, OneActiveCode
  <2>2. RetiredHeld'
    BY <1>0, <1>5
    DEF RequestCommit, RequestInv, RetiredHeld, TypeOK, Tx, Committed, InsertedRow,
        LockExclusive, InTx, RetiredCovers, ActiveRows, OneActiveCode
  <2>3. RetiredCovers'
    BY <1>0, <1>5
    DEF RequestCommit, RequestInv, RetiredCovers, RetiredHeld, ActiveRows, TypeOK, Tx,
        Committed, InsertedRow, LockExclusive, InTx, OneActiveCode
  <2>4. InsertedRow'
    <3>1. \A s \in Requester :
            s # r /\ tx[s].pc = "inserted" => tx[s].id # tx[r].id /\ tx[s].id \notin tx[r].rows
      BY <1>0, <1>5
      DEF RequestCommit, RequestInv, InsertedRow, LockExclusive, InTx, RetiredHeld
    <3>2. tx' = [tx EXCEPT ![r] = [tx[r] EXCEPT !.pc = "handoff", !.rows = {}]]
      BY <1>0, <1>5 DEF RequestCommit, TypeOK, Tx
    <3>3. \A s \in Requester : /\ tx'[s].user = tx[s].user /\ tx'[s].id = tx[s].id
                              /\ tx'[s].pc = IF s = r THEN "handoff" ELSE tx[s].pc
      BY <1>0, <3>2 DEF TypeOK, Tx
    <3>4. /\ tx[r].pc = "inserted" /\ tx[r].id \in Id /\ tx[r].user \in User
          /\ otp[tx[r].id].state = "pending" /\ otp[tx[r].id].user = tx[r].user
          /\ \A i \in tx[r].rows : otp[i].state = "active"
      BY <1>0, <1>5 DEF RequestCommit, RequestInv, InsertedRow, RetiredHeld
    <3>5. \A i \in Id :
            /\ otp'[i].user = otp[i].user
            /\ otp'[i].state = IF i = tx[r].id THEN "active"
                               ELSE IF i \in tx[r].rows THEN "consumed" ELSE otp[i].state
      BY <1>0, <1>5, CommitRows
    <3> QED
      BY <1>0, <3>1, <3>3, <3>4, <3>5 DEF RequestInv, InsertedRow
  <2>5. OneActiveCode'
    BY <1>0, <1>5
    DEF RequestCommit, RequestInv, OneActiveCode, TypeOK, Row, Committed, InsertedRow,
        LockExclusive, InTx, RetiredHeld, RetiredCovers, ActiveRows
  <2> QED
    BY <2>1, <2>2, <2>3, <2>4, <2>5 DEF RequestInv
<1>6. ASSUME NEW r \in Requester, RequestHandOff(r) PROVE RequestInv'
  <2>1. LockExclusive'
    BY <1>0, <1>6 DEF RequestHandOff, NoTx, RequestInv, LockExclusive, InTx, TypeOK, Tx
  <2>2. RetiredHeld'
    BY <1>0, <1>6 DEF RequestHandOff, NoTx, RequestInv, RetiredHeld, TypeOK, Tx
  <2>3. RetiredCovers'
    BY <1>0, <1>6
    DEF RequestHandOff, NoTx, RequestInv, RetiredCovers, RetiredHeld, ActiveRows, TypeOK,
        Tx
  <2>4. InsertedRow'
    BY <1>0, <1>6 DEF RequestHandOff, NoTx, RequestInv, InsertedRow, TypeOK, Tx
  <2>5. OneActiveCode'
    BY <1>0, <1>6 DEF RequestHandOff, NoTx, RequestInv, OneActiveCode, TypeOK, Row
  <2> QED
    BY <2>1, <2>2, <2>3, <2>4, <2>5 DEF RequestInv
<1>7. ASSUME NEW r \in Requester, RequestFail(r) PROVE RequestInv'
  <2>1. LockExclusive'
    BY <1>0, <1>7
    DEF RequestFail, RolledBack, NoTx, NoRow, RequestInv, LockExclusive, InTx, TypeOK, Tx,
        InsertedRow
  <2>2. RetiredHeld'
    BY <1>0, <1>7
    DEF RequestFail, RolledBack, NoTx, NoRow, RequestInv, RetiredHeld, TypeOK, Tx,
        InsertedRow, LockExclusive, InTx
  <2>3. RetiredCovers'
    BY <1>0, <1>7
    DEF RequestFail, RolledBack, NoTx, NoRow, RequestInv, RetiredCovers, RetiredHeld,
        ActiveRows, TypeOK, Tx, InsertedRow, LockExclusive, InTx
  <2>4. InsertedRow'
    BY <1>0, <1>7
    DEF RequestFail, RolledBack, NoTx, NoRow, RequestInv, InsertedRow, TypeOK, Tx,
        LockExclusive, InTx
  <2>5. OneActiveCode'
    BY <1>0, <1>7
    DEF RequestFail, RolledBack, NoTx, NoRow, RequestInv, OneActiveCode, TypeOK, Row,
        InsertedRow, LockExclusive, InTx
  <2> QED
    BY <2>1, <2>2, <2>3, <2>4, <2>5 DEF RequestInv
<1>8. ASSUME NEW v \in Verifier, ClaimStep(v) PROVE RequestInv'
  <2>1. \A i \in Id : otp'[i].state = otp[i].state /\ otp'[i].user = otp[i].user
    BY <1>0, <1>8
    DEF ClaimStep, VerifyLocked, VerifyIncorrect, VerifyCorrect, Claim, TypeOK, Row
  <2> QED
    BY <1>0, <1>8, <2>1, RequestUndisturbed
    DEF ClaimStep, VerifyLocked, VerifyIncorrect, VerifyCorrect
<1>9. ASSUME NEW v \in Verifier, ConsumeStep(v) PROVE RequestInv'
  <2>1. CASE VerifyConsume(v)
    <3>1. \A i \in Id : /\ otp'[i].user = otp[i].user
                        /\ \/ otp'[i].state = otp[i].state
                           \/ /\ otp[i].state = "active" /\ ~RowLocked(i)
                              /\ otp'[i].state = "consumed"
      BY <1>0, <2>1 DEF VerifyConsume, Consumable, TypeOK, Row
    <3> QED
      BY <1>0, <2>1, <3>1, RequestUndisturbed DEF VerifyConsume
  <2>2. CASE VerifyLost(v)
    BY <1>0, <2>2, RequestUndisturbed DEF VerifyLost
  <2> QED
    BY <1>9, <2>1, <2>2 DEF ConsumeStep
<1>10. ASSUME NEW i \in Id, Tick(i) PROVE RequestInv'
  <2>1. \A j \in Id : otp'[j].state = otp[j].state /\ otp'[j].user = otp[j].user
    BY <1>0, <1>10 DEF Tick, TypeOK, Row
  <2> QED
    BY <1>0, <1>10, <2>1, RequestUndisturbed DEF Tick
<1>11. CASE Cleanup
  <2>1. \A i \in Id : /\ otp'[i].user = otp[i].user
                      /\ \/ otp'[i].state = otp[i].state
                         \/ /\ otp[i].state \in {"active", "consumed"} /\ ~RowLocked(i)
                            /\ otp'[i].state = "deleted"
    BY <1>0, <1>11 DEF Cleanup, Deletable, TypeOK, Row
  <2> QED
    BY <1>0, <1>11, <2>1, RequestUndisturbed DEF Cleanup
<1>12. CASE UNCHANGED <<otp, tx>>
  BY <1>0, <1>12, RequestUndisturbed
<1> QED
  BY <1>1, <1>2, <1>3, <1>4, <1>5, <1>6, <1>7, <1>8, <1>9, <1>10, <1>11, <1>12
  DEF Next, RequestStep, VerifyNotFound, VerifyExpired, VerifyFound, VerifySession,
      VerifyFail, vars

-----------------------------------------------------------------------------
(* Every step keeps a used code used and a queued code issued. *)
LEMMA VerifyInvStep == IInv /\ [Next]_vars => VerifyInv' /\ SentCodeWasIssued'
<1> DEFINE Goal == VerifyInv' /\ SentCodeWasIssued'
<1> SUFFICES ASSUME IInv, [Next]_vars PROVE Goal
  OBVIOUS
<1>0. TypeOK /\ RequestInv /\ VerifyInv /\ SentCodeWasIssued
  BY DEF IInv, RequestInv, VerifyInv
<1>1. CASE UNCHANGED <<otp, ver, enqueued, opened>>
  BY <1>0, <1>1 DEF VerifyInv, GuessedRow, SingleUse, SentCodeWasIssued
<1>2. ASSUME NEW r \in Requester, RequestInsert(r) PROVE Goal
  <2>1. PICK i \in Unused :
          otp' = [otp EXCEPT ![i] = [user |-> tx[r].user, state |-> "pending",
                                     attempts |-> 0, age |-> "valid"]]
    BY <1>2 DEF RequestInsert
  <2>2. i \in Id /\ otp[i].state = "none"
    BY DEF Unused
  <2> QED
    BY <1>0, <1>2, <2>1, <2>2, VerifyUndisturbed
    DEF RequestInsert, VerifyInv, GuessedRow, TypeOK, Row, RowStates
<1>3. ASSUME NEW r \in Requester, RequestCommit(r) PROVE Goal
  <2>1. \A i \in Id : i \in tx[r].rows => otp[i].state = "active"
    BY <1>0 DEF RequestInv, RetiredHeld
  <2>2. \A i \in Id :
          IF otp[i].state \in {"none", "pending"}
          THEN otp'[i].state \in {"none", "pending", "active"} /\ otp'[i].attempts = 0
          ELSE /\ otp'[i].state \notin {"none", "pending"}
               /\ otp'[i].attempts = otp[i].attempts
               /\ otp[i].state # "active" => otp'[i].state \in {"consumed", "deleted"}
    <3>1. otp[tx[r].id].state = "pending"
      BY <1>0, <1>3, CommitRows
    <3>2. \A i \in Id : /\ otp[i].state \in RowStates
                        /\ otp[i].state \in {"none", "pending"} => otp[i].attempts = 0
      BY <1>0 DEF VerifyInv, GuessedRow, TypeOK, Row
    <3>3. \A i \in Id :
            /\ otp'[i].attempts = otp[i].attempts
            /\ otp'[i].state = IF i = tx[r].id THEN "active"
                               ELSE IF i \in tx[r].rows THEN "consumed" ELSE otp[i].state
      BY <1>0, <1>3, CommitRows
    <3> QED
      BY <2>1, <3>1, <3>2, <3>3 DEF RowStates
  <2> QED
    BY <1>0, <1>3, <2>2, VerifyUndisturbed DEF RequestCommit
<1>4. ASSUME NEW r \in Requester, RequestHandOff(r) PROVE Goal
  <2>1. VerifyInv'
    BY <1>0, <1>4 DEF RequestHandOff, VerifyInv, GuessedRow, SingleUse
  <2>2. SentCodeWasIssued'
    BY <1>0, <1>4 DEF RequestHandOff, SentCodeWasIssued, RequestInv, InsertedRow
  <2> QED
    BY <2>1, <2>2
<1>5. ASSUME NEW r \in Requester, RequestFail(r) PROVE Goal
  <2>1. CASE tx[r].pc = "inserted"
    <3>1. tx[r].id \in Id /\ otp[tx[r].id].state = "pending"
      BY <1>0, <2>1 DEF RequestInv, InsertedRow
    <3>2. otp' = [otp EXCEPT ![tx[r].id] = NoRow]
      BY <1>5, <2>1 DEF RequestFail, RolledBack
    <3> QED
      BY <1>0, <1>5, <3>1, <3>2, VerifyUndisturbed
      DEF RequestFail, NoRow, VerifyInv, GuessedRow, TypeOK, Row, RowStates
  <2>2. CASE tx[r].pc # "inserted"
    BY <1>1, <1>5, <2>2 DEF RequestFail, RolledBack
  <2> QED
    BY <2>1, <2>2
<1>6. ASSUME NEW v \in Verifier, NEW u \in User, VerifyFound(v, u) PROVE Goal
  <2>1. GuessedRow'
    BY <1>0, <1>6 DEF VerifyFound, ActiveRows, VerifyInv, GuessedRow, TypeOK, Ver
  <2>2. SingleUse'
    BY <1>0, <1>6 DEF VerifyFound, VerifyInv, SingleUse, TypeOK, Ver
  <2> QED
    BY <1>0, <1>6, <2>1, <2>2 DEF VerifyFound, VerifyInv, SentCodeWasIssued
<1>7. ASSUME NEW v \in Verifier, Answer(v), UNCHANGED <<otp, enqueued, opened>> PROVE Goal
  <2>1. GuessedRow'
    BY <1>0, <1>7 DEF Answer, NoVer, VerifyInv, GuessedRow, TypeOK, Ver
  <2>2. SingleUse'
    BY <1>0, <1>7 DEF Answer, NoVer, VerifyInv, SingleUse, TypeOK, Ver
  <2> QED
    BY <1>0, <1>7, <2>1, <2>2 DEF VerifyInv, SentCodeWasIssued
<1>8. ASSUME NEW v \in Verifier, Claim(v), UNCHANGED <<tx, enqueued, opened>>,
             Answer(v) \/ ver' = [ver EXCEPT ![v].pc = "consume"]
      PROVE  Goal
  <2>1. /\ otp[ver[v].id].state = "active" /\ ver[v].id \in Id
        /\ \A i \in Id :
             /\ otp'[i].state = otp[i].state
             /\ otp'[i].attempts = IF i = ver[v].id THEN otp[i].attempts + 1
                                   ELSE otp[i].attempts
    BY <1>0, <1>8 DEF Claim, Claimable, VerifyInv, GuessedRow, TypeOK, Row
  <2>2. \A i \in Id : otp[i].attempts \in Nat
    BY <1>0, MaxAttemptsAssumption DEF TypeOK, Row
  <2>3. GuessedRow'
    BY <1>0, <1>8, <2>1, <2>2 DEF Claim, Answer, NoVer, VerifyInv, GuessedRow, TypeOK, Ver
  <2>4. SingleUse'
    BY <1>0, <1>8 DEF Answer, NoVer, VerifyInv, SingleUse, TypeOK, Ver
  <2> QED
    BY <1>0, <1>8, <2>1, <2>3, <2>4 DEF VerifyInv, SentCodeWasIssued, TypeOK
<1>9. ASSUME NEW v \in Verifier, VerifyConsume(v) PROVE Goal
  <2>1. /\ otp[ver[v].id].state = "active" /\ ver[v].id \in Id
        /\ \A i \in Id :
             /\ otp'[i].state = IF i = ver[v].id THEN "consumed" ELSE otp[i].state
             /\ otp'[i].attempts = otp[i].attempts
    BY <1>0, <1>9 DEF VerifyConsume, Consumable, VerifyInv, GuessedRow, TypeOK, Row
  <2>2. opened[ver[v].id] = 0
    BY <1>0, <2>1 DEF VerifyInv, GuessedRow
  <2>3. GuessedRow'
    BY <1>0, <1>9, <2>1 DEF VerifyConsume, VerifyInv, GuessedRow, TypeOK, Ver
  <2>4. SingleUse'
    BY <1>0, <1>9, <2>1, <2>2
    DEF VerifyConsume, VerifyInv, SingleUse, GuessedRow, TypeOK, Ver
  <2> QED
    BY <1>0, <1>9, <2>1, <2>3, <2>4 DEF VerifyConsume, VerifyInv, SentCodeWasIssued, TypeOK
<1>10. ASSUME NEW v \in Verifier, VerifySession(v) PROVE Goal
  <2>1. /\ ver[v].id \in Id /\ opened[ver[v].id] = 0
        /\ otp[ver[v].id].state \in {"consumed", "deleted"}
    BY <1>0, <1>10 DEF VerifySession, VerifyInv, GuessedRow, SingleUse
  <2>2. GuessedRow'
    BY <1>0, <1>10, <2>1
    DEF VerifySession, Answer, NoVer, VerifyInv, GuessedRow, TypeOK, Ver
  <2>3. SingleUse'
    BY <1>0, <1>10, <2>1 DEF VerifySession, Answer, NoVer, VerifyInv, SingleUse, TypeOK, Ver
  <2> QED
    BY <1>0, <1>10, <2>2, <2>3 DEF VerifySession, VerifyInv, SentCodeWasIssued
<1>11. ASSUME NEW i \in Id, Tick(i) PROVE Goal
  <2>1. \A j \in Id : otp'[j].state = otp[j].state /\ otp'[j].attempts = otp[j].attempts
    BY <1>0, <1>11 DEF Tick, TypeOK, Row
  <2> QED
    BY <1>0, <1>11, <2>1, VerifyUndisturbed
    DEF Tick, VerifyInv, GuessedRow, TypeOK, Row, RowStates
<1>12. CASE Cleanup
  <2>1. \A i \in Id : /\ otp'[i].state = IF Deletable(i) THEN "deleted" ELSE otp[i].state
                      /\ otp'[i].attempts = otp[i].attempts
    BY <1>0, <1>12 DEF Cleanup, TypeOK, Row
  <2> QED
    BY <1>0, <1>12, <2>1, VerifyUndisturbed
    DEF Cleanup, Deletable, VerifyInv, GuessedRow, TypeOK, Row, RowStates
<1>13. ASSUME NEW v \in Verifier, ClaimStep(v) \/ VerifyLost(v) \/ VerifyFail(v) PROVE Goal
  BY <1>7, <1>8, <1>13
  DEF ClaimStep, VerifyLocked, VerifyIncorrect, VerifyCorrect, VerifyLost, VerifyFail
<1>14. ASSUME NEW r \in Requester,
              (\E u \in User : RequestBegin(r, u)) \/ RequestLock(r) \/ RequestRetire(r)
       PROVE  Goal
  BY <1>1, <1>14 DEF RequestBegin, RequestLock, RequestRetire
<1>15. CASE UNCHANGED vars
  BY <1>1, <1>15 DEF vars
<1> QED
  BY <1>2, <1>3, <1>4, <1>5, <1>6, <1>9, <1>10, <1>11, <1>12, <1>13, <1>14, <1>15
  DEF Next, RequestStep, ConsumeStep, VerifyNotFound, VerifyExpired

-----------------------------------------------------------------------------
\* The invariant holds of the empty table.
LEMMA InitIInv == Init => IInv
  BY MaxAttemptsAssumption
  DEF Init, IInv, TypeOK, NoRow, NoTx, NoVer, Row, RowStates, Ages, Tx, TxStages, Ver,
      VerStages, LockExclusive, InTx, RetiredHeld, RetiredCovers, ActiveRows,
      InsertedRow, GuessedRow, OneActiveCode, SingleUse, SentCodeWasIssued

(* The invariant holds of every behaviour of the code, for any number of
   users, codes, handlers and attempts. *)
THEOREM Invariant == Spec => []IInv
<1>1. IInv /\ [Next]_vars => IInv'
  <2> SUFFICES ASSUME IInv, [Next]_vars PROVE IInv'
    OBVIOUS
  <2>1. TypeOK'
    BY TypeStep DEF IInv
  <2>2. RequestInv'
    BY RequestInvStep
  <2>3. VerifyInv' /\ SentCodeWasIssued'
    BY VerifyInvStep
  <2> QED
    BY <2>1, <2>2, <2>3 DEF IInv, RequestInv, VerifyInv
<1> QED
  BY InitIInv, <1>1, PTL DEF Spec

(* Types: in particular no code is ever guessed more than MaxAttempts times. *)
THEOREM TypeCorrect == Spec => []TypeOK
<1>1. IInv => TypeOK
  BY DEF IInv
<1> QED
  BY Invariant, <1>1, PTL

(* A user never has two active codes (the advisory lock of app.ts:669). *)
THEOREM OneActiveCodeAlways == Spec => []OneActiveCode
<1>1. IInv => OneActiveCode
  BY DEF IInv
<1> QED
  BY Invariant, <1>1, PTL

(* A code opens at most one session (the conditional update of app.ts:740). *)
THEOREM SingleUseAlways == Spec => []SingleUse
<1>1. IInv => SingleUse
  BY DEF IInv
<1> QED
  BY Invariant, <1>1, PTL

(* Only committed codes are handed to the queue (app.ts:668 before 685). *)
THEOREM SentCodeWasIssuedAlways == Spec => []SentCodeWasIssued
<1>1. IInv => SentCodeWasIssued
  BY DEF IInv
<1> QED
  BY Invariant, <1>1, PTL

-----------------------------------------------------------------------------
\* Only a consume and cleanup take a row of the user away without a new one.
LEMMA KeepStep == IInv /\ [Next]_vars => [\A u \in User : CodeKept(u)]_vars
<1> SUFFICES ASSUME IInv, Next, NEW w \in User PROVE CodeKept(w)
  BY DEF CodeKept
<1>0. TypeOK /\ RequestInv /\ VerifyInv
  BY DEF IInv, RequestInv, VerifyInv
<1>1. CASE \A i \in Id : otp[i].state = "active" =>
             otp'[i].state = "active" /\ otp'[i].user = otp[i].user
  BY <1>1 DEF CodeKept, ActiveRows
<1>2. CASE UNCHANGED otp
  BY <1>1, <1>2
<1>3. ASSUME NEW r \in Requester, RequestInsert(r) PROVE CodeKept(w)
  <2>1. PICK i \in Unused :
          otp' = [otp EXCEPT ![i] = [user |-> tx[r].user, state |-> "pending",
                                     attempts |-> 0, age |-> "valid"]]
    BY <1>3 DEF RequestInsert
  <2> QED
    BY <1>0, <1>1, <2>1 DEF Unused, TypeOK
<1>4. ASSUME NEW r \in Requester, RequestCommit(r) PROVE CodeKept(w)
  <2>1. /\ tx[r].id \in Id /\ otp[tx[r].id].user = tx[r].user
        /\ tx[r].rows = ActiveRows(tx[r].user)
        /\ \A i \in Id :
             /\ otp'[i].user = otp[i].user
             /\ otp'[i].state = IF i = tx[r].id THEN "active"
                                ELSE IF i \in tx[r].rows THEN "consumed" ELSE otp[i].state
    BY <1>0, <1>4, CommitRows
  <2>2. w = tx[r].user => ActiveRows(w)' # {}
    BY <2>1 DEF ActiveRows
  <2>3. w # tx[r].user => ActiveRows(w) \subseteq ActiveRows(w)'
    BY <2>1 DEF ActiveRows
  <2> QED
    BY <2>2, <2>3 DEF CodeKept
<1>5. ASSUME NEW r \in Requester, RequestFail(r) PROVE CodeKept(w)
  BY <1>0, <1>1, <1>5
  DEF RequestFail, RolledBack, RequestInv, InsertedRow, TypeOK, Row
<1>6. ASSUME NEW v \in Verifier, Claim(v) PROVE CodeKept(w)
  <2>1. \A i \in Id : otp'[i].state = otp[i].state /\ otp'[i].user = otp[i].user
    BY <1>0, <1>6 DEF Claim, TypeOK, Row
  <2> QED
    BY <1>1, <2>1
<1>7. ASSUME NEW v \in Verifier, VerifyConsume(v) PROVE CodeKept(w)
  <2>1. /\ \A i \in Id \ {ver[v].id} : otp'[i].state = otp[i].state /\ otp'[i].user = otp[i].user
        /\ ver[v].pc = "consume" /\ ver'[v].pc = "session"
    BY <1>0, <1>7 DEF VerifyConsume, TypeOK, Row, Ver
  <2> QED
    BY <2>1 DEF CodeKept, ActiveRows
<1>8. ASSUME NEW i \in Id, Tick(i) PROVE CodeKept(w)
  <2>1. \A j \in Id : otp'[j].state = otp[j].state /\ otp'[j].user = otp[j].user
    BY <1>0, <1>8 DEF Tick, TypeOK, Row
  <2> QED
    BY <1>1, <2>1
<1>9. CASE Cleanup
  <2>1. \A i \in Id : otp[i].state = "active" /\ otp[i].age # "old" =>
                        otp'[i].state = "active" /\ otp'[i].user = otp[i].user
    BY <1>0, <1>9 DEF Cleanup, Deletable, TypeOK, Row
  <2> QED
    BY <2>1 DEF CodeKept, ActiveRows
<1>10. ASSUME NEW r \in Requester, NEW u \in User,
              RequestBegin(r, u) \/ RequestLock(r) \/ RequestRetire(r) \/ RequestHandOff(r)
       PROVE  CodeKept(w)
  BY <1>2, <1>10 DEF RequestBegin, RequestLock, RequestRetire, RequestHandOff
<1>11. ASSUME NEW v \in Verifier, NEW u \in User,
              \/ VerifyNotFound(v, u) \/ VerifyExpired(v, u) \/ VerifyFound(v, u)
              \/ VerifyLocked(v) \/ VerifyLost(v) \/ VerifySession(v) \/ VerifyFail(v)
       PROVE  CodeKept(w)
  BY <1>2, <1>11 DEF VerifyNotFound, VerifyExpired, VerifyFound, VerifyLocked, VerifyLost,
                     VerifySession, VerifyFail, vars
<1> QED
  BY <1>3, <1>4, <1>5, <1>6, <1>7, <1>8, <1>9, <1>10, <1>11
  DEF Next, RequestStep, ClaimStep, ConsumeStep, VerifyIncorrect, VerifyCorrect

(* A user's code is only ever lost to a login or to old age, whatever fails. *)
THEOREM KeepsACodeAlways == Spec => KeepsACode
  BY KeepStep, Invariant, PTL DEF Spec, KeepsACode

-----------------------------------------------------------------------------
(* The refinement: every step of the code is a step of OtpLogin or none. *)
LEMMA SameLogin ==
  ASSUME UNCHANGED opened,
         \A u \in User : ActiveRows(u)' = ActiveRows(u),
         issued' = issued,
         \A i \in Id : otp'[i].attempts = otp[i].attempts,
         winning' = winning
  PROVE  UNCHANGED Login!vars
<1>1. live' = live
  BY DEF live
<1>2. tries' = tries
  BY DEF tries
<1> QED
  BY <1>1, <1>2 DEF Login!vars

\* The empty table is the initial state of OtpLogin.
LEMMA InitLogin == Init => Login!Init
  BY DEF Init, NoRow, NoTx, NoVer, Login!Init, live, issued, tries, winning, ActiveRows

\* A commit issues, a claim guesses, a consume accepts, createSession opens,
\* cleanup forgets; every other step is invisible to OtpLogin.
LEMMA LoginStep == IInv /\ [Next]_vars => [Login!Next]_(Login!vars)
<1> DEFINE Goal == [Login!Next]_(Login!vars)
<1> SUFFICES ASSUME IInv, [Next]_vars PROVE Goal
  OBVIOUS
<1>0. TypeOK /\ RequestInv /\ VerifyInv
  BY DEF IInv, RequestInv, VerifyInv
<1>1. CASE UNCHANGED <<otp, ver, opened>>
  BY <1>1, SameLogin DEF ActiveRows, issued, winning
<1>2. ASSUME NEW r \in Requester, RequestInsert(r) PROVE Goal
  <2>1. PICK i \in Unused :
          otp' = [otp EXCEPT ![i] = [user |-> tx[r].user, state |-> "pending",
                                     attempts |-> 0, age |-> "valid"]]
    BY <1>2 DEF RequestInsert
  <2>2. i \in Id /\ otp[i].state = "none" /\ otp[i].attempts = 0
    BY <1>0 DEF Unused, VerifyInv, GuessedRow
  <2> QED
    BY <1>0, <1>2, <2>1, <2>2, SameLogin
    DEF RequestInsert, ActiveRows, issued, winning, TypeOK
<1>3. ASSUME NEW r \in Requester, RequestCommit(r) PROVE Goal
  <2> DEFINE u == tx[r].user
             i == tx[r].id
  <2>0. /\ i \in Id /\ otp[i].state = "pending" /\ otp[i].user = u /\ u \in User
        /\ tx[r].rows = ActiveRows(u)
        /\ \A j \in Id :
             /\ otp'[j].user = otp[j].user
             /\ otp'[j].attempts = otp[j].attempts
             /\ otp'[j].state = IF j = i THEN "active"
                                ELSE IF j \in tx[r].rows THEN "consumed" ELSE otp[j].state
    BY <1>0, <1>3, CommitRows
  <2>1. i \notin issued /\ issued' = issued \cup {i}
    BY <2>0 DEF issued, ActiveRows
  <2>2. \A w \in User : ActiveRows(w)' = IF w = u THEN {i} ELSE ActiveRows(w)
    BY <2>0 DEF ActiveRows
  <2>3. live' = [live EXCEPT ![u] = {i}]
    BY <2>2 DEF live
  <2>4. tries' = tries /\ winning' = winning /\ opened' = opened
    BY <1>3, <2>0 DEF RequestCommit, tries, winning
  <2>5. Login!Issue(u, i)
    BY <2>1, <2>3, <2>4 DEF Login!Issue
  <2> QED
    BY <2>0, <2>5 DEF Login!Next
<1>4. ASSUME NEW r \in Requester, RequestFail(r) PROVE Goal
  <2>1. CASE tx[r].pc = "inserted"
    <3>1. /\ tx[r].id \in Id /\ otp[tx[r].id].state = "pending"
          /\ otp[tx[r].id].attempts = 0
      BY <1>0, <2>1 DEF RequestInv, InsertedRow, VerifyInv, GuessedRow
    <3>2. otp' = [otp EXCEPT ![tx[r].id] = NoRow]
      BY <1>4, <2>1 DEF RequestFail, RolledBack
    <3> QED
      BY <1>0, <1>4, <3>1, <3>2, SameLogin
      DEF RequestFail, NoRow, ActiveRows, issued, winning, TypeOK
  <2>2. CASE tx[r].pc # "inserted"
    BY <1>1, <1>4, <2>2 DEF RequestFail, RolledBack
  <2> QED
    BY <2>1, <2>2
<1>5. ASSUME NEW v \in Verifier, NEW u \in User, VerifyFound(v, u) PROVE Goal
  <2>1. winning' = winning
    BY <1>0, <1>5 DEF VerifyFound, winning, TypeOK, Ver
  <2> QED
    BY <1>5, <2>1, SameLogin DEF VerifyFound, ActiveRows, issued
<1>6. ASSUME NEW v \in Verifier, VerifyLocked(v) \/ VerifyLost(v) PROVE Goal
  <2>1. winning' = winning
    BY <1>0, <1>6 DEF VerifyLocked, VerifyLost, Answer, NoVer, winning, TypeOK, Ver
  <2> QED
    BY <1>6, <2>1, SameLogin DEF VerifyLocked, VerifyLost, ActiveRows, issued
<1>7. ASSUME NEW v \in Verifier, VerifyIncorrect(v) \/ VerifyCorrect(v) PROVE Goal
  <2> DEFINE i == ver[v].id
             u == otp[i].user
  <2>1. /\ i \in Id /\ otp[i].state = "active" /\ otp[i].attempts < MaxAttempts
        /\ u \in User
        /\ \A j \in Id :
             /\ otp'[j].user = otp[j].user /\ otp'[j].state = otp[j].state
             /\ otp'[j].attempts = IF j = i THEN otp[i].attempts + 1 ELSE otp[j].attempts
    BY <1>0, <1>7 DEF VerifyIncorrect, VerifyCorrect, Claim, Claimable, VerifyInv,
                      GuessedRow, RequestInv, InsertedRow, TypeOK, Row
  <2>2. i \in live[u] /\ tries[i] < MaxAttempts
    BY <2>1 DEF live, tries, ActiveRows
  <2>3. live' = live /\ issued' = issued
    BY <2>1 DEF live, issued, ActiveRows
  <2>4. tries' = [tries EXCEPT ![i] = @ + 1]
    BY <2>1 DEF tries
  <2>5. winning' = winning /\ opened' = opened
    BY <1>0, <1>7
    DEF VerifyIncorrect, VerifyCorrect, Claim, Answer, NoVer, winning, TypeOK, Ver
  <2>6. Login!Guess(u, i)
    BY <2>2, <2>3, <2>4, <2>5 DEF Login!Guess
  <2> QED
    BY <2>1, <2>6 DEF Login!Next
<1>8. ASSUME NEW v \in Verifier, VerifyConsume(v) PROVE Goal
  <2> DEFINE i == ver[v].id
             u == otp[i].user
  <2>1. /\ i \in Id /\ otp[i].state = "active" /\ otp[i].attempts > 0 /\ u \in User
        /\ \A j \in Id :
             /\ otp'[j].user = otp[j].user /\ otp'[j].attempts = otp[j].attempts
             /\ otp'[j].state = IF j = i THEN "consumed" ELSE otp[j].state
    BY <1>0, <1>8 DEF VerifyConsume, Consumable, VerifyInv, GuessedRow, RequestInv,
                      InsertedRow, TypeOK, Row
  <2>2. i \in live[u] /\ tries[i] > 0
    BY <2>1 DEF live, tries, ActiveRows
  <2>3. \A w \in User : ActiveRows(w)' = IF w = u THEN {} ELSE ActiveRows(w)
    BY <1>0, <2>1 DEF ActiveRows, RequestInv, OneActiveCode
  <2>4. live' = [live EXCEPT ![u] = {}]
    BY <2>3 DEF live
  <2>5. issued' = issued /\ tries' = tries /\ opened' = opened
    BY <1>8, <2>1 DEF VerifyConsume, issued, tries
  <2>6. winning' = winning \cup {i}
    BY <1>0, <1>8, <2>1 DEF VerifyConsume, winning, TypeOK, Ver
  <2>7. Login!Accept(u, i)
    BY <2>2, <2>4, <2>5, <2>6 DEF Login!Accept
  <2> QED
    BY <2>1, <2>7 DEF Login!Next
<1>9. ASSUME NEW v \in Verifier, Answer(v), ver[v].pc = "session", UNCHANGED otp
      PROVE  /\ ver[v].id \in winning /\ ver[v].id \in Id
             /\ winning' = winning \ {ver[v].id}
             /\ live' = live /\ issued' = issued /\ tries' = tries
  <2>1. ver[v].id \in winning /\ ver[v].id \in Id
    BY <1>0, <1>9 DEF winning, VerifyInv, GuessedRow
  <2>2. winning' = winning \ {ver[v].id}
    BY <1>0, <1>9, <2>1 DEF Answer, NoVer, winning, VerifyInv, SingleUse, TypeOK, Ver
  <2> QED
    BY <1>9, <2>1, <2>2 DEF live, issued, tries, ActiveRows
<1>10. ASSUME NEW v \in Verifier, VerifySession(v) PROVE Goal
  <2>1. Login!OpenSession(ver[v].id)
    BY <1>9, <1>10 DEF VerifySession, Login!OpenSession
  <2> QED
    BY <1>9, <1>10, <2>1 DEF VerifySession, Login!Next
<1>11. ASSUME NEW v \in Verifier, VerifyFail(v) PROVE Goal
  <2>1. CASE ver[v].pc = "session"
    <3>1. Login!LoseLogin(ver[v].id)
      BY <1>9, <1>11, <2>1 DEF VerifyFail, Login!LoseLogin
    <3> QED
      BY <1>9, <1>11, <2>1, <3>1 DEF VerifyFail, Login!Next
  <2>2. CASE ver[v].pc # "session"
    <3>1. winning' = winning
      BY <1>0, <1>11, <2>2 DEF VerifyFail, Answer, NoVer, winning, TypeOK, Ver
    <3> QED
      BY <1>11, <3>1, SameLogin DEF VerifyFail, ActiveRows, issued
  <2> QED
    BY <2>1, <2>2
<1>12. ASSUME NEW i \in Id, Tick(i) PROVE Goal
  <2>1. \A j \in Id : /\ otp'[j].state = otp[j].state /\ otp'[j].user = otp[j].user
                      /\ otp'[j].attempts = otp[j].attempts
    BY <1>0, <1>12 DEF Tick, TypeOK, Row
  <2> QED
    BY <1>12, <2>1, SameLogin DEF Tick, ActiveRows, issued, winning
<1>13. CASE Cleanup
  <2> DEFINE old == {i \in Id : Deletable(i)}
  <2>1. \A i \in Id : /\ otp'[i].user = otp[i].user
                      /\ otp'[i].state = IF Deletable(i) THEN "deleted" ELSE otp[i].state
                      /\ otp'[i].attempts = otp[i].attempts
    BY <1>0, <1>13 DEF Cleanup, TypeOK, Row
  <2>2. \A u \in User : ActiveRows(u)' = ActiveRows(u) \ old
    BY <2>1 DEF ActiveRows
  <2>3. live' = [u \in User |-> live[u] \ old]
    BY <2>2 DEF live
  <2>4. issued' = issued /\ tries' = tries /\ winning' = winning /\ opened' = opened
    BY <1>13, <2>1 DEF Cleanup, Deletable, issued, tries, winning
  <2>5. Login!Forget(old)
    BY <2>3, <2>4 DEF Login!Forget
  <2> QED
    BY <2>5 DEF Login!Next
<1>14. ASSUME NEW r \in Requester,
              \/ \E u \in User : RequestBegin(r, u)
              \/ RequestLock(r) \/ RequestRetire(r) \/ RequestHandOff(r)
       PROVE  Goal
  BY <1>1, <1>14 DEF RequestBegin, RequestLock, RequestRetire, RequestHandOff
<1>15. CASE UNCHANGED vars
  BY <1>1, <1>15 DEF vars
<1> QED
  BY <1>2, <1>3, <1>4, <1>5, <1>6, <1>7, <1>8, <1>10, <1>11, <1>12, <1>13, <1>14, <1>15
  DEF Next, RequestStep, ClaimStep, ConsumeStep, VerifyNotFound, VerifyExpired

(* The code implements the promise of OtpLogin, for any number of users, codes,
   handlers and attempts. *)
THEOREM Refinement == Spec => ImplementsOtpLogin
  BY InitLogin, LoginStep, Invariant, PTL DEF Spec, ImplementsOtpLogin, Login!Spec
=============================================================================
