------------------------- MODULE AuthLockoutProofs -------------------------
(***************************************************************************)
(* The safety properties of AuthLockout hold for every limit and for any    *)
(* number of concurrent requests of the address.                            *)
(***************************************************************************)
EXTENDS AuthLockout, FiniteSetTheorems, TLAPS

(* Requests that began locked out are in a window that still is. *)
LateLocked == late # {} => count >= Limit

IInv == TypeOK /\ BoundedOvershoot /\ LateRefused /\ LateLocked

-----------------------------------------------------------------------------
\* The requests let through are no more than the requests of the address.
LEMMA PassedCount ==
  /\ IsFiniteSet(Passed)
  /\ Cardinality(Passed) \in Nat
  /\ Cardinality(Passed) <= Cardinality(Caller)
<1>1. Passed \in SUBSET Caller
  BY DEF Passed
<1>2. IsFiniteSet(Passed) /\ Cardinality(Passed) <= Cardinality(Caller)
  BY <1>1, CallerAssumption, FS_Subset
<1> QED
  BY <1>2, FS_CardinalityType

\* The bound on the counter is a number, and leaves room for all the requests.
LEMMA MaxCountType ==
  MaxCount \in Nat /\ Cardinality(Caller) \in Nat /\ MaxCount = Limit - 1 + Cardinality(Caller)
<1>1. Cardinality(Caller) \in Nat
  BY CallerAssumption, FS_CardinalityType
<1> QED
  BY <1>1, LimitAssumption DEF MaxCount

\* A counter within the overshoot is within its type.
LEMMA CountType ==
  ASSUME count \in Nat, BoundedOvershoot
  PROVE  count \in 0..MaxCount
BY PassedCount, MaxCountType DEF BoundedOvershoot

\* Fewer requests let through, the same counter: the overshoot stays bounded.
LEMMA FewerPassed ==
  ASSUME TypeOK, BoundedOvershoot, Passed' \subseteq Passed, count' = count
  PROVE  BoundedOvershoot'
<1>1. IsFiniteSet(Passed') /\ Cardinality(Passed') <= Cardinality(Passed)
  BY PassedCount, FS_Subset
<1>2. Cardinality(Passed') \in Nat
  BY <1>1, FS_CardinalityType
<1>3. count \in Nat
  BY MaxCountType DEF TypeOK
<1>4. count + Cardinality(Passed) <= MaxCount
  BY DEF BoundedOvershoot
<1>5. count + Cardinality(Passed') <= MaxCount
  BY <1>1, <1>2, <1>3, <1>4, PassedCount, MaxCountType
<1> QED
  BY <1>5 DEF BoundedOvershoot, MaxCount

\* One more request let through while the counter is below the limit.
LEMMA OneMorePassed ==
  ASSUME TypeOK, BelowLimit, count' = count
  PROVE  BoundedOvershoot'
<1>1. Passed' \in SUBSET Caller
  BY DEF Passed
<1>2. IsFiniteSet(Passed') /\ Cardinality(Passed') <= Cardinality(Caller)
  BY <1>1, CallerAssumption, FS_Subset
<1>3. Cardinality(Passed') \in Nat
  BY <1>2, FS_CardinalityType
<1>4. count \in Nat /\ count < Limit
  BY MaxCountType DEF TypeOK, BelowLimit
<1>5. count + Cardinality(Passed') <= MaxCount
  BY <1>2, <1>3, <1>4, MaxCountType, LimitAssumption
<1> QED
  BY <1>5 DEF BoundedOvershoot, MaxCount

\* A hit adds one to the counter and takes one from the requests let through.
LEMMA HitCounted ==
  ASSUME TypeOK, BoundedOvershoot, NEW c \in Passed,
         Passed' = Passed \ {c}, count' = count + 1
  PROVE  BoundedOvershoot'
<1>1. Cardinality(Passed') = Cardinality(Passed) - 1
  BY PassedCount, FS_RemoveElement
<1>2. count \in Nat
  BY MaxCountType DEF TypeOK
<1>3. count + Cardinality(Passed) <= MaxCount
  BY DEF BoundedOvershoot
<1>4. (count + 1) + Cardinality(Passed') <= MaxCount
  BY <1>1, <1>2, <1>3, PassedCount, MaxCountType
<1> QED
  BY <1>4 DEF BoundedOvershoot, MaxCount

-----------------------------------------------------------------------------
\* Every step keeps the types, the counter's as far as being a number.
LEMMA TypeStep ==
  ASSUME TypeOK, [Next]_vars
  PROVE  /\ count' \in Nat /\ ttl' \in BOOLEAN
         /\ caller' \in [Caller -> Stages]
         /\ late' \in SUBSET Caller
<1>1. count \in Nat /\ ttl \in BOOLEAN
      /\ caller \in [Caller -> Stages] /\ late \in SUBSET Caller
  BY MaxCountType DEF TypeOK
<1>2. ASSUME NEW c \in Caller, NEW stage \in Stages, Goto(c, stage)
      PROVE  caller' \in [Caller -> Stages]
  BY <1>1, <1>2 DEF Goto
<1>3. {"idle", "peek", "recheck", "verify", "record", "limited", "counted", "write"} \subseteq Stages
  BY DEF Stages
<1>4. CASE UNCHANGED vars
  BY <1>1, <1>4 DEF vars
<1>5. CASE WindowEnds
  BY <1>1, <1>5 DEF WindowEnds
<1>6. ASSUME NEW c \in Caller,
             \/ Begin(c) \/ Peek(c) \/ RecheckPasses(c) \/ RecheckRefuses(c)
             \/ VerifyAccepts(c) \/ VerifyRejects(c) \/ Record(c)
             \/ NotNoted(c) \/ Noted(c) \/ WriteAudit(c) \/ Fail(c)
      PROVE  /\ count' \in Nat /\ ttl' \in BOOLEAN
             /\ caller' \in [Caller -> Stages]
             /\ late' \in SUBSET Caller
  <2>1. \E stage \in Stages : Goto(c, stage)
    BY <1>3, <1>6 DEF Begin, Peek, RecheckPasses, RecheckRefuses, VerifyAccepts,
                      VerifyRejects, Record, NotNoted, Noted, WriteAudit, Fail, Done
  <2>2. caller' \in [Caller -> Stages]
    BY <1>2, <2>1
  <2>3. late' \in SUBSET Caller
    BY <1>1, <1>6 DEF Begin, Peek, RecheckPasses, RecheckRefuses, VerifyAccepts,
                      VerifyRejects, Record, NotNoted, Noted, WriteAudit, Fail, Done
  <2>4. count' \in {count, count + 1}
    BY <1>6 DEF Begin, Peek, RecheckPasses, RecheckRefuses, VerifyAccepts,
                VerifyRejects, Record, NotNoted, Noted, WriteAudit, Fail
  <2>5. ttl' = ttl \/ ttl' = (ttl \/ count = 0)
    BY <1>6, Zenon DEF Begin, Peek, RecheckPasses, RecheckRefuses, VerifyAccepts,
                VerifyRejects, Record, ExpirySet, NotNoted, Noted, WriteAudit, Fail
  <2>6. ttl' \in BOOLEAN
    BY <1>1, <2>5, Zenon
  <2> QED
    BY <1>1, <2>2, <2>3, <2>4, <2>6
<1> QED
  BY <1>4, <1>5, <1>6 DEF Next

\* Every step keeps the overshoot bounded.
LEMMA OvershootStep ==
  ASSUME TypeOK, BoundedOvershoot, [Next]_vars
  PROVE  BoundedOvershoot'
<1>1. caller \in [Caller -> Stages]
  BY DEF TypeOK
<1>2. ASSUME NEW c \in Caller, NEW stage, Goto(c, stage), stage \notin {"verify", "record"}
      PROVE  Passed' = Passed \ {c}
  BY <1>1, <1>2 DEF Goto, Passed
<1>3. CASE UNCHANGED vars
  <2>1. Passed' = Passed /\ count' = count
    BY <1>3 DEF vars, Passed
  <2> QED
    BY <2>1, FewerPassed
<1>4. CASE WindowEnds
  <2>1. Passed' = Passed /\ count' = 0
    BY <1>4 DEF WindowEnds, Passed
  <2>2. 0 + Cardinality(Passed') <= MaxCount
    BY <2>1, PassedCount, MaxCountType, LimitAssumption
  <2> QED
    BY <2>1, <2>2 DEF BoundedOvershoot, MaxCount
<1>5. ASSUME NEW c \in Caller,
             \/ Begin(c) \/ RecheckRefuses(c) \/ VerifyAccepts(c)
             \/ NotNoted(c) \/ Noted(c) \/ WriteAudit(c) \/ Fail(c)
      PROVE  BoundedOvershoot'
  <2>1. \E stage \in Stages \ {"verify", "record"} : Goto(c, stage)
    BY <1>5 DEF Begin, RecheckRefuses, VerifyAccepts, NotNoted, Noted, WriteAudit,
                Fail, Done, Stages
  <2>2. count' = count
    BY <1>5 DEF Begin, RecheckRefuses, VerifyAccepts, NotNoted, Noted, WriteAudit, Fail
  <2>3. Passed' = Passed \ {c}
    BY <1>2, <2>1
  <2> QED
    BY <2>2, <2>3, FewerPassed
<1>6. ASSUME NEW c \in Caller, VerifyRejects(c)
      PROVE  BoundedOvershoot'
  <2>1. Passed' = Passed /\ count' = count
    BY <1>1, <1>6 DEF VerifyRejects, Goto, Passed
  <2> QED
    BY <2>1, FewerPassed
<1>7. ASSUME NEW c \in Caller, Peek(c)
      PROVE  BoundedOvershoot'
  <2>1. count' = count
    BY <1>7 DEF Peek
  <2>2. CASE BelowLimit
    BY <2>1, <2>2, OneMorePassed
  <2>3. CASE ~BelowLimit
    <3>1. Goto(c, "recheck")
      BY <1>7, <2>3 DEF Peek
    <3>2. Passed' = Passed \ {c}
      BY <1>2, <3>1
    <3> QED
      BY <2>1, <3>2, FewerPassed
  <2> QED
    BY <2>2, <2>3
<1>8. ASSUME NEW c \in Caller, RecheckPasses(c)
      PROVE  BoundedOvershoot'
  BY <1>8, OneMorePassed DEF RecheckPasses
<1>9. ASSUME NEW c \in Caller, Record(c)
      PROVE  BoundedOvershoot'
  <2>1. c \in Passed /\ count' = count + 1
    BY <1>9 DEF Record, Passed
  <2>2. Goto(c, "limited") \/ Goto(c, "counted")
    BY <1>9 DEF Record
  <2>3. Passed' = Passed \ {c}
    BY <1>2, <2>2
  <2> QED
    BY <2>1, <2>3, HitCounted
<1> QED
  BY <1>3, <1>4, <1>5, <1>6, <1>7, <1>8, <1>9 DEF Next

\* Every step keeps the requests that began locked out at the two reads.
LEMMA LateStep ==
  ASSUME TypeOK, LateRefused, LateLocked, [Next]_vars
  PROVE  LateRefused' /\ LateLocked'
<1>1. caller \in [Caller -> Stages] /\ late \in SUBSET Caller /\ count \in Nat /\ Limit \in Nat
  BY MaxCountType, LimitAssumption DEF TypeOK
<1>2. CASE UNCHANGED vars
  BY <1>2 DEF vars, LateRefused, LateLocked
<1>3. CASE WindowEnds
  BY <1>3 DEF WindowEnds, LateRefused, LateLocked
<1>4. ASSUME NEW c \in Caller, Begin(c)
      PROVE  LateRefused' /\ LateLocked'
  BY <1>1, <1>4 DEF Begin, Goto, LateRefused, LateLocked
<1>5. ASSUME NEW c \in Caller, Peek(c)
      PROVE  LateRefused' /\ LateLocked'
  <2>1. CASE BelowLimit
    <3>1. late = {} /\ late' = {}
      BY <1>1, <1>5, <2>1 DEF Peek, BelowLimit, LateLocked
    <3> QED
      BY <3>1 DEF LateRefused, LateLocked
  <2>2. CASE ~BelowLimit
    BY <1>1, <1>5, <2>2 DEF Peek, Goto, LateRefused, LateLocked
  <2> QED
    BY <2>1, <2>2
<1>6. ASSUME NEW c \in Caller, RecheckPasses(c)
      PROVE  LateRefused' /\ LateLocked'
  <2>1. late = {} /\ late' = {}
    BY <1>1, <1>6 DEF RecheckPasses, BelowLimit, LateLocked
  <2> QED
    BY <2>1 DEF LateRefused, LateLocked
<1>7. ASSUME NEW c \in Caller,
             \/ RecheckRefuses(c) \/ VerifyAccepts(c) \/ NotNoted(c)
             \/ WriteAudit(c) \/ Fail(c)
      PROVE  LateRefused' /\ LateLocked'
  <2>1. count' = count /\ late' = late \ {c} /\ Goto(c, "idle")
    BY <1>7 DEF RecheckRefuses, VerifyAccepts, NotNoted, WriteAudit, Fail, Done
  <2> QED
    BY <1>1, <2>1 DEF Goto, LateRefused, LateLocked
<1>8. ASSUME NEW c \in Caller, VerifyRejects(c) \/ Noted(c)
      PROVE  LateRefused' /\ LateLocked'
  <2>1. c \notin late
    BY <1>8 DEF VerifyRejects, Noted, LateRefused
  <2>2. count' = count /\ late' = late /\ \E stage : Goto(c, stage)
    BY <1>8 DEF VerifyRejects, Noted
  <2> QED
    BY <1>1, <2>1, <2>2 DEF Goto, LateRefused, LateLocked
<1>9. ASSUME NEW c \in Caller, Record(c)
      PROVE  LateRefused' /\ LateLocked'
  <2>1. c \notin late
    BY <1>9 DEF Record, LateRefused
  <2>2. count' = count + 1 /\ late' = late /\ \E stage : Goto(c, stage)
    BY <1>9 DEF Record
  <2> QED
    BY <1>1, <2>1, <2>2 DEF Goto, LateRefused, LateLocked
<1> QED
  BY <1>2, <1>3, <1>4, <1>5, <1>6, <1>7, <1>8, <1>9 DEF Next

\* The invariant holds at the start.
LEMMA InitInv == Init => IInv
<1> SUFFICES ASSUME Init PROVE IInv
  OBVIOUS
<1>1. Passed = {}
  BY DEF Init, Passed
<1>2. Cardinality(Passed) = 0
  BY <1>1, FS_EmptySet
<1>3. count = 0
  BY DEF Init
<1>4. BoundedOvershoot
  BY <1>2, <1>3, MaxCountType DEF BoundedOvershoot
<1>5. TypeOK
  <2>1. count \in 0..MaxCount
    BY <1>3, <1>4, CountType
  <2>2. "idle" \in Stages
    BY DEF Stages
  <2>3. caller \in [Caller -> Stages]
    BY <2>2 DEF Init
  <2> QED
    BY <2>1, <2>3 DEF Init, TypeOK
<1>6. LateRefused /\ LateLocked
  BY DEF Init, LateRefused, LateLocked
<1> QED
  BY <1>4, <1>5, <1>6 DEF IInv

\* Every step keeps the invariant.
LEMMA InvStep == IInv /\ [Next]_vars => IInv'
<1> SUFFICES ASSUME IInv, [Next]_vars PROVE IInv'
  OBVIOUS
<1> USE DEF IInv
<1>1. BoundedOvershoot'
  BY OvershootStep
<1>2. LateRefused' /\ LateLocked'
  BY LateStep
<1>3. count' \in (0..MaxCount)'
  <2>1. count' \in Nat
    BY TypeStep
  <2>2. Cardinality(Passed') \in Nat
    <3>1. Passed' \in SUBSET Caller
      BY DEF Passed
    <3>2. IsFiniteSet(Passed')
      BY <3>1, CallerAssumption, FS_Subset
    <3> QED
      BY <3>2, FS_CardinalityType
  <2>3. count' + Cardinality(Passed') <= MaxCount
    BY <1>1 DEF BoundedOvershoot, MaxCount
  <2> QED
    BY <2>1, <2>2, <2>3, MaxCountType DEF MaxCount
<1>4. TypeOK'
  BY <1>3, TypeStep DEF TypeOK, Stages
<1> QED
  BY <1>1, <1>2, <1>4

-----------------------------------------------------------------------------
(* The invariant holds of every behaviour of authorize and authorizeAdmin. *)
THEOREM Invariant == Spec => []IInv
BY InitInv, InvStep, PTL DEF Spec

(* The types, and with them the bound on the counter, hold always. *)
THEOREM TypeCorrect == Spec => []TypeOK
<1>1. IInv => TypeOK
  BY DEF IInv
<1> QED
  BY <1>1, Invariant, PTL

(* Concurrent guesses overshoot the limit by no more than the other requests
   in flight, for every limit and any number of them. *)
THEOREM BoundedOvershootAlways == Spec => []BoundedOvershoot
<1>1. IInv => BoundedOvershoot
  BY DEF IInv
<1> QED
  BY <1>1, Invariant, PTL

(* A request that begins locked out is never let through in that window. *)
THEOREM LateRefusedAlways == Spec => []LateRefused
<1>1. IInv => LateRefused
  BY DEF IInv
<1> QED
  BY <1>1, Invariant, PTL
=============================================================================
