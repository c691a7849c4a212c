--------------------------- MODULE SessionsProofs ---------------------------
(***************************************************************************)
(* The safety properties of Sessions hold for any number of users, sessions,*)
(* tokens and handlers.  The invariant says that the tokens before the      *)
(* current one, and no others, were exchanged, once each.                   *)
(***************************************************************************)
EXTENDS Sessions, TLAPS

\* A rotation writes a well-formed row: the next token, the last one remembered.
LEMMA RotatedRow ==
  ASSUME TypeOK, NEW s \in Session, row[s].cur < MaxToken
  PROVE  /\ Rotated(s) \in Row
         /\ Rotated(s).cur = row[s].cur + 1 /\ Rotated(s).prev = row[s].cur
         /\ Rotated(s).state = row[s].state
<1>1. row[s] \in Row
  BY DEF TypeOK
<1>2. row[s].cur + 1 \in 0..MaxToken
  BY <1>1, MaxTokenAssumption DEF Row
<1> QED
  BY <1>1, <1>2 DEF Rotated, Row

\* Revoking rows changes their state and nothing else.
LEMMA RevokedRows ==
  ASSUME TypeOK, NEW S, row' = Revoked(S)
  PROVE  /\ row' \in [Session -> Row]
         /\ \A s \in Session :
              /\ row'[s].cur = row[s].cur /\ row'[s].prev = row[s].prev
              /\ row'[s].state = IF s \in S /\ row[s].state = "live" THEN "revoked"
                                 ELSE row[s].state
<1>1. \A s \in Session : row[s] \in Row
  BY DEF TypeOK
<1>2. \A s \in Session : [row[s] EXCEPT !.state = "revoked"] \in Row
  BY <1>1 DEF Row
<1> QED
  BY <1>1, <1>2 DEF Revoked, Row

\* Time changes the age of one row and nothing else.
LEMMA OlderRow ==
  ASSUME TypeOK, NEW s \in Session, Expire(s) \/ Stale(s)
  PROVE  \E new \in Row : /\ row' = [row EXCEPT ![s] = new]
                          /\ new.cur = row[s].cur /\ new.prev = row[s].prev
                          /\ new.state = row[s].state
<1>1. row[s] \in Row
  BY DEF TypeOK
<1>2. CASE Expire(s)
  <2> DEFINE new == [row[s] EXCEPT !.expired = TRUE]
  <2>1. new \in Row /\ new.cur = row[s].cur /\ new.prev = row[s].prev
        /\ new.state = row[s].state
    BY <1>1 DEF Row
  <2>2. row' = [row EXCEPT ![s] = new]
    BY <1>1, <1>2 DEF Expire, TypeOK, Row
  <2> QED
    BY <2>1, <2>2
<1>3. CASE Stale(s)
  <2> DEFINE new == [row[s] EXCEPT !.stale = TRUE]
  <2>1. new \in Row /\ new.cur = row[s].cur /\ new.prev = row[s].prev
        /\ new.state = row[s].state
    BY <1>1 DEF Row
  <2>2. row' = [row EXCEPT ![s] = new]
    BY <1>1, <1>3 DEF Stale, TypeOK, Row
  <2> QED
    BY <2>1, <2>2
<1> QED
  BY <1>2, <1>3

\* A step that mints no token keeps the account of them.
LEMMA NoTokenMinted ==
  ASSUME ExchangedBefore, PrevBehind, UNCHANGED exchanged,
         \A s \in Session : row'[s].cur = row[s].cur /\ row'[s].prev = row[s].prev
  PROVE  ExchangedBefore' /\ PrevBehind'
  BY DEF ExchangedBefore, PrevBehind

\* Nothing else changes who holds what, when no handler starts and no row vanishes.
LEMMA NoTokenHanded ==
  ASSUME HeldMinted, RefreshMinted, UNCHANGED <<held, ref>>,
         \A s \in Session : /\ row'[s].cur = row[s].cur
                            /\ row'[s].state = "none" <=> row[s].state = "none"
  PROVE  HeldMinted' /\ RefreshMinted'
<1>1. HeldMinted'
  BY DEF HeldMinted
<1>2. RefreshMinted'
  BY DEF RefreshMinted
<1> QED
  BY <1>1, <1>2

\* The empty table satisfies the invariant.
LEMMA InitIInv == Init => IInv
  BY MaxTokenAssumption
  DEF Init, IInv, TypeOK, NoRow, NoRef, NoOut, Row, Ref, Out, Token, ExchangedBefore,
      PrevBehind, HeldMinted, RefreshMinted

\* Every step keeps it.
LEMMA StepIInv == IInv /\ [Next]_vars => IInv'
<1> SUFFICES ASSUME IInv, [Next]_vars PROVE IInv'
  OBVIOUS
<1> USE MaxTokenAssumption
<1>0. TypeOK /\ ExchangedBefore /\ PrevBehind /\ HeldMinted /\ RefreshMinted
  BY DEF IInv
<1>1. ASSUME NEW s \in Session, NEW u \in User, CreateSession(s, u) PROVE IInv'
  <2> DEFINE fresh == [user |-> u, state |-> "live", cur |-> 1, prev |-> 0,
                       expired |-> FALSE, stale |-> FALSE]
  <2>1. fresh \in Row /\ row[s].cur = 0
    BY <1>0, <1>1 DEF CreateSession, Row, HeldMinted
  <2>2. row' = [row EXCEPT ![s] = fresh]
    BY <1>1 DEF CreateSession
  <2>3. TypeOK'
    BY <1>0, <1>1, <2>1, <2>2 DEF CreateSession, TypeOK, Token
  <2>4. ExchangedBefore'
    BY <1>0, <1>1, <2>1, <2>2 DEF CreateSession, ExchangedBefore, TypeOK, Token
  <2>5. PrevBehind'
    BY <1>0, <2>2 DEF PrevBehind, TypeOK
  <2>6. HeldMinted'
    BY <1>0, <1>1, <2>2 DEF CreateSession, HeldMinted, TypeOK
  <2>7. RefreshMinted'
    BY <1>0, <1>1, <2>1, <2>2 DEF CreateSession, RefreshMinted, TypeOK, Ref, Token
  <2> QED
    BY <2>3, <2>4, <2>5, <2>6, <2>7 DEF IInv
<1>2. ASSUME NEW h \in Refresher, NEW s \in Session, NEW t \in Token,
             RefreshRotate(h, s, t)
      PROVE  IInv'
  <2>1. row[s].cur = t /\ t < MaxToken /\ row[s].state = "live"
    BY <1>2 DEF RefreshRotate, Rotatable
  <2>2. row' = [row EXCEPT ![s] = Rotated(s)]
    BY <1>2 DEF RefreshRotate
  <2>3. /\ Rotated(s) \in Row /\ Rotated(s).cur = t + 1 /\ Rotated(s).prev = t
        /\ Rotated(s).state = "live"
    BY <1>0, <2>1, RotatedRow
  <2>4. /\ exchanged' \in [Session -> [Token -> Nat]]
        /\ \A r \in Session, k \in Token :
             exchanged'[r][k] = IF r = s /\ k = t THEN exchanged[s][t] + 1
                                ELSE exchanged[r][k]
    <3> DEFINE once == [exchanged[s] EXCEPT ![t] = @ + 1]
    <3>1. once \in [Token -> Nat]
      BY <1>0 DEF TypeOK
    <3>2. \A k \in Token : once[k] = IF k = t THEN exchanged[s][t] + 1 ELSE exchanged[s][k]
      BY <1>0 DEF TypeOK
    <3>3. exchanged' = [exchanged EXCEPT ![s] = once]
      BY <1>2 DEF RefreshRotate
    <3> HIDE DEF once
    <3> QED
      BY <1>0, <3>1, <3>2, <3>3 DEF TypeOK
  <2>5. ref' = [ref EXCEPT ![h] = [pc |-> "load", sid |-> s, tok |-> t]]
    BY <1>2 DEF RefreshRotate
  <2>6. TypeOK'
    BY <1>0, <1>2, <2>2, <2>3, <2>4, <2>5 DEF RefreshRotate, TypeOK, Ref, Token
  <2>7. ExchangedBefore'
    <3>1. \A r \in Session : row'[r].cur = IF r = s THEN t + 1 ELSE row[r].cur
      BY <1>0, <2>2, <2>3 DEF TypeOK
    <3>2. t \in Nat /\ \A k \in Token : k \in Nat
      BY DEF Token
    <3>3. exchanged[s][t] = 0
      BY <1>0, <2>1, <3>2 DEF ExchangedBefore
    <3>4. ASSUME NEW k \in Token PROVE exchanged'[s][k] = IF k < t + 1 THEN 1 ELSE 0
      <4>1. exchanged'[s][k] = IF k = t THEN 1 ELSE exchanged[s][k]
        BY <2>4, <3>3
      <4>2. exchanged[s][k] = IF k < t THEN 1 ELSE 0
        BY <1>0, <2>1 DEF ExchangedBefore
      <4> QED
        BY <3>2, <4>1, <4>2
    <3>5. \A r \in Session, k \in Token : r # s => exchanged'[r][k] = exchanged[r][k]
      BY <2>4
    <3> QED
      BY <1>0, <3>1, <3>4, <3>5 DEF ExchangedBefore
  <2>8. PrevBehind'
    BY <1>0, <2>1, <2>2, <2>3 DEF PrevBehind, TypeOK, Token
  <2>9. \A r \in Session : /\ row'[r].cur = IF r = s THEN t + 1 ELSE row[r].cur
                          /\ row'[r].state = row[r].state
    BY <1>0, <2>1, <2>2, <2>3 DEF TypeOK
  <2>10. t \in Nat /\ held' = held /\ row[s].state # "none"
    BY <1>2, <2>1 DEF RefreshRotate, Token
  <2>11. HeldMinted'
    <3>1. held[s] \subseteq 1..(t + 1)
      BY <1>0, <2>1, <2>10 DEF HeldMinted
    <3> QED
      BY <1>0, <2>9, <2>10, <3>1 DEF HeldMinted
  <2>12. RefreshMinted'
    <3> SUFFICES ASSUME NEW g \in Refresher, ref'[g].pc # "idle"
                 PROVE  /\ ref'[g].sid \in Session /\ ref'[g].tok \in Token
                        /\ row'[ref'[g].sid].state # "none"
                        /\ ref'[g].pc = "load" => ref'[g].tok < row'[ref'[g].sid].cur
      BY DEF RefreshMinted
    <3>1. CASE g = h
      <4>1. ref'[g] = [pc |-> "load", sid |-> s, tok |-> t]
        BY <1>0, <2>5, <3>1 DEF TypeOK
      <4> QED
        BY <2>9, <2>10, <4>1
    <3>2. CASE g # h
      <4>1. /\ ref'[g] = ref[g] /\ ref[g].sid \in Session /\ ref[g].tok \in Token
            /\ row[ref[g].sid].state # "none"
            /\ ref[g].pc = "load" => ref[g].tok < row[ref[g].sid].cur
        BY <1>0, <2>5, <3>2 DEF RefreshMinted, TypeOK
      <4>2. ref[g].tok \in Nat
        BY <4>1 DEF Token
      <4> QED
        BY <2>1, <2>9, <2>10, <4>1, <4>2
    <3> QED
      BY <3>1, <3>2
  <2> QED
    BY <2>6, <2>7, <2>8, <2>11, <2>12 DEF IInv
<1>3. ASSUME NEW h \in Refresher, NEW s \in Session, NEW t \in Token,
             RefreshRefused(h, s, t)
      PROVE  IInv'
  <2>1. TypeOK'
    BY <1>0, <1>3 DEF RefreshRefused, TypeOK, Ref, Token
  <2>2. ExchangedBefore' /\ PrevBehind'
    BY <1>0, <1>3, NoTokenMinted DEF RefreshRefused
  <2>3. HeldMinted'
    BY <1>0, <1>3 DEF RefreshRefused, HeldMinted
  <2>4. row[s].state # "none"
    BY <1>0, <1>3 DEF RefreshRefused, HeldMinted
  <2>5. RefreshMinted'
    BY <1>0, <1>3, <2>4 DEF RefreshRefused, RefreshMinted, TypeOK, Ref
  <2> QED
    BY <2>1, <2>2, <2>3, <2>5 DEF IInv
<1>4. ASSUME NEW h \in Refresher, ref' = [ref EXCEPT ![h] = NoRef],
             UNCHANGED <<row, out, exchanged>>,
             \/ held' = held
             \/ /\ ref[h].pc = "load"
                /\ held' = [held EXCEPT ![ref[h].sid] = @ \cup {ref[h].tok + 1}]
      PROVE  IInv'
  <2>1. ref' \in [Refresher -> Ref]
    BY <1>0, <1>4 DEF TypeOK, NoRef, Ref
  <2>2. RefreshMinted'
    BY <1>0, <1>4 DEF RefreshMinted, TypeOK, NoRef
  <2>3. CASE held' = held
    <3>1. TypeOK'
      BY <1>0, <1>4, <2>1, <2>3 DEF TypeOK
    <3>2. HeldMinted'
      BY <1>0, <1>4, <2>3 DEF HeldMinted
    <3> QED
      BY <1>0, <1>4, <2>2, <3>1, <3>2, NoTokenMinted DEF IInv
  <2>4. CASE /\ ref[h].pc = "load"
             /\ held' = [held EXCEPT ![ref[h].sid] = @ \cup {ref[h].tok + 1}]
    <3> DEFINE s == ref[h].sid
               n == ref[h].tok + 1
    <3>1. s \in Session /\ row[s] \in Row /\ row[s].state # "none"
      BY <1>0, <2>4 DEF RefreshMinted, TypeOK
    <3>2. n \in Token /\ n \in 1..row[s].cur
      BY <1>0, <2>4, <3>1 DEF RefreshMinted, Token, Row
    <3>3. TypeOK'
      BY <1>0, <1>4, <2>1, <2>4, <3>1, <3>2 DEF TypeOK
    <3>4. HeldMinted'
      BY <1>0, <1>4, <2>4, <3>1, <3>2 DEF HeldMinted, TypeOK
    <3> QED
      BY <1>0, <1>4, <2>2, <3>3, <3>4, NoTokenMinted DEF IInv
  <2> QED
    BY <1>4, <2>3, <2>4
<1>5. ASSUME NEW h \in Refresher, RefreshReuse(h) PROVE IInv'
  <2>1. \A s \in Session :
          /\ row'[s] \in Row
          /\ row'[s].cur = row[s].cur /\ row'[s].prev = row[s].prev
          /\ row'[s].state = "none" <=> row[s].state = "none"
    BY <1>0, <1>5 DEF RefreshReuse, Replayed, TypeOK, Row
  <2>2. row' = [s \in Session |-> row'[s]]
    BY <1>5 DEF RefreshReuse
  <2>3. TypeOK'
    BY <1>0, <1>5, <2>1, <2>2 DEF RefreshReuse, TypeOK, NoRef, Ref
  <2>4. HeldMinted'
    BY <1>0, <1>5, <2>1 DEF RefreshReuse, HeldMinted
  <2>5. RefreshMinted'
    BY <1>0, <1>5, <2>1 DEF RefreshReuse, RefreshMinted, TypeOK, NoRef, Ref
  <2> QED
    BY <1>0, <1>5, <2>1, <2>3, <2>4, <2>5, NoTokenMinted DEF RefreshReuse, IInv
<1>6. ASSUME NEW h \in Refresher, RefreshLoad(h) \/ RefreshGone(h) \/ RefreshFail(h)
      PROVE  IInv'
  <2>1. CASE RefreshLoad(h)
    <3>1. PICK handed \in {{}, {ref[h].tok + 1}} :
            held' = [held EXCEPT ![ref[h].sid] = @ \cup handed]
      BY <2>1 DEF RefreshLoad
    <3>2. handed = {} => held' = held
      BY <1>0, <3>1 DEF TypeOK
    <3> QED
      BY <1>4, <2>1, <3>1, <3>2 DEF RefreshLoad
  <2>2. CASE RefreshGone(h) \/ RefreshFail(h)
    BY <1>4, <2>2 DEF RefreshGone, RefreshFail
  <2> QED
    BY <1>6, <2>1, <2>2
<1>7. ASSUME NEW S, row' = Revoked(S), out' \in [Closer -> Out],
             UNCHANGED <<held, ref, exchanged>>
      PROVE  IInv'
  <2>1. \A s \in Session : row'[s].cur = row[s].cur /\ row'[s].prev = row[s].prev
                           /\ (row'[s].state = "none" <=> row[s].state = "none")
    BY <1>0, <1>7, RevokedRows
  <2>2. TypeOK'
    BY <1>0, <1>7, RevokedRows DEF TypeOK
  <2> QED
    BY <1>0, <1>7, <2>1, <2>2, NoTokenMinted, NoTokenHanded DEF IInv
<1>8. ASSUME NEW c \in Closer, NEW s \in Session, LogoutAuthenticated(c, s) PROVE IInv'
  <2>1. TypeOK'
    BY <1>0, <1>8 DEF LogoutAuthenticated, TypeOK, Out
  <2> QED
    BY <1>0, <1>8, <2>1, NoTokenMinted, NoTokenHanded DEF LogoutAuthenticated, IInv
<1>9. ASSUME NEW c \in Closer, LogoutRevoke(c) \/ LogoutFail(c) PROVE IInv'
  <2>1. out' \in [Closer -> Out]
    BY <1>0, <1>9 DEF LogoutRevoke, LogoutFail, NoOut, TypeOK, Out
  <2>2. CASE LogoutRevoke(c)
    BY <1>7, <2>1, <2>2 DEF LogoutRevoke
  <2>3. CASE LogoutFail(c)
    <3>1. TypeOK'
      BY <1>0, <2>1, <2>3 DEF LogoutFail, TypeOK
    <3> QED
      BY <1>0, <2>3, <3>1, NoTokenMinted, NoTokenHanded DEF LogoutFail, IInv
  <2> QED
    BY <1>9, <2>2, <2>3
<1>10. ASSUME NEW u \in User, RevokeAll(u) PROVE IInv'
  BY <1>0, <1>7, <1>10 DEF RevokeAll, TypeOK
<1>11. ASSUME NEW s \in Session, Expire(s) \/ Stale(s) PROVE IInv'
  <2>1. row' \in [Session -> Row]
    BY <1>0, <1>11, OlderRow DEF TypeOK
  <2>2. \A r \in Session : row'[r].cur = row[r].cur /\ row'[r].prev = row[r].prev
                           /\ row'[r].state = row[r].state
    BY <1>0, <1>11, OlderRow DEF TypeOK
  <2>3. TypeOK'
    BY <1>0, <1>11, <2>1 DEF Expire, Stale, TypeOK
  <2> QED
    BY <1>0, <1>11, <2>2, <2>3, NoTokenMinted, NoTokenHanded DEF Expire, Stale, IInv
<1>12. CASE Cleanup
  <2>1. \A s \in Session : row[s] \in Row /\ [row[s] EXCEPT !.state = "deleted"] \in Row
    BY <1>0 DEF TypeOK, Row
  <2>2. row' \in [Session -> Row]
    BY <1>12, <2>1 DEF Cleanup
  <2>3. \A s \in Session : row'[s].cur = row[s].cur /\ row'[s].prev = row[s].prev
                           /\ (row'[s].state = "none" <=> row[s].state = "none")
    BY <1>12, <2>1 DEF Cleanup, Deletable, Exists, Row
  <2>4. TypeOK'
    BY <1>0, <1>12, <2>2 DEF Cleanup, TypeOK
  <2> QED
    BY <1>0, <1>12, <2>3, <2>4, NoTokenMinted, NoTokenHanded DEF Cleanup, IInv
<1>13. CASE UNCHANGED vars
  BY <1>0, <1>13 DEF vars, IInv, TypeOK, ExchangedBefore, PrevBehind, HeldMinted, RefreshMinted
<1> QED
  BY <1>1, <1>2, <1>3, <1>5, <1>6, <1>8, <1>9, <1>10, <1>11, <1>12, <1>13
  DEF Next, RefreshStep

-----------------------------------------------------------------------------
(* The account of the tokens holds of every behaviour, for any number of
   sessions, tokens and handlers. *)
THEOREM Invariant == Spec => []IInv
  BY InitIInv, StepIInv, PTL DEF Spec

(* No refresh token is ever exchanged twice, however many refreshes present it
   at once (the conditional update of session.ts:76-84). *)
THEOREM SingleExchangeAlways == Spec => []SingleExchange
<1>1. IInv => SingleExchange
  BY DEF IInv, ExchangedBefore, SingleExchange
<1> QED
  BY Invariant, <1>1, PTL

(* Reuse detection never ends a session over a token that was not used before. *)
THEOREM NoFalseTheftAlways == Spec => NoFalseTheft
<1>1. IInv /\ [Next]_vars =>
        [\A h \in Refresher, s \in Session :
           RefreshReuse(h) /\ s = ref[h].sid /\ row'[s] # row[s]
           => exchanged[s][ref[h].tok] = 1]_vars
  <2> SUFFICES ASSUME IInv, NEW h \in Refresher, NEW s \in Session,
                      RefreshReuse(h), s = ref[h].sid, row'[s] # row[s]
               PROVE  exchanged[s][ref[h].tok] = 1
    OBVIOUS
  <2>1. Replayed(s, ref[h].tok) /\ ref[h].pc = "reuse"
    BY DEF RefreshReuse
  <2>2. ref[h].tok \in Token /\ row[s] \in Row
    BY <2>1 DEF IInv, RefreshMinted, TypeOK
  <2>3. ref[h].tok < row[s].cur
    BY <2>1, <2>2 DEF IInv, PrevBehind, Replayed, Token, Row
  <2> QED
    BY <2>2, <2>3 DEF IInv, ExchangedBefore
<1> QED
  BY Invariant, <1>1, PTL DEF Spec, NoFalseTheft

(* An answered replay leaves the session live only if the token is at least two
   rotations old. *)
THEOREM ReplayDetectedAlways == Spec => ReplayDetected
<1>1. IInv /\ [Next]_vars =>
        [\A h \in Refresher, s \in Session :
           RefreshReuse(h) /\ s = ref[h].sid /\ exchanged[s][ref[h].tok] = 1
           => row'[s].state # "live" \/ row[s].cur >= ref[h].tok + 2]_vars
  <2> SUFFICES ASSUME IInv, NEW h \in Refresher, NEW s \in Session, RefreshReuse(h),
                      s = ref[h].sid, exchanged[s][ref[h].tok] = 1, row'[s].state = "live"
               PROVE  row[s].cur >= ref[h].tok + 2
    OBVIOUS
  <2>1. ref[h].tok \in Token /\ row[s] \in Row
    BY DEF IInv, RefreshMinted, TypeOK, RefreshReuse
  <2>2. ref[h].tok < row[s].cur
    BY <2>1 DEF IInv, ExchangedBefore
  <2>3. row[s].prev # ref[h].tok
    BY <2>1 DEF RefreshReuse, Replayed, Row
  <2> QED
    BY <2>1, <2>2, <2>3 DEF IInv, PrevBehind, Token, Row
<1> QED
  BY Invariant, <1>1, PTL DEF Spec, ReplayDetected

(* A revoked session stays dead: no refresh in flight exchanges a token of it. *)
THEOREM DeadStaysDeadAlways == Spec => DeadStaysDead
<1> DEFINE Dead(s) == row[s].state \in {"revoked", "deleted"}
           Stays(s) == row'[s].state \in {"revoked", "deleted"} /\ exchanged'[s] = exchanged[s]
<1>1. IInv /\ [Next]_vars => [\A s \in Session : Dead(s) => Stays(s)]_vars
  <2> SUFFICES ASSUME IInv, Next, NEW s \in Session, Dead(s) PROVE Stays(s)
    OBVIOUS
  <2>0. TypeOK
    BY DEF IInv
  <2>1. ASSUME NEW r \in Session, NEW u \in User, CreateSession(r, u) PROVE Stays(s)
    BY <2>0, <2>1 DEF CreateSession, TypeOK
  <2>2. ASSUME NEW h \in Refresher, NEW r \in Session, NEW t \in Token,
               RefreshRotate(h, r, t)
        PROVE  Stays(s)
    BY <2>0, <2>2 DEF RefreshRotate, Rotatable, TypeOK
  <2>3. ASSUME NEW h \in Refresher, RefreshReuse(h) PROVE Stays(s)
    BY <2>0, <2>3 DEF RefreshReuse, Replayed, TypeOK
  <2>4. ASSUME NEW S, row' = Revoked(S), UNCHANGED exchanged PROVE Stays(s)
    BY <2>0, <2>4, RevokedRows
  <2>5. ASSUME NEW r \in Session, Expire(r) \/ Stale(r) PROVE Stays(s)
    BY <2>0, <2>5, OlderRow DEF Expire, Stale, TypeOK
  <2>6. CASE Cleanup
    BY <2>0, <2>6 DEF Cleanup, TypeOK, Row
  <2>7. CASE UNCHANGED <<row, exchanged>>
    BY <2>7
  <2> QED
    BY <2>1, <2>2, <2>3, <2>4, <2>5, <2>6, <2>7
    DEF Next, RefreshStep, RefreshRefused, RefreshLoad, RefreshGone, RefreshFail,
        LogoutAuthenticated, LogoutRevoke, LogoutFail, RevokeAll
<1> QED
  BY Invariant, <1>1, PTL DEF Spec, DeadStaysDead
=============================================================================
