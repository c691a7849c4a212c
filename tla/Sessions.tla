------------------------------ MODULE Sessions ------------------------------
(***************************************************************************)
(* Sessions and refresh tokens, apps/server/src/lib/session.ts and its     *)
(* routes in app.ts: a login opens a session, POST /auth/refresh rotates   *)
(* its refresh token, POST /auth/logout and DELETE .../users/:id/sessions  *)
(* revoke it, the worker's cleanup deletes dead rows.  Every statement of  *)
(* the database is a step of its own; none of these handlers uses a        *)
(* transaction.                                                            *)
(*                                                                         *)
(* The refresh tokens of a session are numbered in the order they are      *)
(* minted: the random secret and its hash only ever serve to tell one      *)
(* token from another.  Whoever was handed a token may present it, as      *)
(* often as they like and at the same time as others.                      *)
(***************************************************************************)
EXTENDS Naturals

CONSTANTS
  User,       \* users of one application
  Session,    \* identifiers of Session rows; their number bounds the logins
  Refresher,  \* concurrent executions of POST /auth/refresh
  Closer,     \* concurrent executions of POST /auth/logout
  MaxToken,   \* bound: the tokens minted for one session
  NoUser, NoSession

ASSUME MaxTokenAssumption == MaxToken \in Nat \ {0}
ASSUME NoUserAssumption == NoUser \notin User
ASSUME NoSessionAssumption == NoSession \notin Session

Token == 1..MaxToken

VARIABLES
  row,        \* the Session table
  held,       \* held[s]: the tokens of s that some client was handed
  ref,        \* ref[h]: the refresh handler h
  out,        \* out[c]: the logout handler c
  exchanged   \* history: how often each token was exchanged for a new one

vars == <<row, held, ref, out, exchanged>>

-----------------------------------------------------------------------------
(* "live": revokedAt is null (the session may be expired).  prev = 0 is
   prevRefreshHash null; stale: revokedAt is more than seven days past. *)
Row == [user : User \cup {NoUser}, state : {"none", "live", "revoked", "deleted"},
        cur : 0..MaxToken, prev : 0..MaxToken, expired : BOOLEAN, stale : BOOLEAN]
NoRow == [user |-> NoUser, state |-> "none", cur |-> 0, prev |-> 0,
          expired |-> FALSE, stale |-> FALSE]

Ref == [pc : {"idle", "reuse", "load"}, sid : Session \cup {NoSession}, tok : 0..MaxToken]
NoRef == [pc |-> "idle", sid |-> NoSession, tok |-> 0]

Out == [pc : {"idle", "revoke"}, sid : Session \cup {NoSession}]
NoOut == [pc |-> "idle", sid |-> NoSession]

TypeOK ==
  /\ row \in [Session -> Row]
  /\ held \in [Session -> SUBSET Token]
  /\ ref \in [Refresher -> Ref]
  /\ out \in [Closer -> Out]
  /\ exchanged \in [Session -> [Token -> Nat]]

Init ==
  /\ row = [s \in Session |-> NoRow]
  /\ held = [s \in Session |-> {}]
  /\ ref = [h \in Refresher |-> NoRef]
  /\ out = [c \in Closer |-> NoOut]
  /\ exchanged = [s \in Session |-> [t \in Token |-> 0]]

-----------------------------------------------------------------------------
(* The session of a verified login.  Its tokens may never reach the client:
   the webhook events after it may fail, the reply may be lost. *)
CreateSession(s, u) ==
  /\ row[s].state = "none"
  /\ row' = [row EXCEPT ![s] = [user |-> u, state |-> "live", cur |-> 1, prev |-> 0,
                                expired |-> FALSE, stale |-> FALSE]]
  /\ \E handed \in {{}, {1}} : held' = [held EXCEPT ![s] = handed]
  /\ UNCHANGED <<ref, out, exchanged>>

-----------------------------------------------------------------------------
(* POST /auth/refresh. *)

\* Mistakes in the first update: the hash is not compared; revokedAt is not looked at
RotatableByAny(s, t) == row[s].state = "live" /\ ~row[s].expired
RotatableRevoked(s, t) ==
  row[s].state \in {"live", "revoked"} /\ ~row[s].expired /\ row[s].cur = t

\* where: { id, refreshHash: presented, revokedAt: null, expiresAt: { gt: now } }
Rotatable(s, t) == row[s].state = "live" /\ ~row[s].expired /\ row[s].cur = t

\* Mistakes in what it writes: prevRefreshHash is left out, or set to the new hash
RotatedForgetful(s) == [row[s] EXCEPT !.cur = @ + 1]
RotatedAhead(s) == [row[s] EXCEPT !.cur = @ + 1, !.prev = row[s].cur + 1]

\* data: { refreshHash: the new one, prevRefreshHash: presented }
Rotated(s) == [row[s] EXCEPT !.cur = @ + 1, !.prev = row[s].cur]

\* The update matches a row.  The bound on the tokens is in the guard.
RefreshRotate(h, s, t) ==
  /\ ref[h].pc = "idle"
  /\ t \in held[s]
  /\ t < MaxToken
  /\ Rotatable(s, t)
  /\ row' = [row EXCEPT ![s] = Rotated(s)]
  /\ exchanged' = [exchanged EXCEPT ![s][t] = @ + 1]
  /\ ref' = [ref EXCEPT ![h] = [pc |-> "load", sid |-> s, tok |-> t]]
  /\ UNCHANGED <<held, out>>

\* rotated.count === 0
RefreshRefused(h, s, t) ==
  /\ ref[h].pc = "idle"
  /\ t \in held[s]
  /\ ~Rotatable(s, t)
  /\ ref' = [ref EXCEPT ![h] = [pc |-> "reuse", sid |-> s, tok |-> t]]
  /\ UNCHANGED <<row, held, out, exchanged>>

\* where: { id, prevRefreshHash: presented, revokedAt: null }
Replayed(s, t) == row[s].state = "live" /\ row[s].prev = t

\* The second update, which may match nothing, and the 401
RefreshReuse(h) ==
  /\ ref[h].pc = "reuse"
  /\ row' = [s \in Session |->
               IF s = ref[h].sid /\ Replayed(s, ref[h].tok)
               THEN [row[s] EXCEPT !.state = "revoked"] ELSE row[s]]
  /\ ref' = [ref EXCEPT ![h] = NoRef]
  /\ UNCHANGED <<held, out, exchanged>>

\* findUniqueOrThrow finds the row; the reply carries the new token, or is lost
RefreshLoad(h) ==
  /\ ref[h].pc = "load"
  /\ row[ref[h].sid].state # "deleted"
  /\ \E handed \in {{}, {ref[h].tok + 1}} :
       held' = [held EXCEPT ![ref[h].sid] = @ \cup handed]
  /\ ref' = [ref EXCEPT ![h] = NoRef]
  /\ UNCHANGED <<row, out, exchanged>>

\* findUniqueOrThrow throws: cleanup deleted the row after the rotation
RefreshGone(h) ==
  /\ ref[h].pc = "load"
  /\ row[ref[h].sid].state = "deleted"
  /\ ref' = [ref EXCEPT ![h] = NoRef]
  /\ UNCHANGED <<row, held, out, exchanged>>

\* A database error or a crash between two statements
RefreshFail(h) ==
  /\ ref[h].pc # "idle"
  /\ ref' = [ref EXCEPT ![h] = NoRef]
  /\ UNCHANGED <<row, held, out, exchanged>>

-----------------------------------------------------------------------------
(* POST /auth/logout, with the access token that came with a refresh token:
   authenticate finds the session live, revokeSession ends it. *)
LogoutAuthenticated(c, s) ==
  /\ out[c].pc = "idle"
  /\ held[s] # {}
  /\ row[s].state = "live" /\ ~row[s].expired
  /\ out' = [out EXCEPT ![c] = [pc |-> "revoke", sid |-> s]]
  /\ UNCHANGED <<row, held, ref, exchanged>>

\* where: { ..., revokedAt: null }, data: { revokedAt: now }
Revoked(S) ==
  [s \in Session |-> IF s \in S /\ row[s].state = "live"
                     THEN [row[s] EXCEPT !.state = "revoked"] ELSE row[s]]

LogoutRevoke(c) ==
  /\ out[c].pc = "revoke"
  /\ row' = Revoked({out[c].sid})
  /\ out' = [out EXCEPT ![c] = NoOut]
  /\ UNCHANGED <<held, ref, exchanged>>

LogoutFail(c) ==
  /\ out[c].pc # "idle"
  /\ out' = [out EXCEPT ![c] = NoOut]
  /\ UNCHANGED <<row, held, ref, exchanged>>

\* DELETE .../users/:userId/sessions: one update
RevokeAll(u) ==
  /\ row' = Revoked({s \in Session : row[s].user = u})
  /\ UNCHANGED <<held, ref, out, exchanged>>

-----------------------------------------------------------------------------
(* Time: the session's expiresAt passes, or seven days since it was revoked. *)
Exists(s) == row[s].state \in {"live", "revoked"}

Expire(s) ==
  /\ Exists(s) /\ ~row[s].expired
  /\ row' = [row EXCEPT ![s].expired = TRUE]
  /\ UNCHANGED <<held, ref, out, exchanged>>

Stale(s) ==
  /\ row[s].state = "revoked" /\ ~row[s].stale
  /\ row' = [row EXCEPT ![s].stale = TRUE]
  /\ UNCHANGED <<held, ref, out, exchanged>>

\* Mistake: only revoked sessions are cleaned up
DeletableRevoked(s) == Exists(s) /\ row[s].stale

\* where: { OR: [expiresAt < now, revokedAt more than 7 days ago] }
Deletable(s) == Exists(s) /\ (row[s].expired \/ row[s].stale)

Cleanup ==
  /\ \E s \in Session : Deletable(s)
  /\ row' = [s \in Session |-> IF Deletable(s) THEN [row[s] EXCEPT !.state = "deleted"]
                               ELSE row[s]]
  /\ UNCHANGED <<held, ref, out, exchanged>>

-----------------------------------------------------------------------------
RefreshStep(h) == RefreshReuse(h) \/ RefreshLoad(h) \/ RefreshGone(h)

Next ==
  \/ \E s \in Session, u \in User : CreateSession(s, u)
  \/ \E h \in Refresher, s \in Session, t \in Token :
       RefreshRotate(h, s, t) \/ RefreshRefused(h, s, t)
  \/ \E h \in Refresher : RefreshStep(h) \/ RefreshFail(h)
  \/ \E c \in Closer, s \in Session : LogoutAuthenticated(c, s)
  \/ \E c \in Closer : LogoutRevoke(c) \/ LogoutFail(c)
  \/ \E u \in User : RevokeAll(u)
  \/ \E s \in Session : Expire(s) \/ Stale(s)
  \/ Cleanup

Spec == Init /\ [][Next]_vars

(* Time passes and cleanup runs every hour; clients and handlers owe nothing. *)
Fairness ==
  /\ \A s \in Session : WF_vars(Expire(s)) /\ WF_vars(Stale(s))
  /\ WF_vars(Cleanup)

FairSpec == Spec /\ Fairness

-----------------------------------------------------------------------------
(* Each refresh token works once (session.ts:64), however many copies of it
   are presented at the same time. *)
SingleExchange == \A s \in Session, t \in Token : exchanged[s][t] <= 1

(* Logout, revocation and theft detection are final (session.ts:80): no
   refresh that was already on its way, and none after it, gets a new token. *)
DeadStaysDead ==
  [][\A s \in Session :
       row[s].state \in {"revoked", "deleted"}
       => row'[s].state \in {"revoked", "deleted"} /\ exchanged'[s] = exchanged[s]]_vars

(* A session is revoked for theft only when a token of it really was used
   twice (session.ts:88): a token that was refused the first time it was ever
   presented does not end the session. *)
NoFalseTheft ==
  [][\A h \in Refresher, s \in Session :
       RefreshReuse(h) /\ s = ref[h].sid /\ row'[s] # row[s]
       => exchanged[s][ref[h].tok] = 1]_vars

(* What reuse detection (session.ts:86-91) does achieve: once the 401 for a
   replayed token is out the session is dead, unless the session was rotated
   again since that token's own rotation. *)
ReplayDetected ==
  [][\A h \in Refresher, s \in Session :
       RefreshReuse(h) /\ s = ref[h].sid /\ exchanged[s][ref[h].tok] = 1
       => row'[s].state # "live" \/ row[s].cur >= ref[h].tok + 2]_vars

(* What the comment of refreshSession says (session.ts:64-65): "presenting an
   already-rotated one is treated as theft and revokes the whole session". *)
ReplayEndsSession ==
  [][\A h \in Refresher, s \in Session :
       RefreshReuse(h) /\ s = ref[h].sid /\ exchanged[s][ref[h].tok] = 1
       => row'[s].state # "live"]_vars

(* No session row stays for ever: it expires or is revoked and grows old, and
   cleanup takes it (cleanup.ts:19-26). *)
RowsGo == \A s \in Session : Exists(s) ~> row[s].state = "deleted"

-----------------------------------------------------------------------------
(* Why the safety properties hold. *)

\* The tokens before the current one were exchanged exactly once, no other was.
ExchangedBefore ==
  \A s \in Session, t \in Token : exchanged[s][t] = IF t < row[s].cur THEN 1 ELSE 0

\* The previous token is the one before the current one.
PrevBehind ==
  \A s \in Session :
    row[s].prev = IF row[s].cur >= 2 THEN row[s].cur - 1 ELSE 0

\* Nobody holds a token that was not minted.
HeldMinted ==
  \A s \in Session : /\ held[s] \subseteq 1..row[s].cur
                     /\ row[s].state = "none" => row[s].cur = 0

\* A refresh in flight presented a minted token; a rotation made it a past one.
RefreshMinted ==
  \A h \in Refresher :
    ref[h].pc # "idle" => /\ ref[h].sid \in Session
                          /\ ref[h].tok \in Token
                          /\ row[ref[h].sid].state # "none"
                          /\ ref[h].pc = "load" => ref[h].tok < row[ref[h].sid].cur

IInv == TypeOK /\ ExchangedBefore /\ PrevBehind /\ HeldMinted /\ RefreshMinted
=============================================================================
