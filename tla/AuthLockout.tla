----------------------------- MODULE AuthLockout -----------------------------
(***************************************************************************)
(* The lockout of an IP address that guesses credentials: authorize and    *)
(* authorizeAdmin, lockedOut and recordAuthFailure in app.ts, over the      *)
(* fixed-window counter of lib/ratelimit.ts.  One address is modelled: the *)
(* counters of two addresses share nothing.                                *)
(*                                                                         *)
(* The requests of the address run concurrently.  Every Redis command and  *)
(* every Lua script is atomic; between two of them the other requests run  *)
(* and the window of the counter may end.                                  *)
(***************************************************************************)
EXTENDS Naturals, FiniteSets

CONSTANTS
  Caller,     \* concurrent requests from the address
  Limit,      \* limits.authFailuresPerIp.limit
  Failures    \* whether Redis, the database or the server may fail

ASSUME LimitAssumption == Limit \in Nat \ {0}
ASSUME CallerAssumption == IsFiniteSet(Caller)
ASSUME FailuresAssumption == Failures \in BOOLEAN

VARIABLES
  count,    \* the counter in Redis, 0 when there is none
  ttl,      \* the counter has an expiry
  caller,   \* caller[c]: where request c is
  late      \* history: the requests that began when the address was locked out

vars == <<count, ttl, caller, late>>

-----------------------------------------------------------------------------
(* "peek", "recheck": the two reads of lockedOut; "verify": the credential is
   looked at; "record", "limited", "counted": recordAuthFailure before its
   INCR, after it with the hit over the limit, and not; "write": the audit. *)
Stages == {"idle", "peek", "recheck", "verify", "record", "limited", "counted", "write"}

\* The requests let through whose failure may still be counted
Passed == {c \in Caller : caller[c] \in {"verify", "record"}}

MaxCount == Limit - 1 + Cardinality(Caller)

TypeOK ==
  /\ count \in 0..MaxCount
  /\ ttl \in BOOLEAN
  /\ caller \in [Caller -> Stages]
  /\ late \in SUBSET Caller

Init ==
  /\ count = 0
  /\ ttl = FALSE
  /\ caller = [c \in Caller |-> "idle"]
  /\ late = {}

-----------------------------------------------------------------------------
Goto(c, stage) == caller' = [caller EXCEPT ![c] = stage]

Done(c) == Goto(c, "idle") /\ late' = late \ {c}

Begin(c) ==
  /\ caller[c] = "idle"
  /\ Goto(c, "peek")
  /\ late' = IF count >= Limit THEN late \cup {c} ELSE late
  /\ UNCHANGED <<count, ttl>>

\* Mistake: locked out one failure too late
BelowLimitByOne == count <= Limit

\* count < limits.authFailuresPerIp.limit
BelowLimit == count < Limit

\* peekCount, the single read of the common case
Peek(c) ==
  /\ caller[c] = "peek"
  /\ Goto(c, IF BelowLimit THEN "verify" ELSE "recheck")
  /\ UNCHANGED <<count, ttl, late>>

\* peekRateLimit finds the window over: the request goes on
RecheckPasses(c) ==
  /\ caller[c] = "recheck"
  /\ BelowLimit
  /\ Goto(c, "verify")
  /\ UNCHANGED <<count, ttl, late>>

\* 429 RATE_LIMITED
RecheckRefuses(c) ==
  /\ caller[c] = "recheck"
  /\ ~BelowLimit
  /\ Done(c)
  /\ UNCHANGED <<count, ttl>>

\* The credential is right: the request is carried out (or is FORBIDDEN)
VerifyAccepts(c) ==
  /\ caller[c] = "verify"
  /\ Done(c)
  /\ UNCHANGED <<count, ttl>>

VerifyRejects(c) ==
  /\ caller[c] = "verify"
  /\ Goto(c, "record")
  /\ UNCHANGED <<count, ttl, late>>

\* Mistake: EXPIRE sent apart from INCR, and lost when the server stops between
ExpirySetApart == ttl' \in {ttl, ttl \/ count = 0}

\* if count == 1 then redis.call('EXPIRE', ...)
ExpirySet == ttl' = (ttl \/ count = 0)

\* The INCR script of checkRateLimits, and whether this hit is over the limit
Record(c) ==
  /\ caller[c] = "record"
  /\ count' = count + 1
  /\ ExpirySet
  /\ Goto(c, IF count + 1 > Limit THEN "limited" ELSE "counted")
  /\ UNCHANGED late

\* ~result.limited, and the count read after the INCR is exactly the limit
NoteWorthy(c) == caller[c] = "counted" /\ count = Limit

\* peekRateLimit in recordAuthFailure: nothing to note, 401
NotNoted(c) ==
  /\ caller[c] \in {"limited", "counted"}
  /\ ~NoteWorthy(c)
  /\ Done(c)
  /\ UNCHANGED <<count, ttl>>

Noted(c) ==
  /\ caller[c] \in {"limited", "counted"}
  /\ NoteWorthy(c)
  /\ Goto(c, "write")
  /\ UNCHANGED <<count, ttl, late>>

\* audit(..., "auth.lockout"), which swallows a failed insert, then 401
WriteAudit(c) ==
  /\ caller[c] = "write"
  /\ Done(c)
  /\ UNCHANGED <<count, ttl>>

\* A Redis or database error, which fails the request closed, or a crash
Fail(c) ==
  /\ Failures
  /\ caller[c] # "idle"
  /\ Done(c)
  /\ UNCHANGED <<count, ttl>>

\* The window of the counter ends
WindowEnds ==
  /\ ttl
  /\ count' = 0
  /\ ttl' = FALSE
  /\ late' = {}
  /\ UNCHANGED caller

-----------------------------------------------------------------------------
Next ==
  \/ \E c \in Caller :
       \/ Begin(c) \/ Peek(c) \/ RecheckPasses(c) \/ RecheckRefuses(c)
       \/ VerifyAccepts(c) \/ VerifyRejects(c) \/ Record(c)
       \/ NotNoted(c) \/ Noted(c) \/ WriteAudit(c) \/ Fail(c)
  \/ WindowEnds

Spec == Init /\ [][Next]_vars

(* Redis ends the window of a counter that has an expiry.  Callers owe nothing. *)
FairSpec == Spec /\ WF_vars(WindowEnds)

-----------------------------------------------------------------------------
(* The check and the count are apart (app.ts:186 and 197), so concurrent
   guesses overshoot the limit, but by no more than the other requests that
   were let through when the last one was: each of them adds one at most. *)
BoundedOvershoot == count + Cardinality(Passed) <= MaxCount

(* A request that began while the address was locked out never gets its
   credential looked at in the same window, even a right one, whichever of the
   two reads decides. *)
LateRefused == \A c \in late : caller[c] \in {"peek", "recheck"}

(* Every lockout ends (ratelimit.ts:60): a counter never stays without expiry. *)
LockoutEnds == count >= Limit ~> count = 0
=============================================================================
