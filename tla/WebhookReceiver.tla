--------------------------- MODULE WebhookReceiver ---------------------------
(***************************************************************************)
(* What lib/webhook-signature.ts gives the receivers of webhooks: they pass  *)
(* a request to verifyWebhook and, when it verifies, its event id to         *)
(* ReplayGuard.firstTime, and process the event when that is true.  A        *)
(* signed request may arrive any number of times, at any time.               *)
(***************************************************************************)
EXTENDS Integers

CONSTANTS
  EventId,     \* event ids
  Secret,      \* secrets a request may be signed with
  Known,       \* the receiver's secret
  Malformed,   \* a timestamp header that is missing or not a number
  Tolerance,   \* toleranceSeconds
  Ttl          \* ttlSeconds of the guard

VARIABLES
  now,    \* the receiver's clock, in milliseconds
  seen,   \* the guard's map: seen[id] is when id expires, 0 when it is not in the map
  taken   \* history: <<id, ts, at>> of the events processed

vars == <<now, seen, taken>>

Seconds(ms) == ms \div 1000

\* Math.abs(now - Number(timestamp)) > toleranceSeconds
Expired(ts) == Seconds(now) - ts > Tolerance \/ ts - Seconds(now) > Tolerance

\* The result of verifyWebhook.  The HMAC covers the timestamp and the body
Verdict(secret, ts) ==
  CASE ts = Malformed                -> "bad_timestamp"
    [] ts # Malformed /\ Expired(ts) -> "expired"
    [] OTHER                         -> IF secret = Known THEN "ok" ELSE "bad_signature"

Init == now \in Nat /\ seen = [id \in EventId |-> 0] /\ taken = {}

\* firstTime forgets what has expired, and remembers the id it is asked about
Remembered == [id \in EventId |-> IF seen[id] <= now THEN 0 ELSE seen[id]]

FirstTime(id) == Remembered[id] = 0

Receive(id, secret, ts) ==
  /\ Verdict(secret, ts) = "ok"
  /\ seen' = IF FirstTime(id) THEN [Remembered EXCEPT ![id] = now + Ttl * 1000] ELSE Remembered
  /\ taken' = IF FirstTime(id) THEN taken \cup {<<id, ts, now>>} ELSE taken
  /\ UNCHANGED now

Tick ==
  /\ now' \in {t \in Nat : t > now}
  /\ UNCHANGED <<seen, taken>>

Next == Tick \/ \E id \in EventId, secret \in Secret, ts \in Nat \cup {Malformed} : Receive(id, secret, ts)

Spec == Init /\ [][Next]_vars

(* "this stops a request from being replayed inside the window" (webhook-
   signature.ts:51): one signed request is processed at two times only when the
   guard's memory is no longer than the time between them, and both are inside
   the tolerance. *)
AcceptedInWindow == \A x \in taken : /\ Seconds(x[3]) - x[2] <= Tolerance
                                     /\ x[2] - Seconds(x[3]) <= Tolerance

RepeatsFarApart ==
  \A x, y \in taken : x[1] = y[1] /\ x[3] < y[3] => y[3] >= x[3] + Ttl * 1000

(* With the defaults, 300 seconds and twice as long a memory, that leaves the two
   ends of the window: a request taken in its very first second, stamped 300
   seconds ahead of the clock, and again in its very last. *)
RepeatsOnlyAtTheEnds ==
  \A x, y \in taken :
    x[1] = y[1] /\ x[2] = y[2] /\ x[3] < y[3]
      => /\ Seconds(x[3]) = x[2] - Tolerance
         /\ Seconds(y[3]) = x[2] + Tolerance
=============================================================================
