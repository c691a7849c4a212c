----------------------------- MODULE OtpService -----------------------------
(***************************************************************************)
(* What stands around a one-time code, for one application: the routes       *)
(* POST /otp/request and /otp/verify of app.ts from their rate limits         *)
(* (lib/ratelimit.ts) through the signals (lib/intelligence.ts), the risk     *)
(* engine (lib/risk.ts) and the user (lib/tenant.ts) to the code, and from    *)
(* the guess to the recorded login and the session.  The code itself is an    *)
(* attempt counter here: OtpCodes has its life in detail.                     *)
(*                                                                         *)
(* A handler's steps are its awaits; the other handlers run between them, and *)
(* any window may end.  Rows and events that these routes write and never     *)
(* read (RiskDecision, Delivery, the session) are left out; so are the limits  *)
(* per country and IP address and the signals of the IP address, which are     *)
(* handled as the limit per phone and the signals of the device.              *)
(***************************************************************************)
EXTENDS RiskEngine, FiniteSets

CONSTANTS
  Phone,       \* phones, each with at most one user
  Device,      \* devices users log in from
  Unknown,     \* no device forwarded
  Handler,     \* requests served at once
  Config,      \* risk configurations the application may save
  CountryCode, \* the countries of phones and configurations
  Country,     \* Country[p]: of phone p, or NoCountry
  Limit,       \* Limit[rule]: of each rate limit
  MaxAttempts, \* OTP_MAX_ATTEMPTS
  History,     \* what loadUserHistory may count of a user's codes and attempts
  Seen         \* how many phones velocity may count with a device

ASSUME LimitAssumption ==
  Limit \in [{"otp-req-phone", "otp-req-app", "verify-phone"} -> Nat \ {0}]
ASSUME ConfigAssumption ==
  Config \subseteq Configs(CountryCode) /\ IsFiniteSet(Config)
ASSUME CountryAssumption ==
  NoCountry \notin CountryCode /\ Country \in [Phone -> CountryCode \cup {NoCountry}]
ASSUME SetsAssumption ==
  /\ Phone # {} /\ Unknown \notin Device /\ MaxAttempts \in Nat \ {0}
  /\ IsFiniteSet(Handler) /\ History \subseteq Nat /\ Seen \subseteq Nat \ {0}

VARIABLES
  counter,     \* counter[k]: hits in the window of a rule and its subject, up to its limit
  config,      \* the RiskConfig row
  users,       \* the phones with a User row
  devices,     \* devices[p]: Device rows of p's user
  code,        \* code[p]: attempts at the active code of p's user
  handler,     \* handler[h]: where request h is
  sends,       \* history: codes made in this window of the application's cap
  guesses,     \* history: guesses[p]: codes compared in this window of verify-phone;
               \* both start below 0, by the requests let through in the window before
  admitted,    \* history: phones the risk engine or POST /users let in
  accounted    \* history: <<phone, device>> accounted by device.new, or whose login failed after

vars == <<counter, config, users, devices, code, handler,
          sends, guesses, admitted, accounted>>
histories == <<sends, guesses, admitted, accounted>>

-----------------------------------------------------------------------------
NoCode == -1

\* The counter of a rule for a phone; there is one application
Key(rule, p) == <<rule, IF rule = "otp-req-app" THEN Unknown ELSE p>>

Keys == {Key(rule, p) : rule \in DOMAIN Limit, p \in Phone}

\* riskConfig.sendCapPerHour ?? limits.otpRequestPerApplication.limit
SendCap(c) == IF c.sendCapPerHour = 0 THEN Limit["otp-req-app"] ELSE c.sendCapPerHour

LargestCap == CHOOSE n \in {SendCap(c) : c \in Config} : \A c \in Config : SendCap(c) <= n

\* Hits beyond the largest limit that is ever compared are all alike
Top(k) == IF k[1] = "otp-req-app" THEN LargestCap ELSE Limit[k[1]]

Idle == [pc |-> "idle"]

\* barred: history: the configuration saved last, before the request reads it, bars its phone
Requests ==
  [pc : {"read"}, p : Phone, barred : BOOLEAN]
    \cup [pc : {"cap", "signals"}, p : Phone, barred : BOOLEAN, cfg : Config, known : BOOLEAN]
    \cup [pc : {"risk"}, p : Phone, barred : BOOLEAN, cfg : Config, known : BOOLEAN,
          newDevice : {"yes", "no", "unknown"}, phones : {0} \cup Seen]
    \cup [pc : {"user", "create", "send"}, p : Phone, barred : BOOLEAN]

Verifications ==
  [pc : {"claim", "login"}, p : Phone]
    \cup [pc : {"device", "session"}, p : Phone, d : Device, new : BOOLEAN]
    \cup [pc : {"session"}, p : Phone, d : {Unknown}, new : {FALSE}]

TypeOK ==
  /\ counter \in [Keys -> Nat] /\ \A k \in Keys : counter[k] <= Top(k)
  /\ config \in Config
  /\ users \subseteq Phone
  /\ devices \in [Phone -> SUBSET Device]
  /\ code \in [Phone -> NoCode..MaxAttempts]
  /\ handler \in [Handler -> {Idle} \cup Requests \cup Verifications]
  /\ sends \in Int /\ guesses \in [Phone -> Int]
  /\ admitted \subseteq Phone
  /\ accounted \subseteq Phone \X Device

Init ==
  /\ counter = [k \in Keys |-> 0]
  /\ config \in Config
  /\ users = {} /\ devices = [p \in Phone |-> {}]
  /\ code = [p \in Phone |-> NoCode]
  /\ handler = [h \in Handler |-> Idle]
  /\ sends = 0 /\ guesses = [p \in Phone |-> 0]
  /\ admitted = {} /\ accounted = {}

-----------------------------------------------------------------------------
(* checkRateLimits: every rule is counted, whichever is over. *)
Hit(K) == counter' = [k \in Keys |-> IF k \in K /\ counter[k] < Top(k) THEN counter[k] + 1 ELSE counter[k]]

\* Mistake: the count before this hit is compared
OverBefore(k, limit) == counter[k] > limit

\* count > rule.limit, with this hit
Over(k, limit) == counter[k] >= limit

Limited(K) == \E k \in K : Over(k, Limit[k[1]])

Become(h, new) == handler' = [handler EXCEPT ![h] = new]

At(h, pc) == handler[h].pc = pc

\* The country of the phone is one an enforcing configuration bars
Bars(c, p) == c.mode = "enforce" /\ CountryRules([country |-> Country[p]], c) \ c.disabledRules # {}

-----------------------------------------------------------------------------
(* POST /otp/request. *)
Request(h, p) ==
  LET K == {Key("otp-req-phone", p)}
  IN  /\ At(h, "idle")
      /\ Hit(K)
      /\ Become(h, IF Limited(K) THEN Idle ELSE [pc |-> "read", p |-> p, barred |-> Bars(config, p)])
      /\ UNCHANGED <<config, users, devices, code, histories>>

\* Mistake: the user is created before the risk engine has decided
ReadCreates(h) ==
  /\ At(h, "read")
  /\ users' = users \cup {handler[h].p}
  /\ Become(h, [pc |-> "cap", p |-> handler[h].p, barred |-> handler[h].barred, cfg |-> config, known |-> TRUE])
  /\ UNCHANGED <<counter, config, devices, code, histories>>

\* Mistake: a configuration kept from an earlier request
ReadCached(h) ==
  /\ At(h, "read")
  /\ \E c \in Config :
       Become(h, [pc |-> "cap", p |-> handler[h].p, barred |-> handler[h].barred,
                  cfg |-> c, known |-> handler[h].p \in users])
  /\ UNCHANGED <<counter, config, users, devices, code, histories>>

\* getRiskConfig and findUnique, together
Read(h) ==
  /\ At(h, "read")
  /\ Become(h, [pc |-> "cap", p |-> handler[h].p, barred |-> handler[h].barred,
                cfg |-> config, known |-> handler[h].p \in users])
  /\ UNCHANGED <<counter, config, users, devices, code, histories>>

Cap(h) ==
  LET k == Key("otp-req-app", handler[h].p)
  IN  /\ At(h, "cap")
      /\ Hit({k})
      /\ Become(h, IF Over(k, SendCap(handler[h].cfg)) THEN Idle ELSE [handler[h] EXCEPT !.pc = "signals"])
      /\ UNCHANGED <<config, users, devices, code, histories>>

\* computeSignals: the device's row, and the phones lately seen with it
Signals(h, d, phones) ==
  /\ At(h, "signals")
  /\ Become(h, [pc |-> "risk", p |-> handler[h].p, barred |-> handler[h].barred,
                cfg |-> handler[h].cfg, known |-> handler[h].known,
                phones |-> IF d = Unknown THEN 0 ELSE phones,
                newDevice |-> CASE d = Unknown -> "unknown"
                                [] d # Unknown /\ handler[h].known /\ d \in devices[handler[h].p] -> "no"
                                [] OTHER -> "yes"])
  /\ UNCHANGED <<counter, config, users, devices, code, histories>>

\* evaluateRisk on the signals and loadUserHistory of the user as read
DecisionOf(h, codes, failures) ==
  LET r == handler[h]
  IN  evaluateRisk([newDevice |-> r.newDevice, newIp |-> "unknown", privateIp |-> FALSE,
                    phonesFromIp |-> 0, phonesFromDevice |-> r.phones,
                    deviceCount |-> IF r.known THEN Cardinality(devices[r.p]) ELSE 0,
                    codesLastHour |-> codes, failedAttemptsLastHour |-> failures,
                    country |-> Country[r.p]], r.cfg)

\* 403 RISK_BLOCKED: decision block, and the configuration read enforces it
Risk(h) ==
  /\ At(h, "risk")
  /\ \E codes, failures \in (IF handler[h].known THEN History ELSE {0}) :
       LET blocked == handler[h].cfg.mode = "enforce" /\ DecisionOf(h, codes, failures) = Block
       IN  /\ Become(h, IF blocked THEN Idle
                        ELSE [pc |-> IF handler[h].known THEN "send" ELSE "user",
                              p |-> handler[h].p, barred |-> handler[h].barred])
           /\ admitted' = IF blocked THEN admitted ELSE admitted \cup {handler[h].p}
  /\ UNCHANGED <<counter, config, users, devices, code, sends, guesses, accounted>>

\* findOrCreate: findUnique, then create
FindUser(h) ==
  /\ At(h, "user")
  /\ Become(h, [handler[h] EXCEPT !.pc = IF handler[h].p \in users THEN "send" ELSE "create"])
  /\ UNCHANGED <<counter, config, users, devices, code, histories>>

\* The unique index lets one of two creates through; P2002 takes the other's row
CreateUser(h) ==
  /\ At(h, "create")
  /\ users' = users \cup {handler[h].p}
  /\ Become(h, [handler[h] EXCEPT !.pc = "send"])
  /\ UNCHANGED <<counter, config, devices, code, histories>>

\* Mistake: a fresh code starts a fresh window of guesses
SendResetsGuesses(h) ==
  /\ At(h, "send")
  /\ code' = [code EXCEPT ![handler[h].p] = 0]
  /\ counter' = [counter EXCEPT ![Key("verify-phone", handler[h].p)] = 0]
  /\ sends' = sends + 1
  /\ Become(h, Idle)
  /\ UNCHANGED <<config, users, devices, guesses, admitted, accounted>>

\* The transaction that replaces the code, then the delivery's row and job
Send(h) ==
  /\ At(h, "send")
  /\ code' = [code EXCEPT ![handler[h].p] = 0]
  /\ sends' = sends + 1
  /\ Become(h, Idle)
  /\ UNCHANGED <<counter, config, users, devices, guesses, admitted, accounted>>

-----------------------------------------------------------------------------
(* POST /otp/verify. *)
Verify(h, p) ==
  LET K == {Key("verify-phone", p)}
  IN  /\ At(h, "idle")
      /\ Hit(K)
      /\ Become(h, IF Limited(K) THEN Idle ELSE [pc |-> "claim", p |-> p])
      /\ UNCHANGED <<config, users, devices, code, histories>>

\* OTP_NOT_FOUND and OTP_LOCKED
ClaimRefused(h) ==
  /\ At(h, "claim")
  /\ code[handler[h].p] \in {NoCode, MaxAttempts}
  /\ Become(h, Idle)
  /\ UNCHANGED <<counter, config, users, devices, code, histories>>

\* Mistake: the claim does not repeat "attempts < maxAttempts"
ClaimUnguarded(h, right) ==
  LET p == handler[h].p
  IN  /\ At(h, "claim")
      /\ code[p] # NoCode
      /\ code' = [code EXCEPT ![p] = IF right THEN NoCode ELSE @ + 1]
      /\ guesses' = [guesses EXCEPT ![p] = @ + 1]
      /\ Become(h, IF right THEN [pc |-> "login", p |-> p] ELSE Idle)
      /\ UNCHANGED <<counter, config, users, devices, sends, admitted, accounted>>

\* An attempt is claimed, and the code compared: a right one is consumed
Claim(h, right) ==
  LET p == handler[h].p
  IN  /\ At(h, "claim")
      /\ code[p] \notin {NoCode, MaxAttempts}
      /\ code' = [code EXCEPT ![p] = IF right THEN NoCode ELSE @ + 1]
      /\ guesses' = [guesses EXCEPT ![p] = @ + 1]
      /\ Become(h, IF right THEN [pc |-> "login", p |-> p] ELSE Idle)
      /\ UNCHANGED <<counter, config, users, devices, sends, admitted, accounted>>

\* Mistake: only a user's very first device counts as new
FindFirstDevice(h, d) ==
  LET p == handler[h].p
      new == d # Unknown /\ devices[p] = {}
  IN  /\ At(h, "login")
      /\ Become(h, [pc |-> IF d = Unknown THEN "session" ELSE "device", p |-> p, d |-> d, new |-> new])
      /\ UNCHANGED <<counter, config, users, devices, code, histories>>

\* recordLogin: whether the device is a new one
FindDevice(h, d) ==
  LET p == handler[h].p
      new == d # Unknown /\ d \notin devices[p]
  IN  /\ At(h, "login")
      /\ Become(h, [pc |-> IF d = Unknown THEN "session" ELSE "device", p |-> p, d |-> d, new |-> new])
      /\ UNCHANGED <<counter, config, users, devices, code, histories>>

\* The upsert, which creates the row or updates it
SaveDevice(h) ==
  /\ At(h, "device")
  /\ devices' = [devices EXCEPT ![handler[h].p] = @ \cup {handler[h].d}]
  /\ Become(h, [handler[h] EXCEPT !.pc = "session"])
  /\ UNCHANGED <<counter, config, users, code, histories>>

\* createSession, otp.verified and device.new
Session(h) ==
  /\ At(h, "session")
  /\ accounted' = IF handler[h].new THEN accounted \cup {<<handler[h].p, handler[h].d>>} ELSE accounted
  /\ Become(h, Idle)
  /\ UNCHANGED <<counter, config, users, devices, code, sends, guesses, admitted>>

-----------------------------------------------------------------------------
\* An error of the database or Redis (an upsert that lost its race among them),
\* which fails the request closed, or a crash
Fail(h) ==
  /\ ~At(h, "idle")
  /\ accounted' = accounted \cup {<<handler[h].p, d>> : d \in {d \in Device : handler[h].pc = "session" /\ handler[h].d = d}}
  /\ Become(h, Idle)
  /\ UNCHANGED <<counter, config, users, devices, code, sends, guesses, admitted>>

\* PUT /risk-config; barred is settled anew for the requests that have yet to read it
SaveConfig(c) ==
  /\ c # config
  /\ config' = c
  /\ handler' = [h \in Handler |-> IF At(h, "read")
                                   THEN [handler[h] EXCEPT !.barred = Bars(c, handler[h].p)] ELSE handler[h]]
  /\ UNCHANGED <<counter, users, devices, code, histories>>

\* POST /users; a phone that has a user is answered 409
AddUser(p) ==
  /\ p \notin users
  /\ users' = users \cup {p}
  /\ admitted' = admitted \cup {p}
  /\ UNCHANGED <<counter, config, devices, code, handler, sends, guesses, accounted>>

InFlight(pcs) == {h \in Handler : handler[h].pc \in pcs}

\* Requests that the limit let through and that have yet to compare, or to send, a code
Claiming(p) == {h \in InFlight({"claim"}) : handler[h].p = p}

Sending == InFlight({"signals", "risk", "user", "create", "send"})

\* The window of a counter ends; whoever it let through does not count in the next
WindowEnds(k) ==
  /\ counter[k] > 0
  /\ counter' = [counter EXCEPT ![k] = 0]
  /\ sends' = IF k[1] = "otp-req-app" THEN -Cardinality(Sending) ELSE sends
  /\ guesses' = [p \in Phone |-> IF k = Key("verify-phone", p) THEN -Cardinality(Claiming(p)) ELSE guesses[p]]
  /\ UNCHANGED <<config, users, devices, code, handler, admitted, accounted>>

-----------------------------------------------------------------------------
Serve(h) ==
  \/ Read(h) \/ Cap(h) \/ Risk(h) \/ FindUser(h) \/ CreateUser(h) \/ Send(h)
  \/ ClaimRefused(h) \/ SaveDevice(h) \/ Session(h) \/ Fail(h)
  \/ \E d \in Device \cup {Unknown} : FindDevice(h, d) \/ \E n \in Seen : Signals(h, d, n)
  \/ \E right \in BOOLEAN : Claim(h, right)

Next ==
  \/ \E h \in Handler : Serve(h) \/ \E p \in Phone : Request(h, p) \/ Verify(h, p)
  \/ \E c \in Config : SaveConfig(c)
  \/ \E p \in Phone : AddUser(p)
  \/ \E k \in Keys : WindowEnds(k)

Spec == Init /\ [][Next]_vars

-----------------------------------------------------------------------------
(* "this per-phone cap is what really stops code guessing" (ratelimit.ts:50): in
   one window no more codes of a phone are compared than the cap allows, over
   however many fresh codes and concurrent requests, but for those requests that
   were let through and still under way when the window before it ended. *)
GuessesCapped ==
  \A p \in Phone : guesses[p] + Cardinality(Claiming(p)) <= Limit["verify-phone"]

(* The cost cap (risk.ts:39): no more codes are sent in one window than the
   largest cap that may be configured, whatever is saved meanwhile, but for the
   requests that were let through and still under way when the one before ended. *)
SendsCapped == sends + Cardinality(Sending) <= LargestCap

(* "a blocked request must not leave a new user behind" (app.ts:601). *)
BlockedLeavesNoUser == users \subseteq admitted

(* Once a configuration that bars a phone's country is saved, every request that
   had not read one by then (app.ts:600) is refused: it gets neither a user nor a
   code, whatever is saved again while it is served.  Only the requests that had
   read the configuration before go by that one. *)
BarredGetsNothing ==
  \A h \in InFlight({"user", "create", "send"}) : ~handler[h].barred

(* Every device on record was announced by device.new, even when two first
   logins race (intelligence.ts:133-136), unless the login that would have failed. *)
DevicesAnnounced ==
  \A p \in Phone, d \in Device :
    d \in devices[p] /\ (\A h \in InFlight({"session"}) : handler[h].p # p) => <<p, d>> \in accounted

-----------------------------------------------------------------------------
(* The inductive invariant.  A guess of this window, made or about to be, was counted
   as a hit; and so was a send. *)
GuessesCounted ==
  \A p \in Phone : guesses[p] + Cardinality(Claiming(p)) <= counter[Key("verify-phone", p)]

SendsCounted ==
  \A p \in Phone : sends + Cardinality(Sending) <= counter[Key("otp-req-app", p)]

(* Whoever has or is about to get a user was let in. *)
AdmittedFirst ==
  /\ users \subseteq admitted
  /\ \A h \in InFlight({"user", "create", "send"}) : handler[h].p \in admitted

(* A request that is barred still is by the configuration it will read, or has read. *)
BarsStand ==
  /\ \A h \in InFlight({"read"}) : handler[h].barred => Bars(config, handler[h].p)
  /\ \A h \in InFlight({"cap", "signals", "risk"}) : handler[h].barred => Bars(handler[h].cfg, handler[h].p)
  /\ \A h \in InFlight({"user", "create", "send"}) : ~handler[h].barred

(* A device is on record only if it is accounted, or a login that found it new is
   about to; a login that found it known was right. *)
DevicesHeld ==
  /\ \A h \in InFlight({"device"}) : ~handler[h].new => handler[h].d \in devices[handler[h].p]
  /\ \A p \in Phone : \A d \in devices[p] :
       \/ <<p, d>> \in accounted
       \/ \E h \in InFlight({"session"}) : handler[h].p = p /\ handler[h].d = d /\ handler[h].new

IInv == TypeOK /\ GuessesCounted /\ SendsCounted /\ AdmittedFirst /\ BarsStand /\ DevicesHeld
=============================================================================
