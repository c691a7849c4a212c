--------------------------- MODULE OtpServiceProofs ---------------------------
(***************************************************************************)
(* Proofs about OtpService for any number of phones, devices, handlers and   *)
(* configurations: the inductive invariant IInv and the properties that      *)
(* follow from it; and, first, about the decision of RiskEngine, for every   *)
(* input and every configuration that riskConfigSchema lets through.         *)
(***************************************************************************)
EXTENDS OtpService, FiniteSetTheorems, WellFoundedInduction, TLAPS

\* The points of rules that fire on top of others only add up.
LEMMA PointsGrow ==
  ASSUME NEW F, NEW G, F \subseteq G
  PROVE  /\ Points(F) \in Nat
         /\ Points(F) <= Points(G)
         /\ Score(F) <= Score(G)
         /\ Score(F) \in 0..100
<1>1. \A r \in RULE_CODES : r \in F => r \in G
  OBVIOUS
<1>2. Points(F) \in Nat /\ Points(G) \in Nat /\ Points(F) <= Points(G)
  BY <1>1, SMTT(30) DEF Points, If, RULE_CODES
<1> QED  BY <1>2 DEF Score

(* A rule that fires on top of others never softens the decision: no score is
   traded against another, and a hard rule is never outweighed (risk.ts:124-127). *)
THEOREM MoreRulesNeverSoften ==
  ASSUME NEW Countries, NEW c \in Configs(Countries), NEW F, NEW G, F \subseteq G
  PROVE  Decide(F, c) <= Decide(G, c)
<1>1. Score(F) <= Score(G) /\ Score(F) \in Int /\ Score(G) \in Int
  BY PointsGrow
<1>2. c.blockScore \in Int /\ c.challengeScore \in Int /\ c.challengeScore < c.blockScore
  BY DEF Configs
<1>3. F \cap Hard # {} => G \cap Hard # {}
  OBVIOUS
<1> QED  BY <1>1, <1>2, <1>3 DEF Decide, Allow, Challenge, Block

(* Disabling rules never hardens a decision (disabledRules, risk.ts:102). *)
THEOREM DisablingNeverHardens ==
  ASSUME NEW Countries, NEW in, NEW c \in Configs(Countries), NEW e \in Configs(Countries),
         c.disabledRules \subseteq e.disabledRules,
         e.blockedCountries = c.blockedCountries, e.allowedCountries = c.allowedCountries,
         e.ipVelocity = c.ipVelocity, e.deviceVelocity = c.deviceVelocity,
         e.requireContext = c.requireContext,
         e.blockScore = c.blockScore, e.challengeScore = c.challengeScore
  PROVE  evaluateRisk(in, e) <= evaluateRisk(in, c)
<1>1. CountryRules(in, e) = CountryRules(in, c)
  BY DEF CountryRules
<1>2. VelocityRules(in, e) = VelocityRules(in, c)
  BY DEF VelocityRules
<1>3. HistoryRules(in, e) = HistoryRules(in, c)
  BY DEF HistoryRules
<1>4. Fired(in, e) \subseteq Fired(in, c)
  BY <1>1, <1>2, <1>3 DEF Fired
<1>5. Decide(Fired(in, e), e) = Decide(Fired(in, e), c)
  BY DEF Decide
<1>6. Decide(Fired(in, e), c) <= Decide(Fired(in, c), c)
  BY <1>4, MoreRulesNeverSoften
<1> QED  BY <1>5, <1>6 DEF evaluateRisk

(* More phones seen from one IP never soften the decision, as long as the rule
   that blocks on them is not disabled: then "else if" (risk.ts:111) hides the
   weaker rule too. *)
THEOREM MorePhonesNeverSoften ==
  ASSUME NEW Countries, NEW c \in Configs(Countries), "ip_velocity_block" \notin c.disabledRules,
         NEW in \in Inputs(Countries), NEW out \in Inputs(Countries),
         in.phonesFromIp <= out.phonesFromIp,
         out.phonesFromDevice = in.phonesFromDevice, out.country = in.country,
         out.newDevice = in.newDevice, out.newIp = in.newIp, out.privateIp = in.privateIp,
         out.deviceCount = in.deviceCount, out.codesLastHour = in.codesLastHour,
         out.failedAttemptsLastHour = in.failedAttemptsLastHour
  PROVE  evaluateRisk(in, c) <= evaluateRisk(out, c)
<1> DEFINE v == c.ipVelocity
           Ip(n) == Velocity(n, v, "ip_velocity_block", "ip_velocity")
           Rest == (CountryRules(in, c)
                     \cup Velocity(in.phonesFromDevice, c.deviceVelocity, "device_velocity_block", "device_velocity")
                     \cup HistoryRules(in, c)) \ c.disabledRules
<1>1. v.challenge \in Nat /\ v.block \in Nat /\ v.challenge <= v.block
  BY DEF Configs, Velocities
<1>2. in.phonesFromIp \in Nat /\ out.phonesFromIp \in Nat
  BY DEF Inputs
<1>3. CountryRules(out, c) = CountryRules(in, c) /\ HistoryRules(out, c) = HistoryRules(in, c)
  BY DEF CountryRules, HistoryRules
<1>4. Fired(in, c) = Rest \cup (Ip(in.phonesFromIp) \ c.disabledRules)
  BY DEF Fired, VelocityRules
<1>5. Fired(out, c) = Rest \cup (Ip(out.phonesFromIp) \ c.disabledRules)
  BY <1>3 DEF Fired, VelocityRules
<1>6. CASE out.phonesFromIp >= v.block
  <2>1. "ip_velocity_block" \in Fired(out, c) \cap Hard
    BY <1>5, <1>6 DEF Velocity, Hard
  <2>2. evaluateRisk(out, c) = Block
    BY <2>1 DEF evaluateRisk, Decide
  <2>3. evaluateRisk(in, c) \in {Allow, Challenge, Block}
    BY DEF evaluateRisk, Decide
  <2> QED  BY <2>2, <2>3 DEF Allow, Challenge, Block
<1>7. CASE ~(out.phonesFromIp >= v.block)
  <2>1. Ip(in.phonesFromIp) \subseteq Ip(out.phonesFromIp)
    BY <1>1, <1>2, <1>7 DEF Velocity
  <2>2. Fired(in, c) \subseteq Fired(out, c)
    BY <1>4, <1>5, <2>1
  <2> QED  BY <2>2, MoreRulesNeverSoften DEF evaluateRisk
<1> QED  BY <1>6, <1>7

(* "A user's very first device or IP says nothing" (risk.ts:116): under the
   default configuration a phone never seen, from a public address few phones
   use, is let through without a challenge. *)
THEOREM NewUserAllowed ==
  ASSUME NEW Countries, NEW in \in Inputs(Countries),
         in.deviceCount = 0, in.codesLastHour = 0, in.failedAttemptsLastHour = 0,
         ~in.privateIp, in.phonesFromIp < 5, in.phonesFromDevice < 3
  PROVE  evaluateRisk(in, defaultRiskConfig) = Allow
<1>1. Fired(in, defaultRiskConfig) = {}
  BY DEF Fired, CountryRules, VelocityRules, Velocity, HistoryRules, defaultRiskConfig, Inputs
<1>2. Score({}) = 0
  BY DEF Score, Points, If
<1> QED  BY <1>1, <1>2 DEF evaluateRisk, Decide, defaultRiskConfig, Allow

-----------------------------------------------------------------------------
\* A finite set of numbers has a largest element: if one had none, neither had the
\* same set without one of its elements, and a smallest such set does not exist.
LEMMA LargestExists ==
  ASSUME NEW S, S \subseteq Nat, IsFiniteSet(S), S # {}
  PROVE  \E n \in S : \A m \in S : m <= n
<1> DEFINE Max(C) == \E n \in C : \A m \in C : m <= n
           T == {C \in SUBSET S : C # {} /\ ~Max(C)}
<1>1. SUFFICES ASSUME T # {} PROVE FALSE
  BY <1>1
<1>2. IsWellFoundedOn(StrictSubsetOrdering(S), SUBSET S)
  BY FS_StrictSubsetOrderingWellFounded, FS_FiniteSubsetsOfFinite
<1>3. PICK C \in T : \A D \in T : <<D, C>> \notin StrictSubsetOrdering(S)
  <2>1. T \subseteq SUBSET S
    OBVIOUS
  <2> HIDE DEF T
  <2> QED  BY <1>1, <1>2, <2>1, WFMin
<1>4. PICK x \in C : TRUE
  OBVIOUS
<1>5. CASE C = {x}
  <2>1. Max(C)
    BY <1>4, <1>5
  <2> QED  BY <1>3, <2>1
<1>6. CASE C # {x}
  <2> DEFINE D == C \ {x}
  <2>1. D # {} /\ D \in SUBSET S /\ <<D, C>> \in StrictSubsetOrdering(S)
    BY <1>4, <1>6 DEF StrictSubsetOrdering
  <2>2. D \notin T
    BY <1>3, <2>1
  <2>3. PICK n \in D : \A m \in D : m <= n
    BY <2>1, <2>2
  <2>4. x \in Nat /\ n \in Nat /\ n \in C /\ x \in C
    BY <1>4, <2>3
  <2>5. Max(C)
    <3>1. CASE x <= n
      <4>1. \A m \in C : m <= n
        BY <2>3, <3>1
      <4> QED  BY <2>4, <4>1
    <3>2. CASE n <= x
      <4>1. \A m \in C : m <= x
        BY <2>3, <2>4, <3>2
      <4> QED  BY <2>4, <4>1
    <3> QED  BY <2>4, <3>1, <3>2
  <2> QED  BY <1>3, <2>5
<1> QED  BY <1>5, <1>6

\* The limits and caps are numbers, and no cap is above the largest.
LEMMA Caps ==
  /\ \A c \in Config : SendCap(c) \in Nat /\ SendCap(c) <= LargestCap
  /\ Config # {} => LargestCap \in Nat
  /\ Limit["verify-phone"] \in Nat /\ Limit["otp-req-phone"] \in Nat /\ Limit["otp-req-app"] \in Nat
<1>1. Limit["verify-phone"] \in Nat /\ Limit["otp-req-phone"] \in Nat /\ Limit["otp-req-app"] \in Nat
  BY LimitAssumption
<1>2. \A c \in Config : SendCap(c) \in Nat
  BY <1>1, ConfigAssumption DEF SendCap, Configs
<1> DEFINE S == {SendCap(c) : c \in Config}
<1>3. ASSUME Config # {} PROVE LargestCap \in S /\ \A c \in Config : SendCap(c) <= LargestCap
  <2>1. IsFiniteSet(S)
    <3>1. [c \in Config |-> SendCap(c)] \in Surjection(Config, S)
      BY DEF Surjection
    <3> HIDE DEF S
    <3> QED  BY <3>1, ConfigAssumption, FS_Surjection
  <2>2. S \subseteq Nat /\ S # {}
    BY <1>2, <1>3
  <2>3. \E n \in S : \A m \in S : m <= n
    <3> HIDE DEF S
    <3> QED  BY <2>1, <2>2, LargestExists
  <2>4. \E n \in S : \A c \in Config : SendCap(c) <= n
    BY <2>3
  <2> QED  BY <2>4 DEF LargestCap
<1> QED  BY <1>1, <1>2, <1>3

\* A phone that an enforcing configuration bars is blocked, whatever else the signals say.
LEMMA BarredIsBlocked ==
  ASSUME NEW h, NEW codes, NEW failures, Bars(handler[h].cfg, handler[h].p)
  PROVE  handler[h].cfg.mode = "enforce" /\ DecisionOf(h, codes, failures) = Block
<1> DEFINE r == handler[h]
           in == [newDevice |-> r.newDevice, newIp |-> "unknown", privateIp |-> FALSE,
                  phonesFromIp |-> 0, phonesFromDevice |-> r.phones,
                  deviceCount |-> IF r.known THEN Cardinality(devices[r.p]) ELSE 0,
                  codesLastHour |-> codes, failedAttemptsLastHour |-> failures,
                  country |-> Country[r.p]]
<1>1. in.country = Country[r.p]
  OBVIOUS
<1>2. DecisionOf(h, codes, failures) = evaluateRisk(in, r.cfg)
  BY DEF DecisionOf
<1> HIDE DEF in
<1>3. CountryRules(in, r.cfg) = CountryRules([country |-> Country[r.p]], r.cfg)
  BY <1>1 DEF CountryRules
<1>4. PICK rule \in CountryRules(in, r.cfg) : rule \notin r.cfg.disabledRules
  BY <1>3 DEF Bars
<1>5. rule \in Fired(in, r.cfg) /\ rule \in Hard
  BY <1>4 DEF Fired, CountryRules, Hard
<1> QED  BY <1>2, <1>5 DEF Bars, evaluateRisk, Decide

-----------------------------------------------------------------------------
\* The records a handler can be, by its pc.
LEMMA Shapes ==
  ASSUME TypeOK, NEW h \in Handler
  PROVE  /\ handler[h] = Idle \/ handler[h] \in Requests \/ handler[h] \in Verifications
         /\ handler[h].pc = "idle" <=> handler[h] = Idle
         /\ handler[h] # Idle => handler[h].p \in Phone
         /\ handler[h].pc = "read" =>
              handler[h] \in [pc : {"read"}, p : Phone, barred : BOOLEAN]
         /\ handler[h].pc \in {"cap", "signals"} =>
              handler[h] \in [pc : {"cap", "signals"}, p : Phone, barred : BOOLEAN, cfg : Config, known : BOOLEAN]
         /\ handler[h].pc = "risk" =>
              handler[h] \in [pc : {"risk"}, p : Phone, barred : BOOLEAN, cfg : Config, known : BOOLEAN,
                              newDevice : {"yes", "no", "unknown"}, phones : {0} \cup Seen]
         /\ handler[h].pc \in {"user", "create", "send"} =>
              handler[h] \in [pc : {"user", "create", "send"}, p : Phone, barred : BOOLEAN]
         /\ handler[h].pc \in {"claim", "login"} =>
              handler[h] \in [pc : {"claim", "login"}, p : Phone]
         /\ handler[h].pc = "device" =>
              handler[h] \in [pc : {"device", "session"}, p : Phone, d : Device, new : BOOLEAN]
         /\ handler[h].pc = "session" /\ handler[h].new => handler[h].d \in Device
<1> DEFINE r == handler[h]
<1>1. r = Idle \/ r \in Requests \/ r \in Verifications
  BY DEF TypeOK
<1>2. Idle.pc = "idle"
  BY DEF Idle
<1>3. ASSUME r \in Requests
      PROVE  /\ r.p \in Phone
             /\ \/ r \in [pc : {"read"}, p : Phone, barred : BOOLEAN] /\ r.pc = "read"
                \/ /\ r \in [pc : {"cap", "signals"}, p : Phone, barred : BOOLEAN, cfg : Config, known : BOOLEAN]
                   /\ r.pc \in {"cap", "signals"}
                \/ /\ r \in [pc : {"risk"}, p : Phone, barred : BOOLEAN, cfg : Config, known : BOOLEAN,
                             newDevice : {"yes", "no", "unknown"}, phones : {0} \cup Seen]
                   /\ r.pc = "risk"
                \/ r \in [pc : {"user", "create", "send"}, p : Phone, barred : BOOLEAN] /\ r.pc \in {"user", "create", "send"}
  BY <1>3 DEF Requests
<1>4. ASSUME r \in Verifications
      PROVE  /\ r.p \in Phone
             /\ \/ r \in [pc : {"claim", "login"}, p : Phone] /\ r.pc \in {"claim", "login"}
                \/ /\ r \in [pc : {"device", "session"}, p : Phone, d : Device, new : BOOLEAN]
                   /\ r.pc \in {"device", "session"} /\ r.d \in Device
                \/ r.pc = "session" /\ r.new = FALSE
  BY <1>4 DEF Verifications
<1> HIDE DEF r
<1>5. CASE r = Idle
  BY <1>2, <1>5 DEF r
<1>6. CASE r \in Requests
  <2>1. CASE r.pc \in {"read", "risk"}
    BY <1>2, <1>3, <1>6, <2>1 DEF r
  <2>2. CASE r.pc \in {"cap", "signals"}
    BY <1>2, <1>3, <1>6, <2>2 DEF r
  <2>3. CASE r.pc \in {"user", "create", "send"}
    BY <1>2, <1>3, <1>6, <2>3 DEF r
  <2> QED  BY <1>3, <1>6, <2>1, <2>2, <2>3
<1>7. CASE r \in Verifications
  <2>1. CASE r.pc \in {"claim", "login"}
    BY <1>2, <1>4, <1>7, <2>1 DEF r
  <2>2. CASE r.pc = "device"
    BY <1>2, <1>4, <1>7, <2>2 DEF r
  <2>3. CASE r.pc = "session"
    BY <1>2, <1>4, <1>7, <2>3 DEF r
  <2> QED  BY <1>4, <1>7, <2>1, <2>2, <2>3
<1> QED  BY <1>1, <1>5, <1>6, <1>7

\* A handler's step leaves the other handlers where they are.
LEMMA Became ==
  ASSUME TypeOK, NEW h \in Handler, NEW new, Become(h, new)
  PROVE  /\ handler'[h] = new
         /\ \A g \in Handler : g # h => handler'[g] = handler[g]
         /\ new \in {Idle} \cup Requests \cup Verifications
              => handler' \in [Handler -> {Idle} \cup Requests \cup Verifications]
  BY DEF Become, TypeOK

\* The sets that are counted grow and shrink by one.
LEMMA Counted ==
  ASSUME NEW C, C \subseteq Handler, NEW D, D \subseteq Handler, NEW h
  PROVE  /\ Cardinality(C) \in Nat /\ Cardinality(D) \in Nat
         /\ D \subseteq C => Cardinality(D) <= Cardinality(C)
         /\ D \subseteq C \cup {h} => Cardinality(D) <= Cardinality(C) + 1
         /\ h \in C /\ D \subseteq C \ {h} => Cardinality(D) + 1 <= Cardinality(C)
<1>1. IsFiniteSet(Handler)
  BY SetsAssumption
<1>2. IsFiniteSet(C) /\ IsFiniteSet(D)
  BY <1>1, FS_Subset
<1>3. Cardinality(C) \in Nat /\ Cardinality(D) \in Nat
  BY <1>2, FS_CardinalityType
<1>4. D \subseteq C => Cardinality(D) <= Cardinality(C)
  BY <1>2, FS_Subset
<1>5. ASSUME D \subseteq C \cup {h} PROVE Cardinality(D) <= Cardinality(C) + 1
  <2>1. /\ IsFiniteSet(C \cup {h})
        /\ Cardinality(C \cup {h}) \in {Cardinality(C), Cardinality(C) + 1}
    BY <1>2, FS_AddElement
  <2>2. Cardinality(D) <= Cardinality(C \cup {h})
    BY <1>5, <2>1, FS_Subset
  <2> QED  BY <1>3, <2>1, <2>2
<1>6. ASSUME h \in C, D \subseteq C \ {h} PROVE Cardinality(D) + 1 <= Cardinality(C)
  <2>1. IsFiniteSet(C \ {h}) /\ Cardinality(C \ {h}) = Cardinality(C) - 1
    BY <1>2, <1>6, FS_RemoveElement
  <2>2. Cardinality(D) <= Cardinality(C \ {h})
    BY <1>6, <2>1, FS_Subset
  <2> QED  BY <1>3, <2>1, <2>2
<1> QED  BY <1>2, <1>3, <1>4, <1>5, <1>6

-----------------------------------------------------------------------------
\* The keys of the rules, and the most their counters hold.
LEMMA KeyFacts ==
  ASSUME NEW p \in Phone
  PROVE  /\ Key("verify-phone", p) \in Keys /\ Key("otp-req-phone", p) \in Keys /\ Key("otp-req-app", p) \in Keys
         /\ Key("verify-phone", p) = <<"verify-phone", p>> /\ Key("otp-req-phone", p) = <<"otp-req-phone", p>>
         /\ Key("otp-req-app", p) = <<"otp-req-app", Unknown>>
         /\ Top(Key("verify-phone", p)) = Limit["verify-phone"] /\ Top(Key("otp-req-app", p)) = LargestCap
<1>1. DOMAIN Limit = {"otp-req-phone", "otp-req-app", "verify-phone"}
  BY LimitAssumption
<1>2. /\ Key("verify-phone", p) = <<"verify-phone", p>> /\ Key("otp-req-phone", p) = <<"otp-req-phone", p>>
      /\ Key("otp-req-app", p) = <<"otp-req-app", Unknown>>
  BY DEF Key
<1>3. Key("verify-phone", p) \in Keys /\ Key("otp-req-phone", p) \in Keys /\ Key("otp-req-app", p) \in Keys
  BY <1>1 DEF Keys
<1>4. Top(<<"verify-phone", p>>) = Limit["verify-phone"] /\ Top(<<"otp-req-app", Unknown>>) = LargestCap
  BY DEF Top
<1> QED  BY <1>2, <1>3, <1>4

\* The most a counter holds is a number, and it covers the limit of its rule.
LEMMA TopType ==
  ASSUME config \in Config, NEW k \in Keys PROVE Top(k) \in Nat
<1>1. PICK rule \in DOMAIN Limit, p \in Phone : k = Key(rule, p)
  BY DEF Keys
<1>2. k[1] = rule
  BY <1>1 DEF Key
<1>3. Limit[rule] \in Nat
  BY LimitAssumption
<1> QED  BY <1>2, <1>3, Caps DEF Top

\* A hit counts, up to the top.
LEMMA HitFacts ==
  ASSUME TypeOK, NEW K, Hit(K)
  PROVE  /\ counter' \in [Keys -> Nat]
         /\ \A k \in Keys : /\ counter'[k] <= Top(k) /\ counter'[k] >= counter[k]
                            /\ k \in K /\ counter[k] < Top(k) => counter'[k] = counter[k] + 1
<1>1. \A k \in Keys : counter[k] \in Nat /\ counter[k] <= Top(k) /\ Top(k) \in Nat
  BY TopType DEF TypeOK
<1>2. counter' = [k \in Keys |-> IF k \in K /\ counter[k] < Top(k) THEN counter[k] + 1 ELSE counter[k]]
  BY DEF Hit
<1> QED  BY <1>1, <1>2

-----------------------------------------------------------------------------
\* Only h moves.
Others(h) == \A g \in Handler : g # h => handler'[g] = handler[g]

\* No counter went back.
Counting == \A k \in Keys : counter'[k] >= counter[k]

\* A step that compares no code keeps the account of the guesses.
LEMMA GuessesKept ==
  ASSUME TypeOK, TypeOK', GuessesCounted, NEW h \in Handler, Others(h), Counting,
         guesses' = guesses, handler'[h].pc # "claim"
  PROVE  GuessesCounted'
<1> SUFFICES ASSUME NEW p \in Phone
             PROVE  guesses'[p] + Cardinality(Claiming(p)') <= counter'[Key("verify-phone", p)]
  BY DEF GuessesCounted
<1>1. Claiming(p)' \subseteq Claiming(p)
  BY DEF Claiming, InFlight, Others
<1>2. Claiming(p) \subseteq Handler /\ Claiming(p)' \subseteq Handler
  BY DEF Claiming, InFlight
<1>3. /\ Cardinality(Claiming(p)) \in Nat /\ Cardinality(Claiming(p)') \in Nat
      /\ Cardinality(Claiming(p)') <= Cardinality(Claiming(p))
  BY <1>1, <1>2, Counted
<1>4. /\ counter'[Key("verify-phone", p)] >= counter[Key("verify-phone", p)]
      /\ counter'[Key("verify-phone", p)] \in Nat /\ counter[Key("verify-phone", p)] \in Nat
  BY KeyFacts DEF Counting, TypeOK
<1>5. guesses[p] \in Int /\ guesses'[p] = guesses[p]
  BY Caps DEF TypeOK
<1>6. guesses[p] + Cardinality(Claiming(p)) <= counter[Key("verify-phone", p)]
  BY DEF GuessesCounted
<1> QED  BY <1>3, <1>4, <1>5, <1>6

\* A step that sends no code keeps the account of the sends.
LEMMA SendsKept ==
  ASSUME TypeOK, TypeOK', SendsCounted, NEW h \in Handler, Others(h), Counting, sends' = sends,
         handler'[h].pc \in {"signals", "risk", "user", "create", "send"}
           => handler[h].pc \in {"signals", "risk", "user", "create", "send"}
  PROVE  SendsCounted'
<1> SUFFICES ASSUME NEW p \in Phone
             PROVE  sends' + Cardinality(Sending') <= counter'[Key("otp-req-app", p)]
  BY DEF SendsCounted
<1>1. Sending' \subseteq Sending
  BY DEF Sending, InFlight, Others
<1>2. Sending \subseteq Handler /\ Sending' \subseteq Handler
  BY DEF Sending, InFlight
<1>3. /\ Cardinality(Sending) \in Nat /\ Cardinality(Sending') \in Nat
      /\ Cardinality(Sending') <= Cardinality(Sending)
  BY <1>1, <1>2, Counted
<1>4. /\ counter'[Key("otp-req-app", p)] >= counter[Key("otp-req-app", p)]
      /\ counter'[Key("otp-req-app", p)] \in Nat /\ counter[Key("otp-req-app", p)] \in Nat
  BY KeyFacts DEF Counting, TypeOK
<1>5. sends \in Int
  BY Caps DEF TypeOK
<1>6. sends + Cardinality(Sending) <= counter[Key("otp-req-app", p)]
  BY DEF SendsCounted
<1> QED  BY <1>3, <1>4, <1>5, <1>6

\* A step that lets nobody past the decision, or lets them in first, keeps who was let in.
LEMMA AdmittedKept ==
  ASSUME AdmittedFirst, NEW h \in Handler, Others(h), users' \subseteq admitted', admitted \subseteq admitted',
         handler'[h].pc \in {"user", "create", "send"} => handler'[h].p \in admitted'
  PROVE  AdmittedFirst'
  BY DEF AdmittedFirst, InFlight, Others

\* A barred request stays short of the user and of the code.
LEMMA BarsKept ==
  ASSUME BarsStand, NEW h \in Handler, Others(h), config' = config,
         handler'[h].pc = "read" /\ handler'[h].barred => Bars(config, handler'[h].p),
         handler'[h].pc \in {"cap", "signals", "risk"} /\ handler'[h].barred => Bars(handler'[h].cfg, handler'[h].p),
         handler'[h].pc \in {"user", "create", "send"} => ~handler'[h].barred
  PROVE  BarsStand'
<1> USE DEF InFlight, Others
<1>1. \A g \in Handler : handler'[g].pc = "read" /\ handler'[g].barred => Bars(config, handler'[g].p)
  BY DEF BarsStand
<1>2. \A g \in Handler : handler'[g].pc \in {"cap", "signals", "risk"} /\ handler'[g].barred
                            => Bars(handler'[g].cfg, handler'[g].p)
  BY DEF BarsStand
<1>3. \A g \in Handler : handler'[g].pc \in {"user", "create", "send"} => ~handler'[g].barred
  BY DEF BarsStand
<1> QED  BY <1>1, <1>2, <1>3 DEF BarsStand

\* A step that saves no device and ends no login keeps the account of the devices.
LEMMA DevicesKept ==
  ASSUME DevicesHeld, NEW h \in Handler, Others(h), devices' = devices, accounted \subseteq accounted',
         handler'[h].pc = "device" /\ ~handler'[h].new => handler'[h].d \in devices[handler'[h].p],
         handler[h].pc # "session"
  PROVE  DevicesHeld'
<1> USE DEF InFlight, Others
<1>1. \A g \in Handler : handler'[g].pc = "device" /\ ~handler'[g].new => handler'[g].d \in devices[handler'[g].p]
  BY DEF DevicesHeld
<1>2. ASSUME NEW p \in Phone, NEW d \in devices[p]
      PROVE  \/ <<p, d>> \in accounted'
             \/ \E g \in Handler : handler'[g].pc = "session" /\ handler'[g].p = p /\ handler'[g].d = d /\ handler'[g].new
  <2>1. CASE <<p, d>> \in accounted
    BY <2>1
  <2>2. CASE <<p, d>> \notin accounted
    <3>1. PICK g \in Handler : handler[g].pc = "session" /\ handler[g].p = p /\ handler[g].d = d /\ handler[g].new
      BY <2>2 DEF DevicesHeld
    <3> QED  BY <3>1
  <2> QED  BY <2>1, <2>2
<1> QED  BY <1>1, <1>2 DEF DevicesHeld

\* A step that counts, lets in and accounts no less, and starts no claim, send or login.
LEMMA Kept ==
  ASSUME IInv, TypeOK', NEW h \in Handler, Others(h), Counting,
         UNCHANGED <<config, users, guesses, sends, devices>>,
         admitted \subseteq admitted', accounted \subseteq accounted',
         handler'[h].pc \notin {"claim", "device"}, handler[h].pc # "session",
         handler'[h].pc \in {"signals", "risk", "user", "create", "send"}
           => handler[h].pc \in {"signals", "risk", "user", "create", "send"},
         handler'[h].pc \in {"user", "create", "send"} => handler'[h].p \in admitted',
         handler'[h].pc = "read" /\ handler'[h].barred => Bars(config, handler'[h].p),
         handler'[h].pc \in {"cap", "signals", "risk"} /\ handler'[h].barred => Bars(handler'[h].cfg, handler'[h].p),
         handler'[h].pc \in {"user", "create", "send"} => ~handler'[h].barred
  PROVE  IInv'
<1>1. TypeOK /\ GuessesCounted /\ SendsCounted /\ AdmittedFirst /\ BarsStand /\ DevicesHeld
  BY DEF IInv
<1>2. GuessesCounted'
  BY <1>1, GuessesKept
<1>3. SendsCounted'
  BY <1>1, SendsKept
<1>4. AdmittedFirst'
  <2>1. users' \subseteq admitted'
    BY <1>1 DEF AdmittedFirst
  <2> QED  BY <1>1, <2>1, AdmittedKept
<1>5. BarsStand'
  BY <1>1, BarsKept
<1>6. DevicesHeld'
  BY <1>1, DevicesKept
<1> QED  BY <1>2, <1>3, <1>4, <1>5, <1>6 DEF IInv

-----------------------------------------------------------------------------
\* What a handler may be
Handlers == {Idle} \cup Requests \cup Verifications

\* A handler between two requests is a handler.
LEMMA IdleIs == Idle.pc = "idle" /\ Idle \in Handlers
  BY DEF Idle, Handlers

\* POST /otp/request, step by step.
LEMMA RequestStep ==
  ASSUME IInv, NEW h \in Handler, NEW p \in Phone, Request(h, p)
  PROVE  IInv'
<1> DEFINE b == Bars(config, p)
           new == [pc |-> "read", p |-> p, barred |-> b]
           K == {Key("otp-req-phone", p)}
<1>1. TypeOK
  BY DEF IInv
<1>2. /\ At(h, "idle") /\ Hit(K) /\ Become(h, IF Limited(K) THEN Idle ELSE new)
      /\ UNCHANGED <<config, users, devices, code, histories>>
  BY DEF Request
<1>3. b \in BOOLEAN
  BY DEF Bars
<1> HIDE DEF b, K
<1>4. new \in Requests /\ new.pc = "read" /\ new.p = p /\ new.barred = b
  BY <1>3 DEF Requests
<1> HIDE DEF new
<1>5. Others(h) /\ handler'[h] \in {Idle, new} /\ handler' \in [Handler -> Handlers]
  BY <1>1, <1>2, <1>4, Became DEF Others, Handlers
<1>6. TypeOK' /\ Counting
  BY <1>1, <1>2, <1>5, HitFacts DEF TypeOK, histories, Handlers, Counting
<1>7. handler'[h].pc \in {"idle", "read"} /\ handler[h].pc = "idle"
  BY <1>2, <1>4, <1>5, IdleIs DEF At
<1>8. handler'[h].pc = "read" => handler'[h].p = p /\ handler'[h].barred = b
  BY <1>4, <1>5, IdleIs
<1>9. handler'[h].pc = "read" /\ handler'[h].barred => Bars(config, handler'[h].p)
  BY <1>8 DEF b
<1> QED  BY <1>2, <1>5, <1>6, <1>7, <1>9, Kept DEF histories

\* The configuration and the user are read: a request may be found barred from here on.
LEMMA ReadStep ==
  ASSUME IInv, NEW h \in Handler, Read(h)
  PROVE  IInv'
<1> DEFINE r == handler[h]
           k == r.p \in users
           new == [pc |-> "cap", p |-> r.p, barred |-> r.barred, cfg |-> config, known |-> k]
<1>1. TypeOK
  BY DEF IInv
<1>2. r.pc = "read" /\ Become(h, new) /\ UNCHANGED <<counter, config, users, devices, code, histories>>
  BY DEF Read, At
<1>3. r.p \in Phone /\ r.barred \in BOOLEAN /\ config \in Config /\ k \in BOOLEAN
  BY <1>1, <1>2, Shapes DEF TypeOK
<1>4. r.barred => Bars(config, r.p)
  BY <1>2 DEF IInv, BarsStand, InFlight
<1> HIDE DEF k, r
<1>5. new \in Requests /\ new.pc = "cap" /\ new.p = r.p /\ new.barred = r.barred /\ new.cfg = config
  BY <1>3 DEF Requests
<1> HIDE DEF new
<1>6. Others(h) /\ handler'[h] = new /\ handler' \in [Handler -> Handlers]
  BY <1>1, <1>2, <1>5, Became DEF Others, Handlers
<1>7. TypeOK' /\ Counting
  BY <1>1, <1>2, <1>6 DEF TypeOK, histories, Handlers, Counting
<1> QED  BY <1>2, <1>4, <1>5, <1>6, <1>7, Kept DEF histories, r

\* The application cap is hit, or the request is refused.
LEMMA CapStep ==
  ASSUME IInv, NEW h \in Handler, Cap(h)
  PROVE  IInv'
<1> DEFINE r == handler[h]
           k == Key("otp-req-app", r.p)
           new == [r EXCEPT !.pc = "signals"]
<1>1. TypeOK /\ GuessesCounted /\ SendsCounted /\ AdmittedFirst /\ BarsStand /\ DevicesHeld
  BY DEF IInv
<1>2. /\ r.pc = "cap" /\ Hit({k}) /\ Become(h, IF Over(k, SendCap(r.cfg)) THEN Idle ELSE new)
      /\ UNCHANGED <<config, users, devices, code, histories>>
  BY DEF Cap, At
<1>3. /\ r \in [pc : {"cap", "signals"}, p : Phone, barred : BOOLEAN, cfg : Config, known : BOOLEAN]
      /\ r.p \in Phone /\ r.cfg \in Config
  BY <1>1, <1>2, Shapes
<1>4. r.barred => Bars(r.cfg, r.p)
  BY <1>1, <1>2 DEF BarsStand, InFlight
<1> HIDE DEF r
<1>5. new \in Requests /\ new.pc = "signals" /\ new.p = r.p /\ new.barred = r.barred /\ new.cfg = r.cfg
  BY <1>3 DEF Requests
<1> HIDE DEF new, k
<1>6. Others(h) /\ handler'[h] \in {Idle, new} /\ handler' \in [Handler -> Handlers]
  BY <1>1, <1>2, <1>5, Became DEF Others, Handlers
<1>7. TypeOK' /\ Counting
  BY <1>1, <1>2, <1>6, HitFacts DEF TypeOK, histories, Handlers, Counting
<1>8. CASE Over(k, SendCap(r.cfg))
  <2>1. handler'[h].pc = "idle"
    BY <1>1, <1>2, <1>8, Became, IdleIs
  <2> QED  BY <1>2, <1>6, <1>7, <2>1, Kept DEF histories, r
<1>9. CASE ~Over(k, SendCap(r.cfg))
  <2>1. handler'[h] = new
    BY <1>1, <1>2, <1>9, Became
  <2>2. SendsCounted'
    <3> SUFFICES ASSUME NEW p \in Phone
                 PROVE  sends' + Cardinality(Sending') <= counter'[Key("otp-req-app", p)]
      BY DEF SendsCounted
    <3>1. Key("otp-req-app", p) = k /\ k \in Keys /\ Top(k) = LargestCap
      BY <1>3, KeyFacts DEF k
    <3>2. counter[k] \in Nat /\ SendCap(r.cfg) \in Nat /\ SendCap(r.cfg) <= LargestCap /\ LargestCap \in Nat
      BY <1>1, <1>3, <3>1, Caps DEF TypeOK
    <3>3. counter[k] < Top(k)
      BY <1>9, <3>1, <3>2 DEF Over
    <3>4. counter'[k] = counter[k] + 1
      BY <1>1, <1>2, <3>1, <3>3, HitFacts
    <3>5. Sending' \subseteq Sending \cup {h} /\ Sending \subseteq Handler /\ Sending' \subseteq Handler
      BY <1>6 DEF Sending, InFlight, Others
    <3>6. /\ Cardinality(Sending) \in Nat /\ Cardinality(Sending') \in Nat
          /\ Cardinality(Sending') <= Cardinality(Sending) + 1
      BY <3>5, Counted
    <3>7. sends' = sends /\ sends \in Int
      BY <1>1, <1>2, Caps DEF histories, TypeOK
    <3>8. sends + Cardinality(Sending) <= counter[k]
      BY <1>1, <3>1 DEF SendsCounted
    <3> QED  BY <3>1, <3>2, <3>4, <3>6, <3>7, <3>8
  <2>3. GuessesCounted'
    BY <1>1, <1>2, <1>5, <1>6, <1>7, <2>1, GuessesKept DEF histories
  <2>4. AdmittedFirst'
    BY <1>1, <1>2, <1>5, <1>6, <2>1, AdmittedKept DEF histories, AdmittedFirst
  <2>5. BarsStand'
    BY <1>1, <1>2, <1>4, <1>5, <1>6, <2>1, BarsKept
  <2>6. DevicesHeld'
    BY <1>1, <1>2, <1>5, <1>6, <2>1, DevicesKept DEF histories, r
  <2> QED  BY <1>7, <2>2, <2>3, <2>4, <2>5, <2>6 DEF IInv
<1> QED  BY <1>8, <1>9

\* The signals are read; no row moves.
LEMMA SignalsStep ==
  ASSUME IInv, NEW h \in Handler, NEW d \in Device \cup {Unknown}, NEW n \in Seen, Signals(h, d, n)
  PROVE  IInv'
<1> DEFINE r == handler[h]
           phones == IF d = Unknown THEN 0 ELSE n
           newDevice == CASE d = Unknown -> "unknown"
                          [] d # Unknown /\ r.known /\ d \in devices[r.p] -> "no"
                          [] OTHER -> "yes"
           new == [pc |-> "risk", p |-> r.p, barred |-> r.barred, cfg |-> r.cfg, known |-> r.known,
                   phones |-> phones, newDevice |-> newDevice]
<1>1. TypeOK
  BY DEF IInv
<1>2. r.pc = "signals" /\ Become(h, new) /\ UNCHANGED <<counter, config, users, devices, code, histories>>
  BY DEF Signals, At
<1>3. r.p \in Phone /\ r.barred \in BOOLEAN /\ r.cfg \in Config /\ r.known \in BOOLEAN
  <2>1. r \in [pc : {"cap", "signals"}, p : Phone, barred : BOOLEAN, cfg : Config, known : BOOLEAN]
    BY <1>1, <1>2, Shapes
  <2> QED  BY <2>1
<1>4. r.barred => Bars(r.cfg, r.p)
  BY <1>2 DEF IInv, BarsStand, InFlight
<1>5. phones \in {0} \cup Seen /\ newDevice \in {"yes", "no", "unknown"}
  OBVIOUS
<1> HIDE DEF r, phones, newDevice
<1>6. new \in Requests /\ new.pc = "risk" /\ new.p = r.p /\ new.barred = r.barred /\ new.cfg = r.cfg
  BY <1>3, <1>5 DEF Requests
<1> HIDE DEF new
<1>7. Others(h) /\ handler'[h] = new /\ handler' \in [Handler -> Handlers]
  BY <1>1, <1>2, <1>6, Became DEF Others, Handlers
<1>8. TypeOK' /\ Counting
  BY <1>1, <1>2, <1>7 DEF TypeOK, histories, Handlers, Counting
<1> QED  BY <1>2, <1>4, <1>6, <1>7, <1>8, Kept DEF histories, r

\* The decision: a barred request ends here.
LEMMA RiskStep ==
  ASSUME IInv, NEW h \in Handler, Risk(h)
  PROVE  IInv'
<1> DEFINE r == handler[h]
<1>1. TypeOK
  BY DEF IInv
<1>2. r.pc = "risk" /\ UNCHANGED <<counter, config, users, devices, code, sends, guesses, accounted>>
  BY DEF Risk, At
<1>3. r.p \in Phone /\ r.barred \in BOOLEAN
  <2>1. r \in [pc : {"risk"}, p : Phone, barred : BOOLEAN, cfg : Config, known : BOOLEAN,
               newDevice : {"yes", "no", "unknown"}, phones : {0} \cup Seen]
    BY <1>1, <1>2, Shapes
  <2> QED  BY <2>1
<1>4. r.barred => Bars(r.cfg, r.p)
  BY <1>2 DEF IInv, BarsStand, InFlight
<1> DEFINE new == [pc |-> IF r.known THEN "send" ELSE "user", p |-> r.p, barred |-> r.barred]
<1>5. \/ Become(h, Idle) /\ admitted' = admitted
      \/ ~r.barred /\ Become(h, new) /\ admitted' = admitted \cup {r.p}
  <2>1. PICK codes, failures \in (IF r.known THEN History ELSE {0}) :
          LET blocked == r.cfg.mode = "enforce" /\ DecisionOf(h, codes, failures) = Block
          IN  /\ Become(h, IF blocked THEN Idle ELSE new)
              /\ admitted' = IF blocked THEN admitted ELSE admitted \cup {r.p}
    BY DEF Risk
  <2>2. r.barred => r.cfg.mode = "enforce" /\ DecisionOf(h, codes, failures) = Block
    BY <1>4, BarredIsBlocked
  <2> QED  BY <2>1, <2>2
<1> HIDE DEF r
<1>6. new \in Requests /\ new.pc \in {"send", "user"} /\ new.p = r.p /\ new.barred = r.barred
  BY <1>3 DEF Requests
<1> HIDE DEF new
<1>7. Others(h) /\ handler' \in [Handler -> Handlers]
  BY <1>1, <1>5, <1>6, Became DEF Others, Handlers
<1>8. \/ handler'[h] = Idle /\ admitted' = admitted
      \/ ~r.barred /\ handler'[h] = new /\ admitted' = admitted \cup {r.p}
  BY <1>1, <1>5, Became
<1>9. TypeOK' /\ Counting
  BY <1>1, <1>2, <1>3, <1>7, <1>8 DEF TypeOK, Handlers, Counting
<1>10. /\ handler'[h].pc \in {"idle", "send", "user"} /\ admitted \subseteq admitted'
       /\ handler'[h].pc # "idle" => handler'[h].p \in admitted' /\ ~handler'[h].barred
  BY <1>6, <1>8, IdleIs
<1> QED  BY <1>2, <1>7, <1>9, <1>10, Kept DEF r

\* The user is looked up.
LEMMA FindUserStep ==
  ASSUME IInv, NEW h \in Handler, FindUser(h)
  PROVE  IInv'
<1> DEFINE r == handler[h]
           new == [r EXCEPT !.pc = IF r.p \in users THEN "send" ELSE "create"]
<1>1. TypeOK
  BY DEF IInv
<1>2. r.pc = "user" /\ Become(h, new) /\ UNCHANGED <<counter, config, users, devices, code, histories>>
  BY DEF FindUser, At
<1>3. r \in [pc : {"user", "create", "send"}, p : Phone, barred : BOOLEAN]
  BY <1>1, <1>2, Shapes
<1>4. r.p \in admitted /\ ~r.barred
  BY <1>2 DEF IInv, AdmittedFirst, BarsStand, InFlight
<1> HIDE DEF r
<1>5. new \in Requests /\ new.pc \in {"send", "create"} /\ new.p = r.p /\ new.barred = r.barred
  BY <1>3 DEF Requests
<1> HIDE DEF new
<1>6. Others(h) /\ handler'[h] = new /\ handler' \in [Handler -> Handlers]
  BY <1>1, <1>2, <1>5, Became DEF Others, Handlers
<1>7. TypeOK' /\ Counting
  BY <1>1, <1>2, <1>6 DEF TypeOK, histories, Handlers, Counting
<1> QED  BY <1>2, <1>4, <1>5, <1>6, <1>7, Kept DEF histories, r

\* The user is inserted, or found to be there by now.
LEMMA CreateUserStep ==
  ASSUME IInv, NEW h \in Handler, CreateUser(h)
  PROVE  IInv'
<1> DEFINE r == handler[h]
           new == [r EXCEPT !.pc = "send"]
<1>1. TypeOK /\ GuessesCounted /\ SendsCounted /\ AdmittedFirst /\ BarsStand /\ DevicesHeld
  BY DEF IInv
<1>2. /\ r.pc = "create" /\ Become(h, new) /\ UNCHANGED <<counter, config, devices, code, histories>>
      /\ users' = users \cup {r.p}
  BY DEF CreateUser, At
<1>3. r \in [pc : {"user", "create", "send"}, p : Phone, barred : BOOLEAN] /\ r.p \in Phone
  BY <1>1, <1>2, Shapes
<1>4. r.p \in admitted /\ ~r.barred
  BY <1>1, <1>2 DEF AdmittedFirst, BarsStand, InFlight
<1> HIDE DEF r
<1>5. new \in Requests /\ new.pc = "send" /\ new.p = r.p /\ new.barred = r.barred
  BY <1>3 DEF Requests
<1> HIDE DEF new
<1>6. Others(h) /\ handler'[h] = new /\ handler' \in [Handler -> Handlers]
  BY <1>1, <1>2, <1>5, Became DEF Others, Handlers
<1>7. TypeOK' /\ Counting
  BY <1>1, <1>2, <1>3, <1>6 DEF TypeOK, histories, Handlers, Counting
<1>8. GuessesCounted' /\ SendsCounted'
  BY <1>1, <1>2, <1>5, <1>6, <1>7, GuessesKept, SendsKept DEF histories, r
<1>9. AdmittedFirst'
  BY <1>1, <1>2, <1>4, <1>5, <1>6, AdmittedKept DEF histories, AdmittedFirst
<1>10. BarsStand'
  BY <1>1, <1>2, <1>4, <1>5, <1>6, BarsKept
<1>11. DevicesHeld'
  BY <1>1, <1>2, <1>5, <1>6, DevicesKept DEF histories, r
<1> QED  BY <1>7, <1>8, <1>9, <1>10, <1>11 DEF IInv

\* The code is replaced by a fresh one: a send in flight becomes one made.
LEMMA SendStep ==
  ASSUME IInv, NEW h \in Handler, Send(h)
  PROVE  IInv'
<1> DEFINE r == handler[h]
<1>1. TypeOK /\ GuessesCounted /\ SendsCounted /\ AdmittedFirst /\ BarsStand /\ DevicesHeld
  BY DEF IInv
<1>2. /\ r.pc = "send" /\ Become(h, Idle) /\ sends' = sends + 1 /\ code' = [code EXCEPT ![r.p] = 0]
      /\ UNCHANGED <<counter, config, users, devices, guesses, admitted, accounted>>
  BY DEF Send, At
<1>3. Others(h) /\ handler'[h] = Idle /\ handler' \in [Handler -> Handlers]
  BY <1>1, <1>2, Became DEF Others, Handlers
<1>4. code' \in [Phone -> NoCode..MaxAttempts]
  <2>1. 0 \in NoCode..MaxAttempts
    BY SetsAssumption DEF NoCode
  <2> QED  BY <1>1, <1>2, <2>1 DEF TypeOK
<1>5. TypeOK' /\ Counting
  BY <1>1, <1>2, <1>3, <1>4 DEF TypeOK, Handlers, Counting
<1>6. SendsCounted'
  <2> SUFFICES ASSUME NEW p \in Phone
               PROVE  sends' + Cardinality(Sending') <= counter'[Key("otp-req-app", p)]
    BY DEF SendsCounted
  <2>1. h \in Sending /\ Sending' \subseteq Sending \ {h} /\ Sending \subseteq Handler /\ Sending' \subseteq Handler
    BY <1>2, <1>3, IdleIs DEF Sending, InFlight, Others
  <2>2. /\ Cardinality(Sending) \in Nat /\ Cardinality(Sending') \in Nat
        /\ Cardinality(Sending') + 1 <= Cardinality(Sending)
    BY <2>1, Counted
  <2>3. sends \in Int /\ counter[Key("otp-req-app", p)] \in Nat
    BY <1>1, KeyFacts, Caps DEF TypeOK
  <2>4. sends + Cardinality(Sending) <= counter[Key("otp-req-app", p)]
    BY <1>1 DEF SendsCounted
  <2> QED  BY <1>2, <2>2, <2>3, <2>4
<1>7. GuessesCounted'
  BY <1>1, <1>2, <1>3, <1>5, GuessesKept, IdleIs
<1>8. AdmittedFirst'
  BY <1>1, <1>2, <1>3, AdmittedKept, IdleIs DEF AdmittedFirst
<1>9. BarsStand'
  BY <1>1, <1>2, <1>3, BarsKept, IdleIs
<1>10. DevicesHeld'
  BY <1>1, <1>2, <1>3, DevicesKept, IdleIs
<1> QED  BY <1>5, <1>6, <1>7, <1>8, <1>9, <1>10 DEF IInv

-----------------------------------------------------------------------------
\* POST /otp/verify, step by step.
LEMMA VerifyStep ==
  ASSUME IInv, NEW h \in Handler, NEW p \in Phone, Verify(h, p)
  PROVE  IInv'
<1> DEFINE k == Key("verify-phone", p)
           new == [pc |-> "claim", p |-> p]
<1>1. TypeOK /\ GuessesCounted /\ SendsCounted /\ AdmittedFirst /\ BarsStand /\ DevicesHeld
  BY DEF IInv
<1>2. /\ At(h, "idle") /\ Hit({k}) /\ Become(h, IF Limited({k}) THEN Idle ELSE new)
      /\ UNCHANGED <<config, users, devices, code, histories>>
  BY DEF Verify
<1>3. new \in Verifications /\ new.pc = "claim" /\ new.p = p
  BY DEF Verifications
<1> HIDE DEF new
<1>4. Others(h) /\ handler'[h] \in {Idle, new} /\ handler' \in [Handler -> Handlers]
  BY <1>1, <1>2, <1>3, Became DEF Others, Handlers
<1>5. k \in Keys /\ k = <<"verify-phone", p>> /\ Top(k) = Limit["verify-phone"]
  BY KeyFacts
<1> HIDE DEF k
<1>6. TypeOK' /\ Counting
  BY <1>1, <1>2, <1>4, HitFacts DEF TypeOK, histories, Handlers, Counting
<1>7. handler'[h].pc \in {"idle", "claim"} /\ handler[h].pc = "idle"
  BY <1>2, <1>3, <1>4, IdleIs DEF At
<1>8. CASE Limited({k})
  <2>1. handler'[h].pc = "idle"
    BY <1>1, <1>2, <1>8, Became, IdleIs
  <2> QED  BY <1>2, <1>4, <1>6, <1>7, <2>1, Kept DEF histories
<1>9. CASE ~Limited({k})
  <2>1. handler'[h] = new
    BY <1>1, <1>2, <1>9, Became
  <2>2. counter'[k] = counter[k] + 1
    <3>1. k[1] = "verify-phone" /\ counter[k] \in Nat /\ Limit["verify-phone"] \in Nat
      BY <1>1, <1>5, Caps DEF TypeOK
    <3>2. counter[k] < Top(k)
      BY <1>5, <1>9, <3>1 DEF Limited, Over
    <3> QED  BY <1>1, <1>2, <1>5, <3>2, HitFacts
  <2>3. GuessesCounted'
    <3> SUFFICES ASSUME NEW q \in Phone
                 PROVE  guesses'[q] + Cardinality(Claiming(q)') <= counter'[Key("verify-phone", q)]
      BY DEF GuessesCounted
    <3>1. /\ counter[Key("verify-phone", q)] \in Nat /\ counter'[Key("verify-phone", q)] \in Nat
          /\ counter'[Key("verify-phone", q)] >= counter[Key("verify-phone", q)]
      BY <1>1, <1>6, KeyFacts DEF TypeOK, Counting
    <3>2. guesses'[q] = guesses[q] /\ guesses[q] \in Int
      BY <1>1, <1>2, Caps DEF TypeOK, histories
    <3>3. guesses[q] + Cardinality(Claiming(q)) <= counter[Key("verify-phone", q)]
      BY <1>1 DEF GuessesCounted
    <3>4. Claiming(q) \subseteq Handler /\ Claiming(q)' \subseteq Handler
      BY DEF Claiming, InFlight
    <3>5. Claiming(q)' \subseteq Claiming(q) \cup {h} /\ (q # p => Claiming(q)' \subseteq Claiming(q))
      BY <1>3, <1>4, <2>1 DEF Claiming, InFlight, Others
    <3>6. /\ Cardinality(Claiming(q)) \in Nat /\ Cardinality(Claiming(q)') \in Nat
          /\ Cardinality(Claiming(q)') <= Cardinality(Claiming(q)) + 1
          /\ q # p => Cardinality(Claiming(q)') <= Cardinality(Claiming(q))
      BY <3>4, <3>5, Counted
    <3>7. CASE q = p
      BY <2>2, <3>1, <3>2, <3>3, <3>6, <3>7 DEF k
    <3>8. CASE q # p
      BY <3>1, <3>2, <3>3, <3>6, <3>8
    <3> QED  BY <3>7, <3>8
  <2>4. SendsCounted'
    BY <1>1, <1>2, <1>4, <1>6, <1>7, SendsKept DEF histories
  <2>5. AdmittedFirst'
    BY <1>1, <1>2, <1>4, <1>7, AdmittedKept DEF histories, AdmittedFirst
  <2>6. BarsStand'
    BY <1>1, <1>2, <1>4, <1>7, BarsKept
  <2>7. DevicesHeld'
    BY <1>1, <1>2, <1>4, <1>7, DevicesKept DEF histories
  <2> QED  BY <1>6, <2>3, <2>4, <2>5, <2>6, <2>7 DEF IInv
<1> QED  BY <1>8, <1>9

\* A claim that finds no attempt left ends the request.
LEMMA ClaimRefusedStep ==
  ASSUME IInv, NEW h \in Handler, ClaimRefused(h)
  PROVE  IInv'
<1>1. TypeOK
  BY DEF IInv
<1>2. handler[h].pc = "claim" /\ Become(h, Idle) /\ UNCHANGED <<counter, config, users, devices, code, histories>>
  BY DEF ClaimRefused, At
<1>3. Others(h) /\ handler'[h] = Idle /\ handler' \in [Handler -> Handlers]
  BY <1>1, <1>2, Became DEF Others, Handlers
<1>4. TypeOK' /\ Counting
  BY <1>1, <1>2, <1>3 DEF TypeOK, histories, Handlers, Counting
<1> QED  BY <1>2, <1>3, <1>4, IdleIs, Kept DEF histories

\* A guess in flight becomes one made, and an attempt of the code is used.
LEMMA ClaimStep ==
  ASSUME IInv, NEW h \in Handler, NEW right \in BOOLEAN, Claim(h, right)
  PROVE  IInv'
<1> DEFINE p == handler[h].p
           new == [pc |-> "login", p |-> p]
<1>1. TypeOK /\ GuessesCounted /\ SendsCounted /\ AdmittedFirst /\ BarsStand /\ DevicesHeld
  BY DEF IInv
<1>2. /\ handler[h].pc = "claim" /\ code[p] \notin {NoCode, MaxAttempts}
      /\ code' = [code EXCEPT ![p] = IF right THEN NoCode ELSE code[p] + 1]
      /\ guesses' = [guesses EXCEPT ![p] = guesses[p] + 1]
      /\ Become(h, IF right THEN new ELSE Idle)
      /\ UNCHANGED <<counter, config, users, devices, sends, admitted, accounted>>
  BY DEF Claim, At
<1>3. p \in Phone
  BY <1>1, <1>2, Shapes, IdleIs
<1>4. new \in Verifications /\ new.pc = "login" /\ new.p = p
  BY <1>3 DEF Verifications
<1> HIDE DEF new
<1>5. Others(h) /\ handler'[h] \in {Idle, new} /\ handler' \in [Handler -> Handlers]
  BY <1>1, <1>2, <1>4, Became DEF Others, Handlers
<1>6. handler'[h].pc \in {"idle", "login"}
  BY <1>4, <1>5, IdleIs
<1>7. code' \in [Phone -> NoCode..MaxAttempts]
  <2>1. code[p] \in NoCode..MaxAttempts
    BY <1>1, <1>3 DEF TypeOK
  <2>2. NoCode \in NoCode..MaxAttempts /\ code[p] + 1 \in NoCode..MaxAttempts
    BY <1>2, <2>1, SetsAssumption DEF NoCode
  <2> QED  BY <1>1, <1>2, <2>2 DEF TypeOK
<1>8. /\ guesses' \in [Phone -> Int] /\ guesses'[p] = guesses[p] + 1
      /\ \A q \in Phone : q # p => guesses'[q] = guesses[q]
  BY <1>1, <1>2, <1>3 DEF TypeOK
<1>9. TypeOK' /\ Counting
  BY <1>1, <1>2, <1>5, <1>7, <1>8 DEF TypeOK, Handlers, Counting
<1>10. GuessesCounted'
  <2> SUFFICES ASSUME NEW q \in Phone
               PROVE  guesses'[q] + Cardinality(Claiming(q)') <= counter'[Key("verify-phone", q)]
    BY DEF GuessesCounted
  <2>1. guesses[q] + Cardinality(Claiming(q)) <= counter[Key("verify-phone", q)]
    BY <1>1 DEF GuessesCounted
  <2>2. guesses[q] \in Int /\ counter[Key("verify-phone", q)] \in Nat
    BY <1>1, KeyFacts, Caps DEF TypeOK
  <2>3. /\ Claiming(q) \subseteq Handler /\ Claiming(q)' \subseteq Handler
        /\ Claiming(q)' \subseteq Claiming(q) \ {h} /\ (q = p => h \in Claiming(q))
    BY <1>2, <1>5, <1>6 DEF Claiming, InFlight, Others
  <2>4. /\ Cardinality(Claiming(q)) \in Nat /\ Cardinality(Claiming(q)') \in Nat
        /\ Cardinality(Claiming(q)') <= Cardinality(Claiming(q))
        /\ q = p => Cardinality(Claiming(q)') + 1 <= Cardinality(Claiming(q))
    BY <2>3, Counted
  <2>5. CASE q = p
    BY <1>2, <1>8, <2>1, <2>2, <2>4, <2>5
  <2>6. CASE q # p
    BY <1>2, <1>8, <2>1, <2>2, <2>4, <2>6
  <2> QED  BY <2>5, <2>6
<1>11. SendsCounted'
  BY <1>1, <1>2, <1>5, <1>6, <1>9, SendsKept
<1>12. AdmittedFirst'
  BY <1>1, <1>2, <1>5, <1>6, AdmittedKept DEF AdmittedFirst
<1>13. BarsStand'
  BY <1>1, <1>2, <1>5, <1>6, BarsKept
<1>14. DevicesHeld'
  BY <1>1, <1>2, <1>5, <1>6, DevicesKept
<1> QED  BY <1>9, <1>10, <1>11, <1>12, <1>13, <1>14 DEF IInv

\* The device is looked up, and found known or new.
LEMMA FindDeviceStep ==
  ASSUME IInv, NEW h \in Handler, NEW d \in Device \cup {Unknown}, FindDevice(h, d)
  PROVE  IInv'
<1> DEFINE p == handler[h].p
           isNew == d # Unknown /\ d \notin devices[p]
           new == [pc |-> IF d = Unknown THEN "session" ELSE "device", p |-> p, d |-> d, new |-> isNew]
<1>1. TypeOK /\ GuessesCounted /\ SendsCounted /\ AdmittedFirst /\ BarsStand /\ DevicesHeld
  BY DEF IInv
<1>2. handler[h].pc = "login" /\ Become(h, new) /\ UNCHANGED <<counter, config, users, devices, code, histories>>
  BY DEF FindDevice, At
<1>3. p \in Phone /\ isNew \in BOOLEAN /\ (d # Unknown /\ ~isNew => d \in devices[p])
  BY <1>1, <1>2, Shapes, IdleIs
<1> HIDE DEF p, isNew
<1>4. /\ new \in Verifications /\ new.p = p /\ new.d = d /\ new.new = isNew
      /\ new.pc = IF d = Unknown THEN "session" ELSE "device"
  <2>1. CASE d = Unknown
    <3>1. isNew = FALSE
      BY <2>1 DEF isNew
    <3> QED  BY <1>3, <2>1, <3>1 DEF Verifications
  <2>2. CASE d # Unknown
    BY <1>3, <2>2 DEF Verifications
  <2> QED  BY <2>1, <2>2
<1> HIDE DEF new
<1>5. Others(h) /\ handler'[h] = new /\ handler' \in [Handler -> Handlers]
  BY <1>1, <1>2, <1>4, Became DEF Others, Handlers
<1>6. TypeOK' /\ Counting
  BY <1>1, <1>2, <1>5 DEF TypeOK, histories, Handlers, Counting
<1>7. handler'[h].pc \in {"session", "device"}
  BY <1>4, <1>5
<1>8. GuessesCounted' /\ SendsCounted'
  BY <1>1, <1>2, <1>5, <1>6, <1>7, GuessesKept, SendsKept DEF histories
<1>9. AdmittedFirst'
  BY <1>1, <1>2, <1>5, <1>7, AdmittedKept DEF histories, AdmittedFirst
<1>10. BarsStand'
  BY <1>1, <1>2, <1>5, <1>7, BarsKept
<1>11. handler'[h].pc = "device" /\ ~handler'[h].new => handler'[h].d \in devices[handler'[h].p]
  BY <1>3, <1>4, <1>5
<1>12. DevicesHeld'
  BY <1>1, <1>2, <1>5, <1>11, DevicesKept DEF histories
<1> QED  BY <1>6, <1>8, <1>9, <1>10, <1>12 DEF IInv

\* The device is saved; a new one is still to be announced.
LEMMA SaveDeviceStep ==
  ASSUME IInv, NEW h \in Handler, SaveDevice(h)
  PROVE  IInv'
<1> DEFINE r == handler[h]
           new == [r EXCEPT !.pc = "session"]
<1>1. TypeOK /\ GuessesCounted /\ SendsCounted /\ AdmittedFirst /\ BarsStand /\ DevicesHeld
  BY DEF IInv
<1>2. /\ r.pc = "device" /\ Become(h, new) /\ UNCHANGED <<counter, config, users, code, histories>>
      /\ devices' = [devices EXCEPT ![r.p] = devices[r.p] \cup {r.d}]
  BY DEF SaveDevice, At
<1>3. r \in [pc : {"device", "session"}, p : Phone, d : Device, new : BOOLEAN] /\ r.p \in Phone /\ r.d \in Device
  <2>1. r \in [pc : {"device", "session"}, p : Phone, d : Device, new : BOOLEAN]
    BY <1>1, <1>2, Shapes
  <2> QED  BY <2>1
<1>4. ~r.new => r.d \in devices[r.p]
  BY <1>1, <1>2 DEF DevicesHeld, InFlight
<1> HIDE DEF r
<1>5. new \in Verifications /\ new.pc = "session" /\ new.p = r.p /\ new.d = r.d /\ new.new = r.new
  <2>1. new \in [pc : {"device", "session"}, p : Phone, d : Device, new : BOOLEAN]
    BY <1>3
  <2> QED  BY <1>3, <2>1 DEF Verifications
<1> HIDE DEF new
<1>6. Others(h) /\ handler'[h] = new /\ handler' \in [Handler -> Handlers]
  BY <1>1, <1>2, <1>5, Became DEF Others, Handlers
<1>7. /\ devices' \in [Phone -> SUBSET Device]
      /\ \A q \in Phone : devices[q] \subseteq devices'[q] /\ (q # r.p => devices'[q] = devices[q])
      /\ devices'[r.p] = devices[r.p] \cup {r.d}
  BY <1>1, <1>2, <1>3 DEF TypeOK
<1>8. TypeOK' /\ Counting
  BY <1>1, <1>2, <1>6, <1>7 DEF TypeOK, histories, Handlers, Counting
<1>9. GuessesCounted' /\ SendsCounted'
  BY <1>1, <1>2, <1>5, <1>6, <1>8, GuessesKept, SendsKept DEF histories
<1>10. AdmittedFirst'
  BY <1>1, <1>2, <1>5, <1>6, AdmittedKept DEF histories, AdmittedFirst
<1>11. BarsStand'
  BY <1>1, <1>2, <1>5, <1>6, BarsKept
<1>12. DevicesHeld'
  <2>1. ASSUME NEW g \in Handler, handler'[g].pc = "device", ~handler'[g].new
        PROVE  handler'[g].d \in devices'[handler'[g].p]
    <3>1. handler'[g] = handler[g] /\ handler[g].p \in Phone
      BY <1>1, <1>5, <1>6, <2>1, Shapes, IdleIs DEF Others
    <3>2. handler[g].d \in devices[handler[g].p]
      BY <1>1, <2>1, <3>1 DEF DevicesHeld, InFlight
    <3> QED  BY <1>7, <3>1, <3>2
  <2>2. ASSUME NEW q \in Phone, NEW e \in devices'[q]
        PROVE  \/ <<q, e>> \in accounted'
               \/ \E g \in Handler : handler'[g].pc = "session" /\ handler'[g].p = q /\ handler'[g].d = e /\ handler'[g].new
    <3>1. CASE e \in devices[q]
      <4>1. CASE <<q, e>> \in accounted
        BY <1>2, <4>1 DEF histories
      <4>2. CASE <<q, e>> \notin accounted
        <5>1. PICK g \in Handler : handler[g].pc = "session" /\ handler[g].p = q /\ handler[g].d = e /\ handler[g].new
          BY <1>1, <3>1, <4>2 DEF DevicesHeld, InFlight
        <5>2. g # h
          BY <1>2, <5>1 DEF r
        <5> QED  BY <1>6, <5>1, <5>2 DEF Others
      <4> QED  BY <4>1, <4>2
    <3>2. CASE e \notin devices[q]
      <4>1. q = r.p /\ e = r.d /\ r.new
        BY <1>4, <1>7, <2>2, <3>2
      <4> QED  BY <1>5, <1>6, <4>1
    <3> QED  BY <3>1, <3>2
  <2> QED  BY <2>1, <2>2 DEF DevicesHeld, InFlight
<1> QED  BY <1>8, <1>9, <1>10, <1>11, <1>12 DEF IInv

\* The end of a login, or of a handler that fails, accounts for the device it found new.
LEMMA EndStep ==
  ASSUME IInv, NEW h \in Handler, Session(h) \/ Fail(h)
  PROVE  IInv'
<1> DEFINE r == handler[h]
<1>1. TypeOK /\ GuessesCounted /\ SendsCounted /\ AdmittedFirst /\ BarsStand /\ DevicesHeld
  BY DEF IInv
<1>2. /\ r.pc # "idle" /\ Become(h, Idle)
      /\ UNCHANGED <<counter, config, users, devices, code, sends, guesses, admitted>>
  BY DEF Session, Fail, At
<1>3. r.p \in Phone
  BY <1>1, <1>2, Shapes, IdleIs
<1>4. /\ accounted \subseteq accounted' /\ accounted' \subseteq Phone \X Device
      /\ r.pc = "session" /\ r.new /\ r.d \in Device => <<r.p, r.d>> \in accounted'
  <2>1. CASE Session(h)
    <3>1. r.pc = "session"
      BY <2>1 DEF Session, At
    <3>2. accounted' = IF r.new THEN accounted \cup {<<r.p, r.d>>} ELSE accounted
      BY <2>1 DEF Session
    <3>3. r.new => r.d \in Device
      BY <1>1, <3>1, Shapes
    <3> QED  BY <1>1, <1>3, <3>2, <3>3 DEF TypeOK
  <2>2. CASE Fail(h)
    <3>1. accounted' = accounted \cup {<<r.p, d>> : d \in {d \in Device : r.pc = "session" /\ r.d = d}}
      BY <2>2 DEF Fail
    <3> QED  BY <1>1, <1>3, <3>1 DEF TypeOK
  <2> QED  BY <2>1, <2>2
<1>5. Others(h) /\ handler'[h] = Idle /\ handler' \in [Handler -> Handlers]
  BY <1>1, <1>2, Became DEF Others, Handlers
<1>6. TypeOK' /\ Counting
  BY <1>1, <1>2, <1>4, <1>5 DEF TypeOK, Handlers, Counting
<1>7. GuessesCounted' /\ SendsCounted'
  BY <1>1, <1>2, <1>5, <1>6, IdleIs, GuessesKept, SendsKept
<1>8. AdmittedFirst'
  BY <1>1, <1>2, <1>5, IdleIs, AdmittedKept DEF AdmittedFirst
<1>9. BarsStand'
  BY <1>1, <1>2, <1>5, IdleIs, BarsKept
<1>10. DevicesHeld'
  <2>1. ASSUME NEW g \in Handler, handler'[g].pc = "device", ~handler'[g].new
        PROVE  handler'[g].d \in devices'[handler'[g].p]
    BY <1>1, <1>2, <1>5, <2>1, IdleIs DEF Others, DevicesHeld, InFlight
  <2>2. ASSUME NEW q \in Phone, NEW e \in devices'[q]
        PROVE  \/ <<q, e>> \in accounted'
               \/ \E g \in Handler : handler'[g].pc = "session" /\ handler'[g].p = q /\ handler'[g].d = e /\ handler'[g].new
    <3>1. e \in devices[q] /\ e \in Device
      BY <1>1, <1>2, <2>2 DEF TypeOK
    <3>2. CASE <<q, e>> \in accounted
      BY <1>4, <3>2
    <3>3. CASE <<q, e>> \notin accounted
      <4>1. PICK g \in Handler : handler[g].pc = "session" /\ handler[g].p = q /\ handler[g].d = e /\ handler[g].new
        BY <1>1, <3>1, <3>3 DEF DevicesHeld, InFlight
      <4>2. CASE g = h
        BY <1>4, <3>1, <4>1, <4>2
      <4>3. CASE g # h
        BY <1>5, <4>1, <4>3 DEF Others
      <4> QED  BY <4>2, <4>3
    <3> QED  BY <3>2, <3>3
  <2> QED  BY <2>1, <2>2 DEF DevicesHeld, InFlight
<1> QED  BY <1>6, <1>7, <1>8, <1>9, <1>10 DEF IInv

-----------------------------------------------------------------------------
\* A saved configuration moves no handler; who has yet to read one is barred by it, or not.
LEMMA BarredAnew ==
  ASSUME TypeOK, NEW c \in Config, SaveConfig(c), NEW g \in Handler
  PROVE  /\ handler'[g] \in Handlers /\ handler'[g].pc = handler[g].pc
         /\ handler[g] # Idle => handler'[g].p = handler[g].p
         /\ handler[g].pc # "read" => handler'[g] = handler[g]
         /\ handler[g].pc = "read" => handler'[g].barred = Bars(c, handler'[g].p)
<1> DEFINE r == handler[g]
           b == Bars(c, r.p)
<1>1. handler'[g] = IF r.pc = "read" THEN [r EXCEPT !.barred = b] ELSE r
  BY DEF SaveConfig, At
<1>2. b \in BOOLEAN
  BY DEF Bars
<1>3. r \in Handlers
  BY Shapes DEF Handlers
<1>4. CASE r.pc = "read"
  <2>1. r \in [pc : {"read"}, p : Phone, barred : BOOLEAN]
    BY <1>4, Shapes
  <2> HIDE DEF b
  <2>2. /\ handler'[g] \in [pc : {"read"}, p : Phone, barred : BOOLEAN]
        /\ handler'[g].pc = "read" /\ handler'[g].p = r.p /\ handler'[g].barred = b
    BY <1>1, <1>2, <1>4, <2>1
  <2> QED  BY <1>4, <2>2 DEF Handlers, Requests, b
<1>5. CASE r.pc # "read"
  BY <1>1, <1>3, <1>5
<1> QED  BY <1>4, <1>5

\* Saving the configuration keeps the invariant.
LEMMA SaveConfigStep ==
  ASSUME IInv, NEW c \in Config, SaveConfig(c)
  PROVE  IInv'
<1>1. TypeOK /\ GuessesCounted /\ SendsCounted /\ AdmittedFirst /\ BarsStand /\ DevicesHeld
  BY DEF IInv
<1>2. /\ config' = c /\ UNCHANGED <<counter, users, devices, code, histories>>
      /\ handler' = [h \in Handler |-> IF At(h, "read")
                                       THEN [handler[h] EXCEPT !.barred = Bars(c, handler[h].p)] ELSE handler[h]]
  BY DEF SaveConfig
<1>3. \A g \in Handler : /\ handler'[g] \in Handlers /\ handler'[g].pc = handler[g].pc
                         /\ handler[g].pc # "idle" => handler'[g].p = handler[g].p
                         /\ handler[g].pc # "read" => handler'[g] = handler[g]
                         /\ handler[g].pc = "read" => handler'[g].barred = Bars(c, handler'[g].p)
  BY <1>1, BarredAnew, IdleIs
<1>4. handler' \in [Handler -> Handlers]
  BY <1>2, <1>3
<1>5. TypeOK'
  BY <1>1, <1>2, <1>4 DEF TypeOK, histories, Handlers
<1>6. GuessesCounted'
  <2>1. \A p \in Phone : Claiming(p)' = Claiming(p)
    BY <1>3 DEF Claiming, InFlight
  <2> QED  BY <1>1, <1>2, <2>1 DEF GuessesCounted, histories
<1>7. SendsCounted'
  <2>1. Sending' = Sending
    BY <1>3 DEF Sending, InFlight
  <2> QED  BY <1>1, <1>2, <2>1 DEF SendsCounted, histories
<1>8. AdmittedFirst'
  BY <1>1, <1>2, <1>3 DEF AdmittedFirst, InFlight, histories
<1>9. BarsStand'
  BY <1>1, <1>2, <1>3 DEF BarsStand, InFlight
<1>10. DevicesHeld'
  <2>1. ASSUME NEW g \in Handler, handler'[g].pc = "device", ~handler'[g].new
        PROVE  handler'[g].d \in devices'[handler'[g].p]
    BY <1>1, <1>2, <1>3, <2>1 DEF DevicesHeld, InFlight
  <2>2. ASSUME NEW q \in Phone, NEW e \in devices'[q], <<q, e>> \notin accounted'
        PROVE  \E g \in Handler : handler'[g].pc = "session" /\ handler'[g].p = q /\ handler'[g].d = e /\ handler'[g].new
    <3>1. PICK g \in Handler : handler[g].pc = "session" /\ handler[g].p = q /\ handler[g].d = e /\ handler[g].new
      BY <1>1, <1>2, <2>2 DEF DevicesHeld, InFlight, histories
    <3> QED  BY <1>3, <3>1
  <2> QED  BY <2>1, <2>2 DEF DevicesHeld, InFlight
<1> QED  BY <1>5, <1>6, <1>7, <1>8, <1>9, <1>10 DEF IInv

\* Adding a user keeps the invariant.
LEMMA AddUserStep ==
  ASSUME IInv, NEW p \in Phone, AddUser(p)
  PROVE  IInv'
<1>1. TypeOK /\ GuessesCounted /\ SendsCounted /\ AdmittedFirst /\ BarsStand /\ DevicesHeld
  BY DEF IInv
<1>2. /\ users' = users \cup {p} /\ admitted' = admitted \cup {p}
      /\ UNCHANGED <<counter, config, devices, code, handler, sends, guesses, accounted>>
  BY DEF AddUser
<1>3. TypeOK'
  BY <1>1, <1>2 DEF TypeOK
<1>4. GuessesCounted' /\ SendsCounted'
  BY <1>1, <1>2 DEF GuessesCounted, SendsCounted, Claiming, Sending, InFlight
<1>5. AdmittedFirst'
  BY <1>1, <1>2 DEF AdmittedFirst, InFlight
<1>6. BarsStand' /\ DevicesHeld'
  BY <1>1, <1>2 DEF BarsStand, DevicesHeld, InFlight
<1> QED  BY <1>3, <1>4, <1>5, <1>6 DEF IInv

\* In a new window nothing was guessed or sent, and whoever is under way does not count.
LEMMA WindowStep ==
  ASSUME IInv, NEW k \in Keys, WindowEnds(k)
  PROVE  IInv'
<1>1. TypeOK /\ GuessesCounted /\ SendsCounted /\ AdmittedFirst /\ BarsStand /\ DevicesHeld
  BY DEF IInv
<1>2. /\ counter' = [counter EXCEPT ![k] = 0] /\ sends' = IF k[1] = "otp-req-app" THEN -Cardinality(Sending) ELSE sends
      /\ guesses' = [p \in Phone |-> IF k = Key("verify-phone", p) THEN -Cardinality(Claiming(p)) ELSE guesses[p]]
      /\ UNCHANGED <<config, users, devices, code, handler, admitted, accounted>>
  BY DEF WindowEnds
<1>3. /\ counter' \in [Keys -> Nat] /\ counter'[k] = 0
      /\ \A j \in Keys : j # k => counter'[j] = counter[j]
      /\ \A j \in Keys : counter'[j] <= Top(j)
  <2>1. 0 <= Top(k)
    BY <1>1, TopType DEF TypeOK
  <2> QED  BY <1>1, <1>2, <2>1 DEF TypeOK
<1>4. sends' \in Int /\ guesses' \in [Phone -> Int]
  <2>1. Sending \subseteq Handler /\ \A p \in Phone : Claiming(p) \subseteq Handler
    BY DEF Sending, Claiming, InFlight
  <2>2. Cardinality(Sending) \in Nat /\ \A p \in Phone : Cardinality(Claiming(p)) \in Nat
    BY <2>1, Counted
  <2> QED  BY <1>1, <1>2, <2>2 DEF TypeOK
<1>5. TypeOK'
  BY <1>1, <1>2, <1>3, <1>4 DEF TypeOK
<1>6. GuessesCounted'
  <2> SUFFICES ASSUME NEW p \in Phone
               PROVE  guesses'[p] + Cardinality(Claiming(p)') <= counter'[Key("verify-phone", p)]
    BY DEF GuessesCounted
  <2>1. Claiming(p)' = Claiming(p) /\ Claiming(p) \subseteq Handler
    BY <1>2 DEF Claiming, InFlight
  <2>2. Cardinality(Claiming(p)) \in Nat
    BY <2>1, Counted, Caps
  <2>3. guesses[p] + Cardinality(Claiming(p)) <= counter[Key("verify-phone", p)]
    BY <1>1 DEF GuessesCounted
  <2>4. Key("verify-phone", p) \in Keys
    BY KeyFacts
  <2>5. CASE k = Key("verify-phone", p)
    BY <1>2, <1>3, <2>1, <2>2, <2>5
  <2>6. CASE k # Key("verify-phone", p)
    BY <1>2, <1>3, <2>1, <2>3, <2>4, <2>6
  <2> QED  BY <2>5, <2>6
<1>7. SendsCounted'
  <2> SUFFICES ASSUME NEW p \in Phone
               PROVE  sends' + Cardinality(Sending') <= counter'[Key("otp-req-app", p)]
    BY DEF SendsCounted
  <2>1. Sending' = Sending /\ Sending \subseteq Handler
    BY <1>2 DEF Sending, InFlight
  <2>2. Cardinality(Sending) \in Nat
    BY <2>1, Counted, Caps
  <2>3. sends + Cardinality(Sending) <= counter[Key("otp-req-app", p)]
    BY <1>1 DEF SendsCounted
  <2>4. Key("otp-req-app", p) \in Keys /\ Key("otp-req-app", p)[1] = "otp-req-app"
    BY KeyFacts
  <2>5. CASE k = Key("otp-req-app", p)
    BY <1>2, <1>3, <2>1, <2>2, <2>4, <2>5
  <2>6. CASE k # Key("otp-req-app", p)
    <3>1. k[1] # "otp-req-app"
      BY <2>6 DEF Keys, Key
    <3> QED  BY <1>2, <1>3, <2>1, <2>3, <2>4, <2>6, <3>1
  <2> QED  BY <2>5, <2>6
<1>8. AdmittedFirst'
  BY <1>1, <1>2 DEF AdmittedFirst, InFlight
<1>9. BarsStand' /\ DevicesHeld'
  BY <1>1, <1>2 DEF BarsStand, DevicesHeld, InFlight
<1> QED  BY <1>5, <1>6, <1>7, <1>8, <1>9 DEF IInv

\* The service starts with nothing counted and nobody under way.
LEMMA InitIInv == Init => IInv
<1> SUFFICES ASSUME Init PROVE IInv
  OBVIOUS
<1>1. \A k \in Keys : Top(k) \in Nat
  BY TopType DEF Init
<1>2. 0 \in Nat /\ NoCode \in NoCode..MaxAttempts
  BY SetsAssumption DEF NoCode
<1>3. TypeOK
  BY <1>1, <1>2 DEF Init, TypeOK
<1>4. \A h \in Handler : handler[h].pc = "idle"
  BY IdleIs DEF Init
<1>5. ASSUME NEW p \in Phone
      PROVE  /\ guesses[p] + Cardinality(Claiming(p)) <= counter[Key("verify-phone", p)]
             /\ sends + Cardinality(Sending) <= counter[Key("otp-req-app", p)]
  <2>1. Claiming(p) = {} /\ Sending = {}
    BY <1>4 DEF Claiming, Sending, InFlight
  <2>2. counter[Key("verify-phone", p)] = 0 /\ counter[Key("otp-req-app", p)] = 0
    BY KeyFacts DEF Init
  <2>3. guesses[p] = 0 /\ sends = 0
    BY DEF Init
  <2> QED  BY <2>1, <2>2, <2>3, FS_EmptySet, Caps
<1>6. AdmittedFirst /\ BarsStand
  BY <1>4 DEF Init, AdmittedFirst, BarsStand, InFlight
<1>7. DevicesHeld
  BY <1>4 DEF Init, DevicesHeld, InFlight
<1> QED  BY <1>3, <1>5, <1>6, <1>7 DEF IInv, GuessesCounted, SendsCounted

\* Every step, and every stutter, keeps the invariant.
LEMMA NextIInv == IInv /\ [Next]_vars => IInv'
<1>1. ASSUME IInv, NEW h \in Handler, Serve(h) PROVE IInv'
  <2>1. ASSUME NEW d \in Device \cup {Unknown}, FindDevice(h, d) \/ \E n \in Seen : Signals(h, d, n) PROVE IInv'
    BY <1>1, <2>1, FindDeviceStep, SignalsStep
  <2>2. ASSUME NEW right \in BOOLEAN, Claim(h, right) PROVE IInv'
    BY <1>1, <2>2, ClaimStep
  <2> QED  BY <1>1, <2>1, <2>2, ReadStep, CapStep, RiskStep, FindUserStep, CreateUserStep, SendStep,
              ClaimRefusedStep, SaveDeviceStep, EndStep DEF Serve
<1>2. ASSUME IInv, UNCHANGED vars PROVE IInv'
  <2>1. TypeOK /\ GuessesCounted /\ SendsCounted /\ AdmittedFirst /\ BarsStand /\ DevicesHeld
    BY <1>2 DEF IInv
  <2> USE <1>2 DEF vars
  <2>2. TypeOK' /\ AdmittedFirst' /\ BarsStand' /\ DevicesHeld'
    BY <2>1 DEF TypeOK, AdmittedFirst, BarsStand, DevicesHeld, InFlight
  <2>3. GuessesCounted' /\ SendsCounted'
    BY <2>1 DEF GuessesCounted, SendsCounted, Claiming, Sending, InFlight
  <2> QED  BY <2>2, <2>3 DEF IInv
<1> QED  BY <1>1, <1>2, RequestStep, VerifyStep, SaveConfigStep, AddUserStep, WindowStep DEF Next

(* The inductive invariant holds in every state that concurrent requests, guesses,
   logins, changes of the configuration and ends of windows lead to. *)
THEOREM Invariant == Spec => []IInv
  BY InitIInv, NextIInv, PTL DEF Spec

(* In one window no more codes of a phone are compared than the cap allows, over
   however many fresh codes, but for the guesses let through and still under way
   when the window before it ended (ratelimit.ts:50). *)
THEOREM GuessesAreCapped == Spec => []GuessesCapped
<1>1. ASSUME IInv, NEW p \in Phone
      PROVE  guesses[p] + Cardinality(Claiming(p)) <= Limit["verify-phone"]
  <2>1. TypeOK /\ guesses[p] + Cardinality(Claiming(p)) <= counter[Key("verify-phone", p)]
    BY <1>1 DEF IInv, GuessesCounted
  <2>2. /\ counter[Key("verify-phone", p)] \in Nat /\ counter[Key("verify-phone", p)] <= Limit["verify-phone"]
        /\ guesses[p] \in Int
    BY <2>1, KeyFacts DEF TypeOK
  <2>3. Claiming(p) \subseteq Handler
    BY DEF Claiming, InFlight
  <2>4. Cardinality(Claiming(p)) \in Nat
    BY <2>3, Counted
  <2> QED  BY <2>1, <2>2, <2>4, Caps
<1>2. IInv => GuessesCapped
  BY <1>1 DEF GuessesCapped
<1> QED  BY <1>2, Invariant, PTL

(* No more codes are sent in one window than the largest cap that may be configured,
   but for the requests let through and still under way when the window before it
   ended (risk.ts:39). *)
THEOREM SendsAreCapped == Spec => []SendsCapped
<1>1. ASSUME IInv PROVE SendsCapped
  <2>1. PICK p \in Phone : TRUE
    BY SetsAssumption
  <2>2. TypeOK /\ sends + Cardinality(Sending) <= counter[Key("otp-req-app", p)]
    BY <1>1 DEF IInv, SendsCounted
  <2>3. /\ counter[Key("otp-req-app", p)] \in Nat /\ counter[Key("otp-req-app", p)] <= LargestCap
        /\ sends \in Int /\ LargestCap \in Nat
    BY <2>2, KeyFacts, Caps DEF TypeOK
  <2>4. Sending \subseteq Handler
    BY DEF Sending, InFlight
  <2>5. Cardinality(Sending) \in Nat
    BY <2>4, Counted
  <2> QED  BY <2>2, <2>3, <2>5, Caps DEF SendsCapped
<1> QED  BY <1>1, Invariant, PTL

(* Nobody has a user whom neither the risk engine nor POST /users let in: a blocked
   request leaves none behind (app.ts:601). *)
THEOREM BlockedLeaveNoUser == Spec => []BlockedLeavesNoUser
<1>1. IInv => BlockedLeavesNoUser
  BY DEF IInv, AdmittedFirst, BlockedLeavesNoUser
<1> QED  BY <1>1, Invariant, PTL

(* Once a configuration that bars a phone's country is saved, every request that had
   read none by then gets neither a user nor a code, also when the configuration is
   saved again while the request is served (app.ts:600). *)
THEOREM BarredGetNothing == Spec => []BarredGetsNothing
<1>1. IInv => BarredGetsNothing
  BY DEF IInv, BarsStand, BarredGetsNothing
<1> QED  BY <1>1, Invariant, PTL

(* Every device on record was announced, also when first logins race or fail
   (intelligence.ts:133-136). *)
THEOREM DevicesAreAnnounced == Spec => []DevicesAnnounced
<1>1. IInv => DevicesAnnounced
  BY DEF IInv, DevicesHeld, DevicesAnnounced, InFlight
<1> QED  BY <1>1, Invariant, PTL
=============================================================================
