----------------------------- MODULE RiskEngine -----------------------------
(***************************************************************************)
(* The rules of lib/risk.ts, as operators: the same input and configuration  *)
(* give the same decision.  A count or a flag of the input that is null in    *)
(* the code is 0 or "unknown" here: no rule fires on it, except               *)
(* context_missing on the two flags.  A country that is null is NoCountry.    *)
(***************************************************************************)
EXTENDS Integers

RULE_CODES ==
  {"country_blocked", "country_not_allowed", "ip_velocity_block", "device_velocity_block",
   "ip_velocity", "device_velocity", "new_device", "new_ip", "private_ip", "many_codes",
   "recent_failures", "context_missing"}

\* A hard rule blocks on its own, whatever the score
Hard == {"country_blocked", "country_not_allowed", "ip_velocity_block", "device_velocity_block"}

Velocities == {v \in [challenge : Nat, block : Nat] : 2 <= v.challenge /\ v.challenge <= v.block}

\* What riskConfigSchema lets through.  sendCapPerHour = 0: left out; its largest
\* value is not kept, nothing here depends on it
Configs(Country) ==
  {c \in [mode : {"off", "log", "enforce"}, challengeScore : 1..100, blockScore : 1..100,
          ipVelocity : Velocities, deviceVelocity : Velocities,
          allowedCountries : SUBSET Country, blockedCountries : SUBSET Country,
          sendCapPerHour : Nat, requireContext : BOOLEAN, disabledRules : SUBSET RULE_CODES] :
     c.challengeScore < c.blockScore}

defaultRiskConfig ==
  [mode |-> "log", challengeScore |-> 40, blockScore |-> 80,
   ipVelocity |-> [challenge |-> 5, block |-> 10], deviceVelocity |-> [challenge |-> 3, block |-> 6],
   allowedCountries |-> {}, blockedCountries |-> {}, sendCapPerHour |-> 0,
   requireContext |-> FALSE, disabledRules |-> {}]

\* The country of a number that belongs to none
NoCountry == "none"

Inputs(Country) ==
  [newDevice : {"yes", "no", "unknown"}, newIp : {"yes", "no", "unknown"}, privateIp : BOOLEAN,
   phonesFromIp : Nat, phonesFromDevice : Nat, deviceCount : Nat,
   codesLastHour : Nat, failedAttemptsLastHour : Nat, country : Country \cup {NoCountry}]

\* loadUserHistory of a phone without a user
NewUser == [deviceCount |-> 0, codesLastHour |-> 0, failedAttemptsLastHour |-> 0]

-----------------------------------------------------------------------------
\* A number without a country passes either list
CountryRules(in, c) ==
  {r \in {"country_blocked"} : in.country # NoCountry /\ in.country \in c.blockedCountries}
    \cup {r \in {"country_not_allowed"} :
           in.country # NoCountry /\ c.allowedCountries # {} /\ in.country \notin c.allowedCountries}

\* if ... block, else if ... challenge
Velocity(phones, v, block, challenge) ==
  {r \in {block} : phones >= v.block}
    \cup {r \in {challenge} : v.challenge <= phones /\ phones < v.block}

VelocityRules(in, c) ==
  Velocity(in.phonesFromIp, c.ipVelocity, "ip_velocity_block", "ip_velocity")
    \cup Velocity(in.phonesFromDevice, c.deviceVelocity, "device_velocity_block", "device_velocity")

HistoryRules(in, c) ==
  {r \in {"new_device"} : in.newDevice = "yes" /\ in.deviceCount > 0}
    \cup {r \in {"new_ip"} : in.newIp = "yes" /\ in.deviceCount > 0}
    \cup {r \in {"private_ip"} : in.privateIp}
    \cup {r \in {"many_codes"} : in.codesLastHour >= 3}
    \cup {r \in {"recent_failures"} : in.failedAttemptsLastHour >= 3}
    \cup {r \in {"context_missing"} : c.requireContext /\ in.newDevice = "unknown" /\ in.newIp = "unknown"}

Fired(in, c) == (CountryRules(in, c) \cup VelocityRules(in, c) \cup HistoryRules(in, c)) \ c.disabledRules

If(F, rule, points) == IF rule \in F THEN points ELSE 0

Points(F) ==
  If(F, "country_blocked", 100) + If(F, "country_not_allowed", 100)
    + If(F, "ip_velocity_block", 100) + If(F, "ip_velocity", 35)
    + If(F, "device_velocity_block", 100) + If(F, "device_velocity", 35)
    + If(F, "new_device", 25) + If(F, "new_ip", 10) + If(F, "private_ip", 20)
    + If(F, "many_codes", 20) + If(F, "recent_failures", 25) + If(F, "context_missing", 40)

Score(F) == IF Points(F) > 100 THEN 100 ELSE Points(F)

\* The decision on the rules that fired, as a rank: 0 allow, 1 challenge, 2 block
Allow == 0
Challenge == 1
Block == 2

Decide(F, c) ==
  IF F \cap Hard # {} \/ Score(F) >= c.blockScore THEN Block
  ELSE IF Score(F) >= c.challengeScore THEN Challenge ELSE Allow

evaluateRisk(in, c) == Decide(Fired(in, c), c)
=============================================================================
