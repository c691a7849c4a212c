--------------------------- MODULE PlatformProofs ----------------------------
(* That the numbers of one answer of the analytics agree, and that the cleanup job
   never takes a row that an answer still counts: the days of QueryDays, the start
   of the day in from and the 30 days of cleanup.ts are three files apart.  And
   that the checks of the environment fit the providers chosen from it. *)
EXTENDS Analytics, Startup, TLAPS

Timed(rows) == \A r \in rows : r.createdAt \in Nat

LEMMA Midnight ==
  ASSUME NEW now \in Nat, NEW days \in QueryDays
  PROVE  /\ dayKey(now) \in Nat
         /\ DAY * dayKey(now) <= now /\ now < DAY * dayKey(now) + DAY
         /\ from(days, now) \in Int
  BY SMT DEF dayKey, DAY, from, QueryDays

LEMMA RangeRecent ==
  ASSUME NEW now \in Nat, NEW t \in Nat, t <= now, NEW days \in QueryDays
  PROVE  /\ from(days, now) \in Int
         /\ from(days, now) >= t - 30 * DAY /\ t - 30 * DAY \in Int
         /\ from(days, now) >= t - 180 * DAY /\ t - 180 * DAY \in Int
<1>1. /\ from(days, now) \in Int
      /\ from(days, now) >= t - 30 * DAY /\ t - 30 * DAY \in Int
  BY Midnight, SMT DEF from, DAY, QueryDays
<1>2. t - 30 * DAY >= t - 180 * DAY /\ t - 180 * DAY \in Int
  BY SMT DEF DAY
<1> QED  BY <1>1, <1>2, SMT

LEMMA DateIs ==
  ASSUME NEW now \in Nat, NEW days \in QueryDays, NEW i \in 0..(days - 1)
  PROVE  Date(days, now, i) = dayKey(now) - (days - 1) + i
  BY SMT DEF Date, dayKey, DAY, from, QueryDays

(* The daily list shares out the rows that the totals count: each is on exactly
   one of the days listed, as long as no row is from a later day than the answer
   (a row written across midnight is counted by the total alone). *)
THEOREM DailyCoversTotals ==
  ASSUME NEW rows, NEW app, NEW now \in Nat, NEW days \in QueryDays, Timed(rows),
         \A r \in rows : dayKey(r.createdAt) <= dayKey(now)
  PROVE  \A r \in InRange(rows, app, days, now) : \E i \in 0..(days - 1) :
           /\ r \in OnDay(rows, app, days, now, Date(days, now, i))
           /\ \A j \in 0..(days - 1) :
                r \in OnDay(rows, app, days, now, Date(days, now, j)) => j = i
<1> SUFFICES ASSUME NEW r \in InRange(rows, app, days, now)
             PROVE  \E i \in 0..(days - 1) :
                      /\ r \in OnDay(rows, app, days, now, Date(days, now, i))
                      /\ \A j \in 0..(days - 1) :
                           r \in OnDay(rows, app, days, now, Date(days, now, j)) => j = i
  OBVIOUS
<1> DEFINE t == r.createdAt
           i == dayKey(t) - dayKey(now) + days - 1
<1>1. r \in rows /\ t \in Nat /\ t >= from(days, now) /\ dayKey(t) <= dayKey(now)
  BY DEF InRange, Of, Timed
<1>2. i \in 0..(days - 1)
  BY <1>1, Midnight, SMT DEF from, dayKey, DAY, QueryDays
<1>3. \A j \in 0..(days - 1) : dayKey(t) = Date(days, now, j) <=> j = i
  <2> TAKE j \in 0..(days - 1)
  <2>1. Date(days, now, j) = dayKey(now) - (days - 1) + j
    BY DateIs
  <2>2. dayKey(t) \in Int /\ dayKey(now) \in Int
    BY <1>1, Midnight DEF QueryDays, dayKey, DAY
  <2> QED  BY <2>1, <2>2 DEF QueryDays
<1>4. \A j \in 0..(days - 1) : r \in OnDay(rows, app, days, now, Date(days, now, j)) <=> j = i
  BY <1>3 DEF OnDay
<1> QED  BY <1>2, <1>4

(* Rows older than any range are all that cleanup takes of the tables that are
   counted by range. *)
LEMMA RangeKept ==
  ASSUME NEW rows, NEW app, NEW now \in Nat, NEW t \in Nat, t <= now, NEW days \in QueryDays, Timed(rows)
  PROVE  InRange(Kept(rows, t, 30), app, days, now) = InRange(rows, app, days, now)
<1>1. ASSUME NEW r \in rows, r.createdAt >= from(days, now) PROVE r.createdAt >= t - 30 * DAY
  <2>1. r.createdAt \in Int
    BY DEF Timed
  <2>2. from(days, now) >= t - 30 * DAY /\ from(days, now) \in Int /\ t - 30 * DAY \in Int
    BY RangeRecent
  <2> QED  BY <1>1, <2>1, <2>2, SMT
<1> QED  BY <1>1 DEF InRange, Of, Kept

(* A cleanup at or before an answer takes nothing from the requests, the risk
   decisions and the new devices it counts, for any number of days a caller may
   ask.  Of sessions, and so of logins, this does not hold. *)
THEOREM CleanupKeepsCounts ==
  ASSUME NEW db, NEW app, NEW now \in Nat, NEW t \in Nat, t <= now, NEW days \in QueryDays,
         Timed(db.deliveries), Timed(db.decisions),
         \A r \in db.devices : r.firstSeenAt \in Nat /\ r.lastSeenAt \in Nat /\ r.firstSeenAt <= r.lastSeenAt
  PROVE  LET after == runCleanup(db, t)
         IN /\ InRange(after.deliveries, app, days, now) = InRange(db.deliveries, app, days, now)
            /\ InRange(after.decisions, app, days, now) = InRange(db.decisions, app, days, now)
            /\ {r \in Of(after.devices, app) : r.firstSeenAt >= from(days, now)}
                 = {r \in Of(db.devices, app) : r.firstSeenAt >= from(days, now)}
<1>1. ASSUME NEW r \in db.devices, r.firstSeenAt >= from(days, now) PROVE r.lastSeenAt >= t - 180 * DAY
  <2>1. r.firstSeenAt \in Int /\ r.lastSeenAt \in Int /\ r.firstSeenAt <= r.lastSeenAt
    OBVIOUS
  <2>2. /\ from(days, now) >= t - 180 * DAY
        /\ from(days, now) \in Int /\ t - 180 * DAY \in Int
    BY RangeRecent
  <2> QED  BY <1>1, <2>1, <2>2, SMT
<1>2. {r \in Of(SeenLately(db.devices, t), app) : r.firstSeenAt >= from(days, now)}
        = {r \in Of(db.devices, app) : r.firstSeenAt >= from(days, now)}
  BY <1>1 DEF Of, SeenLately
<1> QED  BY <1>2, RangeKept DEF runCleanup

(* An answer depends on nothing of another application ("Always filtered by
   application", analytics.ts:34). *)
THEOREM TenantsApart ==
  ASSUME NEW db, NEW other, NEW app, NEW days, NEW now,
         Of(db.deliveries, app) = Of(other.deliveries, app),
         Of(db.sessions, app) = Of(other.sessions, app),
         Of(db.decisions, app) = Of(other.decisions, app),
         Of(db.devices, app) = Of(other.devices, app),
         Of(db.users, app) = Of(other.users, app),
         Of(db.apiKeys, app) = Of(other.apiKeys, app),
         Of(db.webhooks, app) = Of(other.webhooks, app),
         Of(db.webhookLogs, app) = Of(other.webhookLogs, app)
  PROVE  getAppAnalytics(db, app, days, now) = getAppAnalytics(other, app, days, now)
<1>1. /\ InRange(db.deliveries, app, days, now) = InRange(other.deliveries, app, days, now)
      /\ InRange(db.sessions, app, days, now) = InRange(other.sessions, app, days, now)
      /\ InRange(db.decisions, app, days, now) = InRange(other.decisions, app, days, now)
      /\ InRange(db.webhookLogs, app, days, now) = InRange(other.webhookLogs, app, days, now)
  BY DEF InRange
<1>2. \A d : /\ OnDay(db.deliveries, app, days, now, d) = OnDay(other.deliveries, app, days, now, d)
             /\ OnDay(db.sessions, app, days, now, d) = OnDay(other.sessions, app, days, now, d)
  BY <1>1 DEF OnDay
<1> QED  BY <1>1, <1>2 DEF getAppAnalytics

-----------------------------------------------------------------------------
(* The checks of env.ts and the choices of providers/index.ts fit together but
   for the port of the mail server, whatever the environment. *)
THEOREM ProvidersMatchChecks == Spec => []RealButForThePort
<1>1. Init => SInv
  BY DEF Init, SInv
<1>2. SInv /\ [Next]_vars => SInv'
  <2> SUFFICES ASSUME SInv, [Next]_vars PROVE SInv'
    OBVIOUS
  <2>1. CASE Start
    BY <2>1 DEF Start, SInv
  <2>2. CASE Exit
    BY <2>2 DEF Exit, SInv
  <2>3. CASE UNCHANGED vars
    BY <2>3 DEF vars, SInv
  <2> QED  BY <2>1, <2>2, <2>3 DEF Next
<1>3. SInv => RealButForThePort
  <2> SUFFICES ASSUME phase = "running", Production(env), Accepted(env), providers = buildProviders(env)
               PROVE  RealButForThePort
    BY DEF SInv, RealButForThePort
  <2>1. /\ ~Has(env, "WEBHOOK_ALLOW_PRIVATE_URLS") /\ ~Has(env, "MOCK_OUTBOX_REDIS")
        /\ Has(env, "SMTP_HOST")
        /\ env.DEPLOY_ENV = "production" => Has(env, "TWILIO_ACCOUNT_SID") /\ Has(env, "TWILIO_AUTH_TOKEN")
    BY DEF Accepted, ProductionSafe, PairsComplete, MocksAllowed
  <2>2. \A ch \in OtpChannel \ {"email"} :
          providers[ch] = IF Has(env, "TWILIO_ACCOUNT_SID") /\ Has(env, "TWILIO_AUTH_TOKEN")
                          THEN "twilio" ELSE "mock"
    BY DEF buildProviders
  <2>3. providers["email"] = IF Has(env, "SMTP_HOST") /\ Has(env, "SMTP_PORT") THEN "smtp" ELSE "mock"
    BY DEF buildProviders, OtpChannel
  <2> QED  BY <2>1, <2>2, <2>3 DEF RealButForThePort
<1> QED  BY <1>1, <1>2, <1>3, PTL DEF Spec
=============================================================================
