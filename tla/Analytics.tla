------------------------------ MODULE Analytics ------------------------------
(***************************************************************************)
(* The statistics of lib/analytics.ts and the retention of worker's           *)
(* cleanup.ts, as operators over the tables: db.deliveries, db.sessions,       *)
(* db.decisions, db.devices ... are sets of rows.  Times are seconds, where    *)
(* the code has milliseconds; DAY of them make a UTC day.                      *)
(***************************************************************************)
EXTENDS Integers, FiniteSets

DAY == 86400

\* What analyticsQuerySchema lets through
QueryDays == 1..30

\* The UTC day of a time: what to_char and toISOString().slice(0, 10) print
dayKey(t) == t \div DAY

\* Start of the day days - 1 days ago, so 7 days are today and the six before
from(days, now) == DAY * dayKey(now) - (days - 1) * DAY

Of(rows, app) == {r \in rows : r.applicationId = app}

\* where: inRange
InRange(rows, app, days, now) == {r \in Of(rows, app) : r.createdAt >= from(days, now)}

With(rows, status) == {r \in rows : r.status = status}

\* dailyCounts, read back for one date
OnDay(rows, app, days, now, date) == {r \in InRange(rows, app, days, now) : dayKey(r.createdAt) = date}

\* The day of entry i of the daily list, the oldest first
Date(days, now, i) == dayKey(from(days, now) + i * DAY)

\* A null revokedAt or consumedAt, later than any time
NoTime == 2000000000

NotRevoked(rows) == {r \in rows : r.revokedAt = NoTime}

Rate(good, all) == IF all = 0 THEN <<>> ELSE <<good, all>>

\* GET /applications/:id/analytics
getAppAnalytics(db, app, days, now) ==
  LET requests  == InRange(db.deliveries, app, days, now)
      logins    == InRange(db.sessions, app, days, now)
      decisions == InRange(db.decisions, app, days, now)
      count(status) == Cardinality(With(requests, status))
      accepted  == count("sent") + count("delivered")
      blocked(enforced) ==
        Cardinality({r \in decisions : r.decision = "block" /\ r.enforced = enforced})
  IN [otpRequests         |-> Cardinality(requests),
      deliveriesSent      |-> count("sent"),
      deliveriesDelivered |-> count("delivered"),
      deliveriesFailed    |-> count("failed"),
      deliverySuccessRate |-> Rate(accepted, accepted + count("failed")),
      logins              |-> Cardinality(logins),
      activeSessions      |-> Cardinality({r \in NotRevoked(Of(db.sessions, app)) : r.expiresAt > now}),
      users               |-> Cardinality(Of(db.users, app)),
      activeApiKeys       |-> Cardinality(NotRevoked(Of(db.apiKeys, app))),
      activeWebhooks      |-> Cardinality(NotRevoked(Of(db.webhooks, app))),
      newDevices          |-> Cardinality({r \in Of(db.devices, app) : r.firstSeenAt >= from(days, now)}),
      riskChallenged      |-> Cardinality({r \in decisions : r.decision = "challenge"}),
      riskBlocked         |-> blocked(TRUE),
      riskWouldBlock      |-> blocked(FALSE),
      webhookFailures     |-> Cardinality(With(InRange(db.webhookLogs, app, days, now), "failed")),
      byChannel           |-> [ch \in {r.requestedChannel : r \in requests} |->
                                 LET here == {r \in requests : r.requestedChannel = ch}
                                 IN [requests |-> Cardinality(here),
                                     failed |-> Cardinality(With(here, "failed"))]],
      daily               |-> [i \in 0..(days - 1) |->
                                 LET day(rows) == Cardinality(OnDay(rows, app, days, now, Date(days, now, i)))
                                 IN [otpRequests |-> day(db.deliveries), logins |-> day(db.sessions)]]]

\* The line of one application in GET /analytics/overview
getOverview(db, app, days, now) ==
  [otpRequests |-> Cardinality(InRange(db.deliveries, app, days, now)),
   logins      |-> Cardinality(InRange(db.sessions, app, days, now))]

-----------------------------------------------------------------------------
Kept(rows, now, days) == {r \in rows : r.createdAt >= now - days * DAY}

SeenLately(rows, now) == {r \in rows : r.lastSeenAt >= now - 180 * DAY}

\* The rows the hourly job leaves, of the tables it touches
runCleanup(db, now) ==
  [otps       |-> {r \in db.otps : r.expiresAt >= now - DAY /\ r.consumedAt >= now - DAY},
   sessions   |-> {r \in db.sessions : r.expiresAt >= now /\ r.revokedAt >= now - 7 * DAY},
   deliveries |-> Kept(db.deliveries, now, 30),
   devices    |-> SeenLately(db.devices, now),
   ips        |-> SeenLately(db.ips, now),
   decisions  |-> Kept(db.decisions, now, 30),
   auditLogs  |-> Kept(db.auditLogs, now, 365)]
=============================================================================
