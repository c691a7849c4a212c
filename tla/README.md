# OTPlease in TLA+

OTPlease logs users in with one-time codes. An application's backend asks the API to send a code
(`POST /applications/:id/otp/request`), a worker sends it by SMS, WhatsApp, voice or email, the user's
guess is checked (`.../otp/verify`), and a right guess opens a session with a rotating refresh token.

This directory models the parts of the service that keep state under concurrency and failure, checks
them with TLC on small instances, and proves the most important of their safety properties with TLAPS
for every size. Paths below are relative to `src/`; `app.ts`, `lib/`, `queue/` and `providers/` are in
`apps/server/src/`, the worker is in `apps/worker/src/`.

## The system

Three kinds of process share a PostgreSQL database (through Prisma) and a Redis (limits and BullMQ):
the API server (Fastify, any number of instances), the worker, and outside them the providers (Twilio,
SMTP) and the applications' own webhook receivers. A handler of the server yields at every `await`, and
there may be several servers, so between any two statements of a handler anything else may run. Only
one transaction spans statements (`app.ts:668`); everything else relies on single conditional
`updateMany`s, on unique keys with upserts, and on Lua scripts in Redis.

| Component | State | Operations | Talks to | What is hard | What makes it correct |
|---|---|---|---|---|---|
| one-time codes (`app.ts` 574-767) | `OtpCode` rows: attempts, consumedAt, expiresAt | request, verify, cleanup | queue, sessions | two requests or guesses at once; errors between statements; expiry and cleanup in between | one active code per user, bounded guesses, single use, no code lost for nothing |
| sessions (`lib/session.ts`) | `Session` rows: current and previous hash, revokedAt, expiresAt | create, refresh, authenticate, revoke, revoke all, cleanup | codes create them | concurrent refreshes, lost replies, revocation in mid-refresh | a token works once, theft is detected and only theft, a dead session stays dead |
| lockout of guessers (`app.ts` 177-269) | one Redis counter per address | lockedOut, authorize, authorizeAdmin, recordAuthFailure | limits, audit log | the check and the count are apart | bounded overshoot, every lockout ends |
| delivery of codes (`queue/otp-queue.ts`, worker `otp-worker.ts`, `app.ts` 786-824) | `Delivery` rows, BullMQ jobs | create, enqueue, run, retry, callback | providers, webhooks | at-least-once jobs, stalls, ambiguous answers, callbacks out of order | the row tells the truth, one message, an end to every job |
| rate limits (`lib/ratelimit.ts`, `app.ts` 163-171, 583-625) | Redis counters per rule and subject | checkRateLimits, peek | every route | all rules counted even if one refuses; windows | caps hold, fail closed |
| webhooks (`queue/webhook-queue.ts`, worker `webhook-worker.ts`, `lib/webhook-http.ts`) | endpoints, `WebhookLog` rows, jobs | emit, deliver, retry, cancel, rotate | every component emits | partial failure in the emitter's loop, retries after success | the log tells the truth, every endpoint gets its job, a revoked one hears of runs under way at most |
| webhook signatures (`lib/webhook-signature.ts`) | the receiver's replay guard | sign, verify | receivers | tolerance and memory windows | an event is taken once per window |
| risk engine (`lib/risk.ts`) | `RiskConfig`, `RiskDecision` rows | evaluate, configure | request handler | many weighted rules, modes | more evidence never softens a decision; a block leaves nothing behind |
| device intelligence (`lib/intelligence.ts`) | `Device`, `SeenIp` rows, a velocity counter | recordLogin, computeSignals | verify, risk | find then upsert | every device is announced |
| tenants, users, API keys (`lib/tenant.ts`, `lib/apikeys.ts`, `app.ts`) | `Application`, `User`, `ApiKey` rows | create, issue, revoke, findOrCreate | authorize | a create that loses a race rereads, revocation in flight | one tenant's key never works on another |
| audit log (`app.ts` 206-229) | `AuditLog` rows | audit | every admin action | failures are swallowed | the record exists when the action happened |
| cleanup, retention (worker `cleanup.ts`) | deletes from most tables | hourly | codes, sessions, analytics | rows deleted under a handler, or before they are counted | nothing live, and nothing still counted, is deleted |
| analytics (`lib/analytics.ts`) | none (reads) | counts | retention | windows against retention | counts what it says |
| environment checks (`lib/env.ts`) | none | validate at start | the choice of providers | combinations of flags | unsafe combinations refuse to start |
| lifecycle, validation, OpenAPI, metrics, masking, encryption | none that matters here | | | | |
| web dashboard, demo, deployment | clients and packaging | | | | |

`PROJECT.json` lists every component with its status, and under "hazards" the places where each can go
wrong in a way a test would hardly reach.

## The modules

| Module | Models |
|---|---|
| `OtpLogin` | abstract: what a login by one-time code promises, without rows, locks or handlers |
| `OtpCodes` | the handlers of request and verify, the transaction, cleanup; implements `OtpLogin` |
| `OtpCodesProofs` | proofs about `OtpCodes` |
| `Sessions` | sessions and refresh tokens |
| `SessionsProofs` | proofs about `Sessions` |
| `AuthLockout` | the lockout of an address that guesses credentials |
| `AuthLockoutProofs` | proofs about `AuthLockout` |
| `OtpDelivery`, `OtpDeliveryProofs` | queue, worker, provider and callbacks; proofs |
| `RiskEngine` | the rules of `lib/risk.ts` as operators |
| `OtpService` | what stands around a code: limits, signals, risk, users, devices; extends `RiskEngine` |
| `OtpServiceProofs` | theorems about the decision of `RiskEngine`, and proofs about `OtpService` |
| `ApiKeys`, `ApiKeysProofs` | applications, keys, scopes, who may do what; proofs |
| `WebhookDelivery` | webhook endpoints, the emitter, the worker and its queue |
| `WebhookReceiver` | what a receiver does with a signed request |
| `WebhookProofs` | proofs about both ends of a webhook, `WebhookDelivery` and `WebhookReceiver` |
| `Analytics` | statistics and retention as operators over tables |
| `Startup` | the checks of the environment and the providers chosen |
| `PlatformProofs` | theorems about `Startup` and `Analytics` |
| `MC...` | the instances; each `.cfg` is one run |

Definitions marked "Mistake" are plausible bugs in the definition that follows them. They are used by no
specification: substituted for it, they show that a property is sensitive to that line of the code.

### OtpLogin and OtpCodes

A handler's execution is a record with a program counter: `tx[r]` for a request and its transaction,
`ver[v]` for a verification. Each database statement is an action, so that others run between the
`findFirst`, the claim, the comparison (in memory, part of the claim's step), the consume and the
`createSession` of a verification. PostgreSQL is modelled at READ COMMITTED: an update waits for a row
that an open transaction has updated (`RowLocked`) and then evaluates its condition on the row as it is
now; a plain read sees committed rows (`ActiveRows`); `pg_advisory_xact_lock` is `LockFree`. A handler
may fail at any of its stages (`RequestFail`, `VerifyFail`), and a transaction then rolls back.
A row's age is valid, expired, or old enough for cleanup (`Tick`). What a verification compares the code
with is a choice: right and wrong guesses are `VerifyCorrect` and `VerifyIncorrect`.

Several users in the source may share the lock key by a collision of `hashtext`; that only makes them
wait for each other, and is left out. The order of `createdAt` never matters to `findFirst` because of
`OneActiveCode`, which is checked; the model reads any active row.

`OtpLogin` knows the codes that can log a user in, how often each was guessed, the codes that won a
login and the sessions they opened. The mapping: `live` are the active rows, `issued` the committed
ones, `tries` the attempts, `winning` the codes that a verification has consumed and not yet turned
into a session. So the refinement says, among other things, that a guess which read a row before it was
retired cannot win afterwards, and that consume and session are one promise kept at most once.

### Sessions

Tokens are numbered in the order they are minted; the secret and its hash only tell one from another.
`held[s]` are the tokens some client was handed: anyone who holds one may present it, at any time,
repeatedly and concurrently, which covers a thief and a client that retries after a lost reply (the
reply of a rotation may not arrive: `RefreshLoad`). A refresh is the conditional update
(`RefreshRotate`, `RefreshRefused`), then either the update of the reuse detection (`RefreshReuse`) or
the load of the row (`RefreshLoad`, `RefreshGone`). Logout authenticates, then revokes; revoke-all is
one statement. `exchanged` is a history variable.

### AuthLockout

One address, whose concurrent requests (`caller[c]`) go through `lockedOut` (one or two reads),
the check of the credential (a choice), and `recordAuthFailure`: the INCR script, the read that follows
it, the audit record. The window is an action that ends it at any time while the counter has an
expiry. `late` is a history variable of the current window.
Whether the credential is right, which is a choice here, is what `ApiKeys` decides.

### OtpDelivery

`row[d]` is the `Delivery`, `job[d]` its BullMQ job with attempts made and stalls, `work[w]` one run of
a job in a worker process, `cb[h]` a status callback between its read and its update. BullMQ is modelled
from how the code uses it and from the guarantees it documents: a run holds a lock, a run that dies
(`Crash`) or fails to renew its lock (`LoseLock`) makes the job stall, a stalled job is run again
`MaxStalls` times and then failed by the queue itself, a run without its lock cannot finish the job but
its other effects remain. The provider may refuse, accept, or accept without the answer arriving; an
answer may come without an id (`data.sid` and `info.messageId` are optional), and the update then leaves
whatever id the row has (`StoredSid`). It may post any of the statuses of `TWILIO_STATUS` for a message
with an id at any time, repeatedly and in any order, as the tests do. Message ids are positions in `msgs`.
A callback that finds no row or is stale changes nothing and is not an action. `mishaps[d]` counts the
failures that touched a delivery; it bounds them. `SentMeansAccepted` and `JobEnds` hold whatever fails,
and `OneMessage` counts: each failure costs the user one more message at most. What cannot survive a
failure says so (`Unharmed`): no code marks the row of a job that the queue itself gave up after a stall,
or emits the event of an update that was the last thing a process did.

Not in it: the backoff delay (a retry may come at any time), the `removeOn...` options, the encryption
of the code in the job, the retention of deliveries (30 days, far beyond the life of a job).

### OtpService and RiskEngine

One application and its phones. `handler[h]` is a request being served; its steps are the awaits of the
routes of request and verify: the limits of the phone, the configuration and the user read together, the
cap of the application, the signals, the decision, `findOrCreate` in two steps, the code; and the claim of
a guess, `recordLogin` in two steps, the session. Here a code is an attempt counter and its checks are one
step, since `OtpCodes` has its life in detail; what this module adds is what holds over many codes.
Counters stop at the largest limit they are compared with (`Top`), beyond which hits are all alike.
`sends`, `guesses`, `admitted`, `accounted` and a request's `barred` are history. A window's `sends` and
`guesses` start below zero by as many as the one before let through and left under way: those are the
earlier window's, and the caps allow nothing else. `barred` says of a request that has yet to read the
configuration whether the one saved last bars its phone; from the read on it stays as it is, so a request
decided by a configuration that has since been replaced is held to what it read.

`RiskEngine` has `evaluateRisk` as an operator: the set of rules that fire, their points, and the decision
as a rank, so that "softer" is "<". `loadUserHistory` counts codes and attempts of the last hour, of which
`OtpService` takes any (`History`), and likewise for the velocity of phones (`Seen`). A phone may have no country (`NoCountry`:
`countryFor(...) ?? null`), and then neither country rule fires: such a phone exists in the proofs, which are
for any phones and countries, but not in TLC's instance, which has one phone, of a country. A handler that fails
ends without an answer (`Fail`), which is also how an upsert loses its race.

Left out: the limits per country and per address and the rows and signals of addresses, counted by the same
calls in the same steps; `RiskDecision` rows, which nothing reads back; `challenge`, which the service only
reports.

### ApiKeys

`req[c]` is a request from the moment its sender begins it (`Ask`: a key is presented only by someone who
was shown it, and may be revoked by then) through its authorization (`Allowed`, `Forbidden`, `Rejected`) to
its effect. Between the two, keys may be revoked and other requests served. Every route is listed with the
scope it asks for and whether it takes the admin token, a key, or both; `Routes` is the union, and a run
takes some of them. What routes do beyond applications, keys and users is other modules' ("serve").

### WebhookDelivery

The endpoints are those of one application subscribed to the events' type. `emitter[ev]` is the loop of
`enqueue` (find, then a log row and a job for each): `left` is what the code's loop has yet to do, while
`due`, a history, keeps the endpoints that were live when the emission began and `log` and `job` what it has
written. `EveryoneQueued` compares these, so an emission that ends early, skips or forgets one is caught; of
one that fails on its way (`pc = "failed"`) it says that at most one log is an orphan, without a job.
`work[w]` is a run of a job: look up the endpoint, sign with its secret of that moment, post, record. BullMQ is
as in `OtpDelivery`. A receiver accepts or refuses, or accepts and its answer is lost; the connection that
`guardedLookup` refuses is a refusal. `got` is what the receiver has seen (`received`) and what it has answered
in time with a 2xx (`answered`), and `stale` how many posts were made for a row that had changed since it was
read. A log may say success only of an event that was answered.

### WebhookReceiver

`verifyWebhook` and `ReplayGuard` with a clock in milliseconds; a signed request arrives any number of
times. It has no run: the interesting cases need a clock longer than the window, and the theorems hold for
a window of any length.

### Startup

`checkedSchema` of `lib/env.ts` as predicates on an environment (which settings are not blank, three secrets,
two modes), and `buildProviders` as a function of the same environment. One behaviour is one start.

### Analytics

`getAppAnalytics`, `getOverview` and `runCleanup` as operators over sets of rows, in seconds. There is no
next-state relation and no run: what matters is that three windows chosen in three files fit together, which
is proved.

## The runs

| Run | Instance | Shows |
|---|---|---|
| `otp_codes` | 1 user, 3 codes, 2 requests and 2 verifications at once, 2 attempts | `OneActiveCode`, `SingleUse`, `KeepsACode`: a user's code is only ever lost to a login or to age, not to a request that failed; `ImplementsOtpLogin`; `IInv`, the invariant of the proofs, in which are `TypeOK` and `SentCodeWasIssued` |
| `otp_codes_live` | 1 user, 2 codes, 1 attempt | `RequestsEnd`, `VerifiesEnd`: nobody waits for ever for the locks |
| `sessions` | 2 users, 2 sessions, 3 tokens each, 2 refreshes and a logout at once | `SingleExchange`, `DeadStaysDead`, `NoFalseTheft`, `ReplayDetected`, `IInv`, and `RowsGo`: every session row is deleted in the end |
| `sessions_replay` | 1 session, 3 tokens | finding: a token rotated away twice does not end the session when replayed |
| `auth_lockout` | 3 requests at once, limit 3, errors | `BoundedOvershoot`, `LateRefused`, `LockoutEnds` |
| `api_keys` | 2 callers, 2 applications, 2 keys, 4 routes | `RevokedNeverAllowed`, `OwnTenantOnly`, `KeysHaveApplications` |
| `otp_service` | 1 phone, 2 devices, 2 handlers, 2 configurations, 1 attempt, limits 1 and 2 | `GuessesCapped`, `SendsCapped`, `BlockedLeavesNoUser`, `BarredGetsNothing`, `DevicesAnnounced`, and the proof's `IInv` |
| `delivery` | 1 delivery, 2 channels, 2 attempts, 2 runs at once, callbacks one at a time, 2 mishaps, 1 stall | `SentMeansAccepted`, `OneMessage`, `ExhaustedMarked`, `Announced`, `DeliveredStays`, the proof's `IInv`, and of the liveness `JobEnds` and `Settles` |
| `delivery_undone` | 2 callbacks at once, nothing fails | finding: `delivered` is overwritten by `failed` |
| `delivery_revived` | 1 callback at a time, nothing fails | finding: a late `sent` revives a failed delivery |
| `webhooks` | 1 event, 2 endpoints, 2 workers, 2 attempts, 1 stall, 1 rotation, 2 mishaps | `SuccessMeansReceived`, `FailedNeverReceived`, `PostsBounded`, `StalePostsBounded`, `EveryoneQueued`, `EndedIsSettled`, and the proof's `IInv` |
| `startup_mock` | every environment over 4 secrets, one a placeholder | finding: a production server that mocks its email |

`TypeOK`, which holds the bounds (attempts of a code, of a job, counters, scopes of a key), is checked within
`IInv` by `otp_codes`, `sessions`, `delivery`, `otp_service` and `webhooks`; of `AuthLockout` and `ApiKeys`
it is proved.

Why these bounds are enough to be interesting: two handlers of a kind are what every race in the code
needs, and a third code (`otp_codes`) lets a third request overtake a verification that read the
first; one attempt more than one is what tells a lost increment from a used one; three tokens are what
tells "previous" from "earlier"; three callers are one more than the race for the limit needs; two
channels with two attempts reach every branch of the chain and of the retry, and one stall with two
mishaps lets a job be run again, beside its first run, and given up. In `otp_codes` one user is enough:
users share neither rows nor locks, and the proofs are for any number of them. In `otp_service` a limit of
two with one attempt per code takes a fresh code to reach; one configuration bars the phone and caps its
sends, the other blocks on the device, and they are swapped at any time. In `api_keys` two applications with
a key each are what isolation needs, and the key of one may be revoked while the other's request is under
way. Two endpoints are one more than the emitter's first. Deliveries, events and addresses share no state,
so one of each is enough. TLC symmetry is used only in runs without liveness. The bounds in guards are
`MaxToken` (tokens minted per session), the number of `Id`s, `Session`s, `Key`s and `Event`s (rows ever
created), `MaxSecret` (rotations) and `MaxMishaps`.

`CHECK_DEADLOCK FALSE` appears in the delivery and webhook runs and in `startup_mock`: a delivery or an event
that is done has nothing left to do, nor has a process that has started or exited. All other instances
never stop: time, cleanup and callers go on.

Fairness, where liveness is checked: handlers go on once the statement they wait for can be executed
(the database answers or times out). Grants of the advisory lock and of row locks are strongly fair:
PostgreSQL queues waiters in order, and the lock is free again and again while others pass through.
Sessions age and cleanup runs hourly. A counter in Redis that has an expiry expires. Runs of the worker
go on (`fetch` and the database time out), BullMQ looks for stalled jobs periodically. No client ever
owes a request, no provider a callback, and nothing is assumed to succeed.

## The proofs

`tlapm` checks every theorem and lemma to the last leaf. The assumptions are the named ASSUMEs of the
modules on their constants (a limit is a positive number, a null value is not a real one, there is a phone
to serve, handlers and workers are finitely many) and nothing else. Every safety invariant a passing run
checks is also a theorem.

**OtpCodes.** `Invariant`: `IInv` holds of `Spec` for any users, codes, handlers and attempts. By itself
`OneActiveCode` is not inductive: a request that is about to commit has to know that no other row of its
user is active. So `IInv` adds that a user's advisory lock has one holder (`LockExclusive`), that the
rows a transaction has retired stay consumed and locked (`RetiredHeld`), that once it has retired it
has all of the user's active rows (`RetiredCovers`), what the row it inserted looks like
(`InsertedRow`), and for `SingleUse` that a verification past the consume is the only one for its code
(`GuessedRow`). From it follow `TypeCorrect` (which contains the bound on the attempts),
`OneActiveCodeAlways`, `SingleUseAlways`, `SentCodeWasIssuedAlways`, the action property
`KeepsACodeAlways`, and `Refinement`: `Spec` implies `OtpLogin`'s `Spec` under the mapping above, each
action shown to be a step of it or a stutter.

**Sessions.** `IInv` is an account of the tokens: exactly those before the current one were exchanged,
once (`ExchangedBefore`); the remembered one is the one before the current (`PrevBehind`); nobody holds a
token that was not minted (`HeldMinted`); a refresh in flight presented a minted token (`RefreshMinted`).
`SingleExchangeAlways`, `NoFalseTheftAlways`, `ReplayDetectedAlways` and `DeadStaysDeadAlways` follow,
for any number of sessions, tokens and handlers.

**AuthLockout.** `BoundedOvershoot` is inductive once a request let through is weighed as a failure still
to come: a hit moves one from `Passed` to `count`. `LateRefused` needs that requests which began
locked out are in a window that still is (`LateLocked`). Both hold for any limit and any finite number
of concurrent requests.

**ApiKeys.** A request's permission is used after the await it was granted in, so `TenantIsolation` needs that
what let it in stays true: a key's row keeps its application and scopes, and is never unrevoked
(`GrantsHold`, `RevokedStays`), and belongs to an application that exists (`KeysOfApps`). From `IInv` follow
`TypeCorrect`, `RevokedIsRefused`, `ApplicationExists`, and the action property, for any number of callers,
keys, applications and routes.

**OtpDelivery.** Why a row stands for an accepted message is short (`SidsAgree`: a run about to record one has
had one accepted, and ids in rows and in runs are of messages of that delivery); the rest is about a job that
may run beside itself.
`JobsHeld`: the lock of a job has one holder, of the attempt the queue counts next. `MessagesAccounted`: a
run goes down the chain of channels once, so the messages accepted and the channels its runs may still try
(`Pending`) are at most `Channels` for every attempt and stall begun (`Started`); from this comes
`MessagesAreBounded`, the bound on what a delivery can be billed, which holds whatever fails (no run checks
it by itself: `delivery` checks `MessagesAccounted`, which is stronger, within `IInv`). `MessagesPaid` is the sharper account that
`OneMessageOnly` needs: whoever may still send a message without another failure (a run that tries a channel, a
run that holds the lock and leaves the job to be retried, a job that no run has) is weighed as the message it may
send, and each failure pays for one. And for a
delivery that nothing has failed for (`InOrder`): its one run holds the lock, no message was accepted
before the run is past `send` (`MessagesAgree`), a run ending the last attempt has marked the row
(`FailuresMarked`), and what the row says is announced or has someone about to (`EventsAgree`). From it
`ExhaustedIsMarked` and `AllIsAnnounced`. A delivery is disturbed by steps of its own only
(`Untouched`), so all of it holds with any number of them. `DeliveredStays` is proved under the hypothesis
that callbacks are handled one at a time (`OneByOneDeliveredStays`), with one more invariant: the row
a callback is about to update does not say delivered by then (`ReadHolds`). Without the hypothesis it is
false, and `delivery_undone` shows how.

**WebhookDelivery.** `IInv` is built likewise: `JobsHeld`; `EmissionsInOrder`, every endpoint that was due and
is not left has its log and its job, and only the one the loop is at, or was at when it failed, may have the one
without the other; `RunsAccounted`, a post made or still to be made was begun by an attempt or a stall;
`AnswerKnown`, a run about to record a success was answered; and, while nothing has failed, that log, job and
receiver agree with where the run is (`UnharmedInOrder`). `StalePostsBounded` and `SuccessMeansReceived` are
inductive beside them: a stale run is weighed as the post it has yet to make. The theorems hold for any events,
endpoints, workers, attempts, stalls and rotations.

**WebhookReceiver.** For a memory twice as long as the tolerance, as the defaults are, `OncePerWindow`: the
same signed request is processed twice only if the first time was the very first second of its window and
the other its very last. The invariant: what was taken is remembered until its memory ends.

**OtpService.** A cap is a statement about history (`guesses`, `sends`), a limit about a counter that stops
being told apart beyond its top and is reset at any time. `GuessesCounted` and `SendsCounted` tie them: what
was done in this window, with what handlers past the limit are about to do, is at most the counter. A new window
starts both sides anew, the history below zero by those still under way. Since a fresh code changes neither
side, the cap on guesses holds over any number of codes. `AdmittedFirst`: who has or is
about to get a user was let in. `BarsStand`: a request that is barred before it reads the configuration is barred by
the one it then reads, which it keeps whatever is saved next, and the decision blocks it whatever the other signals are
(`BarredIsBlocked`). `DevicesHeld`: a device on record is accounted for, or a login that found it new is about
to announce it. The largest cap is a `CHOOSE` over the configurations, which exists since they are
finitely many (`LargestExists`, by a minimal counterexample and the library's well-foundedness of finite
sets). All of it for any phones, devices, limits, configurations and finite number of handlers.

**RiskEngine.** No induction is needed. `MoreRulesNeverSoften` (points only add up and a hard rule blocks);
from it `DisablingNeverHardens` and `MorePhonesNeverSoften`, the latter with the assumption that
`ip_velocity_block` is not disabled, which the `else if` of `risk.ts:111` makes necessary; `NewUserAllowed`
for the default configuration.

**Startup.** `ProvidersMatchChecks`: what the checks of the environment do ensure of the providers.

**Analytics.** `DailyCoversTotals`: a row in the totals is on exactly one day listed (rows of a day that began
during the answer excepted). `CleanupKeepsCounts`: no delivery, decision or device that an answer counts was
taken by an earlier cleanup, for any number of days a caller may ask. `TenantsApart`: an answer depends on
the rows of its application only.

**Only model-checked.** Liveness: `RequestsEnd`, `VerifiesEnd`, `RowsGo`, `LockoutEnds`, `JobEnds` and
`Settles` need fairness and ENABLED, which this prover does not reason about.

## Findings

Each is a run that TLC ends with a counterexample; `PROJECT.json` quotes the line that says otherwise.

1. Reuse detection remembers one token: replaying an older one is refused but does not end the session,
   against the comment at `lib/session.ts:64` (`sessions_replay`).
2. The callback handler reads, decides, and updates by id: two callbacks at once take a delivery back
   from delivered, `app.ts:808-813` (`delivery_undone`).
3. `failed` has no entry in `STATUS_RANK`, so a late `sent` callback turns a failed delivery into a sent
   one, `app.ts:786`, `810` (`delivery_revived`).
4. The production checks ask for `SMTP_HOST`, the email provider for `SMTP_PORT` too: without the port a
   production server starts with its email on the mock, against `lib/env.ts:118` (`startup_mock`).

Disagreements that were met while modelling and have no run:

- `OTP_LOCKED` ("too many incorrect attempts") is answered whenever the claim finds no row, also when a
  concurrent request or a right guess has taken the code (`app.ts:729`; `VerifyLocked` in `OtpCodes`).
- The lockout of an address may be recorded twice or not at all, because the count is read after the
  INCR instead of returned by it (`app.ts:197-203`; `Noted` and `NotNoted` in `AuthLockout`).
- "only these countries may request codes" (`risk.ts:35`), but a number whose country is not known fires
  neither country rule and passes any allow-list (`risk.ts:106-107`, `app.ts:625`; `NoCountry` in `RiskEngine`).
- `recent_failures` speaks of wrong codes, and sums the attempts at all codes, the right ones among them
  (`risk.ts:94`, `145-152`).
- `ip_velocity_block`, once disabled, also silences `ip_velocity` for the counts it would have blocked
  (`risk.ts:110-111`).
- `velocity` speaks of a sliding expiry, but `EXPIRE NX` makes it a fixed window (`intelligence.ts:61-63`).
- A cap per hour, like every limit, is one per fixed window: twice as much fits around its end (`risk.ts:39`).
- Logins are counted from Session rows, which cleanup deletes a week after logout (`analytics.ts:60`,
  `cleanup.ts:18-25`), and a row written across midnight is in the totals and in no day.
- `cleanup.ts:26` mentions revoked API keys; none are deleted.
- A message accepted without an id is stored as sent, and no callback will ever find its row (`twilio.ts:64`,
  `email.ts:44`, `app.ts:808`).
- An error after the consume burns the code without a session (`app.ts:750`), one after the commit leaves an
  active code that nobody is sent (`app.ts:682`), and a lost reply to a refresh makes the client's retry a theft
  (`session.ts:88-94`); the code has no remedy but another request or login.
- A webhook's log may say failed or pending of an event the receiver took, when its answer or the update of
  the log is lost (`webhook-worker.ts:50`), or cancelled of one it took before a retry found it revoked.
- `recordLogin` runs after the code is consumed: an upsert that loses its race fails the login, and the user
  needs another code (`app.ts:749`, `intelligence.ts:136`).
- A status callback that comes before the worker has stored the provider's message id finds no row and is
  acknowledged, so that status is lost (`app.ts:808`).
- Two codes of one user are two jobs, and jobs run side by side: the retired code may arrive last
  (`otp-queue.ts:42`); and a code may expire between the read of its row and its consume (`app.ts:718`).
- On shutdown the worker closes its webhook queue beside the jobs that emit to it (worker `index.ts:27`).
- `ReplayGuard` leaves the two ends of its window, by rounding (`webhook-signature.ts:37`, `60`).

## The plan

Done: every component that keeps state. What is left, in order:

1. An abstract specification of what a delivery and a webhook promise (at least once, a bounded number of
   times, a truthful record), and the proof that `OtpDelivery` and `WebhookDelivery` implement it.
2. A composition of `OtpCodes` with `Sessions`, for revoke-all against a login in flight.
3. The rules by address and country in `OtpService`, once an instance with two phones is small enough.
4. Start and shutdown of the worker with its queues.

## Not modelled

Start and shutdown order of the processes, `/health` and `/metrics`. The rules of which URLs and addresses a
webhook may have: a refused destination is a refused post. The records of the audit log but for the
lockout's: they follow their action and never fail it. The formats of single environment values. Cryptography and pure text functions (hashes, encryption, HMAC, masking, phone parsing): a code is right
or wrong, a token is itself, a phone is a user. Validation and error formatting: inputs are those that
pass the schemas. OpenAPI, metrics, error reports, the dashboard, the demo and deployment hold no state
the rest depends on. Latencies and absolute times: durations are only ordered by "may have passed".
