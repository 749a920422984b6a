# VisiOnRoute: a verification project

VisiOnRoute is a fleet-safety platform: devices of vehicles send telemetry over HTTP, workers turn
it into trips and safety events, reviewers and coaches act on those, and the people involved are
notified by e-mail and webhook and can have their data exported or erased. It is a FastAPI
application with one PostgreSQL database, a worker process (two in production), a scheduler, an
optional Redis and an object store. Source paths below are relative to `src/src/visionroute/`
unless they begin with `docs/`, `infra/` or `apps/`, which are relative to `src/`.

There is hardly any shared memory. What makes the system hard is that several worker processes, the
scheduler and the requests of the API write the same rows in separate READ COMMITTED transactions,
and that three components act on the outside world (a mail server, an object store, webhooks)
between two of their transactions. The models in this directory are about exactly that: nineteen
modules of the program, two abstract specifications, two compositions, and proofs that the safety
properties checked of them hold for every value of the constants.

Contents: [inventory](#inventory), [how the components interact](#how-the-components-interact),
[plan](#plan), [what is modelled](#what-is-modelled) (module by module),
[runs](#runs), [bounds](#bounds-and-why-they-are-enough), [fairness](#fairness),
[proofs](#proofs), [findings](#findings), [what is not modelled](#what-is-not-modelled-and-why).
`PROJECT.json` lists the same in machine-readable form, with the source lines of every definition,
the hazards of the code and a bug for every property that the property detects.

## Inventory

Names are those of `PROJECT.json`. "Correct" lists what must hold, whether or not it is modelled yet.

**E-mail outbox** (`application/mail/`, `infrastructure/mail/smtp.py`). State: `email_messages`
(status, attempts, next_attempt_at, secret context). Operations: enqueue in the business
transaction, claim under a five-minute lease, attempt outside any transaction, record, erase, purge.
Hard: worker death between claim and record, leases that run out under a live worker, servers that
accept a message and then fail. Correct: at least one copy before "sent", final states final,
one-time secrets kept as long as needed and no longer, every message settled.

**Outbox worker** (`worker/runner.py`, `application/outbox.py`). State: `outbox_events`. Operations:
publish, claim with SKIP LOCKED, one savepoint per event, retry or dead letter, one commit per
batch. Hard: handlers that are not idempotent, half-failed handlers, lost transactions. Correct:
effects exactly once if and only if the event is done.

**Privacy requests** (`application/privacy/`). State: `privacy_requests`, archives and media in the
object store. Operations: create, cancel, claim, export or erase, clean up, record a failure, purge.
Hard: effects on the store are not transactional, cancels race claims, leases overlap. Correct: one
active request per person and kind, no archive of personal data that nothing would ever delete, no
media left by an erasure but what was put after it had passed, outcomes final.

**Webhook delivery** (`application/notifications/service.py`). State: `webhook_deliveries`,
endpoints. Operations: queue one delivery per active endpoint, POST up to 20 in one transaction,
retry, dead letter, requeue by an operator. Hard: POSTs that happened in a transaction that did not. Correct: every POST a
receiver has seen is accounted for, but for those of lost transactions; delivered only after a 2xx.

**Ingestion** (`application/ingestion/service.py`). State: `ingest_events`, quarantine, source
counters. Operations: validate a batch event by event, deduplicate on the natural key, accept and
publish, or quarantine. Hard: concurrent duplicates, counters written without a lock. Correct: an
event is answered accepted once and has then one outbox event; counters say what was answered.

**Telemetry and trips** (`application/telemetry/`). State: `trips` with a denormalized head,
`telemetry_points`. Operations: take up, open or complete a trip, write its head, insert a point.
Hard: late points, two workers on one vehicle, the scheduler marking the trip meanwhile. Correct:
heads agree with points, closed trips stay closed.

**Safety engine** (`application/safety/`, `domain/safety.py`). State: `safety_events` with
occurrence_count; reviews. Operations: evaluate the rules on a point, find or insert the event within
the window under an advisory lock; review. Hard: two workers within one window. Correct: events of a
rule stay apart, every hit is counted once.

**Sessions and login** (`application/identity/service.py`). State: users with failure counters,
session families. Operations: authenticate with lockout, rotate a refresh token, revoke a family on
reuse, logout. Hard: two rotations of one token at once, revocation racing a rotation. Correct: one
open session per family, none after reuse, none from before a reset.

**Invitations and plan limits** (`application/identity/service.py`, `application/saas/service.py`).
State: invitations, memberships, subscriptions. Operations: invite, resend, revoke, accept; enforce
user and vehicle limits; change plan. Hard: counting and inserting without a lock. Correct: limits of
the plan hold, an invitation is used once.

**Account security** (`application/identity/account_security.py`). State: one-time tokens, MFA
secrets, challenges, recovery codes. Operations: reset, verify, set up and check the second factor.
Correct: a link, a challenge, a time step and a recovery code work once, five attempts end a
challenge, the last link mailed is the only one.

**Coaching** (`application/coaching/`, `domain/coaching.py`). State: actions, their history.
Operations: create, update, transition (open, in progress, completed, canceled). Correct: one active
action per event, terminal states terminal.

**Evidence media** (`application/evidence/`). State: evidence rows and objects. Operations: create a
slot, complete, access, delete, purge. Hard: object and row change separately. Correct: available
means that the object is there; a deleted one is not served.

**Scheduler** (`scheduler/runner.py`). State: telemetry partitions, stale trips, time of the last
maintenance. Operations: a tick under an advisory lock; hourly maintenance in transactions of its
own. Hard: replicas, locks held across the maintenance. Correct: one tick at a time, partitions ahead
of the clock.

**Usage metering** (`application/saas/usage.py`). State: `usage_records`. Operations: daily upserts,
expiry of trials. Hard: counted, then written; purged in between. Correct: the activity recorded for
a day does not shrink.

**Rate limiter** (`infrastructure/ratelimit.py`, `domain/ratelimit.py`). State: two counters per key,
at most 50,000 keys. Operations: hit. Hard: bursts at a boundary, hits counted later than they read the
clock, Redis that is away. Correct: a burst over a boundary stays under a bound.

**Live updates** (`infrastructure/realtime.py`). State: bounded queues of subscribers, a listener
connection. Operations: notify on commit, fan out, reconnect. Hard: full queues, lost connections.
Correct: a subscriber that is behind has a wake-up waiting.

**Hobby supervisor** (`cli/supervisor.py`). State: child processes. Operations: start all, poll, stop
all when one ends. Hard: signals and exits at any moment. Correct: no child outlives a supervisor that
returns, and its status tells failure from a stop.

**Fleet registry** (`application/fleet/`). State: vehicles, drivers, fleets, devices, cameras,
assignments. Operations: create and update single rows; assign a driver. Hard: the vehicle limit is
counted without a lock. Correct: the excess over a plan is bounded; one current driver of a vehicle (by
a unique index).

**Risk and driver scores** (`application/safety/road_risk.py`, `driver_score_service.py`,
`domain/driver_score.py`). State: `road_risks`, rebuilt on request by clustering the harsh events; scores
are read-side arithmetic. Hard: two rebuilds at a time, reviews beside them. Correct: the risks listed
are of one rebuild.

**API clients** (`application/api_clients/`). State: hashed tokens. Operations: issue, revoke.
Correct: a revoked token is refused.

**Reports** (`application/reports/`). Read-only queries and CSV; no state.

**HTTP layer and tenancy** (`api/`, `infrastructure/db/`). One transaction per request, committed
only if the handler returns; an access check against the account, the membership and its role as they
are now; row-level security by organization, which the models take for granted.

**Demo data and simulator** (`application/demo/`, `cli/simulate.py`). Writes sample data.

**Migrations and configuration** (`config/`, `infrastructure/db/migrations/`, `cli/`). Schema, settings
and start-up.

**Web client** (`apps/web/`). State: an access token and one refresh in flight. Operations: call,
refresh once for all waiting calls. The rest is rendering.

## How the components interact

Nothing calls across processes except through the database:

- A request of the API changes its rows and calls `publish_event` or `MailService.enqueue` in the
  same transaction. Commit publishes both; roll-back publishes neither.
- *Ingestion* publishes one event per accepted position. The *outbox worker* handles it in a
  savepoint: *telemetry* puts a point on a trip, the *safety engine* records broken rules and
  publishes an event for each new safety event, which a later batch hands to *notifications*, which
  queue e-mails, in-app notifications and *webhook* deliveries.
- The worker's loop then delivers webhooks, e-mail and privacy requests in turn
  (`worker/runner.py`, `run_forever`).
- The *scheduler* marks trips stale on the rows the workers write, purges archives that the privacy
  requests made, and meters usage.
- *Live updates* are PostgreSQL notifications sent within the same transactions, hence delivered
  when those commit, to whoever listens then.
- *Ingestion* asks the *registry* which vehicles are known; *coaching* is created by reviews of safety
  events; *erasures* reach into accounts, media and telemetry; the *road risks* leave out what a review
  has rejected; the *scheduler* ends trials that the plan checks already count as ended.

So the composition is: `Outbox` is the general worker, with handlers whose effects are opaque;
`TripPipeline` is the same loop with the effects of one handler opened up, two levels deep, beside the
scheduler. `OutboxPromise` is the contract both keep, and it is what ties them together: `Outbox`
shows that effects and acknowledgements come together whatever the handlers do, `TripPipeline` shows
that with the real handler (its locks, deadlocks and lost updates) the effect is a telemetry point per
event and the contract still holds. `Accounts` is composed of tenancy, sessions and organizations, which
share accounts and memberships; `EventHandling` and `Operations` put components side by side whose
tables are disjoint but which run in the same processes. `MailDelivery` has its own contract, `MailPromise`, that callers
of `MailService.enqueue` rely on, and `Webhooks` has `WebhookPromise`, what receivers can rely on.

## Plan

Order: the components with an effect on the outside world or with several writers first, and within
each first the control, then TLC, then the proofs.

1. *Done, with proofs:* `MailDelivery` (+ `MailPromise`), `Outbox` (+ `OutboxPromise`),
   `PrivacyRequests`, `TripPipeline`.
2. *Done, with proofs:* `Accounts` over `Sessions`, `Tenancy` and `Permissions`; `EventHandling` over
   `Coaching`, `Evidence` and `Webhooks` (+ `WebhookPromise`); `Operations` over `Ingestion` with `Fleet`, `RateLimit`,
   `LiveUpdates`, `RoadRisks`, `Scheduler` and `Supervisor`.
3. *Worth adding next:* a session family as one revocable capability, an abstract specification that
   `Sessions` implements.

The proofs follow the compositions: three proof modules for those of 2, four for the modules of 1, and one
with the lemmas about folds that they share.

## What is modelled

All models share these conventions. A transaction is one action when nothing it does can be observed or
disturbed before it commits, and several actions with private state when it takes locks, reads before
it writes, or acts on the outside world. `FOR UPDATE SKIP LOCKED` is a choice of any non-empty part of
the free due rows within the batch limit, except in `TripPipeline`, where the order of a batch matters
and is kept. Time is the number of ticks until a row is due (`wait`), because the code only compares
`next_attempt_at` with the clock; `TripPipeline`, whose rules compare time stamps, has a clock.
Variables marked "history" in a module exist to state properties; nothing reads them to decide.

In the modules of the second group a request that reads rows without a lock and writes them later is two
actions, its reads and its writes with the commit, with what it has read in `call[p]`; in between, other
requests commit. One that locks what it reads, or whose reads cannot be out of date when it writes, is
one action. A request that ends in an error changes nothing and is no action, or is an abort if it
had begun. `Tenancy` has this for the accounts, `Requests` for the others. There is no clock where a
deadline only makes requests fail: its passing is an action of its own.

### MailDelivery: the e-mail outbox

| model | code |
| --- | --- |
| `row[m]` | a row of `email_messages`: status, attempts, next_attempt_at (`wait`), whether the secret context is there |
| `batch[w]` | the claims `_claim` returned to worker `w`: id, attempt number, secret context |
| `outcome[w]` | the result of `_attempt`, before `_record` |
| `copies` (history) | attempts the mail server accepted |
| `Enqueue` | `MailService.enqueue`, at the commit of the business transaction |
| `ClaimBatch`, `Leased` | `_claim`: due rows in pending or sending, attempts + 1, lease |
| `Attempt` | `_attempt`: cannot decrypt, cannot render, accepted, permanent or transient error, with or without a copy at the server |
| `Record`, `Recorded` | `_record`: nothing if the row is gone or not in sending; otherwise sent, retry with back-off, or dead letter, wiping the secret |
| `Crash` | the process dies, or an exception leaves `deliver_due` |
| `Erase` | erasure of a user, retention purge |
| `Tick` | time passes |

`_record` compares the status of the row and not the attempt number, so a worker that outlived its lease
may record on the row of a newer claim. The model has that; the properties say what holds regardless.
`MailPromise` is the caller's view: queued, sent, dead letter or gone, with copies only of queued
messages and "sent" only after a copy. The mail that tells of a finished export is one more message.

### Outbox: the worker and its transactions

| model | code |
| --- | --- |
| `row[e]` | a committed row of `outbox_events` |
| `txn[w]` | the open transaction of `_process_outbox_batch`: to do, done, failed, published (`born`) |
| `applied` (history) | how often effects of an event's handler were committed |
| `Publish` | `publish_event` at the commit of a request |
| `Claim` | `_claim` under row locks |
| `Handle` | one savepoint: released with any events published (`Handled`), or rolled back and counted (`Failed`) |
| `Commit`, `Retried` | the one commit of the batch, `_mark_retry` |
| `Abort` | process or connection lost, commit failed |
| `Requeue` | the operator's UPDATE in the runbook |

The status `processing` is accepted by the claim but no transaction ever commits it (part of `TypeOK`).
Which rows a handler writes is left open: all that matters is that they share the fate of the savepoint.

### PrivacyRequests: exports, erasures and the object store

| model | code |
| --- | --- |
| `row[r]` | a row of `privacy_requests`: status, attempts, next_attempt_at, and whether its archive key is absent, kept or past `artifact_expires_at` |
| `job[w][r]` | how far `process_due` of worker `w` is with `r` |
| `files`, `objects` | archives and media in the object store |
| `slot`, `retiring` | the row of each medium (none, with its key, key cleared); media a member or retention has deleted from the store, the row to come |
| `found[w]`, `left[w]` | the keys an erasure has read, and of them those whose object it has still to delete |
| `Create` | `create` under the partial unique index (`Admitted`) |
| `CancelRead`, `CancelWrite` | `cancel`: the check and the UPDATE by id, two statements |
| `Claim`, `Begin` | `_claim`; `_process` loads the row again |
| `WriteArchive` | an export writes its archive to the store |
| `SelectMedia`, `RemoveMedia` | an erasure reads the keys of the person's media, and deletes one object after the other (`_erase_driver`) |
| `Complete`, `Fail` | the transaction commits, and with it forgets the keys that were read; an exception at any point of `_process` |
| `CreateUpload`, `PutObject`, `DeleteEvidence`, `EndDelete` | what `Evidence` has in full: slots, the client's puts, deletions, at any moment of an erasure |
| `Cleanup`, `RecordFailure` | the archive is deleted if the store lets it; `_record_failure` retries, gives up, or is refused by the index, which ends the process |
| `Downloadable` | `export_download_url`: completed, a key, not expired |
| `Expire`, `PurgeDelete`, `PurgeEnd` | `purge_expired`: objects one by one, one commit |
| `Crash`, `Tick` | worker death; time, leases included |

`RecordFailure` reads and writes in one transaction and is one step. Media come and go while an erasure is at
work: a client with a valid URL puts an object, or puts it again, after the erasure has read the keys or
has deleted that very object, and nothing in the code prevents it. `late` has those puts on record, and
`OnlyLateMediaRemain` says that they are all that a committed erasure leaves behind. Two erasures of one
person follow one another once the first has written the person's row, which stays locked to its commit (the
third conjunct of `SelectMedia`). How long an upload URL is valid is left open.

### TripPipeline: telemetry, trips, safety events and the scheduler

| model | code |
| --- | --- |
| `outbox` | rows of `outbox_events` for accepted positions, in the order of `occurred_at` of the outbox |
| `trip`, `point`, `count` | committed `trips` (status, started, ended, last point, number of points), the trip of each `telemetry_points` row, `occurrence_count` of each safety event |
| `mine[w]`, `save[w]` | changes of a transaction, and of its open savepoint |
| `job[w]` | where `process_ingest_event` is: the trip as it was read (`base`) and the rules left |
| `tick` | trips the scheduler has marked and not committed |
| `OpenTrip`, `ReadTrip` | `_active_trip`: none, one within the gap, one to close |
| `Close`, `UpdateHead` | UPDATEs of the trip, after waiting for its row lock, with values computed from `base` |
| `PersistRule` | `_persist`: advisory lock on vehicle and rule, look-up within the window, insert or add a hit |
| `Release`, `Fail`, `Commit`, `Abort` | savepoint released or rolled back; commit of the batch; transaction lost |
| `BreakDeadlock` | PostgreSQL cancels one of a circle of waiting transactions |
| `MarkStale`, `CommitTick`, `FailTick` | `_close_stale_trips` and the end of the tick |

What a transaction sees is what is committed under its own changes (`TripSeen`, `CountSeen`). A lock is
held as long as a change is there that needs it: to the end of the transaction, or to the roll-back of
the savepoint that made it. UPDATEs write the columns the code writes on the newest row (READ COMMITTED
re-reads a row it had to wait for); the values come from the row as read, which is where heads lose
counts. Distances, speeds and positions accumulate as `point_count` does and are left out.

### Accounts: organizations, members and sessions

`Permissions` is the catalog of `domain/permissions.py`. `Tenancy` has the rows accounts,
organizations and memberships share, the access check of every request and the requests under way;
`Sessions` adds login and its second factor; `Accounts` adds organizations and is what is checked.

| model | code |
| --- | --- |
| `user[u]`, `org[o]`, `member[o][u]` | rows of `users`, of an organization with its settings and subscription, of `memberships` |
| `user[u].until` | `locked_until`: none, ahead, past |
| `user[u].cut`, `AuthoritativeAccess` | `sessions_revoked_at`, and the check of an access token against it, the account and the membership (`api/deps.py`) |
| `session`, `link`, `challenge`, `invitation` | the tables of refresh sessions, one-time links, second-step challenges and invitations |
| `call[p]` | a request between its reads and its writes |
| `Authenticate`, `CountFailure`, `Login`, `CreateChallenge` | `authenticate` and what the router does with its answer; the failure count is read and written |
| `Refresh`, `Logout`, then `RotateRefreshToken`, `RevokeFamily` | `rotate_refresh_token`, `logout`, `_revoke_family`: rows read, then written by id |
| `UnusedSuccessor` | `_unused_successor`: the retry window after a lost answer |
| `IssueToken`, `InsertToken`, `ConsumeToken` | `_issue_token`, `_consume_token` |
| `VerifyMfaChallenge`, `RefuseMfaChallenge`, `Accepts` | `verify_mfa_challenge`, `_verify_second_factor` |
| `MfaSetup`, `ConfirmMfa`, `DisableMfa`, `RegenerateRecoveryCodes`, `AdminResetMfa` | the enrolment of a second factor, its end, the owner's reset |
| `Register...`, `CreateInvitation` ... `AdmitMember` | registration, invitations and their acceptance under the lock of the invitation (`Held`) |
| `EnforceUserLimit` | `enforce_user_limit`: seats counted without a lock |
| `EraseUser` | the erasure of an account, one transaction of the worker, for who is or was a member |

Which password or code a request comes with is left to chance; a code is a key and a time step. An
erased address does not register again.

A session row has on record (history) the account's count of revocations when its family was opened, and a
challenge the count when the password was checked, which may be earlier: nothing compares the two, and a reset
of the password leaves challenges as they are. `NoSessionOutlivesReset` therefore goes by the password:
it was checked since the last revocation, or the login overlapped with that, or the family came of a challenge
given before it, whose second factor was checked since and which is used up.

### EventHandling: coaching, evidence, webhooks

| model | code |
| --- | --- |
| `event[e]`, `action[i]` | review of a safety event; rows of `coaching_actions` |
| `CreateAction`, `InsertAction`, `Clashes` | `create_action`: look, then insert in a savepoint under the partial unique index |
| `ReviewWithCoaching`, `CommitReview` | `EventReviewService.review` with the resolution `kocluk_atandi`, which holds the event's row once the first query has flushed it |
| `UpdateAction`, `Transition` and their writes | `update_action`, `transition`: checked on the row as read, written by id |
| `media[m]`, `object[m]`, `url` | a row of `event_evidence`, the object in the store, upload URLs not expired |
| `PutObject` | the client, as often as it likes while its URL is valid |
| `CompleteUpload`, `CommitUpload` | `complete_upload`: the object is looked at, and deleted if it is not as declared, before the row is written |
| `DeleteEvidence`, `PurgeMedia`, `EraseMedia`, `RemoveObject`, `CommitRemoval` | deletion by a member, by retention, by erasure: objects first, then the rows |
| `rules`, `hook`, `notices`, `delivery` | notification rules, endpoints, in-app notices, deliveries |
| `DeliverPending`, `SendOne`, `CommitDeliveries` | `deliver_pending`: claim under row locks, one POST after the other, one commit |
| `DeleteWebhook`, `CommitDeleteWebhook` | the cascade, which waits for claimed deliveries |
| `Requeue` | the operator's UPDATE in the runbook: a dead letter is pending again, with no attempts |
| `posts` (history) | what receivers have seen, what of it an aborted batch has forgotten, and the attempts counted before a requeue |

`WebhookPromise` says the same for a receiver who knows nothing of batches, claims and locks: a delivery is
owed, told and not counted yet, delivered, a dead letter or gone; it is told once per counted attempt and
by one sender at a time, given up at the limit, started over only by an operator, and only what a lost batch
has told comes again without having been counted.
`Ledger` reads that from the tables: `status` and `attempts` of the row, `posts`, and for "told" a batch
under way whose post has arrived.

### Operations: registry, ingestion, limits, live updates, risks, scheduler, container

| model | code |
| --- | --- |
| `CreateVehicle`, `InsertVehicle` | `enforce_vehicle_limit` counts, the flush inserts |
| other actions of `Fleet` | `application/fleet/service.py`, a step each where nothing read can be out of date |
| `IngestEvents`, `KnownVehicles`, `IngestOne`, `CommitBatch` | `ingest_batch` event by event: `ON CONFLICT DO NOTHING`, which waits for an uncommitted row of the key (`Waits`); counters written from what was read (`Written`) |
| `IngestCsv` | the router's `ingest_csv`: rows of a file to envelopes, then a batch |
| `HitRedis`, `CountHit`, `HitUnavailable` | `RedisRateLimiter.hit`: the clock and with it the windows are read, then the transaction counts the hit and the decision weighs it with the clock as read, or Redis cannot be reached |
| `HitMemory` | `InMemoryRateLimiter.hit`, which waits for nothing |
| `Decide` | the sliding estimate, multiplied out to integers |
| `crossed` (history) | hits counted when the window they had read was over |
| `PositionsChange`, `OnNotification`, `Put`, `Wake`, `Coalesce`, `Snapshot`, `Refresh` | `notify_live` at a commit, the hub's listener, the bounded queue, a stream's loop |
| `RebuildForTenant`, `DeleteOld`, `CommitRebuild`, `Cluster` | `rebuild_for_tenant`: events read in any order, greedy clusters, delete, insert |
| `StartTick`, `EnsurePartitions`, `Purge`, `CountUsage`, `WriteUsage`, `FinishTick` | `run_once` and `_hourly_maintenance`, whose transactions run on other connections |
| `TableLocked` | ACCESS EXCLUSIVE on `telemetry_points`, from CREATE TABLE ... PARTITION OF to the commit of the tick |
| `LoseConnection`, `FailTick`, `Restart` | the tick's session lost, an exception, a new process |
| `StartChild`, `Poll`, `HandleSignal`, `Terminate`, `WaitOrKill`, `Exit` | `Supervisor.run`, with signals and exits at any moment |

## Runs

| run | question | result |
| --- | --- | --- |
| `mail_safety` | do copies, secrets and leases agree under crashes and overrun leases? | yes |
| `mail_live` | does the outbox implement `MailPromise`, and is every message settled? | yes |
| `outbox` | effects exactly once, attempts to the limit, `OutboxPromise` (with it, follow-ups only with their cause), everything settled? | yes |
| `privacy` | leases exclusive, archives accounted for, outcomes final? | yes |
| `privacy_live` | is media gone when an erasure commits, and every request resolved? | yes |
| `privacy_cancel` | are only waiting requests canceled? | no (finding) |
| `trips` | heads, distances of events, hits, closed trips, `OutboxPromise`? | yes |
| `trips_live` | do batches that lock vehicles in opposite orders, and the tick, all finish? | yes |
| `accounts` | one open session per family, none from before a reset, each factor, link and invitation used once, seats within the plan? | yes |
| `event_handling` | evidence that matches the store, POSTs accounted for, `WebhookPromise`, coaching assigned once, finished actions left alone? | yes |
| `operations` | acknowledgements, counters, vehicle limit, bursts, wake-ups, risks, usage, exit status? | yes |
| `scheduler_blocks` | does every tick end? | no (finding) |

Properties that hold only if nothing went wrong say so: `LeaseExcludes`, `ArchivesAccountedFor`,
`OutcomeIsFinal` and `MediaMatchesRow` speak of what is outside `disturbed`, the set of what a crash, an
overrun lease, a lost answer of the mail server, a failed clean-up, an overtaken request or a put out of
time has touched. The code gives no more: it has no fencing token. Likewise `HeadMatchesPoints` speaks of
exact counts for trips whose head was not written over a changed row (`raced`) and of the latest point
for trips without late points (`late`), and of bounds for all others. In `Accounts` and
`Coaching` most requests take no lock, and two of them on one session family, link, organization or action
can undo each other: `overlapped`, `relinked` and `stale` record exactly those, and the properties
say what holds for all others, in any order and number. That is the part that a retry, a back button
or a second device relies on. `OverrunBounded` and `CountersAddUp` say what holds even of those that
overlap. `OnlyLateMediaRemain` and `BurstBounded` name what came too late for the code to see (`late`, `crossed`)
and bound what is left by it; `excused` are keys whose counters were lost, not consulted, or reached by a hit more
than a whole window late.

Deadlock is not looked for by TLC, because the bounds stop each model: all messages erased, all
events done, the clock at its end, the requests of an area used up. That the system does not stop
earlier is what the liveness properties say, where fairness justifies them.

Every module defines its `TypeOK` (or, in a composition, the part of it). The proof modules prove it, and
TLC found it true of the instances below while the modules were written; it is not among the runs'
properties.

## Bounds and why they are enough

| run | instance |
| --- | --- |
| `mail_safety` | 2 messages, both with a one-time link, 2 workers, 2 attempts, batches of 2, a lease of 1 tick, 1 crash; symmetric in messages and workers |
| `mail_live` | 1 message, 3 workers, 2 attempts, a lease of 2, back-off up to 2, 1 crash |
| `outbox` | 2 published events, 2 follow-ups of one of them, 2 workers, 2 attempts, batches of 2, 2 lost transactions, 1 requeue |
| `privacy` | 2 exports of one person, 2 workers, 2 attempts, 1 crash, 1 overrun lease |
| `privacy_live` | 2 erasures of one person, otherwise as `privacy` |
| `privacy_cancel` | an export and an erasure, 2 workers, no crash or overrun |
| `trips` | 3 points of one vehicle at times 1, 2 and 4 in any order of arrival, idle gap 2, window 1, one rule all break, batches of 2, 2 attempts, 1 lost transaction, clock to 7, 2 workers |
| `trips_live` | 2 points of each of 2 vehicles, batches of 2, 1 attempt, clock to 2, 2 workers |
| `accounts` | 3 people, 2 organizations, 2 requests at a time, plans of 2 and 3 seats, 2 failed logins, 1 attempt at a challenge, 1 recovery code, 2 time steps; an organization that has been there for some time, with or without second factors and an administrator who may have left; 4 requests about accounts, or 4 about organizations, or 2 and 1, or 1 and 3 |
| `event_handling` | 1 event, 3 members of whom 2 may coach, 2 requests at a time: 4 requests; 2 media: 6 requests and any number of puts; 2 endpoints, 2 severities, 2 attempts, batches of 2: 5 requests |
| `operations` | 2 requests at a time and eight mixes, one area or two that meet in each: 4 of the registry (3 vehicles, plans of 1 and 2) beside 2 of the plan; 2 batches of up to 2 events beside the registry, or beside 4 about clients; 4 hits on keys with windows of 2 and 4 until time 5, with one outage; 4 notifications to a stream with a queue of 1 over a hub that listens twice; 4 events or reviews and 3 rebuilds over 3 events in a chain; 2 ticks of 2 replicas over 3 days of a two-day month; the container, with 2 processes |
| `scheduler_blocks` | 1 replica, 3 ticks, months of 3 days |

The interesting cases need two actors on one row and a third only to take over from a lease, two
items to tell one claim of a batch from another, two attempts to tell a retry from the last one, and
one failure more than none. A lease of one tick ends under a live worker as easily as it ends after a
crash. The three times of `trips` give points within the window and outside it, within the gap and
outside it (by the stale mark or by a late point), and in and out of order. `trips_live` needs two
vehicles, since the deadlock is between two batches that lock both in opposite orders. The limits of
the code (8 attempts, batches of 50, five minutes) enter only through comparisons that the small values
exercise on both sides. For safety the bounds are of no consequence where there is a proof (below).

In the second group the parts of a composition write different tables, so a mix that gives all its
requests to one part loses nothing, and long runs of one part are worth more than short ones of all;
parts that read each other's rows (accounts and organizations, registry and ingestion) have mixes in
which both run. Two requests at a time are what a lost update or a check that is out of date needs; where
an overlap of two does harm, the rest of the budget is there to show that it stops there. Three
vehicles exceed a plan of one by two, three seats a plan of two by one. A queue of one is full after one
notification. Windows of two lengths are needed since the in-memory limiter compares indices of both.

The bounds in the guards are named `MaxCrashes`, `MaxOverruns`, `MaxAborts`, `MaxRequeues`, `MaxNow`,
`Budgets`, `MaxStep`, `MaxTime`, `MaxDay` and `MaxPoints`; none of them is in the code. Attempts, copies and back-offs bound themselves.
The liveness runs use no symmetry.

## Fairness

- Each worker's steps are weakly fair: `run_forever` polls again at once or after a second, an
  exception leaves the loop alive or ends the process, which ECS (`infra/terraform`) starts again, and
  everything it waits for has a timeout (SMTP, HTTP, object store).
- `Tick` and `Clock` are weakly fair: time passes.
- In `TripPipeline` each worker's next step is fair as a whole, `BreakDeadlock` included: PostgreSQL
  grants a lock that is free and finds circles. The scheduler's marking and committing are fair: it
  ticks every five minutes and goes on after an error.
- Not fair: publishing, enqueueing, creating, canceling, erasing, requeueing, purging, and every
  failure. In particular no mail server, store or handler is assumed to succeed in the end: settled
  means sent *or* given up.
- In `SchedulerSpec` the next step of a tick that is at work is fair: statements and the code between them
  go on when no lock is in the way. Losing the connection, failing and restarting are not. The same
  specification without the lock on `telemetry_points` satisfies `TicksEnd`.
- `Accounts`, `EventHandling` and `Operations` state no fairness and are checked for safety only: requests
  come from outside, and one that is dropped is never finished.
- Crashes, overruns and lost transactions are bounded by constants, hence finite. A message or event
  that kills its worker every time is outside `EventuallySettled`: `attempts` of an outbox event is
  counted in the very transaction that is lost.

## Proofs

The proof modules prove every safety property of the passing runs (the invariants, the action properties
and the refinements: mails, outbox, trips and webhooks implement their promises) for all values of the constants that meet the assumptions of the modules
(`MailAssumption`, `OutboxAssumption`, `PrivacyAssumption`, `PipelineAssumption`, `TenancyAssumption`,
`SessionsAssumption`, `AccountsAssumption`, `RequestsAssumption`, `CoachingAssumption`, `WebhooksAssumption`,
`FleetAssumption`, `IngestionAssumption`, `RateLimitAssumption`, `LiveAssumption`, `RoadRiskAssumption`,
`SchedulerAssumption`, `SupervisorAssumption`, `BudgetAssumption`: limits positive where the code's are,
functions of the right domain, finite sets where they are counted, a value for "none" that is nothing
else). So they hold for any number of workers, messages, requests, organizations, events and failures.
Each proof follows the same argument: an inductive invariant `IInv`, one lemma per action that it is kept,
and the properties as consequences; action properties and refinements use `IInv` for the state a step
begins in.

**MailDeliveryProofs.** The invariants of the run do not suffice: that an undisturbed message has at most
one copy needs that a claim is still under its lease (`LeaseRuns`: an expired lease under a live worker
is what `disturbed` records), that a copy of it is about to be recorded or has been
(`CopyIsRecorded`), that an outcome belongs to a claim in hand and is "sent" only with a copy
(`OutcomeOfHeldClaim`), and that rows not yet queued have no attempts (`NewIsUntouched`), which makes the
first claim number 1. `CopyIsRecorded` and `OutcomeOfHeldClaim` also give `ImplementsPromise`: when a row
becomes "sent" there is a copy.

**OutboxProofs.** `BornIsNew` is all that is missing: what an open transaction has published exists
nowhere, and its cause is among the events it has handled. With `ClaimsDisjoint` no two transactions
publish the same event, so a commit overwrites nobody's rows. `ImplementsPromise` maps a commit to
`Settle` and everything else to a stutter, publishing or requeueing.

**PrivacyRequestsProofs.** `Sound(r)`, of undisturbed requests: one worker exactly while processing,
its lease running, the archive accounted for by the row or the worker, the purge only at expired
archives. `Accounted(r)`, of all requests, disturbed or not: attempts beyond the limit are paid for by
crashes and overruns, one each; `Lost(r)` is a claim whose payment is already made. A step touches one
request, and two frame lemmas carry the others. `ErasureIsThorough` has an invariant of its own,
`MediaInv`: an object whose row has no key, or is about to lose it, was put late (`Kept`), a worker has one
request at work (`Single`), an erasure under way has found only media of its person, and what is in the store of
them and not still to be deleted was put late (`Clearing`), and so is what there is after a commit (`Thorough`).
The last two are inductive because every put from then on is late, and nothing else adds an object.

**TripPipelineProofs.** A worker's transaction sees the tables with its changes on top. `IInv` states
`EventsApart` not only of the tables but of what each worker sees (`SeenApart`) and would see after a
roll-back of its savepoint (`KeptApart`), and likewise the life of trips along table, transaction and
savepoint (`Chain`, `Later`). Locks (`TripLocks`, `RuleLocks`) keep the changes of two workers and of the
tick to different rows, so that a commit, which makes one view the table, leaves the others' views of
their own rows as they were. `JobOK` and `RowsOK` tie the stages of a handler to its changes.
`PromiseKept` adds `Settled`: an event has a point exactly if it is done.
Two properties relate what is counted to what is there, and need more. `HitsCounted` rests on `HitsOK`:
in the table, in what a worker sees and in what it would see after rolling its savepoint back, the counts of
a vehicle and rule add up to the points there that broke it, the event in hand included once its rule has been
tried. A hit raises one count by one beside one point more; a commit makes the worker's sum the
table's, since the lock on the vehicle's rule has kept all others from it. `HeadMatchesPoints` rests on
`HeadsOK`: each of these views of a trip's head describes the points of the same view, a worker has
written the head of every trip it has put a point on (so that it commits the two together), and the row it
read before writing counts no more points than there are now. A head written over another is `raced`, and
counts too few from then on, never too many.

**AccountsProofs.** `IInv` is `Typed` and a part for sessions, second factors, links, invitations and plans each.
A part says of the tables what the properties do, and of a request under way what it may still do: unless another has
overtaken it since its reads (`stale` in its call), the rows are as it read them, and if it has been, the
history has that on record. So a rotation not overtaken closes what was open in the family
(`SessionsOK`), a request for a link uses up what was usable (`LinksOK`), an accept has its invitation to
itself, which is still pending (`InvitationsOK`), and finds a seat free (`PlansOK`). `FactorsOK` keeps
spent codes and keys apart from those still accepted: the key in force is not the one to be confirmed, numbers are
given once, a step already used is not above the last one accepted. For resets `NoOldSession` says that the
family of an open session was opened since the last one, unless it overlapped with it; that the password was
checked by then follows for a family without a challenge, and with one `FactorsOK` adds that the challenge is used up. A step changes the calls of others
only by overtaking them (`Follows`), which makes what they claim vacuous (`Overtakes`).
`ClosedFamiliesRemainClosed` and `OrganizationsStayWithinPlan` are about steps, and start from `IInv`.

**EventHandlingProofs.** The parts `EvidenceOK`, `CoachingOK` and `WebhooksOK` are about different tables;
a step of one keeps the others because it touches no request of theirs (`Spares`). For media: an object under
deletion is gone unless a put came in between (`disturbed`), and a removal has named only rows that
exist. For coaching: an event has one action that is active (`OneActive`), and a request that closes one
has seen it active unless overtaken. For webhooks: one batch at a time has a delivery in hand (`OneClaim`),
and every post that arrived, beyond those the row counts and those an aborted batch forgot, is in a batch still
open (`Settled`); a requeue moves the counted attempts to those counted before. `PromiseKept` maps a post that arrives to `Tell`, a commit to `Settle` (by `SentIsCounted` its results
are acceptances and refusals of the promise), an aborted batch to `Lose`, the operator's requeue to
`Requeue` and the cascade of an endpoint to `Withdraw`; `WebhooksOK` gives the guards: what is claimed is pending, and nobody else has it in hand.

**OperationsProofs.** `IInv` has a part for each component, again joined by `Spares`.
`FleetOK` counts the vehicles registered together with those being created: a create that has passed its check adds one,
at most one for each request that runs. `IngestionOK` with `BatchesOK`: what a batch has inserted is its own by
the unique index, and it adds its counts to a value that is in the table unless it is `overtaken`.
`RateOK`: a counter holds at least the hits that passed in its window, whenever they were counted, unless a failure
or a hit two windows late excused it. A hit that passes in its own window has its interval's earlier hits in the
counters it weighs, so the bound holds of every interval it is in (`BurstPasses`); one that passes later may be
missing from the counts others have weighed already, and is added to the bound (`BurstCrosses`), while no window has
more than the limit in any case (`WithinPasses`); the rest is arithmetic of windows and shares (`BurstsBounded`).
`LiveOK`: a stream that waits although there is something to show has a notification in its queue or on the
wire, or one of its notifications was dropped. `RiskOK`: what the greedy clustering makes of the events is a set of
disjoint clusters of the minimum size, whatever the order of the rows, and a rebuild knows which others
ran beside it. `SchedulerOK`: what is metered of a recent day does not exceed its telemetry unless that was erased (`Recorded`), a tick is about to record what was there
or has been erased since (`Honest`), and of ticks with the lock there is one (`Locked`).
`SupervisorOK` follows the container's stages: what is started, asked to stop and waited for
at each, and that a status other than 0 was given only when a process had stopped by itself.

**FoldLemmas.** The models sum, cluster and count with the folds of the community modules, whose recursive
functions the provers know nothing of. That the recursion has a solution, that it is the only one, and that a
sum over a finite set does not depend on the order of its elements is shown by least counterexamples: a set
of naturals without a least element is empty (`LeastNat`, `AllNaturals`, `AllParts`). The rest says how a
sum changes with one element or with one value (`SumTakesOut`, `SumGrows`). `BurstsBounded`, `RisksAreOfOneRebuild`
and `HitsAddUp` rest on it.

Model-checked only:

- liveness (`EventuallySettled` of mails and of outbox events, `EventuallyResolved`, `EventuallyQuiet`): fairness
  and ENABLED are out of the prover's reach;
- the properties that are violated.

`TypeOK`, `ClaimsNumbered`, `FinalIsFinal`, `ClaimsDisjoint`, `OneActive`, `AttemptsBounded` and
`FollowUpsHaveCause` are proved and in no run: TLC found them true before, the proofs cover every instance,
and they are types, conjuncts of `IInv` that the properties of the runs rest on, or, like the last, implied by
`ImplementsPromise` of the same run.

## Findings

Two runs state what a comment or a message of the code says, and show a behaviour of the code that departs
from it. Each is quoted in `PROJECT.json`.

- `privacy_cancel`: `cancel` refuses all but pending requests, by a check that a claim can overtake
  (`privacy/service.py:136`). The request is processed although its user was told that it is canceled, and
  then becomes completed.
- `scheduler_blocks`: "A failed tick must not kill the loop; the next tick retries"
  (`scheduler/runner.py:67`), but a tick may neither fail nor end. Once a month `_ensure_partitions`
  makes a partition, which locks `telemetry_points` against everybody until the tick commits; if the
  hourly maintenance is due in the same tick, as it is after every restart, its purge waits on another
  connection for that lock, and the tick waits for the maintenance (`scheduler/runner.py:97`). PostgreSQL
  sees no circle, since half of the wait is in Python, and no timeout is set; workers cannot store
  points until the process is ended. That CREATE TABLE ... PARTITION OF takes ACCESS EXCLUSIVE on the parent is
  taken from PostgreSQL's documentation, not from this repository.

Met while modelling, without a run of its own:

- *Mail.* The claim calls an expired lease the sign of a dead worker (`mail/delivery.py:108`). The lease is
  taken for a whole batch of up to 20 messages, sent one after the other, and can run out under a live
  worker; the message is then sent twice, nothing worse. A dead letter with a one-time link that is
  queued again by hand (`docs/operations/runbook.md:72`, which tells of expired tokens only) cannot be
  rendered, as its secret is wiped.
- *Telemetry.* `point_count` and `distance_km` are read and written back without a lock
  (`telemetry/service.py:107`): with two workers on one trip a point is not counted (`docs/PROGRESS.md:99` has
  the head denormalize the number of points). `last_point_at` is the time of the point handled last; a
  late one sets it back, and the next may find a gap that is not there and complete the trip before its
  own points (`domain/telemetry_rules.py:12`). Two first points of a vehicle may open two trips.
- *Privacy.* A failure that a slow worker records reopens a request that another worker has given up
  (`docs/operations/runbook.md:85`: a failed request is not reopened); an erasure that is given up has
  deleted media to which rows still refer; an export's archive outlives a later erasure of the same person
  for up to a week.
- *Outbox.* A dead letter leaves its ingest event "accepted", where the docstring in
  `infrastructure/db/models/ingestion.py` speaks of dead_letter.
- *Ingestion.* `docs/api/ingestion.md:87` says that rejected events are stored as quarantined; one whose key is
  taken is not, by ON CONFLICT DO NOTHING. A quarantined event keeps its key for good: sent again after
  its vehicle is registered it is a duplicate.
- *Plans.* "Re-checked at acceptance: many pending invitations must not exceed the plan"
  (`identity/service.py:485`): two that are accepted at one moment do, by one, as vehicles can.
- *Coaching.* An event keeps its resolution "coaching assigned", which only a confirmed one can get, when it
  is rejected later without another.
- *Evidence.* A put with an upload URL that is still valid replaces an object that was completed and
  recreates one that was removed, also by an erasure: media uploaded while the person's data are erased, or
  after that with a URL of before, stay in the store without a row that tells of them (`late` in
  `PrivacyRequests`).
- *Resets.* A challenge of the second step is left open by a reset of the password
  (`identity/account_security.py:104` to 129), and its verification (253 to 309) looks at its age and attempts
  only: an old password, checked up to the challenge's life before the reset, still leads to a session
  after it, once, with the right second factor.
- *Webhooks.* Deliveries queued for an endpoint are sent after it was set inactive. After a requeue as in the
  runbook (`docs/operations/runbook.md:69`) the row counts from 0, and no longer tells how many posts the receiver saw.
- *Road risks.* Two rebuilds that overlap leave the risks of both listed until the next; the clustering that
  its docstring calls deterministic depends on the order of rows that the query does not fix.
- *Rate limit.* "The weighted estimate closes that burst" (`domain/ratelimit.py:10`): close to twice the limit
  can pass within one sliding window, a bound `BurstBounded` makes precise. With Redis it can be more: a hit reads the
  clock before it waits for the transaction that counts it (`infrastructure/ratelimit.py:74` to 83), and one
  counted after the end of its window was not there for the decisions of the next. Without the two terms of
  `crossed` TLC finds 3 hits in an interval of 2 instants with a limit of 2; in general as many more
  can pass as were under way at the boundary. The in-memory limiter compares indices of windows of different lengths when it prunes and can
  erase counters that are in use.
- *Usage.* The snapshot of yesterday writes today's values into yesterday's gauges.
- *Live updates.* A full queue drops a safety event, and no refresh makes up for it, though the comment
  (`realtime.py:131`) speaks of coalesced updates only.
- *Partitions.* A month whose rows are already in the default partition can no longer get its own; the tick
  fails every time.
- *Container.* A process that ends just before a signal leaves status 0; one that ends with status 0 makes
  it 1, where the docstring says that its status is passed on; one that cannot be started leaves those
  before it running.
- *Driver scores.* Below the threshold of events the docstring says None and the code returns a score of 0.0.

## What is not modelled, and why

- Whole components: *reports* are read-only queries; *demo data* and the simulator call operations that
  are modelled; *migrations and configuration* have no behaviour beside start-up; the *web client* is
  another program, whose single state machine (one refresh of the access token in flight) reaches the
  server as requests like any others.
- Of *risk and driver scores*, the scores: floating-point arithmetic over committed rows, without state.
- Of the *HTTP layer*, middleware, error formats and row-level security: an organization's rows are
  separate in the models by construction, so nothing is said about their separation.
- In *mail*: templates, MIME and addresses are data. Rows are not retried by hand.
- In the *outbox*: what the handlers compute. A handler that ends the process on every attempt would
  be aborted for ever; the model bounds such aborts.
- In *privacy*: which data are collected or made anonymous; the end of an upload URL's life; the purge of expired links and challenges, a
  DELETE by age (that of mail is `Erase` in `MailDelivery`).
- In the *pipeline*: telemetry without a position, events of vehicles that do not exist (ingestion
  quarantines them), the driver of a trip, thresholds and severities, exact back-off times (a failed event
  is due at some later time).
- In *accounts*: rate limits of the endpoints, audit rows, mails (in `MailDelivery` each is one message),
  hashes and encryption; platform administrators but for the change of a plan.
- In *event handling*: texts and dates, signing and URL checks; that a webhook's receiver acts on what it gets.
- In *operations*: names and plates, payloads; metrics of usage other than telemetry; more than one
  organization's streams and more than one replica's hub; a container that is killed as a whole.
- PostgreSQL itself is taken at its word: READ COMMITTED, row, table and advisory locks, SKIP LOCKED, unique
  indexes, deadlock detection, NOTIFY at commit, atomic commit. So are Redis, the object store and the mail
  server, which may fail in the ways the models show.
