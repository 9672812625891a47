# Verification of the comments service

The repository under `src/` is a TypeScript service that lets customers read and answer comments on
their social posts. It accepts replies over HTTP, publishes them to Meta and Bluesky from a BullMQ
worker, ingests comments from webhooks and periodic walks, and announces changes through a
transactional outbox. PostgreSQL is the authority; Redis may be lost.

This directory holds TLA+ models of it, TLC configurations that check them on small instances, and
TLAPS proofs of what holds on every instance. Paths below are relative to `src/`;
`comments/` stands for `src/modules/comments/`.

## 1. Inventory

| Component | Code | State it keeps | Operations | What makes it correct |
|---|---|---|---|---|
| Reply acceptance | `comments/application/create-reply.ts`, `create-top-level-comment.ts` | a `queued` comment row, a quota row, an outbox row (one transaction), then a job | validate, deduplicate by idempotency key, insert, enqueue | one row per key; an accepted reply is never lost |
| Publish attempt | `comments/application/publish-comment.ts`, `reconcile-comment.ts` | `status`, `attempt_count`, `needs_reconcile`, `last_attempt_started_at`, `platform_comment_id` | claim, search, arm, send, settle in four ways, resolve the echo | never published twice; outcome, id and event agree |
| Publish worker | `comments/infrastructure/publish-worker.ts`, `shared/queue.ts` | BullMQ job states and locks, token buckets | take, delay, retry, finish | a job moves only after its row is settled |
| Stuck-work sweeper | `comments/infrastructure/sweepers.ts`, `reenqueue.ts` | its selection, between two statements | select, recover, re-enqueue | no row is stuck for good, none revived in error |
| Contact quota | `comments/infrastructure/contact-quota.ts` | `contact_quota_usage` | reserve under an advisory lock, release | one unit per contact, period and platform; limit kept; failed replies give back |
| Account health | `comments/infrastructure/account-health.ts` | `account_health` | mark on AuthError, clear after a successful walk | the API refuses replies while the credential is bad |
| Ingestion | `comments/application/ingest-comments.ts` | comment rows, `reply_count`, `last_activity_at`, outbox | upsert with ancestor chain, delete | one row per platform id; counters equal rows; a deleted comment stays deleted |
| Outbox, relay | `comments/infrastructure/outbox.ts`, `outbox-relay.ts`, `domain-events-trim.ts` | `outbox_events`, the domain-events queue | append in the caller's transaction, publish and stamp by batch or by row | an event is delivered at least once iff its change committed |
| Sync scheduling | `comments/infrastructure/sync-scheduler.ts`, `sync-job-sweeper.ts`, `sync-target-repository.ts`, `application/request-sync.ts` | `comment_sync_targets` (`next_sync_at`, cooldown), `comment_sync_jobs` | lease, insert, enqueue, request, run, finalise, sweep | at most one active job per target; no due target is forgotten |
| Sync walk | `comments/application/sync-post.ts` | pages seen, statistics | page, ingest, tombstones, infer deletions, settle | only what a complete walk missed is deleted |
| Webhook intake | `comments/http/webhook-routes.ts`, `infrastructure/webhook-worker.ts` | `webhook_deliveries` | verify, store, enqueue, process | a delivery is processed at least once, in any order |
| Retention purge | `comments/application/purge-retention.ts` | none | delete by batch | nothing active is deleted |
| Read API | `comments/application/list-comments.ts`, `shared/pagination.ts`, `comments/http/*` | none | keyset pages | no row repeated or skipped |
| Rate limiting | `comments/infrastructure/graph-usage.ts`, the bucket scripts of both workers | a Redis hash and a usage reading per account | refill and take, record, read | the account's rate, for every order of calls |
| Platform adapters | `platforms/meta/*`, `platforms/bluesky/*` | none | send, search, list, fetch | every failure is classified as retryable, unknown, permanent or auth |

Interaction: the API and the sweepers add jobs to Redis under the id of the row; workers take them
and move rows with conditional updates (`WHERE status = ...`), which are the only mutual exclusion
between attempts; every change and its event share a transaction; a relay moves events to Redis; the
`scheduler` queue runs sweepers, relay and ticks one at a time. Publish and ingestion meet in the
unique index on `(social_account_id, platform_comment_id)`: the platform echoes what we publish.

What is hard is listed, line by line, under `hazards` in `PROJECT.json`: crashes between a send and
its settlement, attempts that outlive the sweeper's threshold, searches that fail, echoes, kept jobs
that swallow an enqueue, statements after a commit, counters maintained in several transactions.

## 2. Plan

What was built, in this order, and what the models leave for later.

1. `PublishComment`, `CommentLifecycle`: the path every customer-authored comment takes. Done.
2. `SyncJobs`, `SyncTurns`: targets, leases, job rows, manual requests, worker, sweeper. Done.
3. `CommentThread`: ingestion, ancestor chains, walks, inferred deletions, counters, purge. Done.
4. `OutboxRelay`: batch and row transactions, overlapping passes, poison rows. Done.
5. `WebhookIntake`: deliveries from the POST to the processed row. Done.
6. `AcceptComment`, `Acceptance` and `CommentListing`: the write routes, what they promise, the listing. Done.
7. `AdapterCalls`: what the adapters may answer. Done.
8. `RateLimit`: the token bucket and the usage delay. Done.

Later: the age bands of `computeNextSyncAt`; `CommentThread` composed with the publish path's echo
(today each of `PublishComment` and `CommentThread` has its own view of ingestion); clearing of
`account_health` against the three paths that set it; the race of two ingestions to create one sync
target; an abstract specification of a thread's rows (absent, posted, deleted, purged whole) for
`CommentThread` to implement.

The suite is kept to a dozen runs, one per question. Disagreements of less consequence than the one
that has a run are told in section 4.

## 3. Modules

| Module | What it is |
|---|---|
| `CommentLifecycle` | abstract specification: the table of `comments/domain/status.ts`, `posted` only for what the platform has, no send once settled |
| `PublishComment` | replies, BullMQ jobs, worker slots, sweeper, platform; properties at its end |
| `PublishComment_proofs` | type correctness and the invariants that hold under all faults; the guard and the lifecycle, while jobs are exclusive |
| `SyncTurns` | abstract specification: walks of one target take turns, none asked for is dropped |
| `SyncJobs` | targets, sync jobs, scheduler queue, manual requests, sync worker |
| `SyncJobs_proofs` | type correctness, `OneRunner` and the refinement of `SyncTurns` |
| `CommentThread` | the rows of one post under webhooks, a walk and the purge |
| `CommentThread_proofs` | type correctness and every safety property of the rows, for any tree of comments |
| `OutboxRelay` | the outbox, its relay, the queue's trim and the table's purge |
| `OutboxRelay_proofs` | type correctness and the three safety properties of the relay |
| `WebhookIntake` | deliveries, their jobs, the events of a delivery for each account |
| `WebhookIntake_proofs` | type correctness, `ProcessedIsComplete`, `HealthIsAnnounced` |
| `Acceptance` | abstract specification: a request is accepted in one step or not at all, and its answer is true |
| `AcceptComment` | the write routes: handlers, pool, locks, quota, idempotency |
| `CommentListing` | extends `AcceptComment` by a client that pages through the table meanwhile |
| `CommentListing_proofs` | of the write routes: type correctness, `AcceptedWhole`, `LimitKept`, `SameKeySameComment`, `NeverAllBlocked`, the refinement of `Acceptance`; of the composition: `ListTypeOK`, `PagesExact`, and that the listing leaves the writes alone |
| `AdapterCalls` | calls of the three adapters against a platform that changes |
| `AdapterCalls_proofs` | `OutcomeHonest` and `AbsenceIsTrue` |
| `RateLimit`, `RateLimit_proofs` | the token bucket and the usage delay, as operators; what they promise |
| `MC...` | instances of the module of that name for TLC; `MCSyncJobs` also tests `RateLimit` |

### PublishComment

*State.* One variable per column the path decides on (`status`, `attemptCount`, `needsReconcile`,
`startedAt`, `platformCommentId`; `startedAt` is `coalesce(last_attempt_started_at, created_at)`,
the only way both readers use the two columns), the other tables it touches (`ingested`, `outbox`,
`relayed`, `quotaHolder`, `authFailed`, `parentDeleted`, `replyCount`), the jobs and their locks,
each worker slot's program counter and local values (`seen` is the row as `findTargetRow` read it,
`run` what `markProcessing` returned), the sweeper's selection, and the platform's `copies`. All
replies answer one comment of one other person from one account: that is where replies interact.

*Actions.* One per await of `publish-comment.ts`; a transaction is one action. `pc[w]` names the
statement a slot stands at. `Send` gives every answer of the port: success, an unknown outcome with
or without a copy on the platform, retryable, permanent, auth. A search (`Search`) finds any copy of
the same text inside its window or nothing; it can also fail (`SearchThrows`, or the requeue in
`SearchBeforeSending`). `ApplyOutcome` moves the job only after the row is settled, as
`publish-worker.ts` does, and only if the slot still holds the lock.

*Faults* are named in `FaultKinds` and limited by `MaxFaults`: `crash` (worker or sweeper process),
`error` (a database or Redis error escapes), `search` (a search throws), `enqueue` (the API's add is
lost), `stall` (BullMQ takes a live job for dead), `redis` (Redis is emptied). A job whose slot died
is found stalled without a fault.

*Abstracted.* The token bucket and Meta's usage report: any job may be delayed at its start. The
backoff ladder (at most 256 s): a delayed job may be promoted at any time. How many times BullMQ
retries a throwing processor: each time it may retry or give up. Texts are compared by equality of
`TextOf`. The sweeper's batch size. The sweeper's two selects are one step, and so are
the state lookup, removal and add of `reenqueueStuckJob`.

*Assumed.* A sent request has reached the platform, or never will, by the time its answer is
handled. Nobody deletes our copies on the platform, nor the anchor of a search, nor blocks the account (see
*An anchor that is gone or blocked* in section 4). Other people's comments never match the probe
(it compares the author). Clocks agree to within a minute.

### SyncJobs

*State.* `nextSync` and `cooldown` are the columns `next_sync_at` and `manual_cooldown_until` as
minutes still to go, `Never` a null; `jobStatus`, `jobTarget` and `age` the rows of
`comment_sync_jobs`, with the age of `created_at` or, once running, of `started_at`; `bull` and
`lock` the queue. `toAdd`, `toReenqueue` and `toFail` are what the one runner of the `scheduler`
queue holds between two statements; that all three are empty is its concurrency of 1 (`app/worker.ts`).
`scheduled` says whether the job schedulers of ticks and sweeps are registered in Redis; `PassDue` asks for
both. `rpc` and `wpc` name the statement a request or a slot stands at; `rcooldown` is the cooldown a
request read with its target. Countdowns and ages make the state finite without a bound on time:
the runs go on for ever.

*Actions.* `LeaseDueTargets` is the transaction of a tick (lease and insert), `AddScheduledJobs` its
`addBulk`, in which a crash can come between. `FindStuckSyncJobs`, `ReenqueueStuckJob` and
`FailAbandonedSyncJob` are the sweeper. `ResolveTarget` to `AnswerError` are the awaits of
`request-sync.ts`; a request that created a job and one that lost the conflict both add it.
`MarkJobRunning` and `FinalizeJob` are the two updates of the worker, the first conditional, the
second not: a verdict of the sweeper is overwritten. `WalkTarget` is everything a walk does to its
target's schedule.

*Faults* are those above; `enqueue` loses a request at any await, `error` ends a processor call by an
escaped error, after which BullMQ retries or gives up. `RedisLost` takes the jobs and with them the job
schedulers, which `main()` alone registers (`app/worker.ts:319-339`): until `WorkerRestarts`, no tick and no
sweep begins.

*Abstracted.* A walk is one step, which does not touch comments here. A row's name is used again
once nothing refers to it (`FreshJobs`). The next interval is any of `Intervals` or none. Any job may be
delayed at its start, and a delayed one promoted at any time. A batch holds every due target. The
sweeper's two selects are one step, and so are the lookup, removal and add of `reenqueueStuckJob`.
A kept job that Redis expires (after an hour or a day) is one that was lost with Redis.

### CommentThread

*State.* The platform (which of the two kinds it is, when each comment was `created`, which are `alive`,
`hidden` from the account, their `edition`), the webhook events Meta may still send (`deliveries`, a
set that is never emptied by being handled: any order, any number of times), the `comments` rows of
one post, and `target`, its `comment_sync_targets` row: none, one with a `next_sync_at`, or one without (the
post is older than `RETENTION_DAYS` or the target was deactivated), which is walked only when somebody asks.
`op` is what a transaction of ingestion has
found so far; `wpc`, `page`, `todo`, `tombstones`, `seen`, `missing` are the walk's locals, `stale`
the purge's selection. A row keeps two observers, how many `comment.received` and `comment.deleted`
its transactions wrote, and `born`, which tells a row from a purged one of the same id.

*Actions.* An upsert walks up the ancestors one hop per step (`WalkAncestorChain`; each may be a fetch)
and then writes everything at once (`CommitUpsert`: the chain, the row, `reply_count`,
`last_activity_at`, the events, or the rewrite of an edited row). `RunDelete` is the whole of
`delete`. The walk lists a page, ingests it, applies its tombstones, turns the page, selects what it
missed and deletes it row by row. The purge selects stale roots in one step and deletes by id in
another.

*Time.* `settled` says that a row's `updated_at` is older than the grace period; `eligible` are the
rows that were so when the walk began and have not been written since, which is what the cutoff of
`inferDeletions` comes to. `activity` and `created` are the order of writing.

*Abstracted.* Texts are editions. Nobody restores a comment or takes back a block. What a comment is
below (`AncestorsOf`) is the smallest set closed under `ParentOf`, so the tree may have any depth. Each
page has its comments, and what listing a page reads is
read at one moment. A row that conflicts and one found by the lookup are one case.

### OutboxRelay

*State.* `rows`, `stamped` (`published_at` is set), `attempts`, `queue` (ids BullMQ knows) and the observer
`delivered` (ids it ever accepted); for each pass `pc`, the rows it holds locked (`held`, `FOR UPDATE
SKIP LOCKED`) and, in the fallback, those it has yet to visit (`todo`). `createdAt` is the order of
the rows, which commits need not follow.

*Actions.* One per statement of `publishBatch` and `publishRow`; every one can fail, and where an answer
is lost the effect may have happened: `AddBulkFails` adds any part of the batch, `StampBatchFails`
commits or not. Passes of several `Runners` overlap only by a fault (the scheduler queue runs one at a
time unless its job stalls). `Poison` rows are those no add accepts.

The publish worker's `deleteEchoedDuplicate` is another writer of the table: `DeleteEchoed` deletes the
unpublished `comment.received` of a reply of our own, waiting for a pass that holds the row, and holds it
(`doomed`) until its transaction commits (`withdrawn`) or rolls back. `Echoes` are the rows that are
such a one.

### WebhookIntake

*State.* The intake's place in each POST (`handler`), `webhook_deliveries` (`rows`), the job of each
delivery, what a worker slot is executing (`exec`: delivery, position in its steps, statement), the
sweeper's selection, the credential of each account (`condition`), `account_health`, and three
observers of what became of a step, an event for one account: `ingested`, `gone`, `announced`.
`StepsOf` is what the normalizer and `listByPlatformAccount` make of a payload.

*Actions.* One per await of the handler and of the worker. Meta repeats a payload until it is
acknowledged. An `AuthError` is announced in one transaction and recorded in a second statement;
other errors fail the job, which BullMQ retries `JobAttempts` times. `JobStalled` of a live execution
is a fault, after which two executions work on one delivery. The sweeper and the seven-day purge are
here too. `RedisLost` takes the job schedulers of sweep and purge (`scheduled`) along, until `WorkerRestarts`.

*Abstracted.* What ingesting does to the rows of comments. A delivery gets old in one step (`BecomeStale`);
one that never could be processed may be purged, any other outlives its retries.

### AcceptComment and CommentListing

*State.* Each request's form and the statement its handler stands at, with the locals it carries from one
await to the next; the committed `comments` rows and `contact_quota_usage`; publish jobs; the
account. Connections and locks are derived from where the handlers stand: `InTransaction` holds a
connection, `HoldsKey` the unique index entry, `HoldsRows` the parent's and the root's row, `HoldsQuota` the
advisory lock. A transaction's writes become visible in `Commit`.

*Actions.* One per await of `createReply` and `createTopLevelComment`. A read outside the transaction needs
a free connection for its one step. That the quota looks up the workspace through the pool
(`CheckLimit`, guard `Free > 0`) is what `PoolExhausted` is about. Around them: the API process dies, a
connection dies under a statement (`ConnectionFails`: the client gets `INTERNAL_ERROR`, also where the commit
was carried out and only its acknowledgement is lost), a reply fails and gives its contact back, a parent is
deleted, the account disconnects.

`Acceptance` says what this comes to for a client. `Accept` is one step: the comment is there, and its
contact is counted within the limit or was counted before. What a client is told is its own comment, an
earlier one under its key with its text (`Name`), a reason that is real and no comment then or ever
(`Refuse`), or nothing it could rely on (`Leave`). `ImplementsAcceptance` maps the committed tables to it:
`accepted` is who has a row, `failed` whose row is failed, `holder` the usage table.

`CommentListing` adds one client who follows the cursor of one selection, in either order, to the end;
each page is one query, and a cursor is refused under the other order.

*Abstracted.* A text is one of three; the stored request hash is its text. One workspace, one account, one
month. Rows' positions are `(occurred_at, id)` with `Rank` the order of the ids.

### AdapterCalls

*State.* The platform's `thread`, writes that may still arrive (`pending`), what each publish told its caller
(`outcome`), the credential the platform takes, the one that is stored, Bluesky's cached session, and
per caller the call under way. `blocked` is the post and the comments that a block on Bluesky hides from
the account. `owed` is an observer: what was there when the call began and it has
not come across.

*Actions.* One per request of an adapter: session, login, the reads before a reply, the write, a page of a
search or a listing, a lookup. `Answers` are the ways a request fails and `Effects` what the platform may have
done all the same; `classifyGraphFailure` and `classifyBlueskyFailure` are the two tables of the code.

*Abstracted.* A write is found again by its identity; the code matches text, author and window, which
`PublishComment` models. A success without an id is not among the answers. No block is lifted: a read of
Bluesky is one request, so before and after are two calls.

### RateLimit

Operators, no state of its own: `TryAcquire` is the Lua script both workers run, with tokens counted in
the milliseconds they take to refill; `UsageDelay` is `usageDelayMs` over a reading that expires;
`StartWork` is the head of both workers. In the state machines any job may be delayed at its start.

## 4. Runs

Every run's `cfg` says which case it is in its first line. They say `CHECK_DEADLOCK FALSE` where the system
comes to rest once nobody writes; the `Sync` runs and `AdaptersTell` never stop and are checked for deadlock.

| Run | Instance | Checks | Shows |
|---|---|---|---|
| `PublishReliable` | 1 reply, 2 slots, 2 faults of crash, error, search, enqueue; 3 attempts, 6 min | `TypeOK`, `CopiesSpaced`, `SendLeavesEvidence`, `ImplementsLifecycle` | with exclusive jobs the guard never loses a send, copies are a window and an attempt apart, and the path follows the lifecycle |
| `PublishUnreliable` | 1 reply, 2 slots, 1 of crash, stall, redis; thresholds 0 and 1 | `OneRowPerCopy`, `PostedIsOnPlatform`, `OutcomeAnnounced`, `NoGhostAnnouncement` | two slots on one reply, and a copy that ingestion stores first, never make rows, ids and events disagree |
| `PublishSettles` | 1 reply, 1 slot, 2 faults, fairness | `EveryReplySettles` | an accepted reply ends `posted` or `failed` |
| `SyncExclusive` | 1 target, 2 job names, 2 slots, 1 request, 1 fault of any kind, thresholds 1 | `TypeOK`, `OneRunner`, `ImplementsTurns` | one runner per job, two walks of a target only when one was given up, walks take turns |
| `SyncProgress` | 1 target, 2 job names, 1 slot, 2 faults of any kind, thresholds 0, fairness | `EveryJobEnds`, `EveryDueTargetWalked` | no row blocks its target for ever, each due target is walked, also when an emptied Redis takes the schedulers along, if the worker is restarted then |
| `ThreadIngest` | a comment and its reply on two pages, both kinds of platform, 1 webhook slot and the walk, 1 hidden author, 1 purge | `TypeOK`, `RepliesCounted`, `TreeIsPlatforms`, `EachRowAnnouncedOnce`, `NoFalseDeletion`, `ActivityCoversThread`, `ErasureIsPermanent` | two writers and a purge in any order keep tree, counters, events and erasures right, and absence is only inferred of what is absent |
| `ThreadMirrors` | 1 comment, 2 edits, 1 hidden author, 1 aborted walk, fairness | `EventuallyMirrored` | once the platform is quiet, the walks of a post that stays in the schedule repair lost, late and reordered deliveries |
| `RelayDelivers` | 2 events and a poison row ahead of or between them, batches of 2, 2 passes, 2 faults, fairness | `StampedWasDelivered`, `NeverQueuedOnceSettled`, `EveryEventRelayed`, `PoisonIsReported` | a stamp means delivered, no event is added once it is stamped or being taken back, none waits for ever behind one that cannot be added |
| `IntakeSettles` | 1 delivery of a thin event to 2 accounts or a payload that is none, 2 slots, 2 attempts, 1 fault, 1 change of a credential, fairness | `ProcessedIsComplete`, `HealthIsAnnounced`, `AckedIsSettled`, `AnnouncedIsRecorded` | what Meta was answered 200 for is settled for every account whose credentials exist, if the worker is restarted after Redis is emptied |
| `ApiAccepts` | 2 requests of any kind over 3 comments of 2 contacts, limit 1, 3 connections, 1 change around them, 1 listing client with 2 selections, fairness | `ListTypeOK`, `AcceptedWhole`, `LimitKept`, `SameKeySameComment`, `PagesExact`, `ImplementsAcceptance`, `EveryRequestAnswered` | acceptance in one step, one comment per key, the limit, whole acceptance, exact pages, an answer to everybody while there are more connections than replies |
| `AdaptersTell` | 1 publisher, 1 reader, any platform, pages of 1, 2 comments, 1 write, 1 block, 1 fault, 1 new credential, fairness | `OutcomeHonest`, `AbsenceIsTrue`, `FixedCredentialServes` | no write that may have happened is called undone, nothing present is called absent (but behind a block, or under a deleted anchor), no dead session serves for ever |
| `PoolExhausted` | as `ApiAccepts`, 2 replies to 2 contacts, 2 connections | `EveryRequestAnswered` | violated: see below |

### Bounds

In the `Publish` runs time is in minutes: `StuckQueuedAfter = 1`, `StuckProcessingAfter = 5`,
`ReconcileWindow = 2` are the code's own values (60 s, 5 min, 2 min) in `PublishSettles`.
`PublishReliable` sweeps after 4: the sweep still comes a window later than the attempt it gives up
on, so every order of the three survives, and two attempts' worth of time (a sweep and a window of
two) fit in its 6 minutes; three attempts are the least in which an attempt is neither the first nor
adjacent to it. With the small
thresholds of `PublishUnreliable` order alone decides what the sweeper sees, which is every order
larger values allow and more. Two faults include every pair (a crash and then a failed search, a lost
enqueue and then a crash); symmetric slots are collapsed. Several replies, and replies with one text,
do not meet in a run; that the four invariants of `PublishUnreliable` hold among them too is proved
(section 5).

In the `Sync` runs only the order of the lease, the thresholds and the cooldown decides what happens
next, so each is the least number of minutes that allows every order. One target is enough because
only jobs of one target compete; a second job name lets a walk outlive its job and meet its
successor, a second slot walk it. Requests are left out of `SyncProgress`: a row they commit and
never add is, to the sweeper, the row of a tick that crashed. `MCSyncJobs` evaluates two assumptions
about `RateLimit` before it runs: `BucketIsTheRate` compares the script, over every sequence of five
calls in ten units of time, with the rate stated window by window, and `ThrottleComesFirst` the order
of the two gates.

In `ThreadIngest` the reply is on the page before its parent, so that a walk meets it first, and the
slot makes a second writer: two are what a race for one row takes. A reply below a reply would add
depth to the chain, which `PersistAncestorChain` folds over: for chains of any length there is the
proof (section 5). `ThreadMirrors` has one comment because
mirroring is a statement about each, and two edits because one overtaken edit needs a later one.

A batch of 2 in `RelayDelivers` is full with the poison row and one event and short with the rest, and a
second pass is what a stalled scheduler job makes; one of the events is an echo's. In `IntakeSettles` two accounts are the least of
which one can fail beside the other; two slots let a stalled execution meet its twin.
`ApiAccepts` has the pairs of requests that touch: one key twice, one key with another text or place,
one contact twice, two contacts for one last unit, too long, too deep; the two selections are every
top-level comment and the account's own replies to one comment, so rows enter both orders. `AdaptersTell` has
comments beyond one page, one write to lose, one block (of the post or of a comment) and a credential to replace.

### Fairness

*`PublishComment`.* A slot's steps, BullMQ's timers, stalled check and the sweeper are weakly
fair: they run in processes that are restarted. Taking a job and passing its token bucket are
strongly fair: a job may be delayed again and again, but the bucket refills at a constant rate
(`RetryAfterIsExact`) and the usage report expires. The clock of `PromptNext` moves only when an
unsettled reply waits for nothing but a threshold: steps and the backoff ladder take seconds to
minutes, the thresholds are longer, so this is the schedule in which the sweeper does not overtake
live work. The safety runs use `Spec`, where the clock is free.

*`SyncJobs`.* Ticks and sweeps are strongly fair: they are repeatable jobs of
one queue, each of which gets its turn although the others keep the runner busy, as long as their job
schedulers are registered. After Redis was emptied they are not, and no code registers them again but
`main()`: that somebody then restarts the worker is the formula `Operated`, an assumption on the operation
of the service and not on its code, kept apart from `Fairness` (section 4, *An emptied Redis*). Taking a job and
passing its token bucket are strongly fair, as above. What the runner has selected, a walk and its
result, BullMQ's timers and the clock are weakly fair. A walk ends because it is bounded
(`MAX_WALK_PAGES` in `sync-post.ts`).

*`CommentThread`.* A target with a `next_sync_at` is walked when it comes due (that is `EveryDueTargetWalked`), a
walk and an upsert go on, Meta gives up on each delivery in the end, the grace period passes. The platform need
not do anything, and nobody need ask for a walk of a target that has left the schedule: `EventuallyMirrored`
speaks of posts that stay in it.

*`OutboxRelay`*, *`WebhookIntake`*, *`AcceptComment`*, *`AdapterCalls`.* Weak fairness of each pass that
has begun and of starting one; of each execution, BullMQ's timers, the sweep and its selection; of each
handler (Node runs every callback, Postgres and the pool serve their queues in turn); of each call.
The transaction of an echo commits, unless it is rolled back by a fault. The sweep of `WebhookIntake` is fair
while its scheduler is registered, and its `Operated` is as in `SyncJobs`, before the delivery is purged.
Redis is not emptied in `PublishSettles` and `RelayDelivers`, whose sweep and relay depend on such
schedulers too. Nobody is obliged to send, to repair a credential or to crash.

### Disagreements with the documentation

One has a run that TLC must find violated. *`PoolExhausted`*: `attemptReservation` looks the workspace
up through the pool (`contact-quota.ts:129`) while its caller's transaction holds a connection, row locks
and perhaps the advisory lock. When as many replies to new contacts run at once as the pool has
connections, the one with the advisory lock waits for a connection, the others for the lock, and no
request is answered; `specs/001-multi-platform-comments/spec.md:83` promises an immediate answer.

The others are behaviour of the models that no property excludes. On the publish path:

- *A reply sent twice.* `reconcileBeforeSending` (`publish-comment.ts:531`) anchors its search at the start
  of the attempt just before. Attempt 1 sends and its worker dies; attempt 2's search fails, so it is
  requeued still armed; attempt 3 anchors at attempt 2, misses the copy and sends again. spec.md:264:
  "MUST never publish the same customer-authored comment to a platform twice". `CopiesSpaced` is what
  does hold: the copies are a window and an attempt apart.
- *Two attempts at once.* The conditional updates ask for status `processing`, not for the attempt that
  set it (`comment-repository.ts:673`): an attempt that outlives its lock and the sweeper's threshold
  passes its guard on the next attempt's claim, against `sweepers.ts:27-28`.
- *Attempts without limit.* `recoverStuckProcessingRow` requeues without looking at `attempt_count`
  (`sweepers.ts:138`); attempts that end in a crash are never counted out, against spec.md:268-269.
- *An uncounted contact.* A contact's reservation belongs to the first reply; when that one fails,
  `release` (`contact-quota.ts:167`) deletes it although a second reply to the same person is posted,
  against spec.md:274 and `contact-quota.ts:33-38`. `AcceptedWhole` states the exception.
- *A reservation held for good* when the worker dies between the commit of `failed` and the release
  (`publish-comment.ts:249`); FR-014 promises the release.
- *An echo counted twice.* `deleteEchoedDuplicate` does not take back the `reply_count` its row added
  (`publish-comment.ts:396`), against DESIGN.md:342-344.
- *A twin replaced.* Two replies of one text to one parent match one search: the second is given the
  first one's id and the echo deletes the first one's row (`publish-comment.ts:393`).

On the read and sync paths:

- *A cooldown overtaken.* A request decides on the cooldown it read before another request's whole walk
  (`request-sync.ts:205`), against spec.md:141-142. One that loses the conflict to a job that ends
  before it is read back fails (`AnswerError`), against `request-sync.ts:21-22`.
- *The post as a comment.* On Bluesky a direct comment's parent is the post (`thread.ts:29`), so its
  ancestor chain stores the post itself as a top-level row and direct comments get depth 1
  (`ReportedParent`); a later walk infers that row deleted.
- *Hidden is deleted.* A comment whose author blocks the account is skipped with what is below it
  (`thread.ts:81`: unreadable, but no sign of a deletion); the walk then misses those rows and infers
  them deleted, for ever (`NoFalseDeletion` counts only what is `Reachable`).
- *An anchor that is gone or blocked.* Bluesky's search answers "absent" under either
  (`bluesky/adapter.ts:245-248`, "no reply of ours could exist under it"), although replies survive a deleted
  anchor and a block; the search then licenses a second send. A lookup answers `null` for a blocked comment
  (`bluesky/adapter.ts:346-350`). `AbsenceIsTrue` states both exceptions.
- *An emptied Redis.* `sync-job-sweeper.ts:11-15` and the root `spec.md:1018-1025` have the sweeper recover what
  Redis lost. But sweeps and ticks are job schedulers kept in that Redis and registered only when the worker
  starts (`app/worker.ts:319-339`): the recovery begins with the worker's next restart, which SC-011
  (spec.md:398, "and restarting") allows for and those two do not mention. Without `Operated`, TLC finds
  `EveryJobEnds` violated by `RedisLost` and then nothing.
- *A post out of the schedule.* Past `RETENTION_DAYS`, or after a `PermanentError`, a target has no `next_sync_at`
  (`sync-target-repository.ts:188-190`, `sync-post.ts:454-457`). A delete that overtook its upsert there leaves a
  row `posted` that is repaired only by a manual request, or goes with the purge.
- *A delivered event taken back.* A pass whose stamp failed has delivered a `comment.received` that is still
  unpublished in the table; the echo deletes row and comment, and consumers were told of a comment nobody can
  read, which the comment at `publish-comment.ts:367-371` rules out only for stamped rows.
- *A full batch of poison rows* blocks every row behind it: `EveryEventRelayed` needs fewer of them than
  `BATCH_SIZE`.
- *A payload that is JSON but no object* is stored, acknowledged and retried until the purge, and one account
  without a credentials row fails the later accounts of its delivery: `Serviceable` excludes both.
- *A retry answered 422.* The idempotency key is looked up after the checks, so a retry after its parent
  was deleted or the account disconnected is refused, against spec.md:92-94.
- *The purge* selects stale threads and deletes them by id without looking at their activity again.
- *Clocks.* The token bucket is stamped with the caller's clock even when that is behind, so workers
  whose clocks differ get the difference refunded each time they alternate; "one publish every four
  seconds" (`publish-worker.ts:82`) holds for one clock.

## 5. Proofs

TLAPS checks every proof; TLC checks the same formulas on the instances above. Each inductive
invariant was first checked by TLC.

`PublishComment_proofs` proves, for any replies, slots, thresholds and faults, `Spec => []P` for
`TypeOK`, `OneRowPerCopy`, `PostedIsOnPlatform`, `OutcomeAnnounced` and `NoGhostAnnouncement`. The
inductive invariant `IdentityInv` adds to them `PublishedIsOnPlatform`: the copy a slot is about to
settle with is on the platform and carries its reply's text. Without it `PostedIsOnPlatform` is not
inductive, because `SettlePosted` copies that local value into the row.

Its second half assumes `ExclusiveJobs` (no `stall`, no `redis`: what BullMQ's lock is for) and
proves `SendLeavesEvidence` and `CopiesSpaced`; with `DistinguishableReplies` (no two replies share a
text) it proves `LifecycleImplemented`, the refinement of `CommentLifecycle`. The inductive invariant
`GuardInv` says that a slot past its claim holds the job (`JobExclusion`); that nothing was sent for a
reply not yet accepted (`NothingFromNowhere`); and, for each reply and for each slot by the
statement it stands at, what its row and what the slot remembers say about every copy (`AllTruth`:
`RowTruth` and `SlotTruth`), for instance that a slot that read the guard down may only send if
every copy lies before its window. The proofs go action by action, one lemma per group of actions.
Both hypotheses are needed: two attempts at once and a twin replaced (section 4) are what happens
without them.

`SyncJobs_proofs` proves `TypeOK`, `OneRunner` and the refinement `ImplementsTurns` for any targets, jobs,
slots, requests, intervals, thresholds and faults, from `SyncAssumption` alone. The inductive
invariant `SyncInv` adds to the types that a walking slot's row has been claimed and is never queued
again (`WalksHaveBegun`), that walking slots hold different rows (`WalksApart`) and that a target has
one active row (`OneActiveJob`). Not even the types are inductive without it: `finalizeJob` would
write a status into a row that does not exist. `EveryStepHasAKind` sorts all steps by what they do to
the rows (keep, insert, begin a walk, end a job), and both the invariant and the refinement go by
those four kinds.

`OutboxRelay_proofs` proves `TypeOK` (no run spends time on it), `StampedWasDelivered`,
`NeverQueuedOnceSettled` and `NoEventLost` (a row
leaves the table only when the queue has had it, or as an echo that is taken back)
for any events, orders, batch size, poison rows,
passes and faults. `LockInv` is the row locks: what a pass holds is in the table and unstamped
(`HeldUnpublished`), no two passes hold one row (`LocksExclusive`), an echo's
transaction holds what it deletes (`EchoLocks`), and a pass about to stamp holds what
the queue accepted (`StampsDelivered`). `NeverQueuedOnceSettled` follows because only held rows are added.

`WebhookIntake_proofs` proves `TypeOK`, `ProcessedIsComplete` and `HealthIsAnnounced` for any payloads,
accounts, slots, workers, attempts and faults. `IntakeInv` adds `PassedIsSettled`: every event an
execution has behind it is settled, and one that stands before the health record has been announced;
an execution that reached the mark has all its events behind it. That holds of each execution by itself,
so twins of a stalled job need no exclusion. `RowsExist` says that whatever refers to a delivery
refers to a stored one, without which the types are not inductive.

`RateLimit_proofs` proves of the bucket script, for any capacity and rate and a lifetime of at least a full
refill: it stays within its bounds under any clocks; over any sequence of calls, what was granted
between any two of them is no more than a full bucket and what the time between refills (`RateHolds`,
from the step `GrantsArePaidFor`), while no clock is behind the stamp; and the delay a refused job is
given is exact. Adding the steps up needs an induction over the calls. It is the least-number
principle, from the well-foundedness of `<` on the naturals (`LeastNumber`, `Climb`): no induction
theorem with an operator for a parameter is needed. `BucketIsTheRate` is TLC's evaluation of the same.

`CommentListing_proofs` first proves, of `AcceptComment`, `TypeOK`, `AcceptedWhole`, `LimitKept` and
`SameKeySameComment` for any requests,
comments, contacts, limit, pool and faults. `AcceptInv` adds what a handler has established by the time
it is where it is (`HandlersKnow`), and that two handlers never stand together behind one key
(`KeysExclusive`) or behind the quota's lock (`QuotaExclusive`). `LimitAhead` is the crux of the limit: whoever was
told there is room still has it when the commit comes, because only the holder of the lock
counts a contact. The types are not inductive without `AcceptedWhole`: a parent's counter is decremented,
and stays a natural number only because the parent counted the comment. One lemma (`HandlerMoves`)
serves every step that commits nothing; the commit, the failed reply and the deletion have their own.

`NeverAllBlockedHolds` is the other side of the finding `PoolExhausted`: with one connection more than
requests, whenever handlers are underway the next statement of one of them can run. `Unblocked` spells
out the guards of `Handle`, since `ENABLED` is beyond the prover. The argument is the order key, rows,
quota: whoever is furthest waits for a connection at most, and one is free; who lost the race for a
key finds its winner (`WinnersStay`). With as many connections as requests TLC refutes it.

`AcceptanceImplemented` is the refinement of `Acceptance`, step by step. A request is accepted where its
transaction commits (`CommitAccepts`); what its handler does before maps to stuttering (`NobodyNotices`) and what it
does after is to tell. Two more facts carry it. Nobody is told anything before the end (`AnswersLast`), so
one answer is all a client gets. Whoever is about to count a contact still finds it new
(`SpendsOnNew`), for no other holder of the lock can come between, so the count that commits is
the one the limit was checked for. A refusal for the quota or for a reused key then has its reason in
the state in which it is given, and the refused request no comment.

It then proves `ListTypeOK` and `PagesExact` of the composition, for any selections, ids and page
size in either order. `WalkInv`: what the client has lies at or before its cursor, what it must still get
behind it. It holds because no row ever moves in the order (`PlacesStay`) and a page is a prefix of
what lies behind the cursor (`FirstOfIsPrefix`); that a page has a last row is well-foundedness of strict
inclusion (`LastExists`), which needs no induction theorem with an operator for a parameter.
`ListingLeavesWritesAlone` makes every theorem about `AcceptComment` one about the composition.

`AdapterCalls_proofs` proves `OutcomeHonest` and `AbsenceIsTrue` for any callers, comments, writes, page size,
faults and credentials. `HonestInv` adds where a platform keeps its comments (`ThreadShape`), that a
call of `publishComment` has sent nothing until its one request (`PublishTruth`) and that no two calls
have one write (`WritesApart`). `AbsenceInv` adds that what a reader still owes lies behind its
cursor (`FindTruth` and its siblings): a page looks at everything up to the next cursor, and a
comment that is there all along does not move; what the code cannot see, because of a block or a
deleted anchor (`OutOfSight`), it owes nobody. The failure tables matter only in one place, that
what may have been carried out is classified as `OutcomeUnknownError`.

`CommentThread_proofs` proves `TypeOK`, `RepliesCounted`, `TreeIsPlatforms`, `EachRowAnnouncedOnce`, `NoFalseDeletion`,
`ActivityCoversThread` and `ErasureIsPermanent` for any finite set of comments, a tree of any depth, any
pages, writers, editions, purges and faults. The inductive invariant `ThreadInv` has these parts.

- `PlatformTruth`: what a delivery reports was written, and what it reports deleted is gone.
- `Table(rows)`: types, places (`Rooted`), counters (`Counted`), activity (`Covered`) and each row's own
  record (`Sound`). It is a predicate of a table because an upsert writes one row after the other, and
  every row in between must leave a table. Counters and places need each other: a reply is
  counted where its row says it stands.
- `WriterTruth`: an upsert underway has a line of copies each of which answers the one before
  (`Sourced`), and the row it builds on is the one it read unless a purge took that (`Based`), in which
  case the foreign key makes the commit fail. Without it an ancestor chain could be hung below anything.
- `WalkTruth` and `DeletedGone`: what a page has passed without showing it is gone for good, so what
  the walk deletes is. That is the crux of `NoFalseDeletion`, and it rests on a comment that is gone
  staying so: in the model nobody restores a comment or takes a block back (see section 4, *Hidden is
  deleted*, for what the code does to such a comment).
- `StaleTruth`: no row takes the place of a root the purge selected, so a purge deletes whole threads
  (`ThreadsStayWhole`).

A transaction is a fold over the ancestor chain, of any length. `ChainUnfolds` gives its values prefix by
prefix and `Climb` (as above) carries `Table` from each to the next, so one row at a time is all a
lemma has to insert (`Inserted`) or rewrite (`Rewritten`). `ErasureIsPermanent` is an action property from
the same invariant: a row that is written again is one that is not deleted.

Only model-checked is liveness, which is beyond the prover: `EveryReplySettles`, `EveryJobEnds`,
`EveryDueTargetWalked`, `EventuallyMirrored`, `EveryEventRelayed`, `PoisonIsReported`, `AckedIsSettled`,
`AnnouncedIsRecorded`, `EveryRequestAnswered` and `FixedCredentialServes`. Every invariant and every action
property a run checks, and the three refinements, are theorems; each step of the refinements is proved, the
fairness of the detailed specifications plays no part in them.

## 6. Not modelled

Routing, schemas and authentication of the HTTP API, signatures and the subscription handshake, how
payloads and usage headers are parsed, credential decryption, start-up (but for the registration of the
schedulers), configuration and shutdown,
scripts and migrations, logging. The age bands of `computeNextSyncAt` are any of `Intervals`. The
race of two ingestions to insert one sync target is settled by its unique index and is one step.
Postgres breaks a deadlock between two transactions that lock rows in opposite order by failing one of
them, which is an error escaping like any other and is not modelled as more than that. Components marked
`partly` or `not_modelled` in `PROJECT.json` say what is left out.
