---------------------------- MODULE PublishComment ----------------------------
(***************************************************************************)
(* The publish path of the comments service: replies accepted by the API,  *)
(* the comment-publish jobs BullMQ keeps in Redis, the worker attempts     *)
(* that send them to the platform and settle their rows in Postgres, and   *)
(* the stuck-work sweeper that revives rows whose attempt was lost.        *)
(*                                                                         *)
(* All replies answer one parent comment from one social account, the      *)
(* setting in which they can interact: they share the parent's contact     *)
(* for the quota, its reply_count, and the platform thread that            *)
(* reconciliation searches.  One unit of time is a minute.                 *)
(***************************************************************************)
EXTENDS Integers, FiniteSets

CONSTANTS
  Comments,               \* replies the API may accept
  Workers,                \* slots of the publish worker (WORKER_CONCURRENCY of them)
  TextOf,                 \* the text of each reply, all that tells two of them apart
  NoComment, NoWorker, NoCopy, Account,
  MaxPublishAttempts,     \* MAX_PUBLISH_ATTEMPTS
  ReconcileWindow,        \* RECONCILE_WINDOW_MS
  StuckQueuedAfter,       \* STUCK_QUEUED_AFTER_MS
  StuckProcessingAfter,   \* STUCK_PROCESSING_AFTER_MS
  FaultKinds,             \* the faults this instance admits
  MaxFaults,              \* bound: how many of them may happen
  MaxTime                 \* bound: how long the instance runs

AllFaults == {"crash", "error", "search", "enqueue", "stall", "redis"}

ASSUME PublishAssumption ==
  /\ NoComment \notin Comments /\ NoWorker \notin Workers
  /\ MaxPublishAttempts \in Nat \ {0}
  /\ ReconcileWindow \in Nat
  /\ StuckQueuedAfter \in Nat /\ StuckProcessingAfter \in Nat
  /\ FaultKinds \subseteq AllFaults
  /\ MaxFaults \in Nat /\ MaxTime \in Nat

\* A comment as it exists on the platform; a claimed attempt sends at most once.
Copy == [by: Comments, attempt: Nat, at: Nat]

ASSUME CopyAssumption == NoCopy \notin Copy

VARIABLES
  now,              \* minutes since the start
  faults,           \* faults so far
  \* Postgres: the comments rows of our replies
  status,
  attemptCount,
  needsReconcile,
  startedAt,        \* coalesce(last_attempt_started_at, created_at)
  platformCommentId,
  \* Postgres: everything else the path reads or writes
  ingested,         \* platform copies that ingestion stored as rows of their own
  outbox,           \* outbox_events rows
  relayed,          \* those of them with published_at set
  quotaHolder,      \* comment_id of the contact's contact_quota_usage row
  authFailed,       \* account_health says auth_failed
  parentDeleted,
  replyCount,       \* reply_count of the parent
  \* Redis: BullMQ
  job, lock,
  \* processes
  accepting,        \* committed by the API, not enqueued yet
  pc, task, seen, run, published,
  toRecover, toEnqueue,
  \* the platform
  copies

time    == <<now, faults>>
rows    == <<status, attemptCount, needsReconcile, startedAt, platformCommentId>>
tables  == <<ingested, outbox, relayed, quotaHolder, authFailed, parentDeleted, replyCount>>
queue   == <<job, lock>>
worker  == <<pc, task, seen, run, published>>
sweeper == <<toRecover, toEnqueue>>
vars    == <<time, rows, tables, queue, accepting, worker, sweeper, copies>>

-------------------------------------------------------------------------------
Statuses   == {"absent", "queued", "processing", "posted", "failed", "gone"}
JobStates  == {"none", "waiting", "active", "delayed", "done"}
Steps == {"idle", "start", "claim", "parent", "context", "searchFirst", "clear",
          "arm", "send", "searchAfter", "settlePosted", "echo", "retryLimited",
          "retryUnknown", "fail", "failAuth", "release", "releaseAuth", "health",
          "postpone", "finish"}

Event(type, agg) == [type |-> type, agg |-> agg]
Events == [type: {"received", "posted", "failed", "auth_failed"},
           agg: Comments \cup Copy \cup {Account}]

Snapshot == [attemptCount: Nat, needsReconcile: BOOLEAN, startedAt: Nat]
Blank    == [attemptCount |-> 0, needsReconcile |-> FALSE, startedAt |-> 0]
Attempt  == [ordinal: Nat, startedAt: Nat]
NoRun    == [ordinal |-> 0, startedAt |-> 0]

TimeType == now \in Nat /\ faults \in Nat

RowsType ==
  /\ status \in [Comments -> Statuses]
  /\ attemptCount \in [Comments -> Nat]
  /\ needsReconcile \in [Comments -> BOOLEAN]
  /\ startedAt \in [Comments -> Nat]
  /\ platformCommentId \in [Comments -> Copy \cup {NoCopy}]

TablesType ==
  /\ ingested \subseteq Copy
  /\ outbox \subseteq Events /\ relayed \subseteq Events
  /\ quotaHolder \in Comments \cup {NoComment}
  /\ authFailed \in BOOLEAN /\ parentDeleted \in BOOLEAN
  /\ replyCount \in Nat

QueueType ==
  /\ job \in [Comments -> JobStates]
  /\ lock \in [Comments -> Workers \cup {NoWorker}]

WorkerType ==
  /\ pc \in [Workers -> Steps]
  /\ task \in [Workers -> Comments \cup {NoComment}]
  /\ \A w \in Workers : pc[w] # "idle" => task[w] \in Comments
  /\ seen \in [Workers -> Snapshot]
  /\ run \in [Workers -> Attempt]
  /\ published \in [Workers -> Copy \cup {NoCopy}]

\* Every variable has its type, and a slot at work has a reply to work on.
TypeOK ==
  /\ TimeType /\ RowsType /\ TablesType /\ QueueType /\ WorkerType
  /\ accepting \subseteq Comments
  /\ toRecover \subseteq Comments /\ toEnqueue \subseteq Comments
  /\ copies \subseteq Copy

Init ==
  /\ now = 0 /\ faults = 0
  /\ status = [c \in Comments |-> "absent"]
  /\ attemptCount = [c \in Comments |-> 0]
  /\ needsReconcile = [c \in Comments |-> FALSE]
  /\ startedAt = [c \in Comments |-> 0]
  /\ platformCommentId = [c \in Comments |-> NoCopy]
  /\ ingested = {} /\ outbox = {} /\ relayed = {}
  /\ quotaHolder = NoComment
  /\ authFailed = FALSE /\ parentDeleted = FALSE
  /\ replyCount = 0
  /\ job = [c \in Comments |-> "none"]
  /\ lock = [c \in Comments |-> NoWorker]
  /\ accepting = {}
  /\ pc = [w \in Workers |-> "idle"]
  /\ task = [w \in Workers |-> NoComment]
  /\ seen = [w \in Workers |-> Blank]
  /\ run = [w \in Workers |-> NoRun]
  /\ published = [w \in Workers |-> NoCopy]
  /\ toRecover = {} /\ toEnqueue = {}
  /\ copies = {}

Fault(kind) ==
  /\ kind \in FaultKinds
  /\ faults < MaxFaults
  /\ faults' = faults + 1
  /\ UNCHANGED now

-------------------------------------------------------------------------------
(* The API: accept a reply in one transaction, then enqueue its job. *)

Accept(c) ==
  /\ status[c] = "absent" /\ ~parentDeleted /\ ~authFailed
  /\ status' = [status EXCEPT ![c] = "queued"]
  /\ startedAt' = [startedAt EXCEPT ![c] = now]
  /\ quotaHolder' = IF quotaHolder = NoComment THEN c ELSE quotaHolder
  /\ replyCount' = replyCount + 1
  /\ outbox' = outbox \cup {Event("received", c)}
  /\ accepting' = accepting \cup {c}
  /\ UNCHANGED <<time, attemptCount, needsReconcile, platformCommentId, ingested, relayed,
                 authFailed, parentDeleted, queue, worker, sweeper, copies>>

\* Queue.add with the id of a job Redis still holds is a silent no-op.
Enqueue(c) ==
  /\ c \in accepting
  /\ accepting' = accepting \ {c}
  /\ job' = [job EXCEPT ![c] = IF @ = "none" THEN "waiting" ELSE @]
  /\ UNCHANGED <<time, rows, tables, lock, worker, sweeper, copies>>

\* The add fails (and is swallowed), or the API dies after its commit.
EnqueueLost(c) ==
  /\ c \in accepting
  /\ Fault("enqueue")
  /\ accepting' = accepting \ {c}
  /\ UNCHANGED <<rows, tables, queue, worker, sweeper, copies>>

-------------------------------------------------------------------------------
(* BullMQ: taking, delaying and finishing a job.  A slot that lost its lock  *)
(* can no longer move the job, whatever its processor returns.               *)

Goto(w, step) == pc' = [pc EXCEPT ![w] = step]

LeaveJob(w, state) ==
  LET c == task[w] IN
  /\ job' = IF lock[c] = w THEN [job EXCEPT ![c] = state] ELSE job
  /\ lock' = IF lock[c] = w THEN [lock EXCEPT ![c] = NoWorker] ELSE lock

\* Mutant: the slot drops its task and goes on.
ForgetTaskOnly(w) ==
  /\ task' = [task EXCEPT ![w] = NoComment]
  /\ UNCHANGED <<pc, seen, run, published>>

Forget(w) ==
  /\ Goto(w, "idle")
  /\ task' = [task EXCEPT ![w] = NoComment]
  /\ seen' = [seen EXCEPT ![w] = Blank]
  /\ run' = [run EXCEPT ![w] = NoRun]
  /\ published' = [published EXCEPT ![w] = NoCopy]

Return(w, state) == LeaveJob(w, state) /\ Forget(w)

\* The processor rejects: BullMQ retries the job under its own backoff until
\* its attempts are used up; which of the two it is here is left open.
Throw(w) == \E state \in {"delayed", "done"} : Return(w, state)

TakeJob(w, c) ==
  /\ pc[w] = "idle" /\ job[c] = "waiting"
  /\ job' = [job EXCEPT ![c] = "active"]
  /\ lock' = [lock EXCEPT ![c] = w]
  /\ task' = [task EXCEPT ![w] = c]
  /\ Goto(w, "start")
  /\ UNCHANGED <<time, rows, tables, accepting, seen, run, published, sweeper, copies>>

\* The platform's usage report or the account's empty token bucket delays the job.
DelayJob(w) ==
  /\ pc[w] = "start"
  /\ Return(w, "delayed")
  /\ UNCHANGED <<time, rows, tables, accepting, sweeper, copies>>

Promote(c) ==
  /\ job[c] = "delayed"
  /\ job' = [job EXCEPT ![c] = "waiting"]
  /\ UNCHANGED <<time, rows, tables, lock, accepting, worker, sweeper, copies>>

\* BullMQ's stalled check: the slot that locked the job died, or (a fault) it
\* is alive but paused for longer than the lock and does not notice.
Stalled(c) ==
  /\ job[c] = "active"
  /\ IF task[lock[c]] = c THEN Fault("stall") ELSE UNCHANGED time
  /\ \E state \in {"waiting", "done"} : job' = [job EXCEPT ![c] = state]
  /\ lock' = [lock EXCEPT ![c] = NoWorker]
  /\ UNCHANGED <<rows, tables, accepting, worker, sweeper, copies>>

RedisLost ==
  /\ Fault("redis")
  /\ job' = [c \in Comments |-> "none"]
  /\ lock' = [c \in Comments |-> NoWorker]
  /\ UNCHANGED <<rows, tables, accepting, worker, sweeper, copies>>

Crash(w) ==
  /\ pc[w] # "idle"
  /\ Fault("crash")
  /\ Forget(w)
  /\ UNCHANGED <<rows, tables, queue, accepting, sweeper, copies>>

\* A database or Redis error escapes the processor at any of its awaits.
ProcessorError(w) ==
  /\ pc[w] # "idle"
  /\ Fault("error")
  /\ Throw(w)
  /\ UNCHANGED <<rows, tables, accepting, sweeper, copies>>

-------------------------------------------------------------------------------
(* One publish attempt, an action per await.  Each acts on task[w].          *)

\* The row is read once, before the claim; its values guide the whole attempt.
ReadTarget(w) ==
  LET c == task[w] IN
  /\ pc[w] = "start"
  /\ \/ /\ status[c] = "gone"
        /\ Return(w, "done")
     \/ /\ status[c] # "gone"
        /\ seen' = [seen EXCEPT ![w] = [attemptCount   |-> attemptCount[c],
                                        needsReconcile |-> needsReconcile[c],
                                        startedAt      |-> startedAt[c]]]
        /\ Goto(w, "claim")
        /\ UNCHANGED <<queue, task, run, published>>
  /\ UNCHANGED <<time, rows, tables, accepting, sweeper, copies>>

\* Every conditional UPDATE answers "skipped" when the row has moved on.
Skip(w) ==
  /\ Return(w, "done")
  /\ UNCHANGED <<time, rows, tables, accepting, sweeper, copies>>

MarkProcessing(w) ==
  LET c == task[w] IN
  /\ pc[w] = "claim"
  /\ \/ status[c] # "queued" /\ Skip(w)
     \/ /\ status[c] = "queued"
        /\ status' = [status EXCEPT ![c] = "processing"]
        /\ attemptCount' = [attemptCount EXCEPT ![c] = @ + 1]
        /\ startedAt' = [startedAt EXCEPT ![c] = now]
        /\ run' = [run EXCEPT ![w] = [ordinal |-> attemptCount[c] + 1, startedAt |-> now]]
        /\ Goto(w, "parent")
        /\ UNCHANGED <<time, needsReconcile, platformCommentId, tables, queue, accepting,
                       task, seen, published, sweeper, copies>>

OnlyGoto(w, step) ==
  /\ Goto(w, step)
  /\ UNCHANGED <<time, rows, tables, queue, accepting, task, seen, run, published,
                 sweeper, copies>>

CheckParent(w) ==
  /\ pc[w] = "parent"
  /\ OnlyGoto(w, IF parentDeleted THEN "fail" ELSE "context")

\* The account or its credentials may be missing, or not decrypt.
LoadContext(w) ==
  /\ pc[w] = "context"
  /\ \/ OnlyGoto(w, "fail")
     \/ OnlyGoto(w, "failAuth")
     \/ OnlyGoto(w, IF seen[w].needsReconcile THEN "searchFirst" ELSE "arm")

\* What findPublishedComment recognises: same author, parent and text, not older
\* than the window before the anchor.
Matches(c, anchor) ==
  {k \in copies : TextOf[k.by] = TextOf[c] /\ k.at + ReconcileWindow >= anchor}

\* A completed search; `none` is where the attempt goes on an empty answer.
Search(w, anchor, none) ==
  \/ \E k \in Matches(task[w], anchor) :
       /\ published' = [published EXCEPT ![w] = k]
       /\ Goto(w, "settlePosted")
       /\ UNCHANGED <<time, rows, tables, queue, accepting, task, seen, run, sweeper, copies>>
  \/ Matches(task[w], anchor) = {} /\ OnlyGoto(w, none)

\* Mutant: the window is anchored at this attempt's own clock.
SearchFromNow(w) ==
  /\ pc[w] = "searchFirst"
  /\ Search(w, now, "clear") \/ OnlyGoto(w, "retryUnknown")

SearchBeforeSending(w) ==
  /\ pc[w] = "searchFirst"
  /\ \/ Search(w, seen[w].startedAt, "clear")
     \/ OnlyGoto(w, "retryUnknown")      \* the search was rate limited or cut off

SearchAfterSending(w) ==
  /\ pc[w] = "searchAfter"
  /\ Search(w, run[w].startedAt, "retryUnknown")

\* After a send any failed search escapes, before one a Permanent/AuthError does:
\* the row stays `processing`.
SearchThrows(w) ==
  /\ pc[w] \in {"searchFirst", "searchAfter"}
  /\ Fault("search")
  /\ Throw(w)
  /\ UNCHANGED <<rows, tables, accepting, sweeper, copies>>

SetReconcileGuard(w, guard, step) ==
  LET c == task[w] IN
  \/ status[c] # "processing" /\ Skip(w)
  \/ /\ status[c] = "processing"
     /\ needsReconcile' = [needsReconcile EXCEPT ![c] = guard]
     /\ Goto(w, step)
     /\ UNCHANGED <<time, status, attemptCount, startedAt, platformCommentId, tables, queue,
                    accepting, task, seen, run, published, sweeper, copies>>

ClearReconcileGuard(w) == pc[w] = "clear" /\ SetReconcileGuard(w, FALSE, "arm")

\* Mutant: the send is not recorded before it happens.
SendUnrecorded(w) == pc[w] = "arm" /\ OnlyGoto(w, "send")

MarkSendAttempted(w) == pc[w] = "arm" /\ SetReconcileGuard(w, TRUE, "send")

SentCopy(w) == [by |-> task[w], attempt |-> run[w].ordinal, at |-> now]

\* Mutant: an unknown outcome counts as published.
SendAssumed(w) ==
  /\ pc[w] = "send"
  /\ copies' = copies \cup {SentCopy(w)} \/ UNCHANGED copies
  /\ Goto(w, "settlePosted")
  /\ published' = [published EXCEPT ![w] = SentCopy(w)]
  /\ UNCHANGED <<time, rows, tables, queue, accepting, task, seen, run, sweeper>>

\* The one adapter.publishComment call, with every answer it can give.
Send(w) ==
  /\ pc[w] = "send"
  /\ \/ /\ copies' = copies \cup {SentCopy(w)}
        /\ \/ Goto(w, "settlePosted") /\ published' = [published EXCEPT ![w] = SentCopy(w)]
           \/ Goto(w, "searchAfter") /\ UNCHANGED published
        /\ UNCHANGED <<time, rows, tables, queue, accepting, task, seen, run, sweeper>>
     \/ \E step \in {"searchAfter", "retryLimited", "fail", "failAuth"} : OnlyGoto(w, step)

\* Mutant: the index does not cover replies.
TakenByIngestion(k) == k \in ingested

\* The unique index on (social_account_id, platform_comment_id).
Taken(k) == k \in ingested \/ \E c \in Comments : platformCommentId[c] = k

MarkPosted(c, k) ==
  /\ status' = [status EXCEPT ![c] = "posted"]
  /\ platformCommentId' = [platformCommentId EXCEPT ![c] = k]
  /\ needsReconcile' = [needsReconcile EXCEPT ![c] = FALSE]
  /\ outbox' = outbox \cup {Event("posted", c)}
  /\ UNCHANGED <<attemptCount, startedAt>>

SettlePosted(w) ==
  LET c == task[w]
      k == published[w]
  IN
  /\ pc[w] = "settlePosted"
  /\ \/ status[c] # "processing" /\ Skip(w)
     \/ status[c] = "processing" /\ Taken(k) /\ OnlyGoto(w, "echo")
     \/ /\ status[c] = "processing" /\ ~Taken(k)
        /\ MarkPosted(c, k)
        /\ Goto(w, "finish")
        /\ UNCHANGED <<time, ingested, relayed, quotaHolder, authFailed, parentDeleted,
                       replyCount, queue, accepting, task, seen, run, published, sweeper,
                       copies>>

\* The replies of ours the echo deletes: those stored under the id we were given.
Echoed(w) == {d \in Comments : platformCommentId[d] = published[w]}

\* Mutant: the events of a deleted row stay.
NoEventsDeleted(w) == {}

\* The comment.received events that go with the deleted row: the unpublished ones.
EchoedEvents(w) ==
  {Event("received", a) : a \in Echoed(w) \cup ({published[w]} \cap ingested)} \ relayed

\* One transaction: the row already stored under k goes, with its unpublished
\* comment.received, and ours takes its place.  It rolls back, and the job
\* throws, when that row or our claim is gone.
ResolveWebhookEcho(w) ==
  LET c == task[w]
      k == published[w]
  IN
  /\ pc[w] = "echo"
  /\ \/ /\ status[c] = "processing" /\ Taken(k)
        /\ status' = [d \in Comments |-> IF d = c THEN "posted"
                                         ELSE IF d \in Echoed(w) THEN "gone" ELSE status[d]]
        /\ platformCommentId' = [d \in Comments |-> IF d = c THEN k
                                         ELSE IF d \in Echoed(w) THEN NoCopy
                                         ELSE platformCommentId[d]]
        /\ needsReconcile' = [needsReconcile EXCEPT ![c] = FALSE]
        /\ ingested' = ingested \ {k}
        /\ outbox' = (outbox \ EchoedEvents(w)) \cup {Event("posted", c)}
        /\ Goto(w, "finish")
        /\ UNCHANGED <<time, attemptCount, startedAt, relayed, quotaHolder, authFailed,
                       parentDeleted, replyCount, queue, accepting, task, seen, run, published,
                       sweeper, copies>>
     \/ /\ status[c] # "processing" \/ ~Taken(k)
        /\ Throw(w)
        /\ UNCHANGED <<time, rows, tables, accepting, sweeper, copies>>

Exhausted(w) == seen[w].attemptCount + 1 >= MaxPublishAttempts

SettleRetry(w) ==
  LET c == task[w] IN
  /\ pc[w] \in {"retryLimited", "retryUnknown"} /\ ~Exhausted(w)
  /\ \/ status[c] # "processing" /\ Skip(w)
     \/ /\ status[c] = "processing"
        /\ status' = [status EXCEPT ![c] = "queued"]
        /\ needsReconcile' = [needsReconcile EXCEPT ![c] = (pc[w] = "retryUnknown")]
        /\ Goto(w, "postpone")
        /\ UNCHANGED <<time, attemptCount, startedAt, platformCommentId, tables, queue,
                       accepting, task, seen, run, published, sweeper, copies>>

\* Mutant: the UPDATE does not look at the status it moves from.
MarkFailedBlindly(w, events, next) ==
  LET c == task[w] IN
  /\ status' = [status EXCEPT ![c] = "failed"]
  /\ needsReconcile' = [needsReconcile EXCEPT ![c] = FALSE]
  /\ outbox' = outbox \cup events
  /\ Goto(w, next)
  /\ UNCHANGED <<time, attemptCount, startedAt, platformCommentId, ingested, relayed,
                 quotaHolder, authFailed, parentDeleted, replyCount, queue, accepting,
                 task, seen, run, published, sweeper, copies>>

\* The failure and its event in one transaction; the rest of the settlement follows it.
MarkFailed(w, events, next) ==
  LET c == task[w] IN
  \/ status[c] # "processing" /\ Skip(w)
  \/ /\ status[c] = "processing"
     /\ status' = [status EXCEPT ![c] = "failed"]
     /\ needsReconcile' = [needsReconcile EXCEPT ![c] = FALSE]
     /\ outbox' = outbox \cup events
     /\ Goto(w, next)
     /\ UNCHANGED <<time, attemptCount, startedAt, platformCommentId, ingested, relayed,
                    quotaHolder, authFailed, parentDeleted, replyCount, queue, accepting,
                    task, seen, run, published, sweeper, copies>>

SettleFailed(w) ==
  /\ pc[w] = "fail" \/ (pc[w] \in {"retryLimited", "retryUnknown"} /\ Exhausted(w))
  /\ MarkFailed(w, {Event("failed", task[w])}, "release")

SettleAuthFailed(w) ==
  /\ pc[w] = "failAuth"
  /\ MarkFailed(w, {Event("failed", task[w]), Event("auth_failed", Account)}, "releaseAuth")

ReleaseQuota(w) ==
  /\ pc[w] \in {"release", "releaseAuth"}
  /\ quotaHolder' = IF quotaHolder = task[w] THEN NoComment ELSE quotaHolder
  /\ Goto(w, IF pc[w] = "release" THEN "finish" ELSE "health")
  /\ UNCHANGED <<time, rows, ingested, outbox, relayed, authFailed, parentDeleted, replyCount,
                 queue, accepting, task, seen, run, published, sweeper, copies>>

MarkAuthFailed(w) ==
  /\ pc[w] = "health"
  /\ authFailed' = TRUE
  /\ Goto(w, "finish")
  /\ UNCHANGED <<time, rows, ingested, outbox, relayed, quotaHolder, parentDeleted, replyCount,
                 queue, accepting, task, seen, run, published, sweeper, copies>>

\* The row is settled; only now does the job move in Redis, under the outcome's kind.
ApplyOutcome(w) ==
  /\ pc[w] \in {"postpone", "finish"}
  /\ Return(w, IF pc[w] = "postpone" THEN "delayed" ELSE "done")
  /\ UNCHANGED <<time, rows, tables, accepting, sweeper, copies>>

-------------------------------------------------------------------------------
(* The stuck-work sweeper: select, recover what was processing, re-enqueue.  *)
(* Its two SELECTs are one step here: a row that moves between them is lost  *)
(* by the conditional recovery just as if it had not been selected.          *)

StuckQueued     == {c \in Comments : status[c] = "queued" /\ now - startedAt[c] > StuckQueuedAfter}
StuckProcessing ==
  {c \in Comments : status[c] = "processing" /\ now - startedAt[c] > StuckProcessingAfter}

SweepSelect ==
  /\ toRecover = {} /\ toEnqueue = {}
  /\ StuckQueued \cup StuckProcessing # {}
  /\ toRecover' = StuckProcessing
  /\ toEnqueue' = StuckQueued
  /\ UNCHANGED <<time, rows, tables, queue, accepting, worker, copies>>

\* Mutant: the recovery trusts the selection.
RecoverBlindly(c) ==
  /\ c \in toRecover
  /\ toRecover' = toRecover \ {c}
  /\ status' = [status EXCEPT ![c] = "queued"]
  /\ needsReconcile' = [needsReconcile EXCEPT ![c] = TRUE]
  /\ toEnqueue' = toEnqueue \cup {c}
  /\ UNCHANGED <<time, attemptCount, startedAt, platformCommentId, tables, queue, accepting,
                 worker, copies>>

RecoverStuckProcessingRow(c) ==
  /\ c \in toRecover
  /\ toRecover' = toRecover \ {c}
  /\ \/ /\ status[c] = "processing"
        /\ status' = [status EXCEPT ![c] = "queued"]
        /\ needsReconcile' = [needsReconcile EXCEPT ![c] = TRUE]
        /\ toEnqueue' = toEnqueue \cup {c}
     \/ /\ status[c] # "processing"
        /\ UNCHANGED <<status, needsReconcile, toEnqueue>>
  /\ UNCHANGED <<time, attemptCount, startedAt, platformCommentId, tables, queue, accepting,
                 worker, copies>>

InFlight(c) == job[c] \in {"waiting", "active", "delayed"}

\* Mutant: a plain Queue.add, which the kept terminal job swallows.
AddStuckJob(c) ==
  /\ toRecover = {} /\ c \in toEnqueue
  /\ toEnqueue' = toEnqueue \ {c}
  /\ job' = [job EXCEPT ![c] = IF @ = "none" THEN "waiting" ELSE @]
  /\ UNCHANGED <<time, rows, tables, lock, accepting, worker, toRecover, copies>>

\* A job in flight is left alone, one kept in a terminal state is removed and added anew.
ReenqueueStuckJob(c) ==
  /\ toRecover = {} /\ c \in toEnqueue
  /\ toEnqueue' = toEnqueue \ {c}
  /\ job' = IF InFlight(c) THEN job ELSE [job EXCEPT ![c] = "waiting"]
  /\ UNCHANGED <<time, rows, tables, lock, accepting, worker, toRecover, copies>>

SweeperCrash ==
  /\ toRecover \cup toEnqueue # {}
  /\ Fault("crash")
  /\ toRecover' = {} /\ toEnqueue' = {}
  /\ UNCHANGED <<rows, tables, queue, accepting, worker, copies>>

-------------------------------------------------------------------------------
(* What the rest of the service does to this state. *)

\* A webhook or a sync walk stores a copy nobody has a row for yet.
Ingest(k) ==
  /\ k \in copies /\ ~Taken(k)
  /\ ingested' = ingested \cup {k}
  /\ replyCount' = replyCount + 1
  /\ outbox' = outbox \cup {Event("received", k)}
  /\ UNCHANGED <<time, rows, relayed, quotaHolder, authFailed, parentDeleted, queue, accepting,
                 worker, sweeper, copies>>

\* The relay; only an unpublished comment.received is ever looked at again here.
Relay(e) ==
  /\ e \in outbox \ relayed /\ e.type = "received"
  /\ relayed' = relayed \cup {e}
  /\ UNCHANGED <<time, rows, ingested, outbox, quotaHolder, authFailed, parentDeleted,
                 replyCount, queue, accepting, worker, sweeper, copies>>

DeleteParent ==
  /\ ~parentDeleted
  /\ parentDeleted' = TRUE
  /\ UNCHANGED <<time, rows, ingested, outbox, relayed, quotaHolder, authFailed, replyCount,
                 queue, accepting, worker, sweeper, copies>>

\* A sync of the account succeeded.
ClearAuthFailed ==
  /\ authFailed
  /\ authFailed' = FALSE
  /\ UNCHANGED <<time, rows, ingested, outbox, relayed, quotaHolder, parentDeleted, replyCount,
                 queue, accepting, worker, sweeper, copies>>

Tick ==
  /\ now < MaxTime
  /\ now' = now + 1
  /\ UNCHANGED <<faults, rows, tables, queue, accepting, worker, sweeper, copies>>

-------------------------------------------------------------------------------
AttemptStep(w) ==
  \/ ReadTarget(w) \/ MarkProcessing(w) \/ CheckParent(w) \/ LoadContext(w)
  \/ SearchBeforeSending(w) \/ ClearReconcileGuard(w) \/ MarkSendAttempted(w)
  \/ Send(w) \/ SearchAfterSending(w)
  \/ SettlePosted(w) \/ ResolveWebhookEcho(w) \/ SettleRetry(w)
  \/ SettleFailed(w) \/ SettleAuthFailed(w) \/ ReleaseQuota(w) \/ MarkAuthFailed(w)
  \/ ApplyOutcome(w)

WorkerStep(w) ==
  \/ \E c \in Comments : TakeJob(w, c)
  \/ DelayJob(w)
  \/ AttemptStep(w)
  \/ SearchThrows(w) \/ ProcessorError(w) \/ Crash(w)

CommentStep(c) ==
  \/ Accept(c) \/ Enqueue(c) \/ EnqueueLost(c)
  \/ Promote(c) \/ Stalled(c)
  \/ RecoverStuckProcessingRow(c) \/ ReenqueueStuckJob(c)

OtherStep ==
  \/ SweepSelect \/ SweeperCrash \/ RedisLost
  \/ \E k \in copies : Ingest(k)
  \/ \E e \in outbox : Relay(e)
  \/ DeleteParent \/ ClearAuthFailed

Next ==
  \/ \E w \in Workers : WorkerStep(w)
  \/ \E c \in Comments : CommentStep(c)
  \/ OtherStep
  \/ Tick

Spec == Init /\ [][Next]_vars

-------------------------------------------------------------------------------
(* Progress.  Worker steps, BullMQ's own timers and the backoff ladder are    *)
(* short next to the sweeper's thresholds, so here the clock moves only when  *)
(* an unsettled reply is waiting for nothing but a threshold to pass.         *)

WaitingForSweeper ==
  /\ \A w \in Workers : pc[w] = "idle"
  /\ \A c \in Comments : ~InFlight(c)
  /\ accepting = {} /\ toRecover = {} /\ toEnqueue = {}
  /\ StuckQueued \cup StuckProcessing = {}
  /\ \E c \in Comments : status[c] \in {"queued", "processing"}

PromptNext ==
  \/ \E w \in Workers : WorkerStep(w)
  \/ \E c \in Comments : CommentStep(c)
  \/ OtherStep
  \/ WaitingForSweeper /\ Tick

Fairness ==
  /\ \A w \in Workers : WF_vars(AttemptStep(w)) /\ SF_vars(ReadTarget(w))
  /\ \A c \in Comments :
       /\ SF_vars(\E w \in Workers : TakeJob(w, c))
       /\ WF_vars(Enqueue(c)) /\ WF_vars(Promote(c)) /\ WF_vars(Stalled(c))
       /\ WF_vars(RecoverStuckProcessingRow(c)) /\ WF_vars(ReenqueueStuckJob(c))
  /\ WF_vars(SweepSelect)
  /\ WF_vars(WaitingForSweeper /\ Tick)

PromptSpec == Init /\ [][PromptNext]_vars

FairSpec == PromptSpec /\ Fairness

-------------------------------------------------------------------------------
(* Safety *)

Unsettled(c) == status[c] \in {"queued", "processing"}

\* Platform identities are never shared: two rows, ours or ingested, never name
\* the same platform comment (the unique index, and the echo that resolves it).
OneRowPerCopy ==
  \A c \in Comments : platformCommentId[c] # NoCopy =>
    /\ platformCommentId[c] \notin ingested
    /\ \A d \in Comments \ {c} : platformCommentId[d] # platformCommentId[c]

\* A reply reads `posted` exactly when it names a comment that is on the platform
\* and carries its text: no failed, retried or echoed attempt leaves an id behind.
PostedIsOnPlatform ==
  \A c \in Comments :
    /\ status[c] = "posted" <=> platformCommentId[c] # NoCopy
    /\ status[c] = "posted" => /\ platformCommentId[c] \in copies
                               /\ TextOf[platformCommentId[c].by] = TextOf[c]

\* D14 as far as the code keeps it: with jobs that never run twice at once, a second
\* copy of a reply is never sent within the reconciliation window of the first, nor
\* by the attempt that comes right after it.
CopiesSpaced ==
  \A k, m \in copies : k.by = m.by /\ k.attempt < m.attempt =>
    /\ k.at + ReconcileWindow < m.at
    /\ k.attempt + 1 < m.attempt

\* Every send leaves evidence: while a reply is unsettled, each of its copies is either
\* announced by the guard, or lies before the window of every later search.
SendLeavesEvidence ==
  \A k \in copies : Unsettled(k.by) =>
    needsReconcile[k.by] \/ k.at + ReconcileWindow < startedAt[k.by]

\* An outcome and its event commit together, once: comment.posted and comment.failed
\* name exactly the replies that reached that status.
OutcomeAnnounced ==
  \A c \in Comments :
    /\ Event("posted", c) \in outbox <=> status[c] \in {"posted", "gone"}
    /\ Event("failed", c) \in outbox <=> status[c] = "failed"

\* No comment.received is left to be relayed for a row that is gone (FR-025).
NoGhostAnnouncement ==
  \A e \in outbox \ relayed : e.type = "received" =>
    \/ e.agg \in ingested
    \/ e.agg \in Comments /\ status[e.agg] \notin {"absent", "gone"}

Lifecycle == INSTANCE CommentLifecycle WITH onPlatform <- {k.by : k \in copies}

\* The publish path implements the lifecycle of domain/status.ts.
ImplementsLifecycle == Lifecycle!Spec

-------------------------------------------------------------------------------
(* Liveness *)

\* "An accepted reply is never silently abandoned": whatever crash, lost enqueue or
\* escaped error interrupts it, every accepted reply ends as posted or failed.
EveryReplySettles ==
  \A c \in Comments : status[c] = "queued" ~> status[c] \in {"posted", "failed"}
===============================================================================
