--------------------------- MODULE PublishComment_proofs --------------------------
(***************************************************************************)
(* What holds of the publish path for every number of replies, workers,    *)
(* faults and minutes.                                                     *)
(***************************************************************************)
EXTENDS PublishComment, TLAPS

(***************************************************************************)
(* Types.                                                                  *)
(***************************************************************************)

LEMMA EmptyRecords == Blank \in Snapshot /\ NoRun \in Attempt
  BY DEF Blank, Snapshot, NoRun, Attempt

LEMMA ReturnType ==
  ASSUME QueueType, WorkerType, NEW w \in Workers, NEW state \in JobStates, Return(w, state)
  PROVE  QueueType' /\ WorkerType'
<1>1. QueueType'
  BY DEF QueueType, Return, LeaveJob
<1>2. WorkerType'
  BY EmptyRecords DEF WorkerType, Steps, Return, Forget, Goto
<1> QED BY <1>1, <1>2

LEMMA GotoType ==
  ASSUME WorkerType, NEW w \in Workers, NEW step \in Steps, pc[w] # "idle", Goto(w, step),
         UNCHANGED <<task, seen, run, published>>
  PROVE  WorkerType'
  BY DEF WorkerType, Goto

LEMMA TypeInit == Init => TypeOK
<1> SUFFICES ASSUME Init PROVE TypeOK
  OBVIOUS
<1>1. TimeType BY DEF Init, TimeType
<1>2. RowsType BY DEF Init, RowsType, Statuses
<1>3. TablesType BY DEF Init, TablesType
<1>4. QueueType BY DEF Init, QueueType, JobStates
<1>5. WorkerType BY EmptyRecords DEF Init, WorkerType, Steps
<1> QED BY <1>1, <1>2, <1>3, <1>4, <1>5 DEF Init, TypeOK

\* The helpers the attempt's steps are built from keep the types.
LEMMA SkipType ==
  ASSUME TypeOK, NEW w \in Workers, Skip(w)
  PROVE  TypeOK'
<1>1. QueueType' /\ WorkerType'
  BY ReturnType DEF TypeOK, Skip, JobStates
<1> QED
  BY <1>1 DEF TypeOK, Skip, TimeType, RowsType, TablesType, time, rows, tables, sweeper

LEMMA OnlyGotoType ==
  ASSUME TypeOK, NEW w \in Workers, NEW step \in Steps, pc[w] # "idle", OnlyGoto(w, step)
  PROVE  TypeOK'
<1>1. WorkerType'
  BY GotoType DEF TypeOK, OnlyGoto
<1> QED
  BY <1>1 DEF TypeOK, OnlyGoto, TimeType, RowsType, TablesType, QueueType, time, rows, tables,
              queue, sweeper

LEMMA ThrowType ==
  ASSUME TypeOK, NEW w \in Workers, Throw(w)
  PROVE  QueueType' /\ WorkerType'
  BY ReturnType DEF TypeOK, Throw, JobStates

LEMMA SearchType ==
  ASSUME TypeOK, NEW w \in Workers, NEW anchor, NEW none \in Steps, pc[w] # "idle",
         Search(w, anchor, none)
  PROVE  TypeOK'
<1>1. CASE Matches(task[w], anchor) = {} /\ OnlyGoto(w, none)
  BY <1>1, OnlyGotoType
<1>2. ASSUME NEW k \in Matches(task[w], anchor),
             published' = [published EXCEPT ![w] = k],
             Goto(w, "settlePosted"),
             UNCHANGED <<time, rows, tables, queue, accepting, task, seen, run, sweeper, copies>>
      PROVE  TypeOK'
  <2>1. k \in Copy
    BY <1>2 DEF Matches, TypeOK
  <2>2. WorkerType'
    BY <1>2, <2>1 DEF TypeOK, WorkerType, Goto, Steps
  <2> QED
    BY <1>2, <2>2 DEF TypeOK, TimeType, RowsType, TablesType, QueueType, time, rows, tables,
                      queue, sweeper
<1> QED
  BY <1>1, <1>2 DEF Search

LEMMA SetReconcileGuardType ==
  ASSUME TypeOK, NEW w \in Workers, NEW guard \in BOOLEAN, NEW step \in Steps, pc[w] # "idle",
         SetReconcileGuard(w, guard, step)
  PROVE  TypeOK'
<1>1. CASE Skip(w)
  BY <1>1, SkipType
<1>2. CASE /\ needsReconcile' = [needsReconcile EXCEPT ![task[w]] = guard]
           /\ Goto(w, step)
           /\ UNCHANGED <<time, status, attemptCount, startedAt, platformCommentId, tables,
                          queue, accepting, task, seen, run, published, sweeper, copies>>
  <2>1. WorkerType'
    BY <1>2, GotoType DEF TypeOK
  <2>2. RowsType'
    BY <1>2 DEF TypeOK, RowsType
  <2> QED
    BY <1>2, <2>1, <2>2 DEF TypeOK, TimeType, TablesType, QueueType, time, tables, queue, sweeper
<1> QED
  BY <1>1, <1>2 DEF SetReconcileGuard

LEMMA MarkFailedType ==
  ASSUME TypeOK, NEW w \in Workers, NEW events \in SUBSET Events, NEW next \in Steps,
         pc[w] # "idle", MarkFailed(w, events, next)
  PROVE  TypeOK'
<1>1. CASE Skip(w)
  BY <1>1, SkipType
<1>2. CASE /\ status' = [status EXCEPT ![task[w]] = "failed"]
           /\ needsReconcile' = [needsReconcile EXCEPT ![task[w]] = FALSE]
           /\ outbox' = outbox \cup events
           /\ Goto(w, next)
           /\ UNCHANGED <<time, attemptCount, startedAt, platformCommentId, ingested, relayed,
                          quotaHolder, authFailed, parentDeleted, replyCount, queue, accepting,
                          task, seen, run, published, sweeper, copies>>
  <2>1. WorkerType'
    BY <1>2, GotoType DEF TypeOK
  <2>2. RowsType' /\ TablesType'
    BY <1>2 DEF TypeOK, RowsType, TablesType, Statuses
  <2> QED
    BY <1>2, <2>1, <2>2 DEF TypeOK, TimeType, QueueType, time, queue, sweeper
<1> QED
  BY <1>1, <1>2 DEF MarkFailed

LEMMA EventTypes ==
  ASSUME NEW c \in Comments
  PROVE  /\ {Event("received", c), Event("posted", c), Event("failed", c)} \subseteq Events
         /\ Event("auth_failed", Account) \in Events
  BY DEF Event, Events

LEMMA SettlePostedType ==
  ASSUME TypeOK, NEW w \in Workers, SettlePosted(w)
  PROVE  TypeOK'
<1>1. pc[w] # "idle" /\ task[w] \in Comments /\ published[w] \in Copy \cup {NoCopy}
  BY DEF SettlePosted, TypeOK, WorkerType
<1>2. CASE Skip(w)
  BY <1>2, SkipType
<1>3. CASE OnlyGoto(w, "echo")
  BY <1>1, <1>3, OnlyGotoType DEF Steps
<1>4. CASE /\ MarkPosted(task[w], published[w])
           /\ Goto(w, "finish")
           /\ UNCHANGED <<time, ingested, relayed, quotaHolder, authFailed, parentDeleted,
                          replyCount, queue, accepting, task, seen, run, published, sweeper,
                          copies>>
  <2>1. WorkerType'
    BY <1>1, <1>4, GotoType DEF TypeOK, Steps
  <2>2. RowsType'
    BY <1>1, <1>4 DEF TypeOK, RowsType, Statuses, MarkPosted
  <2>3. TablesType'
    BY <1>1, <1>4, EventTypes DEF TypeOK, TablesType, MarkPosted
  <2> QED
    BY <1>4, <2>1, <2>2, <2>3 DEF TypeOK, TimeType, QueueType, time, queue, sweeper
<1> QED
  BY <1>2, <1>3, <1>4 DEF SettlePosted

LEMMA ResolveWebhookEchoType ==
  ASSUME TypeOK, NEW w \in Workers, ResolveWebhookEcho(w)
  PROVE  TypeOK'
<1> DEFINE c == task[w]
           k == published[w]
<1>1. pc[w] # "idle" /\ c \in Comments /\ k \in Copy \cup {NoCopy}
  BY DEF ResolveWebhookEcho, TypeOK, WorkerType
<1>2. CASE Throw(w) /\ UNCHANGED <<time, rows, tables, accepting, sweeper, copies>>
  BY <1>2, ThrowType DEF TypeOK, TimeType, RowsType, TablesType, time, rows, tables, sweeper
<1>3. CASE ~ (Throw(w) /\ UNCHANGED <<time, rows, tables, accepting, sweeper, copies>>)
  <2>1. WorkerType'
    BY <1>1, <1>3, GotoType DEF ResolveWebhookEcho, TypeOK, Steps
  <2>2. RowsType'
    <3>1. /\ status' = [d \in Comments |-> IF d = c THEN "posted"
                                          ELSE IF d \in Echoed(w) THEN "gone" ELSE status[d]]
          /\ platformCommentId' = [d \in Comments |-> IF d = c THEN k
                                                      ELSE IF d \in Echoed(w) THEN NoCopy
                                                      ELSE platformCommentId[d]]
          /\ needsReconcile' = [needsReconcile EXCEPT ![c] = FALSE]
          /\ UNCHANGED <<attemptCount, startedAt>>
      BY <1>3 DEF ResolveWebhookEcho
    <3>2. status' \in [Comments -> Statuses]
      BY <3>1 DEF TypeOK, RowsType, Statuses
    <3>3. platformCommentId' \in [Comments -> Copy \cup {NoCopy}]
      BY <1>1, <3>1 DEF TypeOK, RowsType
    <3>4. needsReconcile' \in [Comments -> BOOLEAN]
      BY <3>1 DEF TypeOK, RowsType
    <3> QED BY <3>1, <3>2, <3>3, <3>4 DEF TypeOK, RowsType
  <2>3. TablesType'
    BY <1>1, <1>3, EventTypes DEF ResolveWebhookEcho, TypeOK, TablesType
  <2> QED
    BY <1>3, <2>1, <2>2, <2>3 DEF ResolveWebhookEcho, TypeOK, TimeType, QueueType, time, queue,
                                  sweeper
<1> QED
  BY <1>2, <1>3

LEMMA SendType ==
  ASSUME TypeOK, NEW w \in Workers, Send(w)
  PROVE  TypeOK'
<1>1. /\ pc[w] # "idle" /\ SentCopy(w) \in Copy
      /\ {"settlePosted", "searchAfter", "retryLimited", "fail", "failAuth"} \subseteq Steps
  BY DEF Send, TypeOK, WorkerType, TimeType, SentCopy, Copy, Attempt, Steps
<1>2. CASE \E step \in {"searchAfter", "retryLimited", "fail", "failAuth"} : OnlyGoto(w, step)
  BY <1>1, <1>2, OnlyGotoType
<1>3. CASE /\ copies' = copies \cup {SentCopy(w)}
           /\ \/ /\ Goto(w, "settlePosted")
                 /\ published' = [published EXCEPT ![w] = SentCopy(w)]
              \/ Goto(w, "searchAfter") /\ UNCHANGED published
           /\ UNCHANGED <<time, rows, tables, queue, accepting, task, seen, run, sweeper>>
  <2>1. WorkerType'
    BY <1>1, <1>3 DEF TypeOK, WorkerType, Goto
  <2> QED
    BY <1>1, <1>3, <2>1 DEF TypeOK, TimeType, RowsType, TablesType, QueueType, time, rows, tables,
                            queue, sweeper
<1> QED
  BY <1>2, <1>3 DEF Send

\* Every step of a slot, of a reply and of the rest of the service keeps the types.
LEMMA AttemptStepType ==
  ASSUME TypeOK, NEW w \in Workers, AttemptStep(w)
  PROVE  TypeOK'
<1>1. pc[w] \in Steps /\ (pc[w] # "idle" => task[w] \in Comments)
  BY DEF TypeOK, WorkerType
<1>2. CASE ReadTarget(w)
  <2>1. WorkerType' /\ QueueType'
    <3>1. CASE Return(w, "done")
      BY <3>1, ReturnType DEF TypeOK, JobStates
    <3>2. CASE ~Return(w, "done")
      <4>1. [attemptCount   |-> attemptCount[task[w]],
             needsReconcile |-> needsReconcile[task[w]],
             startedAt      |-> startedAt[task[w]]] \in Snapshot
        BY <1>1, <1>2 DEF ReadTarget, TypeOK, RowsType, Snapshot
      <4> QED
        BY <1>1, <1>2, <3>2, <4>1 DEF ReadTarget, Goto, TypeOK, WorkerType, QueueType, Steps, queue
    <3> QED BY <3>1, <3>2
  <2> QED
    BY <1>2, <2>1 DEF ReadTarget, TypeOK, TimeType, RowsType, TablesType, time, rows, tables, sweeper
<1>3. CASE MarkProcessing(w)
  <2>1. CASE Skip(w)
    BY <2>1, SkipType
  <2>2. CASE ~Skip(w)
    <3>1. [ordinal |-> attemptCount[task[w]] + 1, startedAt |-> now] \in Attempt
      BY <1>1, <1>3 DEF MarkProcessing, TypeOK, TimeType, RowsType, Attempt
    <3>2. WorkerType'
      BY <1>3, <2>2, <3>1 DEF MarkProcessing, Goto, TypeOK, WorkerType, Steps
    <3>3. RowsType'
      BY <1>1, <1>3, <2>2 DEF MarkProcessing, TypeOK, TimeType, RowsType, Statuses
    <3> QED
      BY <1>3, <2>2, <3>2, <3>3 DEF MarkProcessing, TypeOK, TimeType, TablesType, QueueType, time,
                                    tables, queue, sweeper
  <2> QED BY <2>1, <2>2
<1>4. CASE CheckParent(w) \/ LoadContext(w)
  BY <1>4, OnlyGotoType DEF CheckParent, LoadContext, Steps
<1>5. CASE SearchBeforeSending(w) \/ SearchAfterSending(w)
  BY <1>5, OnlyGotoType, SearchType DEF SearchBeforeSending, SearchAfterSending, Steps
<1>6. CASE ClearReconcileGuard(w) \/ MarkSendAttempted(w)
  BY <1>6, SetReconcileGuardType DEF ClearReconcileGuard, MarkSendAttempted, Steps
<1>7. CASE Send(w)
  BY <1>7, SendType
<1>8. CASE SettlePosted(w)
  BY <1>8, SettlePostedType
<1>9. CASE ResolveWebhookEcho(w)
  BY <1>9, ResolveWebhookEchoType
<1>10. CASE SettleRetry(w)
  <2>1. CASE Skip(w)
    BY <2>1, SkipType
  <2>2. CASE ~Skip(w)
    <3>1. WorkerType'
      BY <1>10, <2>2, GotoType DEF SettleRetry, TypeOK, Steps
    <3>2. RowsType'
      BY <1>1, <1>10, <2>2 DEF SettleRetry, TypeOK, RowsType, Statuses
    <3> QED
      BY <1>10, <2>2, <3>1, <3>2 DEF SettleRetry, TypeOK, TimeType, TablesType, QueueType, time,
                                     tables, queue, sweeper
  <2> QED BY <2>1, <2>2
<1>11. CASE SettleFailed(w) \/ SettleAuthFailed(w)
  <2>1. pc[w] # "idle" /\ {"release", "releaseAuth"} \subseteq Steps
    BY <1>11 DEF SettleFailed, SettleAuthFailed, Steps
  <2>2. {Event("failed", task[w]), Event("auth_failed", Account)} \subseteq Events
    BY <1>1, <2>1, EventTypes
  <2>3. /\ {Event("failed", task[w])} \in SUBSET Events
        /\ {Event("failed", task[w]), Event("auth_failed", Account)} \in SUBSET Events
    BY <2>2
  <2>4. CASE SettleFailed(w)
    BY <2>1, <2>3, <2>4, MarkFailedType DEF SettleFailed
  <2>5. CASE SettleAuthFailed(w)
    BY <2>1, <2>3, <2>5, MarkFailedType DEF SettleAuthFailed
  <2> QED
    BY <1>11, <2>4, <2>5
<1>12. CASE ReleaseQuota(w) \/ MarkAuthFailed(w)
  <2>1. WorkerType'
    BY <1>12, GotoType DEF ReleaseQuota, MarkAuthFailed, TypeOK, Steps
  <2> QED
    BY <1>12, <2>1 DEF ReleaseQuota, MarkAuthFailed, TypeOK, TimeType, RowsType, TablesType,
                       QueueType, time, rows, queue, sweeper
<1>13. CASE ApplyOutcome(w)
  <2>1. QueueType' /\ WorkerType'
    BY <1>13, ReturnType DEF ApplyOutcome, TypeOK, JobStates
  <2> QED
    BY <1>13, <2>1 DEF ApplyOutcome, TypeOK, TimeType, RowsType, TablesType, time, rows, tables,
                       sweeper
<1> QED
  BY <1>2, <1>3, <1>4, <1>5, <1>6, <1>7, <1>8, <1>9, <1>10, <1>11, <1>12, <1>13 DEF AttemptStep

LEMMA WorkerStepType ==
  ASSUME TypeOK, NEW w \in Workers, WorkerStep(w)
  PROVE  TypeOK'
<1>1. ASSUME NEW c \in Comments, TakeJob(w, c) PROVE TypeOK'
  <2>1. WorkerType'
    BY <1>1 DEF TakeJob, Goto, TypeOK, WorkerType, Steps
  <2> QED
    BY <1>1, <2>1 DEF TakeJob, TypeOK, TimeType, RowsType, TablesType, QueueType, JobStates, time,
                      rows, tables, sweeper
<1>2. CASE DelayJob(w) \/ SearchThrows(w) \/ ProcessorError(w)
  <2>1. QueueType' /\ WorkerType'
    BY <1>2, ReturnType, ThrowType DEF DelayJob, SearchThrows, ProcessorError, TypeOK, JobStates
  <2> QED
    BY <1>2, <2>1 DEF DelayJob, SearchThrows, ProcessorError, Fault, TypeOK, TimeType, RowsType,
                      TablesType, time, rows, tables, sweeper
<1>3. CASE AttemptStep(w)
  BY <1>3, AttemptStepType
<1>4. CASE Crash(w)
  <2>1. WorkerType'
    BY <1>4, EmptyRecords DEF Crash, Forget, Goto, TypeOK, WorkerType, Steps
  <2> QED
    BY <1>4, <2>1 DEF Crash, Fault, TypeOK, TimeType, RowsType, TablesType, QueueType, rows, tables,
                      queue, sweeper
<1> QED
  BY <1>1, <1>2, <1>3, <1>4 DEF WorkerStep

LEMMA CommentStepType ==
  ASSUME TypeOK, NEW c \in Comments, CommentStep(c)
  PROVE  TypeOK'
<1> USE DEF TypeOK, TimeType, RowsType, TablesType, QueueType, time, rows, tables, queue, sweeper
<1>1. CASE Accept(c)
  <2>1. WorkerType' BY <1>1 DEF Accept, WorkerType, worker
  <2>2. RowsType' /\ TablesType'
    BY <1>1, EventTypes DEF Accept, Statuses
  <2> QED BY <1>1, <2>1, <2>2 DEF Accept
<1>2. CASE Enqueue(c) \/ EnqueueLost(c)
  BY <1>2 DEF Enqueue, EnqueueLost, Fault, WorkerType, worker, JobStates
<1>3. CASE Promote(c) \/ Stalled(c)
  BY <1>3 DEF Promote, Stalled, Fault, WorkerType, worker, JobStates
<1>4. CASE RecoverStuckProcessingRow(c) \/ ReenqueueStuckJob(c)
  BY <1>4 DEF RecoverStuckProcessingRow, ReenqueueStuckJob, WorkerType, worker, JobStates, Statuses
<1> QED
  BY <1>1, <1>2, <1>3, <1>4 DEF CommentStep

LEMMA OtherStepType ==
  ASSUME TypeOK, OtherStep
  PROVE  TypeOK'
<1> USE DEF TypeOK, TimeType, RowsType, TablesType, QueueType, WorkerType, time, rows, tables,
            queue, worker, sweeper
<1>1. CASE SweepSelect \/ SweeperCrash
  BY <1>1 DEF SweepSelect, SweeperCrash, Fault, StuckQueued, StuckProcessing
<1>2. CASE RedisLost
  BY <1>2 DEF RedisLost, Fault, JobStates
<1>3. ASSUME NEW k \in copies, Ingest(k) PROVE TypeOK'
  <2>1. Event("received", k) \in Events
    BY DEF Event, Events
  <2> QED
    BY <1>3, <2>1 DEF Ingest
<1>4. ASSUME NEW e \in outbox, Relay(e) PROVE TypeOK'
  BY <1>4 DEF Relay
<1>5. CASE DeleteParent \/ ClearAuthFailed
  BY <1>5 DEF DeleteParent, ClearAuthFailed
<1> QED
  BY <1>1, <1>2, <1>3, <1>4, <1>5 DEF OtherStep

LEMMA TickType ==
  ASSUME TypeOK, Tick
  PROVE  TypeOK'
  BY DEF Tick, TypeOK, TimeType, RowsType, TablesType, QueueType, WorkerType, rows, tables, queue,
         worker, sweeper

LEMMA TypeNext == TypeOK /\ [Next]_vars => TypeOK'
<1> SUFFICES ASSUME TypeOK, [Next]_vars PROVE TypeOK'
  OBVIOUS
<1>1. CASE UNCHANGED vars
  BY <1>1 DEF vars, TypeOK, TimeType, RowsType, TablesType, QueueType, WorkerType, time, rows,
              tables, queue, worker, sweeper
<1>2. CASE Next
  BY <1>2, WorkerStepType, CommentStepType, OtherStepType, TickType DEF Next
<1> QED
  BY <1>1, <1>2

\* The type invariant, for every number of replies, slots, faults and minutes.
THEOREM TypeCorrect == Spec => []TypeOK
  BY TypeInit, TypeNext, PTL DEF Spec

(***************************************************************************)
(* Platform identities and events.                                         *)
(***************************************************************************)

Settling == {"settlePosted", "echo"}

\* A slot about to settle a reply as posted holds a copy on the platform with its text.
PublishedIsOnPlatform ==
  \A w \in Workers : pc[w] \in Settling =>
    /\ published[w] \in copies
    /\ TextOf[published[w].by] = TextOf[task[w]]

IdentityInv ==
  /\ TypeOK
  /\ OneRowPerCopy
  /\ PostedIsOnPlatform
  /\ PublishedIsOnPlatform
  /\ OutcomeAnnounced
  /\ NoGhostAnnouncement

\* A step that brings no slot to the settlement of a reply.
NoNewSettling ==
  \A v \in Workers : pc'[v] \in Settling =>
    pc[v] \in Settling /\ published'[v] = published[v] /\ task'[v] = task[v]

\* A step that leaves alone what the identities are made of.
Quiet ==
  /\ UNCHANGED <<status, platformCommentId, ingested, outbox, relayed, copies>>
  /\ NoNewSettling

LEMMA QuietKeepsIdentity ==
  ASSUME IdentityInv, TypeOK', Quiet
  PROVE  IdentityInv'
  BY DEF IdentityInv, Quiet, NoNewSettling, OneRowPerCopy, PostedIsOnPlatform,
         PublishedIsOnPlatform, OutcomeAnnounced, NoGhostAnnouncement

LEMMA SkipIsQuiet ==
  ASSUME TypeOK, NEW w \in Workers, Skip(w)
  PROVE  Quiet
  BY DEF Skip, Return, Forget, Goto, TypeOK, WorkerType, Quiet, NoNewSettling, Settling, rows, tables

LEMMA ThrowIsQuiet ==
  ASSUME TypeOK, NEW w \in Workers, Throw(w), UNCHANGED <<rows, tables, copies>>
  PROVE  Quiet
  BY DEF Throw, Return, Forget, Goto, TypeOK, WorkerType, Quiet, NoNewSettling, Settling, rows, tables

LEMMA OnlyGotoIsQuiet ==
  ASSUME TypeOK, NEW w \in Workers, NEW step, OnlyGoto(w, step), 
         step \in Settling => pc[w] \in Settling
  PROVE  Quiet
  BY DEF OnlyGoto, Goto, TypeOK, WorkerType, Quiet, NoNewSettling, rows, tables

\* A step that writes comment.failed for c if c moves to `failed`, and otherwise at most
\* c's comment.received and events of other types.
AnnouncesOnly(c, to) ==
  /\ \A d \in Comments :
       /\ Event("posted", d) \in outbox' <=> Event("posted", d) \in outbox
       /\ Event("failed", d) \in outbox' <=>
            Event("failed", d) \in outbox \/ (d = c /\ to = "failed")
  /\ \A e \in outbox' \ outbox : e.type = "received" => e.agg = c

\* Moving the row of one reply by a conditional UPDATE, with its event.
LEMMA SettleKeepsIdentity ==
  ASSUME IdentityInv, TypeOK', NEW c \in Comments, NEW to \in {"queued", "processing", "failed"},
         \/ status[c] = "absent" /\ to = "queued"
         \/ status[c] \in {"queued", "processing"},
         status' = [status EXCEPT ![c] = to],
         AnnouncesOnly(c, to),
         UNCHANGED <<platformCommentId, ingested, relayed, copies>>, NoNewSettling
  PROVE  IdentityInv'
<1> USE DEF IdentityInv, TypeOK, RowsType
<1>1. OneRowPerCopy' BY DEF OneRowPerCopy
<1>2. PostedIsOnPlatform' BY DEF PostedIsOnPlatform
<1>3. PublishedIsOnPlatform' BY DEF PublishedIsOnPlatform, NoNewSettling
<1>4. OutcomeAnnounced' BY DEF OutcomeAnnounced, AnnouncesOnly
<1>5. NoGhostAnnouncement' BY DEF NoGhostAnnouncement, AnnouncesOnly
<1> QED BY <1>1, <1>2, <1>3, <1>4, <1>5

LEMMA MarkFailedKeepsIdentity ==
  ASSUME IdentityInv, TypeOK', NEW w \in Workers, pc[w] # "idle",
         NEW others \in SUBSET {Event("auth_failed", Account)},
         NEW next \in Steps \ Settling,
         MarkFailed(w, others \cup {Event("failed", task[w])}, next)
  PROVE  IdentityInv'
<1>1. CASE Skip(w)
  BY <1>1, SkipIsQuiet, QuietKeepsIdentity DEF IdentityInv
<1>2. CASE ~Skip(w)
  <2>1. task[w] \in Comments /\ status[task[w]] = "processing"
    BY <1>2 DEF MarkFailed, IdentityInv, TypeOK, WorkerType
  <2>2. NoNewSettling
    BY <1>2 DEF MarkFailed, Goto, NoNewSettling, IdentityInv, TypeOK, WorkerType
  <2>3. AnnouncesOnly(task[w], "failed")
    BY <1>2 DEF MarkFailed, AnnouncesOnly, Event
  <2>4. status' = [status EXCEPT ![task[w]] = "failed"]
        /\ UNCHANGED <<platformCommentId, ingested, relayed, copies>>
    BY <1>2 DEF MarkFailed
  <2> QED
    BY <2>1, <2>2, <2>3, <2>4, SettleKeepsIdentity
<1> QED BY <1>1, <1>2

LEMMA SearchKeepsIdentity ==
  ASSUME IdentityInv, TypeOK', NEW w \in Workers, NEW anchor, NEW none \in Steps \ Settling,
         pc[w] # "idle", Search(w, anchor, none)
  PROVE  IdentityInv'
<1>1. CASE OnlyGoto(w, none)
  BY <1>1, OnlyGotoIsQuiet, QuietKeepsIdentity DEF IdentityInv
<1>2. ASSUME NEW k \in Matches(task[w], anchor),
             published' = [published EXCEPT ![w] = k],
             Goto(w, "settlePosted"),
             UNCHANGED <<time, rows, tables, queue, accepting, task, seen, run, sweeper, copies>>
      PROVE  IdentityInv'
  <2>1. k \in copies /\ TextOf[k.by] = TextOf[task[w]]
    BY DEF Matches
  <2>2. PublishedIsOnPlatform'
    BY <1>2, <2>1 DEF IdentityInv, TypeOK, WorkerType, PublishedIsOnPlatform, Goto
  <2> QED
    BY <1>2, <2>2 DEF IdentityInv, rows, tables, OneRowPerCopy, PostedIsOnPlatform,
                      OutcomeAnnounced, NoGhostAnnouncement
<1> QED
  BY <1>1, <1>2 DEF Search

LEMMA SendKeepsIdentity ==
  ASSUME IdentityInv, TypeOK', NEW w \in Workers, Send(w)
  PROVE  IdentityInv'
<1>1. CASE \E step \in {"searchAfter", "retryLimited", "fail", "failAuth"} : OnlyGoto(w, step)
  BY <1>1, OnlyGotoIsQuiet, QuietKeepsIdentity DEF IdentityInv, Settling
<1>2. CASE /\ copies' = copies \cup {SentCopy(w)}
           /\ \/ /\ Goto(w, "settlePosted")
                 /\ published' = [published EXCEPT ![w] = SentCopy(w)]
              \/ Goto(w, "searchAfter") /\ UNCHANGED published
           /\ UNCHANGED <<time, rows, tables, queue, accepting, task, seen, run, sweeper>>
  <2>1. SentCopy(w).by = task[w]
    BY DEF SentCopy
  <2>2. PublishedIsOnPlatform'
    BY <1>2, <2>1 DEF IdentityInv, TypeOK, WorkerType, PublishedIsOnPlatform, Goto, Settling
  <2> QED
    BY <1>2, <2>2 DEF IdentityInv, rows, tables, OneRowPerCopy, PostedIsOnPlatform,
                      OutcomeAnnounced, NoGhostAnnouncement
<1> QED
  BY <1>1, <1>2 DEF Send

LEMMA SettlePostedKeepsIdentity ==
  ASSUME IdentityInv, TypeOK', NEW w \in Workers, SettlePosted(w)
  PROVE  IdentityInv'
<1> DEFINE c == task[w]
           k == published[w]
<1>1. c \in Comments /\ k \in copies /\ k # NoCopy /\ TextOf[k.by] = TextOf[c]
  BY CopyAssumption DEF SettlePosted, IdentityInv, TypeOK, WorkerType, PublishedIsOnPlatform, Settling
<1>2. CASE Skip(w)
  BY <1>2, SkipIsQuiet, QuietKeepsIdentity DEF IdentityInv
<1>3. CASE OnlyGoto(w, "echo")
  BY <1>3, OnlyGotoIsQuiet, QuietKeepsIdentity DEF IdentityInv, SettlePosted, Settling
<1>4. CASE ~Skip(w) /\ ~OnlyGoto(w, "echo")
  <2>1. /\ status[c] = "processing" /\ ~Taken(k)
        /\ status' = [status EXCEPT ![c] = "posted"]
        /\ platformCommentId' = [platformCommentId EXCEPT ![c] = k]
        /\ outbox' = outbox \cup {Event("posted", c)}
        /\ UNCHANGED <<ingested, relayed, copies, published, task>>
        /\ Goto(w, "finish")
    BY <1>4 DEF SettlePosted, MarkPosted
  <2> HIDE DEF c, k
  <2> USE DEF IdentityInv, TypeOK, RowsType
  <2>2. OneRowPerCopy' BY <1>1, <2>1 DEF OneRowPerCopy, Taken
  <2>3. PostedIsOnPlatform' BY <1>1, <2>1 DEF PostedIsOnPlatform
  <2>4. PublishedIsOnPlatform' BY <2>1 DEF PublishedIsOnPlatform, Goto, WorkerType, Settling
  <2>5. OutcomeAnnounced' BY <1>1, <2>1 DEF OutcomeAnnounced, Event
  <2>6. NoGhostAnnouncement' BY <1>1, <2>1 DEF NoGhostAnnouncement, Event
  <2> QED BY <2>2, <2>3, <2>4, <2>5, <2>6
<1> QED BY <1>2, <1>3, <1>4

LEMMA ResolveWebhookEchoKeepsIdentity ==
  ASSUME IdentityInv, TypeOK', NEW w \in Workers, ResolveWebhookEcho(w)
  PROVE  IdentityInv'
<1> DEFINE c == task[w]
           k == published[w]
           gone == Echoed(w)
           events == EchoedEvents(w)
<1>1. c \in Comments /\ k \in copies /\ k # NoCopy /\ TextOf[k.by] = TextOf[c]
  BY CopyAssumption DEF ResolveWebhookEcho, IdentityInv, TypeOK, WorkerType, PublishedIsOnPlatform,
                        Settling
<1>2. CASE Throw(w) /\ UNCHANGED <<time, rows, tables, accepting, sweeper, copies>>
  BY <1>2, ThrowIsQuiet, QuietKeepsIdentity DEF IdentityInv
<1>3. CASE ~(Throw(w) /\ UNCHANGED <<time, rows, tables, accepting, sweeper, copies>>)
  <2>1. /\ status[c] = "processing"
        /\ status' = [d \in Comments |-> IF d = c THEN "posted"
                                         ELSE IF d \in gone THEN "gone" ELSE status[d]]
        /\ platformCommentId' = [d \in Comments |-> IF d = c THEN k
                                         ELSE IF d \in gone THEN NoCopy
                                         ELSE platformCommentId[d]]
        /\ ingested' = ingested \ {k}
        /\ outbox' = (outbox \ events) \cup {Event("posted", c)}
        /\ UNCHANGED <<relayed, copies, published, task>>
        /\ Goto(w, "finish")
    BY <1>3 DEF ResolveWebhookEcho
  <2>2. gone = {d \in Comments : platformCommentId[d] = k}
    BY DEF Echoed
  <2>3. /\ \A e \in events : \E a : e = Event("received", a)
        /\ \A a \in gone \cup ({k} \cap ingested) :
             Event("received", a) \in events \cup relayed
    BY DEF EchoedEvents
  <2>4. c \notin gone /\ \A d \in gone : status[d] = "posted"
    BY <1>1, <2>1, <2>2 DEF IdentityInv, PostedIsOnPlatform
  <2> HIDE DEF c, k, gone, events
  <2> USE DEF IdentityInv, TypeOK, RowsType
  <2>5. OneRowPerCopy' BY <1>1, <2>1, <2>2 DEF OneRowPerCopy
  <2>6. PostedIsOnPlatform' BY <1>1, <2>1, <2>2, <2>4 DEF PostedIsOnPlatform
  <2>7. PublishedIsOnPlatform' BY <2>1 DEF PublishedIsOnPlatform, Goto, WorkerType, Settling
  <2>8. OutcomeAnnounced'
    <3>1. \A a : Event("posted", a) \notin events /\ Event("failed", a) \notin events
      BY <2>3 DEF Event
    <3>2. ASSUME NEW d \in Comments
          PROVE  /\ (Event("posted", d) \in outbox' <=> d = c \/ Event("posted", d) \in outbox)
                 /\ (Event("failed", d) \in outbox' <=> Event("failed", d) \in outbox)
      BY <2>1, <3>1 DEF Event
    <3> QED BY <1>1, <2>1, <2>4, <3>2 DEF OutcomeAnnounced
  <2>9. NoGhostAnnouncement'
    <3> SUFFICES ASSUME NEW e \in outbox' \ relayed', e.type = "received"
                 PROVE  \/ e.agg \in ingested'
                        \/ e.agg \in Comments /\ status'[e.agg] \notin {"absent", "gone"}
      BY DEF NoGhostAnnouncement
    <3>1. e \in outbox \ relayed /\ e \notin events
      BY <2>1 DEF Event
    <3>2. e = Event("received", e.agg)
      BY <3>1 DEF TablesType, Events, Event
    <3>3. e.agg \notin gone \cup ({k} \cap ingested)
      BY <2>3, <3>1, <3>2
    <3>4. \/ e.agg \in ingested
          \/ e.agg \in Comments /\ status[e.agg] \notin {"absent", "gone"}
      BY <3>1 DEF NoGhostAnnouncement
    <3> QED BY <2>1, <3>3, <3>4
  <2> QED BY <2>5, <2>6, <2>7, <2>8, <2>9
<1> QED BY <1>2, <1>3

LEMMA IngestKeepsIdentity ==
  ASSUME IdentityInv, TypeOK', NEW k \in copies, Ingest(k)
  PROVE  IdentityInv'
<1>1. k # NoCopy
  BY CopyAssumption DEF IdentityInv, TypeOK
<1> USE DEF IdentityInv, Ingest, rows, worker
<1>2. OneRowPerCopy' BY <1>1 DEF OneRowPerCopy, Taken
<1>3. PostedIsOnPlatform' BY DEF PostedIsOnPlatform
<1>4. PublishedIsOnPlatform' BY DEF PublishedIsOnPlatform
<1>5. OutcomeAnnounced' BY DEF OutcomeAnnounced, Event
<1>6. NoGhostAnnouncement' BY DEF NoGhostAnnouncement, Event
<1> QED BY <1>2, <1>3, <1>4, <1>5, <1>6

LEMMA AttemptStepKeepsIdentity ==
  ASSUME IdentityInv, TypeOK', NEW w \in Workers, AttemptStep(w)
  PROVE  IdentityInv'
<1>1. CASE ReadTarget(w) \/ ReleaseQuota(w) \/ MarkAuthFailed(w) \/ ApplyOutcome(w)
  <2>1. Quiet
    BY <1>1 DEF ReadTarget, ReleaseQuota, MarkAuthFailed, ApplyOutcome, Return, Forget, Goto,
                IdentityInv, TypeOK, WorkerType, Quiet, NoNewSettling, Settling, rows, tables
  <2> QED BY <2>1, QuietKeepsIdentity
<1>2. CASE MarkProcessing(w)
  <2>1. CASE Skip(w)
    BY <2>1, SkipIsQuiet, QuietKeepsIdentity DEF IdentityInv
  <2>2. CASE ~Skip(w)
    <3>1. /\ task[w] \in Comments /\ status[task[w]] = "queued"
          /\ status' = [status EXCEPT ![task[w]] = "processing"]
          /\ AnnouncesOnly(task[w], "processing")
          /\ UNCHANGED <<platformCommentId, ingested, relayed, copies>>
      BY <1>2, <2>2 DEF MarkProcessing, IdentityInv, TypeOK, WorkerType, tables, AnnouncesOnly
    <3>2. NoNewSettling
      BY <1>2, <2>2 DEF MarkProcessing, Goto, IdentityInv, TypeOK, WorkerType, NoNewSettling, Settling
    <3> QED BY <3>1, <3>2, SettleKeepsIdentity
  <2> QED BY <2>1, <2>2
<1>3. CASE CheckParent(w) \/ LoadContext(w)
  BY <1>3, OnlyGotoIsQuiet, QuietKeepsIdentity DEF CheckParent, LoadContext, IdentityInv, Settling
<1>4. CASE SearchBeforeSending(w) \/ SearchAfterSending(w)
  BY <1>4, OnlyGotoIsQuiet, QuietKeepsIdentity, SearchKeepsIdentity
  DEF SearchBeforeSending, SearchAfterSending, IdentityInv, Steps, Settling
<1>5. CASE ClearReconcileGuard(w) \/ MarkSendAttempted(w)
  <2>1. Quiet
    BY <1>5, SkipIsQuiet DEF ClearReconcileGuard, MarkSendAttempted, SetReconcileGuard, Goto,
       IdentityInv, TypeOK, WorkerType, Quiet, NoNewSettling, Settling, tables
  <2> QED BY <2>1, QuietKeepsIdentity
<1>6. CASE Send(w)
  BY <1>6, SendKeepsIdentity
<1>7. CASE SettlePosted(w)
  BY <1>7, SettlePostedKeepsIdentity
<1>8. CASE ResolveWebhookEcho(w)
  BY <1>8, ResolveWebhookEchoKeepsIdentity
<1>9. CASE SettleRetry(w)
  <2>1. CASE Skip(w)
    BY <2>1, SkipIsQuiet, QuietKeepsIdentity DEF IdentityInv
  <2>2. CASE ~Skip(w)
    <3>1. /\ task[w] \in Comments /\ status[task[w]] = "processing"
          /\ status' = [status EXCEPT ![task[w]] = "queued"]
          /\ AnnouncesOnly(task[w], "queued")
          /\ UNCHANGED <<platformCommentId, ingested, relayed, copies>>
      BY <1>9, <2>2 DEF SettleRetry, IdentityInv, TypeOK, WorkerType, tables, AnnouncesOnly
    <3>2. NoNewSettling
      BY <1>9, <2>2 DEF SettleRetry, Goto, IdentityInv, TypeOK, WorkerType, NoNewSettling, Settling
    <3> QED BY <3>1, <3>2, SettleKeepsIdentity
  <2> QED BY <2>1, <2>2
<1>10. CASE SettleFailed(w) \/ SettleAuthFailed(w)
  <2>1. /\ pc[w] # "idle"
        /\ "release" \in Steps \ Settling /\ "releaseAuth" \in Steps \ Settling
    BY <1>10 DEF SettleFailed, SettleAuthFailed, Steps, Settling
  <2>2. \/ MarkFailed(w, {} \cup {Event("failed", task[w])}, "release")
        \/ MarkFailed(w, {Event("auth_failed", Account)} \cup {Event("failed", task[w])}, "releaseAuth")
    <3>1. /\ {Event("failed", task[w])} = {} \cup {Event("failed", task[w])}
          /\ {Event("failed", task[w]), Event("auth_failed", Account)}
               = {Event("auth_failed", Account)} \cup {Event("failed", task[w])}
      OBVIOUS
    <3> QED BY <1>10, <3>1 DEF SettleFailed, SettleAuthFailed
  <2> QED BY <2>1, <2>2, MarkFailedKeepsIdentity
<1> QED
  BY <1>1, <1>2, <1>3, <1>4, <1>5, <1>6, <1>7, <1>8, <1>9, <1>10 DEF AttemptStep

LEMMA WorkerStepKeepsIdentity ==
  ASSUME IdentityInv, TypeOK', NEW w \in Workers, WorkerStep(w)
  PROVE  IdentityInv'
<1>1. CASE AttemptStep(w)
  BY <1>1, AttemptStepKeepsIdentity
<1>2. CASE SearchThrows(w) \/ ProcessorError(w)
  BY <1>2, ThrowIsQuiet, QuietKeepsIdentity DEF SearchThrows, ProcessorError, IdentityInv
<1>3. CASE (\E c \in Comments : TakeJob(w, c)) \/ DelayJob(w) \/ Crash(w)
  <2>1. Quiet
    BY <1>3 DEF TakeJob, DelayJob, Crash, Return, Forget, Goto, IdentityInv, TypeOK, WorkerType,
                Quiet, NoNewSettling, Settling, rows, tables
  <2> QED BY <2>1, QuietKeepsIdentity
<1> QED
  BY <1>1, <1>2, <1>3 DEF WorkerStep

LEMMA CommentStepKeepsIdentity ==
  ASSUME IdentityInv, TypeOK', NEW c \in Comments, CommentStep(c)
  PROVE  IdentityInv'
<1>1. CASE Enqueue(c) \/ EnqueueLost(c) \/ Promote(c) \/ Stalled(c) \/ ReenqueueStuckJob(c)
  <2>1. Quiet
    BY <1>1 DEF Enqueue, EnqueueLost, Promote, Stalled, ReenqueueStuckJob, Quiet, NoNewSettling,
                rows, tables, worker
  <2> QED BY <2>1, QuietKeepsIdentity
<1>2. CASE Accept(c)
  <2>1. /\ status[c] = "absent" /\ status' = [status EXCEPT ![c] = "queued"]
        /\ AnnouncesOnly(c, "queued")
        /\ UNCHANGED <<platformCommentId, ingested, relayed, copies>>
        /\ NoNewSettling
    BY <1>2 DEF Accept, worker, NoNewSettling, AnnouncesOnly, Event
  <2> QED BY <2>1, SettleKeepsIdentity
<1>3. CASE RecoverStuckProcessingRow(c)
  <2>1. CASE status[c] # "processing"
    <3>1. Quiet
      BY <1>3, <2>1 DEF RecoverStuckProcessingRow, Quiet, NoNewSettling, tables, worker
    <3> QED BY <3>1, QuietKeepsIdentity
  <2>2. CASE status[c] = "processing"
    <3>1. /\ status' = [status EXCEPT ![c] = "queued"]
          /\ AnnouncesOnly(c, "queued")
          /\ UNCHANGED <<platformCommentId, ingested, relayed, copies>>
          /\ NoNewSettling
      BY <1>3, <2>2 DEF RecoverStuckProcessingRow, tables, worker, NoNewSettling, AnnouncesOnly
    <3> QED BY <2>2, <3>1, SettleKeepsIdentity
  <2> QED BY <2>1, <2>2
<1> QED
  BY <1>1, <1>2, <1>3 DEF CommentStep

LEMMA OtherStepKeepsIdentity ==
  ASSUME IdentityInv, TypeOK', OtherStep
  PROVE  IdentityInv'
<1>1. CASE SweepSelect \/ SweeperCrash \/ RedisLost \/ DeleteParent \/ ClearAuthFailed
  <2>1. Quiet
    BY <1>1 DEF SweepSelect, SweeperCrash, RedisLost, DeleteParent, ClearAuthFailed, Quiet,
                NoNewSettling, rows, tables, worker
  <2> QED BY <2>1, QuietKeepsIdentity
<1>2. ASSUME NEW k \in copies, Ingest(k) PROVE IdentityInv'
  BY <1>2, IngestKeepsIdentity
<1>3. ASSUME NEW e \in outbox, Relay(e) PROVE IdentityInv'
  BY <1>3 DEF Relay, IdentityInv, rows, worker, OneRowPerCopy, PostedIsOnPlatform,
              PublishedIsOnPlatform, OutcomeAnnounced, NoGhostAnnouncement
<1> QED
  BY <1>1, <1>2, <1>3 DEF OtherStep

LEMMA IdentityInit == Init => IdentityInv
<1> SUFFICES ASSUME Init PROVE IdentityInv
  OBVIOUS
<1>1. TypeOK BY TypeInit
<1>2. OneRowPerCopy /\ PostedIsOnPlatform BY DEF Init, OneRowPerCopy, PostedIsOnPlatform
<1>3. PublishedIsOnPlatform BY DEF Init, PublishedIsOnPlatform, Settling
<1>4. OutcomeAnnounced /\ NoGhostAnnouncement BY DEF Init, OutcomeAnnounced, NoGhostAnnouncement
<1> QED BY <1>1, <1>2, <1>3, <1>4 DEF IdentityInv

LEMMA IdentityNext == IdentityInv /\ [Next]_vars => IdentityInv'
<1> SUFFICES ASSUME IdentityInv, [Next]_vars PROVE IdentityInv'
  OBVIOUS
<1>1. TypeOK'
  BY TypeNext DEF IdentityInv
<1>2. CASE UNCHANGED vars \/ Tick
  <2>1. Quiet
    BY <1>2 DEF vars, Tick, Quiet, NoNewSettling, rows, tables, worker
  <2> QED BY <1>1, <2>1, QuietKeepsIdentity
<1>3. CASE Next /\ ~Tick
  BY <1>1, <1>3, WorkerStepKeepsIdentity, CommentStepKeepsIdentity, OtherStepKeepsIdentity DEF Next
<1> QED
  BY <1>2, <1>3

LEMMA IdentityCorrect == Spec => []IdentityInv
  BY IdentityInit, IdentityNext, PTL DEF Spec

\* Whatever fails, two rows never name one platform comment: the unique index holds, and
\* the echo that meets it leaves the comment to exactly one of them.
THEOREM OneRowPerCopyHolds == Spec => []OneRowPerCopy
  BY IdentityCorrect, PTL DEF IdentityInv

\* A posted reply always names a comment the platform has, with the reply's text, and no
\* other reply names one.
THEOREM PostedIsOnPlatformHolds == Spec => []PostedIsOnPlatform
  BY IdentityCorrect, PTL DEF IdentityInv

\* comment.posted and comment.failed are written exactly for the replies that reach that
\* status, however many slots settle one reply at once.
THEOREM OutcomeAnnouncedHolds == Spec => []OutcomeAnnounced
  BY IdentityCorrect, PTL DEF IdentityInv

\* The relay never finds a comment.received of a row the echo deleted.
THEOREM NoGhostAnnouncementHolds == Spec => []NoGhostAnnouncement
  BY IdentityCorrect, PTL DEF IdentityInv


-------------------------------------------------------------------------------
(***************************************************************************)
(* What the reconciliation guard guarantees (D14), for every number of     *)
(* replies, workers, faults and minutes, as long as BullMQ runs a job in   *)
(* one slot at a time: no slot outlives its lock, and Redis loses nothing. *)
(***************************************************************************)

ExclusiveJobs == FaultKinds \cap {"stall", "redis"} = {}

(***************************************************************************)
(* The inductive invariant.                                                *)
(***************************************************************************)

\* A slot at work holds the lock of its job; so no two slots work on one reply.
JobExclusion ==
  \A w \in Workers : pc[w] # "idle" => job[task[w]] = "active" /\ lock[task[w]] = w

\* Nothing exists of a reply that was never accepted.
NothingFromNowhere ==
  \A c \in Comments : status[c] = "absent" =>
    /\ job[c] = "none"
    /\ c \notin accepting \cup toRecover \cup toEnqueue
    /\ \A k \in copies : k.by # c

CopiesOf(c) == {k \in copies : k.by = c}

\* What holds of one reply: its latest attempt sends only after its start, its copies are
\* evident from its row, and they are spaced.
RowTruth(c) ==
  /\ startedAt[c] <= now
  /\ \A k \in CopiesOf(c) :
       /\ k.attempt <= attemptCount[c]
       /\ k.attempt = attemptCount[c] => startedAt[c] <= k.at
  /\ Unsettled(c) =>
       needsReconcile[c] \/ \A k \in CopiesOf(c) : k.at + ReconcileWindow < startedAt[c]
  /\ \A k, m \in CopiesOf(c) : k.attempt < m.attempt =>
       k.at + ReconcileWindow < m.at /\ k.attempt + 1 < m.attempt

\* All copies of the slot's reply are too old for the window of the row it read.
OutOfWindow(w) ==
  \A k \in CopiesOf(task[w]) : k.at + ReconcileWindow < seen[w].startedAt

BeforeSend == {"parent", "context", "searchFirst", "clear", "arm", "send", "retryLimited"}
Searched   == {"clear", "arm", "send", "retryLimited"}
Unfinished == BeforeSend \cup {"searchAfter", "settlePosted", "echo", "retryUnknown", "fail",
                               "failAuth"}

\* What holds of one slot: what it read of its row still tells the truth about the copies
\* there are, its row is unsettled until it settles it, and it sends only under the guard.
SlotTruth(w) ==
  /\ pc[w] = "claim" =>
       /\ seen[w].startedAt = startedAt[task[w]]
       /\ Unsettled(task[w]) => seen[w].needsReconcile \/ OutOfWindow(w)
  /\ pc[w] \in {"parent", "context"} => seen[w].needsReconcile \/ OutOfWindow(w)
  /\ pc[w] \in Searched => OutOfWindow(w)
  /\ pc[w] \in BeforeSend =>
       /\ seen[w].startedAt <= startedAt[task[w]]
       /\ run[w].ordinal = attemptCount[task[w]]
       /\ \A k \in CopiesOf(task[w]) :
            k.attempt + 1 = run[w].ordinal => seen[w].startedAt <= k.at
  /\ pc[w] \in Unfinished => Unsettled(task[w])
  /\ pc[w] = "send" => needsReconcile[task[w]]

AllTruth ==
  /\ \A c \in Comments : RowTruth(c)
  /\ \A w \in Workers : SlotTruth(w)

(***************************************************************************)
(* Job exclusion.                                                          *)
(***************************************************************************)

LEMMA ReturnKeepsExclusion ==
  ASSUME TypeOK, JobExclusion, NEW w \in Workers, pc[w] # "idle", NEW state, Return(w, state)
  PROVE  JobExclusion'
  BY DEF JobExclusion, TypeOK, QueueType, WorkerType, Return, LeaveJob, Forget, Goto

LEMMA ThrowKeepsExclusion ==
  ASSUME TypeOK, JobExclusion, NEW w \in Workers, pc[w] # "idle", Throw(w)
  PROVE  JobExclusion'
  BY ReturnKeepsExclusion DEF Throw

LEMMA StayKeepsExclusion ==
  ASSUME TypeOK, JobExclusion, NEW w \in Workers, pc[w] # "idle", NEW step, Goto(w, step),
         UNCHANGED <<queue, task>>
  PROVE  JobExclusion'
  BY DEF JobExclusion, TypeOK, QueueType, WorkerType, Goto, queue

LEMMA AttemptKeepsExclusion ==
  ASSUME TypeOK, JobExclusion, NEW w \in Workers, AttemptStep(w)
  PROVE  JobExclusion'
<1>1. pc[w] # "idle"
  BY DEF AttemptStep, ReadTarget, MarkProcessing, CheckParent, LoadContext, SearchBeforeSending,
         ClearReconcileGuard, MarkSendAttempted, Send, SearchAfterSending, SettlePosted,
         ResolveWebhookEcho, SettleRetry, SettleFailed, SettleAuthFailed, ReleaseQuota,
         MarkAuthFailed, ApplyOutcome
<1>2. \/ \E state : Return(w, state)
      \/ \E step : Goto(w, step) /\ UNCHANGED <<queue, task>>
  <2>1. CASE ReadTarget(w) \/ MarkProcessing(w) \/ CheckParent(w) \/ LoadContext(w)
    BY <2>1 DEF ReadTarget, MarkProcessing, CheckParent, LoadContext, OnlyGoto, Skip
  <2>2. CASE SearchBeforeSending(w) \/ SearchAfterSending(w)
    BY <2>2 DEF SearchBeforeSending, SearchAfterSending, Search, OnlyGoto
  <2>3. CASE ClearReconcileGuard(w) \/ MarkSendAttempted(w)
    BY <2>3 DEF ClearReconcileGuard, MarkSendAttempted, SetReconcileGuard, Skip
  <2>4. CASE Send(w)
    BY <2>4 DEF Send, OnlyGoto
  <2>5. CASE SettlePosted(w) \/ ResolveWebhookEcho(w)
    BY <2>5 DEF SettlePosted, ResolveWebhookEcho, OnlyGoto, Skip, Throw
  <2>6. CASE SettleRetry(w) \/ SettleFailed(w) \/ SettleAuthFailed(w)
    BY <2>6 DEF SettleRetry, SettleFailed, SettleAuthFailed, MarkFailed, Skip
  <2>7. CASE ReleaseQuota(w) \/ MarkAuthFailed(w) \/ ApplyOutcome(w)
    BY <2>7 DEF ReleaseQuota, MarkAuthFailed, ApplyOutcome
  <2> QED
    BY <2>1, <2>2, <2>3, <2>4, <2>5, <2>6, <2>7 DEF AttemptStep
<1> QED
  BY <1>1, <1>2, ReturnKeepsExclusion, StayKeepsExclusion

LEMMA NextKeepsExclusion ==
  ASSUME ExclusiveJobs, TypeOK, JobExclusion, [Next]_vars
  PROVE  JobExclusion'
<1>1. ASSUME NEW w \in Workers, NEW c \in Comments, TakeJob(w, c) PROVE JobExclusion'
  BY <1>1 DEF TakeJob, Goto, JobExclusion, TypeOK, QueueType, WorkerType
<1>2. ASSUME NEW w \in Workers, DelayJob(w) \/ SearchThrows(w) \/ ProcessorError(w)
      PROVE  JobExclusion'
  BY <1>2, ReturnKeepsExclusion, ThrowKeepsExclusion DEF DelayJob, SearchThrows, ProcessorError
<1>3. ASSUME NEW w \in Workers, Crash(w) PROVE JobExclusion'
  BY <1>3 DEF Crash, Forget, Goto, queue, JobExclusion, TypeOK, QueueType, WorkerType
<1>4. ASSUME NEW w \in Workers, AttemptStep(w) PROVE JobExclusion'
  BY <1>4, AttemptKeepsExclusion
<1>5. ASSUME NEW c \in Comments, CommentStep(c) PROVE JobExclusion'
  <2>1. CASE Stalled(c)
    <3>1. \A w \in Workers : pc[w] # "idle" => task[w] # c
      BY <2>1 DEF Stalled, Fault, ExclusiveJobs, JobExclusion
    <3> QED
      BY <2>1, <3>1 DEF Stalled, worker, JobExclusion, TypeOK, QueueType, WorkerType
  <2>2. CASE Enqueue(c) \/ EnqueueLost(c) \/ Promote(c) \/ ReenqueueStuckJob(c)
    BY <2>2 DEF Enqueue, EnqueueLost, Promote, ReenqueueStuckJob, InFlight, queue, worker,
                JobExclusion, TypeOK, QueueType, WorkerType
  <2>3. CASE Accept(c) \/ RecoverStuckProcessingRow(c)
    BY <2>3 DEF Accept, RecoverStuckProcessingRow, queue, worker, JobExclusion
  <2> QED
    BY <1>5, <2>1, <2>2, <2>3 DEF CommentStep
<1>6. CASE OtherStep \/ Tick \/ UNCHANGED vars
  <2>1. ~RedisLost
    BY DEF RedisLost, Fault, ExclusiveJobs
  <2>2. UNCHANGED <<queue, worker>>
    BY <1>6, <2>1 DEF OtherStep, SweepSelect, SweeperCrash, Ingest, Relay, DeleteParent,
                      ClearAuthFailed, Tick, vars
  <2> QED
    BY <2>2 DEF queue, worker, JobExclusion
<1> QED
  BY <1>1, <1>2, <1>3, <1>4, <1>5, <1>6 DEF Next, WorkerStep

(***************************************************************************)
(* Nothing exists of a reply before it is accepted.                        *)
(***************************************************************************)

\* Every trace of a reply that a step leaves was there before, or is of an accepted one.
NoNewTrace ==
  \A c \in Comments : status'[c] = "absent" =>
    /\ status[c] = "absent"
    /\ job[c] = "none" => job'[c] = "none"
    /\ accepting' \cup toRecover' \cup toEnqueue' \subseteq
         accepting \cup toRecover \cup toEnqueue \cup {d \in Comments : d # c}
    /\ \A k \in copies' \ copies : k.by # c

LEMMA NoNewTraceKeepsNothing ==
  ASSUME NothingFromNowhere, NoNewTrace
  PROVE  NothingFromNowhere'
  BY DEF NothingFromNowhere, NoNewTrace

LEMMA SlotHasAcceptedReply ==
  ASSUME TypeOK, JobExclusion, NothingFromNowhere, NEW w \in Workers, pc[w] # "idle"
  PROVE  task[w] \in Comments /\ status[task[w]] # "absent" /\ job[task[w]] # "none"
  BY DEF TypeOK, WorkerType, JobExclusion, NothingFromNowhere

LEMMA ReturnLeavesNoTrace ==
  ASSUME TypeOK, JobExclusion, NothingFromNowhere, NEW w \in Workers, pc[w] # "idle",
         NEW state, Return(w, state),
         UNCHANGED <<status, accepting, toRecover, toEnqueue, copies>>
  PROVE  NoNewTrace
  BY SlotHasAcceptedReply DEF Return, LeaveJob, NoNewTrace, TypeOK, QueueType

LEMMA ThrowLeavesNoTrace ==
  ASSUME TypeOK, JobExclusion, NothingFromNowhere, NEW w \in Workers, pc[w] # "idle", Throw(w),
         UNCHANGED <<status, accepting, toRecover, toEnqueue, copies>>
  PROVE  NoNewTrace
  BY ReturnLeavesNoTrace DEF Throw

LEMMA SkipLeavesNoTrace ==
  ASSUME TypeOK, JobExclusion, NothingFromNowhere, NEW w \in Workers, pc[w] # "idle", Skip(w)
  PROVE  NoNewTrace
<1>1. UNCHANGED <<status, accepting, toRecover, toEnqueue, copies>>
  BY DEF Skip, rows, sweeper
<1> QED BY <1>1, ReturnLeavesNoTrace DEF Skip

LEMMA OnlyGotoLeavesNoTrace ==
  ASSUME NEW w, NEW step, OnlyGoto(w, step)
  PROVE  NoNewTrace
  BY DEF OnlyGoto, rows, queue, sweeper, NoNewTrace

LEMMA AttemptLeavesNoTrace ==
  ASSUME TypeOK, JobExclusion, NothingFromNowhere, NEW w \in Workers, AttemptStep(w)
  PROVE  NoNewTrace
<1> USE DEF rows, queue, sweeper
<1>1. CASE ReadTarget(w)
  <2>1. CASE Return(w, "done")
    BY <1>1, <2>1, ReturnLeavesNoTrace DEF ReadTarget
  <2> QED
    BY <1>1, <2>1 DEF ReadTarget, NoNewTrace
<1>2. CASE MarkProcessing(w) \/ SettleRetry(w)
  <2>1. CASE Skip(w)
    BY <1>2, <2>1, SkipLeavesNoTrace DEF MarkProcessing, SettleRetry
  <2> QED
    BY <1>2, <2>1 DEF MarkProcessing, SettleRetry, NoNewTrace, TypeOK, RowsType
<1>3. CASE CheckParent(w) \/ LoadContext(w)
  BY <1>3, OnlyGotoLeavesNoTrace DEF CheckParent, LoadContext
<1>4. CASE SearchBeforeSending(w) \/ SearchAfterSending(w)
  BY <1>4, OnlyGotoLeavesNoTrace DEF SearchBeforeSending, SearchAfterSending, Search, NoNewTrace
<1>5. CASE ClearReconcileGuard(w) \/ MarkSendAttempted(w)
  <2>1. CASE Skip(w)
    BY <1>5, <2>1, SkipLeavesNoTrace DEF ClearReconcileGuard, MarkSendAttempted
  <2> QED
    BY <1>5, <2>1 DEF ClearReconcileGuard, MarkSendAttempted, SetReconcileGuard, NoNewTrace
<1>6. CASE Send(w)
  <2>1. CASE \E step : OnlyGoto(w, step)
    BY <2>1, OnlyGotoLeavesNoTrace
  <2>2. task[w] \in Comments /\ status[task[w]] # "absent" /\ SentCopy(w).by = task[w]
    BY <1>6, SlotHasAcceptedReply DEF Send, SentCopy
  <2> QED
    BY <1>6, <2>1, <2>2 DEF Send, NoNewTrace
<1>7. CASE SettlePosted(w)
  <2>1. CASE Skip(w)
    BY <1>7, <2>1, SkipLeavesNoTrace DEF SettlePosted
  <2>2. CASE OnlyGoto(w, "echo")
    BY <2>2, OnlyGotoLeavesNoTrace
  <2> QED
    BY <1>7, <2>1, <2>2 DEF SettlePosted, MarkPosted, NoNewTrace, TypeOK, RowsType
<1>8. CASE ResolveWebhookEcho(w)
  <2>1. CASE Throw(w) /\ UNCHANGED <<rows, accepting, sweeper, copies>>
    BY <1>8, <2>1, ThrowLeavesNoTrace DEF ResolveWebhookEcho
  <2> QED
    BY <1>8, <2>1 DEF ResolveWebhookEcho, NoNewTrace
<1>9. CASE SettleFailed(w) \/ SettleAuthFailed(w)
  <2>1. CASE Skip(w)
    BY <1>9, <2>1, SkipLeavesNoTrace DEF SettleFailed, SettleAuthFailed
  <2> QED
    BY <1>9, <2>1 DEF SettleFailed, SettleAuthFailed, MarkFailed, NoNewTrace, TypeOK, RowsType
<1>10. CASE ReleaseQuota(w) \/ MarkAuthFailed(w)
  BY <1>10 DEF ReleaseQuota, MarkAuthFailed, NoNewTrace
<1>11. CASE ApplyOutcome(w)
  BY <1>11, ReturnLeavesNoTrace DEF ApplyOutcome
<1> QED
  BY <1>1, <1>2, <1>3, <1>4, <1>5, <1>6, <1>7, <1>8, <1>9, <1>10, <1>11 DEF AttemptStep

LEMMA NextKeepsNothing ==
  ASSUME TypeOK, JobExclusion, NothingFromNowhere, [Next]_vars
  PROVE  NothingFromNowhere'
<1> USE DEF rows, queue, sweeper
<1>1. ASSUME NEW w \in Workers, AttemptStep(w) PROVE NoNewTrace
  BY <1>1, AttemptLeavesNoTrace
<1>2. ASSUME NEW w \in Workers, DelayJob(w) \/ SearchThrows(w) \/ ProcessorError(w)
      PROVE  NoNewTrace
  BY <1>2, ReturnLeavesNoTrace, ThrowLeavesNoTrace DEF DelayJob, SearchThrows, ProcessorError
<1>3. ASSUME NEW w \in Workers, Crash(w) \/ \E c \in Comments : TakeJob(w, c) PROVE NoNewTrace
  BY <1>3 DEF Crash, TakeJob, NoNewTrace, TypeOK, QueueType
<1>4. ASSUME NEW c \in Comments, CommentStep(c) PROVE NothingFromNowhere'
  BY <1>4 DEF CommentStep, Accept, Enqueue, EnqueueLost, Promote, Stalled,
              RecoverStuckProcessingRow, ReenqueueStuckJob, NothingFromNowhere, TypeOK, QueueType,
              RowsType
<1>5. CASE OtherStep \/ Tick \/ UNCHANGED vars
  BY <1>5 DEF OtherStep, SweepSelect, StuckQueued, StuckProcessing, SweeperCrash, RedisLost, Ingest,
              Relay, DeleteParent, ClearAuthFailed, Tick, vars, NothingFromNowhere
<1> QED
  BY <1>1, <1>2, <1>3, <1>4, <1>5, NoNewTraceKeepsNothing DEF Next, WorkerStep

(***************************************************************************)
(* The truth about rows and slots.                                         *)
(***************************************************************************)

\* A step that leaves the row and the copies of d as they are, or settles neither.
SameRow(d) ==
  /\ attemptCount'[d] = attemptCount[d] /\ startedAt'[d] = startedAt[d]
  /\ needsReconcile'[d] = needsReconcile[d]
  /\ (status'[d] \in {"queued", "processing"}) = (status[d] \in {"queued", "processing"})
  /\ {k \in copies' : k.by = d} = {k \in copies : k.by = d}

SameSlot(v) ==
  pc'[v] = pc[v] /\ task'[v] = task[v] /\ seen'[v] = seen[v] /\ run'[v] = run[v]

LEMMA SameRowKeepsTruth ==
  ASSUME TypeOK, NEW d \in Comments, RowTruth(d), SameRow(d), now' >= now, TypeOK'
  PROVE  RowTruth(d)'
  BY DEF TypeOK, TimeType, RowsType, RowTruth, SameRow, CopiesOf, Unsettled

LEMMA SameSlotKeepsTruth ==
  ASSUME TypeOK, NEW v \in Workers, SlotTruth(v), SameSlot(v),
         pc[v] # "idle" => SameRow(task[v])
  PROVE  SlotTruth(v)'
<1>1. CASE pc[v] = "idle"
  BY <1>1 DEF SameSlot, SlotTruth, Searched, BeforeSend, Unfinished
<1>2. CASE pc[v] # "idle"
  BY <1>2 DEF SameRow, SameSlot, SlotTruth, CopiesOf, OutOfWindow, Unsettled
<1> QED BY <1>1, <1>2

LEMMA IdleSlotIsTrue ==
  ASSUME NEW v \in Workers, pc[v] \in {"idle", "start", "release", "releaseAuth", "health",
                                       "postpone", "finish"}
  PROVE  SlotTruth(v)
  BY DEF SlotTruth, Searched, BeforeSend, Unfinished

\* A step of slot w disturbs no other slot and no other reply.
ActsOnItsOwn(w) ==
  /\ \A v \in Workers \ {w} : SameSlot(v)
  /\ \A d \in Comments \ {task[w]} : SameRow(d)

LEMMA OwnStepKeepsTruth ==
  ASSUME TypeOK, TypeOK', JobExclusion, AllTruth, NEW w \in Workers, pc[w] # "idle", now' = now,
         ActsOnItsOwn(w), NEW c \in Comments, c = task[w], RowTruth(c)', SlotTruth(w)'
  PROVE  AllTruth'
<1>1. ASSUME NEW d \in Comments PROVE RowTruth(d)'
  <2>1. CASE d = c BY <2>1
  <2>2. CASE d # c
    <3>1. now' >= now BY DEF TypeOK, TimeType
    <3> QED BY <2>2, <3>1, SameRowKeepsTruth DEF ActsOnItsOwn, AllTruth
  <2> QED BY <2>1, <2>2
<1>2. ASSUME NEW v \in Workers PROVE SlotTruth(v)'
  <2>1. CASE v = w BY <2>1
  <2>2. CASE v # w
    <3>1. pc[v] # "idle" => task[v] # task[w] /\ task[v] \in Comments
      BY <2>2 DEF JobExclusion, TypeOK, WorkerType
    <3> QED BY <2>2, <3>1, SameSlotKeepsTruth DEF ActsOnItsOwn, AllTruth
  <2> QED BY <2>1, <2>2
<1> QED BY <1>1, <1>2 DEF AllTruth

\* A step of a slot that leaves all rows alone and ends its attempt.
LEMMA EndingKeepsTruth ==
  ASSUME TypeOK, TypeOK', JobExclusion, AllTruth, NEW w \in Workers, pc[w] # "idle", Forget(w),
         UNCHANGED <<now, rows, copies>>
  PROVE  AllTruth'
<1>0. PICK c \in Comments : c = task[w]
  BY DEF TypeOK, WorkerType
<1>1. ActsOnItsOwn(w) /\ SameRow(c)
  BY DEF ActsOnItsOwn, SameRow, SameSlot, Forget, Goto, rows, TypeOK, WorkerType
<1>2. RowTruth(c)'
  BY <1>1, SameRowKeepsTruth DEF AllTruth, TypeOK, TimeType
<1>3. SlotTruth(w)'
  BY DEF Forget, Goto, TypeOK, WorkerType, SlotTruth, Searched, BeforeSend, Unfinished
<1> QED
  BY <1>0, <1>1, <1>2, <1>3, OwnStepKeepsTruth

LEMMA SkipKeepsTruth ==
  ASSUME TypeOK, TypeOK', JobExclusion, AllTruth, NEW w \in Workers, pc[w] # "idle", Skip(w)
  PROVE  AllTruth'
  BY EndingKeepsTruth DEF Skip, Return, time

LEMMA ThrowKeepsTruth ==
  ASSUME TypeOK, TypeOK', JobExclusion, AllTruth, NEW w \in Workers, pc[w] # "idle", Throw(w),
         UNCHANGED <<now, rows, copies>>
  PROVE  AllTruth'
  BY EndingKeepsTruth DEF Throw, Return

\* A step of a slot that leaves all rows alone and goes on.
LEMMA GoingOnKeepsTruth ==
  ASSUME TypeOK, TypeOK', JobExclusion, AllTruth, NEW w \in Workers, pc[w] # "idle",
         NEW step, Goto(w, step), UNCHANGED <<now, rows, copies, task, seen, run>>,
         SlotTruth(w)'
  PROVE  AllTruth'
<1>0. PICK c \in Comments : c = task[w]
  BY DEF TypeOK, WorkerType
<1>1. ActsOnItsOwn(w) /\ SameRow(c)
  BY DEF ActsOnItsOwn, SameRow, SameSlot, Goto, rows, TypeOK, WorkerType
<1>2. RowTruth(c)'
  BY <1>1, SameRowKeepsTruth DEF AllTruth, TypeOK, TimeType
<1> QED
  BY <1>0, <1>1, <1>2, OwnStepKeepsTruth

LEMMA ReadTargetKeepsTruth ==
  ASSUME TypeOK, TypeOK', JobExclusion, AllTruth, NEW w \in Workers, ReadTarget(w)
  PROVE  AllTruth'
<1>1. pc[w] # "idle" /\ task[w] \in Comments
  BY DEF ReadTarget, TypeOK, WorkerType
<1>0. PICK c \in Comments : c = task[w]
  BY <1>1
<1>2. CASE Return(w, "done")
  BY <1>1, <1>2, EndingKeepsTruth DEF ReadTarget, Return, time
<1>3. CASE ~Return(w, "done")
  <2>1. ActsOnItsOwn(w) /\ SameRow(c)
    BY <1>0, <1>3 DEF ReadTarget, ActsOnItsOwn, SameRow, SameSlot, Goto, rows, TypeOK, WorkerType
  <2>2. RowTruth(c)'
    BY <1>1, <2>1, SameRowKeepsTruth DEF ReadTarget, time, AllTruth, TypeOK, TimeType
  <2>3. /\ pc'[w] = "claim" /\ task'[w] = task[w]
        /\ seen'[w].startedAt = startedAt[task[w]]
        /\ seen'[w].needsReconcile = needsReconcile[task[w]]
        /\ UNCHANGED <<now, rows, copies>>
    BY <1>3 DEF ReadTarget, Goto, TypeOK, WorkerType, time
  <2>4. RowTruth(c)
    BY <1>1 DEF AllTruth
  <2>5. SlotTruth(w)'
    BY <1>0, <2>3, <2>4 DEF SlotTruth, RowTruth, OutOfWindow, CopiesOf, Unsettled, Searched, BeforeSend,
                      Unfinished, rows
  <2> QED
    BY <1>0, <1>1, <2>1, <2>2, <2>5, OwnStepKeepsTruth DEF ReadTarget, time
<1> QED BY <1>2, <1>3

LEMMA MarkProcessingKeepsTruth ==
  ASSUME TypeOK, TypeOK', JobExclusion, AllTruth, NEW w \in Workers, MarkProcessing(w)
  PROVE  AllTruth'
<1>0. PICK c : c = task[w]
  OBVIOUS
<1>1. pc[w] = "claim" /\ c \in Comments
  BY <1>0 DEF MarkProcessing, TypeOK, WorkerType
<1>2. CASE Skip(w)
  BY <1>0, <1>1, <1>2, SkipKeepsTruth
<1>3. CASE ~Skip(w)
  <2>1. /\ status[c] = "queued"
        /\ status' = [status EXCEPT ![c] = "processing"]
        /\ attemptCount' = [attemptCount EXCEPT ![c] = attemptCount[c] + 1]
        /\ startedAt' = [startedAt EXCEPT ![c] = now]
        /\ run' = [run EXCEPT ![w] = [ordinal |-> attemptCount[c] + 1, startedAt |-> now]]
        /\ pc' = [pc EXCEPT ![w] = "parent"]
        /\ UNCHANGED <<now, needsReconcile, copies, task, seen>>
    BY <1>0, <1>3 DEF MarkProcessing, Goto, time
  <2>2. RowTruth(c) /\ SlotTruth(w)
    BY <1>0, <1>1 DEF AllTruth
  <2>3. /\ attemptCount[c] \in Nat /\ startedAt[c] \in Nat /\ now \in Nat /\ seen[w] \in Snapshot
        /\ ReconcileWindow \in Nat /\ copies \subseteq Copy
    BY <1>0, <1>1, PublishAssumption DEF TypeOK, TimeType, RowsType, WorkerType
  <2>4. /\ status'[c] = "processing" /\ attemptCount'[c] = attemptCount[c] + 1
        /\ startedAt'[c] = now /\ run'[w].ordinal = attemptCount[c] + 1 /\ pc'[w] = "parent"
    BY <1>0, <1>1, <2>1 DEF TypeOK, RowsType, WorkerType
  <2>5. ActsOnItsOwn(w)
    BY <1>0, <1>1, <2>1 DEF ActsOnItsOwn, SameRow, SameSlot, TypeOK, RowsType, WorkerType
  <2>6. RowTruth(c)'
    BY <1>0, <2>1, <2>2, <2>3, <2>4 DEF RowTruth, CopiesOf, Unsettled, Copy
  <2>7. SlotTruth(w)'
    <3>1. /\ seen[w].startedAt = startedAt[c]
          /\ seen[w].needsReconcile \/ \A k \in CopiesOf(c) : k.at + ReconcileWindow < seen[w].startedAt
      BY <1>0, <1>1, <2>1, <2>2 DEF SlotTruth, OutOfWindow, Unsettled
    <3> QED
      BY <1>0, <2>1, <2>2, <2>3, <2>4, <3>1 DEF SlotTruth, RowTruth, OutOfWindow, CopiesOf, Unsettled,
         Searched, BeforeSend, Unfinished, Copy, Snapshot
  <2> QED
    BY <1>0, <1>1, <2>1, <2>5, <2>6, <2>7, OwnStepKeepsTruth
<1> QED BY <1>2, <1>3

LEMMA SearchKeepsTruth ==
  ASSUME TypeOK, TypeOK', JobExclusion, AllTruth, NEW w \in Workers,
         SearchBeforeSending(w) \/ SearchAfterSending(w)
  PROVE  AllTruth'
<1>1. pc[w] \in {"searchFirst", "searchAfter"} /\ task[w] \in Comments
  BY DEF SearchBeforeSending, SearchAfterSending, TypeOK, WorkerType
<1>2. PICK step : Goto(w, step) /\ UNCHANGED <<now, rows, copies, task, seen, run>>
  BY DEF SearchBeforeSending, SearchAfterSending, Search, OnlyGoto, time
<1>3. pc'[w] = step
  BY <1>2 DEF Goto, TypeOK, WorkerType
<1>4. SlotTruth(w)
  BY DEF AllTruth
<1>5. \/ step \in {"settlePosted", "retryUnknown"}
      \/ /\ step = "clear" /\ pc[w] = "searchFirst"
         /\ Matches(task[w], seen[w].startedAt) = {}
  <2>1. CASE pc[w] = "searchFirst"
    BY <1>3, <2>1 DEF SearchBeforeSending, SearchAfterSending, Search, OnlyGoto, Goto, TypeOK,
                      WorkerType
  <2>2. CASE pc[w] = "searchAfter"
    BY <1>3, <2>2 DEF SearchBeforeSending, SearchAfterSending, Search, OnlyGoto, Goto, TypeOK,
                      WorkerType
  <2> QED BY <1>1, <2>1, <2>2
<1>6. CASE step \in {"settlePosted", "retryUnknown"}
  <2>1. SlotTruth(w)'
    BY <1>1, <1>2, <1>3, <1>4, <1>6 DEF SlotTruth, Unsettled, Searched, BeforeSend, Unfinished, rows
  <2> QED BY <1>1, <1>2, <2>1, GoingOnKeepsTruth
<1>7. CASE step = "clear" /\ pc[w] = "searchFirst" /\ Matches(task[w], seen[w].startedAt) = {}
  <2>1. OutOfWindow(w)
    BY <1>7, PublishAssumption DEF Matches, OutOfWindow, CopiesOf, TypeOK, Copy, WorkerType, Snapshot
  <2>2. SlotTruth(w)'
    BY <1>1, <1>2, <1>3, <1>4, <1>7, <2>1 DEF SlotTruth, OutOfWindow, CopiesOf, Unsettled, Searched,
                                              BeforeSend, Unfinished, rows
  <2> QED BY <1>1, <1>2, <2>2, GoingOnKeepsTruth
<1> QED BY <1>5, <1>6, <1>7

LEMMA SetReconcileGuardKeepsTruth ==
  ASSUME TypeOK, TypeOK', JobExclusion, AllTruth, NEW w \in Workers,
         ClearReconcileGuard(w) \/ MarkSendAttempted(w)
  PROVE  AllTruth'
<1>0. PICK c : c = task[w]
  OBVIOUS
<1>1. pc[w] \in {"clear", "arm"} /\ c \in Comments
  BY <1>0 DEF ClearReconcileGuard, MarkSendAttempted, TypeOK, WorkerType
<1>2. CASE Skip(w)
  BY <1>0, <1>1, <1>2, SkipKeepsTruth
<1>3. CASE ~Skip(w)
  <2>1. PICK guard \in BOOLEAN, step \in {"arm", "send"} :
          /\ guard = (step = "send")
          /\ status[c] = "processing"
          /\ needsReconcile' = [needsReconcile EXCEPT ![c] = guard]
          /\ pc' = [pc EXCEPT ![w] = step]
          /\ UNCHANGED <<now, status, attemptCount, startedAt, copies, task, seen, run>>
    BY <1>0, <1>3 DEF ClearReconcileGuard, MarkSendAttempted, SetReconcileGuard, Goto, time
  <2>2. RowTruth(c) /\ SlotTruth(w)
    BY <1>0, <1>1 DEF AllTruth
  <2>3. /\ startedAt[c] \in Nat /\ seen[w] \in Snapshot /\ ReconcileWindow \in Nat
        /\ copies \subseteq Copy
    BY <1>0, <1>1, PublishAssumption DEF TypeOK, RowsType, WorkerType
  <2>4. needsReconcile'[c] = guard /\ pc'[w] = step
    BY <1>0, <1>1, <2>1 DEF TypeOK, RowsType, WorkerType
  <2>5. ActsOnItsOwn(w)
    BY <1>0, <1>1, <2>1 DEF ActsOnItsOwn, SameRow, SameSlot, TypeOK, RowsType, WorkerType
  <2>6. \A k \in CopiesOf(c) : k.at + ReconcileWindow < startedAt[c]
    BY <1>0, <1>1, <2>2, <2>3 DEF SlotTruth, Searched, BeforeSend, OutOfWindow, CopiesOf, Copy, Snapshot
  <2>7. RowTruth(c)'
    BY <1>0, <2>1, <2>2, <2>6 DEF RowTruth, CopiesOf, Unsettled
  <2>8. SlotTruth(w)'
    BY <1>0, <1>1, <2>1, <2>2, <2>4 DEF SlotTruth, OutOfWindow, CopiesOf, Unsettled, Searched, BeforeSend,
                                  Unfinished
  <2> QED
    BY <1>0, <1>1, <2>1, <2>5, <2>7, <2>8, OwnStepKeepsTruth
<1> QED BY <1>2, <1>3

LEMMA SendKeepsTruth ==
  ASSUME TypeOK, TypeOK', JobExclusion, AllTruth, NEW w \in Workers, Send(w)
  PROVE  AllTruth'
<1>0. PICK c, m : c = task[w] /\ m = SentCopy(w)
  OBVIOUS
<1>1. pc[w] = "send" /\ c \in Comments
  BY <1>0 DEF Send, TypeOK, WorkerType
<1>2. RowTruth(c) /\ SlotTruth(w)
  BY <1>0, <1>1 DEF AllTruth
<1>3. CASE \E step \in {"searchAfter", "retryLimited", "fail", "failAuth"} : OnlyGoto(w, step)
  <2>1. PICK step \in {"searchAfter", "retryLimited", "fail", "failAuth"} : OnlyGoto(w, step)
    BY <1>0, <1>3
  <2>2. Goto(w, step) /\ UNCHANGED <<now, rows, copies, task, seen, run>> /\ pc'[w] = step
    BY <1>0, <2>1 DEF OnlyGoto, Goto, time, TypeOK, WorkerType
  <2>3. SlotTruth(w)'
    BY <1>0, <1>1, <1>2, <2>2 DEF SlotTruth, OutOfWindow, CopiesOf, Unsettled, Searched, BeforeSend,
                            Unfinished, rows
  <2> QED BY <1>0, <1>1, <2>2, <2>3, GoingOnKeepsTruth
<1>4. CASE ~\E step \in {"searchAfter", "retryLimited", "fail", "failAuth"} : OnlyGoto(w, step)
  <2>1. /\ copies' = copies \cup {m}
        /\ pc' = [pc EXCEPT ![w] = "settlePosted"] \/ pc' = [pc EXCEPT ![w] = "searchAfter"]
        /\ UNCHANGED <<now, rows, task, seen, run>>
    BY <1>0, <1>4 DEF Send, Goto, time
  <2>2. m.by = c /\ m.attempt = run[w].ordinal /\ m.at = now
    BY <1>0 DEF SentCopy
  <2>3. /\ attemptCount[c] \in Nat /\ startedAt[c] \in Nat /\ now \in Nat /\ seen[w] \in Snapshot
        /\ ReconcileWindow \in Nat /\ copies \subseteq Copy /\ run[w].ordinal \in Nat
    BY <1>0, <1>1, PublishAssumption DEF TypeOK, TimeType, RowsType, WorkerType, Attempt
  <2>4. pc'[w] \in {"settlePosted", "searchAfter"}
    BY <1>0, <2>1 DEF TypeOK, WorkerType
  <2>5. ActsOnItsOwn(w)
    BY <1>0, <1>1, <2>1, <2>2 DEF ActsOnItsOwn, SameRow, SameSlot, TypeOK, WorkerType, rows
  <2>6. /\ \A k \in CopiesOf(c) : k.at + ReconcileWindow < seen[w].startedAt
        /\ seen[w].startedAt <= startedAt[c]
        /\ run[w].ordinal = attemptCount[c]
        /\ \A k \in CopiesOf(c) : k.attempt + 1 = run[w].ordinal => seen[w].startedAt <= k.at
        /\ needsReconcile[c]
    BY <1>0, <1>1, <1>2 DEF SlotTruth, OutOfWindow, Searched, BeforeSend
  <2>7. CopiesOf(c)' = CopiesOf(c) \cup {m}
    BY <1>0, <2>1, <2>2 DEF CopiesOf
  <2>8. \A k \in CopiesOf(c) :
          /\ k.at + ReconcileWindow < now /\ k.attempt + 1 < run[w].ordinal
          /\ k.at \in Nat /\ k.attempt \in Nat
    BY <1>0, <1>2, <2>3, <2>6 DEF RowTruth, CopiesOf, Copy, Snapshot
  <2>9. RowTruth(c)'
    BY <1>0, <1>2, <2>1, <2>2, <2>3, <2>6, <2>7, <2>8 DEF RowTruth, Unsettled, rows
  <2>10. SlotTruth(w)'
    BY <1>0, <1>1, <1>2, <2>1, <2>4 DEF SlotTruth, Unsettled, Searched, BeforeSend, Unfinished, rows
  <2> QED
    BY <1>0, <1>1, <2>1, <2>5, <2>9, <2>10, OwnStepKeepsTruth
<1> QED BY <1>3, <1>4

\* A step of a slot that moves the status of its row and is done with it.
LEMMA SettlingKeepsTruth ==
  ASSUME TypeOK, TypeOK', JobExclusion, AllTruth, NEW w \in Workers, pc[w] # "idle",
         NEW step \in {"finish", "postpone", "release", "releaseAuth", "health"}, Goto(w, step),
         UNCHANGED <<now, attemptCount, startedAt, copies, task, seen, run>>,
         NEW c \in Comments, c = task[w], \A d \in Comments \ {c} : SameRow(d),
         Unsettled(c)' => \/ needsReconcile'[c]
                          \/ \A k \in CopiesOf(c) : k.at + ReconcileWindow < startedAt[c]
  PROVE  AllTruth'
<1>1. ActsOnItsOwn(w)
  BY DEF ActsOnItsOwn, SameSlot, Goto, TypeOK, WorkerType
<1>2. RowTruth(c)'
  BY DEF AllTruth, RowTruth, CopiesOf
<1>3. SlotTruth(w)'
  BY IdleSlotIsTrue DEF Goto, TypeOK, WorkerType, SlotTruth, Searched, BeforeSend, Unfinished
<1> QED
  BY <1>1, <1>2, <1>3, OwnStepKeepsTruth

LEMMA SettlePostedKeepsTruth ==
  ASSUME TypeOK, TypeOK', JobExclusion, AllTruth, NEW w \in Workers, SettlePosted(w)
  PROVE  AllTruth'
<1>1. pc[w] = "settlePosted" /\ SlotTruth(w)
  BY DEF SettlePosted, AllTruth
<1>2. PICK c \in Comments : c = task[w]
  BY <1>1 DEF TypeOK, WorkerType
<1>3. CASE Skip(w)
  BY <1>1, <1>3, SkipKeepsTruth
<1>4. CASE OnlyGoto(w, "echo")
  <2>1. pc'[w] = "echo" /\ UNCHANGED <<now, rows, copies, task, seen, run>> /\ Goto(w, "echo")
    BY <1>4 DEF OnlyGoto, Goto, TypeOK, WorkerType, time
  <2>2. SlotTruth(w)'
    BY <1>1, <2>1 DEF SlotTruth, Unsettled, Searched, BeforeSend, Unfinished, rows
  <2> QED
    BY <1>1, <2>1, <2>2, GoingOnKeepsTruth
<1>5. CASE ~Skip(w) /\ ~OnlyGoto(w, "echo")
  <2>1. /\ status' = [status EXCEPT ![c] = "posted"] /\ Goto(w, "finish")
        /\ needsReconcile' = [needsReconcile EXCEPT ![c] = FALSE]
        /\ UNCHANGED <<now, attemptCount, startedAt, copies, task, seen, run>>
    BY <1>2, <1>5 DEF SettlePosted, MarkPosted, time
  <2>2. ~Unsettled(c)' /\ \A d \in Comments \ {c} : SameRow(d)
    BY <2>1 DEF SameRow, Unsettled, TypeOK, RowsType
  <2> QED
    BY <1>1, <1>2, <2>1, <2>2, SettlingKeepsTruth
<1> QED BY <1>3, <1>4, <1>5

LEMMA ResolveWebhookEchoKeepsTruth ==
  ASSUME TypeOK, TypeOK', IdentityInv, JobExclusion, AllTruth, NEW w \in Workers,
         ResolveWebhookEcho(w)
  PROVE  AllTruth'
<1>1. pc[w] = "echo" /\ published[w] # NoCopy
  BY CopyAssumption DEF ResolveWebhookEcho, IdentityInv, PublishedIsOnPlatform, Settling, TypeOK
<1>2. PICK c \in Comments : c = task[w]
  BY <1>1 DEF TypeOK, WorkerType
<1>3. CASE Throw(w) /\ UNCHANGED <<now, rows, copies>>
  BY <1>1, <1>3, ThrowKeepsTruth
<1>4. CASE ~(Throw(w) /\ UNCHANGED <<now, rows, copies>>)
  <2>1. /\ status' = [d \in Comments |-> IF d = c THEN "posted"
                                         ELSE IF d \in Echoed(w) THEN "gone" ELSE status[d]]
        /\ needsReconcile' = [needsReconcile EXCEPT ![c] = FALSE] /\ Goto(w, "finish")
        /\ UNCHANGED <<now, attemptCount, startedAt, copies, task, seen, run>>
    BY <1>2, <1>4 DEF ResolveWebhookEcho, time
  <2>2. \A d \in Echoed(w) : status[d] = "posted"
    BY <1>1 DEF Echoed, IdentityInv, PostedIsOnPlatform
  <2>3. ~Unsettled(c)' /\ \A d \in Comments \ {c} : SameRow(d)
    BY <2>1, <2>2 DEF SameRow, Unsettled, TypeOK, RowsType
  <2> QED
    BY <1>1, <1>2, <2>1, <2>3, SettlingKeepsTruth
<1> QED BY <1>3, <1>4

LEMMA SettleRetryKeepsTruth ==
  ASSUME TypeOK, TypeOK', JobExclusion, AllTruth, NEW w \in Workers, SettleRetry(w)
  PROVE  AllTruth'
<1>1. pc[w] \in {"retryLimited", "retryUnknown"} /\ SlotTruth(w)
  BY DEF SettleRetry, AllTruth
<1>2. PICK c \in Comments : c = task[w]
  BY <1>1 DEF TypeOK, WorkerType
<1>3. CASE Skip(w)
  BY <1>1, <1>3, SkipKeepsTruth
<1>4. CASE ~Skip(w)
  <2>1. /\ status' = [status EXCEPT ![c] = "queued"] /\ Goto(w, "postpone")
        /\ needsReconcile' = [needsReconcile EXCEPT ![c] = (pc[w] = "retryUnknown")]
        /\ UNCHANGED <<now, attemptCount, startedAt, copies, task, seen, run>>
    BY <1>2, <1>4 DEF SettleRetry, time
  <2>2. \A d \in Comments \ {c} : SameRow(d)
    BY <2>1 DEF SameRow, TypeOK, RowsType
  <2>3. CASE pc[w] = "retryUnknown"
    BY <1>1, <1>2, <2>1, <2>2, <2>3, SettlingKeepsTruth DEF TypeOK, RowsType
  <2>4. CASE pc[w] = "retryLimited"
    <3>1. /\ startedAt[c] \in Nat /\ seen[w].startedAt \in Nat /\ ReconcileWindow \in Nat
          /\ \A k \in CopiesOf(c) : k.at \in Nat
      BY PublishAssumption DEF TypeOK, RowsType, WorkerType, Snapshot, CopiesOf, Copy
    <3>2. \A k \in CopiesOf(c) : k.at + ReconcileWindow < startedAt[c]
      BY <1>1, <1>2, <2>4, <3>1 DEF SlotTruth, Searched, BeforeSend, OutOfWindow
    <3> QED
      BY <1>1, <1>2, <2>1, <2>2, <3>2, SettlingKeepsTruth
  <2> QED BY <1>1, <2>3, <2>4
<1> QED BY <1>3, <1>4

LEMMA MarkFailedKeepsTruth ==
  ASSUME TypeOK, TypeOK', JobExclusion, AllTruth, NEW w \in Workers, pc[w] # "idle",
         NEW events, NEW next \in {"release", "releaseAuth"}, MarkFailed(w, events, next)
  PROVE  AllTruth'
<1>1. PICK c \in Comments : c = task[w]
  BY DEF TypeOK, WorkerType
<1>2. CASE Skip(w)
  BY <1>2, SkipKeepsTruth
<1>3. CASE ~Skip(w)
  <2>1. /\ status' = [status EXCEPT ![c] = "failed"] /\ Goto(w, next)
        /\ needsReconcile' = [needsReconcile EXCEPT ![c] = FALSE]
        /\ UNCHANGED <<now, attemptCount, startedAt, copies, task, seen, run>>
    BY <1>1, <1>3 DEF MarkFailed, time
  <2>2. ~Unsettled(c)' /\ \A d \in Comments \ {c} : SameRow(d)
    BY <2>1 DEF SameRow, Unsettled, TypeOK, RowsType
  <2> QED
    BY <1>1, <2>1, <2>2, SettlingKeepsTruth
<1> QED BY <1>2, <1>3

LEMMA AttemptKeepsTruth ==
  ASSUME TypeOK, TypeOK', IdentityInv, JobExclusion, AllTruth, NEW w \in Workers, AttemptStep(w)
  PROVE  AllTruth'
<1>1. CASE CheckParent(w) \/ LoadContext(w)
  <2>1. PICK step : /\ OnlyGoto(w, step)
                    /\ \/ step \in {"context", "fail", "failAuth"} /\ pc[w] \in {"parent", "context"}
                       \/ step = "searchFirst" /\ pc[w] = "context"
                       \/ step = "arm" /\ pc[w] = "context" /\ ~seen[w].needsReconcile
    BY <1>1 DEF CheckParent, LoadContext
  <2>2. pc'[w] = step /\ Goto(w, step) /\ UNCHANGED <<now, rows, copies, task, seen, run>>
    BY <2>1 DEF OnlyGoto, Goto, TypeOK, WorkerType, time
  <2>3. SlotTruth(w)
    BY DEF AllTruth
  <2>4. SlotTruth(w)'
    BY <2>1, <2>2, <2>3 DEF SlotTruth, OutOfWindow, CopiesOf, Unsettled, Searched, BeforeSend,
                            Unfinished, rows
  <2> QED
    BY <2>1, <2>2, <2>4, GoingOnKeepsTruth
<1>2. CASE SettleFailed(w) \/ SettleAuthFailed(w)
  BY <1>2, MarkFailedKeepsTruth DEF SettleFailed, SettleAuthFailed
<1>3. CASE ReleaseQuota(w) \/ MarkAuthFailed(w)
  <2>1. PICK step \in {"finish", "health"} :
          /\ Goto(w, step) /\ UNCHANGED <<now, rows, copies, task, seen, run>> /\ pc[w] # "idle"
    BY <1>3 DEF ReleaseQuota, MarkAuthFailed, time
  <2>2. SlotTruth(w)'
    BY <2>1 DEF Goto, TypeOK, WorkerType, SlotTruth, Searched, BeforeSend, Unfinished
  <2> QED
    BY <2>1, <2>2, GoingOnKeepsTruth
<1>4. CASE ApplyOutcome(w)
  BY <1>4, EndingKeepsTruth DEF ApplyOutcome, Return, time
<1> QED
  BY <1>1, <1>2, <1>3, <1>4, ReadTargetKeepsTruth, MarkProcessingKeepsTruth, SearchKeepsTruth,
     SetReconcileGuardKeepsTruth, SendKeepsTruth, SettlePostedKeepsTruth,
     ResolveWebhookEchoKeepsTruth, SettleRetryKeepsTruth
  DEF AttemptStep

\* A step that no slot takes, and that keeps the rows and the slots the same.
LEMMA AsideKeepsTruth ==
  ASSUME TypeOK, TypeOK', AllTruth, UNCHANGED <<rows, worker, copies>>, now' >= now
  PROVE  AllTruth'
<1>1. \A d \in Comments : SameRow(d)
  BY DEF SameRow, rows
<1>2. \A v \in Workers : SameSlot(v) /\ (pc[v] # "idle" => task[v] \in Comments)
  BY DEF SameSlot, worker, TypeOK, WorkerType
<1> QED
  BY <1>1, <1>2, SameRowKeepsTruth, SameSlotKeepsTruth DEF AllTruth

LEMMA AcceptKeepsTruth ==
  ASSUME TypeOK, TypeOK', JobExclusion, NothingFromNowhere, AllTruth, NEW c \in Comments, Accept(c)
  PROVE  AllTruth'
<1>1. /\ status[c] = "absent" /\ status' = [status EXCEPT ![c] = "queued"]
      /\ startedAt' = [startedAt EXCEPT ![c] = now]
      /\ UNCHANGED <<now, attemptCount, needsReconcile, worker, copies>>
  BY DEF Accept, time
<1>2. CopiesOf(c)' = {}
  BY <1>1 DEF NothingFromNowhere, CopiesOf
<1>3. \A d \in Comments \ {c} : SameRow(d)
  BY <1>1 DEF SameRow, TypeOK, RowsType
<1>4. RowTruth(c)'
  BY <1>1, <1>2 DEF RowTruth, TypeOK, TimeType, RowsType
<1>5. \A v \in Workers : SameSlot(v) /\ (pc[v] # "idle" => SameRow(task[v]))
  BY <1>1, <1>3, SlotHasAcceptedReply DEF SameSlot, worker
<1>6. now' >= now
  BY <1>1 DEF TypeOK, TimeType
<1> QED
  BY <1>3, <1>4, <1>5, <1>6, SameRowKeepsTruth, SameSlotKeepsTruth DEF AllTruth

LEMMA RecoverKeepsTruth ==
  ASSUME TypeOK, TypeOK', AllTruth, NEW c \in Comments, RecoverStuckProcessingRow(c)
  PROVE  AllTruth'
<1>0. now' >= now
  BY DEF RecoverStuckProcessingRow, time, TypeOK, TimeType
<1>1. CASE status[c] # "processing"
  BY <1>0, <1>1, AsideKeepsTruth DEF RecoverStuckProcessingRow, rows
<1>2. CASE status[c] = "processing"
  <2>1. /\ status' = [status EXCEPT ![c] = "queued"]
        /\ needsReconcile' = [needsReconcile EXCEPT ![c] = TRUE]
        /\ UNCHANGED <<now, attemptCount, startedAt, worker, copies>>
    BY <1>2 DEF RecoverStuckProcessingRow, time
  <2>2. status'[c] = "queued" /\ needsReconcile'[c]
    BY <2>1 DEF TypeOK, RowsType
  <2>3. \A d \in Comments \ {c} : SameRow(d)
    BY <2>1 DEF SameRow, TypeOK, RowsType
  <2>4. RowTruth(c)'
    BY <2>1, <2>2 DEF AllTruth, RowTruth, CopiesOf
  <2>5. ASSUME NEW v \in Workers PROVE SlotTruth(v)'
    <3>1. SlotTruth(v) /\ SameSlot(v)
      BY <2>1 DEF AllTruth, SameSlot, worker
    <3>2. CASE pc[v] # "idle" => SameRow(task[v])
      BY <3>1, <3>2, SameSlotKeepsTruth
    <3>3. CASE pc[v] # "idle" /\ task[v] = c
      <4>1. SlotTruth(v) => SlotTruth(v)'
        BY <1>2, <2>1, <2>2, <3>3 DEF worker, SlotTruth, OutOfWindow, CopiesOf, Unsettled
      <4> QED BY <3>1, <4>1
    <3> QED BY <2>3, <3>2, <3>3 DEF TypeOK, WorkerType
  <2>6. \A d \in Comments \ {c} : RowTruth(d)'
    BY <1>0, <2>3, SameRowKeepsTruth DEF AllTruth
  <2> QED
    BY <2>4, <2>5, <2>6 DEF AllTruth
<1> QED BY <1>1, <1>2

LEMMA NextKeepsTruth ==
  ASSUME TypeOK, TypeOK', IdentityInv, JobExclusion, NothingFromNowhere, AllTruth, [Next]_vars
  PROVE  AllTruth'
<1>1. ASSUME NEW w \in Workers, WorkerStep(w) PROVE AllTruth'
  <2>1. ASSUME NEW c \in Comments, TakeJob(w, c) PROVE AllTruth'
    <3>1. \A d \in Comments : SameRow(d)
      BY <2>1 DEF TakeJob, SameRow, rows
    <3>2. \A v \in Workers \ {w} : SameSlot(v) /\ (pc[v] # "idle" => task[v] \in Comments)
      BY <2>1 DEF TakeJob, Goto, SameSlot, TypeOK, WorkerType
    <3>3. SlotTruth(w)'
      BY <2>1 DEF TakeJob, Goto, TypeOK, WorkerType, SlotTruth, Searched, BeforeSend, Unfinished
    <3>4. now' >= now
      BY <2>1 DEF TakeJob, time, TypeOK, TimeType
    <3> QED
      BY <3>1, <3>2, <3>3, <3>4, SameRowKeepsTruth, SameSlotKeepsTruth DEF AllTruth
  <2>2. CASE DelayJob(w) \/ Crash(w)
    BY <2>2, EndingKeepsTruth DEF DelayJob, Crash, Fault, Return, time
  <2>3. CASE SearchThrows(w) \/ ProcessorError(w)
    BY <2>3, ThrowKeepsTruth DEF SearchThrows, ProcessorError, Fault
  <2>4. CASE AttemptStep(w)
    BY <2>4, AttemptKeepsTruth
  <2> QED
    BY <1>1, <2>1, <2>2, <2>3, <2>4 DEF WorkerStep
<1>2. ASSUME NEW c \in Comments, CommentStep(c) PROVE AllTruth'
  <2>1. CASE Enqueue(c) \/ EnqueueLost(c) \/ Promote(c) \/ Stalled(c) \/ ReenqueueStuckJob(c)
    <3>1. UNCHANGED <<rows, worker, copies>> /\ now' >= now
      BY <2>1 DEF Enqueue, EnqueueLost, Promote, Stalled, ReenqueueStuckJob, Fault, time, TypeOK,
                  TimeType
    <3> QED BY <3>1, AsideKeepsTruth
  <2> QED
    BY <1>2, <2>1, AcceptKeepsTruth, RecoverKeepsTruth DEF CommentStep
<1>3. CASE OtherStep \/ Tick \/ UNCHANGED vars
  <2>1. UNCHANGED <<rows, worker, copies>> /\ now' >= now
    BY <1>3 DEF OtherStep, SweepSelect, SweeperCrash, RedisLost, Fault, Ingest, Relay, DeleteParent,
                ClearAuthFailed, Tick, vars, time, TypeOK, TimeType
  <2> QED BY <2>1, AsideKeepsTruth
<1> QED
  BY <1>1, <1>2, <1>3 DEF Next

(***************************************************************************)
(* The theorems.                                                           *)
(***************************************************************************)

GuardInv == TypeOK /\ IdentityInv /\ JobExclusion /\ NothingFromNowhere /\ AllTruth

LEMMA GuardInit == Init => GuardInv
<1> SUFFICES ASSUME Init PROVE GuardInv
  OBVIOUS
<1>1. TypeOK /\ IdentityInv BY TypeInit, IdentityInit
<1>2. JobExclusion BY DEF Init, JobExclusion
<1>3. NothingFromNowhere BY DEF Init, NothingFromNowhere
<1>4. \A c \in Comments : RowTruth(c) BY DEF Init, RowTruth, CopiesOf, Unsettled
<1>5. \A w \in Workers : SlotTruth(w)
  BY DEF Init, SlotTruth, Searched, BeforeSend, Unfinished
<1> QED BY <1>1, <1>2, <1>3, <1>4, <1>5 DEF GuardInv, AllTruth

LEMMA GuardNext == ExclusiveJobs /\ GuardInv /\ [Next]_vars => GuardInv'
  BY TypeNext, IdentityNext, NextKeepsExclusion, NextKeepsNothing, NextKeepsTruth DEF GuardInv

LEMMA GuardCorrect == ExclusiveJobs => (Spec => []GuardInv)
<1> SUFFICES ASSUME ExclusiveJobs PROVE Spec => []GuardInv
  OBVIOUS
<1>1. GuardInv /\ [Next]_vars => GuardInv'
  BY GuardNext
<1> QED
  BY <1>1, GuardInit, PTL DEF Spec

\* While a reply is unsettled, each copy of it is announced by its guard or out of reach of
\* every later search: there is no send the row does not know of.
THEOREM SendLeavesEvidenceHolds == ExclusiveJobs => (Spec => []SendLeavesEvidence)
<1> SUFFICES ASSUME ExclusiveJobs PROVE Spec => []SendLeavesEvidence
  OBVIOUS
<1>1. GuardInv => SendLeavesEvidence
  BY DEF GuardInv, AllTruth, RowTruth, CopiesOf, SendLeavesEvidence, TypeOK, Copy
<1> QED
  BY <1>1, GuardCorrect, PTL

\* No second copy is sent within the reconciliation window of the first, nor by the attempt
\* right after it: publishing twice takes a third attempt in between, and more time than that.
THEOREM CopiesSpacedHolds == ExclusiveJobs => (Spec => []CopiesSpaced)
<1> SUFFICES ASSUME ExclusiveJobs PROVE Spec => []CopiesSpaced
  OBVIOUS
<1>1. GuardInv => CopiesSpaced
  BY DEF GuardInv, AllTruth, RowTruth, CopiesOf, CopiesSpaced, TypeOK, Copy
<1> QED
  BY <1>1, GuardCorrect, PTL

(***************************************************************************)
(* The publish path implements the lifecycle, provided the search can tell *)
(* the replies apart.                                                      *)
(***************************************************************************)

DistinguishableReplies == \A c, d \in Comments : TextOf[c] = TextOf[d] => c = d

LEMMA AllowedMoves ==
  /\ Lifecycle!CanTransition("queued", "processing")
  /\ Lifecycle!CanTransition("processing", "posted")
  /\ Lifecycle!CanTransition("processing", "queued")
  /\ Lifecycle!CanTransition("processing", "failed")
  BY DEF Lifecycle!CanTransition, Lifecycle!CommentStatuses, Lifecycle!AllowedTransitions

LEMMA MoveRefines ==
  ASSUME NEW c \in Comments, NEW to \in {"queued", "processing", "posted", "failed"},
         Lifecycle!CanTransition(status[c], to),
         to = "posted" => c \in {k.by : k \in copies},
         status' = [status EXCEPT ![c] = to], copies' = copies
  PROVE  Lifecycle!Next
<1>1. Lifecycle!Move(c, to)
  BY DEF Lifecycle!Move
<1> QED
  BY <1>1 DEF Lifecycle!Next, Lifecycle!CommentStatuses

LEMMA StutterRefines ==
  ASSUME UNCHANGED <<status, copies>>
  PROVE  UNCHANGED Lifecycle!lifecycle
  BY DEF Lifecycle!lifecycle

LEMMA SettlePostedRefines ==
  ASSUME DistinguishableReplies, GuardInv, NEW w \in Workers,
         SettlePosted(w) \/ ResolveWebhookEcho(w)
  PROVE  [Lifecycle!Next]_(Lifecycle!lifecycle)
<1>1. PICK c \in Comments : c = task[w]
  BY DEF SettlePosted, ResolveWebhookEcho, GuardInv, TypeOK, WorkerType
<1>2. published[w] \in copies /\ published[w].by = c /\ published[w] # NoCopy
  BY <1>1, CopyAssumption DEF SettlePosted, ResolveWebhookEcho, GuardInv, IdentityInv, TypeOK,
     PublishedIsOnPlatform, Settling, DistinguishableReplies, Copy
<1>3. CASE UNCHANGED <<status, copies>>
  BY <1>3, StutterRefines
<1>4. CASE ~UNCHANGED <<status, copies>>
  <2>1. status[c] = "processing" /\ copies' = copies
    BY <1>1, <1>4 DEF SettlePosted, ResolveWebhookEcho, Skip, OnlyGoto, rows
  <2>2. Echoed(w) = {}
    BY <1>2, <2>1 DEF Echoed, GuardInv, IdentityInv, PostedIsOnPlatform, DistinguishableReplies,
                      TypeOK, Copy
  <2>3. status' = [status EXCEPT ![c] = "posted"]
    BY <1>1, <1>4, <2>1, <2>2 DEF SettlePosted, ResolveWebhookEcho, MarkPosted, Skip, OnlyGoto, rows,
       GuardInv, TypeOK, RowsType
  <2> QED
    BY <1>2, <2>1, <2>3, AllowedMoves, MoveRefines
<1> QED BY <1>3, <1>4

LEMMA AttemptRefines ==
  ASSUME DistinguishableReplies, GuardInv, NEW w \in Workers, AttemptStep(w)
  PROVE  [Lifecycle!Next]_(Lifecycle!lifecycle)
<1>1. PICK c : c = task[w]
  OBVIOUS
<1>2. CASE SettlePosted(w) \/ ResolveWebhookEcho(w)
  BY <1>2, SettlePostedRefines
<1>3. CASE MarkProcessing(w) \/ SettleRetry(w) \/ SettleFailed(w) \/ SettleAuthFailed(w)
  <2>1. c \in Comments
    BY <1>1, <1>3 DEF MarkProcessing, SettleRetry, SettleFailed, SettleAuthFailed, GuardInv, TypeOK,
                      WorkerType
  <2>2. \/ UNCHANGED <<status, copies>>
        \/ /\ copies' = copies
           /\ \/ status[c] = "queued" /\ status' = [status EXCEPT ![c] = "processing"]
              \/ status[c] = "processing" /\ status' = [status EXCEPT ![c] = "queued"]
              \/ status[c] = "processing" /\ status' = [status EXCEPT ![c] = "failed"]
    BY <1>1, <1>3 DEF MarkProcessing, SettleRetry, SettleFailed, SettleAuthFailed, MarkFailed, Skip,
                      rows
  <2> QED
    BY <2>1, <2>2, AllowedMoves, MoveRefines, StutterRefines
<1>4. CASE Send(w)
  <2>1. c \in Comments /\ status[c] \in {"queued", "processing"}
    BY <1>1, <1>4 DEF Send, GuardInv, TypeOK, WorkerType, AllTruth, SlotTruth, Unfinished, BeforeSend,
                      Unsettled
  <2>2. status' = status /\ (copies' = copies \/ copies' = copies \cup {SentCopy(w)})
    BY <1>4 DEF Send, OnlyGoto, rows
  <2>3. SentCopy(w).by = c
    BY <1>1 DEF SentCopy
  <2>4. CASE copies' = copies \cup {SentCopy(w)}
    <3>1. {k.by : k \in copies'} = {k.by : k \in copies} \cup {c}
      BY <2>3, <2>4
    <3>2. Lifecycle!Send(c)
      BY <2>1, <2>2, <3>1 DEF Lifecycle!Send
    <3> QED
      BY <2>1, <3>2 DEF Lifecycle!Next
  <2> QED
    BY <2>2, <2>4, StutterRefines
<1>5. CASE \/ ReadTarget(w) \/ CheckParent(w) \/ LoadContext(w) \/ SearchBeforeSending(w)
           \/ SearchAfterSending(w) \/ ClearReconcileGuard(w) \/ MarkSendAttempted(w)
           \/ ReleaseQuota(w) \/ MarkAuthFailed(w) \/ ApplyOutcome(w)
  <2>1. UNCHANGED <<status, copies>>
    BY <1>5 DEF ReadTarget, CheckParent, LoadContext, SearchBeforeSending, SearchAfterSending, Search,
       ClearReconcileGuard, MarkSendAttempted, SetReconcileGuard, ReleaseQuota, MarkAuthFailed,
       ApplyOutcome, OnlyGoto, Skip, rows
  <2> QED
    BY <2>1, StutterRefines
<1> QED
  BY <1>2, <1>3, <1>4, <1>5 DEF AttemptStep

LEMMA NextRefines ==
  ASSUME DistinguishableReplies, GuardInv, [Next]_vars
  PROVE  [Lifecycle!Next]_(Lifecycle!lifecycle)
<1>1. ASSUME NEW w \in Workers, AttemptStep(w) PROVE [Lifecycle!Next]_(Lifecycle!lifecycle)
  BY <1>1, AttemptRefines
<1>2. ASSUME NEW c \in Comments, Accept(c) PROVE Lifecycle!Next
  <2>1. Lifecycle!Accept(c)
    BY <1>2 DEF Accept, Lifecycle!Accept
  <2> QED
    BY <2>1 DEF Lifecycle!Next
<1>3. ASSUME NEW c \in Comments, RecoverStuckProcessingRow(c)
      PROVE  [Lifecycle!Next]_(Lifecycle!lifecycle)
  <2>1. \/ UNCHANGED <<status, copies>>
        \/ /\ status[c] = "processing" /\ status' = [status EXCEPT ![c] = "queued"]
           /\ copies' = copies
    BY <1>3 DEF RecoverStuckProcessingRow
  <2> QED
    BY <2>1, AllowedMoves, MoveRefines, StutterRefines
<1>4. CASE /\ \A w \in Workers : ~AttemptStep(w)
           /\ \A c \in Comments : ~Accept(c) /\ ~RecoverStuckProcessingRow(c)
  <2>1. UNCHANGED <<status, copies>>
    BY <1>4 DEF Next, WorkerStep, TakeJob, DelayJob, SearchThrows, ProcessorError, Crash, CommentStep,
       Enqueue, EnqueueLost, Promote, Stalled, ReenqueueStuckJob, OtherStep, SweepSelect,
       SweeperCrash, RedisLost, Ingest, Relay, DeleteParent, ClearAuthFailed, Tick, vars, rows
  <2> QED
    BY <2>1, StutterRefines
<1> QED
  BY <1>1, <1>2, <1>3, <1>4

LEMMA InitRefines == Init => Lifecycle!Init
  BY DEF Init, Lifecycle!Init

\* Every behaviour of the publish path, crashes and retries included, moves each reply along
\* the table of domain/status.ts, posts only what the platform has, and sends nothing for a
\* reply that is settled.
THEOREM LifecycleImplemented ==
  ExclusiveJobs /\ DistinguishableReplies => (Spec => ImplementsLifecycle)
<1> SUFFICES ASSUME ExclusiveJobs, DistinguishableReplies PROVE Spec => Lifecycle!Spec
  BY DEF ImplementsLifecycle
<1>1. GuardInv /\ [Next]_vars => [Lifecycle!Next]_(Lifecycle!lifecycle)
  BY NextRefines
<1> QED
  BY <1>1, InitRefines, GuardCorrect, PTL DEF Spec, Lifecycle!Spec

===============================================================================
