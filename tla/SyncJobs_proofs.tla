---------------------------- MODULE SyncJobs_proofs ----------------------------
(***************************************************************************)
(* What holds of synchronisation for every number of targets, jobs,        *)
(* workers, requests and faults, whatever the intervals and thresholds.    *)
(***************************************************************************)
EXTENDS SyncJobs, TLAPS

\* A slot that walks has claimed its row, and no row is queued a second time.
WalksHaveBegun == \A w \in Workers : Walking(w) => jobStatus[wjob[w]] \notin {"absent", "queued"}

WalksApart == \A v, w \in Workers : v # w /\ Walking(v) /\ Walking(w) => wjob[v] # wjob[w]

\* The index of active jobs.
OneActiveJob ==
  \A j, k \in Jobs : Active(j) /\ Active(k) /\ jobTarget[j] = jobTarget[k] => j = k

SyncInv == TypeOK /\ WalksHaveBegun /\ WalksApart /\ OneActiveJob

(***************************************************************************)
(* Types.                                                                  *)
(***************************************************************************)

\* A part whose variables a step leaves alone keeps its type.
LEMMA KeptTypes ==
  /\ RowsTyped /\ UNCHANGED jobs => RowsTyped'
  /\ QueueTyped /\ UNCHANGED queue => QueueTyped'
  /\ ScheduleTyped /\ UNCHANGED <<faults, targets, scheduler>> => ScheduleTyped'
  /\ RequestsTyped /\ UNCHANGED requests => RequestsTyped'
  /\ WorkersTyped /\ UNCHANGED workers => WorkersTyped'
  BY DEF RowsTyped, QueueTyped, ScheduleTyped, RequestsTyped, WorkersTyped,
         jobs, queue, targets, scheduler, pass, requests, workers

LEMMA FaultTyped ==
  ASSUME ScheduleTyped, NEW kind, Fault(kind), UNCHANGED <<targets, scheduler>>
  PROVE  ScheduleTyped'
  BY DEF ScheduleTyped, Fault, targets, scheduler, pass

LEMMA InsertTyped ==
  ASSUME RowsTyped, QueueTyped, NEW S \in SUBSET Jobs, NEW targetOf \in [S -> Targets],
         InsertJobs(S, targetOf)
  PROVE  RowsTyped' /\ QueueTyped'
<1>1. RowsTyped'
  BY DEF InsertJobs, RowsTyped, JobStatuses
<1>2. QueueTyped'
  BY DEF InsertJobs, QueueTyped, BullStates
<1> QED BY <1>1, <1>2

LEMMA AddTyped ==
  ASSUME QueueTyped, NEW S, AddToQueue(S), UNCHANGED lock
  PROVE  QueueTyped'
  BY DEF AddToQueue, QueueTyped, BullStates

LEMMA AnswerTyped ==
  ASSUME RequestsTyped, NEW r \in Requests, Answer(r)
  PROVE  RequestsTyped'
  BY DEF Answer, Proceed, RequestsTyped, RequestSteps

LEMMA ReturnTyped ==
  ASSUME QueueTyped, WorkersTyped, NEW w \in Workers, NEW state \in BullStates, Return(w, state)
  PROVE  QueueTyped' /\ WorkersTyped'
<1>1. QueueTyped'
  BY DEF Return, LeaveJob, QueueTyped
<1>2. WorkersTyped'
  BY DEF Return, Forget, WorkersTyped, WorkerSteps
<1> QED BY <1>1, <1>2

LEMMA TypeInit == Init => TypeOK
<1> SUFFICES ASSUME Init PROVE TypeOK
  OBVIOUS
<1>1. ScheduleTyped BY SyncAssumption DEF Init, ScheduleTyped, SyncAssumption
<1>2. RowsTyped BY DEF Init, RowsTyped, JobStatuses
<1>3. QueueTyped BY DEF Init, QueueTyped, BullStates
<1>4. RequestsTyped BY DEF Init, RequestsTyped, RequestSteps
<1>5. WorkersTyped BY DEF Init, WorkersTyped, WorkerSteps
<1> QED BY <1>1, <1>2, <1>3, <1>4, <1>5 DEF TypeOK

\* The scheduler's and the clock's steps.
LEMMA TypeSchedule ==
  ASSUME TypeOK,
         \/ SchedulerStep \/ Tick \/ RedisLost \/ WorkerRestarts
         \/ \E j \in Jobs : Promote(j) \/ Stalled(j)
  PROVE  TypeOK'
<1> USE DEF TypeOK
<1>1. CASE LeaseDueTargets
  <2>1. PICK S \in SUBSET FreshJobs :
          \E targetOf \in Bijection(S, {t \in DueTargets : ActiveJobs(t) = {}}) :
            InsertJobs(S, targetOf) /\ toAdd' = S
    BY <1>1 DEF LeaseDueTargets
  <2>2. S \in SUBSET Jobs
    BY DEF FreshJobs
  <2>3. PICK targetOf \in [S -> Targets] : InsertJobs(S, targetOf) /\ toAdd' = S
    BY <2>1 DEF Bijection, Injection, Surjection, DueTargets
  <2>4. RowsTyped' /\ QueueTyped'
    BY <2>2, <2>3, InsertTyped
  <2>5. ScheduleTyped'
    BY <1>1, <2>2, <2>3, SyncAssumption DEF LeaseDueTargets, ScheduleTyped, SyncAssumption
  <2> QED
    BY <1>1, <2>4, <2>5, KeptTypes DEF LeaseDueTargets
<1>2. CASE AddScheduledJobs
  BY <1>2, AddTyped, KeptTypes DEF AddScheduledJobs, ScheduleTyped, targets
<1>3. CASE FindStuckSyncJobs
  BY <1>3, KeptTypes DEF FindStuckSyncJobs, ScheduleTyped, targets, StuckQueued, StuckRunning
<1>4. ASSUME NEW j \in Jobs, ReenqueueStuckJob(j) PROVE TypeOK'
  <2>1. QueueTyped'
    BY <1>4 DEF ReenqueueStuckJob, QueueTyped, BullStates
  <2> QED
    BY <1>4, <2>1, KeptTypes DEF ReenqueueStuckJob, ScheduleTyped, targets
<1>5. ASSUME NEW j \in Jobs, FailAbandonedSyncJob(j) PROVE TypeOK'
  <2>1. RowsTyped'
    BY <1>5 DEF FailAbandonedSyncJob, RowsTyped, JobStatuses
  <2> QED
    BY <1>5, <2>1, KeptTypes DEF FailAbandonedSyncJob, ScheduleTyped, targets
<1>6. CASE SchedulerCrash
  BY <1>6, KeptTypes DEF SchedulerCrash, PassLost, Fault, ScheduleTyped, targets
<1>7. CASE Tick
  <2>1. ScheduleTyped'
    <3>1. \A n \in Nat \cup {Never} : Less(n) \in Nat \cup {Never}
      BY DEF Less
    <3>2. \A n \in Nat : Less(n) \in Nat
      BY SyncAssumption DEF Less, SyncAssumption
    <3> QED BY <1>7, <3>1, <3>2 DEF Tick, ScheduleTyped, scheduler, pass
  <2>2. RowsTyped'
    BY <1>7 DEF Tick, RowsTyped
  <2>3. RequestsTyped'
    <3>1. \A n \in Nat : Less(n) \in Nat
      BY SyncAssumption DEF Less, SyncAssumption
    <3> QED BY <1>7, <3>1 DEF Tick, RequestsTyped
  <2> QED BY <1>7, <2>1, <2>2, <2>3, KeptTypes DEF Tick
<1>8. CASE RedisLost
  <2>1. QueueTyped'
    BY <1>8 DEF RedisLost, QueueTyped, BullStates
  <2>2. ScheduleTyped'
    <3>1. faults' = faults + 1 /\ UNCHANGED <<targets, pass>>
      BY <1>8 DEF RedisLost, Fault
    <3>2. scheduled' \in BOOLEAN
      BY <1>8 DEF RedisLost
    <3> QED BY <3>1, <3>2 DEF ScheduleTyped, targets, pass
  <2> QED BY <1>8, <2>1, <2>2, KeptTypes DEF RedisLost
<1>9. ASSUME NEW j \in Jobs, Promote(j) PROVE TypeOK'
  <2>1. QueueTyped'
    BY <1>9 DEF Promote, QueueTyped, BullStates
  <2> QED BY <1>9, <2>1, KeptTypes DEF Promote
<1>10. ASSUME NEW j \in Jobs, Stalled(j) PROVE TypeOK'
  <2>1. QueueTyped'
    BY <1>10 DEF Stalled, QueueTyped, BullStates
  <2>2. ScheduleTyped'
    BY <1>10, FaultTyped, KeptTypes DEF Stalled
  <2> QED BY <1>10, <2>1, <2>2, KeptTypes DEF Stalled
<1>11. CASE WorkerRestarts
  <2>1. WorkersTyped'
    BY <1>11 DEF WorkerRestarts, WorkersTyped, WorkerSteps
  <2>2. ScheduleTyped'
    BY <1>11 DEF WorkerRestarts, PassLost, ScheduleTyped, targets, pass
  <2> QED BY <1>11, <2>1, <2>2, KeptTypes DEF WorkerRestarts
<1> QED
  BY <1>1, <1>2, <1>3, <1>4, <1>5, <1>6, <1>7, <1>8, <1>9, <1>10, <1>11 DEF SchedulerStep

LEMMA TypeRequest ==
  ASSUME TypeOK, NEW r \in Requests, RequestStep(r)
  PROVE  TypeOK'
<1> USE DEF TypeOK
<1>1. ASSUME NEW t \in Targets, ResolveTarget(r, t) PROVE TypeOK'
  <2>1. RequestsTyped'
    BY <1>1 DEF ResolveTarget, Proceed, RequestsTyped, RequestSteps, ScheduleTyped
  <2> QED BY <1>1, <2>1, KeptTypes DEF ResolveTarget
<1>2. CASE FindActiveJob(r)
  <2>1. RequestsTyped'
    BY <1>2, AnswerTyped DEF FindActiveJob, At, Proceed, RequestsTyped, RequestSteps
  <2> QED BY <1>2, <2>1, KeptTypes DEF FindActiveJob
<1>3. CASE InsertManualJob(r)
  <2>1. CASE \E j \in FreshJobs :
               /\ InsertJobs({j}, [k \in {j} |-> rtarget[r]])
               /\ rjob' = [rjob EXCEPT ![r] = j]
               /\ Proceed(r, "setCooldown")
    <3>1. PICK j \in FreshJobs :
            /\ InsertJobs({j}, [k \in {j} |-> rtarget[r]])
            /\ rjob' = [rjob EXCEPT ![r] = j]
            /\ Proceed(r, "setCooldown")
      BY <2>1
    <3>2. j \in Jobs /\ rtarget[r] \in Targets
      BY <1>3 DEF FreshJobs, InsertManualJob, At, RequestsTyped
    <3>3. RowsTyped' /\ QueueTyped'
      BY <3>1, <3>2, InsertTyped
    <3>4. RequestsTyped'
      BY <1>3, <3>1, <3>2 DEF InsertManualJob, At, Proceed, RequestsTyped, RequestSteps
    <3> QED BY <1>3, <3>3, <3>4, KeptTypes DEF InsertManualJob
  <2>2. CASE Proceed(r, "readBack") /\ UNCHANGED <<jobs, queue, rjob>>
    <3>1. RequestsTyped'
      BY <1>3, <2>2 DEF InsertManualJob, At, Proceed, RequestsTyped, RequestSteps
    <3> QED BY <1>3, <2>2, <3>1, KeptTypes DEF InsertManualJob
  <2> QED BY <1>3, <2>1, <2>2 DEF InsertManualJob
<1>4. CASE SetManualCooldown(r)
  <2>1. RequestsTyped'
    BY <1>4 DEF SetManualCooldown, At, Proceed, RequestsTyped, RequestSteps
  <2>2. ScheduleTyped'
    BY <1>4, SyncAssumption DEF SetManualCooldown, ScheduleTyped, SyncAssumption, scheduler, pass
  <2> QED BY <1>4, <2>1, <2>2, KeptTypes DEF SetManualCooldown
<1>5. CASE ReadBackActiveJob(r)
  <2>1. RequestsTyped'
    BY <1>5 DEF ReadBackActiveJob, ActiveJobs, At, Proceed, RequestsTyped, RequestSteps
  <2> QED BY <1>5, <2>1, KeptTypes DEF ReadBackActiveJob
<1>6. CASE AddManualJob(r)
  BY <1>6, AddTyped, AnswerTyped, KeptTypes DEF AddManualJob
<1>7. CASE AnswerError(r)
  BY <1>7, AnswerTyped, KeptTypes DEF AnswerError
<1>8. CASE RequestLost(r)
  BY <1>8, AnswerTyped, FaultTyped, KeptTypes DEF RequestLost
<1> QED
  BY <1>1, <1>2, <1>3, <1>4, <1>5, <1>6, <1>7, <1>8 DEF RequestStep

LEMMA TypeWorker ==
  ASSUME TypeOK, WalksHaveBegun, NEW w \in Workers, WorkerStep(w)
  PROVE  TypeOK'
<1> USE DEF TypeOK
<1> BullStates = {"none", "waiting", "active", "delayed", "done"}
  BY DEF BullStates
<1>1. ASSUME NEW j \in Jobs, TakeJob(w, j) PROVE TypeOK'
  <2>1. QueueTyped'
    BY <1>1 DEF TakeJob, QueueTyped
  <2>2. WorkersTyped'
    BY <1>1 DEF TakeJob, WorkersTyped, WorkerSteps
  <2> QED BY <1>1, <2>1, <2>2, KeptTypes DEF TakeJob
<1>2. CASE DelaySyncJob(w)
  BY <1>2, ReturnTyped, KeptTypes DEF DelaySyncJob
<1>3. CASE MarkJobRunning(w)
  <2>1. CASE jobStatus[wjob[w]] = "queued"
    <3>1. RowsTyped'
      BY <1>3, <2>1 DEF MarkJobRunning, RowsTyped, JobStatuses
    <3>2. WorkersTyped'
      BY <1>3, <2>1 DEF MarkJobRunning, WorkersTyped, WorkerSteps
    <3> QED BY <1>3, <2>1, <3>1, <3>2, KeptTypes DEF MarkJobRunning
  <2>2. CASE jobStatus[wjob[w]] # "queued"
    BY <1>3, <2>2, ReturnTyped, KeptTypes DEF MarkJobRunning
  <2> QED BY <2>1, <2>2
<1>4. CASE WalkTarget(w)
  <2>1. WorkersTyped'
    BY <1>4 DEF WalkTarget, EndWalk, WorkersTyped, WorkerSteps
  <2>2. ScheduleTyped'
    BY <1>4, SyncAssumption DEF WalkTarget, ScheduleTyped, SyncAssumption, scheduler, pass
  <2> QED BY <1>4, <2>1, <2>2, KeptTypes DEF WalkTarget
<1>5. CASE FinalizeJob(w)
  <2>1. wjob[w] \in Jobs /\ verdict[w] \in {"succeeded", "failed"}
    BY <1>5 DEF FinalizeJob, WorkersTyped
  <2>2. RowsTyped'
    <3>1. jobStatus[wjob[w]] # "absent"
      BY <1>5 DEF FinalizeJob, WalksHaveBegun, Walking
    <3> QED BY <1>5, <2>1, <3>1 DEF FinalizeJob, RowsTyped, JobStatuses
  <2> QED BY <1>5, <2>2, ReturnTyped, KeptTypes DEF FinalizeJob
<1>6. CASE ProcessorError(w)
  BY <1>6, ReturnTyped, FaultTyped, KeptTypes DEF ProcessorError
<1>7. CASE WorkerCrash(w)
  <2>1. WorkersTyped'
    BY <1>7 DEF WorkerCrash, Forget, WorkersTyped, WorkerSteps
  <2> QED BY <1>7, <2>1, FaultTyped, KeptTypes DEF WorkerCrash
<1> QED
  BY <1>1, <1>2, <1>3, <1>4, <1>5, <1>6, <1>7 DEF WorkerStep

LEMMA TypeStep ==
  ASSUME TypeOK, WalksHaveBegun, [Next]_vars
  PROVE  TypeOK'
<1>1. CASE \/ SchedulerStep \/ Tick \/ RedisLost \/ WorkerRestarts
           \/ \E j \in Jobs : Promote(j) \/ Stalled(j)
  BY <1>1, TypeSchedule
<1>2. ASSUME NEW r \in Requests, RequestStep(r) PROVE TypeOK'
  BY <1>2, TypeRequest
<1>3. ASSUME NEW w \in Workers, WorkerStep(w) PROVE TypeOK'
  BY <1>3, TypeWorker
<1>4. CASE UNCHANGED vars
  BY <1>4, KeptTypes DEF vars, TypeOK
<1> QED BY <1>1, <1>2, <1>3, <1>4 DEF Next

(***************************************************************************)
(* What a step can do to the rows of jobs, and to who walks.               *)
(***************************************************************************)

NoWalkBegins == \A w \in Workers : Walking(w)' => Walking(w) /\ wjob'[w] = wjob[w]

RowsKept == UNCHANGED <<jobStatus, jobTarget>> /\ NoWalkBegins

RowsInserted ==
  /\ NoWalkBegins
  /\ \E S \in SUBSET FreshJobs : \E targetOf \in [S -> Targets] :
       /\ \A j \in S : ActiveJobs(targetOf[j]) = {}
       /\ \A j, k \in S : targetOf[j] = targetOf[k] => j = k
       /\ InsertJobs(S, targetOf)

WalkBegins(w) ==
  /\ jobStatus[wjob[w]] = "queued"
  /\ jobStatus' = [jobStatus EXCEPT ![wjob[w]] = "running"]
  /\ wpc' = [wpc EXCEPT ![w] = "walk"]
  /\ wjob[w] \in Jobs
  /\ UNCHANGED <<jobTarget, wjob>>

JobEnds(j) ==
  /\ jobStatus[j] \notin {"absent", "queued"}
  /\ \E result \in {"succeeded", "failed"} : jobStatus' = [jobStatus EXCEPT ![j] = result]
  /\ UNCHANGED jobTarget
  /\ NoWalkBegins

StepKind ==
  \/ RowsKept \/ RowsInserted
  \/ \E w \in Workers : WalkBegins(w)
  \/ \E j \in Jobs : JobEnds(j)

LEMMA IdleWorkers == UNCHANGED workers => NoWalkBegins
  BY DEF workers, NoWalkBegins, Walking

LEMMA ScheduleKind ==
  ASSUME TypeOK,
         \/ SchedulerStep \/ Tick \/ RedisLost \/ WorkerRestarts
         \/ \E j \in Jobs : Promote(j) \/ Stalled(j)
  PROVE  StepKind
<1>1. CASE LeaseDueTargets
  <2>1. PICK S \in SUBSET FreshJobs :
          \E targetOf \in Bijection(S, {t \in DueTargets : ActiveJobs(t) = {}}) :
            InsertJobs(S, targetOf) /\ toAdd' = S
    BY <1>1 DEF LeaseDueTargets
  <2>2. PICK targetOf \in Bijection(S, {t \in DueTargets : ActiveJobs(t) = {}}) :
          InsertJobs(S, targetOf)
    BY <2>1
  <2>3. /\ targetOf \in [S -> Targets]
        /\ \A j \in S : ActiveJobs(targetOf[j]) = {}
        /\ \A j, k \in S : targetOf[j] = targetOf[k] => j = k
    BY <2>2 DEF Bijection, Injection, IsInjective, Surjection, DueTargets
  <2> QED BY <1>1, <2>2, <2>3, IdleWorkers DEF LeaseDueTargets, StepKind, RowsInserted
<1>2. ASSUME NEW j \in Jobs, FailAbandonedSyncJob(j) PROVE StepKind
  <2>1. CASE jobStatus[j] = "running"
    BY <1>2, <2>1, IdleWorkers DEF FailAbandonedSyncJob, StepKind, JobEnds
  <2>2. CASE jobStatus[j] # "running"
    BY <1>2, <2>2, IdleWorkers DEF FailAbandonedSyncJob, StepKind, RowsKept
  <2> QED BY <2>1, <2>2
<1>3. CASE \/ AddScheduledJobs \/ FindStuckSyncJobs \/ SchedulerCrash \/ Tick \/ RedisLost
           \/ \E j \in Jobs : ReenqueueStuckJob(j) \/ Promote(j) \/ Stalled(j)
  BY <1>3, IdleWorkers DEF AddScheduledJobs, FindStuckSyncJobs, SchedulerCrash, Tick, RedisLost,
       ReenqueueStuckJob, Promote, Stalled, StepKind, RowsKept, jobs
<1>4. CASE WorkerRestarts
  <2>1. NoWalkBegins
    BY <1>4 DEF WorkerRestarts, NoWalkBegins, Walking, TypeOK, WorkersTyped
  <2> QED BY <1>4, <2>1 DEF WorkerRestarts, StepKind, RowsKept, jobs
<1> QED BY <1>1, <1>2, <1>3, <1>4 DEF SchedulerStep

LEMMA RequestKind ==
  ASSUME TypeOK, NEW r \in Requests, RequestStep(r)
  PROVE  StepKind
<1>1. CASE InsertManualJob(r) /\ ActiveJobs(rtarget[r]) = {}
  <2>1. PICK j \in FreshJobs : InsertJobs({j}, [k \in {j} |-> rtarget[r]])
    BY <1>1 DEF InsertManualJob
  <2>2. rtarget[r] \in Targets
    BY <1>1 DEF InsertManualJob, At, TypeOK, RequestsTyped
  <2>3. [k \in {j} |-> rtarget[r]] \in [{j} -> Targets]
    BY <2>2
  <2> QED BY <1>1, <2>1, <2>3, IdleWorkers DEF InsertManualJob, StepKind, RowsInserted
<1>2. CASE InsertManualJob(r) /\ ActiveJobs(rtarget[r]) # {}
  BY <1>2, IdleWorkers DEF InsertManualJob, StepKind, RowsKept, jobs
<1>3. CASE \/ \E t \in Targets : ResolveTarget(r, t)
           \/ FindActiveJob(r) \/ SetManualCooldown(r) \/ ReadBackActiveJob(r)
           \/ AddManualJob(r) \/ AnswerError(r) \/ RequestLost(r)
  BY <1>3, IdleWorkers DEF ResolveTarget, FindActiveJob, SetManualCooldown, ReadBackActiveJob,
       AddManualJob, AnswerError, RequestLost, StepKind, RowsKept, jobs
<1> QED BY <1>1, <1>2, <1>3 DEF RequestStep

LEMMA ForgetBegins ==
  ASSUME WorkersTyped, NEW w \in Workers, Forget(w)
  PROVE  NoWalkBegins
  BY DEF Forget, NoWalkBegins, Walking, WorkersTyped

LEMMA WorkerKind ==
  ASSUME TypeOK, WalksHaveBegun, NEW w \in Workers, WorkerStep(w)
  PROVE  StepKind
<1> USE DEF TypeOK
<1>1. ASSUME NEW j \in Jobs, TakeJob(w, j) PROVE StepKind
  <2>1. NoWalkBegins
    BY <1>1 DEF TakeJob, NoWalkBegins, Walking, WorkersTyped
  <2> QED BY <1>1, <2>1 DEF TakeJob, StepKind, RowsKept, jobs
<1>2. CASE DelaySyncJob(w) \/ ProcessorError(w) \/ WorkerCrash(w)
  BY <1>2, ForgetBegins DEF DelaySyncJob, ProcessorError, WorkerCrash, Return, StepKind, RowsKept, jobs
<1>3. CASE MarkJobRunning(w) /\ jobStatus[wjob[w]] = "queued"
  BY <1>3 DEF MarkJobRunning, StepKind, WalkBegins, WorkersTyped
<1>4. CASE MarkJobRunning(w) /\ jobStatus[wjob[w]] # "queued"
  BY <1>4, ForgetBegins DEF MarkJobRunning, Return, StepKind, RowsKept, jobs
<1>5. CASE WalkTarget(w)
  <2>1. NoWalkBegins
    BY <1>5 DEF WalkTarget, EndWalk, NoWalkBegins, Walking, WorkersTyped
  <2> QED BY <1>5, <2>1 DEF WalkTarget, StepKind, RowsKept, jobs
<1>6. CASE FinalizeJob(w)
  <2>1. wjob[w] \in Jobs /\ verdict[w] \in {"succeeded", "failed"}
    BY <1>6 DEF FinalizeJob, WorkersTyped
  <2>2. jobStatus[wjob[w]] \notin {"absent", "queued"}
    BY <1>6 DEF FinalizeJob, WalksHaveBegun, Walking
  <2> QED BY <1>6, <2>1, <2>2, ForgetBegins DEF FinalizeJob, Return, StepKind, JobEnds
<1> QED BY <1>1, <1>2, <1>3, <1>4, <1>5, <1>6 DEF WorkerStep

LEMMA EveryStepHasAKind ==
  ASSUME TypeOK, WalksHaveBegun, [Next]_vars
  PROVE  StepKind
<1>1. CASE UNCHANGED vars
  BY <1>1, IdleWorkers DEF vars, jobs, StepKind, RowsKept
<1> QED BY <1>1, ScheduleKind, RequestKind, WorkerKind DEF Next

(***************************************************************************)
(* The invariant.                                                          *)
(***************************************************************************)

LEMMA InvInit == Init => SyncInv
<1> SUFFICES ASSUME Init PROVE SyncInv
  OBVIOUS
<1>1. TypeOK BY TypeInit
<1>2. WalksHaveBegun /\ WalksApart BY DEF Init, WalksHaveBegun, WalksApart, Walking
<1>3. OneActiveJob BY DEF Init, OneActiveJob, Active
<1> QED BY <1>1, <1>2, <1>3 DEF SyncInv

\* What an insert does, row by row.
LEMMA InsertedRows ==
  ASSUME NEW S \in SUBSET Jobs, NEW targetOf \in [S -> Targets], InsertJobs(S, targetOf),
         NEW j \in Jobs
  PROVE  /\ j \in S => jobStatus'[j] = "queued" /\ jobTarget'[j] = targetOf[j]
         /\ j \notin S => jobStatus'[j] = jobStatus[j] /\ jobTarget'[j] = jobTarget[j]
  BY DEF InsertJobs

LEMMA InsertStep ==
  ASSUME SyncInv, RowsInserted
  PROVE  WalksHaveBegun' /\ WalksApart' /\ OneActiveJob'
<1>1. PICK S \in SUBSET FreshJobs : \E targetOf \in [S -> Targets] :
        /\ \A j \in S : ActiveJobs(targetOf[j]) = {}
        /\ \A j, k \in S : targetOf[j] = targetOf[k] => j = k
        /\ InsertJobs(S, targetOf)
  BY DEF RowsInserted
<1>2. PICK targetOf \in [S -> Targets] :
        /\ \A j \in S : ActiveJobs(targetOf[j]) = {}
        /\ \A j, k \in S : targetOf[j] = targetOf[k] => j = k
        /\ InsertJobs(S, targetOf)
  BY <1>1
<1>3. S \in SUBSET Jobs /\ \A w \in Workers : wjob[w] \notin S
  BY DEF FreshJobs
<1>4. \A j \in Jobs :
        /\ j \in S => jobStatus'[j] = "queued" /\ jobTarget'[j] = targetOf[j]
        /\ j \notin S => jobStatus'[j] = jobStatus[j] /\ jobTarget'[j] = jobTarget[j]
  BY <1>2, <1>3, InsertedRows
<1>5. WalksHaveBegun' /\ WalksApart'
  <2>1. \A w \in Workers : Walking(w) => wjob[w] \in Jobs
    BY DEF Walking, SyncInv, TypeOK, WorkersTyped
  <2>2. \A w \in Workers : Walking(w)' => Walking(w) /\ wjob'[w] = wjob[w]
    BY DEF RowsInserted, NoWalkBegins
  <2>3. WalksHaveBegun'
    BY <1>3, <1>4, <2>1, <2>2 DEF SyncInv, WalksHaveBegun
  <2>4. WalksApart'
    BY <2>2 DEF SyncInv, WalksApart
  <2> QED BY <2>3, <2>4
<1>6. OneActiveJob'
  <2> SUFFICES ASSUME NEW j \in Jobs, NEW k \in Jobs, Active(j)', Active(k)',
                      jobTarget'[j] = jobTarget'[k]
               PROVE  j = k
    BY DEF OneActiveJob
  <2>1. \A i \in Jobs : i \notin S /\ Active(i)' => Active(i)
    BY <1>4 DEF Active
  <2>2. CASE j \in S /\ k \in S
    BY <1>2, <1>4, <2>2
  <2>3. CASE j \notin S /\ k \notin S
    BY <1>4, <2>1, <2>3 DEF SyncInv, OneActiveJob
  <2>4. CASE j \in S /\ k \notin S
    BY <1>2, <1>4, <2>1, <2>4 DEF ActiveJobs
  <2>5. CASE j \notin S /\ k \in S
    BY <1>2, <1>4, <2>1, <2>5 DEF ActiveJobs
  <2> QED BY <2>2, <2>3, <2>4, <2>5
<1> QED BY <1>5, <1>6

LEMMA BeginStep ==
  ASSUME SyncInv, NEW w \in Workers, WalkBegins(w)
  PROVE  WalksHaveBegun' /\ WalksApart' /\ OneActiveJob'
<1>1. \A v \in Workers : v # w /\ Walking(v)' => Walking(v) /\ wjob[v] # wjob[w]
  BY DEF WalkBegins, Walking, SyncInv, WalksHaveBegun, TypeOK, WorkersTyped
<1>2. WalksHaveBegun'
  BY <1>1 DEF WalkBegins, Walking, SyncInv, WalksHaveBegun, TypeOK, WorkersTyped, RowsTyped
<1>3. WalksApart'
  BY <1>1 DEF WalkBegins, SyncInv, WalksApart
<1>4. OneActiveJob'
  BY DEF WalkBegins, SyncInv, OneActiveJob, Active, TypeOK, RowsTyped
<1> QED BY <1>2, <1>3, <1>4

LEMMA EndStep ==
  ASSUME SyncInv, NEW j \in Jobs, JobEnds(j)
  PROVE  WalksHaveBegun' /\ WalksApart' /\ OneActiveJob'
<1>1. \A k \in Jobs : jobStatus'[k] = jobStatus[k] \/ jobStatus'[k] \in {"succeeded", "failed"}
  BY DEF JobEnds, SyncInv, TypeOK, RowsTyped
<1>2. \A w \in Workers : Walking(w)' => Walking(w) /\ wjob'[w] = wjob[w] /\ wjob[w] \in Jobs
  BY DEF JobEnds, NoWalkBegins, Walking, SyncInv, TypeOK, WorkersTyped
<1>3. WalksHaveBegun'
  BY <1>1, <1>2 DEF SyncInv, WalksHaveBegun
<1>4. WalksApart'
  BY <1>2 DEF SyncInv, WalksApart
<1>5. OneActiveJob'
  BY <1>1 DEF JobEnds, SyncInv, OneActiveJob, Active
<1> QED BY <1>3, <1>4, <1>5

LEMMA InvStep == SyncInv /\ [Next]_vars => SyncInv'
<1> SUFFICES ASSUME SyncInv, [Next]_vars PROVE SyncInv'
  OBVIOUS
<1>1. TypeOK' /\ StepKind
  BY TypeStep, EveryStepHasAKind DEF SyncInv
<1>2. CASE RowsKept
  BY <1>1, <1>2 DEF RowsKept, NoWalkBegins, SyncInv, WalksHaveBegun, WalksApart, OneActiveJob, Active
<1> QED BY <1>1, <1>2, InsertStep, BeginStep, EndStep DEF StepKind, SyncInv

THEOREM InvHolds == Spec => []SyncInv
  BY InvInit, InvStep, PTL DEF Spec

\* Every variable of the module keeps its type; for finalizeJob to name a target the
\* row it writes must exist, which takes the rest of the invariant.
THEOREM TypeCorrect == Spec => []TypeOK
<1>1. SyncInv => TypeOK BY DEF SyncInv
<1> QED BY <1>1, InvHolds, PTL

\* No job is walked by two slots, and one of two walks of a target at once belongs to
\* a job that was given up, through any number of faults.
THEOREM OneRunnerHolds == Spec => []OneRunner
<1>1. SyncInv => OneRunner
  <2> SUFFICES ASSUME SyncInv, NEW v \in Workers, NEW w \in Workers, v # w, Walking(v), Walking(w)
               PROVE  /\ wjob[v] # wjob[w]
                      /\ jobTarget[wjob[v]] = jobTarget[wjob[w]] =>
                           \E u \in {v, w} : jobStatus[wjob[u]] # "running"
    BY DEF OneRunner
  <2>1. wjob[v] # wjob[w] /\ wjob[v] \in Jobs /\ wjob[w] \in Jobs
    BY DEF SyncInv, WalksApart, Walking, TypeOK, WorkersTyped
  <2>2. ~(/\ jobTarget[wjob[v]] = jobTarget[wjob[w]]
          /\ jobStatus[wjob[v]] = "running" /\ jobStatus[wjob[w]] = "running")
    BY <2>1 DEF SyncInv, OneActiveJob, Active
  <2> QED BY <2>1, <2>2
<1> QED BY <1>1, InvHolds, PTL

(***************************************************************************)
(* Walks of one target take turns: the refinement of SyncTurns.            *)
(***************************************************************************)

\* A target's turn, told by its only active job.
LEMMA TurnOfJob ==
  ASSUME OneActiveJob, NEW j \in Jobs, NEW t, jobTarget[j] = t, Active(j)
  PROVE  /\ jobStatus[j] = "running" => Turn(t) = "walking"
         /\ jobStatus[j] = "queued" => Turn(t) = "asked"
<1>1. ActiveJobs(t) = {j}
  BY DEF ActiveJobs, OneActiveJob
<1> QED BY <1>1 DEF Turn

LEMMA TurnWithoutJob ==
  ASSUME NEW t, ActiveJobs(t) = {}
  PROVE  Turn(t) = "idle"
  BY DEF Turn

LEMMA TurnsInit == Init => Turns!Init
<1> SUFFICES ASSUME Init, NEW t \in Targets PROVE Turn(t) = "idle"
  BY DEF Turns!Init
<1>1. ActiveJobs(t) = {}
  BY DEF Init, ActiveJobs, Active
<1> QED BY <1>1, TurnWithoutJob

\* The rows of the other targets do not matter to a target's turn.
LEMMA SameTurn ==
  ASSUME NEW t, ActiveJobs(t)' = ActiveJobs(t),
         \A j \in ActiveJobs(t) : jobStatus'[j] = jobStatus[j]
  PROVE  Turn(t)' = Turn(t)
  BY DEF Turn

LEMMA InsertIsAsk ==
  ASSUME SyncInv, SyncInv', RowsInserted
  PROVE  [Turns!Next]_[t \in Targets |-> Turn(t)]
<1>1. PICK S \in SUBSET FreshJobs : \E targetOf \in [S -> Targets] :
        /\ \A j \in S : ActiveJobs(targetOf[j]) = {}
        /\ \A j, k \in S : targetOf[j] = targetOf[k] => j = k
        /\ InsertJobs(S, targetOf)
  BY DEF RowsInserted
<1>2. PICK targetOf \in [S -> Targets] :
        /\ \A j \in S : ActiveJobs(targetOf[j]) = {}
        /\ InsertJobs(S, targetOf)
  BY <1>1
<1>3. S \in SUBSET Jobs /\ \A j \in S : ~Active(j)
  BY DEF FreshJobs
<1>4. \A j \in Jobs :
        /\ j \in S => jobStatus'[j] = "queued" /\ jobTarget'[j] = targetOf[j]
        /\ j \notin S => jobStatus'[j] = jobStatus[j] /\ jobTarget'[j] = jobTarget[j]
  BY <1>2, <1>3, InsertedRows
<1> DEFINE A == {targetOf[j] : j \in S}
<1>5. ASSUME NEW t \in A PROVE Turn(t) = "idle" /\ Turn(t)' = "asked"
  <2>1. PICK j \in S : t = targetOf[j]
    OBVIOUS
  <2>2. Turn(t) = "idle"
    BY <1>2, <2>1, TurnWithoutJob
  <2>3. j \in Jobs /\ Active(j)' /\ jobTarget'[j] = t /\ jobStatus'[j] = "queued"
    BY <1>3, <1>4, <2>1 DEF Active
  <2>4. ActiveJobs(t)' = {j}
    BY <2>3 DEF ActiveJobs, SyncInv, OneActiveJob
  <2>5. Turn(t)' = "asked"
    BY <2>3, <2>4 DEF Turn
  <2> QED BY <2>2, <2>5
<1>6. ASSUME NEW t \in Targets \ A PROVE Turn(t)' = Turn(t)
  <2>1. ActiveJobs(t)' = ActiveJobs(t) /\ \A j \in ActiveJobs(t) : jobStatus'[j] = jobStatus[j]
    BY <1>3, <1>4 DEF ActiveJobs, Active
  <2> QED BY <2>1, SameTurn
<1>7. CASE S = {}
  BY <1>6, <1>7
<1>8. CASE S # {}
  <2>1. A # {} /\ A \in SUBSET Targets
    BY <1>8
  <2>2. Turns!Ask(A)
    BY <1>5, <1>6, <2>1 DEF Turns!Ask, Turns!Idle
  <2> QED BY <2>1, <2>2 DEF Turns!Next
<1> QED BY <1>7, <1>8

LEMMA BeginIsBegin ==
  ASSUME SyncInv, SyncInv', NEW w \in Workers, WalkBegins(w)
  PROVE  [Turns!Next]_[t \in Targets |-> Turn(t)]
<1>1. PICK j \in Jobs :
        /\ jobStatus[j] = "queued" /\ Active(j)
        /\ jobStatus'[j] = "running" /\ jobTarget' = jobTarget
        /\ \A k \in Jobs : k # j => jobStatus'[k] = jobStatus[k]
  BY DEF WalkBegins, Active, SyncInv, TypeOK, RowsTyped
<1>2. PICK u \in Targets : jobTarget[j] = u
  BY <1>1 DEF SyncInv, TypeOK, RowsTyped
<1>3. Turn(u) = "asked"
  BY <1>1, <1>2, TurnOfJob DEF SyncInv
<1>4. Turn(u)' = "walking"
  <2>1. j \in ActiveJobs(u)'
    BY <1>1, <1>2 DEF ActiveJobs, Active
  <2> QED BY <1>1, <2>1 DEF Turn
<1>5. ASSUME NEW t \in Targets, t # u PROVE Turn(t)' = Turn(t)
  <2>1. ActiveJobs(t)' = ActiveJobs(t) /\ \A k \in ActiveJobs(t) : jobStatus'[k] = jobStatus[k]
    BY <1>1, <1>2, <1>5 DEF ActiveJobs, Active
  <2> QED BY <2>1, SameTurn
<1>6. Turns!Begin(u)
  BY <1>2, <1>3, <1>4, <1>5 DEF Turns!Begin
<1> QED BY <1>2, <1>6 DEF Turns!Next

LEMMA EndIsEnd ==
  ASSUME SyncInv, SyncInv', NEW j \in Jobs, JobEnds(j)
  PROVE  [Turns!Next]_[t \in Targets |-> Turn(t)]
<1>1. /\ jobStatus'[j] \in {"succeeded", "failed"}
      /\ \A k \in Jobs : k # j => jobStatus'[k] = jobStatus[k]
      /\ jobTarget' = jobTarget
  BY DEF JobEnds, SyncInv, TypeOK, RowsTyped
<1>2. CASE ~Active(j)
  <2>1. ASSUME NEW t \in Targets PROVE Turn(t)' = Turn(t)
    <3>1. ActiveJobs(t)' = ActiveJobs(t) /\ \A k \in ActiveJobs(t) : jobStatus'[k] = jobStatus[k]
      BY <1>1, <1>2 DEF ActiveJobs, Active
    <3> QED BY <3>1, SameTurn
  <2> QED BY <2>1
<1>3. CASE Active(j)
  <2>1. PICK u \in Targets : jobTarget[j] = u /\ jobStatus[j] = "running"
    BY <1>3 DEF JobEnds, Active, SyncInv, TypeOK, RowsTyped
  <2>2. Turn(u) = "walking"
    BY <1>3, <2>1, TurnOfJob DEF SyncInv
  <2>3. Turn(u)' = "idle"
    <3>1. ActiveJobs(u)' = {}
      BY <1>1, <1>3, <2>1 DEF ActiveJobs, Active, SyncInv, OneActiveJob
    <3> QED BY <3>1 DEF Turn
  <2>4. ASSUME NEW t \in Targets, t # u PROVE Turn(t)' = Turn(t)
    <3>1. ActiveJobs(t)' = ActiveJobs(t) /\ \A k \in ActiveJobs(t) : jobStatus'[k] = jobStatus[k]
      BY <1>1, <2>1, <2>4 DEF ActiveJobs, Active
    <3> QED BY <3>1, SameTurn
  <2>5. Turns!End(u)
    BY <2>1, <2>2, <2>3, <2>4 DEF Turns!End
  <2> QED BY <2>1, <2>5 DEF Turns!Next
<1> QED BY <1>2, <1>3

LEMMA TurnsStep ==
  ASSUME SyncInv, SyncInv', [Next]_vars
  PROVE  [Turns!Next]_[t \in Targets |-> Turn(t)]
<1>1. StepKind
  BY EveryStepHasAKind DEF SyncInv
<1>2. CASE RowsKept
  <2>1. ASSUME NEW t \in Targets PROVE Turn(t)' = Turn(t)
    BY <1>2 DEF RowsKept, Turn, ActiveJobs, Active
  <2> QED BY <2>1
<1> QED BY <1>1, <1>2, InsertIsAsk, BeginIsBegin, EndIsEnd DEF StepKind

\* Every step of synchronisation asks for walks, begins or ends one, or is none of the
\* abstract specification's business: a walk asked for is never dropped unwalked.
THEOREM TurnsImplemented == Spec => ImplementsTurns
<1>1. Init => Turns!Init
  BY TurnsInit
<1>2. SyncInv /\ SyncInv' /\ [Next]_vars => [Turns!Next]_[t \in Targets |-> Turn(t)]
  BY TurnsStep
<1> QED BY <1>1, <1>2, InvHolds, PTL DEF Spec, ImplementsTurns, Turns!Spec
===============================================================================
