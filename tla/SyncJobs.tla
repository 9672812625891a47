------------------------------- MODULE SyncJobs -------------------------------
(***************************************************************************)
(* Synchronisation of posts with the platform: the targets' schedule and   *)
(* the comment_sync_jobs rows in Postgres, the scheduler tick and the      *)
(* stuck-job sweeper of the `scheduler` queue, manual requests of the API, *)
(* the comment-sync jobs BullMQ keeps in Redis, and the workers that walk. *)
(*                                                                         *)
(* Every clock is a countdown or an age, so that the system runs for ever  *)
(* in finitely many states; one unit is a minute.  A walk is one step: what*)
(* it does to the comments is no part of this module.                      *)
(***************************************************************************)
EXTENDS Integers, FiniteSets, Functions

CONSTANTS
  Targets,
  Jobs,             \* names for job rows; see FreshJobs
  Workers,          \* slots of the sync worker (WORKER_CONCURRENCY of them)
  Requests,         \* manual requests being served at once
  NoTarget, NoJob, NoWorker,
  Never,            \* a null next_sync_at
  Intervals,        \* the age bands of computeNextSyncAt
  Lease,            \* SCHEDULE_LEASE_MS
  Cooldown,         \* SYNC_MANUAL_COOLDOWN_SECONDS
  StuckQueuedAfter, \* STUCK_SYNC_QUEUED_AFTER_MS
  StuckRunningAfter,\* STUCK_SYNC_RUNNING_AFTER_MS
  MaxAge,           \* bound: ages stop counting here, past both thresholds
  FaultKinds,       \* the faults this instance admits
  MaxFaults         \* bound: how many of them may happen

AllFaults == {"crash", "error", "enqueue", "stall", "redis"}

ASSUME SyncAssumption ==
  /\ NoTarget \notin Targets /\ NoJob \notin Jobs /\ NoWorker \notin Workers
  /\ Never \notin Nat
  /\ Intervals \subseteq Nat
  /\ Lease \in Nat /\ Cooldown \in Nat
  /\ StuckQueuedAfter \in Nat /\ StuckRunningAfter \in Nat
  /\ MaxAge \in Nat /\ StuckQueuedAfter < MaxAge /\ StuckRunningAfter < MaxAge
  /\ FaultKinds \subseteq AllFaults
  /\ MaxFaults \in Nat

VARIABLES
  faults,                    \* faults so far
  \* Postgres: comment_sync_targets
  nextSync,                  \* minutes until next_sync_at
  cooldown,                  \* minutes until manual_cooldown_until
  \* Postgres: comment_sync_jobs
  jobStatus, jobTarget,
  age,                       \* minutes since created_at, since started_at once running
  \* Redis: BullMQ
  bull, lock,
  \* Redis: the schedulers of tick and sweeps are registered; the scheduler queue's one runner
  scheduled,
  toAdd, toReenqueue, toFail,
  \* API requests: statement, target, the cooldown they read, job
  rpc, rtarget, rcooldown, rjob,
  \* worker slots: statement, job, and how the walk ended
  wpc, wjob, verdict

targets   == <<nextSync, cooldown>>
jobs      == <<jobStatus, jobTarget, age>>
queue     == <<bull, lock>>
pass      == <<toAdd, toReenqueue, toFail>>
scheduler == <<scheduled, pass>>
requests  == <<rpc, rtarget, rcooldown, rjob>>
workers   == <<wpc, wjob, verdict>>
vars      == <<faults, targets, jobs, queue, scheduler, requests, workers>>

-------------------------------------------------------------------------------
JobStatuses  == {"absent", "queued", "running", "succeeded", "failed"}
BullStates   == {"none", "waiting", "active", "delayed", "done"}
RequestSteps == {"idle", "check", "insert", "setCooldown", "readBack", "add", "error"}
WorkerSteps  == {"idle", "start", "walk", "finalize"}

RowsTyped ==
  /\ jobStatus \in [Jobs -> JobStatuses]
  /\ jobTarget \in [Jobs -> Targets \cup {NoTarget}]
  /\ \A j \in Jobs : jobStatus[j] # "absent" => jobTarget[j] \in Targets
  /\ age \in [Jobs -> Nat]

QueueTyped ==
  bull \in [Jobs -> BullStates] /\ lock \in [Jobs -> Workers \cup {NoWorker}]

ScheduleTyped ==
  /\ faults \in Nat
  /\ nextSync \in [Targets -> Nat \cup {Never}] /\ cooldown \in [Targets -> Nat]
  /\ scheduled \in BOOLEAN
  /\ toAdd \subseteq Jobs /\ toReenqueue \subseteq Jobs /\ toFail \subseteq Jobs

RequestsTyped ==
  /\ rpc \in [Requests -> RequestSteps]
  /\ rtarget \in [Requests -> Targets \cup {NoTarget}]
  /\ \A r \in Requests : rpc[r] # "idle" => rtarget[r] \in Targets
  /\ rcooldown \in [Requests -> Nat]
  /\ rjob \in [Requests -> Jobs \cup {NoJob}]
  /\ \A r \in Requests : rpc[r] \in {"setCooldown", "add"} => rjob[r] \in Jobs

WorkersTyped ==
  /\ wpc \in [Workers -> WorkerSteps]
  /\ wjob \in [Workers -> Jobs \cup {NoJob}]
  /\ \A w \in Workers : wpc[w] # "idle" => wjob[w] \in Jobs
  /\ verdict \in [Workers -> {"succeeded", "failed"}]

\* Every variable has its type, and whoever is at work has something to work on.
TypeOK == ScheduleTyped /\ RowsTyped /\ QueueTyped /\ RequestsTyped /\ WorkersTyped

\* ensureTarget: a new target is due after its age band, or never.
Init ==
  /\ faults = 0
  /\ nextSync \in [Targets -> Intervals \cup {Never}]
  /\ cooldown = [t \in Targets |-> 0]
  /\ jobStatus = [j \in Jobs |-> "absent"]
  /\ jobTarget = [j \in Jobs |-> NoTarget]
  /\ age = [j \in Jobs |-> 0]
  /\ bull = [j \in Jobs |-> "none"]
  /\ lock = [j \in Jobs |-> NoWorker]
  /\ scheduled = TRUE
  /\ toAdd = {} /\ toReenqueue = {} /\ toFail = {}
  /\ rpc = [r \in Requests |-> "idle"]
  /\ rtarget = [r \in Requests |-> NoTarget]
  /\ rcooldown = [r \in Requests |-> 0]
  /\ rjob = [r \in Requests |-> NoJob]
  /\ wpc = [w \in Workers |-> "idle"]
  /\ wjob = [w \in Workers |-> NoJob]
  /\ verdict = [w \in Workers |-> "failed"]

Fault(kind) ==
  /\ kind \in FaultKinds
  /\ faults < MaxFaults
  /\ faults' = faults + 1

-------------------------------------------------------------------------------
(* Job rows and BullMQ jobs *)

Active(j) == jobStatus[j] \in {"queued", "running"}
ActiveJobs(t) == {j \in Jobs : jobTarget[j] = t /\ Active(j)}

InFlight(j) == bull[j] \in {"waiting", "active", "delayed"}

\* Names nobody refers to any more are used again for new rows, so that finitely
\* many of them serve for ever.
FreshJobs ==
  {j \in Jobs : /\ ~Active(j) /\ ~InFlight(j)
                /\ j \notin toAdd \cup toReenqueue \cup toFail
                /\ \A r \in Requests : rjob[r] # j
                /\ \A w \in Workers : wjob[w] # j}

\* One INSERT of a queued row for each job of S.
InsertJobs(S, targetOf) ==
  /\ jobStatus' = [j \in Jobs |-> IF j \in S THEN "queued" ELSE jobStatus[j]]
  /\ jobTarget' = [j \in Jobs |-> IF j \in S THEN targetOf[j] ELSE jobTarget[j]]
  /\ age' = [j \in Jobs |-> IF j \in S THEN 0 ELSE age[j]]
  /\ bull' = [j \in Jobs |-> IF j \in S THEN "none" ELSE bull[j]]
  /\ UNCHANGED lock

\* Queue.add with the id of a job Redis still holds is a silent no-op.
AddToQueue(S) ==
  bull' = [j \in Jobs |-> IF j \in S /\ bull[j] = "none" THEN "waiting" ELSE bull[j]]

-------------------------------------------------------------------------------
(* The scheduler queue runs at concurrency 1: a tick or a sweep at a time,  *)
(* and each comes round again as long as Redis knows its job scheduler.     *)

PassDue == scheduled /\ toAdd \cup toReenqueue \cup toFail = {}

DueTargets == {t \in Targets : nextSync[t] = 0}

\* One transaction: every due target is leased, and those without an active job
\* get one (the index of active jobs turns the others' insert into nothing).
LeaseDueTargets ==
  /\ PassDue /\ DueTargets # {}
  /\ nextSync' = [t \in Targets |-> IF t \in DueTargets THEN Lease ELSE nextSync[t]]
  /\ \E S \in SUBSET FreshJobs :
       \E targetOf \in Bijection(S, {t \in DueTargets : ActiveJobs(t) = {}}) :
         InsertJobs(S, targetOf) /\ toAdd' = S
  /\ UNCHANGED <<faults, cooldown, scheduled, toReenqueue, toFail, requests, workers>>

AddScheduledJobs ==
  /\ toAdd # {}
  /\ toAdd' = {}
  /\ AddToQueue(toAdd)
  /\ UNCHANGED <<faults, targets, jobs, lock, scheduled, toReenqueue, toFail, requests, workers>>

StuckQueued  == {j \in Jobs : jobStatus[j] = "queued" /\ age[j] > StuckQueuedAfter}
StuckRunning == {j \in Jobs : jobStatus[j] = "running" /\ age[j] > StuckRunningAfter}

FindStuckSyncJobs ==
  /\ PassDue
  /\ StuckQueued \cup StuckRunning # {}
  /\ toReenqueue' = StuckQueued
  /\ toFail' = StuckRunning
  /\ UNCHANGED <<faults, targets, jobs, queue, scheduled, toAdd, requests, workers>>

\* Mutant: a plain Queue.add, which a kept job swallows.
AddStuckJob(j) ==
  /\ j \in toReenqueue
  /\ toReenqueue' = toReenqueue \ {j}
  /\ AddToQueue({j})
  /\ UNCHANGED <<faults, targets, jobs, lock, scheduled, toAdd, toFail, requests, workers>>

ReenqueueStuckJob(j) ==
  /\ j \in toReenqueue
  /\ toReenqueue' = toReenqueue \ {j}
  /\ bull' = IF InFlight(j) THEN bull ELSE [bull EXCEPT ![j] = "waiting"]
  /\ UNCHANGED <<faults, targets, jobs, lock, scheduled, toAdd, toFail, requests, workers>>

\* Mutant: an abandoned walk is put back in the queue, as the comment sweeper does.
RequeueAbandonedJob(j) ==
  /\ toReenqueue = {} /\ j \in toFail
  /\ toFail' = toFail \ {j}
  /\ jobStatus' = IF jobStatus[j] = "running" THEN [jobStatus EXCEPT ![j] = "queued"]
                                              ELSE jobStatus
  /\ UNCHANGED <<faults, targets, jobTarget, age, queue, scheduled, toAdd, toReenqueue, requests,
                 workers>>

FailAbandonedSyncJob(j) ==
  /\ toReenqueue = {} /\ j \in toFail
  /\ toFail' = toFail \ {j}
  /\ jobStatus' = IF jobStatus[j] = "running" THEN [jobStatus EXCEPT ![j] = "failed"]
                                              ELSE jobStatus
  /\ UNCHANGED <<faults, targets, jobTarget, age, queue, scheduled, toAdd, toReenqueue, requests,
                 workers>>

PassLost == toAdd' = {} /\ toReenqueue' = {} /\ toFail' = {}

SchedulerCrash ==
  /\ toAdd \cup toReenqueue \cup toFail # {}
  /\ Fault("crash")
  /\ PassLost
  /\ UNCHANGED <<scheduled, targets, jobs, queue, requests, workers>>

-------------------------------------------------------------------------------
(* A manual request, an action per await. *)

At(r, step) == rpc[r] = step
Proceed(r, step) == rpc' = [rpc EXCEPT ![r] = step]

Answer(r) ==
  /\ Proceed(r, "idle")
  /\ rtarget' = [rtarget EXCEPT ![r] = NoTarget]
  /\ rcooldown' = [rcooldown EXCEPT ![r] = 0]
  /\ rjob' = [rjob EXCEPT ![r] = NoJob]

\* The target is read here, its cooldown with it.
ResolveTarget(r, t) ==
  /\ At(r, "idle")
  /\ Proceed(r, "check")
  /\ rtarget' = [rtarget EXCEPT ![r] = t]
  /\ rcooldown' = [rcooldown EXCEPT ![r] = cooldown[t]]
  /\ UNCHANGED <<faults, targets, jobs, queue, scheduler, rjob, workers>>

\* The active job is the answer; without one, the cooldown as it was read decides.
FindActiveJob(r) ==
  /\ At(r, "check")
  /\ IF ActiveJobs(rtarget[r]) # {} \/ rcooldown[r] > 0
     THEN Answer(r)
     ELSE Proceed(r, "insert") /\ UNCHANGED <<rtarget, rcooldown, rjob>>
  /\ UNCHANGED <<faults, targets, jobs, queue, scheduler, workers>>

\* Mutant: as if there were no index of active jobs.
InsertUnconditionally(r) ==
  /\ At(r, "insert")
  /\ \E j \in FreshJobs :
       /\ InsertJobs({j}, [k \in {j} |-> rtarget[r]])
       /\ rjob' = [rjob EXCEPT ![r] = j]
       /\ Proceed(r, "setCooldown")
  /\ UNCHANGED <<faults, targets, scheduler, rtarget, rcooldown, workers>>

\* The index of active jobs decides who creates the row.
InsertManualJob(r) ==
  /\ At(r, "insert")
  /\ \/ /\ ActiveJobs(rtarget[r]) = {}
        /\ \E j \in FreshJobs :
             /\ InsertJobs({j}, [k \in {j} |-> rtarget[r]])
             /\ rjob' = [rjob EXCEPT ![r] = j]
        /\ Proceed(r, "setCooldown")
     \/ /\ ActiveJobs(rtarget[r]) # {}
        /\ Proceed(r, "readBack")
        /\ UNCHANGED <<jobs, queue, rjob>>
  /\ UNCHANGED <<faults, targets, scheduler, rtarget, rcooldown, workers>>

SetManualCooldown(r) ==
  /\ At(r, "setCooldown")
  /\ cooldown' = [cooldown EXCEPT ![rtarget[r]] = Cooldown]
  /\ Proceed(r, "add")
  /\ UNCHANGED <<faults, nextSync, jobs, queue, scheduler, rtarget, rcooldown, rjob, workers>>

\* The winner of the conflict is read back; it may be over by now.
ReadBackActiveJob(r) ==
  /\ At(r, "readBack")
  /\ \/ \E j \in ActiveJobs(rtarget[r]) :
          Proceed(r, "add") /\ rjob' = [rjob EXCEPT ![r] = j]
     \/ ActiveJobs(rtarget[r]) = {} /\ Proceed(r, "error") /\ UNCHANGED rjob
  /\ UNCHANGED <<faults, targets, jobs, queue, scheduler, rtarget, rcooldown, workers>>

AddManualJob(r) ==
  /\ At(r, "add")
  /\ AddToQueue({rjob[r]})
  /\ Answer(r)
  /\ UNCHANGED <<faults, targets, jobs, lock, scheduler, workers>>

AnswerError(r) ==
  /\ At(r, "error")
  /\ Answer(r)
  /\ UNCHANGED <<faults, targets, jobs, queue, scheduler, workers>>

\* A statement or the add fails, or the API dies: what was committed stays.
RequestLost(r) ==
  /\ ~At(r, "idle")
  /\ Fault("enqueue")
  /\ Answer(r)
  /\ UNCHANGED <<targets, jobs, queue, scheduler, workers>>

-------------------------------------------------------------------------------
(* The sync worker and its queue.  A slot that lost its lock can no longer   *)
(* move the job, whatever its processor returns.                             *)

LeaveJob(w, state) ==
  LET j == wjob[w] IN
  /\ bull' = IF lock[j] = w THEN [bull EXCEPT ![j] = state] ELSE bull
  /\ lock' = IF lock[j] = w THEN [lock EXCEPT ![j] = NoWorker] ELSE lock

\* Mutant: the slot keeps its place in the processor.
ForgetJobOnly(w) ==
  /\ wjob' = [wjob EXCEPT ![w] = NoJob]
  /\ verdict' = [verdict EXCEPT ![w] = "failed"]
  /\ UNCHANGED wpc

Forget(w) ==
  /\ wpc' = [wpc EXCEPT ![w] = "idle"]
  /\ wjob' = [wjob EXCEPT ![w] = NoJob]
  /\ verdict' = [verdict EXCEPT ![w] = "failed"]

Return(w, state) == LeaveJob(w, state) /\ Forget(w)

TakeJob(w, j) ==
  /\ wpc[w] = "idle" /\ bull[j] = "waiting"
  /\ bull' = [bull EXCEPT ![j] = "active"]
  /\ lock' = [lock EXCEPT ![j] = w]
  /\ wpc' = [wpc EXCEPT ![w] = "start"]
  /\ wjob' = [wjob EXCEPT ![w] = j]
  /\ UNCHANGED <<faults, targets, jobs, scheduler, requests, verdict>>

\* The platform's usage report or the account's empty token bucket.
DelaySyncJob(w) ==
  /\ wpc[w] = "start"
  /\ Return(w, "delayed")
  /\ UNCHANGED <<faults, targets, jobs, scheduler, requests>>

Promote(j) ==
  /\ bull[j] = "delayed"
  /\ bull' = [bull EXCEPT ![j] = "waiting"]
  /\ UNCHANGED <<faults, targets, jobs, lock, scheduler, requests, workers>>

MarkJobRunning(w) ==
  LET j == wjob[w] IN
  /\ wpc[w] = "start"
  /\ \/ /\ jobStatus[j] = "queued"
        /\ jobStatus' = [jobStatus EXCEPT ![j] = "running"]
        /\ age' = [age EXCEPT ![j] = 0]
        /\ wpc' = [wpc EXCEPT ![w] = "walk"]
        /\ UNCHANGED <<jobTarget, queue, wjob, verdict>>
     \/ /\ jobStatus[j] # "queued"
        /\ Return(w, "done")
        /\ UNCHANGED jobs
  /\ UNCHANGED <<faults, targets, scheduler, requests>>

EndWalk(w, result) ==
  /\ verdict' = [verdict EXCEPT ![w] = result]
  /\ wpc' = [wpc EXCEPT ![w] = "finalize"]

\* The walk and what it writes to its target: a complete one reschedules it (and
\* still fails when clearing account_health does), a PermanentError deactivates it,
\* any other failure leaves the schedule alone.
WalkTarget(w) ==
  LET t == jobTarget[wjob[w]] IN
  /\ wpc[w] = "walk"
  /\ \/ /\ \E next \in Intervals \cup {Never} : nextSync' = [nextSync EXCEPT ![t] = next]
        /\ \E result \in {"succeeded", "failed"} : EndWalk(w, result)
     \/ nextSync' = [nextSync EXCEPT ![t] = Never] /\ EndWalk(w, "failed")
     \/ UNCHANGED nextSync /\ EndWalk(w, "failed")
  /\ UNCHANGED <<faults, cooldown, jobs, queue, scheduler, requests, wjob>>

\* Unconditional: a verdict of the sweeper is overwritten.
FinalizeJob(w) ==
  /\ wpc[w] = "finalize"
  /\ jobStatus' = [jobStatus EXCEPT ![wjob[w]] = verdict[w]]
  /\ Return(w, "done")
  /\ UNCHANGED <<faults, targets, jobTarget, age, scheduler, requests>>

\* BullMQ retries a job whose processor threw until its attempts are used up.
ProcessorError(w) ==
  /\ wpc[w] # "idle"
  /\ Fault("error")
  /\ \E state \in {"delayed", "done"} : Return(w, state)
  /\ UNCHANGED <<targets, jobs, scheduler, requests>>

WorkerCrash(w) ==
  /\ wpc[w] # "idle"
  /\ Fault("crash")
  /\ Forget(w)
  /\ UNCHANGED <<targets, jobs, queue, scheduler, requests>>

\* The slot that locked the job died, or (a fault) is only paused.
Stalled(j) ==
  /\ bull[j] = "active"
  /\ IF wjob[lock[j]] = j THEN Fault("stall") ELSE UNCHANGED faults
  /\ \E state \in {"waiting", "done"} : bull' = [bull EXCEPT ![j] = state]
  /\ lock' = [lock EXCEPT ![j] = NoWorker]
  /\ UNCHANGED <<targets, jobs, scheduler, requests, workers>>

\* An emptied Redis: the jobs are gone, and so are the schedulers of tick and sweeps.
RedisLost ==
  /\ Fault("redis")
  /\ bull' = [j \in Jobs |-> "none"]
  /\ lock' = [j \in Jobs |-> NoWorker]
  /\ scheduled' = FALSE
  /\ UNCHANGED <<targets, jobs, pass, requests, workers>>

\* main() is the only code that registers the schedulers.  The slots S, and perhaps the
\* pass, are the restarted process's; a shutdown that waits for its jobs leaves S empty.
WorkerRestarts ==
  /\ ~scheduled
  /\ scheduled' = TRUE
  /\ PassLost \/ UNCHANGED pass
  /\ \E S \in SUBSET Workers :
       /\ wpc' = [w \in Workers |-> IF w \in S THEN "idle" ELSE wpc[w]]
       /\ wjob' = [w \in Workers |-> IF w \in S THEN NoJob ELSE wjob[w]]
       /\ verdict' = [w \in Workers |-> IF w \in S THEN "failed" ELSE verdict[w]]
  /\ UNCHANGED <<faults, targets, jobs, queue, requests>>

-------------------------------------------------------------------------------
Less(n) == IF n = Never \/ n = 0 THEN n ELSE n - 1

Tick ==
  /\ nextSync' = [t \in Targets |-> Less(nextSync[t])]
  /\ cooldown' = [t \in Targets |-> Less(cooldown[t])]
  /\ rcooldown' = [r \in Requests |-> Less(rcooldown[r])]
  /\ age' = [j \in Jobs |-> IF Active(j) /\ age[j] < MaxAge THEN age[j] + 1 ELSE age[j]]
  /\ UNCHANGED <<faults, jobStatus, jobTarget, queue, scheduler, rpc, rtarget, rjob, workers>>

SchedulerStep ==
  \/ LeaseDueTargets \/ AddScheduledJobs
  \/ FindStuckSyncJobs
  \/ \E j \in Jobs : ReenqueueStuckJob(j) \/ FailAbandonedSyncJob(j)
  \/ SchedulerCrash

RequestStep(r) ==
  \/ \E t \in Targets : ResolveTarget(r, t)
  \/ FindActiveJob(r) \/ InsertManualJob(r) \/ SetManualCooldown(r)
  \/ ReadBackActiveJob(r) \/ AddManualJob(r) \/ AnswerError(r) \/ RequestLost(r)

WorkerStep(w) ==
  \/ \E j \in Jobs : TakeJob(w, j)
  \/ DelaySyncJob(w) \/ MarkJobRunning(w) \/ WalkTarget(w) \/ FinalizeJob(w)
  \/ ProcessorError(w) \/ WorkerCrash(w)

Next ==
  \/ SchedulerStep
  \/ \E r \in Requests : RequestStep(r)
  \/ \E w \in Workers : WorkerStep(w)
  \/ \E j \in Jobs : Promote(j) \/ Stalled(j)
  \/ RedisLost \/ WorkerRestarts
  \/ Tick

Spec == Init /\ [][Next]_vars

\* The code's own scheduling.  The repeatable jobs of the scheduler queue take turns while
\* they are registered, and the token bucket refills: strongly fair.  Everything else is a
\* process that keeps running.
Fairness ==
  /\ SF_vars(LeaseDueTargets) /\ SF_vars(FindStuckSyncJobs)
  /\ WF_vars(AddScheduledJobs)
  /\ \A j \in Jobs :
       /\ WF_vars(ReenqueueStuckJob(j)) /\ WF_vars(FailAbandonedSyncJob(j))
       /\ SF_vars(\E w \in Workers : TakeJob(w, j))
       /\ WF_vars(Promote(j)) /\ WF_vars(Stalled(j))
  /\ \A w \in Workers :
       SF_vars(MarkJobRunning(w)) /\ WF_vars(WalkTarget(w)) /\ WF_vars(FinalizeJob(w))
  /\ WF_vars(Tick)

\* Operation, not code: after an emptied Redis somebody restarts a worker.
Operated == WF_vars(WorkerRestarts)

FairSpec == Spec /\ Fairness /\ Operated

-------------------------------------------------------------------------------
(* Properties *)

Walking(w) == wpc[w] \in {"walk", "finalize"}

\* A job is walked by one slot only, whatever is redelivered, stalled, swept or lost;
\* and two slots walk one target at once only when the job of one was given up.
OneRunner ==
  \A v, w \in Workers : v # w /\ Walking(v) /\ Walking(w) =>
    /\ wjob[v] # wjob[w]
    /\ jobTarget[wjob[v]] = jobTarget[wjob[w]] =>
         \E u \in {v, w} : jobStatus[wjob[u]] # "running"

\* An abandoned row never blocks its target: each job comes to an end, so that the
\* index of active jobs lets the next one in.  An emptied Redis takes the sweep with it: the
\* property is owed to a worker's restart then, to the code alone otherwise.
EveryJobEnds == \A j \in Jobs : Active(j) ~> ~Active(j)

\* A target that is due is walked, whichever job, sweep or retry it takes; like the sweep,
\* the tick comes back with a worker's restart only once Redis was emptied.
EveryDueTargetWalked ==
  \A t \in Targets :
    nextSync[t] = 0 ~> \E w \in Workers : Walking(w) /\ jobTarget[wjob[w]] = t

Turn(t) == IF \E j \in ActiveJobs(t) : jobStatus[j] = "running" THEN "walking"
           ELSE IF ActiveJobs(t) # {} THEN "asked" ELSE "idle"

Turns == INSTANCE SyncTurns WITH turn <- [t \in Targets |-> Turn(t)]

\* Walks of one target take turns, and none that was asked for is dropped unwalked.
ImplementsTurns == Turns!Spec
===============================================================================
