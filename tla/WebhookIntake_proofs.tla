-------------------------- MODULE WebhookIntake_proofs --------------------------
(***************************************************************************)
(* For any deliveries, accounts, workers and faults: a delivery marked     *)
(* processed is complete, and no account is taken out of service unheard.  *)
(* Both rest on what an execution has behind it wherever it stands.        *)
(***************************************************************************)
EXTENDS WebhookIntake, TLAPS

\* Whoever is busy with a delivery is busy with a row that was stored.
RowsExist ==
  /\ \A d \in Slots : handler[d] # "none" \/ job[d].state # "none" \/ d \in sweeping
                        => rows[d] # NoRow
  /\ \A w \in Workers : exec[w] # Idle => rows[exec[w].delivery] # NoRow

\* What an execution has passed is settled; it stands at account_health only after
\* the announcement, and at the end only with nothing left.
Passed(w) ==
  exec[w] # Idle =>
    LET steps == StepsOf[PayloadIn(exec[w].delivery)] IN
    /\ \A i \in DOMAIN steps : i < exec[w].pos => Settled(steps[i])
    /\ exec[w].at = "health" => exec[w].pos \in DOMAIN steps /\ steps[exec[w].pos] \in announced
    /\ exec[w].at \in {"mark", "done"} => exec[w].pos > Len(steps)

PassedIsSettled == \A w \in Workers : Passed(w)

IntakeInv ==
  TypeOK /\ RowsExist /\ PassedIsSettled /\ ProcessedIsComplete /\ HealthIsAnnounced

-------------------------------------------------------------------------------
(* What no step of the intake ever takes back. *)

\* Rows stay, with their payload; results accumulate.
Grows ==
  /\ \A d \in Slots : rows[d] # NoRow =>
       rows'[d] # NoRow /\ rows'[d].payload = rows[d].payload
  /\ ingested \subseteq ingested' /\ gone \subseteq gone' /\ announced \subseteq announced'

\* What is settled stays settled.
LEMMA SettledStays ==
  ASSUME Grows, NEW s, Settled(s) PROVE Settled(s)'
  BY DEF Grows, Settled

\* An execution that stays where it is keeps what it has behind it.
LEMMA PassedStays ==
  ASSUME TypeOK, RowsExist, Grows, NEW w \in Workers, Passed(w),
         exec'[w] = exec[w] \/ exec'[w] = Idle
  PROVE  Passed(w)'
<1>1. CASE exec'[w] = Idle
  BY <1>1 DEF Passed
<1>2. CASE exec'[w] = exec[w] /\ exec[w] # Idle
  <2>1. PICK d \in Slots : d = exec[w].delivery /\ rows[d] # NoRow
    BY <1>2 DEF TypeOK, Executions, RowsExist
  <2>2. PICK p : p = rows[d].payload /\ rows'[d].payload = p
    BY <2>1 DEF Grows
  <2>3. PayloadIn(exec[w].delivery)' = p /\ PayloadIn(exec[w].delivery) = p
    BY <1>2, <2>1, <2>2 DEF PayloadIn
  <2>4. /\ \A i \in DOMAIN StepsOf[p] : i < exec[w].pos => Settled(StepsOf[p][i])
        /\ exec[w].at = "health" =>
             exec[w].pos \in DOMAIN StepsOf[p] /\ StepsOf[p][exec[w].pos] \in announced
        /\ exec[w].at \in {"mark", "done"} => exec[w].pos > Len(StepsOf[p])
    BY <1>2, <2>3 DEF Passed
  <2>5. \A s : Settled(s) => Settled(s)'
    BY SettledStays
  <2>6. announced \subseteq announced'
    BY DEF Grows
  <2>7. QED
    BY <1>2, <2>3, <2>4, <2>5, <2>6 DEF Passed
<1>3. QED
  BY <1>1, <1>2

\* A row that is not marked in this step stays complete.
LEMMA CompleteStays ==
  ASSUME TypeOK, Grows, ProcessedIsComplete,
         \A d \in Slots : rows'[d] # NoRow /\ rows'[d].processed =>
           rows[d] # NoRow /\ rows[d].processed
  PROVE  ProcessedIsComplete'
<1>1. \A s : Settled(s) => Settled(s)'
  BY SettledStays
<1>2. \A d \in Slots : rows'[d] # NoRow /\ rows'[d].processed =>
        /\ rows[d] # NoRow /\ rows[d].processed
        /\ PayloadIn(d)' = PayloadIn(d)
  BY DEF Grows, PayloadIn
<1>3. QED
  BY <1>1, <1>2 DEF ProcessedIsComplete

\* A step in which executions stay or end, no row is marked and no account fails.
LEMMA QuietStep ==
  ASSUME IntakeInv, TypeOK', RowsExist', Grows, health' \subseteq health,
         \A w \in Workers : exec'[w] = exec[w] \/ exec'[w] = Idle,
         \A d \in Slots : rows'[d] # NoRow /\ rows'[d].processed =>
           rows[d] # NoRow /\ rows[d].processed
  PROVE  IntakeInv'
<1>1. PassedIsSettled'
  BY PassedStays DEF IntakeInv, PassedIsSettled
<1>2. ProcessedIsComplete'
  BY CompleteStays DEF IntakeInv
<1>3. HealthIsAnnounced'
  BY DEF IntakeInv, HealthIsAnnounced, Grows
<1>4. QED
  BY <1>1, <1>2, <1>3 DEF IntakeInv

-------------------------------------------------------------------------------
(* One lemma per group of actions. *)

LEMMA InitIntake == ASSUME Init PROVE IntakeInv
  BY IntakeAssumption
  DEF Init, IntakeInv, TypeOK, RowsExist, PassedIsSettled, Passed, ProcessedIsComplete,
      HealthIsAnnounced, NoJob, Jobs, JobStates

\* The POST handler stores rows and adds jobs for rows that are stored.
LEMMA EdgeKeeps ==
  ASSUME IntakeInv, NEW d \in Slots,
         (\E p \in Payloads : InsertDelivery(p, d)) \/ EnqueueDelivery(d) \/ Answer(d)
           \/ IntakeFails(d)
  PROVE  IntakeInv'
<1> USE IntakeAssumption DEF IntakeInv, edge, sweeper, results
<1>1. CASE \E p \in Payloads : InsertDelivery(p, d)
  <2>1. PICK p \in Payloads : InsertDelivery(p, d)
    BY <1>1
  <2>2. [payload |-> p, processed |-> FALSE, age |-> "new"] \in Deliveries
    BY DEF Deliveries
  <2>3. TypeOK'
    BY <2>1, <2>2 DEF TypeOK, InsertDelivery
  <2>4. /\ rows[d] = NoRow /\ rows'[d] \in Deliveries
        /\ \A f \in Slots : f # d => rows'[f] = rows[f]
        /\ \A f \in Slots : f # d => handler'[f] = handler[f]
    BY <2>1, <2>2 DEF TypeOK, InsertDelivery
  <2>5. UNCHANGED <<job, exec, sweeper, results>>
    BY <2>1 DEF InsertDelivery
  <2>6. Grows
    BY <2>4, <2>5 DEF Grows
  <2>7. RowsExist'
    <3>1. rows'[d] # NoRow
      BY <2>4
    <3>2. \A w \in Workers : exec[w] # Idle => exec[w].delivery \in Slots
      BY DEF TypeOK, Executions
    <3>3. \A f \in Slots : rows[f] # NoRow => rows'[f] # NoRow
      BY <2>4, <3>1
    <3>4. \A f \in Slots : handler'[f] # "none" => rows'[f] # NoRow
      BY <2>4, <3>1, <3>3 DEF RowsExist
    <3>5. QED
      BY <2>5, <3>2, <3>3, <3>4 DEF RowsExist
  <2>8. \A f \in Slots : rows'[f] # NoRow /\ rows'[f].processed =>
          rows[f] # NoRow /\ rows[f].processed
    <3>1. rows'[d] = [payload |-> p, processed |-> FALSE, age |-> "new"]
      BY <2>1 DEF InsertDelivery, TypeOK
    <3>2. QED
      BY <2>4, <3>1
  <2>9. QED
    BY <2>3, <2>5, <2>6, <2>7, <2>8, QuietStep
<1>2. CASE EnqueueDelivery(d)
  <2>1. TypeOK'
    BY <1>2 DEF TypeOK, EnqueueDelivery, Add, Queued, Jobs, JobStates
  <2>2. RowsExist' /\ Grows
    BY <1>2 DEF TypeOK, EnqueueDelivery, Add, Queued, RowsExist, Grows
  <2>3. QED
    BY <1>2, <2>1, <2>2, QuietStep DEF EnqueueDelivery
<1>3. CASE Answer(d)
  <2>1. rows[d].payload \in Payloads
    BY <1>3 DEF Answer, RowsExist, TypeOK, Deliveries
  <2>2. TypeOK' /\ RowsExist' /\ Grows
    BY <1>3, <2>1 DEF TypeOK, Answer, RowsExist, Grows
  <2>3. QED
    BY <1>3, <2>2, QuietStep DEF Answer
<1>4. CASE IntakeFails(d)
  <2>1. TypeOK' /\ RowsExist' /\ Grows
    BY <1>4 DEF TypeOK, IntakeFails, RowsExist, Grows, Fault
  <2>2. QED
    BY <1>4, <2>1, QuietStep DEF IntakeFails
<1>5. QED
  BY <1>1, <1>2, <1>3, <1>4

\* BullMQ and the sweeper only move jobs of rows that are stored.
LEMMA QueueKeeps ==
  ASSUME IntakeInv,
         (\E d \in Slots : BackoffEnds(d) \/ JobStalled(d) \/ ReenqueueStuckJob(d))
           \/ RedisLost \/ Sweep \/ WorkerRestarts
  PROVE  IntakeInv'
<1> USE IntakeAssumption DEF IntakeInv, edge, sweeper, results
<1>1. /\ UNCHANGED <<edge, rows, condition, results, turns>>
      /\ \A w \in Workers : exec'[w] = exec[w] \/ exec'[w] = Idle
      /\ exec' \in [Workers -> Executions \cup {Idle}]
  <2>1. CASE WorkerRestarts
    <3>1. PICK W \in SUBSET Workers :
            exec' = [w \in Workers |-> IF w \in W THEN Idle ELSE exec[w]]
      BY <2>1 DEF WorkerRestarts
    <3>2. QED
      BY <2>1, <3>1 DEF WorkerRestarts, TypeOK
  <2>2. CASE ~WorkerRestarts
    <3>1. UNCHANGED <<edge, rows, exec, condition, results, turns>>
      BY <2>2 DEF BackoffEnds, JobStalled, ReenqueueStuckJob, RedisLost, Sweep
    <3>2. QED
      BY <3>1 DEF TypeOK
  <2>3. QED
    BY <2>1, <2>2
<1>2. scheduled' \in BOOLEAN
  BY DEF TypeOK, BackoffEnds, JobStalled, ReenqueueStuckJob, RedisLost, Sweep, WorkerRestarts
<1>3. /\ job' \in [Slots -> Jobs] /\ faults' \in 0..MaxFaults /\ sweeping' \subseteq Slots
      /\ \A d \in Slots : job'[d].state # "none" \/ d \in sweeping' =>
           job[d].state # "none" \/ d \in sweeping \/ rows[d] # NoRow
  <2>1. CASE \E d \in Slots : BackoffEnds(d) \/ JobStalled(d)
    <3>1. PICK d \in Slots : BackoffEnds(d) \/ JobStalled(d)
      BY <2>1
    <3>2. PICK j : /\ j = [job[d] EXCEPT !.state = "waiting"]
                          \/ j = [job[d] EXCEPT !.state = "waiting", !.by = Nobody]
                   /\ job' = [job EXCEPT ![d] = j]
      BY <3>1 DEF BackoffEnds, JobStalled
    <3>3. job[d] \in Jobs /\ job[d].state # "none"
      BY <3>1 DEF BackoffEnds, JobStalled, TypeOK
    <3>4. j \in Jobs
      BY <3>2, <3>3 DEF Jobs, JobStates
    <3>5. CASE BackoffEnds(d)
      BY <3>2, <3>3, <3>4, <3>5 DEF BackoffEnds, TypeOK
    <3>6. CASE JobStalled(d)
      <4>1. sweeping' = sweeping /\ (faults' = faults \/ Fault)
        BY <3>6 DEF JobStalled
      <4>2. faults' \in 0..MaxFaults
        BY <4>1 DEF TypeOK, Fault
      <4>3. QED
        BY <3>2, <3>3, <3>4, <4>1, <4>2 DEF TypeOK
    <3>7. QED
      BY <3>1, <3>5, <3>6
  <2>2. CASE \E d \in Slots : ReenqueueStuckJob(d)
    <3>1. Queued \in Jobs
      BY DEF Queued, Jobs, JobStates
    <3>2. QED
      BY <2>2, <3>1 DEF ReenqueueStuckJob, TypeOK
  <2>3. CASE RedisLost \/ Sweep
    <3>1. NoJob \in Jobs /\ NoJob.state = "none"
      BY DEF NoJob, Jobs, JobStates
    <3>2. QED
      BY <2>3, <3>1 DEF RedisLost, Sweep, TypeOK, Fault, Unprocessed
  <2>4. CASE WorkerRestarts
    BY <2>4 DEF WorkerRestarts, TypeOK
  <2>5. QED
    BY <2>1, <2>2, <2>3, <2>4
<1>4. TypeOK'
  BY <1>1, <1>2, <1>3 DEF TypeOK
<1>5. RowsExist' /\ Grows
  BY <1>1, <1>3 DEF RowsExist, Grows
<1>6. QED
  BY <1>1, <1>4, <1>5, QuietStep

\* Ageing, the purge, credentials and a cleared health record.
LEMMA WorldKeeps ==
  ASSUME IntakeInv,
         (\E d \in Slots : BecomeStale(d) \/ PurgeWebhookDeliveries(d))
           \/ (\E a \in Accounts : CredentialChanges(a) \/ ClearHealth(a))
  PROVE  IntakeInv'
<1> USE IntakeAssumption DEF IntakeInv, edge, sweeper, results
<1>1. CASE \E d \in Slots : BecomeStale(d) \/ PurgeWebhookDeliveries(d)
  <2>1. PICK d \in Slots, age \in {"stale", "purged"} :
          rows[d] # NoRow /\ rows' = [rows EXCEPT ![d].age = age]
    BY <1>1 DEF BecomeStale, PurgeWebhookDeliveries
  <2>2. UNCHANGED <<edge, job, exec, sweeper, condition, results, turns, faults>>
    BY <1>1 DEF BecomeStale, PurgeWebhookDeliveries
  <2>3. PICK row \in Deliveries :
          /\ rows' = [rows EXCEPT ![d] = row]
          /\ row.payload = rows[d].payload /\ row.processed = rows[d].processed
    <3>1. rows[d] \in Deliveries
      BY <2>1 DEF TypeOK
    <3>2. [rows[d] EXCEPT !.age = age] \in Deliveries
      BY <3>1 DEF Deliveries
    <3>3. [rows[d] EXCEPT !.age = age].payload = rows[d].payload
          /\ [rows[d] EXCEPT !.age = age].processed = rows[d].processed
      BY <3>1 DEF Deliveries
    <3>4. rows' = [rows EXCEPT ![d] = [rows[d] EXCEPT !.age = age]]
      BY <2>1 DEF TypeOK
    <3>5. QED
      BY <3>2, <3>3, <3>4
  <2>4. /\ rows' \in [Slots -> Deliveries \cup {NoRow}] /\ rows'[d] = row /\ row # NoRow
        /\ \A f \in Slots : f # d => rows'[f] = rows[f]
    BY <2>3 DEF TypeOK
  <2>5. TypeOK'
    BY <2>2, <2>4 DEF TypeOK
  <2>6. Grows
    BY <2>2, <2>3, <2>4 DEF Grows
  <2>7. RowsExist'
    BY <2>2, <2>4 DEF RowsExist, TypeOK, Executions
  <2>8. QED
    BY <2>1, <2>2, <2>3, <2>4, <2>5, <2>6, <2>7, QuietStep
<1>2. CASE \E a \in Accounts : CredentialChanges(a)
  <2>1. TypeOK' /\ RowsExist' /\ Grows
    BY <1>2 DEF CredentialChanges, TypeOK, RowsExist, Grows
  <2>2. QED
    BY <1>2, <2>1, QuietStep DEF CredentialChanges
<1>3. CASE \E a \in Accounts : ClearHealth(a)
  <2>1. TypeOK' /\ RowsExist' /\ Grows
    BY <1>3 DEF ClearHealth, TypeOK, RowsExist, Grows
  <2>2. QED
    BY <1>3, <2>1, QuietStep DEF ClearHealth
<1>4. QED
  BY <1>1, <1>2, <1>3

-------------------------------------------------------------------------------
(* The worker. *)

\* What is known of a worker's delivery.
LEMMA Executing ==
  ASSUME IntakeInv, NEW w \in Workers, exec[w] # Idle
  PROVE  \E d \in Slots, p \in Payloads, n \in Nat \ {0},
            at \in {"load", "step", "health", "mark", "done"} :
           /\ exec[w] = [delivery |-> d, pos |-> n, at |-> at]
           /\ rows[d] \in Deliveries /\ rows[d] # NoRow /\ rows[d].payload = p
           /\ StepsOf[p] \in Seq(Steps)
<1>1. exec[w] \in Executions
  BY DEF IntakeInv, TypeOK
<1>2. PICK d \in Slots, n \in Nat \ {0}, at \in {"load", "step", "health", "mark", "done"} :
        exec[w] = [delivery |-> d, pos |-> n, at |-> at]
  BY <1>1 DEF Executions
<1>3. rows[d] \in Deliveries /\ rows[d] # NoRow
  BY <1>2, IntakeAssumption DEF IntakeInv, TypeOK, RowsExist
<1>4. rows[d].payload \in Payloads
  BY <1>3 DEF Deliveries
<1>5. QED
  BY <1>2, <1>3, <1>4, IntakeAssumption

\* A worker that goes on keeps what it has behind it if that is settled by now.
LEMMA Advance ==
  ASSUME IntakeInv, Grows, NEW w \in Workers,
         NEW d \in Slots, NEW p \in Payloads, NEW n \in Nat \ {0},
         NEW at \in {"load", "step", "health", "mark", "done"},
         rows[d] # NoRow, rows[d].payload = p,
         exec' = [exec EXCEPT ![w] = [delivery |-> d, pos |-> n, at |-> at]],
         \A i \in DOMAIN StepsOf[p] : i < n => Settled(StepsOf[p][i])',
         at = "health" => n \in DOMAIN StepsOf[p] /\ StepsOf[p][n] \in announced',
         at \in {"mark", "done"} => n > Len(StepsOf[p])
  PROVE  /\ PassedIsSettled' /\ exec' \in [Workers -> Executions \cup {Idle}]
         /\ \A v \in Workers : exec'[v] # Idle => rows'[exec'[v].delivery] # NoRow
<1>1. exec \in [Workers -> Executions \cup {Idle}] /\ TypeOK /\ RowsExist
  BY DEF IntakeInv, TypeOK
<1>2. /\ exec'[w] = [delivery |-> d, pos |-> n, at |-> at]
      /\ \A v \in Workers \ {w} : exec'[v] = exec[v]
  BY <1>1
<1>3. [delivery |-> d, pos |-> n, at |-> at] \in Executions
  BY DEF Executions
<1>4. rows'[d] # NoRow /\ rows'[d].payload = p
  BY DEF Grows
<1>5. Passed(w)'
  BY <1>2, <1>4 DEF Passed, PayloadIn
<1>6. \A v \in Workers \ {w} : Passed(v)'
  BY <1>1, <1>2, PassedStays DEF IntakeInv, PassedIsSettled
<1>7. PassedIsSettled'
  BY <1>5, <1>6 DEF PassedIsSettled
<1>8. exec' \in [Workers -> Executions \cup {Idle}]
  BY <1>1, <1>3
<1>9. ASSUME NEW v \in Workers, exec'[v] # Idle PROVE rows'[exec'[v].delivery] # NoRow
  <2>1. CASE v = w
    BY <2>1, <1>2, <1>4
  <2>2. CASE v # w
    <3>1. exec[v] # Idle /\ exec[v] \in Executions /\ exec'[v] = exec[v]
      BY <2>2, <1>1, <1>2, <1>9
    <3>2. exec[v].delivery \in Slots /\ rows[exec[v].delivery] # NoRow
      BY <3>1, <1>1 DEF Executions, RowsExist
    <3>3. QED
      BY <3>1, <3>2 DEF Grows
  <2>3. QED
    BY <2>1, <2>2
<1>10. QED
  BY <1>7, <1>8, <1>9

\* A processor that ends moves its own job, if that, and leaves its worker idle.
LEMMA SettleMoves ==
  ASSUME IntakeInv, NEW w \in Workers, exec[w] # Idle,
         NEW state \in JobStates, NEW tries \in 0..JobAttempts, Settle(w, state, tries)
  PROVE  /\ job' \in [Slots -> Jobs]
         /\ exec' \in [Workers -> Executions \cup {Idle}]
         /\ \A v \in Workers : exec'[v] = exec[v] \/ exec'[v] = Idle
         /\ \A f \in Slots : job'[f].state # "none" => job[f].state # "none" \/ rows[f] # NoRow
<1>0. PICK d \in Slots, p \in Payloads, n \in Nat \ {0},
           at \in {"load", "step", "health", "mark", "done"} :
        exec[w] = [delivery |-> d, pos |-> n, at |-> at] /\ rows[d] # NoRow
  BY Executing
<1>1. d = exec[w].delivery /\ rows[d] # NoRow
  BY <1>0
<1>2. [state |-> state, tries |-> tries, by |-> Nobody] \in Jobs
  BY DEF Jobs
<1>3. job' = job \/ job' = [job EXCEPT ![d] = [state |-> state, tries |-> tries, by |-> Nobody]]
  BY <1>1 DEF Settle
<1>4. exec' = [exec EXCEPT ![w] = Idle]
  BY DEF Settle
<1>5. QED
  BY <1>1, <1>2, <1>3, <1>4 DEF IntakeInv, TypeOK

LEMMA ThrowMoves ==
  ASSUME IntakeInv, NEW w \in Workers, exec[w] # Idle, Throw(w)
  PROVE  \E state \in JobStates, tries \in 0..JobAttempts : Settle(w, state, tries)
<1>0. PICK d \in Slots, p \in Payloads, n \in Nat \ {0},
           at \in {"load", "step", "health", "mark", "done"} :
        exec[w] = [delivery |-> d, pos |-> n, at |-> at] /\ rows[d] # NoRow
  BY Executing
<1>1. d = exec[w].delivery
  BY <1>0
<1>2. job[d].tries \in 0..JobAttempts
  BY DEF IntakeInv, TypeOK, Jobs
<1>3. CASE job[d].tries + 1 >= JobAttempts
  BY <1>1, <1>2, <1>3, IntakeAssumption DEF Throw, JobStates
<1>4. CASE ~(job[d].tries + 1 >= JobAttempts)
  BY <1>1, <1>2, <1>4, IntakeAssumption DEF Throw, JobStates
<1>5. QED
  BY <1>3, <1>4

\* Executions that end.
LEMMA EndingKeeps ==
  ASSUME IntakeInv, NEW w \in Workers, exec[w] # Idle,
         \/ exec' = [exec EXCEPT ![w] = Idle] /\ job' = job
         \/ Throw(w)
         \/ \E tries \in 0..JobAttempts : Settle(w, "completed", tries),
         UNCHANGED <<edge, rows, sweeper, condition, results, turns>>,
         faults' \in 0..MaxFaults
  PROVE  IntakeInv'
<1>1. /\ job' \in [Slots -> Jobs]
      /\ exec' \in [Workers -> Executions \cup {Idle}]
      /\ \A v \in Workers : exec'[v] = exec[v] \/ exec'[v] = Idle
      /\ \A f \in Slots : job'[f].state # "none" => job[f].state # "none" \/ rows[f] # NoRow
  <2>1. CASE exec' = [exec EXCEPT ![w] = Idle] /\ job' = job
    BY <2>1 DEF IntakeInv, TypeOK
  <2>2. CASE \E state \in JobStates, tries \in 0..JobAttempts : Settle(w, state, tries)
    BY <2>2, SettleMoves
  <2>3. QED
    BY <2>1, <2>2, ThrowMoves DEF JobStates
<1>2. TypeOK'
  BY <1>1 DEF IntakeInv, TypeOK, edge, sweeper, results
<1>3. RowsExist' /\ Grows
  BY <1>1 DEF IntakeInv, RowsExist, Grows, edge, sweeper, results
<1>4. QED
  BY <1>1, <1>2, <1>3, QuietStep DEF results

LEMMA EndingSteps ==
  ASSUME IntakeInv, NEW w \in Workers,
         \/ JobCompletes(w) \/ StepThrows(w) \/ WorkerCrash(w)
         \/ LoadDelivery(w) /\ exec'[w] = Idle
  PROVE  IntakeInv'
<1>1. exec[w] # Idle
  BY DEF JobCompletes, StepThrows, WorkerCrash, LoadDelivery, At
<1>2. PICK d \in Slots, p \in Payloads, n \in Nat \ {0},
           at \in {"load", "step", "health", "mark", "done"} :
        exec[w] = [delivery |-> d, pos |-> n, at |-> at]
  BY <1>1, Executing
<1>3. exec[w].delivery = d /\ job[d].tries \in 0..JobAttempts
  BY <1>2 DEF IntakeInv, TypeOK, Jobs
<1>4. faults' \in 0..MaxFaults
  BY IntakeAssumption
  DEF JobCompletes, StepThrows, WorkerCrash, LoadDelivery, Fault, IntakeInv, TypeOK
<1>5. UNCHANGED <<edge, rows, sweeper, condition, results, turns>>
  BY DEF JobCompletes, StepThrows, WorkerCrash, LoadDelivery
<1>6. \/ exec' = [exec EXCEPT ![w] = Idle] /\ job' = job
      \/ Throw(w)
      \/ \E tries \in 0..JobAttempts : Settle(w, "completed", tries)
  <2>1. CASE JobCompletes(w)
    BY <2>1, <1>3 DEF JobCompletes
  <2>2. CASE StepThrows(w)
    BY <2>2 DEF StepThrows
  <2>3. CASE WorkerCrash(w)
    BY <2>3 DEF WorkerCrash
  <2>4. CASE LoadDelivery(w) /\ exec'[w] = Idle
    <3>1. ~GoTo(w, "step")
      <4>1. SUFFICES ASSUME GoTo(w, "step") PROVE FALSE
        OBVIOUS
      <4>2. exec'[w] = [delivery |-> d, pos |-> n, at |-> "step"]
        BY <4>1, <1>2 DEF GoTo, IntakeInv, TypeOK
      <4>3. QED
        BY <4>2, <2>4, IntakeAssumption DEF Executions
    <3>2. QED
      BY <2>4, <3>1, <1>3 DEF LoadDelivery
  <2>5. QED
    BY <2>1, <2>2, <2>3, <2>4
<1>7. QED
  BY <1>1, <1>4, <1>5, <1>6, EndingKeeps

\* What an execution that stands at `at` knows, with its parts named.
Stands(w, d, p, n, at) ==
  /\ exec[w] = [delivery |-> d, pos |-> n, at |-> at]
  /\ rows[d] \in Deliveries /\ rows[d] # NoRow /\ rows[d].payload = p
  /\ StepsOf[p] \in Seq(Steps)
  /\ \A i \in DOMAIN StepsOf[p] : i < n => Settled(StepsOf[p][i])
  /\ at = "health" => n \in DOMAIN StepsOf[p] /\ StepsOf[p][n] \in announced
  /\ at \in {"mark", "done"} => n > Len(StepsOf[p])

LEMMA Standing ==
  ASSUME IntakeInv, NEW w \in Workers, exec[w] # Idle
  PROVE  \E d \in Slots, p \in Payloads, n \in Nat \ {0},
            at \in {"load", "step", "health", "mark", "done"} : Stands(w, d, p, n, at)
<1>1. PICK d \in Slots, p \in Payloads, n \in Nat \ {0},
           at \in {"load", "step", "health", "mark", "done"} :
        /\ exec[w] = [delivery |-> d, pos |-> n, at |-> at]
        /\ rows[d] \in Deliveries /\ rows[d] # NoRow /\ rows[d].payload = p
        /\ StepsOf[p] \in Seq(Steps)
  BY Executing
<1>2. /\ exec[w].delivery = d /\ exec[w].pos = n /\ exec[w].at = at
      /\ PayloadIn(exec[w].delivery) = p
  BY <1>1 DEF PayloadIn
<1>3. Passed(w)
  BY DEF IntakeInv, PassedIsSettled
<1>4. Stands(w, d, p, n, at)
  BY <1>1, <1>2, <1>3 DEF Passed, Stands
<1>5. QED
  BY <1>4

\* A worker that takes a job has nothing behind it.
LEMMA TakingKeeps ==
  ASSUME IntakeInv, NEW w \in Workers, NEW d \in Slots, TakeJob(w, d)
  PROVE  IntakeInv'
<1>1. PICK p \in Payloads : rows[d] # NoRow /\ rows[d].payload = p
  BY DEF TakeJob, IntakeInv, RowsExist, TypeOK, Deliveries
<1>2. UNCHANGED <<edge, rows, sweeper, condition, results, turns, faults>>
  BY DEF TakeJob
<1>3. Grows
  BY <1>2 DEF Grows, results
<1>4. \A i \in DOMAIN StepsOf[p] : ~(i < 1)
  BY IntakeAssumption
<1>5. exec' = [exec EXCEPT ![w] = [delivery |-> d, pos |-> 1, at |-> "load"]]
  BY DEF TakeJob
<1>6. /\ PassedIsSettled' /\ exec' \in [Workers -> Executions \cup {Idle}]
      /\ \A v \in Workers : exec'[v] # Idle => rows'[exec'[v].delivery] # NoRow
  <2>1. /\ "load" \in {"load", "step", "health", "mark", "done"}
        /\ "load" # "health" /\ "load" \notin {"mark", "done"} /\ 1 \in Nat \ {0}
    OBVIOUS
  <2>2. \A i \in DOMAIN StepsOf[p] : i < 1 => Settled(StepsOf[p][i])'
    BY <1>4
  <2>3. QED
    BY <1>1, <1>3, <1>5, <2>1, <2>2, Advance
<1>7. job[d] \in Jobs /\ [job[d] EXCEPT !.state = "active", !.by = w] \in Jobs
  BY DEF IntakeInv, TypeOK, Jobs, JobStates
<1>8. job' \in [Slots -> Jobs] /\ \A f \in Slots : f # d => job'[f] = job[f]
  BY <1>7 DEF TakeJob, IntakeInv, TypeOK
<1>9. TypeOK'
  BY <1>2, <1>6, <1>8 DEF IntakeInv, TypeOK, edge, sweeper, results
<1>10. RowsExist'
  <2>1. \A f \in Slots : handler'[f] # "none" \/ job'[f].state # "none" \/ f \in sweeping'
                           => f = d \/ rows[f] # NoRow
    BY <1>2, <1>8 DEF IntakeInv, RowsExist, edge, sweeper
  <2>2. QED
    BY <1>1, <1>2, <1>6, <2>1 DEF RowsExist
<1>11. ProcessedIsComplete'
  BY <1>2, <1>3, CompleteStays DEF IntakeInv
<1>12. HealthIsAnnounced'
  BY <1>2 DEF IntakeInv, HealthIsAnnounced, results
<1>13. QED
  BY <1>6, <1>9, <1>10, <1>11, <1>12 DEF IntakeInv

\* A step of an execution that goes on, from what it knows and what it settles.
LEMMA GoingOn ==
  ASSUME IntakeInv, NEW w \in Workers,
         NEW d \in Slots, NEW p \in Payloads, NEW n \in Nat \ {0},
         NEW at \in {"load", "step", "health", "mark", "done"},
         NEW m \in Nat \ {0}, NEW to \in {"load", "step", "health", "mark", "done"},
         Stands(w, d, p, n, at),
         exec' = [exec EXCEPT ![w] = [delivery |-> d, pos |-> m, at |-> to]],
         UNCHANGED <<edge, job, sweeper, condition, turns, faults>>,
         rows' = rows,
         health' \subseteq Accounts, ingested' \subseteq Steps, gone' \subseteq Steps,
         announced' \subseteq Steps, ingested \subseteq ingested', gone \subseteq gone',
         announced \subseteq announced',
         m = n \/ (m = n + 1 /\ Settled(StepsOf[p][n])'),
         to = "health" => m \in DOMAIN StepsOf[p] /\ StepsOf[p][m] \in announced',
         to \in {"mark", "done"} => m > Len(StepsOf[p]),
         HealthIsAnnounced'
  PROVE  IntakeInv'
<1>1. Grows
  BY DEF Grows
<1>2. \A i \in DOMAIN StepsOf[p] : i < m => Settled(StepsOf[p][i])'
  <2>1. \A s : Settled(s) => Settled(s)'
    BY <1>1, SettledStays
  <2>2. \A i \in DOMAIN StepsOf[p] : i \in Nat
    BY DEF Stands
  <2>3. \A i \in DOMAIN StepsOf[p] : i < m => i < n \/ (i = n /\ m = n + 1)
    BY <2>2
  <2>4. QED
    BY <2>1, <2>3 DEF Stands
<1>3. /\ PassedIsSettled' /\ exec' \in [Workers -> Executions \cup {Idle}]
      /\ \A v \in Workers : exec'[v] # Idle => rows'[exec'[v].delivery] # NoRow
  BY <1>1, <1>2, Advance DEF Stands
<1>4. TypeOK'
  BY <1>3 DEF IntakeInv, TypeOK, edge, sweeper
<1>5. RowsExist'
  BY <1>3 DEF IntakeInv, RowsExist, edge, sweeper
<1>6. ProcessedIsComplete'
  BY <1>1, CompleteStays DEF IntakeInv
<1>7. QED
  BY <1>3, <1>4, <1>5, <1>6 DEF IntakeInv

\* Moving to another place, or past the current event, in the words of GoingOn.
LEMMA MovesTo ==
  ASSUME IntakeInv, NEW w \in Workers, NEW d, NEW p, NEW n, NEW at, NEW to,
         Stands(w, d, p, n, at), GoTo(w, to)
  PROVE  exec' = [exec EXCEPT ![w] = [delivery |-> d, pos |-> n, at |-> to]]
<1>1. [exec[w] EXCEPT !.at = to] = [delivery |-> d, pos |-> n, at |-> to]
  BY DEF Stands
<1>2. QED
  BY <1>1 DEF GoTo

LEMMA Moves ==
  ASSUME IntakeInv, NEW w \in Workers, NEW d, NEW p, NEW n, NEW at, Stands(w, d, p, n, at)
  PROVE  /\ Continue(w) =>
              exec' = [exec EXCEPT ![w] = [delivery |-> d, pos |-> n + 1, at |-> "step"]]
         /\ \A place : At(w, place) => place = at
         /\ Current(w) = StepsOf[p][n]
         /\ More(w) <=> n <= Len(StepsOf[p])
<1>1. exec[w] = [delivery |-> d, pos |-> n, at |-> at] /\ rows[d].payload = p
  BY DEF Stands
<1>2. PayloadIn(exec[w].delivery) = p
  BY <1>1 DEF PayloadIn
<1>3. Current(w) = StepsOf[p][n] /\ (More(w) <=> n <= Len(StepsOf[p]))
  BY <1>1, <1>2 DEF Current, More
<1>4. \A place : At(w, place) => place = at
  BY <1>1 DEF At
<1>5. Continue(w) =>
        exec' = [exec EXCEPT ![w] = [delivery |-> d, pos |-> n + 1, at |-> "step"]]
  BY <1>1 DEF Continue
<1>6. QED
  BY <1>2, <1>3, <1>4, <1>5

\* A step to another place of the same event that changes no more than what was announced.
LEMMA GoingTo ==
  ASSUME IntakeInv, NEW w \in Workers,
         NEW d \in Slots, NEW p \in Payloads, NEW n \in Nat \ {0},
         NEW at \in {"load", "step", "health", "mark", "done"},
         NEW to \in {"load", "step", "health", "mark", "done"},
         Stands(w, d, p, n, at), GoTo(w, to),
         UNCHANGED <<edge, rows, job, sweeper, condition, turns, faults>>,
         UNCHANGED <<health, ingested, gone>>,
         announced' \subseteq Steps, announced \subseteq announced',
         to = "health" => n \in DOMAIN StepsOf[p] /\ StepsOf[p][n] \in announced',
         to \in {"mark", "done"} => n > Len(StepsOf[p])
  PROVE  IntakeInv'
<1>1. exec' = [exec EXCEPT ![w] = [delivery |-> d, pos |-> n, at |-> to]]
  BY MovesTo
<1>2. Grows
  BY DEF Grows
<1>3. HealthIsAnnounced'
  BY DEF IntakeInv, HealthIsAnnounced
<1>4. \A i \in DOMAIN StepsOf[p] : i < n => Settled(StepsOf[p][i])'
  BY <1>2, SettledStays DEF Stands
<1>5. /\ PassedIsSettled' /\ exec' \in [Workers -> Executions \cup {Idle}]
      /\ \A v \in Workers : exec'[v] # Idle => rows'[exec'[v].delivery] # NoRow
  BY <1>1, <1>2, <1>4, Advance DEF Stands
<1>6. TypeOK'
  BY <1>5 DEF IntakeInv, TypeOK, edge, sweeper
<1>7. RowsExist'
  BY <1>5 DEF IntakeInv, RowsExist, edge, sweeper
<1>8. ProcessedIsComplete'
  BY <1>2, CompleteStays DEF IntakeInv
<1>9. QED
  BY <1>3, <1>5, <1>6, <1>7, <1>8 DEF IntakeInv

\* The steps of an execution that goes on.
LEMMA WalkingKeeps ==
  ASSUME IntakeInv, NEW w \in Workers,
         \/ LoadDelivery(w) /\ exec'[w] # Idle
         \/ ProcessEventForAccount(w) \/ RecordAuthFailure(w) \/ MarkAuthFailed(w)
         \/ EventsDone(w)
  PROVE  IntakeInv'
<1>1. exec[w] # Idle
  BY DEF LoadDelivery, ProcessEventForAccount, RecordAuthFailure, MarkAuthFailed, EventsDone, At
<1>2. PICK d \in Slots, p \in Payloads, n \in Nat \ {0},
           at \in {"load", "step", "health", "mark", "done"} : Stands(w, d, p, n, at)
  BY <1>1, Standing
<1>3. n + 1 \in Nat \ {0}
  OBVIOUS
<1>4. /\ health \subseteq Accounts /\ ingested \subseteq Steps /\ gone \subseteq Steps
      /\ announced \subseteq Steps /\ HealthIsAnnounced
  BY DEF IntakeInv, TypeOK
<1>5. /\ \A s \in Steps : s[2] \in Accounts
      /\ StepsOf[p] \in Seq(Steps)
  BY <1>2, IntakeAssumption DEF Stands
<1>6. CASE LoadDelivery(w) /\ exec'[w] # Idle
  <2>1. GoTo(w, "step") /\ job' = job
    <3>1. \A state, tries : ~Settle(w, state, tries)
      BY <1>6 DEF Settle, IntakeInv, TypeOK
    <3>2. QED
      BY <1>6, <3>1 DEF LoadDelivery, Throw
  <2>2. UNCHANGED <<edge, rows, sweeper, condition, results, turns, faults>>
    BY <1>6 DEF LoadDelivery
  <2>3. QED
    BY <1>2, <1>4, <2>1, <2>2, GoingTo DEF results
<1>7. CASE ProcessEventForAccount(w)
  <2>1. Current(w) = StepsOf[p][n] /\ n \in DOMAIN StepsOf[p] /\ StepsOf[p][n] \in Steps
    BY <1>2, <1>5, <1>7, Moves DEF ProcessEventForAccount
  <2>2. /\ \/ ingested' = ingested \cup {StepsOf[p][n]} /\ gone' = gone
           \/ gone' = gone \cup {StepsOf[p][n]} /\ ingested' = ingested
        /\ UNCHANGED <<edge, rows, job, sweeper, condition, health, announced, turns, faults>>
        /\ Continue(w)
    BY <1>7, <2>1 DEF ProcessEventForAccount
  <2>3. exec' = [exec EXCEPT ![w] = [delivery |-> d, pos |-> n + 1, at |-> "step"]]
    BY <1>2, <2>2, Moves
  <2>4. Settled(StepsOf[p][n])'
    BY <2>2 DEF Settled
  <2>5. HealthIsAnnounced'
    BY <1>4, <2>2 DEF HealthIsAnnounced
  <2>6. /\ health' \subseteq Accounts /\ ingested' \subseteq Steps /\ gone' \subseteq Steps
        /\ announced' \subseteq Steps /\ ingested \subseteq ingested' /\ gone \subseteq gone'
        /\ announced \subseteq announced'
    BY <1>4, <2>1, <2>2
  <2>7. QED
    BY <1>2, <1>3, <2>2, <2>3, <2>4, <2>5, <2>6, GoingOn
<1>8. CASE RecordAuthFailure(w)
  <2>1. Current(w) = StepsOf[p][n] /\ n \in DOMAIN StepsOf[p] /\ StepsOf[p][n] \in Steps
    BY <1>2, <1>5, <1>8, Moves DEF RecordAuthFailure
  <2>2. /\ announced' = announced \cup {StepsOf[p][n]}
        /\ UNCHANGED <<edge, rows, job, sweeper, condition, health, ingested, gone, turns,
                       faults>>
        /\ GoTo(w, "health")
    BY <1>8, <2>1 DEF RecordAuthFailure
  <2>3. /\ announced' \subseteq Steps /\ announced \subseteq announced'
        /\ StepsOf[p][n] \in announced'
    BY <1>4, <2>1, <2>2
  <2>4. QED
    BY <1>2, <2>1, <2>2, <2>3, GoingTo
<1>9. CASE MarkAuthFailed(w)
  <2>1. /\ Current(w) = StepsOf[p][n] /\ at = "health"
    BY <1>2, <1>9, Moves DEF MarkAuthFailed
  <2>2. n \in DOMAIN StepsOf[p] /\ StepsOf[p][n] \in announced
    BY <1>2, <2>1 DEF Stands
  <2>3. /\ health' = health \cup {StepsOf[p][n][2]}
        /\ UNCHANGED <<edge, rows, job, sweeper, condition, ingested, gone, announced, turns,
                       faults>>
        /\ Continue(w)
    BY <1>9, <2>1 DEF MarkAuthFailed
  <2>4. exec' = [exec EXCEPT ![w] = [delivery |-> d, pos |-> n + 1, at |-> "step"]]
    BY <1>2, <2>3, Moves
  <2>5. Settled(StepsOf[p][n])'
    BY <2>2, <2>3 DEF Settled
  <2>6. HealthIsAnnounced'
    BY <1>4, <2>2, <2>3 DEF HealthIsAnnounced
  <2>7. health' \subseteq Accounts
    BY <1>4, <1>5, <2>2, <2>3
  <2>8. QED
    BY <1>2, <1>3, <1>4, <2>3, <2>4, <2>5, <2>6, <2>7, GoingOn
<1>10. CASE EventsDone(w)
  <2>1. ~(n <= Len(StepsOf[p]))
    BY <1>2, <1>10, Moves DEF EventsDone
  <2>2. /\ UNCHANGED <<edge, rows, job, sweeper, condition, results, turns, faults>>
        /\ GoTo(w, "mark")
    BY <1>10 DEF EventsDone
  <2>3. n > Len(StepsOf[p])
    BY <1>5, <2>1
  <2>4. QED
    BY <1>2, <1>4, <2>2, <2>3, GoingTo DEF results
<1>11. QED
  BY <1>6, <1>7, <1>8, <1>9, <1>10

\* The row is marked by who has everything behind it.
LEMMA MarkingKeeps ==
  ASSUME IntakeInv, NEW w \in Workers, MarkProcessed(w)
  PROVE  IntakeInv'
<1>1. exec[w] # Idle
  BY DEF MarkProcessed, At
<1>2. PICK d \in Slots, p \in Payloads, n \in Nat \ {0},
           at \in {"load", "step", "health", "mark", "done"} : Stands(w, d, p, n, at)
  BY <1>1, Standing
<1>3. at = "mark" /\ exec[w].delivery = d
  BY <1>2, Moves DEF MarkProcessed, Stands
<1>4. /\ StepsOf[p] \in Seq(Steps) /\ n > Len(StepsOf[p])
      /\ \A i \in DOMAIN StepsOf[p] : i < n => Settled(StepsOf[p][i])
      /\ rows[d] \in Deliveries /\ rows[d] # NoRow /\ rows[d].payload = p
  BY <1>2, <1>3 DEF Stands
<1>5. \A i \in DOMAIN StepsOf[p] : Settled(StepsOf[p][i])
  BY <1>4
<1>6. UNCHANGED <<edge, job, sweeper, condition, results, turns, faults>>
  BY DEF MarkProcessed
<1>7. PICK row \in Deliveries : row.payload = p /\ rows' = [rows EXCEPT ![d] = row]
  <2>1. [rows[d] EXCEPT !.processed = TRUE] \in Deliveries
    BY <1>4 DEF Deliveries
  <2>2. [rows[d] EXCEPT !.processed = TRUE].payload = p
    BY <1>4 DEF Deliveries
  <2>3. rows' = [rows EXCEPT ![d] = [rows[d] EXCEPT !.processed = TRUE]]
    BY <1>3 DEF MarkProcessed
  <2>4. QED
    BY <2>1, <2>2, <2>3
<1>8. /\ rows' \in [Slots -> Deliveries \cup {NoRow}] /\ rows'[d] = row /\ row # NoRow
      /\ \A f \in Slots : f # d => rows'[f] = rows[f]
  BY <1>7, IntakeAssumption DEF IntakeInv, TypeOK
<1>9. Grows
  BY <1>4, <1>6, <1>7, <1>8 DEF Grows, results
<1>10. exec' = [exec EXCEPT ![w] = [delivery |-> d, pos |-> n, at |-> "done"]]
  BY <1>2, MovesTo DEF MarkProcessed
<1>11. \A i \in DOMAIN StepsOf[p] : i < n => Settled(StepsOf[p][i])'
  BY <1>5, <1>9, SettledStays
<1>12. /\ PassedIsSettled' /\ exec' \in [Workers -> Executions \cup {Idle}]
       /\ \A v \in Workers : exec'[v] # Idle => rows'[exec'[v].delivery] # NoRow
  BY <1>4, <1>9, <1>10, <1>11, Advance
<1>13. TypeOK'
  BY <1>6, <1>8, <1>12 DEF IntakeInv, TypeOK, edge, sweeper, results
<1>14. RowsExist'
  BY <1>6, <1>8, <1>12 DEF IntakeInv, RowsExist, edge, sweeper
<1>15. ProcessedIsComplete'
  <2>1. \A s : Settled(s) => Settled(s)'
    BY <1>9, SettledStays
  <2>2. PayloadIn(d)' = p
    BY <1>7, <1>8 DEF PayloadIn
  <2>3. \A f \in Slots : f # d => PayloadIn(f)' = PayloadIn(f) /\ rows'[f] = rows[f]
    BY <1>8 DEF PayloadIn
  <2>4. QED
    BY <1>5, <2>1, <2>2, <2>3 DEF ProcessedIsComplete, IntakeInv
<1>16. HealthIsAnnounced'
  BY <1>6 DEF IntakeInv, HealthIsAnnounced, results
<1>17. QED
  BY <1>12, <1>13, <1>14, <1>15, <1>16 DEF IntakeInv

-------------------------------------------------------------------------------
\* IntakeInv is inductive.
LEMMA IntakeKept == ASSUME IntakeInv, [Next]_vars PROVE IntakeInv'
<1>1. CASE UNCHANGED vars
  <2>1. TypeOK' /\ RowsExist' /\ Grows
    BY <1>1 DEF vars, edge, sweeper, results, IntakeInv, TypeOK, RowsExist, Grows
  <2>2. QED
    BY <1>1, <2>1, QuietStep DEF vars, results
<1>2. CASE \E d \in Slots :
             \/ \E p \in Payloads : InsertDelivery(p, d)
             \/ EnqueueDelivery(d) \/ Answer(d) \/ IntakeFails(d)
             \/ \E w \in Workers : TakeJob(w, d)
             \/ BackoffEnds(d) \/ JobStalled(d)
             \/ BecomeStale(d) \/ ReenqueueStuckJob(d) \/ PurgeWebhookDeliveries(d)
  BY <1>2, EdgeKeeps, TakingKeeps, QueueKeeps, WorldKeeps
<1>3. CASE \E w \in Workers : Execute(w) \/ WorkerCrash(w)
  <2>1. PICK w \in Workers : Execute(w) \/ WorkerCrash(w)
    BY <1>3
  <2>2. CASE LoadDelivery(w)
    BY <2>2, EndingSteps, WalkingKeeps
  <2>3. CASE ~LoadDelivery(w)
    BY <2>1, <2>3, EndingSteps, WalkingKeeps, MarkingKeeps DEF Execute
  <2>4. QED
    BY <2>2, <2>3
<1>4. CASE RedisLost \/ WorkerRestarts \/ Sweep
  BY <1>4, QueueKeeps
<1>5. CASE \E a \in Accounts : CredentialChanges(a) \/ ClearHealth(a)
  BY <1>5, WorldKeeps
<1>6. QED
  BY <1>1, <1>2, <1>3, <1>4, <1>5 DEF Next

LEMMA IntakeHolds == Spec => []IntakeInv
  BY InitIntake, IntakeKept, PTL DEF Spec

\* Every variable of the intake keeps its type.
THEOREM TypeCorrect == Spec => []TypeOK
  BY IntakeHolds, PTL DEF IntakeInv

\* processed_at means what it says for any deliveries, accounts, workers and faults:
\* every event was ingested, found gone or announced as its account's failure.
THEOREM ProcessedIsCompleteHolds == Spec => []ProcessedIsComplete
  BY IntakeHolds, PTL DEF IntakeInv

\* No account is recorded as failed before consumers were told.
THEOREM HealthIsAnnouncedHolds == Spec => []HealthIsAnnounced
  BY IntakeHolds, PTL DEF IntakeInv
===============================================================================
