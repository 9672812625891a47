------------------------------ MODULE WebhookIntake ------------------------------
(***************************************************************************)
(* From Meta's POST to the ingestion of every event it carries: the intake *)
(* stores a delivery and enqueues a job for it, the webhook worker runs    *)
(* the delivery's events against every account they concern, BullMQ        *)
(* retries and the sweeper re-enqueues what was lost.  What ingesting one  *)
(* event does to the comment rows is CommentThread's subject.              *)
(***************************************************************************)
EXTENDS Integers, SequencesExt

CONSTANTS
  Slots,        \* ids of webhook_deliveries rows
  Payloads,     \* bodies Meta signs and sends until it is answered 200
  Malformed,    \* payloads that are JSON but that the normalizer rejects
  Accounts,     \* social accounts connected in some workspace
  StepsOf,      \* the <<event, account>> pairs of a payload, in processing order
  Thin,         \* events without text or author, completed by a fetch (A18)
  Workers,      \* slots of the webhook-process worker
  NoRow, Idle, Nobody,
  Conditions,   \* what may be true of the accounts at first
  JobAttempts,  \* JOB_ATTEMPTS
  MaxTurns,     \* bound: times a credential breaks or is repaired
  MaxFaults     \* bound: crashes, errors, stalls, losses of Redis

Steps == UNION {ToSet(StepsOf[p]) : p \in Payloads}

Deliveries == [payload : Payloads, processed : BOOLEAN, age : {"new", "stale", "purged"}]
Executions == [delivery : Slots, pos : Nat \ {0},
               at : {"load", "step", "health", "mark", "done"}]

ASSUME IntakeAssumption ==
  /\ Malformed \subseteq Payloads
  /\ StepsOf \in [Payloads -> Seq(Steps)] /\ \A p \in Malformed : StepsOf[p] = << >>
  /\ \A s \in Steps : s[2] \in Accounts
  /\ Conditions \subseteq [Accounts -> {"ok", "undecryptable", "revoked", "missing"}]
  /\ JobAttempts \in Nat \ {0} /\ {MaxTurns, MaxFaults} \subseteq Nat
  /\ NoRow \notin Deliveries /\ Idle \notin Executions

VARIABLES
  acked,       \* payloads Meta got its 200 for
  handler,     \* where the POST handler of a delivery is
  rows,        \* webhook_deliveries
  job,         \* the job named after a delivery
  exec,        \* what a worker slot is executing
  scheduled,   \* Redis holds the job schedulers of the sweep and the purge
  sweeping,    \* deliveries the sweeper selected and has not come to
  condition,   \* what is true of an account's credential
  health,      \* accounts with an account_health row
  ingested,    \* steps whose upsert or delete committed
  gone,        \* steps whose comment was gone when it was fetched
  announced,   \* steps that appended an account.auth_failed
  turns, faults

edge    == <<acked, handler>>
sweeper == <<scheduled, sweeping>>
results == <<health, ingested, gone, announced>>
vars    == <<edge, rows, job, exec, sweeper, condition, results, turns, faults>>

JobStates == {"none", "waiting", "active", "delayed", "failed", "completed"}
Jobs      == [state : JobStates, tries : 0..JobAttempts, by : Workers \cup {Nobody}]
NoJob     == [state |-> "none", tries |-> 0, by |-> Nobody]

\* Every variable has its type.
TypeOK ==
  /\ acked \subseteq Payloads
  /\ handler \in [Slots -> {"none", "inserted", "enqueued"}]
  /\ rows \in [Slots -> Deliveries \cup {NoRow}]
  /\ job \in [Slots -> Jobs]
  /\ exec \in [Workers -> Executions \cup {Idle}]
  /\ scheduled \in BOOLEAN /\ sweeping \subseteq Slots /\ health \subseteq Accounts
  /\ condition \in [Accounts -> {"ok", "undecryptable", "revoked", "missing"}]
  /\ ingested \subseteq Steps /\ gone \subseteq Steps /\ announced \subseteq Steps
  /\ turns \in 0..MaxTurns /\ faults \in 0..MaxFaults

Init ==
  /\ acked = {} /\ handler = [d \in Slots |-> "none"]
  /\ rows = [d \in Slots |-> NoRow] /\ job = [d \in Slots |-> NoJob]
  /\ exec = [w \in Workers |-> Idle] /\ scheduled = TRUE /\ sweeping = {}
  /\ condition \in Conditions
  /\ health = {} /\ ingested = {} /\ gone = {} /\ announced = {}
  /\ turns = 0 /\ faults = 0

Fault == faults < MaxFaults /\ faults' = faults + 1

-------------------------------------------------------------------------------
(* The intake. *)

InFlight(d) == job[d].state \in {"waiting", "active", "delayed"}
Queued      == [state |-> "waiting", tries |-> 0, by |-> Nobody]

\* Queue.add with a job id that is taken adds nothing, whatever became of that job.
Add(d) == IF job[d].state = "none" THEN [job EXCEPT ![d] = Queued] ELSE job

InsertDelivery(p, d) ==
  /\ p \notin acked /\ rows[d] = NoRow
  /\ rows' = [rows EXCEPT ![d] = [payload |-> p, processed |-> FALSE, age |-> "new"]]
  /\ handler' = [handler EXCEPT ![d] = "inserted"]
  /\ UNCHANGED <<acked, job, exec, sweeper, condition, results, turns, faults>>

EnqueueDelivery(d) ==
  /\ handler[d] = "inserted"
  /\ job' = Add(d)
  /\ handler' = [handler EXCEPT ![d] = "enqueued"]
  /\ UNCHANGED <<acked, rows, exec, sweeper, condition, results, turns, faults>>

Answer(d) ==
  /\ handler[d] = "enqueued"
  /\ acked' = acked \cup {rows[d].payload}
  /\ handler' = [handler EXCEPT ![d] = "none"]
  /\ UNCHANGED <<rows, job, exec, sweeper, condition, results, turns, faults>>

\* The process dies or Redis refuses: Meta gets no 200 and sends the payload again.
IntakeFails(d) ==
  /\ handler[d] # "none" /\ Fault
  /\ handler' = [handler EXCEPT ![d] = "none"]
  /\ UNCHANGED <<acked, rows, job, exec, sweeper, condition, results, turns>>

-------------------------------------------------------------------------------
(* The worker. *)

PayloadIn(d) == rows[d].payload
Current(w)   == StepsOf[PayloadIn(exec[w].delivery)][exec[w].pos]
At(w, place) == exec[w] # Idle /\ exec[w].at = place
GoTo(w, place)   == exec' = [exec EXCEPT ![w] = [@ EXCEPT !.at = place]]
Continue(w)  ==
  exec' = [exec EXCEPT ![w] = [delivery |-> @.delivery, pos |-> @.pos + 1, at |-> "step"]]

TakeJob(w, d) ==
  /\ exec[w] = Idle /\ job[d].state = "waiting"
  /\ exec' = [exec EXCEPT ![w] = [delivery |-> d, pos |-> 1, at |-> "load"]]
  /\ job' = [job EXCEPT ![d] = [@ EXCEPT !.state = "active", !.by = w]]
  /\ UNCHANGED <<edge, rows, sweeper, condition, results, turns, faults>>

\* What BullMQ does with a processor that ended: only who still holds the job's
\* lock moves it.
Settle(w, state, tries) ==
  LET d == exec[w].delivery IN
  /\ job' = IF job[d].by = w
            THEN [job EXCEPT ![d] = [state |-> state, tries |-> tries, by |-> Nobody]]
            ELSE job
  /\ exec' = [exec EXCEPT ![w] = Idle]

Throw(w) ==
  LET tries == job[exec[w].delivery].tries + 1 IN
  IF tries >= JobAttempts THEN Settle(w, "failed", JobAttempts)
                          ELSE Settle(w, "delayed", tries)

LoadDelivery(w) ==
  /\ At(w, "load")
  /\ LET d == exec[w].delivery IN
     IF rows[d].age = "purged" THEN Settle(w, "completed", job[d].tries)
     ELSE IF PayloadIn(d) \in Malformed THEN Throw(w)
     ELSE GoTo(w, "step") /\ UNCHANGED job
  /\ UNCHANGED <<edge, rows, sweeper, condition, results, turns, faults>>

More(w) == exec[w].pos <= Len(StepsOf[PayloadIn(exec[w].delivery)])

\* A credential that does not decrypt fails every step, a revoked token only
\* those that have to ask the platform.
AuthFails(s) ==
  \/ condition[s[2]] = "undecryptable"
  \/ condition[s[2]] = "revoked" /\ s[1] \in Thin

ProcessEventForAccount(w) ==
  /\ At(w, "step") /\ More(w)
  /\ LET s == Current(w) IN
     /\ condition[s[2]] # "missing" /\ ~AuthFails(s)
     /\ \/ ingested' = ingested \cup {s} /\ UNCHANGED gone
        \/ s[1] \in Thin /\ gone' = gone \cup {s} /\ UNCHANGED ingested
  /\ Continue(w)
  /\ UNCHANGED <<edge, rows, job, sweeper, condition, health, announced, turns, faults>>

\* Mutants: the event is left out; the AuthError fails the whole delivery; an
\* account whose failure was announced before is skipped.
RecordQuietly(w) ==
  /\ At(w, "step") /\ More(w) /\ AuthFails(Current(w))
  /\ GoTo(w, "health")
  /\ UNCHANGED <<edge, rows, job, sweeper, condition, results, turns, faults>>

RethrowAuthFailure(w) ==
  /\ At(w, "step") /\ More(w) /\ AuthFails(Current(w))
  /\ Throw(w)
  /\ UNCHANGED <<edge, rows, sweeper, condition, results, turns, faults>>

AnnounceOnce(w) ==
  /\ At(w, "step") /\ More(w) /\ AuthFails(Current(w))
  /\ announced' = announced \cup {Current(w)}
  /\ IF Current(w) \in announced THEN Continue(w) ELSE GoTo(w, "health")
  /\ UNCHANGED <<edge, rows, job, sweeper, condition, health, ingested, gone, turns, faults>>

\* The event commits in a transaction of its own, account_health after it.
RecordAuthFailure(w) ==
  /\ At(w, "step") /\ More(w) /\ AuthFails(Current(w))
  /\ announced' = announced \cup {Current(w)}
  /\ GoTo(w, "health")
  /\ UNCHANGED <<edge, rows, job, sweeper, condition, health, ingested, gone, turns, faults>>

MarkAuthFailed(w) ==
  /\ At(w, "health")
  /\ health' = health \cup {Current(w)[2]}
  /\ Continue(w)
  /\ UNCHANGED <<edge, rows, job, sweeper, condition, ingested, gone, announced, turns, faults>>

\* Mutant: whatever one account's step throws is caught with its AuthErrors.
StepErrorsSwallowed(w) ==
  /\ At(w, "step") /\ More(w) /\ condition[Current(w)[2]] = "missing"
  /\ Continue(w)
  /\ UNCHANGED <<edge, rows, job, sweeper, condition, results, turns, faults>>

\* No credentials row is an Error and no AuthError: it fails the job.
StepThrows(w) ==
  /\ At(w, "step") \/ At(w, "health") \/ At(w, "mark")
  /\ \/ /\ At(w, "step") /\ More(w) /\ condition[Current(w)[2]] = "missing"
        /\ UNCHANGED faults
     \/ Fault
  /\ Throw(w)
  /\ UNCHANGED <<edge, rows, sweeper, condition, results, turns>>

EventsDone(w) ==
  /\ At(w, "step") /\ ~More(w)
  /\ GoTo(w, "mark")
  /\ UNCHANGED <<edge, rows, job, sweeper, condition, results, turns, faults>>

MarkProcessed(w) ==
  /\ At(w, "mark")
  /\ rows' = [rows EXCEPT ![exec[w].delivery].processed = TRUE]
  /\ GoTo(w, "done")
  /\ UNCHANGED <<edge, job, sweeper, condition, results, turns, faults>>

JobCompletes(w) ==
  /\ At(w, "done")
  /\ Settle(w, "completed", job[exec[w].delivery].tries)
  /\ UNCHANGED <<edge, rows, sweeper, condition, results, turns, faults>>

WorkerCrash(w) ==
  /\ exec[w] # Idle /\ Fault
  /\ exec' = [exec EXCEPT ![w] = Idle]
  /\ UNCHANGED <<edge, rows, job, sweeper, condition, results, turns>>

-------------------------------------------------------------------------------
(* BullMQ. *)

BackoffEnds(d) ==
  /\ job[d].state = "delayed"
  /\ job' = [job EXCEPT ![d] = [@ EXCEPT !.state = "waiting"]]
  /\ UNCHANGED <<edge, rows, exec, sweeper, condition, results, turns, faults>>

\* The lock of an active job expired: its worker is dead, or merely slow.
JobStalled(d) ==
  /\ job[d].state = "active"
  /\ LET w == job[d].by IN
     IF exec[w] = Idle \/ exec[w].delivery # d THEN UNCHANGED faults ELSE Fault
  /\ job' = [job EXCEPT ![d] = [@ EXCEPT !.state = "waiting", !.by = Nobody]]
  /\ UNCHANGED <<edge, rows, exec, sweeper, condition, results, turns>>

\* An emptied Redis: the jobs are gone, and so are the job schedulers.
RedisLost ==
  /\ Fault
  /\ job' = [d \in Slots |-> NoJob]
  /\ scheduled' = FALSE
  /\ UNCHANGED <<edge, rows, exec, sweeping, condition, results, turns>>

\* main() is the only code that registers the schedulers.  The slots W, and perhaps the
\* sweep, are the restarted process's; a shutdown that waits for its jobs leaves W empty.
WorkerRestarts ==
  /\ ~scheduled
  /\ scheduled' = TRUE
  /\ sweeping' \in {sweeping, {}}
  /\ \E W \in SUBSET Workers :
       exec' = [w \in Workers |-> IF w \in W THEN Idle ELSE exec[w]]
  /\ UNCHANGED <<edge, rows, job, condition, results, turns, faults>>

-------------------------------------------------------------------------------
(* The webhook-delivery sweeper and the purge. *)

BecomeStale(d) ==
  /\ rows[d] # NoRow /\ rows[d].age = "new"
  /\ rows' = [rows EXCEPT ![d].age = "stale"]
  /\ UNCHANGED <<edge, job, exec, sweeper, condition, results, turns, faults>>

Unprocessed(d) == rows[d] # NoRow /\ rows[d].age = "stale" /\ ~rows[d].processed

Sweep ==
  /\ scheduled /\ sweeping = {} /\ \E d \in Slots : Unprocessed(d) /\ ~InFlight(d)
  /\ sweeping' = {d \in Slots : Unprocessed(d)}
  /\ UNCHANGED <<edge, rows, job, exec, scheduled, condition, results, turns, faults>>

\* A job in flight is left alone, one retained in a terminal state is removed first.
ReenqueueStuckJob(d) ==
  /\ d \in sweeping
  /\ job' = IF InFlight(d) THEN job ELSE [job EXCEPT ![d] = Queued]
  /\ sweeping' = sweeping \ {d}
  /\ UNCHANGED <<edge, rows, exec, scheduled, condition, results, turns, faults>>

\* Seven days outlast every retry: an unprocessed row only gets that old when no
\* attempt can succeed.
Hopeless(p) ==
  p \in Malformed \/ \E s \in ToSet(StepsOf[p]) : condition[s[2]] = "missing"

PurgeWebhookDeliveries(d) ==
  /\ scheduled
  /\ rows[d] # NoRow /\ rows[d].age = "stale"
  /\ rows[d].processed \/ (Hopeless(PayloadIn(d)) /\ job[d].state = "failed")
  /\ rows' = [rows EXCEPT ![d].age = "purged"]
  /\ UNCHANGED <<edge, job, exec, sweeper, condition, results, turns, faults>>

-------------------------------------------------------------------------------
(* The rest of the world. *)

\* A key rotation, a user who disconnects or reconnects.
CredentialChanges(a) ==
  /\ turns < MaxTurns /\ turns' = turns + 1
  /\ condition[a] # "missing"
  /\ condition' = [condition EXCEPT
                     ![a] = IF @ = "ok" THEN "revoked" ELSE "ok"]
  /\ UNCHANGED <<edge, rows, job, exec, sweeper, results, faults>>

\* A finished refresh walk proves the credential works.
ClearHealth(a) ==
  /\ a \in health /\ condition[a] = "ok"
  /\ health' = health \ {a}
  /\ UNCHANGED <<edge, rows, job, exec, sweeper, condition, ingested, gone, announced,
                 turns, faults>>

-------------------------------------------------------------------------------
Execute(w) ==
  \/ LoadDelivery(w) \/ ProcessEventForAccount(w) \/ RecordAuthFailure(w)
  \/ MarkAuthFailed(w) \/ StepThrows(w) \/ EventsDone(w) \/ MarkProcessed(w)
  \/ JobCompletes(w)

Next ==
  \/ \E d \in Slots :
       \/ \E p \in Payloads : InsertDelivery(p, d)
       \/ EnqueueDelivery(d) \/ Answer(d) \/ IntakeFails(d)
       \/ \E w \in Workers : TakeJob(w, d)
       \/ BackoffEnds(d) \/ JobStalled(d)
       \/ BecomeStale(d) \/ ReenqueueStuckJob(d) \/ PurgeWebhookDeliveries(d)
  \/ \E w \in Workers : Execute(w) \/ WorkerCrash(w)
  \/ RedisLost \/ WorkerRestarts \/ Sweep
  \/ \E a \in Accounts : CredentialChanges(a) \/ ClearHealth(a)

Spec == Init /\ [][Next]_vars

\* The code's own scheduling: workers, BullMQ's timers and, while it is registered, the
\* repeatable sweep keep going; Meta need not send, nobody has to repair a credential.
IntakeFairness ==
  /\ \A w \in Workers : WF_vars(Execute(w))
  /\ \A d \in Slots :
       /\ WF_vars(\E w \in Workers : TakeJob(w, d))
       /\ WF_vars(BackoffEnds(d))
       /\ WF_vars(LET w == job[d].by IN
                  job[d].state = "active" /\ (exec[w] = Idle \/ exec[w].delivery # d)
                  /\ JobStalled(d))
       /\ WF_vars(BecomeStale(d)) /\ WF_vars(ReenqueueStuckJob(d))
  /\ WF_vars(Sweep)

\* Operation, not code: after an emptied Redis somebody restarts a worker, and within the
\* seven days a delivery is kept.
Operated == WF_vars(WorkerRestarts)

FairSpec == Spec /\ IntakeFairness /\ Operated

-------------------------------------------------------------------------------
(* Safety *)

Settled(s) == s \in ingested \cup gone \cup announced

\* processed_at is only set once every event has, for every account it concerns,
\* either been ingested or been recorded as that account's auth failure; through
\* retries, two executions of one job and crashes.
ProcessedIsComplete ==
  \A d \in Slots : rows[d] # NoRow /\ rows[d].processed =>
    \A i \in DOMAIN StepsOf[PayloadIn(d)] : Settled(StepsOf[PayloadIn(d)][i])

\* An account is never taken out of service without consumers having been told.
HealthIsAnnounced ==
  \A a \in health : \E s \in announced : s[2] = a

(* Liveness *)

Serviceable(p) ==
  p \notin Malformed /\ \A s \in ToSet(StepsOf[p]) : condition[s[2]] # "missing"

\* What Meta was answered 200 for is settled for every account, whatever becomes of its
\* job and of the workers, and whatever is wrong with another account's credential.  An
\* emptied Redis takes the sweep with it: the property is owed to a worker's restart then.
AckedIsSettled ==
  \A p \in Payloads : p \in acked /\ Serviceable(p) ~> \A s \in ToSet(StepsOf[p]) : Settled(s)

\* An auth failure that has been announced is also recorded in account_health, crash
\* or no crash, unless the credential works again before the delivery is retried or
\* worked for another execution of the same job.
AnnouncedIsRecorded ==
  \A s \in Steps :
    (\E w \in Workers : /\ At(w, "health") /\ Current(w) = s
                        /\ Serviceable(PayloadIn(exec[w].delivery)))
      ~> s[2] \in health \/ condition[s[2]] = "ok" \/ s \in ingested \cup gone
===============================================================================
