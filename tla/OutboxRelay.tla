------------------------------- MODULE OutboxRelay -------------------------------
(***************************************************************************)
(* The transactional outbox and its relay: rows appended by other          *)
(* transactions are put on the `domain-events` queue in bulk, a batch that *)
(* fails in bulk is retried row by row, the queue is trimmed and the       *)
(* stamped rows are purged.  A comment.received that turns out to announce *)
(* our own reply is deleted unpublished by the publish worker.  A runner   *)
(* is one execution of the scheduler queue's `relay-outbox` job; a second  *)
(* one only exists after a stall.                                          *)
(***************************************************************************)
EXTENDS Integers, FiniteSets

CONSTANTS
  Events,          \* ids of outbox rows
  Orders,          \* what their created_at may be: when the appending transaction began
  Poison,          \* rows BullMQ never accepts
  Echoes,          \* comment.received rows of comments that are replies of ours
  Runners,
  BatchSize,       \* BATCH_SIZE
  PoisonAttempts,  \* POISON_ATTEMPTS: where a failing row is reported as an error
  MaxFaults        \* bound: crashes, stalls, lost answers, rollbacks, trims of unstamped rows

ASSUME RelayAssumption ==
  /\ IsFiniteSet(Events) /\ Poison \subseteq Events /\ Echoes \subseteq Events
  /\ Orders \subseteq [Events -> Nat]
  /\ \A c \in Orders : \A e, f \in Events : c[e] = c[f] => e = f
  /\ BatchSize \in Nat \ {0} /\ PoisonAttempts \in Nat \ {0} /\ MaxFaults \in Nat

VARIABLES
  createdAt,  \* given to an event before its row is there
  rows,       \* ids in outbox_events
  stamped,    \* events with a published_at, those already purged included
  doomed,     \* rows a publish worker's transaction has deleted and not committed
  withdrawn,  \* events whose row such a transaction took back
  attempts,   \* outbox_events.attempts, counted up to PoisonAttempts
  queue,      \* jobs in domain-events
  delivered,  \* every event that ever was in domain-events
  pc,         \* where a runner is in its pass
  held,       \* the rows a runner's transaction has locked
  todo,       \* the rows a runner still visits one by one
  faults

echoVars  == <<doomed, withdrawn>>
rowVars   == <<createdAt, rows, stamped, attempts, echoVars>>
queueVars == <<queue, delivered>>
vars      == <<rowVars, queueVars, pc, held, todo, faults>>

\* Every variable has its type, and what is stamped or queued was appended.
TypeOK ==
  /\ createdAt \in Orders
  /\ rows \subseteq Events /\ stamped \subseteq Events
  /\ doomed \subseteq Events /\ withdrawn \subseteq Echoes
  /\ delivered \subseteq rows \cup stamped \cup withdrawn /\ queue \subseteq delivered
  /\ attempts \in [Events -> 0..PoisonAttempts]
  /\ pc \in [Runners -> {"idle", "batch", "bulk", "stampBatch", "fallback", "row",
                         "add", "stampRow", "failed"}]
  /\ held \in [Runners -> SUBSET Events] /\ todo \in [Runners -> SUBSET Events]
  /\ faults \in 0..MaxFaults

Init ==
  /\ createdAt \in Orders
  /\ rows = {} /\ stamped = {} /\ attempts = [e \in Events |-> 0]
  /\ doomed = {} /\ withdrawn = {} /\ queue = {} /\ delivered = {}
  /\ pc = [r \in Runners |-> "idle"] /\ held = [r \in Runners |-> {}]
  /\ todo = [r \in Runners |-> {}] /\ faults = 0

Fault == faults < MaxFaults /\ faults' = faults + 1

Go(r, next) == pc' = [pc EXCEPT ![r] = next]
Release(r)  == held' = [held EXCEPT ![r] = {}]
Enqueue(S)  == queue' = queue \cup S /\ delivered' = delivered \cup S

-------------------------------------------------------------------------------
(* Everybody else. *)

\* The row commits with its business transaction, which may have begun before
\* that of rows that are there already.
AppendToOutbox(e) ==
  /\ e \notin rows \cup stamped \cup withdrawn
  /\ rows' = rows \cup {e}
  /\ UNCHANGED <<createdAt, stamped, attempts, echoVars, queueVars, pc, held, todo, faults>>

\* Jobs past their TTL are dropped; one whose row is unstamped needs the relay
\* to have been down that long.
Trim(e) ==
  /\ e \in queue
  /\ queue' = queue \ {e}
  /\ IF e \in stamped THEN UNCHANGED faults ELSE Fault
  /\ UNCHANGED <<rowVars, delivered, pc, held, todo>>

PurgePublishedOutboxEvents ==
  /\ rows \cap stamped # {}
  /\ rows' = rows \ stamped
  /\ UNCHANGED <<createdAt, stamped, attempts, echoVars, queueVars, pc, held, todo, faults>>

\* The DELETE of deleteEchoedDuplicate: it waits for a runner that holds the row, looks at
\* published_at again, and holds the row itself until its transaction ends.
DeleteEchoed(e) ==
  /\ e \in Echoes /\ e \in rows \ (stamped \cup doomed)
  /\ \A r \in Runners : e \notin held[r]
  /\ doomed' = doomed \cup {e}
  /\ UNCHANGED <<createdAt, rows, stamped, attempts, withdrawn, queueVars, pc, held, todo, faults>>

CommitEchoed(e) ==
  /\ e \in doomed
  /\ doomed' = doomed \ {e} /\ rows' = rows \ {e} /\ withdrawn' = withdrawn \cup {e}
  /\ UNCHANGED <<createdAt, stamped, attempts, queueVars, pc, held, todo, faults>>

\* A later statement of the transaction fails, or its worker dies.
RollBackEchoed(e) ==
  /\ e \in doomed /\ Fault
  /\ doomed' = doomed \ {e}
  /\ UNCHANGED <<createdAt, rows, stamped, attempts, withdrawn, queueVars, pc, held, todo>>

-------------------------------------------------------------------------------
(* The relay. *)

LockedByOthers(r) == doomed \cup UNION {held[q] : q \in Runners \ {r}}

\* The oldest BatchSize of a set of rows.
Oldest(S) ==
  {e \in S : Cardinality({f \in S : createdAt[f] < createdAt[e]}) < BatchSize}

Unpublished == rows \ stamped

StartPass(r) ==
  /\ pc[r] = "idle"
  /\ IF \A q \in Runners : pc[q] = "idle" THEN UNCHANGED faults ELSE Fault
  /\ Go(r, "batch")
  /\ UNCHANGED <<rowVars, queueVars, held, todo>>

SelectBatch(r) ==
  /\ pc[r] = "batch"
  /\ LET batch == Oldest(Unpublished \ LockedByOthers(r)) IN
     IF batch = {}
     THEN Go(r, "idle") /\ UNCHANGED held
     ELSE Go(r, "bulk") /\ held' = [held EXCEPT ![r] = batch]
  /\ UNCHANGED <<rowVars, queueVars, todo, faults>>

AddBulk(r) ==
  /\ pc[r] = "bulk" /\ held[r] \cap Poison = {}
  /\ Enqueue(held[r]) /\ Go(r, "stampBatch")
  /\ UNCHANGED <<rowVars, held, todo, faults>>

\* Mutant: the error of addBulk is swallowed and the batch is stamped.
AddBulkSwallowed(r) ==
  /\ pc[r] = "bulk" /\ held[r] \cap Poison # {}
  /\ Enqueue(held[r] \ Poison) /\ Go(r, "stampBatch")
  /\ UNCHANGED <<rowVars, held, todo, faults>>

\* The answer is an error, and any of the jobs may have been added all the same.
AddBulkFails(r) ==
  /\ pc[r] = "bulk"
  /\ IF held[r] \cap Poison = {} THEN Fault ELSE UNCHANGED faults
  /\ \E S \in SUBSET (held[r] \ Poison) : Enqueue(S)
  /\ Release(r) /\ Go(r, "fallback")
  /\ UNCHANGED <<rowVars, todo>>

StampBatch(r) ==
  /\ pc[r] = "stampBatch"
  /\ stamped' = stamped \cup held[r]
  /\ Go(r, IF Cardinality(held[r]) = BatchSize THEN "batch" ELSE "idle")
  /\ Release(r)
  /\ UNCHANGED <<createdAt, rows, attempts, echoVars, queueVars, todo, faults>>

\* The commit's answer is lost: it happened or it did not.
StampBatchFails(r) ==
  /\ pc[r] = "stampBatch" /\ Fault
  /\ stamped' \in {stamped, stamped \cup held[r]}
  /\ Release(r) /\ Go(r, "fallback")
  /\ UNCHANGED <<createdAt, rows, attempts, echoVars, queueVars, todo>>

\* No lock here, and the rows may not be those that failed in bulk.
RelayRowByRow(r) ==
  /\ pc[r] = "fallback"
  /\ todo' = [todo EXCEPT ![r] = Oldest(Unpublished)]
  /\ Go(r, "row")
  /\ UNCHANGED <<rowVars, queueVars, held, faults>>

\* Rows are visited oldest first.
IsNext(r, e) == e \in todo[r] /\ \A f \in todo[r] : createdAt[e] <= createdAt[f]
Visited(r, e) == todo' = [todo EXCEPT ![r] = @ \ {e}] /\ Go(r, "row")

\* Mutant: the row is read under its lock, its published_at is not looked at.
LockRowBlindly(r) ==
  /\ pc[r] = "row"
  /\ \E e \in Events :
       /\ IsNext(r, e)
       /\ IF e \in LockedByOthers(r) \/ e \notin rows
          THEN Visited(r, e) /\ UNCHANGED held
          ELSE held' = [held EXCEPT ![r] = {e}] /\ Go(r, "add") /\ UNCHANGED todo
  /\ UNCHANGED <<rowVars, queueVars, faults>>

\* Locked by somebody else, stamped or gone since the list was read: skipped.
LockRow(r) ==
  /\ pc[r] = "row"
  /\ \E e \in Events :
       /\ IsNext(r, e)
       /\ IF e \in stamped \cup LockedByOthers(r) \/ e \notin rows
          THEN Visited(r, e) /\ UNCHANGED held
          ELSE held' = [held EXCEPT ![r] = {e}] /\ Go(r, "add") /\ UNCHANGED todo
  /\ UNCHANGED <<rowVars, queueVars, faults>>

AddRow(r) ==
  /\ pc[r] = "add" /\ held[r] \cap Poison = {}
  /\ Enqueue(held[r]) /\ Go(r, "stampRow")
  /\ UNCHANGED <<rowVars, held, todo, faults>>

AddRowFails(r) ==
  /\ pc[r] = "add"
  /\ IF held[r] \cap Poison = {} THEN Fault ELSE UNCHANGED faults
  /\ \E S \in SUBSET (held[r] \ Poison) : Enqueue(S)
  /\ Release(r) /\ Go(r, "failed")
  /\ UNCHANGED <<rowVars, todo>>

StampRow(r) ==
  /\ pc[r] = "stampRow"
  /\ stamped' = stamped \cup held[r]
  /\ \E e \in held[r] : Visited(r, e)
  /\ Release(r)
  /\ UNCHANGED <<createdAt, rows, attempts, echoVars, queueVars, faults>>

StampRowFails(r) ==
  /\ pc[r] = "stampRow" /\ Fault
  /\ stamped' \in {stamped, stamped \cup held[r]}
  /\ Release(r) /\ Go(r, "failed")
  /\ UNCHANGED <<createdAt, rows, attempts, echoVars, queueVars, todo>>

Count(e) ==
  attempts' = [attempts EXCEPT ![e] = IF e \in rows /\ @ < PoisonAttempts THEN @ + 1 ELSE @]

\* Mutants: a failure is rethrown, so the rows behind it are never visited; a
\* failure is not counted.
RethrowFailure(r) ==
  /\ pc[r] = "failed"
  /\ \E e \in Events \ doomed : IsNext(r, e) /\ Count(e)
  /\ todo' = [todo EXCEPT ![r] = {}] /\ Go(r, "idle")
  /\ UNCHANGED <<createdAt, rows, stamped, echoVars, queueVars, held, faults>>

IgnoreFailure(r) ==
  /\ pc[r] = "failed"
  /\ \E e \in Events \ doomed : IsNext(r, e) /\ Visited(r, e)
  /\ UNCHANGED <<rowVars, queueVars, held, faults>>

\* The row's transaction has rolled back; the count is a statement of its own, and waits
\* for whoever is deleting the row.
RecordFailure(r) ==
  /\ pc[r] = "failed"
  /\ \E e \in Events \ doomed : IsNext(r, e) /\ Count(e) /\ Visited(r, e)
  /\ UNCHANGED <<createdAt, rows, stamped, echoVars, queueVars, held, faults>>

\* A pass that failed in bulk ends with its todo, whatever is left in the table.
EndPass(r) ==
  /\ pc[r] = "row" /\ todo[r] = {}
  /\ Go(r, "idle")
  /\ UNCHANGED <<rowVars, queueVars, held, todo, faults>>

\* The process dies; Postgres rolls its transaction back.
Crash(r) ==
  /\ pc[r] # "idle" /\ Fault
  /\ Release(r) /\ Go(r, "idle") /\ todo' = [todo EXCEPT ![r] = {}]
  /\ UNCHANGED <<rowVars, queueVars>>

-------------------------------------------------------------------------------
Pass(r) ==
  \/ SelectBatch(r) \/ AddBulk(r) \/ AddBulkFails(r)
  \/ StampBatch(r) \/ StampBatchFails(r)
  \/ RelayRowByRow(r) \/ LockRow(r) \/ AddRow(r) \/ AddRowFails(r)
  \/ StampRow(r) \/ StampRowFails(r) \/ RecordFailure(r) \/ EndPass(r)

RelayNext ==
  \/ \E r \in Runners : StartPass(r) \/ Pass(r) \/ Crash(r)
  \/ \E e \in Events : Trim(e) \/ DeleteEchoed(e) \/ CommitEchoed(e) \/ RollBackEchoed(e)
  \/ PurgePublishedOutboxEvents

Next == RelayNext \/ \E e \in Events : AppendToOutbox(e)

Spec == Init /\ [][Next]_vars

\* The repeatable job keeps starting passes, a pass that has begun goes on, and so does
\* the transaction of a publish worker.
RelayFairness ==
  /\ WF_vars(\E r \in Runners : StartPass(r))
  /\ \A r \in Runners : WF_vars(Pass(r))
  /\ \A e \in Events : WF_vars(CommitEchoed(e))

FairSpec == Spec /\ RelayFairness

-------------------------------------------------------------------------------
(* Safety *)

\* A stamp, on which the purge relies, is only ever set on an event the queue
\* accepted; also when answers are lost, runners overlap and passes die.
StampedWasDelivered == stamped \subseteq delivered

\* An event is put on the queue only as long as no stamp of it committed and nobody has
\* deleted it: doubled deliveries come from lost answers and never from a stamped row, also
\* after the trim has dropped the job that carried its id, and no comment is announced once
\* it is being taken back as a reply of our own.
NeverQueuedOnceSettled ==
  [][\A e \in queue' \ queue : e \notin stamped \cup doomed \cup withdrawn]_vars

\* An event leaves the table only when the queue has had it; the one exception is the
\* comment.received of a reply of our own, taken back before it was published.
NoEventLost ==
  [][rows \ rows' \subseteq delivered \cup Echoes]_vars

(* Liveness *)

\* Rows no queue accepts and rows behind them in the line: the healthy event is
\* relayed whatever is ahead of it, as long as the poison rows are fewer than a batch,
\* unless it is an echo's and taken back first.
EveryEventRelayed ==
  \A e \in Events \ Poison :
    e \in rows ~> e \in stamped \/ (e \in Echoes /\ e \in withdrawn)

\* A row that cannot be published is tried until it counts as an incident or is taken back.
PoisonIsReported ==
  \A e \in Poison : e \in rows ~> attempts[e] = PoisonAttempts \/ e \in withdrawn
===============================================================================
