--------------------------- MODULE OutboxRelay_proofs ---------------------------
(***************************************************************************)
(* For any events, runners, orders, batch sizes and faults: a stamp is     *)
(* only set on a delivered event, an event stamped or being taken back is  *)
(* never queued again, and no row leaves the table undelivered but those   *)
(* taken back as replies of our own.  All of it follows from what the row  *)
(* locks keep true.                                                        *)
(***************************************************************************)
EXTENDS OutboxRelay, TLAPS

\* A runner only holds rows that are there and unpublished.
HeldUnpublished == \A r \in Runners : held[r] \subseteq rows \ stamped

\* FOR UPDATE: no row is held twice.
LocksExclusive == \A q, r \in Runners : q # r => held[q] \cap held[r] = {}

\* Who is about to stamp has had its rows accepted.
StampsDelivered ==
  \A r \in Runners : pc[r] \in {"stampBatch", "stampRow"} => held[r] \subseteq delivered

\* The DELETE of an echo's event holds an unpublished row that no runner holds, and what
\* it took back is neither in the table nor stamped.
EchoLocks ==
  /\ doomed \subseteq Echoes \cap (rows \ stamped)
  /\ \A r \in Runners : held[r] \cap doomed = {}
  /\ withdrawn \cap (rows \cup stamped) = {}

LockInv ==
  /\ TypeOK /\ HeldUnpublished /\ LocksExclusive /\ StampsDelivered /\ StampedWasDelivered
  /\ EchoLocks


\* At first there is no row, no lock and no stamp.
LEMMA InitLocks == ASSUME Init PROVE LockInv
  BY RelayAssumption
  DEF Init, LockInv, TypeOK, HeldUnpublished, LocksExclusive, StampsDelivered,
      StampedWasDelivered, EchoLocks

\* A batch is taken from the unpublished rows nobody else holds.
LEMMA OldestIsPart == ASSUME NEW S PROVE Oldest(S) \subseteq S
  BY DEF Oldest

\* The steps of those who append, trim and purge keep the invariant.
LEMMA OthersKeepLocks ==
  ASSUME LockInv,
         (\E e \in Events : AppendToOutbox(e) \/ Trim(e)) \/ PurgePublishedOutboxEvents
  PROVE  LockInv'
<1> USE DEF LockInv, TypeOK, HeldUnpublished, LocksExclusive, StampsDelivered,
            StampedWasDelivered, EchoLocks, rowVars, queueVars, echoVars
<1>1. CASE \E e \in Events : AppendToOutbox(e)
  BY <1>1 DEF AppendToOutbox
<1>2. CASE \E e \in Events : Trim(e)
  BY <1>2, RelayAssumption DEF Trim, Fault
<1>3. CASE PurgePublishedOutboxEvents
  BY <1>3 DEF PurgePublishedOutboxEvents
<1>4. QED
  BY <1>1, <1>2, <1>3

\* The transaction that takes an echo's event back keeps the invariant, however it ends.
LEMMA EchoesKeepLocks ==
  ASSUME LockInv, NEW e \in Events, DeleteEchoed(e) \/ CommitEchoed(e) \/ RollBackEchoed(e)
  PROVE  LockInv'
<1> USE DEF LockInv, TypeOK, HeldUnpublished, LocksExclusive, StampsDelivered,
            StampedWasDelivered, EchoLocks, queueVars
<1>1. CASE DeleteEchoed(e)
  BY <1>1 DEF DeleteEchoed
<1>2. CASE CommitEchoed(e)
  BY <1>2 DEF CommitEchoed
<1>3. CASE RollBackEchoed(e)
  BY <1>3, RelayAssumption DEF RollBackEchoed, Fault
<1>4. QED
  BY <1>1, <1>2, <1>3

\* Taking locks: the batch and the single row are unpublished and free.
LEMMA LockingKeepsLocks ==
  ASSUME LockInv, NEW r \in Runners, SelectBatch(r) \/ LockRow(r)
  PROVE  LockInv'
<1> USE DEF LockInv, TypeOK, HeldUnpublished, LocksExclusive, StampsDelivered,
            StampedWasDelivered, EchoLocks, queueVars, rowVars, echoVars, Go
<1>1. CASE SelectBatch(r)
  <2> DEFINE batch == Oldest(Unpublished \ LockedByOthers(r))
  <2>1. /\ batch \subseteq rows \ stamped /\ batch \cap doomed = {}
        /\ \A q \in Runners \ {r} : held[q] \cap batch = {}
    BY OldestIsPart DEF Unpublished, LockedByOthers
  <2>2. UNCHANGED <<rowVars, queueVars, todo, faults>>
    BY <1>1 DEF SelectBatch
  <2>3. \/ pc' = [pc EXCEPT ![r] = "idle"] /\ held' = held
        \/ pc' = [pc EXCEPT ![r] = "bulk"] /\ held' = [held EXCEPT ![r] = batch]
    BY <1>1 DEF SelectBatch
  <2> HIDE DEF batch
  <2>4. QED
    BY <2>1, <2>2, <2>3
<1>2. CASE LockRow(r)
  <2>1. PICK e \in Events :
          /\ IsNext(r, e)
          /\ IF e \in stamped \cup LockedByOthers(r) \/ e \notin rows
             THEN Visited(r, e) /\ UNCHANGED held
             ELSE held' = [held EXCEPT ![r] = {e}] /\ Go(r, "add") /\ UNCHANGED todo
    BY <1>2 DEF LockRow
  <2>2. UNCHANGED <<rowVars, queueVars, faults>>
    BY <1>2 DEF LockRow
  <2>3. CASE e \in stamped \cup LockedByOthers(r) \/ e \notin rows
    BY <2>1, <2>2, <2>3 DEF Visited
  <2>4. CASE ~(e \in stamped \cup LockedByOthers(r) \/ e \notin rows)
    <3>1. e \notin doomed /\ \A q \in Runners \ {r} : held[q] \cap {e} = {}
      BY <2>4 DEF LockedByOthers
    <3>2. QED
      BY <2>1, <2>2, <2>4, <3>1
  <2>5. QED
    BY <2>3, <2>4
<1>3. QED
  BY <1>1, <1>2

\* Publishing: only rows that are held go on the queue.
LEMMA AddingKeepsLocks ==
  ASSUME LockInv, NEW r \in Runners,
         AddBulk(r) \/ AddBulkFails(r) \/ AddRow(r) \/ AddRowFails(r)
  PROVE  LockInv'
<1> USE DEF LockInv, TypeOK, HeldUnpublished, LocksExclusive, StampsDelivered,
            StampedWasDelivered, EchoLocks, rowVars, echoVars, Go
<1>1. CASE AddBulk(r) \/ AddRow(r)
  BY <1>1 DEF AddBulk, AddRow, Enqueue
<1>2. CASE AddBulkFails(r) \/ AddRowFails(r)
  <2>1. PICK S \in SUBSET (held[r] \ Poison) :
          queue' = queue \cup S /\ delivered' = delivered \cup S
    BY <1>2 DEF AddBulkFails, AddRowFails, Enqueue
  <2>2. /\ pc' = [pc EXCEPT ![r] = "fallback"] \/ pc' = [pc EXCEPT ![r] = "failed"]
        /\ held' = [held EXCEPT ![r] = {}]
        /\ UNCHANGED <<rowVars, todo>>
        /\ faults' \in 0..MaxFaults
    BY <1>2, RelayAssumption DEF AddBulkFails, AddRowFails, Release, Fault
  <2>3. QED
    BY <2>1, <2>2
<1>3. QED
  BY <1>1, <1>2

\* Stamping: only a runner's own rows, and they have been delivered.
LEMMA StampingKeepsLocks ==
  ASSUME LockInv, NEW r \in Runners,
         StampBatch(r) \/ StampBatchFails(r) \/ StampRow(r) \/ StampRowFails(r)
  PROVE  LockInv'
<1> USE DEF LockInv, TypeOK, HeldUnpublished, LocksExclusive, StampsDelivered,
            StampedWasDelivered, EchoLocks
<1>1. /\ held[r] \subseteq delivered
      /\ stamped' = stamped \/ stamped' = stamped \cup held[r]
      /\ held' = [held EXCEPT ![r] = {}]
      /\ UNCHANGED <<createdAt, rows, attempts, doomed, withdrawn, queue, delivered>>
  BY DEF StampBatch, StampBatchFails, StampRow, StampRowFails, Release, queueVars, echoVars
<1>2. \E place \in {"batch", "idle", "fallback", "row", "failed"} :
         pc' = [pc EXCEPT ![r] = place]
  BY DEF StampBatch, StampBatchFails, StampRow, StampRowFails, Go, Visited
<1>3. todo' \in [Runners -> SUBSET Events] /\ faults' \in 0..MaxFaults
  BY RelayAssumption DEF StampBatch, StampBatchFails, StampRow, StampRowFails, Visited, Fault
<1>4. QED
  BY <1>1, <1>2, <1>3

\* The other steps of a pass neither lock nor queue nor stamp.
LEMMA PassingKeepsLocks ==
  ASSUME LockInv, NEW r \in Runners,
         StartPass(r) \/ RelayRowByRow(r) \/ RecordFailure(r) \/ EndPass(r) \/ Crash(r)
  PROVE  LockInv'
<1> USE DEF LockInv, TypeOK, HeldUnpublished, LocksExclusive, StampsDelivered,
            StampedWasDelivered, EchoLocks
<1>1. /\ held' = held \/ held' = [held EXCEPT ![r] = {}]
      /\ UNCHANGED <<createdAt, rows, stamped, doomed, withdrawn, queue, delivered>>
  BY DEF StartPass, RelayRowByRow, RecordFailure, EndPass, Crash, Release, rowVars, echoVars,
         queueVars
<1>2. \E place \in {"batch", "row", "idle"} : pc' = [pc EXCEPT ![r] = place]
  BY DEF StartPass, RelayRowByRow, RecordFailure, EndPass, Crash, Go, Visited
<1>3. todo' \in [Runners -> SUBSET Events]
  BY OldestIsPart
  DEF StartPass, RelayRowByRow, RecordFailure, EndPass, Crash, Visited, Unpublished
<1>4. faults' \in 0..MaxFaults
  BY RelayAssumption DEF StartPass, RelayRowByRow, RecordFailure, EndPass, Crash, Fault
<1>5. attempts' \in [Events -> 0..PoisonAttempts]
  BY RelayAssumption
  DEF StartPass, RelayRowByRow, RecordFailure, EndPass, Crash, Count, rowVars
<1>6. QED
  BY <1>1, <1>2, <1>3, <1>4, <1>5

\* LockInv is inductive.
LEMMA LocksKept == ASSUME LockInv, [Next]_vars PROVE LockInv'
<1>1. CASE UNCHANGED vars
  BY <1>1 DEF vars, rowVars, queueVars, echoVars, LockInv, TypeOK, HeldUnpublished,
              LocksExclusive, StampsDelivered, StampedWasDelivered, EchoLocks
<1>2. CASE Next
  BY <1>2, OthersKeepLocks, EchoesKeepLocks, LockingKeepsLocks, AddingKeepsLocks, StampingKeepsLocks,
     PassingKeepsLocks DEF Next, RelayNext, Pass
<1>3. QED
  BY <1>1, <1>2

LEMMA LocksHold == Spec => []LockInv
  BY InitLocks, LocksKept, PTL DEF Spec

\* Every variable of the relay keeps its type, and what is delivered was appended: it is in
\* the table, or stamped, or taken back as a reply of our own.
THEOREM TypeCorrect == Spec => []TypeOK
  BY LocksHold, PTL DEF LockInv

\* The stamp the purge relies on: whatever fails, overlaps or dies, it is only
\* set on an event the queue has accepted.
THEOREM StampedWasDeliveredHolds == Spec => []StampedWasDelivered
  BY LocksHold, PTL DEF LockInv

\* An event that is stamped, or that somebody has deleted, is never put on the queue again,
\* with any number of runners.
THEOREM NeverQueuedOnceSettledHolds == Spec => NeverQueuedOnceSettled
<1>1. ASSUME LockInv, [Next]_vars
      PROVE  [\A e \in queue' \ queue : e \notin stamped \cup doomed \cup withdrawn]_vars
  <2> SUFFICES ASSUME NEW e \in queue' \ queue
               PROVE  e \notin stamped \cup doomed \cup withdrawn
    OBVIOUS
  <2>1. PICK r \in Runners : AddBulk(r) \/ AddBulkFails(r) \/ AddRow(r) \/ AddRowFails(r)
    BY <1>1 DEF vars, rowVars, queueVars, Next, RelayNext, Pass, AppendToOutbox, Trim,
       PurgePublishedOutboxEvents, DeleteEchoed, CommitEchoed, RollBackEchoed, StartPass,
       SelectBatch, StampBatch, StampBatchFails, RelayRowByRow, LockRow, StampRow,
       StampRowFails, RecordFailure, EndPass, Crash
  <2>2. queue' \subseteq queue \cup held[r]
    BY <2>1 DEF AddBulk, AddBulkFails, AddRow, AddRowFails, Enqueue
  <2>3. QED
    BY <1>1, <2>2 DEF LockInv, HeldUnpublished, EchoLocks
<1>2. QED
  BY <1>1, LocksHold, PTL DEF Spec, NeverQueuedOnceSettled

\* A row leaves the table only after the queue has had its event, or as the one of a reply
\* of our own.
THEOREM NoEventLostHolds == Spec => NoEventLost
<1>1. ASSUME LockInv, [Next]_vars PROVE [rows \ rows' \subseteq delivered \cup Echoes]_vars
  <2>1. \/ rows \subseteq rows' \/ rows' = rows \ stamped
        \/ \E e \in doomed : rows' = rows \ {e}
    BY <1>1 DEF vars, rowVars, queueVars, Next, RelayNext, Pass, AppendToOutbox, Trim,
       PurgePublishedOutboxEvents, DeleteEchoed, CommitEchoed, RollBackEchoed, StartPass,
       SelectBatch, StampBatch, StampBatchFails, RelayRowByRow, LockRow, StampRow,
       StampRowFails, RecordFailure, EndPass, Crash, AddBulk, AddBulkFails, AddRow, AddRowFails
  <2>2. QED
    BY <1>1, <2>1 DEF LockInv, StampedWasDelivered, EchoLocks
<1>2. QED
  BY <1>1, LocksHold, PTL DEF Spec, NoEventLost
===============================================================================
