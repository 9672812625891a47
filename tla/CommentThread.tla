----------------------------- MODULE CommentThread -----------------------------
(***************************************************************************)
(* The comment rows of one post: how webhook deliveries and the pages of a *)
(* refresh walk are ingested into one tree of rows, how a walk infers what *)
(* the platform removed, and how the retention purge takes threads away.   *)
(*                                                                         *)
(* A transaction of ingestion reads, and asks the platform for ancestors,  *)
(* one step at a time; its writes lock every row they touch until it       *)
(* commits, so they are one step.                                          *)
(***************************************************************************)
EXTENDS Integers, FiniteSets, Sequences, Functions

CONSTANTS
  Ids,            \* the comments people write under the post
  Post,           \* the post itself
  ParentOf,       \* what a comment answers: another one, or the post
  PageOf,         \* the page of a walk that lists it
  Anonymous,      \* comments Meta delivers without text and author (A18)
  Platforms,      \* "meta" and "bluesky", or one of them
  NoKey,          \* a null parent, root or platformParentId
  Slots,          \* slots of the webhook worker
  Walker,         \* the refresh walk of this post; one at a time (SyncTurns)
  Idle, Unresolved, Thin, Erased,
  MaxEdits,       \* bound: edits of a comment
  MaxHidden,      \* bound: comments a Bluesky author hides from the account
  MaxCutoff,      \* bound: how far retention advances
  MaxPurges,      \* bound: passes of the purge that find something
  MaxAborts       \* bound: walks that fail for reasons of their own

Keys    == Ids \cup {Post}
Writers == Slots \cup {Walker}

ASSUME ThreadAssumption ==
  /\ IsFiniteSet(Ids) /\ Post \notin Ids /\ NoKey \notin Keys /\ Walker \notin Slots
  /\ ParentOf \in [Ids -> Keys] /\ PageOf \in [Ids -> Nat \ {0}]
  /\ Anonymous \subseteq Ids
  /\ Platforms \subseteq {"meta", "bluesky"} /\ Platforms # {}
  /\ {MaxEdits, MaxHidden, MaxCutoff, MaxPurges, MaxAborts} \subseteq Nat

VARIABLES
  \* the platform
  platform,
  created,        \* when a comment was written, in order; 0 for "not yet"
  alive,          \* written and not removed
  hidden,         \* readers of the account no longer see them (blockedPost)
  edition,
  deliveries,     \* webhook events Meta has sent and may send again
  \* Postgres
  rows,           \* the comments table: a record for each row there is
  target,         \* the post's comment_sync_targets row: none, with next_sync_at, without
  \* transactions of ingestion
  op,
  \* the walk
  wpc, page, todo, tombstones, seen, eligible, missing,
  \* the purge
  cutoff, stale, purges,
  aborts

world == <<platform, created, alive, hidden, edition>>
walk  == <<wpc, page, todo, tombstones, seen, missing, aborts>>
purge == <<cutoff, stale, purges>>
vars  == <<world, deliveries, rows, target, op, walk, eligible, purge>>

-------------------------------------------------------------------------------
Targets  == {"none", "scheduled", "off"}
Editions == 0..MaxEdits
Events   == [kind : {"upsert"}, id : Ids, edition : Editions \cup {Thin}]
              \cup [kind : {"delete"}, id : Ids, edition : {Thin}]

Placements == [parent : Keys \cup {NoKey}, root : Keys \cup {NoKey}, depth : Nat, born : Nat]
Row == [status : {"posted", "deleted"}, parent : Keys \cup {NoKey}, root : Keys \cup {NoKey},
        depth : Nat, replies : Int, activity : Nat, edition : Editions \cup {Erased},
        settled : BOOLEAN, born : Nat, received : Nat, removed : Nat]
Copies  == [key : Keys, edition : Editions]
Upserts == [copy : Copies, at : Keys \cup {NoKey}, chain : Seq(Copies),
            base : Placements \cup {Unresolved}]

\* Every variable has its type.
TypeOK ==
  /\ platform \in Platforms
  /\ created \in [Keys -> Nat] /\ alive \subseteq Ids /\ hidden \subseteq Ids
  /\ edition \in [Keys -> Editions] /\ deliveries \subseteq Events
  /\ DOMAIN rows \subseteq Keys /\ \A k \in DOMAIN rows : rows[k] \in Row
  /\ target \in Targets
  /\ op \in [Writers -> Upserts \cup {Idle}]
  /\ wpc \in {"idle", "page", "ingest", "infer"} /\ page \in Nat
  /\ todo \subseteq Copies /\ tombstones \subseteq Ids
  /\ seen \subseteq Ids /\ eligible \subseteq Keys /\ missing \subseteq Keys
  /\ cutoff \in Nat /\ purges \in Nat /\ stale \subseteq Keys \X Nat
  /\ aborts \in 0..MaxAborts

Init ==
  /\ platform \in Platforms
  /\ created = [k \in Keys |-> 0] /\ alive = {} /\ hidden = {}
  /\ edition = [k \in Keys |-> 0] /\ deliveries = {}
  /\ rows = << >>
  /\ target \in IF platform = "meta" THEN Targets ELSE {"scheduled", "off"}
  /\ op = [w \in Writers |-> Idle]
  /\ wpc = "idle" /\ page = 1 /\ todo = {} /\ tombstones = {}
  /\ seen = {} /\ eligible = {} /\ missing = {}
  /\ cutoff = 0 /\ stale = {} /\ purges = 0 /\ aborts = 0

-------------------------------------------------------------------------------
(* The platform: external. *)

\* On Bluesky a comment's parent is read from its own record, and the record of a
\* comment on the post names the post; Meta reports no parent there.
ReportedParent(k) ==
  IF k = Post THEN NoKey
  ELSE IF ParentOf[k] = Post /\ platform = "meta" THEN NoKey ELSE ParentOf[k]

Readable(i) == i \in alive \ hidden

\* What a comment answers, what that answers, and so on up to the post.
AncestorsOf == [i \in Ids |->
  {k \in Ids : \A S \in SUBSET Keys :
                 ParentOf[i] \in S /\ (\A j \in S \cap Ids : ParentOf[j] \in S) => k \in S}]

\* A listing reaches a comment through its ancestors.
Reachable(i) == \A k \in {i} \cup AncestorsOf[i] : Readable(k)

\* A comment asked for by id: Meta removes replies with what they answer.
Fetchable(k) ==
  IF k = Post THEN TRUE
  ELSE IF platform = "bluesky" THEN Readable(k) ELSE Reachable(k)

\* Meta tells of what happened, with the comment or without; Bluesky has no webhooks.
Tell(event) ==
  deliveries' = IF platform = "bluesky" THEN deliveries ELSE deliveries \cup {event}

UpsertEvent(i, e) ==
  [kind |-> "upsert", id |-> i, edition |-> IF i \in Anonymous THEN Thin ELSE e]

WriteComment(i) ==
  /\ created[i] = 0
  /\ ParentOf[i] # Post => Reachable(ParentOf[i])
  /\ created' = [created EXCEPT ![i] = Cardinality({k \in Ids : created[k] > 0}) + 1]
  /\ alive' = alive \cup {i}
  /\ Tell(UpsertEvent(i, 0))
  /\ UNCHANGED <<platform, hidden, edition, rows, target, op, walk, eligible, purge>>

EditComment(i) ==
  /\ Reachable(i) /\ platform = "meta"
  /\ edition[i] < MaxEdits
  /\ edition' = [edition EXCEPT ![i] = @ + 1]
  /\ Tell(UpsertEvent(i, edition[i] + 1))
  /\ UNCHANGED <<platform, created, alive, hidden, rows, target, op, walk, eligible, purge>>

RemoveComment(i) ==
  /\ Reachable(i)
  /\ alive' = alive \ {i}
  /\ Tell([kind |-> "delete", id |-> i, edition |-> Thin])
  /\ UNCHANGED <<platform, created, hidden, edition, rows, target, op, walk, eligible, purge>>

HideComment(i) ==
  /\ platform = "bluesky" /\ Reachable(i) /\ Cardinality(hidden) < MaxHidden
  /\ hidden' = hidden \cup {i}
  /\ UNCHANGED <<platform, created, alive, edition, deliveries, rows, target, op, walk,
                 eligible, purge>>

\* Meta stops redelivering, or an event is lost.
DropDelivery(e) ==
  /\ e \in deliveries
  /\ deliveries' = deliveries \ {e}
  /\ UNCHANGED <<world, rows, target, op, walk, eligible, purge>>

-------------------------------------------------------------------------------
(* Writes of ingestion, as functions of the table. *)

Has(k)    == k \in DOMAIN rows
Posted(k) == Has(k) /\ rows[k].status = "posted"

Later(m, n) == IF m > n THEN m ELSE n

Top == [parent |-> NoKey, root |-> NoKey, depth |-> 0, born |-> 0]

\* Where whatever answers row k goes; the row is named by its id, hence `born`.
PlacementBelow(k, depth, root, born) ==
  [parent |-> k, root |-> IF root = NoKey THEN k ELSE root, depth |-> depth + 1, born |-> born]

\* One reply more, or one less.
bumpParentReplyCount(rs, parent, n) ==
  IF parent = NoKey THEN rs
  ELSE [rs EXCEPT ![parent].replies = @ + n, ![parent].settled = FALSE]

bumpRootLastActivity(rs, root, at) ==
  IF root = NoKey THEN rs
  ELSE [rs EXCEPT ![root].activity = Later(@, at), ![root].settled = FALSE]

\* The comment.received of the outbox.
Announced(rs, k) == [rs EXCEPT ![k].received = @ + 1]

\* Mutant: only the parent learns of its new reply.
BumpParentOnly(rs, k) == Announced(bumpParentReplyCount(rs, rs[k].parent, 1), k)

ApplyNewCommentSideEffects(rs, k) ==
  Announced(bumpRootLastActivity(bumpParentReplyCount(rs, rs[k].parent, 1),
                                 rs[k].root, created[k]), k)

NewRow(copy, place) ==
  [status |-> "posted", parent |-> place.parent, root |-> place.root, depth |-> place.depth,
   replies |-> 0, activity |-> created[copy.key], edition |-> copy.edition,
   settled |-> FALSE, born |-> purges, received |-> 0, removed |-> 0]

\* The INSERT of a row that is not there, and the UPDATE of one that is.
Inserted(rs, copy, place) ==
  [x \in DOMAIN rs \cup {copy.key} |-> IF x = copy.key THEN NewRow(copy, place) ELSE rs[x]]
Rewritten(rs, copy) ==
  [rs EXCEPT ![copy.key].edition = copy.edition, ![copy.key].settled = FALSE]

\* Mutant: a row that conflicts counts as new.
UpsertAsNew(rs, copy, place) ==
  ApplyNewCommentSideEffects(
    IF copy.key \in DOMAIN rs THEN rs ELSE Inserted(rs, copy, place), copy.key)

\* Mutant: without REWRITE_WHEN a deleted row gets its text back.
UpsertRestoring(rs, copy, place) ==
  IF copy.key \in DOMAIN rs THEN Rewritten(rs, copy)
  ELSE ApplyNewCommentSideEffects(Inserted(rs, copy, place), copy.key)

UpsertRow(rs, copy, place) ==
  LET k == copy.key IN
  IF k \notin DOMAIN rs
  THEN ApplyNewCommentSideEffects(Inserted(rs, copy, place), k)
  ELSE IF rs[k].status # "deleted" /\ rs[k].edition # copy.edition
       THEN Rewritten(rs, copy)
       ELSE rs

PersistAncestor(acc, copy) ==
  [rows  |-> UpsertRow(acc.rows, copy, acc.place),
   place |-> PlacementBelow(copy.key, acc.place.depth, acc.place.root, purges)]

\* Outermost first, each ancestor below the one before it.
PersistAncestorChain(base, chain) ==
  LET after[n \in 0..Len(chain)] ==
        IF n = 0 THEN [rows |-> rows, place |-> base]
                 ELSE PersistAncestor(after[n - 1], chain[n])
  IN after[Len(chain)]

\* A tombstone keeps its place and nothing of what was said; comment.deleted tells of it.
Erase(rs, k) ==
  [rs EXCEPT ![k].status = "deleted", ![k].edition = Erased,
             ![k].settled = FALSE, ![k].removed = @ + 1]

\* Mutant: the parent goes on counting it.
RunDeleteUncounted(k) == IF Posted(k) THEN Erase(rows, k) ELSE rows

RunDelete(k) ==
  IF Posted(k) THEN bumpParentReplyCount(Erase(rows, k), rows[k].parent, -1) ELSE rows

\* A write sets updated_at: a row it touched is no candidate for inference.
Write(rs) ==
  /\ rows' = rs
  /\ eligible' = {k \in eligible : k \in DOMAIN rs /\ rs[k].settled}

\* DELETION_INFERENCE_GRACE_MS have passed since updated_at.
Settle(k) ==
  /\ Has(k) /\ ~rows[k].settled
  /\ rows' = [rows EXCEPT ![k].settled = TRUE]
  /\ UNCHANGED <<world, deliveries, target, op, walk, eligible, purge>>

-------------------------------------------------------------------------------
(* One upsert of a writer: the ancestor walk, a hop at a time, then its writes. *)

Upserting(w) == op[w] # Idle

StartUpsert(w, copy) ==
  op' = [op EXCEPT ![w] = [copy |-> copy, at |-> ReportedParent(copy.key), chain |-> << >>,
                           base |-> Unresolved]]

\* Mutant: an unknown parent is not looked up on the platform.
HopNowhere(w) ==
  /\ Upserting(w) /\ op[w].base = Unresolved
  /\ op' = [op EXCEPT ![w].base =
       IF op[w].at # NoKey /\ Has(op[w].at)
       THEN PlacementBelow(op[w].at, rows[op[w].at].depth, rows[op[w].at].root, rows[op[w].at].born)
       ELSE Top]
  /\ UNCHANGED <<world, deliveries, rows, target, walk, eligible, purge>>

WalkAncestorChain(w) ==
  LET k == op[w].at IN
  /\ Upserting(w) /\ op[w].base = Unresolved
  /\ \/ k = NoKey /\ op' = [op EXCEPT ![w].base = Top]
     \/ /\ k # NoKey /\ Has(k)
        /\ op' = [op EXCEPT ![w].base =
             PlacementBelow(k, rows[k].depth, rows[k].root, rows[k].born)]
     \/ /\ k # NoKey /\ ~Has(k) /\ Fetchable(k)
        /\ op' = [op EXCEPT ![w].chain = <<[key |-> k, edition |-> edition[k]]>> \o @,
                            ![w].at = ReportedParent(k)]
  /\ UNCHANGED <<world, deliveries, rows, target, walk, eligible, purge>>

\* The row the placement names may have been purged: then its foreign key fails.
BaseStands(w) ==
  LET base == op[w].base IN
  base.parent # NoKey => Has(base.parent) /\ rows[base.parent].born = base.born

UpsertWrites(w) ==
  LET persisted == PersistAncestorChain(op[w].base, op[w].chain) IN
  /\ Upserting(w) /\ op[w].base # Unresolved /\ BaseStands(w)
  /\ Write(UpsertRow(persisted.rows, op[w].copy, persisted.place))
  /\ op' = [op EXCEPT ![w] = Idle]

\* The transaction rolls back: an ancestor is nowhere to be found, or a purge won.
UpsertFails(w) ==
  /\ Upserting(w)
  /\ IF op[w].base = Unresolved
     THEN op[w].at # NoKey /\ ~Has(op[w].at) /\ ~Fetchable(op[w].at)
     ELSE ~BaseStands(w)
  /\ op' = [op EXCEPT ![w] = Idle]
  /\ UNCHANGED <<rows, eligible>>

-------------------------------------------------------------------------------
(* Webhook deliveries, in any order and any number of times. *)

\* A thin payload is completed from the platform; ensureTarget comes first, in a statement
\* of its own, and schedules a post only within RETENTION_DAYS.
ProcessUpsert(s, e) ==
  /\ ~Upserting(s) /\ e \in deliveries /\ e.kind = "upsert"
  /\ e.edition = Thin => Fetchable(e.id)
  /\ StartUpsert(s, [key |-> e.id, edition |-> IF e.edition = Thin THEN edition[e.id] ELSE e.edition])
  /\ target' \in IF target = "none" THEN {"scheduled", "off"} ELSE {target}
  /\ UNCHANGED <<world, deliveries, rows, walk, eligible, purge>>

ProcessDelete(s, e) ==
  /\ ~Upserting(s) /\ e \in deliveries /\ e.kind = "delete"
  /\ Write(RunDelete(e.id))
  /\ UNCHANGED <<world, deliveries, target, op, walk, purge>>

CommitUpsert(s) ==
  UpsertWrites(s) /\ UNCHANGED <<world, deliveries, target, walk, purge>>

FailUpsert(s) ==
  UpsertFails(s) /\ UNCHANGED <<world, deliveries, target, walk, purge>>

-------------------------------------------------------------------------------
(* The refresh walk. *)

Pages == {PageOf[i] : i \in Ids}
LastPage == CHOOSE p \in Pages : \A q \in Pages : q <= p

\* A target without a schedule is walked on a manual request.
StartWalk ==
  /\ wpc = "idle" /\ target # "none"
  /\ wpc' = "page" /\ page' = 1 /\ seen' = {}
  /\ eligible' = {k \in Keys : Posted(k) /\ rows[k].settled}
  /\ UNCHANGED <<world, deliveries, rows, target, op, todo, tombstones, missing, aborts, purge>>

\* What a page says of the comments on it; Bluesky may report one that was removed.
ListComments ==
  LET onPage == {i \in Ids : PageOf[i] = page /\ created[i] > 0} IN
  /\ wpc = "page"
  /\ todo' = {[key |-> i, edition |-> edition[i]] : i \in {j \in onPage : Reachable(j)}}
  /\ tombstones' \in SUBSET {i \in onPage \ alive : platform = "bluesky"}
  /\ wpc' = "ingest"
  /\ UNCHANGED <<world, deliveries, rows, target, op, page, seen, missing, aborts, eligible, purge>>

\* Mutant: the comment itself is noted, not its id.
IngestPageCopy(copy) ==
  /\ wpc = "ingest" /\ ~Upserting(Walker) /\ copy \in todo
  /\ StartUpsert(Walker, copy)
  /\ todo' = todo \ {copy}
  /\ seen' = seen \cup {copy}
  /\ UNCHANGED <<world, deliveries, rows, target, wpc, page, tombstones, missing, aborts,
                 eligible, purge>>

IngestPageComment(copy) ==
  /\ wpc = "ingest" /\ ~Upserting(Walker) /\ copy \in todo
  /\ StartUpsert(Walker, copy)
  /\ todo' = todo \ {copy}
  /\ seen' = seen \cup {copy.key}
  /\ UNCHANGED <<world, deliveries, rows, target, wpc, page, tombstones, missing, aborts,
                 eligible, purge>>

CommitPageComment ==
  UpsertWrites(Walker) /\ UNCHANGED <<world, deliveries, target, walk, purge>>

IngestPageTombstone(i) ==
  /\ wpc = "ingest" /\ ~Upserting(Walker) /\ todo = {} /\ i \in tombstones
  /\ Write(RunDelete(i))
  /\ tombstones' = tombstones \ {i}
  /\ UNCHANGED <<world, deliveries, target, op, wpc, page, todo, seen, missing, aborts, purge>>

PageIngested == wpc = "ingest" /\ ~Upserting(Walker) /\ todo = {} /\ tombstones = {}

NextPage ==
  /\ PageIngested /\ page < LastPage
  /\ page' = page + 1 /\ wpc' = "page"
  /\ UNCHANGED <<world, deliveries, rows, target, op, todo, tombstones, seen, missing, aborts,
                 eligible, purge>>

\* Mutant: only explicit tombstones delete.
SelectNothing ==
  /\ PageIngested /\ page = LastPage
  /\ missing' = {}
  /\ wpc' = "infer"
  /\ UNCHANGED <<world, deliveries, rows, target, op, page, todo, tombstones, seen, aborts,
                 eligible, purge>>

\* Mutant: no grace period, rows of any updated_at are candidates.
SelectRecentToo ==
  /\ PageIngested /\ page = LastPage
  /\ missing' = {k \in Keys : Posted(k) /\ k \notin seen}
  /\ wpc' = "infer"
  /\ UNCHANGED <<world, deliveries, rows, target, op, page, todo, tombstones, seen, aborts,
                 eligible, purge>>

\* The SELECT of inferDeletions: posted, not in `seen`, untouched since the walk
\* began and for the grace period before.
SelectMissing ==
  /\ PageIngested /\ page = LastPage
  /\ missing' = {k \in eligible : Posted(k) /\ k \notin seen}
  /\ wpc' = "infer"
  /\ UNCHANGED <<world, deliveries, rows, target, op, page, todo, tombstones, seen, aborts,
                 eligible, purge>>

InferDeletion(k) ==
  /\ wpc = "infer" /\ k \in missing
  /\ Write(RunDelete(k))
  /\ missing' = missing \ {k}
  /\ UNCHANGED <<world, deliveries, target, op, wpc, page, todo, tombstones, seen, aborts, purge>>

LeaveWalk ==
  /\ wpc' = "idle" /\ page' = 1 /\ todo' = {} /\ tombstones' = {}
  /\ seen' = {} /\ missing' = {}

\* computeNextSyncAt: null once the post is past RETENTION_DAYS.
MarkSucceeded ==
  /\ wpc = "infer" /\ missing = {}
  /\ LeaveWalk /\ eligible' = {}
  /\ target' \in {"scheduled", "off"}
  /\ UNCHANGED <<world, deliveries, rows, op, aborts, purge>>

\* An upsert that throws ends the walk before it infers anything.
FailWalk ==
  /\ UpsertFails(Walker)
  /\ LeaveWalk
  /\ UNCHANGED <<world, deliveries, target, aborts, purge>>

\* So does an error of the platform, of Postgres, or the worker's death; a PermanentError
\* deactivates the target.
AbortWalk ==
  /\ wpc # "idle" /\ aborts < MaxAborts
  /\ aborts' = aborts + 1
  /\ LeaveWalk /\ eligible' = {}
  /\ op' = [op EXCEPT ![Walker] = Idle]
  /\ target' \in {target, "off"}
  /\ UNCHANGED <<world, deliveries, rows, purge>>

-------------------------------------------------------------------------------
(* The retention purge, in two statements. *)

RetentionAdvances ==
  /\ cutoff < MaxCutoff
  /\ cutoff' = cutoff + 1
  /\ UNCHANGED <<world, deliveries, rows, target, op, walk, eligible, stale, purges>>

SelectStale ==
  /\ stale = {} /\ purges < MaxPurges
  /\ stale' = {<<k, rows[k].born>> :
                 k \in {r \in DOMAIN rows : rows[r].parent = NoKey /\ rows[r].activity <= cutoff}}
  /\ stale' # {}
  /\ UNCHANGED <<world, deliveries, rows, target, op, walk, eligible, cutoff, purges>>

\* The cascade takes every reply with its root.
PurgeThreadBatch ==
  LET dead == {r \in DOMAIN rows : <<r, rows[r].born>> \in stale} IN
  /\ stale # {}
  /\ Write(Restrict(rows, {k \in DOMAIN rows : k \notin dead /\ rows[k].root \notin dead}))
  /\ stale' = {} /\ purges' = purges + 1
  /\ UNCHANGED <<world, deliveries, target, op, walk, cutoff>>

-------------------------------------------------------------------------------
PlatformStep ==
  \/ \E i \in Ids : WriteComment(i) \/ EditComment(i) \/ RemoveComment(i) \/ HideComment(i)
  \/ \E e \in deliveries : DropDelivery(e)

WebhookStep(s) ==
  \/ \E e \in deliveries : ProcessUpsert(s, e) \/ ProcessDelete(s, e)
  \/ WalkAncestorChain(s) \/ CommitUpsert(s) \/ FailUpsert(s)

WalkGoesOn ==
  \/ ListComments
  \/ \E copy \in todo : IngestPageComment(copy)
  \/ WalkAncestorChain(Walker) \/ CommitPageComment
  \/ \E i \in tombstones : IngestPageTombstone(i)
  \/ NextPage \/ SelectMissing
  \/ \E k \in missing : InferDeletion(k)
  \/ MarkSucceeded \/ FailWalk

WalkStep == StartWalk \/ WalkGoesOn

PurgeStep == RetentionAdvances \/ SelectStale \/ PurgeThreadBatch

Next ==
  \/ PlatformStep
  \/ \E s \in Slots : WebhookStep(s)
  \/ WalkStep \/ AbortWalk
  \/ \E k \in Keys : Settle(k)
  \/ PurgeStep

Spec == Init /\ [][Next]_vars

\* A target with a next_sync_at comes due and is walked (EveryDueTargetWalked of SyncJobs),
\* a walk under way goes on, workers keep running, Meta gives up on a delivery in the end,
\* and time passes.  Nobody has to ask for a walk of a target without a schedule.
Fairness ==
  /\ WF_vars(target = "scheduled" /\ StartWalk)
  /\ WF_vars(WalkGoesOn)
  /\ WF_vars(\E s \in Slots : WalkAncestorChain(s) \/ CommitUpsert(s) \/ FailUpsert(s))
  /\ WF_vars(\E e \in deliveries : DropDelivery(e))
  /\ WF_vars(\E k \in Keys : Settle(k))

FairSpec == Spec /\ Fairness

-------------------------------------------------------------------------------
(* Properties *)

\* Whatever order upserts, ancestor chains, deletes, redeliveries and purges come in,
\* a row's reply_count is the number of its posted replies.
RepliesCounted ==
  \A k \in DOMAIN rows :
    rows[k].replies = Cardinality({c \in DOMAIN rows : rows[c].parent = k /\ Posted(c)})

\* The rows form the platform's own tree, though replies arrive before what they answer
\* and two writers discover one ancestor at once: no orphan, no second root.
TreeIsPlatforms ==
  \A k \in DOMAIN rows :
    LET row == rows[k] IN
    /\ row.parent = ReportedParent(k)
    /\ row.parent = NoKey => row.depth = 0 /\ row.root = NoKey
    /\ row.parent # NoKey =>
         /\ Has(row.parent)
         /\ row.depth = rows[row.parent].depth + 1
         /\ row.root = IF rows[row.parent].parent = NoKey THEN row.parent
                       ELSE rows[row.parent].root

\* One comment.received for each row, whichever of the writers inserted it, and one
\* comment.deleted for each that was deleted, however often it is reported.
EachRowAnnouncedOnce ==
  \A k \in DOMAIN rows :
    /\ rows[k].received = 1
    /\ rows[k].removed = IF rows[k].status = "deleted" THEN 1 ELSE 0

\* What a walk infers from absence is true: while the platform still lists a comment its
\* row is not deleted, although pages are read at different moments and rows change.
NoFalseDeletion ==
  \A i \in Ids : Has(i) /\ rows[i].status = "deleted" => ~Reachable(i)

\* The purge goes by the root's last_activity_at: it covers every comment of the thread.
ActivityCoversThread ==
  \A k \in DOMAIN rows :
    LET top == IF rows[k].root = NoKey THEN k ELSE rows[k].root IN
    rows[top].activity >= created[k]

\* FR-030: what a delete erased stays erased, whatever is redelivered or walked again.
ErasureIsPermanent ==
  [][\A k \in DOMAIN rows :
       rows[k].status = "deleted" /\ k \in DOMAIN rows' /\ rows'[k].born = rows[k].born
         => rows'[k].status = "deleted" /\ rows'[k].edition = Erased]_vars

Mirrored(i) ==
  IF Reachable(i) THEN created[i] <= cutoff \/ (Posted(i) /\ rows[i].edition = edition[i])
  ELSE ~Posted(i)

\* Once the platform is quiet, the rows of a post that stays in the schedule come to say
\* what it says: lost and late deliveries, edits applied out of order and deletes that
\* overtook their comment are all repaired by the walks.
EventuallyMirrored ==
  <>[](target = "scheduled") => <>[](\A i \in Ids : Mirrored(i))
===============================================================================
