------------------------------ MODULE AcceptComment ------------------------------
(***************************************************************************)
(* The write routes of the HTTP API: each request runs as an async handler *)
(* of one process, reads what it needs through the connection pool, then   *)
(* inserts its comment, bumps its parent and reserves the contact in one   *)
(* transaction, and enqueues the publish job after the commit.  A comment  *)
(* carries the name of the request that inserted it.                       *)
(***************************************************************************)
EXTENDS Integers, FiniteSets

CONSTANTS
  Requests,
  Existing,       \* comments ingested before
  ParentOf,       \* what each of them answers: another one, or Post
  AuthorOf,       \* who wrote each of them: a contact, Self, or Anonymous
  Post, Self, Anonymous,
  Plans,          \* what the requests may ask, each: [to, text, key]
  NoKey,
  LongTexts,      \* texts over the platform's limit
  MaxReplyDepth,  \* the registry's
  ContactLimit,   \* contact_limit_monthly
  PoolSize,       \* connections of the process's pool
  NoRow, Nobody, None,
  MaxTime,        \* bound: ticks of the clock
  MaxChanges      \* bound: crashes, failures, failed replies, deletes, disconnections

Ids      == Existing \cup Requests
Contacts == {AuthorOf[c] : c \in Existing} \ {Self, Anonymous}

Errors == {"PARENT_NOT_POSTED", "REPLY_DEPTH_EXCEEDED", "TEXT_TOO_LONG", "ACCOUNT_DISCONNECTED",
           "IDEMPOTENCY_KEY_REUSED", "QUOTA_EXCEEDED", "INTERNAL_ERROR", "dropped"}

\* A row of the comments table.
Comment == [parent: Existing \cup {Post}, depth: 0..MaxReplyDepth, at: 0..MaxTime,
            status: {"queued", "posted", "failed", "deleted"}, replies: Nat]

ASSUME AcceptAssumption ==
  /\ IsFiniteSet(Requests) /\ IsFiniteSet(Existing) /\ Requests \cap Existing = {}
  /\ Post \notin Ids /\ ParentOf \in [Existing -> Existing \cup {Post}]
  /\ \A c \in Existing : ParentOf[c] = Post \/ ParentOf[ParentOf[c]] = Post
  /\ Existing \subseteq DOMAIN AuthorOf
  /\ \A f \in Plans : DOMAIN f = Requests /\ \A r \in Requests : f[r].to \in Existing \cup {Post}
  /\ {MaxReplyDepth, ContactLimit, PoolSize, MaxTime, MaxChanges} \subseteq Nat
  /\ (\E c \in Existing : ParentOf[c] # Post) => MaxReplyDepth >= 1
  /\ PoolSize > 0 /\ NoRow \notin Comment /\ Nobody \notin Ids
  /\ Requests \cap (Errors \cup {None}) = {}

VARIABLES
  form,     \* what each request asks
  pc,       \* where its handler is
  at,       \* occurred_at of the row its transaction inserts
  spends,   \* whether its transaction inserted a usage row
  answer,   \* what the client got: a comment, an error, or nothing yet
  rows,     \* the comments table, as committed
  usage,    \* contact_quota_usage: the comment that reserved each contact
  jobs,     \* comments with a publish job
  active,   \* the account's effective status
  now,
  changes

handlerVars == <<form, pc, at, spends, answer>>
tableVars   == <<rows, usage>>
vars        == <<handlerVars, tableVars, jobs, active, now, changes>>

Depth(c)    == IF c = Post THEN -1 ELSE rows[c].depth
Committed   == {i \in Ids : rows[i] # NoRow}
Counted     == {c \in Contacts : usage[c] # Nobody}
RepliesOf(c) == {i \in Committed : rows[i].parent = c /\ rows[i].status # "deleted"}

\* Every variable has its type; no comment is nested deeper than the platform nests.
TypeOK ==
  /\ form \in Plans
  /\ pc \in [Requests -> {"idle", "load", "account", "lookup", "begin", "insert", "bump",
                          "reserve", "limit", "commit", "enqueue", "conflict", "done"}]
  /\ at \in [Requests -> 0..MaxTime] /\ spends \in [Requests -> BOOLEAN]
  /\ answer \in [Requests -> Requests \cup Errors \cup {None}]
  /\ rows \in [Ids -> Comment \cup {NoRow}] /\ Existing \subseteq Committed
  /\ usage \in [Contacts -> Requests \cup {Nobody}]
  /\ jobs \subseteq Requests /\ active \in BOOLEAN
  /\ now \in 0..MaxTime /\ changes \in 0..MaxChanges

Init ==
  /\ form \in Plans
  /\ pc = [r \in Requests |-> "idle"] /\ at = [r \in Requests |-> 0]
  /\ spends = [r \in Requests |-> FALSE] /\ answer = [r \in Requests |-> None]
  /\ rows = [i \in Ids |->
       IF i \in Requests THEN NoRow
       ELSE [parent |-> ParentOf[i], depth |-> IF ParentOf[i] = Post THEN 0 ELSE 1, at |-> 0,
             status |-> "posted", replies |-> Cardinality({c \in Existing : ParentOf[c] = i})]]
  /\ usage = [c \in Contacts |-> Nobody]
  /\ jobs = {} /\ active = TRUE /\ now = 0 /\ changes = 0

Change == changes < MaxChanges /\ changes' = changes + 1

-------------------------------------------------------------------------------
(* Connections and locks. *)

\* Inside the transaction a handler holds its connection.
InTransaction(r) == pc[r] \in {"insert", "bump", "reserve", "limit", "commit"}
Free == PoolSize - Cardinality({r \in Requests : InTransaction(r)})

IsReply(r) == form[r].to # Post
Contact(r) == AuthorOf[form[r].to]
\* The account's own comments are nobody to contact.
NeedsContact(r) == IsReply(r) /\ Contact(r) # Self
Root(c) == IF ParentOf[c] = Post THEN c ELSE ParentOf[c]

\* The unique index on (workspace, idempotency key), and the row locks of the bump.
SameKey(r, s)  == r # s /\ form[r].key # NoKey /\ form[r].key = form[s].key
HoldsKey(s)    == pc[s] \in {"bump", "reserve", "limit", "commit"}
HoldsRows(s)   == IF IsReply(s) /\ pc[s] \in {"reserve", "limit", "commit"}
                  THEN {form[s].to, Root(form[s].to)} ELSE {}
LockedRows     == UNION {HoldsRows(s) : s \in Requests}
\* pg_advisory_xact_lock(workspace, period)
HoldsQuota(s)  == pc[s] = "limit" \/ (pc[s] = "commit" /\ NeedsContact(s))

Winner(r) == {s \in Requests : rows[s] # NoRow /\ SameKey(r, s)}

Go(r, next)    == pc' = [pc EXCEPT ![r] = next]
Answer(r, a)   == Go(r, "done") /\ answer' = [answer EXCEPT ![r] = a]
Proceed(r, next) == Go(r, next) /\ UNCHANGED answer
HandlerOnly    == UNCHANGED <<form, at, spends, tableVars, jobs, active, now, changes>>

-------------------------------------------------------------------------------
(* createReply and createTopLevelComment; a read takes a connection for itself. *)

Arrive(r) == pc[r] = "idle" /\ Proceed(r, "load") /\ HandlerOnly

\* Mutant: the parent's depth is compared where the reply's must be.
DepthAllowedOffByOne(r) == Depth(form[r].to) <= MaxReplyDepth

DepthAllowed(r) == Depth(form[r].to) + 1 <= MaxReplyDepth

LoadTarget(r) ==
  /\ pc[r] = "load" /\ Free > 0
  /\ CASE ~DepthAllowed(r)             -> Answer(r, "REPLY_DEPTH_EXCEEDED")
       [] DepthAllowed(r) /\ form[r].text \in LongTexts
                                       -> Answer(r, "TEXT_TOO_LONG")
       [] DepthAllowed(r) /\ form[r].text \notin LongTexts ->
            IF IsReply(r) /\ rows[form[r].to].status # "posted"
            THEN Answer(r, "PARENT_NOT_POSTED")
            ELSE Proceed(r, "account")
  /\ HandlerOnly

CheckAccount(r) ==
  /\ pc[r] = "account" /\ Free > 0
  /\ IF active THEN Proceed(r, "lookup") ELSE Answer(r, "ACCOUNT_DISCONNECTED")
  /\ HandlerOnly

\* Mutant: the winner is returned whatever its text.
AnswerAnyWinner(r, s) == Answer(r, s)

AnswerWinner(r, s) ==
  Answer(r, IF form[s].text = form[r].text THEN s ELSE "IDEMPOTENCY_KEY_REUSED")

ResolveIdempotency(r) ==
  /\ pc[r] = "lookup" /\ Free > 0
  /\ IF Winner(r) = {} THEN Proceed(r, "begin")
     ELSE \E s \in Winner(r) : AnswerWinner(r, s)
  /\ HandlerOnly

BeginTransaction(r) ==
  /\ pc[r] = "begin" /\ Free > 0
  /\ Proceed(r, "insert") /\ at' = [at EXCEPT ![r] = now]
  /\ UNCHANGED <<form, spends, tableVars, jobs, active, now, changes>>

\* Mutant: nothing in the database makes the key unique.
InsertUnguarded(r) ==
  /\ pc[r] = "insert"
  /\ Proceed(r, IF IsReply(r) THEN "bump" ELSE "commit")
  /\ HandlerOnly

\* An insert under a key another transaction has inserted waits for that one.
InsertQueued(r) ==
  /\ pc[r] = "insert" /\ ~\E s \in Requests : SameKey(r, s) /\ HoldsKey(s)
  /\ Proceed(r, IF Winner(r) # {} THEN "conflict" ELSE IF IsReply(r) THEN "bump" ELSE "commit")
  /\ HandlerOnly

\* Parent, then root; a waiter for the root holds only rows below it.
BumpParentAndRoot(r) ==
  /\ pc[r] = "bump" /\ {form[r].to, Root(form[r].to)} \cap LockedRows = {}
  /\ IF NeedsContact(r) /\ Contact(r) = Anonymous
     THEN Answer(r, "INTERNAL_ERROR")
     ELSE Proceed(r, IF NeedsContact(r) THEN "reserve" ELSE "commit")
  /\ HandlerOnly

\* Mutant: the reservation takes no lock.
ReserveUnlocked(r) ==
  /\ pc[r] = "reserve"
  /\ Proceed(r, IF usage[Contact(r)] # Nobody THEN "commit" ELSE "limit")
  /\ HandlerOnly

Reserve(r) ==
  /\ pc[r] = "reserve" /\ ~\E s \in Requests : HoldsQuota(s)
  /\ Proceed(r, IF usage[Contact(r)] # Nobody THEN "commit" ELSE "limit")
  /\ HandlerOnly

\* Mutant: the reservation commits by itself.
CheckLimitAndCommit(r) ==
  /\ pc[r] = "limit" /\ Free > 0
  /\ IF Cardinality(Counted) >= ContactLimit
     THEN Answer(r, "QUOTA_EXCEEDED") /\ UNCHANGED usage
     ELSE Proceed(r, "commit") /\ usage' = [usage EXCEPT ![Contact(r)] = r]
  /\ UNCHANGED <<form, at, spends, rows, jobs, active, now, changes>>

\* The limit is read through the pool, not through the transaction.
CheckLimit(r) ==
  /\ pc[r] = "limit" /\ Free > 0
  /\ IF Cardinality(Counted) >= ContactLimit
     THEN Answer(r, "QUOTA_EXCEEDED") /\ UNCHANGED spends
     ELSE Proceed(r, "commit") /\ spends' = [spends EXCEPT ![r] = TRUE]
  /\ UNCHANGED <<form, at, tableVars, jobs, active, now, changes>>

NewRow(r) ==
  [parent |-> form[r].to, depth |-> Depth(form[r].to) + 1, at |-> at[r],
   status |-> "queued", replies |-> 0]

Commit(r) ==
  /\ pc[r] = "commit"
  /\ rows' = [i \in Ids |->
       CASE i = r -> NewRow(r)
         [] i = form[r].to -> [rows[i] EXCEPT !.replies = @ + 1]
         [] OTHER -> rows[i]]
  /\ usage' = [c \in Contacts |-> IF spends[r] /\ c = Contact(r) THEN r ELSE usage[c]]
  /\ Proceed(r, "enqueue")
  /\ UNCHANGED <<form, at, spends, jobs, active, now, changes>>

\* An enqueue that fails is left to the sweeper.
EnqueuePublish(r) ==
  /\ pc[r] = "enqueue"
  /\ \/ jobs' = jobs \cup {r} /\ UNCHANGED changes
     \/ Change /\ UNCHANGED jobs
  /\ Answer(r, r)
  /\ UNCHANGED <<form, at, spends, tableVars, active, now>>

\* Mutant: the insert is tried again in place of reading the winner back.
RetryInsert(r) == pc[r] = "conflict" /\ Proceed(r, "begin") /\ HandlerOnly

ResolveIdempotencyConflict(r) ==
  /\ pc[r] = "conflict" /\ Free > 0
  /\ \E s \in Winner(r) : AnswerWinner(r, s)
  /\ HandlerOnly

Handle(r) ==
  \/ LoadTarget(r) \/ CheckAccount(r) \/ ResolveIdempotency(r) \/ BeginTransaction(r)
  \/ InsertQueued(r) \/ BumpParentAndRoot(r) \/ Reserve(r) \/ CheckLimit(r) \/ Commit(r)
  \/ EnqueuePublish(r) \/ ResolveIdempotencyConflict(r)

-------------------------------------------------------------------------------
(* Everybody else. *)

\* The process dies: Postgres rolls the open transactions back, clients get no answer.
Crash ==
  /\ Change
  /\ LET lost == {r \in Requests : pc[r] \notin {"idle", "done"}} IN
     /\ lost # {}
     /\ pc' = [r \in Requests |-> IF r \in lost THEN "done" ELSE pc[r]]
     /\ answer' = [r \in Requests |-> IF r \in lost THEN "dropped" ELSE answer[r]]
  /\ UNCHANGED <<form, at, spends, tableVars, jobs, active, now>>

\* A connection dies under a statement.  Postgres rolls back what has not committed; one
\* whose commit was carried out and not acknowledged stands at "enqueue".
ConnectionFails(r) ==
  /\ Change /\ pc[r] \notin {"idle", "done"}
  /\ Answer(r, "INTERNAL_ERROR")
  /\ UNCHANGED <<form, at, spends, tableVars, jobs, active, now>>

\* The publish path gives a reply up and releases what it reserved.
FailReply(r) ==
  /\ Change /\ rows[r] # NoRow /\ rows[r].status = "queued"
  /\ rows' = [rows EXCEPT ![r].status = "failed"]
  /\ usage' = [c \in Contacts |-> IF usage[c] = r THEN Nobody ELSE usage[c]]
  /\ UNCHANGED <<handlerVars, jobs, active, now>>

\* Ingestion marks a comment deleted and counts it out of its parent.
DeleteComment(c) ==
  /\ Change /\ rows[c].status = "posted"
  /\ {c, rows[c].parent} \cap LockedRows = {}
  /\ rows' = [i \in Ids |->
       CASE i = c -> [rows[i] EXCEPT !.status = "deleted"]
         [] i = rows[c].parent -> [rows[i] EXCEPT !.replies = @ - 1]
         [] OTHER -> rows[i]]
  /\ UNCHANGED <<handlerVars, usage, jobs, active, now>>

ConnectionChanges ==
  /\ Change /\ active' = ~active
  /\ UNCHANGED <<handlerVars, tableVars, jobs, now>>

Tick ==
  /\ now < MaxTime /\ now' = now + 1
  /\ UNCHANGED <<handlerVars, tableVars, jobs, active, changes>>

Next ==
  \/ \E r \in Requests : Arrive(r) \/ Handle(r) \/ ConnectionFails(r) \/ FailReply(r)
  \/ \E c \in Existing : DeleteComment(c)
  \/ Crash \/ ConnectionChanges \/ Tick

Spec     == Init /\ [][Next]_vars
\* Node runs every handler, and Postgres and the pool serve their waiters in turn.
Fairness == \A r \in Requests : WF_vars(Handle(r))
FairSpec == Spec /\ Fairness

-------------------------------------------------------------------------------
(* Properties. *)

\* The contact a reply goes to is counted, or a failed reply to it gave it back.
Accounted(r) ==
  \/ Contact(r) \in Counted
  \/ \E s \in Requests : rows[s] # NoRow /\ rows[s].status = "failed"
                         /\ IsReply(s) /\ Contact(s) = Contact(r)

\* What the transaction writes is there as a whole or not at all, whatever crashes:
\* a parent counts its replies, a reservation and a publish job have their comment, and a
\* reply's contact is counted, unless a failed reply to the same contact gave it back.
AcceptedWhole ==
  /\ \A c \in Existing : rows[c].replies = Cardinality(RepliesOf(c))
  /\ \A c \in Counted : rows[usage[c]] # NoRow /\ rows[usage[c]].status # "failed"
  /\ \A r \in jobs : rows[r] # NoRow
  /\ \A r \in Requests : rows[r] # NoRow /\ NeedsContact(r) => Accounted(r)

\* Replies that race for the last contact of the month do not both get it.
LimitKept == Cardinality(Counted) <= ContactLimit

\* A retry under the same key and text never makes, or names, a second comment.
SameKeySameComment ==
  /\ \A r, s \in Requests : SameKey(r, s) => rows[r] = NoRow \/ rows[s] = NoRow
  /\ \A r, s \in Requests :
       SameKey(r, s) /\ answer[r] \in Requests /\ answer[s] \in Requests => answer[r] = answer[s]

Accepted == {r \in Requests : rows[r] # NoRow}
Failed   == {r \in Accepted : rows[r].status = "failed"}
Atomic   == INSTANCE Acceptance WITH accepted <- Accepted, failed <- Failed, holder <- usage

\* Handlers that interleave at every await, wait, crash and race behave as if each request
\* were accepted in one step or not at all; no client is refused whose comment was, or will
\* be, accepted, or for a reason that is not there.
ImplementsAcceptance == Atomic!Spec

\* Every request gets an answer: no handler waits for another one for ever.
EveryRequestAnswered == \A r \in Requests : pc[r] = "load" ~> pc[r] = "done"
===============================================================================
