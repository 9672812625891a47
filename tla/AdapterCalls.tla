------------------------------ MODULE AdapterCalls ------------------------------
(***************************************************************************)
(* The platform adapters: publishComment, findPublishedComment,            *)
(* listComments and fetchComment against a platform whose thread changes   *)
(* meanwhile, with Bluesky's session cache, the Graph API's pagers and the *)
(* classification of everything that can come back.  One account; its      *)
(* platform is any of the three.  Bluesky's listComments is CommentThread's *)
(***************************************************************************)
EXTENDS Integers, FiniteSets, Sequences, FiniteSetsExt

CONSTANTS
  Publishers,   \* slots of the publish worker: they publish and search
  Readers,      \* those of the sync and webhook workers: they list and look up
  PageSize,     \* nodes of a Graph page; RECONCILE_PAGE_SIZE for the search
  ReplyPage,    \* replies Instagram nests under a comment
  MaxPages,     \* RECONCILE_MAX_PAGES
  MaxComments,  \* bound: where nobody else comments any more
  MaxDeleted,   \* bound: where nobody deletes any more
  MaxBlocked,   \* bound: where nobody blocks any more
  MaxWrites,    \* bound: calls of publishComment
  MaxFaults,    \* bound: failed requests, killed sessions
  MaxRotations  \* bound: new credentials

ASSUME AdapterAssumption ==
  /\ IsFiniteSet(Publishers) /\ IsFiniteSet(Readers)
  /\ {PageSize, ReplyPage, MaxPages} \subseteq Nat \ {0}
  /\ {MaxComments, MaxDeleted, MaxBlocked, MaxWrites, MaxFaults, MaxRotations} \subseteq Nat

Platforms == {"bluesky", "instagram", "facebook"}
Callers   == Publishers \cup Readers
Post      == 0  \* the anchor of a top-level comment
NoCursor  == 0

VARIABLES
  platform,
  blocked,   \* the post and comments Bluesky hides from this account: somebody blocks somebody
  thread,    \* every comment ever, oldest first: [under, by, live]; by is a write or 0
  pending,   \* writes that were sent, not answered, and may still arrive
  outcome,   \* per call of publishComment, where it went and what it told its caller
  accepted,  \* the credential the platform takes, numbered
  stored,    \* the one the AccountCredentials port supplies
  session,   \* Bluesky's cached session, [cred, alive, has], if any
  call,      \* per caller: the call under way; `alive` is its Bluesky agent, `owed` what was
             \* there when it began and it has not come across
  faults

vars == <<platform, blocked, thread, pending, outcome, accepted, stored, session, call, faults>>

NoSession == [cred |-> 0, alive |-> FALSE, has |-> FALSE]
Idle == [op |-> "none", stage |-> "idle", cred |-> 0, alive |-> FALSE, write |-> 0,
         under |-> Post, cursor |-> NoCursor, pages |-> 0, owed |-> {},
         out |-> "nothing"]

Init ==
  /\ platform \in Platforms /\ blocked = {}
  /\ thread = << [under |-> Post, by |-> 0, live |-> TRUE] >>
  /\ pending = {} /\ outcome = << >>
  /\ accepted = 1 /\ stored = 1
  /\ session \in {NoSession, [cred |-> 1, alive |-> TRUE, has |-> TRUE]}
  /\ call = [c \in Callers |-> Idle]
  /\ faults = 0

Fault == faults < MaxFaults /\ faults' = faults + 1

-------------------------------------------------------------------------------
(* The platform. *)

Live == {i \in DOMAIN thread : thread[i].live}
Exists(anchor) == anchor = Post \/ anchor \in Live

\* What an edge lists: Facebook's `stream` is flat, the others list direct answers.
Edge(anchor) ==
  {i \in Live : \/ thread[i].under = anchor
                \/ platform = "facebook" /\ anchor = Post}

\* The first page of S behind a cursor, oldest first.
PageOf(S, cursor, n) ==
  LET behind == {i \in S : i > cursor}
  IN {i \in behind : Cardinality({j \in behind : j < i}) < n}
MoreThan(S, cursor, n) == Cardinality({i \in S : i > cursor}) > n

\* Bluesky keeps an answer to what is gone; Meta refuses it.
Takes(anchor) == platform = "bluesky" \/ Exists(anchor)
Apply(w, anchor) == thread' = Append(thread, [under |-> anchor, by |-> w, live |-> TRUE])

\* Somebody else answers the post or its first comment.
CommentElsewhere(anchor) ==
  /\ Exists(anchor) /\ Len(thread) < MaxComments /\ Apply(0, anchor)
  /\ UNCHANGED <<platform, blocked, pending, outcome, accepted, stored, session, call, faults>>

\* Meta deletes the answers with their comment; on Bluesky they stay.
DeleteElsewhere(i) ==
  /\ i \in Live /\ Cardinality(DOMAIN thread \ Live) < MaxDeleted
  /\ thread' = [j \in DOMAIN thread |->
       IF j = i \/ (platform # "bluesky" /\ thread[j].under = i)
       THEN [thread[j] EXCEPT !.live = FALSE] ELSE thread[j]]
  /\ UNCHANGED <<platform, blocked, pending, outcome, accepted, stored, session, call, faults>>

\* The author of the post or of a comment blocks the account, or the account the author.
Block(i) ==
  /\ platform = "bluesky" /\ Cardinality(blocked) < MaxBlocked
  /\ i \in {Post} \cup {j \in DOMAIN thread : thread[j].by = 0}
  /\ blocked' = blocked \cup {i}
  /\ UNCHANGED <<platform, thread, pending, outcome, accepted, stored, session, call, faults>>

\* A write whose answer never came arrives, or never does.
Arrives(p) ==
  /\ pending' = pending \ {p}
  /\ (Takes(p.under) /\ Apply(p.write, p.under)) \/ UNCHANGED thread
  /\ UNCHANGED <<platform, blocked, outcome, accepted, stored, session, call, faults>>

\* The account gets a new credential, and the service is told of it later.
IssueCredential ==
  /\ accepted <= MaxRotations /\ accepted' = accepted + 1
  /\ UNCHANGED <<platform, blocked, thread, pending, outcome, stored, session, call, faults>>
StoreCredential ==
  /\ stored # accepted /\ stored' = accepted
  /\ UNCHANGED <<platform, blocked, thread, pending, outcome, accepted, session, call, faults>>

\* Bluesky ends the account's sessions; an agent notices when it fails to refresh one.
KillSessions ==
  /\ platform = "bluesky" /\ Fault
  /\ session.alive \/ \E c \in Callers : call[c].alive
  /\ \E noticed \in BOOLEAN :
       session' = [session EXCEPT !.alive = FALSE, !.has = @ /\ ~noticed]
  /\ call' = [c \in Callers |-> [call[c] EXCEPT !.alive = FALSE]]
  /\ UNCHANGED <<platform, blocked, thread, pending, outcome, accepted, stored>>

-------------------------------------------------------------------------------
(* Classification. *)

\* What a request can bring back besides a good answer, and whether the request may
\* then have been carried out: now, later or not at all.
Effects(answer) ==
  CASE answer \in {"dropped", "serverError"} -> {"none", "applied", "later"}
    [] answer = "unreadable"                 -> {"applied"}
    [] OTHER                                 -> {"none"}
Answers == {"notSent", "dropped", "unreadable", "serverError", "rateLimited", "forbidden",
            "oauth", "rejected"}

\* Mutant: a server error to a write is like one to a read.
ClassifyAlike(answer, operation) ==
  CASE answer \in {"notSent", "rateLimited", "serverError"} -> "RetryableError"
    [] answer \in {"dropped", "unreadable"} -> "OutcomeUnknownError"
    [] answer \in {"forbidden", "oauth"} -> "AuthError"
    [] answer = "rejected" -> "PermanentError"

classifyBlueskyFailure(answer, operation) ==
  CASE answer \in {"notSent", "rateLimited"}     -> "RetryableError"
    [] answer \in {"dropped", "unreadable"}      -> "OutcomeUnknownError"
    [] answer = "serverError"                    ->
         IF operation = "write" THEN "OutcomeUnknownError" ELSE "RetryableError"
    [] answer \in {"forbidden", "oauth"}         -> "AuthError"
    [] answer = "rejected"                       -> "PermanentError"

\* An unreadable success differs for a read.
classifyGraphFailure(answer, operation) ==
  CASE answer \in {"notSent", "rateLimited"}     -> "RetryableError"
    [] answer = "dropped"                        -> "OutcomeUnknownError"
    [] answer \in {"unreadable", "serverError"}  ->
         IF operation = "write" THEN "OutcomeUnknownError" ELSE "RetryableError"
    [] answer \in {"forbidden", "oauth"}         -> "AuthError"
    [] answer = "rejected"                       -> "PermanentError"

Classify(answer, operation) ==
  IF platform = "bluesky" THEN classifyBlueskyFailure(answer, operation)
                          ELSE classifyGraphFailure(answer, operation)

-------------------------------------------------------------------------------
(* A call. *)

Begin(c, new) ==
  /\ call[c].stage = "idle"
  /\ call' = [call EXCEPT ![c] = [new EXCEPT
       !.stage = IF platform = "bluesky" THEN "session" ELSE "request", !.cred = stored]]
  /\ UNCHANGED <<platform, blocked, thread, pending, accepted, stored, session, faults>>

StartPublish(c, anchor) ==
  /\ Len(outcome) < MaxWrites
  /\ outcome' = Append(outcome, [under |-> anchor, told |-> "nothing"])
  /\ Begin(c, [Idle EXCEPT !.op = "publish", !.write = Len(outcome) + 1, !.under = anchor])

\* publish-comment.ts searches for what it does not know the outcome of.
StartFind(c, w) ==
  /\ outcome[w].told = "OutcomeUnknownError"
  /\ Begin(c, [Idle EXCEPT !.op = "find", !.write = w, !.under = outcome[w].under,
                           !.owed = {i \in Live : thread[i].by = w}])
  /\ UNCHANGED outcome

StartList(c) ==
  /\ platform # "bluesky"
  /\ Begin(c, [Idle EXCEPT !.op = "list", !.owed = Live])
  /\ UNCHANGED outcome
StartFetch(c, i) ==
  /\ Begin(c, [Idle EXCEPT !.op = "fetch", !.under = i, !.owed = {i}])
  /\ UNCHANGED outcome

\* What the call knows now, and where it stands.
Continue(c, stage) == call' = [call EXCEPT ![c].stage = stage]

Answer(c, out) ==
  /\ call' = [call EXCEPT ![c] = [Idle EXCEPT !.op = call[c].op, !.stage = "answered", !.out = out,
                                             !.under = call[c].under, !.owed = call[c].owed]]
  /\ outcome' = IF call[c].op = "publish" THEN [outcome EXCEPT ![call[c].write].told = out]
                                          ELSE outcome

\* Mutant: the rejected session stays in the cache.
KeepSession(error) == session

forgetSession(error) ==
  IF platform = "bluesky" /\ error = "AuthError" THEN NoSession ELSE session

\* adapterFailure, and the Meta adapters' throw of what was classified.
Fail(c, error) == Answer(c, error) /\ session' = forgetSession(error)

WireFault(c, operation) ==
  \E answer \in Answers : Fault /\ Fail(c, Classify(answer, operation))

Honoured(c) == IF platform = "bluesky" THEN call[c].alive ELSE call[c].cred = accepted
Refused(c, operation) == ~Honoured(c) /\ Fail(c, Classify("oauth", operation)) /\ UNCHANGED faults

\* Bluesky reads the posts a reply names before it writes.
FirstRequest(c) == IF call[c].op = "publish" THEN "prepare" ELSE "request"

sessionFor(c) ==
  /\ call[c].stage = "session"
  /\ IF session.has /\ session.cred = call[c].cred
     THEN call' = [call EXCEPT ![c].alive = session.alive, ![c].stage = FirstRequest(c)]
     ELSE Continue(c, "login")
  /\ UNCHANGED <<platform, blocked, thread, pending, outcome, accepted, stored, session, faults>>

\* Whoever logs in last is cached, also with a credential superseded meanwhile.
Login(c) ==
  /\ call[c].stage = "login"
  /\ \/ LET fresh == [cred |-> call[c].cred, alive |-> TRUE, has |-> TRUE]
        IN /\ call[c].cred = accepted
           /\ session' = fresh
           /\ call' = [call EXCEPT ![c].alive = TRUE, ![c].stage = FirstRequest(c)]
           /\ UNCHANGED <<outcome, faults>>
     \/ call[c].cred # accepted /\ Fail(c, Classify("oauth", "read")) /\ UNCHANGED faults
     \/ WireFault(c, "read")
  /\ UNCHANGED <<platform, blocked, thread, pending, accepted, stored>>

prepareReply(c) ==
  /\ call[c].stage = "prepare"
  /\ \/ Refused(c, "read")
     \/ WireFault(c, "read")
     \/ /\ Honoured(c)
        /\ \/ Exists(call[c].under) /\ Continue(c, "request") /\ UNCHANGED outcome
           \/ /\ ~Exists(call[c].under) \/ {Post, call[c].under} \cap blocked # {}
              /\ Answer(c, "PermanentError")
        /\ UNCHANGED <<session, faults>>
  /\ UNCHANGED <<platform, blocked, thread, pending, accepted, stored>>

\* The one request that writes.
publishComment(c) ==
  /\ call[c].stage = "request" /\ call[c].op = "publish"
  /\ LET w == call[c].write  anchor == call[c].under
     IN \/ Refused(c, "write") /\ UNCHANGED <<thread, pending>>
        \/ /\ Honoured(c) /\ Takes(anchor)
           /\ Apply(w, anchor) /\ Answer(c, "posted")
           /\ UNCHANGED <<pending, session, faults>>
        \/ /\ Honoured(c) /\ ~Takes(anchor)
           /\ Fail(c, Classify("rejected", "write"))
           /\ UNCHANGED <<thread, pending, faults>>
        \/ \E answer \in Answers : \E effect \in Effects(answer) :
             /\ Fault /\ Honoured(c) /\ Fail(c, Classify(answer, "write"))
             /\ effect = "none" \/ Takes(anchor)
             /\ IF effect = "applied" THEN Apply(w, anchor) ELSE UNCHANGED thread
             /\ pending' = IF effect = "later" THEN pending \cup {[write |-> w, under |-> anchor]}
                                               ELSE pending
  /\ UNCHANGED <<platform, blocked, accepted, stored>>

Reading(c, op) == call[c].stage = "request" /\ call[c].op = op
ReadOnly == UNCHANGED <<platform, blocked, thread, pending, accepted, stored>>
ReadFails(c, op) ==
  Reading(c, op) /\ (Refused(c, "read") \/ WireFault(c, "read")) /\ ReadOnly
Gets(c, op) == Reading(c, op) /\ Honoured(c) /\ ReadOnly /\ UNCHANGED session

\* Bluesky: the direct answers of the anchor, in one request. An anchor that is gone or
\* blocked is read as having none.
SearchThread(c) ==
  /\ platform = "bluesky" /\ Gets(c, "find") /\ UNCHANGED faults
  /\ LET anchor == call[c].under
     IN Answer(c, IF /\ Exists(anchor) /\ anchor \notin blocked
                     /\ \E i \in Edge(anchor) : thread[i].by = call[c].write
                  THEN "found" ELSE "absent")

\* Mutant: no cursor, no further page.
CursorOrEnd(next, after) == IF next /\ after THEN "after" ELSE "end"

nextCursor(next, after) == IF ~next THEN "end" ELSE IF after THEN "after" ELSE "lost"

\* `next` is there when there is more, and may be there when there is not; a page
\* may lack its cursor.
Paging(more, next, after) ==
  /\ more => next
  /\ IF next /\ ~after THEN Fault ELSE UNCHANGED faults

TurnPage(c, page) == [call[c] EXCEPT !.cursor = Max(page \cup {@})]

\* One page of the Graph walk.
findCommentOnEdge(c) ==
  /\ platform # "bluesky" /\ Gets(c, "find")
  /\ LET at   == call[c]
         edge == Edge(at.under)
         page == PageOf(edge, at.cursor, PageSize)
     IN \/ /\ ~Exists(at.under)
           /\ Answer(c, Classify("rejected", "read")) /\ UNCHANGED faults
        \/ \E next, after \in BOOLEAN :
             /\ Exists(at.under) /\ Paging(MoreThan(edge, at.cursor, PageSize), next, after)
             /\ IF \E i \in page : thread[i].by = at.write THEN Answer(c, "found")
                ELSE IF nextCursor(next, after) = "end" THEN Answer(c, "absent")
                ELSE IF nextCursor(next, after) = "lost" \/ at.pages + 1 = MaxPages
                THEN Answer(c, "OutcomeUnknownError")
                ELSE /\ call' = [call EXCEPT ![c] = [TurnPage(c, page) EXCEPT !.pages = @ + 1]]
                     /\ UNCHANGED outcome

\* What a listed page holds: Instagram nests the first answers under each comment.
Nested(page) ==
  IF platform # "instagram" THEN {}
  ELSE UNION {PageOf({j \in Live : thread[j].under = i}, NoCursor, ReplyPage) : i \in page}

Truncated(page) ==
  platform = "instagram"
    /\ \E i \in page : Cardinality({j \in Live : thread[j].under = i}) > ReplyPage

\* One call of listComments by a walk: a page that cannot be trusted is an error.
listComments(c) ==
  /\ Gets(c, "list")
  /\ LET at   == call[c]
         page == PageOf(Edge(Post), at.cursor, PageSize)
     IN \E next, after \in BOOLEAN :
          /\ Paging(MoreThan(Edge(Post), at.cursor, PageSize), next, after)
          /\ IF Truncated(page) \/ nextCursor(next, after) = "lost"
             THEN Answer(c, "Error")
             ELSE /\ call' = [call EXCEPT ![c] =
                       [TurnPage(c, page) EXCEPT
                          !.owed  = @ \ (page \cup Nested(page)),
                          !.stage = IF nextCursor(next, after) = "end" THEN "answered" ELSE @,
                          !.out   = IF nextCursor(next, after) = "end" THEN "complete" ELSE @]]
                  /\ UNCHANGED outcome

\* A comment that is not there is null, not a failure, and so is one that is blocked.
fetchComment(c) ==
  /\ Gets(c, "fetch") /\ UNCHANGED faults
  /\ Answer(c, IF call[c].under \in Live \ blocked THEN "found" ELSE "absent")

Return(c) ==
  /\ call[c].stage = "answered"
  /\ call' = [call EXCEPT ![c] = Idle]
  /\ UNCHANGED <<platform, blocked, thread, pending, outcome, accepted, stored, session, faults>>

Proceed(c) ==
  \/ sessionFor(c) \/ Login(c) \/ prepareReply(c) \/ publishComment(c)
  \/ SearchThread(c) \/ findCommentOnEdge(c) \/ listComments(c) \/ fetchComment(c)
  \/ \E op \in {"find", "list", "fetch"} : ReadFails(c, op)
  \/ Return(c)

Next ==
  \/ \E anchor \in {Post, 1} : CommentElsewhere(anchor)
  \/ \E i \in DOMAIN thread : DeleteElsewhere(i)
  \/ \E i \in {Post} \cup DOMAIN thread : Block(i)
  \/ \E p \in pending : Arrives(p)
  \/ IssueCredential \/ StoreCredential \/ KillSessions
  \/ \E c \in Publishers :
       \/ \E anchor \in {Post, 1} : StartPublish(c, anchor)
       \/ \E w \in DOMAIN outcome : StartFind(c, w)
  \/ \E c \in Readers : StartList(c) \/ \E i \in DOMAIN thread : StartFetch(c, i)
  \/ \E c \in Callers : Proceed(c)

Spec     == Init /\ [][Next]_vars
FairSpec == Spec /\ \A c \in Callers : WF_vars(Proceed(c))

-------------------------------------------------------------------------------
(* Properties. *)

\* Whatever publishComment says was not carried out was not and never will be, so it may
\* be sent again; and what it says is posted is.
OutcomeHonest ==
  \A w \in DOMAIN outcome :
    LET sent == {i \in DOMAIN thread : thread[i].by = w}
    IN /\ outcome[w].told \in {"RetryableError", "PermanentError", "AuthError"} =>
            sent = {} /\ \A p \in pending : p.write # w
       /\ outcome[w].told = "posted" => sent # {}

\* "Not there" is never said of what was there when the call began and still is: by the
\* search that licenses a second send, by the walk that deletes what it did not see, by
\* the lookup. There are two exceptions, in which a reply that is there is called absent:
\* the search of Bluesky under an anchor that is gone or blocked, and the lookup of a
\* comment that is blocked.
AbsenceIsTrue ==
  \A c \in Callers : call[c].out \in {"absent", "complete"} =>
    \/ call[c].owed \cap Live = {}
    \/ call[c].op = "find" /\ ~Exists(call[c].under)
    \/ call[c].op \in {"find", "fetch"} /\ call[c].under \in blocked

\* Once the stored credential is one the platform takes, calls stop failing for it: no
\* rejected or superseded session is served for ever.
FixedCredentialServes ==
  <>[](stored = accepted) => <>[](\A c \in Callers : call[c].out # "AuthError")
===============================================================================
