----------------------------- MODULE CommentListing -----------------------------
(***************************************************************************)
(* The flat listing, GET /v1/comments: a client reads one selection page   *)
(* by page, following the cursor, while the write routes and ingestion     *)
(* change the table under it.  Composes AcceptComment with one client.     *)
(***************************************************************************)
EXTENDS AcceptComment

CONSTANTS
  Selections,  \* filters a client asks for: [parent, topLevelOnly, own]
  Unfiltered,  \* a filter that is not there
  Start,       \* no cursor
  Rank,        \* the order of the ids
  PageSize

ASSUME ListingAssumption ==
  /\ \A s \in Selections : s.parent \in Existing \cup {Unfiltered} /\ s.own \in {Unfiltered, TRUE, FALSE}
                           /\ s.topLevelOnly \in BOOLEAN
  /\ Rank \in [Ids -> Int] /\ \A i, j \in Ids : Rank[i] = Rank[j] => i = j
  /\ Start \notin Ids
  /\ PageSize \in Nat \ {0}

VARIABLES
  asked,  \* the selection and the order the client asked for
  walk    \* how far it is, what it was given, and the rows that matched ever since page one
listVars == <<vars, asked, walk>>

Orders == {"asc", "desc"}

\* Every variable has its type, the client's included.
ListTypeOK ==
  /\ TypeOK
  /\ asked \in [selection : Selections, order : Orders]
  /\ walk \in [cursor: Ids \cup {Start}, finished: BOOLEAN,
               returned: SUBSET Ids, repeated: SUBSET Ids, steady: SUBSET Ids]
  /\ UNION {walk.returned, walk.repeated, walk.steady} \subseteq Committed

ListInit ==
  /\ Init
  /\ asked \in [selection : Selections, order : Orders]
  /\ walk = [cursor |-> Start, finished |-> FALSE, returned |-> {}, repeated |-> {}, steady |-> {}]

-------------------------------------------------------------------------------
(* The query.  A row's position never changes, so a cursor names the row it came from. *)

VisibleInList(i) == rows[i].status # "deleted" \/ rows[i].replies > 0

Selected(s, i) ==
  /\ s.parent # Unfiltered => rows[i].parent = s.parent
  /\ s.topLevelOnly => rows[i].parent = Post
  /\ s.own # Unfiltered => s.own = (i \in Requests)

Matching == {i \in Committed : Selected(asked.selection, i) /\ VisibleInList(i)}

\* (occurred_at, id) compared as a row.
Earlier(i, j) == rows[i].at < rows[j].at \/ (rows[i].at = rows[j].at /\ Rank[i] < Rank[j])

\* Whether j comes after i in the order.
Follows(order, i, j) == IF order = "asc" THEN Earlier(i, j) ELSE Earlier(j, i)

\* Mutant: the cursor's own row again.
AfterCursorOrAt(order) ==
  {i \in Matching : walk.cursor # Start => ~Follows(order, i, walk.cursor)}

AfterCursor(order) ==
  {i \in Matching : walk.cursor # Start => Follows(order, walk.cursor, i)}

FirstOf(order, S, n) == {i \in S : Cardinality({j \in S : Follows(order, j, i)}) < n}

CursorAccepted(order) == walk.cursor = Start \/ order = asked.order

\* One page; a cursor replayed under the other order is refused and changes nothing.
ListPage(order) ==
  /\ ~walk.finished /\ CursorAccepted(order)
  /\ walk.cursor = Start => order = asked.order
  /\ Free > 0
  /\ LET page    == FirstOf(order, AfterCursor(order), PageSize)
         hasMore == Cardinality(AfterCursor(order)) > PageSize
     IN walk' = [walk EXCEPT
          !.returned = @ \cup page,
          !.repeated = @ \cup (page \cap walk.returned),
          !.steady   = IF walk.cursor = Start THEN Matching ELSE @,
          !.finished = ~hasMore,
          !.cursor   = IF hasMore
                       THEN CHOOSE i \in page : \A j \in page \ {i} : Follows(order, j, i)
                       ELSE @]
  /\ UNCHANGED <<vars, asked>>

\* A change of the table, and what it does to the rows the client must not miss.
TableChanges ==
  Next /\ UNCHANGED asked /\ walk' = [walk EXCEPT !.steady = @ \cap Matching']

ListNext == TableChanges \/ \E order \in Orders : ListPage(order)

ListSpec     == ListInit /\ [][ListNext]_listVars
ListFairSpec == ListSpec /\ Fairness

-------------------------------------------------------------------------------
(* Properties. *)

\* Following the cursor to the end returns every row that matched all along, and none of
\* them, nor any other, twice - whatever is inserted, deleted or revealed between the
\* pages, in both orders, and rows of one millisecond included.
PagesExact ==
  /\ walk.repeated = {}
  /\ walk.finished => walk.steady \subseteq walk.returned
===============================================================================
