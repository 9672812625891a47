--------------------------- MODULE CommentThread_proofs ---------------------------
(***************************************************************************)
(* The rows of a post form the platform's tree, count its replies, announce *)
(* each comment once and delete none that is still listed: for any tree of *)
(* comments, any number of writers, deliveries, walks and purges.          *)
(***************************************************************************)
EXTENDS CommentThread, FiniteSetTheorems, SequenceTheorems, TLAPS

(***************************************************************************)
(* The inductive invariant.  What holds of the table is stated of a table  *)
(* rs, because one transaction writes a row after the other.               *)
(***************************************************************************)

Written(k) == k \in Ids => created[k] > 0

RowsTyped(rs) ==
  DOMAIN rs \subseteq Keys /\ \A k \in DOMAIN rs : rs[k] \in Row /\ Written(k)

\* The root of what answers row k.
RootBelow(rs, k) == IF rs[k].root = NoKey THEN k ELSE rs[k].root

\* Where a row stands that answers `parent`.
Placed(rs, parent, root, depth) ==
  IF parent = NoKey THEN root = NoKey /\ depth = 0
  ELSE parent \in DOMAIN rs /\ root = RootBelow(rs, parent) /\ depth = rs[parent].depth + 1

Rooted(rs) ==
  \A k \in DOMAIN rs :
    /\ rs[k].parent = ReportedParent(k)
    /\ Placed(rs, rs[k].parent, rs[k].root, rs[k].depth)
    /\ rs[k].root # NoKey => rs[k].root \in DOMAIN rs /\ rs[rs[k].root].parent = NoKey

RepliesOf(rs, k) == {c \in DOMAIN rs : rs[c].parent = k /\ rs[c].status = "posted"}

Counted(rs) == \A k \in DOMAIN rs : rs[k].replies = Cardinality(RepliesOf(rs, k))

\* What a row says of itself: announced once, erased once, of this purge or before.
Sound(row) ==
  /\ row.received = 1
  /\ row.removed = IF row.status = "deleted" THEN 1 ELSE 0
  /\ row.status = "deleted" => row.edition = Erased
  /\ row.born <= purges

Covered(rs) ==
  \A k \in DOMAIN rs :
    /\ rs[k].activity >= created[k]
    /\ rs[k].root # NoKey => rs[rs[k].root].activity >= created[k]

Table(rs) ==
  /\ RowsTyped(rs) /\ Rooted(rs) /\ Counted(rs) /\ Covered(rs)
  /\ \A k \in DOMAIN rs : Sound(rs[k])

\* What is written on the platform, and what is gone from it for good.
PlatformTruth ==
  /\ \A i \in Ids : i \in alive \/ i \in hidden => created[i] > 0
  /\ \A i \in Ids : created[i] > 0 => Written(ParentOf[i])
  /\ \A e \in deliveries : created[e.id] > 0 /\ (e.kind = "delete" => e.id \notin alive)

\* The copies an upsert will write: the ancestors found missing, and the comment.
Line(w) == Append(op[w].chain, op[w].copy)

Sourced(w) ==
  \A n \in DOMAIN Line(w) :
    /\ Written(Line(w)[n].key)
    /\ ReportedParent(Line(w)[n].key) = IF n = 1 THEN op[w].at ELSE Line(w)[n - 1].key

\* The row an upsert builds on is the one it read, unless that was purged meanwhile.
Based(w) ==
  LET base == op[w].base IN
  base # Unresolved =>
    /\ base.parent = op[w].at /\ base.born <= purges
    /\ base.parent = NoKey => base.root = NoKey /\ base.depth = 0
    /\ base.parent # NoKey =>
         /\ base.born = purges => Has(base.parent)
         /\ Has(base.parent) /\ rows[base.parent].born = base.born
              => Placed(rows, base.parent, base.root, base.depth)

WriterTruth(w) == Upserting(w) => Sourced(w) /\ Based(w)

Gone(i) == Written(i) /\ ~Reachable(i)

\* What the walk has passed without seeing it is gone.
WalkTruth ==
  /\ \A copy \in todo : copy.key \in Ids /\ created[copy.key] > 0
  /\ \A i \in tombstones : created[i] > 0 /\ i \notin alive
  /\ eligible \subseteq DOMAIN rows
  /\ wpc # "ingest" => todo = {}
  /\ \A i \in missing \cap Ids : Gone(i)
  /\ wpc \in {"page", "ingest"} =>
       \A i \in eligible \cap Ids :
         PageOf[i] < page \/ (PageOf[i] = page /\ wpc = "ingest") =>
           i \in seen \/ Gone(i) \/ \E copy \in todo : copy.key = i

\* The purge takes the rows it selected: nothing comes in their place before.
StaleTruth ==
  \A s \in stale :
    s[1] \in DOMAIN rows /\ rows[s[1]].born = s[2] /\ rows[s[1]].parent = NoKey

DeletedGone == \A i \in DOMAIN rows \cap Ids : rows[i].status = "deleted" => Gone(i)

ThreadInv ==
  /\ TypeOK /\ PlatformTruth /\ Table(rows) /\ DeletedGone
  /\ \A w \in Writers : WriterTruth(w)
  /\ WalkTruth /\ StaleTruth

-------------------------------------------------------------------------------
(* One row. *)

\* The same comment in the same place, announced as often as before.
SameRow(row, u) ==
  /\ u \in Row /\ u.parent = row.parent /\ u.root = row.root
  /\ u.depth = row.depth /\ u.born = row.born

LEMMA NewRowIsRow ==
  ASSUME TypeOK, NEW copy \in Copies, NEW place, place.parent \in Keys \cup {NoKey},
         place.root \in Keys \cup {NoKey}, place.depth \in Nat
  PROVE  LET row == NewRow(copy, place) IN
         /\ row \in Row /\ row.status = "posted" /\ row.parent = place.parent
         /\ row.root = place.root /\ row.depth = place.depth /\ row.replies = 0
         /\ row.activity = created[copy.key] /\ row.born = purges
         /\ row.received = 0 /\ row.removed = 0
<1>1. copy.key \in Keys /\ copy.edition \in Editions
  BY DEF Copies
<1>2. created[copy.key] \in Nat /\ purges \in Nat
  BY <1>1 DEF TypeOK
<1>3. QED
  BY <1>1, <1>2 DEF NewRow, Row

\* A table that differs in the counters of rows only.
SamePlaces(rs, out) ==
  /\ DOMAIN out = DOMAIN rs
  /\ \A x \in DOMAIN rs :
       /\ SameRow(rs[x], out[x]) /\ out[x].status = rs[x].status
       /\ out[x].edition = rs[x].edition /\ out[x].removed = rs[x].removed

LEMMA RepliesMove ==
  ASSUME NEW rs, \A x \in DOMAIN rs : rs[x] \in Row, NEW p \in DOMAIN rs, p # NoKey, NEW n \in Int
  PROVE  LET out == bumpParentReplyCount(rs, p, n) IN
         /\ SamePlaces(rs, out)
         /\ \A x \in DOMAIN rs :
              /\ out[x].replies = IF x = p THEN rs[x].replies + n ELSE rs[x].replies
              /\ out[x].activity = rs[x].activity /\ out[x].received = rs[x].received
<1> DEFINE out == bumpParentReplyCount(rs, p, n)
<1>1. PICK row \in Row : row = rs[p]
  OBVIOUS
<1>2. PICK u : u = [row EXCEPT !.replies = @ + n, !.settled = FALSE]
  OBVIOUS
<1>3. out[p] = u /\ DOMAIN out = DOMAIN rs /\ \A x \in DOMAIN rs \ {p} : out[x] = rs[x]
  BY <1>1, <1>2 DEF bumpParentReplyCount, bumpRootLastActivity, Announced
<1> HIDE DEF out
<1>4. /\ SameRow(row, u) /\ u.status = row.status /\ u.edition = row.edition
      /\ u.removed = row.removed
      /\ u.replies = row.replies + n /\ u.activity = row.activity /\ u.received = row.received
  <2>1. PICK m \in Int : m = row.replies + n
    BY DEF Row
  <2>2. u = [row EXCEPT !.replies = m, !.settled = FALSE]
    BY <1>2, <2>1
  <2>3. QED
    BY <2>1, <2>2 DEF Row, SameRow
<1>5. \A x \in DOMAIN rs \ {p} : SameRow(rs[x], out[x])
  BY <1>3 DEF SameRow
<1>6. SamePlaces(rs, out)
  BY <1>1, <1>3, <1>4, <1>5 DEF SamePlaces
<1>7. QED
  BY <1>1, <1>3, <1>4, <1>6 DEF out

LEMMA ActivityMoves ==
  ASSUME NEW rs, \A x \in DOMAIN rs : rs[x] \in Row, NEW r \in DOMAIN rs, r # NoKey, NEW t \in Nat
  PROVE  LET out == bumpRootLastActivity(rs, r, t) IN
         /\ SamePlaces(rs, out)
         /\ \A x \in DOMAIN rs :
              /\ out[x].activity = IF x = r THEN Later(rs[x].activity, t) ELSE rs[x].activity
              /\ out[x].replies = rs[x].replies /\ out[x].received = rs[x].received
<1> DEFINE out == bumpRootLastActivity(rs, r, t)
<1>1. PICK row \in Row : row = rs[r]
  OBVIOUS
<1>2. PICK u : u = [row EXCEPT !.activity = Later(@, t), !.settled = FALSE]
  OBVIOUS
<1>3. out[r] = u /\ DOMAIN out = DOMAIN rs /\ \A x \in DOMAIN rs \ {r} : out[x] = rs[x]
  BY <1>1, <1>2 DEF bumpParentReplyCount, bumpRootLastActivity, Announced
<1> HIDE DEF out
<1>4. /\ SameRow(row, u) /\ u.status = row.status /\ u.edition = row.edition
      /\ u.removed = row.removed
      /\ u.activity = Later(row.activity, t) /\ u.replies = row.replies /\ u.received = row.received
  BY <1>2 DEF Row, SameRow, Later
<1>5. \A x \in DOMAIN rs \ {r} : SameRow(rs[x], out[x])
  BY <1>3 DEF SameRow
<1>6. SamePlaces(rs, out)
  BY <1>1, <1>3, <1>4, <1>5 DEF SamePlaces
<1>7. QED
  BY <1>1, <1>3, <1>4, <1>6 DEF out

LEMMA ReceivedMoves ==
  ASSUME NEW rs, \A x \in DOMAIN rs : rs[x] \in Row, NEW k \in DOMAIN rs, k # NoKey
  PROVE  LET out == Announced(rs, k) IN
         /\ SamePlaces(rs, out)
         /\ \A x \in DOMAIN rs :
              /\ out[x].received = IF x = k THEN rs[x].received + 1 ELSE rs[x].received
              /\ out[x].replies = rs[x].replies /\ out[x].activity = rs[x].activity
<1> DEFINE out == Announced(rs, k)
<1>1. PICK row \in Row : row = rs[k]
  OBVIOUS
<1>2. PICK u : u = [row EXCEPT !.received = @ + 1]
  OBVIOUS
<1>3. out[k] = u /\ DOMAIN out = DOMAIN rs /\ \A x \in DOMAIN rs \ {k} : out[x] = rs[x]
  BY <1>1, <1>2 DEF bumpParentReplyCount, bumpRootLastActivity, Announced
<1> HIDE DEF out
<1>4. /\ SameRow(row, u) /\ u.status = row.status /\ u.edition = row.edition
      /\ u.removed = row.removed
      /\ u.received = row.received + 1 /\ u.replies = row.replies /\ u.activity = row.activity
  BY <1>2 DEF Row, SameRow, Later
<1>5. \A x \in DOMAIN rs \ {k} : SameRow(rs[x], out[x])
  BY <1>3 DEF SameRow
<1>6. SamePlaces(rs, out)
  BY <1>1, <1>3, <1>4, <1>5 DEF SamePlaces
<1>7. QED
  BY <1>1, <1>3, <1>4, <1>6 DEF out

\* What an insert changes besides its own row.
LEMMA SideEffects ==
  ASSUME TypeOK, NEW rs, \A x \in DOMAIN rs : rs[x] \in Row, NEW k \in DOMAIN rs \cap Keys,
         rs[k].parent \in DOMAIN rs \cup {NoKey}, rs[k].root \in DOMAIN rs \cup {NoKey},
         NoKey \notin DOMAIN rs
  PROVE  LET out == ApplyNewCommentSideEffects(rs, k) IN
         /\ SamePlaces(rs, out)
         /\ \A x \in DOMAIN rs :
              /\ out[x].replies  = IF x = rs[k].parent THEN rs[x].replies + 1 ELSE rs[x].replies
              /\ out[x].activity = IF x = rs[k].root THEN Later(rs[x].activity, created[k])
                                                     ELSE rs[x].activity
              /\ out[x].received = IF x = k THEN rs[x].received + 1 ELSE rs[x].received
<1> DEFINE counted == bumpParentReplyCount(rs, rs[k].parent, 1)
           moved   == bumpRootLastActivity(counted, rs[k].root, created[k])
           out     == Announced(moved, k)
<1>1. created[k] \in Nat /\ 1 \in Int
  BY DEF TypeOK
<1>2. /\ SamePlaces(rs, counted)
      /\ \A x \in DOMAIN rs :
           /\ counted[x].replies = IF x = rs[k].parent THEN rs[x].replies + 1 ELSE rs[x].replies
           /\ counted[x].activity = rs[x].activity /\ counted[x].received = rs[x].received
  <2>1. CASE rs[k].parent = NoKey
    BY <2>1 DEF bumpParentReplyCount, SamePlaces, SameRow
  <2>2. CASE rs[k].parent # NoKey
    BY <1>1, <2>2, RepliesMove, Zenon
  <2>3. QED
    BY <2>1, <2>2
<1> HIDE DEF counted
<1>3. DOMAIN counted = DOMAIN rs /\ \A x \in DOMAIN counted : counted[x] \in Row
  BY <1>2 DEF SamePlaces, SameRow
<1>4. /\ SamePlaces(counted, moved)
      /\ \A x \in DOMAIN counted :
           /\ moved[x].activity = IF x = rs[k].root THEN Later(counted[x].activity, created[k])
                                                   ELSE counted[x].activity
           /\ moved[x].replies = counted[x].replies /\ moved[x].received = counted[x].received
  <2>1. CASE rs[k].root = NoKey
    BY <1>3, <2>1 DEF bumpRootLastActivity, SamePlaces, SameRow
  <2>2. CASE rs[k].root # NoKey
    <3>1. rs[k].root \in DOMAIN counted
      BY <1>3, <2>2
    <3>2. QED
      BY <1>1, <1>3, <2>2, <3>1, ActivityMoves, Zenon
  <2>3. QED
    BY <2>1, <2>2
<1> HIDE DEF moved
<1>5. DOMAIN moved = DOMAIN rs /\ \A x \in DOMAIN moved : moved[x] \in Row
  BY <1>3, <1>4 DEF SamePlaces, SameRow
<1>6. /\ SamePlaces(moved, out)
      /\ \A x \in DOMAIN moved :
           /\ out[x].received = IF x = k THEN moved[x].received + 1 ELSE moved[x].received
           /\ out[x].replies = moved[x].replies /\ out[x].activity = moved[x].activity
  <2>1. k \in DOMAIN moved /\ k # NoKey
    BY <1>5
  <2>2. QED
    BY <1>5, <2>1, ReceivedMoves, Zenon
<1>7. out = ApplyNewCommentSideEffects(rs, k)
  BY Zenon DEF ApplyNewCommentSideEffects, counted, moved
<1> HIDE DEF out
<1>8. SamePlaces(rs, out)
  BY <1>2, <1>3, <1>4, <1>5, <1>6 DEF SamePlaces, SameRow
<1>9. QED
  BY <1>2, <1>3, <1>4, <1>5, <1>6, <1>7, <1>8

-------------------------------------------------------------------------------
(* One upsert of a row. *)

\* No row moves or is restored, and a new one is of this purge.
Grows(rs, out) ==
  /\ DOMAIN rs \subseteq DOMAIN out
  /\ \A x \in DOMAIN rs :
       SameRow(rs[x], out[x]) /\ (rs[x].status = "deleted" => out[x].status = "deleted")
  /\ \A x \in DOMAIN out \ DOMAIN rs : out[x].born = purges

NoneErased(rs, out) ==
  \A x \in DOMAIN out : out[x].status = "deleted" => x \in DOMAIN rs /\ rs[x].status = "deleted"

LEMMA KeysAreFinite == IsFiniteSet(Keys) /\ NoKey \notin Keys
  BY ThreadAssumption, FS_AddElement DEF Keys

LEMMA RepliesAreFinite ==
  ASSUME NEW rs, RowsTyped(rs), NEW k
  PROVE  IsFiniteSet(RepliesOf(rs, k)) /\ Cardinality(RepliesOf(rs, k)) \in Nat
<1>1. RepliesOf(rs, k) \in SUBSET Keys
  BY DEF RepliesOf, RowsTyped
<1>2. QED
  BY <1>1, KeysAreFinite, FS_Subset, FS_CardinalityType

\* A place in a table of rooted rows has a root there, unless it is at the top.
LEMMA PlacedBelow ==
  ASSUME NEW rs, RowsTyped(rs), Rooted(rs), NEW parent, NEW root, NEW depth,
         Placed(rs, parent, root, depth)
  PROVE  /\ depth \in Nat /\ parent \in DOMAIN rs \cup {NoKey} /\ root \in DOMAIN rs \cup {NoKey}
         /\ parent = NoKey <=> root = NoKey
         /\ root # NoKey => rs[root].parent = NoKey
<1>1. CASE parent = NoKey
  BY <1>1 DEF Placed
<1>2. CASE parent # NoKey
  <2>1. parent \in DOMAIN rs /\ root = RootBelow(rs, parent) /\ depth = rs[parent].depth + 1
    BY <1>2 DEF Placed
  <2>2. rs[parent] \in Row /\ parent # NoKey
    BY <2>1, KeysAreFinite DEF RowsTyped
  <2>3. depth \in Nat
    BY <2>1, <2>2 DEF Row
  <2>4. CASE rs[parent].root = NoKey
    <3>1. rs[parent].parent = NoKey
      <4>1. Placed(rs, rs[parent].parent, rs[parent].root, rs[parent].depth)
        BY <2>1 DEF Rooted
      <4>2. SUFFICES ASSUME rs[parent].parent # NoKey PROVE FALSE
        OBVIOUS
      <4>3. /\ rs[parent].parent \in DOMAIN rs
            /\ NoKey = RootBelow(rs, rs[parent].parent)
        BY <2>4, <4>1, <4>2 DEF Placed
      <4>4. QED
        BY <4>3, KeysAreFinite DEF RootBelow, RowsTyped
    <3>2. QED
      BY <2>1, <2>2, <2>3, <2>4, <3>1 DEF RootBelow
  <2>5. CASE rs[parent].root # NoKey
    BY <2>1, <2>2, <2>3, <2>5 DEF RootBelow, Rooted
  <2>6. QED
    BY <2>4, <2>5
<1>3. QED
  BY <1>1, <1>2

LEMMA GrowsKeepsPlaced ==
  ASSUME NEW rs, NEW out, Grows(rs, out), NEW parent, NEW root, NEW depth,
         Placed(rs, parent, root, depth)
  PROVE  Placed(out, parent, root, depth)
  BY DEF Grows, Placed, RootBelow, SameRow

\* A row more, its counters moved, and nothing else.
InsertsRow(rs, out, k, place) ==
  /\ DOMAIN out = DOMAIN rs \cup {k}
  /\ \A x \in DOMAIN rs :
       /\ SameRow(rs[x], out[x]) /\ out[x].status = rs[x].status
       /\ out[x].edition = rs[x].edition /\ out[x].removed = rs[x].removed
       /\ out[x].received = rs[x].received
       /\ out[x].replies  = IF x = place.parent THEN rs[x].replies + 1 ELSE rs[x].replies
       /\ out[x].activity = IF x = place.root THEN Later(rs[x].activity, created[k])
                                              ELSE rs[x].activity
  /\ out[k] \in Row /\ out[k].status = "posted" /\ out[k].parent = place.parent
  /\ out[k].root = place.root /\ out[k].depth = place.depth /\ out[k].replies = 0
  /\ out[k].activity = created[k] /\ out[k].born = purges
  /\ out[k].received = 1 /\ out[k].removed = 0

LEMMA InsertedRow ==
  ASSUME TypeOK, NEW rs, RowsTyped(rs), Rooted(rs), NEW copy \in Copies, NEW place,
         copy.key \notin DOMAIN rs, place.parent = ReportedParent(copy.key),
         Placed(rs, place.parent, place.root, place.depth)
  PROVE  InsertsRow(rs, ApplyNewCommentSideEffects(Inserted(rs, copy, place), copy.key),
                    copy.key, place)
<1> DEFINE k   == copy.key
           mid == Inserted(rs, copy, place)
           out == ApplyNewCommentSideEffects(mid, k)
<1>1. k \in Keys /\ DOMAIN rs \subseteq Keys
  BY DEF Copies, RowsTyped
<1>2. /\ place.depth \in Nat /\ place.parent \in DOMAIN rs \cup {NoKey}
      /\ place.root \in DOMAIN rs \cup {NoKey}
  BY PlacedBelow
<1>3. /\ DOMAIN mid = DOMAIN rs \cup {k} /\ mid[k] = NewRow(copy, place)
      /\ \A x \in DOMAIN rs : mid[x] = rs[x]
  BY DEF Inserted
<1> HIDE DEF mid
<1>4. /\ mid[k] \in Row /\ mid[k].status = "posted" /\ mid[k].parent = place.parent
      /\ mid[k].root = place.root /\ mid[k].depth = place.depth /\ mid[k].replies = 0
      /\ mid[k].activity = created[k] /\ mid[k].born = purges
      /\ mid[k].received = 0 /\ mid[k].removed = 0
  <2>1. place.parent \in Keys \cup {NoKey} /\ place.root \in Keys \cup {NoKey}
    BY <1>1, <1>2
  <2>2. QED
    BY <1>2, <1>3, <2>1, NewRowIsRow
<1>5. \A x \in DOMAIN mid : mid[x] \in Row
  BY <1>3, <1>4 DEF RowsTyped
<1>6. NoKey \notin DOMAIN mid /\ k \in DOMAIN mid \cap Keys
  BY <1>1, <1>3, KeysAreFinite
<1>7. mid[k].parent \in DOMAIN mid \cup {NoKey} /\ mid[k].root \in DOMAIN mid \cup {NoKey}
  BY <1>2, <1>3, <1>4
<1>8. /\ SamePlaces(mid, out)
      /\ \A x \in DOMAIN mid :
           /\ out[x].replies  = IF x = mid[k].parent THEN mid[x].replies + 1 ELSE mid[x].replies
           /\ out[x].activity = IF x = mid[k].root THEN Later(mid[x].activity, created[k])
                                                  ELSE mid[x].activity
           /\ out[x].received = IF x = k THEN mid[x].received + 1 ELSE mid[x].received
  BY <1>5, <1>6, <1>7, SideEffects
<1> HIDE DEF out
<1>9. \A x \in DOMAIN rs : x # k
  OBVIOUS
<1>10. k # place.parent /\ k # place.root
  BY <1>1, <1>2, <1>6, <1>9
<1>11. DOMAIN out = DOMAIN rs \cup {k}
  BY <1>3, <1>8 DEF SamePlaces
<1>12. ASSUME NEW x \in DOMAIN rs
       PROVE  /\ SameRow(rs[x], out[x]) /\ out[x].status = rs[x].status
              /\ out[x].edition = rs[x].edition /\ out[x].removed = rs[x].removed
              /\ out[x].received = rs[x].received
              /\ out[x].replies  = IF x = place.parent THEN rs[x].replies + 1 ELSE rs[x].replies
              /\ out[x].activity = IF x = place.root THEN Later(rs[x].activity, created[k])
                                                     ELSE rs[x].activity
  BY <1>3, <1>4, <1>8, <1>9 DEF SamePlaces
<1>13. /\ out[k] \in Row /\ out[k].status = "posted" /\ out[k].parent = place.parent
       /\ out[k].root = place.root /\ out[k].depth = place.depth /\ out[k].replies = 0
       /\ out[k].activity = created[k] /\ out[k].born = purges
       /\ out[k].received = 1 /\ out[k].removed = 0
  <2>1. k \in DOMAIN mid
    BY <1>3
  <2>2. SameRow(mid[k], out[k]) /\ out[k].status = mid[k].status /\ out[k].removed = mid[k].removed
    BY <1>8, <2>1 DEF SamePlaces
  <2>3. out[k].replies = mid[k].replies /\ out[k].activity = mid[k].activity
        /\ out[k].received = mid[k].received + 1
    BY <1>4, <1>8, <1>10, <2>1
  <2>4. QED
    BY <1>4, <2>2, <2>3 DEF SameRow
<1>14. QED
  BY <1>11, <1>12, <1>13 DEF InsertsRow, out, mid

LEMMA GrowsKeepsRooted ==
  ASSUME NEW rs, NEW out, RowsTyped(rs), Rooted(rs), Grows(rs, out),
         \A x \in DOMAIN out \ DOMAIN rs :
           /\ out[x].parent = ReportedParent(x)
           /\ Placed(rs, out[x].parent, out[x].root, out[x].depth)
  PROVE  Rooted(out)
<1> SUFFICES ASSUME NEW x \in DOMAIN out
             PROVE  /\ out[x].parent = ReportedParent(x)
                    /\ Placed(out, out[x].parent, out[x].root, out[x].depth)
                    /\ out[x].root # NoKey =>
                         out[x].root \in DOMAIN out /\ out[out[x].root].parent = NoKey
  BY DEF Rooted
<1>1. out[x].parent = ReportedParent(x) /\ Placed(rs, out[x].parent, out[x].root, out[x].depth)
  <2>1. CASE x \in DOMAIN rs
    <3>1. out[x].parent = rs[x].parent /\ out[x].root = rs[x].root /\ out[x].depth = rs[x].depth
      BY <2>1 DEF Grows, SameRow
    <3>2. QED
      BY <2>1, <3>1 DEF Rooted
  <2>2. CASE x \notin DOMAIN rs
    BY <2>2
  <2>3. QED
    BY <2>1, <2>2
<1>2. Placed(out, out[x].parent, out[x].root, out[x].depth)
  BY <1>1, GrowsKeepsPlaced
<1>3. out[x].root \in DOMAIN rs \cup {NoKey} /\ (out[x].root # NoKey => rs[out[x].root].parent = NoKey)
  BY <1>1, PlacedBelow
<1>4. out[x].root # NoKey => out[x].root \in DOMAIN out /\ out[out[x].root].parent = NoKey
  BY <1>3 DEF Grows, SameRow
<1>5. QED
  BY <1>1, <1>2, <1>4

\* Nothing changes that the table is about.
Quiet(rs, out) ==
  /\ DOMAIN out = DOMAIN rs
  /\ \A x \in DOMAIN rs :
       /\ SameRow(rs[x], out[x]) /\ out[x].status = rs[x].status
       /\ out[x].replies = rs[x].replies /\ out[x].activity = rs[x].activity
       /\ out[x].received = rs[x].received /\ out[x].removed = rs[x].removed
       /\ rs[x].status = "deleted" => out[x].edition = rs[x].edition

LEMMA QuietKeepsTable ==
  ASSUME NEW rs, NEW out, Table(rs), Quiet(rs, out)
  PROVE  Table(out) /\ Grows(rs, out) /\ NoneErased(rs, out)
<1>1. Grows(rs, out) /\ NoneErased(rs, out)
  BY DEF Quiet, Grows, NoneErased
<1>2. RowsTyped(out)
  BY DEF Quiet, Table, RowsTyped, SameRow
<1>3. Rooted(out)
  BY <1>1, GrowsKeepsRooted DEF Quiet, Table
<1>4. \A x : RepliesOf(out, x) = RepliesOf(rs, x)
  BY DEF Quiet, RepliesOf, SameRow
<1>5. Counted(out)
  BY <1>4 DEF Quiet, Table, Counted
<1>6. Covered(out)
  <2> SUFFICES ASSUME NEW x \in DOMAIN rs
               PROVE  /\ out[x].activity >= created[x]
                      /\ out[x].root # NoKey => out[out[x].root].activity >= created[x]
    BY DEF Covered, Quiet
  <2>1. out[x].activity = rs[x].activity /\ out[x].root = rs[x].root
    BY DEF Quiet, SameRow
  <2>2. rs[x].root # NoKey => rs[x].root \in DOMAIN rs
    BY DEF Table, Rooted
  <2>3. rs[x].root # NoKey => out[rs[x].root].activity = rs[rs[x].root].activity
    BY <2>2 DEF Quiet
  <2>4. QED
    BY <2>1, <2>3 DEF Table, Covered
<1>7. \A x \in DOMAIN out : Sound(out[x])
  BY DEF Quiet, Table, Sound, SameRow
<1>8. QED
  BY <1>1, <1>2, <1>3, <1>5, <1>6, <1>7 DEF Table

LEMMA InsertKeepsTable ==
  ASSUME TypeOK, NEW rs, Table(rs), NEW copy \in Copies, Written(copy.key), NEW place,
         copy.key \notin DOMAIN rs, place.parent = ReportedParent(copy.key),
         Placed(rs, place.parent, place.root, place.depth)
  PROVE  LET out == ApplyNewCommentSideEffects(Inserted(rs, copy, place), copy.key) IN
         /\ Table(out) /\ Grows(rs, out) /\ NoneErased(rs, out)
         /\ copy.key \in DOMAIN out
         /\ out[copy.key].root = place.root /\ out[copy.key].depth = place.depth
<1> DEFINE k   == copy.key
           out == ApplyNewCommentSideEffects(Inserted(rs, copy, place), k)
<1>2. k \in Keys /\ Written(k) /\ k \notin DOMAIN rs /\ place.parent = ReportedParent(k)
  BY DEF Copies
<1>3. RowsTyped(rs) /\ Rooted(rs) /\ Counted(rs) /\ Covered(rs) /\ \A x \in DOMAIN rs : Sound(rs[x])
  BY DEF Table
<1>1. InsertsRow(rs, out, k, place)
  BY <1>3, InsertedRow
<1> HIDE DEF k, out
<1>4. /\ DOMAIN out = DOMAIN rs \cup {k}
      /\ \A x \in DOMAIN rs :
           /\ SameRow(rs[x], out[x]) /\ out[x].status = rs[x].status
           /\ out[x].edition = rs[x].edition /\ out[x].removed = rs[x].removed
           /\ out[x].received = rs[x].received
           /\ out[x].replies  = IF x = place.parent THEN rs[x].replies + 1 ELSE rs[x].replies
           /\ out[x].activity = IF x = place.root THEN Later(rs[x].activity, created[k])
                                                  ELSE rs[x].activity
      /\ out[k] \in Row /\ out[k].status = "posted" /\ out[k].parent = place.parent
      /\ out[k].root = place.root /\ out[k].depth = place.depth /\ out[k].replies = 0
      /\ out[k].activity = created[k] /\ out[k].born = purges
      /\ out[k].received = 1 /\ out[k].removed = 0
  BY <1>1 DEF InsertsRow
<1>5. /\ place.parent \in DOMAIN rs \cup {NoKey} /\ place.root \in DOMAIN rs \cup {NoKey}
      /\ NoKey \notin DOMAIN rs /\ NoKey # k /\ DOMAIN rs \subseteq Keys
  BY <1>2, <1>3, PlacedBelow, KeysAreFinite DEF RowsTyped
<1>6. Grows(rs, out) /\ NoneErased(rs, out)
  BY <1>4 DEF Grows, NoneErased
<1>7. RowsTyped(out)
  BY <1>2, <1>3, <1>4 DEF RowsTyped, SameRow
<1>8. Rooted(out)
  BY <1>2, <1>3, <1>4, <1>6, GrowsKeepsRooted
<1>9. Counted(out)
  <2>1. \A x \in DOMAIN rs : rs[x].parent \in DOMAIN rs \cup {NoKey} /\ out[x].parent = rs[x].parent
    BY <1>3, <1>4 DEF Rooted, Placed, SameRow
  <2>2. RepliesOf(out, k) = {}
    BY <1>2, <1>4, <1>5, <2>1 DEF RepliesOf
  <2>3. ASSUME NEW x \in DOMAIN rs PROVE out[x].replies = Cardinality(RepliesOf(out, x))
    <3>1. rs[x].replies = Cardinality(RepliesOf(rs, x)) /\ k \notin RepliesOf(rs, x)
      BY <1>2, <1>3 DEF Counted, RepliesOf
    <3>2. CASE x = place.parent
      <4>1. RepliesOf(out, x) = RepliesOf(rs, x) \cup {k}
        BY <1>2, <1>4, <2>1, <3>2 DEF RepliesOf
      <4>2. Cardinality(RepliesOf(out, x)) = Cardinality(RepliesOf(rs, x)) + 1
        BY <1>3, <3>1, <4>1, RepliesAreFinite, FS_AddElement
      <4>3. QED
        BY <1>4, <3>1, <3>2, <4>2
    <3>3. CASE x # place.parent
      <4>1. RepliesOf(out, x) = RepliesOf(rs, x)
        BY <1>2, <1>4, <2>1, <3>3 DEF RepliesOf
      <4>2. QED
        BY <1>4, <3>1, <3>3, <4>1
    <3>4. QED
      BY <3>2, <3>3
  <2>4. QED
    BY <1>4, <2>2, <2>3, FS_EmptySet DEF Counted
<1>10. Covered(out)
  <2>1. \A x \in DOMAIN out : created[x] \in Nat
    BY <1>7 DEF TypeOK, RowsTyped
  <2>2. ASSUME NEW x \in DOMAIN rs
        PROVE  out[x].activity >= rs[x].activity /\ rs[x].activity \in Nat /\ out[x].activity \in Nat
               /\ (x = place.root => out[x].activity >= created[k])
    <3>1. rs[x].activity \in Nat /\ created[k] \in Nat
      BY <1>3, <1>4, <2>1 DEF RowsTyped, Row
    <3>2. QED
      BY <1>4, <3>1 DEF Later
  <2>3. ASSUME NEW x \in DOMAIN rs
        PROVE  /\ out[x].activity >= created[x]
               /\ out[x].root # NoKey => out[out[x].root].activity >= created[x]
    <3>1. out[x].root = rs[x].root
      BY <1>4 DEF SameRow
    <3>2. rs[x].activity >= created[x] /\ (rs[x].root # NoKey =>
            rs[x].root \in DOMAIN rs /\ rs[rs[x].root].activity >= created[x])
      BY <1>3 DEF Covered, Rooted
    <3>3. created[x] \in Nat
      BY <1>4, <2>1
    <3>4. out[x].activity >= created[x]
      BY <2>2, <3>2, <3>3
    <3>5. ASSUME rs[x].root # NoKey PROVE out[rs[x].root].activity >= created[x]
      BY <2>2, <3>2, <3>3, <3>5
    <3>6. QED
      BY <3>1, <3>4, <3>5
  <2>4. created[k] >= created[k]
    BY <1>4, <2>1
  <2>5. place.root # NoKey => out[place.root].activity >= created[k]
    BY <1>5, <2>2
  <2>6. QED
    BY <1>4, <2>3, <2>4, <2>5 DEF Covered
<1>11. \A x \in DOMAIN out : Sound(out[x])
  <2>1. purges <= purges
    BY DEF TypeOK
  <2>2. QED
    BY <1>3, <1>4, <2>1 DEF Sound, SameRow
<1>12. QED
  BY <1>4, <1>6, <1>7, <1>8, <1>9, <1>10, <1>11 DEF Table, k, out

LEMMA RewrittenIsQuiet ==
  ASSUME NEW rs, RowsTyped(rs), NEW copy \in Copies, copy.key \in DOMAIN rs,
         rs[copy.key].status # "deleted"
  PROVE  Quiet(rs, Rewritten(rs, copy))
<1> DEFINE out == Rewritten(rs, copy)
<1>1. PICK k, e : k = copy.key /\ e = copy.edition
  OBVIOUS
<1>2. PICK row \in Row : row = rs[k]
  BY <1>1 DEF RowsTyped
<1>3. PICK u : u = [row EXCEPT !.edition = e, !.settled = FALSE]
  OBVIOUS
<1>4. out[k] = u /\ DOMAIN out = DOMAIN rs /\ \A x \in DOMAIN rs \ {k} : out[x] = rs[x]
  BY <1>1, <1>2, <1>3 DEF Rewritten
<1> HIDE DEF out
<1>5. e \in Editions
  BY <1>1 DEF Copies
<1>6. /\ SameRow(row, u) /\ u.status = row.status /\ u.replies = row.replies
      /\ u.activity = row.activity /\ u.received = row.received /\ u.removed = row.removed
  BY <1>3, <1>5 DEF Row, SameRow
<1>7. \A x \in DOMAIN rs \ {k} : SameRow(rs[x], out[x])
  BY <1>4 DEF SameRow, RowsTyped
<1>8. Quiet(rs, out)
  BY <1>1, <1>2, <1>4, <1>6, <1>7 DEF Quiet
<1>9. QED
  BY <1>8 DEF out

\* The row is there, where the placement says, and nothing else was disturbed.
Upserted(rs, out, k, place) ==
  /\ Table(out) /\ Grows(rs, out) /\ NoneErased(rs, out)
  /\ k \in DOMAIN out /\ out[k].root = place.root /\ out[k].depth = place.depth

LEMMA UpsertRowKeepsTable ==
  ASSUME TypeOK, NEW rs, Table(rs), NEW copy \in Copies, Written(copy.key), NEW place,
         place.parent = ReportedParent(copy.key),
         Placed(rs, place.parent, place.root, place.depth)
  PROVE  Upserted(rs, UpsertRow(rs, copy, place), copy.key, place)
<1> DEFINE k == copy.key
<1>1. CASE k \notin DOMAIN rs
  BY <1>1, InsertKeepsTable DEF UpsertRow, Upserted
<1>2. CASE k \in DOMAIN rs
  <2>1. PICK out : out = UpsertRow(rs, copy, place)
    OBVIOUS
  <2>2. out = rs \/ (rs[k].status # "deleted" /\ out = Rewritten(rs, copy))
    BY <1>2, <2>1 DEF UpsertRow
  <2>3. Quiet(rs, out)
    <3>1. RowsTyped(rs)
      BY DEF Table
    <3>2. CASE out = rs
      BY <3>1, <3>2 DEF Quiet, RowsTyped, SameRow
    <3>3. CASE rs[k].status # "deleted" /\ out = Rewritten(rs, copy)
      BY <1>2, <3>1, <3>3, RewrittenIsQuiet
    <3>4. QED
      BY <2>2, <3>2, <3>3
  <2>4. Table(out) /\ Grows(rs, out) /\ NoneErased(rs, out)
    BY <2>3, QuietKeepsTable
  <2>5. rs[k].root = place.root /\ rs[k].depth = place.depth
    BY <1>2 DEF Table, Rooted, Placed
  <2>6. k \in DOMAIN out /\ out[k].root = place.root /\ out[k].depth = place.depth
    BY <1>2, <2>3, <2>5 DEF Quiet, SameRow
  <2>7. QED
    BY <2>1, <2>4, <2>6 DEF Upserted
<1>3. QED
  BY <1>1, <1>2

-------------------------------------------------------------------------------
(* The chain of ancestors, one upsert after the other. *)

LEMMA LeastNumber ==
  ASSUME NEW T, T \subseteq Nat, T # {}
  PROVE  \E x \in T : \A y \in T : ~(y < x)
<1>1. \E x \in T : \A y \in T : ~(<<y, x>> \in OpToRel(<, Nat))
  BY NatLessThanWellFounded, WFMin, Zenon
<1>2. QED
  BY <1>1 DEF OpToRel

\* What holds of 0 and of each number after one it holds of, holds up to any number.
LEMMA Climb ==
  ASSUME NEW L \in Nat, NEW P, 0 \in P, \A n \in 1..L : n - 1 \in P => n \in P
  PROVE  \A n \in 0..L : n \in P
<1> SUFFICES ASSUME {n \in 0..L : n \notin P} # {} PROVE FALSE
  OBVIOUS
<1>1. PICK m \in {n \in 0..L : n \notin P} : \A y \in {n \in 0..L : n \notin P} : ~(y < m)
  <2>1. {n \in 0..L : n \notin P} \subseteq Nat
    OBVIOUS
  <2>2. QED
    BY <2>1, LeastNumber
<1>2. m \in 1..L /\ m - 1 \in 0..L /\ m - 1 < m
  BY <1>1
<1>3. QED
  BY <1>1, <1>2

\* PersistAncestorChain is what it says: there is a function of its recursion.
LEMMA ChainUnfolds ==
  ASSUME NEW base, NEW chain, Len(chain) \in Nat
  PROVE  \E after :
           /\ after[0] = [rows |-> rows, place |-> base]
           /\ \A n \in 1..Len(chain) : after[n] = PersistAncestor(after[n - 1], chain[n])
           /\ PersistAncestorChain(base, chain) = after[Len(chain)]
<1> DEFINE L     == Len(chain)
           start == [rows |-> rows, place |-> base]
           step(f, n) == PersistAncestor(f[n - 1], chain[n])
           P == {m \in 0..L : \E f : f = [n \in 0..m |-> IF n = 0 THEN start ELSE step(f, n)]}
<1> HIDE DEF start
<1>1. 0 \in P
  <2>1. PICK f : f = [n \in 0..0 |-> start]
    OBVIOUS
  <2>2. f = [n \in 0..0 |-> IF n = 0 THEN start ELSE step(f, n)]
    BY <2>1
  <2>3. QED
    BY <2>2
<1>2. ASSUME NEW m \in 1..L, m - 1 \in P PROVE m \in P
  <2>1. PICK f : f = [n \in 0..(m - 1) |-> IF n = 0 THEN start ELSE step(f, n)]
    BY <1>2
  <2>2. PICK g : g = [n \in 0..m |-> IF n = m THEN step(f, m) ELSE f[n]]
    OBVIOUS
  <2>3. \A n \in 0..(m - 1) : g[n] = f[n] /\ n # m
    BY <2>2
  <2>4. \A n \in 1..m : g[n - 1] = f[n - 1]
    BY <2>3
  <2>5. ASSUME NEW n \in 0..m PROVE g[n] = IF n = 0 THEN start ELSE step(g, n)
    <3>1. CASE n = m
      <4>1. g[n] = PersistAncestor(f[m - 1], chain[m]) /\ n # 0
        BY <2>2, <3>1
      <4>2. QED
        BY <2>4, <3>1, <4>1
    <3>2. CASE n = 0
      BY <2>1, <2>3, <3>2
    <3>3. CASE n # m /\ n # 0
      <4>1. n \in 0..(m - 1) /\ n \in 1..m
        BY <3>3
      <4>2. g[n] = f[n] /\ g[n - 1] = f[n - 1] /\ f[n] = PersistAncestor(f[n - 1], chain[n])
        BY <2>1, <2>3, <2>4, <3>3, <4>1
      <4>3. QED
        BY <3>3, <4>2
    <3>4. QED
      BY <3>1, <3>2, <3>3
  <2>6. g = [n \in 0..m |-> IF n = 0 THEN start ELSE step(g, n)]
    BY <2>2, <2>5
  <2>7. QED
    BY <2>6
<1>3. L \in P
  <2> HIDE DEF P
  <2>1. \A n \in 0..L : n \in P
    BY <1>1, <1>2, Climb
  <2>2. QED
    BY <2>1
<1> DEFINE after == CHOOSE f : f = [n \in 0..L |-> IF n = 0 THEN start ELSE step(f, n)]
<1>4. after = [n \in 0..L |-> IF n = 0 THEN start ELSE step(after, n)]
  BY <1>3
<1>5. PersistAncestorChain(base, chain) = after[L]
  BY Zenon DEF PersistAncestorChain, start
<1> HIDE DEF after
<1>6. after[0] = start /\ \A n \in 1..L : after[n] = PersistAncestor(after[n - 1], chain[n])
  BY <1>4
<1>7. QED
  BY <1>5, <1>6 DEF start

\* How far an upsert has come: its table, and the place below the last row of the chain.
Reached(acc, parent) ==
  /\ Table(acc.rows) /\ Grows(rows, acc.rows) /\ NoneErased(rows, acc.rows)
  /\ acc.place.parent = parent
  /\ Placed(acc.rows, acc.place.parent, acc.place.root, acc.place.depth)

LEMMA GrowsOn ==
  ASSUME NEW a, NEW b, NEW c, Grows(a, b), Grows(b, c), NoneErased(a, b), NoneErased(b, c)
  PROVE  Grows(a, c) /\ NoneErased(a, c)
<1>1. DOMAIN a \subseteq DOMAIN c
  BY DEF Grows
<1>2. \A x \in DOMAIN a :
        SameRow(a[x], c[x]) /\ (a[x].status = "deleted" => c[x].status = "deleted")
  BY DEF Grows, SameRow
<1>3. \A x \in DOMAIN c \ DOMAIN a : c[x].born = purges
  BY DEF Grows, SameRow
<1>4. QED
  BY <1>1, <1>2, <1>3 DEF Grows, NoneErased

LEMMA PersistAncestorReaches ==
  ASSUME TypeOK, NEW acc, NEW copy \in Copies, Written(copy.key), Reached(acc, ReportedParent(copy.key))
  PROVE  Reached(PersistAncestor(acc, copy), copy.key)
<1> DEFINE k   == copy.key
           out == UpsertRow(acc.rows, copy, acc.place)
           next == PersistAncestor(acc, copy)
<1>1. Upserted(acc.rows, out, k, acc.place)
  BY UpsertRowKeepsTable DEF Reached
<1>2. next.rows = out /\ next.place = PlacementBelow(k, acc.place.depth, acc.place.root, purges)
  BY DEF PersistAncestor
<1> HIDE DEF out, next
<1>3. /\ next.place.parent = k /\ next.place.depth = acc.place.depth + 1
      /\ next.place.root = IF acc.place.root = NoKey THEN k ELSE acc.place.root
  BY <1>2 DEF PlacementBelow
<1>4. Grows(rows, out) /\ NoneErased(rows, out)
  BY <1>1, GrowsOn DEF Reached, Upserted
<1>5. k # NoKey
  BY KeysAreFinite DEF Copies
<1>6. Placed(out, next.place.parent, next.place.root, next.place.depth)
  BY <1>1, <1>3, <1>5 DEF Upserted, Placed, RootBelow
<1>7. QED
  BY <1>1, <1>2, <1>3, <1>4, <1>6 DEF Upserted, Reached, next

\* The chain is written below its base, each row the parent of the next.
LEMMA ChainReaches ==
  ASSUME TypeOK, NEW base, NEW chain \in Seq(Copies), NEW at,
         Reached([rows |-> rows, place |-> base], at),
         \A n \in DOMAIN chain :
           /\ Written(chain[n].key)
           /\ ReportedParent(chain[n].key) = IF n = 1 THEN at ELSE chain[n - 1].key
  PROVE  Reached(PersistAncestorChain(base, chain),
                 IF chain = << >> THEN at ELSE chain[Len(chain)].key)
<1>1. Len(chain) \in Nat /\ DOMAIN chain = 1..Len(chain)
  BY LenProperties
<1>2. PICK after :
        /\ after[0] = [rows |-> rows, place |-> base]
        /\ \A n \in 1..Len(chain) : after[n] = PersistAncestor(after[n - 1], chain[n])
        /\ PersistAncestorChain(base, chain) = after[Len(chain)]
  BY <1>1, ChainUnfolds
<1> DEFINE last(n) == IF n = 0 THEN at ELSE chain[n].key
           P == {n \in 0..Len(chain) : Reached(after[n], last(n))}
<1>3. 0 \in P
  BY <1>1, <1>2
<1>4. ASSUME NEW n \in 1..Len(chain), n - 1 \in P PROVE n \in P
  <2>1. chain[n] \in Copies /\ Written(chain[n].key) /\ ReportedParent(chain[n].key) = last(n - 1)
    <3>1. chain[n] \in Copies
      BY <1>1, ElementOfSeq
    <3>2. n \in DOMAIN chain /\ (n = 1 <=> n - 1 = 0)
      BY <1>1
    <3>3. QED
      BY <3>1, <3>2
  <2>2. Reached(after[n - 1], ReportedParent(chain[n].key))
    BY <1>4, <2>1
  <2>3. Reached(after[n], chain[n].key)
    BY <1>2, <2>1, <2>2, PersistAncestorReaches
  <2>4. n # 0 /\ n \in 0..Len(chain)
    BY <1>1
  <2>5. QED
    BY <2>3, <2>4
<1>5. Len(chain) \in P
  <2> HIDE DEF P
  <2>1. \A n \in 0..Len(chain) : n \in P
    BY <1>1, <1>3, <1>4, Climb
  <2>2. QED
    BY <1>1, <2>1
<1>6. chain = << >> <=> Len(chain) = 0
  BY <1>1, EmptySeq
<1>7. QED
  BY <1>2, <1>5, <1>6

-------------------------------------------------------------------------------
(* The writes of a transaction. *)

LEMMA LineParts ==
  ASSUME TypeOK, NEW w \in Writers, Upserting(w)
  PROVE  /\ op[w] \in Upserts /\ op[w].chain \in Seq(Copies) /\ op[w].copy \in Copies
         /\ Len(op[w].chain) \in Nat /\ DOMAIN op[w].chain = 1..Len(op[w].chain)
         /\ DOMAIN Line(w) = 1..(Len(op[w].chain) + 1)
         /\ \A n \in DOMAIN op[w].chain : Line(w)[n] = op[w].chain[n]
         /\ Line(w)[Len(op[w].chain) + 1] = op[w].copy
<1>1. op[w] \in Upserts
  BY DEF TypeOK, Upserting
<1>2. PICK chain, copy : chain = op[w].chain /\ copy = op[w].copy
  OBVIOUS
<1>3. chain \in Seq(Copies) /\ copy \in Copies
  BY <1>1, <1>2 DEF Upserts
<1>4. Len(chain) \in Nat /\ DOMAIN chain = 1..Len(chain)
  BY <1>3, LenProperties
<1>5. /\ Append(chain, copy) \in Seq(Copies) /\ Len(Append(chain, copy)) = Len(chain) + 1
      /\ \A n \in 1..Len(chain) : Append(chain, copy)[n] = chain[n]
      /\ Append(chain, copy)[Len(chain) + 1] = copy
  BY <1>3, AppendProperties
<1>6. DOMAIN Append(chain, copy) = 1..(Len(chain) + 1)
  BY <1>5, LenProperties
<1>7. Line(w) = Append(chain, copy)
  BY <1>2 DEF Line
<1>8. QED
  BY <1>1, <1>2, <1>3, <1>4, <1>5, <1>6, <1>7

LEMMA UpsertWritesKeepsTable ==
  ASSUME ThreadInv, NEW w \in Writers, UpsertWrites(w)
  PROVE  Table(rows') /\ Grows(rows, rows') /\ NoneErased(rows, rows')
<1> DEFINE base  == op[w].base
           chain == op[w].chain
           copy  == op[w].copy
           at    == op[w].at
           end   == IF chain = << >> THEN at ELSE chain[Len(chain)].key
           persisted == PersistAncestorChain(base, chain)
<1>1. Upserting(w) /\ base # Unresolved /\ BaseStands(w)
      /\ rows' = UpsertRow(persisted.rows, copy, persisted.place)
  BY DEF UpsertWrites, Write
<1>2. TypeOK /\ Table(rows) /\ Sourced(w) /\ Based(w)
  BY <1>1 DEF ThreadInv, WriterTruth
<1>3. /\ op[w] \in Upserts /\ chain \in Seq(Copies) /\ copy \in Copies
      /\ Len(chain) \in Nat /\ DOMAIN chain = 1..Len(chain)
      /\ DOMAIN Line(w) = 1..(Len(chain) + 1)
      /\ \A n \in DOMAIN chain : Line(w)[n] = chain[n]
      /\ Line(w)[Len(chain) + 1] = copy
  BY <1>1, <1>2, LineParts
<1>4. Grows(rows, rows) /\ NoneErased(rows, rows)
  BY <1>2 DEF Grows, NoneErased, Table, RowsTyped, SameRow
<1>5. base.parent = at /\ Placed(rows, base.parent, base.root, base.depth)
  <2>1. CASE base.parent = NoKey
    BY <1>1, <1>2, <2>1 DEF Based, Placed
  <2>2. CASE base.parent # NoKey
    BY <1>1, <1>2, <2>2 DEF Based, BaseStands
  <2>3. QED
    BY <1>1, <1>2, <2>1, <2>2 DEF Based
<1>6. Reached([rows |-> rows, place |-> base], at)
  BY <1>2, <1>4, <1>5 DEF Reached
<1>7. \A n \in DOMAIN chain :
        /\ Written(chain[n].key)
        /\ ReportedParent(chain[n].key) = IF n = 1 THEN at ELSE chain[n - 1].key
  <2> SUFFICES ASSUME NEW n \in DOMAIN chain
               PROVE /\ Written(chain[n].key)
                     /\ ReportedParent(chain[n].key) = IF n = 1 THEN at ELSE chain[n - 1].key
    OBVIOUS
  <2>1. n \in DOMAIN Line(w) /\ (n # 1 => n - 1 \in DOMAIN chain)
    BY <1>3
  <2>2. /\ Written(Line(w)[n].key)
        /\ ReportedParent(Line(w)[n].key) = IF n = 1 THEN at ELSE Line(w)[n - 1].key
    BY <1>2, <2>1 DEF Sourced
  <2>3. Line(w)[n] = chain[n] /\ (n # 1 => Line(w)[n - 1] = chain[n - 1])
    BY <1>3, <2>1
  <2>4. QED
    BY <2>2, <2>3
<1>8. Written(copy.key) /\ ReportedParent(copy.key) = end
  <2>1. PICK n \in Nat : n = Len(chain) + 1
    BY <1>3
  <2>2. n \in DOMAIN Line(w) /\ Line(w)[n] = copy
    BY <1>3, <2>1
  <2>3. Written(copy.key) /\ ReportedParent(copy.key) = IF n = 1 THEN at ELSE Line(w)[n - 1].key
    BY <1>2, <2>2 DEF Sourced
  <2>4. chain = << >> <=> n = 1
    BY <1>3, <2>1, EmptySeq
  <2>5. n # 1 => Line(w)[n - 1] = chain[Len(chain)]
    BY <1>3, <2>1
  <2>6. QED
    BY <2>3, <2>4, <2>5
<1>9. Reached(persisted, end)
  BY <1>2, <1>3, <1>6, <1>7, ChainReaches
<1> HIDE DEF persisted, end, copy
<1>10. Upserted(persisted.rows, rows', copy.key, persisted.place)
  BY <1>1, <1>2, <1>3, <1>8, <1>9, UpsertRowKeepsTable DEF Reached
<1>11. QED
  BY <1>9, <1>10, GrowsOn DEF Reached, Upserted

\* A delete touches the row and its parent's count.
LEMMA EraseRow ==
  ASSUME RowsTyped(rows), NEW k \in DOMAIN rows
  PROVE  LET out == Erase(rows, k) IN
         /\ DOMAIN out = DOMAIN rows
         /\ \A x \in DOMAIN rows :
              /\ SameRow(rows[x], out[x])
              /\ out[x].replies = rows[x].replies /\ out[x].activity = rows[x].activity
              /\ out[x].received = rows[x].received
              /\ out[x].status = IF x = k THEN "deleted" ELSE rows[x].status
              /\ out[x].edition = IF x = k THEN Erased ELSE rows[x].edition
              /\ out[x].removed = IF x = k THEN rows[x].removed + 1 ELSE rows[x].removed
<1> DEFINE out == Erase(rows, k)
<1>1. PICK row \in Row : row = rows[k]
  BY DEF RowsTyped
<1>2. PICK u : u = [row EXCEPT !.status = "deleted", !.edition = Erased,
                               !.settled = FALSE, !.removed = @ + 1]
  OBVIOUS
<1>3. out[k] = u /\ DOMAIN out = DOMAIN rows /\ \A x \in DOMAIN rows \ {k} : out[x] = rows[x]
  BY <1>1, <1>2 DEF Erase
<1> HIDE DEF out
<1>4. /\ SameRow(row, u) /\ u.replies = row.replies /\ u.activity = row.activity
      /\ u.received = row.received /\ u.status = "deleted" /\ u.edition = Erased
      /\ u.removed = row.removed + 1
  <2>1. PICK n \in Nat : n = row.removed + 1
    BY DEF Row
  <2>2. u = [row EXCEPT !.status = "deleted", !.edition = Erased,
                        !.settled = FALSE, !.removed = n]
    BY <1>2, <2>1
  <2>3. QED
    BY <2>1, <2>2 DEF Row, SameRow
<1>5. \A x \in DOMAIN rows \ {k} : SameRow(rows[x], out[x])
  BY <1>3 DEF SameRow, RowsTyped
<1>6. QED
  BY <1>1, <1>3, <1>4, <1>5 DEF out

LEMMA RunDeleteKeepsTable ==
  ASSUME TypeOK, Table(rows), NEW k
  PROVE  LET out == RunDelete(k) IN
         /\ Table(out) /\ Grows(rows, out) /\ DOMAIN out = DOMAIN rows
         /\ \A x \in DOMAIN out : out[x].status = "deleted" => x = k \/ rows[x].status = "deleted"
<1> DEFINE out == RunDelete(k)
<1>0. RowsTyped(rows) /\ Rooted(rows) /\ Counted(rows) /\ Covered(rows)
      /\ \A x \in DOMAIN rows : Sound(rows[x])
  BY DEF Table
<1>1. CASE ~Posted(k)
  <2>1. out = rows /\ Quiet(rows, rows)
    BY <1>0, <1>1 DEF RunDelete, Quiet, RowsTyped, SameRow
  <2>2. QED
    BY <2>1, QuietKeepsTable
<1>2. CASE Posted(k)
  <2>1. k \in DOMAIN rows /\ rows[k].status = "posted"
    BY <1>2 DEF Posted, Has
  <2> DEFINE gone   == Erase(rows, k)
             parent == rows[k].parent
  <2>2. out = bumpParentReplyCount(gone, parent, -1)
    BY <1>2 DEF RunDelete
  <2>3. /\ DOMAIN gone = DOMAIN rows
        /\ \A x \in DOMAIN rows :
             /\ SameRow(rows[x], gone[x])
             /\ gone[x].replies = rows[x].replies /\ gone[x].activity = rows[x].activity
             /\ gone[x].received = rows[x].received
             /\ gone[x].status = IF x = k THEN "deleted" ELSE rows[x].status
             /\ gone[x].edition = IF x = k THEN Erased ELSE rows[x].edition
             /\ gone[x].removed = IF x = k THEN rows[x].removed + 1 ELSE rows[x].removed
    BY <1>0, <2>1, EraseRow
  <2> HIDE DEF gone, out, parent
  <2>4. parent \in DOMAIN rows \cup {NoKey} /\ NoKey \notin DOMAIN rows
    BY <1>0, <2>1, KeysAreFinite DEF Rooted, Placed, RowsTyped, parent
  <2>5. /\ SamePlaces(gone, out)
        /\ \A x \in DOMAIN gone :
             /\ out[x].replies = IF x = parent THEN gone[x].replies - 1 ELSE gone[x].replies
             /\ out[x].activity = gone[x].activity /\ out[x].received = gone[x].received
    <3>1. \A x \in DOMAIN gone : gone[x] \in Row
      BY <2>3 DEF SameRow
    <3>2. CASE parent = NoKey
      BY <2>2, <2>3, <2>4, <3>1, <3>2 DEF bumpParentReplyCount, SamePlaces, SameRow
    <3>3. CASE parent # NoKey
      <4>1. /\ SamePlaces(gone, out)
            /\ \A x \in DOMAIN gone :
                 /\ out[x].replies = IF x = parent THEN gone[x].replies + (-1) ELSE gone[x].replies
                 /\ out[x].activity = gone[x].activity /\ out[x].received = gone[x].received
        <5>1. parent \in DOMAIN gone /\ -1 \in Int
          BY <2>3, <2>4, <3>3
        <5>2. QED
          BY <2>2, <3>1, <3>3, <5>1, RepliesMove
      <4>2. \A x \in DOMAIN gone : gone[x].replies \in Int
        BY <3>1 DEF Row
      <4>3. QED
        BY <4>1, <4>2
    <3>4. QED
      BY <3>2, <3>3
  <2>6. /\ DOMAIN out = DOMAIN rows
        /\ \A x \in DOMAIN rows :
             /\ SameRow(rows[x], out[x])
             /\ out[x].replies = IF x = parent THEN rows[x].replies - 1 ELSE rows[x].replies
             /\ out[x].activity = rows[x].activity /\ out[x].received = rows[x].received
             /\ out[x].status = IF x = k THEN "deleted" ELSE rows[x].status
             /\ out[x].edition = IF x = k THEN Erased ELSE rows[x].edition
             /\ out[x].removed = IF x = k THEN rows[x].removed + 1 ELSE rows[x].removed
    BY <2>3, <2>5 DEF SamePlaces, SameRow
  <2>7. Grows(rows, out)
    BY <2>6 DEF Grows
  <2>8. RowsTyped(out) /\ Rooted(out)
    <3>1. RowsTyped(out)
      BY <1>0, <2>6 DEF RowsTyped, SameRow
    <3>2. QED
      BY <1>0, <2>6, <2>7, <3>1, GrowsKeepsRooted
  <2>9. Counted(out)
    <3> SUFFICES ASSUME NEW x \in DOMAIN rows PROVE out[x].replies = Cardinality(RepliesOf(out, x))
      BY <2>6 DEF Counted
    <3>1. \A c \in DOMAIN rows : out[c].parent = rows[c].parent
      BY <2>6 DEF SameRow
    <3>2. rows[x].replies = Cardinality(RepliesOf(rows, x))
      BY <1>0 DEF Counted
    <3>3. CASE x = parent
      <4>1. RepliesOf(out, x) = RepliesOf(rows, x) \ {k} /\ k \in RepliesOf(rows, x)
        BY <2>1, <2>6, <3>1, <3>3 DEF RepliesOf, parent
      <4>2. Cardinality(RepliesOf(out, x)) = Cardinality(RepliesOf(rows, x)) - 1
        BY <1>0, <4>1, RepliesAreFinite, FS_RemoveElement
      <4>3. QED
        BY <2>6, <3>2, <3>3, <4>2
    <3>4. CASE x # parent
      <4>1. RepliesOf(out, x) = RepliesOf(rows, x)
        BY <2>1, <2>6, <3>1, <3>4 DEF RepliesOf, parent
      <4>2. QED
        BY <2>6, <3>2, <3>4, <4>1
    <3>5. QED
      BY <3>3, <3>4
  <2>10. Covered(out)
    <3> SUFFICES ASSUME NEW x \in DOMAIN rows
                 PROVE  /\ out[x].activity >= created[x]
                        /\ out[x].root # NoKey => out[out[x].root].activity >= created[x]
      BY <2>6 DEF Covered
    <3>1. out[x].root = rows[x].root /\ (rows[x].root # NoKey => rows[x].root \in DOMAIN rows)
      BY <1>0, <2>6 DEF SameRow, Rooted
    <3>2. QED
      BY <1>0, <2>6, <3>1 DEF Covered
  <2>11. \A x \in DOMAIN out : Sound(out[x])
    BY <1>0, <2>1, <2>6 DEF Sound, SameRow
  <2>12. QED
    BY <2>6, <2>7, <2>8, <2>9, <2>10, <2>11 DEF Table, out
<1>3. QED
  BY <1>1, <1>2

\* Time passing since a row was written changes nothing the table is about.
LEMMA SettleKeepsTable ==
  ASSUME Table(rows), NEW k, Settle(k)
  PROVE  Table(rows') /\ Grows(rows, rows') /\ NoneErased(rows, rows')
<1>1. k \in DOMAIN rows /\ rows' = [rows EXCEPT ![k].settled = TRUE]
  BY DEF Settle, Has
<1>2. PICK row \in Row : row = rows[k]
  BY <1>1 DEF Table, RowsTyped
<1>3. PICK u : u = [row EXCEPT !.settled = TRUE]
  OBVIOUS
<1>4. rows'[k] = u /\ DOMAIN rows' = DOMAIN rows /\ \A x \in DOMAIN rows \ {k} : rows'[x] = rows[x]
  BY <1>1, <1>2, <1>3
<1>5. /\ SameRow(row, u) /\ u.status = row.status /\ u.replies = row.replies
      /\ u.activity = row.activity /\ u.received = row.received /\ u.removed = row.removed
      /\ u.edition = row.edition
  BY <1>3 DEF Row, SameRow
<1>6. \A x \in DOMAIN rows \ {k} : SameRow(rows[x], rows'[x])
  BY <1>4 DEF SameRow, Table, RowsTyped
<1>7. Quiet(rows, rows')
  BY <1>2, <1>4, <1>5, <1>6 DEF Quiet
<1>8. QED
  BY <1>7, QuietKeepsTable

LEMMA TableIsKept ==
  ASSUME Table(rows), rows' = rows
  PROVE  Table(rows') /\ Grows(rows, rows') /\ NoneErased(rows, rows')
<1>1. Quiet(rows, rows)
  BY DEF Table, RowsTyped, Quiet, SameRow
<1>2. QED
  BY <1>1, QuietKeepsTable

\* A table stays sound while the comments it holds were written when they were.
LEMMA TableStays ==
  ASSUME Table(rows'), platform' = platform, purges' \in Nat, purges \in Nat, purges' >= purges,
         \A k \in Keys : Written(k) => created'[k] = created[k]
  PROVE  Table(rows)'
<1>1. RowsTyped(rows)'
  BY DEF Table, RowsTyped, Written
<1>2. \A k : ReportedParent(k)' = ReportedParent(k)
  BY DEF ReportedParent
<1>3. Rooted(rows)'
  BY <1>2 DEF Table, Rooted, Placed, RootBelow
<1>4. Counted(rows)'
  BY DEF Table, Counted, RepliesOf
<1>5. Covered(rows)'
  BY DEF Table, RowsTyped, Covered
<1>6. \A k \in DOMAIN rows' : Sound(rows[k])'
  <2> SUFFICES ASSUME NEW k \in DOMAIN rows' PROVE Sound(rows[k])'
    OBVIOUS
  <2>1. rows'[k].born \in Nat /\ rows'[k].born <= purges
    BY DEF Table, RowsTyped, Row, Sound
  <2>2. rows'[k].born <= purges'
    BY <2>1
  <2>3. QED
    BY <2>2 DEF Table, Sound
<1>7. QED
  BY <1>1, <1>3, <1>4, <1>5, <1>6 DEF Table

-------------------------------------------------------------------------------
(* Steps of the platform. *)

\* What a written comment answers was written before it, and what that answers.
LEMMA AncestorsAreWritten ==
  ASSUME TypeOK, PlatformTruth, NEW i \in Ids, Written(i), NEW k \in AncestorsOf[i]
  PROVE  k \in Ids /\ created[k] > 0
<1> DEFINE S == {j \in Keys : Written(j)}
<1>1. k \in Ids /\ (ParentOf[i] \in S /\ (\A j \in S \cap Ids : ParentOf[j] \in S) => k \in S)
  BY DEF AncestorsOf
<1>2. \A j \in S \cap Ids : ParentOf[j] \in S
  BY ThreadAssumption DEF PlatformTruth, Written
<1>3. i \in S
  BY DEF Keys
<1>4. QED
  BY <1>1, <1>2, <1>3 DEF Written

\* Nothing comes back that was gone.
LEMMA GoneForGood ==
  ASSUME TypeOK, PlatformTruth, NEW i \in Ids, Gone(i),
         \A k \in Ids : created[k] > 0 => created'[k] > 0 /\ (~Readable(k) => ~Readable(k)')
  PROVE  Gone(i)'
<1>1. PICK k \in {i} \cup AncestorsOf[i] : ~Readable(k)
  BY DEF Gone, Reachable
<1>2. k \in Ids /\ created[k] > 0 /\ created[i] > 0
  BY AncestorsAreWritten DEF Gone, Written
<1>3. ~Readable(k)' /\ created'[i] > 0
  BY <1>1, <1>2
<1>4. QED
  BY <1>1, <1>3 DEF Gone, Reachable, Written

\* The database and its writers do not notice a step of the platform.
LEMMA PlatformMoves ==
  ASSUME ThreadInv, TypeOK', PlatformTruth',
         UNCHANGED <<platform, rows, target, op, walk, eligible, purge>>,
         \A k \in Keys : Written(k) => created'[k] = created[k],
         \A i \in Ids : created[i] > 0 /\ i \in alive' => i \in alive,
         hidden \subseteq hidden'
  PROVE  ThreadInv'
<1>1. TypeOK /\ PlatformTruth /\ Table(rows) /\ DeletedGone /\ WalkTruth /\ StaleTruth
      /\ \A w \in Writers : WriterTruth(w)
  BY DEF ThreadInv
<1>2. UNCHANGED <<rows, op, eligible, wpc, page, todo, tombstones, seen, missing, stale, purges>>
  BY DEF walk, purge
<1>3. \A i \in Ids : created[i] > 0 => created'[i] > 0
  BY DEF Written, Keys
<1>4. \A i \in Ids : Gone(i) => Gone(i)'
  BY <1>1, <1>3, GoneForGood DEF Readable
<1>5. Table(rows)'
  <2>1. Table(rows')
    BY <1>1, <1>2, TableIsKept
  <2>2. purges' \in Nat /\ purges \in Nat /\ purges' >= purges
    BY <1>1, <1>2 DEF TypeOK
  <2>3. QED
    BY <2>1, <2>2, TableStays
<1>6. DeletedGone'
  BY <1>1, <1>2, <1>4 DEF DeletedGone
<1>7. ASSUME NEW w \in Writers PROVE WriterTruth(w)'
  <2>1. \A k : ReportedParent(k)' = ReportedParent(k)
    BY DEF ReportedParent
  <2>2. \A k : Written(k) => Written(k)'
    BY <1>3 DEF Written
  <2>3. Line(w)' = Line(w)
    BY <1>2 DEF Line
  <2>4. Sourced(w) => Sourced(w)'
    BY <1>2, <2>1, <2>2, <2>3 DEF Sourced
  <2>5. Based(w) => Based(w)'
    BY <1>2 DEF Based, Placed, RootBelow, Has
  <2>6. QED
    BY <1>1, <1>2, <2>4, <2>5 DEF WriterTruth, Upserting
<1>8. WalkTruth'
  <2>1. \A copy \in todo : copy.key \in Ids /\ created'[copy.key] > 0
    BY <1>1, <1>3 DEF WalkTruth
  <2>2. \A i \in tombstones : created'[i] > 0 /\ i \notin alive'
    BY <1>1, <1>3 DEF WalkTruth, TypeOK
  <2>3. \A i \in missing \cap Ids : Gone(i)'
    BY <1>1, <1>4 DEF WalkTruth
  <2>4. wpc \in {"page", "ingest"} =>
          \A i \in eligible \cap Ids :
            PageOf[i] < page \/ (PageOf[i] = page /\ wpc = "ingest") =>
              i \in seen \/ Gone(i)' \/ \E copy \in todo : copy.key = i
    BY <1>1, <1>4 DEF WalkTruth
  <2>5. eligible \subseteq DOMAIN rows /\ (wpc # "ingest" => todo = {})
    BY <1>1 DEF WalkTruth
  <2>6. QED
    BY <1>2, <2>1, <2>2, <2>3, <2>4, <2>5 DEF WalkTruth
<1>9. StaleTruth'
  BY <1>1, <1>2 DEF StaleTruth
<1>10. QED
  BY <1>5, <1>6, <1>7, <1>8, <1>9 DEF ThreadInv

LEMMA TellIsTyped ==
  ASSUME TypeOK, NEW event \in Events, Tell(event)
  PROVE  deliveries' \subseteq Events /\ \A e \in deliveries' : e \in deliveries \/ e = event
BY DEF Tell, TypeOK

LEMMA UpsertEventIsEvent ==
  ASSUME NEW i \in Ids, NEW e \in Editions
  PROVE  /\ UpsertEvent(i, e) \in Events /\ UpsertEvent(i, e).id = i
         /\ UpsertEvent(i, e).kind # "delete"
BY DEF UpsertEvent, Events

LEMMA DeleteEventIsEvent ==
  ASSUME NEW i \in Ids
  PROVE  [kind |-> "delete", id |-> i, edition |-> Thin] \in Events
BY DEF Events

LEMMA ZeroIsEdition == 0 \in Editions
BY ThreadAssumption DEF Editions

LEMMA WriteCommentStep ==
  ASSUME ThreadInv, NEW i \in Ids, WriteComment(i)
  PROVE  ThreadInv'
<1>1. TypeOK /\ PlatformTruth
  BY DEF ThreadInv
<1>2. /\ created[i] = 0 /\ (ParentOf[i] # Post => Reachable(ParentOf[i]))
      /\ alive' = alive \cup {i} /\ Tell(UpsertEvent(i, 0))
      /\ UNCHANGED <<platform, hidden, edition, rows, target, op, walk, eligible, purge>>
  BY DEF WriteComment
<1>3. PICK n \in Nat \ {0} : created' = [created EXCEPT ![i] = n]
  <2>1. IsFiniteSet({k \in Ids : created[k] > 0})
    BY ThreadAssumption, FS_Subset
  <2>2. Cardinality({k \in Ids : created[k] > 0}) \in Nat
    BY <2>1, FS_CardinalityType
  <2>3. PICK n : n = Cardinality({k \in Ids : created[k] > 0}) + 1
    OBVIOUS
  <2>4. n \in Nat \ {0}
    BY <2>2, <2>3
  <2>5. created' = [created EXCEPT ![i] = n]
    BY <2>3, Zenon DEF WriteComment
  <2>6. QED
    BY <2>4, <2>5
<1>4. i \in Keys /\ created \in [Keys -> Nat] /\ Ids \subseteq Keys
  BY <1>1 DEF TypeOK, Keys
<1>5. created' \in [Keys -> Nat] /\ created'[i] > 0 /\ \A k \in Keys \ {i} : created'[k] = created[k]
  BY <1>3, <1>4
<1>6. \A k \in Keys : Written(k) => created'[k] = created[k]
  BY <1>2, <1>5 DEF Written
<1>7. deliveries' \subseteq Events
      /\ \A e \in deliveries' : e \in deliveries \/ (e.id = i /\ e.kind # "delete")
  BY <1>1, <1>2, ZeroIsEdition, UpsertEventIsEvent, TellIsTyped
<1>8. TypeOK'
  BY <1>1, <1>2, <1>5, <1>7 DEF TypeOK, walk, purge
<1>9. PlatformTruth'
  <2>1. \A k \in Ids : k \in alive' \/ k \in hidden' => created'[k] > 0
    BY <1>1, <1>2, <1>4, <1>5 DEF PlatformTruth
  <2>2. ASSUME NEW k \in Ids, created'[k] > 0 PROVE Written(ParentOf[k])'
    <3>1. ParentOf[k] \in Keys
      BY ThreadAssumption
    <3>2. CASE k = i
      <4>1. ParentOf[i] \in Ids => created[ParentOf[i]] > 0
        BY <1>1, <1>2, ThreadAssumption DEF Reachable, Readable, PlatformTruth
      <4>2. QED
        BY <1>5, <3>1, <3>2, <4>1 DEF Written
    <3>3. CASE k # i
      <4>1. Written(ParentOf[k])
        BY <1>1, <1>4, <1>5, <2>2, <3>3 DEF PlatformTruth
      <4>2. QED
        BY <1>5, <3>1, <4>1 DEF Written
    <3>4. QED
      BY <3>2, <3>3
  <2>3. ASSUME NEW e \in deliveries'
        PROVE  created'[e.id] > 0 /\ (e.kind = "delete" => e.id \notin alive')
    <3>1. e.id \in Ids
      BY <1>7 DEF Events
    <3>2. e \in deliveries => created[e.id] > 0 /\ (e.kind = "delete" => e.id \notin alive)
      BY <1>1 DEF PlatformTruth
    <3>3. QED
      BY <1>2, <1>4, <1>5, <1>7, <3>1, <3>2
  <2>4. QED
    BY <2>1, <2>2, <2>3 DEF PlatformTruth
<1>10. \A k \in Ids : created[k] > 0 /\ k \in alive' => k \in alive
  BY <1>2
<1>11. hidden \subseteq hidden' /\ UNCHANGED <<platform, rows, target, op, walk, eligible, purge>>
  BY <1>2
<1>12. QED
  BY <1>6, <1>8, <1>9, <1>10, <1>11, PlatformMoves

LEMMA EditCommentStep ==
  ASSUME ThreadInv, NEW i \in Ids, EditComment(i)
  PROVE  ThreadInv'
<1>1. TypeOK /\ PlatformTruth
  BY DEF ThreadInv
<1>2. /\ Reachable(i) /\ edition[i] < MaxEdits
      /\ edition' = [edition EXCEPT ![i] = @ + 1] /\ Tell(UpsertEvent(i, edition[i] + 1))
      /\ UNCHANGED <<platform, created, alive, hidden, rows, target, op, walk, eligible, purge>>
  BY DEF EditComment
<1>3. edition[i] + 1 \in Editions /\ edition' \in [Keys -> Editions]
  BY <1>1, <1>2, ThreadAssumption DEF TypeOK, Editions, Keys
<1>4. deliveries' \subseteq Events
      /\ \A e \in deliveries' : e \in deliveries \/ (e.id = i /\ e.kind # "delete")
  BY <1>1, <1>2, <1>3, UpsertEventIsEvent, TellIsTyped
<1>5. TypeOK'
  BY <1>1, <1>2, <1>3, <1>4 DEF TypeOK, walk, purge
<1>6. created[i] > 0
  BY <1>1, <1>2 DEF Reachable, Readable, PlatformTruth
<1>7. PlatformTruth'
  <2>1. \A e \in deliveries' : created[e.id] > 0 /\ (e.kind = "delete" => e.id \notin alive)
    BY <1>1, <1>4, <1>6 DEF PlatformTruth
  <2>2. QED
    BY <1>1, <1>2, <2>1 DEF PlatformTruth, Written
<1>8. UNCHANGED <<platform, rows, target, op, walk, eligible, purge>>
      /\ created' = created /\ alive' = alive /\ hidden' = hidden
  BY <1>2
<1>9. QED
  BY <1>5, <1>7, <1>8, PlatformMoves

LEMMA RemoveCommentStep ==
  ASSUME ThreadInv, NEW i \in Ids, RemoveComment(i)
  PROVE  ThreadInv'
<1>1. TypeOK /\ PlatformTruth
  BY DEF ThreadInv
<1>2. /\ Reachable(i) /\ alive' = alive \ {i}
      /\ Tell([kind |-> "delete", id |-> i, edition |-> Thin])
      /\ UNCHANGED <<platform, created, hidden, edition, rows, target, op, walk, eligible, purge>>
  BY DEF RemoveComment
<1>3. deliveries' \subseteq Events
      /\ \A e \in deliveries' :
           e \in deliveries \/ e = [kind |-> "delete", id |-> i, edition |-> Thin]
  BY <1>1, <1>2, DeleteEventIsEvent, TellIsTyped
<1>4. TypeOK'
  BY <1>1, <1>2, <1>3 DEF TypeOK, walk, purge
<1>5. created[i] > 0
  BY <1>1, <1>2 DEF Reachable, Readable, PlatformTruth
<1>6. PlatformTruth'
  <2>1. \A e \in deliveries' : created[e.id] > 0 /\ (e.kind = "delete" => e.id \notin alive')
    BY <1>1, <1>2, <1>3, <1>5 DEF PlatformTruth
  <2>2. QED
    BY <1>1, <1>2, <2>1 DEF PlatformTruth, Written
<1>7. UNCHANGED <<platform, rows, target, op, walk, eligible, purge>>
      /\ created' = created /\ alive' \subseteq alive /\ hidden' = hidden
  BY <1>2
<1>8. QED
  BY <1>4, <1>6, <1>7, PlatformMoves

LEMMA HideCommentStep ==
  ASSUME ThreadInv, NEW i \in Ids, HideComment(i)
  PROVE  ThreadInv'
<1>1. TypeOK /\ PlatformTruth
  BY DEF ThreadInv
<1>2. /\ Reachable(i) /\ hidden' = hidden \cup {i}
      /\ UNCHANGED <<platform, created, alive, edition, deliveries, rows, target, op, walk,
                     eligible, purge>>
  BY DEF HideComment
<1>3. TypeOK'
  BY <1>1, <1>2 DEF TypeOK, walk, purge
<1>4. created[i] > 0
  BY <1>1, <1>2 DEF Reachable, Readable, PlatformTruth
<1>5. PlatformTruth'
  BY <1>1, <1>2, <1>4 DEF PlatformTruth, Written
<1>6. UNCHANGED <<platform, rows, target, op, walk, eligible, purge>>
      /\ created' = created /\ alive' = alive /\ hidden \subseteq hidden'
  BY <1>2
<1>7. QED
  BY <1>3, <1>5, <1>6, PlatformMoves

LEMMA DropDeliveryStep ==
  ASSUME ThreadInv, NEW e \in deliveries, DropDelivery(e)
  PROVE  ThreadInv'
<1>1. TypeOK /\ PlatformTruth
  BY DEF ThreadInv
<1>2. /\ deliveries' = deliveries \ {e}
      /\ UNCHANGED <<platform, created, alive, hidden, edition, rows, target, op, walk, eligible, purge>>
  BY DEF DropDelivery, world
<1>3. TypeOK'
  BY <1>1, <1>2 DEF TypeOK, walk, purge
<1>4. PlatformTruth'
  BY <1>1, <1>2 DEF PlatformTruth, Written
<1>5. UNCHANGED <<platform, rows, target, op, walk, eligible, purge>>
      /\ created' = created /\ alive' = alive /\ hidden' = hidden
  BY <1>2
<1>6. QED
  BY <1>3, <1>4, <1>5, PlatformMoves

-------------------------------------------------------------------------------
(* Steps of the database and its writers: the platform stands still. *)

\* A writer that does not move keeps its truth, however the table grows.
LEMMA WriterIsKept ==
  ASSUME ThreadInv, UNCHANGED <<world, purges>>, Grows(rows, rows'),
         NEW w \in Writers, op'[w] = op[w]
  PROVE  WriterTruth(w)'
<1>1. WriterTruth(w) /\ UNCHANGED <<platform, created>>
  BY DEF ThreadInv, world
<1>2. \A k : ReportedParent(k)' = ReportedParent(k) /\ Written(k)' = Written(k)
  BY <1>1 DEF ReportedParent, Written
<1>3. Line(w)' = Line(w)
  BY DEF Line
<1>4. Sourced(w) => Sourced(w)'
  BY <1>2, <1>3 DEF Sourced
<1>5. ASSUME Based(w) PROVE Based(w)'
  <2> DEFINE base == op[w].base
  <2>0. op'[w].base = base
    OBVIOUS
  <2> HIDE DEF base
  <2>1. CASE base = Unresolved
    BY <2>0, <2>1 DEF Based
  <2>2. CASE base # Unresolved
    <3>1. /\ base.parent = op[w].at /\ base.born <= purges
          /\ base.parent = NoKey => base.root = NoKey /\ base.depth = 0
          /\ base.parent # NoKey =>
               /\ base.born = purges => Has(base.parent)
               /\ Has(base.parent) /\ rows[base.parent].born = base.born
                    => Placed(rows, base.parent, base.root, base.depth)
      BY <1>5, <2>2 DEF Based, base
    <3>2. ASSUME base.parent # NoKey, base.parent \in DOMAIN rows',
                 rows'[base.parent].born = base.born
          PROVE  Placed(rows', base.parent, base.root, base.depth)
      <4>1. base.parent \in DOMAIN rows
        BY <3>1, <3>2 DEF Grows, Has
      <4>2. rows[base.parent].born = base.born
        BY <3>2, <4>1 DEF Grows, SameRow
      <4>3. QED
        BY <3>1, <3>2, <4>1, <4>2, GrowsKeepsPlaced DEF Has
    <3>3. base.parent # NoKey => (base.born = purges' => base.parent \in DOMAIN rows')
      BY <3>1 DEF Grows, Has
    <3>4. Placed(rows', base.parent, base.root, base.depth)
            <=> Placed(rows, base.parent, base.root, base.depth)'
      BY <2>0 DEF base, Placed, RootBelow
    <3>5. QED
      BY <2>0, <3>1, <3>2, <3>3, <3>4 DEF Based, Has, base
  <2>3. QED
    BY <2>1, <2>2
<1>6. QED
  BY <1>1, <1>4, <1>5 DEF WriterTruth, Upserting

\* What the walk still has to do shrinks, and so do its candidates.
LEMMA WalkShrinks ==
  ASSUME ThreadInv, UNCHANGED <<world, wpc, page, todo, seen>>, tombstones' \subseteq tombstones,
         missing' \subseteq missing, eligible' \subseteq eligible \cap DOMAIN rows'
  PROVE  WalkTruth'
<1>1. WalkTruth /\ UNCHANGED <<created, alive, hidden, wpc, page, todo, seen>>
  BY DEF ThreadInv, world
<1>2. \A i \in Ids : Gone(i)' = Gone(i)
  BY <1>1 DEF Gone, Written, Reachable, Readable
<1>3. QED
  BY <1>1, <1>2 DEF WalkTruth

LEMMA WalkIsKept ==
  ASSUME ThreadInv, UNCHANGED <<world, walk>>, eligible' \subseteq eligible \cap DOMAIN rows'
  PROVE  WalkTruth'
BY WalkShrinks DEF walk

LEMMA StaleIsKept ==
  ASSUME ThreadInv, Grows(rows, rows'), stale' \subseteq stale
  PROVE  StaleTruth'
<1>1. StaleTruth
  BY DEF ThreadInv
<1>2. QED
  BY <1>1 DEF StaleTruth, Grows, SameRow

\* A step of one transaction: what the table, its writer and the walk must show for it.
LEMMA TableMoves ==
  ASSUME ThreadInv, TypeOK', UNCHANGED <<world, deliveries, purges>>,
         stale' \subseteq stale \/ StaleTruth',
         Table(rows'), Grows(rows, rows'),
         \A i \in DOMAIN rows' \cap Ids :
           rows'[i].status = "deleted" =>
             Gone(i) \/ (i \in DOMAIN rows /\ rows[i].status = "deleted"),
         \A w \in Writers : op'[w] = op[w] \/ WriterTruth(w)',
         WalkTruth'
  PROVE  ThreadInv'
<1>1. TypeOK /\ PlatformTruth /\ DeletedGone
      /\ UNCHANGED <<platform, created, alive, hidden, deliveries, purges>>
  BY DEF ThreadInv, world
<1>2. PlatformTruth'
  BY <1>1 DEF PlatformTruth, Written
<1>3. Table(rows)'
  <2>1. purges' \in Nat /\ purges \in Nat /\ purges' >= purges
    BY <1>1 DEF TypeOK
  <2>2. QED
    BY <1>1, <2>1, TableStays
<1>4. DeletedGone'
  <2>1. \A i \in Ids : Gone(i)' = Gone(i)
    BY <1>1 DEF Gone, Written, Reachable, Readable
  <2>2. QED
    BY <1>1, <2>1 DEF DeletedGone
<1>5. \A w \in Writers : WriterTruth(w)'
  BY WriterIsKept
<1>6. StaleTruth'
  BY StaleIsKept
<1>7. QED
  BY <1>2, <1>3, <1>4, <1>5, <1>6 DEF ThreadInv

LEMMA SettleStep ==
  ASSUME ThreadInv, NEW k \in Keys, Settle(k)
  PROVE  ThreadInv'
<1>1. TypeOK /\ Table(rows)
  BY DEF ThreadInv
<1>2. UNCHANGED <<world, deliveries, target, op, walk, eligible, purge>>
  BY DEF Settle
<1>3. Table(rows') /\ Grows(rows, rows') /\ NoneErased(rows, rows')
  BY <1>1, SettleKeepsTable
<1>4. TypeOK'
  BY <1>1, <1>2, <1>3 DEF TypeOK, world, walk, purge, Table, RowsTyped
<1>5. eligible' \subseteq eligible \cap DOMAIN rows'
  BY <1>2, <1>3 DEF ThreadInv, WalkTruth, Grows
<1>6. WalkTruth'
  BY <1>2, <1>5, WalkIsKept
<1>7. UNCHANGED <<world, deliveries, purges>> /\ stale' \subseteq stale
      /\ \A w \in Writers : op'[w] = op[w]
  BY <1>2 DEF purge
<1>8. QED
  BY <1>3, <1>4, <1>6, <1>7, TableMoves DEF NoneErased

-------------------------------------------------------------------------------
(* One upsert: its ancestors, hop by hop, and its commit. *)

LEMMA ReportedIsKey ==
  ASSUME NEW k \in Keys
  PROVE  ReportedParent(k) \in Keys \cup {NoKey}
BY ThreadAssumption DEF ReportedParent, Keys

LEMMA StartUpsertStarts ==
  ASSUME TypeOK, NEW w \in Writers, NEW copy \in Copies, Written(copy.key),
         StartUpsert(w, copy), UNCHANGED world
  PROVE  /\ op' \in [Writers -> Upserts \cup {Idle}]
         /\ \A v \in Writers : op'[v] = op[v] \/ WriterTruth(v)'
<1> DEFINE start == [copy |-> copy, at |-> ReportedParent(copy.key), chain |-> << >>,
                     base |-> Unresolved]
<1>1. op' = [op EXCEPT ![w] = start] /\ op \in [Writers -> Upserts \cup {Idle}]
  BY DEF StartUpsert, TypeOK
<1>2. start \in Upserts
  <2>1. ReportedParent(copy.key) \in Keys \cup {NoKey}
    BY ReportedIsKey DEF Copies
  <2>2. << >> \in Seq(Copies)
    BY EmptySeq
  <2>3. QED
    BY <2>1, <2>2 DEF Upserts
<1>3. op'[w] = start /\ \A v \in Writers \ {w} : op'[v] = op[v]
  BY <1>1
<1>4. WriterTruth(w)'
  <2>1. /\ op'[w].copy = copy /\ op'[w].chain = << >> /\ op'[w].base = Unresolved
        /\ op'[w].at = ReportedParent(copy.key)
    BY <1>3
  <2>2. DOMAIN Line(w)' = {1} /\ Line(w)'[1] = copy
    <3>1. << >> \in Seq(Copies) /\ Len(<< >>) = 0
      BY EmptySeq
    <3>2. PICK line : line = Append(<< >>, copy)
      OBVIOUS
    <3>3. line \in Seq(Copies) /\ Len(line) = 1 /\ line[1] = copy
      BY <3>1, <3>2, AppendProperties
    <3>4. DOMAIN line = {1}
      BY <3>3, LenProperties
    <3>5. Line(w)' = line
      BY <2>1, <3>2, Zenon DEF Line
    <3>6. QED
      BY <3>3, <3>4, <3>5
  <2>3. \A k : ReportedParent(k)' = ReportedParent(k) /\ Written(k)' = Written(k)
    BY DEF ReportedParent, Written, world
  <2>4. Sourced(w)'
    BY <2>1, <2>2, <2>3 DEF Sourced
  <2>5. QED
    BY <2>1, <2>4 DEF WriterTruth, Based
<1>5. QED
  BY <1>1, <1>2, <1>3, <1>4

LEMMA FetchableIsWritten ==
  ASSUME PlatformTruth, NEW k \in Keys, Fetchable(k)
  PROVE  Written(k)
<1>1. CASE k = Post
  BY <1>1, ThreadAssumption DEF Written
<1>2. CASE k # Post
  <2>1. k \in Ids /\ Readable(k)
    BY <1>2 DEF Fetchable, Reachable, Keys
  <2>2. QED
    BY <2>1 DEF Readable, PlatformTruth, Written
<1>3. QED
  BY <1>1, <1>2

\* An ancestor that is not there goes to the head of the line.
LEMMA LineGrows ==
  ASSUME NEW chain \in Seq(Copies), NEW copy \in Copies, NEW c \in Copies
  PROVE  LET longer == <<c>> \o chain
             old    == Append(chain, copy)
             new    == Append(longer, copy)
         IN /\ longer \in Seq(Copies)
            /\ DOMAIN old = 1..(Len(chain) + 1) /\ DOMAIN new = 1..(Len(chain) + 2)
            /\ new[1] = c /\ \A n \in 1..(Len(chain) + 1) : new[n + 1] = old[n]
<1> DEFINE longer == <<c>> \o chain
           old    == Append(chain, copy)
           new    == Append(longer, copy)
<1>1. PICK one : one = <<c>>
  OBVIOUS
<1>2. one \in Seq(Copies) /\ Len(one) = 1 /\ one[1] = c
  BY <1>1
<1>3. Len(chain) \in Nat /\ DOMAIN chain = 1..Len(chain)
  BY LenProperties
<1>4. /\ longer \in Seq(Copies) /\ Len(longer) = 1 + Len(chain)
      /\ \A i \in 1..(1 + Len(chain)) : longer[i] = IF i <= 1 THEN one[i] ELSE chain[i - 1]
  BY <1>1, <1>2, ConcatProperties
<1> HIDE DEF longer
<1>5. /\ old \in Seq(Copies) /\ Len(old) = Len(chain) + 1
      /\ \A i \in 1..Len(chain) : old[i] = chain[i]
      /\ old[Len(chain) + 1] = copy
  BY AppendProperties
<1>6. /\ new \in Seq(Copies) /\ Len(new) = Len(longer) + 1
      /\ \A i \in 1..Len(longer) : new[i] = longer[i]
      /\ new[Len(longer) + 1] = copy
  BY <1>4, AppendProperties
<1> HIDE DEF old, new
<1>7. PICK L \in Nat : L = Len(chain)
  BY <1>3
<1>8. DOMAIN old = 1..(L + 1) /\ DOMAIN new = 1..(L + 2)
  <2>1. Len(new) = L + 2 /\ Len(old) = L + 1
    BY <1>4, <1>5, <1>6, <1>7
  <2>2. QED
    BY <1>5, <1>6, <2>1, LenProperties
<1>9. new[1] = c
  BY <1>2, <1>4, <1>6, <1>7
<1>10. ASSUME NEW n \in 1..(L + 1) PROVE new[n + 1] = old[n]
  <2>1. CASE n = L + 1
    <3>1. n + 1 = Len(longer) + 1
      BY <1>4, <1>7, <2>1
    <3>2. QED
      BY <1>5, <1>6, <1>7, <2>1, <3>1
  <2>2. CASE n # L + 1
    <3>1. n \in 1..L /\ n + 1 \in 1..(1 + L) /\ ~(n + 1 <= 1) /\ (n + 1) - 1 = n
      BY <2>2
    <3>2. new[n + 1] = longer[n + 1] /\ longer[n + 1] = chain[n] /\ old[n] = chain[n]
      BY <1>4, <1>5, <1>6, <1>7, <3>1
    <3>3. QED
      BY <3>2
  <2>3. QED
    BY <2>1, <2>2
<1>11. QED
  BY <1>4, <1>7, <1>8, <1>9, <1>10 DEF longer, old, new

LEMMA WalkAncestorChainStep ==
  ASSUME ThreadInv, NEW w \in Writers, WalkAncestorChain(w)
  PROVE  ThreadInv'
<1> DEFINE k == op[w].at
<1>1. TypeOK /\ PlatformTruth /\ Table(rows) /\ WriterTruth(w)
  BY DEF ThreadInv
<1>2. /\ Upserting(w) /\ op[w].base = Unresolved
      /\ UNCHANGED <<world, deliveries, rows, target, walk, eligible, purge>>
  BY DEF WalkAncestorChain
<1>3. UNCHANGED <<platform, created, alive, hidden, edition, rows, purges, stale>>
  BY <1>2 DEF world, purge
<1>4. \A i : ReportedParent(i)' = ReportedParent(i) /\ Written(i)' = Written(i)
  BY <1>3 DEF ReportedParent, Written
<1>5. PICK d \in Upserts : d = op[w]
  BY <1>1, <1>2 DEF TypeOK, Upserting
<1>6. /\ d.copy \in Copies /\ d.at \in Keys \cup {NoKey} /\ d.chain \in Seq(Copies)
      /\ d.base \in Placements \cup {Unresolved}
  BY DEF Upserts
<1>7. Sourced(w)
  BY <1>1, <1>2 DEF WriterTruth
<1>8. op \in [Writers -> Upserts \cup {Idle}]
  BY <1>1 DEF TypeOK
<1>9. ASSUME NEW base \in Placements, op' = [op EXCEPT ![w].base = base],
             base.parent = k, base.born <= purges,
             base.parent = NoKey => base.root = NoKey /\ base.depth = 0,
             base.parent # NoKey =>
               Has(base.parent) /\ Placed(rows, base.parent, base.root, base.depth)
      PROVE  op' \in [Writers -> Upserts \cup {Idle}] /\ WriterTruth(w)'
  <2>1. PICK u : u = [d EXCEPT !.base = base]
    OBVIOUS
  <2>2. op' = [op EXCEPT ![w] = u]
    BY <1>5, <1>8, <1>9, <2>1
  <2>3. u \in Upserts /\ u.copy = d.copy /\ u.at = d.at /\ u.chain = d.chain /\ u.base = base
    BY <1>6, <2>1 DEF Upserts
  <2>4. op'[w] = u
    BY <1>8, <2>2
  <2>5. Line(w)' = Line(w)
    BY <1>5, <2>3, <2>4 DEF Line
  <2>6. Sourced(w)'
    BY <1>4, <1>5, <1>7, <2>3, <2>4, <2>5 DEF Sourced
  <2>7. Placed(rows', base.parent, base.root, base.depth)
          <=> Placed(rows, base.parent, base.root, base.depth)
    BY <1>3 DEF Placed, RootBelow
  <2>8. Placed(rows, op[w].base.parent, op[w].base.root, op[w].base.depth)'
          <=> Placed(rows', base.parent, base.root, base.depth)
    BY <2>3, <2>4 DEF Placed, RootBelow
  <2>9. Based(w)'
    BY <1>3, <1>5, <1>9, <2>3, <2>4, <2>7, <2>8 DEF Based, Has
  <2>10. QED
    BY <1>8, <2>2, <2>3, <2>6, <2>9 DEF WriterTruth
<1>10. ASSUME k = NoKey, op' = [op EXCEPT ![w].base = Top]
       PROVE  op' \in [Writers -> Upserts \cup {Idle}] /\ WriterTruth(w)'
  <2>1. Top \in Placements
    BY DEF Top, Placements
  <2>2. Top.parent = k /\ Top.born <= purges /\ Top.parent = NoKey /\ Top.root = NoKey /\ Top.depth = 0
    BY <1>1, <1>10 DEF Top, TypeOK
  <2>3. QED
    BY <1>9, <1>10, <2>1, <2>2
<1>11. ASSUME k # NoKey, Has(k),
              op' = [op EXCEPT ![w].base =
                PlacementBelow(k, rows[k].depth, rows[k].root, rows[k].born)]
       PROVE  op' \in [Writers -> Upserts \cup {Idle}] /\ WriterTruth(w)'
  <2>1. PICK base : base = PlacementBelow(k, rows[k].depth, rows[k].root, rows[k].born)
    OBVIOUS
  <2>2. k \in DOMAIN rows /\ k \in Keys /\ rows[k] \in Row /\ rows[k].born <= purges
    BY <1>1, <1>11 DEF Has, Table, RowsTyped, Sound
  <2>3. /\ base.parent = k /\ base.born = rows[k].born /\ base.depth = rows[k].depth + 1
        /\ base.root = IF rows[k].root = NoKey THEN k ELSE rows[k].root
    BY <2>1 DEF PlacementBelow
  <2>4. base \in Placements
    BY <2>1, <2>2 DEF PlacementBelow, Placements, Row
  <2>5. Placed(rows, base.parent, base.root, base.depth)
    BY <1>11, <2>2, <2>3 DEF Placed, RootBelow
  <2>6. QED
    BY <1>9, <1>11, <2>1, <2>2, <2>3, <2>4, <2>5
<1>12. ASSUME k # NoKey, Fetchable(k),
              op' = [op EXCEPT ![w].chain = <<[key |-> k, edition |-> edition[k]]>> \o @,
                               ![w].at = ReportedParent(k)]
       PROVE  op' \in [Writers -> Upserts \cup {Idle}] /\ WriterTruth(w)'
  <2>1. PICK c : c = [key |-> k, edition |-> edition[k]]
    OBVIOUS
  <2>2. PICK r : r = ReportedParent(k)
    OBVIOUS
  <2>3. PICK longer : longer = <<c>> \o d.chain
    OBVIOUS
  <2>4. k \in Keys /\ c \in Copies /\ c.key = k /\ r \in Keys \cup {NoKey}
    BY <1>1, <1>5, <1>6, <1>12, <2>1, <2>2, ReportedIsKey DEF TypeOK, Copies
  <2>5. PICK u : u = [d EXCEPT !.chain = longer, !.at = r]
    OBVIOUS
  <2>6. op' = [op EXCEPT ![w] = u]
    BY <1>5, <1>8, <1>12, <2>1, <2>2, <2>3, <2>5
  <2>7. longer \in Seq(Copies)
    BY <1>6, <2>3, <2>4, LineGrows
  <2>8. u \in Upserts /\ u.copy = d.copy /\ u.at = r /\ u.chain = longer /\ u.base = d.base
    BY <1>6, <2>4, <2>5, <2>7 DEF Upserts
  <2>9. op'[w] = u
    BY <1>8, <2>6
  <2>10. PICK L \in Nat : L = Len(d.chain)
    BY <1>6, LenProperties
  <2>11. /\ DOMAIN Line(w) = 1..(L + 1) /\ DOMAIN Line(w)' = 1..(L + 2)
         /\ Line(w)'[1] = c /\ \A n \in 1..(L + 1) : Line(w)'[n + 1] = Line(w)[n]
    <3>1. Line(w) = Append(d.chain, d.copy) /\ Line(w)' = Append(<<c>> \o d.chain, d.copy)
      BY <1>5, <2>3, <2>8, <2>9 DEF Line
    <3>2. QED
      BY <1>6, <2>4, <2>10, <3>1, LineGrows
  <2>12. Written(k)
    BY <1>1, <1>12, <2>4, FetchableIsWritten
  <2>13. ASSUME NEW n \in 1..(L + 2)
         PROVE  /\ Written(Line(w)'[n].key)
                /\ ReportedParent(Line(w)'[n].key) = IF n = 1 THEN r ELSE Line(w)'[n - 1].key
    <3>1. CASE n = 1
      BY <2>2, <2>4, <2>11, <2>12, <3>1
    <3>2. CASE n # 1
      <4>1. PICK m \in 1..(L + 1) : n = m + 1
        BY <3>2
      <4>2. Line(w)'[n] = Line(w)[m] /\ m \in DOMAIN Line(w)
        BY <2>11, <4>1
      <4>3. /\ Written(Line(w)[m].key)
            /\ ReportedParent(Line(w)[m].key) = IF m = 1 THEN d.at ELSE Line(w)[m - 1].key
        BY <1>5, <1>7, <4>2 DEF Sourced
      <4>4. Line(w)'[n - 1].key = IF m = 1 THEN d.at ELSE Line(w)[m - 1].key
        <5>1. CASE m = 1
          BY <1>5, <2>4, <2>11, <4>1, <5>1
        <5>2. CASE m # 1
          <6>1. m - 1 \in 1..(L + 1) /\ n - 1 = (m - 1) + 1
            BY <4>1, <5>2
          <6>2. QED
            BY <2>11, <5>2, <6>1
        <5>3. QED
          BY <5>1, <5>2
      <4>5. QED
        BY <3>2, <4>2, <4>3, <4>4
    <3>3. QED
      BY <3>1, <3>2
  <2>14. Sourced(w)'
    BY <1>4, <2>8, <2>9, <2>11, <2>13 DEF Sourced
  <2>15. op'[w].base = Unresolved
    BY <1>2, <1>5, <2>8, <2>9
  <2>16. QED
    BY <1>8, <2>6, <2>8, <2>14, <2>15 DEF WriterTruth, Based
<1>13. op' \in [Writers -> Upserts \cup {Idle}] /\ WriterTruth(w)'
  BY <1>10, <1>11, <1>12 DEF WalkAncestorChain
<1>14. \A v \in Writers \ {w} : op'[v] = op[v]
  BY <1>8 DEF WalkAncestorChain
<1>15. TypeOK'
  BY <1>1, <1>2, <1>13 DEF TypeOK, world, walk, purge
<1>16. Table(rows') /\ Grows(rows, rows') /\ NoneErased(rows, rows')
  BY <1>1, <1>3, TableIsKept
<1>17. WalkTruth'
  <2>1. eligible' \subseteq eligible \cap DOMAIN rows'
    BY <1>2, <1>3 DEF ThreadInv, WalkTruth
  <2>2. QED
    BY <1>2, <2>1, WalkIsKept
<1>18. UNCHANGED <<world, deliveries, purges>> /\ stale' \subseteq stale
  BY <1>2 DEF purge
<1>19. QED
  BY <1>13, <1>14, <1>15, <1>16, <1>17, <1>18, TableMoves DEF NoneErased

LEMMA CommitStep ==
  ASSUME ThreadInv, NEW w \in Writers, UpsertWrites(w),
         UNCHANGED <<world, deliveries, target, walk, purge>>
  PROVE  ThreadInv'
<1>1. TypeOK /\ Table(rows)
  BY DEF ThreadInv
<1>2. Table(rows') /\ Grows(rows, rows') /\ NoneErased(rows, rows')
  BY UpsertWritesKeepsTable
<1>3. op' = [op EXCEPT ![w] = Idle] /\ eligible' \subseteq eligible \cap DOMAIN rows'
  BY DEF UpsertWrites, Write
<1>4. TypeOK'
  BY <1>1, <1>2, <1>3 DEF TypeOK, world, walk, purge, Table, RowsTyped
<1>5. WalkTruth'
  BY <1>3, WalkIsKept
<1>6. \A v \in Writers : op'[v] = op[v] \/ WriterTruth(v)'
  BY <1>1, <1>3 DEF TypeOK, WriterTruth, Upserting
<1>7. UNCHANGED <<world, deliveries, purges>> /\ stale' \subseteq stale
  BY DEF purge
<1>8. QED
  BY <1>2, <1>4, <1>5, <1>6, <1>7, TableMoves DEF NoneErased

\* A writer gives up: its transaction leaves nothing behind.
LEMMA RollbackStep ==
  ASSUME ThreadInv, NEW w \in Writers, op' = [op EXCEPT ![w] = Idle], TypeOK',
         UNCHANGED <<world, deliveries, rows, purge>>, WalkTruth'
  PROVE  ThreadInv'
<1>1. TypeOK /\ Table(rows)
  BY DEF ThreadInv
<1>2. Table(rows') /\ Grows(rows, rows') /\ NoneErased(rows, rows')
  BY <1>1, TableIsKept
<1>3. \A v \in Writers : op'[v] = op[v] \/ WriterTruth(v)'
  BY <1>1 DEF TypeOK, WriterTruth, Upserting
<1>4. UNCHANGED <<world, deliveries, purges>> /\ stale' \subseteq stale
  BY DEF purge
<1>5. QED
  BY <1>2, <1>3, <1>4, TableMoves DEF NoneErased

\* The table stands, and so do the writers.
LEMMA TableStands ==
  ASSUME ThreadInv, TypeOK', WalkTruth', UNCHANGED <<world, deliveries, rows, op, purges>>,
         stale' \subseteq stale \/ StaleTruth'
  PROVE  ThreadInv'
<1>1. Table(rows') /\ Grows(rows, rows') /\ NoneErased(rows, rows')
  BY TableIsKept DEF ThreadInv
<1>2. \A v \in Writers : op'[v] = op[v]
  OBVIOUS
<1>3. QED
  BY <1>1, <1>2, TableMoves DEF NoneErased

\* A delete of what is gone from the platform.
LEMMA DeleteStep ==
  ASSUME ThreadInv, NEW k, Write(RunDelete(k)), k \in Ids => Gone(k),
         UNCHANGED <<world, deliveries, target, op, wpc, page, todo, seen, aborts, purge>>,
         tombstones' \subseteq tombstones, missing' \subseteq missing
  PROVE  ThreadInv'
<1>1. TypeOK /\ Table(rows)
  BY DEF ThreadInv
<1>2. rows' = RunDelete(k) /\ eligible' \subseteq eligible \cap DOMAIN rows'
  BY DEF Write
<1>3. /\ Table(rows') /\ Grows(rows, rows') /\ DOMAIN rows' = DOMAIN rows
      /\ \A x \in DOMAIN rows' : rows'[x].status = "deleted" => x = k \/ rows[x].status = "deleted"
  BY <1>1, <1>2, RunDeleteKeepsTable
<1>4. TypeOK'
  BY <1>1, <1>2, <1>3 DEF TypeOK, world, purge, Table, RowsTyped
<1>5. WalkTruth'
  BY <1>2, WalkShrinks
<1>6. UNCHANGED <<world, deliveries, purges>> /\ stale' \subseteq stale
      /\ \A w \in Writers : op'[w] = op[w]
  BY DEF purge
<1>7. QED
  BY <1>3, <1>4, <1>5, <1>6, TableMoves

-------------------------------------------------------------------------------
(* Webhook deliveries. *)

LEMMA ProcessUpsertStep ==
  ASSUME ThreadInv, NEW s \in Slots, NEW e \in deliveries, ProcessUpsert(s, e)
  PROVE  ThreadInv'
<1>1. TypeOK /\ PlatformTruth
  BY DEF ThreadInv
<1>2. PICK copy : copy = [key |-> e.id, edition |-> IF e.edition = Thin THEN edition[e.id] ELSE e.edition]
  OBVIOUS
<1>3. /\ StartUpsert(s, copy) /\ target' \in Targets
      /\ UNCHANGED <<world, deliveries, rows, walk, eligible, purge>>
  BY <1>1, <1>2 DEF ProcessUpsert, TypeOK, Targets
<1>4. e.id \in Ids /\ e.edition \in Editions \cup {Thin} /\ created[e.id] > 0
  BY <1>1 DEF TypeOK, Events, PlatformTruth
<1>5. copy \in Copies /\ copy.key = e.id /\ Written(copy.key)
  BY <1>1, <1>2, <1>4 DEF TypeOK, Copies, Written, Keys
<1>6. s \in Writers
  BY DEF Writers
<1>7. op' \in [Writers -> Upserts \cup {Idle}] /\ \A v \in Writers : op'[v] = op[v] \/ WriterTruth(v)'
  BY <1>1, <1>3, <1>5, <1>6, StartUpsertStarts
<1>8. TypeOK'
  BY <1>1, <1>3, <1>7 DEF TypeOK, world, walk, purge
<1>9. Table(rows') /\ Grows(rows, rows') /\ NoneErased(rows, rows')
  BY <1>3, TableIsKept DEF ThreadInv
<1>10. WalkTruth'
  <2>1. eligible' \subseteq eligible \cap DOMAIN rows'
    BY <1>3 DEF ThreadInv, WalkTruth
  <2>2. QED
    BY <1>3, <2>1, WalkIsKept
<1>11. UNCHANGED <<world, deliveries, purges>> /\ stale' \subseteq stale
  BY <1>3 DEF purge
<1>12. QED
  BY <1>7, <1>8, <1>9, <1>10, <1>11, TableMoves DEF NoneErased

\* What is not there, and was written, is gone.
LEMMA RemovedIsGone ==
  ASSUME NEW i \in Ids, created[i] > 0, i \notin alive
  PROVE  Gone(i)
BY DEF Gone, Written, Reachable, Readable

LEMMA ProcessDeleteStep ==
  ASSUME ThreadInv, NEW s \in Slots, NEW e \in deliveries, ProcessDelete(s, e)
  PROVE  ThreadInv'
<1>1. TypeOK /\ PlatformTruth
  BY DEF ThreadInv
<1>2. /\ e.kind = "delete" /\ Write(RunDelete(e.id))
      /\ UNCHANGED <<world, deliveries, target, op, walk, purge>>
  BY DEF ProcessDelete
<1>3. e.id \in Ids /\ created[e.id] > 0 /\ e.id \notin alive
  BY <1>1, <1>2 DEF TypeOK, Events, PlatformTruth
<1>4. Gone(e.id)
  BY <1>3, RemovedIsGone
<1>5. UNCHANGED <<wpc, page, todo, seen, aborts>> /\ tombstones' \subseteq tombstones
      /\ missing' \subseteq missing
  BY <1>2 DEF walk
<1>6. QED
  BY <1>2, <1>4, <1>5, DeleteStep

LEMMA FailUpsertStep ==
  ASSUME ThreadInv, NEW s \in Slots, FailUpsert(s)
  PROVE  ThreadInv'
<1>1. /\ op' = [op EXCEPT ![s] = Idle]
      /\ UNCHANGED <<world, deliveries, rows, eligible, target, walk, purge>>
  BY DEF FailUpsert, UpsertFails
<1>2. s \in Writers
  BY DEF Writers
<1>3. TypeOK'
  BY <1>1 DEF ThreadInv, TypeOK, world, walk, purge
<1>4. WalkTruth'
  <2>1. eligible' \subseteq eligible \cap DOMAIN rows'
    BY <1>1 DEF ThreadInv, WalkTruth
  <2>2. QED
    BY <1>1, <2>1, WalkIsKept
<1>5. QED
  BY <1>1, <1>2, <1>3, <1>4, RollbackStep

-------------------------------------------------------------------------------
(* The refresh walk. *)

LEMMA StartWalkStep ==
  ASSUME ThreadInv, StartWalk
  PROVE  ThreadInv'
<1>1. TypeOK /\ WalkTruth
  BY DEF ThreadInv
<1>2. /\ wpc = "idle" /\ wpc' = "page" /\ page' = 1 /\ seen' = {}
      /\ eligible' = {k \in Keys : Posted(k) /\ rows[k].settled}
      /\ UNCHANGED <<world, deliveries, rows, target, op, todo, tombstones, missing, aborts, purge>>
  BY DEF StartWalk
<1>3. TypeOK'
  BY <1>1, <1>2 DEF TypeOK, world, purge
<1>4. \A i \in Ids : PageOf[i] \in Nat \ {0}
  BY ThreadAssumption
<1>5. \A i \in Ids : ~(PageOf[i] < 1)
  BY <1>4
<1>6. \A i \in Ids : Gone(i)' = Gone(i)
  BY <1>2 DEF world, Gone, Written, Reachable, Readable
<1>7. eligible' \subseteq DOMAIN rows' /\ todo' = {}
  BY <1>1, <1>2 DEF Posted, Has, WalkTruth
<1>8. WalkTruth'
  <2>1. \A i \in tombstones' : created'[i] > 0 /\ i \notin alive'
    BY <1>1, <1>2 DEF WalkTruth, world
  <2>2. \A i \in missing' \cap Ids : Gone(i)'
    BY <1>1, <1>2, <1>6 DEF WalkTruth
  <2>3. QED
    BY <1>2, <1>5, <1>7, <2>1, <2>2 DEF WalkTruth
<1>9. UNCHANGED <<world, deliveries, rows, op, purges>> /\ stale' \subseteq stale
  BY <1>2 DEF purge
<1>10. QED
  BY <1>3, <1>8, <1>9, TableStands

LEMMA ListCommentsStep ==
  ASSUME ThreadInv, ListComments
  PROVE  ThreadInv'
<1> DEFINE onPage == {i \in Ids : PageOf[i] = page /\ created[i] > 0}
<1>1. TypeOK /\ WalkTruth /\ Table(rows)
  BY DEF ThreadInv
<1>2. /\ wpc = "page" /\ wpc' = "ingest"
      /\ todo' = {[key |-> i, edition |-> edition[i]] : i \in {j \in onPage : Reachable(j)}}
      /\ tombstones' \in SUBSET {i \in onPage \ alive : platform = "bluesky"}
      /\ UNCHANGED <<world, deliveries, rows, target, op, page, seen, missing, aborts, eligible, purge>>
  BY DEF ListComments
<1>3. \A i \in Ids : [key |-> i, edition |-> edition[i]] \in Copies
  BY <1>1 DEF TypeOK, Copies, Keys
<1>4. todo' \subseteq Copies /\ tombstones' \subseteq Ids
  BY <1>2, <1>3
<1>5. TypeOK'
  BY <1>1, <1>2, <1>4 DEF TypeOK, world, purge
<1>6. UNCHANGED <<platform, created, alive, hidden>>
  BY <1>2 DEF world
<1>7. \A i \in Ids : Gone(i)' = Gone(i)
  BY <1>6 DEF Gone, Written, Reachable, Readable
<1>8. \A copy \in todo' : copy.key \in Ids /\ created'[copy.key] > 0
  BY <1>2, <1>6
<1>9. \A i \in tombstones' : created'[i] > 0 /\ i \notin alive'
  BY <1>2, <1>6
<1>10. ASSUME NEW i \in eligible' \cap Ids, PageOf[i] < page' \/ PageOf[i] = page'
       PROVE  i \in seen' \/ Gone(i)' \/ \E copy \in todo' : copy.key = i
  <2>1. i \in eligible /\ i \in Ids /\ i \in DOMAIN rows /\ page' = page /\ seen' = seen
    BY <1>1, <1>2 DEF WalkTruth
  <2>2. created[i] > 0
    BY <1>1, <2>1 DEF Table, RowsTyped, Written
  <2>3. CASE PageOf[i] < page
    <3>1. todo = {} /\ (i \in seen \/ Gone(i) \/ \E copy \in todo : copy.key = i)
      BY <1>1, <1>2, <2>1, <2>3 DEF WalkTruth
    <3>2. QED
      BY <1>7, <2>1, <3>1
  <2>4. CASE PageOf[i] = page /\ Reachable(i)
    <3>1. [key |-> i, edition |-> edition[i]] \in todo'
      BY <1>2, <2>1, <2>2, <2>4
    <3>2. QED
      BY <3>1
  <2>5. CASE ~Reachable(i)
    BY <1>7, <2>1, <2>2, <2>5 DEF Gone, Written
  <2>6. QED
    BY <1>10, <2>1, <2>3, <2>4, <2>5
<1>11. \A i \in missing' \cap Ids : Gone(i)'
  BY <1>1, <1>2, <1>7 DEF WalkTruth
<1>12. eligible' \subseteq DOMAIN rows'
  BY <1>1, <1>2 DEF WalkTruth
<1>13. WalkTruth'
  BY <1>2, <1>8, <1>9, <1>10, <1>11, <1>12 DEF WalkTruth
<1>14. UNCHANGED <<world, deliveries, rows, op, purges>> /\ stale' \subseteq stale
  BY <1>2 DEF purge
<1>15. QED
  BY <1>5, <1>13, <1>14, TableStands

LEMMA IngestPageCommentStep ==
  ASSUME ThreadInv, NEW copy \in todo, IngestPageComment(copy)
  PROVE  ThreadInv'
<1>1. TypeOK /\ WalkTruth
  BY DEF ThreadInv
<1>2. /\ wpc = "ingest" /\ StartUpsert(Walker, copy)
      /\ todo' = todo \ {copy} /\ seen' = seen \cup {copy.key}
      /\ UNCHANGED <<world, deliveries, rows, target, wpc, page, tombstones, missing, aborts,
                     eligible, purge>>
  BY DEF IngestPageComment
<1>3. copy \in Copies /\ copy.key \in Ids /\ created[copy.key] > 0 /\ Walker \in Writers
  BY <1>1 DEF TypeOK, WalkTruth, Writers
<1>4. op' \in [Writers -> Upserts \cup {Idle}] /\ \A v \in Writers : op'[v] = op[v] \/ WriterTruth(v)'
  BY <1>1, <1>2, <1>3, StartUpsertStarts DEF Written
<1>5. TypeOK'
  BY <1>1, <1>2, <1>3, <1>4 DEF TypeOK, world, purge
<1>6. UNCHANGED <<platform, created, alive, hidden>>
  BY <1>2 DEF world
<1>7. \A i \in Ids : Gone(i)' = Gone(i)
  BY <1>6 DEF Gone, Written, Reachable, Readable
<1>8. \A c \in todo' : c.key \in Ids /\ created'[c.key] > 0
  BY <1>1, <1>2, <1>6 DEF WalkTruth
<1>9. \A i \in tombstones' : created'[i] > 0 /\ i \notin alive'
  BY <1>1, <1>2, <1>6 DEF WalkTruth
<1>10. ASSUME NEW i \in eligible' \cap Ids, PageOf[i] < page' \/ PageOf[i] = page'
       PROVE  i \in seen' \/ Gone(i)' \/ \E c \in todo' : c.key = i
  <2>1. i \in seen \/ Gone(i) \/ \E c \in todo : c.key = i
    BY <1>1, <1>2, <1>10 DEF WalkTruth
  <2>2. QED
    BY <1>2, <1>7, <2>1
<1>11. \A i \in missing' \cap Ids : Gone(i)'
  BY <1>1, <1>2, <1>7 DEF WalkTruth
<1>12. eligible' \subseteq DOMAIN rows'
  BY <1>1, <1>2 DEF WalkTruth
<1>13. WalkTruth'
  BY <1>2, <1>8, <1>9, <1>10, <1>11, <1>12 DEF WalkTruth
<1>14. Table(rows') /\ Grows(rows, rows') /\ NoneErased(rows, rows')
  BY <1>2, TableIsKept DEF ThreadInv
<1>15. UNCHANGED <<world, deliveries, purges>> /\ stale' \subseteq stale
  BY <1>2 DEF purge
<1>16. QED
  BY <1>4, <1>5, <1>13, <1>14, <1>15, TableMoves DEF NoneErased

LEMMA CommitPageCommentStep ==
  ASSUME ThreadInv, CommitPageComment
  PROVE  ThreadInv'
<1>1. Walker \in Writers
  BY DEF Writers
<1>2. QED
  BY <1>1, CommitStep DEF CommitPageComment

LEMMA IngestPageTombstoneStep ==
  ASSUME ThreadInv, NEW i \in tombstones, IngestPageTombstone(i)
  PROVE  ThreadInv'
<1>1. i \in Ids /\ created[i] > 0 /\ i \notin alive
  BY DEF ThreadInv, TypeOK, WalkTruth
<1>2. Gone(i)
  BY <1>1, RemovedIsGone
<1>3. /\ Write(RunDelete(i)) /\ tombstones' \subseteq tombstones /\ missing' \subseteq missing
      /\ UNCHANGED <<world, deliveries, target, op, wpc, page, todo, seen, aborts, purge>>
  BY DEF IngestPageTombstone
<1>4. QED
  BY <1>2, <1>3, DeleteStep

LEMMA NextPageStep ==
  ASSUME ThreadInv, NextPage
  PROVE  ThreadInv'
<1>1. TypeOK /\ WalkTruth
  BY DEF ThreadInv
<1>2. /\ wpc = "ingest" /\ todo = {} /\ page' = page + 1 /\ wpc' = "page"
      /\ UNCHANGED <<world, deliveries, rows, target, op, todo, tombstones, seen, missing, aborts,
                     eligible, purge>>
  BY DEF NextPage, PageIngested
<1>3. TypeOK'
  BY <1>1, <1>2 DEF TypeOK, world, purge
<1>4. UNCHANGED <<platform, created, alive, hidden>>
  BY <1>2 DEF world
<1>5. \A i \in Ids : Gone(i)' = Gone(i)
  BY <1>4 DEF Gone, Written, Reachable, Readable
<1>6. ASSUME NEW i \in eligible \cap Ids, PageOf[i] < page'
      PROVE  i \in seen \/ Gone(i)
  <2>1. PageOf[i] \in Nat /\ page \in Nat
    BY <1>1, ThreadAssumption DEF TypeOK
  <2>2. PageOf[i] < page \/ PageOf[i] = page
    BY <1>2, <1>6, <2>1
  <2>3. QED
    BY <1>1, <1>2, <2>2 DEF WalkTruth
<1>7. WalkTruth'
  <2>1. \A i \in tombstones : created'[i] > 0 /\ i \notin alive'
    BY <1>1, <1>4 DEF WalkTruth
  <2>2. \A i \in missing \cap Ids : Gone(i)'
    BY <1>1, <1>5 DEF WalkTruth
  <2>3. \A i \in eligible \cap Ids : PageOf[i] < page' => i \in seen \/ Gone(i)'
    BY <1>5, <1>6
  <2>4. eligible \subseteq DOMAIN rows
    BY <1>1 DEF WalkTruth
  <2>5. QED
    BY <1>2, <2>1, <2>2, <2>3, <2>4 DEF WalkTruth
<1>8. UNCHANGED <<world, deliveries, rows, op, purges>> /\ stale' \subseteq stale
  BY <1>2 DEF purge
<1>9. QED
  BY <1>3, <1>7, <1>8, TableStands

\* There is a last page, and no comment is listed behind it.
LEMMA LastPageIsLast ==
  ASSUME NEW i \in Ids
  PROVE  PageOf[i] <= LastPage
<1>1. Pages \subseteq Nat /\ PageOf[i] \in Pages
  BY ThreadAssumption DEF Pages
<1>2. IsFiniteSet(Ids)
  BY ThreadAssumption
<1> DEFINE above(p) == {j \in Ids : PageOf[j] >= p}
           T        == {above(p) : p \in Pages}
<1>3. IsWellFoundedOn(StrictSubsetOrdering(Ids), SUBSET Ids)
  BY <1>2, FS_StrictSubsetOrderingWellFounded, FS_FiniteSubsetsOfFinite
<1>4. T \subseteq SUBSET Ids /\ T # {}
  BY <1>1
<1> HIDE DEF T
<1>5. \E x \in T : \A y \in T : ~(<<y, x>> \in StrictSubsetOrdering(Ids))
  BY <1>3, <1>4, WFMin
<1>6. PICK p \in Pages : \A y \in T : ~(<<y, above(p)>> \in StrictSubsetOrdering(Ids))
  BY <1>5 DEF T
<1>7. \A q \in Pages : q <= p
  <2> SUFFICES ASSUME NEW q \in Pages, ~(q <= p) PROVE FALSE
    OBVIOUS
  <2>1. p \in Int /\ q \in Int /\ q > p
    BY <1>1
  <2>2. above(q) \subseteq above(p)
    <3>1. \A j \in Ids : PageOf[j] >= q => PageOf[j] >= p
      BY <2>1, ThreadAssumption
    <3>2. QED
      BY <3>1
  <2>3. PICK j \in Ids : PageOf[j] = p
    BY DEF Pages
  <2>4. j \in above(p) /\ j \notin above(q)
    BY <2>1, <2>3
  <2>5. <<above(q), above(p)>> \in StrictSubsetOrdering(Ids)
    BY <2>2, <2>4 DEF StrictSubsetOrdering
  <2>6. QED
    BY <1>6, <2>5 DEF T
<1>8. QED
  BY <1>1, <1>7 DEF LastPage

LEMMA SelectMissingStep ==
  ASSUME ThreadInv, SelectMissing
  PROVE  ThreadInv'
<1>1. TypeOK /\ WalkTruth
  BY DEF ThreadInv
<1>2. /\ wpc = "ingest" /\ todo = {} /\ page = LastPage /\ wpc' = "infer"
      /\ missing' = {k \in eligible : Posted(k) /\ k \notin seen}
      /\ UNCHANGED <<world, deliveries, rows, target, op, page, todo, tombstones, seen, aborts,
                     eligible, purge>>
  BY DEF SelectMissing, PageIngested
<1>3. TypeOK'
  BY <1>1, <1>2 DEF TypeOK, world, purge
<1>4. UNCHANGED <<platform, created, alive, hidden>>
  BY <1>2 DEF world
<1>5. \A i \in Ids : Gone(i)' = Gone(i)
  BY <1>4 DEF Gone, Written, Reachable, Readable
<1>6. ASSUME NEW i \in missing' \cap Ids PROVE Gone(i)
  <2>1. PageOf[i] \in Nat /\ page \in Nat /\ PageOf[i] <= page
    BY <1>1, <1>2, LastPageIsLast, ThreadAssumption DEF TypeOK
  <2>2. PageOf[i] < page \/ PageOf[i] = page
    BY <2>1
  <2>3. i \in eligible /\ i \notin seen
    BY <1>2
  <2>4. QED
    BY <1>1, <1>2, <2>2, <2>3 DEF WalkTruth
<1>7. WalkTruth'
  <2>1. \A i \in tombstones : created'[i] > 0 /\ i \notin alive'
    BY <1>1, <1>4 DEF WalkTruth
  <2>2. \A i \in missing' \cap Ids : Gone(i)'
    BY <1>5, <1>6
  <2>3. eligible \subseteq DOMAIN rows
    BY <1>1 DEF WalkTruth
  <2>4. QED
    BY <1>2, <2>1, <2>2, <2>3 DEF WalkTruth
<1>8. UNCHANGED <<world, deliveries, rows, op, purges>> /\ stale' \subseteq stale
  BY <1>2 DEF purge
<1>9. QED
  BY <1>3, <1>7, <1>8, TableStands

LEMMA InferDeletionStep ==
  ASSUME ThreadInv, NEW k \in missing, InferDeletion(k)
  PROVE  ThreadInv'
<1>1. k \in Ids => Gone(k)
  BY DEF ThreadInv, WalkTruth
<1>2. /\ Write(RunDelete(k)) /\ missing' \subseteq missing /\ tombstones' \subseteq tombstones
      /\ UNCHANGED <<world, deliveries, target, op, wpc, page, todo, seen, aborts, purge>>
  BY DEF InferDeletion
<1>3. QED
  BY <1>1, <1>2, DeleteStep

\* A walk that ended has nothing left to be wrong about.
LEMMA LeftWalkIsTrue ==
  ASSUME LeaveWalk, eligible' \subseteq DOMAIN rows'
  PROVE  WalkTruth'
BY DEF LeaveWalk, WalkTruth

LEMMA MarkSucceededStep ==
  ASSUME ThreadInv, MarkSucceeded
  PROVE  ThreadInv'
<1>1. /\ LeaveWalk /\ eligible' = {} /\ target' \in Targets
      /\ UNCHANGED <<world, deliveries, rows, op, aborts, purge>>
  BY DEF MarkSucceeded, Targets
<1>2. TypeOK'
  BY <1>1 DEF ThreadInv, TypeOK, LeaveWalk, world, purge
<1>3. WalkTruth'
  BY <1>1, LeftWalkIsTrue
<1>4. UNCHANGED <<world, deliveries, rows, op, purges>> /\ stale' \subseteq stale
  BY <1>1 DEF purge
<1>5. QED
  BY <1>2, <1>3, <1>4, TableStands

LEMMA FailWalkStep ==
  ASSUME ThreadInv, FailWalk
  PROVE  ThreadInv'
<1>1. /\ LeaveWalk /\ op' = [op EXCEPT ![Walker] = Idle]
      /\ UNCHANGED <<world, deliveries, rows, eligible, target, aborts, purge>>
  BY DEF FailWalk, UpsertFails
<1>2. TypeOK'
  BY <1>1 DEF ThreadInv, TypeOK, LeaveWalk, world, purge
<1>3. eligible' \subseteq DOMAIN rows' /\ Walker \in Writers
  BY <1>1 DEF ThreadInv, WalkTruth, Writers
<1>4. WalkTruth'
  BY <1>1, <1>3, LeftWalkIsTrue
<1>5. QED
  BY <1>1, <1>2, <1>3, <1>4, RollbackStep

LEMMA AbortWalkStep ==
  ASSUME ThreadInv, AbortWalk
  PROVE  ThreadInv'
<1>1. /\ LeaveWalk /\ op' = [op EXCEPT ![Walker] = Idle] /\ eligible' = {}
      /\ aborts < MaxAborts /\ aborts' = aborts + 1
      /\ target' \in Targets /\ UNCHANGED <<world, deliveries, rows, purge>>
  BY DEF AbortWalk, ThreadInv, TypeOK, Targets
<1>2. aborts' \in 0..MaxAborts
  BY <1>1, ThreadAssumption DEF ThreadInv, TypeOK
<1>3. TypeOK'
  BY <1>1, <1>2 DEF ThreadInv, TypeOK, LeaveWalk, world, purge
<1>4. Walker \in Writers
  BY DEF Writers
<1>5. WalkTruth'
  BY <1>1, LeftWalkIsTrue
<1>6. QED
  BY <1>1, <1>3, <1>4, <1>5, RollbackStep

-------------------------------------------------------------------------------
(* The retention purge. *)

LEMMA RetentionAdvancesStep ==
  ASSUME ThreadInv, RetentionAdvances
  PROVE  ThreadInv'
<1>1. /\ cutoff' = cutoff + 1
      /\ UNCHANGED <<world, deliveries, rows, target, op, walk, eligible, stale, purges>>
  BY DEF RetentionAdvances
<1>2. TypeOK'
  BY <1>1 DEF ThreadInv, TypeOK, world, walk
<1>3. WalkTruth'
  <2>1. eligible' \subseteq eligible \cap DOMAIN rows'
    BY <1>1 DEF ThreadInv, WalkTruth
  <2>2. QED
    BY <1>1, <2>1, WalkIsKept
<1>4. UNCHANGED <<world, deliveries, rows, op, purges>> /\ stale' \subseteq stale
  BY <1>1
<1>5. QED
  BY <1>2, <1>3, <1>4, TableStands

LEMMA SelectStaleStep ==
  ASSUME ThreadInv, SelectStale
  PROVE  ThreadInv'
<1>1. /\ stale' = {<<k, rows[k].born>> :
                     k \in {r \in DOMAIN rows : rows[r].parent = NoKey /\ rows[r].activity <= cutoff}}
      /\ UNCHANGED <<world, deliveries, rows, target, op, walk, eligible, cutoff, purges>>
  BY DEF SelectStale
<1>2. TypeOK /\ Table(rows)
  BY DEF ThreadInv
<1>3. stale' \subseteq Keys \X Nat
  BY <1>1, <1>2 DEF Table, RowsTyped, Row
<1>4. TypeOK'
  BY <1>1, <1>2, <1>3 DEF TypeOK, world, walk
<1>5. WalkTruth'
  <2>1. eligible' \subseteq eligible \cap DOMAIN rows'
    BY <1>1 DEF ThreadInv, WalkTruth
  <2>2. QED
    BY <1>1, <2>1, WalkIsKept
<1>6. StaleTruth'
  BY <1>1 DEF StaleTruth
<1>7. QED
  BY <1>1, <1>4, <1>5, <1>6, TableStands

\* A thread goes as a whole: a row stays when what it answers does, and only then.
LEMMA ThreadsStayWhole ==
  ASSUME Table(rows), NEW dead \in SUBSET DOMAIN rows, \A r \in dead : rows[r].parent = NoKey,
         NEW keep, keep = {k \in DOMAIN rows : k \notin dead /\ rows[k].root \notin dead},
         NEW k \in DOMAIN rows
  PROVE  /\ rows[k].parent # NoKey => (k \in keep <=> rows[k].parent \in keep)
         /\ k \in keep /\ rows[k].root # NoKey => rows[k].root \in keep
<1>1. RowsTyped(rows) /\ Rooted(rows) /\ NoKey \notin DOMAIN rows
  BY KeysAreFinite DEF Table, RowsTyped
<1>2. Placed(rows, rows[k].parent, rows[k].root, rows[k].depth)
  BY <1>1 DEF Rooted
<1>3. \A r \in DOMAIN rows : rows[r].parent = NoKey => rows[r].root = NoKey
  BY <1>1 DEF Rooted, Placed
<1>4. ASSUME rows[k].parent # NoKey PROVE k \in keep <=> rows[k].parent \in keep
  <2>1. PICK p : p = rows[k].parent
    OBVIOUS
  <2>2. p \in DOMAIN rows /\ rows[k].root = IF rows[p].root = NoKey THEN p ELSE rows[p].root
    BY <1>2, <1>4, <2>1 DEF Placed, RootBelow
  <2>3. k \notin dead
    BY <1>4
  <2>4. p \in dead => rows[p].root = NoKey
    BY <1>3, <2>2
  <2>5. NoKey \notin dead
    BY <1>1
  <2>6. k \in keep <=> p \notin dead /\ rows[p].root \notin dead
    BY <2>2, <2>3, <2>4, <2>5
  <2>7. QED
    BY <2>1, <2>2, <2>6
<1>5. ASSUME k \in keep, rows[k].root # NoKey PROVE rows[k].root \in keep
  <2>1. PICK r \in DOMAIN rows : r = rows[k].root /\ rows[r].parent = NoKey
    BY <1>1, <1>5 DEF Rooted
  <2>2. rows[r].root = NoKey /\ r \notin dead
    BY <1>3, <1>5, <2>1
  <2>3. QED
    BY <1>1, <2>1, <2>2
<1>6. QED
  BY <1>4, <1>5

LEMMA PurgeThreadBatchStep ==
  ASSUME ThreadInv, PurgeThreadBatch
  PROVE  ThreadInv'
<1>1. PICK dead : dead = {r \in DOMAIN rows : <<r, rows[r].born>> \in stale}
  OBVIOUS
<1>2. PICK keep : keep = {k \in DOMAIN rows : k \notin dead /\ rows[k].root \notin dead}
  OBVIOUS
<1>3. /\ Write(Restrict(rows, keep)) /\ stale' = {} /\ purges' = purges + 1
      /\ UNCHANGED <<world, deliveries, target, op, walk, cutoff>>
  BY <1>1, <1>2 DEF PurgeThreadBatch
<1>4. /\ DOMAIN rows' = keep /\ keep \subseteq DOMAIN rows
      /\ \A k \in keep : rows'[k] = rows[k]
      /\ eligible' \subseteq eligible \cap DOMAIN rows'
  BY <1>2, <1>3 DEF Write, Restrict
<1>5. TypeOK /\ PlatformTruth /\ Table(rows) /\ DeletedGone /\ StaleTruth
  BY DEF ThreadInv
<1>6. dead \in SUBSET DOMAIN rows /\ \A r \in dead : rows[r].parent = NoKey
  BY <1>1, <1>5 DEF StaleTruth
<1>7. \A k \in DOMAIN rows :
        /\ rows[k].parent # NoKey => (k \in keep <=> rows[k].parent \in keep)
        /\ k \in keep /\ rows[k].root # NoKey => rows[k].root \in keep
  BY <1>2, <1>5, <1>6, ThreadsStayWhole
<1>8. UNCHANGED <<platform, created, alive, hidden, deliveries>>
  BY <1>3 DEF world
<1>9. purges \in Nat /\ purges' \in Nat /\ purges' >= purges /\ purges' = purges + 1
  BY <1>3, <1>5 DEF TypeOK
<1>10. \A parent, root, depth :
         parent \in keep \cup {NoKey} /\ Placed(rows, parent, root, depth)
           => Placed(rows', parent, root, depth)
  BY <1>4 DEF Placed, RootBelow
<1>11. Table(rows')
  <2>1. RowsTyped(rows')
    BY <1>4, <1>5 DEF Table, RowsTyped
  <2>2. Rooted(rows')
    <3> SUFFICES ASSUME NEW k \in keep
                 PROVE  /\ rows'[k].parent = ReportedParent(k)
                        /\ Placed(rows', rows'[k].parent, rows'[k].root, rows'[k].depth)
                        /\ rows'[k].root # NoKey =>
                             rows'[k].root \in DOMAIN rows' /\ rows'[rows'[k].root].parent = NoKey
      BY <1>4 DEF Rooted
    <3>1. rows'[k] = rows[k] /\ k \in DOMAIN rows
      BY <1>4
    <3>2. rows[k].parent \in keep \cup {NoKey}
      BY <1>7, <3>1
    <3>3. Placed(rows', rows[k].parent, rows[k].root, rows[k].depth)
      BY <1>5, <1>10, <3>1, <3>2 DEF Table, Rooted
    <3>4. rows[k].root # NoKey => rows[k].root \in keep /\ rows[rows[k].root].parent = NoKey
      BY <1>5, <1>7, <3>1 DEF Table, Rooted
    <3>5. QED
      BY <1>4, <1>5, <3>1, <3>3, <3>4 DEF Table, Rooted
  <2>3. Counted(rows')
    <3> SUFFICES ASSUME NEW k \in keep PROVE rows'[k].replies = Cardinality(RepliesOf(rows', k))
      BY <1>4 DEF Counted
    <3>1. k # NoKey
      BY <1>4, <1>5, KeysAreFinite DEF Table, RowsTyped
    <3>2. RepliesOf(rows', k) = RepliesOf(rows, k)
      BY <1>4, <1>7, <3>1 DEF RepliesOf
    <3>3. QED
      BY <1>4, <1>5, <3>2 DEF Table, Counted
  <2>4. Covered(rows')
    BY <1>4, <1>5, <1>7 DEF Table, Covered
  <2>5. \A k \in DOMAIN rows' : Sound(rows'[k])
    BY <1>4, <1>5 DEF Table
  <2>6. QED
    BY <2>1, <2>2, <2>3, <2>4, <2>5 DEF Table
<1>12. Table(rows)'
  BY <1>8, <1>9, <1>11, TableStays
<1>13. TypeOK'
  BY <1>3, <1>4, <1>5, <1>9 DEF TypeOK, world, walk
<1>14. PlatformTruth'
  BY <1>5, <1>8 DEF PlatformTruth, Written
<1>15. DeletedGone'
  <2>1. \A i \in Ids : Gone(i)' = Gone(i)
    BY <1>8 DEF Gone, Written, Reachable, Readable
  <2>2. QED
    BY <1>4, <1>5, <2>1 DEF DeletedGone
<1>16. ASSUME NEW w \in Writers PROVE WriterTruth(w)'
  <2>1. WriterTruth(w) /\ op' = op
    BY <1>3 DEF ThreadInv
  <2>2. \A k : ReportedParent(k)' = ReportedParent(k) /\ Written(k)' = Written(k)
    BY <1>8 DEF ReportedParent, Written
  <2>3. Sourced(w) => Sourced(w)'
    BY <2>1, <2>2 DEF Sourced, Line
  <2>4. ASSUME Upserting(w), Based(w) PROVE Based(w)'
    <3>1. PICK base : base = op[w].base
      OBVIOUS
    <3>2. base # Unresolved => base.born \in Nat
      BY <1>5, <2>4, <3>1 DEF TypeOK, Upserting, Upserts, Placements
    <3>3. CASE base = Unresolved
      BY <2>1, <3>1, <3>3 DEF Based
    <3>4. CASE base # Unresolved
      <4>1. /\ base.parent = op[w].at /\ base.born <= purges
            /\ base.parent = NoKey => base.root = NoKey /\ base.depth = 0
            /\ base.parent # NoKey /\ Has(base.parent) /\ rows[base.parent].born = base.born
                 => Placed(rows, base.parent, base.root, base.depth)
        BY <2>4, <3>1, <3>4 DEF Based
      <4>2. base.born <= purges' /\ base.born # purges'
        BY <1>9, <3>2, <3>4, <4>1
      <4>3. base.parent # NoKey /\ base.parent \in DOMAIN rows'
              /\ rows'[base.parent].born = base.born
                => Placed(rows', base.parent, base.root, base.depth)
        BY <1>4, <1>10, <4>1 DEF Has
      <4>4. Placed(rows', base.parent, base.root, base.depth)
              <=> Placed(rows, op[w].base.parent, op[w].base.root, op[w].base.depth)'
        BY <2>1, <3>1 DEF Placed, RootBelow
      <4>5. QED
        BY <2>1, <3>1, <4>1, <4>2, <4>3, <4>4 DEF Based, Has
    <3>5. QED
      BY <3>3, <3>4
  <2>5. QED
    BY <2>1, <2>3, <2>4 DEF WriterTruth, Upserting
<1>17. WalkTruth'
  BY <1>3, <1>4, WalkIsKept
<1>18. StaleTruth'
  BY <1>3 DEF StaleTruth
<1>19. QED
  BY <1>12, <1>13, <1>14, <1>15, <1>16, <1>17, <1>18 DEF ThreadInv

-------------------------------------------------------------------------------
(* The invariant holds in every state. *)

LEMMA InitEstablishes ==
  ASSUME Init
  PROVE  ThreadInv
<1>1. /\ platform \in Platforms /\ created = [k \in Keys |-> 0] /\ alive = {} /\ hidden = {}
      /\ edition = [k \in Keys |-> 0] /\ deliveries = {} /\ rows = << >> /\ target \in Targets
      /\ op = [w \in Writers |-> Idle] /\ wpc = "idle" /\ page = 1 /\ todo = {} /\ tombstones = {}
      /\ seen = {} /\ eligible = {} /\ missing = {} /\ cutoff = 0 /\ stale = {} /\ purges = 0
      /\ aborts = 0
  BY DEF Init, Targets
<1>2. DOMAIN rows = {}
  BY <1>1
<1>3. 0 \in 0..MaxAborts
  BY ThreadAssumption
<1>4. TypeOK
  BY <1>1, <1>2, <1>3, ZeroIsEdition DEF TypeOK
<1>5. PlatformTruth
  BY <1>1, ThreadAssumption DEF PlatformTruth, Keys
<1>6. Table(rows)
  BY <1>2 DEF Table, RowsTyped, Rooted, Counted, Covered
<1>7. DeletedGone /\ WalkTruth /\ StaleTruth
  BY <1>1, <1>2 DEF DeletedGone, WalkTruth, StaleTruth
<1>8. \A w \in Writers : WriterTruth(w)
  BY <1>1 DEF WriterTruth, Upserting
<1>9. QED
  BY <1>4, <1>5, <1>6, <1>7, <1>8 DEF ThreadInv

LEMMA StutterKeeps ==
  ASSUME ThreadInv, UNCHANGED vars
  PROVE  ThreadInv'
<1>1. UNCHANGED <<platform, created, alive, hidden, edition, deliveries, rows, target, op, wpc,
                  page, todo, tombstones, seen, missing, aborts, eligible, cutoff, stale, purges>>
  BY DEF vars, world, walk, purge
<1>2. UNCHANGED <<world, deliveries, rows, op, purges>> /\ stale' \subseteq stale
  BY <1>1 DEF world
<1>3. TypeOK'
  BY <1>1 DEF ThreadInv, TypeOK
<1>4. WalkTruth'
  <2>1. eligible' \subseteq eligible \cap DOMAIN rows' /\ UNCHANGED <<world, walk>>
    BY <1>1 DEF ThreadInv, WalkTruth, world, walk
  <2>2. QED
    BY <2>1, WalkIsKept
<1>5. QED
  BY <1>2, <1>3, <1>4, TableStands

LEMMA NextKeeps ==
  ASSUME ThreadInv, Next
  PROVE  ThreadInv'
<1>1. CASE PlatformStep
  BY <1>1, WriteCommentStep, EditCommentStep, RemoveCommentStep, HideCommentStep,
     DropDeliveryStep DEF PlatformStep
<1>2. ASSUME NEW s \in Slots, WebhookStep(s) PROVE ThreadInv'
  <2>1. s \in Writers
    BY DEF Writers
  <2>2. CASE \E e \in deliveries : ProcessUpsert(s, e) \/ ProcessDelete(s, e)
    BY <2>2, ProcessUpsertStep, ProcessDeleteStep
  <2>3. CASE WalkAncestorChain(s)
    BY <2>1, <2>3, WalkAncestorChainStep
  <2>4. CASE CommitUpsert(s)
    BY <2>1, <2>4, CommitStep DEF CommitUpsert
  <2>5. CASE FailUpsert(s)
    BY <2>5, FailUpsertStep
  <2>6. QED
    BY <1>2, <2>2, <2>3, <2>4, <2>5 DEF WebhookStep
<1>3. CASE WalkStep
  <2>1. Walker \in Writers
    BY DEF Writers
  <2>2. CASE StartWalk \/ ListComments \/ \E copy \in todo : IngestPageComment(copy)
    BY <2>2, StartWalkStep, ListCommentsStep, IngestPageCommentStep
  <2>3. CASE WalkAncestorChain(Walker)
    BY <2>1, <2>3, WalkAncestorChainStep
  <2>4. CASE CommitPageComment \/ \E i \in tombstones : IngestPageTombstone(i)
    BY <2>4, CommitPageCommentStep, IngestPageTombstoneStep
  <2>5. CASE NextPage \/ SelectMissing \/ \E k \in missing : InferDeletion(k)
    BY <2>5, NextPageStep, SelectMissingStep, InferDeletionStep
  <2>6. CASE MarkSucceeded \/ FailWalk
    BY <2>6, MarkSucceededStep, FailWalkStep
  <2>7. QED
    BY <1>3, <2>2, <2>3, <2>4, <2>5, <2>6 DEF WalkStep, WalkGoesOn
<1>4. CASE AbortWalk
  BY <1>4, AbortWalkStep
<1>5. CASE \E k \in Keys : Settle(k)
  BY <1>5, SettleStep
<1>6. CASE PurgeStep
  BY <1>6, RetentionAdvancesStep, SelectStaleStep, PurgeThreadBatchStep DEF PurgeStep
<1>7. QED
  BY <1>1, <1>2, <1>3, <1>4, <1>5, <1>6 DEF Next

\* The rows, their writers, the walk and the purge agree with the platform in every
\* state: what every other theorem of this module rests on.
THEOREM ThreadInvHolds == Spec => []ThreadInv
<1>1. Init => ThreadInv
  BY InitEstablishes
<1>2. ThreadInv /\ [Next]_vars => ThreadInv'
  BY NextKeeps, StutterKeeps
<1>3. QED
  BY <1>1, <1>2, PTL DEF Spec

\* Every variable of ingestion, walk and purge keeps its type, for any tree of comments
\* and any number of webhook slots, edits, walks and purges.
THEOREM TypeCorrect == Spec => []TypeOK
<1>1. ThreadInv => TypeOK
  BY DEF ThreadInv
<1>2. QED
  BY <1>1, ThreadInvHolds, PTL

\* reply_count is the number of posted replies after every commit of insertOrUpdateRow,
\* runDelete and the purge, whatever order they come in.
THEOREM RepliesCountedHolds == Spec => []RepliesCounted
<1>1. ThreadInv => RepliesCounted
  <2> SUFFICES ASSUME ThreadInv, NEW k \in DOMAIN rows
               PROVE  rows[k].replies = Cardinality({c \in DOMAIN rows : rows[c].parent = k /\ Posted(c)})
    BY DEF RepliesCounted
  <2>1. {c \in DOMAIN rows : rows[c].parent = k /\ Posted(c)} = RepliesOf(rows, k)
    BY DEF RepliesOf, Posted, Has
  <2>2. QED
    BY <2>1 DEF ThreadInv, Table, Counted
<1>2. QED
  BY <1>1, ThreadInvHolds, PTL

\* The rows are the platform's tree: walkAncestorChain and persistAncestorChain leave no
\* orphan and no second root, though two writers discover one ancestor at once.
THEOREM TreeIsPlatformsHolds == Spec => []TreeIsPlatforms
<1>1. ThreadInv => TreeIsPlatforms
  <2> SUFFICES ASSUME ThreadInv, NEW k \in DOMAIN rows
               PROVE  LET row == rows[k] IN
                      /\ row.parent = ReportedParent(k)
                      /\ row.parent = NoKey => row.depth = 0 /\ row.root = NoKey
                      /\ row.parent # NoKey =>
                           /\ Has(row.parent)
                           /\ row.depth = rows[row.parent].depth + 1
                           /\ row.root = IF rows[row.parent].parent = NoKey THEN row.parent
                                         ELSE rows[row.parent].root
    BY DEF TreeIsPlatforms
  <2>1. RowsTyped(rows) /\ Rooted(rows)
    BY DEF ThreadInv, Table
  <2>2. \A p \in DOMAIN rows : rows[p].root = NoKey <=> rows[p].parent = NoKey
    BY <2>1, PlacedBelow DEF Rooted
  <2>3. rows[k].parent = ReportedParent(k) /\ Placed(rows, rows[k].parent, rows[k].root, rows[k].depth)
    BY <2>1 DEF Rooted
  <2>4. QED
    BY <2>2, <2>3 DEF Placed, RootBelow, Has
<1>2. QED
  BY <1>1, ThreadInvHolds, PTL

\* One comment.received and at most one comment.deleted for each row: the outbox appends of
\* applyNewCommentSideEffects and runDelete are made by the writer that changed the row.
THEOREM EachRowAnnouncedOnceHolds == Spec => []EachRowAnnouncedOnce
<1>1. ThreadInv => EachRowAnnouncedOnce
  BY DEF ThreadInv, Table, Sound, EachRowAnnouncedOnce
<1>2. QED
  BY <1>1, ThreadInvHolds, PTL

\* inferDeletions, tombstones and deleting webhooks mark no row the platform still lists,
\* although the pages of a walk are read at different moments.
THEOREM NoFalseDeletionHolds == Spec => []NoFalseDeletion
<1>1. ThreadInv => NoFalseDeletion
  BY DEF ThreadInv, DeletedGone, Gone, NoFalseDeletion, Has
<1>2. QED
  BY <1>1, ThreadInvHolds, PTL

\* last_activity_at of a root is no earlier than any comment of its thread.
THEOREM ActivityCoversThreadHolds == Spec => []ActivityCoversThread
<1>1. ThreadInv => ActivityCoversThread
  <2> SUFFICES ASSUME ThreadInv, NEW k \in DOMAIN rows
               PROVE  LET top == IF rows[k].root = NoKey THEN k ELSE rows[k].root IN
                      rows[top].activity >= created[k]
    BY DEF ActivityCoversThread
  <2>1. rows[k].activity >= created[k] /\ (rows[k].root # NoKey => rows[rows[k].root].activity >= created[k])
    BY DEF ThreadInv, Table, Covered
  <2>2. QED
    BY <2>1
<1>2. QED
  BY <1>1, ThreadInvHolds, PTL

\* Whatever a step does to the table, a row that is deleted and stays, stays deleted.
LEMMA DeletedStays ==
  ASSUME ThreadInv, [Next]_vars, NEW k \in DOMAIN rows, k \in DOMAIN rows',
         rows[k].status = "deleted"
  PROVE  rows'[k].status = "deleted"
<1>1. TypeOK /\ Table(rows)
  BY DEF ThreadInv
<1>2. CASE rows' = rows
  BY <1>2
<1>3. CASE Grows(rows, rows')
  BY <1>3 DEF Grows
<1>4. ASSUME NEW x, Write(RunDelete(x)) PROVE Grows(rows, rows')
  BY <1>1, <1>4, RunDeleteKeepsTable DEF Write
<1>5. ASSUME NEW w \in Writers, UpsertWrites(w) PROVE Grows(rows, rows')
  BY <1>5, UpsertWritesKeepsTable
<1>6. CASE PlatformStep
  BY <1>2, <1>6 DEF PlatformStep, WriteComment, EditComment, RemoveComment, HideComment, DropDelivery
<1>7. CASE \E s \in Slots : WebhookStep(s)
  BY <1>2, <1>3, <1>4, <1>5, <1>7 DEF WebhookStep, ProcessUpsert, ProcessDelete, WalkAncestorChain,
     CommitUpsert, FailUpsert, UpsertFails, Writers
<1>8. CASE WalkStep \/ AbortWalk
  BY <1>2, <1>3, <1>4, <1>5, <1>8 DEF WalkStep, WalkGoesOn, AbortWalk, StartWalk, ListComments,
     IngestPageComment, WalkAncestorChain, CommitPageComment, IngestPageTombstone, NextPage, SelectMissing,
     InferDeletion, MarkSucceeded, FailWalk, UpsertFails, Writers
<1>9. CASE \E x \in Keys : Settle(x)
  BY <1>1, <1>3, <1>9, SettleKeepsTable
<1>10. CASE RetentionAdvances \/ SelectStale
  BY <1>2, <1>10 DEF RetentionAdvances, SelectStale
<1>11. CASE PurgeThreadBatch
  BY <1>11 DEF PurgeThreadBatch, Write, Restrict
<1>12. CASE UNCHANGED vars
  BY <1>2, <1>12 DEF vars
<1>13. QED
  BY <1>6, <1>7, <1>8, <1>9, <1>10, <1>11, <1>12 DEF Next, PurgeStep

\* FR-030: REWRITE_WHEN and the one-way delete together; no redelivery, edit or walk
\* gives a deleted row its text back, in any interleaving.
THEOREM ErasureIsPermanentHolds == Spec => ErasureIsPermanent
<1>1. ASSUME ThreadInv, ThreadInv', [Next]_vars
      PROVE  [\A k \in DOMAIN rows :
                rows[k].status = "deleted" /\ k \in DOMAIN rows' /\ rows'[k].born = rows[k].born
                  => rows'[k].status = "deleted" /\ rows'[k].edition = Erased]_vars
  <2> SUFFICES ASSUME NEW k \in DOMAIN rows, rows[k].status = "deleted", k \in DOMAIN rows'
               PROVE  rows'[k].status = "deleted" /\ rows'[k].edition = Erased
    OBVIOUS
  <2>1. rows'[k].status = "deleted"
    BY <1>1, DeletedStays
  <2>2. \A x \in DOMAIN rows' : rows'[x].status = "deleted" => rows'[x].edition = Erased
    BY <1>1 DEF ThreadInv, Table, Sound
  <2>3. QED
    BY <2>1, <2>2
<1>2. QED
  BY <1>1, ThreadInvHolds, PTL DEF Spec, ErasureIsPermanent
===============================================================================
