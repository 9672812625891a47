---------------------------- MODULE MCCommentListing ----------------------------
(* Instances of AcceptComment and CommentListing for TLC. *)
EXTENDS CommentListing, TLC

CONSTANTS p, o, q, r1, r2, x, y, k, short, other, long

\* Two conversations of two contacts, and an answer in the first.
TwoThreads == p :> Post @@ o :> Post @@ q :> p
TwoAuthors == p :> x @@ o :> y @@ q :> x

Ask(to, text, key) == [to |-> to, text |-> text, key |-> key]
Both(f, g) == r1 :> f @@ r2 :> g
Reply == Ask(p, short, NoKey)
Keyed == Ask(p, short, k)
\* A retry; its key for another text, for another place; the same and another contact;
\* what no platform takes; the account's own comment.
Everything ==
  {Both(Keyed, f) : f \in {Keyed, Ask(p, other, k), Ask(Post, short, k)}} \cup
  {Both(Reply, f) : f \in {Reply, Ask(o, short, NoKey), Ask(q, short, NoKey)}} \cup
  {Both(Ask(p, long, NoKey), Ask(Post, short, NoKey))}
Contacting == {Both(Reply, Ask(o, short, NoKey))}

\* The top-level comments, and the account's own replies to one of them.
Filters == {[parent |-> Unfiltered, topLevelOnly |-> TRUE, own |-> Unfiltered],
            [parent |-> p, topLevelOnly |-> FALSE, own |-> TRUE]}
NoFilter == {[parent |-> Unfiltered, topLevelOnly |-> FALSE, own |-> Unfiltered]}
IdOrder == p :> 2 @@ o :> 1 @@ q :> 5 @@ r1 :> 3 @@ r2 :> 4
===============================================================================
