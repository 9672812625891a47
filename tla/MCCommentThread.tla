---------------------------- MODULE MCCommentThread ----------------------------
(* Instances of CommentThread for TLC. *)
EXTENDS CommentThread, TLC

CONSTANTS a, b

\* A comment and a reply to it, on two pages of a walk; the reply comes first.
ThreadOfOne == a :> Post
OnePage == a :> 1
ThreadOfTwo == a :> Post @@ b :> a
ReplyFirst  == a :> 2 @@ b :> 1
===============================================================================
