--------------------------- MODULE MCPublishComment ---------------------------
(* Instances of PublishComment for TLC. *)
EXTENDS PublishComment, TLC

CONSTANTS c1, c2, w1, w2

\* Replies that differ in text.
DistinctTexts == [c \in Comments |-> c]

WorkerSymmetry == Permutations(Workers)
===============================================================================
