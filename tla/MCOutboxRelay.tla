----------------------------- MODULE MCOutboxRelay -----------------------------
(* The instance of OutboxRelay for TLC. *)
EXTENDS OutboxRelay, TLC

CONSTANTS e1, e2, p1

\* The row the queue refuses is the oldest, or between the two healthy ones.
PoisonAhead == {p1 :> 1 @@ e1 :> 2 @@ e2 :> 3, e1 :> 1 @@ p1 :> 2 @@ e2 :> 3}
===============================================================================
