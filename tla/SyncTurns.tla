------------------------------- MODULE SyncTurns -------------------------------
(***************************************************************************)
(* What synchronisation promises about one target, without saying how: a   *)
(* walk is asked for, begins, ends; while one is asked for or under way no *)
(* other is, and one that was asked for is never dropped before it began.  *)
(***************************************************************************)

CONSTANT Targets

VARIABLE turn

Idle(t)  == turn[t] = "idle"

Init == turn = [t \in Targets |-> "idle"]

\* A scheduler tick asks for the walks of many targets in one transaction.
Ask(S) ==
  /\ S # {} /\ \A t \in S : Idle(t)
  /\ turn' = [t \in Targets |-> IF t \in S THEN "asked" ELSE turn[t]]

Begin(t) == turn[t] = "asked" /\ turn' = [turn EXCEPT ![t] = "walking"]

End(t) == turn[t] = "walking" /\ turn' = [turn EXCEPT ![t] = "idle"]

Next ==
  \/ \E S \in SUBSET Targets : Ask(S)
  \/ \E t \in Targets : Begin(t) \/ End(t)

Spec == Init /\ [][Next]_turn
===============================================================================
