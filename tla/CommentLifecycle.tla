--------------------------- MODULE CommentLifecycle ---------------------------
(***************************************************************************)
(* What the publish path promises about one customer-authored comment,     *)
(* without saying how: its status only moves along the table of            *)
(* domain/status.ts, it is `posted` only once the platform has it, and     *)
(* nothing is sent for it any more once it is settled.                     *)
(***************************************************************************)

CONSTANT Comments

VARIABLES
  status,       \* "absent" until the API accepts the comment
  onPlatform    \* the comments the platform has received

lifecycle == <<status, onPlatform>>

CommentStatuses == {"queued", "processing", "posted", "failed", "deleted"}

AllowedTransitions ==
  [queued     |-> {"processing"},
   processing |-> {"posted", "queued", "failed"},
   posted     |-> {"deleted"},
   failed     |-> {},
   deleted    |-> {}]

CanTransition(from, to) == from \in CommentStatuses /\ to \in AllowedTransitions[from]

Init == status = [c \in Comments |-> "absent"] /\ onPlatform = {}

Accept(c) ==
  /\ status[c] = "absent"
  /\ status' = [status EXCEPT ![c] = "queued"]
  /\ UNCHANGED onPlatform

Move(c, to) ==
  /\ CanTransition(status[c], to)
  /\ to = "posted" => c \in onPlatform
  /\ status' = [status EXCEPT ![c] = to]
  /\ UNCHANGED onPlatform

\* A slow attempt may send after the sweeper has put its row back to `queued`.
Send(c) ==
  /\ status[c] \in {"queued", "processing"}
  /\ onPlatform' = onPlatform \cup {c}
  /\ UNCHANGED status

Next ==
  \E c \in Comments :
    \/ Accept(c)
    \/ \E to \in CommentStatuses : Move(c, to)
    \/ Send(c)

Spec == Init /\ [][Next]_lifecycle
===============================================================================
