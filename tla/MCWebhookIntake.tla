---------------------------- MODULE MCWebhookIntake ----------------------------
(* Instances of WebhookIntake for TLC. *)
EXTENDS WebhookIntake

CONSTANTS p, junk, e1, e2, a1, a2

\* A thin comment two workspaces share a Page for.
SharedPage == p :> << <<e1, a1>>, <<e1, a2>> >>
\* The same, and a payload that is no object.
WithJunk == SharedPage @@ junk :> << >>
FirstIsAnything ==
  {a1 :> c @@ a2 :> "ok" : c \in {"ok", "undecryptable", "revoked", "missing"}}
===============================================================================
