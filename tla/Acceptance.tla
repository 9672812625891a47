------------------------------- MODULE Acceptance -------------------------------
(***************************************************************************)
(* What the write routes promise, without saying how: each request is      *)
(* accepted in one indivisible step or leaves nothing behind, is answered  *)
(* at most once, and the answer is true.                                   *)
(***************************************************************************)
EXTENDS Naturals, FiniteSets

CONSTANTS
  Requests,
  Plans,         \* what the requests may ask, each: [to, text, key]
  AuthorOf,      \* who wrote the comment a reply answers
  Contacts,      \* the authors whose contact counts
  Post, Self, NoKey, Errors, Nobody, None,
  ContactLimit

VARIABLES
  form,
  accepted,      \* requests whose comment is there
  failed,        \* those that publishing has given up
  holder,        \* who counted each contact
  answer         \* what each client was told: a comment, an error, nothing yet

vars == <<form, accepted, failed, holder, answer>>

IsReply(r)      == form[r].to # Post
Contact(r)      == AuthorOf[form[r].to]
NeedsContact(r) == IsReply(r) /\ Contact(r) # Self
SameKey(r, s)   == r # s /\ form[r].key # NoKey /\ form[r].key = form[s].key
SameText(r, s)  == form[r].text = form[s].text

Counted == {c \in Contacts : holder[c] # Nobody}
Full    == Cardinality(Counted) >= ContactLimit

\* A failure or no answer at all, unlike the errors that refuse a request.
Unknown == {"INTERNAL_ERROR", "dropped"}

Init ==
  /\ form \in Plans /\ accepted = {} /\ failed = {}
  /\ holder = [c \in Contacts |-> Nobody]
  /\ answer = [r \in Requests |-> None]

\* The reply counts its contact if that is new and there is room for it.
Count(r) ==
  /\ NeedsContact(r) /\ Contact(r) \in Contacts \ Counted /\ ~Full
  /\ holder' = [holder EXCEPT ![Contact(r)] = r]

\* It is to nobody, or to a contact that was counted, though a failed reply gave it back.
CountNobody(r) ==
  /\ NeedsContact(r) =>
       Contact(r) \in Counted \/ \E s \in failed : IsReply(s) /\ Contact(s) = Contact(r)
  /\ UNCHANGED holder

Accept(r) ==
  /\ answer[r] = None /\ r \notin accepted
  /\ \A s \in accepted : ~SameKey(r, s)
  /\ accepted' = accepted \cup {r}
  /\ Count(r) \/ CountNobody(r)
  /\ UNCHANGED <<form, failed, answer>>

Tell(r, a) ==
  /\ answer[r] = None /\ answer' = [answer EXCEPT ![r] = a]
  /\ UNCHANGED <<form, accepted, failed, holder>>

\* The client's own comment, or the one an earlier request with its key and text made.
Name(r, s) == s \in accepted /\ (s = r \/ (SameKey(r, s) /\ SameText(r, s))) /\ Tell(r, s)

\* Who is refused has no comment and never will; the reasons given are the real ones.
Refuse(r, error) ==
  /\ r \notin accepted
  /\ error = "QUOTA_EXCEEDED" => NeedsContact(r) /\ Contact(r) \notin Counted /\ Full
  /\ error = "IDEMPOTENCY_KEY_REUSED" => \E s \in accepted : SameKey(r, s) /\ ~SameText(r, s)
  /\ Tell(r, error)

\* The process, or its connection, dies: only then a client does not know.
Leave(lost, unknown) ==
  /\ \A r \in lost : answer[r] = None
  /\ answer' = [r \in Requests |-> IF r \in lost THEN unknown ELSE answer[r]]
  /\ UNCHANGED <<form, accepted, failed, holder>>

\* Publishing gives a comment up, and what it had counted is free again.
GiveUp(r) ==
  /\ r \in accepted \ failed /\ failed' = failed \cup {r}
  /\ holder' = [c \in Contacts |-> IF holder[c] = r THEN Nobody ELSE holder[c]]
  /\ UNCHANGED <<form, accepted, answer>>

Next ==
  \/ \E r \in Requests : Accept(r) \/ GiveUp(r)
  \/ \E r, s \in Requests : Name(r, s)
  \/ \E r \in Requests, error \in Errors \ Unknown : Refuse(r, error)
  \/ \E lost \in SUBSET Requests, unknown \in Unknown : Leave(lost, unknown)

Spec == Init /\ [][Next]_vars
===============================================================================
