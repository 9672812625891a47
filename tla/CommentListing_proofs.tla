--------------------------- MODULE CommentListing_proofs --------------------------
(***************************************************************************)
(* For any requests, comments, contacts, limit, pool and faults: a comment *)
(* is accepted as a whole, one key names one comment, and the contacts of  *)
(* a month stay within the limit.  The argument is what each handler knows *)
(* where it stands, and that two handlers never stand together behind one  *)
(* key or behind the quota's lock.  With it the handlers never all wait    *)
(* for each other, implement Acceptance, and leave the listing's clients   *)
(* exact pages.                                                            *)
(***************************************************************************)
EXTENDS CommentListing, FiniteSetTheorems, TLAPS

\* What a handler has established by the time it is where it is.
HandlerTruth(r) ==
  /\ pc[r] \notin {"enqueue", "done"} => rows[r] = NoRow
  /\ pc[r] = "enqueue" => rows[r] # NoRow
  /\ pc[r] \notin {"idle", "load", "enqueue", "done"} => DepthAllowed(r)
  /\ pc[r] = "bump" => IsReply(r)
  /\ pc[r] \in {"reserve", "limit"} => NeedsContact(r)
  /\ pc[r] \in {"reserve", "limit", "commit"} /\ NeedsContact(r) => Contact(r) # Anonymous
  /\ spends[r] => pc[r] \in {"commit", "enqueue", "done"} /\ NeedsContact(r)
  /\ pc[r] = "commit" /\ NeedsContact(r) /\ ~spends[r] => Accounted(r)

HandlersKnow == \A r \in Requests : HandlerTruth(r)

\* Nobody else is behind the quota's lock.
QuotaExclusive == \A r, s \in Requests : HoldsQuota(r) /\ HoldsQuota(s) => r = s

\* Whoever is about to spend was told there is room, and there still is.
LimitAhead ==
  \A r \in Requests : pc[r] = "commit" /\ spends[r] => Cardinality(Counted) < ContactLimit

\* Nobody else is behind a key, and none of its comments is there yet.
KeysExclusive ==
  \A r, s \in Requests : HoldsKey(r) /\ SameKey(r, s) => ~HoldsKey(s) /\ rows[s] = NoRow

KeysUnique == \A r, s \in Requests : SameKey(r, s) => rows[r] = NoRow \/ rows[s] = NoRow

\* A comment a client was given is there, under the client's key.
AnswersStand ==
  \A r \in Requests : answer[r] \in Requests =>
    rows[answer[r]] # NoRow /\ (answer[r] = r \/ SameKey(r, answer[r]))

ParentsKept == \A c \in Existing : rows[c].parent = ParentOf[c]

\* A contact is counted for a reply to it.
UsersCounted == \A c \in Counted : IsReply(usage[c]) /\ Contact(usage[c]) = c

Coordination ==
  /\ HandlersKnow /\ QuotaExclusive /\ LimitAhead /\ KeysExclusive /\ KeysUnique
  /\ AnswersStand /\ ParentsKept /\ UsersCounted

AcceptInv == TypeOK /\ Coordination /\ LimitKept /\ AcceptedWhole

-------------------------------------------------------------------------------
(* Facts about the constants and the types. *)

LEMMA FormTypes ==
  ASSUME TypeOK, NEW r \in Requests
  PROVE  /\ form[r].to \in Existing \cup {Post}
         /\ r \in Ids /\ r \notin Existing /\ r # Post /\ form[r].to # r
         /\ IsReply(r) <=> form[r].to \in Existing
  BY AcceptAssumption DEF TypeOK, Ids, IsReply

LEMMA ContactTypes ==
  ASSUME TypeOK, NEW r \in Requests, NeedsContact(r), Contact(r) # Anonymous
  PROVE  Contact(r) \in Contacts
<1>1. form[r].to \in Existing
  BY FormTypes DEF NeedsContact
<1>2. QED
  BY <1>1 DEF NeedsContact, Contact, Contacts

LEMMA ContactsFinite == IsFiniteSet(Contacts) /\ IsFiniteSet(Ids)
<1>1. IsFiniteSet({AuthorOf[c] : c \in Existing})
  <2>1. IsFiniteSet(Existing)
    BY AcceptAssumption
  <2> DEFINE f == [c \in Existing |-> AuthorOf[c]]
  <2>2. f \in Surjection(Existing, {AuthorOf[c] : c \in Existing})
    BY DEF Surjection
  <2>3. QED
    BY <2>1, <2>2, FS_Surjection
<1>2. IsFiniteSet(Contacts)
  BY <1>1, FS_Subset DEF Contacts
<1>3. IsFiniteSet(Ids)
  BY AcceptAssumption, FS_Union DEF Ids
<1>4. QED
  BY <1>2, <1>3

LEMMA CountedFinite == IsFiniteSet(Counted) /\ Cardinality(Counted) \in Nat
<1>1. Counted \in SUBSET Contacts
  BY DEF Counted
<1>2. QED
  BY <1>1, ContactsFinite, FS_Subset, FS_CardinalityType

-------------------------------------------------------------------------------
(* The initial state. *)

LEMMA InitInv == Init => AcceptInv
<1> SUFFICES ASSUME Init PROVE AcceptInv
  OBVIOUS
<1>1. \A i \in Existing : rows[i] = [parent |-> ParentOf[i],
         depth |-> IF ParentOf[i] = Post THEN 0 ELSE 1, at |-> 0, status |-> "posted",
         replies |-> Cardinality({c \in Existing : ParentOf[c] = i})]
  BY AcceptAssumption DEF Init, Ids
<1>2. \A i \in Existing : rows[i] \in Comment
  <2> SUFFICES ASSUME NEW i \in Existing PROVE rows[i] \in Comment
    OBVIOUS
  <2>1. Cardinality({c \in Existing : ParentOf[c] = i}) \in Nat
    <3>1. {c \in Existing : ParentOf[c] = i} \in SUBSET Existing
      OBVIOUS
    <3>2. QED
      BY <3>1, AcceptAssumption, FS_Subset, FS_CardinalityType
  <2>2. (IF ParentOf[i] = Post THEN 0 ELSE 1) \in 0..MaxReplyDepth
    BY AcceptAssumption
  <2>3. ParentOf[i] \in Existing \cup {Post} /\ 0 \in 0..MaxTime
    BY AcceptAssumption
  <2>4. \A pa \in Existing \cup {Post}, d \in 0..MaxReplyDepth, n \in Nat :
          [parent |-> pa, depth |-> d, at |-> 0, status |-> "posted", replies |-> n] \in Comment
    BY <2>3 DEF Comment
  <2>5. QED
    BY <1>1, <2>1, <2>2, <2>3, <2>4
<1>3. \A r \in Requests : rows[r] = NoRow
  BY AcceptAssumption DEF Init, Ids
<1>4. TypeOK
  <2>1. rows \in [Ids -> Comment \cup {NoRow}]
    BY <1>2, <1>3 DEF Init, Ids
  <2>2. Existing \subseteq Committed
    BY <1>2, AcceptAssumption DEF Committed, Ids
  <2>3. QED
    BY <2>1, <2>2, AcceptAssumption DEF Init, TypeOK
<1>5. Committed = Existing /\ Counted = {}
  BY <1>2, <1>3, AcceptAssumption DEF Committed, Ids, Counted, Init
<1>6. \A i \in Existing : /\ rows[i].parent = ParentOf[i] /\ rows[i].status = "posted"
                          /\ rows[i].replies = Cardinality({c \in Existing : ParentOf[c] = i})
  <2> SUFFICES ASSUME NEW i \in Existing
               PROVE  /\ rows[i].parent = ParentOf[i] /\ rows[i].status = "posted"
                      /\ rows[i].replies = Cardinality({c \in Existing : ParentOf[c] = i})
    OBVIOUS
  <2> DEFINE answers == Cardinality({c \in Existing : ParentOf[c] = i})
             depth   == IF ParentOf[i] = Post THEN 0 ELSE 1
  <2>1. rows[i] = [parent |-> ParentOf[i], depth |-> depth, at |-> 0, status |-> "posted",
                   replies |-> answers]
    BY <1>1
  <2> HIDE DEF answers, depth
  <2>2. rows[i].parent = ParentOf[i] /\ rows[i].status = "posted" /\ rows[i].replies = answers
    BY <2>1
  <2>3. QED
    BY <2>2 DEF answers
<1>7. LimitKept
  BY <1>5, FS_EmptySet, AcceptAssumption DEF LimitKept
<1>8. Coordination
  <2>1. HandlersKnow
    BY <1>3 DEF Init, HandlersKnow, HandlerTruth
  <2>2. QuotaExclusive /\ LimitAhead /\ KeysExclusive
    BY DEF Init, QuotaExclusive, HoldsQuota, LimitAhead, KeysExclusive, HoldsKey
  <2>3. AnswersStand
    BY AcceptAssumption DEF Init, AnswersStand
  <2>4. KeysUnique /\ ParentsKept /\ UsersCounted
    BY <1>6, <1>3, <1>5 DEF KeysUnique, ParentsKept, UsersCounted
  <2>5. QED
    BY <2>1, <2>2, <2>3, <2>4 DEF Coordination
<1>9. AcceptedWhole
  <2>1. \A c \in Existing : RepliesOf(c) = {i \in Existing : ParentOf[i] = c}
    BY <1>6, <1>5 DEF RepliesOf
  <2>2. \A c \in Existing : rows[c].replies = Cardinality(RepliesOf(c))
    BY <1>6, <2>1
  <2>3. jobs = {}
    BY DEF Init
  <2>4. QED
    BY <1>3, <1>5, <2>2, <2>3 DEF AcceptedWhole
<1>10. QED
  BY <1>4, <1>7, <1>8, <1>9 DEF AcceptInv

-------------------------------------------------------------------------------
(* A step of one handler that commits nothing. *)

\* What does not look at where the handlers are.
LEMMA TablesKept ==
  ASSUME UNCHANGED <<form, rows, usage>>
  PROVE  /\ \A s \in Requests :
              /\ IsReply(s)' = IsReply(s) /\ Contact(s)' = Contact(s)
              /\ NeedsContact(s)' = NeedsContact(s) /\ Accounted(s)' = Accounted(s)
              /\ DepthAllowed(s)' = DepthAllowed(s)
              /\ \A t \in Requests : SameKey(s, t)' = SameKey(s, t)
         /\ Counted' = Counted /\ Committed' = Committed
         /\ \A c : RepliesOf(c)' = RepliesOf(c)
<1>1. Counted' = Counted /\ Committed' = Committed
  BY DEF Counted, Committed
<1>2. \A c : RepliesOf(c)' = RepliesOf(c)
  BY <1>1 DEF RepliesOf
<1>3. ASSUME NEW s \in Requests
      PROVE  /\ IsReply(s)' = IsReply(s) /\ Contact(s)' = Contact(s)
             /\ NeedsContact(s)' = NeedsContact(s) /\ Accounted(s)' = Accounted(s)
             /\ DepthAllowed(s)' = DepthAllowed(s)
             /\ \A t \in Requests : SameKey(s, t)' = SameKey(s, t)
  <2>1. \A t : IsReply(t)' = IsReply(t) /\ Contact(t)' = Contact(t)
    BY DEF IsReply, Contact
  <2>2. NeedsContact(s)' = NeedsContact(s)
    BY <2>1 DEF NeedsContact
  <2>3. Accounted(s)' = Accounted(s)
    BY <1>1, <2>1 DEF Accounted
  <2>4. DepthAllowed(s)' = DepthAllowed(s)
    BY DEF DepthAllowed, Depth
  <2>5. \A t \in Requests : SameKey(s, t)' = SameKey(s, t)
    BY DEF SameKey
  <2>6. QED
    BY <2>1, <2>2, <2>3, <2>4, <2>5
<1>4. QED
  BY <1>1, <1>2, <1>3

LEMMA HandlerMoves ==
  ASSUME AcceptInv, TypeOK', NEW r \in Requests, NEW next,
         UNCHANGED <<form, rows, usage>>,
         \A j \in jobs' : j \in jobs \/ rows[j] # NoRow,
         pc' = [pc EXCEPT ![r] = next],
         \A s \in Requests \ {r} : spends'[s] = spends[s] /\ answer'[s] = answer[s],
         HandlerTruth(r)',
         HoldsQuota(r)' => \A s \in Requests \ {r} : ~HoldsQuota(s),
         HoldsKey(r)' => \A s \in Requests : SameKey(r, s) => ~HoldsKey(s) /\ rows[s] = NoRow,
         next = "commit" /\ spends'[r] => Cardinality(Counted) < ContactLimit,
         answer'[r] \in Requests =>
           rows[answer'[r]] # NoRow /\ (answer'[r] = r \/ SameKey(r, answer'[r]))
  PROVE  AcceptInv'
<1>1. /\ \A s \in Requests \ {r} : pc'[s] = pc[s]
      /\ pc'[r] = next
  BY DEF AcceptInv, TypeOK
<1>2. /\ \A s \in Requests :
           /\ IsReply(s)' = IsReply(s) /\ Contact(s)' = Contact(s)
           /\ NeedsContact(s)' = NeedsContact(s) /\ Accounted(s)' = Accounted(s)
           /\ DepthAllowed(s)' = DepthAllowed(s)
           /\ \A t \in Requests : SameKey(s, t)' = SameKey(s, t)
      /\ Counted' = Counted
      /\ \A c : RepliesOf(c)' = RepliesOf(c)
  BY TablesKept
<1>3. HandlersKnow'
  <2>1. ASSUME NEW s \in Requests \ {r} PROVE HandlerTruth(s)'
    <3>1. HandlerTruth(s)
      BY DEF AcceptInv, Coordination, HandlersKnow
    <3>2. s \in Requests /\ pc'[s] = pc[s] /\ spends'[s] = spends[s] /\ rows'[s] = rows[s]
      BY <1>1
    <3>3. QED
      BY <3>1, <3>2, <1>2 DEF HandlerTruth
  <2>2. QED
    BY <2>1 DEF HandlersKnow
<1>4. \A s \in Requests \ {r} : HoldsQuota(s)' = HoldsQuota(s) /\ HoldsKey(s)' = HoldsKey(s)
  BY <1>1, <1>2 DEF HoldsQuota, HoldsKey
<1>5. QuotaExclusive'
  BY <1>4 DEF AcceptInv, Coordination, QuotaExclusive
<1>6. LimitAhead'
  BY <1>1, <1>2 DEF AcceptInv, Coordination, LimitAhead
<1>7. KeysExclusive'
  <2>1. SUFFICES ASSUME NEW s \in Requests, NEW t \in Requests, HoldsKey(s)', SameKey(s, t)
                 PROVE  ~HoldsKey(t)' /\ rows[t] = NoRow
    BY <1>2 DEF KeysExclusive
  <2>2. s # t /\ SameKey(t, s)
    BY <2>1 DEF SameKey
  <2>3. CASE s = r
    BY <2>1, <2>2, <2>3, <1>4
  <2>4. CASE s # r
    <3>1. ~HoldsKey(t) /\ rows[t] = NoRow
      BY <2>1, <2>4, <1>4 DEF AcceptInv, Coordination, KeysExclusive
    <3>2. t = r => ~HoldsKey(r)'
      BY <2>1, <2>2, <2>4, <1>4
    <3>3. QED
      BY <3>1, <3>2, <1>4
  <2>5. QED
    BY <2>3, <2>4
<1>8. KeysUnique' /\ ParentsKept' /\ UsersCounted'
  <2>1. KeysUnique'
    BY <1>2 DEF AcceptInv, Coordination, KeysUnique
  <2>2. ParentsKept'
    BY DEF AcceptInv, Coordination, ParentsKept
  <2>3. UsersCounted'
    <3>1. \A c \in Counted : usage[c] \in Requests
      BY DEF AcceptInv, TypeOK, Counted
    <3>2. QED
      BY <3>1, <1>2 DEF AcceptInv, Coordination, UsersCounted
  <2>4. QED
    BY <2>1, <2>2, <2>3
<1>9. AnswersStand'
  BY <1>2 DEF AcceptInv, Coordination, AnswersStand
<1>10. LimitKept'
  BY <1>2 DEF AcceptInv, LimitKept
<1>11. AcceptedWhole'
  BY <1>2 DEF AcceptInv, AcceptedWhole
<1>12. QED
  BY <1>3, <1>5, <1>6, <1>7, <1>8, <1>9, <1>10, <1>11 DEF AcceptInv, Coordination

-------------------------------------------------------------------------------
(* The handlers' steps. *)

Stages == {"idle", "load", "account", "lookup", "begin", "insert", "bump",
           "reserve", "limit", "commit", "enqueue", "conflict", "done"}

\* A handler that gives up, or names the comment of an earlier request.
LEMMA AnswerStep ==
  ASSUME AcceptInv, NEW r \in Requests, NEW a, HandlerOnly, Answer(r, a),
         a \in Errors \/ a \in Winner(r)
  PROVE  AcceptInv'
<1>1. TypeOK'
  BY DEF AcceptInv, TypeOK, HandlerOnly, Answer, Go, tableVars, Winner, Committed
<1>2. pc' = [pc EXCEPT ![r] = "done"] /\ answer' = [answer EXCEPT ![r] = a]
      /\ UNCHANGED <<form, rows, usage, spends, jobs>>
  BY DEF Answer, Go, HandlerOnly, tableVars
<1>3. pc'[r] = "done" /\ answer'[r] = a /\ \A s \in Requests \ {r} : answer'[s] = answer[s]
  BY <1>2 DEF AcceptInv, TypeOK
<1>4. HandlerTruth(r)'
  <2>1. HandlerTruth(r) /\ NeedsContact(r)' = NeedsContact(r)
    BY <1>2, TablesKept DEF AcceptInv, Coordination, HandlersKnow
  <2>2. QED
    BY <1>2, <1>3, <2>1 DEF HandlerTruth
<1>5. a \in Requests => rows[a] # NoRow /\ SameKey(r, a)
  BY AcceptAssumption DEF Winner
<1>6. ~HoldsQuota(r)' /\ ~HoldsKey(r)'
  BY <1>3 DEF HoldsQuota, HoldsKey
<1>7. QED
  BY <1>1, <1>2, <1>3, <1>4, <1>5, <1>6, HandlerMoves

\* A handler that goes on, neither into the quota's lock nor behind a key.
LEMMA ProceedStep ==
  ASSUME AcceptInv, NEW r \in Requests, NEW next \in Stages, HandlerOnly, Proceed(r, next),
         HandlerTruth(r)', next # "commit" \/ ~spends[r],
         HoldsQuota(r)' => \A s \in Requests \ {r} : ~HoldsQuota(s),
         HoldsKey(r)' => \A s \in Requests : SameKey(r, s) => ~HoldsKey(s) /\ rows[s] = NoRow
  PROVE  AcceptInv'
<1>1. TypeOK'
  BY DEF AcceptInv, TypeOK, HandlerOnly, Proceed, Go, tableVars, Stages, Committed
<1>2. pc' = [pc EXCEPT ![r] = next] /\ UNCHANGED <<form, rows, usage, spends, jobs, answer>>
  BY DEF Proceed, Go, HandlerOnly, tableVars
<1>3. answer[r] \in Requests =>
        rows[answer[r]] # NoRow /\ (answer[r] = r \/ SameKey(r, answer[r]))
  BY DEF AcceptInv, Coordination, AnswersStand
<1>4. QED
  BY <1>1, <1>2, <1>3, HandlerMoves

\* What a handler knows stays known when it goes on to a stage that claims no more.
LEMMA TruthKept ==
  ASSUME AcceptInv, NEW r \in Requests, NEW next \in Stages \ {"enqueue", "done"},
         UNCHANGED <<form, rows, usage, spends>>, pc' = [pc EXCEPT ![r] = next],
         pc[r] \notin {"commit", "enqueue", "done"},
         next \notin {"idle", "load"} => DepthAllowed(r),
         next = "bump" => IsReply(r),
         next \in {"reserve", "limit"} => NeedsContact(r),
         next \in {"reserve", "limit", "commit"} /\ NeedsContact(r) => Contact(r) # Anonymous,
         next = "commit" /\ NeedsContact(r) => Accounted(r)
  PROVE  HandlerTruth(r)' /\ ~spends[r]
<1>1. pc'[r] = next /\ spends[r] \in BOOLEAN
  BY DEF AcceptInv, TypeOK
<1>2. HandlerTruth(r)
  BY DEF AcceptInv, Coordination, HandlersKnow
<1>3. /\ IsReply(r)' = IsReply(r) /\ Contact(r)' = Contact(r)
      /\ NeedsContact(r)' = NeedsContact(r) /\ Accounted(r)' = Accounted(r)
      /\ DepthAllowed(r)' = DepthAllowed(r)
  BY TablesKept
<1>4. rows[r] = NoRow /\ ~spends[r]
  BY <1>2 DEF HandlerTruth
<1>5. QED
  BY <1>1, <1>3, <1>4 DEF HandlerTruth

\* Reading, before anything is held.
LEMMA BeforeTheTransaction ==
  ASSUME AcceptInv, NEW r \in Requests, NEW next \in {"load", "account", "lookup", "begin", "conflict", "insert"},
         HandlerOnly, Proceed(r, next),
         pc[r] \in {"idle", "load", "account", "lookup", "begin", "insert"},
         next # "load" => DepthAllowed(r)
  PROVE  AcceptInv'
<1>1. pc' = [pc EXCEPT ![r] = next] /\ UNCHANGED <<form, rows, usage, spends>>
  BY DEF Proceed, Go, HandlerOnly, tableVars
<1>2. next \in Stages \ {"enqueue", "done"} /\ next \notin {"bump", "reserve", "limit", "commit"}
  BY DEF Stages
<1>3. HandlerTruth(r)'
  BY <1>1, <1>2, TruthKept
<1>4. pc'[r] = next
  BY <1>1 DEF AcceptInv, TypeOK
<1>5. ~HoldsQuota(r)' /\ ~HoldsKey(r)'
  BY <1>2, <1>4 DEF HoldsQuota, HoldsKey
<1>6. QED
  BY <1>2, <1>3, <1>5, ProceedStep

LEMMA ArriveInv == ASSUME AcceptInv, NEW r \in Requests, Arrive(r) PROVE AcceptInv'
  BY BeforeTheTransaction DEF Arrive

LEMMA LoadTargetInv == ASSUME AcceptInv, NEW r \in Requests, LoadTarget(r) PROVE AcceptInv'
<1>1. pc[r] = "load" /\ HandlerOnly
  BY DEF LoadTarget
<1>2. \/ \E a \in Errors : Answer(r, a)
      \/ DepthAllowed(r) /\ Proceed(r, "account")
  BY DEF LoadTarget, Errors
<1>3. QED
  BY <1>1, <1>2, AnswerStep, BeforeTheTransaction

LEMMA CheckAccountInv == ASSUME AcceptInv, NEW r \in Requests, CheckAccount(r) PROVE AcceptInv'
<1>1. pc[r] = "account" /\ HandlerOnly
  BY DEF CheckAccount
<1>2. (\E a \in Errors : Answer(r, a)) \/ Proceed(r, "lookup")
  BY DEF CheckAccount, Errors
<1>3. DepthAllowed(r)
  BY <1>1 DEF AcceptInv, Coordination, HandlersKnow, HandlerTruth
<1>4. QED
  BY <1>1, <1>2, <1>3, AnswerStep, BeforeTheTransaction

LEMMA ResolveIdempotencyInv ==
  ASSUME AcceptInv, NEW r \in Requests, ResolveIdempotency(r) PROVE AcceptInv'
<1>1. pc[r] = "lookup" /\ HandlerOnly
  BY DEF ResolveIdempotency
<1>2. (\E a \in Errors \cup Winner(r) : Answer(r, a)) \/ Proceed(r, "begin")
  BY DEF ResolveIdempotency, AnswerWinner, Errors
<1>3. DepthAllowed(r)
  BY <1>1 DEF AcceptInv, Coordination, HandlersKnow, HandlerTruth
<1>4. QED
  BY <1>1, <1>2, <1>3, AnswerStep, BeforeTheTransaction

LEMMA ResolveConflictInv ==
  ASSUME AcceptInv, NEW r \in Requests, ResolveIdempotencyConflict(r) PROVE AcceptInv'
<1>1. HandlerOnly /\ \E a \in Errors \cup Winner(r) : Answer(r, a)
  BY DEF ResolveIdempotencyConflict, AnswerWinner, Errors
<1>2. QED
  BY <1>1, AnswerStep

LEMMA BeginTransactionInv ==
  ASSUME AcceptInv, NEW r \in Requests, BeginTransaction(r) PROVE AcceptInv'
<1>1. /\ pc[r] = "begin" /\ pc' = [pc EXCEPT ![r] = "insert"]
      /\ UNCHANGED <<form, rows, usage, spends, jobs, answer>>
  BY DEF BeginTransaction, Proceed, Go, tableVars
<1>2. TypeOK'
  BY DEF AcceptInv, TypeOK, BeginTransaction, Proceed, Go, tableVars, Committed
<1>3. DepthAllowed(r)
  BY <1>1 DEF AcceptInv, Coordination, HandlersKnow, HandlerTruth
<1>4. HandlerTruth(r)'
  BY <1>1, <1>3, TruthKept DEF Stages
<1>5. pc'[r] = "insert"
  BY <1>1 DEF AcceptInv, TypeOK
<1>6. ~HoldsQuota(r)' /\ ~HoldsKey(r)'
  BY <1>5 DEF HoldsQuota, HoldsKey
<1>7. answer[r] \in Requests =>
        rows[answer[r]] # NoRow /\ (answer[r] = r \/ SameKey(r, answer[r]))
  BY DEF AcceptInv, Coordination, AnswersStand
<1>8. QED
  BY <1>1, <1>2, <1>4, <1>6, <1>7, HandlerMoves

LEMMA InsertQueuedInv == ASSUME AcceptInv, NEW r \in Requests, InsertQueued(r) PROVE AcceptInv'
<1>1. pc[r] = "insert" /\ HandlerOnly
  BY DEF InsertQueued
<1>2. DepthAllowed(r)
  BY <1>1 DEF AcceptInv, Coordination, HandlersKnow, HandlerTruth
<1>3. CASE Winner(r) # {}
  BY <1>1, <1>2, <1>3, BeforeTheTransaction DEF InsertQueued
<1>4. CASE Winner(r) = {}
  <2>1. PICK next \in {"bump", "commit"} : Proceed(r, next) /\ (next = "bump" <=> IsReply(r))
    BY <1>4 DEF InsertQueued
  <2>2. pc' = [pc EXCEPT ![r] = next] /\ UNCHANGED <<form, rows, usage, spends>>
    BY <1>1, <2>1 DEF Proceed, Go, HandlerOnly, tableVars
  <2>3. next = "commit" => ~NeedsContact(r)
    BY <2>1 DEF NeedsContact
  <2>4. HandlerTruth(r)' /\ ~spends[r]
    BY <1>1, <1>2, <2>1, <2>2, <2>3, TruthKept DEF Stages
  <2>5. pc'[r] = next /\ NeedsContact(r)' = NeedsContact(r)
    BY <2>2, TablesKept DEF AcceptInv, TypeOK
  <2>6. ~HoldsQuota(r)'
    BY <2>3, <2>5 DEF HoldsQuota
  <2>7. \A s \in Requests : SameKey(r, s) => ~HoldsKey(s) /\ rows[s] = NoRow
    BY <1>4 DEF InsertQueued, Winner
  <2>8. next \in Stages
    BY DEF Stages
  <2>9. QED
    BY <1>1, <2>1, <2>4, <2>6, <2>7, <2>8, ProceedStep
<1>5. QED
  BY <1>3, <1>4

\* Behind its key a handler stays alone.
LEMMA KeyKept ==
  ASSUME AcceptInv, NEW r \in Requests, pc[r] \in {"bump", "reserve", "limit", "commit"}
  PROVE  \A s \in Requests : SameKey(r, s) => ~HoldsKey(s) /\ rows[s] = NoRow
  BY DEF AcceptInv, Coordination, KeysExclusive, HoldsKey

LEMMA BumpInv == ASSUME AcceptInv, NEW r \in Requests, BumpParentAndRoot(r) PROVE AcceptInv'
<1>1. pc[r] = "bump" /\ HandlerOnly
  BY DEF BumpParentAndRoot
<1>2. DepthAllowed(r) /\ IsReply(r)
  BY <1>1 DEF AcceptInv, Coordination, HandlersKnow, HandlerTruth
<1>3. CASE NeedsContact(r) /\ Contact(r) = Anonymous
  BY <1>1, <1>3, AnswerStep DEF BumpParentAndRoot, Errors
<1>4. CASE ~(NeedsContact(r) /\ Contact(r) = Anonymous)
  <2>1. PICK next \in {"reserve", "commit"} :
          Proceed(r, next) /\ (next = "reserve" <=> NeedsContact(r))
    BY <1>4 DEF BumpParentAndRoot
  <2>2. pc' = [pc EXCEPT ![r] = next] /\ UNCHANGED <<form, rows, usage, spends>>
    BY <1>1, <2>1 DEF Proceed, Go, HandlerOnly, tableVars
  <2>3. HandlerTruth(r)' /\ ~spends[r]
    BY <1>1, <1>2, <1>4, <2>1, <2>2, TruthKept DEF Stages
  <2>4. pc'[r] = next /\ NeedsContact(r)' = NeedsContact(r)
    BY <2>2, TablesKept DEF AcceptInv, TypeOK
  <2>5. ~HoldsQuota(r)'
    BY <2>1, <2>4 DEF HoldsQuota
  <2>6. next \in Stages
    BY DEF Stages
  <2>7. QED
    BY <1>1, <2>1, <2>3, <2>5, <2>6, KeyKept, ProceedStep
<1>5. QED
  BY <1>3, <1>4

LEMMA ReserveInv == ASSUME AcceptInv, NEW r \in Requests, Reserve(r) PROVE AcceptInv'
<1>1. pc[r] = "reserve" /\ HandlerOnly
  BY DEF Reserve
<1>2. DepthAllowed(r) /\ NeedsContact(r) /\ Contact(r) # Anonymous
  BY <1>1 DEF AcceptInv, Coordination, HandlersKnow, HandlerTruth
<1>3. PICK next \in {"limit", "commit"} :
        Proceed(r, next) /\ (next = "commit" => usage[Contact(r)] # Nobody)
  BY DEF Reserve
<1>4. pc' = [pc EXCEPT ![r] = next] /\ UNCHANGED <<form, rows, usage, spends>>
  BY <1>1, <1>3 DEF Proceed, Go, HandlerOnly, tableVars
<1>5. next = "commit" => Accounted(r)
  BY <1>2, <1>3, ContactTypes DEF Accounted, Counted, AcceptInv
<1>6. HandlerTruth(r)' /\ ~spends[r]
  BY <1>1, <1>2, <1>3, <1>4, <1>5, TruthKept DEF Stages
<1>7. \A s \in Requests : ~HoldsQuota(s)
  BY DEF Reserve
<1>8. next \in Stages
  BY DEF Stages
<1>9. QED
  BY <1>1, <1>3, <1>6, <1>7, <1>8, KeyKept, ProceedStep

LEMMA CheckLimitInv == ASSUME AcceptInv, NEW r \in Requests, CheckLimit(r) PROVE AcceptInv'
<1>1. pc[r] = "limit" /\ UNCHANGED <<form, at, tableVars, jobs, active, now, changes>>
  BY DEF CheckLimit
<1>2. /\ DepthAllowed(r) /\ NeedsContact(r) /\ Contact(r) # Anonymous
      /\ rows[r] = NoRow /\ spends[r] \in BOOLEAN
  BY <1>1 DEF AcceptInv, Coordination, HandlersKnow, HandlerTruth, TypeOK
<1>3. CASE Cardinality(Counted) >= ContactLimit
  BY <1>1, <1>3, AnswerStep DEF CheckLimit, Errors, HandlerOnly
<1>4. CASE ~(Cardinality(Counted) >= ContactLimit)
  <2>1. /\ pc' = [pc EXCEPT ![r] = "commit"] /\ spends' = [spends EXCEPT ![r] = TRUE]
        /\ UNCHANGED <<form, at, rows, usage, jobs, active, now, changes, answer>>
    BY <1>4 DEF CheckLimit, Proceed, Go, tableVars
  <2>2. TypeOK'
    BY <2>1 DEF AcceptInv, TypeOK, Committed
  <2>3. /\ pc'[r] = "commit" /\ spends'[r] = TRUE
        /\ \A s \in Requests \ {r} : spends'[s] = spends[s]
    BY <2>1 DEF AcceptInv, TypeOK
  <2>4. HandlerTruth(r)'
    <3>1. NeedsContact(r)' = NeedsContact(r) /\ DepthAllowed(r)' = DepthAllowed(r)
          /\ Contact(r)' = Contact(r)
      BY <2>1, TablesKept
    <3>2. QED
      BY <1>2, <2>1, <2>3, <3>1 DEF HandlerTruth
  <2>5. \A s \in Requests \ {r} : ~HoldsQuota(s)
    BY <1>1 DEF AcceptInv, Coordination, QuotaExclusive, HoldsQuota
  <2>6. Cardinality(Counted) < ContactLimit
    BY <1>4, CountedFinite, AcceptAssumption
  <2>7. \A s \in Requests : SameKey(r, s) => ~HoldsKey(s) /\ rows[s] = NoRow
    BY <1>1, KeyKept
  <2>8. answer[r] \in Requests =>
          rows[answer[r]] # NoRow /\ (answer[r] = r \/ SameKey(r, answer[r]))
    BY DEF AcceptInv, Coordination, AnswersStand
  <2>9. QED
    BY <2>1, <2>2, <2>3, <2>4, <2>5, <2>6, <2>7, <2>8, HandlerMoves
<1>5. QED
  BY <1>3, <1>4

LEMMA EnqueueInv == ASSUME AcceptInv, NEW r \in Requests, EnqueuePublish(r) PROVE AcceptInv'
<1>1. /\ pc[r] = "enqueue" /\ pc' = [pc EXCEPT ![r] = "done"]
      /\ answer' = [answer EXCEPT ![r] = r]
      /\ UNCHANGED <<form, at, spends, rows, usage, active, now>>
      /\ jobs' \subseteq jobs \cup {r}
  BY DEF EnqueuePublish, Answer, Go, tableVars
<1>2. changes' \in 0..MaxChanges
  BY AcceptAssumption DEF EnqueuePublish, Change, AcceptInv, TypeOK
<1>3. TypeOK'
  BY <1>1, <1>2 DEF AcceptInv, TypeOK, Committed
<1>4. /\ pc'[r] = "done" /\ answer'[r] = r /\ rows[r] # NoRow
      /\ \A s \in Requests \ {r} : answer'[s] = answer[s]
  BY <1>1 DEF AcceptInv, TypeOK, Coordination, HandlersKnow, HandlerTruth
<1>5. HandlerTruth(r)'
  <2>1. HandlerTruth(r) /\ NeedsContact(r)' = NeedsContact(r)
    BY <1>1, TablesKept DEF AcceptInv, Coordination, HandlersKnow
  <2>2. QED
    BY <1>1, <1>4, <2>1 DEF HandlerTruth
<1>6. ~HoldsQuota(r)' /\ ~HoldsKey(r)'
  BY <1>4 DEF HoldsQuota, HoldsKey
<1>7. QED
  BY <1>1, <1>3, <1>4, <1>5, <1>6, HandlerMoves

-------------------------------------------------------------------------------
(* Everybody else. *)

\* Handlers that stop where they are, and the clock and the account around them.
LEMMA HandlersStop ==
  ASSUME AcceptInv, TypeOK', UNCHANGED <<form, rows, usage, spends, jobs>>,
         \A s \in Requests : \/ pc'[s] = pc[s] /\ answer'[s] = answer[s]
                             \/ pc'[s] = "done" /\ answer'[s] \in Errors
  PROVE  AcceptInv'
<1>1. /\ \A s \in Requests :
           /\ IsReply(s)' = IsReply(s) /\ Contact(s)' = Contact(s)
           /\ NeedsContact(s)' = NeedsContact(s) /\ Accounted(s)' = Accounted(s)
           /\ DepthAllowed(s)' = DepthAllowed(s)
           /\ \A t \in Requests : SameKey(s, t)' = SameKey(s, t)
      /\ Counted' = Counted
      /\ \A c : RepliesOf(c)' = RepliesOf(c)
  BY TablesKept
<1>2. HandlersKnow'
  <2>1. ASSUME NEW s \in Requests PROVE HandlerTruth(s)'
    <3>1. HandlerTruth(s) /\ (pc'[s] = pc[s] \/ pc'[s] = "done")
      BY DEF AcceptInv, Coordination, HandlersKnow
    <3>2. QED
      BY <3>1, <1>1 DEF HandlerTruth
  <2>2. QED
    BY <2>1 DEF HandlersKnow
<1>3. \A s \in Requests : (HoldsQuota(s)' => HoldsQuota(s)) /\ (HoldsKey(s)' => HoldsKey(s))
  BY <1>1 DEF HoldsQuota, HoldsKey
<1>4. QuotaExclusive' /\ KeysExclusive'
  BY <1>1, <1>3 DEF AcceptInv, Coordination, QuotaExclusive, KeysExclusive
<1>5. LimitAhead'
  BY <1>1 DEF AcceptInv, Coordination, LimitAhead
<1>6. KeysUnique' /\ ParentsKept'
  BY <1>1 DEF AcceptInv, Coordination, KeysUnique, ParentsKept
<1>7. UsersCounted'
  <2>1. \A c \in Counted : usage[c] \in Requests
    BY DEF AcceptInv, TypeOK, Counted
  <2>2. QED
    BY <2>1, <1>1 DEF AcceptInv, Coordination, UsersCounted
<1>8. AnswersStand'
  BY <1>1, AcceptAssumption DEF AcceptInv, Coordination, AnswersStand
<1>9. LimitKept' /\ AcceptedWhole'
  BY <1>1 DEF AcceptInv, LimitKept, AcceptedWhole
<1>10. QED
  BY <1>2, <1>4, <1>5, <1>6, <1>7, <1>8, <1>9 DEF AcceptInv, Coordination

LEMMA CrashInv == ASSUME AcceptInv, Crash PROVE AcceptInv'
<1>1. changes' \in 0..MaxChanges
  BY AcceptAssumption DEF Crash, Change, AcceptInv, TypeOK
<1>2. \A s \in Requests : \/ pc'[s] = pc[s] /\ answer'[s] = answer[s]
                          \/ pc'[s] = "done" /\ answer'[s] = "dropped"
  BY DEF Crash
<1>3. TypeOK'
  <2>1. "dropped" \in Errors
    BY DEF Errors
  <2>2. pc' \in [Requests -> {"idle", "load", "account", "lookup", "begin", "insert", "bump",
                              "reserve", "limit", "commit", "enqueue", "conflict", "done"}]
    BY DEF Crash, AcceptInv, TypeOK
  <2>3. answer' \in [Requests -> Requests \cup Errors \cup {None}]
    BY <2>1 DEF Crash, AcceptInv, TypeOK
  <2>4. QED
    BY <1>1, <2>2, <2>3 DEF Crash, AcceptInv, TypeOK, Committed, tableVars
<1>4. QED
  BY <1>2, <1>3, HandlersStop DEF Crash, Errors, tableVars

LEMMA ConnectionFailsInv ==
  ASSUME AcceptInv, NEW r \in Requests, ConnectionFails(r) PROVE AcceptInv'
<1>1. /\ pc' = [pc EXCEPT ![r] = "done"] /\ answer' = [answer EXCEPT ![r] = "INTERNAL_ERROR"]
      /\ UNCHANGED <<form, at, spends, rows, usage, jobs, active, now>>
  BY DEF ConnectionFails, Answer, Go, tableVars
<1>2. changes' \in 0..MaxChanges
  BY AcceptAssumption DEF ConnectionFails, Change, AcceptInv, TypeOK
<1>3. TypeOK'
  BY <1>1, <1>2 DEF AcceptInv, TypeOK, Committed, Errors
<1>4. \A s \in Requests : \/ pc'[s] = pc[s] /\ answer'[s] = answer[s]
                          \/ pc'[s] = "done" /\ answer'[s] \in Errors
  BY <1>1 DEF AcceptInv, TypeOK, Errors
<1>5. QED
  BY <1>1, <1>3, <1>4, HandlersStop

LEMMA SurroundingsInv == ASSUME AcceptInv, ConnectionChanges \/ Tick PROVE AcceptInv'
<1>1. UNCHANGED <<handlerVars, tableVars, jobs>>
  BY DEF ConnectionChanges, Tick
<1>2. changes' \in 0..MaxChanges /\ now' \in 0..MaxTime /\ active' \in BOOLEAN
  <2>1. changes' \in 0..MaxChanges /\ now' \in 0..MaxTime
    BY AcceptAssumption DEF ConnectionChanges, Tick, Change, AcceptInv, TypeOK
  <2>2. active' \in BOOLEAN
    BY DEF ConnectionChanges, Tick, AcceptInv, TypeOK
  <2>3. QED
    BY <2>1, <2>2
<1>3. TypeOK'
  BY <1>1, <1>2 DEF AcceptInv, TypeOK, Committed, handlerVars, tableVars
<1>4. QED
  BY <1>1, <1>3, HandlersStop DEF handlerVars, tableVars

\* A row that changes its state but not its place, and contacts given back.
LEMMA TablesMove ==
  ASSUME AcceptInv, UNCHANGED <<handlerVars, jobs>>,
         \A i \in Ids : rows'[i] = NoRow <=> rows[i] = NoRow,
         \A c \in Existing : rows'[c].parent = rows[c].parent /\ rows'[c].depth = rows[c].depth,
         \A c \in Contacts : usage'[c] = usage[c] \/ usage'[c] = Nobody,
         \A s \in Requests : Accounted(s) => Accounted(s)'
  PROVE  Coordination' /\ LimitKept'
<1>1. UNCHANGED <<form, pc, at, spends, answer>> /\ Requests \subseteq Ids
  BY DEF handlerVars, Ids
<1>2. \A s \in Requests : /\ IsReply(s)' = IsReply(s) /\ Contact(s)' = Contact(s)
                          /\ NeedsContact(s)' = NeedsContact(s)
                          /\ \A t \in Requests : SameKey(s, t)' = SameKey(s, t)
  BY <1>1 DEF IsReply, Contact, NeedsContact, SameKey
<1>3. \A s \in Requests : DepthAllowed(s)' = DepthAllowed(s)
  BY <1>1, FormTypes DEF DepthAllowed, Depth, AcceptInv
<1>4. /\ Counted' \in SUBSET Counted /\ \A c \in Counted' : usage'[c] = usage[c]
      /\ Cardinality(Counted') <= Cardinality(Counted)
      /\ Cardinality(Counted) \in Nat /\ Cardinality(Counted') \in Nat
  <2>1. Counted' \in SUBSET Counted /\ \A c \in Counted' : usage'[c] = usage[c]
    BY DEF Counted
  <2>2. QED
    BY <2>1, CountedFinite, FS_Subset, FS_CardinalityType
<1>5. HandlersKnow'
  <2>1. ASSUME NEW s \in Requests PROVE HandlerTruth(s)'
    <3>1. HandlerTruth(s) /\ (rows'[s] = NoRow <=> rows[s] = NoRow)
      BY <1>1 DEF AcceptInv, Coordination, HandlersKnow
    <3>2. QED
      BY <3>1, <1>1, <1>2, <1>3 DEF HandlerTruth
  <2>2. QED
    BY <2>1 DEF HandlersKnow
<1>6. \A s \in Requests : HoldsQuota(s)' = HoldsQuota(s) /\ HoldsKey(s)' = HoldsKey(s)
  BY <1>1, <1>2 DEF HoldsQuota, HoldsKey
<1>7. QuotaExclusive'
  BY <1>6 DEF AcceptInv, Coordination, QuotaExclusive
<1>8. KeysExclusive' /\ KeysUnique'
  BY <1>1, <1>2, <1>6 DEF AcceptInv, Coordination, KeysExclusive, KeysUnique
<1>9. LimitAhead' /\ LimitKept'
  BY <1>1, <1>4, AcceptAssumption DEF AcceptInv, Coordination, LimitAhead, LimitKept
<1>10. AnswersStand'
  BY <1>1, <1>2 DEF AcceptInv, Coordination, AnswersStand
<1>11. ParentsKept'
  BY DEF AcceptInv, Coordination, ParentsKept
<1>12. UsersCounted'
  <2>1. \A c \in Counted : usage[c] \in Requests
    BY DEF AcceptInv, TypeOK, Counted
  <2>2. QED
    BY <2>1, <1>2, <1>4 DEF AcceptInv, Coordination, UsersCounted
<1>13. QED
  BY <1>5, <1>7, <1>8, <1>9, <1>10, <1>11, <1>12 DEF Coordination

LEMMA FailReplyInv == ASSUME AcceptInv, NEW r \in Requests, FailReply(r) PROVE AcceptInv'
<1>1. /\ rows[r] # NoRow /\ rows[r].status = "queued"
      /\ rows' = [rows EXCEPT ![r].status = "failed"]
      /\ usage' = [c \in Contacts |-> IF usage[c] = r THEN Nobody ELSE usage[c]]
      /\ UNCHANGED <<handlerVars, jobs, active, now>>
  BY DEF FailReply
<1>2. changes' \in 0..MaxChanges
  BY AcceptAssumption DEF FailReply, Change, AcceptInv, TypeOK
<1>3. /\ \A i \in Ids \ {r} : rows'[i] = rows[i]
      /\ rows'[r] = [rows[r] EXCEPT !.status = "failed"]
  BY <1>1 DEF AcceptInv, TypeOK, Ids
<1>4. rows[r] \in Comment /\ r \in Ids /\ r \notin Existing
  BY <1>1, FormTypes DEF AcceptInv, TypeOK
<1>5. rows'[r] \in Comment /\ rows'[r].status = "failed" /\ rows'[r].parent = rows[r].parent
  BY <1>3, <1>4 DEF Comment
<1>6. \A i \in Ids : rows'[i] = NoRow <=> rows[i] = NoRow
  BY <1>3, <1>4, <1>5, AcceptAssumption
<1>7. TypeOK'
  <2>1. rows' \in [Ids -> Comment \cup {NoRow}]
    BY <1>1, <1>3, <1>5 DEF AcceptInv, TypeOK
  <2>2. usage' \in [Contacts -> Requests \cup {Nobody}]
    BY <1>1 DEF AcceptInv, TypeOK
  <2>3. Existing \subseteq Committed'
    BY <1>6 DEF AcceptInv, TypeOK, Committed
  <2>4. QED
    BY <1>1, <1>2, <2>1, <2>2, <2>3 DEF AcceptInv, TypeOK, handlerVars
<1>8. \A s \in Requests : Accounted(s) => Accounted(s)'
  <2> SUFFICES ASSUME NEW s \in Requests, Accounted(s) PROVE Accounted(s)'
    OBVIOUS
  <2>1. \A t \in Requests : IsReply(t)' = IsReply(t) /\ Contact(t)' = Contact(t)
    BY <1>1 DEF handlerVars, IsReply, Contact
  <2>2. CASE Contact(s) \in Counted /\ usage[Contact(s)] = r
    <3>1. IsReply(r) /\ Contact(r) = Contact(s)
      BY <2>2 DEF AcceptInv, Coordination, UsersCounted
    <3>2. QED
      BY <2>1, <3>1, <1>4, <1>5, AcceptAssumption DEF Accounted
  <2>3. CASE Contact(s) \in Counted /\ usage[Contact(s)] # r
    BY <2>1, <2>3, <1>1 DEF Accounted, Counted
  <2>4. CASE \E t \in Requests : rows[t] # NoRow /\ rows[t].status = "failed"
                                 /\ IsReply(t) /\ Contact(t) = Contact(s)
    <3>1. PICK t \in Requests : rows[t] # NoRow /\ rows[t].status = "failed"
                                /\ IsReply(t) /\ Contact(t) = Contact(s)
      BY <2>4
    <3>2. t # r /\ t \in Ids
      BY <3>1, <1>1 DEF Ids
    <3>3. rows'[t] # NoRow /\ rows'[t].status = "failed"
      BY <3>1, <3>2, <1>3
    <3>4. QED
      BY <2>1, <3>1, <3>3 DEF Accounted
  <2>5. QED
    BY <2>2, <2>3, <2>4 DEF Accounted
<1>9. Coordination' /\ LimitKept'
  <2>1. \A c \in Existing : rows'[c].parent = rows[c].parent /\ rows'[c].depth = rows[c].depth
    BY <1>3, <1>4 DEF Ids
  <2>2. \A c \in Contacts : usage'[c] = usage[c] \/ usage'[c] = Nobody
    BY <1>1
  <2>3. QED
    BY <1>1, <1>6, <1>8, <2>1, <2>2, TablesMove
<1>10. AcceptedWhole'
  <2>1. \A c : RepliesOf(c)' = RepliesOf(c)
    <3>1. Committed' = Committed
      BY <1>6 DEF Committed
    <3>2. \A i \in Committed : /\ rows'[i].parent = rows[i].parent
                               /\ (rows'[i].status = "deleted" <=> rows[i].status = "deleted")
      BY <1>1, <1>3, <1>5 DEF Committed
    <3>3. QED
      BY <3>1, <3>2 DEF RepliesOf
  <2>2. \A c \in Existing : rows'[c].replies = rows[c].replies
    BY <1>3, <1>4 DEF Ids
  <2>3. \A c \in Existing : rows'[c].replies = Cardinality(RepliesOf(c)')
    BY <2>1, <2>2 DEF AcceptInv, AcceptedWhole
  <2>4. \A c \in Counted' : rows'[usage'[c]] # NoRow /\ rows'[usage'[c]].status # "failed"
    <3> SUFFICES ASSUME NEW c \in Counted'
                 PROVE  rows'[usage'[c]] # NoRow /\ rows'[usage'[c]].status # "failed"
      OBVIOUS
    <3>1. c \in Counted /\ usage'[c] = usage[c] /\ usage[c] # r
      BY <1>1 DEF Counted
    <3>2. usage[c] \in Ids
      BY <3>1 DEF AcceptInv, TypeOK, Counted, Ids
    <3>3. QED
      BY <1>3, <3>1, <3>2 DEF AcceptInv, AcceptedWhole
  <2>5. \A j \in jobs' : rows'[j] # NoRow
    BY <1>1, <1>6 DEF AcceptInv, AcceptedWhole, TypeOK, Ids
  <2>6. \A s \in Requests : rows'[s] # NoRow /\ NeedsContact(s)' => Accounted(s)'
    <3>1. \A s \in Requests : NeedsContact(s)' = NeedsContact(s)
      BY <1>1 DEF handlerVars, NeedsContact, IsReply, Contact
    <3>2. QED
      BY <3>1, <1>6, <1>8 DEF AcceptInv, AcceptedWhole, Ids
  <2>7. QED
    BY <2>3, <2>4, <2>5, <2>6 DEF AcceptedWhole
<1>11. QED
  BY <1>7, <1>9, <1>10 DEF AcceptInv

LEMMA DeleteCommentInv == ASSUME AcceptInv, NEW c \in Existing, DeleteComment(c) PROVE AcceptInv'
<1>1. PICK p : rows[c].parent = p
  OBVIOUS
<1>2. /\ rows[c].status = "posted"
      /\ rows' = [i \in Ids |->
           CASE i = c -> [rows[i] EXCEPT !.status = "deleted"]
             [] i = p -> [rows[i] EXCEPT !.replies = @ - 1]
             [] OTHER -> rows[i]]
      /\ UNCHANGED <<handlerVars, usage, jobs, active, now>>
  BY <1>1 DEF DeleteComment
<1>3. changes' \in 0..MaxChanges
  BY AcceptAssumption DEF DeleteComment, Change, AcceptInv, TypeOK
<1>4. /\ Existing \subseteq Ids /\ c \in Ids
      /\ \A d \in Existing : rows[d] \in Comment /\ rows[d] # NoRow
  BY DEF Ids, AcceptInv, TypeOK, Committed
<1>5. p = ParentOf[c] /\ p \in Existing \cup {Post} /\ p # c
  BY <1>4, <1>1, AcceptAssumption DEF AcceptInv, Coordination, ParentsKept, Comment
<1>6. /\ rows'[c] = [rows[c] EXCEPT !.status = "deleted"]
      /\ p \in Existing => rows'[p] = [rows[p] EXCEPT !.replies = @ - 1]
      /\ \A i \in Ids \ {c, p} : rows'[i] = rows[i]
  BY <1>2, <1>4, <1>5
<1>7. /\ rows'[c].status = "deleted" /\ rows'[c].parent = p
      /\ rows'[c].depth = rows[c].depth /\ rows'[c].replies = rows[c].replies
      /\ rows'[c] \in Comment
  BY <1>4, <1>1, <1>6 DEF Comment
\* The parent counted this one.
<1>8. p \in Existing => /\ IsFiniteSet(RepliesOf(p)) /\ c \in RepliesOf(p)
                        /\ Cardinality(RepliesOf(p)) >= 1
                        /\ rows[p].replies = Cardinality(RepliesOf(p))
  <2> SUFFICES ASSUME p \in Existing
               PROVE  /\ IsFiniteSet(RepliesOf(p)) /\ c \in RepliesOf(p)
                      /\ Cardinality(RepliesOf(p)) >= 1
                      /\ rows[p].replies = Cardinality(RepliesOf(p))
    OBVIOUS
  <2>1. c \in RepliesOf(p)
    BY <1>2, <1>4, <1>1 DEF RepliesOf, Committed
  <2>2. IsFiniteSet(RepliesOf(p))
    <3>1. RepliesOf(p) \in SUBSET Ids
      BY DEF RepliesOf, Committed
    <3>2. QED
      BY <3>1, ContactsFinite, FS_Subset
  <2>3. Cardinality(RepliesOf(p)) >= 1
    BY <2>1, <2>2, FS_EmptySet, FS_CardinalityType
  <2>4. rows[p].replies = Cardinality(RepliesOf(p))
    BY DEF AcceptInv, AcceptedWhole
  <2>5. QED
    BY <2>1, <2>2, <2>3, <2>4
<1>9. p \in Existing => /\ rows'[p].status = rows[p].status /\ rows'[p].parent = rows[p].parent
                        /\ rows'[p].depth = rows[p].depth
                        /\ rows'[p].replies = rows[p].replies - 1
                        /\ rows'[p] \in Comment
  BY <1>4, <1>6, <1>8 DEF Comment
<1>10. \A i \in Ids : /\ rows'[i] = NoRow <=> rows[i] = NoRow
                      /\ rows[i] # NoRow => rows'[i].parent = rows[i].parent
                                            /\ rows'[i].depth = rows[i].depth
                      /\ i # c => rows'[i].status = rows[i].status
  <2> SUFFICES ASSUME NEW i \in Ids
               PROVE  /\ rows'[i] = NoRow <=> rows[i] = NoRow
                      /\ rows[i] # NoRow => rows'[i].parent = rows[i].parent
                                            /\ rows'[i].depth = rows[i].depth
                      /\ i # c => rows'[i].status = rows[i].status
    OBVIOUS
  <2>1. CASE i = c
    BY <2>1, <1>4, <1>1, <1>7, AcceptAssumption
  <2>2. CASE i = p /\ i # c
    <3>1. p \in Existing
      BY <2>2, <1>5, AcceptAssumption
    <3>2. QED
      BY <2>2, <3>1, <1>4, <1>9, AcceptAssumption
  <2>3. CASE i # c /\ i # p
    BY <2>3, <1>6
  <2>4. QED
    BY <2>1, <2>2, <2>3
<1>11. TypeOK'
  <2>1. rows' \in [Ids -> Comment \cup {NoRow}]
    <3>1. \A i \in Ids : rows'[i] \in Comment \cup {NoRow}
      BY <1>5, <1>6, <1>7, <1>9, AcceptAssumption DEF AcceptInv, TypeOK
    <3>2. DOMAIN rows' = Ids /\ rows' = [i \in Ids |-> rows'[i]]
      BY <1>2
    <3>3. QED
      BY <3>1, <3>2
  <2>2. Existing \subseteq Committed'
    BY <1>4, <1>10 DEF Committed
  <2>3. QED
    BY <1>2, <1>3, <2>1, <2>2 DEF AcceptInv, TypeOK, handlerVars
<1>12. \A s \in Requests : Accounted(s) => Accounted(s)'
  <2>1. Counted' = Counted /\ \A s : IsReply(s)' = IsReply(s) /\ Contact(s)' = Contact(s)
    BY <1>2 DEF Counted, handlerVars, IsReply, Contact
  <2>2. \A t \in Requests : t \in Ids /\ t # c
    BY AcceptAssumption DEF Ids
  <2>3. QED
    BY <1>10, <2>1, <2>2 DEF Accounted
<1>13. Coordination' /\ LimitKept'
  <2>1. \A d \in Existing : rows'[d].parent = rows[d].parent /\ rows'[d].depth = rows[d].depth
    BY <1>4, <1>10
  <2>2. QED
    BY <1>2, <1>10, <1>12, <2>1, TablesMove
<1>14. AcceptedWhole'
  <2>1. Committed' = Committed
    BY <1>10 DEF Committed
  <2>2. \A d : d # p => RepliesOf(d)' = RepliesOf(d)
    BY <1>1, <1>7, <1>10, <2>1 DEF RepliesOf, Committed
  <2>3. RepliesOf(p)' = RepliesOf(p) \ {c}
    BY <1>7, <1>10, <2>1 DEF RepliesOf, Committed
  <2>4. ASSUME NEW d \in Existing PROVE rows'[d].replies = Cardinality(RepliesOf(d)')
    <3>1. CASE d = p
      <4>1. Cardinality(RepliesOf(p) \ {c}) = Cardinality(RepliesOf(p)) - 1
        BY <3>1, <1>8, FS_RemoveElement
      <4>2. QED
        BY <3>1, <4>1, <1>8, <1>9, <2>3
    <3>2. CASE d # p
      <4>1. rows'[d].replies = rows[d].replies
        BY <3>2, <1>4, <1>6, <1>7
      <4>2. QED
        BY <3>2, <4>1, <2>2 DEF AcceptInv, AcceptedWhole
    <3>3. QED
      BY <3>1, <3>2
  <2>5. \A d \in Counted' : rows'[usage'[d]] # NoRow /\ rows'[usage'[d]].status # "failed"
    <3>1. \A d \in Counted' : d \in Counted /\ usage'[d] = usage[d]
                              /\ usage[d] \in Ids /\ usage[d] # c
      BY <1>2, AcceptAssumption DEF AcceptInv, TypeOK, Counted, Ids
    <3>2. QED
      BY <3>1, <1>10 DEF AcceptInv, AcceptedWhole
  <2>6. \A j \in jobs' : rows'[j] # NoRow
    BY <1>2, <1>10 DEF AcceptInv, AcceptedWhole, TypeOK, Ids
  <2>7. \A s \in Requests : rows'[s] # NoRow /\ NeedsContact(s)' => Accounted(s)'
    <3>1. \A s \in Requests : NeedsContact(s)' = NeedsContact(s)
      BY <1>2 DEF handlerVars, NeedsContact, IsReply, Contact
    <3>2. QED
      BY <3>1, <1>10, <1>12 DEF AcceptInv, AcceptedWhole, Ids
  <2>8. QED
    BY <2>4, <2>5, <2>6, <2>7 DEF AcceptedWhole
<1>15. QED
  BY <1>11, <1>13, <1>14 DEF AcceptInv

-------------------------------------------------------------------------------
(* The commit. *)

LEMMA CommitInv == ASSUME AcceptInv, NEW r \in Requests, Commit(r) PROVE AcceptInv'
<1>1. PICK f : form[r].to = f
  OBVIOUS
<1>2. /\ pc[r] = "commit" /\ pc' = [pc EXCEPT ![r] = "enqueue"]
      /\ rows' = [i \in Ids |->
           CASE i = r -> NewRow(r)
             [] i = f -> [rows[i] EXCEPT !.replies = @ + 1]
             [] OTHER -> rows[i]]
      /\ usage' = [c \in Contacts |-> IF spends[r] /\ c = Contact(r) THEN r ELSE usage[c]]
      /\ UNCHANGED <<form, at, spends, jobs, active, now, changes, answer>>
  BY <1>1 DEF Commit, Proceed, Go
<1>3. /\ rows[r] = NoRow /\ DepthAllowed(r)
      /\ NeedsContact(r) => Contact(r) \in Contacts
      /\ spends[r] => NeedsContact(r)
      /\ NeedsContact(r) /\ ~spends[r] => Accounted(r)
  BY <1>2, ContactTypes DEF AcceptInv, Coordination, HandlersKnow, HandlerTruth
<1>4. /\ f \in Existing \cup {Post} /\ f # r /\ r \in Ids /\ r \notin Existing
      /\ Existing \subseteq Ids /\ Requests \subseteq Ids
  BY <1>1, FormTypes DEF Ids, AcceptInv
<1>5. /\ rows'[r] \in Comment /\ rows'[r].parent = f
      /\ rows'[r].status = "queued" /\ rows'[r].replies = 0
  <2>1. Depth(f) \in Int /\ Depth(f) + 1 \in 0..MaxReplyDepth
    <3>1. f \in Existing => rows[f] \in Comment
      BY DEF AcceptInv, TypeOK, Committed
    <3>2. f # Post => f \in Existing
      BY <1>4
    <3>3. QED
      BY <1>1, <1>3, <3>1, <3>2, AcceptAssumption DEF Depth, DepthAllowed, Comment
  <2>2. rows'[r] = [parent |-> f, depth |-> Depth(f) + 1, at |-> at[r],
                    status |-> "queued", replies |-> 0]
    BY <1>1, <1>2, <1>4 DEF NewRow
  <2>3. at[r] \in 0..MaxTime
    BY DEF AcceptInv, TypeOK
  <2>4. QED
    BY <1>4, <2>1, <2>2, <2>3 DEF Comment
<1>6. /\ \A i \in Ids \ {r, f} : rows'[i] = rows[i]
      /\ f \in Existing => rows'[f] = [rows[f] EXCEPT !.replies = @ + 1]
  BY <1>2, <1>4
<1>7. f \in Existing => /\ rows[f] \in Comment /\ rows'[f] \in Comment
                        /\ rows'[f].status = rows[f].status /\ rows'[f].parent = rows[f].parent
                        /\ rows'[f].depth = rows[f].depth
                        /\ rows'[f].replies = rows[f].replies + 1
  <2>1. f \in Existing => rows[f] \in Comment
    BY DEF AcceptInv, TypeOK, Committed
  <2>2. QED
    BY <1>6, <2>1 DEF Comment
<1>8. /\ \A i \in Ids \ {r} :
           /\ rows'[i] = NoRow <=> rows[i] = NoRow
           /\ rows[i] # NoRow => rows'[i].parent = rows[i].parent
                                 /\ rows'[i].depth = rows[i].depth
                                 /\ rows'[i].status = rows[i].status
      /\ rows'[r] # NoRow
  <2>1. rows'[r] # NoRow
    BY <1>5, AcceptAssumption
  <2>2. ASSUME NEW i \in Ids \ {r}
        PROVE  /\ rows'[i] = NoRow <=> rows[i] = NoRow
               /\ rows[i] # NoRow => rows'[i].parent = rows[i].parent
                                     /\ rows'[i].depth = rows[i].depth
                                     /\ rows'[i].status = rows[i].status
    <3>1. CASE i = f
      <4>1. f \in Existing
        BY <3>1, <1>4, AcceptAssumption
      <4>2. QED
        BY <3>1, <4>1, <1>7, AcceptAssumption
    <3>2. CASE i # f
      BY <3>2, <1>6
    <3>3. QED
      BY <3>1, <3>2
  <2>3. QED
    BY <2>1, <2>2
<1>9. TypeOK'
  <2>1. rows' \in [Ids -> Comment \cup {NoRow}]
    <3>1. \A i \in Ids : rows'[i] \in Comment \cup {NoRow}
      BY <1>4, <1>5, <1>6, <1>7, AcceptAssumption DEF AcceptInv, TypeOK
    <3>2. rows' = [i \in Ids |-> rows'[i]]
      BY <1>2
    <3>3. QED
      BY <3>1, <3>2
  <2>2. Existing \subseteq Committed'
    BY <1>4, <1>8 DEF AcceptInv, TypeOK, Committed
  <2>3. usage' \in [Contacts -> Requests \cup {Nobody}]
    BY <1>2 DEF AcceptInv, TypeOK
  <2>4. pc' \in [Requests -> {"idle", "load", "account", "lookup", "begin", "insert", "bump",
                              "reserve", "limit", "commit", "enqueue", "conflict", "done"}]
    BY <1>2 DEF AcceptInv, TypeOK
  <2>5. QED
    BY <1>2, <2>1, <2>2, <2>3, <2>4 DEF AcceptInv, TypeOK
<1>10. /\ \A s \in Requests \ {r} : pc'[s] = pc[s]
       /\ pc'[r] = "enqueue"
  BY <1>2 DEF AcceptInv, TypeOK
<1>11. /\ \A s \in Requests :
            /\ IsReply(s)' = IsReply(s) /\ Contact(s)' = Contact(s)
            /\ NeedsContact(s)' = NeedsContact(s)
            /\ \A t \in Requests : SameKey(s, t)' = SameKey(s, t)
  BY <1>2 DEF IsReply, Contact, NeedsContact, SameKey
<1>12. \A s \in Requests : DepthAllowed(s)' = DepthAllowed(s)
  <2>1. \A d \in Existing : rows'[d].depth = rows[d].depth
    BY <1>4, <1>8 DEF AcceptInv, TypeOK, Committed
  <2>2. QED
    BY <1>2, <2>1, FormTypes DEF DepthAllowed, Depth, AcceptInv
<1>13. /\ \A c \in Counted : c \in Counted' /\ usage'[c] = IF spends[r] /\ c = Contact(r)
                                                           THEN r ELSE usage[c]
       /\ Counted' = IF spends[r] THEN Counted \cup {Contact(r)} ELSE Counted
  <2>1. r # Nobody
    BY <1>4, AcceptAssumption
  <2>2. spends[r] => Contact(r) \in Contacts
    BY <1>3
  <2>3. \A c \in Contacts : usage'[c] = IF spends[r] /\ c = Contact(r) THEN r ELSE usage[c]
    BY <1>2
  <2>4. QED
    BY <2>1, <2>2, <2>3 DEF Counted
<1>14. \A s \in Requests : Accounted(s) => Accounted(s)'
  BY <1>3, <1>4, <1>8, <1>11, <1>13 DEF Accounted
<1>15. NeedsContact(r) => Accounted(r)'
  BY <1>3, <1>11, <1>13, <1>14 DEF Accounted
<1>16. HandlersKnow'
  <2>1. ASSUME NEW s \in Requests PROVE HandlerTruth(s)'
    <3>1. CASE s = r
      BY <3>1, <1>2, <1>3, <1>8, <1>10, <1>11 DEF HandlerTruth
    <3>2. CASE s # r
      <4>1. HandlerTruth(s) /\ (rows'[s] = NoRow <=> rows[s] = NoRow) /\ pc'[s] = pc[s]
        BY <3>2, <1>4, <1>8, <1>10 DEF AcceptInv, Coordination, HandlersKnow
      <4>2. QED
        BY <4>1, <1>2, <1>11, <1>12, <1>14 DEF HandlerTruth
    <3>3. QED
      BY <3>1, <3>2
  <2>2. QED
    BY <2>1 DEF HandlersKnow
<1>17. /\ \A s \in Requests \ {r} : HoldsQuota(s)' = HoldsQuota(s) /\ HoldsKey(s)' = HoldsKey(s)
       /\ ~HoldsQuota(r)' /\ ~HoldsKey(r)'
  BY <1>10, <1>11 DEF HoldsQuota, HoldsKey
<1>18. QuotaExclusive'
  BY <1>17 DEF AcceptInv, Coordination, QuotaExclusive
\* Only the holder of the quota's lock counts a contact.
<1>19. LimitAhead' /\ LimitKept'
  <2>1. CASE spends[r]
    <3>1. Cardinality(Counted) < ContactLimit
      BY <1>2, <2>1 DEF AcceptInv, Coordination, LimitAhead
    <3>2. Cardinality(Counted') \in {Cardinality(Counted), Cardinality(Counted) + 1}
      BY <1>13, <2>1, CountedFinite, FS_AddElement
    <3>3. LimitKept'
      BY <3>1, <3>2, CountedFinite, AcceptAssumption DEF LimitKept
    <3>4. \A s \in Requests : ~(pc'[s] = "commit" /\ spends'[s])
      <4> SUFFICES ASSUME NEW s \in Requests, pc'[s] = "commit", spends[s] PROVE FALSE
        BY <1>2
      <4>1. s # r /\ pc[s] = "commit"
        BY <1>10
      <4>2. NeedsContact(s) /\ NeedsContact(r)
        BY <1>3, <2>1 DEF AcceptInv, Coordination, HandlersKnow, HandlerTruth
      <4>3. QED
        BY <1>2, <4>1, <4>2 DEF AcceptInv, Coordination, QuotaExclusive, HoldsQuota
    <3>5. QED
      BY <3>3, <3>4 DEF LimitAhead
  <2>2. CASE ~spends[r]
    <3>1. Counted' = Counted
      BY <1>13, <2>2
    <3>2. LimitAhead'
      BY <1>2, <1>10, <3>1 DEF AcceptInv, Coordination, LimitAhead
    <3>3. QED
      BY <3>1, <3>2 DEF AcceptInv, LimitKept
  <2>3. QED
    BY <2>1, <2>2
<1>20. \A s \in Requests : SameKey(r, s) => ~HoldsKey(s) /\ rows[s] = NoRow
  BY <1>2, KeyKept
<1>21. KeysExclusive'
  <2> SUFFICES ASSUME NEW s \in Requests, NEW t \in Requests, HoldsKey(s)', SameKey(s, t)
               PROVE  ~HoldsKey(t)' /\ rows'[t] = NoRow
    BY <1>11 DEF KeysExclusive
  <2>1. s # r /\ HoldsKey(s)
    BY <1>17
  <2>2. ~HoldsKey(t) /\ rows[t] = NoRow
    BY <2>1 DEF AcceptInv, Coordination, KeysExclusive
  <2>3. t # r
    BY <1>2, <2>2 DEF HoldsKey
  <2>4. QED
    BY <1>4, <1>8, <1>17, <2>2, <2>3
<1>22. KeysUnique'
  <2> SUFFICES ASSUME NEW s \in Requests, NEW t \in Requests, SameKey(s, t)
               PROVE  rows'[s] = NoRow \/ rows'[t] = NoRow
    BY <1>11 DEF KeysUnique
  <2>1. s # t /\ SameKey(t, s) /\ (rows[s] = NoRow \/ rows[t] = NoRow)
    BY DEF AcceptInv, Coordination, KeysUnique, SameKey
  <2>2. CASE s = r
    BY <2>1, <2>2, <1>4, <1>8, <1>20
  <2>3. CASE t = r
    BY <2>1, <2>3, <1>4, <1>8, <1>20
  <2>4. CASE s # r /\ t # r
    BY <2>1, <2>4, <1>4, <1>8
  <2>5. QED
    BY <2>2, <2>3, <2>4
<1>23. AnswersStand'
  BY <1>2, <1>4, <1>8, <1>11 DEF AcceptInv, Coordination, AnswersStand
<1>24. ParentsKept'
  BY <1>4, <1>8 DEF AcceptInv, TypeOK, Committed, Coordination, ParentsKept
<1>25. UsersCounted'
  <2> SUFFICES ASSUME NEW c \in Counted' PROVE IsReply(usage'[c]) /\ Contact(usage'[c]) = c
    BY <1>2 DEF UsersCounted, IsReply, Contact
  <2>1. c \in Contacts
    BY DEF Counted
  <2>2. CASE spends[r] /\ c = Contact(r)
    BY <2>1, <2>2, <1>2, <1>3 DEF NeedsContact
  <2>3. CASE ~(spends[r] /\ c = Contact(r))
    <3>1. c \in Counted /\ usage'[c] = usage[c]
      BY <2>1, <2>3, <1>2, <1>13
    <3>2. QED
      BY <3>1 DEF AcceptInv, Coordination, UsersCounted
  <2>4. QED
    BY <2>2, <2>3
<1>26. AcceptedWhole'
  <2>1. ASSUME NEW c \in Existing PROVE rows'[c].replies = Cardinality(RepliesOf(c)')
    <3>1. rows[c].replies = Cardinality(RepliesOf(c)) /\ rows[c] \in Comment
      BY DEF AcceptInv, AcceptedWhole, TypeOK, Committed
    <3>2. Committed' = Committed \cup {r} /\ r \notin Committed
      BY <1>3, <1>4, <1>8 DEF Committed
    <3>3. \A i \in Committed : i \in Ids \ {r} /\ rows'[i].parent = rows[i].parent
                               /\ rows'[i].status = rows[i].status
      BY <1>3, <1>8 DEF Committed
    <3>4. CASE c = f
      <4>1. RepliesOf(c)' = RepliesOf(c) \cup {r} /\ r \notin RepliesOf(c)
        BY <3>2, <3>3, <3>4, <1>5 DEF RepliesOf
      <4>2. IsFiniteSet(RepliesOf(c))
        <5>1. RepliesOf(c) \in SUBSET Ids
          BY DEF RepliesOf, Committed
        <5>2. QED
          BY <5>1, ContactsFinite, FS_Subset
      <4>3. Cardinality(RepliesOf(c)') = Cardinality(RepliesOf(c)) + 1
        BY <4>1, <4>2, FS_AddElement
      <4>4. QED
        BY <3>1, <3>4, <4>3, <1>7
    <3>5. CASE c # f
      <4>1. RepliesOf(c)' = RepliesOf(c)
        BY <3>2, <3>3, <3>5, <1>5 DEF RepliesOf
      <4>2. rows'[c] = rows[c]
        BY <3>5, <1>4, <1>6
      <4>3. QED
        BY <3>1, <4>1, <4>2
    <3>6. QED
      BY <3>4, <3>5
  <2>2. ASSUME NEW c \in Counted' PROVE rows'[usage'[c]] # NoRow /\ rows'[usage'[c]].status # "failed"
    <3>1. CASE usage'[c] = r
      BY <3>1, <1>5, <1>8
    <3>2. CASE usage'[c] # r
      <4>1. c \in Counted /\ usage'[c] = usage[c] /\ usage[c] \in Ids
        BY <3>2, <1>2, <1>4, <1>13 DEF AcceptInv, TypeOK, Counted
      <4>2. rows[usage[c]] # NoRow /\ rows[usage[c]].status # "failed"
        BY <4>1 DEF AcceptInv, AcceptedWhole
      <4>3. QED
        BY <3>2, <4>1, <4>2, <1>8
    <3>3. QED
      BY <3>1, <3>2
  <2>3. \A j \in jobs' : rows'[j] # NoRow
    BY <1>2, <1>4, <1>8 DEF AcceptInv, AcceptedWhole, TypeOK
  <2>4. \A s \in Requests : rows'[s] # NoRow /\ NeedsContact(s)' => Accounted(s)'
    BY <1>4, <1>8, <1>11, <1>14, <1>15 DEF AcceptInv, AcceptedWhole
  <2>5. QED
    BY <2>1, <2>2, <2>3, <2>4 DEF AcceptedWhole
<1>27. QED
  BY <1>9, <1>16, <1>18, <1>19, <1>21, <1>22, <1>23, <1>24, <1>25, <1>26 DEF AcceptInv, Coordination

-------------------------------------------------------------------------------
(* The theorems. *)

LEMMA StepInv == AcceptInv /\ [Next]_vars => AcceptInv'
<1> SUFFICES ASSUME AcceptInv, [Next]_vars PROVE AcceptInv'
  OBVIOUS
<1>1. ASSUME NEW r \in Requests,
             Arrive(r) \/ Handle(r) \/ ConnectionFails(r) \/ FailReply(r)
      PROVE  AcceptInv'
  BY <1>1, ConnectionFailsInv, ArriveInv, LoadTargetInv, CheckAccountInv, ResolveIdempotencyInv,
     BeginTransactionInv, InsertQueuedInv, BumpInv, ReserveInv, CheckLimitInv, CommitInv,
     EnqueueInv, ResolveConflictInv, FailReplyInv DEF Handle
<1>2. ASSUME NEW c \in Existing, DeleteComment(c) PROVE AcceptInv'
  BY <1>2, DeleteCommentInv
<1>3. CASE Crash
  BY <1>3, CrashInv
<1>4. CASE ConnectionChanges \/ Tick
  BY <1>4, SurroundingsInv
<1>5. CASE UNCHANGED vars
  <2>1. UNCHANGED <<form, rows, usage, spends, jobs, pc, answer, at, active, now, changes>>
    BY <1>5 DEF vars, handlerVars, tableVars
  <2>2. TypeOK'
    BY <2>1 DEF AcceptInv, TypeOK, Committed
  <2>3. QED
    BY <2>1, <2>2, HandlersStop
<1>6. QED
  BY <1>1, <1>2, <1>3, <1>4, <1>5 DEF Next

\* What the write routes keep true, whatever happens to them.
THEOREM AcceptInvHolds == Spec => []AcceptInv
<1>1. Init => AcceptInv
  BY InitInv
<1>2. AcceptInv /\ [Next]_vars => AcceptInv'
  BY StepInv
<1>3. QED
  BY <1>1, <1>2, PTL DEF Spec

\* The types; no comment is nested deeper than the platform nests.
THEOREM TypeCorrect == Spec => []TypeOK
<1>1. AcceptInv => TypeOK
  BY DEF AcceptInv
<1>2. QED
  BY <1>1, AcceptInvHolds, PTL

\* A comment, its parent's count, its contact and its job are there as a whole or not at all.
THEOREM AcceptedWholeHolds == Spec => []AcceptedWhole
<1>1. AcceptInv => AcceptedWhole
  BY DEF AcceptInv
<1>2. QED
  BY <1>1, AcceptInvHolds, PTL

\* However many replies race for the last contacts, the month's limit stands.
THEOREM LimitKeptHolds == Spec => []LimitKept
<1>1. AcceptInv => LimitKept
  BY DEF AcceptInv
<1>2. QED
  BY <1>1, AcceptInvHolds, PTL

\* Two answers under one key: each names a row of that key, and there is only one.
LEMMA OneCommentPerKey == AcceptInv => SameKeySameComment
<1> SUFFICES ASSUME AcceptInv PROVE SameKeySameComment
  OBVIOUS
<1>1. \A r, s \in Requests : SameKey(r, s) => rows[r] = NoRow \/ rows[s] = NoRow
  BY DEF AcceptInv, Coordination, KeysUnique
<1>2. ASSUME NEW r \in Requests, NEW s \in Requests, SameKey(r, s),
             answer[r] \in Requests, answer[s] \in Requests
      PROVE  answer[r] = answer[s]
  <2>1. /\ rows[answer[r]] # NoRow /\ (answer[r] = r \/ SameKey(r, answer[r]))
        /\ rows[answer[s]] # NoRow /\ (answer[s] = s \/ SameKey(s, answer[s]))
    BY <1>2 DEF AcceptInv, Coordination, AnswersStand
  <2>2. answer[r] # answer[s] => SameKey(answer[r], answer[s])
    BY <1>2, <2>1 DEF SameKey
  <2>3. QED
    BY <1>1, <1>2, <2>1, <2>2
<1>3. QED
  BY <1>1, <1>2 DEF SameKeySameComment

\* A retry under the same key and text never makes, or names, a second comment.
THEOREM SameKeySameCommentHolds == Spec => []SameKeySameComment
  BY OneCommentPerKey, AcceptInvHolds, PTL

-------------------------------------------------------------------------------
(***************************************************************************)
(* The lock of the month is waited for with a connection in the hand, and  *)
(* whoever has the lock wants a second connection: with a pool as small as *)
(* the requests are many they can all wait for ever.  With one connection  *)
(* more than requests they cannot.  Somebody is always ahead of the others *)
(* in the order key, rows, quota, and that one waits for a connection only.*)
(***************************************************************************)

Underway(r) == pc[r] \notin {"idle", "done"}

\* What the next statement of a handler waits for is there: the guards of Handle.
Unblocked(r) ==
  \/ pc[r] \in {"load", "account", "lookup", "begin", "limit"} /\ Free > 0
  \/ pc[r] = "conflict" /\ Free > 0 /\ Winner(r) # {}
  \/ pc[r] = "insert" /\ ~\E s \in Requests : SameKey(r, s) /\ HoldsKey(s)
  \/ pc[r] = "bump" /\ {form[r].to, Root(form[r].to)} \cap LockedRows = {}
  \/ pc[r] = "reserve" /\ ~\E s \in Requests : HoldsQuota(s)
  \/ pc[r] \in {"commit", "enqueue"}

\* The handlers underway never all wait for each other: the next statement of one can run.
NeverAllBlocked ==
  (\E r \in Requests : Underway(r)) => \E r \in Requests : Underway(r) /\ Unblocked(r)

\* Who lost the race for a key finds the winner: a comment is never taken out of the table.
WinnersStay == \A r \in Requests : pc[r] = "conflict" => Winner(r) # {}

LEMMA WinnersStayStep == AcceptInv /\ WinnersStay /\ [Next]_vars => WinnersStay'
<1> SUFFICES ASSUME AcceptInv, WinnersStay, [Next]_vars PROVE WinnersStay'
  OBVIOUS
<1> USE DEF HandlerOnly, Answer, Proceed, Go, handlerVars, tableVars, Change
<1>1. \* Enough: the forms stay, comments stay, and who comes to "conflict" has a winner.
      ASSUME form' = form, \A s \in Requests : rows[s] # NoRow => rows'[s] # NoRow,
             \A r \in Requests : pc'[r] = "conflict" => pc[r] = "conflict" \/ Winner(r) # {}
      PROVE  WinnersStay'
  <2>1. ASSUME NEW r \in Requests, pc'[r] = "conflict" PROVE Winner(r)' # {}
    <3>1. PICK s \in Requests : rows[s] # NoRow /\ SameKey(r, s)
      BY <1>1, <2>1 DEF WinnersStay, Winner
    <3>2. rows'[s] # NoRow /\ SameKey(r, s)'
      BY <1>1, <3>1 DEF SameKey
    <3>3. QED
      BY <3>2 DEF Winner
  <2>2. QED
    BY <2>1 DEF WinnersStay
<1>2. ASSUME NEW r \in Requests, Arrive(r) PROVE WinnersStay'
  BY <1>1, <1>2 DEF Arrive, AcceptInv, TypeOK
<1>3. ASSUME NEW r \in Requests, Handle(r) PROVE WinnersStay'
  <2>1. CASE LoadTarget(r)
    BY <1>1, <2>1 DEF LoadTarget, AcceptInv, TypeOK
  <2>2. CASE CheckAccount(r)
    BY <1>1, <2>2 DEF CheckAccount, AcceptInv, TypeOK
  <2>3. CASE ResolveIdempotency(r)
    BY <1>1, <2>3 DEF ResolveIdempotency, AnswerWinner, AcceptInv, TypeOK
  <2>4. CASE BeginTransaction(r)
    BY <1>1, <2>4 DEF BeginTransaction, AcceptInv, TypeOK
  <2>5. CASE InsertQueued(r)
    BY <1>1, <2>5 DEF InsertQueued, AcceptInv, TypeOK
  <2>6. CASE BumpParentAndRoot(r)
    BY <1>1, <2>6 DEF BumpParentAndRoot, AcceptInv, TypeOK
  <2>7. CASE Reserve(r)
    BY <1>1, <2>7 DEF Reserve, AcceptInv, TypeOK
  <2>8. CASE CheckLimit(r)
    BY <1>1, <2>8 DEF CheckLimit, AcceptInv, TypeOK
  <2>9. CASE Commit(r)
    <3>1. \A s \in Requests : rows[s] # NoRow => s \in Ids /\ s # r /\ s # form[r].to
      BY <2>9, FormTypes DEF Commit, AcceptInv, Coordination, HandlersKnow, HandlerTruth, TypeOK, Ids
    <3>2. \A s \in Requests : rows[s] # NoRow => rows'[s] = rows[s]
      BY <2>9, <3>1 DEF Commit
    <3>3. form' = form /\ \A s \in Requests : pc'[s] = "conflict" => pc[s] = "conflict"
      BY <2>9 DEF Commit, AcceptInv, TypeOK
    <3>4. QED
      BY <1>1, <3>2, <3>3
  <2>10. CASE EnqueuePublish(r)
    BY <1>1, <2>10 DEF EnqueuePublish, AcceptInv, TypeOK
  <2>11. CASE ResolveIdempotencyConflict(r)
    BY <1>1, <2>11 DEF ResolveIdempotencyConflict, AnswerWinner, AcceptInv, TypeOK
  <2>12. QED
    BY <1>3, <2>1, <2>2, <2>3, <2>4, <2>5, <2>6, <2>7, <2>8, <2>9, <2>10, <2>11 DEF Handle
<1>4. ASSUME NEW r \in Requests, FailReply(r) PROVE WinnersStay'
  <2>1. rows \in [Ids -> Comment \cup {NoRow}] /\ Requests \subseteq Ids /\ NoRow \notin Comment
    BY AcceptAssumption DEF AcceptInv, TypeOK, Ids
  <2>2. rows[r] \in Comment /\ rows' = [rows EXCEPT ![r].status = "failed"]
    BY <1>4, <2>1 DEF FailReply
  <2>3. rows'[r] \in Comment
    <3>1. PICK u : u = [rows[r] EXCEPT !.status = "failed"]
      OBVIOUS
    <3>2. u \in Comment
      BY <2>2, <3>1 DEF Comment
    <3>3. QED
      BY <2>1, <2>2, <3>1, <3>2
  <2>4. \A s \in Requests : rows[s] # NoRow => rows'[s] # NoRow
    BY <2>1, <2>2, <2>3
  <2>5. QED
    BY <1>1, <1>4, <2>4 DEF FailReply
<1>5. ASSUME NEW c \in Existing, DeleteComment(c) PROVE WinnersStay'
  <2>1. Post \notin Ids /\ Requests \subseteq Ids /\ Requests \cap Existing = {}
    BY AcceptAssumption DEF Ids
  <2>2. rows[c].parent \in Existing \cup {Post}
    BY AcceptAssumption DEF AcceptInv, Coordination, ParentsKept
  <2>3. \A s \in Requests : rows'[s] = rows[s]
    BY <1>5, <2>1, <2>2 DEF DeleteComment
  <2>4. QED
    BY <1>1, <1>5, <2>3 DEF DeleteComment
<1>6. CASE Crash
  <2>1. UNCHANGED <<form, rows>> /\ \A s \in Requests : pc'[s] = "conflict" => pc[s] = "conflict"
    BY <1>6 DEF Crash
  <2>2. QED
    BY <1>1, <2>1
<1>7. CASE ConnectionChanges \/ Tick \/ UNCHANGED vars
  BY <1>1, <1>7 DEF ConnectionChanges, Tick, vars
<1>8. ASSUME NEW r \in Requests, ConnectionFails(r) PROVE WinnersStay'
  BY <1>1, <1>8 DEF ConnectionFails, AcceptInv, TypeOK
<1>9. QED
  BY <1>2, <1>3, <1>4, <1>5, <1>6, <1>7, <1>8 DEF Next

\* Somebody is foremost: behind the quota's lock, before it, before the rows, before the key.
LEMMA ForemostMoves ==
  ASSUME AcceptInv, WinnersStay, PoolSize > Cardinality(Requests) PROVE NeverAllBlocked
<1>1. Free > 0
  <2>1. {r \in Requests : InTransaction(r)} \in SUBSET Requests /\ IsFiniteSet(Requests)
    BY AcceptAssumption
  <2>2. /\ Cardinality({r \in Requests : InTransaction(r)}) <= Cardinality(Requests)
        /\ Cardinality({r \in Requests : InTransaction(r)}) \in Nat /\ Cardinality(Requests) \in Nat
    BY <2>1, FS_Subset, FS_CardinalityType
  <2>3. QED
    BY <2>2, AcceptAssumption DEF Free
<1>2. SUFFICES ASSUME NEW r \in Requests, Underway(r), \A s \in Requests : Underway(s) => ~Unblocked(s)
               PROVE  FALSE
  BY DEF NeverAllBlocked
<1>3. \A s \in Requests : pc[s] \notin {"load", "account", "lookup", "begin", "limit",
                                        "conflict", "commit", "enqueue"}
  BY <1>1, <1>2 DEF Unblocked, Underway, WinnersStay
<1>4. \A s \in Requests : pc[s] # "reserve"
  <2>1. \A s \in Requests : ~HoldsQuota(s)
    BY <1>3 DEF HoldsQuota
  <2>2. QED
    BY <1>2, <2>1 DEF Unblocked, Underway
<1>5. \A s \in Requests : pc[s] # "bump"
  <2>1. LockedRows = {}
    BY <1>3, <1>4 DEF LockedRows, HoldsRows
  <2>2. QED
    BY <1>2, <2>1 DEF Unblocked, Underway
<1>6. \A s \in Requests : pc[s] # "insert"
  <2>1. \A s \in Requests : ~HoldsKey(s)
    BY <1>3, <1>4, <1>5 DEF HoldsKey
  <2>2. QED
    BY <1>2, <2>1 DEF Unblocked, Underway
<1>7. QED
  BY <1>2, <1>3, <1>4, <1>5, <1>6 DEF AcceptInv, TypeOK, Underway

\* With one connection more than requests, the handlers never all wait for each other:
\* whatever was interleaved, crashed or deleted, the next statement of one of them can run.
THEOREM NeverAllBlockedHolds == PoolSize > Cardinality(Requests) => (Spec => []NeverAllBlocked)
<1>1. Init => WinnersStay
  BY DEF Init, WinnersStay
<1>2. AcceptInv /\ WinnersStay /\ [Next]_vars => WinnersStay'
  BY WinnersStayStep
<1>3. Spec => []WinnersStay
  BY <1>1, <1>2, AcceptInvHolds, PTL DEF Spec
<1> SUFFICES ASSUME PoolSize > Cardinality(Requests) PROVE Spec => []NeverAllBlocked
  OBVIOUS
<1>4. AcceptInv /\ WinnersStay => NeverAllBlocked
  BY ForemostMoves
<1>5. QED
  BY <1>3, <1>4, AcceptInvHolds, PTL

-------------------------------------------------------------------------------
(***************************************************************************)
(* The write routes implement Acceptance.  A request is accepted where its *)
(* transaction commits; everything a handler does before is nobody else's  *)
(* business, and what it does after is to tell.                            *)
(***************************************************************************)

\* Nobody is told anything before the end.
AnswersLast == \A r \in Requests : pc[r] # "done" => answer[r] = None

\* Whoever is about to count a contact is behind the lock, so it is still new.
SpendsOnNew ==
  \A r \in Requests : pc[r] = "limit" \/ (pc[r] = "commit" /\ spends[r]) => usage[Contact(r)] = Nobody

LEMMA AnswersLastStep == AcceptInv /\ AnswersLast /\ [Next]_vars => AnswersLast'
<1> SUFFICES ASSUME AcceptInv, AnswersLast, [Next]_vars PROVE AnswersLast'
  OBVIOUS
<1> USE DEF AnswersLast, HandlerOnly, Answer, Proceed, Go, handlerVars, tableVars
<1>1. /\ pc \in [Requests -> {pc[r] : r \in Requests}] /\ DOMAIN pc = Requests
      /\ DOMAIN answer = Requests
  BY DEF AcceptInv, TypeOK
<1>2. ASSUME NEW r \in Requests,
             Arrive(r) \/ Handle(r) \/ ConnectionFails(r) \/ FailReply(r)
      PROVE  AnswersLast'
  <2>1. CASE Arrive(r)
    BY <1>1, <2>1 DEF Arrive
  <2>2. CASE LoadTarget(r) \/ CheckAccount(r)
    BY <1>1, <2>2 DEF LoadTarget, CheckAccount
  <2>3. CASE ResolveIdempotency(r) \/ ResolveIdempotencyConflict(r)
    BY <1>1, <2>3 DEF ResolveIdempotency, ResolveIdempotencyConflict, AnswerWinner
  <2>4. CASE BeginTransaction(r) \/ InsertQueued(r) \/ BumpParentAndRoot(r) \/ Reserve(r)
    BY <1>1, <2>4 DEF BeginTransaction, InsertQueued, BumpParentAndRoot, Reserve
  <2>5. CASE CheckLimit(r) \/ Commit(r) \/ EnqueuePublish(r)
    BY <1>1, <2>5 DEF CheckLimit, Commit, EnqueuePublish
  <2>6. CASE FailReply(r)
    BY <2>6 DEF FailReply
  <2>7. CASE ConnectionFails(r)
    BY <1>1, <2>7 DEF ConnectionFails
  <2>8. QED
    BY <1>2, <2>1, <2>2, <2>3, <2>4, <2>5, <2>6, <2>7 DEF Handle
<1>3. CASE Crash
  BY <1>3 DEF Crash
<1>4. CASE (\E c \in Existing : DeleteComment(c)) \/ ConnectionChanges \/ Tick \/ UNCHANGED vars
  BY <1>4 DEF DeleteComment, ConnectionChanges, Tick, vars
<1>5. QED
  BY <1>2, <1>3, <1>4 DEF Next

\* Counting leaves the forms alone, and only a commit counts.
LEMMA SpendsOnNewStep == AcceptInv /\ SpendsOnNew /\ [Next]_vars => SpendsOnNew'
<1> SUFFICES ASSUME AcceptInv, SpendsOnNew, [Next]_vars PROVE SpendsOnNew'
  OBVIOUS
<1> USE DEF HandlerOnly, Answer, Proceed, Go, handlerVars, tableVars
<1>1. /\ DOMAIN pc = Requests /\ DOMAIN spends = Requests
      /\ \A r \in Requests : spends[r] => pc[r] \in {"commit", "enqueue", "done"} /\ NeedsContact(r)
      /\ \A r \in Requests : pc[r] = "limit" => NeedsContact(r)
      /\ \A r \in Requests : pc[r] \in {"limit", "commit"} /\ NeedsContact(r) => Contact(r) \in Contacts
  BY ContactTypes DEF AcceptInv, TypeOK, Coordination, HandlersKnow, HandlerTruth
<1>2. \* Enough: what stays or becomes free, for those who were or get behind the lock.
      ASSUME form' = form,
             \A r \in Requests : pc'[r] = "limit" \/ (pc'[r] = "commit" /\ spends'[r])
               => usage'[Contact(r)] = Nobody
      PROVE  SpendsOnNew'
  BY <1>2 DEF SpendsOnNew, Contact
<1>3. ASSUME NEW r \in Requests, Arrive(r) \/ Handle(r) PROVE SpendsOnNew'
  <2>1. CASE Arrive(r)
    BY <1>1, <1>2, <2>1 DEF Arrive, SpendsOnNew
  <2>2. CASE LoadTarget(r) \/ CheckAccount(r)
    BY <1>1, <1>2, <2>2 DEF LoadTarget, CheckAccount, SpendsOnNew
  <2>3. CASE ResolveIdempotency(r) \/ ResolveIdempotencyConflict(r)
    BY <1>1, <1>2, <2>3 DEF ResolveIdempotency, ResolveIdempotencyConflict, AnswerWinner, SpendsOnNew
  <2>4. CASE BeginTransaction(r) \/ InsertQueued(r) \/ BumpParentAndRoot(r)
    BY <1>1, <1>2, <2>4 DEF BeginTransaction, InsertQueued, BumpParentAndRoot, SpendsOnNew
  <2>5. CASE Reserve(r)
    BY <1>1, <1>2, <2>5 DEF Reserve, SpendsOnNew
  <2>6. CASE CheckLimit(r)
    BY <1>1, <1>2, <2>6 DEF CheckLimit, SpendsOnNew
  <2>7. CASE Commit(r)
    <3>1. ASSUME NEW s \in Requests, pc'[s] = "limit" \/ (pc'[s] = "commit" /\ spends'[s])
          PROVE  usage'[Contact(s)] = Nobody
      <4>1. s # r /\ (pc[s] = "limit" \/ (pc[s] = "commit" /\ spends[s])) /\ HoldsQuota(s)
        BY <1>1, <2>7, <3>1 DEF Commit, HoldsQuota
      <4>2. ~spends[r]
        BY <1>1, <2>7, <4>1 DEF Commit, HoldsQuota, AcceptInv, Coordination, QuotaExclusive
      <4>3. Contact(s) \in Contacts /\ usage[Contact(s)] = Nobody
        BY <1>1, <4>1 DEF SpendsOnNew
      <4>4. QED
        BY <2>7, <4>2, <4>3 DEF Commit
    <3>2. form' = form
      BY <2>7 DEF Commit
    <3>3. QED
      BY <1>2, <3>1, <3>2
  <2>8. CASE EnqueuePublish(r)
    BY <1>1, <1>2, <2>8 DEF EnqueuePublish, SpendsOnNew
  <2>9. QED
    BY <1>3, <2>1, <2>2, <2>3, <2>4, <2>5, <2>6, <2>7, <2>8 DEF Handle
<1>4. ASSUME NEW r \in Requests, FailReply(r) PROVE SpendsOnNew'
  <2>1. \A c \in Contacts : usage[c] = Nobody => usage'[c] = Nobody
    BY <1>4 DEF FailReply
  <2>2. UNCHANGED <<form, pc, spends>>
    BY <1>4 DEF FailReply
  <2>3. QED
    BY <1>1, <1>2, <2>1, <2>2 DEF SpendsOnNew
<1>5. CASE Crash
  BY <1>2, <1>5 DEF Crash, SpendsOnNew
<1>6. CASE (\E c \in Existing : DeleteComment(c)) \/ ConnectionChanges \/ Tick \/ UNCHANGED vars
  BY <1>2, <1>6 DEF DeleteComment, ConnectionChanges, Tick, vars, SpendsOnNew
<1>7. ASSUME NEW r \in Requests, ConnectionFails(r) PROVE SpendsOnNew'
  BY <1>1, <1>2, <1>7 DEF ConnectionFails, SpendsOnNew
<1>8. QED
  BY <1>3, <1>4, <1>5, <1>6, <1>7 DEF Next

Exchange == <<form, Accepted, Failed, usage, answer>>

\* A step that accepts, fails, counts and tells nothing is none of Acceptance's business.
LEMMA NobodyNotices ==
  ASSUME UNCHANGED <<form, usage, answer>>, \A r \in Requests : rows'[r] = rows[r]
  PROVE  UNCHANGED Exchange
<1>1. Accepted' = Accepted
  BY DEF Accepted
<1>2. Failed' = Failed
  BY <1>1 DEF Failed, Accepted
<1>3. QED
  BY <1>1, <1>2 DEF Exchange

LEMMA SameCount == Atomic!Counted = Counted /\ (Atomic!Full <=> Cardinality(Counted) >= ContactLimit)
<1>1. \A S : Atomic!Cardinality(S) = Cardinality(S)
  BY DEF Atomic!Cardinality, Cardinality
<1>2. Atomic!Counted = Counted
  BY DEF Atomic!Counted, Counted
<1>3. QED
  BY <1>1, <1>2 DEF Atomic!Full

\* A failure tells the client nothing about its comment.
LEMMA FailureLeaves ==
  ASSUME AcceptInv, AnswersLast, NEW r \in Requests, pc[r] # "done",
         answer' = [answer EXCEPT ![r] = "INTERNAL_ERROR"], UNCHANGED <<form, rows, usage>>
  PROVE  Atomic!Next
<1>1. /\ \A s \in {r} : answer[s] = None
      /\ answer' = [s \in Requests |-> IF s \in {r} THEN "INTERNAL_ERROR" ELSE answer[s]]
  BY DEF AnswersLast, AcceptInv, TypeOK
<1>2. UNCHANGED <<form, Accepted, Failed, usage>>
  BY DEF Accepted, Failed
<1>3. Atomic!Leave({r}, "INTERNAL_ERROR")
  BY <1>1, <1>2 DEF Atomic!Leave
<1>4. QED
  BY <1>3 DEF Atomic!Next, Atomic!Unknown

\* An error goes to a request that has no comment.
LEMMA ErrorRefuses ==
  ASSUME AcceptInv, AnswersLast, NEW r \in Requests, pc[r] \notin {"enqueue", "done"},
         NEW error \in Errors \ Atomic!Unknown, answer' = [answer EXCEPT ![r] = error],
         UNCHANGED <<form, rows, usage>>,
         error = "QUOTA_EXCEEDED" =>
           /\ NeedsContact(r) /\ usage[Contact(r)] = Nobody
           /\ Cardinality(Counted) >= ContactLimit,
         error = "IDEMPOTENCY_KEY_REUSED" =>
           \E s \in Winner(r) : form[s].text # form[r].text
  PROVE  Atomic!Next
<1>1. r \notin Accepted /\ answer[r] = None
  BY DEF AcceptInv, Coordination, HandlersKnow, HandlerTruth, Accepted, AnswersLast
<1>2. UNCHANGED <<form, Accepted, Failed, usage>>
  BY DEF Accepted, Failed
<1>3. error = "QUOTA_EXCEEDED" =>
        Atomic!NeedsContact(r) /\ Atomic!Contact(r) \notin Atomic!Counted /\ Atomic!Full
  BY SameCount DEF Atomic!NeedsContact, Atomic!IsReply, Atomic!Contact,
     NeedsContact, IsReply, Contact, Counted
<1>4. error = "IDEMPOTENCY_KEY_REUSED" =>
        \E s \in Accepted : Atomic!SameKey(r, s) /\ ~Atomic!SameText(r, s)
  BY DEF Winner, Accepted, SameKey, Atomic!SameKey, Atomic!SameText
<1>5. Atomic!Refuse(r, error)
  BY <1>1, <1>2, <1>3, <1>4 DEF Atomic!Refuse, Atomic!Tell
<1>6. QED
  BY <1>5 DEF Atomic!Next

\* What a client is given was accepted, under its key and with its text.
LEMMA WinnerNamed ==
  ASSUME AcceptInv, AnswersLast, NEW r \in Requests, pc[r] \notin {"enqueue", "done"},
         NEW s \in Winner(r), AnswerWinner(r, s), UNCHANGED <<form, rows, usage>>
  PROVE  Atomic!Next
<1>1. s \in Requests /\ s \in Accepted /\ SameKey(r, s)
  BY DEF Winner, Accepted
<1>2. CASE form[s].text = form[r].text
  <2>1. Atomic!Tell(r, s)
    BY <1>2 DEF AnswerWinner, Answer, Atomic!Tell, AnswersLast, Accepted, Failed
  <2>2. Atomic!Name(r, s)
    BY <1>1, <1>2, <2>1 DEF Atomic!Name, Atomic!SameKey, Atomic!SameText, SameKey
  <2>3. QED
    BY <1>1, <2>2 DEF Atomic!Next
<1>3. CASE form[s].text # form[r].text
  <2>1. answer' = [answer EXCEPT ![r] = "IDEMPOTENCY_KEY_REUSED"]
    BY <1>3 DEF AnswerWinner, Answer
  <2>2. QED
    BY <1>3, <2>1, ErrorRefuses DEF Errors, Atomic!Unknown
<1>4. QED
  BY <1>2, <1>3

\* The commit is where a request is accepted, with its contact counted or known.
LEMMA CommitAccepts ==
  ASSUME AcceptInv, AcceptInv', AnswersLast, SpendsOnNew, NEW r \in Requests, Commit(r)
  PROVE  Atomic!Next
<1>1. /\ pc[r] = "commit" /\ UNCHANGED <<form, answer, spends>>
      /\ usage' = [c \in Contacts |-> IF spends[r] /\ c = Contact(r) THEN r ELSE usage[c]]
      /\ \A i \in Requests \ {r, form[r].to} : rows'[i] = rows[i]
      /\ pc'[r] = "enqueue"
  BY DEF Commit, Proceed, Go, Ids, AcceptInv, TypeOK
<1>2. /\ answer[r] = None /\ r \notin Accepted
      /\ form[r].to \notin Requests
      /\ spends[r] => NeedsContact(r)
      /\ NeedsContact(r) => Contact(r) \in Contacts
      /\ NeedsContact(r) /\ ~spends[r] => Accounted(r)
  BY <1>1, FormTypes, ContactTypes, AcceptAssumption DEF AcceptInv, Coordination, HandlersKnow,
     HandlerTruth, Accepted, AnswersLast
<1>3. \A s \in Accepted : ~Atomic!SameKey(r, s)
  BY <1>1 DEF Atomic!SameKey, SameKey, Accepted, AcceptInv, Coordination, KeysExclusive, HoldsKey
<1>4. rows'[r] # NoRow /\ rows'[r].status = "queued"
  <2>1. rows'[r] # NoRow
    <3>1. HandlerTruth(r)'
      BY DEF AcceptInv, Coordination, HandlersKnow
    <3>2. QED
      BY <1>1, <3>1 DEF HandlerTruth
  <2>2. rows'[r] = NewRow(r)
    BY <1>2 DEF Commit, Ids
  <2>3. QED
    BY <2>1, <2>2 DEF NewRow
<1>5. Accepted' = Accepted \cup {r}
  BY <1>1, <1>2, <1>4 DEF Accepted
<1>6. Failed' = Failed
  BY <1>1, <1>2, <1>4, <1>5 DEF Failed, Accepted
<1>7. Atomic!Count(r) \/ Atomic!CountNobody(r)
  <2> USE DEF Atomic!NeedsContact, Atomic!IsReply, Atomic!Contact, Atomic!Counted,
              NeedsContact, IsReply, Contact
  <2>1. CASE spends[r]
    <3>1. /\ usage[Contact(r)] = Nobody /\ ~(Cardinality(Counted) >= ContactLimit)
          /\ Contact(r) \in Contacts
      <4>1. Cardinality(Counted) < ContactLimit
        BY <1>1, <2>1 DEF AcceptInv, Coordination, LimitAhead
      <4>2. QED
        BY <1>1, <1>2, <2>1, <4>1, CountedFinite, AcceptAssumption DEF SpendsOnNew
    <3>2. usage' = [usage EXCEPT ![Contact(r)] = r]
      BY <1>1, <2>1 DEF AcceptInv, TypeOK
    <3>3. ~Atomic!Full
      BY <3>1, SameCount
    <3>4. QED
      BY <1>2, <2>1, <3>1, <3>2, <3>3 DEF Atomic!Count
  <2>2. CASE ~spends[r]
    <3>1. usage' = usage
      BY <1>1, <2>2 DEF AcceptInv, TypeOK
    <3>2. NeedsContact(r) => Contact(r) \in Counted
                             \/ \E s \in Failed : IsReply(s) /\ Contact(s) = Contact(r)
      BY <1>2, <2>2 DEF Accounted, Failed, Accepted
    <3>3. QED
      BY <3>1, <3>2 DEF Atomic!CountNobody, Counted
  <2>3. QED
    BY <2>1, <2>2
<1>8. Atomic!Accept(r)
  BY <1>1, <1>2, <1>3, <1>5, <1>6, <1>7 DEF Atomic!Accept
<1>9. QED
  BY <1>8 DEF Atomic!Next

LEMMA FailIsGiveUp ==
  ASSUME AcceptInv, AcceptInv', NEW r \in Requests, FailReply(r) PROVE Atomic!Next
<1>1. /\ rows[r] # NoRow /\ rows[r].status = "queued" /\ UNCHANGED <<form, answer>>
      /\ \A i \in Requests \ {r} : rows'[i] = rows[i]
      /\ usage' = [c \in Contacts |-> IF usage[c] = r THEN Nobody ELSE usage[c]]
  BY DEF FailReply, handlerVars
<1>2. rows'[r] # NoRow /\ rows'[r].status = "failed"
  <2>1. rows \in [Ids -> Comment \cup {NoRow}] /\ r \in Ids /\ NoRow \notin Comment
    BY AcceptAssumption DEF AcceptInv, TypeOK, Ids
  <2>2. rows[r] \in Comment
    BY <1>1, <2>1
  <2>3. PICK u : u = [rows[r] EXCEPT !.status = "failed"]
    OBVIOUS
  <2>4. u \in Comment /\ u.status = "failed"
    BY <2>2, <2>3 DEF Comment
  <2>5. rows'[r] = u
    BY <2>1, <2>3 DEF FailReply
  <2>6. QED
    BY <2>1, <2>4, <2>5
<1>3. Accepted' = Accepted
  BY <1>1, <1>2 DEF Accepted
<1>4. r \in Accepted \ Failed /\ Failed' = Failed \cup {r}
  BY <1>1, <1>2, <1>3 DEF Failed, Accepted
<1>5. Atomic!GiveUp(r)
  BY <1>1, <1>3, <1>4 DEF Atomic!GiveUp
<1>6. QED
  BY <1>5 DEF Atomic!Next

LEMMA HandleImplements ==
  ASSUME AcceptInv, AcceptInv', AnswersLast, SpendsOnNew, NEW r \in Requests, Handle(r)
  PROVE  Atomic!Next \/ UNCHANGED Exchange
<1> USE DEF HandlerOnly, tableVars
<1>1. ASSUME NEW next, Proceed(r, next), UNCHANGED <<form, rows, usage>> PROVE UNCHANGED Exchange
  BY <1>1, NobodyNotices DEF Proceed
<1>2. \* An error that gives no reason to be checked.
      ASSUME NEW error \in Errors \ (Atomic!Unknown \cup {"QUOTA_EXCEEDED", "IDEMPOTENCY_KEY_REUSED"}),
             Answer(r, error), UNCHANGED <<form, rows, usage>>, pc[r] \notin {"enqueue", "done"}
      PROVE  Atomic!Next
  BY <1>2, ErrorRefuses DEF Answer
<1>3. CASE LoadTarget(r)
  <2>1. pc[r] = "load" /\ UNCHANGED <<form, rows, usage>>
    BY <1>3 DEF LoadTarget
  <2>2. \/ Answer(r, "REPLY_DEPTH_EXCEEDED") \/ Answer(r, "TEXT_TOO_LONG")
        \/ Answer(r, "PARENT_NOT_POSTED") \/ Proceed(r, "account")
    BY <1>3 DEF LoadTarget
  <2>3. QED
    BY <1>1, <1>2, <2>1, <2>2 DEF Errors, Atomic!Unknown
<1>4. CASE CheckAccount(r)
  <2>1. /\ pc[r] = "account" /\ UNCHANGED <<form, rows, usage>>
        /\ Answer(r, "ACCOUNT_DISCONNECTED") \/ Proceed(r, "lookup")
    BY <1>4 DEF CheckAccount
  <2>2. QED
    BY <1>1, <1>2, <2>1 DEF Errors, Atomic!Unknown
<1>5. CASE ResolveIdempotency(r)
  <2>1. /\ pc[r] = "lookup" /\ UNCHANGED <<form, rows, usage>>
        /\ Proceed(r, "begin") \/ \E s \in Winner(r) : AnswerWinner(r, s)
    BY <1>5 DEF ResolveIdempotency
  <2>2. QED
    BY <1>1, <2>1, WinnerNamed
<1>6. CASE ResolveIdempotencyConflict(r)
  <2>1. /\ pc[r] = "conflict" /\ UNCHANGED <<form, rows, usage>>
        /\ \E s \in Winner(r) : AnswerWinner(r, s)
    BY <1>6 DEF ResolveIdempotencyConflict
  <2>2. QED
    BY <2>1, WinnerNamed
<1>7. CASE BeginTransaction(r) \/ InsertQueued(r) \/ Reserve(r)
  <2>1. UNCHANGED <<form, rows, usage>> /\ \E next : Proceed(r, next)
    BY <1>7 DEF BeginTransaction, InsertQueued, Reserve
  <2>2. QED
    BY <1>1, <2>1
<1>8. CASE BumpParentAndRoot(r)
  <2>1. /\ pc[r] = "bump" /\ UNCHANGED <<form, rows, usage>>
        /\ Answer(r, "INTERNAL_ERROR") \/ \E next : Proceed(r, next)
    BY <1>8 DEF BumpParentAndRoot
  <2>2. QED
    BY <1>1, <2>1, FailureLeaves DEF Answer
<1>9. CASE CheckLimit(r)
  <2>1. pc[r] = "limit" /\ UNCHANGED <<form, rows, usage>>
    BY <1>9 DEF CheckLimit
  <2>2. NeedsContact(r) /\ usage[Contact(r)] = Nobody
    BY <2>1 DEF SpendsOnNew, AcceptInv, Coordination, HandlersKnow, HandlerTruth
  <2>3. CASE Cardinality(Counted) >= ContactLimit
    <3>1. answer' = [answer EXCEPT ![r] = "QUOTA_EXCEEDED"]
      BY <1>9, <2>3 DEF CheckLimit, Answer
    <3>2. QED
      BY <2>1, <2>2, <2>3, <3>1, ErrorRefuses DEF Errors, Atomic!Unknown
  <2>4. CASE ~(Cardinality(Counted) >= ContactLimit)
    BY <1>1, <1>9, <2>1, <2>4 DEF CheckLimit
  <2>5. QED
    BY <2>3, <2>4
<1>10. CASE Commit(r)
  BY <1>10, CommitAccepts
<1>11. CASE EnqueuePublish(r)
  <2>1. r \in Accepted /\ answer[r] = None
    BY <1>11 DEF EnqueuePublish, AcceptInv, Coordination, HandlersKnow, HandlerTruth, Accepted, AnswersLast
  <2>2. Atomic!Tell(r, r)
    BY <1>11, <2>1 DEF EnqueuePublish, Answer, Atomic!Tell, Accepted, Failed
  <2>3. Atomic!Name(r, r)
    BY <2>1, <2>2 DEF Atomic!Name
  <2>4. QED
    BY <2>3 DEF Atomic!Next
<1>12. QED
  BY <1>3, <1>4, <1>5, <1>6, <1>7, <1>8, <1>9, <1>10, <1>11 DEF Handle

LEMMA AcceptanceStep ==
  ASSUME AcceptInv, AcceptInv', AnswersLast, SpendsOnNew, [Next]_vars
  PROVE  [Atomic!Next]_Exchange
<1>1. ASSUME NEW r \in Requests, Arrive(r) PROVE UNCHANGED Exchange
  BY <1>1, NobodyNotices DEF Arrive, Proceed, HandlerOnly, tableVars
<1>2. ASSUME NEW c \in Existing, DeleteComment(c) PROVE UNCHANGED Exchange
  <2>1. rows[c].parent \in Existing \cup {Post} /\ Post \notin Ids /\ Requests \cap Existing = {}
    BY AcceptAssumption DEF AcceptInv, Coordination, ParentsKept
  <2>2. \A r \in Requests : rows'[r] = rows[r]
    BY <1>2, <2>1 DEF DeleteComment, Ids
  <2>3. QED
    BY <1>2, <2>2, NobodyNotices DEF DeleteComment, handlerVars
<1>3. CASE Crash
  <2>1. PICK lost \in SUBSET Requests :
           /\ \A r \in lost : pc[r] # "done"
           /\ answer' = [r \in Requests |-> IF r \in lost THEN "dropped" ELSE answer[r]]
    BY <1>3 DEF Crash
  <2>2. UNCHANGED <<form, Accepted, Failed, usage>>
    BY <1>3 DEF Crash, tableVars, Accepted, Failed
  <2>3. Atomic!Leave(lost, "dropped")
    BY <2>1, <2>2 DEF Atomic!Leave, AnswersLast
  <2>4. QED
    BY <2>3 DEF Atomic!Next, Atomic!Unknown
<1>4. CASE ConnectionChanges \/ Tick \/ UNCHANGED vars
  BY <1>4, NobodyNotices DEF ConnectionChanges, Tick, vars, handlerVars, tableVars
<1>5. ASSUME NEW r \in Requests, ConnectionFails(r) PROVE Atomic!Next
  BY <1>5, FailureLeaves DEF ConnectionFails, Answer, tableVars
<1>6. QED
  BY <1>1, <1>2, <1>3, <1>4, <1>5, HandleImplements, FailIsGiveUp DEF Next

\* However the handlers interleave, wait, crash and race, each request is accepted in one
\* step or not at all, and every answer is true when it is given and stays so.
THEOREM AcceptanceImplemented == Spec => ImplementsAcceptance
<1>1. Init => Atomic!Init /\ AnswersLast /\ SpendsOnNew
  <2> SUFFICES ASSUME Init PROVE Atomic!Init /\ AnswersLast /\ SpendsOnNew
    OBVIOUS
  <2>1. \A r \in Requests : r \in Ids /\ rows[r] = NoRow
    BY DEF Init, Ids
  <2>2. Accepted = {} /\ Failed = {}
    BY <2>1 DEF Accepted, Failed
  <2>3. QED
    BY <2>2 DEF Init, Atomic!Init, AnswersLast, SpendsOnNew
<1>2. AcceptInv /\ AnswersLast /\ SpendsOnNew /\ [Next]_vars => AnswersLast' /\ SpendsOnNew'
  BY AnswersLastStep, SpendsOnNewStep
<1>3. AcceptInv /\ AcceptInv' /\ AnswersLast /\ SpendsOnNew /\ [Next]_vars => [Atomic!Next]_Exchange
  BY AcceptanceStep
<1>4. QED
  BY <1>1, <1>2, <1>3, AcceptInvHolds, PTL
     DEF Spec, ImplementsAcceptance, Atomic!Spec, Atomic!vars, Exchange

-------------------------------------------------------------------------------
(***************************************************************************)
(* For any table, requests, selections, ids and page size: a client that   *)
(* follows the cursor misses no row that matched all along and gets none   *)
(* twice.  What the client has lies at or before its cursor, what it must  *)
(* still get lies behind it, and nothing moves a row across it.            *)
(***************************************************************************)

\* Where the client is.
WalkInv ==
  /\ walk.cursor # Start => walk.cursor \in Committed
  /\ walk.steady \subseteq Matching
  /\ ~walk.finished /\ walk.cursor = Start => walk.returned = {} /\ walk.steady = {}
  /\ ~walk.finished /\ walk.cursor # Start =>
       /\ \A i \in walk.returned : ~Follows(asked.order, walk.cursor, i)
       /\ \A i \in walk.steady : i \in walk.returned \/ Follows(asked.order, walk.cursor, i)

ListInv == AcceptInv /\ ListTypeOK /\ WalkInv /\ PagesExact

-------------------------------------------------------------------------------
(* The order of the rows. *)

LEMMA RowTypes ==
  ASSUME TypeOK, NEW i \in Committed
  PROVE  rows[i].at \in Int /\ Rank[i] \in Int /\ i \in Ids
<1>1. rows[i] \in Comment /\ i \in Ids
  BY DEF TypeOK, Committed
<1>2. QED
  BY <1>1, ListingAssumption, AcceptAssumption DEF Comment

\* (occurred_at, id) is a strict total order, in either direction.
LEMMA EarlierIsTotal ==
  ASSUME TypeOK
  PROVE  /\ \A i \in Committed : ~Earlier(i, i)
         /\ \A i, j, k \in Committed : Earlier(i, j) /\ Earlier(j, k) => Earlier(i, k)
         /\ \A i, j \in Committed : i # j => Earlier(i, j) \/ Earlier(j, i)
<1>1. \A i \in Committed : rows[i].at \in Int /\ Rank[i] \in Int /\ i \in Ids
  BY RowTypes
<1>2. \A i, j \in Committed : Rank[i] = Rank[j] => i = j
  BY <1>1, ListingAssumption
<1>3. QED
  BY <1>1, <1>2 DEF Earlier

LEMMA FollowsIsTotal ==
  ASSUME TypeOK, NEW o \in Orders
  PROVE  /\ \A i \in Committed : ~Follows(o, i, i)
         /\ \A i, j, k \in Committed : Follows(o, i, j) /\ Follows(o, j, k) => Follows(o, i, k)
         /\ \A i, j \in Committed : i # j => Follows(o, i, j) \/ Follows(o, j, i)
  BY EarlierIsTotal DEF Follows

\* What nobody follows comes last.
LEMMA LastExists ==
  ASSUME TypeOK, NEW o \in Orders, NEW S, S \subseteq Committed, S # {}
  PROVE  \E i \in S : \A j \in S \ {i} : Follows(o, j, i)
<1> DEFINE after(i) == {j \in S : Follows(o, i, j)}
           T        == {after(i) : i \in S}
<1>1. IsFiniteSet(S)
  <2>1. S \in SUBSET Ids
    BY DEF Committed
  <2>2. QED
    BY <2>1, ContactsFinite, FS_Subset
<1>2. IsWellFoundedOn(StrictSubsetOrdering(S), SUBSET S)
  BY <1>1, FS_StrictSubsetOrderingWellFounded, FS_FiniteSubsetsOfFinite
<1>3. T \subseteq SUBSET S /\ T # {}
  OBVIOUS
<1> HIDE DEF T
<1>4. \E x \in T : \A y \in T : ~(<<y, x>> \in StrictSubsetOrdering(S))
  BY <1>2, <1>3, WFMin
<1>5. PICK i \in S : \A y \in T : ~(<<y, after(i)>> \in StrictSubsetOrdering(S))
  BY <1>4 DEF T
<1>6. \A j \in S : ~Follows(o, i, j)
  <2> SUFFICES ASSUME NEW j \in S, Follows(o, i, j) PROVE FALSE
    OBVIOUS
  <2>1. after(j) \subseteq after(i)
    BY FollowsIsTotal
  <2>2. j \in after(i) /\ j \notin after(j)
    BY FollowsIsTotal
  <2>3. <<after(j), after(i)>> \in StrictSubsetOrdering(S)
    BY <2>1, <2>2 DEF StrictSubsetOrdering
  <2>4. after(j) \in T
    BY DEF T
  <2>5. QED
    BY <1>5, <2>3, <2>4
<1>7. \A j \in S \ {i} : Follows(o, j, i)
  BY <1>6, FollowsIsTotal
<1>8. QED
  BY <1>7

-------------------------------------------------------------------------------
(* A page. *)

\* What comes first in S, with everything that comes before it, all of S if it fits, and
\* something unless there is nothing.
LEMMA FirstOfIsPrefix ==
  ASSUME TypeOK, NEW o \in Orders, NEW S, S \subseteq Committed
  PROVE  LET page == FirstOf(o, S, PageSize) IN
         /\ page \subseteq S
         /\ \A i \in page, j \in S : Follows(o, j, i) => j \in page
         /\ Cardinality(S) <= PageSize => page = S
         /\ Cardinality(S) > PageSize => page # {}
<1> DEFINE before(i) == {j \in S : Follows(o, j, i)}
           page      == FirstOf(o, S, PageSize)
<1>1. IsFiniteSet(S) /\ Cardinality(S) \in Nat /\ PageSize \in Nat \ {0}
  <2>1. S \in SUBSET Ids
    BY DEF Committed
  <2>2. QED
    BY <2>1, ContactsFinite, FS_Subset, FS_CardinalityType, ListingAssumption
<1>2. \A i \in S : IsFiniteSet(before(i)) /\ Cardinality(before(i)) \in Nat
  <2> SUFFICES ASSUME NEW i \in S PROVE IsFiniteSet(before(i)) /\ Cardinality(before(i)) \in Nat
    OBVIOUS
  <2>1. before(i) \in SUBSET S
    OBVIOUS
  <2>2. QED
    BY <1>1, <2>1, FS_Subset, FS_CardinalityType
<1>3. \A i \in S : i \in page <=> Cardinality(before(i)) < PageSize
  BY DEF FirstOf
<1>4. page \subseteq S
  BY DEF FirstOf
<1> HIDE DEF page
<1>5. ASSUME NEW i \in page, NEW j \in S, Follows(o, j, i) PROVE j \in page
  <2>1. before(j) \in SUBSET before(i)
    BY <1>4, <1>5, FollowsIsTotal
  <2>2. i \in S /\ Cardinality(before(i)) < PageSize
    BY <1>3, <1>4
  <2>3. Cardinality(before(j)) <= Cardinality(before(i))
    BY <1>2, <2>1, <2>2, FS_Subset
  <2>4. QED
    BY <1>1, <1>2, <1>3, <2>2, <2>3
<1>6. ASSUME Cardinality(S) <= PageSize PROVE page = S
  <2>1. ASSUME NEW i \in S PROVE i \in page
    <3>1. before(i) \in SUBSET (S \ {i})
      BY FollowsIsTotal
    <3>2. IsFiniteSet(S \ {i}) /\ Cardinality(S \ {i}) = Cardinality(S) - 1
      BY <1>1, FS_RemoveElement
    <3>3. Cardinality(before(i)) <= Cardinality(S) - 1
      BY <3>1, <3>2, FS_Subset
    <3>4. Cardinality(before(i)) \in Nat
      BY <1>2
    <3> HIDE DEF before
    <3>5. Cardinality(before(i)) < PageSize
      BY <1>1, <1>6, <3>3, <3>4
    <3>6. QED
      BY <1>3, <3>5
  <2>2. QED
    BY <1>4, <2>1
<1>7. ASSUME Cardinality(S) > PageSize PROVE page # {}
  <2>1. S # {}
    BY <1>1, <1>7, FS_EmptySet
  <2>2. PICK opposite \in Orders : \A i, j : Follows(opposite, i, j) <=> Follows(o, j, i)
    <3>1. CASE o = "asc"
      BY <3>1 DEF Orders, Follows
    <3>2. CASE o = "desc"
      BY <3>2 DEF Orders, Follows
    <3>3. QED
      BY <3>1, <3>2 DEF Orders
  <2>3. PICK i \in S : \A j \in S \ {i} : Follows(opposite, j, i)
    BY <2>1, LastExists
  <2>4. before(i) = {}
    BY <2>2, <2>3, FollowsIsTotal
  <2>5. QED
    BY <1>1, <1>3, <2>4, FS_EmptySet
<1>8. QED
  BY <1>4, <1>5, <1>6, <1>7 DEF page

-------------------------------------------------------------------------------
(* The client, and everybody else under it. *)

\* A row stays, and where it is in the order.
LEMMA PlacesStay ==
  ASSUME AcceptInv, Next
  PROVE  \A i \in Committed : i \in Committed' /\ rows'[i].at = rows[i].at
<1> SUFFICES ASSUME NEW i \in Committed PROVE i \in Committed' /\ rows'[i].at = rows[i].at
  OBVIOUS
<1>1. AcceptInv'
  BY StepInv
<1>2. i \in Ids /\ rows[i] \in Comment /\ rows[i] # NoRow
  BY DEF AcceptInv, TypeOK, Committed
<1>3. \A i1 \in Ids : rows'[i1] \in Comment \cup {NoRow}
  BY <1>1 DEF AcceptInv, TypeOK
<1>4. CASE UNCHANGED rows
  BY <1>4 DEF Committed
<1>5. ASSUME NEW r \in Requests, Commit(r) PROVE i \in Committed' /\ rows'[i].at = rows[i].at
  <2>1. i # r
    BY <1>2, <1>5 DEF Commit, AcceptInv, Coordination, HandlersKnow, HandlerTruth
  <2>2. rows'[i] = rows[i] \/ rows'[i] = [rows[i] EXCEPT !.replies = @ + 1]
    BY <1>2, <1>5, <2>1 DEF Commit
  <2>3. rows'[i] \in Comment /\ rows'[i].at = rows[i].at
    BY <1>2, <2>2 DEF Comment
  <2>4. QED
    BY <1>2, <2>3, AcceptAssumption DEF Committed
<1>6. ASSUME NEW r \in Requests, FailReply(r)
      PROVE  i \in Committed' /\ rows'[i].at = rows[i].at
  <2>1. rows'[i] = rows[i] \/ rows'[i] = [rows[i] EXCEPT !.status = "failed"]
    BY <1>2, <1>6 DEF FailReply, AcceptInv, TypeOK
  <2>2. rows'[i] \in Comment /\ rows'[i].at = rows[i].at
    BY <1>2, <2>1 DEF Comment
  <2>3. QED
    BY <1>2, <2>2, AcceptAssumption DEF Committed
<1>7. ASSUME NEW c \in Existing, DeleteComment(c)
      PROVE  i \in Committed' /\ rows'[i].at = rows[i].at
  <2>1. \/ rows'[i] = rows[i] \/ rows'[i] = [rows[i] EXCEPT !.status = "deleted"]
        \/ rows'[i] = [rows[i] EXCEPT !.replies = @ - 1]
    BY <1>2, <1>7 DEF DeleteComment
  <2>2. rows'[i].at = rows[i].at
    BY <1>2, <2>1 DEF Comment
  <2>3. i \in Committed'
    <3>1. CASE i \in Existing
      BY <1>1, <3>1 DEF AcceptInv, TypeOK
    <3>2. CASE i \notin Existing
      <4>1. i # c /\ i # rows[c].parent
        <5>1. rows[c] \in Comment /\ i # Post
          BY <1>2, AcceptAssumption DEF AcceptInv, TypeOK, Committed
        <5>2. QED
          BY <3>2, <5>1 DEF Comment
      <4>2. rows'[i] = rows[i]
        BY <1>2, <1>7, <4>1 DEF DeleteComment
      <4>3. QED
        BY <1>2, <4>2 DEF Committed
    <3>3. QED
      BY <3>1, <3>2
  <2>4. QED
    BY <2>2, <2>3
<1>8. QED
  BY <1>4, <1>5, <1>6, <1>7
     DEF Next, Handle, Arrive, LoadTarget, CheckAccount, ResolveIdempotency, BeginTransaction,
         InsertQueued, BumpParentAndRoot, Reserve, CheckLimit, EnqueuePublish,
         ResolveIdempotencyConflict, ConnectionFails, Crash, ConnectionChanges, Tick, HandlerOnly,
         tableVars

LEMMA ListInitInv == ListInit => ListInv
<1> SUFFICES ASSUME ListInit PROVE ListInv
  OBVIOUS
<1>1. AcceptInv
  BY InitInv DEF ListInit
<1>2. /\ asked \in [selection : Selections, order : Orders]
      /\ walk = [cursor |-> Start, finished |-> FALSE,
                 returned |-> {}, repeated |-> {}, steady |-> {}]
  BY DEF ListInit
<1>3. ListTypeOK
  BY <1>1, <1>2 DEF AcceptInv, ListTypeOK
<1>4. WalkInv /\ PagesExact
  BY <1>2 DEF WalkInv, PagesExact
<1>5. QED
  BY <1>1, <1>3, <1>4 DEF ListInv

\* The table changes: the client stands where it stood, and what it must get only shrinks.
LEMMA TableChangesInv == ASSUME ListInv, TableChanges PROVE ListInv'
<1>1. Next /\ asked' = asked /\ walk' = [walk EXCEPT !.steady = @ \cap Matching']
  BY DEF TableChanges
<1>2. AcceptInv /\ AcceptInv' /\ TypeOK'
  BY <1>1, StepInv DEF ListInv, AcceptInv
<1>3. \A i \in Committed : i \in Committed' /\ rows'[i].at = rows[i].at
  BY <1>1, <1>2, PlacesStay
<1>4. /\ walk'.cursor = walk.cursor /\ walk'.finished = walk.finished
      /\ walk'.returned = walk.returned /\ walk'.repeated = walk.repeated
      /\ walk'.steady = walk.steady \cap Matching'
  BY <1>1 DEF ListInv, ListTypeOK
<1>5. ListTypeOK'
  <2>1. walk' \in [cursor: Ids \cup {Start}, finished: BOOLEAN,
                   returned: SUBSET Ids, repeated: SUBSET Ids, steady: SUBSET Ids]
    BY <1>1 DEF ListInv, ListTypeOK
  <2>2. UNION {walk'.returned, walk'.repeated, walk'.steady} \subseteq Committed'
    BY <1>3, <1>4 DEF ListInv, ListTypeOK
  <2>3. asked' \in [selection : Selections, order : Orders]
    BY <1>1 DEF ListInv, ListTypeOK
  <2>4. QED
    BY <1>2, <2>1, <2>2, <2>3 DEF ListTypeOK
<1>6. WalkInv'
  <2>1. walk.returned \subseteq Committed /\ walk.steady \subseteq Committed
    BY DEF ListInv, ListTypeOK
  <2>2. walk.cursor # Start => walk.cursor \in Committed
    BY DEF ListInv, WalkInv
  <2>3. /\ walk'.cursor # Start => walk'.cursor \in Committed'
        /\ walk'.steady \subseteq Matching'
        /\ ~walk'.finished /\ walk'.cursor = Start => walk'.returned = {} /\ walk'.steady = {}
    BY <1>3, <1>4, <2>2 DEF ListInv, WalkInv
  <2>4. ASSUME ~walk.finished, walk.cursor # Start
        PROVE  /\ \A i \in walk.returned : ~Follows(asked.order, walk.cursor, i)'
               /\ \A i \in walk'.steady :
                    i \in walk.returned \/ Follows(asked.order, walk.cursor, i)'
    <3>1. /\ \A i \in walk.returned : ~Follows(asked.order, walk.cursor, i)
          /\ \A i \in walk.steady :
               i \in walk.returned \/ Follows(asked.order, walk.cursor, i)
      BY <2>4 DEF ListInv, WalkInv
    <3>2. \A i \in Committed : Follows(asked.order, walk.cursor, i)'
                               <=> Follows(asked.order, walk.cursor, i)
      <4>1. PICK u \in Committed : walk.cursor = u
        BY <2>2, <2>4
      <4>2. \A i \in Committed : Follows(asked.order, u, i)' <=> Follows(asked.order, u, i)
        BY <1>1, <1>3 DEF Follows, Earlier
      <4>3. \A i : Follows(asked.order, walk.cursor, i)' <=> Follows(asked.order, u, i)'
        BY <1>4, <4>1 DEF Follows, Earlier
      <4>4. QED
        BY <4>1, <4>2, <4>3
    <3>3. QED
      BY <1>4, <2>1, <3>1, <3>2
  <2>5. QED
    BY <1>4, <2>3, <2>4 DEF WalkInv
<1>7. PagesExact'
  BY <1>4 DEF ListInv, PagesExact
<1>8. QED
  BY <1>2, <1>5, <1>6, <1>7 DEF ListInv

\* One page.
LEMMA ListPageInv ==
  ASSUME ListInv, NEW order \in Orders, ListPage(order) PROVE ListInv'
<1>1. /\ ~walk.finished /\ order = asked.order /\ UNCHANGED <<vars, asked>>
  BY DEF ListPage, CursorAccepted
<1>2. AcceptInv /\ TypeOK /\ AcceptInv'
  BY <1>1, StepInv DEF ListInv, AcceptInv
<1> DEFINE S       == AfterCursor(order)
           page    == FirstOf(order, S, PageSize)
           hasMore == Cardinality(S) > PageSize
           last    == IF hasMore
                      THEN CHOOSE i \in page : \A j \in page \ {i} : Follows(order, j, i)
                      ELSE walk.cursor
<1>3. walk' = [walk EXCEPT
        !.returned = @ \cup page,
        !.repeated = @ \cup (page \cap walk.returned),
        !.steady   = IF walk.cursor = Start THEN Matching ELSE @,
        !.finished = ~hasMore,
        !.cursor   = IF hasMore
                     THEN CHOOSE i \in page : \A j \in page \ {i} : Follows(order, j, i)
                     ELSE @]
  BY DEF ListPage
<1>4. walk' = [walk EXCEPT
        !.returned = walk.returned \cup page,
        !.repeated = walk.repeated \cup (page \cap walk.returned),
        !.steady   = IF walk.cursor = Start THEN Matching ELSE walk.steady,
        !.finished = ~hasMore,
        !.cursor   = last]
  BY <1>3, Zenon
<1>5. S \subseteq Matching /\ Matching \subseteq Committed /\ Committed \subseteq Ids
  BY DEF AfterCursor, Matching, Committed
<1>6. /\ page \subseteq S
      /\ \A i \in page, j \in S : Follows(order, j, i) => j \in page
      /\ Cardinality(S) <= PageSize => page = S
      /\ Cardinality(S) > PageSize => page # {}
  BY <1>2, <1>5, FirstOfIsPrefix
<1>7. ~hasMore => page = S
  <2>1. Cardinality(S) \in Nat /\ PageSize \in Nat
    BY <1>5, ContactsFinite, FS_Subset, FS_CardinalityType, ListingAssumption
  <2>2. QED
    BY <1>6, <2>1
<1>8. hasMore => last \in page /\ \A j \in page \ {last} : Follows(order, j, last)
  <2> SUFFICES ASSUME hasMore
               PROVE  last \in page /\ \A j \in page \ {last} : Follows(order, j, last)
    OBVIOUS
  <2>1. page # {} /\ page \subseteq Committed
    BY <1>5, <1>6
  <2>2. \E i \in page : \A j \in page \ {i} : Follows(order, j, i)
    BY <1>2, <2>1, LastExists
  <2>3. QED
    BY <2>2
<1>9. hasMore \in BOOLEAN /\ (~hasMore => last = walk.cursor)
  OBVIOUS
<1>10. /\ walk.cursor = Start => S = Matching
       /\ walk.cursor # Start => \A i \in Matching : i \in S <=> Follows(order, walk.cursor, i)
  BY DEF AfterCursor
<1> HIDE DEF S, page, hasMore, last
<1>11. walk = [cursor |-> walk.cursor, finished |-> walk.finished, returned |-> walk.returned,
               repeated |-> walk.repeated, steady |-> walk.steady]
  BY DEF ListInv, ListTypeOK
<1>12. /\ walk' = [cursor |-> last, finished |-> ~hasMore,
                   returned |-> walk.returned \cup page,
                   repeated |-> walk.repeated \cup (page \cap walk.returned),
                   steady |-> IF walk.cursor = Start THEN Matching ELSE walk.steady]
       /\ walk'.cursor = last /\ (walk'.finished <=> ~hasMore) /\ walk'.finished \in BOOLEAN
       /\ walk'.returned = walk.returned \cup page
       /\ walk'.repeated = walk.repeated \cup (page \cap walk.returned)
       /\ walk'.steady = IF walk.cursor = Start THEN Matching ELSE walk.steady
  <2>1. walk' = [cursor |-> last, finished |-> ~hasMore,
                 returned |-> walk.returned \cup page,
                 repeated |-> walk.repeated \cup (page \cap walk.returned),
                 steady |-> IF walk.cursor = Start THEN Matching ELSE walk.steady]
    BY <1>4, <1>11
  <2>2. QED
    BY <2>1, <1>9
<1>13. /\ walk.returned \subseteq Committed /\ walk.steady \subseteq Matching
       /\ walk.repeated = {}
       /\ walk.cursor # Start => walk.cursor \in Committed
       /\ walk.cursor = Start => walk.returned = {} /\ walk.steady = {}
       /\ walk.cursor # Start =>
            /\ \A i \in walk.returned : ~Follows(order, walk.cursor, i)
            /\ \A i \in walk.steady : i \in walk.returned \/ Follows(order, walk.cursor, i)
  BY <1>1 DEF ListInv, ListTypeOK, WalkInv, PagesExact
<1>14. \A i \in S : walk.cursor # Start => Follows(order, walk.cursor, i)
  BY <1>5, <1>10
\* What it must still get is on this page or after it.
<1>15. walk'.steady \subseteq walk.returned \cup S
  BY <1>10, <1>12, <1>13
<1>16. page \cap walk.returned = {}
  BY <1>6, <1>13, <1>14
<1>17. /\ \A i, j : Follows(order, i, j)' <=> Follows(order, i, j)
       /\ Committed' = Committed /\ Matching' = Matching
  <2>1. UNCHANGED <<rows, asked>>
    BY <1>1 DEF vars, tableVars
  <2>2. Committed' = Committed
    BY <2>1 DEF Committed
  <2>3. \A i, j : Follows(order, i, j)' <=> Follows(order, i, j)
    BY <2>1 DEF Follows, Earlier
  <2>4. Matching' = Matching
    BY <2>1, <2>2 DEF Matching, Selected, VisibleInList
  <2>5. QED
    BY <2>2, <2>3, <2>4
<1>18. ListTypeOK'
  <2>1. last \in Ids \cup {Start}
    BY <1>5, <1>6, <1>8, <1>9, <1>13
  <2>2. walk' \in [cursor: Ids \cup {Start}, finished: BOOLEAN,
                   returned: SUBSET Ids, repeated: SUBSET Ids, steady: SUBSET Ids]
    <3>1. /\ walk'.returned \subseteq Ids /\ walk'.repeated \subseteq Ids
          /\ walk'.steady \subseteq Ids
      BY <1>5, <1>6, <1>12, <1>13
    <3>2. walk' = [cursor |-> walk'.cursor, finished |-> walk'.finished,
                   returned |-> walk'.returned, repeated |-> walk'.repeated,
                   steady |-> walk'.steady]
      BY <1>12
    <3>3. QED
      BY <1>12, <2>1, <3>1, <3>2
  <2>3. UNION {walk'.returned, walk'.repeated, walk'.steady} \subseteq Committed'
    BY <1>5, <1>6, <1>12, <1>13, <1>17
  <2>4. QED
    BY <1>1, <1>2, <2>2, <2>3 DEF ListInv, ListTypeOK, AcceptInv
<1>19. WalkInv'
  <2>1. walk'.cursor # Start => walk'.cursor \in Committed'
    BY <1>5, <1>6, <1>8, <1>9, <1>12, <1>13, <1>17
  <2>2. walk'.steady \subseteq Matching'
    BY <1>12, <1>13, <1>17
  <2>3. CASE hasMore
    <3>1. last \in S /\ last \in Committed /\ last # Start
      BY <1>5, <1>6, <1>8, <2>3, ListingAssumption
    <3>2. ASSUME NEW i \in walk.returned \cup page PROVE ~Follows(order, last, i)
      <4>1. i \in Committed
        BY <1>5, <1>6, <1>13
      <4>2. CASE i \in page
        BY <1>2, <1>8, <2>3, <3>1, <4>1, <4>2, FollowsIsTotal
      <4>3. CASE i \in walk.returned
        <5>1. walk.cursor # Start /\ walk.cursor \in Committed
          BY <1>13, <4>3
        <5>2. Follows(order, walk.cursor, last) /\ ~Follows(order, walk.cursor, i)
          BY <1>13, <1>14, <3>1, <4>3, <5>1
        <5>3. QED
          BY <1>2, <3>1, <4>1, <5>1, <5>2, FollowsIsTotal
      <4>4. QED
        BY <4>2, <4>3
    <3>3. ASSUME NEW i \in S PROVE i \in page \/ Follows(order, last, i)
      BY <1>2, <1>5, <1>6, <1>8, <2>3, <3>1, FollowsIsTotal
    <3>4. \A i : Follows(asked.order, walk.cursor, i)' <=> Follows(order, last, i)
      <4>1. asked'.order = order /\ walk'.cursor = last /\ rows' = rows
        BY <1>1, <1>12 DEF vars, tableVars
      <4>2. QED
        BY <4>1 DEF Follows, Earlier
    <3>5. QED
      BY <1>12, <1>15, <2>1, <2>2, <2>3, <3>1, <3>2, <3>3, <3>4 DEF WalkInv
  <2>4. CASE ~hasMore
    BY <1>12, <2>1, <2>2, <2>4 DEF WalkInv
  <2>5. QED
    BY <2>3, <2>4
<1>20. PagesExact'
  BY <1>7, <1>12, <1>13, <1>15, <1>16 DEF PagesExact
<1>21. QED
  BY <1>2, <1>18, <1>19, <1>20 DEF ListInv

-------------------------------------------------------------------------------
(* The theorems. *)

LEMMA ListInvHolds == ListSpec => []ListInv
<1>1. ListInit => ListInv
  BY ListInitInv
<1>2. ListInv /\ [ListNext]_listVars => ListInv'
  <2> SUFFICES ASSUME ListInv, [ListNext]_listVars PROVE ListInv'
    OBVIOUS
  <2>1. CASE TableChanges
    BY <2>1, TableChangesInv
  <2>2. ASSUME NEW order \in Orders, ListPage(order) PROVE ListInv'
    BY <2>2, ListPageInv
  <2>3. CASE UNCHANGED listVars
    <3>1. UNCHANGED vars /\ walk' = walk /\ asked' = asked
      BY <2>3 DEF listVars
    <3>2. AcceptInv'
      BY <3>1, StepInv DEF ListInv
    <3>3. rows' = rows
      BY <3>1 DEF vars, tableVars
    <3>4. Committed' = Committed
      BY <3>3 DEF Committed
    <3>5. Matching' = Matching
      BY <3>1, <3>3, <3>4 DEF Matching, Selected, VisibleInList
    <3>6. \A i : Follows(asked.order, walk.cursor, i)' <=> Follows(asked.order, walk.cursor, i)
      BY <3>1, <3>3 DEF Follows, Earlier
    <3>7. ListTypeOK' /\ PagesExact'
      BY <3>1, <3>2, <3>4 DEF ListInv, ListTypeOK, PagesExact, AcceptInv
    <3>8. WalkInv'
      BY <3>1, <3>4, <3>5, <3>6 DEF ListInv, WalkInv
    <3>9. QED
      BY <3>2, <3>7, <3>8 DEF ListInv
  <2>4. QED
    BY <2>1, <2>2, <2>3 DEF ListNext
<1>3. QED
  BY <1>1, <1>2, PTL DEF ListSpec

\* The composed types: what the client was given are rows of the table.
THEOREM ListTypeCorrect == ListSpec => []ListTypeOK
<1>1. ListInv => ListTypeOK
  BY DEF ListInv
<1>2. QED
  BY <1>1, ListInvHolds, PTL

\* Keyset pages over a table that changes: no row twice, none that stayed is missed.
THEOREM PagesExactHolds == ListSpec => []PagesExact
<1>1. ListInv => PagesExact
  BY DEF ListInv
<1>2. QED
  BY <1>1, ListInvHolds, PTL

\* The write routes do under the listing what they do without it.
THEOREM ListingLeavesWritesAlone == ListSpec => Spec
<1>1. ListInit => Init
  BY DEF ListInit
<1>2. [ListNext]_listVars => [Next]_vars
  <2> SUFFICES ASSUME [ListNext]_listVars PROVE [Next]_vars
    OBVIOUS
  <2>1. CASE TableChanges
    BY <2>1 DEF TableChanges
  <2>2. CASE \E order \in Orders : ListPage(order)
    BY <2>2 DEF ListPage
  <2>3. CASE UNCHANGED listVars
    BY <2>3 DEF listVars
  <2>4. QED
    BY <2>1, <2>2, <2>3 DEF ListNext
<1>3. QED
  BY <1>1, <1>2, PTL DEF ListSpec, Spec
===============================================================================
