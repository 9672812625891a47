--------------------------- MODULE AdapterCalls_proofs ---------------------------
(***************************************************************************)
(* What the adapters tell their callers is true for any number of callers, *)
(* comments, writes, faults and credentials and for any size of a page.    *)
(***************************************************************************)
EXTENDS AdapterCalls, FiniteSetTheorems, SequenceTheorems, TLAPS

Failures == {"RetryableError", "OutcomeUnknownError", "AuthError", "PermanentError"}
Refusals == Failures \ {"OutcomeUnknownError"}
Outs     == Failures \cup {"nothing", "posted", "found", "absent", "complete", "Error"}
Anchors  == {Post, 1}
Comments == [under : Anchors, by : Nat, live : BOOLEAN]
Writes   == [under : Anchors, told : Outs]
Calls    == [op : {"none", "publish", "find", "list", "fetch"},
             stage : {"idle", "session", "login", "prepare", "request", "answered"},
             cred : Nat, alive : BOOLEAN, write : Nat, under : Nat, cursor : Nat, pages : Nat,
             owed : SUBSET Nat, out : Outs]
Sessions == [cred : Nat, alive : BOOLEAN, has : BOOLEAN]

Types ==
  /\ platform \in Platforms
  /\ thread \in Seq(Comments)
  /\ pending \subseteq [write : Nat, under : Anchors]
  /\ outcome \in Seq(Writes)
  /\ accepted \in Nat /\ stored \in Nat /\ faults \in Nat
  /\ session \in Sessions
  /\ call \in [Callers -> Calls]

(***************************************************************************)
(* The inductive invariant.                                                *)
(***************************************************************************)

\* A comment that publishComment made stands where it was sent, a reply is never deeper
\* than one below the first comment, and Meta keeps none whose comment is gone.
ThreadShape ==
  /\ 1 \in DOMAIN thread /\ thread[1].under = Post
  /\ \A i \in DOMAIN thread : thread[i].by # 0 =>
       thread[i].by \in DOMAIN outcome /\ thread[i].under = outcome[thread[i].by].under
  /\ \A p \in pending : p.write \in DOMAIN outcome /\ p.under = outcome[p.write].under
  /\ platform # "bluesky" => \A i \in Live : Exists(thread[i].under)

Working == {"session", "login", "prepare", "request"}

Unsent(w) == (\A i \in DOMAIN thread : thread[i].by # w) /\ \A p \in pending : p.write # w

Publishing(c) == call[c].op = "publish" /\ call[c].stage \in Working

\* Until its one request, a call of publishComment has sent nothing and told nothing.
PublishTruth(c) ==
  LET w == call[c].write IN
  Publishing(c) =>
    /\ w \in DOMAIN outcome /\ call[c].under = outcome[w].under
    /\ outcome[w].told = "nothing" /\ Unsent(w)

WritesApart ==
  \A c, d \in Callers : Publishing(c) /\ Publishing(d) /\ c # d => call[c].write # call[d].write

HonestTruth ==
  /\ ThreadShape /\ WritesApart /\ OutcomeHonest
  /\ \A c \in Callers : PublishTruth(c)

HonestInv == Types /\ HonestTruth

\* A search has all that it still owes behind its cursor.
FindTruth(c) ==
  call[c].op = "find" /\ call[c].stage \in Working =>
    /\ call[c].under \in Anchors
    /\ \A i \in call[c].owed :
         /\ thread[i].by = call[c].write /\ thread[i].under = call[c].under
         /\ i \in Live => i > call[c].cursor

\* So does a listing, or else the comment that it comes nested in.
ListTruth(c) ==
  call[c].op = "list" /\ call[c].stage \in Working =>
    /\ platform # "bluesky"
    /\ \A i \in call[c].owed \cap Live :
         IF i \in Edge(Post) THEN i > call[c].cursor ELSE thread[i].under > call[c].cursor

FetchTruth(c) ==
  call[c].op = "fetch" /\ call[c].stage \in Working => call[c].owed = {call[c].under}

\* What a call is about was there when it began, and it says nothing before its end.
ReadTruth(c) ==
  /\ call[c].owed \subseteq DOMAIN thread /\ call[c].under \in {Post} \cup DOMAIN thread
  /\ call[c].stage \in Working \cup {"idle"} => call[c].out = "nothing"
  /\ FindTruth(c) /\ ListTruth(c) /\ FetchTruth(c)

\* Nothing is left that the call owes, or it could not see what it asked for: an anchor that
\* is gone, or an anchor or a comment that is blocked.
OutOfSight(c) ==
  \/ call[c].owed \cap Live = {}
  \/ call[c].op = "find" /\ ~Exists(call[c].under)
  \/ call[c].op \in {"find", "fetch"} /\ call[c].under \in blocked

AbsenceTrue(c) == call[c].out \in {"absent", "complete"} => OutOfSight(c)

AbsenceInv == HonestInv /\ \A c \in Callers : ReadTruth(c) /\ AbsenceTrue(c)

-------------------------------------------------------------------------------
LEMMA ClassifyType ==
  ASSUME NEW answer \in Answers, NEW operation \in {"read", "write"}
  PROVE  Classify(answer, operation) \in Failures
  BY DEF Classify, classifyBlueskyFailure, classifyGraphFailure, Answers, Failures

LEMMA AnswerType ==
  ASSUME Types, NEW c \in Callers, NEW out \in Outs, Answer(c, out)
  PROVE  call' \in [Callers -> Calls]
<1>1. call[c].op \in {"none", "publish", "find", "list", "fetch"} /\ call[c].under \in Nat
       /\ call[c].owed \in SUBSET Nat
  BY DEF Types, Calls
<1>2. [Idle EXCEPT !.op = call[c].op, !.stage = "answered", !.out = out,
                   !.under = call[c].under, !.owed = call[c].owed] \in Calls
  BY <1>1 DEF Calls, Idle, Post, NoCursor, Outs
<1>3. QED
  BY <1>2 DEF Types, Answer

\* An answer changes what one call of publishComment told, and nothing else there.
LEMMA AnswerTells ==
  ASSUME Types, NEW c \in Callers, NEW out \in Outs, Answer(c, out)
  PROVE  /\ outcome' \in Seq(Writes) /\ Len(outcome') = Len(outcome)
         /\ DOMAIN outcome' = DOMAIN outcome
         /\ \A v \in DOMAIN outcome :
              /\ outcome'[v].under = outcome[v].under
              /\ outcome'[v].told = IF call[c].op = "publish" /\ v = call[c].write
                                    THEN out ELSE outcome[v].told
<1> DEFINE w == call[c].write
<1>1. CASE call[c].op = "publish" /\ w \in 1..Len(outcome)
  <2> DEFINE record == [outcome[w] EXCEPT !.told = out]
  <2>1. outcome[w] \in Writes
    BY <1>1, ElementOfSeq DEF Types
  <2>2. record \in Writes /\ record.told = out /\ record.under = outcome[w].under
    BY <2>1 DEF Writes
  <2>3. outcome' = [outcome EXCEPT ![w] = record]
    BY <1>1 DEF Answer
  <2> HIDE DEF w, record
  <2>4. /\ outcome' \in Seq(Writes) /\ Len(outcome') = Len(outcome)
        /\ \A v \in 1..Len(outcome) : outcome'[v] = IF v = w THEN record ELSE outcome[v]
    BY <1>1, <2>2, <2>3, ExceptSeq DEF Types
  <2>5. QED
    BY <1>1, <2>2, <2>4, LenProperties DEF Types, w
<1>2. CASE ~(call[c].op = "publish" /\ w \in 1..Len(outcome))
  <2>1. DOMAIN outcome = 1..Len(outcome) /\ outcome \in [1..Len(outcome) -> Writes]
    BY LenProperties DEF Types
  <2>2. outcome' = outcome
    BY <1>2, <2>1 DEF Answer
  <2>3. QED
    BY <1>2, <2>1, <2>2 DEF Types
<1>3. QED
  BY <1>1, <1>2

\* A comment more, and the others as they were.
LEMMA ApplyGrows ==
  ASSUME Types, NEW w \in Nat, NEW anchor \in Anchors, Apply(w, anchor)
  PROVE  /\ thread' \in Seq(Comments) /\ DOMAIN thread' = DOMAIN thread \cup {Len(thread) + 1}
         /\ DOMAIN thread = 1..Len(thread) /\ Len(thread) \in Nat
         /\ \A i \in DOMAIN thread : thread'[i] = thread[i]
         /\ thread'[Len(thread) + 1] = [under |-> anchor, by |-> w, live |-> TRUE]
<1> DEFINE new == [under |-> anchor, by |-> w, live |-> TRUE]
<1>1. new \in Comments
  BY DEF Comments
<1>2. thread' = Append(thread, new)
  BY DEF Apply
<1> HIDE DEF new
<1>3. /\ thread' \in Seq(Comments) /\ Len(thread') = Len(thread) + 1
      /\ \A i \in 1..Len(thread) : thread'[i] = thread[i]
      /\ thread'[Len(thread) + 1] = new
  BY <1>1, <1>2, AppendProperties DEF Types
<1>4. /\ DOMAIN thread' = 1..Len(thread') /\ DOMAIN thread = 1..Len(thread) /\ Len(thread) \in Nat
  BY <1>3, LenProperties DEF Types
<1>5. DOMAIN thread' = DOMAIN thread \cup {Len(thread) + 1}
  BY <1>3, <1>4
<1>6. QED
  BY <1>3, <1>4, <1>5 DEF new

LEMMA DeleteShrinks ==
  ASSUME Types, NEW i \in DOMAIN thread, DeleteElsewhere(i)
  PROVE  /\ thread' \in Seq(Comments) /\ DOMAIN thread' = DOMAIN thread
         /\ \A j \in DOMAIN thread :
              /\ thread'[j].under = thread[j].under /\ thread'[j].by = thread[j].by
              /\ thread'[j].live =
                   (thread[j].live /\ ~(j = i \/ (platform # "bluesky" /\ thread[j].under = i)))
<1>1. DOMAIN thread = 1..Len(thread) /\ Len(thread) \in Nat
      /\ \A j \in DOMAIN thread : thread[j] \in Comments
  BY LenProperties, ElementOfSeq DEF Types
<1>2. DOMAIN thread' = DOMAIN thread
  BY DEF DeleteElsewhere
<1>3. \A j \in DOMAIN thread :
        thread'[j] = IF j = i \/ (platform # "bluesky" /\ thread[j].under = i)
                     THEN [thread[j] EXCEPT !.live = FALSE] ELSE thread[j]
  BY DEF DeleteElsewhere
<1>4. \A j \in DOMAIN thread : thread'[j] \in Comments
  BY <1>1, <1>3 DEF Comments
<1>5. thread' \in [1..Len(thread) -> Comments]
  <2>1. thread' = [j \in DOMAIN thread |-> thread'[j]]
    BY DEF DeleteElsewhere
  <2>2. QED
    BY <1>1, <1>4, <2>1
<1>6. thread' \in Seq(Comments)
  BY <1>1, <1>5, SeqDef
<1>7. \A j \in DOMAIN thread :
        /\ thread'[j].under = thread[j].under /\ thread'[j].by = thread[j].by
        /\ thread'[j].live =
             (thread[j].live /\ ~(j = i \/ (platform # "bluesky" /\ thread[j].under = i)))
  BY <1>1, <1>3 DEF Comments
<1>8. QED
  BY <1>2, <1>6, <1>7

-------------------------------------------------------------------------------
(* Pages. *)

LEMMA MaxIsLast ==
  ASSUME NEW S \in SUBSET Nat, IsFiniteSet(S), S # {}
  PROVE  Max(S) \in S /\ \A j \in S : Max(S) >= j
<1> DEFINE above(i) == {j \in S : j > i}
           T        == {above(i) : i \in S}
<1>1. IsWellFoundedOn(StrictSubsetOrdering(S), SUBSET S)
  BY FS_StrictSubsetOrderingWellFounded, FS_FiniteSubsetsOfFinite
<1>2. T \subseteq SUBSET S /\ T # {}
  OBVIOUS
<1> HIDE DEF T
<1>3. \E x \in T : \A y \in T : ~(<<y, x>> \in StrictSubsetOrdering(S))
  BY <1>1, <1>2, WFMin
<1>4. PICK i \in S : \A y \in T : ~(<<y, above(i)>> \in StrictSubsetOrdering(S))
  BY <1>3 DEF T
<1>5. \A j \in S : i >= j
  <2> SUFFICES ASSUME NEW j \in S, j > i PROVE FALSE
    OBVIOUS
  <2>0. ASSUME NEW k \in S, k > j PROVE k > i
    <3>1. k \in Nat /\ j \in Nat /\ i \in Nat
      OBVIOUS
    <3>2. QED
      BY <2>0, <3>1
  <2>1. above(j) \subseteq above(i) /\ j \in above(i) /\ j \notin above(j)
    <3>1. ~(j > j)
      BY j \in Nat
    <3>2. QED
      BY <2>0, <3>1, Zenon
  <2>2. <<above(j), above(i)>> \in StrictSubsetOrdering(S)
    BY <2>1 DEF StrictSubsetOrdering
  <2>3. QED
    BY <1>4, <2>2 DEF T
<1>6. QED
  BY <1>5 DEF Max

\* A page is the first of what is behind the cursor, all of it if there is no more.
LEMMA PageIsFirst ==
  ASSUME NEW S \in SUBSET Nat, IsFiniteSet(S), NEW cursor \in Nat, NEW n \in Nat
  PROVE  LET page == PageOf(S, cursor, n) IN
         /\ page \subseteq S /\ IsFiniteSet(page)
         /\ \A i \in page : i > cursor
         /\ \A i \in S \ page, j \in page : i > cursor => i > j
         /\ ~MoreThan(S, cursor, n) => \A i \in S : i > cursor => i \in page
<1> DEFINE behind    == {i \in S : i > cursor}
           before(i) == {j \in behind : j < i}
           page      == PageOf(S, cursor, n)
<1>1. IsFiniteSet(behind) /\ Cardinality(behind) \in Nat
  BY FS_Subset, FS_CardinalityType
<1>2. \A i \in behind : IsFiniteSet(before(i)) /\ Cardinality(before(i)) \in Nat
                        /\ Cardinality(before(i)) < Cardinality(behind)
  <2> SUFFICES ASSUME NEW i \in behind
               PROVE IsFiniteSet(before(i)) /\ Cardinality(before(i)) \in Nat
                     /\ Cardinality(before(i)) < Cardinality(behind)
    OBVIOUS
  <2>1. before(i) \in SUBSET behind /\ before(i) # behind
    OBVIOUS
  <2>2. QED
    BY <1>1, <2>1, FS_Subset, FS_CardinalityType
<1>3. page = {i \in behind : Cardinality(before(i)) < n}
  BY DEF PageOf
<1>4. IsFiniteSet(page)
  BY <1>1, <1>3, FS_Subset
<1>5. ASSUME NEW i \in S \ page, NEW j \in page, i > cursor PROVE i > j
  <2>1. i \in behind /\ j \in behind /\ i # j
    BY <1>3, <1>5
  <2>2. Cardinality(before(j)) < n /\ ~(Cardinality(before(i)) < n)
    BY <1>3, <2>1
  <2>3. ASSUME i < j PROVE FALSE
    <3>1. before(i) \in SUBSET before(j)
      <4>1. SUFFICES ASSUME NEW k \in behind, k < i PROVE k < j
        OBVIOUS
      <4>2. k \in Nat /\ i \in Nat /\ j \in Nat
        BY <2>1
      <4>3. QED
        BY <2>3, <4>1, <4>2
    <3>2. Cardinality(before(i)) <= Cardinality(before(j))
      BY <1>2, <2>1, <3>1, FS_Subset
    <3>3. Cardinality(before(i)) \in Nat /\ Cardinality(before(j)) \in Nat
      BY <1>2, <2>1
    <3>4. QED
      BY ONLY <2>2, <3>2, <3>3, n \in Nat
  <2>4. QED
    BY <2>1, <2>3
<1>6. ASSUME ~MoreThan(S, cursor, n) PROVE \A i \in S : i > cursor => i \in page
  <2>1. Cardinality(behind) <= n
    BY <1>1, <1>6 DEF MoreThan
  <2>2. QED
    BY <1>1, <1>2, <1>3, <2>1
<1>7. \A i \in page : i \in S /\ i > cursor
  BY <1>3
<1> HIDE DEF page
<1>8. QED
  BY <1>4, <1>5, <1>6, <1>7 DEF page

LEMMA LiveIsFinite ==
  ASSUME Types
  PROVE  /\ DOMAIN thread = 1..Len(thread) /\ Len(thread) \in Nat
         /\ \A i \in DOMAIN thread : thread[i] \in Comments
         /\ \A S \in SUBSET Live : IsFiniteSet(S) /\ S \in SUBSET Nat
<1>1. DOMAIN thread = 1..Len(thread) /\ Len(thread) \in Nat
      /\ \A i \in DOMAIN thread : thread[i] \in Comments
  BY LenProperties, ElementOfSeq DEF Types
<1>2. IsFiniteSet(1..Len(thread)) /\ Live \in SUBSET (1..Len(thread))
  BY <1>1, FS_Interval DEF Live
<1>3. ASSUME NEW S \in SUBSET Live PROVE IsFiniteSet(S) /\ S \in SUBSET Nat
  <2>1. S \in SUBSET (1..Len(thread))
    BY <1>2
  <2>2. S \in SUBSET Nat
    BY <1>1, <2>1
  <2>3. IsFiniteSet(S)
    BY <1>2, <2>1, FS_Subset
  <2>4. QED
    BY <2>2, <2>3
<1>4. QED
  BY <1>1, <1>3

\* The cursor moves to the end of a page, past all that was on it.
LEMMA TurnPageMoves ==
  ASSUME NEW c, call[c].cursor \in Nat, NEW page \in SUBSET Nat, IsFiniteSet(page)
  PROVE  LET last == Max(page \cup {call[c].cursor}) IN
         /\ last \in Nat
         /\ \A i \in Nat : i > call[c].cursor /\ (\A j \in page : i > j) => i > last
<1> DEFINE S == page \cup {call[c].cursor}
<1>1. S \in SUBSET Nat /\ IsFiniteSet(S) /\ S # {}
  BY FS_AddElement
<1>2. Max(S) \in S
  BY <1>1, MaxIsLast
<1>3. QED
  BY <1>1, <1>2

-------------------------------------------------------------------------------
(* Types. *)

LEMMA BeginType ==
  ASSUME Types, NEW c \in Callers, NEW new \in Calls, Begin(c, new), outcome' \in Seq(Writes)
  PROVE  Types'
<1>1. [new EXCEPT !.stage = IF platform = "bluesky" THEN "session" ELSE "request",
                  !.cred = stored] \in Calls
  BY DEF Types, Calls
<1>2. call' \in [Callers -> Calls]
  BY <1>1 DEF Types, Begin
<1>3. QED
  BY <1>2 DEF Types, Begin

LEMMA FailType ==
  ASSUME Types, NEW c \in Callers, NEW error \in Failures, Fail(c, error)
  PROVE  call' \in [Callers -> Calls] /\ outcome' \in Seq(Writes) /\ session' \in Sessions
<1>1. Answer(c, error) /\ error \in Outs
  BY DEF Fail, Outs
<1>2. session' \in Sessions
  BY DEF Fail, forgetSession, NoSession, Types, Sessions
<1>3. QED
  BY <1>1, <1>2, AnswerType, AnswerTells

LEMMA WireFaultType ==
  ASSUME Types, NEW c \in Callers, NEW operation \in {"read", "write"},
         WireFault(c, operation) \/ Refused(c, operation)
  PROVE  /\ \E error \in Failures : Fail(c, error)
         /\ faults' \in Nat
<1>1. "oauth" \in Answers
  BY DEF Answers
<1>2. QED
  BY <1>1, ClassifyType DEF WireFault, Refused, Fault, Types

LEMMA StageType ==
  ASSUME Types, NEW c \in Callers, NEW stage \in Working \cup {"answered"}, NEW alive \in BOOLEAN,
         call' = [call EXCEPT ![c].alive = alive, ![c].stage = stage]
         \/ Continue(c, stage)
  PROVE  call' \in [Callers -> Calls]
<1>1. call[c] \in Calls
  BY DEF Types
<1>2. [call[c] EXCEPT !.alive = alive, !.stage = stage] \in Calls
      /\ [call[c] EXCEPT !.stage = stage] \in Calls
  BY <1>1 DEF Calls, Working
<1>3. \/ call' = [call EXCEPT ![c] = [call[c] EXCEPT !.alive = alive, !.stage = stage]]
      \/ call' = [call EXCEPT ![c] = [call[c] EXCEPT !.stage = stage]]
  BY DEF Continue, Types
<1>4. QED
  BY <1>2, <1>3 DEF Types

LEMMA sessionForType ==
  ASSUME Types, NEW c \in Callers, sessionFor(c)
  PROVE  Types'
<1>1. FirstRequest(c) \in Working /\ "login" \in Working /\ session.alive \in BOOLEAN
  BY DEF FirstRequest, Working, Types, Sessions
<1>2. call' \in [Callers -> Calls]
  BY <1>1, StageType DEF sessionFor
<1>3. QED
  BY <1>2 DEF sessionFor, Types

LEMMA LoginType ==
  ASSUME Types, NEW c \in Callers, Login(c)
  PROVE  Types'
<1>1. CASE call[c].cred = accepted /\ UNCHANGED <<outcome, faults>>
           /\ session' = [cred |-> call[c].cred, alive |-> TRUE, has |-> TRUE]
           /\ call' = [call EXCEPT ![c].alive = TRUE, ![c].stage = FirstRequest(c)]
  <2>1. FirstRequest(c) \in Working
    BY DEF FirstRequest, Working
  <2>2. call' \in [Callers -> Calls]
    BY <1>1, <2>1, StageType
  <2>3. session' \in Sessions
    BY <1>1 DEF Types, Sessions
  <2>4. QED
    BY <1>1, <2>2, <2>3 DEF Types, Login
<1>2. CASE (\E error \in Failures : Fail(c, error)) /\ faults' \in Nat
  BY <1>2, FailType DEF Login, Types
<1>3. "oauth" \in Answers
  BY DEF Answers
<1>4. QED
  BY <1>1, <1>2, <1>3, WireFaultType, ClassifyType DEF Login, Types

LEMMA prepareReplyType ==
  ASSUME Types, NEW c \in Callers, prepareReply(c)
  PROVE  Types'
<1>1. CASE (\E error \in Failures : Fail(c, error)) /\ faults' \in Nat
  BY <1>1, FailType DEF prepareReply, Types
<1>2. CASE Continue(c, "request") /\ UNCHANGED <<outcome, session, faults>>
  <2>1. call' \in [Callers -> Calls]
    BY <1>2, StageType DEF Working
  <2>2. QED
    BY <1>2, <2>1 DEF prepareReply, Types
<1>3. CASE Answer(c, "PermanentError") /\ UNCHANGED <<session, faults>>
  BY <1>3, AnswerType, AnswerTells DEF prepareReply, Types, Outs, Failures
<1>4. QED
  BY <1>1, <1>2, <1>3, WireFaultType DEF prepareReply

LEMMA ReadOnlyType ==
  ASSUME Types, NEW c \in Callers, ReadOnly, session' = session, faults' \in Nat,
         NEW out \in Outs, Answer(c, out)
  PROVE  Types'
  BY AnswerType, AnswerTells DEF ReadOnly, Types

LEMMA ReadFailsType ==
  ASSUME Types, NEW c \in Callers, NEW op, ReadFails(c, op)
  PROVE  Types'
<1>1. (\E error \in Failures : Fail(c, error)) /\ faults' \in Nat
  BY WireFaultType DEF ReadFails
<1>2. QED
  BY <1>1, FailType DEF ReadFails, ReadOnly, Types

LEMMA PageTypes ==
  ASSUME Types, NEW c \in Callers, NEW S \in SUBSET Live
  PROVE  LET page == PageOf(S, call[c].cursor, PageSize) IN
         /\ page \in SUBSET Nat /\ IsFiniteSet(page)
         /\ Max(page \cup {call[c].cursor}) \in Nat
<1>1. S \in SUBSET Nat /\ IsFiniteSet(S) /\ call[c].cursor \in Nat /\ PageSize \in Nat
  BY LiveIsFinite, AdapterAssumption DEF Types, Calls
<1>2. PageOf(S, call[c].cursor, PageSize) \in SUBSET Nat
      /\ IsFiniteSet(PageOf(S, call[c].cursor, PageSize))
  BY <1>1, PageIsFirst
<1>3. QED
  BY <1>1, <1>2, TurnPageMoves

LEMMA PagingType ==
  ASSUME Types, NEW more, NEW next, NEW after, Paging(more, next, after)
  PROVE  faults' \in Nat
  BY DEF Types, Paging, Fault

LEMMA SearchTypes ==
  ASSUME Types, NEW c \in Callers, SearchThread(c) \/ fetchComment(c)
  PROVE  Types'
<1>1. \E out \in Outs : Answer(c, out)
  BY DEF SearchThread, fetchComment, Outs
<1>2. ReadOnly /\ session' = session /\ faults' = faults
  BY DEF SearchThread, fetchComment, Gets
<1>3. QED
  BY <1>1, <1>2, ReadOnlyType DEF Types

LEMMA findCommentOnEdgeType ==
  ASSUME Types, NEW c \in Callers, findCommentOnEdge(c)
  PROVE  Types'
<1> DEFINE page == PageOf(Edge(call[c].under), call[c].cursor, PageSize)
           turned == [TurnPage(c, page) EXCEPT !.pages = @ + 1]
<1>1. ReadOnly /\ session' = session
  BY DEF findCommentOnEdge, Gets
<1>2. faults' \in Nat
  BY PagingType DEF findCommentOnEdge, Types
<1>3. Classify("rejected", "read") \in Outs
  BY ClassifyType DEF Answers, Outs
<1>4. \/ \E out \in Outs : Answer(c, out)
      \/ call' = [call EXCEPT ![c] = turned] /\ UNCHANGED outcome
  BY <1>3 DEF findCommentOnEdge, Outs, Failures
<1>5. turned \in Calls
  <2>1. Max(page \cup {call[c].cursor}) \in Nat
    BY PageTypes DEF Edge
  <2>2. call[c] \in Calls
    BY DEF Types
  <2> HIDE DEF page
  <2>3. TurnPage(c, page) \in Calls
    BY <2>1, <2>2 DEF TurnPage, Calls
  <2> DEFINE turn == TurnPage(c, page)
  <2> HIDE DEF turn
  <2>4. \A t \in Calls : [t EXCEPT !.pages = @ + 1] \in Calls
    BY DEF Calls
  <2>5. QED
    BY <2>3, <2>4 DEF turn
<1> HIDE DEF turned
<1>6. CASE call' = [call EXCEPT ![c] = turned] /\ UNCHANGED outcome
  BY <1>1, <1>2, <1>5, <1>6 DEF Types, ReadOnly
<1>7. QED
  BY <1>1, <1>2, <1>4, <1>6, ReadOnlyType

LEMMA listCommentsType ==
  ASSUME Types, NEW c \in Callers, listComments(c)
  PROVE  Types'
<1> DEFINE page == PageOf(Edge(Post), call[c].cursor, PageSize)
           turned(stage, out) ==
             [TurnPage(c, page) EXCEPT !.owed = @ \ (page \cup Nested(page)),
                                       !.stage = stage, !.out = out]
<1>1. ReadOnly /\ session' = session
  BY DEF listComments, Gets
<1>2. faults' \in Nat
  BY PagingType DEF listComments, Types
<1>3. call[c] \in Calls
  BY DEF Types
<1>4. \A stage, out : TurnPage(c, page).stage = call[c].stage /\ TurnPage(c, page).out = call[c].out
  BY <1>3 DEF TurnPage, Calls
<1>5. \/ Answer(c, "Error")
      \/ /\ \/ call' = [call EXCEPT ![c] = turned("answered", "complete")]
            \/ call' = [call EXCEPT ![c] = turned(call[c].stage, call[c].out)]
         /\ UNCHANGED outcome
  BY <1>4 DEF listComments
<1>6. \A stage \in {"answered", call[c].stage}, out \in {"complete", call[c].out} :
        turned(stage, out) \in Calls
  <2>1. Max(page \cup {call[c].cursor}) \in Nat
    BY PageTypes DEF Edge
  <2> HIDE DEF page
  <2>2. TurnPage(c, page) \in Calls
    BY <1>3, <2>1 DEF TurnPage, Calls
  <2> DEFINE turn == TurnPage(c, page)
  <2> HIDE DEF turn
  <2>3. \A T, stage, out : [turn EXCEPT !.owed = @ \ T, !.stage = stage, !.out = out]
                            = [turn EXCEPT !.owed = turn.owed \ T, !.stage = stage, !.out = out]
    OBVIOUS
  <2>4. \A T : \A stage \in {"answered", call[c].stage}, out \in {"complete", call[c].out} :
          [turn EXCEPT !.owed = turn.owed \ T, !.stage = stage, !.out = out] \in Calls
    BY <1>3, <2>2 DEF turn, Calls, Outs
  <2>5. QED
    BY <2>3, <2>4 DEF turn
<1> HIDE DEF turned
<1>7. CASE outcome' = outcome /\ call' \in [Callers -> Calls]
  BY <1>1, <1>2, <1>7 DEF Types, ReadOnly
<1>8. "Error" \in Outs
  BY DEF Outs
<1>9. QED
  BY <1>1, <1>2, <1>5, <1>6, <1>7, <1>8, ReadOnlyType DEF Types

-------------------------------------------------------------------------------
(* What publishComment tells. *)

LEMMA SameKeepsHonest ==
  ASSUME HonestInv, UNCHANGED <<platform, thread, pending, outcome>>,
         \A d \in Callers : Publishing(d)' =>
           /\ Publishing(d) /\ call'[d].write = call[d].write /\ call'[d].under = call[d].under
  PROVE  HonestTruth'
<1>1. ThreadShape' /\ OutcomeHonest'
  BY DEF HonestInv, HonestTruth, ThreadShape, OutcomeHonest, Live, Exists
<1>2. \A d \in Callers : PublishTruth(d)'
  BY DEF HonestInv, HonestTruth, PublishTruth, Unsent
<1>3. WritesApart'
  BY DEF HonestInv, HonestTruth, WritesApart
<1>4. QED
  BY <1>1, <1>2, <1>3 DEF HonestTruth

LEMMA AnswerCall ==
  ASSUME Types, NEW c \in Callers, NEW out, Answer(c, out)
  PROVE  /\ \A d \in Callers \ {c} : call'[d] = call[d]
         /\ call'[c].op = call[c].op /\ call'[c].stage = "answered" /\ call'[c].out = out
         /\ call'[c].under = call[c].under /\ call'[c].owed = call[c].owed
<1>1. call' = [call EXCEPT ![c] =
        [Idle EXCEPT !.op = call[c].op, !.stage = "answered", !.out = out,
                     !.under = call[c].under, !.owed = call[c].owed]]
  BY DEF Answer
<1>2. call'[c] = [Idle EXCEPT !.op = call[c].op, !.stage = "answered", !.out = out,
                              !.under = call[c].under, !.owed = call[c].owed]
  BY <1>1 DEF Types
<1>3. \A d \in Callers \ {c} : call'[d] = call[d]
  BY <1>1 DEF Types
<1>4. QED
  BY <1>2, <1>3 DEF Idle

\* A call answers before its request, or after a request that wrote nothing.
LEMMA AnswerKeepsHonest ==
  ASSUME HonestInv, UNCHANGED <<platform, thread, pending>>,
         NEW c \in Callers, NEW out \in Outs, Answer(c, out), call[c].stage \in Working,
         call[c].op = "publish" => out # "posted"
  PROVE  HonestTruth'
<1>1. /\ DOMAIN outcome' = DOMAIN outcome
      /\ \A v \in DOMAIN outcome :
           /\ outcome'[v].under = outcome[v].under
           /\ outcome'[v].told = IF call[c].op = "publish" /\ v = call[c].write
                                 THEN out ELSE outcome[v].told
  BY AnswerTells DEF HonestInv
<1>2. /\ \A d \in Callers \ {c} : call'[d] = call[d]
      /\ call'[c].stage = "answered"
  BY AnswerCall DEF HonestInv
<1>3. ~Publishing(c)' /\ (call[c].op = "publish" => Publishing(c))
  BY <1>2 DEF Publishing, Working
<1>4. \A d \in Callers : Publishing(d)' => d # c /\ Publishing(d) /\ call'[d] = call[d]
  BY <1>2, <1>3 DEF Publishing
<1>5. ThreadShape'
  BY <1>1 DEF HonestInv, HonestTruth, ThreadShape, Live, Exists
<1>6. WritesApart'
  BY <1>4 DEF HonestInv, HonestTruth, WritesApart
<1>7. call[c].op = "publish" => Unsent(call[c].write)
  BY <1>3 DEF HonestInv, HonestTruth, PublishTruth
<1>8. OutcomeHonest'
  BY <1>1, <1>7 DEF HonestInv, HonestTruth, OutcomeHonest, Unsent
<1>9. ASSUME NEW d \in Callers PROVE PublishTruth(d)'
  <2>1. SUFFICES ASSUME Publishing(d)'
                 PROVE /\ call[d].write \in DOMAIN outcome'
                       /\ call[d].under = outcome'[call[d].write].under
                       /\ outcome'[call[d].write].told = "nothing" /\ Unsent(call[d].write)'
    BY <1>4 DEF PublishTruth
  <2>2. d # c /\ Publishing(d)
    BY <1>4, <2>1
  <2>3. call[c].op = "publish" => call[d].write # call[c].write
    BY <1>3, <2>2 DEF HonestInv, HonestTruth, WritesApart
  <2>4. /\ call[d].write \in DOMAIN outcome /\ call[d].under = outcome[call[d].write].under
        /\ outcome[call[d].write].told = "nothing" /\ Unsent(call[d].write)
    BY <2>2 DEF HonestInv, HonestTruth, PublishTruth
  <2>5. outcome'[call[d].write].told = "nothing"
        /\ outcome'[call[d].write].under = outcome[call[d].write].under
    BY <1>1, <2>3, <2>4
  <2>6. call'[d] = call[d]
    BY <1>4, <2>1
  <2>7. QED
    BY <1>1, <2>4, <2>5, <2>6 DEF Unsent
<1>10. QED
  BY <1>5, <1>6, <1>8, <1>9 DEF HonestTruth

\* A comment of nobody's, or of a write whose call has given up on it.
LEMMA ApplyKeepsHonest ==
  ASSUME HonestInv, UNCHANGED <<platform, outcome, call>>, pending' \subseteq pending,
         NEW w \in Nat, NEW anchor \in Anchors, Apply(w, anchor), Takes(anchor),
         w # 0 => /\ w \in DOMAIN outcome /\ anchor = outcome[w].under
                  /\ \E p \in pending : p.write = w
  PROVE  HonestTruth'
<1>1. /\ DOMAIN thread' = DOMAIN thread \cup {Len(thread) + 1}
      /\ DOMAIN thread = 1..Len(thread) /\ Len(thread) \in Nat
      /\ \A i \in DOMAIN thread : thread'[i] = thread[i]
      /\ thread'[Len(thread) + 1] = [under |-> anchor, by |-> w, live |-> TRUE]
  BY ApplyGrows DEF HonestInv
<1>2. Live' = Live \cup {Len(thread) + 1}
  BY <1>1 DEF Live
<1>3. ThreadShape'
  <2>1. 1 \in DOMAIN thread' /\ thread'[1].under = Post
    BY <1>1 DEF HonestInv, HonestTruth, ThreadShape
  <2>2. \A i \in DOMAIN thread' : thread'[i].by # 0 =>
          thread'[i].by \in DOMAIN outcome /\ thread'[i].under = outcome[thread'[i].by].under
    BY <1>1 DEF HonestInv, HonestTruth, ThreadShape
  <2>3. platform # "bluesky" => \A i \in Live' : thread'[i].under = Post \/ thread'[i].under \in Live'
    BY <1>1, <1>2 DEF HonestInv, HonestTruth, ThreadShape, Takes, Exists, Live
  <2>4. QED
    BY <2>1, <2>2, <2>3 DEF HonestInv, HonestTruth, ThreadShape, Exists
<1>0. DOMAIN outcome = 1..Len(outcome)
  BY LenProperties DEF HonestInv, Types
<1>4. ASSUME NEW d \in Callers PROVE PublishTruth(d)'
  <2>1. SUFFICES ASSUME Publishing(d)
                 PROVE /\ call[d].write \in DOMAIN outcome
                       /\ call[d].under = outcome[call[d].write].under
                       /\ outcome[call[d].write].told = "nothing" /\ Unsent(call[d].write)'
    BY DEF PublishTruth, Publishing
  <2>2. PublishTruth(d)
    BY DEF HonestInv, HonestTruth
  <2>3. w # call[d].write
    BY <1>0, <2>1, <2>2 DEF PublishTruth, Unsent
  <2>4. Unsent(call[d].write)'
    BY <1>1, <2>1, <2>2, <2>3 DEF PublishTruth, Unsent
  <2>5. QED
    BY <2>1, <2>2, <2>4 DEF PublishTruth
<1>5. OutcomeHonest'
  <2>1. ASSUME NEW v \in DOMAIN outcome, outcome[v].told \in Refusals
        PROVE (\A i \in DOMAIN thread' : thread'[i].by # v) /\ \A p \in pending' : p.write # v
    <3>1. (\A i \in DOMAIN thread : thread[i].by # v) /\ \A p \in pending : p.write # v
      BY <2>1 DEF HonestInv, HonestTruth, OutcomeHonest, Refusals, Failures
    <3>2. w # v
      BY <1>0, <3>1
    <3>3. QED
      BY <1>1, <3>1, <3>2
  <2>2. ASSUME NEW v \in DOMAIN outcome, outcome[v].told = "posted"
        PROVE \E i \in DOMAIN thread' : thread'[i].by = v
    BY <1>1, <2>2 DEF HonestInv, HonestTruth, OutcomeHonest
  <2>3. QED
    BY <2>1, <2>2 DEF OutcomeHonest, Refusals, Failures
<1>6. WritesApart'
  BY DEF HonestInv, HonestTruth, WritesApart, Publishing
<1>7. QED
  BY <1>3, <1>4, <1>5, <1>6 DEF HonestTruth

LEMMA DeleteKeepsHonest ==
  ASSUME HonestInv, NEW i \in DOMAIN thread, DeleteElsewhere(i)
  PROVE  HonestTruth'
<1>1. /\ DOMAIN thread' = DOMAIN thread
      /\ \A j \in DOMAIN thread :
           /\ thread'[j].under = thread[j].under /\ thread'[j].by = thread[j].by
           /\ thread'[j].live =
                (thread[j].live /\ ~(j = i \/ (platform # "bluesky" /\ thread[j].under = i)))
  BY DeleteShrinks DEF HonestInv
<1>2. UNCHANGED <<platform, blocked, pending, outcome, call>>
  BY DEF DeleteElsewhere
<1>3. OutcomeHonest' /\ WritesApart' /\ \A c \in Callers : PublishTruth(c)'
  <2>1. OutcomeHonest'
    BY <1>1, <1>2 DEF HonestInv, HonestTruth, OutcomeHonest
  <2>2. WritesApart'
    BY <1>2 DEF HonestInv, HonestTruth, WritesApart, Publishing
  <2>3. \A c \in Callers : PublishTruth(c)'
    BY <1>1, <1>2 DEF HonestInv, HonestTruth, PublishTruth, Publishing, Unsent
  <2>4. QED
    BY <2>1, <2>2, <2>3
<1>4. ASSUME platform # "bluesky", NEW j \in Live'
      PROVE thread'[j].under = Post \/ thread'[j].under \in Live'
  <2> DEFINE k == thread[j].under
  <2>1. j \in DOMAIN thread /\ thread[j].live /\ j # i /\ k # i /\ thread'[j].under = k
    BY <1>1, <1>4, Zenon DEF Live
  <2>2. k \in Anchors
    BY <2>1, LiveIsFinite DEF HonestInv, Comments
  <2>3. CASE k = 1
    <3>1. 1 \in Live
      BY <1>4, <2>1, <2>3 DEF HonestInv, HonestTruth, ThreadShape, Exists, Live, Post
    <3>2. i # 0
      BY LiveIsFinite DEF HonestInv
    <3>3. thread[1].under # i
      BY <3>2 DEF HonestInv, HonestTruth, ThreadShape, Post
    <3>4. 1 \in DOMAIN thread /\ thread[1].live /\ 1 # i
      BY <2>1, <2>3, <3>1 DEF Live
    <3>5. thread'[1].live
      BY <1>1, <3>3, <3>4, Zenon
    <3>6. QED
      BY <1>1, <2>1, <2>3, <3>4, <3>5 DEF Live
  <2>4. QED
    BY <2>1, <2>2, <2>3 DEF Anchors
<1>5. ThreadShape'
  BY <1>1, <1>2, <1>4 DEF HonestInv, HonestTruth, ThreadShape, Exists
<1>6. QED
  BY <1>3, <1>5 DEF HonestTruth

LEMMA BeginCall ==
  ASSUME Types, NEW c \in Callers, NEW new \in Calls, Begin(c, new)
  PROVE  /\ \A d \in Callers \ {c} : call'[d] = call[d]
         /\ call[c].stage = "idle" /\ call'[c].stage \in {"session", "request"}
         /\ call'[c].op = new.op /\ call'[c].write = new.write /\ call'[c].under = new.under
         /\ call'[c].owed = new.owed /\ call'[c].out = new.out /\ call'[c].cursor = new.cursor
<1>1. call' = [call EXCEPT ![c] =
        [new EXCEPT !.stage = IF platform = "bluesky" THEN "session" ELSE "request",
                    !.cred = stored]]
  BY DEF Begin
<1>2. call'[c] = [new EXCEPT !.stage = IF platform = "bluesky" THEN "session" ELSE "request",
                             !.cred = stored]
  BY <1>1 DEF Types
<1>3. \A d \in Callers \ {c} : call'[d] = call[d]
  BY <1>1 DEF Types
<1>4. \A stage, cred : LET begun == [new EXCEPT !.stage = stage, !.cred = cred] IN
        /\ begun.stage = stage /\ begun.op = new.op /\ begun.write = new.write
        /\ begun.under = new.under /\ begun.owed = new.owed /\ begun.out = new.out
        /\ begun.cursor = new.cursor
  BY DEF Calls
<1>5. call'[c].stage \in {"session", "request"}
  BY <1>2, <1>4
<1>6. QED
  BY <1>2, <1>3, <1>4, <1>5 DEF Begin

LEMMA StartPublishKeepsHonest ==
  ASSUME HonestInv, NEW c \in Callers, NEW anchor \in Anchors, StartPublish(c, anchor)
  PROVE  Types' /\ HonestTruth'
<1>0. PICK w \in Nat : w = Len(outcome) + 1
  BY LenProperties DEF HonestInv, Types
<1> DEFINE new  == [Idle EXCEPT !.op = "publish", !.write = w, !.under = anchor]
           made == [under |-> anchor, told |-> "nothing"]
<1>1. outcome' = Append(outcome, made) /\ Begin(c, new) /\ UNCHANGED <<platform, blocked, thread, pending>>
  BY <1>0 DEF StartPublish, Begin
<1>2. made \in Writes
  BY DEF Writes, Outs
<1>3. /\ outcome' \in Seq(Writes) /\ DOMAIN outcome = 1..Len(outcome) /\ Len(outcome) \in Nat
      /\ DOMAIN outcome' = 1..w /\ \A v \in 1..Len(outcome) : outcome'[v] = outcome[v]
      /\ outcome'[w] = made
  <2> HIDE DEF made
  <2>1. outcome \in Seq(Writes)
    BY DEF HonestInv, Types
  <2>2. /\ outcome' \in Seq(Writes) /\ Len(outcome') = Len(outcome) + 1
        /\ \A v \in 1..Len(outcome) : outcome'[v] = outcome[v]
        /\ outcome'[Len(outcome) + 1] = made
    BY <1>1, <1>2, <2>1, AppendProperties
  <2>3. QED
    BY <1>0, <2>1, <2>2, LenProperties
<1>4. new \in Calls
  <2>1. anchor \in Nat
    BY DEF Anchors, Post
  <2>2. QED
    BY <2>1 DEF Calls, Idle, Post, NoCursor, Outs
<1>5. /\ \A d \in Callers \ {c} : call'[d] = call[d]
      /\ call'[c].write = w /\ call'[c].under = anchor
  <2>1. new.write = w /\ new.under = anchor
    BY DEF Idle
  <2> HIDE DEF new
  <2>2. QED
    BY <1>1, <1>4, <2>1, BeginCall DEF HonestInv
<1>6. Types'
  BY <1>1, <1>3, <1>4, BeginType DEF HonestInv
<1> HIDE DEF new
<1>7. Unsent(w)
  BY <1>0, <1>3 DEF HonestInv, HonestTruth, ThreadShape, Unsent
<1>8. \A d \in Callers \ {c} : Publishing(d)' => Publishing(d) /\ call[d].write \in DOMAIN outcome
                                                  /\ call'[d] = call[d] /\ call[d].write # w
  BY <1>0, <1>3, <1>5 DEF HonestInv, HonestTruth, PublishTruth, Publishing
<1>9. WritesApart'
  BY <1>5, <1>8 DEF HonestInv, HonestTruth, WritesApart
<1>10. OutcomeHonest'
  BY <1>0, <1>1, <1>3 DEF HonestInv, HonestTruth, OutcomeHonest
<1>11. ThreadShape'
  BY <1>0, <1>1, <1>3 DEF HonestInv, HonestTruth, ThreadShape, Live, Exists
<1>12. PublishTruth(c)'
  <2>1. Unsent(w)'
    BY <1>1, <1>3, <1>7 DEF Unsent
  <2>2. w \in DOMAIN outcome' /\ outcome'[w].under = anchor /\ outcome'[w].told = "nothing"
    BY <1>0, <1>3
  <2>3. QED
    BY <1>5, <2>1, <2>2 DEF PublishTruth, Unsent
<1>13. ASSUME NEW d \in Callers \ {c} PROVE PublishTruth(d)'
  <2>1. CASE Publishing(d)'
    <3>1. Publishing(d) /\ call[d].write \in DOMAIN outcome /\ call'[d] = call[d]
          /\ call[d].under = outcome[call[d].write].under
          /\ outcome[call[d].write].told = "nothing" /\ Unsent(call[d].write)
      BY <1>8, <2>1 DEF HonestInv, HonestTruth, PublishTruth
    <3>2. outcome'[call[d].write] = outcome[call[d].write]
          /\ call[d].write \in DOMAIN outcome'
      BY <1>0, <1>3, <3>1
    <3>3. QED
      BY <1>1, <3>1, <3>2 DEF PublishTruth, Unsent
  <2>2. QED
    BY <2>1 DEF PublishTruth
<1>14. QED
  BY <1>6, <1>9, <1>10, <1>11, <1>12, <1>13 DEF HonestTruth

\* What may have been carried out is of unknown outcome.
LEMMA EffectsAreUnknown ==
  ASSUME NEW answer \in Answers, NEW effect \in Effects(answer), effect # "none"
  PROVE  Classify(answer, "write") = "OutcomeUnknownError"
<1>1. answer \in {"dropped", "serverError", "unreadable"}
  <2>1. ASSUME answer \notin {"dropped", "serverError", "unreadable"}
        PROVE  Effects(answer) = {"none"}
    BY <2>1 DEF Effects
  <2>2. QED
    BY <2>1
<1>2. classifyBlueskyFailure(answer, "write") = "OutcomeUnknownError"
  BY <1>1 DEF classifyBlueskyFailure
<1>3. classifyGraphFailure(answer, "write") = "OutcomeUnknownError"
  BY <1>1 DEF classifyGraphFailure
<1>4. QED
  BY <1>2, <1>3 DEF Classify

\* The request of a call arrived, or may still arrive.
LEMMA SentKeepsHonest ==
  ASSUME HonestInv, UNCHANGED platform, NEW c \in Callers, Publishing(c), Takes(call[c].under),
         NEW out \in {"posted", "OutcomeUnknownError"}, Answer(c, out),
         \/ Apply(call[c].write, call[c].under) /\ UNCHANGED pending
         \/ /\ out # "posted" /\ UNCHANGED thread
            /\ pending' = pending \cup {[write |-> call[c].write, under |-> call[c].under]}
  PROVE  /\ HonestTruth' /\ thread' \in Seq(Comments)
         /\ pending' \subseteq [write : Nat, under : Anchors]
<1>1. PICK w, anchor : w = call[c].write /\ anchor = call[c].under
  OBVIOUS
<1>2. w \in DOMAIN outcome /\ anchor = outcome[w].under /\ outcome[w].told = "nothing" /\ Unsent(w)
  BY <1>1 DEF HonestInv, HonestTruth, PublishTruth
<1>3. DOMAIN outcome = 1..Len(outcome) /\ \A v \in DOMAIN outcome : outcome[v] \in Writes
  BY LenProperties, ElementOfSeq DEF HonestInv, Types
<1>4. w \in Nat \ {0} /\ anchor \in Anchors /\ w \in DOMAIN outcome
  BY <1>2, <1>3 DEF Writes
<1>5. /\ DOMAIN outcome' = DOMAIN outcome
      /\ \A v \in DOMAIN outcome :
           /\ outcome'[v].under = outcome[v].under
           /\ outcome'[v].told = IF v = w THEN out ELSE outcome[v].told
  BY <1>1, AnswerTells DEF HonestInv, Publishing, Outs, Failures
<1>6. /\ \A d \in Callers \ {c} : call'[d] = call[d]
      /\ call'[c].stage = "answered"
  BY AnswerCall DEF HonestInv
<1>7. \A d \in Callers : Publishing(d)' =>
        d # c /\ Publishing(d) /\ call'[d] = call[d] /\ call[d].write # w
  BY <1>1, <1>6 DEF HonestInv, HonestTruth, WritesApart, Publishing, Working
<1>8. WritesApart'
  BY <1>7 DEF HonestInv, HonestTruth, WritesApart
<1>9. CASE Apply(w, anchor) /\ UNCHANGED pending
  <2>1. /\ thread' \in Seq(Comments) /\ DOMAIN thread' = DOMAIN thread \cup {Len(thread) + 1}
        /\ DOMAIN thread = 1..Len(thread) /\ Len(thread) \in Nat
        /\ \A i \in DOMAIN thread : thread'[i] = thread[i]
        /\ thread'[Len(thread) + 1] = [under |-> anchor, by |-> w, live |-> TRUE]
    BY <1>4, <1>9, ApplyGrows DEF HonestInv
  <2>2. Live' = Live \cup {Len(thread) + 1}
    BY <2>1 DEF Live
  <2>3. ThreadShape'
    <3>1. 1 \in DOMAIN thread' /\ thread'[1].under = Post
      BY <2>1 DEF HonestInv, HonestTruth, ThreadShape
    <3>2. \A i \in DOMAIN thread' : thread'[i].by # 0 =>
            thread'[i].by \in DOMAIN outcome /\ thread'[i].under = outcome[thread'[i].by].under
      BY <1>2, <2>1 DEF HonestInv, HonestTruth, ThreadShape
    <3>3. platform # "bluesky" =>
            \A i \in Live' : thread'[i].under = Post \/ thread'[i].under \in Live'
      BY <1>1, <2>1, <2>2 DEF HonestInv, HonestTruth, ThreadShape, Takes, Exists, Live
    <3>4. QED
      BY <1>5, <1>9, <3>1, <3>2, <3>3 DEF HonestInv, HonestTruth, ThreadShape, Exists
  <2>4. OutcomeHonest'
    BY <1>5, <1>9, <2>1 DEF HonestInv, HonestTruth, OutcomeHonest
  <2>5. ASSUME NEW d \in Callers PROVE PublishTruth(d)'
    BY <1>5, <1>7, <1>9, <2>1 DEF HonestInv, HonestTruth, PublishTruth, Unsent
  <2>6. QED
    BY <1>8, <1>9, <2>1, <2>3, <2>4, <2>5 DEF HonestInv, HonestTruth, Types
<1>10. CASE /\ out # "posted" /\ UNCHANGED thread
            /\ pending' = pending \cup {[write |-> w, under |-> anchor]}
  <2>1. ThreadShape'
    BY <1>2, <1>5, <1>10 DEF HonestInv, HonestTruth, ThreadShape, Live, Exists
  <2>2. OutcomeHonest'
    BY <1>5, <1>10 DEF HonestInv, HonestTruth, OutcomeHonest
  <2>3. ASSUME NEW d \in Callers PROVE PublishTruth(d)'
    BY <1>5, <1>7, <1>10 DEF HonestInv, HonestTruth, PublishTruth, Unsent
  <2>4. pending' \subseteq [write : Nat, under : Anchors]
    BY <1>4, <1>10 DEF HonestInv, Types
  <2>5. QED
    BY <1>8, <1>10, <2>1, <2>2, <2>3, <2>4 DEF HonestInv, HonestTruth, Types
<1>11. QED
  BY <1>1, <1>9, <1>10

LEMMA publishCommentKeepsHonest ==
  ASSUME HonestInv, NEW c \in Callers, publishComment(c)
  PROVE  HonestInv'
<1> DEFINE w == call[c].write
           anchor == call[c].under
<1>1. Publishing(c) /\ call[c].stage \in Working
  BY DEF publishComment, Publishing, Working
<1>2. UNCHANGED <<platform, blocked, accepted, stored>>
  BY DEF publishComment
<1>3. ASSUME NEW error \in Failures, Fail(c, error), faults' \in Nat, UNCHANGED <<thread, pending>>
      PROVE  HonestInv'
  <2>1. HonestTruth'
    BY <1>1, <1>2, <1>3, AnswerKeepsHonest DEF Fail, Outs, Failures
  <2>2. Types'
    BY <1>2, <1>3, FailType DEF HonestInv, Types
  <2>3. QED
    BY <2>1, <2>2 DEF HonestInv
<1>4. ASSUME Apply(w, anchor), Takes(anchor), Answer(c, "posted"),
             UNCHANGED <<pending, session, faults>>
      PROVE  HonestInv'
  <2>1. HonestTruth' /\ thread' \in Seq(Comments)
    BY <1>1, <1>2, <1>4, SentKeepsHonest
  <2>2. call' \in [Callers -> Calls] /\ outcome' \in Seq(Writes)
    BY <1>4, AnswerType, AnswerTells DEF HonestInv, Outs
  <2>3. QED
    BY <1>2, <1>4, <2>1, <2>2 DEF HonestInv, Types
<1>5. ASSUME NEW answer \in Answers, NEW effect \in Effects(answer), Fault,
             Fail(c, Classify(answer, "write")), effect = "none" \/ Takes(anchor),
             IF effect = "applied" THEN Apply(w, anchor) ELSE UNCHANGED thread,
             pending' = IF effect = "later" THEN pending \cup {[write |-> w, under |-> anchor]}
                                            ELSE pending
      PROVE  HonestInv'
  <2>1. Classify(answer, "write") \in Failures /\ faults' \in Nat
    BY <1>5, ClassifyType DEF Fault, HonestInv, Types
  <2>2. CASE effect = "none"
    BY <1>3, <1>5, <2>1, <2>2
  <2>3. CASE effect # "none"
    <3>1. Classify(answer, "write") = "OutcomeUnknownError"
      BY <2>3, EffectsAreUnknown
    <3>2. effect \in {"applied", "later"}
      BY <2>3 DEF Effects
    <3>3. Answer(c, "OutcomeUnknownError") /\ Takes(anchor)
      BY <1>5, <2>3, <3>1 DEF Fail
    <3>4. HonestTruth' /\ thread' \in Seq(Comments) /\ pending' \subseteq [write : Nat, under : Anchors]
      BY <1>1, <1>2, <1>5, <3>2, <3>3, SentKeepsHonest
    <3>5. call' \in [Callers -> Calls] /\ outcome' \in Seq(Writes) /\ session' \in Sessions
      BY <1>5, <2>1, FailType DEF HonestInv
    <3>6. QED
      BY <1>2, <2>1, <3>4, <3>5 DEF HonestInv, Types
  <2>4. QED
    BY <2>2, <2>3
<1>6. Classify("rejected", "write") \in Failures
  BY ClassifyType DEF Answers
<1>7. CASE Refused(c, "write") /\ UNCHANGED <<thread, pending>>
  BY <1>3, <1>7, WireFaultType DEF HonestInv
<1>8. CASE Fail(c, Classify("rejected", "write")) /\ UNCHANGED <<thread, pending, faults>>
  BY <1>3, <1>6, <1>8 DEF HonestInv, Types
<1>9. QED
  BY <1>4, <1>5, <1>7, <1>8 DEF publishComment

\* A step of a call that sends nothing: it goes on, answers, ends or begins to read.
LEMMA ReaderKeepsHonest ==
  ASSUME HonestInv, NEW c \in Callers, UNCHANGED <<platform, thread, pending>>,
         \/ \E out \in Outs \ {"posted"} : Answer(c, out) /\ call[c].stage \in Working
         \/ /\ UNCHANGED outcome /\ \A d \in Callers \ {c} : call'[d] = call[d]
            /\ Publishing(c)' => /\ Publishing(c) /\ call'[c].write = call[c].write
                                 /\ call'[c].under = call[c].under
  PROVE  HonestTruth'
<1>1. CASE \E out \in Outs \ {"posted"} : Answer(c, out) /\ call[c].stage \in Working
  BY <1>1, AnswerKeepsHonest
<1>2. CASE /\ UNCHANGED outcome /\ \A d \in Callers \ {c} : call'[d] = call[d]
           /\ Publishing(c)' => /\ Publishing(c) /\ call'[c].write = call[c].write
                                /\ call'[c].under = call[c].under
  <2>1. \A d \in Callers : Publishing(d)' =>
          /\ Publishing(d) /\ call'[d].write = call[d].write /\ call'[d].under = call[d].under
    BY <1>2 DEF Publishing
  <2>2. QED
    BY <1>2, <2>1, SameKeepsHonest
<1>3. QED
  BY <1>1, <1>2

\* What a call knows stays when it takes its next step.
Stays(c) ==
  /\ UNCHANGED <<platform, blocked, thread, pending, outcome>>
  /\ \A d \in Callers \ {c} : call'[d] = call[d]
  /\ call[c].stage \in Working /\ call'[c].stage \in Working
  /\ call'[c].op = call[c].op /\ call'[c].write = call[c].write
  /\ call'[c].under = call[c].under /\ call'[c].owed = call[c].owed
  /\ call'[c].out = call[c].out /\ call'[c].cursor = call[c].cursor

AnswersOnly(c, out) ==
  /\ UNCHANGED <<platform, blocked, thread, pending>>
  /\ call[c].stage \in Working /\ Answer(c, out)

LEMMA StageCall ==
  ASSUME Types, NEW c \in Callers, NEW stage, NEW alive,
         call' = [call EXCEPT ![c].alive = alive, ![c].stage = stage] \/ Continue(c, stage)
  PROVE  /\ \A d \in Callers \ {c} : call'[d] = call[d]
         /\ call'[c].stage = stage
         /\ call'[c].op = call[c].op /\ call'[c].write = call[c].write
         /\ call'[c].under = call[c].under /\ call'[c].owed = call[c].owed
         /\ call'[c].out = call[c].out /\ call'[c].cursor = call[c].cursor
<1>1. \/ call' = [call EXCEPT ![c] = [call[c] EXCEPT !.alive = alive, !.stage = stage]]
      \/ call' = [call EXCEPT ![c] = [call[c] EXCEPT !.stage = stage]]
  BY DEF Continue, Types
<1>2. \/ call'[c] = [call[c] EXCEPT !.alive = alive, !.stage = stage]
      \/ call'[c] = [call[c] EXCEPT !.stage = stage]
  BY <1>1 DEF Types
<1>3. call[c] \in Calls
  BY DEF Types
<1>4. \A d \in Callers \ {c} : call'[d] = call[d]
  BY <1>1 DEF Types
<1>5. QED
  BY <1>2, <1>3, <1>4 DEF Calls

\* Before its request a call stays or fails.
LEMMA EarlyStep ==
  ASSUME Types, NEW c \in Callers, sessionFor(c) \/ Login(c) \/ prepareReply(c)
  PROVE  Stays(c) \/ \E out \in Failures : AnswersOnly(c, out)
<1>1. FirstRequest(c) \in Working /\ {"login", "request"} \subseteq Working
  BY DEF FirstRequest, Working
<1>2. CASE sessionFor(c)
  <2>1. UNCHANGED <<platform, blocked, thread, pending, outcome>> /\ call[c].stage \in Working
    BY <1>2 DEF sessionFor, Working
  <2>2. CASE call' = [call EXCEPT ![c].alive = session.alive, ![c].stage = FirstRequest(c)]
    BY <1>1, <2>1, <2>2, StageCall DEF Stays
  <2>3. CASE Continue(c, "login")
    <3>1. /\ \A d \in Callers \ {c} : call'[d] = call[d]
          /\ call'[c].stage = "login"
          /\ call'[c].op = call[c].op /\ call'[c].write = call[c].write
          /\ call'[c].under = call[c].under /\ call'[c].owed = call[c].owed
          /\ call'[c].out = call[c].out /\ call'[c].cursor = call[c].cursor
      BY <2>3, StageCall
    <3>2. QED
      BY <1>1, <2>1, <3>1 DEF Stays
  <2>4. QED
    BY <1>2, <2>2, <2>3 DEF sessionFor
<1>3. Classify("oauth", "read") \in Failures
  BY ClassifyType DEF Answers
<1>4. CASE Login(c)
  <2>1. UNCHANGED <<platform, blocked, thread, pending>> /\ call[c].stage \in Working
    BY <1>4 DEF Login, Working
  <2>2. CASE call' = [call EXCEPT ![c].alive = TRUE, ![c].stage = FirstRequest(c)]
             /\ UNCHANGED outcome
    BY <1>1, <2>1, <2>2, StageCall DEF Stays
  <2>3. CASE \E error \in Failures : Fail(c, error)
    BY <2>1, <2>3 DEF Fail, AnswersOnly
  <2>4. QED
    BY <1>3, <1>4, <2>2, <2>3, WireFaultType DEF Login
<1>5. CASE prepareReply(c)
  <2>1. UNCHANGED <<platform, blocked, thread, pending>> /\ call[c].stage \in Working
    BY <1>5 DEF prepareReply, Working
  <2>2. CASE Continue(c, "request") /\ UNCHANGED outcome
    <3>1. /\ \A d \in Callers \ {c} : call'[d] = call[d]
          /\ call'[c].stage = "request"
          /\ call'[c].op = call[c].op /\ call'[c].write = call[c].write
          /\ call'[c].under = call[c].under /\ call'[c].owed = call[c].owed
          /\ call'[c].out = call[c].out /\ call'[c].cursor = call[c].cursor
      BY <2>2, StageCall
    <3>2. QED
      BY <1>1, <2>1, <2>2, <3>1 DEF Stays
  <2>3. CASE \E error \in Failures : Fail(c, error)
    BY <2>1, <2>3 DEF Fail, AnswersOnly
  <2>4. CASE Answer(c, "PermanentError")
    BY <2>1, <2>4 DEF AnswersOnly, Failures
  <2>5. QED
    BY <1>5, <2>2, <2>3, <2>4, WireFaultType DEF prepareReply
<1>6. QED
  BY <1>2, <1>4, <1>5

LEMMA ReadFailsStep ==
  ASSUME Types, NEW c \in Callers, NEW op, ReadFails(c, op)
  PROVE  \E out \in Failures : AnswersOnly(c, out)
<1>1. PICK error \in Failures : Fail(c, error)
  BY WireFaultType DEF ReadFails
<1>2. QED
  BY <1>1 DEF ReadFails, ReadOnly, Reading, AnswersOnly, Fail, Working

-------------------------------------------------------------------------------
(* What a call does not find. *)

\* The thread gains comments and loses life, what a comment is it remains, and no block
\* is lifted.
Onward ==
  /\ platform' = platform /\ blocked \subseteq blocked' /\ DOMAIN thread \subseteq DOMAIN thread'
  /\ \A i \in DOMAIN thread :
       /\ thread'[i].under = thread[i].under /\ thread'[i].by = thread[i].by
       /\ thread'[i].live => thread[i].live

\* The call is where it was, or on its way.
Unmoved(d) ==
  /\ call'[d].stage = call[d].stage \/ {call'[d].stage, call[d].stage} \subseteq Working
  /\ call'[d].op = call[d].op /\ call'[d].write = call[d].write
  /\ call'[d].under = call[d].under /\ call'[d].owed = call[d].owed
  /\ call'[d].out = call[d].out /\ call'[d].cursor = call[d].cursor

LEMMA OnwardKeepsGone ==
  ASSUME Onward
  PROVE  /\ \A S \in SUBSET (DOMAIN thread) : S \cap Live' \subseteq S \cap Live
         /\ \A k \in {Post} \cup DOMAIN thread : ~Exists(k) => ~Exists(k)'
         /\ \A i \in DOMAIN thread : i \in Live' =>
              (i \in Edge(Post)' <=> i \in Edge(Post)) /\ i \in Live
<1>1. \A i \in DOMAIN thread : i \in Live' => i \in Live
  BY DEF Onward, Live
<1>2. \A i \in DOMAIN thread : i \in Live' => (i \in Edge(Post)' <=> i \in Edge(Post))
  BY <1>1 DEF Onward, Edge
<1>3. \A k \in {Post} \cup DOMAIN thread : ~Exists(k) => ~Exists(k)'
  BY <1>1 DEF Exists
<1>4. QED
  BY <1>1, <1>2, <1>3

LEMMA UnmovedKeepsTruth ==
  ASSUME Onward, NEW d \in Callers, Unmoved(d), ReadTruth(d), AbsenceTrue(d)
  PROVE  ReadTruth(d)' /\ AbsenceTrue(d)'
<1>1. /\ call[d].owed \subseteq DOMAIN thread /\ call[d].under \in {Post} \cup DOMAIN thread
      /\ call'[d].owed = call[d].owed /\ call'[d].under = call[d].under
      /\ call'[d].op = call[d].op /\ call'[d].write = call[d].write
      /\ call'[d].cursor = call[d].cursor /\ call'[d].out = call[d].out
  BY DEF ReadTruth, Unmoved
<1>2. call'[d].stage \in Working => call[d].stage \in Working
  BY DEF Unmoved
<1>3. \A i \in call[d].owed :
        /\ i \in Live' => i \in Live /\ (i \in Edge(Post)' <=> i \in Edge(Post))
        /\ thread'[i].under = thread[i].under /\ thread'[i].by = thread[i].by
  BY <1>1, OnwardKeepsGone DEF Onward
<1>4. FindTruth(d)'
  BY <1>1, <1>2, <1>3 DEF ReadTruth, FindTruth
<1>5. ListTruth(d)'
  BY <1>1, <1>2, <1>3 DEF ReadTruth, ListTruth, Onward
<1>6. FetchTruth(d)'
  BY <1>1, <1>2 DEF ReadTruth, FetchTruth
<1>7. AbsenceTrue(d)'
  <2>1. call[d].owed \cap Live' \subseteq call[d].owed \cap Live
    BY <1>1, OnwardKeepsGone
  <2>2. ~Exists(call[d].under) => ~Exists(call[d].under)'
    <3>1. PICK k : k = call[d].under
      OBVIOUS
    <3>2. ~Exists(k) => ~Exists(k)'
      BY <1>1, <3>1, OnwardKeepsGone
    <3>3. QED
      BY <1>1, <3>1, <3>2
  <2>3. QED
    BY <1>1, <2>1, <2>2 DEF AbsenceTrue, OutOfSight, Onward
<1>8. QED
  BY <1>1, <1>4, <1>5, <1>6, <1>7 DEF ReadTruth, Onward, Unmoved, Working

\* An answer that is no absence needs nothing; one that is must be true now.
LEMMA AnswerKeepsTruth ==
  ASSUME Types, Onward, NEW c \in Callers, NEW out, Answer(c, out), ReadTruth(c),
         out \in {"absent", "complete"} =>
           UNCHANGED <<thread, blocked>> /\ OutOfSight(c)
  PROVE  ReadTruth(c)' /\ AbsenceTrue(c)'
<1>1. /\ call'[c].op = call[c].op /\ call'[c].stage = "answered" /\ call'[c].out = out
      /\ call'[c].under = call[c].under /\ call'[c].owed = call[c].owed
  BY AnswerCall
<1>2. FindTruth(c)' /\ ListTruth(c)' /\ FetchTruth(c)'
  BY <1>1 DEF FindTruth, ListTruth, FetchTruth, Working
<1>3. ReadTruth(c)'
  BY <1>1, <1>2 DEF ReadTruth, Onward, Working
<1>4. AbsenceTrue(c)'
  BY <1>1 DEF AbsenceTrue, OutOfSight, Live, Exists
<1>5. QED
  BY <1>3, <1>4

LEMMA StartFindTruth ==
  ASSUME HonestInv, NEW c \in Callers, NEW w \in DOMAIN outcome, StartFind(c, w)
  PROVE  Types' /\ HonestTruth' /\ ReadTruth(c)' /\ AbsenceTrue(c)'
<1> DEFINE mine == {i \in Live : thread[i].by = w}
           new  == [Idle EXCEPT !.op = "find", !.write = w, !.under = outcome[w].under,
                                !.owed = mine]
<1>1. Begin(c, new) /\ UNCHANGED outcome
  BY DEF StartFind
<1>2. w \in Nat \ {0} /\ outcome[w].under \in Anchors /\ mine \in SUBSET Nat
  <2>1. w \in 1..Len(outcome) /\ Len(outcome) \in Nat /\ outcome \in Seq(Writes)
    BY LenProperties DEF HonestInv, Types
  <2>2. outcome[w] \in Writes
    BY <2>1, ElementOfSeq
  <2>3. mine \in SUBSET Live
    OBVIOUS
  <2>4. mine \in SUBSET Nat
    BY <2>3, LiveIsFinite DEF HonestInv
  <2>5. QED
    BY <2>1, <2>2, <2>4 DEF Writes
<1>3. new \in Calls /\ new.op = "find" /\ new.write = w /\ new.under = outcome[w].under
      /\ new.owed = mine /\ new.out = "nothing" /\ new.cursor = 0
  <2>1. outcome[w].under \in Nat
    BY <1>2 DEF Anchors, Post
  <2> HIDE DEF mine
  <2>2. QED
    BY <1>2, <2>1 DEF Calls, Idle, Post, NoCursor, Outs
<1>4. Types'
  BY <1>1, <1>3, BeginType DEF HonestInv, Types
<1> HIDE DEF new
<1>5. /\ \A d \in Callers \ {c} : call'[d] = call[d]
      /\ call'[c].op = "find" /\ call'[c].write = w /\ call'[c].under = outcome[w].under
      /\ call'[c].owed = mine /\ call'[c].out = "nothing" /\ call'[c].cursor = 0
      /\ UNCHANGED <<platform, blocked, thread, pending>>
  BY <1>1, <1>3, BeginCall DEF HonestInv, Begin
<1>6. HonestTruth'
  BY <1>1, <1>5, ReaderKeepsHonest DEF Publishing
<1>7. \A i \in mine : /\ i \in DOMAIN thread /\ i > 0
                      /\ thread[i].by = w /\ thread[i].under = outcome[w].under
  BY <1>2, LiveIsFinite DEF HonestInv, HonestTruth, ThreadShape, Live
<1>8. outcome[w].under \in {Post} \cup DOMAIN thread
  BY <1>2 DEF HonestInv, HonestTruth, ThreadShape, Anchors
<1> HIDE DEF mine
<1>9. FindTruth(c)' /\ ListTruth(c)' /\ FetchTruth(c)'
  BY <1>2, <1>5, <1>7 DEF FindTruth, ListTruth, FetchTruth
<1>10. QED
  BY <1>4, <1>5, <1>6, <1>7, <1>8, <1>9 DEF ReadTruth, AbsenceTrue

LEMMA StartListTruth ==
  ASSUME HonestInv, NEW c \in Callers, StartList(c)
  PROVE  Types' /\ HonestTruth' /\ ReadTruth(c)' /\ AbsenceTrue(c)'
<1> DEFINE new == [Idle EXCEPT !.op = "list", !.owed = Live]
<1>1. Begin(c, new) /\ UNCHANGED outcome /\ platform # "bluesky"
  BY DEF StartList
<1>2. Live \in SUBSET Nat
  BY LiveIsFinite DEF HonestInv
<1>3. new \in Calls /\ new.op = "list" /\ new.under = Post
      /\ new.owed = Live /\ new.out = "nothing" /\ new.cursor = 0
  BY <1>2 DEF Calls, Idle, Post, NoCursor, Outs
<1>4. Types'
  BY <1>1, <1>3, BeginType DEF HonestInv, Types
<1> HIDE DEF new
<1>5. /\ \A d \in Callers \ {c} : call'[d] = call[d]
      /\ call'[c].op = "list" /\ call'[c].under = Post
      /\ call'[c].owed = Live /\ call'[c].out = "nothing" /\ call'[c].cursor = 0
      /\ UNCHANGED <<platform, blocked, thread, pending>>
  BY <1>1, <1>3, BeginCall DEF HonestInv, Begin
<1>6. HonestTruth'
  BY <1>1, <1>5, ReaderKeepsHonest DEF Publishing
<1>7. ASSUME NEW i \in Live PROVE IF i \in Edge(Post) THEN i > 0 ELSE thread[i].under > 0
  <2>1. i \in Nat \ {0} /\ thread[i].under \in Nat
    BY LiveIsFinite DEF HonestInv, Live, Comments, Anchors, Post
  <2>2. thread[i].under = Post => i \in Edge(Post)
    BY DEF Edge
  <2>3. QED
    BY <2>1, <2>2 DEF Post
<1>8. ListTruth(c)'
  BY <1>1, <1>5, <1>7 DEF ListTruth, Live, Edge
<1>9. FindTruth(c)' /\ FetchTruth(c)'
  BY <1>5 DEF FindTruth, FetchTruth
<1>10. Live \subseteq DOMAIN thread
  BY DEF Live
<1>11. ReadTruth(c)'
  BY <1>5, <1>8, <1>9, <1>10 DEF ReadTruth
<1>12. AbsenceTrue(c)'
  BY <1>5 DEF AbsenceTrue
<1>13. QED
  BY <1>4, <1>6, <1>11, <1>12

LEMMA StartFetchTruth ==
  ASSUME HonestInv, NEW c \in Callers, NEW i \in DOMAIN thread, StartFetch(c, i)
  PROVE  Types' /\ HonestTruth' /\ ReadTruth(c)' /\ AbsenceTrue(c)'
<1> DEFINE new == [Idle EXCEPT !.op = "fetch", !.under = i, !.owed = {i}]
<1>1. Begin(c, new) /\ UNCHANGED outcome
  BY DEF StartFetch
<1>2. i \in Nat
  BY LiveIsFinite DEF HonestInv
<1>3. new \in Calls /\ new.op = "fetch" /\ new.under = i /\ new.owed = {i} /\ new.out = "nothing"
  BY <1>2 DEF Calls, Idle, Post, NoCursor, Outs
<1>4. Types'
  BY <1>1, <1>3, BeginType DEF HonestInv, Types
<1> HIDE DEF new
<1>5. /\ \A d \in Callers \ {c} : call'[d] = call[d]
      /\ call'[c].op = "fetch" /\ call'[c].under = i
      /\ call'[c].owed = {i} /\ call'[c].out = "nothing"
      /\ UNCHANGED <<platform, blocked, thread, pending>>
  BY <1>1, <1>3, BeginCall DEF HonestInv, Begin
<1>6. HonestTruth'
  BY <1>1, <1>5, ReaderKeepsHonest DEF Publishing
<1>7. FindTruth(c)' /\ ListTruth(c)' /\ FetchTruth(c)'
  BY <1>5 DEF FindTruth, ListTruth, FetchTruth
<1>8. QED
  BY <1>4, <1>5, <1>6, <1>7 DEF ReadTruth, AbsenceTrue

LEMMA StartPublishTruth ==
  ASSUME HonestInv, NEW c \in Callers, NEW anchor \in Anchors, StartPublish(c, anchor)
  PROVE  /\ ReadTruth(c)' /\ AbsenceTrue(c)'
         /\ \A d \in Callers \ {c} : call'[d] = call[d]
<1>1. PICK w \in Nat : w = Len(outcome) + 1
  BY LenProperties DEF HonestInv, Types
<1> DEFINE new == [Idle EXCEPT !.op = "publish", !.write = w, !.under = anchor]
<1>2. Begin(c, new) /\ UNCHANGED <<platform, blocked, thread>>
  BY <1>1 DEF StartPublish, Begin
<1>3. new \in Calls /\ new.op = "publish" /\ new.under = anchor /\ new.owed = {}
      /\ new.out = "nothing"
  <2>1. anchor \in Nat
    BY DEF Anchors, Post
  <2>2. QED
    BY <2>1 DEF Calls, Idle, Post, NoCursor, Outs
<1> HIDE DEF new
<1>4. /\ \A d \in Callers \ {c} : call'[d] = call[d]
      /\ call'[c].op = "publish" /\ call'[c].under = anchor
      /\ call'[c].owed = {} /\ call'[c].out = "nothing"
  BY <1>2, <1>3, BeginCall DEF HonestInv
<1>5. anchor \in {Post} \cup DOMAIN thread
  BY DEF HonestInv, HonestTruth, ThreadShape, Anchors
<1>6. FindTruth(c)' /\ ListTruth(c)' /\ FetchTruth(c)'
  BY <1>4 DEF FindTruth, ListTruth, FetchTruth
<1>7. QED
  BY <1>2, <1>4, <1>5, <1>6 DEF ReadTruth, AbsenceTrue

LEMMA ReturnTruth ==
  ASSUME HonestInv, NEW c \in Callers, Return(c)
  PROVE  HonestInv' /\ ReadTruth(c)' /\ AbsenceTrue(c)' /\ \A d \in Callers \ {c} : call'[d] = call[d]
<1>1. Idle \in Calls /\ Idle.op = "none" /\ Idle.under = Post /\ Idle.owed = {}
      /\ Idle.out = "nothing"
  BY DEF Calls, Idle, Post, NoCursor, Outs
<1>2. call'[c] = Idle /\ call' \in [Callers -> Calls] /\ \A d \in Callers \ {c} : call'[d] = call[d]
  BY <1>1 DEF Return, HonestInv, Types
<1>3. Types' /\ UNCHANGED <<platform, blocked, thread, pending, outcome>>
  BY <1>2 DEF Return, HonestInv, Types
<1>4. HonestTruth'
  BY <1>1, <1>2, <1>3, ReaderKeepsHonest DEF Publishing
<1>5. FindTruth(c)' /\ ListTruth(c)' /\ FetchTruth(c)'
  BY <1>1, <1>2 DEF FindTruth, ListTruth, FetchTruth
<1>6. QED
  BY <1>1, <1>2, <1>3, <1>4, <1>5 DEF ReadTruth, AbsenceTrue, HonestInv

LEMMA SearchThreadTruth ==
  ASSUME HonestInv, NEW c \in Callers, ReadTruth(c), SearchThread(c)
  PROVE  HonestInv' /\ ReadTruth(c)' /\ AbsenceTrue(c)' /\ \A d \in Callers \ {c} : call'[d] = call[d]
<1>1. call[c].op = "find" /\ call[c].stage \in Working /\ UNCHANGED <<platform, blocked, thread, pending>>
  BY DEF SearchThread, Gets, Reading, ReadOnly, Working
<1>2. PICK out \in {"found", "absent"} :
        /\ Answer(c, out)
        /\ out = "absent" => \/ ~Exists(call[c].under) \/ call[c].under \in blocked
                             \/ ~\E i \in Edge(call[c].under) : thread[i].by = call[c].write
  BY DEF SearchThread
<1>3. \A i \in call[c].owed \cap Live : i \in Edge(call[c].under) /\ thread[i].by = call[c].write
  BY <1>1 DEF ReadTruth, FindTruth, Edge
<1>4. out = "absent" => OutOfSight(c)
  BY <1>1, <1>2, <1>3 DEF OutOfSight
<1>5. Onward
  BY <1>1 DEF Onward
<1>6. HonestTruth'
  BY <1>1, <1>2, AnswerKeepsHonest DEF Outs
<1>7. Types'
  BY SearchTypes DEF HonestInv
<1>8. ReadTruth(c)' /\ AbsenceTrue(c)'
  BY <1>1, <1>2, <1>4, <1>5, AnswerKeepsTruth DEF HonestInv
<1>9. QED
  BY <1>2, <1>6, <1>7, <1>8, AnswerCall DEF HonestInv

LEMMA fetchCommentTruth ==
  ASSUME HonestInv, NEW c \in Callers, ReadTruth(c), fetchComment(c)
  PROVE  HonestInv' /\ ReadTruth(c)' /\ AbsenceTrue(c)' /\ \A d \in Callers \ {c} : call'[d] = call[d]
<1>1. call[c].op = "fetch" /\ call[c].stage \in Working /\ UNCHANGED <<platform, blocked, thread, pending>>
  BY DEF fetchComment, Gets, Reading, ReadOnly, Working
<1>2. PICK out \in {"found", "absent"} :
        Answer(c, out) /\ (out = "absent" => call[c].under \notin Live \ blocked)
  BY DEF fetchComment
<1>3. call[c].owed = {call[c].under}
  BY <1>1 DEF ReadTruth, FetchTruth
<1>4. Onward
  BY <1>1 DEF Onward
<1>5. HonestTruth'
  BY <1>1, <1>2, AnswerKeepsHonest DEF Outs
<1>6. Types'
  BY SearchTypes DEF HonestInv
<1>7. ReadTruth(c)' /\ AbsenceTrue(c)'
  BY <1>1, <1>2, <1>3, <1>4, AnswerKeepsTruth DEF HonestInv, OutOfSight
<1>8. QED
  BY <1>2, <1>5, <1>6, <1>7, AnswerCall DEF HonestInv

\* A page turned: the call goes on behind it, or ends.
LEMMA TurnedSearch ==
  ASSUME Types, NEW c \in Callers, NEW page, NEW pages,
         call' = [call EXCEPT ![c] = [TurnPage(c, page) EXCEPT !.pages = pages]]
  PROVE  /\ \A d \in Callers \ {c} : call'[d] = call[d]
         /\ call'[c].op = call[c].op /\ call'[c].write = call[c].write
         /\ call'[c].under = call[c].under /\ call'[c].owed = call[c].owed
         /\ call'[c].stage = call[c].stage /\ call'[c].out = call[c].out
         /\ call'[c].cursor = Max(page \cup {call[c].cursor})
<1>1. call[c] \in Calls
  BY DEF Types
<1>2. PICK last : last = Max(page \cup {call[c].cursor})
  OBVIOUS
<1>3. TurnPage(c, page) = [call[c] EXCEPT !.cursor = last]
  BY <1>2 DEF TurnPage
<1>4. call'[c] = [call[c] EXCEPT !.cursor = last, !.pages = pages]
  BY <1>3 DEF Types
<1>5. \A d \in Callers \ {c} : call'[d] = call[d]
  BY DEF Types
<1>6. \A t \in Calls : LET u == [t EXCEPT !.cursor = last, !.pages = pages] IN
        /\ u.op = t.op /\ u.write = t.write /\ u.under = t.under /\ u.owed = t.owed
        /\ u.stage = t.stage /\ u.out = t.out /\ u.cursor = last
  BY DEF Calls
<1>7. QED
  BY <1>1, <1>2, <1>4, <1>5, <1>6

LEMMA TurnedListing ==
  ASSUME Types, NEW c \in Callers, NEW page, NEW owed, NEW stage, NEW out,
         call' = [call EXCEPT ![c] =
           [TurnPage(c, page) EXCEPT !.owed = owed, !.stage = stage, !.out = out]]
  PROVE  /\ \A d \in Callers \ {c} : call'[d] = call[d]
         /\ call'[c].op = call[c].op /\ call'[c].write = call[c].write
         /\ call'[c].under = call[c].under /\ call'[c].owed = owed
         /\ call'[c].stage = stage /\ call'[c].out = out
         /\ call'[c].cursor = Max(page \cup {call[c].cursor})
<1>1. call[c] \in Calls
  BY DEF Types
<1>2. PICK last : last = Max(page \cup {call[c].cursor})
  OBVIOUS
<1>3. TurnPage(c, page) = [call[c] EXCEPT !.cursor = last]
  BY <1>2 DEF TurnPage
<1>4. call'[c] = [call[c] EXCEPT !.cursor = last, !.owed = owed, !.stage = stage, !.out = out]
  BY <1>3 DEF Types
<1>5. \A d \in Callers \ {c} : call'[d] = call[d]
  BY DEF Types
<1>6. \A t \in Calls :
        LET u == [t EXCEPT !.cursor = last, !.owed = owed, !.stage = stage, !.out = out] IN
        /\ u.op = t.op /\ u.write = t.write /\ u.under = t.under /\ u.owed = owed
        /\ u.stage = stage /\ u.out = out /\ u.cursor = last
  BY DEF Calls
<1>7. QED
  BY <1>1, <1>2, <1>4, <1>5, <1>6

LEMMA findCommentOnEdgeTruth ==
  ASSUME HonestInv, NEW c \in Callers, ReadTruth(c), findCommentOnEdge(c)
  PROVE  HonestInv' /\ ReadTruth(c)' /\ AbsenceTrue(c)' /\ \A d \in Callers \ {c} : call'[d] = call[d]
<1>1. PICK edge, page : edge = Edge(call[c].under) /\ page = PageOf(edge, call[c].cursor, PageSize)
  OBVIOUS
<1>2. call[c].op = "find" /\ call[c].stage \in Working /\ UNCHANGED <<platform, blocked, thread, pending>>
  BY DEF findCommentOnEdge, Gets, Reading, ReadOnly, Working
<1>3. Onward /\ Types'
  BY <1>2, findCommentOnEdgeType DEF Onward, HonestInv
<1>4. /\ page \subseteq edge
      /\ \A i \in edge \ page, j \in page : i > call[c].cursor => i > j
      /\ ~MoreThan(edge, call[c].cursor, PageSize) => \A i \in edge : i > call[c].cursor => i \in page
      /\ page \in SUBSET Nat /\ IsFiniteSet(page) /\ edge \in SUBSET Nat /\ call[c].cursor \in Nat
  <2>1. edge \in SUBSET Nat /\ IsFiniteSet(edge)
    BY <1>1, LiveIsFinite DEF HonestInv, Edge
  <2>2. call[c].cursor \in Nat /\ PageSize \in Nat
    BY AdapterAssumption DEF HonestInv, Types, Calls
  <2>3. QED
    BY <1>1, <2>1, <2>2, PageIsFirst
<1>5. \A i \in call[c].owed \cap Live :
        i \in edge /\ i > call[c].cursor /\ thread[i].by = call[c].write
  BY <1>1, <1>2 DEF ReadTruth, FindTruth, Edge
<1>6. ASSUME NEW out \in Outs \ {"posted", "absent", "complete"}, Answer(c, out)
      PROVE  HonestInv' /\ ReadTruth(c)' /\ AbsenceTrue(c)' /\ \A d \in Callers \ {c} : call'[d] = call[d]
  <2>1. HonestTruth'
    BY <1>2, <1>6, AnswerKeepsHonest
  <2>2. ReadTruth(c)' /\ AbsenceTrue(c)'
    BY <1>3, <1>6, AnswerKeepsTruth DEF HonestInv
  <2>3. QED
    BY <1>3, <1>6, <2>1, <2>2, AnswerCall DEF HonestInv
<1>7. Classify("rejected", "read") \in Failures
  BY ClassifyType DEF Answers
<1>8. CASE ~Exists(call[c].under) /\ Answer(c, Classify("rejected", "read"))
  BY <1>6, <1>7, <1>8 DEF Outs, Failures
<1>9. ASSUME NEW next \in BOOLEAN, NEW after \in BOOLEAN,
             MoreThan(edge, call[c].cursor, PageSize) => next,
             IF \E i \in page : thread[i].by = call[c].write THEN Answer(c, "found")
             ELSE IF nextCursor(next, after) = "end" THEN Answer(c, "absent")
             ELSE IF nextCursor(next, after) = "lost" \/ call[c].pages + 1 = MaxPages
             THEN Answer(c, "OutcomeUnknownError")
             ELSE /\ call' = [call EXCEPT ![c] = [TurnPage(c, page) EXCEPT !.pages = @ + 1]]
                  /\ UNCHANGED outcome
      PROVE  HonestInv' /\ ReadTruth(c)' /\ AbsenceTrue(c)' /\ \A d \in Callers \ {c} : call'[d] = call[d]
  <2>1. CASE \E i \in page : thread[i].by = call[c].write
    BY <1>6, <1>9, <2>1 DEF Outs, Failures
  <2>2. CASE (\A i \in page : thread[i].by # call[c].write) /\ nextCursor(next, after) = "end"
    <3>1. ~next /\ Answer(c, "absent")
      BY <1>9, <2>2 DEF nextCursor
    <3>2. call[c].owed \cap Live = {}
      BY <1>4, <1>5, <1>9, <2>2, <3>1
    <3>3. HonestTruth'
      BY <1>2, <3>1, AnswerKeepsHonest DEF Outs
    <3>4. ReadTruth(c)' /\ AbsenceTrue(c)'
      BY <1>2, <1>3, <3>1, <3>2, AnswerKeepsTruth DEF HonestInv, OutOfSight
    <3>5. QED
      BY <1>3, <3>1, <3>3, <3>4, AnswerCall DEF HonestInv
  <2>3. CASE Answer(c, "OutcomeUnknownError")
    BY <1>6, <2>3 DEF Outs, Failures
  <2>4. CASE /\ \A i \in page : thread[i].by # call[c].write
             /\ call' = [call EXCEPT ![c] = [TurnPage(c, page) EXCEPT !.pages = @ + 1]]
             /\ UNCHANGED outcome
    <3>1. PICK pages : call' = [call EXCEPT ![c] = [TurnPage(c, page) EXCEPT !.pages = pages]]
      BY <2>4
    <3>2. PICK last : last = Max(page \cup {call[c].cursor})
      OBVIOUS
    <3>3. /\ \A d \in Callers \ {c} : call'[d] = call[d]
          /\ call'[c].op = call[c].op /\ call'[c].write = call[c].write
          /\ call'[c].under = call[c].under /\ call'[c].owed = call[c].owed
          /\ call'[c].stage = call[c].stage /\ call'[c].out = call[c].out
          /\ call'[c].cursor = last
      BY <3>1, <3>2, TurnedSearch DEF HonestInv
    <3>4. \A i \in Nat : i > call[c].cursor /\ (\A j \in page : i > j) => i > last
      BY <1>4, <3>2, TurnPageMoves
    <3>5. \A i \in call[c].owed \cap Live : i > last
      BY <1>4, <1>5, <2>4, <3>4
    <3>6. FindTruth(c)'
      BY <1>2, <3>3, <3>5 DEF ReadTruth, FindTruth, Live
    <3>7. ListTruth(c)' /\ FetchTruth(c)'
      BY <1>2, <3>3 DEF ListTruth, FetchTruth
    <3>8. ReadTruth(c)'
      BY <1>2, <3>3, <3>6, <3>7 DEF ReadTruth
    <3>9. AbsenceTrue(c)'
      BY <1>2, <3>3 DEF ReadTruth, AbsenceTrue
    <3>10. HonestTruth'
      BY <1>2, <2>4, <3>3, ReaderKeepsHonest DEF Publishing
    <3>11. QED
      BY <1>3, <3>3, <3>8, <3>9, <3>10 DEF HonestInv
  <2>5. QED
    BY <1>9, <2>1, <2>2, <2>3, <2>4
<1>10. QED
  BY <1>1, <1>8, <1>9, Zenon DEF findCommentOnEdge, Paging

LEMMA NestedIsAll ==
  ASSUME HonestInv, NEW page \in SUBSET Live, platform = "instagram", ~Truncated(page), NEW i \in Live,
         thread[i].under \in page
  PROVE  i \in Nested(page)
<1> DEFINE k == thread[i].under
           answers == {j \in Live : thread[j].under = k}
<1>1. answers \in SUBSET Nat /\ IsFiniteSet(answers) /\ ReplyPage \in Nat /\ NoCursor \in Nat
  BY LiveIsFinite, AdapterAssumption DEF HonestInv, NoCursor
<1>2. \A j \in answers : j > NoCursor
  BY LiveIsFinite DEF HonestInv, Live, NoCursor
<1>3. {j \in answers : j > NoCursor} = answers
  BY <1>2
<1>4. ~(Cardinality(answers) > ReplyPage)
  BY DEF Truncated
<1>5. ~MoreThan(answers, NoCursor, ReplyPage)
  BY <1>3, <1>4 DEF MoreThan
<1>6. i \in PageOf(answers, NoCursor, ReplyPage)
  <2>1. i \in answers
    OBVIOUS
  <2> HIDE DEF answers
  <2>2. QED
    BY <1>1, <1>2, <1>5, <2>1, PageIsFirst
<1>7. QED
  BY <1>6 DEF Nested

LEMMA listCommentsTruth ==
  ASSUME HonestInv, NEW c \in Callers, ReadTruth(c), listComments(c)
  PROVE  HonestInv' /\ ReadTruth(c)' /\ AbsenceTrue(c)' /\ \A d \in Callers \ {c} : call'[d] = call[d]
<1>1. PICK edge, page : edge = Edge(Post) /\ page = PageOf(edge, call[c].cursor, PageSize)
  OBVIOUS
<1>2. call[c].op = "list" /\ call[c].stage = "request" /\ UNCHANGED <<platform, blocked, thread, pending>>
      /\ "request" \in Working
  BY DEF listComments, Gets, Reading, ReadOnly, Working
<1>3. Onward /\ Types'
  BY <1>2, listCommentsType DEF Onward, HonestInv
<1>4. /\ page \subseteq edge
      /\ \A i \in edge \ page, j \in page : i > call[c].cursor => i > j
      /\ ~MoreThan(edge, call[c].cursor, PageSize) => \A i \in edge : i > call[c].cursor => i \in page
      /\ page \in SUBSET Nat /\ IsFiniteSet(page) /\ edge \in SUBSET Nat /\ call[c].cursor \in Nat
  <2>1. edge \in SUBSET Nat /\ IsFiniteSet(edge)
    BY <1>1, LiveIsFinite DEF HonestInv, Edge
  <2>2. call[c].cursor \in Nat /\ PageSize \in Nat
    BY AdapterAssumption DEF HonestInv, Types, Calls
  <2>3. QED
    BY <1>1, <2>1, <2>2, PageIsFirst
<1>5. PICK next \in BOOLEAN, after \in BOOLEAN :
        /\ MoreThan(edge, call[c].cursor, PageSize) => next
        /\ IF Truncated(page) \/ nextCursor(next, after) = "lost"
           THEN Answer(c, "Error")
           ELSE /\ call' = [call EXCEPT ![c] =
                     [TurnPage(c, page) EXCEPT
                        !.owed  = @ \ (page \cup Nested(page)),
                        !.stage = IF nextCursor(next, after) = "end" THEN "answered" ELSE @,
                        !.out   = IF nextCursor(next, after) = "end" THEN "complete" ELSE @]]
                /\ UNCHANGED outcome
  BY <1>1, Zenon DEF listComments, Paging
<1>6. CASE Answer(c, "Error")
  <2>1. HonestTruth'
    BY <1>2, <1>6, AnswerKeepsHonest DEF Outs
  <2>2. ReadTruth(c)' /\ AbsenceTrue(c)'
    BY <1>3, <1>6, AnswerKeepsTruth DEF HonestInv
  <2>3. QED
    BY <1>3, <1>6, <2>1, <2>2, AnswerCall DEF HonestInv
<1>7. ASSUME ~Truncated(page), UNCHANGED outcome,
             call' = [call EXCEPT ![c] =
                     [TurnPage(c, page) EXCEPT
                        !.owed  = @ \ (page \cup Nested(page)),
                        !.stage = IF nextCursor(next, after) = "end" THEN "answered" ELSE @,
                        !.out   = IF nextCursor(next, after) = "end" THEN "complete" ELSE @]]
      PROVE  HonestInv' /\ ReadTruth(c)' /\ AbsenceTrue(c)' /\ \A d \in Callers \ {c} : call'[d] = call[d]
  <2>1. PICK owed, stage, out, last :
          /\ owed  = call[c].owed \ (page \cup Nested(page))
          /\ stage = IF nextCursor(next, after) = "end" THEN "answered" ELSE call[c].stage
          /\ out   = IF nextCursor(next, after) = "end" THEN "complete" ELSE call[c].out
          /\ last  = Max(page \cup {call[c].cursor})
    OBVIOUS
  <2>2. call' = [call EXCEPT ![c] =
          [TurnPage(c, page) EXCEPT !.owed = owed, !.stage = stage, !.out = out]]
    <3>1. /\ TurnPage(c, page).owed = call[c].owed /\ TurnPage(c, page).stage = call[c].stage
          /\ TurnPage(c, page).out = call[c].out
      BY DEF HonestInv, Types, Calls, TurnPage
    <3>2. QED
      BY <1>7, <2>1, <3>1, Zenon
  <2>3. /\ \A d \in Callers \ {c} : call'[d] = call[d]
        /\ call'[c].op = call[c].op /\ call'[c].write = call[c].write
        /\ call'[c].under = call[c].under /\ call'[c].owed = owed
        /\ call'[c].stage = stage /\ call'[c].out = out /\ call'[c].cursor = last
    <3>1. Types
      BY DEF HonestInv
    <3>2. /\ \A d \in Callers \ {c} : call'[d] = call[d]
          /\ call'[c].op = call[c].op /\ call'[c].write = call[c].write
          /\ call'[c].under = call[c].under /\ call'[c].owed = owed
          /\ call'[c].stage = stage /\ call'[c].out = out
          /\ call'[c].cursor = Max(page \cup {call[c].cursor})
      BY <2>2, <3>1, TurnedListing, Zenon
    <3>3. QED
      BY <2>1, <3>2
  <2>4. \A i \in Nat : i > call[c].cursor /\ (\A j \in page : i > j) => i > last
    BY <1>4, <2>1, TurnPageMoves
  <2>5. ASSUME NEW i \in owed \cap Live
        PROVE  /\ IF i \in edge THEN i > last ELSE thread[i].under > last
               /\ MoreThan(edge, call[c].cursor, PageSize)
    <3>1. i \in call[c].owed \cap Live /\ i \notin page /\ i \notin Nested(page)
      BY <2>1
    <3>2. IF i \in edge THEN i > call[c].cursor ELSE thread[i].under > call[c].cursor
      BY <1>1, <1>2, <3>1 DEF ReadTruth, ListTruth
    <3>3. CASE i \in edge
      BY <1>4, <2>4, <3>1, <3>2, <3>3
    <3>4. CASE i \notin edge
      <4>1. PICK k : k = thread[i].under
        OBVIOUS
      <4>2. platform = "instagram" /\ k # Post
        BY <1>1, <1>2, <3>1, <3>4, <4>1 DEF Edge, ReadTruth, ListTruth, HonestInv, Types, Platforms
      <4>3. k \in Live /\ k = 1
        <5>1. k \in Anchors
          BY <3>1, <4>1, LiveIsFinite DEF HonestInv, Live, Comments
        <5>2. QED
          BY <3>1, <4>1, <4>2, <5>1 DEF HonestInv, HonestTruth, ThreadShape, Exists, Anchors
      <4>4. k \in edge
        BY <1>1, <4>3 DEF Edge, HonestInv, HonestTruth, ThreadShape
      <4>5. k \notin page
        <5>1. page \in SUBSET Live
          BY <1>1, <1>4 DEF Edge
        <5>2. QED
          BY <1>7, <3>1, <4>1, <4>2, <5>1, NestedIsAll
      <4>6. k > call[c].cursor
        BY <3>2, <3>4, <4>1
      <4>7. k > last /\ MoreThan(edge, call[c].cursor, PageSize)
        BY <1>4, <2>4, <4>4, <4>5, <4>6
      <4>8. QED
        BY <3>4, <4>1, <4>7
    <3>5. QED
      BY <3>3, <3>4
  <2>6. nextCursor(next, after) = "end" => owed \cap Live = {}
    BY <1>5, <2>5 DEF nextCursor
  <2>7. ListTruth(c)'
    <3>1. Edge(Post)' = edge /\ Live' = Live /\ platform # "bluesky"
      BY <1>1, <1>2 DEF Edge, Live, ReadTruth, ListTruth
    <3>2. QED
      BY <1>2, <2>3, <2>5, <3>1 DEF ListTruth
  <2>8. FindTruth(c)' /\ FetchTruth(c)'
    BY <1>2, <2>3 DEF FindTruth, FetchTruth
  <2>9. ReadTruth(c)'
    BY <1>2, <2>1, <2>3, <2>7, <2>8 DEF ReadTruth, Working
  <2>10. AbsenceTrue(c)'
    <3>1. out = "complete" => owed \cap Live = {}
      BY <1>2, <2>1, <2>6 DEF ReadTruth
    <3>2. out # "absent"
      BY <1>2, <2>1 DEF ReadTruth
    <3>3. QED
      BY <1>2, <2>3, <3>1, <3>2 DEF AbsenceTrue, OutOfSight, Live
  <2>11. HonestTruth'
    BY <1>2, <1>7, <2>3, ReaderKeepsHonest DEF Publishing
  <2>12. QED
    BY <1>3, <2>3, <2>9, <2>10, <2>11 DEF HonestInv
<1>8. QED
  BY <1>5, <1>6, <1>7

-------------------------------------------------------------------------------
(* Every step. *)

\* The platform's own steps, and the credentials'.
OutsideStep ==
  \/ \E anchor \in {Post, 1} : CommentElsewhere(anchor)
  \/ \E i \in DOMAIN thread : DeleteElsewhere(i)
  \/ \E i \in {Post} \cup DOMAIN thread : Block(i)
  \/ \E p \in pending : Arrives(p)
  \/ IssueCredential \/ StoreCredential \/ KillSessions

LEMMA ApplyIsOnward ==
  ASSUME Types, UNCHANGED <<platform, blocked>>, NEW w \in Nat, NEW anchor \in Anchors, Apply(w, anchor)
  PROVE  Onward
  BY ApplyGrows DEF Onward

LEMMA OutsideKeepsHonest ==
  ASSUME HonestInv, OutsideStep
  PROVE  HonestInv' /\ Onward /\ \A d \in Callers : Unmoved(d)
<1>1. CASE \E anchor \in {Post, 1} : CommentElsewhere(anchor)
  <2>1. PICK anchor \in Anchors : CommentElsewhere(anchor)
    BY <1>1 DEF Anchors
  <2>2. Apply(0, anchor) /\ Takes(anchor)
        /\ UNCHANGED <<platform, blocked, pending, outcome, accepted, stored, session, call, faults>>
    BY <2>1 DEF CommentElsewhere, Takes
  <2>3. thread' \in Seq(Comments) /\ Onward
    BY <2>2, ApplyGrows, ApplyIsOnward DEF HonestInv
  <2>4. HonestTruth'
    BY <2>2, ApplyKeepsHonest
  <2>5. Types'
    BY <2>2, <2>3 DEF HonestInv, Types
  <2>6. QED
    BY <2>2, <2>3, <2>4, <2>5 DEF HonestInv, Unmoved
<1>2. CASE \E i \in DOMAIN thread : DeleteElsewhere(i)
  <2>1. PICK i \in DOMAIN thread : DeleteElsewhere(i)
    BY <1>2
  <2>2. UNCHANGED <<platform, blocked, pending, outcome, accepted, stored, session, call, faults>>
    BY <2>1 DEF DeleteElsewhere
  <2>3. thread' \in Seq(Comments) /\ Onward
    BY <2>1, <2>2, DeleteShrinks DEF HonestInv, Onward
  <2>4. HonestTruth'
    BY <2>1, DeleteKeepsHonest
  <2>5. Types'
    BY <2>2, <2>3 DEF HonestInv, Types
  <2>6. QED
    BY <2>2, <2>3, <2>4, <2>5 DEF HonestInv, Unmoved
<1>3. CASE \E p \in pending : Arrives(p)
  <2>1. PICK p \in pending : Arrives(p)
    BY <1>3
  <2>2. UNCHANGED <<platform, blocked, outcome, accepted, stored, session, call, faults>>
        /\ pending' \subseteq pending
    BY <2>1 DEF Arrives
  <2>3. p.write \in Nat /\ p.under \in Anchors /\ p.write \in DOMAIN outcome
        /\ p.under = outcome[p.write].under
    BY DEF HonestInv, HonestTruth, ThreadShape, Types
  <2>4. CASE Takes(p.under) /\ Apply(p.write, p.under)
    <3>1. thread' \in Seq(Comments) /\ Onward
      BY <2>2, <2>3, <2>4, ApplyGrows, ApplyIsOnward DEF HonestInv
    <3>2. HonestTruth'
      BY <2>2, <2>3, <2>4, ApplyKeepsHonest
    <3>3. Types'
      BY <2>2, <3>1 DEF HonestInv, Types
    <3>4. QED
      BY <2>2, <3>1, <3>2, <3>3 DEF HonestInv, Unmoved
  <2>5. CASE UNCHANGED thread
    <3>1. ThreadShape' /\ OutcomeHonest' /\ WritesApart'
      BY <2>2, <2>5 DEF HonestInv, HonestTruth, ThreadShape, OutcomeHonest, WritesApart,
                        Publishing, Live, Exists
    <3>2. \A d \in Callers : PublishTruth(d)'
      BY <2>2, <2>5 DEF HonestInv, HonestTruth, PublishTruth, Publishing, Unsent
    <3>3. Types'
      BY <2>2, <2>5 DEF HonestInv, Types
    <3>4. QED
      BY <2>2, <2>5, <3>1, <3>2, <3>3 DEF HonestInv, HonestTruth, Onward, Unmoved
  <2>6. QED
    BY <2>1, <2>4, <2>5 DEF Arrives
<1>4. CASE IssueCredential \/ StoreCredential
  <2>1. UNCHANGED <<platform, blocked, thread, pending, outcome, session, call, faults>>
        /\ accepted' \in Nat /\ stored' \in Nat
    BY <1>4 DEF IssueCredential, StoreCredential, HonestInv, Types
  <2>2. HonestTruth'
    BY <2>1, SameKeepsHonest DEF Publishing
  <2>3. QED
    BY <2>1, <2>2 DEF HonestInv, Types, Onward, Unmoved
<1>5. CASE KillSessions
  <2>1. UNCHANGED <<platform, blocked, thread, pending, outcome, accepted, stored>> /\ faults' \in Nat
    BY <1>5 DEF KillSessions, Fault, HonestInv, Types
  <2>2. \A d \in Callers : call'[d] = [call[d] EXCEPT !.alive = FALSE]
    BY <1>5 DEF KillSessions
  <2>3. \A t \in Calls : LET u == [t EXCEPT !.alive = FALSE] IN
          /\ u \in Calls /\ u.stage = t.stage
          /\ u.op = t.op /\ u.write = t.write /\ u.under = t.under /\ u.owed = t.owed
          /\ u.out = t.out /\ u.cursor = t.cursor
    BY DEF Calls
  <2>4. \A d \in Callers : call[d] \in Calls
    BY DEF HonestInv, Types
  <2>5. ASSUME NEW d \in Callers PROVE Unmoved(d)
    <3>1. call[d] \in Calls /\ call'[d] = [call[d] EXCEPT !.alive = FALSE]
      BY <2>2, <2>4
    <3>2. LET u == [call[d] EXCEPT !.alive = FALSE] IN
            /\ u.stage = call[d].stage
            /\ u.op = call[d].op /\ u.write = call[d].write /\ u.under = call[d].under
            /\ u.owed = call[d].owed /\ u.out = call[d].out /\ u.cursor = call[d].cursor
      BY <2>3, <3>1
    <3>3. QED
      BY <3>1, <3>2 DEF Unmoved
  <2>6. call' \in [Callers -> Calls]
    BY <1>5, <2>3, <2>4 DEF KillSessions
  <2>7. session' \in Sessions
    <3>1. PICK noticed \in BOOLEAN :
            session' = [session EXCEPT !.alive = FALSE, !.has = @ /\ ~noticed]
      BY <1>5 DEF KillSessions
    <3>2. (session.has /\ ~noticed) \in BOOLEAN
      OBVIOUS
    <3>3. session' = [session EXCEPT !.alive = FALSE, !.has = session.has /\ ~noticed]
      BY <3>1 DEF HonestInv, Types, Sessions
    <3>4. QED
      BY <3>2, <3>3 DEF HonestInv, Types, Sessions
  <2>8. HonestTruth'
    BY <2>1, <2>5, SameKeepsHonest DEF Unmoved, Publishing, Working
  <2>9. QED
    BY <2>1, <2>5, <2>6, <2>7, <2>8 DEF HonestInv, Types, Onward
<1>6. CASE \E i \in {Post} \cup DOMAIN thread : Block(i)
  <2>1. /\ UNCHANGED <<platform, thread, pending, outcome, accepted, stored, session, call, faults>>
        /\ blocked \subseteq blocked'
    BY <1>6 DEF Block
  <2>2. HonestTruth'
    BY <2>1, SameKeepsHonest DEF Publishing
  <2>3. QED
    BY <2>1, <2>2 DEF HonestInv, Types, Onward, Unmoved
<1>7. QED
  BY <1>1, <1>2, <1>3, <1>4, <1>5, <1>6 DEF OutsideStep

\* The caller's own step, seen from the others: theirs is as it was.
StepOf(c) == Onward /\ \A d \in Callers \ {c} : call'[d] = call[d]

LEMMA WaitKeepsTruth ==
  ASSUME HonestInv, NEW c \in Callers, ReadTruth(c), AbsenceTrue(c), Types',
         Stays(c) \/ \E out \in Failures : AnswersOnly(c, out)
  PROVE  HonestInv' /\ ReadTruth(c)' /\ AbsenceTrue(c)' /\ StepOf(c)
<1>1. CASE Stays(c)
  <2>1. Publishing(c)' => Publishing(c) /\ call'[c].write = call[c].write
                          /\ call'[c].under = call[c].under
    BY <1>1 DEF Stays, Publishing
  <2>2. HonestTruth'
    BY <1>1, <2>1, ReaderKeepsHonest DEF Stays
  <2>3. StepOf(c) /\ Unmoved(c)
    BY <1>1 DEF Stays, StepOf, Onward, Unmoved
  <2>4. QED
    BY <2>2, <2>3, UnmovedKeepsTruth DEF HonestInv, StepOf
<1>2. CASE \E out \in Failures : AnswersOnly(c, out)
  <2>1. PICK out \in Failures : AnswersOnly(c, out)
    BY <1>2
  <2>2. out \in Outs \ {"posted"} /\ out \notin {"absent", "complete"}
    BY DEF Failures, Outs
  <2>3. Answer(c, out) /\ call[c].stage \in Working /\ UNCHANGED <<platform, blocked, thread, pending>>
    BY <2>1 DEF AnswersOnly
  <2>4. HonestTruth'
    BY <2>2, <2>3, ReaderKeepsHonest
  <2>5. StepOf(c)
    BY <2>3, AnswerCall DEF HonestInv, StepOf, Onward
  <2>6. ReadTruth(c)' /\ AbsenceTrue(c)'
    BY <2>2, <2>3, <2>5, AnswerKeepsTruth DEF HonestInv, StepOf
  <2>7. QED
    BY <2>4, <2>5, <2>6 DEF HonestInv
<1>3. QED
  BY <1>1, <1>2

LEMMA publishCommentTruth ==
  ASSUME HonestInv, NEW c \in Callers, ReadTruth(c), publishComment(c)
  PROVE  ReadTruth(c)' /\ AbsenceTrue(c)' /\ StepOf(c)
<1>1. \E out \in Failures \cup {"posted"} : Answer(c, out)
  <2>1. \A answer \in Answers : Classify(answer, "write") \in Failures
    BY ClassifyType
  <2>2. "oauth" \in Answers /\ "rejected" \in Answers
    BY DEF Answers
  <2>3. QED
    BY <2>1, <2>2 DEF publishComment, Refused, Fail
<1>2. PICK out \in Failures \cup {"posted"} : Answer(c, out)
  BY <1>1
<1>3. out \notin {"absent", "complete"}
  BY DEF Failures
<1>4. call[c].write \in Nat /\ call[c].under \in Anchors
  <2>1. call[c] \in Calls /\ Publishing(c)
    BY DEF publishComment, Publishing, Working, HonestInv, Types
  <2>2. call[c].write \in DOMAIN outcome /\ call[c].under = outcome[call[c].write].under
    BY <2>1 DEF HonestInv, HonestTruth, PublishTruth
  <2>3. outcome[call[c].write] \in Writes
    BY <2>2, ElementOfSeq DEF HonestInv, Types
  <2>4. QED
    BY <2>1, <2>2, <2>3 DEF Calls, Writes
<1>5. Onward
  BY <1>4, ApplyIsOnward DEF publishComment, HonestInv, Onward
<1>6. StepOf(c)
  BY <1>2, <1>5, AnswerCall DEF HonestInv, StepOf
<1>7. QED
  BY <1>2, <1>3, <1>5, <1>6, AnswerKeepsTruth DEF HonestInv

LEMMA ProceedKeepsTruth ==
  ASSUME HonestInv, NEW c \in Callers, ReadTruth(c), AbsenceTrue(c), Proceed(c)
  PROVE  HonestInv' /\ ReadTruth(c)' /\ AbsenceTrue(c)' /\ StepOf(c)
<1>1. CASE sessionFor(c) \/ Login(c) \/ prepareReply(c)
  <2>1. Types'
    BY <1>1, sessionForType, LoginType, prepareReplyType DEF HonestInv
  <2>2. QED
    BY <1>1, <2>1, EarlyStep, WaitKeepsTruth DEF HonestInv
<1>2. CASE \E op \in {"find", "list", "fetch"} : ReadFails(c, op)
  <2>1. PICK op \in {"find", "list", "fetch"} : ReadFails(c, op)
    BY <1>2
  <2>2. Types' /\ \E out \in Failures : AnswersOnly(c, out)
    BY <2>1, ReadFailsType, ReadFailsStep DEF HonestInv
  <2>3. QED
    BY <2>2, WaitKeepsTruth
<1>3. CASE publishComment(c)
  BY <1>3, publishCommentKeepsHonest, publishCommentTruth
<1>4. (SearchThread(c) \/ findCommentOnEdge(c) \/ listComments(c) \/ fetchComment(c) \/ Return(c))
      => Onward
  BY DEF SearchThread, findCommentOnEdge, listComments, fetchComment, Return, Gets, ReadOnly, Onward
<1>5. CASE SearchThread(c) \/ fetchComment(c)
  BY <1>4, <1>5, SearchThreadTruth, fetchCommentTruth DEF StepOf
<1>6. CASE findCommentOnEdge(c)
  BY <1>4, <1>6, findCommentOnEdgeTruth DEF StepOf
<1>7. CASE listComments(c)
  BY <1>4, <1>7, listCommentsTruth DEF StepOf
<1>8. CASE Return(c)
  BY <1>4, <1>8, ReturnTruth DEF StepOf
<1>9. QED
  BY <1>1, <1>2, <1>3, <1>5, <1>6, <1>7, <1>8 DEF Proceed

StartOf(c) ==
  \/ \E anchor \in Anchors : StartPublish(c, anchor)
  \/ \E w \in DOMAIN outcome : StartFind(c, w)
  \/ StartList(c) \/ \E i \in DOMAIN thread : StartFetch(c, i)

LEMMA StartKeepsTruth ==
  ASSUME HonestInv, NEW c \in Callers, StartOf(c)
  PROVE  HonestInv' /\ ReadTruth(c)' /\ AbsenceTrue(c)' /\ StepOf(c)
<1>1. Onward
  BY DEF StartOf, StartPublish, StartFind, StartList, StartFetch, Begin, Onward
<1>2. \A d \in Callers \ {c} : call'[d] = call[d]
  BY DEF StartOf, StartPublish, StartFind, StartList, StartFetch, Begin, HonestInv, Types
<1>3. CASE \E anchor \in Anchors : StartPublish(c, anchor)
  BY <1>1, <1>2, <1>3, StartPublishKeepsHonest, StartPublishTruth DEF HonestInv, StepOf
<1>4. CASE \E w \in DOMAIN outcome : StartFind(c, w)
  BY <1>1, <1>2, <1>4, StartFindTruth DEF HonestInv, StepOf
<1>5. CASE StartList(c)
  BY <1>1, <1>2, <1>5, StartListTruth DEF HonestInv, StepOf
<1>6. CASE \E i \in DOMAIN thread : StartFetch(c, i)
  BY <1>1, <1>2, <1>6, StartFetchTruth DEF HonestInv, StepOf
<1>7. QED
  BY <1>3, <1>4, <1>5, <1>6 DEF StartOf

-------------------------------------------------------------------------------
(* The invariant and what it says. *)

LEMMA AbsenceInit ==
  ASSUME Init
  PROVE  AbsenceInv
<1>1. Idle \in Calls /\ Idle.op = "none" /\ Idle.under = Post /\ Idle.owed = {}
      /\ Idle.out = "nothing"
  BY DEF Calls, Idle, Post, NoCursor, Outs
<1> DEFINE first == [under |-> Post, by |-> 0, live |-> TRUE]
<1>2. first \in Comments /\ first.under = Post /\ first.by = 0
  BY DEF Comments, Anchors, Post
<1>3. thread = <<first>> /\ outcome = << >> /\ pending = {} /\ call = [c \in Callers |-> Idle]
  BY DEF Init
<1> HIDE DEF first
<1>4. thread \in Seq(Comments) /\ DOMAIN thread = {1} /\ thread[1] = first
  BY <1>2, <1>3
<1>5. outcome \in Seq(Writes) /\ DOMAIN outcome = {}
  BY <1>3
<1>6. Types
  <2>1. session \in Sessions
    <3>1. NoSession \in Sessions
      BY DEF NoSession, Sessions
    <3>2. [cred |-> 1, alive |-> TRUE, has |-> TRUE] \in Sessions
      BY DEF Sessions
    <3>3. session = NoSession \/ session = [cred |-> 1, alive |-> TRUE, has |-> TRUE]
      BY DEF Init
    <3>4. QED
      BY <3>1, <3>2, <3>3, Zenon
  <2>2. call \in [Callers -> Calls] /\ pending \subseteq [write : Nat, under : Anchors]
    BY <1>1, <1>3
  <2>3. platform \in Platforms /\ accepted \in Nat /\ stored \in Nat /\ faults \in Nat
    BY DEF Init
  <2>4. QED
    BY <1>4, <1>5, <2>1, <2>2, <2>3 DEF Types
<1>7. ThreadShape
  BY <1>2, <1>3, <1>4, <1>5 DEF ThreadShape, Exists, Live
<1>8. OutcomeHonest
  BY <1>5 DEF OutcomeHonest
<1>9. \A c \in Callers : call[c] = Idle
  BY <1>3
<1>10. WritesApart /\ \A c \in Callers : PublishTruth(c)
  BY <1>1, <1>9 DEF WritesApart, PublishTruth, Publishing
<1>11. \A c \in Callers : ReadTruth(c) /\ AbsenceTrue(c)
  BY <1>1, <1>9 DEF ReadTruth, FindTruth, ListTruth, FetchTruth, AbsenceTrue
<1>12. QED
  BY <1>6, <1>7, <1>8, <1>10, <1>11 DEF AbsenceInv, HonestInv, HonestTruth

LEMMA AbsenceNext ==
  ASSUME AbsenceInv, [Next]_vars
  PROVE  AbsenceInv'
<1>1. CASE OutsideStep
  <2>1. HonestInv' /\ Onward /\ \A d \in Callers : Unmoved(d)
    BY <1>1, OutsideKeepsHonest DEF AbsenceInv
  <2>2. QED
    BY <2>1, UnmovedKeepsTruth DEF AbsenceInv
<1>2. CASE \E c \in Callers : StartOf(c) \/ Proceed(c)
  <2>1. PICK c \in Callers : StartOf(c) \/ Proceed(c)
    BY <1>2
  <2>2. HonestInv' /\ ReadTruth(c)' /\ AbsenceTrue(c)' /\ StepOf(c)
    BY <2>1, StartKeepsTruth, ProceedKeepsTruth DEF AbsenceInv
  <2>3. ASSUME NEW d \in Callers \ {c} PROVE ReadTruth(d)' /\ AbsenceTrue(d)'
    <3>1. Onward /\ Unmoved(d)
      BY <2>2 DEF StepOf, Unmoved
    <3>2. QED
      BY <3>1, UnmovedKeepsTruth DEF AbsenceInv
  <2>4. QED
    BY <2>2, <2>3 DEF AbsenceInv
<1>3. CASE UNCHANGED vars
  <2>1. HonestInv' /\ Onward
    BY <1>3 DEF vars, AbsenceInv, HonestInv, Types, HonestTruth, ThreadShape, WritesApart,
                OutcomeHonest, PublishTruth, Publishing, Unsent, Live, Exists, Onward
  <2>2. \A d \in Callers : Unmoved(d)
    BY <1>3 DEF vars, Unmoved
  <2>3. QED
    BY <2>1, <2>2, UnmovedKeepsTruth DEF AbsenceInv
<1>4. Next => OutsideStep \/ \E c \in Callers : StartOf(c) \/ Proceed(c)
  BY DEF Next, OutsideStep, StartOf, Callers, Anchors
<1>5. QED
  BY <1>1, <1>2, <1>3, <1>4

LEMMA AbsenceInvHolds == Spec => []AbsenceInv
  BY AbsenceInit, AbsenceNext, PTL DEF Spec

\* Whatever publishComment reports as not carried out was not and will not be, and what it
\* reports as posted is there: for any number of concurrent calls, lost answers, late
\* arrivals and deletions.
THEOREM OutcomeHonestHolds == Spec => []OutcomeHonest
<1>1. AbsenceInv => OutcomeHonest
  BY DEF AbsenceInv, HonestInv, HonestTruth
<1>2. QED
  BY <1>1, AbsenceInvHolds, PTL

\* No search, walk or lookup says of a comment that was there when the call began, and
\* still is, that it is not there, but where the anchor is gone or blocked or the comment
\* itself is blocked: whatever the size of a page, the pages it lost and what was added or
\* deleted between two of them.
THEOREM AbsenceIsTrueHolds == Spec => []AbsenceIsTrue
<1>1. AbsenceInv => AbsenceIsTrue
  BY DEF AbsenceInv, AbsenceTrue, OutOfSight, AbsenceIsTrue
<1>2. QED
  BY <1>1, AbsenceInvHolds, PTL
===============================================================================
