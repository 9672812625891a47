------------------------------ MODULE MCSyncJobs ------------------------------
(* Instances of SyncJobs for TLC, and the rate limit the workers share. *)
EXTENDS SyncJobs, RateLimit, TLC

CONSTANTS t1, t2, j1, j2, j3, w1, w2, r1, r2, LastCall

JobAndWorkerSymmetry == Permutations(Jobs) \cup Permutations(Workers)

-------------------------------------------------------------------------------
(* An account's bucket over every sequence of calls in order of time, up to  *)
(* LastCall of them: calls[i] is the time of the i-th.                       *)

CallSequences ==
  {calls \in [1 .. LastCall -> 0 .. LastCall * TokenCost] :
     \A i \in 2 .. LastCall : calls[i - 1] <= calls[i]}

\* The script, call after call.
Answers(calls) ==
  LET answer[i \in 1 .. LastCall] ==
        TryAcquire(IF i = 1 THEN FreshBucket(calls[1]) ELSE answer[i - 1].bucket, calls[i])
  IN  answer

\* Without a bucket: a start is granted when every window that ends with it stays within the
\* burst and the rate.
Granted(calls) ==
  LET grant[i \in 1 .. LastCall] ==
        \A k \in 1 .. i :
          LET starts == {j \in k .. i - 1 : grant[j]}
          IN  (Cardinality(starts) + 1 - BucketCapacity) * TokenCost <= calls[i] - calls[k]
  IN  grant

\* The bucket grants exactly the starts that every window allows.
ASSUME BucketIsTheRate ==
  \A calls \in CallSequences :
    \A i \in 1 .. LastCall : Answers(calls)[i].allowed <=> Granted(calls)[i]

\* A reading that is old, unknown or below the threshold costs nothing, one at the threshold
\* holds the account back and leaves its bucket alone.
ASSUME ThrottleComesFirst ==
  \A known \in BOOLEAN, percent \in {ThrottlePercent - 1, ThrottlePercent},
     at \in 0 .. UsageLifetime + 1 :
    LET reading == [known |-> known, percent |-> percent, at |-> at - UsageLifetime - 1]
        empty   == [credit |-> 0, ts |-> 0]
        start   == StartWork(reading, empty, 0)
    IN  IF known /\ percent = ThrottlePercent /\ at > 0
        THEN start.retryAfter = ThrottleDelay /\ start.bucket = empty
        ELSE start = TryAcquire(empty, 0)
===============================================================================
