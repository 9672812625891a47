------------------------------ MODULE RateLimit -------------------------------
(***************************************************************************)
(* What the publish worker and the sync worker ask before they start work  *)
(* for an account: Meta's last usage reading, then the account's token     *)
(* bucket, one Lua script over a Redis hash.                               *)
(*                                                                         *)
(* A token is counted by the milliseconds it takes to refill, so that a    *)
(* bucket is a whole number: after a refill by n ms it holds n more, and a *)
(* call takes TokenCost of it.  `now` is the calling worker's clock.       *)
(***************************************************************************)
EXTENDS Integers

CONSTANTS
  BucketCapacity,   \* BUCKET_CAPACITY, in tokens
  TokenCost,        \* 1000 / BUCKET_REFILL_PER_SECOND
  BucketLifetime,   \* BUCKET_TTL_SECONDS, in ms
  UsageLifetime,    \* USAGE_TTL_SECONDS, in ms
  ThrottlePercent,  \* META_USAGE_THROTTLE_PERCENT
  ThrottleDelay     \* META_USAGE_THROTTLE_DELAY_MS

\* positiveInt() in the configuration, and a bucket that outlives its refill.
ASSUME RateAssumption ==
  /\ BucketCapacity \in Nat \ {0} /\ TokenCost \in Nat \ {0}
  /\ BucketLifetime \in Nat /\ BucketLifetime >= BucketCapacity * TokenCost
  /\ UsageLifetime \in Nat
  /\ ThrottlePercent \in Nat \ {0} /\ ThrottleDelay \in Nat \ {0}

FullBucket == BucketCapacity * TokenCost

Buckets == [credit : 0 .. FullBucket, ts : Int]

\* A key that is missing or has expired reads as nil: a full bucket, stamped now.
FreshBucket(now) == [credit |-> FullBucket, ts |-> now]

\* The hash as the script reads it; EXPIRE counts from the last call.
BucketAt(bucket, now) ==
  IF now - bucket.ts > BucketLifetime THEN FreshBucket(now) ELSE bucket

\* A clock behind the stamp refills nothing.
Refilled(bucket, now) ==
  LET elapsed == IF now < bucket.ts THEN 0 ELSE now - bucket.ts
  IN  IF bucket.credit + elapsed > FullBucket THEN FullBucket ELSE bucket.credit + elapsed

\* TOKEN_BUCKET_SCRIPT: refill, take one token or say how long until there is one, and stamp
\* the bucket with this caller's clock either way.
TryAcquire(bucket, now) ==
  LET credit == Refilled(BucketAt(bucket, now), now)
  IN  IF credit >= TokenCost
      THEN [allowed |-> TRUE, retryAfter |-> 0,
            bucket |-> [credit |-> credit - TokenCost, ts |-> now]]
      ELSE [allowed |-> FALSE, retryAfter |-> TokenCost - credit,
            bucket |-> [credit |-> credit, ts |-> now]]

\* readGraphUsage: a reading [percent, at] counts while its key lives, a percent that is no
\* number not at all; known is FALSE of both and when Redis does not answer.
KnownUsage(reading, now) == reading.known /\ now - reading.at <= UsageLifetime

UsageDelay(reading, now) ==
  IF KnownUsage(reading, now) /\ reading.percent >= ThrottlePercent THEN ThrottleDelay ELSE 0

\* The head of both workers: a busy account is held back without a call to the bucket.
StartWork(reading, bucket, now) ==
  LET delay == UsageDelay(reading, now)
  IN  IF delay > 0
      THEN [allowed |-> FALSE, retryAfter |-> delay, bucket |-> bucket]
      ELSE TryAcquire(bucket, now)
===============================================================================
