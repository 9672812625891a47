--------------------------- MODULE RateLimit_proofs ---------------------------
(* What the workers' token bucket promises, for every capacity and refill rate. *)
EXTENDS RateLimit, WellFoundedInduction, TLAPS

LEMMA FullIsNat == FullBucket \in Nat /\ FullBucket >= TokenCost
<1>1. \A c \in Nat \ {0}, t \in Nat \ {0} : c * t \in Nat /\ c * t >= t
  <2>1. SUFFICES ASSUME NEW c \in Nat \ {0}, NEW t \in Nat \ {0}
                 PROVE  c * t \in Nat /\ c * t >= t
    OBVIOUS
  <2>2. c * t = t + (c - 1) * t /\ (c - 1) * t \in Nat
    <3>1. c - 1 \in Nat /\ t \in Nat
      BY <2>1
    <3>2. \A m, n \in Nat : m * n \in Nat
      BY SMT
    <3>3. QED
      BY <2>1, <3>1, <3>2, SMT
  <2>3. QED
    BY <2>1, <2>2
<1>2. QED
  BY <1>1, RateAssumption DEF FullBucket

\* What a call does to the credit: whichever way the key was read, the bucket is refilled by
\* the time since its stamp, up to its capacity.
LEMMA CreditOfCall ==
  ASSUME NEW bucket \in Buckets, NEW now \in Int
  PROVE  Refilled(BucketAt(bucket, now), now) =
           LET elapsed == IF now < bucket.ts THEN 0 ELSE now - bucket.ts
           IN  IF bucket.credit + elapsed > FullBucket THEN FullBucket
                                                       ELSE bucket.credit + elapsed
<1>1. FullBucket \in Nat /\ BucketLifetime \in Nat /\ BucketLifetime >= FullBucket
  BY FullIsNat, RateAssumption DEF FullBucket
<1>2. bucket.credit \in 0 .. FullBucket /\ bucket.ts \in Int
  BY DEF Buckets
<1>3. CASE now - bucket.ts > BucketLifetime
  <2>1. BucketAt(bucket, now) = FreshBucket(now)
    BY <1>3 DEF BucketAt
  <2>2. Refilled(FreshBucket(now), now) = FullBucket
    BY <1>1 DEF Refilled, FreshBucket
  <2>3. now >= bucket.ts /\ bucket.credit + (now - bucket.ts) > FullBucket
    BY <1>1, <1>2, <1>3
  <2>4. QED
    BY <1>1, <1>2, <2>1, <2>2, <2>3
<1>4. CASE ~(now - bucket.ts > BucketLifetime)
  BY <1>4 DEF BucketAt, Refilled
<1>5. QED
  BY <1>3, <1>4

\* A bucket stays a bucket: the script never leaves more than the capacity or less than nothing,
\* whatever the caller's clock says.
THEOREM BucketKeepsItsBounds ==
  ASSUME NEW bucket \in Buckets, NEW now \in Int
  PROVE  TryAcquire(bucket, now).bucket \in Buckets
<1>1. FullBucket \in Nat /\ TokenCost \in Nat \ {0}
  BY FullIsNat, RateAssumption
<1>2. bucket.credit \in 0 .. FullBucket /\ bucket.ts \in Int
  BY DEF Buckets
<1>3. Refilled(BucketAt(bucket, now), now) \in 0 .. FullBucket
  BY <1>1, <1>2, CreditOfCall
<1>4. QED
  BY <1>1, <1>3 DEF TryAcquire, Buckets

\* The rate limit itself, as the step of a window: if the starts granted since a moment `from`
\* are paid for by one full bucket and the time since then, they are after the next call too,
\* as long as that caller's clock is not behind the bucket's stamp. An account's workers hence
\* start at most BucketCapacity + elapsed / TokenCost calls in any window.
THEOREM GrantsArePaidFor ==
  ASSUME NEW bucket \in Buckets, NEW now \in Int, now >= bucket.ts,
         NEW from \in Int, NEW granted \in Nat,
         granted * TokenCost + bucket.credit <= FullBucket + (bucket.ts - from),
         NEW call, call = TryAcquire(bucket, now),
         NEW after \in Nat, after = IF call.allowed THEN granted + 1 ELSE granted
  PROVE  after * TokenCost + call.bucket.credit <= FullBucket + (call.bucket.ts - from)
<1> DEFINE credit == Refilled(BucketAt(bucket, now), now)
<1>1. FullBucket \in Nat /\ TokenCost \in Nat
  BY FullIsNat, RateAssumption
<1>2. bucket.credit \in 0 .. FullBucket /\ bucket.ts \in Int
  BY DEF Buckets
<1>3. credit <= bucket.credit + (now - bucket.ts) /\ credit \in 0 .. FullBucket
  BY <1>1, <1>2, CreditOfCall
<1>4. /\ call.bucket.ts = now
      /\ call.allowed => call.bucket.credit = credit - TokenCost
      /\ ~call.allowed => call.bucket.credit = credit
  BY DEF TryAcquire
<1>5. PICK spent \in Nat : spent = granted * TokenCost
  <2>1. \A m, n \in Nat : m * n \in Nat
    BY SMT
  <2>2. QED
    BY <1>1, <2>1
<1>6. spent + credit <= FullBucket + (now - from)
  <2> HIDE DEF credit
  <2>1. QED
    BY <1>1, <1>2, <1>3, <1>5
<1>7. (granted + 1) * TokenCost = spent + TokenCost
  BY <1>1, <1>5, SMT
<1>8. CASE call.allowed
  <2> HIDE DEF credit
  <2>1. after * TokenCost = spent + TokenCost /\ call.bucket.credit = credit - TokenCost
    BY <1>4, <1>7, <1>8
  <2>2. QED
    BY <1>1, <1>3, <1>4, <1>5, <1>6, <2>1
<1>9. CASE ~call.allowed
  <2> HIDE DEF credit
  <2>1. after * TokenCost = spent /\ call.bucket.credit = credit
    BY <1>4, <1>5, <1>9
  <2>2. QED
    BY <1>1, <1>3, <1>4, <1>5, <1>6, <2>1
<1>10. QED
  BY <1>8, <1>9

-------------------------------------------------------------------------------
(* Any number of calls. *)

LEMMA LeastNumber ==
  ASSUME NEW T, T \subseteq Nat, T # {}
  PROVE  \E x \in T : \A y \in T : ~(y < x)
<1>1. \E x \in T : \A y \in T : ~(<<y, x>> \in OpToRel(<, Nat))
  BY NatLessThanWellFounded, WFMin, Zenon
<1>2. QED
  BY <1>1 DEF OpToRel

\* What holds of m and of each number after one it holds of, holds up to any number.
LEMMA Climb ==
  ASSUME NEW m \in Nat, NEW n \in Nat, NEW P, m \in P,
         \A i \in (m + 1) .. n : i - 1 \in P => i \in P
  PROVE  \A i \in m .. n : i \in P
<1> SUFFICES ASSUME {i \in m .. n : i \notin P} # {} PROVE FALSE
  OBVIOUS
<1>1. PICK k \in {i \in m .. n : i \notin P} : \A j \in {i \in m .. n : i \notin P} : ~(j < k)
  <2>1. {i \in m .. n : i \notin P} \subseteq Nat
    OBVIOUS
  <2>2. QED
    BY <2>1, LeastNumber
<1>2. k \in (m + 1) .. n /\ k - 1 \in m .. n /\ k - 1 < k
  BY <1>1
<1>3. QED
  BY <1>1, <1>2

\* n calls of the script on one key, call i at the clock `now[i]`: the bucket each leaves,
\* and how many of them have been allowed.
Calls(n, now, bucket, granted) ==
  /\ bucket[0] \in Buckets /\ granted[0] = 0
  /\ \A i \in 1 .. n :
       LET call == TryAcquire(bucket[i - 1], now[i])
       IN  /\ now[i] \in Int /\ bucket[i] = call.bucket
           /\ granted[i] = IF call.allowed THEN granted[i - 1] + 1 ELSE granted[i - 1]

LEMMA CallsAreTyped ==
  ASSUME NEW n \in Nat, NEW now, NEW bucket, NEW granted, Calls(n, now, bucket, granted)
  PROVE  \A i \in 0 .. n : bucket[i] \in Buckets /\ granted[i] \in Nat
<1> DEFINE P == {i \in 0 .. n : bucket[i] \in Buckets /\ granted[i] \in Nat}
<1>1. 0 \in P
  BY DEF Calls
<1>2. ASSUME NEW i \in 1 .. n, i - 1 \in P PROVE i \in P
  <2>1. /\ now[i] \in Int /\ bucket[i] = TryAcquire(bucket[i - 1], now[i]).bucket
        /\ granted[i] \in {granted[i - 1], granted[i - 1] + 1}
    BY DEF Calls
  <2>2. bucket[i] \in Buckets
    BY <1>2, <2>1, BucketKeepsItsBounds
  <2>3. QED
    BY <1>2, <2>1, <2>2
<1>3. \A i \in 0 .. n : i \in P
  <2> HIDE DEF P
  <2>1. \A i \in (0 + 1) .. n : i - 1 \in P => i \in P
    BY <1>2
  <2>2. QED
    BY <1>1, <2>1, Climb
<1>4. QED
  BY <1>3

\* The rate that TOKEN_BUCKET_SCRIPT promises, of any number of calls by any workers: between
\* two of them, however far apart, an account's workers start no more work than one full
\* bucket and the time between pay for, as long as no clock is behind the bucket's stamp.
THEOREM RateHolds ==
  ASSUME NEW n \in Nat, NEW now, NEW bucket, NEW granted, Calls(n, now, bucket, granted),
         \A i \in 1 .. n : now[i] >= bucket[i - 1].ts,
         NEW first \in 0 .. n, NEW last \in first .. n
  PROVE  (granted[last] - granted[first]) * TokenCost
           <= FullBucket + (bucket[last].ts - bucket[first].ts)
<1>1. FullBucket \in Nat /\ TokenCost \in Nat
  BY FullIsNat, RateAssumption
<1>2. \A i \in 0 .. n : bucket[i] \in Buckets /\ granted[i] \in Nat
  BY CallsAreTyped
<1>3. \A i \in 0 .. n : bucket[i].credit \in 0 .. FullBucket /\ bucket[i].ts \in Int
  BY <1>2 DEF Buckets
<1> DEFINE from  == bucket[first].ts
           G(i)  == granted[i] - granted[first]
           Paid(i) == G(i) \in Nat /\ G(i) * TokenCost + bucket[i].credit
                                       <= FullBucket + (bucket[i].ts - from)
           P     == {i \in first .. n : Paid(i)}
<1>4. first \in P
  <2>1. G(first) = 0 /\ 0 * TokenCost = 0
    BY <1>1, <1>2
  <2>2. bucket[first].credit <= FullBucket + (bucket[first].ts - from)
    BY <1>1, <1>3
  <2>3. 0 + bucket[first].credit = bucket[first].credit
    BY <1>3
  <2>4. Paid(first)
    BY <2>1, <2>2, <2>3
  <2>5. QED
    BY <2>4
<1>5. ASSUME NEW i \in (first + 1) .. n, i - 1 \in P PROVE i \in P
  <2> DEFINE call == TryAcquire(bucket[i - 1], now[i])
  <2>1. i \in 1 .. n /\ i - 1 \in 0 .. n /\ i \in first .. n
    OBVIOUS
  <2>2. /\ now[i] \in Int /\ bucket[i] = call.bucket /\ now[i] >= bucket[i - 1].ts
        /\ granted[i] = IF call.allowed THEN granted[i - 1] + 1 ELSE granted[i - 1]
    BY <2>1 DEF Calls
  <2>3. Paid(i - 1)
    BY <1>5
  <2>4. G(i) = IF call.allowed THEN G(i - 1) + 1 ELSE G(i - 1)
    <3> HIDE DEF call
    <3>1. granted[i - 1] \in Int /\ granted[first] \in Int
      BY <1>2, <2>1
    <3>2. QED
      BY <2>2, <3>1
  <2>5. G(i) \in Nat
    <3> HIDE DEF call, G
    <3>1. QED
      BY <2>3, <2>4
  <2>6. from \in Int /\ bucket[i - 1] \in Buckets
    BY <1>2, <1>3, <2>1
  <2>7. G(i) * TokenCost + bucket[i].credit <= FullBucket + (bucket[i].ts - from)
    <3> HIDE DEF G, from, call
    <3>1. PICK c : c = call
      OBVIOUS
    <3>2. G(i) * TokenCost + c.bucket.credit <= FullBucket + (c.bucket.ts - from)
      BY <2>2, <2>3, <2>4, <2>5, <2>6, <3>1, GrantsArePaidFor DEF call
    <3>3. QED
      BY <2>2, <3>1, <3>2
  <2>8. QED
    BY <2>1, <2>5, <2>7
<1>6. last \in P
  <2> HIDE DEF P
  <2>1. first \in Nat
    OBVIOUS
  <2>2. \A i \in first .. n : i \in P
    BY <1>4, <1>5, <2>1, Climb
  <2>3. QED
    BY <2>2
<1>7. QED
  <2>1. G(last) * TokenCost + bucket[last].credit <= FullBucket + (bucket[last].ts - from)
    BY <1>6
  <2>2. G(last) * TokenCost \in Int
    <3>1. \A a, b \in Int : a * b \in Int
      BY SMT
    <3>2. G(last) \in Int
      BY <1>6
    <3>3. QED
      BY <1>1, <3>1, <3>2
  <2>3. bucket[last].credit \in Nat /\ bucket[last].ts \in Int /\ from \in Int
    BY <1>1, <1>3
  <2>4. G(last) * TokenCost <= FullBucket + (bucket[last].ts - from)
    <3> HIDE DEF G, from
    <3>1. QED
      BY <1>1, <2>1, <2>2, <2>3
  <2>5. QED
    BY <2>4

-------------------------------------------------------------------------------
\* A job that was refused and comes back after the delay it was given finds a token, and one
\* that comes back any earlier does not: retryAfter is exact while nobody else takes a token.
THEOREM RetryAfterIsExact ==
  ASSUME NEW bucket \in Buckets, NEW now \in Int, NEW later \in Int,
         NEW call, call = TryAcquire(bucket, now), ~call.allowed, later >= now
  PROVE  TryAcquire(call.bucket, later).allowed <=> later >= now + call.retryAfter
<1>1. FullBucket \in Nat /\ TokenCost \in Nat \ {0} /\ FullBucket >= TokenCost
  BY FullIsNat, RateAssumption
<1>2. PICK credit \in 0 .. FullBucket : credit = Refilled(BucketAt(bucket, now), now)
  <2>1. bucket.credit \in 0 .. FullBucket /\ bucket.ts \in Int
    BY DEF Buckets
  <2>2. QED
    BY <1>1, <2>1, CreditOfCall
<1>3. /\ credit < TokenCost
      /\ call.retryAfter = TokenCost - credit
      /\ call.bucket = [credit |-> credit, ts |-> now]
  BY <1>1, <1>2 DEF TryAcquire
<1>4. call.bucket \in Buckets /\ call.bucket.credit = credit /\ call.bucket.ts = now
  BY <1>2, <1>3 DEF Buckets
<1>5. PICK refill \in 0 .. FullBucket : refill = Refilled(BucketAt(call.bucket, later), later)
  BY <1>1, <1>2, <1>4, CreditOfCall
<1>6. refill >= TokenCost <=> credit + (later - now) >= TokenCost
  BY <1>1, <1>2, <1>4, <1>5, CreditOfCall
<1>7. TryAcquire(call.bucket, later).allowed <=> refill >= TokenCost
  BY <1>5 DEF TryAcquire
<1>8. QED
  BY <1>1, <1>2, <1>3, <1>6, <1>7
===============================================================================
