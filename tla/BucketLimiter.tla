--------------------------- MODULE BucketLimiter ---------------------------
(***************************************************************************)
(* The limiter of one process (src/internal/platform/ratelimit/memory.go): *)
(* a bucket of tokens per key, refilled by the clock, and forgotten when   *)
(* nobody has touched it for a while.  Allow holds the mutex throughout,   *)
(* so it is one step.  Tokens and the refill of a tick are whole numbers.  *)
(***************************************************************************)
EXTENDS Clock, FiniteSets

CONSTANTS
  Visitors,      \* the keys limited
  Burst,         \* tokens of a full bucket
  Refill,        \* tokens a tick brings
  Idle,          \* ticks a bucket is kept untouched
  WorthWalking   \* how many buckets there are before any is forgotten

\* main.go's general limit, 120 at once and 240 a minute, fills a bucket in
\* half a minute; a bucket is kept ten.
ASSUME BucketAssumption ==
  /\ Burst \in Nat \ {0} /\ Refill \in Nat \ {0}
  /\ Idle \in Nat /\ WorthWalking \in Nat
  /\ Burst <= Refill * Idle

VARIABLES
  buckets,   \* the buckets remembered: their tokens, and when they were touched
  ideal      \* the tokens each key would have in a bucket never forgotten

bucketVars == <<buckets, ideal>>

Least(a, b) == IF a <= b THEN a ELSE b

BucketInit ==
  /\ buckets = << >>
  /\ ideal = [k \in Visitors |-> Burst]

\* Every bucket, once there are enough of them.
ForgetIdle_All == IF Cardinality(DOMAIN buckets) < WorthWalking THEN {} ELSE DOMAIN buckets

\* Buckets a call forgets before it looks for its own.
ForgetIdle ==
  IF Cardinality(DOMAIN buckets) < WorthWalking THEN {}
  ELSE {k \in DOMAIN buckets : now - buckets[k].seen > Idle}

\* What a bucket holds once it is refilled; a key nobody has seen starts full.
Refilled(known, k) ==
  IF k \in known THEN Least(Burst, buckets[k].tokens + (now - buckets[k].seen) * Refill) ELSE Burst

Allow(k) ==
  LET known == DOMAIN buckets \ ForgetIdle
      left  == Refilled(known, k)
      spent == IF left < 1 THEN 0 ELSE 1
  IN /\ buckets' = [x \in known \union {k} |->
                      IF x = k THEN [tokens |-> left - spent, seen |-> now] ELSE buckets[x]]
     /\ ideal' = [ideal EXCEPT ![k] = @ - spent]
     /\ UNCHANGED now

\* A tick passes; a bucket never forgotten would be refilled by it.
BucketTick ==
  /\ Passes
  /\ ideal' = [k \in Visitors |-> Least(Burst, ideal[k] + Refill)]
  /\ UNCHANGED buckets

BucketNext == BucketTick \/ \E k \in Visitors : Allow(k)

BucketSpec == now = 0 /\ BucketInit /\ [][BucketNext]_<<now, bucketVars>>

\* Forgetting a bucket changes nothing: every key has, at every moment, the
\* tokens of a bucket that was never forgotten, so no key is ever allowed more
\* than Burst and Refill a tick (and none less).
Remembered == \A k \in Visitors : Refilled(DOMAIN buckets, k) = ideal[k]
=============================================================================
