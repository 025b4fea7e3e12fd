---------------------------- MODULE ClockProofs ----------------------------
(***************************************************************************)
(* What the parts that count by the clock promise, however many requests,  *)
(* keys, changes, runs and ticks there are: HostsFresh of HostMap,         *)
(* Remembered of BucketLimiter, OnlyLastAccepted and SendsBounded of       *)
(* EmailCodes, LimitsHold of WindowLimiter, and of JobLease its types,     *)
(* AloneWhileOnTime and LeaseProtects.                                     *)
(***************************************************************************)
EXTENDS HostMap, BucketLimiter, EmailCodes, WindowLimiter, JobLease, FiniteSetTheorems, TLAPS

-----------------------------------------------------------------------------
(* The map of hosts.  A map that was stored was true at some moment of the *)
(* load that read it, so it is out of date by no more than the load and    *)
(* the time it is trusted; a change made with no load under way leaves     *)
(* none that could store an older map.                                     *)
HostTyped ==
  /\ now \in Nat /\ changes \in Nat /\ loadedAt \in Nat /\ atOnce \in Nat
  /\ DOMAIN ended = 0 .. (changes - 1)
  /\ \A m \in DOMAIN ended : ended[m] \in Nat
  /\ held \in Nat \cup {NoMap}
  /\ request \in [Requests -> Resolving]

\* Map m was still true at moment t.
TrueAt(m, t) == m \in DOMAIN ended => ended[m] >= t

\* A load is younger than MaxLoad, and what it read was true since it began.
LoadsTrue ==
  \A r \in Requests :
    request[r].at # "idle" =>
      /\ request[r].since <= now /\ now - request[r].since <= MaxLoad
      /\ request[r].at = "read" =>
           /\ request[r].map <= changes /\ request[r].map >= atOnce
           /\ TrueAt(request[r].map, request[r].since)

\* The map held was true a load before it was stored.
HeldTrue ==
  held # NoMap =>
    held <= changes /\ held >= atOnce /\ loadedAt <= now /\ TrueAt(held, loadedAt - MaxLoad)

HostInv == HostTyped /\ LoadsTrue /\ HeldTrue /\ atOnce <= changes

allHost == <<now, hostVars>>

LEMMA HostInit == now = 0 /\ HostMapInit => HostInv
<1> SUFFICES ASSUME now = 0, HostMapInit PROVE HostInv
  OBVIOUS
<1>1. DOMAIN ended = {} /\ 0 .. (0 - 1) = {}
  BY DEF HostMapInit
<1>2. HostTyped
  BY <1>1 DEF HostTyped, HostMapInit, Resolving
<1> QED
  BY <1>2, HostMapAssumption DEF HostInv, LoadsTrue, HeldTrue, HostMapInit

\* What a step that leaves the hosts alone says of a moment, it said before.
LEMMA StillTrue ==
  ASSUME UNCHANGED ended, NEW m, NEW t, TrueAt(m, t) PROVE TrueAt(m, t)'
BY DEF TrueAt

LEMMA TickKeeps == ASSUME HostInv, HostTick PROVE HostInv'
<1> USE HostMapAssumption, ClockAssumption
<1>1. HostTyped'
  BY DEF HostInv, HostTyped, HostTick, Passes, hostVars
<1>2. LoadsTrue'
  <2> SUFFICES ASSUME NEW r \in Requests, request[r].at # "idle"
               PROVE  /\ request[r].since <= now' /\ now' - request[r].since <= MaxLoad
                      /\ request[r].at = "read" =>
                           /\ request[r].map <= changes /\ request[r].map >= atOnce
                           /\ TrueAt(request[r].map, request[r].since)
    BY DEF LoadsTrue, HostTick, hostVars, TrueAt
  <2>1. request[r].since \in Nat
    BY DEF HostInv, HostTyped, Resolving
  <2> QED
    BY <2>1 DEF HostInv, HostTyped, LoadsTrue, HostTick, Passes
<1>3. HeldTrue' /\ atOnce' <= changes'
  BY DEF HostInv, HostTyped, HeldTrue, HostTick, Passes, hostVars, TrueAt
<1> QED
  BY <1>1, <1>2, <1>3 DEF HostInv

LEMMA LoadKeeps == ASSUME HostInv, NEW r \in Requests, Load(r) PROVE HostInv'
<1> USE HostMapAssumption
<1>1. request' \in [Requests -> Resolving]
  BY DEF HostInv, HostTyped, Load, Resolving
<1>2. HostTyped'
  BY <1>1 DEF HostInv, HostTyped, Load
<1>3. LoadsTrue'
  <2> SUFFICES ASSUME NEW q \in Requests, request'[q].at # "idle"
               PROVE  /\ request'[q].since <= now /\ now - request'[q].since <= MaxLoad
                      /\ request'[q].at = "read" =>
                           /\ request'[q].map <= changes /\ request'[q].map >= atOnce
                           /\ TrueAt(request'[q].map, request'[q].since)
    BY DEF LoadsTrue, Load, TrueAt
  <2>1. CASE q = r
    BY <2>1 DEF HostInv, HostTyped, Load
  <2>2. CASE q # r
    BY <2>2 DEF HostInv, HostTyped, LoadsTrue, Load
  <2> QED
    BY <2>1, <2>2
<1>4. HeldTrue' /\ atOnce' <= changes'
  BY DEF HostInv, HeldTrue, Load, TrueAt
<1> QED
  BY <1>2, <1>3, <1>4 DEF HostInv

LEMMA ReadKeeps == ASSUME HostInv, NEW r \in Requests, Read(r) PROVE HostInv'
<1>1. request' = [request EXCEPT ![r] = [request[r] EXCEPT !.at = "read", !.map = changes]]
  BY DEF Read
<1>2. request[r] \in Resolving /\ changes \in Nat
  BY DEF HostInv, HostTyped
<1>3. [request[r] EXCEPT !.at = "read", !.map = changes] \in Resolving
  BY <1>2 DEF Resolving
<1>4. HostTyped'
  BY <1>1, <1>3 DEF HostInv, HostTyped, Read
<1>5. LoadsTrue'
  <2> SUFFICES ASSUME NEW q \in Requests, request'[q].at # "idle"
               PROVE  /\ request'[q].since <= now /\ now - request'[q].since <= MaxLoad
                      /\ request'[q].at = "read" =>
                           /\ request'[q].map <= changes /\ request'[q].map >= atOnce
                           /\ TrueAt(request'[q].map, request'[q].since)
    BY DEF LoadsTrue, Read, TrueAt
  <2>1. CASE q = r
    <3>1. changes \notin DOMAIN ended
      BY <1>2 DEF HostInv, HostTyped
    <3>2. /\ request'[r].since = request[r].since /\ request'[r].map = changes
          /\ request[r].at # "idle"
      BY <1>1, <1>2 DEF HostInv, HostTyped, Resolving, Read
    <3> QED
      BY <1>2, <2>1, <3>1, <3>2 DEF HostInv, HostTyped, LoadsTrue, TrueAt
  <2>2. CASE q # r
    BY <1>1, <2>2 DEF HostInv, HostTyped, LoadsTrue
  <2> QED
    BY <2>1, <2>2
<1>6. HeldTrue' /\ atOnce' <= changes'
  BY DEF HostInv, HeldTrue, Read, TrueAt
<1> QED
  BY <1>4, <1>5, <1>6 DEF HostInv

\* A load that ends, whether or not it stores what it read.
LEMMA EndKeepsLoads ==
  ASSUME HostInv, NEW r \in Requests, request' = [request EXCEPT ![r].at = "idle"],
         UNCHANGED <<now, changes, ended, atOnce>>
  PROVE  request' \in [Requests -> Resolving] /\ LoadsTrue'
<1>1. request' = [request EXCEPT ![r] = [request[r] EXCEPT !.at = "idle"]]
  OBVIOUS
<1>2. request[r] \in Resolving
  BY DEF HostInv, HostTyped
<1>3. [request[r] EXCEPT !.at = "idle"] \in Resolving
  BY <1>2 DEF Resolving
<1>4. request' \in [Requests -> Resolving]
  BY <1>1, <1>3 DEF HostInv, HostTyped
<1>5. ASSUME NEW q \in Requests, request'[q].at # "idle" PROVE q # r /\ request'[q] = request[q]
  BY <1>1, <1>2, <1>5 DEF HostInv, HostTyped, Resolving
<1>6. LoadsTrue'
  BY <1>5 DEF HostInv, LoadsTrue, TrueAt
<1> QED
  BY <1>4, <1>6

LEMMA StoredKeeps == ASSUME HostInv, NEW r \in Requests, Stored(r) PROVE HostInv'
<1>1. request' \in [Requests -> Resolving] /\ LoadsTrue'
  BY EndKeepsLoads DEF Stored
<1>2. request[r] \in Resolving /\ request[r].at = "read"
  BY DEF HostInv, HostTyped, Stored
<1>3. request[r].map \in Nat /\ request[r].since \in Nat
  BY <1>2 DEF Resolving
<1>4. HostTyped'
  BY <1>1, <1>3 DEF HostInv, HostTyped, Stored
<1>5. HeldTrue'
  <2>1. held' = request[r].map /\ loadedAt' = now /\ UNCHANGED <<now, changes, ended, atOnce>>
    BY DEF Stored
  <2>2. /\ request[r].since <= now /\ now - request[r].since <= MaxLoad
        /\ request[r].map <= changes /\ request[r].map >= atOnce
        /\ TrueAt(request[r].map, request[r].since)
    BY <1>2 DEF HostInv, LoadsTrue
  <2>3. now \in Nat /\ MaxLoad \in Nat /\ \A m \in DOMAIN ended : ended[m] \in Nat
    BY HostMapAssumption DEF HostInv, HostTyped
  <2>4. TrueAt(request[r].map, now - MaxLoad)
    BY <1>3, <2>2, <2>3 DEF TrueAt
  <2> QED
    BY <2>1, <2>2, <2>3, <2>4 DEF HeldTrue, TrueAt
<1> QED
  BY <1>1, <1>4, <1>5 DEF HostInv, Stored

LEMMA LoadFailsKeeps == ASSUME HostInv, NEW r \in Requests, LoadFails(r) PROVE HostInv'
<1>1. request' \in [Requests -> Resolving] /\ LoadsTrue'
  BY EndKeepsLoads DEF LoadFails
<1> QED
  BY <1>1 DEF HostInv, HostTyped, HeldTrue, LoadFails, TrueAt

-----------------------------------------------------------------------------
(* A change: the map that was true until now is out of date from now on.   *)

LEMMA ChangedEnds ==
  ASSUME HostInv, Changed
  PROVE  /\ changes' \in Nat /\ changes' = changes + 1
         /\ DOMAIN ended' = 0 .. (changes' - 1)
         /\ \A m \in DOMAIN ended' : ended'[m] \in Nat
         /\ \A m \in DOMAIN ended : m \in DOMAIN ended' /\ ended'[m] = ended[m]
         /\ \A m \in DOMAIN ended' : m \in DOMAIN ended \/ ended'[m] = now
<1>1. changes \in Nat /\ changes' = changes + 1 /\ now \in Nat
  BY DEF HostInv, HostTyped, Changed
<1>2. DOMAIN ended' = DOMAIN ended \cup {changes}
  BY DEF Changed
<1>3. DOMAIN ended' = 0 .. changes
  BY <1>1, <1>2 DEF HostInv, HostTyped
<1>4. changes \notin DOMAIN ended
  BY <1>1 DEF HostInv, HostTyped
<1>5. \A m \in DOMAIN ended' : ended'[m] = IF m = changes THEN now ELSE ended[m]
  BY DEF Changed
<1> QED
  BY <1>1, <1>2, <1>3, <1>4, <1>5 DEF HostInv, HostTyped

LEMMA ChangeKeepsTrue ==
  ASSUME HostInv, Changed, NEW m, NEW t \in Int, t <= now, TrueAt(m, t)
  PROVE  m \in DOMAIN ended' => ended'[m] >= t
BY ChangedEnds DEF TrueAt, HostInv, HostTyped

LEMMA ChangeElsewhereKeeps == ASSUME HostInv, ChangeElsewhere PROVE HostInv'
<1>1. Changed
  BY DEF ChangeElsewhere
<1>2. HostTyped' /\ atOnce' <= changes'
  BY <1>1, ChangedEnds DEF HostInv, HostTyped, ChangeElsewhere
<1>3. LoadsTrue'
  <2> SUFFICES ASSUME NEW r \in Requests, request[r].at # "idle"
               PROVE  /\ request[r].since <= now /\ now - request[r].since <= MaxLoad
                      /\ request[r].at = "read" =>
                           /\ request[r].map <= changes' /\ request[r].map >= atOnce
                           /\ request[r].map \in DOMAIN ended' => ended'[request[r].map] >= request[r].since
    BY DEF LoadsTrue, ChangeElsewhere, TrueAt
  <2>1. request[r].since \in Nat /\ request[r].map \in Nat
    BY DEF HostInv, HostTyped, Resolving
  <2> QED
    BY <1>1, <2>1, ChangedEnds, ChangeKeepsTrue DEF HostInv, HostTyped, LoadsTrue
<1>4. HeldTrue'
  <2> SUFFICES ASSUME held # NoMap
               PROVE  /\ held <= changes' /\ held >= atOnce /\ loadedAt <= now
                      /\ held \in DOMAIN ended' => ended'[held] >= loadedAt - MaxLoad
    BY DEF HeldTrue, ChangeElsewhere, TrueAt
  <2>1. loadedAt - MaxLoad \in Int /\ loadedAt - MaxLoad <= now /\ held \in Nat
    BY HostMapAssumption DEF HostInv, HostTyped, HeldTrue
  <2> QED
    BY <1>1, <2>1, ChangedEnds, ChangeKeepsTrue DEF HostInv, HostTyped, HeldTrue
<1> QED
  BY <1>2, <1>3, <1>4 DEF HostInv

LEMMA ChangeHereKeeps == ASSUME HostInv, ChangeHere PROVE HostInv'
<1>1. Changed
  BY DEF ChangeHere
<1>2. atOnce' \in Nat /\ atOnce' <= changes'
      /\ \A r \in Requests : request[r].at # "idle" => atOnce' = 0
  BY <1>1, ChangedEnds DEF ChangeHere
<1>3. HostTyped'
  BY <1>1, <1>2, ChangedEnds DEF HostInv, HostTyped, ChangeHere
<1>4. LoadsTrue'
  <2> SUFFICES ASSUME NEW r \in Requests, request[r].at # "idle"
               PROVE  /\ request[r].since <= now /\ now - request[r].since <= MaxLoad
                      /\ request[r].at = "read" =>
                           /\ request[r].map <= changes' /\ request[r].map >= atOnce'
                           /\ request[r].map \in DOMAIN ended' => ended'[request[r].map] >= request[r].since
    BY DEF LoadsTrue, ChangeHere, TrueAt
  <2>1. request[r].since \in Nat /\ request[r].map \in Nat
    BY DEF HostInv, HostTyped, Resolving
  <2> QED
    BY <1>1, <1>2, <2>1, ChangedEnds, ChangeKeepsTrue DEF HostInv, HostTyped, LoadsTrue
<1>5. HeldTrue'
  BY DEF HeldTrue, ChangeHere
<1> QED
  BY <1>2, <1>3, <1>4, <1>5 DEF HostInv

-----------------------------------------------------------------------------
LEMMA HostNextKeeps == HostInv /\ [HostMapNext]_allHost => HostInv'
<1> SUFFICES ASSUME HostInv, [HostMapNext]_allHost PROVE HostInv'
  OBVIOUS
<1>1. CASE HostMapNext
  BY <1>1, TickKeeps, LoadKeeps, ReadKeeps, StoredKeeps, LoadFailsKeeps,
     ChangeElsewhereKeeps, ChangeHereKeeps DEF HostMapNext
<1>2. CASE UNCHANGED allHost
  BY <1>2 DEF allHost, hostVars, HostInv, HostTyped, LoadsTrue, HeldTrue, TrueAt
<1> QED
  BY <1>1, <1>2

LEMMA HostSuffices == HostInv => HostsFresh
<1> SUFFICES ASSUME HostInv, Trusted PROVE HostsFresh
  BY DEF HostsFresh, NeverTooOld, AnswersAtOnce
<1>1. held \in Nat /\ held >= atOnce
  BY DEF HostInv, HostTyped, HeldTrue, Trusted
<1>2. held \in DOMAIN ended => now - ended[held] < TTL + MaxLoad
  BY <1>1, HostMapAssumption DEF HostInv, HostTyped, HeldTrue, TrueAt, Trusted
<1> QED
  BY <1>1, <1>2 DEF HostsFresh, NeverTooOld, AnswersAtOnce

\* No host is answered from a map that stopped being true TTL and one load
\* ago, nor from one older than a change made here with no load under way:
\* load and Invalidate of tenancy.go.
THEOREM AlwaysFresh == HostMapSpec => []HostsFresh
<1>1. HostMapSpec => HostInv /\ [][HostMapNext]_allHost
  BY HostInit DEF HostMapSpec, allHost
<1> QED
  BY <1>1, HostNextKeeps, HostSuffices, PTL

-----------------------------------------------------------------------------
(* The buckets.  One untouched for longer than Idle is full again, so that *)
(* forgetting it and starting it full are the same.                        *)

BucketTyped ==
  /\ now \in Nat
  /\ ideal \in [Visitors -> Nat]
  /\ DOMAIN buckets \subseteq Visitors
  /\ \A k \in DOMAIN buckets :
       /\ buckets[k].tokens \in Nat /\ buckets[k].seen \in Nat
       /\ buckets[k].tokens <= Burst /\ buckets[k].seen <= now

BucketInv == BucketTyped /\ Remembered

LEMMA RefillGrows ==
  ASSUME NEW d \in Nat
  PROVE  d * Refill \in Nat /\ (d + 1) * Refill = d * Refill + Refill /\ 0 * Refill = 0
BY BucketAssumption, SMT

LEMMA IdleIsFull ==
  ASSUME NEW d \in Nat, d > Idle PROVE d * Refill >= Burst
<1>1. Refill \in Nat /\ Idle \in Nat /\ Burst \in Nat /\ Burst <= Refill * Idle
  BY BucketAssumption
<1>2. d * Refill >= Idle * Refill
  BY <1>1, SMT
<1> QED
  BY <1>1, <1>2, SMT

LEMMA BucketsInit == now = 0 /\ BucketInit => BucketInv
<1> SUFFICES ASSUME now = 0, BucketInit PROVE BucketInv
  OBVIOUS
<1>1. DOMAIN buckets = {}
  BY DEF BucketInit
<1> QED
  BY <1>1, BucketAssumption DEF BucketInv, BucketTyped, Remembered, Refilled, BucketInit

\* What a remembered bucket holds once refilled.
LEMMA RefilledIs ==
  ASSUME BucketTyped, NEW k \in DOMAIN buckets
  PROVE  /\ (now - buckets[k].seen) \in Nat
         /\ (now - buckets[k].seen) * Refill \in Nat
         /\ Refilled(DOMAIN buckets, k)
              = Least(Burst, buckets[k].tokens + (now - buckets[k].seen) * Refill)
<1>1. (now - buckets[k].seen) \in Nat
  BY DEF BucketTyped
<1> QED
  BY <1>1, RefillGrows DEF Refilled

LEMMA BucketTickKeeps == ASSUME BucketInv, BucketTick PROVE BucketInv'
<1> USE BucketAssumption, ClockAssumption
<1>1. now' = now + 1 /\ now' \in Nat /\ buckets' = buckets
  BY DEF BucketTick, Passes, BucketInv, BucketTyped
<1>2. BucketTyped'
  <2>1. ideal' \in [Visitors -> Nat]
    BY DEF BucketInv, BucketTyped, BucketTick, Least
  <2> QED
    BY <1>1, <2>1 DEF BucketInv, BucketTyped
<1>3. ASSUME NEW k \in Visitors PROVE Refilled(DOMAIN buckets, k)' = ideal'[k]
  <2>1. ideal'[k] = Least(Burst, Refilled(DOMAIN buckets, k) + Refill)
    BY DEF BucketInv, Remembered, BucketTick
  <2>2. CASE k \in DOMAIN buckets
    <3> DEFINE d == now - buckets[k].seen
               tokens == buckets[k].tokens
    <3>1. /\ d \in Nat /\ d * Refill \in Nat
          /\ Refilled(DOMAIN buckets, k) = Least(Burst, tokens + d * Refill)
      BY <2>2, RefilledIs DEF BucketInv
    <3>2. (d + 1) * Refill = d * Refill + Refill
      BY <3>1, RefillGrows
    <3>3. now' - buckets[k].seen = d + 1 /\ tokens \in Nat
      BY <1>1, <2>2 DEF BucketInv, BucketTyped
    <3>4. Refilled(DOMAIN buckets, k)' = Least(Burst, tokens + (d + 1) * Refill)
      BY <1>1, <2>2, <3>3 DEF Refilled
    <3>5. Refilled(DOMAIN buckets, k)' = Least(Burst, tokens + (d * Refill + Refill))
      BY <3>2, <3>4
    <3> HIDE DEF d, tokens
    <3> QED
      BY <2>1, <3>1, <3>3, <3>5 DEF Least
  <2>3. CASE k \notin DOMAIN buckets
    BY <1>1, <2>1, <2>3 DEF Refilled, Least
  <2> QED
    BY <2>2, <2>3
<1> QED
  BY <1>2, <1>3 DEF BucketInv, Remembered

\* Forgetting the idle changes what no key has.
LEMMA ForgettingIsNotFelt ==
  ASSUME BucketTyped, NEW k \in Visitors
  PROVE  Refilled(DOMAIN buckets \ ForgetIdle, k) = Refilled(DOMAIN buckets, k)
<1>1. CASE k \in ForgetIdle
  <2>1. k \in DOMAIN buckets /\ now - buckets[k].seen > Idle
    BY <1>1 DEF ForgetIdle
  <2>2. (now - buckets[k].seen) * Refill >= Burst
    BY <2>1, RefilledIs, IdleIsFull
  <2>3. /\ (now - buckets[k].seen) * Refill \in Nat
        /\ Refilled(DOMAIN buckets, k)
             = Least(Burst, buckets[k].tokens + (now - buckets[k].seen) * Refill)
    BY <2>1, RefilledIs
  <2>4. Refilled(DOMAIN buckets, k) = Burst
    BY <2>1, <2>2, <2>3, BucketAssumption DEF Least, BucketTyped
  <2> QED
    BY <1>1, <2>4 DEF Refilled
<1>2. CASE k \notin ForgetIdle
  BY <1>2 DEF Refilled
<1> QED
  BY <1>1, <1>2

LEMMA AllowKeeps == ASSUME BucketInv, NEW k \in Visitors, Allow(k) PROVE BucketInv'
<1> USE BucketAssumption
<1> DEFINE known == DOMAIN buckets \ ForgetIdle
           left  == Refilled(known, k)
           spent == IF left < 1 THEN 0 ELSE 1
<1>1. /\ buckets' = [x \in known \union {k} |->
                      IF x = k THEN [tokens |-> left - spent, seen |-> now] ELSE buckets[x]]
      /\ ideal' = [ideal EXCEPT ![k] = @ - spent]
      /\ now' = now
  BY DEF Allow
<1>2. left = ideal[k] /\ left \in Nat
  BY ForgettingIsNotFelt DEF BucketInv, BucketTyped, Remembered
<1>3. left <= Burst
  <2>1. CASE k \in DOMAIN buckets
    <3>1. (now - buckets[k].seen) * Refill \in Nat /\ buckets[k].tokens \in Nat
      BY <2>1, RefilledIs DEF BucketInv, BucketTyped
    <3>2. left = Least(Burst, buckets[k].tokens + (now - buckets[k].seen) * Refill)
      BY <2>1, ForgettingIsNotFelt, RefilledIs DEF BucketInv
    <3> QED
      BY <3>1, <3>2 DEF Least
  <2>2. CASE k \notin DOMAIN buckets
    BY <2>2 DEF Refilled
  <2> QED
    BY <2>1, <2>2
<1>4. spent \in {0, 1} /\ left - spent \in Nat /\ left - spent <= Burst
  BY <1>2, <1>3
<1>5. known \subseteq DOMAIN buckets /\ DOMAIN buckets \subseteq Visitors
  BY DEF BucketInv, BucketTyped
<1> HIDE DEF known, left, spent
<1>6. DOMAIN buckets' = known \union {k}
  BY <1>1
<1>7. buckets'[k].tokens = left - spent /\ buckets'[k].seen = now
  BY <1>1
<1>8. \A x \in known \ {k} : buckets'[x] = buckets[x]
  BY <1>1
<1>9. BucketTyped'
  <2>1. ideal' \in [Visitors -> Nat]
    BY <1>1, <1>2, <1>4 DEF BucketInv, BucketTyped
  <2> QED
    BY <1>1, <1>4, <1>5, <1>6, <1>7, <1>8, <2>1 DEF BucketInv, BucketTyped
<1>10. ASSUME NEW x \in Visitors PROVE Refilled(DOMAIN buckets, x)' = ideal'[x]
  <2>1. CASE x = k
    <3>1. ideal'[k] = left - spent
      BY <1>1, <1>2 DEF BucketInv, BucketTyped
    <3>2. Refilled(DOMAIN buckets, k)' = Least(Burst, (left - spent) + (now - now) * Refill)
      BY <1>1, <1>6, <1>7 DEF Refilled
    <3>3. (now - now) * Refill = 0
      BY RefillGrows DEF BucketInv, BucketTyped
    <3> QED
      BY <1>4, <2>1, <3>1, <3>2, <3>3 DEF Least
  <2>2. CASE x # k
    <3>1. ideal'[x] = ideal[x]
      BY <1>1, <2>2 DEF BucketInv, BucketTyped
    <3>2. Refilled(DOMAIN buckets, x)' = Refilled(known, x)
      BY <1>1, <1>6, <1>8, <2>2 DEF Refilled
    <3>3. Refilled(known, x) = ideal[x]
      BY ForgettingIsNotFelt DEF BucketInv, Remembered, known
    <3> QED
      BY <2>2, <3>1, <3>2, <3>3
  <2> QED
    BY <2>1, <2>2
<1> QED
  BY <1>9, <1>10 DEF BucketInv, Remembered

\* The limiter of a process forgets buckets and nobody is allowed more for it,
\* nor less: Allow and forgetIdle of memory.go.
THEOREM AlwaysRemembered == BucketSpec => []Remembered
<1>1. BucketInv /\ [BucketNext]_<<now, bucketVars>> => BucketInv'
  <2> SUFFICES ASSUME BucketInv, [BucketNext]_<<now, bucketVars>> PROVE BucketInv'
    OBVIOUS
  <2>1. CASE BucketNext
    BY <2>1, BucketTickKeeps, AllowKeeps DEF BucketNext
  <2>2. CASE UNCHANGED <<now, bucketVars>>
    BY <2>2 DEF bucketVars, BucketInv, BucketTyped, Remembered, Refilled
  <2> QED
    BY <2>1, <2>2
<1>2. BucketInv => Remembered
  BY DEF BucketInv
<1>3. BucketSpec => BucketInv /\ [][BucketNext]_<<now, bucketVars>>
  BY BucketsInit DEF BucketSpec
<1> QED
  BY <1>1, <1>2, <1>3, PTL

-----------------------------------------------------------------------------
(* Codes by e-mail.  Codes are sent at ever later moments, whatever order  *)
(* the requests for them come in, and a new one retires its purpose's: so  *)
(* the only one that may be used is the last sent, and nobody used it.     *)

Code == [at : Moments, purpose : Purposes, used : BOOLEAN, attempts : Nat]

CodesTyped ==
  /\ now \in Moments
  /\ codes \subseteq Code
  /\ asking \in [Askers -> [at : Moments, purpose : Purposes] \cup {NotAsking}]
  /\ uses \in [Moments -> Nat]
  /\ last \in [Purposes -> Int]
  /\ wrong \in [Purposes -> Nat]

\* No two codes are of one moment, and none used is later than those kept.
InOrder ==
  /\ \A c, d \in codes : c.at = d.at => c = d
  /\ \A m \in Moments : uses[m] > 0 => \E c \in codes : c.at >= m

OnlyLastUnused ==
  \A c \in codes : ~c.used =>
    /\ last[c.purpose] = c.at /\ wrong[c.purpose] = c.attempts /\ uses[c.at] = 0

CodesInv == CodesTyped /\ InOrder /\ OnlyLastUnused

LEMMA CodesInitially == now = 0 /\ EmailCodesInit => CodesInv
<1> SUFFICES ASSUME now = 0, EmailCodesInit PROVE CodesInv
  OBVIOUS
<1>1. CodesTyped
  BY ClockAssumption DEF CodesTyped, EmailCodesInit, Moments
<1>2. InOrder /\ OnlyLastUnused
  BY DEF InOrder, OnlyLastUnused, EmailCodesInit
<1> QED
  BY <1>1, <1>2 DEF CodesInv

LEMMA SendKeeps == ASSUME CodesInv, NEW r \in Askers, Send(r) PROVE CodesInv'
<1> DEFINE at == asking[r].at
           p == asking[r].purpose
           new == [at |-> at, purpose |-> p, used |-> FALSE, attempts |-> 0]
<1>1. asking[r] # NotAsking /\ asking' = [asking EXCEPT ![r] = NotAsking] /\ UNCHANGED <<now, uses>>
  BY DEF Send
<1>2. at \in Moments /\ p \in Purposes /\ at \in Int
  BY <1>1 DEF CodesInv, CodesTyped, Moments
<1>3. asking' \in [Askers -> [at : Moments, purpose : Purposes] \cup {NotAsking}]
  BY <1>1 DEF CodesInv, CodesTyped
<1>4. CASE UNCHANGED <<codes, sent, last, wrong>>
  BY <1>1, <1>3, <1>4 DEF CodesInv, CodesTyped, InOrder, OnlyLastUnused
<1>5. CASE /\ ~TooSoon(at)
           /\ codes' = InsertEmailCode(at, p)
           /\ last' = [last EXCEPT ![p] = at]
           /\ wrong' = [wrong EXCEPT ![p] = 0]
  <2>1. \A c \in codes : c \in Code /\ c.at \in Int /\ c.at < at
    <3>1. \A c \in codes : c \in Code /\ c.at \in Int
      BY DEF CodesInv, CodesTyped, Code, Moments
    <3> QED
      BY <1>2, <1>5, <3>1, EmailCodesAssumption DEF TooSoon, Since
  <2>2. uses[at] = 0
    BY <1>2, <2>1 DEF CodesInv, CodesTyped, InOrder
  <2>3. new \in Code /\ new.at = at /\ new.purpose = p /\ new.attempts = 0 /\ new \in codes'
    BY <1>2, <1>5 DEF Code, InsertEmailCode
  <2>4. ASSUME NEW c \in codes', c # new
        PROVE  \E d \in codes : /\ c = [d EXCEPT !.used = d.used \/ d.purpose = p]
                                /\ c \in Code /\ c.at = d.at /\ c.purpose = d.purpose
                                /\ c.attempts = d.attempts /\ c.at < at
                                /\ ~c.used => ~d.used /\ d.purpose # p
    <3>1. PICK d \in codes : c = [d EXCEPT !.used = d.used \/ d.purpose = p]
      BY <1>5, <2>4 DEF InsertEmailCode, Since
    <3>2. d \in Code /\ (d.used \/ d.purpose = p) \in BOOLEAN
      BY <2>1
    <3>3. /\ c \in Code /\ c.at = d.at /\ c.purpose = d.purpose /\ c.attempts = d.attempts
          /\ c.used = (d.used \/ d.purpose = p)
      BY <3>1, <3>2 DEF Code
    <3> QED
      BY <2>1, <3>1, <3>3
  <2> HIDE DEF new
  <2>5. CodesTyped'
    <3>1. codes' \subseteq Code
      BY <2>3, <2>4
    <3>2. last' \in [Purposes -> Int] /\ wrong' \in [Purposes -> Nat]
      BY <1>2, <1>5 DEF CodesInv, CodesTyped
    <3> QED
      BY <1>1, <1>3, <3>1, <3>2 DEF CodesInv, CodesTyped
  <2>6. InOrder'
    <3>1. ASSUME NEW c \in codes', NEW d \in codes', c.at = d.at PROVE c = d
      BY <1>2, <2>3, <2>4, <3>1 DEF CodesInv, InOrder
    <3>2. ASSUME NEW m \in Moments, uses'[m] > 0 PROVE \E c \in codes' : c.at >= m
      <4>1. PICK c \in codes : c.at >= m
        BY <1>1, <3>2 DEF CodesInv, InOrder
      <4>2. at >= m
        BY <1>2, <2>1, <4>1 DEF Moments
      <4> QED
        BY <2>3, <4>2
    <3> QED
      BY <3>1, <3>2 DEF InOrder
  <2>7. OnlyLastUnused'
    <3> SUFFICES ASSUME NEW c \in codes', ~c.used
                 PROVE  last'[c.purpose] = c.at /\ wrong'[c.purpose] = c.attempts /\ uses'[c.at] = 0
      BY DEF OnlyLastUnused
    <3>1. CASE c = new
      BY <1>1, <1>2, <1>5, <2>2, <2>3, <3>1 DEF CodesInv, CodesTyped
    <3>2. CASE c # new
      <4>1. PICK d \in codes : /\ c \in Code /\ c.at = d.at /\ c.purpose = d.purpose
                               /\ c.attempts = d.attempts /\ ~d.used /\ d.purpose # p
        BY <2>4, <3>2
      <4>2. last'[c.purpose] = last[d.purpose] /\ wrong'[c.purpose] = wrong[d.purpose]
        BY <1>5, <4>1 DEF CodesInv, CodesTyped, Code
      <4> QED
        BY <1>1, <4>1, <4>2 DEF CodesInv, OnlyLastUnused
    <3> QED
      BY <3>1, <3>2
  <2> QED
    BY <2>5, <2>6, <2>7 DEF CodesInv
<1> QED
  BY <1>4, <1>5 DEF Send

\* The code an answer is compared with: the only one unused of its purpose.
LEMMA LatestIs ==
  ASSUME CodesInv, NEW p \in Purposes, NEW moment \in Int, Live(p, moment) # {}
  PROVE  LET code == Latest(Live(p, moment)) IN
         /\ code \in codes /\ code.purpose = p /\ ~code.used /\ code.attempts < Tries
         /\ last[p] = code.at /\ wrong[p] = code.attempts /\ uses[code.at] = 0
<1>1. PICK c \in Live(p, moment) : TRUE
  OBVIOUS
<1>2. \A d \in Live(p, moment) : d.at = c.at
  BY <1>1 DEF CodesInv, OnlyLastUnused, Live
<1>3. c.at \in Int /\ \A d \in Live(p, moment) : d.at <= c.at
  <2>1. c \in Code
    BY <1>1 DEF CodesInv, CodesTyped, Live
  <2>2. c.at \in Int
    BY <2>1 DEF Code, Moments
  <2> QED
    BY <1>2, <2>2
<1>4. Latest(Live(p, moment)) \in Live(p, moment)
  BY <1>1, <1>3 DEF Latest
<1> QED
  BY <1>4 DEF CodesInv, OnlyLastUnused, Live

LEMMA UseKeeps ==
  ASSUME CodesInv, NEW p \in Purposes, NEW guess \in Int, UseEmailCode(p, guess)
  PROVE  /\ CodesInv'
         /\ \A m \in Moments : uses'[m] > uses[m] =>
              uses[m] = 0 /\ \E q \in Purposes : last[q] = m /\ wrong[q] < Tries
<1>1. PICK behind \in 0 .. MaxWait :
        LET live == Live(p, now - behind)
            code == Latest(live)
        IN /\ behind <= now /\ live # {}
           /\ IF code.at = guess
              THEN /\ codes' = (codes \ {code}) \union {[code EXCEPT !.used = TRUE]}
                   /\ uses' = [uses EXCEPT ![guess] = @ + 1]
                   /\ UNCHANGED wrong
              ELSE /\ codes' = (codes \ {code}) \union {[code EXCEPT !.attempts = @ + 1]}
                   /\ wrong' = [wrong EXCEPT ![p] = @ + 1]
                   /\ UNCHANGED uses
           /\ UNCHANGED <<now, asking, sent, last>>
  BY DEF UseEmailCode
<1> DEFINE code == Latest(Live(p, now - behind))
           spent == [code EXCEPT !.used = TRUE]
           missed == [code EXCEPT !.attempts = @ + 1]
<1>2. now - behind \in Int
  BY EmailCodesAssumption DEF CodesInv, CodesTyped, Moments
<1>3. /\ code \in codes /\ code.purpose = p /\ ~code.used /\ code.attempts < Tries
      /\ last[p] = code.at /\ wrong[p] = code.attempts /\ uses[code.at] = 0
  BY <1>1, <1>2, LatestIs
<1>4. code \in Code /\ code.at \in Moments
  BY <1>3 DEF CodesInv, CodesTyped, Code
<1>5. /\ spent \in Code /\ spent.at = code.at /\ spent.used
      /\ missed \in Code /\ missed.at = code.at /\ missed.used = code.used
      /\ missed.purpose = p /\ missed.attempts = code.attempts + 1
  <2>1. spent \in Code /\ spent.at = code.at /\ spent.used
    BY <1>4 DEF Code
  <2>2. code.attempts \in Nat
    BY <1>4 DEF Code
  <2>3. missed = [code EXCEPT !.attempts = code.attempts + 1]
    OBVIOUS
  <2> DEFINE more == code.attempts + 1
  <2>4. more \in Nat
    BY <2>2
  <2> HIDE DEF more
  <2>5. [code EXCEPT !.attempts = more] \in Code
    BY <1>4, <2>4 DEF Code
  <2>6. [code EXCEPT !.attempts = more].at = code.at /\ [code EXCEPT !.attempts = more].used = code.used
        /\ [code EXCEPT !.attempts = more].purpose = code.purpose
        /\ [code EXCEPT !.attempts = more].attempts = more
    BY <1>4 DEF Code
  <2> QED
    BY <1>3, <2>1, <2>3, <2>5, <2>6 DEF more
<1>6. \A c \in codes \ {code} : c.at # code.at
  BY <1>3 DEF CodesInv, InOrder
<1>7. \A c \in codes \ {code} : ~c.used => c.purpose # p
  BY <1>3, <1>6 DEF CodesInv, OnlyLastUnused
<1>8. UNCHANGED <<now, asking, last>>
  BY <1>1
<1>9. CASE code.at = guess
  <2>1. /\ codes' = (codes \ {code}) \union {spent}
        /\ uses' = [uses EXCEPT ![code.at] = @ + 1] /\ wrong' = wrong
    BY <1>1, <1>9
  <2> HIDE DEF code, spent
  <2>2. uses'[code.at] = 1 /\ \A m \in Moments : m # code.at => uses'[m] = uses[m]
    BY <1>3, <1>4, <2>1 DEF CodesInv, CodesTyped
  <2>3. CodesTyped'
    BY <1>4, <1>5, <1>8, <2>1 DEF CodesInv, CodesTyped
  <2>4. InOrder'
    <3>1. \A c, d \in codes' : c.at = d.at => c = d
      BY <1>5, <1>6, <2>1 DEF CodesInv, InOrder
    <3>2. ASSUME NEW m \in Moments, uses'[m] > 0 PROVE \E c \in codes' : c.at >= m
      <4>1. PICK c \in codes : c.at >= m
        BY <1>3, <1>4, <2>2, <3>2 DEF CodesInv, InOrder, Moments
      <4> QED
        BY <1>5, <2>1, <4>1
    <3> QED
      BY <3>1, <3>2 DEF InOrder
  <2>5. OnlyLastUnused'
    <3> SUFFICES ASSUME NEW c \in codes', ~c.used
                 PROVE  last'[c.purpose] = c.at /\ wrong'[c.purpose] = c.attempts /\ uses'[c.at] = 0
      BY DEF OnlyLastUnused
    <3>1. c \in codes \ {code} /\ c.at \in Moments
      BY <1>5, <2>1 DEF CodesInv, CodesTyped, Code
    <3> QED
      BY <1>6, <1>8, <2>1, <2>2, <3>1 DEF CodesInv, OnlyLastUnused
  <2> QED
    BY <1>3, <2>2, <2>3, <2>4, <2>5 DEF CodesInv, CodesTyped
<1>10. CASE code.at # guess
  <2>1. /\ codes' = (codes \ {code}) \union {missed}
        /\ uses' = uses /\ wrong' = [wrong EXCEPT ![p] = @ + 1]
    BY <1>1, <1>10
  <2> HIDE DEF code, missed
  <2>2. wrong'[p] = missed.attempts /\ \A q \in Purposes : q # p => wrong'[q] = wrong[q]
    BY <1>3, <1>5, <2>1 DEF CodesInv, CodesTyped
  <2>3. CodesTyped'
    BY <1>4, <1>5, <1>8, <2>1 DEF CodesInv, CodesTyped
  <2>4. InOrder'
    <3>1. \A c, d \in codes' : c.at = d.at => c = d
      BY <1>5, <1>6, <2>1 DEF CodesInv, InOrder
    <3>2. ASSUME NEW m \in Moments, uses'[m] > 0 PROVE \E c \in codes' : c.at >= m
      <4>1. PICK c \in codes : c.at >= m
        BY <2>1, <3>2 DEF CodesInv, InOrder
      <4> QED
        BY <1>5, <2>1, <4>1
    <3> QED
      BY <3>1, <3>2 DEF InOrder
  <2>5. OnlyLastUnused'
    <3> SUFFICES ASSUME NEW c \in codes', ~c.used
                 PROVE  last'[c.purpose] = c.at /\ wrong'[c.purpose] = c.attempts /\ uses'[c.at] = 0
      BY DEF OnlyLastUnused
    <3>1. CASE c = missed
      BY <1>3, <1>5, <1>8, <2>1, <2>2, <3>1
    <3>2. CASE c # missed
      <4>1. c \in codes \ {code} /\ c.purpose \in Purposes /\ c.purpose # p
        BY <1>7, <2>1, <3>2 DEF CodesInv, CodesTyped, Code
      <4> QED
        BY <1>8, <2>1, <2>2, <4>1 DEF CodesInv, OnlyLastUnused
    <3> QED
      BY <3>1, <3>2
  <2> QED
    BY <2>1, <2>3, <2>4, <2>5 DEF CodesInv, CodesTyped
<1> QED
  BY <1>9, <1>10

LEMMA AskKeeps ==
  ASSUME CodesInv, NEW r \in Askers, NEW p \in Purposes, Ask(r, p) PROVE CodesInv'
BY DEF CodesInv, CodesTyped, InOrder, OnlyLastUnused, Ask

LEMMA CodesTickKeeps == ASSUME CodesInv, CodesTick PROVE CodesInv'
BY ClockAssumption DEF CodesInv, CodesTyped, InOrder, OnlyLastUnused, CodesTick, Passes, codeVars, Moments

\* What one step says of the codes accepted.
Accepts ==
  \A m \in Moments :
    uses'[m] > uses[m] =>
      uses[m] = 0 /\ \E p \in Purposes : last[p] = m /\ wrong[p] < Tries

LEMMA CodesNext == ASSUME CodesInv, EmailCodesNext PROVE CodesInv' /\ Accepts
<1>1. CASE CodesTick
  <2>1. uses' = uses /\ \A m \in Moments : uses[m] \in Nat
    BY <1>1 DEF CodesTick, codeVars, CodesInv, CodesTyped
  <2> QED
    BY <1>1, <2>1, CodesTickKeeps DEF Accepts
<1>2. ASSUME NEW r \in Askers, Send(r) \/ \E p \in Purposes : Ask(r, p)
      PROVE  CodesInv' /\ Accepts
  <2>1. uses' = uses /\ \A m \in Moments : uses[m] \in Nat
    BY <1>2 DEF Send, Ask, CodesInv, CodesTyped
  <2> QED
    BY <1>2, <2>1, SendKeeps, AskKeeps DEF Accepts
<1>3. ASSUME NEW p \in Purposes, NEW guess \in {-1} \union {m \in Moments : sent[m] > 0},
             UseEmailCode(p, guess)
      PROVE  CodesInv' /\ Accepts
  <2>1. guess \in Int
    BY DEF Moments
  <2> QED
    BY <1>3, <2>1, UseKeeps DEF Accepts
<1> QED
  BY <1>1, <1>2, <1>3 DEF EmailCodesNext

allCodes == <<now, codeVars>>

LEMMA CodesStep == CodesInv /\ [EmailCodesNext]_allCodes => CodesInv' /\ [Accepts]_allCodes
<1>1. ASSUME CodesInv, UNCHANGED allCodes PROVE CodesInv'
  BY <1>1 DEF allCodes, codeVars, CodesInv, CodesTyped, InOrder, OnlyLastUnused
<1> QED
  BY <1>1, CodesNext

\* A code is accepted once, while it is the last sent for its purpose, and
\* never after Tries wrong answers: useEmailCode and insertEmailCode of
\* emailcode.go, whoever asks at once and in whatever order they are sent.
THEOREM LastAccepted == EmailCodesSpec => OnlyLastAccepted
<1>1. EmailCodesSpec => CodesInv /\ [][EmailCodesNext]_allCodes
  BY CodesInitially DEF EmailCodesSpec, allCodes
<1>2. EmailCodesSpec => [][Accepts]_allCodes
  BY <1>1, CodesStep, PTL
<1> QED
  BY <1>2 DEF OnlyLastAccepted, Accepts, allCodes

-----------------------------------------------------------------------------
(* How many codes are sent.  A row is deleted only when a code is stored   *)
(* an hour after it; so of every moment a code was sent at, there is a     *)
(* row, or one an hour later: whoever counts the rows of the hour before   *)
(* its own moment counts every code of it.                                 *)
SendsKept ==
  /\ sent \in [Moments -> Nat]
  /\ \A m \in Moments : sent[m] > 0 => \E c \in codes : c.at = m \/ c.at >= m + Hour

Apart ==
  /\ \A m \in Moments : sent[m] <= 1
  /\ \A m, n \in Moments : sent[m] > 0 /\ sent[n] > 0 /\ m < n => m + Every <= n

Hourly == \A m \in Moments : Cardinality(SentIn(m, m + Hour)) <= PerHour

SendsInv == SendsKept /\ Apart /\ Hourly

LEMMA SpansFinite == \A from, to : IsFiniteSet(SentIn(from, to)) /\ Cardinality(SentIn(from, to)) \in Nat
<1> TAKE from, to
<1>1. IsFiniteSet(Moments)
  BY FS_Interval, ClockAssumption DEF Moments
<1>2. SentIn(from, to) \in SUBSET Moments
  BY DEF SentIn
<1> QED
  BY <1>1, <1>2, FS_Subset, FS_CardinalityType

\* Codes are told apart by their moments, so there are finitely many.
LEMMA CodesFinite == ASSUME CodesInv PROVE IsFiniteSet(codes)
<1> DEFINE f == [c \in codes |-> c.at]
<1>1. IsFiniteSet(Moments)
  BY FS_Interval, ClockAssumption DEF Moments
<1>2. f \in Injection(codes, Moments)
  BY DEF CodesInv, CodesTyped, InOrder, Code, Injection, IsInjective
<1> QED
  BY <1>1, <1>2, FS_Injection

\* Of a span that begins less than an hour before a moment later than every
\* code, each code sent is a row counted at that moment.
LEMMA EveryoneCounted ==
  ASSUME CodesInv, SendsInv, NEW at \in Moments, NEW m \in Moments, at < m + Hour,
         \A c \in codes : c.at < at
  PROVE  Cardinality(SentIn(m, m + Hour)) <= Cardinality(Since(at - Hour))
<1> DEFINE S == SentIn(m, m + Hour)
           R == Since(at - Hour)
           f == [x \in S |-> CHOOSE c \in R : c.at = x]
<1> USE EmailCodesAssumption
<1>1. IsFiniteSet(R)
  BY CodesFinite, FS_Subset DEF Since
<1>2. ASSUME NEW x \in S PROVE \E c \in R : c.at = x
  <2>1. x \in Moments /\ m <= x /\ sent[x] > 0
    BY DEF SentIn
  <2>2. PICK c \in codes : c.at = x \/ c.at >= x + Hour
    BY <2>1 DEF SendsInv, SendsKept
  <2>3. c.at < at /\ c.at \in Moments
    BY DEF CodesInv, CodesTyped, Code
  <2>4. c.at = x /\ c.at > at - Hour
    BY <2>1, <2>2, <2>3 DEF Moments
  <2> QED
    BY <2>4 DEF Since
<1>3. \A x \in S : f[x] \in R /\ f[x].at = x
  BY <1>2
<1> HIDE DEF f
<1>4. f \in [S -> R]
  <2>1. f = [x \in S |-> f[x]]
    BY DEF f
  <2> QED
    BY <1>3, <2>1
<1>5. f \in Injection(S, R)
  BY <1>3, <1>4 DEF Injection, IsInjective
<1> QED
  BY <1>1, <1>5, FS_Injection

LEMMA SendCounts == ASSUME CodesInv, SendsInv, NEW r \in Askers, Send(r) PROVE SendsInv'
<1> DEFINE at == asking[r].at
           p == asking[r].purpose
<1> USE EmailCodesAssumption
<1>1. asking[r] # NotAsking
  BY DEF Send
<1>2. at \in Moments /\ p \in Purposes
  BY <1>1 DEF CodesInv, CodesTyped
<1>3. CASE UNCHANGED <<codes, sent>>
  BY <1>3 DEF SendsInv, SendsKept, Apart, Hourly, SentIn
<1>4. CASE ~TooSoon(at) /\ ~TooMany(at) /\ codes' = InsertEmailCode(at, p) /\ sent' = [sent EXCEPT ![at] = @ + 1]
  <2>1. \A c \in codes : c.at \in Moments /\ c.at + Every <= at
    <3>1. \A c \in codes : c.at \in Moments
      BY DEF CodesInv, CodesTyped, Code
    <3> QED
      BY <1>2, <1>4, <3>1 DEF TooSoon, Since, Moments
  <2>2. \A m \in Moments : sent[m] \in Nat /\ (sent[m] > 0 => m + Every <= at)
    BY <1>2, <2>1 DEF SendsInv, SendsKept, Moments
  <2>3. sent[at] = 0
    BY <1>2, <2>2 DEF Moments
  <2>4. sent'[at] = 1 /\ \A m \in Moments : m # at => sent'[m] = sent[m]
    BY <1>2, <1>4, <2>3 DEF SendsInv, SendsKept
  <2>5. /\ \E c \in codes' : c.at = at
        /\ \A c \in codes : c.at > at - Hour => \E d \in codes' : d.at = c.at
    <3>1. [at |-> at, purpose |-> p, used |-> FALSE, attempts |-> 0] \in codes'
      BY <1>4 DEF InsertEmailCode
    <3>2. ASSUME NEW c \in codes, c.at > at - Hour PROVE \E d \in codes' : d.at = c.at
      <4>1. [c EXCEPT !.used = c.used \/ c.purpose = p] \in codes'
        BY <1>4, <3>2 DEF InsertEmailCode, Since
      <4>2. c \in Code
        BY DEF CodesInv, CodesTyped
      <4>3. [c EXCEPT !.used = c.used \/ c.purpose = p].at = c.at
        BY <4>2 DEF Code
      <4> QED
        BY <4>1, <4>3
    <3> QED
      BY <3>1, <3>2
  <2>6. SendsKept'
    <3>1. sent' \in [Moments -> Nat]
      BY <1>2, <1>4, <2>2 DEF SendsInv, SendsKept
    <3>2. ASSUME NEW m \in Moments, sent'[m] > 0
          PROVE  \E c \in codes' : c.at = m \/ c.at >= m + Hour
      <4>1. CASE m = at
        BY <2>5, <4>1
      <4>2. CASE m # at
        <5>1. PICK c \in codes : c.at = m \/ c.at >= m + Hour
          BY <2>4, <3>2, <4>2 DEF SendsInv, SendsKept
        <5>2. CASE c.at > at - Hour
          BY <2>5, <5>1, <5>2
        <5>3. CASE c.at <= at - Hour
          <6>1. at >= m + Hour
            BY <1>2, <2>1, <5>1, <5>3 DEF Moments
          <6> QED
            BY <2>5, <6>1
        <5> QED
          BY <1>2, <2>1, <5>2, <5>3 DEF Moments
      <4> QED
        BY <4>1, <4>2
    <3> QED
      BY <3>1, <3>2 DEF SendsKept
  <2>7. Apart'
    <3>1. ASSUME NEW m \in Moments PROVE sent'[m] <= 1
      BY <2>4 DEF SendsInv, Apart
    <3>2. ASSUME NEW m \in Moments, NEW n \in Moments, sent'[m] > 0, sent'[n] > 0, m < n
          PROVE  m + Every <= n
      <4>1. m # at
        BY <2>2, <2>4, <3>2 DEF Moments
      <4>2. CASE n = at
        BY <2>2, <2>4, <3>2, <4>1, <4>2
      <4>3. CASE n # at
        BY <2>4, <3>2, <4>1, <4>3 DEF SendsInv, Apart
      <4> QED
        BY <4>2, <4>3
    <3> QED
      BY <3>1, <3>2 DEF Apart
  <2>8. Hourly'
    <3> SUFFICES ASSUME NEW m \in Moments PROVE Cardinality(SentIn(m, m + Hour)') <= PerHour
      BY DEF Hourly
    <3>1. CASE m <= at /\ at < m + Hour
      <4>1. SentIn(m, m + Hour)' = SentIn(m, m + Hour) \cup {at}
        BY <1>2, <2>4, <3>1 DEF SentIn
      <4>2. Cardinality(SentIn(m, m + Hour)) <= Cardinality(Since(at - Hour))
        <5>1. \A c \in codes : c.at < at
          BY <1>2, <2>1 DEF Moments
        <5> QED
          BY <1>2, <3>1, <5>1, EveryoneCounted
      <4>3. IsFiniteSet(Since(at - Hour))
        BY CodesFinite, FS_Subset DEF Since
      <4>4. Cardinality(Since(at - Hour)) \in Nat /\ Cardinality(Since(at - Hour)) < PerHour
        BY <1>4, <4>3, FS_CardinalityType DEF TooMany
      <4>5. Cardinality(SentIn(m, m + Hour) \cup {at}) <= Cardinality(SentIn(m, m + Hour)) + 1
        <5> DEFINE S == SentIn(m, m + Hour)
        <5>1. IsFiniteSet(S) /\ Cardinality(S) \in Nat
          BY SpansFinite
        <5> HIDE DEF S
        <5>2. Cardinality(S \cup {at}) = IF at \in S THEN Cardinality(S) ELSE Cardinality(S) + 1
          BY <5>1, FS_AddElement
        <5>3. Cardinality(S \cup {at}) <= Cardinality(S) + 1
          BY <5>1, <5>2
        <5> QED
          BY <5>3 DEF S
      <4>6. Cardinality(SentIn(m, m + Hour)) \in Nat /\ PerHour \in Nat
        BY SpansFinite, EmailCodesAssumption
      <4>7. Cardinality(SentIn(m, m + Hour)) + 1 <= PerHour
        BY <4>2, <4>4, <4>6
      <4>8. Cardinality(SentIn(m, m + Hour) \cup {at}) \in Nat
        <5> DEFINE S == SentIn(m, m + Hour)
        <5>1. IsFiniteSet(S)
          BY SpansFinite
        <5> HIDE DEF S
        <5>2. IsFiniteSet(S \cup {at})
          BY <5>1, FS_AddElement
        <5>3. Cardinality(S \cup {at}) \in Nat
          BY <5>2, FS_CardinalityType
        <5> QED
          BY <5>3 DEF S
      <4>9. Cardinality(SentIn(m, m + Hour) \cup {at}) <= PerHour
        BY <4>5, <4>6, <4>7, <4>8
      <4> QED
        BY <4>1, <4>9
    <3>2. CASE ~(m <= at /\ at < m + Hour)
      <4>1. SentIn(m, m + Hour)' = SentIn(m, m + Hour)
        BY <2>4, <3>2 DEF SentIn
      <4> QED
        BY <4>1 DEF SendsInv, Hourly
    <3> QED
      BY <3>1, <3>2
  <2> QED
    BY <2>6, <2>7, <2>8 DEF SendsInv
<1> QED
  BY <1>3, <1>4 DEF Send

\* A step that sends none, and keeps every row's moment.
LEMMA NoneSent ==
  ASSUME SendsInv, UNCHANGED sent, \A c \in codes : \E d \in codes' : d.at = c.at
  PROVE  SendsInv'
<1>1. SendsKept'
  BY DEF SendsInv, SendsKept
<1> QED
  BY <1>1 DEF SendsInv, Apart, Hourly, SentIn

LEMMA UseSendsNone ==
  ASSUME CodesInv, SendsInv, NEW p \in Purposes, NEW guess \in Int, UseEmailCode(p, guess)
  PROVE  SendsInv'
<1>1. PICK behind \in 0 .. MaxWait :
        LET live == Live(p, now - behind)
            code == Latest(live)
        IN /\ live # {}
           /\ IF code.at = guess
              THEN codes' = (codes \ {code}) \union {[code EXCEPT !.used = TRUE]}
              ELSE codes' = (codes \ {code}) \union {[code EXCEPT !.attempts = @ + 1]}
           /\ UNCHANGED sent
  BY DEF UseEmailCode
<1> DEFINE code == Latest(Live(p, now - behind))
<1>2. now - behind \in Int
  BY EmailCodesAssumption DEF CodesInv, CodesTyped, Moments
<1>3. code \in codes
  BY <1>1, <1>2, LatestIs
<1>4. code \in Code
  BY <1>3 DEF CodesInv, CodesTyped
<1> HIDE DEF code
<1>5. [code EXCEPT !.used = TRUE].at = code.at /\ [code EXCEPT !.attempts = @ + 1].at = code.at
  BY <1>4 DEF Code
<1>6. \/ codes' = (codes \ {code}) \union {[code EXCEPT !.used = TRUE]}
      \/ codes' = (codes \ {code}) \union {[code EXCEPT !.attempts = @ + 1]}
  BY <1>1 DEF code
<1>7. \A c \in codes : \E d \in codes' : d.at = c.at
  BY <1>5, <1>6
<1> QED
  BY <1>1, <1>7, NoneSent

\* Nobody is sent two codes within emailCodeEvery, nor more than
\* emailCodesPerHour in any hour, however many requests ask at once, for
\* whatever purposes: sendCode of emailcode.go.
THEOREM SendsAlwaysBounded == EmailCodesSpec => []SendsBounded
<1>1. now = 0 /\ EmailCodesInit => SendsInv
  <2> SUFFICES ASSUME EmailCodesInit PROVE SendsInv
    OBVIOUS
  <2>1. \A m, n : SentIn(m, n) = {}
    BY DEF EmailCodesInit, SentIn
  <2>2. SendsKept /\ Apart
    BY DEF EmailCodesInit, SendsKept, Apart
  <2>3. Hourly
    BY <2>1, FS_EmptySet, EmailCodesAssumption DEF Hourly
  <2> QED
    BY <2>2, <2>3 DEF SendsInv
<1>2. ASSUME CodesInv, SendsInv, [EmailCodesNext]_allCodes PROVE SendsInv'
  <2>1. ASSUME UNCHANGED codes, UNCHANGED sent PROVE SendsInv'
    BY <1>2, <2>1, NoneSent
  <2>2. CASE CodesTick \/ UNCHANGED allCodes
    BY <2>1, <2>2 DEF CodesTick, allCodes, codeVars
  <2>3. ASSUME NEW r \in Askers, Send(r) \/ \E p \in Purposes : Ask(r, p) PROVE SendsInv'
    BY <1>2, <2>1, <2>3, SendCounts DEF Ask
  <2>4. ASSUME NEW p \in Purposes, NEW guess \in {-1} \union {m \in Moments : sent[m] > 0},
               UseEmailCode(p, guess)
        PROVE  SendsInv'
    <3>1. guess \in Int
      BY DEF Moments
    <3> QED
      BY <1>2, <2>4, <3>1, UseSendsNone
  <2> QED
    BY <1>2, <2>2, <2>3, <2>4 DEF EmailCodesNext
<1>3. SendsInv => SendsBounded
  <2> SUFFICES ASSUME SendsInv, NEW m \in Moments PROVE Cardinality(SentIn(m, m + Every)) <= 1
    BY DEF SendsInv, Apart, Hourly, SendsBounded
  <2>1. \A x, y \in SentIn(m, m + Every) : x = y
    BY EmailCodesAssumption DEF SendsInv, Apart, SentIn, Moments
  <2>2. CASE SentIn(m, m + Every) = {}
    BY <2>2, FS_EmptySet
  <2>3. ASSUME NEW x \in SentIn(m, m + Every) PROVE Cardinality(SentIn(m, m + Every)) <= 1
    <3>1. SentIn(m, m + Every) = {x}
      BY <2>1, <2>3
    <3> QED
      BY <3>1, FS_Singleton
  <2> QED
    BY <2>2, <2>3
<1>4. EmailCodesSpec => now = 0 /\ EmailCodesInit /\ CodesInv /\ [][EmailCodesNext]_allCodes
  BY CodesInitially DEF EmailCodesSpec, allCodes
<1> QED
  BY <1>1, <1>2, <1>3, <1>4, CodesStep, PTL

-----------------------------------------------------------------------------
(* Windows.  An attempt counts itself in a window that has not passed by   *)
(* more than the clocks differ, and a sweep deletes only windows that have *)
(* passed by one more: so a row that is deleted is never opened again, and *)
(* while a window can be counted in, its row has counted whoever it let    *)
(* through, and whoever opened it and is still sweeping.                   *)
Multiple(x, w) == \E i \in Int : x = i * w

LEMMA NextMultiple ==
  ASSUME NEW w \in Nat \ {0}, NEW x \in Int, NEW y \in Int, Multiple(x, w), Multiple(y, w), x < y
  PROVE  x + w <= y
<1>1. PICK i \in Int, j \in Int : x = i * w /\ y = j * w
  BY DEF Multiple
<1>2. i < j
  <2>1. ASSUME j <= i PROVE j * w <= i * w
    BY <2>1
  <2> QED
    BY <1>1, <2>1
<1>3. (i + 1) * w <= j * w
  <2> DEFINE d == j - (i + 1)
  <2>1. d \in Nat /\ j = d + (i + 1)
    BY <1>2
  <2>2. d * w >= 0
    BY <2>1
  <2> HIDE DEF d
  <2>3. j * w = (i + 1) * w + d * w
    BY <2>1
  <2> DEFINE more == d * w
             next == (i + 1) * w
  <2>4. more \in Int /\ next \in Int /\ more >= 0
    BY <2>1, <2>2
  <2> HIDE DEF more, next
  <2>5. next <= next + more
    BY <2>4
  <2> QED
    BY <2>3, <2>5 DEF more, next
<1>4. (i + 1) * w = i * w + w
  OBVIOUS
<1> QED
  BY <1>1, <1>3, <1>4

LEMMA OneLess == ASSUME NEW w \in Nat, NEW x \in Int, Multiple(x, w) PROVE Multiple(x - w, w)
<1>1. PICK i \in Int : x = i * w
  BY DEF Multiple
<1>2. x - w = (i - 1) * w
  BY <1>1
<1> QED
  BY <1>2 DEF Multiple

\* Truncate: the multiple of the window at a moment or just before it.
LEMMA StartOf ==
  ASSUME NEW l \in Limiters, NEW moment \in Nat
  PROVE  /\ Start(l, moment) \in Nat /\ Multiple(Start(l, moment), Window[l])
         /\ Start(l, moment) <= moment /\ moment < Start(l, moment) + Window[l]
<1> DEFINE w == Window[l]
           q == moment \div w
<1>1. w \in Nat \ {0}
  BY WindowAssumption
<1> HIDE DEF w
<1>2. q \in Nat /\ q * w <= moment /\ moment < q * w + w
  BY <1>1
<1>3. q * w \in Nat
  BY <1>1, <1>2
<1> QED
  BY <1>1, <1>2, <1>3 DEF Start, Multiple, w
\* A window begins at a multiple of its length, and has begun.
Begun(row) == Multiple(row[3], Window[row[1]]) /\ row[3] <= now

\* An attempt may still be of the window.
Reached(row) == row[3] + Window[row[1]] > now - Late

\* The attempt that opened the window, while it sweeps.
Opening(row) == IF \E a \in DOMAIN sweeping : sweeping[a] = row THEN 1 ELSE 0

WindowTyped ==
  /\ now \in Nat
  /\ DOMAIN rows \subseteq Rows /\ \A row \in DOMAIN rows : rows[row] \in Nat
  /\ DOMAIN passed \subseteq Rows /\ \A row \in DOMAIN passed : passed[row] \in Nat
  /\ \A a \in DOMAIN sweeping : sweeping[a] \in Rows
  /\ swept \in [Limiters -> Nat]

Aligned ==
  /\ \A row \in DOMAIN rows : Begun(row)
  /\ \A a \in DOMAIN sweeping : Begun(sweeping[a])
  /\ \A l \in Limiters : Multiple(swept[l], Window[l]) /\ swept[l] <= now

OneOpener == \A a, b \in DOMAIN sweeping : sweeping[a] = sweeping[b] => a = b

InBudget ==
  \A row \in Rows :
    /\ Count(passed, row) + Opening(row) <= Limit[row[1]]
    /\ Reached(row) => Count(passed, row) + Opening(row) <= Count(rows, row)

WindowInv == WindowTyped /\ Aligned /\ OneOpener /\ InBudget /\ PastForgotten

LEMMA RowFields ==
  ASSUME NEW row \in Rows
  PROVE  /\ row[1] \in Limiters /\ row[3] \in Int
         /\ Limit[row[1]] \in Nat \ {0} /\ Window[row[1]] \in Nat \ {0}
         /\ Late \in Nat /\ Late <= Window[row[1]]
<1>1. row[1] \in Limiters /\ row[3] \in Int
  BY DEF Rows
<1> QED
  BY <1>1, WindowAssumption

LEMMA MoreCounts ==
  ASSUME NEW f, NEW x
  PROVE  /\ DOMAIN More(f, x) = DOMAIN f \union {x}
         /\ More(f, x)[x] = Count(f, x) + 1
         /\ \A y \in DOMAIN f : y # x => More(f, x)[y] = f[y]
         /\ Count(More(f, x), x) = Count(f, x) + 1
         /\ \A y : y # x => Count(More(f, x), y) = Count(f, y)
BY DEF More, Count

LEMMA RestrictCounts ==
  ASSUME NEW f, NEW S \in SUBSET DOMAIN f
  PROVE  /\ DOMAIN Restrict(f, S) = S
         /\ \A y \in S : Restrict(f, S)[y] = f[y]
         /\ \A y : Count(Restrict(f, S), y) = IF y \in S THEN Count(f, y) ELSE 0
BY DEF Restrict, Count

LEMMA CountsAreNat ==
  ASSUME WindowTyped, NEW row
  PROVE  Count(rows, row) \in Nat /\ Count(passed, row) \in Nat /\ Opening(row) \in {0, 1}
BY DEF WindowTyped, Count, Opening

LEMMA WindowsInit == now = 0 /\ WindowInit => WindowInv
<1> SUFFICES ASSUME now = 0, WindowInit PROVE WindowInv
  OBVIOUS
<1>1. DOMAIN rows = {} /\ DOMAIN passed = {} /\ DOMAIN sweeping = {}
  BY DEF WindowInit
<1>2. WindowTyped /\ OneOpener /\ PastForgotten
  BY <1>1 DEF WindowInit, WindowTyped, OneOpener, PastForgotten
<1>3. Aligned
  <2>1. ASSUME NEW l \in Limiters PROVE Multiple(0, Window[l])
    <3>1. 0 = 0 * Window[l]
      BY WindowAssumption
    <3> QED
      BY <3>1 DEF Multiple
  <2> QED
    BY <1>1, <2>1 DEF WindowInit, Aligned
<1>4. InBudget
  BY <1>1, RowFields DEF InBudget, Count, Opening
<1> QED
  BY <1>2, <1>3, <1>4 DEF WindowInv

LEMMA WindowTickKeeps == ASSUME WindowInv, WindowTick PROVE WindowInv'
<1>1. now' = now + 1 /\ now \in Nat /\ UNCHANGED <<rows, sweeping, swept>>
  BY DEF WindowInv, WindowTyped, WindowTick, Passes
<1>2. PICK S \in SUBSET DOMAIN passed : passed' = Restrict(passed, S)
  BY DEF WindowTick
<1>3. WindowTyped'
  BY <1>1, <1>2, RestrictCounts DEF WindowInv, WindowTyped
<1>4. Aligned'
  <2>1. ASSUME NEW row, row[3] \in Int, Begun(row) PROVE Begun(row)'
    BY <1>1, <2>1 DEF Begun
  <2>2. \A row \in Rows : row[3] \in Int
    BY RowFields
  <2>3. \A l \in Limiters : swept[l] \in Nat
    BY DEF WindowInv, WindowTyped
  <2> QED
    BY <1>1, <2>1, <2>2, <2>3 DEF WindowInv, WindowTyped, Aligned
<1>5. OneOpener' /\ PastForgotten'
  BY <1>1 DEF WindowInv, OneOpener, PastForgotten
<1>6. InBudget'
  <2> SUFFICES ASSUME NEW row \in Rows
               PROVE  /\ Count(passed', row) + Opening(row)' <= Limit[row[1]]
                      /\ Reached(row)' => Count(passed', row) + Opening(row)' <= Count(rows', row)
    BY DEF InBudget
  <2>1. Count(passed', row) <= Count(passed, row) /\ Count(passed', row) \in Nat
    BY <1>2, RestrictCounts, CountsAreNat DEF WindowInv
  <2>2. Opening(row)' = Opening(row) /\ Count(rows', row) = Count(rows, row)
    BY <1>1 DEF Opening
  <2>3. Reached(row)' => Reached(row)
    BY <1>1, RowFields DEF Reached
  <2> QED
    BY <2>1, <2>2, <2>3, RowFields, CountsAreNat DEF WindowInv, InBudget
<1> QED
  BY <1>3, <1>4, <1>5, <1>6 DEF WindowInv

\* What is left of a window's count when nothing is counted in it.
LEMMA OtherRow ==
  ASSUME WindowInv, NEW row \in Rows, UNCHANGED now,
         Count(passed', row) = Count(passed, row), Opening(row)' = Opening(row),
         Reached(row) => Count(rows', row) = Count(rows, row)
  PROVE  /\ Count(passed', row) + Opening(row)' <= Limit[row[1]]
         /\ Reached(row)' => Count(passed', row) + Opening(row)' <= Count(rows', row)
BY DEF WindowInv, InBudget, Reached

LEMMA HitKeeps ==
  ASSUME WindowInv, NEW a \in Attempts, NEW l \in Limiters, NEW k \in Keys, Hit(a, l, k)
  PROVE  WindowInv'
<1>1. PICK behind \in 0 .. Late :
        LET row == <<l, k, Start(l, now - behind)>>
        IN /\ behind <= now
           /\ rows' = IF Count(rows, row) > Limit[l] THEN rows ELSE More(rows, row)
           /\ IF rows'[row] = 1
              THEN /\ sweeping' = [b \in DOMAIN sweeping \union {a} |->
                                     IF b = a THEN row ELSE sweeping[b]]
                   /\ UNCHANGED passed
              ELSE /\ passed' = IF rows'[row] > Limit[l] THEN passed ELSE More(passed, row)
                   /\ UNCHANGED sweeping
  BY DEF Hit
<1> DEFINE s == Start(l, now - behind)
           row == <<l, k, s>>
           n == Count(rows, row)
<1>2. a \notin DOMAIN sweeping /\ UNCHANGED <<now, swept>>
  BY DEF Hit
<1>3. now \in Nat /\ now - behind \in Nat /\ now - behind <= now /\ now - behind >= now - Late
  BY <1>1, WindowAssumption DEF WindowInv, WindowTyped
<1>4. s \in Nat /\ Multiple(s, Window[l]) /\ s <= now - behind /\ now - behind < s + Window[l]
  BY <1>3, StartOf
<1>5. row \in Rows /\ row[1] = l /\ row[3] = s
  BY <1>4 DEF Rows
<1>6. Window[l] \in Nat \ {0} /\ Limit[l] \in Nat \ {0} /\ Late \in Nat /\ Late <= Window[l]
  BY WindowAssumption
<1>7. Begun(row) /\ Reached(row) /\ s <= now
  BY <1>3, <1>4, <1>5, <1>6 DEF Begun, Reached
<1>8. n \in Nat /\ Count(passed, row) \in Nat /\ Opening(row) \in {0, 1}
      /\ Count(passed, row) + Opening(row) <= n
  BY <1>5, <1>7, CountsAreNat DEF WindowInv, InBudget
<1>9. /\ rows' = IF n > Limit[l] THEN rows ELSE More(rows, row)
      /\ IF rows'[row] = 1
         THEN /\ sweeping' = [b \in DOMAIN sweeping \union {a} |-> IF b = a THEN row ELSE sweeping[b]]
              /\ UNCHANGED passed
         ELSE /\ passed' = IF rows'[row] > Limit[l] THEN passed ELSE More(passed, row)
              /\ UNCHANGED sweeping
  BY <1>1
<1> HIDE DEF s, row
<1>10. n > Limit[l] => row \in DOMAIN rows /\ rows[row] = n
  BY <1>6 DEF Count
<1> HIDE DEF n
<1>11. /\ DOMAIN rows' \subseteq DOMAIN rows \union {row}
       /\ rows'[row] = (IF n > Limit[l] THEN n ELSE n + 1) /\ Count(rows', row) = rows'[row]
       /\ \A y \in DOMAIN rows : y # row => rows'[y] = rows[y]
       /\ \A y : y # row => Count(rows', y) = Count(rows, y)
  <2>1. CASE n > Limit[l]
    BY <1>9, <1>10, <2>1 DEF Count
  <2>2. CASE ~(n > Limit[l])
    <3>1. rows' = More(rows, row)
      BY <1>9, <2>2
    <3>2. /\ DOMAIN More(rows, row) = DOMAIN rows \union {row} /\ More(rows, row)[row] = n + 1
          /\ \A y \in DOMAIN rows : y # row => More(rows, row)[y] = rows[y]
          /\ Count(More(rows, row), row) = n + 1
          /\ \A y : y # row => Count(More(rows, row), y) = Count(rows, y)
      BY DEF More, Count, n
    <3> QED
      BY <2>2, <3>1, <3>2
  <2> QED
    BY <2>1, <2>2
<1>12. PastForgotten'
  <2>1. s >= swept[l] - Window[l]
    <3>1. swept[l] \in Nat /\ Multiple(swept[l], Window[l]) /\ swept[l] <= now
      BY DEF WindowInv, WindowTyped, Aligned
    <3>2. Multiple(swept[l] - Window[l], Window[l])
      BY <1>6, <3>1, OneLess
    <3>3. s < swept[l] - Window[l] => s + Window[l] <= swept[l] - Window[l]
      BY <1>4, <1>6, <3>1, <3>2, NextMultiple
    <3> QED
      BY <1>3, <1>4, <1>6, <3>1, <3>3
  <2> QED
    BY <1>2, <1>5, <1>11, <2>1 DEF WindowInv, PastForgotten
<1>13. CASE rows'[row] = 1
  <2>1. n = 0
    BY <1>6, <1>8, <1>11, <1>13
  <2>2. Count(passed, row) = 0 /\ Opening(row) = 0
    BY <1>8, <2>1
  <2>3. /\ DOMAIN sweeping' = DOMAIN sweeping \union {a} /\ sweeping'[a] = row
        /\ \A b \in DOMAIN sweeping : sweeping'[b] = sweeping[b]
        /\ passed' = passed
    BY <1>2, <1>9, <1>13
  <2>4. \A b \in DOMAIN sweeping : sweeping[b] # row
    BY <2>2 DEF Opening
  <2>5. WindowTyped'
    BY <1>2, <1>5, <1>11, <1>13, <2>3 DEF WindowInv, WindowTyped
  <2>6. Aligned'
    BY <1>2, <1>7, <1>11, <2>3 DEF WindowInv, Aligned, Begun
  <2>7. OneOpener'
    BY <2>3, <2>4 DEF WindowInv, OneOpener
  <2>8. InBudget'
    <3> SUFFICES ASSUME NEW y \in Rows
                 PROVE  /\ Count(passed', y) + Opening(y)' <= Limit[y[1]]
                        /\ Reached(y)' => Count(passed', y) + Opening(y)' <= Count(rows', y)
      BY DEF InBudget
    <3>1. CASE y = row
      <4>1. Opening(y)' = 1 /\ Count(passed', y) = 0 /\ Count(rows', y) = 1
        BY <1>11, <1>13, <2>2, <2>3, <3>1 DEF Opening
      <4> QED
        BY <1>5, <1>6, <3>1, <4>1
    <3>2. CASE y # row
      <4>1. Opening(y)' = Opening(y)
        BY <2>3, <3>2 DEF Opening
      <4> QED
        BY <1>2, <1>11, <2>3, <3>2, <4>1, OtherRow
    <3> QED
      BY <3>1, <3>2
  <2> QED
    BY <1>12, <2>5, <2>6, <2>7, <2>8 DEF WindowInv
<1>14. CASE rows'[row] # 1
  <2>1. sweeping' = sweeping /\ passed' = IF rows'[row] > Limit[l] THEN passed ELSE More(passed, row)
    BY <1>9, <1>14
  <2>2. /\ DOMAIN passed' \subseteq DOMAIN passed \union {row}
        /\ \A y \in DOMAIN passed : y # row => passed'[y] = passed[y]
        /\ \A y : y # row => Count(passed', y) = Count(passed, y)
        /\ Count(passed', row) = (IF rows'[row] > Limit[l] THEN 0 ELSE 1) + Count(passed, row)
        /\ row \in DOMAIN passed' => passed'[row] = Count(passed', row)
    <3>1. CASE rows'[row] > Limit[l]
      BY <1>8, <2>1, <3>1 DEF Count
    <3>2. CASE ~(rows'[row] > Limit[l])
      <4>1. passed' = More(passed, row)
        BY <2>1, <3>2
      <4>2. /\ DOMAIN More(passed, row) = DOMAIN passed \union {row}
            /\ More(passed, row)[row] = Count(passed, row) + 1
            /\ \A y \in DOMAIN passed : y # row => More(passed, row)[y] = passed[y]
            /\ Count(More(passed, row), row) = Count(passed, row) + 1
            /\ \A y : y # row => Count(More(passed, row), y) = Count(passed, y)
        BY DEF More, Count
      <4> QED
        BY <1>8, <3>2, <4>1, <4>2
    <3> QED
      BY <3>1, <3>2
  <2>3. WindowTyped'
    BY <1>2, <1>5, <1>8, <1>11, <2>1, <2>2 DEF WindowInv, WindowTyped
  <2>4. Aligned'
    BY <1>2, <1>7, <1>11, <2>1 DEF WindowInv, Aligned, Begun
  <2>5. InBudget'
    <3> SUFFICES ASSUME NEW y \in Rows
                 PROVE  /\ Count(passed', y) + Opening(y)' <= Limit[y[1]]
                        /\ Reached(y)' => Count(passed', y) + Opening(y)' <= Count(rows', y)
      BY DEF InBudget
    <3>1. Opening(y)' = Opening(y)
      BY <2>1 DEF Opening
    <3>2. CASE y = row
      <4>1. Count(passed, row) + Opening(row) <= Limit[l]
        BY <1>5 DEF WindowInv, InBudget
      <4> QED
        BY <1>5, <1>6, <1>8, <1>11, <2>2, <3>1, <3>2, <4>1
    <3>3. CASE y # row
      BY <1>2, <1>11, <2>2, <3>1, <3>3, OtherRow
    <3> QED
      BY <3>2, <3>3
  <2> QED
    BY <1>12, <2>1, <2>3, <2>4, <2>5 DEF WindowInv, OneOpener
<1> QED
  BY <1>13, <1>14

\* Whoever leaves takes its window off those being opened.
LEMMA LeftOpening ==
  ASSUME WindowInv, NEW a \in DOMAIN sweeping, NEW row, row = sweeping[a],
         sweeping' = Restrict(sweeping, DOMAIN sweeping \ {a})
  PROVE  /\ \A b \in DOMAIN sweeping' : b \in DOMAIN sweeping /\ b # a /\ sweeping'[b] = sweeping[b]
         /\ Opening(row) = 1 /\ Opening(row)' = 0
         /\ \A y : y # row => Opening(y)' = Opening(y)
<1>1. DOMAIN sweeping' = DOMAIN sweeping \ {a} /\ \A b \in DOMAIN sweeping' : sweeping'[b] = sweeping[b]
  BY RestrictCounts
<1>2. \A b \in DOMAIN sweeping : b # a => sweeping[b] # row
  BY DEF WindowInv, OneOpener
<1>3. Opening(row) = 1
  BY DEF Opening
<1>4. \A y : (\E b \in DOMAIN sweeping' : sweeping'[b] = y)
             <=> y # row /\ \E b \in DOMAIN sweeping : sweeping[b] = y
  BY <1>1, <1>2
<1>5. Opening(row)' = 0
  BY <1>4 DEF Opening
<1>6. ASSUME NEW y, y # row PROVE Opening(y)' = Opening(y)
  BY <1>4, <1>6 DEF Opening
<1> QED
  BY <1>1, <1>3, <1>5, <1>6

LEMMA SweepKeeps == ASSUME WindowInv, NEW a \in Attempts, Sweep(a) PROVE WindowInv'
<1>0. PICK row : row = sweeping[a]
  OBVIOUS
<1> DEFINE l == row[1]
           gone == {y \in DOMAIN rows : y[1] = l /\ y[3] < row[3] - Window[l]}
<1>1. /\ a \in DOMAIN sweeping /\ UNCHANGED now
      /\ rows' = Restrict(rows, DOMAIN rows \ gone)
      /\ passed' = More(passed, row)
      /\ swept' = [swept EXCEPT ![l] = IF row[3] > @ THEN row[3] ELSE @]
      /\ sweeping' = Restrict(sweeping, DOMAIN sweeping \ {a})
  BY <1>0 DEF Sweep, Passed
<1>2. row \in Rows /\ Begun(row)
  BY <1>0, <1>1 DEF WindowInv, WindowTyped, Aligned
<1>3. l \in Limiters /\ row[3] \in Int /\ row[3] <= now /\ Multiple(row[3], Window[l])
      /\ Window[l] \in Nat \ {0} /\ Late \in Nat /\ Late <= Window[l] /\ now \in Nat
  BY <1>2, RowFields DEF Begun, WindowInv, WindowTyped
<1>4. /\ \A b \in DOMAIN sweeping' : b \in DOMAIN sweeping /\ b # a /\ sweeping'[b] = sweeping[b]
      /\ Opening(row) = 1 /\ Opening(row)' = 0
      /\ \A y : y # row => Opening(y)' = Opening(y)
  BY <1>0, <1>1, LeftOpening
<1>5. swept[l] \in Nat /\ swept'[l] = (IF row[3] > swept[l] THEN row[3] ELSE swept[l])
      /\ \A m \in Limiters : m # l => swept'[m] = swept[m]
  BY <1>1, <1>3 DEF WindowInv, WindowTyped
<1>6. /\ DOMAIN rows' = DOMAIN rows \ gone /\ \A y \in DOMAIN rows' : rows'[y] = rows[y]
      /\ \A y : Count(rows', y) = IF y \in DOMAIN rows \ gone THEN Count(rows, y) ELSE 0
  BY <1>1, RestrictCounts
<1>7. \A y : y \in gone <=> y \in DOMAIN rows /\ y[1] = l /\ y[3] < row[3] - Window[l]
  OBVIOUS
<1> HIDE DEF l, gone
<1>8. /\ DOMAIN passed' = DOMAIN passed \union {row} /\ passed'[row] = Count(passed, row) + 1
      /\ \A y \in DOMAIN passed : y # row => passed'[y] = passed[y]
      /\ Count(passed', row) = Count(passed, row) + 1
      /\ \A y : y # row => Count(passed', y) = Count(passed, y)
  <2>1. /\ DOMAIN More(passed, row) = DOMAIN passed \union {row}
        /\ More(passed, row)[row] = Count(passed, row) + 1
        /\ \A y \in DOMAIN passed : y # row => More(passed, row)[y] = passed[y]
        /\ Count(More(passed, row), row) = Count(passed, row) + 1
        /\ \A y : y # row => Count(More(passed, row), y) = Count(passed, y)
    BY DEF More, Count
  <2> QED
    BY <1>1, <2>1
<1>9. WindowTyped'
  <2>1. swept' \in [Limiters -> Nat]
    BY <1>1, <1>3, <1>5 DEF WindowInv, WindowTyped
  <2>2. DOMAIN passed' \subseteq Rows /\ \A y \in DOMAIN passed' : passed'[y] \in Nat
    BY <1>2, <1>8, CountsAreNat DEF WindowInv, WindowTyped
  <2> QED
    BY <1>1, <1>4, <1>6, <2>1, <2>2 DEF WindowInv, WindowTyped
<1>10. Aligned'
  <2>1. \A y \in DOMAIN rows' : Begun(y)'
    BY <1>1, <1>6 DEF WindowInv, Aligned, Begun
  <2>2. \A b \in DOMAIN sweeping' : Begun(sweeping[b])'
    BY <1>1, <1>4 DEF WindowInv, Aligned, Begun
  <2>3. \A m \in Limiters : Multiple(swept'[m], Window[m]) /\ swept'[m] <= now'
    BY <1>1, <1>3, <1>5 DEF WindowInv, Aligned
  <2> QED
    BY <2>1, <2>2, <2>3 DEF Aligned
<1>11. OneOpener'
  BY <1>4 DEF WindowInv, OneOpener
<1>12. PastForgotten'
  <2> SUFFICES ASSUME NEW y \in DOMAIN rows' PROVE y[3] >= swept'[y[1]] - Window[y[1]]
    BY DEF PastForgotten
  <2>1. y \in DOMAIN rows /\ y \notin gone /\ y \in Rows
    BY <1>6 DEF WindowInv, WindowTyped
  <2>2. y[3] >= swept[y[1]] - Window[y[1]]
    BY <2>1 DEF WindowInv, PastForgotten
  <2>3. y[1] \in Limiters /\ y[3] \in Int
    BY <2>1, RowFields
  <2> QED
    BY <1>3, <1>5, <1>7, <2>1, <2>2, <2>3
<1>13. InBudget'
  <2> SUFFICES ASSUME NEW y \in Rows
               PROVE  /\ Count(passed', y) + Opening(y)' <= Limit[y[1]]
                      /\ Reached(y)' => Count(passed', y) + Opening(y)' <= Count(rows', y)
    BY DEF InBudget
  <2>1. Reached(y) => Count(rows', y) = Count(rows, y)
    <3> SUFFICES ASSUME Reached(y), y \in gone PROVE FALSE
      BY <1>6 DEF Count
    <3>1. y \in DOMAIN rows /\ y[1] = l /\ y[3] < row[3] - Window[l] /\ y[3] \in Int
      BY <1>7, RowFields
    <3>2. Multiple(y[3], Window[l])
      BY <3>1 DEF WindowInv, Aligned, Begun
    <3>3. y[3] + Window[l] <= row[3] - Window[l]
      BY <1>3, <3>1, <3>2, OneLess, NextMultiple
    <3> QED
      BY <1>3, <3>1, <3>3 DEF Reached
  <2>2. CASE y # row
    <3>1. Count(passed', y) = Count(passed, y)
      BY <1>8, <2>2
    <3> QED
      BY <1>1, <1>4, <2>1, <2>2, <3>1, OtherRow
  <2>3. CASE y = row
    <3>1. Count(passed', y) + Opening(y)' = Count(passed, y) + Opening(y)
      BY <1>4, <1>8, <2>3, CountsAreNat DEF WindowInv
    <3>2. Reached(y)' <=> Reached(y)
      BY <1>1 DEF Reached
    <3> QED
      BY <2>1, <3>1, <3>2 DEF WindowInv, InBudget
  <2> QED
    BY <2>2, <2>3
<1> QED
  BY <1>9, <1>10, <1>11, <1>12, <1>13 DEF WindowInv

LEMMA SweepFailsKeeps == ASSUME WindowInv, NEW a \in Attempts, SweepFails(a) PROVE WindowInv'
<1>0. PICK row : row = sweeping[a]
  OBVIOUS
<1>1. a \in DOMAIN sweeping /\ UNCHANGED <<now, rows, passed, swept>>
      /\ sweeping' = Restrict(sweeping, DOMAIN sweeping \ {a})
  BY DEF SweepFails
<1>2. /\ \A b \in DOMAIN sweeping' : b \in DOMAIN sweeping /\ b # a /\ sweeping'[b] = sweeping[b]
      /\ Opening(row) = 1 /\ Opening(row)' = 0
      /\ \A y : y # row => Opening(y)' = Opening(y)
  BY <1>0, <1>1, LeftOpening
<1>3. WindowTyped' /\ Aligned' /\ OneOpener' /\ PastForgotten'
  BY <1>1, <1>2 DEF WindowInv, WindowTyped, Aligned, Begun, OneOpener, PastForgotten
<1>4. InBudget'
  <2> SUFFICES ASSUME NEW y \in Rows
               PROVE  /\ Count(passed', y) + Opening(y)' <= Limit[y[1]]
                      /\ Reached(y)' => Count(passed', y) + Opening(y)' <= Count(rows', y)
    BY DEF InBudget
  <2>1. CASE y # row
    BY <1>1, <1>2, <2>1, OtherRow
  <2>2. CASE y = row
    <3>1. Count(passed, y) \in Nat /\ Count(rows, y) \in Nat /\ Limit[y[1]] \in Nat
      BY CountsAreNat, RowFields DEF WindowInv
    <3>2. Reached(y)' <=> Reached(y)
      BY <1>1 DEF Reached
    <3>3. /\ Count(passed, y) + 1 <= Limit[y[1]]
          /\ Reached(y) => Count(passed, y) + 1 <= Count(rows, y)
      BY <1>2, <2>2 DEF WindowInv, InBudget
    <3>4. Opening(y)' = 0 /\ Count(passed', y) = Count(passed, y) /\ Count(rows', y) = Count(rows, y)
      BY <1>1, <1>2, <2>2
    <3> QED
      BY <3>1, <3>2, <3>3, <3>4
  <2> QED
    BY <2>1, <2>2
<1> QED
  BY <1>3, <1>4 DEF WindowInv

\* A window lets through no more than its limit, and the table keeps no row of
\* a window that had passed by one when another swept: Allow of database.go,
\* for any limits, windows and clocks that differ by no more than a window.
THEOREM LimitsAlwaysHold == WindowSpec => []LimitsHold
<1> DEFINE all == <<now, windowVars>>
<1>1. ASSUME WindowInv, [WindowNext]_all PROVE WindowInv'
  <2>1. CASE UNCHANGED all
    BY <1>1, <2>1 DEF windowVars, WindowInv, WindowTyped, Aligned, Begun, OneOpener, InBudget, Reached, Opening, PastForgotten
  <2> QED
    BY <1>1, <2>1, WindowTickKeeps, HitKeeps, SweepKeeps, SweepFailsKeeps DEF WindowNext
<1>2. WindowInv => LimitsHold
  <2> SUFFICES ASSUME WindowInv, NEW row \in DOMAIN passed PROVE passed[row] <= Limit[row[1]]
    BY DEF WindowInv, LimitsHold, WithinLimit
  <2>1. row \in Rows /\ passed[row] = Count(passed, row)
    BY DEF WindowInv, WindowTyped, Count
  <2> QED
    BY <2>1, CountsAreNat, RowFields DEF WindowInv, InBudget
<1> HIDE DEF all
<1> QED
  BY <1>1, <1>2, WindowsInit, PTL DEF WindowSpec, all
-----------------------------------------------------------------------------
(* The lease a job runs under.  While nobody has been late whoever works   *)
(* holds it; and a run that is not late, alone with its holder's name,     *)
(* holds it whatever the runs before it do.                                *)
Active(r) == run[r] # "idle"
Holds(r)  == lease.state = "held" /\ lease.by = r

-----------------------------------------------------------------------------
(* Types. *)

LEMMA LeaseTypedInit == Init => TypeOK
BY DEF Init, TypeOK, Lease

LEMMA LeaseTypedNext == TypeOK /\ [Next]_vars => TypeOK'
<1> SUFFICES ASSUME TypeOK, [Next]_vars PROVE TypeOK'
  OBVIOUS
<1> USE DEF TypeOK, Lease, Holder
<1>1. CASE LeaseEnds
  BY <1>1 DEF LeaseEnds
<1>2. ASSUME NEW r \in Run, Take(r) PROVE TypeOK'
  BY <1>2 DEF Take
<1>3. ASSUME NEW r \in Run, TakeUnanswered(r) PROVE TypeOK'
  BY <1>3 DEF TakeUnanswered
<1>4. ASSUME NEW r \in Run, Finish(r) PROVE TypeOK'
  BY <1>4 DEF Finish
<1>5. ASSUME NEW r \in Run, Cancel(r) PROVE TypeOK'
  BY <1>5 DEF Cancel
<1>6. ASSUME NEW r \in Run, Release(r) PROVE TypeOK'
  BY <1>6 DEF Release, Returned
<1>7. ASSUME NEW r \in Run, ReleaseCancelled(r) PROVE TypeOK'
  BY <1>7 DEF ReleaseCancelled, Returned
<1>8. ASSUME NEW r \in Run, Gone(r) PROVE TypeOK'
  BY <1>8 DEF Gone, Abandoned, Returned
<1>9. CASE UNCHANGED vars
  BY <1>9 DEF vars
<1> QED
  BY <1>1, <1>2, <1>3, <1>4, <1>5, <1>6, <1>7, <1>8, <1>9 DEF Next

(* The row and every call stay within their types. *)
THEOREM LeaseTyped == Spec => []TypeOK
<1>1. Init => TypeOK
  BY LeaseTypedInit
<1>2. TypeOK /\ [Next]_vars => TypeOK'
  BY LeaseTypedNext
<1> QED
  BY <1>1, <1>2, PTL DEF Spec

-----------------------------------------------------------------------------
(* While nobody has been late, whoever is in Run holds the lease. Alone the *)
(* property is not inductive: it does not say that the lease is still held. *)
WhileOnTime == onTime => late = {} /\ \A r \in Run : Active(r) => Holds(r)

LEMMA OnTimeNext == TypeOK /\ WhileOnTime /\ [Next]_vars => WhileOnTime'
<1> SUFFICES ASSUME TypeOK, WhileOnTime, [Next]_vars, onTime' PROVE WhileOnTime'
  BY DEF WhileOnTime
<1>0. onTime
  BY DEF Next, LeaseEnds, Take, TakeUnanswered, Finish, Cancel, Release, ReleaseCancelled, Gone, vars
<1>a. late = {} /\ \A r \in Run : Active(r) => Holds(r)
  BY <1>0 DEF WhileOnTime
<1> USE DEF WhileOnTime, Active, Holds, TypeOK, Lease
<1>1. CASE LeaseEnds
  <2>1. {r \in Run : lease.by = r} = {}
    BY <1>1, <1>a DEF LeaseEnds
  <2>2. \A r \in Run : ~Active(r)
    BY <2>1, <1>a
  <2> QED
    BY <1>1, <2>1, <2>2, <1>a DEF LeaseEnds
<1>2. ASSUME NEW r \in Run, Take(r) PROVE WhileOnTime'
  BY <1>2, <1>a DEF Take
<1>3. ASSUME NEW r \in Run, TakeUnanswered(r) PROVE WhileOnTime'
  BY <1>3, <1>a DEF TakeUnanswered
<1>4. ASSUME NEW r \in Run, Finish(r) PROVE WhileOnTime'
  BY <1>4, <1>a DEF Finish, Working
<1>5. ASSUME NEW r \in Run, Cancel(r) PROVE WhileOnTime'
  BY <1>5, <1>a DEF Cancel
<1>6. ASSUME NEW r \in Run, Release(r) PROVE WhileOnTime'
  BY <1>6, <1>a DEF Release, Returned
<1>7. ASSUME NEW r \in Run, ReleaseCancelled(r) PROVE WhileOnTime'
  BY <1>7, <1>a DEF ReleaseCancelled, Returned
<1>8. ASSUME NEW r \in Run, Gone(r) PROVE WhileOnTime'
  BY <1>8, <1>a DEF Gone, Abandoned, Returned
<1>9. CASE UNCHANGED vars
  BY <1>9, <1>a DEF vars
<1> QED
  BY <1>1, <1>2, <1>3, <1>4, <1>5, <1>6, <1>7, <1>8, <1>9 DEF Next

(* As long as no run has outlived its lease, no two work at once, whatever  *)
(* holders they write: the conditional upsert of take.                      *)
THEOREM NoOverlapOnTime == Spec => []AloneWhileOnTime
<1>1. Init => WhileOnTime
  BY DEF Init, WhileOnTime, Active
<1>2. TypeOK /\ WhileOnTime /\ [Next]_vars => WhileOnTime'
  BY OnTimeNext
<1>3. WhileOnTime => AloneWhileOnTime
  BY DEF WhileOnTime, AloneWhileOnTime, Active, Holds, Working
<1> QED
  BY <1>1, <1>2, <1>3, LeaseTyped, PTL DEF Spec

-----------------------------------------------------------------------------
(* Whoever is in Run, not late, and alone with its holder holds the lease,  *)
(* and the row names the holder of whoever took it.                         *)
Protected ==
  /\ \A r \in Run : Own(r) /\ Active(r) /\ r \notin late => Holds(r)
  /\ \A r \in Run : lease.by = r => lease.holder = HolderOf[r]

LEMMA ProtectedNext == TypeOK /\ Protected /\ [Next]_vars => Protected'
<1> SUFFICES ASSUME TypeOK, Protected, [Next]_vars PROVE Protected'
  OBVIOUS
<1> USE NoneAssumption DEF Protected, Active, Holds, TypeOK, Lease
<1>1. CASE LeaseEnds
  BY <1>1 DEF LeaseEnds
<1>2. ASSUME NEW r \in Run, Take(r) PROVE Protected'
  BY <1>2 DEF Take
<1>3. ASSUME NEW r \in Run, TakeUnanswered(r) PROVE Protected'
  BY <1>3 DEF TakeUnanswered
<1>4. ASSUME NEW r \in Run, Finish(r) PROVE Protected'
  BY <1>4 DEF Finish, Working
<1>5. ASSUME NEW r \in Run, Cancel(r) PROVE Protected'
  BY <1>5 DEF Cancel
<1>6. ASSUME NEW r \in Run, Release(r) PROVE Protected'
  <2>1. ASSUME NEW q \in Run, Own(q), Active(q)', q \notin late' PROVE Holds(q)'
    <3>1. q # r /\ Active(q) /\ q \notin late
      BY <1>6, <2>1 DEF Release, Returned
    <3>2. lease.by = q /\ lease.holder = HolderOf[q] /\ lease.holder # HolderOf[r]
      BY <2>1, <3>1 DEF Own
    <3>3. lease' = lease
      BY <1>6, <3>2 DEF Release
    <3> QED
      BY <2>1, <3>1, <3>3
  <2>2. \A q \in Run : lease'.by = q => lease'.holder = HolderOf[q]
    BY <1>6 DEF Release
  <2> QED
    BY <2>1, <2>2
<1>7. ASSUME NEW r \in Run, ReleaseCancelled(r) PROVE Protected'
  BY <1>7 DEF ReleaseCancelled, Returned
<1>8. ASSUME NEW r \in Run, Gone(r) PROVE Protected'
  BY <1>8 DEF Gone, Abandoned, Returned
<1>9. CASE UNCHANGED vars
  BY <1>9 DEF vars
<1> QED
  BY <1>1, <1>2, <1>3, <1>4, <1>5, <1>6, <1>7, <1>8, <1>9 DEF Next

(* A run that is not late, and whose holder no other call writes, keeps its *)
(* lease whatever the runs before it do.                                    *)
THEOREM LeaseKept == Spec => []LeaseProtects
<1>1. Init => Protected
  BY NoneAssumption DEF Init, Protected, Active
<1>2. TypeOK /\ Protected /\ [Next]_vars => Protected'
  BY ProtectedNext
<1>3. Protected => LeaseProtects
  BY DEF Protected, LeaseProtects, Active, Holds, Working
<1> QED
  BY <1>1, <1>2, <1>3, LeaseTyped, PTL DEF Spec
=============================================================================
