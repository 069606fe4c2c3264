---------------------------- MODULE RateLimiterProofs --------------------------
(***************************************************************************)
(* Proofs about RateLimiter, for any number of clients and of requests in  *)
(* progress, any rate, burst and staleness.                                *)
(*                                                                         *)
(* A request that is still to come has a time of at least clock - MaxWait. *)
(* So a bucket is worth what it would hold at that time (Worth), counted   *)
(* from the later of that time and its own (Since).  An evicted bucket is  *)
(* worth the same as the full one its client gets back, which is why       *)
(* eviction grants nothing.                                                *)
(***************************************************************************)
EXTENDS RateLimiter, TLAPS

(* The earliest time a request can still have. *)
Floor == clock - MaxWait

Since(b, floor) == IF b # NoBucket /\ b.last > floor THEN b.last ELSE floor

Worth(b, floor) ==
    IF b = NoBucket THEN Max
    ELSE IF b.last >= floor THEN b.tokens
    ELSE IF b.tokens + (floor - b.last) > Max THEN Max
    ELSE b.tokens + (floor - b.last)

(* No clock value of the limiter is ahead of the clock, no request is late. *)
TimesInOrder ==
    /\ lastEviction <= clock
    /\ \A k \in Keys : bucket[k].last <= clock
    /\ \A c \in Clients : req[c] # Idle => req[c].now <= clock /\ Floor <= req[c].now

(* What was granted and what a bucket is worth: a burst and the time. *)
Budget ==
    EvictionIsLate =>
        \A k \in Keys :
            spent[k] + Worth(bucket[k], Floor) <= Max + (Since(bucket[k], Floor) - (from - MaxWait))

IInv == TypeOK /\ TimesInOrder /\ Budget /\ StaleBucketsGo

--------------------------------------------------------------------------------
(* Buckets *)

LEMMA MaxNat == Max \in Nat
  <1>1. \A m, n \in Nat : m * n \in Nat
    OBVIOUS
  <1> QED BY <1>1, RateAssumption DEF Max

(* What a request finds: a bucket no older than the request and than before, *)
(* holding no more than it was worth and the time since.                     *)
LEMMA FoundBucket ==
  ASSUME NEW b \in Bucket \cup {NoBucket}, NEW now \in 0 .. MaxClock,
         NEW floor \in Int, floor <= now
  PROVE  /\ Found(b, now) \in Bucket
         /\ Found(b, now).last >= now
         /\ b # NoBucket => Found(b, now).last >= b.last
         /\ Found(b, now).last = now \/ (b # NoBucket /\ Found(b, now).last = b.last)
         /\ Found(b, now).tokens <= Worth(b, floor) + (Found(b, now).last - Since(b, floor))
  <1> USE RateAssumption, MaxNat
  <1>1. CASE b = NoBucket
    <2>1. Found(b, now) = [tokens |-> Max, last |-> now]
      BY <1>1 DEF Found
    <2>2. Worth(b, floor) = Max /\ Since(b, floor) = floor
      BY <1>1 DEF Worth, Since
    <2> QED BY <1>1, <2>1, <2>2 DEF Bucket
  <1>2. CASE b # NoBucket
    <2>1. b \in Bucket /\ b.tokens \in 0 .. Max /\ b.last \in 0 .. MaxClock
      BY <1>2 DEF Bucket
    <2>2. Found(b, now) = Refilled(b, now)
      BY <1>2 DEF Found
    <2>3. CASE now > b.last
      BY <1>2, <2>1, <2>2, <2>3 DEF Refilled, Bucket, Worth, Since
    <2>4. CASE ~(now > b.last)
      BY <1>2, <2>1, <2>2, <2>4 DEF Refilled, Bucket, Worth, Since
    <2> QED BY <2>3, <2>4
  <1> QED BY <1>1, <1>2

(* A bucket is worth at most a unit more when a unit of time has passed. *)
LEMMA WorthOfTime ==
  ASSUME NEW b \in Bucket \cup {NoBucket}, NEW floor \in Int
  PROVE  Worth(b, floor + 1) - Since(b, floor + 1) <= Worth(b, floor) - Since(b, floor)
  <1> USE RateAssumption, MaxNat
  <1>1. CASE b = NoBucket
    BY <1>1 DEF Worth, Since
  <1>2. CASE b # NoBucket
    <2>1. b.tokens \in 0 .. Max /\ b.last \in 0 .. MaxClock
      BY <1>2 DEF Bucket
    <2> QED BY <1>2, <2>1 DEF Worth, Since
  <1> QED BY <1>1, <1>2

(* A bucket that may be evicted is full by any time still to come. *)
LEMMA EvictedWasFull ==
  ASSUME NEW b \in Bucket, NEW now \in Int, NEW floor \in Int,
         EvictionIsLate, now <= floor + MaxWait, now - b.last > StaleAfter
  PROVE  Worth(b, floor) = Worth(NoBucket, floor) /\ Since(b, floor) = Since(NoBucket, floor)
  <1> USE RateAssumption, MaxNat
  <1>1. b.tokens \in 0 .. Max /\ b.last \in 0 .. MaxClock
    BY DEF Bucket
  <1>2. b # NoBucket
    BY <1>1 DEF NoBucket
  <1>3. b.last + Max < floor
    BY <1>1 DEF EvictionIsLate
  <1> QED BY <1>1, <1>2, <1>3 DEF Worth, Since

LEMMA WorthTyped ==
  ASSUME NEW b \in Bucket \cup {NoBucket}, NEW floor \in Int
  PROVE  Worth(b, floor) \in 0 .. Max /\ Since(b, floor) \in Int
  <1> USE RateAssumption, MaxNat
  <1>1. CASE b = NoBucket
    BY <1>1 DEF Worth, Since
  <1>2. CASE b # NoBucket
    <2>1. b.tokens \in 0 .. Max /\ b.last \in 0 .. MaxClock
      BY <1>2 DEF Bucket
    <2> QED BY <1>2, <2>1 DEF Worth, Since
  <1> QED BY <1>1, <1>2

--------------------------------------------------------------------------------
(* The actions *)

(* Allow, for a request of k made at now; what is evicted, and the result. *)
AllowParts(c, k, now) ==
    /\ Floor <= now /\ now <= clock
    /\ Evicted(now) \in [Keys -> Bucket \cup {NoBucket}]
    /\ \A j \in Keys : \/ Evicted(now)[j] = bucket[j]
                       \/ /\ Evicted(now)[j] = NoBucket
                          /\ bucket[j] \in Bucket
                          /\ now - bucket[j].last > StaleAfter
    /\ Due(now) => \A j \in Keys : Evicted(now)[j] # NoBucket =>
                                       now - Evicted(now)[j].last <= StaleAfter
    /\ ~Due(now) => Evicted(now) = bucket
    /\ bucket' = [Evicted(now) EXCEPT ![k] = Taken(Found(Evicted(now)[k], now))]
    /\ spent' = [spent EXCEPT ![k] =
                   IF Granted(Found(Evicted(now)[k], now)) THEN @ + Cost ELSE @]
    /\ lastEviction' = (IF Due(now) THEN now ELSE lastEviction)
    /\ req' = [req EXCEPT ![c] = Idle]
    /\ UNCHANGED <<clock, from>>

LEMMA AllowSteps ==
  ASSUME IInv, NEW c \in Clients, Allow(c)
  PROVE  \E k \in Keys, now \in 0 .. MaxClock : AllowParts(c, k, now)
  <1> DEFINE now == req[c].now
             k   == req[c].key
  <1>1. req[c] \in Request
    BY DEF IInv, TypeOK, Allow
  <1>2. k \in Keys /\ now \in 0 .. MaxClock
    BY <1>1 DEF Request
  <1>3. Floor <= now /\ now <= clock
    BY DEF IInv, TimesInOrder, Allow
  <1>4. Evicted(now) \in [Keys -> Bucket \cup {NoBucket}]
    BY DEF Evicted, Kept, IInv, TypeOK
  <1>5. \A j \in Keys : \/ Evicted(now)[j] = bucket[j]
                        \/ /\ Evicted(now)[j] = NoBucket
                           /\ bucket[j] \in Bucket
                           /\ now - bucket[j].last > StaleAfter
    BY DEF Evicted, Kept, Has, IInv, TypeOK
  <1>6. ASSUME Due(now), NEW j \in Keys, Evicted(now)[j] # NoBucket
        PROVE  now - Evicted(now)[j].last <= StaleAfter
    <2>1. bucket[j] \in Bucket \cup {NoBucket}
      BY DEF IInv, TypeOK
    <2>2. Evicted(now)[j] = bucket[j] /\ ~(Has(j) /\ now - bucket[j].last > StaleAfter)
      BY <1>6 DEF Evicted, Kept
    <2>3. Has(j) /\ bucket[j].last \in Int
      BY <1>6, <2>1, <2>2 DEF Has, Bucket
    <2> QED BY <1>2, <2>2, <2>3, RateAssumption
  <1>7. ~Due(now) => Evicted(now) = bucket
    BY DEF Evicted
  <1>8. /\ bucket' = [Evicted(now) EXCEPT ![k] = Taken(Found(Evicted(now)[k], now))]
        /\ spent' = [spent EXCEPT ![k] =
                       IF Granted(Found(Evicted(now)[k], now)) THEN @ + Cost ELSE @]
        /\ req' = [req EXCEPT ![c] = Idle]
        /\ UNCHANGED <<clock, from>>
        /\ lastEviction' = (IF Due(now) THEN now ELSE lastEviction)
    BY DEF Allow
  <1> HIDE DEF now, k
  <1>9. AllowParts(c, k, now)
    BY <1>3, <1>4, <1>5, <1>6, <1>7, <1>8 DEF AllowParts
  <1> QED BY <1>2, <1>9

LEMMA InitInv == Init => IInv
  <1> SUFFICES ASSUME Init PROVE IInv
    OBVIOUS
  <1> USE RateAssumption, MaxNat
  <1>1. TypeOK
    BY DEF Init, TypeOK, NoBucket
  <1>2. TimesInOrder
    BY DEF Init, TimesInOrder, NoBucket
  <1>3. Budget
    <2>1. Floor = -MaxWait /\ from = 0
      BY DEF Init, Floor
    <2>2. ASSUME NEW k \in Keys
          PROVE  spent[k] = 0 /\ bucket[k] = NoBucket
      BY DEF Init
    <2>3. Worth(NoBucket, Floor) = Max /\ Since(NoBucket, Floor) = Floor
      BY DEF Worth, Since
    <2>4. 0 + Max <= Max + (-MaxWait - (0 - MaxWait))
      OBVIOUS
    <2> QED BY <2>1, <2>2, <2>3, <2>4 DEF Budget
  <1>4. StaleBucketsGo
    BY DEF Init, StaleBucketsGo, Has
  <1> QED BY <1>1, <1>2, <1>3, <1>4 DEF IInv

LEMMA ReadClockInv ==
  ASSUME IInv, NEW c \in Clients, NEW k \in Keys, ReadClock(c, k)
  PROVE  IInv'
  <1> USE RateAssumption, MaxNat
  <1>1. TypeOK'
    BY DEF IInv, TypeOK, ReadClock, Request
  <1>2. TimesInOrder'
    BY DEF IInv, TypeOK, TimesInOrder, ReadClock, Floor
  <1>3. Budget'
    BY DEF IInv, Budget, ReadClock, Floor, EvictionIsLate
  <1>4. StaleBucketsGo'
    BY DEF IInv, StaleBucketsGo, ReadClock, Has
  <1> QED BY <1>1, <1>2, <1>3, <1>4 DEF IInv

LEMMA ObserveInv ==
  ASSUME IInv, Observe
  PROVE  IInv'
  <1> USE RateAssumption, MaxNat
  <1>1. TypeOK'
    BY DEF IInv, TypeOK, Observe
  <1>2. TimesInOrder'
    BY DEF IInv, TimesInOrder, Observe, Floor
  <1>3. Budget'
    <2>1. ASSUME NEW k \in Keys
          PROVE  0 + Worth(bucket[k], Floor) <= Max + (Since(bucket[k], Floor) - (clock - MaxWait))
      <3>1. bucket[k] \in Bucket \cup {NoBucket} /\ Floor \in Int /\ clock \in Int
        BY DEF IInv, TypeOK, Floor
      <3>2. Worth(bucket[k], Floor) \in 0 .. Max /\ Since(bucket[k], Floor) \in Int
        BY <3>1, WorthTyped
      <3>3. Since(bucket[k], Floor) >= Floor
        BY <3>1 DEF Since, Bucket, NoBucket
      <3> QED BY <3>1, <3>2, <3>3 DEF Floor
    <2> QED BY <2>1 DEF Budget, Observe, Floor, EvictionIsLate
  <1>4. StaleBucketsGo'
    BY DEF IInv, StaleBucketsGo, Observe, Has
  <1> QED BY <1>1, <1>2, <1>3, <1>4 DEF IInv

LEMMA TickInv ==
  ASSUME IInv, Tick
  PROVE  IInv'
  <1> USE RateAssumption, MaxNat
  <1>1. TypeOK'
    BY DEF IInv, TypeOK, Tick
  <1>2. TimesInOrder'
    <2>1. lastEviction' <= clock' /\ \A k \in Keys : bucket'[k].last <= clock'
      <3>1. \A k \in Keys : bucket[k].last \in Int
        BY DEF IInv, TypeOK, Bucket, NoBucket
      <3> QED BY <3>1 DEF IInv, TypeOK, TimesInOrder, Tick
    <2>2. ASSUME NEW c \in Clients, req'[c] # Idle
          PROVE  req'[c].now <= clock' /\ Floor' <= req'[c].now
      <3>1. req[c].now \in Int /\ clock \in Int
        BY <2>2 DEF IInv, TypeOK, Tick, Request
      <3> QED BY <2>2, <3>1 DEF IInv, TimesInOrder, Tick, Floor
    <2> QED BY <2>1, <2>2 DEF TimesInOrder
  <1>3. Budget'
    <2>1. ASSUME EvictionIsLate, NEW k \in Keys
          PROVE  spent[k] + Worth(bucket[k], Floor + 1)
                   <= Max + (Since(bucket[k], Floor + 1) - (from - MaxWait))
      <3>1. bucket[k] \in Bucket \cup {NoBucket} /\ Floor \in Int
            /\ from \in Int /\ spent[k] \in Nat
        BY DEF IInv, TypeOK, Floor
      <3>2. \A f \in Int : Worth(bucket[k], f) \in Int /\ Since(bucket[k], f) \in Int
        BY <3>1, WorthTyped
      <3>3. Worth(bucket[k], Floor + 1) - Since(bucket[k], Floor + 1)
              <= Worth(bucket[k], Floor) - Since(bucket[k], Floor)
        BY <3>1, WorthOfTime
      <3>4. spent[k] + Worth(bucket[k], Floor) <= Max + (Since(bucket[k], Floor) - (from - MaxWait))
        BY <2>1 DEF IInv, Budget
      <3> QED BY <3>1, <3>2, <3>3, <3>4
    <2>2. Floor' = Floor + 1
      BY DEF Floor, Tick, IInv, TypeOK
    <2> QED BY <2>1, <2>2 DEF Budget, Tick, EvictionIsLate
  <1>4. StaleBucketsGo'
    BY DEF IInv, StaleBucketsGo, Tick, Has
  <1> QED BY <1>1, <1>2, <1>3, <1>4 DEF IInv

(* What a request does to its own bucket, in terms of what it is worth. *)
LEMMA TakenBucket ==
  ASSUME NEW b \in Bucket \cup {NoBucket}, NEW now \in 0 .. MaxClock,
         NEW floor \in Int, floor <= now
  PROVE  LET f == Found(b, now)
             t == Taken(f)
         IN  /\ t \in Bucket /\ t.last = f.last /\ t # NoBucket
             /\ (IF Granted(f) THEN Cost ELSE 0) + Worth(t, floor)
                  <= Worth(b, floor) + (Since(t, floor) - Since(b, floor))
  <1> DEFINE f == Found(b, now)
             t == Taken(f)
  <1> USE RateAssumption, MaxNat
  <1>1. /\ f \in Bucket /\ f.last >= now
        /\ f.tokens <= Worth(b, floor) + (f.last - Since(b, floor))
    BY FoundBucket
  <1> HIDE DEF f
  <1>2. f.tokens \in 0 .. Max /\ f.last \in 0 .. MaxClock
    BY <1>1 DEF Bucket
  <1>3. t \in Bucket /\ t.last = f.last
        /\ t.tokens = f.tokens - (IF Granted(f) THEN Cost ELSE 0)
    BY <1>1, <1>2 DEF Taken, Granted, Bucket
  <1> HIDE DEF t
  <1>4. t # NoBucket /\ t.last >= floor
    BY <1>1, <1>2, <1>3 DEF NoBucket
  <1>5. Worth(t, floor) = t.tokens /\ Since(t, floor) = f.last
    BY <1>2, <1>3, <1>4 DEF Worth, Since
  <1>6. Worth(b, floor) \in Int /\ Since(b, floor) \in Int
    BY WorthTyped
  <1>7. (IF Granted(f) THEN Cost ELSE 0) + Worth(t, floor)
          <= Worth(b, floor) + (Since(t, floor) - Since(b, floor))
    BY <1>1, <1>2, <1>3, <1>5, <1>6
  <1> QED BY <1>3, <1>4, <1>7 DEF f, t

LEMMA AllowInv ==
  ASSUME IInv, NEW c \in Clients, Allow(c)
  PROVE  IInv'
  <1> USE RateAssumption, MaxNat
  <1>1. PICK k \in Keys, now \in 0 .. MaxClock : AllowParts(c, k, now)
    BY AllowSteps
  <1> DEFINE old(j) == Evicted(now)[j]
             f == Found(old(k), now)
             t == Taken(f)
  <1>2. /\ Floor \in Int /\ Floor <= now /\ now <= clock
        /\ clock \in 0 .. MaxClock /\ clock' = clock /\ from' = from /\ Floor' = Floor
        /\ from \in 0 .. clock /\ lastEviction \in Int
    BY <1>1 DEF AllowParts, IInv, TypeOK, Floor
  <1>3. \A j \in Keys : bucket[j] \in Bucket \cup {NoBucket} /\ old(j) \in Bucket \cup {NoBucket}
    BY <1>1 DEF AllowParts, IInv, TypeOK
  <1>4. /\ f.last >= now
        /\ old(k) # NoBucket => f.last >= old(k).last
        /\ f.last = now \/ (old(k) # NoBucket /\ f.last = old(k).last)
    BY <1>2, <1>3, FoundBucket
  <1>5. /\ t \in Bucket /\ t.last = f.last /\ t # NoBucket
        /\ (IF Granted(f) THEN Cost ELSE 0) + Worth(t, Floor)
             <= Worth(old(k), Floor) + (Since(t, Floor) - Since(old(k), Floor))
    BY <1>2, <1>3, TakenBucket
  <1>6. bucket'[k] = t /\ \A j \in Keys \ {k} : bucket'[j] = old(j)
    BY <1>1 DEF AllowParts
  <1>7. \A j \in Keys : old(j) = bucket[j] \/ old(j) = NoBucket
    BY <1>1 DEF AllowParts
  <1>8. \A j \in Keys : old(j).last <= clock
    BY <1>2, <1>7 DEF IInv, TimesInOrder, NoBucket
  <1>9. TypeOK'
    <2>1. bucket' \in [Keys -> Bucket \cup {NoBucket}]
      BY <1>1, <1>3, <1>5 DEF AllowParts
    <2>2. lastEviction' \in Int
      BY <1>1, <1>2 DEF AllowParts
    <2>3. spent' \in [Keys -> Nat]
      BY <1>1 DEF AllowParts, IInv, TypeOK
    <2>4. req' \in [Clients -> Request \cup {Idle}]
      BY <1>1 DEF AllowParts, IInv, TypeOK
    <2> QED BY <1>2, <2>1, <2>2, <2>3, <2>4 DEF TypeOK
  <1>10. TimesInOrder'
    <2>1. lastEviction' <= clock'
      BY <1>1, <1>2 DEF AllowParts, IInv, TimesInOrder
    <2>2. \A j \in Keys : bucket'[j].last <= clock'
      BY <1>2, <1>4, <1>5, <1>6, <1>8
    <2>3. \A d \in Clients : req'[d] # Idle => req'[d].now <= clock' /\ Floor' <= req'[d].now
      BY <1>1, <1>2 DEF AllowParts, IInv, TypeOK, TimesInOrder
    <2> QED BY <2>1, <2>2, <2>3 DEF TimesInOrder
  <1>11. Budget'
    <2>1. SUFFICES ASSUME EvictionIsLate, NEW j \in Keys
                   PROVE  spent'[j] + Worth(bucket'[j], Floor)
                            <= Max + (Since(bucket'[j], Floor) - (from - MaxWait))
      BY <1>2 DEF Budget, EvictionIsLate
    <2>2. /\ spent[j] \in Nat
          /\ Worth(old(j), Floor) \in Int /\ Since(old(j), Floor) \in Int
          /\ Worth(t, Floor) \in Int /\ Since(t, Floor) \in Int
      <3>1. spent[j] \in Nat
        BY DEF IInv, TypeOK
      <3>2. \A b \in Bucket \cup {NoBucket} : Worth(b, Floor) \in Int /\ Since(b, Floor) \in Int
        BY <1>2, WorthTyped
      <3> QED BY <3>1, <3>2, <1>3, <1>5
    <2>3. Worth(old(j), Floor) = Worth(bucket[j], Floor) /\ Since(old(j), Floor) = Since(bucket[j], Floor)
      <3>1. CASE old(j) = bucket[j]
        BY <3>1
      <3>2. CASE old(j) # bucket[j]
        <4>1. old(j) = NoBucket /\ bucket[j] \in Bucket /\ now - bucket[j].last > StaleAfter
          BY <1>1, <3>2 DEF AllowParts
        <4>2. now <= Floor + MaxWait
          BY <1>2 DEF Floor
        <4> QED BY <1>2, <2>1, <4>1, <4>2, EvictedWasFull
      <3> QED BY <3>1, <3>2
    <2>4. spent[j] + Worth(old(j), Floor) <= Max + (Since(old(j), Floor) - (from - MaxWait))
      BY <2>1, <2>3 DEF IInv, Budget
    <2>5. CASE j = k
      <3>1. spent'[k] = spent[k] + (IF Granted(f) THEN Cost ELSE 0)
        BY <1>1, <2>2, <2>5 DEF AllowParts, IInv, TypeOK
      <3> HIDE DEF f, t, old
      <3> QED BY <1>2, <1>5, <1>6, <2>2, <2>4, <2>5, <3>1
    <2>6. CASE j # k
      BY <1>1, <1>6, <2>4, <2>6 DEF AllowParts, IInv, TypeOK
    <2> QED BY <2>5, <2>6
  <1>12. StaleBucketsGo'
    <2>1. SUFFICES ASSUME NEW j \in Keys, bucket'[j] # NoBucket
                   PROVE  lastEviction' - bucket'[j].last <= StaleAfter
      BY DEF StaleBucketsGo, Has
    <2>2. bucket[j] # NoBucket => lastEviction - bucket[j].last <= StaleAfter
      BY DEF IInv, StaleBucketsGo, Has
    <2>3. lastEviction' = (IF Due(now) THEN now ELSE lastEviction) /\ lastEviction <= now + MaxWait
      BY <1>1, <1>2 DEF AllowParts, IInv, TimesInOrder, Floor
    <2>4. old(j) # NoBucket => lastEviction' - old(j).last <= StaleAfter
      BY <1>1, <2>2, <2>3 DEF AllowParts
    <2>5. old(j) # NoBucket => old(j).last \in Int
      BY <1>3 DEF Bucket
    <2>6. lastEviction' \in Int /\ lastEviction' <= now + MaxWait
      BY <1>2, <2>3
    <2>7. CASE j = k
      <3>1. bucket'[j].last = f.last /\ f.last \in Int
        BY <1>5, <1>6, <2>7 DEF Bucket
      <3> HIDE DEF f, t, old
      <3> QED BY <1>2, <1>4, <2>4, <2>5, <2>6, <2>7, <3>1
    <2>8. CASE j # k
      BY <1>6, <2>1, <2>4, <2>8
    <2> QED BY <2>7, <2>8
  <1> QED BY <1>9, <1>10, <1>11, <1>12 DEF IInv

--------------------------------------------------------------------------------
(* The theorems *)

(* The inductive invariant, from Init through every step. *)
THEOREM Invariance == Spec => []IInv
  <1>1. IInv /\ [Next]_vars => IInv'
    <2> SUFFICES ASSUME IInv, [Next]_vars PROVE IInv'
      OBVIOUS
    <2>1. ASSUME NEW c \in Clients, Allow(c) PROVE IInv'
      BY <2>1, AllowInv
    <2>2. ASSUME NEW c \in Clients, NEW k \in Keys, ReadClock(c, k) PROVE IInv'
      BY <2>2, ReadClockInv
    <2>3. CASE Tick
      BY <2>3, TickInv
    <2>4. CASE Observe
      BY <2>4, ObserveInv
    <2>5. CASE UNCHANGED vars
      BY <2>5 DEF vars, IInv, TypeOK, TimesInOrder, Budget, StaleBucketsGo, Floor, Has, EvictionIsLate
    <2> QED BY <2>1, <2>2, <2>3, <2>4, <2>5 DEF Next
  <1> QED BY InitInv, <1>1, PTL DEF Spec

(* Whatever allow does, every variable keeps a value the code can store. *)
THEOREM TypesStay == Spec => []TypeOK
  <1>1. IInv => TypeOK
    BY DEF IInv
  <1> QED BY <1>1, Invariance, PTL

(* In any window of time a client is granted at most a burst and what the    *)
(* rate yields, for every rate, burst, number of requests and order in which *)
(* they get the mutex, and across evictions.                                 *)
THEOREM GrantsAreBounded == Spec => []WindowBound
  <1>1. IInv => WindowBound
    <2> SUFFICES ASSUME IInv, EvictionIsLate, NEW k \in Keys
                 PROVE  spent[k] <= Max + (clock - from) + MaxWait
      BY DEF WindowBound
    <2>1. /\ bucket[k] \in Bucket \cup {NoBucket} /\ Floor \in Int /\ clock \in Int
          /\ from \in Int /\ spent[k] \in Nat /\ bucket[k].last <= clock
      BY RateAssumption DEF IInv, TypeOK, TimesInOrder, Floor
    <2>2. Worth(bucket[k], Floor) \in 0 .. Max /\ Since(bucket[k], Floor) \in Int
      BY <2>1, WorthTyped
    <2>3. Since(bucket[k], Floor) <= clock
      BY <2>1, RateAssumption DEF Since, Floor, Bucket, NoBucket
    <2>4. spent[k] + Worth(bucket[k], Floor) <= Max + (Since(bucket[k], Floor) - (from - MaxWait))
      BY DEF IInv, Budget
    <2> QED BY <2>1, <2>2, <2>3, <2>4, MaxNat, RateAssumption
  <1> QED BY <1>1, Invariance, PTL

(* After an eviction no bucket is left that it should have taken, also when  *)
(* the request that evicted was overtaken.                                   *)
THEOREM StaleBucketsAlwaysGo == Spec => []StaleBucketsGo
  <1>1. IInv => StaleBucketsGo
    BY DEF IInv
  <1> QED BY <1>1, Invariance, PTL

================================================================================
