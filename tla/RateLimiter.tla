------------------------------- MODULE RateLimiter -----------------------------
(***************************************************************************)
(* The per-client request limit (internal/httpapi/ratelimit.go): a token   *)
(* bucket for each client address, refilled from the time that passed      *)
(* since it was last looked at, and thrown away when it has not been       *)
(* looked at for a while.                                                  *)
(*                                                                         *)
(* allow reads the clock BEFORE it waits for the mutex, so requests are    *)
(* handled in another order than their times; and a bucket that was thrown *)
(* away comes back full.                                                   *)
(*                                                                         *)
(* Abstraction: tokens are counted in units of time, one token being the   *)
(* Cost units it takes to earn it, so that what a bucket earns in a time   *)
(* is that time; times are whole numbers of units.                         *)
(***************************************************************************)
EXTENDS Integers

CONSTANTS
    Keys,        \* client addresses
    Cost,        \* time in which one token is earned (1 / rps)
    Burst,       \* tokens a full bucket has
    StaleAfter,  \* time after which an untouched bucket may go (10 minutes)
    Clients,     \* HTTP requests that can be in progress at once
    MaxWait,     \* longest time from reading the clock to holding the mutex
    MaxClock     \* bound of the model: when the clock stops

ASSUME RateAssumption ==
    /\ Cost \in Nat \ {0}
    /\ Burst \in Nat \ {0}
    /\ StaleAfter \in Nat \ {0}
    /\ MaxWait \in 0 .. StaleAfter
    /\ MaxClock \in Nat

Max == Burst * Cost

VARIABLES
    clock,
    bucket,        \* bucket[k]: the entry of rateLimiter.buckets, or NoBucket
    lastEviction,  \* rateLimiter.lastEviction
    req,           \* req[c]: the request c between reading the clock and the mutex
    from,          \* history: when the window under observation began
    spent          \* history: spent[k]: tokens granted to k in that window

vars == <<clock, bucket, lastEviction, req, from, spent>>

--------------------------------------------------------------------------------

Bucket == [tokens : 0 .. Max, last : 0 .. MaxClock]
NoBucket == [tokens |-> 0, last |-> -1]

Has(k) == bucket[k] # NoBucket

Request == [key : Keys, now : 0 .. MaxClock]
Idle == [now |-> -1]

Init ==
    /\ clock = 0
    /\ bucket = [k \in Keys |-> NoBucket]
    /\ lastEviction = -(StaleAfter + 1)
    /\ req = [c \in Clients |-> Idle]
    /\ from = 0
    /\ spent = [k \in Keys |-> 0]

--------------------------------------------------------------------------------
(* Plausible bugs, one per property a run checks *)

(* last moves back to the time of a request that waited. *)
RefilledBackwards(b, now) ==
    [tokens |-> IF now > b.last
                THEN IF b.tokens + (now - b.last) > Max THEN Max ELSE b.tokens + (now - b.last)
                ELSE b.tokens,
     last |-> now]

EvictNothing(now) == bucket

--------------------------------------------------------------------------------
(* The bucket *)

(* The refill of tokenBucket.allow; time does not run backwards in it. *)
Refilled(b, now) ==
    IF now > b.last
    THEN [tokens |-> IF b.tokens + (now - b.last) > Max THEN Max ELSE b.tokens + (now - b.last),
          last   |-> now]
    ELSE b

(* At most once in StaleAfter, buckets older than that go. *)
Due(now) == now - lastEviction > StaleAfter

Kept(now) ==
    [k \in Keys |-> IF Has(k) /\ now - bucket[k].last > StaleAfter THEN NoBucket ELSE bucket[k]]

Evicted(now) == IF Due(now) THEN Kept(now) ELSE bucket

(* The bucket a request of k finds: a new one is full. *)
Found(b, now) == IF b = NoBucket THEN [tokens |-> Max, last |-> now] ELSE Refilled(b, now)

(* A token is taken when there is a whole one. *)
Granted(b) == b.tokens >= Cost

Taken(b) == IF Granted(b) THEN [tokens |-> b.tokens - Cost, last |-> b.last] ELSE b

--------------------------------------------------------------------------------
(* Requests *)

(* allow reads the clock. *)
ReadClock(c, k) ==
    /\ req[c] = Idle
    /\ req' = [req EXCEPT ![c] = [key |-> k, now |-> clock]]
    /\ UNCHANGED <<clock, bucket, lastEviction, from, spent>>

(* The rest of allow, under the mutex: it answers TRUE, or 429 is answered.  *)
Allow(c) ==
    /\ req[c] # Idle
    /\ LET now == req[c].now
           k   == req[c].key
           b   == Found(Evicted(now)[k], now)
       IN  /\ bucket' = [Evicted(now) EXCEPT ![k] = Taken(b)]
           /\ spent' = [spent EXCEPT ![k] = IF Granted(b) THEN @ + Cost ELSE @]
           /\ lastEviction' = IF Due(now) THEN now ELSE lastEviction
    /\ req' = [req EXCEPT ![c] = Idle]
    /\ UNCHANGED <<clock, from>>

(* Time passes, but no request waits longer than MaxWait. *)
Tick ==
    /\ clock < MaxClock
    /\ \A c \in Clients : req[c] # Idle => clock - req[c].now < MaxWait
    /\ clock' = clock + 1
    /\ UNCHANGED <<bucket, lastEviction, req, from, spent>>

(* The window under observation begins, at any time (history only). *)
Observe ==
    /\ from' = clock
    /\ spent' = [k \in Keys |-> 0]
    /\ UNCHANGED <<clock, bucket, lastEviction, req>>

Next ==
    \/ \E c \in Clients : Allow(c) \/ \E k \in Keys : ReadClock(c, k)
    \/ Tick
    \/ Observe

Spec == Init /\ [][Next]_vars

--------------------------------------------------------------------------------
(* Properties *)

(* Every variable ranges over what the code can store in it. *)
TypeOK ==
    /\ clock \in 0 .. MaxClock
    /\ bucket \in [Keys -> Bucket \cup {NoBucket}]
    /\ lastEviction \in Int
    /\ req \in [Clients -> Request \cup {Idle}]
    /\ from \in 0 .. clock
    /\ spent \in [Keys -> Nat]

(* A bucket that may be evicted has had the time to fill up: ten minutes at  *)
(* rps earn a burst.  The code does not ask this of its configuration.       *)
EvictionIsLate == StaleAfter >= Max + MaxWait

(* In no window of time, wherever it begins, is a client granted more than   *)
(* a burst and what the rate yields in the window (and in the time a request *)
(* may wait), in whatever order requests get the mutex and however often its *)
(* bucket is thrown away.                                                    *)
WindowBound ==
    EvictionIsLate => \A k \in Keys : spent[k] <= Max + (clock - from) + MaxWait

(* "Buckets untouched for staleAfter are opportunistically evicted on access *)
(* so the map doesn't grow unbounded": the last eviction left none.          *)
StaleBucketsGo == \A k \in Keys : Has(k) => lastEviction - bucket[k].last <= StaleAfter

================================================================================
