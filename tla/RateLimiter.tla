----------------------------- MODULE RateLimiter ------------------------------
(***************************************************************************)
(* RateLimiter, the token buckets the gateway asks before it routes a      *)
(* request, and SlidingWindowLimiter, the alternative an embedder may use.  *)
(* Time is in milliseconds and tokens are in thousandths, so that a refill *)
(* of elapsedMs / 1000 * refillPerSecond tokens is a whole number.         *)
(***************************************************************************)
EXTENDS Integers, Sequences

CONSTANTS
  Keys,        \* full keys of buckets: a type with what it counts for
  Config,      \* [Keys -> RateLimitConfig]: of the type, or the default one
  WindowMs, MaxRequests,  \* of the SlidingWindowLimiter
  Times        \* bound of the clock: the times at which something may happen

ASSUME ConfigAssumption ==
  \A k \in Keys :
    Config[k].capacity \in Nat /\ Config[k].rate \in Nat /\ Config[k].initial \in Nat
ASSUME WindowAssumption == WindowMs \in Nat /\ MaxRequests \in Nat /\ Times \subseteq Nat

VARIABLES
  now,
  buckets,  \* [Keys -> TokenBucket], of the keys that have one
  order,    \* the keys that have a bucket, in the Map's order of insertion
  requests, \* [Keys -> times]: what the sliding window remembers
  served,   \* [Keys -> times]: all it let through (history)
  spent,    \* [Keys -> tokens granted so far] (history)
  lives,    \* [Keys -> buckets made so far] (history)
  marks     \* [Keys -> how things stood when each token was granted] (history)

history == <<spent, lives, marks>>
limiterVars == <<now, buckets, order, requests, served, history>>

NoBucket == [tokens |-> 0, last |-> 0]

LimiterInit ==
  /\ now = 0
  /\ buckets = [k \in Keys |-> NoBucket]
  /\ order = <<>>
  /\ requests = [k \in Keys |-> <<>>] /\ served = [k \in Keys |-> <<>>]
  /\ spent = [k \in Keys |-> 0]
  /\ lives = [k \in Keys |-> 0]
  /\ marks = [k \in Keys |-> {}]

Present == {order[i] : i \in 1 .. Len(order)}

\* Mutant: a refill forgets the capacity.
Uncapped(tokens, capacity) == tokens

Capped(tokens, capacity) == IF tokens > capacity THEN capacity ELSE tokens

\* refill()
Refill(k, b) ==
  IF now > b.last
  THEN [tokens |-> Capped(b.tokens + (now - b.last) * Config[k].rate, 1000 * Config[k].capacity),
        last |-> now]
  ELSE b

\* The bucket that consume() finds or makes.
Bucket(k) ==
  IF k \in Present THEN buckets[k] ELSE [tokens |-> 1000 * Config[k].initial, last |-> now]

Refused(k, count) == Refill(k, Bucket(k)).tokens < 1000 * count

\* waitTimeMs(), the retry_after_ms of a refusal; nothing comes of a rate of 0.
WaitTimeMs(k, count) ==
  (1000 * count - Refill(k, Bucket(k)).tokens + Config[k].rate - 1) \div Config[k].rate

\* consume() with tryConsume()
Consume(k, count) ==
  LET bucket == Refill(k, Bucket(k))
      born == IF k \in Present THEN lives[k] ELSE lives[k] + 1
  IN /\ order' = IF k \in Present THEN order ELSE Append(order, k)
     /\ lives' = [lives EXCEPT ![k] = born]
     /\ \/ /\ ~Refused(k, count)
           /\ buckets' = [buckets EXCEPT ![k] = [bucket EXCEPT !.tokens = @ - 1000 * count]]
           /\ spent' = [spent EXCEPT ![k] = @ + count]
           /\ marks' = [marks EXCEPT ![k] = @ \cup {[at |-> now, before |-> spent[k], life |-> born]}]
        \/ /\ Refused(k, count)
           /\ buckets' = [buckets EXCEPT ![k] = bucket]
           /\ UNCHANGED <<spent, marks>>
     /\ UNCHANGED <<now, requests, served>>

\* gc(maxBuckets): the first half of the Map is dropped, whoever used it last.
Gc(maxBuckets) ==
  /\ Len(order) > maxBuckets
  /\ order' = SubSeq(order, Len(order) \div 2 + 1, Len(order))
  /\ UNCHANGED <<now, buckets, requests, served, history>>

\* The filter of tryRequest(): the times are in order, so that it leaves what
\* follows the last one that is too old.
Recent(times) ==
  LET old == {i \in DOMAIN times : now - times[i] >= WindowMs}
  IN IF old = {} THEN times
     ELSE SubSeq(times, 1 + CHOOSE i \in old : \A j \in old : j <= i, Len(times))

\* tryRequest(): a refusal does not store the list without what is too old.
TryRequest(k) ==
  /\ \/ /\ Len(Recent(requests[k])) < MaxRequests
        /\ requests' = [requests EXCEPT ![k] = Append(Recent(@), now)]
        /\ served' = [served EXCEPT ![k] = Append(@, now)]
     \/ /\ Len(Recent(requests[k])) >= MaxRequests
        /\ UNCHANGED <<requests, served>>
  /\ UNCHANGED <<now, buckets, order, history>>

Tick ==
  /\ \E t \in Times : t > now /\ now' = t
  /\ UNCHANGED <<buckets, order, requests, served, history>>

LimiterNext(maxBuckets, counts) ==
  \/ Tick \/ Gc(maxBuckets)
  \/ \E k \in Keys : TryRequest(k) \/ \E n \in counts : Consume(k, n)

\* The limiters alone, whoever calls them and in whatever order.
LimiterSpec(maxBuckets, counts) == LimiterInit /\ [][LimiterNext(maxBuckets, counts)]_limiterVars

-----------------------------------------------------------------------------
(* Properties.                                                             *)

Burst(k) ==
  IF Config[k].initial > Config[k].capacity THEN Config[k].initial ELSE Config[k].capacity

BucketBound ==
  \A k \in Keys : \A mark \in marks[k] :
    1000 * (spent[k] - mark.before)
      <= 1000 * Burst(k) * (1 + lives[k] - mark.life) + Config[k].rate * (now - mark.at)

WindowBound ==
  \A k \in Keys : \A i \in 1 .. Len(served[k]) - MaxRequests :
    served[k][i + MaxRequests] - served[k][i] >= WindowMs

\* From any token granted on, a key was granted no more than a full bucket and
\* what was refilled since, and a full bucket more for each time gc() dropped
\* its bucket in between; the sliding window lets no more than its maximum pass
\* in any window of its length.
RateBound == BucketBound /\ WindowBound
==============================================================================
