------------------------------ MODULE Server_proofs -----------------------------
(***************************************************************************)
(* What a key is granted is bounded, for every configuration, any keys and *)
(* any times: a bucket pays for what it grants, and a window remembers all *)
(* that it may not forget.  What drain() reports of a shutdown is true.    *)
(* What the catalogue chooses is in range and best.                        *)
(***************************************************************************)
EXTENDS Server, Loops_proofs, SequenceTheorems

-----------------------------------------------------------------------------
(* Buckets: the tokens one has and the tokens granted since a mark are     *)
(* together no more than a full bucket and what was refilled in between.   *)

LimiterTypes ==
  /\ now \in Nat
  /\ buckets \in [Keys -> [tokens : Nat, last : Nat]]
  /\ order \in Seq(Keys)
  /\ spent \in [Keys -> Nat]
  /\ lives \in [Keys -> Nat]
  /\ marks \in [Keys -> SUBSET [at : Nat, before : Nat, life : Nat]]

\* With so many tokens left, granted tokens are paid for since a mark, if the
\* last of lived buckets was last refilled at t.
Covers(k, tokens, granted, lived, t, mark) ==
  tokens + 1000 * (granted - mark.before)
    <= 1000 * Burst(k) * (1 + lived - mark.life) + Config[k].rate * (t - mark.at)

Paid(k, tokens, mark, t) == Covers(k, tokens, spent[k], lives[k], t, mark)

BucketsSound ==
  \A k \in Present : buckets[k].tokens <= 1000 * Burst(k) /\ buckets[k].last <= now

MarksSound ==
  \A k \in Keys : \A mark \in marks[k] :
    /\ mark.at <= now
    /\ Paid(k, 0, mark, now)
    /\ k \in Present => Paid(k, buckets[k].tokens, mark, buckets[k].last)

BucketInv == LimiterTypes /\ BucketsSound /\ MarksSound

-----------------------------------------------------------------------------
(* Arithmetic.                                                             *)

LEMMA Split ==
  ASSUME NEW r \in Nat, NEW a \in Int, NEW b \in Int, NEW c \in Int
  PROVE  r * (a - c) = r * (a - b) + r * (b - c)
BY SMT

LEMMA More ==
  ASSUME NEW r \in Nat, NEW a \in Int, NEW b \in Int, a <= b
  PROVE  r * a <= r * b
BY SMT

LEMMA Bigger ==
  ASSUME NEW r \in Nat, NEW a \in Nat
  PROVE  a * r \in Nat
BY SMT

LEMMA OneMore ==
  ASSUME NEW r \in Nat, NEW a \in Int
  PROVE  r * (1 + (a + 1)) = r * (1 + a) + r
BY SMT

LEMMA ConfigTypes ==
  ASSUME NEW k \in Keys
  PROVE  /\ Config[k].rate \in Nat /\ Config[k].capacity \in Nat /\ Config[k].initial \in Nat
         /\ Burst(k) \in Nat /\ 1000 * Burst(k) \in Nat
         /\ Config[k].capacity <= Burst(k) /\ Config[k].initial <= Burst(k)
BY ConfigAssumption DEF Burst

\* What pays with tokens left pays without them.
LEMMA EmptyIsPaid ==
  ASSUME NEW k \in Keys, NEW left \in Nat, NEW granted \in Int, NEW lived \in Int, NEW t \in Int,
         NEW mark, mark.at \in Nat, mark.before \in Nat, mark.life \in Nat,
         Covers(k, left, granted, lived, t, mark)
  PROVE  Covers(k, 0, granted, lived, t, mark)
<1> DEFINE given == 1000 * (granted - mark.before)
           lots == 1000 * Burst(k) * (1 + lived - mark.life)
           refills == Config[k].rate * (t - mark.at)
<1>1. 1 + lived - mark.life \in Int /\ t - mark.at \in Int /\ given \in Int
  OBVIOUS
<1>2. lots \in Int /\ refills \in Int
  BY <1>1, ConfigTypes
<1>3. left + given <= lots + refills
  BY DEF Covers
<1>4. 0 + given <= lots + refills
  <2> HIDE DEF given, lots, refills
  <2> QED
    BY <1>1, <1>2, <1>3
<1> QED
  BY <1>4 DEF Covers

-----------------------------------------------------------------------------
(* The bucket that a call of consume() works with.                         *)

\* A refill brings the bucket up to now, adds no more than the rate, and stays
\* within a full bucket.
LEMMA Refilled ==
  ASSUME now \in Nat, NEW k \in Keys, NEW b \in [tokens : Nat, last : Nat],
         b.last <= now, b.tokens <= 1000 * Burst(k)
  PROVE  /\ Refill(k, b) \in [tokens : Nat, last : Nat]
         /\ Refill(k, b).last = now
         /\ Refill(k, b).tokens <= 1000 * Burst(k)
         /\ Refill(k, b).tokens <= b.tokens + Config[k].rate * (now - b.last)
<1> DEFINE gain == (now - b.last) * Config[k].rate
<1>1. gain \in Nat /\ gain = Config[k].rate * (now - b.last)
  BY ConfigTypes, Bigger
<1>2. CASE now > b.last
  <2> DEFINE full == 1000 * Config[k].capacity
  <2>1. full \in Nat /\ full <= 1000 * Burst(k)
    BY ConfigTypes
  <2>2. /\ Capped(b.tokens + gain, full) \in Nat
        /\ Capped(b.tokens + gain, full) <= full
        /\ Capped(b.tokens + gain, full) <= b.tokens + gain
    BY <1>1, <2>1 DEF Capped
  <2>3. Refill(k, b) = [tokens |-> Capped(b.tokens + gain, full), last |-> now]
    BY <1>2 DEF Refill
  <2> QED
    BY <1>1, <2>1, <2>2, <2>3, ConfigTypes
<1>3. CASE ~(now > b.last)
  <2>1. Refill(k, b) = b /\ b.last = now
    BY <1>3 DEF Refill
  <2>2. b.tokens <= b.tokens + gain
    BY <1>1
  <2> QED
    BY <1>1, <2>1, <2>2
<1> QED
  BY <1>2, <1>3

Born(k) == IF k \in Present THEN lives[k] ELSE lives[k] + 1

\* The bucket found or made is a sound one, and pays for what was granted, a new
\* one counting as one more full bucket.
LEMMA BucketFound ==
  ASSUME BucketInv, NEW k \in Keys
  PROVE  /\ Bucket(k) \in [tokens : Nat, last : Nat]
         /\ Bucket(k).last <= now /\ Bucket(k).tokens <= 1000 * Burst(k)
         /\ Born(k) \in Nat
         /\ \A mark \in marks[k] :
              Covers(k, Bucket(k).tokens, spent[k], Born(k), Bucket(k).last, mark)
<1>1. CASE k \in Present
  BY <1>1 DEF BucketInv, LimiterTypes, BucketsSound, MarksSound, Paid, Bucket, Born
<1>2. CASE k \notin Present
  <2>1. Bucket(k) = [tokens |-> 1000 * Config[k].initial, last |-> now] /\ Born(k) = lives[k] + 1
    BY <1>2 DEF Bucket, Born
  <2>2. /\ Bucket(k) \in [tokens : Nat, last : Nat] /\ Born(k) \in Nat
        /\ Bucket(k).last <= now /\ Bucket(k).tokens <= 1000 * Burst(k)
    BY SMTT(30), <2>1, ConfigTypes DEF BucketInv, LimiterTypes
  <2>3. ASSUME NEW mark \in marks[k]
        PROVE  Covers(k, Bucket(k).tokens, spent[k], Born(k), Bucket(k).last, mark)
    <3>1. /\ mark.at \in Nat /\ mark.before \in Nat /\ mark.life \in Nat
          /\ lives[k] \in Nat /\ spent[k] \in Nat /\ now \in Nat
      BY DEF BucketInv, LimiterTypes
    <3>2. 0 + 1000 * (spent[k] - mark.before)
            <= 1000 * Burst(k) * (1 + lives[k] - mark.life) + Config[k].rate * (now - mark.at)
      BY DEF BucketInv, MarksSound, Paid, Covers
    <3>3. 1000 * Burst(k) * (1 + Born(k) - mark.life)
            = 1000 * Burst(k) * (1 + lives[k] - mark.life) + 1000 * Burst(k)
      <4>1. 1 + Born(k) - mark.life = 1 + ((lives[k] - mark.life) + 1)
        BY <2>1, <3>1
      <4>2. 1 + lives[k] - mark.life = 1 + (lives[k] - mark.life)
        BY <3>1
      <4> QED
        BY <3>1, <4>1, <4>2, OneMore, ConfigTypes
    <3>4. Config[k].rate * (now - mark.at) \in Int
      BY <3>1, ConfigTypes
    <3>5. 1000 * Burst(k) * (1 + lives[k] - mark.life) \in Int
      BY <3>1, ConfigTypes
    <3>6. 1000 * Config[k].initial <= 1000 * Burst(k) /\ 1000 * Config[k].initial \in Nat
          /\ 1000 * Burst(k) \in Nat /\ 1000 * (spent[k] - mark.before) \in Int
      BY <3>1, ConfigTypes
    <3> QED
      BY <2>1, <3>2, <3>3, <3>4, <3>5, <3>6 DEF Covers
  <2> QED
    BY <2>2, <2>3
<1> QED
  BY <1>1, <1>2

-----------------------------------------------------------------------------
(* The steps.                                                              *)

\* What a step leaves alone stays paid for, however late it gets.
LEMMA LaterIsPaid ==
  ASSUME BucketInv, NEW t \in Nat, now <= t, NEW k \in Keys, NEW mark \in marks[k]
  PROVE  mark.at <= t /\ Paid(k, 0, mark, t)
<1>1. /\ mark.at \in Nat /\ mark.before \in Nat /\ mark.life \in Nat
      /\ lives[k] \in Nat /\ spent[k] \in Nat /\ now \in Nat
  BY DEF BucketInv, LimiterTypes
<1>2. mark.at <= now /\ Paid(k, 0, mark, now)
  BY DEF BucketInv, MarksSound
<1>3. Config[k].rate * (now - mark.at) <= Config[k].rate * (t - mark.at)
  BY <1>1, ConfigTypes, More
<1>4. /\ 1000 * Burst(k) * (1 + lives[k] - mark.life) \in Int
      /\ Config[k].rate * (now - mark.at) \in Int /\ Config[k].rate * (t - mark.at) \in Int
      /\ 1000 * (spent[k] - mark.before) \in Int
  BY <1>1, ConfigTypes
<1> QED
  BY <1>1, <1>2, <1>3, <1>4 DEF Paid, Covers

LEMMA TickSound ==
  ASSUME BucketInv, Tick
  PROVE  BucketInv'
<1>1. now' \in Nat /\ now <= now' /\ now \in Nat
  BY WindowAssumption DEF Tick, BucketInv, LimiterTypes
<1>2. UNCHANGED <<buckets, order, spent, lives, marks>>
  BY DEF Tick, history
<1>3. LimiterTypes'
  BY <1>1, <1>2 DEF BucketInv, LimiterTypes
<1>4. BucketsSound'
  <2> SUFFICES ASSUME NEW k \in Present
               PROVE  buckets[k].tokens <= 1000 * Burst(k) /\ buckets[k].last <= now'
    BY <1>2 DEF BucketsSound, Present, Burst
  <2>1. k \in Keys
    BY DEF BucketInv, LimiterTypes, Present
  <2> QED
    BY <1>1, <2>1 DEF BucketInv, LimiterTypes, BucketsSound
<1>5. MarksSound'
  BY <1>1, <1>2, LaterIsPaid DEF BucketInv, MarksSound, Paid, Present
<1> QED
  BY <1>3, <1>4, <1>5 DEF BucketInv

LEMMA GcSound ==
  ASSUME NEW maxBuckets \in Nat, BucketInv, Gc(maxBuckets)
  PROVE  BucketInv'
<1> DEFINE dropped == Len(order) \div 2
<1>1. order \in Seq(Keys) /\ Len(order) \in Nat /\ dropped \in Nat /\ dropped <= Len(order)
  BY DEF BucketInv, LimiterTypes
<1>2. order' = SubSeq(order, dropped + 1, Len(order)) /\ UNCHANGED <<now, buckets, spent, lives, marks>>
  BY DEF Gc, history
<1> HIDE DEF dropped
<1>3. /\ order' \in Seq(Keys) /\ Len(order') = Len(order) - dropped
      /\ \A i \in 1 .. Len(order') : order'[i] = order[i + dropped]
  <2>1. \A i \in dropped + 1 .. Len(order) : order[i] \in Keys
    BY <1>1
  <2>2. /\ order' \in Seq(Keys)
        /\ Len(order') = IF dropped + 1 <= Len(order) THEN Len(order) - (dropped + 1) + 1 ELSE 0
        /\ \A i \in 1 .. Len(order) - (dropped + 1) + 1 : order'[i] = order[dropped + 1 + i - 1]
    BY <1>1, <1>2, <2>1, SubSeqProperties
  <2>3. Len(order') = Len(order) - dropped
    BY <1>1, <2>2
  <2>4. ASSUME NEW i \in 1 .. Len(order')
        PROVE  order'[i] = order[i + dropped]
    <3>1. i \in 1 .. Len(order) - (dropped + 1) + 1 /\ dropped + 1 + i - 1 = i + dropped
      BY <1>1, <2>3
    <3> QED
      BY <2>2, <3>1
  <2> QED
    BY <2>2, <2>3, <2>4
<1>4. Present' \subseteq Present
  BY <1>1, <1>3 DEF Present
<1>5. LimiterTypes'
  BY <1>2, <1>3 DEF BucketInv, LimiterTypes
<1>6. BucketsSound' /\ MarksSound'
  BY <1>2, <1>4 DEF BucketInv, BucketsSound, MarksSound, Paid, Burst
<1> QED
  BY <1>5, <1>6 DEF BucketInv

LEMMA ConsumeSound ==
  ASSUME BucketInv, NEW k \in Keys, NEW n \in Nat, Consume(k, n)
  PROVE  BucketInv'
<1> DEFINE b == Refill(k, Bucket(k))
           granted == ~Refused(k, n)
           cost == IF granted THEN n ELSE 0
           mark0 == [at |-> now, before |-> spent[k], life |-> Born(k)]
<1>1. /\ now \in Nat /\ b \in [tokens : Nat, last : Nat] /\ b.last = now
      /\ b.tokens <= 1000 * Burst(k)
      /\ b.tokens <= Bucket(k).tokens + Config[k].rate * (now - Bucket(k).last)
  BY BucketFound, Refilled DEF BucketInv, LimiterTypes
<1>2. /\ cost \in Nat /\ granted = (b.tokens >= 1000 * n)
      /\ b.tokens - 1000 * cost \in Nat
  BY <1>1 DEF Refused
<1>3. /\ now' = now
      /\ order' = (IF k \in Present THEN order ELSE Append(order, k))
      /\ lives' = [lives EXCEPT ![k] = Born(k)]
      /\ spent' = [spent EXCEPT ![k] = @ + cost]
      /\ buckets' = [buckets EXCEPT ![k] = [b EXCEPT !.tokens = @ - 1000 * cost]]
      /\ marks' = [marks EXCEPT ![k] = IF granted THEN @ \cup {mark0} ELSE @]
  <2>1. spent \in [Keys -> Nat] /\ spent = [spent EXCEPT ![k] = @ + 0] /\ marks = [marks EXCEPT ![k] = @]
    BY DEF BucketInv, LimiterTypes
  <2>2. b = [b EXCEPT !.tokens = @ - 1000 * 0]
    BY <1>1
  <2>3. CASE granted
    BY <2>3 DEF Consume, Born
  <2>4. CASE ~granted
    <3>1. cost = 0
      BY <2>4
    <3> QED
      BY <2>1, <2>2, <2>4, <3>1 DEF Consume, Born
  <2> QED
    BY <2>3, <2>4
<1>4. /\ Present' = Present \cup {k}
      /\ order' \in Seq(Keys)
  <2>1. order \in Seq(Keys)
    BY DEF BucketInv, LimiterTypes
  <2>2. CASE k \in Present
    BY <1>3, <2>1, <2>2 DEF Present
  <2>3. CASE k \notin Present
    <3>1. order' = Append(order, k)
      BY <1>3, <2>3
    <3>2. /\ order' \in Seq(Keys) /\ Len(order') = Len(order) + 1 /\ order'[Len(order) + 1] = k
          /\ \A i \in 1 .. Len(order) : order'[i] = order[i]
      BY <2>1, <3>1
    <3>3. 1 .. Len(order') = (1 .. Len(order)) \cup {Len(order) + 1}
      BY <2>1, <3>2
    <3> QED
      BY <3>2, <3>3 DEF Present
  <2> QED
    BY <2>2, <2>3
<1>5. LimiterTypes'
  <2>1. Born(k) \in Nat
    BY BucketFound
  <2>2. [b EXCEPT !.tokens = @ - 1000 * cost] \in [tokens : Nat, last : Nat]
    BY <1>1, <1>2
  <2>3. mark0 \in [at : Nat, before : Nat, life : Nat]
    BY <1>1, <2>1 DEF BucketInv, LimiterTypes
  <2> HIDE DEF b, cost, granted, mark0
  <2>4. now' \in Nat /\ order' \in Seq(Keys)
    BY <1>1, <1>3, <1>4
  <2>5. buckets' \in [Keys -> [tokens : Nat, last : Nat]]
    BY <1>3, <2>2 DEF BucketInv, LimiterTypes
  <2>6. spent' \in [Keys -> Nat] /\ lives' \in [Keys -> Nat]
    <3>1. spent \in [Keys -> Nat] /\ lives \in [Keys -> Nat]
      BY DEF BucketInv, LimiterTypes
    <3>2. spent' \in [Keys -> Nat]
      BY <1>2, <1>3, <3>1
    <3>3. lives' \in [Keys -> Nat]
      BY <1>3, <2>1, <3>1
    <3> QED
      BY <3>2, <3>3
  <2>7. marks' \in [Keys -> SUBSET [at : Nat, before : Nat, life : Nat]]
    <3> DEFINE kept == IF granted THEN marks[k] \cup {mark0} ELSE marks[k]
    <3>1. marks \in [Keys -> SUBSET [at : Nat, before : Nat, life : Nat]]
      BY DEF BucketInv, LimiterTypes
    <3>2. kept \in SUBSET [at : Nat, before : Nat, life : Nat]
      BY <2>3, <3>1
    <3>3. marks' = [marks EXCEPT ![k] = kept]
      BY <1>3, <3>1
    <3> HIDE DEF kept
    <3> QED
      BY <3>1, <3>2, <3>3
  <2> QED
    BY <2>4, <2>5, <2>6, <2>7 DEF LimiterTypes
<1>6. /\ spent'[k] = spent[k] + cost /\ lives'[k] = Born(k)
      /\ buckets'[k].tokens = b.tokens - 1000 * cost /\ buckets'[k].last = now
  BY <1>1, <1>3 DEF BucketInv, LimiterTypes
<1>7. ASSUME NEW other \in Keys, other # k
      PROVE  /\ spent'[other] = spent[other] /\ lives'[other] = lives[other]
             /\ buckets'[other] = buckets[other] /\ marks'[other] = marks[other]
             /\ other \in Present' <=> other \in Present
  BY <1>3, <1>4, <1>7 DEF BucketInv, LimiterTypes
<1>8. BucketsSound'
  <2> SUFFICES ASSUME NEW j \in Present'
               PROVE  buckets'[j].tokens <= 1000 * Burst(j) /\ buckets'[j].last <= now
    BY <1>3 DEF BucketsSound, Burst
  <2>1. j \in Keys
    BY <1>4 DEF BucketInv, LimiterTypes, Present
  <2>2. CASE j = k
    BY <1>1, <1>2, <1>6, <2>2, ConfigTypes
  <2>3. CASE j # k
    BY <1>7, <2>1, <2>3 DEF BucketInv, BucketsSound
  <2> QED
    BY <2>2, <2>3
<1>9. ASSUME NEW mark \in marks'[k]
      PROVE  mark.at <= now /\ Covers(k, b.tokens - 1000 * cost, spent[k] + cost, Born(k), now, mark)
  <2>0. spent[k] \in Nat /\ Born(k) \in Nat /\ 1000 * Burst(k) \in Nat /\ Config[k].rate \in Nat
    BY SMTT(30), BucketFound, ConfigTypes DEF BucketInv, LimiterTypes
  <2>1. CASE mark \in marks[k]
    <3>1. /\ mark.at \in Nat /\ mark.before \in Nat /\ mark.life \in Nat
          /\ Bucket(k).last \in Nat /\ Bucket(k).tokens \in Nat
      <4>1. mark.at \in Nat /\ mark.before \in Nat /\ mark.life \in Nat
        BY <2>1 DEF BucketInv, LimiterTypes
      <4>2. Bucket(k) \in [tokens : Nat, last : Nat]
        BY BucketFound
      <4> QED
        BY <4>1, <4>2
    <3>2. Bucket(k).tokens + 1000 * (spent[k] - mark.before)
            <= 1000 * Burst(k) * (1 + Born(k) - mark.life) + Config[k].rate * (Bucket(k).last - mark.at)
      BY <2>1, BucketFound DEF Covers
    <3>3. Config[k].rate * (now - mark.at)
            = Config[k].rate * (now - Bucket(k).last) + Config[k].rate * (Bucket(k).last - mark.at)
      BY <1>1, <2>0, <3>1, Split
    <3>4. /\ 1000 * Burst(k) * (1 + Born(k) - mark.life) \in Int
          /\ Config[k].rate * (now - Bucket(k).last) \in Int
          /\ Config[k].rate * (Bucket(k).last - mark.at) \in Int
      BY <1>1, <2>0, <3>1
    <3>5. 1000 * (spent[k] + cost - mark.before) = 1000 * (spent[k] - mark.before) + 1000 * cost
      BY <1>2, <2>0, <3>1
    <3>6. mark.at <= now
      BY <2>1 DEF BucketInv, MarksSound
    <3> QED
      BY <1>1, <1>2, <2>0, <3>1, <3>2, <3>3, <3>4, <3>5, <3>6 DEF Covers
  <2>2. CASE mark \notin marks[k]
    <3>1. granted /\ mark = mark0
      BY <1>3, <2>2 DEF BucketInv, LimiterTypes
    <3>2. /\ 1 + Born(k) - mark.life = 1 /\ now - mark.at = 0 /\ spent[k] + cost - mark.before = cost
      BY <1>1, <1>2, <2>0, <3>1
    <3> QED
      BY <1>1, <1>2, <2>0, <3>1, <3>2 DEF Covers
  <2> QED
    BY <2>1, <2>2
<1>10. MarksSound'
  <2> SUFFICES ASSUME NEW j \in Keys, NEW mark \in marks'[j]
               PROVE  /\ mark.at <= now'
                      /\ Paid(j, 0, mark, now)'
                      /\ j \in Present' => Paid(j, buckets[j].tokens, mark, buckets[j].last)'
    BY DEF MarksSound
  <2>1. CASE j = k
    <3>1. mark.at <= now /\ Covers(k, b.tokens - 1000 * cost, spent[k] + cost, Born(k), now, mark)
      BY <1>9, <2>1
    <3>2. Covers(k, 0, spent[k] + cost, Born(k), now, mark)
      <4>1. /\ mark.at \in Nat /\ mark.before \in Nat /\ mark.life \in Nat /\ Born(k) \in Nat
            /\ spent[k] \in Nat /\ now \in Nat
        <5>1. mark.at \in Nat /\ mark.before \in Nat /\ mark.life \in Nat
          BY <1>5, <2>1 DEF LimiterTypes
        <5>2. spent[k] \in Nat /\ now \in Nat
          BY DEF BucketInv, LimiterTypes
        <5>3. Born(k) \in Nat
          BY BucketFound
        <5> QED
          BY <5>1, <5>2, <5>3
      <4> DEFINE left == b.tokens - 1000 * cost
                 sum == spent[k] + cost
      <4>2. left \in Nat /\ sum \in Int /\ Covers(k, left, sum, Born(k), now, mark)
        BY <1>2, <3>1, <4>1
      <4> HIDE DEF left, sum
      <4>3. Covers(k, 0, sum, Born(k), now, mark)
        BY <4>1, <4>2, EmptyIsPaid
      <4> QED
        BY <4>3 DEF sum
    <3> HIDE DEF b, cost
    <3> QED
      BY <1>3, <1>6, <2>1, <3>1, <3>2 DEF Paid
  <2>2. CASE j # k
    BY <1>3, <1>7, <2>2 DEF BucketInv, MarksSound, Paid
  <2> QED
    BY <2>1, <2>2
<1> QED
  BY <1>5, <1>8, <1>10 DEF BucketInv

\* A request that the window decides leaves the buckets alone.
LEMMA BucketsKept ==
  ASSUME BucketInv, UNCHANGED <<now, buckets, order, spent, lives, marks>>
  PROVE  BucketInv'
<1>1. LimiterTypes'
  BY DEF BucketInv, LimiterTypes
<1>2. BucketsSound'
  BY DEF BucketInv, BucketsSound, Present, Burst
<1>3. MarksSound'
  BY DEF BucketInv, MarksSound, Paid, Present
<1> QED
  BY <1>1, <1>2, <1>3 DEF BucketInv

LEMMA BucketInit ==
  LimiterInit => BucketInv
BY DEF LimiterInit, BucketInv, LimiterTypes, BucketsSound, MarksSound, Present, NoBucket

LEMMA BucketPays ==
  BucketInv => BucketBound
<1> SUFFICES ASSUME BucketInv, NEW k \in Keys, NEW mark \in marks[k]
             PROVE  1000 * (spent[k] - mark.before)
                      <= 1000 * Burst(k) * (1 + lives[k] - mark.life) + Config[k].rate * (now - mark.at)
  BY DEF BucketBound
<1>1. mark.before \in Nat /\ spent[k] \in Nat
  BY DEF BucketInv, LimiterTypes
<1>2. 0 + 1000 * (spent[k] - mark.before) = 1000 * (spent[k] - mark.before)
  BY <1>1
<1> QED
  BY <1>2 DEF BucketInv, MarksSound, Paid, Covers

-----------------------------------------------------------------------------
(* The sliding window.  What it remembers is the end of all that it let    *)
(* through, and what is before that is out of the window.                  *)

Remembers(all, kept, t) ==
  /\ all \in Seq(Nat) /\ kept \in Seq(Nat) /\ Len(kept) <= Len(all)
  /\ \A i \in 1 .. Len(kept) : kept[i] = all[Len(all) - Len(kept) + i]
  /\ \A i, j \in 1 .. Len(all) : i <= j => all[i] <= all[j]
  /\ \A i \in 1 .. Len(all) : all[i] <= t
  /\ \A i \in 1 .. (Len(all) - Len(kept)) : t - all[i] >= WindowMs

WindowInv ==
  /\ now \in Nat /\ DOMAIN served = Keys /\ DOMAIN requests = Keys
  /\ \A k \in Keys : Remembers(served[k], requests[k], now)
  /\ WindowBound

\* What recent times are: the end of the sequence, behind what is too old.
LEMMA RecentIsEnd ==
  ASSUME NEW times \in Seq(Nat), now \in Nat,
         \A i, j \in 1 .. Len(times) : i <= j => times[i] <= times[j]
  PROVE  \E m \in 0 .. Len(times) :
           /\ Recent(times) \in Seq(Nat) /\ Len(Recent(times)) = Len(times) - m
           /\ \A i \in 1 .. (Len(times) - m) : Recent(times)[i] = times[m + i]
           /\ \A i \in 1 .. m : now - times[i] >= WindowMs
<1> DEFINE old == {i \in DOMAIN times : now - times[i] >= WindowMs}
           n == Len(times)
<1>1. n \in Nat /\ DOMAIN times = 1 .. n /\ old \in SUBSET (1 .. n)
      /\ \A i \in 1 .. n : times[i] \in Nat
  <2>1. Len(times) \in Nat /\ DOMAIN times = 1 .. Len(times)
        /\ \A i \in 1 .. Len(times) : times[i] \in Nat
    OBVIOUS
  <2> QED
    BY <2>1
<1>2. CASE old = {}
  <2>1. Recent(times) = times
    BY <1>2 DEF Recent
  <2> WITNESS 0 \in 0 .. Len(times)
  <2> QED
    BY <2>1
<1>3. CASE old # {}
  <2>1. PICK m \in old : m = CHOOSE i \in old : \A j \in old : j <= i
    BY <1>1, <1>3, LargestOf
  <2>2. m \in 1 .. n /\ now - times[m] >= WindowMs
    BY <1>1
  <2>3. Recent(times) = SubSeq(times, 1 + m, n)
    BY <1>3, <2>1 DEF Recent
  <2>4. /\ Recent(times) \in Seq(Nat) /\ Len(Recent(times)) = n - m
        /\ \A i \in 1 .. (n - m) : Recent(times)[i] = times[m + i]
    <3>1. 1 + m \in 1 .. (n + 1) /\ n \in ((1 + m) - 1) .. n
      BY <1>1, <2>2
    <3> DEFINE r == SubSeq(times, 1 + m, n)
    <3>2. /\ r \in Seq(Nat) /\ Len(r) = n - m
          /\ \A i \in 1 .. (n - m) : r[i] = times[m + i]
      <4> DEFINE first == 1 + m
      <4>1. /\ first \in Int /\ n \in Int /\ \A i \in first .. n : times[i] \in Nat
            /\ first <= n + 1
        BY <1>1, <2>2
      <4> HIDE DEF first, n
      <4>2. /\ SubSeq(times, first, n) \in Seq(Nat)
            /\ Len(SubSeq(times, first, n)) = IF first <= n THEN n - first + 1 ELSE 0
            /\ \A i \in 1 .. (n - first + 1) : SubSeq(times, first, n)[i] = times[first + i - 1]
        BY <4>1, SubSeqProperties
      <4>3. n - first + 1 = n - m /\ \A i \in 1 .. (n - m) : first + i - 1 = m + i
        BY <1>1, <2>2 DEF first
      <4> QED
        BY SMTT(30), <4>1, <4>2, <4>3 DEF first
    <3> QED
      BY <2>3, <3>2
  <2>5. \A i \in 1 .. m : now - times[i] >= WindowMs
    <3> SUFFICES ASSUME NEW i \in 1 .. m PROVE now - times[i] >= WindowMs
      OBVIOUS
    <3>1. i \in 1 .. n /\ i <= m /\ times[i] <= times[m]
      BY <1>1, <2>2
    <3>2. times[i] \in Nat /\ times[m] \in Nat /\ WindowMs \in Nat
      BY <1>1, <2>2, <3>1, WindowAssumption
    <3> QED
      BY <2>2, <3>1, <3>2
  <2>6. m \in 0 .. Len(times)
    BY <1>1, <2>2
  <2> QED
    BY <2>4, <2>5, <2>6
<1> QED
  BY <1>2, <1>3

\* What is remembered is in order, as all of it is.
LEMMA KeptInOrder ==
  ASSUME NEW all, NEW kept, NEW t, Remembers(all, kept, t)
  PROVE  \A i, j \in 1 .. Len(kept) : i <= j => kept[i] <= kept[j]
<1> SUFFICES ASSUME NEW i \in 1 .. Len(kept), NEW j \in 1 .. Len(kept), i <= j
             PROVE  kept[i] <= kept[j]
  OBVIOUS
<1> DEFINE d == Len(all) - Len(kept)
<1>1. Len(all) \in Nat /\ Len(kept) \in Nat /\ Len(kept) <= Len(all)
  BY DEF Remembers
<1>2. d + i \in 1 .. Len(all) /\ d + j \in 1 .. Len(all) /\ d + i <= d + j
  BY <1>1
<1>3. kept[i] = all[d + i] /\ kept[j] = all[d + j]
  BY DEF Remembers
<1> HIDE DEF d
<1> QED
  BY <1>2, <1>3 DEF Remembers

\* One more request is let through.
LEMMA WindowGrant ==
  ASSUME WindowInv, NEW k \in Keys, NEW recent \in Seq(Nat), Len(recent) < MaxRequests,
         NEW m \in 0 .. Len(requests[k]), Len(recent) = Len(requests[k]) - m,
         \A i \in 1 .. Len(recent) : recent[i] = requests[k][m + i],
         \A i \in 1 .. m : now - requests[k][i] >= WindowMs,
         requests' = [requests EXCEPT ![k] = Append(recent, now)],
         served' = [served EXCEPT ![k] = Append(@, now)], now' = now
  PROVE  WindowInv'
<1> DEFINE s == served[k]
           q == requests[k]
           n == Len(s)
           l == Len(recent)
<1>1. /\ s \in Seq(Nat) /\ q \in Seq(Nat) /\ Len(q) <= n /\ now \in Nat
      /\ \A i \in 1 .. Len(q) : q[i] = s[n - Len(q) + i]
      /\ \A i, j \in 1 .. n : i <= j => s[i] <= s[j]
      /\ \A i \in 1 .. n : s[i] <= now
      /\ \A i \in 1 .. (n - Len(q)) : now - s[i] >= WindowMs
      /\ \A i \in 1 .. (n - MaxRequests) : s[i + MaxRequests] - s[i] >= WindowMs
  BY DEF WindowInv, WindowBound, Remembers
<1>2. /\ n \in Nat /\ l \in Nat /\ Len(q) \in Nat /\ m \in Nat /\ m <= Len(q) /\ l = Len(q) - m
      /\ MaxRequests \in Nat /\ WindowMs \in Nat
      /\ \A i \in 1 .. n : s[i] \in Nat
  <2>1. \A t \in Seq(Nat) : Len(t) \in Nat /\ \A i \in 1 .. Len(t) : t[i] \in Nat
    OBVIOUS
  <2>2. l = Len(q) - m
    OBVIOUS
  <2>3. m \in 0 .. Len(q)
    OBVIOUS
  <2> HIDE DEF s, q
  <2> QED
    BY <1>1, <2>1, <2>2, <2>3, WindowAssumption
<1> DEFINE s2 == Append(s, now)
           q2 == Append(recent, now)
<1>3. /\ s2 \in Seq(Nat) /\ Len(s2) = n + 1 /\ s2[n + 1] = now
      /\ \A i \in 1 .. n : s2[i] = s[i]
      /\ q2 \in Seq(Nat) /\ Len(q2) = l + 1 /\ q2[l + 1] = now
      /\ \A i \in 1 .. l : q2[i] = recent[i]
  <2>1. ASSUME NEW t \in Seq(Nat)
        PROVE  /\ Append(t, now) \in Seq(Nat) /\ Len(Append(t, now)) = Len(t) + 1
               /\ Append(t, now)[Len(t) + 1] = now
               /\ \A i \in 1 .. Len(t) : Append(t, now)[i] = t[i]
    BY <1>1, AppendProperties
  <2>2. s \in Seq(Nat) /\ recent \in Seq(Nat)
    BY <1>1
  <2> QED
    BY ONLY <2>1, <2>2
<1>4. /\ DOMAIN served' = Keys /\ DOMAIN requests' = Keys
      /\ served'[k] = s2 /\ requests'[k] = q2
      /\ \A x \in Keys \ {k} : served'[x] = served[x] /\ requests'[x] = requests[x]
  BY DEF WindowInv
<1>5. \A i \in 1 .. l : recent[i] = q[m + i]
  OBVIOUS
<1>6. \A i \in 1 .. m : now - q[i] >= WindowMs
  OBVIOUS
<1>7. l < MaxRequests
  OBVIOUS
<1> HIDE DEF s, q, n, l, s2, q2
<1>8. \A i \in 1 .. (n - l) : now - s[i] >= WindowMs
  <2> SUFFICES ASSUME NEW i \in 1 .. (n - l) PROVE now - s[i] >= WindowMs
    OBVIOUS
  <2>1. CASE i <= n - Len(q)
    BY <1>1, <1>2, <2>1
  <2>2. CASE i > n - Len(q)
    <3>1. PICK j \in 1 .. m : i = n - Len(q) + j
      <4>1. i - (n - Len(q)) \in 1 .. m
        BY <1>1, <1>2, <2>2
      <4>2. i = n - Len(q) + (i - (n - Len(q)))
        BY <1>2
      <4> QED
        BY <4>1, <4>2
    <3>2. j \in 1 .. Len(q)
      BY <1>2
    <3> QED
      BY <1>1, <1>6, <3>1, <3>2
  <2> QED
    BY <1>2, <2>1, <2>2
<1>9. \A i \in 1 .. Len(q2) : q2[i] = s2[Len(s2) - Len(q2) + i]
  <2> SUFFICES ASSUME NEW i \in 1 .. Len(q2) PROVE q2[i] = s2[Len(s2) - Len(q2) + i]
    OBVIOUS
  <2>1. CASE i = l + 1
    <3>1. Len(s2) - Len(q2) + i = n + 1
      BY <1>2, <1>3, <2>1
    <3> QED
      BY <1>3, <2>1, <3>1
  <2>2. CASE i # l + 1
    <3>1. i \in 1 .. l /\ m + i \in 1 .. Len(q)
      BY SMTT(30), <1>2, <1>3, <2>2
    <3>2. q2[i] = s[n - Len(q) + (m + i)]
      BY <1>1, <1>3, <1>5, <3>1
    <3>3. /\ n - Len(q) + (m + i) = Len(s2) - Len(q2) + i
          /\ n - Len(q) + (m + i) \in 1 .. n
      BY <1>1, <1>2, <1>3, <3>1
    <3> QED
      BY <1>3, <3>2, <3>3
  <2> QED
    BY <2>1, <2>2
<1>10. \A i, j \in 1 .. Len(s2) : i <= j => s2[i] <= s2[j]
  <2>1. ASSUME NEW i \in 1 .. Len(s2), NEW j \in 1 .. Len(s2), i <= j PROVE s2[i] <= s2[j]
    <3>1. CASE j = n + 1
      <4>1. i = n + 1 \/ i \in 1 .. n
        BY <1>2, <1>3
      <4>2. CASE i = n + 1
        BY <1>1, <1>3, <3>1, <4>2
      <4>3. CASE i \in 1 .. n
        BY <1>1, <1>3, <3>1, <4>3
      <4> QED
        BY <4>1, <4>2, <4>3
    <3>2. CASE j # n + 1
      <4>1. i \in 1 .. n /\ j \in 1 .. n
        BY <1>2, <1>3, <2>1, <3>2
      <4> QED
        BY <1>1, <1>3, <2>1, <4>1
    <3> QED
      BY <3>1, <3>2
  <2> QED
    BY <2>1
<1>11. \A i \in 1 .. Len(s2) : s2[i] <= now
  <2>1. ASSUME NEW i \in 1 .. Len(s2) PROVE s2[i] <= now
    <3>1. i = n + 1 \/ i \in 1 .. n
      BY <1>2, <1>3
    <3>2. CASE i = n + 1
      BY <1>1, <1>3, <3>2
    <3>3. CASE i \in 1 .. n
      BY <1>1, <1>3, <3>3
    <3> QED
      BY <3>1, <3>2, <3>3
  <2> QED
    BY <2>1
<1>12. \A i \in 1 .. (Len(s2) - Len(q2)) : now - s2[i] >= WindowMs
  <2>1. \A i \in 1 .. (Len(s2) - Len(q2)) : i \in 1 .. (n - l) /\ i \in 1 .. n
    <3>1. Len(s2) - Len(q2) = n - l /\ n - l <= n
      BY <1>2, <1>3
    <3> QED
      BY <1>2, <3>1
  <2> QED
    BY <1>3, <1>8, <2>1
<1>13. \A i \in 1 .. (Len(s2) - MaxRequests) : s2[i + MaxRequests] - s2[i] >= WindowMs
  <2>1. ASSUME NEW i \in 1 .. (Len(s2) - MaxRequests) PROVE s2[i + MaxRequests] - s2[i] >= WindowMs
    <3>1. i \in 1 .. n
      BY <1>2, <1>3, <1>7
    <3>2. CASE i + MaxRequests = n + 1
      <4>1. i \in 1 .. (n - l)
        BY <1>2, <1>7, <3>1, <3>2
      <4> QED
        BY <1>3, <1>8, <3>1, <3>2, <4>1
    <3>3. CASE i + MaxRequests # n + 1
      <4>1. i \in 1 .. (n - MaxRequests) /\ i + MaxRequests \in 1 .. n
        BY <1>2, <1>3, <3>1, <3>3
      <4> QED
        BY <1>1, <1>3, <3>1, <4>1
    <3> QED
      BY <3>2, <3>3
  <2> QED
    BY <2>1
<1>14. Len(q2) <= Len(s2)
  BY <1>1, <1>2, <1>3
<1>15. WindowBound'
  <2> SUFFICES ASSUME NEW x \in Keys, NEW i \in 1 .. (Len(served'[x]) - MaxRequests)
               PROVE  served'[x][i + MaxRequests] - served'[x][i] >= WindowMs
    BY DEF WindowBound
  <2> QED
    BY <1>4, <1>13 DEF WindowInv, WindowBound
<1>16. Remembers(s2, q2, now)
  BY <1>3, <1>9, <1>10, <1>11, <1>12, <1>14 DEF Remembers
<1>17. \A x \in Keys : Remembers(served'[x], requests'[x], now)
  BY <1>4, <1>16 DEF WindowInv
<1> QED
  BY <1>1, <1>4, <1>15, <1>17 DEF WindowInv

\* No step of the limiters lets more through than the window allows.
LEMMA WindowStep ==
  ASSUME WindowInv, \/ Tick \/ \E k \in Keys : TryRequest(k)
                    \/ UNCHANGED <<now, requests, served>>
  PROVE  WindowInv'
<1>1. CASE UNCHANGED <<now, requests, served>>
  BY <1>1 DEF WindowInv, WindowBound
<1>2. CASE Tick
  <2>1. now' \in Nat /\ now <= now' /\ UNCHANGED <<requests, served>>
    BY <1>2, WindowAssumption DEF Tick, WindowInv
  <2>2. WindowBound'
    BY <2>1 DEF WindowInv, WindowBound
  <2>3. ASSUME NEW k \in Keys PROVE Remembers(served[k], requests[k], now')
    <3>1. Remembers(served[k], requests[k], now) /\ now \in Nat
      BY DEF WindowInv
    <3>2. PICK all \in Seq(Nat), kept \in Seq(Nat) : all = served[k] /\ kept = requests[k]
      BY <3>1 DEF Remembers
    <3>3. /\ \A i \in 1 .. Len(all) : all[i] \in Nat
          /\ \A i \in 1 .. (Len(all) - Len(kept)) : i \in 1 .. Len(all)
          /\ now' \in Nat /\ now <= now' /\ WindowMs \in Nat
      BY <2>1, WindowAssumption
    <3>4. Remembers(all, kept, now)
      BY <3>1, <3>2
    <3>5. ASSUME NEW i \in 1 .. Len(all) PROVE all[i] <= now'
      BY <3>1, <3>3, <3>4 DEF Remembers
    <3>6. ASSUME NEW i \in 1 .. (Len(all) - Len(kept)) PROVE now' - all[i] >= WindowMs
      <4>1. all[i] \in Nat /\ now - all[i] >= WindowMs
        BY <3>3, <3>4 DEF Remembers
      <4> QED
        BY <3>1, <3>3, <4>1
    <3>7. Remembers(all, kept, now')
      BY <3>4, <3>5, <3>6 DEF Remembers
    <3> QED
      BY <3>2, <3>7
  <2> QED
    BY <2>1, <2>2, <2>3 DEF WindowInv
<1>3. ASSUME NEW k \in Keys, TryRequest(k) PROVE WindowInv'
  <2>1. CASE UNCHANGED <<requests, served>>
    BY <1>1, <1>3, <2>1 DEF TryRequest
  <2>2. CASE /\ Len(Recent(requests[k])) < MaxRequests
             /\ requests' = [requests EXCEPT ![k] = Append(Recent(@), now)]
             /\ served' = [served EXCEPT ![k] = Append(@, now)]
    <3>1. requests[k] \in Seq(Nat) /\ now \in Nat /\ Remembers(served[k], requests[k], now)
      BY DEF WindowInv, Remembers
    <3>2. \A i, j \in 1 .. Len(requests[k]) : i <= j => requests[k][i] <= requests[k][j]
      BY <3>1, KeptInOrder
    <3>3. PICK m \in 0 .. Len(requests[k]) :
            /\ Recent(requests[k]) \in Seq(Nat)
            /\ Len(Recent(requests[k])) = Len(requests[k]) - m
            /\ \A i \in 1 .. (Len(requests[k]) - m) : Recent(requests[k])[i] = requests[k][m + i]
            /\ \A i \in 1 .. m : now - requests[k][i] >= WindowMs
      BY <3>1, <3>2, RecentIsEnd
    <3>4. PICK recent \in Seq(Nat) : recent = Recent(requests[k])
      BY <3>3
    <3>5. requests' = [requests EXCEPT ![k] = Append(recent, now)]
      BY <2>2, <3>4
    <3>6. now' = now
      BY <1>3 DEF TryRequest
    <3>7. /\ Len(recent) < MaxRequests /\ Len(recent) = Len(requests[k]) - m
          /\ \A i \in 1 .. Len(recent) : recent[i] = requests[k][m + i]
          /\ \A i \in 1 .. m : now - requests[k][i] >= WindowMs
          /\ served' = [served EXCEPT ![k] = Append(@, now)]
      BY <2>2, <3>3, <3>4
    <3> QED
      BY <3>5, <3>6, <3>7, WindowGrant
  <2> QED
    BY <1>3, <2>1, <2>2 DEF TryRequest
<1> QED
  BY <1>1, <1>2, <1>3

LEMMA WindowInit ==
  ASSUME LimiterInit
  PROVE  WindowInv
PROOF BY WindowAssumption DEF LimiterInit, WindowInv, WindowBound, Remembers

-----------------------------------------------------------------------------
(* Shutdown.  A request that is in the engine is in the set that drain()   *)
(* waits for, unless another call that had the same request id took it out *)
(* when it ended; and once drain() has begun none enters the engine.       *)

Replaced(c) ==
  \E other \in Calls \ {c} : phase[other] = "done" /\ request[other].id = request[c].id

StagesSound ==
  /\ stage \in {"draining", "closed"} => draining
  /\ drained = "all" => stage = "closed"

RequestsSound ==
  /\ DOMAIN phase = Calls /\ DOMAIN request = Calls /\ setting \in Settings
  /\ \A c \in Calls : phase[c] = "authenticate" => request[c] \in setting.requests

TrackedSound ==
  \A c \in Calls : phase[c] = "engine" => request[c].id \in tracked \/ Replaced(c)

DrainInv == StagesSound /\ RequestsSound /\ TrackedSound /\ DrainIsTrue

\* A step that neither enters the engine nor leaves it.
Elsewhere(c) ==
  /\ UNCHANGED <<setting, stage, tracked, draining, drained>>
  /\ DOMAIN phase' = DOMAIN phase /\ DOMAIN request' = DOMAIN request
  /\ \A x \in Calls \ {c} : phase'[x] = phase[x] /\ request'[x] = request[x]
  /\ \/ phase'[c] = phase[c] /\ request'[c] = request[c]
     \/ /\ phase[c] \notin {"engine", "done"} /\ phase'[c] # "engine"
        /\ phase'[c] = "authenticate" => request'[c] \in setting.requests

\* Where a call goes, others stay.
LEMMA Going ==
  ASSUME RequestsSound, NEW c \in Calls, NEW place, Goto(c, place)
  PROVE  /\ DOMAIN phase' = Calls /\ phase'[c] = place
         /\ \A x \in Calls \ {c} : phase'[x] = phase[x]
PROOF BY DEF Goto, RequestsSound

LEMMA ElsewhereSound ==
  ASSUME DrainInv, NEW c \in Calls, Elsewhere(c)
  PROVE  DrainInv'
<1> USE DEF DrainInv, Elsewhere
<1>1. StagesSound'
  BY DEF StagesSound
<1>2. RequestsSound'
  BY DEF RequestsSound
<1>3. \A x \in Calls : phase'[x] = "engine" => phase[x] = "engine" /\ request'[x] = request[x]
  OBVIOUS
<1>4. \A x \in Calls : phase[x] = "done" => phase'[x] = "done" /\ request'[x] = request[x]
  OBVIOUS
<1>5. ASSUME NEW x \in Calls, phase'[x] = "engine", Replaced(x) PROVE Replaced(x)'
  <2>1. PICK other \in Calls \ {x} : phase[other] = "done" /\ request[other].id = request[x].id
    BY <1>5 DEF Replaced
  <2>2. phase'[other] = "done" /\ request'[other].id = request'[x].id
    BY <1>3, <1>4, <1>5, <2>1
  <2> QED
    BY <2>2 DEF Replaced
<1>6. TrackedSound'
  BY <1>3, <1>5 DEF TrackedSound
<1>7. DrainIsTrue'
  BY <1>3, <1>5 DEF DrainIsTrue, Replaced
<1> QED
  BY <1>1, <1>2, <1>6, <1>7

\* What handle() does outside the engine.
LEMMA HandledElsewhere ==
  ASSUME RequestsSound, NEW c \in Calls,
         \/ Authenticated(c) \/ Load(c) \/ CancelEnds(c) \/ Retrieve(c)
         \/ EngineRecords(c) \/ GiveUp(c) \/ Leave(c)
  PROVE  Elsewhere(c)
<1> DEFINE Calm == UNCHANGED <<setting, stage, tracked, draining, drained>>
<1>1. CASE Authenticated(c)
  <2>1. Calm /\ phase[c] = "authenticate" /\ request' = request
    BY <1>1 DEF Authenticated, runtimeVars
  <2>2. \E place : Goto(c, place) /\ place \notin {"engine", "authenticate"}
    BY <1>1 DEF Authenticated, Answer, Answers, Route, Wait
  <2> QED
    BY <2>1, <2>2, Going DEF Elsewhere, RequestsSound
<1>2. CASE Load(c)
  <2>1. Calm /\ phase[c] = "load" /\ request' = request
    BY <1>2 DEF Load, runtimeVars
  <2>2. \E place : Goto(c, place) /\ place \notin {"engine", "authenticate"}
    BY <1>2 DEF Load, Answer, Answers, Wait
  <2> QED
    BY <2>1, <2>2, Going DEF Elsewhere, RequestsSound
<1>3. CASE CancelEnds(c)
  <2>1. Calm /\ phase[c] = "cancel" /\ request' = request /\ Goto(c, "done")
    BY <1>3 DEF CancelEnds, Answer, Answers
  <2> QED
    BY <2>1, Going DEF Elsewhere, RequestsSound
<1>4. CASE Retrieve(c)
  <2>1. Calm /\ phase[c] = "retrieve"
    BY <1>4 DEF Retrieve, runtimeVars
  <2>2. /\ DOMAIN request' = DOMAIN request
        /\ \A x \in Calls \ {c} : request'[x] = request[x]
    BY <1>4 DEF Retrieve, RequestsSound
  <2>3. \E place : Goto(c, place) /\ place \notin {"engine", "authenticate"}
    BY <1>4 DEF Retrieve, Answer, Answers, Wait
  <2> QED
    BY <2>1, <2>2, <2>3, Going DEF Elsewhere, RequestsSound
<1>5. CASE EngineRecords(c)
  BY <1>5 DEF EngineRecords, callVars, Elsewhere
<1>6. CASE GiveUp(c)
  BY <1>6 DEF GiveUp, runtimeVars, Elsewhere
<1>7. CASE Leave(c)
  <2>1. Calm /\ request' = request
    BY <1>7 DEF Leave, runtimeVars
  <2>2. phase' = phase \/ (phase[c] = "stream" /\ Goto(c, "done"))
    BY <1>7 DEF Leave
  <2> QED
    BY <2>1, <2>2, Going DEF Elsewhere, RequestsSound
<1> QED
  BY <1>1, <1>2, <1>3, <1>4, <1>5, <1>6, <1>7

\* A connection is made.
LEMMA ConnectElsewhere ==
  ASSUME RequestsSound, NEW c \in Calls, NEW r \in setting.requests, Connect(c, r)
  PROVE  Elsewhere(c)
<1>1. /\ phase[c] = "idle" /\ request' = [request EXCEPT ![c] = r]
      /\ UNCHANGED <<setting, stage, tracked, draining, drained>>
  BY DEF Connect, runtimeVars
<1>2. \E place : Goto(c, place) /\ place \in {"authenticate", "done"}
  BY DEF Connect, Answer, Answers
<1>3. /\ DOMAIN request' = Calls /\ request'[c] = r
      /\ \A x \in Calls \ {c} : request'[x] = request[x]
  BY <1>1 DEF RequestsSound
<1> QED
  BY <1>1, <1>2, <1>3, Going DEF Elsewhere, RequestsSound

\* A request gets as far as the engine, or is refused.
LEMMA EnterSound ==
  ASSUME DrainInv, NEW c \in Calls, phase[c] \notin {"engine", "done"},
         UNCHANGED <<setting, stage, draining, drained>>,
         DOMAIN request' = Calls, \A x \in Calls \ {c} : request'[x] = request[x],
         \/ draining /\ Goto(c, "done") /\ UNCHANGED tracked
         \/ ~draining /\ Goto(c, "engine") /\ tracked' = tracked \cup {request'[c].id}
  PROVE  DrainInv'
<1> USE DEF DrainInv
<1>1. CASE draining /\ Goto(c, "done") /\ UNCHANGED tracked
  <2>1. Elsewhere(c)
    BY <1>1, Going DEF Elsewhere, RequestsSound
  <2> QED
    BY <2>1, ElsewhereSound
<1>2. CASE ~draining /\ Goto(c, "engine") /\ tracked' = tracked \cup {request'[c].id}
  <2>1. /\ DOMAIN phase' = Calls /\ phase'[c] = "engine"
        /\ \A x \in Calls \ {c} : phase'[x] = phase[x]
    BY <1>2, Going
  <2>2. StagesSound' /\ RequestsSound'
    BY <2>1 DEF StagesSound, RequestsSound
  <2>3. drained' # "all"
    BY <1>2 DEF StagesSound
  <2>4. ASSUME NEW x \in Calls \ {c}, Replaced(x) PROVE Replaced(x)'
    <3>1. PICK other \in Calls \ {x} : phase[other] = "done" /\ request[other].id = request[x].id
      BY <2>4 DEF Replaced
    <3>2. phase'[other] = "done" /\ request'[other].id = request'[x].id
      BY <2>1, <3>1
    <3> QED
      BY <3>2 DEF Replaced
  <2>5. TrackedSound'
    <3> SUFFICES ASSUME NEW x \in Calls, phase'[x] = "engine"
                 PROVE  request'[x].id \in tracked' \/ Replaced(x)'
      BY DEF TrackedSound
    <3>1. CASE x = c
      BY <1>2, <3>1
    <3>2. CASE x # c
      BY <1>2, <2>1, <2>4, <3>2 DEF TrackedSound
    <3> QED
      BY <3>1, <3>2
  <2> QED
    BY <2>2, <2>3, <2>5 DEF DrainIsTrue
<1> QED
  BY <1>1, <1>2

\* The engine answers: others with the same request id have now been replaced.
LEMMA EndSound ==
  ASSUME DrainInv, NEW c \in Calls, EngineEnds(c)
  PROVE  DrainInv'
<1> USE DEF DrainInv
<1>1. /\ phase[c] = "engine" /\ Goto(c, "done") /\ tracked' = tracked \ {request[c].id}
      /\ UNCHANGED <<setting, request, stage, draining, drained>>
  BY DEF EngineEnds, Answer, Answers
<1>2. /\ DOMAIN phase' = Calls /\ phase'[c] = "done"
      /\ \A x \in Calls \ {c} : phase'[x] = phase[x]
  BY <1>1, Going
<1>3. StagesSound' /\ RequestsSound'
  BY <1>1, <1>2 DEF StagesSound, RequestsSound
<1>4. ASSUME NEW x \in Calls, phase'[x] = "engine", Replaced(x) PROVE Replaced(x)'
  <2>1. PICK other \in Calls \ {x} : phase[other] = "done" /\ request[other].id = request[x].id
    BY <1>4 DEF Replaced
  <2>2. phase'[other] = "done"
    BY <1>2, <2>1
  <2> QED
    BY <1>1, <2>1, <2>2 DEF Replaced
<1>5. ASSUME NEW x \in Calls, phase'[x] = "engine", request[x].id = request[c].id
      PROVE  Replaced(x)'
  <2>1. x # c
    BY <1>2, <1>5
  <2> QED
    BY <1>1, <1>2, <1>5, <2>1 DEF Replaced
<1>6. \A x \in Calls : phase'[x] = "engine" => phase[x] = "engine"
  BY <1>2
<1>7. TrackedSound'
  BY <1>1, <1>4, <1>5, <1>6 DEF TrackedSound
<1>8. DrainIsTrue'
  <2>1. \A x \in Calls : drained = "all" /\ phase[x] = "engine" => Replaced(x)
    BY DEF DrainIsTrue, Replaced
  <2> QED
    BY <1>1, <1>4, <1>6, <2>1 DEF DrainIsTrue, Replaced
<1> QED
  BY <1>3, <1>7, <1>8

\* A step of the server's life, or of one that is no call.
LEMMA LifeSound ==
  ASSUME DrainInv, UNCHANGED <<setting, phase, request, tracked>>, StagesSound',
         drained' = drained \/ (drained' = "all" => tracked = {})
  PROVE  DrainInv'
<1> USE DEF DrainInv
<1>1. RequestsSound' /\ TrackedSound'
  BY DEF RequestsSound, TrackedSound, Replaced
<1>2. DrainIsTrue'
  BY DEF DrainIsTrue, TrackedSound, Replaced
<1> QED
  BY <1>1, <1>2

LEMMA DrainInit ==
  ASSUME Init PROVE DrainInv
PROOF BY DEF Init, DrainInv, StagesSound, RequestsSound, TrackedSound, DrainIsTrue

LEMMA DrainStep ==
  ASSUME DrainInv, [Next]_vars PROVE DrainInv'
<1>1. CASE Construct \/ CloseBegin
  BY <1>1, LifeSound DEF Construct, CloseBegin, callVars, DrainInv, StagesSound
<1>2. CASE GatewayClosed
  BY <1>2, LifeSound DEF GatewayClosed, callVars, DrainInv, StagesSound
<1>3. CASE DrainOver
  BY <1>3, LifeSound DEF DrainOver, callVars, DrainInv, StagesSound
<1>4. ASSUME NEW c \in Calls, NEW r \in setting.requests, Connect(c, r) PROVE DrainInv'
  BY <1>4, ConnectElsewhere, ElsewhereSound DEF DrainInv
<1>5. ASSUME NEW c \in Calls, NEW r \in setting.requests, Call(c, r) PROVE DrainInv'
  <2>1. /\ phase[c] = "idle" /\ request' = [request EXCEPT ![c] = r]
        /\ UNCHANGED <<setting, stage, draining, drained>>
        /\ \/ draining /\ Goto(c, "done") /\ UNCHANGED tracked
           \/ ~draining /\ Goto(c, "engine") /\ tracked' = tracked \cup {r.id}
    BY <1>5 DEF Call, Wait
  <2>2. /\ DOMAIN request' = Calls /\ request'[c] = r
        /\ \A x \in Calls \ {c} : request'[x] = request[x]
    BY <2>1 DEF DrainInv, RequestsSound
  <2> QED
    BY <2>1, <2>2, EnterSound
<1>6. ASSUME NEW c \in Calls, BodyRead(c) PROVE DrainInv'
  <2>1. phase[c] = "read" /\ UNCHANGED <<setting, request, stage, draining, drained>>
    BY <1>6 DEF BodyRead
  <2>2. \/ Goto(c, "done") /\ UNCHANGED tracked
        \/ ~draining /\ Goto(c, "engine") /\ tracked' = tracked \cup {request[c].id}
    BY <1>6 DEF BodyRead, Answer, Answers, Decide, Enter, Wait
  <2>3. CASE Goto(c, "done") /\ UNCHANGED tracked
    <3>1. Elsewhere(c)
      BY <2>1, <2>3, Going DEF Elsewhere, DrainInv, RequestsSound
    <3> QED
      BY <3>1, ElsewhereSound
  <2>4. CASE ~draining /\ Goto(c, "engine") /\ tracked' = tracked \cup {request[c].id}
    BY <2>1, <2>4, EnterSound DEF DrainInv, RequestsSound
  <2> QED
    BY <2>2, <2>3, <2>4
<1>7. ASSUME NEW c \in Calls, Handle(c) PROVE DrainInv'
  BY <1>6, <1>7, EndSound, HandledElsewhere, ElsewhereSound DEF Handle, DrainInv
<1>8. CASE Keep \/ Limit \/ Catalogued \/ UNCHANGED vars
  <2>1. UNCHANGED <<setting, callVars, runtimeVars>>
    BY <1>8 DEF Keep, Limit, Catalogued, vars
  <2> QED
    BY <2>1, LifeSound DEF callVars, runtimeVars, DrainInv, StagesSound
<1> QED
  BY <1>1, <1>2, <1>3, <1>4, <1>5, <1>7, <1>8 DEF Next, Begin

\* What drain() reports is true, for all calls, settings and limiters and every
\* way in which requests, the engine and the shutdown interleave.
THEOREM DrainReports == Spec => []DrainIsTrue
<1>1. Init => DrainInv
  BY DrainInit
<1>2. DrainInv /\ [Next]_vars => DrainInv'
  BY DrainStep
<1>3. DrainInv => DrainIsTrue
  BY DEF DrainInv
<1> QED
  BY <1>1, <1>2, <1>3, PTL DEF Spec


-----------------------------------------------------------------------------
(* Both limiters.                                                          *)

LimiterInv == BucketInv /\ WindowInv

LEMMA LimiterStep ==
  ASSUME LimiterInv,
         \/ Tick
         \/ \E n \in Nat : Gc(n)
         \/ \E k \in Keys : TryRequest(k)
         \/ \E k \in Keys : \E n \in Nat : Consume(k, n)
         \/ UNCHANGED limiterVars
  PROVE  LimiterInv'
<1>1. CASE Tick
  BY <1>1, TickSound, WindowStep DEF LimiterInv
<1>2. ASSUME NEW n \in Nat, Gc(n) PROVE LimiterInv'
  <2>1. UNCHANGED <<now, requests, served>>
    BY <1>2 DEF Gc
  <2> QED
    BY <1>2, <2>1, GcSound, WindowStep DEF LimiterInv
<1>3. ASSUME NEW k \in Keys, TryRequest(k) PROVE LimiterInv'
  <2>1. UNCHANGED <<now, buckets, order, spent, lives, marks>>
    BY <1>3 DEF TryRequest, history
  <2> QED
    BY <1>3, <2>1, BucketsKept, WindowStep DEF LimiterInv
<1>4. ASSUME NEW k \in Keys, NEW n \in Nat, Consume(k, n) PROVE LimiterInv'
  <2>1. UNCHANGED <<now, requests, served>>
    BY <1>4 DEF Consume
  <2> QED
    BY <1>4, <2>1, ConsumeSound, WindowStep DEF LimiterInv
<1>5. CASE UNCHANGED limiterVars
  BY <1>5, BucketsKept, WindowStep DEF limiterVars, history, LimiterInv
<1> QED
  BY <1>1, <1>2, <1>3, <1>4, <1>5

LEMMA LimiterBounds ==
  ASSUME LimiterInv PROVE RateBound
PROOF BY BucketPays DEF LimiterInv, WindowInv, RateBound

\* Whatever keys are asked for, however many tokens at a time and at whatever
\* times, and whenever gc() runs, no key is granted more than a full bucket and
\* the refills since any grant, and one full bucket more for each of its buckets
\* that gc() dropped; and no window of its length holds more requests that the
\* sliding window let through than its maximum.
THEOREM GrantsBounded ==
  ASSUME NEW maxBuckets \in Nat, NEW counts \in SUBSET Nat
  PROVE  LimiterSpec(maxBuckets, counts) => []RateBound
<1>1. LimiterInit => LimiterInv
  BY BucketInit, WindowInit DEF LimiterInv
<1>2. LimiterInv /\ [LimiterNext(maxBuckets, counts)]_limiterVars => LimiterInv'
  BY LimiterStep DEF LimiterNext
<1>3. LimiterInv => RateBound
  BY LimiterBounds
<1> QED
  BY <1>1, <1>2, <1>3, PTL DEF LimiterSpec

\* The same of a server with its gateway and whatever limiters are kept beside
\* it: the gateway asks for a token for every request that it can authenticate,
\* under a key that has a configuration.
THEOREM ServerGrantsBounded == Spec => []RateBound
<1> DEFINE Inv == LimiterInv /\ DrainInv
<1>1. Init => Inv
  <2>1. Init => LimiterInv
    BY BucketInit, WindowInit DEF LimiterInv, Init
  <2> QED
    BY <2>1, DrainInit
<1>2. Inv /\ [Next]_vars => Inv'
  <2> SUFFICES ASSUME LimiterInv, DrainInv, [Next]_vars PROVE LimiterInv'
    BY DrainStep
  <2>1. ASSUME UNCHANGED limiterVars PROVE LimiterInv'
    BY <2>1, LimiterStep
  <2>2. ASSUME NEW c \in Calls, Authenticated(c) PROVE LimiterInv'
    <3>1. CASE UNCHANGED limiterVars
      BY <2>1, <3>1
    <3>2. CASE /\ Authenticate(request[c]) # Nobody
               /\ Consume(<<"principal", request[c].who>>, 1)
      <4>1. request[c] \in setting.requests /\ setting \in Settings
        BY <2>2 DEF Authenticated, DrainInv, RequestsSound
      <4>2. request[c].who # Nobody
        BY <3>2 DEF Authenticate
      <4>3. <<"principal", request[c].who>> \in Keys
        BY <4>1, <4>2, SettingsAssumption
      <4> QED
        BY <3>2, <4>3, LimiterStep
    <3> QED
      BY <2>2, <3>1, <3>2 DEF Authenticated
  <2>3. CASE Limit
    <3>1. setting \in Settings
      BY DEF DrainInv, RequestsSound
    <3>2. /\ \A r \in setting.limited : MiddlewareKey(r.type, r) \in Keys /\ r.count \in Nat
          /\ setting.maxBuckets \subseteq Nat /\ setting.windows \subseteq Keys
      BY <3>1, SettingsAssumption
    <3> QED
      BY <2>3, <3>2, LimiterStep DEF Limit
  <2>4. ASSUME NEW c \in Calls, Handle(c), ~Authenticated(c) PROVE LimiterInv'
    BY <2>1, <2>4 DEF Handle, Load, CancelEnds, Retrieve, BodyRead, EngineRecords,
                      EngineEnds, GiveUp, Leave
  <2>5. ASSUME NEW c \in Calls, Begin(c) PROVE LimiterInv'
    BY <2>1, <2>5 DEF Begin, Connect, Call
  <2>6. CASE Construct \/ CloseBegin \/ GatewayClosed \/ DrainOver \/ Keep \/ Catalogued
    BY <2>1, <2>6 DEF Construct, CloseBegin, GatewayClosed, DrainOver, Keep, Catalogued
  <2>7. CASE UNCHANGED vars
    BY <2>1, <2>7 DEF vars
  <2> QED
    BY <2>2, <2>3, <2>4, <2>5, <2>6, <2>7 DEF Next
<1>3. Inv => RateBound
  BY LimiterBounds
<1> QED
  BY <1>1, <1>2, <1>3, PTL DEF Spec

-----------------------------------------------------------------------------
(* Sorting: a place is where as many elements are ahead.                   *)

LEMMA AheadCounts ==
  ASSUME NEW S, NEW seq \in Seq(S), NEW score \in [Range(seq) -> Int],
         NEW i \in DOMAIN seq
  PROVE  Cardinality(Ahead(seq, score, i)) \in 0 .. (Len(seq) - 1)
<1>1. Len(seq) \in Nat /\ DOMAIN seq = 1 .. Len(seq)
  OBVIOUS
<1>2. IsFiniteSet(1 .. Len(seq)) /\ Cardinality(1 .. Len(seq)) = Len(seq)
  <2>1. 1 \in Int /\ Len(seq) \in Int
    BY <1>1
  <2>2. /\ IsFiniteSet(1 .. Len(seq))
        /\ Cardinality(1 .. Len(seq)) = IF 1 > Len(seq) THEN 0 ELSE Len(seq) - 1 + 1
    BY <2>1, FS_Interval
  <2> QED
    BY <1>1, <2>2
<1> DEFINE T == Ahead(seq, score, i)
<1>3. T \in SUBSET (1 .. Len(seq)) /\ i \in 1 .. Len(seq) /\ i \notin T
  <2>1. score[seq[i]] \in Int
    BY <1>1 DEF Range
  <2> QED
    BY <1>1, <2>1 DEF Ahead
<1> HIDE DEF T
<1>4. IsFiniteSet(T) /\ Cardinality(T) <= Len(seq) /\ Cardinality(T) # Len(seq)
  BY <1>2, <1>3, FS_Subset
<1>5. Cardinality(T) \in Nat
  BY <1>4, FS_CardinalityType
<1> QED
  BY <1>1, <1>4, <1>5 DEF T

LEMMA AheadFewer ==
  ASSUME NEW S, NEW seq \in Seq(S), NEW score \in [Range(seq) -> Int],
         NEW i \in DOMAIN seq, NEW j \in Ahead(seq, score, i)
  PROVE  Cardinality(Ahead(seq, score, j)) < Cardinality(Ahead(seq, score, i))
<1>1. Len(seq) \in Nat /\ DOMAIN seq = 1 .. Len(seq)
  OBVIOUS
<1>2. \A k \in 1 .. Len(seq) : score[seq[k]] \in Int
  BY <1>1 DEF Range
<1> DEFINE T == Ahead(seq, score, i)
           U == Ahead(seq, score, j)
<1>3. j \in 1 .. Len(seq) /\ j \in T /\ j \notin U /\ U \subseteq T /\ T \subseteq 1 .. Len(seq)
  BY <1>1, <1>2 DEF Ahead
<1> HIDE DEF T, U
<1>4. IsFiniteSet(1 .. Len(seq))
  BY <1>1, FS_Interval
<1>5. IsFiniteSet(T)
  BY <1>3, <1>4, FS_Subset
<1>6. IsFiniteSet(U) /\ Cardinality(U) <= Cardinality(T) /\ Cardinality(U) # Cardinality(T)
  BY <1>3, <1>5, FS_Subset
<1>7. Cardinality(U) \in Nat /\ Cardinality(T) \in Nat
  BY <1>5, <1>6, FS_CardinalityType
<1> QED
  BY <1>6, <1>7 DEF T, U

\* Every place is that of one element.
LEMMA PlaceOfOne ==
  ASSUME NEW S, NEW seq \in Seq(S), NEW score \in [Range(seq) -> Int]
  PROVE  /\ \A i, j \in DOMAIN seq :
              Cardinality(Ahead(seq, score, i)) = Cardinality(Ahead(seq, score, j)) => i = j
         /\ \A place \in DOMAIN seq : \E i \in DOMAIN seq :
              Cardinality(Ahead(seq, score, i)) = place - 1
<1> DEFINE D == 1 .. Len(seq)
           place == [i \in D |-> Cardinality(Ahead(seq, score, i)) + 1]
<1>1. Len(seq) \in Nat /\ DOMAIN seq = D
  OBVIOUS
<1>2. \A i \in D : Cardinality(Ahead(seq, score, i)) \in 0 .. (Len(seq) - 1)
  BY <1>1, AheadCounts
<1>3. ASSUME NEW i \in D, NEW j \in D,
             Cardinality(Ahead(seq, score, i)) = Cardinality(Ahead(seq, score, j))
      PROVE  i = j
  <2>1. i \notin Ahead(seq, score, j) /\ j \notin Ahead(seq, score, i)
    BY <1>1, <1>2, <1>3, AheadFewer
  <2>2. score[seq[i]] \in Int /\ score[seq[j]] \in Int
    BY <1>1 DEF Range
  <2> QED
    BY <1>1, <2>1, <2>2 DEF Ahead
<1>4. place \in [D -> D]
  BY <1>1, <1>2
<1>5. \A i, j \in D : place[i] = place[j] => i = j
  BY <1>2, <1>3
<1>6. IsFiniteSet(D)
  BY <1>1, FS_Interval
<1>7. \A p \in D : \E i \in D : place[i] = p
  <2> HIDE DEF D, place
  <2>1. place \in Injection(D, D)
    BY <1>4, <1>5 DEF Injection, IsInjective
  <2>2. place \in Surjection(D, D)
    BY <1>6, <2>1, FS_Injection
  <2> QED
    BY <2>2 DEF Surjection
<1>8. \A p \in D : \E i \in D : Cardinality(Ahead(seq, score, i)) = p - 1
  <2> TAKE p \in D
  <2>1. PICK i \in D : place[i] = p
    BY <1>7
  <2>2. Cardinality(Ahead(seq, score, i)) + 1 = p
    BY <2>1
  <2>3. Cardinality(Ahead(seq, score, i)) \in Int
    BY <1>2
  <2> QED
    BY <2>2, <2>3
<1> QED
  BY <1>1, <1>3, <1>8

\* What sorting leaves: the same elements, by falling score.
LEMMA SortedIs ==
  ASSUME NEW S, NEW seq \in Seq(S), NEW score \in [Range(seq) -> Int]
  PROVE  /\ Sorted(seq, score) \in Seq(S)
         /\ Len(Sorted(seq, score)) = Len(seq)
         /\ Range(Sorted(seq, score)) = Range(seq)
         /\ \A p, q \in 1 .. Len(seq) :
              p < q => score[Sorted(seq, score)[p]] >= score[Sorted(seq, score)[q]]
<1> DEFINE D == 1 .. Len(seq)
           rank(i) == Cardinality(Ahead(seq, score, i))
           at == [p \in D |-> CHOOSE i \in D : rank(i) = p - 1]
           r == Sorted(seq, score)
<1>1. Len(seq) \in Nat /\ DOMAIN seq = D
  OBVIOUS
<1>2. \A p \in D : at[p] \in D /\ rank(at[p]) = p - 1
  <2>1. \A p \in D : \E i \in D : rank(i) = p - 1
    BY <1>1, PlaceOfOne
  <2> HIDE DEF rank, D
  <2> QED
    BY <2>1
<1>3. r = [p \in D |-> seq[at[p]]]
  BY <1>1 DEF Sorted
<1>4. \A i \in D : seq[i] \in S /\ seq[i] \in Range(seq) /\ score[seq[i]] \in Int
  BY <1>1 DEF Range
<1>5. \A i, j \in D : rank(i) = rank(j) => i = j
  BY <1>1, PlaceOfOne
<1>6. \A i \in D : rank(i) \in 0 .. (Len(seq) - 1)
  BY <1>1, AheadCounts
<1>7. ASSUME NEW p \in D, NEW q \in D, p < q
      PROVE  score[r[p]] >= score[r[q]]
  <2>1. at[p] \in D /\ at[q] \in D /\ rank(at[p]) = p - 1 /\ rank(at[q]) = q - 1
    BY <1>2
  <2>2. rank(at[p]) < rank(at[q])
    BY <1>1, <1>7, <2>1
  <2>3. at[q] \notin Ahead(seq, score, at[p])
    <3>1. ASSUME at[q] \in Ahead(seq, score, at[p])
          PROVE  rank(at[q]) < rank(at[p])
      BY <1>1, <2>1, <3>1, AheadFewer
    <3>2. rank(at[q]) \in Int /\ rank(at[p]) \in Int
      BY <1>6, <2>1
    <3> HIDE DEF rank, at
    <3> QED
      BY <2>2, <3>1, <3>2
  <2>4. ~(score[seq[at[q]]] > score[seq[at[p]]])
    BY <1>1, <2>1, <2>3 DEF Ahead
  <2>5. score[seq[at[q]]] \in Int /\ score[seq[at[p]]] \in Int
    BY <1>4, <2>1
  <2>6. r[p] = seq[at[p]] /\ r[q] = seq[at[q]]
    BY <1>3
  <2> HIDE DEF at, r, D
  <2> QED
    BY <2>4, <2>5, <2>6
<1>8. Range(r) = Range(seq)
  <2>1. \A i \in D : rank(i) + 1 \in D /\ at[rank(i) + 1] = i
    <3>1. ASSUME NEW i \in D
          PROVE  rank(i) + 1 \in D /\ rank(i) \in Int
      BY <1>1, <1>6
    <3>2. ASSUME NEW i \in D
          PROVE  at[rank(i) + 1] = i
      <4>1. at[rank(i) + 1] \in D /\ rank(at[rank(i) + 1]) = rank(i) + 1 - 1
        BY <1>2, <3>1
      <4>2. rank(i) + 1 - 1 = rank(i)
        BY <3>1
      <4> HIDE DEF rank, at, D
      <4> QED
        BY <1>5, <4>1, <4>2
    <3> QED
      BY <3>1, <3>2
  <2> HIDE DEF rank, at, D, r
  <2>2. Range(r) = {seq[at[p]] : p \in D}
    BY <1>3 DEF Range
  <2>3. Range(seq) = {seq[i] : i \in D}
    BY <1>1 DEF Range
  <2>4. \A i \in D : \E p \in D : at[p] = i
    BY <2>1
  <2>5. \A p \in D : at[p] \in D
    BY <1>2
  <2> QED
    BY ONLY <2>2, <2>3, <2>4, <2>5
<1>9. r \in Seq(S) /\ Len(r) = Len(seq)
  <2> HIDE DEF at, r
  <2>1. \A p \in D : seq[at[p]] \in S
    BY <1>2, <1>4
  <2> QED
    BY <1>1, <1>3, <2>1
<1> QED
  BY <1>7, <1>8, <1>9

-----------------------------------------------------------------------------
(* Ranges of versions.                                                     *)

LEMMA FirstOfThree ==
  ASSUME NEW s \in Nat \X Nat \X Nat, NEW t \in Nat \X Nat \X Nat
  PROVE  FirstDifference(s, t) = IF s[1] # t[1] THEN 1 ELSE IF s[2] # t[2] THEN 2
                                 ELSE IF s[3] # t[3] THEN 3 ELSE 0
<1> DEFINE differ == {i \in 1 .. 3 : s[i] # t[i]}
           first == CHOOSE i \in differ : \A j \in differ : i <= j
<1>1. Len(s) = 3
  OBVIOUS
<1>2. FirstDifference(s, t) = IF differ = {} THEN 0 ELSE first
  BY <1>1 DEF FirstDifference
<1>3. \A k \in differ : (\A j \in differ : k <= j) => first = k
  OBVIOUS
<1>4. \A i : i \in 1 .. 3 <=> i = 1 \/ i = 2 \/ i = 3
  OBVIOUS
<1>5. /\ 1 \in differ <=> s[1] # t[1]
      /\ 2 \in differ <=> s[2] # t[2]
      /\ 3 \in differ <=> s[3] # t[3]
      /\ \A i \in differ : i = 1 \/ i = 2 \/ i = 3
  BY <1>4
<1> HIDE DEF differ, first
<1>6. CASE s[1] # t[1]
  <2>1. first = 1
    BY <1>3, <1>5, <1>6
  <2> QED
    BY <1>2, <1>5, <1>6, <2>1
<1>7. CASE s[1] = t[1] /\ s[2] # t[2]
  <2>1. first = 2
    BY <1>3, <1>5, <1>7
  <2> QED
    BY <1>2, <1>5, <1>7, <2>1
<1>8. CASE s[1] = t[1] /\ s[2] = t[2] /\ s[3] # t[3]
  <2>1. first = 3
    BY <1>3, <1>5, <1>8
  <2> QED
    BY <1>2, <1>5, <1>8, <2>1
<1>9. CASE s[1] = t[1] /\ s[2] = t[2] /\ s[3] = t[3]
  <2>1. differ = {}
    BY <1>5, <1>9
  <2> QED
    BY <1>2, <1>9, <2>1
<1> QED
  BY <1>6, <1>7, <1>8, <1>9

LEMMA BelowIs ==
  ASSUME NEW v \in Version, NEW w \in Version
  PROVE  Below(v, w) <=>
           \/ v.main[1] < w.main[1]
           \/ v.main[1] = w.main[1] /\ v.main[2] < w.main[2]
           \/ v.main[1] = w.main[1] /\ v.main[2] = w.main[2] /\ v.main[3] < w.main[3]
           \/ v.main[1] = w.main[1] /\ v.main[2] = w.main[2] /\ v.main[3] = w.main[3]
              /\ PrereleaseBelow(v.pre, w.pre)
<1>1. v.main \in Nat \X Nat \X Nat /\ w.main \in Nat \X Nat \X Nat
  BY DEF Version
<1>2. /\ v.main[1] \in Nat /\ v.main[2] \in Nat /\ v.main[3] \in Nat
      /\ w.main[1] \in Nat /\ w.main[2] \in Nat /\ w.main[3] \in Nat
  BY <1>1
<1>3. FirstDifference(v.main, w.main) =
        IF v.main[1] # w.main[1] THEN 1 ELSE IF v.main[2] # w.main[2] THEN 2
        ELSE IF v.main[3] # w.main[3] THEN 3 ELSE 0
  BY <1>1, FirstOfThree
<1> QED
  BY <1>2, <1>3 DEF Below

\* A release is of the type, and only prereleases of its numbers are below it
\* beside what has lower numbers.
LEMMA BelowRelease ==
  ASSUME NEW v \in Version, NEW a \in Nat, NEW b \in Nat, NEW c \in Nat
  PROVE  /\ Release(a, b, c) \in Version
         /\ Below(v, Release(a, b, c)) <=>
              \/ v.main[1] < a
              \/ v.main[1] = a /\ v.main[2] < b
              \/ v.main[1] = a /\ v.main[2] = b /\ v.main[3] < c
              \/ v.main[1] = a /\ v.main[2] = b /\ v.main[3] = c /\ v.pre # <<>>
<1> DEFINE r == Release(a, b, c)
<1>1. r \in Version
  <2>1. <<a, b, c>> \in Nat \X Nat \X Nat /\ <<>> \in Seq([numeric : BOOLEAN, rank : Nat])
    OBVIOUS
  <2> QED
    BY <2>1 DEF Release, Version
<1>2. r.main[1] = a /\ r.main[2] = b /\ r.main[3] = c /\ r.pre = <<>>
  BY DEF Release
<1>3. PrereleaseBelow(v.pre, <<>>) <=> v.pre # <<>>
  BY DEF PrereleaseBelow
<1> HIDE DEF r
<1>4. Below(v, r) <=>
        \/ v.main[1] < a
        \/ v.main[1] = a /\ v.main[2] < b
        \/ v.main[1] = a /\ v.main[2] = b /\ v.main[3] < c
        \/ v.main[1] = a /\ v.main[2] = b /\ v.main[3] = c /\ PrereleaseBelow(v.pre, <<>>)
  BY <1>1, <1>2, BelowIs
<1> QED
  BY <1>1, <1>3, <1>4 DEF r

LEMMA SameNumbers ==
  ASSUME NEW v \in Version, NEW w \in Version
  PROVE  /\ SameUpTo(v, w, 1) <=> v.main[1] = w.main[1]
         /\ SameUpTo(v, w, 2) <=> v.main[1] = w.main[1] /\ v.main[2] = w.main[2]
         /\ SameUpTo(v, w, 3) <=>
              v.main[1] = w.main[1] /\ v.main[2] = w.main[2] /\ v.main[3] = w.main[3]
<1>1. v.main \in Nat \X Nat \X Nat /\ w.main \in Nat \X Nat \X Nat
  BY DEF Version
<1>2. ASSUME NEW n \in 1 .. 3
      PROVE  SameUpTo(v, w, n) <=> \A i \in 1 .. n : v.main[i] = w.main[i]
  <2>1. ASSUME NEW x \in Nat \X Nat \X Nat
        PROVE  SubSeq(x, 1, n) = [i \in 1 .. n |-> x[i]]
    <3>1. \A i \in 1 .. n : x[i] \in Nat
      <4>1. x[1] \in Nat /\ x[2] \in Nat /\ x[3] \in Nat
        OBVIOUS
      <4>2. \A i \in 1 .. n : i = 1 \/ i = 2 \/ i = 3
        OBVIOUS
      <4> QED
        BY <4>1, <4>2
    <3>2. /\ SubSeq(x, 1, n) \in Seq(Nat) /\ Len(SubSeq(x, 1, n)) = n
          /\ \A i \in 1 .. n : SubSeq(x, 1, n)[i] = x[i]
      <4>1. \A i \in 1 .. n : 1 + i - 1 = i
        OBVIOUS
      <4> QED
        BY <3>1, <4>1, SubSeqProperties
    <3> QED
      BY <3>2
  <2>2. /\ SubSeq(v.main, 1, n) = [i \in 1 .. n |-> v.main[i]]
        /\ SubSeq(w.main, 1, n) = [i \in 1 .. n |-> w.main[i]]
    BY <1>1, <2>1
  <2> QED
    BY <2>2 DEF SameUpTo
<1>3. /\ \A i : i \in 1 .. 1 <=> i = 1
      /\ \A i : i \in 1 .. 2 <=> i = 1 \/ i = 2
      /\ \A i : i \in 1 .. 3 <=> i = 1 \/ i = 2 \/ i = 3
  OBVIOUS
<1> QED
  BY <1>2, <1>3

\* The bound of a caret or a tilde is where what it holds fixed ends, but for the
\* prereleases of the bound.
LEMMA BoundIs ==
  ASSUME NEW v \in Version, NEW w \in Version, ~Below(v, w), NEW op \in {"^", "~"},
         NEW bounds, bounds = (IF op = "^" THEN CaretRange(w) ELSE TildeRange(w)),
         NEW fixed, fixed = (IF op = "^" THEN Leading(w) ELSE 2)
  PROVE  /\ SameUpTo(v, w, fixed) => \A c \in bounds : MatchesComparator(v, c)
         /\ (v.pre = <<>> /\ \A c \in bounds : MatchesComparator(v, c)) => SameUpTo(v, w, fixed)
<1>1. v.main \in Nat \X Nat \X Nat /\ w.main \in Nat \X Nat \X Nat
  BY DEF Version
<1>2. /\ v.main[1] \in Nat /\ v.main[2] \in Nat /\ v.main[3] \in Nat
      /\ w.main[1] \in Nat /\ w.main[2] \in Nat /\ w.main[3] \in Nat
  BY <1>1
<1> DEFINE a == w.main[1]
           b == w.main[2]
           d == w.main[3]
<1>3. \/ v.main[1] > a
      \/ v.main[1] = a /\ v.main[2] > b
      \/ v.main[1] = a /\ v.main[2] = b /\ v.main[3] >= d
  BY <1>2, BelowIs
<1>4. \A limit : (\A c \in From(w, limit) : MatchesComparator(v, c)) <=> Below(v, limit)
  BY DEF From, MatchesComparator
<1> DEFINE limit == IF op = "~" THEN Release(a, b + 1, 0)
                    ELSE IF a > 0 THEN Release(a + 1, 0, 0)
                    ELSE IF b > 0 THEN Release(0, b + 1, 0) ELSE Release(0, 0, d + 1)
<1>5. bounds = From(w, limit)
  BY <1>2 DEF CaretRange, TildeRange
<1>6. /\ Below(v, Release(a, b + 1, 0)) <=>
           \/ v.main[1] < a
           \/ v.main[1] = a /\ v.main[2] < b + 1
           \/ v.main[1] = a /\ v.main[2] = b + 1 /\ v.main[3] < 0
           \/ v.main[1] = a /\ v.main[2] = b + 1 /\ v.main[3] = 0 /\ v.pre # <<>>
      /\ Below(v, Release(a + 1, 0, 0)) <=>
           \/ v.main[1] < a + 1
           \/ v.main[1] = a + 1 /\ v.main[2] < 0
           \/ v.main[1] = a + 1 /\ v.main[2] = 0 /\ v.main[3] < 0
           \/ v.main[1] = a + 1 /\ v.main[2] = 0 /\ v.main[3] = 0 /\ v.pre # <<>>
      /\ Below(v, Release(0, b + 1, 0)) <=>
           \/ v.main[1] < 0
           \/ v.main[1] = 0 /\ v.main[2] < b + 1
           \/ v.main[1] = 0 /\ v.main[2] = b + 1 /\ v.main[3] < 0
           \/ v.main[1] = 0 /\ v.main[2] = b + 1 /\ v.main[3] = 0 /\ v.pre # <<>>
      /\ Below(v, Release(0, 0, d + 1)) <=>
           \/ v.main[1] < 0
           \/ v.main[1] = 0 /\ v.main[2] < 0
           \/ v.main[1] = 0 /\ v.main[2] = 0 /\ v.main[3] < d + 1
           \/ v.main[1] = 0 /\ v.main[2] = 0 /\ v.main[3] = d + 1 /\ v.pre # <<>>
  <2>1. a + 1 \in Nat /\ b + 1 \in Nat /\ d + 1 \in Nat /\ 0 \in Nat
    BY <1>2
  <2>2. a \in Nat /\ b \in Nat /\ d \in Nat
    BY <1>2
  <2> HIDE DEF a, b, d
  <2> QED
    BY <2>1, <2>2, BelowRelease
<1>7. fixed = IF op = "~" THEN 2 ELSE IF a > 0 THEN 1 ELSE IF b > 0 THEN 2 ELSE 3
  BY <1>2 DEF Leading
<1>8. /\ SameUpTo(v, w, 1) <=> v.main[1] = a
      /\ SameUpTo(v, w, 2) <=> v.main[1] = a /\ v.main[2] = b
      /\ SameUpTo(v, w, 3) <=> v.main[1] = a /\ v.main[2] = b /\ v.main[3] = d
  BY SameNumbers
<1>9. (\A c \in bounds : MatchesComparator(v, c)) <=> Below(v, limit)
  <2> HIDE DEF limit
  <2> QED
    BY <1>4, <1>5
<1> HIDE DEF limit
<1>10. CASE op = "~"
  <2>1. fixed = 2 /\ limit = Release(a, b + 1, 0)
    BY <1>7, <1>10 DEF limit
  <2>2. Below(v, limit) => (v.main[1] < a) \/ (v.main[1] = a /\ v.main[2] < b + 1) \/ v.pre # <<>>
    BY <1>2, <1>6, <2>1
  <2>3. v.main[1] = a /\ v.main[2] = b => Below(v, limit)
    BY <1>2, <1>6, <2>1
  <2> QED
    BY <1>2, <1>3, <1>8, <1>9, <2>1, <2>2, <2>3
<1>11. CASE op = "^" /\ a > 0
  <2>1. fixed = 1 /\ limit = Release(a + 1, 0, 0)
    BY <1>7, <1>11 DEF limit
  <2>2. Below(v, limit) => (v.main[1] < a + 1) \/ v.pre # <<>>
    BY <1>2, <1>6, <2>1
  <2>3. v.main[1] = a => Below(v, limit)
    BY <1>2, <1>6, <2>1
  <2> QED
    BY <1>2, <1>3, <1>8, <1>9, <2>1, <2>2, <2>3
<1>12. CASE op = "^" /\ ~(a > 0) /\ b > 0
  <2>1. fixed = 2 /\ limit = Release(0, b + 1, 0) /\ a = 0
    BY <1>2, <1>7, <1>12 DEF limit
  <2>2. Below(v, limit) => (v.main[1] = 0 /\ v.main[2] < b + 1) \/ v.pre # <<>>
    BY <1>2, <1>6, <2>1
  <2>3. v.main[1] = 0 /\ v.main[2] = b => Below(v, limit)
    BY <1>2, <1>6, <2>1
  <2> QED
    BY <1>2, <1>3, <1>8, <1>9, <2>1, <2>2, <2>3
<1>13. CASE op = "^" /\ ~(a > 0) /\ ~(b > 0)
  <2>1. fixed = 3 /\ limit = Release(0, 0, d + 1) /\ a = 0 /\ b = 0
    BY <1>2, <1>7, <1>13 DEF limit
  <2>2. Below(v, limit) => (v.main[1] = 0 /\ v.main[2] = 0 /\ v.main[3] < d + 1) \/ v.pre # <<>>
    BY <1>2, <1>6, <2>1
  <2>3. v.main[1] = 0 /\ v.main[2] = 0 /\ v.main[3] = d => Below(v, limit)
    BY <1>2, <1>6, <2>1
  <2> QED
    BY <1>2, <1>3, <1>8, <1>9, <2>1, <2>2, <2>3
<1> QED
  BY <1>10, <1>11, <1>12, <1>13

LEMMA WordsAdmit ==
  ASSUME NEW v \in Version, NEW words \in Seq(Words), Readable(words), None \notin Version
  PROVE  /\ (\A j \in DOMAIN words : Admits(words[j], v))
              => \A c \in ParseRange(words) : MatchesComparator(v, c)
         /\ (v.pre = <<>> /\ \A c \in ParseRange(words) : MatchesComparator(v, c))
              => \A j \in DOMAIN words : Admits(words[j], v)
<1>0. Len(words) \in Nat /\ DOMAIN words = 1 .. Len(words) /\ Len(<<>>) = 0 /\ 1 .. 1 = {1}
  OBVIOUS
<1>1. /\ Len(words) \in Nat /\ DOMAIN words = 1 .. Len(words)
      /\ Len(words) = 1 => DOMAIN words = {1} /\ words # <<>>
      /\ Len(words) > 1 => words # <<>>
  BY <1>0
<1>2. \A j \in DOMAIN words : words[j] \in Words /\ words[j].version \in Version
  <2> TAKE j \in DOMAIN words
  <2>1. words[j] \in Words
    BY <1>1
  <2>2. words[j].version # None
    BY DEF Readable
  <2> QED
    BY <2>1, <2>2 DEF Words, Text
<1>3. CASE words = <<>>
  BY <1>3 DEF ParseRange
<1>4. CASE Len(words) = 1 /\ words[1].op \in {"^", "~"}
  <2> DEFINE w == words[1].version
             op == words[1].op
  <2>1. DOMAIN words = {1} /\ w \in Version /\ w # None /\ words # <<>>
    BY <1>1, <1>2, <1>4
  <2>2. ParseRange(words) = IF op = "^" THEN CaretRange(w) ELSE TildeRange(w)
    BY <1>4, <2>1 DEF ParseRange
  <2>3. Admits(words[1], v) <=>
          ~Below(v, w) /\ SameUpTo(v, w, IF op = "^" THEN Leading(w) ELSE 2)
    BY <1>4 DEF Admits
  <2>4. (\A c \in ParseRange(words) : MatchesComparator(v, c)) => ~Below(v, w)
    <3>1. [op |-> ">=", version |-> w] \in ParseRange(words)
      BY <1>4, <2>2 DEF CaretRange, TildeRange, From
    <3>2. MatchesComparator(v, [op |-> ">=", version |-> w]) <=> ~Below(v, w)
      BY DEF MatchesComparator
    <3> QED
      BY <3>1, <3>2
  <2> HIDE DEF w, op
  <2>5. ASSUME ~Below(v, w)
        PROVE  /\ SameUpTo(v, w, IF op = "^" THEN Leading(w) ELSE 2)
                    => \A c \in ParseRange(words) : MatchesComparator(v, c)
               /\ (v.pre = <<>> /\ \A c \in ParseRange(words) : MatchesComparator(v, c))
                    => SameUpTo(v, w, IF op = "^" THEN Leading(w) ELSE 2)
    BY <1>4, <2>1, <2>2, <2>5, BoundIs DEF op
  <2> QED
    BY <2>1, <2>3, <2>4, <2>5
<1>5. CASE Len(words) = 1 /\ words[1].op = "none"
  <2> DEFINE w == words[1].version
  <2>1. DOMAIN words = {1} /\ w # None /\ words # <<>>
    BY <1>1, <1>2, <1>5
  <2>2. ParseRange(words) = {[op |-> "=", version |-> w]}
    BY <1>5, <2>1 DEF ParseRange
  <2>3. MatchesComparator(v, [op |-> "=", version |-> w]) <=> v = w
    BY DEF MatchesComparator
  <2>4. Admits(words[1], v) <=> v = w
    BY <1>5 DEF Admits
  <2> QED
    BY <2>1, <2>2, <2>3, <2>4
<1>6. CASE words # <<>> /\ \A j \in DOMAIN words : words[j].op \notin {"none", "^", "~"}
  <2>1. 1 \in DOMAIN words
    BY <1>1, <1>6
  <2> DEFINE comparator(j) == [op |-> words[j].op, version |-> words[j].version]
  <2>2. ParseRange(words) = UNION {ParseComparator(words[j]) : j \in DOMAIN words}
    BY <1>6, <2>1 DEF ParseRange
  <2>3. ASSUME NEW j \in DOMAIN words
        PROVE  /\ ParseComparator(words[j]) = {comparator(j)}
               /\ MatchesComparator(v, comparator(j)) <=> Admits(words[j], v)
    <3>1. words[j].version # None /\ ~(Len(words[j].version.pre) > 1)
      <4> DEFINE pre == words[j].version.pre
      <4>1. words[j].version # None /\ Len(pre) <= 1
        BY <1>6 DEF Readable
      <4>2. words[j].version \in Version
        BY <1>2
      <4>3. pre \in Seq([numeric : BOOLEAN, rank : Nat])
        BY <4>2 DEF Version
      <4> HIDE DEF pre
      <4>4. Len(pre) \in Nat
        BY <4>3
      <4>5. ~(Len(pre) > 1)
        BY <4>1, <4>4
      <4> QED
        BY <4>1, <4>5 DEF pre
    <3>2. ParseComparator(words[j]) = {comparator(j)}
      BY <1>6, <3>1 DEF ParseComparator
    <3>3. words[j].op \in {"=", ">", ">=", "<", "<="}
      BY <1>2, <1>6 DEF Words, Text
    <3>4. MatchesComparator(v, comparator(j)) <=> Admits(words[j], v)
      BY <3>3 DEF MatchesComparator, Admits
    <3> QED
      BY <3>2, <3>4
  <2> HIDE DEF comparator
  <2>4. ParseRange(words) = {comparator(j) : j \in DOMAIN words}
    BY <2>2, <2>3
  <2> QED
    BY <2>3, <2>4
<1>7. Len(words) > 1 => \A j \in DOMAIN words : words[j].op \notin {"none", "^", "~"}
  BY DEF Readable
<1>8. words = <<>> \/ Len(words) = 1 \/ Len(words) > 1
  <2>1. Len(words) = 0 => words = <<>>
    OBVIOUS
  <2> QED
    BY <1>1, <2>1
<1> QED
  BY <1>1, <1>3, <1>4, <1>5, <1>6, <1>7, <1>8

\* Satisfying a range is being in it, for a release; what is in it satisfies it.
LEMMA RangesRead ==
  ASSUME NEW v \in Version, NEW range \in Seq(Seq(Words)), None \notin Version,
         \A i \in DOMAIN range : Readable(range[i])
  PROVE  /\ InRange(v, range) => Satisfies(v, range)
         /\ (Satisfies(v, range) /\ v.pre = <<>>) => InRange(v, range)
<1>1. \A i \in DOMAIN range : range[i] \in Seq(Words)
  OBVIOUS
<1>2. v # None
  OBVIOUS
<1>3. \A i \in DOMAIN range :
        /\ (\A j \in DOMAIN range[i] : Admits(range[i][j], v))
             => \A c \in ParseRange(range[i]) : MatchesComparator(v, c)
        /\ (v.pre = <<>> /\ \A c \in ParseRange(range[i]) : MatchesComparator(v, c))
             => \A j \in DOMAIN range[i] : Admits(range[i][j], v)
  BY <1>1, WordsAdmit
<1> QED
  BY <1>2, <1>3 DEF InRange, Satisfies

-----------------------------------------------------------------------------
(* What the catalogue answered last is still what it would answer.         *)

Entry == [contract : UNION {s.contracts : s \in Settings}, health : Health]
Profile == UNION {s.profiles : s \in Settings}

Answered(q, result) ==
  /\ q \in UNION {s.questions : s \in Settings}
  /\ q.kind = "reference" => result = ResolveRef(q.id, q.range)
  /\ q.kind = "provider" => result.selected = Best(Candidates(q))
  /\ q.kind = "intent" => result = Matches(q)

CatalogueInv ==
  /\ setting \in Settings
  /\ registered \in Seq(Entry) /\ profiles \in Seq(Profile)
  /\ answer # NoAnswer => Answered(answer.question, answer.result)

LEMMA CatalogueTypes ==
  ASSUME setting \in Settings
  PROVE  /\ None \notin Version /\ None \notin Entry /\ None \notin Profile
         /\ \A c \in Entry :
              /\ c.contract.version \in Version /\ c.contract.risk \in DOMAIN RiskOrder
              /\ c.contract.cost \in Nat \cup {None} /\ c.contract.p95 \in Nat \cup {None}
              /\ c.health \in Health
         /\ \A p \in Profile :
              p.cost \in Nat \cup {None} /\ p.p95 \in Nat \cup {None} /\ p.quality \in Nat \cup {None}
         /\ \A s \in Settings : \A q \in s.questions :
              /\ q.kind = "reference" => q.range \in Seq(Seq(Words))
              /\ q.kind = "intent" => q.limit \in Nat
<1> USE CatalogueAssumption
<1>1. None \notin Version /\ None \notin Profile
  BY DEF Profile
<1>2. None \notin Entry
  <2>1. ASSUME None \in Entry PROVE FALSE
    <3>1. PICK s \in Settings : None \in [contract : s.contracts, health : Health]
      BY <2>1 DEF Entry
    <3> QED
      BY <3>1
  <2> QED
    BY <2>1
<1>3. ASSUME NEW c \in Entry
      PROVE  /\ c.contract.version \in Version /\ c.contract.risk \in DOMAIN RiskOrder
             /\ c.contract.cost \in Nat \cup {None} /\ c.contract.p95 \in Nat \cup {None}
             /\ c.health \in Health
  <2>1. PICK s \in Settings : c.contract \in s.contracts
    BY DEF Entry
  <2>2. c.health \in Health
    BY DEF Entry
  <2> QED
    BY <2>1, <2>2
<1>4. ASSUME NEW p \in Profile
      PROVE  p.cost \in Nat \cup {None} /\ p.p95 \in Nat \cup {None} /\ p.quality \in Nat \cup {None}
  BY DEF Profile
<1>5. \A s \in Settings : \A q \in s.questions :
        /\ q.kind = "reference" => q.range \in Seq(Seq(Words))
        /\ q.kind = "intent" => q.limit \in Nat
  OBVIOUS
<1> QED
  BY <1>1, <1>2, <1>3, <1>4, <1>5

\* An answer depends on what is registered only.
LEMMA AnswerStays ==
  ASSUME UNCHANGED <<registered, profiles>>, NEW q
  PROVE  /\ ResolveRef(q.id, q.range)' = ResolveRef(q.id, q.range)
         /\ Best(Candidates(q))' = Best(Candidates(q))
         /\ Matches(q)' = Matches(q)
<1>1. ResolveRef(q.id, q.range)' = ResolveRef(q.id, q.range)
  BY DEF ResolveRef, OfId, Entries
<1>2. Best(Candidates(q))' = Best(Candidates(q))
  BY DEF Candidates
<1>3. Matches(q)' = Matches(q)
  BY DEF Matches, Entries
<1> QED
  BY <1>1, <1>2, <1>3

LEMMA AnswersKept ==
  ASSUME CatalogueInv, UNCHANGED <<setting, catalogueVars>>
  PROVE  CatalogueInv'
<1>1. UNCHANGED <<setting, registered, profiles, answer>>
  BY DEF catalogueVars
<1>2. answer # NoAnswer => Answered(answer.question, answer.result)'
  <2> DEFINE q == answer.question
  <2>1. /\ ResolveRef(q.id, q.range)' = ResolveRef(q.id, q.range)
        /\ Best(Candidates(q))' = Best(Candidates(q))
        /\ Matches(q)' = Matches(q)
    BY <1>1, AnswerStays
  <2> QED
    BY <1>1, <2>1 DEF CatalogueInv, Answered
<1> QED
  BY <1>1, <1>2 DEF CatalogueInv

LEMMA Inserted ==
  ASSUME NEW S, NEW seq \in Seq(S), NEW x \in S, NEW i \in 1 .. (Len(seq) + 1)
  PROVE  InsertAt(seq, i, x) \in Seq(S)
<1>1. /\ SubSeq(seq, 1, i - 1) \in Seq(S)
      /\ SubSeq(seq, i, Len(seq)) \in Seq(S)
  OBVIOUS
<1>2. <<x>> \in Seq(S)
  OBVIOUS
<1>3. SubSeq(seq, 1, i - 1) \o <<x>> \in Seq(S)
  BY <1>1, <1>2, Joined
<1> QED
  BY <1>1, <1>3, Joined DEF InsertAt

LEMMA BehindIs ==
  ASSUME registered \in Seq(Entry), NEW id
  PROVE  Behind(id) \in 1 .. (Len(registered) + 1)
<1> DEFINE own == {i \in DOMAIN registered : registered[i].contract.id = id}
<1>1. Len(registered) \in Nat /\ DOMAIN registered = 1 .. Len(registered)
  OBVIOUS
<1>2. CASE own = {}
  BY <1>1, <1>2 DEF Behind
<1>3. CASE own # {}
  <2>1. \E i \in own : \A j \in own : j <= i
    <3>1. own \in SUBSET (1 .. Len(registered))
      BY <1>1
    <3>2. PICK i \in own : \A j \in own : i >= j
      <4> HIDE DEF own
      <4> QED
        BY <1>1, <1>3, <3>1, LargestOf
    <3>3. \A j \in own : j <= i
      BY <1>1, <3>2
    <3> QED
      BY <3>3
  <2> DEFINE last == CHOOSE i \in own : \A j \in own : j <= i
  <2>2. last \in own
    BY <2>1
  <2>3. Behind(id) = 1 + last
    BY <1>3 DEF Behind
  <2> QED
    BY <1>1, <2>2, <2>3
<1> QED
  BY <1>2, <1>3

LEMMA CatalogueStep ==
  ASSUME CatalogueInv, Catalogued
  PROVE  CatalogueInv'
<1>1. setting' = setting /\ setting \in Settings /\ registered \in Seq(Entry) /\ profiles \in Seq(Profile)
  BY DEF Catalogued, CatalogueInv
<1>2. ASSUME NEW contract \in setting.contracts, Register(contract) PROVE CatalogueInv'
  <2>1. [contract |-> contract, health |-> "healthy"] \in Entry
    BY <1>1 DEF Entry, Health
  <2>2. registered' \in Seq(Entry)
    BY <1>1, <1>2, <2>1, Inserted, BehindIs DEF Register
  <2> QED
    BY <1>1, <1>2, <2>2 DEF Register, CatalogueInv
<1>3. ASSUME NEW u \in setting.unregistered, Unregister(u.id, u.provider, u.version)
      PROVE  CatalogueInv'
  <2>1. \A keep : Filter(registered, keep) \in Seq(Entry)
    BY <1>1, FilterIs
  <2>2. registered' \in Seq(Entry) /\ UNCHANGED profiles /\ answer' = NoAnswer
    BY <1>3, <2>1 DEF Unregister
  <2> QED
    BY <1>1, <2>2 DEF CatalogueInv
<1>4. ASSUME NEW h \in setting.health, SetHealth(h.id, h.provider, h.health)
      PROVE  CatalogueInv'
  <2>1. h.health \in Health
    BY <1>1, CatalogueAssumption
  <2>2. \A i \in DOMAIN registered : registered[i] \in Entry
    BY <1>1
  <2>3. \A c \in Entry : [c EXCEPT !.health = h.health] \in Entry
    BY <2>1 DEF Entry
  <2>4. Len(registered) \in Nat /\ DOMAIN registered = 1 .. Len(registered)
    BY <1>1
  <2>5. registered' \in Seq(Entry)
    BY <1>4, <2>2, <2>3, <2>4 DEF SetHealth
  <2> QED
    BY <1>1, <1>4, <2>5 DEF SetHealth, CatalogueInv
<1>5. ASSUME NEW profile \in setting.profiles, RegisterProfile(profile) PROVE CatalogueInv'
  <2>1. profile \in Profile
    BY <1>1 DEF Profile
  <2>2. profiles' \in Seq(Profile)
    BY <1>1, <1>5, <2>1 DEF RegisterProfile
  <2> QED
    BY <1>1, <1>5, <2>2 DEF RegisterProfile, CatalogueInv
<1>6. ASSUME NEW q \in setting.questions, Ask(q) PROVE CatalogueInv'
  <2>1. PICK result : Told(q, result) /\ Answered(q, result)
    <3>1. q \in UNION {s.questions : s \in Settings}
      BY <1>1
    <3>2. CASE q.kind = "reference" /\ Resolve(q)
      BY <3>1, <3>2 DEF Resolve, Answered
    <3>3. CASE q.kind = "discovery" /\ Told(q, Discover(q.query))
      BY <3>1, <3>3 DEF Answered
    <3>4. CASE q.kind = "provider" /\ SelectProvider(q)
      <4> DEFINE result == [selected |-> Best(Candidates(q)),
             alternatives |-> IF Candidates(q) = <<>> THEN <<>> ELSE Tail(Candidates(q))]
      <4>1. Told(q, result)
        BY <3>4 DEF SelectProvider
      <4>2. Answered(q, result)
        BY <3>1, <3>4 DEF Answered
      <4> QED
        BY <4>1, <4>2
    <3>5. CASE q.kind = "intent" /\ ResolveIntent(q)
      BY <3>1, <3>5 DEF ResolveIntent, Answered
    <3> QED
      BY <1>6, <3>2, <3>3, <3>4, <3>5 DEF Ask
  <2>2. /\ UNCHANGED <<registered, profiles>>
        /\ answer'.question = q /\ answer'.result = result
    BY <2>1 DEF Told
  <2>3. /\ ResolveRef(q.id, q.range)' = ResolveRef(q.id, q.range)
        /\ Best(Candidates(q))' = Best(Candidates(q))
        /\ Matches(q)' = Matches(q)
    BY <2>2, AnswerStays
  <2>4. Answered(answer.question, answer.result)'
    BY <2>1, <2>2, <2>3 DEF Answered
  <2> QED
    BY <1>1, <2>2, <2>4 DEF CatalogueInv
<1> QED
  BY <1>2, <1>3, <1>4, <1>5, <1>6 DEF Catalogued

LEMMA CatalogueHolds == Spec => []CatalogueInv
<1>1. Init => CatalogueInv
  <2>1. Init => setting \in Settings /\ registered = <<>> /\ profiles = <<>> /\ answer = NoAnswer
    BY DEF Init, CatalogueInit
  <2>2. \A S : <<>> \in Seq(S)
    OBVIOUS
  <2> QED
    BY <2>1, <2>2 DEF CatalogueInv
<1>2. CatalogueInv /\ [Next]_vars => CatalogueInv'
  <2> SUFFICES ASSUME CatalogueInv, [Next]_vars, ~Catalogued PROVE CatalogueInv'
    BY CatalogueStep
  <2>1. SUFFICES UNCHANGED <<setting, catalogueVars>>
    BY AnswersKept
  <2>2. ASSUME NEW c \in Calls, Handle(c) PROVE UNCHANGED <<setting, catalogueVars>>
    BY <2>2 DEF Handle, Authenticated, Load, CancelEnds, Retrieve, BodyRead, EngineRecords,
                EngineEnds, GiveUp, Leave
  <2>3. ASSUME NEW c \in Calls, Begin(c) PROVE UNCHANGED <<setting, catalogueVars>>
    BY <2>3 DEF Begin, Connect, Call
  <2>4. CASE Construct \/ CloseBegin \/ GatewayClosed \/ DrainOver \/ Keep \/ Limit
    BY <2>4 DEF Construct, CloseBegin, GatewayClosed, DrainOver, Keep, Limit
  <2>5. CASE UNCHANGED vars
    BY <2>5 DEF vars
  <2> QED
    BY <2>2, <2>3, <2>4, <2>5 DEF Next
<1> QED
  BY <1>1, <1>2, PTL DEF Spec

-----------------------------------------------------------------------------
(* What is chosen.                                                         *)

LEMMA SomethingIn ==
  ASSUME NEW S, NEW seq \in Seq(S)
  PROVE  /\ seq = <<>> <=> Range(seq) = {}
         /\ seq # <<>> => seq[1] \in Range(seq)
         /\ Range(seq) \subseteq S
<1>1. Len(seq) \in Nat /\ DOMAIN seq = 1 .. Len(seq)
  OBVIOUS
<1>2. seq = <<>> => DOMAIN seq = {}
  OBVIOUS
<1>3. seq # <<>> => 1 \in DOMAIN seq
  OBVIOUS
<1>4. \A i \in DOMAIN seq : seq[i] \in S
  OBVIOUS
<1> QED
  BY <1>2, <1>3, <1>4 DEF Range

LEMMA ReferenceInRange ==
  ASSUME CatalogueInv
  PROVE  ResolvesInRange
<1> SUFFICES ASSUME Asked("reference")
             PROVE  ResolvesInRange
  BY DEF ResolvesInRange
<1> DEFINE q == answer.question
           range == q.range
           readable == \A i \in DOMAIN q.range : Readable(q.range[i])
           own == {c \in Entries : c.contract.id = q.id}
           healthy == {c \in own : c.health = "healthy"}
           pool == IF healthy = {} THEN own ELSE healthy
           well == Filter(OfId(q.id), {c \in Entries : c.health = "healthy"})
           from == IF well # <<>> THEN well ELSE OfId(q.id)
           found == Filter(from, {c \in Entries : Satisfies(c.contract.version, q.range)})
<1>1. /\ setting \in Settings /\ registered \in Seq(Entry)
      /\ Answered(q, answer.result) /\ q.kind = "reference"
  BY DEF CatalogueInv, Asked
<1>2. /\ None \notin Version /\ None \notin Entry /\ range \in Seq(Seq(Words))
      /\ \A c \in Entry : c.contract.version \in Version
  BY <1>1, CatalogueTypes DEF Answered
<1>3. OfId(q.id) \in Seq(Entry) /\ Range(OfId(q.id)) = own /\ own \subseteq Entry
  <2>1. Range(registered) \subseteq Entry
    BY <1>1, SomethingIn
  <2>2. /\ OfId(q.id) \in Seq(Entry)
        /\ Range(OfId(q.id)) = Range(registered) \cap {c \in Entries : c.contract.id = q.id}
    BY <1>1, FilterIs DEF OfId
  <2> QED
    BY <2>1, <2>2 DEF Entries
<1>4. well \in Seq(Entry) /\ Range(well) = healthy
  <2>1. /\ well \in Seq(Entry)
        /\ Range(well) = own \cap {c \in Entries : c.health = "healthy"}
    BY <1>3, FilterIs
  <2> QED
    BY <2>1
<1>5. from \in Seq(Entry) /\ Range(from) = pool
  <2>1. well = <<>> <=> healthy = {}
    BY <1>4, SomethingIn
  <2> HIDE DEF well, healthy, own
  <2> QED
    BY <1>3, <1>4, <2>1
<1>6. /\ found \in Seq(Entry)
      /\ Range(found) = {c \in pool : Satisfies(c.contract.version, range)}
  <2>1. /\ found \in Seq(Entry)
        /\ Range(found) = pool \cap {c \in Entries : Satisfies(c.contract.version, range)}
    <3> HIDE DEF from, pool
    <3> QED
      BY <1>5, FilterIs
  <2>2. pool \subseteq Entries
    OBVIOUS
  <2> HIDE DEF found, pool
  <2> QED
    BY <2>1, <2>2
<1>7. answer.result = IF found = <<>> THEN None ELSE found[1]
  BY <1>1 DEF Answered, ResolveRef
<1>8. pool \subseteq Entry
  BY <1>3
<1>9. ASSUME NEW c \in pool, readable
      PROVE  /\ InRange(c.contract.version, range) => Satisfies(c.contract.version, range)
             /\ Satisfies(c.contract.version, range) /\ c.contract.version.pre = <<>>
                  => InRange(c.contract.version, range)
  <2>1. c.contract.version \in Version
    BY <1>2, <1>8
  <2> QED
    BY <1>2, <1>9, <2>1, RangesRead
<1> HIDE DEF found, pool
<1>10. IF answer.result = None
       THEN readable => \A c \in pool : ~InRange(c.contract.version, range)
       ELSE /\ answer.result \in pool
            /\ readable /\ answer.result.contract.version.pre = <<>>
                 => InRange(answer.result.contract.version, range)
  <2>1. CASE found = <<>>
    <3>1. \A c \in pool : ~Satisfies(c.contract.version, range)
      BY <1>6, <2>1, SomethingIn
    <3>2. answer.result = None
      BY <1>7, <2>1
    <3> QED
      BY <1>9, <3>1, <3>2
  <2>2. CASE found # <<>>
    <3>1. found[1] \in Range(found)
      BY <1>6, <2>2, SomethingIn
    <3>2. answer.result \in pool /\ Satisfies(answer.result.contract.version, range)
      BY <1>6, <1>7, <2>2, <3>1
    <3>3. answer.result # None
      BY <1>2, <1>8, <3>2
    <3> QED
      BY <1>9, <3>2, <3>3
  <2> QED
    BY <2>1, <2>2
<1> QED
  BY <1>10 DEF ResolvesInRange, pool

LEMMA ScoresAreNumbers ==
  ASSUME setting \in Settings
  PROVE  /\ \A p \in Profile : Score(p) \in Int
         /\ \A c \in Entry : \A q : Fitness(c, q) \in Int
<1>1. \A n \in Nat \cup {None} : LatencyScore(n) \in Int /\ CostScore(n) \in Int
  BY DEF LatencyScore, CostScore, AtLeast0
<1>2. ASSUME NEW p \in Profile
      PROVE  Score(p) \in Int
  <2>1. LatencyScore(p.p95) \in Int /\ CostScore(p.cost) \in Int
    BY <1>1, CatalogueTypes
  <2>2. (IF p.quality = None THEN 50 ELSE p.quality) \in Int
    BY CatalogueTypes
  <2> QED
    BY <2>1, <2>2 DEF Score
<1>3. ASSUME NEW c \in Entry, NEW q
      PROVE  Fitness(c, q) \in Int
  <2>1. LatencyScore(c.contract.p95) \in Int /\ CostScore(c.contract.cost) \in Int
    BY <1>1, CatalogueTypes
  <2>2. HealthScore[c.health] \in Int
    <3>1. c.health \in Health
      BY CatalogueTypes
    <3> QED
      BY <3>1 DEF Health, HealthScore
  <2>3. RiskScore[c.contract.risk] \in Int
    <3>1. c.contract.risk \in {"low", "medium", "high", "critical"}
      BY CatalogueTypes DEF RiskOrder
    <3> QED
      BY <3>1 DEF RiskScore
  <2> QED
    BY <2>1, <2>2, <2>3 DEF Fitness
<1> QED
  BY <1>2, <1>3

LEMMA ProviderIsBest ==
  ASSUME CatalogueInv
  PROVE  BestProvider
<1> SUFFICES ASSUME Asked("provider")
             PROVE  BestProvider
  BY DEF BestProvider
<1> DEFINE q == answer.question
           chosen == answer.result.selected
           able == {c \in Range(profiles) : c.capability = q.capability /\ Eligible(c, q.context)}
           once == \A i, j \in DOMAIN profiles : profiles[i].provider = profiles[j].provider => i = j
           candidates == Candidates(q)
           score == [c \in Range(candidates) |-> Score(c)]
           ranked == Sorted(candidates, score)
           first == ranked[1]
           firsts == Filter(candidates, {c \in Range(candidates) : c.provider = first.provider})
<1>1. /\ setting \in Settings /\ profiles \in Seq(Profile)
      /\ chosen = Best(candidates) /\ None \notin Profile
  BY CatalogueTypes DEF CatalogueInv, Asked, Answered
<1>2. candidates \in Seq(Profile) /\ Range(candidates) = able /\ able \subseteq Profile
  <2>1. /\ candidates \in Seq(Profile)
        /\ Range(candidates) = Range(profiles) \cap able
    BY <1>1, FilterIs DEF Candidates
  <2>2. Range(profiles) \subseteq Profile
    BY <1>1, SomethingIn
  <2> QED
    BY <2>1, <2>2
<1>3. chosen = IF candidates = <<>> THEN None ELSE firsts[1]
  BY <1>1 DEF Best
<1>4. score \in [Range(candidates) -> Int] /\ \A c \in able : score[c] = Score(c)
  BY <1>1, <1>2, ScoresAreNumbers
<1> HIDE DEF candidates, score, able
<1>5. CASE candidates = <<>>
  <2>1. able = {}
    BY <1>2, <1>5, SomethingIn
  <2> QED
    BY <1>3, <1>5, <2>1 DEF BestProvider, able
<1>6. CASE candidates # <<>>
  <2>1. /\ ranked \in Seq(Profile) /\ Len(ranked) = Len(candidates) /\ Range(ranked) = able
        /\ \A i, j \in 1 .. Len(candidates) : i < j => score[ranked[i]] >= score[ranked[j]]
    BY <1>2, <1>4, SortedIs
  <2>2. Len(candidates) \in Nat /\ Len(candidates) >= 1
    BY <1>2, <1>6
  <2> HIDE DEF ranked
  <2>3. ranked # <<>> /\ DOMAIN ranked = 1 .. Len(candidates)
    BY <2>1, <2>2
  <2>4. first \in able
    BY <2>1, <2>3, SomethingIn
  <2>5. \A c \in able : Score(c) <= Score(first)
    <3> TAKE c \in able
    <3>1. PICK j \in 1 .. Len(candidates) : ranked[j] = c
      BY <2>1, <2>3 DEF Range
    <3>2. 1 < j => score[first] >= score[c]
      BY <2>1, <2>2, <3>1
    <3>3. j = 1 => first = c
      BY <3>1
    <3>4. score[c] = Score(c) /\ score[first] = Score(first) /\ score[c] \in Int /\ score[first] \in Int
      BY <1>2, <1>4, <2>4
    <3> HIDE DEF first
    <3> QED
      BY <2>2, <3>2, <3>3, <3>4
  <2> HIDE DEF first
  <2>6. firsts \in Seq(Profile) /\ Range(firsts) = {c \in able : c.provider = first.provider}
    <3>1. /\ firsts \in Seq(Profile)
          /\ Range(firsts) = able \cap {c \in able : c.provider = first.provider}
      BY <1>2, FilterIs
    <3> QED
      BY <3>1
  <2>7. chosen \in able /\ chosen.provider = first.provider
    <3>1. firsts # <<>>
      BY <2>4, <2>6, SomethingIn
    <3>2. firsts[1] \in Range(firsts)
      BY <2>6, <3>1, SomethingIn
    <3> QED
      BY <1>3, <1>6, <2>6, <3>2
  <2>8. once => chosen = first
    <3>1. able \subseteq Range(profiles)
      BY DEF able
    <3>2. PICK i \in DOMAIN profiles : profiles[i] = chosen
      BY <2>7, <3>1 DEF Range
    <3>3. PICK j \in DOMAIN profiles : profiles[j] = first
      BY <2>4, <3>1 DEF Range
    <3> QED
      BY <2>7, <3>2, <3>3
  <2>9. chosen # None
    BY <1>1, <1>2, <2>7
  <2>10. IF chosen = None THEN able = {}
         ELSE chosen \in able /\ (once => \A c \in able : Score(c) <= Score(chosen))
    BY <2>5, <2>7, <2>8, <2>9
  <2> QED
    BY <2>10 DEF BestProvider, able
<1> QED
  BY <1>5, <1>6

LEMMA CapabilitiesAreBest ==
  ASSUME CatalogueInv
  PROVE  BestCapabilities
<1> SUFFICES ASSUME Asked("intent")
             PROVE  BestCapabilities
  BY DEF BestCapabilities
<1> DEFINE q == answer.question
           matches == answer.result
           able == {c \in Entries : Suitable(c, q)}
           all == Filter(registered, able)
           score == [c \in Range(all) |-> Fitness(c, q)]
           ranked == Sorted(all, score)
           n == IF q.limit < Len(ranked) THEN q.limit ELSE Len(ranked)
<1>1. setting \in Settings /\ registered \in Seq(Entry) /\ matches = Matches(q) /\ q.limit \in Nat
  BY CatalogueTypes DEF CatalogueInv, Asked, Answered
<1>2. all \in Seq(Entry) /\ Range(all) = able /\ able \subseteq Entry
  <2>1. all \in Seq(Entry) /\ Range(all) = Range(registered) \cap able
    <3> HIDE DEF able
    <3> QED
      BY <1>1, FilterIs
  <2>2. Range(registered) \subseteq Entry
    BY <1>1, SomethingIn
  <2> HIDE DEF all
  <2> QED
    BY <2>1, <2>2 DEF Entries
<1>3. score \in [able -> Int] /\ \A c \in able : score[c] = Fitness(c, q)
  <2>1. \A c \in able : Fitness(c, q) \in Int
    BY <1>1, <1>2, ScoresAreNumbers
  <2> HIDE DEF able, all
  <2> QED
    BY <1>2, <2>1
<1>4. matches = SubSeq(ranked, 1, n)
  BY <1>1 DEF Matches, Upto
<1> HIDE DEF able, all, score
<1>5. /\ ranked \in Seq(Entry) /\ Len(ranked) = Len(all) /\ Range(ranked) = able
      /\ \A i, j \in 1 .. Len(all) : i < j => score[ranked[i]] >= score[ranked[j]]
  BY <1>2, <1>3, SortedIs
<1> HIDE DEF ranked
<1>6. /\ Len(ranked) \in Nat /\ DOMAIN ranked = 1 .. Len(ranked)
      /\ n \in Nat /\ n <= Len(ranked) /\ n <= q.limit /\ (n < q.limit => n = Len(ranked))
  BY <1>1, <1>5
<1> HIDE DEF n
<1>7. /\ Len(matches) = n /\ DOMAIN matches = 1 .. n
      /\ \A i \in 1 .. n : matches[i] = ranked[i]
  BY <1>4, <1>5, <1>6
<1> HIDE DEF matches
<1>8. Range(matches) = {ranked[i] : i \in 1 .. n}
  BY <1>7 DEF Range
<1>9. able = {ranked[i] : i \in 1 .. Len(ranked)}
  BY <1>5, <1>6 DEF Range
<1>10. \A i \in 1 .. n : i \in 1 .. Len(ranked)
  <2>1. n \in Nat /\ Len(ranked) \in Nat /\ n <= Len(ranked)
    BY <1>6
  <2> QED
    BY ONLY <2>1
<1>11. \A i, j \in 1 .. Len(ranked) : i < j => Fitness(ranked[i], q) >= Fitness(ranked[j], q)
  BY <1>3, <1>5, <1>9
<1>12. Range(matches) \subseteq able
  BY <1>8, <1>9, <1>10
<1>13. \A i, j \in DOMAIN matches : i < j => Fitness(matches[i], q) >= Fitness(matches[j], q)
  BY <1>7, <1>10, <1>11
<1>14. Len(matches) < q.limit => Range(matches) = able
  BY <1>6, <1>7, <1>8, <1>9
<1>15. \A c \in able \ Range(matches), m \in Range(matches) : Fitness(c, q) <= Fitness(m, q)
  <2> TAKE c \in able \ Range(matches), m \in Range(matches)
  <2>1. PICK j \in 1 .. Len(ranked) : ranked[j] = c
    BY <1>9
  <2>2. PICK i \in 1 .. n : ranked[i] = m
    BY <1>8
  <2>3. i < j
    <3>1. j \notin 1 .. n
      BY <1>8, <2>1
    <3>2. n \in Nat /\ Len(ranked) \in Nat
      BY <1>6
    <3> QED
      BY <3>1, <3>2
  <2>4. Fitness(m, q) >= Fitness(c, q)
    BY <1>10, <1>11, <2>1, <2>2, <2>3
  <2>5. Fitness(m, q) \in Int /\ Fitness(c, q) \in Int
    BY <1>3, <1>12
  <2> QED
    BY <2>4, <2>5
<1> QED
  BY <1>12, <1>13, <1>14, <1>15 DEF BestCapabilities, able, matches

\* Whatever is registered, in whatever order, and however often it changes, what
\* resolve() answers is a capability of the id that is in the range that was
\* asked for, as long as it is a release, and a healthy one while there is one;
\* and None only when none of those is in the range.
THEOREM ReferencesResolved == Spec => []ResolvesInRange
<1>1. CatalogueInv => ResolvesInRange
  BY ReferenceInRange
<1> QED
  BY <1>1, CatalogueHolds, PTL

\* Whatever is registered, and with whatever figures, the provider that is
\* selected passes every filter and none that passes them scores higher, as long
\* as no provider is registered twice; and the capabilities that an intent is
\* resolved to are suitable, in the order of their scores, and no suitable one
\* that is left out scores higher.
THEOREM SelectionsAreBest == Spec => []SelectionIsBest
<1>1. CatalogueInv => SelectionIsBest
  BY ProviderIsBest, CapabilitiesAreBest DEF SelectionIsBest
<1> QED
  BY <1>1, CatalogueHolds, PTL
==============================================================================
