----------------------------- MODULE Loops_proofs -----------------------------
(***************************************************************************)
(* What loops compute, for arrays of any length, and that recursive        *)
(* functions exist.                                                        *)
(***************************************************************************)
EXTENDS Loops, FiniteSetTheorems, WellFoundedInduction, TLAPS

------------------------------------------------------------------------------
(* Recursive functions: they exist, by induction over a bounded rank.      *)

Less == OpToRel(<, Nat)

LEMMA SetInduction ==
  ASSUME NEW S, 0 \in S, \A n \in Nat : n \in S => n + 1 \in S
  PROVE  Nat \subseteq S
<1>1. Less = {p \in Nat \X Nat : p[1] < p[2]}
  BY DEF Less, OpToRel
<1>2. IsWellFoundedOn(Less, Nat)
  BY NatLessThanWellFounded DEF Less
<1>3. SUFFICES ASSUME Nat \ S # {}
               PROVE  FALSE
  OBVIOUS
<1>4. PICK x \in Nat \ S : \A y \in Nat \ S : <<y, x>> \notin Less
  BY <1>2, <1>3, WFMin
<1>5. x # 0 /\ x - 1 \in Nat
  BY <1>4
<1>6. x - 1 \in Nat \ S
  BY <1>5
<1>7. <<x - 1, x>> \in Less
  BY <1>1, <1>5
<1> QED
  BY <1>4, <1>6, <1>7

\* body makes of a function another one, whose value at x depends on that of the
\* first below the rank of x only.
Recursion(D, V, rank, bound, body) ==
  /\ rank \in [D -> Nat] /\ bound \in Nat /\ \A x \in D : rank[x] < bound
  /\ body \in [[D -> V] -> [D -> V]]
  /\ \A f, g \in [D -> V], x \in D :
        (\A y \in D : rank[y] < rank[x] => f[y] = g[y]) => body[f][x] = body[g][x]

LEMMA RecursionExists ==
  ASSUME NEW D, NEW V, NEW rank, NEW bound, NEW body, Recursion(D, V, rank, bound, body), V # {}
  PROVE  \E f \in [D -> V] : f = body[f]
<1> USE DEF Recursion
<1>0. PICK start \in V : TRUE
  OBVIOUS
<1> DEFINE Upto(k) == {f \in [D -> V] : \A x \in D : rank[x] < k => f[x] = body[f][x]}
           S == {k \in Nat : Upto(k) # {}}
<1>1. 0 \in S
  <2>1. [x \in D |-> start] \in Upto(0)
    OBVIOUS
  <2> QED
    BY <2>1
<1>2. ASSUME NEW k \in Nat, k \in S
      PROVE  k + 1 \in S
  <2>1. PICK f \in [D -> V] : \A x \in D : rank[x] < k => f[x] = body[f][x]
    BY <1>2
  <2>2. PICK g \in [D -> V] : g = body[f]
    OBVIOUS
  <2>3. \A x \in D : rank[x] < k => f[x] = g[x]
    BY <2>1, <2>2
  <2>4. ASSUME NEW x \in D, rank[x] < k + 1
        PROVE  g[x] = body[g][x]
    <3>1. rank[x] \in Nat
      OBVIOUS
    <3>2. \A y \in D : rank[y] < rank[x] => f[y] = g[y]
      BY <2>3, <2>4, <3>1
    <3> QED
      BY <2>2, <3>2
  <2>5. g \in Upto(k + 1)
    BY <2>4
  <2> QED
    BY <2>5
<1>3. Nat \subseteq S
  <2> HIDE DEF S
  <2> QED
    BY <1>1, <1>2, SetInduction
<1>4. PICK f \in [D -> V] : \A x \in D : rank[x] < bound => f[x] = body[f][x]
  <2>1. Upto(bound) # {}
    BY <1>3
  <2> QED
    BY <2>1
<1>5. body[f] \in [D -> V]
  OBVIOUS
<1> QED
  BY <1>4, <1>5

------------------------------------------------------------------------------
(* A loop over a sequence.                                                 *)

\* The fold inside InTurn: over the first elements, given by their indices.
Loop(f, step, s, seq) ==
  f = [set \in SUBSET DOMAIN seq |->
         IF set = {} THEN s ELSE step[seq[Max(set)]][f[set \ {Max(set)}]]]

LEMMA InTurnLoop ==
  ASSUME NEW step, NEW s, NEW seq
  PROVE  InTurn(step, s, seq) = (CHOOSE f : Loop(f, step, s, seq))[DOMAIN seq]
PROOF BY DEF InTurn, FoldLeft, MapThenFoldSet, Loop

LEMMA MaxOfFirst ==
  ASSUME NEW i \in Nat, i > 0
  PROVE  Max(1 .. i) = i /\ (1 .. i) \ {i} = 1 .. (i - 1)
<1>1. i \in 1 .. i /\ \A y \in 1 .. i : i >= y
  OBVIOUS
<1>2. \A x \in 1 .. i : (\A y \in 1 .. i : x >= y) => x = i
  OBVIOUS
<1>3. Max(1 .. i) = i
  BY <1>1, <1>2 DEF Max
<1> QED
  BY <1>3

LEMMA LargestOf ==
  ASSUME NEW n \in Nat, NEW set \in SUBSET (1 .. n), set # {}
  PROVE  \E m \in set : \A y \in set : m >= y
<1> DEFINE T == {k \in Nat : k <= n /\ \E y \in set : y >= n - k}
<1>1. T \subseteq Nat /\ T # {}
  <2>1. PICK y \in set : TRUE
    OBVIOUS
  <2>2. y \in 1 .. n
    OBVIOUS
  <2>3. n - y \in T
    BY <2>2
  <2> QED
    BY <2>3
<1>2. PICK k \in T : \A y \in T : <<y, k>> \notin Less
  BY <1>1, NatLessThanWellFounded, WFMin DEF Less
<1>3. \A y \in T : ~(y < k)
  BY <1>1, <1>2 DEF Less, OpToRel
<1>4. PICK m \in set : m >= n - k
  BY <1>2
<1>5. ASSUME NEW y \in set, y > m
      PROVE  FALSE
  <2>1. y \in 1 .. n /\ m \in 1 .. n /\ k \in Nat
    BY <1>1
  <2>2. n - y \in T
    BY <2>1
  <2> QED
    BY <1>3, <1>4, <1>5, <2>1, <2>2
<1>6. \A y \in set : y \in Int /\ m \in Int
  OBVIOUS
<1> QED
  BY <1>5, <1>6

LEMMA LoopExists ==
  ASSUME NEW S, NEW A, NEW step \in [A -> [S -> S]], NEW s \in S, NEW seq \in Seq(A)
  PROVE  \E f : Loop(f, step, s, seq)
<1> DEFINE D == SUBSET DOMAIN seq
           rank == [set \in D |-> Cardinality(set)]
           value(f, set) == IF set = {} THEN s ELSE step[seq[Max(set)]][f[set \ {Max(set)}]]
           body == [f \in [D -> S] |-> [set \in D |-> value(f, set)]]
<1>1. DOMAIN seq = 1 .. Len(seq) /\ Len(seq) \in Nat
  OBVIOUS
<1>2. IsFiniteSet(1 .. Len(seq)) /\ Cardinality(1 .. Len(seq)) = Len(seq)
  <2>1. 1 \in Int /\ Len(seq) \in Int
    BY <1>1
  <2>2. /\ IsFiniteSet(1 .. Len(seq))
        /\ Cardinality(1 .. Len(seq)) = IF 1 > Len(seq) THEN 0 ELSE Len(seq) - 1 + 1
    BY <2>1, FS_Interval
  <2> QED
    BY <1>1, <2>2
<1>3. ASSUME NEW set \in D
      PROVE  IsFiniteSet(set) /\ Cardinality(set) \in Nat /\ Cardinality(set) < Len(seq) + 1
  <2>1. IsFiniteSet(set) /\ Cardinality(set) <= Len(seq)
    BY <1>1, <1>2, FS_Subset
  <2>2. Cardinality(set) \in Nat
    BY <2>1, FS_CardinalityType
  <2> QED
    BY <1>1, <2>1, <2>2
<1>4. ASSUME NEW set \in D, set # {}
      PROVE  Max(set) \in set /\ set \ {Max(set)} \in D
             /\ Cardinality(set \ {Max(set)}) < Cardinality(set)
  <2>1. PICK m \in set : \A y \in set : m >= y
    BY <1>1, <1>4, LargestOf
  <2>2. Max(set) \in set
    BY <2>1 DEF Max
  <2>3. Cardinality(set \ {Max(set)}) = Cardinality(set) - 1
    BY <1>3, <2>2, FS_RemoveElement
  <2>4. set \ {Max(set)} \in D
    OBVIOUS
  <2> QED
    BY <1>3, <2>2, <2>3, <2>4
<1>5. rank \in [D -> Nat] /\ Len(seq) + 1 \in Nat /\ \A set \in D : rank[set] < Len(seq) + 1
  BY <1>1, <1>3
<1>6. ASSUME NEW f \in [D -> S], NEW set \in D
      PROVE  value(f, set) \in S
  <2>1. CASE set = {}
    BY <2>1
  <2>2. CASE set # {}
    <3>1. f[set \ {Max(set)}] \in S /\ Max(set) \in DOMAIN seq
      BY <1>4, <2>2
    <3>2. seq[Max(set)] \in A
      BY <1>1, <3>1
    <3> HIDE DEF D
    <3> QED
      BY <2>2, <3>1, <3>2
  <2> QED
    BY <2>1, <2>2
<1>7. body \in [[D -> S] -> [D -> S]]
  BY <1>6
<1>8. ASSUME NEW f \in [D -> S], NEW g \in [D -> S], NEW set \in D,
             \A y \in D : rank[y] < rank[set] => f[y] = g[y]
      PROVE  body[f][set] = body[g][set]
  <2>1. value(f, set) = value(g, set)
    <3>1. CASE set # {}
      <4>1. f[set \ {Max(set)}] = g[set \ {Max(set)}]
        BY <1>4, <1>8, <3>1
      <4> HIDE DEF D
      <4> QED
        BY <3>1, <4>1
    <3> QED
      BY <3>1
  <2> QED
    BY <2>1
<1>9. PICK f \in [D -> S] : f = body[f]
  <2>1. \A f, g \in [D -> S], set \in D :
           (\A y \in D : rank[y] < rank[set] => f[y] = g[y]) => body[f][set] = body[g][set]
    BY <1>8
  <2>2. Recursion(D, S, rank, Len(seq) + 1, body)
    <3> HIDE DEF D, rank, body
    <3> QED
      BY <1>5, <1>7, <2>1 DEF Recursion
  <2> HIDE DEF D, rank, body
  <2> QED
    BY <2>2, RecursionExists
<1>10. Loop(f, step, s, seq)
  BY <1>9 DEF Loop
<1> QED
  BY <1>10

\* What the state is after each turn: the first, the next from the one before it,
\* and the last.
Turns(g, step, s, seq) ==
  /\ g[0] = s
  /\ \A i \in 1 .. Len(seq) : g[i] = step[seq[i]][g[i - 1]]
  /\ InTurn(step, s, seq) = g[Len(seq)]

LEMMA InTurnTurns ==
  ASSUME NEW S, NEW A, NEW step \in [A -> [S -> S]], NEW s \in S, NEW seq \in Seq(A)
  PROVE  \E g \in [0 .. Len(seq) -> S] : Turns(g, step, s, seq)
<1>1. PICK f : Loop(f, step, s, seq) /\ InTurn(step, s, seq) = f[DOMAIN seq]
  BY InTurnLoop, LoopExists
<1> DEFINE g == [i \in 0 .. Len(seq) |-> f[1 .. i]]
<1>2. DOMAIN seq = 1 .. Len(seq) /\ Len(seq) \in Nat
  OBVIOUS
<1>3. ASSUME NEW set \in SUBSET DOMAIN seq
      PROVE  f[set] = IF set = {} THEN s ELSE step[seq[Max(set)]][f[set \ {Max(set)}]]
  BY <1>1 DEF Loop
<1>4. g[0] = s
  <2>1. 1 .. 0 = {}
    OBVIOUS
  <2>2. f[1 .. 0] = s
    BY <1>3, <2>1
  <2> QED
    BY <1>2, <2>2
<1>5. ASSUME NEW i \in 1 .. Len(seq)
      PROVE  g[i] = step[seq[i]][g[i - 1]]
  <2>0. i \in Nat /\ i > 0 /\ i <= Len(seq) /\ i \in 1 .. i
    BY <1>2
  <2>1. 1 .. i \in SUBSET DOMAIN seq /\ 1 .. i # {} /\ i \in Nat /\ i > 0
    <3>1. 1 .. i \subseteq 1 .. Len(seq)
      BY <1>2, <2>0
    <3>2. 1 .. i # {}
      BY <2>0
    <3> QED
      BY ONLY <1>2, <2>0, <3>1, <3>2
  <2>2. Max(1 .. i) = i /\ (1 .. i) \ {i} = 1 .. (i - 1)
    BY <2>1, MaxOfFirst
  <2>3. f[1 .. i] = step[seq[i]][f[1 .. (i - 1)]]
    BY <1>3, <2>1, <2>2
  <2>4. i \in 0 .. Len(seq) /\ i - 1 \in 0 .. Len(seq)
    <3> HIDE DEF g
    <3> QED
      BY <1>2
  <2>5. g[i] = f[1 .. i] /\ g[i - 1] = f[1 .. (i - 1)]
    BY <2>4
  <2> QED
    BY <2>3, <2>5
<1>6. g[Len(seq)] = InTurn(step, s, seq)
  BY <1>1, <1>2
<1> HIDE DEF g
<1> DEFINE T == {i \in Nat : i <= Len(seq) => g[i] \in S}
<1>7. 0 \in T
  BY <1>4
<1>8. ASSUME NEW i \in Nat, i \in T
      PROVE  i + 1 \in T
  <2>1. CASE i + 1 <= Len(seq)
    <3>1. i + 1 \in 1 .. Len(seq) /\ i + 1 - 1 = i /\ g[i] \in S
      BY <1>2, <1>8, <2>1
    <3>2. g[i + 1] = step[seq[i + 1]][g[i]]
      BY <1>5, <3>1
    <3>3. seq[i + 1] \in A
      BY <3>1
    <3> QED
      BY <3>1, <3>2, <3>3
  <2> QED
    BY <2>1
<1>9. Nat \subseteq T
  <2> HIDE DEF T
  <2> QED
    BY <1>7, <1>8, SetInduction
<1>10. g \in [0 .. Len(seq) -> S]
  <2>1. \A i \in 0 .. Len(seq) : g[i] \in S
    BY <1>2, <1>9
  <2> QED
    BY <2>1 DEF g
<1> QED
  BY <1>4, <1>5, <1>6, <1>10 DEF Turns

LEMMA InTurnTypes ==
  ASSUME NEW S, NEW A, NEW step \in [A -> [S -> S]], NEW s \in S, NEW seq \in Seq(A)
  PROVE  InTurn(step, s, seq) \in S
<1>1. PICK g \in [0 .. Len(seq) -> S] : Turns(g, step, s, seq)
  BY InTurnTurns
<1>2. Len(seq) \in 0 .. Len(seq)
  OBVIOUS
<1> QED
  BY <1>1, <1>2 DEF Turns

LEMMA Joined ==
  ASSUME NEW T, NEW s \in Seq(T), NEW t \in Seq(T)
  PROVE  /\ s \o t \in Seq(T) /\ Len(s \o t) = Len(s) + Len(t)
         /\ \A k \in 1 .. Len(s) : (s \o t)[k] = s[k]
         /\ \A i \in 1 .. Len(t) : (s \o t)[Len(s) + i] = t[i]
         /\ Len(t) \in Nat
PROOF OBVIOUS

------------------------------------------------------------------------------
(* Filter.                                                                 *)

LEMMA AppendRange ==
  ASSUME NEW S, NEW q \in Seq(S), NEW x \in S
  PROVE  Append(q, x) \in Seq(S) /\ Range(Append(q, x)) = Range(q) \cup {x}
<1> DEFINE r == Append(q, x)
<1>1. /\ r \in Seq(S) /\ Len(q) \in Nat /\ DOMAIN q = 1 .. Len(q)
      /\ DOMAIN r = 1 .. (Len(q) + 1) /\ r[Len(q) + 1] = x
      /\ \A i \in 1 .. Len(q) : r[i] = q[i]
  OBVIOUS
<1> HIDE DEF r
<1>2. DOMAIN r = DOMAIN q \cup {Len(q) + 1} /\ Len(q) + 1 \notin DOMAIN q
  BY <1>1
<1>3. Range(r) = Range(q) \cup {x}
  BY <1>1, <1>2 DEF Range
<1> QED
  BY <1>1, <1>3 DEF r

LEMMA SequenceOfRange ==
  ASSUME NEW S, NEW seq \in Seq(S)
  PROVE  /\ seq \in Seq(Range(seq)) /\ Range(seq) \subseteq S
         /\ Len(seq) \in Nat /\ DOMAIN seq = 1 .. Len(seq)
<1>1. seq = [i \in 1 .. Len(seq) |-> seq[i]] /\ Len(seq) \in Nat /\ DOMAIN seq = 1 .. Len(seq)
  OBVIOUS
<1>2. \A i \in 1 .. Len(seq) : seq[i] \in Range(seq) /\ seq[i] \in S
  BY <1>1 DEF Range
<1>3. seq \in Seq(Range(seq))
  BY <1>1, <1>2
<1>4. Range(seq) \subseteq S
  BY <1>1 DEF Range
<1> QED
  BY <1>1, <1>3, <1>4

LEMMA FilterIs ==
  ASSUME NEW S, NEW seq \in Seq(S), NEW keep
  PROVE  Filter(seq, keep) \in Seq(S) /\ Range(Filter(seq, keep)) = Range(seq) \cap keep
<1> DEFINE R == Range(seq)
           step == [x \in R |-> [kept \in Seq(R) |-> IF x \in keep THEN Append(kept, x) ELSE kept]]
<1>1. seq \in Seq(R) /\ R \subseteq S /\ Len(seq) \in Nat /\ DOMAIN seq = 1 .. Len(seq)
  BY SequenceOfRange
<1>2. step \in [R -> [Seq(R) -> Seq(R)]]
  <2>1. ASSUME NEW x \in R, NEW kept \in Seq(R)
        PROVE  (IF x \in keep THEN Append(kept, x) ELSE kept) \in Seq(R)
    BY AppendRange
  <2> HIDE DEF R
  <2> QED
    BY <2>1
<1>3. <<>> \in Seq(R) /\ Range(<<>>) = {}
  <2>1. DOMAIN <<>> = {} /\ <<>> \in Seq(R)
    OBVIOUS
  <2> QED
    BY <2>1 DEF Range
<1>4. Filter(seq, keep) = InTurn(step, <<>>, seq)
  BY DEF Filter
<1>5. \A x \in R, kept \in Seq(R) : step[x][kept] = IF x \in keep THEN Append(kept, x) ELSE kept
  OBVIOUS
<1> HIDE DEF step
<1>6. PICK g \in [0 .. Len(seq) -> Seq(R)] : Turns(g, step, <<>>, seq)
  BY <1>1, <1>2, <1>3, InTurnTurns
<1> DEFINE T == {i \in Nat : i <= Len(seq) => Range(g[i]) = {seq[k] : k \in 1 .. i} \cap keep}
<1>7. 0 \in T
  <2>1. 1 .. 0 = {} /\ g[0] = <<>>
    BY <1>6 DEF Turns
  <2> QED
    BY <1>3, <2>1
<1>8. ASSUME NEW i \in Nat, i \in T
      PROVE  i + 1 \in T
  <2>0. ASSUME i + 1 <= Len(seq)
        PROVE  Range(g[i + 1]) = {seq[k] : k \in 1 .. (i + 1)} \cap keep
    <3> DEFINE x == seq[i + 1]
    <3>1. i + 1 \in 1 .. Len(seq) /\ i + 1 - 1 = i /\ i \in 0 .. Len(seq) /\ i <= Len(seq)
      BY <1>1, <2>0
    <3>2. g[i] \in Seq(R) /\ x \in R
      BY <1>1, <1>6, <3>1 DEF Range
    <3>3. g[i + 1] = IF x \in keep THEN Append(g[i], x) ELSE g[i]
      <4>1. g[i + 1] = step[x][g[i]]
        BY <1>6, <3>1 DEF Turns
      <4> HIDE DEF R, x
      <4> QED
        BY <1>5, <3>2, <4>1
    <3>4. Range(g[i]) = {seq[k] : k \in 1 .. i} \cap keep
      BY <1>8, <3>1
    <3>5. 1 .. (i + 1) = (1 .. i) \cup {i + 1}
      OBVIOUS
    <3>6. {seq[k] : k \in 1 .. (i + 1)} = {seq[k] : k \in 1 .. i} \cup {x}
      BY <3>5
    <3>7. Range(Append(g[i], x)) = Range(g[i]) \cup {x}
      <4> HIDE DEF x, R
      <4> QED
        BY <3>2, AppendRange
    <3> HIDE DEF x
    <3> QED
      BY <3>3, <3>4, <3>6, <3>7
  <2>1. i + 1 \in Nat
    OBVIOUS
  <2> QED
    BY <2>0, <2>1
<1>9. Nat \subseteq T
  <2> HIDE DEF T
  <2> QED
    BY <1>7, <1>8, SetInduction
<1>10. Filter(seq, keep) = g[Len(seq)] /\ Len(seq) \in 0 .. Len(seq)
  BY <1>1, <1>4, <1>6 DEF Turns
<1>11. Range(Filter(seq, keep)) = R \cap keep
  <2>1. R = {seq[k] : k \in 1 .. Len(seq)}
    BY <1>1 DEF Range
  <2> QED
    BY <1>1, <1>9, <1>10, <2>1
<1>12. Filter(seq, keep) \in Seq(S)
  <2>1. Filter(seq, keep) \in Seq(R)
    BY <1>6, <1>10
  <2> HIDE DEF R
  <2> QED
    BY <1>1, <2>1
<1> QED
  BY <1>11, <1>12

==============================================================================
