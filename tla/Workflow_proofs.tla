---------------------------- MODULE Workflow_proofs ---------------------------
(***************************************************************************)
(* What topologicalSort() and computeParallelGroups() plan, the budget of  *)
(* a run, the order in which its nodes run and are undone, and what it     *)
(* says of itself: for all workflows.                                      *)
(***************************************************************************)
EXTENDS Workflow, Loops_proofs, SequenceTheorems

------------------------------------------------------------------------------
(* visit() exists.                                                         *)

VisitTypes(nodes) == [Range(nodes) -> [SortStates -> SortStates]]

\* What the loop over the dependencies of n calls, and what is left after it.
Calling(f, visiting, n, nodes) ==
  [d \in Nodes \cup {Missing} |-> IF d \in Range(nodes) THEN f[visiting \cup {n}][d]
                                  ELSE [t \in SortStates |-> t]]

After(f, visiting, n, s, nodes, deps) == InTurn(Calling(f, visiting, n, nodes), s, deps[n])

\* One visit, by the visits below it.
VisitBy(f, visiting, nodes, deps) ==
  [n \in Range(nodes) |-> [s \in SortStates |->
     IF s.cycle \/ Visited(n, s) THEN s
     ELSE IF n \in visiting THEN [s EXCEPT !.cycle = TRUE]
     ELSE IF After(f, visiting, n, s, nodes, deps).cycle THEN After(f, visiting, n, s, nodes, deps)
     ELSE Finished(n, s.sorted, After(f, visiting, n, s, nodes, deps))]]

IsVisit(f, nodes, deps) == f = [visiting \in SUBSET Range(nodes) |-> VisitBy(f, visiting, nodes, deps)]

LEMMA VisitsChosen ==
  ASSUME NEW nodes, NEW deps
  PROVE  Visits(nodes, deps) = CHOOSE f : IsVisit(f, nodes, deps)
PROOF BY DEF Visits, IsVisit, VisitBy, After, Calling

LEMMA NodesOfSequence ==
  ASSUME NEW nodes \in Seq(Nodes)
  PROVE  Range(nodes) \subseteq Nodes /\ IsFiniteSet(Range(nodes))
<1>1. DOMAIN nodes = 1 .. Len(nodes) /\ Len(nodes) \in Nat
  OBVIOUS
<1>2. Range(nodes) \subseteq Nodes
  BY <1>1 DEF Range
<1>3. IsFiniteSet(1 .. Len(nodes))
  BY <1>1, FS_Interval
<1>4. nodes \in Surjection(1 .. Len(nodes), Range(nodes))
  BY <1>1 DEF Surjection, Range
<1> QED
  BY <1>2, <1>3, <1>4, FS_Surjection

LEMMA FinishedType ==
  ASSUME NEW n \in Nodes, NEW before, NEW after \in SortStates
  PROVE  /\ Finished(n, before, after) \in SortStates
         /\ Finished(n, before, after).sorted = Append(after.sorted, n)
         /\ Finished(n, before, after).cycle = after.cycle
<1>1. after = [sorted |-> after.sorted, cycle |-> after.cycle]
      /\ after.sorted \in Seq(Nodes) /\ after.cycle \in BOOLEAN
  BY DEF SortStates
<1>2. Append(after.sorted, n) \in Seq(Nodes)
  BY <1>1
<1>3. Finished(n, before, after) = [sorted |-> Append(after.sorted, n), cycle |-> after.cycle]
  BY <1>1 DEF Finished
<1> QED
  BY <1>1, <1>2, <1>3 DEF SortStates

\* What Visit does has its type, if that of the visits below has.
LEMMA VisitByType ==
  ASSUME NEW nodes \in Seq(Nodes), NEW deps \in Dependencies, NEW f,
         NEW visiting \in SUBSET Range(nodes),
         \A n \in Range(nodes) \ visiting : f[visiting \cup {n}] \in VisitTypes(nodes)
  PROVE  /\ VisitBy(f, visiting, nodes, deps) \in VisitTypes(nodes)
         /\ \A n \in Range(nodes) \ visiting :
              Calling(f, visiting, n, nodes) \in [Nodes \cup {Missing} -> [SortStates -> SortStates]]
<1>1. Range(nodes) \subseteq Nodes
  BY NodesOfSequence
<1>2. ASSUME NEW n \in Range(nodes) \ visiting
      PROVE  Calling(f, visiting, n, nodes) \in [Nodes \cup {Missing} -> [SortStates -> SortStates]]
  <2>1. \A d \in Range(nodes) : f[visiting \cup {n}][d] \in [SortStates -> SortStates]
    BY DEF VisitTypes
  <2>2. [t \in SortStates |-> t] \in [SortStates -> SortStates]
    OBVIOUS
  <2> QED
    BY <2>1, <2>2 DEF Calling
<1>3. ASSUME NEW n \in Range(nodes), NEW s \in SortStates
      PROVE  VisitBy(f, visiting, nodes, deps)[n][s] \in SortStates
  <2> DEFINE after == After(f, visiting, n, s, nodes, deps)
  <2>1. VisitBy(f, visiting, nodes, deps)[n][s] =
          IF s.cycle \/ Visited(n, s) THEN s
          ELSE IF n \in visiting THEN [s EXCEPT !.cycle = TRUE]
          ELSE IF after.cycle THEN after ELSE Finished(n, s.sorted, after)
    BY DEF VisitBy
  <2>2. [s EXCEPT !.cycle = TRUE] \in SortStates
    BY DEF SortStates
  <2>3. CASE n \notin visiting
    <3>1. deps[n] \in Seq(Nodes \cup {Missing})
      BY <1>1 DEF Dependencies
    <3>2. after \in SortStates
      BY <1>2, <2>3, <3>1, InTurnTypes DEF After
    <3> HIDE DEF after
    <3>3. Finished(n, s.sorted, after) \in SortStates
      BY <1>1, <3>2, FinishedType
    <3> QED
      BY <2>1, <2>2, <3>2, <3>3
  <2> QED
    BY <2>1, <2>2, <2>3
<1>4. VisitBy(f, visiting, nodes, deps) \in VisitTypes(nodes)
  <2>1. VisitBy(f, visiting, nodes, deps) =
          [n \in Range(nodes) |-> [s \in SortStates |-> VisitBy(f, visiting, nodes, deps)[n][s]]]
    BY DEF VisitBy
  <2> HIDE DEF VisitBy
  <2> QED
    BY <1>3, <2>1 DEF VisitTypes
<1> QED
  BY <1>2, <1>4

\* How many nodes are not being visited: fewer with every call below.
Left(visiting, nodes) == Cardinality(Range(nodes) \ visiting)

LEMMA LeftFalls ==
  ASSUME NEW nodes \in Seq(Nodes), NEW visiting \in SUBSET Range(nodes)
  PROVE  /\ Left(visiting, nodes) \in Nat /\ Left({}, nodes) \in Nat
         /\ Left(visiting, nodes) < Left({}, nodes) + 1
         /\ \A n \in Range(nodes) \ visiting :
              /\ visiting \cup {n} \in SUBSET Range(nodes)
              /\ Left(visiting \cup {n}, nodes) < Left(visiting, nodes)
<1>1. IsFiniteSet(Range(nodes))
  BY NodesOfSequence
<1>2. /\ IsFiniteSet(Range(nodes) \ visiting)
      /\ Cardinality(Range(nodes) \ visiting) <= Cardinality(Range(nodes))
  BY <1>1, FS_Subset
<1>3. Range(nodes) \ {} = Range(nodes)
  OBVIOUS
<1>4. Left(visiting, nodes) \in Nat /\ Left({}, nodes) \in Nat
  BY <1>1, <1>2, <1>3, FS_CardinalityType DEF Left
<1>5. Left(visiting, nodes) < Left({}, nodes) + 1
  BY <1>2, <1>3, <1>4 DEF Left
<1>6. ASSUME NEW n \in Range(nodes) \ visiting
      PROVE  /\ visiting \cup {n} \in SUBSET Range(nodes)
             /\ Left(visiting \cup {n}, nodes) < Left(visiting, nodes)
  <2>1. Range(nodes) \ (visiting \cup {n}) = (Range(nodes) \ visiting) \ {n}
    OBVIOUS
  <2>2. Cardinality((Range(nodes) \ visiting) \ {n}) = Cardinality(Range(nodes) \ visiting) - 1
    BY <1>2, FS_RemoveElement
  <2>3. Left(visiting \cup {n}, nodes) = Left(visiting, nodes) - 1
    BY <2>1, <2>2 DEF Left
  <2> QED
    BY <1>4, <2>3
<1> QED
  BY <1>4, <1>5, <1>6

LEMMA VisitsRecur ==
  ASSUME NEW nodes \in Seq(Nodes), NEW deps \in Dependencies
  PROVE  IsVisit(Visits(nodes, deps), nodes, deps)
<1> DEFINE D == SUBSET Range(nodes)
           V == VisitTypes(nodes)
           rank == [visiting \in D |-> Left(visiting, nodes)]
           bound == Left({}, nodes) + 1
           body == [f \in [D -> V] |-> [visiting \in D |-> VisitBy(f, visiting, nodes, deps)]]
<1>1. rank \in [D -> Nat] /\ bound \in Nat /\ \A visiting \in D : rank[visiting] < bound
  <2>1. {} \in D
    OBVIOUS
  <2>2. bound \in Nat
    BY <2>1, LeftFalls
  <2>3. \A visiting \in D : rank[visiting] = Left(visiting, nodes)
    OBVIOUS
  <2>4. \A visiting \in D : Left(visiting, nodes) \in Nat /\ Left(visiting, nodes) < bound
    BY LeftFalls
  <2>5. rank \in [D -> Nat]
    BY <2>4
  <2> QED
    BY <2>2, <2>3, <2>4, <2>5
<1>2. ASSUME NEW f \in [D -> V], NEW visiting \in D
      PROVE  VisitBy(f, visiting, nodes, deps) \in V
  <2>1. \A n \in Range(nodes) \ visiting : f[visiting \cup {n}] \in V
    BY LeftFalls
  <2> QED
    BY <2>1, VisitByType
<1>3. body \in [[D -> V] -> [D -> V]]
  BY <1>2
<1>4. ASSUME NEW f \in [D -> V], NEW g \in [D -> V], NEW visiting \in D,
             \A y \in D : rank[y] < rank[visiting] => f[y] = g[y]
      PROVE  body[f][visiting] = body[g][visiting]
  <2>1. ASSUME NEW n \in Range(nodes) \ visiting
        PROVE  f[visiting \cup {n}] = g[visiting \cup {n}]
    <3>1. visiting \cup {n} \in D /\ Left(visiting \cup {n}, nodes) < Left(visiting, nodes)
      BY LeftFalls
    <3>2. rank[visiting \cup {n}] < rank[visiting]
      BY <3>1
    <3> QED
      BY <1>4, <3>1, <3>2
  <2>2. ASSUME NEW n \in Range(nodes) \ visiting, NEW s \in SortStates
        PROVE  After(f, visiting, n, s, nodes, deps) = After(g, visiting, n, s, nodes, deps)
    <3>1. f[visiting \cup {n}] = g[visiting \cup {n}]
      BY <2>1
    <3>2. Calling(f, visiting, n, nodes) = Calling(g, visiting, n, nodes)
      BY ONLY <3>1 DEF Calling
    <3> QED
      BY ONLY <3>2 DEF After
  <2>3. VisitBy(f, visiting, nodes, deps) = VisitBy(g, visiting, nodes, deps)
    <3> DEFINE one(h, n, s) ==
                 IF s.cycle \/ Visited(n, s) THEN s
                 ELSE IF n \in visiting THEN [s EXCEPT !.cycle = TRUE]
                 ELSE IF After(h, visiting, n, s, nodes, deps).cycle
                      THEN After(h, visiting, n, s, nodes, deps)
                      ELSE Finished(n, s.sorted, After(h, visiting, n, s, nodes, deps))
    <3>1. \A n \in Range(nodes), s \in SortStates : one(f, n, s) = one(g, n, s)
      BY ONLY <2>2
    <3>2. /\ VisitBy(f, visiting, nodes, deps) = [n \in Range(nodes) |-> [s \in SortStates |-> one(f, n, s)]]
          /\ VisitBy(g, visiting, nodes, deps) = [n \in Range(nodes) |-> [s \in SortStates |-> one(g, n, s)]]
      BY ONLY DEF VisitBy
    <3> HIDE DEF one
    <3> QED
      BY ONLY <3>1, <3>2
  <2> QED
    BY <2>3
<1>5. V # {}
  <2>1. [n \in Range(nodes) |-> [s \in SortStates |-> s]] \in V
    BY DEF VisitTypes
  <2> QED
    BY <2>1
<1>6. Recursion(D, V, rank, bound, body)
  <2>1. \A f, g \in [D -> V], visiting \in D :
           (\A y \in D : rank[y] < rank[visiting] => f[y] = g[y]) => body[f][visiting] = body[g][visiting]
    BY <1>4
  <2> HIDE DEF D, V, rank, bound, body
  <2> QED
    BY <1>1, <1>3, <2>1 DEF Recursion
<1>7. PICK f \in [D -> V] : f = body[f]
  <2> HIDE DEF D, V, rank, bound, body
  <2> QED
    BY <1>5, <1>6, RecursionExists
<1>8. IsVisit(f, nodes, deps)
  <2>1. body[f] = [visiting \in D |-> VisitBy(f, visiting, nodes, deps)]
    OBVIOUS
  <2> QED
    BY ONLY <1>7, <2>1 DEF IsVisit
<1> QED
  BY <1>8, VisitsChosen

------------------------------------------------------------------------------
(* visit() is right.                                                       *)

\* What is sorted is sorted once, each node behind its dependencies.
InOrder(q, nodes, deps) ==
  /\ q \in Seq(Nodes) /\ Range(q) \subseteq Range(nodes) /\ IsInjective(q)
  /\ \A i \in DOMAIN q : \A d \in Range(deps[q[i]]) \cap Range(nodes) :
       \E j \in DOMAIN q : j < i /\ q[j] = d

Clean(s, visiting, nodes, deps) ==
  InOrder(s.sorted, nodes, deps) /\ Range(s.sorted) \cap visiting = {}

Grows(s, r, nodes, deps) ==
  /\ Range(s.sorted) \subseteq Range(r.sorted)
  /\ s.cycle => r.cycle
  /\ r.cycle => s.cycle \/ HasCycle(Range(nodes), deps)

\* One turn, for d, leaves r of s.
Turn(s, r, d, visiting, nodes, deps) ==
  Clean(s, visiting, nodes, deps) =>
    /\ Clean(r, visiting, nodes, deps) /\ Grows(s, r, nodes, deps)
    /\ d \in Range(nodes) /\ ~r.cycle => d \in Range(r.sorted)

LEMMA AllTurns ==
  ASSUME NEW nodes, NEW deps, NEW visiting, NEW A,
         NEW step \in [A -> [SortStates -> SortStates]],
         NEW s \in SortStates, NEW seq \in Seq(A), Clean(s, visiting, nodes, deps),
         \A d \in Range(seq), t \in SortStates : Turn(t, step[d][t], d, visiting, nodes, deps)
  PROVE  /\ InTurn(step, s, seq) \in SortStates
         /\ Clean(InTurn(step, s, seq), visiting, nodes, deps)
         /\ Grows(s, InTurn(step, s, seq), nodes, deps)
         /\ ~InTurn(step, s, seq).cycle =>
              Range(seq) \cap Range(nodes) \subseteq Range(InTurn(step, s, seq).sorted)
<1>1. PICK g \in [0 .. Len(seq) -> SortStates] : Turns(g, step, s, seq)
  BY InTurnTurns
<1>2. DOMAIN seq = 1 .. Len(seq) /\ Len(seq) \in Nat
  OBVIOUS
<1> DEFINE Holds(i) ==
             /\ Clean(g[i], visiting, nodes, deps) /\ Grows(s, g[i], nodes, deps)
             /\ ~g[i].cycle => \A k \in 1 .. i : seq[k] \in Range(nodes) => seq[k] \in Range(g[i].sorted)
           T == {i \in Nat : i <= Len(seq) => Holds(i)}
<1>3. 0 \in T
  <2>1. g[0] = s
    BY <1>1 DEF Turns
  <2>2. Grows(s, s, nodes, deps)
    BY DEF Grows
  <2>3. \A k \in 1 .. 0 : FALSE
    OBVIOUS
  <2> QED
    BY <2>1, <2>2, <2>3
<1>4. ASSUME NEW i \in Nat, i \in T
      PROVE  i + 1 \in T
  <2>1. CASE i + 1 <= Len(seq)
    <3>1. i + 1 \in 1 .. Len(seq) /\ i + 1 - 1 = i /\ i \in 0 .. Len(seq) /\ Holds(i)
      BY <1>2, <1>4, <2>1
    <3>2. g[i + 1] = step[seq[i + 1]][g[i]] /\ g[i] \in SortStates
      BY <1>1, <3>1 DEF Turns
    <3>3. seq[i + 1] \in Range(seq)
      BY <1>2, <3>1 DEF Range
    <3>4. Turn(g[i], g[i + 1], seq[i + 1], visiting, nodes, deps)
      BY <3>2, <3>3
    <3>5. /\ Clean(g[i + 1], visiting, nodes, deps) /\ Grows(g[i], g[i + 1], nodes, deps)
          /\ seq[i + 1] \in Range(nodes) /\ ~g[i + 1].cycle => seq[i + 1] \in Range(g[i + 1].sorted)
      BY <3>1, <3>4 DEF Turn
    <3>6. Grows(s, g[i + 1], nodes, deps)
      BY <3>1, <3>5 DEF Grows
    <3>7. ASSUME ~g[i + 1].cycle, NEW k \in 1 .. i + 1, seq[k] \in Range(nodes)
          PROVE  seq[k] \in Range(g[i + 1].sorted)
      <4>1. CASE k = i + 1
        BY <3>5, <3>7, <4>1
      <4>2. CASE k # i + 1
        <5>1. k \in 1 .. i
          BY <4>2
        <5>2. ~g[i].cycle /\ Range(g[i].sorted) \subseteq Range(g[i + 1].sorted)
          BY <3>5, <3>7 DEF Grows
        <5> QED
          BY <3>1, <3>7, <5>1, <5>2
      <4> QED
        BY <4>1, <4>2
    <3> QED
      BY <3>5, <3>6, <3>7
  <2> QED
    BY <2>1
<1>5. Nat \subseteq T
  <2> HIDE DEF T
  <2> QED
    BY <1>3, <1>4, SetInduction
<1>6. Holds(Len(seq)) /\ g[Len(seq)] = InTurn(step, s, seq) /\ g[Len(seq)] \in SortStates
  BY <1>1, <1>2, <1>5 DEF Turns
<1>7. ~g[Len(seq)].cycle => Range(seq) \cap Range(nodes) \subseteq Range(g[Len(seq)].sorted)
  BY <1>2, <1>6 DEF Range
<1> QED
  BY <1>6, <1>7

\* A node appended behind its dependencies.
LEMMA AppendInOrder ==
  ASSUME NEW nodes, NEW deps, NEW q, InOrder(q, nodes, deps),
         NEW n \in Nodes, n \in Range(nodes), n \notin Range(q),
         Range(deps[n]) \cap Range(nodes) \subseteq Range(q)
  PROVE  InOrder(Append(q, n), nodes, deps) /\ Range(Append(q, n)) = Range(q) \cup {n}
<1> DEFINE r == Append(q, n)
<1>1. q \in Seq(Nodes)
  BY DEF InOrder
<1>2. /\ r \in Seq(Nodes) /\ Len(q) \in Nat /\ DOMAIN q = 1 .. Len(q)
      /\ DOMAIN r = 1 .. (Len(q) + 1) /\ r[Len(q) + 1] = n
      /\ \A i \in 1 .. Len(q) : r[i] = q[i]
  BY <1>1
<1> HIDE DEF r
<1>3. DOMAIN r = DOMAIN q \cup {Len(q) + 1} /\ Len(q) + 1 \notin DOMAIN q
  BY <1>2
<1>4. Range(r) = Range(q) \cup {n}
  BY <1>2, <1>3 DEF Range
<1>5. IsInjective(r)
  <2> SUFFICES ASSUME NEW a \in DOMAIN r, NEW b \in DOMAIN r, r[a] = r[b]
               PROVE  a = b
    BY DEF IsInjective
  <2>1. \A i \in DOMAIN q : q[i] # n /\ r[i] = q[i]
    BY <1>2 DEF Range
  <2> QED
    BY <1>2, <1>3, <2>1 DEF InOrder, IsInjective
<1>6. ASSUME NEW i \in DOMAIN r, NEW d \in Range(deps[r[i]]) \cap Range(nodes)
      PROVE  \E j \in DOMAIN r : j < i /\ r[j] = d
  <2>1. CASE i \in DOMAIN q
    <3>1. r[i] = q[i]
      BY <1>2, <2>1
    <3>2. PICK j \in DOMAIN q : j < i /\ q[j] = d
      BY <1>6, <2>1, <3>1 DEF InOrder
    <3> QED
      BY <1>2, <1>3, <3>2
  <2>2. CASE i = Len(q) + 1
    <3>1. d \in Range(q)
      BY <1>2, <1>6, <2>2
    <3>2. PICK j \in DOMAIN q : q[j] = d
      BY <3>1 DEF Range
    <3> QED
      BY <1>2, <1>3, <2>2, <3>2
  <2> QED
    BY <1>3, <2>1, <2>2
<1>7. Range(r) \subseteq Range(nodes)
  BY <1>4 DEF InOrder
<1>8. r \in Seq(Nodes)
  BY <1>2
<1>9. InOrder(r, nodes, deps)
  BY <1>5, <1>6, <1>7, <1>8 DEF InOrder
<1> QED
  BY <1>4, <1>9 DEF r

\* The first node of a set in a topological order depends on none in the set.
LEMMA FirstOfSet ==
  ASSUME NEW order \in Seq(Nodes), NEW some, NEW nodes, NEW deps, IsTopological(order, nodes, deps),
         some \subseteq nodes, some # {}
  PROVE  \E n \in some : Range(deps[n]) \cap some = {}
<1> DEFINE T == {i \in Nat : i \in DOMAIN order /\ order[i] \in some}
<1>1. T # {} /\ T \subseteq Nat
  <2>1. PICK n \in some : TRUE
    OBVIOUS
  <2>2. n \in Range(order)
    BY DEF IsTopological
  <2>3. PICK i \in DOMAIN order : order[i] = n
    BY <2>2 DEF Range
  <2>4. i \in Nat
    OBVIOUS
  <2> QED
    BY <2>3, <2>4
<1>2. PICK i \in T : \A j \in T : <<j, i>> \notin Less
  BY <1>1, NatLessThanWellFounded, WFMin DEF Less
<1>3. \A j \in T : ~(j < i)
  BY <1>1, <1>2 DEF Less, OpToRel
<1>4. ASSUME NEW d \in Range(deps[order[i]]), d \in some
      PROVE  FALSE
  <2>1. d \in Range(order)
    BY <1>4 DEF IsTopological
  <2>2. PICK j \in DOMAIN order : order[j] = d
    BY <2>1 DEF Range
  <2>3. j < i /\ j \in T
    BY <1>4, <2>2 DEF IsTopological
  <2> QED
    BY <1>3, <2>3
<1> QED
  BY <1>4

LEMMA TopologicalHasNoCycle ==
  ASSUME NEW order \in Seq(Nodes), NEW nodes, NEW deps, IsTopological(order, nodes, deps)
  PROVE  ~HasCycle(nodes, deps)
<1> SUFFICES ASSUME NEW some \in SUBSET nodes, some # {},
                    \A n \in some : Range(deps[n]) \cap some # {}
             PROVE  FALSE
  BY DEF HasCycle
<1> QED
  BY FirstOfSet

\* Each node that is being visited depends on one visited below it.
Chain(visiting, n, deps) == \A p \in visiting : Range(deps[p]) \cap (visiting \cup {n}) # {}

VisitIsSound(f, visiting, nodes, deps) ==
  /\ f[visiting] \in VisitTypes(nodes)
  /\ \A n \in Range(nodes), s \in SortStates :
       Chain(visiting, n, deps) => Turn(s, f[visiting][n][s], n, visiting, nodes, deps)

\* One visit is sound if those below it are.
LEMMA VisitStep ==
  ASSUME NEW nodes \in Seq(Nodes), NEW deps \in Dependencies, NEW f,
         NEW visiting \in SUBSET Range(nodes), IsVisit(f, nodes, deps),
         \A n \in Range(nodes) \ visiting : VisitIsSound(f, visiting \cup {n}, nodes, deps)
  PROVE  VisitIsSound(f, visiting, nodes, deps)
<1>1. f[visiting] = VisitBy(f, visiting, nodes, deps)
  BY DEF IsVisit
<1>2. \A n \in Range(nodes) \ visiting : f[visiting \cup {n}] \in VisitTypes(nodes)
  BY DEF VisitIsSound
<1>3. /\ f[visiting] \in VisitTypes(nodes)
      /\ \A n \in Range(nodes) \ visiting :
           Calling(f, visiting, n, nodes) \in [Nodes \cup {Missing} -> [SortStates -> SortStates]]
  <2>1. /\ VisitBy(f, visiting, nodes, deps) \in VisitTypes(nodes)
        /\ \A n \in Range(nodes) \ visiting :
             Calling(f, visiting, n, nodes) \in [Nodes \cup {Missing} -> [SortStates -> SortStates]]
    BY <1>2, VisitByType
  <2> QED
    BY ONLY <1>1, <2>1
<1>4. Range(nodes) \subseteq Nodes
  BY NodesOfSequence
<1> SUFFICES ASSUME NEW n \in Range(nodes), NEW s \in SortStates, Chain(visiting, n, deps),
                    Clean(s, visiting, nodes, deps),
                    NEW r, r = f[visiting][n][s]
             PROVE  /\ Clean(r, visiting, nodes, deps) /\ Grows(s, r, nodes, deps)
                    /\ ~r.cycle => n \in Range(r.sorted)
  BY <1>3 DEF VisitIsSound, Turn
<1> DEFINE after == After(f, visiting, n, s, nodes, deps)
<1>5. r = IF s.cycle \/ Visited(n, s) THEN s
          ELSE IF n \in visiting THEN [s EXCEPT !.cycle = TRUE]
          ELSE IF after.cycle THEN after ELSE Finished(n, s.sorted, after)
  BY <1>1 DEF VisitBy
<1>6. CASE s.cycle \/ Visited(n, s)
  BY <1>5, <1>6 DEF Grows, Visited
<1>7. CASE ~s.cycle /\ ~Visited(n, s) /\ n \in visiting
  <2>1. r.sorted = s.sorted /\ r.cycle
    BY <1>5, <1>7 DEF SortStates
  <2>2. HasCycle(Range(nodes), deps)
    <3>1. visiting \in SUBSET Range(nodes) /\ visiting # {}
      BY <1>7
    <3>2. \A p \in visiting : Range(deps[p]) \cap visiting # {}
      <4>1. visiting \cup {n} = visiting
        BY <1>7
      <4> QED
        BY <4>1 DEF Chain
    <3> QED
      BY <3>1, <3>2 DEF HasCycle
  <2> QED
    BY <2>1, <2>2 DEF Grows, Clean
<1>8. CASE ~s.cycle /\ ~Visited(n, s) /\ n \notin visiting
  <2> DEFINE step == Calling(f, visiting, n, nodes)
             below == visiting \cup {n}
  <2>1. step \in [Nodes \cup {Missing} -> [SortStates -> SortStates]]
    BY <1>3, <1>8
  <2>2. deps[n] \in Seq(Nodes \cup {Missing}) /\ Range(deps[n]) \subseteq Nodes \cup {Missing}
    <3>1. deps[n] \in Seq(Nodes \cup {Missing})
      BY <1>4 DEF Dependencies
    <3> QED
      BY <3>1 DEF Range
  <2>3. Clean(s, below, nodes, deps)
    BY <1>8 DEF Clean, Visited
  <2>4. ASSUME NEW d \in Range(deps[n]), NEW t \in SortStates
        PROVE  Turn(t, step[d][t], d, below, nodes, deps)
    <3>1. CASE d \in Range(nodes)
      <4>1. step[d][t] = f[below][d][t]
        BY <2>2, <3>1 DEF Calling
      <4>2. Chain(below, d, deps)
        BY DEF Chain
      <4>3. VisitIsSound(f, below, nodes, deps)
        BY <1>8
      <4> HIDE DEF step, below
      <4> QED
        BY <3>1, <4>1, <4>2, <4>3 DEF VisitIsSound
    <3>2. CASE d \notin Range(nodes)
      <4>1. step[d][t] = t
        BY <2>2, <3>2 DEF Calling
      <4> HIDE DEF step, below
      <4> QED
        BY <3>2, <4>1 DEF Turn, Grows
    <3> QED
      BY <3>1, <3>2
  <2>5. /\ after \in SortStates
        /\ Clean(after, below, nodes, deps) /\ Grows(s, after, nodes, deps)
        /\ ~after.cycle => Range(deps[n]) \cap Range(nodes) \subseteq Range(after.sorted)
    <3>1. after = InTurn(step, s, deps[n])
      BY DEF After
    <3> HIDE DEF step, below, after
    <3> QED
      BY <2>1, <2>2, <2>3, <2>4, <3>1, AllTurns
  <2> HIDE DEF after
  <2>6. CASE after.cycle
    <3>1. r = after
      BY <1>5, <1>8, <2>6
    <3>2. Clean(after, visiting, nodes, deps)
      BY <2>5 DEF Clean
    <3> QED
      BY <2>5, <2>6, <3>1, <3>2
  <2>7. CASE ~after.cycle
    <3>1. r = Finished(n, s.sorted, after)
      BY <1>5, <1>8, <2>7
    <3>2. r.sorted = Append(after.sorted, n) /\ ~r.cycle
      BY <1>4, <2>5, <2>7, <3>1, FinishedType
    <3>3. n \notin Range(after.sorted) /\ Range(after.sorted) \cap visiting = {}
      BY <2>5 DEF Clean
    <3>4. InOrder(r.sorted, nodes, deps) /\ Range(r.sorted) = Range(after.sorted) \cup {n}
      BY <1>4, <2>5, <2>7, <3>2, <3>3, AppendInOrder DEF Clean
    <3>5. Clean(r, visiting, nodes, deps)
      BY <1>8, <3>3, <3>4 DEF Clean
    <3>6. Grows(s, r, nodes, deps)
      BY <1>8, <2>5, <3>2, <3>4 DEF Grows
    <3> QED
      BY <3>4, <3>5, <3>6
  <2> QED
    BY <2>6, <2>7
<1> QED
  BY <1>6, <1>7, <1>8

LEMMA VisitsSound ==
  ASSUME NEW nodes \in Seq(Nodes), NEW deps \in Dependencies
  PROVE  \A visiting \in SUBSET Range(nodes) : VisitIsSound(Visits(nodes, deps), visiting, nodes, deps)
<1> DEFINE f == Visits(nodes, deps)
           T == {k \in Nat : \A visiting \in SUBSET Range(nodes) :
                               Left(visiting, nodes) < k => VisitIsSound(f, visiting, nodes, deps)}
<1>1. IsVisit(f, nodes, deps)
  BY VisitsRecur
<1>2. 0 \in T
  BY LeftFalls
<1>3. ASSUME NEW k \in Nat, k \in T
      PROVE  k + 1 \in T
  <2> SUFFICES ASSUME NEW visiting \in SUBSET Range(nodes), Left(visiting, nodes) < k + 1
               PROVE  VisitIsSound(f, visiting, nodes, deps)
    OBVIOUS
  <2>1. ASSUME NEW n \in Range(nodes) \ visiting
        PROVE  VisitIsSound(f, visiting \cup {n}, nodes, deps)
    <3>1. /\ visiting \cup {n} \in SUBSET Range(nodes)
          /\ Left(visiting \cup {n}, nodes) < Left(visiting, nodes)
          /\ Left(visiting, nodes) \in Nat
      BY LeftFalls
    <3>2. Left(visiting \cup {n}, nodes) \in Nat
      BY <3>1, LeftFalls
    <3>3. Left(visiting \cup {n}, nodes) < k
      BY <3>1, <3>2
    <3> QED
      BY <1>3, <3>1, <3>3
  <2> HIDE DEF f, T
  <2> QED
    BY <1>1, <2>1, VisitStep
<1>4. Nat \subseteq T
  <2> HIDE DEF T
  <2> QED
    BY <1>2, <1>3, SetInduction
<1> SUFFICES ASSUME NEW visiting \in SUBSET Range(nodes)
             PROVE  VisitIsSound(f, visiting, nodes, deps)
  OBVIOUS
<1>5. Left(visiting, nodes) \in Nat
  BY LeftFalls
<1>6. Left(visiting, nodes) + 1 \in T /\ Left(visiting, nodes) < Left(visiting, nodes) + 1
  BY <1>4, <1>5
<1> HIDE DEF f
<1> QED
  BY <1>6

\* topologicalSort() answers an order of the nodes, or there is a cycle.
LEMMA SortSound ==
  ASSUME NEW nodes \in Seq(Nodes), NEW deps \in Dependencies
  PROVE  LET plan == TopologicalSort(nodes, deps) IN
         /\ plan.cycle \in BOOLEAN /\ plan.sorted \in Seq(Nodes)
         /\ plan.cycle = HasCycle(Range(nodes), deps)
         /\ ~plan.cycle => IsTopological(plan.sorted, Range(nodes), deps)
<1> DEFINE plan == TopologicalSort(nodes, deps)
           step == Visits(nodes, deps)[{}]
           s == [sorted |-> <<>>, cycle |-> FALSE]
           A == Range(nodes)
<1>1. step \in [A -> [SortStates -> SortStates]] /\ nodes \in Seq(A)
  <2>1. {} \in SUBSET Range(nodes)
    OBVIOUS
  <2>2. nodes \in Seq(A)
    <3>1. nodes = [i \in 1 .. Len(nodes) |-> nodes[i]] /\ Len(nodes) \in Nat
      OBVIOUS
    <3>2. \A i \in 1 .. Len(nodes) : nodes[i] \in A
      BY DEF Range
    <3> QED
      BY <3>1, <3>2
  <2> QED
    BY <2>1, <2>2, VisitsSound DEF VisitIsSound, VisitTypes
<1>2. s \in SortStates
  BY DEF SortStates
<1>3. Clean(s, {}, nodes, deps)
  <2>1. <<>> \in Seq(Nodes) /\ DOMAIN <<>> = {} /\ Range(<<>>) = {}
    BY DEF Range
  <2>2. s.sorted = <<>>
    OBVIOUS
  <2> QED
    BY <2>1, <2>2 DEF Clean, InOrder, IsInjective
<1>4. ASSUME NEW d \in A, NEW t \in SortStates
      PROVE  Turn(t, step[d][t], d, {}, nodes, deps)
  <2>1. Chain({}, d, deps)
    BY DEF Chain
  <2> QED
    BY <2>1, VisitsSound DEF VisitIsSound
<1>5. /\ plan \in SortStates
      /\ Clean(plan, {}, nodes, deps) /\ Grows(s, plan, nodes, deps)
      /\ ~plan.cycle => Range(nodes) \subseteq Range(plan.sorted)
  <2>1. plan = InTurn(step, s, nodes)
    BY DEF TopologicalSort
  <2> HIDE DEF plan, step, s
  <2>2. \A d \in Range(nodes), t \in SortStates : Turn(t, step[d][t], d, {}, nodes, deps)
    BY <1>4
  <2> QED
    BY <1>1, <1>2, <1>3, <2>1, <2>2, AllTurns
<1>6. plan.cycle \in BOOLEAN /\ plan.sorted \in Seq(Nodes)
  <2> HIDE DEF plan
  <2> QED
    BY <1>5 DEF SortStates
<1>7. plan.cycle => HasCycle(Range(nodes), deps)
  <2>1. ~s.cycle
    OBVIOUS
  <2> HIDE DEF plan, s
  <2> QED
    BY <1>5, <2>1 DEF Grows
<1>8. ~plan.cycle => IsTopological(plan.sorted, Range(nodes), deps)
  <2> HIDE DEF plan
  <2> SUFFICES ASSUME ~plan.cycle
               PROVE  IsTopological(plan.sorted, Range(nodes), deps)
    OBVIOUS
  <2>1. InOrder(plan.sorted, nodes, deps) /\ Range(plan.sorted) = Range(nodes)
    BY <1>5 DEF Clean, InOrder
  <2>2. ASSUME NEW i \in DOMAIN plan.sorted, NEW j \in DOMAIN plan.sorted,
               plan.sorted[j] \in Range(deps[plan.sorted[i]])
        PROVE  j < i
    <3>1. plan.sorted[j] \in Range(nodes)
      BY <2>1 DEF Range
    <3>2. PICK k \in DOMAIN plan.sorted : k < i /\ plan.sorted[k] = plan.sorted[j]
      BY <2>1, <2>2, <3>1 DEF InOrder
    <3> QED
      BY <2>1, <3>2 DEF InOrder, IsInjective
  <2> QED
    BY <2>1, <2>2 DEF IsTopological, InOrder
<1>9. HasCycle(Range(nodes), deps) => plan.cycle
  <2> HIDE DEF plan
  <2> SUFFICES ASSUME ~plan.cycle, HasCycle(Range(nodes), deps)
               PROVE  FALSE
    OBVIOUS
  <2> QED
    BY <1>6, <1>8, TopologicalHasNoCycle
<1>10. plan.cycle = HasCycle(Range(nodes), deps)
  <2>1. HasCycle(Range(nodes), deps) \in BOOLEAN
    BY DEF HasCycle
  <2> HIDE DEF plan
  <2> QED
    BY <1>6, <1>7, <1>9, <2>1
<1> QED
  BY ONLY <1>6, <1>8, <1>10

\* The nodes that are run are nodes.
LEMMA StepsType ==
  ASSUME NEW w
  PROVE  StepsOf(w) \in Seq(Nodes)
PROOF BY NodesAssumption, FilterIs DEF StepsOf

------------------------------------------------------------------------------
(* computeParallelGroups() exists and is right.                            *)

IsBatches(f, N, deps) ==
  f = [remaining \in SUBSET N |->
         IF Batch(remaining, N \ remaining, deps) = {} THEN <<>>
         ELSE <<Batch(remaining, N \ remaining, deps)>>
              \o f[remaining \ Batch(remaining, N \ remaining, deps)]]

LEMMA GroupsChosen ==
  ASSUME NEW sorted, NEW deps
  PROVE  ParallelGroups(sorted, deps) = (CHOOSE f : IsBatches(f, Range(sorted), deps))[Range(sorted)]
PROOF BY DEF ParallelGroups, IsBatches

LEMMA BatchSmaller ==
  ASSUME NEW N, IsFiniteSet(N), NEW remaining \in SUBSET N, NEW batch \in SUBSET remaining
  PROVE  /\ remaining \ batch \in SUBSET N
         /\ Cardinality(remaining) \in Nat /\ Cardinality(N) \in Nat
         /\ Cardinality(remaining) < Cardinality(N) + 1
         /\ batch # {} => Cardinality(remaining \ batch) < Cardinality(remaining)
<1>1. remaining \ batch \in SUBSET N
  OBVIOUS
<1>2. /\ IsFiniteSet(remaining) /\ Cardinality(remaining) <= Cardinality(N)
  BY FS_Subset
<1>3. Cardinality(remaining) \in Nat /\ Cardinality(N) \in Nat
  BY <1>2, FS_CardinalityType
<1>4. ASSUME batch # {}
      PROVE  Cardinality(remaining \ batch) < Cardinality(remaining)
  <2>1. PICK n \in batch : TRUE
    BY <1>4
  <2>2. IsFiniteSet(remaining \ {n}) /\ Cardinality(remaining \ {n}) = Cardinality(remaining) - 1
    BY <1>1, <1>2, <2>1, FS_RemoveElement
  <2>3. remaining \ batch \in SUBSET (remaining \ {n})
    BY <2>1
  <2>4. IsFiniteSet(remaining \ batch) /\ Cardinality(remaining \ batch) <= Cardinality(remaining \ {n})
    BY <2>2, <2>3, FS_Subset
  <2>5. Cardinality(remaining \ batch) \in Nat
    BY <2>4, FS_CardinalityType
  <2> QED
    BY <1>3, <2>2, <2>4, <2>5
<1>5. Cardinality(remaining) < Cardinality(N) + 1
  BY <1>2, <1>3
<1> QED
  BY <1>1, <1>3, <1>4, <1>5

LEMMA BatchesExist ==
  ASSUME NEW N, IsFiniteSet(N), NEW deps
  PROVE  \E f : IsBatches(f, N, deps)
<1> DEFINE D == SUBSET N
           V == Seq(SUBSET N)
           rank == [remaining \in D |-> Cardinality(remaining)]
           bound == Cardinality(N) + 1
           batch(remaining) == Batch(remaining, N \ remaining, deps)
           value(f, remaining) == IF batch(remaining) = {} THEN <<>>
                                  ELSE <<batch(remaining)>> \o f[remaining \ batch(remaining)]
           body == [f \in [D -> V] |-> [remaining \in D |-> value(f, remaining)]]
<1>1. \A remaining \in D : /\ batch(remaining) \in D /\ remaining \ batch(remaining) \in D
                           /\ rank[remaining] = Cardinality(remaining)
                           /\ Cardinality(remaining) \in Nat /\ Cardinality(remaining) < bound
                           /\ batch(remaining) # {} =>
                                Cardinality(remaining \ batch(remaining)) < Cardinality(remaining)
  <2> SUFFICES ASSUME NEW remaining \in D
               PROVE  /\ batch(remaining) \in D /\ remaining \ batch(remaining) \in D
                      /\ Cardinality(remaining) \in Nat /\ Cardinality(remaining) < bound
                      /\ batch(remaining) # {} =>
                           Cardinality(remaining \ batch(remaining)) < Cardinality(remaining)
    BY DEF rank
  <2> DEFINE first == batch(remaining)
  <2>1. first \in SUBSET remaining /\ first = batch(remaining)
    BY DEF Batch
  <2> HIDE DEF first
  <2>2. /\ remaining \ first \in SUBSET N
        /\ Cardinality(remaining) \in Nat /\ Cardinality(N) \in Nat
        /\ Cardinality(remaining) < Cardinality(N) + 1
        /\ first # {} => Cardinality(remaining \ first) < Cardinality(remaining)
    <3>1. remaining \in SUBSET N
      OBVIOUS
    <3> HIDE DEF D, rank, bound
    <3> QED
      BY <2>1, <3>1, BatchSmaller
  <2> QED
    BY <2>1, <2>2
<1>2. bound \in Nat
  BY FS_CardinalityType
<1>3. rank \in [D -> Nat]
  BY <1>1
<1> HIDE DEF batch
<1>4. ASSUME NEW f \in [D -> V], NEW remaining \in D
      PROVE  value(f, remaining) \in V
  <2>1. <<>> \in V
    OBVIOUS
  <2>2. f[remaining \ batch(remaining)] \in V /\ <<batch(remaining)>> \in V
    <3>1. remaining \ batch(remaining) \in D /\ batch(remaining) \in SUBSET N
      BY <1>1
    <3>2. f[remaining \ batch(remaining)] \in V
      BY <3>1
    <3>3. <<batch(remaining)>> \in V
      BY <3>1
    <3> QED
      BY ONLY <3>2, <3>3
  <2>3. \A q, r \in V : q \o r \in V
    OBVIOUS
  <2> HIDE DEF V, D
  <2> QED
    BY <2>1, <2>2, <2>3
<1>5. body \in [[D -> V] -> [D -> V]]
  <2> HIDE DEF D, V, value
  <2> QED
    BY <1>4
<1>6. ASSUME NEW f \in [D -> V], NEW g \in [D -> V], NEW remaining \in D,
             \A y \in D : rank[y] < rank[remaining] => f[y] = g[y]
      PROVE  body[f][remaining] = body[g][remaining]
  <2>1. body[f][remaining] = value(f, remaining) /\ body[g][remaining] = value(g, remaining)
    <3> HIDE DEF D, V, value
    <3> QED
      OBVIOUS
  <2>2. CASE batch(remaining) # {}
    <3>1. remaining \ batch(remaining) \in D /\ rank[remaining \ batch(remaining)] < rank[remaining]
      BY <1>1, <2>2
    <3>2. f[remaining \ batch(remaining)] = g[remaining \ batch(remaining)]
      BY <1>6, <3>1
    <3>3. value(f, remaining) = value(g, remaining)
      BY ONLY <3>2
    <3> QED
      BY <2>1, <3>3
  <2>3. CASE batch(remaining) = {}
    <3>1. value(f, remaining) = value(g, remaining)
      BY ONLY <2>3
    <3> QED
      BY <2>1, <3>1
  <2> QED
    BY <2>2, <2>3
<1>7. Recursion(D, V, rank, bound, body)
  <2>1. \A f, g \in [D -> V], remaining \in D :
           (\A y \in D : rank[y] < rank[remaining] => f[y] = g[y]) => body[f][remaining] = body[g][remaining]
    BY <1>6
  <2>2. \A remaining \in D : rank[remaining] < bound
    BY <1>1
  <2> HIDE DEF D, V, rank, bound, body
  <2> QED
    BY <1>2, <1>3, <1>5, <2>1, <2>2 DEF Recursion
<1>8. PICK f \in [D -> V] : f = body[f]
  <2>1. V # {}
    <3>1. <<>> \in V
      OBVIOUS
    <3> QED
      BY ONLY <3>1
  <2> HIDE DEF D, V, rank, bound, body
  <2> QED
    BY <1>7, <2>1, RecursionExists
<1>9. f = [remaining \in D |-> value(f, remaining)]
  <2>1. body[f] = [remaining \in D |-> value(f, remaining)]
    <3> HIDE DEF value, D, V
    <3> QED
      OBVIOUS
  <2> QED
    BY ONLY <1>8, <2>1
<1>10. IsBatches(f, N, deps)
  BY ONLY <1>9 DEF IsBatches, batch
<1> QED
  BY <1>10

Before(groups, i) == UNION {groups[j] : j \in 1 .. (i - 1)}

\* The groups of the nodes that remain, when the others came before.
Layered(groups, remaining, N, deps) ==
  /\ groups \in Seq(SUBSET N)
  /\ Before(groups, Len(groups) + 1) = remaining
  /\ \A i \in DOMAIN groups :
       /\ groups[i] # {}
       /\ groups[i] = {n \in remaining \ Before(groups, i) :
                         Range(deps[n]) \subseteq (N \ remaining) \cup Before(groups, i)}

\* A batch put before the groups of the rest.
LEMMA LayerFirst ==
  ASSUME NEW N, NEW deps, NEW remaining \in SUBSET N, NEW batch,
         batch = Batch(remaining, N \ remaining, deps), batch # {},
         NEW rest, Layered(rest, remaining \ batch, N, deps)
  PROVE  Layered(<<batch>> \o rest, remaining, N, deps)
<1> DEFINE groups == <<batch>> \o rest
<1>1. batch \subseteq remaining /\ batch \in SUBSET N
  BY DEF Batch
<1>2. rest \in Seq(SUBSET N)
  BY DEF Layered
<1>3. /\ groups \in Seq(SUBSET N) /\ Len(groups) = Len(rest) + 1 /\ Len(rest) \in Nat
      /\ DOMAIN groups = 1 .. (Len(rest) + 1) /\ DOMAIN rest = 1 .. Len(rest)
      /\ groups[1] = batch /\ \A i \in 1 .. Len(rest) : groups[i + 1] = rest[i]
  <2> DEFINE one == <<batch>>
  <2>1. one \in Seq(SUBSET N) /\ Len(one) = 1 /\ one[1] = batch /\ groups = one \o rest
    BY <1>1
  <2> HIDE DEF one, groups
  <2>2. /\ groups \in Seq(SUBSET N) /\ Len(groups) = Len(one) + Len(rest)
        /\ \A k \in 1 .. Len(one) : groups[k] = one[k]
        /\ \A i \in 1 .. Len(rest) : groups[Len(one) + i] = rest[i]
        /\ Len(rest) \in Nat
    <3> DEFINE T == SUBSET N
    <3>1. one \in Seq(T) /\ rest \in Seq(T)
      BY <1>2, <2>1
    <3> HIDE DEF T
    <3>2. /\ one \o rest \in Seq(T) /\ Len(one \o rest) = Len(one) + Len(rest)
          /\ \A k \in 1 .. Len(one) : (one \o rest)[k] = one[k]
          /\ \A i \in 1 .. Len(rest) : (one \o rest)[Len(one) + i] = rest[i]
          /\ Len(rest) \in Nat
      BY ONLY <3>1, Joined
    <3> QED
      BY ONLY <2>1, <3>2 DEF T
  <2>3. Len(groups) = Len(rest) + 1 /\ groups[1] = batch
    <3>1. 1 \in 1 .. Len(one) /\ Len(one) = 1
      BY <2>1
    <3>2. groups[1] = one[1]
      BY <2>2, <3>1
    <3>3. Len(groups) = 1 + Len(rest) /\ Len(rest) \in Nat
      BY ONLY <2>2, <3>1
    <3> QED
      BY ONLY <2>1, <3>2, <3>3
  <2>4. DOMAIN groups = 1 .. (Len(rest) + 1) /\ DOMAIN rest = 1 .. Len(rest)
    BY <1>2, <2>2, <2>3
  <2>5. \A i \in 1 .. Len(rest) : groups[i + 1] = rest[i]
    <3>1. \A i \in 1 .. Len(rest) : Len(one) + i = i + 1
      BY <2>1, <2>2
    <3> QED
      BY <2>2, <3>1
  <2> QED
    BY ONLY <2>2, <2>3, <2>4, <2>5
<1> HIDE DEF groups
<1>4. Before(groups, 1) = {}
  <2>1. 1 .. (1 - 1) = {}
    OBVIOUS
  <2> QED
    BY <2>1 DEF Before
<1>5. ASSUME NEW i \in 1 .. (Len(rest) + 1)
      PROVE  Before(groups, i + 1) = batch \cup Before(rest, i)
  <2>1. ASSUME NEW n \in Before(groups, i + 1)
        PROVE  n \in batch \cup Before(rest, i)
    <3>1. PICK j \in 1 .. i : n \in groups[j]
      BY <1>3 DEF Before
    <3>2. CASE j = 1
      BY <1>3, <3>1, <3>2
    <3>3. CASE j # 1
      <4>1. j - 1 \in 1 .. (i - 1) /\ j - 1 \in 1 .. Len(rest) /\ j - 1 + 1 = j
        BY <1>3, <3>3
      <4>2. n \in rest[j - 1]
        BY <1>3, <3>1, <4>1
      <4> QED
        BY <4>1, <4>2 DEF Before
    <3> QED
      BY <3>2, <3>3
  <2>2. batch \subseteq Before(groups, i + 1)
    <3>1. 1 \in 1 .. (i + 1 - 1)
      BY <1>3
    <3> QED
      BY <1>3, <3>1 DEF Before
  <2>3. ASSUME NEW n \in Before(rest, i)
        PROVE  n \in Before(groups, i + 1)
    <3>1. PICK j \in 1 .. (i - 1) : n \in rest[j]
      BY DEF Before
    <3>2. j + 1 \in 1 .. (i + 1 - 1) /\ j \in 1 .. Len(rest)
      BY <1>3
    <3>3. n \in groups[j + 1]
      BY <1>3, <3>1, <3>2
    <3> QED
      BY <3>2, <3>3 DEF Before
  <2> QED
    BY <2>1, <2>2, <2>3
<1>6. Before(groups, Len(groups) + 1) = remaining
  <2>1. Before(groups, Len(groups) + 1) = batch \cup Before(rest, Len(rest) + 1)
    <3>1. Len(rest) + 1 \in 1 .. (Len(rest) + 1)
      BY <1>3
    <3> DEFINE k == Len(rest) + 1
    <3>2. Before(groups, k + 1) = batch \cup Before(rest, k)
      BY <1>5, <3>1
    <3> QED
      BY <1>3, <3>2
  <2>2. Before(rest, Len(rest) + 1) = remaining \ batch
    BY DEF Layered
  <2> QED
    BY <1>1, <2>1, <2>2
<1>7. ASSUME NEW i \in DOMAIN groups
      PROVE  /\ groups[i] # {}
             /\ groups[i] = {n \in remaining \ Before(groups, i) :
                               Range(deps[n]) \subseteq (N \ remaining) \cup Before(groups, i)}
  <2>1. CASE i = 1
    <3>1. groups[i] = batch /\ Before(groups, i) = {}
      BY <1>3, <1>4, <2>1
    <3> QED
      BY <3>1 DEF Batch
  <2>2. CASE i # 1
    <3> DEFINE k == i - 1
    <3>1. k \in 1 .. Len(rest) /\ k + 1 = i
      BY <1>3, <2>2
    <3> HIDE DEF k
    <3>2. groups[i] = rest[k] /\ Before(groups, i) = batch \cup Before(rest, k)
      <4>1. groups[k + 1] = rest[k]
        BY <1>3, <3>1
      <4>2. k \in 1 .. (Len(rest) + 1)
        BY <1>3, <3>1
      <4>3. Before(groups, k + 1) = batch \cup Before(rest, k)
        BY <1>5, <4>2
      <4> QED
        BY <3>1, <4>1, <4>3
    <3>3. /\ rest[k] # {}
          /\ rest[k] = {n \in (remaining \ batch) \ Before(rest, k) :
                          Range(deps[n]) \subseteq (N \ (remaining \ batch)) \cup Before(rest, k)}
      BY <1>3, <3>1 DEF Layered
    <3>4. (remaining \ batch) \ Before(rest, k) = remaining \ Before(groups, i)
      BY <3>2
    <3>5. (N \ (remaining \ batch)) \cup Before(rest, k) = (N \ remaining) \cup Before(groups, i)
      BY <1>1, <3>2
    <3> QED
      BY ONLY <3>2, <3>3, <3>4, <3>5
  <2> QED
    BY <2>1, <2>2
<1>8. Layered(groups, remaining, N, deps)
  BY <1>3, <1>6, <1>7 DEF Layered
<1> QED
  BY <1>8 DEF groups

\* computeParallelGroups() puts every node into the first group that may have it.
LEMMA GroupsLayered ==
  ASSUME NEW sorted \in Seq(Nodes), NEW deps, IsTopological(sorted, Nodes, deps),
         \A n \in Nodes : Range(deps[n]) \subseteq Nodes
  PROVE  IsLayered(ParallelGroups(sorted, deps), Nodes, deps)
<1>1. Range(sorted) = Nodes /\ IsFiniteSet(Nodes)
  <2>1. Range(sorted) = Nodes
    BY DEF IsTopological
  <2> QED
    BY <2>1, NodesOfSequence
<1>2. PICK f : IsBatches(f, Nodes, deps) /\ ParallelGroups(sorted, deps) = f[Nodes]
  <2>1. ParallelGroups(sorted, deps) = (CHOOSE f : IsBatches(f, Nodes, deps))[Nodes]
    BY <1>1, GroupsChosen
  <2>2. \E f : IsBatches(f, Nodes, deps)
    BY <1>1, BatchesExist
  <2> QED
    BY <2>1, <2>2
<1> DEFINE T == {k \in Nat : \A remaining \in SUBSET Nodes :
                   Cardinality(remaining) < k => Layered(f[remaining], remaining, Nodes, deps)}
<1>3. 0 \in T
  <2>1. ASSUME NEW remaining \in SUBSET Nodes
        PROVE  ~(Cardinality(remaining) < 0)
    <3>1. {} \in SUBSET remaining
      OBVIOUS
    <3>2. Cardinality(remaining) \in Nat
      BY <1>1, <3>1, BatchSmaller
    <3> QED
      BY <3>2
  <2> QED
    BY <2>1
<1>4. ASSUME NEW k \in Nat, k \in T
      PROVE  k + 1 \in T
  <2> SUFFICES ASSUME NEW remaining \in SUBSET Nodes, Cardinality(remaining) < k + 1
               PROVE  Layered(f[remaining], remaining, Nodes, deps)
    OBVIOUS
  <2> DEFINE batch == Batch(remaining, Nodes \ remaining, deps)
             rest == remaining \ batch
  <2>1. f[remaining] = IF batch = {} THEN <<>> ELSE <<batch>> \o f[rest]
    BY <1>2 DEF IsBatches
  <2>2. remaining # {} => batch # {}
    <3>1. ASSUME remaining # {}
          PROVE  \E n \in remaining : Range(deps[n]) \cap remaining = {}
      BY <3>1, FirstOfSet
    <3>2. ASSUME NEW n \in remaining, Range(deps[n]) \cap remaining = {}
          PROVE  n \in batch
      BY <3>2 DEF Batch
    <3> HIDE DEF batch
    <3> QED
      BY <3>1, <3>2
  <2>3. /\ batch = Batch(remaining, Nodes \ remaining, deps) /\ rest = remaining \ batch
        /\ batch \in SUBSET remaining
    BY DEF Batch
  <2> HIDE DEF batch, rest
  <2>4. /\ rest \in SUBSET Nodes
        /\ Cardinality(remaining) \in Nat
        /\ batch # {} => Cardinality(rest) < Cardinality(remaining)
    BY <1>1, <2>3, BatchSmaller
  <2>5. CASE batch # {}
    <3>1. Cardinality(rest) \in Nat
      BY <1>1, <2>4, FS_Subset, FS_CardinalityType
    <3>2. Cardinality(rest) < k
      BY <2>4, <2>5, <3>1
    <3>3. Layered(f[rest], rest, Nodes, deps)
      BY <1>4, <2>4, <3>2
    <3> DEFINE below == f[rest]
    <3>4. Layered(below, remaining \ batch, Nodes, deps) /\ f[remaining] = <<batch>> \o below
      BY <2>1, <2>3, <2>5, <3>3
    <3> HIDE DEF T, below
    <3> QED
      BY <2>3, <2>5, <3>4, LayerFirst
  <2>6. CASE batch = {}
    <3>1. f[remaining] = <<>> /\ remaining = {}
      BY <2>1, <2>2, <2>6
    <3>2. <<>> \in Seq(SUBSET Nodes) /\ Len(<<>>) = 0 /\ DOMAIN <<>> = {}
      OBVIOUS
    <3>3. 1 .. (Len(<<>>) + 1 - 1) = {}
      BY <3>2
    <3>4. Before(<<>>, Len(<<>>) + 1) = {}
      BY <3>3 DEF Before
    <3> HIDE DEF T
    <3> QED
      BY <3>1, <3>2, <3>4 DEF Layered
  <2> QED
    BY <2>5, <2>6
<1>5. Nat \subseteq T
  <2> HIDE DEF T
  <2> QED
    BY <1>3, <1>4, SetInduction
<1>6. Cardinality(Nodes) \in Nat
  BY <1>1, FS_CardinalityType
<1>7. Layered(f[Nodes], Nodes, Nodes, deps)
  <2>1. Cardinality(Nodes) + 1 \in T /\ Cardinality(Nodes) < Cardinality(Nodes) + 1
    BY <1>5, <1>6
  <2> QED
    BY <2>1
<1>8. Layered(f[Nodes], Nodes, Nodes, deps) => IsLayered(f[Nodes], Nodes, deps)
  <2> HIDE DEF T
  <2> DEFINE groups == f[Nodes]
  <2> HIDE DEF groups
  <2>1. Layered(groups, Nodes, Nodes, deps) => IsLayered(groups, Nodes, deps)
    <3>1. \A i : (Nodes \ Nodes) \cup Before(groups, i) = Before(groups, i)
      OBVIOUS
    <3> QED
      BY <3>1 DEF Layered, IsLayered, Before
  <2> QED
    BY <2>1 DEF groups
<1> QED
  BY <1>2, <1>7, <1>8

OfSpecType == spec \in SpecType

\* run() and plan() go by topologicalSort() and computeParallelGroups(): for every
\* workflow, a cycle is found if there is one, and what is planned is in order and
\* in as few groups as can be.
THEOREM PlansSound == Spec => []PlanSound
<1>1. OfSpecType => PlanSound
  <2> SUFFICES ASSUME spec \in SpecType
               PROVE  PlanSound
    BY DEF OfSpecType
  <2>1. spec.deps \in Dependencies /\ Steps \in Seq(Nodes) /\ NodeList \in Seq(Nodes)
    BY StepsType, NodesAssumption DEF SpecType, Steps
  <2>2. /\ Plan.cycle = HasCycle(Range(Steps), spec.deps)
        /\ ~Plan.cycle => /\ Plan.sorted \in Seq(Nodes)
                          /\ IsTopological(Plan.sorted, Range(Steps), spec.deps)
    BY <2>1, SortSound DEF Plan
  <2>3. ASSUME Valid(spec.deps)
        PROVE  /\ IsTopological(ArtifactSort(spec.deps).sorted, Nodes, spec.deps)
               /\ IsLayered(ParallelGroups(ArtifactSort(spec.deps).sorted, spec.deps), Nodes, spec.deps)
    <3> DEFINE sorted == ArtifactSort(spec.deps).sorted
    <3>1. Range(NodeList) = Nodes
      BY DEF Nodes
    <3>2. sorted \in Seq(Nodes) /\ IsTopological(sorted, Nodes, spec.deps)
      BY <2>1, <2>3, <3>1, SortSound DEF Valid, ArtifactSort
    <3>3. \A n \in Nodes : Range(spec.deps[n]) \subseteq Nodes
      BY <2>3 DEF Valid
    <3> HIDE DEF sorted
    <3>4. IsLayered(ParallelGroups(sorted, spec.deps), Nodes, spec.deps)
      BY <3>2, <3>3, GroupsLayered
    <3> QED
      BY <3>2, <3>4 DEF sorted
  <2> QED
    BY <2>2, <2>3 DEF PlanSound, ExecutionPlan
<1>2. Init => OfSpecType
  BY SpecsAssumption DEF Init, OfSpecType
<1>3. OfSpecType /\ [Next]_vars => OfSpecType'
  <2>1. [Next]_vars => spec' = spec
    BY DEF Next, vars, Reject, Throw, Start, RefuseBudget, Skip, Begin, Abort, Finish, CallSucceeds,
       CallRetried, CallFails, NothingToUndo, Compensate, CompensateFails, CompensateEnd,
       Terminating, End, started, compensating
  <2> QED
    BY <2>1 DEF OfSpecType
<1> QED
  BY <1>1, <1>2, <1>3, PTL DEF Spec

------------------------------------------------------------------------------
(* The budget.                                                             *)

\* While a node is called, its earlier attempts are all that may have been
\* counted since the budget was looked at.
CountInv ==
  /\ spec \in SpecType
  /\ calls \in Nat /\ attempt \in Nat
  /\ (at \in {"idle", "next"} /\ spec.maxCalls = 0) => calls = 0
  /\ (at = "call" /\ spec.maxCalls # NoLimit) =>
        spec.maxCalls > 0 /\ attempt \in 1..spec.attempts /\ calls <= spec.maxCalls - 2 + attempt
  /\ CallsBounded

LEMMA CountInit == Init => CountInv
PROOF BY SpecsAssumption DEF Init, CountInv, CallsBounded, SpecType

LEMMA CountStep == CountInv /\ [Next]_vars => CountInv'
<1> SUFFICES ASSUME CountInv, [Next]_vars PROVE CountInv'
  OBVIOUS
<1> USE DEF CountInv, CallsBounded
<1>0. /\ spec.attempts \in Nat /\ spec.attempts > 0
      /\ spec.maxCalls # NoLimit => spec.maxCalls \in Nat
  BY DEF SpecType
<1>1. CASE UNCHANGED vars
  BY <1>1 DEF vars, progress
<1>2. CASE \/ Reject \/ Throw \/ RefuseBudget \/ Skip \/ Abort \/ Finish
           \/ NothingToUndo \/ Compensate \/ CompensateFails \/ CompensateEnd \/ Terminating
  BY <1>0, <1>2 DEF Reject, Throw, RefuseBudget, Skip, Abort, Finish, Ready, NothingToUndo,
     Undoable, Compensate, CompensateFails, CompensateEnd, Terminating, End, started, compensating, vars, progress
<1>3. CASE Start
  BY <1>0, <1>3 DEF Start, started
<1>4. CASE Begin
  <2>1. spec.maxCalls # NoLimit => calls < spec.maxCalls
    BY <1>0, <1>4 DEF Begin, BudgetSpent
  <2> QED
    BY <1>0, <1>4, <2>1 DEF Begin
<1>5. CASE CallSucceeds
  BY SMTT(30), SpecsAssumption, <1>0, <1>5 DEF CallSucceeds
<1>6. CASE CallRetried
  BY <1>0, <1>6 DEF CallRetried, MayRetry, Counted
<1>7. CASE CallFails
  <2>1. spec' = spec /\ attempt' = 1 /\ at' # "call" /\ at = "call" /\ calls' \in {calls, calls + 1}
    BY <1>7 DEF CallFails, End
  <2> QED
    BY SpecsAssumption, <1>0, <2>1
<1> QED
  BY <1>1, <1>2, <1>3, <1>4, <1>5, <1>6, <1>7 DEF Next

\* WorkflowEngine.run() exceeds max_calls by the retries of one node at most, and
\* calls nothing when it is 0, for all workflows.
THEOREM BudgetHolds == Spec => []CallsBounded
<1>1. CountInv => CallsBounded
  BY DEF CountInv
<1> QED
  BY CountInit, CountStep, <1>1, PTL DEF Spec

------------------------------------------------------------------------------
(* The order.                                                              *)

Running == at \in {"next", "call"}

Types ==
  /\ spec \in SpecType
  /\ todo \in Seq(Nodes) /\ (at = "call" => todo # <<>>)
  /\ result \in [Nodes -> {"none", "completed", "failed", "skipped", "compensated"}]
  /\ began \in [Nodes -> Nat]
  /\ attempt \in Nat /\ attempt > 0 /\ attempt <= spec.attempts

\* Before the start nothing has run.
Untouched == at = "idle" => \A n \in Nodes : result[n] = "none" /\ began[n] = 0

\* What is still to come has no result and has not been called, but for the node
\* in hand, which was once per attempt.
Fresh ==
  Running => \A i \in DOMAIN todo :
    /\ result[todo[i]] = "none"
    /\ began[todo[i]] = IF i = 1 /\ at = "call" THEN attempt ELSE 0

\* What has no result is still to come.
Reached ==
  Running =>
    /\ Range(Steps) \subseteq Nodes
    /\ \A n \in Range(Steps) : result[n] = "none" => n \in Range(todo)

\* What is still to come is in order.
Ordered ==
  Running =>
    /\ IsInjective(todo)
    /\ \A i, j \in DOMAIN todo : todo[j] \in Range(spec.deps[todo[i]]) => j < i

PlanInv == Types /\ Untouched /\ Fresh /\ Reached /\ Ordered /\ AfterDependencies

LEMMA PlanInit == Init => PlanInv
<1> SUFFICES ASSUME Init PROVE PlanInv
  OBVIOUS
<1>1. Types
  BY SpecsAssumption DEF Init, Types, SpecType
<1>2. Untouched /\ AfterDependencies
  BY DEF Init, Untouched, AfterDependencies
<1>3. Fresh /\ Reached /\ Ordered
  BY DEF Init, Fresh, Reached, Ordered, Running
<1> QED
  BY <1>1, <1>2, <1>3 DEF PlanInv

\* The head of todo and the rest of it.
LEMMA TodoParts ==
  ASSUME Types, todo # <<>>
  PROVE  /\ Node = todo[1] /\ Node \in Nodes /\ 1 \in DOMAIN todo
         /\ Tail(todo) \in Seq(Nodes)
         /\ \A i \in DOMAIN Tail(todo) : i + 1 \in DOMAIN todo /\ Tail(todo)[i] = todo[i + 1] /\ i \in Nat /\ i > 0
         /\ \A j \in DOMAIN todo : j # 1 => todo[j] \in Range(Tail(todo))
<1> USE DEF Types, Node
<1>1. todo \in Seq(Nodes) /\ todo # <<>>
  OBVIOUS
<1>2. DOMAIN todo = 1..Len(todo) /\ Len(todo) \in Nat /\ Len(todo) > 0
  BY <1>1, LenProperties
<1>3. /\ Head(todo) = todo[1] /\ Head(todo) \in Nodes /\ Tail(todo) \in Seq(Nodes)
      /\ Len(Tail(todo)) = Len(todo) - 1
      /\ \A i \in 1..Len(Tail(todo)) : Tail(todo)[i] = todo[i + 1]
  BY <1>1, HeadTailProperties
<1>4. DOMAIN Tail(todo) = 1..Len(Tail(todo))
  BY <1>3, LenProperties
<1>5. \A j \in DOMAIN todo : j # 1 => j - 1 \in DOMAIN Tail(todo) /\ Tail(todo)[j - 1] = todo[j]
  BY <1>2, <1>3, <1>4
<1>6. \A j \in DOMAIN todo : j # 1 => todo[j] \in Range(Tail(todo))
  BY <1>5 DEF Range
<1> QED
  BY <1>2, <1>3, <1>4, <1>6

\* A node leaves the plan with a result.
LEMMA NodeLeaves ==
  ASSUME PlanInv, Running, todo # <<>>, NEW r \in {"completed", "failed", "skipped"},
         spec' = spec, todo' = Tail(todo), at' # "call", at' # "idle",
         attempt' \in {1, attempt},
         began' = began, result' = [result EXCEPT ![Node] = r],
         at = "next" => began[Node] = 0,
         r = "skipped" => \/ Node \in spec.conditional
                          \/ ~DependenciesOk(Node)
  PROVE  PlanInv'
<1> USE DEF PlanInv
<1>0. /\ Node = todo[1] /\ Node \in Nodes /\ 1 \in DOMAIN todo
      /\ Tail(todo) \in Seq(Nodes)
      /\ \A i \in DOMAIN Tail(todo) : i + 1 \in DOMAIN todo /\ Tail(todo)[i] = todo[i + 1] /\ i \in Nat /\ i > 0
      /\ \A j \in DOMAIN todo : j # 1 => todo[j] \in Range(Tail(todo))
  BY TodoParts
<1>1. result[Node] = "none" /\ Steps' = Steps
  BY <1>0 DEF Fresh, Steps
<1>2. /\ result'[Node] = r
      /\ \A n \in Nodes : n # Node => result'[n] = result[n]
  BY <1>0 DEF Types
<1>3. Types'
  <2>1. 1 <= spec.attempts
    BY DEF Types, SpecType
  <2> QED
    BY <1>0, <2>1 DEF Types, SpecType
<1>4. Untouched'
  BY DEF Untouched
<1>5. Fresh'
  <2> SUFFICES ASSUME NEW i \in DOMAIN Tail(todo)
               PROVE  result'[Tail(todo)[i]] = "none" /\ began[Tail(todo)[i]] = 0
    BY DEF Fresh, Running
  <2>1. /\ Tail(todo)[i] = todo[i + 1] /\ i + 1 \in DOMAIN todo /\ i + 1 # 1
        /\ todo[i + 1] \in Nodes
    BY <1>0 DEF Types
  <2>2. todo[i + 1] # Node
    BY <1>0, <2>1 DEF Ordered, IsInjective
  <2> QED
    BY <1>2, <2>1, <2>2 DEF Fresh
<1>6. Reached'
  <2> SUFFICES ASSUME NEW n \in Range(Steps), result'[n] = "none"
               PROVE  n \in Range(Tail(todo))
    BY <1>1 DEF Reached
  <2>1. n # Node
    BY <1>2
  <2>2. result[n] = "none"
    BY <2>1, <1>0 DEF Types
  <2>3. PICK j \in DOMAIN todo : todo[j] = n
    BY <2>2 DEF Reached, Range
  <2> QED
    BY <2>1, <2>3, <1>0
<1>7. Ordered'
  <2>1. IsInjective(Tail(todo))
    BY <1>0 DEF Ordered, IsInjective
  <2>2. ASSUME NEW i \in DOMAIN Tail(todo), NEW j \in DOMAIN Tail(todo),
               Tail(todo)[j] \in Range(spec.deps[Tail(todo)[i]])
        PROVE  j < i
    <3>1. j + 1 < i + 1
      BY <1>0, <2>2 DEF Ordered
    <3> QED
      BY <3>1, <1>0
  <2> QED
    BY <2>1, <2>2 DEF Ordered
<1>8. AfterDependencies'
  <2> SUFFICES ASSUME NEW n \in Nodes
               PROVE  /\ began[n] > 0 => \A d \in Range(spec.deps[n]) : Done(d)'
                      /\ result'[n] = "skipped" =>
                           \/ n \in spec.conditional
                           \/ \E d \in Range(spec.deps[n]) :
                                d \notin Range(Steps) \/ result'[d] \in {"failed", "compensated"}
    BY <1>1 DEF AfterDependencies
  <2>1. ASSUME began[n] > 0, NEW d \in Range(spec.deps[n]) PROVE Done(d)'
    <3>1. Done(d)
      BY <2>1 DEF AfterDependencies
    <3>2. d # Node
      BY <3>1, <1>1 DEF Done
    <3> QED
      BY <3>1, <3>2, <1>2 DEF Done
  <2>2. ASSUME result'[n] = "skipped", n # Node
        PROVE  \/ n \in spec.conditional
               \/ \E d \in Range(spec.deps[n]) :
                    d \notin Range(Steps) \/ result'[d] \in {"failed", "compensated"}
    <3>1. result[n] = "skipped"
      BY <2>2, <1>2
    <3>2. ASSUME NEW d, result[d] \in {"failed", "compensated"} PROVE result'[d] = result[d]
      BY <3>2, <1>1 DEF Types
    <3> QED
      BY <3>1, <3>2 DEF AfterDependencies
  <2>3. ASSUME result'[n] = "skipped", n = Node, n \notin spec.conditional
        PROVE  \E d \in Range(spec.deps[n]) :
                    d \notin Range(Steps) \/ result'[d] \in {"failed", "compensated"}
    <3>1. PICK d \in Range(spec.deps[Node]) :
            ~(d \in Nodes /\ result[d] \in {"completed", "skipped"})
      BY <2>3, <1>2 DEF DependenciesOk
    <3>2. CASE d \notin Range(Steps)
      BY <3>2, <2>3
    <3>3. CASE d \in Range(Steps) /\ d \in Nodes
      <4>1. result[d] # "none"
        <5> SUFFICES ASSUME result[d] = "none" PROVE FALSE
          OBVIOUS
        <5>1. PICK j \in DOMAIN todo : todo[j] = d
          BY <3>3 DEF Reached, Range
        <5>2. j < 1
          BY <5>1, <1>0 DEF Ordered
        <5> QED
          BY <5>2, <5>1 DEF Types
      <4>2. result[d] \in {"failed", "compensated"}
        BY <3>1, <3>3, <4>1 DEF Types
      <4> QED
        BY <4>1, <4>2, <1>1, <1>2, <3>3, <2>3
    <3>4. CASE d \in Range(Steps) /\ d \notin Nodes
      BY <3>4 DEF Reached
    <3> QED
      BY <3>2, <3>3, <3>4
  <2> QED
    BY <2>1, <2>2, <2>3
<1> QED
  BY <1>3, <1>4, <1>5, <1>6, <1>7, <1>8

\* A step that leaves the plan and what ran alone.
LEMMA PlanKept ==
  ASSUME PlanInv, spec' = spec, todo' = todo, result' = result, began' = began,
         at' = at \/ at' \in {"compensate", "done"}, attempt' = attempt
  PROVE  PlanInv'
<1> USE DEF PlanInv
<1>1. Steps' = Steps /\ (Running' => Running)
  BY DEF Steps, Running
<1>2. Types' /\ Untouched'
  BY DEF Types, Untouched, SpecType
<1>3. Fresh'
  BY <1>1 DEF Fresh, Running
<1>4. Reached' /\ Ordered'
  BY <1>1 DEF Reached, Ordered
<1>5. AfterDependencies'
  BY <1>1 DEF AfterDependencies, Done
<1> QED
  BY <1>2, <1>3, <1>4, <1>5

\* Start: the plan is all there is to come.
LEMMA PlanStart == PlanInv /\ PlanSound /\ Start => PlanInv'
<1> SUFFICES ASSUME PlanInv, PlanSound, Start PROVE PlanInv'
  OBVIOUS
<1> USE DEF PlanInv
<1>0. /\ at = "idle" /\ at' = "next" /\ todo' = Plan.sorted
      /\ spec' = spec /\ result' = result /\ began' = began /\ attempt' = attempt
  BY DEF Start, started
<1>1. Plan.sorted \in Seq(Nodes) /\ IsTopological(Plan.sorted, Range(Steps), spec.deps)
  BY <1>0 DEF PlanSound, Start
<1>2. Steps' = Steps
  BY <1>0 DEF Steps
<1>3. Types' /\ Untouched'
  BY <1>0, <1>1 DEF Types, Untouched, SpecType
<1>4. Fresh'
  <2> SUFFICES ASSUME NEW i \in DOMAIN todo'
               PROVE  result[todo'[i]] = "none" /\ began[todo'[i]] = 0
    BY <1>0 DEF Fresh
  <2>1. todo'[i] \in Nodes
    BY <1>0, <1>1
  <2> QED
    BY <2>1, <1>0 DEF Untouched
<1>5. Range(todo') = Range(Steps) /\ Range(todo') \subseteq Nodes
  <2>1. Range(Plan.sorted) = Range(Steps)
    BY <1>1 DEF IsTopological
  <2>2. \A i \in DOMAIN Plan.sorted : Plan.sorted[i] \in Nodes
    BY <1>1
  <2>3. Range(Plan.sorted) \subseteq Nodes
    BY <2>2 DEF Range
  <2> QED
    BY <1>0, <2>1, <2>3
<1>6. Reached'
  BY <1>2, <1>5 DEF Reached
<1>7. Ordered'
  BY <1>0, <1>1 DEF Ordered, IsTopological
<1>8. AfterDependencies'
  BY <1>0, <1>2 DEF AfterDependencies, Untouched
<1> QED
  BY <1>3, <1>4, <1>6, <1>7, <1>8

\* A call of the node in hand, the first or a later one.
LEMMA PlanCalls ==
  ASSUME PlanInv, Running, todo # <<>>, at' = "call", spec' = spec, todo' = todo,
         result' = result, began' = [began EXCEPT ![Node] = @ + 1],
         attempt' = began[Node] + 1, attempt' <= spec.attempts,
         \A d \in Range(spec.deps[Node]) : Done(d)
  PROVE  PlanInv'
<1> USE DEF PlanInv
<1>0. Node = todo[1] /\ Node \in Nodes /\ 1 \in DOMAIN todo /\ Steps' = Steps
  BY TodoParts DEF Steps
<1>1. began[Node] \in Nat
  BY <1>0 DEF Types
<1>2. Types'
  BY <1>0, <1>1 DEF Types, SpecType
<1>3. Fresh'
  <2> SUFFICES ASSUME NEW i \in DOMAIN todo
               PROVE  result[todo[i]] = "none" /\ began'[todo[i]] = IF i = 1 THEN attempt' ELSE 0
    BY DEF Fresh
  <2>1. CASE i = 1
    BY <2>1, <1>0 DEF Fresh, Types
  <2>2. CASE i # 1
    <3>1. todo[i] # Node /\ todo[i] \in Nodes
      BY <2>2, <1>0 DEF Ordered, IsInjective, Types
    <3> QED
      BY <2>2, <3>1, <1>0 DEF Fresh, Types
  <2> QED
    BY <2>1, <2>2
<1>4. Untouched' /\ Reached' /\ Ordered'
  BY <1>0 DEF Untouched, Reached, Ordered, Running
<1>5. AfterDependencies'
  <2>1. \A n \in Nodes : n # Node => began'[n] = began[n]
    BY <1>0 DEF Types
  <2> QED
    BY <2>1, <1>0 DEF AfterDependencies, Done
<1> QED
  BY <1>2, <1>3, <1>4, <1>5

\* Compensation changes no reason for which a node ran or was skipped.
LEMMA PlanUndone ==
  ASSUME PlanInv, at = "compensate", at' = at, spec' = spec, todo' = todo, began' = began,
         attempt' = attempt, NEW n \in Nodes \cup {Head(undoing)}, 
         result' = [result EXCEPT ![n] = "compensated"]
  PROVE  PlanInv'
<1> USE DEF PlanInv
<1>1. Types' /\ Untouched' /\ Steps' = Steps
  BY DEF Types, Untouched, Steps, SpecType
<1>2. Fresh' /\ Reached' /\ Ordered'
  BY DEF Fresh, Reached, Ordered, Running
<1>3. /\ \A d \in Nodes : result'[d] \in {result[d], "compensated"}
      /\ \A d : d \notin Nodes => result'[d] = result[d]
  BY DEF Types
<1>4. AfterDependencies'
  <2>1. \A d : Done(d) => Done(d)'
    BY <1>3 DEF Done
  <2>2. \A d : result[d] \in {"failed", "compensated"} => result'[d] \in {"failed", "compensated"}
    BY <1>3
  <2> QED
    BY <1>1, <1>3, <2>1, <2>2 DEF AfterDependencies
<1> QED
  BY <1>1, <1>2, <1>4

LEMMA PlanStep == PlanInv /\ PlanSound /\ [Next]_vars => PlanInv'
<1> SUFFICES ASSUME PlanInv, PlanSound, [Next]_vars PROVE PlanInv'
  OBVIOUS
<1>0. PlanInv /\ Types /\ Fresh
  BY DEF PlanInv
<1>1. CASE UNCHANGED vars
  BY <1>1, PlanKept DEF vars, progress
<1>2. CASE Reject \/ Throw \/ RefuseBudget \/ Abort \/ Finish \/ CompensateEnd \/ Terminating
  BY <1>2, PlanKept DEF Reject, Throw, RefuseBudget, Abort, Finish, CompensateEnd,
     Terminating, End, started, vars, progress
<1>3. CASE Start
  BY <1>3, PlanStart
<1>4. CASE Skip
  <2>1. began[Node] = 0
    BY <1>0, <1>4, TodoParts DEF Skip, Ready, Fresh, Running
  <2> QED
    BY <1>0, <1>4, <2>1, NodeLeaves DEF Skip, Ready, Running
<1>5. CASE Begin
  <2>1. began[Node] = 0
    BY <1>0, <1>5, TodoParts DEF Begin, Ready, Fresh, Running
  <2>2. 1 <= spec.attempts
    BY <1>0 DEF Types, SpecType
  <2>3. \A d \in Range(spec.deps[Node]) : Done(d)
    BY <1>5 DEF Begin, DependenciesOk, Done
  <2> QED
    BY <1>5, <2>1, <2>2, <2>3, PlanCalls DEF Begin, Ready, Running
<1>6. CASE CallSucceeds
  <2>1. todo # <<>>
    BY <1>0, <1>6 DEF CallSucceeds, Types
  <2> QED
    BY <1>6, <2>1, NodeLeaves DEF CallSucceeds, Running
<1>7. CASE CallRetried
  <2>1. todo # <<>> /\ Running
    BY <1>0, <1>7 DEF CallRetried, Types, Running
  <2>2. began[Node] = attempt /\ Node \in Nodes /\ attempt \in Nat
    BY <1>0, <1>7, <2>1, TodoParts DEF CallRetried, Fresh, Types
  <2>3. \A d \in Range(spec.deps[Node]) : Done(d)
    <3>1. began[Node] > 0
      BY <1>0, <2>2 DEF Types
    <3> QED
      BY <2>2, <3>1 DEF PlanInv, AfterDependencies
  <2>4. attempt + 1 <= spec.attempts
    BY <1>0, <1>7, <2>2 DEF CallRetried, MayRetry, Types, SpecType
  <2> QED
    BY <1>7, <2>1, <2>2, <2>3, <2>4, PlanCalls DEF CallRetried
<1>8. CASE CallFails
  <2>1. todo # <<>>
    BY <1>0, <1>8 DEF CallFails, Types
  <2>2. at' \in {"done", "compensate", "next"}
    BY <1>8 DEF CallFails, End
  <2> QED
    BY <1>8, <2>1, <2>2, NodeLeaves DEF CallFails, Running
<1>9. CASE Compensate
  BY <1>9, PlanUndone DEF Compensate, Undoable, Undo, compensating
<1>10. CASE CompensateFails \/ NothingToUndo
  BY <1>10, PlanKept DEF CompensateFails, NothingToUndo, Undoable, compensating
<1> QED
  BY <1>1, <1>2, <1>3, <1>4, <1>5, <1>6, <1>7, <1>8, <1>9, <1>10 DEF Next

\* WorkflowEngine.run() calls a node only when all it depends
\* on is done and skips one only for its condition or for a dependency, in every
\* workflow and whatever its nodes answer.
THEOREM DependenciesFirst == Spec => []AfterDependencies
<1>1. PlanInv => AfterDependencies
  BY DEF PlanInv
<1> QED
  BY PlansSound, PlanInit, PlanStep, <1>1, PTL DEF Spec

\* A node that has a result is not called again, and none more
\* often than its attempts allow.
THEOREM NodesRunOnce == Spec => RunsOnce
<1>1. PlanInv /\ PlanInv' /\ [Next]_vars =>
        [\A n \in Nodes : began'[n] # began[n] =>
           result[n] = "none" /\ began'[n] <= spec.attempts]_vars
  <2> SUFFICES ASSUME PlanInv, PlanInv', [Next]_vars, NEW n \in Nodes, began'[n] # began[n]
               PROVE  result[n] = "none" /\ began'[n] <= spec.attempts
    OBVIOUS
  <2>0. Types /\ Types' /\ Fresh /\ Fresh'
    BY DEF PlanInv
  <2>1. Begin \/ CallRetried
    BY DEF Next, Reject, Throw, Start, RefuseBudget, Skip, Abort, Finish, CallSucceeds,
       CallFails, NothingToUndo, Compensate, CompensateFails, CompensateEnd, Terminating, started,
       compensating, vars, progress
  <2>2. /\ Running /\ todo # <<>> /\ at' = "call" /\ todo' = todo /\ spec' = spec
        /\ began' = [began EXCEPT ![Node] = @ + 1]
    BY <2>0, <2>1 DEF Begin, CallRetried, Ready, Running, Types
  <2>3. n = Node /\ Node = todo[1] /\ 1 \in DOMAIN todo
    BY <2>0, <2>2, TodoParts DEF Types
  <2> QED
    BY <2>0, <2>2, <2>3 DEF Fresh, Running, Types
<1> QED
  BY PlansSound, PlanInit, PlanStep, <1>1, PTL DEF Spec, RunsOnce

------------------------------------------------------------------------------
(* Compensation and the end.                                               *)

Working == at \in {"idle", "next", "call"}

\* What has run: in order, once, each node after what it depends on.
ExecutedInv ==
  /\ executed \in Seq(Nodes) /\ IsInjective(executed)
  /\ Range(executed) = {n \in Nodes : result[n] \in {"completed", "failed", "compensated"}}
  /\ \A n \in Range(executed) : began[n] > 0
  /\ \A i, j \in DOMAIN executed : executed[i] \in Range(spec.deps[executed[j]]) => i < j

\* What is still to be looked at is the beginning of what has run, backwards.
RestInv ==
  /\ undoing \in Seq(Nodes) /\ Len(undoing) <= Len(executed)
  /\ \A i \in 1..Len(undoing) : undoing[i] = executed[Len(undoing) - i + 1]

\* Compensations were called of what lies behind it, of all of that there are.
TriedInv ==
  /\ Working => tried = {} /\ undoing = <<>>
  /\ tried \subseteq spec.undo
  /\ \A n \in tried : \E p \in DOMAIN executed : p > Len(undoing) /\ executed[p] = n
  /\ at = "compensate" => \A p \in DOMAIN executed :
       p > Len(undoing) /\ executed[p] \in spec.undo => executed[p] \in tried

\* Those that succeeded are reported in the reverse of the order of execution.
UndoneInv ==
  /\ Working => undone = <<>>
  /\ undone \in Seq(Nodes)
  /\ Range(undone) = {n \in Nodes : result[n] = "compensated"} /\ Range(undone) \subseteq tried
  /\ \A i, j \in DOMAIN undone : \A p, q \in DOMAIN executed :
       i < j /\ undone[i] = executed[p] /\ undone[j] = executed[q] => q < p

\* The run goes on only after failures that are passed over, and compensates only
\* after one that is to be compensated; what it has not come to is untouched.
FailInv ==
  /\ Working => ~Compensated
  /\ Working => \A n \in Nodes : result[n] = "failed" => spec.onFailure[n] \in PassedOver
  /\ at = "compensate" => Compensated /\ \A n \in Range(todo) : began[n] = 0 /\ result[n] = "none"
  /\ at = "idle" => executed = <<>> /\ ~cancelled
  /\ cancelled => entry = "run"
  /\ at # "done" => outcome = "none"
  /\ at = "done" => tried = IF Compensated THEN Range(executed) \cap spec.undo ELSE {}
  /\ OutcomeIsTrue

EndInv == ExecutedInv /\ RestInv /\ TriedInv /\ UndoneInv /\ FailInv

LEMMA EndInit == Init => EndInv
<1> SUFFICES ASSUME Init PROVE EndInv
  OBVIOUS
<1>1. ExecutedInv
  BY DEF Init, ExecutedInv, IsInjective, Range
<1>2. RestInv /\ TriedInv
  BY DEF Init, RestInv, TriedInv
<1>3. UndoneInv
  BY DEF Init, UndoneInv, Range
<1>4. FailInv
  BY DEF Init, FailInv, Compensated, OutcomeIsTrue
<1> QED
  BY <1>1, <1>2, <1>3, <1>4 DEF EndInv

\* The last node that ran.
LEMMA LastRan ==
  ASSUME ExecutedInv, executed # <<>>
  PROVE  Last(executed) \in Range(executed) /\ Last(executed) \in Nodes
<1>1. Len(executed) \in Nat /\ Len(executed) > 0 /\ DOMAIN executed = 1..Len(executed)
  BY LenProperties DEF ExecutedInv
<1> QED
  BY <1>1 DEF ExecutedInv, Last, Range

\* Results that change only between those of a node that ran, or of one that did not.
LEMMA ExecutedKept ==
  ASSUME ExecutedInv, spec' = spec, executed' = executed,
         \A n \in Nodes : /\ began[n] > 0 => began'[n] > 0
                          /\ result'[n] \in {"completed", "failed", "compensated"}
                             <=> result[n] \in {"completed", "failed", "compensated"}
  PROVE  ExecutedInv'
<1>1. Range(executed) \subseteq Nodes
  BY DEF ExecutedInv
<1> QED
  BY <1>1 DEF ExecutedInv

\* The node in hand is the last to have run.
LEMMA ExecutedGrows ==
  ASSUME PlanInv, ExecutedInv, at = "call", NEW r \in {"completed", "failed"},
         spec' = spec, began' = began, result' = [result EXCEPT ![Node] = r],
         executed' = Append(executed, Node)
  PROVE  /\ ExecutedInv'
         /\ executed' # <<>> /\ Last(executed') = Node
<1>0. /\ Node = todo[1] /\ Node \in Nodes /\ 1 \in DOMAIN todo
      /\ result[Node] = "none" /\ began[Node] > 0
  BY TodoParts DEF PlanInv, Types, Fresh, Running
<1> DEFINE m == Len(executed)
<1>1. m \in Nat /\ DOMAIN executed = 1..m /\ executed \in Seq(Nodes)
  BY LenProperties DEF ExecutedInv
<1>2. /\ executed' \in Seq(Nodes) /\ executed' # <<>> /\ Len(executed') = m + 1
      /\ \A i \in 1..m : executed'[i] = executed[i]
      /\ executed'[m + 1] = Node
  BY <1>0, <1>1, AppendProperties
<1>3. DOMAIN executed' = 1..(m + 1)
  BY <1>2, LenProperties
<1>4. Node \notin Range(executed)
  BY <1>0 DEF ExecutedInv
<1>5. Range(executed') = Range(executed) \cup {Node}
  <2>1. \A i \in 1..(m + 1) : i \in 1..m \/ i = m + 1
    BY <1>1
  <2>2. \A i \in 1..m : i \in 1..(m + 1)
    BY <1>1
  <2>3. m + 1 \in 1..(m + 1)
    BY <1>1
  <2> HIDE DEF m
  <2> QED
    BY <1>1, <1>2, <1>3, <2>1, <2>2, <2>3 DEF Range
<1>6. /\ result'[Node] = r
      /\ \A n \in Nodes : n # Node => result'[n] = result[n]
  BY <1>0 DEF PlanInv, Types
<1>7. \A i \in DOMAIN executed : executed[i] \in Range(executed)
  BY DEF Range
<1> HIDE DEF m
<1>8. IsInjective(executed')
  <2> SUFFICES ASSUME NEW i \in 1..(m + 1), NEW j \in 1..(m + 1), executed'[i] = executed'[j]
               PROVE  i = j
    BY <1>3 DEF IsInjective
  <2>1. CASE i \in 1..m /\ j \in 1..m
    BY <1>1, <1>2, <2>1 DEF ExecutedInv, IsInjective
  <2>2. CASE i \in 1..m /\ j = m + 1
    BY <1>1, <1>2, <1>4, <1>7, <2>2
  <2>3. CASE i = m + 1 /\ j \in 1..m
    BY <1>1, <1>2, <1>4, <1>7, <2>3
  <2> QED
    BY <1>1, <2>1, <2>2, <2>3
<1>9. ASSUME NEW i \in 1..(m + 1), NEW j \in 1..(m + 1),
             executed'[i] \in Range(spec.deps[executed'[j]])
      PROVE  i < j
  <2>1. CASE i \in 1..m /\ j \in 1..m
    BY <1>1, <1>2, <1>9, <2>1 DEF ExecutedInv
  <2>2. CASE i \in 1..m /\ j = m + 1
    BY <1>1, <2>2
  <2>3. CASE i = m + 1
    <3>1. executed'[j] \in Nodes /\ began[executed'[j]] > 0
      <4>1. CASE j \in 1..m
        BY <1>1, <1>2, <1>7, <4>1 DEF ExecutedInv
      <4>2. CASE j = m + 1
        BY <1>0, <1>2, <4>2
      <4> QED
        BY <1>1, <4>1, <4>2
    <3>2. Done(Node)
      BY <1>2, <1>9, <2>3, <3>1 DEF PlanInv, AfterDependencies
    <3> QED
      BY <1>0, <3>2 DEF Done
  <2> QED
    BY <1>1, <2>1, <2>2, <2>3
<1>10. Range(executed') = {n \in Nodes : result'[n] \in {"completed", "failed", "compensated"}}
  BY <1>0, <1>5, <1>6 DEF ExecutedInv
<1>11. \A n \in Range(executed') : began'[n] > 0
  BY <1>0, <1>5 DEF ExecutedInv
<1>12. ExecutedInv'
  BY <1>2, <1>3, <1>8, <1>9, <1>10, <1>11 DEF ExecutedInv
<1>13. Last(executed') = Node
  BY <1>2 DEF Last
<1> QED
  BY <1>2, <1>12, <1>13

\* A run that has not come to compensation owes it nothing.
LEMMA NothingUndone ==
  ASSUME ExecutedInv', at' # "compensate", undoing' = <<>>, undone' = <<>>, tried' = {},
         \A n \in Nodes : result'[n] # "compensated"
  PROVE  RestInv' /\ TriedInv' /\ UndoneInv'
<1>1. Len(executed') \in Nat /\ Len(undoing') = 0
  BY LenProperties DEF ExecutedInv
<1>2. RestInv'
  BY <1>1 DEF RestInv
<1>3. TriedInv'
  BY DEF TriedInv
<1>4. UndoneInv'
  BY DEF UndoneInv, Range
<1> QED
  BY <1>2, <1>3, <1>4

LEMMA NotYetUndone ==
  ASSUME EndInv, Working
  PROVE  undoing = <<>> /\ undone = <<>> /\ tried = {} /\ \A n \in Nodes : result[n] # "compensated"
<1>1. undoing = <<>> /\ undone = <<>> /\ tried = {}
  BY DEF EndInv, TriedInv, UndoneInv
<1>2. Range(undone) = {}
  BY <1>1 DEF Range
<1> QED
  BY <1>1, <1>2 DEF EndInv, UndoneInv

\* Whether the run is to be compensated does not change with other nodes' results.
LEMMA CompensatedKept ==
  ASSUME ExecutedInv, spec' = spec, executed' = executed,
         \A n \in Range(executed) : result'[n] = result[n]
  PROVE  Compensated' <=> Compensated
<1>1. executed # <<>> => Last(executed) \in Range(executed)
  BY LastRan
<1> QED
  BY <1>1 DEF Compensated

\* The start, and the steps that end a run before compensation.
LEMMA EndStarts ==
  ASSUME PlanInv, EndInv, Reject \/ Throw \/ Start
  PROVE  EndInv'
<1>1. /\ at = "idle" /\ Working /\ UNCHANGED <<spec, started>>
      /\ \/ at' = "done" /\ outcome' \in {"invalid", "threw"}
         \/ at' = "next" /\ outcome' = outcome
  BY DEF Reject, Throw, Start, End, Working
<1>2. executed = <<>> /\ ~cancelled /\ ~Compensated /\ outcome = "none"
  BY <1>1 DEF EndInv, FailInv
<1>3. ExecutedInv'
  BY <1>1, ExecutedKept DEF started, EndInv
<1>4. undoing = <<>> /\ undone = <<>> /\ tried = {} /\ \A n \in Nodes : result[n] # "compensated"
  BY <1>1, NotYetUndone
<1>5. RestInv' /\ TriedInv' /\ UndoneInv'
  BY <1>1, <1>3, <1>4, NothingUndone DEF started
<1>6. Compensated' <=> Compensated
  BY <1>1, CompensatedKept DEF started, EndInv
<1>7. FailInv'
  BY <1>1, <1>2, <1>4, <1>6 DEF EndInv, FailInv, started, OutcomeIsTrue, Working
<1> QED
  BY <1>3, <1>5, <1>7 DEF EndInv

LEMMA EndBreaks ==
  ASSUME PlanInv, EndInv, RefuseBudget \/ Abort \/ Finish
  PROVE  EndInv'
<1>1. /\ at = "next" /\ Working /\ at' = "done" /\ UNCHANGED <<spec, entry, todo, attempt, started>>
      /\ outcome' \in {"failed", "threw", "cancelled", "completed"}
  BY DEF RefuseBudget, Abort, Finish, End, Ready, Working
<1>2. ~Compensated
  BY <1>1 DEF EndInv, FailInv
<1>3. ExecutedInv'
  BY <1>1, ExecutedKept DEF started, EndInv
<1>4. undoing = <<>> /\ undone = <<>> /\ tried = {} /\ \A n \in Nodes : result[n] # "compensated"
  BY <1>1, NotYetUndone
<1>5. RestInv' /\ TriedInv' /\ UndoneInv'
  BY <1>1, <1>3, <1>4, NothingUndone DEF started
<1>6. Compensated' <=> Compensated
  BY <1>1, CompensatedKept DEF started, EndInv
<1>7. OutcomeIsTrue'
  <2>1. CASE outcome' = "completed"
    <3>1. todo = <<>> /\ Range(todo) = {}
      BY <2>1 DEF RefuseBudget, Abort, Finish, End, Range
    <3>2. Steps' = Steps /\ Range(Steps) \subseteq Nodes /\ \A n \in Range(Steps) : result[n] # "none"
      BY <1>1, <3>1 DEF PlanInv, Reached, Running, Steps
    <3>3. \A n \in Range(Steps) : \/ result[n] \in {"completed", "skipped"}
                                  \/ result[n] = "failed" /\ spec.onFailure[n] \in {"skip", "retry"}
      BY <1>1, <1>4, <3>2 DEF PlanInv, Types, EndInv, FailInv, PassedOver
    <3> QED
      BY <1>1, <1>4, <2>1, <3>2, <3>3 DEF OutcomeIsTrue, started
  <2>2. CASE outcome' = "failed"
    <3>1. BudgetSpent /\ todo # <<>>
      BY <2>2 DEF RefuseBudget, Abort, Finish, End, Ready
    <3> QED
      BY <1>1, <1>4, <2>2, <3>1 DEF OutcomeIsTrue, BudgetSpent, started
  <2>3. CASE outcome' = "cancelled"
    <3>1. cancelled /\ entry = "run"
      BY <2>3 DEF RefuseBudget, Abort, Finish, End, EndInv, FailInv
    <3> QED
      BY <1>1, <2>3, <3>1 DEF OutcomeIsTrue, started
  <2>4. CASE outcome' = "threw"
    BY <2>4 DEF OutcomeIsTrue
  <2> QED
    BY <1>1, <2>1, <2>2, <2>3, <2>4
<1>8. FailInv'
  BY <1>1, <1>2, <1>4, <1>6, <1>7 DEF EndInv, FailInv, started, Working
<1> QED
  BY <1>3, <1>5, <1>8 DEF EndInv

\* The loop goes on: a node is skipped, called or called again.
LEMMA EndGoesOn ==
  ASSUME PlanInv, EndInv, Skip \/ Begin \/ CallRetried
  PROVE  EndInv'
<1>1. /\ at \in {"next", "call"} /\ at' \in {"next", "call"} /\ todo # <<>> /\ Working /\ Working'
      /\ UNCHANGED <<spec, entry, executed, undoing, undone, outcome, tried>>
      /\ cancelled' = cancelled \/ MayCancel
  BY DEF Skip, Begin, CallRetried, Ready, Working, PlanInv, Types
<1>2. Node \in Nodes /\ result[Node] = "none"
  BY <1>1, TodoParts DEF PlanInv, Fresh, Running
<1>3. /\ \A n \in Nodes : result'[n] = result[n] \/ (n = Node /\ result'[n] = "skipped")
      /\ \A n \in Nodes : began[n] > 0 => began'[n] > 0
  BY SMTT(30), <1>2 DEF Skip, Begin, CallRetried, PlanInv, Types
<1>4. \A n \in Nodes : result'[n] \in {"completed", "failed", "compensated"}
                         <=> result[n] \in {"completed", "failed", "compensated"}
  BY <1>2, <1>3
<1>5. ExecutedInv'
  BY <1>1, <1>3, <1>4, ExecutedKept DEF EndInv
<1>6. undoing = <<>> /\ undone = <<>> /\ tried = {} /\ \A n \in Nodes : result[n] # "compensated"
  BY <1>1, NotYetUndone
<1>7. RestInv' /\ TriedInv' /\ UndoneInv'
  BY <1>1, <1>3, <1>5, <1>6, NothingUndone
<1>8. \A n \in Range(executed) : result'[n] = result[n]
  BY <1>2, <1>3 DEF EndInv, ExecutedInv
<1>9. Compensated' <=> Compensated
  BY <1>1, <1>8, CompensatedKept DEF EndInv
<1>10. outcome = "none"
  BY <1>1 DEF EndInv, FailInv
<1>11. cancelled' => entry' = "run"
  <2>1. cancelled => entry = "run"
    BY DEF EndInv, FailInv
  <2>2. CASE cancelled' = cancelled
    BY <1>1, <2>1, <2>2
  <2>3. CASE MayCancel
    BY <1>1, <2>3 DEF MayCancel
  <2> QED
    BY <1>1, <2>2, <2>3
<1>12. outcome' = "none" /\ ~Compensated /\ entry' = entry /\ spec' = spec
  BY <1>1, <1>10 DEF EndInv, FailInv
<1>13. \A n \in Nodes : result'[n] = "failed" => spec.onFailure[n] \in PassedOver
  BY <1>1, <1>3 DEF EndInv, FailInv
<1>14. FailInv'
  <2>1. OutcomeIsTrue'
    BY <1>12 DEF OutcomeIsTrue
  <2> QED
    BY <1>1, <1>9, <1>11, <1>12, <1>13, <2>1 DEF FailInv, Working
<1> QED
  BY <1>5, <1>7, <1>14 DEF EndInv

LEMMA EndSucceeds ==
  ASSUME PlanInv, EndInv, CallSucceeds
  PROVE  EndInv'
<1>1. /\ at = "call" /\ at' = "next" /\ Working /\ Working'
      /\ UNCHANGED <<spec, entry, undoing, undone, cancelled, outcome, began, tried>>
      /\ result' = [result EXCEPT ![Node] = "completed"]
      /\ executed' = Append(executed, Node)
  BY DEF CallSucceeds, Working
<1>2. Node \in Nodes
  BY <1>1, TodoParts DEF PlanInv, Types
<1>3. ExecutedInv' /\ executed' # <<>> /\ Last(executed') = Node
  BY <1>1, ExecutedGrows DEF EndInv
<1>4. undoing = <<>> /\ undone = <<>> /\ tried = {} /\ \A n \in Nodes : result[n] # "compensated"
  BY <1>1, NotYetUndone
<1>5. \A n \in Nodes : result'[n] = IF n = Node THEN "completed" ELSE result[n]
  BY <1>1 DEF PlanInv, Types
<1>6. RestInv' /\ TriedInv' /\ UndoneInv'
  BY <1>1, <1>3, <1>4, <1>5, NothingUndone
<1>7. ~Compensated'
  BY <1>2, <1>3, <1>5 DEF Compensated
<1>8. outcome = "none"
  BY <1>1 DEF EndInv, FailInv
<1>9. FailInv'
  BY <1>1, <1>5, <1>7, <1>8 DEF EndInv, FailInv, OutcomeIsTrue, Working
<1> QED
  BY <1>3, <1>6, <1>9 DEF EndInv

\* A failure: the run ends, compensates or goes on.
LEMMA EndFails ==
  ASSUME PlanInv, EndInv, CallFails
  PROVE  EndInv'
<1>1. /\ at = "call" /\ Working /\ todo' = Tail(todo)
      /\ UNCHANGED <<spec, entry, undone, cancelled, began, tried>>
      /\ result' = [result EXCEPT ![Node] = "failed"]
      /\ executed' = Append(executed, Node)
  BY DEF CallFails, Working
<1>2. /\ Node \in Nodes /\ Node = todo[1] /\ 1 \in DOMAIN todo
      /\ \A i \in DOMAIN Tail(todo) : i + 1 \in DOMAIN todo /\ Tail(todo)[i] = todo[i + 1] /\ i \in Nat /\ i > 0
  BY <1>1, TodoParts DEF PlanInv, Types
<1>3. ExecutedInv' /\ executed' # <<>> /\ Last(executed') = Node
  BY <1>1, ExecutedGrows DEF EndInv
<1>4. undoing = <<>> /\ undone = <<>> /\ tried = {} /\ \A n \in Nodes : result[n] # "compensated"
  BY <1>1, NotYetUndone
<1>5. \A n \in Nodes : result'[n] = IF n = Node THEN "failed" ELSE result[n]
  BY <1>1 DEF PlanInv, Types
<1>6. \A n \in Range(todo') : began'[n] = 0 /\ result'[n] = "none"
  <2> SUFFICES ASSUME NEW i \in DOMAIN Tail(todo)
               PROVE  began[Tail(todo)[i]] = 0 /\ result'[Tail(todo)[i]] = "none"
    BY <1>1 DEF Range
  <2>1. i + 1 \in DOMAIN todo /\ Tail(todo)[i] = todo[i + 1] /\ i + 1 # 1 /\ todo[i + 1] \in Nodes
    BY <1>2 DEF PlanInv, Types
  <2>2. todo[i + 1] # Node
    BY <1>1, <1>2, <2>1 DEF PlanInv, Ordered, Running, IsInjective
  <2> QED
    BY <1>1, <1>5, <2>1, <2>2 DEF PlanInv, Fresh, Running
<1>7. outcome = "none"
  BY <1>1 DEF EndInv, FailInv
<1>8. CASE spec.onFailure[Node] = "fail" /\ End("failed") /\ UNCHANGED undoing
  <2>1. RestInv' /\ TriedInv' /\ UndoneInv'
    BY <1>1, <1>3, <1>4, <1>5, <1>8, NothingUndone DEF End
  <2>2. ~Compensated'
    BY <1>1, <1>3, <1>8 DEF Compensated
  <2>3. OutcomeIsTrue'
    BY <1>1, <1>2, <1>3, <1>5, <1>6, <1>8 DEF OutcomeIsTrue, End
  <2>4. FailInv'
    BY <1>1, <1>4, <1>8, <2>2, <2>3 DEF EndInv, FailInv, End, Working
  <2> QED
    BY <1>3, <2>1, <2>4 DEF EndInv
<1>9. CASE /\ spec.onFailure[Node] = "compensate" /\ at' = "compensate"
           /\ undoing' = UndoOrder(executed') /\ UNCHANGED outcome
  <2> DEFINE m == Len(executed')
             back == [i \in 1..m |-> executed'[(m - i) + 1]]
  <2>1. undoing' = back
    BY <1>9 DEF UndoOrder, Reverse
  <2>2. m \in Nat /\ DOMAIN executed' = 1..m /\ executed' \in [1..m -> Nodes]
    BY <1>3, LenProperties DEF ExecutedInv
  <2>3. \A i \in 1..m : (m - i) + 1 \in 1..m
    BY <2>2
  <2>4. back \in [1..m -> Nodes]
    BY <2>2, <2>3
  <2>5. back \in Seq(Nodes) /\ Len(back) = m
    <3> HIDE DEF m
    <3>1. back \in Seq(Nodes) /\ DOMAIN back = 1..m
      BY <2>2, <2>4
    <3> QED
      BY <2>2, <3>1, LenProperties
  <2>6. \A i \in 1..m : back[i] = executed'[(m - i) + 1]
    OBVIOUS
  <2> HIDE DEF back, m
  <2>7. RestInv'
    BY <2>1, <2>2, <2>5, <2>6 DEF RestInv, m
  <2>8. TriedInv'
    <3>1. \A p \in DOMAIN executed' : ~(p > Len(undoing'))
      BY <2>1, <2>2, <2>5
    <3> QED
      BY <1>1, <1>4, <1>9, <3>1 DEF TriedInv, Working
  <2>9. UndoneInv'
    BY <1>1, <1>4, <1>5, <1>9 DEF UndoneInv, Working, Range
  <2>10. Compensated'
    BY <1>1, <1>2, <1>3, <1>5, <1>9 DEF Compensated
  <2>11. FailInv'
    BY <1>1, <1>6, <1>7, <1>9, <2>10 DEF EndInv, FailInv, OutcomeIsTrue, Working
  <2> QED
    BY <1>3, <2>7, <2>8, <2>9, <2>11 DEF EndInv
<1>10. CASE spec.onFailure[Node] \in PassedOver /\ at' = "next" /\ UNCHANGED <<outcome, undoing>>
  <2>1. RestInv' /\ TriedInv' /\ UndoneInv'
    BY <1>1, <1>3, <1>4, <1>5, <1>10, NothingUndone
  <2>2. ~Compensated'
    BY <1>1, <1>3, <1>10 DEF Compensated, PassedOver
  <2>3. FailInv'
    BY <1>1, <1>5, <1>7, <1>10, <2>2 DEF EndInv, FailInv, OutcomeIsTrue, Working
  <2> QED
    BY <1>3, <2>1, <2>3 DEF EndInv
<1> QED
  BY <1>8, <1>9, <1>10 DEF CallFails

\* The next of the executed nodes, from the back.
LEMMA NextToUndo ==
  ASSUME ExecutedInv, RestInv, undoing # <<>>
  PROVE  /\ Len(undoing) \in DOMAIN executed /\ Undo = executed[Len(undoing)]
         /\ Undo \in Nodes /\ Undo \in Range(executed)
         /\ Tail(undoing) \in Seq(Nodes) /\ Len(Tail(undoing)) = Len(undoing) - 1
         /\ Len(undoing) \in Nat /\ DOMAIN executed \subseteq Nat
         /\ Len(Tail(undoing)) <= Len(executed)
         /\ \A i \in 1..Len(Tail(undoing)) :
              Tail(undoing)[i] = executed[Len(Tail(undoing)) - i + 1]
<1> DEFINE k == Len(undoing)
           m == Len(executed)
<1>1. /\ executed \in Seq(Nodes) /\ undoing \in Seq(Nodes)
      /\ k \in Nat /\ k > 0 /\ m \in Nat /\ k <= m /\ DOMAIN executed = 1..m
  BY LenProperties DEF ExecutedInv, RestInv
<1>2. /\ Tail(undoing) \in Seq(Nodes) /\ Len(Tail(undoing)) = k - 1
      /\ \A i \in 1..(k - 1) : Tail(undoing)[i] = undoing[i + 1]
      /\ Head(undoing) = undoing[1]
  BY <1>1, HeadTailProperties
<1>3. \A i \in 1..k : undoing[i] = executed[k - i + 1]
  BY DEF RestInv
<1> HIDE DEF k, m
<1>4. k \in 1..m /\ 1 \in 1..k /\ k - 1 + 1 = k
  BY <1>1
<1>5. Undo = executed[k]
  BY <1>2, <1>3, <1>4 DEF Undo
<1>6. executed[k] \in Nodes /\ executed[k] \in Range(executed)
  BY <1>1, <1>4 DEF Range
<1>7. \A i \in 1..(k - 1) : Tail(undoing)[i] = executed[(k - 1) - i + 1]
  <2> SUFFICES ASSUME NEW i \in 1..(k - 1) PROVE Tail(undoing)[i] = executed[(k - 1) - i + 1]
    OBVIOUS
  <2>1. i + 1 \in 1..k /\ k - (i + 1) + 1 = (k - 1) - i + 1
    BY <1>1
  <2> QED
    BY <1>2, <1>3, <2>1
<1>8. k - 1 <= m /\ DOMAIN executed \subseteq Nat
  BY <1>1
<1> QED
  BY <1>1, <1>2, <1>4, <1>5, <1>6, <1>7, <1>8 DEF k, m

\* Compensation goes one node back.
LEMMA EndUndoes ==
  ASSUME PlanInv, EndInv, NothingToUndo \/ Compensate \/ CompensateFails
  PROVE  EndInv'
<1>0. ExecutedInv /\ RestInv /\ TriedInv /\ UndoneInv /\ FailInv
  BY DEF EndInv
<1>1. /\ at = "compensate" /\ at' = "compensate" /\ undoing # <<>> /\ undoing' = Tail(undoing)
      /\ UNCHANGED <<spec, entry, todo, executed, cancelled, began, outcome>>
      /\ \/ Undo \notin spec.undo /\ tried' = tried
         \/ Undo \in spec.undo /\ tried' = tried \cup {Undo}
      /\ \/ undone' = undone /\ result' = result
         \/ /\ Undo \in tried' /\ undone' = Append(undone, Undo)
            /\ result' = [result EXCEPT ![Undo] = "compensated"]
  BY DEF NothingToUndo, Compensate, CompensateFails, Undoable, compensating, StillToUndo
<1> DEFINE k == Len(undoing)
<1>2. /\ k \in DOMAIN executed /\ Undo = executed[k]
      /\ Undo \in Nodes /\ Undo \in Range(executed)
      /\ Tail(undoing) \in Seq(Nodes) /\ Len(Tail(undoing)) = k - 1
      /\ k \in Nat /\ DOMAIN executed \subseteq Nat
      /\ Len(Tail(undoing)) <= Len(executed)
      /\ \A i \in 1..Len(Tail(undoing)) : Tail(undoing)[i] = executed[Len(Tail(undoing)) - i + 1]
  BY <1>0, <1>1, NextToUndo
<1> HIDE DEF k
<1>3. result[Undo] \in {"completed", "failed", "compensated"}
  BY <1>0, <1>2 DEF ExecutedInv
<1>4. \A n \in Nodes : \/ result'[n] = result[n]
                       \/ n = Undo /\ result'[n] = "compensated"
  BY <1>1 DEF PlanInv, Types
<1>5. ExecutedInv'
  BY <1>0, <1>1, <1>3, <1>4, ExecutedKept
<1>6. RestInv'
  BY <1>1, <1>2 DEF RestInv
<1>7. \A p \in DOMAIN executed : p > k - 1 <=> p > k \/ p = k
  BY <1>2
<1>8. TriedInv'
  <2>1. Len(undoing') = k - 1
    BY <1>1, <1>2
  <2>2. ASSUME NEW n \in tried' PROVE \E p \in DOMAIN executed : p > k - 1 /\ executed[p] = n
    <3>1. CASE n \in tried
      BY <1>0, <1>7, <3>1 DEF TriedInv, k
    <3>2. CASE n = Undo
      BY <1>2, <1>7, <3>2
    <3> QED
      BY <1>1, <2>2, <3>1, <3>2
  <2>3. ASSUME NEW p \in DOMAIN executed, p > k - 1, executed[p] \in spec.undo
        PROVE  executed[p] \in tried'
    <3>1. CASE p > k
      BY <1>0, <1>1, <2>3, <3>1 DEF TriedInv, k
    <3>2. CASE p = k
      BY <1>1, <1>2, <2>3, <3>2
    <3> QED
      BY <1>7, <2>3, <3>1, <3>2
  <2>4. tried' \subseteq spec.undo
    BY <1>0, <1>1 DEF TriedInv
  <2> QED
    BY <1>1, <2>1, <2>2, <2>3, <2>4 DEF TriedInv, Working
<1>9. UndoneInv'
  <2>1. CASE undone' = undone /\ result' = result
    <3>1. tried \subseteq tried'
      BY <1>1
    <3> QED
      BY <1>0, <1>1, <2>1, <3>1 DEF UndoneInv, Working
  <2>2. CASE /\ Undo \in tried' /\ undone' = Append(undone, Undo)
             /\ result' = [result EXCEPT ![Undo] = "compensated"]
    <3> DEFINE u == Len(undone)
    <3>1. u \in Nat /\ DOMAIN undone = 1..u /\ undone \in Seq(Nodes)
      BY <1>0, LenProperties DEF UndoneInv
    <3>2. /\ undone' \in Seq(Nodes) /\ Len(undone') = u + 1
          /\ \A i \in 1..u : undone'[i] = undone[i]
          /\ undone'[u + 1] = Undo
      BY <1>2, <2>2, <3>1, AppendProperties
    <3>3. DOMAIN undone' = 1..(u + 1)
      BY <3>2, LenProperties
    <3> HIDE DEF u
    <3>4. \A i \in 1..(u + 1) : i \in 1..u \/ i = u + 1
      BY <3>1
    <3>5. Range(undone') = Range(undone) \cup {Undo}
      <4>1. 1..u \subseteq 1..(u + 1) /\ u + 1 \in 1..(u + 1)
        BY <3>1
      <4> QED
        BY <3>1, <3>2, <3>3, <3>4, <4>1 DEF Range
    <3>6. Range(undone') = {n \in Nodes : result'[n] = "compensated"}
      <4>1. result'[Undo] = "compensated"
        BY <1>2, <2>2 DEF PlanInv, Types
      <4> QED
        BY <1>0, <1>2, <1>4, <3>5, <4>1 DEF UndoneInv
    <3>7. Range(undone') \subseteq tried'
      BY <1>0, <1>1, <2>2, <3>5 DEF UndoneInv
    <3>8. ASSUME NEW i \in 1..(u + 1), NEW j \in 1..(u + 1),
                 NEW p \in DOMAIN executed, NEW q \in DOMAIN executed,
                 i < j, undone'[i] = executed[p], undone'[j] = executed[q]
          PROVE  q < p
      <4>1. i \in 1..u /\ undone'[i] = undone[i]
        BY <3>1, <3>2, <3>8
      <4>2. CASE j \in 1..u
        BY <1>0, <3>1, <3>2, <3>8, <4>1, <4>2 DEF UndoneInv
      <4>3. CASE j = u + 1
        <5>1. executed[q] = executed[k]
          BY <1>2, <3>2, <3>8, <4>3
        <5>2. q = k
          BY <1>0, <1>2, <5>1 DEF ExecutedInv, IsInjective
        <5>3. undone[i] \in tried
          BY <1>0, <3>1, <4>1 DEF UndoneInv, Range
        <5>4. PICK x \in DOMAIN executed : x > k /\ executed[x] = undone[i]
          BY <1>0, <5>3 DEF TriedInv, k
        <5>5. x = p
          BY <1>0, <3>8, <4>1, <5>4 DEF ExecutedInv, IsInjective
        <5> QED
          BY <1>2, <5>2, <5>4, <5>5
      <4> QED
        BY <3>4, <4>2, <4>3
    <3> QED
      BY <1>1, <3>2, <3>3, <3>6, <3>7, <3>8 DEF UndoneInv, Working
  <2> QED
    BY <1>1, <2>1, <2>2
<1>10. FailInv'
  <2>1. Compensated'
    <3>1. Compensated /\ Last(executed) \in Nodes
      BY <1>0, <1>1, LastRan DEF FailInv, Compensated
    <3> QED
      BY <1>1, <1>4, <3>1 DEF Compensated
  <2>2. ASSUME NEW n \in Range(todo) PROVE began[n] = 0 /\ result'[n] = "none"
    <3>1. began[n] = 0 /\ result[n] = "none"
      BY <1>0, <1>1, <2>2 DEF FailInv
    <3>2. n \in Nodes
      BY <2>2 DEF PlanInv, Types, Range
    <3> QED
      BY <1>3, <1>4, <3>1, <3>2
  <2> QED
    BY <1>0, <1>1, <2>1, <2>2 DEF FailInv, OutcomeIsTrue, Working
<1> QED
  BY <1>5, <1>6, <1>8, <1>9, <1>10 DEF EndInv

\* Nothing is left to undo.
LEMMA EndOfUndo ==
  ASSUME PlanInv, EndInv, CompensateEnd
  PROVE  EndInv'
<1>0. ExecutedInv /\ RestInv /\ TriedInv /\ UndoneInv /\ FailInv
  BY DEF EndInv
<1>1. /\ at = "compensate" /\ undoing = <<>> /\ at' = "done" /\ outcome' = "failed"
      /\ UNCHANGED <<spec, entry, todo, attempt, started>>
  BY DEF CompensateEnd, End
<1>2. Compensated /\ (Compensated' <=> Compensated)
  BY <1>0, <1>1, CompensatedKept DEF FailInv, started
<1>3. ExecutedInv'
  BY <1>0, <1>1, ExecutedKept DEF started
<1>4. RestInv' /\ TriedInv' /\ UndoneInv'
  BY <1>0, <1>1 DEF RestInv, TriedInv, UndoneInv, Working, started
<1>5. tried = Range(executed) \cap spec.undo
  <2>1. Len(undoing) = 0 /\ \A p \in DOMAIN executed : p > 0
    BY <1>0, <1>1, LenProperties DEF ExecutedInv
  <2> QED
    BY <1>0, <1>1, <2>1 DEF TriedInv, Range
<1>6. OutcomeIsTrue'
  BY <1>0, <1>1, <1>2 DEF OutcomeIsTrue, FailInv, started
<1>7. FailInv'
  BY <1>0, <1>1, <1>2, <1>5, <1>6 DEF FailInv, Working, started
<1> QED
  BY <1>3, <1>4, <1>7 DEF EndInv

LEMMA EndStep == PlanInv /\ EndInv /\ [Next]_vars => EndInv'
<1> SUFFICES ASSUME PlanInv, EndInv, [Next]_vars PROVE EndInv'
  OBVIOUS
<1>1. CASE UNCHANGED vars
  <2>1. UNCHANGED <<spec, entry, at, todo, result, executed, undoing, undone, calls, cancelled,
                    outcome, began, tried>>
    BY <1>1 DEF vars, progress
  <2> QED
    BY <2>1 DEF EndInv, ExecutedInv, RestInv, TriedInv, UndoneInv, FailInv, Working, Compensated,
       OutcomeIsTrue, BudgetSpent, Steps
<1>2. CASE Terminating
  <2>1. UNCHANGED <<spec, entry, at, todo, result, executed, undoing, undone, calls, cancelled,
                    outcome, began, tried>>
    BY <1>2 DEF Terminating, vars, progress
  <2> QED
    BY <2>1 DEF EndInv, ExecutedInv, RestInv, TriedInv, UndoneInv, FailInv, Working, Compensated,
       OutcomeIsTrue, BudgetSpent, Steps
<1> QED
  BY <1>1, <1>2, EndStarts, EndBreaks, EndGoesOn, EndSucceeds, EndFails, EndUndoes, EndOfUndo DEF Next

\* What ran is undone in an order in which nothing is undone before what was built
\* on it, and nothing twice.
THEOREM UndoneInReverse == Spec => []UndoneBeforeDependencies
<1>1. EndInv => UndoneBeforeDependencies
  <2> SUFFICES ASSUME EndInv PROVE UndoneBeforeDependencies
    OBVIOUS
  <2>1. /\ DOMAIN undone \subseteq Nat /\ DOMAIN executed \subseteq Nat
    BY LenProperties DEF EndInv, UndoneInv, ExecutedInv
  <2>2. \A i \in DOMAIN undone : \E p \in DOMAIN executed : undone[i] = executed[p]
    <3>1. \A i \in DOMAIN undone : undone[i] \in tried
      BY DEF EndInv, UndoneInv, Range
    <3> QED
      BY <3>1 DEF EndInv, TriedInv
  <2>3. IsInjective(undone)
    <3> SUFFICES ASSUME NEW i \in DOMAIN undone, NEW j \in DOMAIN undone, undone[i] = undone[j], i < j
                 PROVE  FALSE
      BY <2>1 DEF IsInjective
    <3>1. PICK p \in DOMAIN executed : undone[i] = executed[p]
      BY <2>2
    <3>2. p < p
      BY <3>1 DEF EndInv, UndoneInv
    <3> QED
      BY <2>1, <3>2
  <2>4. ASSUME NEW i \in DOMAIN undone, NEW j \in DOMAIN undone,
               undone[i] \in Range(spec.deps[undone[j]])
        PROVE  j < i
    <3>1. PICK p \in DOMAIN executed : undone[i] = executed[p]
      BY <2>2
    <3>2. PICK q \in DOMAIN executed : undone[j] = executed[q]
      BY <2>2
    <3>3. p < q
      BY <2>4, <3>1, <3>2 DEF EndInv, ExecutedInv
    <3>4. i # j
      BY <2>1, <3>1, <3>2, <3>3 DEF EndInv, ExecutedInv, IsInjective
    <3>5. ~(i < j)
      BY <2>1, <3>1, <3>2, <3>3 DEF EndInv, UndoneInv
    <3> QED
      BY <2>1, <3>4, <3>5
  <2> QED
    BY <2>3, <2>4 DEF UndoneBeforeDependencies
<1> QED
  BY PlansSound, PlanInit, PlanStep, EndInit, EndStep, <1>1, PTL DEF Spec

\* A saga is whole (every compensation of what ran is called
\* after a failure that is to be compensated, none otherwise) and what the result
\* of run() says of the run is true.
THEOREM EndsTruthfully == Spec => []EndIsTrue
<1>1. EndInv => EndIsTrue
  BY DEF EndInv, UndoneInv, FailInv, EndIsTrue, SagaIsComplete
<1> QED
  BY PlansSound, PlanInit, PlanStep, EndInit, EndStep, <1>1, PTL DEF Spec

==============================================================================
