----------------------------- MODULE WorkflowPlan -----------------------------
(***************************************************************************)
(* The pure part of workflows: the depth-first topologicalSort() that both *)
(* engines have, computeParallelGroups() and the part of validate() that   *)
(* is about the graph (workflow-artifact/engine.ts).                       *)
(*                                                                         *)
(* deps[n] is depends_on of node n, in the order of the workflow; a name   *)
(* that no node has is Missing.  Node ids are unique: validate() sees to   *)
(* it, and run() looks a node up by its id.                                *)
(***************************************************************************)
EXTENDS Loops

CONSTANTS NodeList, Missing

Nodes == Range(NodeList)

ASSUME NodesAssumption ==
  /\ NodeList \in Seq(Nodes) /\ IsInjective(NodeList)
  /\ Missing \notin Nodes

Dependencies == [Nodes -> Seq(Nodes \cup {Missing})]

------------------------------------------------------------------------------
(* topologicalSort()                                                       *)

SortStates == [sorted : Seq(Nodes), cycle : BOOLEAN]

\* Mutant: a node may be visited twice.
NeverVisited(n, s) == FALSE

Visited(n, s) == n \in Range(s.sorted)

\* Mutant: a node is put before what was appended while it was visited.
FirstCome(n, before, after) ==
  [after EXCEPT !.sorted = before \o <<n>> \o SubSeq(@, Len(before) + 1, Len(@))]

\* A node is appended after what it depends on.
Finished(n, before, after) == [after EXCEPT !.sorted = Append(@, n)]

\* visit(node), as a function of the nodes that are being visited (visiting), the
\* node and the state.  A node met while it is being visited throws, which ends
\* the sort; otherwise visiting is what it was when visit() returns.
Visits(nodes, deps) ==
  LET Visit[visiting \in SUBSET Range(nodes)] ==
        [n \in Range(nodes) |-> [s \in SortStates |->
           IF s.cycle \/ Visited(n, s) THEN s
           ELSE IF n \in visiting THEN [s EXCEPT !.cycle = TRUE]
           ELSE LET known(d) == IF d \in Range(nodes) THEN Visit[visiting \cup {n}][d]
                                ELSE [t \in SortStates |-> t]
                    after == InTurn([d \in Nodes \cup {Missing} |-> known(d)], s, deps[n])
                IN IF after.cycle THEN after ELSE Finished(n, s.sorted, after)]]
  IN Visit

TopologicalSort(nodes, deps) ==
  InTurn(Visits(nodes, deps)[{}], [sorted |-> <<>>, cycle |-> FALSE], nodes)

------------------------------------------------------------------------------
(* plan() and validate()                                                   *)

\* Mutant: one dependency in an earlier batch is enough.
ReadyForOne(remaining, completed, deps) ==
  {n \in remaining : deps[n] = <<>> \/ Range(deps[n]) \cap completed # {}}

\* What depends on nothing that is not in an earlier batch.
Batch(remaining, completed, deps) ==
  {n \in remaining : Range(deps[n]) \subseteq completed}

\* computeParallelGroups(): batch after batch, until one is empty.
ParallelGroups(sorted, deps) ==
  LET Batches[remaining \in SUBSET Range(sorted)] ==
        LET batch == Batch(remaining, Range(sorted) \ remaining, deps)
        IN IF batch = {} THEN <<>> ELSE <<batch>> \o Batches[remaining \ batch]
  IN Batches[Range(sorted)]

\* The artifact engine's own topologicalSort(), of all nodes of the workflow.
ArtifactSort(deps) == TopologicalSort(NodeList, deps)

\* What validate() says of the graph: depends_on refers to nodes, and there is no
\* cycle.  What else may be wrong has no part in the order.
Valid(deps) ==
  /\ \A n \in Nodes : Range(deps[n]) \subseteq Nodes
  /\ ~ArtifactSort(deps).cycle

\* What plan() makes of a valid workflow; its estimates and lists are left out.
ExecutionPlan(deps) ==
  LET sorted == ArtifactSort(deps).sorted
  IN [order |-> sorted, groups |-> ParallelGroups(sorted, deps)]

------------------------------------------------------------------------------
(* What they are for.                                                      *)

\* Some nodes depend on each other: each of them on one of them.
HasCycle(nodes, deps) ==
  \E some \in SUBSET nodes : some # {} /\ \A n \in some : Range(deps[n]) \cap some # {}

\* Every node once, after those of its dependencies that are nodes.
IsTopological(order, nodes, deps) ==
  /\ Range(order) = nodes /\ IsInjective(order)
  /\ \A i, j \in DOMAIN order : order[j] \in Range(deps[order[i]]) => j < i

\* Every node in one group, and in the first that all it depends on precedes.
IsLayered(groups, nodes, deps) ==
  LET before(i) == UNION {groups[j] : j \in 1..(i - 1)} IN
  /\ before(Len(groups) + 1) = nodes
  /\ \A i \in DOMAIN groups :
       /\ groups[i] # {}
       /\ groups[i] = {n \in nodes \ before(i) : Range(deps[n]) \subseteq before(i)}

==============================================================================
