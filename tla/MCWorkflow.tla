------------------------------ MODULE MCWorkflow ------------------------------
(* TLC instance of Workflow: two families of workflows of three nodes.     *)
EXTENDS Workflow

CONSTANTS a, b, c

MCNodes == <<a, b, c>>

\* Every graph, dangling names and cycles included, with and without a gate.
Graphs ==
  [deps : [Nodes -> {<<>>, <<Missing>>} \cup {<<n>> : n \in Nodes}
                    \cup {<<m, n>> : m, n \in Nodes}],
   onFailure : {[n \in Nodes |-> "skip"]}, undo : {{}},
   approvals : {{}, {b}}, conditional : {{}}, attempts : {1}, maxCalls : {NoLimit}]

\* Graphs in which c comes before what it depends on: none, chain, fork, join.
Shapes ==
  { a :> <<>> @@ b :> <<>> @@ c :> <<>>,
    a :> <<b>> @@ b :> <<c>> @@ c :> <<>>,
    a :> <<>> @@ b :> <<a>> @@ c :> <<a>>,
    a :> <<c, b>> @@ b :> <<>> @@ c :> <<>> }

\* Every policy of failure, with compensations, a condition, retries and budgets.
Runs ==
  [deps : Shapes, onFailure : [Nodes -> OnFailure \ {"retry"}],
   undo : {{a, b, c}, {a, b}, {}},
   approvals : {{}}, conditional : {{}, {b}}, attempts : {1, 2}, maxCalls : {NoLimit, 0, 2}]

Retry == [deps : Shapes, onFailure : {[n \in Nodes |-> "retry"]}, undo : {{a}},
          approvals : {{c}}, conditional : {{}}, attempts : {2}, maxCalls : {1}]

MCSpecs == Graphs \cup Runs \cup Retry

==============================================================================
