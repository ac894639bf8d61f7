------------------------------- MODULE MCEngine ------------------------------
(* TLC instances of ExecutionEngine.                                       *)
EXTENDS ExecutionEngine, TLC

CONSTANTS r1, r2, k1

\* Calls that carry the same key are interchangeable.
Symmetry == Permutations(Requests)

OneKey == [r \in Requests |-> k1]

==============================================================================
