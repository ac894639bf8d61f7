-------------------------------- MODULE Loops ---------------------------------
(***************************************************************************)
(* Loops over an array, as they are written in the engines and registries: *)
(* for (const x of seq) and seq.filter().                                  *)
(***************************************************************************)
EXTENDS Integers, SequencesExt

\* What is left of the state s when step[x] was applied for each x of seq in turn.
InTurn(step, s, seq) == FoldLeft(LAMBDA t, x : step[x][t], s, seq)

\* The elements of seq that are in keep, in their order.
Filter(seq, keep) ==
  InTurn([x \in Range(seq) |-> [kept \in Seq(Range(seq)) |->
            IF x \in keep THEN Append(kept, x) ELSE kept]],
         <<>>, seq)
==============================================================================
