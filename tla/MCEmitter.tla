------------------------------- MODULE MCEmitter ------------------------------
(* TLC instance of EventEmitter: the options of two subscriptions.         *)
EXTENDS EventEmitter

CONSTANTS s1, s2

Opt(delivery, policy, size) ==
  [delivery |-> delivery, on_backpressure |-> policy, buffer_size |-> size]

\* Every policy and the delivery modes that the code tells apart, beside a
\* subscription that is cut off when it is paused.
MCOptions ==
  s1 :> {Opt("at_least_once", "buffer", 1), Opt("effectively_once", "buffer", 2),
         Opt("at_most_once", "drop", 1), Opt("at_least_once", "pause", 1)}
  @@ s2 :> {Opt("at_least_once", "disconnect", 1)}

==============================================================================
