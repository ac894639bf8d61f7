------------------------------ MODULE MCRecovery ------------------------------
(* TLC instance of Recovery.                                                 *)
EXTENDS Recovery

CONSTANTS r1, r2

\* The clocks that set created_at need not agree with the order of the calls.
MCCreatedAt == r1 :> 1 @@ r2 :> 2

\* Bounds: one execution may do anything.  Two, and one that is cancelled (the
\* exception of every property), get no further than running by saves that
\* succeed, and recover() meets no failing operation beside them.
Early == {"none", "created", "planned", "queued", "running"}

Simple ==
  /\ ~scan.errors
  /\ \A r \in Requests : /\ copy[r] \in Early
                         /\ stored[r] \in {copy[r], "compensating", "cancelling", "cancelled", "failed"}

Bounded ==
  LET second == phase[r2] # "idle"
      cancelled == \E c \in Cancellers : target[c] # NoReq IN
  second \/ cancelled => Simple /\ ~(second /\ cancelled)
==============================================================================
