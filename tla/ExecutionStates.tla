--------------------------- MODULE ExecutionStates ---------------------------
(***************************************************************************)
(* The life cycle of an execution record: the transition table of          *)
(* execution/state-machine.ts, which sdk/python/aep/state_machine.py and   *)
(* sdk/rust/src/state_machine.rs repeat word for word.                     *)
(***************************************************************************)

States ==
  {"created", "planned", "awaiting_approval", "authorized", "queued", "running",
   "paused", "cancelling", "cancelled", "retrying", "compensating",
   "completed", "failed", "expired"}

\* isTerminal() and TERMINAL_STATES.
Terminal == {"completed", "failed", "cancelled", "expired"}

\* States of an execution that was created and has not started: every one of
\* them may be cancelled, expired or failed.
Waiting == {"created", "planned", "awaiting_approval", "authorized", "queued"}

\* ALLOWED_TRANSITIONS as a relation.
AllowedTransitions ==
  (Waiting \X {"cancelled", "expired", "failed"})
  \cup ({"created"} \X {"planned"})
  \cup ({"planned"} \X {"awaiting_approval", "authorized", "queued"})
  \cup ({"awaiting_approval"} \X {"authorized"})
  \cup ({"authorized"} \X {"queued"})
  \cup ({"queued"} \X {"running"})
  \cup ({"running"} \X {"paused", "retrying", "compensating", "cancelling",
                        "cancelled", "failed", "completed", "queued"})
  \cup ({"paused"} \X {"running", "cancelled", "expired", "failed"})
  \cup ({"cancelling"} \X {"cancelled", "failed"})
  \cup ({"retrying"} \X {"running", "failed", "cancelled"})
  \cup ({"compensating"} \X {"completed", "failed", "cancelled"})

\* canTransition(from, to)
CanTransition(from, to) == <<from, to>> \in AllowedTransitions

==============================================================================
