--------------------------- MODULE ExecutionRecords ---------------------------
(***************************************************************************)
(* The life of execution records as the ExecutionStore sees it, without    *)
(* the rest of the pipeline: a call of execute() moves its own copy along  *)
(* the transition table and saves it whole; cancel() saves over it; calls  *)
(* die with their process and records do not.  ExecutionEngine implements    *)
(* this, and Recovery is specified on top of it.                           *)
(***************************************************************************)
EXTENDS ExecutionStates

CONSTANTS Requests, Cancellers, NoReq

ASSUME NoReqAssumption == NoReq \notin Requests

VARIABLES
  phase,   \* [Requests -> where the call of execute() stands]
  copy,    \* [Requests -> state of the call's record, "none" before it has one]
  stored,  \* [Requests -> state in the store, "none" if absent]
  target,  \* [Cancellers -> the execution a cancel() is for, NoReq before it]
  open     \* calls of cancel() that have not returned

vars == <<phase, copy, stored, target, open>>

TypeOK ==
  /\ phase \in [Requests -> {"idle", "live", "over", "crashed"}]
  /\ copy \in [Requests -> States \cup {"none"}]
  /\ stored \in [Requests -> States \cup {"none"}]
  /\ target \in [Cancellers -> Requests \cup {NoReq}]
  /\ open \subseteq Cancellers

Init ==
  /\ phase = [r \in Requests |-> "idle"]
  /\ copy = [r \in Requests |-> "none"]
  /\ stored = [r \in Requests |-> "none"]
  /\ target = [c \in Cancellers |-> NoReq]
  /\ open = {}

\* execute() is called; it returns, refused, answered or rejected.
Begin(r) ==
  /\ phase[r] = "idle"
  /\ phase' = [phase EXCEPT ![r] = "live"]
  /\ UNCHANGED <<copy, stored, target, open>>

End(r) ==
  /\ phase[r] \in {"idle", "live"}
  /\ phase' = [phase EXCEPT ![r] = "over"]
  /\ UNCHANGED <<copy, stored, target, open>>

\* The record is created, before anything can be stored of it.
Create(r) ==
  /\ phase[r] = "live"
  /\ copy[r] = "none" /\ stored[r] = "none"
  /\ copy' = [copy EXCEPT ![r] = "created"]
  /\ stored' = [stored EXCEPT ![r] = "created"]
  /\ UNCHANGED <<phase, target, open>>

\* The copy moves and is saved over whatever is stored, or the save rejects.
Move(r) ==
  /\ phase[r] = "live"
  /\ \E to \in States :
       /\ CanTransition(copy[r], to)
       /\ copy' = [copy EXCEPT ![r] = to]
       /\ stored' \in {stored, [stored EXCEPT ![r] = to]}
  /\ UNCHANGED <<phase, target, open>>

\* cancel() is called; an execution that is not stored ends it at once.
CancelBegin(c, r) ==
  /\ target[c] = NoReq
  /\ target' = [target EXCEPT ![c] = r]
  /\ open' \in {open, open \cup {c}}
  /\ UNCHANGED <<phase, copy, stored>>

\* cancel() saves its copy over whatever is stored.
CancelSave(c) ==
  /\ c \in open
  /\ \E to \in {"cancelling", "cancelled"} : stored' = [stored EXCEPT ![target[c]] = to]
  /\ open' \in {open, open \ {c}}
  /\ UNCHANGED <<phase, copy, target>>

CancelEnd(c) ==
  /\ c \in open
  /\ open' = open \ {c}
  /\ UNCHANGED <<phase, copy, stored, target>>

\* A process dies, with the calls and the cancels that ran in it; processes that
\* share the store go on.
Crash(dead, lost) ==
  /\ phase' = [r \in Requests |-> IF r \in dead /\ phase[r] = "live" THEN "crashed" ELSE phase[r]]
  /\ open' = open \ lost
  /\ UNCHANGED <<copy, stored, target>>

Next ==
  \/ \E r \in Requests : Begin(r) \/ End(r) \/ Create(r) \/ Move(r)
  \/ \E c \in Cancellers : \/ \E r \in Requests : CancelBegin(c, r)
                           \/ CancelSave(c) \/ CancelEnd(c)
  \/ \E dead \in SUBSET Requests, lost \in SUBSET Cancellers : Crash(dead, lost)

Spec == Init /\ [][Next]_vars

==============================================================================
