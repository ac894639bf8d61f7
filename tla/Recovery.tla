------------------------------- MODULE Recovery -------------------------------
(***************************************************************************)
(* RecoveryEngine.recover() (recovery/engine.ts) over the ExecutionStore   *)
(* that execute() and cancel() write: run after a crash, or on a node that *)
(* shares the store with calls still in flight.  The calls are those of    *)
(* ExecutionRecords, which the engine implements; what recover() touches   *)
(* besides their records (the expired idempotency rows) is not its matter. *)
(*                                                                         *)
(* recover() lists the unfinished records state by state, one await each,  *)
(* and acts on the copies it got; what it acts on may have moved since, so *)
(* it writes with transition(id, from, to), which compares the state.  A   *)
(* list is cut off: it returns the newest records of its state only.       *)
(***************************************************************************)
EXTENDS ExecutionRecords, SequencesExt, Integers, FiniteSets

CONSTANTS
  ResumePaused,  \* the resumePaused option
  CreatedAt,     \* [Requests -> created_at of the record], by the clocks of several nodes
  ListLimit      \* records a list returns at most: 1000 in SQL, no limit in memory

ASSUME ResumePausedAssumption == ResumePaused \in BOOLEAN
ASSUME CreatedAtAssumption == CreatedAt \in [Requests -> Nat]
ASSUME ListLimitAssumption == ListLimit \in Nat \ {0}

\* The store holds a finite table.
ASSUME RequestsAssumption == IsFiniteSet(Requests)

VARIABLE scan    \* frame of recover() and the report it is filling

recoveryVars == <<phase, copy, stored, target, open, scan>>

\* Mutant: the state between two attempts is forgotten.
RetryingForgotten ==
  <<"created", "planned", "awaiting_approval", "authorized", "queued", "running",
    "paused", "cancelling", "compensating">>

\* unfinishedStates, in the order they are listed.
UnfinishedStates ==
  <<"created", "planned", "awaiting_approval", "authorized", "queued", "running",
    "paused", "retrying", "cancelling", "compensating">>

NeverStarted == {"created", "planned", "authorized", "queued"}
MayBeRunning == {"running", "retrying", "compensating"}

\* Beside the frame, what no step reads: the calls that had ended when recover()
\* began, and the records that a list cut off.
IdleScan == [at |-> "idle", next |-> 1, todo |-> <<>>, old |-> {}, report |-> {},
             errors |-> FALSE, ended |-> {}, cutOff |-> {}]

\* What a list returned, and what the report says was done.
Entries == [exec : Requests, state : States \ Terminal]
Actions == {"fail", "compensate", "resume", "no_action"}

\* recover() only takes up records that it read in an unfinished state, and
\* has one in hand when it compensates.
RecoveryTypeOK ==
  /\ TypeOK
  /\ scan \in [at : {"idle", "list", "act", "compensating", "done"},
               next : 1..(Len(UnfinishedStates) + 1), todo : Seq(Entries),
               old : SUBSET Requests, report : SUBSET (Requests \X Actions),
               errors : BOOLEAN, ended : SUBSET Requests, cutOff : SUBSET Requests]
  /\ scan.at = "compensating" => scan.todo # <<>>

RecoveryInit == Init /\ scan = IdleScan

------------------------------------------------------------------------------

\* determineAction(record, age, stuckThreshold): what never started or was
\* being cancelled fails at any age, what may be running only when it is old.
\* An approval that is awaited may have expired or not.
Decide(state, old) ==
  CASE state \in NeverStarted \cup {"cancelling"} -> {"fail"}
    [] state \in MayBeRunning ->
         IF ~old THEN {"no_action"}
         ELSE IF state = "compensating" THEN {"fail"} ELSE {"compensate"}
    [] state = "paused" -> IF ResumePaused THEN {"resume"} ELSE {"no_action"}
    [] state = "awaiting_approval" -> {"fail", "no_action"}

\* Mutant: the record is saved as execute() saves it.
SaveOver(x, from, to) == stored' = [stored EXCEPT ![x] = to]

\* transition(id, from, to): compare and set, its result ignored.
CompareAndSet(x, from, to) ==
  stored' = IF stored[x] = from THEN [stored EXCEPT ![x] = to] ELSE stored

\* The record in hand, and whether this action may be decided for it.
Current == Head(scan.todo)

Decided(action) ==
  /\ scan.at = "act" /\ scan.todo # <<>>
  /\ action \in Decide(Current.state, Current.exec \in scan.old)

\* The record is reported and the next one taken.
Reported(action) ==
  [scan EXCEPT !.at = "act", !.todo = Tail(@), !.report = @ \cup {<<Current.exec, action>>}]

calls == <<phase, copy, target, open>>

------------------------------------------------------------------------------
(* recover().                                                              *)

\* verify() of the audit chain and read() of the event log only fill the report.
RecoverBegin ==
  /\ scan.at = "idle"
  /\ scan' = [scan EXCEPT !.at = "list",
               !.ended = {r \in Requests : phase[r] \in {"over", "crashed"}}]
  /\ UNCHANGED vars

\* The records in a state, and those a list of them returns: ORDER BY created_at
\* DESC LIMIT.
InState(state) == {r \in Requests : stored[r] = state}

Newest(S) ==
  IF Cardinality(S) <= ListLimit THEN {S}
  ELSE {T \in SUBSET S : /\ Cardinality(T) = ListLimit
                        /\ \A x \in T, y \in S \ T : CreatedAt[y] <= CreatedAt[x]}

\* list({state}), the next state in turn.  (The entries are in any order, newest
\* first in SQL and as they were made in memory.)
RecoverList ==
  LET state == UnfinishedStates[scan.next] IN
  /\ scan.at = "list" /\ scan.next <= Len(UnfinishedStates)
  /\ \E T \in Newest(InState(state)) : \E found \in SetToSeqs(T) :
       scan' = [scan EXCEPT !.next = @ + 1,
                  !.todo = @ \o [i \in DOMAIN found |-> [exec |-> found[i], state |-> state]],
                  !.cutOff = @ \cup (InState(state) \ T)]
  /\ UNCHANGED vars

\* now = Date.now(): from here on the ages of the listed records are fixed, and
\* what was made before an old one is old.
RecoverAges ==
  LET listed == {x.exec : x \in Range(scan.todo)} IN
  /\ scan.at = "list" /\ scan.next > Len(UnfinishedStates)
  /\ \E old \in SUBSET listed :
       /\ \A x \in old, y \in listed \ old : CreatedAt[x] < CreatedAt[y]
       /\ scan' = [scan EXCEPT !.at = "act", !.old = old]
  /\ UNCHANGED vars

RecoverSkip ==
  /\ Decided("no_action")
  /\ scan' = Reported("no_action")
  /\ UNCHANGED vars

RecoverFail ==
  /\ Decided("fail")
  /\ CompareAndSet(Current.exec, Current.state, "failed")
  /\ scan' = Reported("fail")
  /\ UNCHANGED calls

\* Back to "running", although no call works on the record any more.
RecoverResume ==
  /\ Decided("resume")
  /\ CompareAndSet(Current.exec, "paused", "running")
  /\ scan' = Reported("resume")
  /\ UNCHANGED calls

\* "compensate" is two transitions; nothing is compensated.
RecoverCompensate ==
  /\ Decided("compensate")
  /\ CompareAndSet(Current.exec, Current.state, "compensating")
  /\ scan' = [scan EXCEPT !.at = "compensating"]
  /\ UNCHANGED calls

\* Mutant: the record is left in compensating.
CompensationOnly ==
  /\ scan.at = "compensating"
  /\ scan' = Reported("compensate")
  /\ UNCHANGED vars

RecoverCompensated ==
  /\ scan.at = "compensating"
  /\ CompareAndSet(Current.exec, "compensating", "failed")
  /\ scan' = Reported("compensate")
  /\ UNCHANGED calls

\* gc() of the idempotency store; then the report is returned.
RecoverGc ==
  /\ scan.at = "act" /\ scan.todo = <<>>
  /\ scan' = [scan EXCEPT !.at = "done", !.old = {}]
  /\ UNCHANGED vars

\* A store operation of recover() rejects: a state is not listed, a record is
\* left as it is and reported as "no_action", or the gc() is not done.
RecoverFault ==
  /\ \/ /\ scan.at = "list" /\ scan.next <= Len(UnfinishedStates)
        /\ scan' = [scan EXCEPT !.next = @ + 1, !.errors = TRUE]
     \/ /\ scan.at = "compensating" \/ \E action \in {"fail", "compensate", "resume"} : Decided(action)
        /\ scan' = [Reported("no_action") EXCEPT !.errors = TRUE]
     \/ /\ scan.at = "act" /\ scan.todo = <<>>
        /\ scan' = [scan EXCEPT !.at = "done", !.old = {}, !.errors = TRUE]
  /\ UNCHANGED vars

RecoverStep ==
  \/ RecoverBegin \/ RecoverList \/ RecoverAges \/ RecoverSkip \/ RecoverFail
  \/ RecoverResume \/ RecoverCompensate \/ RecoverCompensated \/ RecoverGc \/ RecoverFault

\* The calls go on beside recover().  They may be calls of its process or of
\* others, so a crash takes some of them and may or may not take recover() along.
LiveStep ==
  \/ \E r \in Requests : Begin(r) \/ End(r) \/ Create(r) \/ Move(r)
  \/ \E c \in Cancellers : \/ \E r \in Requests : CancelBegin(c, r)
                           \/ CancelSave(c) \/ CancelEnd(c)

RecoveryNext ==
  \/ LiveStep /\ UNCHANGED scan
  \/ \E dead \in SUBSET Requests, lost \in SUBSET Cancellers :
       Crash(dead, lost) /\ scan' \in {scan, IdleScan}
  \/ RecoverStep

RecoverySpec == RecoveryInit /\ [][RecoveryNext]_recoveryVars

------------------------------------------------------------------------------
(* Properties.                                                             *)

\* The call that made the record had ended or died when recover() began, and
\* nobody cancels it.
Abandoned(r) ==
  r \in scan.ended /\ \A c \in Cancellers : target[c] # r

\* After a recover() without errors, the record of a call that was gone when it
\* began is final, unless the report says that it was left, in a state in which
\* it may still be running elsewhere or is waiting, or that it was resumed; or
\* the list of its state was cut off before it, of which the report says nothing.
\* (The record of a call that lives or dies meanwhile may be listed twice or not
\* at all.)
AbandonedIsResolved ==
  scan.at = "done" /\ ~scan.errors
  => \A r \in Requests : Abandoned(r) =>
       \/ stored[r] \in Terminal \cup {"none"}
       \/ /\ stored[r] \in MayBeRunning \cup {"awaiting_approval", "paused"}
          /\ <<r, "no_action">> \in scan.report
       \/ stored[r] = "running" /\ <<r, "resume">> \in scan.report
       \/ r \in scan.cutOff

\* RecoveryReport: a record that is reported failed or compensated is stored as
\* failed, although the result of transition() is ignored and the report is
\* written in any case; of a call that still ran, here or on another node, when
\* recover() began, it need not be true.
ReportIsTrue ==
  \A r \in Requests :
    Abandoned(r) /\ scan.report \cap ({r} \X {"fail", "compensate"}) # {}
    => stored[r] = "failed"

\* transition() compares the state: however stale the list, recover() takes no
\* record out of a terminal state.  One that is taken out was cancelled, or was
\* failed by recover() under a call that still runs and had not ended it itself.
RecoveryIsFinal ==
  [][\A r \in Requests :
       stored[r] \in Terminal /\ stored'[r] # stored[r]
       => \/ \E c \in Cancellers : target[c] = r
          \/ stored[r] = "failed" /\ phase[r] = "live" /\ copy[r] \notin Terminal]_recoveryVars

==============================================================================
