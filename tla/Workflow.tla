------------------------------- MODULE Workflow -------------------------------
(***************************************************************************)
(* One run of a workflow: WorkflowEngine.run() (workflow/engine.ts), called *)
(* directly or by execute() of the artifact engine, which validates the    *)
(* workflow and leaves its approval nodes out.                             *)
(*                                                                         *)
(* External: the runner.  A call of it answers a result, answers an error, *)
(* retryable or not, or rejects.                                           *)
(***************************************************************************)
EXTENDS WorkflowPlan

CONSTANTS
  Specs,       \* workflows, of SpecType
  NoLimit      \* budget.max_calls is not set

OnFailure == {"fail", "skip", "compensate", "retry"}

\* A workflow.  deps: depends_on; undo: the nodes with a compensation; approvals:
\* those of kind approval; conditional: those with a condition; attempts: retry_max
\* + 1, the same for all nodes; maxCalls: budget.max_calls.
SpecType ==
  [deps : Dependencies, onFailure : [Nodes -> OnFailure], undo : SUBSET Nodes,
   approvals : SUBSET Nodes, conditional : SUBSET Nodes, attempts : Nat \ {0},
   maxCalls : Nat \cup {NoLimit}]

ASSUME SpecsAssumption == NoLimit \notin Nat /\ \A w \in Specs : w \in SpecType

VARIABLES
  spec,       \* the workflow
  entry,      \* "execute" or "run": how it was started
  at,         \* "idle", "next", "call", "compensate", "done"
  todo,       \* nodes of the plan that are still to come
  attempt,    \* of the node in hand
  result,     \* [Nodes -> state of its WorkflowStepResult, "none" if absent]
  executed,   \* executedOrder
  undoing,    \* executed nodes that compensation has still to look at
  undone,     \* compensationRuns
  calls,      \* budget_used.calls
  cancelled,  \* ctx.cancelled
  outcome,    \* "none"; the state returned; "invalid" or "threw" before the start
  \* history
  began,      \* [Nodes -> how often its capability was called]
  tried       \* nodes whose compensation was called

progress == <<at, todo, attempt>>
vars == <<spec, entry, progress, result, executed, undoing, undone, calls, cancelled,
          outcome, began, tried>>

TypeOK ==
  /\ spec \in SpecType
  /\ entry \in {"none", "execute", "run"}
  /\ at \in {"idle", "next", "call", "compensate", "done"}
  /\ todo \in Seq(Nodes) /\ (at = "call" => todo # <<>>)
  /\ attempt \in 1..spec.attempts
  /\ result \in [Nodes -> {"none", "completed", "failed", "skipped", "compensated"}]
  /\ executed \in Seq(Nodes)
  /\ undoing \in Seq(Nodes) /\ undone \in Seq(spec.undo)
  /\ calls \in Nat
  /\ cancelled \in BOOLEAN
  /\ outcome \in {"none", "completed", "failed", "cancelled", "invalid", "threw"}
  /\ began \in [Nodes -> Nat] /\ tried \subseteq spec.undo

Init ==
  /\ spec \in Specs
  /\ entry = "none" /\ at = "idle" /\ todo = <<>> /\ attempt = 1
  /\ result = [n \in Nodes |-> "none"] /\ executed = <<>>
  /\ undoing = <<>> /\ undone = <<>>
  /\ calls = 0 /\ cancelled = FALSE /\ outcome = "none"
  /\ began = [n \in Nodes |-> 0] /\ tried = {}

------------------------------------------------------------------------------
(* The start.                                                              *)

\* The nodes that are run; only the artifact engine knows approval nodes.
StepsOf(w) == Filter(NodeList, Nodes \ w.approvals)
Steps == StepsOf(spec)
Plan == TopologicalSort(Steps, spec.deps)

End(how) == at' = "done" /\ outcome' = how

started == <<result, executed, undoing, undone, calls, cancelled, began, tried>>

\* execute() answers an invalid workflow with an error; what is wrong with it need
\* not be its graph: a name, a capability, a reason or an authority may be missing.
Reject ==
  /\ at = "idle"
  /\ entry' = "execute" /\ End("invalid")
  /\ UNCHANGED <<spec, todo, attempt, started>>

\* run() throws when it meets a cycle; a cycle through an approval node would
\* have been invalid.
Throw ==
  /\ at = "idle" /\ spec.approvals = {}
  /\ Plan.cycle
  /\ entry' = "run" /\ End("threw")
  /\ UNCHANGED <<spec, todo, attempt, started>>

Start ==
  /\ at = "idle" /\ ~Plan.cycle
  /\ entry' \in (IF Valid(spec.deps) THEN {"execute"} ELSE {})
                \cup (IF spec.approvals = {} THEN {"run"} ELSE {})
  /\ at' = "next" /\ todo' = Plan.sorted
  /\ UNCHANGED <<spec, attempt, outcome, started>>

------------------------------------------------------------------------------
(* The loop over the plan.                                                 *)

Node == Head(todo)
Ready == at = "next" /\ todo # <<>> /\ ~cancelled

\* Mutant: the last call may be one too many.
BudgetPassed == spec.maxCalls # NoLimit /\ calls > spec.maxCalls

BudgetSpent == spec.maxCalls # NoLimit /\ calls >= spec.maxCalls

\* Before a node, not before a retry of it.
RefuseBudget ==
  /\ Ready /\ BudgetSpent
  /\ End("failed")
  /\ UNCHANGED <<spec, entry, todo, attempt, started>>

\* A dependency that was skipped counts as done.
DependenciesOk(n) ==
  \A d \in Range(spec.deps[n]) : d \in Nodes /\ result[d] \in {"completed", "skipped"}

\* Called directly, run() takes the condition and the input of a node as functions
\* of the context: they may set ctx.cancelled, at once or while the node runs.
MayCancel == cancelled' \in {FALSE, entry = "run"}

Skip ==
  /\ Ready /\ ~BudgetSpent
  /\ \/ ~DependenciesOk(Node) /\ UNCHANGED cancelled
     \/ DependenciesOk(Node) /\ Node \in spec.conditional /\ MayCancel
  /\ result' = [result EXCEPT ![Node] = "skipped"]
  /\ todo' = Tail(todo)
  /\ UNCHANGED <<spec, entry, at, attempt, executed, undoing, undone, calls, outcome,
                 began, tried>>

Begin ==
  /\ Ready /\ ~BudgetSpent
  /\ DependenciesOk(Node)
  /\ MayCancel
  /\ at' = "call" /\ attempt' = 1
  /\ began' = [began EXCEPT ![Node] = @ + 1]
  /\ UNCHANGED <<spec, entry, todo, result, executed, undoing, undone, calls, outcome, tried>>

\* They may also throw, which rejects run() as it is.
Abort ==
  /\ Ready /\ ~BudgetSpent
  /\ DependenciesOk(Node)
  /\ entry = "run" /\ End("threw")
  /\ UNCHANGED <<spec, entry, todo, attempt, started>>

\* The loop ends, or is broken off.
Finish ==
  /\ at = "next" /\ (todo = <<>> \/ cancelled)
  /\ End(IF cancelled THEN "cancelled" ELSE "completed")
  /\ UNCHANGED <<spec, entry, todo, attempt, started>>

------------------------------------------------------------------------------
(* runWithRetry() and what run() makes of its result.                      *)

\* A call that rejects is not counted.
Counted == calls' \in {calls, calls + 1}

CallSucceeds ==
  /\ at = "call"
  /\ calls' = calls + 1
  /\ result' = [result EXCEPT ![Node] = "completed"]
  /\ executed' = Append(executed, Node)
  /\ at' = "next" /\ todo' = Tail(todo) /\ attempt' = 1
  /\ UNCHANGED <<spec, entry, undoing, undone, cancelled, outcome, began, tried>>

MayRetry == attempt < spec.attempts

\* A retryable error or a rejection, with attempts left: called again after the
\* backoff, under a new idempotency key.
CallRetried ==
  /\ at = "call" /\ MayRetry
  /\ Counted
  /\ attempt' = attempt + 1
  /\ began' = [began EXCEPT ![Node] = @ + 1]
  /\ UNCHANGED <<spec, entry, at, todo, result, executed, undoing, undone, cancelled,
                 outcome, tried>>

\* Mutant: compensation runs in the order of execution.
ForwardUndo(done) == done

\* runCompensation(): the executed nodes in reverse; the failed node is among them.
UndoOrder(done) == Reverse(done)

\* on_failure under which the loop goes on.
PassedOver == {"skip", "retry"}

\* An error that is not retryable, or the last attempt; a rejection is retried
\* whatever it is.
CallFails ==
  /\ at = "call"
  /\ calls' \in {calls + 1} \cup (IF MayRetry THEN {} ELSE {calls})
  /\ result' = [result EXCEPT ![Node] = "failed"]
  /\ executed' = Append(executed, Node)
  /\ todo' = Tail(todo) /\ attempt' = 1
  /\ \/ /\ spec.onFailure[Node] = "fail"
        /\ End("failed") /\ UNCHANGED undoing
     \/ /\ spec.onFailure[Node] = "compensate"
        /\ at' = "compensate" /\ undoing' = UndoOrder(executed')
        /\ UNCHANGED outcome
     \/ /\ spec.onFailure[Node] \in PassedOver
        /\ at' = "next" /\ UNCHANGED <<outcome, undoing>>
  /\ UNCHANGED <<spec, entry, undone, cancelled, began, tried>>

------------------------------------------------------------------------------
(* Compensation.                                                           *)

compensating == <<spec, entry, todo, attempt, executed, calls, cancelled, began>>

\* The node in hand, and whether it has a compensation.
Undo == Head(undoing)
Undoable == at = "compensate" /\ undoing # <<>> /\ Undo \in spec.undo

NothingToUndo ==
  /\ at = "compensate" /\ undoing # <<>> /\ Undo \notin spec.undo
  /\ undoing' = Tail(undoing)
  /\ UNCHANGED <<compensating, at, outcome, result, undone, tried>>

\* The runner's answer is not looked at: an error in it is a success.
Compensate ==
  /\ Undoable
  /\ undone' = Append(undone, Undo)
  /\ result' = [result EXCEPT ![Undo] = "compensated"]
  /\ tried' = tried \cup {Undo}
  /\ undoing' = Tail(undoing)
  /\ UNCHANGED <<compensating, at, outcome>>

\* Mutant: the first compensation that rejects ends them all.
GiveUp == <<>>

StillToUndo == Tail(undoing)

\* A compensation that rejects is passed over.
CompensateFails ==
  /\ Undoable
  /\ tried' = tried \cup {Undo}
  /\ undoing' = StillToUndo
  /\ UNCHANGED <<compensating, at, outcome, result, undone>>

CompensateEnd ==
  /\ at = "compensate" /\ undoing = <<>>
  /\ End("failed")
  /\ UNCHANGED <<spec, entry, todo, attempt, started>>

Terminating == at = "done" /\ UNCHANGED vars

------------------------------------------------------------------------------

Next ==
  \/ Reject \/ Throw \/ Start
  \/ RefuseBudget \/ Skip \/ Begin \/ Abort \/ Finish
  \/ CallSucceeds \/ CallRetried \/ CallFails
  \/ NothingToUndo \/ Compensate \/ CompensateFails \/ CompensateEnd
  \/ Terminating

Spec == Init /\ [][Next]_vars

------------------------------------------------------------------------------
(* Properties.                                                             *)

\* What is run is every node once, after what it depends on, if there is no cycle,
\* and plan() groups a valid workflow so that no node waits longer than it must.
PlanSound ==
  at = "idle" =>
    /\ Plan.cycle = HasCycle(Range(Steps), spec.deps)
    /\ ~Plan.cycle => /\ Plan.sorted \in Seq(Nodes)
                      /\ IsTopological(Plan.sorted, Range(Steps), spec.deps)
    /\ Valid(spec.deps) =>
         LET plan == ExecutionPlan(spec.deps) IN
         /\ IsTopological(plan.order, Nodes, spec.deps)
         /\ IsLayered(plan.groups, Nodes, spec.deps)

Done(n) == n \in Nodes /\ result[n] \in {"completed", "skipped", "compensated"}

\* A node is run only when all it depends on is done, so never right behind an
\* approval node, and is skipped only for its condition or for a dependency that
\* failed or is no node of this run.
AfterDependencies ==
  \A n \in Nodes :
    /\ began[n] > 0 => \A d \in Range(spec.deps[n]) : Done(d)
    /\ result[n] = "skipped" =>
         \/ n \in spec.conditional
         \/ \E d \in Range(spec.deps[n]) :
              \/ d \notin Range(Steps)
              \/ result[d] \in {"failed", "compensated"}

\* A node that has a result is not called again, and none more often than its
\* attempts allow.
RunsOnce ==
  [][\A n \in Nodes : began'[n] # began[n] =>
        result[n] = "none" /\ began'[n] <= spec.attempts]_vars

\* Nothing is undone before what was built on it, nor twice.
UndoneBeforeDependencies ==
  /\ IsInjective(undone)
  /\ \A i, j \in DOMAIN undone : undone[i] \in Range(spec.deps[undone[j]]) => j < i

\* The run ended in a failure that is to be compensated.
Compensated ==
  /\ executed # <<>> /\ spec.onFailure[Last(executed)] = "compensate"
  /\ result[Last(executed)] \in {"failed", "compensated"}

\* A saga is whole: after a failure that is to be compensated the compensation of
\* every node that ran is called, even if some reject, and otherwise none is; those
\* that did not reject, and no others, are reported.
SagaIsComplete ==
  /\ at = "done" => tried = IF Compensated THEN Range(executed) \cap spec.undo ELSE {}
  /\ Range(undone) = {n \in Nodes : result[n] = "compensated"}
  /\ Range(undone) \subseteq tried

\* max_calls is looked at before a node, not before a retry of it: a run exceeds
\* it by the retries of one node at most.
CallsBounded ==
  spec.maxCalls # NoLimit =>
    calls <= IF spec.maxCalls = 0 THEN 0 ELSE spec.maxCalls - 1 + spec.attempts

\* "completed" is said of a run whose nodes all have a result, whose failures were
\* to be passed over and of which nothing was undone; "failed" of one that met its
\* budget or a failure that is not passed over, with the nodes after it untouched;
\* "cancelled" only of one that was.
OutcomeIsTrue ==
  /\ outcome = "completed" =>
       /\ \A n \in Range(Steps) :
            \/ result[n] \in {"completed", "skipped"}
            \/ result[n] = "failed" /\ spec.onFailure[n] \in {"skip", "retry"}
       /\ tried = {}
  /\ outcome = "failed" =>
       \/ BudgetSpent /\ todo # <<>> /\ tried = {}
       \/ /\ \/ Compensated
             \/ /\ executed # <<>> /\ result[Last(executed)] = "failed"
                /\ spec.onFailure[Last(executed)] = "fail"
          /\ \A n \in Range(todo) : began[n] = 0 /\ result[n] = "none"
  /\ outcome = "cancelled" => cancelled /\ entry = "run"

\* What a run did and what it says of it agree.
EndIsTrue == SagaIsComplete /\ OutcomeIsTrue

==============================================================================
