--------------------------- MODULE ExecutionEngine ---------------------------
(***************************************************************************)
(* SecureExecutionEngine (execution/secure_engine.ts): concurrent          *)
(* execute() and cancel() calls of one server over the execution,          *)
(* idempotency, budget and audit stores they share.                        *)
(*                                                                         *)
(* An action runs the code from one await to the next, the store operation *)
(* it ends in included, so steps of different calls interleave where the   *)
(* event loop lets them.  The record a call works on is its own copy:      *)
(* call[r].rec and cancels[c].copy; stored[r] is what the ExecutionStore   *)
(* holds.  makeExecutionId() is fresh, so a call of execute() and the      *)
(* execution it creates have one name, r.                                  *)
(***************************************************************************)
EXTENDS ExecutionStates, Integers

CONSTANTS
  Requests,     \* calls of execute()
  Cancellers,   \* calls of cancel()
  Keys,         \* idempotency scopes (tenant, principal, capability, key...)
  KeyOf,        \* the scope of each request, NoKey when it carries no key
  NoKey,
  NoReq,
  MaxAttempts,  \* attempts the retry policy allows (retries off: 1)
  SqlStore,     \* sqlite/postgres adapters, else the in-memory stores
  MaxFaults,    \* bound on store operations that reject
  MaxExpiries,  \* bound on idempotency entries that outlive their TTL
  MaxCrashes    \* bound on process crashes

ASSUME KeysAssumption ==
  /\ KeyOf \in [Requests -> Keys \cup {NoKey}]
  /\ NoKey \notin Keys
  /\ NoReq \notin Requests

ASSUME BoundsAssumption ==
  /\ MaxAttempts \in Nat
  /\ SqlStore \in BOOLEAN
  /\ MaxFaults \in Nat /\ MaxExpiries \in Nat /\ MaxCrashes \in Nat

VARIABLES
  call,      \* [Requests -> frame of execute(): where it awaits, its record...]
  stored,    \* [Requests -> state in the ExecutionStore, "none" if absent]
  signals,   \* [Requests -> cancelSignals entry and what aborted it]
  idem,      \* [Keys -> row of the IdempotencyStore]
  now,       \* [Keys -> number of TTL windows that ended so far]
  budgets,   \* [Requests -> the request's budget reservation]
  audit,     \* requests whose success the AuditStore holds
  runs,      \* [Requests -> how many times the handler was called]
  reply,     \* [Requests -> what execute() returned]
  cancels,   \* [Cancellers -> frame of cancel()]
  faults, expiries, crashes

bounds  == <<faults, expiries, crashes>>
stores  == <<stored, idem, now, budgets, audit>>
vars    == <<call, stored, signals, idem, now, budgets, audit, runs, reply,
             cancels, faults, expiries, crashes>>

------------------------------------------------------------------------------
(* Program points of execute(), by what a rejected await there does.       *)

\* Before the try block: the rejection leaves execute().
Unguarded == {"lookup", "reserve", "budget", "releaseKey", "create", "advance"}
\* Inside the try block: the rejection is caught.
Guarded   == {"start", "attempt", "resume", "handler", "backoff", "settle",
              "complete", "recordKey", "audit", "rejectOutput", "report"}
\* Inside the catch block: the rejection leaves execute().
Catching  == {"fail", "failSettle", "failKey"}

InFlight  == Unguarded \cup Guarded \cup Catching
Points    == {"idle", "done", "crashed"} \cup InFlight

NoWindow == -1
NoRow    == [state |-> "none", owner |-> NoReq, live |-> FALSE]
NoReply  == [status |-> "none", exec |-> NoReq]

Rows    == [state : {"none", "running", "completed", "failed"},
            owner : Requests \cup {NoReq}, live : BOOLEAN]
Frames  == [pc : Points, rec : States \cup {"none"}, attempt : Nat,
            failure : {"none", "transient", "permanent", "cancelled", "output", "store"},
            window : Int]
Replies == [status : {"none", "refused", "too_long", "accepted", "completed", "error", "rejected"},
            exec : Requests \cup {NoReq}]
CancelFrames == [at : {"idle", "loaded", "cancelling", "done"},
                 target : Requests \cup {NoReq}, copy : States \cup {"none"}]

\* Every variable keeps its type; in particular an idempotency row only ever
\* holds a state that the replies of step 8 know how to answer.
TypeOK ==
  /\ call \in [Requests -> Frames]
  /\ stored \in [Requests -> States \cup {"none"}]
  /\ signals \in [Requests -> {"none", "armed", "TIMEOUT", "CANCELLED"}]
  /\ idem \in [Keys -> Rows]
  /\ now \in [Keys -> Nat]
  /\ budgets \in [Requests -> {"none", "held", "settled"}]
  /\ audit \in SUBSET Requests
  /\ runs \in [Requests -> Nat]
  /\ reply \in [Requests -> Replies]
  /\ cancels \in [Cancellers -> CancelFrames]
  /\ faults \in Nat /\ expiries \in Nat /\ crashes \in Nat

Init ==
  /\ call = [r \in Requests |-> [pc |-> "idle", rec |-> "none", attempt |-> 0,
                                 failure |-> "none", window |-> NoWindow]]
  /\ stored = [r \in Requests |-> "none"]
  /\ signals = [r \in Requests |-> "none"]
  /\ idem = [k \in Keys |-> NoRow]
  /\ now = [k \in Keys |-> 0]
  /\ budgets = [r \in Requests |-> "none"]
  /\ audit = {}
  /\ runs = [r \in Requests |-> 0]
  /\ reply = [r \in Requests |-> NoReply]
  /\ cancels = [c \in Cancellers |-> [at |-> "idle", target |-> NoReq, copy |-> "none"]]
  /\ faults = 0 /\ expiries = 0 /\ crashes = 0

------------------------------------------------------------------------------
(* Steps shared by the actions.                                            *)

Keyed(r) == KeyOf[r] # NoKey

At(r, p) == call[r].pc = p

Goto(r, p) == call' = [call EXCEPT ![r].pc = p]

\* execute() returns, with an answer about execution x.
Answer(r, status, x) ==
  /\ Goto(r, "done")
  /\ reply' = [reply EXCEPT ![r] = [status |-> status, exec |-> x]]

\* transition(record, to): check the table, move the copy, save it whatever
\* the store holds.  The check never fails (it would block the call here, and
\* show up as a deadlock).
Transition(r, to, p) ==
  /\ CanTransition(call[r].rec, to)
  /\ call' = [call EXCEPT ![r].rec = to, ![r].pc = p]
  /\ stored' = [stored EXCEPT ![r] = to]

\* The row answers for its key: present and within its TTL.
Blocks(row) == row.state # "none" /\ row.live

\* update(scope, {state}): by key alone, whoever reserved the row.
Updated(row, state) == IF row.state = "none" THEN row ELSE [row EXCEPT !.state = state]

\* Mutant: only successes reach the idempotency store.
RecordSuccessOnly(r, state) ==
  idem' = IF Keyed(r) /\ state = "completed"
          THEN [idem EXCEPT ![KeyOf[r]] = Updated(@, state)] ELSE idem

RecordOutcome(r, state) ==
  idem' = IF Keyed(r) THEN [idem EXCEPT ![KeyOf[r]] = Updated(@, state)] ELSE idem

\* Mutant: any failure is retried.
RetryAnything(attempt, failure) == attempt < MaxAttempts

\* shouldRetry(): retries allow another attempt after this failure.
ShouldRetry(attempt, failure) == failure = "transient" /\ attempt < MaxAttempts

\* settle(): the reservation, if the request made one, is returned.
Settled(b) == IF b = "held" THEN "settled" ELSE b

------------------------------------------------------------------------------
(* execute(), steps 1 to 11: before the try block.                         *)

\* Steps 1 to 7 end the call: no credentials, unknown capability, authority or
\* policy against it, approval missing.  Nothing of this module changes.
Refuse(r) ==
  /\ At(r, "idle")
  /\ Answer(r, "refused", NoReq)
  /\ UNCHANGED <<stores, signals, runs, cancels, bounds>>

\* Steps 1 to 7 admit the request.
Admit(r) ==
  /\ At(r, "idle")
  /\ Goto(r, IF Keyed(r) THEN "lookup" ELSE "budget")
  /\ UNCHANGED <<stores, signals, runs, reply, cancels, bounds>>

\* Mutant: the failed row is answered as if it had completed.
EverythingCompleted(state) ==
  [running |-> "accepted", completed |-> "completed", failed |-> "completed"][state]

\* What step 8 answers for a row that is already there.
ReplayStatus(state) ==
  [running |-> "accepted", completed |-> "completed", failed |-> "error"][state]

\* Step 8, get(scope): a live row is answered from; the in-memory store drops
\* an expired one.
Lookup(r) ==
  /\ At(r, "lookup")
  /\ LET row == idem[KeyOf[r]] IN
       \/ /\ Blocks(row)
          /\ Answer(r, ReplayStatus(row.state), row.owner)
          /\ UNCHANGED idem
       \/ /\ ~Blocks(row)
          /\ Goto(r, "reserve")
          /\ idem' = IF SqlStore THEN idem ELSE [idem EXCEPT ![KeyOf[r]] = NoRow]
          /\ UNCHANGED reply
  /\ UNCHANGED <<stored, now, budgets, audit, signals, runs, cancels, bounds>>

\* Mutant: reserve() relies on the get() before it and inserts over the row.
ReserveUnchecked(r) ==
  /\ At(r, "reserve")
  /\ call' = [call EXCEPT ![r].pc = "budget", ![r].window = now[KeyOf[r]]]
  /\ idem' = [idem EXCEPT ![KeyOf[r]] = [state |-> "running", owner |-> r, live |-> TRUE]]
  /\ UNCHANGED <<stored, now, budgets, audit, signals, runs, reply, cancels, bounds>>

\* Step 8, reserve(scope, ...): atomic.  A SQL store still holding the expired
\* row can neither read nor insert it and throws.
Reserve(r) ==
  /\ At(r, "reserve")
  /\ LET row == idem[KeyOf[r]] IN
       \/ /\ Blocks(row)
          /\ Answer(r, "accepted", row.owner)
          /\ UNCHANGED idem
       \/ /\ ~Blocks(row) /\ SqlStore /\ row.state # "none"
          /\ Answer(r, "rejected", NoReq)
          /\ UNCHANGED idem
       \/ /\ ~Blocks(row) /\ (SqlStore => row.state = "none")
          /\ call' = [call EXCEPT ![r].pc = "budget", ![r].window = now[KeyOf[r]]]
          /\ idem' = [idem EXCEPT ![KeyOf[r]] =
                        [state |-> "running", owner |-> r, live |-> TRUE]]
          /\ UNCHANGED reply
  /\ UNCHANGED <<stored, now, budgets, audit, signals, runs, cancels, bounds>>

\* Step 9: the request's timeout exceeds the authority's max_duration_ms.
RefuseDuration(r) ==
  /\ At(r, "budget")
  /\ Answer(r, "too_long", NoReq)
  /\ UNCHANGED <<stores, signals, runs, cancels, bounds>>

\* Step 9: a request without a budget reserves none; a store may decline.
ReserveBudget(r) ==
  /\ At(r, "budget")
  /\ \/ Goto(r, "create") /\ UNCHANGED budgets
     \/ Goto(r, "create") /\ budgets' = [budgets EXCEPT ![r] = "held"]
     \/ Goto(r, "releaseKey") /\ UNCHANGED budgets
  /\ UNCHANGED <<stored, idem, now, audit, signals, runs, reply, cancels, bounds>>

\* Step 9: no budget, so the key's row becomes a failure.
ReleaseKey(r) ==
  /\ At(r, "releaseKey")
  /\ RecordOutcome(r, "failed")
  /\ Answer(r, "refused", NoReq)
  /\ UNCHANGED <<stored, now, budgets, audit, signals, runs, cancels, bounds>>

\* Step 10: the execution record is saved for the first time.
Create(r) ==
  /\ At(r, "create")
  /\ call' = [call EXCEPT ![r].rec = "created", ![r].pc = "advance"]
  /\ stored' = [stored EXCEPT ![r] = "created"]
  /\ UNCHANGED <<idem, now, budgets, audit, signals, runs, reply, cancels, bounds>>

\* Step 11: planned, authorized, queued, one save each.
Advance(r) ==
  /\ At(r, "advance")
  /\ \/ call[r].rec = "created" /\ Transition(r, "planned", "advance")
     \/ call[r].rec = "planned" /\ Transition(r, "authorized", "advance")
     \/ call[r].rec = "authorized" /\ Transition(r, "queued", "start")
  /\ UNCHANGED <<idem, now, budgets, audit, signals, runs, reply, cancels, bounds>>

------------------------------------------------------------------------------
(* execute(), steps 12 to 18: the try block, runWithRetry and withRetry.   *)

\* Control leaves the attempt with a failure: another attempt, or the catch.
AfterFailure(r, failure) ==
  call' = [call EXCEPT ![r].failure = failure,
             ![r].pc = IF ShouldRetry(call[r].attempt, failure) THEN "backoff" ELSE "fail"]

\* Step 12 and the head of runWithRetry: arm the signal, then run; or throw,
\* when there is no handler or the input does not match the contract.
Start(r) ==
  /\ At(r, "start")
  /\ signals' = [signals EXCEPT ![r] = "armed"]
  /\ \/ /\ CanTransition(call[r].rec, "running")
        /\ call' = [call EXCEPT ![r].rec = "running", ![r].pc = "attempt", ![r].attempt = 1]
        /\ stored' = [stored EXCEPT ![r] = "running"]
     \/ /\ call' = [call EXCEPT ![r].failure = "permanent", ![r].pc = "fail"]
        /\ UNCHANGED stored
  /\ UNCHANGED <<idem, now, budgets, audit, runs, reply, cancels, bounds>>

\* throwIfAborted(): a timeout counts as retryable, a cancellation does not.
Aborted(r) ==
  /\ At(r, "attempt")
  /\ signals[r] \in {"TIMEOUT", "CANCELLED"}
  /\ AfterFailure(r, IF signals[r] = "TIMEOUT" THEN "transient" ELSE "cancelled")
  /\ UNCHANGED <<stores, signals, runs, reply, cancels, bounds>>

CallHandler(r) == runs' = [runs EXCEPT ![r] = @ + 1]

\* An attempt that is not aborted: the first calls the handler at once, a later
\* one saves "retrying" before.
Attempt(r) ==
  /\ At(r, "attempt")
  /\ signals[r] = "armed"
  /\ \/ call[r].attempt = 1 /\ Goto(r, "handler") /\ CallHandler(r) /\ UNCHANGED stored
     \/ call[r].attempt > 1 /\ Transition(r, "retrying", "resume") /\ UNCHANGED runs
  /\ UNCHANGED <<idem, now, budgets, audit, signals, reply, cancels, bounds>>

\* Back to "running", then the handler, whatever happened to the signal.
Resume(r) ==
  /\ At(r, "resume")
  /\ Transition(r, "running", "handler")
  /\ CallHandler(r)
  /\ UNCHANGED <<idem, now, budgets, audit, signals, reply, cancels, bounds>>

\* The handler's promise settles: valid output, invalid output, or an error
\* that the retry policy lists or not.
HandlerReturns(r) ==
  /\ At(r, "handler")
  /\ \/ Goto(r, "settle")
     \/ call' = [call EXCEPT ![r].pc = "rejectOutput", ![r].failure = "output"]
     \/ AfterFailure(r, "transient")
     \/ AfterFailure(r, "permanent")
  /\ UNCHANGED <<stores, signals, runs, reply, cancels, bounds>>

\* Mutant: the attempt counter is never advanced.
BackoffForever(r) ==
  /\ At(r, "backoff")
  /\ Goto(r, "attempt")
  /\ UNCHANGED <<stores, signals, runs, reply, cancels, bounds>>

\* withRetry: the delay before the next attempt is over.
Backoff(r) ==
  /\ At(r, "backoff")
  /\ call' = [call EXCEPT ![r].pc = "attempt", ![r].attempt = @ + 1]
  /\ UNCHANGED <<stores, signals, runs, reply, cancels, bounds>>

\* Step 14: the output fails validation; fail(record) and return, leaving the
\* budget, the idempotency row and the signal as they are.
RejectOutput(r) ==
  /\ At(r, "rejectOutput")
  /\ Transition(r, "failed", "report")
  /\ UNCHANGED <<idem, now, budgets, audit, signals, runs, reply, cancels, bounds>>

Report(r) ==
  /\ At(r, "report")
  /\ Answer(r, "error", r)
  /\ UNCHANGED <<stores, signals, runs, cancels, bounds>>

\* Step 15: consume and settle the reservation.
Settle(r) ==
  /\ At(r, "settle")
  /\ budgets' = [budgets EXCEPT ![r] = Settled(@)]
  /\ Goto(r, "complete")
  /\ UNCHANGED <<stored, idem, now, audit, signals, runs, reply, cancels, bounds>>

\* Step 16: the record is completed.
Complete(r) ==
  /\ At(r, "complete")
  /\ Transition(r, "completed", "recordKey")
  /\ UNCHANGED <<idem, now, budgets, audit, signals, runs, reply, cancels, bounds>>

\* Mutant: the call answers before the audit entry is written.
RecordKeyAndAnswer(r) ==
  /\ At(r, "recordKey")
  /\ RecordOutcome(r, "completed")
  /\ Answer(r, "completed", r)
  /\ UNCHANGED <<stored, now, budgets, audit, signals, runs, cancels, bounds>>

\* Step 16: and so is the key's row.
RecordKey(r) ==
  /\ At(r, "recordKey")
  /\ RecordOutcome(r, "completed")
  /\ Goto(r, "audit")
  /\ UNCHANGED <<stored, now, budgets, audit, signals, runs, reply, cancels, bounds>>

\* Steps 17 and 18: receipt, audit entry; the signal goes and the call answers.
Audit(r) ==
  /\ At(r, "audit")
  /\ audit' = audit \cup {r}
  /\ signals' = [signals EXCEPT ![r] = "none"]
  /\ Answer(r, "completed", r)
  /\ UNCHANGED <<stored, idem, now, budgets, runs, cancels, bounds>>

------------------------------------------------------------------------------
(* execute(): the catch block.                                             *)

\* Mutant: fail() without canTransition().
AlwaysFail(rec) == TRUE

\* fail(record): only if the table still allows it.
MayFail(rec) == CanTransition(rec, "failed")

Fail(r) ==
  /\ At(r, "fail")
  /\ \/ /\ MayFail(call[r].rec)
        /\ call' = [call EXCEPT ![r].rec = "failed", ![r].pc = "failSettle"]
        /\ stored' = [stored EXCEPT ![r] = "failed"]
     \/ ~MayFail(call[r].rec) /\ Goto(r, "failSettle") /\ UNCHANGED stored
  /\ UNCHANGED <<idem, now, budgets, audit, signals, runs, reply, cancels, bounds>>

\* Mutant: the catch block forgets the reservation.
FailWithoutSettle(r) ==
  /\ At(r, "failSettle")
  /\ Goto(r, "failKey")
  /\ UNCHANGED <<stores, signals, runs, reply, cancels, bounds>>

FailSettle(r) ==
  /\ At(r, "failSettle")
  /\ budgets' = [budgets EXCEPT ![r] = Settled(@)]
  /\ Goto(r, "failKey")
  /\ UNCHANGED <<stored, idem, now, audit, signals, runs, reply, cancels, bounds>>

FailKey(r) ==
  /\ At(r, "failKey")
  /\ RecordOutcome(r, "failed")
  /\ signals' = [signals EXCEPT ![r] = "none"]
  /\ Answer(r, "error", r)
  /\ UNCHANGED <<stored, now, budgets, audit, runs, cancels, bounds>>

------------------------------------------------------------------------------
(* cancel().                                                               *)

\* load(executionId): a copy of what is stored; absent, the call throws.
CancelLoad(c, r) ==
  /\ cancels[c].at = "idle"
  /\ cancels' = [cancels EXCEPT ![c] =
       [at |-> IF stored[r] = "none" THEN "done" ELSE "loaded",
        target |-> r, copy |-> stored[r]]]
  /\ UNCHANGED <<call, stores, signals, runs, reply, bounds>>

\* The copy is terminal and is returned; or the caller is not the owner.
CancelStop(c) ==
  /\ cancels[c].at = "loaded"
  /\ \/ cancels[c].copy \in Terminal
        /\ cancels' = [cancels EXCEPT ![c].at = "done"]
     \/ cancels[c].copy \notin Terminal
        /\ cancels' = [cancels EXCEPT ![c].at = "done", ![c].copy = "none"]
  /\ UNCHANGED <<call, stores, signals, runs, reply, bounds>>

\* Abort the signal if there is one, then save "cancelling" if the copy may go
\* there.  The wait that follows ends at once, the signal being aborted; a copy
\* that cannot be "cancelling" is saved "cancelled" in the same step.
CancelBegin(c) ==
  LET r == cancels[c].target
      to == IF CanTransition(cancels[c].copy, "cancelling") THEN "cancelling" ELSE "cancelled"
  IN /\ cancels[c].at = "loaded"
     /\ cancels[c].copy \notin Terminal
     /\ signals' = [signals EXCEPT ![r] = IF @ = "armed" THEN "CANCELLED" ELSE @]
     /\ stored' = [stored EXCEPT ![r] = to]
     /\ cancels' = [cancels EXCEPT ![c].copy = to,
                      ![c].at = IF to = "cancelling" THEN "cancelling" ELSE "done"]
     /\ UNCHANGED <<call, idem, now, budgets, audit, runs, reply, bounds>>

CancelFinish(c) ==
  /\ cancels[c].at = "cancelling"
  /\ stored' = [stored EXCEPT ![cancels[c].target] = "cancelled"]
  /\ cancels' = [cancels EXCEPT ![c].copy = "cancelled", ![c].at = "done"]
  /\ UNCHANGED <<call, idem, now, budgets, audit, signals, runs, reply, bounds>>

------------------------------------------------------------------------------
(* The environment: timers, the clock, store faults, crashes.              *)

\* The signal's deadline timer.
Timeout(r) ==
  /\ signals[r] = "armed"
  /\ signals' = [signals EXCEPT ![r] = "TIMEOUT"]
  /\ UNCHANGED <<call, stores, runs, reply, cancels, bounds>>

\* The row's TTL ends; the row itself stays until something drops it.
Expire(k) ==
  /\ expiries < MaxExpiries
  /\ Blocks(idem[k])
  /\ idem' = [idem EXCEPT ![k].live = FALSE]
  /\ now' = [now EXCEPT ![k] = @ + 1]
  /\ expiries' = expiries + 1
  /\ UNCHANGED <<call, stored, signals, budgets, audit, runs, reply, cancels, faults, crashes>>

\* gc() of the idempotency store.
Gc(k) ==
  /\ idem[k].state # "none" /\ ~idem[k].live
  /\ idem' = [idem EXCEPT ![k] = NoRow]
  /\ UNCHANGED <<call, stored, signals, now, budgets, audit, runs, reply, cancels, bounds>>

\* States the copy may be in when a store or event operation of the try block
\* rejects: transition() moves the copy before it saves it.
CopyAtFault(r) ==
  CASE At(r, "start") -> {"running"}
    [] At(r, "attempt") /\ call[r].attempt > 1 -> {"retrying"}
    [] At(r, "resume") -> {"retrying", "running"}
    [] At(r, "complete") -> {"completed"}
    [] At(r, "rejectOutput") -> {"failed"}
    [] OTHER -> {call[r].rec}

\* Points with no store or event operation for this request.
Quiet(r) ==
  \/ call[r].pc \in {"handler", "backoff"}
  \/ call[r].pc \in {"releaseKey", "failKey"} /\ ~Keyed(r)
  \/ At(r, "settle") /\ budgets[r] # "held"
  \/ At(r, "attempt") /\ call[r].attempt > 1 /\ signals[r] # "armed"

\* A store or event operation of execute() rejects.
StoreFault(r) ==
  /\ faults < MaxFaults
  /\ ~Quiet(r)
  /\ faults' = faults + 1
  /\ \/ /\ call[r].pc \in Unguarded \cup Catching
        /\ Answer(r, "rejected", r)
        /\ UNCHANGED signals
     \/ /\ call[r].pc \in Guarded
        /\ \E s \in CopyAtFault(r) :
             call' = [call EXCEPT ![r].rec = s, ![r].pc = "fail", ![r].failure = "store"]
        /\ signals' = [signals EXCEPT ![r] = IF At(r, "start") THEN "armed" ELSE @]
        /\ UNCHANGED reply
  /\ UNCHANGED <<stores, runs, cancels, expiries, crashes>>

\* A store or event operation of cancel() rejects, and cancel() with it.
CancelFault(c) ==
  /\ faults < MaxFaults
  /\ faults' = faults + 1
  /\ cancels[c].at \in {"loaded", "cancelling"}
  /\ cancels' = [cancels EXCEPT ![c].at = "done", ![c].copy = "none"]
  /\ UNCHANGED <<call, stores, signals, runs, reply, expiries, crashes>>

\* The process dies: every call in flight is gone with its copies and signals.
Crash ==
  /\ SqlStore
  /\ crashes < MaxCrashes
  /\ crashes' = crashes + 1
  /\ call' = [r \in Requests |-> IF call[r].pc \in InFlight
                                 THEN [call[r] EXCEPT !.pc = "crashed"] ELSE call[r]]
  /\ signals' = [r \in Requests |-> "none"]
  /\ cancels' = [c \in Cancellers |-> IF cancels[c].at \in {"loaded", "cancelling"}
                                      THEN [cancels[c] EXCEPT !.at = "done", !.copy = "none"]
                                      ELSE cancels[c]]
  /\ UNCHANGED <<stores, runs, reply, faults, expiries>>

\* Every call has ended: nothing is left to do.
Terminating ==
  /\ \A r \in Requests : call[r].pc \in {"done", "crashed"}
  /\ \A c \in Cancellers : cancels[c].at = "done"
  /\ UNCHANGED vars

------------------------------------------------------------------------------

\* What the runtime does by itself once execute(r) was called.
EngineStep(r) ==
  \/ Lookup(r) \/ Reserve(r) \/ RefuseDuration(r) \/ ReserveBudget(r) \/ ReleaseKey(r)
  \/ Create(r) \/ Advance(r) \/ Start(r) \/ Aborted(r) \/ Attempt(r) \/ Resume(r)
  \/ Backoff(r) \/ RejectOutput(r) \/ Report(r) \/ Settle(r) \/ Complete(r)
  \/ RecordKey(r) \/ Audit(r) \/ Fail(r) \/ FailSettle(r) \/ FailKey(r)

CancelStep(c) == CancelStop(c) \/ CancelBegin(c) \/ CancelFinish(c)

Next ==
  \/ \E r \in Requests : \/ Refuse(r) \/ Admit(r) \/ EngineStep(r) \/ HandlerReturns(r)
                         \/ Timeout(r) \/ StoreFault(r)
  \/ \E c \in Cancellers : \/ \E r \in Requests : CancelLoad(c, r)
                           \/ CancelStep(c) \/ CancelFault(c)
  \/ \E k \in Keys : Expire(k) \/ Gc(k)
  \/ Crash
  \/ Terminating

Spec == Init /\ [][Next]_vars

\* The event loop runs what is ready, timers included.
RuntimeFairness ==
  /\ \A r \in Requests : WF_vars(EngineStep(r)) /\ WF_vars(Timeout(r))
  /\ \A c \in Cancellers : WF_vars(CancelStep(c))

\* Handlers are the provider's code, which nothing makes settle: that they do is an
\* assumption of its own.
FairSpec == Spec /\ RuntimeFairness /\ \A r \in Requests : WF_vars(HandlerReturns(r))

------------------------------------------------------------------------------
(* Properties.                                                             *)

\* No other call ever reserved r's key.
SoleHolder(r) ==
  \A x \in Requests \ {r} : KeyOf[x] = KeyOf[r] => call[x].window = NoWindow

\* r reserved its key, and the TTL window it reserved it in has not ended.
InWindow(r) == Keyed(r) /\ call[r].window = now[KeyOf[r]]

\* Step 8, "atomic idempotency reserve": of the requests that carry one key, at
\* most one per TTL window gets as far as calling the handler, whatever fails,
\* times out, is cancelled or crashes in between.
AtMostOncePerWindow ==
  \A r1, r2 \in Requests :
    /\ r1 # r2 /\ Keyed(r1) /\ KeyOf[r1] = KeyOf[r2]
    /\ runs[r1] > 0 /\ runs[r2] > 0
    => call[r1].window # call[r2].window

\* Steps 9, 15 and the catch block: a call that ended gave its budget back, save
\* on two paths: the handler's output was rejected (step 14 returns without
\* settling) or a store operation outside the try block failed.
BudgetReturned ==
  \A r \in Requests :
    At(r, "done") /\ budgets[r] = "held"
    => call[r].failure = "output" \/ reply[r].status = "rejected"

\* Steps 9, 16 and the catch block: a call that ended leaves no "running" row
\* under its key, which would make every retry "accepted" until the TTL, save
\* on three paths: rejected output, a failing store, a refused duration.  (A
\* refused budget gives the key back.)
KeyResolved ==
  \A r \in Requests :
    At(r, "done") /\ InWindow(r) /\ idem[KeyOf[r]].state = "running"
    => call[r].failure = "output" \/ reply[r].status \in {"rejected", "too_long"}

\* A success is answered after everything it stands for: the handler ran, the
\* budget is settled, the record and the key's row say completed, and the audit
\* store holds the entry.  (The row only while r alone has held the key: the
\* late update of an earlier window's holder would overwrite it.)
SuccessIsBacked ==
  \A r \in Requests :
    reply[r] = [status |-> "completed", exec |-> r]
    => /\ runs[r] > 0 /\ r \in audit
       /\ budgets[r] # "held"
       /\ call[r].rec = "completed"
       /\ InWindow(r) /\ SoleHolder(r) => idem[KeyOf[r]] = [state |-> "completed", owner |-> r, live |-> TRUE]

\* execute() alone respects the table in the store too: a stored terminal state
\* changes only if some cancel() was called on the execution (both save their
\* own copy of the record unconditionally).
OnlyCancelDisturbs ==
  [][\A r \in Requests :
       stored[r] \in Terminal /\ stored'[r] # stored[r]
       => \E c \in Cancellers : cancels[c].target = r]_vars

\* withRetry: a handler is called once per attempt, again only after a failure
\* the policy lists, within max_attempts, and never for a call that answered.
RetryDiscipline ==
  [][\A r \in Requests :
       runs'[r] # runs[r]
       => /\ runs'[r] = call[r].attempt
          /\ call[r].attempt = 1 \/ (call[r].failure = "transient" /\ call[r].attempt <= MaxAttempts)
          /\ reply[r] = NoReply]_vars

\* 008-idempotency section 4: an answer taken from another execution's row says
\* of it what is true: completed only of one whose handler's output was
\* accepted, failed only of one that failed or lost its audit entry.  (Within
\* one TTL window: see README for what an expiry does to it.)
ReplayIsTrue ==
  \A r \in Requests :
    LET x == reply[r].exec
    IN x \in Requests \ {r} =>
         /\ reply[r].status = "completed" => call[x].rec = "completed" /\ runs[x] > 0
         /\ reply[r].status = "error" => reply[x].status # "completed"
         /\ runs[r] = 0

\* Every call of execute() is answered, unless the process dies: no step of the
\* pipeline waits for another call.
EveryCallAnswered ==
  \A r \in Requests : call[r].pc # "idle" ~> call[r].pc \in {"done", "crashed"}

\* The engine seen as KeyedCalls: the holder of a key is the owner of the row
\* that answers for it.
Calls == INSTANCE KeyedCalls WITH
  holder   <- [k \in Keys |-> IF Blocks(idem[k]) THEN idem[k].owner ELSE NoReq],
  admitted <- {r \in Requests : call[r].window # NoWindow},
  begun    <- {r \in Requests : runs[r] > 0},
  told     <- [r \in Requests |->
                 IF reply[r] = NoReply THEN NoReq
                 ELSE IF reply[r].exec = NoReq THEN r ELSE reply[r].exec]

\* Step 8 implements KeyedCalls: at most one call of a key per window runs the
\* handler, every other is told its execution and never runs.
ImplementsKeyedCalls == Calls!Spec

\* The engine seen as ExecutionRecords: the record of a call and its row.
Records == INSTANCE ExecutionRecords WITH
  phase  <- [r \in Requests |-> IF call[r].pc \in InFlight THEN "live"
                                ELSE IF call[r].pc = "done" THEN "over" ELSE call[r].pc],
  copy   <- [r \in Requests |-> call[r].rec],
  target <- [c \in Cancellers |-> cancels[c].target],
  open   <- {c \in Cancellers : cancels[c].at \in {"loaded", "cancelling"}}

\* Every save of execute() follows the table from the call's own copy, fail()
\* and the failing paths included, and cancel() saves only cancelling and
\* cancelled: the engine implements ExecutionRecords.
ImplementsRecords == Records!Spec

------------------------------------------------------------------------------
(* What the documents say and the code does not do.                        *)

\* spec/core/004-execution.md section 4: a terminal execution has no transitions.
TerminalIsFinal ==
  [][\A r \in Requests : stored[r] \in Terminal => stored'[r] = stored[r]]_vars

\* "NOT cancelled - wait for handler", "Wait briefly for handler to acknowledge"
\* (cancel()): one that has aborted the signal of the call and saved "cancelling"
\* saves and answers "cancelled" only when the handler has stopped.
CancelledMeansStopped ==
  [][\A c \in Cancellers :
       LET r == cancels[c].target
       IN cancels[c].at = "cancelling" /\ cancels'[c].copy = "cancelled" /\ signals[r] = "CANCELLED"
          => ~At(r, "handler")]_vars

==============================================================================
