# AEP: a verification project

TLA+ models of the AEP reference runtime (`sdk/typescript/src`, written `T/`
below), the TLC runs that check them and the theorems about them that TLAPS
proves.  Every definition is translated from the TypeScript; the Python and
Rust packages hold only the same state table, types and encodings.

## 1. The system

AEP is a protocol by which agents ask a runtime to execute capabilities.  One
runtime process serves many requests on one event loop; state that must survive
it lives in stores (in memory, SQLite or PostgreSQL).

| Component | State it keeps | Operations | Talks to | What makes it hard |
|---|---|---|---|---|
| Secure execution engine `T/execution/secure_engine.ts` | a local record per call, `cancelSignals` | `execute`, `cancel` | every store, registry, authority, policy, approval, events | some twenty awaits per call between which other calls run; unconditional saves; six exits |
| State machine `T/execution/state-machine.ts` | none | `canTransition`, `isTerminal` | engine, recovery | must stay one table in three languages |
| Retry, signal `T/execution/retry.ts`, `signal.ts` | attempt counter; abort flag and timer | `withRetry`; `abort`, `throwIfAborted`, `dispose` | engine, handler | timeout against completion against cancel |
| Stores `T/persistence` | executions, idempotency rows, budgets, authorities, events, audit chain | save/load/transition, reserve/get/update/gc, reserve/settle, append/verify | engine, recovery | atomicity of each call, none across calls; TTL; adapters that differ |
| Recovery `T/recovery/engine.ts` | none | `recover`, `reconstructState` | execution, event, audit, idempotency stores | runs beside live calls, on stale lists |
| Approval `T/approval/service.ts` | requests, index by execution, used nonces | `request`, `submit`, `cancel`, `gc` | engine step 7 | expiry, one decision only, replay, quorum |
| Authority `T/authority/engine.ts` | authorities, children | `issue`, `deriveTo`, `authorize`, `revoke` | engine steps 3 and 4, authority store | delegation must never widen; revocation must reach descendants |
| Policy, risk `T/policy` | rules | `evaluate`, `assess` | engine steps 5 and 6 | precedence of rules |
| Workflow `T/workflow/engine.ts` | a run: nodes, budget, completed list | `run`, `runCompensation` | engine | order, retry, compensation after a failure |
| Workflow artifact `T/workflow-artifact/engine.ts` | an artifact and its plan | `validate`, `plan`, `simulate`, `execute` | engine | topological order, parallel groups |
| Event emitter `T/events/emitter.ts` | sequence, log, subscriptions with buffers | `subscribe`, `pause`, `resume_`, `emit`, `replay` | engine, gateway | delivery while paused, failing callbacks |
| Audit chain `T/events/audit.ts`, SQL adapters | hash chain | `append`, `verify` | engine step 18, recovery | two appends at once |
| Authenticators `T/principal/authenticator.ts` | known tokens | `authenticate` | engine step 1, gateway | what a development authenticator believes |
| Composition root, shutdown `T/runtime/composition_root.ts` | calls in flight, shutdown flag | `execute`, `cancel`, `resume`, `shutdown` | engine, server | draining against new calls |
| Gateway, client, server `T/gateway`, `T/server.ts` | connections, streams, audit log | the HTTP routes, `send`, `close` | runtime, approval, artifacts, limiter | a request waits at each await while others close, cancel or decide |
| Artifact manager `T/events/artifacts.ts` | cache and directory | `store`, `retrieve`, `delete` | gateway, capabilities | two copies that can differ |
| Rate limiter `T/security/rate_limiter.ts` | token buckets, windows | `consume`, `gc`, `tryRequest` | gateway | refill, garbage collection of live buckets |
| Registry, versions `T/core/registry.ts`, `semver.ts` | contracts in a Map | `register`, `unregister`, `setHealth`, `resolve`, `discover` | engine step 2, gateway | what a range admits at 0.x and around prereleases |
| Provider resolver, discovery `T/runtime/provider_resolver.ts`, `T/discovery` | profiles | `resolve` | engine, agents | scores and candidates must stay together |

Left out for good: the CLI and the kits, metrics and tracing, header formats, TLS and
cryptography, receipts and canonical JSON, the plan artifact, redaction (strings), the
conformance vectors, and the providers, which are handlers: the models let them
answer anything.  `PROJECT.json` lists every part with its status and every hazard with its line.

## 2. What is modelled

### `ExecutionStates`
`ALLOWED_TRANSITIONS` as a relation, `Terminal`, `CanTransition`.

### `ExecutionEngine`
Any number of concurrent `execute()` calls (`Requests`) and `cancel()` calls
(`Cancellers`) of one process over the stores they share.

*Granularity.* JavaScript runs to the next `await`, so an action is the code from
one await to the next with the store operation it ends in; `call[r].pc` names
the await.  Everything another call could observe between two awaits is a state
of the model.

*Copies.* A call works on its own record and saves it whole.  `call[r].rec` and
`cancels[c].copy` are those copies, `stored[r]` the row.  This is what lets two
calls overwrite each other, in the code and in the model.

| Model | Code |
|---|---|
| `Refuse`, `Admit` | steps 1 to 7; admission itself is one choice here and the subject of `Admission` |
| `Lookup`, `Reserve` | step 8: `idempotencyStore.get`, then `reserve` |
| `RefuseDuration`, `ReserveBudget`, `ReleaseKey` | step 9 and its two refusals |
| `Create`, `Advance` | steps 10 and 11: the record and its first three moves |
| `Start`, `Attempt`, `Resume`, `HandlerReturns`, `Aborted`, `Backoff` | steps 12 and 13: `runWithRetry` inside `withRetry` |
| `RejectOutput`, `Report` | step 14 and its early return |
| `Settle`, `Complete`, `RecordKey`, `Audit` | steps 15 to 18 |
| `Fail`, `FailSettle`, `FailKey` | the catch block |
| `CancelLoad`, `CancelStop`, `CancelBegin`, `CancelFinish` | `cancel()` |
| `Timeout`, `Expire`, `Gc` | the deadline timer, the key's TTL, the stores' `gc()` |
| `StoreFault`, `CancelFault` | a store or event operation rejects; where it is caught decides what happens (`Unguarded`, `Guarded`, `Catching`) |
| `Crash` | the process dies; only with SQL stores, the others die with it |

*Abstractions.* An idempotency row is its state, its owner and whether its TTL
runs; time is the number of TTL windows that ended (`now[k]`).  Outputs, errors
and amounts are reduced to what the control flow asks of them: output accepted
or rejected, failure retryable or not, budget held or settled.  Of the refusals only that of a
duration (`too_long`) is told apart, since it alone leaves the key as it is.  `makeExecutionId`
is fresh, so a call and its execution share a name.  A budget outlives a crash
(the runtime is handed its budget store).

### `KeyedCalls`
What the idempotency layer promises, without its mechanism: a key has a holder,
only a call that took its key begins, every other is told the holder, a TTL
releases the key.  `ExecutionEngine!Calls` maps the one to the other: the holder
is the owner of a row that is present and within its TTL.

### `ExecutionRecords` and `Recovery`
`ExecutionRecords` is the engine as the execution store sees it: a call moves its
copy along the table and saves it over whatever is stored (or the save rejects),
a cancel saves `cancelling` or `cancelled`, a crash ends some of the calls, those of one
process, and leaves rows.
`ExecutionEngine` implements it (`ImplementsRecords`, checked and proved), so
what holds of `Recovery`, which is written on top of it, holds beside the engine.

`Recovery` is `recover()`: `scan` is its frame.  `RecoverList` lists one state
per step; a list is cut off after `ListLimit` records (`ORDER BY created_at DESC LIMIT 1000`
in SQL), the newest by the clocks that set `CreatedAt`, and the frame remembers which it did
not return (`cutOff`), as it does which calls had ended or died when it began (`ended`): no
step reads either.  `RecoverAges` fixes the time against which records are old,
`RecoverSkip`, `RecoverFail`, `RecoverResume`, `RecoverCompensate` and
`RecoverCompensated` act on the record in hand with the compare-and-set
`transition(id, from, to)` and write the report, `RecoverGc` ends it.  The calls of this
process and of others go on in between, and so do cancels; a crash takes any calls with it
and, if it is that of its own process, `recover()` too.
`RecoverFault` is a store operation that rejects, which `recover()` catches.
Not in the model: the audit and event reads, which only fill the report, and
`reconstructState()`, a lookup.

### `EventEmitter`
One thread, with its call stack as a variable: `emit()` and `resume_()` push a
frame whose `at` is the position of their iterator, a delivery pushes the
callback's frame, and a callback may subscribe, unsubscribe, pause or emit before
it returns, throws or answers a promise.  `order` is the insertion order of the
Map and `active` what is still in it, so the live iteration of the code is that
of the model; a buffer is iterated by index while events are appended to it or
shifted out.  What a promise comes to arrives with the stack empty.

| Model | Code |
|---|---|
| `Subscribe`, `Unsubscribe`, `Pause`, `Resume` | the methods; the options are chosen here |
| `Emit`, `EmitStep`, `EmitSkip`, `EmitEnd` | `emit()` and its loop; the filter's answers are chosen when the event is emitted |
| `FlushStep`, `FlushEnd` | the loop of `resume_()`, and `buffer = []` after it |
| `Deliver`, `Withhold`, `Hold` | `deliver()`: callback, or the policy of a paused subscription |
| `CallbackReturns`, `CallbackThrows`, `Resolve`, `Reject`, `Rebuffered` | what becomes of the callback, and the re-buffering of `at_least_once` |

Left out: a sequence number that the publisher sets (the engine sets none), a
policy explicitly given as `undefined`, and `resume_()` inside a callback.

### `WorkflowPlan` and `Workflow`
`WorkflowPlan` holds the pure algorithms: `TopologicalSort` is the depth-first
`topologicalSort()` of both engines (a cycle is a flag instead of an exception),
`ParallelGroups` is `computeParallelGroups()`, `ArtifactSort` and `ExecutionPlan` what
`plan()` makes of both, `Valid` the part of `validate()` that is about the graph.  Beside them stand the definitions they are checked against:
`HasCycle` (some nodes each of which depends on one of them), `IsTopological`, `IsLayered`.
The code shares the set `visiting` between the calls of `visit()`; since a call that returns
leaves it as it was, `Visits` hands it down instead, so that every call below has fewer
nodes to go into.

`Workflow` is one run, started by `execute()` of the artifact engine (which leaves
approval nodes out) or by `run()` directly.  Every run makes its own context, so one
suffices.  The runner is external: it answers a result, an error, retryable or not,
or rejects.

| Model | Code |
|---|---|
| `Reject`, `Throw`, `Start` | `execute()`'s answer to an invalid workflow, the exception on a cycle, the plan |
| `RefuseBudget`, `Skip`, `Begin`, `Abort`, `Finish` | the loop of `run()`: budget, dependencies and condition, the call, functions of the context that throw or cancel, the end |
| `CallSucceeds`, `CallRetried`, `CallFails` | `runWithRetry()` and what `run()` makes of its result by `on_failure` |
| `Compensate`, `CompensateFails`, `NothingToUndo`, `CompensateEnd` | `runCompensation()` |

Left out: cost and duration (summed, compared with nothing), outputs and
expressions, backoff.  `retry_max` is the same for all nodes of a workflow.

### `Patterns`, `Processes`, `Authority`, `Approval`, `Decisions` and `Admission`
Admission is steps 1 to 7 of `execute()`: authenticate, registry, authority, policy,
risk, approval.  Several processes (`Engines`) each hold their own authority engine and
approval service in memory and share the authority store; `Processes` holds the clock
and the names they have in common.

| Model | Code |
|---|---|
| `PatternMatch`, `PatternCovers`, `IsSubset` | `globMatch`, `patternCovers`, the subset checks; a pattern is its sequence of segments |
| `Issue`, `DeriveTo`, `Revoke`, `EmergencyRevoke`, `CanExercise` | the authority engine; `WithinParent` is what `deriveTo()` compares, `Cascade` its recursive revocation |
| `Save`, `StoreRevoke` | what the embedder does with the store: nothing under `T/` does it |
| `Submit`, `Lapse`, `CancelApproval`, `GcApprovals` | the approval service: role, nonce, form of the signature, decision, in the code's order |
| `TestAuthenticate`, `BearerAuthenticate`, `Evaluate`, `Assess`, `NeedsApproval` | authenticators, policy and risk engine: functions |
| `Begin`, `Authenticated`, `Load`, `Check`, `Loaded` | `execute()` up to step 7; the awaits are the authenticator and the two operations of the store |
| `Tick`, `Restart` | time; a process dies, and its authorities, revocations and approvals with it |

Authorities never change but for a `state` field that repeats the revocations and the
expiry and that no decision reads, so the records are kept once and each process has a
set of ids.  An approval service is assumed to be configured.  Constraints are one that
`deriveTo()` compares (`limit`) and one that it copies (`extra`).

### `StoreTables`, `MemoryStores`, `SqliteStores`, `PostgresStores` and `Stores`
`Stores` runs calls of the store methods (`Clients`) against one adapter, chosen by
`setting`.  `StoreTables` has what the three share: the tables, a call's place and
answer, what it read before an await (`mine`), the hash chain, whose hashes are the
terms they are made of.  In SQL a key's expiry is a column beside the entry's text
(`KeyRow`): a stale `update()` writes the text and leaves the column.  An authority is its
columns and its text (`AuthorityRow`): SQL's `revoke()` strikes the column (`Struck`), and a
PostgreSQL `save()` over a row keeps its parent and subject (`Merged`).  A list is a page of the
newest (`Newest`).  `With` is
`{ ...record, ...patch }`; the descendants that a recursive query finds are the least
set that is closed under children.  The adapters have one action per method, and one per await
within it:

| Model | Code |
|---|---|
| `Mem...` | `persistence/interfaces.ts`: one step each, except `appendBatch`, which awaits between events |
| `Sql...`, `SqlCrash` | `adapters/sqlite.ts`: one connection, so that `begun` (the tables as BEGIN found them) belongs to all calls at once; `update` and `appendEventsBatch` await inside |
| `Pg...`, `PgFail` | `adapters/postgres.ts`: each query a step, row locks (`lock`) for SELECT ... FOR UPDATE and UPDATE, rows visible at COMMIT; any query may fail.  `revoke()` is six of its steps: UPDATE of the row, INSERT of its revocation, the recursive UPDATE (finding rows, then locking them), the recursive INSERT, COMMIT, and each reads what is committed when it starts |

`ExecutionEngine` uses stores that answer in one step; `Stores` shows what becomes of
that where an adapter needs several.

### `RateLimiter`, `Versions`, `Catalogue` and `Server`
`Server` composes them: the life of a server from construction to `close()` and the
requests that meet it.

| Model | Code |
|---|---|
| `Construct`, `RefusesToBuild`, `Wired` | the two factories of the composition root and what `AEPServer` adds |
| `CloseBegin`, `GatewayClosed`, `DrainOver` | `close()`: the listening socket, then the open connections, then `drain()` |
| `Connect`, `Authenticated`, `Route`, `BodyRead`, `Load`, `Decide`, `Retrieve` | `HTTPGateway.handle()` between its awaits: preflight, 401, 429, routes and their answers |
| `Call`, `Enter`, `EngineRecords`, `EngineEnds`, `CancelEnds` | `AEPServer.execute()` and the runtime around the engine, whose inside is `Admission` and `ExecutionEngine` |
| `GiveUp`, `Leave` | the client's timeout, which the gateway notices not; a client that closes its connection |
| `StoreArtifact`, `DeleteArtifact`, `Found` | the artifact manager: a cache in memory beside a directory |
| `Consume`, `Refill`, `Gc`, `TryRequest` (`RateLimiter`) | token buckets in thousandths of a token and milliseconds; the sliding window |
| `CaretRange`, `TildeRange`, `ParseRange`, `Satisfies`, `Below` (`Versions`) | `semver.ts`, without the strings: a version is three numbers and its prerelease identifiers |
| `Register`, `Unregister`, `SetHealth`, `ResolveRef`, `Discover`, `SelectProvider`, `Matches` (`Catalogue`) | registry, provider resolver, capability resolver; scores are whole numbers, latencies in hundreds of milliseconds, costs in cents |

`Filter` (in `Loops`, with `InTurn`, which the workflow's sort is made of too) is the
arrays' `filter()` as a loop.  A version that could not be read, and a range's word that is
none, is `None`; a word without an operator has the operator "none".

Left out: the pages of answers, headers other than `Authorization` and `Origin`, SSE
frames, `listExecutions()` and `health()`, which only read.

## 3. The runs

Each run instantiates an `MC` module: `MCEngine`, `MCRecovery` and those named in the table.

| Run | Instance | Checks |
|---|---|---|
| `engine_calls` | 2 calls with one key, 2 cancels, 2 attempts, SQL stores, 1 rejected operation, 1 crash | what a call leaves behind (`BudgetReturned`, `KeyResolved`); what an answer stands for (`SuccessIsBacked`, `ReplayIsTrue`); `OnlyCancelDisturbs`, `RetryDiscipline`; the refinement of `ExecutionRecords` |
| `engine_windows` | the same without cancels, the TTL ends once | `AtMostOncePerWindow`; the refinement of `KeyedCalls` |
| `engine_progress` | in-memory stores, nothing fails, the TTL ends once | `EveryCallAnswered` |
| `recovery` | 2 executions, 1 cancel, lists of 1 record, any number of crashes (of any of them, with or without `recover()`), faults and runs of `recover()` | `AbandonedIsResolved`, `ReportIsTrue`: what recovery leaves and reports of a call that was gone when it began; `RecoveryIsFinal` |
| `events` (`MCEmitter`) | a subscription with each policy beside one that is disconnected when paused, up to 3 events, 1 failure, calls nested once | `DeliveredOnce`, `FirstSeenInOrder`: what a subscriber misses, sees twice or out of order; `QuietAfterUnsubscribe` |
| `workflow` (`MCWorkflow`) | 3 nodes: all graphs of them with up to 2 dependencies each, dangling names and a gate included; 4 graphs under all combinations of failure policies, with and without compensations, a condition, a retry, budgets of 0, 1, 2 or none | `PlanSound`: the algorithms against their definitions; `AfterDependencies`, `RunsOnce`: what runs, when, how often; `UndoneBeforeDependencies`, `EndIsTrue`: compensation and what the result says of it; `CallsBounded` |
| `admission` (`MCAdmission`) | 2 processes, up to 4 authorities and a chain of 3 derivations, 2 calls of 2 ids, 3 lists of policies, a clock of 2 | `DelegationNarrows`, `RevocationReaches`, `RevocationSeen`: authority; `PendingIsDecidable`, `ApprovalStands`: approval; `DenialHolds`: policy |
| `stores` (`MCStores`) | 3 calls in each of 4 races (records, authorities, a key that expires, logs on one connection) and 2 in one of reads, over each adapter | `ReservedOnce`, `TransitionsExclusive`, `BatchIsWhole`, `ChainIsTrue`, `WritesKept`, `CascadeReaches` |
| `server` (`MCServer`) | constructions that are refused; 3 requests while the server closes; every route, 2 requests at a time; artifacts; development; the limiters over 3 seconds; registry, ranges and rankings | `DrainIsTrue`, `CloseEnds`: shutdown; `RateBound`; `ResolvesInRange`, `SelectionIsBest` |
| `doc_terminal`, `doc_cancelled` | 1 call, 1 cancel | two statements of the documents that the code does not keep (section 5) |
| `doc_batch` (`MCStores`) | the `stores` instance | that an SQLite batch is atomic, which other calls of the connection break (section 5) |

A type invariant is not in a run where it is a theorem (`TypeCorrect`, `EmitterTypes`,
`RecoveryTypes`, the types in `Inv` of `Admission_proofs` and `StoresSound` of `Stores_proofs`).

*Bounds.* Two calls are what a key distinguishes: the one that holds it and one
that does not; a third adds only another one that does not.  Two cancels let a
cancel race a cancel.  Two attempts cover "first" and "later", which is all the
code distinguishes.  One fault reaches every await of the pipeline, and one
crash every state; a second fault after the first only ends the call sooner.
One expiry separates two windows.  The TTL expires in `engine_windows` and not
in `engine_calls` because the properties of the latter are about one window:
after an expiry the late `update()` of the old holder, which goes by key,
overwrites the row of the new one, so an answer replayed from it speaks of the
wrong execution.

In `recovery` one execution does all it can; it may be listed several times while its call
moves it.  A second is what a list is cut off at, and a call of another node that dies, ends or
goes on while the first is recovered; beside it records do not interact.  The constraint
`Bounded` therefore keeps two executions, and one that is cancelled (the exception of every
property), to saves that succeed and states up to `running`, and `recover()` to operations
that succeed.

In `events` a buffer of one event is full with one, and three events are what it
takes to drop, keep and overtake; with two subscriptions there are two events
(`MaxOffers`), enough for one to leave while the other is served.  `MaxDepth`
lets a callback emit once, inside an `emit()` or a flush.

In `workflow` three nodes show a chain, a fork, a join and every cycle, and two
dependencies per node are all the others.  The policies meet in every combination
of three nodes; two attempts are a first and a last one; a budget of 2 ends a run
of three nodes before its last, one of 1 within a retry.

In `admission` a chain of three derivations is the shortest where "the parent alone" and
"every authority above" differ twice, and two processes are one that holds an authority
and one that reads it from the store.  Two calls of one id are what an approval by id
can confuse.  Each list of policies puts a deny behind another rule, behind another policy,
or in the default.

In `stores` three calls are two that race and one that disturbs them (a `save` beside
two compare-and-sets, a `gc` beside two reservations, a transaction beside a batch); two
executions are what a page of one record is cut off at, and three authorities a chain in which
one is saved while its line is revoked; the
races are kept apart because methods of different tables share nothing but the
connection, which the fourth race is about.  Two ticks are a key that expires and one
reserved again.

In `server` each member of `MCSettings` switches on what belongs together.  Three calls
with two ids are what shutdown needs: two that share an id and one that does not.  The
four times of the clock are a refill to less than a token, to one, across the window
and to a full bucket; `MaxDrops` lets `gc()` drop a bucket once.  The versions lie on both
sides of every bound of the ranges.

*Deadlock* is checked in every run but `events`, where the emitter rests once
everything is emitted and everybody has left, `stores` and `doc_batch`, where the calls end,
and `server`, which may be closed or refused; in the engine's, `Terminating` is the only stutter and is
enabled only when all calls have ended.  A transition that the table refused
would show as a deadlock (`Transition`).

*Fairness.* `RuntimeFairness` is weak fairness of each call's next step, of its
timer and of each cancel: the event loop runs callbacks that are ready, and the
stores answer.  Nothing in the code makes a handler settle, so that is assumed
only in `FairSpec`, where `EveryCallAnswered` needs it; without it a call may wait for
ever, since nothing races the handler against the deadline.  In `Server`, weak fairness of
`GatewayClosed` and `DrainOver` is the callback of `server.close()` and the timer of
`drain()`; clients and handlers are not assumed to end, which is why `CloseEnds` has the
hypothesis that connections are closed again and again.  `EventEmitter` has no liveness
property: a call returns unless a callback fails for ever (section 5), which the bound
`MaxFailures` leaves out.

## 4. What is proved

`ExecutionEngine_proofs`, for all sets of calls, cancellers and keys, all
assignments of keys, all bounds, both kinds of store:

* `TypeCorrect`: `Spec => []TypeOK`.
* `OneRunPerWindow`: `Spec => []AtMostOncePerWindow`.

Assumptions: `KeysAssumption` (a key or `NoKey` per call) and `BoundsAssumption`.

`AtMostOncePerWindow` speaks of two calls that both reached the handler; nothing
in it says why the second could not reserve.  The inductive invariant
`WindowInv` does: a call behind step 8 has a window (`WindowTaken`), one before
it has none (`WindowFresh`), only keyed calls read the store
(`OnlyKeyedLook`), the call of the *current* window owns a row that answers for
the key (`WindowOwned`), and windows of one key differ (`WindowsDiffer`).  Two
actions change what it speaks of.  `Reserve` needs a row that does not answer,
so by `WindowOwned` no call of the key is in the current window; `Expire` ends
the window.  Every other action is shown to keep windows and answering rows
(`StepKeeps`), and such steps preserve the invariant (`KeepsWindows`).  Types
come first, since `Lookup` and `Reserve` are well typed only for a call that has
a key (`TypeStep` assumes `OnlyKeyedLook`).

In the same module, under the same assumptions:

* `EngineRefinesKeyedCalls` (`Spec => ImplementsKeyedCalls`).  The same invariant
  is what makes the map a refinement: `Reserve` maps to taking a key whose holder
  is nobody, `Expire` to releasing it, and a call that begins does so because it
  took the key.  Each action is shown to be one step of `KeyedCalls` or a stutter.
* `CancelAloneDisturbs` (`Spec => OnlyCancelDisturbs`).  The property compares two
  successive rows of the store, but `transition()` consults the call's copy;
  `RecordInv` ties the two: unless a cancel was called, the row is final only if the
  copy is (`CopyLeads`), and a call that still works has a copy that is not final
  (`WorkingLive`).  A step of a call then never meets a final row, because the table
  lets nothing leave a final copy (`TerminalIsLast`).
* `EngineRefinesRecords` (`Spec => ImplementsRecords`).  Its invariant `LifeInv` says at
  which program point the copy is in which state (`CopyAt`: `queued` before the
  attempt, `running` during it, `retrying` between two), and that an open cancel is for
  a stored execution; without the first a rejected save could not be seen as a move.
* `BudgetsReturned`, `KeysResolved`, `SuccessesBacked`, `ReplaysTrue` (with no expiry:
  `[](expiries = 0 => ReplayIsTrue)`, see section 3) and `RetriesDisciplined`.
  `OutcomeInv` says for each program point what the call has already written:
  its budget, attempts and effect (`CallsSound`), whose the row of a key is and what it
  says while its owner works and after it ended (`RowsOwned`, `KeysKnown`), and that in the
  first window a row that says `completed` speaks of a success (`ReplayInv`).  The exits
  that leave a budget or a key behind are conjuncts of it: a fault or a crash between
  two writes.

`Recovery_proofs`, for every finite set of executions: `RecoveryTypes`,
`RecoveryKeepsFinalStates` (`RecoverySpec => RecoveryIsFinal`), `RecoveryResolves`
(`[]AbandonedIsResolved`) and `RecoveryReports` (`[]ReportIsTrue`).
`FinalInv` says where a final row of a call in flight can come from:
the call itself, whose copy is then final too, or `recover()`, which left it `failed`.  A step of `recover()` changes only a row that is in the unfinished
state it read (`RecoverIsCareful`), whatever happened since.  With the record of a call
that was gone when it began nothing but `recover()` can interfere any more: `ScanInv` follows
it through the lists (`FrameInv`: what is listed and in hand; `EntriesInv`: it is listed in the
state it has, or cut off, or dealt with; `OutcomeOf`: what is reported is what is stored), through
steps and crashes of all the other calls, for any `ListLimit` and any `CreatedAt`.

`EventEmitter_proofs`, for any subscriptions, options and bounds: `EmitterTypes`
(`Spec => []TypeOK`, with the log as the latest events), `UnsubscribedIsQuiet`
(`Spec => QuietAfterUnsubscribe`): only `EmitStep` and `FlushStep` reach a
callback; the one looks the subscription up in the Map, the other has its flush
on the stack; and `EmitterKeepsOrder` (`Spec => []FirstSeenInOrder`).  `OrderInv` adds the
shape of the stack (`ShapeInv`: above the outermost frame only callbacks and the loops of
nested events), that what waits in a buffer is in order and newer than all that was
handed over (`LineInv`), and where the exception lies: a subscription paused in its own
flush is in no order until the buffer is cleared, and nothing is delivered to it before.
`EmitterDelivers` (`Spec => []DeliveredOnce`) counts: a failure that brings an event back is
owed again, so an offered event is either due or given (`Due`, `Given`, `TallyInv`).  What is
left of a buffer is due and there once (`QueueInv`); a callback that runs, or whose promise is
open, has been given its event, and no event has two loops or two callbacks (`StackInv`); what
is neither due nor given is counted as dropped (`Lost`).

`Workflow_proofs`, for all node lists and workflows (`NodesAssumption`, `SpecsAssumption`):
`PlansSound` (`Spec => []PlanSound`) from what the two algorithms compute.  That the recursive
functions exist is `RecursionExists`: a function whose value at x is made of values of smaller
rank, the rank being bounded (of `visit()`, the nodes not being visited; of the groups, the
nodes that remain).  The sort is right by induction over that rank: what is sorted is in
order and apart from what is being visited (`Clean`), a visit adds its node and takes nothing
away (`Turn`), and a cycle is met only if each node being visited depends on one visited below
it (`Chain`), which then depend on each other; in an order without a cycle the first node
of any set depends on none of it (`FirstOfSet`), which is also why no batch is empty before
the end (`GroupsLayered`).  `BudgetHolds` (`Spec => []CallsBounded`) is from `CountInv`, which
bounds the calls counted during a node by its attempt; `DependenciesFirst`,
`NodesRunOnce`, `UndoneInReverse` and `EndsTruthfully` are `AfterDependencies`, `RunsOnce`,
`UndoneBeforeDependencies` and `EndIsTrue`, from the plan being sound.
`PlanInv` says that what is still to come is in order, without
results and uncalled (`Fresh`, `Ordered`), and that whatever has no result is still
to come (`Reached`); so when a node is skipped, a dependency without a result is no
node of the run.  `EndInv` carries on into the compensation: what was executed is in the
order of the plan (`ExecutedInv`), what is still to undo is a prefix of it (`RestInv`), the
rest was tried or has nothing to undo (`TriedInv`, `UndoneInv`), and who failed is known
(`FailInv`).

`Admission_proofs`, under `NoneAssumption`, `NamesAssumption`, `SettingsAssumption` and
`BoundsAssumption`: `Invariance`, `Narrows` (`[]DelegationNarrows`), `Reaches`
(`[]RevocationReaches`), `Decidable` (`[]PendingIsDecidable`), `RevocationIsSeen`,
`ApprovalsStand` and `DenialsHold`.  `PatternCovers` without its exceptions is shown to be
inclusion of what is matched (`CoversGrants`), for patterns and names of any length.
`LineInv` says of each derived authority that its parent is known where it is, that it
is within it, and that a revocation has reached it when it has reached the parent; along a line this is
carried by the well-foundedness of the length (a step at a time, since a
derived authority is newer than its parent).  `SeesInv` says what a call that has passed a check has read.

`Stores_proofs`, under `AnswersAssumption` and `SettingsAssumption`, for any clients, records
and adapter: `ChainHolds`, `TransitionsExclude`, `ReservesOnce`, `OthersKeepWrites`, `BatchesAreWhole`
and `RevocationsReach`, the six properties of the run.  `StoresSound` has the types and the
discipline of the adapters (who holds which lock, what `begun` is).  `ChainInv` speaks of two
chains, the stored one and the one a rollback would leave, and of the calls that read the last hash.
`RecordsInv` and `MovedInv` say that between SELECT ... FOR UPDATE and UPDATE the row is what was
read, and that two calls that both left a state have a third that led back.
`KeysInv` and `ClaimsInv` say that the expiry column never changes while a key stands, and that a
commit holds the key's lock.  `EventsInv` says that every stored event, and every one a
rollback would leave, is of a call that may have stored it, and that the rollback of the open
batch leaves nothing of it.  `RevocationsReach` needs that the least closed set contains
every path (`ClosedBelow`), which is enough where a revocation is one step; over PostgreSQL
`CascadeInv` carries what the recursive INSERT found to the COMMIT: the parent of a row never
changes (`ParentsStay`), so a path that is there at the COMMIT and passes no row stored since
(`late`) was there when that query looked (`ChainWasThere`).

`Server_proofs`: `GrantsBounded`, for all configurations, any clock and any order of
`consume()`, `gc()` and `tryRequest()`:
`LimiterSpec(maxBuckets, counts) => []BucketBound` and, when the sliding window keeps
its bound, `[]RateBound`; `ServerGrantsBounded` (`Spec => []RateBound`), the same within
the server with no such condition; and `DrainReports` (`Spec => []DrainIsTrue`).  Assumptions: `ConfigAssumption`, `WindowAssumption`
(numbers are natural) and the server's `SettingsAssumption`.  The bound speaks of what was granted since a past grant, the code knows
only the tokens that are left; `BucketInv` adds what ties the two: types
(`LimiterTypes`), a bucket is no fuller than its burst and not refilled in the future
(`BucketsSound`), and for every past grant (`MarksSound`) the tokens left *plus* what was
granted since are covered by a full bucket per life and the refill up to the bucket's last
(`Covers`, `Paid`).  A refill adds to both sides, a grant moves tokens from one term to
the other, a `gc()` drops a bucket and the next `consume()` starts a new life.  For the
window, `WindowInv` says that the requests it has forgotten are too old to count.  `DrainInv` has what
each stage of `close()` leaves behind (`StagesSound`), and that a call in flight is tracked
under its id until it ends (`RequestsSound`, `TrackedSound`).

Also in `Server_proofs`, with `CatalogueAssumption` (versions, words, costs and limits are of
their types, and nothing that is registered is `None`): `ReferencesResolved`
(`Spec => []ResolvesInRange`) and `SelectionsAreBest` (`Spec => []SelectionIsBest`).
`CatalogueInv` says that an answer is what the operator makes of what is registered now; the
rest is about the operators.  A comparison of versions is lexicographic (`BelowIs`), and the
bound of a caret or a tilde excludes exactly what differs in the fixed numbers, but for the
prereleases of the bound (`BoundIs`); so for words that can be read satisfying a range is being
in it (`RangesRead`), with the exception that `ResolvesInRange` makes for prereleases.  In a
sort the number of elements ahead of one is its place: it grows along the order, so no two
share one and, there being as many places as elements, none is free (`PlaceOfOne`), from which the
result has the same elements by falling score (`SortedIs`).

`Loops_proofs` has what both need: that recursive functions exist, what a loop over a
sequence leaves after each turn (`InTurnTurns`), and that `Filter` keeps what it should
(`FilterIs`).  It is by induction over the naturals in the form of a set that contains 0 and
every successor (`SetInduction`).

Model-checked only: the liveness properties `EveryCallAnswered` and `CloseEnds`, since fairness and ENABLED are out of the prover's reach.

## 5. Where code and documents disagree

Three of these are runs: the property states what a document or comment says, and TLC
shows a behaviour of the code without it.

* `doc_terminal`: a terminal state is not final: `execute()` and `cancel()` overwrite each
  other (`OnlyCancelDisturbs` shows that without a cancel it cannot happen).
* `doc_cancelled`: "Only then transitions to `cancelled`" (`AEP_1_0_RELEASE.md` line 100):
  `cancel()` of a running execution aborts the signal, saves `cancelling`, finds the signal
  aborted and saves `cancelled` while the handler runs.  (A copy that was read before the run,
  say `authorized`, is saved `cancelled` directly; the property leaves that out.)
* `doc_batch`: the SQLite header promises "atomic transactions (BEGIN/COMMIT)";
  `appendEventsBatch()` awaits inside a transaction of the one connection, so the COMMIT
  or ROLLBACK of another call ends it and a batch that answers an error is stored in part.

The others show in the models, as guards, exceptions or hypotheses of properties.

*Engine.* A failure by rejected output leaves the key `running`, so retries are
`accepted` until the TTL ends; `KeyResolved` lists the other such exits.  A deadline does
not bound a call, since nothing races it against the handler.

*Recovery.* `recover()` moves a stuck `retrying` record to `compensating`, which the table
does not list, and fails a `cancelling` one where its header comment says it is marked
cancelled.  Of the records in one state SQL lists the 1000 newest: older ones are neither
resolved nor reported, and a `recover()` without errors says nothing of them, nor do further
ones while newer records keep their state (`awaiting_approval`, `paused`, or young).  The result of
`transition()` is not read, so of a call on another node that moves, ends or dies during the scan
`failed` may be reported and not be true; `ReportIsTrue` and `AbandonedIsResolved` speak of
the calls that were gone when it began.  It fails what never started at any age, so beside a live call its `failed` is
overwritten: the second exception of `RecoveryIsFinal`.

*Emitter.* `at_least_once` (`spec/profiles/events.md` section 4: "won't miss") loses the
rest of the buffer when a callback pauses its own subscription during a flush (`cut`); it
re-buffers a failed event but delivers it only at the next `resume_()`, which nobody
calls; and a callback that throws on every attempt keeps `resume_()` in its loop for
ever, since the event is pushed onto the array being iterated.  A re-buffered event is
added to a full buffer (section 8: up to `buffer_size`), under the policies `pause` and
`resume` events are lost uncounted, and `effectively_once` is `at_most_once`.

*Workflow* (`spec/profiles/workflow.md` sections 6.4 and 8).  `execute()` filters approval
nodes out but leaves the `depends_on` that name them, so a node behind one is skipped
(the response shown in 6.4 has it completed), and since a skipped dependency counts as
done, the nodes behind that one run.  `plan()` and `simulate()` still count the dependants
of approval nodes, and the `compensation_chain` of a plan is not what `runCompensation()`
runs.  A compensation that rejects is passed over without `COMPENSATION_FAILED`, and one
that answers an error counts as undone; the failed node is compensated too; a run stopped
by its budget compensates nothing.  `on_failure: retry` is `skip`, and the header's
parallelism, approval, checkpoint and fallback are not in `run()`.

*Authority.* The subset rule (`spec/profiles/authority.md` lines 137 to 145) has exceptions,
which `Strict` names: `x` is covered by `x.**` and `x.*`, which do not match it, `x.**` is
covered by `x.*`, an empty list of resources is a subset of any and stands for all, and
only three constraints are compared.  "Revocations are PERMANENT" (`authority/engine.ts`
line 129) holds until the process ends; "recursive verification" (line 230) looks at the
parent only, which suffices for what was derived (`RevocationReaches`) and not for what was
issued with a parent.  A revocation in the store is not seen for an authority that the
process holds (`RevocationSeen`).

*Approval, policy.* A malformed signature uses the nonce up and leaves an approval that
nobody can decide (`PendingIsDecidable`).  An approval is found by request id in any state:
expired or cancelled, it answers `approval_required` for ever.  Digests are recorded and
never compared.  A policy rule with a `resource` matches nothing, since the engine gives
none.  `AEP_1_0_RELEASE.md` line 205 says that the engine's `transition()` calls
`ExecutionStore.transition()`; it calls `save()`.

*Stores.* `revoke()` revokes what is active in SQL and anything in memory, where its cascade
goes one level down; `load()` after it answers the old state in SQL.  In PostgreSQL a child saved
between the two recursive queries of a revocation is in the table of revocations and keeps the
state `active`; one saved after them and before the COMMIT is not revoked at all
(`CascadeReaches` names it, `late`).  A PostgreSQL `save()` of an authority that is there keeps
its columns `parent_id` and `subject_id`.  Duplicate events are
accepted in memory and throw in SQL; `read()` applies its limit before the filter in SQL
and after it in memory; PostgreSQL numbers events before they are visible, so batches
commit out of order.  `update()` reads and writes in two steps.  `reserve()` in SQLite
throws on a row that expired and is still there.  The PostgreSQL header speaks of "all 6
stores" with a budget store, which is not there.

*Runtime and gateway.* `resume` answers `resumed` and runs nothing (`docs/SDK.md` line 155,
`spec/core/004-execution.md` line 95), and nothing moves a record to `paused`.  Equal
request ids count once in `drain()` (`DrainIsTrue`).  Its 30 seconds begin only when the
last connection is closed.  A stream whose client leaves during `authenticate()` is
subscribed and never unsubscribed.  The gateway of `AEPServer` has the server's own
approval service, whichever the runtime was given; in development the runtime has its own
event emitter, so streams hear nothing, and the gateway's authenticator knows no token.
`AEPClient.cancel()` and `subscribeEvents()` send no `Authorization` and are answered 401.
An artifact without provenance is served to any principal; `delete()` leaves the file,
which `retrieve()` then finds without its provenance.  The limiter's `gc()` is called by
nobody and drops buckets in use.  `http.ts` line 60 says "100 requests per 10 seconds", its
bucket of 100 that refills 10 a second admits about 200 in ten seconds: `RateBound` is the
bucket's bound, capacity plus refill.

*Catalogue.* `>= 1.0.0`, with a space, means exactly `1.0.0`; `^1.2.3` admits `2.0.0-alpha`;
`^0` admits `0.0.0` alone of the releases; a range that cannot be read matches everything.
`resolve()` answers nothing although a degraded entry is in range when another, out of
range, is healthy.  A provider that registers again is there twice, and is then scored
with the figures of one and selected as the other; `alternatives` may contain the selected
one.  Discovery asks `canExercise()` without principal and resource.

## 6. Plan

Next, in order:

1. The stores of `ExecutionEngine` replaced by those of `Stores`.
2. `simulate()` and `replay()` of workflows, parent signals, the blast radius.

Not modelled: what is left out in section 1.  These parts format, encode, sign, measure or
draw at random; they keep no state that a second actor reads.
