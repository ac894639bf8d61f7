----------------------- MODULE ExecutionEngine_proofs -------------------------
(***************************************************************************)
(* Theorems about ExecutionEngine, for every set of requests, cancellers   *)
(* and keys and every bound: the types, and that a key lets one call per   *)
(* TTL window reach the handler.  Then that it implements KeyedCalls and   *)
(* ExecutionRecords: each of its steps is a step of either, or leaves what *)
(* that sees alone; in between, the stored record of an execution, which   *)
(* execute() by itself takes out of no terminal state.  Last, what the     *)
(* outcome of a call stands for: the budget it gave back, the handler it   *)
(* ran, the records and rows it wrote, and what a later call with its key  *)
(* is told of it.                                                          *)
(***************************************************************************)
EXTENDS ExecutionEngine, TLAPS

------------------------------------------------------------------------------
(* The inductive invariant behind AtMostOncePerWindow.                     *)

\* Points of execute() behind the reservation of the key.
Reserved == {"budget", "releaseKey", "create", "advance"} \cup Guarded \cup Catching

\* A call with a key is past step 8 only with the window it reserved it in.
WindowTaken ==
  \A r \in Requests :
    Keyed(r) /\ (call[r].pc \in Reserved \/ runs[r] > 0) => call[r].window # NoWindow

\* Before step 8 no call has a window.
WindowFresh ==
  \A r \in Requests : call[r].pc \in {"idle", "lookup", "reserve"} => call[r].window = NoWindow

\* Only a call with a key reads the idempotency store.
OnlyKeyedLook ==
  \A r \in Requests : call[r].pc \in {"lookup", "reserve"} => Keyed(r)

\* No window lies in the future, and the call of the current one owns the row
\* that answers for the key.
WindowOwned ==
  \A r \in Requests :
    Keyed(r) /\ call[r].window # NoWindow
    => /\ call[r].window <= now[KeyOf[r]]
       /\ call[r].window = now[KeyOf[r]] => Blocks(idem[KeyOf[r]]) /\ idem[KeyOf[r]].owner = r

\* Two calls that reserved one key did so in different windows.
WindowsDiffer ==
  \A r, x \in Requests :
    r # x /\ Keyed(r) /\ KeyOf[r] = KeyOf[x] /\ call[r].window # NoWindow
    => call[r].window # call[x].window

WindowInv == WindowTaken /\ WindowFresh /\ OnlyKeyedLook /\ WindowOwned /\ WindowsDiffer

------------------------------------------------------------------------------
(* Types.                                                                  *)

\* Moving a frame to a known point keeps its type.
LEMMA GotoType ==
  ASSUME NEW r \in Requests, NEW p \in Points, call \in [Requests -> Frames], Goto(r, p)
  PROVE  call' \in [Requests -> Frames]
PROOF BY DEF Goto, Frames

\* The program points the actions name are points.
LEMMA KnownPoints ==
  {"idle", "done", "crashed", "lookup", "reserve", "budget", "releaseKey", "create",
   "advance", "start", "attempt", "resume", "handler", "backoff", "settle", "complete",
   "recordKey", "audit", "rejectOutput", "report", "fail", "failSettle", "failKey"}
  \subseteq Points
PROOF BY DEF Points, InFlight, Unguarded, Guarded, Catching

\* The record moves with the frame.
LEMMA MoveType ==
  ASSUME NEW r \in Requests, NEW p \in Points, NEW to \in States,
         call \in [Requests -> Frames],
         call' = [call EXCEPT ![r].rec = to, ![r].pc = p]
  PROVE  call' \in [Requests -> Frames]
<1>1. [call[r] EXCEPT !.rec = to, !.pc = p] \in Frames
  BY DEF Frames
<1> QED
  BY <1>1

\* The frame fails.
LEMMA ThrowType ==
  ASSUME NEW r \in Requests, NEW p \in Points, call \in [Requests -> Frames],
         NEW failure \in {"transient", "permanent", "cancelled", "output", "store"},
         call' = [call EXCEPT ![r].failure = failure, ![r].pc = p]
  PROVE  call' \in [Requests -> Frames]
<1>1. [call[r] EXCEPT !.failure = failure, !.pc = p] \in Frames
  BY DEF Frames
<1> QED
  BY <1>1

\* The first attempt begins.
LEMMA RunType ==
  ASSUME NEW r \in Requests, NEW p \in Points, NEW to \in States, NEW n \in Nat,
         call \in [Requests -> Frames],
         call' = [call EXCEPT ![r].rec = to, ![r].pc = p, ![r].attempt = n]
  PROVE  call' \in [Requests -> Frames]
<1>1. [call[r] EXCEPT !.rec = to, !.pc = p, !.attempt = n] \in Frames
  BY DEF Frames
<1> QED
  BY <1>1

\* The frame takes its window.
LEMMA ReserveType ==
  ASSUME NEW r \in Requests, NEW p \in Points, NEW w \in Int,
         call \in [Requests -> Frames],
         call' = [call EXCEPT ![r].pc = p, ![r].window = w]
  PROVE  call' \in [Requests -> Frames]
<1>1. [call[r] EXCEPT !.pc = p, !.window = w] \in Frames
  BY DEF Frames
<1> QED
  BY <1>1

\* A store operation rejects.
LEMMA FaultType ==
  ASSUME NEW r \in Requests, NEW p \in Points, NEW s \in States \cup {"none"},
         call \in [Requests -> Frames],
         call' = [call EXCEPT ![r].rec = s, ![r].pc = p, ![r].failure = "store"]
  PROVE  call' \in [Requests -> Frames]
<1>1. [call[r] EXCEPT !.rec = s, !.pc = p, !.failure = "store"] \in Frames
  BY DEF Frames
<1> QED
  BY <1>1

LEMMA AnswerType ==
  ASSUME NEW r \in Requests, NEW x \in Requests \cup {NoReq},
         NEW status \in {"refused", "too_long", "accepted", "completed", "error", "rejected"},
         call \in [Requests -> Frames], reply \in [Requests -> Replies],
         Answer(r, status, x)
  PROVE  /\ call' \in [Requests -> Frames]
         /\ reply' \in [Requests -> Replies]
<1>1. "done" \in Points
  BY DEF Points
<1>2. Goto(r, "done")
  BY DEF Answer
<1>3. [status |-> status, exec |-> x] \in Replies
  BY DEF Replies
<1> QED
  BY <1>1, <1>2, <1>3, GotoType DEF Answer

LEMMA TransitionType ==
  ASSUME NEW r \in Requests, NEW p \in Points, NEW to \in States,
         call \in [Requests -> Frames], stored \in [Requests -> States \cup {"none"}],
         Transition(r, to, p)
  PROVE  /\ call' \in [Requests -> Frames]
         /\ stored' \in [Requests -> States \cup {"none"}]
PROOF BY ZenonT(30) DEF Transition, Frames

LEMMA RecordOutcomeType ==
  ASSUME NEW r \in Requests, NEW state \in {"completed", "failed"},
         idem \in [Keys -> Rows], RecordOutcome(r, state)
  PROVE  idem' \in [Keys -> Rows]
PROOF BY DEF RecordOutcome, Updated, Rows

\* cancel() ends without a state to report.
LEMMA CancelDoneType ==
  ASSUME NEW c \in Cancellers, cancels \in [Cancellers -> CancelFrames],
         cancels' = [cancels EXCEPT ![c].at = "done", ![c].copy = "none"]
  PROVE  cancels' \in [Cancellers -> CancelFrames]
PROOF BY ZenonT(30) DEF CancelFrames

\* Every step of the runtime, the handlers and the environment keeps the types.
LEMMA TypeStep ==
  ASSUME TypeOK, OnlyKeyedLook, [Next]_vars
  PROVE  TypeOK'
<1> USE DEF TypeOK, stores, bounds
<1>1. ASSUME NEW r \in Requests, Refuse(r)
      PROVE  TypeOK'
  BY <1>1, AnswerType DEF Refuse
<1>2. ASSUME NEW r \in Requests, Admit(r)
      PROVE  TypeOK'
  BY <1>2, GotoType, KnownPoints DEF Admit
<1>3. ASSUME NEW r \in Requests, Lookup(r)
      PROVE  TypeOK'
  <2> DEFINE row == idem[KeyOf[r]]
  <2>1. KeyOf[r] \in Keys
    BY <1>3, KeysAssumption DEF Lookup, OnlyKeyedLook, At, Keyed
  <2>2. row \in Rows
    BY <2>1
  <2>3. CASE Blocks(row) /\ Answer(r, ReplayStatus(row.state), row.owner) /\ UNCHANGED idem
    <3>1. /\ ReplayStatus(row.state) \in {"refused", "too_long", "accepted", "completed", "error", "rejected"}
          /\ row.owner \in Requests \cup {NoReq}
      BY <2>2, <2>3 DEF Blocks, Rows, ReplayStatus
    <3> HIDE DEF row
    <3> QED
      BY <1>3, <2>3, <3>1, AnswerType DEF Lookup
  <2>4. CASE /\ Goto(r, "reserve") /\ UNCHANGED reply
             /\ idem' = IF SqlStore THEN idem ELSE [idem EXCEPT ![KeyOf[r]] = NoRow]
    <3>1. NoRow \in Rows
      BY DEF NoRow, Rows
    <3> QED
      BY <1>3, <2>4, <3>1, GotoType, KnownPoints DEF Lookup
  <2> QED
    BY <1>3, <2>3, <2>4 DEF Lookup
<1>4. ASSUME NEW r \in Requests, Reserve(r)
      PROVE  TypeOK'
  <2> DEFINE row == idem[KeyOf[r]]
  <2>1. KeyOf[r] \in Keys
    BY <1>4, KeysAssumption DEF Reserve, OnlyKeyedLook, At, Keyed
  <2>2. row \in Rows
    BY <2>1
  <2>3. row.owner \in Requests \cup {NoReq}
    BY <2>2 DEF Rows
  <2>4. CASE \E x \in Requests \cup {NoReq} :
               (Answer(r, "accepted", x) \/ Answer(r, "rejected", x)) /\ UNCHANGED idem
    BY <1>4, <2>4, AnswerType DEF Reserve
  <2>5. CASE /\ call' = [call EXCEPT ![r].pc = "budget", ![r].window = now[KeyOf[r]]]
             /\ idem' = [idem EXCEPT ![KeyOf[r]] =
                           [state |-> "running", owner |-> r, live |-> TRUE]]
             /\ UNCHANGED reply
    <3>1. now[KeyOf[r]] \in Int
      BY <2>1
    <3>2. call' \in [Requests -> Frames]
      BY <2>5, <3>1, ReserveType, KnownPoints
    <3>3. [state |-> "running", owner |-> r, live |-> TRUE] \in Rows
      BY DEF Rows
    <3> QED
      BY <1>4, <2>5, <3>2, <3>3 DEF Reserve
  <2> QED
    BY <1>4, <2>3, <2>4, <2>5 DEF Reserve
<1>5. ASSUME NEW r \in Requests, RefuseDuration(r)
      PROVE  TypeOK'
  BY <1>5, AnswerType DEF RefuseDuration
<1>6. ASSUME NEW r \in Requests, ReserveBudget(r)
      PROVE  TypeOK'
  BY <1>6, GotoType, KnownPoints DEF ReserveBudget
<1>7. ASSUME NEW r \in Requests, ReleaseKey(r)
      PROVE  TypeOK'
  BY <1>7, AnswerType, RecordOutcomeType DEF ReleaseKey
<1>8. ASSUME NEW r \in Requests, Create(r)
      PROVE  TypeOK'
  <2>1. call' \in [Requests -> Frames]
    BY <1>8, MoveType, KnownPoints DEF Create, States
  <2> QED
    BY <1>8, <2>1 DEF Create, States
<1>9. ASSUME NEW r \in Requests, Advance(r)
      PROVE  TypeOK'
  BY <1>9, TransitionType, KnownPoints DEF Advance, States
<1>10. ASSUME NEW r \in Requests, Start(r)
       PROVE  TypeOK'
  <2>1. CASE /\ call' = [call EXCEPT ![r].rec = "running", ![r].pc = "attempt", ![r].attempt = 1]
             /\ stored' = [stored EXCEPT ![r] = "running"]
    <3>1. call' \in [Requests -> Frames]
      BY <2>1, RunType, KnownPoints DEF States
    <3> QED
      BY <1>10, <2>1, <3>1 DEF Start, States
  <2>2. CASE /\ call' = [call EXCEPT ![r].failure = "permanent", ![r].pc = "fail"]
             /\ UNCHANGED stored
    BY <1>10, <2>2, ThrowType, KnownPoints DEF Start, States
  <2> QED
    BY <1>10, <2>1, <2>2 DEF Start
<1>11. ASSUME NEW r \in Requests, Aborted(r)
       PROVE  TypeOK'
  <2>1. call' \in [Requests -> Frames]
    BY <1>11, ThrowType, KnownPoints DEF Aborted, AfterFailure
  <2> QED
    BY <1>11, <2>1 DEF Aborted
<1>12. ASSUME NEW r \in Requests, Attempt(r)
       PROVE  TypeOK'
  <2>1. CASE Goto(r, "handler") /\ CallHandler(r) /\ UNCHANGED stored
    BY <1>12, <2>1, GotoType, KnownPoints DEF Attempt, CallHandler
  <2>2. CASE Transition(r, "retrying", "resume") /\ UNCHANGED runs
    BY <1>12, <2>2, TransitionType, KnownPoints DEF Attempt, States
  <2> QED
    BY <1>12, <2>1, <2>2 DEF Attempt
<1>13. ASSUME NEW r \in Requests, Resume(r)
       PROVE  TypeOK'
  <2>1. /\ call' \in [Requests -> Frames]
        /\ stored' \in [Requests -> States \cup {"none"}]
    BY <1>13, TransitionType, KnownPoints DEF Resume, States
  <2>2. runs' \in [Requests -> Nat]
    BY <1>13 DEF Resume, CallHandler
  <2> QED
    BY <1>13, <2>1, <2>2 DEF Resume
<1>14. ASSUME NEW r \in Requests, Backoff(r)
       PROVE  TypeOK'
  BY <1>14, KnownPoints DEF Backoff, Frames
<1>15. ASSUME NEW r \in Requests, RejectOutput(r)
       PROVE  TypeOK'
  BY <1>15, TransitionType, KnownPoints DEF RejectOutput, States
<1>16. ASSUME NEW r \in Requests, Report(r)
       PROVE  TypeOK'
  BY <1>16, AnswerType DEF Report
<1>17. ASSUME NEW r \in Requests, Settle(r)
       PROVE  TypeOK'
  <2>1. call' \in [Requests -> Frames]
    BY <1>17, GotoType, KnownPoints DEF Settle
  <2> QED
    BY <1>17, <2>1 DEF Settle, Settled
<1>18. ASSUME NEW r \in Requests, Complete(r)
       PROVE  TypeOK'
  BY <1>18, TransitionType, KnownPoints DEF Complete, States
<1>19. ASSUME NEW r \in Requests, RecordKey(r)
       PROVE  TypeOK'
  BY <1>19, GotoType, RecordOutcomeType, KnownPoints DEF RecordKey
<1>20. ASSUME NEW r \in Requests, Audit(r)
       PROVE  TypeOK'
  BY <1>20, AnswerType DEF Audit
<1>21. ASSUME NEW r \in Requests, Fail(r)
       PROVE  TypeOK'
  <2>1. CASE call' = [call EXCEPT ![r].rec = "failed", ![r].pc = "failSettle"]
    BY <1>21, <2>1, MoveType, KnownPoints DEF Fail, States
  <2>2. CASE Goto(r, "failSettle")
    BY <1>21, <2>2, GotoType, KnownPoints DEF Fail, States
  <2> QED
    BY <1>21, <2>1, <2>2 DEF Fail
<1>22. ASSUME NEW r \in Requests, FailSettle(r)
       PROVE  TypeOK'
  <2>1. call' \in [Requests -> Frames]
    BY <1>22, GotoType, KnownPoints DEF FailSettle
  <2> QED
    BY <1>22, <2>1 DEF FailSettle, Settled
<1>23. ASSUME NEW r \in Requests, FailKey(r)
       PROVE  TypeOK'
  BY <1>23, AnswerType, RecordOutcomeType DEF FailKey
<1>24. ASSUME NEW r \in Requests, HandlerReturns(r)
       PROVE  TypeOK'
  <2>1. CASE Goto(r, "settle")
    BY <1>24, <2>1, GotoType, KnownPoints DEF HandlerReturns
  <2>2. CASE call' = [call EXCEPT ![r].pc = "rejectOutput", ![r].failure = "output"]
    <3>1. call' = [call EXCEPT ![r].failure = "output", ![r].pc = "rejectOutput"]
      BY <2>2
    <3> QED
      BY <1>24, <3>1, ThrowType, KnownPoints DEF HandlerReturns
  <2>3. CASE AfterFailure(r, "transient") \/ AfterFailure(r, "permanent")
    BY <1>24, <2>3, ThrowType, KnownPoints DEF HandlerReturns, AfterFailure
  <2> QED
    BY <1>24, <2>1, <2>2, <2>3 DEF HandlerReturns
<1>25. ASSUME NEW r \in Requests, Timeout(r)
       PROVE  TypeOK'
  BY <1>25 DEF Timeout
<1>26. ASSUME NEW r \in Requests, StoreFault(r)
       PROVE  TypeOK'
  <2>1. faults' \in Nat
    <3>1. faults' = faults + 1
      BY <1>26 DEF StoreFault
    <3> QED
      BY <3>1
  <2>2. UNCHANGED <<stored, idem, now, budgets, audit, runs, cancels, expiries, crashes>>
    BY <1>26 DEF StoreFault
  <2>3. CASE Answer(r, "rejected", r) /\ UNCHANGED signals
    BY <2>1, <2>2, <2>3, AnswerType
  <2>4. CASE /\ \E s \in CopyAtFault(r) :
                  call' = [call EXCEPT ![r].rec = s, ![r].pc = "fail", ![r].failure = "store"]
             /\ signals' = [signals EXCEPT ![r] = IF At(r, "start") THEN "armed" ELSE @]
             /\ UNCHANGED reply
    <3>1. CopyAtFault(r) \subseteq States \cup {"none"}
      BY DEF CopyAtFault, States, Frames
    <3>2. PICK s \in States \cup {"none"} :
            call' = [call EXCEPT ![r].rec = s, ![r].pc = "fail", ![r].failure = "store"]
      BY <2>4, <3>1
    <3>3. call' \in [Requests -> Frames]
      BY <3>2, KnownPoints, FaultType
    <3>4. signals' \in [Requests -> {"none", "armed", "TIMEOUT", "CANCELLED"}]
      BY <2>4
    <3> QED
      BY <2>1, <2>2, <2>4, <3>3, <3>4
  <2> QED
    BY <1>26, <2>3, <2>4 DEF StoreFault
<1>27. ASSUME NEW c \in Cancellers, NEW r \in Requests, CancelLoad(c, r)
       PROVE  TypeOK'
  BY <1>27 DEF CancelLoad, CancelFrames
<1>28. ASSUME NEW c \in Cancellers, CancelStop(c)
       PROVE  TypeOK'
  BY <1>28 DEF CancelStop, CancelFrames
<1>29. ASSUME NEW c \in Cancellers, CancelBegin(c)
       PROVE  TypeOK'
  BY <1>29 DEF CancelBegin, CancelFrames, States
<1>30. ASSUME NEW c \in Cancellers, CancelFinish(c)
       PROVE  TypeOK'
  BY <1>30 DEF CancelFinish, CancelFrames, States
<1>31. ASSUME NEW c \in Cancellers, CancelFault(c)
       PROVE  TypeOK'
  <2>1. /\ cancels' = [cancels EXCEPT ![c].at = "done", ![c].copy = "none"]
        /\ UNCHANGED <<call, stores, signals, runs, reply, expiries, crashes>>
    BY <1>31 DEF CancelFault
  <2>2. cancels' \in [Cancellers -> CancelFrames]
    BY <2>1, CancelDoneType
  <2>3. faults' \in Nat
    BY <1>31 DEF CancelFault
  <2> QED
    BY <2>1, <2>2, <2>3
<1>32. ASSUME NEW k \in Keys, Expire(k)
       PROVE  TypeOK'
  <2>1. idem' \in [Keys -> Rows]
    BY ZenonT(30), <1>32 DEF Expire, Rows
  <2>2. now' \in [Keys -> Nat]
    BY <1>32 DEF Expire
  <2> QED
    BY <1>32, <2>1, <2>2 DEF Expire
<1>33. ASSUME NEW k \in Keys, Gc(k)
       PROVE  TypeOK'
  BY <1>33 DEF Gc, NoRow, Rows
<1>34. CASE Crash
  <2>1. call' \in [Requests -> Frames]
    BY ZenonT(30), <1>34, KnownPoints DEF Crash, Frames
  <2>2. cancels' \in [Cancellers -> CancelFrames]
    <3>1. \A c \in Cancellers : [cancels[c] EXCEPT !.at = "done", !.copy = "none"] \in CancelFrames
      <4>1. \A f \in CancelFrames : [f EXCEPT !.at = "done", !.copy = "none"] \in CancelFrames
        BY DEF CancelFrames
      <4> QED
        BY <4>1
    <3> QED
      BY <1>34, <3>1 DEF Crash
  <2>3. crashes' \in Nat
    <3>1. crashes' = crashes + 1
      BY <1>34 DEF Crash
    <3> QED
      BY <3>1
  <2>4. signals' \in [Requests -> {"none", "armed", "TIMEOUT", "CANCELLED"}]
    BY <1>34 DEF Crash
  <2>5. UNCHANGED <<stores, runs, reply, faults, expiries>>
    BY <1>34 DEF Crash
  <2> QED
    BY <2>1, <2>2, <2>3, <2>4, <2>5
<1>35. CASE UNCHANGED vars
  BY <1>35 DEF vars
<1> QED
  BY <1>1, <1>2, <1>3, <1>4, <1>5, <1>6, <1>7, <1>8, <1>9, <1>10, <1>11, <1>12, <1>13, <1>14,
     <1>15, <1>16, <1>17, <1>18, <1>19, <1>20, <1>21, <1>22, <1>23, <1>24, <1>25, <1>26, <1>27,
     <1>28, <1>29, <1>30, <1>31, <1>32, <1>33, <1>34, <1>35
     DEF Next, EngineStep, CancelStep, Terminating

------------------------------------------------------------------------------
(* One call per key and window.                                            *)

\* What every step but a reservation and an expiry does: no window changes, no
\* call comes back before its reservation or gets behind it, and the row that
\* answers for a key keeps answering for its owner.
KeepsFrames ==
  \A x \in Requests :
    /\ call'[x].window = call[x].window
    /\ Keyed(x) /\ call'[x].pc \in Reserved => call[x].pc \in Reserved
    /\ call'[x].pc \in {"idle", "lookup", "reserve"}
       => /\ call[x].pc \in {"idle", "lookup", "reserve"}
          /\ call'[x].pc # "idle" => Keyed(x)
    /\ runs'[x] > 0 => runs[x] > 0 \/ call[x].pc \in Reserved

KeepsRows ==
  /\ now' = now
  /\ \A k \in Keys : Blocks(idem[k]) => Blocks(idem'[k]) /\ idem'[k].owner = idem[k].owner

\* Such a step preserves the invariant.
LEMMA KeepsWindows ==
  ASSUME TypeOK, WindowInv, KeepsFrames, KeepsRows
  PROVE  WindowInv'
<1>0. \A r \in Requests : Keyed(r) => KeyOf[r] \in Keys
  BY KeysAssumption DEF Keyed
<1>1. WindowTaken' /\ WindowFresh' /\ OnlyKeyedLook'
  BY DEF WindowInv, WindowTaken, WindowFresh, OnlyKeyedLook, KeepsFrames, Keyed
<1>2. WindowOwned'
  BY <1>0 DEF WindowInv, WindowOwned, KeepsFrames, KeepsRows, Keyed
<1>3. WindowsDiffer'
  BY DEF WindowInv, WindowsDiffer, KeepsFrames, Keyed
<1> QED
  BY <1>1, <1>2, <1>3 DEF WindowInv

\* A step of one call that is behind its reservation and stays behind it.
LEMMA BehindReserve ==
  ASSUME OnlyKeyedLook, NEW r \in Requests, call[r].pc \in Reserved,
         call'[r].pc \notin {"idle", "lookup", "reserve"},
         call'[r].window = call[r].window,
         \A x \in Requests \ {r} : call'[x] = call[x] /\ runs'[x] = runs[x]
  PROVE  KeepsFrames
<1> SUFFICES ASSUME NEW x \in Requests
             PROVE  /\ call'[x].window = call[x].window
                    /\ Keyed(x) /\ call'[x].pc \in Reserved => call[x].pc \in Reserved
                    /\ call'[x].pc \in {"idle", "lookup", "reserve"}
                       => /\ call[x].pc \in {"idle", "lookup", "reserve"}
                          /\ call'[x].pc # "idle" => Keyed(x)
                    /\ runs'[x] > 0 => runs[x] > 0 \/ call[x].pc \in Reserved
  BY DEF KeepsFrames
<1>1. CASE x = r
  BY <1>1
<1>2. CASE x # r
  BY <1>2 DEF OnlyKeyedLook
<1> QED
  BY <1>1, <1>2

\* A call that ends, wherever it was.
LEMMA AnswerKeeps ==
  ASSUME TypeOK, OnlyKeyedLook, NEW r \in Requests, NEW status, NEW y,
         Answer(r, status, y), UNCHANGED runs
  PROVE  KeepsFrames
PROOF BY DEF TypeOK, Frames, OnlyKeyedLook, Answer, Goto, KeepsFrames, Reserved, Guarded, Catching

\* A step that leaves the calls alone.
LEMMA SameFrames ==
  ASSUME OnlyKeyedLook, UNCHANGED <<call, runs>>
  PROVE  KeepsFrames
PROOF BY DEF OnlyKeyedLook, KeepsFrames

LEMMA SameRows ==
  ASSUME UNCHANGED <<idem, now>>
  PROVE  KeepsRows
PROOF BY DEF KeepsRows

\* update() leaves the row to its owner and its TTL.
LEMMA OutcomeRows ==
  ASSUME TypeOK, NEW r \in Requests, NEW state \in {"completed", "failed"},
         RecordOutcome(r, state), now' = now
  PROVE  KeepsRows
PROOF BY DEF KeepsRows, RecordOutcome, Updated, Blocks, TypeOK, Rows

\* Every step but a reservation and an expiry is of that kind.
LEMMA StepKeeps ==
  ASSUME TypeOK, OnlyKeyedLook
  PROVE  /\ \A r \in Requests :
              \/ Refuse(r) \/ Admit(r) \/ Lookup(r) \/ RefuseDuration(r) \/ ReserveBudget(r)
              \/ ReleaseKey(r) \/ Create(r) \/ Advance(r) \/ Start(r) \/ Aborted(r)
              \/ Attempt(r) \/ Resume(r) \/ HandlerReturns(r) \/ Backoff(r) \/ RejectOutput(r)
              \/ Report(r) \/ Settle(r) \/ Complete(r) \/ RecordKey(r) \/ Audit(r)
              \/ Fail(r) \/ FailSettle(r) \/ FailKey(r) \/ Timeout(r) \/ StoreFault(r)
              => KeepsFrames /\ KeepsRows
         /\ \A c \in Cancellers :
              CancelStep(c) \/ CancelFault(c) \/ (\E r \in Requests : CancelLoad(c, r))
              => KeepsFrames /\ KeepsRows
         /\ \A k \in Keys : Gc(k) => KeepsFrames /\ KeepsRows
         /\ Crash \/ UNCHANGED vars => KeepsFrames /\ KeepsRows
<1> USE DEF TypeOK, Frames, stores, bounds
<1>1. ASSUME NEW r \in Requests, RefuseDuration(r)
      PROVE  KeepsFrames /\ KeepsRows
  <2>1. KeepsFrames
    BY <1>1, BehindReserve DEF RefuseDuration, At, Goto, Answer, Transition, Reserved, Guarded, Catching
  <2>2. KeepsRows
    BY <1>1, SameRows DEF RefuseDuration
  <2> QED
    BY <2>1, <2>2
<1>2. ASSUME NEW r \in Requests, ReserveBudget(r)
      PROVE  KeepsFrames /\ KeepsRows
  <2>1. KeepsFrames
    BY <1>2, BehindReserve DEF ReserveBudget, At, Goto, Answer, Transition, Reserved, Guarded, Catching
  <2>2. KeepsRows
    BY <1>2, SameRows DEF ReserveBudget
  <2> QED
    BY <2>1, <2>2
<1>3. ASSUME NEW r \in Requests, ReleaseKey(r)
      PROVE  KeepsFrames /\ KeepsRows
  <2>1. KeepsFrames
    BY <1>3, BehindReserve DEF ReleaseKey, At, Goto, Answer, Transition, Reserved, Guarded, Catching
  <2>2. KeepsRows
    BY <1>3, OutcomeRows DEF ReleaseKey
  <2> QED
    BY <2>1, <2>2
<1>4. ASSUME NEW r \in Requests, Create(r)
      PROVE  KeepsFrames /\ KeepsRows
  <2>1. KeepsFrames
    BY <1>4, BehindReserve DEF Create, At, Goto, Answer, Transition, Reserved, Guarded, Catching
  <2>2. KeepsRows
    BY <1>4, SameRows DEF Create
  <2> QED
    BY <2>1, <2>2
<1>5. ASSUME NEW r \in Requests, Advance(r)
      PROVE  KeepsFrames /\ KeepsRows
  <2>1. KeepsFrames
    BY <1>5, BehindReserve DEF Advance, At, Goto, Answer, Transition, Reserved, Guarded, Catching
  <2>2. KeepsRows
    BY <1>5, SameRows DEF Advance
  <2> QED
    BY <2>1, <2>2
<1>6. ASSUME NEW r \in Requests, Start(r)
      PROVE  KeepsFrames /\ KeepsRows
  <2>1. KeepsFrames
    BY <1>6, BehindReserve DEF Start, At, Goto, Answer, Transition, Reserved, Guarded, Catching
  <2>2. KeepsRows
    BY <1>6, SameRows DEF Start
  <2> QED
    BY <2>1, <2>2
<1>7. ASSUME NEW r \in Requests, Aborted(r)
      PROVE  KeepsFrames /\ KeepsRows
  <2>1. KeepsFrames
    BY <1>7, BehindReserve DEF Aborted, AfterFailure, At, Goto, Answer, Transition, Reserved, Guarded, Catching
  <2>2. KeepsRows
    BY <1>7, SameRows DEF Aborted
  <2> QED
    BY <2>1, <2>2
<1>8. ASSUME NEW r \in Requests, Attempt(r)
      PROVE  KeepsFrames /\ KeepsRows
  <2>1. KeepsFrames
    BY <1>8, BehindReserve DEF Attempt, CallHandler, At, Goto, Answer, Transition, Reserved, Guarded, Catching
  <2>2. KeepsRows
    BY <1>8, SameRows DEF Attempt
  <2> QED
    BY <2>1, <2>2
<1>9. ASSUME NEW r \in Requests, Resume(r)
      PROVE  KeepsFrames /\ KeepsRows
  <2>1. KeepsFrames
    BY <1>9, BehindReserve DEF Resume, CallHandler, At, Goto, Answer, Transition, Reserved, Guarded, Catching
  <2>2. KeepsRows
    BY <1>9, SameRows DEF Resume
  <2> QED
    BY <2>1, <2>2
<1>10. ASSUME NEW r \in Requests, HandlerReturns(r)
      PROVE  KeepsFrames /\ KeepsRows
  <2>1. KeepsFrames
    BY <1>10, BehindReserve DEF HandlerReturns, AfterFailure, At, Goto, Answer, Transition, Reserved, Guarded, Catching
  <2>2. KeepsRows
    BY <1>10, SameRows DEF HandlerReturns
  <2> QED
    BY <2>1, <2>2
<1>11. ASSUME NEW r \in Requests, Backoff(r)
      PROVE  KeepsFrames /\ KeepsRows
  <2>1. KeepsFrames
    BY <1>11, BehindReserve DEF Backoff, At, Goto, Answer, Transition, Reserved, Guarded, Catching
  <2>2. KeepsRows
    BY <1>11, SameRows DEF Backoff
  <2> QED
    BY <2>1, <2>2
<1>12. ASSUME NEW r \in Requests, RejectOutput(r)
      PROVE  KeepsFrames /\ KeepsRows
  <2>1. KeepsFrames
    BY <1>12, BehindReserve DEF RejectOutput, At, Goto, Answer, Transition, Reserved, Guarded, Catching
  <2>2. KeepsRows
    BY <1>12, SameRows DEF RejectOutput
  <2> QED
    BY <2>1, <2>2
<1>13. ASSUME NEW r \in Requests, Report(r)
      PROVE  KeepsFrames /\ KeepsRows
  <2>1. KeepsFrames
    BY <1>13, BehindReserve DEF Report, At, Goto, Answer, Transition, Reserved, Guarded, Catching
  <2>2. KeepsRows
    BY <1>13, SameRows DEF Report
  <2> QED
    BY <2>1, <2>2
<1>14. ASSUME NEW r \in Requests, Settle(r)
      PROVE  KeepsFrames /\ KeepsRows
  <2>1. KeepsFrames
    BY <1>14, BehindReserve DEF Settle, At, Goto, Answer, Transition, Reserved, Guarded, Catching
  <2>2. KeepsRows
    BY <1>14, SameRows DEF Settle
  <2> QED
    BY <2>1, <2>2
<1>15. ASSUME NEW r \in Requests, Complete(r)
      PROVE  KeepsFrames /\ KeepsRows
  <2>1. KeepsFrames
    BY <1>15, BehindReserve DEF Complete, At, Goto, Answer, Transition, Reserved, Guarded, Catching
  <2>2. KeepsRows
    BY <1>15, SameRows DEF Complete
  <2> QED
    BY <2>1, <2>2
<1>16. ASSUME NEW r \in Requests, RecordKey(r)
      PROVE  KeepsFrames /\ KeepsRows
  <2>1. KeepsFrames
    BY <1>16, BehindReserve DEF RecordKey, At, Goto, Answer, Transition, Reserved, Guarded, Catching
  <2>2. KeepsRows
    BY <1>16, OutcomeRows DEF RecordKey
  <2> QED
    BY <2>1, <2>2
<1>17. ASSUME NEW r \in Requests, Audit(r)
      PROVE  KeepsFrames /\ KeepsRows
  <2>1. KeepsFrames
    BY <1>17, BehindReserve DEF Audit, At, Goto, Answer, Transition, Reserved, Guarded, Catching
  <2>2. KeepsRows
    BY <1>17, SameRows DEF Audit
  <2> QED
    BY <2>1, <2>2
<1>18. ASSUME NEW r \in Requests, Fail(r)
      PROVE  KeepsFrames /\ KeepsRows
  <2>1. KeepsFrames
    BY <1>18, BehindReserve DEF Fail, At, Goto, Answer, Transition, Reserved, Guarded, Catching
  <2>2. KeepsRows
    BY <1>18, SameRows DEF Fail
  <2> QED
    BY <2>1, <2>2
<1>19. ASSUME NEW r \in Requests, FailSettle(r)
      PROVE  KeepsFrames /\ KeepsRows
  <2>1. KeepsFrames
    BY <1>19, BehindReserve DEF FailSettle, At, Goto, Answer, Transition, Reserved, Guarded, Catching
  <2>2. KeepsRows
    BY <1>19, SameRows DEF FailSettle
  <2> QED
    BY <2>1, <2>2
<1>20. ASSUME NEW r \in Requests, FailKey(r)
      PROVE  KeepsFrames /\ KeepsRows
  <2>1. KeepsFrames
    BY <1>20, BehindReserve DEF FailKey, At, Goto, Answer, Transition, Reserved, Guarded, Catching
  <2>2. KeepsRows
    BY <1>20, OutcomeRows DEF FailKey
  <2> QED
    BY <2>1, <2>2
<1>21. ASSUME NEW r \in Requests, Refuse(r)
       PROVE  KeepsFrames /\ KeepsRows
  BY <1>21, AnswerKeeps, SameRows DEF Refuse
<1>22. ASSUME NEW r \in Requests, Admit(r)
       PROVE  KeepsFrames /\ KeepsRows
  <2>1. CASE Keyed(r)
    BY <1>22, <2>1, SameRows DEF Admit, At, Goto, KeepsFrames, OnlyKeyedLook, Reserved, Guarded, Catching
  <2>2. CASE ~Keyed(r)
    BY <1>22, <2>2, SameRows DEF Admit, At, Goto, KeepsFrames, OnlyKeyedLook, Reserved, Guarded, Catching
  <2> QED
    BY <2>1, <2>2
<1>23. ASSUME NEW r \in Requests, Lookup(r)
       PROVE  KeepsFrames /\ KeepsRows
  <2> DEFINE row == idem[KeyOf[r]]
  <2>1. CASE Blocks(row)
    BY <1>23, <2>1, AnswerKeeps, SameRows DEF Lookup
  <2>2. CASE ~Blocks(row)
    <3>1. KeepsFrames
      BY <1>23, <2>2 DEF Lookup, At, Goto, KeepsFrames, OnlyKeyedLook, Reserved, Guarded, Catching
    <3>2. KeepsRows
      BY <1>23, <2>2 DEF Lookup, KeepsRows
    <3> QED
      BY <3>1, <3>2
  <2> QED
    BY <2>1, <2>2
<1>24. ASSUME NEW r \in Requests, Timeout(r)
       PROVE  KeepsFrames /\ KeepsRows
  BY <1>24, SameFrames, SameRows DEF Timeout
<1>25. ASSUME NEW r \in Requests, StoreFault(r)
       PROVE  KeepsFrames /\ KeepsRows
  <2>1. UNCHANGED <<idem, now, runs>>
    BY <1>25 DEF StoreFault
  <2>2. CASE Answer(r, "rejected", r)
    BY <2>1, <2>2, AnswerKeeps, SameRows
  <2>3. CASE /\ call[r].pc \in Guarded
             /\ \E s \in CopyAtFault(r) :
                  call' = [call EXCEPT ![r].rec = s, ![r].pc = "fail", ![r].failure = "store"]
    <3>1. PICK s : call' = [call EXCEPT ![r].rec = s, ![r].pc = "fail", ![r].failure = "store"]
      BY <2>3
    <3>2. call'[r].pc = "fail" /\ call'[r].window = call[r].window
      BY <3>1
    <3> QED
      BY <2>1, <2>3, <3>1, <3>2, BehindReserve, SameRows DEF Reserved
  <2> QED
    BY <1>25, <2>2, <2>3 DEF StoreFault
<1>26. ASSUME NEW c \in Cancellers,
              CancelStep(c) \/ CancelFault(c) \/ (\E r \in Requests : CancelLoad(c, r))
       PROVE  KeepsFrames /\ KeepsRows
  <2>1. UNCHANGED <<call, runs, idem, now>>
    BY <1>26 DEF CancelStep, CancelStop, CancelBegin, CancelFinish, CancelFault, CancelLoad
  <2> QED
    BY <2>1, SameFrames, SameRows
<1>27. ASSUME NEW k \in Keys, Gc(k)
       PROVE  KeepsFrames /\ KeepsRows
  <2>1. KeepsRows
    BY <1>27 DEF Gc, KeepsRows, Blocks, Rows
  <2> QED
    BY <1>27, <2>1, SameFrames DEF Gc
<1>28. CASE Crash
  <2>0. \A x \in Requests :
          call'[x].window = call[x].window /\ (call'[x].pc = "crashed" \/ call'[x] = call[x])
    BY ZenonT(30), <1>28 DEF Crash
  <2>1. KeepsFrames
    BY <1>28, <2>0 DEF Crash, KeepsFrames, OnlyKeyedLook, Reserved, Guarded, Catching
  <2> QED
    BY <1>28, <2>1, SameRows DEF Crash
<1>29. CASE UNCHANGED vars
  BY <1>29, SameFrames, SameRows DEF vars
<1> QED
  BY <1>1, <1>2, <1>3, <1>4, <1>5, <1>6, <1>7, <1>8, <1>9, <1>10, <1>11, <1>12, <1>13, <1>14,
     <1>15, <1>16, <1>17, <1>18, <1>19, <1>20, <1>21, <1>22, <1>23, <1>24, <1>25, <1>26, <1>27,
     <1>28, <1>29

\* A reservation is made only of a key that no current window covers.
LEMMA ReserveWindows ==
  ASSUME TypeOK, WindowInv, NEW r \in Requests, Reserve(r)
  PROVE  WindowInv'
<1> USE DEF TypeOK, Frames
<1> DEFINE k == KeyOf[r]
           row == idem[k]
<1>1. k \in Keys /\ Keyed(r) /\ call[r].pc = "reserve" /\ call[r].window = NoWindow
  BY KeysAssumption DEF WindowInv, OnlyKeyedLook, WindowFresh, Reserve, At, Keyed
<1>2. UNCHANGED <<now, runs>>
  BY DEF Reserve, stores
<1>3. CASE \/ Answer(r, "accepted", row.owner) /\ UNCHANGED idem
           \/ Answer(r, "rejected", NoReq) /\ UNCHANGED idem
  <2>1. KeepsFrames
    BY <1>2, <1>3, AnswerKeeps DEF WindowInv
  <2>2. KeepsRows
    BY <1>2, <1>3, SameRows
  <2> QED
    BY <2>1, <2>2, KeepsWindows
<1>4. CASE /\ ~Blocks(row)
           /\ call' = [call EXCEPT ![r].pc = "budget", ![r].window = now[k]]
           /\ idem' = [idem EXCEPT ![k] = [state |-> "running", owner |-> r, live |-> TRUE]]
  <2>1. /\ call'[r].pc = "budget" /\ call'[r].window = now[k]
        /\ \A x \in Requests \ {r} : call'[x] = call[x]
    BY <1>4
  <2>2. now[k] \in Nat /\ now[k] # NoWindow
    BY <1>1 DEF NoWindow
  <2>3. \A x \in Requests : KeyOf[x] = k => call[x].window # now[k]
    BY <1>1, <1>4, <2>2 DEF WindowInv, WindowOwned, Keyed
  <2>4. WindowTaken' /\ WindowFresh' /\ OnlyKeyedLook'
    <3>1. \A x \in Requests : x = r \/ (call'[x] = call[x] /\ runs'[x] = runs[x])
      BY <1>2, <2>1
    <3>2. WindowTaken'
      BY <2>1, <2>2, <3>1 DEF WindowInv, WindowTaken, Keyed
    <3>3. WindowFresh'
      BY <2>1, <3>1 DEF WindowInv, WindowFresh
    <3>4. OnlyKeyedLook'
      BY <2>1, <3>1 DEF WindowInv, OnlyKeyedLook, Keyed
    <3> QED
      BY <3>2, <3>3, <3>4
  <2>5. WindowOwned'
    <3>1. ASSUME NEW x \in Requests, Keyed(x), call'[x].window # NoWindow
          PROVE  /\ call'[x].window <= now[KeyOf[x]]
                 /\ call'[x].window = now[KeyOf[x]]
                    => Blocks(idem'[KeyOf[x]]) /\ idem'[KeyOf[x]].owner = x
      <4>1. CASE x = r
        BY <1>1, <1>4, <2>1, <2>2, <4>1 DEF Blocks
      <4>2. CASE x # r /\ KeyOf[x] = k
        BY <1>1, <2>1, <2>3, <3>1, <4>2 DEF WindowInv, WindowOwned
      <4>3. CASE x # r /\ KeyOf[x] # k
        <5>1. idem'[KeyOf[x]] = idem[KeyOf[x]]
          BY <1>1, <1>4, <3>1, <4>3, KeysAssumption DEF Keyed
        <5> QED
          BY <2>1, <3>1, <4>3, <5>1 DEF WindowInv, WindowOwned
      <4> QED
        BY <4>1, <4>2, <4>3
    <3> QED
      BY <1>2, <3>1 DEF WindowOwned, Keyed
  <2>6. WindowsDiffer'
    BY <1>1, <2>1, <2>2, <2>3 DEF WindowInv, WindowsDiffer, Keyed
  <2> QED
    BY <2>4, <2>5, <2>6 DEF WindowInv
<1> QED
  BY <1>3, <1>4 DEF Reserve

\* After an expiry no call of the key is in the current window.
LEMMA ExpireWindows ==
  ASSUME TypeOK, WindowInv, NEW k \in Keys, Expire(k)
  PROVE  WindowInv'
<1> USE DEF TypeOK, Frames
<1>1. UNCHANGED <<call, runs>>
  BY DEF Expire
<1>2. WindowTaken' /\ WindowFresh' /\ OnlyKeyedLook' /\ WindowsDiffer'
  BY <1>1 DEF WindowInv, WindowTaken, WindowFresh, OnlyKeyedLook, WindowsDiffer, Keyed
<1>3. WindowOwned'
  <2>1. ASSUME NEW x \in Requests, Keyed(x), call[x].window # NoWindow
        PROVE  /\ call[x].window <= now'[KeyOf[x]]
               /\ call[x].window = now'[KeyOf[x]]
                  => Blocks(idem'[KeyOf[x]]) /\ idem'[KeyOf[x]].owner = x
    <3>1. KeyOf[x] \in Keys
      BY <2>1, KeysAssumption DEF Keyed
    <3>2. /\ call[x].window <= now[KeyOf[x]]
          /\ call[x].window = now[KeyOf[x]]
             => Blocks(idem[KeyOf[x]]) /\ idem[KeyOf[x]].owner = x
      BY <2>1 DEF WindowInv, WindowOwned
    <3>3. CASE KeyOf[x] = k
      <4>1. now'[k] = now[k] + 1
        BY DEF Expire
      <4> QED
        BY <3>1, <3>2, <3>3, <4>1
    <3>4. CASE KeyOf[x] # k
      <4>1. now'[KeyOf[x]] = now[KeyOf[x]] /\ idem'[KeyOf[x]] = idem[KeyOf[x]]
        BY <3>1, <3>4 DEF Expire
      <4> QED
        BY <3>2, <4>1
    <3> QED
      BY <3>3, <3>4
  <2> QED
    BY <1>1, <2>1 DEF WindowOwned, Keyed
<1> QED
  BY <1>2, <1>3 DEF WindowInv

LEMMA WindowStep ==
  ASSUME TypeOK, WindowInv, [Next]_vars
  PROVE  WindowInv'
<1>1. OnlyKeyedLook
  BY DEF WindowInv
<1>2. CASE \E r \in Requests : Reserve(r)
  BY <1>2, ReserveWindows
<1>3. CASE \E k \in Keys : Expire(k)
  BY <1>3, ExpireWindows
<1>4. CASE KeepsFrames /\ KeepsRows
  BY <1>4, KeepsWindows
<1> QED
  BY <1>1, <1>2, <1>3, <1>4, StepKeeps DEF Next, EngineStep, Terminating

LEMMA InitType ==
  ASSUME Init
  PROVE  TypeOK
PROOF BY KeysAssumption DEF Init, TypeOK, Frames, Points, InFlight, Rows, NoRow, Replies, NoReply,
         CancelFrames, NoWindow

LEMMA InitWindows ==
  ASSUME Init
  PROVE  WindowInv
PROOF BY DEF Init, WindowInv, WindowTaken, WindowFresh, OnlyKeyedLook, WindowOwned, WindowsDiffer,
         Reserved, Guarded, Catching, NoWindow

THEOREM Inductive == Spec => [](TypeOK /\ WindowInv)
<1>1. Init => TypeOK /\ WindowInv
  BY InitType, InitWindows
<1>2. TypeOK /\ WindowInv /\ [Next]_vars => (TypeOK /\ WindowInv)'
  <2> SUFFICES ASSUME TypeOK, WindowInv, [Next]_vars
               PROVE  TypeOK' /\ WindowInv'
    OBVIOUS
  <2>1. OnlyKeyedLook
    BY DEF WindowInv
  <2> QED
    BY <2>1, TypeStep, WindowStep
<1> QED
  BY <1>1, <1>2, PTL DEF Spec

\* The types hold whatever the interleaving: no step of execute(), cancel(),
\* a timer, a failing store or a crash puts a value where the code that reads
\* it does not expect it.
THEOREM TypeCorrect == Spec => []TypeOK
<1> QED
  BY Inductive, PTL

\* Step 8: whatever fails, times out, is cancelled or crashes, two calls with
\* one key both reach the handler only in different TTL windows of the key.
THEOREM OneRunPerWindow == Spec => []AtMostOncePerWindow
<1>1. TypeOK /\ WindowInv => AtMostOncePerWindow
  BY DEF TypeOK, WindowInv, WindowTaken, WindowsDiffer, AtMostOncePerWindow, Keyed
<1> QED
  BY <1>1, Inductive, PTL

------------------------------------------------------------------------------
(* The abstract specifications.                                            *)

\* The mapping, abbreviated.
Holder   == [k \in Keys |-> IF Blocks(idem[k]) THEN idem[k].owner ELSE NoReq]
Admitted == {r \in Requests : call[r].window # NoWindow}
Begun    == {r \in Requests : runs[r] > 0}
ToldOf(r) == IF reply[r] = NoReply THEN NoReq
             ELSE IF reply[r].exec = NoReq THEN r ELSE reply[r].exec
Told     == [r \in Requests |-> ToldOf(r)]

------------------------------------------------------------------------------
(* What the mapping needs beyond types and windows.                        *)

\* A call that has not ended was not answered.
Unanswered ==
  \A r \in Requests : call[r].pc # "done" => reply[r] = NoReply

\* A row that is there has an owner.
OwnedRows ==
  \A k \in Keys : idem[k].state # "none" => idem[k].owner \in Requests

MapInv == Unanswered /\ OwnedRows

\* The holders stay what they were.
SameHolders == OwnedRows' /\ Holder' = Holder

\* The call was in flight, and ends with an answer that names itself or nobody.
EndsItself(r) ==
  /\ call[r].pc # "done"
  /\ \E status \in {"refused", "too_long", "accepted", "completed", "error", "rejected"} :
       Answer(r, status, r) \/ Answer(r, status, NoReq)
  /\ UNCHANGED runs
  /\ SameHolders

\* Nothing is answered, and no call comes back.
Silent ==
  /\ UNCHANGED reply
  /\ \A x \in Requests : /\ call[x].pc = "done" => call'[x].pc = "done"
                         /\ call'[x].window = call[x].window

------------------------------------------------------------------------------

LEMMA SameIdem ==
  ASSUME OwnedRows, UNCHANGED idem
  PROVE  SameHolders
PROOF BY DEF OwnedRows, SameHolders, Holder

LEMMA OutcomeHolders ==
  ASSUME TypeOK, OwnedRows, NEW r \in Requests, NEW state \in {"completed", "failed"},
         RecordOutcome(r, state)
  PROVE  SameHolders
PROOF BY DEF TypeOK, Rows, OwnedRows, SameHolders, Holder, RecordOutcome, Updated, Blocks

\* A silent step without a handler call is a stutter.
LEMMA SilentStutters ==
  ASSUME TypeOK, MapInv, Silent, SameHolders, UNCHANGED runs
  PROVE  MapInv' /\ UNCHANGED Calls!vars
<1>1. Unanswered'
  BY DEF MapInv, Unanswered, Silent
<1>2. Admitted' = Admitted /\ Begun' = Begun /\ Told' = Told
  BY DEF Silent, Admitted, Begun, Told, ToldOf
<1> QED
  BY <1>1, <1>2 DEF MapInv, SameHolders, Calls!vars, Holder, Admitted, Begun, Told, ToldOf

\* A call that ends by itself finishes.
LEMMA EndFinishes ==
  ASSUME TypeOK, MapInv, NEW r \in Requests, EndsItself(r)
  PROVE  MapInv' /\ Calls!Finish(r)
<1>1. PICK status \in {"refused", "too_long", "accepted", "completed", "error", "rejected"}, x \in {r, NoReq} :
        Answer(r, status, x)
  BY DEF EndsItself
<1>2. call' = [call EXCEPT ![r].pc = "done"]
      /\ reply' = [reply EXCEPT ![r] = [status |-> status, exec |-> x]]
  BY <1>1 DEF Answer, Goto
<1>3. Unanswered'
  BY <1>2 DEF TypeOK, Frames, MapInv, Unanswered
<1>4. Admitted' = Admitted /\ Begun' = Begun
  BY <1>2 DEF TypeOK, Frames, EndsItself, Admitted, Begun
<1>5. Told[r] = NoReq
  BY DEF EndsItself, MapInv, Unanswered, Told, ToldOf
<1>6. Told' = [Told EXCEPT ![r] = r]
  BY <1>2 DEF TypeOK, Told, ToldOf, NoReply
<1> QED
  BY <1>3, <1>4, <1>5, <1>6 DEF EndsItself, SameHolders, MapInv, Calls!Finish, Holder, Admitted, Begun, Told, ToldOf

\* A silent step that calls the handler begins.
LEMMA HandlerBegins ==
  ASSUME TypeOK, WindowInv, MapInv, Silent, SameHolders, NEW r \in Requests,
         call[r].pc \in Reserved, CallHandler(r)
  PROVE  MapInv' /\ Calls!Begin(r)
<1>1. Unanswered'
  BY DEF MapInv, Unanswered, Silent
<1>2. Admitted' = Admitted /\ Told' = Told
  BY DEF Silent, Admitted, Told, ToldOf
<1>3. Begun' = Begun \cup {r}
  BY DEF TypeOK, CallHandler, Begun
<1>4. call[r].pc # "done"
  BY DEF Reserved, Guarded, Catching
<1>5. Told[r] = NoReq
  BY <1>4 DEF MapInv, Unanswered, Told, ToldOf
<1>6. KeyOf[r] = NoKey \/ r \in Admitted
  BY DEF WindowInv, WindowTaken, Keyed, Admitted
<1> QED
  BY <1>1, <1>2, <1>3, <1>5, <1>6
     DEF SameHolders, MapInv, Calls!Begin, Holder, Admitted, Begun, Told, ToldOf

\* An answer from the row replays.
LEMMA RowReplays ==
  ASSUME TypeOK, WindowInv, MapInv, NEW r \in Requests,
         call[r].pc \in {"lookup", "reserve"}, Blocks(idem[KeyOf[r]]),
         \E status : Answer(r, status, idem[KeyOf[r]].owner), UNCHANGED <<idem, runs>>
  PROVE  MapInv' /\ Calls!Replay(r)
<1> DEFINE k == KeyOf[r]
           x == idem[k].owner
<1>1. k \in Keys /\ Keyed(r) /\ call[r].window = NoWindow
  BY KeysAssumption DEF WindowInv, OnlyKeyedLook, WindowFresh, Keyed
<1>2. x \in Requests /\ x # NoReq
  BY <1>1, KeysAssumption DEF MapInv, OwnedRows, Blocks
<1>3. PICK status : /\ call' = [call EXCEPT ![r].pc = "done"]
                    /\ reply' = [reply EXCEPT ![r] = [status |-> status, exec |-> x]]
  BY DEF Answer, Goto
<1>4. MapInv'
  BY <1>3 DEF TypeOK, Frames, MapInv, Unanswered, OwnedRows
<1>5. Admitted' = Admitted /\ Begun' = Begun /\ Holder' = Holder
  BY <1>3 DEF TypeOK, Frames, Admitted, Begun, Holder
<1>6. Told[r] = NoReq /\ r \notin Admitted
  BY <1>1 DEF MapInv, Unanswered, Told, ToldOf, Admitted
<1>7. Holder[k] = x
  BY <1>1 DEF Holder
<1>8. Told' = [Told EXCEPT ![r] = x]
  BY <1>2, <1>3 DEF TypeOK, Told, ToldOf, NoReply
<1> QED
  BY <1>1, <1>2, <1>4, <1>5, <1>6, <1>7, <1>8
     DEF Calls!Replay, Keyed, Holder, Admitted, Begun, Told, ToldOf

\* A reservation claims.
LEMMA ReserveClaims ==
  ASSUME TypeOK, WindowInv, MapInv, NEW r \in Requests, Reserve(r),
         ~Blocks(idem[KeyOf[r]]), UNCHANGED reply,
         call' = [call EXCEPT ![r].pc = "budget", ![r].window = now[KeyOf[r]]],
         idem' = [idem EXCEPT ![KeyOf[r]] = [state |-> "running", owner |-> r, live |-> TRUE]]
  PROVE  MapInv' /\ Calls!Claim(r)
<1> DEFINE k == KeyOf[r]
<1>1. k \in Keys /\ Keyed(r) /\ call[r].pc = "reserve" /\ call[r].window = NoWindow
  BY KeysAssumption DEF WindowInv, OnlyKeyedLook, WindowFresh, Reserve, At, Keyed
<1>2. now[k] # NoWindow
  BY <1>1 DEF TypeOK, NoWindow
<1>3. /\ call'[r].pc = "budget" /\ call'[r].window = now[k]
      /\ \A x \in Requests \ {r} : call'[x] = call[x]
  BY DEF TypeOK, Frames
<1>4. UNCHANGED runs
  BY DEF Reserve
<1>5. Unanswered'
  BY <1>1, <1>3 DEF MapInv, Unanswered
<1>6. OwnedRows'
  BY <1>1 DEF TypeOK, MapInv, OwnedRows
<1>7. Told[r] = NoReq /\ r \notin Admitted
  BY <1>1 DEF MapInv, Unanswered, Told, ToldOf, Admitted
<1>8. Holder[k] = NoReq /\ Holder' = [Holder EXCEPT ![k] = r]
  BY <1>1 DEF TypeOK, Holder, Blocks
<1>9. Admitted' = Admitted \cup {r}
  BY <1>2, <1>3 DEF Admitted
<1>10. Begun' = Begun /\ Told' = Told
  BY <1>4 DEF Begun, Told, ToldOf
<1> QED
  BY <1>1, <1>5, <1>6, <1>7, <1>8, <1>9, <1>10
     DEF MapInv, Calls!Claim, Keyed, Holder, Admitted, Begun, Told, ToldOf

\* The end of a TTL releases.
LEMMA ExpireReleases ==
  ASSUME TypeOK, MapInv, NEW k \in Keys, Expire(k)
  PROVE  MapInv' /\ Calls!Release(k)
<1>1. UNCHANGED <<call, runs, reply>>
  BY DEF Expire
<1>2. OwnedRows'
  BY DEF Expire, TypeOK, Rows, MapInv, OwnedRows
<1>3. Holder' = [Holder EXCEPT ![k] = NoReq]
  BY DEF Expire, TypeOK, Rows, Holder, Blocks
<1>4. Unanswered'
  BY <1>1 DEF MapInv, Unanswered
<1>5. Admitted' = Admitted /\ Begun' = Begun /\ Told' = Told
  BY <1>1 DEF Admitted, Begun, Told, ToldOf
<1> QED
  BY <1>2, <1>3, <1>4, <1>5 DEF MapInv, Calls!Release, Holder, Admitted, Begun, Told, ToldOf

\* One call moves and was in flight.
LEMMA CallSilent ==
  ASSUME NEW r \in Requests, call[r].pc # "done", call'[r].window = call[r].window,
         \A x \in Requests \ {r} : call'[x] = call[x], UNCHANGED reply
  PROVE  Silent
<1> SUFFICES ASSUME NEW x \in Requests
             PROVE  /\ call[x].pc = "done" => call'[x].pc = "done"
                    /\ call'[x].window = call[x].window
  BY DEF Silent
<1>1. CASE x = r
  BY <1>1
<1>2. CASE x # r
  BY <1>2
<1> QED
  BY <1>1, <1>2

\* Every step of the engine is a step of KeyedCalls or stutters.
LEMMA StepMaps ==
  ASSUME TypeOK, WindowInv, MapInv, [Next]_vars
  PROVE  MapInv' /\ [Calls!Next]_(Calls!vars)
<1> USE DEF TypeOK, Frames, stores, bounds
<1>a. OwnedRows
  BY DEF MapInv
<1>1. ASSUME NEW r \in Requests, Refuse(r)
      PROVE  MapInv' /\ [Calls!Next]_(Calls!vars)
  <2>1. EndsItself(r)
    BY <1>1, <1>a, SameIdem DEF Refuse, EndsItself, At
  <2> QED
    BY <2>1, EndFinishes DEF Calls!Next
<1>2. ASSUME NEW r \in Requests, RefuseDuration(r)
      PROVE  MapInv' /\ [Calls!Next]_(Calls!vars)
  <2>1. EndsItself(r)
    BY <1>2, <1>a, SameIdem DEF RefuseDuration, EndsItself, At
  <2> QED
    BY <2>1, EndFinishes DEF Calls!Next
<1>3. ASSUME NEW r \in Requests, Report(r)
      PROVE  MapInv' /\ [Calls!Next]_(Calls!vars)
  <2>1. EndsItself(r)
    BY <1>3, <1>a, SameIdem DEF Report, EndsItself, At
  <2> QED
    BY <2>1, EndFinishes DEF Calls!Next
<1>4. ASSUME NEW r \in Requests, Audit(r)
      PROVE  MapInv' /\ [Calls!Next]_(Calls!vars)
  <2>1. EndsItself(r)
    BY <1>4, <1>a, SameIdem DEF Audit, EndsItself, At
  <2> QED
    BY <2>1, EndFinishes DEF Calls!Next
<1>5. ASSUME NEW r \in Requests, ReleaseKey(r)
      PROVE  MapInv' /\ [Calls!Next]_(Calls!vars)
  <2>1. SameHolders
    BY <1>5, <1>a, OutcomeHolders DEF ReleaseKey
  <2>2. EndsItself(r)
    BY <1>5, <2>1 DEF ReleaseKey, EndsItself, At
  <2> QED
    BY <2>2, EndFinishes DEF Calls!Next
<1>6. ASSUME NEW r \in Requests, FailKey(r)
      PROVE  MapInv' /\ [Calls!Next]_(Calls!vars)
  <2>1. SameHolders
    BY <1>6, <1>a, OutcomeHolders DEF FailKey
  <2>2. EndsItself(r)
    BY <1>6, <2>1 DEF FailKey, EndsItself, At
  <2> QED
    BY <2>2, EndFinishes DEF Calls!Next
<1>7. ASSUME NEW r \in Requests, Admit(r)
      PROVE  MapInv' /\ [Calls!Next]_(Calls!vars)
  <2>1. Silent
    BY <1>7, CallSilent DEF Admit, At, Goto
  <2> QED
    BY <1>7, <1>a, <2>1, SameIdem, SilentStutters DEF Admit
<1>8. ASSUME NEW r \in Requests, ReserveBudget(r)
      PROVE  MapInv' /\ [Calls!Next]_(Calls!vars)
  <2>1. Silent
    BY <1>8, CallSilent DEF ReserveBudget, At, Goto
  <2> QED
    BY <1>8, <1>a, <2>1, SameIdem, SilentStutters DEF ReserveBudget
<1>9. ASSUME NEW r \in Requests, Create(r)
      PROVE  MapInv' /\ [Calls!Next]_(Calls!vars)
  <2>1. Silent
    BY <1>9, CallSilent DEF Create, At, Goto
  <2> QED
    BY <1>9, <1>a, <2>1, SameIdem, SilentStutters DEF Create
<1>10. ASSUME NEW r \in Requests, Advance(r)
       PROVE  MapInv' /\ [Calls!Next]_(Calls!vars)
  <2>1. Silent
    BY <1>10, CallSilent DEF Advance, Transition, At, Goto
  <2> QED
    BY <1>10, <1>a, <2>1, SameIdem, SilentStutters DEF Advance
<1>11. ASSUME NEW r \in Requests, Start(r)
       PROVE  MapInv' /\ [Calls!Next]_(Calls!vars)
  <2>1. Silent
    BY <1>11, CallSilent DEF Start, At, Goto
  <2> QED
    BY <1>11, <1>a, <2>1, SameIdem, SilentStutters DEF Start
<1>12. ASSUME NEW r \in Requests, Aborted(r)
       PROVE  MapInv' /\ [Calls!Next]_(Calls!vars)
  <2>1. Silent
    BY <1>12, CallSilent DEF Aborted, AfterFailure, At, Goto
  <2> QED
    BY <1>12, <1>a, <2>1, SameIdem, SilentStutters DEF Aborted
<1>13. ASSUME NEW r \in Requests, HandlerReturns(r)
       PROVE  MapInv' /\ [Calls!Next]_(Calls!vars)
  <2>1. Silent
    BY <1>13, CallSilent DEF HandlerReturns, AfterFailure, At, Goto
  <2> QED
    BY <1>13, <1>a, <2>1, SameIdem, SilentStutters DEF HandlerReturns
<1>14. ASSUME NEW r \in Requests, Backoff(r)
       PROVE  MapInv' /\ [Calls!Next]_(Calls!vars)
  <2>1. Silent
    BY <1>14, CallSilent DEF Backoff, At, Goto
  <2> QED
    BY <1>14, <1>a, <2>1, SameIdem, SilentStutters DEF Backoff
<1>15. ASSUME NEW r \in Requests, RejectOutput(r)
       PROVE  MapInv' /\ [Calls!Next]_(Calls!vars)
  <2>1. Silent
    BY <1>15, CallSilent DEF RejectOutput, Transition, At, Goto
  <2> QED
    BY <1>15, <1>a, <2>1, SameIdem, SilentStutters DEF RejectOutput
<1>16. ASSUME NEW r \in Requests, Settle(r)
       PROVE  MapInv' /\ [Calls!Next]_(Calls!vars)
  <2>1. Silent
    BY <1>16, CallSilent DEF Settle, At, Goto
  <2> QED
    BY <1>16, <1>a, <2>1, SameIdem, SilentStutters DEF Settle
<1>17. ASSUME NEW r \in Requests, Complete(r)
       PROVE  MapInv' /\ [Calls!Next]_(Calls!vars)
  <2>1. Silent
    BY <1>17, CallSilent DEF Complete, Transition, At, Goto
  <2> QED
    BY <1>17, <1>a, <2>1, SameIdem, SilentStutters DEF Complete
<1>18. ASSUME NEW r \in Requests, Fail(r)
       PROVE  MapInv' /\ [Calls!Next]_(Calls!vars)
  <2>1. Silent
    BY <1>18, CallSilent DEF Fail, At, Goto
  <2> QED
    BY <1>18, <1>a, <2>1, SameIdem, SilentStutters DEF Fail
<1>19. ASSUME NEW r \in Requests, FailSettle(r)
       PROVE  MapInv' /\ [Calls!Next]_(Calls!vars)
  <2>1. Silent
    BY <1>19, CallSilent DEF FailSettle, At, Goto
  <2> QED
    BY <1>19, <1>a, <2>1, SameIdem, SilentStutters DEF FailSettle
<1>20. ASSUME NEW r \in Requests, RecordKey(r)
       PROVE  MapInv' /\ [Calls!Next]_(Calls!vars)
  <2>1. Silent
    BY <1>20, CallSilent DEF RecordKey, At, Goto
  <2>2. SameHolders
    BY <1>20, <1>a, OutcomeHolders DEF RecordKey
  <2> QED
    BY <1>20, <2>1, <2>2, SilentStutters DEF RecordKey
<1>21. ASSUME NEW r \in Requests, Lookup(r)
       PROVE  MapInv' /\ [Calls!Next]_(Calls!vars)
  <2> DEFINE row == idem[KeyOf[r]]
  <2>1. CASE Blocks(row)
    <3>1. /\ call[r].pc = "lookup" /\ UNCHANGED <<idem, runs>>
          /\ \E status : Answer(r, status, row.owner)
      BY <1>21, <2>1 DEF Lookup, At
    <3>2. MapInv' /\ Calls!Replay(r)
      BY <2>1, <3>1, RowReplays
    <3> QED
      BY <3>2 DEF Calls!Next
  <2>2. CASE ~Blocks(row)
    <3>1. Silent
      BY <1>21, <2>2, CallSilent DEF Lookup, At, Goto
    <3>2. /\ UNCHANGED runs
          /\ idem' = idem \/ idem' = [idem EXCEPT ![KeyOf[r]] = NoRow]
      BY <1>21, <2>2 DEF Lookup
    <3>3. OwnedRows'
      BY <1>a, <3>2 DEF OwnedRows, NoRow
    <3>4. Holder' = Holder
      BY <2>2, <3>2 DEF Holder, Blocks, NoRow
    <3> QED
      BY <3>1, <3>2, <3>3, <3>4, SilentStutters DEF SameHolders
  <2> QED
    BY <2>1, <2>2
<1>22. ASSUME NEW r \in Requests, Reserve(r)
       PROVE  MapInv' /\ [Calls!Next]_(Calls!vars)
  <2> DEFINE row == idem[KeyOf[r]]
  <2>1. call[r].pc = "reserve" /\ UNCHANGED runs
    BY <1>22 DEF Reserve, At
  <2>2. CASE Blocks(row) /\ (\E status : Answer(r, status, row.owner)) /\ UNCHANGED idem
    <3>1. MapInv' /\ Calls!Replay(r)
      BY <2>1, <2>2, RowReplays
    <3> QED
      BY <3>1 DEF Calls!Next
  <2>3. CASE Answer(r, "rejected", NoReq) /\ UNCHANGED idem
    <3>1. EndsItself(r)
      BY <1>a, <2>1, <2>3, SameIdem DEF EndsItself
    <3> QED
      BY <3>1, EndFinishes DEF Calls!Next
  <2>4. CASE /\ ~Blocks(row) /\ UNCHANGED reply
             /\ call' = [call EXCEPT ![r].pc = "budget", ![r].window = now[KeyOf[r]]]
             /\ idem' = [idem EXCEPT ![KeyOf[r]] =
                           [state |-> "running", owner |-> r, live |-> TRUE]]
    BY <1>22, <2>4, ReserveClaims DEF Calls!Next
  <2> QED
    BY <1>22, <2>2, <2>3, <2>4 DEF Reserve
<1>23. ASSUME NEW r \in Requests, Attempt(r) \/ Resume(r)
       PROVE  MapInv' /\ [Calls!Next]_(Calls!vars)
  <2>1. Silent
    BY SMTT(30), <1>23, CallSilent DEF Attempt, Resume, Transition, At, Goto
  <2>2. SameHolders
    BY <1>23, <1>a, SameIdem DEF Attempt, Resume
  <2>3. call[r].pc \in Reserved
    BY <1>23 DEF Attempt, Resume, At, Reserved, Guarded
  <2>4. CASE UNCHANGED runs
    BY <2>1, <2>2, <2>4, SilentStutters
  <2>5. CASE CallHandler(r)
    BY <2>1, <2>2, <2>3, <2>5, HandlerBegins DEF Calls!Next
  <2> QED
    BY <1>23, <2>4, <2>5 DEF Attempt, Resume
<1>24. ASSUME NEW r \in Requests, StoreFault(r)
       PROVE  MapInv' /\ [Calls!Next]_(Calls!vars)
  <2>1. call[r].pc # "done" /\ UNCHANGED <<idem, runs>>
    BY <1>24 DEF StoreFault, Unguarded, Guarded, Catching
  <2>2. CASE Answer(r, "rejected", r)
    <3>1. EndsItself(r)
      BY <1>a, <2>1, <2>2, SameIdem DEF EndsItself
    <3> QED
      BY <3>1, EndFinishes DEF Calls!Next
  <2>3. CASE /\ UNCHANGED reply
             /\ \E s \in CopyAtFault(r) :
                  call' = [call EXCEPT ![r].rec = s, ![r].pc = "fail", ![r].failure = "store"]
    <3>1. Silent
      BY <2>1, <2>3, CallSilent
    <3> QED
      BY <1>a, <2>1, <3>1, SameIdem, SilentStutters
  <2> QED
    BY <1>24, <2>2, <2>3 DEF StoreFault
<1>25. ASSUME NEW r \in Requests, Timeout(r)
       PROVE  MapInv' /\ [Calls!Next]_(Calls!vars)
  <2>1. Silent
    BY <1>25 DEF Timeout, Silent
  <2> QED
    BY <1>25, <1>a, <2>1, SameIdem, SilentStutters DEF Timeout
<1>26. ASSUME NEW c \in Cancellers, CancelStep(c) \/ CancelFault(c) \/ (\E r \in Requests : CancelLoad(c, r))
       PROVE  MapInv' /\ [Calls!Next]_(Calls!vars)
  <2>1. UNCHANGED <<call, runs, reply, idem>>
    BY <1>26 DEF CancelStep, CancelStop, CancelBegin, CancelFinish, CancelFault, CancelLoad
  <2>2. Silent
    BY <2>1 DEF Silent
  <2> QED
    BY <1>a, <2>1, <2>2, SameIdem, SilentStutters
<1>27. ASSUME NEW k \in Keys, Gc(k)
       PROVE  MapInv' /\ [Calls!Next]_(Calls!vars)
  <2>1. Silent
    BY <1>27 DEF Gc, Silent
  <2>2. OwnedRows' /\ Holder' = Holder
    BY <1>27, <1>a DEF Gc, OwnedRows, NoRow, Holder, Blocks
  <2> QED
    BY <1>27, <2>1, <2>2, SilentStutters DEF Gc, SameHolders
<1>28. ASSUME NEW k \in Keys, Expire(k)
       PROVE  MapInv' /\ [Calls!Next]_(Calls!vars)
  BY <1>28, ExpireReleases DEF Calls!Next
<1>29. CASE Crash
  <2>1. \A x \in Requests : /\ call[x].pc = "done" => call'[x].pc = "done"
                            /\ call'[x].window = call[x].window
    <3>1. "done" \notin InFlight
      BY DEF InFlight, Unguarded, Guarded, Catching
    <3>2. /\ DOMAIN call' = Requests
          /\ \A x \in Requests : call'[x] = IF call[x].pc \in InFlight
                                           THEN [call[x] EXCEPT !.pc = "crashed"] ELSE call[x]
      BY <1>29 DEF Crash
    <3>3. \A x \in Requests : [call[x] EXCEPT !.pc = "crashed"].window = call[x].window
      BY DEF TypeOK, Frames
    <3> QED
      BY <3>1, <3>2, <3>3
  <2>2. Silent
    BY <1>29, <2>1 DEF Crash, Silent
  <2> QED
    BY <1>29, <1>a, <2>2, SameIdem, SilentStutters DEF Crash
<1>30. CASE UNCHANGED vars
  <2>1. UNCHANGED <<call, runs, reply, idem>>
    BY <1>30 DEF vars
  <2>2. Silent
    BY <2>1 DEF Silent
  <2> QED
    BY <1>a, <2>1, <2>2, SameIdem, SilentStutters
<1> HIDE DEF TypeOK, Frames, stores, bounds
<1>31. ASSUME NEW r \in Requests, EngineStep(r)
       PROVE  MapInv' /\ [Calls!Next]_(Calls!vars)
  BY <1>2, <1>3, <1>4, <1>5, <1>6, <1>8, <1>9, <1>10, <1>11, <1>12, <1>14, <1>15, <1>16, <1>17,
     <1>18, <1>19, <1>20, <1>21, <1>22, <1>23, <1>31 DEF EngineStep
<1>32. ASSUME Next
       PROVE  MapInv' /\ [Calls!Next]_(Calls!vars)
  <2>1. CASE \E r \in Requests : \/ Refuse(r) \/ Admit(r) \/ EngineStep(r) \/ HandlerReturns(r)
                               \/ Timeout(r) \/ StoreFault(r)
    BY <1>1, <1>7, <1>13, <1>24, <1>25, <1>31, <2>1
  <2>2. CASE \E c \in Cancellers : \/ \E r \in Requests : CancelLoad(c, r)
                                 \/ CancelStep(c) \/ CancelFault(c)
    BY <1>26, <2>2
  <2>3. CASE \E k \in Keys : Expire(k) \/ Gc(k)
    BY <1>27, <1>28, <2>3
  <2>4. CASE Terminating
    BY <1>30, <2>4 DEF Terminating
  <2> QED
    BY <1>29, <1>32, <2>1, <2>2, <2>3, <2>4 DEF Next
<1> QED
  BY <1>30, <1>32

LEMMA InitMaps ==
  ASSUME Init
  PROVE  MapInv /\ Calls!Init
<1>1. MapInv
  BY DEF Init, MapInv, Unanswered, OwnedRows, NoRow
<1>2. Holder = [k \in Keys |-> NoReq] /\ Told = [r \in Requests |-> NoReq]
  BY DEF Init, Holder, Blocks, NoRow, Told, ToldOf
<1>3. Admitted = {} /\ Begun = {}
  BY DEF Init, Admitted, Begun
<1> QED
  BY <1>1, <1>2, <1>3 DEF Calls!Init, Holder, Admitted, Begun, Told, ToldOf

\* Step 8 keeps what KeyedCalls promises: one holder per key and window, only
\* the holder begins, every other call is told the holder and never begins.
THEOREM EngineRefinesKeyedCalls == Spec => ImplementsKeyedCalls
<1>1. Init => MapInv /\ Calls!Init
  BY InitMaps
<1>2. TypeOK /\ WindowInv /\ MapInv /\ [Next]_vars => MapInv' /\ [Calls!Next]_(Calls!vars)
  BY StepMaps
<1> QED
  BY <1>1, <1>2, Inductive, PTL DEF Spec, ImplementsKeyedCalls, Calls!Spec

------------------------------------------------------------------------------
(* The stored record and the copy of the call.                             *)


\* Some cancel() was called on r.
Targeted(r) == \E c \in Cancellers : cancels[c].target = r

\* Points before the record is first saved, and points where it is not final.
Before == {"idle", "lookup", "reserve", "budget", "releaseKey", "create"}
Working == {"advance", "start", "attempt", "resume", "handler", "backoff", "settle",
            "complete", "rejectOutput"}

\* A cancel() that was not called yet has no target.
IdleUntargeted ==
  \A c \in Cancellers : cancels[c].at = "idle" => cancels[c].target = NoReq

\* While a call works on its execution, its copy is not final.
WorkingLive ==
  \A r \in Requests : call[r].pc \in Working => call[r].rec \notin Terminal

\* Without a cancel(), what is stored is final only if the call's copy is, and
\* nothing is stored before the call saves it.
CopyLeads ==
  \A r \in Requests : ~Targeted(r) =>
    /\ stored[r] \in Terminal => call[r].rec \in Terminal
    /\ call[r].pc \in Before => stored[r] = "none"

RecordInv == IdleUntargeted /\ WorkingLive /\ CopyLeads

------------------------------------------------------------------------------

\* The table: nothing leaves a terminal state.
LEMMA TerminalIsLast ==
  ASSUME NEW from, NEW to, CanTransition(from, to)
  PROVE  from \notin Terminal
PROOF BY DEF CanTransition, AllowedTransitions, Waiting, Terminal

\* What a step of one call may do to its record and its row.
RecordMove(r) ==
  /\ \A x \in Requests \ {r} : call'[x] = call[x] /\ stored'[x] = stored[x]
  /\ \/ stored'[r] = stored[r] /\ call'[r].rec = call[r].rec
     \/ stored'[r] = stored[r] /\ call[r].rec \notin Terminal
     \/ call[r].rec \notin Terminal /\ stored'[r] = call'[r].rec
     \/ call[r].pc = "create" /\ stored'[r] = "created" /\ call'[r].rec = "created"
  /\ call'[r].pc \in Working => call'[r].rec \notin Terminal
  /\ call'[r].pc \in Before => call[r].pc \in Before /\ stored'[r] = stored[r]
  /\ UNCHANGED cancels

\* Such a step preserves the invariant and disturbs nothing.
LEMMA MoveKeeps ==
  ASSUME RecordInv, NEW r \in Requests, RecordMove(r)
  PROVE  /\ RecordInv'
         /\ \A x \in Requests : stored[x] \in Terminal /\ stored'[x] # stored[x] => Targeted(x)
<1>1. IdleUntargeted'
  BY DEF RecordInv, IdleUntargeted, RecordMove
<1>2. WorkingLive'
  <2>1. ASSUME NEW x \in Requests, call'[x].pc \in Working
        PROVE  call'[x].rec \notin Terminal
    <3>1. CASE x = r
      BY <2>1, <3>1 DEF RecordMove
    <3>2. CASE x # r
      BY <2>1, <3>2 DEF RecordMove, RecordInv, WorkingLive
    <3> QED
      BY <3>1, <3>2
  <2> QED
    BY <2>1 DEF WorkingLive
<1>3. \A x \in Requests : Targeted(x)' <=> Targeted(x)
  BY DEF Targeted, RecordMove
<1>4. CopyLeads'
  <2>1. ASSUME NEW x \in Requests, ~Targeted(x)
        PROVE  /\ stored'[x] \in Terminal => call'[x].rec \in Terminal
               /\ call'[x].pc \in Before => stored'[x] = "none"
    <3>0. /\ stored[x] \in Terminal => call[x].rec \in Terminal
          /\ call[x].pc \in Before => stored[x] = "none"
      BY <2>1 DEF RecordInv, CopyLeads
    <3>1. CASE x = r
      BY <3>0, <3>1 DEF RecordMove
    <3>2. CASE x # r
      BY <3>0, <3>2 DEF RecordMove
    <3> QED
      BY <3>1, <3>2
  <2> QED
    BY <1>3, <2>1 DEF CopyLeads
<1>5. ASSUME NEW x \in Requests, stored[x] \in Terminal, stored'[x] # stored[x]
      PROVE  Targeted(x)
  <2>1. x = r
    BY <1>5 DEF RecordMove
  <2>2. SUFFICES ASSUME ~Targeted(r) PROVE FALSE
    BY <2>1
  <2>3. call[r].rec \in Terminal /\ (call[r].pc \in Before => stored[r] = "none")
    BY <1>5, <2>1, <2>2 DEF RecordInv, CopyLeads
  <2> QED
    BY <1>5, <2>1, <2>3 DEF RecordMove, Before, Terminal
<1> QED
  BY <1>1, <1>2, <1>4, <1>5 DEF RecordInv

\* Every step of a call is of that kind.
LEMMA CallMoves ==
  ASSUME TypeOK, RecordInv, NEW r \in Requests,
         \/ Refuse(r) \/ Admit(r) \/ EngineStep(r) \/ HandlerReturns(r) \/ StoreFault(r)
  PROVE  RecordMove(r)
<1> USE DEF TypeOK, Frames, stores, bounds, Terminal
<1>1. CASE Refuse(r)
  BY <1>1, TerminalIsLast DEF Refuse, RecordMove, Before, Working, RecordInv, WorkingLive, Answer, Goto, At
<1>2. CASE Admit(r)
  BY <1>2, TerminalIsLast DEF Admit, RecordMove, Before, Working, RecordInv, WorkingLive, Answer, Goto, At
<1>3. CASE Lookup(r)
  BY <1>3, TerminalIsLast DEF Lookup, RecordMove, Before, Working, RecordInv, WorkingLive, Answer, Goto, At
<1>4. CASE Reserve(r)
  BY <1>4, TerminalIsLast DEF Reserve, RecordMove, Before, Working, RecordInv, WorkingLive, Answer, Goto, At
<1>5. CASE RefuseDuration(r)
  BY <1>5, TerminalIsLast DEF RefuseDuration, RecordMove, Before, Working, RecordInv, WorkingLive, Answer, Goto, At
<1>6. CASE ReserveBudget(r)
  BY <1>6, TerminalIsLast DEF ReserveBudget, RecordMove, Before, Working, RecordInv, WorkingLive, Answer, Goto, At
<1>7. CASE ReleaseKey(r)
  BY <1>7, TerminalIsLast DEF ReleaseKey, RecordMove, Before, Working, RecordInv, WorkingLive, Answer, Goto, At
<1>8. CASE Create(r)
  BY <1>8, TerminalIsLast DEF Create, RecordMove, Before, Working, RecordInv, WorkingLive, Answer, Goto, At
<1>9. CASE Advance(r)
  BY <1>9, TerminalIsLast DEF Advance, RecordMove, Before, Working, RecordInv, WorkingLive, Answer, Goto, At, Transition
<1>10. CASE Start(r)
  BY <1>10, TerminalIsLast DEF Start, RecordMove, Before, Working, RecordInv, WorkingLive, Answer, Goto, At
<1>11. CASE Aborted(r)
  BY <1>11, TerminalIsLast DEF Aborted, RecordMove, Before, Working, RecordInv, WorkingLive, Answer, Goto, At, AfterFailure
<1>12. CASE Attempt(r)
  BY <1>12, TerminalIsLast DEF Attempt, RecordMove, Before, Working, RecordInv, WorkingLive, Answer, Goto, At, Transition
<1>13. CASE Resume(r)
  BY <1>13, TerminalIsLast DEF Resume, RecordMove, Before, Working, RecordInv, WorkingLive, Answer, Goto, At, Transition
<1>14. CASE HandlerReturns(r)
  BY <1>14, TerminalIsLast DEF HandlerReturns, RecordMove, Before, Working, RecordInv, WorkingLive, Answer, Goto, At, AfterFailure
<1>15. CASE Backoff(r)
  BY <1>15, TerminalIsLast DEF Backoff, RecordMove, Before, Working, RecordInv, WorkingLive, Answer, Goto, At
<1>16. CASE RejectOutput(r)
  BY <1>16, TerminalIsLast DEF RejectOutput, RecordMove, Before, Working, RecordInv, WorkingLive, Answer, Goto, At, Transition
<1>17. CASE Report(r)
  BY <1>17, TerminalIsLast DEF Report, RecordMove, Before, Working, RecordInv, WorkingLive, Answer, Goto, At
<1>18. CASE Settle(r)
  BY <1>18, TerminalIsLast DEF Settle, RecordMove, Before, Working, RecordInv, WorkingLive, Answer, Goto, At
<1>19. CASE Complete(r)
  BY <1>19, TerminalIsLast DEF Complete, RecordMove, Before, Working, RecordInv, WorkingLive, Answer, Goto, At, Transition
<1>20. CASE RecordKey(r)
  BY <1>20, TerminalIsLast DEF RecordKey, RecordMove, Before, Working, RecordInv, WorkingLive, Answer, Goto, At
<1>21. CASE Audit(r)
  BY <1>21, TerminalIsLast DEF Audit, RecordMove, Before, Working, RecordInv, WorkingLive, Answer, Goto, At
<1>22. CASE Fail(r)
  BY <1>22, TerminalIsLast DEF Fail, RecordMove, Before, Working, RecordInv, WorkingLive, Answer, Goto, At, MayFail
<1>23. CASE FailSettle(r)
  BY <1>23, TerminalIsLast DEF FailSettle, RecordMove, Before, Working, RecordInv, WorkingLive, Answer, Goto, At
<1>24. CASE FailKey(r)
  BY <1>24, TerminalIsLast DEF FailKey, RecordMove, Before, Working, RecordInv, WorkingLive, Answer, Goto, At
<1>25. CASE StoreFault(r)
  <2>1. UNCHANGED <<stored, cancels>>
    BY <1>25 DEF StoreFault
  <2>2. CASE Answer(r, "rejected", r)
    BY <2>1, <2>2 DEF RecordMove, Before, Working, Answer, Goto
  <2>3. CASE /\ call[r].pc \in Guarded
             /\ \E s \in CopyAtFault(r) :
                  call' = [call EXCEPT ![r].rec = s, ![r].pc = "fail", ![r].failure = "store"]
    <3>1. PICK s \in CopyAtFault(r) :
            call' = [call EXCEPT ![r].rec = s, ![r].pc = "fail", ![r].failure = "store"]
      BY <2>3
    <3>2. call[r].rec \notin Terminal \/ s = call[r].rec
      BY <3>1 DEF CopyAtFault, At, RecordInv, WorkingLive, Working
    <3> QED
      BY <2>1, <3>1, <3>2 DEF RecordMove, Before, Working
  <2> QED
    BY <1>25, <2>2, <2>3 DEF StoreFault
<1> QED
  BY <1>1, <1>2, <1>3, <1>4, <1>5, <1>6, <1>7, <1>8, <1>9, <1>10, <1>11, <1>12, <1>13, <1>14, <1>15,
     <1>16, <1>17, <1>18, <1>19, <1>20, <1>21, <1>22, <1>23, <1>24, <1>25 DEF EngineStep

------------------------------------------------------------------------------

\* What any other step does: no call's copy moves, nobody loses the cancel()
\* it was the target of, and only such a target's row is written.
OtherMove ==
  /\ \A r \in Requests : /\ call'[r].rec = call[r].rec
                         /\ call'[r].pc \in {call[r].pc, "crashed"}
                         /\ Targeted(r) => Targeted(r)'
                         /\ stored'[r] # stored[r] => Targeted(r)
  /\ IdleUntargeted'

\* Such a step preserves the invariant and disturbs nothing.
LEMMA OtherKeeps ==
  ASSUME RecordInv, OtherMove
  PROVE  /\ RecordInv'
         /\ \A x \in Requests : stored[x] \in Terminal /\ stored'[x] # stored[x] => Targeted(x)
<1>1. WorkingLive'
  BY DEF WorkingLive, Working, RecordInv, OtherMove
<1>2. ASSUME NEW r \in Requests, ~Targeted(r)'
      PROVE  /\ stored'[r] \in Terminal => call'[r].rec \in Terminal
             /\ call'[r].pc \in Before => stored'[r] = "none"
  <2>1. ~Targeted(r) /\ stored'[r] = stored[r]
    BY <1>2 DEF OtherMove
  <2> QED
    BY <2>1 DEF OtherMove, RecordInv, CopyLeads, Before
<1>3. CopyLeads'
  BY <1>2 DEF CopyLeads
<1> QED
  BY <1>1, <1>3 DEF RecordInv, OtherMove

\* The frames of cancel(): once set, a target stays.
LEMMA CancelMoves ==
  ASSUME TypeOK, RecordInv, NEW c \in Cancellers,
         \/ \E r \in Requests : CancelLoad(c, r)
         \/ CancelStep(c) \/ CancelFault(c)
  PROVE  OtherMove
<1> USE DEF TypeOK, CancelFrames, stores, bounds
<1>1. CASE \E r \in Requests : CancelLoad(c, r)
  <2>1. PICK r \in Requests : CancelLoad(c, r)
    BY <1>1
  <2>2. cancels[c].target = NoReq /\ UNCHANGED <<call, stored>>
    BY <2>1 DEF CancelLoad, RecordInv, IdleUntargeted
  <2>3. \A x \in Cancellers \ {c} : cancels'[x] = cancels[x]
    BY <2>1 DEF CancelLoad
  <2>4. cancels'[c].at # "idle"
    BY <2>1 DEF CancelLoad
  <2>5. \A x \in Requests : Targeted(x) => Targeted(x)'
    BY <2>2, <2>3, KeysAssumption DEF Targeted
  <2>6. IdleUntargeted'
    BY <2>3, <2>4 DEF RecordInv, IdleUntargeted
  <2> QED
    BY <2>2, <2>5, <2>6 DEF OtherMove
<1>2. CASE CancelStep(c) \/ CancelFault(c)
  <2>1. /\ cancels[c].at # "idle" /\ cancels'[c].at # "idle"
        /\ cancels'[c].target = cancels[c].target
        /\ \A x \in Cancellers \ {c} : cancels'[x] = cancels[x]
    <3>1. CASE CancelStop(c)
      BY <3>1 DEF CancelStop
    <3>2. CASE CancelBegin(c)
      BY <3>2 DEF CancelBegin
    <3>3. CASE CancelFinish(c)
      BY <3>3 DEF CancelFinish
    <3>4. CASE CancelFault(c)
      BY <3>4 DEF CancelFault
    <3> QED
      BY <1>2, <3>1, <3>2, <3>3, <3>4 DEF CancelStep
  <2>2. UNCHANGED call /\ \A x \in Requests : x # cancels[c].target => stored'[x] = stored[x]
    BY <1>2 DEF CancelStep, CancelStop, CancelBegin, CancelFinish, CancelFault
  <2>3. \A x \in Requests : Targeted(x) => Targeted(x)'
    BY <2>1 DEF Targeted
  <2>4. \A x \in Requests : stored'[x] # stored[x] => Targeted(x)
    BY <2>2 DEF Targeted
  <2>5. IdleUntargeted'
    BY <2>1 DEF RecordInv, IdleUntargeted
  <2> QED
    BY <2>2, <2>3, <2>4, <2>5 DEF OtherMove
<1> QED
  BY <1>1, <1>2

\* The environment.
LEMMA EnvironmentMoves ==
  ASSUME TypeOK, RecordInv,
         \/ \E r \in Requests : Timeout(r)
         \/ \E k \in Keys : Expire(k) \/ Gc(k)
         \/ Crash
         \/ UNCHANGED vars
  PROVE  OtherMove
<1>1. CASE Crash
  <2>1. ASSUME NEW r \in Requests
        PROVE  call'[r].rec = call[r].rec /\ call'[r].pc \in {call[r].pc, "crashed"}
    <3>1. call'[r] = [call[r] EXCEPT !.pc = "crashed"] \/ call'[r] = call[r]
      BY <1>1 DEF Crash
    <3>2. call[r] \in Frames
      BY DEF TypeOK
    <3> QED
      BY <3>1, <3>2 DEF Frames
  <2>2. UNCHANGED stored
    BY <1>1 DEF Crash, stores
  <2>3. ASSUME NEW c \in Cancellers
        PROVE  /\ cancels'[c].target = cancels[c].target
               /\ cancels'[c].at = "idle" => cancels[c].at = "idle"
    <3>1. \/ cancels'[c] = [cancels[c] EXCEPT !.at = "done", !.copy = "none"]
          \/ cancels'[c] = cancels[c]
      BY <1>1 DEF Crash
    <3>2. cancels[c] \in CancelFrames
      BY DEF TypeOK
    <3> QED
      BY <3>1, <3>2 DEF CancelFrames
  <2> QED
    BY <2>1, <2>2, <2>3 DEF OtherMove, Targeted, RecordInv, IdleUntargeted
<1>2. CASE UNCHANGED <<call, stored, cancels>>
  BY <1>2 DEF OtherMove, Targeted, RecordInv, IdleUntargeted
<1> QED
  BY <1>1, <1>2 DEF Timeout, Expire, Gc, vars, stores, bounds

\* So every step does.
LEMMA RecordStep ==
  ASSUME TypeOK, RecordInv, [Next]_vars
  PROVE  /\ RecordInv'
         /\ \A x \in Requests : stored[x] \in Terminal /\ stored'[x] # stored[x] => Targeted(x)
<1>1. CASE \E r \in Requests :
             Refuse(r) \/ Admit(r) \/ EngineStep(r) \/ HandlerReturns(r) \/ StoreFault(r)
  BY <1>1, CallMoves, MoveKeeps
<1>2. CASE \E c \in Cancellers : \/ \E r \in Requests : CancelLoad(c, r)
                                \/ CancelStep(c) \/ CancelFault(c)
  BY <1>2, CancelMoves, OtherKeeps
<1>3. CASE \/ \E r \in Requests : Timeout(r)
           \/ \E k \in Keys : Expire(k) \/ Gc(k)
           \/ Crash
           \/ UNCHANGED vars
  BY <1>3, EnvironmentMoves, OtherKeeps
<1> QED
  BY <1>1, <1>2, <1>3 DEF Next, Terminating

\* The invariant holds of every reachable state: without a cancel(), what the
\* ExecutionStore holds of an execution is final only if its call is.
THEOREM RecordsFollowCalls == Spec => [](TypeOK /\ RecordInv)
<1>1. Init => RecordInv
  BY DEF Init, RecordInv, IdleUntargeted, WorkingLive, CopyLeads, Working, Terminal
<1>2. TypeOK /\ RecordInv /\ [Next]_vars => RecordInv'
  BY RecordStep
<1> QED
  BY <1>1, <1>2, TypeCorrect, PTL DEF Spec

\* A stored terminal state changes only if some cancel() was called on the
\* execution: transition(), fail() and the saves of execute() never do it.
THEOREM CancelAloneDisturbs == Spec => OnlyCancelDisturbs
<1>1. ASSUME TypeOK, RecordInv, [Next]_vars
      PROVE  [\A r \in Requests :
                stored[r] \in Terminal /\ stored'[r] # stored[r]
                => \E c \in Cancellers : cancels[c].target = r]_vars
  BY <1>1, RecordStep DEF Targeted
<1> QED
  BY <1>1, RecordsFollowCalls, PTL DEF Spec, OnlyCancelDisturbs

------------------------------------------------------------------------------
(* The engine implements ExecutionRecords.                                 *)

Phase(r) == IF call[r].pc \in InFlight THEN "live"
            ELSE IF call[r].pc = "done" THEN "over" ELSE call[r].pc

\* Where a call stands tells the state of its copy.
CopyAt(r) ==
  /\ call[r].pc \in Before => call[r].rec = "none" /\ stored[r] = "none"
  /\ call[r].pc = "start" => call[r].rec = "queued"
  /\ call[r].pc \in {"attempt", "handler", "backoff", "settle", "complete", "rejectOutput"}
     => call[r].rec = "running"
  /\ call[r].pc = "resume" => call[r].rec = "retrying"

CopiesKnown == \A r \in Requests : CopyAt(r)

\* A cancel() that has not returned is for an execution that is stored.
OpenStored ==
  \A c \in Cancellers : cancels[c].at \in {"loaded", "cancelling"}
    => cancels[c].target \in Requests /\ stored[cancels[c].target] # "none"

LifeInv == CopiesKnown /\ OpenStored

\* What a step of one call may do, in the words of ExecutionRecords.
LifeMove(r) ==
  /\ \A x \in Requests \ {r} : call'[x] = call[x] /\ stored'[x] = stored[x]
  /\ CopyAt(r)'
  /\ stored[r] # "none" => stored'[r] # "none"
  /\ UNCHANGED cancels
  /\ \/ /\ call'[r].rec = call[r].rec /\ stored'[r] = stored[r]
        /\ \/ Phase(r)' = Phase(r)
           \/ Phase(r) = "idle" /\ Phase(r)' = "live"
           \/ Phase(r) \in {"idle", "live"} /\ Phase(r)' = "over"
     \/ /\ Phase(r) = "live" /\ Phase(r)' = "live"
        /\ call[r].rec = "none" /\ stored[r] = "none"
        /\ call'[r].rec = "created" /\ stored'[r] = "created"
     \/ /\ Phase(r) = "live" /\ Phase(r)' = "live"
        /\ CanTransition(call[r].rec, call'[r].rec)
        /\ stored'[r] \in {stored[r], call'[r].rec}

\* The table, where the engine relies on it.
LEMMA TableFacts ==
  /\ CanTransition("queued", "running") /\ CanTransition("running", "retrying")
  /\ CanTransition("retrying", "running") /\ CanTransition("running", "completed")
  /\ CanTransition("running", "failed")
  /\ \A from, to : CanTransition(from, to) => to \in States
PROOF BY DEF CanTransition, AllowedTransitions, Waiting, States

LEMMA CallLives ==
  ASSUME TypeOK, LifeInv, NEW r \in Requests,
         \/ Refuse(r) \/ Admit(r) \/ EngineStep(r) \/ HandlerReturns(r) \/ StoreFault(r)
  PROVE  LifeMove(r)
<1> USE DEF TypeOK, Frames, stores, bounds
<1> USE DEF LifeInv, CopiesKnown, CopyAt, LifeMove, Phase, Before, InFlight, Unguarded, Guarded, Catching
<1>1. CASE Refuse(r)
  BY <1>1, TableFacts DEF Refuse, Answer, Goto, At
<1>2. CASE Admit(r)
  BY <1>2, TableFacts DEF Admit, Answer, Goto, At
<1>3. CASE Lookup(r)
  BY <1>3, TableFacts DEF Lookup, Answer, Goto, At
<1>4. CASE Reserve(r)
  BY <1>4, TableFacts DEF Reserve, Answer, Goto, At
<1>5. CASE RefuseDuration(r)
  BY <1>5, TableFacts DEF RefuseDuration, Answer, Goto, At
<1>6. CASE ReserveBudget(r)
  BY <1>6, TableFacts DEF ReserveBudget, Answer, Goto, At
<1>7. CASE ReleaseKey(r)
  BY <1>7, TableFacts DEF ReleaseKey, Answer, Goto, At
<1>8. CASE Create(r)
  BY <1>8, TableFacts DEF Create, Answer, Goto, At
<1>9. CASE Advance(r)
  BY <1>9, TableFacts DEF Advance, Answer, Goto, At, Transition
<1>10. CASE Start(r)
  BY <1>10, TableFacts DEF Start, Answer, Goto, At
<1>11. CASE Aborted(r)
  BY <1>11, TableFacts DEF Aborted, Answer, Goto, At, AfterFailure
<1>12. CASE Attempt(r)
  BY <1>12, TableFacts DEF Attempt, Answer, Goto, At, Transition
<1>13. CASE Resume(r)
  BY <1>13, TableFacts DEF Resume, Answer, Goto, At, Transition
<1>14. CASE HandlerReturns(r)
  BY <1>14, TableFacts DEF HandlerReturns, Answer, Goto, At, AfterFailure
<1>15. CASE Backoff(r)
  BY <1>15, TableFacts DEF Backoff, Answer, Goto, At
<1>16. CASE RejectOutput(r)
  BY <1>16, TableFacts DEF RejectOutput, Answer, Goto, At, Transition
<1>17. CASE Report(r)
  BY <1>17, TableFacts DEF Report, Answer, Goto, At
<1>18. CASE Settle(r)
  BY <1>18, TableFacts DEF Settle, Answer, Goto, At
<1>19. CASE Complete(r)
  BY <1>19, TableFacts DEF Complete, Answer, Goto, At, Transition
<1>20. CASE RecordKey(r)
  BY <1>20, TableFacts DEF RecordKey, Answer, Goto, At
<1>21. CASE Audit(r)
  BY <1>21, TableFacts DEF Audit, Answer, Goto, At
<1>22. CASE Fail(r)
  BY <1>22, TableFacts DEF Fail, Answer, Goto, At, MayFail
<1>23. CASE FailSettle(r)
  BY <1>23, TableFacts DEF FailSettle, Answer, Goto, At
<1>24. CASE FailKey(r)
  BY <1>24, TableFacts DEF FailKey, Answer, Goto, At
<1>25. CASE StoreFault(r)
  <2>1. UNCHANGED <<stored, cancels>>
    BY <1>25 DEF StoreFault
  <2>2. CASE call[r].pc \in Unguarded \cup Catching /\ Answer(r, "rejected", r)
    BY <2>1, <2>2 DEF Answer, Goto
  <2>3. CASE /\ call[r].pc \in Guarded
             /\ \E s \in CopyAtFault(r) :
                  call' = [call EXCEPT ![r].rec = s, ![r].pc = "fail", ![r].failure = "store"]
    <3>1. PICK s \in CopyAtFault(r) :
            call' = [call EXCEPT ![r].rec = s, ![r].pc = "fail", ![r].failure = "store"]
      BY <2>3
    <3>2. s = call[r].rec \/ CanTransition(call[r].rec, s)
      BY <3>1, TableFacts DEF CopyAtFault, At
    <3> QED
      BY <2>1, <2>3, <3>1, <3>2
  <2> QED
    BY <1>25, <2>2, <2>3 DEF StoreFault
<1> QED
  BY <1>1, <1>2, <1>3, <1>4, <1>5, <1>6, <1>7, <1>8, <1>9, <1>10, <1>11, <1>12, <1>13, <1>14, <1>15,
     <1>16, <1>17, <1>18, <1>19, <1>20, <1>21, <1>22, <1>23, <1>24, <1>25 DEF EngineStep

PhaseMap == [r \in Requests |-> Phase(r)]
CopyMap == [r \in Requests |-> call[r].rec]
TargetMap == [c \in Cancellers |-> cancels[c].target]
OpenMap == {c \in Cancellers : cancels[c].at \in {"loaded", "cancelling"}}

\* Such a step is one of ExecutionRecords.
LEMMA LifeRefines ==
  ASSUME TypeOK, TypeOK', LifeInv, NEW r \in Requests, LifeMove(r)
  PROVE  LifeInv' /\ [Records!Next]_(Records!vars)
<1>1. CopiesKnown'
  BY DEF LifeMove, LifeInv, CopiesKnown, CopyAt
<1>2. OpenStored'
  BY DEF LifeMove, LifeInv, OpenStored
<1>3. OpenMap' = OpenMap /\ TargetMap' = TargetMap
  BY DEF LifeMove, OpenMap, TargetMap
<1>4. PhaseMap' = [PhaseMap EXCEPT ![r] = Phase(r)']
  BY DEF LifeMove, PhaseMap, Phase
<1>5. CopyMap' = [CopyMap EXCEPT ![r] = call'[r].rec]
  BY DEF LifeMove, CopyMap
<1>6. stored' = [stored EXCEPT ![r] = stored'[r]]
  BY DEF LifeMove, TypeOK
<1>7. PhaseMap[r] = Phase(r) /\ CopyMap[r] = call[r].rec
  BY DEF PhaseMap, CopyMap
<1>8. call[r].rec \in States \cup {"none"} /\ call'[r].rec \in States \cup {"none"}
  BY DEF TypeOK, Frames
<1>9. Phase(r)' = Phase(r) => PhaseMap' = PhaseMap
  BY DEF LifeMove, PhaseMap, Phase
<1>10. \/ UNCHANGED <<PhaseMap, CopyMap, stored, TargetMap, OpenMap>>
      \/ Records!Begin(r) \/ Records!End(r) \/ Records!Create(r) \/ Records!Move(r)
  <2> USE DEF PhaseMap, CopyMap, TargetMap, OpenMap, Phase
  <2>1. CASE call'[r].rec = call[r].rec /\ stored'[r] = stored[r]
    <3>1. UNCHANGED <<CopyMap, stored, TargetMap, OpenMap>>
      <4>1. \A x \in Requests : call'[x].rec = call[x].rec /\ stored'[x] = stored[x]
        BY <2>1 DEF LifeMove
      <4> QED
        BY <1>3, <4>1 DEF TypeOK
    <3>2. CASE Phase(r)' = Phase(r)
      BY <1>9, <3>1, <3>2
    <3>3. CASE Phase(r) = "idle" /\ Phase(r)' = "live"
      BY <1>4, <1>7, <3>1, <3>3 DEF Records!Begin
    <3>4. CASE Phase(r) \in {"idle", "live"} /\ Phase(r)' = "over"
      BY <1>4, <1>7, <3>1, <3>4 DEF Records!End
    <3> QED
      BY <2>1, <3>2, <3>3, <3>4, TableFacts DEF LifeMove
  <2>2. CASE /\ Phase(r) = "live" /\ Phase(r)' = "live"
             /\ call[r].rec = "none" /\ stored[r] = "none"
             /\ call'[r].rec = "created" /\ stored'[r] = "created"
    BY <1>3, <1>5, <1>6, <1>7, <1>9, <2>2 DEF Records!Create
  <2>3. CASE /\ Phase(r) = "live" /\ Phase(r)' = "live"
             /\ CanTransition(call[r].rec, call'[r].rec)
             /\ stored'[r] \in {stored[r], call'[r].rec}
    <3>1. call'[r].rec \in States
      BY <2>3, TableFacts
    <3>2. Records!CanTransition(call[r].rec, call'[r].rec)
      BY <2>3 DEF CanTransition, AllowedTransitions, Waiting, Records!CanTransition,
                  Records!AllowedTransitions, Records!Waiting
    <3>3. stored' \in {stored, [stored EXCEPT ![r] = call'[r].rec]}
      <4>1. CASE stored'[r] = stored[r]
        BY <4>1 DEF LifeMove, TypeOK
      <4>2. CASE stored'[r] = call'[r].rec
        BY <1>6, <4>2
      <4> QED
        BY <2>3, <4>1, <4>2
    <3>4. PhaseMap' = PhaseMap
      BY <1>9, <2>3
    <3>5. Records!States = States
      BY DEF Records!States, States
    <3>6. Phase(r) = "live" /\ CopyMap[r] = call[r].rec
      BY <1>7, <2>3
    <3> HIDE DEF PhaseMap, CopyMap, TargetMap, OpenMap
    <3>7. \E to \in Records!States :
            /\ Records!CanTransition(CopyMap[r], to)
            /\ CopyMap' = [CopyMap EXCEPT ![r] = to]
            /\ stored' \in {stored, [stored EXCEPT ![r] = to]}
      BY <1>5, <3>1, <3>2, <3>3, <3>5, <3>6
    <3>8. PhaseMap[r] = "live"
      BY <1>7, <3>6
    <3> QED
      BY <1>3, <3>4, <3>7, <3>8 DEF Records!Move, PhaseMap, CopyMap, TargetMap, OpenMap
  <2> QED
    BY <2>1, <2>2, <2>3 DEF LifeMove
<1> QED
  BY <1>1, <1>2, <1>10 DEF LifeInv, Records!Next, Records!vars, PhaseMap, CopyMap, TargetMap, OpenMap, Phase

\* So are the steps of a cancel().
LEMMA CancelRefines ==
  ASSUME TypeOK, IdleUntargeted, LifeInv, NEW c \in Cancellers,
         \/ \E r \in Requests : CancelLoad(c, r)
         \/ CancelStep(c) \/ CancelFault(c)
  PROVE  LifeInv' /\ [Records!Next]_(Records!vars)
<1>1. UNCHANGED call
  BY DEF CancelLoad, CancelStep, CancelStop, CancelBegin, CancelFinish, CancelFault
<1>2. PhaseMap' = PhaseMap /\ CopyMap' = CopyMap
  BY <1>1 DEF PhaseMap, CopyMap, Phase
<1>3. \A x \in Cancellers \ {c} : cancels'[x] = cancels[x]
  BY DEF TypeOK, CancelLoad, CancelStep, CancelStop, CancelBegin, CancelFinish, CancelFault
<1>4. CASE \E r \in Requests : CancelLoad(c, r)
  <2>1. PICK r \in Requests : CancelLoad(c, r)
    BY <1>4
  <2>2. UNCHANGED stored /\ cancels[c].at = "idle" /\ cancels[c].target = NoReq
    BY <2>1 DEF CancelLoad, stores, IdleUntargeted
  <2>3. cancels'[c] = [at |-> IF stored[r] = "none" THEN "done" ELSE "loaded",
                       target |-> r, copy |-> stored[r]]
    BY <2>1 DEF CancelLoad, TypeOK
  <2>4. LifeInv'
    BY <1>1, <1>3, <2>2, <2>3 DEF LifeInv, CopiesKnown, CopyAt, OpenStored
  <2>5. TargetMap' = [TargetMap EXCEPT ![c] = r] /\ TargetMap[c] = NoReq
    <3>1. cancels'[c].target = r
      BY <2>3
    <3> QED
      BY <1>3, <2>2, <3>1 DEF TargetMap
  <2>6. OpenMap' \in {OpenMap, OpenMap \cup {c}}
    BY <1>3, <2>2, <2>3 DEF OpenMap
  <2>7. Records!CancelBegin(c, r)
    BY <1>2, <2>2, <2>5, <2>6 DEF Records!CancelBegin, PhaseMap, CopyMap, TargetMap, OpenMap, Phase
  <2> QED
    BY <2>4, <2>7 DEF Records!Next
<1>5. CASE CancelStop(c) \/ CancelFault(c)
  <2>1. /\ UNCHANGED stored
        /\ cancels[c].at \in {"loaded", "cancelling"} /\ cancels'[c].at = "done"
        /\ cancels'[c].target = cancels[c].target
    BY <1>5 DEF CancelStop, CancelFault, TypeOK, CancelFrames, stores
  <2>2. LifeInv'
    BY <1>1, <1>3, <2>1 DEF LifeInv, CopiesKnown, CopyAt, OpenStored
  <2>3. TargetMap' = TargetMap
    BY <1>3, <2>1 DEF TargetMap
  <2>4. c \in OpenMap /\ OpenMap' = OpenMap \ {c}
    BY <1>3, <2>1 DEF OpenMap
  <2>5. Records!CancelEnd(c)
    BY <1>2, <2>1, <2>3, <2>4 DEF Records!CancelEnd, PhaseMap, CopyMap, TargetMap, OpenMap, Phase
  <2> QED
    BY <2>2, <2>5 DEF Records!Next
<1>6. CASE CancelBegin(c) \/ CancelFinish(c)
  <2> DEFINE t == cancels[c].target
  <2>1. PICK to \in {"cancelling", "cancelled"} : stored' = [stored EXCEPT ![t] = to]
    BY <1>6 DEF CancelBegin, CancelFinish
  <2>2. /\ cancels[c].at \in {"loaded", "cancelling"}
        /\ cancels'[c].at \in {"cancelling", "done"}
        /\ cancels'[c].target = t
    BY <1>6 DEF CancelBegin, CancelFinish, TypeOK, CancelFrames
  <2>3. t \in Requests /\ stored[t] # "none"
    BY <2>2 DEF LifeInv, OpenStored
  <2>4. \A x \in Requests : stored[x] = "none" <=> stored'[x] = "none"
    BY <2>1, <2>3 DEF TypeOK
  <2>5. LifeInv'
    BY <1>1, <1>3, <2>2, <2>4 DEF LifeInv, CopiesKnown, CopyAt, OpenStored
  <2>6. TargetMap' = TargetMap /\ TargetMap[c] = t
    BY <1>3, <2>2 DEF TargetMap
  <2>7. c \in OpenMap /\ OpenMap' \in {OpenMap, OpenMap \ {c}}
    BY <1>3, <2>2 DEF OpenMap
  <2> HIDE DEF t
  <2>8. Records!CancelSave(c)
    BY <1>2, <2>1, <2>6, <2>7 DEF Records!CancelSave, PhaseMap, CopyMap, TargetMap, OpenMap, Phase
  <2> QED
    BY <2>5, <2>8 DEF Records!Next
<1> QED
  BY <1>4, <1>5, <1>6 DEF CancelStep

\* And those of the environment.
LEMMA EnvironmentRefines ==
  ASSUME TypeOK, LifeInv,
         \/ \E r \in Requests : Timeout(r)
         \/ \E k \in Keys : Expire(k) \/ Gc(k)
         \/ Crash
         \/ UNCHANGED vars
  PROVE  LifeInv' /\ [Records!Next]_(Records!vars)
<1>1. CASE Crash
  <2>1. ASSUME NEW r \in Requests
        PROVE  /\ call'[r].rec = call[r].rec
               /\ call'[r].pc = IF call[r].pc \in InFlight THEN "crashed" ELSE call[r].pc
    <3>1. call'[r] = IF call[r].pc \in InFlight THEN [call[r] EXCEPT !.pc = "crashed"] ELSE call[r]
      BY <1>1 DEF Crash
    <3>2. call[r] \in Frames
      BY DEF TypeOK
    <3> QED
      BY <3>1, <3>2 DEF Frames
  <2>2. UNCHANGED stored
    BY <1>1 DEF Crash, stores
  <2>3. ASSUME NEW c \in Cancellers
        PROVE  /\ cancels'[c].target = cancels[c].target
               /\ cancels'[c].at \notin {"loaded", "cancelling"}
    <3>1. cancels'[c] = IF cancels[c].at \in {"loaded", "cancelling"}
                        THEN [cancels[c] EXCEPT !.at = "done", !.copy = "none"] ELSE cancels[c]
      BY <1>1 DEF Crash
    <3>2. cancels[c] \in CancelFrames
      BY DEF TypeOK
    <3> QED
      BY <3>1, <3>2 DEF CancelFrames
  <2>4. LifeInv'
    BY <2>1, <2>2, <2>3 DEF LifeInv, CopiesKnown, CopyAt, OpenStored, Before
  <2>5. CopyMap' = CopyMap /\ TargetMap' = TargetMap /\ OpenMap' = OpenMap \ Cancellers
    BY <2>1, <2>3 DEF CopyMap, TargetMap, OpenMap
  <2>6. ASSUME NEW r \in Requests
        PROVE  Phase(r)' = IF Phase(r) = "live" THEN "crashed" ELSE Phase(r)
    <3>1. call[r].pc \in Points
      BY DEF TypeOK, Frames
    <3> QED
      BY <2>1, <3>1 DEF Phase, Points, InFlight, Unguarded, Guarded, Catching
  <2>7. PhaseMap' = [r \in Requests |-> IF PhaseMap[r] = "live" THEN "crashed" ELSE PhaseMap[r]]
    BY <2>6 DEF PhaseMap
  <2>8. Records!Crash(Requests, Cancellers)
    BY <2>2, <2>5, <2>7 DEF Records!Crash, PhaseMap, CopyMap, TargetMap, OpenMap, Phase
  <2> QED
    BY <2>4, <2>8 DEF Records!Next
<1>2. CASE UNCHANGED <<call, stored, cancels>>
  BY <1>2 DEF LifeInv, CopiesKnown, CopyAt, OpenStored, Records!vars
<1> QED
  BY <1>1, <1>2 DEF Timeout, Expire, Gc, vars, stores, bounds

LEMMA RecordsStep ==
  ASSUME TypeOK, TypeOK', IdleUntargeted, LifeInv, [Next]_vars
  PROVE  LifeInv' /\ [Records!Next]_(Records!vars)
<1>1. CASE \E r \in Requests :
             Refuse(r) \/ Admit(r) \/ EngineStep(r) \/ HandlerReturns(r) \/ StoreFault(r)
  BY <1>1, CallLives, LifeRefines
<1>2. CASE \E c \in Cancellers : \/ \E r \in Requests : CancelLoad(c, r)
                                \/ CancelStep(c) \/ CancelFault(c)
  BY <1>2, CancelRefines
<1>3. CASE \/ \E r \in Requests : Timeout(r)
           \/ \E k \in Keys : Expire(k) \/ Gc(k)
           \/ Crash
           \/ UNCHANGED vars
  BY <1>3, EnvironmentRefines
<1> QED
  BY <1>1, <1>2, <1>3 DEF Next, Terminating

\* Every save of execute() follows the table from the call's own copy and every
\* save of cancel() is cancelling or cancelled: the engine implements
\* ExecutionRecords.
THEOREM EngineRefinesRecords == Spec => ImplementsRecords
<1>1. Init => LifeInv /\ Records!Init
  BY DEF Init, LifeInv, CopiesKnown, CopyAt, OpenStored, Records!Init, InFlight,
         Unguarded, Guarded, Catching
<1>2. TypeOK /\ TypeOK' /\ RecordInv /\ LifeInv /\ [Next]_vars
      => LifeInv' /\ [Records!Next]_(Records!vars)
  BY RecordsStep DEF RecordInv
<1> QED
  BY <1>1, <1>2, RecordsFollowCalls, PTL DEF Spec, ImplementsRecords, Records!Spec

------------------------------------------------------------------------------
(* What the program point of a call tells of the call.                     *)

\* The budget: none before step 9, none held behind either settlement; output
\* that is rejected leaves by a path of its own.
BudgetAt(r) ==
  /\ call[r].pc \in {"idle", "lookup", "reserve", "budget", "releaseKey"} => budgets[r] = "none"
  /\ call[r].pc \in {"complete", "recordKey", "audit", "failKey"} => budgets[r] # "held"
  /\ call[r].pc \in {"rejectOutput", "report"} => call[r].failure = "output"
  /\ call[r].pc = "done" /\ budgets[r] = "held"
     => call[r].failure = "output" \/ reply[r].status = "rejected"

\* The handler and the answer: no run before step 13, one behind the handler;
\* the copy is completed before the answer says so.
SuccessAt(r) ==
  /\ call[r].pc \in Before \cup {"advance", "start"} => runs[r] = 0
  /\ call[r].pc \in {"handler", "settle", "complete", "recordKey", "audit", "rejectOutput", "report"}
     => runs[r] > 0
  /\ call[r].pc \in {"recordKey", "audit"} => call[r].rec = "completed"
  /\ call[r].pc # "done" => reply[r] = NoReply
  /\ reply[r].exec \notin {r, NoReq} => runs[r] = 0
  /\ reply[r] = [status |-> "completed", exec |-> r]
     => runs[r] > 0 /\ r \in audit /\ budgets[r] # "held" /\ call[r].rec = "completed"

\* The attempts: the handler was called once for each that ended, as long as the
\* signal is armed, and there is another only after a failure that is retried.
AttemptAt(r) ==
  /\ call[r].pc \in {"attempt", "resume"}
     => call[r].attempt = 1 \/ (call[r].failure = "transient" /\ call[r].attempt <= MaxAttempts)
  /\ call[r].pc = "resume" \/ (call[r].pc = "attempt" /\ signals[r] = "armed")
     => runs[r] + 1 = call[r].attempt
  /\ call[r].pc = "handler" => runs[r] = call[r].attempt
  /\ call[r].pc = "backoff"
     => /\ call[r].failure = "transient" /\ call[r].attempt < MaxAttempts
        /\ signals[r] = "armed" => runs[r] = call[r].attempt

CallSound(r) == BudgetAt(r) /\ SuccessAt(r) /\ AttemptAt(r)

CallsSound == \A r \in Requests : CallSound(r)

\* What RetryDiscipline says of one call.
RetryStep(r) ==
  runs'[r] # runs[r]
  => /\ runs'[r] = call[r].attempt
     /\ call[r].attempt = 1 \/ (call[r].failure = "transient" /\ call[r].attempt <= MaxAttempts)
     /\ reply[r] = NoReply

\* A step of one call leaves the others alone and its own point true.
OwnStep(r) ==
  /\ \A x \in Requests \ {r} :
       /\ call'[x] = call[x] /\ budgets'[x] = budgets[x] /\ runs'[x] = runs[x]
       /\ reply'[x] = reply[x] /\ signals'[x] = signals[x]
       /\ x \in audit => x \in audit'
  /\ CallSound(r)'
  /\ RetryStep(r)
  /\ call[r].pc # "done"
  /\ runs[r] > 0 => runs'[r] > 0

\* The row of a key belongs to a call that reserved the key.
RowsOwned ==
  \A k \in Keys : idem[k].state # "none" =>
    LET x == idem[k].owner
    IN x \in Requests /\ KeyOf[x] = k /\ call[x].window # NoWindow

LEMMA CallSteps ==
  ASSUME TypeOK, CallsSound, LifeInv, OnlyKeyedLook, RowsOwned, WindowFresh,
         NEW r \in Requests,
         \/ Refuse(r) \/ Admit(r) \/ EngineStep(r) \/ HandlerReturns(r) \/ StoreFault(r)
  PROVE  OwnStep(r)
<1> USE DEF TypeOK, Frames, stores, bounds
<1> USE DEF CallsSound, CallSound, BudgetAt, SuccessAt, AttemptAt, RetryStep, OwnStep, Before
<1>1. CASE Refuse(r)
  BY <1>1 DEF Refuse, Answer, Goto, At, NoReply
<1>2. CASE Admit(r)
  BY <1>2 DEF Admit, Answer, Goto, At
<1>3. CASE Lookup(r)
  <2>1. KeyOf[r] \in Keys /\ call[r].window = NoWindow
    BY <1>3, KeysAssumption DEF Lookup, At, OnlyKeyedLook, Keyed, WindowFresh
  <2>2. CASE /\ Blocks(idem[KeyOf[r]])
             /\ Answer(r, ReplayStatus(idem[KeyOf[r]].state), idem[KeyOf[r]].owner)
    <3>1. idem[KeyOf[r]].owner \in Requests \ {r}
      BY <2>1, <2>2 DEF RowsOwned, Blocks
    <3> QED
      BY <1>3, <2>2, <3>1, KeysAssumption DEF Lookup, Answer, Goto, At, NoReply
  <2>3. CASE Goto(r, "reserve") /\ UNCHANGED reply
    BY <1>3, <2>3 DEF Lookup, Goto, At
  <2> QED
    BY <1>3, <2>2, <2>3 DEF Lookup
<1>4. CASE Reserve(r)
  <2> DEFINE row == idem[KeyOf[r]]
  <2>1. KeyOf[r] \in Keys /\ call[r].window = NoWindow
    BY <1>4, KeysAssumption DEF Reserve, At, OnlyKeyedLook, Keyed, WindowFresh
  <2>2. CASE Blocks(row) /\ Answer(r, "accepted", row.owner)
    BY <1>4, <2>2 DEF Reserve, Answer, Goto, At
  <2>3. CASE Answer(r, "rejected", NoReq)
    BY <1>4, <2>3 DEF Reserve, Answer, Goto, At
  <2>4. CASE /\ call' = [call EXCEPT ![r].pc = "budget", ![r].window = now[KeyOf[r]]]
             /\ UNCHANGED reply
    BY <1>4, <2>4 DEF Reserve, At
  <2> QED
    BY <1>4, <2>2, <2>3, <2>4 DEF Reserve
<1>5. CASE RefuseDuration(r)
  BY <1>5 DEF RefuseDuration, Answer, Goto, At
<1>6. CASE ReserveBudget(r)
  BY <1>6 DEF ReserveBudget, Answer, Goto, At
<1>7. CASE ReleaseKey(r)
  BY <1>7 DEF ReleaseKey, Answer, Goto, At
<1>8. CASE Create(r)
  BY <1>8 DEF Create, Answer, Goto, At
<1>9. CASE Advance(r)
  BY <1>9 DEF Advance, Answer, Goto, At, Transition
<1>10. CASE Start(r)
  BY <1>10 DEF Start, Answer, Goto, At
<1>11. CASE Aborted(r)
  BY <1>11 DEF Aborted, Answer, Goto, At, AfterFailure, ShouldRetry
<1>12. CASE Attempt(r)
  <2>1. call[r].pc = "attempt" /\ signals[r] = "armed" /\ runs[r] + 1 = call[r].attempt
    BY <1>12 DEF Attempt, At
  <2>2. CASE call[r].attempt = 1 /\ Goto(r, "handler") /\ CallHandler(r)
    <3>1. runs'[r] = 1 /\ call'[r].attempt = 1 /\ call'[r].pc = "handler"
      BY <2>1, <2>2 DEF Goto, CallHandler
    <3>2. /\ UNCHANGED <<budgets, reply, signals, audit>>
          /\ \A x \in Requests \ {r} : call'[x] = call[x] /\ runs'[x] = runs[x]
      BY <1>12, <2>2 DEF Attempt, Goto, CallHandler
    <3>3. CallSound(r)'
      BY <2>1, <3>1, <3>2 DEF NoReply
    <3> QED
      BY <2>1, <2>2, <3>1, <3>2, <3>3
  <2>3. CASE call[r].attempt > 1 /\ Transition(r, "retrying", "resume") /\ UNCHANGED runs
    BY <1>12, <2>1, <2>3 DEF Attempt, Transition
  <2> QED
    BY <1>12, <2>2, <2>3 DEF Attempt
<1>13. CASE Resume(r)
  BY <1>13 DEF Resume, CallHandler, Goto, At, Transition
<1>14. CASE HandlerReturns(r)
  BY <1>14 DEF HandlerReturns, Answer, Goto, At, AfterFailure, ShouldRetry
<1>15. CASE Backoff(r)
  BY <1>15, BoundsAssumption DEF Backoff, Answer, Goto, At
<1>16. CASE RejectOutput(r)
  BY <1>16 DEF RejectOutput, Answer, Goto, At, Transition
<1>17. CASE Report(r)
  BY <1>17 DEF Report, Answer, Goto, At
<1>18. CASE Settle(r)
  BY <1>18 DEF Settle, Settled, Goto, At
<1>19. CASE Complete(r)
  BY <1>19 DEF Complete, Answer, Goto, At, Transition
<1>20. CASE RecordKey(r)
  BY <1>20 DEF RecordKey, Answer, Goto, At
<1>21. CASE Audit(r)
  BY <1>21 DEF Audit, Answer, Goto, At
<1>22. CASE Fail(r)
  BY <1>22 DEF Fail, Answer, Goto, At, MayFail
<1>23. CASE FailSettle(r)
  BY <1>23 DEF FailSettle, Settled, Goto, At
<1>24. CASE FailKey(r)
  BY <1>24 DEF FailKey, Answer, Goto, At
<1>25. CASE StoreFault(r)
  <2>1. UNCHANGED <<budgets, runs, audit>>
    BY <1>25 DEF StoreFault
  <2>2. CASE /\ call[r].pc \in Unguarded \cup Catching /\ Answer(r, "rejected", r)
             /\ UNCHANGED signals
    BY <2>1, <2>2 DEF Answer, Goto, Unguarded, Catching, NoReply
  <2>3. CASE /\ call[r].pc \in Guarded /\ UNCHANGED reply
             /\ \E s \in CopyAtFault(r) :
                  call' = [call EXCEPT ![r].rec = s, ![r].pc = "fail", ![r].failure = "store"]
    <3>1. PICK s \in CopyAtFault(r) :
            call' = [call EXCEPT ![r].rec = s, ![r].pc = "fail", ![r].failure = "store"]
      BY <2>3
    <3>2. /\ call'[r].pc = "fail"
          /\ \A x \in Requests \ {r} : call'[x] = call[x]
      BY <3>1
    <3>4. \A x \in Requests \ {r} : signals'[x] = signals[x]
      BY ZenonT(30), <1>25 DEF StoreFault
    <3>3. reply[r] = NoReply
      BY <2>3 DEF Guarded
    <3> QED
      BY <2>1, <2>3, <3>2, <3>3, <3>4 DEF NoReply
  <2> QED
    BY <1>25, <2>2, <2>3 DEF StoreFault
<1> QED
  BY <1>1, <1>2, <1>3, <1>4, <1>5, <1>6, <1>7, <1>8, <1>9, <1>10, <1>11, <1>12, <1>13, <1>14, <1>15,
     <1>16, <1>17, <1>18, <1>19, <1>20, <1>21, <1>22, <1>23, <1>24, <1>25 DEF EngineStep

\* Any other step leaves every call as it is, or takes it away in a crash.
OtherStep ==
  /\ UNCHANGED <<budgets, audit, runs, reply>>
  /\ \A x \in Requests :
       /\ \/ call'[x] = call[x]
          \/ call[x].pc # "done" /\ call'[x] = [call[x] EXCEPT !.pc = "crashed"]
       /\ signals'[x] = "armed" => signals[x] = "armed"

LEMMA OtherSteps ==
  ASSUME TypeOK,
         \/ \E r \in Requests : Timeout(r)
         \/ \E c \in Cancellers : \/ \E r \in Requests : CancelLoad(c, r)
                                  \/ CancelStep(c) \/ CancelFault(c)
         \/ \E k \in Keys : Expire(k) \/ Gc(k)
         \/ Crash
         \/ UNCHANGED vars
  PROVE  OtherStep
<1> USE DEF TypeOK, stores, bounds, OtherStep
<1>1. CASE \E r \in Requests : Timeout(r)
  BY <1>1 DEF Timeout
<1>2. CASE \E c \in Cancellers : \/ \E r \in Requests : CancelLoad(c, r)
                                 \/ CancelStep(c) \/ CancelFault(c)
  <2>1. PICK c \in Cancellers : \/ \E r \in Requests : CancelLoad(c, r)
                                \/ CancelStep(c) \/ CancelFault(c)
    BY <1>2
  <2>2. CASE CancelBegin(c)
    BY <2>2 DEF CancelBegin
  <2>3. CASE ~CancelBegin(c)
    BY <2>1, <2>3 DEF CancelLoad, CancelStep, CancelStop, CancelFinish, CancelFault
  <2> QED
    BY <2>2, <2>3
<1>3. CASE \E k \in Keys : Expire(k) \/ Gc(k)
  BY <1>3 DEF Expire, Gc
<1>4. CASE Crash
  BY <1>4 DEF Crash, InFlight, Unguarded, Guarded, Catching
<1>5. CASE UNCHANGED vars
  BY <1>5 DEF vars
<1> QED
  BY <1>1, <1>2, <1>3, <1>4, <1>5

\* So every call stays sound, and no handler is called but as RetryDiscipline says.
LEMMA SoundStep ==
  ASSUME TypeOK, WindowInv, CallsSound, LifeInv, RowsOwned, [Next]_vars
  PROVE  CallsSound' /\ \A r \in Requests : RetryStep(r)
<1>0. OnlyKeyedLook /\ WindowFresh
  BY DEF WindowInv
<1>1. ASSUME NEW r \in Requests,
             Refuse(r) \/ Admit(r) \/ EngineStep(r) \/ HandlerReturns(r) \/ StoreFault(r)
      PROVE  CallsSound' /\ \A x \in Requests : RetryStep(x)
  <2>1. OwnStep(r)
    BY <1>0, <1>1, CallSteps
  <2>2. ASSUME NEW x \in Requests \ {r}
        PROVE  CallSound(x)' /\ RetryStep(x)
    BY <2>1 DEF OwnStep, CallsSound, CallSound, BudgetAt, SuccessAt, AttemptAt, RetryStep
  <2> QED
    BY <2>1, <2>2 DEF OwnStep, CallsSound
<1>2. ASSUME OtherStep
      PROVE  CallsSound' /\ \A x \in Requests : RetryStep(x)
  <2>1. ASSUME NEW x \in Requests
        PROVE  CallSound(x)' /\ RetryStep(x)
    <3>1. call[x] \in Frames
      BY DEF TypeOK
    <3>2. CASE call'[x] = call[x]
      <4>1. /\ budgets'[x] = budgets[x] /\ runs'[x] = runs[x] /\ reply'[x] = reply[x]
            /\ audit' = audit
            /\ signals'[x] = "armed" => signals[x] = "armed"
        BY <1>2 DEF OtherStep
      <4>2. BudgetAt(x) /\ SuccessAt(x) /\ AttemptAt(x)
        BY DEF CallsSound, CallSound
      <4>3. BudgetAt(x)' /\ SuccessAt(x)'
        BY <3>2, <4>1, <4>2 DEF BudgetAt, SuccessAt, Before
      <4>4. AttemptAt(x)'
        BY <3>2, <4>1, <4>2 DEF AttemptAt
      <4> QED
        BY <4>1, <4>3, <4>4 DEF CallSound, RetryStep
    <3>3. CASE call[x].pc # "done" /\ call'[x] = [call[x] EXCEPT !.pc = "crashed"]
      <4>1. call'[x].pc = "crashed"
        BY <3>1, <3>3 DEF Frames
      <4>2. reply'[x] = NoReply /\ UNCHANGED runs
        BY <1>2, <3>3 DEF OtherStep, CallsSound, CallSound, SuccessAt
      <4> QED
        BY <4>1, <4>2 DEF CallSound, BudgetAt, SuccessAt, AttemptAt, RetryStep, Before, NoReply
    <3> QED
      BY <1>2, <3>2, <3>3 DEF OtherStep
  <2> QED
    BY <2>1 DEF CallsSound
<1> QED
  BY <1>1, <1>2, OtherSteps DEF Next, Terminating

------------------------------------------------------------------------------
(* What a step of a call does to the row of its key.                       *)

\* It leaves it, and what it answers, if anything, is its own doing: only a
\* call without a window answers from the row.
RowKept(r) ==
  /\ UNCHANGED idem
  /\ call'[r].window = call[r].window
  /\ call'[r].pc # "audit"
  /\ \/ call'[r].pc # "done" /\ UNCHANGED reply
     \/ call'[r].pc = "done" /\ call[r].pc = "audit" /\ reply'[r] = [status |-> "completed", exec |-> r]
     \/ call'[r].pc = "done" /\ call'[r].failure = "output" /\ reply'[r] = [status |-> "error", exec |-> r]
     \/ call'[r].pc = "done" /\ reply'[r].status \in {"rejected", "too_long"} /\ reply'[r].exec \in {r, NoReq}
     \/ /\ call'[r].pc = "done" /\ reply'[r] = [status |-> "refused", exec |-> NoReq]
        /\ call[r].window = NoWindow

\* It is answered from it.
RowRead(r) ==
  /\ UNCHANGED idem
  /\ Keyed(r) /\ Blocks(idem[KeyOf[r]])
  /\ call[r].window = NoWindow /\ call'[r].window = NoWindow
  /\ call'[r].pc = "done"
  /\ reply'[r].exec = idem[KeyOf[r]].owner
  /\ reply'[r].status = "completed" => idem[KeyOf[r]].state = "completed"
  /\ reply'[r].status = "error" => idem[KeyOf[r]].state = "failed"

\* It drops one that answers for nothing.
RowDropped(r) ==
  /\ Keyed(r) /\ ~Blocks(idem[KeyOf[r]])
  /\ idem' = [idem EXCEPT ![KeyOf[r]] = NoRow]
  /\ call'[r].window = call[r].window
  /\ call'[r].pc = "reserve"
  /\ UNCHANGED reply

\* It claims it.
RowClaimed(r) ==
  /\ Keyed(r) /\ ~Blocks(idem[KeyOf[r]])
  /\ idem' = [idem EXCEPT ![KeyOf[r]] = [state |-> "running", owner |-> r, live |-> TRUE]]
  /\ call[r].window = NoWindow /\ call'[r].window = now[KeyOf[r]]
  /\ call'[r].pc = "budget"
  /\ UNCHANGED reply

\* It writes its outcome there.
RowResolved(r, state) ==
  /\ call[r].pc \in Reserved
  /\ RecordOutcome(r, state)
  /\ call'[r].window = call[r].window
  /\ \/ /\ state = "completed" /\ call[r].pc = "recordKey" /\ call'[r].pc = "audit"
        /\ UNCHANGED reply
     \/ /\ state = "failed" /\ call'[r].pc = "done"
        /\ reply'[r].status \in {"refused", "error"} /\ reply'[r].exec \in {r, NoReq}

RowMove(r) ==
  /\ UNCHANGED <<now, expiries>>
  /\ \A x \in Requests \ {r} : call'[x] = call[x] /\ reply'[x] = reply[x]
  /\ \/ RowKept(r) \/ RowRead(r) \/ RowDropped(r) \/ RowClaimed(r)
     \/ \E state \in {"completed", "failed"} : RowResolved(r, state)

LEMMA RowMoves ==
  ASSUME TypeOK, CallsSound, LifeInv, OnlyKeyedLook, RowsOwned, WindowFresh, NEW r \in Requests,
         \/ Refuse(r) \/ Admit(r) \/ EngineStep(r) \/ HandlerReturns(r) \/ StoreFault(r)
  PROVE  RowMove(r)
<1> USE DEF TypeOK, Frames, Rows, stores, bounds
<1>a. \A x \in Requests \ {r} : call'[x] = call[x] /\ reply'[x] = reply[x]
  BY CallSteps DEF OwnStep
<1>b. UNCHANGED <<now, expiries>>
  BY DEF StoreFault, Refuse, Admit, HandlerReturns, EngineStep, Lookup, Reserve, RefuseDuration,
         ReserveBudget, ReleaseKey, Create, Advance, Start, Aborted, Attempt, Resume, Backoff,
         RejectOutput, Report, Settle, Complete, RecordKey, Audit, Fail, FailSettle, FailKey
<1> SUFFICES \/ RowKept(r) \/ RowRead(r) \/ RowDropped(r) \/ RowClaimed(r)
             \/ \E state \in {"completed", "failed"} : RowResolved(r, state)
  BY <1>a, <1>b DEF RowMove
<1>c. /\ call[r].pc \in {"lookup", "reserve"}
         => Keyed(r) /\ KeyOf[r] \in Keys /\ call[r].window = NoWindow
      /\ call[r].pc = "idle" => call[r].window = NoWindow
      /\ call[r].pc \in {"rejectOutput", "report"} => call[r].failure = "output"
      /\ call[r].pc # "done" => reply[r] = NoReply
  BY KeysAssumption DEF OnlyKeyedLook, Keyed, WindowFresh, CallsSound, CallSound, BudgetAt, SuccessAt
<1> USE DEF RowKept
<1>1. CASE Lookup(r)
  <2> DEFINE row == idem[KeyOf[r]]
  <2>0. row \in Rows /\ Keyed(r) /\ call[r].window = NoWindow /\ call[r].pc = "lookup"
    BY <1>1, <1>c DEF Lookup, At
  <2>1. CASE Blocks(row) /\ Answer(r, ReplayStatus(row.state), row.owner) /\ UNCHANGED idem
    <3>1. row.state \in {"running", "completed", "failed"}
      BY <2>0, <2>1 DEF Blocks
    <3>2. /\ call'[r].pc = "done" /\ call'[r].window = call[r].window
          /\ reply'[r] = [status |-> ReplayStatus(row.state), exec |-> row.owner]
      BY <2>1 DEF Answer, Goto
    <3>3. /\ ReplayStatus(row.state) = "completed" => row.state = "completed"
          /\ ReplayStatus(row.state) = "error" => row.state = "failed"
      BY <3>1 DEF ReplayStatus
    <3> QED
      BY <2>0, <2>1, <3>2, <3>3 DEF RowRead
  <2>2. CASE /\ ~Blocks(row) /\ Goto(r, "reserve") /\ UNCHANGED reply
             /\ idem' = IF SqlStore THEN idem ELSE [idem EXCEPT ![KeyOf[r]] = NoRow]
    BY <2>0, <2>2 DEF RowDropped, Goto
  <2> QED
    BY <1>1, <2>1, <2>2 DEF Lookup
<1>2. CASE Reserve(r)
  <2> DEFINE row == idem[KeyOf[r]]
  <2>0. row \in Rows /\ Keyed(r) /\ call[r].window = NoWindow /\ call[r].pc = "reserve"
    BY <1>2, <1>c DEF Reserve, At
  <2>1. CASE Blocks(row) /\ Answer(r, "accepted", row.owner) /\ UNCHANGED idem
    BY <2>0, <2>1 DEF RowRead, Answer, Goto
  <2>2. CASE Answer(r, "rejected", NoReq) /\ UNCHANGED idem
    BY <2>0, <2>2 DEF Answer, Goto
  <2>3. CASE /\ ~Blocks(row) /\ UNCHANGED reply
             /\ call' = [call EXCEPT ![r].pc = "budget", ![r].window = now[KeyOf[r]]]
             /\ idem' = [idem EXCEPT ![KeyOf[r]] =
                           [state |-> "running", owner |-> r, live |-> TRUE]]
    BY <2>0, <2>3 DEF RowClaimed
  <2> QED
    BY <1>2, <2>1, <2>2, <2>3 DEF Reserve
<1>3. CASE ReleaseKey(r)
  <2>1. RowResolved(r, "failed")
    BY <1>3 DEF ReleaseKey, Answer, Goto, At, RowResolved, Reserved
  <2> QED
    BY <2>1
<1>4. CASE RecordKey(r) \/ FailKey(r)
  <2>1. CASE RecordKey(r)
    <3>1. RowResolved(r, "completed")
      BY <2>1 DEF RecordKey, Goto, At, RowResolved, Reserved, Guarded
    <3> QED
      BY <3>1
  <2>2. CASE FailKey(r)
    <3>1. RowResolved(r, "failed")
      BY <2>2 DEF FailKey, Answer, Goto, At, RowResolved, Reserved, Catching
    <3> QED
      BY <3>1
  <2> QED
    BY <1>4, <2>1, <2>2
<1>5. CASE Refuse(r)
  BY <1>c, <1>5 DEF Refuse, Answer, Goto, At
<1>6. CASE Admit(r)
  BY <1>c, <1>6 DEF Admit, Answer, Goto, At
<1>7. CASE RefuseDuration(r)
  BY <1>c, <1>7 DEF RefuseDuration, Answer, Goto, At
<1>8. CASE ReserveBudget(r)
  BY <1>c, <1>8 DEF ReserveBudget, Answer, Goto, At
<1>9. CASE Create(r)
  BY <1>c, <1>9 DEF Create, Answer, Goto, At
<1>10. CASE Advance(r)
  BY <1>c, <1>10 DEF Advance, Answer, Goto, At, Transition
<1>11. CASE Start(r)
  BY <1>c, <1>11 DEF Start, Answer, Goto, At
<1>12. CASE Aborted(r)
  BY <1>c, <1>12 DEF Aborted, Answer, Goto, At, AfterFailure
<1>13. CASE Attempt(r)
  BY <1>c, <1>13 DEF Attempt, Answer, Goto, At, Transition
<1>14. CASE Resume(r)
  BY <1>c, <1>14 DEF Resume, Answer, Goto, At, Transition
<1>15. CASE HandlerReturns(r)
  BY <1>c, <1>15 DEF HandlerReturns, Answer, Goto, At, AfterFailure
<1>16. CASE Backoff(r)
  BY <1>c, <1>16 DEF Backoff, Answer, Goto, At
<1>17. CASE RejectOutput(r)
  BY <1>c, <1>17 DEF RejectOutput, Answer, Goto, At, Transition
<1>18. CASE Report(r)
  BY <1>c, <1>18 DEF Report, Answer, Goto, At
<1>19. CASE Settle(r)
  BY <1>c, <1>19 DEF Settle, Answer, Goto, At
<1>20. CASE Complete(r)
  BY <1>c, <1>20 DEF Complete, Answer, Goto, At, Transition
<1>21. CASE Audit(r)
  BY <1>c, <1>21 DEF Audit, Answer, Goto, At
<1>22. CASE Fail(r)
  BY <1>c, <1>22 DEF Fail, Answer, Goto, At
<1>23. CASE FailSettle(r)
  BY <1>c, <1>23 DEF FailSettle, Answer, Goto, At
<1>24. CASE StoreFault(r)
  <2>1. UNCHANGED idem
    BY <1>24 DEF StoreFault
  <2>2. CASE Answer(r, "rejected", r)
    BY <2>1, <2>2 DEF Answer, Goto
  <2>3. CASE /\ UNCHANGED reply
             /\ \E s \in CopyAtFault(r) :
                  call' = [call EXCEPT ![r].rec = s, ![r].pc = "fail", ![r].failure = "store"]
    <3>1. PICK s \in CopyAtFault(r) :
            call' = [call EXCEPT ![r].rec = s, ![r].pc = "fail", ![r].failure = "store"]
      BY <2>3
    <3>2. call'[r].pc = "fail" /\ call'[r].window = call[r].window
      BY <3>1
    <3> QED
      BY <2>1, <2>3, <3>2
  <2> QED
    BY <1>24, <2>2, <2>3 DEF StoreFault
<1> QED
  BY <1>1, <1>2, <1>3, <1>4, <1>5, <1>6, <1>7, <1>8, <1>9, <1>10, <1>11, <1>12, <1>13, <1>14, <1>15, <1>16, <1>17, <1>18, <1>19, <1>20, <1>21, <1>22, <1>23, <1>24 DEF EngineStep

\* What the others do to the rows: one is dropped that answers for nothing, or
\* ends its TTL.
OtherRows ==
  /\ \A x \in Requests : call'[x].window = call[x].window
  /\ \/ UNCHANGED <<idem, now, expiries>>
     \/ \E k \in Keys : /\ ~Blocks(idem[k])
                        /\ idem' = [idem EXCEPT ![k] = NoRow]
                        /\ UNCHANGED <<now, expiries>>
     \/ \E k \in Keys : /\ idem' = [idem EXCEPT ![k].live = FALSE]
                        /\ now' = [now EXCEPT ![k] = @ + 1]
                        /\ expiries' = expiries + 1

LEMMA OthersKeepRows ==
  ASSUME TypeOK,
         \/ \E r \in Requests : Timeout(r)
         \/ \E c \in Cancellers : \/ \E r \in Requests : CancelLoad(c, r)
                                  \/ CancelStep(c) \/ CancelFault(c)
         \/ \E k \in Keys : Expire(k) \/ Gc(k)
         \/ Crash
         \/ UNCHANGED vars
  PROVE  OtherRows
<1> USE DEF stores, bounds, OtherRows
<1>1. CASE \E r \in Requests : Timeout(r)
  BY <1>1 DEF Timeout
<1>2. CASE \E c \in Cancellers : \/ \E r \in Requests : CancelLoad(c, r)
                                 \/ CancelStep(c) \/ CancelFault(c)
  BY <1>2 DEF CancelLoad, CancelStep, CancelStop, CancelBegin, CancelFinish, CancelFault
<1>3. CASE \E k \in Keys : Expire(k)
  BY <1>3 DEF Expire
<1>4. CASE \E k \in Keys : Gc(k)
  BY <1>4 DEF Gc, Blocks
<1>5. CASE Crash
  <2>1. ASSUME NEW x \in Requests
        PROVE  call'[x].window = call[x].window
    <3>1. call'[x] = [call[x] EXCEPT !.pc = "crashed"] \/ call'[x] = call[x]
      BY <1>5 DEF Crash
    <3>2. call[x] \in Frames
      BY DEF TypeOK
    <3> QED
      BY <3>1, <3>2 DEF Frames
  <2> QED
    BY <1>5, <2>1 DEF Crash
<1>6. CASE UNCHANGED vars
  BY <1>6 DEF vars
<1> QED
  BY <1>1, <1>2, <1>3, <1>4, <1>5, <1>6

\* The row of one key.
LEMMA OtherRow ==
  ASSUME TypeOK, OtherRows, NEW k \in Keys
  PROVE  \/ idem'[k] = idem[k] /\ now'[k] = now[k]
         \/ ~Blocks(idem[k]) /\ idem'[k] = NoRow /\ now'[k] = now[k]
         \/ /\ idem'[k] = [idem[k] EXCEPT !.live = FALSE]
            /\ now'[k] = now[k] + 1 /\ expiries' = expiries + 1
<1> USE DEF TypeOK
<1>1. ASSUME NEW j \in Keys, idem' = [idem EXCEPT ![j].live = FALSE],
             now' = [now EXCEPT ![j] = @ + 1]
      PROVE  \/ idem'[k] = idem[k] /\ now'[k] = now[k]
             \/ idem'[k] = [idem[k] EXCEPT !.live = FALSE] /\ now'[k] = now[k] + 1
  BY <1>1
<1>2. ASSUME NEW j \in Keys, idem' = [idem EXCEPT ![j] = NoRow], ~Blocks(idem[j]), UNCHANGED now
      PROVE  \/ idem'[k] = idem[k] /\ now'[k] = now[k]
             \/ ~Blocks(idem[k]) /\ idem'[k] = NoRow /\ now'[k] = now[k]
  BY <1>2
<1> QED
  BY <1>1, <1>2 DEF OtherRows

\* A step of one call, or of the others.
CallActs(r) ==
  Refuse(r) \/ Admit(r) \/ EngineStep(r) \/ HandlerReturns(r) \/ StoreFault(r)

LEMMA StepKinds ==
  ASSUME TypeOK, WindowInv, CallsSound, LifeInv, RowsOwned, [Next]_vars
  PROVE  \/ \E r \in Requests : OwnStep(r) /\ RowMove(r) /\ LifeMove(r)
         \/ OtherStep /\ OtherRows
<1>1. OnlyKeyedLook /\ WindowFresh
  BY DEF WindowInv
<1>2. ASSUME NEW r \in Requests, CallActs(r)
      PROVE  OwnStep(r) /\ RowMove(r) /\ LifeMove(r)
  BY <1>1, <1>2, CallSteps, RowMoves, CallLives DEF CallActs
<1> QED
  BY <1>2, OtherSteps, OthersKeepRows DEF Next, Terminating, CallActs

\* A row keeps its owner until it is dropped, and the owner keeps its window.
LEMMA RowsStep ==
  ASSUME TypeOK, WindowInv, CallsSound, LifeInv, RowsOwned, [Next]_vars
  PROVE  RowsOwned'
<1> USE DEF TypeOK, Rows
<1>1. ASSUME NEW r \in Requests, RowMove(r), NEW k \in Keys, idem'[k].state # "none"
      PROVE  /\ idem'[k].owner \in Requests /\ KeyOf[idem'[k].owner] = k
             /\ call'[idem'[k].owner].window # NoWindow
  <2>1. ASSUME idem'[k].owner = idem[k].owner, idem[k].state # "none",
               \A x \in Requests : call[x].window # NoWindow => call'[x].window = call[x].window
        PROVE  /\ idem'[k].owner \in Requests /\ KeyOf[idem'[k].owner] = k
               /\ call'[idem'[k].owner].window # NoWindow
    BY <2>1 DEF RowsOwned
  <2>2. \A x \in Requests : call[x].window # NoWindow => call'[x].window = call[x].window
    BY <1>1 DEF RowMove, RowKept, RowRead, RowDropped, RowClaimed, RowResolved
  <2>3. CASE RowKept(r) \/ RowRead(r) \/ k # KeyOf[r]
    <3>1. idem'[k] = idem[k]
      BY <1>1, <2>3 DEF RowMove, RowKept, RowRead, RowDropped, RowClaimed, RowResolved, RecordOutcome
    <3> QED
      BY <1>1, <2>1, <2>2, <3>1
  <2>4. CASE RowDropped(r) /\ k = KeyOf[r]
    BY <1>1, <2>4 DEF RowDropped, NoRow
  <2>5. CASE RowClaimed(r) /\ k = KeyOf[r]
    BY <1>1, <2>5 DEF RowClaimed, NoWindow
  <2>6. CASE k = KeyOf[r] /\ \E state \in {"completed", "failed"} : RowResolved(r, state)
    <3>1. idem'[k].owner = idem[k].owner /\ idem[k].state # "none"
      BY <1>1, <2>6, KeysAssumption DEF RowResolved, RecordOutcome, Updated, Keyed
    <3> QED
      BY <2>1, <2>2, <3>1
  <2> QED
    BY <1>1, <2>3, <2>4, <2>5, <2>6 DEF RowMove
<1>2. ASSUME OtherRows, NEW k \in Keys, idem'[k].state # "none"
      PROVE  /\ idem'[k].owner \in Requests /\ KeyOf[idem'[k].owner] = k
             /\ call'[idem'[k].owner].window # NoWindow
  <2>1. \/ idem'[k] = idem[k] \/ idem'[k] = NoRow
        \/ idem'[k] = [idem[k] EXCEPT !.live = FALSE]
    BY <1>2, OtherRow
  <2>2. idem[k] \in Rows
    OBVIOUS
  <2>3. idem'[k].owner = idem[k].owner /\ idem[k].state # "none"
    BY <1>2, <2>1, <2>2 DEF NoRow
  <2> QED
    BY <1>2, <2>3 DEF OtherRows, RowsOwned
<1> QED
  BY <1>1, <1>2, StepKinds DEF RowsOwned

------------------------------------------------------------------------------
(* The row of a call that has got so far.                                  *)

\* Behind RecordKey, or answered otherwise than by the paths KeyResolved names.
Settling(r) ==
  \/ At(r, "audit")
  \/ /\ At(r, "done") /\ call[r].failure # "output"
     /\ reply[r].status \notin {"rejected", "too_long"}

Succeeded(r) == At(r, "audit") \/ reply[r] = [status |-> "completed", exec |-> r]

\* A call that settled left no running row, and the row of one that succeeded
\* says so as long as nobody else has the key.
KeyAt(r) ==
  InWindow(r)
  => /\ Settling(r) => idem[KeyOf[r]].state # "running"
     /\ Succeeded(r) /\ SoleHolder(r) => idem[KeyOf[r]].state = "completed"

KeysKnown == \A r \in Requests : KeyAt(r)

\* The calls that hold the window of their key own the row that answers for it.
LEMMA HeldRow ==
  ASSUME TypeOK, WindowInv, NEW r \in Requests, InWindow(r)
  PROVE  /\ KeyOf[r] \in Keys /\ call[r].window # NoWindow
         /\ Blocks(idem[KeyOf[r]]) /\ idem[KeyOf[r]].owner = r
<1>1. KeyOf[r] \in Keys
  BY KeysAssumption DEF InWindow, Keyed
<1>2. call[r].window # NoWindow
  BY <1>1 DEF InWindow, TypeOK, NoWindow
<1> QED
  BY <1>1, <1>2 DEF WindowInv, WindowOwned, InWindow

\* Another call's step leaves the row, or writes an outcome there and has the key.
LEMMA HeldRowMoves ==
  ASSUME TypeOK, WindowInv, NEW r \in Requests, InWindow(r),
         NEW x \in Requests \ {r}, RowMove(x)
  PROVE  \/ idem'[KeyOf[r]] = idem[KeyOf[r]]
         \/ idem'[KeyOf[r]].state \in {"completed", "failed"} /\ ~SoleHolder(r)
<1>1. KeyOf[r] \in Keys /\ Blocks(idem[KeyOf[r]])
  BY HeldRow
<1>2. CASE \E state \in {"completed", "failed"} : RowResolved(x, state) /\ KeyOf[x] = KeyOf[r]
  <2>1. PICK state \in {"completed", "failed"} : RowResolved(x, state) /\ KeyOf[x] = KeyOf[r]
    BY <1>2
  <2>2. Keyed(x) /\ call[x].pc \in Reserved
    BY <2>1 DEF RowResolved, InWindow, Keyed
  <2>3. call[x].window # NoWindow
    BY <2>2 DEF WindowInv, WindowTaken
  <2>4. idem'[KeyOf[r]].state = state
    BY <1>1, <2>1, <2>2 DEF RowResolved, RecordOutcome, Updated, Blocks, TypeOK, Rows
  <2> QED
    BY <2>1, <2>3, <2>4 DEF SoleHolder
<1>3. CASE ~\E state \in {"completed", "failed"} : RowResolved(x, state) /\ KeyOf[x] = KeyOf[r]
  <2>1. idem'[KeyOf[r]] = idem[KeyOf[r]]
    BY <1>1, <1>3 DEF RowMove, RowKept, RowRead, RowDropped, RowClaimed, RowResolved,
                      RecordOutcome, TypeOK
  <2> QED
    BY <2>1
<1> QED
  BY <1>2, <1>3

\* A window once taken stays.
LEMMA WindowsStay ==
  ASSUME NEW r \in Requests, RowMove(r)
  PROVE  \A x \in Requests : call[x].window # NoWindow => call'[x].window = call[x].window
PROOF BY DEF RowMove, RowKept, RowRead, RowDropped, RowClaimed, RowResolved

LEMMA KeysStep ==
  ASSUME TypeOK, TypeOK', WindowInv, WindowInv', CallsSound, LifeInv, RowsOwned, KeysKnown, [Next]_vars
  PROVE  KeysKnown'
<1>1. ASSUME NEW x \in Requests, RowMove(x), NEW r \in Requests \ {x}, InWindow(r)'
      PROVE  KeyAt(r)'
  <2>1. /\ UNCHANGED now /\ call'[r] = call[r] /\ reply'[r] = reply[r]
    BY <1>1 DEF RowMove
  <2>2. InWindow(r) /\ (Settling(r)' => Settling(r)) /\ (Succeeded(r)' => Succeeded(r))
    BY <1>1, <2>1 DEF InWindow, Keyed, Settling, Succeeded, At
  <2>3. SoleHolder(r)' => SoleHolder(r)
    BY <1>1, WindowsStay DEF SoleHolder
  <2>4. /\ Settling(r) => idem[KeyOf[r]].state # "running"
        /\ Succeeded(r) /\ SoleHolder(r) => idem[KeyOf[r]].state = "completed"
    BY <2>2 DEF KeysKnown, KeyAt
  <2>5. \/ idem'[KeyOf[r]] = idem[KeyOf[r]]
        \/ idem'[KeyOf[r]].state \in {"completed", "failed"} /\ ~SoleHolder(r)
    BY <1>1, <2>2, HeldRowMoves
  <2> QED
    BY <2>2, <2>3, <2>4, <2>5 DEF KeyAt
<1>2. ASSUME NEW r \in Requests, RowMove(r), OwnStep(r), InWindow(r)'
      PROVE  KeyAt(r)'
  <2>1. KeyOf[r] \in Keys /\ call'[r].window # NoWindow /\ Blocks(idem'[KeyOf[r]])
    <3>1. KeyOf[r] \in Keys
      BY <1>2, KeysAssumption DEF InWindow, Keyed
    <3>2. call'[r].window # NoWindow
      BY <1>2, <3>1 DEF InWindow, TypeOK, NoWindow
    <3> QED
      BY <1>2, <3>1, <3>2 DEF WindowInv, WindowOwned, InWindow, Keyed
  <2>2. call[r].pc # "done" => reply[r] = NoReply
    BY DEF CallsSound, CallSound, SuccessAt
  <2>3. CASE RowKept(r)
    <3>1. InWindow(r) /\ UNCHANGED idem /\ call'[r].pc # "audit"
      BY <1>2, <2>3 DEF RowMove, RowKept, InWindow, Keyed
    <3>2. CASE call'[r].pc # "done" /\ UNCHANGED reply
      <4>1. ~Settling(r)' /\ (Succeeded(r)' => reply[r] = [status |-> "completed", exec |-> r])
        BY <3>1, <3>2 DEF Settling, Succeeded, At
      <4> QED
        BY <3>1, <3>2, <4>1, WindowsStay, <1>2 DEF KeyAt, KeysKnown, Succeeded, SoleHolder
    <3>3. CASE call[r].pc = "audit"
      <4>1. Settling(r) /\ Succeeded(r)
        BY <3>3 DEF Settling, Succeeded, At
      <4>2. SoleHolder(r)' => SoleHolder(r)
        BY <1>2, WindowsStay DEF SoleHolder
      <4> QED
        BY <3>1, <4>1, <4>2 DEF KeyAt, KeysKnown
    <3>4. CASE call'[r].failure = "output" /\ reply'[r] = [status |-> "error", exec |-> r]
      BY <3>1, <3>4 DEF KeyAt, Settling, Succeeded, At
    <3>5. CASE reply'[r].status \in {"rejected", "too_long"}
      BY <3>1, <3>5 DEF KeyAt, Settling, Succeeded, At
    <3>6. call[r].window # NoWindow
      BY <2>1, <2>3 DEF RowKept
    <3> QED
      BY <2>3, <3>2, <3>3, <3>4, <3>5, <3>6 DEF RowKept
  <2>4. CASE RowRead(r)
    BY <2>1, <2>4 DEF RowRead
  <2>5. CASE RowDropped(r) \/ RowClaimed(r)
    <3>1. call'[r].pc \notin {"done", "audit"} /\ UNCHANGED reply
      BY <2>5 DEF RowDropped, RowClaimed
    <3>2. reply[r] = NoReply
      BY <1>2, <2>2 DEF OwnStep
    <3> QED
      BY <3>1, <3>2 DEF KeyAt, Settling, Succeeded, At, NoReply
  <2>6. ASSUME NEW state \in {"completed", "failed"}, RowResolved(r, state)
        PROVE  KeyAt(r)'
    <3>1. idem'[KeyOf[r]].state = state
      BY <1>2, <2>1, <2>6 DEF RowResolved, RecordOutcome, Updated, Blocks, TypeOK, Rows, InWindow, Keyed
    <3>2. Succeeded(r)' => state = "completed"
      BY <2>6 DEF RowResolved, Succeeded, At
    <3> QED
      BY <3>1, <3>2 DEF KeyAt
  <2> QED
    BY <1>2, <2>3, <2>4, <2>5, <2>6 DEF RowMove
<1>3. ASSUME OtherStep, OtherRows, NEW r \in Requests, InWindow(r)'
      PROVE  KeyAt(r)'
  <2>1. KeyOf[r] \in Keys
    BY <1>3, KeysAssumption DEF InWindow, Keyed
  <2>2. call'[r].window = call[r].window /\ call'[r].window = now'[KeyOf[r]]
    BY <1>3 DEF OtherRows, InWindow
  <2>3. now[KeyOf[r]] \in Nat
    BY <2>1 DEF TypeOK
  <2>4. now'[KeyOf[r]] = now[KeyOf[r]]
    <3>1. now'[KeyOf[r]] \in {now[KeyOf[r]], now[KeyOf[r]] + 1}
      BY <1>3, <2>1, OtherRow
    <3>2. call[r].window # NoWindow /\ Keyed(r)
      BY <1>3, <2>2, <2>3, <3>1 DEF InWindow, Keyed, NoWindow
    <3>3. call[r].window <= now[KeyOf[r]]
      BY <3>2 DEF WindowInv, WindowOwned
    <3> QED
      BY <2>2, <2>3, <3>1, <3>3
  <2>5. InWindow(r)
    BY <1>3, <2>2, <2>4 DEF InWindow, Keyed
  <2>6. idem'[KeyOf[r]] = idem[KeyOf[r]]
    <3>1. Blocks(idem[KeyOf[r]])
      BY <2>5, HeldRow
    <3>2. now'[KeyOf[r]] # now[KeyOf[r]] + 1
      BY <2>3, <2>4
    <3> QED
      BY <1>3, <2>1, <3>1, <3>2, OtherRow
  <2>7. (Settling(r)' => Settling(r)) /\ (Succeeded(r)' => Succeeded(r))
    <3>1. call[r] \in Frames
      BY DEF TypeOK
    <3>2. reply'[r] = reply[r] /\ (call'[r] = call[r] \/ call'[r].pc = "crashed")
      BY <1>3, <3>1 DEF OtherStep, Frames
    <3> QED
      BY <3>2 DEF Settling, Succeeded, At
  <2>8. SoleHolder(r)' => SoleHolder(r)
    BY <1>3 DEF OtherRows, SoleHolder
  <2> QED
    BY <2>5, <2>6, <2>7, <2>8 DEF KeyAt, KeysKnown
<1>4. \A r \in Requests : ~InWindow(r)' => KeyAt(r)'
  BY DEF KeyAt
<1> QED
  BY <1>1, <1>2, <1>3, <1>4, StepKinds DEF KeysKnown

------------------------------------------------------------------------------
(* What a row says of its owner, as long as no TTL has ended.              *)

\* The outcome of a call, once it has one.
CameTrue(x) == call[x].rec = "completed" /\ runs[x] > 0
Failed(x)   == call[x].pc = "done" /\ reply[x].status # "completed"

\* Every key is in its first window.
FirstWindows ==
  /\ \A k \in Keys : now[k] = 0 /\ (idem[k].state # "none" => idem[k].live)
  /\ \A r \in Requests : Keyed(r) => call[r].window \in {NoWindow, 0}

\* Rows and the answers taken from them say what became of the owner.
RowTrue(k) ==
  /\ idem[k].state = "completed" => CameTrue(idem[k].owner)
  /\ idem[k].state = "failed" => Failed(idem[k].owner)

AnswerTrue(r) ==
  reply[r].exec \in Requests \ {r}
  => /\ reply[r].status = "completed" => CameTrue(reply[r].exec)
     /\ reply[r].status = "error" => Failed(reply[r].exec)

RowsTrue    == \A k \in Keys : RowTrue(k)
AnswersTrue == \A r \in Requests : AnswerTrue(r)

ReplayInv == expiries = 0 => FirstWindows /\ RowsTrue /\ AnswersTrue

\* An outcome is final.
LEMMA OutcomesLast ==
  ASSUME TypeOK, NEW x \in Requests,
         \/ \E r \in Requests : OwnStep(r) /\ LifeMove(r) /\ RowMove(r)
         \/ OtherStep
  PROVE  /\ CameTrue(x) => CameTrue(x)'
         /\ Failed(x) => Failed(x)'
<1>1. ASSUME NEW r \in Requests, OwnStep(r), LifeMove(r), RowMove(r)
      PROVE  (CameTrue(x) => CameTrue(x)') /\ (Failed(x) => Failed(x)')
  <2>1. CASE x = r
    <3>1. call[r].rec = "completed" => call'[r].rec = "completed"
      BY <1>1, TerminalIsLast DEF LifeMove, Terminal
    <3> QED
      BY <1>1, <2>1, <3>1 DEF OwnStep, CameTrue, Failed
  <2>2. CASE x # r
    BY <1>1, <2>2 DEF OwnStep, CameTrue, Failed
  <2> QED
    BY <2>1, <2>2
<1>2. ASSUME OtherStep
      PROVE  (CameTrue(x) => CameTrue(x)') /\ (Failed(x) => Failed(x)')
  <2>1. call[x] \in Frames
    BY DEF TypeOK
  <2> QED
    BY <1>2, <2>1 DEF OtherStep, CameTrue, Failed, Frames
<1> QED
  BY <1>1, <1>2

\* In the first window a call that writes an outcome owns the row it writes to.
LEMMA WriterOwns ==
  ASSUME TypeOK, WindowInv, FirstWindows, NEW r \in Requests, Keyed(r), call[r].pc \in Reserved
  PROVE  idem[KeyOf[r]].owner = r
<1>1. KeyOf[r] \in Keys /\ call[r].window # NoWindow
  BY KeysAssumption DEF Keyed, WindowInv, WindowTaken
<1>2. call[r].window = now[KeyOf[r]]
  BY <1>1 DEF FirstWindows
<1> QED
  BY <1>1, <1>2 DEF WindowInv, WindowOwned

LEMMA ReplayStep ==
  ASSUME TypeOK, WindowInv, CallsSound, LifeInv, RowsOwned, ReplayInv, [Next]_vars
  PROVE  ReplayInv'
<1> USE DEF TypeOK, Rows
<1>1. ASSUME NEW r \in Requests, OwnStep(r), LifeMove(r), RowMove(r), expiries' = 0
      PROVE  (FirstWindows /\ RowsTrue /\ AnswersTrue)'
  <2>0. FirstWindows /\ RowsTrue /\ AnswersTrue /\ UNCHANGED now
    BY <1>1 DEF ReplayInv, RowMove
  <2>1. \A x \in Requests : (CameTrue(x) => CameTrue(x)') /\ (Failed(x) => Failed(x)')
    BY <1>1, OutcomesLast
  <2>2. ASSUME NEW k \in Keys
        PROVE  \/ idem'[k] = idem[k]
               \/ idem'[k] = NoRow
               \/ idem'[k] = [state |-> "running", owner |-> r, live |-> TRUE]
               \/ \E state \in {"completed", "failed"} :
                    /\ RowResolved(r, state) /\ k = KeyOf[r] /\ Keyed(r)
                    /\ idem[k].state # "none" /\ idem'[k] = [idem[k] EXCEPT !.state = state]
    BY SMTT(30), <1>1 DEF RowMove, RowKept, RowRead, RowDropped, RowClaimed, RowResolved, RecordOutcome, Updated
  <2>3. FirstWindows'
    <3>1. ASSUME NEW k \in Keys, idem'[k].state # "none"
          PROVE  idem'[k].live
      <4>1. idem[k] \in Rows /\ (idem[k].state # "none" => idem[k].live)
        BY <2>0 DEF FirstWindows
      <4>2. CASE \/ idem'[k] = idem[k] \/ idem'[k] = NoRow
                 \/ idem'[k] = [state |-> "running", owner |-> r, live |-> TRUE]
        BY <3>1, <4>1, <4>2 DEF NoRow
      <4>3. CASE \E state \in {"completed", "failed"} :
                   idem[k].state # "none" /\ idem'[k] = [idem[k] EXCEPT !.state = state]
        BY <4>1, <4>3
      <4> QED
        BY <2>2, <4>2, <4>3
    <3>2. ASSUME NEW x \in Requests, Keyed(x)
          PROVE  call'[x].window \in {NoWindow, 0}
      <4>1. KeyOf[x] \in Keys
        BY <3>2, KeysAssumption DEF Keyed
      <4> QED
        BY <1>1, <2>0, <3>2, <4>1
           DEF FirstWindows, RowMove, RowKept, RowRead, RowDropped, RowClaimed, RowResolved
    <3> QED
      BY <2>0, <3>1, <3>2 DEF FirstWindows, Keyed
  <2>4. RowsTrue'
    <3>1. ASSUME NEW k \in Keys
          PROVE  RowTrue(k)'
      <4>0. RowTrue(k) /\ (idem[k].state # "none" => idem[k].owner \in Requests)
        BY <2>0 DEF RowsTrue, RowsOwned
      <4>1. CASE idem'[k] = idem[k]
        BY <2>1, <4>0, <4>1 DEF RowTrue, CameTrue, Failed
      <4>2. CASE \E state \in {"completed", "failed"} :
                   /\ RowResolved(r, state) /\ k = KeyOf[r] /\ Keyed(r)
                   /\ idem[k].state # "none" /\ idem'[k] = [idem[k] EXCEPT !.state = state]
        <5>0. PICK state \in {"completed", "failed"} :
                /\ RowResolved(r, state) /\ k = KeyOf[r] /\ Keyed(r)
                /\ idem'[k] = [idem[k] EXCEPT !.state = state]
          BY <4>2
        <5>1. idem[k].owner = r
          BY <2>0, <5>0, WriterOwns DEF RowResolved
        <5>2. idem'[k].owner = r /\ idem'[k].state = state
          BY <5>0, <5>1
        <5>3. state = "completed" => CameTrue(r)
          BY <5>0 DEF RowResolved, CallsSound, CallSound, SuccessAt, CameTrue
        <5>4. state = "failed" => Failed(r)'
          BY <5>0 DEF RowResolved, Failed
        <5> QED
          BY <2>1, <5>2, <5>3, <5>4 DEF RowTrue, CameTrue, Failed
      <4>3. CASE \/ idem'[k] = NoRow
                 \/ idem'[k] = [state |-> "running", owner |-> r, live |-> TRUE]
        BY <4>3 DEF RowTrue, NoRow
      <4> QED
        BY <2>2, <4>1, <4>2, <4>3
    <3> QED
      BY <3>1 DEF RowsTrue
  <2>5. AnswersTrue'
    <3>1. ASSUME NEW y \in Requests
          PROVE  AnswerTrue(y)'
      <4>1. CASE reply'[y] = reply[y]
        BY <2>0, <2>1, <4>1 DEF AnswersTrue, AnswerTrue, CameTrue, Failed
      <4>2. CASE y = r /\ RowRead(r)
        <5>1. KeyOf[r] \in Keys /\ idem[KeyOf[r]].state # "none"
          BY <4>2, KeysAssumption DEF RowRead, Blocks, Keyed
        <5>2. RowTrue(KeyOf[r]) /\ idem[KeyOf[r]].owner \in Requests
          BY <2>0, <5>1 DEF RowsTrue, RowsOwned
        <5> QED
          BY <2>1, <4>2, <5>2 DEF RowRead, RowTrue, AnswerTrue, CameTrue, Failed
      <4>3. CASE reply'[y].exec \notin Requests \ {y}
        BY <4>3 DEF AnswerTrue
      <4>4. CASE y = r /\ ~RowRead(r) /\ reply'[r] # reply[r]
        <5>1. reply'[r].exec \in {r, NoReq}
          BY <1>1, <4>4 DEF RowMove, RowKept, RowDropped, RowClaimed, RowResolved
        <5> QED
          BY <4>3, <4>4, <5>1, KeysAssumption
      <4> QED
        BY <1>1, <4>1, <4>2, <4>4 DEF RowMove
    <3> QED
      BY <3>1 DEF AnswersTrue
  <2> QED
    BY <2>3, <2>4, <2>5
<1>2. ASSUME OtherStep, OtherRows, expiries' = 0
      PROVE  (FirstWindows /\ RowsTrue /\ AnswersTrue)'
  <2>0. UNCHANGED <<now, expiries>>
    BY <1>2 DEF OtherRows
  <2>1. FirstWindows /\ RowsTrue /\ AnswersTrue
    BY <1>2, <2>0 DEF ReplayInv
  <2>2. \A x \in Requests : (CameTrue(x) => CameTrue(x)') /\ (Failed(x) => Failed(x)')
    BY <1>2, OutcomesLast
  <2>3. \A k \in Keys : idem'[k] = idem[k] \/ idem'[k] = NoRow
    BY <1>2, <2>0 DEF OtherRows
  <2>4. FirstWindows'
    <3>1. \A k \in Keys : now'[k] = 0 /\ (idem'[k].state # "none" => idem'[k].live)
      BY <2>0, <2>1, <2>3 DEF FirstWindows, NoRow
    <3>2. \A r \in Requests : Keyed(r) => call'[r].window \in {NoWindow, 0}
      BY <1>2, <2>1 DEF FirstWindows, OtherRows
    <3> QED
      BY <3>1, <3>2 DEF FirstWindows, Keyed
  <2>5. RowsTrue'
    BY <2>1, <2>2, <2>3 DEF RowsTrue, RowTrue, RowsOwned, NoRow, CameTrue, Failed
  <2>6. AnswersTrue'
    BY <1>2, <2>1, <2>2 DEF AnswersTrue, AnswerTrue, OtherStep, CameTrue, Failed
  <2> QED
    BY <2>4, <2>5, <2>6
<1> QED
  BY <1>1, <1>2, StepKinds DEF ReplayInv

------------------------------------------------------------------------------
(* The theorems.                                                           *)

OutcomeInv == CallsSound /\ RowsOwned /\ KeysKnown /\ ReplayInv

LEMMA InitOutcomes ==
  ASSUME Init
  PROVE  OutcomeInv
<1>1. CallsSound
  BY DEF Init, CallsSound, CallSound, BudgetAt, SuccessAt, AttemptAt, NoReply
<1>2. RowsOwned /\ ReplayInv
  BY KeysAssumption DEF Init, RowsOwned, ReplayInv, FirstWindows, RowsTrue, RowTrue, AnswersTrue,
                        AnswerTrue, NoRow, NoReply
<1>3. KeysKnown
  BY DEF Init, KeysKnown, KeyAt, Settling, Succeeded, At, NoReply
<1> QED
  BY <1>1, <1>2, <1>3 DEF OutcomeInv

\* Where a call stands, what it answered and what the row of its key says of it
\* agree in every reachable state.
THEOREM OutcomesAgree == Spec => [](TypeOK /\ LifeInv /\ WindowInv /\ OutcomeInv)
<1>1. Init => LifeInv /\ OutcomeInv
  BY InitOutcomes DEF Init, LifeInv, CopiesKnown, CopyAt, OpenStored
<1>2. TypeOK /\ TypeOK' /\ RecordInv /\ WindowInv /\ WindowInv' /\ LifeInv /\ OutcomeInv /\ [Next]_vars
      => LifeInv' /\ OutcomeInv'
  BY RecordsStep, SoundStep, RowsStep, KeysStep, ReplayStep DEF RecordInv, OutcomeInv
<1> QED
  BY <1>1, <1>2, Inductive, RecordsFollowCalls, PTL DEF Spec

\* Steps 9 and 15 and the catch block: whatever fails, times out or is cancelled,
\* a call that returned holds no budget, but on the two paths that skip settle().
THEOREM BudgetsReturned == Spec => []BudgetReturned
<1>1. OutcomeInv => BudgetReturned
  BY DEF OutcomeInv, CallsSound, CallSound, BudgetAt, BudgetReturned, At
<1> QED
  BY <1>1, OutcomesAgree, PTL

\* Steps 9 and 16 and the catch block: a call that returned leaves its key
\* "running", and so every retry "accepted", only on the three named paths.
THEOREM KeysResolved == Spec => []KeyResolved
<1>1. OutcomeInv => KeyResolved
  BY DEF OutcomeInv, KeysKnown, KeyAt, Settling, KeyResolved
<1> QED
  BY <1>1, OutcomesAgree, PTL

\* Steps 13 to 18: a success is answered when the handler has run, the budget is
\* settled and the record, the key's row and the audit entry are written.
THEOREM SuccessesBacked == Spec => []SuccessIsBacked
<1>1. ASSUME TypeOK, WindowInv, OutcomeInv
      PROVE  SuccessIsBacked
  <2>1. SUFFICES ASSUME NEW r \in Requests, reply[r] = [status |-> "completed", exec |-> r]
                 PROVE  /\ runs[r] > 0 /\ r \in audit
                        /\ budgets[r] # "held"
                        /\ call[r].rec = "completed"
                        /\ InWindow(r) /\ SoleHolder(r)
                           => idem[KeyOf[r]] = [state |-> "completed", owner |-> r, live |-> TRUE]
    BY DEF SuccessIsBacked
  <2>2. runs[r] > 0 /\ r \in audit /\ budgets[r] # "held" /\ call[r].rec = "completed"
    BY <1>1, <2>1 DEF OutcomeInv, CallsSound, CallSound, SuccessAt
  <2>3. ASSUME InWindow(r), SoleHolder(r)
        PROVE  idem[KeyOf[r]] = [state |-> "completed", owner |-> r, live |-> TRUE]
    <3>1. KeyOf[r] \in Keys /\ idem[KeyOf[r]].live /\ idem[KeyOf[r]].owner = r
      BY <1>1, <2>3, HeldRow DEF Blocks
    <3>2. idem[KeyOf[r]].state = "completed"
      BY <1>1, <2>1, <2>3 DEF OutcomeInv, KeysKnown, KeyAt, Succeeded
    <3>3. idem[KeyOf[r]] \in Rows
      BY <1>1, <3>1 DEF TypeOK
    <3> QED
      BY <3>1, <3>2, <3>3 DEF Rows
  <2> QED
    BY <2>2, <2>3
<1> QED
  BY <1>1, OutcomesAgree, PTL

\* 008-idempotency section 4: until a TTL ends, an answer that replays another
\* execution's row says of it what is true.
THEOREM ReplaysTrue == Spec => [](expiries = 0 => ReplayIsTrue)
<1>1. ASSUME OutcomeInv, expiries = 0
      PROVE  ReplayIsTrue
  <2>1. ASSUME NEW r \in Requests, reply[r].exec \in Requests \ {r}
        PROVE  /\ reply[r].status = "completed"
                  => call[reply[r].exec].rec = "completed" /\ runs[reply[r].exec] > 0
               /\ reply[r].status = "error" => reply[reply[r].exec].status # "completed"
    BY <1>1, <2>1 DEF OutcomeInv, ReplayInv, AnswersTrue, AnswerTrue, CameTrue, Failed
  <2>2. ASSUME NEW r \in Requests, reply[r].exec \in Requests \ {r}
        PROVE  runs[r] = 0
    BY <1>1, <2>2, KeysAssumption DEF OutcomeInv, CallsSound, CallSound, SuccessAt
  <2> QED
    BY <2>1, <2>2 DEF ReplayIsTrue
<1> QED
  BY <1>1, OutcomesAgree, PTL

\* withRetry and shouldRetry: one handler call per attempt, another only after a
\* retryable failure and within max_attempts, none for a call that answered.
THEOREM RetriesDisciplined == Spec => RetryDiscipline
<1>1. ASSUME TypeOK, WindowInv, LifeInv, OutcomeInv, [Next]_vars
      PROVE  [\A r \in Requests :
                runs'[r] # runs[r]
                => /\ runs'[r] = call[r].attempt
                   /\ call[r].attempt = 1 \/ (call[r].failure = "transient" /\ call[r].attempt <= MaxAttempts)
                   /\ reply[r] = NoReply]_vars
  BY <1>1, SoundStep DEF OutcomeInv, RetryStep
<1> QED
  BY <1>1, OutcomesAgree, PTL DEF Spec, RetryDiscipline

==============================================================================
