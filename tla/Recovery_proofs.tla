---------------------------- MODULE Recovery_proofs ---------------------------
(***************************************************************************)
(* recover() and the calls it runs beside never undo each other's final    *)
(* states, except where a cancel() or a call that recover() gave up on     *)
(* while it was running saves its own copy.                                *)
(***************************************************************************)
EXTENDS Recovery, FiniteSetTheorems, SequenceTheorems, TLAPS

Targeted(r) == \E c \in Cancellers : target[c] = r

\* A final row of a call in flight is what the call itself saved, or was failed
\* by recover().
FinalInv ==
  \A r \in Requests : ~Targeted(r) =>
    /\ phase[r] = "idle" => stored[r] = "none"
    /\ phase[r] = "live" /\ stored[r] \in Terminal
       => copy[r] \in Terminal \/ stored[r] = "failed"

Disturbed(r) == stored[r] \in Terminal /\ stored'[r] # stored[r]

\* What a step may do to a final row.
Final ==
  \A r \in Requests : Disturbed(r) =>
    Targeted(r) \/ (stored[r] = "failed" /\ phase[r] = "live" /\ copy[r] \notin Terminal)

------------------------------------------------------------------------------

\* The table: nothing leaves a final state.
LEMMA TerminalIsLast ==
  ASSUME NEW from, NEW to, CanTransition(from, to)
  PROVE  from \notin Terminal
PROOF BY DEF CanTransition, AllowedTransitions, Waiting, Terminal

\* The states listed are not final.
LEMMA ListedAreUnfinished ==
  ASSUME NEW i \in 1..Len(UnfinishedStates)
  PROVE  UnfinishedStates[i] \in States \ Terminal
PROOF BY DEF UnfinishedStates, States, Terminal

\* The records found in one state are a sequence of entries.
LEMMA ListingType ==
  ASSUME NEW state \in States \ Terminal, NEW T \in SUBSET Requests,
         NEW found \in SetToSeqs(T)
  PROVE  [i \in DOMAIN found |-> [exec |-> found[i], state |-> state]] \in Seq(Entries)
<1>1. IsFiniteSet(T)
  BY RequestsAssumption, FS_Subset
<1>2. Cardinality(T) \in Nat
  BY <1>1, FS_CardinalityType
<1>3. found \in [1..Cardinality(T) -> T]
  BY DEF SetToSeqs
<1>4. [i \in DOMAIN found |-> [exec |-> found[i], state |-> state]]
        \in [1..Cardinality(T) -> Entries]
  BY <1>3 DEF Entries
<1> DEFINE n == Cardinality(T)
           rows == [i \in DOMAIN found |-> [exec |-> found[i], state |-> state]]
<1>5. n \in Nat /\ rows \in [1..n -> Entries]
  BY <1>2, <1>4
<1> HIDE DEF n, rows
<1>6. rows \in Seq(Entries)
  BY <1>5
<1> QED
  BY <1>6 DEF rows

\* Taking the next record keeps the types.
LEMMA ReportedType ==
  ASSUME RecoveryTypeOK, scan.todo # <<>>, NEW action \in Actions
  PROVE  /\ Current \in Entries
         /\ Reported(action) \in [at : {"act"}, next : 1..(Len(UnfinishedStates) + 1),
                                 todo : Seq(Entries), old : SUBSET Requests,
                                 report : SUBSET (Requests \X Actions), errors : BOOLEAN,
                                 ended : SUBSET Requests, cutOff : SUBSET Requests]
<1>1. Current \in Entries /\ Tail(scan.todo) \in Seq(Entries)
  BY HeadTailProperties DEF RecoveryTypeOK, Current
<1>2. Current.exec \in Requests
  BY <1>1 DEF Entries
<1> DEFINE report == scan.report \cup {<<Current.exec, action>>}
           todo == Tail(scan.todo)
<1>3. report \in SUBSET (Requests \X Actions) /\ todo \in Seq(Entries)
  BY <1>1, <1>2 DEF RecoveryTypeOK
<1>4. Reported(action) = [scan EXCEPT !.at = "act", !.todo = todo, !.report = report]
  BY DEF Reported
<1> HIDE DEF report, todo
<1> QED
  BY <1>1, <1>3, <1>4 DEF RecoveryTypeOK

\* And the report grows by what was done.
LEMMA ReportedGrows ==
  ASSUME RecoveryTypeOK, NEW action
  PROVE  Reported(action).report = scan.report \cup {<<Current.exec, action>>}
<1> DEFINE report == scan.report \cup {<<Current.exec, action>>}
           todo == Tail(scan.todo)
<1>1. Reported(action) = [scan EXCEPT !.at = "act", !.todo = todo, !.report = report]
  BY DEF Reported
<1> HIDE DEF report, todo
<1>2. Reported(action).report = report
  BY <1>1 DEF RecoveryTypeOK
<1> QED
  BY <1>2 DEF report

\* transition() keeps the types.
LEMMA SetType ==
  ASSUME TypeOK, NEW x, NEW from, NEW to \in States, CompareAndSet(x, from, to), UNCHANGED calls
  PROVE  TypeOK'
PROOF BY DEF TypeOK, CompareAndSet, calls

\* The steps of execute(), cancel() and a crash keep the types.
LEMMA RecordTypes ==
  ASSUME TypeOK,
         LiveStep \/ \E dead \in SUBSET Requests, lost \in SUBSET Cancellers : Crash(dead, lost)
  PROVE  TypeOK'
<1> USE DEF TypeOK
<1>1. ASSUME NEW r \in Requests, Begin(r) \/ End(r)
      PROVE  TypeOK'
  BY <1>1 DEF Begin, End
<1>2. ASSUME NEW r \in Requests, Create(r)
      PROVE  TypeOK'
  BY <1>2 DEF Create, States
<1>3. ASSUME NEW r \in Requests, Move(r)
      PROVE  TypeOK'
  BY <1>3 DEF Move
<1>4. ASSUME NEW c \in Cancellers, NEW r \in Requests, CancelBegin(c, r)
      PROVE  TypeOK'
  BY <1>4 DEF CancelBegin
<1>5. ASSUME NEW c \in Cancellers, CancelSave(c) \/ CancelEnd(c)
      PROVE  TypeOK'
  <2>1. CASE CancelSave(c)
    BY <2>1 DEF CancelSave, States
  <2>2. CASE CancelEnd(c)
    BY <2>2 DEF CancelEnd
  <2> QED
    BY <1>5, <2>1, <2>2
<1>6. ASSUME NEW dead \in SUBSET Requests, NEW lost \in SUBSET Cancellers, Crash(dead, lost)
      PROVE  TypeOK'
  BY <1>6 DEF Crash
<1> QED
  BY <1>1, <1>2, <1>3, <1>4, <1>5, <1>6 DEF LiveStep

\* So do the steps of recover().
LEMMA RecoverTypes ==
  ASSUME RecoveryTypeOK, RecoverStep
  PROVE  RecoveryTypeOK'
<1> USE DEF RecoveryTypeOK
<1>0. UNCHANGED vars => TypeOK'
  BY DEF vars, TypeOK
<1>1. CASE RecoverBegin
  BY <1>0, <1>1 DEF RecoverBegin
<1>2. CASE RecoverList
  <2> DEFINE state == UnfinishedStates[scan.next]
  <2>1. PICK T \in Newest(InState(state)) : \E found \in SetToSeqs(T) :
          scan' = [scan EXCEPT !.next = @ + 1,
                     !.todo = @ \o [i \in DOMAIN found |-> [exec |-> found[i], state |-> state]],
                     !.cutOff = @ \cup (InState(state) \ T)]
    BY <1>2 DEF RecoverList
  <2>2. scan.at = "list" /\ scan.next \in 1..Len(UnfinishedStates) /\ scan.next + 1 \in 1..(Len(UnfinishedStates) + 1)
    BY <1>2 DEF RecoverList, UnfinishedStates
  <2>3. T \in SUBSET Requests /\ InState(state) \in SUBSET Requests
    BY <2>1 DEF Newest, InState
  <2>4. PICK found \in SetToSeqs(T) :
          scan' = [scan EXCEPT !.next = @ + 1,
                     !.todo = @ \o [i \in DOMAIN found |-> [exec |-> found[i], state |-> state]],
                     !.cutOff = @ \cup (InState(state) \ T)]
    BY <2>1
  <2> DEFINE rows == [i \in DOMAIN found |-> [exec |-> found[i], state |-> state]]
             left == scan.cutOff \cup (InState(state) \ T)
  <2>5. rows \in Seq(Entries)
    BY <2>2, <2>3, ListedAreUnfinished, ListingType
  <2>6. scan' = [scan EXCEPT !.next = scan.next + 1, !.todo = scan.todo \o rows, !.cutOff = left]
    BY <2>4
  <2>7. left \in SUBSET Requests
    BY <2>3
  <2> HIDE DEF rows, state, left
  <2>8. scan.todo \o rows \in Seq(Entries)
    BY <2>5, ConcatProperties
  <2> QED
    BY <1>0, <1>2, <2>2, <2>6, <2>7, <2>8 DEF RecoverList
<1>3. CASE RecoverAges
  <2>1. PICK old \in SUBSET {x.exec : x \in Range(scan.todo)} :
          scan' = [scan EXCEPT !.at = "act", !.old = old]
    BY <1>3 DEF RecoverAges
  <2>2. Range(scan.todo) \subseteq Entries
    BY RangeOfSeq
  <2>3. old \subseteq Requests
    BY <2>1, <2>2 DEF Entries
  <2> QED
    BY <1>0, <1>3, <2>1, <2>3 DEF RecoverAges
<1>4. CASE RecoverSkip
  BY <1>0, <1>4, ReportedType DEF RecoverSkip, Decided, Actions
<1>5. CASE RecoverFail
  BY <1>5, ReportedType, SetType DEF RecoverFail, Decided, Actions, States
<1>6. CASE RecoverResume
  BY <1>6, ReportedType, SetType DEF RecoverResume, Decided, Actions, States
<1>7. CASE RecoverCompensate
  BY <1>7, SetType DEF RecoverCompensate, Decided, States
<1>8. CASE RecoverCompensated
  BY <1>8, ReportedType, SetType DEF RecoverCompensated, Actions, States
<1>9. CASE RecoverGc
  BY <1>0, <1>9 DEF RecoverGc
<1>10. CASE RecoverFault
  <2>1. scan.at = "list" /\ scan.next <= Len(UnfinishedStates)
        => scan.next + 1 \in 1..(Len(UnfinishedStates) + 1)
    BY DEF UnfinishedStates
  <2>2. scan.todo # <<>> => Reported("no_action") \in
          [at : {"act"}, next : 1..(Len(UnfinishedStates) + 1), todo : Seq(Entries),
           old : SUBSET Requests, report : SUBSET (Requests \X Actions), errors : BOOLEAN,
           ended : SUBSET Requests, cutOff : SUBSET Requests]
    BY ReportedType DEF Actions
  <2> QED
    BY <1>0, <1>10, <2>1, <2>2 DEF RecoverFault, Decided
<1> QED
  BY <1>1, <1>2, <1>3, <1>4, <1>5, <1>6, <1>7, <1>8, <1>9, <1>10 DEF RecoverStep

------------------------------------------------------------------------------

\* A call and its record: whatever a call does, its own copy leads its row.
LEMMA LiveKeepsFinal ==
  ASSUME TypeOK, FinalInv, LiveStep
  PROVE  FinalInv' /\ Final
<1> USE DEF TypeOK
<1>1. ASSUME NEW r \in Requests, Begin(r) \/ End(r) \/ Create(r) \/ Move(r)
      PROVE  FinalInv' /\ Final
  <2>1. \A x \in Requests : Targeted(x)' <=> Targeted(x)
    BY <1>1 DEF Begin, End, Create, Move, Targeted
  <2>2. \A x \in Requests \ {r} : /\ phase'[x] = phase[x] /\ copy'[x] = copy[x]
                                   /\ stored'[x] = stored[x]
    BY <1>1 DEF Begin, End, Create, Move
  <2>3. stored'[r] # stored[r] => /\ phase[r] = "live" /\ copy[r] \notin Terminal
                                  /\ stored'[r] = copy'[r] /\ phase'[r] = "live"
    <3>1. CASE Begin(r) \/ End(r)
      BY <3>1 DEF Begin, End
    <3>2. CASE Create(r)
      BY <3>2 DEF Create, Terminal
    <3>3. CASE Move(r)
      BY <3>3, TerminalIsLast DEF Move
    <3> QED
      BY <1>1, <3>1, <3>2, <3>3
  <2>4. stored'[r] = stored[r] =>
          /\ phase'[r] = "idle" => phase[r] = "idle"
          /\ phase'[r] = "live" => \/ phase[r] = "idle"
                                   \/ phase[r] = "live" /\ (copy'[r] = copy[r] \/ copy[r] \notin Terminal)
    <3>1. CASE Begin(r) \/ End(r)
      BY <3>1 DEF Begin, End
    <3>2. CASE Create(r)
      BY <3>2 DEF Create, Terminal
    <3>3. CASE Move(r)
      BY <3>3, TerminalIsLast DEF Move
    <3> QED
      BY <1>1, <3>1, <3>2, <3>3
  <2>5. ~Targeted(r) => /\ phase'[r] = "idle" => stored'[r] = "none"
                        /\ phase'[r] = "live" /\ stored'[r] \in Terminal
                           => copy'[r] \in Terminal \/ stored'[r] = "failed"
    BY <2>3, <2>4 DEF FinalInv, Terminal
  <2>6. FinalInv'
    BY <2>1, <2>2, <2>5 DEF FinalInv
  <2>7. Final
    BY <2>2, <2>3 DEF Final, Disturbed, FinalInv
  <2> QED
    BY <2>6, <2>7
<1>2. ASSUME NEW c \in Cancellers,
             (\E r \in Requests : CancelBegin(c, r)) \/ CancelSave(c) \/ CancelEnd(c)
      PROVE  FinalInv' /\ Final
  <2>1. \A x \in Requests : Targeted(x) => Targeted(x)'
    BY <1>2, NoReqAssumption DEF CancelBegin, CancelSave, CancelEnd, Targeted
  <2>2. UNCHANGED <<phase, copy>>
    BY <1>2 DEF CancelBegin, CancelSave, CancelEnd
  <2>3. \A x \in Requests : stored'[x] # stored[x] => Targeted(x)
    BY <1>2 DEF CancelBegin, CancelSave, CancelEnd, Targeted
  <2> QED
    BY <2>1, <2>2, <2>3 DEF FinalInv, Final, Disturbed
<1> QED
  BY <1>1, <1>2 DEF LiveStep

LEMMA CrashKeepsFinal ==
  ASSUME TypeOK, FinalInv, NEW dead, NEW lost, Crash(dead, lost)
  PROVE  FinalInv' /\ Final
<1>1. \A r \in Requests : /\ phase'[r] = "live" => phase[r] = "live"
                          /\ phase'[r] = "idle" => phase[r] = "idle"
  BY DEF Crash, TypeOK
<1>2. UNCHANGED <<copy, stored, target>>
  BY DEF Crash
<1>3. FinalInv'
  <2> SUFFICES ASSUME NEW r \in Requests, ~Targeted(r)'
               PROVE  /\ phase'[r] = "idle" => stored'[r] = "none"
                      /\ phase'[r] = "live" /\ stored'[r] \in Terminal
                         => copy'[r] \in Terminal \/ stored'[r] = "failed"
    BY DEF FinalInv
  <2>1. ~Targeted(r)
    BY <1>2 DEF Targeted
  <2> QED
    BY <1>1, <1>2, <2>1 DEF FinalInv
<1>4. Final
  BY <1>2 DEF Final, Disturbed
<1> QED
  BY <1>3, <1>4

\* What a step of recover() does to the rows: it takes none out of a final
\* state, and one that it makes final it fails.
Careful ==
  /\ UNCHANGED calls
  /\ \A r \in Requests : stored'[r] # stored[r] =>
       /\ stored[r] \in States \ Terminal
       /\ stored'[r] \in Terminal => stored'[r] = "failed"

LEMMA RecoverIsCareful ==
  ASSUME RecoveryTypeOK, RecoverStep
  PROVE  Careful
<1> USE DEF RecoveryTypeOK, TypeOK
<1>1. scan.todo # <<>> => Current.state \in States \ Terminal
  BY ReportedType DEF Entries, Actions
<1>2. CASE RecoverBegin \/ RecoverList \/ RecoverAges \/ RecoverSkip \/ RecoverGc \/ RecoverFault
  BY <1>2 DEF RecoverBegin, RecoverList, RecoverAges, RecoverSkip, RecoverGc, RecoverFault,
     vars, calls, Careful
<1>3. CASE RecoverFail
  <2>1. scan.todo # <<>> /\ UNCHANGED calls
    BY <1>3 DEF RecoverFail, Decided
  <2>2. stored' = IF stored[Current.exec] = Current.state
                  THEN [stored EXCEPT ![Current.exec] = "failed"] ELSE stored
    BY <1>3 DEF RecoverFail, CompareAndSet
  <2>3. \A r \in Requests : stored'[r] # stored[r]
                           => stored[r] = Current.state /\ stored'[r] = "failed"
    BY <2>2
  <2> QED
    BY <1>1, <2>1, <2>3 DEF Careful
<1>4. CASE RecoverResume
  BY <1>4 DEF RecoverResume, CompareAndSet, Careful, States, Terminal
<1>5. CASE RecoverCompensate
  BY <1>1, <1>5 DEF RecoverCompensate, Decided, CompareAndSet, Careful, Terminal
<1>6. CASE RecoverCompensated
  BY <1>6 DEF RecoverCompensated, CompareAndSet, Careful, States, Terminal
<1> QED
  BY <1>2, <1>3, <1>4, <1>5, <1>6 DEF RecoverStep

LEMMA CarefulKeepsFinal ==
  ASSUME FinalInv, Careful
  PROVE  FinalInv' /\ Final
BY DEF FinalInv, Final, Careful, calls, Disturbed, Targeted, States

\* The types, for any number of calls and any interleaving with them.
THEOREM RecoveryTypes == RecoverySpec => []RecoveryTypeOK
<1>1. RecoveryInit => RecoveryTypeOK
  BY DEF RecoveryInit, Init, IdleScan, RecoveryTypeOK, TypeOK, UnfinishedStates
<1>2. RecoveryTypeOK /\ [RecoveryNext]_recoveryVars => RecoveryTypeOK'
  <2> SUFFICES ASSUME RecoveryTypeOK, [RecoveryNext]_recoveryVars
               PROVE  RecoveryTypeOK'
    OBVIOUS
  <2>1. CASE LiveStep /\ UNCHANGED scan
    BY <2>1, RecordTypes DEF RecoveryTypeOK
  <2>2. ASSUME NEW dead \in SUBSET Requests, NEW lost \in SUBSET Cancellers, Crash(dead, lost),
               scan' \in {scan, IdleScan}
        PROVE  RecoveryTypeOK'
    <3>1. TypeOK'
      BY <2>2, RecordTypes DEF RecoveryTypeOK
    <3>2. CASE scan' = scan
      BY <3>1, <3>2 DEF RecoveryTypeOK
    <3>3. CASE scan' = IdleScan
      BY <3>1, <3>3 DEF RecoveryTypeOK, IdleScan, UnfinishedStates
    <3> QED
      BY <2>2, <3>2, <3>3
  <2>3. CASE RecoverStep
    BY <2>3, RecoverTypes
  <2>4. CASE UNCHANGED recoveryVars
    BY <2>4 DEF recoveryVars, RecoveryTypeOK, TypeOK
  <2> QED
    BY <2>1, <2>2, <2>3, <2>4 DEF RecoveryNext
<1> QED
  BY <1>1, <1>2, PTL DEF RecoverySpec

LEMMA FinalStep ==
  ASSUME RecoveryTypeOK, FinalInv, [RecoveryNext]_recoveryVars
  PROVE  FinalInv' /\ Final
<1>1. TypeOK
  BY DEF RecoveryTypeOK
<1>2. CASE LiveStep /\ UNCHANGED scan
  BY <1>1, <1>2, LiveKeepsFinal
<1>3. ASSUME NEW dead, NEW lost, Crash(dead, lost) PROVE FinalInv' /\ Final
  BY <1>1, <1>3, CrashKeepsFinal
<1>4. CASE RecoverStep
  BY <1>4, RecoverIsCareful, CarefulKeepsFinal
<1>5. CASE UNCHANGED recoveryVars
  BY <1>5 DEF recoveryVars, FinalInv, Final, Disturbed, Targeted
<1> QED
  BY <1>2, <1>3, <1>4, <1>5 DEF RecoveryNext

\* recover() takes no record out of a terminal state, however stale the list it
\* works from; a record that leaves one was cancelled, or recover() had failed
\* it under the call that owns it, which still runs, here or on another node.
THEOREM RecoveryKeepsFinalStates == RecoverySpec => RecoveryIsFinal
<1>1. RecoveryInit => FinalInv
  BY DEF RecoveryInit, Init, FinalInv
<1>2. RecoveryTypeOK /\ FinalInv /\ [RecoveryNext]_recoveryVars => FinalInv'
  BY FinalStep
<1>3. ASSUME RecoveryTypeOK, FinalInv, [RecoveryNext]_recoveryVars
      PROVE  [\A r \in Requests :
                stored[r] \in Terminal /\ stored'[r] # stored[r]
                => \/ \E c \in Cancellers : target[c] = r
                   \/ stored[r] = "failed" /\ phase[r] = "live" /\ copy[r] \notin Terminal]_recoveryVars
  BY <1>3, FinalStep DEF Final, Disturbed, Targeted
<1> QED
  BY <1>1, <1>2, <1>3, RecoveryTypes, PTL DEF RecoverySpec, RecoveryIsFinal

------------------------------------------------------------------------------
(* What recover() makes of the calls that died.                            *)

\* r was listed and is still to be taken up; it stands in a state still to be listed.
ListedFor(r) == \E i \in 1..Len(scan.todo) : scan.todo[i].exec = r

StillToList(r) ==
  /\ scan.at \in {"idle", "list"}
  /\ \E i \in 1..Len(UnfinishedStates) : i >= scan.next /\ UnfinishedStates[i] = stored[r]

\* How far the record of a dead call can have moved since it was listed.
CloseTo(r, state) ==
  \/ stored[r] = state
  \/ stored[r] = "failed"
  \/ state = "paused" /\ stored[r] = "running" /\ <<r, "resume">> \in scan.report
  \/ state \in MayBeRunning /\ stored[r] = "compensating"

\* Reported as given up: what ReportIsTrue is about.
Rescued(r) == \E action \in {"fail", "compensate"} : <<r, action>> \in scan.report

\* What AbandonedIsResolved asks of a record.
Settled(r) ==
  \/ stored[r] \in Terminal \cup {"none"}
  \/ /\ stored[r] \in MayBeRunning \cup {"awaiting_approval", "paused"}
     /\ <<r, "no_action">> \in scan.report
  \/ stored[r] = "running" /\ <<r, "resume">> \in scan.report
  \/ r \in scan.cutOff

\* The call that made the record has ended or died, and stays so.
Gone(r) == phase[r] \in {"over", "crashed"}

\* The frame of recover(): it reports nothing while it lists, lists every state
\* before it acts, and is done only when nothing is left to do.
FrameInv ==
  /\ scan.at \in {"idle", "list"} => scan.report = {}
  /\ scan.at = "idle" => scan.next = 1 /\ scan.todo = <<>>
  /\ scan.at \in {"act", "compensating"} => scan.next > Len(UnfinishedStates)
  /\ scan.at = "done" => scan.todo = <<>>
  /\ \A r \in scan.ended : Gone(r)

\* The records of one dead call: all its entries name one state, from which its
\* row has moved by steps of recover() alone.
EntriesInv(r) ==
  /\ \A i, j \in 1..Len(scan.todo) :
       scan.todo[i].exec = r /\ scan.todo[j].exec = r => scan.todo[i].state = scan.todo[j].state
  /\ \A i \in 1..Len(scan.todo) : scan.todo[i].exec = r =>
       IF scan.at = "list" THEN stored[r] = scan.todo[i].state ELSE CloseTo(r, scan.todo[i].state)
  /\ scan.at = "compensating" /\ Current.exec = r => stored[r] \in {"compensating", "failed"}

\* Given up means failed; and unless an operation failed, nothing is forgotten.
OutcomeOf(r) ==
  /\ Rescued(r) => stored[r] = "failed"
  /\ ~scan.errors => ListedFor(r) \/ StillToList(r) \/ Settled(r)

ScanInv == FrameInv /\ \A r \in Requests : Abandoned(r) => EntriesInv(r) /\ OutcomeOf(r)

\* The state of every record is listed or needs no listing.
LEMMA EveryStateIsListed ==
  ASSUME NEW state \in States \ Terminal
  PROVE  \E i \in 1..Len(UnfinishedStates) : i >= 1 /\ UnfinishedStates[i] = state
<1>1. Len(UnfinishedStates) = 10
  BY DEF UnfinishedStates
<1>2. /\ UnfinishedStates[1] = "created" /\ UnfinishedStates[2] = "planned"
      /\ UnfinishedStates[3] = "awaiting_approval" /\ UnfinishedStates[4] = "authorized"
      /\ UnfinishedStates[5] = "queued" /\ UnfinishedStates[6] = "running"
      /\ UnfinishedStates[7] = "paused" /\ UnfinishedStates[8] = "retrying"
      /\ UnfinishedStates[9] = "cancelling" /\ UnfinishedStates[10] = "compensating"
  BY DEF UnfinishedStates
<1>3. state \in {"created", "planned", "awaiting_approval", "authorized", "queued", "running",
                 "paused", "retrying", "cancelling", "compensating"}
  BY DEF States, Terminal
<1> QED
  BY <1>1, <1>2, <1>3

\* list({state}) finds every record in that state, up to those that it cuts off.
LEMMA ListingIsComplete ==
  ASSUME NEW T \in SUBSET Requests, NEW found \in SetToSeqs(T), NEW r \in T
  PROVE  \E i \in DOMAIN found : found[i] = r
<1> DEFINE n == Cardinality(T)
<1>1. IsFiniteSet(T)
  BY RequestsAssumption, FS_Subset
<1>2. n \in Nat
  BY <1>1, FS_CardinalityType
<1>3. found \in [1..n -> T] /\ \A i, j \in 1..n : i # j => found[i] # found[j]
  BY DEF SetToSeqs
<1> HIDE DEF n
<1>5. found \in Injection(1..n, T)
  BY <1>3 DEF Injection, IsInjective
<1>6. Cardinality(1..n) = n
  BY <1>2, FS_Interval
<1>7. found \in Surjection(1..n, T)
  BY <1>1, <1>5, <1>6, FS_Injection DEF n
<1> QED
  BY <1>3, <1>7 DEF Surjection

\* A call that ended or died does not come back.
LEMMA GoneStays ==
  ASSUME RecoveryTypeOK,
         LiveStep \/ \E dead \in SUBSET Requests, lost \in SUBSET Cancellers : Crash(dead, lost)
  PROVE  \A r \in Requests : Gone(r) => Gone(r)'
<1> USE DEF RecoveryTypeOK, TypeOK, Gone
<1>1. ASSUME NEW x \in Requests, Begin(x) \/ End(x) \/ Create(x) \/ Move(x)
      PROVE  \A r \in Requests : Gone(r) => Gone(r)'
  BY <1>1 DEF Begin, End, Create, Move
<1>2. ASSUME NEW c \in Cancellers,
             (\E x \in Requests : CancelBegin(c, x)) \/ CancelSave(c) \/ CancelEnd(c)
      PROVE  \A r \in Requests : Gone(r) => Gone(r)'
  BY <1>2 DEF CancelBegin, CancelSave, CancelEnd
<1>3. ASSUME NEW dead, NEW lost, Crash(dead, lost)
      PROVE  \A r \in Requests : Gone(r) => Gone(r)'
  BY <1>3 DEF Crash
<1> QED
  BY <1>1, <1>2, <1>3 DEF LiveStep

\* The record of a call that is gone is left alone by the others.
LEMMA GoneIsLeftAlone ==
  ASSUME TypeOK, LiveStep, UNCHANGED scan, NEW r \in Requests, Abandoned(r)', Gone(r)
  PROVE  Abandoned(r) /\ stored'[r] = stored[r]
<1> USE DEF TypeOK, Gone
<1>1. ASSUME NEW x \in Requests, Begin(x) \/ End(x) \/ Create(x) \/ Move(x)
      PROVE  Abandoned(r) /\ stored'[r] = stored[r]
  <2>1. target' = target
    BY <1>1 DEF Begin, End, Create, Move
  <2>2. x # r
    BY <1>1 DEF Begin, End, Create, Move
  <2>3. stored'[r] = stored[r]
    BY <1>1, <2>2 DEF Begin, End, Create, Move
  <2> QED
    BY <2>1, <2>3 DEF Abandoned
<1>2. ASSUME NEW c \in Cancellers,
             (\E x \in Requests : CancelBegin(c, x)) \/ CancelSave(c) \/ CancelEnd(c)
      PROVE  Abandoned(r) /\ stored'[r] = stored[r]
  <2>1. \A d \in Cancellers : target[d] = r => target'[d] = r
    BY <1>2, NoReqAssumption DEF CancelBegin, CancelSave, CancelEnd
  <2>2. Abandoned(r)
    BY <2>1 DEF Abandoned
  <2>3. stored'[r] = stored[r]
    BY <1>2, <2>2 DEF CancelBegin, CancelSave, CancelEnd, Abandoned
  <2> QED
    BY <2>2, <2>3
<1> QED
  BY <1>1, <1>2 DEF LiveStep

LEMMA LiveKeepsScan ==
  ASSUME RecoveryTypeOK, ScanInv, LiveStep, UNCHANGED scan
  PROVE  ScanInv'
<1>0. \A r \in Requests : Gone(r) => Gone(r)'
  BY GoneStays
<1>1. FrameInv'
  BY <1>0 DEF ScanInv, FrameInv, RecoveryTypeOK
<1>2. ASSUME NEW r \in Requests, Abandoned(r)'
      PROVE  EntriesInv(r)' /\ OutcomeOf(r)'
  <2>0. Gone(r)
    BY <1>2 DEF ScanInv, FrameInv, Abandoned
  <2>1. Abandoned(r) /\ stored'[r] = stored[r]
    BY <1>2, <2>0, GoneIsLeftAlone DEF RecoveryTypeOK
  <2>2. EntriesInv(r) /\ OutcomeOf(r)
    BY <2>1 DEF ScanInv
  <2>3. EntriesInv(r)'
    BY <2>1, <2>2 DEF EntriesInv, CloseTo, Current
  <2>4. OutcomeOf(r)'
    BY <2>1, <2>2 DEF OutcomeOf, Rescued, ListedFor, StillToList, Settled
  <2> QED
    BY <2>3, <2>4
<1> QED
  BY <1>1, <1>2 DEF ScanInv

\* A crash that recover() survives moves no record.
LEMMA CrashKeepsScan ==
  ASSUME RecoveryTypeOK, ScanInv, NEW dead \in SUBSET Requests, NEW lost \in SUBSET Cancellers,
         Crash(dead, lost), UNCHANGED scan
  PROVE  ScanInv'
<1>0. \A r \in Requests : Gone(r) => Gone(r)'
  BY GoneStays
<1>1. FrameInv'
  BY <1>0 DEF ScanInv, FrameInv, RecoveryTypeOK
<1>2. ASSUME NEW r \in Requests, Abandoned(r)'
      PROVE  EntriesInv(r)' /\ OutcomeOf(r)'
  <2>1. stored' = stored /\ EntriesInv(r) /\ OutcomeOf(r)
    BY <1>2 DEF ScanInv, Abandoned, Crash
  <2>2. EntriesInv(r)'
    BY <2>1 DEF EntriesInv, CloseTo, Current
  <2>3. OutcomeOf(r)'
    BY <2>1 DEF OutcomeOf, Rescued, ListedFor, StillToList, Settled
  <2> QED
    BY <2>2, <2>3
<1> QED
  BY <1>1, <1>2 DEF ScanInv

\* recover() that has not begun owes nothing yet.
LEMMA IdleOwesNothing ==
  ASSUME scan = IdleScan
  PROVE  ScanInv
BY DEF IdleScan, ScanInv, FrameInv, Abandoned

\* When it begins, everything unfinished is still to be listed.
LEMMA BeginningOwesAll ==
  ASSUME RecoveryTypeOK, ScanInv, RecoverBegin
  PROVE  ScanInv'
<1>1. /\ scan.at = "idle" /\ scan.next = 1 /\ scan.todo = <<>> /\ scan.report = {}
      /\ Len(scan.todo) = 0
  BY DEF RecoverBegin, ScanInv, FrameInv, RecoveryTypeOK
<1>2. /\ scan'.at = "list" /\ scan'.next = 1 /\ scan'.todo = <<>> /\ scan'.report = {}
      /\ Len(scan'.todo) = 0
      /\ scan'.ended = {r \in Requests : Gone(r)}
  BY <1>1 DEF RecoverBegin, RecoveryTypeOK, Gone
<1>3. stored' = stored /\ phase' = phase
  BY DEF RecoverBegin, vars
<1>4. FrameInv'
  BY <1>2, <1>3 DEF FrameInv, Gone
<1>5. ASSUME NEW r \in Requests PROVE EntriesInv(r)' /\ OutcomeOf(r)'
  <2>1. EntriesInv(r)'
    BY <1>2 DEF EntriesInv
  <2>2. stored[r] \in States \cup {"none"}
    BY DEF RecoveryTypeOK, TypeOK
  <2>3. StillToList(r)' \/ Settled(r)'
    BY <1>2, <1>3, <2>2, EveryStateIsListed DEF StillToList, Settled
  <2> QED
    BY <1>2, <2>1, <2>3 DEF OutcomeOf, Rescued
<1> QED
  BY <1>4, <1>5 DEF ScanInv

\* Listing one more state.
LEMMA ListKeepsScan ==
  ASSUME RecoveryTypeOK, ScanInv, RecoverList
  PROVE  ScanInv'
<1> DEFINE state == UnfinishedStates[scan.next]
<1>1. PICK T \in Newest(InState(state)) : \E found \in SetToSeqs(T) :
        scan' = [scan EXCEPT !.next = @ + 1,
                   !.todo = @ \o [i \in DOMAIN found |-> [exec |-> found[i], state |-> state]],
                   !.cutOff = @ \cup (InState(state) \ T)]
  BY DEF RecoverList
<1>a. PICK found \in SetToSeqs(T) :
        scan' = [scan EXCEPT !.next = @ + 1,
                   !.todo = @ \o [i \in DOMAIN found |-> [exec |-> found[i], state |-> state]],
                   !.cutOff = @ \cup (InState(state) \ T)]
  BY <1>1
<1>b. T \in SUBSET Requests /\ \A r \in T : stored[r] = state
  BY <1>1 DEF Newest, InState
<1>2. /\ scan.at = "list" /\ scan.next \in 1..Len(UnfinishedStates)
      /\ UNCHANGED vars
  BY DEF RecoverList, RecoveryTypeOK, UnfinishedStates
<1> DEFINE rows == [i \in DOMAIN found |-> [exec |-> found[i], state |-> state]]
           left == scan.cutOff \cup (InState(state) \ T)
<1>3. rows \in Seq(Entries) /\ scan.todo \in Seq(Entries)
  BY <1>2, <1>b, ListedAreUnfinished, ListingType DEF RecoveryTypeOK
<1>4. \A i \in DOMAIN rows : rows[i].state = state /\ stored[rows[i].exec] = state
  BY <1>b DEF SetToSeqs
<1>5. ASSUME NEW r \in Requests, stored[r] = state
      PROVE  r \in left \/ \E i \in DOMAIN rows : rows[i].exec = r
  <2>1. CASE r \in T
    <3>1. PICK i \in DOMAIN found : found[i] = r
      BY <1>b, <2>1, ListingIsComplete
    <3> QED
      BY <3>1
  <2>2. CASE r \notin T
    BY <1>5, <2>2 DEF InState
  <2> QED
    BY <2>1, <2>2
<1>6. scan' = [scan EXCEPT !.next = scan.next + 1, !.todo = scan.todo \o rows, !.cutOff = left]
  BY <1>a
<1>c. scan.cutOff \subseteq left
  OBVIOUS
<1> HIDE DEF rows, left
<1>7. /\ scan'.next = scan.next + 1 /\ scan'.todo = scan.todo \o rows
      /\ scan'.at = "list" /\ scan'.report = scan.report /\ scan'.errors = scan.errors
      /\ scan'.cutOff = left /\ scan'.ended = scan.ended
  BY <1>2, <1>6 DEF RecoveryTypeOK
<1> DEFINE m == Len(scan.todo)
           k == Len(rows)
<1>8. m \in Nat /\ k \in Nat /\ DOMAIN rows = 1..k
  BY <1>3, LenProperties
<1>9. /\ Len(scan'.todo) = m + k
      /\ \A i \in 1..m : scan'.todo[i] = scan.todo[i]
      /\ \A i \in 1..k : scan'.todo[m + i] = rows[i]
  BY <1>3, <1>7, ConcatProperties
<1>10. \A i \in 1..Len(scan'.todo) : i \in 1..m \/ \E j \in 1..k : scan'.todo[i] = rows[j]
  <2> SUFFICES ASSUME NEW i \in 1..(m + k), i \notin 1..m
               PROVE  \E j \in 1..k : scan'.todo[i] = rows[j]
    BY <1>9
  <2>1. i - m \in 1..k /\ m + (i - m) = i
    BY <1>8
  <2> QED
    BY <1>9, <2>1
<1>11. FrameInv'
  BY <1>2, <1>7 DEF ScanInv, FrameInv, Gone, vars
<1>12. ASSUME NEW r \in Requests, Abandoned(r)'
       PROVE  EntriesInv(r)' /\ OutcomeOf(r)'
  <2>1. EntriesInv(r) /\ OutcomeOf(r) /\ stored' = stored
    BY <1>2, <1>7, <1>12 DEF ScanInv, Abandoned, vars
  <2>2. \A i \in 1..Len(scan'.todo) : scan'.todo[i].exec = r => scan'.todo[i].state = stored[r]
    <3> SUFFICES ASSUME NEW i \in 1..Len(scan'.todo), scan'.todo[i].exec = r
                 PROVE  scan'.todo[i].state = stored[r]
      OBVIOUS
    <3>1. CASE i \in 1..m
      BY <1>2, <1>9, <2>1, <3>1 DEF EntriesInv
    <3>2. CASE \E j \in 1..k : scan'.todo[i] = rows[j]
      BY <1>4, <1>8, <3>2
    <3> QED
      BY <1>10, <3>1, <3>2
  <2>3. EntriesInv(r)'
    BY <1>7, <2>1, <2>2 DEF EntriesInv
  <2>4. ListedFor(r) => ListedFor(r)'
    <3> SUFFICES ASSUME NEW i \in 1..m, scan.todo[i].exec = r PROVE ListedFor(r)'
      BY DEF ListedFor
    <3>1. i \in 1..Len(scan'.todo) /\ scan'.todo[i].exec = r
      BY <1>8, <1>9
    <3> QED
      BY <3>1 DEF ListedFor
  <2>5. StillToList(r) => ListedFor(r)' \/ StillToList(r)' \/ Settled(r)'
    <3> SUFFICES ASSUME StillToList(r) PROVE ListedFor(r)' \/ StillToList(r)' \/ Settled(r)'
      OBVIOUS
    <3>1. PICK i \in 1..Len(UnfinishedStates) : i >= scan.next /\ UnfinishedStates[i] = stored[r]
      BY DEF StillToList
    <3>0. CASE r \in left
      BY <1>7, <3>0 DEF Settled
    <3>2. CASE i = scan.next /\ r \notin left
      <4>1. PICK j \in 1..k : rows[j].exec = r
        BY <1>5, <1>8, <3>1, <3>2
      <4>2. m + j \in 1..(m + k)
        BY <1>8
      <4>3. m + j \in 1..Len(scan'.todo) /\ scan'.todo[m + j].exec = r
        BY <1>9, <4>1, <4>2
      <4> QED
        BY <4>3 DEF ListedFor
    <3>3. CASE i # scan.next
      <4>1. i >= scan.next + 1
        BY <1>2, <3>1, <3>3
      <4> QED
        BY <1>7, <2>1, <3>1, <4>1 DEF StillToList
    <3> QED
      BY <3>0, <3>2, <3>3
  <2>6. Settled(r) => Settled(r)'
    BY <1>7, <1>c, <2>1 DEF Settled
  <2>7. OutcomeOf(r)'
    BY <1>7, <2>1, <2>4, <2>5, <2>6 DEF OutcomeOf, Rescued
  <2> QED
    BY <2>3, <2>7
<1> QED
  BY <1>11, <1>12 DEF ScanInv

\* Taking up a record.
LEMMA TakesNext ==
  ASSUME RecoveryTypeOK, scan.todo # <<>>, NEW action,
         scan' \in {Reported(action), [Reported(action) EXCEPT !.errors = TRUE]}
  PROVE  /\ scan'.at = "act" /\ scan'.todo = Tail(scan.todo) /\ scan'.next = scan.next
         /\ scan'.report = scan.report \cup {<<Current.exec, action>>}
         /\ scan.errors => scan'.errors
         /\ scan'.ended = scan.ended /\ scan'.cutOff = scan.cutOff
         /\ Current = scan.todo[1] /\ Len(scan.todo) \in Nat /\ Len(scan.todo) > 0
         /\ Len(scan'.todo) = Len(scan.todo) - 1
         /\ \A i \in 1..Len(scan'.todo) : /\ i + 1 \in 1..Len(scan.todo)
                                          /\ scan'.todo[i] = scan.todo[i + 1]
<1> DEFINE todo == Tail(scan.todo)
           report == scan.report \cup {<<Current.exec, action>>}
<1>1. Reported(action) = [scan EXCEPT !.at = "act", !.todo = todo, !.report = report]
  BY DEF Reported
<1>2. /\ todo \in Seq(Entries) /\ Len(todo) = Len(scan.todo) - 1
      /\ Len(scan.todo) \in Nat /\ Len(scan.todo) > 0 /\ Head(scan.todo) = scan.todo[1]
      /\ \A i \in 1..Len(todo) : todo[i] = scan.todo[i + 1]
  BY HeadTailProperties, LenProperties DEF RecoveryTypeOK
<1> HIDE DEF todo, report
<1>3. /\ scan'.at = "act" /\ scan'.todo = todo /\ scan'.next = scan.next
      /\ scan'.report = report
      /\ scan.errors => scan'.errors
      /\ scan'.ended = scan.ended /\ scan'.cutOff = scan.cutOff
  <2>1. CASE scan' = Reported(action)
    BY <1>1, <2>1 DEF RecoveryTypeOK
  <2>2. CASE scan' = [Reported(action) EXCEPT !.errors = TRUE]
    BY <1>1, <2>2 DEF RecoveryTypeOK
  <2> QED
    BY <2>1, <2>2
<1>4. \A i \in 1..Len(todo) : i + 1 \in 1..Len(scan.todo)
  BY <1>2
<1> QED
  BY <1>2, <1>3, <1>4 DEF todo, report, Current

\* A step that takes up a record keeps the invariant if it moves no other record,
\* leaves this one close to what was listed, and settles or gives it up for good.
LEMMA TakingKeepsScan ==
  ASSUME RecoveryTypeOK, ScanInv, NEW action, scan.at \in {"act", "compensating"},
         scan.todo # <<>>, UNCHANGED calls,
         scan' \in {Reported(action), [Reported(action) EXCEPT !.errors = TRUE]},
         \A r \in Requests : r # Current.exec => stored'[r] = stored[r],
         \A r \in Requests : r = Current.exec /\ Abandoned(r) =>
           /\ \A state : CloseTo(r, state) => CloseTo(r, state)'
           /\ Rescued(r) \/ action \in {"fail", "compensate"} => stored'[r] = "failed"
           /\ scan'.errors \/ Settled(r)'
  PROVE  ScanInv'
<1>1. /\ scan'.at = "act" /\ scan'.todo = Tail(scan.todo) /\ scan'.next = scan.next
      /\ scan'.report = scan.report \cup {<<Current.exec, action>>}
      /\ scan.errors => scan'.errors
      /\ scan'.ended = scan.ended /\ scan'.cutOff = scan.cutOff
      /\ Current = scan.todo[1] /\ Len(scan.todo) \in Nat /\ Len(scan.todo) > 0
      /\ Len(scan'.todo) = Len(scan.todo) - 1
      /\ \A i \in 1..Len(scan'.todo) : /\ i + 1 \in 1..Len(scan.todo)
                                       /\ scan'.todo[i] = scan.todo[i + 1]
  BY TakesNext
<1>2. FrameInv'
  BY <1>1 DEF ScanInv, FrameInv, Gone, calls
<1>3. ASSUME NEW r \in Requests, Abandoned(r)'
      PROVE  EntriesInv(r)' /\ OutcomeOf(r)'
  <2>1. Abandoned(r) /\ EntriesInv(r) /\ OutcomeOf(r)
    BY <1>1, <1>3 DEF ScanInv, Abandoned, calls
  <2>2. ASSUME NEW state, CloseTo(r, state) PROVE CloseTo(r, state)'
    <3>1. CASE r = Current.exec
      BY <2>1, <2>2, <3>1
    <3>2. CASE r # Current.exec
      BY <1>1, <2>2, <3>2 DEF CloseTo
    <3> QED
      BY <3>1, <3>2
  <2>3. EntriesInv(r)'
    <3>1. \A i, j \in 1..Len(scan'.todo) :
            scan'.todo[i].exec = r /\ scan'.todo[j].exec = r
            => scan'.todo[i].state = scan'.todo[j].state
      BY <1>1, <2>1 DEF EntriesInv
    <3>2. ASSUME NEW i \in 1..Len(scan'.todo), scan'.todo[i].exec = r
          PROVE  CloseTo(r, scan.todo[i].state)'
      <4>1. i + 1 \in 1..Len(scan.todo) /\ scan'.todo[i] = scan.todo[i + 1]
        BY <1>1
      <4>2. PICK state : state = scan.todo[i + 1].state
        OBVIOUS
      <4>3. CloseTo(r, state)
        BY <2>1, <3>2, <4>1, <4>2 DEF EntriesInv
      <4>4. CloseTo(r, state)'
        BY <2>2, <4>3
      <4> QED
        BY <4>1, <4>2, <4>4 DEF CloseTo
    <3> QED
      BY <1>1, <3>1, <3>2 DEF EntriesInv
  <2>4. CASE r = Current.exec
    <3>1. Rescued(r)' => Rescued(r) \/ action \in {"fail", "compensate"}
      BY <1>1 DEF Rescued
    <3> QED
      BY <2>1, <2>3, <2>4, <3>1 DEF OutcomeOf
  <2>5. CASE r # Current.exec
    <3>1. stored'[r] = stored[r] /\ (Rescued(r)' <=> Rescued(r)) /\ (Settled(r) => Settled(r)')
      BY <1>1, <2>5 DEF Rescued, Settled
    <3>2. ListedFor(r) => ListedFor(r)'
      <4> SUFFICES ASSUME ListedFor(r) PROVE ListedFor(r)'
        OBVIOUS
      <4>1. PICK i \in 1..Len(scan.todo) : scan.todo[i].exec = r
        BY DEF ListedFor
      <4>2. i # 1
        BY <1>1, <2>5, <4>1
      <4>3. i - 1 \in 1..Len(scan'.todo) /\ scan'.todo[i - 1] = scan.todo[i]
        BY <1>1, <4>1, <4>2
      <4> QED
        BY <4>1, <4>3 DEF ListedFor
    <3>3. ~StillToList(r)
      BY DEF StillToList
    <3> QED
      BY <1>1, <2>1, <2>3, <3>1, <3>2, <3>3 DEF OutcomeOf
  <2> QED
    BY <2>4, <2>5
<1> QED
  BY <1>2, <1>3 DEF ScanInv

\* The steps of recover() that take up a record.
LEMMA ActingKeepsScan ==
  ASSUME RecoveryTypeOK, ScanInv,
         RecoverSkip \/ RecoverFail \/ RecoverResume \/ RecoverCompensated
  PROVE  ScanInv'
<1>0. ASSUME NEW r \in Requests, r = Current.exec, Abandoned(r), scan.todo # <<>>,
             scan.at \in {"act", "compensating"}
      PROVE  /\ CloseTo(r, Current.state)
             /\ scan.at = "compensating" => stored[r] \in {"compensating", "failed"}
             /\ Rescued(r) => stored[r] = "failed"
  <2>1. Current = scan.todo[1] /\ 1 \in 1..Len(scan.todo)
    BY <1>0, HeadTailProperties, LenProperties DEF RecoveryTypeOK, Current
  <2> QED
    BY <1>0, <2>1 DEF ScanInv, EntriesInv, OutcomeOf
<1>1. scan.todo # <<>> => Current.state \in States \ Terminal /\ Current.exec \in Requests
  BY ReportedType DEF Entries, Actions
<1>2. ASSUME NEW action, scan.todo # <<>>, scan' = Reported(action)
      PROVE  scan'.report = scan.report \cup {<<Current.exec, action>>}
  BY <1>2, ReportedGrows
<1>3. CASE RecoverSkip
  <2>1. /\ scan.at = "act" /\ scan.todo # <<>> /\ scan' = Reported("no_action")
        /\ UNCHANGED vars /\ "no_action" \in Decide(Current.state, Current.exec \in scan.old)
    BY <1>3 DEF RecoverSkip, Decided
  <2>2. stored' = stored /\ UNCHANGED calls
    BY <2>1 DEF vars, calls
  <2>3. scan'.report = scan.report \cup {<<Current.exec, "no_action">>}
    BY <1>2, <2>1
  <2>4. Current.state \in MayBeRunning \cup {"paused", "awaiting_approval"}
    BY <1>1, <2>1 DEF Decide, States, Terminal, NeverStarted, MayBeRunning
  <2>5. ASSUME NEW r \in Requests, r = Current.exec, Abandoned(r)
        PROVE  /\ \A state : CloseTo(r, state) => CloseTo(r, state)'
               /\ Rescued(r) => stored'[r] = "failed"
               /\ Settled(r)'
    <3>1. \A state : CloseTo(r, state) => CloseTo(r, state)'
      BY <2>2, <2>3 DEF CloseTo
    <3>2. CloseTo(r, Current.state) /\ (Rescued(r) => stored[r] = "failed")
      BY <1>0, <2>1, <2>5
    <3>3. Settled(r)'
      BY <2>2, <2>3, <2>4, <2>5, <3>2 DEF CloseTo, Settled, Terminal, MayBeRunning
    <3> QED
      BY <2>2, <3>1, <3>2, <3>3
  <2> QED
    BY <2>1, <2>2, <2>5, TakingKeepsScan
<1>4. CASE RecoverFail
  <2>1. /\ scan.at = "act" /\ scan.todo # <<>> /\ scan' = Reported("fail")
        /\ UNCHANGED calls /\ "fail" \in Decide(Current.state, Current.exec \in scan.old)
        /\ stored' = IF stored[Current.exec] = Current.state
                     THEN [stored EXCEPT ![Current.exec] = "failed"] ELSE stored
    BY <1>4 DEF RecoverFail, Decided, CompareAndSet
  <2>2. scan'.report = scan.report \cup {<<Current.exec, "fail">>}
    BY <1>2, <2>1
  <2>3. Current.state \in NeverStarted \cup {"cancelling", "awaiting_approval", "compensating"}
    BY <1>1, <2>1 DEF Decide, States, Terminal, NeverStarted, MayBeRunning
  <2>4. ASSUME NEW r \in Requests, r = Current.exec, Abandoned(r)
        PROVE  /\ \A state : CloseTo(r, state) => CloseTo(r, state)'
               /\ stored'[r] = "failed"
               /\ Settled(r)'
    <3>1. CloseTo(r, Current.state)
      BY <1>0, <2>1, <2>4
    <3>2. stored[r] \in {Current.state, "failed"}
      BY <2>3, <3>1 DEF CloseTo, NeverStarted, MayBeRunning
    <3>3. stored'[r] = "failed"
      BY <2>1, <2>4, <3>2 DEF RecoveryTypeOK, TypeOK
    <3> QED
      BY <3>3 DEF CloseTo, Settled, Terminal
  <2>5. \A r \in Requests : r # Current.exec => stored'[r] = stored[r]
    BY <2>1
  <2> QED
    BY <2>1, <2>4, <2>5, TakingKeepsScan
<1>5. CASE RecoverResume
  <2>1. /\ scan.at = "act" /\ scan.todo # <<>> /\ scan' = Reported("resume")
        /\ UNCHANGED calls /\ "resume" \in Decide(Current.state, Current.exec \in scan.old)
        /\ stored' = IF stored[Current.exec] = "paused"
                     THEN [stored EXCEPT ![Current.exec] = "running"] ELSE stored
    BY <1>5 DEF RecoverResume, Decided, CompareAndSet
  <2>2. scan'.report = scan.report \cup {<<Current.exec, "resume">>}
    BY <1>2, <2>1
  <2>3. Current.state = "paused"
    BY <1>1, <2>1 DEF Decide, States, Terminal, NeverStarted, MayBeRunning
  <2>4. ASSUME NEW r \in Requests, r = Current.exec, Abandoned(r)
        PROVE  /\ \A state : CloseTo(r, state) => CloseTo(r, state)'
               /\ Rescued(r) => stored'[r] = "failed"
               /\ Settled(r)'
    <3>1. CloseTo(r, Current.state) /\ (Rescued(r) => stored[r] = "failed")
      BY <1>0, <2>1, <2>4
    <3>2. stored'[r] = IF stored[r] = "paused" THEN "running" ELSE stored[r]
      BY <2>1, <2>4 DEF RecoveryTypeOK, TypeOK
    <3>3. \A state : CloseTo(r, state) => CloseTo(r, state)'
      BY <2>2, <2>4, <3>2 DEF CloseTo, MayBeRunning
    <3>4. Settled(r)'
      BY <2>2, <2>3, <2>4, <3>1, <3>2 DEF CloseTo, Settled, MayBeRunning, Terminal
    <3> QED
      BY <3>1, <3>2, <3>3, <3>4
  <2>5. \A r \in Requests : r # Current.exec => stored'[r] = stored[r]
    BY <2>1
  <2> QED
    BY <2>1, <2>4, <2>5, TakingKeepsScan
<1>6. CASE RecoverCompensated
  <2>1. /\ scan.at = "compensating" /\ scan.todo # <<>> /\ scan' = Reported("compensate")
        /\ UNCHANGED calls
        /\ stored' = IF stored[Current.exec] = "compensating"
                     THEN [stored EXCEPT ![Current.exec] = "failed"] ELSE stored
    BY <1>6 DEF RecoverCompensated, CompareAndSet, RecoveryTypeOK
  <2>4. ASSUME NEW r \in Requests, r = Current.exec, Abandoned(r)
        PROVE  /\ \A state : CloseTo(r, state) => CloseTo(r, state)'
               /\ stored'[r] = "failed"
               /\ Settled(r)'
    <3>1. stored[r] \in {"compensating", "failed"}
      BY <1>0, <2>1, <2>4
    <3>2. stored'[r] = "failed"
      BY <2>1, <2>4, <3>1 DEF RecoveryTypeOK, TypeOK
    <3> QED
      BY <3>2 DEF CloseTo, Settled, Terminal
  <2>5. \A r \in Requests : r # Current.exec => stored'[r] = stored[r]
    BY <2>1
  <2> QED
    BY <2>1, <2>4, <2>5, TakingKeepsScan
<1> QED
  BY <1>3, <1>4, <1>5, <1>6

\* The first of the two transitions of a compensation.
LEMMA CompensatingKeepsScan ==
  ASSUME RecoveryTypeOK, ScanInv, RecoverCompensate
  PROVE  ScanInv'
<1>1. /\ scan.at = "act" /\ scan.todo # <<>> /\ UNCHANGED calls
      /\ "compensate" \in Decide(Current.state, Current.exec \in scan.old)
      /\ stored' = IF stored[Current.exec] = Current.state
                   THEN [stored EXCEPT ![Current.exec] = "compensating"] ELSE stored
      /\ scan' = [scan EXCEPT !.at = "compensating"]
  BY DEF RecoverCompensate, Decided, CompareAndSet
<1>2. /\ scan'.at = "compensating" /\ scan'.todo = scan.todo /\ scan'.next = scan.next
      /\ scan'.report = scan.report /\ scan'.errors = scan.errors
      /\ scan'.ended = scan.ended /\ scan'.cutOff = scan.cutOff
  BY <1>1 DEF RecoveryTypeOK
<1>3. Current.state \in States \ Terminal /\ Current.exec \in Requests
  BY <1>1, ReportedType DEF Entries, Actions
<1>4. Current.state \in {"running", "retrying"}
  BY <1>1, <1>3 DEF Decide, States, Terminal, NeverStarted, MayBeRunning
<1>5. Current = scan.todo[1] /\ 1 \in 1..Len(scan.todo) /\ Current' = Current
  BY <1>1, <1>2, HeadTailProperties, LenProperties DEF RecoveryTypeOK, Current
<1>6. FrameInv'
  BY <1>1, <1>2 DEF ScanInv, FrameInv, Gone, calls
<1>7. ASSUME NEW r \in Requests, Abandoned(r)'
      PROVE  EntriesInv(r)' /\ OutcomeOf(r)'
  <2>1. Abandoned(r) /\ EntriesInv(r) /\ OutcomeOf(r)
    BY <1>1, <1>2, <1>7 DEF ScanInv, Abandoned, calls
  <2>2. CASE r # Current.exec
    <3>1. stored'[r] = stored[r]
      BY <1>1, <2>2
    <3> QED
      BY <1>1, <1>2, <1>5, <2>1, <2>2, <3>1
         DEF EntriesInv, CloseTo, OutcomeOf, Rescued, ListedFor, StillToList, Settled
  <2>3. CASE r = Current.exec
    <3>1. stored'[r] = IF stored[r] = Current.state THEN "compensating" ELSE stored[r]
      BY <1>1, <2>3 DEF RecoveryTypeOK, TypeOK
    <3>2. CloseTo(r, Current.state)
      BY <1>1, <1>5, <2>1, <2>3 DEF EntriesInv
    <3>3. stored'[r] \in {"compensating", "failed"}
      BY <1>4, <3>1, <3>2 DEF CloseTo, MayBeRunning
    <3>4. \A i \in 1..Len(scan.todo) : scan.todo[i].exec = r => scan.todo[i].state = Current.state
      BY <1>5, <2>1, <2>3 DEF EntriesInv
    <3>5. EntriesInv(r)'
      BY <1>2, <1>4, <3>3, <3>4 DEF EntriesInv, CloseTo, MayBeRunning
    <3>6. ListedFor(r)'
      BY <1>2, <1>5, <2>3 DEF ListedFor
    <3>7. Rescued(r)' => stored'[r] = "failed"
      BY <1>2, <1>4, <2>1, <3>1 DEF OutcomeOf, Rescued
    <3> QED
      BY <3>5, <3>6, <3>7 DEF OutcomeOf
  <2> QED
    BY <2>2, <2>3
<1> QED
  BY <1>6, <1>7 DEF ScanInv

\* The steps of recover() between its lists and its records.
LEMMA TurningKeepsScan ==
  ASSUME RecoveryTypeOK, ScanInv, RecoverAges \/ RecoverGc
  PROVE  ScanInv'
<1>1. UNCHANGED vars
  BY DEF RecoverAges, RecoverGc
<1>2. /\ scan'.next = scan.next /\ scan'.todo = scan.todo /\ scan'.report = scan.report
      /\ scan'.errors = scan.errors
      /\ scan'.ended = scan.ended /\ scan'.cutOff = scan.cutOff
      /\ \/ scan.at = "list" /\ scan'.at = "act" /\ scan.next > Len(UnfinishedStates)
         \/ scan.at = "act" /\ scan'.at = "done" /\ scan.todo = <<>>
  BY DEF RecoveryTypeOK, RecoverAges, RecoverGc
<1>3. FrameInv'
  BY <1>1, <1>2 DEF ScanInv, FrameInv, Gone, vars
<1>4. ASSUME NEW r \in Requests, Abandoned(r)'
      PROVE  EntriesInv(r)' /\ OutcomeOf(r)'
  <2>1. EntriesInv(r) /\ OutcomeOf(r) /\ stored' = stored
    BY <1>1, <1>2, <1>4 DEF ScanInv, Abandoned, vars
  <2>2. scan.todo = <<>> => Len(scan.todo) = 0
    BY DEF RecoveryTypeOK
  <2>3. EntriesInv(r)'
    BY <1>2, <2>1, <2>2 DEF EntriesInv, CloseTo, ScanInv, FrameInv
  <2>4. StillToList(r) => StillToList(r)'
    <3> SUFFICES ASSUME StillToList(r) PROVE StillToList(r)'
      OBVIOUS
    <3>1. PICK i \in 1..Len(UnfinishedStates) : i >= scan.next /\ UnfinishedStates[i] = stored[r]
      BY DEF StillToList
    <3>2. scan.next <= Len(UnfinishedStates)
      BY <3>1 DEF RecoveryTypeOK, UnfinishedStates
    <3>3. ~(scan.next > Len(UnfinishedStates))
      BY <3>2 DEF RecoveryTypeOK, UnfinishedStates
    <3> QED
      BY <1>2, <2>1, <3>1, <3>3 DEF StillToList
  <2>5. OutcomeOf(r)'
    BY <1>2, <2>1, <2>4 DEF OutcomeOf, Rescued, ListedFor, Settled
  <2> QED
    BY <2>3, <2>5
<1> QED
  BY <1>3, <1>4 DEF ScanInv

\* An operation of recover() that fails.
LEMMA FaultKeepsScan ==
  ASSUME RecoveryTypeOK, ScanInv, RecoverFault
  PROVE  ScanInv'
<1>0. UNCHANGED vars
  BY DEF RecoverFault
<1>1. CASE scan.todo # <<>> /\ scan.at \in {"act", "compensating"}
  <2>1. scan' = [Reported("no_action") EXCEPT !.errors = TRUE]
    BY <1>1 DEF RecoverFault
  <2>2. /\ scan'.errors
        /\ scan'.report = scan.report \cup {<<Current.exec, "no_action">>}
    <3>1. Reported("no_action") \in [at : {"act"}, next : 1..(Len(UnfinishedStates) + 1),
                                 todo : Seq(Entries), old : SUBSET Requests,
                                 report : SUBSET (Requests \X Actions), errors : BOOLEAN,
                                 ended : SUBSET Requests, cutOff : SUBSET Requests]
      BY <1>1, ReportedType DEF Actions
    <3>2. Reported("no_action").report = scan.report \cup {<<Current.exec, "no_action">>}
      BY ReportedGrows
    <3> QED
      BY <2>1, <3>1, <3>2
  <2>3. ASSUME NEW r \in Requests, Abandoned(r), r = Current.exec
        PROVE  Rescued(r) => stored[r] = "failed"
    BY <2>3 DEF ScanInv, OutcomeOf
  <2>4. \A r, state : CloseTo(r, state) => CloseTo(r, state)'
    BY <1>0, <2>2 DEF CloseTo, vars
  <2>5. stored' = stored /\ UNCHANGED calls
    BY <1>0 DEF vars, calls
  <2> QED
    BY <1>1, <2>1, <2>2, <2>3, <2>4, <2>5, TakingKeepsScan
<1>2. CASE ~(scan.todo # <<>> /\ scan.at \in {"act", "compensating"})
  <2>1. /\ scan'.todo = scan.todo /\ scan'.report = scan.report /\ scan'.errors
        /\ scan'.ended = scan.ended
        /\ \/ scan.at = "list" /\ scan'.at = "list"
           \/ scan.at = "act" /\ scan'.at = "done" /\ scan.todo = <<>>
    BY <1>2 DEF RecoverFault, RecoveryTypeOK, Decided
  <2>2. FrameInv'
    BY <1>0, <2>1 DEF ScanInv, FrameInv, Gone, vars
  <2>3. ASSUME NEW r \in Requests, Abandoned(r)'
        PROVE  EntriesInv(r)' /\ OutcomeOf(r)'
    <3>1. EntriesInv(r) /\ OutcomeOf(r) /\ stored' = stored
      BY <1>0, <2>1, <2>3 DEF ScanInv, Abandoned, vars
    <3>2. scan.todo = <<>> => Len(scan.todo) = 0
      BY DEF RecoveryTypeOK
    <3>3. EntriesInv(r)'
      BY <2>1, <3>1, <3>2 DEF EntriesInv, CloseTo
    <3>4. OutcomeOf(r)'
      BY <2>1, <3>1 DEF OutcomeOf, Rescued
    <3> QED
      BY <3>3, <3>4
  <2> QED
    BY <2>2, <2>3 DEF ScanInv
<1> QED
  BY <1>1, <1>2

\* IdleOwesNothing as a formula, for the state after a crash.
IdleIsSound == scan = IdleScan => ScanInv

LEMMA ScanStep ==
  ASSUME RecoveryTypeOK, ScanInv, [RecoveryNext]_recoveryVars, IdleIsSound'
  PROVE  ScanInv'
<1>1. CASE LiveStep /\ UNCHANGED scan
  BY <1>1, LiveKeepsScan
<1>2. ASSUME NEW dead \in SUBSET Requests, NEW lost \in SUBSET Cancellers, Crash(dead, lost),
             scan' \in {scan, IdleScan}
      PROVE  ScanInv'
  <2>1. CASE scan' = scan
    BY <1>2, <2>1, CrashKeepsScan
  <2>2. CASE scan' = IdleScan
    BY <2>2 DEF IdleIsSound
  <2> QED
    BY <1>2, <2>1, <2>2
<1>3. CASE RecoverStep
  BY <1>3, BeginningOwesAll, ListKeepsScan, ActingKeepsScan, CompensatingKeepsScan,
     TurningKeepsScan, FaultKeepsScan DEF RecoverStep
<1>4. CASE UNCHANGED recoveryVars
  BY SMTT(30), <1>4 DEF recoveryVars, ScanInv, FrameInv, EntriesInv, OutcomeOf, CloseTo, Current, Abandoned,
     Rescued, ListedFor, StillToList, Settled, Gone
<1> QED
  BY <1>1, <1>2, <1>3, <1>4 DEF RecoveryNext

\* While recover() runs: where each record of a call that was gone when it began
\* stands between its listing and the report, for any number of executions, any
\* limit of the lists and any crashes, of its own process or of others.
THEOREM RecoveryKeepsTrack == RecoverySpec => []ScanInv
<1>1. RecoveryInit => ScanInv
  BY IdleOwesNothing DEF RecoveryInit
<1>2. IdleIsSound
  BY IdleOwesNothing DEF IdleIsSound
<1>3. RecoveryTypeOK /\ IdleIsSound' /\ ScanInv /\ [RecoveryNext]_recoveryVars => ScanInv'
  BY ScanStep
<1> QED
  BY <1>1, <1>2, <1>3, RecoveryTypes, PTL DEF RecoverySpec

\* A recover() without errors leaves no record of a call that was gone when it
\* began in an unfinished state, but for those that its report says it left or
\* resumed and those that a list cut off.
THEOREM RecoveryResolves == RecoverySpec => []AbandonedIsResolved
<1>1. RecoveryTypeOK /\ ScanInv => AbandonedIsResolved
  <2> SUFFICES ASSUME RecoveryTypeOK, ScanInv, scan.at = "done", ~scan.errors,
                      NEW r \in Requests, Abandoned(r)
               PROVE  Settled(r)
    BY DEF AbandonedIsResolved, Settled
  <2>1. Len(scan.todo) = 0
    BY DEF ScanInv, FrameInv
  <2>2. ~ListedFor(r) /\ ~StillToList(r)
    BY <2>1 DEF ListedFor, StillToList
  <2> QED
    BY <2>2 DEF ScanInv, OutcomeOf
<1> QED
  BY <1>1, RecoveryTypes, RecoveryKeepsTrack, PTL

\* A record of a call that was gone when recover() began and that its report says
\* it failed or compensated is stored as failed, although no result of
\* transition() is read; whatever dies while it runs.
THEOREM RecoveryReports == RecoverySpec => []ReportIsTrue
<1>1. ScanInv => ReportIsTrue
  <2> SUFFICES ASSUME ScanInv, NEW r \in Requests, Abandoned(r),
                      scan.report \cap ({r} \X {"fail", "compensate"}) # {}
               PROVE  stored[r] = "failed"
    BY DEF ReportIsTrue
  <2>1. PICK action \in {"fail", "compensate"} : <<r, action>> \in scan.report
    OBVIOUS
  <2>2. Rescued(r)
    BY <2>1 DEF Rescued
  <2> QED
    BY <2>2 DEF ScanInv, OutcomeOf
<1> QED
  BY <1>1, RecoveryKeepsTrack, PTL

==============================================================================
