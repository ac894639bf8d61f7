-------------------------- MODULE EventEmitter_proofs -------------------------
(***************************************************************************)
(* Types of the emitter; once unsubscribed, a callback is reached only by  *)
(* a flush that was already running; the order in which a callback first   *)
(* sees the events.                                                        *)
(***************************************************************************)
EXTENDS EventEmitter, SequenceTheorems, FiniteSetTheorems, TLAPS

LEMMA EmptyIsSeq ==
  ASSUME NEW S PROVE <<>> \in Seq(S)
PROOF OBVIOUS

\* A sequence over a set is one over a larger set.
LEMMA SeqWidens ==
  ASSUME NEW S, NEW T, S \subseteq T, NEW q \in Seq(S)
  PROVE  q \in Seq(T)
PROOF OBVIOUS

\* The innermost frame, and the stack without it.
LEMMA TopType ==
  ASSUME TypeOK, stack # <<>>
  PROVE  /\ Top \in Frames /\ Tail(stack) \in Seq(Frames)
         /\ 1 \in DOMAIN stack /\ Top = stack[1]
PROOF BY HeadTailProperties DEF TypeOK, Top

\* Pushing a frame.
LEMMA PushType ==
  ASSUME NEW S, NEW frame \in S, NEW q \in Seq(S)
  PROVE  <<frame>> \o q \in Seq(S)
<1>1. <<frame>> \in Seq(S)
  OBVIOUS
<1> QED
  BY <1>1, ConcatProperties

\* A loop that takes its next step.
LEMMA AdvancedType ==
  ASSUME TypeOK, stack # <<>>, Top.kind # "callback"
  PROVE  Advanced \in Seq(Frames)
<1>1. Top \in Frames /\ Tail(stack) \in Seq(Frames)
  BY TopType
<1>2. [Top EXCEPT !.at = @ + 1] \in Frames
  BY <1>1, SMTT(30) DEF Frames
<1> QED
  BY <1>1, <1>2, PushType DEF Advanced

\* What deliver() leaves, whether the subscription is paused or not.
LEMMA DeliverType ==
  ASSUME TypeOK, NEW s \in Subs, NEW e \in Events, NEW frames \in Seq(Frames),
         Deliver(s, e, frames)
  PROVE  TypeOK'
<1> USE DEF TypeOK
<1>1. Events' = Events /\ Frames' = Frames
  BY DEF Deliver, log_, Events, Frames
<1>2. handed' \in [Subs -> Seq(Events)] /\ stack' \in Seq(Frames)
  <2>1. CASE s \notin paused
    <3>1. CallbackFrame(s, e) \in Frames
      BY DEF CallbackFrame, Frames
    <3>2. stack' = <<CallbackFrame(s, e)>> \o frames
      BY <2>1 DEF Deliver, Withhold
    <3>3. handed' = [handed EXCEPT ![s] = Append(@, e)]
      BY <2>1 DEF Deliver, Withhold
    <3>4. Append(handed[s], e) \in Seq(Events)
      OBVIOUS
    <3> QED
      BY <3>1, <3>2, <3>3, <3>4, PushType
  <2>2. CASE s \in paused
    BY <2>2 DEF Deliver, Withhold
  <2> QED
    BY <2>1, <2>2
<1>3. buffer' \in [Subs -> Seq(Events)]
  <2>1. Hold(s, e) \in Seq(Events)
    <3>1. buffer[s] \in Seq(Events) /\ options[s].buffer_size \in Nat \ {0}
      BY DEF AnyOptions
    <3>2. Full(s) => buffer[s] # <<>>
      BY <3>1 DEF Full
    <3>3. (IF Full(s) THEN Tail(buffer[s]) ELSE buffer[s]) \in Seq(Events)
      BY <3>1, <3>2
    <3> QED
      BY <3>3 DEF Hold
  <2>2. buffer' = buffer \/ buffer' = [buffer EXCEPT ![s] = Hold(s, e)]
    BY DEF Deliver, Withhold
  <2> QED
    BY <2>1, <2>2
<1>4. dropped' \in [Subs -> Nat]
  BY SMTT(30) DEF Deliver, Withhold
<1>5. active' \subseteq active
  BY DEF Deliver, Withhold
<1>6. offered' \in [Subs -> SUBSET Events]
  BY DEF Deliver
<1>7. UNCHANGED <<order, options, paused, sequence, log, nested, pending, failed, cut>>
  BY DEF Deliver, log_
<1> QED
  BY <1>1, <1>2, <1>3, <1>4, <1>5, <1>6, <1>7

\* A failure keeps the types, with the event kept for the next flush or not.
LEMMA FailType ==
  ASSUME TypeOK, NEW s \in Subs, NEW e \in Events, Fail(s, e),
         stack' \in Seq(Frames), pending' \subseteq pending
  PROVE  TypeOK'
<1> USE DEF TypeOK
<1>1. Events' = Events /\ Frames' = Frames
  BY DEF Fail, log_, Events, Frames
<1>2. failed' \in [Subs -> Seq(Events)]
  BY DEF Fail
<1>3. buffer' \in [Subs -> Seq(Events)]
  <2>1. buffer' = buffer \/ buffer' = [buffer EXCEPT ![s] = Append(@, e)]
    BY DEF Fail, Rebuffered
  <2>2. buffer[s] \in Seq(Events) /\ Append(buffer[s], e) \in Seq(Events)
    OBVIOUS
  <2> QED
    BY <2>1, <2>2
<1>4. UNCHANGED <<order, active, options, paused, dropped, sequence, log, nested,
                  offered, handed, cut>>
  BY DEF Fail, subscriptions, log_
<1> QED
  BY <1>1, <1>2, <1>3, <1>4

\* emit() numbers the event and logs it; the rest is typed over more events.
LEMMA EmitType ==
  ASSUME TypeOK, Emit
  PROVE  TypeOK'
<1> USE DEF TypeOK
<1>1. sequence' = sequence + 1 /\ Events \subseteq Events' /\ sequence' \in Events'
  BY DEF Emit, Events
<1>2. Frames \subseteq Frames'
  BY <1>1 DEF Frames
<1>3. UNCHANGED <<order, active, options, paused, buffer, dropped, pending,
                  offered, handed, failed, cut>>
  BY DEF Emit, subscriptions, held, history
<1>4. /\ buffer' \in [Subs -> Seq(Events')]
      /\ handed' \in [Subs -> Seq(Events')]
      /\ failed' \in [Subs -> Seq(Events')]
  <2>1. ASSUME NEW q \in [Subs -> Seq(Events)]
        PROVE  q \in [Subs -> Seq(Events')]
    <3>1. \A x \in Subs : q[x] \in Seq(Events')
      BY <1>1, SeqWidens
    <3> QED
      BY <3>1
  <2> QED
    BY <1>3, <2>1
<1>5. /\ pending' \subseteq Subs \X Events'
      /\ offered' \in [Subs -> SUBSET Events']
      /\ nested' \subseteq Events'
  BY <1>1, <1>3 DEF Emit
<1>6. stack' \in Seq(Frames')
  <2>1. PICK accept \in SUBSET Subs : stack' = <<EmitFrame(sequence', accept)>> \o stack
    BY DEF Emit
  <2>2. EmitFrame(sequence', accept) \in Frames'
    BY <1>1 DEF EmitFrame, Frames
  <2>3. stack \in Seq(Frames')
    BY <1>2, SeqWidens
  <2> QED
    BY <2>1, <2>2, <2>3, PushType
<1>7. /\ log' \in Seq(Events') /\ Len(log') <= MaxBuffer
      /\ \A i \in DOMAIN log' : log'[i] = sequence' - Len(log') + i
  <2> DEFINE longer == Append(log, sequence')
  <2>1. /\ longer \in Seq(Events') /\ Len(longer) = Len(log) + 1
        /\ \A i \in 1..Len(longer) : longer[i] = sequence' - Len(longer) + i
    <3>1. log \in Seq(Events')
      BY <1>1, SeqWidens
    <3> QED
      BY <1>1, <3>1
  <2>2. log' = IF Len(longer) > MaxBuffer THEN Tail(longer) ELSE longer
    BY DEF Emit, Trimmed
  <2> HIDE DEF longer
  <2>3. CASE Len(longer) > MaxBuffer
    <3>1. longer # <<>> /\ Len(longer) \in Nat
      BY <2>1
    <3>2. /\ Tail(longer) \in Seq(Events') /\ Len(Tail(longer)) = Len(longer) - 1
          /\ \A i \in 1..Len(Tail(longer)) : Tail(longer)[i] = longer[i + 1]
      BY <2>1, <3>1, HeadTailProperties
    <3>3. Len(longer) <= MaxBuffer + 1
      BY <2>1, BoundsAssumption
    <3>4. log' = Tail(longer) /\ DOMAIN log' = 1..Len(log')
      BY <2>2, <2>3, <3>2
    <3>5. ASSUME NEW i \in DOMAIN log' PROVE log'[i] = sequence' - Len(log') + i
      <4>1. i \in 1..Len(Tail(longer)) /\ i + 1 \in 1..Len(longer)
        BY <3>1, <3>2, <3>4, <3>5
      <4>2. log'[i] = longer[i + 1] /\ Len(log') = Len(longer) - 1
        BY <3>2, <3>4, <4>1
      <4> QED
        BY <1>1, <2>1, <3>1, <4>1, <4>2
    <3> QED
      BY <3>1, <3>2, <3>3, <3>4, <3>5, BoundsAssumption
  <2>4. CASE ~(Len(longer) > MaxBuffer)
    <3>1. log' = longer /\ Len(longer) \in Nat /\ DOMAIN log' = 1..Len(longer)
      BY <2>1, <2>2, <2>4
    <3>2. Len(longer) <= MaxBuffer
      BY <2>4, <3>1, BoundsAssumption
    <3> QED
      BY <2>1, <3>1, <3>2
  <2> QED
    BY <2>3, <2>4
<1> QED
  BY <1>1, <1>3, <1>4, <1>5, <1>6, <1>7, SMTT(30)

\* subscribe() adds a subscription that was not there.
LEMMA SubscribeType ==
  ASSUME TypeOK, NEW s \in Subs, Subscribe(s)
  PROVE  TypeOK'
<1> USE DEF TypeOK
<1>1. Events' = Events /\ Frames' = Frames
  BY DEF Subscribe, log_, Events, Frames
<1>2. order' = Append(order, s) /\ active' = active \cup {s}
  BY DEF Subscribe
<1>3. order' \in Seq(Subs) /\ active' \subseteq Range(order')
  <2>1. Range(order') = {order'[i] : i \in DOMAIN order'}
    BY DEF Range
  <2>2. /\ order' \in Seq(Subs) /\ Len(order') = Len(order) + 1
        /\ \A i \in 1..Len(order) : order'[i] = order[i]
        /\ order'[Len(order) + 1] = s
    BY <1>2, AppendProperties
  <2>3. DOMAIN order = 1..Len(order) /\ DOMAIN order' = 1..Len(order') /\ Len(order) \in Nat
    BY <2>2
  <2>4. \A i \in DOMAIN order : order'[i] = order[i] /\ i \in DOMAIN order'
    BY <2>2, <2>3
  <2>5. s = order'[Len(order) + 1] /\ Len(order) + 1 \in DOMAIN order'
    BY <2>2, <2>3
  <2>6. Range(order) \cup {s} \subseteq Range(order')
    BY <2>1, <2>4, <2>5 DEF Range
  <2> QED
    BY <1>2, <2>2, <2>6
<1>4. options' \in [Subs -> AnyOptions]
  BY OptionsAssumption DEF Subscribe
<1>5. UNCHANGED <<paused, buffer, dropped, sequence, log, nested, stack, pending,
                  offered, handed, failed, cut>>
  BY DEF Subscribe, held, log_, history
<1> QED
  BY <1>1, <1>3, <1>4, <1>5

------------------------------------------------------------------------------

\* EventEmitter: every variable keeps its type, and the log is the latest events,
\* however calls of the emitter nest in callbacks.
THEOREM EmitterTypes == Spec => []TypeOK
<1>1. Init => TypeOK
  BY EmptyIsSeq, BoundsAssumption
     DEF Init, TypeOK, DefaultOptions, AnyOptions, Policies, Events, Range
<1>2. TypeOK /\ [Next]_vars => TypeOK'
  <2> SUFFICES ASSUME TypeOK, [Next]_vars PROVE TypeOK'
    OBVIOUS
  <2>0. ASSUME UNCHANGED <<sequence>> PROVE Events' = Events /\ Frames' = Frames
    BY <2>0 DEF Events, Frames
  <2>1. ASSUME NEW s \in Subs, Unsubscribe(s) PROVE TypeOK'
    BY <2>0, <2>1 DEF Unsubscribe, TypeOK, held, log_, history
  <2>2. ASSUME NEW s \in Subs, Pause(s) PROVE TypeOK'
    BY <2>0, <2>2 DEF Pause, TypeOK, subscriptions, log_
  <2>3. ASSUME NEW s \in Subs, Resume(s) PROVE TypeOK'
    <3>1. stack' \in Seq(Frames)
      <4>1. FlushFrame(s) \in Frames
        BY DEF FlushFrame, Frames
      <4> QED
        BY <2>3, <4>1 DEF Resume
    <3> QED
      BY <2>0, <2>3, <3>1 DEF Resume, TypeOK, subscriptions, log_, history
  <2>4. ASSUME EmitStep PROVE TypeOK'
    <3>1. Top \in Frames /\ Top.kind = "emit" /\ stack # <<>>
      BY <2>4, TopType DEF EmitStep, Running
    <3>2. Top.event \in Events /\ order[Top.at] \in Subs
      BY <2>4, <3>1 DEF EmitStep, Frames, TypeOK
    <3> QED
      BY <2>4, <3>1, <3>2, AdvancedType, DeliverType DEF EmitStep
  <2>5. ASSUME EmitSkip PROVE TypeOK'
    <3>1. Advanced \in Seq(Frames)
      BY <2>5, AdvancedType DEF EmitSkip, Running
    <3> QED
      BY <2>0, <2>5, <3>1 DEF EmitSkip, TypeOK, subscriptions, held, log_, history
  <2>6. ASSUME EmitEnd PROVE TypeOK'
    <3>1. Tail(stack) \in Seq(Frames)
      BY <2>6, TopType DEF EmitEnd, Running
    <3> QED
      BY <2>0, <2>6, <3>1 DEF EmitEnd, TypeOK, subscriptions, held, log_, history
  <2>7. ASSUME FlushStep PROVE TypeOK'
    <3>1. Top \in Frames /\ Top.kind = "flush" /\ stack # <<>>
      BY <2>7, TopType DEF FlushStep, Running
    <3>2. Top.sub \in Subs /\ Top.at \in Nat \ {0}
      BY <3>1 DEF Frames
    <3>3. buffer[Top.sub][Top.at] \in Events
      BY <2>7, <3>2 DEF FlushStep, TypeOK
    <3> QED
      BY <2>7, <3>1, <3>2, <3>3, AdvancedType, DeliverType DEF FlushStep
  <2>8. ASSUME FlushEnd PROVE TypeOK'
    <3>1. Tail(stack) \in Seq(Frames)
      BY <2>8, TopType DEF FlushEnd, Running
    <3>2. buffer' \in [Subs -> Seq(Events)]
      BY <2>8, EmptyIsSeq DEF FlushEnd, Emptied, TypeOK
    <3> QED
      BY <2>0, <2>8, <3>1, <3>2 DEF FlushEnd, TypeOK, subscriptions, log_, history
  <2>9. ASSUME CallbackReturns PROVE TypeOK'
    <3>1. Top \in Frames /\ Top.kind = "callback" /\ Tail(stack) \in Seq(Frames)
      BY <2>9, TopType DEF CallbackReturns, Running
    <3>2. <<Top.sub, Top.event>> \in Subs \X Events
      BY <3>1 DEF Frames
    <3> QED
      BY <2>0, <2>9, <3>1, <3>2 DEF CallbackReturns, TypeOK, subscriptions, held, log_, history
  <2>10. ASSUME CallbackThrows PROVE TypeOK'
    <3>1. Top \in Frames /\ Top.kind = "callback" /\ Tail(stack) \in Seq(Frames)
      BY <2>10, TopType DEF CallbackThrows, Running
    <3>2. Top.sub \in Subs /\ Top.event \in Events
      BY <3>1 DEF Frames
    <3> QED
      BY <2>10, <3>1, <3>2, FailType DEF CallbackThrows
  <2>11. ASSUME Resolve PROVE TypeOK'
    BY <2>0, <2>11 DEF Resolve, TypeOK, subscriptions, held, log_, history
  <2>12. ASSUME Reject PROVE TypeOK'
    <3>1. PICK p \in pending : Fail(p[1], p[2]) /\ pending' = pending \ {p} /\ UNCHANGED stack
      BY <2>12 DEF Reject
    <3>2. p[1] \in Subs /\ p[2] \in Events
      BY DEF TypeOK
    <3>3. stack' \in Seq(Frames) /\ pending' \subseteq pending
      BY <3>1 DEF TypeOK
    <3> QED
      BY <3>1, <3>2, <3>3, FailType
  <2>13. CASE UNCHANGED vars
    BY <2>0, <2>13 DEF vars, TypeOK, subscriptions, held, log_, history
  <2> QED
    BY <2>1, <2>2, <2>3, <2>4, <2>5, <2>6, <2>7, <2>8, <2>9, <2>10, <2>11, <2>12,
       <2>13, SubscribeType, EmitType DEF Next, Unwind
<1> QED
  BY <1>1, <1>2, PTL DEF Spec

------------------------------------------------------------------------------

\* emit() passes over a subscription that has been removed while it iterates,
\* resume_() does not: only a flush that is already running reaches the callback
\* of a subscription after its unsubscribe().
THEOREM UnsubscribedIsQuiet == Spec => QuietAfterUnsubscribe
<1> DEFINE Quiet == \A s \in Subs : handed'[s] # handed[s] => s \in active \/ Flushing(s)
<1>1. ASSUME TypeOK, Next PROVE Quiet
  <2> SUFFICES ASSUME NEW s \in Subs, handed'[s] # handed[s]
               PROVE  s \in active \/ Flushing(s)
    OBVIOUS
  <2>1. EmitStep \/ FlushStep
    BY <1>1 DEF Next, Unwind, Subscribe, Unsubscribe, Pause, Resume, Emit, EmitSkip,
                EmitEnd, FlushEnd, CallbackReturns, CallbackThrows, Resolve, Reject,
                Fail, history
  <2>2. ASSUME NEW x \in Subs, NEW e, NEW frames, Deliver(x, e, frames)
        PROVE  s = x
    <3>1. handed' = handed \/ handed' = [handed EXCEPT ![x] = Append(@, e)]
      BY <2>2 DEF Deliver, Withhold
    <3> QED
      BY <1>1, <3>1 DEF TypeOK
  <2>3. CASE EmitStep
    <3>1. Top \in Frames /\ Top.kind = "emit"
      BY <1>1, <2>3, TopType DEF EmitStep, Running
    <3>2. order[Top.at] \in Subs
      BY <1>1, <2>3, <3>1 DEF EmitStep, Frames, TypeOK
    <3> QED
      BY <2>2, <2>3, <3>2 DEF EmitStep, Wanted
  <2>4. CASE FlushStep
    <3>1. Top \in Frames /\ Top.kind = "flush" /\ 1 \in DOMAIN stack /\ Top = stack[1]
      BY <1>1, <2>4, TopType DEF FlushStep, Running
    <3>2. Top.sub \in Subs
      BY <3>1 DEF Frames
    <3> QED
      BY <2>2, <2>4, <3>1, <3>2 DEF FlushStep, Flushing
  <2> QED
    BY <2>1, <2>3, <2>4
<1>2. UNCHANGED vars => Quiet
  BY DEF vars, history
<1>3. TypeOK /\ [Next]_vars => [Quiet]_vars
  BY <1>1, <1>2
<1> QED
  BY <1>3, EmitterTypes, PTL DEF Spec, QuietAfterUnsubscribe

------------------------------------------------------------------------------
(* The order in which a callback sees the events.  An event that waits has *)
(* been emitted from outside, is in the buffer, and has not been handed to *)
(* the callback.  What waits is in order and is newer than all that was    *)
(* handed, unless the subscription was paused in its own flush, after      *)
(* which nothing is delivered before the buffer is cleared.                *)

\* Only callbacks, and the loops of the events they emit, run above another frame.
Upper == {f \in Frames : f.kind = "callback" \/ (f.kind = "emit" /\ f.event \in nested)}

\* No event is emitted from outside while one is being delivered, and a callback
\* that runs has been handed its event.
Sound ==
  {f \in Frames :
     /\ f.kind = "emit" /\ f.event \notin nested
          => \A x \in Events \ nested : x <= f.event
     /\ f.kind = "callback" => f.event \in Range(handed[f.sub])}

ShapedBy(frames, upper, sound) ==
  \A i \in DOMAIN frames :
    frames[i] \in sound /\ (i < Len(frames) => frames[i] \in upper)

ShapeInv == ShapedBy(stack, Upper, Sound)

PendingInv == \A p \in pending : p[2] \in Range(handed[p[1]])

\* How far the flushes of the subscription have come.
CursorsOf(frames, s) ==
  {f.at : f \in {f \in Range(frames) : f.kind = "flush" /\ f.sub = s}}
Cursors(s) == CursorsOf(stack, s)

Waiting(s) == {i \in DOMAIN buffer[s] : buffer[s][i] \notin nested \cup Range(handed[s])}
Seen(s) == Range(handed[s]) \ nested

\* The events of a queue that are not done yet are in order and newer than these.
Ordered(queue, done, seen) ==
  \A i \in DOMAIN queue : queue[i] \notin done =>
    /\ \A j \in DOMAIN queue : queue[j] \notin done /\ i < j => queue[i] <= queue[j]
    /\ \A x \in seen : x < queue[i]

InLine(s) == Ordered(buffer[s], nested \cup Range(handed[s]), Seen(s))

LineInv(s) ==
  /\ s \notin paused \/ Cursors(s) = {} => InLine(s)
  /\ s \notin paused /\ Cursors(s) = {} => Waiting(s) = {}
  /\ s \notin paused => \A at \in Cursors(s) : \A i \in Waiting(s) : i >= at

SeenInOrder(s) ==
  \A i, j \in DOMAIN handed[s] :
    /\ i < j /\ {handed[s][i], handed[s][j]} \cap nested = {}
    /\ \A k \in 1..(j - 1) : handed[s][k] # handed[s][j]
    => handed[s][i] < handed[s][j]

OrderInv ==
  /\ TypeOK /\ ShapeInv /\ PendingInv
  /\ \A s \in Subs : LineInv(s) /\ SeenInOrder(s)

\* What is in a sequence with one element more, or with one put in front.
LEMMA RangeAppend ==
  ASSUME NEW S, NEW q \in Seq(S), NEW e \in S
  PROVE  /\ Append(q, e) \in Seq(S) /\ Len(Append(q, e)) = Len(q) + 1
         /\ Append(q, e)[Len(q) + 1] = e
         /\ \A i \in DOMAIN q : i \in DOMAIN Append(q, e) /\ Append(q, e)[i] = q[i]
         /\ DOMAIN Append(q, e) = DOMAIN q \cup {Len(q) + 1}
         /\ Range(Append(q, e)) = Range(q) \cup {e}
<1>1. /\ Append(q, e) \in Seq(S) /\ Len(Append(q, e)) = Len(q) + 1
      /\ Append(q, e)[Len(q) + 1] = e
      /\ \A i \in DOMAIN q : i \in DOMAIN Append(q, e) /\ Append(q, e)[i] = q[i]
      /\ DOMAIN Append(q, e) = DOMAIN q \cup {Len(q) + 1}
  BY AppendProperties
<1> DEFINE longer == Append(q, e)
<1> HIDE DEF longer
<1>2. Range(longer) = Range(q) \cup {e}
  BY <1>1 DEF Range, longer
<1> QED
  BY <1>1, <1>2 DEF longer

LEMMA PushProperties ==
  ASSUME NEW S, NEW f \in S, NEW q \in Seq(S)
  PROVE  /\ <<f>> \o q \in Seq(S) /\ Len(<<f>> \o q) = Len(q) + 1
         /\ (<<f>> \o q)[1] = f
         /\ \A i \in DOMAIN q : (<<f>> \o q)[i + 1] = q[i]
         /\ DOMAIN (<<f>> \o q) = 1..(Len(q) + 1)
         /\ DOMAIN q = 1..Len(q) /\ Len(q) \in Nat
         /\ Range(<<f>> \o q) = Range(q) \cup {f}
<1>1. /\ <<f>> \o q \in Seq(S) /\ Len(<<f>> \o q) = Len(q) + 1
      /\ (<<f>> \o q)[1] = f
      /\ DOMAIN (<<f>> \o q) = 1..(Len(q) + 1)
      /\ DOMAIN q = 1..Len(q) /\ Len(q) \in Nat
      /\ \A i \in 2..(Len(q) + 1) : (<<f>> \o q)[i] = q[i - 1]
  BY ConcatProperties
<1>2. \A i \in DOMAIN q : (<<f>> \o q)[i + 1] = q[i]
  BY <1>1
<1> DEFINE longer == <<f>> \o q
<1> HIDE DEF longer
<1>3. Range(longer) = Range(q) \cup {f}
  <2>1. /\ longer[1] = f /\ DOMAIN longer = 1..(Len(q) + 1)
        /\ DOMAIN q = 1..Len(q) /\ Len(q) \in Nat
        /\ \A i \in 2..(Len(q) + 1) : longer[i] = q[i - 1]
        /\ \A i \in DOMAIN q : longer[i + 1] = q[i]
    BY <1>1, <1>2 DEF longer
  <2>2. ASSUME NEW x \in Range(longer) PROVE x \in Range(q) \cup {f}
    <3>1. PICK i \in DOMAIN longer : x = longer[i]
      BY DEF Range
    <3>2. i = 1 \/ (i \in 2..(Len(q) + 1) /\ i - 1 \in DOMAIN q)
      BY <2>1, <3>1
    <3> QED
      BY <2>1, <3>1, <3>2 DEF Range
  <2>3. Range(q) \subseteq Range(longer)
    <3>1. \A i \in DOMAIN q : i + 1 \in DOMAIN longer
      BY <2>1
    <3> QED
      BY <2>1, <3>1 DEF Range
  <2>4. f \in Range(longer)
    BY <2>1 DEF Range
  <2> QED
    BY <2>2, <2>3, <2>4
<1> QED
  BY <1>1, <1>2, <1>3 DEF longer

\* A stack is its innermost frame upon the rest.
LEMMA Unpushed ==
  ASSUME NEW S, NEW q \in Seq(S), q # <<>>
  PROVE  Head(q) \in S /\ Tail(q) \in Seq(S) /\ q = <<Head(q)>> \o Tail(q)
<1>1. /\ Head(q) \in S /\ Tail(q) \in Seq(S) /\ Len(Tail(q)) = Len(q) - 1
      /\ \A i \in 1..Len(Tail(q)) : Tail(q)[i] = q[i + 1]
      /\ Head(q) = q[1] /\ Len(q) \in Nat \ {0} /\ DOMAIN q = 1..Len(q)
  BY HeadTailProperties
<1> DEFINE h == Head(q)  t == Tail(q)
<1>2. h \in S /\ t \in Seq(S)
  BY <1>1
<1>3. /\ Len(t) = Len(q) - 1 /\ h = q[1]
      /\ \A i \in 1..Len(t) : t[i] = q[i + 1]
  BY <1>1
<1> HIDE DEF h, t
<1> DEFINE r == <<h>> \o t
<1>4. /\ r \in Seq(S) /\ Len(r) = Len(t) + 1 /\ r[1] = h
      /\ \A i \in DOMAIN t : r[i + 1] = t[i]
      /\ DOMAIN t = 1..Len(t) /\ Len(t) \in Nat
  BY <1>2, PushProperties
<1> HIDE DEF r
<1>5. r \in Seq(S) /\ Len(r) = Len(q)
  BY <1>1, <1>3, <1>4
<1>6. \A i \in 1..Len(q) : r[i] = q[i]
  <2> SUFFICES ASSUME NEW i \in 1..Len(q) PROVE r[i] = q[i]
    OBVIOUS
  <2>1. CASE i = 1
    BY <1>3, <1>4, <2>1
  <2>2. CASE i # 1
    <3>1. i - 1 \in DOMAIN t /\ (i - 1) + 1 = i
      BY <1>1, <1>3, <1>4, <2>2
    <3> QED
      BY <1>3, <1>4, <3>1
  <2> QED
    BY <2>1, <2>2
<1>7. q = r
  BY <1>1, <1>5, <1>6, SeqEqual
<1> QED
  BY <1>2, <1>7 DEF h, t, r

LEMMA ShapedPush ==
  ASSUME NEW F, NEW frames \in Seq(F), NEW f \in F, NEW upper, NEW sound
  PROVE  ShapedBy(<<f>> \o frames, upper, sound)
           <=> f \in sound /\ (frames # <<>> => f \in upper) /\ ShapedBy(frames, upper, sound)
<1> DEFINE longer == <<f>> \o frames
<1>1. /\ longer \in Seq(F) /\ Len(longer) = Len(frames) + 1 /\ longer[1] = f
      /\ \A i \in DOMAIN frames : longer[i + 1] = frames[i]
      /\ DOMAIN longer = 1..(Len(frames) + 1)
      /\ DOMAIN frames = 1..Len(frames) /\ Len(frames) \in Nat
  BY PushProperties
<1>2. frames # <<>> <=> 1 < Len(longer)
  BY <1>1, EmptySeq
<1> HIDE DEF longer
<1>3. ASSUME ShapedBy(longer, upper, sound)
      PROVE  f \in sound /\ (frames # <<>> => f \in upper) /\ ShapedBy(frames, upper, sound)
  <2>1. f \in sound /\ (frames # <<>> => f \in upper)
    BY <1>1, <1>2, <1>3 DEF ShapedBy
  <2>2. ASSUME NEW i \in DOMAIN frames
        PROVE  frames[i] \in sound /\ (i < Len(frames) => frames[i] \in upper)
    <3>1. i + 1 \in DOMAIN longer /\ (i < Len(frames) => i + 1 < Len(longer))
      BY <1>1
    <3> QED
      BY <1>1, <1>3, <3>1 DEF ShapedBy
  <2> QED
    BY <2>1, <2>2 DEF ShapedBy
<1>4. ASSUME f \in sound, frames # <<>> => f \in upper, ShapedBy(frames, upper, sound)
      PROVE  ShapedBy(longer, upper, sound)
  <2> SUFFICES ASSUME NEW i \in DOMAIN longer
               PROVE  longer[i] \in sound /\ (i < Len(longer) => longer[i] \in upper)
    BY DEF ShapedBy
  <2>1. CASE i = 1
    BY <1>1, <1>2, <1>4, <2>1
  <2>2. CASE i # 1
    <3>1. PICK k \in DOMAIN frames : i = k + 1
      <4>1. i - 1 \in DOMAIN frames /\ i = (i - 1) + 1
        BY <1>1, <2>2
      <4> QED
        BY <4>1
    <3>2. i < Len(longer) => k < Len(frames)
      BY <1>1, <3>1
    <3> QED
      BY <1>1, <1>4, <3>1, <3>2 DEF ShapedBy
  <2> QED
    BY <2>1, <2>2
<1> QED
  BY <1>3, <1>4 DEF longer

LEMMA ShapedWidens ==
  ASSUME NEW frames, NEW upper, NEW sound, NEW upper2, NEW sound2,
         ShapedBy(frames, upper, sound), upper \subseteq upper2, sound \subseteq sound2
  PROVE  ShapedBy(frames, upper2, sound2)
PROOF BY DEF ShapedBy

\* Only a frame of a flush has a cursor.
LEMMA CursorsPush ==
  ASSUME NEW F, NEW frames \in Seq(F), NEW f \in F, NEW s
  PROVE  CursorsOf(<<f>> \o frames, s)
           = CursorsOf(frames, s) \cup (IF f.kind = "flush" /\ f.sub = s THEN {f.at} ELSE {})
<1>1. Range(<<f>> \o frames) = Range(frames) \cup {f}
  BY PushProperties
<1> DEFINE longer == <<f>> \o frames
<1> HIDE DEF longer
<1>2. CursorsOf(longer, s)
        = CursorsOf(frames, s) \cup (IF f.kind = "flush" /\ f.sub = s THEN {f.at} ELSE {})
  BY <1>1 DEF CursorsOf, longer
<1> QED
  BY <1>2 DEF longer

LEMMA OrderedTail ==
  ASSUME NEW S, NEW q \in Seq(S), q # <<>>, NEW done, NEW seen, Ordered(q, done, seen)
  PROVE  Ordered(Tail(q), done, seen)
<1>1. /\ Len(Tail(q)) = Len(q) - 1 /\ Len(q) \in Nat \ {0}
      /\ DOMAIN Tail(q) = 1..Len(Tail(q)) /\ DOMAIN q = 1..Len(q)
      /\ \A i \in 1..Len(Tail(q)) : Tail(q)[i] = q[i + 1]
  BY HeadTailProperties
<1> DEFINE t == Tail(q)
<1>2. \A i \in DOMAIN t : i \in Nat /\ i + 1 \in DOMAIN q /\ t[i] = q[i + 1]
  BY <1>1
<1> HIDE DEF t
<1>3. ASSUME NEW i \in DOMAIN t, t[i] \notin done
      PROVE  /\ \A j \in DOMAIN t : t[j] \notin done /\ i < j => t[i] <= t[j]
             /\ \A x \in seen : x < t[i]
  <2>1. i + 1 \in DOMAIN q /\ t[i] = q[i + 1]
    BY <1>2
  <2>2. ASSUME NEW j \in DOMAIN t, t[j] \notin done, i < j PROVE t[i] <= t[j]
    <3>1. j + 1 \in DOMAIN q /\ t[j] = q[j + 1] /\ i + 1 < j + 1
      BY <1>2, <2>2
    <3> QED
      BY <1>3, <2>1, <2>2, <3>1 DEF Ordered
  <2> QED
    BY <1>3, <2>1, <2>2 DEF Ordered
<1> QED
  BY <1>3 DEF Ordered, t

\* What comes last is done, or no older than the others and newer than those seen.
LEMMA OrderedAppend ==
  ASSUME NEW q \in Seq(Events), NEW e \in Events, NEW done, NEW seen, Ordered(q, done, seen),
         e \in done \/ /\ \A i \in DOMAIN q : q[i] \notin done => q[i] <= e
                       /\ \A x \in seen : x < e
  PROVE  Ordered(Append(q, e), done, seen)
<1> DEFINE r == Append(q, e)
<1>1. /\ Len(q) \in Nat /\ DOMAIN q = 1..Len(q)
      /\ DOMAIN r = DOMAIN q \cup {Len(q) + 1}
      /\ \A i \in DOMAIN q : r[i] = q[i]
      /\ r[Len(q) + 1] = e
  BY RangeAppend
<1> HIDE DEF r
<1>2. ASSUME NEW i \in DOMAIN r, r[i] \notin done
      PROVE  /\ \A j \in DOMAIN r : r[j] \notin done /\ i < j => r[i] <= r[j]
             /\ \A x \in seen : x < r[i]
  <2>1. CASE i = Len(q) + 1
    <3>1. r[i] = e /\ \A j \in DOMAIN r : ~(i < j)
      BY <1>1, <2>1
    <3> QED
      BY <1>2, <3>1
  <2>2. CASE i \in DOMAIN q
    <3>1. r[i] = q[i]
      BY <1>1, <2>2
    <3>2. ASSUME NEW j \in DOMAIN r, r[j] \notin done, i < j PROVE r[i] <= r[j]
      <4>1. CASE j \in DOMAIN q
        BY <1>1, <1>2, <2>2, <3>2, <4>1 DEF Ordered
      <4>2. CASE j = Len(q) + 1
        BY <1>1, <1>2, <2>2, <3>2, <4>2
      <4> QED
        BY <1>1, <4>1, <4>2
    <3> QED
      BY <1>2, <2>2, <3>1, <3>2 DEF Ordered
  <2> QED
    BY <1>1, <2>1, <2>2
<1> QED
  BY <1>2 DEF Ordered, r

\* With more done and nothing else seen.
LEMMA OrderedLess ==
  ASSUME NEW q, NEW done, NEW seen, NEW done2, NEW seen2, Ordered(q, done, seen),
         done \subseteq done2,
         \A i \in DOMAIN q : q[i] \notin done2 => \A x \in seen2 \ seen : x < q[i]
  PROVE  Ordered(q, done2, seen2)
<1> SUFFICES ASSUME NEW i \in DOMAIN q, q[i] \notin done2
             PROVE  /\ \A j \in DOMAIN q : q[j] \notin done2 /\ i < j => q[i] <= q[j]
                    /\ \A x \in seen2 : x < q[i]
  BY DEF Ordered
<1>1. q[i] \notin done /\ \A j \in DOMAIN q : q[j] \notin done2 => q[j] \notin done
  OBVIOUS
<1>2. \A j \in DOMAIN q : q[j] \notin done /\ i < j => q[i] <= q[j]
  BY <1>1 DEF Ordered
<1>3. \A x \in seen : x < q[i]
  BY <1>1 DEF Ordered
<1>4. \A x \in seen2 \ seen : x < q[i]
  OBVIOUS
<1> QED
  BY <1>1, <1>2, <1>3, <1>4

\* A line in which nothing moved.
LEMMA LineKept ==
  ASSUME NEW s, LineInv(s), buffer'[s] = buffer[s], Waiting(s)' = Waiting(s),
         InLine(s)' = InLine(s), Cursors(s)' = Cursors(s), s \in paused' <=> s \in paused
  PROVE  LineInv(s)'
PROOF BY DEF LineInv

\* The event handed is nested, was handed before, or is newer than what was seen.
LEMMA HandedInOrder ==
  ASSUME TypeOK, NEW s \in Subs, NEW e \in Events, SeenInOrder(s),
         handed'[s] = Append(handed[s], e), nested' = nested,
         e \in nested \cup Range(handed[s]) \/ \A x \in Seen(s) : x < e
  PROVE  SeenInOrder(s)'
<1> DEFINE q == handed[s]
           r == handed'[s]
<1>1. q \in Seq(Events)
  BY DEF TypeOK
<1>2. /\ Len(q) \in Nat /\ DOMAIN q = 1..Len(q)
      /\ DOMAIN r = DOMAIN q \cup {Len(q) + 1}
      /\ \A i \in DOMAIN q : r[i] = q[i]
      /\ r[Len(q) + 1] = e
  BY <1>1, RangeAppend
<1>3. \A i, j \in DOMAIN q :
        /\ i < j /\ {q[i], q[j]} \cap nested = {}
        /\ \A k \in 1..(j - 1) : q[k] # q[j]
        => q[i] < q[j]
  BY DEF SeenInOrder
<1>4. e \in nested \cup Range(q) \/ \A x \in Range(q) \ nested : x < e
  BY DEF Seen
<1> HIDE DEF q, r
<1>5. ASSUME NEW i \in DOMAIN r, NEW j \in DOMAIN r, i < j, {r[i], r[j]} \cap nested = {},
             \A k \in 1..(j - 1) : r[k] # r[j]
      PROVE  r[i] < r[j]
  <2>1. i \in DOMAIN q /\ r[i] = q[i]
    BY <1>2, <1>5
  <2>2. CASE j \in DOMAIN q
    <3>1. r[j] = q[j] /\ \A k \in 1..(j - 1) : k \in DOMAIN q /\ r[k] = q[k]
      BY <1>2, <2>2
    <3> QED
      BY <1>3, <1>5, <2>1, <2>2, <3>1
  <2>3. CASE j = Len(q) + 1
    <3>1. r[j] = e /\ e \notin nested /\ q[i] \in Range(q) \ nested
      BY <1>2, <1>5, <2>1, <2>3 DEF Range
    <3>2. e \notin Range(q)
      <4>1. ASSUME NEW k \in DOMAIN q, q[k] = e PROVE FALSE
        BY <1>2, <1>5, <2>3, <3>1, <4>1
      <4> QED
        BY <4>1 DEF Range
    <3> QED
      BY <1>4, <2>1, <3>1, <3>2
  <2> QED
    BY <1>2, <2>2, <2>3
<1> QED
  BY <1>5 DEF SeenInOrder, r

\* A frame stays what it was while the callbacks see more.
LEMMA FramesKept ==
  ASSUME UNCHANGED <<sequence, nested>>,
         \A s \in Subs : Range(handed[s]) \subseteq Range(handed'[s])
  PROVE  Frames' = Frames /\ Upper' = Upper /\ Sound \subseteq Sound'
<1>1. Events' = Events /\ Frames' = Frames
  BY DEF Events, Frames
<1>2. Upper' = Upper
  BY <1>1 DEF Upper
<1>3. ASSUME NEW f \in Sound PROVE f \in Sound'
  <2>1. f \in Frames /\ (f.kind = "callback" => f.sub \in Subs)
    BY DEF Sound, Frames
  <2> QED
    BY <1>1, <1>3, <2>1 DEF Sound
<1> QED
  BY <1>1, <1>2, <1>3

\* The innermost frame goes, or is replaced by one further on.
LEMMA StackBelow ==
  ASSUME TypeOK, ShapeInv, stack # <<>>
  PROVE  /\ Top \in Sound /\ (Tail(stack) # <<>> => Top \in Upper)
         /\ Tail(stack) \in Seq(Frames) /\ ShapedBy(Tail(stack), Upper, Sound)
         /\ \A s : Cursors(s) = CursorsOf(Tail(stack), s)
                     \cup (IF Top.kind = "flush" /\ Top.sub = s THEN {Top.at} ELSE {})
<1>1. Top \in Frames /\ Tail(stack) \in Seq(Frames) /\ stack = <<Top>> \o Tail(stack)
  BY Unpushed DEF TypeOK, Top
<1>2. ShapedBy(<<Top>> \o Tail(stack), Upper, Sound)
  BY <1>1 DEF ShapeInv
<1>3. /\ Top \in Sound /\ (Tail(stack) # <<>> => Top \in Upper)
      /\ ShapedBy(Tail(stack), Upper, Sound)
  BY <1>1, <1>2, ShapedPush
<1>4. ASSUME NEW s
      PROVE  Cursors(s) = CursorsOf(Tail(stack), s)
                     \cup (IF Top.kind = "flush" /\ Top.sub = s THEN {Top.at} ELSE {})
  <2>1. CursorsOf(<<Top>> \o Tail(stack), s) = CursorsOf(Tail(stack), s)
                     \cup (IF Top.kind = "flush" /\ Top.sub = s THEN {Top.at} ELSE {})
    <3> DEFINE rest == Tail(stack)
    <3>1. rest \in Seq(Frames) /\ Top \in Frames
      BY <1>1
    <3> HIDE DEF rest
    <3>2. CursorsOf(<<Top>> \o rest, s) = CursorsOf(rest, s)
            \cup (IF Top.kind = "flush" /\ Top.sub = s THEN {Top.at} ELSE {})
      BY <3>1, CursorsPush
    <3> QED
      BY <3>2 DEF rest
  <2> QED
    BY <1>1, <2>1 DEF Cursors
<1> QED
  BY <1>1, <1>3, <1>4

LEMMA StackAdvanced ==
  ASSUME TypeOK, ShapeInv, Running("emit") \/ Running("flush")
  PROVE  /\ Advanced \in Seq(Frames) /\ Advanced # <<>> /\ ShapedBy(Advanced, Upper, Sound)
         /\ \A s : CursorsOf(Advanced, s) = CursorsOf(Tail(stack), s)
                     \cup (IF Top.kind = "flush" /\ Top.sub = s THEN {Top.at + 1} ELSE {})
<1> DEFINE f == [Top EXCEPT !.at = @ + 1]
<1>1. stack # <<>> /\ Top.kind \in {"emit", "flush"}
  BY DEF Running
<1>2. /\ Top \in Sound /\ (Tail(stack) # <<>> => Top \in Upper)
      /\ Tail(stack) \in Seq(Frames) /\ ShapedBy(Tail(stack), Upper, Sound)
  BY <1>1, StackBelow
<1>3. Top \in Frames
  BY <1>2 DEF Sound
<1>4. /\ f \in Frames /\ f.kind = Top.kind /\ f.event = Top.event /\ f.sub = Top.sub
      /\ f.at = Top.at + 1
  BY <1>1, <1>3 DEF Frames
<1>5. Advanced = <<f>> \o Tail(stack)
  BY DEF Advanced
<1> HIDE DEF f
<1>6. f \in Sound /\ (Tail(stack) # <<>> => f \in Upper)
  BY <1>1, <1>2, <1>4 DEF Sound, Upper
<1>7. Advanced \in Seq(Frames) /\ ShapedBy(Advanced, Upper, Sound)
  BY <1>2, <1>4, <1>5, <1>6, ShapedPush, PushProperties
<1>8. ASSUME NEW s
      PROVE  CursorsOf(Advanced, s) = CursorsOf(Tail(stack), s)
                 \cup (IF Top.kind = "flush" /\ Top.sub = s THEN {Top.at + 1} ELSE {})
  <2>1. CursorsOf(<<f>> \o Tail(stack), s) = CursorsOf(Tail(stack), s)
                     \cup (IF f.kind = "flush" /\ f.sub = s THEN {f.at} ELSE {})
    <3> DEFINE rest == Tail(stack)
    <3>1. rest \in Seq(Frames) /\ f \in Frames
      BY <1>2, <1>4
    <3> HIDE DEF rest
    <3>2. CursorsOf(<<f>> \o rest, s)
            = CursorsOf(rest, s) \cup (IF f.kind = "flush" /\ f.sub = s THEN {f.at} ELSE {})
      BY <3>1, CursorsPush
    <3> QED
      BY <3>2 DEF rest
  <2> QED
    BY <1>4, <1>5, <2>1
<1>9. Advanced # <<>>
  <2>1. Len(Advanced) = Len(Tail(stack)) + 1 /\ Len(Tail(stack)) \in Nat
    BY <1>2, <1>4, <1>5, PushProperties
  <2> QED
    BY SMTT(30), <2>1, <1>7, EmptySeq
<1> QED
  BY <1>7, <1>8, <1>9

\* A flush is at the bottom of the stack.
LEMMA FlushAlone ==
  ASSUME TypeOK, ShapeInv, Running("flush")
  PROVE  Tail(stack) = <<>>
<1>1. Top \notin Upper /\ stack # <<>>
  BY DEF Running, Upper
<1> QED
  BY <1>1, StackBelow

LEMMA NoCursors ==
  ASSUME NEW s PROVE CursorsOf(<<>>, s) = {}
PROOF BY DEF CursorsOf, Range

\* An event from outside is delivered with nothing below it.
LEMMA OuterAlone ==
  ASSUME TypeOK, ShapeInv, Running("emit"), Top.event \notin nested
  PROVE  /\ Tail(stack) = <<>> /\ \A x \in Events \ nested : x <= Top.event
         /\ \A s : Cursors(s) = {}
<1>1. Top \notin Upper /\ stack # <<>> /\ Top.kind = "emit"
  BY DEF Running, Upper
<1>2. Tail(stack) = <<>> /\ Top \in Sound
  BY <1>1, StackBelow
<1>3. \A s : Cursors(s) = {}
  BY <1>1, <1>2, StackBelow, NoCursors
<1> QED
  BY <1>1, <1>2, <1>3 DEF Sound

\* Nothing that a line is made of has moved.
LEMMA LinesKept ==
  ASSUME OrderInv, UNCHANGED <<buffer, handed, nested, paused>>,
         \A s \in Subs : Cursors(s)' = Cursors(s)
  PROVE  \A s \in Subs : LineInv(s)' /\ SeenInOrder(s)'
<1> SUFFICES ASSUME NEW s \in Subs PROVE LineInv(s)' /\ SeenInOrder(s)'
  OBVIOUS
<1>1. Waiting(s)' = Waiting(s) /\ Seen(s)' = Seen(s)
  BY DEF Waiting, Seen
<1>2. InLine(s)' = InLine(s)
  BY <1>1 DEF InLine
<1>3. SeenInOrder(s)'
  BY DEF SeenInOrder, OrderInv
<1> QED
  BY <1>1, <1>2, <1>3, LineKept DEF OrderInv

\* emit(): the new event is in no buffer and in no callback yet.
LEMMA EmitOrder ==
  ASSUME OrderInv, TypeOK', Emit
  PROVE  OrderInv'
<1> USE DEF OrderInv
<1>1. /\ MayCall /\ sequence' = sequence + 1
      /\ nested' = (IF stack = <<>> THEN nested ELSE nested \cup {sequence'})
      /\ UNCHANGED <<paused, buffer, handed, pending>>
  BY DEF Emit, held, history
<1>2. PICK accept \in SUBSET Subs : stack' = <<EmitFrame(sequence', accept)>> \o stack
  BY DEF Emit
<1> DEFINE f == EmitFrame(sequence', accept)
<1>3. /\ Events' = Events \cup {sequence'} /\ sequence' \notin Events
      /\ \A x \in Events : x <= sequence'
      /\ nested \subseteq Events /\ nested \subseteq nested'
      /\ nested' \subseteq nested \cup {sequence'}
  BY <1>1 DEF Events, TypeOK
<1>4. \A s \in Subs : Range(buffer[s]) \subseteq Events /\ Range(handed[s]) \subseteq Events
  <2> SUFFICES ASSUME NEW s \in Subs
               PROVE  Range(buffer[s]) \subseteq Events /\ Range(handed[s]) \subseteq Events
    OBVIOUS
  <2>1. buffer[s] \in Seq(Events) /\ handed[s] \in Seq(Events)
    BY DEF TypeOK
  <2> QED
    BY ONLY <2>1 DEF Range
<1>5. Frames \subseteq Frames'
  BY <1>3 DEF Frames
<1>6. Upper \subseteq Upper'
  BY <1>3, <1>5 DEF Upper
<1>7. ASSUME stack # <<>> PROVE Sound \subseteq Sound'
  <2>1. Events' \ nested' = Events \ nested
    BY <1>1, <1>3, <1>7
  <2>2. ASSUME NEW g \in Sound PROVE g \in Sound'
    <3>1. g \in Frames /\ g \in Frames'
      BY <1>5 DEF Sound
    <3>2. g.kind = "callback" => g.event \in Range(handed'[g.sub])
      BY <1>1 DEF Sound
    <3>3. g.kind = "emit" /\ g.event \notin nested' => \A x \in Events' \ nested' : x <= g.event
      BY <1>3, <2>1 DEF Sound
    <3> QED
      BY <3>1, <3>2, <3>3 DEF Sound
  <2> QED
    BY <2>2
<1>8. /\ f \in Frames' /\ f.kind = "emit" /\ f.event = sequence'
  BY <1>3 DEF EmitFrame, Frames
<1> HIDE DEF f
<1>9. f \in Sound'
  <2>1. sequence' \in Int /\ \A x \in Events' : x <= sequence'
    BY <1>3 DEF Events, TypeOK
  <2> QED
    BY <1>8, <2>1 DEF Sound
<1>10. ShapeInv'
  <2>1. ShapedBy(stack, Upper', Sound')
    <3>1. CASE stack = <<>>
      BY <3>1 DEF ShapedBy
    <3>2. CASE stack # <<>>
      BY <1>6, <1>7, <3>2, ShapedWidens DEF ShapeInv
    <3> QED
      BY <3>1, <3>2
  <2>2. stack # <<>> => f \in Upper'
    BY <1>1, <1>8 DEF Upper
  <2>3. stack \in Seq(Frames')
    BY <1>5, SeqWidens DEF TypeOK
  <2>4. ShapedBy(<<f>> \o stack, Upper', Sound')
    BY <1>8, <1>9, <2>1, <2>2, <2>3, ShapedPush
  <2> QED
    BY <1>2, <2>4 DEF ShapeInv, f
<1>11. PendingInv'
  BY <1>1 DEF PendingInv
<1>12. ASSUME NEW s \in Subs PROVE LineInv(s)' /\ SeenInOrder(s)'
  <2>1. /\ Waiting(s)' = Waiting(s) /\ Seen(s)' = Seen(s)
    <3>1. \A i \in DOMAIN buffer[s] : buffer[s][i] \in Events
      BY SMTT(30) DEF TypeOK
    <3> QED
      BY <1>1, <1>3, <1>4, <3>1 DEF Waiting, Seen
  <2>2. InLine(s) => InLine(s)'
    <3>1. nested \cup Range(handed[s]) \subseteq nested' \cup Range(handed'[s])
      BY <1>1, <1>3
    <3>2. Seen(s)' \ Seen(s) = {}
      BY <2>1
    <3> DEFINE done == nested' \cup Range(handed'[s])
    <3>3. InLine(s) => Ordered(buffer[s], done, Seen(s)')
      BY <3>1, <3>2, OrderedLess DEF InLine
    <3> QED
      BY <1>1, <3>3 DEF InLine
  <2>3. Cursors(s)' = Cursors(s)
    <3>1. stack \in Seq(Frames')
      BY <1>5, SeqWidens DEF TypeOK
    <3>2. CursorsOf(<<f>> \o stack, s) = CursorsOf(stack, s)
      <4>1. f \in Frames'
        BY <1>8
      <4>2. CursorsOf(<<f>> \o stack, s)
              = CursorsOf(stack, s) \cup (IF f.kind = "flush" /\ f.sub = s THEN {f.at} ELSE {})
        BY <3>1, <4>1, CursorsPush
      <4> QED
        BY <1>8, <4>2
    <3> QED
      BY <1>2, <3>2 DEF Cursors, f
  <2>4. LineInv(s)'
    BY <1>1, <2>1, <2>2, <2>3 DEF LineInv
  <2>5. SeenInOrder(s)'
    BY <1>1, <1>3 DEF SeenInOrder
  <2> QED
    BY <2>4, <2>5
<1> QED
  BY <1>10, <1>11, <1>12

\* deliver(): the frames and the other subscriptions, once the event is newer than
\* what was seen, or no news.
LEMMA DeliverOrder ==
  ASSUME OrderInv, TypeOK', NEW s \in Subs, NEW e \in Events,
         NEW frames \in Seq(Frames), frames # <<>>, Deliver(s, e, frames),
         ShapedBy(frames, Upper, Sound),
         \A x \in Subs : x # s => CursorsOf(frames, x) = Cursors(x),
         s \notin paused => e \in nested \cup Range(handed[s]) \/ \A x \in Seen(s) : x < e
  PROVE  /\ ShapeInv' /\ PendingInv'
         /\ \A x \in Subs : SeenInOrder(x)' /\ (x # s => LineInv(x)')
         /\ Cursors(s)' = CursorsOf(frames, s)
         /\ UNCHANGED <<paused, nested>>
         /\ s \notin paused => buffer' = buffer /\ handed'[s] = Append(handed[s], e)
         /\ s \in paused => handed' = handed
         /\ s \in paused => buffer'[s] = buffer[s] \/ buffer'[s] = Hold(s, e)
<1> USE DEF OrderInv
<1>1. UNCHANGED <<order, options, paused, sequence, log, nested, pending, failed, cut>>
  BY DEF Deliver, log_
<1>2. CASE s \notin paused
  <2> DEFINE c == CallbackFrame(s, e)
  <2>1. /\ handed' = [handed EXCEPT ![s] = Append(@, e)]
        /\ stack' = <<c>> \o frames
        /\ buffer' = buffer
    BY <1>2 DEF Deliver, Withhold
  <2>2. handed'[s] = Append(handed[s], e) /\ \A x \in Subs : x # s => handed'[x] = handed[x]
    BY <2>1 DEF TypeOK
  <2>3. Range(handed'[s]) = Range(handed[s]) \cup {e}
    BY SMTT(30), <2>2, RangeAppend DEF TypeOK
  <2>4. \A x \in Subs : Range(handed[x]) \subseteq Range(handed'[x])
    BY <2>2, <2>3
  <2>5. Frames' = Frames /\ Upper' = Upper /\ Sound \subseteq Sound'
    BY <1>1, <2>4, FramesKept
  <2>6. /\ c \in Frames /\ c.kind = "callback" /\ c.sub = s /\ c.event = e
    BY DEF CallbackFrame, Frames
  <2> HIDE DEF c
  <2>7. c \in Upper /\ c \in Sound'
    <3>1. c \in Upper
      <4>1. c \in Frames /\ c.kind = "callback"
        BY <2>6
      <4> QED
        BY <4>1 DEF Upper
    <3>2. c.event \in Range(handed'[c.sub]) /\ c \in Frames' /\ c.kind # "emit"
      BY <2>3, <2>5, <2>6
    <3> QED
      BY <3>1, <3>2 DEF Sound
  <2>8. ShapedBy(frames, Upper', Sound')
    BY <2>5, ShapedWidens
  <2>9. ShapedBy(<<c>> \o frames, Upper', Sound')
    BY <2>5, <2>6, <2>7, <2>8, ShapedPush
  <2>10. ASSUME NEW x \in Subs PROVE Cursors(x)' = CursorsOf(frames, x)
    <3>1. CursorsOf(<<c>> \o frames, x)
            = CursorsOf(frames, x) \cup (IF c.kind = "flush" /\ c.sub = x THEN {c.at} ELSE {})
      <4>1. c \in Frames
        BY <2>6
      <4> QED
        BY <4>1, CursorsPush
    <3> QED
      BY <2>1, <2>6, <3>1 DEF Cursors
  <2>11. PendingInv'
    BY <1>1, <2>4 DEF PendingInv, TypeOK
  <2>12. ASSUME NEW x \in Subs PROVE SeenInOrder(x)' /\ (x # s => LineInv(x)')
    <3>1. CASE x = s
      BY <1>1, <1>2, <2>2, <3>1, HandedInOrder
    <3>2. CASE x # s
      <4>1. handed'[x] = handed[x] /\ buffer'[x] = buffer[x] /\ nested' = nested
        BY <1>1, <2>1, <2>2, <3>2
      <4>2. Waiting(x)' = Waiting(x) /\ Seen(x)' = Seen(x) /\ InLine(x)' = InLine(x)
        BY <4>1 DEF Waiting, Seen, InLine
      <4>3. SeenInOrder(x)'
        BY <4>1 DEF SeenInOrder
      <4> QED
        BY <1>1, <2>10, <3>2, <4>1, <4>2, <4>3, LineKept
    <3> QED
      BY <3>1, <3>2
  <2> QED
    BY <1>1, <1>2, <2>1, <2>2, <2>9, <2>10, <2>11, <2>12 DEF ShapeInv
<1>3. CASE s \in paused
  <2>1. /\ handed' = handed /\ stack' = frames
        /\ buffer' = buffer \/ buffer' = [buffer EXCEPT ![s] = Hold(s, e)]
    BY <1>3 DEF Deliver, Withhold
  <2>2. /\ buffer'[s] = buffer[s] \/ buffer'[s] = Hold(s, e)
        /\ \A x \in Subs : x # s => buffer'[x] = buffer[x]
    BY <2>1 DEF TypeOK
  <2>3. Frames' = Frames /\ Upper' = Upper /\ Sound \subseteq Sound'
    BY <1>1, <2>1, FramesKept
  <2>4. ShapeInv'
    BY <2>1, <2>3, ShapedWidens DEF ShapeInv
  <2>5. PendingInv'
    BY <1>1, <2>1 DEF PendingInv
  <2>6. ASSUME NEW x \in Subs PROVE SeenInOrder(x)' /\ (x # s => LineInv(x)')
    <3>1. SeenInOrder(x)'
      BY <1>1, <2>1 DEF SeenInOrder
    <3>2. CASE x # s
      <4>1. handed'[x] = handed[x] /\ buffer'[x] = buffer[x] /\ nested' = nested
        BY <1>1, <2>1, <2>2, <3>2
      <4>2. Waiting(x)' = Waiting(x) /\ Seen(x)' = Seen(x) /\ InLine(x)' = InLine(x)
        BY <4>1 DEF Waiting, Seen, InLine
      <4>3. Cursors(x)' = Cursors(x)
        BY <2>1, <3>2 DEF Cursors
      <4> QED
        BY <1>1, <3>1, <3>2, <4>1, <4>2, <4>3, LineKept
    <3> QED
      BY <3>1, <3>2
  <2> QED
    BY <1>1, <1>3, <2>1, <2>2, <2>4, <2>5, <2>6 DEF Cursors
<1> QED
  BY <1>2, <1>3

\* The event of emit() is the latest of those from outside, or it is nested.
LEMMA EmitStepOrder ==
  ASSUME OrderInv, TypeOK', EmitStep
  PROVE  OrderInv'
<1> USE DEF OrderInv
<1>1. Running("emit") /\ stack # <<>> /\ Top \in Frames /\ Top.kind = "emit"
  BY TopType DEF EmitStep, Running
<1>2. order[Top.at] \in Subs /\ Top.event \in Events
  BY <1>1, SMTT(30) DEF EmitStep, Frames, TypeOK
<1>3. PICK s \in Subs, e \in Events : Deliver(s, e, Advanced) /\ e = Top.event
  BY <1>2 DEF EmitStep
<1>4. /\ Advanced \in Seq(Frames) /\ Advanced # <<>> /\ ShapedBy(Advanced, Upper, Sound)
      /\ \A x : CursorsOf(Advanced, x) = CursorsOf(Tail(stack), x)
  BY <1>1, StackAdvanced
<1>5. \A x : CursorsOf(Advanced, x) = Cursors(x)
  BY <1>1, <1>2, <1>4, StackBelow
<1>6. e \notin nested => (\A x \in Events \ nested : x <= e) /\ \A x : Cursors(x) = {}
  BY <1>1, <1>3, OuterAlone
<1>7. Range(handed[s]) \subseteq Events /\ Events \subseteq Int
      /\ Range(buffer[s]) \subseteq Events
  <2>1. handed[s] \in Seq(Events) /\ buffer[s] \in Seq(Events) /\ sequence \in Nat
    BY DEF TypeOK
  <2> QED
    BY <2>1 DEF Range, Events
<1>8. e \in nested \cup Range(handed[s]) \/ \A x \in Seen(s) : x < e
  <2> SUFFICES ASSUME e \notin nested \cup Range(handed[s]), NEW x \in Seen(s) PROVE x < e
    OBVIOUS
  <2>1. x \in Events \ nested /\ x # e
    BY <1>7 DEF Seen
  <2> QED
    BY <1>3, <1>6, <1>7, <2>1
<1>9. /\ ShapeInv' /\ PendingInv'
      /\ \A x \in Subs : SeenInOrder(x)' /\ (x # s => LineInv(x)')
      /\ Cursors(s)' = CursorsOf(Advanced, s)
      /\ UNCHANGED <<paused, nested>>
      /\ s \notin paused => buffer' = buffer /\ handed'[s] = Append(handed[s], e)
      /\ s \in paused => handed' = handed
      /\ s \in paused => buffer'[s] = buffer[s] \/ buffer'[s] = Hold(s, e)
  BY <1>1, <1>3, <1>4, <1>5, <1>8, DeliverOrder
<1>10. LineInv(s)'
  <2>1. Cursors(s)' = Cursors(s)
    BY <1>5, <1>9
  <2>2. CASE s \notin paused
    <3>1. /\ handed'[s] = Append(handed[s], e) /\ buffer'[s] = buffer[s]
          /\ s \notin paused' /\ nested' = nested
      BY <1>9, <2>2
    <3>2. Range(handed'[s]) = Range(handed[s]) \cup {e}
      BY SMTT(30), <1>3, <3>1, RangeAppend DEF TypeOK
    <3>3. Waiting(s)' \subseteq Waiting(s)
      BY <3>1, <3>2 DEF Waiting
    <3>4. InLine(s) /\ LineInv(s)
      BY <1>3, <2>2 DEF LineInv
    <3>5. InLine(s)'
      <4> DEFINE done2 == nested \cup Range(handed'[s])
                 seen2 == Range(handed'[s]) \ nested
      <4>1. nested \cup Range(handed[s]) \subseteq done2
        BY <3>2
      <4>2. ASSUME NEW i \in DOMAIN buffer[s], buffer[s][i] \notin done2, NEW x \in seen2 \ Seen(s)
            PROVE  x < buffer[s][i]
        <5>1. x = e /\ e \notin nested /\ e \notin Range(handed[s])
          BY <3>2, <4>2 DEF Seen
        <5>2. Cursors(s) = {}
          BY <1>6, <5>1
        <5>3. i \in Waiting(s) /\ Waiting(s) = {}
          BY <1>3, <2>2, <3>2, <4>2, <5>2 DEF LineInv, Waiting
        <5> QED
          BY <5>3
      <4> HIDE DEF done2, seen2
      <4>3. Ordered(buffer[s], done2, seen2)
        BY <3>4, <4>1, <4>2, OrderedLess DEF InLine
      <4> QED
        BY <3>1, <4>3 DEF InLine, Seen, done2, seen2
    <3> QED
      BY <2>1, <2>2, <3>1, <3>3, <3>4, <3>5 DEF LineInv
  <2>3. CASE s \in paused
    <3>1. /\ handed'[s] = handed[s] /\ s \in paused' /\ nested' = nested
          /\ buffer'[s] = buffer[s] \/ buffer'[s] = Hold(s, e)
      BY <1>9, <2>3
    <3>2. ASSUME Cursors(s) = {} PROVE InLine(s)'
      <4> DEFINE done == nested \cup Range(handed[s])
      <4>1. Ordered(buffer[s], done, Seen(s))
        BY <1>3, <3>2 DEF LineInv, InLine
      <4>2. CASE buffer'[s] = buffer[s]
        BY <3>1, <4>1, <4>2 DEF InLine, Seen
      <4>3. CASE buffer'[s] = Hold(s, e)
        <5> DEFINE q == IF Full(s) THEN Tail(buffer[s]) ELSE buffer[s]
        <5>1. buffer[s] \in Seq(Events) /\ options[s].buffer_size \in Nat \ {0}
          BY <1>3 DEF TypeOK, AnyOptions
        <5>2. Full(s) => buffer[s] # <<>>
          BY <5>1 DEF Full
        <5>3. q \in Seq(Events) /\ Ordered(q, done, Seen(s))
          BY <4>1, <5>1, <5>2, OrderedTail
        <5>4. buffer'[s] = Append(q, e)
          BY <4>3 DEF Hold
        <5> HIDE DEF q
        <5>5. e \in done \/ /\ \A i \in DOMAIN q : q[i] \notin done => q[i] <= e
                            /\ \A x \in Seen(s) : x < e
          <6> SUFFICES ASSUME e \notin done
                       PROVE  /\ \A i \in DOMAIN q : q[i] \notin done => q[i] <= e
                              /\ \A x \in Seen(s) : x < e
            OBVIOUS
          <6>1. \A i \in DOMAIN q : q[i] \in Events
            BY <5>3
          <6> QED
            BY <1>6, <1>8, <6>1
        <5> HIDE DEF done
        <5>6. Ordered(buffer'[s], done, Seen(s))
          BY <1>3, <5>3, <5>4, <5>5, OrderedAppend
        <5> QED
          BY <3>1, <5>6 DEF InLine, Seen, done
      <4> QED
        BY <3>1, <4>2, <4>3
    <3> QED
      BY <2>1, <3>1, <3>2 DEF LineInv
  <2> QED
    BY <2>2, <2>3
<1> QED
  BY <1>9, <1>10

\* A flush hands out what waits first; what is behind it is done.
LEMMA FlushStepOrder ==
  ASSUME OrderInv, TypeOK', FlushStep
  PROVE  OrderInv'
<1> USE DEF OrderInv
<1>1. /\ Running("flush") /\ stack # <<>> /\ Top \in Frames /\ Top.kind = "flush"
      /\ Tail(stack) = <<>>
  BY TopType, FlushAlone DEF FlushStep, Running
<1>2. Top.sub \in Subs /\ Top.at \in Nat \ {0} /\ Top.at <= Len(buffer[Top.sub])
  BY <1>1 DEF FlushStep, Frames
<1>3. PICK s \in Subs, at \in Nat \ {0} :
        /\ s = Top.sub /\ at = Top.at /\ at \in DOMAIN buffer[s]
        /\ Deliver(s, buffer[s][at], Advanced)
  <2>1. Top.at \in DOMAIN buffer[Top.sub]
    <3>1. buffer[Top.sub] \in Seq(Events)
      BY <1>2 DEF TypeOK
    <3> QED
      BY <1>2, <3>1
  <2>2. Deliver(Top.sub, buffer[Top.sub][Top.at], Advanced)
    BY DEF FlushStep
  <2> QED
    BY <1>2, <2>1, <2>2
<1>4. buffer[s] \in Seq(Events) /\ handed[s] \in Seq(Events) /\ sequence \in Nat
  BY DEF TypeOK
<1>5. PICK e \in Events : e = buffer[s][at]
  BY <1>3, <1>4
<1>6. Deliver(s, e, Advanced)
  BY <1>3, <1>5
<1>7. /\ Advanced \in Seq(Frames) /\ Advanced # <<>> /\ ShapedBy(Advanced, Upper, Sound)
      /\ \A x : CursorsOf(Advanced, x) = IF s = x THEN {at + 1} ELSE {}
  BY <1>1, <1>3, StackAdvanced, NoCursors
<1>8. \A x : Cursors(x) = IF s = x THEN {at} ELSE {}
  BY <1>1, <1>3, StackBelow, NoCursors
<1>9. ASSUME s \notin paused
      PROVE  InLine(s) /\ \A i \in Waiting(s) : i >= at
  BY <1>8, <1>9 DEF LineInv
<1>10. s \notin paused => e \in nested \cup Range(handed[s]) \/ \A x \in Seen(s) : x < e
  BY <1>3, <1>5, <1>9 DEF InLine, Ordered
<1>11. /\ ShapeInv' /\ PendingInv'
       /\ \A x \in Subs : SeenInOrder(x)' /\ (x # s => LineInv(x)')
       /\ Cursors(s)' = CursorsOf(Advanced, s)
       /\ UNCHANGED <<paused, nested>>
       /\ s \notin paused => buffer' = buffer /\ handed'[s] = Append(handed[s], e)
  BY <1>6, <1>7, <1>8, <1>10, DeliverOrder
<1>12. Cursors(s)' = {at + 1}
  BY <1>7, <1>11
<1>13. LineInv(s)'
  <2>1. CASE s \in paused
    BY <1>11, <1>12, <2>1 DEF LineInv
  <2>2. CASE s \notin paused
    <3>1. /\ handed'[s] = Append(handed[s], e) /\ buffer'[s] = buffer[s] /\ nested' = nested
      BY <1>11, <2>2
    <3>2. Range(handed'[s]) = Range(handed[s]) \cup {e}
      BY <1>4, <3>1, RangeAppend
    <3> DEFINE done2 == nested \cup Range(handed'[s])
               seen2 == Range(handed'[s]) \ nested
    <3>3. \A i \in Waiting(s)' : i \in Waiting(s) /\ buffer[s][i] # e
      BY <3>1, <3>2 DEF Waiting
    <3>4. \A i \in Waiting(s)' : i >= at + 1
      <4> SUFFICES ASSUME NEW i \in Waiting(s)' PROVE i >= at + 1
        OBVIOUS
      <4>1. i \in Waiting(s) /\ i # at /\ i \in Nat
        BY <1>4, <1>5, <3>3 DEF Waiting
      <4> QED
        BY <1>9, <2>2, <4>1
    <3>5. InLine(s)'
      <4>1. nested \cup Range(handed[s]) \subseteq done2
        BY <3>2
      <4>2. ASSUME NEW i \in DOMAIN buffer[s], buffer[s][i] \notin done2, NEW x \in seen2 \ Seen(s)
            PROVE  x < buffer[s][i]
        <5>1. x = e /\ e \notin nested \cup Range(handed[s])
          BY <3>2, <4>2 DEF Seen
        <5>2. i \in Waiting(s) /\ i \in Waiting(s)'
          BY <3>1, <4>1, <4>2 DEF Waiting
        <5>3. i \in Int /\ at < i
          BY <1>4, <3>4, <5>2
        <5>4. buffer[s][at] <= buffer[s][i]
          BY <1>3, <1>5, <1>9, <2>2, <5>1, <5>2, <5>3 DEF InLine, Ordered, Waiting
        <5>5. buffer[s][i] # e /\ buffer[s][i] \in Int /\ e \in Int
          BY <1>4, <3>3, <5>2 DEF Events
        <5> QED
          BY <1>5, <5>1, <5>4, <5>5
      <4> HIDE DEF done2, seen2
      <4>3. Ordered(buffer[s], done2, seen2)
        BY <1>9, <2>2, <4>1, <4>2, OrderedLess DEF InLine
      <4> QED
        BY <3>1, <4>3 DEF InLine, Seen, done2, seen2
    <3> QED
      BY <1>12, <3>4, <3>5 DEF LineInv
  <2> QED
    BY <2>1, <2>2
<1> QED
  BY <1>11, <1>13

\* The flush is over and the buffer is cleared: nothing waits.
LEMMA FlushEndOrder ==
  ASSUME OrderInv, TypeOK', FlushEnd
  PROVE  OrderInv'
<1> USE DEF OrderInv
<1>1. /\ Running("flush") /\ stack # <<>> /\ Top \in Frames /\ Top.kind = "flush"
      /\ Tail(stack) = <<>>
  BY TopType, FlushAlone DEF FlushEnd, Running
<1>2. /\ stack' = <<>> /\ buffer' = Emptied(Top.sub) /\ Top.sub \in Subs
      /\ UNCHANGED <<paused, sequence, nested, pending, handed>>
  BY <1>1 DEF FlushEnd, Frames, log_, history
<1>3. PICK s \in Subs : s = Top.sub
  BY <1>2
<1>4. \A x : x # s => Cursors(x) = {}
  BY <1>1, <1>3, StackBelow, NoCursors
<1>5. \A x \in Subs : Cursors(x)' = {}
  BY <1>2, NoCursors DEF Cursors
<1>6. buffer'[s] = <<>> /\ \A x \in Subs : x # s => buffer'[x] = buffer[x]
  BY <1>2, <1>3 DEF Emptied, TypeOK
<1>7. ShapeInv'
  BY <1>2 DEF ShapeInv, ShapedBy
<1>8. PendingInv'
  BY <1>2 DEF PendingInv
<1>9. ASSUME NEW x \in Subs PROVE LineInv(x)' /\ SeenInOrder(x)'
  <2>1. SeenInOrder(x)'
    BY <1>2 DEF SeenInOrder
  <2>2. CASE x = s
    <3>1. Waiting(x)' = {}
      BY <1>6, <2>2 DEF Waiting
    <3>2. InLine(x)'
      BY <1>6, <2>2 DEF InLine, Ordered
    <3> QED
      BY <1>5, <2>1, <3>1, <3>2 DEF LineInv
  <2>3. CASE x # s
    <3>1. Waiting(x)' = Waiting(x) /\ Seen(x)' = Seen(x) /\ InLine(x)' = InLine(x)
      BY <1>2, <1>6, <2>3 DEF Waiting, Seen, InLine
    <3> QED
      BY <1>2, <1>4, <1>5, <1>6, <2>1, <2>3, <3>1, LineKept
  <2> QED
    BY <2>2, <2>3
<1> QED
  BY <1>7, <1>8, <1>9

\* A callback that failed has seen its event: kept for later, it does not wait.
LEMMA FailOrder ==
  ASSUME OrderInv, NEW s \in Subs, NEW e \in Events, Fail(s, e),
         e \in Range(handed[s]), \A x \in Subs : Cursors(x)' = Cursors(x)
  PROVE  \A x \in Subs : LineInv(x)' /\ SeenInOrder(x)'
<1> USE DEF OrderInv
<1>1. UNCHANGED <<paused, sequence, nested, handed>>
  BY DEF Fail, log_
<1>2. buffer' = buffer \/ buffer' = [buffer EXCEPT ![s] = Append(@, e)]
  BY DEF Fail, Rebuffered
<1> SUFFICES ASSUME NEW x \in Subs PROVE LineInv(x)' /\ SeenInOrder(x)'
  OBVIOUS
<1>3. SeenInOrder(x)' /\ Seen(x)' = Seen(x)
  BY <1>1 DEF SeenInOrder, Seen
<1>4. CASE buffer'[x] = buffer[x]
  <2>1. Waiting(x)' = Waiting(x) /\ InLine(x)' = InLine(x)
    BY <1>1, <1>3, <1>4 DEF Waiting, InLine
  <2> QED
    BY <1>1, <1>3, <1>4, <2>1, LineKept
<1>5. CASE x = s /\ buffer'[x] = Append(buffer[x], e)
  <2>1. buffer[x] \in Seq(Events)
    BY DEF TypeOK
  <2>2. /\ DOMAIN buffer'[x] = DOMAIN buffer[x] \cup {Len(buffer[x]) + 1}
        /\ \A i \in DOMAIN buffer[x] : buffer'[x][i] = buffer[x][i]
        /\ buffer'[x][Len(buffer[x]) + 1] = e
    BY <1>5, <2>1, RangeAppend
  <2>3. Waiting(x)' = Waiting(x)
    BY <1>1, <1>5, <2>2 DEF Waiting
  <2>4. InLine(x) => InLine(x)'
    <3> DEFINE done == nested \cup Range(handed[x])
    <3>1. e \in done
      BY <1>5
    <3> HIDE DEF done
    <3>2. Ordered(buffer[x], done, Seen(x)) => Ordered(Append(buffer[x], e), done, Seen(x))
      BY <2>1, <3>1, OrderedAppend
    <3> QED
      BY <1>1, <1>3, <1>5, <3>2 DEF InLine, done
  <2> QED
    BY <1>1, <1>3, <2>3, <2>4 DEF LineInv
<1>6. buffer'[x] = buffer[x] \/ (x = s /\ buffer'[x] = Append(buffer[x], e))
  BY <1>2 DEF TypeOK
<1> QED
  BY <1>4, <1>5, <1>6

\* The frames that are left after a callback or a loop of emit().
LEMMA PopOrder ==
  ASSUME OrderInv, Running("emit") \/ Running("callback"), stack' = Tail(stack),
         UNCHANGED <<sequence, nested, handed>>
  PROVE  ShapeInv' /\ \A s \in Subs : Cursors(s)' = Cursors(s)
<1> USE DEF OrderInv
<1>1. stack # <<>> /\ Top.kind # "flush"
  BY DEF Running
<1>2. /\ Tail(stack) \in Seq(Frames) /\ ShapedBy(Tail(stack), Upper, Sound)
      /\ \A s : Cursors(s) = CursorsOf(Tail(stack), s)
  BY <1>1, StackBelow
<1>3. Upper' = Upper /\ Sound \subseteq Sound'
  BY FramesKept
<1> QED
  BY <1>2, <1>3, ShapedWidens DEF ShapeInv, Cursors

\* A step that leaves the stack alone leaves its shape.
LEMMA ShapeKept ==
  ASSUME ShapeInv, UNCHANGED <<stack, sequence, nested, handed>>
  PROVE  ShapeInv' /\ \A s \in Subs : Cursors(s)' = Cursors(s)
<1>1. Upper' = Upper /\ Sound \subseteq Sound'
  BY FramesKept
<1> QED
  BY <1>1, ShapedWidens DEF ShapeInv, Cursors

LEMMA ResumeOrder ==
  ASSUME OrderInv, NEW s \in Subs, Resume(s)
  PROVE  ShapeInv' /\ \A x \in Subs : LineInv(x)' /\ SeenInOrder(x)'
<1> USE DEF OrderInv
<1>1. /\ stack = <<>> /\ paused' = paused \ {s} /\ stack' = <<FlushFrame(s)>>
      /\ UNCHANGED <<buffer, sequence, nested, handed>>
  BY DEF Resume, log_, history
<1> DEFINE f == FlushFrame(s)
<1>2. f \in Frames /\ f.kind = "flush" /\ f.sub = s /\ f.at = 1
  BY DEF FlushFrame, Frames
<1>3. stack' = <<f>>
  BY <1>1
<1> HIDE DEF f
<1>4. ShapeInv'
  <2>1. f \in Sound
    BY <1>2 DEF Sound
  <2>2. f \in Sound'
    BY <1>1, <2>1, FramesKept
  <2> QED
    BY <1>3, <2>2 DEF ShapeInv, ShapedBy
<1>5. \A x : Cursors(x) = {}
  BY <1>1, NoCursors DEF Cursors
<1>6. \A x \in Subs : Cursors(x)' = IF s = x THEN {1} ELSE {}
  <2>1. Range(stack') = {f}
    BY <1>3 DEF Range
  <2> QED
    BY <1>2, <2>1 DEF Cursors, CursorsOf
<1>7. ASSUME NEW x \in Subs PROVE LineInv(x)' /\ SeenInOrder(x)'
  <2>1. /\ Waiting(x)' = Waiting(x) /\ Seen(x)' = Seen(x) /\ InLine(x)' = InLine(x)
        /\ SeenInOrder(x)'
    BY <1>1 DEF Waiting, Seen, InLine, SeenInOrder
  <2>2. InLine(x) /\ (x # s /\ x \notin paused => Waiting(x) = {})
    BY <1>5 DEF LineInv
  <2>3. \A i \in Waiting(x) : i >= 1
    <3>1. buffer[x] \in Seq(Events)
      BY DEF TypeOK
    <3> QED
      BY <3>1 DEF Waiting
  <2> QED
    BY <1>1, <1>6, <2>1, <2>2, <2>3 DEF LineInv
<1> QED
  BY <1>4, <1>7

LEMMA PauseOrder ==
  ASSUME OrderInv, NEW s \in Subs, Pause(s)
  PROVE  ShapeInv' /\ \A x \in Subs : LineInv(x)' /\ SeenInOrder(x)'
<1> USE DEF OrderInv
<1>1. /\ s \notin paused /\ paused' = paused \cup {s}
      /\ UNCHANGED <<stack, buffer, sequence, nested, handed>>
  BY DEF Pause, log_
<1>2. ShapeInv' /\ \A x \in Subs : Cursors(x)' = Cursors(x)
  BY <1>1, ShapeKept
<1>3. ASSUME NEW x \in Subs PROVE LineInv(x)' /\ SeenInOrder(x)'
  <2>1. /\ Waiting(x)' = Waiting(x) /\ Seen(x)' = Seen(x) /\ InLine(x)' = InLine(x)
        /\ SeenInOrder(x)'
    BY <1>1 DEF Waiting, Seen, InLine, SeenInOrder
  <2> QED
    BY <1>1, <1>2, <2>1 DEF LineInv
<1> QED
  BY <1>2, <1>3

LEMMA NextOrder ==
  ASSUME OrderInv, TypeOK', [Next]_vars
  PROVE  OrderInv'
<1> USE DEF OrderInv
<1> DEFINE Lines == \A s \in Subs : LineInv(s)' /\ SeenInOrder(s)'
<1>1. ASSUME UNCHANGED <<stack, paused, buffer, sequence, nested, handed>>, pending' \subseteq pending
      PROVE  OrderInv'
  <2>1. ShapeInv' /\ \A s \in Subs : Cursors(s)' = Cursors(s)
    BY <1>1, ShapeKept
  <2>2. PendingInv'
    BY <1>1 DEF PendingInv
  <2> QED
    BY <1>1, <2>1, <2>2, LinesKept
<1>2. ASSUME NEW s \in Subs, Subscribe(s) \/ Unsubscribe(s) PROVE OrderInv'
  BY <1>1, <1>2 DEF Subscribe, Unsubscribe, held, log_, history
<1>3. ASSUME NEW s \in Subs, Pause(s) PROVE OrderInv'
  <2>1. UNCHANGED <<pending, handed>>
    BY <1>3 DEF Pause
  <2> QED
    BY <1>3, <2>1, PauseOrder DEF PendingInv
<1>4. ASSUME NEW s \in Subs, Resume(s) PROVE OrderInv'
  <2>1. UNCHANGED <<pending, handed>>
    BY <1>4 DEF Resume, history
  <2> QED
    BY <1>4, <2>1, ResumeOrder DEF PendingInv
<1>5. ASSUME EmitSkip PROVE OrderInv'
  <2>1. /\ Running("emit") /\ Top.kind = "emit" /\ stack # <<>> /\ stack' = Advanced
        /\ UNCHANGED <<paused, buffer, sequence, nested, handed, pending>>
    BY <1>5 DEF EmitSkip, Running, held, log_, history
  <2>2. /\ ShapedBy(Advanced, Upper, Sound)
        /\ \A s : CursorsOf(Advanced, s) = CursorsOf(Tail(stack), s)
    BY <2>1, StackAdvanced
  <2>3. \A s : Cursors(s) = CursorsOf(Tail(stack), s)
    BY <2>1, StackBelow
  <2>4. Upper' = Upper /\ Sound \subseteq Sound'
    BY <2>1, FramesKept
  <2>5. ShapeInv' /\ \A s \in Subs : Cursors(s)' = Cursors(s)
    BY <2>1, <2>2, <2>3, <2>4, ShapedWidens DEF ShapeInv, Cursors
  <2> QED
    BY <2>1, <2>5, LinesKept DEF PendingInv
<1>6. ASSUME EmitEnd PROVE OrderInv'
  <2>1. /\ Running("emit") /\ stack' = Tail(stack)
        /\ UNCHANGED <<paused, buffer, sequence, nested, handed, pending>>
    BY <1>6 DEF EmitEnd, held, log_, history
  <2> QED
    BY <2>1, PopOrder, LinesKept DEF PendingInv
<1>7. ASSUME CallbackReturns PROVE OrderInv'
  <2>1. /\ Running("callback") /\ Top.kind = "callback" /\ stack # <<>> /\ stack' = Tail(stack)
        /\ pending' \subseteq pending \cup {<<Top.sub, Top.event>>}
        /\ UNCHANGED <<paused, buffer, sequence, nested, handed>>
    BY <1>7 DEF CallbackReturns, Running, held, log_, history
  <2>2. Top \in Sound
    BY <2>1, StackBelow
  <2>3. Top.event \in Range(handed[Top.sub])
    BY <2>1, <2>2 DEF Sound
  <2>4. PendingInv'
    BY <2>1, <2>3 DEF PendingInv
  <2> QED
    BY <2>1, <2>4, PopOrder, LinesKept
<1>8. ASSUME CallbackThrows PROVE OrderInv'
  <2>1. /\ Running("callback") /\ Top.kind = "callback" /\ stack # <<>> /\ stack' = Tail(stack)
        /\ Fail(Top.sub, Top.event)
        /\ UNCHANGED <<paused, sequence, nested, handed, pending>>
    BY <1>8 DEF CallbackThrows, Running, Fail, log_
  <2>2. Top \in Sound
    BY <2>1, StackBelow
  <2>3. Top.sub \in Subs /\ Top.event \in Events /\ Top.event \in Range(handed[Top.sub])
    BY <2>1, <2>2 DEF Sound, Frames
  <2>4. ShapeInv' /\ \A s \in Subs : Cursors(s)' = Cursors(s)
    BY <2>1, PopOrder
  <2>5. Lines
    BY <2>1, <2>3, <2>4, FailOrder
  <2> QED
    BY <2>1, <2>4, <2>5 DEF PendingInv
<1>9. ASSUME Resolve PROVE OrderInv'
  BY <1>1, <1>9 DEF Resolve, subscriptions, held, log_, history
<1>10. ASSUME Reject PROVE OrderInv'
  <2>1. PICK p \in pending : Fail(p[1], p[2]) /\ pending' = pending \ {p} /\ UNCHANGED stack
    BY <1>10 DEF Reject
  <2>2. p[1] \in Subs /\ p[2] \in Events /\ p[2] \in Range(handed[p[1]])
    BY DEF TypeOK, PendingInv
  <2>3. UNCHANGED <<sequence, nested, handed>>
    BY <2>1 DEF Fail, log_
  <2>4. ShapeInv' /\ \A s \in Subs : Cursors(s)' = Cursors(s)
    BY <2>1, <2>3, ShapeKept
  <2>5. Lines
    BY <2>1, <2>2, <2>4, FailOrder
  <2> QED
    BY <2>1, <2>3, <2>4, <2>5 DEF PendingInv
<1>11. CASE UNCHANGED vars
  BY <1>1, <1>11 DEF vars, held, log_, history
<1> QED
  BY <1>2, <1>3, <1>4, <1>5, <1>6, <1>7, <1>8, <1>9, <1>10, <1>11, EmitOrder,
     EmitStepOrder, FlushStepOrder, FlushEndOrder DEF Next, Unwind

\* Of the order of events, all that a step has to know.
LEMMA OrderKept == Spec => []OrderInv
<1>1. Init => OrderInv
  <2> SUFFICES ASSUME Init PROVE OrderInv
    OBVIOUS
  <2>1. TypeOK
    BY EmptyIsSeq, BoundsAssumption
       DEF Init, TypeOK, DefaultOptions, AnyOptions, Policies, Events, Range
  <2>2. ShapeInv /\ PendingInv
    BY DEF Init, ShapeInv, ShapedBy, PendingInv
  <2>3. ASSUME NEW s \in Subs PROVE LineInv(s) /\ SeenInOrder(s)
    <3>1. buffer[s] = <<>> /\ handed[s] = <<>> /\ stack = <<>>
      BY DEF Init
    <3>2. Waiting(s) = {} /\ InLine(s) /\ SeenInOrder(s)
      BY <3>1 DEF Waiting, InLine, Ordered, SeenInOrder
    <3>3. Cursors(s) = {}
      BY <3>1, NoCursors DEF Cursors
    <3> QED
      BY <3>2, <3>3 DEF LineInv
  <2> QED
    BY <2>1, <2>2, <2>3 DEF OrderInv
<1>2. OrderInv /\ TypeOK' /\ [Next]_vars => OrderInv'
  BY NextOrder
<1> QED
  BY <1>1, <1>2, EmitterTypes, PTL DEF Spec

\* Pausing, buffering, flushing, failing callbacks and nested calls keep the order:
\* of the events emitted from outside, a callback first sees an earlier one first.
THEOREM EmitterKeepsOrder == Spec => []FirstSeenInOrder
<1>1. OrderInv => FirstSeenInOrder
  BY DEF OrderInv, SeenInOrder, FirstSeenInOrder
<1> QED
  BY <1>1, OrderKept, PTL

------------------------------------------------------------------------------
(* What is delivered, and how often.  Counting the failures that bring an  *)
(* event back, an event that was offered is due, or it has been given once *)
(* more.  It is due while it is in the buffer, where it is once; it is     *)
(* given while its callback runs or the promise is open.                   *)

Repeating == {s \in Subs : options[s].delivery = "at_least_once"}
Returned(s, e) == IF s \in Repeating THEN Times(failed[s], e) ELSE 0
Due(s, e) == Times(handed[s], e) = Returned(s, e)
Given(s, e) == Times(handed[s], e) = Returned(s, e) + 1

\* Paused in its own flush: nothing is delivered until the buffer is cleared.
Stopped(s) == s \in paused /\ Cursors(s) # {}

\* What of the buffer is still to come, if a flush is under way.
Left(s) == {i \in DOMAIN buffer[s] : \A at \in Cursors(s) : i >= at}

Lost(s) == {e \in offered[s] : Due(s, e) /\ \A i \in Left(s) : buffer[s][i] # e}

\* An event has still to come to the subscriptions ahead of its loop.
Fit ==
  {f \in Frames :
     /\ f.kind = "emit" => \A k \in DOMAIN order : k >= f.at => f.event \notin offered[order[k]]
     /\ f.kind = "callback" /\ f.sub \in Repeating
          => Given(f.sub, f.event) /\ <<f.sub, f.event>> \notin pending}

\* No event has two loops, and none is in two callbacks at once.
Apart(f, g, subs) ==
  /\ f.kind = "emit" /\ g.kind = "emit" => f.event # g.event
  /\ f.kind = "callback" /\ g.kind = "callback" /\ f.sub = g.sub /\ f.sub \in subs
       => f.event # g.event

AllApart(frames, subs) ==
  \A i, j \in DOMAIN frames : i # j => Apart(frames[i], frames[j], subs)

StackInv == Range(stack) \subseteq Fit /\ AllApart(stack, Repeating)

OfferInv ==
  /\ \A i, j \in DOMAIN order : order[i] = order[j] => i = j
  /\ \A s \in Subs : s \notin Range(order) => offered[s] = {}
  /\ \A s \in Subs : Range(handed[s]) \cup Range(failed[s]) \cup Range(buffer[s]) \subseteq offered[s]
  /\ \A p \in pending : p[1] \in Repeating => Given(p[1], p[2])

QueueInv(s) ==
  /\ \A i \in Left(s) : /\ Due(s, buffer[s][i])
                        /\ \A j \in Left(s) : buffer[s][i] = buffer[s][j] => i = j
  /\ \A at \in Cursors(s) : at <= Len(buffer[s]) + 1

TallyInv(s) ==
  /\ \A e \in offered[s] : Due(s, e) \/ Given(s, e)
  /\ ~Stopped(s) => QueueInv(s)
  /\ Stopped(s) => s \in cut
  /\ s \notin cut /\ s \in Repeating /\ options[s].on_backpressure = "buffer"
       => Cardinality(Lost(s)) <= dropped[s]

DeliveryInv == StackInv /\ OfferInv /\ \A s \in Subs : TallyInv(s)
LEMMA TimesAppend ==
  ASSUME NEW S, NEW q \in Seq(S), NEW x \in S, NEW y
  PROVE  /\ Times(q, y) \in Nat
         /\ Times(Append(q, x), y) = Times(q, y) + (IF x = y THEN 1 ELSE 0)
         /\ y \notin Range(q) => Times(q, y) = 0
<1> DEFINE at == {i \in DOMAIN q : q[i] = y}
           at2 == {i \in DOMAIN Append(q, x) : Append(q, x)[i] = y}
<1>1. /\ DOMAIN Append(q, x) = DOMAIN q \cup {Len(q) + 1}
      /\ \A i \in DOMAIN q : Append(q, x)[i] = q[i]
      /\ Append(q, x)[Len(q) + 1] = x
      /\ DOMAIN q = 1..Len(q) /\ Len(q) \in Nat
  BY RangeAppend
<1>2. IsFiniteSet(at)
  <2>1. IsFiniteSet(1..Len(q)) /\ at \subseteq 1..Len(q)
    BY <1>1, FS_Interval
  <2> QED
    BY <2>1, FS_Subset
<1>3. at2 = IF x = y THEN at \cup {Len(q) + 1} ELSE at
  BY <1>1
<1>4. Len(q) + 1 \notin at
  BY <1>1
<1>5. y \notin Range(q) => at = {}
  BY DEF Range
<1>6. Times(q, y) = Cardinality(at) /\ Times(Append(q, x), y) = Cardinality(at2)
  BY DEF Times
<1> HIDE DEF at, at2
<1>7. Cardinality(at) \in Nat /\ Cardinality(at \cup {Len(q) + 1}) = Cardinality(at) + 1
  BY <1>2, <1>4, FS_CardinalityType, FS_AddElement
<1>8. y \notin Range(q) => Cardinality(at) = 0
  BY <1>5, FS_EmptySet
<1>9. CASE x = y
  BY <1>3, <1>6, <1>7, <1>8, <1>9
<1>10. CASE x # y
  BY <1>3, <1>6, <1>7, <1>8, <1>10
<1> QED
  BY <1>9, <1>10

\* An event is due or given, not both; one that was not offered is due.
LEMMA Tallies ==
  ASSUME TypeOK, NEW s \in Subs, NEW e
  PROVE  /\ Times(handed[s], e) \in Nat /\ Times(failed[s], e) \in Nat /\ Returned(s, e) \in Nat
         /\ ~(Due(s, e) /\ Given(s, e))
         /\ OfferInv /\ e \notin offered[s] => Due(s, e) /\ ~Given(s, e)
<1>1. handed[s] \in Seq(Events) /\ failed[s] \in Seq(Events)
  BY DEF TypeOK
<1>2. /\ Times(handed[s], e) \in Nat /\ Times(failed[s], e) \in Nat
      /\ e \notin Range(handed[s]) => Times(handed[s], e) = 0
      /\ e \notin Range(failed[s]) => Times(failed[s], e) = 0
  <2>1. ASSUME NEW q \in Seq(Events)
        PROVE  Times(q, e) \in Nat /\ (e \notin Range(q) => Times(q, e) = 0)
    <3>1. CASE q = <<>>
      <4>1. {i \in DOMAIN q : q[i] = e} = {}
        BY <3>1
      <4> QED
        BY <4>1, FS_EmptySet DEF Times
    <3>2. CASE q # <<>>
      <4>1. q[1] \in Events
        BY <3>2
      <4> QED
        BY <4>1, TimesAppend
    <3> QED
      BY <3>1, <3>2
  <2> QED
    BY <1>1, <2>1
<1>3. OfferInv /\ e \notin offered[s] => e \notin Range(handed[s]) /\ e \notin Range(failed[s])
  BY DEF OfferInv
<1> QED
  BY <1>2, <1>3 DEF Due, Given, Returned

LEMMA ApartPush ==
  ASSUME NEW F, NEW frames \in Seq(F), NEW f \in F, NEW subs
  PROVE  AllApart(<<f>> \o frames, subs)
           <=> AllApart(frames, subs) /\ \A g \in Range(frames) : Apart(f, g, subs)
<1> DEFINE longer == <<f>> \o frames
<1>1. /\ longer[1] = f /\ DOMAIN longer = 1..(Len(frames) + 1)
      /\ \A i \in DOMAIN frames : longer[i + 1] = frames[i]
      /\ DOMAIN frames = 1..Len(frames) /\ Len(frames) \in Nat
  BY PushProperties
<1>2. \A i \in DOMAIN frames : i + 1 \in DOMAIN longer /\ i + 1 # 1
  BY <1>1
<1>3. \A i \in DOMAIN longer : i # 1 => i - 1 \in DOMAIN frames /\ longer[i] = frames[i - 1]
  BY <1>1
<1> HIDE DEF longer
<1>4. ASSUME AllApart(longer, subs)
      PROVE  AllApart(frames, subs) /\ \A g \in Range(frames) : Apart(f, g, subs)
  <2>1. ASSUME NEW i \in DOMAIN frames, NEW j \in DOMAIN frames, i # j
        PROVE  Apart(frames[i], frames[j], subs)
    <3>1. i + 1 # j + 1 /\ Apart(longer[i + 1], longer[j + 1], subs)
      BY <1>1, <1>2, <1>4, <2>1 DEF AllApart
    <3> QED
      BY <1>1, <3>1
  <2>2. ASSUME NEW g \in Range(frames) PROVE Apart(f, g, subs)
    <3>1. PICK i \in DOMAIN frames : g = frames[i]
      BY DEF Range
    <3>2. Apart(longer[1], longer[i + 1], subs)
      BY <1>1, <1>2, <1>4 DEF AllApart
    <3> QED
      BY <1>1, <3>1, <3>2
  <2> QED
    BY <2>1, <2>2 DEF AllApart
<1>5. ASSUME AllApart(frames, subs), \A g \in Range(frames) : Apart(f, g, subs)
      PROVE  AllApart(longer, subs)
  <2> SUFFICES ASSUME NEW i \in DOMAIN longer, NEW j \in DOMAIN longer, i # j
               PROVE  Apart(longer[i], longer[j], subs)
    BY DEF AllApart
  <2>1. CASE i = 1
    <3>1. longer[j] \in Range(frames)
      BY <1>3, <2>1 DEF Range
    <3> QED
      BY <1>1, <1>5, <2>1, <3>1
  <2>2. CASE j = 1
    <3>1. longer[i] \in Range(frames)
      BY <1>3, <2>2 DEF Range
    <3>2. Apart(f, longer[i], subs)
      BY <1>5, <3>1
    <3> QED
      BY <1>1, <2>2, <3>2 DEF Apart
  <2>3. CASE i # 1 /\ j # 1
    <3>1. /\ i - 1 \in DOMAIN frames /\ j - 1 \in DOMAIN frames /\ i - 1 # j - 1
          /\ longer[i] = frames[i - 1] /\ longer[j] = frames[j - 1]
      BY <1>1, <1>3, <2>3
    <3> QED
      BY <1>5, <3>1 DEF AllApart
  <2> QED
    BY <2>1, <2>2, <2>3
<1> QED
  BY <1>4, <1>5 DEF longer

\* The frames below, and those after one more step of a loop.
LEMMA FramesBelow ==
  ASSUME TypeOK, StackInv, stack # <<>>
  PROVE  /\ Top \in Fit /\ Tail(stack) \in Seq(Frames) /\ Range(Tail(stack)) \subseteq Fit
         /\ AllApart(Tail(stack), Repeating)
         /\ \A g \in Range(Tail(stack)) : Apart(Top, g, Repeating)
<1>1. Top \in Frames /\ Tail(stack) \in Seq(Frames) /\ stack = <<Top>> \o Tail(stack)
  BY Unpushed DEF TypeOK, Top
<1> DEFINE rest == Tail(stack)
<1> HIDE DEF rest
<1>2. rest \in Seq(Frames) /\ stack = <<Top>> \o rest
  BY <1>1 DEF rest
<1>3. Range(stack) = Range(rest) \cup {Top}
  BY <1>1, <1>2, PushProperties
<1>4. AllApart(<<Top>> \o rest, Repeating)
  BY <1>2 DEF StackInv
<1>5. AllApart(rest, Repeating) /\ \A g \in Range(rest) : Apart(Top, g, Repeating)
  BY <1>1, <1>2, <1>4, ApartPush
<1> QED
  BY <1>1, <1>3, <1>5 DEF StackInv, rest

LEMMA FramesAdvanced ==
  ASSUME TypeOK, StackInv, Running("emit") \/ Running("flush")
  PROVE  /\ Advanced \in Seq(Frames) /\ AllApart(Advanced, Repeating)
         /\ \A g \in Range(Advanced) :
              \/ g \in Range(Tail(stack))
              \/ /\ g \in Frames /\ g.kind = Top.kind /\ g.event = Top.event
                 /\ g.sub = Top.sub /\ g.at = Top.at + 1
<1> DEFINE f == [Top EXCEPT !.at = @ + 1]
<1>1. stack # <<>> /\ Top.kind \in {"emit", "flush"}
  BY DEF Running
<1>2. /\ Top \in Frames /\ Tail(stack) \in Seq(Frames) /\ AllApart(Tail(stack), Repeating)
      /\ \A g \in Range(Tail(stack)) : Apart(Top, g, Repeating)
  BY <1>1, FramesBelow DEF Fit
<1>3. /\ f \in Frames /\ f.kind = Top.kind /\ f.event = Top.event /\ f.sub = Top.sub
      /\ f.at = Top.at + 1
  BY <1>1, <1>2 DEF Frames
<1> DEFINE rest == Tail(stack)
<1>4. Advanced = <<f>> \o rest /\ rest \in Seq(Frames)
  BY <1>2 DEF Advanced
<1>5. \A g \in Range(rest) : Apart(f, g, Repeating)
  BY <1>2, <1>3 DEF Apart
<1>6. AllApart(rest, Repeating)
  BY <1>2
<1> HIDE DEF f, rest
<1>7. Range(<<f>> \o rest) = Range(rest) \cup {f} /\ <<f>> \o rest \in Seq(Frames)
  BY <1>3, <1>4, PushProperties
<1>8. AllApart(<<f>> \o rest, Repeating)
  BY <1>3, <1>4, <1>5, <1>6, ApartPush
<1> QED
  BY <1>3, <1>4, <1>7, <1>8 DEF rest

\* Deliveries change what is due of this event only, and only if it is handed over.
LEMMA Handing ==
  ASSUME TypeOK, NEW s \in Subs, NEW e \in Events, NEW frames \in Seq(Frames),
         Deliver(s, e, frames)
  PROVE  /\ UNCHANGED <<order, options, paused, sequence, pending, failed, cut>>
         /\ offered' = [offered EXCEPT ![s] = @ \cup {e}]
         /\ Repeating' = Repeating
         /\ s \notin paused => /\ stack' = <<CallbackFrame(s, e)>> \o frames
                               /\ UNCHANGED <<buffer, dropped>>
                               /\ Range(handed'[s]) = Range(handed[s]) \cup {e}
         /\ s \in paused => stack' = frames /\ handed' = handed
         /\ \A x \in Subs : x # s => UNCHANGED <<handed[x], buffer[x], dropped[x], offered[x]>>
         /\ \A x \in Subs : \A y :
              s \in paused \/ x # s \/ y # e
              => (Due(x, y)' <=> Due(x, y)) /\ (Given(x, y)' <=> Given(x, y))
         /\ s \notin paused /\ Due(s, e) => Given(s, e)'
<1>1. /\ UNCHANGED <<order, options, paused, sequence, pending, failed, cut>>
      /\ offered' = [offered EXCEPT ![s] = @ \cup {e}]
  BY DEF Deliver, log_
<1>2. Repeating' = Repeating /\ \A x, y : Returned(x, y)' = Returned(x, y)
  BY <1>1 DEF Repeating, Returned, Times
<1>3. CASE s \notin paused
  <2>1. /\ handed' = [handed EXCEPT ![s] = Append(@, e)]
        /\ stack' = <<CallbackFrame(s, e)>> \o frames
        /\ UNCHANGED <<buffer, dropped>>
    BY <1>3 DEF Deliver, Withhold
  <2>2. handed'[s] = Append(handed[s], e) /\ \A x \in Subs : x # s => handed'[x] = handed[x]
    BY <2>1 DEF TypeOK
  <2>3. handed[s] \in Seq(Events)
    BY DEF TypeOK
  <2>4. Range(handed'[s]) = Range(handed[s]) \cup {e}
    BY <2>2, <2>3, RangeAppend
  <2>5. \A y : Times(handed'[s], y) = Times(handed[s], y) + (IF e = y THEN 1 ELSE 0)
    BY <2>2, <2>3, TimesAppend
  <2>6. ASSUME NEW x \in Subs, NEW y, x # s \/ y # e
        PROVE  Times(handed'[x], y) = Times(handed[x], y)
    <3>1. CASE x # s
      BY <2>2, <3>1
    <3>2. CASE x = s
      <4>1. Times(handed[s], y) \in Nat
        BY Tallies
      <4> QED
        BY <2>5, <2>6, <3>2, <4>1
    <3> QED
      BY <3>1, <3>2
  <2>7. ASSUME NEW x \in Subs, NEW y, x # s \/ y # e
        PROVE  (Due(x, y)' <=> Due(x, y)) /\ (Given(x, y)' <=> Given(x, y))
    BY <1>2, <2>6, <2>7 DEF Due, Given
  <2>8. Due(s, e) => Given(s, e)'
    BY <1>2, <2>5 DEF Due, Given
  <2>9. \A x \in Subs : x # s => UNCHANGED <<handed[x], buffer[x], dropped[x], offered[x]>>
    BY <1>1, <2>1, <2>2 DEF TypeOK
  <2> QED
    BY <1>1, <1>2, <1>3, <2>1, <2>4, <2>7, <2>8, <2>9
<1>4. CASE s \in paused
  <2>1. /\ handed' = handed /\ stack' = frames
        /\ buffer' = buffer \/ buffer' = [buffer EXCEPT ![s] = Hold(s, e)]
        /\ \/ dropped' = dropped \/ dropped' = [dropped EXCEPT ![s] = @ + 1]
           \/ dropped' = [dropped EXCEPT ![s] = IF Full(s) THEN @ + 1 ELSE @]
    BY <1>4 DEF Deliver, Withhold
  <2>2. \A x \in Subs : x # s => UNCHANGED <<handed[x], buffer[x], dropped[x], offered[x]>>
    BY <1>1, <2>1 DEF TypeOK
  <2>3. \A x, y : (Due(x, y)' <=> Due(x, y)) /\ (Given(x, y)' <=> Given(x, y))
    BY <1>2, <2>1 DEF Due, Given
  <2> QED
    BY <1>1, <1>2, <1>4, <2>1, <2>2, <2>3
<1> QED
  BY <1>3, <1>4

\* The stack after a delivery, with the callback's frame on it or not.
LEMMA StackDelivered ==
  ASSUME TypeOK, TypeOK', NEW s \in Subs, NEW e \in Events, NEW frames \in Seq(Frames),
         Deliver(s, e, frames), OfferInv,
         AllApart(frames, Repeating),
         \A g \in Range(frames) :
           /\ g.kind = "emit" =>
                \A k \in DOMAIN order :
                  k >= g.at => g.event \notin offered[order[k]] /\ (order[k] = s => g.event # e)
           /\ g.kind = "callback" /\ g.sub \in Repeating =>
                /\ Given(g.sub, g.event) /\ <<g.sub, g.event>> \notin pending,
         s \notin paused => Due(s, e)
  PROVE  StackInv'
<1>1. /\ UNCHANGED <<order, options, paused, sequence, pending, failed, cut>>
      /\ offered' = [offered EXCEPT ![s] = @ \cup {e}]
      /\ Repeating' = Repeating
      /\ s \notin paused => stack' = <<CallbackFrame(s, e)>> \o frames
      /\ s \in paused => stack' = frames
      /\ \A x \in Subs : \A y :
           s \in paused \/ x # s \/ y # e
           => (Due(x, y)' <=> Due(x, y)) /\ (Given(x, y)' <=> Given(x, y))
      /\ s \notin paused /\ Due(s, e) => Given(s, e)'
  BY Handing
<1>2. Frames' = Frames
  BY <1>1 DEF Frames, Events
<1>3. \A k \in DOMAIN order : order[k] \in Subs
  <2>1. order \in Seq(Subs)
    BY DEF TypeOK
  <2> QED
    BY ONLY <2>1
<1>4. \A x \in Subs : offered'[x] = IF x = s THEN offered[x] \cup {e} ELSE offered[x]
  BY <1>1 DEF TypeOK
<1>5. ASSUME NEW g \in Range(frames) PROVE g \in Fit'
  <2>1. g \in Frames
    BY DEF Range
  <2>2. ASSUME g.kind = "emit", NEW k \in DOMAIN order, k >= g.at
        PROVE  g.event \notin offered'[order[k]]
    BY <1>3, <1>4, <1>5, <2>2
  <2>3. ASSUME g.kind = "callback", g.sub \in Repeating
        PROVE  Given(g.sub, g.event)' /\ <<g.sub, g.event>> \notin pending'
    <3>1. g.sub \in Subs
      BY <2>3 DEF Repeating
    <3>2. Given(g.sub, g.event) /\ <<g.sub, g.event>> \notin pending
      BY <1>5, <2>3
    <3>3. s \in paused \/ g.sub # s \/ g.event # e
      BY <3>1, <3>2, Tallies
    <3> QED
      BY <1>1, <3>1, <3>2, <3>3
  <2> QED
    BY <1>1, <1>2, <2>1, <2>2, <2>3 DEF Fit
<1>6. CASE s \in paused
  BY <1>1, <1>5, <1>6 DEF StackInv
<1>7. CASE s \notin paused
  <2> DEFINE c == CallbackFrame(s, e)
  <2>1. /\ c \in Frames /\ c.kind = "callback" /\ c.sub = s /\ c.event = e
    BY DEF CallbackFrame, Frames
  <2>2. stack' = <<c>> \o frames
    BY <1>1, <1>7
  <2> HIDE DEF c
  <2>3. s \in Repeating => <<s, e>> \notin pending
    <3>1. ~Given(s, e)
      BY <1>7, Tallies
    <3> QED
      BY <3>1 DEF OfferInv
  <2>4. c \in Fit'
    <3>1. c \in Frames' /\ c.kind # "emit"
      BY <1>2, <2>1
    <3>2. Given(c.sub, c.event)'
      BY <1>1, <1>7, <2>1
    <3> QED
      BY <1>1, <2>1, <2>3, <3>1, <3>2 DEF Fit
  <2>5. ASSUME NEW g \in Range(frames) PROVE Apart(c, g, Repeating)
    <3>1. ~(g.kind = "callback" /\ g.sub = s /\ s \in Repeating /\ g.event = e)
      BY <1>7, Tallies
    <3> QED
      BY <2>1, <3>1 DEF Apart
  <2>6. AllApart(<<c>> \o frames, Repeating)
    BY <2>1, <2>5, ApartPush
  <2>7. Range(<<c>> \o frames) = Range(frames) \cup {c}
    BY <2>1, PushProperties
  <2> QED
    BY <1>1, <1>5, <2>2, <2>4, <2>6, <2>7 DEF StackInv
<1> QED
  BY <1>6, <1>7

LEMMA CursorsDelivered ==
  ASSUME TypeOK, NEW s \in Subs, NEW e \in Events, NEW frames \in Seq(Frames),
         Deliver(s, e, frames)
  PROVE  \A x : Cursors(x)' = CursorsOf(frames, x)
<1> DEFINE c == CallbackFrame(s, e)
<1>1. c \in Frames /\ c.kind = "callback"
  BY DEF CallbackFrame, Frames
<1>2. stack' = frames \/ stack' = <<c>> \o frames
  BY Handing
<1> HIDE DEF c
<1>3. ASSUME NEW x PROVE CursorsOf(<<c>> \o frames, x) = CursorsOf(frames, x)
  <2>1. CursorsOf(<<c>> \o frames, x)
          = CursorsOf(frames, x) \cup (IF c.kind = "flush" /\ c.sub = x THEN {c.at} ELSE {})
    <3>1. c \in Frames
      BY <1>1
    <3> QED
      BY <3>1, CursorsPush
  <2> QED
    BY <1>1, <2>1
<1> QED
  BY <1>2, <1>3 DEF Cursors

\* Nothing that is counted of this subscription has moved.
LEMMA TallyKept ==
  ASSUME NEW s \in Subs, TallyInv(s), UNCHANGED <<buffer[s], offered[s], dropped[s], options[s]>>,
         \A e : (Due(s, e)' <=> Due(s, e)) /\ (Given(s, e)' <=> Given(s, e)),
         Cursors(s)' = Cursors(s), s \in paused' <=> s \in paused, cut \subseteq cut'
  PROVE  TallyInv(s)'
<1>1. Left(s)' = Left(s) /\ (s \in Repeating' <=> s \in Repeating) /\ (Stopped(s)' <=> Stopped(s))
  BY DEF Left, Repeating, Stopped
<1>2. Lost(s)' = Lost(s)
  BY <1>1 DEF Lost
<1>3. QueueInv(s)' <=> QueueInv(s)
  BY <1>1 DEF QueueInv
<1> QED
  BY <1>1, <1>2, <1>3 DEF TallyInv

LEMMA LostFinite ==
  ASSUME TypeOK, NEW s \in Subs
  PROVE  /\ IsFiniteSet(Lost(s)) /\ Cardinality(Lost(s)) \in Nat
         /\ \A S : S \subseteq Lost(s) => Cardinality(S) <= Cardinality(Lost(s))
<1>1. Lost(s) \subseteq 1..sequence /\ sequence \in Nat
  BY DEF Lost, TypeOK, Events
<1>2. IsFiniteSet(Lost(s))
  <2>1. IsFiniteSet(1..sequence) /\ Lost(s) \in SUBSET (1..sequence)
    BY <1>1, FS_Interval
  <2> QED
    BY <2>1, FS_Subset
<1> QED
  BY <1>2, FS_CardinalityType, FS_Subset

\* What is offered is offered once; what the buffers hold was offered.
LEMMA OfferDelivered ==
  ASSUME TypeOK, TypeOK', OfferInv, NEW s \in Subs, NEW e \in Events,
         NEW frames \in Seq(Frames), Deliver(s, e, frames),
         s \in Range(order), s \notin paused => Due(s, e)
  PROVE  OfferInv'
<1>1. /\ UNCHANGED <<order, options, paused, sequence, pending, failed, cut>>
      /\ offered' = [offered EXCEPT ![s] = @ \cup {e}]
      /\ Repeating' = Repeating
      /\ s \notin paused => UNCHANGED buffer /\ Range(handed'[s]) = Range(handed[s]) \cup {e}
      /\ s \in paused => handed' = handed
      /\ \A x \in Subs : x # s => UNCHANGED <<handed[x], buffer[x], offered[x]>>
      /\ \A x \in Subs : \A y :
           s \in paused \/ x # s \/ y # e
           => (Due(x, y)' <=> Due(x, y)) /\ (Given(x, y)' <=> Given(x, y))
  BY Handing
<1>2. offered'[s] = offered[s] \cup {e}
  BY <1>1 DEF TypeOK
<1>3. Range(buffer'[s]) \subseteq Range(buffer[s]) \cup {e}
  <2>1. CASE buffer'[s] = buffer[s]
    BY <2>1
  <2>2. CASE buffer'[s] = Hold(s, e)
    <3> DEFINE q == IF Full(s) THEN Tail(buffer[s]) ELSE buffer[s]
    <3>1. buffer[s] \in Seq(Events) /\ options[s].buffer_size \in Nat \ {0}
      BY DEF TypeOK, AnyOptions
    <3>2. Full(s) => buffer[s] # <<>>
      BY <3>1 DEF Full
    <3>3. q \in Seq(Events) /\ Range(q) \subseteq Range(buffer[s])
      <4>1. CASE ~Full(s)
        BY <3>1, <4>1
      <4>2. CASE Full(s)
        <5> DEFINE t == Tail(buffer[s])
        <5>1. t \in Seq(Events) /\ \A i \in DOMAIN t : i + 1 \in DOMAIN buffer[s] /\ t[i] = buffer[s][i + 1]
          BY <3>1, <3>2, <4>2, HeadTailProperties
        <5> HIDE DEF t
        <5>2. Range(t) \subseteq Range(buffer[s])
          BY <5>1 DEF Range
        <5> QED
          BY <4>2, <5>1, <5>2 DEF t
      <4> QED
        BY <4>1, <4>2
    <3>4. buffer'[s] = Append(q, e)
      BY <2>2 DEF Hold
    <3> HIDE DEF q
    <3>5. Range(buffer'[s]) = Range(q) \cup {e}
      BY <3>3, <3>4, RangeAppend
    <3> QED
      BY <3>3, <3>5
  <2>3. buffer'[s] = buffer[s] \/ buffer'[s] = Hold(s, e)
    <3>1. buffer' = buffer \/ buffer' = [buffer EXCEPT ![s] = Hold(s, e)]
      BY DEF Deliver, Withhold
    <3> QED
      BY <3>1 DEF TypeOK
  <2> QED
    BY <2>1, <2>2, <2>3
<1>4. ASSUME NEW x \in Subs
      PROVE  /\ x \notin Range(order') => offered'[x] = {}
             /\ Range(handed'[x]) \cup Range(failed'[x]) \cup Range(buffer'[x]) \subseteq offered'[x]
  <2>1. /\ x \notin Range(order) => offered[x] = {}
        /\ Range(handed[x]) \cup Range(failed[x]) \cup Range(buffer[x]) \subseteq offered[x]
    BY DEF OfferInv
  <2>2. CASE x # s
    BY <1>1, <2>1, <2>2
  <2>3. CASE x = s
    <3>1. Range(handed'[s]) \subseteq Range(handed[s]) \cup {e}
      BY <1>1
    <3> QED
      BY <1>1, <1>2, <1>3, <2>1, <2>3, <3>1
  <2> QED
    BY <2>2, <2>3
<1>5. ASSUME NEW p \in pending', p[1] \in Repeating' PROVE Given(p[1], p[2])'
  <2>1. p[1] \in Subs /\ Given(p[1], p[2])
    BY <1>1, <1>5 DEF OfferInv, TypeOK
  <2>2. s \in paused \/ p[1] # s \/ p[2] # e
    BY <2>1, Tallies
  <2> QED
    BY <1>1, <2>1, <2>2
<1>6. \A i, j \in DOMAIN order' : order'[i] = order'[j] => i = j
  BY <1>1 DEF OfferInv
<1> QED
  BY <1>4, <1>5, <1>6 DEF OfferInv

\* What is held is due, and once in the buffer; what is shifted out is counted.
LEMMA HoldTally ==
  ASSUME TypeOK, TypeOK', OfferInv, NEW s \in Subs, NEW e \in Events,
         NEW frames \in Seq(Frames), Deliver(s, e, frames),
         s \in paused, TallyInv(s), e \notin offered[s],
         Cursors(s)' = Cursors(s)
  PROVE  TallyInv(s)'
<1>1. /\ UNCHANGED <<options, paused, cut>>
      /\ offered' = [offered EXCEPT ![s] = @ \cup {e}]
      /\ \A y : (Due(s, y)' <=> Due(s, y)) /\ (Given(s, y)' <=> Given(s, y))
      /\ Repeating' = Repeating
  BY Handing
<1>2. Due(s, e) /\ offered'[s] = offered[s] \cup {e}
  BY <1>1, Tallies DEF TypeOK
<1>3. \A y \in offered'[s] : Due(s, y)' \/ Given(s, y)'
  BY <1>1, <1>2 DEF TallyInv
<1>4. Stopped(s)' <=> Stopped(s)
  BY <1>1 DEF Stopped
<1>5. CASE Stopped(s)
  BY <1>1, <1>3, <1>4, <1>5 DEF TallyInv
<1>6. CASE ~Stopped(s)
  <2>1. Cursors(s) = {} /\ Left(s) = DOMAIN buffer[s] /\ Left(s)' = DOMAIN buffer'[s]
    BY <1>6 DEF Stopped, Left
  <2>2. QueueInv(s)
    BY <1>6 DEF TallyInv
  <2>3. CASE options[s].on_backpressure # "buffer"
    <3>1. buffer'[s] = buffer[s]
      BY <2>3 DEF Deliver, Withhold
    <3>2. QueueInv(s)'
      BY <1>1, <2>1, <2>2, <3>1 DEF QueueInv
    <3> QED
      BY <1>1, <1>3, <1>4, <1>6, <2>3, <3>2 DEF TallyInv
  <2>4. CASE options[s].on_backpressure = "buffer"
    <3> DEFINE b == buffer[s]
               q == IF Full(s) THEN Tail(buffer[s]) ELSE buffer[s]
    <3>1. b \in Seq(Events) /\ options[s].buffer_size \in Nat \ {0}
      BY DEF TypeOK, AnyOptions
    <3>2. /\ buffer'[s] = Append(q, e)
          /\ dropped'[s] = IF Full(s) THEN dropped[s] + 1 ELSE dropped[s]
      BY <2>4 DEF Deliver, Withhold, Hold, TypeOK
    <3>3. Full(s) => b # <<>>
      BY <3>1 DEF Full
    <3>4. PICK d \in Nat :
            /\ q \in Seq(Events) /\ d = (IF Full(s) THEN 1 ELSE 0)
            /\ \A i \in DOMAIN q : i + d \in DOMAIN b /\ q[i] = b[i + d]
            /\ \A i \in DOMAIN b : i - d \in DOMAIN q \/ (Full(s) /\ b[i] = b[1])
            /\ DOMAIN b \subseteq Nat /\ DOMAIN q \subseteq Nat
      <4>1. CASE ~Full(s)
        BY <3>1, <4>1
      <4>2. CASE Full(s)
        <5>1. /\ Tail(b) \in Seq(Events) /\ Len(Tail(b)) = Len(b) - 1 /\ Len(b) \in Nat
              /\ DOMAIN Tail(b) = 1..(Len(b) - 1) /\ DOMAIN b = 1..Len(b)
              /\ \A i \in 1..(Len(b) - 1) : Tail(b)[i] = b[i + 1]
          BY <3>1, <3>3, <4>2, HeadTailProperties
        <5>2. \A i \in DOMAIN b : i - 1 \in DOMAIN Tail(b) \/ i = 1
          BY <5>1
        <5>3. \A i \in DOMAIN Tail(b) : i + 1 \in DOMAIN b
          BY <5>1
        <5>4. q = Tail(b)
          BY <4>2
        <5> HIDE DEF b, q
        <5> QED
          BY <4>2, <5>1, <5>2, <5>3, <5>4
      <4> QED
        BY <4>1, <4>2
    <3>5. /\ DOMAIN buffer'[s] = DOMAIN q \cup {Len(q) + 1} /\ Len(q) \in Nat
          /\ \A i \in DOMAIN q : buffer'[s][i] = q[i]
          /\ buffer'[s][Len(q) + 1] = e
      BY <3>2, <3>4, RangeAppend
    <3>6. \A i \in DOMAIN b : b[i] # e
      BY <1>2 DEF OfferInv, Range
    <3>7. QueueInv(s)'
      <4>1. ASSUME NEW i \in DOMAIN buffer'[s], NEW y, y = buffer'[s][i] PROVE Due(s, y)'
        <5>1. CASE i \in DOMAIN q
          <6>1. i + d \in Left(s) /\ buffer'[s][i] = b[i + d]
            BY <2>1, <3>4, <3>5, <5>1
          <6> QED
            BY <1>1, <2>2, <4>1, <6>1 DEF QueueInv
        <5>2. CASE i = Len(q) + 1
          BY <1>1, <1>2, <3>5, <4>1, <5>2
        <5> QED
          BY <3>5, <5>1, <5>2
      <4>2. ASSUME NEW i \in DOMAIN buffer'[s], NEW j \in DOMAIN buffer'[s],
                   buffer'[s][i] = buffer'[s][j]
            PROVE  i = j
        <5>1. CASE i \in DOMAIN q /\ j \in DOMAIN q
          <6>1. b[i + d] = b[j + d] /\ i + d \in Left(s) /\ j + d \in Left(s)
            BY <2>1, <3>4, <3>5, <4>2, <5>1
          <6>2. i + d = j + d
            BY <2>2, <6>1 DEF QueueInv
          <6>3. i \in Nat /\ j \in Nat
            BY <3>4, <5>1
          <6> QED
            BY <3>4, <6>2, <6>3
        <5>2. CASE i \in DOMAIN q /\ j = Len(q) + 1
          BY <3>4, <3>5, <3>6, <4>2, <5>2
        <5>3. CASE i = Len(q) + 1 /\ j \in DOMAIN q
          BY <3>4, <3>5, <3>6, <4>2, <5>3
        <5> QED
          BY <3>5, <5>1, <5>2, <5>3
      <4> QED
        BY <2>1, <4>1, <4>2 DEF QueueInv
    <3>8. ASSUME s \notin cut, s \in Repeating
          PROVE  Cardinality(Lost(s)') <= dropped'[s]
      <4>1. Cardinality(Lost(s)) <= dropped[s] /\ dropped[s] \in Nat
        BY <2>4, <3>8 DEF TallyInv, TypeOK
      <4>2. Lost(s)' \subseteq Lost(s) \cup (IF Full(s) THEN {b[1]} ELSE {})
        <5> SUFFICES ASSUME NEW x \in Lost(s)', x \notin Lost(s) PROVE Full(s) /\ x = b[1]
          OBVIOUS
        <5>1. x \in offered[s] \cup {e} /\ Due(s, x) /\ \A i \in DOMAIN buffer'[s] : buffer'[s][i] # x
          BY <1>1, <1>2, <2>1 DEF Lost
        <5>2. x # e
          BY <3>5, <5>1
        <5>3. PICK i \in DOMAIN b : b[i] = x
          BY <2>1, <5>1, <5>2 DEF Lost
        <5>4. ~(i - d \in DOMAIN q)
          <6> SUFFICES ASSUME i - d \in DOMAIN q PROVE FALSE
            OBVIOUS
          <6>1. q[i - d] = b[(i - d) + d] /\ (i - d) + d = i
            BY <3>4
          <6> QED
            BY <3>5, <5>1, <5>3, <6>1
        <5> QED
          BY <3>4, <5>3, <5>4
      <4>3. CASE ~Full(s)
        <5>1. Lost(s)' \subseteq Lost(s) /\ dropped'[s] = dropped[s]
          BY <3>2, <4>2, <4>3
        <5>2. Cardinality(Lost(s)') <= Cardinality(Lost(s)) /\ Cardinality(Lost(s)) \in Nat
          BY <5>1, LostFinite
        <5>3. Cardinality(Lost(s)') \in Nat
          BY <5>1, LostFinite, FS_Subset, FS_CardinalityType
        <5> QED
          BY <4>1, <5>1, <5>2, <5>3
      <4>4. CASE Full(s)
        <5>1. IsFiniteSet(Lost(s)) /\ Cardinality(Lost(s)) \in Nat
          BY LostFinite
        <5>2. /\ IsFiniteSet(Lost(s) \cup {b[1]})
              /\ Cardinality(Lost(s) \cup {b[1]}) <= Cardinality(Lost(s)) + 1
          <6>1. IsFiniteSet(Lost(s) \cup {b[1]})
            BY <5>1, FS_AddElement
          <6>2. CASE b[1] \in Lost(s)
            <7>1. Lost(s) \cup {b[1]} = Lost(s)
              BY <6>2
            <7>2. Cardinality(Lost(s)) <= Cardinality(Lost(s)) + 1
              BY <5>1
            <7> QED
              BY <6>1, <7>1, <7>2
          <6>3. CASE b[1] \notin Lost(s)
            BY <5>1, <6>1, <6>3, FS_AddElement
          <6> QED
            BY <6>2, <6>3
        <5>3. Lost(s)' \subseteq Lost(s) \cup {b[1]}
          BY <4>2, <4>4
        <5>4. Cardinality(Lost(s)') <= Cardinality(Lost(s) \cup {b[1]})
          BY <5>2, <5>3, FS_Subset
        <5>5. Cardinality(Lost(s)') \in Nat /\ Cardinality(Lost(s) \cup {b[1]}) \in Nat
          BY <5>2, <5>3, FS_Subset, FS_CardinalityType
        <5>6. dropped'[s] = dropped[s] + 1
          BY <3>2, <4>4
        <5> HIDE DEF b
        <5> QED
          BY <4>1, <5>1, <5>2, <5>4, <5>5, <5>6
      <4> QED
        BY <4>3, <4>4
    <3> QED
      BY <1>1, <1>3, <1>4, <1>6, <3>7, <3>8 DEF TallyInv
  <2> QED
    BY <2>3, <2>4
<1> QED
  BY <1>5, <1>6

LEMMA EmitStepTally ==
  ASSUME TypeOK, TypeOK', ShapeInv, DeliveryInv, EmitStep
  PROVE  DeliveryInv'
<1> USE DEF DeliveryInv
<1>1. /\ Running("emit") /\ stack # <<>> /\ Top \in Frames /\ Top.kind = "emit"
      /\ Top.at \in Nat /\ Top.at <= Len(order)
  BY TopType DEF EmitStep, Running, Frames
<1>2. order \in Seq(Subs) /\ Top.at \in DOMAIN order
  BY <1>1 DEF TypeOK, Frames
<1>3. PICK s \in Subs, e \in Events :
        Deliver(s, e, Advanced) /\ e = Top.event /\ s = order[Top.at]
  BY <1>1, <1>2 DEF EmitStep, Frames
<1>4. /\ Top \in Fit /\ Range(Tail(stack)) \subseteq Fit
      /\ \A g \in Range(Tail(stack)) : Apart(Top, g, Repeating)
  BY <1>1, FramesBelow
<1>5. /\ Advanced \in Seq(Frames) /\ AllApart(Advanced, Repeating)
      /\ \A g \in Range(Advanced) :
           \/ g \in Range(Tail(stack))
           \/ g.kind = Top.kind /\ g.event = Top.event /\ g.at = Top.at + 1
  BY <1>1, FramesAdvanced
<1>6. e \notin offered[s] /\ Due(s, e)
  <2>1. e \notin offered[s]
    BY <1>1, <1>2, <1>3, <1>4 DEF Fit
  <2> QED
    BY <2>1, Tallies
<1>7. ASSUME NEW g \in Range(Advanced)
      PROVE  /\ g.kind = "emit" =>
                \A k \in DOMAIN order :
                  k >= g.at => g.event \notin offered[order[k]] /\ (order[k] = s => g.event # e)
             /\ g.kind = "callback" /\ g.sub \in Repeating =>
                  Given(g.sub, g.event) /\ <<g.sub, g.event>> \notin pending
  <2>1. CASE g \in Range(Tail(stack))
    <3>1. g \in Fit /\ Apart(Top, g, Repeating)
      BY <1>4, <2>1
    <3> QED
      BY <1>1, <1>3, <3>1 DEF Fit, Apart
  <2>2. CASE g.kind = Top.kind /\ g.event = Top.event /\ g.at = Top.at + 1
    <3> SUFFICES ASSUME NEW k \in DOMAIN order, k >= g.at
                 PROVE  g.event \notin offered[order[k]] /\ (order[k] = s => g.event # e)
      BY <1>1, <2>2
    <3>1. k >= Top.at /\ k # Top.at
      BY <1>1, <1>2, <2>2
    <3>2. order[k] # s
      BY <1>2, <1>3, <3>1 DEF OfferInv
    <3>3. Top.event \notin offered[order[k]]
      BY <1>1, <1>4, <3>1 DEF Fit
    <3> QED
      BY <2>2, <3>2, <3>3
  <2> QED
    BY <1>5, <2>1, <2>2
<1>8. StackInv'
  BY <1>3, <1>5, <1>6, <1>7, StackDelivered
<1>9. OfferInv'
  <2>1. s \in Range(order)
    BY <1>2, <1>3 DEF Range
  <2> QED
    BY <1>3, <1>5, <1>6, <2>1, OfferDelivered
<1>10. \A x : Cursors(x)' = Cursors(x)
  <2>1. /\ \A x : CursorsOf(Advanced, x) = CursorsOf(Tail(stack), x)
                     \cup (IF Top.kind = "flush" /\ Top.sub = x THEN {Top.at + 1} ELSE {})
        /\ \A x : Cursors(x) = CursorsOf(Tail(stack), x)
                     \cup (IF Top.kind = "flush" /\ Top.sub = x THEN {Top.at} ELSE {})
    BY <1>1, StackBelow, StackAdvanced
  <2>2. \A x : Cursors(x)' = CursorsOf(Advanced, x)
    BY <1>3, <1>5, CursorsDelivered
  <2> QED
    BY <1>1, <2>1, <2>2
<1>11. /\ UNCHANGED <<order, options, paused, cut>>
       /\ offered' = [offered EXCEPT ![s] = @ \cup {e}]
       /\ Repeating' = Repeating
       /\ s \notin paused => UNCHANGED <<buffer, dropped>>
       /\ \A x \in Subs : x # s => UNCHANGED <<handed[x], buffer[x], dropped[x], offered[x]>>
       /\ \A x \in Subs : \A y :
            s \in paused \/ x # s \/ y # e
            => (Due(x, y)' <=> Due(x, y)) /\ (Given(x, y)' <=> Given(x, y))
       /\ s \notin paused /\ Due(s, e) => Given(s, e)'
  BY <1>3, <1>5, Handing
<1>12. ASSUME NEW x \in Subs PROVE TallyInv(x)'
  <2>1. CASE x # s
    <3>1. /\ UNCHANGED <<buffer[x], dropped[x], offered[x], options>>
          /\ \A y : (Due(x, y)' <=> Due(x, y)) /\ (Given(x, y)' <=> Given(x, y))
          /\ Cursors(x)' = Cursors(x) /\ (x \in paused' <=> x \in paused) /\ cut \subseteq cut'
      BY <1>10, <1>11, <2>1
    <3> QED
      BY <3>1, TallyKept
  <2>2. CASE x = s /\ s \in paused
    BY <1>3, <1>5, <1>6, <1>10, <2>2, HoldTally
  <2>3. CASE x = s /\ s \notin paused
    <3>1. ~Stopped(s) /\ ~Stopped(s)' /\ Left(s)' = Left(s)
      BY <1>10, <1>11, <2>3 DEF Stopped, Left
    <3>2. \A i \in DOMAIN buffer[s] : buffer[s][i] # e
      BY <1>6 DEF OfferInv, Range
    <3>3. offered'[s] = offered[s] \cup {e}
      BY <1>11 DEF TypeOK
    <3>4. Given(s, e)' /\ ~Due(s, e)'
      <4>1. Given(s, e)'
        BY <1>6, <1>11, <2>3
      <4>2. Returned(s, e)' = Returned(s, e) /\ Returned(s, e) \in Nat
        <5>1. UNCHANGED <<failed, options>>
          BY <1>3, <1>5, Handing
        <5> QED
          BY <1>11, <5>1, Tallies DEF Returned, Times
      <4> QED
        BY <4>1, <4>2 DEF Given, Due
    <3>5. \A y : y # e => (Due(s, y)' <=> Due(s, y)) /\ (Given(s, y)' <=> Given(s, y))
      BY <1>11
    <3>6. Lost(s)' = Lost(s)
      BY <1>11, <2>3, <3>1, <3>3, <3>4, <3>5, <1>6 DEF Lost
    <3>7. QueueInv(s)'
      <4>1. QueueInv(s)
        BY <3>1 DEF TallyInv
      <4>2. \A i \in Left(s) : \A y : y = buffer[s][i] => Due(s, y)'
        BY <3>2, <3>5, <4>1 DEF QueueInv, Left
      <4> QED
        BY <1>10, <1>11, <2>3, <3>1, <4>1, <4>2 DEF QueueInv
    <3>8. \A y \in offered'[s] : Due(s, y)' \/ Given(s, y)'
      BY <3>3, <3>4, <3>5 DEF TallyInv
    <3> QED
      BY <1>11, <2>3, <3>1, <3>6, <3>7, <3>8 DEF TallyInv
  <2> QED
    BY <2>1, <2>2, <2>3
<1> QED
  BY <1>8, <1>9, <1>12

LEMMA FlushStepTally ==
  ASSUME TypeOK, TypeOK', ShapeInv, DeliveryInv, FlushStep
  PROVE  DeliveryInv'
<1> USE DEF DeliveryInv
<1>1. /\ Running("flush") /\ stack # <<>> /\ Top \in Frames /\ Top.kind = "flush"
      /\ Tail(stack) = <<>>
  BY TopType, FlushAlone DEF FlushStep, Running
<1>2. Top.sub \in Subs /\ Top.at \in Nat \ {0} /\ Top.at <= Len(buffer[Top.sub])
  BY <1>1 DEF FlushStep, Frames
<1>3. PICK s \in Subs, at \in Nat \ {0} : s = Top.sub /\ at = Top.at
  BY <1>2
<1>4. /\ buffer[s] \in Seq(Events) /\ DOMAIN buffer[s] = 1..Len(buffer[s])
      /\ Len(buffer[s]) \in Nat /\ at \in DOMAIN buffer[s]
  <2>1. buffer[s] \in Seq(Events)
    BY DEF TypeOK
  <2> QED
    BY <1>2, <1>3, <2>1
<1>5. PICK e \in Events : e = buffer[s][at] /\ Deliver(s, e, Advanced)
  BY <1>3, <1>4 DEF FlushStep
<1>6. Advanced \in Seq(Frames) /\ AllApart(Advanced, Repeating)
      /\ \A g \in Range(Advanced) : g.kind = "flush"
  <2>1. Range(Tail(stack)) = {}
    BY <1>1 DEF Range
  <2> QED
    BY <1>1, <2>1, FramesAdvanced
<1>7. e \in offered[s] /\ s \in Range(order)
  BY <1>4, <1>5 DEF OfferInv, Range
<1>8. \A x : /\ Cursors(x) = IF s = x THEN {at} ELSE {}
             /\ Cursors(x)' = IF s = x THEN {at + 1} ELSE {}
  <2>1. /\ \A x : CursorsOf(Advanced, x) = CursorsOf(Tail(stack), x)
                     \cup (IF Top.kind = "flush" /\ Top.sub = x THEN {Top.at + 1} ELSE {})
        /\ \A x : Cursors(x) = CursorsOf(Tail(stack), x)
                     \cup (IF Top.kind = "flush" /\ Top.sub = x THEN {Top.at} ELSE {})
        /\ \A x : CursorsOf(Tail(stack), x) = {}
    BY <1>1, StackBelow, StackAdvanced, NoCursors
  <2>2. \A x : Cursors(x)' = CursorsOf(Advanced, x)
    BY <1>5, <1>6, CursorsDelivered
  <2> QED
    BY <1>1, <1>3, <2>1, <2>2
<1>9. s \notin paused => QueueInv(s) /\ at \in Left(s) /\ Due(s, e)
  <2> SUFFICES ASSUME s \notin paused PROVE QueueInv(s) /\ at \in Left(s) /\ Due(s, e)
    OBVIOUS
  <2>1. QueueInv(s)
    BY DEF TallyInv, Stopped
  <2>2. at \in Left(s)
    BY <1>4, <1>8 DEF Left
  <2> QED
    BY <1>5, <2>1, <2>2 DEF QueueInv
<1>10. StackInv'
  BY <1>5, <1>6, <1>9, StackDelivered
<1>11. OfferInv'
  BY <1>5, <1>6, <1>7, <1>9, OfferDelivered
<1>12. /\ UNCHANGED <<order, options, paused, failed, cut>>
       /\ offered' = [offered EXCEPT ![s] = @ \cup {e}]
       /\ Repeating' = Repeating
       /\ s \notin paused => UNCHANGED <<buffer, dropped>>
       /\ \A x \in Subs : x # s => UNCHANGED <<handed[x], buffer[x], dropped[x], offered[x]>>
       /\ \A x \in Subs : \A y :
            s \in paused \/ x # s \/ y # e
            => (Due(x, y)' <=> Due(x, y)) /\ (Given(x, y)' <=> Given(x, y))
       /\ s \notin paused /\ Due(s, e) => Given(s, e)'
  BY <1>5, <1>6, Handing
<1>13. offered' = offered
  BY <1>7, <1>12 DEF TypeOK
<1>14. ASSUME NEW x \in Subs PROVE TallyInv(x)'
  <2>1. CASE x # s
    <3>1. /\ UNCHANGED <<buffer[x], dropped[x], offered[x], options>>
          /\ \A y : (Due(x, y)' <=> Due(x, y)) /\ (Given(x, y)' <=> Given(x, y))
          /\ Cursors(x)' = Cursors(x) /\ (x \in paused' <=> x \in paused) /\ cut \subseteq cut'
      BY <1>8, <1>12, <2>1
    <3> QED
      BY <3>1, TallyKept
  <2>2. CASE x = s /\ s \in paused
    <3>1. Stopped(s) /\ Stopped(s)'
      BY <1>8, <1>12, <2>2 DEF Stopped
    <3>2. \A y \in offered'[s] : Due(s, y)' \/ Given(s, y)'
      BY <1>12, <1>13, <2>2 DEF TallyInv
    <3>3. s \in cut'
      BY <1>12, <3>1 DEF TallyInv
    <3> QED
      BY <2>2, <3>1, <3>2, <3>3 DEF TallyInv
  <2>3. CASE x = s /\ s \notin paused
    <3>1. /\ ~Stopped(s)' /\ \A i : i \in Left(s)' <=> i \in Left(s) /\ i # at
      <4>1. \A i \in DOMAIN buffer[s] : i >= at + 1 <=> i >= at /\ i # at
        BY <1>4
      <4> QED
        BY <1>4, <1>8, <1>12, <2>3, <4>1 DEF Left, Stopped
    <3>2. \A i \in Left(s) : buffer[s][i] = e <=> i = at
      BY <1>5, <1>9, <2>3 DEF QueueInv
    <3>3. Given(s, e)' /\ ~Due(s, e)'
      <4>1. Given(s, e)'
        BY <1>9, <1>12, <2>3
      <4>2. Returned(s, e)' = Returned(s, e) /\ Returned(s, e) \in Nat
        BY <1>12, Tallies DEF Returned, Times
      <4> QED
        BY <4>1, <4>2 DEF Given, Due
    <3>4. \A y : y # e => (Due(s, y)' <=> Due(s, y)) /\ (Given(s, y)' <=> Given(s, y))
      BY <1>12
    <3>5. Lost(s)' = Lost(s)
      <4>1. e \notin Lost(s) /\ e \notin Lost(s)'
        BY <1>5, <1>9, <2>3, <3>3 DEF Lost
      <4>2. ASSUME NEW y, y # e PROVE y \in Lost(s)' <=> y \in Lost(s)
        <5>1. (\A i \in Left(s) : buffer[s][i] # y) <=> \A i \in Left(s)' : buffer[s][i] # y
          BY <1>5, <3>1, <4>2
        <5> QED
          BY <1>12, <1>13, <2>3, <3>4, <4>2, <5>1 DEF Lost
      <4> QED
        BY <4>1, <4>2
    <3>6. QueueInv(s)'
      <4>1. \A i \in Left(s)' : \A y : y = buffer[s][i] => Due(s, y)'
        BY <1>9, <2>3, <3>1, <3>2, <3>4 DEF QueueInv
      <4>2. \A i, j \in Left(s)' : buffer[s][i] = buffer[s][j] => i = j
        BY <1>9, <2>3, <3>1 DEF QueueInv
      <4>3. \A k \in Cursors(s)' : k <= Len(buffer[s]) + 1
        BY <1>4, <1>8
      <4> QED
        BY <1>12, <2>3, <4>1, <4>2, <4>3 DEF QueueInv
    <3>7. \A y \in offered'[s] : Due(s, y)' \/ Given(s, y)'
      BY <1>13, <3>3, <3>4 DEF TallyInv
    <3> QED
      BY <1>12, <2>3, <3>1, <3>5, <3>6, <3>7 DEF TallyInv
  <2> QED
    BY <2>1, <2>2, <2>3
<1> QED
  BY <1>10, <1>11, <1>14

\* Nothing is left of the buffer when a flush ends, so nothing is lost.
LEMMA FlushEndTally ==
  ASSUME TypeOK, TypeOK', ShapeInv, DeliveryInv, FlushEnd
  PROVE  DeliveryInv'
<1> USE DEF DeliveryInv
<1>1. /\ Running("flush") /\ stack # <<>> /\ Top \in Frames /\ Top.kind = "flush"
      /\ Tail(stack) = <<>>
  BY TopType, FlushAlone DEF FlushEnd, Running
<1>2. /\ stack' = <<>> /\ buffer' = Emptied(Top.sub) /\ Top.sub \in Subs
      /\ Top.at \in Nat /\ Top.at > Len(buffer[Top.sub])
      /\ UNCHANGED <<order, options, paused, dropped, pending, offered, handed, failed, cut>>
  BY <1>1 DEF FlushEnd, Frames, subscriptions, history
<1>3. PICK s \in Subs, at \in Nat : s = Top.sub /\ at = Top.at
  BY <1>2
<1>4. \A x : Cursors(x) = (IF s = x THEN {at} ELSE {}) /\ Cursors(x)' = {}
  <2>1. \A x : Cursors(x) = CursorsOf(Tail(stack), x)
                     \cup (IF Top.kind = "flush" /\ Top.sub = x THEN {Top.at} ELSE {})
    BY <1>1, StackBelow
  <2> QED
    BY <1>1, <1>2, <1>3, <2>1, NoCursors DEF Cursors
<1>5. /\ buffer'[s] = <<>> /\ \A x \in Subs : x # s => buffer'[x] = buffer[x]
      /\ buffer[s] \in Seq(Events)
  BY <1>2, <1>3 DEF Emptied, TypeOK
<1>6. /\ Repeating' = Repeating
      /\ \A x, y : (Due(x, y)' <=> Due(x, y)) /\ (Given(x, y)' <=> Given(x, y))
  BY <1>2 DEF Repeating, Due, Given, Returned, Times
<1>7. StackInv'
  BY <1>2 DEF StackInv, AllApart, Range
<1>8. OfferInv'
  <2>1. \A x \in Subs : Range(buffer'[x]) \subseteq Range(buffer[x])
    <3>1. Range(buffer'[s]) = {}
      BY <1>5 DEF Range
    <3> QED
      BY <1>5, <3>1
  <2>2. \A x \in Subs : /\ x \notin Range(order') => offered'[x] = {}
          /\ Range(handed'[x]) \cup Range(failed'[x]) \cup Range(buffer'[x]) \subseteq offered'[x]
    BY <1>2, <2>1 DEF OfferInv
  <2>3. \A p \in pending' : p[1] \in Repeating' => Given(p[1], p[2])'
    BY <1>2, <1>6 DEF OfferInv
  <2>4. \A i, j \in DOMAIN order' : order'[i] = order'[j] => i = j
    BY <1>2 DEF OfferInv
  <2> QED
    BY <2>2, <2>3, <2>4 DEF OfferInv
<1>9. ASSUME NEW x \in Subs PROVE TallyInv(x)'
  <2>1. CASE x # s
    <3>1. /\ UNCHANGED <<buffer[x], dropped[x], offered[x], options>>
          /\ \A y : (Due(x, y)' <=> Due(x, y)) /\ (Given(x, y)' <=> Given(x, y))
          /\ Cursors(x)' = Cursors(x) /\ (x \in paused' <=> x \in paused) /\ cut \subseteq cut'
      BY <1>2, <1>4, <1>5, <1>6, <2>1
    <3> QED
      BY <3>1, TallyKept
  <2>2. CASE x = s
    <3>1. ~Stopped(s)' /\ Left(s)' = {}
      BY <1>4, <1>5 DEF Stopped, Left
    <3>2. QueueInv(s)'
      BY <1>4, <3>1 DEF QueueInv
    <3>3. Lost(s)' = Lost(s)
      <4>1. Left(s) = {}
        <5>1. \A i \in DOMAIN buffer[s] : ~(i >= at)
          BY <1>2, <1>3, <1>5
        <5> QED
          BY <1>4, <5>1 DEF Left
      <4> QED
        BY <1>2, <1>6, <3>1, <4>1 DEF Lost
    <3> QED
      BY <1>2, <1>6, <2>2, <3>1, <3>2, <3>3 DEF TallyInv
  <2> QED
    BY <2>1, <2>2
<1> QED
  BY <1>7, <1>8, <1>9

\* A failure makes the event due again where the mode brings it back.
LEMMA FailTally ==
  ASSUME TypeOK, TypeOK', DeliveryInv, NEW s \in Subs, NEW e \in Events, Fail(s, e),
         e \in Range(handed[s]), pending' \subseteq pending,
         Range(stack') \subseteq Range(stack), AllApart(stack', Repeating),
         \A x : Cursors(x)' = Cursors(x),
         s \in Repeating =>
           /\ Given(s, e) /\ <<s, e>> \notin pending'
           /\ \A g \in Range(stack') : ~(g.kind = "callback" /\ g.sub = s /\ g.event = e)
  PROVE  DeliveryInv'
<1> USE DEF DeliveryInv
<1>1. /\ UNCHANGED <<order, options, paused, dropped, sequence, offered, handed, cut>>
      /\ failed' = [failed EXCEPT ![s] = Append(@, e)]
      /\ buffer' = Rebuffered(s, e)
  BY DEF Fail, subscriptions, log_
<1>2. Repeating' = Repeating /\ Frames' = Frames
  BY <1>1 DEF Repeating, Frames, Events
<1>3. /\ failed'[s] = Append(failed[s], e) /\ failed[s] \in Seq(Events)
      /\ \A x \in Subs : x # s => failed'[x] = failed[x]
      /\ \A x \in Subs : x # s => buffer'[x] = buffer[x]
      /\ buffer'[s] = IF s \in Repeating THEN Append(buffer[s], e) ELSE buffer[s]
      /\ buffer[s] \in Seq(Events)
  BY <1>1 DEF TypeOK, Rebuffered, Repeating
<1>4. /\ Range(failed'[s]) = Range(failed[s]) \cup {e}
      /\ \A y : Times(failed'[s], y) = Times(failed[s], y) + (IF e = y THEN 1 ELSE 0)
  BY <1>3, RangeAppend, TimesAppend
<1>5. ASSUME NEW x \in Subs, NEW y, ~(x = s /\ y = e /\ s \in Repeating)
      PROVE  (Due(x, y)' <=> Due(x, y)) /\ (Given(x, y)' <=> Given(x, y))
  <2>1. Returned(x, y)' = Returned(x, y)
    <3>1. CASE x # s \/ s \notin Repeating
      BY <1>2, <1>3, <3>1 DEF Returned, Times
    <3>2. CASE x = s /\ s \in Repeating
      <4>1. Times(failed[s], y) \in Nat /\ y # e
        BY <1>5, <3>2, Tallies
      <4>2. Times(failed'[s], y) = Times(failed[s], y)
        BY <1>4, <4>1
      <4> QED
        BY <1>2, <3>2, <4>2 DEF Returned, Times
    <3> QED
      BY <3>1, <3>2
  <2> QED
    BY <1>1, <2>1 DEF Due, Given
<1>6. s \in Repeating => Due(s, e)' /\ ~Given(s, e)'
  <2> SUFFICES ASSUME s \in Repeating PROVE Due(s, e)' /\ ~Given(s, e)'
    OBVIOUS
  <2>1. Times(handed[s], e) = Times(failed[s], e) + 1 /\ Times(failed[s], e) \in Nat
    BY Tallies DEF Given, Returned
  <2>2. Times(failed'[s], e) = Times(failed[s], e) + 1
    BY <1>4
  <2>3. Returned(s, e)' = Times(failed'[s], e)
    BY <1>2 DEF Returned, Times
  <2>4. Times(handed[s], e)' = Times(handed[s], e)
    BY <1>1 DEF Times
  <2> QED
    BY <2>1, <2>2, <2>3, <2>4 DEF Due, Given
<1>7. e \in offered[s]
  BY DEF OfferInv
<1>8. StackInv'
  <2>1. ASSUME NEW g \in Range(stack') PROVE g \in Fit'
    <3>1. g \in Fit /\ g \in Frames
      BY DEF StackInv, Fit
    <3>2. ASSUME g.kind = "callback", g.sub \in Repeating
          PROVE  Given(g.sub, g.event)' /\ <<g.sub, g.event>> \notin pending'
      <4>1. g.sub \in Subs /\ ~(g.sub = s /\ g.event = e)
        BY <3>2 DEF Repeating
      <4> QED
        BY <1>5, <3>1, <3>2, <4>1 DEF Fit
    <3> QED
      BY <1>1, <1>2, <3>1, <3>2 DEF Fit
  <2> QED
    BY <1>2, <2>1 DEF StackInv
<1>9. OfferInv'
  <2>1. ASSUME NEW x \in Subs
        PROVE  Range(handed'[x]) \cup Range(failed'[x]) \cup Range(buffer'[x]) \subseteq offered'[x]
    <3>1. Range(handed[x]) \cup Range(failed[x]) \cup Range(buffer[x]) \subseteq offered[x]
      BY DEF OfferInv
    <3>2. Range(buffer'[s]) \subseteq Range(buffer[s]) \cup {e}
      BY <1>3, RangeAppend
    <3> QED
      BY <1>1, <1>3, <1>4, <1>7, <3>1, <3>2
  <2>2. \A x \in Subs : x \notin Range(order') => offered'[x] = {}
    BY <1>1 DEF OfferInv
  <2>3. ASSUME NEW p \in pending', p[1] \in Repeating' PROVE Given(p[1], p[2])'
    <3>1. p \in pending /\ p[1] \in Subs /\ p = <<p[1], p[2]>> /\ p[1] \in Repeating
      <4>1. p \in pending /\ p \in Subs \X Events
        BY DEF TypeOK
      <4> QED
        BY <1>2, <2>3, <4>1
    <3>2. Given(p[1], p[2])
      BY <3>1 DEF OfferInv
    <3>3. ~(p[1] = s /\ p[2] = e)
      BY <2>3, <3>1
    <3> QED
      BY <1>5, <3>1, <3>2, <3>3
  <2>4. \A i, j \in DOMAIN order' : order'[i] = order'[j] => i = j
    BY <1>1 DEF OfferInv
  <2> QED
    BY <2>1, <2>2, <2>3, <2>4 DEF OfferInv
<1>10. ASSUME NEW x \in Subs PROVE TallyInv(x)'
  <2>1. CASE x # s \/ s \notin Repeating
    <3>1. /\ UNCHANGED <<buffer[x], dropped[x], offered[x], options>>
          /\ \A y : (Due(x, y)' <=> Due(x, y)) /\ (Given(x, y)' <=> Given(x, y))
          /\ Cursors(x)' = Cursors(x) /\ (x \in paused' <=> x \in paused) /\ cut \subseteq cut'
      BY <1>1, <1>3, <1>5, <2>1
    <3> QED
      BY <3>1, TallyKept
  <2>2. CASE x = s /\ s \in Repeating
    <3> DEFINE b == buffer[s]
    <3>1. /\ DOMAIN buffer'[s] = DOMAIN b \cup {Len(b) + 1} /\ Len(b) \in Nat
          /\ \A i \in DOMAIN b : buffer'[s][i] = b[i]
          /\ buffer'[s][Len(b) + 1] = e /\ Len(buffer'[s]) = Len(b) + 1
          /\ Len(b) + 1 \notin DOMAIN b
      BY <1>3, <2>2, RangeAppend
    <3> HIDE DEF b
    <3>2. Stopped(s)' <=> Stopped(s)
      BY <1>1 DEF Stopped
    <3>3. \A y \in offered'[s] : Due(s, y)' \/ Given(s, y)'
      BY <1>1, <1>5, <1>6, <2>2 DEF TallyInv
    <3>4. CASE Stopped(s)
      BY <1>1, <2>2, <3>2, <3>3, <3>4 DEF TallyInv
    <3>5. CASE ~Stopped(s)
      <4>1. QueueInv(s)
        BY <3>5 DEF TallyInv
      <4>2. \A at \in Cursors(s) : at \in Nat /\ at <= Len(b) + 1
        <5>1. \A at \in Cursors(s) : at \in Nat
          <6>1. Range(stack) \subseteq Frames
            BY DEF StackInv, Fit
          <6> QED
            BY <6>1 DEF Cursors, CursorsOf, Frames
        <5> QED
          BY <4>1, <5>1 DEF QueueInv, b
      <4>3. Left(s)' = Left(s) \cup {Len(b) + 1}
        BY <3>1, <4>2 DEF Left, b
      <4>4. \A i \in Left(s) : i \in DOMAIN b /\ b[i] # e
        <5>1. ~Due(s, e)
          BY <2>2, Tallies
        <5> QED
          BY <4>1, <5>1 DEF QueueInv, Left, b
      <4>5. QueueInv(s)'
        <5>1. \A i \in Left(s)' : \A y : y = buffer'[s][i] => Due(s, y)'
          <6>1. \A i \in Left(s) : \A y : y = b[i] => Due(s, y)'
            BY <1>5, <4>1, <4>4 DEF QueueInv, b
          <6> QED
            BY <1>6, <2>2, <3>1, <4>3, <4>4, <6>1
        <5>2. \A i, j \in Left(s)' : buffer'[s][i] = buffer'[s][j] => i = j
          <6>1. \A i, j \in Left(s) : b[i] = b[j] => i = j
            BY <4>1 DEF QueueInv, b
          <6> QED
            BY <3>1, <4>3, <4>4, <6>1
        <5>3. \A at \in Cursors(s)' : at <= Len(buffer'[s]) + 1
          BY <3>1, <4>2
        <5> QED
          BY <5>1, <5>2, <5>3 DEF QueueInv
      <4>6. Lost(s)' = Lost(s)
        <5>1. e \notin Lost(s) /\ e \notin Lost(s)'
          <6>1. ~Due(s, e)
            BY <2>2, Tallies
          <6> QED
            BY <3>1, <4>3, <6>1 DEF Lost
        <5>2. ASSUME NEW y, y # e PROVE y \in Lost(s)' <=> y \in Lost(s)
          <6>1. (\A i \in Left(s) : b[i] # y) <=> \A i \in Left(s)' : buffer'[s][i] # y
            BY <3>1, <4>3, <4>4, <5>2
          <6> QED
            BY <1>1, <1>5, <5>2, <6>1 DEF Lost, b
        <5> QED
          BY <5>1, <5>2
      <4> QED
        BY <1>1, <1>2, <2>2, <3>2, <3>3, <3>5, <4>5, <4>6 DEF TallyInv
    <3> QED
      BY <3>4, <3>5
  <2> QED
    BY <2>1, <2>2
<1> QED
  BY <1>8, <1>9, <1>10

\* Nothing that is counted has moved, of any subscription.
LEMMA CountsKept ==
  ASSUME TypeOK, DeliveryInv,
         UNCHANGED <<order, options, paused, buffer, dropped, offered, handed, failed, cut>>,
         Frames \subseteq Frames', \A p \in pending' : p[1] \in Repeating => Given(p[1], p[2]),
         \A s \in Subs : Cursors(s)' = Cursors(s)
  PROVE  /\ OfferInv' /\ \A s \in Subs : TallyInv(s)'
         /\ Repeating' = Repeating
         /\ \A f \in Fit :
              (f.kind = "callback" /\ f.sub \in Repeating => <<f.sub, f.event>> \notin pending')
              => f \in Fit'
<1> USE DEF DeliveryInv
<1>1. /\ Repeating' = Repeating
      /\ \A x, y : (Due(x, y)' <=> Due(x, y)) /\ (Given(x, y)' <=> Given(x, y))
  BY DEF Repeating, Due, Given, Returned, Times
<1>2. OfferInv'
  BY <1>1 DEF OfferInv
<1>3. \A s \in Subs : TallyInv(s)'
  BY <1>1, TallyKept
<1>4. \A f \in Fit :
              (f.kind = "callback" /\ f.sub \in Repeating => <<f.sub, f.event>> \notin pending')
              => f \in Fit'
  BY <1>1 DEF Fit
<1> QED
  BY <1>1, <1>2, <1>3, <1>4

LEMMA EmitTally ==
  ASSUME TypeOK, TypeOK', ShapeInv, DeliveryInv, Emit
  PROVE  DeliveryInv'
<1> USE DEF DeliveryInv
<1>1. /\ sequence' = sequence + 1 /\ sequence \in Nat
      /\ UNCHANGED <<order, options, paused, buffer, dropped, offered, handed, failed, cut, pending>>
  BY DEF Emit, subscriptions, held, history, TypeOK
<1>2. PICK accept \in SUBSET Subs : stack' = <<EmitFrame(sequence', accept)>> \o stack
  BY DEF Emit
<1> DEFINE f == EmitFrame(sequence', accept)
<1>3. Events' = Events \cup {sequence'} /\ sequence' \notin Events /\ 0 # sequence'
  BY <1>1 DEF Events
<1>4. Frames \subseteq Frames' /\ \A g \in Frames : g.event # sequence'
  BY <1>3 DEF Frames
<1>5. f \in Frames' /\ f.kind = "emit" /\ f.event = sequence'
  BY <1>3 DEF EmitFrame, Frames
<1> HIDE DEF f
<1>6. stack \in Seq(Frames') /\ stack' = <<f>> \o stack /\ Range(stack) \subseteq Frames
  <2>1. Range(stack) \subseteq Frames
    BY DEF StackInv, Fit
  <2> QED
    BY <1>2, <1>4, <2>1, SeqWidens DEF TypeOK, f
<1>7. ASSUME NEW s \in Subs PROVE Cursors(s)' = Cursors(s)
  <2>1. CursorsOf(<<f>> \o stack, s)
          = CursorsOf(stack, s) \cup (IF f.kind = "flush" /\ f.sub = s THEN {f.at} ELSE {})
    <3>1. f \in Frames' /\ stack \in Seq(Frames')
      BY <1>5, <1>6
    <3> QED
      BY <3>1, CursorsPush
  <2> QED
    BY <1>5, <1>6, <2>1 DEF Cursors
<1>8. \A p \in pending' : p[1] \in Repeating => Given(p[1], p[2])
  BY <1>1 DEF OfferInv
<1>9. /\ OfferInv' /\ \A s \in Subs : TallyInv(s)'
      /\ Repeating' = Repeating
      /\ \A g \in Fit :
           (g.kind = "callback" /\ g.sub \in Repeating => <<g.sub, g.event>> \notin pending')
           => g \in Fit'
  BY <1>1, <1>4, <1>7, <1>8, CountsKept
<1>10. Range(stack) \subseteq Fit'
  BY <1>1, <1>9 DEF StackInv, Fit
<1>11. f \in Fit'
  <2>1. \A k \in DOMAIN order : order[k] \in Subs /\ sequence' \notin offered[order[k]]
    BY <1>3 DEF TypeOK
  <2> QED
    BY <1>1, <1>5, <2>1 DEF Fit
<1>12. \A g \in Range(stack) : Apart(f, g, Repeating)
  BY <1>4, <1>5, <1>6 DEF Apart
<1>13. AllApart(<<f>> \o stack, Repeating)
  BY <1>5, <1>6, <1>12, ApartPush DEF StackInv
<1>14. Range(<<f>> \o stack) = Range(stack) \cup {f}
  BY <1>5, <1>6, PushProperties
<1> QED
  BY <1>6, <1>9, <1>10, <1>11, <1>13, <1>14 DEF StackInv

\* A new subscription has been offered nothing and is in no frame.
LEMMA SubscribeTally ==
  ASSUME TypeOK, TypeOK', ShapeInv, PendingInv, DeliveryInv, NEW s \in Subs, Subscribe(s)
  PROVE  DeliveryInv'
<1> USE DEF DeliveryInv
<1>1. /\ s \notin Range(order) /\ order' = Append(order, s)
      /\ UNCHANGED <<paused, buffer, dropped, offered, handed, failed, cut, pending, stack, sequence>>
      /\ \A x \in Subs : x # s => options'[x] = options[x]
  BY DEF Subscribe, held, log_, history, TypeOK
<1>2. /\ offered[s] = {} /\ Range(handed[s]) = {} /\ Range(buffer[s]) = {}
  BY <1>1 DEF OfferInv
<1>3. /\ DOMAIN order' = DOMAIN order \cup {Len(order) + 1}
      /\ \A k \in DOMAIN order : order'[k] = order[k]
      /\ order'[Len(order) + 1] = s
      /\ Range(order') = Range(order) \cup {s}
  BY <1>1, RangeAppend DEF TypeOK
<1>4. \A x \in Subs : x # s => (x \in Repeating' <=> x \in Repeating)
  BY <1>1 DEF Repeating
<1>5. ASSUME NEW x \in Subs, x # s, NEW y
      PROVE  (Due(x, y)' <=> Due(x, y)) /\ (Given(x, y)' <=> Given(x, y))
  <2>1. Returned(x, y)' = Returned(x, y)
    BY <1>1, <1>4, <1>5 DEF Returned, Times
  <2> QED
    BY <1>1, <2>1 DEF Due, Given, Times
<1>6. \A p \in pending : p[1] \in Subs /\ p[1] # s
  BY <1>2 DEF PendingInv, TypeOK
<1>7. ASSUME NEW g \in Range(stack), g.kind = "callback" PROVE g.sub \in Subs /\ g.sub # s
  <2>1. g \in Sound
    BY DEF ShapeInv, ShapedBy, Range
  <2>2. g.event \in Range(handed[g.sub]) /\ g \in Frames
    BY <1>7, <2>1 DEF Sound
  <2> QED
    BY <1>2, <1>7, <2>2 DEF Frames
<1>8. StackInv'
  <2>1. ASSUME NEW g \in Range(stack) PROVE g \in Fit'
    <3>1. g \in Fit /\ g \in Frames /\ Frames' = Frames
      BY <1>1 DEF StackInv, Fit, Frames, Events
    <3>2. ASSUME g.kind = "callback", g.sub \in Repeating'
          PROVE  Given(g.sub, g.event)' /\ <<g.sub, g.event>> \notin pending'
      <4>1. g.sub \in Subs /\ g.sub # s
        BY <1>7, <3>2
      <4>2. Given(g.sub, g.event) /\ <<g.sub, g.event>> \notin pending
        BY <1>4, <3>1, <3>2, <4>1 DEF Fit
      <4> QED
        BY <1>1, <1>5, <4>1, <4>2
    <3>3. ASSUME g.kind = "emit", NEW k \in DOMAIN order', k >= g.at
          PROVE  g.event \notin offered'[order'[k]]
      BY <1>1, <1>2, <1>3, <3>1, <3>3 DEF Fit
    <3> QED
      BY <3>1, <3>2, <3>3 DEF Fit
  <2>2. ASSUME NEW i \in DOMAIN stack, NEW j \in DOMAIN stack, i # j
        PROVE  Apart(stack[i], stack[j], Repeating')
    <3>1. Apart(stack[i], stack[j], Repeating)
      BY <2>2 DEF StackInv, AllApart
    <3>2. stack[i].kind = "callback" => stack[i].sub \in Subs /\ stack[i].sub # s
      BY <1>7 DEF Range
    <3> QED
      BY <1>4, <3>1, <3>2 DEF Apart
  <2>3. AllApart(stack, Repeating')
    BY <2>2 DEF AllApart
  <2> QED
    BY <1>1, <2>1, <2>3 DEF StackInv
<1>9. OfferInv'
  <2>1. \A i, j \in DOMAIN order' : order'[i] = order'[j] => i = j
    <3>1. \A i \in DOMAIN order : order[i] # s
      BY <1>1 DEF Range
    <3> QED
      BY <1>3, <3>1 DEF OfferInv
  <2>2. \A x \in Subs : /\ x \notin Range(order') => offered'[x] = {}
          /\ Range(handed'[x]) \cup Range(failed'[x]) \cup Range(buffer'[x]) \subseteq offered'[x]
    BY <1>1, <1>3 DEF OfferInv
  <2>3. \A p \in pending' : p[1] \in Repeating' => Given(p[1], p[2])'
    BY <1>1, <1>4, <1>5, <1>6 DEF OfferInv
  <2> QED
    BY <2>1, <2>2, <2>3 DEF OfferInv
<1>10. \A x : Cursors(x)' = Cursors(x)
  BY <1>1 DEF Cursors
<1>11. ASSUME NEW x \in Subs PROVE TallyInv(x)'
  <2>1. CASE x # s
    BY <1>1, <1>5, <1>10, <2>1, TallyKept
  <2>2. CASE x = s
    <3>1. Left(s)' = {} /\ Left(s) = {} /\ (Stopped(s)' <=> Stopped(s))
      <4>1. DOMAIN buffer[s] = {} /\ buffer' = buffer
        <5>1. ASSUME NEW i \in DOMAIN buffer[s] PROVE FALSE
          <6>1. buffer[s][i] \in Range(buffer[s])
            BY DEF Range
          <6> QED
            BY <1>2, <6>1
        <5> QED
          BY <1>1, <5>1
      <4> QED
        BY <1>1, <1>10, <4>1 DEF Left, Stopped
    <3>2. Lost(s)' = {} /\ dropped'[s] \in Nat
      BY <1>1, <1>2 DEF Lost, TypeOK
    <3>3. Cardinality(Lost(s)') <= dropped'[s]
      BY <3>2, FS_EmptySet
    <3>4. ~Stopped(s) => QueueInv(s)'
      BY <1>1, <1>10, <3>1 DEF QueueInv, TallyInv
    <3> QED
      BY <1>1, <1>2, <2>2, <3>1, <3>3, <3>4 DEF TallyInv
  <2> QED
    BY <2>1, <2>2
<1> QED
  BY <1>8, <1>9, <1>11

LEMMA PauseTally ==
  ASSUME TypeOK, TypeOK', DeliveryInv, NEW s \in Subs, Pause(s)
  PROVE  DeliveryInv'
<1> USE DEF DeliveryInv
<1>1. /\ s \notin paused /\ paused' = paused \cup {s} /\ cut \subseteq cut'
      /\ Flushing(s) => s \in cut'
      /\ UNCHANGED <<order, options, buffer, dropped, offered, handed, failed, pending, stack, sequence>>
  BY DEF Pause, subscriptions, log_
<1>2. /\ Repeating' = Repeating /\ Frames' = Frames
      /\ \A x, y : (Due(x, y)' <=> Due(x, y)) /\ (Given(x, y)' <=> Given(x, y))
      /\ \A x : Cursors(x)' = Cursors(x)
  BY <1>1 DEF Repeating, Due, Given, Returned, Times, Cursors, Frames, Events
<1>3. OfferInv' /\ StackInv'
  BY <1>1, <1>2 DEF OfferInv, StackInv, Fit
<1>4. ASSUME NEW x \in Subs PROVE TallyInv(x)'
  <2>1. CASE x # s
    <3>1. x \in paused' <=> x \in paused
      BY <1>1, <2>1
    <3> QED
      BY <1>1, <1>2, <3>1, TallyKept
  <2>2. CASE x = s
    <3>1. ~Stopped(s) /\ Left(s)' = Left(s) /\ Lost(s)' = Lost(s)
      BY <1>1, <1>2 DEF Stopped, Left, Lost
    <3>2. QueueInv(s)'
      BY <1>1, <1>2, <3>1 DEF QueueInv, TallyInv
    <3>3. Stopped(s)' => s \in cut'
      <4>1. Cursors(s) # {} => Flushing(s)
        BY DEF Cursors, CursorsOf, Flushing, Range
      <4> QED
        BY <1>1, <1>2, <4>1 DEF Stopped
    <3> QED
      BY <1>1, <1>2, <2>2, <3>1, <3>2, <3>3 DEF TallyInv
  <2> QED
    BY <2>1, <2>2
<1> QED
  BY <1>3, <1>4

LEMMA ResumeTally ==
  ASSUME TypeOK, TypeOK', DeliveryInv, NEW s \in Subs, Resume(s)
  PROVE  DeliveryInv'
<1> USE DEF DeliveryInv
<1>1. /\ stack = <<>> /\ paused' = paused \ {s} /\ stack' = <<FlushFrame(s)>>
      /\ UNCHANGED <<order, options, buffer, dropped, offered, handed, failed, pending, cut, sequence>>
  BY DEF Resume, subscriptions, log_, history
<1> DEFINE f == FlushFrame(s)
<1>2. f \in Frames /\ f.kind = "flush" /\ f.sub = s /\ f.at = 1 /\ Frames' = Frames
  BY <1>1 DEF FlushFrame, Frames, Events
<1>3. stack' = <<f>>
  BY <1>1
<1> HIDE DEF f
<1>4. /\ Repeating' = Repeating
      /\ \A x, y : (Due(x, y)' <=> Due(x, y)) /\ (Given(x, y)' <=> Given(x, y))
  BY <1>1 DEF Repeating, Due, Given, Returned, Times
<1>5. Range(stack') = {f}
  BY <1>3 DEF Range
<1>6. \A x \in Subs : Cursors(x) = {} /\ Cursors(x)' = IF s = x THEN {1} ELSE {}
  BY <1>1, <1>2, <1>5, NoCursors DEF Cursors, CursorsOf
<1>7. StackInv'
  <2>1. f \in Fit'
    BY <1>2 DEF Fit
  <2>2. AllApart(stack', Repeating')
    BY <1>3 DEF AllApart
  <2> QED
    BY <1>5, <2>1, <2>2 DEF StackInv
<1>8. OfferInv'
  BY <1>1, <1>4 DEF OfferInv
<1>9. ASSUME NEW x \in Subs PROVE TallyInv(x)'
  <2>1. CASE x # s
    <3>1. (x \in paused' <=> x \in paused) /\ Cursors(x)' = Cursors(x)
      BY <1>1, <1>6, <2>1
    <3> QED
      BY <1>1, <1>4, <3>1, TallyKept
  <2>2. CASE x = s
    <3>1. buffer[s] \in Seq(Events)
      BY DEF TypeOK
    <3>2. (\A i \in DOMAIN buffer[s] : i >= 1) /\ Len(buffer[s]) \in Nat
      BY <3>1
    <3>3. ~Stopped(s) /\ ~Stopped(s)' /\ Left(s)' = Left(s)
      BY <1>1, <1>6, <3>2 DEF Stopped, Left
    <3>4. Lost(s)' = Lost(s)
      BY <1>1, <1>4, <3>3 DEF Lost
    <3>5. QueueInv(s)'
      <4>1. \A at \in Cursors(s)' : at <= Len(buffer[s]) + 1
        BY <1>6, <3>2
      <4>2. QueueInv(s)
        BY <3>3 DEF TallyInv
      <4> QED
        BY <1>1, <1>4, <3>3, <4>1, <4>2 DEF QueueInv
    <3> QED
      BY <1>1, <1>4, <2>2, <3>3, <3>4, <3>5 DEF TallyInv
  <2> QED
    BY <2>1, <2>2
<1> QED
  BY <1>7, <1>8, <1>9

\* A frame goes, or is replaced, without anything having been delivered.
LEMMA PopTally ==
  ASSUME TypeOK, ShapeInv, DeliveryInv, Running("emit") \/ Running("callback"),
         stack' = Tail(stack),
         UNCHANGED <<order, options, paused, buffer, dropped, offered, handed, failed, cut, sequence>>,
         pending' \subseteq pending \/ /\ Top.kind = "callback"
                                       /\ pending' = pending \cup {<<Top.sub, Top.event>>}
  PROVE  DeliveryInv'
<1> USE DEF DeliveryInv
<1>1. stack # <<>> /\ Top.kind \in {"emit", "callback"} /\ Frames' = Frames
  BY DEF Running, Frames, Events
<1>2. /\ Top \in Fit /\ Range(Tail(stack)) \subseteq Fit
      /\ AllApart(Tail(stack), Repeating)
      /\ \A g \in Range(Tail(stack)) : Apart(Top, g, Repeating)
  BY <1>1, FramesBelow
<1>3. \A s \in Subs : Cursors(s)' = Cursors(s)
  <2>1. \A s : Cursors(s) = CursorsOf(Tail(stack), s)
                 \cup (IF Top.kind = "flush" /\ Top.sub = s THEN {Top.at} ELSE {})
    BY <1>1, StackBelow
  <2> QED
    BY <1>1, <2>1 DEF Cursors
<1>4. ASSUME NEW p \in pending', p[1] \in Repeating PROVE Given(p[1], p[2])
  <2>1. CASE p \in pending
    BY <1>4, <2>1 DEF OfferInv
  <2>2. CASE p \notin pending
    <3>1. Top.kind = "callback" /\ p = <<Top.sub, Top.event>>
      BY <2>2
    <3> QED
      BY <1>2, <1>4, <3>1 DEF Fit
  <2> QED
    BY <2>1, <2>2
<1>5. /\ OfferInv' /\ \A s \in Subs : TallyInv(s)'
      /\ Repeating' = Repeating
      /\ \A g \in Fit :
           (g.kind = "callback" /\ g.sub \in Repeating => <<g.sub, g.event>> \notin pending')
           => g \in Fit'
  BY <1>1, <1>3, <1>4, CountsKept
<1>6. ASSUME NEW g \in Range(Tail(stack)) PROVE g \in Fit'
  <2>1. g \in Fit /\ Apart(Top, g, Repeating)
    BY <1>2
  <2>2. g.kind = "callback" /\ g.sub \in Repeating => <<g.sub, g.event>> \notin pending'
    BY <2>1 DEF Fit, Apart
  <2> QED
    BY <1>5, <2>1, <2>2
<1> QED
  BY <1>2, <1>5, <1>6 DEF StackInv

LEMMA NextTally ==
  ASSUME TypeOK, TypeOK', ShapeInv, PendingInv, DeliveryInv, [Next]_vars
  PROVE  DeliveryInv'
<1> USE DEF DeliveryInv
<1>1. ASSUME UNCHANGED <<order, options, paused, buffer, dropped, offered, handed, failed, cut, sequence, stack>>,
             pending' \subseteq pending
      PROVE  DeliveryInv'
  <2>1. Frames' = Frames /\ \A s \in Subs : Cursors(s)' = Cursors(s)
    BY <1>1 DEF Frames, Events, Cursors
  <2>2. \A p \in pending' : p[1] \in Repeating => Given(p[1], p[2])
    BY <1>1 DEF OfferInv
  <2>3. /\ OfferInv' /\ \A s \in Subs : TallyInv(s)'
        /\ Repeating' = Repeating
        /\ \A g \in Fit :
             (g.kind = "callback" /\ g.sub \in Repeating => <<g.sub, g.event>> \notin pending')
             => g \in Fit'
    BY <1>1, <2>1, <2>2, CountsKept
  <2>4. StackInv'
    BY <1>1, <2>3 DEF StackInv, Fit
  <2> QED
    BY <2>3, <2>4
<1>2. ASSUME NEW s \in Subs, Unsubscribe(s) PROVE DeliveryInv'
  BY <1>1, <1>2 DEF Unsubscribe, held, log_, history
<1>3. ASSUME EmitSkip PROVE DeliveryInv'
  <2>1. /\ Running("emit") /\ Top.kind = "emit" /\ stack # <<>> /\ stack' = Advanced
        /\ UNCHANGED <<order, options, paused, buffer, dropped, offered, handed, failed, cut, sequence, pending>>
    BY <1>3 DEF EmitSkip, Running, subscriptions, held, log_, history
  <2>2. /\ \A s : CursorsOf(Advanced, s) = CursorsOf(Tail(stack), s)
        /\ \A s : Cursors(s) = CursorsOf(Tail(stack), s)
    BY <2>1, StackAdvanced, StackBelow
  <2>3. Frames' = Frames /\ \A s \in Subs : Cursors(s)' = Cursors(s)
    BY <2>1, <2>2 DEF Frames, Events, Cursors
  <2>4. \A p \in pending' : p[1] \in Repeating => Given(p[1], p[2])
    BY <2>1 DEF OfferInv
  <2>5. /\ OfferInv' /\ \A s \in Subs : TallyInv(s)'
        /\ Repeating' = Repeating
        /\ \A g \in Fit :
             (g.kind = "callback" /\ g.sub \in Repeating => <<g.sub, g.event>> \notin pending')
             => g \in Fit'
    BY <2>1, <2>3, <2>4, CountsKept
  <2>6. /\ AllApart(Advanced, Repeating)
        /\ \A g \in Range(Advanced) :
             \/ g \in Range(Tail(stack))
             \/ /\ g \in Frames /\ g.kind = Top.kind /\ g.event = Top.event
                /\ g.at = Top.at + 1
    BY <2>1, FramesAdvanced
  <2>7. Top \in Fit /\ Range(Tail(stack)) \subseteq Fit
    BY <2>1, FramesBelow
  <2>8. ASSUME NEW g \in Range(Advanced) PROVE g \in Fit /\ g \in Fit'
    <3>1. g \in Fit
      <4>1. CASE g \in Range(Tail(stack))
        BY <2>7, <4>1
      <4>2. CASE g \in Frames /\ g.kind = Top.kind /\ g.event = Top.event /\ g.at = Top.at + 1
        <5>1. order \in Seq(Subs) /\ Top \in Frames
          BY <2>7 DEF TypeOK, Fit
        <5>2. Top.at \in Nat /\ \A k \in DOMAIN order : k \in Nat
          BY <2>1, <5>1 DEF Frames
        <5>3. \A k \in DOMAIN order : k >= g.at => k >= Top.at
          BY <4>2, <5>2
        <5> QED
          BY <2>1, <2>7, <4>2, <5>3 DEF Fit
      <4> QED
        BY <2>6, <4>1, <4>2
    <3> QED
      BY <2>1, <2>5, <3>1 DEF Fit
  <2> QED
    BY <2>1, <2>5, <2>6, <2>8 DEF StackInv
<1>4. ASSUME EmitEnd PROVE DeliveryInv'
  BY <1>4, PopTally DEF EmitEnd, subscriptions, held, log_, history
<1>5. ASSUME CallbackReturns PROVE DeliveryInv'
  <2>1. Running("callback") /\ Top.kind = "callback"
    BY <1>5 DEF CallbackReturns, Running
  <2> QED
    BY <1>5, <2>1, PopTally DEF CallbackReturns, subscriptions, held, log_, history
<1>6. ASSUME CallbackThrows PROVE DeliveryInv'
  <2>1. /\ Running("callback") /\ Top.kind = "callback" /\ stack # <<>> /\ stack' = Tail(stack)
        /\ Fail(Top.sub, Top.event) /\ pending' = pending
    BY <1>6 DEF CallbackThrows, Running
  <2>2. Top \in Sound
    BY <2>1, StackBelow
  <2>3. Top.sub \in Subs /\ Top.event \in Events /\ Top.event \in Range(handed[Top.sub])
    BY <2>1, <2>2 DEF Sound, Frames
  <2>4. /\ Top \in Fit /\ Tail(stack) \in Seq(Frames) /\ AllApart(Tail(stack), Repeating)
        /\ \A g \in Range(Tail(stack)) : Apart(Top, g, Repeating)
    BY <2>1, FramesBelow
  <2>5. Range(stack') \subseteq Range(stack)
    <3> DEFINE rest == Tail(stack)
    <3>1. stack = <<Top>> \o rest /\ Top \in Frames /\ rest \in Seq(Frames)
      BY <2>1, Unpushed DEF TypeOK, Top
    <3>2. stack' = rest
      BY <2>1
    <3> HIDE DEF rest
    <3>3. Range(stack) = Range(rest) \cup {Top}
      BY <3>1, PushProperties
    <3> QED
      BY <3>2, <3>3
  <2>6. \A s : Cursors(s)' = Cursors(s)
    <3>1. \A s : Cursors(s) = CursorsOf(Tail(stack), s)
                   \cup (IF Top.kind = "flush" /\ Top.sub = s THEN {Top.at} ELSE {})
      BY <2>1, StackBelow
    <3> QED
      BY <2>1, <3>1 DEF Cursors
  <2>7. Top.sub \in Repeating =>
          /\ Given(Top.sub, Top.event) /\ <<Top.sub, Top.event>> \notin pending'
          /\ \A g \in Range(stack') :
               ~(g.kind = "callback" /\ g.sub = Top.sub /\ g.event = Top.event)
    BY <2>1, <2>4 DEF Fit, Apart
  <2> QED
    BY <2>1, <2>3, <2>4, <2>5, <2>6, <2>7, FailTally
<1>7. ASSUME Resolve PROVE DeliveryInv'
  BY <1>1, <1>7 DEF Resolve, subscriptions, held, log_, history
<1>8. ASSUME Reject PROVE DeliveryInv'
  <2>1. PICK p \in pending : Fail(p[1], p[2]) /\ pending' = pending \ {p}
    BY <1>8 DEF Reject
  <2>2. stack' = <<>> /\ stack = <<>>
    BY <1>8 DEF Reject
  <2>3. p[1] \in Subs /\ p[2] \in Events /\ p = <<p[1], p[2]>> /\ p[2] \in Range(handed[p[1]])
    <3>1. p \in Subs \X Events
      BY DEF TypeOK
    <3> QED
      BY <3>1 DEF PendingInv
  <2>4. Range(stack') = {} /\ AllApart(stack', Repeating) /\ \A s : Cursors(s)' = Cursors(s)
    BY <2>2 DEF Range, AllApart, Cursors
  <2>5. p[1] \in Repeating => Given(p[1], p[2]) /\ <<p[1], p[2]>> \notin pending'
    BY <2>1, <2>3 DEF OfferInv
  <2> QED
    BY <2>1, <2>3, <2>4, <2>5, FailTally
<1>9. CASE UNCHANGED vars
  BY <1>1, <1>9 DEF vars, subscriptions, held, log_, history
<1> QED
  BY <1>2, <1>3, <1>4, <1>5, <1>6, <1>7, <1>8, <1>9, EmitTally, SubscribeTally, PauseTally,
     ResumeTally, EmitStepTally, FlushStepTally, FlushEndTally DEF Next, Unwind

\* Each event once, whatever callbacks do: while a subscription that buffers and
\* redelivers is not paused in its own flush, what was offered to it was handled, is
\* with its callback or in its buffer, or was counted as dropped; and no event comes back
\* without a failure.
THEOREM EmitterDelivers == Spec => []DeliveredOnce
<1>1. Init => DeliveryInv
  <2> SUFFICES ASSUME Init PROVE DeliveryInv
    OBVIOUS
  <2>1. /\ stack = <<>> /\ order = <<>> /\ pending = {}
        /\ \A s \in Subs : /\ offered[s] = {} /\ handed[s] = <<>> /\ failed[s] = <<>>
                           /\ buffer[s] = <<>> /\ dropped[s] = 0
        /\ paused = {}
    BY DEF Init
  <2>2. StackInv /\ OfferInv
    BY <2>1 DEF StackInv, OfferInv, AllApart, Range
  <2>3. ASSUME NEW s \in Subs PROVE TallyInv(s)
    <3>1. Left(s) = {} /\ Lost(s) = {} /\ ~Stopped(s) /\ Cursors(s) = {}
      BY <2>1, NoCursors DEF Left, Lost, Stopped, Cursors
    <3>2. QueueInv(s)
      BY <3>1 DEF QueueInv
    <3>3. Cardinality(Lost(s)) <= dropped[s]
      BY <2>1, <3>1, FS_EmptySet
    <3> QED
      BY <2>1, <3>1, <3>2, <3>3 DEF TallyInv
  <2> QED
    BY <2>2, <2>3 DEF DeliveryInv
<1>2. OrderInv /\ TypeOK' /\ DeliveryInv /\ [Next]_vars => DeliveryInv'
  BY NextTally DEF OrderInv
<1>3. TypeOK /\ DeliveryInv => DeliveredOnce
  <2> SUFFICES ASSUME TypeOK, DeliveryInv, NEW s \in Subs
               PROVE  /\ s \notin cut /\ s \in Repeating /\ options[s].on_backpressure = "buffer"
                         => Cardinality({e \in offered[s] :
                              /\ ~Handled(s, e) /\ ~InCallback(s, e) /\ <<s, e>> \notin pending
                              /\ e \notin Range(buffer[s])}) <= dropped[s]
                      /\ \A e \in Events : Times(handed[s], e) <= 1 + Returned(s, e)
    BY DEF DeliveredOnce, NothingMissed, NoNeedlessRedelivery, Repeating, Returned
  <2>1. TallyInv(s) /\ OfferInv
    BY DEF DeliveryInv
  <2>2. ASSUME NEW e \in Events PROVE Times(handed[s], e) <= 1 + Returned(s, e)
    <3>1. Times(handed[s], e) \in Nat /\ Returned(s, e) \in Nat
      BY Tallies
    <3>2. Due(s, e) \/ Given(s, e)
      BY <2>1, Tallies DEF TallyInv
    <3> QED
      BY <3>1, <3>2 DEF Due, Given
  <2>3. ASSUME s \notin cut, s \in Repeating, options[s].on_backpressure = "buffer"
        PROVE  Cardinality({e \in offered[s] :
                 /\ ~Handled(s, e) /\ ~InCallback(s, e) /\ <<s, e>> \notin pending
                 /\ e \notin Range(buffer[s])}) <= dropped[s]
    <3> DEFINE missing == {e \in offered[s] :
                 /\ ~Handled(s, e) /\ ~InCallback(s, e) /\ <<s, e>> \notin pending
                 /\ e \notin Range(buffer[s])}
    <3>1. ASSUME NEW e \in missing PROVE e \in Lost(s)
      <4>1. ~(Times(handed[s], e) > Times(failed[s], e))
        BY <3>1 DEF Handled
      <4>2. Returned(s, e) = Times(failed[s], e) /\ Returned(s, e) \in Nat
        BY <2>3, Tallies DEF Returned
      <4>3. Due(s, e) \/ Given(s, e)
        BY <2>1 DEF TallyInv
      <4>4. Due(s, e)
        BY <4>1, <4>2, <4>3 DEF Due, Given
      <4>5. \A i \in Left(s) : buffer[s][i] # e
        BY <3>1 DEF Left, Range
      <4> QED
        BY <4>4, <4>5 DEF Lost
    <3>2. missing \subseteq Lost(s)
      BY <3>1
    <3> HIDE DEF missing
    <3>3. /\ Cardinality(missing) <= Cardinality(Lost(s)) /\ Cardinality(Lost(s)) \in Nat
          /\ Cardinality(Lost(s)) <= dropped[s] /\ dropped[s] \in Nat
          /\ IsFiniteSet(Lost(s))
      BY <2>1, <2>3, <3>2, LostFinite DEF TallyInv, TypeOK
    <3>4. Cardinality(missing) \in Nat
      BY <3>2, <3>3, FS_Subset, FS_CardinalityType
    <3>5. Cardinality(missing) <= dropped[s]
      BY <3>3, <3>4
    <3> QED
      BY <3>5 DEF missing
  <2> QED
    BY <2>2, <2>3
<1>4. Spec => []OrderInv
  BY OrderKept
<1> QED
  BY <1>1, <1>2, <1>3, <1>4, EmitterTypes, PTL DEF Spec

==============================================================================
