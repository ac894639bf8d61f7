----------------------------- MODULE EventEmitter -----------------------------
(***************************************************************************)
(* EventEmitter (events/emitter.ts): subscriptions with a delivery mode    *)
(* and a backpressure policy, a bounded log for replay(), and buffers that *)
(* are flushed by resume_().                                               *)
(*                                                                         *)
(* Everything runs on one thread, yet not atomically: emit() and resume_() *)
(* call the subscribers' callbacks, which may call the emitter again, and  *)
(* both iterate over live collections.  The call stack is a variable; what *)
(* a callback's promise comes to arrives when the stack is empty.          *)
(*                                                                         *)
(* Events are numbered as emit() numbers them, which is how the engine's    *)
(* events get their numbers; a publisher that sets its own is left out.    *)
(*                                                                         *)
(* External: callbacks.  They return, throw or answer a promise; before    *)
(* that they may subscribe, unsubscribe, pause or emit.  They do not call  *)
(* resume_(), which belongs to the consumer that catches up later.         *)
(***************************************************************************)
EXTENDS Integers, SequencesExt

CONSTANTS
  Subs,         \* subscriptions that may be made
  Options,      \* [Subs -> the options it may be made with]
  MaxBuffer,    \* maxBufferSize of the log
  \* bounds: events, events times subscriptions, failing callbacks, the stack
  MaxEvents, MaxOffers, MaxFailures, MaxDepth

Policies == {"pause", "buffer", "resume", "drop", "disconnect"}

AnyOptions ==
  [delivery : {"at_most_once", "at_least_once", "effectively_once"},
   on_backpressure : Policies, buffer_size : Nat \ {0}]

\* The options that subscribe() fills in.
DefaultOptions ==
  [delivery |-> "at_least_once", on_backpressure |-> "buffer", buffer_size |-> 100]

ASSUME OptionsAssumption ==
  /\ DOMAIN Options = Subs
  /\ \A s \in Subs : \A o \in Options[s] : o \in AnyOptions
ASSUME BoundsAssumption ==
  /\ MaxBuffer \in Nat \ {0}
  /\ {MaxEvents, MaxOffers, MaxFailures, MaxDepth} \subseteq Nat

VARIABLES
  order,      \* subscriptions in the order they were made (insertion order of the Map)
  active,     \* those still in the Map
  options,    \* [Subs -> AnyOptions], set by subscribe()
  paused,     \* subscriptions that are paused
  buffer,     \* [Subs -> sequence of events held for the subscription]
  dropped,    \* [Subs -> Nat]
  sequence,   \* the number of the last event
  log,        \* the last events, for replay()
  stack,      \* frames of emit(), resume_() and callbacks, the innermost first
  pending,    \* <<subscription, event>> whose callback's promise is not settled
  \* history
  offered,    \* [Subs -> events that reached deliver()]
  handed,     \* [Subs -> sequence of events given to the callback]
  failed,     \* [Subs -> sequence of events whose callback threw or rejected]
  nested,     \* events emitted by a callback
  cut         \* subscriptions paused by their own callback during their flush

held == <<paused, buffer, dropped>>
log_ == <<sequence, log, nested>>
subscriptions == <<order, active, options>>
history == <<offered, handed, failed, cut>>
vars == <<subscriptions, held, log_, stack, pending, history>>

Events == 1..sequence

\* A loop over the subscriptions, a loop over a buffer, and a callback.
Frames ==
  [kind : {"emit"}, sub : {"-"}, event : Events, at : Nat \ {0}, accept : SUBSET Subs]
  \cup [kind : {"flush"}, sub : Subs, event : {0}, at : Nat \ {0}, accept : {{}}]
  \cup [kind : {"callback"}, sub : Subs, event : Events, at : {0}, accept : {{}}]

EmitFrame(e, accept) == [kind |-> "emit", sub |-> "-", event |-> e, at |-> 1, accept |-> accept]
FlushFrame(s) == [kind |-> "flush", sub |-> s, event |-> 0, at |-> 1, accept |-> {}]
CallbackFrame(s, e) == [kind |-> "callback", sub |-> s, event |-> e, at |-> 0, accept |-> {}]

\* The log is the latest events, at most maxBufferSize of them.
TypeOK ==
  /\ order \in Seq(Subs) /\ active \subseteq Range(order)
  /\ options \in [Subs -> AnyOptions]
  /\ paused \subseteq Subs
  /\ buffer \in [Subs -> Seq(Events)] /\ dropped \in [Subs -> Nat]
  /\ sequence \in Nat
  /\ log \in Seq(Events) /\ Len(log) <= MaxBuffer
  /\ \A i \in DOMAIN log : log[i] = sequence - Len(log) + i
  /\ stack \in Seq(Frames)
  /\ pending \subseteq Subs \X Events
  /\ offered \in [Subs -> SUBSET Events]
  /\ handed \in [Subs -> Seq(Events)] /\ failed \in [Subs -> Seq(Events)]
  /\ nested \subseteq Events /\ cut \subseteq Subs

Init ==
  /\ order = <<>> /\ active = {}
  /\ options = [s \in Subs |-> DefaultOptions]
  /\ paused = {} /\ buffer = [s \in Subs |-> <<>>] /\ dropped = [s \in Subs |-> 0]
  /\ sequence = 0 /\ log = <<>> /\ nested = {}
  /\ stack = <<>> /\ pending = {}
  /\ offered = [s \in Subs |-> {}] /\ cut = {}
  /\ handed = [s \in Subs |-> <<>>] /\ failed = [s \in Subs |-> <<>>]

------------------------------------------------------------------------------
(* Calls of the emitter: from outside, or by a callback.                   *)

Top == Head(stack)
Running(kind) == stack # <<>> /\ Top.kind = kind
MayCall == stack = <<>> \/ Running("callback")

Subscribe(s) ==
  /\ MayCall /\ s \notin Range(order)
  /\ (Len(order) + 1) * sequence <= MaxOffers
  /\ order' = Append(order, s) /\ active' = active \cup {s}
  /\ \E o \in Options[s] : options' = [options EXCEPT ![s] = o]
  /\ UNCHANGED <<held, log_, stack, pending, history>>

Unsubscribe(s) ==
  /\ MayCall /\ s \in active
  /\ active' = active \ {s}
  /\ UNCHANGED <<order, options, held, log_, stack, pending, history>>

Flushing(s) == \E i \in DOMAIN stack : stack[i].kind = "flush" /\ stack[i].sub = s

Pause(s) ==
  /\ MayCall /\ s \in active \ paused
  /\ paused' = paused \cup {s}
  /\ cut' = IF Flushing(s) THEN cut \cup {s} ELSE cut
  /\ UNCHANGED <<subscriptions, buffer, dropped, log_, stack, pending, offered, handed, failed>>

\* resume_(): delivery is on again before the buffer is flushed.
Resume(s) ==
  /\ stack = <<>> /\ s \in active
  /\ paused' = paused \ {s}
  /\ stack' = <<FlushFrame(s)>>
  /\ UNCHANGED <<subscriptions, buffer, dropped, log_, pending, history>>

\* The log, with the oldest event shifted out when it is too long.
Trimmed(events) == IF Len(events) > MaxBuffer THEN Tail(events) ELSE events

\* emit(event): number it, log it, then deliver it to those whose filter accepts.
Emit ==
  /\ MayCall /\ Len(stack) < MaxDepth
  /\ sequence < MaxEvents /\ (sequence + 1) * Len(order) <= MaxOffers
  /\ sequence' = sequence + 1
  /\ log' = Trimmed(Append(log, sequence'))
  /\ nested' = IF stack = <<>> THEN nested ELSE nested \cup {sequence'}
  /\ \E accept \in SUBSET Subs : stack' = <<EmitFrame(sequence', accept)>> \o stack
  /\ UNCHANGED <<subscriptions, held, pending, history>>

------------------------------------------------------------------------------
(* deliver().                                                              *)

\* Mutant: the newest event goes to the front.
HoldFirst(s, e) == <<e>> \o buffer[s]

Full(s) == Len(buffer[s]) >= options[s].buffer_size

\* The buffer of a paused subscription, the oldest shifted out when it is full.
Hold(s, e) == Append(IF Full(s) THEN Tail(buffer[s]) ELSE buffer[s], e)

\* A paused subscription: held, counted or disconnected, or nothing at all.
Withhold(s, e) ==
  /\ s \in paused
  /\ \/ /\ options[s].on_backpressure = "buffer"
        /\ buffer' = [buffer EXCEPT ![s] = Hold(s, e)]
        /\ dropped' = [dropped EXCEPT ![s] = IF Full(s) THEN @ + 1 ELSE @]
        /\ UNCHANGED active
     \/ /\ options[s].on_backpressure = "drop"
        /\ dropped' = [dropped EXCEPT ![s] = @ + 1]
        /\ UNCHANGED <<active, buffer>>
     \/ /\ options[s].on_backpressure = "disconnect"
        /\ active' = active \ {s}
        /\ UNCHANGED <<buffer, dropped>>
     \/ /\ options[s].on_backpressure \in {"pause", "resume"}
        /\ UNCHANGED <<active, buffer, dropped>>
  /\ UNCHANGED handed

\* The event goes to the subscription, and then the frames go on.
Deliver(s, e, frames) ==
  /\ \/ /\ s \notin paused
        /\ handed' = [handed EXCEPT ![s] = Append(@, e)]
        /\ stack' = <<CallbackFrame(s, e)>> \o frames
        /\ UNCHANGED <<active, buffer, dropped>>
     \/ Withhold(s, e) /\ stack' = frames
  /\ offered' = [offered EXCEPT ![s] = @ \cup {e}]
  /\ UNCHANGED <<order, options, paused, log_, pending, failed, cut>>

\* The frame below after one more step of its loop.
Advanced == <<[Top EXCEPT !.at = @ + 1]>> \o Tail(stack)

\* Mutant: the subscriptions are those there were when emit() began.
Snapshot(s) == s \in Top.accept

\* The Map is iterated live: one that has been removed is passed over.
Wanted(s) == s \in active /\ s \in Top.accept

EmitStep ==
  /\ Running("emit") /\ Top.at <= Len(order)
  /\ Wanted(order[Top.at])
  /\ Deliver(order[Top.at], Top.event, Advanced)

EmitSkip ==
  /\ Running("emit") /\ Top.at <= Len(order)
  /\ ~Wanted(order[Top.at])
  /\ stack' = Advanced
  /\ UNCHANGED <<subscriptions, held, log_, pending, history>>

EmitEnd ==
  /\ Running("emit") /\ Top.at > Len(order)
  /\ stack' = Tail(stack)
  /\ UNCHANGED <<subscriptions, held, log_, pending, history>>

\* The array is iterated live: what is pushed meanwhile is delivered too.
FlushStep ==
  /\ Running("flush") /\ Top.at <= Len(buffer[Top.sub])
  /\ Deliver(Top.sub, buffer[Top.sub][Top.at], Advanced)

Emptied(s) == [buffer EXCEPT ![s] = <<>>]

FlushEnd ==
  /\ Running("flush") /\ Top.at > Len(buffer[Top.sub])
  /\ buffer' = Emptied(Top.sub)
  /\ stack' = Tail(stack)
  /\ UNCHANGED <<subscriptions, paused, dropped, log_, pending, history>>

------------------------------------------------------------------------------
(* What becomes of a callback.                                             *)

\* Mutant: nothing is delivered again.
GivenUp(s, e) == buffer

\* at_least_once: the event is kept for the next flush, full buffer or not.
Rebuffered(s, e) ==
  IF options[s].delivery = "at_least_once"
  THEN [buffer EXCEPT ![s] = Append(@, e)] ELSE buffer

Failures == FoldFunction(LAMBDA seq, n : n + Len(seq), 0, failed)

Fail(s, e) ==
  /\ Failures < MaxFailures
  /\ failed' = [failed EXCEPT ![s] = Append(@, e)]
  /\ buffer' = Rebuffered(s, e)
  /\ UNCHANGED <<subscriptions, paused, dropped, log_, offered, handed, cut>>

CallbackReturns ==
  /\ Running("callback")
  /\ stack' = Tail(stack)
  /\ pending' \in {pending, pending \cup {<<Top.sub, Top.event>>}}
  /\ UNCHANGED <<subscriptions, held, log_, history>>

CallbackThrows ==
  /\ Running("callback")
  /\ Fail(Top.sub, Top.event)
  /\ stack' = Tail(stack)
  /\ UNCHANGED pending

Resolve ==
  /\ stack = <<>>
  /\ \E p \in pending : pending' = pending \ {p}
  /\ UNCHANGED <<subscriptions, held, log_, stack, history>>

Reject ==
  /\ stack = <<>>
  /\ \E p \in pending : Fail(p[1], p[2]) /\ pending' = pending \ {p}
  /\ UNCHANGED stack

------------------------------------------------------------------------------

\* What the thread does once something is on the stack.
Unwind ==
  EmitStep \/ EmitSkip \/ EmitEnd \/ FlushStep \/ FlushEnd \/ CallbackReturns \/ CallbackThrows

Next ==
  \/ \E s \in Subs : Subscribe(s) \/ Unsubscribe(s) \/ Pause(s) \/ Resume(s)
  \/ Emit \/ Unwind \/ Resolve \/ Reject

Spec == Init /\ [][Next]_vars

------------------------------------------------------------------------------
(* Properties.                                                             *)

\* How often an event is in a sequence.
Times(seq, e) == Cardinality({i \in DOMAIN seq : seq[i] = e})
InCallback(s, e) ==
  \E i \in DOMAIN stack : stack[i].kind = "callback" /\ stack[i].sub = s /\ stack[i].event = e

\* The last callback for the event came to its end without failing.
Handled(s, e) ==
  Times(handed[s], e) > Times(failed[s], e) /\ <<s, e>> \notin pending /\ ~InCallback(s, e)

\* events.md: at_least_once "may redeliver, won't miss".  While a subscription
\* that buffers is subscribed, every event offered to it was handled, is in the
\* buffer or with the callback, or was counted as dropped.  (Not so once its
\* callback pauses it during its flush: the rest of the buffer is cleared.)
NothingMissed ==
  \A s \in Subs \ cut :
    options[s].delivery = "at_least_once" /\ options[s].on_backpressure = "buffer"
    => LET missing == {e \in offered[s] : /\ ~Handled(s, e) /\ ~InCallback(s, e)
                                          /\ <<s, e>> \notin pending
                                          /\ e \notin Range(buffer[s])}
       IN Cardinality(missing) <= dropped[s]

\* An event is given to a callback again only after the callback failed on it
\* under at_least_once; under the other modes it is given once.
NoNeedlessRedelivery ==
  \A s \in Subs : \A e \in Events :
    Times(handed[s], e) <= 1 + (IF options[s].delivery = "at_least_once"
                                THEN Times(failed[s], e) ELSE 0)

\* Each event once: none is missed, and none comes back without a failure.
DeliveredOnce == NothingMissed /\ NoNeedlessRedelivery

\* Pausing, buffering and flushing keep the order: of the events that were
\* emitted from outside, a callback first sees an earlier one first.  (One that
\* is emitted by a callback overtakes what waits further down the stack.)
FirstSeenInOrder ==
  \A s \in Subs : \A i, j \in DOMAIN handed[s] :
    /\ i < j /\ {handed[s][i], handed[s][j]} \cap nested = {}
    /\ \A k \in 1..(j - 1) : handed[s][k] # handed[s][j]
    => handed[s][i] < handed[s][j]

\* After unsubscribe() a callback is called only by a flush that was running.
QuietAfterUnsubscribe ==
  [][\A s \in Subs : handed'[s] # handed[s] => s \in active \/ Flushing(s)]_vars

==============================================================================
