------------------------------ MODULE Emitter ------------------------------
(***************************************************************************)
(* The event emitter of @jil/common (src/packages/common/src/event/        *)
(* emitter.ts).                                                            *)
(*                                                                         *)
(* JavaScript runs one call at a time, so the interleavings of this class  *)
(* are the re-entrant ones: a listener that is being called may emit,      *)
(* subscribe, unsubscribe or dispose.  `stack' is the part of the call     *)
(* stack that matters: a frame "emit" is a drain loop inside emit(), a     *)
(* frame "listener" is a listener that has been called and has not         *)
(* returned.  User code runs when the stack is empty or its last frame is  *)
(* a listener; an emit() running in a listener drains the pairs its caller *)
(* left in the shared delivery queue.                                      *)
(*                                                                         *)
(* Events are numbered in the order they are emitted.  A listener is the   *)
(* entry kept in the Set `_listeners': a function, or the fresh pair       *)
(* [function, thisArgs].                                                   *)
(***************************************************************************)
EXTENDS Integers, Sequences, FiniteSets, SequencesExt

CONSTANTS
    Functions,   \* listeners given without thisArgs: the same entry every time
    Bound,       \* listeners given with thisArgs: an entry of its own each time
    MaxEvents    \* bound: emit() is called at most this often

ASSUME EmitterAssumption ==
    /\ Functions \cap Bound = {}
    /\ MaxEvents \in Nat

Listeners == Functions \cup Bound

VARIABLES
    listeners,   \* _listeners, in insertion order
    handles,     \* listeners whose subscriber holds an unsubscribe function
    disposed,    \* _disposed
    hooked,      \* what the owner's onFirstListenerAdd / onLastListenerRemove track
    queue,       \* _deliveryQueue: pairs <<listener, event>>
    stack,       \* active emit() loops and listener calls
    emitted,     \* number of calls of emit()
    audience,    \* history: the listeners present when an event was emitted
    received     \* history: the pairs delivered so far

emitterVars == <<listeners, handles, disposed, hooked, queue, stack, audience, received>>
vars == <<emitterVars, emitted>>

EmitFrame == [kind |-> "emit"]
CallFrame(pair) == [kind |-> "listener", pair |-> pair]

Pairs == Listeners \X (Nat \ {0})
Frames == [kind : {"emit"}] \cup [kind : {"listener"}, pair : Pairs]

\* hasListeners()
HasListeners == listeners # <<>>

\* Whose statements run now.
Running == IF stack = <<>> THEN "program" ELSE Last(stack).kind

\* A listener, the program outside every listener, or a function that an
\* EventBufferer runs.
UserCode == Running \in {"program", "listener", "function"}

\* The innermost drain loop of emit().
Draining == Running = "emit"

Init ==
    /\ listeners = <<>>
    /\ handles = {}
    /\ disposed = FALSE
    /\ hooked = FALSE
    /\ queue = <<>>
    /\ stack = <<>>
    /\ emitted = 0
    /\ audience = [e \in 1..MaxEvents |-> {}]
    /\ received = <<>>

\* A Set entry added: an entry already there keeps its place.
Added(l) == IF l \in ToSet(listeners) THEN listeners ELSE Append(listeners, l)

\* A Set entry deleted.
Removed(l) ==
    IF l \in ToSet(listeners)
    THEN RemoveAt(listeners, CHOOSE i \in DOMAIN listeners : listeners[i] = l)
    ELSE listeners

\* The pairs emit() puts in the delivery queue for event e.
Round(e) == [i \in 1..Len(listeners) |-> <<listeners[i], e>>]

-----------------------------------------------------------------------------
(* Broken variants of the operations below, each the way a bug would be      *)
(* written; the properties are shown to catch them.                          *)

\* emit() keeps nothing back for the outer loop: its pairs jump the queue.
StartEmitFirst(e) ==
    IF HasListeners
    THEN /\ queue' = Round(e) \o queue
         /\ stack' = Append(stack, EmitFrame)
         /\ audience' = [audience EXCEPT ![e] = ToSet(listeners)]
         /\ UNCHANGED <<listeners, handles, disposed, hooked, received>>
    ELSE UNCHANGED emitterVars

\* The listeners are iterated live, so one added during a delivery joins it.
SubscribeLive(l) ==
    /\ UserCode
    /\ l \in Bound => l \notin handles
    /\ listeners' = Added(l)
    /\ handles' = handles \cup {l}
    /\ hooked' = (hooked \/ ~HasListeners)
    /\ queue' = IF Running = "listener" THEN Append(queue, <<l, emitted>>) ELSE queue
    /\ UNCHANGED <<disposed, stack, emitted, audience, received>>

-----------------------------------------------------------------------------
(* The operations of the class.                                            *)

\* event(listener, thisArgs): a bound listener makes a new entry, so the same
\* entry is never added twice.
Subscribe(l) ==
    /\ UserCode
    /\ l \in Bound => l \notin handles
    /\ listeners' = Added(l)
    /\ handles' = handles \cup {l}
    /\ hooked' = (hooked \/ ~HasListeners)
    /\ UNCHANGED <<disposed, queue, stack, emitted, audience, received>>

\* The function event() returned.  It may be called again and again; each call
\* that leaves no listener reports onLastListenerRemove.
Unsubscribe(l) ==
    /\ UserCode
    /\ l \in handles
    /\ ~disposed
    /\ listeners' = Removed(l)
    /\ hooked' = (hooked /\ listeners' # <<>>)
    /\ UNCHANGED <<handles, disposed, queue, stack, emitted, audience, received>>

\* The first half of emit(data) for event e: one pair per listener goes to the
\* delivery queue and the drain loop starts; nothing without listeners.
StartEmit(e) ==
    IF HasListeners
    THEN /\ queue' = queue \o Round(e)
         /\ stack' = Append(stack, EmitFrame)
         /\ audience' = [audience EXCEPT ![e] = ToSet(listeners)]
         /\ UNCHANGED <<listeners, handles, disposed, hooked, received>>
    ELSE UNCHANGED emitterVars

Emit ==
    /\ UserCode
    /\ emitted < MaxEvents
    /\ emitted' = emitted + 1
    /\ StartEmit(emitted + 1)

\* One turn of the drain loop: the oldest pair leaves the queue and its
\* listener is called, whether or not it is still subscribed.
Deliver ==
    /\ Draining
    /\ queue # <<>>
    /\ queue' = Tail(queue)
    /\ stack' = Append(stack, CallFrame(Head(queue)))
    /\ received' = Append(received, Head(queue))
    /\ UNCHANGED <<listeners, handles, disposed, hooked, emitted, audience>>

\* The queue is empty: emit() returns to its caller.
EmitReturn ==
    /\ Draining
    /\ queue = <<>>
    /\ stack' = Front(stack)
    /\ UNCHANGED <<listeners, handles, disposed, hooked, queue, emitted, audience, received>>

\* The listener returns, or throws and onUnexpectedError takes the exception.
ListenerReturn ==
    /\ Running = "listener"
    /\ stack' = Front(stack)
    /\ UNCHANGED <<listeners, handles, disposed, hooked, queue, emitted, audience, received>>

\* dispose(): the delivery queue is left alone.
Dispose ==
    /\ UserCode
    /\ ~disposed
    /\ disposed' = TRUE
    /\ listeners' = <<>>
    /\ hooked' = FALSE
    /\ UNCHANGED <<handles, queue, stack, emitted, audience, received>>

Next ==
    \/ \E l \in Listeners : Subscribe(l) \/ Unsubscribe(l)
    \/ Emit
    \/ Deliver
    \/ EmitReturn
    \/ ListenerReturn
    \/ Dispose

\* Listeners return: the drain loop and the listener calls are plain calls.
Fairness == WF_vars(Deliver) /\ WF_vars(EmitReturn) /\ WF_vars(ListenerReturn)

Spec == Init /\ [][Next]_vars /\ Fairness

-----------------------------------------------------------------------------
(* Properties.                                                             *)

TypeOK ==
    /\ listeners \in Seq(Listeners)
    /\ handles \subseteq Listeners
    /\ disposed \in BOOLEAN
    /\ hooked \in BOOLEAN
    /\ queue \in Seq(Pairs)
    /\ stack \in Seq(Frames)
    /\ emitted \in 0..MaxEvents
    /\ audience \in [1..MaxEvents -> SUBSET Listeners]
    /\ received \in Seq(Pairs)

\* Every listener receives the events in the order they were emitted and none
\* twice, and no listener receives a later event before another one has
\* received an earlier one, whatever listeners emit while they are called: the
\* delivery queue shared by nested calls of emit() (emitter.ts:108-121).
EmissionOrder ==
    \A i, j \in 1..Len(received) : i < j =>
        /\ received[i][2] <= received[j][2]
        /\ received[i][1] = received[j][1] => received[i][2] < received[j][2]

\* A listener that was subscribed when an event was emitted receives it even
\* if it unsubscribes or the emitter is disposed meanwhile, and when control is
\* back outside every listener nothing is left to deliver (emitter.ts:112-121).
NothingLost ==
    stack = <<>> =>
        \A e \in 1..MaxEvents : \A l \in audience[e] : <<l, e>> \in ToSet(received)

\* An event reaches no one who subscribed after it was emitted, even from
\* inside a listener of that very event (emitter.ts:112-114).
OnlyAudience ==
    \A i \in 1..Len(received) : received[i][1] \in audience[received[i][2]]

\* An event reaches exactly the listeners that were there when it was emitted.
ExactAudience == NothingLost /\ OnlyAudience

\* The owner that follows onFirstListenerAdd and onLastListenerRemove (Relay,
\* EventMultiplexer) is hooked to its source exactly while there are
\* listeners, across double unsubscribes, disposal and later subscriptions
\* (emitter.ts:62-87, 139-146).
HookedIffListeners == hooked = HasListeners
=============================================================================
