---------------------------- MODULE EventBufferer ----------------------------
(***************************************************************************)
(* EventBufferer (src/packages/common/src/event/bufferer.ts) around the    *)
(* event of an Emitter: what the wrapped event delivers during             *)
(* bufferEvents(fn) is kept in a buffer and handed to its listeners when   *)
(* fn has returned.                                                        *)
(*                                                                         *)
(* Emitter keeps its own listeners beside the wrapped ones, which it only  *)
(* knows through the closures of wrapEvent(): each is an entry of its own, *)
(* so `Wrapped' is part of `Bound'.  The call stack of Emitter has two     *)
(* more kinds of frame: a "function", which bufferEvents() runs, and a     *)
(* "flush", which hands on its buffer.  Listeners and functions may emit,  *)
(* change the listeners, call bufferEvents() again, and throw, to a caller *)
(* that catches.                                                           *)
(***************************************************************************)
EXTENDS Emitter

CONSTANTS
    Wrapped,    \* listeners of the wrapped event
    MaxCalls    \* bound: calls of bufferEvents()

ASSUME BuffererAssumption == Wrapped \subseteq Bound /\ MaxCalls \in Nat

VARIABLES
    buffers,    \* buffers, the innermost last: the calls they were made for
    content,    \* the pairs in the buffer each call made
    calls,      \* number of calls of bufferEvents()
    handed,     \* history: the pairs handed to wrapped listeners, in order
    thrown      \* history: a function, or a listener during a flush, threw

bufferVars == <<buffers, content, calls, handed, thrown>>
emissionVars == <<listeners, handles, disposed, hooked, queue, emitted, audience, received>>
allVars == <<vars, bufferVars>>

FunctionFrame(call) == [kind |-> "function", call |-> call]
FlushFrame(pairs) == [kind |-> "flush", left |-> pairs]

BuffererInit ==
    /\ Init
    /\ buffers = <<>>
    /\ content = [call \in 1..MaxCalls |-> <<>>]
    /\ calls = 0
    /\ handed = <<>>
    /\ thrown = FALSE

\* The listener of the next pair is a closure of wrapEvent().
NextIsWrapped == queue # <<>> /\ Head(queue)[1] \in Wrapped

-----------------------------------------------------------------------------
(* Broken variants, each the way a bug would be written.                   *)

\* The listener is called, although the event has been buffered.
BufferTwice ==
    /\ Draining
    /\ NextIsWrapped /\ buffers # <<>>
    /\ Deliver
    /\ handed' = Append(handed, Head(queue))
    /\ content' = [content EXCEPT ![Last(buffers)] = Append(@, Head(queue))]
    /\ UNCHANGED <<buffers, calls, thrown>>

\* The buffer is flushed, but stays on the stack of buffers.
FunctionReturnKeeping ==
    /\ Running = "function"
    /\ stack' = Append(Front(stack), FlushFrame(content[Last(stack).call]))
    /\ UNCHANGED <<emissionVars, bufferVars>>

-----------------------------------------------------------------------------
(* The operations.                                                         *)

\* The emitter calls a closure that finds a buffer, leaves the event there and
\* returns.
Buffer ==
    /\ Draining
    /\ NextIsWrapped /\ buffers # <<>>
    /\ queue' = Tail(queue)
    /\ received' = Append(received, Head(queue))
    /\ content' = [content EXCEPT ![Last(buffers)] = Append(@, Head(queue))]
    /\ UNCHANGED <<listeners, handles, disposed, hooked, stack, emitted, audience,
                   buffers, calls, handed, thrown>>

\* The emitter calls a listener, of its own or through a closure.
Call ==
    /\ Deliver
    /\ NextIsWrapped => buffers = <<>>
    /\ handed' = IF NextIsWrapped THEN Append(handed, Head(queue)) ELSE handed
    /\ UNCHANGED <<buffers, content, calls, thrown>>

\* bufferEvents(fn)
BufferEvents ==
    /\ UserCode
    /\ calls < MaxCalls
    /\ calls' = calls + 1
    /\ buffers' = Append(buffers, calls + 1)
    /\ stack' = Append(stack, FunctionFrame(calls + 1))
    /\ UNCHANGED <<emissionVars, content, handed, thrown>>

\* fn returns: the top of the stack of buffers is popped, and the call's own
\* buffer flushed.  They are the same unless a nested function threw.
FunctionReturn ==
    /\ Running = "function"
    /\ buffers' = Front(buffers)
    /\ stack' = Append(Front(stack), FlushFrame(content[Last(stack).call]))
    /\ UNCHANGED <<emissionVars, content, calls, handed, thrown>>

\* fn throws: bufferEvents() is left without taking its buffer off the stack.
FunctionThrow ==
    /\ Running = "function"
    /\ stack' = Front(stack)
    /\ thrown' = TRUE
    /\ UNCHANGED <<emissionVars, buffers, content, calls, handed>>

\* One event of the buffer is handed to its listener; forEach() does not visit
\* what is added to the buffer meanwhile.
Flush ==
    /\ Running = "flush"
    /\ Last(stack).left # <<>>
    /\ LET left == Last(stack).left
       IN  /\ stack' = Front(stack) \o <<FlushFrame(Tail(left)), CallFrame(Head(left))>>
           /\ handed' = Append(handed, Head(left))
    /\ UNCHANGED <<emissionVars, buffers, content, calls, thrown>>

\* bufferEvents() returns.
FlushEnd ==
    /\ Running = "flush"
    /\ Last(stack).left = <<>>
    /\ stack' = Front(stack)
    /\ UNCHANGED <<emissionVars, bufferVars>>

\* A listener throws while it is handed a buffered event: nothing catches
\* before the caller of bufferEvents(), and the rest of the buffer is dropped.
\* (The emitter catches what a listener it called throws: ListenerReturn.)
FlushThrow ==
    /\ Running = "listener"
    /\ stack[Len(stack) - 1].kind = "flush"
    /\ stack' = Front(Front(stack))
    /\ thrown' = TRUE
    /\ UNCHANGED <<emissionVars, buffers, content, calls, handed>>

\* What the emitter and its users do on their own.
Emission ==
    /\ \/ \E l \in Listeners : Subscribe(l) \/ Unsubscribe(l)
       \/ Emit \/ EmitReturn \/ ListenerReturn \/ Dispose
    /\ UNCHANGED bufferVars

BuffererNext ==
    \/ Emission
    \/ Buffer \/ Call
    \/ BufferEvents \/ FunctionReturn \/ FunctionThrow
    \/ Flush \/ FlushEnd \/ FlushThrow

\* Functions and listeners return.
BuffererSpec ==
    /\ BuffererInit
    /\ [][BuffererNext]_allVars
    /\ WF_allVars(Buffer \/ Call \/ FunctionReturn \/ Flush \/ FlushEnd)
    /\ WF_allVars((EmitReturn \/ ListenerReturn) /\ UNCHANGED bufferVars)

-----------------------------------------------------------------------------
(* Properties.                                                             *)

\* The pairs in the buffers of functions that run, and in flushes.
Waiting ==
    UNION {IF stack[i].kind = "function" THEN ToSet(content[stack[i].call])
           ELSE IF stack[i].kind = "flush" THEN ToSet(stack[i].left) ELSE {} :
               i \in DOMAIN stack}

\* No event a closure received is forgotten: it was handed to its listener, or
\* is in the buffer of a function that runs, or waits in a flush, however
\* functions, listeners and emits are nested; holds unless one throws.  And none
\* is handed on twice, also when functions throw and their buffers stay on the
\* stack under those of later calls (bufferer.ts:27-34, 42-45).
NoEventLost ==
    /\ ~thrown => {pair \in ToSet(received) : pair[1] \in Wrapped} = ToSet(handed) \cup Waiting
    /\ IsInjective(handed)

\* A wrapped listener present at an emission is handed the event in the end, once
\* functions and listeners have returned, unless one throws: no buffer is left
\* behind (bufferer.ts:40-46).
EventuallyHanded ==
    \A l \in Wrapped : \A e \in 1..MaxEvents :
        l \in audience[e] ~> (<<l, e>> \in ToSet(handed) \/ thrown)
=============================================================================
