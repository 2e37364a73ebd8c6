-------------------------- MODULE WriteableStream --------------------------
(***************************************************************************)
(* The stream of @jil/common (WriteableStreamImpl in                       *)
(* src/packages/common/src/stream.ts).                                     *)
(*                                                                         *)
(* Everything is synchronous, so what interleaves are listeners: while one *)
(* is called it may write, end, pause, resume, destroy, add or remove      *)
(* listeners.  `stack' holds what remains to be done of the calls that are *)
(* active, the innermost last: a frame "emit" has listeners left to call,  *)
(* a frame "listener" is one that runs, any other frame is the rest of the *)
(* method it is named for.  Listeners are not told apart, only counted.    *)
(* Chunks and errors are numbered in the order they are written; the       *)
(* reducer joins the buffered chunks into one.                             *)
(***************************************************************************)
EXTENDS Integers, Sequences, FiniteSets, SequencesExt

CONSTANTS
    HighWaterMark,   \* options.highWaterMark
    MaxWrites,       \* bound: chunks written
    MaxErrors,       \* bound: calls of error()
    MaxListeners,    \* bound: listeners of one event
    MaxNesting       \* bound: only listeners nested this deep call the stream

ASSUME StreamAssumption ==
    {HighWaterMark, MaxWrites, MaxErrors, MaxListeners, MaxNesting} \subseteq Nat

VARIABLES
    flowing, ended, destroyed,   \* state
    data,         \* buffer.data
    errors,       \* buffer.error
    listeners,    \* listeners: how many each event has
    pending,      \* pendingWritePromises: the chunks whose writers wait
    told,         \* history: the chunks whose writers were given a promise
    released,     \* history: those whose promise was resolved
    stack,
    written,      \* number of chunks written
    raised,       \* number of calls of error()
    sent,         \* history: the chunks in the order they were emitted
    heard,        \* history: errors emitted or reported as unexpected
    before,       \* history: number of chunks written before the first end(), or -1
    endSent,      \* history: an end event reached a listener
    pausedInFlow  \* history: a listener paused the stream while resume() or
                  \* on() was emitting what had been buffered

promises == <<pending, told, released>>
buffers == <<data, errors, promises>>
state == <<flowing, ended, destroyed, listeners>>
counts == <<written, raised>>
history == <<sent, heard, before, endSent, pausedInFlow>>
vars == <<buffers, state, counts, history, stack>>

Events == {"data", "error", "end"}

Frame(kind, n) == [kind |-> kind, n |-> n]
Rest(name) == Frame(name, 0)
Flows == {"flowData", "dataFlowed", "flowErrors", "errorLoop", "flowEnd"}

Running == IF stack = <<>> THEN "program" ELSE Last(stack).kind

\* User code runs and calls a method that does not return at once.
MayCall ==
    /\ ~destroyed
    /\ Running \in {"program", "listener"}
    /\ Cardinality({i \in DOMAIN stack : stack[i].kind = "listener"}) <= MaxNesting

Call(frames) == stack' = stack \o frames
Continue(frames) == stack' = Front(stack) \o frames

\* emitData(), emitError(), emitEnd(): as many calls as there are listeners now.
Emission(event) == Frame("emit", listeners[event])

Init ==
    /\ flowing = FALSE /\ ended = FALSE /\ destroyed = FALSE
    /\ data = <<>> /\ errors = <<>>
    /\ listeners = [event \in Events |-> 0]
    /\ pending = {} /\ told = {} /\ released = {}
    /\ stack = <<>>
    /\ written = 0 /\ raised = 0
    /\ sent = <<>> /\ heard = {} /\ before = -1
    /\ endSent = FALSE /\ pausedInFlow = FALSE

-----------------------------------------------------------------------------
(* Broken variants, each the way a bug would be written.                   *)

\* The buffer is emitted but not emptied.
DataFlowedKeeping ==
    /\ Running = "dataFlowed"
    /\ pending' = {} /\ released' = released \cup pending
    /\ Continue(<<>>)
    /\ UNCHANGED <<data, errors, told, state, counts, history>>

\* The promises are taken off the list and then there is none to resolve.
DataFlowedSilently ==
    /\ Running = "dataFlowed"
    /\ data' = <<>>
    /\ pending' = {}
    /\ Continue(<<>>)
    /\ UNCHANGED <<errors, told, released, state, counts, history>>

\* resume() emits the end before the data.
FlowEndFirst == <<Rest("flowData"), Rest("flowErrors"), Rest("flowEnd")>>

-----------------------------------------------------------------------------
(* What user code calls.                                                   *)

\* write(data), before the frames `rest' of the method that called it
WriteThen(rest) ==
    /\ written < MaxWrites
    /\ written' = written + 1
    /\ IF flowing
       THEN /\ sent' = Append(sent, written + 1)
            /\ Call(rest \o <<Emission("data")>>)
            /\ UNCHANGED <<data, promises>>
       ELSE /\ data' = Append(data, written + 1)
            /\ LET waits == IF Len(data') > HighWaterMark THEN {written + 1} ELSE {}
               IN  pending' = pending \cup waits /\ told' = told \cup waits
            /\ Call(rest)
            /\ UNCHANGED <<released, sent>>
    /\ UNCHANGED <<errors, raised, state, heard, endSent, pausedInFlow>>

Write == MayCall /\ WriteThen(<<>>) /\ UNCHANGED before

\* error(error); an error without listeners is reported as unexpected
Error ==
    /\ MayCall
    /\ raised < MaxErrors
    /\ raised' = raised + 1
    /\ IF flowing
       THEN heard' = heard \cup {raised + 1} /\ Call(<<Emission("error")>>) /\ UNCHANGED errors
       ELSE errors' = Append(errors, raised + 1) /\ UNCHANGED <<heard, stack>>
    /\ UNCHANGED <<data, promises, written, state, sent, before, endSent, pausedInFlow>>

\* end(result), with a result or without
End ==
    /\ MayCall
    /\ \/ WriteThen(<<Rest("endRest")>>)
       \/ Call(<<Rest("endRest")>>) /\ UNCHANGED <<buffers, counts, state, sent, heard, endSent, pausedInFlow>>
    /\ before' = IF before >= 0 THEN before ELSE written'

Pause ==
    /\ MayCall
    /\ flowing' = FALSE
    /\ pausedInFlow' = (pausedInFlow \/ (flowing /\ \E i \in DOMAIN stack : stack[i].kind \in Flows))
    /\ UNCHANGED <<ended, destroyed, listeners, buffers, counts, sent, heard, before, endSent, stack>>

\* resume() of a stream that does not flow: flowData(), flowErrors(), flowEnd()
Flow == <<Rest("flowEnd"), Rest("flowErrors"), Rest("flowData")>>

Resume ==
    /\ MayCall
    /\ ~flowing
    /\ flowing' = TRUE
    /\ Call(Flow)
    /\ UNCHANGED <<ended, destroyed, listeners, buffers, counts, history>>

\* The program adds a listener.
Listens(event) ==
    /\ MayCall
    /\ listeners[event] < MaxListeners
    /\ listeners' = [listeners EXCEPT ![event] = @ + 1]
    /\ UNCHANGED <<ended, destroyed, buffers, counts, sent, heard, before, pausedInFlow>>

\* on("data") resumes the stream.
OnData ==
    /\ Listens("data")
    /\ flowing' = TRUE
    /\ Call(IF flowing THEN <<>> ELSE Flow)
    /\ UNCHANGED endSent

\* on("end") emits the end of a flowing stream that has ended.
OnEnd ==
    /\ Listens("end")
    /\ Call(IF flowing /\ ended THEN <<Rest("endHeard"), Frame("emit", listeners'["end"])>> ELSE <<>>)
    /\ endSent' = (endSent \/ (flowing /\ ended))
    /\ UNCHANGED flowing

\* on("error") emits the buffered errors of a flowing stream.
OnError ==
    /\ Listens("error")
    /\ Call(IF flowing THEN <<Rest("flowErrors")>> ELSE <<>>)
    /\ UNCHANGED <<flowing, endSent>>

RemoveListener(event) ==
    /\ MayCall
    /\ listeners[event] > 0
    /\ listeners' = [listeners EXCEPT ![event] = @ - 1]
    /\ UNCHANGED <<flowing, ended, destroyed, buffers, counts, history, stack>>

\* destroy(), whose effect a second call does not change; the promises of writers
\* are dropped and not resolved.
Destroyed ==
    /\ destroyed' = TRUE /\ ended' = TRUE
    /\ data' = <<>> /\ errors' = <<>> /\ pending' = {}
    /\ listeners' = [event \in Events |-> 0]
    /\ UNCHANGED <<flowing, told, released, counts, history>>

Destroy == MayCall /\ Destroyed /\ UNCHANGED stack

-----------------------------------------------------------------------------
(* The rest of the methods, when the listeners they called have returned.  *)

FlowData ==
    /\ Running = "flowData"
    /\ Continue(IF data = <<>> THEN <<>> ELSE <<Rest("dataFlowed"), Emission("data")>>)
    /\ sent' = sent \o data
    /\ UNCHANGED <<buffers, state, counts, heard, before, endSent, pausedInFlow>>

DataFlowed ==
    /\ Running = "dataFlowed"
    /\ data' = <<>>
    /\ pending' = {} /\ released' = released \cup pending
    /\ Continue(<<>>)
    /\ UNCHANGED <<errors, told, state, counts, history>>

FlowErrors ==
    /\ Running = "flowErrors"
    /\ Continue(IF listeners["error"] > 0 THEN <<Frame("errorLoop", 1)>> ELSE <<>>)
    /\ UNCHANGED <<buffers, state, counts, history>>

\* The loop visits what listeners add to the buffer meanwhile, then empties it.
ErrorLoop ==
    /\ Running = "errorLoop"
    /\ LET i == Last(stack).n
       IN  IF i <= Len(errors)
           THEN /\ heard' = heard \cup {errors[i]}
                /\ Continue(<<Frame("errorLoop", i + 1), Emission("error")>>)
                /\ UNCHANGED errors
           ELSE errors' = <<>> /\ Continue(<<>>) /\ UNCHANGED heard
    /\ UNCHANGED <<data, promises, state, counts, sent, before, endSent, pausedInFlow>>

FlowEnd ==
    /\ Running = "flowEnd"
    /\ Continue(IF ended THEN <<Emission("end")>> ELSE <<>>)
    /\ endSent' = (endSent \/ (ended /\ listeners["end"] > 0))
    /\ UNCHANGED <<buffers, state, counts, sent, heard, before, pausedInFlow>>

\* The end of on("end"): the stream is destroyed unless its listeners are gone.
EndHeard ==
    /\ Running = "endHeard"
    /\ Continue(<<>>)
    /\ IF listeners["end"] > 0 THEN Destroyed ELSE UNCHANGED <<buffers, state, counts, history>>

\* end() after it has written its result
EndRest ==
    /\ Running = "endRest"
    /\ IF flowing
       THEN /\ Continue(<<Rest("destroy"), Emission("end")>>)
            /\ endSent' = (endSent \/ listeners["end"] > 0)
            /\ UNCHANGED ended
       ELSE Continue(<<>>) /\ ended' = TRUE /\ UNCHANGED endSent
    /\ UNCHANGED <<flowing, destroyed, listeners, buffers, counts, sent, heard, before, pausedInFlow>>

EndDestroys == Running = "destroy" /\ Destroyed /\ Continue(<<>>)

\* forEach() of an emission calls the next listener, or ends.
Deliver ==
    /\ Running = "emit"
    /\ LET left == Last(stack).n
       IN  Continue(IF left = 0 THEN <<>> ELSE <<Frame("emit", left - 1), Rest("listener")>>)
    /\ UNCHANGED <<buffers, state, counts, history>>

ListenerReturn ==
    /\ Running = "listener"
    /\ Continue(<<>>)
    /\ UNCHANGED <<buffers, state, counts, history>>

Next ==
    \/ Write \/ Error \/ End \/ Pause \/ Resume \/ Destroy
    \/ OnData \/ OnEnd \/ OnError
    \/ \E event \in Events : RemoveListener(event)
    \/ FlowData \/ DataFlowed \/ FlowErrors \/ ErrorLoop \/ FlowEnd
    \/ EndHeard \/ EndRest \/ EndDestroys
    \/ Deliver \/ ListenerReturn

Spec == Init /\ [][Next]_vars

-----------------------------------------------------------------------------
(* Properties.                                                             *)

InFlight == \E i \in DOMAIN stack : stack[i].kind = "dataFlowed"
Steady == ~destroyed /\ ~pausedInFlow

\* Chunks are emitted in the order they were written, none twice and none lost,
\* and an error is buffered until somebody listens and was then emitted or
\* reported, whatever listeners write, end or resume meanwhile, unless a listener
\* pauses the stream while its buffer is emitted: flowData() and flowErrors()
\* empty their buffer after the listeners have run (stream.ts:228-261, 394-417).
NothingLost ==
    Steady =>
        /\ sent \o (IF InFlight THEN <<>> ELSE data) = [c \in 1..written |-> c]
        /\ 1..raised \subseteq heard \cup ToSet(errors)

\* What was written before end() was called has been emitted before any listener
\* hears of the end, under the same condition: a stream that a listener paused in
\* the middle loses what is written meanwhile and still emits its end, against
\* "unless the data is completely consumed" (stream.ts:30-32, 263-284, 419-427).
EndAfterData == ~pausedInFlow /\ endSent => 1..before \subseteq ToSet(sent)

\* Writers whose promise nothing resolves any more: whoever awaits it waits for ever.
Forsaken == told \ (pending \cup released)

\* A writer is told to wait only while more is buffered than the high-water mark, so
\* that the next resume() releases it; it is released once its chunk was emitted,
\* unless a listener paused the stream meanwhile; and none is forgotten when the
\* buffer is emptied. Only destroy() leaves promises unresolved that write() has asked
\* to await: it drops them with the buffer, and their writers hang
\* (stream.ts:237-242, 374, 402-405; "should be awaited on", 85-87).
WritersWaitForData ==
    /\ pending # {} => Len(data) > HighWaterMark
    /\ ~pausedInFlow => released \subseteq ToSet(sent)
    /\ Forsaken # {} => destroyed

=============================================================================
