-------------------------- MODULE DeferringEmitter --------------------------
(***************************************************************************)
(* The subclasses of Emitter that hold events back (src/packages/common/   *)
(* src/event/): PauseableEmitter, which holds them while it is paused,     *)
(* DebounceEmitter, a PauseableEmitter that an emit() pauses until a timer *)
(* runs, and MicrotaskEmitter, which releases them in a microtask.  Held   *)
(* events are released one by one, or merged into one event.               *)
(*                                                                         *)
(* Emitter is the super class: its events are the calls of super.emit(),   *)
(* called rounds here, and `contents' gives the program's own events each  *)
(* round carries.  A frame "flush" is the loop that releases events one by *)
(* one, in resume() or in the microtask; listeners called from it may      *)
(* emit, pause and resume.                                                 *)
(***************************************************************************)
EXTENDS Emitter, Subsequences

CONSTANTS
    MaxIssued,  \* bound: the program emits at most this often
    MaxPauses,  \* bound: the program pauses at most this often
    MaxChanges  \* bound: the listeners change at most this often

\* The program's calls are bounded, so that the bound on rounds never stops one.
ASSUME DeferringAssumption ==
    /\ MaxIssued \in Nat /\ MaxPauses \in Nat /\ MaxChanges \in Nat
    /\ MaxEvents >= MaxIssued + MaxPauses

VARIABLES
    class,      \* the class of the emitter: "pauseable", "debounce" or "microtask"
    merge,      \* a merge function was given
    pauses,     \* _pauses
    held,       \* _queue, or _queuedEvents of a MicrotaskEmitter
    pending,    \* _handle: the debounce timer runs; or the microtask is queued
    issued,     \* number of calls of emit() by the program
    paused,     \* number of calls of pause() by the program
    changes,    \* number of calls that subscribe, unsubscribe or dispose
    accepted,   \* history: the events the class took: all, or those with a listener
    contents,   \* history: what each round carries
    inFlush     \* history: events emitted while a flush loop ran or a microtask
                \* was delivering

deferVars == <<class, merge, pauses, held, pending, issued, paused, accepted, contents, inFlush>>
allVars == <<vars, deferVars, changes>>

\* `left' is what remains of the list a microtask's forEach() set out to visit.
FlushFrame(left) == [kind |-> "flush", left |-> left]
Flushing == \E i \in DOMAIN stack : stack[i].kind = "flush"

DeferringInit ==
    /\ Init
    /\ class \in {"pauseable", "debounce", "microtask"}
    /\ merge \in BOOLEAN
    /\ class = "debounce" => merge
    /\ pauses = 0
    /\ held = <<>>
    /\ pending = FALSE
    /\ issued = 0
    /\ paused = 0
    /\ changes = 0
    /\ accepted = {}
    /\ contents = [e \in 1..MaxEvents |-> <<>>]
    /\ inFlush = {}

Pauseable == class \in {"pauseable", "debounce"}

\* A broken variant: the pairs of a round go before those that wait.
SuperEmitFirst(events) ==
    /\ emitted < MaxEvents
    /\ emitted' = emitted + 1
    /\ contents' = [contents EXCEPT ![emitted + 1] = events]
    /\ StartEmitFirst(emitted + 1)

\* super.emit(data), where data stands for these events
SuperEmit(events) ==
    /\ emitted < MaxEvents
    /\ emitted' = emitted + 1
    /\ contents' = [contents EXCEPT ![emitted + 1] = events]
    /\ StartEmit(emitted + 1)

\* The program calls emit() with a new event.
Issue ==
    /\ UserCode
    /\ issued < MaxIssued
    /\ issued' = issued + 1
    /\ accepted' = IF HasListeners \/ class = "microtask" THEN accepted \cup {issued + 1} ELSE accepted
    /\ inFlush' = IF Flushing THEN inFlush \cup {issued + 1} ELSE inFlush
    /\ UNCHANGED <<class, merge, paused>>

\* A loop that releases events one by one starts, or ends.
StartFlush(rounds) ==
    /\ stack' = Append(stack, FlushFrame(rounds))
    /\ UNCHANGED <<listeners, handles, disposed, hooked, queue, audience, received, emitted>>

EndFlush ==
    /\ stack' = Front(stack)
    /\ UNCHANGED <<listeners, handles, disposed, hooked, queue, audience, received, emitted>>

\* A broken variant: held events are stacked instead of queued.
EmitOrHoldFirst(isPaused) ==
    IF ~HasListeners THEN UNCHANGED <<vars, held, contents>>
    ELSE IF isPaused THEN held' = <<issued + 1>> \o held /\ UNCHANGED <<vars, contents>>
    ELSE SuperEmit(<<issued + 1>>) /\ UNCHANGED held

\* PauseableEmitter.emit(), where the emitter is paused or not
EmitOrHold(isPaused) ==
    IF ~HasListeners THEN UNCHANGED <<vars, held, contents>>
    ELSE IF isPaused THEN held' = Append(held, issued + 1) /\ UNCHANGED <<vars, contents>>
    ELSE SuperEmit(<<issued + 1>>) /\ UNCHANGED held

-----------------------------------------------------------------------------
(* Broken variants, each the way a bug would be written.                   *)

\* The held events are merged but not removed.
ReleaseKeeping ==
    IF merge THEN SuperEmit(held) /\ UNCHANGED held
    ELSE StartFlush(<<>>) /\ UNCHANGED <<held, contents>>

\* A microtask is queued for the first event ever, not for the first of a list.
MicrotaskEmitOnce ==
    /\ class = "microtask"
    /\ Issue
    /\ held' = Append(held, issued + 1)
    /\ pending' = (pending \/ issued = 0)
    /\ UNCHANGED <<vars, pauses, contents>>

-----------------------------------------------------------------------------
(* The operations.                                                         *)

\* PauseableEmitter.emit(data)
PauseableEmit ==
    /\ class = "pauseable"
    /\ Issue
    /\ EmitOrHold(pauses > 0)
    /\ UNCHANGED <<pauses, pending>>

\* pause()
Pause ==
    /\ UserCode /\ Pauseable
    /\ paused < MaxPauses
    /\ paused' = paused + 1
    /\ pauses' = pauses + 1
    /\ UNCHANGED <<vars, class, merge, held, pending, issued, accepted, contents, inFlush>>

\* The last pause ends: a single merged event goes out, even one made of
\* nothing, or the flush loop starts.
Release ==
    IF merge THEN SuperEmit(held) /\ held' = <<>>
    ELSE StartFlush(<<>>) /\ UNCHANGED <<held, contents>>

\* resume(), which does nothing when the emitter is not paused
ResumeBody ==
    /\ pauses' = IF pauses > 0 THEN pauses - 1 ELSE 0
    /\ IF pauses = 1 THEN Release ELSE UNCHANGED <<vars, held, contents>>

Resume ==
    /\ UserCode /\ Pauseable
    /\ ResumeBody
    /\ UNCHANGED <<class, merge, pending, issued, paused, accepted, inFlush>>

\* One turn of the flush loop of resume(), or its end.
Flush ==
    /\ Running = "flush" /\ Pauseable
    /\ IF pauses = 0 /\ held # <<>>
       THEN SuperEmit(<<Head(held)>>) /\ held' = Tail(held)
       ELSE EndFlush /\ UNCHANGED <<held, contents>>
    /\ UNCHANGED <<class, merge, pauses, pending, issued, paused, accepted, inFlush>>

\* DebounceEmitter.emit(data): without a timer it pauses and sets one.
DebounceEmit ==
    /\ class = "debounce"
    /\ Issue
    /\ pending' = TRUE
    /\ pauses' = IF pending THEN pauses ELSE pauses + 1
    /\ EmitOrHold(pauses' > 0)

\* The debounce timer runs; the program may have resumed the emitter before.
DebounceTimer ==
    /\ class = "debounce"
    /\ stack = <<>>
    /\ pending
    /\ pending' = FALSE
    /\ ResumeBody
    /\ UNCHANGED <<class, merge, issued, paused, accepted, inFlush>>

\* MicrotaskEmitter.emit(event): the first event of a list queues the microtask.
MicrotaskEmit ==
    /\ class = "microtask"
    /\ Issue
    /\ held' = Append(held, issued + 1)
    /\ pending' = (pending \/ Len(held') = 1)
    /\ UNCHANGED <<vars, pauses, contents>>

\* The rounds of a microtask: one, with a merge function, or one per event.
RoundsFor(events) == IF merge THEN <<events>> ELSE [i \in DOMAIN events |-> <<events[i]>>]

\* The microtask starts when the running code has ended.
RunMicrotask ==
    /\ class = "microtask"
    /\ stack = <<>>
    /\ pending
    /\ pending' = FALSE
    /\ StartFlush(RoundsFor(held))
    /\ UNCHANGED <<class, merge, pauses, held, issued, paused, accepted, contents, inFlush>>

\* One round of the microtask.
MicrotaskRound ==
    /\ Running = "flush" /\ class = "microtask"
    /\ Last(stack).left # <<>>
    /\ emitted < MaxEvents
    /\ emitted' = emitted + 1
    /\ contents' = [contents EXCEPT ![emitted + 1] = Head(Last(stack).left)]
    /\ LET rest == Append(Front(stack), FlushFrame(Tail(Last(stack).left)))
       IN  IF HasListeners
           THEN /\ queue' = queue \o Round(emitted + 1)
                /\ stack' = Append(rest, EmitFrame)
                /\ audience' = [audience EXCEPT ![emitted + 1] = ToSet(listeners)]
           ELSE stack' = rest /\ UNCHANGED <<queue, audience>>
    /\ UNCHANGED <<listeners, handles, disposed, hooked, received,
                   class, merge, pauses, held, pending, issued, paused, accepted, inFlush>>

\* The end of the microtask: the list is replaced by an empty one, together
\* with what listeners have put in it meanwhile.
MicrotaskEnd ==
    /\ Running = "flush" /\ class = "microtask"
    /\ Last(stack).left = <<>>
    /\ EndFlush
    /\ held' = <<>>
    /\ UNCHANGED <<class, merge, pauses, pending, issued, paused, accepted, contents, inFlush>>

\* What the super class does on its own.
Inherited ==
    /\ \/ /\ changes < MaxChanges
          /\ changes' = changes + 1
          /\ \/ \E l \in Listeners : Subscribe(l) \/ Unsubscribe(l)
             \/ Dispose
       \/ /\ Deliver \/ EmitReturn \/ ListenerReturn
          /\ UNCHANGED changes
    /\ UNCHANGED deferVars

\* The program does nothing more.
Finished == stack = <<>> /\ ~pending /\ issued = MaxIssued /\ UNCHANGED <<vars, deferVars>>

DeferringNext ==
    \/ Inherited
    \/ /\ \/ PauseableEmit \/ Pause \/ Resume \/ Flush
          \/ DebounceEmit \/ DebounceTimer
          \/ MicrotaskEmit \/ RunMicrotask \/ MicrotaskRound \/ MicrotaskEnd
          \/ Finished
       /\ UNCHANGED changes

DeferringSafe == DeferringInit /\ [][DeferringNext]_allVars

\* Calls return, timers and microtasks run.
DeferringSpec ==
    /\ DeferringSafe
    /\ WF_allVars((Flush \/ MicrotaskRound \/ MicrotaskEnd) /\ UNCHANGED changes)
    /\ WF_allVars((DebounceTimer \/ RunMicrotask) /\ UNCHANGED changes)
    /\ WF_allVars((Deliver \/ EmitReturn) /\ UNCHANGED <<deferVars, changes>>)
    /\ WF_allVars(ListenerReturn /\ UNCHANGED <<deferVars, changes>>)

-----------------------------------------------------------------------------
(* Properties.                                                             *)

Rounds == 1..emitted

\* The rounds that carry a program event.
RoundsOf(x) == {r \in Rounds : x \in ToSet(contents[r])}

\* An event that was taken is held or is part of exactly one round, except what a
\* listener gives a microtask emitter while the microtask runs: its list is
\* replaced when all events of the old one are out, and those are never emitted
\* (pauseable.emitter.ts:26-34, microtask.emitter.ts:19-25).
HeldOrEmittedOnce ==
    \A x \in accepted :
        /\ Cardinality(RoundsOf(x)) <= 1
        /\ class # "microtask" => (x \in ToSet(held) <=> RoundsOf(x) = {})
        /\ RoundsOf(x) = {} /\ x \notin ToSet(held) => x \in inFlush

\* Rounds carry the events in the order they were emitted, whichever listeners
\* emit meanwhile.  Only an event that a listener of resume()'s loop emits
\* overtakes those the loop has not reached, which resume() lets through
\* directly (pauseable.emitter.ts:32-44).
OvertakesOnlyInFlush ==
    /\ \A r \in Rounds : IsSorted(contents[r], <)
    /\ \A r1, r2 \in Rounds : r1 < r2 =>
           \A x \in ToSet(contents[r1]), y \in ToSet(contents[r2]) :
               x < y \/ (class = "pauseable" /\ ~merge /\ x \in inFlush)

\* What is held is released, unless the program keeps the emitter paused: the
\* timer and the microtask are not forgotten.
HeldIsReleased == held # <<>> ~> (held = <<>> \/ pauses > (IF pending THEN 1 ELSE 0))

\* Towards its listeners each class is an emitter of rounds: to Emitter the flush
\* loops are statements of the program or of the listener that resumed.
Calls(frames) == {i \in DOMAIN frames : frames[i].kind # "flush"}
WithoutLoops(frames) == Subsequence(frames, Calls(frames))

Unflushed == WithoutLoops(stack)
Rounded == INSTANCE Emitter WITH stack <- Unflushed
EmitsRounds == Rounded!Init /\ [][Rounded!Next]_(Rounded!vars)
=============================================================================
