-------------------------- MODULE DeferringProofs --------------------------
(***************************************************************************)
(* What the emitters that hold events back guarantee, for any number of    *)
(* listeners, events and pauses.                                           *)
(*                                                                         *)
(* The two properties speak of the rounds that are out.  What keeps them   *)
(* true is known of the events that are still to come (Coming: the held    *)
(* ones or, once a microtask has taken them, those of its rounds): no      *)
(* event that is out is among them, and none is newer than one of them,    *)
(* but for those a listener of resume()'s loop emitted (Before).           *)
(* That exception must be shown to arise nowhere else: an emitter that is  *)
(* not paused holds nothing unless such a loop runs (Released).  And what  *)
(* a microtask forgets when it ends must be shown to be what listeners     *)
(* added while it ran (Taken).                                             *)
(***************************************************************************)
EXTENDS DeferringEmitter, EmitterProofs, FiniteSetTheorems

LoopFrames == [kind : {"flush"}, left : Seq(Seq(Nat))]
AllFrames == Frames \cup LoopFrames

Ascending(s) == \A i, j \in 1..Len(s) : i < j => s[i] < s[j]

\* The events of a sequence of rounds.
EventsOf(rounds) == UNION {ToSet(rounds[k]) : k \in DOMAIN rounds}

\* A microtask that runs has taken the held events over.
InMicrotask == class = "microtask" /\ Flushing
Coming == IF InMicrotask THEN EventsOf(stack[1].left) ELSE ToSet(held)

\* The events that are out.
Out == UNION {ToSet(contents[r]) : r \in Rounds}

\* An event out in one round comes before one of a later round, or overtakes it.
Before(x, y) == x # y /\ (x < y \/ (class = "pauseable" /\ ~merge /\ x \in inFlush))

Types ==
    /\ stack \in Seq(AllFrames)
    /\ class \in {"pauseable", "debounce", "microtask"} /\ merge \in BOOLEAN
    /\ class = "debounce" => merge
    /\ pauses \in Nat /\ pending \in BOOLEAN /\ issued \in Nat
    /\ held \in Seq(1..issued) /\ Ascending(held)
    /\ contents \in [1..MaxEvents -> Seq(1..issued)]
    /\ \A r \in 1..MaxEvents : Ascending(contents[r])

\* A flush loop runs outside every listener or is called by one, and a microtask
\* always outside.
Loops ==
    \A i \in 1..Len(stack) : stack[i].kind = "flush" =>
        \/ i = 1
        \/ class # "microtask" /\ stack[i - 1].kind = "listener"

\* Rounds of events up to n, in order.
RoundsIn(rounds, n) ==
    \A k \in 1..Len(rounds) :
        /\ rounds[k] \in Seq(1..n) /\ Ascending(rounds[k])
        /\ \A m \in 1..Len(rounds) : k < m => \A x \in ToSet(rounds[k]), y \in ToSet(rounds[m]) : x < y

\* So are those a microtask has still to emit.
RoundsLeft == InMicrotask => RoundsIn(stack[1].left, issued)

\* What is out comes before what comes out later, and before what is to come.
InOrderOut ==
    /\ \A r1, r2 \in Rounds : r1 < r2 =>
          \A x \in ToSet(contents[r1]), y \in ToSet(contents[r2]) : Before(x, y)
    /\ \A x \in Out, y \in Coming : Before(x, y)

\* Without a pause nothing is held, but what a flush loop is releasing.
Released ==
    class # "microtask" /\ pauses = 0 =>
        held = <<>> \/ (class = "pauseable" /\ ~merge /\ Flushing)

\* Every event that was taken is held, out, or was added while a microtask ran.
Taken ==
    /\ \A x \in accepted : x \in ToSet(held) \/ x \in Out \/ (class = "microtask" /\ x \in inFlush)
    /\ InMicrotask => \A x \in ToSet(held) : x \in Coming \/ x \in Out \/ x \in inFlush

DeferringIInv ==
    /\ Delivery /\ Reaches
    /\ Types
    /\ Loops
    /\ RoundsLeft
    /\ InOrderOut
    /\ Released
    /\ Taken

-----------------------------------------------------------------------------
(* Sequences of events.                                                    *)

\* An event that is newer than those of a sequence extends it.
LEMMA WiderSeq ==
    ASSUME NEW n \in Nat, NEW m \in Nat, n <= m, NEW s \in Seq(1..n)
    PROVE  s \in Seq(1..m)
<1>1. \A i \in 1..Len(s) : s[i] \in 1..m
  BY ElementOfSeq
<1> QED
  BY <1>1, SMT

LEMMA AppendNew ==
    ASSUME NEW n \in Nat, NEW s \in Seq(1..n), Ascending(s)
    PROVE  /\ Append(s, n + 1) \in Seq(1..(n + 1)) /\ Ascending(Append(s, n + 1))
           /\ ToSet(Append(s, n + 1)) = ToSet(s) \cup {n + 1}
<1>1. s \in Seq(1..(n + 1)) /\ n + 1 \in 1..(n + 1)
  BY WiderSeq
<1>2. \A i \in 1..Len(s) : s[i] < n + 1
  BY ElementOfSeq
<1> QED
  BY <1>1, <1>2, AppendIs DEF Ascending

\* A round of one event.
LEMMA OneEvent ==
    ASSUME NEW S, NEW x \in S
    PROVE  <<x>> \in Seq(S) /\ Len(<<x>>) = 1 /\ Ascending(<<x>>) /\ ToSet(<<x>>) = {x}
BY DEF Ascending, ToSet

LEMMA EmptyRound == Ascending(<<>>) /\ ToSet(<<>>) = {}
BY DEF Ascending, ToSet

\* The oldest held event comes before the others.
LEMMA HeadFirst ==
    ASSUME NEW S \in SUBSET Nat, NEW s \in Seq(S), s # <<>>, Ascending(s)
    PROVE  /\ Head(s) \in S /\ Tail(s) \in Seq(S) /\ Ascending(Tail(s))
           /\ ToSet(s) = {Head(s)} \cup ToSet(Tail(s))
           /\ \A y \in ToSet(Tail(s)) : Head(s) < y
<1>1. /\ Head(s) \in S /\ Tail(s) \in Seq(S) /\ Head(s) = s[1] /\ Len(s) \in Nat \ {0}
      /\ Len(Tail(s)) = Len(s) - 1 /\ \A i \in 1..Len(Tail(s)) : Tail(s)[i] = s[i + 1]
  BY HeadTailProperties, EmptySeq, LenProperties
<1>2. \A i \in 1..Len(s) : s[i] \in Nat
  BY ElementOfSeq
<1>3. DOMAIN s = 1..Len(s) /\ DOMAIN Tail(s) = 1..Len(s) - 1
  BY <1>1, LenProperties
<1>4. \A i \in 1..Len(s) : i = 1 \/ (i - 1 \in 1..Len(s) - 1 /\ Tail(s)[i - 1] = s[i])
  BY <1>1
<1>5. Ascending(Tail(s)) /\ \A i \in 1..Len(Tail(s)) : Head(s) < Tail(s)[i]
  BY <1>1, <1>2 DEF Ascending
<1>6. \A x \in ToSet(s) : x = Head(s) \/ x \in ToSet(Tail(s))
  <2> SUFFICES ASSUME NEW x \in ToSet(s) PROVE x = Head(s) \/ x \in ToSet(Tail(s))
    OBVIOUS
  <2>1. PICK i \in 1..Len(s) : s[i] = x
    BY <1>3 DEF ToSet
  <2>2. CASE i = 1
    BY <1>1, <2>1, <2>2
  <2>3. CASE i - 1 \in 1..Len(s) - 1 /\ Tail(s)[i - 1] = s[i]
    BY <1>3, <2>1, <2>3 DEF ToSet
  <2> QED
    BY <1>4, <2>2, <2>3
<1>7. Head(s) \in ToSet(s) /\ ToSet(Tail(s)) \subseteq ToSet(s)
  BY <1>1, <1>3 DEF ToSet
<1>8. \A y \in ToSet(Tail(s)) : Head(s) < y
  BY <1>1, <1>3, <1>5 DEF ToSet
<1> QED
  BY <1>1, <1>5, <1>6, <1>7, <1>8

LEMMA Members == ASSUME NEW S, NEW s \in Seq(S) PROVE ToSet(s) \subseteq S
BY ElementOfSeq, LenProperties DEF ToSet

-----------------------------------------------------------------------------
(* The call stack.                                                         *)

LEMMA FrameKinds ==
    /\ \A f \in Frames : f.kind # "flush" /\ f \in AllFrames
    /\ \A f \in LoopFrames : f.kind = "flush" /\ f.left \in Seq(Seq(Nat)) /\ f \in AllFrames
    /\ \A f \in AllFrames : f.kind = "flush" => f \in LoopFrames
    /\ EmitFrame \in Frames /\ \A pair \in Pairs : CallFrame(pair) \in Frames
BY DEF Frames, LoopFrames, AllFrames, EmitFrame, CallFrame

LEMMA FlushingFrame == stack \in Seq(AllFrames) => (Flushing <=> \E f \in ToSet(stack) : f.kind = "flush")
BY DEF Flushing, ToSet

\* The loops stay where they are.
StackKept ==
    /\ stack' \in Seq(AllFrames) /\ Loops'
    /\ Flushing' <=> Flushing
    /\ Flushing => stack'[1] = stack[1]

LEMMA StackSame == ASSUME stack \in Seq(AllFrames), Loops, stack' = stack, class' = class PROVE StackKept
BY DEF StackKept, Loops, Flushing

\* A call adds a frame.
LEMMA StackPushed ==
    ASSUME stack \in Seq(AllFrames), Loops, class' = class,
           NEW f \in Frames, stack' = Append(stack, f)
    PROVE  StackKept
<1>1. f \in AllFrames /\ f.kind # "flush"
  BY FrameKinds
<1>2. /\ stack' \in Seq(AllFrames) /\ Len(stack) \in Nat /\ Len(stack') = Len(stack) + 1
      /\ \A i \in 1..Len(stack) : stack'[i] = stack[i]
      /\ stack'[Len(stack) + 1] = f
  BY <1>1, AppendIs
<1>3. DOMAIN stack = 1..Len(stack) /\ DOMAIN stack' = 1..Len(stack')
  BY <1>2, LenProperties
<1>4. \A i \in 1..Len(stack') : stack'[i].kind = "flush" => i \in 1..Len(stack)
  BY <1>1, <1>2
<1>5. Flushing' <=> Flushing
  BY <1>2, <1>3, <1>4 DEF Flushing
<1>6. Flushing => 1 \in 1..Len(stack)
  BY <1>2, <1>3 DEF Flushing
<1>7. Loops'
  BY <1>2, <1>4 DEF Loops
<1> QED
  BY <1>2, <1>5, <1>6, <1>7 DEF StackKept

\* A call returns that is not a loop.
LEMMA StackPopped ==
    ASSUME stack \in Seq(AllFrames), Loops, class' = class,
           stack # <<>>, Last(stack).kind # "flush", stack' = Front(stack)
    PROVE  StackKept
<1>1. /\ stack' \in Seq(AllFrames) /\ Len(stack) \in Nat \ {0} /\ Len(stack') = Len(stack) - 1
      /\ \A i \in 1..Len(stack) - 1 : stack'[i] = stack[i]
  BY FrontLast
<1>2. DOMAIN stack = 1..Len(stack) /\ DOMAIN stack' = 1..Len(stack')
  BY <1>1, LenProperties
<1>3. \A i \in 1..Len(stack) : stack[i].kind = "flush" => i \in 1..Len(stack) - 1
  BY <1>1 DEF Last
<1>4. Flushing' <=> Flushing
  BY <1>1, <1>2, <1>3 DEF Flushing
<1>5. Flushing => 1 \in 1..Len(stack) - 1
  BY <1>1, <1>2, <1>3 DEF Flushing
<1>6. Loops'
  BY <1>1 DEF Loops
<1> QED
  BY <1>1, <1>4, <1>5, <1>6 DEF StackKept

LEMMA RunningFrame == Running # "program" => stack # <<>> /\ Running = Last(stack).kind
BY DEF Running

-----------------------------------------------------------------------------
(* Steps that emit nothing and steps that emit one round.                  *)

LEMMA OutTypes ==
    ASSUME Types, Delivery
    PROVE  /\ emitted \in Nat /\ MaxEvents \in Nat /\ Rounds \subseteq 1..MaxEvents
           /\ \A r \in Rounds : contents[r] \in Seq(1..issued) /\ ToSet(contents[r]) \subseteq 1..issued
           /\ Out \subseteq 1..issued /\ ToSet(held) \subseteq 1..issued
<1>1. emitted \in 0..MaxEvents /\ MaxEvents \in Nat
  BY EmitterAssumption DEF Delivery
<1>2. Rounds \subseteq 1..MaxEvents
  BY <1>1 DEF Rounds
<1>3. \A r \in Rounds : contents[r] \in Seq(1..issued)
  BY <1>2 DEF Types
<1>4. \A r \in Rounds : ToSet(contents[r]) \subseteq 1..issued
  BY <1>3, Members
<1>5. ToSet(held) \subseteq 1..issued
  BY Members DEF Types
<1> QED
  BY <1>1, <1>2, <1>3, <1>4, <1>5 DEF Out

\* The loop of a running microtask is the bottom of the call stack.
LEMMA MicrotaskFrame ==
    ASSUME Types, Loops, InMicrotask
    PROVE  Len(stack) \in Nat \ {0} /\ stack[1] \in LoopFrames /\ stack[1].left \in Seq(Seq(Nat))
<1>1. DOMAIN stack = 1..Len(stack) /\ Len(stack) \in Nat
  BY LenProperties DEF Types
<1>2. PICK i \in 1..Len(stack) : stack[i].kind = "flush"
  BY <1>1 DEF InMicrotask, Flushing
<1>3. i = 1
  BY <1>2 DEF InMicrotask, Loops
<1>4. stack[1] \in AllFrames
  BY <1>2, <1>3, ElementOfSeq DEF Types
<1> QED
  BY <1>1, <1>2, <1>3, <1>4, FrameKinds

LEMMA ComingTypes == ASSUME Types, Loops, RoundsLeft PROVE Coming \subseteq 1..issued
<1>1. CASE InMicrotask
  <2> DEFINE left == stack[1].left
  <2>1. \A k \in 1..Len(left) : left[k] \in Seq(1..issued)
    BY <1>1 DEF RoundsLeft, RoundsIn
  <2>2. DOMAIN left = 1..Len(left)
    BY <1>1, MicrotaskFrame, LenProperties
  <2>3. \A k \in 1..Len(left) : ToSet(left[k]) \subseteq 1..issued
    BY <2>1, Members
  <2> QED
    BY <1>1, <2>2, <2>3 DEF Coming, EventsOf
<1>2. CASE ~InMicrotask
  BY <1>2, Members DEF Coming, Types
<1> QED
  BY <1>1, <1>2

\* The rounds of a microtask that starts carry the held events.
LEMMA RoundsForHeld ==
    ASSUME Types
    PROVE  /\ RoundsFor(held) \in Seq(Seq(Nat)) /\ RoundsIn(RoundsFor(held), issued)
           /\ EventsOf(RoundsFor(held)) = ToSet(held)
<1> DEFINE S == 1..issued
<1>1. held \in Seq(S) /\ Ascending(held) /\ Len(held) \in Nat /\ DOMAIN held = 1..Len(held) /\ held \in Seq(Nat)
  BY LenProperties DEF Types
<1>2. CASE merge
  <2>1. RoundsFor(held) = <<held>>
    BY <1>2 DEF RoundsFor
  <2> QED
    BY <1>1, <2>1 DEF RoundsIn, EventsOf
<1>3. CASE ~merge
  <2> DEFINE rounds == RoundsFor(held)
  <2>1. rounds = [i \in 1..Len(held) |-> <<held[i]>>]
    BY <1>1, <1>3 DEF RoundsFor
  <2>2. \A i \in 1..Len(held) : held[i] \in S /\ held[i] \in Nat
    BY <1>1, ElementOfSeq
  <2>3. \A i \in 1..Len(held) : /\ <<held[i]>> \in Seq(S) /\ <<held[i]>> \in Seq(Nat)
                                /\ Ascending(<<held[i]>>) /\ ToSet(<<held[i]>>) = {held[i]}
    BY <2>2, OneEvent
  <2>4. /\ rounds \in Seq(Seq(Nat)) /\ Len(rounds) = Len(held) /\ DOMAIN rounds = 1..Len(held)
        /\ \A i \in 1..Len(held) : rounds[i] = <<held[i]>>
    BY <1>1, <2>1, <2>3
  <2> HIDE DEF rounds
  <2>5. RoundsIn(rounds, issued)
    <3>1. \A i, j \in 1..Len(held) : i < j => held[i] < held[j]
      BY <1>1 DEF Ascending
    <3>2. \A k \in 1..Len(held) : rounds[k] \in Seq(S) /\ Ascending(rounds[k]) /\ ToSet(rounds[k]) = {held[k]}
      BY <2>3, <2>4
    <3>3. Len(rounds) = Len(held)
      BY <2>4
    <3>4. \A k \in 1..Len(rounds) : rounds[k] \in Seq(1..issued) /\ Ascending(rounds[k])
      BY <3>2, <3>3
    <3>5. ASSUME NEW k \in 1..Len(rounds), NEW m \in 1..Len(rounds), k < m,
                 NEW x \in ToSet(rounds[k]), NEW y \in ToSet(rounds[m])
          PROVE  x < y
      <4>1. x = held[k] /\ y = held[m]
        BY <3>2, <3>3, <3>5
      <4> QED
        BY <3>1, <3>3, <3>5, <4>1
    <3> QED
      BY <3>4, <3>5 DEF RoundsIn
  <2>6. EventsOf(rounds) = ToSet(held)
    <3>1. ToSet(held) = {held[i] : i \in 1..Len(held)}
      BY <1>1 DEF ToSet
    <3>2. EventsOf(rounds) = UNION {ToSet(rounds[i]) : i \in 1..Len(held)}
      BY <2>4 DEF EventsOf
    <3>3. \A i \in 1..Len(held) : ToSet(rounds[i]) = {held[i]}
      BY <2>3, <2>4
    <3>4. \A x \in EventsOf(rounds) : x \in ToSet(held)
      BY <3>1, <3>2, <3>3
    <3>5. \A i \in 1..Len(held) : held[i] \in EventsOf(rounds)
      BY <3>2, <3>3
    <3> QED
      BY <3>1, <3>4, <3>5
  <2> QED
    BY <2>4, <2>5, <2>6 DEF rounds
<1> QED
  BY <1>2, <1>3 DEF Types

\* The first of the rounds left comes before the others.
LEMMA HeadRound ==
    ASSUME NEW n \in Nat, NEW rounds \in Seq(Seq(Nat)), rounds # <<>>, RoundsIn(rounds, n)
    PROVE  /\ Head(rounds) \in Seq(1..n) /\ Ascending(Head(rounds))
           /\ Tail(rounds) \in Seq(Seq(Nat)) /\ RoundsIn(Tail(rounds), n)
           /\ EventsOf(rounds) = ToSet(Head(rounds)) \cup EventsOf(Tail(rounds))
           /\ \A x \in ToSet(Head(rounds)), y \in EventsOf(Tail(rounds)) : x < y
<1>1. /\ Tail(rounds) \in Seq(Seq(Nat)) /\ Head(rounds) = rounds[1] /\ Len(rounds) \in Nat \ {0}
      /\ Len(Tail(rounds)) = Len(rounds) - 1
      /\ \A i \in 1..Len(Tail(rounds)) : Tail(rounds)[i] = rounds[i + 1]
  BY HeadTailProperties, EmptySeq, LenProperties
<1>2. DOMAIN rounds = 1..Len(rounds) /\ DOMAIN Tail(rounds) = 1..Len(rounds) - 1
  BY <1>1, LenProperties
<1>3. \A i \in 1..Len(rounds) : i = 1 \/ (i - 1 \in 1..Len(rounds) - 1 /\ Tail(rounds)[i - 1] = rounds[i])
  BY <1>1
<1>4. RoundsIn(Tail(rounds), n)
  BY <1>1 DEF RoundsIn
<1>5. EventsOf(rounds) = ToSet(Head(rounds)) \cup EventsOf(Tail(rounds))
  <2>1. EventsOf(rounds) \subseteq ToSet(Head(rounds)) \cup EventsOf(Tail(rounds))
    BY <1>1, <1>2, <1>3 DEF EventsOf
  <2>2. ToSet(Head(rounds)) \subseteq EventsOf(rounds)
    BY <1>1, <1>2 DEF EventsOf
  <2>3. EventsOf(Tail(rounds)) \subseteq EventsOf(rounds)
    BY <1>1, <1>2 DEF EventsOf
  <2> QED
    BY <2>1, <2>2, <2>3
<1>6. ASSUME NEW x \in ToSet(Head(rounds)), NEW y \in EventsOf(Tail(rounds)) PROVE x < y
  <2>1. PICK i \in 1..Len(rounds) - 1 : y \in ToSet(rounds[i + 1])
    BY <1>1, <1>2 DEF EventsOf
  <2>2. 1 \in 1..Len(rounds) /\ i + 1 \in 1..Len(rounds) /\ 1 < i + 1
    BY <1>1
  <2> QED
    BY <1>1, <2>1, <2>2 DEF RoundsIn
<1>7. Head(rounds) \in Seq(1..n) /\ Ascending(Head(rounds))
  BY <1>1 DEF RoundsIn
<1> QED
  BY <1>1, <1>4, <1>5, <1>6, <1>7

\* Older events stay older.
LEMMA RoundsWider ==
    ASSUME NEW n \in Nat, NEW m \in Nat, n <= m, NEW rounds, RoundsIn(rounds, n)
    PROVE  RoundsIn(rounds, m)
BY WiderSeq DEF RoundsIn

LEMMA BeforeStays ==
    ASSUME class' = class, merge' = merge, inFlush \subseteq inFlush', NEW x, NEW y, Before(x, y)
    PROVE  Before(x, y)'
BY DEF Before

\* A new round is out.
RoundOut(events) ==
    /\ emitted < MaxEvents /\ emitted' = emitted + 1
    /\ contents' = [contents EXCEPT ![emitted + 1] = events]

LEMMA RoundAdded ==
    ASSUME Types, Delivery, InOrderOut,
           class' = class, merge' = merge, inFlush \subseteq inFlush', issued' \in Nat, issued <= issued',
           NEW events \in Seq(1..issued'), Ascending(events), RoundOut(events),
           \A x \in Out, y \in ToSet(events) : Before(x, y)',
           \A x \in Out \cup ToSet(events), y \in Coming' : Before(x, y)'
    PROVE  /\ contents' \in [1..MaxEvents -> Seq(1..issued')]
           /\ \A r \in 1..MaxEvents : Ascending(contents'[r])
           /\ Out' = Out \cup ToSet(events)
           /\ InOrderOut'
<1>1. /\ emitted \in Nat /\ emitted + 1 \in 1..MaxEvents /\ emitted' = emitted + 1 /\ Rounds \subseteq 1..MaxEvents
      /\ Rounds' = Rounds \cup {emitted + 1} /\ emitted + 1 \notin Rounds /\ Rounds \subseteq Nat
      /\ \A r \in Rounds : r < emitted + 1
  BY OutTypes DEF RoundOut, Rounds
<1>2. contents' = [contents EXCEPT ![emitted + 1] = events]
  BY DEF RoundOut
<1>3. contents \in [1..MaxEvents -> Seq(1..issued)] /\ \A r \in 1..MaxEvents : Ascending(contents[r])
  BY DEF Types
<1>4. \A r \in 1..MaxEvents : contents'[r] = IF r = emitted + 1 THEN events ELSE contents[r]
  BY <1>2, <1>3
<1>5. contents' \in [1..MaxEvents -> Seq(1..issued')]
  <2>1. issued \in Nat
    BY DEF Types
  <2>2. \A r \in 1..MaxEvents : contents[r] \in Seq(1..issued')
    BY <1>3, <2>1, WiderSeq
  <2> QED
    BY <1>2, <1>3, <2>2
<1>6. \A r \in 1..MaxEvents : Ascending(contents'[r])
  BY <1>3, <1>4
<1>7. contents'[emitted + 1] = events /\ \A r \in Rounds : contents'[r] = contents[r]
  BY <1>1, <1>4
<1>8. Out' = Out \cup ToSet(events)
  BY <1>1, <1>7 DEF Out
<1>9. ASSUME NEW r1 \in Rounds', NEW r2 \in Rounds', r1 < r2,
             NEW x \in ToSet(contents'[r1]), NEW y \in ToSet(contents'[r2])
      PROVE  Before(x, y)'
  <2>1. r1 \in Rounds
    BY <1>1, <1>9
  <2>2. x \in ToSet(contents[r1]) /\ x \in Out
    BY <1>7, <1>9, <2>1 DEF Out
  <2>3. CASE r2 \in Rounds
    <3>1. Before(x, y)
      BY <1>7, <1>9, <2>1, <2>2, <2>3 DEF InOrderOut
    <3> QED
      BY <3>1, BeforeStays
  <2>4. CASE r2 = emitted + 1
    BY <1>7, <1>9, <2>2, <2>4
  <2> QED
    BY <1>1, <2>3, <2>4
<1>10. InOrderOut'
  BY <1>8, <1>9 DEF InOrderOut
<1> QED
  BY <1>5, <1>6, <1>8, <1>10

-----------------------------------------------------------------------------
(* Calls of super.emit().                                                  *)

\* What an emission does to the super class and to the call stack.
Emission ==
    /\ emitted < MaxEvents /\ emitted' = emitted + 1
    /\ StartEmit(emitted + 1)

LEMMA EmissionStack ==
    ASSUME Delivery, Reaches, stack \in Seq(AllFrames), Loops, class' = class, Emission
    PROVE  Delivery' /\ Reaches' /\ StackKept
<1>1. /\ UNCHANGED <<listeners, handles, disposed, hooked, received>>
      /\ IF HasListeners
         THEN queue' = queue \o Round(emitted + 1) /\ audience' = [audience EXCEPT ![emitted + 1] = ToSet(listeners)]
         ELSE UNCHANGED <<queue, audience>>
      /\ emitted < MaxEvents /\ emitted' = emitted + 1
  BY DEF Emission, StartEmit, emitterVars
<1>2. Delivery' /\ Reaches'
  BY <1>1, EmitDelivery
<1>3. CASE HasListeners
  <2>1. stack' = Append(stack, EmitFrame) /\ EmitFrame \in Frames
    BY <1>3, FrameKinds DEF Emission, StartEmit
  <2> QED
    BY <1>2, <2>1, StackPushed
<1>4. CASE ~HasListeners
  <2>1. stack' = stack
    BY <1>4 DEF Emission, StartEmit, emitterVars
  <2> QED
    BY <1>2, <2>1, StackSame
<1> QED
  BY <1>3, <1>4

LEMMA SuperEmits == ASSUME NEW events, SuperEmit(events) PROVE Emission /\ RoundOut(events)
BY DEF SuperEmit, Emission, RoundOut

\* Where the loops and the held events stay, so do the events to come.
LEMMA ComingKept == ASSUME StackKept, class' = class, held' = held PROVE Coming' = Coming /\ InMicrotask' = InMicrotask
<1>1. InMicrotask' = InMicrotask /\ (InMicrotask => Flushing)
  BY DEF InMicrotask, StackKept
<1> QED
  BY <1>1 DEF Coming, StackKept

-----------------------------------------------------------------------------
(* The initial states, and the steps by what they do to the events.        *)

LEMMA InitDeferringIInv == DeferringInit => DeferringIInv
<1> SUFFICES ASSUME DeferringInit PROVE DeferringIInv
  OBVIOUS
<1>1. Delivery /\ Reaches /\ stack = <<>> /\ emitted = 0 /\ held = <<>>
  BY InitDelivery DEF DeferringInit, Init
<1>2. ~Flushing /\ Rounds = {} /\ Out = {}
  BY <1>1 DEF Flushing, Rounds, Out
<1>3. \A S : <<>> \in Seq(S)
  BY EmptySeq
<1>4. Types
  BY <1>1, <1>3, EmptyRound DEF DeferringInit, Types
<1>5. Coming = {}
  BY <1>1, <1>2, EmptyRound DEF Coming, InMicrotask
<1> QED
  BY <1>1, <1>2, <1>4, <1>5
     DEF DeferringInit, DeferringIInv, Loops, RoundsLeft, InOrderOut, Released, Taken, InMicrotask

\* No event is emitted, held or released.
LEMMA QuietIInv ==
    ASSUME DeferringIInv, Delivery', Reaches', StackKept,
           UNCHANGED <<class, merge, held, issued, accepted, contents, inFlush, emitted>>,
           pauses' \in Nat, pending' \in BOOLEAN, pauses' = 0 => pauses = 0
    PROVE  DeferringIInv'
<1>1. /\ Coming' = Coming /\ InMicrotask' = InMicrotask /\ Out' = Out /\ Rounds' = Rounds
      /\ InMicrotask => Flushing
  BY ComingKept DEF Out, Rounds, InMicrotask
<1>2. Types' /\ Loops'
  BY DEF DeferringIInv, Types, StackKept
<1>3. RoundsLeft'
  BY <1>1 DEF DeferringIInv, RoundsLeft, StackKept
<1>4. InOrderOut'
  BY <1>1 DEF DeferringIInv, InOrderOut, Before
<1>5. Released' /\ Taken'
  BY <1>1 DEF DeferringIInv, Released, Taken, StackKept
<1> QED
  BY <1>2, <1>3, <1>4, <1>5 DEF DeferringIInv

\* The program emits an event, which the class takes or not.
NewEvent ==
    /\ issued' = issued + 1
    /\ accepted' \in {accepted, accepted \cup {issued + 1}}
    /\ inFlush' = IF Flushing THEN inFlush \cup {issued + 1} ELSE inFlush
    /\ class' = class /\ merge' = merge

LEMMA Issues == Issue => NewEvent /\ UserCode
BY DEF Issue, NewEvent

\* Nobody listens: a new event is dropped.
LEMMA IgnoreIInv ==
    ASSUME DeferringIInv, NewEvent, accepted' = accepted,
           UNCHANGED <<vars, held, contents>>,
           pauses' \in Nat, pending' \in BOOLEAN, pauses' = 0 => pauses = 0
    PROVE  DeferringIInv'
<1>1. Delivery' /\ Reaches' /\ StackKept /\ Types /\ Loops
  <2>1. Types /\ Loops /\ Delivery /\ Reaches /\ stack' = stack /\ class' = class
    BY DEF DeferringIInv, NewEvent, vars, emitterVars
  <2>2. Delivery' /\ Reaches'
    BY <2>1, OtherDelivery DEF Delivery, vars, emitterVars
  <2> QED
    BY <2>1, <2>2, StackSame DEF Types
<1>2. /\ Coming' = Coming /\ InMicrotask' = InMicrotask /\ Out' = Out /\ Rounds' = Rounds
      /\ InMicrotask => Flushing
  BY <1>1, ComingKept DEF Out, Rounds, InMicrotask, NewEvent, vars, emitterVars
<1>3. issued \in Nat /\ issued' = issued + 1 /\ class' = class /\ merge' = merge /\ inFlush \subseteq inFlush'
  BY <1>1 DEF NewEvent, Types
<1>4. Types'
  <2>1. held \in Seq(1..issued') /\ \A r \in 1..MaxEvents : contents[r] \in Seq(1..issued')
    <3>1. /\ issued' \in Nat /\ issued <= issued'
          /\ held \in Seq(1..issued) /\ \A r \in 1..MaxEvents : contents[r] \in Seq(1..issued)
      BY <1>1, <1>3 DEF Types
    <3> QED
      BY <1>3, <3>1, WiderSeq
  <2> QED
    BY <1>1, <1>3, <2>1 DEF Types, StackKept
<1>5. RoundsLeft'
  BY <1>1, <1>2, <1>3, RoundsWider DEF DeferringIInv, RoundsLeft, StackKept
<1>6. InOrderOut'
  BY <1>2, <1>3, BeforeStays DEF DeferringIInv, InOrderOut
<1>7. Released' /\ Taken'
  BY <1>1, <1>2, <1>3 DEF DeferringIInv, Released, Taken, StackKept
<1> QED
  BY <1>1, <1>4, <1>5, <1>6, <1>7 DEF DeferringIInv, StackKept

\* A new event is held.
LEMMA HoldIInv ==
    ASSUME DeferringIInv, NewEvent, held' = Append(held, issued + 1),
           UNCHANGED <<vars, contents>>,
           pauses' \in Nat, pending' \in BOOLEAN, class = "microtask" \/ pauses' # 0
    PROVE  DeferringIInv'
<1>1. Delivery' /\ Reaches' /\ StackKept /\ Types /\ Loops /\ Delivery
  <2>1. Types /\ Loops /\ Delivery /\ Reaches /\ stack' = stack /\ class' = class
    BY DEF DeferringIInv, NewEvent, vars, emitterVars
  <2>2. Delivery' /\ Reaches'
    BY <2>1, OtherDelivery DEF Delivery, vars, emitterVars
  <2> QED
    BY <2>1, <2>2, StackSame DEF Types
<1>2. issued \in Nat /\ issued' = issued + 1 /\ class' = class /\ merge' = merge /\ inFlush \subseteq inFlush'
  BY <1>1 DEF NewEvent, Types
<1>3. InMicrotask' = InMicrotask /\ Out' = Out /\ Rounds' = Rounds /\ (InMicrotask => Flushing)
  BY <1>1, <1>2 DEF Out, Rounds, InMicrotask, StackKept, vars, emitterVars
<1>4. held' \in Seq(1..issued') /\ Ascending(held') /\ ToSet(held') = ToSet(held) \cup {issued + 1}
  BY <1>1, <1>2, AppendNew DEF Types
<1>5. Types'
  <2>1. \A r \in 1..MaxEvents : contents[r] \in Seq(1..issued')
    <3>1. \A r \in 1..MaxEvents : contents[r] \in Seq(1..issued)
      BY <1>1 DEF Types
    <3>2. issued' \in Nat /\ issued <= issued'
      BY <1>2
    <3> QED
      BY <1>2, <3>1, <3>2, WiderSeq
  <2> QED
    BY <1>1, <1>2, <1>4, <2>1 DEF Types, StackKept
<1>6. RoundsLeft'
  BY <1>1, <1>2, <1>3, RoundsWider DEF DeferringIInv, RoundsLeft, StackKept
<1>7. Coming \subseteq Coming' /\ Coming' \subseteq Coming \cup {issued + 1}
  <2>1. CASE InMicrotask
    BY <1>1, <1>3, <2>1 DEF Coming, StackKept
  <2>2. CASE ~InMicrotask
    BY <1>3, <1>4, <2>2 DEF Coming
  <2> QED
    BY <2>1, <2>2
<1>8. \A x \in Out, y \in {issued + 1} : Before(x, y)'
  BY <1>1, <1>2, OutTypes DEF Before
<1>9. InOrderOut'
  <2>1. \A x \in Out, y \in Coming : Before(x, y)'
    BY <1>2, BeforeStays DEF DeferringIInv, InOrderOut
  <2>2. ASSUME NEW r1 \in Rounds, NEW r2 \in Rounds, r1 < r2,
               NEW x \in ToSet(contents[r1]), NEW y \in ToSet(contents[r2])
        PROVE  Before(x, y)'
    BY <1>2, <2>2, BeforeStays DEF DeferringIInv, InOrderOut
  <2>3. \A x \in Out', y \in Coming' : Before(x, y)'
    BY <1>3, <1>7, <1>8, <2>1
  <2>4. contents' = contents
    OBVIOUS
  <2> QED
    BY <1>3, <2>2, <2>3, <2>4 DEF InOrderOut
<1>10. Released'
  BY <1>2 DEF Released
<1>11. Taken'
  <2>1. \A x \in accepted' : x \in ToSet(held') \/ x \in Out' \/ (class' = "microtask" /\ x \in inFlush')
    BY <1>2, <1>3, <1>4 DEF DeferringIInv, Taken, NewEvent
  <2>2. ASSUME InMicrotask, NEW x \in ToSet(held') PROVE x \in Coming' \/ x \in Out' \/ x \in inFlush'
    <3>1. CASE x \in ToSet(held)
      BY <1>2, <1>3, <1>7, <2>2, <3>1 DEF DeferringIInv, Taken
    <3>2. CASE x = issued + 1
      BY <1>3, <2>2, <3>2 DEF NewEvent
    <3> QED
      BY <1>4, <2>2, <3>1, <3>2
  <2> QED
    BY <1>3, <2>1, <2>2 DEF Taken
<1> QED
  BY <1>1, <1>5, <1>6, <1>9, <1>10, <1>11 DEF DeferringIInv, StackKept

\* A new event goes out at once.
LEMMA EmitNowIInv ==
    ASSUME DeferringIInv, NewEvent, SuperEmit(<<issued + 1>>), held' = held, class # "microtask",
           pauses = 0, pauses' = 0, pending' \in BOOLEAN
    PROVE  DeferringIInv'
<1>1. Types /\ Loops /\ Delivery /\ Reaches /\ InOrderOut /\ Released /\ Taken
  BY DEF DeferringIInv
<1>2. /\ issued \in Nat /\ issued' = issued + 1 /\ issued' \in Nat /\ issued <= issued'
      /\ class' = class /\ merge' = merge /\ inFlush \subseteq inFlush'
  BY <1>1 DEF NewEvent, Types
<1> PICK x \in Nat : x = issued + 1
  BY <1>2
<1>3. Delivery' /\ Reaches' /\ StackKept /\ RoundOut(<<x>>)
  <2>1. SuperEmit(<<x>>)
    OBVIOUS
  <2> QED
    BY <1>1, <1>2, <2>1, SuperEmits, EmissionStack DEF Types
<1>4. Coming' = Coming /\ Coming = ToSet(held) /\ ~InMicrotask /\ ~InMicrotask'
  BY <1>2, <1>3, ComingKept DEF Coming, InMicrotask
<1>5. <<x>> \in Seq(1..issued') /\ Ascending(<<x>>) /\ ToSet(<<x>>) = {x}
  <2>1. x \in 1..issued'
    BY <1>2
  <2> QED
    BY <2>1, OneEvent
<1>6. \A z \in Out, y \in ToSet(<<x>>) : Before(z, y)'
  BY <1>1, <1>2, <1>5, OutTypes DEF Before
<1>7. \A y \in Coming : Before(x, y)'
  <2> SUFFICES ASSUME NEW y \in Coming PROVE Before(x, y)'
    OBVIOUS
  <2>1. y \in 1..issued
    BY <1>1, <1>4, OutTypes
  <2>2. held # <<>>
    BY <1>4, EmptyRound
  <2>3. class = "pauseable" /\ ~merge /\ x \in inFlush'
    BY <1>1, <2>2 DEF Released, NewEvent
  <2> QED
    BY <1>2, <2>1, <2>3 DEF Before
<1>8. \A z \in Out, y \in Coming : Before(z, y)'
  BY <1>1, <1>2, BeforeStays DEF InOrderOut
<1>9. \A z \in Out \cup ToSet(<<x>>), y \in Coming' : Before(z, y)'
  BY <1>4, <1>5, <1>7, <1>8
<1>10. /\ contents' \in [1..MaxEvents -> Seq(1..issued')]
       /\ \A r \in 1..MaxEvents : Ascending(contents'[r])
       /\ Out' = Out \cup {x} /\ InOrderOut'
  BY <1>1, <1>2, <1>3, <1>5, <1>6, <1>9, RoundAdded
<1>11. held' \in Seq(1..issued')
  BY <1>1, <1>2, WiderSeq DEF Types
<1>12. Types' /\ Loops'
  BY <1>1, <1>2, <1>3, <1>10, <1>11 DEF Types, StackKept
<1>13. Released'
  BY <1>1, <1>2, <1>3 DEF Released, StackKept
<1>14. Taken'
  BY <1>1, <1>2, <1>4, <1>10 DEF Taken, NewEvent
<1> QED
  BY <1>3, <1>4, <1>10, <1>12, <1>13, <1>14 DEF DeferringIInv, RoundsLeft

\* Held events go out in a round of their own.
LEMMA ReleaseIInv ==
    ASSUME DeferringIInv, class # "microtask", UNCHANGED <<class, merge, issued, accepted, inFlush>>,
           NEW events \in Seq(1..issued), Ascending(events), SuperEmit(events),
           ToSet(held) = ToSet(events) \cup ToSet(held'), held' \in Seq(1..issued), Ascending(held'),
           \A x \in ToSet(events), y \in ToSet(held') : x < y,
           held' = <<>> \/ (class = "pauseable" /\ ~merge /\ Flushing),
           pauses' \in Nat, pending' \in BOOLEAN
    PROVE  DeferringIInv'
<1>1. Types /\ Loops /\ Delivery /\ Reaches /\ InOrderOut /\ Taken
  BY DEF DeferringIInv
<1>2. Delivery' /\ Reaches' /\ StackKept /\ RoundOut(events)
  BY <1>1, SuperEmits, EmissionStack DEF Types
<1>3. Coming' = ToSet(held') /\ Coming = ToSet(held) /\ ~InMicrotask /\ ~InMicrotask'
  BY <1>2 DEF Coming, InMicrotask
<1>4. \A x \in Out, y \in Coming : Before(x, y)'
  BY <1>1, BeforeStays DEF InOrderOut
<1>5. ASSUME NEW x \in ToSet(events), NEW y \in ToSet(held') PROVE Before(x, y)'
  <2>1. x < y
    BY <1>5
  <2>2. x \in Nat /\ y \in Nat
    BY <1>1, <1>5, Members DEF Types
  <2> QED
    BY <2>1, <2>2 DEF Before
<1>6. issued' \in Nat /\ issued <= issued' /\ issued' = issued /\ class' = class /\ merge' = merge /\ inFlush \subseteq inFlush'
  BY <1>1 DEF Types
<1>7. \A x \in Out, y \in ToSet(events) : Before(x, y)'
  BY <1>3, <1>4
<1>8. \A x \in Out \cup ToSet(events), y \in Coming' : Before(x, y)'
  BY <1>3, <1>4, <1>5
<1>9. /\ contents' \in [1..MaxEvents -> Seq(1..issued')]
      /\ \A r \in 1..MaxEvents : Ascending(contents'[r])
      /\ Out' = Out \cup ToSet(events) /\ InOrderOut'
  BY <1>1, <1>2, <1>6, <1>7, <1>8, RoundAdded
<1>10. Types' /\ Loops'
  BY <1>1, <1>2, <1>6, <1>9 DEF Types, StackKept
<1>11. Released'
  BY <1>2, <1>6 DEF Released, StackKept
<1>12. Taken'
  BY <1>1, <1>3, <1>6, <1>9 DEF Taken
<1> QED
  BY <1>2, <1>3, <1>9, <1>10, <1>11, <1>12 DEF DeferringIInv, RoundsLeft


-----------------------------------------------------------------------------
(* Where loops start and end.                                              *)

\* A step of a loop leaves the delivery alone.
Apart == UNCHANGED <<listeners, handles, disposed, hooked, queue, audience, received, emitted>>

LEMMA ApartDelivery == ASSUME Delivery, Reaches, Apart PROVE Delivery' /\ Reaches'
BY OtherDelivery DEF Delivery, Apart

\* resume() starts a loop.
LEMMA StartFlushIInv ==
    ASSUME DeferringIInv, class # "microtask", ~merge, UserCode, StartFlush(<<>>),
           UNCHANGED <<class, merge, held, issued, accepted, contents, inFlush>>,
           pauses' \in Nat, pending' \in BOOLEAN
    PROVE  DeferringIInv'
<1>1. Types /\ Loops /\ Delivery /\ Reaches /\ InOrderOut /\ Taken
  BY DEF DeferringIInv
<1>2. Apart /\ stack' = Append(stack, FlushFrame(<<>>))
  BY DEF StartFlush, Apart
<1>3. Delivery' /\ Reaches'
  BY <1>1, <1>2, ApartDelivery
<1>4. FlushFrame(<<>>) \in LoopFrames
  BY EmptySeq DEF FlushFrame, LoopFrames
<1>5. /\ stack' \in Seq(AllFrames) /\ Len(stack) \in Nat /\ Len(stack') = Len(stack) + 1
      /\ \A i \in 1..Len(stack) : stack'[i] = stack[i]
      /\ stack'[Len(stack) + 1].kind = "flush"
      /\ DOMAIN stack' = 1..Len(stack')
  BY <1>1, <1>2, <1>4, FrameKinds, AppendIs, LenProperties DEF Types
<1>6. stack = <<>> \/ (Len(stack) \in 1..Len(stack) /\ stack[Len(stack)].kind = "listener")
  <2>1. CASE stack = <<>>
    BY <2>1
  <2>2. CASE stack # <<>>
    <3>1. Last(stack) \in AllFrames /\ Len(stack) \in Nat \ {0}
      BY <1>1, <2>2, FrontLast DEF Types
    <3>2. Last(stack).kind \in {"program", "listener", "function"}
      BY <2>2 DEF UserCode, Running
    <3> QED
      BY <3>1, <3>2 DEF AllFrames, Frames, LoopFrames, Last
  <2> QED
    BY <2>1, <2>2
<1>7. Loops'
  <2> SUFFICES ASSUME NEW i \in 1..Len(stack'), stack'[i].kind = "flush"
               PROVE  i = 1 \/ (class' # "microtask" /\ stack'[i - 1].kind = "listener")
    BY DEF Loops
  <2>1. CASE i <= Len(stack)
    <3>1. i = 1 \/ (i - 1 \in 1..Len(stack) /\ stack[i - 1].kind = "listener")
      BY <1>1, <1>5, <2>1 DEF Loops
    <3> QED
      BY <1>5, <3>1
  <2>2. CASE i = Len(stack) + 1
    BY <1>5, <1>6, <2>2
  <2> QED
    BY <1>5, <2>1, <2>2
<1>8. Flushing'
  BY <1>5 DEF Flushing
<1>9. ~InMicrotask /\ ~InMicrotask' /\ Coming' = Coming /\ Out' = Out /\ Rounds' = Rounds
  BY <1>2 DEF InMicrotask, Coming, Out, Rounds, Apart
<1>10. Types'
  BY <1>1, <1>5 DEF Types
<1>11. InOrderOut'
  BY <1>1, <1>9 DEF InOrderOut, Before
<1>12. Released' /\ Taken'
  BY <1>1, <1>8, <1>9 DEF Released, Taken, Types
<1> QED
  BY <1>3, <1>7, <1>9, <1>10, <1>11, <1>12 DEF DeferringIInv, RoundsLeft

\* A frame goes away and the others stay.
LEMMA LoopsPopped ==
    ASSUME stack \in Seq(AllFrames), Loops, stack # <<>>, stack' = Front(stack), class' = class
    PROVE  stack' \in Seq(AllFrames) /\ Loops' /\ DOMAIN stack' = 1..Len(stack) - 1
<1>1. /\ stack' \in Seq(AllFrames) /\ Len(stack) \in Nat \ {0} /\ Len(stack') = Len(stack) - 1
      /\ \A i \in 1..Len(stack) - 1 : stack'[i] = stack[i]
  BY FrontLast
<1> QED
  BY <1>1, LenProperties DEF Loops

\* The loop of resume() ends: the emitter is paused again or nothing is held.
LEMMA EndFlushIInv ==
    ASSUME DeferringIInv, class # "microtask", Running = "flush", EndFlush, pauses # 0 \/ held = <<>>,
           UNCHANGED <<class, merge, held, issued, accepted, contents, inFlush, pauses, pending>>
    PROVE  DeferringIInv'
<1>1. Types /\ Loops /\ Delivery /\ Reaches /\ InOrderOut /\ Taken
  BY DEF DeferringIInv
<1>2. Apart /\ stack # <<>> /\ stack' = Front(stack)
  BY RunningFrame DEF EndFlush, Apart
<1>3. Delivery' /\ Reaches' /\ stack' \in Seq(AllFrames) /\ Loops'
  BY <1>1, <1>2, ApartDelivery, LoopsPopped DEF Types
<1>4. ~InMicrotask /\ ~InMicrotask' /\ Coming' = Coming /\ Out' = Out /\ Rounds' = Rounds
  BY <1>2 DEF InMicrotask, Coming, Out, Rounds, Apart
<1>5. Types'
  BY <1>1, <1>3 DEF Types
<1>6. InOrderOut'
  BY <1>1, <1>4 DEF InOrderOut, Before
<1>7. Released' /\ Taken'
  BY <1>1, <1>4 DEF Released, Taken
<1> QED
  BY <1>3, <1>4, <1>5, <1>6, <1>7 DEF DeferringIInv, RoundsLeft

\* A microtask takes the held events over.
LEMMA RunMicrotaskIInv == ASSUME DeferringIInv, RunMicrotask PROVE DeferringIInv'
<1>1. Types /\ Loops /\ Delivery /\ Reaches /\ InOrderOut /\ Taken
  BY DEF DeferringIInv
<1>2. /\ class = "microtask" /\ stack = <<>> /\ pending' = FALSE
      /\ UNCHANGED <<class, merge, pauses, held, issued, accepted, contents, inFlush>>
      /\ Apart /\ stack' = Append(stack, FlushFrame(RoundsFor(held)))
  BY DEF RunMicrotask, StartFlush, Apart
<1>3. Delivery' /\ Reaches'
  BY <1>1, <1>2, ApartDelivery
<1>4. /\ RoundsFor(held) \in Seq(Seq(Nat)) /\ RoundsIn(RoundsFor(held), issued)
      /\ EventsOf(RoundsFor(held)) = ToSet(held)
  BY <1>1, RoundsForHeld
<1> DEFINE f == FlushFrame(RoundsFor(held))
<1>5. f \in LoopFrames /\ f.left = RoundsFor(held) /\ f.kind = "flush"
  BY <1>4 DEF FlushFrame, LoopFrames
<1> HIDE DEF f
<1>6. stack' = <<f>> /\ stack' \in Seq(AllFrames) /\ Len(stack') = 1 /\ DOMAIN stack' = {1} /\ stack'[1] = f
  BY <1>2, <1>5, FrameKinds DEF f
<1>7. ~InMicrotask /\ InMicrotask' /\ Coming = ToSet(held) /\ Coming' = ToSet(held)
  BY <1>2, <1>4, <1>5, <1>6 DEF InMicrotask, Flushing, Coming
<1>8. Out' = Out /\ Rounds' = Rounds
  BY <1>2 DEF Out, Rounds, Apart
<1>9. Types' /\ Loops'
  <2>1. Loops'
    BY <1>6 DEF Loops
  <2> QED
    BY <1>1, <1>2, <1>6, <2>1 DEF Types
<1>10. RoundsLeft'
  BY <1>2, <1>4, <1>5, <1>6 DEF RoundsLeft
<1>11. InOrderOut'
  BY <1>1, <1>2, <1>7, <1>8 DEF InOrderOut, Before
<1>12. Released' /\ Taken'
  BY <1>1, <1>2, <1>7, <1>8 DEF Released, Taken
<1> QED
  BY <1>3, <1>9, <1>10, <1>11, <1>12 DEF DeferringIInv

\* The microtask ends, and with it what was added while it ran.
LEMMA MicrotaskEndIInv == ASSUME DeferringIInv, MicrotaskEnd PROVE DeferringIInv'
<1>1. Types /\ Loops /\ Delivery /\ Reaches /\ InOrderOut /\ Taken
  BY DEF DeferringIInv
<1>2. /\ class = "microtask" /\ Running = "flush" /\ Last(stack).left = <<>> /\ held' = <<>>
      /\ UNCHANGED <<class, merge, pauses, pending, issued, accepted, contents, inFlush>>
      /\ Apart /\ stack # <<>> /\ Last(stack).kind = "flush" /\ stack' = Front(stack)
  BY RunningFrame DEF MicrotaskEnd, EndFlush, Apart
<1>3. Delivery' /\ Reaches' /\ stack' \in Seq(AllFrames) /\ Loops' /\ DOMAIN stack' = 1..Len(stack) - 1
  BY <1>1, <1>2, ApartDelivery, LoopsPopped DEF Types
<1>4. Len(stack) \in 1..Len(stack) /\ DOMAIN stack = 1..Len(stack) /\ Last(stack) = stack[Len(stack)]
  BY <1>1, <1>2, EmptySeq, LenProperties DEF Types, Last
<1>5. Len(stack) = 1
  BY <1>1, <1>2, <1>4 DEF Loops
<1>6. InMicrotask /\ ~InMicrotask'
  BY <1>2, <1>3, <1>4, <1>5 DEF InMicrotask, Flushing
<1>7. Coming = {} /\ Coming' = {} /\ Out' = Out /\ Rounds' = Rounds
  <2>1. EventsOf(stack[1].left) = {}
    BY <1>2, <1>4, <1>5 DEF EventsOf
  <2> QED
    BY <1>2, <1>6, <2>1, EmptyRound DEF Coming, Out, Rounds, Apart
<1>8. Types'
  BY <1>1, <1>2, <1>3, EmptySeq, EmptyRound DEF Types
<1>9. RoundsLeft'
  BY <1>6 DEF RoundsLeft
<1>10. InOrderOut'
  BY <1>1, <1>2, <1>7 DEF InOrderOut, Before
<1>11. Released' /\ Taken'
  BY <1>1, <1>2, <1>6, <1>7 DEF Released, Taken
<1> QED
  BY <1>3, <1>8, <1>9, <1>10, <1>11 DEF DeferringIInv

\* What a round of a microtask leaves of its frame, and the call of emit() above.
LEMMA LoopTurns ==
    ASSUME NEW s \in Seq(AllFrames), Len(s) = 1, NEW f \in LoopFrames,
           NEW rest, rest = Append(Front(s), f), NEW t, t = rest \/ t = Append(rest, EmitFrame)
    PROVE  /\ t \in Seq(AllFrames) /\ Len(t) \in Nat \ {0} /\ t[1] = f
           /\ \A i \in 1..Len(t) : t[i].kind = "flush" => i = 1
           /\ DOMAIN t = 1..Len(t)
<1>1. Front(s) \in Seq(AllFrames) /\ Len(Front(s)) = 0
  <2>1. s = <<>> => Len(s) = 0
    OBVIOUS
  <2>2. s # <<>>
    BY <2>1
  <2> QED
    BY <2>2, FrontLast
<1>2. f \in AllFrames /\ EmitFrame \in AllFrames /\ EmitFrame.kind # "flush"
  BY FrameKinds
<1>3. rest \in Seq(AllFrames) /\ Len(rest) = 1 /\ rest[1] = f
  BY <1>1, <1>2, AppendIs
<1>4. CASE t = rest
  BY <1>3, <1>4, LenProperties
<1>5. CASE t = Append(rest, EmitFrame)
  <2>1. /\ t \in Seq(AllFrames) /\ Len(t) = Len(rest) + 1 /\ t[Len(rest) + 1] = EmitFrame
        /\ \A i \in 1..Len(rest) : t[i] = rest[i]
    BY <1>2, <1>3, <1>5, AppendIs
  <2>2. Len(t) = 2 /\ t[1] = f /\ t[2] = EmitFrame /\ t \in Seq(AllFrames)
    BY <1>3, <2>1
  <2> QED
    BY <1>2, <2>2, LenProperties
<1> QED
  BY <1>4, <1>5

\* One round of a microtask.
LEMMA MicrotaskRoundIInv == ASSUME DeferringIInv, MicrotaskRound PROVE DeferringIInv'
<1>1. Types /\ Loops /\ RoundsLeft /\ Delivery /\ Reaches /\ InOrderOut /\ Taken
  BY DEF DeferringIInv
<1>2. /\ class = "microtask" /\ Running = "flush" /\ Last(stack).left # <<>>
      /\ UNCHANGED <<class, merge, pauses, pending, issued, accepted, inFlush, held>>
      /\ UNCHANGED <<listeners, handles, disposed, hooked, received>>
      /\ stack # <<>> /\ Last(stack).kind = "flush"
      /\ emitted < MaxEvents /\ emitted' = emitted + 1
      /\ IF HasListeners
         THEN queue' = queue \o Round(emitted + 1) /\ audience' = [audience EXCEPT ![emitted + 1] = ToSet(listeners)]
         ELSE UNCHANGED <<queue, audience>>
      /\ RoundOut(Head(Last(stack).left))
  BY RunningFrame DEF MicrotaskRound, RoundOut
<1>3. Delivery' /\ Reaches'
  BY <1>1, <1>2, EmitDelivery
<1>4. /\ Len(stack) \in 1..Len(stack) /\ DOMAIN stack = 1..Len(stack) /\ Last(stack) = stack[Len(stack)]
      /\ stack \in Seq(AllFrames)
  BY <1>1, <1>2, EmptySeq, LenProperties DEF Types, Last
<1>5. Len(stack) = 1 /\ Last(stack) = stack[1]
  BY <1>1, <1>2, <1>4 DEF Loops
<1>6. InMicrotask
  BY <1>2, <1>4 DEF InMicrotask, Flushing
<1> DEFINE left == stack[1].left
           f == FlushFrame(Tail(left))
<1>7. left \in Seq(Seq(Nat)) /\ left # <<>> /\ RoundsIn(left, issued) /\ issued \in Nat
  BY <1>1, <1>2, <1>5, <1>6, MicrotaskFrame DEF RoundsLeft, Types
<1>8. PICK rest : rest = Append(Front(stack), f) /\ (stack' = rest \/ stack' = Append(rest, EmitFrame))
  BY <1>5 DEF MicrotaskRound
<1> HIDE DEF left
<1>9. /\ Head(left) \in Seq(1..issued) /\ Ascending(Head(left))
      /\ Tail(left) \in Seq(Seq(Nat)) /\ RoundsIn(Tail(left), issued)
      /\ EventsOf(left) = ToSet(Head(left)) \cup EventsOf(Tail(left))
      /\ \A x \in ToSet(Head(left)), y \in EventsOf(Tail(left)) : x < y
  BY <1>7, HeadRound
<1>10. f \in LoopFrames /\ f.left = Tail(left) /\ f.kind = "flush" /\ f \in AllFrames
  BY <1>9 DEF FlushFrame, LoopFrames, AllFrames
<1> HIDE DEF f
<1>11. /\ stack' \in Seq(AllFrames) /\ Len(stack') \in Nat \ {0} /\ stack'[1] = f
       /\ \A i \in 1..Len(stack') : stack'[i].kind = "flush" => i = 1
       /\ DOMAIN stack' = 1..Len(stack')
  <2>1. stack \in Seq(AllFrames) /\ Len(stack) = 1
    BY <1>4, <1>5
  <2> QED
    BY <1>8, <1>10, <2>1, LoopTurns
<1>12. InMicrotask' /\ Coming = EventsOf(left) /\ Coming' = EventsOf(Tail(left))
  BY <1>2, <1>6, <1>10, <1>11 DEF InMicrotask, Flushing, Coming, left
<1>13. \A x \in Out, y \in Coming : Before(x, y)'
  BY <1>1, <1>2, BeforeStays DEF InOrderOut
<1>14. ASSUME NEW x \in ToSet(Head(left)), NEW y \in EventsOf(Tail(left)) PROVE Before(x, y)'
  <2>1. x < y
    BY <1>9, <1>14
  <2>2. x \in Nat /\ y \in Nat
    BY <1>1, <1>7, <1>9, <1>12, <1>14, ComingTypes, Members
  <2> QED
    BY <2>1, <2>2 DEF Before
<1>15. /\ issued' \in Nat /\ issued <= issued' /\ issued' = issued /\ class' = class /\ merge' = merge
       /\ inFlush \subseteq inFlush'
  BY <1>2, <1>7
<1>16. \A x \in Out, y \in ToSet(Head(left)) : Before(x, y)'
  BY <1>9, <1>12, <1>13
<1>17. \A x \in Out \cup ToSet(Head(left)), y \in Coming' : Before(x, y)'
  BY <1>9, <1>12, <1>13, <1>14
<1>18. RoundOut(Head(left))
  BY <1>2, <1>5 DEF left
<1>19. /\ contents' \in [1..MaxEvents -> Seq(1..issued')]
       /\ \A r \in 1..MaxEvents : Ascending(contents'[r])
       /\ Out' = Out \cup ToSet(Head(left)) /\ InOrderOut'
  BY <1>1, <1>9, <1>15, <1>16, <1>17, <1>18, RoundAdded
<1>20. Types' /\ Loops'
  <2>1. Loops'
    BY <1>11 DEF Loops
  <2> QED
    BY <1>1, <1>2, <1>11, <1>19, <2>1 DEF Types
<1>21. RoundsLeft'
  BY <1>2, <1>9, <1>10, <1>11 DEF RoundsLeft
<1>22. Released' /\ Taken'
  <2>1. \A x \in Coming : x \in Coming' \/ x \in Out'
    BY <1>9, <1>12, <1>19
  <2> QED
    BY <1>1, <1>2, <1>6, <1>19, <2>1 DEF Released, Taken
<1> QED
  BY <1>3, <1>19, <1>20, <1>21, <1>22 DEF DeferringIInv

-----------------------------------------------------------------------------
(* The actions.                                                            *)

\* resume() and the timer, by what becomes of the held events.
LEMMA ResumeBodyIInv ==
    ASSUME DeferringIInv, class # "microtask", UserCode, ResumeBody,
           UNCHANGED <<class, merge, issued, accepted, inFlush>>, pending' \in BOOLEAN
    PROVE  DeferringIInv'
<1>1. Types /\ Loops /\ Delivery /\ Reaches /\ InOrderOut /\ Released
  BY DEF DeferringIInv
<1>2. pauses \in Nat /\ held \in Seq(1..issued) /\ Ascending(held)
  BY <1>1 DEF Types
<1>3. pauses' \in Nat
  BY <1>2 DEF ResumeBody
<1>4. CASE pauses = 1 /\ merge
  <2>1. SuperEmit(held) /\ held' = <<>>
    BY <1>4 DEF ResumeBody, Release
  <2>2. held' \in Seq(1..issued) /\ Ascending(held') /\ ToSet(held') = {}
    BY <2>1, EmptySeq, EmptyRound
  <2> QED
    BY <1>2, <1>3, <2>1, <2>2, ReleaseIInv
<1>5. CASE pauses = 1 /\ ~merge
  <2>1. StartFlush(<<>>) /\ UNCHANGED <<held, contents>>
    BY <1>5 DEF ResumeBody, Release
  <2> QED
    BY <1>3, <1>5, <2>1, StartFlushIInv
<1>6. CASE pauses # 1
  <2>1. UNCHANGED <<vars, held, contents>>
    BY <1>6 DEF ResumeBody
  <2>2. pauses' = 0 => pauses = 0
    BY <1>2, <1>6 DEF ResumeBody
  <2>3. Delivery' /\ Reaches' /\ StackKept
    BY <1>1, <2>1, OtherDelivery, StackSame DEF Delivery, Types, vars, emitterVars
  <2>4. emitted' = emitted
    BY <2>1 DEF vars
  <2> QED
    BY <1>3, <2>1, <2>2, <2>3, <2>4, QuietIInv
<1> QED
  BY <1>4, <1>5, <1>6

\* emit() of an emitter that may be paused.
LEMMA EmitOrHoldIInv ==
    ASSUME DeferringIInv, class # "microtask", Issue, pauses' \in Nat, pauses' = 0 => pauses = 0,
           pending' \in BOOLEAN, EmitOrHold(pauses' > 0)
    PROVE  DeferringIInv'
<1>1. NewEvent
  BY Issues
<1>2. CASE ~HasListeners
  <2>1. UNCHANGED <<vars, held, contents>>
    BY <1>2 DEF EmitOrHold
  <2>2. accepted' = accepted
    BY <1>2 DEF Issue
  <2> QED
    BY <1>1, <2>1, <2>2, IgnoreIInv
<1>3. CASE HasListeners /\ pauses' > 0
  <2>1. held' = Append(held, issued + 1) /\ UNCHANGED <<vars, contents>>
    BY <1>3 DEF EmitOrHold
  <2>2. pauses' # 0
    BY <1>3
  <2> QED
    BY <1>1, <2>1, <2>2, HoldIInv
<1>4. CASE HasListeners /\ ~(pauses' > 0)
  <2>1. SuperEmit(<<issued + 1>>) /\ UNCHANGED held
    BY <1>4 DEF EmitOrHold
  <2>2. pauses' = 0 /\ pauses = 0
    BY <1>4
  <2> QED
    BY <1>1, <2>1, <2>2, EmitNowIInv
<1> QED
  BY <1>2, <1>3, <1>4

LEMMA FlushIInv == ASSUME DeferringIInv, Flush PROVE DeferringIInv'
<1>1. Types /\ Loops /\ Delivery /\ Reaches /\ Released
  BY DEF DeferringIInv
<1>2. /\ class # "microtask" /\ Running = "flush"
      /\ UNCHANGED <<class, merge, pauses, pending, issued, accepted, inFlush>>
      /\ pauses' \in Nat /\ pending' \in BOOLEAN
  BY <1>1 DEF Flush, Pauseable, Types
<1>3. CASE pauses = 0 /\ held # <<>>
  <2>1. SuperEmit(<<Head(held)>>) /\ held' = Tail(held)
    BY <1>3 DEF Flush
  <2>2. 1..issued \in SUBSET Nat /\ held \in Seq(1..issued) /\ Ascending(held)
    BY <1>1 DEF Types
  <2>3. /\ Head(held) \in 1..issued /\ held' \in Seq(1..issued) /\ Ascending(held')
        /\ ToSet(held) = {Head(held)} \cup ToSet(held')
        /\ \A y \in ToSet(held') : Head(held) < y
    BY <1>3, <2>1, <2>2, HeadFirst
  <2> PICK x \in 1..issued : x = Head(held)
    BY <2>3
  <2>4. <<x>> \in Seq(1..issued) /\ Ascending(<<x>>) /\ ToSet(<<x>>) = {x} /\ SuperEmit(<<x>>)
    BY <2>1, OneEvent
  <2>5. /\ ToSet(held) = ToSet(<<x>>) \cup ToSet(held')
        /\ \A z \in ToSet(<<x>>), y \in ToSet(held') : z < y
    BY <2>3, <2>4
  <2>6. class = "pauseable" /\ ~merge /\ Flushing
    BY <1>1, <1>2, <1>3 DEF Released
  <2> QED
    BY <1>2, <2>3, <2>4, <2>5, <2>6, ReleaseIInv
<1>4. CASE ~(pauses = 0 /\ held # <<>>)
  <2>1. EndFlush /\ UNCHANGED <<held, contents>>
    BY <1>4 DEF Flush
  <2> QED
    BY <1>2, <1>4, <2>1, EndFlushIInv
<1> QED
  BY <1>3, <1>4

LEMMA InheritedIInv == ASSUME DeferringIInv, Inherited PROVE DeferringIInv'
<1>1. Types /\ Loops /\ Delivery /\ Reaches
  BY DEF DeferringIInv
<1>2. /\ UNCHANGED <<class, merge, held, issued, accepted, contents, inFlush, pauses, pending>>
      /\ pauses' \in Nat /\ pending' \in BOOLEAN
  BY <1>1 DEF Inherited, deferVars, Types
<1>3. CASE \E l \in Listeners : Subscribe(l) \/ Unsubscribe(l) \/ Dispose
  <2>1. Delivery' /\ Reaches'
    BY <1>1, <1>3, ListenersDelivery
  <2>2. stack' = stack /\ emitted' = emitted
    BY <1>3 DEF Subscribe, Unsubscribe, Dispose
  <2> QED
    BY <1>1, <1>2, <2>1, <2>2, StackSame, QuietIInv DEF Types
<1>4. CASE Dispose
  <2>1. listeners' \in Seq(Listeners) /\ Distinct(listeners')
    BY <1>4, EmptySeq DEF Dispose, Distinct
  <2>2. Delivery' /\ Reaches'
    BY <1>1, <1>4, <2>1, OtherDelivery DEF Delivery, Dispose
  <2>3. stack' = stack /\ emitted' = emitted
    BY <1>4 DEF Dispose
  <2> QED
    BY <1>1, <1>2, <2>2, <2>3, StackSame, QuietIInv DEF Types
<1>5. CASE Deliver
  <2>1. Delivery' /\ Reaches'
    BY <1>1, <1>5, DeliverDelivery DEF Deliver
  <2>2. Head(queue) \in Pairs /\ stack' = Append(stack, CallFrame(Head(queue))) /\ emitted' = emitted
    BY <1>1, <1>5, HeadTailProperties DEF Deliver, Delivery
  <2>3. CallFrame(Head(queue)) \in Frames
    BY <2>2, FrameKinds
  <2>4. StackKept
    BY <1>1, <1>2, <2>2, <2>3, StackPushed DEF Types
  <2> QED
    BY <1>2, <2>1, <2>2, <2>4, QuietIInv
<1>6. CASE EmitReturn \/ ListenerReturn
  <2>1. /\ UNCHANGED <<listeners, handles, disposed, hooked, queue, emitted, audience, received>>
        /\ stack # <<>> /\ stack' = Front(stack) /\ Last(stack).kind # "flush"
    BY <1>6, RunningFrame DEF EmitReturn, ListenerReturn, Draining
  <2>2. Delivery' /\ Reaches'
    BY <1>1, <2>1, OtherDelivery DEF Delivery
  <2>3. StackKept
    BY <1>1, <1>2, <2>1, StackPopped DEF Types
  <2> QED
    BY <1>2, <2>1, <2>2, <2>3, QuietIInv
<1> QED
  BY <1>3, <1>4, <1>5, <1>6 DEF Inherited

LEMMA StillIInv ==
    ASSUME DeferringIInv, UNCHANGED <<vars, class, merge, held, issued, accepted, contents, inFlush, pending>>,
           pauses' = pauses \/ pauses' = pauses + 1
    PROVE  DeferringIInv'
<1>1. Types /\ Loops /\ Delivery /\ Reaches
  BY DEF DeferringIInv
<1>2. Delivery' /\ Reaches' /\ StackKept /\ emitted' = emitted
  BY <1>1, OtherDelivery, StackSame DEF Delivery, Types, vars, emitterVars
<1>3. pauses' \in Nat /\ pending' \in BOOLEAN /\ (pauses' = 0 => pauses = 0)
  BY <1>1 DEF Types
<1> QED
  BY <1>2, <1>3, QuietIInv

LEMMA NextDeferringIInv == DeferringIInv /\ [DeferringNext]_allVars => DeferringIInv'
<1> SUFFICES ASSUME DeferringIInv, [DeferringNext]_allVars PROVE DeferringIInv'
  OBVIOUS
<1>1. Types
  BY DEF DeferringIInv
<1>2. CASE Inherited
  BY <1>2, InheritedIInv
<1>3. CASE PauseableEmit
  <2>1. /\ class # "microtask" /\ Issue /\ pauses' = pauses /\ EmitOrHold(pauses' > 0)
        /\ pauses' \in Nat /\ pending' \in BOOLEAN
    BY <1>1, <1>3 DEF PauseableEmit, Types
  <2> QED
    BY <2>1, EmitOrHoldIInv
<1>4. CASE DebounceEmit
  <2>1. /\ class # "microtask" /\ Issue /\ EmitOrHold(pauses' > 0)
        /\ pauses' = IF pending THEN pauses ELSE pauses + 1
        /\ pauses' \in Nat /\ pending' \in BOOLEAN
    BY <1>1, <1>4 DEF DebounceEmit, Types
  <2>2. pauses' = 0 => pauses = 0
    BY <1>1, <2>1 DEF Types
  <2> QED
    BY <2>1, <2>2, EmitOrHoldIInv
<1>5. CASE MicrotaskEmit
  <2>1. NewEvent /\ class = "microtask" /\ held' = Append(held, issued + 1) /\ UNCHANGED <<vars, contents>>
    BY <1>5, Issues DEF MicrotaskEmit
  <2>2. pauses' \in Nat /\ pending' \in BOOLEAN
    BY <1>1, <1>5 DEF MicrotaskEmit, Types
  <2> QED
    BY <2>1, <2>2, HoldIInv
<1>6. CASE Resume
  <2>1. /\ class # "microtask" /\ UserCode /\ ResumeBody /\ pending' \in BOOLEAN
        /\ UNCHANGED <<class, merge, issued, accepted, inFlush>>
    BY <1>1, <1>6 DEF Resume, Pauseable, Types
  <2> QED
    BY <2>1, ResumeBodyIInv
<1>7. CASE DebounceTimer
  <2>1. /\ class # "microtask" /\ UserCode /\ ResumeBody /\ pending' \in BOOLEAN
        /\ UNCHANGED <<class, merge, issued, accepted, inFlush>>
    BY <1>7 DEF DebounceTimer, UserCode, Running
  <2> QED
    BY <2>1, ResumeBodyIInv
<1>8. CASE Pause
  BY <1>8, StillIInv DEF Pause
<1>9. CASE Finished \/ UNCHANGED allVars
  BY <1>9, StillIInv DEF Finished, allVars, deferVars
<1>10. CASE Flush \/ RunMicrotask \/ MicrotaskRound \/ MicrotaskEnd
  BY <1>10, FlushIInv, RunMicrotaskIInv, MicrotaskRoundIInv, MicrotaskEndIInv
<1> QED
  BY <1>2, <1>3, <1>4, <1>5, <1>6, <1>7, <1>8, <1>9, <1>10 DEF DeferringNext

-----------------------------------------------------------------------------
(* What the invariant says of the properties.                              *)

LEMMA RoundsOfOut ==
    ASSUME NEW x
    PROVE  RoundsOf(x) = {} <=> x \notin Out
BY DEF RoundsOf, Out

\* No event is in two rounds.
LEMMA OneRound ==
    ASSUME DeferringIInv, NEW x
    PROVE  Cardinality(RoundsOf(x)) <= 1
<1>1. ASSUME NEW r1 \in RoundsOf(x), NEW r2 \in RoundsOf(x) PROVE r1 = r2
  <2>1. r1 \in Rounds /\ r2 \in Rounds /\ x \in ToSet(contents[r1]) /\ x \in ToSet(contents[r2])
    BY DEF RoundsOf
  <2>2. r1 \in Int /\ r2 \in Int /\ ~(r1 < r2) /\ ~(r2 < r1)
    BY <2>1 DEF DeferringIInv, InOrderOut, Before, Rounds
  <2> QED
    BY <2>2
<1>2. CASE RoundsOf(x) = {}
  BY <1>2, FS_EmptySet
<1>3. CASE RoundsOf(x) # {}
  <2>1. PICK r : r \in RoundsOf(x)
    BY <1>3
  <2>2. RoundsOf(x) = {r}
    BY <1>1, <2>1
  <2> QED
    BY <2>2, FS_Singleton
<1> QED
  BY <1>2, <1>3

LEMMA IInvHeldOrEmitted == DeferringIInv => HeldOrEmittedOnce
<1> SUFFICES ASSUME DeferringIInv, NEW x \in accepted
             PROVE  /\ Cardinality(RoundsOf(x)) <= 1
                    /\ class # "microtask" => (x \in ToSet(held) <=> RoundsOf(x) = {})
                    /\ RoundsOf(x) = {} /\ x \notin ToSet(held) => x \in inFlush
  BY DEF HeldOrEmittedOnce
<1>1. RoundsOf(x) = {} <=> x \notin Out
  BY RoundsOfOut
<1>2. x \in ToSet(held) \/ x \in Out \/ (class = "microtask" /\ x \in inFlush)
  BY DEF DeferringIInv, Taken
<1>3. class # "microtask" /\ x \in ToSet(held) => x \notin Out
  BY DEF DeferringIInv, InOrderOut, Coming, InMicrotask, Before
<1> QED
  BY <1>1, <1>2, <1>3, OneRound

LEMMA IInvOvertakes == DeferringIInv => OvertakesOnlyInFlush
<1> SUFFICES ASSUME DeferringIInv PROVE OvertakesOnlyInFlush
  OBVIOUS
<1>1. \A r \in Rounds : IsSorted(contents[r], <)
  <2>1. \A r \in Rounds : Ascending(contents[r])
    BY OutTypes DEF DeferringIInv, Types
  <2> QED
    BY <2>1 DEF IsSorted, Ascending
<1> QED
  BY <1>1 DEF OvertakesOnlyInFlush, DeferringIInv, InOrderOut, Before

-----------------------------------------------------------------------------
(* The refinement: a flush loop is no call to Emitter.                     *)

\* The places of a finite set of numbers are 1..its size.
LEMMA PlaceIs ==
    ASSUME NEW n \in Nat, NEW K \in SUBSET (1..n), NEW k \in 1..Cardinality(K)
    PROVE  Place(K, k) \in K
<1> DEFINE upTo(i) == {j \in K : j <= i}
           f == [i \in K |-> Cardinality(upTo(i))]
           N == Cardinality(K)
<1>1. IsFiniteSet(K) /\ N \in Nat
  <2>1. IsFiniteSet(1..n)
    BY FS_Interval
  <2>2. IsFiniteSet(K)
    BY <2>1, FS_Subset
  <2> QED
    BY <2>2, FS_CardinalityType
<1>2. \A i \in K : /\ IsFiniteSet(upTo(i)) /\ Cardinality(upTo(i)) \in Nat
                   /\ Cardinality(upTo(i)) <= N
  BY <1>1, FS_Subset, FS_CardinalityType
<1>3. \A i \in K : Cardinality(upTo(i)) # 0
  <2> SUFFICES ASSUME NEW i \in K, Cardinality(upTo(i)) = 0 PROVE FALSE
    OBVIOUS
  <2>1. upTo(i) = {}
    BY <1>2, FS_EmptySet
  <2>2. i \in upTo(i)
    OBVIOUS
  <2> QED
    BY <2>1, <2>2
<1>4. f \in [K -> 1..N]
  BY <1>1, <1>2, <1>3
<1>5. ASSUME NEW i \in K, NEW j \in K, i < j PROVE Cardinality(upTo(i)) # Cardinality(upTo(j))
  <2>1. upTo(i) \subseteq upTo(j) /\ j \in upTo(j) /\ j \notin upTo(i)
    <3>1. K \subseteq Int /\ i \in Int /\ j \in Int
      OBVIOUS
    <3>2. \A x \in K : x <= i => x <= j
      BY <1>5, <3>1
    <3>3. ~(j <= i) /\ j <= j
      BY <1>5, <3>1
    <3> QED
      BY <3>2, <3>3
  <2>2. upTo(i) # upTo(j)
    BY <2>1
  <2> QED
    BY <1>2, <2>1, <2>2, FS_Subset
<1>6. ASSUME NEW i \in K, NEW j \in K, f[i] = f[j] PROVE i = j
  <2>1. ~(i < j) /\ ~(j < i)
    BY <1>5, <1>6
  <2> QED
    BY <2>1
<1>7. f \in Injection(K, 1..N)
  BY <1>4, <1>6 DEF Injection, IsInjective
<1>8. IsFiniteSet(1..N) /\ Cardinality(1..N) = N
  BY <1>1, FS_Interval
<1>9. f \in Surjection(K, 1..N)
  BY <1>7, <1>8, FS_Injection
<1>10. \E i \in K : f[i] = k
  BY <1>9 DEF Surjection
<1>11. {i \in K : Cardinality({j \in K : j <= i}) = k} # {}
  BY <1>10
<1> HIDE DEF f, upTo
<1> QED
  BY <1>11 DEF Place

LEMMA CallsIs ==
    ASSUME NEW S, NEW s \in Seq(S)
    PROVE  /\ Len(s) \in Nat /\ Calls(s) = {i \in 1..Len(s) : s[i].kind # "flush"}
           /\ Calls(s) \in SUBSET (1..Len(s)) /\ IsFiniteSet(Calls(s)) /\ Cardinality(Calls(s)) \in Nat
           /\ \A k \in 1..Cardinality(Calls(s)) : Place(Calls(s), k) \in Calls(s)
<1>1. Len(s) \in Nat /\ DOMAIN s = 1..Len(s)
  BY LenProperties
<1>2. Calls(s) = {i \in 1..Len(s) : s[i].kind # "flush"}
  BY <1>1 DEF Calls
<1>3. IsFiniteSet(1..Len(s)) /\ Calls(s) \in SUBSET (1..Len(s))
  BY <1>1, <1>2, FS_Interval
<1>4. IsFiniteSet(Calls(s))
  BY <1>3, FS_Subset
<1>5. Cardinality(Calls(s)) \in Nat
  BY <1>4, FS_CardinalityType
<1>6. \A k \in 1..Cardinality(Calls(s)) : Place(Calls(s), k) \in Calls(s)
  BY <1>1, <1>3, PlaceIs
<1> QED
  BY <1>1, <1>2, <1>3, <1>4, <1>5, <1>6

\* What Emitter sees is a sequence of its own frames.
LEMMA WithoutLoopsType ==
    ASSUME NEW s \in Seq(AllFrames)
    PROVE  /\ WithoutLoops(s) \in Seq(Frames)
           /\ Len(WithoutLoops(s)) = Cardinality(Calls(s))
           /\ \A k \in 1..Cardinality(Calls(s)) : WithoutLoops(s)[k] = s[Place(Calls(s), k)]
<1> DEFINE n == Cardinality(Calls(s))
<1>1. n \in Nat /\ \A k \in 1..n : Place(Calls(s), k) \in 1..Len(s) /\ s[Place(Calls(s), k)].kind # "flush"
  BY CallsIs
<1>2. \A k \in 1..n : s[Place(Calls(s), k)] \in Frames
  <2>1. \A k \in 1..n : s[Place(Calls(s), k)] \in AllFrames
    BY <1>1, ElementOfSeq
  <2> QED
    BY <1>1, <2>1, FrameKinds DEF AllFrames
<1> QED
  BY <1>1, <1>2 DEF WithoutLoops, Subsequence

LEMMA WithoutLoopsEmpty == WithoutLoops(<<>>) = <<>>
<1>1. Calls(<<>>) = {}
  BY DEF Calls
<1>2. <<>> \in Seq(AllFrames)
  BY EmptySeq
<1>3. WithoutLoops(<<>>) \in Seq(Frames) /\ Len(WithoutLoops(<<>>)) = 0
  BY <1>1, <1>2, WithoutLoopsType, FS_EmptySet
<1> QED
  BY <1>3, EmptySeq

\* A loop on top is not seen.
LEMMA WithoutLoopsLoop ==
    ASSUME NEW s \in Seq(AllFrames), NEW f \in AllFrames, f.kind = "flush"
    PROVE  WithoutLoops(Append(s, f)) = WithoutLoops(s)
<1> DEFINE t == Append(s, f)
<1>1. /\ t \in Seq(AllFrames) /\ Len(s) \in Nat /\ Len(t) = Len(s) + 1
      /\ \A i \in 1..Len(s) : t[i] = s[i]
      /\ t[Len(s) + 1] = f
  BY AppendIs
<1> HIDE DEF t
<1>2. Calls(t) = Calls(s)
  <2>1. Calls(t) = {i \in 1..Len(t) : t[i].kind # "flush"}
    BY <1>1, CallsIs
  <2>2. Calls(s) = {i \in 1..Len(s) : s[i].kind # "flush"}
    BY CallsIs
  <2>3. \A i \in 1..Len(t) : i \in 1..Len(s) \/ i = Len(s) + 1
    BY <1>1
  <2>4. \A i \in 1..Len(s) : i \in 1..Len(t)
    BY <1>1
  <2> QED
    BY <1>1, <2>1, <2>2, <2>3, <2>4
<1>3. \A k \in 1..Cardinality(Calls(s)) : t[Place(Calls(s), k)] = s[Place(Calls(s), k)]
  <2>1. \A k \in 1..Cardinality(Calls(s)) : Place(Calls(s), k) \in 1..Len(s)
    BY CallsIs
  <2> QED
    BY <1>1, <2>1
<1>4. WithoutLoops(t) = WithoutLoops(s)
  BY <1>2, <1>3 DEF WithoutLoops, Subsequence
<1> QED
  BY <1>4 DEF t

\* Any other frame is.
LEMMA WithoutLoopsCall ==
    ASSUME NEW s \in Seq(AllFrames), NEW f \in Frames
    PROVE  WithoutLoops(Append(s, f)) = Append(WithoutLoops(s), f)
<1> DEFINE t == Append(s, f)
           m == Len(s)
           K == Calls(s)
           N == Cardinality(K)
<1>1. f \in AllFrames /\ f.kind # "flush"
  BY FrameKinds
<1>2. t \in Seq(AllFrames) /\ m \in Nat /\ Len(t) = m + 1 /\ (\A i \in 1..m : t[i] = s[i]) /\ t[m + 1] = f
  BY <1>1, AppendIs
<1>3. /\ K = {i \in 1..m : s[i].kind # "flush"} /\ K \in SUBSET (1..m) /\ IsFiniteSet(K) /\ N \in Nat
      /\ (\A k \in 1..N : Place(K, k) \in K) /\ N = Cardinality(K)
  BY CallsIs
<1>4. Calls(t) = {i \in 1..Len(t) : t[i].kind # "flush"}
  BY <1>2, CallsIs
<1> HIDE DEF t, m, K, N
<1>5. Calls(t) = K \cup {m + 1} /\ m + 1 \notin K
  BY <1>1, <1>2, <1>3, <1>4
<1>6. Cardinality(Calls(t)) = N + 1
  <2> PICK x \in Nat : x = m + 1
    BY <1>2
  <2>1. IsFiniteSet(K) /\ x \notin K /\ Calls(t) = K \cup {x}
    BY <1>3, <1>5
  <2>2. Cardinality(K \cup {x}) = IF x \in K THEN Cardinality(K) ELSE Cardinality(K) + 1
    BY <2>1, FS_AddElement
  <2> QED
    BY <1>3, <2>1, <2>2
<1> DEFINE upTo(P, i) == Cardinality({j \in P : j <= i})
<1>7. \A i \in K : upTo(Calls(t), i) = upTo(K, i)
  <2>1. \A i \in K : {j \in Calls(t) : j <= i} = {j \in K : j <= i}
    BY <1>2, <1>3, <1>5
  <2> QED
    BY <2>1
<1>8. upTo(Calls(t), m + 1) = N + 1
  <2>1. {j \in Calls(t) : j <= m + 1} = Calls(t)
    BY <1>2, <1>3, <1>5
  <2> QED
    BY <1>6, <2>1
<1>9. \A i \in K : upTo(K, i) \in Nat /\ upTo(K, i) <= N
  BY <1>3, FS_Subset, FS_CardinalityType
<1> HIDE DEF upTo
<1>10. ASSUME NEW k \in 1..N PROVE Place(Calls(t), k) = Place(K, k)
  <2>1. {i \in Calls(t) : upTo(Calls(t), i) = k} = {i \in K : upTo(K, i) = k}
    <3>1. \A i \in Calls(t) : upTo(Calls(t), i) = k => i \in K
      <4>1. N + 1 # k
        BY <1>3
      <4> QED
        BY <1>5, <1>8, <4>1
    <3> QED
      BY <1>5, <1>7, <3>1
  <2> QED
    BY <2>1 DEF Place, upTo
<1>11. Place(Calls(t), N + 1) = m + 1
  <2>1. {i \in Calls(t) : upTo(Calls(t), i) = N + 1} = {m + 1}
    <3>1. \A i \in K : upTo(Calls(t), i) # N + 1
      <4> SUFFICES ASSUME NEW i \in K PROVE upTo(Calls(t), i) # N + 1
        OBVIOUS
      <4>1. upTo(K, i) \in Nat /\ upTo(K, i) <= N
        BY <1>9
      <4>2. upTo(K, i) # N + 1
        BY <1>3, <4>1
      <4> QED
        BY <1>7, <4>2
    <3> QED
      BY <1>5, <1>8, <3>1
  <2> QED
    BY <2>1 DEF Place, upTo
<1>12. /\ WithoutLoops(t) \in Seq(Frames) /\ Len(WithoutLoops(t)) = N + 1
       /\ \A k \in 1..N + 1 : WithoutLoops(t)[k] = t[Place(Calls(t), k)]
  BY <1>2, <1>6, WithoutLoopsType
<1> DEFINE w == WithoutLoops(s)
           v == Append(w, f)
<1>13. w \in Seq(Frames) /\ Len(w) = N /\ \A k \in 1..N : w[k] = s[Place(K, k)]
  BY WithoutLoopsType DEF K, N
<1> HIDE DEF w
<1>14. v \in Seq(Frames) /\ Len(v) = N + 1 /\ (\A k \in 1..N : v[k] = w[k]) /\ v[N + 1] = f
  BY <1>13, AppendIs
<1> HIDE DEF v
<1>15. \A k \in 1..N : WithoutLoops(t)[k] = v[k]
  <2>1. \A k \in 1..N : t[Place(K, k)] = s[Place(K, k)]
    BY <1>2, <1>3
  <2>2. \A k \in 1..N : k \in 1..N + 1
    BY <1>3
  <2>3. \A k \in 1..N : WithoutLoops(t)[k] = t[Place(K, k)]
    BY <1>10, <1>12, <2>2
  <2> QED
    BY <1>13, <1>14, <2>1, <2>3
<1>16. WithoutLoops(t)[N + 1] = v[N + 1]
  BY <1>2, <1>3, <1>11, <1>12, <1>14
<1>17. \A k \in 1..N + 1 : WithoutLoops(t)[k] = v[k]
  BY <1>3, <1>15, <1>16
<1>18. WithoutLoops(t) = v
  BY <1>3, <1>12, <1>14, <1>17, SeqEqual
<1> QED
  BY <1>18 DEF t, v, w

\* The helpers of the two instances of SequencesExt are the same.
LEMMA SameHelpers ==
    /\ \A s : Rounded!Front(s) = Front(s) /\ Rounded!Last(s) = Last(s) /\ Rounded!ToSet(s) = ToSet(s)
    /\ Rounded!EmitFrame = EmitFrame /\ \A pair : Rounded!CallFrame(pair) = CallFrame(pair)
    /\ Rounded!HasListeners = HasListeners /\ Rounded!Listeners = Listeners
    /\ \A e : Rounded!Round(e) = Round(e)
    /\ \A l : Rounded!Added(l) = Added(l) /\ Rounded!Removed(l) = Removed(l)
BY DEF Rounded!Front, Front, Rounded!Last, Last, Rounded!ToSet, ToSet, Rounded!EmitFrame, EmitFrame,
       Rounded!CallFrame, CallFrame, Rounded!HasListeners, HasListeners, Rounded!Listeners, Listeners,
       Rounded!Round, Round, Rounded!Added, Added, Rounded!Removed, Removed, Rounded!RemoveAt, RemoveAt

\* A call stack is what is below its last frame, and that frame.
LEMMA FrontOf ==
    ASSUME NEW S, NEW s \in Seq(S), NEW x \in S
    PROVE  Front(Append(s, x)) = s
<1> DEFINE t == Append(s, x)
<1>1. /\ t \in Seq(S) /\ t # <<>> /\ Len(s) \in Nat /\ Len(t) = Len(s) + 1
      /\ \A i \in 1..Len(s) : t[i] = s[i]
  BY AppendIs
<1> HIDE DEF t
<1>2. /\ Front(t) \in Seq(S) /\ Len(Front(t)) = Len(t) - 1
      /\ \A i \in 1..Len(t) - 1 : Front(t)[i] = t[i]
  BY <1>1, FrontLast
<1>3. Len(Front(t)) = Len(s) /\ \A i \in 1..Len(Front(t)) : Front(t)[i] = s[i]
  BY <1>1, <1>2
<1>4. Front(t) = s
  BY <1>2, <1>3, SeqEqual
<1> QED
  BY <1>4 DEF t

LEMMA FrontAndLast ==
    ASSUME NEW S, NEW s \in Seq(S), s # <<>>
    PROVE  Front(s) \in Seq(S) /\ Last(s) \in S /\ s = Append(Front(s), Last(s))
<1>1. /\ Front(s) \in Seq(S) /\ Last(s) \in S
      /\ Len(s) \in Nat \ {0} /\ Len(Front(s)) = Len(s) - 1
      /\ \A i \in 1..Len(s) - 1 : Front(s)[i] = s[i]
  BY FrontLast
<1>2. Last(s) = s[Len(s)]
  BY DEF Last
<1> DEFINE t == Append(Front(s), Last(s))
<1>3. /\ t \in Seq(S) /\ Len(t) = Len(Front(s)) + 1
      /\ \A i \in 1..Len(Front(s)) : t[i] = Front(s)[i]
      /\ t[Len(Front(s)) + 1] = Last(s)
  BY <1>1, AppendIs
<1> HIDE DEF t
<1>4. Len(s) = Len(t) /\ \A i \in 1..Len(s) : s[i] = t[i]
  BY <1>1, <1>2, <1>3
<1>5. s = t
  BY <1>3, <1>4, SeqEqual
<1> QED
  BY <1>1, <1>5 DEF t

\* A loop on top of the call stack is not seen, another frame is on top for Emitter too.
LEMMA TopLoop ==
    ASSUME NEW s \in Seq(AllFrames), s # <<>>, Last(s).kind = "flush"
    PROVE  WithoutLoops(s) = WithoutLoops(Front(s))
<1>1. Front(s) \in Seq(AllFrames) /\ Last(s) \in AllFrames /\ s = Append(Front(s), Last(s))
  BY FrontAndLast
<1>2. WithoutLoops(Append(Front(s), Last(s))) = WithoutLoops(Front(s))
  BY <1>1, WithoutLoopsLoop
<1> QED
  BY <1>1, <1>2

LEMMA TopCall ==
    ASSUME NEW s \in Seq(AllFrames), s # <<>>, Last(s).kind # "flush"
    PROVE  /\ WithoutLoops(s) # <<>> /\ Last(WithoutLoops(s)) = Last(s)
           /\ Front(WithoutLoops(s)) = WithoutLoops(Front(s))
<1>1. Front(s) \in Seq(AllFrames) /\ Last(s) \in AllFrames /\ s = Append(Front(s), Last(s))
  BY FrontAndLast
<1>2. Last(s) \in Frames
  BY <1>1, FrameKinds DEF AllFrames
<1> DEFINE w == WithoutLoops(Front(s))
<1>3. w \in Seq(Frames) /\ WithoutLoops(s) = Append(w, Last(s))
  BY <1>1, <1>2, WithoutLoopsType, WithoutLoopsCall
<1> HIDE DEF w
<1>4. Append(w, Last(s)) # <<>> /\ Last(Append(w, Last(s))) = Last(s) /\ Front(Append(w, Last(s))) = w
  BY <1>2, <1>3, AppendIs, FrontOf
<1> QED
  BY <1>3, <1>4 DEF w

\* What runs is what Emitter sees run, but for the loops.
LEMMA RunningCall ==
    ASSUME Types, Running \in {"emit", "listener"}
    PROVE  /\ stack # <<>> /\ Last(stack).kind = Running /\ Rounded!Running = Running
           /\ Front(Unflushed) = WithoutLoops(Front(stack))
<1>1. stack # <<>> /\ Last(stack).kind = Running /\ stack \in Seq(AllFrames)
  BY RunningFrame DEF Types
<1>2. Unflushed # <<>> /\ Last(Unflushed) = Last(stack) /\ Front(Unflushed) = WithoutLoops(Front(stack))
  BY <1>1, TopCall DEF Unflushed
<1>3. Rounded!Running = Last(Unflushed).kind
  BY <1>2, SameHelpers DEF Rounded!Running
<1> QED
  BY <1>1, <1>2, <1>3

\* Loops run where the program or a listener does.
LEMMA CallingIs ==
    ASSUME Types, Loops, UserCode \/ Running = "flush"
    PROVE  Rounded!UserCode
<1>1. stack \in Seq(AllFrames)
  BY DEF Types
<1>2. CASE stack = <<>>
  <2>1. Unflushed = <<>>
    BY <1>2, WithoutLoopsEmpty DEF Unflushed
  <2> QED
    BY <2>1 DEF Rounded!UserCode, Rounded!Running
<1>3. CASE stack # <<>> /\ Last(stack).kind # "flush"
  <2>1. Last(stack) \in AllFrames
    BY <1>1, <1>3, FrontLast
  <2>2. Running = "listener"
    BY <1>3, <2>1 DEF UserCode, Running, AllFrames, Frames, LoopFrames
  <2> QED
    BY <2>2, RunningCall DEF Rounded!UserCode
<1>4. CASE stack # <<>> /\ Last(stack).kind = "flush"
  <2> DEFINE below == Front(stack)
  <2>1. /\ below \in Seq(AllFrames) /\ Len(stack) \in Nat \ {0} /\ Len(below) = Len(stack) - 1
        /\ \A i \in 1..Len(stack) - 1 : below[i] = stack[i]
    BY <1>1, <1>4, FrontLast
  <2>2. Unflushed = WithoutLoops(below)
    BY <1>1, <1>4, TopLoop DEF Unflushed
  <2> HIDE DEF below
  <2>3. Len(stack) = 1 \/ stack[Len(stack) - 1].kind = "listener"
    BY <1>4, <2>1 DEF Loops, Last
  <2>4. CASE Len(stack) = 1
    <3>1. below = <<>>
      BY <2>1, <2>4, EmptySeq
    <3>2. Unflushed = <<>>
      BY <2>2, <3>1, WithoutLoopsEmpty
    <3> QED
      BY <3>2 DEF Rounded!UserCode, Rounded!Running
  <2>5. CASE Len(stack) # 1
    <3>1. below # <<>> /\ Last(below) = stack[Len(stack) - 1]
      BY <2>1, <2>5, EmptySeq DEF Last
    <3>2. Last(below).kind = "listener"
      BY <2>3, <2>5, <3>1
    <3>3. Unflushed # <<>> /\ Last(Unflushed) = Last(below)
      BY <2>1, <2>2, <3>1, <3>2, TopCall
    <3> QED
      BY <3>2, <3>3, SameHelpers DEF Rounded!UserCode, Rounded!Running
  <2> QED
    BY <2>4, <2>5
<1> QED
  BY <1>2, <1>3, <1>4

\* Steps that Emitter does not see.
LEMMA Unseen ==
    ASSUME UNCHANGED <<listeners, handles, disposed, hooked, queue, audience, received, emitted>>,
           Unflushed' = Unflushed
    PROVE  UNCHANGED Rounded!vars
BY DEF Rounded!vars, Rounded!emitterVars

LEMMA UnseenStill == ASSUME UNCHANGED vars PROVE UNCHANGED Rounded!vars
BY Unseen DEF vars, emitterVars, Unflushed

LEMMA EmitsRound ==
    ASSUME Types, Loops, UserCode \/ Running = "flush", Emission
    PROVE  Rounded!Emit
<1>1. Rounded!UserCode
  BY CallingIs
<1>2. HasListeners => Unflushed' = Append(Unflushed, EmitFrame)
  BY FrameKinds, WithoutLoopsCall DEF Types, Emission, StartEmit, Unflushed
<1>3. ~HasListeners => Unflushed' = Unflushed
  BY DEF Emission, StartEmit, emitterVars, Unflushed
<1> QED
  BY <1>1, <1>2, <1>3, SameHelpers
     DEF Emission, StartEmit, emitterVars, Rounded!Emit, Rounded!StartEmit, Rounded!emitterVars

LEMMA MicrotaskEmitsRound == ASSUME DeferringIInv, MicrotaskRound PROVE Rounded!Emit
<1>1. Types /\ Loops /\ RoundsLeft
  BY DEF DeferringIInv
<1>2. /\ Running = "flush" /\ class = "microtask" /\ stack # <<>> /\ Last(stack).kind = "flush"
      /\ stack \in Seq(AllFrames) /\ Last(stack).left # <<>>
  BY <1>1, RunningFrame DEF MicrotaskRound, Types
<1>3. Rounded!UserCode
  BY <1>1, <1>2, CallingIs
<1> DEFINE f == FlushFrame(Tail(Last(stack).left))
<1>4. PICK rest : /\ rest = Append(Front(stack), f)
                  /\ stack' = IF HasListeners THEN Append(rest, EmitFrame) ELSE rest
  BY DEF MicrotaskRound
<1>5. f \in AllFrames /\ f.kind = "flush"
  <2>1. Last(stack) \in LoopFrames
    BY <1>2, FrontLast, FrameKinds
  <2>2. Last(stack).left \in Seq(Seq(Nat))
    BY <2>1, FrameKinds
  <2>3. Tail(Last(stack).left) \in Seq(Seq(Nat))
    BY <1>2, <2>2, HeadTailProperties
  <2> QED
    BY <2>3 DEF FlushFrame, LoopFrames, AllFrames
<1> HIDE DEF f
<1>6. Front(stack) \in Seq(AllFrames) /\ rest \in Seq(AllFrames)
  <2>1. Front(stack) \in Seq(AllFrames)
    BY <1>2, FrontLast
  <2> QED
    BY <1>4, <1>5, <2>1, AppendIs
<1>7. WithoutLoops(rest) = Unflushed
  <2>1. WithoutLoops(Append(Front(stack), f)) = WithoutLoops(Front(stack))
    BY <1>5, <1>6, WithoutLoopsLoop
  <2>2. Unflushed = WithoutLoops(Front(stack))
    BY <1>2, TopLoop DEF Unflushed
  <2> QED
    BY <1>4, <2>1, <2>2
<1>8. HasListeners => Unflushed' = Append(Unflushed, EmitFrame)
  <2>1. WithoutLoops(Append(rest, EmitFrame)) = Append(WithoutLoops(rest), EmitFrame)
    BY <1>6, FrameKinds, WithoutLoopsCall
  <2> QED
    BY <1>4, <1>7, <2>1 DEF Unflushed
<1>9. ~HasListeners => Unflushed' = Unflushed
  BY <1>4, <1>7 DEF Unflushed
<1> QED
  BY <1>3, <1>8, <1>9, SameHelpers
     DEF MicrotaskRound, Rounded!Emit, Rounded!StartEmit, Rounded!emitterVars

LEMMA LoopUnseen ==
    ASSUME Types, EndFlush, Running = "flush"
    PROVE  UNCHANGED Rounded!vars
<1>1. Unflushed' = Unflushed
  BY RunningFrame, TopLoop DEF EndFlush, Types, Unflushed
<1> QED
  BY <1>1, Unseen DEF EndFlush

LEMMA StartUnseen ==
    ASSUME Types, NEW rounds \in Seq(Seq(Nat)), StartFlush(rounds)
    PROVE  UNCHANGED Rounded!vars
<1>1. FlushFrame(rounds) \in AllFrames /\ FlushFrame(rounds).kind = "flush"
  BY DEF FlushFrame, LoopFrames, AllFrames
<1>2. WithoutLoops(Append(stack, FlushFrame(rounds))) = WithoutLoops(stack)
  BY <1>1, WithoutLoopsLoop DEF Types
<1>3. Unflushed' = Unflushed
  BY <1>2 DEF StartFlush, Unflushed
<1> QED
  BY <1>3, Unseen DEF StartFlush

LEMMA InheritedStep == ASSUME DeferringIInv, Inherited PROVE Rounded!Next
<1>1. Types /\ Loops /\ Delivery
  BY DEF DeferringIInv
<1>2. CASE \E l \in Listeners : Subscribe(l) \/ Unsubscribe(l)
  <2> PICK l \in Listeners : Subscribe(l) \/ Unsubscribe(l)
    BY <1>2
  <2>1. Rounded!UserCode /\ Unflushed' = Unflushed
    BY <1>1, CallingIs DEF Subscribe, Unsubscribe, Unflushed
  <2>2. Subscribe(l) => Rounded!Subscribe(l)
    BY <2>1, SameHelpers DEF Subscribe, Rounded!Subscribe
  <2>3. Unsubscribe(l) => Rounded!Unsubscribe(l)
    BY <2>1, SameHelpers DEF Unsubscribe, Rounded!Unsubscribe
  <2> QED
    BY <2>2, <2>3, SameHelpers DEF Rounded!Next
<1>3. CASE Dispose
  <2>1. Rounded!UserCode /\ Unflushed' = Unflushed
    BY <1>1, <1>3, CallingIs DEF Dispose, Unflushed
  <2>2. Rounded!Dispose
    BY <1>3, <2>1 DEF Dispose, Rounded!Dispose
  <2> QED
    BY <2>2 DEF Rounded!Next
<1>4. CASE Deliver
  <2>1. Rounded!Draining
    BY <1>1, <1>4, RunningCall DEF Deliver, Draining, Rounded!Draining
  <2>2. Head(queue) \in Pairs
    BY <1>1, <1>4, HeadTailProperties DEF Deliver, Delivery
  <2>3. CallFrame(Head(queue)) \in Frames
    BY <2>2, FrameKinds
  <2>4. WithoutLoops(Append(stack, CallFrame(Head(queue)))) = Append(Unflushed, CallFrame(Head(queue)))
    BY <1>1, <2>3, WithoutLoopsCall DEF Types, Unflushed
  <2>5. Unflushed' = Append(Unflushed, Rounded!CallFrame(Head(queue)))
    BY <1>4, <2>4, SameHelpers DEF Deliver, Unflushed
  <2>6. Rounded!Deliver
    BY <1>4, <2>1, <2>5 DEF Deliver, Rounded!Deliver
  <2> QED
    BY <2>6 DEF Rounded!Next
<1>5. CASE EmitReturn
  <2>1. Rounded!Draining /\ Unflushed' = Rounded!Front(Unflushed)
    BY <1>1, <1>5, RunningCall, SameHelpers DEF EmitReturn, Draining, Rounded!Draining, Unflushed
  <2>2. Rounded!EmitReturn
    BY <1>5, <2>1 DEF EmitReturn, Rounded!EmitReturn
  <2> QED
    BY <2>2 DEF Rounded!Next
<1>6. CASE ListenerReturn
  <2>1. Rounded!Running = "listener" /\ Unflushed' = Rounded!Front(Unflushed)
    BY <1>1, <1>6, RunningCall, SameHelpers DEF ListenerReturn, Unflushed
  <2>2. Rounded!ListenerReturn
    BY <1>6, <2>1 DEF ListenerReturn, Rounded!ListenerReturn
  <2> QED
    BY <2>2 DEF Rounded!Next
<1> QED
  BY <1>2, <1>3, <1>4, <1>5, <1>6 DEF Inherited

\* emit() and resume() of an emitter that may be paused.
LEMMA EmitOrHoldStep ==
    ASSUME DeferringIInv, UserCode, NEW p, EmitOrHold(p)
    PROVE  Rounded!Emit \/ UNCHANGED Rounded!vars
<1>1. Types /\ Loops
  BY DEF DeferringIInv
<1>2. UNCHANGED vars \/ SuperEmit(<<issued + 1>>)
  BY DEF EmitOrHold
<1> QED
  BY <1>1, <1>2, UnseenStill, SuperEmits, EmitsRound

LEMMA ResumeBodyStep ==
    ASSUME DeferringIInv, UserCode, ResumeBody
    PROVE  Rounded!Emit \/ UNCHANGED Rounded!vars
<1>1. Types /\ Loops
  BY DEF DeferringIInv
<1>2. UNCHANGED vars \/ SuperEmit(held) \/ StartFlush(<<>>)
  BY DEF ResumeBody, Release
<1>3. <<>> \in Seq(Seq(Nat))
  BY EmptySeq
<1> QED
  BY <1>1, <1>2, <1>3, UnseenStill, SuperEmits, EmitsRound, StartUnseen

LEMMA NextRounded == DeferringIInv /\ [DeferringNext]_allVars => [Rounded!Next]_(Rounded!vars)
<1> SUFFICES ASSUME DeferringIInv, [DeferringNext]_allVars
             PROVE  Rounded!Next \/ UNCHANGED Rounded!vars
  OBVIOUS
<1>1. Types /\ Loops
  BY DEF DeferringIInv
<1>2. CASE Inherited
  BY <1>2, InheritedStep
<1>3. CASE PauseableEmit \/ DebounceEmit
  <2>1. UserCode /\ \E p : EmitOrHold(p)
    BY <1>3 DEF PauseableEmit, DebounceEmit, Issue
  <2> QED
    BY <2>1, EmitOrHoldStep DEF Rounded!Next
<1>4. CASE Resume \/ DebounceTimer
  <2>1. UserCode /\ ResumeBody
    BY <1>4 DEF Resume, DebounceTimer, UserCode, Running
  <2> QED
    BY <2>1, ResumeBodyStep DEF Rounded!Next
<1>5. CASE Flush
  <2>1. Running = "flush" /\ (EndFlush \/ SuperEmit(<<Head(held)>>))
    BY <1>5 DEF Flush
  <2>2. EndFlush => UNCHANGED Rounded!vars
    BY <1>1, <2>1, LoopUnseen
  <2>3. SuperEmit(<<Head(held)>>) => Rounded!Emit
    BY <1>1, <2>1, SuperEmits, EmitsRound
  <2> QED
    BY <2>1, <2>2, <2>3 DEF Rounded!Next
<1>6. CASE MicrotaskEmit \/ Pause \/ Finished \/ UNCHANGED allVars
  BY <1>6, UnseenStill DEF MicrotaskEmit, Pause, Finished, allVars
<1>7. CASE RunMicrotask
  BY <1>1, <1>7, RoundsForHeld, StartUnseen DEF RunMicrotask
<1>8. CASE MicrotaskRound
  BY <1>8, MicrotaskEmitsRound DEF Rounded!Next
<1>9. CASE MicrotaskEnd
  BY <1>1, <1>9, LoopUnseen DEF MicrotaskEnd
<1> QED
  BY <1>2, <1>3, <1>4, <1>5, <1>6, <1>7, <1>8, <1>9 DEF DeferringNext

LEMMA InitRounded == DeferringInit => Rounded!Init
BY WithoutLoopsEmpty DEF DeferringInit, Init, Rounded!Init, Unflushed

-----------------------------------------------------------------------------
(* The theorems.                                                           *)

\* The inductive invariant holds in every reachable state.
THEOREM DeferringInvariance == DeferringSafe => []DeferringIInv
BY InitDeferringIInv, NextDeferringIInv, PTL DEF DeferringSafe

\* For any number of events, listeners and pauses, in all three classes and with
\* or without a merge function: an event that was taken is held or part of
\* exactly one round, but for what listeners add to a running microtask
\* (pauseable.emitter.ts:21-48, microtask.emitter.ts:16-29).
THEOREM EmittedOnce == DeferringSafe => []HeldOrEmittedOnce
BY DeferringInvariance, IInvHeldOrEmitted, PTL

\* Rounds carry the events in the order they were emitted; only an event that a
\* listener of resume()'s loop emits overtakes others
\* (pauseable.emitter.ts:21-48, microtask.emitter.ts:16-29).
THEOREM OrderKept == DeferringSafe => []OvertakesOnlyInFlush
BY DeferringInvariance, IInvOvertakes, PTL

\* Towards its listeners each class is an Emitter whose events are the rounds, so
\* that what Emitter promises of order and audience holds of them, however emit(),
\* pause() and resume() are called from listeners (pauseable.emitter.ts:21-48,
\* debounce.emitter.ts:14-23, microtask.emitter.ts:16-29).
THEOREM RefinesEmitter == DeferringSafe => EmitsRounds
<1>1. DeferringInit => Rounded!Init
  BY InitRounded
<1>2. DeferringIInv /\ [DeferringNext]_allVars => [Rounded!Next]_(Rounded!vars)
  BY NextRounded
<1> QED
  BY <1>1, <1>2, DeferringInvariance, PTL DEF DeferringSafe, EmitsRounds
=============================================================================
