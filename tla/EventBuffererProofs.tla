------------------------- MODULE EventBuffererProofs -------------------------
(***************************************************************************)
(* What an EventBufferer guarantees for any number of listeners, events    *)
(* and calls of bufferEvents(), however they are nested.                   *)
(*                                                                         *)
(* Each frame of the call stack holds pairs that wait for their listeners: *)
(* a function those in its buffer, a flush those it has not handed on      *)
(* (Held).  No pair is in two places (Places), for a pair is received once *)
(* (Ordered, of EmitterProofs), and bufferEvents() flushes the buffer it   *)
(* made itself, whichever it takes off the stack of buffers.  The two are  *)
(* the same unless something threw (Matched), as the calls rise along both *)
(* stacks (Rising): so a pair that is buffered goes to a function that     *)
(* still runs, and nothing is lost (Complete).                             *)
(***************************************************************************)
EXTENDS EventBufferer, EmitterProofs

FunctionFrames == [kind : {"function"}, call : 1..MaxCalls]
FlushFrames == [kind : {"flush"}, left : Seq(Pairs)]
StackFrames == Frames \cup FunctionFrames \cup FlushFrames

BuffererTypes ==
    /\ stack \in Seq(StackFrames)
    /\ calls \in 0..MaxCalls
    /\ buffers \in Seq(1..MaxCalls)
    /\ content \in [1..MaxCalls -> Seq(Pairs)]
    /\ handed \in Seq(Pairs)
    /\ thrown \in BOOLEAN

\* The pairs that wait in each frame.
Held == [i \in 1..Len(stack) |->
            IF stack[i].kind = "function" THEN content[stack[i].call]
            ELSE IF stack[i].kind = "flush" THEN stack[i].left
            ELSE <<>>]

Places ==
    /\ \A i \in 1..Len(stack) :
          Distinct(Held[i]) /\ ToSet(Held[i]) \subseteq ToSet(received) \ ToSet(handed)
    /\ \A i, j \in 1..Len(stack) : i # j => ToSet(Held[i]) \cap ToSet(Held[j]) = {}
    /\ Distinct(handed) /\ ToSet(handed) \subseteq ToSet(received)

\* Buffers that were not made yet are empty, and what is in one was received.
Contents ==
    /\ \A c \in 1..MaxCalls : ToSet(content[c]) \subseteq ToSet(received) /\ Distinct(content[c])
    /\ \A c \in 1..MaxCalls : c > calls => content[c] = <<>>

Rising ==
    /\ \A i \in 1..Len(stack) : stack[i].kind = "function" => stack[i].call <= calls
    /\ \A i, j \in 1..Len(stack) :
          i < j /\ stack[i].kind = "function" /\ stack[j].kind = "function" => stack[i].call < stack[j].call
    /\ \A i \in 1..Len(buffers) : buffers[i] <= calls
    /\ \A i, j \in 1..Len(buffers) : i < j => buffers[i] < buffers[j]

\* The functions that run.
Functioning == {f.call : f \in {g \in ToSet(stack) : g.kind = "function"}}

Matched == ~thrown => ToSet(buffers) = Functioning

\* A listener is called by the emitter or by a flush.
Called == \A i \in 1..Len(stack) : stack[i].kind = "listener" => i > 1

Complete == ~thrown => {pair \in ToSet(received) : pair[1] \in Wrapped} = ToSet(handed) \cup Waiting

BuffererIInv ==
    /\ Delivery /\ Reaches /\ Drained
    /\ BuffererTypes
    /\ Places /\ Contents
    /\ Rising /\ Matched /\ Called
    /\ Complete

-----------------------------------------------------------------------------
(* The stack and the places where pairs wait.                              *)

LEMMA EmptyPlace == Distinct(<<>>) /\ ToSet(<<>>) = {}
BY DEF Distinct, ToSet

LEMMA DistinctAppend ==
    ASSUME NEW S, NEW s \in Seq(S), Distinct(s), NEW x \in S, x \notin ToSet(s)
    PROVE  Distinct(Append(s, x))
<1>1. /\ Len(Append(s, x)) = Len(s) + 1 /\ Len(s) \in Nat
      /\ \A i \in 1..Len(s) : Append(s, x)[i] = s[i]
      /\ Append(s, x)[Len(s) + 1] = x
  BY AppendIs
<1>2. \A i \in 1..Len(s) : s[i] # x
  BY LenProperties DEF ToSet
<1> QED
  BY <1>1, <1>2 DEF Distinct

LEMMA PushTwo ==
    ASSUME NEW S, NEW s \in Seq(S), NEW x \in S, NEW y \in S, NEW m \in Nat, Len(s) = m
    PROVE  /\ s \o <<x, y>> \in Seq(S) /\ Len(s \o <<x, y>>) = m + 2
           /\ \A i \in 1..m : (s \o <<x, y>>)[i] = s[i]
           /\ (s \o <<x, y>>)[m + 1] = x /\ (s \o <<x, y>>)[m + 2] = y
<1>1. Append(s, x) \in Seq(S) /\ Len(Append(s, x)) = m + 1
      /\ (\A i \in 1..m : Append(s, x)[i] = s[i]) /\ Append(s, x)[m + 1] = x
  BY AppendIs
<1>2. Append(Append(s, x), y) \in Seq(S) /\ Len(Append(Append(s, x), y)) = m + 1 + 1
      /\ (\A i \in 1..m + 1 : Append(Append(s, x), y)[i] = Append(s, x)[i])
      /\ Append(Append(s, x), y)[m + 1 + 1] = y
  BY <1>1, AppendIs
<1>3. s \o <<x, y>> = Append(Append(s, x), y)
  OBVIOUS
<1> QED
  <2>1. m + 1 + 1 = m + 2 /\ m + 1 \in 1..m + 1 /\ \A i \in 1..m : i \in 1..m + 1
    OBVIOUS
  <2> QED
    BY <1>1, <1>2, <1>3, <2>1

LEMMA HeadApart ==
    ASSUME NEW S, NEW s \in Seq(S), s # <<>>, Distinct(s)
    PROVE  /\ Head(s) \in S /\ Tail(s) \in Seq(S) /\ Distinct(Tail(s))
           /\ ToSet(s) = ToSet(Tail(s)) \cup {Head(s)} /\ Head(s) \notin ToSet(Tail(s))
<1>1. /\ Head(s) \in S /\ Tail(s) \in Seq(S) /\ Head(s) = s[1]
      /\ Len(s) \in Nat \ {0} /\ Len(Tail(s)) = Len(s) - 1
      /\ \A i \in 1..Len(Tail(s)) : Tail(s)[i] = s[i + 1]
      /\ DOMAIN s = 1..Len(s)
  BY HeadTailProperties, LenProperties, EmptySeq
<1>2. DOMAIN Tail(s) = 1..Len(s) - 1
  BY <1>1, LenProperties
<1>3. Distinct(Tail(s))
  BY <1>1 DEF Distinct
<1>4. ASSUME NEW x \in ToSet(s) PROVE x \in ToSet(Tail(s)) \cup {Head(s)}
  <2>1. PICK i \in 1..Len(s) : s[i] = x
    BY <1>1 DEF ToSet
  <2>2. CASE i = 1
    BY <1>1, <2>1, <2>2
  <2>3. CASE i # 1
    <3>1. i - 1 \in 1..Len(s) - 1 /\ Tail(s)[i - 1] = x
      BY <1>1, <2>1, <2>3
    <3> QED
      BY <1>2, <3>1 DEF ToSet
  <2> QED
    BY <2>2, <2>3
<1>5. ToSet(Tail(s)) \subseteq ToSet(s) /\ Head(s) \in ToSet(s)
  BY <1>1, <1>2 DEF ToSet
<1>6. Head(s) \notin ToSet(Tail(s))
  BY <1>1, <1>2 DEF ToSet, Distinct
<1> QED
  BY <1>1, <1>3, <1>4, <1>5, <1>6

LEMMA FrameKinds ==
    ASSUME BuffererTypes, NEW i \in 1..Len(stack)
    PROVE  /\ stack[i] \in StackFrames
           /\ stack[i].kind \in {"emit", "listener", "function", "flush"}
           /\ stack[i].kind = "function" => stack[i].call \in 1..MaxCalls
           /\ stack[i].kind = "flush" => stack[i].left \in Seq(Pairs)
<1>1. stack[i] \in StackFrames
  BY ElementOfSeq DEF BuffererTypes
<1> QED
  BY <1>1 DEF StackFrames, Frames, FunctionFrames, FlushFrames

LEMMA HeldTypes ==
    ASSUME BuffererTypes
    PROVE  Held \in [1..Len(stack) -> Seq(Pairs)]
BY FrameKinds, EmptySeq DEF Held, BuffererTypes

LEMMA WaitingIs ==
    BuffererTypes => \A x : x \in Waiting <=> \E i \in 1..Len(stack) : x \in ToSet(Held[i])
<1> SUFFICES ASSUME BuffererTypes, NEW x
             PROVE  x \in Waiting <=> \E i \in 1..Len(stack) : x \in ToSet(Held[i])
  OBVIOUS
<1>1. DOMAIN stack = 1..Len(stack)
  BY LenProperties DEF BuffererTypes
<1> QED
  BY <1>1, EmptyPlace DEF Waiting, Held

LEMMA WaitingNext ==
    BuffererTypes' => \A x : x \in Waiting' <=> \E i \in 1..Len(stack') : x \in ToSet(Held'[i])
<1> SUFFICES ASSUME BuffererTypes', NEW x
             PROVE  x \in Waiting' <=> \E i \in 1..Len(stack') : x \in ToSet(Held'[i])
  OBVIOUS
<1>1. DOMAIN stack' = 1..Len(stack')
  BY LenProperties DEF BuffererTypes
<1> QED
  BY <1>1, EmptyPlace DEF Waiting, Held

\* The next pair has not been received before.
LEMMA NewPair ==
    ASSUME Delivery, queue # <<>>
    PROVE  Head(queue) \in Pairs /\ Head(queue) \notin ToSet(received)
<1>1. received \in Seq(Pairs) /\ queue \in Seq(Pairs) /\ Head(queue) \in Pairs
  BY HeadTailProperties DEF Delivery
<1>2. Len(received) \in Nat /\ Len(queue) \in Nat \ {0} /\ DOMAIN received = 1..Len(received)
  BY <1>1, LenProperties, EmptySeq DEF Delivery
<1>3. /\ Len(Trace) = Len(received) + Len(queue)
      /\ \A i \in 1..Len(Trace) : Trace[i] = IF i <= Len(received) THEN received[i] ELSE queue[i - Len(received)]
  BY <1>1, ConcatAt DEF Trace
<1>4. Ordered(Trace, emitted)
  BY DEF Delivery
<1> DEFINE n == Len(received) + 1
<1>5. n \in 1..Len(Trace) /\ Trace[n] = Head(queue)
  BY <1>1, <1>2, <1>3
<1>6. ASSUME NEW i \in 1..Len(received) PROVE received[i] # Head(queue)
  <2>1. i \in 1..Len(Trace) /\ i < n /\ Trace[i] = received[i]
    BY <1>2, <1>3
  <2>2. Trace[i][1] = Trace[n][1] => Trace[i][2] < Trace[n][2]
    BY <1>4, <1>5, <2>1 DEF Ordered
  <2>3. Trace[n][2] \in Nat
    BY <1>1, <1>5 DEF Pairs
  <2> QED
    BY <1>5, <2>1, <2>2, <2>3
<1> QED
  BY <1>1, <1>2, <1>6 DEF ToSet

\* A pair that is taken from its place may be handed to its listener.
LEMMA PlacesKept ==
    ASSUME Places, ToSet(received) \subseteq ToSet(received'),
           \A i \in 1..Len(stack') :
               \/ Held'[i] = <<>>
               \/ /\ i \in 1..Len(stack) /\ Distinct(Held'[i])
                  /\ ToSet(Held'[i]) \subseteq ToSet(Held[i]) \ (ToSet(handed') \ ToSet(handed)),
           Distinct(handed'), ToSet(handed') \subseteq ToSet(received')
    PROVE  Places'
<1>1. ASSUME NEW i \in 1..Len(stack')
      PROVE  Distinct(Held'[i]) /\ ToSet(Held'[i]) \subseteq ToSet(received') \ ToSet(handed')
  BY EmptyPlace DEF Places
<1>2. ASSUME NEW i \in 1..Len(stack'), NEW j \in 1..Len(stack'), i # j
      PROVE  ToSet(Held'[i]) \cap ToSet(Held'[j]) = {}
  BY <1>2, EmptyPlace DEF Places
<1> QED
  BY <1>1, <1>2 DEF Places

\* Frames that stay where they are, and frames in which nothing waits.
LEMMA FramesStay ==
    ASSUME BuffererTypes, stack' \in Seq(StackFrames), content' = content,
           \A i \in 1..Len(stack') : \/ i \in 1..Len(stack) /\ stack'[i] = stack[i]
                                     \/ i \notin 1..Len(stack) /\ stack'[i].kind \in {"emit", "listener"}
    PROVE  /\ \A i \in 1..Len(stack') : Held'[i] = <<>> \/ (i \in 1..Len(stack) /\ Held'[i] = Held[i])
           /\ Rising /\ UNCHANGED <<buffers, calls>> => Rising'
<1>1. ASSUME NEW i \in 1..Len(stack')
      PROVE  Held'[i] = <<>> \/ (i \in 1..Len(stack) /\ Held'[i] = Held[i])
  BY DEF Held
<1>2. ASSUME Rising, UNCHANGED <<buffers, calls>>
      PROVE  Rising'
  <2>1. \A i \in 1..Len(stack') : stack'[i].kind = "function" => i \in 1..Len(stack) /\ stack'[i] = stack[i]
    OBVIOUS
  <2> QED
    BY <1>2, <2>1 DEF Rising
<1> QED
  BY <1>1, <1>2

\* What is left out is idle: no pair and no function waits in it.
Idle(f) == f.kind \in {"emit", "listener"} \/ (f.kind = "flush" /\ f.left = <<>>)

LEMMA IdleFrames ==
    ASSUME BuffererTypes, stack' \in Seq(StackFrames), content' = content,
           \A i \in 1..Len(stack') : \/ i \in 1..Len(stack) /\ stack'[i] = stack[i]
                                     \/ i \notin 1..Len(stack) /\ stack'[i].kind \in {"emit", "listener"},
           \A i \in 1..Len(stack) : i \in 1..Len(stack') \/ Idle(stack[i])
    PROVE  /\ Functioning' = Functioning
           /\ \A x : (\E i \in 1..Len(stack') : x \in ToSet(Held'[i])) <=> (\E i \in 1..Len(stack) : x \in ToSet(Held[i]))
<1>1. DOMAIN stack = 1..Len(stack) /\ DOMAIN stack' = 1..Len(stack')
  BY LenProperties DEF BuffererTypes
<1>2. Functioning' = Functioning
  BY <1>1 DEF Functioning, ToSet, Idle
<1>3. \A i \in 1..Len(stack) : i \in 1..Len(stack') \/ Held[i] = <<>>
  BY DEF Held, Idle
<1>4. \A i \in 1..Len(stack) : i \in 1..Len(stack') => Held'[i] = Held[i]
  BY DEF Held
<1>5. \A i \in 1..Len(stack') : i \in 1..Len(stack) \/ Held'[i] = <<>>
  BY DEF Held
<1> QED
  BY <1>2, <1>3, <1>4, <1>5, EmptyPlace

LEMMA Pushed ==
    ASSUME BuffererTypes, NEW f \in StackFrames, stack' = Append(stack, f)
    PROVE  /\ stack' \in Seq(StackFrames) /\ Len(stack') = Len(stack) + 1 /\ Len(stack) \in Nat
           /\ \A i \in 1..Len(stack) : i \in 1..Len(stack') /\ stack'[i] = stack[i]
           /\ \A i \in 1..Len(stack') : i \in 1..Len(stack) \/ (i = Len(stack) + 1 /\ stack'[i] = f)
           /\ stack'[Len(stack) + 1] = f
BY AppendIs DEF BuffererTypes

LEMMA Popped ==
    ASSUME BuffererTypes, stack # <<>>, stack' = Front(stack)
    PROVE  /\ stack' \in Seq(StackFrames) /\ Len(stack') = Len(stack) - 1 /\ Len(stack) \in Nat \ {0}
           /\ \A i \in 1..Len(stack') : i \in 1..Len(stack) /\ stack'[i] = stack[i]
           /\ \A i \in 1..Len(stack) : i \in 1..Len(stack') \/ (i = Len(stack) /\ stack[i] = Last(stack))
           /\ Last(stack) = stack[Len(stack)]
<1>1. /\ Front(stack) \in Seq(StackFrames) /\ Len(stack) \in Nat \ {0}
      /\ Len(Front(stack)) = Len(stack) - 1
      /\ \A i \in 1..Len(stack) - 1 : Front(stack)[i] = stack[i]
  BY FrontLast DEF BuffererTypes
<1>2. Last(stack) = stack[Len(stack)]
  BY DEF Last
<1>3. \A i \in 1..Len(stack) : i \in 1..Len(stack) - 1 \/ i = Len(stack)
  BY <1>1
<1> QED
  BY <1>1, <1>2, <1>3

LEMMA EmitterFrames ==
    /\ EmitFrame \in StackFrames /\ EmitFrame.kind = "emit"
    /\ \A pair \in Pairs : CallFrame(pair) \in StackFrames /\ CallFrame(pair).kind = "listener"
BY DEF EmitFrame, CallFrame, StackFrames, Frames

LEMMA RunningLast == Running # "program" => stack # <<>> /\ Running = Last(stack).kind
BY DEF Running

-----------------------------------------------------------------------------
(* The operations.                                                         *)

LEMMA InitBuffererIInv == BuffererInit => BuffererIInv
<1> SUFFICES ASSUME BuffererInit PROVE BuffererIInv
  OBVIOUS
<1>1. Delivery /\ Reaches /\ Drained
  BY InitDelivery DEF BuffererInit
<1>2. stack = <<>> /\ buffers = <<>> /\ handed = <<>> /\ received = <<>> /\ calls = 0 /\ thrown = FALSE
      /\ content = [call \in 1..MaxCalls |-> <<>>]
  BY DEF BuffererInit, Init
<1>3. BuffererTypes
  <2>1. stack \in Seq(StackFrames) /\ buffers \in Seq(1..MaxCalls) /\ handed \in Seq(Pairs)
    BY <1>2, EmptySeq
  <2>2. content \in [1..MaxCalls -> Seq(Pairs)]
    BY <1>2, EmptySeq
  <2>3. MaxCalls \in Nat
    BY BuffererAssumption
  <2>4. calls \in 0..MaxCalls
    BY <1>2, <2>3
  <2>5. thrown \in BOOLEAN
    BY <1>2
  <2> QED
    BY <2>1, <2>2, <2>4, <2>5 DEF BuffererTypes
<1>4. Len(stack) = 0 /\ Len(buffers) = 0
  BY <1>2, EmptySeq
<1>5. Waiting = {} /\ Functioning = {}
  BY <1>2, EmptyPlace DEF Waiting, Functioning
<1> QED
  BY <1>1, <1>2, <1>3, <1>4, <1>5, EmptyPlace
  DEF BuffererIInv, Places, Contents, Rising, Matched, Called, Complete

\* A step of the emitter that delivers nothing leaves every pair in its place.
LEMMA IdleIInv ==
    ASSUME BuffererIInv, Delivery', Reaches', Drained', UNCHANGED <<received, bufferVars>>,
           stack' \in Seq(StackFrames),
           \A i \in 1..Len(stack') : \/ i \in 1..Len(stack) /\ stack'[i] = stack[i]
                                     \/ i \notin 1..Len(stack) /\ stack'[i].kind = "emit",
           \A i \in 1..Len(stack) : i \in 1..Len(stack') \/ Idle(stack[i])
    PROVE  BuffererIInv'
<1>1. BuffererTypes /\ UNCHANGED <<buffers, content, calls, handed, thrown>>
  BY DEF BuffererIInv, bufferVars
<1>2. BuffererTypes'
  BY <1>1 DEF BuffererTypes
<1>3. /\ \A i \in 1..Len(stack') : Held'[i] = <<>> \/ (i \in 1..Len(stack) /\ Held'[i] = Held[i])
      /\ Rising'
  BY <1>1, FramesStay DEF BuffererIInv
<1>4. /\ Functioning' = Functioning
      /\ \A x : (\E i \in 1..Len(stack') : x \in ToSet(Held'[i])) <=> (\E i \in 1..Len(stack) : x \in ToSet(Held[i]))
  BY <1>1, IdleFrames
<1>5. Waiting' = Waiting
  <2>1. \A x : x \in Waiting <=> \E i \in 1..Len(stack) : x \in ToSet(Held[i])
    BY <1>1, WaitingIs
  <2>2. \A x : x \in Waiting' <=> \E i \in 1..Len(stack') : x \in ToSet(Held'[i])
    BY <1>2, WaitingNext
  <2> QED
    BY <1>4, <2>1, <2>2
<1>6. Places'
  BY <1>1, <1>3, PlacesKept DEF BuffererIInv, Places
<1>7. Contents'
  BY <1>1 DEF BuffererIInv, Contents
<1>8. Matched'
  BY <1>1, <1>4 DEF BuffererIInv, Matched
<1>9. Called'
  BY DEF BuffererIInv, Called
<1>10. Complete'
  BY <1>1, <1>5 DEF BuffererIInv, Complete
<1> QED
  BY <1>2, <1>3, <1>6, <1>7, <1>8, <1>9, <1>10 DEF BuffererIInv

LEMMA EmissionIInv == ASSUME BuffererIInv, Emission PROVE BuffererIInv'
<1>1. BuffererTypes /\ Delivery /\ Reaches /\ Drained /\ UNCHANGED bufferVars
  BY DEF BuffererIInv, Emission
<1>2. [Next]_vars
  BY DEF Emission, Next
<1>3. Delivery' /\ Reaches' /\ Drained' /\ stack' \in Seq(StackFrames)
  BY <1>1, <1>2, NextDelivery, NextDrained, EmitterFrames DEF BuffererTypes
<1>4. received' = received
  BY DEF Emission, Subscribe, Unsubscribe, Emit, StartEmit, emitterVars, EmitReturn, ListenerReturn, Dispose
<1>5. CASE stack' = stack
  BY <1>1, <1>3, <1>4, <1>5, IdleIInv
<1>6. CASE stack' = Append(stack, EmitFrame)
  BY <1>1, <1>3, <1>4, <1>6, EmitterFrames, Pushed, IdleIInv
<1>7. CASE EmitReturn \/ ListenerReturn
  <2>1. stack # <<>> /\ stack' = Front(stack) /\ Idle(Last(stack))
    BY <1>7, RunningLast DEF EmitReturn, ListenerReturn, Draining, Idle
  <2> QED
    BY <1>1, <1>3, <1>4, <2>1, Popped, IdleIInv
<1> QED
  BY <1>5, <1>6, <1>7 DEF Emission, Subscribe, Unsubscribe, Emit, StartEmit, emitterVars, Dispose

LEMMA FlushEndIInv == ASSUME BuffererIInv, FlushEnd PROVE BuffererIInv'
<1>1. /\ BuffererTypes /\ Delivery /\ Reaches /\ Drained
      /\ UNCHANGED <<bufferVars, listeners, handles, disposed, hooked, queue, emitted, audience, received>>
  BY DEF BuffererIInv, FlushEnd, emissionVars
<1>2. stack # <<>> /\ stack' = Front(stack) /\ Last(stack).kind = "flush" /\ Idle(Last(stack))
  BY RunningLast DEF FlushEnd, Idle
<1>3. Delivery' /\ Reaches'
  BY <1>1, OtherDelivery DEF Delivery
<1>4. Drained'
  <2>1. ToSet(stack) = ToSet(Front(stack)) \cup {Last(stack)}
    BY <1>1, <1>2, FrontLast DEF BuffererTypes
  <2> QED
    BY <1>1, <1>2, <2>1 DEF Drained
<1> QED
  BY <1>1, <1>2, <1>3, <1>4, Popped, IdleIInv

\* A loop that drains the queue stays on the stack.
LEMMA DrainedKept ==
    ASSUME BuffererTypes, Drained, queue' # <<>> => queue # <<>>, stack' \in Seq(StackFrames),
           \A i \in 1..Len(stack) : stack[i].kind = "emit" => i \in 1..Len(stack') /\ stack'[i] = stack[i]
    PROVE  Drained'
<1>1. DOMAIN stack = 1..Len(stack) /\ DOMAIN stack' = 1..Len(stack')
  BY LenProperties DEF BuffererTypes
<1> QED
  BY <1>1 DEF Drained, ToSet

LEMMA DeliveryStays ==
    ASSUME BuffererIInv, UNCHANGED emissionVars
    PROVE  /\ Delivery' /\ Reaches'
           /\ UNCHANGED <<queue, received>>
<1>1. UNCHANGED <<listeners, handles, disposed, hooked, queue, emitted, audience, received>>
  BY DEF emissionVars
<1> QED
  BY <1>1, OtherDelivery DEF BuffererIInv, Delivery

\* A pair that is handed on at once was not received before.
LEMMA CallIInv == ASSUME BuffererIInv, Call PROVE BuffererIInv'
<1> DEFINE p == Head(queue)
<1>1. /\ BuffererTypes /\ Delivery /\ Reaches /\ Drained
      /\ queue # <<>> /\ queue' = Tail(queue) /\ received' = Append(received, p)
      /\ stack' = Append(stack, CallFrame(p)) /\ stack # <<>>
      /\ UNCHANGED <<listeners, handles, disposed, hooked, emitted, audience, buffers, content, calls, thrown>>
  BY RunningLast DEF BuffererIInv, Call, Deliver, Draining
<1>2. p \in Pairs /\ p \notin ToSet(received)
  BY <1>1, NewPair
<1>3. Delivery' /\ Reaches'
  BY <1>1, DeliverDelivery
<1>4. received \in Seq(Pairs) /\ ToSet(received') = ToSet(received) \cup {p}
  BY <1>1, <1>2, AppendIs DEF Delivery
<1> DEFINE new == IF NextIsWrapped THEN {p} ELSE {}
<1>5. /\ handed' \in Seq(Pairs) /\ ToSet(handed') = ToSet(handed) \cup new
      /\ Distinct(handed')
  <2>1. handed \in Seq(Pairs) /\ Distinct(handed) /\ ToSet(handed) \subseteq ToSet(received)
    BY <1>1 DEF BuffererIInv, BuffererTypes, Places
  <2>2. CASE ~NextIsWrapped
    BY <2>1, <2>2 DEF Call
  <2>3. CASE NextIsWrapped
    <3>1. handed' = Append(handed, p)
      BY <2>3 DEF Call
    <3>2. /\ Append(handed, p) \in Seq(Pairs)
          /\ ToSet(Append(handed, p)) = ToSet(handed) \cup {p}
      BY <1>2, <2>1, AppendIs
    <3>3. Distinct(handed')
      BY <1>2, <2>1, <3>1, DistinctAppend
    <3> QED
      BY <2>3, <3>1, <3>2, <3>3
  <2> QED
    BY <2>2, <2>3
<1> HIDE DEF p
<1>6. /\ stack' \in Seq(StackFrames) /\ Len(stack') = Len(stack) + 1 /\ Len(stack) \in Nat \ {0}
      /\ \A i \in 1..Len(stack) : i \in 1..Len(stack') /\ stack'[i] = stack[i]
      /\ \A i \in 1..Len(stack') : i \in 1..Len(stack) \/ (i = Len(stack) + 1 /\ stack'[i].kind = "listener")
  <2>1. CallFrame(p) \in StackFrames /\ CallFrame(p).kind = "listener"
    BY <1>2, EmitterFrames
  <2>2. Len(stack) # 0
    BY <1>1, EmptySeq DEF BuffererTypes
  <2> QED
    BY <1>1, <2>1, <2>2, Pushed
<1>7. \A i \in 1..Len(stack') : \/ i \in 1..Len(stack) /\ stack'[i] = stack[i]
                                \/ i \notin 1..Len(stack) /\ stack'[i].kind \in {"emit", "listener"}
  BY <1>6
<1>8. BuffererTypes'
  BY <1>1, <1>5, <1>6 DEF BuffererTypes
<1>9. /\ \A i \in 1..Len(stack') : Held'[i] = <<>> \/ (i \in 1..Len(stack) /\ Held'[i] = Held[i])
      /\ Rising'
  BY <1>1, <1>6, <1>7, FramesStay DEF BuffererIInv
<1>10. /\ Functioning' = Functioning
       /\ \A x : (\E i \in 1..Len(stack') : x \in ToSet(Held'[i])) <=> (\E i \in 1..Len(stack) : x \in ToSet(Held[i]))
  BY <1>1, <1>6, <1>7, IdleFrames
<1>11. Waiting' = Waiting
  BY <1>1, <1>8, <1>10, WaitingIs, WaitingNext
<1>12. Places'
  <2>1. \A i \in 1..Len(stack) : Distinct(Held[i]) /\ ToSet(Held[i]) \subseteq ToSet(received)
    BY DEF BuffererIInv, Places
  <2>2. ToSet(handed') \ ToSet(handed) \subseteq {p}
    BY <1>5
  <2>3. ToSet(handed') \subseteq ToSet(received')
    BY <1>4, <1>5 DEF BuffererIInv, Places
  <2> QED
    BY <1>2, <1>4, <1>5, <1>9, <2>1, <2>2, <2>3, PlacesKept DEF BuffererIInv
<1>13. Contents'
  BY <1>1, <1>4 DEF BuffererIInv, Contents
<1>14. Matched' /\ Called'
  BY <1>1, <1>6, <1>10 DEF BuffererIInv, Matched, Called
<1>15. Complete'
  <2>1. NextIsWrapped <=> p[1] \in Wrapped
    BY <1>1 DEF NextIsWrapped, p
  <2> QED
    BY <1>1, <1>4, <1>5, <1>11, <2>1 DEF BuffererIInv, Complete
<1>16. Drained'
  BY <1>1, <1>6, DrainedKept
<1> QED
  BY <1>3, <1>8, <1>9, <1>12, <1>13, <1>14, <1>15, <1>16 DEF BuffererIInv

\* A pair that is buffered waits in the function that runs, unless one threw.
LEMMA BufferIInv == ASSUME BuffererIInv, Buffer PROVE BuffererIInv'
<1> DEFINE p == Head(queue)
           c == Last(buffers)
<1>1. /\ BuffererTypes /\ Delivery /\ Reaches /\ Drained
      /\ queue # <<>> /\ queue' = Tail(queue) /\ received' = Append(received, p)
      /\ buffers # <<>> /\ p[1] \in Wrapped
      /\ content' = [content EXCEPT ![c] = Append(@, p)]
      /\ UNCHANGED <<listeners, handles, disposed, hooked, emitted, audience, stack>>
      /\ UNCHANGED <<buffers, calls, handed, thrown>>
  BY DEF BuffererIInv, Buffer, NextIsWrapped
<1>2. p \in Pairs /\ p \notin ToSet(received)
  BY <1>1, NewPair
<1>3. Delivery' /\ Reaches'
  BY <1>1, DeliverDelivery
<1>4. received \in Seq(Pairs) /\ ToSet(received') = ToSet(received) \cup {p}
  BY <1>1, <1>2, AppendIs DEF Delivery
<1>5. c \in 1..MaxCalls /\ c <= calls /\ c \in ToSet(buffers)
  <2>1. /\ c \in 1..MaxCalls /\ c \in ToSet(buffers)
        /\ Len(buffers) \in 1..Len(buffers) /\ c = buffers[Len(buffers)]
    <3>1. /\ Last(buffers) \in 1..MaxCalls /\ Len(buffers) \in Nat \ {0}
          /\ ToSet(buffers) = ToSet(Front(buffers)) \cup {Last(buffers)}
      BY <1>1, FrontLast DEF BuffererTypes
    <3>2. Last(buffers) = buffers[Len(buffers)]
      BY DEF Last
    <3> QED
      BY <3>1, <3>2
  <2> QED
    BY <2>1 DEF BuffererIInv, Rising
<1>6. /\ content \in [1..MaxCalls -> Seq(Pairs)] /\ content[c] \in Seq(Pairs)
      /\ Distinct(content[c]) /\ ToSet(content[c]) \subseteq ToSet(received)
  BY <1>1, <1>5 DEF BuffererIInv, BuffererTypes, Contents
<1> DEFINE more == Append(content[c], p)
<1>7. more \in Seq(Pairs) /\ Distinct(more) /\ ToSet(more) = ToSet(content[c]) \cup {p}
  <2>1. Append(content[c], p) \in Seq(Pairs) /\ ToSet(Append(content[c], p)) = ToSet(content[c]) \cup {p}
    BY <1>2, <1>6, AppendIs
  <2>2. Distinct(Append(content[c], p))
    BY <1>2, <1>6, DistinctAppend
  <2> QED
    BY <2>1, <2>2
<1>8. content' = [content EXCEPT ![c] = more]
  BY <1>1
<1> HIDE DEF more, p, c
<1>9. BuffererTypes'
  BY <1>1, <1>5, <1>7, <1>8 DEF BuffererTypes
<1> DEFINE at(i) == stack[i].kind = "function" /\ stack[i].call = c
<1>10. ASSUME NEW i \in 1..Len(stack)
       PROVE  /\ at(i) => Held[i] = content[c] /\ Held'[i] = more
              /\ ~at(i) => Held'[i] = Held[i]
  <2>1. stack[i].kind = "function" => stack[i].call \in 1..MaxCalls
    BY <1>1, FrameKinds
  <2> QED
    BY <1>1, <1>5, <1>6, <1>8, <2>1 DEF Held
<1>11. Rising' /\ Functioning' = Functioning /\ Called'
  BY <1>1 DEF BuffererIInv, Rising, Functioning, Called
<1>12. \A i, j \in 1..Len(stack) : at(i) /\ at(j) => i = j
  <2>1. ASSUME NEW i \in 1..Len(stack), NEW j \in 1..Len(stack), at(i), at(j), i < j PROVE FALSE
    <3>1. stack[i].call < stack[j].call
      BY <2>1 DEF BuffererIInv, Rising
    <3> QED
      BY <1>5, <2>1, <3>1
  <2> QED
    BY <2>1
<1>13. \A i \in 1..Len(stack) :
          Distinct(Held[i]) /\ ToSet(Held[i]) \subseteq ToSet(received) /\ ToSet(Held[i]) \cap ToSet(handed) = {}
  BY DEF BuffererIInv, Places
<1>14. ToSet(handed) \subseteq ToSet(received)
  BY DEF BuffererIInv, Places
<1>15. \A i \in 1..Len(stack) : ToSet(Held'[i]) = IF at(i) THEN ToSet(Held[i]) \cup {p} ELSE ToSet(Held[i])
  BY <1>7, <1>10
<1>16. Places'
  <2>1. ASSUME NEW i \in 1..Len(stack)
        PROVE  Distinct(Held'[i]) /\ ToSet(Held'[i]) \subseteq ToSet(received') \ ToSet(handed')
    <3>1. Distinct(Held'[i])
      BY <1>7, <1>10, <1>13
    <3> QED
      BY <1>1, <1>2, <1>4, <1>13, <1>14, <1>15, <3>1
  <2>2. ASSUME NEW i \in 1..Len(stack), NEW j \in 1..Len(stack), i # j
        PROVE  ToSet(Held'[i]) \cap ToSet(Held'[j]) = {}
    <3>1. ToSet(Held[i]) \cap ToSet(Held[j]) = {} /\ p \notin ToSet(Held[i]) /\ p \notin ToSet(Held[j])
      BY <1>2, <1>13, <2>2 DEF BuffererIInv, Places
    <3> QED
      BY <1>12, <1>15, <2>2, <3>1
  <2>3. Distinct(handed') /\ ToSet(handed') \subseteq ToSet(received')
    BY <1>1, <1>4 DEF BuffererIInv, Places
  <2> QED
    BY <1>1, <2>1, <2>2, <2>3 DEF Places
<1>17. Contents'
  <2>1. \A d \in 1..MaxCalls : content'[d] = IF d = c THEN more ELSE content[d]
    BY <1>6, <1>8
  <2>2. \A d \in 1..MaxCalls : ToSet(content[d]) \subseteq ToSet(received) /\ Distinct(content[d])
    BY DEF BuffererIInv, Contents
  <2>3. \A d \in 1..MaxCalls : d > calls => content'[d] = <<>>
    BY <1>1, <1>5, <2>1 DEF BuffererIInv, Contents, BuffererTypes
  <2> QED
    BY <1>1, <1>4, <1>6, <1>7, <2>1, <2>2, <2>3 DEF Contents
<1>18. Matched'
  BY <1>1, <1>11 DEF BuffererIInv, Matched
<1>19. Complete'
  <2> SUFFICES ASSUME ~thrown
               PROVE  {pair \in ToSet(received') : pair[1] \in Wrapped} = ToSet(handed) \cup Waiting'
    BY <1>1 DEF Complete
  <2>1. c \in Functioning
    BY <1>5 DEF BuffererIInv, Matched
  <2>2. PICK k \in 1..Len(stack) : at(k)
    BY <1>1, <2>1, LenProperties DEF Functioning, ToSet, BuffererTypes
  <2>3. \A x : x \in Waiting' <=> x \in Waiting \/ x = p
    <3>1. \A x : x \in Waiting <=> \E i \in 1..Len(stack) : x \in ToSet(Held[i])
      BY <1>1, WaitingIs
    <3>2. \A x : x \in Waiting' <=> \E i \in 1..Len(stack) : x \in ToSet(Held'[i])
      BY <1>1, <1>9, WaitingNext
    <3>3. \A i \in 1..Len(stack) : \A x : x \in ToSet(Held'[i]) <=> x \in ToSet(Held[i]) \/ (at(i) /\ x = p)
      BY <1>15
    <3> HIDE DEF at
    <3>4. p \in Waiting'
      BY <2>2, <3>2, <3>3
    <3>5. ASSUME NEW x \in Waiting PROVE x \in Waiting'
      BY <3>1, <3>2, <3>3
    <3>6. ASSUME NEW x \in Waiting' PROVE x \in Waiting \/ x = p
      BY <3>1, <3>2, <3>3
    <3> QED
      BY <3>4, <3>5, <3>6
  <2> QED
    BY <1>1, <1>4, <2>3 DEF BuffererIInv, Complete, p
<1>20. Drained'
  BY <1>1 DEF Drained
<1> QED
  BY <1>3, <1>9, <1>11, <1>16, <1>17, <1>18, <1>19, <1>20 DEF BuffererIInv

\* A new call has a buffer of its own, empty and above all others.
LEMMA BufferEventsIInv == ASSUME BuffererIInv, BufferEvents PROVE BuffererIInv'
<1> DEFINE c == calls + 1
           f == FunctionFrame(c)
<1>1. /\ BuffererTypes /\ calls < MaxCalls /\ calls' = c /\ buffers' = Append(buffers, c)
      /\ stack' = Append(stack, f) /\ UNCHANGED <<content, handed, thrown>> /\ UNCHANGED emissionVars
  BY DEF BuffererIInv, BufferEvents
<1>2. MaxCalls \in Nat /\ calls \in 0..MaxCalls /\ c \in 1..MaxCalls
  BY <1>1, BuffererAssumption DEF BuffererTypes
<1>3. f \in StackFrames /\ f.kind = "function" /\ f.call = c
  BY <1>2 DEF FunctionFrame, StackFrames, FunctionFrames
<1> HIDE DEF f
<1>4. Delivery' /\ Reaches' /\ UNCHANGED <<queue, received>>
  BY <1>1, DeliveryStays
<1>5. /\ stack' \in Seq(StackFrames) /\ Len(stack') = Len(stack) + 1 /\ Len(stack) \in Nat
      /\ \A i \in 1..Len(stack) : i \in 1..Len(stack') /\ stack'[i] = stack[i]
      /\ \A i \in 1..Len(stack') : i \in 1..Len(stack) \/ (i = Len(stack) + 1 /\ stack'[i] = f)
      /\ stack'[Len(stack) + 1] = f
  BY <1>1, <1>3, Pushed
<1>6. /\ buffers \in Seq(1..MaxCalls) /\ buffers' \in Seq(1..MaxCalls)
      /\ Len(buffers) \in Nat /\ Len(buffers') = Len(buffers) + 1
      /\ \A i \in 1..Len(buffers) : buffers'[i] = buffers[i]
      /\ buffers'[Len(buffers) + 1] = c /\ ToSet(buffers') = ToSet(buffers) \cup {c}
  <2> DEFINE Calls == 1..MaxCalls
  <2>1. buffers \in Seq(Calls) /\ c \in Calls /\ buffers' = Append(buffers, c)
    BY <1>1, <1>2 DEF BuffererTypes
  <2> HIDE DEF c, Calls
  <2>2. /\ buffers' \in Seq(Calls)
        /\ Len(buffers) \in Nat /\ Len(buffers') = Len(buffers) + 1
        /\ \A i \in 1..Len(buffers) : buffers'[i] = buffers[i]
        /\ buffers'[Len(buffers) + 1] = c /\ ToSet(buffers') = ToSet(buffers) \cup {c}
    BY <2>1, AppendIs
  <2> QED
    BY <2>1, <2>2 DEF c, Calls
<1>7. BuffererTypes'
  BY <1>1, <1>2, <1>5, <1>6 DEF BuffererTypes
<1>8. content[c] = <<>>
  BY <1>2 DEF BuffererIInv, Contents
<1>9. /\ \A i \in 1..Len(stack) : i \in 1..Len(stack') /\ Held'[i] = Held[i]
      /\ \A i \in 1..Len(stack') : i \in 1..Len(stack) \/ Held'[i] = <<>>
  BY <1>1, <1>3, <1>5, <1>8 DEF Held
<1>10. Places'
  <2>1. \A i \in 1..Len(stack') : Held'[i] = <<>> \/ (i \in 1..Len(stack) /\ Held'[i] = Held[i])
    BY <1>9
  <2> QED
    BY <1>1, <1>4, <2>1, PlacesKept DEF BuffererIInv, Places
<1>11. Contents'
  BY <1>1, <1>2, <1>4 DEF BuffererIInv, Contents
<1>12. Rising'
  <2>1. ASSUME NEW i \in 1..Len(stack'), NEW j \in 1..Len(stack'), i < j,
               stack'[i].kind = "function", stack'[j].kind = "function"
        PROVE  stack'[i].call < stack'[j].call
    <3>1. i \in 1..Len(stack)
      BY <1>5, <2>1
    <3>2. CASE j \in 1..Len(stack)
      BY <1>5, <2>1, <3>1, <3>2 DEF BuffererIInv, Rising
    <3>3. CASE j = Len(stack) + 1
      <4>1. stack[i].call <= calls /\ stack[i].call \in 1..MaxCalls
        BY <1>1, <1>5, <2>1, <3>1, FrameKinds DEF BuffererIInv, Rising
      <4> QED
        BY <1>2, <1>3, <1>5, <3>1, <3>3, <4>1
    <3> QED
      BY <1>5, <3>2, <3>3
  <2>2. \A i \in 1..Len(stack') : stack'[i].kind = "function" => stack'[i].call <= c
    <3> SUFFICES ASSUME NEW i \in 1..Len(stack'), stack'[i].kind = "function"
                 PROVE  stack'[i].call <= c
      OBVIOUS
    <3>1. CASE i \in 1..Len(stack)
      <4>1. stack[i].call <= calls /\ stack[i].call \in 1..MaxCalls
        BY <1>1, <1>5, <3>1, FrameKinds DEF BuffererIInv, Rising
      <4> QED
        BY <1>2, <1>5, <3>1, <4>1
    <3>2. CASE i = Len(stack) + 1
      BY <1>2, <1>3, <1>5, <3>2
    <3> QED
      BY <1>5, <3>1, <3>2
  <2>3. \A i \in 1..Len(buffers) : buffers[i] \in 1..MaxCalls /\ buffers[i] <= calls
    BY <1>6, ElementOfSeq DEF BuffererIInv, Rising
  <2>4. \A i \in 1..Len(buffers') : buffers'[i] <= c
    <3> SUFFICES ASSUME NEW i \in 1..Len(buffers') PROVE buffers'[i] <= c
      OBVIOUS
    <3>1. CASE i \in 1..Len(buffers)
      <4>1. buffers'[i] \in 1..MaxCalls /\ buffers'[i] <= calls
        BY <1>6, <2>3, <3>1
      <4> QED
        BY <1>2, <4>1
    <3>2. CASE i = Len(buffers) + 1
      BY <1>2, <1>6, <3>2
    <3> QED
      BY <1>6, <3>1, <3>2
  <2>5. ASSUME NEW i \in 1..Len(buffers'), NEW j \in 1..Len(buffers'), i < j PROVE buffers'[i] < buffers'[j]
    <3>1. i \in 1..Len(buffers)
      BY <1>6, <2>5
    <3>2. CASE j \in 1..Len(buffers)
      BY <1>6, <2>5, <3>1, <3>2 DEF BuffererIInv, Rising
    <3>3. CASE j = Len(buffers) + 1
      <4>1. buffers'[i] \in 1..MaxCalls /\ buffers'[i] <= calls /\ buffers'[j] = c
        BY <1>6, <2>3, <3>1, <3>3
      <4> QED
        BY <1>2, <4>1
    <3> QED
      BY <1>6, <3>2, <3>3
  <2> QED
    BY <1>1, <2>1, <2>2, <2>4, <2>5 DEF Rising
<1>13. Matched'
  <2>1. ToSet(stack') = ToSet(stack) \cup {f}
    BY <1>1, <1>3, AppendIs DEF BuffererTypes
  <2>2. Functioning' = Functioning \cup {c}
    BY <1>3, <2>1 DEF Functioning
  <2> QED
    BY <1>1, <1>6, <2>2 DEF BuffererIInv, Matched
<1>14. Called'
  BY <1>3, <1>5 DEF BuffererIInv, Called
<1>15. Complete'
  <2>1. Waiting' = Waiting
    BY <1>1, <1>7, <1>9, EmptyPlace, WaitingIs, WaitingNext
  <2> QED
    BY <1>1, <1>4, <2>1 DEF BuffererIInv, Complete
<1>16. Drained'
  BY <1>1, <1>4, <1>5, DrainedKept DEF BuffererIInv
<1> QED
  BY <1>4, <1>7, <1>10, <1>11, <1>12, <1>13, <1>14, <1>15, <1>16 DEF BuffererIInv

\* The pairs in the buffer of the function go to the flush that follows it; and
\* unless something threw, the buffer taken off the stack is the function's.
LEMMA FunctionReturnIInv == ASSUME BuffererIInv, FunctionReturn PROVE BuffererIInv'
<1> DEFINE n == Len(stack)
           c == Last(stack).call
           f == FlushFrame(content[c])
<1>1. /\ BuffererTypes /\ stack # <<>> /\ Last(stack).kind = "function"
      /\ buffers' = Front(buffers) /\ stack' = Append(Front(stack), f)
      /\ UNCHANGED <<content, calls, handed, thrown>> /\ UNCHANGED emissionVars
  BY RunningLast DEF BuffererIInv, FunctionReturn
<1>2. /\ Front(stack) \in Seq(StackFrames) /\ n \in Nat \ {0} /\ Len(Front(stack)) = n - 1
      /\ \A i \in 1..n - 1 : Front(stack)[i] = stack[i]
      /\ ToSet(stack) = ToSet(Front(stack)) \cup {Last(stack)}
  BY <1>1, FrontLast DEF BuffererTypes
<1>3. Last(stack) = stack[n] /\ n \in 1..Len(stack)
  BY <1>2 DEF Last
<1>4. c \in 1..MaxCalls
  BY <1>1, <1>3, FrameKinds
<1>5. content[c] \in Seq(Pairs) /\ f \in StackFrames /\ f.kind = "flush" /\ f.left = content[c]
  BY <1>1, <1>4 DEF BuffererTypes, FlushFrame, FlushFrames, StackFrames
<1> HIDE DEF f
<1>6. /\ stack' \in Seq(StackFrames) /\ Len(stack') = n
      /\ \A i \in 1..n - 1 : stack'[i] = stack[i]
      /\ stack'[n] = f /\ ToSet(stack') = ToSet(Front(stack)) \cup {f}
  BY <1>1, <1>2, <1>5, AppendIs
<1>7. Delivery' /\ Reaches' /\ UNCHANGED <<queue, received>>
  BY <1>1, DeliveryStays
<1>8. \A i \in 1..n : i \in 1..n - 1 \/ i = n
  BY <1>2
<1>9. /\ buffers' \in Seq(1..MaxCalls) /\ Len(buffers') \in Nat
      /\ \A i \in 1..Len(buffers') : i \in 1..Len(buffers) /\ buffers'[i] = buffers[i]
  <2>1. CASE buffers = <<>>
    <3>1. Front(buffers) = <<>>
      BY <2>1, SubSeqEmpty DEF Front
    <3> QED
      BY <1>1, <3>1, EmptySeq
  <2>2. CASE buffers # <<>>
    <3>1. /\ Front(buffers) \in Seq(1..MaxCalls) /\ Len(buffers) \in Nat \ {0}
          /\ Len(Front(buffers)) = Len(buffers) - 1
          /\ \A i \in 1..Len(buffers) - 1 : Front(buffers)[i] = buffers[i]
      BY <1>1, <2>2, FrontLast DEF BuffererTypes
    <3> QED
      BY <1>1, <3>1
  <2> QED
    BY <2>1, <2>2
<1>10. BuffererTypes'
  BY <1>1, <1>6, <1>9 DEF BuffererTypes
<1>11. \A i \in 1..n : Held'[i] = Held[i]
  BY <1>1, <1>3, <1>5, <1>6, <1>8 DEF Held
<1>12. Places'
  BY <1>1, <1>6, <1>7, <1>11, PlacesKept DEF BuffererIInv, Places
<1>13. Contents'
  BY <1>1, <1>7 DEF BuffererIInv, Contents
<1>14. Rising'
  <2>1. \A i \in 1..n : stack'[i].kind = "function" => stack'[i] = stack[i]
    BY <1>5, <1>6, <1>8
  <2> QED
    BY <1>1, <1>6, <1>9, <2>1 DEF BuffererIInv, Rising
<1>15. Matched'
  <2> SUFFICES ASSUME ~thrown PROVE ToSet(buffers') = Functioning'
    BY <1>1 DEF Matched
  <2>1. ToSet(buffers) = Functioning /\ c \in Functioning
    BY <1>1, <1>2 DEF BuffererIInv, Matched, Functioning
  <2>2. buffers # <<>>
    BY <2>1, EmptyPlace
  <2>3. /\ Len(buffers) \in Nat \ {0} /\ Len(Front(buffers)) = Len(buffers) - 1
        /\ Front(buffers) \in Seq(1..MaxCalls)
        /\ \A i \in 1..Len(buffers) - 1 : Front(buffers)[i] = buffers[i]
        /\ ToSet(buffers) = ToSet(Front(buffers)) \cup {Last(buffers)} /\ Last(buffers) \in 1..MaxCalls
    BY <1>1, <2>2, FrontLast DEF BuffererTypes
  <2>4. DOMAIN Front(buffers) = 1..Len(buffers) - 1 /\ Last(buffers) = buffers[Len(buffers)]
    BY <2>3, LenProperties DEF Last
  <2>5. \A d \in ToSet(Front(buffers)) : d < Last(buffers)
    BY <2>3, <2>4 DEF BuffererIInv, Rising, ToSet
  <2> DEFINE others == {g.call : g \in {h \in ToSet(Front(stack)) : h.kind = "function"}}
  <2>6. \A d \in others : d < c
    <3>1. DOMAIN Front(stack) = 1..n - 1
      BY <1>2, LenProperties
    <3>2. \A i \in 1..n - 1 : stack[i].kind = "function" => stack[i].call < stack[n].call
      BY <1>1, <1>2, <1>3 DEF BuffererIInv, Rising
    <3> QED
      BY <1>2, <1>3, <3>1, <3>2 DEF ToSet
  <2>7. Functioning = others \cup {c} /\ Functioning' = others
    BY <1>1, <1>2, <1>5, <1>6 DEF Functioning
  <2> HIDE DEF others, c
  <2>8. c = Last(buffers)
    <3>1. c \in ToSet(Front(buffers)) \cup {Last(buffers)} /\ Last(buffers) \in others \cup {c}
      BY <2>1, <2>3, <2>7
    <3>2. ~(c < Last(buffers) /\ Last(buffers) < c)
      BY <1>4, <2>3
    <3> QED
      BY <2>5, <2>6, <3>1, <3>2
  <2>9. c \notin others /\ Last(buffers) \notin ToSet(Front(buffers))
    BY <1>4, <2>3, <2>5, <2>6
  <2> QED
    <3>1. ToSet(Front(buffers)) \cup {c} = others \cup {c} /\ c \notin ToSet(Front(buffers))
      BY <2>1, <2>3, <2>7, <2>8, <2>9
    <3>2. ToSet(Front(buffers)) = others
      BY <2>9, <3>1
    <3> QED
      BY <1>1, <2>7, <3>2
<1>16. Called'
  BY <1>5, <1>6, <1>8 DEF BuffererIInv, Called
<1>17. Complete'
  <2>1. Waiting' = Waiting
    BY <1>1, <1>6, <1>10, <1>11, WaitingIs, WaitingNext
  <2> QED
    BY <1>1, <1>7, <2>1 DEF BuffererIInv, Complete
<1>18. Drained'
  BY <1>1, <1>3, <1>6, <1>7, <1>8, DrainedKept DEF BuffererIInv
<1> QED
  BY <1>7, <1>10, <1>12, <1>13, <1>14, <1>15, <1>16, <1>17, <1>18 DEF BuffererIInv

\* A pair leaves the flush and is handed to its listener, once.
LEMMA FlushIInv == ASSUME BuffererIInv, Flush PROVE BuffererIInv'
<1> DEFINE n == Len(stack)
           left == Last(stack).left
           f == FlushFrame(Tail(left))
           g == CallFrame(Head(left))
<1>1. /\ BuffererTypes /\ stack # <<>> /\ Last(stack).kind = "flush" /\ left # <<>>
      /\ stack' = Front(stack) \o <<f, g>> /\ handed' = Append(handed, Head(left))
      /\ UNCHANGED <<buffers, content, calls, thrown>> /\ UNCHANGED emissionVars
  BY RunningLast DEF BuffererIInv, Flush
<1>2. /\ Front(stack) \in Seq(StackFrames) /\ n \in Nat \ {0} /\ Len(Front(stack)) = n - 1
      /\ \A i \in 1..n - 1 : Front(stack)[i] = stack[i]
      /\ ToSet(stack) = ToSet(Front(stack)) \cup {Last(stack)}
  BY <1>1, FrontLast DEF BuffererTypes
<1>3. Last(stack) = stack[n] /\ n \in 1..Len(stack)
  BY <1>2 DEF Last
<1>4. left \in Seq(Pairs) /\ Held[n] = left
  BY <1>1, <1>3, FrameKinds DEF Held
<1> HIDE DEF left
<1>5. /\ Distinct(left) /\ ToSet(left) \subseteq ToSet(received) \ ToSet(handed)
      /\ \A i \in 1..n : i # n => ToSet(Held[i]) \cap ToSet(left) = {}
  BY <1>3, <1>4 DEF BuffererIInv, Places
<1>6. /\ Head(left) \in Pairs /\ Tail(left) \in Seq(Pairs) /\ Distinct(Tail(left))
      /\ ToSet(left) = ToSet(Tail(left)) \cup {Head(left)} /\ Head(left) \notin ToSet(Tail(left))
  BY <1>1, <1>4, <1>5, HeadApart
<1>7. /\ f \in StackFrames /\ f.kind = "flush" /\ f.left = Tail(left)
      /\ g \in StackFrames /\ g.kind = "listener"
  BY <1>6, EmitterFrames DEF FlushFrame, FlushFrames, StackFrames
<1> HIDE DEF f, g
<1>8. /\ stack' \in Seq(StackFrames) /\ Len(stack') = n + 1
      /\ \A i \in 1..n - 1 : stack'[i] = stack[i]
      /\ stack'[n] = f /\ stack'[n + 1] = g
  <2> DEFINE m == n - 1
  <2>1. m \in Nat /\ m + 1 = n /\ m + 2 = n + 1
    BY <1>2
  <2>2. Front(stack) \in Seq(StackFrames) /\ Len(Front(stack)) = m /\ \A i \in 1..m : Front(stack)[i] = stack[i]
    BY <1>2
  <2>3. \A i : i \in 1..n - 1 <=> i \in 1..m
    OBVIOUS
  <2> HIDE DEF m
  <2>4. /\ stack' \in Seq(StackFrames) /\ Len(stack') = m + 2
        /\ \A i \in 1..m : stack'[i] = Front(stack)[i]
        /\ stack'[m + 1] = f /\ stack'[m + 2] = g
    BY <1>1, <1>7, <2>1, <2>2, PushTwo
  <2> QED
    BY <2>1, <2>2, <2>3, <2>4
<1>9. \A i \in 1..Len(stack') : i \in 1..n - 1 \/ i = n \/ i = n + 1
  BY <1>2, <1>8
<1>10. Delivery' /\ Reaches' /\ UNCHANGED <<queue, received>>
  BY <1>1, DeliveryStays
<1>11. /\ handed \in Seq(Pairs) /\ handed' \in Seq(Pairs) /\ Distinct(handed')
       /\ ToSet(handed') = ToSet(handed) \cup {Head(left)}
  <2>1. handed \in Seq(Pairs) /\ Distinct(handed) /\ Head(left) \notin ToSet(handed)
    BY <1>1, <1>5, <1>6 DEF BuffererTypes, BuffererIInv, Places
  <2> QED
    BY <1>1, <1>6, <2>1, AppendIs, DistinctAppend
<1>12. BuffererTypes'
  BY <1>1, <1>8, <1>11 DEF BuffererTypes
<1>13. /\ \A i \in 1..n - 1 : i \in 1..n /\ i # n /\ Held'[i] = Held[i]
       /\ Held'[n] = Tail(left) /\ Held'[n + 1] = <<>>
  <2>1. n \in 1..Len(stack') /\ n + 1 \in 1..Len(stack')
        /\ \A i \in 1..n - 1 : i \in 1..Len(stack') /\ i \in 1..n /\ i # n
    BY <1>2, <1>8
  <2>2. ASSUME NEW i \in 1..n - 1 PROVE Held'[i] = Held[i]
    BY <1>1, <1>8, <2>1 DEF Held
  <2>3. Held'[n] = Tail(left)
    BY <1>7, <1>8, <2>1 DEF Held
  <2>4. Held'[n + 1] = <<>>
    BY <1>7, <1>8, <2>1 DEF Held
  <2> QED
    BY <2>1, <2>2, <2>3, <2>4
<1>14. Places'
  <2>1. ASSUME NEW i \in 1..n - 1
        PROVE  /\ i \in 1..Len(stack) /\ Distinct(Held'[i])
               /\ ToSet(Held'[i]) \subseteq ToSet(Held[i]) \ (ToSet(handed') \ ToSet(handed))
    <3>1. Distinct(Held[i]) /\ Head(left) \notin ToSet(Held[i])
      BY <1>5, <1>6, <1>13 DEF BuffererIInv, Places
    <3> QED
      BY <1>11, <1>13, <3>1
  <2>2. /\ n \in 1..Len(stack) /\ Distinct(Held'[n])
        /\ ToSet(Held'[n]) \subseteq ToSet(Held[n]) \ (ToSet(handed') \ ToSet(handed))
    BY <1>3, <1>4, <1>6, <1>11, <1>13
  <2>3. ToSet(handed') \subseteq ToSet(received')
    BY <1>5, <1>6, <1>10, <1>11 DEF BuffererIInv, Places
  <2>4. \A i \in 1..Len(stack') :
            \/ Held'[i] = <<>>
            \/ /\ i \in 1..Len(stack) /\ Distinct(Held'[i])
               /\ ToSet(Held'[i]) \subseteq ToSet(Held[i]) \ (ToSet(handed') \ ToSet(handed))
    BY <1>9, <1>13, <2>1, <2>2
  <2> QED
    BY <1>10, <1>11, <2>3, <2>4, PlacesKept DEF BuffererIInv
<1>15. Contents'
  BY <1>1, <1>10 DEF BuffererIInv, Contents
<1>16. Rising'
  <2>1. \A i \in 1..Len(stack') :
            stack'[i].kind = "function" => i \in 1..Len(stack) /\ stack'[i] = stack[i]
    BY <1>7, <1>8, <1>9, <1>13
  <2>2. \A i \in 1..Len(stack') : stack'[i].kind = "function" => stack'[i].call <= calls'
    BY <1>1, <2>1 DEF BuffererIInv, Rising
  <2>3. ASSUME NEW i \in 1..Len(stack'), NEW j \in 1..Len(stack'), i < j,
               stack'[i].kind = "function", stack'[j].kind = "function"
        PROVE  stack'[i].call < stack'[j].call
    BY <2>1, <2>3 DEF BuffererIInv, Rising
  <2> QED
    BY <1>1, <2>2, <2>3 DEF BuffererIInv, Rising
<1>17. Matched'
  <2>1. \A i \in 1..n : stack[i].kind = "function" => i \in 1..n - 1
    BY <1>1, <1>2, <1>3
  <2>2. \A i \in 1..n - 1 : i \in 1..Len(stack') /\ i \in 1..n
    BY <1>2, <1>8
  <2>3. \A i \in 1..Len(stack') : stack'[i].kind = "function" => i \in 1..n - 1
    BY <1>7, <1>8, <1>9
  <2>4. DOMAIN stack = 1..n /\ DOMAIN stack' = 1..Len(stack')
    BY <1>1, <1>12, LenProperties DEF BuffererTypes
  <2>5. Functioning' = Functioning
    BY <1>8, <2>1, <2>2, <2>3, <2>4 DEF Functioning, ToSet
  <2> QED
    BY <1>1, <2>5 DEF BuffererIInv, Matched
<1>18. Called'
  <2>1. n + 1 > 1
    BY <1>2
  <2> QED
    BY <1>7, <1>8, <1>9, <1>13, <2>1 DEF BuffererIInv, Called
<1>19. Complete'
  <2>1. \A x : x \in Waiting <=> \E i \in 1..n : x \in ToSet(Held[i])
    BY <1>1, WaitingIs
  <2>2. \A x : x \in Waiting' <=> \E i \in 1..Len(stack') : x \in ToSet(Held'[i])
    BY <1>12, WaitingNext
  <2>3. n \in 1..Len(stack') /\ \A i \in 1..n - 1 : i \in 1..Len(stack')
    BY <1>2, <1>8
  <2>4. \A i \in 1..n : i \in 1..n - 1 \/ i = n
    BY <1>2
  <2>5. ASSUME NEW x \in Waiting PROVE x \in Waiting' \/ x = Head(left)
    <3>1. PICK i \in 1..n : x \in ToSet(Held[i])
      BY <2>1
    <3>2. CASE i \in 1..n - 1
      BY <1>13, <2>2, <2>3, <3>1, <3>2
    <3>3. CASE i = n
      BY <1>4, <1>6, <1>13, <2>2, <2>3, <3>1, <3>3
    <3> QED
      BY <2>4, <3>2, <3>3
  <2>6. ASSUME NEW x \in Waiting' PROVE x \in Waiting
    <3>1. PICK i \in 1..Len(stack') : x \in ToSet(Held'[i])
      BY <2>2
    <3>2. i # n + 1
      BY <1>13, <3>1, EmptyPlace
    <3>3. CASE i \in 1..n - 1
      BY <1>13, <2>1, <3>1, <3>3
    <3>4. CASE i = n
      BY <1>3, <1>4, <1>6, <1>13, <2>1, <3>1, <3>4
    <3> QED
      BY <1>9, <3>2, <3>3, <3>4
  <2>7. Head(left) \in Waiting
    BY <1>3, <1>4, <1>6, <2>1
  <2> QED
    BY <1>1, <1>10, <1>11, <2>5, <2>6, <2>7 DEF BuffererIInv, Complete
<1>20. Drained'
  <2>1. \A i \in 1..n : i \in 1..n - 1 \/ i = n
    BY <1>2
  <2>2. \A i \in 1..n - 1 : i \in 1..Len(stack')
    BY <1>2, <1>8
  <2> QED
    BY <1>1, <1>3, <1>8, <1>10, <2>1, <2>2, DrainedKept DEF BuffererIInv
<1> QED
  BY <1>10, <1>12, <1>14, <1>15, <1>16, <1>17, <1>18, <1>19, <1>20 DEF BuffererIInv

\* What throws leaves frames on the stack below it as they are.
LEMMA ThrowIInv ==
    ASSUME BuffererIInv, UNCHANGED emissionVars, UNCHANGED <<buffers, content, calls, handed>>, thrown' = TRUE,
           stack' \in Seq(StackFrames),
           \A i \in 1..Len(stack') : i \in 1..Len(stack) /\ stack'[i] = stack[i],
           \A i \in 1..Len(stack) : stack[i].kind = "emit" => i \in 1..Len(stack')
    PROVE  BuffererIInv'
<1>1. BuffererTypes /\ Delivery' /\ Reaches' /\ UNCHANGED <<queue, received>>
  BY DeliveryStays DEF BuffererIInv
<1>2. BuffererTypes'
  BY <1>1 DEF BuffererTypes
<1>3. /\ \A i \in 1..Len(stack') : Held'[i] = <<>> \/ (i \in 1..Len(stack) /\ Held'[i] = Held[i])
      /\ Rising'
  BY <1>1, FramesStay DEF BuffererIInv
<1>4. Places'
  BY <1>1, <1>3, PlacesKept DEF BuffererIInv, Places
<1>5. Contents' /\ Matched' /\ Called' /\ Complete'
  BY <1>1 DEF BuffererIInv, Contents, Matched, Called, Complete
<1>6. Drained'
  BY <1>1, DrainedKept DEF BuffererIInv
<1> QED
  BY <1>1, <1>2, <1>3, <1>4, <1>5, <1>6 DEF BuffererIInv

LEMMA FunctionThrowIInv == ASSUME BuffererIInv, FunctionThrow PROVE BuffererIInv'
<1>1. /\ BuffererTypes /\ stack # <<>> /\ Last(stack).kind = "function" /\ stack' = Front(stack) /\ thrown' = TRUE
      /\ UNCHANGED emissionVars /\ UNCHANGED <<buffers, content, calls, handed>>
  BY RunningLast DEF BuffererIInv, FunctionThrow
<1> QED
  BY <1>1, Popped, ThrowIInv

LEMMA FlushThrowIInv == ASSUME BuffererIInv, FlushThrow PROVE BuffererIInv'
<1> DEFINE n == Len(stack)
           rest == Front(stack)
<1>1. /\ BuffererTypes /\ stack # <<>> /\ Last(stack).kind = "listener" /\ stack[n - 1].kind = "flush"
      /\ stack' = Front(rest) /\ thrown' = TRUE
      /\ UNCHANGED emissionVars /\ UNCHANGED <<buffers, content, calls, handed>>
  BY RunningLast DEF BuffererIInv, FlushThrow
<1>2. /\ rest \in Seq(StackFrames) /\ n \in Nat \ {0} /\ Len(rest) = n - 1
      /\ \A i \in 1..n - 1 : rest[i] = stack[i]
  BY <1>1, FrontLast DEF BuffererTypes
<1>3. Last(stack) = stack[n] /\ n \in 1..Len(stack)
  BY <1>2 DEF Last
<1>4. n > 1
  BY <1>1, <1>3 DEF BuffererIInv, Called
<1>5. rest # <<>>
  BY <1>2, <1>4, EmptySeq
<1> HIDE DEF rest
<1>6. /\ Front(rest) \in Seq(StackFrames) /\ Len(Front(rest)) = n - 2
      /\ \A i \in 1..n - 2 : Front(rest)[i] = stack[i]
  <2>1. /\ Front(rest) \in Seq(StackFrames) /\ Len(Front(rest)) = Len(rest) - 1
        /\ \A i \in 1..Len(rest) - 1 : Front(rest)[i] = rest[i]
    BY <1>2, <1>5, FrontLast
  <2>2. Len(rest) - 1 = n - 2 /\ \A i \in 1..n - 2 : i \in 1..n - 1
    BY <1>2
  <2> QED
    BY <1>2, <2>1, <2>2
<1>7. \A i \in 1..n - 2 : i \in 1..n
  BY <1>2
<1>8. \A i \in 1..n : i \in 1..n - 2 \/ i = n - 1 \/ i = n
  BY <1>2
<1> QED
  BY <1>1, <1>3, <1>6, <1>7, <1>8, ThrowIInv

-----------------------------------------------------------------------------
(* The theorems.                                                           *)

LEMMA NextBuffererIInv == BuffererIInv /\ [BuffererNext]_allVars => BuffererIInv'
<1> SUFFICES ASSUME BuffererIInv, [BuffererNext]_allVars PROVE BuffererIInv'
  OBVIOUS
<1>1. CASE UNCHANGED allVars
  <2>1. UNCHANGED <<bufferVars, stack, listeners, handles, disposed, hooked, queue, emitted, audience, received>>
    BY <1>1 DEF allVars, vars, emitterVars
  <2>2. Delivery' /\ Reaches'
    BY <2>1, OtherDelivery DEF BuffererIInv, Delivery
  <2>3. Drained' /\ stack' \in Seq(StackFrames)
    BY <2>1 DEF BuffererIInv, Drained, BuffererTypes
  <2> QED
    BY <2>1, <2>2, <2>3, IdleIInv
<1> QED
  BY <1>1, EmissionIInv, BufferIInv, CallIInv, BufferEventsIInv, FunctionReturnIInv, FunctionThrowIInv,
     FlushIInv, FlushEndIInv, FlushThrowIInv DEF BuffererNext

\* The invariant holds in every state.
THEOREM BuffererInvariance == BuffererSpec => []BuffererIInv
BY InitBuffererIInv, NextBuffererIInv, PTL DEF BuffererSpec

\* Every event the wrapped emitter delivers reaches its listener or waits to, and
\* reaches it once, however functions, listeners and emits are nested
\* (bufferer.ts:27-46): NoEventLost.
THEOREM HandedOnce == BuffererSpec => []NoEventLost
<1>1. BuffererIInv => NoEventLost
  <2> SUFFICES ASSUME BuffererIInv PROVE NoEventLost
    OBVIOUS
  <2>1. DOMAIN handed = 1..Len(handed)
    BY LenProperties DEF BuffererIInv, BuffererTypes
  <2>2. IsInjective(handed)
    BY <2>1 DEF BuffererIInv, Places, Distinct, IsInjective
  <2> QED
    BY <2>2 DEF BuffererIInv, Complete, NoEventLost
<1> QED
  BY <1>1, BuffererInvariance, PTL

\* Functions and flushes on the call stack do not disturb the emitter they wrap:
\* EmissionOrder (emitter.ts:108-121).
THEOREM BufferedInOrder == BuffererSpec => []EmissionOrder
<1>1. BuffererIInv => EmissionOrder
  BY DeliveryInOrder DEF BuffererIInv
<1> QED
  BY <1>1, BuffererInvariance, PTL

\* Nor does an exception that leaves a function or a flush: ExactAudience.
THEOREM BufferedReached == BuffererSpec => []ExactAudience
<1>1. BuffererIInv => ExactAudience
  BY DeliveryReaches DEF BuffererIInv
<1> QED
  BY <1>1, BuffererInvariance, PTL
=============================================================================
