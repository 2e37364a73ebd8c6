------------------------ MODULE WriteableStreamProofs ------------------------
(***************************************************************************)
(* What the stream guarantees for any high-water mark, any number of       *)
(* chunks, errors and listeners, and any nesting of their calls.           *)
(*                                                                         *)
(* While the stream flows, its buffer is empty unless flowData() is just   *)
(* emitting it (Emptied): so what a listener writes then cannot overtake   *)
(* what is buffered, and an end that is emitted comes after all that was   *)
(* written.  What a flow does is emitted while the stream flows, unless a  *)
(* listener paused it in the middle (FlowsRun), so that no second flow     *)
(* starts within a first; and flowData() starts when nothing else is       *)
(* active above it (Top).                                                  *)
(***************************************************************************)
EXTENDS WriteableStream, SequenceTheorems, TLAPS

FrameKinds == Flows \cup {"emit", "listener", "endHeard", "endRest", "destroy"}
Frames == [kind : FrameKinds, n : Nat]

TypeOK ==
    /\ flowing \in BOOLEAN /\ ended \in BOOLEAN /\ destroyed \in BOOLEAN
    /\ data \in Seq(Nat) /\ errors \in Seq(Nat)
    /\ listeners \in [Events -> Nat]
    /\ pending \subseteq 1..written /\ told \subseteq 1..written /\ released \subseteq 1..written
    /\ stack \in Seq(Frames)
    /\ written \in Nat /\ raised \in Nat
    /\ sent \in Seq(Nat) /\ heard \subseteq Nat
    /\ before \in Nat \cup {-1}
    /\ endSent \in BOOLEAN /\ pausedInFlow \in BOOLEAN

\* flowData() is entered with nothing above it, and never within itself.
Top ==
    /\ Running # "flowData" => \A f \in ToSet(stack) : f.kind # "flowData"
    /\ Running = "flowData" =>
          \A f \in ToSet(Front(stack)) : f.kind # "flowData" /\ (~pausedInFlow => f.kind # "dataFlowed")

FlowsRun == ~pausedInFlow => \A f \in ToSet(stack) : f.kind \in Flows => flowing

Emptied == Steady /\ flowing /\ Running # "flowData" /\ ~InFlight => data = <<>>

DataKept ==
    Steady => sent \o (IF InFlight THEN <<>> ELSE data) = [c \in 1..written |-> c]

\* What flowErrors() has visited has been heard.
Visited ==
    \A f \in ToSet(stack) : f.kind = "errorLoop" =>
        f.n > 0 /\ (Steady => \A k \in 1..Len(errors) : k < f.n => errors[k] \in heard)

ErrorsKept == Steady => 1..raised \subseteq heard \cup ToSet(errors)

\* The stream ends after end() was called, and a destroyed one has no listeners and
\* holds no promises.
Ends ==
    /\ before <= written
    /\ ended /\ ~destroyed => before >= 0
    /\ endSent => before >= 0
    /\ \A f \in ToSet(stack) : f.kind = "endRest" => before >= 0
    /\ destroyed => listeners["end"] = 0 /\ pending = {}

IInv ==
    /\ TypeOK
    /\ Top /\ FlowsRun
    /\ Emptied /\ DataKept
    /\ Visited /\ ErrorsKept
    /\ Ends /\ EndAfterData
    /\ WritersWaitForData

-----------------------------------------------------------------------------
(* The stack.                                                              *)

LEMMA ToSetConcat ==
    ASSUME NEW S, NEW s \in Seq(S), NEW t \in Seq(S)
    PROVE  ToSet(s \o t) = ToSet(s) \cup ToSet(t)
<1>1. /\ s \o t \in Seq(S)
      /\ Len(s) \in Nat /\ Len(t) \in Nat
      /\ Len(s \o t) = Len(s) + Len(t)
      /\ \A i \in 1..Len(s) + Len(t) : (s \o t)[i] = IF i <= Len(s) THEN s[i] ELSE t[i - Len(s)]
  BY ConcatProperties, LenProperties
<1>2. DOMAIN s = 1..Len(s) /\ DOMAIN t = 1..Len(t) /\ DOMAIN (s \o t) = 1..Len(s \o t)
  BY <1>1, LenProperties
<1>3. ASSUME NEW i \in 1..Len(s) PROVE s[i] \in ToSet(s \o t)
  BY <1>1, <1>2 DEF ToSet
<1>4. ASSUME NEW i \in 1..Len(t) PROVE t[i] \in ToSet(s \o t)
  <2>1. i + Len(s) \in 1..Len(s) + Len(t) /\ (s \o t)[i + Len(s)] = t[i]
    BY <1>1
  <2> QED
    BY <1>1, <1>2, <2>1 DEF ToSet
<1>5. ASSUME NEW i \in 1..Len(s) + Len(t) PROVE (s \o t)[i] \in ToSet(s) \cup ToSet(t)
  BY <1>1, <1>2 DEF ToSet
<1> QED
  BY <1>1, <1>2, <1>3, <1>4, <1>5 DEF ToSet

LEMMA FrontIs ==
    ASSUME NEW S, NEW s \in Seq(S), s # <<>>
    PROVE  /\ Len(s) \in Nat \ {0} /\ DOMAIN s = 1..Len(s)
           /\ Front(s) \in Seq(S)
           /\ Len(Front(s)) = Len(s) - 1 /\ DOMAIN Front(s) = 1..Len(s) - 1
           /\ \A i \in 1..Len(s) - 1 : Front(s)[i] = s[i]
<1>1. Len(s) \in Nat \ {0} /\ DOMAIN s = 1..Len(s)
  BY EmptySeq, LenProperties
<1>2. /\ Front(s) \in Seq(S)
      /\ Len(Front(s)) = Len(s) - 1
      /\ \A i \in 1..Len(s) - 1 : Front(s)[i] = s[i]
  BY <1>1, SubSeqProperties, ElementOfSeq DEF Front
<1> QED
  BY <1>1, <1>2, LenProperties

LEMMA FrontLast ==
    ASSUME NEW S, NEW s \in Seq(S), s # <<>>
    PROVE  /\ Front(s) \in Seq(S) /\ Last(s) \in S
           /\ ToSet(s) = ToSet(Front(s)) \cup {Last(s)}
<1>1. Last(s) \in S
  BY FrontIs, ElementOfSeq DEF Last
<1> QED
  BY <1>1, FrontIs DEF ToSet, Last

LEMMA FrontLastConcat ==
    ASSUME NEW S, NEW s \in Seq(S), NEW t \in Seq(S), t # <<>>
    PROVE  /\ Last(s \o t) = Last(t) /\ s \o t # <<>>
           /\ ToSet(Front(s \o t)) = ToSet(s) \cup ToSet(Front(t))
<1> DEFINE l == s \o t
<1>1. Len(s) \in Nat /\ Len(t) \in Nat \ {0} /\ DOMAIN s = 1..Len(s)
  BY EmptySeq, LenProperties
<1>2. /\ l \in Seq(S)
      /\ Len(l) = Len(s) + Len(t)
      /\ \A i \in 1..Len(s) + Len(t) : l[i] = IF i <= Len(s) THEN s[i] ELSE t[i - Len(s)]
  BY ConcatProperties
<1> HIDE DEF l
<1>3. l # <<>>
  BY <1>1, <1>2, EmptySeq
<1>4. l[Len(l)] = t[Len(t)]
  BY <1>1, <1>2
<1>5. DOMAIN Front(l) = 1..Len(l) - 1 /\ \A i \in 1..Len(l) - 1 : Front(l)[i] = l[i]
  BY <1>2, <1>3, FrontIs
<1>6. DOMAIN Front(t) = 1..Len(t) - 1 /\ \A i \in 1..Len(t) - 1 : Front(t)[i] = t[i]
  BY FrontIs
<1>7. ASSUME NEW i \in 1..Len(l) - 1 PROVE Front(l)[i] \in ToSet(s) \cup ToSet(Front(t))
  <2>1. CASE i <= Len(s)
    <3>1. i \in 1..Len(s) /\ Front(l)[i] = s[i]
      BY <1>1, <1>2, <1>5, <2>1
    <3> QED
      BY <1>1, <3>1 DEF ToSet
  <2>2. CASE i > Len(s)
    <3>1. i - Len(s) \in 1..Len(t) - 1
      BY <1>1, <1>2, <2>2
    <3>2. Front(l)[i] = t[i - Len(s)]
      BY <1>1, <1>2, <1>5, <2>2
    <3> QED
      BY <1>6, <3>1, <3>2 DEF ToSet
  <2> QED
    BY <1>1, <1>2, <2>1, <2>2
<1>8. ASSUME NEW i \in 1..Len(s) PROVE s[i] \in ToSet(Front(l))
  <2>1. i \in 1..Len(l) - 1 /\ Front(l)[i] = s[i]
    BY <1>1, <1>2, <1>5
  <2> QED
    BY <1>5, <2>1 DEF ToSet
<1>9. ASSUME NEW i \in 1..Len(t) - 1 PROVE Front(t)[i] \in ToSet(Front(l))
  <2>1. i + Len(s) \in 1..Len(l) - 1 /\ Front(l)[i + Len(s)] = t[i]
    BY <1>1, <1>2, <1>5
  <2> QED
    BY <1>5, <1>6, <2>1 DEF ToSet
<1>10. ToSet(Front(l)) = ToSet(s) \cup ToSet(Front(t))
  <2>1. ToSet(Front(l)) = {Front(l)[i] : i \in 1..Len(l) - 1}
    BY <1>5 DEF ToSet
  <2>2. ToSet(Front(t)) = {Front(t)[i] : i \in 1..Len(t) - 1}
    BY <1>6 DEF ToSet
  <2>3. ToSet(s) = {s[i] : i \in 1..Len(s)}
    BY <1>1 DEF ToSet
  <2>4. ToSet(Front(l)) \subseteq ToSet(s) \cup ToSet(Front(t))
    BY <1>7, <2>1
  <2>5. ToSet(s) \subseteq ToSet(Front(l))
    BY <1>8, <2>3
  <2>6. ToSet(Front(t)) \subseteq ToSet(Front(l))
    BY <1>9, <2>2
  <2> QED
    BY <2>4, <2>5, <2>6
<1> QED
  BY <1>3, <1>4, <1>10 DEF Last, l

LEMMA FewFrames ==
    /\ <<>> \in Seq(Frames) /\ ToSet(<<>>) = {}
    /\ \A f \in Frames : <<f>> \in Seq(Frames) /\ ToSet(<<f>>) = {f}
    /\ \A f, g \in Frames : <<f, g>> \in Seq(Frames) /\ ToSet(<<f, g>>) = {f, g}
    /\ \A f, g, h \in Frames : <<f, g, h>> \in Seq(Frames) /\ ToSet(<<f, g, h>>) = {f, g, h}
BY DEF ToSet

LEMMA FrameTypes ==
    /\ \A k \in FrameKinds : Rest(k) \in Frames /\ Rest(k).kind = k
    /\ \A k \in FrameKinds, n \in Nat :
          Frame(k, n) \in Frames /\ Frame(k, n).kind = k /\ Frame(k, n).n = n
    /\ TypeOK => \A event \in Events : Emission(event) \in Frames /\ Emission(event).kind = "emit"
BY DEF Rest, Frame, Frames, Emission, TypeOK, FrameKinds

\* What runs is the last frame.
LEMMA RunningFrame ==
    ASSUME TypeOK
    PROVE  \/ stack = <<>> /\ Running = "program"
           \/ stack # <<>> /\ Running = Last(stack).kind /\ Last(stack) \in Frames
              /\ ToSet(stack) = ToSet(Front(stack)) \cup {Last(stack)}
              /\ Front(stack) \in Seq(Frames)
BY FrontLast DEF Running, TypeOK

LEMMA InFlightFrame == TypeOK => (InFlight <=> \E f \in ToSet(stack) : f.kind = "dataFlowed")
BY DEF InFlight, ToSet

LEMMA CallStack ==
    ASSUME TypeOK, NEW t \in Seq(Frames), Call(t)
    PROVE  stack' \in Seq(Frames) /\ ToSet(stack') = ToSet(stack) \cup ToSet(t)
BY ToSetConcat, ConcatProperties DEF TypeOK, Call

LEMMA ContinueStack ==
    ASSUME TypeOK, stack # <<>>, NEW t \in Seq(Frames), Continue(t)
    PROVE  stack' \in Seq(Frames) /\ ToSet(stack') = ToSet(Front(stack)) \cup ToSet(t)
<1>1. stack \in Seq(Frames) /\ Front(stack) \in Seq(Frames) /\ stack' = Front(stack) \o t
  BY FrontLast DEF TypeOK, Continue
<1>2. Front(stack) \o t \in Seq(Frames)
  BY <1>1, ConcatProperties
<1>3. ToSet(Front(stack) \o t) = ToSet(Front(stack)) \cup ToSet(t)
  BY <1>1, ToSetConcat
<1> QED
  BY <1>1, <1>2, <1>3

\* After a step that pushes no flowData none is left.
LEMMA QuietTop ==
    ASSUME TypeOK, Top, stack' \in Seq(Frames), NEW new \in SUBSET Frames,
           \A f \in new : f.kind # "flowData",
           \/ Running # "flowData" /\ ToSet(stack') \subseteq ToSet(stack) \cup new
           \/ stack # <<>> /\ ToSet(stack') \subseteq ToSet(Front(stack)) \cup new
    PROVE  Top' /\ Running' # "flowData"
<1>1. \A f \in ToSet(stack') : f.kind # "flowData"
  BY RunningFrame DEF Top
<1>2. Running' # "flowData"
  <2>1. CASE stack' = <<>>
    BY <2>1 DEF Running
  <2>2. CASE stack' # <<>>
    <3>1. Last(stack') \in ToSet(stack')
      <4>1. stack' \in Seq(Frames)
        OBVIOUS
      <4>2. Len(stack') \in 1..Len(stack') /\ DOMAIN stack' = 1..Len(stack')
        BY <2>2, <4>1, EmptySeq, LenProperties
      <4> QED
        BY <4>2 DEF ToSet, Last
    <3> QED
      BY <1>1, <2>2, <3>1 DEF Running
  <2> QED
    BY <2>1, <2>2
<1> QED
  BY <1>1, <1>2 DEF Top

-----------------------------------------------------------------------------
(* The numbers of the chunks.                                              *)

LEMMA NumbersAppend ==
    ASSUME NEW n \in Nat
    PROVE  /\ [c \in 1..n |-> c] \in Seq(Nat)
           /\ [c \in 1..n + 1 |-> c] = Append([c \in 1..n |-> c], n + 1)
           /\ ToSet([c \in 1..n |-> c]) = 1..n
<1> DEFINE s == [c \in 1..n |-> c]
           t == [c \in 1..n + 1 |-> c]
<1>1. s \in Seq(Nat) /\ Len(s) = n /\ t \in Seq(Nat) /\ Len(t) = n + 1
  OBVIOUS
<1>2. /\ Append(s, n + 1) \in Seq(Nat)
      /\ Len(Append(s, n + 1)) = n + 1
      /\ \A i \in 1..n : Append(s, n + 1)[i] = s[i]
      /\ Append(s, n + 1)[n + 1] = n + 1
  BY <1>1, AppendProperties
<1>3. \A i \in 1..n + 1 : t[i] = Append(s, n + 1)[i]
  BY <1>2
<1>4. t = Append(s, n + 1)
  BY <1>1, <1>2, <1>3, SeqEqual
<1>5. ToSet(s) = 1..n
  BY DEF ToSet
<1> QED
  BY <1>1, <1>4, <1>5

LEMMA AppendIs ==
    ASSUME NEW s \in Seq(Nat), NEW x \in Nat
    PROVE  /\ Append(s, x) \in Seq(Nat)
           /\ Len(Append(s, x)) = Len(s) + 1
           /\ \A i \in 1..Len(s) : Append(s, x)[i] = s[i]
           /\ Append(s, x)[Len(s) + 1] = x
BY AppendProperties

LEMMA AppendConcat ==
    ASSUME NEW s \in Seq(Nat), NEW t \in Seq(Nat), NEW x \in Nat
    PROVE  s \o Append(t, x) = Append(s \o t, x)
<1> DEFINE a == Append(t, x)
           b == s \o t
           l == s \o a
           r == Append(b, x)
<1>1. Len(s) \in Nat /\ Len(t) \in Nat
  BY LenProperties
<1>2. a \in Seq(Nat) /\ Len(a) = Len(t) + 1 /\ (\A i \in 1..Len(t) : a[i] = t[i]) /\ a[Len(t) + 1] = x
  BY AppendProperties
<1>3. /\ b \in Seq(Nat)
      /\ Len(b) = Len(s) + Len(t)
      /\ \A i \in 1..Len(s) + Len(t) : b[i] = IF i <= Len(s) THEN s[i] ELSE t[i - Len(s)]
  BY ConcatProperties
<1> HIDE DEF a, b
<1>4. /\ l \in Seq(Nat)
      /\ Len(l) = Len(s) + Len(a)
      /\ \A i \in 1..Len(s) + Len(a) : l[i] = IF i <= Len(s) THEN s[i] ELSE a[i - Len(s)]
  BY <1>2, ConcatProperties
<1>5. r \in Seq(Nat) /\ Len(r) = Len(b) + 1 /\ (\A i \in 1..Len(b) : r[i] = b[i]) /\ r[Len(b) + 1] = x
  <2>1. b \in Seq(Nat)
    BY <1>3
  <2> QED
    BY <2>1, AppendIs
<1> HIDE DEF l, r
<1>6. ASSUME NEW i \in 1..Len(l) PROVE l[i] = r[i]
  <2>1. i \in Int /\ 1 <= i /\ i <= Len(s) + Len(t) + 1
    BY <1>1, <1>2, <1>4
  <2>2. CASE i <= Len(s)
    <3>1. l[i] = s[i]
      BY <1>1, <1>2, <1>4, <2>1, <2>2
    <3>2. b[i] = s[i] /\ i \in 1..Len(b)
      BY <1>1, <1>3, <2>1, <2>2
    <3> QED
      BY <1>5, <3>1, <3>2
  <2>3. CASE i > Len(s) /\ i <= Len(s) + Len(t)
    <3>1. i \in 1..Len(s) + Len(a) /\ ~(i <= Len(s)) /\ i - Len(s) \in 1..Len(t)
      BY <1>1, <1>2, <2>1, <2>3
    <3>2. l[i] = a[i - Len(s)] /\ i - Len(s) \in 1..Len(t)
      BY <1>4, <3>1
    <3>3. b[i] = t[i - Len(s)] /\ i \in 1..Len(b)
      BY <1>1, <1>3, <2>1, <2>3
    <3>4. r[i] = b[i]
      BY <1>5, <3>3
    <3> QED
      BY <1>2, <3>2, <3>3, <3>4
  <2>4. CASE i = Len(s) + Len(t) + 1
    <3>1. l[i] = a[Len(t) + 1]
      BY <1>1, <1>2, <1>4, <2>4
    <3>2. r[i] = x
      BY <1>3, <1>5, <2>4
    <3> QED
      BY <1>2, <3>1, <3>2
  <2> QED
    BY <1>1, <2>1, <2>2, <2>3, <2>4
<1>7. l = r
  <2>1. Len(l) = Len(r) /\ l \in Seq(Nat) /\ r \in Seq(Nat)
    BY <1>1, <1>2, <1>3, <1>4, <1>5
  <2> QED
    BY <1>6, <2>1, SeqEqual
<1> QED
  BY <1>7 DEF l, r, a, b

LEMMA ToSetAppend ==
    ASSUME NEW S, NEW s \in Seq(S), NEW x \in S
    PROVE  ToSet(Append(s, x)) = ToSet(s) \cup {x}
<1>1. Len(s) \in Nat /\ DOMAIN s = 1..Len(s)
  BY LenProperties
<1>2. /\ Append(s, x) \in Seq(S)
      /\ Len(Append(s, x)) = Len(s) + 1
      /\ \A i \in 1..Len(s) : Append(s, x)[i] = s[i]
      /\ Append(s, x)[Len(s) + 1] = x
  BY AppendProperties
<1>3. DOMAIN Append(s, x) = 1..Len(s) + 1
  BY <1>2, LenProperties
<1> QED
  BY <1>1, <1>2, <1>3 DEF ToSet

-----------------------------------------------------------------------------
(* One part of the invariant at a time.                                    *)

LEMMA InitIInv == Init => IInv
<1> SUFFICES ASSUME Init PROVE IInv
  OBVIOUS
<1>1. stack = <<>> /\ ToSet(stack) = {} /\ Running = "program"
  BY FewFrames DEF Init, Running
<1>2. TypeOK
  <2>1. flowing \in BOOLEAN /\ ended \in BOOLEAN /\ destroyed \in BOOLEAN
        /\ endSent \in BOOLEAN /\ pausedInFlow \in BOOLEAN
    BY DEF Init
  <2>2. listeners \in [Events -> Nat]
    BY DEF Init
  <2> QED
    BY <2>1, <2>2 DEF Init, TypeOK
<1>3. ~InFlight
  BY <1>1 DEF InFlight
<1>4. sent \o data = [c \in 1..written |-> c]
  <2>1. sent \o data = <<>> /\ 1..written = {}
    BY ConcatEmptySeq DEF Init
  <2> QED
    BY <2>1
<1> QED
  BY <1>1, <1>2, <1>3, <1>4
  DEF Init, IInv, Top, FlowsRun, Emptied, DataKept, Visited, ErrorsKept, Ends, EndAfterData, WritersWaitForData, Forsaken

\* A stream that flows has emitted all that was written.
LEMMA AllSent ==
    ASSUME IInv, Steady, flowing, Running # "flowData"
    PROVE  1..written \subseteq ToSet(sent)
<1>1. sent = [c \in 1..written |-> c]
  <2>1. CASE InFlight
    BY <2>1, ConcatEmptySeq DEF IInv, TypeOK, DataKept
  <2>2. CASE ~InFlight
    BY <2>2, ConcatEmptySeq DEF IInv, TypeOK, DataKept, Emptied
  <2> QED
    BY <2>1, <2>2
<1> QED
  BY <1>1, NumbersAppend DEF IInv, TypeOK

LEMMA SameData ==
    ASSUME IInv, Running # "flowData", Running' # "flowData" \/ ~flowing, InFlight' <=> InFlight,
           UNCHANGED <<data, sent, written>>, Steady' => Steady,
           flowing' => flowing \/ Running' = "flowData"
    PROVE  Emptied' /\ DataKept'
BY DEF IInv, Emptied, DataKept

LEMMA SameErrors ==
    ASSUME IInv, UNCHANGED <<errors, heard, raised>>, Steady' => Steady,
           \A f \in ToSet(stack') : f.kind = "errorLoop" => f \in ToSet(stack) \/ f.n = 1
    PROVE  Visited' /\ ErrorsKept'
<1>1. Len(errors) \in Nat
  BY LenProperties DEF IInv, TypeOK
<1> QED
  BY <1>1 DEF IInv, Visited, ErrorsKept

\* A step that pushes frames which emit nothing of the buffered data keeps the
\* invariant, also when a listener hears of the end or the stream has ended.
LEMMA RestIInv ==
    ASSUME IInv, NEW new \in SUBSET Frames,
           \/ Running # "flowData" /\ ToSet(stack') = ToSet(stack) \cup new
           \/ /\ stack # <<>> /\ Running \notin {"flowData", "dataFlowed"}
              /\ ToSet(stack') = ToSet(Front(stack)) \cup new,
           stack' \in Seq(Frames),
           \A f \in new : /\ f.kind \notin {"flowData", "dataFlowed"}
                          /\ f.kind = "endRest" => before >= 0
                          /\ f.kind \in Flows => flowing \/ pausedInFlow,
           UNCHANGED <<data, pending, told, released, flowing, destroyed, written, sent, before, pausedInFlow>>,
           errors' \in Seq(Nat), heard' \subseteq Nat, raised' \in Nat, Visited', ErrorsKept',
           listeners' \in [Events -> Nat], destroyed => listeners'["end"] = 0,
           \/ ended' = ended
           \/ ended' = TRUE /\ before >= 0,
           \/ endSent' = endSent
           \/ endSent' = TRUE /\ before >= 0 /\ ~destroyed /\ (flowing \/ pausedInFlow)
    PROVE  IInv'
<1>1. TypeOK /\ Top
  BY DEF IInv
<1>2. TypeOK'
  BY <1>1 DEF TypeOK
<1>3. Top' /\ Running' # "flowData" /\ Running # "flowData"
  BY <1>1, QuietTop
<1>4. ToSet(stack') \subseteq ToSet(stack) \cup new
  BY <1>1, RunningFrame
<1>5. FlowsRun'
  BY <1>4 DEF IInv, FlowsRun
<1>6. InFlight' <=> InFlight
  <2>1. (\E f \in ToSet(stack') : f.kind = "dataFlowed") <=> (\E f \in ToSet(stack) : f.kind = "dataFlowed")
    BY <1>1, RunningFrame
  <2>2. InFlight' <=> \E f \in ToSet(stack') : f.kind = "dataFlowed"
    BY DEF InFlight, ToSet
  <2> QED
    BY <1>1, <2>1, <2>2, InFlightFrame
<1>7. Emptied' /\ DataKept'
  BY <1>3, <1>6, SameData DEF Steady
<1>8. Ends'
  BY <1>1, <1>4 DEF IInv, Ends, TypeOK
<1>9. EndAfterData'
  <2>1. CASE endSent' = endSent
    BY <2>1 DEF IInv, EndAfterData
  <2>2. CASE ~destroyed /\ (flowing \/ pausedInFlow)
    <3>1. Steady /\ flowing => 1..written \subseteq ToSet(sent)
      BY <1>3, AllSent
    <3>2. 1..before \subseteq 1..written
      BY <1>1 DEF IInv, Ends, TypeOK
    <3> QED
      BY <2>2, <3>1, <3>2 DEF EndAfterData, Steady
  <2> QED
    BY <2>1, <2>2
<1>10. WritersWaitForData'
  BY DEF IInv, WritersWaitForData, Forsaken
<1> QED
  BY <1>2, <1>3, <1>5, <1>7, <1>8, <1>9, <1>10 DEF IInv

\* The same, when the buffered errors are left alone too.
LEMMA QuietIInv ==
    ASSUME IInv, NEW new \in SUBSET Frames,
           \/ Running # "flowData" /\ ToSet(stack') = ToSet(stack) \cup new
           \/ /\ stack # <<>> /\ Running \notin {"flowData", "dataFlowed"}
              /\ ToSet(stack') = ToSet(Front(stack)) \cup new,
           stack' \in Seq(Frames),
           \A f \in new : /\ f.kind \notin {"flowData", "dataFlowed"}
                          /\ f.kind = "errorLoop" => f.n = 1
                          /\ f.kind = "endRest" => before >= 0
                          /\ f.kind \in Flows => flowing \/ pausedInFlow,
           UNCHANGED <<buffers, flowing, destroyed, counts, sent, heard, before, pausedInFlow>>,
           listeners' \in [Events -> Nat], destroyed => listeners'["end"] = 0,
           \/ ended' = ended
           \/ ended' = TRUE /\ before >= 0,
           \/ endSent' = endSent
           \/ endSent' = TRUE /\ before >= 0 /\ ~destroyed /\ (flowing \/ pausedInFlow)
    PROVE  IInv'
<1>1. TypeOK
  BY DEF IInv
<1>2. ToSet(stack') \subseteq ToSet(stack) \cup new
  BY <1>1, RunningFrame
<1>3. Visited' /\ ErrorsKept'
  BY <1>2, SameErrors DEF buffers, counts, Steady
<1>4. errors' \in Seq(Nat) /\ heard' \subseteq Nat /\ raised' \in Nat
  BY <1>1 DEF TypeOK, buffers, counts
<1> QED
  BY <1>3, <1>4, RestIInv DEF buffers, promises, counts

\* A step that only takes the running method off the stack, or leaves the stack.
LEMMA BareIInv ==
    ASSUME IInv, stack' \in Seq(Frames),
           \/ Running # "flowData" /\ ToSet(stack') = ToSet(stack)
           \/ /\ stack # <<>> /\ Running \notin {"flowData", "dataFlowed"}
              /\ ToSet(stack') = ToSet(Front(stack)),
           UNCHANGED <<buffers, flowing, ended, destroyed, counts, history>>,
           listeners' \in [Events -> Nat], destroyed => listeners'["end"] = 0
    PROVE  IInv'
<1> DEFINE new == {}
<1>1. new \in SUBSET Frames /\ \A f \in new : FALSE
  OBVIOUS
<1>2. \/ Running # "flowData" /\ ToSet(stack') = ToSet(stack) \cup new
      \/ /\ stack # <<>> /\ Running \notin {"flowData", "dataFlowed"}
         /\ ToSet(stack') = ToSet(Front(stack)) \cup new
  OBVIOUS
<1> HIDE DEF new
<1> QED
  BY <1>1, <1>2, QuietIInv DEF history

\* What user code may call it calls while no flow has just been entered.
LEMMA Calls == MayCall => Running \in {"program", "listener"} /\ ~destroyed
BY DEF MayCall

-----------------------------------------------------------------------------
(* The operations.                                                         *)

\* write(), also as a part of end().
LEMMA WriteIInv ==
    ASSUME IInv, MayCall, NEW rest \in Seq(Frames), WriteThen(rest),
           \A f \in ToSet(rest) : f.kind = "endRest" /\ before' >= 0,
           before' = before \/ (before < 0 /\ before' = written')
    PROVE  IInv'
<1> USE Calls
<1>1. TypeOK /\ Top
  BY DEF IInv
<1> DEFINE c == written + 1
           frames == IF flowing THEN rest \o <<Emission("data")>> ELSE rest
<1>2. /\ written' = c
      /\ UNCHANGED <<errors, raised, flowing, ended, destroyed, listeners, heard, endSent, pausedInFlow>>
  BY DEF WriteThen, state
<1>3. c \in Nat /\ written \in Nat
  BY <1>1 DEF TypeOK
<1>4. /\ frames \in Seq(Frames)
      /\ \A f \in ToSet(frames) : f.kind \in {"emit", "endRest"} /\ (f.kind = "endRest" => before' >= 0)
      /\ Call(frames)
  <2>1. Emission("data") \in Frames /\ Emission("data").kind = "emit"
    BY <1>1, FrameTypes DEF Events
  <2> DEFINE last == <<Emission("data")>>
  <2>2. last \in Seq(Frames) /\ ToSet(last) = {Emission("data")}
    BY <2>1, FewFrames
  <2>3. Call(frames)
    BY DEF WriteThen
  <2> HIDE DEF last
  <2>4. rest \o last \in Seq(Frames) /\ ToSet(rest \o last) = ToSet(rest) \cup ToSet(last)
    BY <2>2, ToSetConcat, ConcatProperties
  <2> QED
    BY <2>1, <2>2, <2>3, <2>4 DEF last
<1> HIDE DEF frames
<1>5. stack' \in Seq(Frames) /\ ToSet(stack') = ToSet(stack) \cup ToSet(frames)
  BY <1>1, <1>4, CallStack
<1>6. Top' /\ Running' # "flowData" /\ Running # "flowData"
  <2>1. ToSet(frames) \in SUBSET Frames
    BY <1>4, ElementOfSeq, LenProperties DEF ToSet
  <2> QED
    BY <1>1, <1>4, <1>5, <2>1, QuietTop
<1>7. InFlight' <=> InFlight
  <2>1. InFlight' <=> \E f \in ToSet(stack') : f.kind = "dataFlowed"
    BY DEF InFlight, ToSet
  <2> QED
    BY <1>1, <1>4, <1>5, <2>1, InFlightFrame
<1>8. CASE flowing
  <2>1. sent' = Append(sent, c) /\ UNCHANGED <<data, pending, told, released>>
    BY <1>8 DEF WriteThen, promises
  <2>2. sent' \in Seq(Nat) /\ ToSet(sent) \subseteq ToSet(sent')
    <3>1. sent \in Seq(Nat)
      BY <1>1 DEF TypeOK
    <3>2. Append(sent, c) \in Seq(Nat) /\ ToSet(Append(sent, c)) = ToSet(sent) \cup {c}
      BY <1>3, <3>1, AppendProperties, ToSetAppend
    <3> QED
      BY <2>1, <3>2
  <2>3. Emptied'
    BY <1>2, <1>6, <1>7, <2>1 DEF IInv, Emptied, Steady
  <2>4. DataKept'
    <3> SUFFICES ASSUME Steady PROVE sent' \o (IF InFlight' THEN <<>> ELSE data') = [k \in 1..c |-> k]
      BY <1>2 DEF DataKept, Steady
    <3>1. ~InFlight => data = <<>>
      BY <1>6, <1>8 DEF IInv, Emptied
    <3>2. sent = [k \in 1..written |-> k]
      BY <1>1, <3>1, ConcatEmptySeq DEF IInv, DataKept, TypeOK
    <3>3. sent' = [k \in 1..c |-> k]
      BY <1>3, <2>1, <3>2, NumbersAppend
    <3> QED
      BY <1>7, <2>1, <2>2, <3>1, <3>3, ConcatEmptySeq
  <2>5. WritersWaitForData'
    BY <1>2, <2>1, <2>2 DEF IInv, WritersWaitForData, Forsaken
  <2>6. TypeOK'
    <3>1. pending' \subseteq 1..c /\ told' \subseteq 1..c /\ released' \subseteq 1..c
      BY <1>1, <1>3, <2>1 DEF TypeOK
    <3> QED
      BY <1>1, <1>2, <1>3, <1>5, <2>1, <2>2, <3>1 DEF TypeOK
  <2>7. FlowsRun' /\ Visited' /\ ErrorsKept'
    BY <1>2, <1>4, <1>5 DEF IInv, FlowsRun, Visited, ErrorsKept, Steady, Flows
  <2>8. Ends'
    BY <1>1, <1>2, <1>4, <1>5, Calls DEF IInv, Ends, TypeOK
  <2>9. EndAfterData'
    BY <1>1, <1>2, <2>2 DEF IInv, EndAfterData, Ends, TypeOK
  <2> QED
    BY <1>6, <2>3, <2>4, <2>5, <2>6, <2>7, <2>8, <2>9 DEF IInv
<1>9. CASE ~flowing
  <2> DEFINE waits == IF Len(data') > HighWaterMark THEN {c} ELSE {}
  <2>1. /\ data' = Append(data, c) /\ sent' = sent /\ released' = released
        /\ pending' = pending \cup waits /\ told' = told \cup waits
    BY <1>9 DEF WriteThen
  <2>2. data' \in Seq(Nat) /\ Len(data') = Len(data) + 1 /\ Len(data) \in Nat
    BY <1>1, <1>3, <2>1, AppendProperties, LenProperties DEF TypeOK
  <2>3. Emptied'
    BY <1>2, <1>9 DEF Emptied
  <2>4. DataKept'
    <3> SUFFICES ASSUME Steady PROVE sent' \o (IF InFlight' THEN <<>> ELSE data') = [k \in 1..c |-> k]
      BY <1>2 DEF DataKept, Steady
    <3>1. ~InFlight
      BY <1>1, <1>9, InFlightFrame DEF IInv, FlowsRun, Flows, Steady
    <3>2. sent \o data = [k \in 1..written |-> k]
      BY <3>1 DEF IInv, DataKept
    <3>3. sent \o Append(data, c) = Append(sent \o data, c)
      BY <1>1, <1>3, AppendConcat DEF TypeOK
    <3> QED
      BY <1>3, <1>7, <2>1, <3>1, <3>2, <3>3, NumbersAppend
  <2>5. WritersWaitForData'
    <3>1. Len(data) > HighWaterMark => Len(data') > HighWaterMark
      BY <2>2, StreamAssumption
    <3>2. pending' # {} => Len(data') > HighWaterMark
      BY <2>1, <3>1 DEF IInv, WritersWaitForData
    <3>3. Forsaken' \subseteq Forsaken
      BY <2>1 DEF Forsaken
    <3> QED
      BY <1>2, <2>1, <3>2, <3>3 DEF IInv, WritersWaitForData
  <2>6. TypeOK'
    <3>1. pending' \subseteq 1..c /\ told' \subseteq 1..c /\ released' \subseteq 1..c
      BY <1>1, <1>3, <2>1 DEF TypeOK
    <3> QED
      BY <1>1, <1>2, <1>3, <1>5, <2>1, <2>2, <3>1 DEF TypeOK
  <2>7. FlowsRun' /\ Visited' /\ ErrorsKept'
    BY <1>2, <1>4, <1>5 DEF IInv, FlowsRun, Visited, ErrorsKept, Steady, Flows
  <2>8. Ends'
    BY <1>1, <1>2, <1>4, <1>5, Calls DEF IInv, Ends, TypeOK
  <2>9. EndAfterData'
    BY <1>1, <1>2, <2>1 DEF IInv, EndAfterData, Ends, TypeOK
  <2> QED
    BY <1>6, <2>3, <2>4, <2>5, <2>6, <2>7, <2>8, <2>9 DEF IInv
<1> QED
  BY <1>8, <1>9

LEMMA EndIInv == ASSUME IInv, End PROVE IInv'
<1> USE Calls
<1>1. TypeOK /\ Top /\ MayCall
  BY DEF IInv, End
<1> DEFINE rest == <<Rest("endRest")>>
           new == {Rest("endRest")}
<1>2. rest \in Seq(Frames) /\ ToSet(rest) = new /\ new \subseteq Frames /\ Rest("endRest").kind = "endRest"
  BY FrameTypes, FewFrames DEF FrameKinds
<1>3. WriteThen(rest) \/ (Call(rest) /\ UNCHANGED <<buffers, counts, state, sent, heard, endSent, pausedInFlow>>)
  BY DEF End
<1>4. before' = IF before >= 0 THEN before ELSE written'
  BY DEF End
<1>5. written \in Nat /\ before \in Nat \cup {-1} /\ written' \in Nat
  BY <1>1, <1>3 DEF TypeOK, WriteThen, counts
<1>6. before' >= 0 /\ (before' = before \/ (before < 0 /\ before' = written'))
  BY <1>4, <1>5
<1> HIDE DEF rest
<1>7. CASE WriteThen(rest)
  BY <1>1, <1>2, <1>6, <1>7, WriteIInv
<1>8. CASE Call(rest) /\ UNCHANGED <<buffers, counts, state, sent, heard, endSent, pausedInFlow>>
  <2>1. /\ UNCHANGED <<data, errors, pending, told, released, written, raised, sent, heard, endSent, pausedInFlow>>
        /\ UNCHANGED <<flowing, ended, destroyed, listeners>>
    BY <1>8 DEF buffers, promises, counts, state
  <2>2. stack' \in Seq(Frames) /\ ToSet(stack') = ToSet(stack) \cup new
    BY <1>1, <1>2, <1>8, CallStack
  <2>3. Top' /\ Running' # "flowData" /\ Running # "flowData"
    BY <1>1, <1>2, <2>2, QuietTop
  <2>4. InFlight' <=> InFlight
    <3>1. InFlight' <=> \E f \in ToSet(stack') : f.kind = "dataFlowed"
      BY DEF InFlight, ToSet
    <3> QED
      BY <1>1, <1>2, <2>2, <3>1, InFlightFrame
  <2>5. Emptied' /\ DataKept'
    BY <2>1, <2>3, <2>4, SameData DEF Steady
  <2>6. Visited' /\ ErrorsKept'
    BY <1>2, <2>1, <2>2, SameErrors DEF Steady
  <2>7. TypeOK'
    BY <1>1, <1>5, <1>6, <2>1, <2>2 DEF TypeOK
  <2>8. FlowsRun'
    BY <1>2, <2>1, <2>2 DEF IInv, FlowsRun, Flows
  <2>9. Ends'
    BY <1>2, <1>5, <1>6, <2>1, <2>2 DEF IInv, Ends
  <2>10. EndAfterData' /\ WritersWaitForData'
    BY <1>5, <1>6, <2>1 DEF IInv, EndAfterData, WritersWaitForData, Forsaken, Ends
  <2> QED
    BY <2>3, <2>5, <2>6, <2>7, <2>8, <2>9, <2>10 DEF IInv
<1> QED
  BY <1>3, <1>7, <1>8

LEMMA PauseIInv == ASSUME IInv, Pause PROVE IInv'
<1>1. TypeOK /\ MayCall /\ Running # "flowData"
  BY Calls DEF IInv, Pause
<1>2. /\ flowing' = FALSE
      /\ pausedInFlow' = (pausedInFlow \/ (flowing /\ \E i \in DOMAIN stack : stack[i].kind \in Flows))
      /\ UNCHANGED <<ended, destroyed, listeners, data, errors, pending, told, released, written, raised>>
      /\ UNCHANGED <<sent, heard, before, endSent, stack>>
  BY DEF Pause, buffers, promises, counts
<1>3. TypeOK'
  <2>1. flowing' \in BOOLEAN /\ pausedInFlow' \in BOOLEAN
    BY <1>1, <1>2 DEF TypeOK
  <2> QED
    BY <1>1, <1>2, <2>1 DEF TypeOK
<1>4. Running' = Running /\ (InFlight' <=> InFlight) /\ (Steady' => Steady)
  BY <1>2 DEF Running, InFlight, Steady
<1>5. Top' /\ Emptied' /\ DataKept'
  <2>1. Top'
    BY <1>1, <1>2, <1>4 DEF IInv, Top
  <2> QED
    BY <1>1, <1>2, <1>4, <2>1, SameData
<1>6. FlowsRun'
  <2>1. ToSet(stack) = {stack[i] : i \in DOMAIN stack}
    BY DEF ToSet
  <2> QED
    BY <1>2, <2>1 DEF IInv, FlowsRun
<1>7. Visited' /\ ErrorsKept'
  BY <1>2, <1>4, SameErrors
<1>8. Ends' /\ EndAfterData' /\ WritersWaitForData'
  BY <1>2 DEF IInv, Ends, EndAfterData, WritersWaitForData, Forsaken
<1> QED
  BY <1>3, <1>5, <1>6, <1>7, <1>8 DEF IInv

\* Where no flow is in progress no error is being emitted.
LEMMA ErrorIInv == ASSUME IInv, Error PROVE IInv'
<1> USE Calls
<1> DEFINE e == raised + 1
           new == IF flowing THEN {Emission("error")} ELSE {}
<1>1. TypeOK /\ MayCall /\ Running # "flowData"
  BY DEF IInv, Error
<1>2. /\ raised' = e
      /\ UNCHANGED <<data, pending, told, released, written, flowing, ended, destroyed, listeners>>
      /\ UNCHANGED <<sent, before, endSent, pausedInFlow>>
  BY DEF Error, promises, state
<1>3. e \in Nat /\ raised \in Nat
  BY <1>1 DEF TypeOK
<1>4. Emission("error") \in Frames /\ Emission("error").kind = "emit"
  BY <1>1, FrameTypes DEF Events
<1>5. stack' \in Seq(Frames) /\ ToSet(stack') = ToSet(stack) \cup new
  <2>1. CASE flowing
    <3>1. Call(<<Emission("error")>>)
      BY <2>1 DEF Error
    <3>2. <<Emission("error")>> \in Seq(Frames) /\ ToSet(<<Emission("error")>>) = {Emission("error")}
      BY <1>4, FewFrames
    <3> DEFINE t == <<Emission("error")>>
    <3> HIDE DEF t
    <3>3. stack' \in Seq(Frames) /\ ToSet(stack') = ToSet(stack) \cup ToSet(t)
      BY <1>1, <3>1, <3>2, CallStack DEF t
    <3> QED
      BY <2>1, <3>2, <3>3 DEF t
  <2>2. CASE ~flowing
    BY <1>1, <2>2 DEF Error, TypeOK
  <2> QED
    BY <2>1, <2>2
<1>6. new \subseteq Frames /\ \A f \in new : f.kind = "emit"
  BY <1>4
<1>7. errors' \in Seq(Nat) /\ heard' \subseteq Nat /\ Visited' /\ ErrorsKept'
  <2>1. CASE flowing
    <3>1. heard' = heard \cup {e} /\ errors' = errors
      BY <2>1 DEF Error
    <3>2. Visited'
      BY <1>2, <1>5, <1>6, <3>1 DEF IInv, Visited, Steady
    <3>3. ErrorsKept'
      BY <1>2, <1>3, <3>1 DEF IInv, ErrorsKept, Steady
    <3> QED
      BY <1>1, <1>3, <3>1, <3>2, <3>3 DEF TypeOK
  <2>2. CASE ~flowing
    <3>1. heard' = heard /\ errors' = Append(errors, e) /\ stack' = stack
      BY <2>2 DEF Error
    <3>2. Append(errors, e) \in Seq(Nat) /\ ToSet(Append(errors, e)) = ToSet(errors) \cup {e}
      <4>1. errors \in Seq(Nat) /\ e \in Nat
        BY <1>1, <1>3 DEF TypeOK
      <4>2. Append(errors, e) \in Seq(Nat)
        BY <4>1, AppendProperties
      <4> QED
        BY <4>1, <4>2, ToSetAppend
    <3>3. Visited'
      BY <1>2, <2>2, <3>1 DEF IInv, Visited, Steady, FlowsRun, Flows
    <3>4. ErrorsKept'
      BY <1>2, <1>3, <3>1, <3>2 DEF IInv, ErrorsKept, Steady
    <3> QED
      BY <1>1, <3>1, <3>2, <3>3, <3>4 DEF TypeOK
  <2> QED
    BY <2>1, <2>2
<1>8. listeners' \in [Events -> Nat] /\ (destroyed => listeners'["end"] = 0)
  BY <1>1, <1>2 DEF IInv, TypeOK, Ends
<1>9. raised' \in Nat
  BY <1>2, <1>3
<1> HIDE DEF new
<1> QED
  BY <1>1, <1>2, <1>5, <1>6, <1>7, <1>8, <1>9, RestIInv DEF Flows

\* A flow starts where none is in progress.
LEMMA FlowIInv ==
    ASSUME IInv, MayCall, ~flowing, flowing' = TRUE, Call(Flow),
           UNCHANGED <<ended, destroyed, buffers, counts, sent, heard, before, endSent, pausedInFlow>>,
           listeners' \in [Events -> Nat], destroyed => listeners'["end"] = 0
    PROVE  IInv'
<1> DEFINE below == {Rest("flowEnd"), Rest("flowErrors")}
           new == below \cup {Rest("flowData")}
<1>1. TypeOK /\ Running # "flowData"
  BY Calls DEF IInv
<1>2. /\ Rest("flowEnd") \in Frames /\ Rest("flowEnd").kind = "flowEnd"
      /\ Rest("flowErrors") \in Frames /\ Rest("flowErrors").kind = "flowErrors"
      /\ Rest("flowData") \in Frames /\ Rest("flowData").kind = "flowData"
  BY FrameTypes DEF FrameKinds, Flows
<1>3. Flow \in Seq(Frames) /\ ToSet(Flow) = new
  BY <1>2, FewFrames DEF Flow
<1>4. Flow # <<>> /\ Last(Flow) = Rest("flowData") /\ ToSet(Front(Flow)) = below
  <2>1. Flow # <<>> /\ Last(Flow) = Rest("flowData")
    BY DEF Flow, Last
  <2>2. Len(Flow) = 3 /\ Flow[1] = Rest("flowEnd") /\ Flow[2] = Rest("flowErrors")
    BY DEF Flow
  <2>3. DOMAIN Front(Flow) = {1, 2} /\ Front(Flow)[1] = Flow[1] /\ Front(Flow)[2] = Flow[2]
    <3>1. /\ DOMAIN Front(Flow) = 1..Len(Flow) - 1
          /\ \A i \in 1..Len(Flow) - 1 : Front(Flow)[i] = Flow[i]
      BY <1>3, <2>1, FrontIs
    <3>2. 1..Len(Flow) - 1 = {1, 2}
      BY <2>2
    <3> QED
      BY <3>1, <3>2
  <2>4. ToSet(Front(Flow)) = {Front(Flow)[1], Front(Flow)[2]}
    BY <2>3 DEF ToSet
  <2> QED
    BY <2>1, <2>2, <2>3, <2>4
<1>5. stack' \in Seq(Frames) /\ ToSet(stack') = ToSet(stack) \cup new
  BY <1>1, <1>3, CallStack
<1>6. stack' # <<>> /\ Last(stack') = Rest("flowData") /\ ToSet(Front(stack')) = ToSet(stack) \cup below
  <2>1. stack \in Seq(Frames) /\ stack' = stack \o Flow
    BY <1>1 DEF TypeOK, Call
  <2> QED
    BY <1>3, <1>4, <2>1, FrontLastConcat
<1>7. Running' = "flowData"
  BY <1>2, <1>6 DEF Running
<1>8. /\ \A f \in ToSet(stack) : f.kind # "flowData"
      /\ ~pausedInFlow => \A f \in ToSet(stack) : f.kind # "dataFlowed"
  BY <1>1 DEF IInv, Top, FlowsRun, Flows
<1>9. Top'
  BY <1>2, <1>6, <1>7, <1>8 DEF Top
<1>10. UNCHANGED <<data, errors, pending, told, released, written, raised>>
  BY DEF buffers, promises, counts
<1>11. InFlight' <=> InFlight
  <2>1. InFlight' <=> \E f \in ToSet(stack') : f.kind = "dataFlowed"
    BY DEF InFlight, ToSet
  <2> QED
    BY <1>1, <1>2, <1>5, <2>1, InFlightFrame
<1>12. Emptied' /\ DataKept'
  BY <1>1, <1>7, <1>10, <1>11, SameData DEF Steady
<1>13. Visited' /\ ErrorsKept'
  BY <1>2, <1>5, <1>10, SameErrors DEF Steady
<1>14. TypeOK'
  BY <1>1, <1>5, <1>10 DEF TypeOK
<1>15. FlowsRun'
  BY DEF FlowsRun
<1>16. Ends'
  BY <1>2, <1>5, <1>10 DEF IInv, Ends
<1>17. EndAfterData' /\ WritersWaitForData'
  BY <1>10 DEF IInv, EndAfterData, WritersWaitForData, Forsaken
<1> QED
  BY <1>9, <1>12, <1>13, <1>14, <1>15, <1>16, <1>17 DEF IInv

LEMMA ResumeIInv == ASSUME IInv, Resume PROVE IInv'
<1>1. listeners' \in [Events -> Nat] /\ (destroyed => listeners'["end"] = 0)
  BY DEF IInv, TypeOK, Ends, Resume
<1> QED
  BY <1>1, FlowIInv DEF Resume, history

LEMMA OnDataIInv == ASSUME IInv, OnData PROVE IInv'
<1>1. TypeOK /\ MayCall /\ Running # "flowData" /\ Running # "dataFlowed" /\ ~destroyed
  BY Calls DEF IInv, OnData, Listens
<1>2. listeners' \in [Events -> Nat]
  BY <1>1 DEF OnData, Listens, TypeOK, Events
<1>3. UNCHANGED <<ended, destroyed, buffers, counts, sent, heard, before, endSent, pausedInFlow>>
  BY DEF OnData, Listens
<1>4. CASE flowing
  <2>1. flowing' = flowing /\ Call(<<>>)
    BY <1>1, <1>4 DEF OnData, TypeOK
  <2>2. stack' \in Seq(Frames) /\ ToSet(stack') = ToSet(stack)
    BY <1>1, <2>1, ConcatEmptySeq DEF TypeOK, Call
  <2>3. endSent' = endSent
    BY DEF OnData
  <2> QED
    BY <1>1, <1>2, <1>3, <2>1, <2>2, <2>3, BareIInv DEF history
<1>5. CASE ~flowing
  <2>1. flowing' = TRUE /\ Call(Flow)
    BY <1>5 DEF OnData
  <2> QED
    BY <1>1, <1>2, <1>3, <1>5, <2>1, FlowIInv
<1> QED
  BY <1>4, <1>5

\* destroy() leaves nothing to lose.
LEMMA DestroyedIInv ==
    ASSUME IInv, Destroyed, Running # "flowData", stack' \in Seq(Frames), ToSet(stack') \subseteq ToSet(stack)
    PROVE  IInv'
<1>1. TypeOK /\ Top
  BY DEF IInv
<1>2. /\ destroyed' = TRUE /\ ended' = TRUE /\ data' = <<>> /\ errors' = <<>> /\ pending' = {}
      /\ listeners' = [event \in Events |-> 0]
      /\ UNCHANGED <<flowing, told, released, written, raised, sent, heard, before, endSent, pausedInFlow>>
  BY DEF Destroyed, counts, history
<1>3. TypeOK'
  BY <1>1, <1>2 DEF TypeOK
<1>4. Top'
  BY <1>1, RunningFrame, QuietTop, ToSet(stack') \subseteq ToSet(stack) \cup {}, {} \in SUBSET Frames
<1>5. FlowsRun' /\ Emptied' /\ DataKept' /\ Visited' /\ ErrorsKept'
  BY <1>2 DEF IInv, FlowsRun, Emptied, DataKept, Visited, ErrorsKept, Steady
<1>6. Ends'
  BY <1>2 DEF IInv, Ends, Events
<1>7. EndAfterData' /\ WritersWaitForData'
  BY <1>2 DEF IInv, EndAfterData, WritersWaitForData, Forsaken
<1> QED
  BY <1>3, <1>4, <1>5, <1>6, <1>7 DEF IInv

LEMMA DestroyIInv == ASSUME IInv, Destroy PROVE IInv'
<1>1. Destroyed /\ stack' = stack /\ Running # "flowData"
  BY Calls DEF Destroy
<1>2. stack' \in Seq(Frames)
  BY <1>1 DEF IInv, TypeOK
<1> QED
  BY <1>1, <1>2, DestroyedIInv

\* A method that has nothing left to do leaves the stack.
LEMMA Returns ==
    ASSUME TypeOK, Running # "program", Continue(<<>>)
    PROVE  /\ stack # <<>>
           /\ stack' \in Seq(Frames) /\ ToSet(stack') = ToSet(Front(stack))
           /\ ToSet(stack') \subseteq ToSet(stack)
<1>1. stack # <<>> /\ ToSet(Front(stack)) \subseteq ToSet(stack)
  BY RunningFrame
<1> QED
  BY <1>1, FewFrames, ContinueStack

LEMMA EndDestroysIInv == ASSUME IInv, EndDestroys PROVE IInv'
BY Returns, DestroyedIInv DEF IInv, EndDestroys

LEMMA ListenerReturnIInv == ASSUME IInv, ListenerReturn PROVE IInv'
<1>1. TypeOK /\ Running = "listener" /\ Continue(<<>>) /\ UNCHANGED <<buffers, state, counts, history>>
  BY DEF IInv, ListenerReturn
<1>2. listeners' \in [Events -> Nat] /\ (destroyed => listeners'["end"] = 0)
  BY <1>1 DEF IInv, TypeOK, Ends, state
<1> QED
  BY <1>1, <1>2, Returns, BareIInv DEF state

LEMMA EndHeardIInv == ASSUME IInv, EndHeard PROVE IInv'
<1>1. TypeOK /\ Running = "endHeard" /\ Continue(<<>>)
  BY DEF IInv, EndHeard
<1>2. CASE Destroyed
  BY <1>1, <1>2, Returns, DestroyedIInv
<1>3. CASE UNCHANGED <<buffers, state, counts, history>>
  <2>1. listeners' \in [Events -> Nat] /\ (destroyed => listeners'["end"] = 0)
    BY <1>1, <1>3 DEF IInv, TypeOK, Ends, state
  <2> QED
    BY <1>1, <1>3, <2>1, Returns, BareIInv DEF state
<1> QED
  BY <1>2, <1>3 DEF EndHeard

\* What a method goes on to do when it gives the floor to others.
LEMMA Resumes ==
    ASSUME TypeOK, Running # "program", NEW t \in Seq(Frames), Continue(t)
    PROVE  /\ stack # <<>>
           /\ stack' \in Seq(Frames) /\ ToSet(stack') = ToSet(Front(stack)) \cup ToSet(t)
           /\ Last(stack) \in Frames /\ Running = Last(stack).kind
           /\ ToSet(stack) = ToSet(Front(stack)) \cup {Last(stack)}
BY RunningFrame, ContinueStack

\* flowData() emits all that is buffered, and nothing else is emitted before the
\* buffer is emptied.
LEMMA FlowDataIInv == ASSUME IInv, FlowData PROVE IInv'
<1> DEFINE frames == IF data = <<>> THEN <<>> ELSE <<Rest("dataFlowed"), Emission("data")>>
           new == IF data = <<>> THEN {} ELSE {Rest("dataFlowed"), Emission("data")}
<1>1. TypeOK /\ Running = "flowData" /\ Continue(frames) /\ sent' = sent \o data
  BY DEF IInv, FlowData
<1>2. /\ UNCHANGED <<data, errors, pending, told, released, flowing, ended, destroyed, listeners, written, raised>>
      /\ UNCHANGED <<heard, before, endSent, pausedInFlow>>
  BY DEF FlowData, buffers, promises, state, counts
<1>3. /\ frames \in Seq(Frames) /\ ToSet(frames) = new /\ new \in SUBSET Frames
      /\ \A f \in new : f.kind \in {"dataFlowed", "emit"}
      /\ data # <<>> => \E f \in new : f.kind = "dataFlowed"
  <2>1. /\ Rest("dataFlowed") \in Frames /\ Rest("dataFlowed").kind = "dataFlowed"
        /\ Emission("data") \in Frames /\ Emission("data").kind = "emit"
    BY <1>1, FrameTypes DEF FrameKinds, Flows, Events
  <2>2. CASE data = <<>>
    BY <2>2, FewFrames
  <2>3. CASE data # <<>>
    BY <2>1, <2>3, FewFrames
  <2> QED
    BY <2>2, <2>3
<1> HIDE DEF frames, new
<1>4. /\ stack # <<>> /\ stack' \in Seq(Frames)
      /\ ToSet(stack') = ToSet(Front(stack)) \cup new
      /\ Last(stack) \in Frames /\ Last(stack).kind = "flowData"
      /\ ToSet(stack) = ToSet(Front(stack)) \cup {Last(stack)}
  BY <1>1, <1>3, Resumes
<1>5. Top' /\ Running' # "flowData"
  <2>1. stack # <<>> /\ ToSet(stack') \subseteq ToSet(Front(stack)) \cup new
    BY <1>4
  <2>2. \A f \in new : f.kind # "flowData"
    BY <1>3
  <2> QED
    BY <1>1, <1>3, <1>4, <2>1, <2>2, QuietTop DEF IInv
<1>6. InFlight' <=> \E f \in ToSet(stack') : f.kind = "dataFlowed"
  BY DEF InFlight, ToSet
<1>7. Steady => ~InFlight
  BY <1>1, <1>4, InFlightFrame DEF IInv, Top, Steady
<1>8. data # <<>> => InFlight'
  BY <1>3, <1>4, <1>6
<1>9. sent \in Seq(Nat) /\ data \in Seq(Nat) /\ sent' \in Seq(Nat) /\ ToSet(sent) \subseteq ToSet(sent')
  BY <1>1, ToSetConcat, ConcatProperties DEF TypeOK
<1>10. Emptied' /\ DataKept'
  <2>1. Emptied'
    BY <1>2, <1>8 DEF Emptied
  <2>2. Steady' => sent' = [c \in 1..written' |-> c]
    BY <1>1, <1>2, <1>7 DEF IInv, DataKept, Steady
  <2>3. InFlight' \/ data' = <<>>
    BY <1>2, <1>8
  <2>4. sent' \o <<>> = sent'
    BY <1>9, ConcatEmptySeq
  <2> QED
    BY <2>1, <2>2, <2>3, <2>4 DEF DataKept
<1>11. TypeOK'
  BY <1>1, <1>2, <1>4, <1>9 DEF TypeOK
<1>12. FlowsRun'
  BY <1>2, <1>3, <1>4 DEF IInv, FlowsRun, Flows
<1>13. Visited' /\ ErrorsKept'
  BY <1>2, <1>3, <1>4, SameErrors DEF Steady
<1>14. Ends'
  BY <1>2, <1>3, <1>4 DEF IInv, Ends
<1>15. EndAfterData' /\ WritersWaitForData'
  BY <1>2, <1>9 DEF IInv, EndAfterData, WritersWaitForData, Forsaken
<1> QED
  BY <1>5, <1>10, <1>11, <1>12, <1>13, <1>14, <1>15 DEF IInv

\* The buffer is emptied of what has been emitted.
LEMMA DataFlowedIInv == ASSUME IInv, DataFlowed PROVE IInv'
<1>1. /\ TypeOK /\ Top /\ Running = "dataFlowed" /\ Continue(<<>>) /\ data' = <<>>
      /\ pending' = {} /\ released' = released \cup pending /\ told' = told
  BY DEF IInv, DataFlowed
<1>2. /\ UNCHANGED <<errors, flowing, ended, destroyed, listeners, written, raised>>
      /\ UNCHANGED <<sent, heard, before, endSent, pausedInFlow>>
  BY DEF DataFlowed, state, counts, history
<1>3. /\ stack # <<>> /\ stack' \in Seq(Frames)
      /\ ToSet(stack') = ToSet(Front(stack)) /\ ToSet(stack') \subseteq ToSet(stack)
  BY <1>1, Returns
<1>4. Top' /\ Running' # "flowData"
  BY <1>1, <1>3, QuietTop, ToSet(stack') \subseteq ToSet(stack) \cup {}, {} \in SUBSET Frames
<1>5. InFlight
  <2>1. Last(stack) \in ToSet(stack) /\ Last(stack).kind = "dataFlowed"
    BY <1>1, RunningFrame
  <2> QED
    BY <1>1, <2>1, InFlightFrame
<1>6. Emptied' /\ DataKept'
  <2>1. sent \in Seq(Nat) /\ sent \o <<>> = sent
    BY <1>1, ConcatEmptySeq DEF TypeOK
  <2>2. Steady' => sent' = [c \in 1..written' |-> c]
    BY <1>2, <1>5, <2>1 DEF IInv, DataKept, Steady
  <2> QED
    BY <1>1, <1>2, <2>1, <2>2 DEF Emptied, DataKept
<1>7. TypeOK'
  BY <1>1, <1>2, <1>3 DEF TypeOK
<1>8. FlowsRun'
  BY <1>2, <1>3 DEF IInv, FlowsRun
<1>9. Visited' /\ ErrorsKept'
  BY <1>2, <1>3, SameErrors DEF Steady
<1>10. Ends'
  BY <1>1, <1>2, <1>3 DEF IInv, Ends
<1>11. EndAfterData' /\ WritersWaitForData'
  <2>1. Steady => pending \subseteq ToSet(sent)
    <3>1. sent \in Seq(Nat) /\ sent \o <<>> = sent /\ written \in Nat /\ pending \subseteq 1..written
      BY <1>1, ConcatEmptySeq DEF TypeOK
    <3>2. Steady => sent = [c \in 1..written |-> c]
      BY <1>5, <3>1 DEF IInv, DataKept
    <3> QED
      BY <3>1, <3>2, NumbersAppend
  <2>2. ~pausedInFlow => released' \subseteq ToSet(sent)
    BY <1>1, <2>1 DEF IInv, WritersWaitForData, Ends, Steady
  <2>3. Forsaken' = Forsaken
    BY <1>1 DEF Forsaken
  <2> QED
    BY <1>1, <1>2, <2>2, <2>3 DEF IInv, EndAfterData, WritersWaitForData
<1> QED
  BY <1>4, <1>6, <1>7, <1>8, <1>9, <1>10, <1>11 DEF IInv

\* flowErrors() empties the buffer when it has visited all of it.
LEMMA ErrorLoopIInv == ASSUME IInv, ErrorLoop PROVE IInv'
<1> DEFINE i == Last(stack).n
<1>1. TypeOK /\ Running = "errorLoop"
  BY DEF IInv, ErrorLoop
<1>2. /\ UNCHANGED <<data, pending, told, released, flowing, ended, destroyed, listeners, written, raised>>
      /\ UNCHANGED <<sent, before, endSent, pausedInFlow>>
  BY DEF ErrorLoop, promises, state, counts
<1>3. /\ stack # <<>> /\ Last(stack) \in Frames /\ Last(stack).kind = "errorLoop"
      /\ ToSet(stack) = ToSet(Front(stack)) \cup {Last(stack)}
      /\ i \in Nat /\ errors \in Seq(Nat) /\ Len(errors) \in Nat
      /\ DOMAIN errors = 1..Len(errors) /\ i > 0
  <2>1. stack # <<>> /\ Last(stack) \in Frames /\ Last(stack).kind = "errorLoop"
        /\ ToSet(stack) = ToSet(Front(stack)) \cup {Last(stack)}
    BY <1>1, RunningFrame
  <2>2. i \in Nat
    BY <2>1 DEF Frames
  <2>3. i > 0
    BY <2>1 DEF IInv, Visited
  <2> QED
    BY <1>1, <2>1, <2>2, <2>3, LenProperties DEF TypeOK
<1>4. Steady => \A k \in 1..Len(errors) : k < i => errors[k] \in heard
  BY <1>3 DEF IInv, Visited
<1>5. flowing \/ pausedInFlow
  BY <1>3 DEF IInv, FlowsRun, Flows
<1>6. listeners' \in [Events -> Nat] /\ (destroyed => listeners'["end"] = 0) /\ raised' \in Nat
  BY <1>1, <1>2 DEF IInv, TypeOK, Ends
<1>7. CASE i <= Len(errors)
  <2> DEFINE new == {Frame("errorLoop", i + 1), Emission("error")}
             frames == <<Frame("errorLoop", i + 1), Emission("error")>>
  <2>1. heard' = heard \cup {errors[i]} /\ errors' = errors /\ Continue(frames)
    BY <1>7 DEF ErrorLoop
  <2>2. /\ Frame("errorLoop", i + 1) \in Frames /\ Frame("errorLoop", i + 1).n = i + 1
        /\ Frame("errorLoop", i + 1).kind = "errorLoop"
        /\ Emission("error") \in Frames /\ Emission("error").kind = "emit"
    BY <1>1, <1>3, FrameTypes DEF FrameKinds, Flows, Events
  <2>3. frames \in Seq(Frames) /\ ToSet(frames) = new
    BY <2>2, FewFrames
  <2> HIDE DEF frames
  <2>4. stack' \in Seq(Frames) /\ ToSet(stack') = ToSet(Front(stack)) \cup new
    BY <1>1, <2>1, <2>3, Resumes
  <2>5. Visited'
    <3> SUFFICES ASSUME NEW f \in ToSet(stack'), f.kind = "errorLoop"
                 PROVE  f.n > 0 /\ (Steady => \A k \in 1..Len(errors) : k < f.n => errors[k] \in heard \cup {errors[i]})
      BY <1>2, <2>1 DEF Visited, Steady
    <3>1. CASE f \in ToSet(Front(stack))
      BY <1>3, <3>1 DEF IInv, Visited
    <3>2. CASE f = Frame("errorLoop", i + 1)
      BY <1>3, <1>4, <2>2, <3>2
    <3>3. CASE f = Emission("error")
      BY <2>2, <3>3
    <3> QED
      BY <2>4, <3>1, <3>2, <3>3
  <2>6. ErrorsKept'
    BY <1>2, <2>1 DEF IInv, ErrorsKept, Steady
  <2>7. heard' \subseteq Nat
    <3>1. errors[i] \in Nat
      BY <1>3, <1>7, ElementOfSeq
    <3> QED
      BY <1>1, <2>1, <3>1 DEF TypeOK
  <2>8. /\ new \in SUBSET Frames
        /\ \A f \in new : f.kind \in {"errorLoop", "emit"}
    BY <2>2
  <2> HIDE DEF new
  <2> QED
    BY <1>1, <1>2, <1>3, <1>5, <1>6, <2>1, <2>4, <2>5, <2>6, <2>7, <2>8, RestIInv
<1>8. CASE i > Len(errors)
  <2>1. errors' = <<>> /\ heard' = heard /\ Continue(<<>>)
    BY <1>3, <1>8 DEF ErrorLoop
  <2> DEFINE new == {}
  <2>2. stack' \in Seq(Frames) /\ ToSet(stack') = ToSet(Front(stack)) \cup new
    BY <1>1, <2>1, Returns
  <2>3. Visited'
    BY <1>3, <2>1, <2>2, 1..0 = {} DEF IInv, Visited
  <2>4. ErrorsKept'
    <3>1. Steady => ToSet(errors) \subseteq heard
      BY <1>3, <1>4, <1>8 DEF ToSet
    <3> QED
      BY <1>2, <2>1, <3>1 DEF IInv, ErrorsKept, Steady
  <2>5. errors' \in Seq(Nat) /\ heard' \subseteq Nat
    BY <1>1, <2>1 DEF TypeOK
  <2>6. new \in SUBSET Frames /\ \A f \in new : FALSE
    OBVIOUS
  <2> HIDE DEF new
  <2> QED
    BY <1>1, <1>2, <1>3, <1>6, <2>2, <2>3, <2>4, <2>5, <2>6, RestIInv
<1> QED
  BY <1>3, <1>7, <1>8

\* on("end") of a stream that flows and has ended: end() has been called, and all
\* that was written before has been emitted.
LEMMA OnEndIInv == ASSUME IInv, OnEnd PROVE IInv'
<1> DEFINE frames == IF flowing /\ ended THEN <<Rest("endHeard"), Frame("emit", listeners'["end"])>> ELSE <<>>
           new == IF flowing /\ ended THEN {Rest("endHeard"), Frame("emit", listeners'["end"])} ELSE {}
<1>1. TypeOK /\ MayCall /\ Running # "flowData" /\ ~destroyed /\ Call(frames)
  BY Calls DEF IInv, OnEnd, Listens
<1>2. UNCHANGED <<flowing, ended, destroyed, buffers, counts, sent, heard, before, pausedInFlow>>
  BY DEF OnEnd, Listens
<1>3. listeners' \in [Events -> Nat] /\ "end" \in Events
  BY <1>1 DEF OnEnd, Listens, TypeOK, Events
<1>4. /\ frames \in Seq(Frames) /\ ToSet(frames) = new /\ new \in SUBSET Frames
      /\ \A f \in new : f.kind \in {"endHeard", "emit"}
  <2>1. /\ Rest("endHeard") \in Frames /\ Rest("endHeard").kind = "endHeard"
        /\ Frame("emit", listeners'["end"]) \in Frames /\ Frame("emit", listeners'["end"]).kind = "emit"
    BY <1>3, FrameTypes DEF FrameKinds
  <2>2. CASE flowing /\ ended
    BY <2>1, <2>2, FewFrames
  <2>3. CASE ~(flowing /\ ended)
    BY <2>3, FewFrames
  <2> QED
    BY <2>2, <2>3
<1> HIDE DEF frames, new
<1>5. stack' \in Seq(Frames) /\ ToSet(stack') = ToSet(stack) \cup new
  BY <1>1, <1>4, CallStack
<1>6. \/ endSent' = endSent
      \/ endSent' = TRUE /\ before >= 0 /\ ~destroyed /\ (flowing \/ pausedInFlow)
  <2>1. endSent' = (endSent \/ (flowing /\ ended))
    BY DEF OnEnd
  <2>2. CASE flowing /\ ended
    BY <1>1, <2>1, <2>2 DEF IInv, Ends
  <2>3. CASE ~(flowing /\ ended)
    BY <1>1, <2>1, <2>3 DEF TypeOK
  <2> QED
    BY <2>2, <2>3
<1>7. \A f \in new : f.kind \notin {"flowData", "dataFlowed", "errorLoop", "endRest"} /\ f.kind \notin Flows
  BY <1>4 DEF Flows
<1> QED
  BY <1>1, <1>2, <1>3, <1>4, <1>5, <1>6, <1>7, QuietIInv

LEMMA OnErrorIInv == ASSUME IInv, OnError PROVE IInv'
<1> DEFINE frames == IF flowing THEN <<Rest("flowErrors")>> ELSE <<>>
           new == IF flowing THEN {Rest("flowErrors")} ELSE {}
<1>1. TypeOK /\ MayCall /\ Running # "flowData" /\ ~destroyed /\ Call(frames)
  BY Calls DEF IInv, OnError, Listens
<1>2. UNCHANGED <<flowing, ended, destroyed, buffers, counts, sent, heard, before, endSent, pausedInFlow>>
  BY DEF OnError, Listens
<1>3. listeners' \in [Events -> Nat]
  BY <1>1 DEF OnError, Listens, TypeOK, Events
<1>4. /\ frames \in Seq(Frames) /\ ToSet(frames) = new /\ new \in SUBSET Frames
      /\ \A f \in new : f.kind = "flowErrors" /\ flowing
  <2>1. Rest("flowErrors") \in Frames /\ Rest("flowErrors").kind = "flowErrors"
    BY FrameTypes DEF FrameKinds, Flows
  <2>2. CASE flowing
    BY <2>1, <2>2, FewFrames
  <2>3. CASE ~flowing
    BY <2>3, FewFrames
  <2> QED
    BY <2>2, <2>3
<1> HIDE DEF frames, new
<1>5. stack' \in Seq(Frames) /\ ToSet(stack') = ToSet(stack) \cup new
  BY <1>1, <1>4, CallStack
<1> QED
  BY <1>1, <1>2, <1>3, <1>4, <1>5, QuietIInv

LEMMA RemoveListenerIInv ==
    ASSUME IInv, NEW event \in Events, RemoveListener(event)
    PROVE  IInv'
<1>1. /\ TypeOK /\ MayCall /\ Running # "flowData" /\ ~destroyed
      /\ listeners[event] > 0 /\ listeners' = [listeners EXCEPT ![event] = @ - 1]
      /\ UNCHANGED <<buffers, flowing, ended, destroyed, counts, history, stack>>
  BY Calls DEF IInv, RemoveListener
<1>2. listeners' \in [Events -> Nat] /\ stack' \in Seq(Frames)
  BY <1>1 DEF TypeOK
<1> QED
  BY <1>1, <1>2, BareIInv

LEMMA FlowErrorsIInv == ASSUME IInv, FlowErrors PROVE IInv'
<1> DEFINE frames == IF listeners["error"] > 0 THEN <<Frame("errorLoop", 1)>> ELSE <<>>
           new == IF listeners["error"] > 0 THEN {Frame("errorLoop", 1)} ELSE {}
<1>1. TypeOK /\ Running = "flowErrors" /\ Continue(frames) /\ UNCHANGED <<buffers, state, counts, history>>
  BY DEF IInv, FlowErrors
<1>2. /\ frames \in Seq(Frames) /\ ToSet(frames) = new /\ new \in SUBSET Frames
      /\ \A f \in new : f.kind = "errorLoop" /\ f.n = 1
  <2>1. /\ Frame("errorLoop", 1) \in Frames
        /\ Frame("errorLoop", 1).kind = "errorLoop" /\ Frame("errorLoop", 1).n = 1
    BY FrameTypes DEF FrameKinds, Flows
  <2>2. CASE listeners["error"] > 0
    BY <2>1, <2>2, FewFrames
  <2>3. CASE ~(listeners["error"] > 0)
    BY <2>3, FewFrames
  <2> QED
    BY <2>2, <2>3
<1> HIDE DEF frames, new
<1>3. /\ stack # <<>> /\ stack' \in Seq(Frames) /\ ToSet(stack') = ToSet(Front(stack)) \cup new
      /\ flowing \/ pausedInFlow
  BY <1>1, <1>2, Resumes DEF IInv, FlowsRun, Flows
<1>4. listeners' \in [Events -> Nat] /\ (destroyed => listeners'["end"] = 0)
  BY <1>1 DEF IInv, TypeOK, Ends, state
<1> QED
  BY <1>1, <1>2, <1>3, <1>4, QuietIInv DEF state, history

\* flowEnd(): while a flow is in progress the stream flows, unless it was paused.
LEMMA FlowEndIInv == ASSUME IInv, FlowEnd PROVE IInv'
<1> DEFINE frames == IF ended THEN <<Emission("end")>> ELSE <<>>
           new == IF ended THEN {Emission("end")} ELSE {}
<1>1. /\ TypeOK /\ Running = "flowEnd" /\ Continue(frames)
      /\ endSent' = (endSent \/ (ended /\ listeners["end"] > 0))
      /\ UNCHANGED <<buffers, state, counts, sent, heard, before, pausedInFlow>>
  BY DEF IInv, FlowEnd
<1>2. /\ frames \in Seq(Frames) /\ ToSet(frames) = new /\ new \in SUBSET Frames
      /\ \A f \in new : f.kind = "emit"
  <2>1. Emission("end") \in Frames /\ Emission("end").kind = "emit"
    BY <1>1, FrameTypes DEF Events
  <2>2. CASE ended
    BY <2>1, <2>2, FewFrames
  <2>3. CASE ~ended
    BY <2>3, FewFrames
  <2> QED
    BY <2>2, <2>3
<1> HIDE DEF frames, new
<1>3. /\ stack # <<>> /\ stack' \in Seq(Frames) /\ ToSet(stack') = ToSet(Front(stack)) \cup new
      /\ flowing \/ pausedInFlow
  BY <1>1, <1>2, Resumes DEF IInv, FlowsRun, Flows
<1>4. listeners' \in [Events -> Nat] /\ (destroyed => listeners'["end"] = 0)
  BY <1>1 DEF IInv, TypeOK, Ends, state
<1>5. \/ endSent' = endSent
      \/ endSent' = TRUE /\ before >= 0 /\ ~destroyed /\ (flowing \/ pausedInFlow)
  <2>1. CASE ended /\ listeners["end"] > 0
    <3>1. ~destroyed
      BY <2>1, 0 > 0 <=> FALSE DEF IInv, Ends
    <3>2. before >= 0
      BY <2>1, <3>1 DEF IInv, Ends
    <3>3. endSent' = TRUE
      BY <1>1, <2>1
    <3> QED
      BY <1>3, <3>1, <3>2, <3>3
  <2>2. CASE ~(ended /\ listeners["end"] > 0)
    BY <1>1, <2>2 DEF TypeOK
  <2> QED
    BY <2>1, <2>2
<1>6. \A f \in new : f.kind \notin {"flowData", "dataFlowed", "errorLoop", "endRest"} /\ f.kind \notin Flows
  BY <1>2 DEF Flows
<1> QED
  BY <1>1, <1>2, <1>3, <1>4, <1>5, <1>6, QuietIInv DEF state

\* end(): a stream that flows emits its end, another one remembers it.
LEMMA EndRestIInv == ASSUME IInv, EndRest PROVE IInv'
<1> DEFINE frames == IF flowing THEN <<Rest("destroy"), Emission("end")>> ELSE <<>>
           new == IF flowing THEN {Rest("destroy"), Emission("end")} ELSE {}
<1>1. /\ TypeOK /\ Running = "endRest" /\ Continue(frames)
      /\ UNCHANGED <<flowing, destroyed, listeners, buffers, counts, sent, heard, before, pausedInFlow>>
  BY DEF IInv, EndRest
<1>2. /\ frames \in Seq(Frames) /\ ToSet(frames) = new /\ new \in SUBSET Frames
      /\ \A f \in new : f.kind \in {"destroy", "emit"}
  <2>1. /\ Rest("destroy") \in Frames /\ Rest("destroy").kind = "destroy"
        /\ Emission("end") \in Frames /\ Emission("end").kind = "emit"
    BY <1>1, FrameTypes DEF FrameKinds, Events
  <2>2. CASE flowing
    BY <2>1, <2>2, FewFrames
  <2>3. CASE ~flowing
    BY <2>3, FewFrames
  <2> QED
    BY <2>2, <2>3
<1> HIDE DEF frames, new
<1>3. /\ stack # <<>> /\ stack' \in Seq(Frames) /\ ToSet(stack') = ToSet(Front(stack)) \cup new
      /\ Last(stack) \in ToSet(stack) /\ Last(stack).kind = "endRest"
  BY <1>1, <1>2, Resumes
<1>4. before >= 0
  BY <1>3 DEF IInv, Ends
<1>5. listeners' \in [Events -> Nat] /\ (destroyed => listeners'["end"] = 0)
  BY <1>1 DEF IInv, TypeOK, Ends
<1>6. (ended' = ended) \/ (ended' = TRUE /\ before >= 0)
  BY <1>4 DEF EndRest
<1>7. \/ endSent' = endSent
      \/ endSent' = TRUE /\ before >= 0 /\ ~destroyed /\ (flowing \/ pausedInFlow)
  <2>1. CASE flowing /\ listeners["end"] > 0
    <3>1. ~destroyed
      BY <2>1, 0 > 0 <=> FALSE DEF IInv, Ends
    <3>2. endSent' = TRUE
      BY <2>1 DEF EndRest
    <3> QED
      BY <1>4, <2>1, <3>1, <3>2
  <2>2. CASE ~(flowing /\ listeners["end"] > 0)
    BY <1>1, <2>2 DEF TypeOK, EndRest
  <2> QED
    BY <2>1, <2>2
<1>8. \A f \in new : f.kind \notin {"flowData", "dataFlowed", "errorLoop", "endRest"} /\ f.kind \notin Flows
  BY <1>2 DEF Flows
<1> QED
  BY <1>1, <1>2, <1>3, <1>5, <1>6, <1>7, <1>8, QuietIInv

LEMMA DeliverIInv == ASSUME IInv, Deliver PROVE IInv'
<1> DEFINE left == Last(stack).n
           frames == IF left = 0 THEN <<>> ELSE <<Frame("emit", left - 1), Rest("listener")>>
           new == IF left = 0 THEN {} ELSE {Frame("emit", left - 1), Rest("listener")}
<1>1. TypeOK /\ Running = "emit" /\ Continue(frames) /\ UNCHANGED <<buffers, state, counts, history>>
  BY DEF IInv, Deliver
<1>2. left \in Nat
  BY <1>1, RunningFrame DEF Frames
<1>3. /\ frames \in Seq(Frames) /\ ToSet(frames) = new /\ new \in SUBSET Frames
      /\ \A f \in new : f.kind \in {"emit", "listener"}
  <2>1. Rest("listener") \in Frames /\ Rest("listener").kind = "listener"
    BY FrameTypes DEF FrameKinds
  <2>2. CASE left = 0
    BY <2>2, FewFrames
  <2>3. CASE left # 0
    <3>1. left - 1 \in Nat /\ "emit" \in FrameKinds
      BY <1>2, <2>3 DEF FrameKinds
    <3>2. Frame("emit", left - 1) \in Frames /\ Frame("emit", left - 1).kind = "emit"
      BY <3>1, FrameTypes
    <3> QED
      BY <2>1, <2>3, <3>2, FewFrames
  <2> QED
    BY <2>2, <2>3
<1> HIDE DEF frames, new
<1>4. stack # <<>> /\ stack' \in Seq(Frames) /\ ToSet(stack') = ToSet(Front(stack)) \cup new
  BY <1>1, <1>3, Resumes
<1>5. listeners' \in [Events -> Nat] /\ (destroyed => listeners'["end"] = 0)
  BY <1>1 DEF IInv, TypeOK, Ends, state
<1>6. \A f \in new : f.kind \notin {"flowData", "dataFlowed", "errorLoop", "endRest"} /\ f.kind \notin Flows
  BY <1>3 DEF Flows
<1> QED
  BY <1>1, <1>3, <1>4, <1>5, <1>6, QuietIInv DEF state, history

-----------------------------------------------------------------------------
(* The theorems.                                                           *)

LEMMA NextIInv == IInv /\ [Next]_vars => IInv'
<1> SUFFICES ASSUME IInv, [Next]_vars PROVE IInv'
  OBVIOUS
<1>1. CASE Write
  <2> DEFINE rest == <<>>
  <2>1. rest \in Seq(Frames) /\ (\A f \in ToSet(rest) : FALSE)
    BY FewFrames
  <2>2. MayCall /\ WriteThen(rest) /\ before' = before
    BY <1>1 DEF Write
  <2> HIDE DEF rest
  <2> QED
    BY <2>1, <2>2, WriteIInv
<1>2. CASE Error
  BY <1>2, ErrorIInv
<1>3. CASE End
  BY <1>3, EndIInv
<1>4. CASE Pause
  BY <1>4, PauseIInv
<1>5. CASE Resume
  BY <1>5, ResumeIInv
<1>6. CASE Destroy
  BY <1>6, DestroyIInv
<1>7. CASE OnData
  BY <1>7, OnDataIInv
<1>8. CASE OnEnd
  BY <1>8, OnEndIInv
<1>9. CASE OnError
  BY <1>9, OnErrorIInv
<1>10. CASE \E event \in Events : RemoveListener(event)
  BY <1>10, RemoveListenerIInv
<1>11. CASE FlowData
  BY <1>11, FlowDataIInv
<1>12. CASE DataFlowed
  BY <1>12, DataFlowedIInv
<1>13. CASE FlowErrors
  BY <1>13, FlowErrorsIInv
<1>14. CASE ErrorLoop
  BY <1>14, ErrorLoopIInv
<1>15. CASE FlowEnd
  BY <1>15, FlowEndIInv
<1>16. CASE EndHeard
  BY <1>16, EndHeardIInv
<1>17. CASE EndRest
  BY <1>17, EndRestIInv
<1>18. CASE EndDestroys
  BY <1>18, EndDestroysIInv
<1>19. CASE Deliver
  BY <1>19, DeliverIInv
<1>20. CASE ListenerReturn
  BY <1>20, ListenerReturnIInv
<1>21. CASE UNCHANGED vars
  <2>1. /\ UNCHANGED <<data, errors, pending, told, released, flowing, ended, destroyed, listeners>>
        /\ UNCHANGED <<written, raised, sent, heard, before, endSent, pausedInFlow, stack>>
    BY <1>21 DEF vars, buffers, promises, state, counts, history
  <2> QED
    BY <2>1 DEF IInv, TypeOK, Top, Running, FlowsRun, Emptied, Steady, InFlight, DataKept, Visited,
                ErrorsKept, Ends, EndAfterData, WritersWaitForData, Forsaken
<1> QED
  BY <1>1, <1>2, <1>3, <1>4, <1>5, <1>6, <1>7, <1>8, <1>9, <1>10, <1>11, <1>12, <1>13, <1>14,
     <1>15, <1>16, <1>17, <1>18, <1>19, <1>20, <1>21 DEF Next

\* The invariant holds in every state of the stream.
THEOREM Invariance == Spec => []IInv
BY InitIInv, NextIInv, PTL DEF Spec

\* Chunks are emitted in the order they were written, none twice and none lost,
\* and no error is forgotten, whatever listeners do to the stream while it emits,
\* short of pausing it (stream.ts:228-261, 394-417): NothingLost.
THEOREM Lossless == Spec => []NothingLost
<1>1. IInv => NothingLost
  BY DEF IInv, DataKept, ErrorsKept, NothingLost
<1> QED
  BY <1>1, Invariance, PTL

\* No listener hears of the end before all that was written before end() has been
\* emitted (stream.ts:263-284, 419-427): EndAfterData.
THEOREM DataFirst == Spec => []EndAfterData
<1>1. IInv => EndAfterData
  BY DEF IInv
<1> QED
  BY <1>1, Invariance, PTL

\* A writer that is told to wait waits for a buffer that a resume() empties, it is
\* released after its chunk was emitted, and it is released then unless destroy()
\* has dropped its promise, which nothing resolves afterwards (stream.ts:237-242,
\* 374, 402-405): WritersWaitForData.
THEOREM WritersReleased == Spec => []WritersWaitForData
<1>1. IInv => WritersWaitForData
  BY DEF IInv
<1> QED
  BY <1>1, Invariance, PTL
=============================================================================
