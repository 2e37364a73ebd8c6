--------------------------- MODULE EmitterProofs ---------------------------
(***************************************************************************)
(* What Emitter guarantees for any number of listeners and events.         *)
(*                                                                         *)
(* EmissionOrder is not inductive: it must be known of the pairs that are  *)
(* still queued too.  The inductive invariant states it of the whole trace *)
(* `received \o queue', which a delivery leaves as it is and an emission   *)
(* extends by a round of pairs that carry a newer event and, as no entry   *)
(* occurs twice in `listeners', different listeners.  ExactAudience speaks *)
(* of the moments when no emit() runs; in between, what is not received is *)
(* still queued (Reaches), and a queue is never left without a drain loop  *)
(* that will empty it (Drained).                                           *)
(*                                                                         *)
(* The lemmas about Delivery and Reaches leave the call stack out, so that *)
(* they serve the classes that emit through an Emitter as well.            *)
(***************************************************************************)
EXTENDS Emitter, SequenceTheorems, TLAPS

\* No entry occurs twice in the Set of listeners.
Distinct(s) == \A i, j \in 1..Len(s) : i # j => s[i] # s[j]

\* The pairs of a trace carry events up to n, in order, and no pair twice.
Ordered(t, n) ==
    /\ \A i \in 1..Len(t) : t[i][2] <= n
    /\ \A i, j \in 1..Len(t) : i < j =>
          /\ t[i][2] <= t[j][2]
          /\ t[i][1] = t[j][1] => t[i][2] < t[j][2]

Trace == received \o queue

\* The delivery, whoever calls emit().
Delivery ==
    /\ listeners \in Seq(Listeners) /\ Distinct(listeners)
    /\ handles \subseteq Listeners
    /\ disposed \in BOOLEAN /\ hooked \in BOOLEAN
    /\ queue \in Seq(Pairs) /\ received \in Seq(Pairs)
    /\ emitted \in 0..MaxEvents
    /\ audience \in [1..MaxEvents -> SUBSET Listeners]
    /\ Ordered(Trace, emitted)

\* What is received or queued is for the audience, and nobody is left out.
Reaches ==
    /\ \A i \in 1..Len(Trace) :
          Trace[i][2] \in 1..emitted /\ Trace[i][1] \in audience[Trace[i][2]]
    /\ \A e \in 1..MaxEvents : \A l \in audience[e] :
          e <= emitted /\ \E i \in 1..Len(Trace) : Trace[i] = <<l, e>>

Drained == queue # <<>> => \E f \in ToSet(stack) : f.kind = "emit"

IInv ==
    /\ Delivery
    /\ Reaches
    /\ Drained
    /\ stack \in Seq(Frames)

-----------------------------------------------------------------------------
(* The helpers on sequences.                                               *)

\* Adding an entry keeps the listeners a sequence without repetition.
LEMMA AddedDistinct ==
    ASSUME NEW l \in Listeners, listeners \in Seq(Listeners), Distinct(listeners)
    PROVE  Added(l) \in Seq(Listeners) /\ Distinct(Added(l))
<1>1. CASE l \in ToSet(listeners)
  BY <1>1 DEF Added
<1>2. CASE l \notin ToSet(listeners)
  <2>1. Added(l) = Append(listeners, l)
    BY <1>2 DEF Added
  <2>2. \A i \in 1..Len(listeners) : listeners[i] # l
    BY <1>2 DEF ToSet
  <2> QED
    BY <2>1, <2>2, AppendProperties DEF Distinct
<1> QED
  BY <1>1, <1>2

\* Removing an entry keeps the listeners a sequence without repetition.
LEMMA RemovedDistinct ==
    ASSUME NEW l \in Listeners, listeners \in Seq(Listeners), Distinct(listeners)
    PROVE  Removed(l) \in Seq(Listeners) /\ Distinct(Removed(l))
<1>1. CASE l \notin ToSet(listeners)
  BY <1>1 DEF Removed
<1>2. CASE l \in ToSet(listeners)
  <2> DEFINE k == CHOOSE i \in DOMAIN listeners : listeners[i] = l
             a == SubSeq(listeners, 1, k - 1)
             b == SubSeq(listeners, k + 1, Len(listeners))
  <2>1. k \in 1..Len(listeners)
    BY <1>2 DEF ToSet
  <2>2. Removed(l) = a \o b
    BY <1>2 DEF Removed, RemoveAt
  <2> HIDE DEF k
  <2>3. /\ a \in Seq(Listeners)
        /\ Len(a) = k - 1
        /\ \A i \in 1..k-1 : a[i] = listeners[i]
    BY <2>1, SubSeqProperties
  <2>4. /\ b \in Seq(Listeners)
        /\ Len(b) = Len(listeners) - k
        /\ \A i \in 1..Len(b) : b[i] = listeners[k + i]
    BY <2>1, SubSeqProperties
  <2> HIDE DEF a, b
  <2>5. /\ a \o b \in Seq(Listeners)
        /\ Len(a \o b) = Len(a) + Len(b)
        /\ \A i \in 1..Len(a \o b) : (a \o b)[i] = IF i <= Len(a) THEN a[i] ELSE b[i - Len(a)]
    BY <2>3, <2>4, ConcatProperties
  <2>6. \A i \in 1..Len(a \o b) : (a \o b)[i] = listeners[IF i < k THEN i ELSE i + 1]
    BY <2>1, <2>3, <2>4, <2>5, SMTT(30)
  <2>7. ASSUME NEW i \in 1..Len(a \o b), NEW j \in 1..Len(a \o b), i # j
        PROVE  (a \o b)[i] # (a \o b)[j]
    <3> DEFINE at(n) == IF n < k THEN n ELSE n + 1
    <3>1. at(i) \in 1..Len(listeners) /\ at(j) \in 1..Len(listeners) /\ at(i) # at(j)
      BY <2>1, <2>3, <2>4, <2>5, <2>7
    <3>2. (a \o b)[i] = listeners[at(i)] /\ (a \o b)[j] = listeners[at(j)]
      BY <2>6
    <3> QED
      BY <3>1, <3>2 DEF Distinct
  <2>8. Distinct(a \o b)
    BY <2>7 DEF Distinct
  <2> QED
    BY <2>2, <2>5, <2>8
<1> QED
  BY <1>1, <1>2

\* A round is a sequence of pairs, one per listener.
LEMMA RoundType ==
    ASSUME NEW e \in Nat \ {0}, listeners \in Seq(Listeners)
    PROVE  /\ Round(e) \in Seq(Pairs)
           /\ Len(Round(e)) = Len(listeners)
           /\ \A i \in 1..Len(listeners) : Round(e)[i] = <<listeners[i], e>>
BY DEF Round, Pairs

\* A trace up to event n extended by pairs of one later event m, all of them
\* for different listeners, is a trace up to m.
LEMMA OrderedConcat ==
    ASSUME NEW n \in Nat, NEW m \in Nat, n < m,
           NEW t \in Seq(Pairs), Ordered(t, n),
           NEW r \in Seq(Pairs),
           \A i \in 1..Len(r) : r[i][2] = m,
           \A i, j \in 1..Len(r) : i # j => r[i][1] # r[j][1]
    PROVE  Ordered(t \o r, m)
<1> DEFINE u == t \o r
<1>1. Len(t) \in Nat /\ Len(r) \in Nat /\ Len(u) = Len(t) + Len(r)
  BY ConcatProperties, LenProperties
<1>2. \A i \in 1..Len(t) : u[i] = t[i] /\ t[i][2] \in Nat /\ t[i][2] <= n
  BY <1>1, ConcatProperties, ElementOfSeq DEF Ordered, Pairs
<1>3. \A i \in 1..Len(u) : i > Len(t) => i - Len(t) \in 1..Len(r) /\ u[i] = r[i - Len(t)]
  BY <1>1, ConcatProperties
<1> HIDE DEF u
<1>4. ASSUME NEW i \in 1..Len(u) PROVE u[i][2] <= m
  <2>1. CASE i <= Len(t)
    BY <2>1, <1>1, <1>2
  <2>2. CASE i > Len(t)
    BY <2>2, <1>3
  <2> QED
    BY <2>1, <2>2, <1>1
<1>5. ASSUME NEW i \in 1..Len(u), NEW j \in 1..Len(u), i < j
      PROVE  u[i][2] <= u[j][2] /\ (u[i][1] = u[j][1] => u[i][2] < u[j][2])
  <2>1. CASE j <= Len(t)
    BY <2>1, <1>5, <1>1, <1>2 DEF Ordered
  <2>2. CASE i <= Len(t) /\ j > Len(t)
    <3>1. u[i][2] \in Nat /\ u[i][2] <= n
      BY <2>2, <1>1, <1>2
    <3>2. u[j][2] = m
      BY <2>2, <1>3
    <3> QED
      BY <3>1, <3>2
  <2>3. CASE i > Len(t)
    <3>1. /\ i - Len(t) \in 1..Len(r) /\ u[i] = r[i - Len(t)]
          /\ j - Len(t) \in 1..Len(r) /\ u[j] = r[j - Len(t)]
          /\ i - Len(t) # j - Len(t)
      BY <2>3, <1>1, <1>3, <1>5
    <3> QED
      BY <3>1, SMTT(30)
  <2> QED
    BY <2>1, <2>2, <2>3, <1>1, <1>5
<1> QED
  BY <1>4, <1>5 DEF Ordered, u

\* Where the last frame of a call stack goes, and which others stay.
LEMMA FrontLast ==
    ASSUME NEW S, NEW s \in Seq(S), s # <<>>
    PROVE  /\ Front(s) \in Seq(S) /\ Last(s) \in S
           /\ Len(s) \in Nat \ {0} /\ Len(Front(s)) = Len(s) - 1
           /\ \A i \in 1..Len(s) - 1 : Front(s)[i] = s[i]
           /\ ToSet(s) = ToSet(Front(s)) \cup {Last(s)}
<1>1. Len(s) \in Nat \ {0} /\ DOMAIN s = 1..Len(s)
  BY EmptySeq, LenProperties
<1>2. /\ Front(s) \in Seq(S)
      /\ Len(Front(s)) = Len(s) - 1
      /\ \A i \in 1..Len(s) - 1 : Front(s)[i] = s[i]
  BY <1>1, SubSeqProperties, ElementOfSeq DEF Front
<1>3. DOMAIN Front(s) = 1..Len(s) - 1
  BY <1>2, LenProperties
<1>4. Last(s) \in S
  BY <1>1, ElementOfSeq DEF Last
<1> QED
  BY <1>1, <1>2, <1>3, <1>4 DEF ToSet, Last

LEMMA AppendIs ==
    ASSUME NEW S, NEW s \in Seq(S), NEW x \in S
    PROVE  /\ Append(s, x) \in Seq(S) /\ Append(s, x) # <<>>
           /\ Len(s) \in Nat /\ Len(Append(s, x)) = Len(s) + 1
           /\ \A i \in 1..Len(s) : Append(s, x)[i] = s[i]
           /\ Append(s, x)[Len(s) + 1] = x
           /\ Last(Append(s, x)) = x
           /\ ToSet(Append(s, x)) = ToSet(s) \cup {x}
<1>1. Len(s) \in Nat /\ DOMAIN s = 1..Len(s)
  BY LenProperties
<1>2. /\ Append(s, x) \in Seq(S) /\ Append(s, x) # <<>>
      /\ Len(Append(s, x)) = Len(s) + 1
      /\ \A i \in 1..Len(s) : Append(s, x)[i] = s[i]
      /\ Append(s, x)[Len(s) + 1] = x
  BY AppendProperties
<1>3. DOMAIN Append(s, x) = 1..Len(s) + 1
  BY <1>2, LenProperties
<1> QED
  BY <1>1, <1>2, <1>3 DEF ToSet, Last

\* Where the elements of a concatenation come from.
LEMMA ConcatAt ==
    ASSUME NEW s \in Seq(Pairs), NEW r \in Seq(Pairs)
    PROVE  /\ Len(s \o r) = Len(s) + Len(r)
           /\ \A i \in 1..Len(s \o r) : (s \o r)[i] = IF i <= Len(s) THEN s[i] ELSE r[i - Len(s)]
BY ConcatProperties

-----------------------------------------------------------------------------
(* The kinds of step, and what they do to the delivery.                    *)

\* A step that changes who listens but nothing of the delivery.
LEMMA OtherDelivery ==
    ASSUME Delivery, Reaches,
           listeners' \in Seq(Listeners), Distinct(listeners'),
           handles' \subseteq Listeners, hooked' \in BOOLEAN, disposed' \in BOOLEAN,
           UNCHANGED <<queue, emitted, audience, received>>
    PROVE  Delivery' /\ Reaches'
<1>1. Trace' = Trace
  BY DEF Trace
<1> QED
  BY <1>1 DEF Delivery, Reaches, Ordered, Distinct

\* An emission to somebody makes the listeners its audience and adds their round.
LEMMA EmissionTrace ==
    ASSUME Delivery, emitted' = emitted + 1, received' = received, queue' = queue \o Round(emitted + 1)
    PROVE  /\ Round(emitted + 1) \in Seq(Pairs) /\ Len(Round(emitted + 1)) = Len(listeners)
           /\ \A i \in 1..Len(listeners) : Round(emitted + 1)[i] = <<listeners[i], emitted + 1>>
           /\ Trace \in Seq(Pairs) /\ queue' \in Seq(Pairs) /\ Trace' = Trace \o Round(emitted + 1)
           /\ Len(Trace) \in Nat /\ Len(Trace') = Len(Trace) + Len(listeners)
           /\ \A i \in 1..Len(Trace) : Trace'[i] = Trace[i]
           /\ \A i \in 1..Len(listeners) : Trace'[Len(Trace) + i] = <<listeners[i], emitted + 1>>
<1> DEFINE r == Round(emitted + 1)
<1>1. emitted + 1 \in Nat \ {0} /\ listeners \in Seq(Listeners)
  BY EmitterAssumption DEF Delivery
<1>2. queue' = queue \o r
  OBVIOUS
<1>3. /\ r \in Seq(Pairs)
      /\ Len(r) = Len(listeners)
      /\ \A i \in 1..Len(listeners) : r[i] = <<listeners[i], emitted + 1>>
  BY <1>1, RoundType
<1> HIDE DEF r
<1>4. received \in Seq(Pairs) /\ queue \in Seq(Pairs) /\ Trace \in Seq(Pairs) /\ queue' \in Seq(Pairs)
  BY <1>2, <1>3, ConcatProperties DEF Delivery, Trace
<1>5. Trace' = Trace \o r
  <2>1. r \in Seq(Pairs) /\ received \in Seq(Pairs) /\ queue \in Seq(Pairs)
    BY <1>3, <1>4
  <2>2. (received \o queue) \o r = received \o (queue \o r)
    BY <2>1, ConcatAssociative, SMTT(30)
  <2> QED
    BY <1>2, <2>2 DEF Trace
<1>6. /\ Len(Trace \o r) = Len(Trace) + Len(r)
      /\ \A i \in 1..Len(Trace \o r) :
            (Trace \o r)[i] = IF i <= Len(Trace) THEN Trace[i] ELSE r[i - Len(Trace)]
  BY <1>3, <1>4, ConcatAt
<1>7. Len(Trace) \in Nat /\ Len(listeners) \in Nat
  BY <1>1, <1>4, LenProperties
<1>8. /\ Len(Trace') = Len(Trace) + Len(listeners)
      /\ \A i \in 1..Len(Trace) : Trace'[i] = Trace[i]
      /\ \A i \in 1..Len(listeners) : Trace'[Len(Trace) + i] = <<listeners[i], emitted + 1>>
  BY <1>3, <1>5, <1>6, <1>7
<1> QED
  BY <1>3, <1>4, <1>5, <1>7, <1>8 DEF r

\* Where the order of the events comes from: the round of a new event goes to
\* the end of the trace.
LEMMA EmitDelivery ==
    ASSUME Delivery, Reaches,
           emitted < MaxEvents, emitted' = emitted + 1,
           UNCHANGED <<listeners, handles, disposed, hooked, received>>,
           IF HasListeners
           THEN queue' = queue \o Round(emitted + 1) /\ audience' = [audience EXCEPT ![emitted + 1] = ToSet(listeners)]
           ELSE UNCHANGED <<queue, audience>>
    PROVE  Delivery' /\ Reaches'
<1>1. emitted \in Nat /\ emitted + 1 \in 1..MaxEvents /\ emitted' = emitted + 1
  BY EmitterAssumption DEF Delivery
<1>2. Trace \in Seq(Pairs)
  BY ConcatProperties DEF Delivery, Trace
<1>3. CASE ~HasListeners
  <2>1. UNCHANGED <<queue, audience>>
    BY <1>3
  <2>2. Trace' = Trace
    BY <2>1 DEF Trace
  <2>3. Ordered(Trace, emitted + 1)
    <3>1. \A i \in 1..Len(Trace) : Trace[i][2] \in Nat
      BY <1>2, ElementOfSeq DEF Pairs
    <3>2. Ordered(Trace, emitted)
      BY DEF Delivery
    <3> QED
      BY <1>1, <3>1, <3>2 DEF Ordered
  <2>4. Delivery'
    BY <1>1, <2>1, <2>2, <2>3 DEF Delivery, Distinct
  <2>5. \A i \in 1..Len(Trace) : Trace[i][2] \in 1..(emitted + 1)
    BY <1>1 DEF Reaches
  <2>6. \A e \in 1..MaxEvents : \A l \in audience[e] : e <= emitted + 1
    BY <1>1 DEF Reaches
  <2> QED
    BY <1>1, <2>1, <2>2, <2>4, <2>5, <2>6 DEF Reaches
<1>4. CASE HasListeners
  <2> DEFINE r == Round(emitted + 1)
  <2>1. queue' = queue \o r /\ audience' = [audience EXCEPT ![emitted + 1] = ToSet(listeners)]
    BY <1>4
  <2>2. /\ r \in Seq(Pairs) /\ Len(r) = Len(listeners)
        /\ \A i \in 1..Len(listeners) : r[i] = <<listeners[i], emitted + 1>>
        /\ queue' \in Seq(Pairs) /\ Trace' = Trace \o r
        /\ Len(Trace) \in Nat /\ Len(Trace') = Len(Trace) + Len(listeners)
        /\ \A i \in 1..Len(Trace) : Trace'[i] = Trace[i]
        /\ \A i \in 1..Len(listeners) : Trace'[Len(Trace) + i] = <<listeners[i], emitted + 1>>
    BY <2>1, EmissionTrace
  <2> HIDE DEF r
  <2>3. /\ listeners \in Seq(Listeners) /\ Len(listeners) \in Nat
        /\ ToSet(listeners) = {listeners[i] : i \in 1..Len(listeners)}
        /\ audience \in [1..MaxEvents -> SUBSET Listeners]
    BY LenProperties DEF Delivery, ToSet
  <2>4. Ordered(Trace \o r, emitted + 1)
    <3>1. \A i \in 1..Len(r) : r[i][2] = emitted + 1
      BY <2>2
    <3>2. \A i, j \in 1..Len(r) : i # j => r[i][1] # r[j][1]
      BY <2>2, SMTT(30) DEF Delivery, Distinct
    <3>3. emitted + 1 \in Nat /\ emitted < emitted + 1
      BY <1>1
    <3>4. Ordered(Trace, emitted)
      BY DEF Delivery
    <3> QED
      BY <1>1, <1>2, <2>2, <3>1, <3>2, <3>3, <3>4, OrderedConcat
  <2>5. Delivery'
    <3>1. ToSet(listeners) \subseteq Listeners
      BY <2>3, ElementOfSeq
    <3>2. audience' \in [1..MaxEvents -> SUBSET Listeners]
      BY <2>1, <2>3, <3>1
    <3> QED
      BY <1>1, <2>2, <2>4, <3>2 DEF Delivery, Distinct
  <2>6. ASSUME NEW i \in 1..Len(Trace')
        PROVE  Trace'[i][2] \in 1..emitted' /\ Trace'[i][1] \in audience'[Trace'[i][2]]
    <3>1. CASE i <= Len(Trace)
      <4>1. Trace[i][2] \in 1..emitted /\ Trace[i][1] \in audience[Trace[i][2]]
        BY <3>1, <2>2 DEF Reaches
      <4>2. Trace'[i] = Trace[i] /\ audience'[Trace[i][2]] = audience[Trace[i][2]]
        BY <3>1, <4>1, <1>1, <2>1, <2>2, <2>3
      <4> QED
        BY <4>1, <4>2, <1>1
    <3>2. CASE i > Len(Trace)
      <4> DEFINE j == i - Len(Trace)
      <4>1. j \in 1..Len(listeners) /\ i = Len(Trace) + j
        BY <3>2, <2>2, <2>3
      <4>2. Trace'[i] = <<listeners[j], emitted + 1>>
        BY <4>1, <2>2
      <4>3. listeners[j] \in audience'[emitted + 1]
        BY <4>1, <1>1, <2>1, <2>3
      <4> QED
        BY <4>2, <4>3, <1>1
    <3> QED
      BY <3>1, <3>2, <2>2
  <2>7. ASSUME NEW e \in 1..MaxEvents, NEW l \in audience'[e]
        PROVE  e <= emitted' /\ \E i \in 1..Len(Trace') : Trace'[i] = <<l, e>>
    <3>1. CASE e = emitted + 1
      <4>1. PICK j \in 1..Len(listeners) : listeners[j] = l
        BY <3>1, <1>1, <2>1, <2>3
      <4>2. Len(Trace) + j \in 1..Len(Trace') /\ Trace'[Len(Trace) + j] = <<l, e>>
        BY <3>1, <4>1, <2>2, <2>3
      <4> QED
        BY <3>1, <4>2, <1>1
    <3>2. CASE e # emitted + 1
      <4>1. e <= emitted /\ \E i \in 1..Len(Trace) : Trace[i] = <<l, e>>
        BY <3>2, <2>1, <2>3 DEF Reaches
      <4>2. PICK i \in 1..Len(Trace) : Trace[i] = <<l, e>>
        BY <4>1
      <4>3. i \in 1..Len(Trace') /\ Trace'[i] = <<l, e>>
        BY <4>2, <2>2, <2>3
      <4> QED
        BY <4>1, <4>3, <1>1
    <3> QED
      BY <3>1, <3>2
  <2> QED
    BY <2>5, <2>6, <2>7 DEF Reaches
<1> QED
  BY <1>3, <1>4

\* A delivery moves the first queued pair to the end of `received'.
LEMMA DeliverDelivery ==
    ASSUME Delivery, Reaches,
           queue # <<>>, queue' = Tail(queue), received' = Append(received, Head(queue)),
           UNCHANGED <<listeners, handles, disposed, hooked, emitted, audience>>
    PROVE  Delivery' /\ Reaches'
<1>1. /\ Head(queue) \in Pairs
      /\ Tail(queue) \in Seq(Pairs)
      /\ Len(Tail(queue)) = Len(queue) - 1
      /\ \A i \in 1..Len(Tail(queue)) : Tail(queue)[i] = queue[i+1]
  BY HeadTailProperties DEF Delivery
<1>2. received' \in Seq(Pairs) /\ received' = received \o <<Head(queue)>>
  BY <1>1, AppendProperties, AppendIsConcat DEF Delivery
<1>3. queue = <<Head(queue)>> \o Tail(queue)
  BY <1>1, SMTT(30) DEF Delivery
<1>4. Trace' = Trace
  <2>1. (received \o <<Head(queue)>>) \o Tail(queue) = received \o (<<Head(queue)>> \o Tail(queue))
    BY <1>1, ConcatAssociative DEF Delivery
  <2> QED
    BY <1>2, <1>3, <2>1 DEF Trace
<1> QED
  BY <1>1, <1>2, <1>4 DEF Delivery, Reaches, Distinct

LEMMA InitDelivery == Init => Delivery /\ Reaches /\ Drained
<1> SUFFICES ASSUME Init PROVE Delivery /\ Reaches /\ Drained
  OBVIOUS
<1>1. listeners \in Seq(Listeners) /\ queue \in Seq(Pairs) /\ received \in Seq(Pairs)
  BY EmptySeq DEF Init
<1>2. audience \in [1..MaxEvents -> SUBSET Listeners] /\ emitted \in 0..MaxEvents
  BY EmitterAssumption DEF Init
<1>3. Trace = <<>>
  BY <1>1, ConcatEmptySeq DEF Init, Trace
<1>4. Delivery
  <2>1. Distinct(listeners)
    BY DEF Init, Distinct
  <2>2. Ordered(Trace, emitted)
    BY <1>3 DEF Ordered
  <2> QED
    BY <1>1, <1>2, <2>1, <2>2 DEF Init, Delivery
<1>5. Reaches
  BY <1>3 DEF Init, Reaches
<1>6. Drained
  BY DEF Init, Drained
<1> QED
  BY <1>4, <1>5, <1>6

-----------------------------------------------------------------------------
(* The actions.                                                            *)

LEMMA ListenersDelivery ==
    ASSUME Delivery, Reaches, NEW l \in Listeners, Subscribe(l) \/ Unsubscribe(l) \/ Dispose
    PROVE  Delivery' /\ Reaches'
<1>1. CASE Subscribe(l)
  <2>1. listeners' \in Seq(Listeners) /\ Distinct(listeners')
    BY <1>1, AddedDistinct DEF Delivery, Subscribe
  <2>2. handles' \subseteq Listeners /\ hooked' \in BOOLEAN
    BY <1>1 DEF Delivery, Subscribe
  <2> QED
    BY <1>1, <2>1, <2>2, OtherDelivery DEF Delivery, Subscribe
<1>2. CASE Unsubscribe(l)
  <2>1. listeners' \in Seq(Listeners) /\ Distinct(listeners')
    BY <1>2, RemovedDistinct DEF Delivery, Unsubscribe
  <2>2. handles' \subseteq Listeners /\ hooked' \in BOOLEAN
    BY <1>2 DEF Delivery, Unsubscribe
  <2> QED
    BY <1>2, <2>1, <2>2, OtherDelivery DEF Delivery, Unsubscribe
<1>3. CASE Dispose
  <2>1. listeners' \in Seq(Listeners) /\ Distinct(listeners')
    BY <1>3, EmptySeq DEF Dispose, Distinct
  <2> QED
    BY <1>3, <2>1, OtherDelivery DEF Delivery, Dispose
<1> QED
  BY <1>1, <1>2, <1>3

LEMMA EmitActionDelivery == ASSUME Delivery, Reaches, Emit PROVE Delivery' /\ Reaches'
<1>1. emitted < MaxEvents /\ emitted' = emitted + 1
  BY DEF Emit
<1>2. /\ UNCHANGED <<listeners, handles, disposed, hooked, received>>
      /\ IF HasListeners
         THEN queue' = queue \o Round(emitted + 1) /\ audience' = [audience EXCEPT ![emitted + 1] = ToSet(listeners)]
         ELSE UNCHANGED <<queue, audience>>
  BY DEF Emit, StartEmit, emitterVars
<1> QED
  BY <1>1, <1>2, EmitDelivery

LEMMA NextDelivery == Delivery /\ Reaches /\ [Next]_vars => Delivery' /\ Reaches'
<1> SUFFICES ASSUME Delivery, Reaches, [Next]_vars PROVE Delivery' /\ Reaches'
  OBVIOUS
<1>1. CASE \E l \in Listeners : Subscribe(l) \/ Unsubscribe(l)
  BY <1>1, ListenersDelivery
<1>2. CASE Dispose
  <2>1. listeners' \in Seq(Listeners) /\ Distinct(listeners')
    BY <1>2, EmptySeq DEF Dispose, Distinct
  <2> QED
    BY <1>2, <2>1, OtherDelivery DEF Delivery, Dispose
<1>3. CASE Emit
  BY <1>3, EmitActionDelivery
<1>4. CASE Deliver
  BY <1>4, DeliverDelivery DEF Deliver
<1>5. CASE EmitReturn \/ ListenerReturn \/ UNCHANGED vars
  BY <1>5, OtherDelivery DEF Delivery, EmitReturn, ListenerReturn, vars, emitterVars
<1> QED
  BY <1>1, <1>2, <1>3, <1>4, <1>5 DEF Next

\* The loop that drains the queue returns when the queue is empty; every other
\* call that returns leaves it on the stack.
LEMMA NextDrained ==
    ASSUME Drained, Delivery, NEW S, stack \in Seq(S), EmitFrame \in S,
           \A pair \in Pairs : CallFrame(pair) \in S, [Next]_vars
    PROVE  Drained' /\ stack' \in Seq(S)
<1>1. CASE Emit
  <2>1. CASE HasListeners
    <3>1. stack' = Append(stack, EmitFrame)
      BY <1>1, <2>1 DEF Emit, StartEmit
    <3> QED
      BY <3>1, AppendIs DEF Drained, EmitFrame
  <2>2. CASE ~HasListeners
    BY <1>1, <2>2 DEF Emit, StartEmit, emitterVars, Drained
  <2> QED
    BY <2>1, <2>2
<1>2. CASE Deliver
  <2>1. Head(queue) \in Pairs /\ queue # <<>>
    BY <1>2, HeadTailProperties DEF Deliver, Delivery
  <2>2. stack' = Append(stack, CallFrame(Head(queue)))
    BY <1>2 DEF Deliver
  <2> QED
    BY <2>1, <2>2, AppendIs DEF Drained
<1>3. CASE EmitReturn
  <2>1. stack # <<>> /\ stack' = Front(stack) /\ queue' = <<>>
    BY <1>3 DEF EmitReturn, Draining, Running
  <2> QED
    BY <2>1, FrontLast DEF Drained
<1>4. CASE ListenerReturn
  <2>1. stack # <<>> /\ stack' = Front(stack) /\ queue' = queue /\ Last(stack).kind = "listener"
    BY <1>4 DEF ListenerReturn, Running
  <2> QED
    BY <2>1, FrontLast DEF Drained
<1>5. CASE UNCHANGED <<stack, queue>>
  BY <1>5 DEF Drained
<1> QED
  BY <1>1, <1>2, <1>3, <1>4, <1>5 DEF Next, vars, emitterVars, Subscribe, Unsubscribe, Dispose

LEMMA InitIInv == Init => IInv
BY InitDelivery, EmptySeq DEF Init, IInv

LEMMA NextIInv == IInv /\ [Next]_vars => IInv'
<1> SUFFICES ASSUME IInv, [Next]_vars PROVE IInv'
  OBVIOUS
<1>1. Delivery' /\ Reaches'
  BY NextDelivery DEF IInv
<1>2. EmitFrame \in Frames /\ \A pair \in Pairs : CallFrame(pair) \in Frames
  BY DEF EmitFrame, CallFrame, Frames
<1>3. Drained' /\ stack' \in Seq(Frames)
  BY <1>2, NextDrained DEF IInv
<1> QED
  BY <1>1, <1>3 DEF IInv

-----------------------------------------------------------------------------
(* What the invariant says of the properties.                              *)

LEMMA DeliveryInOrder == Delivery => EmissionOrder
<1> SUFFICES ASSUME Delivery PROVE EmissionOrder
  OBVIOUS
<1>1. /\ Len(Trace) = Len(received) + Len(queue)
      /\ \A i \in 1..Len(received) : Trace[i] = received[i]
  BY ConcatProperties, LenProperties DEF Delivery, Trace
<1>2. Len(received) \in Nat /\ Len(queue) \in Nat
  BY LenProperties DEF Delivery
<1>3. Ordered(Trace, emitted)
  BY DEF Delivery
<1> HIDE DEF Trace
<1> QED
  BY <1>1, <1>2, <1>3 DEF Ordered, EmissionOrder

LEMMA DeliveryReaches == Delivery /\ Reaches /\ Drained => ExactAudience
<1> SUFFICES ASSUME Delivery, Reaches, Drained PROVE ExactAudience
  OBVIOUS
<1>1. received \in Seq(Pairs) /\ queue \in Seq(Pairs)
  BY DEF Delivery
<1>2. \A i \in 1..Len(received) : i \in 1..Len(Trace) /\ Trace[i] = received[i]
  BY <1>1, ConcatProperties, LenProperties DEF Trace
<1>3. OnlyAudience
  BY <1>2 DEF OnlyAudience, Reaches
<1>4. NothingLost
  <2> SUFFICES ASSUME stack = <<>>, NEW e \in 1..MaxEvents, NEW l \in audience[e]
               PROVE  <<l, e>> \in ToSet(received)
    BY DEF NothingLost
  <2>1. queue = <<>>
    BY DEF Drained, ToSet
  <2>2. Trace = received
    BY <1>1, <2>1, ConcatEmptySeq DEF Trace
  <2>3. \E i \in 1..Len(received) : received[i] = <<l, e>>
    BY <2>2 DEF Reaches
  <2> QED
    BY <1>1, <2>3, LenProperties DEF ToSet
<1> QED
  BY <1>3, <1>4 DEF ExactAudience

\* The owner's view of the listeners: a hook that follows one listener more or
\* less stays right when the last one is removed twice or all are disposed of.
LEMMA NextHooked == Delivery /\ HookedIffListeners /\ [Next]_vars => HookedIffListeners'
<1> SUFFICES ASSUME Delivery, HookedIffListeners, [Next]_vars PROVE HookedIffListeners'
  OBVIOUS
<1> USE DEF HookedIffListeners, HasListeners
<1>1. ASSUME NEW l \in Listeners, Subscribe(l) PROVE HookedIffListeners'
  <2>1. listeners' # <<>>
    BY <1>1, AppendProperties DEF Subscribe, Added, Delivery, ToSet
  <2>2. hooked' = TRUE
    BY <1>1 DEF Subscribe, Delivery
  <2> QED
    BY <2>1, <2>2
<1>2. ASSUME NEW l \in Listeners, Unsubscribe(l) PROVE HookedIffListeners'
  <2>1. listeners = <<>> => listeners' = <<>>
    BY <1>2 DEF Unsubscribe, Removed, ToSet
  <2>2. hooked' = (hooked /\ listeners' # <<>>)
    BY <1>2 DEF Unsubscribe
  <2> QED
    BY <2>1, <2>2
<1>3. CASE Emit
  BY <1>3 DEF Emit, StartEmit, emitterVars
<1>4. CASE Deliver \/ EmitReturn \/ ListenerReturn \/ Dispose \/ UNCHANGED vars
  BY <1>4 DEF Deliver, EmitReturn, ListenerReturn, Dispose, vars, emitterVars
<1> QED
  BY <1>1, <1>2, <1>3, <1>4 DEF Next

-----------------------------------------------------------------------------
(* The theorems.                                                           *)

\* The inductive invariant holds in every reachable state.
THEOREM Invariance == Spec => []IInv
BY InitIInv, NextIInv, PTL DEF Spec

\* Every variable of the emitter keeps its type: in particular the delivery
\* queue only ever holds pairs of a listener and an emitted event.
THEOREM TypeCorrect == Spec => []TypeOK
<1>1. IInv => TypeOK
  BY DEF IInv, Delivery, TypeOK
<1> QED
  BY <1>1, Invariance, PTL

\* For any number of listeners and events, however deeply emit() is nested:
\* events reach every listener in emission order and none twice
\* (emitter.ts:108-121).
THEOREM InOrder == Spec => []EmissionOrder
<1>1. IInv => EmissionOrder
  BY DeliveryInOrder DEF IInv
<1> QED
  BY <1>1, Invariance, PTL

\* For any number of listeners and events: an event reaches exactly those who were
\* subscribed when it was emitted, also those who unsubscribe or are disposed of
\* before their turn, and nobody who subscribes meanwhile (emitter.ts:108-121).
THEOREM Reached == Spec => []ExactAudience
<1>1. IInv => ExactAudience
  BY DeliveryReaches DEF IInv
<1> QED
  BY <1>1, Invariance, PTL

\* The hooks onFirstListenerAdd and onLastListenerRemove are called so that their
\* owner is attached to its source exactly while there are listeners, across
\* repeated unsubscribes, disposal and later subscriptions (emitter.ts:62-87,
\* 139-146).
THEOREM Hooked == Spec => []HookedIffListeners
<1>1. Init => HookedIffListeners
  BY DEF Init, HookedIffListeners, HasListeners
<1>2. IInv => Delivery
  BY DEF IInv
<1> QED
  BY <1>1, <1>2, Invariance, NextHooked, PTL DEF Spec
=============================================================================
