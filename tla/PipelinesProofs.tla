--------------------------- MODULE PipelinesProofs ---------------------------
(***************************************************************************)
(* What the pipelines guarantee for any number of units and any            *)
(* concurrency, whatever finishes, fails or times out in whatever order.   *)
(*                                                                         *)
(* The units started and those that wait are one line (Line): starting     *)
(* some of them leaves the line as it is, so that no unit is started twice *)
(* and none is left out (Turns).  Whatever is known of a unit that runs is *)
(* known of a unit that was started (Owned), so one that starts now has    *)
(* neither a timer nor a result.  A unit that was reported and executes    *)
(* still has timed out, one whose timer is pending still has failed        *)
(* (Timed), so that no second report is of any other kind (ReportedOnce).  *)
(* What was started runs or has a result (Recorded), from which            *)
(* NoUnitForgotten follows when the pipeline answers.  Without a timeout   *)
(* the units that run are those that execute, and a unit has one result    *)
(* (Untimed): a completion then is a step of AggregateRun.                 *)
(***************************************************************************)
EXTENDS Pipelines, SequenceTheorems, FiniteSetTheorems, TLAPS

Distinct(s) == \A i, j \in 1..Len(s) : i # j => s[i] # s[j]

\* The place of each unit in the order of the starts, past and to come.
Total == Len(started) + Len(work)
Line ==
    [i \in 1..Total |->
        IF i <= Len(started) THEN started[i]
        ELSE IF filo THEN work[Len(work) + 1 - (i - Len(started))]
        ELSE work[i - Len(started)]]

Types ==
    /\ class \in {"waterfall", "concurrent", "aggregated", "pooled"}
    /\ timeout \in BOOLEAN /\ filo \in BOOLEAN
    /\ class # "pooled" => ~timeout /\ ~filo
    /\ phase \in {"open", "running", "resolved", "rejected"}
    /\ work \in Seq(Units) /\ started \in Seq(Units)
    /\ results \in Seq(Results)
    /\ added \in 0..MaxUnits /\ ignored \subseteq 1..added
    /\ IsFiniteSet(running)

Opened ==
    phase = "open" =>
        started = <<>> /\ results = <<>> /\ running = {} /\ executing = {} /\ late = {} /\ ignored = {}

Turns ==
    /\ \A i \in 1..Total : Line[i] \in 1..added
    /\ \A i, j \in 1..Total : i # j => Line[i] # Line[j]
    /\ \A u \in (1..added) \ ignored : \E i \in 1..Total : Line[i] = u
    /\ phase \in {"open", "running"} => \A i \in 1..Total : Line[i] \notin ignored
    /\ ~filo => \A i \in 1..Total : Line[i] = i
    /\ ~filo /\ (phase = "open" \/ class \in {"waterfall", "pooled"}) => Total = added
    /\ filo /\ late \cup ignored = {} => Total = added /\ \A i \in 1..Total : Line[i] = added + 1 - i

Owned ==
    /\ executing \subseteq ToSet(started) /\ acting \subseteq executing
    /\ timer \subseteq ToSet(started) /\ running \subseteq ToSet(started)
    /\ \A i \in 1..Len(results) : results[i].unit \in ToSet(started)

\* Of a unit that can still be reported: what it was reported with before.
Timed ==
    \A i \in 1..Len(results) :
        /\ results[i].unit \in executing => results[i].result = "timeout"
        /\ results[i].unit \in timer => results[i].result = "error"

Recorded == \A u \in ToSet(started) : u \in running \/ \E i \in 1..Len(results) : results[i].unit = u

\* The places of a pool.
Filled ==
    class = "pooled" =>
        /\ Cardinality(running) <= Concurrency
        /\ phase = "running" /\ work # <<>> /\ late = {} => Cardinality(running) = Concurrency

Untimed ==
    ~timeout =>
        /\ timer = {} /\ executing = running
        /\ \A i \in 1..Len(results) : results[i].unit \notin running
        /\ \A i, j \in 1..Len(results) : i # j => results[i].unit # results[j].unit

\* When an aggregate answers, nothing runs or waits any more.
Gathered ==
    /\ phase # "resolved" => response = <<>>
    /\ Gathers => phase # "rejected" /\ (phase = "resolved" => running = {})

IInv ==
    /\ Types /\ Opened
    /\ Turns /\ Owned
    /\ Timed /\ ReportedOnce
    /\ Recorded /\ NoUnitForgotten
    /\ Filled /\ Untimed /\ Gathered

-----------------------------------------------------------------------------
(* Sequences and the line of the units.                                    *)

LEMMA AppendIs ==
    ASSUME NEW S, NEW s \in Seq(S), NEW x \in S
    PROVE  /\ Append(s, x) \in Seq(S) /\ Append(s, x) # <<>>
           /\ Len(s) \in Nat /\ Len(Append(s, x)) = Len(s) + 1
           /\ \A i \in 1..Len(s) : Append(s, x)[i] = s[i]
           /\ Append(s, x)[Len(s) + 1] = x
BY LenProperties, AppendProperties

LEMMA InSeq ==
    ASSUME NEW S, NEW s \in Seq(S)
    PROVE  /\ Len(s) \in Nat /\ DOMAIN s = 1..Len(s)
           /\ \A x : x \in ToSet(s) <=> \E i \in 1..Len(s) : s[i] = x
           /\ \A i \in 1..Len(s) : s[i] \in S
<1>1. Len(s) \in Nat /\ DOMAIN s = 1..Len(s)
  BY LenProperties
<1> QED
  BY <1>1, ElementOfSeq DEF ToSet

LEMMA ConcatIs ==
    ASSUME NEW S, NEW s \in Seq(S), NEW t \in Seq(S)
    PROVE  /\ s \o t \in Seq(S) /\ Len(s \o t) = Len(s) + Len(t)
           /\ \A i \in 1..Len(s) : (s \o t)[i] = s[i]
           /\ \A i \in 1..Len(t) : (s \o t)[Len(s) + i] = t[i]
           /\ ToSet(s \o t) = ToSet(s) \cup ToSet(t)
<1> DEFINE c == s \o t
           m == Len(s)
           k == Len(t)
<1>1. c \in Seq(S) /\ Len(c) = m + k /\ m \in Nat /\ k \in Nat
  BY ConcatProperties, LenProperties
<1>2. \A i \in 1..m + k : c[i] = IF i <= m THEN s[i] ELSE t[i - m]
  BY ConcatProperties
<1> HIDE DEF c
<1>3. \A i \in 1..m : c[i] = s[i]
  BY <1>1, <1>2
<1>4. \A i \in 1..k : c[m + i] = t[i]
  <2> SUFFICES ASSUME NEW i \in 1..k PROVE c[m + i] = t[i]
    OBVIOUS
  <2>1. m + i \in 1..m + k /\ ~(m + i <= m) /\ m + i - m = i
    BY <1>1
  <2> QED
    BY <1>2, <2>1
<1>5. ASSUME NEW x \in ToSet(c) PROVE x \in ToSet(s) \cup ToSet(t)
  <2>1. PICK i \in 1..m + k : c[i] = x
    BY <1>1, InSeq
  <2>2. CASE i <= m
    <3>1. i \in 1..m /\ s[i] = x
      BY <1>1, <1>3, <2>1, <2>2
    <3> QED
      BY <3>1, InSeq
  <2>3. CASE ~(i <= m)
    <3>1. i - m \in 1..k /\ t[i - m] = x
      BY <1>1, <1>2, <2>1, <2>3
    <3> QED
      BY <3>1, InSeq
  <2> QED
    BY <2>2, <2>3
<1>6. ASSUME NEW x \in ToSet(s) \cup ToSet(t) PROVE x \in ToSet(c)
  <2>1. CASE x \in ToSet(s)
    <3>1. PICK i \in 1..m : s[i] = x
      BY <2>1, InSeq
    <3>2. i \in 1..m + k /\ c[i] = x
      BY <1>1, <1>3, <3>1
    <3> QED
      BY <1>1, <3>2, InSeq
  <2>2. CASE x \in ToSet(t)
    <3>1. PICK i \in 1..k : t[i] = x
      BY <2>2, InSeq
    <3>2. m + i \in 1..m + k /\ c[m + i] = x
      BY <1>1, <1>4, <3>1
    <3> QED
      BY <1>1, <3>2, InSeq
  <2> QED
    BY <2>1, <2>2
<1>7. ToSet(c) = ToSet(s) \cup ToSet(t)
  BY <1>5, <1>6
<1> QED
  BY <1>1, <1>3, <1>4, <1>7 DEF c

\* The units a distinct sequence names are as many as it is long.
LEMMA DistinctCard ==
    ASSUME NEW S, NEW s \in Seq(S), Distinct(s)
    PROVE  IsFiniteSet(ToSet(s)) /\ Cardinality(ToSet(s)) = Len(s)
<1>1. Len(s) \in Nat /\ DOMAIN s = 1..Len(s)
  BY LenProperties
<1>2. s \in [1..Len(s) -> ToSet(s)]
  BY <1>1, LenProperties DEF ToSet
<1>3. s \in Bijection(1..Len(s), ToSet(s))
  BY <1>1, <1>2 DEF Bijection, Injection, Surjection, Distinct, ToSet, IsInjective
<1>4. ExistsBijection(1..Len(s), ToSet(s))
  BY <1>3 DEF ExistsBijection
<1>5. IsFiniteSet(1..Len(s))
  BY <1>1, FS_Interval
<1> QED
  BY <1>1, <1>4, <1>5, FS_CountingElements, FS_Bijection

LEMMA TakenIs ==
    ASSUME work \in Seq(Units), filo \in BOOLEAN, NEW k \in 0..Len(work)
    PROVE  /\ Taken(k) \in Seq(Units) /\ Len(Taken(k)) = k
           /\ \A i \in 1..k : Taken(k)[i] = IF filo THEN work[Len(work) + 1 - i] ELSE work[i]
           /\ Left(k) \in Seq(Units) /\ Len(Left(k)) = Len(work) - k
           /\ \A i \in 1..Len(work) - k : Left(k)[i] = IF filo THEN work[i] ELSE work[k + i]
<1> DEFINE n == Len(work)
<1>1. n \in Nat /\ \A i \in 1..n : work[i] \in Units
  BY ElementOfSeq, LenProperties
<1>2. CASE filo
  <2> DEFINE back == Reverse(work)
  <2>1. \A i \in 1..k : back[i] = work[n + 1 - i] /\ back[i] \in Units
    BY <1>1 DEF Reverse
  <2> HIDE DEF back
  <2>2. /\ SubSeq(back, 1, k) \in Seq(Units) /\ Len(SubSeq(back, 1, k)) = k
        /\ \A i \in 1..k : SubSeq(back, 1, k)[i] = back[i]
    BY <2>1, SubSeqProperties
  <2>3. /\ SubSeq(work, 1, n - k) \in Seq(Units) /\ Len(SubSeq(work, 1, n - k)) = n - k
        /\ \A i \in 1..n - k : SubSeq(work, 1, n - k)[i] = work[i]
    BY <1>1, SubSeqProperties
  <2> QED
    BY <1>2, <2>1, <2>2, <2>3 DEF Taken, Left, back
<1>3. CASE ~filo
  <2>1. /\ SubSeq(work, 1, k) \in Seq(Units) /\ Len(SubSeq(work, 1, k)) = k
        /\ \A i \in 1..k : SubSeq(work, 1, k)[i] = work[i]
    BY <1>1, SubSeqProperties
  <2>2. /\ SubSeq(work, k + 1, n) \in Seq(Units) /\ Len(SubSeq(work, k + 1, n)) = n - k
        /\ \A i \in 1..n - k : SubSeq(work, k + 1, n)[i] = work[k + i]
    BY <1>1, SubSeqProperties
  <2> QED
    BY <1>3, <2>1, <2>2 DEF Taken, Left
<1> QED
  BY <1>2, <1>3

\* Starting k units leaves the line as it is, and none of them was started before.
LEMMA Starts ==
    ASSUME Types, Turns, NEW k \in 0..Len(work),
           work' = Left(k), started' = started \o Taken(k), filo' = filo
    PROVE  /\ Line' = Line /\ Total' = Total
           /\ work' \in Seq(Units) /\ Len(work') = Len(work) - k
           /\ started' \in Seq(Units)
           /\ ToSet(started') = ToSet(started) \cup ToSet(Taken(k))
           /\ ToSet(Taken(k)) \cap ToSet(started) = {}
           /\ IsFiniteSet(ToSet(Taken(k))) /\ Cardinality(ToSet(Taken(k))) = k
           /\ ToSet(Taken(k)) \subseteq Units
           /\ k = 0 => started' = started
<1> DEFINE n == Len(work)
           m == Len(started)
           t == Taken(k)
<1>1. /\ n \in Nat /\ m \in Nat /\ work \in Seq(Units) /\ started \in Seq(Units) /\ filo \in BOOLEAN
      /\ k \in 0..n
  BY LenProperties DEF Types
<1>2. /\ t \in Seq(Units) /\ Len(t) = k
      /\ \A i \in 1..k : t[i] = IF filo THEN work[n + 1 - i] ELSE work[i]
      /\ work' \in Seq(Units) /\ Len(work') = n - k
      /\ \A i \in 1..n - k : work'[i] = IF filo THEN work[i] ELSE work[k + i]
  BY <1>1, TakenIs
<1>3. started' = started \o t
  OBVIOUS
<1> HIDE DEF t
<1>4. /\ started' \in Seq(Units) /\ Len(started') = m + k
      /\ \A i \in 1..m : started'[i] = started[i]
      /\ \A i \in 1..k : started'[m + i] = t[i]
      /\ ToSet(started') = ToSet(started) \cup ToSet(t)
  <2>1. /\ started' \in Seq(Units) /\ Len(started') = m + Len(t)
        /\ \A i \in 1..m : started'[i] = started[i]
        /\ \A i \in 1..Len(t) : started'[m + i] = t[i]
        /\ ToSet(started') = ToSet(started) \cup ToSet(t)
    <3>1. /\ started \o t \in Seq(Units) /\ Len(started \o t) = Len(started) + Len(t)
          /\ \A i \in 1..Len(started) : (started \o t)[i] = started[i]
          /\ \A i \in 1..Len(t) : (started \o t)[Len(started) + i] = t[i]
          /\ ToSet(started \o t) = ToSet(started) \cup ToSet(t)
      <4>1. started \in Seq(Units) /\ t \in Seq(Units)
        BY <1>1, <1>2
      <4> QED
        BY <4>1, ConcatIs
    <3> QED
      BY <1>3, <3>1
  <2> QED
    BY <1>2, <2>1
<1>5. Total = m + n /\ Total' = m + n
  BY <1>1, <1>2, <1>4 DEF Total
<1>6. Line = [i \in 1..m + n |-> IF i <= m THEN started[i] ELSE IF filo THEN work[n + 1 - (i - m)] ELSE work[i - m]]
  BY <1>5 DEF Line
<1>7. Line' = [i \in 1..m + n |-> IF i <= m + k THEN started'[i]
                       ELSE IF filo THEN work'[n - k + 1 - (i - (m + k))] ELSE work'[i - (m + k)]]
  BY <1>2, <1>4, <1>5 DEF Line
<1> HIDE DEF m, n
<1>8. ASSUME NEW i \in 1..m + n PROVE Line'[i] = Line[i]
  <2>1. CASE i <= m
    <3>1. i \in 1..m /\ i <= m + k
      BY <1>1, <2>1
    <3> QED
      BY <1>4, <1>6, <1>7, <2>1, <3>1
  <2>2. CASE m < i /\ i <= m + k
    <3>1. i - m \in 1..k /\ ~(i <= m) /\ m + (i - m) = i
      BY <1>1, <2>2
    <3>2. started'[i] = t[i - m]
      BY <1>4, <3>1
    <3> QED
      BY <1>2, <1>6, <1>7, <2>2, <3>1, <3>2
  <2>3. CASE m + k < i
    <3>1. /\ i - (m + k) \in 1..n - k /\ n - k + 1 - (i - (m + k)) \in 1..n - k
          /\ k + (i - (m + k)) = i - m /\ n - k + 1 - (i - (m + k)) = n + 1 - (i - m) /\ ~(i <= m) /\ ~(i <= m + k)
      BY <1>1, <2>3
    <3> QED
      BY <1>2, <1>6, <1>7, <3>1
  <2> QED
    BY <1>1, <2>1, <2>2, <2>3
<1>9. Line' = Line
  BY <1>6, <1>7, <1>8
<1>10. \A i \in 1..m : Line[i] = started[i] /\ i \in 1..Total
  BY <1>1, <1>5, <1>6
<1>11. ASSUME NEW i \in 1..k PROVE Line[m + i] = t[i] /\ m + i \in 1..Total
  <2> DEFINE p == m + i
  <2>1. p \in 1..m + n /\ ~(p <= m) /\ p - m = i
    BY <1>1
  <2> HIDE DEF p
  <2>2. Line[p] = IF filo THEN work[n + 1 - (p - m)] ELSE work[p - m]
    BY <1>6, <2>1
  <2>3. Line[p] = t[i] /\ p \in 1..Total
    BY <1>2, <1>5, <2>1, <2>2
  <2> QED
    BY <2>3 DEF p
<1>12. Distinct(t)
  <2> SUFFICES ASSUME NEW i \in 1..k, NEW j \in 1..k, i # j PROVE t[i] # t[j]
    BY <1>2 DEF Distinct
  <2>1. m + i # m + j
    BY <1>1
  <2> QED
    BY <1>11, <2>1, SMTT(30) DEF Turns
<1>13. ToSet(t) \cap ToSet(started) = {}
  <2>1. ASSUME NEW i \in 1..k, NEW j \in 1..m PROVE t[i] # started[j]
    <3>1. m + i # j
      BY <1>1
    <3> QED
      BY <1>10, <1>11, <3>1, SMTT(30) DEF Turns
  <2>2. \A x : x \in ToSet(started) <=> \E i \in 1..m : started[i] = x
    BY <1>1, InSeq DEF m
  <2>3. \A x : x \in ToSet(t) <=> \E i \in 1..k : t[i] = x
    BY <1>2, InSeq
  <2> QED
    BY <2>1, <2>2, <2>3
<1>14. ToSet(t) \subseteq Units
  <2>1. \A x : x \in ToSet(t) <=> \E i \in 1..k : t[i] = x
    BY <1>2, InSeq
  <2>2. \A i \in 1..k : t[i] \in Units
    BY <1>2, ElementOfSeq
  <2> QED
    BY <2>1, <2>2
<1>15. k = 0 => started' = started
  <2> SUFFICES ASSUME k = 0 PROVE started' = started
    OBVIOUS
  <2>1. t = <<>>
    BY <1>2, EmptySeq
  <2> QED
    BY <1>1, <1>3, <2>1, ConcatEmptySeq
<1>16. IsFiniteSet(ToSet(t)) /\ Cardinality(ToSet(t)) = k
  BY <1>2, <1>12, DistinctCard
<1> QED
  BY <1>2, <1>4, <1>5, <1>9, <1>13, <1>14, <1>15, <1>16 DEF t, n

\* Turns is about the line only.
LEMMA TurnsKept ==
    ASSUME Turns, Line' = Line, Total' = Total, UNCHANGED <<class, filo, added, ignored, late>>,
           phase' = "open" => phase = "open",
           phase' = "running" => phase \in {"open", "running"}
    PROVE  Turns'
BY DEF Turns

\* Everything that was added and can still be taken waits or was started.
LEMMA AllStarted ==
    ASSUME Types, Turns, work = <<>>, NEW u \in (1..added) \ ignored
    PROVE  \E i \in 1..Len(started) : started[i] = u
<1>1. Len(started) \in Nat /\ Len(work) = 0
  BY LenProperties, EmptySeq DEF Types
<1>2. PICK i \in 1..Total : Line[i] = u
  BY DEF Turns
<1> QED
  BY <1>1, <1>2 DEF Line, Total

-----------------------------------------------------------------------------
(* A result.                                                               *)

\* What a handler does, whatever it makes of the units that execute, of those
\* that act and of the timers.
Handled(u, result, ex, ac, ti) ==
    LET others == running \ {u}
        next == Following(result, others)
    IN  /\ results' = Append(results, [unit |-> u, result |-> result])
        /\ Answer(result = "error", others)
        /\ work' = Left(next) /\ started' = started \o Taken(next)
        /\ running' = others \cup ToSet(Taken(next))
        /\ executing' = ex \cup ToSet(Taken(next))
        /\ acting' \subseteq ac \cup ToSet(Taken(next)) /\ acting' \subseteq executing'
        /\ timer' = IF timeout THEN ti \cup ToSet(Taken(next)) ELSE ti
        /\ UNCHANGED <<options, added, ignored, late>>

LEMMA HandleIs ==
    ASSUME NEW u, NEW result, NEW s, s.acting \subseteq s.executing, HandleResult(u, result, s)
    PROVE  Handled(u, result, s.executing, s.acting, s.timer)
BY DEF HandleResult, RunWorkUnits, RunUnits, Handled

\* What the proofs need to know of a handler.
Handles(u, result, ex, ac, ti) ==
    /\ u \in ToSet(started) /\ result \in Kinds
    /\ ex \subseteq executing /\ ex \subseteq ToSet(started) /\ ac \subseteq ex /\ ti \subseteq timer
    /\ result # "error" => u \notin ti
    /\ result # "timeout" => u \in executing /\ u \notin ex
    /\ result = "timeout" => u \in timer
    /\ ~timeout => u \in executing /\ ex = executing \ {u} /\ ti = {}
    /\ Handled(u, result, ex, ac, ti)

LEMMA NextUnitsIs ==
    ASSUME Types, NEW result, NEW others
    PROVE  /\ Following(result, others) \in 0..Len(work) /\ Following(result, others) \in {0, 1}
           /\ work = <<>> => Following(result, others) = 0
           /\ class = "pooled" =>
                 Following(result, others) = IF work # <<>> /\ Cardinality(others) < Concurrency THEN 1 ELSE 0
<1>1. Len(work) \in Nat /\ (work # <<>> => Len(work) \in Nat \ {0})
  BY LenProperties, EmptySeq DEF Types
<1> QED
  BY <1>1 DEF Following, NextUnits, Width

\* The entry that is added.
LEMMA ResultAdded ==
    ASSUME Types, NEW u \in Units, NEW result \in Kinds,
           results' = Append(results, [unit |-> u, result |-> result])
    PROVE  /\ results' \in Seq(Results) /\ Len(results) \in Nat /\ Len(results') = Len(results) + 1
           /\ \A i \in 1..Len(results) : results'[i] = results[i]
           /\ results'[Len(results) + 1].unit = u /\ results'[Len(results) + 1].result = result
           /\ \A i \in 1..Len(results') : i \in 1..Len(results) \/ i = Len(results) + 1
<1> DEFINE entry == [unit |-> u, result |-> result]
<1>1. entry \in Results /\ entry.unit = u /\ entry.result = result
  BY DEF Results
<1> HIDE DEF entry
<1>2. results' = Append(results, entry) /\ results \in Seq(Results)
  BY DEF entry, Types
<1>3. /\ results' \in Seq(Results) /\ Len(results) \in Nat /\ Len(results') = Len(results) + 1
      /\ \A i \in 1..Len(results) : results'[i] = results[i]
      /\ results'[Len(results) + 1] = entry
  BY <1>1, <1>2, AppendIs
<1> QED
  BY <1>1, <1>3

\* An entry of the answer.
LEMMA InOrderIs ==
    ASSUME NEW seq, DOMAIN seq = 1..Len(seq), NEW i \in 1..Len(started), Len(started) \in Nat,
           \E j \in 1..Len(seq) : seq[j].unit = started[i]
    PROVE  InOrder(seq)[i].unit = started[i] /\ DOMAIN InOrder(seq) = 1..Len(started)
<1>1. EntriesOf(started[i], seq) # {}
  BY DEF EntriesOf
<1>2. (CHOOSE j \in EntriesOf(started[i], seq) : TRUE) \in EntriesOf(started[i], seq)
  BY <1>1
<1> QED
  BY <1>2 DEF InOrder, EntriesOf

LEMMA HandledPhase ==
    ASSUME Types, NEW failed \in BOOLEAN, NEW others, Answer(failed, others)
    PROVE  /\ phase' \in {"open", "running", "resolved", "rejected"}
           /\ phase' = "open" => phase = "open"
           /\ phase' = "running" => phase = "running"
           /\ phase' = "rejected" => phase = "rejected" \/ class \in {"waterfall", "concurrent"}
           /\ phase' # "resolved" => phase # "resolved" /\ response' = response
           /\ phase' = "resolved" => \/ phase = "resolved" /\ response' = response
                                     \/ /\ phase = "running" /\ work = <<>> /\ others = {}
                                        /\ response' = CASE class = "pooled" -> results'
                                             [] class = "waterfall" -> <<Last(results')>>
                                             [] OTHER -> InOrder(results')
BY DEF Types, Answer, Complete

\* Every unit that can still be taken is answered for.
LEMMA HandledForgotten ==
    ASSUME IInv, NEW u, NEW result, NEW ex, NEW ac, NEW ti, Handles(u, result, ex, ac, ti)
    PROVE  NoUnitForgotten'
<1> DEFINE others == running \ {u}
<1>1. /\ Types /\ Turns /\ u \in Units /\ result \in Kinds
      /\ results' = Append(results, [unit |-> u, result |-> result])
      /\ Answer(result = "error", others)
      /\ UNCHANGED <<class, added, ignored>>
  BY InSeq DEF IInv, Types, Handles, Handled, options
<1>2. /\ results' \in Seq(Results) /\ Len(results) \in Nat /\ Len(results') = Len(results) + 1
      /\ \A i \in 1..Len(results) : results'[i] = results[i]
      /\ results'[Len(results) + 1].unit = u
  BY <1>1, ResultAdded
<1>3. DOMAIN results = 1..Len(results) /\ DOMAIN results' = 1..Len(results')
  BY <1>1, <1>2, LenProperties DEF Types
<1> SUFFICES ASSUME phase' = "resolved", NEW v \in (1..added) \ ignored
             PROVE  EntriesOf(v, IF class = "waterfall" THEN results' ELSE response') # {}
  BY <1>1 DEF NoUnitForgotten
<1> HIDE DEF others
<1>4. \/ phase = "resolved" /\ response' = response
      \/ /\ phase = "running" /\ work = <<>> /\ others = {}
         /\ response' = CASE class = "pooled" -> results'
              [] class = "waterfall" -> <<Last(results')>>
              [] OTHER -> InOrder(results')
  BY <1>1, HandledPhase
<1>5. CASE phase = "resolved" /\ response' = response
  <2>1. EntriesOf(v, IF class = "waterfall" THEN results ELSE response) # {}
    BY <1>5 DEF IInv, NoUnitForgotten
  <2>2. EntriesOf(v, results) \subseteq EntriesOf(v, results')
    BY <1>2, <1>3 DEF EntriesOf
  <2> QED
    BY <1>5, <2>1, <2>2
<1>6. CASE /\ phase = "running" /\ work = <<>> /\ others = {}
           /\ response' = CASE class = "pooled" -> results'
                [] class = "waterfall" -> <<Last(results')>>
                [] OTHER -> InOrder(results')
  <2>1. PICK i \in 1..Len(started) : started[i] = v
    BY <1>1, <1>6, AllStarted
  <2>2. Len(started) \in Nat /\ v \in ToSet(started)
    BY <1>1, <2>1, InSeq DEF Types
  <2>3. v = u \/ \E j \in 1..Len(results) : results[j].unit = v
    BY <1>6, <2>2 DEF IInv, Recorded, others
  <2>4. \E j \in 1..Len(results') : results'[j].unit = v
    <3>1. Len(results) + 1 \in 1..Len(results') /\ \A j \in 1..Len(results) : j \in 1..Len(results')
      BY <1>2
    <3> QED
      BY <1>2, <2>3, <3>1
  <2>5. EntriesOf(v, results') # {}
    BY <1>3, <2>4 DEF EntriesOf
  <2>6. InOrder(results')[i].unit = v /\ DOMAIN InOrder(results') = 1..Len(started)
    BY <1>3, <2>1, <2>2, <2>4, InOrderIs
  <2>7. EntriesOf(v, InOrder(results')) # {}
    BY <2>1, <2>6 DEF EntriesOf
  <2> QED
    BY <1>6, <2>5, <2>7
<1> QED
  BY <1>4, <1>5, <1>6

\* How many units the handler starts, and which.
Starting(u, result) == Following(result, running \ {u})
New(u, result) == ToSet(Taken(Starting(u, result)))

\* The units that are started, and the line.
LEMMA HandledStarts ==
    ASSUME IInv, NEW u, NEW result, NEW ex, NEW ac, NEW ti, Handles(u, result, ex, ac, ti)
    PROVE  /\ Starting(u, result) \in {0, 1} /\ Starting(u, result) \in 0..Len(work)
           /\ Line' = Line /\ Total' = Total
           /\ work' \in Seq(Units) /\ Len(work') = Len(work) - Starting(u, result) /\ started' \in Seq(Units)
           /\ ToSet(started') = ToSet(started) \cup New(u, result) /\ New(u, result) \cap ToSet(started) = {}
           /\ IsFiniteSet(New(u, result)) /\ Cardinality(New(u, result)) = Starting(u, result) /\ New(u, result) \subseteq Units
           /\ Starting(u, result) = 0 => started' = started
           /\ running' = (running \ {u}) \cup New(u, result)
           /\ executing' = ex \cup New(u, result)
           /\ acting' \subseteq executing'
           /\ timer' = (IF timeout THEN ti \cup New(u, result) ELSE ti)
<1> DEFINE next == Starting(u, result)
           new == New(u, result)
<1>1. Types /\ Turns /\ next \in 0..Len(work) /\ next \in {0, 1}
  BY NextUnitsIs DEF IInv, Starting
<1>2. /\ work' = Left(next) /\ started' = started \o Taken(next) /\ filo' = filo
      /\ running' = (running \ {u}) \cup new
      /\ executing' = ex \cup new
      /\ acting' \subseteq executing'
      /\ timer' = (IF timeout THEN ti \cup new ELSE ti)
  BY DEF Handles, Handled, options, Starting, New
<1>3. new = ToSet(Taken(next))
  BY DEF New
<1> HIDE DEF next
<1> QED
  <2>1. /\ Line' = Line /\ Total' = Total
        /\ work' \in Seq(Units) /\ Len(work') = Len(work) - next /\ started' \in Seq(Units)
        /\ ToSet(started') = ToSet(started) \cup ToSet(Taken(next)) /\ ToSet(Taken(next)) \cap ToSet(started) = {}
        /\ IsFiniteSet(ToSet(Taken(next))) /\ Cardinality(ToSet(Taken(next))) = next /\ ToSet(Taken(next)) \subseteq Units
        /\ next = 0 => started' = started
    BY <1>1, <1>2, Starts
  <2> QED
    BY <1>1, <1>2, <1>3, <2>1 DEF next

LEMMA HandledFilled ==
    ASSUME IInv, NEW u, NEW result, NEW ex, NEW ac, NEW ti, Handles(u, result, ex, ac, ti)
    PROVE  IsFiniteSet(running') /\ Filled'
<1> DEFINE next == Starting(u, result)
           new == New(u, result)
<1>1. /\ next \in {0, 1} /\ next \in 0..Len(work) /\ Len(work') = Len(work) - next
      /\ work' \in Seq(Units) /\ new \cap ToSet(started) = {}
      /\ IsFiniteSet(new) /\ Cardinality(new) = next /\ running' = (running \ {u}) \cup new
  BY HandledStarts
<1>2. /\ Types /\ IsFiniteSet(running) /\ running \subseteq ToSet(started)
      /\ UNCHANGED <<class, late>>
      /\ phase' = "running" => phase = "running"
  BY HandledPhase DEF IInv, Types, Owned, Handles, Handled, options
<1> DEFINE others == running \ {u}
<1>3. /\ IsFiniteSet(others) /\ Cardinality(running) \in Nat
      /\ Cardinality(others) = IF u \in running THEN Cardinality(running) - 1 ELSE Cardinality(running)
      /\ Cardinality(others) \in Nat
  BY <1>2, FS_RemoveElement, FS_CardinalityType
<1>4. class = "pooled" => next = IF work # <<>> /\ Cardinality(others) < Concurrency THEN 1 ELSE 0
  BY <1>2, NextUnitsIs DEF Starting
<1>5. /\ next = 0 => running' = others
      /\ next = 1 => \E x : x \notin others /\ running' = others \cup {x}
  <2>1. next = 0 => new = {}
    BY <1>1, FS_EmptySet
  <2>2. next = 1 => \E x : new = {x}
    BY <1>1, FS_Singleton
  <2> HIDE DEF next, new
  <2> QED
    BY <1>1, <1>2, <2>1, <2>2
<1> HIDE DEF next, new, others
<1>6. /\ IsFiniteSet(running')
      /\ Cardinality(running') = Cardinality(others) + next
  <2>1. CASE next = 0
    BY <1>3, <1>5, <2>1
  <2>2. CASE next = 1
    BY <1>3, <1>5, <2>2, FS_AddElement
  <2> QED
    BY <1>1, <2>1, <2>2
<1>7. Filled'
  <2> SUFFICES ASSUME class = "pooled"
               PROVE  /\ Cardinality(running') <= Concurrency
                      /\ phase' = "running" /\ work' # <<>> /\ late' = {} => Cardinality(running') = Concurrency
    BY <1>2 DEF Filled
  <2>1. Concurrency \in Nat \ {0} /\ Cardinality(running) <= Concurrency
    BY PipelinesAssumption DEF IInv, Filled
  <2>2. Cardinality(running') <= Concurrency
    BY <1>1, <1>3, <1>4, <1>6, <2>1
  <2>3. ASSUME phase' = "running", work' # <<>>, late' = {} PROVE Cardinality(running') = Concurrency
    <3>1. work # <<>>
      <4>1. Len(work') \in Nat \ {0} /\ Len(work) \in Nat
        BY <1>1, <1>2, <2>3, EmptySeq, LenProperties DEF Types
      <4> QED
        BY <1>1, <4>1, EmptySeq
    <3>2. Cardinality(running) = Concurrency
      BY <1>2, <2>3, <3>1 DEF IInv, Filled
    <3> QED
      BY <1>1, <1>3, <1>4, <1>6, <2>1, <3>1, <3>2
  <2> QED
    BY <2>2, <2>3
<1> QED
  BY <1>6, <1>7

LEMMA HandledIInv ==
    ASSUME IInv, NEW u, NEW result, NEW ex, NEW ac, NEW ti, Handles(u, result, ex, ac, ti)
    PROVE  IInv'
<1> DEFINE next == Starting(u, result)
           new == New(u, result)
           n == Len(results)
<1>1. /\ Line' = Line /\ Total' = Total
      /\ work' \in Seq(Units) /\ started' \in Seq(Units)
      /\ ToSet(started') = ToSet(started) \cup new /\ new \cap ToSet(started) = {}
      /\ running' = (running \ {u}) \cup new
      /\ executing' = ex \cup new
      /\ acting' \subseteq executing'
      /\ timer' = (IF timeout THEN ti \cup new ELSE ti)
  BY HandledStarts
<1> HIDE DEF next, new
<1>2. /\ Types /\ u \in ToSet(started) /\ u \in Units /\ result \in Kinds
      /\ ex \subseteq executing /\ ex \subseteq ToSet(started) /\ ac \subseteq ex /\ ti \subseteq timer
      /\ result # "error" => u \notin ti
      /\ result # "timeout" => u \in executing /\ u \notin ex
      /\ result = "timeout" => u \in timer
      /\ ~timeout => u \in executing /\ ex = executing \ {u} /\ ti = {}
      /\ results' = Append(results, [unit |-> u, result |-> result])
      /\ UNCHANGED <<class, timeout, filo, added, ignored, late>>
      /\ Answer(result = "error", running \ {u})
  BY InSeq DEF IInv, Types, Handles, Handled, options
<1>3. /\ results' \in Seq(Results) /\ n \in Nat /\ Len(results') = n + 1
      /\ \A i \in 1..n : results'[i] = results[i]
      /\ results'[n + 1].unit = u /\ results'[n + 1].result = result
      /\ \A i \in 1..Len(results') : i \in 1..n \/ i = n + 1
  BY <1>2, ResultAdded
<1>4. /\ phase' \in {"open", "running", "resolved", "rejected"}
      /\ phase' = "open" => phase = "open"
      /\ phase' = "running" => phase = "running"
      /\ phase' = "rejected" => phase = "rejected" \/ class \in {"waterfall", "concurrent"}
      /\ phase' # "resolved" => phase # "resolved" /\ response' = response
      /\ phase' = "resolved" => \/ phase = "resolved" /\ response' = response
                                \/ /\ phase = "running" /\ work = <<>> /\ running \ {u} = {}
  BY <1>2, HandledPhase
<1>5. IsFiniteSet(running') /\ Filled'
  BY HandledFilled
<1>6. Types'
  BY <1>1, <1>2, <1>3, <1>4, <1>5 DEF Types
<1>7. phase # "open"
  <2>1. ToSet(started) # {}
    BY <1>2
  <2> QED
    BY <2>1 DEF IInv, Opened, ToSet
<1>8. Turns'
  BY <1>1, <1>2, <1>4, TurnsKept DEF IInv
<1>9. Owned'
  <2>1. \A i \in 1..Len(results') : results'[i].unit \in ToSet(started')
    BY <1>1, <1>2, <1>3 DEF IInv, Owned
  <2> QED
    BY <1>1, <1>2, <2>1 DEF IInv, Owned
<1>10. \A i \in 1..n : results[i].unit \in ToSet(started) /\ results[i].unit \notin new
  BY <1>1 DEF IInv, Owned
<1>11. Timed'
  <2> SUFFICES ASSUME NEW i \in 1..Len(results')
               PROVE  /\ results'[i].unit \in executing' => results'[i].result = "timeout"
                      /\ results'[i].unit \in timer' => results'[i].result = "error"
    BY DEF Timed
  <2>1. CASE i \in 1..n
    BY <1>1, <1>2, <1>3, <1>10, <2>1 DEF IInv, Timed
  <2>2. CASE i = n + 1
    <3>1. u \notin new
      BY <1>1, <1>2
    <3> QED
      BY <1>1, <1>2, <1>3, <2>2, <3>1
  <2> QED
    BY <1>3, <2>1, <2>2
<1>12. ReportedOnce'
  <2> SUFFICES ASSUME NEW i \in 1..Len(results'), NEW j \in 1..Len(results'),
                      i < j, results'[i].unit = results'[j].unit
               PROVE  Doubled(results'[i].result, results'[j].result)
    BY DEF ReportedOnce
  <2>1. i \in 1..n /\ results'[i] = results[i]
    BY <1>3
  <2>2. CASE j \in 1..n
    BY <1>3, <2>1, <2>2 DEF IInv, ReportedOnce
  <2>3. CASE j = n + 1
    BY <1>2, <1>3, <2>1, <2>3 DEF IInv, Timed, Doubled
  <2> QED
    BY <1>3, <2>2, <2>3
<1>13. Recorded'
  <2> SUFFICES ASSUME NEW v \in ToSet(started'), v \notin running'
               PROVE  \E i \in 1..Len(results') : results'[i].unit = v
    BY DEF Recorded
  <2>1. v \in ToSet(started) /\ (v = u \/ v \notin running)
    BY <1>1
  <2>2. n + 1 \in 1..Len(results') /\ \A i \in 1..n : i \in 1..Len(results')
    BY <1>3
  <2> QED
    BY <1>3, <2>1, <2>2 DEF IInv, Recorded
<1>14. Untimed'
  <2> SUFFICES ASSUME ~timeout
               PROVE  /\ timer' = {} /\ executing' = running'
                      /\ \A i \in 1..Len(results') : results'[i].unit \notin running'
                      /\ \A i, j \in 1..Len(results') : i # j => results'[i].unit # results'[j].unit
    BY <1>2 DEF Untimed
  <2>1. /\ timer = {} /\ executing = running /\ u \in running
        /\ \A i \in 1..n : results[i].unit \notin running /\ results[i].unit # u
        /\ \A i, j \in 1..n : i # j => results[i].unit # results[j].unit
    BY <1>2 DEF IInv, Untimed
  <2>2. \A i \in 1..Len(results') : results'[i].unit \notin running'
    BY <1>1, <1>2, <1>3, <1>10, <2>1
  <2>3. \A i, j \in 1..Len(results') : i # j => results'[i].unit # results'[j].unit
    BY <1>3, <2>1
  <2> QED
    BY <1>1, <1>2, <2>1, <2>2, <2>3
<1>15. Gathered'
  <2>1. phase' # "resolved" => response' = <<>>
    BY <1>4 DEF IInv, Gathered
  <2>2. Gathers' = Gathers
    BY <1>2 DEF Gathers
  <2>3. ASSUME Gathers, phase' = "resolved" PROVE running' = {}
    <3>1. ~timeout
      BY <1>2, <2>3 DEF Gathers, Types
    <3>2. running # {}
      BY <1>2, <3>1 DEF IInv, Untimed
    <3>3. phase = "running" /\ work = <<>> /\ running \ {u} = {}
      BY <1>4, <2>3, <3>2 DEF IInv, Gathered
    <3>4. next = 0
      BY <1>2, <3>3, NextUnitsIs DEF next, Starting
    <3>5. new = {}
      <4>1. IsFiniteSet(new) /\ Cardinality(new) = next
        BY HandledStarts DEF next, new
      <4> QED
        BY <3>4, <4>1, FS_EmptySet
    <3> QED
      BY <1>1, <3>3, <3>5
  <2>4. Gathers => phase' # "rejected"
    BY <1>4 DEF IInv, Gathered, Gathers
  <2> QED
    BY <2>1, <2>2, <2>3, <2>4 DEF Gathered
<1>16. Opened' /\ NoUnitForgotten'
  BY <1>4, <1>7, HandledForgotten DEF Opened
<1> QED
  BY <1>5, <1>6, <1>8, <1>9, <1>11, <1>12, <1>13, <1>14, <1>15, <1>16 DEF IInv

-----------------------------------------------------------------------------
(* The steps.                                                              *)

LEMMA InitIInv == Init => IInv
<1> SUFFICES ASSUME Init PROVE IInv
  OBVIOUS
<1>1. /\ class \in {"waterfall", "concurrent", "aggregated", "pooled"} /\ timeout \in BOOLEAN /\ filo \in BOOLEAN
      /\ class # "pooled" => ~timeout /\ ~filo
      /\ phase = "open" /\ work = <<>> /\ running = {} /\ results = <<>> /\ response = <<>>
      /\ executing = {} /\ acting = {} /\ timer = {}
      /\ added = 0 /\ ignored = {} /\ late = {} /\ started = <<>>
  BY DEF Init
<1>2. /\ work \in Seq(Units) /\ started \in Seq(Units) /\ results \in Seq(Results)
      /\ Len(work) = 0 /\ Len(started) = 0 /\ Len(results) = 0
  BY <1>1, EmptySeq
<1>3. IsFiniteSet(running) /\ Cardinality(running) = 0
  BY <1>1, FS_EmptySet
<1>4. Types
  BY <1>1, <1>2, <1>3, PipelinesAssumption DEF Types
<1>5. Turns
  <2>1. Total = 0
    BY <1>2 DEF Total
  <2> QED
    BY <1>1, <2>1 DEF Turns
<1>6. ToSet(started) = {}
  BY <1>1 DEF ToSet
<1>7. Filled
  BY <1>1, <1>3, PipelinesAssumption DEF Filled
<1> QED
  BY <1>1, <1>2, <1>4, <1>5, <1>6, <1>7
     DEF IInv, Opened, Owned, Timed, ReportedOnce, Recorded, NoUnitForgotten, Untimed, Gathered

\* A unit joins the line: at its end, or where the last one is taken first,
\* before all that wait.
LEMMA Joins ==
    ASSUME Types, Turns, Opened, added < MaxUnits, added' = added + 1, work' = Append(work, added + 1),
           UNCHANGED <<class, filo, phase, started>>,
           phase = "open" \/ class \in {"waterfall", "pooled"},
           ignored \subseteq ignored', ignored' \subseteq ignored \cup {added + 1},
           phase \in {"open", "running"} => ignored' = ignored,
           late \subseteq late', phase # "open" => added + 1 \in late' \cup ignored'
    PROVE  work' \in Seq(Units) /\ Turns'
<1> DEFINE m == Len(started)
           n == Len(work)
           x == added + 1
<1>1. n \in Nat /\ m \in Nat /\ added \in Nat /\ x \in Units
  BY LenProperties, PipelinesAssumption DEF Types, Units
<1>2. /\ work' \in Seq(Units) /\ Len(work') = n + 1
      /\ \A i \in 1..n : work'[i] = work[i]
      /\ work'[n + 1] = x
  <2> HIDE DEF x
  <2>1. work \in Seq(Units) /\ work' = Append(work, x)
    BY DEF Types, x
  <2> QED
    BY <1>1, <2>1, AppendIs
<1>3. Total = m + n /\ Total' = m + n + 1
  BY <1>1, <1>2 DEF Total
<1>4. \A i \in 1..m + n : Line[i] = IF i <= m THEN started[i] ELSE IF filo THEN work[n + 1 - (i - m)] ELSE work[i - m]
  BY <1>3 DEF Line
<1>5. \A i \in 1..m + n + 1 : Line'[i] = IF i <= m THEN started[i]
                               ELSE IF filo THEN work'[n + 1 + 1 - (i - m)] ELSE work'[i - m]
  BY <1>2, <1>3 DEF Line
<1> DEFINE N == m + n
           p == IF filo THEN m + 1 ELSE N + 1
           old == [i \in 1..N + 1 |-> IF i < p THEN i ELSE i - 1]
<1> HIDE DEF m, n
<1>6. ASSUME NEW i \in 1..N + 1, i # p PROVE old[i] \in 1..N /\ Line'[i] = Line[old[i]]
  <2>1. CASE i <= m
    <3>1. i < p /\ i \in 1..N
      BY <1>1, <2>1
    <3> QED
      BY <1>4, <1>5, <2>1, <3>1
  <2>2. CASE ~(i <= m) /\ ~filo
    <3>1. i < p /\ i \in 1..N /\ i - m \in 1..n
      BY <1>1, <1>6, <2>2
    <3> QED
      BY <1>2, <1>4, <1>5, <2>2, <3>1
  <2>3. CASE ~(i <= m) /\ filo
    <3> DEFINE j == i - 1
    <3>1. ~(i < p) /\ j \in 1..N /\ ~(j <= m) /\ n + 1 - (j - m) \in 1..n /\ n + 1 + 1 - (i - m) = n + 1 - (j - m)
      BY <1>1, <1>6, <2>3
    <3>2. old[i] = j
      BY <3>1
    <3> HIDE DEF old, p
    <3>3. Line'[i] = work'[n + 1 + 1 - (i - m)]
      BY <1>5, <2>3
    <3> HIDE DEF j
    <3>4. Line[j] = work[n + 1 - (j - m)]
      BY <1>4, <2>3, <3>1
    <3> QED
      BY <1>2, <3>1, <3>2, <3>3, <3>4
  <2> QED
    BY <2>1, <2>2, <2>3
<1>7. p \in 1..N + 1 /\ Line'[p] = x
  <2> HIDE DEF x
  <2>1. CASE filo
    <3>1. p \in 1..N + 1 /\ ~(p <= m) /\ n + 1 + 1 - (p - m) = n + 1
      BY <1>1, <2>1
    <3> HIDE DEF p
    <3>2. Line'[p] = work'[n + 1 + 1 - (p - m)]
      BY <1>5, <2>1, <3>1
    <3> QED
      BY <1>2, <3>1, <3>2
  <2>2. CASE ~filo
    <3>1. p \in 1..N + 1 /\ ~(p <= m) /\ p - m = n + 1
      BY <1>1, <2>2
    <3> HIDE DEF p
    <3>2. Line'[p] = work'[p - m]
      BY <1>5, <2>2, <3>1
    <3> QED
      BY <1>2, <3>1, <3>2
  <2> QED
    BY <2>1, <2>2
<1>8. \A i, j \in 1..N + 1 : i # p /\ j # p /\ i # j => old[i] # old[j]
  BY <1>1, <1>7
<1>9. \A i \in 1..N : \E j \in 1..N + 1 : j # p /\ old[j] = i
  <2> SUFFICES ASSUME NEW i \in 1..N PROVE \E j \in 1..N + 1 : j # p /\ old[j] = i
    OBVIOUS
  <2>1. CASE i < p
    <3>1. i \in 1..N + 1 /\ i # p /\ old[i] = i
      BY <1>1, <1>7, <2>1
    <3> QED
      BY <3>1
  <2>2. CASE ~(i < p)
    <3>1. i + 1 \in 1..N + 1 /\ i + 1 # p /\ ~(i + 1 < p) /\ i + 1 - 1 = i
      BY <1>1, <1>7, <2>2
    <3>2. old[i + 1] = i
      BY <3>1
    <3> HIDE DEF old, p
    <3> QED
      BY <3>1, <3>2
  <2> QED
    BY <2>1, <2>2
<1>10. N \in Nat /\ Total = N /\ Total' = N + 1
  BY <1>1, <1>3
<1>11. ~filo => p = N + 1 /\ \A i \in 1..N : old[i] = i
  BY <1>1
<1>12. filo /\ m = 0 => p = 1 /\ \A i \in 1..N + 1 : i # p => old[i] = i - 1
  BY <1>1
<1>13. phase = "open" => m = 0
  BY EmptySeq DEF Opened, m
<1> HIDE DEF p, old, N
<1>14. /\ \A i \in 1..N : Line[i] \in 1..added
       /\ \A i, j \in 1..N : i # j => Line[i] # Line[j]
       /\ \A u \in (1..added) \ ignored : \E i \in 1..N : Line[i] = u
       /\ phase \in {"open", "running"} => \A i \in 1..N : Line[i] \notin ignored
  BY <1>10 DEF Turns
<1>15. \A i \in 1..N + 1 : Line'[i] \in 1..added'
  <2> SUFFICES ASSUME NEW i \in 1..N + 1 PROVE Line'[i] \in 1..x
    OBVIOUS
  <2>1. CASE i = p
    BY <1>1, <1>7, <2>1
  <2>2. CASE i # p
    <3>1. Line'[i] \in 1..added
      BY <1>6, <1>14, <2>2
    <3> QED
      BY <1>1, <3>1
  <2> QED
    BY <2>1, <2>2
<1>16. ASSUME NEW i \in 1..N + 1, NEW j \in 1..N + 1, i # j PROVE Line'[i] # Line'[j]
  <2>1. CASE i # p /\ j # p
    BY <1>6, <1>8, <1>14, <1>16, <2>1, SMTT(30)
  <2>2. ASSUME NEW k \in 1..N + 1, k # p PROVE Line'[k] # x
    <3>1. Line'[k] \in 1..added
      BY <1>6, <1>14, <2>2
    <3> QED
      BY <1>1, <3>1
  <2> HIDE DEF x
  <2> QED
    BY <1>7, <1>16, <2>1, <2>2
<1>17. ASSUME NEW u \in (1..added') \ ignored' PROVE \E i \in 1..N + 1 : Line'[i] = u
  <2>1. CASE u = x
    BY <1>7, <2>1
  <2>2. CASE u # x
    <3>1. u \in (1..added) \ ignored
      BY <1>1, <2>2
    <3>2. PICK i \in 1..N : Line[i] = u
      BY <1>14, <3>1
    <3>3. PICK j \in 1..N + 1 : j # p /\ old[j] = i
      BY <1>9
    <3> QED
      BY <1>6, <3>2, <3>3
  <2> QED
    BY <2>1, <2>2
<1>18. phase \in {"open", "running"} => \A i \in 1..N + 1 : Line'[i] \notin ignored'
  <2>1. x \notin ignored
    BY <1>1 DEF Types
  <2> HIDE DEF x
  <2> QED
    BY <1>6, <1>7, <1>14, <2>1
<1>19. ~filo => (\A i \in 1..N + 1 : Line'[i] = i) /\ N + 1 = added'
  <2> SUFFICES ASSUME ~filo PROVE (\A i \in 1..N + 1 : Line'[i] = i) /\ N + 1 = x
    OBVIOUS
  <2>1. N = added /\ \A i \in 1..N : Line[i] = i
    BY <1>10 DEF Turns
  <2>2. \A i \in 1..N + 1 : i \in 1..N \/ i = N + 1
    BY <1>10
  <2>3. \A i \in 1..N : i # N + 1 /\ i \in 1..N + 1
    BY <1>10
  <2> QED
    BY <1>6, <1>7, <1>11, <2>1, <2>2, <2>3
<1>20. filo /\ late' \cup ignored' = {} => N + 1 = added' /\ \A i \in 1..N + 1 : Line'[i] = added' + 1 - i
  <2> SUFFICES ASSUME filo, late' \cup ignored' = {}
               PROVE  N + 1 = x /\ \A i \in 1..N + 1 : Line'[i] = x + 1 - i
    OBVIOUS
  <2>1. phase = "open" /\ late \cup ignored = {}
    OBVIOUS
  <2>2. N = added /\ \A i \in 1..N : Line[i] = added + 1 - i
    BY <1>10, <2>1 DEF Turns
  <2>3. p = 1 /\ \A i \in 1..N + 1 : i # p => old[i] = i - 1
    BY <1>12, <1>13, <2>1
  <2>4. ASSUME NEW i \in 1..N + 1 PROVE Line'[i] = x + 1 - i
    <3>1. CASE i = p
      BY <1>1, <1>7, <2>3, <3>1
    <3>2. CASE i # p
      <4>1. old[i] \in 1..N /\ Line'[i] = Line[old[i]] /\ old[i] = i - 1
        BY <1>6, <2>3, <3>2
      <4>2. Line'[i] = added + 1 - old[i]
        BY <2>2, <4>1
      <4> QED
        BY <1>1, <1>10, <4>1, <4>2
    <3> QED
      BY <3>1, <3>2
  <2> QED
    BY <2>2, <2>4
<1> QED
  BY <1>2, <1>10, <1>15, <1>16, <1>17, <1>18, <1>19, <1>20 DEF Turns

LEMMA AddIInv == ASSUME IInv, Add PROVE IInv'
<1>1. /\ Types /\ Turns /\ Opened
      /\ added < MaxUnits /\ added' = added + 1
      /\ UNCHANGED <<class, timeout, filo, status, executing, acting, timer>>
      /\ UNCHANGED <<phase, running, results, response, started>>
      /\ late' = IF phase = "running" THEN late \cup {added + 1} ELSE late
  BY DEF Add, IInv, options, unitVars
<1>2. CASE class \in {"concurrent", "aggregated"} /\ phase # "open"
  <2>1. work' = work /\ ignored' = ignored \cup {added + 1}
    BY <1>2 DEF Add
  <2>2. Line' = Line /\ Total' = Total /\ ~filo
    BY <1>1, <1>2, <2>1 DEF Line, Total, Types
  <2>3. added \in Nat /\ added + 1 \in 1..MaxUnits /\ added + 1 \notin 1..added
    BY <1>1, PipelinesAssumption DEF Types
  <2>4. \A i \in 1..Total : Line[i] \in 1..added'
    BY <1>1, <2>3 DEF Turns
  <2>5. \A u \in (1..added') \ ignored' : \E i \in 1..Total : Line[i] = u
    BY <1>1, <2>1, <2>3 DEF Turns
  <2>6. phase \in {"open", "running"} => \A i \in 1..Total : Line[i] \notin ignored'
    BY <1>1, <2>1, <2>3 DEF Turns
  <2>7. Turns'
    BY <1>1, <1>2, <2>2, <2>4, <2>5, <2>6 DEF Turns
  <2>8. added' \in 0..MaxUnits /\ ignored' \subseteq 1..added'
    BY <1>1, <2>1, <2>3 DEF Types
  <2>9. Types'
    BY <1>1, <2>1, <2>8 DEF Types
  <2>10. NoUnitForgotten'
    <3>1. (1..added') \ ignored' \subseteq (1..added) \ ignored
      BY <1>1, <2>1, <2>3
    <3> QED
      BY <1>1, <3>1 DEF IInv, NoUnitForgotten, EntriesOf
  <2> QED
    BY <1>1, <1>2, <2>1, <2>7, <2>9, <2>10
       DEF IInv, Opened, Owned, Timed, ReportedOnce, Recorded, Filled, Untimed, Gathered, Gathers
<1>3. CASE phase = "open" \/ class \in {"waterfall", "pooled"}
  <2>1. /\ work' = Append(work, added + 1)
        /\ ignored' = IF phase \notin {"open", "running"} THEN ignored \cup {added + 1} ELSE ignored
    BY <1>1, <1>3 DEF Add
  <2>2. /\ ignored \subseteq ignored' /\ ignored' \subseteq ignored \cup {added + 1}
        /\ phase \in {"open", "running"} => ignored' = ignored
        /\ late \subseteq late' /\ (phase # "open" => added + 1 \in late' \cup ignored')
    BY <1>1, <2>1
  <2>3. work' \in Seq(Units) /\ Turns'
    BY <1>1, <1>3, <2>1, <2>2, Joins
  <2>4. added' \in 0..MaxUnits /\ ignored' \subseteq 1..added'
    <3>1. added \in Nat /\ added + 1 \in 1..added' /\ \A i \in 1..added : i \in 1..added'
      BY <1>1 DEF Types
    <3> QED
      BY <1>1, <2>2, <3>1, PipelinesAssumption DEF Types
  <2>5. Types'
    BY <1>1, <2>3, <2>4 DEF Types
  <2>6. NoUnitForgotten'
    <3> SUFFICES ASSUME phase = "resolved"
                 PROVE  (1..added') \ ignored' \subseteq (1..added) \ ignored
      BY <1>1 DEF IInv, NoUnitForgotten, EntriesOf
    <3>1. added \in Nat /\ ignored' = ignored \cup {added + 1}
      BY <1>1, <2>1 DEF Types
    <3> QED
      BY <1>1, <3>1
  <2>7. Filled'
    BY <1>1, <2>2 DEF IInv, Filled
  <2>8. Opened'
    BY <1>1, <2>1 DEF Opened
  <2> QED
    BY <1>1, <2>3, <2>5, <2>6, <2>7, <2>8
       DEF IInv, Owned, Timed, ReportedOnce, Recorded, Untimed, Gathered, Gathers
<1> QED
  BY <1>1, <1>2, <1>3 DEF Types

LEMMA IdleIInv ==
    ASSUME IInv, UNCHANGED <<options, pipeVars, executing, acting, timer>>
    PROVE  IInv'
BY SMTT(30) DEF IInv, options, pipeVars, Types, Opened, Turns, Line, Total, Owned, Timed, ReportedOnce,
       Recorded, NoUnitForgotten, EntriesOf, Filled, Untimed, Gathered, Gathers

LEMMA RunIInv == ASSUME IInv, Run PROVE IInv'
<1> DEFINE k == IF Len(work) < Width THEN Len(work) ELSE Width
           new == ToSet(Taken(k))
<1>1. /\ Types /\ Turns /\ phase = "open" /\ phase' = (IF work = <<>> THEN "resolved" ELSE "running")
      /\ started = <<>> /\ results = <<>> /\ running = {} /\ executing = {} /\ late = {} /\ ignored = {}
      /\ UNCHANGED <<class, timeout, filo, results, response, added, ignored, late>>
  BY DEF Run, IInv, Opened, options
<1>2. /\ work' = Left(k) /\ started' = started \o Taken(k) /\ running' = new
      /\ executing' = new /\ acting' \subseteq acting \cup new /\ acting' \subseteq executing \cup acting \cup new
      /\ timer' = IF timeout THEN timer \cup new ELSE timer
  <2>1. RunWorkUnits(k, running, [executing |-> executing, acting |-> acting, status |-> status, timer |-> timer])
    BY DEF Run
  <2> HIDE DEF k
  <2> QED
    BY <1>1, <2>1 DEF RunWorkUnits, RunUnits
<1>3. Width \in Nat \ {0} \/ (Width = MaxUnits /\ class \in {"concurrent", "aggregated"})
  <2>1. IsFiniteSet(1..MaxUnits) /\ Cardinality(1..MaxUnits) = IF 1 > MaxUnits THEN 0 ELSE MaxUnits - 1 + 1
    BY PipelinesAssumption, FS_Interval
  <2>2. CASE class = "pooled"
    BY <2>2, PipelinesAssumption DEF Width
  <2>3. CASE class = "waterfall"
    BY <2>3 DEF Width
  <2>4. CASE class \notin {"pooled", "waterfall"}
    <3>1. Width = Cardinality(Units)
      BY <2>4, Zenon DEF Width
    <3> QED
      BY <1>1, <2>1, <2>4, <3>1, PipelinesAssumption DEF Units, Types
  <2> QED
    BY <2>2, <2>3, <2>4
<1>4. k \in 0..Len(work)
  <2>1. Len(work) \in Nat /\ MaxUnits \in Nat
    BY <1>1, LenProperties, PipelinesAssumption DEF Types
  <2> HIDE DEF k
  <2> QED
    BY <1>3, <2>1 DEF k
<1> HIDE DEF k
<1>5. /\ Line' = Line /\ Total' = Total
      /\ work' \in Seq(Units) /\ Len(work') = Len(work) - k /\ started' \in Seq(Units)
      /\ ToSet(started') = ToSet(started) \cup new
      /\ IsFiniteSet(new) /\ Cardinality(new) = k
  BY <1>1, <1>2, <1>4, Starts
<1>6. /\ ToSet(started) = {} /\ timer = {} /\ acting = {} /\ Len(results) = 0
  BY <1>1, EmptySeq DEF IInv, Owned, ToSet
<1> HIDE DEF new
<1>7. Types'
  BY <1>1, <1>2, <1>5 DEF Types
<1>8. Turns'
  BY <1>1, <1>5, TurnsKept
<1>9. Filled'
  <2> SUFFICES ASSUME class = "pooled"
               PROVE  /\ Cardinality(running') <= Concurrency
                      /\ work' # <<>> => Cardinality(running') = Concurrency
    BY <1>1 DEF Filled
  <2>1. Width = Concurrency /\ Concurrency \in Nat \ {0} /\ Len(work) \in Nat
    BY <1>1, PipelinesAssumption, LenProperties DEF Width, Types
  <2>2. work' # <<>> => Len(work') \in Nat \ {0}
    BY <1>5, EmptySeq
  <2>3. k \in Nat /\ k <= Concurrency /\ (k = Len(work) \/ k = Concurrency)
    BY <2>1 DEF k
  <2>4. work' # <<>> => k = Concurrency
    BY <1>5, <2>1, <2>2, <2>3
  <2>5. Cardinality(running') = k
    BY <1>2, <1>5
  <2> QED
    BY <2>3, <2>4, <2>5
<1>10. Owned' /\ Recorded'
  BY <1>1, <1>2, <1>5, <1>6 DEF Owned, Recorded
<1>11. Timed' /\ ReportedOnce' /\ Untimed'
  BY <1>1, <1>2, <1>6 DEF Timed, ReportedOnce, Untimed
<1>12. work = <<>> => new = {}
  <2> SUFFICES ASSUME work = <<>> PROVE new = {}
    OBVIOUS
  <2>1. k = 0
    BY <1>4, EmptySeq
  <2> QED
    BY <1>5, <2>1, FS_EmptySet
<1>13. NoUnitForgotten'
  <2> SUFFICES ASSUME work = <<>>, NEW u \in (1..added) \ ignored PROVE FALSE
    BY <1>1 DEF NoUnitForgotten
  <2>1. \E i \in 1..Len(started) : started[i] = u
    BY <1>1, AllStarted
  <2> QED
    BY <1>1, <2>1, EmptySeq
<1>14. Gathered' /\ Opened'
  BY <1>1, <1>2, <1>12 DEF IInv, Gathered, Gathers, Opened
<1> QED
  BY <1>7, <1>8, <1>9, <1>10, <1>11, <1>13, <1>14 DEF IInv

\* The handlers of a unit handle its result.
LEMMA Handlers ==
    ASSUME IInv, NEW u \in Units,
           Pass(u) \/ SkipDone(u) \/ FailOther(u) \/ Fail(u) \/ TimeOut(u)
    PROVE  \E result, ex, ac, ti : Handles(u, result, ex, ac, ti)
<1>1. /\ executing \subseteq ToSet(started) /\ acting \subseteq executing /\ timer \subseteq ToSet(started)
      /\ ~timeout => timer = {}
  BY DEF IInv, Owned, Untimed
<1>2. CASE Pass(u)
  <2> DEFINE s == [Settled(u, "passed") EXCEPT !.timer = @ \ {u}]
  <2>1. /\ s.executing = executing \ {u} /\ s.acting = acting \ {u} /\ s.timer = timer \ {u}
        /\ u \in acting /\ HandleResult(u, "value", s)
    BY <1>2 DEF Pass, Settled
  <2> HIDE DEF s
  <2>2. Handled(u, "value", executing \ {u}, acting \ {u}, timer \ {u})
    BY <1>1, <2>1, HandleIs
  <2>3. Handles(u, "value", executing \ {u}, acting \ {u}, timer \ {u})
    BY <1>1, <2>1, <2>2 DEF Handles, Kinds
  <2> QED
    BY <2>3
<1>3. CASE SkipDone(u)
  <2> DEFINE s == [Settled(u, status[u]) EXCEPT !.timer = @ \ {u}]
  <2>1. /\ s.executing = executing \ {u} /\ s.acting = acting \ {u} /\ s.timer = timer \ {u}
        /\ u \in executing /\ HandleResult(u, "input", s)
    BY <1>3 DEF SkipDone, Settled
  <2> HIDE DEF s
  <2>2. Handled(u, "input", executing \ {u}, acting \ {u}, timer \ {u})
    BY <1>1, <2>1, HandleIs
  <2>3. Handles(u, "input", executing \ {u}, acting \ {u}, timer \ {u})
    BY <1>1, <2>1, <2>2 DEF Handles, Kinds
  <2> QED
    BY <2>3
<1>4. CASE FailOther(u)
  <2> DEFINE s == [Settled(u, "failed") EXCEPT !.timer = @ \ {u}]
  <2>1. /\ s.executing = executing \ {u} /\ s.acting = acting \ {u} /\ s.timer = timer \ {u}
        /\ u \in acting /\ HandleResult(u, "undefined", s)
    BY <1>4 DEF FailOther, Settled
  <2> HIDE DEF s
  <2>2. Handled(u, "undefined", executing \ {u}, acting \ {u}, timer \ {u})
    BY <1>1, <2>1, HandleIs
  <2>3. Handles(u, "undefined", executing \ {u}, acting \ {u}, timer \ {u})
    BY <1>1, <2>1, <2>2 DEF Handles, Kinds
  <2> QED
    BY <2>3
<1>5. CASE Fail(u)
  <2> DEFINE s == Settled(u, "failed")
  <2>1. /\ s.executing = executing \ {u} /\ s.acting = acting \ {u} /\ s.timer = timer
        /\ u \in acting /\ HandleResult(u, "error", s)
    BY <1>5 DEF Fail, Settled
  <2> HIDE DEF s
  <2>2. Handled(u, "error", executing \ {u}, acting \ {u}, timer)
    BY <1>1, <2>1, HandleIs
  <2>3. Handles(u, "error", executing \ {u}, acting \ {u}, timer)
    BY <1>1, <2>1, <2>2 DEF Handles, Kinds
  <2> QED
    BY <2>3
<1>6. CASE TimeOut(u)
  <2> DEFINE s == [executing |-> executing, acting |-> acting, status |-> status, timer |-> timer \ {u}]
  <2>1. /\ s.executing = executing /\ s.acting = acting /\ s.timer = timer \ {u}
        /\ u \in timer /\ HandleResult(u, "timeout", s)
    BY <1>6 DEF TimeOut
  <2> HIDE DEF s
  <2>2. Handled(u, "timeout", executing, acting, timer \ {u})
    BY <1>1, <2>1, HandleIs
  <2>3. Handles(u, "timeout", executing, acting, timer \ {u})
    BY <1>1, <2>1, <2>2 DEF Handles, Kinds
  <2> QED
    BY <2>3
<1> QED
  BY <1>2, <1>3, <1>4, <1>5, <1>6

LEMMA NextIInv == IInv /\ [Next]_vars => IInv'
<1> SUFFICES ASSUME IInv, [Next]_vars PROVE IInv'
  OBVIOUS
<1>1. CASE \E u \in Units : Pass(u) \/ SkipDone(u) \/ FailOther(u) \/ Fail(u) \/ TimeOut(u)
  BY <1>1, Handlers, HandledIInv
<1>2. CASE \E u \in Units : Skip(u)
  BY <1>2, IdleIInv DEF Skip
<1>3. CASE Finished \/ UNCHANGED vars
  BY <1>3, IdleIInv DEF Finished, vars, unitVars
<1> QED
  BY <1>1, <1>2, <1>3, AddIInv, RunIInv DEF Next

-----------------------------------------------------------------------------
(* The theorems.                                                           *)

\* The invariant holds in every state.
THEOREM Invariance == Spec => []IInv
BY InitIInv, NextIInv, PTL DEF Spec, Safe

LEMMA PrefixIs ==
    ASSUME NEW S, NEW s \in Seq(S), NEW t \in Seq(S), Len(s) <= Len(t), \A i \in 1..Len(s) : s[i] = t[i]
    PROVE  IsPrefix(s, t)
<1> DEFINE n == Len(s)
<1>1. n \in Nat /\ Len(t) \in Nat /\ n <= Len(t)
      /\ (\A i \in 1..n : s[i] \in S) /\ (\A i \in 1..Len(t) : t[i] \in S)
  BY LenProperties, ElementOfSeq
<1>2. \A i \in 1..n : t[i] \in S
  BY <1>1
<1>3. /\ SubSeq(s, 1, n) \in Seq(S) /\ SubSeq(t, 1, n) \in Seq(S)
      /\ Len(SubSeq(s, 1, n)) = n /\ Len(SubSeq(t, 1, n)) = n
      /\ \A i \in 1..n : SubSeq(s, 1, n)[i] = s[i]
      /\ \A i \in 1..n : SubSeq(t, 1, n)[i] = t[i]
  BY <1>1, <1>2, SubSeqProperties
<1>4. SubSeq(s, 1, n) = SubSeq(t, 1, n)
  BY <1>3, SeqEqual
<1> QED
  BY <1>1, <1>4 DEF IsPrefix

LEMMA InTurn == Types /\ Turns => StartOrder
<1> SUFFICES ASSUME Types, Turns
             PROVE  IF filo THEN late \cup ignored = {} => IsPrefix(started, Reverse(Numbers(added)))
                    ELSE IsPrefix(started, Numbers(added))
  BY DEF StartOrder
<1>1. /\ Len(started) \in Nat /\ Len(work) \in Nat /\ added \in Nat /\ started \in Seq(Units)
      /\ started \in Seq(Nat)
  <2>1. Len(started) \in Nat /\ Len(work) \in Nat /\ added \in Nat /\ started \in Seq(Units)
    BY LenProperties DEF Types
  <2>2. Units \subseteq Nat
    BY DEF Units
  <2>3. started \in Seq(Nat)
    BY <2>1, <2>2, SeqMonotonic
  <2> QED
    BY <2>1, <2>3
<1>2. \A i \in 1..Len(started) : i \in 1..Total /\ Line[i] = started[i]
  BY <1>1 DEF Total, Line
<1>3. Len(started) <= Total /\ Total \in Nat
  BY <1>1 DEF Total
<1>4. /\ Numbers(added) \in Seq(Nat) /\ Len(Numbers(added)) = added
      /\ \A i \in 1..added : Numbers(added)[i] = i
  BY <1>1 DEF Numbers
<1>5. CASE filo
  <2> SUFFICES ASSUME late \cup ignored = {} PROVE IsPrefix(started, Reverse(Numbers(added)))
    BY <1>5
  <2> DEFINE back == Reverse(Numbers(added))
  <2>1. back = [i \in 1..added |-> Numbers(added)[added - i + 1]]
    BY <1>4 DEF Reverse
  <2>2. \A i \in 1..added : Numbers(added)[added - i + 1] = added - i + 1 /\ added - i + 1 \in Nat
    BY <1>1 DEF Numbers
  <2> HIDE DEF back
  <2>3. back \in Seq(Nat) /\ Len(back) = added /\ \A i \in 1..added : back[i] = added + 1 - i
    BY <1>1, <2>1, <2>2
  <2>4. Total = added /\ \A i \in 1..Total : Line[i] = added + 1 - i
    BY <1>5 DEF Turns
  <2>5. Len(started) <= Len(back) /\ \A i \in 1..Len(started) : started[i] = back[i]
    BY <1>1, <1>2, <1>3, <2>3, <2>4
  <2> QED
    BY <1>1, <2>3, <2>5, PrefixIs DEF back
<1>6. CASE ~filo
  <2>1. \A i \in 1..Total : Line[i] = i /\ i \in 1..added
    BY <1>6 DEF Turns
  <2>2. Total <= added
    BY <1>1, <1>3, <2>1
  <2> HIDE DEF Numbers
  <2>3. Len(started) <= Len(Numbers(added)) /\ \A i \in 1..Len(started) : started[i] = Numbers(added)[i]
    BY <1>1, <1>2, <1>3, <1>4, <2>1, <2>2
  <2> QED
    BY <1>1, <1>4, <1>6, <2>3, PrefixIs
<1> QED
  BY <1>5, <1>6

\* Units start in their turn, a pool is full while units wait and without a timeout
\* never executes more than `concurrency' of them, a unit is reported once unless it
\* timed out before its result or failed before its timeout, and run() never resolves
\* without a unit (pooled.pipeline.ts:61-117, waterfall.pipeline.ts:19-23,
\* aggregated.pipeline.ts:24-34): UnitsInTurn.
THEOREM InTheirTurn == Spec => []UnitsInTurn
<1>1. IInv => UnitsInTurn
  <2> SUFFICES ASSUME IInv PROVE PoolSize
    BY InTurn DEF IInv, UnitsInTurn
  <2> QED
    BY DEF IInv, Filled, Untimed, PoolSize
<1> QED
  BY <1>1, Invariance, PTL

-----------------------------------------------------------------------------
(* The refinement of AggregateRun.                                         *)

Members == (1..added) \ ignored

\* What was started, and what waits, was added in time.
LEMMA StartedMembers ==
    ASSUME Types, Turns, phase \in {"open", "running"}
    PROVE  /\ ToSet(started) \subseteq Members
           /\ work # <<>> => Members # {}
           /\ IsFiniteSet(ToSet(started)) /\ Cardinality(ToSet(started)) = Len(started)
           /\ work # <<>> => \E u \in Members : u \notin ToSet(started)
<1>1. Len(started) \in Nat /\ Len(work) \in Nat /\ started \in Seq(Units) /\ work \in Seq(Units)
  BY LenProperties DEF Types
<1>2. \A i \in 1..Total : Line[i] \in Members
  BY DEF Turns, Members
<1>3. \A i \in 1..Len(started) : i \in 1..Total /\ Line[i] = started[i]
  BY <1>1 DEF Total, Line
<1>4. \A x : x \in ToSet(started) <=> \E i \in 1..Len(started) : started[i] = x
  BY <1>1, InSeq
<1>5. ToSet(started) \subseteq Members
  BY <1>2, <1>3, <1>4
<1>6. ASSUME work # <<>> PROVE \E u \in Members : u \notin ToSet(started)
  <2>1. Len(started) + 1 \in 1..Total /\ \A i \in 1..Len(started) : i # Len(started) + 1
    BY <1>1, <1>6, EmptySeq DEF Total
  <2>2. Line[Len(started) + 1] \in Members
    BY <1>2, <2>1
  <2>3. \A i \in 1..Len(started) : started[i] # Line[Len(started) + 1]
    BY <1>3, <2>1 DEF Turns
  <2> QED
    BY <1>4, <2>2, <2>3
<1>7. Distinct(started)
  BY <1>3 DEF Turns, Distinct
<1> QED
  BY <1>1, <1>5, <1>6, <1>7, DistinctCard

\* A unit without an entry has no outcome.
LEMMA OutcomeIs ==
    ASSUME results \in Seq(Results), NEW u
    PROVE  Outcome(u) = "none" <=> \A i \in 1..Len(results) : results[i].unit # u
<1>1. DOMAIN results = 1..Len(results)
  BY LenProperties
<1> QED
  BY <1>1 DEF Outcome, EntriesOf

LEMMA AggregateInit == Init => (Gathers => Aggregate!Init)
<1> SUFFICES ASSUME Init PROVE Aggregate!Init
  OBVIOUS
<1>1. phase = "open" /\ added = 0 /\ ignored = {} /\ results = <<>> /\ response = <<>>
  BY DEF Init
<1>2. \A u : Outcome(u) = "none"
  BY <1>1 DEF Outcome, EntriesOf
<1>3. (1..added) \ ignored = {}
  BY <1>1
<1> QED
  BY <1>1, <1>2, <1>3 DEF Aggregate!Init

\* AggregateRun counts with the Cardinality it extends.
LEMMA SameCardinality == \A S : Aggregate!Cardinality(S) = Cardinality(S)
BY DEF Aggregate!Cardinality, Cardinality

\* The answer of an aggregate has an entry for each of its units.
LEMMA AnswerCounts ==
    ASSUME IInv, Gathers, NEW u, NEW result, NEW ex, NEW ac, NEW ti, Handles(u, result, ex, ac, ti),
           phase' = "resolved", phase = "running"
    PROVE  work = <<>> /\ running \ {u} = {} /\ ToSet(started) = Members /\ Len(response') = Cardinality(Members)
<1>1. /\ Types /\ Turns /\ u \in Units /\ result \in Kinds
      /\ results' = Append(results, [unit |-> u, result |-> result])
      /\ Answer(result = "error", running \ {u})
  BY InSeq DEF IInv, Types, Handles, Handled
<1>2. /\ results' \in Seq(Results) /\ Len(results) \in Nat /\ Len(results') = Len(results) + 1
      /\ \A i \in 1..Len(results) : results'[i] = results[i]
      /\ results'[Len(results) + 1].unit = u
      /\ \A i \in 1..Len(results') : i \in 1..Len(results) \/ i = Len(results) + 1
  BY <1>1, ResultAdded
<1>3. /\ work = <<>> /\ running \ {u} = {}
      /\ response' = CASE class = "pooled" -> results'
           [] class = "waterfall" -> <<Last(results')>>
           [] OTHER -> InOrder(results')
  BY <1>1, HandledPhase
<1>4. /\ ToSet(started) \subseteq Members
      /\ IsFiniteSet(ToSet(started)) /\ Cardinality(ToSet(started)) = Len(started)
  BY <1>1, StartedMembers
<1>5. Members \subseteq ToSet(started)
  <2> SUFFICES ASSUME NEW v \in Members PROVE v \in ToSet(started)
    OBVIOUS
  <2>1. \E i \in 1..Len(started) : started[i] = v
    BY <1>1, <1>3, AllStarted DEF Members
  <2> QED
    BY <1>1, <2>1, InSeq DEF Types
<1>6. ToSet(started) = Members
  BY <1>4, <1>5
<1>7. CASE class = "aggregated"
  <2>1. response' = InOrder(results')
    BY <1>3, <1>7
  <2>2. Len(started) \in Nat
    BY <1>1, LenProperties DEF Types
  <2>3. Len(InOrder(results')) = Len(started)
    BY <2>2 DEF InOrder
  <2> QED
    BY <1>3, <1>4, <1>6, <2>1, <2>3
<1>8. CASE class = "pooled" /\ ~timeout
  <2> DEFINE units == [i \in 1..Len(results') |-> results'[i].unit]
  <2>1. \A i \in 1..Len(results') : results'[i].unit \in ToSet(started)
    BY <1>2 DEF IInv, Owned, Handles
  <2>2. units \in Seq(ToSet(started)) /\ Len(units) = Len(results')
    BY <1>2, <2>1
  <2>3. u \in running /\ \A i \in 1..Len(results) : results[i].unit # u
    BY <1>8 DEF IInv, Untimed, Handles
  <2>4. \A i, j \in 1..Len(results') : i # j => results'[i].unit # results'[j].unit
    BY <1>2, <1>8, <2>3 DEF IInv, Untimed
  <2>5. Distinct(units)
    BY <2>2, <2>4 DEF Distinct
  <2>6. ASSUME NEW v \in ToSet(started) PROVE \E i \in 1..Len(results') : units[i] = v
    <3>1. v = u \/ \E i \in 1..Len(results) : results[i].unit = v
      BY <1>3 DEF IInv, Recorded
    <3>2. Len(results) + 1 \in 1..Len(results') /\ \A i \in 1..Len(results) : i \in 1..Len(results')
      BY <1>2
    <3> QED
      BY <1>2, <3>1, <3>2
  <2> HIDE DEF units
  <2>7. ToSet(units) = ToSet(started)
    <3>1. \A x : x \in ToSet(units) <=> \E i \in 1..Len(results') : units[i] = x
      BY <2>2, InSeq
    <3>2. \A i \in 1..Len(results') : units[i] \in ToSet(started)
      BY <2>2, ElementOfSeq
    <3> QED
      BY <2>6, <3>1, <3>2
  <2>8. Cardinality(ToSet(units)) = Len(results')
    BY <2>2, <2>5, DistinctCard
  <2>9. response' = results'
    BY <1>3, <1>8
  <2> QED
    BY <1>3, <1>6, <2>7, <2>8, <2>9
<1> QED
  BY <1>7, <1>8 DEF Gathers

\* The first result of a unit settles it, and the last of them answers.
LEMMA AggregateSettles ==
    ASSUME IInv, IInv', Gathers, NEW u, NEW result, NEW ex, NEW ac, NEW ti, Handles(u, result, ex, ac, ti)
    PROVE  Aggregate!Next
<1> DEFINE out == IF result = "error" THEN "error" ELSE "value"
<1>1. /\ Types /\ Turns /\ u \in Units /\ result \in Kinds /\ u \in ToSet(started)
      /\ results \in Seq(Results)
      /\ results' = Append(results, [unit |-> u, result |-> result])
      /\ Answer(result = "error", running \ {u})
      /\ UNCHANGED <<class, timeout, added, ignored>>
  <2>1. /\ Types /\ Turns /\ results \in Seq(Results) /\ started \in Seq(Units)
        /\ u \in ToSet(started) /\ result \in Kinds
    BY DEF IInv, Types, Handles
  <2>2. u \in Units
    BY <2>1, InSeq
  <2>3. /\ results' = Append(results, [unit |-> u, result |-> result])
        /\ Answer(result = "error", running \ {u})
        /\ UNCHANGED <<class, timeout, added, ignored>>
    BY DEF Handles, Handled, options
  <2> QED
    BY <2>1, <2>2, <2>3
<1>2. /\ results' \in Seq(Results) /\ Len(results) \in Nat /\ Len(results') = Len(results) + 1
      /\ \A i \in 1..Len(results) : results'[i] = results[i]
      /\ results'[Len(results) + 1].unit = u /\ results'[Len(results) + 1].result = result
      /\ \A i \in 1..Len(results') : i \in 1..Len(results) \/ i = Len(results) + 1
  BY <1>1, ResultAdded
<1>3. ~timeout /\ u \in running
  BY DEF IInv, Types, Gathers, Untimed, Handles
<1>4. phase = "running"
  BY <1>1, <1>3 DEF IInv, Types, Opened, Gathered
<1>5. phase' = "running" \/ phase' = "resolved"
  BY <1>1, <1>4, HandledPhase DEF Gathers
<1>6. /\ ToSet(started) \subseteq Members
      /\ work # <<>> => \E v \in Members : v \notin ToSet(started)
  BY <1>1, <1>4, StartedMembers
<1>7. Outcome(u) = "none" /\ Outcome(u)' = out
  <2>1. \A i \in 1..Len(results) : results[i].unit # u
    BY <1>3 DEF IInv, Untimed
  <2>2. Len(results) + 1 \in 1..Len(results') /\ DOMAIN results' = 1..Len(results')
    BY <1>2, LenProperties
  <2>3. EntriesOf(u, results') = {Len(results) + 1}
    BY <1>2, <2>1, <2>2 DEF EntriesOf
  <2> QED
    BY <1>1, <1>2, <2>1, <2>3, OutcomeIs DEF Outcome
<1>8. ASSUME NEW v, v # u PROVE Outcome(v)' = Outcome(v)
  <2>1. DOMAIN results = 1..Len(results) /\ DOMAIN results' = 1..Len(results')
    BY <1>1, <1>2, LenProperties
  <2>2. \A i \in 1..Len(results) : i \in 1..Len(results')
    BY <1>2
  <2>3. EntriesOf(v, results') = EntriesOf(v, results)
    BY <1>2, <1>8, <2>1, <2>2 DEF EntriesOf
  <2>4. \A i \in EntriesOf(v, results) : results'[i] = results[i]
    BY <1>2, <2>1 DEF EntriesOf
  <2> QED
    BY <2>3, <2>4 DEF Outcome
<1>9. [w \in Units |-> Outcome(w)]' = [[w \in Units |-> Outcome(w)] EXCEPT ![u] = out]
  BY <1>7, <1>8
<1>10. phase' = "resolved" => (\A v \in Members : Outcome(v)' # "none") /\ Len(response') = Cardinality(Members)
  <2> SUFFICES ASSUME phase' = "resolved"
               PROVE  (\A v \in Members : Outcome(v)' # "none") /\ Len(response') = Cardinality(Members)
    OBVIOUS
  <2>1. work = <<>> /\ running \ {u} = {} /\ ToSet(started) = Members /\ Len(response') = Cardinality(Members)
    BY <1>4, AnswerCounts
  <2>2. ASSUME NEW v \in Members PROVE Outcome(v)' # "none"
    <3>1. CASE v = u
      BY <1>7, <3>1
    <3>2. CASE v # u
      <4>1. \E i \in 1..Len(results) : results[i].unit = v
        BY <2>1, <3>2 DEF IInv, Recorded
      <4> QED
        BY <1>1, <1>8, <3>2, <4>1, OutcomeIs
    <3> QED
      BY <3>1, <3>2
  <2> QED
    BY <2>1, <2>2
<1>11. phase' # "resolved" => (\E v \in Members : Outcome(v)' = "none") /\ Len(response') = 0
  <2> SUFFICES ASSUME phase' # "resolved" PROVE (\E v \in Members : Outcome(v)' = "none") /\ Len(response') = 0
    OBVIOUS
  <2>1. Len(response') = 0
    BY EmptySeq DEF IInv, Gathered
  <2>2. CASE work # <<>>
    <3>1. PICK v \in Members : v \notin ToSet(started)
      BY <1>6, <2>2
    <3>2. \A i \in 1..Len(results) : results[i].unit # v
      BY <3>1 DEF IInv, Owned
    <3> QED
      BY <1>1, <1>8, <2>1, <3>1, <3>2, OutcomeIs
  <2>3. CASE \E v \in running : v # u
    <3>1. PICK v \in running : v # u
      BY <2>3
    <3>2. v \in Members
      BY <1>6 DEF IInv, Owned
    <3>3. \A i \in 1..Len(results) : results[i].unit # v
      BY <1>3 DEF IInv, Untimed
    <3> QED
      BY <1>1, <1>8, <2>1, <3>1, <3>2, <3>3, OutcomeIs
  <2>4. work # <<>> \/ \E v \in running : v # u
    BY <1>1, <1>4, <1>5 DEF Answer, Complete, Gathers
  <2> QED
    BY <2>2, <2>3, <2>4
<1>12. u \in Members /\ out \in {"value", "error"}
  BY <1>1, <1>6
<1> HIDE DEF out
<1>13. Aggregate!Settle(u, out)
  <2>1. Len(response') = (IF \A v \in Members : Outcome(v)' # "none" THEN Cardinality(Members) ELSE 0)
    BY <1>10, <1>11
  <2>2. phase' = (IF \A v \in Members : Outcome(v)' # "none" THEN "resolved" ELSE "running")
    BY <1>5, <1>10, <1>11
  <2> DEFINE state == IF phase = "resolved" THEN "answered" ELSE phase
             outcome == [w \in Units |-> Outcome(w)]
  <2>3. Members' = Members /\ Members \subseteq Units
    BY <1>1, PipelinesAssumption DEF Members, Types, Units
  <2>4. state = "running" /\ outcome[u] = "none" /\ outcome' = [outcome EXCEPT ![u] = out]
    BY <1>1, <1>4, <1>7, <1>9
  <2>5. \A v \in Members : outcome'[v] = Outcome(v)'
    BY <2>3
  <2>6. /\ state' = (IF \A v \in Members : outcome'[v] # "none" THEN "answered" ELSE "running")
        /\ Len(response') = (IF \A v \in Members : outcome'[v] # "none" THEN Cardinality(Members) ELSE 0)
    BY <1>5, <2>1, <2>2, <2>5
  <2> QED
    BY <1>12, <2>3, <2>4, <2>6, SameCardinality DEF Aggregate!Settle, Members
<1> QED
  BY <1>1, <1>12, <1>13 DEF Aggregate!Next, Aggregate!Outcomes

LEMMA AggregateAdds == ASSUME IInv, Gathers, Add PROVE Aggregate!Next \/ UNCHANGED Aggregate!vars
<1>1. /\ added \in Nat /\ added + 1 \in Units /\ added' = added + 1 /\ ignored \subseteq 1..added
      /\ UNCHANGED <<phase, results, response>>
      /\ phase \in {"open", "running", "resolved", "rejected"}
  BY PipelinesAssumption DEF Add, IInv, Types, Units
<1>2. [u \in Units |-> Outcome(u)]' = [u \in Units |-> Outcome(u)]
  BY <1>1 DEF Outcome, EntriesOf
<1>3. CASE ignored' = ignored /\ phase \in {"open", "running"}
  <2>1. Members' = Members \cup {added + 1}
    BY <1>1, <1>3 DEF Members
  <2>2. Aggregate!Add(added + 1)
    BY <1>1, <1>2, <1>3, <2>1 DEF Aggregate!Add, Members
  <2> QED
    BY <1>1, <2>2 DEF Aggregate!Next
<1>4. CASE ignored' = ignored \cup {added + 1}
  <2>1. Members' = Members
    BY <1>1, <1>4 DEF Members
  <2> QED
    BY <1>1, <1>2, <2>1 DEF Aggregate!vars, Members
<1> QED
  BY <1>3, <1>4 DEF Add, IInv, Gathered

LEMMA AggregateRuns == ASSUME IInv, Gathers, Run PROVE Aggregate!Next
<1>1. /\ Types /\ Turns /\ phase = "open" /\ started = <<>>
      /\ phase' = (IF work = <<>> THEN "resolved" ELSE "running")
      /\ UNCHANGED <<results, response, added, ignored>>
  BY DEF Run, IInv, Opened
<1>2. work = <<>> <=> Members = {}
  <2>1. work # <<>> => Members # {}
    BY <1>1, StartedMembers
  <2>2. ASSUME work = <<>>, NEW u \in Members PROVE FALSE
    <3>1. \E i \in 1..Len(started) : started[i] = u
      BY <1>1, <2>2, AllStarted DEF Members
    <3> QED
      BY <1>1, <3>1, EmptySeq
  <2> QED
    BY <2>1, <2>2
<1>3. [u \in Units |-> Outcome(u)]' = [u \in Units |-> Outcome(u)]
  BY <1>1 DEF Outcome, EntriesOf
<1>4. Aggregate!Run
  BY <1>1, <1>2, <1>3 DEF Aggregate!Run, Members
<1> QED
  BY <1>4 DEF Aggregate!Next

LEMMA AggregateStep ==
    IInv /\ IInv' /\ [Next]_vars => [Gathers => Aggregate!Next]_(Aggregate!vars)
<1> SUFFICES ASSUME IInv, IInv', [Next]_vars, Gathers PROVE Aggregate!Next \/ UNCHANGED Aggregate!vars
  OBVIOUS
<1>1. CASE \E u \in Units : Pass(u) \/ SkipDone(u) \/ FailOther(u) \/ Fail(u) \/ TimeOut(u)
  BY <1>1, Handlers, AggregateSettles
<1>2. CASE (\E u \in Units : Skip(u)) \/ Finished \/ UNCHANGED vars
  <2>1. UNCHANGED <<phase, results, response, added, ignored>>
    BY <1>2 DEF Skip, Finished, vars, pipeVars
  <2>2. [u \in Units |-> Outcome(u)]' = [u \in Units |-> Outcome(u)]
    BY <2>1 DEF Outcome, EntriesOf
  <2> QED
    BY <2>1, <2>2 DEF Aggregate!vars
<1> QED
  BY <1>1, <1>2, AggregateAdds, AggregateRuns DEF Next

\* An aggregated pipeline, and a pool without a timeout, implements AggregateRun:
\* every unit that is added in time gets one outcome, and the answer comes with
\* the last of them and has an entry for each (pooled.pipeline.ts:53-110,
\* aggregated.pipeline.ts:24-34): Aggregates.
THEOREM Refines == Spec => Aggregates
<1>1. Spec => (Gathers => Aggregate!Init)
  BY AggregateInit, PTL DEF Spec, Safe
<1>2. Spec => [][Gathers => Aggregate!Next]_(Aggregate!vars)
  BY Invariance, AggregateStep, PTL DEF Spec, Safe
<1> QED
  BY <1>1, <1>2, PTL DEF Aggregates
=============================================================================
