---------------------------- MODULE ServiceProofs ----------------------------
(***************************************************************************)
(* The plugin registry, the config finder and the file transport of the    *)
(* logger keep their promises for any plugins, batches and removals, for   *)
(* any files, loads, edits and clears of the caches, and for any lines,    *)
(* sizes, periods and failures.                                            *)
(*                                                                         *)
(* The first two keep what they hold in sequences that they filter, so the *)
(* lemmas on Subsequence come first.  The argument for the registry: every *)
(* plugin is pushed once, the registry is always ordered by priority and   *)
(* then by pushing (Ordered), and what is pushed and not there any more    *)
(* was shut down or answers to a name that what was shut down answers to   *)
(* (Gone).  The argument for the finder: its caches and its loads share    *)
(* the objects of a file and never those of two files (Apart), a setting   *)
(* is in the object or one load took it (TakenOnce), what a load has       *)
(* stays as new as the file was when the load began (Newer), and what a    *)
(* load took is what it found (LoadInv).  The argument for the transport:  *)
(* lastSize is the size of the file whenever a stream is there (Sized), a  *)
(* stream that is opened while a rotation is not over gets nothing         *)
(* (Unwritten), lines are held only while they cannot be written           *)
(* (HeldBack), and the rotated files of a period are numbered without a    *)
(* gap, so that the next name is the last (Numbered).                      *)
(***************************************************************************)
EXTENDS PluginRegistry, ConfigFinder, FileTransport, SequenceTheorems, FiniteSetTheorems, TLAPS

-----------------------------------------------------------------------------
(* Subsequences.                                                           *)

\* Counting up to each of some places numbers them.
LEMMA PlaceIs ==
    ASSUME NEW n \in Nat, NEW K \in SUBSET (1..n)
    PROVE  /\ Cardinality(K) \in Nat
           /\ \A k \in 1..Cardinality(K) : Place(K, k) \in K
           /\ \A i \in K : \E k \in 1..Cardinality(K) : Place(K, k) = i
           /\ \A j, k \in 1..Cardinality(K) : j < k => Place(K, j) < Place(K, k)
<1> DEFINE upTo(i) == {j \in K : j <= i}
           f == [i \in K |-> Cardinality(upTo(i))]
           N == Cardinality(K)
<1>1. IsFiniteSet(K) /\ N \in Nat
  <2>1. IsFiniteSet(1..n)
    BY FS_Interval
  <2>2. IsFiniteSet(K)
    BY <2>1, FS_Subset
  <2> QED
    BY <2>2, FS_CardinalityType
<1>2. \A i \in K : /\ IsFiniteSet(upTo(i)) /\ Cardinality(upTo(i)) \in Nat
                   /\ Cardinality(upTo(i)) <= N
  BY <1>1, FS_Subset, FS_CardinalityType
<1>3. \A i \in K : Cardinality(upTo(i)) # 0
  <2> SUFFICES ASSUME NEW i \in K, Cardinality(upTo(i)) = 0 PROVE FALSE
    OBVIOUS
  <2>1. upTo(i) = {}
    BY <1>2, FS_EmptySet
  <2>2. i \in upTo(i)
    OBVIOUS
  <2> QED
    BY <2>1, <2>2
<1>4. f \in [K -> 1..N]
  BY <1>1, <1>2, <1>3
<1>5. ASSUME NEW i \in K, NEW j \in K, i < j PROVE Cardinality(upTo(i)) # Cardinality(upTo(j))
  <2>1. upTo(i) \subseteq upTo(j) /\ j \in upTo(j) /\ j \notin upTo(i)
    <3>1. K \subseteq Int /\ i \in Int /\ j \in Int
      OBVIOUS
    <3>2. \A x \in K : x <= i => x <= j
      BY <1>5, <3>1
    <3>3. ~(j <= i) /\ j <= j
      BY <1>5, <3>1
    <3> QED
      BY <3>2, <3>3
  <2>2. upTo(i) # upTo(j)
    BY <2>1
  <2> QED
    BY <1>2, <2>1, <2>2, FS_Subset
<1>6. ASSUME NEW i \in K, NEW j \in K, f[i] = f[j] PROVE i = j
  <2>1. ~(i < j) /\ ~(j < i)
    BY <1>5, <1>6
  <2> QED
    BY <2>1
<1>7. f \in Injection(K, 1..N)
  BY <1>4, <1>6 DEF Injection, IsInjective
<1>8. IsFiniteSet(1..N) /\ Cardinality(1..N) = N
  BY <1>1, FS_Interval
<1>9. f \in Surjection(K, 1..N)
  BY <1>7, <1>8, FS_Injection
<1>10. \A k \in 1..N : \E i \in K : f[i] = k
  BY <1>9 DEF Surjection
<1>11. \A k \in 1..N : Place(K, k) = CHOOSE i \in {i \in K : f[i] = k} : TRUE
  BY DEF Place
<1>12. \A k \in 1..N : Place(K, k) \in K /\ f[Place(K, k)] = k
  <2> HIDE DEF f, N
  <2> QED
    BY <1>10, <1>11
<1>13. \A i \in K : f[i] \in 1..N /\ Place(K, f[i]) = i
  <2> HIDE DEF f, N
  <2> QED
    BY <1>4, <1>6, <1>12
<1>14. \A i, j \in K : i < j => f[i] < f[j]
  <2> SUFFICES ASSUME NEW i \in K, NEW j \in K, i < j PROVE f[i] < f[j]
    OBVIOUS
  <2>1. upTo(i) \subseteq upTo(j)
    <3>1. i \in Int /\ j \in Int /\ K \subseteq Int
      OBVIOUS
    <3>2. \A x \in K : x <= i => x <= j
      BY <3>1
    <3> QED
      BY <3>2
  <2>2. Cardinality(upTo(i)) <= Cardinality(upTo(j))
    BY <1>2, <2>1, FS_Subset
  <2>3. f[i] = Cardinality(upTo(i)) /\ f[j] = Cardinality(upTo(j))
    OBVIOUS
  <2> HIDE DEF f, upTo
  <2> QED
    BY <1>2, <1>5, <2>2, <2>3
<1>15. \A j, k \in 1..N : j < k => Place(K, j) < Place(K, k)
  <2> HIDE DEF f, N, upTo
  <2> SUFFICES ASSUME NEW j \in 1..N, NEW k \in 1..N, j < k, ~(Place(K, j) < Place(K, k)) PROVE FALSE
    OBVIOUS
  <2>1. Place(K, j) \in Int /\ Place(K, k) \in Int
    <3>1. K \subseteq Int
      OBVIOUS
    <3> QED
      BY <1>12, <3>1
  <2>2. Place(K, k) < Place(K, j) \/ Place(K, k) = Place(K, j)
    BY <2>1
  <2>3. f[Place(K, k)] = k /\ f[Place(K, j)] = j
    BY <1>12
  <2>4. ~(k < j) /\ k # j
    OBVIOUS
  <2> QED
    BY <1>12, <1>14, <2>2, <2>3, <2>4
<1> HIDE DEF f
<1> QED
  BY <1>1, <1>12, <1>13, <1>15

LEMMA SubsequenceIs ==
    ASSUME NEW S, NEW s \in Seq(S), NEW K \in SUBSET (1..Len(s))
    PROVE  /\ Subsequence(s, K) \in Seq(S)
           /\ Len(Subsequence(s, K)) = Cardinality(K) /\ Cardinality(K) \in Nat
           /\ \A k \in 1..Cardinality(K) : Place(K, k) \in K /\ Subsequence(s, K)[k] = s[Place(K, k)]
           /\ \A i \in K : \E k \in 1..Cardinality(K) : Place(K, k) = i
           /\ \A j, k \in 1..Cardinality(K) : j < k => Place(K, j) < Place(K, k)
<1>1. Len(s) \in Nat /\ \A i \in 1..Len(s) : s[i] \in S
  BY LenProperties, ElementOfSeq
<1> DEFINE N == Cardinality(K)
           t == [k \in 1..N |-> s[Place(K, k)]]
<1>2. /\ N \in Nat
      /\ \A k \in 1..N : Place(K, k) \in K
      /\ \A i \in K : \E k \in 1..N : Place(K, k) = i
      /\ \A j, k \in 1..N : j < k => Place(K, j) < Place(K, k)
  BY <1>1, PlaceIs
<1>3. Subsequence(s, K) = t
  BY DEF Subsequence
<1> HIDE DEF N
<1>4. t \in [1..N -> S]
  BY <1>1, <1>2
<1>5. t \in Seq(S) /\ DOMAIN t = 1..N
  BY <1>2, <1>4 DEF Seq
<1>6. Len(t) = N
  <2> HIDE DEF t
  <2> QED
    BY <1>2, <1>5, LenProperties
<1> QED
  BY <1>2, <1>3, <1>5, <1>6 DEF N

-----------------------------------------------------------------------------
(* The plugin registry.                                                    *)

\* The names that sources are written with, and that plugins come to have.
Sources == {Source[p] : p \in {q \in Plugins : Source[q] # Instance}}
ModuleNames ==
    Sources \cup {OwnName[p] : p \in {q \in Plugins : OwnName[q] # NoName}}
            \cup UNION {ToSet(Lookups(s)) : s \in Sources}

Begun == {"validate", "startup", "afterStartup", "registered"}
Calls == Begun \cup {"idle", "resolve", "rejected"}
Registrations == [plugin : Plugins, priority : Nat]
Shutting == [step : {"idle"}] \cup
            [step : {"shutdown", "afterShutdown", "done"}, plugin : Plugins, asked : ModuleNames]

RegistryTypes ==
    /\ loaded \in Nat
    /\ call \in [Plugins -> Calls]
    /\ name \in [Plugins -> ModuleNames \cup {NoName}]
    /\ priority \in [Plugins -> Nat]
    /\ plugins \in Seq(Registrations)
    /\ shutting \in [Unregisters -> Shutting]
    /\ startedUp \subseteq Plugins /\ shutDown \subseteq Plugins
    /\ pushed \in Seq(Plugins)

\* The batches that were not loaded are idle, and a plugin that was looked up has its name.
Loaded ==
    /\ \A i \in 1..Len(Batches) : loaded < i => \A p \in ToSet(Batches[i]) : call[p] = "idle"
    /\ \A p \in Plugins : call[p] \in Begun =>
          /\ name[p] \in ModuleNames
          /\ Source[p] # Instance /\ OwnName[p] = NoName => name[p] \in ToSet(Lookups(Source[p]))
    /\ \A p \in Plugins : call[p] = "resolve" => Source[p] # Instance
    /\ \A p \in Plugins : call[p] = "idle" => name[p] = OwnName[p]
    /\ \A p \in Plugins : call[p] \in {"afterStartup", "registered"} => p \in startedUp

\* A plugin is pushed once, and stands in the registry at most once.
PushedOnce ==
    /\ \A k \in 1..Len(pushed) : call[pushed[k]] = "registered"
    /\ \A k, m \in 1..Len(pushed) : pushed[k] = pushed[m] => k = m
    /\ \A i \in 1..Len(plugins) : \E k \in 1..Len(pushed) : pushed[k] = plugins[i].plugin

PushedBefore(p, q) ==
    \E k, m \in 1..Len(pushed) : k < m /\ pushed[k] = p /\ pushed[m] = q
Precedes(r, s) ==
    r.priority < s.priority \/ (r.priority = s.priority /\ PushedBefore(r.plugin, s.plugin))
Ordered == \A i, j \in 1..Len(plugins) : i < j => Precedes(plugins[i], plugins[j])

\* The plugin that is shut down goes by the name that was asked for.
ShutByName ==
    /\ \A u \in Unregisters : shutting[u].step # "idle" =>
          /\ call[shutting[u].plugin] = "registered"
          /\ IsMatchingName(name[shutting[u].plugin], shutting[u].asked)
          /\ shutting[u].step = "afterShutdown" => shutting[u].plugin \in shutDown
    /\ \A p \in shutDown : call[p] = "registered"

\* What was pushed is there, or was shut down or shares a name with what was.
Gone ==
    \A k \in 1..Len(pushed) :
        \/ \E i \in 1..Len(plugins) : plugins[i].plugin = pushed[k]
        \/ pushed[k] \in shutDown
        \/ \E r \in shutDown : Answers(pushed[k]) \cap Answers(r) # {}

RegistryIInv == RegistryTypes /\ Loaded /\ PushedOnce /\ Ordered /\ ShutByName /\ Gone

-----------------------------------------------------------------------------
(* Names and places.                                                       *)

LEMMA NamesAre == \A n \in ModuleNames : IsName(n)
<1>1. \A form, part : IsName(Name(form, part))
  BY DEF IsName, Name
<1>2. \A s \in Sources : IsName(s)
  BY PluginsAssumption DEF Sources
<1>3. ASSUME NEW s \in Sources, NEW n \in ToSet(Lookups(s)) PROVE IsName(n)
  <2>1. CASE s.form = "bare"
    <3>1. Lookups(s) = <<Name("internal", s.part), Name("public", s.part)>>
      BY <2>1 DEF Lookups
    <3> QED
      BY <1>1, <1>3, <3>1 DEF ToSet
  <2>2. CASE s.form = "shorthand"
    <3>1. Lookups(s) = <<Name("custom", s.part)>>
      BY <2>2 DEF Lookups
    <3> QED
      BY <1>1, <1>3, <3>1 DEF ToSet
  <2>3. CASE s.form # "bare" /\ s.form # "shorthand"
    <3>1. Lookups(s) = <<s>>
      BY <2>3 DEF Lookups
    <3> QED
      BY <1>2, <1>3, <3>1 DEF ToSet
  <2> QED
    BY <2>1, <2>2, <2>3
<1> QED
  BY <1>2, <1>3, PluginsAssumption DEF ModuleNames

\* Two plugins that match one name share it.
LEMMA MatchingShare ==
    ASSUME NEW p, NEW r, NEW asked \in ModuleNames,
           IsMatchingName(name[p], asked), IsMatchingName(name[r], asked)
    PROVE  Answers(p) \cap Answers(r) # {}
<1>1. asked = Name(asked.form, asked.part)
  BY NamesAre DEF IsName
<1>2. ASSUME NEW q, IsMatchingName(name[q], asked) PROVE asked \in Answers(q)
  <2>1. CASE name[q] = asked
    BY <2>1 DEF Answers
  <2>2. ASSUME NEW form \in {"internal", "public"}, asked.form = "bare", name[q] = Name(form, asked.part)
        PROVE  asked \in Answers(q)
    <3>1. name[q].form = form /\ name[q].part = asked.part
      BY <2>2 DEF Name
    <3> QED
      BY <1>1, <2>2, <3>1 DEF Answers
  <2> QED
    BY <1>2, <2>1, <2>2 DEF IsMatchingName
<1> QED
  BY <1>2

LEMMA LookupsAre ==
    ASSUME NEW s \in Sources
    PROVE  Lookups(s) \in Seq(ModuleNames)
<1>1. ToSet(Lookups(s)) \subseteq ModuleNames
  BY DEF ModuleNames
<1>2. Lookups(s) \in Seq(ToSet(Lookups(s)))
  <2>1. CASE s.form = "bare"
    <3>1. Lookups(s) = <<Name("internal", s.part), Name("public", s.part)>>
      BY <2>1 DEF Lookups
    <3> QED
      BY <3>1 DEF ToSet
  <2>2. CASE s.form = "shorthand"
    <3>1. Lookups(s) = <<Name("custom", s.part)>>
      BY <2>2 DEF Lookups
    <3> QED
      BY <3>1 DEF ToSet
  <2>3. CASE s.form # "bare" /\ s.form # "shorthand"
    <3>1. Lookups(s) = <<s>>
      BY <2>3 DEF Lookups
    <3> QED
      BY <3>1 DEF ToSet
  <2> QED
    BY <2>1, <2>2, <2>3
<1> QED
  BY <1>1, <1>2

\* Some of the numbers up to n have a least and a greatest.
LEMMA EndPlaces ==
    ASSUME NEW n \in Nat, NEW K \in SUBSET (1..n), K # {}
    PROVE  /\ \E i \in K : \A j \in K : i <= j
           /\ \E i \in K : \A j \in K : j <= i
<1> DEFINE N == Cardinality(K)
<1>1. /\ N \in Nat /\ K \subseteq Int
      /\ \A k \in 1..N : Place(K, k) \in K
      /\ \A i \in K : \E k \in 1..N : Place(K, k) = i
      /\ \A j, k \in 1..N : j < k => Place(K, j) < Place(K, k)
  BY PlaceIs
<1> HIDE DEF N
<1>2. N >= 1
  <2>1. PICK i \in K : TRUE
    OBVIOUS
  <2>2. \E k \in 1..N : Place(K, k) = i
    BY <1>1
  <2> QED
    BY <1>1, <2>2
<1>3. ASSUME NEW j \in K PROVE Place(K, 1) <= j /\ j <= Place(K, N)
  <2>1. PICK k \in 1..N : Place(K, k) = j
    BY <1>1
  <2>2. Place(K, 1) \in Int /\ Place(K, N) \in Int /\ j \in Int
    <3>1. 1 \in 1..N /\ N \in 1..N
      BY <1>1, <1>2
    <3>2. Place(K, 1) \in K /\ Place(K, N) \in K
      BY <1>1, <3>1
    <3> QED
      BY <1>1, <3>2
  <2>3. k = 1 \/ 1 < k
    BY <1>1
  <2>4. k = N \/ k < N
    BY <1>1
  <2>5. Place(K, 1) <= j
    BY <1>1, <1>2, <2>1, <2>2, <2>3
  <2>6. j <= Place(K, N)
    BY <1>1, <1>2, <2>1, <2>2, <2>4
  <2> QED
    BY <2>5, <2>6
<1>4. Place(K, 1) \in K /\ Place(K, N) \in K
  BY <1>1, <1>2
<1> QED
  BY <1>3, <1>4

LEMMA SharedPriorityIs ==
    ASSUME NEW batch \in Seq(Plugins), NEW k \in 0..Len(batch)
    PROVE  SharedPriority(batch, k) \in Nat
<1> DEFINE Own(i) == Source[batch[i]] = Instance /\ OwnPriority[batch[i]] > 0
           last == {i \in 1..k : Own(i)}
<1>1. Len(batch) \in Nat /\ k \in Nat /\ 1..k \subseteq 1..Len(batch)
  BY LenProperties
<1>2. \A i \in 1..k : OwnPriority[batch[i]] \in Nat
  BY <1>1, ElementOfSeq, PluginsAssumption
<1>3. CASE last = {}
  BY <1>3 DEF SharedPriority
<1>4. CASE last # {}
  <2> DEFINE i == CHOOSE i \in last : \A j \in last : j <= i
  <2>1. SharedPriority(batch, k) = OwnPriority[batch[i]]
    BY <1>4 DEF SharedPriority
  <2>2. last \in SUBSET (1..k)
    OBVIOUS
  <2> HIDE DEF last
  <2>3. \E m \in last : \A j \in last : j <= m
    BY <1>1, <1>4, <2>2, EndPlaces
  <2>4. i \in 1..k
    BY <2>2, <2>3
  <2> QED
    BY <1>2, <2>1, <2>4
<1> QED
  BY <1>3, <1>4

\* Where the elements of a sorted list come from, and how two of them come to stand.
InBetween(sorted, list, entry, i, j) ==
    \/ \E a, b \in 1..Len(list) : a < b /\ sorted[i] = list[a] /\ sorted[j] = list[b]
    \/ \E a \in 1..Len(list) : list[a].priority <= entry.priority /\ sorted[i] = list[a] /\ sorted[j] = entry
    \/ \E b \in 1..Len(list) : entry.priority < list[b].priority /\ sorted[i] = entry /\ sorted[j] = list[b]
    \/ \E a, b \in 1..Len(list) : /\ list[a].priority < list[b].priority
                                  /\ sorted[i] = list[a] /\ sorted[j] = list[b]
SortedInto(sorted, list, entry) ==
    /\ sorted \in Seq(Registrations)
    /\ \A i \in 1..Len(sorted) : sorted[i] = entry \/ \E a \in 1..Len(list) : sorted[i] = list[a]
    /\ \A a \in 1..Len(list) : \E i \in 1..Len(sorted) : sorted[i] = list[a]
    /\ \E i \in 1..Len(sorted) : sorted[i] = entry
    /\ \A i, j \in 1..Len(sorted) : i < j => InBetween(sorted, list, entry, i, j)

LEMMA SortedIs ==
    ASSUME NEW list \in Seq(Registrations), NEW entry \in Registrations
    PROVE  SortedInto(Sorted(list, entry), list, entry)
<1> SUFFICES ASSUME NEW sorted, sorted = Sorted(list, entry) PROVE SortedInto(sorted, list, entry)
  OBVIOUS
<1> DEFINE low == {i \in DOMAIN list : list[i].priority <= entry.priority}
           high == {i \in DOMAIN list : list[i].priority > entry.priority}
           s == Subsequence(list, low)
           t == Subsequence(list, high)
           m == Cardinality(low)
           n == Cardinality(high)
<1>1. Len(list) \in Nat /\ DOMAIN list = 1..Len(list) /\ \A a \in 1..Len(list) : list[a] \in Registrations
  BY LenProperties, ElementOfSeq
<1>2. entry.priority \in Nat /\ \A a \in 1..Len(list) : list[a].priority \in Nat
  BY <1>1 DEF Registrations
<1>3. /\ low \in SUBSET (1..Len(list)) /\ high \in SUBSET (1..Len(list))
      /\ \A a \in low : list[a].priority <= entry.priority
      /\ \A a \in high : entry.priority < list[a].priority
      /\ \A a \in 1..Len(list) : a \in low \/ a \in high
  BY <1>1, <1>2
<1>4. sorted = s \o <<entry>> \o t
  BY DEF Sorted
<1> HIDE DEF low, high
<1>5. /\ s \in Seq(Registrations) /\ Len(s) = m /\ m \in Nat
      /\ \A k \in 1..m : Place(low, k) \in low /\ s[k] = list[Place(low, k)]
      /\ \A a \in low : \E k \in 1..m : Place(low, k) = a
      /\ \A j, k \in 1..m : j < k => Place(low, j) < Place(low, k)
  <2>1. low \in SUBSET (1..Len(list))
    BY <1>3
  <2> QED
    BY <2>1, SubsequenceIs
<1>6. /\ t \in Seq(Registrations) /\ Len(t) = n /\ n \in Nat
      /\ \A k \in 1..n : Place(high, k) \in high /\ t[k] = list[Place(high, k)]
      /\ \A a \in high : \E k \in 1..n : Place(high, k) = a
      /\ \A j, k \in 1..n : j < k => Place(high, j) < Place(high, k)
  <2>1. high \in SUBSET (1..Len(list))
    BY <1>3
  <2> QED
    BY <2>1, SubsequenceIs
<1> HIDE DEF s, t, m, n
<1>7. /\ s \o <<entry>> \in Seq(Registrations) /\ Len(s \o <<entry>>) = m + 1
      /\ \A i \in 1..m : (s \o <<entry>>)[i] = s[i]
      /\ (s \o <<entry>>)[m + 1] = entry
  <2>1. <<entry>> \in Seq(Registrations) /\ Len(<<entry>>) = 1 /\ <<entry>>[1] = entry
    OBVIOUS
  <2> QED
    BY <1>5, <2>1, ConcatProperties
<1>8. /\ sorted \in Seq(Registrations) /\ Len(sorted) = m + 1 + n
      /\ \A i \in 1..m : sorted[i] = s[i]
      /\ sorted[m + 1] = entry
      /\ \A k \in 1..n : sorted[m + 1 + k] = t[k]
  <2> DEFINE st == s \o <<entry>>
  <2>1. st \in Seq(Registrations) /\ Len(st) = m + 1 /\ sorted = st \o t
    BY <1>4, <1>7
  <2>2. (\A i \in 1..m : st[i] = s[i]) /\ st[m + 1] = entry
    BY <1>7
  <2> HIDE DEF st
  <2>3. /\ sorted \in Seq(Registrations) /\ Len(sorted) = Len(st) + Len(t)
        /\ \A i \in 1..Len(st) + Len(t) : sorted[i] = IF i <= Len(st) THEN st[i] ELSE t[i - Len(st)]
    <3>1. \A u \in Seq(Registrations) :
             /\ st \o u \in Seq(Registrations) /\ Len(st \o u) = Len(st) + Len(u)
             /\ \A i \in 1..Len(st) + Len(u) : (st \o u)[i] = IF i <= Len(st) THEN st[i] ELSE u[i - Len(st)]
      BY <2>1, ConcatProperties
    <3>2. t \in Seq(Registrations)
      BY <1>6
    <3>3. /\ st \o t \in Seq(Registrations) /\ Len(st \o t) = Len(st) + Len(t)
          /\ \A i \in 1..Len(st) + Len(t) : (st \o t)[i] = IF i <= Len(st) THEN st[i] ELSE t[i - Len(st)]
      BY <3>1, <3>2
    <3> QED
      BY <2>1, <3>3
  <2>4. /\ Len(sorted) = m + 1 + n
        /\ \A i \in 1..m + 1 + n : sorted[i] = IF i <= m + 1 THEN st[i] ELSE t[i - (m + 1)]
    BY <1>6, <2>1, <2>3
  <2>5. \A i \in 1..m + 1 : sorted[i] = st[i]
    BY <1>5, <1>6, <2>4
  <2>6. ASSUME NEW k \in 1..n PROVE sorted[m + 1 + k] = t[k]
    <3>1. PICK i \in 1..m + 1 + n : i = m + 1 + k /\ ~(i <= m + 1) /\ i - (m + 1) = k
      BY <1>5, <1>6
    <3>2. sorted[i] = t[i - (m + 1)]
      BY <2>4, <3>1
    <3> QED
      BY <3>1, <3>2
  <2>7. (\A i \in 1..m : i \in 1..m + 1) /\ m + 1 \in 1..m + 1
    BY <1>5
  <2>8. (\A i \in 1..m : sorted[i] = s[i]) /\ sorted[m + 1] = entry
    BY <2>2, <2>5, <2>7
  <2> QED
    BY <2>3, <2>4, <2>6, <2>8
<1>9. ASSUME NEW i \in 1..Len(sorted)
      PROVE  \/ i \in 1..m /\ Place(low, i) \in low /\ sorted[i] = list[Place(low, i)]
             \/ i = m + 1 /\ sorted[i] = entry
             \/ \E k \in 1..n : i = m + 1 + k /\ Place(high, k) \in high /\ sorted[i] = list[Place(high, k)]
  <2>1. i \in 1..m \/ i = m + 1 \/ i - (m + 1) \in 1..n
    BY <1>5, <1>6, <1>8
  <2>2. CASE i - (m + 1) \in 1..n
    <3>1. PICK k \in 1..n : k = i - (m + 1)
      BY <2>2
    <3>2. i = m + 1 + k
      BY <1>5, <1>6, <1>8, <3>1
    <3> QED
      BY <1>6, <1>8, <3>2
  <2> QED
    BY <1>5, <1>8, <2>1, <2>2
<1>10. \A i \in 1..Len(sorted) : sorted[i] = entry \/ \E a \in 1..Len(list) : sorted[i] = list[a]
  BY <1>3, <1>9
<1>11. ASSUME NEW a \in 1..Len(list) PROVE \E i \in 1..Len(sorted) : sorted[i] = list[a]
  <2>1. CASE a \in low
    <3>1. PICK k \in 1..m : Place(low, k) = a
      BY <1>5, <2>1
    <3>2. k \in 1..Len(sorted)
      BY <1>5, <1>6, <1>8
    <3> QED
      BY <1>5, <1>8, <3>1, <3>2
  <2>2. CASE a \in high
    <3>1. PICK k \in 1..n : Place(high, k) = a
      BY <1>6, <2>2
    <3>2. m + 1 + k \in 1..Len(sorted)
      BY <1>5, <1>6, <1>8
    <3> QED
      BY <1>6, <1>8, <3>1, <3>2
  <2> QED
    BY <1>3, <2>1, <2>2
<1>12. m + 1 \in 1..Len(sorted)
  BY <1>5, <1>6, <1>8
<1>13. ASSUME NEW i \in 1..Len(sorted), NEW j \in 1..Len(sorted), i < j
       PROVE  InBetween(sorted, list, entry, i, j)
  <2>1. ASSUME i \in 1..m, j \in 1..m
        PROVE  \E a, b \in 1..Len(list) : a < b /\ sorted[i] = list[a] /\ sorted[j] = list[b]
    <3>1. Place(low, i) \in low /\ Place(low, j) \in low /\ Place(low, i) < Place(low, j)
      BY <1>5, <1>13, <2>1
    <3>2. sorted[i] = list[Place(low, i)] /\ sorted[j] = list[Place(low, j)]
      BY <1>5, <1>8, <2>1
    <3>3. Place(low, i) \in 1..Len(list) /\ Place(low, j) \in 1..Len(list)
      BY <1>3, <3>1
    <3> QED
      BY <3>1, <3>2, <3>3
  <2>2. ASSUME i \in 1..m, j = m + 1
        PROVE  \E a \in 1..Len(list) : list[a].priority <= entry.priority /\ sorted[i] = list[a] /\ sorted[j] = entry
    BY <1>3, <1>5, <1>8, <2>2
  <2>3. ASSUME NEW k \in 1..n, i \in 1..m, j = m + 1 + k
        PROVE  \E a, b \in 1..Len(list) : list[a].priority < list[b].priority
                                          /\ sorted[i] = list[a] /\ sorted[j] = list[b]
    <3>1. Place(low, i) \in low /\ Place(high, k) \in high
          /\ sorted[i] = list[Place(low, i)] /\ sorted[j] = list[Place(high, k)]
      BY <1>5, <1>6, <1>8, <2>3
    <3>2. \A a \in low, b \in high : list[a].priority < list[b].priority
      BY <1>2, <1>3
    <3> QED
      BY <1>3, <3>1, <3>2
  <2>4. ASSUME NEW k \in 1..n, i = m + 1, j = m + 1 + k
        PROVE  \E b \in 1..Len(list) : /\ entry.priority < list[b].priority
                                       /\ sorted[i] = entry /\ sorted[j] = list[b]
    BY <1>3, <1>6, <1>8, <2>4
  <2>5. ASSUME NEW k \in 1..n, NEW h \in 1..n, i = m + 1 + k, j = m + 1 + h
        PROVE  \E a, b \in 1..Len(list) : a < b /\ sorted[i] = list[a] /\ sorted[j] = list[b]
    <3>1. k < h
      BY <1>5, <1>13, <2>5
    <3>2. Place(high, k) \in high /\ Place(high, h) \in high /\ Place(high, k) < Place(high, h)
      BY <1>6, <3>1
    <3>3. sorted[i] = list[Place(high, k)] /\ sorted[j] = list[Place(high, h)]
      BY <1>6, <1>8, <2>5
    <3>4. Place(high, k) \in 1..Len(list) /\ Place(high, h) \in 1..Len(list)
      BY <1>3, <3>2
    <3> QED
      BY <3>2, <3>3, <3>4
  <2>6. i \in 1..m \/ i = m + 1 \/ \E k \in 1..n : i = m + 1 + k
    BY <1>9
  <2>7. j \in 1..m \/ j = m + 1 \/ \E k \in 1..n : j = m + 1 + k
    BY <1>9
  <2>8. /\ i = m + 1 => ~(j \in 1..m \/ j = m + 1)
        /\ \A k \in 1..n : i = m + 1 + k => ~(j \in 1..m \/ j = m + 1)
    BY <1>5, <1>13
  <2>9. CASE i \in 1..m /\ j \in 1..m
    BY <2>1, <2>9 DEF InBetween
  <2> QED
    BY <2>2, <2>3, <2>4, <2>5, <2>6, <2>7, <2>8, <2>9 DEF InBetween
<1> QED
  BY <1>8, <1>10, <1>11, <1>12, <1>13 DEF SortedInto

-----------------------------------------------------------------------------
(* The steps.                                                              *)

\* What is pushed and in the registry are plugins.
LEMMA PluginsAre ==
    ASSUME RegistryTypes
    PROVE  /\ Len(pushed) \in Nat /\ Len(plugins) \in Nat /\ DOMAIN plugins = 1..Len(plugins)
           /\ \A k \in 1..Len(pushed) : pushed[k] \in Plugins
           /\ \A i \in 1..Len(plugins) : /\ plugins[i] \in Registrations /\ plugins[i].plugin \in Plugins
                                         /\ plugins[i].priority \in Nat
<1>1. \A i \in 1..Len(plugins) : plugins[i] \in Registrations
  BY ElementOfSeq DEF RegistryTypes
<1> QED
  BY <1>1, LenProperties, ElementOfSeq DEF RegistryTypes, Registrations

\* A registered plugin stays so, under its name.
RegisteredStay ==
    \A p \in Plugins : call[p] = "registered" => call'[p] = "registered" /\ name'[p] = name[p]

LEMMA ParametersOf ==
    ASSUME RegistryTypes, NEW u \in Unregisters, shutting[u].step # "idle"
    PROVE  /\ shutting[u] \in [step : {"shutdown", "afterShutdown", "done"}, plugin : Plugins, asked : ModuleNames]
           /\ shutting[u].plugin \in Plugins /\ shutting[u].asked \in ModuleNames
<1>1. shutting[u] \in Shutting
  BY DEF RegistryTypes
<1> QED
  BY <1>1 DEF Shutting

LEMMA RegistryKept ==
    ASSUME RegistryIInv, RegistryTypes', RegisteredStay, UNCHANGED <<plugins, shutting, shutDown, pushed>>
    PROVE  PushedOnce' /\ Ordered' /\ ShutByName' /\ Gone'
<1> USE DEF RegistryIInv
<1>1. \A k \in 1..Len(pushed) : pushed[k] \in Plugins /\ call[pushed[k]] = "registered"
  BY PluginsAre DEF PushedOnce
<1>2. PushedOnce'
  BY <1>1 DEF PushedOnce, RegisteredStay
<1>3. Ordered'
  BY DEF Ordered, Precedes, PushedBefore
<1>4. \A r \in shutDown : r \in Plugins /\ call[r] = "registered"
  BY DEF ShutByName, RegistryTypes
<1>5. ShutByName'
  <2>1. ASSUME NEW u \in Unregisters, shutting[u].step # "idle"
        PROVE  /\ call'[shutting[u].plugin] = "registered"
               /\ IsMatchingName(name[shutting[u].plugin], shutting[u].asked)'
               /\ shutting[u].step = "afterShutdown" => shutting[u].plugin \in shutDown
    <3>1. shutting[u].plugin \in Plugins /\ call[shutting[u].plugin] = "registered"
      BY <2>1, ParametersOf DEF ShutByName
    <3> QED
      BY <2>1, <3>1 DEF ShutByName, RegisteredStay, IsMatchingName
  <2> QED
    BY <1>4, <2>1 DEF ShutByName, RegisteredStay
<1>6. Gone'
  <2>1. \A p \in Plugins : call[p] = "registered" => Answers(p)' = Answers(p)
    BY DEF Answers, RegisteredStay
  <2> QED
    BY <1>1, <1>4, <2>1 DEF Gone
<1> QED
  BY <1>2, <1>3, <1>5, <1>6

\* A plugin's load() or register() goes on, up to its registration.
LEMMA CallStep ==
    ASSUME RegistryIInv, NEW p \in Plugins, call[p] \in {"resolve", "validate", "startup", "afterStartup"},
           NEW c \in {"validate", "startup", "afterStartup", "rejected"}, call' = [call EXCEPT ![p] = c],
           NEW n \in ModuleNames \cup {NoName}, name' = [name EXCEPT ![p] = n],
           c # "rejected" => n \in ModuleNames /\ (Source[p] # Instance /\ OwnName[p] = NoName
                                                      => n \in ToSet(Lookups(Source[p]))),
           startedUp' \subseteq Plugins, startedUp \subseteq startedUp', c = "afterStartup" => p \in startedUp',
           UNCHANGED <<loaded, priority, plugins, shutting, shutDown, pushed>>
    PROVE  RegistryIInv'
<1> USE DEF RegistryIInv
<1>1. /\ call'[p] = c /\ name'[p] = n
      /\ \A q \in Plugins \ {p} : call'[q] = call[q] /\ name'[q] = name[q]
  BY DEF RegistryTypes
<1>2. RegistryTypes'
  BY <1>1 DEF RegistryTypes, Calls, Begun
<1>3. RegisteredStay
  BY <1>1 DEF RegisteredStay
<1>4. Loaded'
  <2>1. \A i \in 1..Len(Batches) : loaded < i => \A q \in ToSet(Batches[i]) : call'[q] = "idle"
    <3> SUFFICES ASSUME NEW i \in 1..Len(Batches), loaded < i, NEW q \in ToSet(Batches[i])
                 PROVE  call'[q] = "idle"
      OBVIOUS
    <3>1. call[q] = "idle"
      BY DEF Loaded
    <3>2. q # p
      BY <3>1
    <3> QED
      BY <3>1, <3>2 DEF RegistryTypes
  <2>2. ASSUME NEW q \in Plugins, call'[q] \in Begun
        PROVE  /\ name'[q] \in ModuleNames
               /\ Source[q] # Instance /\ OwnName[q] = NoName => name'[q] \in ToSet(Lookups(Source[q]))
    BY <1>1, <2>2 DEF Loaded, Begun
  <2>3. \A q \in Plugins : call'[q] \in {"afterStartup", "registered"} => q \in startedUp'
    BY <1>1 DEF Loaded
  <2>4. \A q \in Plugins : /\ call'[q] = "resolve" => Source[q] # Instance
                           /\ call'[q] = "idle" => name'[q] = OwnName[q]
    BY <1>1 DEF Loaded
  <2> QED
    BY <2>1, <2>2, <2>3, <2>4 DEF Loaded
<1> QED
  BY <1>2, <1>3, <1>4, RegistryKept

LEMMA LookUpStep ==
    ASSUME RegistryIInv, NEW p \in Plugins, LookUp(p)
    PROVE  RegistryIInv'
<1> DEFINE found == Resolved(Source[p])
           lookups == Lookups(Source[p])
           those == {i \in DOMAIN lookups : lookups[i] \in Installed}
           n == IF OwnName[p] = NoName THEN Head(found) ELSE OwnName[p]
<1>1. /\ call[p] = "resolve" /\ UNCHANGED <<loaded, priority, plugins, shutting, startedUp, shutDown, pushed>>
      /\ name[p] \in ModuleNames \cup {NoName} /\ name = [name EXCEPT ![p] = name[p]]
      /\ startedUp \subseteq Plugins
  BY DEF LookUp, RegistryIInv, RegistryTypes
<1>2. Source[p] # Instance
  BY <1>1 DEF RegistryIInv, Loaded
<1>3. CASE found = <<>>
  <2>1. call' = [call EXCEPT ![p] = "rejected"] /\ name' = name
    BY <1>3 DEF LookUp
  <2> QED
    BY <1>1, <2>1, CallStep
<1>4. CASE found # <<>>
  <2>1. call' = [call EXCEPT ![p] = "validate"] /\ name' = [name EXCEPT ![p] = n]
    BY <1>4 DEF LookUp
  <2>2. Source[p] \in Sources /\ lookups \in Seq(ModuleNames) /\ DOMAIN lookups = 1..Len(lookups)
    <3>1. Source[p] \in Sources
      BY <1>2 DEF Sources
    <3> QED
      BY <3>1, LookupsAre, LenProperties
  <2>3. Head(found) \in ToSet(lookups)
    <3>1. those \in SUBSET (1..Len(lookups)) /\ found = Subsequence(lookups, those)
      BY <2>2 DEF Resolved
    <3> HIDE DEF those, lookups, found
    <3>2. /\ found \in Seq(ModuleNames) /\ Len(found) = Cardinality(those)
          /\ \A k \in 1..Cardinality(those) : Place(those, k) \in those /\ found[k] = lookups[Place(those, k)]
      <4>1. lookups \in Seq(ModuleNames) /\ those \in SUBSET (1..Len(lookups))
        BY <2>2, <3>1
      <4>2. /\ Subsequence(lookups, those) \in Seq(ModuleNames)
            /\ Len(Subsequence(lookups, those)) = Cardinality(those)
            /\ \A k \in 1..Cardinality(those) :
                  /\ Place(those, k) \in those
                  /\ Subsequence(lookups, those)[k] = lookups[Place(those, k)]
        BY <4>1, SubsequenceIs
      <4> QED
        BY <3>1, <4>2
    <3>3. Len(found) # 0 /\ Len(found) \in Nat /\ Head(found) = found[1]
      BY <1>4, <3>2, EmptySeq, LenProperties, HeadTailProperties
    <3>4. 1 \in 1..Cardinality(those)
      BY <3>2, <3>3
    <3> QED
      BY <2>2, <3>1, <3>2, <3>3, <3>4 DEF ToSet
  <2>4. ToSet(lookups) \subseteq ModuleNames
    BY <2>2 DEF ModuleNames
  <2>5. OwnName[p] # NoName => OwnName[p] \in ModuleNames
    BY DEF ModuleNames
  <2>6. n \in ModuleNames /\ (OwnName[p] = NoName => n \in ToSet(lookups))
    BY <2>3, <2>4, <2>5
  <2> HIDE DEF n
  <2> QED
    BY <1>1, <2>1, <2>6, CallStep
<1> QED
  BY <1>3, <1>4

LEMMA CallbackStep ==
    ASSUME RegistryIInv, NEW p \in Plugins, Validate(p) \/ Startup(p) \/ Throw(p)
    PROVE  RegistryIInv'
<1>1. /\ call[p] \in {"validate", "startup", "afterStartup"} /\ call[p] \in Begun
      /\ UNCHANGED <<loaded, name, priority, plugins, shutting, shutDown, pushed>>
      /\ name = [name EXCEPT ![p] = name[p]] /\ startedUp \subseteq Plugins
  BY DEF Validate, Startup, Throw, RegistryIInv, RegistryTypes, Begun
<1>2. /\ name[p] \in ModuleNames
      /\ Source[p] # Instance /\ OwnName[p] = NoName => name[p] \in ToSet(Lookups(Source[p]))
  BY <1>1 DEF RegistryIInv, Loaded
<1>3. CASE Validate(p)
  <2>1. call' = [call EXCEPT ![p] = "startup"] /\ startedUp' = startedUp
    BY <1>3 DEF Validate
  <2> QED
    BY <1>1, <1>2, <2>1, CallStep
<1>4. CASE Startup(p)
  <2>1. call' = [call EXCEPT ![p] = "afterStartup"] /\ startedUp' = startedUp \cup {p}
    BY <1>4 DEF Startup
  <2> QED
    BY <1>1, <1>2, <2>1, CallStep
<1>5. CASE Throw(p)
  <2>1. call' = [call EXCEPT ![p] = "rejected"] /\ startedUp' = startedUp
    BY <1>5 DEF Throw
  <2> QED
    BY <1>1, <1>2, <2>1, CallStep
<1> QED
  BY <1>3, <1>4, <1>5

LEMMA BatchesAre ==
    /\ Len(Batches) \in Nat /\ DOMAIN Batches = 1..Len(Batches)
    /\ \A i \in 1..Len(Batches) :
          /\ Batches[i] \in Seq(Plugins) /\ Len(Batches[i]) \in Nat /\ DOMAIN Batches[i] = 1..Len(Batches[i])
          /\ ToSet(Batches[i]) \subseteq Plugins
    /\ \A i, j \in 1..Len(Batches) : i # j => ToSet(Batches[i]) \cap ToSet(Batches[j]) = {}
<1>1. /\ Len(Batches) \in Nat /\ DOMAIN Batches = 1..Len(Batches)
      /\ \A i \in 1..Len(Batches) : Batches[i] \in Seq(Plugins)
  BY PluginsAssumption, LenProperties, ElementOfSeq
<1>2. ASSUME NEW i \in 1..Len(Batches)
      PROVE  /\ Len(Batches[i]) \in Nat /\ DOMAIN Batches[i] = 1..Len(Batches[i])
             /\ ToSet(Batches[i]) \subseteq Plugins
  <2>1. Batches[i] \in Seq(Plugins)
    BY <1>1
  <2> DEFINE batch == Batches[i]
  <2> HIDE DEF batch
  <2>2. batch \in Seq(Plugins)
    BY <2>1 DEF batch
  <2>3. Len(batch) \in Nat /\ DOMAIN batch = 1..Len(batch) /\ \A k \in 1..Len(batch) : batch[k] \in Plugins
    BY <2>2, LenProperties, ElementOfSeq
  <2>4. ToSet(batch) \subseteq Plugins
    BY <2>3 DEF ToSet
  <2> QED
    BY <2>3, <2>4 DEF batch
<1>3. ASSUME NEW i \in 1..Len(Batches), NEW j \in 1..Len(Batches), i # j
      PROVE  ToSet(Batches[i]) \cap ToSet(Batches[j]) = {}
  <2> SUFFICES ASSUME NEW p, p \in ToSet(Batches[i]), p \in ToSet(Batches[j]) PROVE FALSE
    OBVIOUS
  <2>1. PICK k \in DOMAIN Batches[i], m \in DOMAIN Batches[j] : Batches[i][k] = p /\ Batches[j][m] = p
    BY DEF ToSet
  <2> QED
    BY <1>1, <1>3, <2>1, PluginsAssumption
<1> QED
  BY <1>1, <1>2, <1>3

LEMMA LoadManyStep ==
    ASSUME RegistryIInv, LoadMany
    PROVE  RegistryIInv'
<1> USE DEF RegistryIInv
<1> DEFINE n == loaded + 1
           batch == Batches[n]
           members == ToSet(batch)
           PlaceOf(p) == CHOOSE i \in DOMAIN batch : batch[i] = p
<1>1. /\ loaded \in Nat /\ loaded < Len(Batches) /\ loaded' = n
      /\ call \in [Plugins -> Calls] /\ priority \in [Plugins -> Nat]
      /\ UNCHANGED <<name, plugins, shutting, startedUp, shutDown, pushed>>
  BY DEF LoadMany, RegistryTypes
<1>2. /\ call' = [p \in Plugins |-> IF p \notin members THEN call[p]
                                    ELSE IF Source[p] = Instance THEN "validate" ELSE "resolve"]
      /\ priority' = [p \in Plugins |->
                        IF p \notin members THEN priority[p]
                        ELSE IF Source[p] = Instance THEN SharedPriority(batch, PlaceOf(p))
                        ELSE SharedPriority(batch, Len(batch))]
  BY DEF LoadMany
<1>3. n \in 1..Len(Batches) /\ loaded < n
  BY <1>1, BatchesAre
<1>4. /\ batch \in Seq(Plugins) /\ Len(batch) \in Nat /\ DOMAIN batch = 1..Len(batch) /\ members \subseteq Plugins
  BY <1>3, BatchesAre
<1>5. \A p \in members : call[p] = "idle" /\ p \in Plugins
  BY <1>3, <1>4 DEF Loaded
<1>6. \A p \in members : SharedPriority(batch, PlaceOf(p)) \in Nat
  <2> SUFFICES ASSUME NEW p \in members PROVE SharedPriority(batch, PlaceOf(p)) \in Nat
    OBVIOUS
  <2>1. \E i \in DOMAIN batch : batch[i] = p
    BY DEF ToSet
  <2>2. PlaceOf(p) \in 1..Len(batch)
    BY <1>4, <2>1
  <2>3. PlaceOf(p) \in 0..Len(batch)
    BY <1>4, <2>2
  <2> HIDE DEF PlaceOf, batch
  <2> QED
    BY <1>4, <2>3, SharedPriorityIs
<1>7. SharedPriority(batch, Len(batch)) \in Nat
  <2> HIDE DEF batch
  <2>1. Len(batch) \in 0..Len(batch)
    BY <1>4
  <2> QED
    BY <1>4, <2>1, SharedPriorityIs
<1> HIDE DEF batch, members, PlaceOf
<1>8. call' \in [Plugins -> Calls] /\ priority' \in [Plugins -> Nat]
  <2>1. {"validate", "resolve"} \subseteq Calls
    BY DEF Calls, Begun
  <2>2. call' \in [Plugins -> Calls]
    BY <1>1, <1>2, <2>1
  <2>3. priority' \in [Plugins -> Nat]
    BY <1>1, <1>2, <1>6, <1>7
  <2> QED
    BY <2>2, <2>3
<1>9. /\ \A p \in Plugins \ members : call'[p] = call[p]
      /\ \A p \in members : call'[p] = IF Source[p] = Instance THEN "validate" ELSE "resolve"
  BY <1>2, <1>4
<1>10. RegistryTypes'
  BY <1>1, <1>8 DEF RegistryTypes
<1>11. RegisteredStay
  BY <1>1, <1>5, <1>9 DEF RegisteredStay
<1>12. Loaded'
  <2>1. ASSUME NEW i \in 1..Len(Batches), n < i, NEW p \in ToSet(Batches[i]) PROVE call'[p] = "idle"
    <3>1. loaded < i /\ i # n
      BY <1>1, <2>1
    <3>2. call[p] = "idle"
      BY <2>1, <3>1 DEF Loaded
    <3>3. p \in Plugins /\ p \notin members
      BY <1>3, <2>1, <3>1, BatchesAre DEF members, batch
    <3> QED
      BY <1>9, <3>2, <3>3
  <2>2. ASSUME NEW p \in members PROVE /\ Source[p] = Instance => OwnName[p] # NoName /\ name[p] \in ModuleNames
    <3>1. name[p] = OwnName[p] /\ p \in Plugins
      BY <1>5, <2>2 DEF Loaded
    <3> QED
      BY <3>1, PluginsAssumption DEF ModuleNames
  <2>3. ASSUME NEW p \in Plugins, call'[p] \in Begun
        PROVE  /\ name[p] \in ModuleNames
               /\ Source[p] # Instance /\ OwnName[p] = NoName => name[p] \in ToSet(Lookups(Source[p]))
    <3>1. CASE p \notin members
      BY <1>9, <2>3, <3>1 DEF Loaded
    <3>2. CASE p \in members
      <4>1. Source[p] = Instance
        BY <1>9, <2>3, <3>2 DEF Begun
      <4> QED
        BY <2>2, <3>2, <4>1
    <3> QED
      BY <3>1, <3>2
  <2>4. \A p \in Plugins : /\ call'[p] = "resolve" => Source[p] # Instance
                           /\ call'[p] = "idle" => name[p] = OwnName[p]
                           /\ call'[p] \in {"afterStartup", "registered"} => p \in startedUp
    BY <1>9 DEF Loaded
  <2> QED
    BY <1>1, <2>1, <2>3, <2>4 DEF Loaded
<1> QED
  BY <1>1, <1>10, <1>11, <1>12, RegistryKept

LEMMA RegisterStep ==
    ASSUME RegistryIInv, NEW p \in Plugins, Register(p)
    PROVE  RegistryIInv'
<1> USE DEF RegistryIInv
<1> DEFINE entry == [plugin |-> p, priority |-> IF priority[p] = 0 THEN DEFAULT_PRIORITY ELSE priority[p]]
           n == Len(pushed)
           m == Len(plugins)
<1>1. /\ call[p] = "afterStartup" /\ call' = [call EXCEPT ![p] = "registered"]
      /\ plugins' = Sorted(plugins, entry) /\ pushed' = Append(pushed, p)
      /\ UNCHANGED <<loaded, name, priority, shutting, startedUp, shutDown>>
      /\ plugins \in Seq(Registrations) /\ pushed \in Seq(Plugins) /\ call \in [Plugins -> Calls]
  BY DEF Register, RegistryTypes
<1>2. entry \in Registrations /\ entry.plugin = p /\ entry.priority \in Nat
  BY DEF RegistryTypes, Registrations, DEFAULT_PRIORITY
<1> HIDE DEF entry
<1>3. PICK sorted : sorted = Sorted(plugins, entry)
  OBVIOUS
<1>16. SortedInto(sorted, plugins, entry)
  BY <1>1, <1>2, <1>3, SortedIs
<1>17. plugins' = sorted
  BY <1>1, <1>3
<1>18. /\ sorted \in Seq(Registrations)
       /\ \A i \in 1..Len(sorted) : sorted[i] = entry \/ \E a \in 1..m : sorted[i] = plugins[a]
  BY <1>16 DEF SortedInto
<1>19. /\ \A a \in 1..m : \E i \in 1..Len(sorted) : sorted[i] = plugins[a]
       /\ \E i \in 1..Len(sorted) : sorted[i] = entry
  BY <1>16 DEF SortedInto
<1>4. /\ n \in Nat /\ pushed' \in Seq(Plugins) /\ Len(pushed') = n + 1 /\ pushed'[n + 1] = p
      /\ \A k \in 1..n : pushed'[k] = pushed[k] /\ k \in 1..n + 1
      /\ n + 1 \in 1..n + 1
      /\ \A k \in 1..n + 1 : k \in 1..n \/ k = n + 1
  BY <1>1, AppendProperties, LenProperties
<1>5. call'[p] = "registered" /\ \A q \in Plugins \ {p} : call'[q] = call[q]
  BY <1>1
<1>6. \A k \in 1..n : pushed[k] \in Plugins /\ pushed[k] # p /\ call[pushed[k]] = "registered"
  BY <1>1, PluginsAre DEF PushedOnce
<1>7. RegistryTypes'
  <2>1. call' \in [Plugins -> Calls]
    BY <1>1 DEF Calls, Begun
  <2> QED
    BY <1>1, <1>4, <1>17, <1>18, <2>1 DEF RegistryTypes
<1>8. Loaded'
  <2>1. ASSUME NEW i \in 1..Len(Batches), loaded < i, NEW q \in ToSet(Batches[i]) PROVE call'[q] = "idle"
    <3>1. call[q] = "idle"
      BY <2>1 DEF Loaded
    <3> QED
      BY <1>1, <1>5, <2>1, <3>1, BatchesAre
  <2>2. call[p] \in Begun
    BY <1>1 DEF Begun
  <2>3. \A q \in Plugins :
          /\ call'[q] \in Begun => call[q] \in Begun
          /\ call'[q] = "resolve" => call[q] = "resolve"
          /\ call'[q] = "idle" => call[q] = "idle"
          /\ call'[q] \in {"afterStartup", "registered"} => call[q] \in {"afterStartup", "registered"}
    BY <1>1, <1>5, <2>2
  <2> QED
    BY <1>1, <2>1, <2>3 DEF Loaded
<1>9. PushedOnce'
  <2>1. \A k \in 1..n + 1 : call'[pushed'[k]] = "registered"
    BY <1>4, <1>5, <1>6
  <2>2. \A k, h \in 1..n + 1 : pushed'[k] = pushed'[h] => k = h
    BY <1>4, <1>6 DEF PushedOnce
  <2>3. \A i \in 1..Len(plugins') : \E k \in 1..n + 1 : pushed'[k] = plugins'[i].plugin
    <3> SUFFICES ASSUME NEW i \in 1..Len(plugins') PROVE \E k \in 1..n + 1 : pushed'[k] = plugins'[i].plugin
      OBVIOUS
    <3>1. CASE plugins'[i] = entry
      BY <1>2, <1>4, <3>1
    <3>2. ASSUME NEW a \in 1..m, plugins'[i] = plugins[a] PROVE \E k \in 1..n + 1 : pushed'[k] = plugins'[i].plugin
      <4>1. PICK k \in 1..n : pushed[k] = plugins[a].plugin
        BY <3>2 DEF PushedOnce
      <4>2. k \in 1..n + 1 /\ pushed'[k] = pushed[k]
        BY <1>4, <4>1
      <4> QED
        BY <3>2, <4>1, <4>2
    <3> QED
      BY <1>17, <1>18, <3>1, <3>2
  <2> QED
    BY <1>4, <2>1, <2>2, <2>3 DEF PushedOnce
<1>10. \A q, r : PushedBefore(q, r) => PushedBefore(q, r)'
  BY <1>4 DEF PushedBefore
<1>11. \A i, j \in 1..m : i < j => Precedes(plugins[i], plugins[j])
  BY DEF Ordered
<1>12. ASSUME NEW a \in 1..m, NEW q, q = plugins[a].plugin PROVE PushedBefore(q, p)'
  <2>1. PICK k \in 1..n : pushed[k] = q
    BY <1>12 DEF PushedOnce
  <2>2. k < n + 1
    BY <1>4
  <2> QED
    BY <1>4, <2>1, <2>2 DEF PushedBefore
<1>13. Ordered'
  <2> SUFFICES ASSUME NEW i \in 1..Len(plugins'), NEW j \in 1..Len(plugins'), i < j
               PROVE  Precedes(plugins[i], plugins[j])'
    BY DEF Ordered
  <2>1. ASSUME NEW a \in 1..m, NEW b \in 1..m, a < b, plugins'[i] = plugins[a], plugins'[j] = plugins[b]
        PROVE  Precedes(plugins[i], plugins[j])'
    BY <1>10, <1>11, <2>1 DEF Precedes
  <2>2. ASSUME NEW a \in 1..m, plugins[a].priority <= entry.priority, plugins'[i] = plugins[a], plugins'[j] = entry
        PROVE  Precedes(plugins[i], plugins[j])'
    <3>1. plugins[a].priority \in Nat
      BY PluginsAre
    <3>2. plugins[a].priority < entry.priority \/ plugins[a].priority = entry.priority
      BY <1>2, <2>2, <3>1
    <3>3. PICK q : q = plugins[a].plugin
      OBVIOUS
    <3>4. PushedBefore(q, p)'
      BY <1>12, <3>3
    <3> QED
      BY <1>2, <2>2, <3>2, <3>3, <3>4 DEF Precedes
  <2>3. ASSUME plugins'[i].priority < plugins'[j].priority PROVE Precedes(plugins[i], plugins[j])'
    BY <2>3 DEF Precedes
  <2>4. InBetween(sorted, plugins, entry, i, j)
    BY <1>16, <1>17 DEF SortedInto
  <2>5. CASE \E a, b \in 1..m : a < b /\ sorted[i] = plugins[a] /\ sorted[j] = plugins[b]
    BY <1>17, <2>1, <2>5
  <2>6. CASE \E a \in 1..m : plugins[a].priority <= entry.priority /\ sorted[i] = plugins[a] /\ sorted[j] = entry
    BY <1>17, <2>2, <2>6
  <2>7. CASE \E b \in 1..m : entry.priority < plugins[b].priority /\ sorted[i] = entry /\ sorted[j] = plugins[b]
    BY <1>17, <2>3, <2>7
  <2>8. CASE \E a, b \in 1..m : /\ plugins[a].priority < plugins[b].priority
                                /\ sorted[i] = plugins[a] /\ sorted[j] = plugins[b]
    BY <1>17, <2>3, <2>8
  <2> QED
    BY <2>4, <2>5, <2>6, <2>7, <2>8 DEF InBetween
<1>14. ShutByName'
  <2>1. \A q \in Plugins : call[q] = "registered" => call'[q] = "registered"
    BY <1>5
  <2>2. \A q \in shutDown : q \in Plugins
    BY DEF RegistryTypes
  <2>3. ASSUME NEW u \in Unregisters, shutting[u].step # "idle"
        PROVE  /\ call'[shutting[u].plugin] = "registered"
               /\ IsMatchingName(name[shutting[u].plugin], shutting[u].asked)
               /\ shutting[u].step = "afterShutdown" => shutting[u].plugin \in shutDown
    BY <2>1, <2>3, ParametersOf DEF ShutByName
  <2> QED
    BY <1>1, <2>1, <2>2, <2>3 DEF ShutByName, IsMatchingName
<1>15. Gone'
  <2>1. \A q : Answers(q)' = Answers(q)
    BY <1>1 DEF Answers
  <2> SUFFICES ASSUME NEW k \in 1..n + 1
               PROVE  \/ \E i \in 1..Len(plugins') : plugins'[i].plugin = pushed'[k]
                      \/ pushed'[k] \in shutDown
                      \/ \E r \in shutDown : Answers(pushed'[k]) \cap Answers(r) # {}
    BY <1>1, <1>4, <2>1 DEF Gone
  <2>2. CASE k = n + 1
    BY <1>2, <1>4, <1>17, <1>19, <2>2
  <2>3. CASE k \in 1..n
    <3>1. pushed'[k] = pushed[k]
      BY <1>4, <2>3
    <3>2. ASSUME NEW a \in 1..m, plugins[a].plugin = pushed[k]
          PROVE  \E i \in 1..Len(plugins') : plugins'[i].plugin = pushed'[k]
      BY <1>17, <1>19, <3>1, <3>2
    <3>3. \/ \E a \in 1..m : plugins[a].plugin = pushed[k]
          \/ pushed[k] \in shutDown
          \/ \E r \in shutDown : Answers(pushed[k]) \cap Answers(r) # {}
      BY <2>3 DEF Gone
    <3> QED
      BY <3>1, <3>2, <3>3
  <2> QED
    BY <1>4, <2>2, <2>3
<1> QED
  BY <1>7, <1>8, <1>9, <1>13, <1>14, <1>15

LEMMA NamesOfPlugins ==
    ASSUME RegistryIInv, NEW asked \in Names
    PROVE  asked \in ModuleNames
<1>1. CASE asked \in {Source[p] : p \in {q \in Plugins : Source[q] # Instance}}
  BY <1>1 DEF ModuleNames, Sources
<1>2. ASSUME NEW i \in DOMAIN plugins, asked = name[plugins[i].plugin]
      PROVE  asked \in ModuleNames
  <2>1. plugins[i].plugin \in Plugins /\ call[plugins[i].plugin] = "registered"
    BY PluginsAre DEF RegistryIInv, PushedOnce
  <2> QED
    BY <1>2, <2>1 DEF RegistryIInv, Loaded, Begun
<1> QED
  BY <1>1, <1>2 DEF Names

\* unregister() goes on, up to what it does to the registry.
LEMMA ShuttingStep ==
    ASSUME RegistryIInv, NEW u \in Unregisters, NEW state \in Shutting, shutting' = [shutting EXCEPT ![u] = state],
           state.step # "idle" => /\ call[state.plugin] = "registered"
                                  /\ IsMatchingName(name[state.plugin], state.asked)
                                  /\ state.step = "afterShutdown" => state.plugin \in shutDown',
           \/ shutDown' = shutDown
           \/ \E p \in Plugins : call[p] = "registered" /\ shutDown' = shutDown \cup {p},
           UNCHANGED <<loaded, call, name, priority, plugins, startedUp, pushed>>
    PROVE  RegistryIInv'
<1> USE DEF RegistryIInv
<1>1. shutting' \in [Unregisters -> Shutting] /\ shutting'[u] = state
      /\ \A v \in Unregisters \ {u} : shutting'[v] = shutting[v]
  BY DEF RegistryTypes
<1>2. shutDown \subseteq shutDown' /\ shutDown' \subseteq Plugins /\ \A p \in shutDown' : call[p] = "registered"
  BY DEF RegistryTypes, ShutByName
<1>3. RegistryTypes'
  BY <1>1, <1>2 DEF RegistryTypes
<1>4. Loaded' /\ PushedOnce' /\ Ordered'
  BY DEF Loaded, PushedOnce, Ordered, Precedes, PushedBefore
<1>5. \A n, asked : IsMatchingName(n, asked)' = IsMatchingName(n, asked)
  BY DEF IsMatchingName
<1>6. ShutByName'
  <2>1. ASSUME NEW v \in Unregisters, shutting'[v].step # "idle"
        PROVE  /\ call[shutting'[v].plugin] = "registered"
               /\ IsMatchingName(name[shutting'[v].plugin], shutting'[v].asked)
               /\ shutting'[v].step = "afterShutdown" => shutting'[v].plugin \in shutDown'
    <3>1. CASE v = u
      BY <1>1, <2>1, <3>1
    <3>2. CASE v # u
      BY <1>1, <1>2, <2>1, <3>2 DEF ShutByName
    <3> QED
      BY <3>1, <3>2
  <2> QED
    BY <1>2, <2>1 DEF ShutByName, IsMatchingName
<1>7. Gone'
  <2>1. \A p : Answers(p)' = Answers(p)
    BY DEF Answers
  <2> SUFFICES ASSUME NEW k \in 1..Len(pushed)
               PROVE  \/ \E i \in 1..Len(plugins) : plugins[i].plugin = pushed[k]
                      \/ pushed[k] \in shutDown'
                      \/ \E r \in shutDown' : Answers(pushed[k]) \cap Answers(r) # {}
    BY <2>1 DEF Gone
  <2>2. \/ \E i \in 1..Len(plugins) : plugins[i].plugin = pushed[k]
        \/ pushed[k] \in shutDown
        \/ \E r \in shutDown : Answers(pushed[k]) \cap Answers(r) # {}
    BY DEF Gone
  <2> QED
    BY <1>2, <2>2
<1> QED
  BY <1>3, <1>4, <1>6, <1>7

LEMMA UnregisterStep ==
    ASSUME RegistryIInv, NEW u \in Unregisters, NEW asked \in Names, Unregister(u, asked)
    PROVE  RegistryIInv'
<1> DEFINE i == CHOOSE i \in Matching(asked) : \A j \in Matching(asked) : i <= j
           p == plugins[i].plugin
           state == [step |-> "shutdown", plugin |-> p, asked |-> asked]
<1>1. /\ Matching(asked) # {} /\ shutting' = [shutting EXCEPT ![u] = state]
      /\ UNCHANGED <<loaded, call, name, priority, plugins, startedUp, shutDown, pushed>>
  BY DEF Unregister, Get
<1>2. Matching(asked) \in SUBSET (1..Len(plugins)) /\ Len(plugins) \in Nat
  BY PluginsAre DEF Matching, RegistryIInv
<1>3. i \in Matching(asked)
  BY <1>1, <1>2, EndPlaces
<1> HIDE DEF i
<1>4. p \in Plugins /\ call[p] = "registered" /\ IsMatchingName(name[p], asked)
  BY <1>2, <1>3, PluginsAre DEF Matching, RegistryIInv, PushedOnce
<1>5. state \in Shutting /\ state.step = "shutdown" /\ state.plugin = p /\ state.asked = asked
  BY <1>4, NamesOfPlugins DEF Shutting
<1> HIDE DEF p, state
<1> QED
  BY <1>1, <1>4, <1>5, ShuttingStep

LEMMA ShutdownStep ==
    ASSUME RegistryIInv, NEW u \in Unregisters, Shutdown(u)
    PROVE  RegistryIInv'
<1> DEFINE state == [shutting[u] EXCEPT !.step = "afterShutdown"]
           p == shutting[u].plugin
<1>1. /\ shutting[u].step = "shutdown" /\ shutting' = [shutting EXCEPT ![u] = state]
      /\ shutDown' = shutDown \cup {p}
      /\ UNCHANGED <<loaded, call, name, priority, plugins, startedUp, pushed>>
  BY DEF Shutdown
<1>2. /\ shutting[u] \in [step : {"shutdown", "afterShutdown", "done"}, plugin : Plugins, asked : ModuleNames]
      /\ p \in Plugins /\ call[p] = "registered" /\ IsMatchingName(name[p], shutting[u].asked)
  BY <1>1, ParametersOf DEF RegistryIInv, ShutByName
<1>3. state \in Shutting /\ state.step = "afterShutdown" /\ state.plugin = p /\ state.asked = shutting[u].asked
  BY <1>2 DEF Shutting
<1> HIDE DEF state
<1> QED
  BY <1>1, <1>2, <1>3, ShuttingStep

LEMMA ThrowOnShutdownStep ==
    ASSUME RegistryIInv, NEW u \in Unregisters, ThrowOnShutdown(u)
    PROVE  RegistryIInv'
<1> DEFINE state == [shutting[u] EXCEPT !.step = "done"]
           p == shutting[u].plugin
<1>1. /\ shutting[u].step # "idle" /\ shutting' = [shutting EXCEPT ![u] = state]
      /\ UNCHANGED <<loaded, call, name, priority, plugins, startedUp, shutDown, pushed>>
  BY DEF ThrowOnShutdown
<1>2. /\ shutting[u] \in [step : {"shutdown", "afterShutdown", "done"}, plugin : Plugins, asked : ModuleNames]
      /\ p \in Plugins /\ call[p] = "registered" /\ IsMatchingName(name[p], shutting[u].asked)
  BY <1>1, ParametersOf DEF RegistryIInv, ShutByName
<1>3. state \in Shutting /\ state.step = "done" /\ state.plugin = p /\ state.asked = shutting[u].asked
  BY <1>2 DEF Shutting
<1> HIDE DEF state
<1> QED
  BY <1>1, <1>2, <1>3, ShuttingStep

LEMMA UnregisteredStep ==
    ASSUME RegistryIInv, NEW u \in Unregisters, Unregistered(u)
    PROVE  RegistryIInv'
<1> USE DEF RegistryIInv
<1> DEFINE state == [shutting[u] EXCEPT !.step = "done"]
           r == shutting[u].plugin
           asked == shutting[u].asked
           K == DOMAIN plugins \ Matching(asked)
           N == Cardinality(K)
<1>1. /\ shutting[u].step = "afterShutdown" /\ shutting' = [shutting EXCEPT ![u] = state]
      /\ plugins' = Subsequence(plugins, K)
      /\ UNCHANGED <<loaded, call, name, priority, startedUp, shutDown, pushed>>
  BY DEF Unregistered
<1>2. /\ shutting[u] \in [step : {"shutdown", "afterShutdown", "done"}, plugin : Plugins, asked : ModuleNames]
      /\ r \in Plugins /\ r \in shutDown /\ call[r] = "registered" /\ IsMatchingName(name[r], asked)
      /\ asked \in ModuleNames
  BY <1>1, ParametersOf DEF ShutByName
<1>3. state \in Shutting /\ state.step = "done" /\ state.plugin = r /\ state.asked = asked
  BY <1>2 DEF Shutting
<1> HIDE DEF state
<1>4. /\ shutting' \in [Unregisters -> Shutting] /\ shutting'[u] = state
      /\ \A v \in Unregisters \ {u} : shutting'[v] = shutting[v]
  BY <1>1, <1>3 DEF RegistryTypes
<1>5. /\ plugins \in Seq(Registrations) /\ K \in SUBSET (1..Len(plugins))
      /\ \A i \in 1..Len(plugins) : i \in K <=> ~IsMatchingName(name[plugins[i].plugin], asked)
  BY PluginsAre DEF Matching, RegistryTypes
<1> HIDE DEF K, N
<1>6. /\ plugins' \in Seq(Registrations) /\ Len(plugins') = N
      /\ \A k \in 1..N : Place(K, k) \in K /\ plugins'[k] = plugins[Place(K, k)]
      /\ \A i \in K : \E k \in 1..N : Place(K, k) = i
      /\ \A j, k \in 1..N : j < k => Place(K, j) < Place(K, k)
  BY <1>1, <1>5, SubsequenceIs DEF N
<1>7. RegistryTypes'
  BY <1>1, <1>4, <1>6 DEF RegistryTypes
<1>8. Loaded'
  BY <1>1 DEF Loaded
<1>9. PushedOnce'
  <2>1. ASSUME NEW i \in 1..N PROVE \E k \in 1..Len(pushed) : pushed[k] = plugins'[i].plugin
    <3>1. PICK a \in 1..Len(plugins) : plugins'[i] = plugins[a]
      BY <1>5, <1>6
    <3> QED
      BY <3>1 DEF PushedOnce
  <2> QED
    BY <1>1, <1>6, <2>1 DEF PushedOnce
<1>10. Ordered'
  <2>1. \A p, q : PushedBefore(p, q)' <=> PushedBefore(p, q)
    BY <1>1 DEF PushedBefore
  <2> SUFFICES ASSUME NEW i \in 1..N, NEW j \in 1..N, i < j PROVE Precedes(plugins[i], plugins[j])'
    BY <1>6 DEF Ordered
  <2>2. PICK a \in 1..Len(plugins), b \in 1..Len(plugins) :
          a < b /\ plugins'[i] = plugins[a] /\ plugins'[j] = plugins[b]
    BY <1>5, <1>6
  <2>3. Precedes(plugins[a], plugins[b])
    BY <2>2 DEF Ordered
  <2> QED
    BY <2>1, <2>2, <2>3 DEF Precedes
<1>11. ShutByName'
  <2>1. ASSUME NEW v \in Unregisters, shutting'[v].step # "idle"
        PROVE  /\ call[shutting'[v].plugin] = "registered"
               /\ IsMatchingName(name[shutting'[v].plugin], shutting'[v].asked)
               /\ shutting'[v].step = "afterShutdown" => shutting'[v].plugin \in shutDown
    <3>1. CASE v = u
      BY <1>2, <1>3, <1>4, <3>1
    <3>2. CASE v # u
      BY <1>4, <2>1, <3>2 DEF ShutByName
    <3> QED
      BY <3>1, <3>2
  <2> QED
    BY <1>1, <2>1 DEF ShutByName, IsMatchingName
<1>12. Gone'
  <2>1. \A q : Answers(q)' = Answers(q)
    BY <1>1 DEF Answers
  <2> SUFFICES ASSUME NEW k \in 1..Len(pushed)
               PROVE  \/ \E i \in 1..N : plugins'[i].plugin = pushed[k]
                      \/ pushed[k] \in shutDown
                      \/ \E q \in shutDown : Answers(pushed[k]) \cap Answers(q) # {}
    BY <1>1, <1>6, <2>1 DEF Gone
  <2>2. ASSUME NEW a \in 1..Len(plugins), plugins[a].plugin = pushed[k]
        PROVE  \/ \E i \in 1..N : plugins'[i].plugin = pushed[k]
               \/ \E q \in shutDown : Answers(pushed[k]) \cap Answers(q) # {}
    <3>1. CASE a \in K
      BY <1>6, <2>2, <3>1
    <3>2. CASE a \notin K
      <4>1. IsMatchingName(name[pushed[k]], asked)
        BY <1>5, <2>2, <3>2
      <4>2. Answers(pushed[k]) \cap Answers(r) # {}
        BY <1>2, <4>1, MatchingShare
      <4> QED
        BY <1>2, <4>2
    <3> QED
      BY <3>1, <3>2
  <2> QED
    BY <2>2 DEF Gone
<1> QED
  BY <1>7, <1>8, <1>9, <1>10, <1>11, <1>12

LEMMA InitRegistry == RegistryInit => RegistryIInv
<1> SUFFICES ASSUME RegistryInit PROVE RegistryIInv
  OBVIOUS
<1>1. /\ loaded = 0 /\ call = [p \in Plugins |-> "idle"] /\ name = OwnName
      /\ priority = [p \in Plugins |-> 0] /\ plugins = <<>>
      /\ shutting = [u \in Unregisters |-> [step |-> "idle"]]
      /\ startedUp = {} /\ shutDown = {} /\ pushed = <<>>
  BY DEF RegistryInit
<1>2. Len(plugins) = 0 /\ Len(pushed) = 0 /\ 1..Len(plugins) = {} /\ 1..Len(pushed) = {}
  BY <1>1
<1>3. RegistryTypes
  <2>1. name \in [Plugins -> ModuleNames \cup {NoName}]
    <3>1. \A p \in Plugins : OwnName[p] \in ModuleNames \cup {NoName}
      BY DEF ModuleNames
    <3>2. OwnName = [p \in Plugins |-> OwnName[p]]
      BY PluginsAssumption
    <3> QED
      BY <1>1, <3>1, <3>2
  <2>2. plugins \in Seq(Registrations) /\ pushed \in Seq(Plugins)
    BY <1>1, EmptySeq
  <2>3. shutting \in [Unregisters -> Shutting]
    BY <1>1 DEF Shutting
  <2>4. call \in [Plugins -> Calls] /\ priority \in [Plugins -> Nat]
    BY <1>1 DEF Calls
  <2> QED
    BY <1>1, <2>1, <2>2, <2>3, <2>4 DEF RegistryTypes
<1>4. Loaded
  BY <1>1, BatchesAre DEF Loaded, Begun
<1>5. PushedOnce /\ Ordered /\ Gone
  BY <1>2 DEF PushedOnce, Ordered, Gone
<1>6. ShutByName
  BY <1>1 DEF ShutByName
<1> QED
  BY <1>3, <1>4, <1>5, <1>6 DEF RegistryIInv

LEMMA NextRegistry == RegistryIInv /\ [RegistryNext]_registryVars => RegistryIInv'
<1> SUFFICES ASSUME RegistryIInv, [RegistryNext]_registryVars PROVE RegistryIInv'
  OBVIOUS
<1>1. CASE UNCHANGED registryVars
  <2>1. UNCHANGED <<loaded, call, name, priority, plugins, shutting, startedUp, shutDown, pushed>>
    BY <1>1 DEF registryVars
  <2>2. RegistryTypes' /\ Loaded' /\ RegisteredStay
    BY <2>1 DEF RegistryIInv, RegistryTypes, Loaded, RegisteredStay
  <2> QED
    BY <2>1, <2>2, RegistryKept DEF RegistryIInv
<1>2. CASE LoadMany
  BY <1>2, LoadManyStep
<1>3. ASSUME NEW p \in Plugins, LookUp(p) \/ Validate(p) \/ Startup(p) \/ Register(p) \/ Throw(p)
      PROVE  RegistryIInv'
  BY <1>3, LookUpStep, CallbackStep, RegisterStep
<1>4. ASSUME NEW u \in Unregisters, Shutdown(u) \/ Unregistered(u) \/ ThrowOnShutdown(u)
      PROVE  RegistryIInv'
  BY <1>4, ShutdownStep, UnregisteredStep, ThrowOnShutdownStep
<1>5. ASSUME NEW u \in Unregisters, NEW asked \in Names, Unregister(u, asked) PROVE RegistryIInv'
  BY <1>5, UnregisterStep
<1> QED
  BY <1>1, <1>2, <1>3, <1>4, <1>5 DEF RegistryNext

THEOREM RegistryInvariance == RegistrySpec => []RegistryIInv
BY InitRegistry, NextRegistry, PTL DEF RegistrySpec

(* Only plugins that were started are registered, and one that left without *)
(* being shut down shared a name with one that was.                         *)
THEOREM PluginsStopWhenRemoved == RegistrySpec => []StoppedWhenRemoved
<1>1. RegistryIInv => StoppedWhenRemoved
  <2> SUFFICES ASSUME RegistryIInv PROVE StoppedWhenRemoved
    OBVIOUS
  <2>1. Registered = {plugins[i].plugin : i \in 1..Len(plugins)}
    BY PluginsAre DEF Registered, RegistryIInv
  <2>2. ASSUME NEW i \in 1..Len(plugins) PROVE plugins[i].plugin \in startedUp
    <3>1. plugins[i].plugin \in Plugins /\ call[plugins[i].plugin] = "registered"
      BY PluginsAre DEF RegistryIInv, PushedOnce
    <3> QED
      BY <3>1 DEF RegistryIInv, Loaded
  <2>3. ASSUME NEW p \in ToSet(pushed) \ (Registered \cup shutDown)
        PROVE  \E r \in shutDown \ {p} : Answers(p) \cap Answers(r) # {}
    <3>1. PICK k \in 1..Len(pushed) : pushed[k] = p
      BY LenProperties DEF ToSet, RegistryIInv, RegistryTypes
    <3> QED
      BY <2>1, <2>3, <3>1 DEF RegistryIInv, Gone
  <2> QED
    BY <2>1, <2>2, <2>3 DEF StoppedWhenRemoved
<1> QED
  BY <1>1, RegistryInvariance, PTL

(* The registered plugins stand by priority, and then by registration. *)
THEOREM PluginsStandInOrder == RegistrySpec => []InOrder
<1>1. RegistryIInv => InOrder
  <2> DEFINE PushedAt(i) == CHOOSE k \in DOMAIN pushed : pushed[k] = plugins[i].plugin
  <2> SUFFICES ASSUME RegistryIInv, NEW i \in DOMAIN plugins, NEW j \in DOMAIN plugins, i < j
               PROVE  \/ plugins[i].priority < plugins[j].priority
                      \/ plugins[i].priority = plugins[j].priority /\ PushedAt(i) < PushedAt(j)
    BY DEF InOrder
  <2>1. i \in 1..Len(plugins) /\ j \in 1..Len(plugins) /\ DOMAIN pushed = 1..Len(pushed)
    BY PluginsAre, LenProperties DEF RegistryIInv, RegistryTypes
  <2>2. Precedes(plugins[i], plugins[j])
    BY <2>1 DEF RegistryIInv, Ordered
  <2>3. ASSUME NEW k \in 1..Len(pushed), NEW h \in 1..Len(plugins), pushed[k] = plugins[h].plugin
        PROVE  PushedAt(h) = k
    BY <2>1, <2>3 DEF RegistryIInv, PushedOnce
  <2> HIDE DEF PushedAt
  <2> QED
    BY <2>1, <2>2, <2>3 DEF Precedes, PushedBefore
<1> QED
  BY <1>1, RegistryInvariance, PTL

(* get() finds a plugin by the source it was loaded from, unless it named  *)
(* itself or the source was a shorthand.                                   *)
THEOREM SourcesFindPlugins == RegistrySpec => []FoundByItsSource
<1>1. RegistryIInv => FoundByItsSource
  <2> SUFFICES ASSUME RegistryIInv, NEW p \in Registered, Source[p] # Instance, OwnName[p] = NoName,
                      Source[p].form # "shorthand"
               PROVE  Matching(Source[p]) # {}
    BY DEF FoundByItsSource
  <2>1. PICK i \in DOMAIN plugins : plugins[i].plugin = p
    BY DEF Registered
  <2>2. p \in Plugins /\ call[p] \in Begun
    BY <2>1, PluginsAre DEF RegistryIInv, PushedOnce, Begun
  <2>3. name[p] \in ToSet(Lookups(Source[p]))
    BY <2>2 DEF RegistryIInv, Loaded
  <2> DEFINE s == Source[p]
  <2>4. IsMatchingName(name[p], s)
    <3>1. CASE s.form = "bare"
      <4>1. Lookups(s) = <<Name("internal", s.part), Name("public", s.part)>>
        BY <3>1 DEF Lookups
      <4>2. name[p] \in {Name("internal", s.part), Name("public", s.part)}
        BY <2>3, <4>1 DEF ToSet
      <4> QED
        BY <3>1, <4>2 DEF IsMatchingName
    <3>2. CASE s.form # "bare"
      <4>1. Lookups(s) = <<s>>
        BY <3>2 DEF Lookups
      <4>2. name[p] = s
        BY <2>3, <4>1 DEF ToSet
      <4> QED
        BY <4>2 DEF IsMatchingName
    <3> QED
      BY <3>1, <3>2
  <2> QED
    BY <2>1, <2>4 DEF Matching
<1> QED
  BY <1>1, RegistryInvariance, PTL

-----------------------------------------------------------------------------
(* The config finder.                                                      *)

Keys == {"extends", "overrides"}
Entries == [object : Nat, mtime : Nat]
Objects == [version : Nat, settings : SUBSET Keys, taken : SUBSET (Keys \X Loads)]

FileSteps == {"scope", "stat", "read", "store", "done", "failed"}
FileStates == [step : FileSteps, seen : Entries \cup {None}, mtime : Nat, read : Nat, object : Nat]
Before == {"idle", "branch", "root"}
LoadSteps == Before \cup {"files", "extends", "done", "rejected"}
AnswerParts == [file : Files, object : Nat, source : {"extended", "found", "overridden"}]
LoadStates ==
    [step : LoadSteps, start : [Files -> Nat], matches : SUBSET Files, found : Seq(Files), next : Nat \ {0},
     file : [Files -> FileStates], overrides : Seq(Files), extends : BOOLEAN, nested : BOOLEAN,
     answer : Seq(AnswerParts)]

FinderTypes ==
    /\ version \in [Files -> Nat] /\ edits \in Nat
    /\ dirFilesCache \in [Folders -> Seq(Files) \cup {None}]
    /\ fileContentCache \in [Files -> Entries \cup {None}]
    /\ heap \in Seq(Objects)
    /\ load \in [Loads -> LoadStates]

At(l, f) == load[l].file[f].step

\* The entries that the cache has of a file or that a load took from it to compare,
\* and the objects that these and the loads that have the file refer to.
EntriesOf(f) ==
    ({fileContentCache[f]} \cup {load[l].file[f].seen : l \in {m \in Loads : At(m, f) = "stat"}}) \ {None}
References(f) ==
    {e.object : e \in EntriesOf(f)} \cup {Object(l, f) : l \in {m \in Loads : At(m, f) = "done"}}

\* Loads share the objects of a file, and never those of two files.
Apart ==
    /\ \A f \in Files : References(f) \subseteq 1..Len(heap)
    /\ \A f, g \in Files : f # g => References(f) \cap References(g) = {}

\* A setting is in the object, or one load took it.
Taken(o, key) == {t \in Loads : <<key, t>> \in heap[o].taken}
TakenOnce ==
    \A f \in Files : \A o \in References(f) :
        /\ heap[o].settings \subseteq Given(f)
        /\ \A key \in Given(f) :
              IF key \in heap[o].settings THEN Taken(o, key) = {} ELSE \E t \in Loads : Taken(o, key) = {t}

\* A version that was told of a file is not newer than the file, unless it is gone.
Told(v, f) == v <= edits + 1 /\ (version[f] > 0 => v <= version[f])

\* What a load compares and has read is at least as new as what it began with.
NewerFile(l, f) ==
    LET start == load[l].start[f]
        state == load[l].file[f]
    IN  /\ Told(start, f)
        /\ load[l].step \in Before => state.step = "scope"
        /\ state.step = "read" => start <= state.mtime /\ Told(state.mtime, f)
        /\ state.step = "store" => start <= state.mtime /\ state.mtime <= state.read
        /\ state.step = "done" => start <= heap[state.object].version

Newer ==
    /\ \A f \in Files : version[f] <= edits + 1
    /\ \A f \in Files : \A e \in EntriesOf(f) : heap[e.object].version >= e.mtime
    /\ \A l \in Loads, f \in Files : NewerFile(l, f)

FreshLoad(l) ==
    load[l].step = "done" => \A i \in 1..Len(load[l].answer) :
        LET part == load[l].answer[i]
        IN  part.object \in 1..Len(heap) /\ heap[part.object].version >= load[l].start[part.file]

\* What a load that has begun to extract settings took, and what it took them for.
Past(l) == load[l].step \in {"extends", "done"}
HasOverrides(l) ==
    Past(l) =>
        /\ ToSet(load[l].overrides) \subseteq ToSet(load[l].found)
        /\ \A f \in ToSet(load[l].found) :
              /\ At(l, f) = "done"
              /\ IsRoot(f) /\ f \in Overriding =>
                    /\ "overrides" \notin heap[Object(l, f)].settings
                    /\ <<"overrides", l>> \in heap[Object(l, f)].taken /\ f \in load[l].matches
                         <=> f \in ToSet(load[l].overrides)

\* What it overrides with, as far as it went over it, and the presets of that.
VisitedOverrides(l) ==
    {load[l].overrides[i] : i \in {j \in 1..Len(load[l].overrides) : Len(load[l].found) + j < load[l].next}}
HasNested(l) == Past(l) => (load[l].nested <=> VisitedOverrides(l) \cap Nested # {})

Visited(l) == {load[l].found[i] : i \in {j \in 1..Len(load[l].found) : j < load[l].next}}
HasExtends(l) ==
    Past(l) =>
        /\ \A f \in Visited(l) : IsRoot(f) /\ f \in Extending =>
              /\ "extends" \notin heap[Object(l, f)].settings
              /\ <<"extends", l>> \in heap[Object(l, f)].taken <=> load[l].extends
        /\ load[l].extends => \E f \in Visited(l) : IsRoot(f) /\ f \in Extending
        /\ load[l].step = "done" => load[l].next > Turns(l)

NothingTaken(l) ==
    /\ load[l].step \in Before \cup {"files"} =>
          /\ ~load[l].extends /\ ~load[l].nested /\ load[l].next = 1
          /\ \A o \in 1..Len(heap) : \A key \in Keys : <<key, l>> \notin heap[o].taken
    /\ load[l].step = "extends" => \A o \in 1..Len(heap) :
          <<"extends", l>> \in heap[o].taken => \E f \in Visited(l) : Object(l, f) = o

LoadInv(l) == HasOverrides(l) /\ HasExtends(l) /\ HasNested(l) /\ NothingTaken(l) /\ FreshLoad(l)

FinderIInv ==
    /\ FinderTypes
    /\ Apart /\ TakenOnce
    /\ Newer
    /\ \A l \in Loads : LoadInv(l)

-----------------------------------------------------------------------------
(* What a step does to the objects and to the references to them.          *)

\* Objects stay, and a setting that is gone stays gone.
HeapGrows ==
    /\ heap' \in Seq(Objects) /\ Len(heap) <= Len(heap')
    /\ \A o \in 1..Len(heap) :
          /\ heap'[o].version = heap[o].version
          /\ \A key \in Keys \ heap[o].settings :
                /\ key \notin heap'[o].settings
                /\ \A t \in Loads : <<key, t>> \in heap'[o].taken <=> <<key, t>> \in heap[o].taken

\* Load l takes nothing.
TakesNothing(l) ==
    \A o \in 1..Len(heap') : \A key \in Keys :
        <<key, l>> \in heap'[o].taken => o \in 1..Len(heap) /\ <<key, l>> \in heap[o].taken

\* A setting stays, or one load takes it.
TakesOnce ==
    \A o \in 1..Len(heap) : \A key \in Keys :
        /\ heap'[o].settings \subseteq heap[o].settings
        /\ \/ /\ key \in heap'[o].settings <=> key \in heap[o].settings
              /\ Taken(o, key)' = Taken(o, key)
           \/ /\ key \in heap[o].settings /\ key \notin heap'[o].settings
              /\ \E t \in Loads : Taken(o, key)' = Taken(o, key) \cup {t}

LEMMA HeapSame ==
    ASSUME FinderTypes, heap' = heap
    PROVE  HeapGrows /\ TakesOnce /\ \A l \in Loads : TakesNothing(l)
BY LenProperties DEF FinderTypes, HeapGrows, TakesNothing, TakesOnce, Taken

\* What deleting a setting leaves.
LEMMA DeletedIs ==
    ASSUME FinderTypes, NEW l \in Loads, NEW os, NEW key \in Keys
    PROVE  /\ Deleted(l, os, key) \in Seq(Objects) /\ Len(Deleted(l, os, key)) = Len(heap)
           /\ \A o \in 1..Len(heap) :
                 /\ o \in os /\ key \in heap[o].settings =>
                       /\ Deleted(l, os, key)[o].version = heap[o].version
                       /\ Deleted(l, os, key)[o].settings = heap[o].settings \ {key}
                       /\ Deleted(l, os, key)[o].taken = heap[o].taken \cup {<<key, l>>}
                 /\ ~(o \in os /\ key \in heap[o].settings) => Deleted(l, os, key)[o] = heap[o]
<1> DEFINE d == Deleted(l, os, key)
<1>1. heap \in Seq(Objects) /\ Len(heap) \in Nat /\ DOMAIN heap = 1..Len(heap)
  BY LenProperties DEF FinderTypes
<1>2. \A o \in 1..Len(heap) : heap[o] \in Objects
  BY <1>1, ElementOfSeq
<1>3. d = [o \in 1..Len(heap) |->
             IF o \in os /\ key \in heap[o].settings
             THEN [heap[o] EXCEPT !.settings = @ \ {key}, !.taken = @ \union {<<key, l>>}]
             ELSE heap[o]]
  BY <1>1 DEF Deleted
<1>4. \A o \in 1..Len(heap) :
        /\ o \in os /\ key \in heap[o].settings =>
              d[o] = [heap[o] EXCEPT !.settings = @ \ {key}, !.taken = @ \union {<<key, l>>}]
        /\ ~(o \in os /\ key \in heap[o].settings) => d[o] = heap[o]
  BY <1>3
<1>5. \A o \in 1..Len(heap) : o \in os /\ key \in heap[o].settings =>
        /\ d[o].version = heap[o].version
        /\ d[o].settings = heap[o].settings \ {key}
        /\ d[o].taken = heap[o].taken \cup {<<key, l>>}
  BY <1>2, <1>4 DEF Objects
<1>6. \A o \in 1..Len(heap) : d[o] \in Objects
  <2> SUFFICES ASSUME NEW o \in 1..Len(heap), o \in os /\ key \in heap[o].settings PROVE d[o] \in Objects
    BY <1>2, <1>4
  <2> DEFINE settings == heap[o].settings \ {key}
             taken == heap[o].taken \cup {<<key, l>>}
  <2>1. d[o] = [heap[o] EXCEPT !.settings = settings, !.taken = taken]
    BY <1>4
  <2>2. heap[o].settings \in SUBSET Keys /\ heap[o].taken \in SUBSET (Keys \X Loads)
    BY <1>2 DEF Objects
  <2>3. settings \in SUBSET Keys
    BY <2>2
  <2>4. taken \in SUBSET (Keys \X Loads)
    <3>1. <<key, l>> \in Keys \X Loads
      OBVIOUS
    <3> HIDE DEF Keys
    <3> QED
      BY <2>2, <3>1
  <2> HIDE DEF settings, taken, d
  <2> QED
    BY <1>2, <2>1, <2>3, <2>4 DEF Objects
<1>7. d \in [1..Len(heap) -> Objects]
  <2> HIDE DEF d
  <2> QED
    BY <1>3, <1>6
<1>8. d \in Seq(Objects) /\ Len(d) = Len(heap)
  <2> HIDE DEF d
  <2>1. d \in Seq(Objects)
    BY <1>1, <1>7 DEF Seq
  <2>2. DOMAIN d = 1..Len(heap)
    BY <1>7
  <2> QED
    BY <1>1, <2>1, <2>2, LenProperties
<1> QED
  BY <1>4, <1>5, <1>8

LEMMA HeapDeleted ==
    ASSUME FinderTypes, NEW l \in Loads, NEW os, NEW key \in Keys, heap' = Deleted(l, os, key)
    PROVE  HeapGrows /\ TakesOnce /\ \A m \in Loads \ {l} : TakesNothing(m)
<1>1. /\ heap' \in Seq(Objects) /\ Len(heap') = Len(heap)
      /\ \A o \in 1..Len(heap) :
            /\ o \in os /\ key \in heap[o].settings =>
                  /\ heap'[o].version = heap[o].version
                  /\ heap'[o].settings = heap[o].settings \ {key}
                  /\ heap'[o].taken = heap[o].taken \cup {<<key, l>>}
            /\ ~(o \in os /\ key \in heap[o].settings) => heap'[o] = heap[o]
  BY DeletedIs
<1>2. Len(heap) \in Nat
  BY LenProperties DEF FinderTypes
<1>3. HeapGrows
  BY <1>1, <1>2 DEF HeapGrows
<1>4. \A m \in Loads \ {l} : TakesNothing(m)
  BY <1>1 DEF TakesNothing
<1>5. TakesOnce
  <2> SUFFICES ASSUME NEW o \in 1..Len(heap), NEW k \in Keys
               PROVE  /\ heap'[o].settings \subseteq heap[o].settings
                      /\ \/ /\ k \in heap'[o].settings <=> k \in heap[o].settings
                            /\ Taken(o, k)' = Taken(o, k)
                         \/ /\ k \in heap[o].settings /\ k \notin heap'[o].settings
                            /\ \E t \in Loads : Taken(o, k)' = Taken(o, k) \cup {t}
    BY DEF TakesOnce
  <2>1. CASE ~(o \in os /\ key \in heap[o].settings)
    BY <1>1, <2>1 DEF Taken
  <2>2. CASE o \in os /\ key \in heap[o].settings /\ k = key
    <3>1. heap'[o].settings = heap[o].settings \ {k} /\ heap'[o].taken = heap[o].taken \cup {<<k, l>>}
      BY <1>1, <2>2
    <3>2. Taken(o, k)' = Taken(o, k) \cup {l}
      BY <3>1 DEF Taken
    <3> QED
      BY <2>2, <3>1, <3>2
  <2>3. CASE o \in os /\ key \in heap[o].settings /\ k # key
    <3>1. heap'[o].settings = heap[o].settings \ {key} /\ heap'[o].taken = heap[o].taken \cup {<<key, l>>}
      BY <1>1, <2>3
    <3>2. Taken(o, k)' = Taken(o, k)
      BY <2>3, <3>1 DEF Taken
    <3> QED
      BY <2>3, <3>1, <3>2
  <2> QED
    BY <2>1, <2>2, <2>3
<1> QED
  BY <1>3, <1>4, <1>5

LEMMA HeapAppended ==
    ASSUME FinderTypes, NEW object \in Objects, object.taken = {}, heap' = Append(heap, object)
    PROVE  HeapGrows /\ \A l \in Loads : TakesNothing(l)
<1>1. /\ heap' \in Seq(Objects) /\ Len(heap') = Len(heap) + 1 /\ Len(heap) \in Nat
      /\ \A o \in 1..Len(heap) : heap'[o] = heap[o]
      /\ heap'[Len(heap) + 1] = object
  BY AppendProperties, LenProperties DEF FinderTypes
<1> QED
  BY <1>1 DEF HeapGrows, TakesNothing

-----------------------------------------------------------------------------
(* References.                                                             *)

\* When no load's file moves, and the cache drops entries at most.
LEMMA ReferencesKept ==
    ASSUME \A l \in Loads, f \in Files : load'[l].file[f] = load[l].file[f],
           \A f \in Files : fileContentCache'[f] = fileContentCache[f] \/ fileContentCache'[f] = None,
           NEW f \in Files
    PROVE  EntriesOf(f)' \subseteq EntriesOf(f) /\ References(f)' \subseteq References(f)
<1>1. \A l \in Loads : At(l, f)' = At(l, f) /\ Object(l, f)' = Object(l, f)
                       /\ load'[l].file[f].seen = load[l].file[f].seen
  BY DEF At, Object
<1>2. EntriesOf(f)' \subseteq EntriesOf(f)
  BY <1>1 DEF EntriesOf
<1> QED
  BY <1>1, <1>2 DEF References

\* When a load looks at its file in the cache, or takes what it saw there.
LEMMA ReferencesOfStep ==
    ASSUME NEW l \in Loads, NEW f \in Files,
           \A m \in Loads, g \in Files : m # l \/ g # f => load'[m].file[g] = load[m].file[g],
           fileContentCache' = fileContentCache,
           At(l, f)' = "stat" => load'[l].file[f].seen = fileContentCache[f],
           At(l, f)' = "done" => \E e \in EntriesOf(f) : Object(l, f)' = e.object,
           NEW g \in Files
    PROVE  EntriesOf(g)' \subseteq EntriesOf(g) /\ References(g)' \subseteq References(g)
<1>1. \A m \in Loads : m # l \/ g # f => At(m, g)' = At(m, g) /\ Object(m, g)' = Object(m, g)
                                       /\ load'[m].file[g].seen = load[m].file[g].seen
  BY DEF At, Object
<1>2. EntriesOf(g)' \subseteq EntriesOf(g)
  <2> SUFFICES ASSUME NEW e \in EntriesOf(g)' PROVE e \in EntriesOf(g)
    OBVIOUS
  <2>1. e # None /\ (e = fileContentCache[g] \/ \E m \in Loads : At(m, g)' = "stat" /\ e = load'[m].file[g].seen)
    BY DEF EntriesOf
  <2>2. CASE e = fileContentCache[g]
    BY <2>1, <2>2 DEF EntriesOf
  <2>3. ASSUME NEW m \in Loads, At(m, g)' = "stat", e = load'[m].file[g].seen PROVE e \in EntriesOf(g)
    <3>1. CASE m # l \/ g # f
      <4>1. At(m, g) = "stat" /\ e = load[m].file[g].seen
        BY <1>1, <2>3, <3>1
      <4> QED
        BY <2>1, <4>1 DEF EntriesOf
    <3>2. CASE m = l /\ g = f
      BY <2>1, <2>3, <3>2 DEF EntriesOf
    <3> QED
      BY <3>1, <3>2
  <2> QED
    BY <2>1, <2>2, <2>3
<1>3. References(g)' \subseteq References(g)
  <2> SUFFICES ASSUME NEW o \in References(g)' PROVE o \in References(g)
    OBVIOUS
  <2>1. (\E e \in EntriesOf(g)' : o = e.object) \/ (\E m \in Loads : At(m, g)' = "done" /\ o = Object(m, g)')
    BY DEF References
  <2>2. CASE \E e \in EntriesOf(g)' : o = e.object
    BY <1>2, <2>2 DEF References
  <2>3. ASSUME NEW m \in Loads, At(m, g)' = "done", o = Object(m, g)' PROVE o \in References(g)
    <3>1. CASE m # l \/ g # f
      BY <1>1, <2>3, <3>1 DEF References
    <3>2. CASE m = l /\ g = f
      BY <2>3, <3>2 DEF References
    <3> QED
      BY <3>1, <3>2
  <2> QED
    BY <2>1, <2>2, <2>3
<1> QED
  BY <1>2, <1>3

-----------------------------------------------------------------------------
(* What most steps keep.                                                   *)

LEMMA ObjectsKept ==
    ASSUME FinderTypes, Apart, NEW f \in Files
    PROVE  /\ \A o \in References(f) : o \in 1..Len(heap) /\ heap[o] \in Objects
           /\ \A e \in EntriesOf(f) : e.object \in References(f)
           /\ \A l \in Loads : At(l, f) = "done" => Object(l, f) \in References(f)
<1>1. References(f) \subseteq 1..Len(heap)
  BY DEF Apart
<1>2. \A o \in 1..Len(heap) : heap[o] \in Objects
  BY ElementOfSeq DEF FinderTypes
<1> QED
  BY <1>1, <1>2 DEF References

\* Objects stay apart, and their settings taken once, when references only go.
LEMMA ApartKept ==
    ASSUME FinderTypes, Apart, TakenOnce, HeapGrows, TakesOnce,
           \A f \in Files : References(f)' \subseteq References(f)
    PROVE  Apart' /\ TakenOnce'
<1>1. Apart'
  <2>1. Len(heap) \in Nat /\ Len(heap') \in Nat /\ Len(heap) <= Len(heap')
    BY LenProperties DEF FinderTypes, HeapGrows
  <2>2. \A f \in Files : References(f)' \subseteq 1..Len(heap)
    BY DEF Apart
  <2>3. 1..Len(heap) \subseteq 1..Len(heap')
    BY <2>1
  <2> QED
    BY <2>2, <2>3 DEF Apart
<1>2. \A f \in Files : Given(f) \subseteq Keys
  BY DEF Given, Keys
<1>3. ASSUME NEW f \in Files, NEW o \in References(f)' PROVE heap'[o].settings \subseteq Given(f)
  <2>1. o \in References(f) /\ o \in 1..Len(heap) /\ "extends" \in Keys
    BY <1>3, ObjectsKept DEF Keys
  <2>2. heap[o].settings \subseteq Given(f)
    BY <2>1 DEF TakenOnce
  <2> QED
    BY <2>1, <2>2 DEF TakesOnce
<1>4. ASSUME NEW f \in Files, NEW o \in References(f)', NEW key \in Given(f)
      PROVE  IF key \in heap'[o].settings THEN Taken(o, key)' = {} ELSE \E t \in Loads : Taken(o, key)' = {t}
  <2>1. o \in References(f) /\ o \in 1..Len(heap) /\ key \in Keys
    BY <1>2, <1>4, ObjectsKept
  <2>2. IF key \in heap[o].settings THEN Taken(o, key) = {} ELSE \E t \in Loads : Taken(o, key) = {t}
    BY <2>1, <1>4 DEF TakenOnce
  <2>3. CASE (key \in heap'[o].settings <=> key \in heap[o].settings) /\ Taken(o, key)' = Taken(o, key)
    BY <2>2, <2>3
  <2>4. CASE key \in heap[o].settings /\ key \notin heap'[o].settings
             /\ \E t \in Loads : Taken(o, key)' = Taken(o, key) \cup {t}
    BY <2>2, <2>4
  <2> QED
    BY <2>1, <2>3, <2>4 DEF TakesOnce
<1> QED
  BY <1>1, <1>3, <1>4 DEF TakenOnce

\* What is new of a load that keeps what it found and the files it has.
LEMMA LoadKept ==
    ASSUME FinderTypes, Apart, HeapGrows, NEW l \in Loads, TakesNothing(l), LoadInv(l),
           load'[l].step = load[l].step, load'[l].start = load[l].start, load'[l].matches = load[l].matches,
           load'[l].found = load[l].found, load'[l].next = load[l].next, load'[l].overrides = load[l].overrides,
           load'[l].extends = load[l].extends, load'[l].nested = load[l].nested, load'[l].answer = load[l].answer,
           \A f \in Files : At(l, f) = "done" => load'[l].file[f] = load[l].file[f]
    PROVE  LoadInv(l)'
<1>1. load[l].found \in Seq(Files)
  BY DEF FinderTypes, LoadStates
<1>2. ToSet(load[l].found) \subseteq Files /\ Visited(l) \subseteq ToSet(load[l].found)
  <2>1. \A i \in 1..Len(load[l].found) : load[l].found[i] \in Files
    BY <1>1, ElementOfSeq
  <2>2. DOMAIN load[l].found = 1..Len(load[l].found)
    BY <1>1, LenProperties
  <2> QED
    BY <2>1, <2>2 DEF ToSet, Visited
<1>3. \A f \in Files : At(l, f) = "done" =>
        /\ At(l, f)' = "done" /\ Object(l, f)' = Object(l, f) /\ Object(l, f) \in 1..Len(heap)
  BY ObjectsKept DEF At, Object
<1>4. Past(l)' = Past(l) /\ ToSet(load[l].found)' = ToSet(load[l].found) /\ Visited(l)' = Visited(l)
      /\ ToSet(load[l].overrides)' = ToSet(load[l].overrides) /\ Turns(l)' = Turns(l)
      /\ VisitedOverrides(l)' = VisitedOverrides(l)
  BY DEF Past, Visited, VisitedOverrides, Turns
<1>5. \A o \in 1..Len(heap) : \A key \in Keys : key \notin heap[o].settings =>
        /\ key \notin heap'[o].settings
        /\ <<key, l>> \in heap'[o].taken <=> <<key, l>> \in heap[o].taken
  BY DEF HeapGrows
<1>6. HasOverrides(l)'
  BY <1>2, <1>3, <1>4, <1>5 DEF LoadInv, HasOverrides, Keys
<1>7. HasExtends(l)'
  BY <1>2, <1>3, <1>4, <1>5 DEF LoadInv, HasExtends, HasOverrides, Keys, Past
<1>8. NothingTaken(l)'
  <2>1. \A o \in 1..Len(heap') : \A key \in Keys :
          <<key, l>> \in heap'[o].taken => o \in 1..Len(heap) /\ <<key, l>> \in heap[o].taken
    BY DEF TakesNothing
  <2>2. CASE load[l].step \in Before \cup {"files"}
    BY <2>1, <2>2 DEF LoadInv, NothingTaken, Before
  <2>3. CASE load[l].step = "extends"
    BY <1>2, <1>3, <1>4, <2>1, <2>3 DEF LoadInv, NothingTaken, Before, Keys, HasOverrides, Past
  <2>4. CASE load[l].step \notin Before \cup {"files", "extends"}
    BY <2>4 DEF NothingTaken, Before
  <2> QED
    BY <2>2, <2>3, <2>4
<1>9. FreshLoad(l)'
  <2>1. \A o \in 1..Len(heap) : o \in 1..Len(heap') /\ heap'[o].version = heap[o].version
    BY LenProperties DEF HeapGrows, FinderTypes
  <2> QED
    BY <2>1 DEF LoadInv, FreshLoad
<1>10. HasNested(l)'
  BY <1>4 DEF LoadInv, HasNested
<1> QED
  BY <1>6, <1>7, <1>8, <1>9, <1>10 DEF LoadInv

\* What a load that was rejected still has to keep.
LEMMA LoadRejected ==
    ASSUME NEW l \in Loads, load'[l].step = "rejected"
    PROVE  LoadInv(l)'
BY DEF LoadInv, HasOverrides, HasExtends, HasNested, NothingTaken, FreshLoad, Past, Before

\* The files stay as they are, and so what a load knows of them.
LEMMA NewerKept ==
    ASSUME FinderTypes, Apart, Newer, HeapGrows, version' = version, edits' = edits,
           \A f \in Files : EntriesOf(f)' \subseteq EntriesOf(f)
    PROVE  /\ \A f \in Files : version'[f] <= edits' + 1
           /\ \A f \in Files : \A e \in EntriesOf(f)' : heap'[e.object].version >= e.mtime
           /\ \A l \in Loads, f \in Files :
                 /\ load'[l].file[f] = load[l].file[f]
                 /\ load'[l].start = load[l].start
                 /\ load'[l].step \in Before => load[l].step \in Before
                 => NewerFile(l, f)'
<1>1. \A f \in Files : \A o \in References(f) : heap'[o].version = heap[o].version
  BY ObjectsKept DEF HeapGrows
<1>2. \A f \in Files : \A e \in EntriesOf(f)' : heap'[e.object].version >= e.mtime
  BY <1>1, ObjectsKept DEF Newer
<1>3. \A v, f : Told(v, f)' <=> Told(v, f)
  BY DEF Told
<1>4. ASSUME NEW l \in Loads, NEW f \in Files,
             load'[l].file[f] = load[l].file[f], load'[l].start = load[l].start,
             load'[l].step \in Before => load[l].step \in Before
      PROVE  NewerFile(l, f)'
  <2>1. load[l].file[f].step = "done" => heap'[load[l].file[f].object].version = heap[load[l].file[f].object].version
    BY <1>1, ObjectsKept DEF At, Object
  <2> QED
    BY <1>3, <1>4, <2>1 DEF Newer, NewerFile
<1> QED
  BY <1>2, <1>4 DEF Newer

-----------------------------------------------------------------------------
(* The steps of a file.                                                    *)

\* A load's file comes to another state, and the load perhaps to another step.
FileMoves(l, f, step, state) ==
    /\ load' \in [Loads -> LoadStates]
    /\ \A m \in Loads \ {l} : load'[m] = load[m]
    /\ load'[l].step = step /\ load'[l].file[f] = state
    /\ \A g \in Files \ {f} : load'[l].file[g] = load[l].file[g]
    /\ load'[l].start = load[l].start /\ load'[l].matches = load[l].matches /\ load'[l].found = load[l].found
    /\ load'[l].next = load[l].next /\ load'[l].overrides = load[l].overrides
    /\ load'[l].extends = load[l].extends /\ load'[l].nested = load[l].nested
    /\ load'[l].answer = load[l].answer

LEMMA FileMoved ==
    ASSUME FinderTypes, NEW l \in Loads, NEW f \in Files, NEW step \in LoadSteps, NEW state \in FileStates,
           load' = [load EXCEPT ![l] = [load[l] EXCEPT !.step = step,
                                          !.file = [load[l].file EXCEPT ![f] = state]]]
    PROVE  FileMoves(l, f, step, state)
<1> DEFINE file == [load[l].file EXCEPT ![f] = state]
           new == [load[l] EXCEPT !.step = step, !.file = file]
<1>1. load \in [Loads -> LoadStates] /\ load[l] \in LoadStates /\ load[l].file \in [Files -> FileStates]
  BY DEF FinderTypes, LoadStates
<1>2. file \in [Files -> FileStates] /\ file[f] = state /\ \A g \in Files \ {f} : file[g] = load[l].file[g]
  BY <1>1
<1> HIDE DEF file
<1>3. /\ new \in LoadStates /\ new.step = step /\ new.file = file
      /\ new.start = load[l].start /\ new.matches = load[l].matches /\ new.found = load[l].found
      /\ new.next = load[l].next /\ new.overrides = load[l].overrides
      /\ new.extends = load[l].extends /\ new.nested = load[l].nested /\ new.answer = load[l].answer
  BY <1>1, <1>2 DEF LoadStates
<1>4. load' = [load EXCEPT ![l] = new]
  BY DEF file
<1> HIDE DEF new
<1>5. load' \in [Loads -> LoadStates] /\ load'[l] = new /\ \A m \in Loads \ {l} : load'[m] = load[m]
  BY <1>1, <1>3, <1>4
<1> QED
  BY <1>2, <1>3, <1>5 DEF FileMoves

\* A step that only moves a file that the load does not have yet.
LEMMA FileStep ==
    ASSUME FinderIInv, NEW l \in Loads, NEW f \in Files, NEW step, NEW state,
           FileMoves(l, f, step, state), step \in {load[l].step, "rejected"}, At(l, f) # "done",
           UNCHANGED <<version, edits, clears, dirFilesCache, fileContentCache, heap>>,
           state.step = "stat" => state.seen = fileContentCache[f],
           state.step = "done" => \E e \in EntriesOf(f) : state.object = e.object,
           NewerFile(l, f)'
    PROVE  FinderIInv'
<1> USE DEF FinderIInv
<1>1. FinderTypes'
  BY DEF FinderTypes, FileMoves
<1>2. \A g \in Files : EntriesOf(g)' \subseteq EntriesOf(g) /\ References(g)' \subseteq References(g)
  <2>1. \A m \in Loads, g \in Files : m # l \/ g # f => load'[m].file[g] = load[m].file[g]
    BY DEF FileMoves
  <2>2. At(l, f)' = state.step /\ Object(l, f)' = state.object /\ load'[l].file[f].seen = state.seen
    BY DEF FileMoves, At, Object
  <2>3. At(l, f)' = "stat" => load'[l].file[f].seen = fileContentCache[f]
    BY <2>2
  <2>4. At(l, f)' = "done" => \E e \in EntriesOf(f) : Object(l, f)' = e.object
    BY <2>2
  <2> QED
    BY <2>1, <2>3, <2>4, ReferencesOfStep
<1>3. HeapGrows /\ TakesOnce /\ \A m \in Loads : TakesNothing(m)
  BY HeapSame
<1>4. Apart' /\ TakenOnce'
  BY <1>2, <1>3, ApartKept
<1>5. Newer'
  <2>1. ASSUME NEW m \in Loads, NEW g \in Files, m # l \/ g # f
        PROVE  /\ load'[m].file[g] = load[m].file[g] /\ load'[m].start = load[m].start
               /\ load'[m].step \in Before => load[m].step \in Before
    BY <2>1 DEF FileMoves, Before
  <2> QED
    BY <1>2, <1>3, <2>1, NewerKept DEF Newer
<1>6. ASSUME NEW m \in Loads PROVE LoadInv(m)'
  <2>1. CASE m # l
    BY <1>3, <2>1, LoadKept DEF FileMoves
  <2>2. CASE m = l /\ step = "rejected"
    BY <2>2, LoadRejected DEF FileMoves
  <2>3. CASE m = l /\ step = load[l].step
    <3>1. \A g \in Files : At(l, g) = "done" => load'[l].file[g] = load[l].file[g]
      BY DEF FileMoves
    <3> QED
      BY <1>3, <2>3, <3>1, LoadKept DEF FileMoves
  <2> QED
    BY <2>1, <2>2, <2>3
<1> QED
  BY <1>1, <1>4, <1>5, <1>6

\* The presets that a load extends.
LEMMA ExtendedIs ==
    ASSUME NEW l
    PROVE  /\ Extended(l) \in Seq(Files)
           /\ ToSet(Extended(l)) \subseteq Files
<1>1. <<Preset>> \in Seq(Files) /\ <<OverridePreset>> \in Seq(Files) /\ <<>> \in Seq(Files)
  BY EmptySeq DEF Files, Presets
<1>2. Extended(l) \in Seq(Files)
  BY <1>1, ConcatProperties DEF Extended
<1> HIDE DEF Extended
<1>3. DOMAIN Extended(l) = 1..Len(Extended(l)) /\ \A i \in 1..Len(Extended(l)) : Extended(l)[i] \in Files
  BY <1>2, LenProperties, ElementOfSeq
<1> QED
  BY <1>2, <1>3 DEF ToSet

LEMMA LoadingIs ==
    ASSUME FinderTypes, NEW l \in Loads, NEW f \in Loading(l)
    PROVE  f \in Files /\ load[l].step \notin Before
<1>1. load[l].found \in Seq(Files) /\ DOMAIN load[l].found = 1..Len(load[l].found)
  BY LenProperties DEF FinderTypes, LoadStates
<1>2. ToSet(load[l].found) \subseteq Files
  BY <1>1, ElementOfSeq DEF ToSet
<1>3. ToSet(Extended(l)) \subseteq Files
  BY ExtendedIs
<1> QED
  BY <1>2, <1>3 DEF Loading, Before

\* One file of one load moves.
LEMMA OneFile ==
    ASSUME FinderTypes, NEW l \in Loads, NEW f \in Files, NEW state, load' = [load EXCEPT ![l].file[f] = state]
    PROVE  load' = [load EXCEPT ![l] = [load[l] EXCEPT !.step = load[l].step,
                                          !.file = [load[l].file EXCEPT ![f] = state]]]
<1> DEFINE file == [load[l].file EXCEPT ![f] = state]
<1>1. load[l] \in LoadStates
  BY DEF FinderTypes
<1>2. load' = [load EXCEPT ![l] = [load[l] EXCEPT !.file = file]]
  OBVIOUS
<1> HIDE DEF file
<1>3. [load[l] EXCEPT !.step = load[l].step, !.file = file] = [load[l] EXCEPT !.file = file]
  BY <1>1 DEF LoadStates
<1> QED
  BY <1>2, <1>3 DEF file

LEMMA LookStep ==
    ASSUME FinderIInv, NEW l \in Loads, NEW f \in Loading(l), Look(l, f)
    PROVE  FinderIInv'
<1> USE DEF FinderIInv
<1> DEFINE state == [load[l].file[f] EXCEPT !.step = "stat", !.seen = fileContentCache[f]]
<1>1. f \in Files /\ load[l].step \notin Before
  BY LoadingIs
<1>2. /\ load[l] \in LoadStates /\ load[l].step \in LoadSteps /\ load[l].file[f] \in FileStates
      /\ fileContentCache[f] \in Entries \cup {None}
  BY <1>1 DEF FinderTypes, LoadStates
<1>3. /\ state \in FileStates /\ state.step = "stat" /\ state.seen = fileContentCache[f]
  BY <1>2 DEF FileStates, FileSteps
<1>4. load' = [load EXCEPT ![l] = [load[l] EXCEPT !.step = load[l].step,
                                     !.file = [load[l].file EXCEPT ![f] = state]]]
  <2>1. load' = [load EXCEPT ![l].file[f] = [@ EXCEPT !.step = "stat", !.seen = fileContentCache[f]]]
    BY DEF Look
  <2> QED
    <3>1. load' = [load EXCEPT ![l].file[f] = state]
      BY <1>1, <1>2, <2>1 DEF LoadStates, FinderTypes
    <3> QED
      BY <1>1, <3>1, OneFile
<1> HIDE DEF state
<1>5. FileMoves(l, f, load[l].step, state)
  BY <1>1, <1>2, <1>3, <1>4, FileMoved
<1>6. NewerFile(l, f)'
  <2>1. Told(load[l].start[f], f)' = Told(load[l].start[f], f)
    BY <1>5 DEF Told, FileMoves, Look
  <2> QED
    BY <1>1, <1>3, <1>5, <2>1 DEF NewerFile, FileMoves, Newer
<1>7. At(l, f) # "done" /\ UNCHANGED <<version, edits, clears, dirFilesCache, fileContentCache, heap>>
  BY DEF Look, At
<1> QED
  BY <1>1, <1>3, <1>5, <1>6, <1>7, FileStep

LEMMA FailStep ==
    ASSUME FinderIInv, NEW l \in Loads, NEW f \in Loading(l), At(l, f) \in {"stat", "read"},
           load' = [Reject(l) EXCEPT ![l].file[f].step = "failed"],
           UNCHANGED <<version, edits, clears, dirFilesCache, fileContentCache, heap>>
    PROVE  FinderIInv'
<1> USE DEF FinderIInv
<1> DEFINE state == [load[l].file[f] EXCEPT !.step = "failed"]
<1>1. f \in Files /\ load[l].step \notin Before
  BY LoadingIs
<1>2. load[l] \in LoadStates /\ load[l].file[f] \in FileStates
  BY <1>1 DEF FinderTypes, LoadStates
<1>3. state \in FileStates /\ state.step = "failed" /\ "rejected" \in LoadSteps
  BY <1>2 DEF FileStates, FileSteps, LoadSteps
<1>4. load' = [load EXCEPT ![l] = [load[l] EXCEPT !.step = "rejected",
                                     !.file = [load[l].file EXCEPT ![f] = state]]]
  BY <1>1, <1>2 DEF Reject, LoadStates, FinderTypes
<1> HIDE DEF state
<1>5. FileMoves(l, f, "rejected", state)
  BY <1>1, <1>2, <1>3, <1>4, FileMoved
<1>6. NewerFile(l, f)'
  <2>1. Told(load[l].start[f], f)' = Told(load[l].start[f], f)
    BY <1>5 DEF Told, FileMoves
  <2> QED
    BY <1>1, <1>3, <1>5, <2>1 DEF NewerFile, FileMoves, Newer, Before
<1>7. At(l, f) # "done"
  BY DEF At
<1> QED
  BY <1>1, <1>3, <1>5, <1>6, <1>7, FileStep

LEMMA StatStep ==
    ASSUME FinderIInv, NEW l \in Loads, NEW f \in Loading(l), Stat(l, f)
    PROVE  FinderIInv'
<1> USE DEF FinderIInv
<1> DEFINE seen == load[l].file[f].seen
           hit == IF seen = None THEN FALSE ELSE seen.mtime = version[f]
<1>1. f \in Files /\ load[l].step \notin Before
  BY LoadingIs
<1>2. /\ load[l] \in LoadStates /\ load[l].step \in LoadSteps /\ load[l].file[f] \in FileStates
      /\ version[f] \in Nat /\ load[l].start[f] \in Nat
  BY <1>1 DEF FinderTypes, LoadStates
<1>3. At(l, f) = "stat" /\ UNCHANGED <<version, edits, clears, dirFilesCache, fileContentCache, heap>>
  BY DEF Stat, At
<1>4. \A v, g : Told(v, g)' = Told(v, g)
  BY <1>3 DEF Told
<1>5. CASE load' = [Reject(l) EXCEPT ![l].file[f].step = "failed"]
  BY <1>3, <1>5, FailStep
<1>6. CASE /\ version[f] > 0 /\ hit
           /\ load' = [load EXCEPT ![l].file[f] = [@ EXCEPT !.step = "done", !.object = seen.object]]
  <2> DEFINE state == [load[l].file[f] EXCEPT !.step = "done", !.object = seen.object]
  <2>1. seen # None /\ seen.mtime = version[f]
    BY <1>6
  <2>2. seen \in Entries /\ seen \in EntriesOf(f)
    BY <1>1, <1>2, <1>3, <2>1 DEF FileStates, EntriesOf
  <2>3. state \in FileStates /\ state.step = "done" /\ state.object = seen.object
    BY <1>2, <2>2 DEF FileStates, FileSteps, Entries
  <2>4. load' = [load EXCEPT ![l] = [load[l] EXCEPT !.step = load[l].step,
                                       !.file = [load[l].file EXCEPT ![f] = state]]]
    <3>1. load' = [load EXCEPT ![l].file[f] = state]
      BY <1>1, <1>2, <1>6 DEF LoadStates, FinderTypes
    <3> QED
      BY <1>1, <3>1, OneFile
  <2> HIDE DEF state
  <2>5. FileMoves(l, f, load[l].step, state)
    BY <1>1, <1>2, <2>3, <2>4, FileMoved
  <2>6. heap[seen.object].version >= load[l].start[f]
    <3>1. Told(load[l].start[f], f) /\ heap[seen.object].version >= seen.mtime
      BY <1>1, <2>2 DEF Newer, NewerFile
    <3>2. heap[seen.object] \in Objects
      BY <1>1, <2>2, ObjectsKept
    <3>3. heap[seen.object].version \in Nat
      BY <3>2 DEF Objects
    <3> QED
      BY <1>2, <1>6, <2>1, <3>1, <3>3 DEF Told
  <2>7. NewerFile(l, f)'
    <3>1. Told(load[l].start[f], f)
      BY <1>1 DEF Newer, NewerFile
    <3> QED
      BY <1>1, <1>3, <1>4, <2>3, <2>5, <2>6, <3>1 DEF NewerFile, FileMoves
  <2> QED
    BY <1>1, <1>3, <2>2, <2>3, <2>5, <2>7, FileStep
<1>7. CASE version[f] > 0 /\ load' = [load EXCEPT ![l].file[f] = [@ EXCEPT !.step = "read", !.mtime = version[f]]]
  <2> DEFINE state == [load[l].file[f] EXCEPT !.step = "read", !.mtime = version[f]]
  <2>3. state \in FileStates /\ state.step = "read" /\ state.mtime = version[f]
    BY <1>2 DEF FileStates, FileSteps
  <2>4. load' = [load EXCEPT ![l] = [load[l] EXCEPT !.step = load[l].step,
                                       !.file = [load[l].file EXCEPT ![f] = state]]]
    <3>1. load' = [load EXCEPT ![l].file[f] = state]
      BY <1>1, <1>2, <1>7 DEF LoadStates, FinderTypes
    <3> QED
      BY <1>1, <3>1, OneFile
  <2> HIDE DEF state
  <2>5. FileMoves(l, f, load[l].step, state)
    BY <1>1, <1>2, <2>3, <2>4, FileMoved
  <2>6. Told(load[l].start[f], f) /\ Told(version[f], f) /\ load[l].start[f] <= version[f]
    BY <1>1, <1>2, <1>7 DEF Newer, NewerFile, Told
  <2>7. NewerFile(l, f)'
    BY <1>1, <1>3, <1>4, <2>3, <2>5, <2>6 DEF NewerFile, FileMoves
  <2> QED
    BY <1>1, <1>3, <2>3, <2>5, <2>7, FileStep
<1> QED
  BY <1>5, <1>6, <1>7 DEF Stat

LEMMA ReadStep ==
    ASSUME FinderIInv, NEW l \in Loads, NEW f \in Loading(l), Read(l, f)
    PROVE  FinderIInv'
<1> USE DEF FinderIInv
<1>1. f \in Files /\ load[l].step \notin Before
  BY LoadingIs
<1>2. /\ load[l] \in LoadStates /\ load[l].step \in LoadSteps /\ load[l].file[f] \in FileStates
      /\ version[f] \in Nat /\ load[l].start[f] \in Nat /\ load[l].file[f].mtime \in Nat
  BY <1>1 DEF FinderTypes, LoadStates, FileStates
<1>3. At(l, f) = "read" /\ UNCHANGED <<version, edits, clears, dirFilesCache, fileContentCache, heap>>
  BY DEF Read, At
<1>4. \A v, g : Told(v, g)' = Told(v, g)
  BY <1>3 DEF Told
<1>5. CASE version[f] = 0
  BY <1>3, <1>5, FailStep DEF Read
<1>6. CASE version[f] # 0
  <2> DEFINE state == [load[l].file[f] EXCEPT !.step = "store", !.read = version[f]]
  <2>3. /\ state \in FileStates /\ state.step = "store" /\ state.read = version[f]
        /\ state.mtime = load[l].file[f].mtime
    BY <1>2 DEF FileStates, FileSteps
  <2>4. load' = [load EXCEPT ![l] = [load[l] EXCEPT !.step = load[l].step,
                                       !.file = [load[l].file EXCEPT ![f] = state]]]
    <3>1. load' = [load EXCEPT ![l].file[f] = [@ EXCEPT !.step = "store", !.read = version[f]]]
      BY <1>6 DEF Read
    <3>2. load' = [load EXCEPT ![l].file[f] = state]
      BY <1>1, <1>2, <3>1 DEF LoadStates, FinderTypes
    <3> QED
      BY <1>1, <3>2, OneFile
  <2> HIDE DEF state
  <2>5. FileMoves(l, f, load[l].step, state)
    BY <1>1, <1>2, <2>3, <2>4, FileMoved
  <2>6. Told(load[l].start[f], f) /\ load[l].start[f] <= state.mtime /\ state.mtime <= state.read
    BY <1>1, <1>2, <1>3, <1>6, <2>3 DEF Newer, NewerFile, Told, At
  <2>7. NewerFile(l, f)'
    BY <1>1, <1>3, <1>4, <2>3, <2>5, <2>6 DEF NewerFile, FileMoves
  <2> QED
    BY <1>1, <1>3, <2>3, <2>5, <2>7, FileStep
<1> QED
  BY <1>5, <1>6

LEMMA StoreStep ==
    ASSUME FinderIInv, NEW l \in Loads, NEW f \in Loading(l), Store(l, f)
    PROVE  FinderIInv'
<1> USE DEF FinderIInv
<1> DEFINE n == Len(heap) + 1
           object == [version |-> load[l].file[f].read, settings |-> Given(f), taken |-> {}]
           entry == [object |-> n, mtime |-> load[l].file[f].mtime]
           state == [load[l].file[f] EXCEPT !.step = "done", !.object = n]
<1>1. f \in Files /\ load[l].step \notin Before
  BY LoadingIs
<1>2. /\ load[l] \in LoadStates /\ load[l].step \in LoadSteps /\ load[l].file[f] \in FileStates
      /\ load[l].start[f] \in Nat /\ load[l].file[f].mtime \in Nat /\ load[l].file[f].read \in Nat
      /\ heap \in Seq(Objects) /\ Len(heap) \in Nat /\ n \in Nat
  BY <1>1, LenProperties DEF FinderTypes, LoadStates, FileStates
<1>3. /\ At(l, f) = "store" /\ UNCHANGED <<version, edits, clears, dirFilesCache>>
      /\ heap' = Append(heap, object) /\ fileContentCache' = [fileContentCache EXCEPT ![f] = entry]
  BY DEF Store, At
<1>4. \A v, g : Told(v, g)' = Told(v, g)
  BY <1>3 DEF Told
<1>5. object \in Objects /\ object.taken = {} /\ object.settings = Given(f)
      /\ object.version = load[l].file[f].read
  <2>1. Given(f) \subseteq Keys
    BY DEF Given, Keys
  <2> QED
    BY <1>2, <2>1 DEF Objects
<1>6. entry \in Entries /\ entry.object = n /\ entry.mtime = load[l].file[f].mtime
  BY <1>2 DEF Entries
<1>7. state \in FileStates /\ state.step = "done" /\ state.object = n
  BY <1>2 DEF FileStates, FileSteps
<1>8. load' = [load EXCEPT ![l] = [load[l] EXCEPT !.step = load[l].step,
                                     !.file = [load[l].file EXCEPT ![f] = state]]]
  <2>1. load' = [load EXCEPT ![l].file[f] = [@ EXCEPT !.step = "done", !.object = n]]
    BY DEF Store
  <2> HIDE DEF n
  <2>2. load' = [load EXCEPT ![l].file[f] = state]
    BY <1>1, <1>2, <2>1 DEF LoadStates, FinderTypes
  <2> QED
    BY <1>1, <2>2, OneFile
<1> HIDE DEF state, entry, object
<1>9. FileMoves(l, f, load[l].step, state)
  BY <1>1, <1>2, <1>7, <1>8, FileMoved
<1>10. /\ heap' \in Seq(Objects) /\ Len(heap') = n
       /\ \A o \in 1..Len(heap) : heap'[o] = heap[o]
       /\ heap'[n] = object
  BY <1>2, <1>3, <1>5, AppendProperties
<1>11. HeapGrows /\ \A m \in Loads : TakesNothing(m)
  BY <1>3, <1>5, HeapAppended
<1>12. fileContentCache' \in [Files -> Entries \cup {None}] /\ fileContentCache'[f] = entry
       /\ \A g \in Files \ {f} : fileContentCache'[g] = fileContentCache[g]
  BY <1>1, <1>3, <1>6 DEF FinderTypes
<1>13. FinderTypes'
  BY <1>3, <1>9, <1>10, <1>12 DEF FinderTypes, FileMoves
<1>14. \A m \in Loads, g \in Files : m # l \/ g # f =>
          At(m, g)' = At(m, g) /\ Object(m, g)' = Object(m, g) /\ load'[m].file[g].seen = load[m].file[g].seen
  BY <1>9 DEF FileMoves, At, Object
<1>15. At(l, f)' = "done" /\ Object(l, f)' = n
  BY <1>7, <1>9 DEF FileMoves, At, Object
<1>16. ASSUME NEW g \in Files
       PROVE  /\ \A e \in EntriesOf(g)' : e \in EntriesOf(g) \/ (g = f /\ e = entry)
              /\ \A o \in References(g)' : o \in References(g) \/ (g = f /\ o = n)
  <2>1. ASSUME NEW e \in EntriesOf(g)' PROVE e \in EntriesOf(g) \/ (g = f /\ e = entry)
    <3>1. e # None /\ (e = fileContentCache'[g] \/ \E m \in Loads : At(m, g)' = "stat" /\ e = load'[m].file[g].seen)
      BY <2>1 DEF EntriesOf
    <3>2. CASE e = fileContentCache'[g]
      <4>1. CASE g = f
        BY <1>12, <3>2, <4>1
      <4>2. CASE g # f
        BY <1>12, <3>1, <3>2, <4>2 DEF EntriesOf
      <4> QED
        BY <4>1, <4>2
    <3>3. ASSUME NEW m \in Loads, At(m, g)' = "stat", e = load'[m].file[g].seen PROVE e \in EntriesOf(g)
      <4>1. m # l \/ g # f
        BY <1>15, <3>3
      <4> QED
        BY <1>14, <3>1, <3>3, <4>1 DEF EntriesOf
    <3> QED
      BY <3>1, <3>2, <3>3
  <2>2. ASSUME NEW o \in References(g)' PROVE o \in References(g) \/ (g = f /\ o = n)
    <3>1. (\E e \in EntriesOf(g)' : o = e.object) \/ (\E m \in Loads : At(m, g)' = "done" /\ o = Object(m, g)')
      BY <2>2 DEF References
    <3>2. CASE \E e \in EntriesOf(g)' : o = e.object
      BY <1>6, <2>1, <3>2 DEF References
    <3>3. ASSUME NEW m \in Loads, At(m, g)' = "done", o = Object(m, g)' PROVE o \in References(g) \/ (g = f /\ o = n)
      <4>1. CASE m # l \/ g # f
        <5>1. At(m, g) = "done" /\ o = Object(m, g)
          BY <1>14, <3>3, <4>1
        <5> QED
          BY <5>1 DEF References
      <4>2. CASE m = l /\ g = f
        BY <1>15, <3>3, <4>2
      <4> QED
        BY <4>1, <4>2
    <3> QED
      BY <3>1, <3>2, <3>3
  <2> QED
    BY <2>1, <2>2
<1>17. Apart'
  <2>1. \A g \in Files : \A o \in References(g) : o \in 1..Len(heap) /\ o \in 1..Len(heap)' /\ o # n
    BY <1>2, <1>10, ObjectsKept
  <2>2. n \in 1..Len(heap')
    BY <1>2, <1>10
  <2>3. \A g \in Files : References(g)' \subseteq 1..Len(heap')
    BY <1>16, <2>1, <2>2
  <2>4. ASSUME NEW g \in Files, NEW h \in Files, g # h PROVE References(g)' \cap References(h)' = {}
    <3> SUFFICES ASSUME NEW o, o \in References(g)', o \in References(h)' PROVE FALSE
      OBVIOUS
    <3> QED
      BY <1>16, <2>1, <2>4 DEF Apart
  <2> QED
    BY <2>3, <2>4 DEF Apart
<1>18. TakenOnce'
  <2> SUFFICES ASSUME NEW g \in Files, NEW o \in References(g)'
               PROVE  /\ heap'[o].settings \subseteq Given(g)
                      /\ \A key \in Given(g) :
                            IF key \in heap'[o].settings THEN Taken(o, key)' = {}
                            ELSE \E t \in Loads : Taken(o, key)' = {t}
    BY DEF TakenOnce
  <2>1. CASE o \in References(g)
    <3>1. heap'[o] = heap[o] /\ \A key : Taken(o, key)' = Taken(o, key)
      BY <1>10, <2>1, ObjectsKept DEF Taken
    <3> QED
      BY <2>1, <3>1 DEF TakenOnce
  <2>2. CASE g = f /\ o = n
    <3>1. heap'[o] = object /\ \A key : Taken(o, key)' = {}
      BY <1>5, <1>10, <2>2 DEF Taken
    <3> QED
      BY <1>5, <2>2, <3>1
  <2> QED
    BY <1>16, <2>1, <2>2
<1>19. load[l].start[f] <= load[l].file[f].mtime /\ load[l].file[f].mtime <= object.version /\ object.version \in Nat
       /\ Told(load[l].start[f], f)
  BY <1>1, <1>2, <1>3, <1>5 DEF Newer, NewerFile, At
<1>20. Newer'
  <2>1. ASSUME NEW g \in Files, NEW e \in EntriesOf(g)' PROVE heap'[e.object].version >= e.mtime
    <3>1. CASE e \in EntriesOf(g)
      BY <1>10, <3>1, ObjectsKept DEF Newer
    <3>2. CASE g = f /\ e = entry
      BY <1>2, <1>6, <1>10, <1>19, <3>2
    <3> QED
      BY <1>16, <2>1, <3>1, <3>2
  <2>2. ASSUME NEW m \in Loads, NEW g \in Files, m # l \/ g # f PROVE NewerFile(m, g)'
    <3>1. /\ load'[m].file[g] = load[m].file[g] /\ load'[m].start = load[m].start
          /\ load'[m].step = load[m].step
      BY <1>9, <2>2 DEF FileMoves
    <3>2. load[m].file[g].step = "done" =>
            heap'[load[m].file[g].object] = heap[load[m].file[g].object]
      BY <1>10, ObjectsKept DEF At, Object
    <3> QED
      BY <1>4, <3>1, <3>2 DEF NewerFile, Newer
  <2>3. NewerFile(l, f)'
    <3>1. load[l].start[f] <= heap'[n].version
      BY <1>2, <1>10, <1>19
    <3> QED
      BY <1>1, <1>4, <1>7, <1>9, <1>19, <3>1 DEF NewerFile, FileMoves
  <2> QED
    BY <1>3, <2>1, <2>2, <2>3 DEF Newer
<1>21. ASSUME NEW m \in Loads PROVE LoadInv(m)'
  <2>1. \A g \in Files : At(m, g) = "done" => load'[m].file[g] = load[m].file[g]
    BY <1>3, <1>9 DEF FileMoves
  <2>2. /\ load'[m].step = load[m].step /\ load'[m].start = load[m].start
        /\ load'[m].found = load[m].found /\ load'[m].next = load[m].next
        /\ load'[m].overrides = load[m].overrides /\ load'[m].extends = load[m].extends
        /\ load'[m].answer = load[m].answer /\ load'[m].matches = load[m].matches
        /\ load'[m].nested = load[m].nested
    BY <1>9 DEF FileMoves
  <2> QED
    BY <1>11, <2>1, <2>2, LoadKept
<1> QED
  BY <1>13, <1>17, <1>18, <1>20, <1>21

-----------------------------------------------------------------------------
(* The steps of a load.                                                    *)

\* A step of one load that leaves its files alone.
LEMMA LoadStep ==
    ASSUME FinderIInv, NEW l \in Loads, NEW state \in LoadStates, load' = [load EXCEPT ![l] = state],
           state.file = load[l].file, UNCHANGED <<version, edits, clears, fileContentCache>>,
           dirFilesCache' \in [Folders -> Seq(Files) \cup {None}],
           HeapGrows, TakesOnce, \A m \in Loads \ {l} : TakesNothing(m),
           \/ state.start = load[l].start /\ (state.step \in Before => load[l].step \in Before)
           \/ \A f \in Files : NewerFile(l, f)',
           LoadInv(l)'
    PROVE  FinderIInv'
<1> USE DEF FinderIInv
<1>1. load' \in [Loads -> LoadStates] /\ load'[l] = state /\ \A m \in Loads \ {l} : load'[m] = load[m]
  BY DEF FinderTypes
<1>2. FinderTypes'
  BY <1>1 DEF FinderTypes, HeapGrows
<1>3. \A m \in Loads, f \in Files : load'[m].file[f] = load[m].file[f]
  BY <1>1
<1>4. \A f \in Files : EntriesOf(f)' \subseteq EntriesOf(f) /\ References(f)' \subseteq References(f)
  BY <1>3, ReferencesKept
<1>5. Apart' /\ TakenOnce'
  BY <1>4, ApartKept
<1>6. Newer'
  BY <1>1, <1>3, <1>4, NewerKept DEF Newer
<1>7. ASSUME NEW m \in Loads \ {l} PROVE LoadInv(m)'
  BY <1>1, LoadKept
<1> QED
  BY <1>2, <1>5, <1>6, <1>7

LEMMA BeginStep ==
    ASSUME FinderIInv, NEW l \in Loads, Begin(l)
    PROVE  FinderIInv'
<1> USE DEF FinderIInv
<1>0. PICK matches \in SUBSET (Overriding \cap ToSet(RootFiles)) :
        load' = [load EXCEPT ![l] = [@ EXCEPT !.step = "branch", !.start = version, !.matches = matches]]
  BY DEF Begin
<1> DEFINE state == [load[l] EXCEPT !.step = "branch", !.start = version, !.matches = matches]
<1>1. /\ load[l] \in LoadStates /\ load[l].step = "idle" /\ version \in [Files -> Nat] /\ edits \in Nat
      /\ UNCHANGED <<version, edits, clears, dirFilesCache, fileContentCache, heap>>
  BY DEF Begin, FinderTypes
<1>2. /\ state \in LoadStates /\ state.step = "branch" /\ state.start = version
      /\ state.file = load[l].file /\ state.next = load[l].next /\ state.extends = load[l].extends
      /\ state.nested = load[l].nested
  <2>1. matches \in SUBSET Files
    BY FilesAssumption
  <2> QED
    BY <1>1, <2>1 DEF LoadStates, LoadSteps, Before
<1>3. load' = [load EXCEPT ![l] = state]
  BY <1>0 DEF FinderTypes
<1> HIDE DEF state
<1>4. load'[l] = state
  BY <1>3 DEF FinderTypes
<1>5. HeapGrows /\ TakesOnce /\ \A m \in Loads : TakesNothing(m)
  BY <1>1, HeapSame
<1>6. ASSUME NEW f \in Files PROVE NewerFile(l, f)'
  <2>1. Told(version[f], f)'
    BY <1>1 DEF Told, Newer
  <2>2. load[l].file[f].step = "scope"
    BY <1>1 DEF Newer, NewerFile, Before
  <2> QED
    BY <1>1, <1>2, <1>4, <2>1, <2>2 DEF NewerFile
<1>7. LoadInv(l)'
  BY <1>1, <1>2, <1>4 DEF LoadInv, HasOverrides, HasExtends, HasNested, NothingTaken, FreshLoad, Past, Before
<1> QED
  BY <1>1, <1>2, <1>3, <1>5, <1>6, <1>7, LoadStep DEF FinderTypes

LEMMA FilesAre ==
    /\ RootFiles \in Seq(Files) /\ BranchFiles \in Seq(Files)
BY FilesAssumption

LEMMA FilesInDirIs ==
    ASSUME FinderTypes, NEW folder \in Folders
    PROVE  FilesInDir(folder) \in Seq(Files)
<1> DEFINE files == IF folder = "root" THEN RootFiles ELSE BranchFiles
           there == {i \in DOMAIN files : version[files[i]] > 0}
<1>1. files \in Seq(Files)
  BY FilesAre
<1>2. there \in SUBSET (1..Len(files))
  BY <1>1, LenProperties
<1> HIDE DEF there, files
<1>3. Subsequence(files, there) \in Seq(Files)
  BY <1>1, <1>2, SubsequenceIs
<1> QED
  BY <1>3 DEF FilesInDir, FinderTypes, there, files

LEMMA FindFilesStep ==
    ASSUME FinderIInv, NEW l \in Loads, FindFiles(l)
    PROVE  FinderIInv'
<1> USE DEF FinderIInv
<1> DEFINE folder == load[l].step
           files == FilesInDir(folder)
           found == files \o load[l].found
           step == IF folder = "branch" THEN "root" ELSE "files"
           state == [load[l] EXCEPT !.found = found, !.step = step]
<1>1. /\ load[l] \in LoadStates /\ load[l].step \in {"branch", "root"}
      /\ UNCHANGED <<version, edits, clears, fileContentCache, heap>>
  BY DEF FindFiles, FinderTypes, Folders
<1>2. files \in Seq(Files)
  BY <1>1, FilesInDirIs DEF Folders
<1>3. dirFilesCache' \in [Folders -> Seq(Files) \cup {None}]
  BY <1>2 DEF FindFiles, FinderTypes
<1>4. found \in Seq(Files)
  BY <1>1, <1>2, ConcatProperties DEF LoadStates
<1>5. step \in LoadSteps /\ step \in {"root", "files"}
  BY DEF LoadSteps, Before
<1>6. load' = [load EXCEPT ![l] = state]
  BY DEF FindFiles, FinderTypes
<1> HIDE DEF found, step
<1>7. /\ state \in LoadStates /\ state.step = step /\ state.start = load[l].start
      /\ state.file = load[l].file /\ state.next = load[l].next /\ state.extends = load[l].extends
      /\ state.nested = load[l].nested
  BY <1>1, <1>4, <1>5 DEF LoadStates
<1> HIDE DEF state
<1>8. load'[l] = state
  BY <1>6 DEF FinderTypes
<1>9. HeapGrows /\ TakesOnce /\ \A m \in Loads : TakesNothing(m)
  BY <1>1, HeapSame
<1>10. LoadInv(l)'
  <2>1. NothingTaken(l)
    BY DEF LoadInv
  <2>2. ~load[l].extends /\ ~load[l].nested /\ load[l].next = 1
        /\ \A o \in 1..Len(heap) : \A key \in Keys : <<key, l>> \notin heap[o].taken
    BY <1>1, <2>1 DEF NothingTaken, Before
  <2>3. load'[l].step \in {"root", "files"} /\ heap' = heap
    BY <1>1, <1>5, <1>7, <1>8
  <2> QED
    BY <1>7, <1>8, <2>2, <2>3 DEF LoadInv, HasOverrides, HasExtends, HasNested, NothingTaken, FreshLoad, Past, Before
<1> QED
  BY <1>1, <1>3, <1>6, <1>7, <1>9, <1>10, LoadStep DEF Before

LEMMA ExtendingOne ==
    ASSUME NEW f \in Extending, NEW g \in Extending, IsRoot(f), IsRoot(g)
    PROVE  f = g
<1> DEFINE Ones == Extending \cap ToSet(RootFiles)
<1>0. f \in Ones /\ g \in Ones
  BY DEF IsRoot
<1>1. IsFiniteSet(Ones)
  <2>1. RootFiles \in Seq(Files) /\ Ones \subseteq ToSet(RootFiles)
    BY FilesAssumption
  <2>2. IsFiniteSet(ToSet(RootFiles))
    <3>1. /\ Len(RootFiles) \in Nat /\ DOMAIN RootFiles = 1..Len(RootFiles)
          /\ RootFiles \in [1..Len(RootFiles) -> Files]
      BY <2>1, LenProperties
    <3>2. ToSet(RootFiles) = {RootFiles[i] : i \in 1..Len(RootFiles)}
      BY <3>1 DEF ToSet
    <3>3. RootFiles \in Surjection(1..Len(RootFiles), ToSet(RootFiles))
      <4>1. RootFiles \in [1..Len(RootFiles) -> ToSet(RootFiles)]
        BY <3>1, <3>2
      <4> QED
        BY <3>2, <4>1 DEF Surjection
    <3>4. IsFiniteSet(1..Len(RootFiles))
      BY <3>1, FS_Interval
    <3> QED
      BY <3>3, <3>4, FS_Surjection
  <2> QED
    BY <2>1, <2>2, FS_Subset
<1>2. Cardinality(Ones) \in Nat /\ Cardinality(Ones) <= 1
  BY <1>1, FS_CardinalityType, FilesAssumption
<1> HIDE DEF Ones
<1>3. CASE Cardinality(Ones) = 0
  BY <1>0, <1>1, <1>3, FS_EmptySet
<1>4. CASE Cardinality(Ones) = 1
  BY <1>0, <1>1, <1>4, FS_Singleton
<1> QED
  BY <1>2, <1>3, <1>4

\* What a load found are files, and when they are all loaded the load has their objects.
LEMMA FoundIs ==
    ASSUME FinderTypes, Apart, NEW l \in Loads
    PROVE  /\ load[l].found \in Seq(Files) /\ Len(load[l].found) \in Nat /\ load[l].next \in Nat
           /\ DOMAIN load[l].found = 1..Len(load[l].found)
           /\ \A i \in 1..Len(load[l].found) : load[l].found[i] \in Files /\ load[l].found[i] \in ToSet(load[l].found)
           /\ \A f \in ToSet(load[l].found) : f \in Files /\ \E i \in 1..Len(load[l].found) : f = load[l].found[i]
           /\ \A f \in Files : At(l, f) = "done" =>
                 /\ Object(l, f) \in References(f) /\ Object(l, f) \in 1..Len(heap)
                 /\ heap[Object(l, f)] \in Objects
           /\ AllLoaded(l) /\ load[l].step \notin Before => \A f \in ToSet(load[l].found) : At(l, f) = "done"
<1>1. /\ load[l].found \in Seq(Files) /\ Len(load[l].found) \in Nat /\ load[l].next \in Nat
      /\ DOMAIN load[l].found = 1..Len(load[l].found)
  BY LenProperties DEF FinderTypes, LoadStates
<1>2. \A i \in 1..Len(load[l].found) : load[l].found[i] \in Files
  BY <1>1, ElementOfSeq
<1>3. ToSet(load[l].found) = {load[l].found[i] : i \in 1..Len(load[l].found)}
  BY <1>1 DEF ToSet
<1>4. AllLoaded(l) /\ load[l].step \notin Before => \A f \in ToSet(load[l].found) : At(l, f) = "done"
  BY DEF AllLoaded, Loading, Before, At
<1> QED
  BY <1>1, <1>2, <1>3, <1>4, ObjectsKept

LEMMA ExtractOverriddenStep ==
    ASSUME FinderIInv, NEW l \in Loads, ExtractOverridden(l)
    PROVE  FinderIInv'
<1> USE DEF FinderIInv
<1> DEFINE found == load[l].found
           Has(i) == "overrides" \in heap[Object(l, found[i])].settings
           bad == {i \in DOMAIN found : ~IsRoot(found[i]) /\ Has(i)}
           over == {i \in DOMAIN found : IsRoot(found[i]) /\ \A j \in bad : i < j}
           os == {Object(l, found[i]) : i \in over}
           kept == {i \in DOMAIN found : found[i] \in load[l].matches /\ IsRoot(found[i]) /\ Has(i)}
           overrides == Subsequence(found, kept)
<1>1. /\ load[l] \in LoadStates /\ load[l].step = "files" /\ AllLoaded(l)
      /\ UNCHANGED <<version, edits, clears, dirFilesCache, fileContentCache>>
      /\ dirFilesCache \in [Folders -> Seq(Files) \cup {None}]
  BY DEF ExtractOverridden, FinderTypes
<1>2. heap' = Deleted(l, os, "overrides")
  BY DEF ExtractOverridden
<1>3. load' = IF bad # {} THEN Reject(l)
              ELSE [load EXCEPT ![l].step = "extends", ![l].overrides = overrides]
  BY DEF ExtractOverridden
<1>4. /\ found \in Seq(Files) /\ DOMAIN found = 1..Len(found)
      /\ \A f \in ToSet(found) : /\ f \in Files /\ \E i \in 1..Len(found) : f = found[i]
                                 /\ At(l, f) = "done" /\ Object(l, f) \in 1..Len(heap)
                                 /\ heap[Object(l, f)] \in Objects
      /\ \A i \in 1..Len(found) : found[i] \in ToSet(found)
  BY <1>1, FoundIs DEF Before
<1>5. "overrides" \in Keys /\ "extends" \in Keys
  BY DEF Keys
<1>6. kept \in SUBSET (1..Len(found))
  BY <1>4
<1> HIDE DEF over
<1>7. /\ overrides \in Seq(Files) /\ Len(overrides) \in Nat /\ DOMAIN overrides = 1..Len(overrides)
      /\ \A k \in 1..Len(overrides) : \E i \in kept : overrides[k] = found[i]
      /\ \A i \in kept : \E k \in 1..Len(overrides) : overrides[k] = found[i]
  <2> HIDE DEF kept, found
  <2>1. /\ overrides \in Seq(Files)
        /\ Len(overrides) = Cardinality(kept) /\ Cardinality(kept) \in Nat
        /\ \A k \in 1..Cardinality(kept) : Place(kept, k) \in kept /\ overrides[k] = found[Place(kept, k)]
        /\ \A i \in kept : \E k \in 1..Cardinality(kept) : Place(kept, k) = i
    BY <1>4, <1>6, SubsequenceIs
  <2>2. DOMAIN overrides = 1..Len(overrides)
    BY <2>1, LenProperties
  <2> HIDE DEF overrides
  <2> QED
    BY <2>1, <2>2
<1>8. \A f : f \in ToSet(overrides) <=>
              /\ f \in ToSet(found) /\ f \in load[l].matches
              /\ IsRoot(f) /\ "overrides" \in heap[Object(l, f)].settings
  <2> HIDE DEF overrides
  <2>1. ToSet(overrides) = {overrides[k] : k \in 1..Len(overrides)}
    BY <1>7 DEF ToSet
  <2>2. \A f : f \in ToSet(overrides) <=> \E i \in kept : f = found[i]
    BY <1>7, <2>1
  <2>3. \A i : i \in kept <=> /\ i \in 1..Len(found) /\ found[i] \in load[l].matches
                             /\ IsRoot(found[i]) /\ "overrides" \in heap[Object(l, found[i])].settings
    BY <1>4
  <2> HIDE DEF kept, found
  <2>4. ASSUME NEW f, f \in ToSet(overrides)
        PROVE  /\ f \in ToSet(found) /\ f \in load[l].matches
               /\ IsRoot(f) /\ "overrides" \in heap[Object(l, f)].settings
    <3>1. PICK i \in kept : f = found[i]
      BY <2>2, <2>4
    <3> QED
      BY <1>4, <2>3, <3>1
  <2>5. ASSUME NEW f \in ToSet(found), f \in load[l].matches, IsRoot(f),
               "overrides" \in heap[Object(l, f)].settings
        PROVE  f \in ToSet(overrides)
    <3>1. PICK i \in 1..Len(found) : f = found[i]
      BY <1>4
    <3>2. i \in kept
      BY <2>3, <2>5, <3>1
    <3> QED
      BY <2>2, <3>1, <3>2
  <2> QED
    BY <2>4, <2>5
<1>9. /\ heap' \in Seq(Objects) /\ Len(heap') = Len(heap)
      /\ \A o \in 1..Len(heap) :
            /\ o \in os /\ "overrides" \in heap[o].settings =>
                  /\ heap'[o].version = heap[o].version
                  /\ heap'[o].settings = heap[o].settings \ {"overrides"}
                  /\ heap'[o].taken = heap[o].taken \cup {<<"overrides", l>>}
            /\ ~(o \in os /\ "overrides" \in heap[o].settings) => heap'[o] = heap[o]
  <2> HIDE DEF os
  <2> QED
    BY <1>2, <1>5, DeletedIs
<1>10. HeapGrows /\ TakesOnce /\ \A m \in Loads \ {l} : TakesNothing(m)
  <2> HIDE DEF os
  <2> QED
    BY <1>2, <1>5, HeapDeleted
<1>11. CASE bad # {}
  <2> DEFINE state == [load[l] EXCEPT !.step = "rejected"]
  <2>1. /\ state \in LoadStates /\ state.step = "rejected" /\ state.file = load[l].file
        /\ state.start = load[l].start
    BY <1>1 DEF LoadStates, LoadSteps
  <2>2. load' = [load EXCEPT ![l] = state]
    BY <1>3, <1>11 DEF Reject, FinderTypes
  <2> HIDE DEF state
  <2>3. LoadInv(l)'
    BY <2>1, <2>2, LoadRejected DEF FinderTypes
  <2> QED
    BY <1>1, <1>10, <2>1, <2>2, <2>3, LoadStep DEF Before
<1>12. CASE bad = {}
  <2> HIDE DEF overrides
  <2> DEFINE state == [load[l] EXCEPT !.step = "extends", !.overrides = overrides]
  <2>1. /\ state \in LoadStates /\ state.step = "extends" /\ state.file = load[l].file
        /\ state.start = load[l].start /\ state.found = load[l].found /\ state.next = load[l].next
        /\ state.extends = load[l].extends /\ state.nested = load[l].nested
        /\ state.overrides = overrides /\ state.matches = load[l].matches
    BY <1>1, <1>7 DEF LoadStates, LoadSteps
  <2>2. load' = [load EXCEPT ![l] = state]
    BY <1>3, <1>12 DEF FinderTypes
  <2> HIDE DEF state
  <2>3. load'[l] = state
    BY <2>2 DEF FinderTypes
  <2>4. NothingTaken(l)
    BY DEF LoadInv
  <2>5. /\ load[l].extends = FALSE /\ load[l].nested = FALSE /\ load[l].next = 1
        /\ \A o \in 1..Len(heap) : \A key \in Keys : <<key, l>> \notin heap[o].taken
    <3>1. load[l].extends \in BOOLEAN /\ load[l].nested \in BOOLEAN
      BY <1>1 DEF LoadStates
    <3> QED
      BY <1>1, <2>4, <3>1 DEF NothingTaken
  <2>6. \A f : At(l, f)' = At(l, f) /\ Object(l, f)' = Object(l, f)
    BY <2>1, <2>3 DEF At, Object
  <2>7. \A f \in ToSet(found) : IsRoot(f) => Object(l, f) \in os
    <3> SUFFICES ASSUME NEW f \in ToSet(found), IsRoot(f) PROVE Object(l, f) \in os
      OBVIOUS
    <3>1. PICK i \in DOMAIN found : f = found[i]
      BY <1>4
    <3>2. i \in over
      BY <1>12, <3>1 DEF over
    <3> QED
      BY <3>1, <3>2
  <2>8. HasOverrides(l)'
    <3>1. ASSUME NEW f \in ToSet(found), IsRoot(f), f \in Overriding
          PROVE  /\ "overrides" \notin heap'[Object(l, f)].settings
                 /\ <<"overrides", l>> \in heap'[Object(l, f)].taken /\ f \in load[l].matches
                      <=> f \in ToSet(overrides)
      <4>1. Object(l, f) \in os /\ Object(l, f) \in 1..Len(heap)
        BY <1>4, <2>7, <3>1
      <4>2. CASE "overrides" \in heap[Object(l, f)].settings
        BY <1>8, <1>9, <3>1, <4>1, <4>2
      <4>3. CASE "overrides" \notin heap[Object(l, f)].settings
        BY <1>5, <1>8, <1>9, <2>5, <3>1, <4>1, <4>3
      <4> QED
        BY <4>2, <4>3
    <3>2. ToSet(overrides) \subseteq ToSet(found)
      BY <1>8
    <3>3. \A f \in ToSet(found) : At(l, f) = "done"
      BY <1>4
    <3> HIDE DEF os
    <3> QED
      BY <2>1, <2>3, <2>6, <3>1, <3>2, <3>3 DEF HasOverrides
  <2>9. Visited(l)' = {} /\ VisitedOverrides(l)' = {}
    <3>1. Len(found) \in Nat /\ Len(overrides) \in Nat
      BY <1>4, <1>7, LenProperties
    <3>2. {j \in 1..Len(overrides) : Len(found) + j < 1} = {} /\ {j \in 1..Len(found) : j < 1} = {}
      BY <3>1
    <3> QED
      BY <2>1, <2>3, <2>5, <3>2 DEF Visited, VisitedOverrides
  <2>10. HasExtends(l)' /\ HasNested(l)'
    BY <2>1, <2>3, <2>5, <2>9 DEF HasExtends, HasNested
  <2>11. \A o \in 1..Len(heap') : <<"extends", l>> \notin heap'[o].taken
    BY <1>5, <1>9, <2>5
  <2>12. NothingTaken(l)' /\ FreshLoad(l)'
    BY <2>1, <2>3, <2>11 DEF NothingTaken, FreshLoad, Before
  <2> QED
    BY <1>1, <1>10, <2>1, <2>2, <2>8, <2>10, <2>12, LoadStep DEF LoadInv, Before
<1> QED
  BY <1>11, <1>12

LEMMA ExtractExtendedStep ==
    ASSUME FinderIInv, NEW l \in Loads, ExtractExtended(l)
    PROVE  FinderIInv'
<1> USE DEF FinderIInv
<1> DEFINE found == load[l].found
           n == load[l].next
           f == found[n]
           o == Object(l, f)
           has == "extends" \in heap[o].settings
           takes == IsRoot(f) /\ has
           extends == load[l].extends \/ has
           state == [load[l] EXCEPT !.next = n + 1, !.extends = extends]
<1>1. /\ load[l] \in LoadStates /\ load[l].step = "extends" /\ n <= Len(found)
      /\ UNCHANGED <<version, edits, clears, dirFilesCache, fileContentCache>>
      /\ dirFilesCache \in [Folders -> Seq(Files) \cup {None}]
  BY DEF ExtractExtended, FinderTypes
<1>2. heap' = IF IsRoot(f) THEN Deleted(l, {o}, "extends") ELSE heap
  BY DEF ExtractExtended
<1>4. LoadInv(l) /\ Past(l) /\ "extends" \in Keys
  BY <1>1 DEF Past, Keys
<1>5. /\ found \in Seq(Files) /\ DOMAIN found = 1..Len(found) /\ Len(found) \in Nat /\ n \in Nat
      /\ \A g \in ToSet(found) : /\ g \in Files /\ \E i \in 1..Len(found) : g = found[i]
                                 /\ At(l, g) = "done" /\ Object(l, g) \in References(g)
                                 /\ Object(l, g) \in 1..Len(heap) /\ heap[Object(l, g)] \in Objects
      /\ \A i \in 1..Len(found) : found[i] \in ToSet(found)
  BY <1>4, FoundIs DEF LoadInv, HasOverrides
<1>6. n \in 1..Len(found)
  <2>1. n # 0
    BY DEF ExtractExtended, FinderTypes, LoadStates
  <2> QED
    BY <1>1, <1>5, <2>1
<1>7. f \in ToSet(found) /\ f \in Files /\ At(l, f) = "done" /\ o \in References(f) /\ o \in 1..Len(heap)
  BY <1>5, <1>6
<1>8. HeapGrows /\ TakesOnce /\ (\A m \in Loads \ {l} : TakesNothing(m))
      /\ \A q \in 1..Len(heap') : <<"extends", l>> \in heap'[q].taken =>
           /\ q \in 1..Len(heap)
           /\ <<"extends", l>> \in heap[q].taken \/ (takes /\ q = o)
  <2>1. CASE IsRoot(f)
    <3>1. heap' = Deleted(l, {o}, "extends")
      BY <1>2, <2>1
    <3>2. /\ Len(heap') = Len(heap)
          /\ \A q \in 1..Len(heap) : ~(q = o /\ "extends" \in heap[q].settings) => heap'[q] = heap[q]
      BY <1>4, <3>1, DeletedIs
    <3> QED
      BY <1>4, <2>1, <3>1, <3>2, HeapDeleted
  <2>2. CASE ~IsRoot(f)
    BY <1>2, <2>2, HeapSame
  <2> QED
    BY <2>1, <2>2
<1>0. CASE has /\ ~IsRoot(f)
  <2> DEFINE rejected == [load[l] EXCEPT !.step = "rejected"]
  <2>1. /\ rejected \in LoadStates /\ rejected.step = "rejected" /\ rejected.file = load[l].file
        /\ rejected.start = load[l].start
    BY <1>1 DEF LoadStates, LoadSteps
  <2>2. load' = [load EXCEPT ![l] = rejected]
    BY <1>0 DEF ExtractExtended, Reject, FinderTypes
  <2> HIDE DEF rejected, o, f, has
  <2>3. LoadInv(l)'
    BY <2>1, <2>2, LoadRejected DEF FinderTypes
  <2> QED
    BY <1>1, <1>8, <2>1, <2>2, <2>3, LoadStep DEF Before
<1> SUFFICES ASSUME ~(has /\ ~IsRoot(f)) PROVE FinderIInv'
  BY <1>0
<1>3. load' = [load EXCEPT ![l] = state] /\ (has <=> takes)
  <2>1. load' = IF has /\ ~IsRoot(f) THEN Reject(l)
                ELSE [load EXCEPT ![l] = [load[l] EXCEPT !.next = load[l].next + 1,
                                                         !.extends = load[l].extends \/ has]]
    <3> HIDE DEF f, has
    <3> QED
      BY DEF ExtractExtended, FinderTypes, f, has
  <2> HIDE DEF f, has
  <2> QED
    BY <2>1
<1>9. ASSUME IsRoot(f)
      PROVE  /\ "extends" \notin heap'[o].settings
             /\ <<"extends", l>> \in heap'[o].taken <=> takes \/ <<"extends", l>> \in heap[o].taken
  <2>1. heap' = Deleted(l, {o}, "extends")
    BY <1>2, <1>9
  <2> HIDE DEF o
  <2>2. /\ "extends" \in heap[o].settings =>
              /\ heap'[o].settings = heap[o].settings \ {"extends"}
              /\ heap'[o].taken = heap[o].taken \cup {<<"extends", l>>}
        /\ "extends" \notin heap[o].settings => heap'[o] = heap[o]
    BY <1>4, <1>7, <2>1, DeletedIs
  <2>3. takes <=> "extends" \in heap[o].settings
    BY <1>9
  <2> QED
    BY <2>2, <2>3
<1>10. takes => f \in Extending
  <2>1. heap[o].settings \subseteq Given(f)
    BY <1>7 DEF TakenOnce
  <2> QED
    BY <2>1 DEF Given
<1>11. /\ state \in LoadStates /\ state.step = "extends" /\ state.file = load[l].file
       /\ state.start = load[l].start /\ state.found = found /\ state.next = n + 1
       /\ state.extends = extends /\ state.overrides = load[l].overrides
       /\ state.nested = load[l].nested /\ state.matches = load[l].matches
  <2>1. extends \in BOOLEAN
    OBVIOUS
  <2> HIDE DEF extends
  <2>2. n + 1 \in Nat \ {0}
    BY <1>5
  <2>3. state = [load[l] EXCEPT !.next = n + 1, !.extends = extends]
    OBVIOUS
  <2> QED
    BY <1>1, <2>1, <2>2, <2>3 DEF LoadStates
<1> HIDE DEF state
<1>12. load'[l] = state
  BY <1>3 DEF FinderTypes
<1>13. \A g : At(l, g)' = At(l, g) /\ Object(l, g)' = Object(l, g)
  BY <1>11, <1>12 DEF At, Object
<1>14. Visited(l)' = Visited(l) \cup {f} /\ Visited(l) \subseteq ToSet(found)
  <2>1. \A i \in 1..Len(found) : i < n + 1 <=> i < n \/ i = n
    BY <1>5
  <2>2. Visited(l)' = {found[i] : i \in {j \in 1..Len(found) : j < n + 1}}
    BY <1>11, <1>12 DEF Visited
  <2>3. Visited(l) = {found[i] : i \in {j \in 1..Len(found) : j < n}}
    BY DEF Visited
  <2> HIDE DEF found, n
  <2> QED
    BY <1>5, <1>6, <2>1, <2>2, <2>3 DEF found, n
<1>15. ToSet(found)' = ToSet(found)
  BY <1>11, <1>12
<1>16. \A g \in Files : g \in Extending /\ IsRoot(g) /\ f \in Extending /\ IsRoot(f) => g = f
  BY ExtendingOne
<1>17. Past(l)' /\ HasOverrides(l)'
  <2>1. ASSUME NEW g \in ToSet(found), IsRoot(g), g \in Overriding
        PROVE  /\ "overrides" \notin heap'[Object(l, g)].settings
               /\ <<"overrides", l>> \in heap'[Object(l, g)].taken /\ g \in load[l].matches
                    <=> g \in ToSet(load[l].overrides)
    <3>1. /\ "overrides" \notin heap[Object(l, g)].settings
          /\ <<"overrides", l>> \in heap[Object(l, g)].taken /\ g \in load[l].matches
               <=> g \in ToSet(load[l].overrides)
      BY <1>4, <2>1 DEF LoadInv, HasOverrides
    <3>2. Object(l, g) \in 1..Len(heap) /\ "overrides" \in Keys
      BY <1>5, <2>1 DEF Keys
    <3> QED
      BY <1>8, <3>1, <3>2 DEF HeapGrows
  <2>2. ToSet(load[l].overrides) \subseteq ToSet(found)
    BY <1>4 DEF LoadInv, HasOverrides
  <2> QED
    BY <1>5, <1>11, <1>12, <1>13, <2>1, <2>2 DEF HasOverrides, Past
<1>18. \A g \in Visited(l) : IsRoot(g) /\ g \in Extending =>
          /\ "extends" \notin heap[Object(l, g)].settings
          /\ <<"extends", l>> \in heap[Object(l, g)].taken <=> load[l].extends
  BY <1>4 DEF LoadInv, HasExtends
<1>19. load[l].extends => \E g \in Visited(l) : IsRoot(g) /\ g \in Extending
  BY <1>4 DEF LoadInv, HasExtends
<1>20. \A q \in 1..Len(heap) : <<"extends", l>> \in heap[q].taken => \E g \in Visited(l) : Object(l, g) = q
  BY <1>1, <1>4 DEF LoadInv, NothingTaken
<1>21. ASSUME NEW g \in Visited(l)', IsRoot(g), g \in Extending
       PROVE  /\ "extends" \notin heap'[Object(l, g)].settings
              /\ <<"extends", l>> \in heap'[Object(l, g)].taken <=> state.extends
  <2>1. g \in ToSet(found) /\ g \in Files /\ (g \in Visited(l) \/ g = f)
    BY <1>5, <1>7, <1>14, <1>21
  <2>2. CASE g \in Visited(l)
    <3>1. Object(l, g) \in 1..Len(heap)
      BY <1>5, <2>1
    <3>2. ~takes
      BY <1>10, <1>16, <1>18, <1>21, <2>1, <2>2
    <3> QED
      BY <1>4, <1>8, <1>11, <1>18, <1>21, <2>2, <3>1, <3>2 DEF HeapGrows
  <2>3. CASE g = f /\ g \notin Visited(l)
    <3>1. ~load[l].extends
      <4> SUFFICES ASSUME load[l].extends PROVE FALSE
        OBVIOUS
      <4>1. PICK h \in Visited(l) : IsRoot(h) /\ h \in Extending
        BY <1>19
      <4>2. h \in Files
        BY <1>5, <1>14
      <4> QED
        BY <1>16, <1>21, <2>3, <4>1, <4>2
    <3>2. <<"extends", l>> \notin heap[o].taken
      <4> SUFFICES ASSUME <<"extends", l>> \in heap[o].taken PROVE FALSE
        OBVIOUS
      <4>1. PICK h \in Visited(l) : Object(l, h) = o
        BY <1>7, <1>20
      <4>2. h # f /\ h \in Files /\ o \in References(h)
        BY <1>5, <1>14, <2>3, <4>1
      <4> QED
        BY <1>7, <4>2 DEF Apart
    <3> QED
      BY <1>9, <1>11, <1>21, <2>3, <3>1, <3>2
  <2> QED
    BY <2>1, <2>2, <2>3
<1>22. state.extends => \E g \in Visited(l)' : IsRoot(g) /\ g \in Extending
  <2>1. CASE load[l].extends
    BY <1>14, <1>19, <2>1
  <2>2. CASE takes
    BY <1>10, <1>14, <2>2
  <2> QED
    BY <1>3, <1>11, <2>1, <2>2
<1>23. HasExtends(l)'
  BY <1>11, <1>12, <1>13, <1>21, <1>22 DEF HasExtends
<1>24. NothingTaken(l)'
  <2>1. ASSUME NEW q \in 1..Len(heap'), <<"extends", l>> \in heap'[q].taken
        PROVE  \E g \in Visited(l)' : Object(l, g) = q
    BY <1>8, <1>14, <1>20, <2>1
  <2> HIDE DEF o, f
  <2> QED
    BY <1>11, <1>12, <1>13, <2>1 DEF NothingTaken, Before
<1>25. FreshLoad(l)'
  BY <1>11, <1>12 DEF FreshLoad
<1>26. HasNested(l)'
  <2>1. load[l].overrides \in Seq(Files)
    BY <1>1 DEF LoadStates
  <2>2. Len(load[l].overrides) \in Nat
    BY <2>1, LenProperties
  <2>3. \A j \in 1..Len(load[l].overrides) : ~(Len(found) + j < n + 1) /\ ~(Len(found) + j < n)
    BY <1>5, <1>6, <2>2
  <2>4. VisitedOverrides(l)' = {} /\ VisitedOverrides(l) = {}
    BY <1>11, <1>12, <2>3 DEF VisitedOverrides
  <2> QED
    BY <1>4, <1>11, <1>12, <2>4 DEF LoadInv, HasNested
<1> QED
  BY <1>1, <1>3, <1>8, <1>11, <1>17, <1>23, <1>24, <1>25, <1>26, LoadStep DEF LoadInv, Before

LEMMA ExtractNestedStep ==
    ASSUME FinderIInv, NEW l \in Loads, ExtractNested(l)
    PROVE  FinderIInv'
<1> USE DEF FinderIInv
<1> DEFINE found == load[l].found
           n == load[l].next
           at == n - Len(found)
           overrides == load[l].overrides
           nested == load[l].nested \/ overrides[at] \in Nested
           state == [load[l] EXCEPT !.next = n + 1, !.nested = nested]
<1>1. /\ load[l] \in LoadStates /\ load[l].step = "extends" /\ at \in 1..Len(overrides)
      /\ UNCHANGED <<version, edits, clears, dirFilesCache, fileContentCache, heap>>
      /\ dirFilesCache \in [Folders -> Seq(Files) \cup {None}]
  BY DEF ExtractNested, FinderTypes
<1>0. load' = [load EXCEPT ![l] = state]
  <2>1. load' = [load EXCEPT ![l] = [load[l] EXCEPT !.next = load[l].next + 1,
                                       !.nested = load[l].nested \/ overrides[at] \in Nested]]
    BY DEF ExtractNested, FinderTypes
  <2> HIDE DEF at, overrides
  <2> QED
    BY <2>1
<1>2. LoadInv(l) /\ Past(l)
  BY <1>1 DEF Past
<1>3. /\ found \in Seq(Files) /\ Len(found) \in Nat /\ n \in Nat /\ overrides \in Seq(Files)
      /\ Len(overrides) \in Nat
  BY <1>1, LenProperties DEF LoadStates
<1>4. n + 1 \in Nat \ {0} /\ n = Len(found) + at /\ at \in Nat /\ at > 0
  BY <1>1, <1>3
<1>5. /\ state \in LoadStates /\ state.step = "extends" /\ state.file = load[l].file
      /\ state.start = load[l].start /\ state.found = found /\ state.next = n + 1
      /\ state.extends = load[l].extends /\ state.overrides = overrides
      /\ state.nested = nested /\ state.matches = load[l].matches
  <2>1. nested \in BOOLEAN
    BY <1>1 DEF LoadStates
  <2> HIDE DEF nested
  <2>2. state = [load[l] EXCEPT !.next = n + 1, !.nested = nested]
    OBVIOUS
  <2> QED
    BY <1>1, <1>4, <2>1, <2>2 DEF LoadStates
<1> HIDE DEF state
<1>6. load'[l] = state /\ heap' = heap
  BY <1>0, <1>1 DEF FinderTypes
<1>7. HeapGrows /\ TakesOnce /\ \A m \in Loads : TakesNothing(m)
  BY <1>1, HeapSame
<1>8. \A g : At(l, g)' = At(l, g) /\ Object(l, g)' = Object(l, g)
  BY <1>5, <1>6 DEF At, Object
<1>9. Visited(l)' = Visited(l)
  <2>1. \A i \in 1..Len(found) : i < n + 1 /\ i < n
    BY <1>3, <1>4
  <2> QED
    BY <1>5, <1>6, <2>1 DEF Visited
<1>10. VisitedOverrides(l)' = VisitedOverrides(l) \cup {overrides[at]}
  <2>1. \A j \in 1..Len(overrides) : Len(found) + j < n + 1 <=> Len(found) + j < n \/ j = at
    BY <1>3, <1>4
  <2>2. VisitedOverrides(l)' = {overrides[i] : i \in {j \in 1..Len(overrides) : Len(found) + j < n + 1}}
    BY <1>5, <1>6 DEF VisitedOverrides
  <2>3. VisitedOverrides(l) = {overrides[i] : i \in {j \in 1..Len(overrides) : Len(found) + j < n}}
    BY DEF VisitedOverrides
  <2> HIDE DEF overrides, found, n, at
  <2> QED
    BY <1>1, <2>1, <2>2, <2>3
<1>11. HasOverrides(l)'
  BY <1>2, <1>5, <1>6, <1>8 DEF LoadInv, HasOverrides, Past
<1>12. HasExtends(l)'
  BY <1>2, <1>5, <1>6, <1>8, <1>9 DEF LoadInv, HasExtends, Past
<1>13. HasNested(l)'
  <2>1. load[l].nested <=> VisitedOverrides(l) \cap Nested # {}
    BY <1>2 DEF LoadInv, HasNested
  <2>2. nested <=> VisitedOverrides(l)' \cap Nested # {}
    BY <1>10, <2>1
  <2> QED
    BY <1>5, <1>6, <2>2 DEF HasNested
<1>14. NothingTaken(l)' /\ FreshLoad(l)'
  BY <1>1, <1>2, <1>5, <1>6, <1>8, <1>9 DEF LoadInv, NothingTaken, FreshLoad, Before
<1> QED
  BY <1>0, <1>1, <1>5, <1>7, <1>11, <1>12, <1>13, <1>14, LoadStep DEF LoadInv, Before

LEMMA ResolveFilesStep ==
    ASSUME FinderIInv, NEW l \in Loads, ResolveFiles(l)
    PROVE  FinderIInv'
<1> USE DEF FinderIInv
<1> DEFINE found == load[l].found
           answer == Answer(l)
           state == [load[l] EXCEPT !.step = "done", !.answer = answer]
<1>1. /\ load[l] \in LoadStates /\ load[l].step = "extends" /\ load[l].next > Turns(l)
      /\ AllLoaded(l)
      /\ UNCHANGED <<version, edits, clears, dirFilesCache, fileContentCache, heap>>
      /\ dirFilesCache \in [Folders -> Seq(Files) \cup {None}]
  BY DEF ResolveFiles, FinderTypes
<1>2. LoadInv(l) /\ Past(l) /\ load[l].overrides \in Seq(Files)
  BY <1>1 DEF Past, LoadStates
<1>3. /\ found \in Seq(Files)
      /\ \A g \in ToSet(found) : g \in Files /\ At(l, g) = "done"
  BY <1>1, FoundIs DEF Before
<1>4. \A g \in ToSet(Extended(l)) : At(l, g) = "done"
  BY <1>1 DEF AllLoaded, Loading, At
<1> DEFINE Of(source, files) == [i \in DOMAIN files |-> [file |-> files[i],
                                   object |-> Object(l, files[i]), source |-> source]]
           Good == {part \in AnswerParts : At(l, part.file) = "done" /\ part.object = Object(l, part.file)}
<1>5. ASSUME NEW source \in {"extended", "found", "overridden"}, NEW files \in Seq(Files),
             \A i \in 1..Len(files) : At(l, files[i]) = "done"
      PROVE  Of(source, files) \in Seq(Good)
  <2>1. Len(files) \in Nat /\ DOMAIN files = 1..Len(files)
    BY LenProperties
  <2>2. \A i \in 1..Len(files) : files[i] \in Files
    BY ElementOfSeq
  <2>3. \A i \in 1..Len(files) :
          [file |-> files[i], object |-> Object(l, files[i]), source |-> source] \in Good
    <3> SUFFICES ASSUME NEW i \in 1..Len(files)
                 PROVE [file |-> files[i], object |-> Object(l, files[i]), source |-> source] \in Good
      OBVIOUS
    <3>1. Object(l, files[i]) \in Nat
      BY <1>1, <2>2 DEF Object, LoadStates, FileStates
    <3> QED
      BY <1>5, <2>2, <3>1 DEF AnswerParts
  <2>4. Of(source, files) = [i \in 1..Len(files) |-> [file |-> files[i],
                                   object |-> Object(l, files[i]), source |-> source]]
    BY <2>1
  <2>5. Of(source, files) \in [1..Len(files) -> Good]
    <3> HIDE DEF Good
    <3> QED
      BY <2>3, <2>4
  <2> HIDE DEF Good, Of
  <2> QED
    BY <2>1, <2>5
<1>6. answer \in Seq(Good)
  <2>1. Of("found", found) \in Seq(Good)
    <3>1. \A i \in 1..Len(found) : At(l, found[i]) = "done"
      BY <1>1, FoundIs DEF Before
    <3> HIDE DEF Of, Good
    <3> QED
      BY <1>3, <1>5, <3>1
  <2>2. Of("overridden", load[l].overrides) \in Seq(Good)
    <3>1. \A i \in 1..Len(load[l].overrides) : load[l].overrides[i] \in ToSet(load[l].overrides)
      BY <1>2, LenProperties DEF ToSet
    <3>2. \A i \in 1..Len(load[l].overrides) : At(l, load[l].overrides[i]) = "done"
      BY <1>2, <1>3, <3>1 DEF LoadInv, HasOverrides
    <3> HIDE DEF Of, Good
    <3> QED
      BY <1>2, <1>5, <3>2
  <2>3. Of("extended", Extended(l)) \in Seq(Good)
    <3>1. Extended(l) \in Seq(Files)
      BY ExtendedIs
    <3> HIDE DEF Of, Good
    <3>2. \A i \in 1..Len(Extended(l)) : Extended(l)[i] \in ToSet(Extended(l))
      BY <3>1, LenProperties DEF ToSet
    <3> QED
      BY <1>4, <1>5, <3>1, <3>2
  <2>4. answer = Of("extended", Extended(l)) \o Of("found", found) \o Of("overridden", load[l].overrides)
    BY DEF Answer
  <2> HIDE DEF Of, Good, answer
  <2>5. Of("extended", Extended(l)) \o Of("found", found) \in Seq(Good)
    BY <2>1, <2>3, ConcatProperties
  <2> QED
    BY <2>2, <2>4, <2>5, ConcatProperties
<1>7. \A i \in 1..Len(answer) : answer[i] \in Good
  <2> HIDE DEF answer, Good
  <2> QED
    BY <1>6, ElementOfSeq
<1>8. answer \in Seq(AnswerParts)
  <2>1. Good \subseteq AnswerParts
    OBVIOUS
  <2> HIDE DEF answer, Good
  <2> QED
    BY <1>6, <2>1
<1> HIDE DEF answer
<1>9. load' = [load EXCEPT ![l] = state]
  BY DEF ResolveFiles, FinderTypes, answer
<1>10. /\ state \in LoadStates /\ state.step = "done" /\ state.file = load[l].file
       /\ state.start = load[l].start /\ state.found = found /\ state.next = load[l].next
       /\ state.extends = load[l].extends /\ state.overrides = load[l].overrides /\ state.answer = answer
       /\ state.nested = load[l].nested /\ state.matches = load[l].matches
  BY <1>1, <1>8 DEF LoadStates, LoadSteps
<1> HIDE DEF state
<1>11. load'[l] = state /\ heap' = heap
  BY <1>1, <1>9 DEF FinderTypes
<1>12. HeapGrows /\ TakesOnce /\ \A m \in Loads : TakesNothing(m)
  BY <1>1, HeapSame
<1>13. \A g : At(l, g)' = At(l, g) /\ Object(l, g)' = Object(l, g)
  BY <1>10, <1>11 DEF At, Object
<1>14. HasOverrides(l)'
  BY <1>2, <1>10, <1>11, <1>13 DEF LoadInv, HasOverrides
<1>15. HasExtends(l)'
  <2>1. Visited(l)' = Visited(l) /\ Turns(l)' = Turns(l)
    BY <1>10, <1>11 DEF Visited, Turns
  <2> QED
    BY <1>1, <1>2, <1>10, <1>11, <1>13, <2>1 DEF LoadInv, HasExtends
<1>16. NothingTaken(l)'
  BY <1>10, <1>11 DEF NothingTaken, Before
<1>17. FreshLoad(l)'
  <2> SUFFICES ASSUME NEW i \in 1..Len(answer)
               PROVE  /\ answer[i].object \in 1..Len(heap)
                      /\ heap[answer[i].object].version >= load[l].start[answer[i].file]
    BY <1>10, <1>11 DEF FreshLoad
  <2> DEFINE file == answer[i].file
  <2>1. file \in Files /\ At(l, file) = "done" /\ answer[i].object = Object(l, file)
    BY <1>7 DEF AnswerParts
  <2> HIDE DEF file
  <2>2. Object(l, file) \in 1..Len(heap) /\ heap[Object(l, file)] \in Objects
    BY <2>1, ObjectsKept
  <2>3. load[l].start[file] <= heap[Object(l, file)].version
    BY <2>1 DEF Newer, NewerFile, At, Object
  <2>4. load[l].start[file] \in Nat /\ heap[Object(l, file)].version \in Nat
    BY <1>1, <2>1, <2>2 DEF LoadStates, Objects
  <2> QED
    BY <2>1, <2>2, <2>3, <2>4 DEF file
<1>18. HasNested(l)'
  BY <1>2, <1>10, <1>11 DEF LoadInv, HasNested, VisitedOverrides
<1> QED
  BY <1>1, <1>9, <1>10, <1>12, <1>14, <1>15, <1>16, <1>17, <1>18, LoadStep DEF LoadInv, Before

-----------------------------------------------------------------------------
LEMMA EditStep ==
    ASSUME FinderIInv, NEW f \in Files, Edit(f)
    PROVE  FinderIInv'
<1> USE DEF FinderIInv
<1>1. /\ edits \in Nat /\ edits' = edits + 1 /\ version \in [Files -> Nat]
      /\ UNCHANGED <<clears, dirFilesCache, fileContentCache, heap, load>>
  BY DEF Edit, FinderTypes
<1>2. /\ version' \in [Files -> Nat] /\ version'[f] \in {0, edits + 2}
      /\ \A g \in Files \ {f} : version'[g] = version[g]
  BY <1>1 DEF Edit
<1>3. FinderTypes'
  BY <1>1, <1>2 DEF FinderTypes
<1>4. /\ \A g \in Files : EntriesOf(g)' = EntriesOf(g) /\ References(g)' = References(g)
      /\ \A o, key : Taken(o, key)' = Taken(o, key)
  BY <1>1 DEF EntriesOf, References, At, Object, Taken
<1>5. Apart' /\ TakenOnce'
  BY <1>1, <1>4 DEF Apart, TakenOnce
<1>6. \A v \in Nat, g \in Files : Told(v, g) => Told(v, g)'
  BY <1>1, <1>2 DEF Told
<1>7. ASSUME NEW l \in Loads, NEW g \in Files PROVE NewerFile(l, g)'
  <2>1. load[l].start[g] \in Nat /\ load[l].file[g].mtime \in Nat
    BY DEF FinderTypes, LoadStates, FileStates
  <2>2. NewerFile(l, g)
    BY DEF Newer
  <2> QED
    BY <1>1, <1>6, <2>1, <2>2 DEF NewerFile
<1>8. \A g \in Files : version'[g] <= edits' + 1
  BY <1>1, <1>2 DEF Newer
<1>9. Newer'
  BY <1>1, <1>4, <1>7, <1>8 DEF Newer
<1>10. ASSUME NEW l \in Loads PROVE LoadInv(l)'
  BY <1>1, HeapSame, LoadKept
<1> QED
  BY <1>3, <1>5, <1>9, <1>10

LEMMA CacheStep ==
    ASSUME FinderIInv, ClearCache \/ UNCHANGED vars
    PROVE  FinderIInv'
<1> USE DEF FinderIInv
<1>1. /\ UNCHANGED <<version, edits, heap, load>>
      /\ dirFilesCache' \in [Folders -> Seq(Files) \cup {None}]
      /\ fileContentCache' \in [Files -> Entries \cup {None}]
      /\ \A f \in Files : fileContentCache'[f] = fileContentCache[f] \/ fileContentCache'[f] = None
  BY DEF ClearCache, FinderTypes, vars
<1>2. FinderTypes'
  BY <1>1 DEF FinderTypes
<1>3. \A f \in Files : EntriesOf(f)' \subseteq EntriesOf(f) /\ References(f)' \subseteq References(f)
  BY <1>1, ReferencesKept
<1>4. HeapGrows /\ TakesOnce /\ \A l \in Loads : TakesNothing(l)
  BY <1>1, HeapSame
<1>5. Apart' /\ TakenOnce'
  BY <1>3, <1>4, ApartKept
<1>6. Newer'
  BY <1>1, <1>3, <1>4, NewerKept DEF Newer
<1>7. \A l \in Loads : LoadInv(l)'
  BY <1>1, <1>4, LoadKept
<1> QED
  BY <1>2, <1>5, <1>6, <1>7

LEMMA InitFinder == Init => FinderIInv
<1> SUFFICES ASSUME Init PROVE FinderIInv
  OBVIOUS
<1>1. /\ version = Initial /\ edits = 0 /\ heap = <<>>
      /\ dirFilesCache = [d \in Folders |-> None] /\ fileContentCache = [f \in Files |-> None]
      /\ load = [l \in Loads |-> Idle]
  BY DEF Init
<1>2. Initial \in [Files -> Nat] /\ \A f \in Files : Initial[f] <= 1 /\ Initial[f] \in Nat
  BY FilesAssumption
<1>3. NotBegun.step = "scope" /\ (None \in Entries \cup {None}) /\ NotBegun \in FileStates
  BY DEF NotBegun, FileStates, FileSteps
<1>4. /\ Idle \in LoadStates /\ Idle.step = "idle" /\ Idle.start = Initial /\ Idle.next = 1
      /\ Idle.file = [f \in Files |-> NotBegun] /\ Idle.extends = FALSE /\ Idle.nested = FALSE
  <2>1. <<>> \in Seq(Files) /\ <<>> \in Seq(AnswerParts)
    BY EmptySeq
  <2>2. [f \in Files |-> NotBegun] \in [Files -> FileStates]
    BY <1>3
  <2> HIDE DEF NotBegun
  <2> QED
    BY <1>2, <2>1, <2>2 DEF Idle, LoadStates, LoadSteps, Before
<1>5. \A l \in Loads : load[l] = Idle /\ load \in [Loads -> LoadStates]
  BY <1>1, <1>4
<1>6. \A l \in Loads, f \in Files : load[l].file[f] = NotBegun /\ At(l, f) = "scope"
  BY <1>3, <1>4, <1>5 DEF At
<1>7. FinderTypes
  <2>1. <<>> \in Seq(Objects)
    BY EmptySeq
  <2>2. load \in [Loads -> LoadStates]
    BY <1>1, <1>4
  <2> QED
    BY <1>1, <1>2, <2>1, <2>2 DEF FinderTypes
<1>8. \A f \in Files : EntriesOf(f) = {} /\ References(f) = {}
  <2> SUFFICES ASSUME NEW f \in Files PROVE EntriesOf(f) = {} /\ References(f) = {}
    OBVIOUS
  <2>1. fileContentCache[f] = None /\ {m \in Loads : At(m, f) = "stat"} = {} /\ {m \in Loads : At(m, f) = "done"} = {}
    BY <1>1, <1>6
  <2>2. EntriesOf(f) = {}
    BY <2>1 DEF EntriesOf
  <2> QED
    BY <2>1, <2>2 DEF References
<1>9. Apart /\ TakenOnce
  BY <1>8 DEF Apart, TakenOnce
<1>10. Newer
  <2>1. \A f \in Files : Told(Initial[f], f)
    BY <1>1, <1>2 DEF Told
  <2>2. \A l \in Loads, f \in Files : NewerFile(l, f)
    BY <1>3, <1>4, <1>5, <1>6, <2>1 DEF NewerFile
  <2> QED
    BY <1>1, <1>2, <1>8, <2>2 DEF Newer
<1>11. \A l \in Loads : LoadInv(l)
  <2>1. Len(heap) = 0 /\ 1..Len(heap) = {}
    BY <1>1
  <2> QED
    BY <1>4, <1>5, <2>1 DEF LoadInv, HasOverrides, HasExtends, HasNested, NothingTaken, FreshLoad, Past, Before
<1> QED
  BY <1>7, <1>9, <1>10, <1>11 DEF FinderIInv

LEMMA NextFinder == FinderIInv /\ [Next]_vars => FinderIInv'
<1> SUFFICES ASSUME FinderIInv, [Next]_vars PROVE FinderIInv'
  OBVIOUS
<1>1. CASE ClearCache \/ UNCHANGED vars
  BY <1>1, CacheStep
<1>2. ASSUME NEW l \in Loads,
             \/ Begin(l) \/ FindFiles(l) \/ ResolveFiles(l)
             \/ ExtractOverridden(l) \/ ExtractExtended(l) \/ ExtractNested(l)
      PROVE  FinderIInv'
  BY <1>2, BeginStep, FindFilesStep, ResolveFilesStep, ExtractOverriddenStep, ExtractExtendedStep,
     ExtractNestedStep
<1>3. ASSUME NEW l \in Loads, NEW f \in Loading(l), Look(l, f) \/ Stat(l, f) \/ Read(l, f) \/ Store(l, f)
      PROVE  FinderIInv'
  BY <1>3, LookStep, StatStep, ReadStep, StoreStep
<1>4. ASSUME NEW f \in Files, Edit(f) PROVE FinderIInv'
  BY <1>4, EditStep
<1> QED
  BY <1>1, <1>2, <1>3, <1>4 DEF Next

THEOREM FinderInvariance == Spec => []FinderIInv
BY InitFinder, NextFinder, PTL DEF Spec

(* What a load answers with is at least as new as what was there when it   *)
(* began, however loads, edits and clearings of the cache interleave.      *)
THEOREM AnswersAreFresh == Spec => []Fresh
<1>1. FinderIInv => Fresh
  <2> SUFFICES ASSUME FinderIInv, NEW l \in Done, NEW i \in DOMAIN load[l].answer
               PROVE  heap[load[l].answer[i].object].version >= load[l].start[load[l].answer[i].file]
    BY DEF Fresh
  <2>1. l \in Loads /\ load[l].step = "done" /\ load[l].answer \in Seq(AnswerParts)
    BY DEF Done, FinderIInv, FinderTypes, LoadStates
  <2>2. i \in 1..Len(load[l].answer)
    BY <2>1, LenProperties
  <2> QED
    BY <2>1, <2>2 DEF FinderIInv, LoadInv, FreshLoad
<1> QED
  BY <1>1, FinderInvariance, PTL

(* Each setting that a shared object was read with is taken out of it by   *)
(* exactly one load, which applies it unless it is answered by a path that *)
(* the overrides do not match; and no other load does.                     *)
THEOREM SettingsAppliedOnce == Spec => []AppliedOnce
<1>1. ASSUME FinderIInv, NEW l \in Done
      PROVE  load[l].nested <=> ToSet(load[l].overrides) \cap Nested # {}
  <2>1. l \in Loads /\ load[l].step = "done" /\ LoadInv(l) /\ Past(l)
    BY <1>1 DEF Done, FinderIInv, Past
  <2>2. load[l].next > Turns(l)
    BY <2>1 DEF LoadInv, HasExtends
  <2>3. /\ load[l].overrides \in Seq(Files) /\ DOMAIN load[l].overrides = 1..Len(load[l].overrides)
        /\ Len(load[l].overrides) \in Nat /\ Len(load[l].found) \in Nat /\ load[l].next \in Nat
    BY <1>1, <2>1, LenProperties DEF FinderIInv, FinderTypes, LoadStates
  <2>4. \A j \in 1..Len(load[l].overrides) : Len(load[l].found) + j < load[l].next
    <3> DEFINE n == load[l].next
               lf == Len(load[l].found)
               lo == Len(load[l].overrides)
    <3>1. n > lf + lo /\ lo \in Nat /\ lf \in Nat /\ n \in Nat
      BY <2>2, <2>3 DEF Turns
    <3> HIDE DEF n, lf, lo
    <3>2. \A j \in 1..lo : lf + j < n
      BY <3>1
    <3> QED
      BY <3>2 DEF n, lf, lo
  <2>5. VisitedOverrides(l) = ToSet(load[l].overrides)
    BY <2>3, <2>4 DEF VisitedOverrides, ToSet
  <2> QED
    BY <2>1, <2>5 DEF LoadInv, HasNested
<1>2. FinderIInv => AppliedOnce
  <2> SUFFICES ASSUME FinderIInv, NEW l \in Done, NEW i \in DOMAIN load[l].found, IsRoot(load[l].found[i]),
                      NEW key \in Given(load[l].found[i])
               PROVE  \E t \in Loads :
                        /\ heap[Object(l, load[l].found[i])].taken \cap ({key} \X Loads) = {<<key, t>>}
                        /\ (\/ key = "extends" /\ load[l].extends
                            \/ key = "overrides" /\ load[l].found[i] \in ToSet(load[l].overrides))
                           <=> t = l /\ (key = "overrides" => load[l].found[i] \in load[l].matches)
    BY <1>1 DEF AppliedOnce
  <2> DEFINE f == load[l].found[i]
             o == Object(l, f)
             applies == \/ key = "extends" /\ load[l].extends
                        \/ key = "overrides" /\ f \in ToSet(load[l].overrides)
             meant == key = "overrides" => f \in load[l].matches
  <2>1. l \in Loads /\ load[l].step = "done" /\ LoadInv(l) /\ Past(l)
    BY DEF Done, FinderIInv, Past
  <2>2. i \in 1..Len(load[l].found) /\ f \in ToSet(load[l].found) /\ f \in Files
    BY <2>1, FoundIs DEF FinderIInv
  <2>3. o \in References(f) /\ o \in 1..Len(heap) /\ heap[o] \in Objects
    BY <2>1, <2>2, FoundIs DEF LoadInv, HasOverrides, FinderIInv
  <2>4. f \in Visited(l)
    <3>1. load[l].next > Len(load[l].found) /\ Len(load[l].found) \in Nat /\ load[l].next \in Nat
      <4>1. load[l].next > Turns(l)
        BY <2>1 DEF LoadInv, HasExtends
      <4>2. load[l].overrides \in Seq(Files)
        BY <2>1 DEF FinderIInv, FinderTypes, LoadStates
      <4> DEFINE n == load[l].next
                 lf == Len(load[l].found)
                 lo == Len(load[l].overrides)
      <4>3. lo \in Nat /\ lf \in Nat /\ n \in Nat
        BY <2>1, <4>2, FoundIs, LenProperties DEF FinderIInv
      <4>4. n > lf + lo
        BY <4>1 DEF Turns
      <4> HIDE DEF n, lf, lo
      <4>5. n > lf
        BY <4>3, <4>4
      <4> QED
        BY <4>3, <4>5 DEF n, lf
    <3>2. i < load[l].next
      BY <2>2, <3>1
    <3> QED
      BY <2>2, <3>2 DEF Visited
  <2>5. key \notin heap[o].settings /\ (<<key, l>> \in heap[o].taken /\ meant <=> applies)
    <3>1. CASE key = "extends"
      <4>1. f \in Extending
        BY <3>1 DEF Given
      <4> QED
        BY <2>1, <2>4, <3>1, <4>1 DEF LoadInv, HasExtends
    <3>2. CASE key = "overrides"
      <4>1. f \in Overriding
        BY <3>2 DEF Given
      <4> QED
        BY <2>1, <2>2, <3>2, <4>1 DEF LoadInv, HasOverrides
    <3> QED
      BY <3>1, <3>2 DEF Given
  <2>6. PICK t \in Loads : Taken(o, key) = {t}
    BY <2>2, <2>3, <2>5 DEF FinderIInv, TakenOnce
  <2>7. heap[o].taken \in SUBSET (Keys \X Loads)
    BY <2>3 DEF Objects
  <2> HIDE DEF o, f
  <2>8. heap[o].taken \cap ({key} \X Loads) = {<<key, t>>}
    BY <2>6 DEF Taken
  <2>9. applies <=> t = l /\ meant
    BY <2>1, <2>5, <2>6 DEF Taken
  <2> QED
    BY <2>8, <2>9 DEF o, f
<1> QED
  BY <1>2, FinderInvariance, PTL

-----------------------------------------------------------------------------
(* The file transport.                                                     *)

\* What is known of a line is that it was logged.
Lines == 1..MaxLines

TransportTypes ==
    /\ logged \in Nat
    /\ current \in Seq(Lines) /\ pending \in Seq(Lines) /\ buffer \in Seq(Lines)
    /\ stream \in {"none", "open", "ending", "finished"}
    /\ rotating \in BOOLEAN /\ draining \in BOOLEAN /\ needDrain \in BOOLEAN /\ deleted \in BOOLEAN
    /\ lastSize \in Nat /\ now \in Nat /\ lastTimestamp \in Nat

\* lastSize is the size of the file, unless open() is going to read it.
Sized == stream # "none" \/ current = <<>> => lastSize = ByteLength(current)

\* A stream that does not write any more has nothing to write, and one that was
\* opened while a rotation is not over gets nothing.
Unwritten ==
    /\ pending # <<>> => stream \in {"open", "ending"}
    /\ rotating /\ stream = "open" => pending = <<>>

\* Lines are held only while they cannot be written.
HeldBack == buffer # <<>> => rotating \/ stream = "none"

\* The period that the next rotated file is named by, and the files of a period.
Period == IF Timed THEN lastTimestamp ELSE 0
Of(period) == {f \in DOMAIN rotated : f[1] = period}

\* The files of a period are numbered, and none is of a period to come.
Numbered ==
    /\ lastTimestamp <= now
    /\ DOMAIN rotated \subseteq Nat \X Nat
    /\ \A f \in DOMAIN rotated : f[1] <= Period
    /\ \A p \in Nat : \E n \in Nat : Of(p) = {p} \X {m \in Nat : m < n}

\* Lines are where they belong, and no line was not logged yet.
Kept ==
    /\ ToSet(Recent) \subseteq 1..logged
    /\ \A f \in DOMAIN rotated : rotated[f] \in Seq(Lines) /\ ToSet(rotated[f]) \subseteq 1..logged
    /\ LinesKept

TransportIInv ==
    /\ TransportTypes
    /\ Sized /\ Unwritten /\ HeldBack
    /\ ~deleted => Numbered
    /\ logged <= MaxLines
    /\ Kept

LEMMA InThree ==
    \A s, t, u \in Seq(Lines) : s \o t \o u \in Seq(Lines) /\ s \o t \o u = s \o (t \o u)
BY ConcatProperties, ConcatAssociative

USE DEF Lines

-----------------------------------------------------------------------------
(* Lines put together.                                                     *)

LEMMA ConcatIs ==
    ASSUME NEW s \in Seq(Lines), NEW t \in Seq(Lines)
    PROVE  /\ s \o t \in Seq(Lines) /\ Len(s) \in Nat /\ Len(t) \in Nat
           /\ DOMAIN s = 1..Len(s) /\ DOMAIN t = 1..Len(t)
           /\ DOMAIN (s \o t) = 1..Len(s) + Len(t) /\ Len(s \o t) = Len(s) + Len(t)
           /\ \A i \in 1..Len(s) : (s \o t)[i] = s[i] /\ s[i] \in Lines
           /\ \A i \in 1..Len(t) : (s \o t)[Len(s) + i] = t[i] /\ t[i] \in Lines
           /\ \A i \in 1..Len(s) + Len(t) : i \in 1..Len(s) \/ i - Len(s) \in 1..Len(t)
<1>1. Len(s) \in Nat /\ Len(t) \in Nat /\ DOMAIN s = 1..Len(s) /\ DOMAIN t = 1..Len(t)
  BY LenProperties
<1>2. s \o t \in Seq(Lines) /\ Len(s \o t) = Len(s) + Len(t)
  BY ConcatProperties
<1>3. DOMAIN (s \o t) = 1..Len(s) + Len(t)
  BY <1>2, LenProperties
<1>4. \A i \in 1..Len(s) + Len(t) : (s \o t)[i] = IF i <= Len(s) THEN s[i] ELSE t[i - Len(s)]
  BY ConcatProperties
<1>5. \A i \in 1..Len(s) : (s \o t)[i] = s[i] /\ s[i] \in Lines
  <2>1. \A i \in 1..Len(s) : s[i] \in Lines
    BY ElementOfSeq
  <2>2. \A i \in 1..Len(s) : i \in 1..Len(s) + Len(t) /\ i <= Len(s)
    BY <1>1
  <2> QED
    BY <1>4, <2>1, <2>2
<1>6. \A i \in 1..Len(t) : (s \o t)[Len(s) + i] = t[i] /\ t[i] \in Lines
  <2> SUFFICES ASSUME NEW i \in 1..Len(t) PROVE (s \o t)[Len(s) + i] = t[i] /\ t[i] \in Lines
    OBVIOUS
  <2>1. Len(s) + i \in 1..Len(s) + Len(t) /\ ~(Len(s) + i <= Len(s)) /\ Len(s) + i - Len(s) = i
    BY <1>1
  <2> QED
    <3>1. t[i] \in Lines
      BY ElementOfSeq
    <3> QED
      BY <1>4, <2>1, <3>1
<1> QED
  BY <1>1, <1>2, <1>3, <1>5, <1>6

LEMMA ConcatSet ==
    ASSUME NEW s \in Seq(Lines), NEW t \in Seq(Lines)
    PROVE  ToSet(s \o t) = ToSet(s) \cup ToSet(t)
<1>1. \A i \in 1..Len(s) + Len(t) : (s \o t)[i] \in ToSet(s) \cup ToSet(t)
  <2> SUFFICES ASSUME NEW i \in 1..Len(s) + Len(t) PROVE (s \o t)[i] \in ToSet(s) \cup ToSet(t)
    OBVIOUS
  <2>1. CASE i \in 1..Len(s)
    BY <2>1, ConcatIs DEF ToSet
  <2>2. CASE i - Len(s) \in 1..Len(t)
    <3>1. Len(s) + (i - Len(s)) = i
      BY ConcatIs
    <3>2. (s \o t)[i] = t[i - Len(s)]
      BY <2>2, <3>1, ConcatIs
    <3> QED
      BY <2>2, <3>2, ConcatIs DEF ToSet
  <2> QED
    BY <2>1, <2>2, ConcatIs
<1>2. \A i \in 1..Len(s) : s[i] \in ToSet(s \o t)
  <2> SUFFICES ASSUME NEW i \in 1..Len(s) PROVE s[i] \in ToSet(s \o t)
    OBVIOUS
  <2>1. i \in 1..Len(s) + Len(t) /\ (s \o t)[i] = s[i]
    BY ConcatIs
  <2> QED
    BY <2>1, ConcatIs DEF ToSet
<1>3. \A i \in 1..Len(t) : t[i] \in ToSet(s \o t)
  <2> SUFFICES ASSUME NEW i \in 1..Len(t) PROVE t[i] \in ToSet(s \o t)
    OBVIOUS
  <2>1. Len(s) + i \in 1..Len(s) + Len(t) /\ (s \o t)[Len(s) + i] = t[i]
    BY ConcatIs
  <2> QED
    BY <2>1, ConcatIs DEF ToSet
<1>4. ToSet(s \o t) \subseteq ToSet(s) \cup ToSet(t)
  <2>1. DOMAIN (s \o t) = 1..Len(s) + Len(t)
    BY ConcatIs
  <2> QED
    BY <1>1, <2>1 DEF ToSet
<1>5. ToSet(s) \subseteq ToSet(s \o t)
  <2> SUFFICES ASSUME NEW x \in ToSet(s) PROVE x \in ToSet(s \o t)
    OBVIOUS
  <2>1. PICK i \in 1..Len(s) : x = s[i]
    BY ConcatIs DEF ToSet
  <2> QED
    BY <1>2, <2>1
<1>6. ToSet(t) \subseteq ToSet(s \o t)
  <2> SUFFICES ASSUME NEW x \in ToSet(t) PROVE x \in ToSet(s \o t)
    OBVIOUS
  <2>1. PICK i \in 1..Len(t) : x = t[i]
    BY ConcatIs DEF ToSet
  <2> QED
    BY <1>3, <2>1
<1> QED
  BY <1>4, <1>5, <1>6

LEMMA ConcatIncreasing ==
    ASSUME NEW s \in Seq(Lines), NEW t \in Seq(Lines)
    PROVE  Increasing(s \o t) <=> Increasing(s) /\ Increasing(t) /\ Ahead(s, t)
<1> DEFINE m == Len(s)
           n == Len(t)
           u == s \o t
<1>1. /\ m \in Nat /\ n \in Nat /\ DOMAIN s = 1..m /\ DOMAIN t = 1..n /\ DOMAIN u = 1..m + n
      /\ \A i \in 1..m : u[i] = s[i]
      /\ \A i \in 1..n : u[m + i] = t[i]
      /\ \A i \in 1..m + n : i \in 1..m \/ i - m \in 1..n
  BY ConcatIs
<1> HIDE DEF m, n, u
<1>2. ASSUME Increasing(u) PROVE Increasing(s) /\ Increasing(t) /\ Ahead(s, t)
  <2>1. Increasing(s)
    <3> SUFFICES ASSUME NEW i \in 1..m, NEW j \in 1..m, i < j PROVE s[i] < s[j]
      BY <1>1 DEF Increasing
    <3>1. i \in 1..m + n /\ j \in 1..m + n
      BY <1>1
    <3> QED
      BY <1>1, <1>2, <3>1 DEF Increasing
  <2>2. Increasing(t)
    <3> SUFFICES ASSUME NEW i \in 1..n, NEW j \in 1..n, i < j PROVE t[i] < t[j]
      BY <1>1 DEF Increasing
    <3>1. m + i \in 1..m + n /\ m + j \in 1..m + n /\ m + i < m + j
      BY <1>1
    <3> QED
      BY <1>1, <1>2, <3>1 DEF Increasing
  <2>3. Ahead(s, t)
    <3> SUFFICES ASSUME NEW i \in 1..m, NEW j \in 1..n PROVE s[i] < t[j]
      BY <1>1 DEF Ahead
    <3>1. i \in 1..m + n /\ m + j \in 1..m + n /\ i < m + j
      BY <1>1
    <3> QED
      BY <1>1, <1>2, <3>1 DEF Increasing
  <2> QED
    BY <2>1, <2>2, <2>3
<1>3. ASSUME Increasing(s), Increasing(t), Ahead(s, t) PROVE Increasing(u)
  <2> SUFFICES ASSUME NEW i \in 1..m + n, NEW j \in 1..m + n, i < j PROVE u[i] < u[j]
    BY <1>1 DEF Increasing
  <2>1. CASE j \in 1..m
    <3>1. i \in 1..m
      BY <1>1, <2>1
    <3> QED
      BY <1>1, <1>3, <2>1, <3>1 DEF Increasing
  <2>2. CASE j - m \in 1..n
    <3>1. u[j] = t[j - m]
      <4>1. m + (j - m) = j
        BY <1>1
      <4> QED
        BY <1>1, <2>2, <4>1
    <3>2. CASE i \in 1..m
      BY <1>1, <1>3, <2>2, <3>1, <3>2 DEF Ahead
    <3>3. CASE i - m \in 1..n
      <4>1. m + (i - m) = i /\ i - m < j - m
        BY <1>1
      <4>2. u[i] = t[i - m]
        BY <1>1, <3>3, <4>1
      <4> QED
        BY <1>1, <1>3, <2>2, <3>1, <3>3, <4>1, <4>2 DEF Increasing
    <3> QED
      BY <1>1, <3>2, <3>3
  <2> QED
    BY <1>1, <2>1, <2>2
<1> QED
  BY <1>2, <1>3 DEF u

\* Being ahead is a matter of the lines, not of their places.
LEMMA AheadIs ==
    ASSUME NEW s, NEW t
    PROVE  Ahead(s, t) <=> \A x \in ToSet(s), y \in ToSet(t) : x < y
BY DEF Ahead, ToSet

-----------------------------------------------------------------------------
(* Bytes.                                                                  *)

BytesOf(s) == UNION {{i} \X (1..Bytes[s[i]]) : i \in DOMAIN s}

LEMMA BytesAre ==
    ASSUME NEW s \in Seq(Lines)
    PROVE  /\ IsFiniteSet(BytesOf(s)) /\ ByteLength(s) = Cardinality(BytesOf(s)) /\ ByteLength(s) \in Nat
           /\ \A x : x \in BytesOf(s) <=> \E i \in 1..Len(s) : \E b \in 1..Bytes[s[i]] : x = <<i, b>>
<1> DEFINE B(i) == {i} \X (1..Bytes[s[i]])
           S == {B(i) : i \in 1..Len(s)}
           f == [i \in 1..Len(s) |-> B(i)]
<1>1. Len(s) \in Nat /\ DOMAIN s = 1..Len(s) /\ \A i \in 1..Len(s) : Bytes[s[i]] \in Nat
  <2>1. Len(s) \in Nat /\ DOMAIN s = 1..Len(s)
    BY LenProperties
  <2>2. \A i \in 1..Len(s) : s[i] \in Lines
    BY ElementOfSeq
  <2> QED
    BY <2>1, <2>2, SizesAssumption
<1>2. f \in Surjection(1..Len(s), S)
  BY DEF Surjection
<1>3. IsFiniteSet(S)
  BY <1>1, <1>2, FS_Interval, FS_Surjection
<1>4. \A i \in 1..Len(s) : IsFiniteSet(B(i))
  <2> SUFFICES ASSUME NEW i \in 1..Len(s) PROVE IsFiniteSet(B(i))
    OBVIOUS
  <2>1. IsFiniteSet({i}) /\ IsFiniteSet(1..Bytes[s[i]])
    <3>1. IsFiniteSet({i})
      BY FS_Singleton
    <3>2. 1 \in Int /\ Bytes[s[i]] \in Int
      BY <1>1
    <3> QED
      BY <3>1, <3>2, FS_Interval
  <2> QED
    BY <2>1, FS_Product
<1>5. IsFiniteSet(UNION S)
  BY <1>3, <1>4, FS_UNION
<1>6. BytesOf(s) = UNION S /\ ByteLength(s) = Cardinality(BytesOf(s))
  BY <1>1 DEF BytesOf, ByteLength
<1>7. \A x : x \in UNION S <=> \E i \in 1..Len(s) : \E b \in 1..Bytes[s[i]] : x = <<i, b>>
  <2>1. ASSUME NEW x \in UNION S PROVE \E i \in 1..Len(s) : \E b \in 1..Bytes[s[i]] : x = <<i, b>>
    <3>1. PICK i \in 1..Len(s) : x \in B(i)
      BY <2>1
    <3> QED
      BY <3>1
  <2>2. ASSUME NEW i \in 1..Len(s), NEW b \in 1..Bytes[s[i]] PROVE <<i, b>> \in UNION S
    <3>1. <<i, b>> \in B(i) /\ B(i) \in S
      OBVIOUS
    <3> QED
      BY <3>1
  <2> QED
    BY <2>1, <2>2
<1> QED
  BY <1>5, <1>6, <1>7, FS_CardinalityType

LEMMA BytesAdd ==
    ASSUME NEW s \in Seq(Lines), NEW t \in Seq(Lines)
    PROVE  ByteLength(s \o t) = ByteLength(s) + ByteLength(t)
<1> DEFINE m == Len(s)
           n == Len(t)
           u == s \o t
           S == BytesOf(s)
           T == BytesOf(t)
           U == BytesOf(u)
           f == [x \in T |-> <<m + x[1], x[2]>>]
           R == {f[x] : x \in T}
<1>1. /\ u \in Seq(Lines)
      /\ m \in Nat /\ n \in Nat /\ Len(u) = m + n
      /\ \A i \in 1..m : u[i] = s[i]
      /\ \A i \in 1..n : u[m + i] = t[i]
      /\ \A i \in 1..m + n : i \in 1..m \/ i - m \in 1..n
  BY ConcatIs
<1>2. /\ IsFiniteSet(S) /\ ByteLength(s) = Cardinality(S) /\ ByteLength(s) \in Nat
      /\ \A x : x \in S <=> \E i \in 1..m : \E b \in 1..Bytes[s[i]] : x = <<i, b>>
  BY BytesAre
<1>3. /\ IsFiniteSet(T) /\ ByteLength(t) = Cardinality(T) /\ ByteLength(t) \in Nat
      /\ \A x : x \in T <=> \E i \in 1..n : \E b \in 1..Bytes[t[i]] : x = <<i, b>>
  BY BytesAre
<1>4. /\ ByteLength(u) = Cardinality(U)
      /\ \A x : x \in U <=> \E i \in 1..m + n : \E b \in 1..Bytes[u[i]] : x = <<i, b>>
  <2> HIDE DEF m, n, u
  <2>1. /\ ByteLength(u) = Cardinality(U)
        /\ \A x : x \in U <=> \E i \in 1..Len(u) : \E b \in 1..Bytes[u[i]] : x = <<i, b>>
    BY <1>1, BytesAre
  <2> QED
    BY <1>1, <2>1
<1> HIDE DEF m, n, u, S, T, U
<1>5. f \in Injection(T, R) /\ f \in Surjection(T, R)
  <2>1. \A x \in T : x = <<x[1], x[2]>> /\ x[1] \in Int
    <3> SUFFICES ASSUME NEW x \in T PROVE x = <<x[1], x[2]>> /\ x[1] \in Int
      OBVIOUS
    <3>1. PICK i \in 1..n : \E b \in 1..Bytes[t[i]] : x = <<i, b>>
      BY <1>3
    <3> QED
      BY <1>1, <3>1
  <2>2. f \in [T -> R] /\ \A y \in R : \E x \in T : f[x] = y
    OBVIOUS
  <2>3. \A x, y \in T : f[x] = f[y] => x = y
    <3> SUFFICES ASSUME NEW x \in T, NEW y \in T, f[x] = f[y] PROVE x = y
      OBVIOUS
    <3>1. m + x[1] = m + y[1] /\ x[2] = y[2]
      OBVIOUS
    <3>2. x[1] = y[1]
      <4>1. x[1] \in Int /\ y[1] \in Int
        BY <2>1
      <4> QED
        BY <1>1, <3>1, <4>1
    <3> QED
      BY <2>1, <3>1, <3>2
  <2> HIDE DEF f, R
  <2> QED
    BY <2>2, <2>3 DEF Injection, IsInjective, Surjection
<1>6. IsFiniteSet(R) /\ Cardinality(R) = Cardinality(T)
  <2> HIDE DEF f, R
  <2> QED
    BY <1>3, <1>5, FS_Surjection
<1>7. U = S \cup R
  <2>1. ASSUME NEW x \in U PROVE x \in S \cup R
    <3>1. PICK i \in 1..m + n : \E b \in 1..Bytes[u[i]] : x = <<i, b>>
      BY <1>4
    <3> PICK b \in 1..Bytes[u[i]] : x = <<i, b>>
      BY <3>1
    <3>2. CASE i \in 1..m
      BY <1>1, <1>2, <3>1, <3>2
    <3>3. CASE i - m \in 1..n
      <4>1. m + (i - m) = i
        BY <1>1
      <4>2. u[i] = t[i - m]
        BY <1>1, <3>3, <4>1
      <4>3. <<i - m, b>> \in T
        BY <1>3, <3>1, <3>3, <4>2
      <4>4. f[<<i - m, b>>] = x
        BY <3>1, <4>1, <4>3
      <4> QED
        BY <4>3, <4>4
    <3> QED
      BY <1>1, <3>2, <3>3
  <2>2. ASSUME NEW x \in S PROVE x \in U
    <3>1. PICK i \in 1..m : \E b \in 1..Bytes[s[i]] : x = <<i, b>>
      BY <1>2, <2>2
    <3> PICK b \in 1..Bytes[s[i]] : x = <<i, b>>
      BY <3>1
    <3>2. i \in 1..m + n /\ u[i] = s[i]
      BY <1>1
    <3> QED
      BY <1>4, <3>1, <3>2
  <2>3. ASSUME NEW y \in T PROVE f[y] \in U
    <3>1. PICK i \in 1..n : \E b \in 1..Bytes[t[i]] : y = <<i, b>>
      BY <1>3, <2>3
    <3> PICK b \in 1..Bytes[t[i]] : y = <<i, b>>
      BY <3>1
    <3>2. m + i \in 1..m + n /\ u[m + i] = t[i]
      BY <1>1
    <3>3. f[y] = <<m + i, b>>
      BY <2>3, <3>1
    <3> QED
      BY <1>4, <3>1, <3>2, <3>3
  <2> QED
    BY <2>1, <2>2, <2>3
<1>8. S \cap R = {}
  <2> SUFFICES ASSUME NEW x \in S, NEW y \in T, x = f[y] PROVE FALSE
    OBVIOUS
  <2>1. x[1] \in 1..m
    BY <1>2
  <2>2. y[1] \in 1..n
    BY <1>3
  <2>3. x[1] = m + y[1]
    OBVIOUS
  <2> QED
    BY <1>1, <2>1, <2>2, <2>3
<1>9. Cardinality(U) = Cardinality(S) + Cardinality(R) - Cardinality({})
  <2> HIDE DEF f, R
  <2> QED
    BY <1>2, <1>6, <1>7, <1>8, FS_Union
<1> HIDE DEF R
<1> QED
  BY <1>2, <1>3, <1>4, <1>6, <1>9, FS_EmptySet DEF u

LEMMA NoBytes == ByteLength(<<>>) = 0
<1>1. \A x : x \notin BytesOf(<<>>)
  BY DEF BytesOf
<1>2. BytesOf(<<>>) = {}
  BY <1>1
<1>3. ByteLength(<<>>) = Cardinality(BytesOf(<<>>))
  BY EmptySeq, BytesAre
<1> QED
  BY <1>2, <1>3, FS_EmptySet

-----------------------------------------------------------------------------
(* Where the lines are.                                                    *)

Rotated == UNION {ToSet(rotated[f]) : f \in DOMAIN rotated}

\* A line that was logged goes behind all others.
LEMMA KeptGrows ==
    ASSUME Kept, logged \in Nat, logged < MaxLines, Recent \in Seq(Lines),
           logged' = logged + 1, Recent' = Recent \o <<logged + 1>>, UNCHANGED <<rotated, lost, deleted>>
    PROVE  Kept'
<1> DEFINE line == <<logged + 1>>
<1>1. line \in Seq(Lines) /\ Len(line) = 1 /\ line[1] = logged + 1 /\ DOMAIN line = 1..1
  <2>1. logged + 1 \in Lines
    BY SizesAssumption
  <2> QED
    BY <2>1
<1>2. ToSet(line) = {logged + 1}
  BY <1>1 DEF ToSet
<1> HIDE DEF line
<1>3. ToSet(Recent)' = ToSet(Recent) \cup {logged + 1}
  BY <1>1, <1>2, ConcatSet DEF line
<1>4. ToSet(Recent)' \subseteq 1..logged'
  <2>1. ToSet(Recent) \subseteq 1..logged
    BY DEF Kept
  <2>2. 1..logged \subseteq 1..logged' /\ logged + 1 \in 1..logged'
    OBVIOUS
  <2> QED
    BY <1>3, <2>1, <2>2
<1>5. \A f \in DOMAIN rotated : ToSet(rotated[f]) \subseteq 1..logged'
  BY DEF Kept
<1>6. ASSUME ~deleted' PROVE LinesKept'
  <2>1. ~deleted /\ LinesKept
    BY <1>6 DEF Kept
  <2>2. Increasing(Recent)'
    <3>1. Increasing(line)
      BY <1>1 DEF Increasing
    <3>2. Ahead(Recent, line)
      <4>1. \A x \in ToSet(Recent), y \in ToSet(line) : x < y
        BY <1>2 DEF Kept
      <4> QED
        BY <4>1, AheadIs
    <3>3. Increasing(Recent \o line)
      BY <1>1, <2>1, <3>1, <3>2, ConcatIncreasing DEF LinesKept
    <3> QED
      BY <3>3 DEF line
  <2>3. ASSUME NEW f \in DOMAIN rotated PROVE Ahead(rotated[f], Recent')
    <3>1. Ahead(rotated[f], Recent) /\ ToSet(rotated[f]) \subseteq 1..logged
      BY <2>1 DEF LinesKept, Kept
    <3>2. \A x \in ToSet(rotated[f]), y \in ToSet(Recent) \cup {logged + 1} : x < y
      BY <3>1, AheadIs
    <3> QED
      BY <1>3, <3>2, AheadIs
  <2>4. 1..logged' \ (ToSet(Recent)' \cup Rotated') \subseteq lost'
    <3>1. 1..logged \ (ToSet(Recent) \cup Rotated) \subseteq lost
      BY <2>1 DEF LinesKept, Rotated
    <3>2. 1..logged' \subseteq 1..logged \cup {logged + 1}
      OBVIOUS
    <3>3. Rotated' = Rotated
      BY DEF Rotated
    <3> QED
      BY <1>3, <3>1, <3>2, <3>3
  <2> QED
    BY <2>1, <2>2, <2>3, <2>4 DEF LinesKept, Rotated
<1> QED
  BY <1>4, <1>5, <1>6 DEF Kept, LinesKept

LEMMA KeptSame ==
    ASSUME Kept, Recent' = Recent, UNCHANGED <<logged, rotated, lost, deleted>>
    PROVE  Kept'
BY DEF Kept, LinesKept

\* What a killed process held is lost.
LEMMA KeptKilled ==
    ASSUME Kept, NEW dropped \in Seq(Lines), Recent' \in Seq(Lines), Recent = Recent' \o dropped,
           logged \in Nat, logged' \in Nat, logged <= logged',
           lost \cup ToSet(dropped) \cup {l \in 1..logged' : l > logged} \subseteq lost',
           UNCHANGED <<rotated, deleted>>
    PROVE  Kept'
<1>1. ToSet(Recent) = ToSet(Recent)' \cup ToSet(dropped)
  BY ConcatSet
<1>2. ToSet(Recent)' \subseteq 1..logged'
  BY <1>1 DEF Kept
<1>3. \A f \in DOMAIN rotated : ToSet(rotated[f]) \subseteq 1..logged'
  BY DEF Kept
<1>4. ASSUME ~deleted' PROVE LinesKept'
  <2>1. ~deleted /\ LinesKept
    BY <1>4 DEF Kept
  <2>2. Increasing(Recent)'
    BY <2>1, ConcatIncreasing DEF LinesKept
  <2>3. ASSUME NEW f \in DOMAIN rotated PROVE Ahead(rotated[f], Recent')
    <3>1. Ahead(rotated[f], Recent)
      BY <2>1 DEF LinesKept
    <3> QED
      BY <1>1, <3>1, AheadIs
  <2>4. 1..logged' \ (ToSet(Recent)' \cup Rotated') \subseteq lost'
    <3>1. 1..logged \ (ToSet(Recent) \cup Rotated) \subseteq lost
      BY <2>1 DEF LinesKept, Rotated
    <3>2. \A l \in 1..logged' : l \in 1..logged \/ l > logged
      OBVIOUS
    <3>3. Rotated' = Rotated
      BY DEF Rotated
    <3> QED
      BY <1>1, <3>1, <3>2, <3>3
  <2> QED
    BY <2>1, <2>2, <2>3, <2>4 DEF LinesKept, Rotated
<1> QED
  BY <1>2, <1>3, <1>4 DEF Kept, LinesKept

-----------------------------------------------------------------------------
(* The names of rotated files.                                             *)

LEMMA NextNameIs ==
    ASSUME TransportTypes, Numbered
    PROVE  \E n \in Nat : NextName = <<Period, n>> /\ Of(Period) = {Period} \X {m \in Nat : m < n}
<1>1. Period \in Nat
  BY DEF TransportTypes, Period
<1>2. PICK n \in Nat : Of(Period) = {Period} \X {m \in Nat : m < n}
  BY <1>1 DEF Numbered
<1>3. {m \in Nat : m < n} = 0..(n - 1)
  OBVIOUS
<1>4. IsFiniteSet(0..(n - 1)) /\ Cardinality(0..(n - 1)) = n
  <2>1. 0 \in Int /\ n - 1 \in Int /\ (IF 0 > n - 1 THEN 0 ELSE n - 1 - 0 + 1) = n
    OBVIOUS
  <2> QED
    BY <2>1, FS_Interval
<1>5. IsFiniteSet({Period}) /\ Cardinality({Period}) = 1
  BY FS_Singleton
<1>6. Cardinality(Of(Period)) = 1 * n
  <2>1. Of(Period) = {Period} \X (0..(n - 1))
    BY <1>2, <1>3
  <2>2. Cardinality({Period} \X (0..(n - 1))) = Cardinality({Period}) * Cardinality(0..(n - 1))
    BY <1>4, <1>5, FS_Product
  <2> QED
    BY <1>4, <1>5, <2>1, <2>2
<1>7. NextName = <<Period, Cardinality(Of(Period))>>
  BY DEF NextName, Period, Of
<1> QED
  BY <1>2, <1>6, <1>7

\* The next name is not taken, and comes after all that are.
LEMMA NextNameLast ==
    ASSUME TransportTypes, Numbered
    PROVE  /\ NextName \in Nat \X Nat /\ NextName[1] = Period /\ NextName \notin DOMAIN rotated
           /\ \A f \in DOMAIN rotated : Earlier(f, NextName) /\ ~Earlier(NextName, f)
<1>1. Period \in Nat
  BY DEF TransportTypes, Period
<1>2. PICK n \in Nat : NextName = <<Period, n>> /\ Of(Period) = {Period} \X {m \in Nat : m < n}
  BY NextNameIs
<1>3. \A f \in DOMAIN rotated : /\ f \in Nat \X Nat /\ f[1] <= Period
                                /\ f[1] = Period => f[2] \in Nat /\ f[2] < n
  BY <1>2 DEF Numbered, Of
<1>4. \A f \in DOMAIN rotated : Earlier(f, NextName) /\ ~Earlier(NextName, f)
  <2> SUFFICES ASSUME NEW f \in DOMAIN rotated PROVE Earlier(f, NextName) /\ ~Earlier(NextName, f)
    OBVIOUS
  <2>1. f[1] \in Nat /\ f[1] <= Period /\ (f[1] = Period => f[2] \in Nat /\ f[2] < n)
    BY <1>3
  <2>2. NextName[1] = Period /\ NextName[2] = n
    BY <1>2
  <2> QED
    BY <1>1, <2>1, <2>2 DEF Earlier
<1>5. NextName \notin DOMAIN rotated
  <2> SUFFICES ASSUME NextName \in DOMAIN rotated PROVE FALSE
    OBVIOUS
  <2>1. NextName[1] = Period /\ NextName[2] = n
    BY <1>2
  <2>2. n < n
    BY <1>3, <2>1
  <2> QED
    BY <2>2
<1> QED
  BY <1>1, <1>2, <1>4, <1>5

LEMMA NumberedNext ==
    ASSUME TransportTypes, Numbered, rotated' = Renamed,
           lastTimestamp' \in Nat, lastTimestamp <= lastTimestamp', lastTimestamp' <= now'
    PROVE  Numbered'
<1>1. Period \in Nat /\ Period' \in Nat /\ Period <= Period'
  BY DEF TransportTypes, Period
<1>2. DOMAIN rotated' = DOMAIN rotated \cup {NextName}
  BY DEF Renamed
<1>3. DOMAIN rotated' \subseteq Nat \X Nat
  BY <1>2, NextNameLast DEF Numbered
<1>4. ASSUME NEW f \in DOMAIN rotated' PROVE f[1] <= Period'
  <2>1. f[1] \in Nat /\ f[1] <= Period
    <3>1. CASE f \in DOMAIN rotated
      BY <3>1 DEF Numbered
    <3>2. CASE f = NextName
      BY <1>1, <3>2, NextNameLast
    <3> QED
      BY <1>2, <1>4, <3>1, <3>2
  <2> QED
    BY <1>1, <2>1
<1>5. ASSUME NEW p \in Nat PROVE \E n \in Nat : Of(p)' = {p} \X {m \in Nat : m < n}
  <2>1. CASE p = Period
    <3>1. PICK n \in Nat : NextName = <<Period, n>> /\ Of(Period) = {Period} \X {m \in Nat : m < n}
      BY NextNameIs
    <3>2. Of(p)' = Of(p) \cup {<<p, n>>}
      BY <1>2, <2>1, <3>1 DEF Of
    <3>3. {p} \X {m \in Nat : m < n + 1} = ({p} \X {m \in Nat : m < n}) \cup {<<p, n>>}
      <4>1. {m \in Nat : m < n + 1} = {m \in Nat : m < n} \cup {n}
        OBVIOUS
      <4> QED
        BY <4>1
    <3>4. n + 1 \in Nat
      OBVIOUS
    <3> QED
      BY <2>1, <3>1, <3>2, <3>3, <3>4
  <2>2. CASE p # Period
    <3>1. Of(p)' = Of(p)
      BY <1>2, <2>2, NextNameLast DEF Of
    <3> QED
      BY <3>1 DEF Numbered
  <2> QED
    BY <2>1, <2>2
<1> QED
  BY <1>3, <1>4, <1>5 DEF Numbered

\* What is renamed was ahead of what is not.
LEMMA KeptRenamed ==
    ASSUME TransportTypes, Kept, ~deleted => Numbered, rotated' = Renamed,
           NEW rest \in Seq(Lines), Recent = current \o rest, Recent' = rest,
           UNCHANGED <<logged, lost, deleted>>
    PROVE  Kept'
<1>1. current \in Seq(Lines)
  BY DEF TransportTypes
<1>2. ToSet(Recent) = ToSet(current) \cup ToSet(rest)
  BY <1>1, ConcatSet
<1>3. /\ DOMAIN rotated' = DOMAIN rotated \cup {NextName}
      /\ \A f \in DOMAIN rotated' : rotated'[f] = IF f = NextName THEN current ELSE rotated[f]
  BY DEF Renamed
<1>4. \A f \in DOMAIN rotated' : rotated'[f] \in Seq(Lines) /\ ToSet(rotated'[f]) \subseteq 1..logged
  BY <1>1, <1>2, <1>3 DEF Kept
<1>5. ASSUME ~deleted' PROVE LinesKept'
  <2>1. ~deleted /\ LinesKept /\ Numbered
    BY <1>5 DEF Kept
  <2>2. Increasing(current) /\ Increasing(rest) /\ Ahead(current, rest)
    BY <1>1, <2>1, ConcatIncreasing DEF LinesKept
  <2>3. NextName \notin DOMAIN rotated /\ \A f \in DOMAIN rotated : Earlier(f, NextName) /\ ~Earlier(NextName, f)
    BY <2>1, NextNameLast
  <2>4. \A f \in DOMAIN rotated : /\ Increasing(rotated[f]) /\ Ahead(rotated[f], current) /\ Ahead(rotated[f], rest)
    <3> SUFFICES ASSUME NEW f \in DOMAIN rotated
                 PROVE  Increasing(rotated[f]) /\ Ahead(rotated[f], current) /\ Ahead(rotated[f], rest)
      OBVIOUS
    <3>1. Increasing(rotated[f]) /\ Ahead(rotated[f], Recent)
      BY <2>1 DEF LinesKept
    <3>2. \A x \in ToSet(rotated[f]), y \in ToSet(current) \cup ToSet(rest) : x < y
      BY <1>2, <3>1, AheadIs
    <3> QED
      BY <3>1, <3>2, AheadIs
  <2>5. ASSUME NEW f \in DOMAIN rotated' PROVE Increasing(rotated'[f]) /\ Ahead(rotated'[f], rest)
    BY <1>3, <2>2, <2>4, <2>5
  <2>6. ASSUME NEW f \in DOMAIN rotated', NEW g \in DOMAIN rotated', Earlier(f, g)
        PROVE  Ahead(rotated'[f], rotated'[g])
    <3>1. CASE f \in DOMAIN rotated /\ g \in DOMAIN rotated
      <4>1. Ahead(rotated[f], rotated[g])
        BY <2>1, <2>6, <3>1 DEF LinesKept
      <4> QED
        BY <1>3, <2>3, <3>1, <4>1
    <3>2. CASE f \in DOMAIN rotated /\ g = NextName
      BY <1>3, <2>3, <2>4, <3>2
    <3>3. CASE f = NextName
      <4>1. g # NextName
        <5> SUFFICES ASSUME g = NextName PROVE FALSE
          OBVIOUS
        <5>1. NextName \in Nat \X Nat
          BY <2>1, NextNameLast
        <5> QED
          BY <2>6, <3>3, <5>1 DEF Earlier
      <4> QED
        BY <1>3, <2>3, <2>6, <3>3, <4>1
    <3> QED
      BY <1>3, <3>1, <3>2, <3>3
  <2>7. 1..logged \ (ToSet(rest) \cup Rotated') \subseteq lost
    <3>1. 1..logged \ (ToSet(current) \cup ToSet(rest) \cup Rotated) \subseteq lost
      BY <1>2, <2>1 DEF LinesKept, Rotated
    <3>2. ASSUME NEW x \in ToSet(current) PROVE x \in Rotated'
      <4>1. NextName \in DOMAIN rotated' /\ rotated'[NextName] = current
        BY <1>3
      <4> QED
        BY <3>2, <4>1 DEF Rotated
    <3>3. ASSUME NEW x \in Rotated PROVE x \in Rotated'
      <4>1. PICK f \in DOMAIN rotated : x \in ToSet(rotated[f])
        BY <3>3 DEF Rotated
      <4>2. f \in DOMAIN rotated' /\ rotated'[f] = rotated[f]
        BY <1>3, <2>3
      <4> QED
        BY <4>1, <4>2 DEF Rotated
    <3> QED
      BY <3>1, <3>2, <3>3
  <2> QED
    BY <2>2, <2>5, <2>6, <2>7 DEF LinesKept, Rotated
<1> QED
  BY <1>2, <1>4, <1>5 DEF Kept, LinesKept


-----------------------------------------------------------------------------
(* Every step keeps the invariant.                                         *)

\* The files and their names are where they were.
LEMMA NumberedSame ==
    ASSUME ~deleted => Numbered, UNCHANGED <<rotated, lastTimestamp, now, deleted>>
    PROVE  (~deleted => Numbered)'
BY DEF Numbered, Period, Of

\* open() writes the lines that were held, and then those it is called with.
LEMMA OpenedIs ==
    ASSUME TransportIInv, stream = "none", NEW lines \in Seq(Lines), OpenedWith(lines),
           ~rotating \/ lines = <<>>, logged' \in Nat,
           UNCHANGED <<rotating, lastTimestamp, now, disk, deleted>>
    PROVE  TransportTypes' /\ Sized' /\ Unwritten' /\ HeldBack' /\ Recent' = Recent \o lines
<1>1. /\ current \in Seq(Lines) /\ buffer \in Seq(Lines) /\ lastSize \in Nat
      /\ rotating \in BOOLEAN /\ draining \in BOOLEAN /\ needDrain \in BOOLEAN /\ deleted \in BOOLEAN
  BY DEF TransportIInv, TransportTypes
<1>2. pending = <<>> /\ (current = <<>> => lastSize = ByteLength(current))
  BY DEF TransportIInv, Unwritten, Sized
<1>3. /\ stream' = "open" /\ current' = current /\ rotating' = rotating
      /\ lastSize' = IF current = <<>> THEN lastSize ELSE ByteLength(current)
  BY DEF OpenedWith, disk
<1>4. Sized' /\ lastSize' \in Nat
  <2>1. ByteLength(current) \in Nat
    BY <1>1, BytesAre
  <2> QED
    BY <1>1, <1>2, <1>3, <2>1 DEF Sized
<1>5. draining' \in BOOLEAN /\ needDrain' \in BOOLEAN
  BY <1>1 DEF OpenedWith, StreamWrite
<1>6. CASE ~rotating
  <2>1. pending' = buffer \o lines /\ buffer' = <<>>
    <3>1. pending' = <<>> \o (buffer \o lines) /\ buffer' = <<>>
      BY <1>2, <1>6 DEF OpenedWith, StreamWrite, Held, StillHeld
    <3>2. buffer \o lines \in Seq(Lines)
      BY <1>1, ConcatProperties
    <3> QED
      BY <3>1, <3>2, ConcatEmptySeq
  <2>2. pending' \in Seq(Lines) /\ buffer' \in Seq(Lines)
    BY <1>1, <2>1, ConcatProperties, EmptySeq
  <2>3. Recent' = Recent \o lines
    <3>1. Recent = current \o buffer
      <4>1. Recent = current \o <<>> \o buffer
        BY <1>2 DEF Recent
      <4> QED
        BY <1>1, <4>1, ConcatEmptySeq
    <3>2. Recent' = current \o (buffer \o lines)
      <4>1. Recent' = current \o (buffer \o lines) \o <<>>
        BY <1>3, <2>1 DEF Recent
      <4>2. current \o (buffer \o lines) \in Seq(Lines)
        BY <1>1, <2>1, <2>2, ConcatProperties
      <4> QED
        BY <4>1, <4>2, ConcatEmptySeq
    <3> QED
      BY <1>1, <3>1, <3>2, InThree
  <2> QED
    BY <1>1, <1>3, <1>4, <1>5, <1>6, <2>1, <2>2, <2>3
    DEF TransportIInv, TransportTypes, Unwritten, HeldBack, disk
<1>7. CASE rotating
  <2>1. lines = <<>> /\ pending' = <<>> /\ buffer' = buffer
    <3>1. lines = <<>> /\ pending' = <<>> \o (<<>> \o <<>>) /\ buffer' = buffer
      BY <1>2, <1>7 DEF OpenedWith, StreamWrite, Held, StillHeld
    <3> QED
      BY <3>1, EmptySeq, ConcatEmptySeq
  <2>2. Recent' = Recent \o lines
    <3>1. Recent \in Seq(Lines) /\ Recent' = Recent
      BY <1>1, <1>2, <1>3, <2>1, EmptySeq, InThree DEF Recent
    <3> QED
      BY <2>1, <3>1, ConcatEmptySeq
  <2> QED
    BY <1>1, <1>3, <1>4, <1>5, <1>7, <2>1, <2>2, EmptySeq
    DEF TransportIInv, TransportTypes, Unwritten, HeldBack, disk
<1> QED
  BY <1>1, <1>6, <1>7

LEMMA RecentOfLines ==
    ASSUME TransportTypes
    PROVE  /\ current \in Seq(Lines) /\ pending \in Seq(Lines) /\ buffer \in Seq(Lines)
           /\ Recent \in Seq(Lines) /\ Recent = current \o (pending \o buffer)
<1>1. current \in Seq(Lines) /\ pending \in Seq(Lines) /\ buffer \in Seq(Lines)
  BY DEF TransportTypes
<1>2. /\ current \o pending \o buffer \in Seq(Lines)
      /\ current \o pending \o buffer = current \o (pending \o buffer)
  BY <1>1, InThree
<1> QED
  BY <1>1, <1>2 DEF Recent

LEMMA WriteKeeps ==
    ASSUME TransportIInv, NEW level, Write(level)
    PROVE  TransportIInv'
<1> DEFINE line == <<logged + 1>>
<1>1. /\ logged \in Nat /\ logged < MaxLines /\ logged' = logged + 1 /\ logged' \in Nat
      /\ line \in Seq(Lines)
      /\ UNCHANGED <<rotated, lost, deleted, lastTimestamp, now, rotating, current>>
  <2>1. logged \in Nat /\ logged < MaxLines /\ logged' = logged + 1
    BY DEF TransportIInv, TransportTypes, Write
  <2>2. logged + 1 \in Lines
    BY <2>1, SizesAssumption
  <2> QED
    BY <2>1, <2>2 DEF Write, disk, history
<1> HIDE DEF line
<1>2. TransportTypes
  BY DEF TransportIInv
<1>3. TransportTypes' /\ Sized' /\ Unwritten' /\ HeldBack' /\ Recent' = Recent \o line
  <2>1. CASE /\ rotating
             /\ buffer' = Append(buffer, logged')
             /\ UNCHANGED <<stateOfStream, draining, lastSize>>
    <3>1. buffer' = buffer \o line /\ buffer' \in Seq(Lines)
      <4>1. logged + 1 \in Lines
        BY <1>1, SizesAssumption
      <4>2. Append(buffer, logged + 1) = buffer \o <<logged + 1>>
        BY <1>2, <4>1, AppendIsConcat, RecentOfLines
      <4>3. buffer' = buffer \o line
        BY <1>1, <2>1, <4>2 DEF line
      <4> QED
        BY <1>1, <1>2, <4>3, ConcatProperties, RecentOfLines
    <3>2. Recent' = Recent \o line
      <4>1. Recent = current \o pending \o buffer /\ current \o pending \in Seq(Lines)
        BY <1>2, RecentOfLines, ConcatProperties DEF Recent
      <4>2. Recent' = current \o pending \o (buffer \o line)
        BY <1>1, <2>1, <3>1 DEF Recent, stateOfStream
      <4> QED
        BY <1>1, <1>2, <4>1, <4>2, InThree, RecentOfLines
    <3> QED
      BY <1>1, <2>1, <3>1, <3>2
      DEF TransportIInv, TransportTypes, Sized, Unwritten, HeldBack, stateOfStream
  <2>2. CASE ~rotating /\ stream = "none" /\ OpenedWith(line)
    <3>1. UNCHANGED <<rotating, lastTimestamp, now, disk, deleted>>
      BY DEF Write, history
    <3> QED
      BY <1>1, <2>2, <3>1, OpenedIs
  <2>3. CASE /\ ~rotating /\ stream = "open" /\ StreamWrite(line)
             /\ UNCHANGED <<stream, joined, closers, buffer, lastSize>>
    <3>1. pending' = pending \o line /\ pending' \in Seq(Lines)
      BY <1>1, <1>2, <2>3, ConcatProperties, RecentOfLines DEF StreamWrite
    <3>2. buffer = <<>>
      BY <2>3 DEF TransportIInv, HeldBack
    <3>3. Recent' = Recent \o line
      <4>1. Recent = current \o pending
        <5>1. Recent = current \o pending \o <<>> /\ current \o pending \in Seq(Lines)
          BY <1>2, <3>2, ConcatProperties, RecentOfLines DEF Recent
        <5> QED
          BY <5>1, ConcatEmptySeq
      <4>2. Recent' = current \o (pending \o line)
        <5>1. Recent' = current \o (pending \o line) \o <<>> /\ current \o (pending \o line) \in Seq(Lines)
          BY <1>1, <1>2, <2>3, <3>1, <3>2, ConcatProperties, RecentOfLines DEF Recent
        <5> QED
          BY <5>1, ConcatEmptySeq
      <4>3. current \o pending \o line = current \o (pending \o line)
        <5>1. current \in Seq(Lines) /\ pending \in Seq(Lines)
          BY <1>2, RecentOfLines
        <5> QED
          BY <1>1, <5>1, InThree
      <4> QED
        BY <4>1, <4>2, <4>3
    <3>4. draining' \in BOOLEAN /\ needDrain' \in BOOLEAN
      BY <1>2, <2>3 DEF StreamWrite, TransportTypes
    <3> QED
      BY <1>1, <2>3, <3>1, <3>2, <3>3, <3>4
      DEF TransportIInv, TransportTypes, Sized, Unwritten, HeldBack
  <2> QED
    BY <1>1, <2>1, <2>2, <2>3 DEF Write, line
<1>4. (~deleted => Numbered)'
  BY <1>1, NumberedSame DEF TransportIInv
<1>5. Kept'
  <2>1. Recent \in Seq(Lines)
    BY <1>2, RecentOfLines
  <2> QED
    BY <1>1, <1>3, <2>1, KeptGrows DEF TransportIInv, line
<1> QED
  BY <1>1, <1>3, <1>4, <1>5, SizesAssumption DEF TransportIInv

\* A process that dies leaves the file and the rotated files.
LEMMA KilledKeeps ==
    ASSUME TransportIInv, NEW lines, Killed(lines), UNCHANGED <<now, disk, deleted>>,
           logged' \in Nat, logged <= logged', logged' <= MaxLines, {l \in 1..logged' : l > logged} \subseteq lines
    PROVE  TransportIInv'
<1>1. TransportTypes /\ UNCHANGED <<now, current, rotated, deleted>>
  BY DEF TransportIInv, disk
<1>2. /\ pending' = <<>> /\ buffer' = <<>> /\ stream' = "none" /\ draining' = FALSE /\ rotating' = FALSE
      /\ needDrain' = FALSE /\ lastSize' = 0 /\ lastTimestamp' = now
      /\ lost' = lost \cup ToSet(pending) \cup ToSet(buffer) \cup lines
  BY DEF Killed
<1>3. TransportTypes' /\ Sized' /\ Unwritten' /\ HeldBack'
  BY <1>1, <1>2, NoBytes, EmptySeq DEF TransportTypes, Sized, Unwritten, HeldBack
<1>4. (~deleted => Numbered)'
  <2> SUFFICES ASSUME ~deleted, Numbered PROVE Numbered'
    BY <1>1 DEF TransportIInv
  <2>1. Period \in Nat /\ Period' \in Nat /\ Period <= Period' /\ lastTimestamp' <= now' /\ \A p : Of(p)' = Of(p)
    BY <1>1, <1>2 DEF TransportTypes, Numbered, Period, Of
  <2>2. \A f \in DOMAIN rotated : f[1] \in Nat
    BY DEF Numbered
  <2>3. \A f \in DOMAIN rotated' : f[1] <= Period'
    <3> SUFFICES ASSUME NEW f \in DOMAIN rotated PROVE f[1] <= Period'
      BY <1>1
    <3>1. f[1] <= Period
      BY DEF Numbered
    <3> QED
      BY <2>1, <2>2, <3>1
  <2> QED
    BY <1>1, <2>1, <2>3 DEF Numbered
<1>5. Kept'
  <2> DEFINE dropped == pending \o buffer
  <2>1. dropped \in Seq(Lines) /\ ToSet(dropped) = ToSet(pending) \cup ToSet(buffer)
    BY <1>1, RecentOfLines, ConcatSet, ConcatProperties
  <2>2. Recent' = current
    BY <1>1, <1>2, RecentOfLines, ConcatEmptySeq DEF Recent
  <2>3. Recent = Recent' \o dropped /\ Recent' \in Seq(Lines)
    BY <1>1, <2>2, RecentOfLines
  <2> HIDE DEF dropped
  <2>4. lost \cup ToSet(dropped) \cup {l \in 1..logged' : l > logged} \subseteq lost'
    BY <1>2, <2>1
  <2>5. logged \in Nat /\ Kept
    BY DEF TransportIInv, TransportTypes
  <2> QED
    BY <1>1, <2>1, <2>3, <2>4, <2>5, KeptKilled
<1> QED
  BY <1>3, <1>4, <1>5 DEF TransportIInv

LEMMA WriteAfterEndKeeps ==
    ASSUME TransportIInv, NEW level, WriteAfterEnd(level)
    PROVE  TransportIInv'
<1>1. /\ logged \in Nat /\ logged < MaxLines /\ logged' = logged + 1
      /\ Killed({logged + 1}) /\ UNCHANGED <<now, disk, deleted>>
  BY DEF TransportIInv, TransportTypes, WriteAfterEnd
<1>2. {l \in 1..logged' : l > logged} \subseteq {logged + 1} /\ logged <= logged' /\ logged' <= MaxLines /\ logged' \in Nat
  BY <1>1, SizesAssumption
<1> QED
  BY <1>1, <1>2, KilledKeeps

LEMMA KillKeeps ==
    ASSUME TransportIInv, Kill
    PROVE  TransportIInv'
<1>1. logged \in Nat /\ logged <= MaxLines /\ logged' = logged /\ Killed({}) /\ UNCHANGED <<now, disk, deleted>>
  BY DEF TransportIInv, TransportTypes, Kill
<1>2. {l \in 1..logged' : l > logged} \subseteq {}
  BY <1>1
<1> QED
  BY <1>1, <1>2, KilledKeeps

LEMMA OpenKeeps ==
    ASSUME TransportIInv, Open
    PROVE  TransportIInv'
<1>1. /\ stream = "none" /\ OpenedWith(<<>>) /\ logged \in Nat /\ logged' = logged /\ <<>> \in Seq(Lines)
      /\ UNCHANGED <<rotating, lastTimestamp, now, disk, rotated, lost, deleted>>
  BY EmptySeq DEF TransportIInv, TransportTypes, Open, disk, history
<1>2. TransportTypes' /\ Sized' /\ Unwritten' /\ HeldBack' /\ Recent' = Recent \o <<>>
  BY <1>1, OpenedIs
<1>3. Recent' = Recent
  BY <1>2, RecentOfLines, ConcatEmptySeq DEF TransportIInv
<1>4. (~deleted => Numbered)' /\ Kept'
  BY <1>1, <1>3, NumberedSame, KeptSame DEF TransportIInv
<1> QED
  BY <1>1, <1>2, <1>4 DEF TransportIInv

LEMMA CloseKeeps ==
    ASSUME TransportIInv, Close
    PROVE  TransportIInv'
<1>1. /\ stream \in {"open", "ending"} /\ stream' = "ending"
      /\ UNCHANGED <<logged, pending, needDrain, buffer, draining, rotating,
                     lastSize, lastTimestamp, now, current, rotated, lost, deleted>>
  BY DEF Close, disk, history
<1>2. TransportTypes' /\ Sized' /\ Unwritten' /\ HeldBack'
  BY <1>1 DEF TransportIInv, TransportTypes, Sized, Unwritten, HeldBack
<1>3. (~deleted => Numbered)' /\ Kept'
  BY <1>1, NumberedSame, KeptSame DEF TransportIInv, Recent
<1> QED
  BY <1>1, <1>2, <1>3 DEF TransportIInv

\* What a batch adds to the file is counted.
LEMMA FlushIs ==
    ASSUME TransportIInv, NEW k \in 1..Len(pending), Flush(k)
    PROVE  /\ stream \in {"open", "ending"} /\ (rotating => stream = "ending")
           /\ current' \in Seq(Lines) /\ pending' \in Seq(Lines)
           /\ current' \o pending' = current \o pending
           /\ lastSize' = ByteLength(current') /\ lastSize' \in Nat
<1> DEFINE batch == SubSeq(pending, 1, k)
           rest == SubSeq(pending, k + 1, Len(pending))
<1>1. current \in Seq(Lines) /\ pending \in Seq(Lines)
  BY DEF TransportIInv, TransportTypes
<1>2. Len(pending) \in Nat /\ pending # <<>>
  BY <1>1, LenProperties, EmptySeq
<1>3. stream \in {"open", "ending"} /\ (rotating => stream = "ending")
  BY <1>2 DEF TransportIInv, Unwritten
<1>4. lastSize = ByteLength(current)
  BY <1>3 DEF TransportIInv, Sized
<1>5. current' = current \o batch /\ pending' = rest /\ lastSize' = lastSize + ByteLength(batch)
  BY DEF Flush
<1>6. batch \in Seq(Lines) /\ rest \in Seq(Lines)
  <2>1. \A i \in 1..Len(pending) : pending[i] \in Lines
    BY <1>1, ElementOfSeq
  <2>2. k \in Int /\ k + 1 \in Int /\ Len(pending) \in Int /\ 1 \in Int
    BY <1>2
  <2>3. batch \in Seq(Lines)
    <3>1. \A i \in 1..k : pending[i] \in Lines
      BY <1>2, <2>1
    <3> QED
      BY <2>2, <3>1, SubSeqProperties
  <2>4. rest \in Seq(Lines)
    <3>1. \A i \in k + 1..Len(pending) : pending[i] \in Lines
      BY <1>2, <2>1
    <3> QED
      BY <2>2, <3>1, SubSeqProperties
  <2> QED
    BY <2>3, <2>4
<1>7. batch \o rest = pending
  <2>1. 1 \in 1..Len(pending) + 1 /\ k \in 1 - 1..Len(pending) /\ Len(pending) \in k..Len(pending)
    BY <1>2
  <2>2. batch \o rest = SubSeq(pending, 1, Len(pending))
    BY <1>1, <2>1, ConcatAdjacentSubSeq
  <2> QED
    BY <1>1, <2>2, SubSeqFull
<1> HIDE DEF batch, rest
<1>8. current' \in Seq(Lines) /\ current' \o pending' = current \o pending
  <2>1. current \o batch \o rest = current \o (batch \o rest)
    BY <1>1, <1>6, InThree
  <2>2. current \o batch \in Seq(Lines)
    BY <1>1, <1>6, ConcatProperties
  <2> QED
    BY <1>5, <1>7, <2>1, <2>2
<1>9. lastSize' = ByteLength(current')
  BY <1>1, <1>4, <1>5, <1>6, BytesAdd
<1>10. ByteLength(current') \in Nat
  BY <1>8, BytesAre
<1> QED
  BY <1>3, <1>5, <1>6, <1>8, <1>9, <1>10

LEMMA FlushKeeps ==
    ASSUME TransportIInv, NEW k \in 1..Len(pending), Flush(k)
    PROVE  TransportIInv'
<1>1. /\ stream \in {"open", "ending"} /\ (rotating => stream = "ending")
      /\ current' \in Seq(Lines) /\ pending' \in Seq(Lines)
      /\ current' \o pending' = current \o pending
      /\ lastSize' = ByteLength(current') /\ lastSize' \in Nat
  BY FlushIs
<1>2. UNCHANGED <<logged, buffer, lastTimestamp, now, rotated, lost, deleted>>
  BY DEF Flush, history
<1>3. /\ draining' \in BOOLEAN /\ needDrain' \in BOOLEAN /\ rotating' \in BOOLEAN
      /\ rotating => rotating'
      /\ stream' = IF rotating' /\ ~rotating THEN "ending" ELSE stream
  BY DEF TransportIInv, TransportTypes, Flush
<1>4. TransportTypes' /\ Sized' /\ Unwritten' /\ HeldBack'
  BY <1>1, <1>2, <1>3 DEF TransportIInv, TransportTypes, Sized, Unwritten, HeldBack
<1>5. Recent' = Recent
  BY <1>1, <1>2 DEF Recent
<1>6. (~deleted => Numbered)' /\ Kept'
  BY <1>2, <1>5, NumberedSame, KeptSame DEF TransportIInv
<1> QED
  BY <1>2, <1>4, <1>6 DEF TransportIInv

LEMMA FinishKeeps ==
    ASSUME TransportIInv, Finish
    PROVE  TransportIInv'
<1> DEFINE renamed == "rotate" \in ToSet(closers)
<1>1. /\ TransportTypes /\ pending = <<>> /\ stream = "ending" /\ lastSize = ByteLength(current)
      /\ stream' = "none" /\ needDrain' = FALSE /\ pending' = <<>>
      /\ rotating' = (rotating /\ ~renamed)
      /\ UNCHANGED <<logged, buffer, draining, now, lost, deleted>>
  BY DEF TransportIInv, Sized, Finish, history
<1>2. Recent = current \o buffer /\ Recent' = current' \o buffer
  <2>1. Recent = current \o (<<>> \o buffer)
    BY <1>1, RecentOfLines
  <2>2. Recent = current \o buffer
    BY <1>1, <2>1, RecentOfLines, ConcatEmptySeq
  <2>3. current' \in Seq(Lines)
    BY <1>1, EmptySeq DEF Finish, TransportTypes
  <2>4. current' \o <<>> = current'
    BY <2>3, ConcatEmptySeq
  <2> QED
    BY <1>1, <2>2, <2>4 DEF Recent
<1>3. CASE renamed
  <2>1. /\ rotated' = Renamed /\ current' = <<>> /\ lastSize' = 0 /\ lastTimestamp' = now
        /\ rotating' = FALSE
    BY <1>1, <1>3 DEF Finish
  <2>2. TransportTypes' /\ Sized' /\ Unwritten' /\ HeldBack'
    BY <1>1, <2>1, EmptySeq, NoBytes DEF TransportTypes, Sized, Unwritten, HeldBack
  <2>3. (~deleted => Numbered)'
    <3> SUFFICES ASSUME ~deleted, Numbered PROVE Numbered'
      BY <1>1 DEF TransportIInv
    <3>1. lastTimestamp' \in Nat /\ lastTimestamp <= lastTimestamp' /\ lastTimestamp' <= now'
      BY <1>1, <2>1 DEF TransportTypes, Numbered
    <3> QED
      BY <1>1, <2>1, <3>1, NumberedNext
  <2>4. Recent' = buffer
    BY <1>1, <1>2, <2>1, RecentOfLines, ConcatEmptySeq
  <2>5. Kept'
    BY <1>1, <1>2, <2>1, <2>4, RecentOfLines, KeptRenamed DEF TransportIInv
  <2> QED
    BY <1>1, <2>2, <2>3, <2>5 DEF TransportIInv
<1>4. CASE ~renamed
  <2>1. UNCHANGED <<rotated, current, lastSize, lastTimestamp, rotating>>
    BY <1>1, <1>4 DEF Finish, TransportTypes
  <2>2. TransportTypes' /\ Sized' /\ Unwritten' /\ HeldBack'
    BY <1>1, <2>1, EmptySeq DEF TransportTypes, Sized, Unwritten, HeldBack
  <2>3. (~deleted => Numbered)' /\ Kept'
    BY <1>1, <1>2, <2>1, NumberedSame, KeptSame DEF TransportIInv
  <2> QED
    BY <1>1, <2>2, <2>3 DEF TransportIInv
<1> QED
  BY <1>3, <1>4

LEMMA RenameFailsKeeps ==
    ASSUME TransportIInv, RenameFails
    PROVE  TransportIInv'
<1>1. /\ stream = "ending" /\ stream' \in {"none", "finished"} /\ pending = <<>>
      /\ UNCHANGED <<logged, pending, needDrain, buffer, draining, rotating,
                     lastSize, lastTimestamp, now, current, rotated, lost, deleted>>
  BY DEF RenameFails, disk
<1>2. TransportTypes' /\ Sized' /\ Unwritten' /\ HeldBack'
  BY <1>1 DEF TransportIInv, TransportTypes, Sized, Unwritten, HeldBack
<1>3. (~deleted => Numbered)' /\ Kept'
  BY <1>1, NumberedSame, KeptSame DEF TransportIInv, Recent
<1> QED
  BY <1>1, <1>2, <1>3 DEF TransportIInv

LEMMA DeleteKeeps ==
    ASSUME TransportIInv, NEW f \in DOMAIN rotated, Delete(f)
    PROVE  TransportIInv'
<1>1. /\ deleted' = TRUE /\ rotated' = [g \in DOMAIN rotated \ {f} |-> rotated[g]]
      /\ UNCHANGED <<logged, stream, pending, needDrain, buffer, draining, rotating,
                     lastSize, lastTimestamp, now, current>>
  BY DEF Delete, stateOfStream
<1>2. TransportTypes' /\ Sized' /\ Unwritten' /\ HeldBack'
  BY <1>1 DEF TransportIInv, TransportTypes, Sized, Unwritten, HeldBack
<1>3. Recent' = Recent
  BY <1>1 DEF Recent
<1>4. \A g \in DOMAIN rotated' : g \in DOMAIN rotated /\ rotated'[g] = rotated[g]
  BY <1>1
<1>5. Kept'
  BY <1>1, <1>3, <1>4 DEF TransportIInv, Kept, LinesKept
<1> QED
  BY <1>1, <1>2, <1>5 DEF TransportIInv

LEMMA OthersKeep ==
    ASSUME TransportIInv, Silence \/ Tick \/ UNCHANGED transportVars
    PROVE  TransportIInv'
<1>1. /\ now' \in Nat /\ now <= now'
      /\ UNCHANGED <<logged, stream, pending, needDrain, buffer, draining, rotating,
                     lastSize, lastTimestamp, current, rotated, lost, deleted>>
  BY DEF TransportIInv, TransportTypes, Silence, Tick, transportVars, stateOfStream, disk, history
<1>2. TransportTypes' /\ Sized' /\ Unwritten' /\ HeldBack'
  BY <1>1 DEF TransportIInv, TransportTypes, Sized, Unwritten, HeldBack
<1>3. (~deleted => Numbered)'
  <2> SUFFICES ASSUME ~deleted, Numbered PROVE Numbered'
    BY <1>1 DEF TransportIInv
  <2>1. Period' = Period /\ \A p : Of(p)' = Of(p)
    BY <1>1 DEF Period, Of
  <2>2. lastTimestamp' <= now'
    BY <1>1 DEF TransportIInv, TransportTypes, Numbered
  <2> QED
    BY <1>1, <2>1, <2>2 DEF Numbered
<1>4. Kept'
  BY <1>1, KeptSame DEF TransportIInv, Recent
<1> QED
  BY <1>1, <1>2, <1>3, <1>4 DEF TransportIInv

LEMMA NextTransportIInv == TransportIInv /\ [TransportNext]_transportVars => TransportIInv'
<1> SUFFICES ASSUME TransportIInv, [TransportNext]_transportVars PROVE TransportIInv'
  OBVIOUS
<1>1. CASE \E level \in ToSet(LogLevels) : Write(level) \/ WriteAfterEnd(level)
  BY <1>1, WriteKeeps, WriteAfterEndKeeps
<1>2. CASE Open
  BY <1>2, OpenKeeps
<1>3. CASE Close
  BY <1>3, CloseKeeps
<1>4. CASE \E k \in 1..Len(pending) : Flush(k)
  BY <1>4, FlushKeeps
<1>5. CASE Finish
  BY <1>5, FinishKeeps
<1>6. CASE RenameFails
  BY <1>6, RenameFailsKeeps
<1>7. CASE Kill
  BY <1>7, KillKeeps
<1>8. CASE \E f \in DOMAIN rotated : Delete(f)
  BY <1>8, DeleteKeeps
<1>9. CASE Silence \/ Tick \/ UNCHANGED transportVars
  BY <1>9, OthersKeep
<1> QED
  BY <1>1, <1>2, <1>3, <1>4, <1>5, <1>6, <1>7, <1>8, <1>9 DEF TransportNext

LEMMA InitTransportIInv == TransportInit => TransportIInv
<1> SUFFICES ASSUME TransportInit PROVE TransportIInv
  OBVIOUS
<1>1. TransportTypes /\ Sized /\ Unwritten /\ HeldBack
  BY EmptySeq, NoBytes DEF TransportInit, TransportTypes, Sized, Unwritten, HeldBack
<1>2. DOMAIN rotated = {} /\ logged = 0 /\ lastTimestamp = 0 /\ now = 0
  BY DEF TransportInit
<1>3. Numbered
  <2>1. \A p \in Nat : Of(p) = {p} \X {m \in Nat : m < 0}
    BY <1>2 DEF Of
  <2> QED
    BY <1>2, <2>1 DEF Numbered
<1>4. Kept
  <2>1. Recent = <<>>
    BY EmptySeq, ConcatEmptySeq DEF TransportInit, Recent
  <2>2. DOMAIN Recent = {} /\ ToSet(Recent) = {}
    BY <2>1 DEF ToSet
  <2>3. Increasing(Recent)
    BY <2>2 DEF Increasing
  <2> QED
    BY <1>2, <2>2, <2>3 DEF Kept, LinesKept
<1> QED
  BY <1>1, <1>2, <1>3, <1>4, SizesAssumption DEF TransportIInv

THEOREM TransportInvariance == TransportSafe => []TransportIInv
BY InitTransportIInv, NextTransportIInv, PTL DEF TransportSafe

\* Whatever the lines, their sizes and the order of writes, batches, closings,
\* failed renamings and kills: the files and what is held are the lines in order,
\* and only those that a killed process held are missing, as long as no file is
\* removed (file-transport.ts:72-117, 160-212).
THEOREM LinesStayInOrder == TransportSafe => []LinesKept
<1>1. TransportIInv => LinesKept
  BY DEF TransportIInv, Kept
<1> QED
  BY <1>1, TransportInvariance, PTL

\* For any bytes, maximum size and clock: the batch that makes the file too large,
\* or that is written in a new period, begins its rotation, and no other does
\* (file-transport.ts:103-133, 184-195, rotating-file-transport.ts:61-65).
THEOREM RotationBegins == TransportSafe => RotatedInTime
<1> DEFINE Due == ByteLength(current') > MaxSize \/ (Timed /\ now # lastTimestamp)
           Step == /\ (current' # current /\ pending' = <<>> /\ stream = "open" /\ ~draining')
                      => (rotating' <=> Due)
                   /\ (rotating' /\ ~rotating) => Due
<1>1. ASSUME TransportIInv, TransportNext PROVE Step
  <2>1. CASE \E k \in 1..Len(pending) : Flush(k)
    <3>1. PICK k \in 1..Len(pending) : Flush(k)
      BY <2>1
    <3>2. lastSize' = ByteLength(current') /\ (stream = "open" => ~rotating)
      BY <1>1, <3>1, FlushIs
    <3>3. rotating' = (rotating \/ (NeedsRotation(lastSize') /\ ~draining' /\ ~rotating))
      BY <3>1 DEF Flush
    <3> QED
      BY <3>2, <3>3 DEF NeedsRotation
  <2>2. CASE Finish
    BY <2>2 DEF Finish
  <2>3. CASE ~(\E k \in 1..Len(pending) : Flush(k)) /\ ~Finish
    <3>1. current' = current /\ (rotating' => rotating)
      <4>1. CASE \E level \in ToSet(LogLevels) : Write(level) \/ WriteAfterEnd(level)
        BY <4>1 DEF Write, WriteAfterEnd, Killed, disk
      <4>2. CASE Open \/ Close \/ RenameFails \/ Silence \/ Tick
        BY <4>2 DEF Open, Close, RenameFails, Silence, Tick, disk
      <4>3. CASE Kill \/ \E f \in DOMAIN rotated : Delete(f)
        <5>1. CASE Kill
          BY <5>1 DEF Kill, Killed, disk
        <5>2. CASE \E f \in DOMAIN rotated : Delete(f)
          BY <5>2 DEF Delete
        <5> QED
          BY <4>3, <5>1, <5>2
      <4> QED
        BY <1>1, <2>3, <4>1, <4>2, <4>3 DEF TransportNext
    <3> QED
      BY <3>1
  <2> QED
    BY <2>1, <2>2, <2>3
<1>2. TransportIInv /\ [TransportNext]_transportVars => [Step]_transportVars
  BY <1>1
<1> QED
  BY <1>2, TransportInvariance, PTL DEF TransportSafe, RotatedInTime
=============================================================================
