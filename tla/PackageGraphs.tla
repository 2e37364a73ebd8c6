---------------------------- MODULE PackageGraphs ----------------------------
(***************************************************************************)
(* ncommon/src/package-graph.ts: the order in which packages depend on     *)
(* each other.                                                             *)
(*                                                                         *)
(* A graph maps the name of each package to the names its package.json     *)
(* asks for, some of which may be no package of the graph.  Names are      *)
(* numbers, in alphabetical order.  Adding a package after the nodes were  *)
(* linked links them all again, so that the graph is all there is to know. *)
(***************************************************************************)
EXTENDS Integers, Sequences, FiniteSets, SequencesExt

Circular == [error |-> "Circular dependency detected"]
Overflow == [error |-> "Maximum call stack size exceeded"]
Answer(v) == [value |-> v]

\* The sets of a Node, as mapDependency() links it.
Requirements(g, n) == g[n] \cap DOMAIN g
Dependents(g, n) == {m \in DOMAIN g : n \in g[m]}

\* Most depended on first, then by name.
SortByDependedOn(g, S) ==
  LET fan(n) == Cardinality(Dependents(g, n))
  IN  SetToSortSeq(S, LAMBDA a, b : fan(a) > fan(b) \/ (fan(a) = fan(b) /\ a < b))

\* All that depend on n, directly or not.
Above(g, n) ==
  FoldLeft(LAMBDA S, i : S \cup UNION {Dependents(g, m) : m \in S}, Dependents(g, n),
           [i \in 1 .. Cardinality(DOMAIN g) |-> i])

\* detectCycle() digs from every node and throws when it meets one a second time.
HasCycle(g) == \E n \in DOMAIN g : n \in Above(g, n)

\* The bug that one requirement met is enough.
NextBatchAny(g, seen) ==
  {n \in DOMAIN g \ seen : Requirements(g, n) = {} \/ Requirements(g, n) \cap seen # {}}

\* addBatch(): the nodes not seen whose requirements all are.
NextBatch(g, seen) == {n \in DOMAIN g \ seen : Requirements(g, n) \subseteq seen}

\* resolveBatchList(), with at most as many batches as packages; an empty batch of nodes
\* that are no cycle would be added for ever.
ResolveBatchList(g) ==
  LET step(acc, i) ==
        LET next == NextBatch(g, acc.seen)
        IN  IF acc.seen = DOMAIN g \/ next = {} THEN acc
            ELSE [seen |-> acc.seen \cup next, batches |-> Append(acc.batches, SortByDependedOn(g, next))]
      end == FoldLeft(step, [seen |-> {}, batches |-> <<>>], [i \in 1 .. Cardinality(DOMAIN g) |-> i])
  IN  IF end.seen = DOMAIN g THEN Answer(IF DOMAIN g = {} THEN <<<<>>>> ELSE end.batches)
      ELSE Circular

ResolveList(g) ==
  LET list == ResolveBatchList(g) IN IF list = Circular THEN list ELSE Answer(FlattenSeq(list.value))

-----------------------------------------------------------------------------
(* resolveTree(): a node is marked as seen once its whole branch is built, *)
(* so that a cycle below a root is dug into until the stack overflows.     *)

RootNodes(g) == {n \in DOMAIN g : Requirements(g, n) = {}}

RECURSIVE Branch(_, _, _, _)
RECURSIVE Branches(_, _, _, _)

\* The branches of a list of nodes, and what has been seen after them; path is the stack.
Branches(g, list, seen, path) ==
  IF list = <<>> THEN [nodes |-> <<>>, seen |-> seen, deep |-> FALSE]
  ELSE LET first == Branch(g, Head(list), seen, path)
           others == Branches(g, Tail(list), first.seen, path)
       IN  IF first.deep THEN first
           ELSE [nodes |-> first.nodes \o others.nodes, seen |-> others.seen, deep |-> others.deep]

Branch(g, n, seen, path) ==
  LET below == Branches(g, SortByDependedOn(g, Dependents(g, n)), seen, path \cup {n})
  IN  CASE n \in seen -> [nodes |-> <<>>, seen |-> seen, deep |-> FALSE]
        [] n \notin seen /\ n \in path -> [nodes |-> <<>>, seen |-> seen, deep |-> TRUE]
        [] n \notin seen /\ n \notin path ->
             [nodes |-> <<[package |-> n, nodes |-> below.nodes]>>, seen |-> below.seen \cup {n},
              deep |-> below.deep]

ResolveTree(g) ==
  LET trunk == Branches(g, SortByDependedOn(g, RootNodes(g)), {}, {})
  IN  IF RootNodes(g) = {} /\ DOMAIN g # {} THEN Circular
      ELSE IF trunk.deep THEN Overflow
      ELSE IF trunk.seen # DOMAIN g /\ HasCycle(g) THEN Circular
      ELSE Answer(trunk.nodes)

=============================================================================
