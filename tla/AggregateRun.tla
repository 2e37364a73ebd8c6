---------------------------- MODULE AggregateRun ----------------------------
(***************************************************************************)
(* What the pipelines that gather errors and results promise               *)
(* (src/packages/pipeline/src/pooled.pipeline.ts, aggregated.pipeline.ts): *)
(* once started, every work unit gets exactly one outcome, and the answer  *)
(* is given when the last of them has, with one entry for each.            *)
(***************************************************************************)
EXTENDS Integers, FiniteSets

CONSTANT Units

VARIABLES
    state,     \* "open" until run(), "running", "answered"
    members,   \* the units added to the pipeline
    outcome,   \* the outcome of each unit, "none" before it has one
    entries    \* entries of the answer

vars == <<state, members, outcome, entries>>

Outcomes == {"value", "error"}

Init ==
    /\ state = "open"
    /\ members = {}
    /\ outcome = [u \in Units |-> "none"]
    /\ entries = 0

Add(u) ==
    /\ state # "answered"
    /\ members' = members \cup {u}
    /\ UNCHANGED <<state, outcome, entries>>

Run ==
    /\ state = "open"
    /\ state' = IF members = {} THEN "answered" ELSE "running"
    /\ UNCHANGED <<members, outcome, entries>>

Settle(u, result) ==
    /\ state = "running"
    /\ u \in members
    /\ outcome[u] = "none"
    /\ outcome' = [outcome EXCEPT ![u] = result]
    /\ LET all == \A v \in members : outcome'[v] # "none"
       IN  /\ state' = IF all THEN "answered" ELSE "running"
           /\ entries' = IF all THEN Cardinality(members) ELSE 0
    /\ UNCHANGED members

Next ==
    \/ \E u \in Units : Add(u)
    \/ Run
    \/ \E u \in Units, result \in Outcomes : Settle(u, result)

Spec == Init /\ [][Next]_vars
=============================================================================
