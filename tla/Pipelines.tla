----------------------------- MODULE Pipelines -----------------------------
(***************************************************************************)
(* The pipelines of @jil/pipeline and their work units                     *)
(* (src/packages/pipeline/src/): a WaterfallPipeline runs its units one    *)
(* after the other, a ConcurrentPipeline all at once until one fails, an   *)
(* AggregatedPipeline all at once whatever fails, a PooledPipeline at most *)
(* `concurrency' at a time, each with an optional timeout.                 *)
(*                                                                         *)
(* Each handler below runs to its end: add(), skip(), run(), and the       *)
(* callbacks of a unit, its fulfilment, its rejection and its timer, which *)
(* the event loop may call in any order.  `running' is the field of        *)
(* PooledPipeline; `executing' is what the units really do: WorkUnit.run() *)
(* has been called and its promise has not settled.                        *)
(***************************************************************************)
EXTENDS Integers, Sequences, FiniteSets, SequencesExt

CONSTANTS
    MaxUnits,     \* bound: how many units the program adds
    Concurrency   \* options.concurrency

ASSUME PipelinesAssumption == MaxUnits \in Nat /\ Concurrency \in Nat \ {0}

\* Units are numbered in the order they are added.
Units == 1..MaxUnits

VARIABLES
    class,        \* the class of the pipeline
    timeout,      \* options.timeout > 0
    filo,         \* options.filo
    phase,        \* "open" until run(), "running", "resolved" or "rejected"
    work,         \* the units not yet taken, in the order of the list `work'
    running,      \* running: taken and without a result
    results,      \* results: pairs of a unit and what it was recorded with
    response,     \* what the promise of run() was resolved with
    status,       \* status of each unit
    executing,    \* units whose own run() has not settled
    acting,       \* those of them whose action was called
    timer,        \* units whose setTimeout is pending
    added,        \* number of units added
    ignored,      \* history: units added when nothing takes them any more
    late,         \* history: units added while the pipeline was running
    started       \* history: the units in the order they were taken

options == <<class, timeout, filo>>
unitVars == <<status, executing, acting, timer>>
pipeVars == <<phase, work, running, results, response, added, ignored, late, started>>
vars == <<options, unitVars, pipeVars>>

Kinds == {"value", "input", "undefined", "error", "timeout"}
Results == [unit : Units, result : Kinds]

Init ==
    /\ class \in {"waterfall", "concurrent", "aggregated", "pooled"}
    /\ timeout \in BOOLEAN /\ filo \in BOOLEAN
    /\ class # "pooled" => ~timeout /\ ~filo
    /\ phase = "open"
    /\ work = <<>>
    /\ running = {}
    /\ results = <<>>
    /\ response = <<>>
    /\ status = [u \in Units |-> "pending"]
    /\ executing = {}
    /\ acting = {}
    /\ timer = {}
    /\ added = 0
    /\ ignored = {}
    /\ late = {}
    /\ started = <<>>

\* How many units run() starts, and how many may run together.
Width == CASE class = "pooled" -> Concurrency
           [] class = "waterfall" -> 1
           [] OTHER -> Cardinality(Units)

-----------------------------------------------------------------------------
(* Starting units.                                                         *)

\* The first k units that are taken from the list, in the order they are taken.
Taken(k) == IF filo THEN SubSeq(Reverse(work), 1, k) ELSE SubSeq(work, 1, k)

\* What is left of the list.
Left(k) == IF filo THEN SubSeq(work, 1, Len(work) - k) ELSE SubSeq(work, k + 1, Len(work))

\* What the unit's own state becomes when it settles.
Settled(u, newStatus) ==
    [executing |-> executing \ {u},
     acting |-> acting \ {u},
     status |-> [status EXCEPT ![u] = newStatus],
     timer |-> timer]

\* WorkUnit.run() of these units up to its first await: a unit that was marked
\* with skip() or that a listener of onRun refuses does not run its action.
\* With a timeout each gets a timer.  `s' is what the caller has made of the
\* units' state.
RunUnits(units, s) ==
    \E refused \in SUBSET units :
        LET skipped == {u \in units : u \in refused \/ s.status[u] = "skipped"}
        IN  /\ executing' = s.executing \cup units
            /\ acting' = s.acting \cup (units \ skipped)
            /\ status' = [u \in Units |->
                  IF u \in skipped THEN "skipped" ELSE IF u \in units THEN "running" ELSE s.status[u]]
            /\ timer' = IF timeout THEN s.timer \cup units ELSE s.timer

\* k units are taken from the list and run; `others' runs already.
RunWorkUnits(k, others, s) ==
    /\ work' = Left(k)
    /\ started' = started \o Taken(k)
    /\ running' = others \cup ToSet(Taken(k))
    /\ RunUnits(ToSet(Taken(k)), s)

-----------------------------------------------------------------------------
(* Recording results.                                                      *)

\* The entries a sequence of results has for a unit.
EntriesOf(u, seq) == {i \in DOMAIN seq : seq[i].unit = u}

\* Promise.all(): the results in the order of the units.
InOrder(seq) ==
    [i \in 1..Len(started) |-> seq[CHOOSE j \in EntriesOf(started[i], seq) : TRUE]]

\* How many units a result lets start.
NextUnits(others) == IF work # <<>> /\ Cardinality(others) < Width THEN 1 ELSE 0

\* A failure ends a waterfall; otherwise its next unit starts, as in a pool.
Following(result, others) ==
    IF class = "waterfall" /\ result = "error" THEN 0 ELSE NextUnits(others)

\* Broken variants: the answer of a pool does not wait for the units that still
\* run; or the unit that has just finished is counted among them.
CompleteEarly(others) == work = <<>> /\ (class = "pooled" \/ others = {})
CompleteLate(others) ==
    work = <<>> /\ Cardinality(others) = (IF class = "pooled" THEN 1 ELSE 0)

\* Nothing runs or waits any more.
Complete(others) == work = <<>> /\ others = {}

\* The pipeline answers: a promise is settled once, later calls of its resolver
\* do nothing.
Answer(failed, others) ==
    LET rejects == failed /\ class \in {"waterfall", "concurrent"}
    IN  IF phase # "running" THEN UNCHANGED <<phase, response>>
        ELSE IF rejects THEN phase' = "rejected" /\ UNCHANGED response
        ELSE IF ~Complete(others) THEN UNCHANGED <<phase, response>>
        ELSE /\ phase' = "resolved"
             /\ response' = CASE class = "pooled" -> results'
                               [] class = "waterfall" -> <<Last(results')>>
                               [] OTHER -> InOrder(results')

\* Unit u has a result, `s' is the units' state by then.
HandleResult(u, result, s) ==
    LET others == running \ {u}
        next == Following(result, others)
    IN  /\ results' = Append(results, [unit |-> u, result |-> result])
        /\ Answer(result = "error", others)
        /\ RunWorkUnits(next, others, s)
        /\ UNCHANGED <<options, added, ignored, late>>

-----------------------------------------------------------------------------
(* Broken variant: a unit that passes keeps its timer.                     *)
PassUncleared(u) ==
    /\ u \in acting
    /\ HandleResult(u, "value", Settled(u, "passed"))

-----------------------------------------------------------------------------
(* The handlers.                                                           *)

\* add(workUnit) or pipe(workUnit), at any time.  The lists of an aggregated and
\* a concurrent pipeline are read by run() only.
Add ==
    /\ added < MaxUnits
    /\ added' = added + 1
    /\ LET unread == class \in {"concurrent", "aggregated"} /\ phase # "open"
       IN  /\ work' = IF unread THEN work ELSE Append(work, added + 1)
           /\ ignored' = IF unread \/ phase \notin {"open", "running"}
                         THEN ignored \cup {added + 1} ELSE ignored
    /\ late' = IF phase = "running" THEN late \cup {added + 1} ELSE late
    /\ UNCHANGED <<options, unitVars, phase, running, results, response, started>>

\* WorkUnit.skip().  Bound: it is called before the unit has started; later it
\* changes the status only, which nothing reads any more.
Skip(u) ==
    /\ status[u] = "pending"
    /\ status' = [status EXCEPT ![u] = "skipped"]
    /\ UNCHANGED <<options, pipeVars, executing, acting, timer>>

\* run(): the first units are started in one go; without units it answers.
Run ==
    /\ phase = "open"
    /\ phase' = IF work = <<>> THEN "resolved" ELSE "running"
    /\ RunWorkUnits(IF Len(work) < Width THEN Len(work) ELSE Width, running,
                    [executing |-> executing, acting |-> acting, status |-> status, timer |-> timer])
    /\ UNCHANGED <<options, results, response, added, ignored, late>>

\* The unit's promise is fulfilled, and its timer is cleared: its action passed,
Pass(u) ==
    /\ u \in acting
    /\ HandleResult(u, "value", [Settled(u, "passed") EXCEPT !.timer = @ \ {u}])

\* it was skipped and hands on its input,
SkipDone(u) ==
    /\ u \in executing \ acting
    /\ HandleResult(u, "input", [Settled(u, status[u]) EXCEPT !.timer = @ \ {u}])

\* or its action threw something that is not an Error, which is swallowed.
FailOther(u) ==
    /\ u \in acting
    /\ HandleResult(u, "undefined", [Settled(u, "failed") EXCEPT !.timer = @ \ {u}])

\* The unit's promise is rejected with an Error: its timer is left as it is.
Fail(u) ==
    /\ u \in acting
    /\ HandleResult(u, "error", Settled(u, "failed"))

\* The unit's timer fires; the unit itself is not stopped.
TimeOut(u) ==
    /\ u \in timer
    /\ HandleResult(u, "timeout",
                    [executing |-> executing, acting |-> acting, status |-> status,
                     timer |-> timer \ {u}])

\* The promise of run() is settled and nothing is pending.
Finished ==
    /\ phase \in {"resolved", "rejected"}
    /\ executing = {} /\ timer = {}
    /\ UNCHANGED vars

Next ==
    \/ Add
    \/ \E u \in Units : Skip(u)
    \/ Run
    \/ \E u \in Units : Pass(u) \/ SkipDone(u) \/ FailOther(u) \/ Fail(u)
    \/ \E u \in Units : TimeOut(u)
    \/ Finished

Safe == Init /\ [][Next]_vars

\* Timers fire.  Without a timeout the actions of the units settle; with one a
\* unit may hang for ever.
Spec ==
    /\ Safe
    /\ \A u \in Units :
          /\ WF_vars(TimeOut(u))
          /\ WF_vars(SkipDone(u))
          /\ WF_vars(~timeout /\ (Pass(u) \/ FailOther(u) \/ Fail(u)))

-----------------------------------------------------------------------------
(* Properties.                                                             *)

\* run() resolves only when every unit has a result, and answers with one for
\* each: it cannot resolve while a unit is waiting or running, not even one that
\* was added to a pool or a waterfall meanwhile (pooled.pipeline.ts:84-89,
\* waterfall.pipeline.ts:19-23, aggregated.pipeline.ts:24-34).
NoUnitForgotten ==
    phase = "resolved" => \A u \in (1..added) \ ignored :
        EntriesOf(u, IF class = "waterfall" THEN results ELSE response) # {}

\* While units wait, the pool is full, no completion, late or early, leaves a
\* place empty; and without a timeout it never executes more units than
\* `concurrency' (pooled.pipeline.ts:61-63, 84-86).
PoolSize ==
    class = "pooled" =>
        /\ phase = "running" /\ work # <<>> /\ late = {} => Cardinality(running) = Concurrency
        /\ ~timeout => Cardinality(executing) <= Concurrency

\* The two ways a unit of a pool comes to be reported a second time: its timer fires
\* and the unit, which nothing stops, has a result later (pooled.pipeline.ts:98-112),
\* or it fails and its timer, which nothing clears, fires later (112-117).
Doubled(first, second) ==
    \/ first = "timeout" /\ second # "timeout"
    \/ first = "error" /\ second = "timeout"

\* Apart from these two a unit is reported once: no result is followed by a timeout
\* of its unit, no timeout comes twice, and nothing is reported three times.
ReportedOnce ==
    \A i, j \in 1..Len(results) :
        i < j /\ results[i].unit = results[j].unit => Doubled(results[i].result, results[j].result)

Numbers(n) == [i \in 1..n |-> i]

\* Units are started first in first out, or last in first out with `filo', each
\* one once, whatever order they finish in and whatever is added meanwhile
\* (pooled.pipeline.ts:75-78, waterfall.pipeline.ts:19).
StartOrder ==
    phase # "open" =>
        IF filo THEN late \cup ignored = {} => IsPrefix(started, Reverse(Numbers(added)))
        ELSE IsPrefix(started, Numbers(added))

\* Every unit is run in its turn, by a full pool, and reported: once, unless it is in
\* a pool with a timeout and is one of those that are reported twice (Doubled).
UnitsInTurn == NoUnitForgotten /\ PoolSize /\ ReportedOnce /\ StartOrder

\* A pool never executes more units than `concurrency': "in a pool with a max
\* concurrency" (pooled.pipeline.ts:43-44). The code gives the place of a unit that
\* timed out to the next one and does not stop it (98-102), so a pool with a timeout
\* executes more.
MaxConcurrency == class = "pooled" => Cardinality(executing) <= Concurrency

\* The promise of run() is settled.
Resolves == phase = "running" ~> phase # "running"

\* An aggregated pipeline, and a pool without a timeout, is an AggregateRun: one
\* outcome per unit, and the answer at the last of them.
Gathers == class = "aggregated" \/ (class = "pooled" /\ ~timeout)

Outcome(u) ==
    IF EntriesOf(u, results) = {} THEN "none"
    ELSE IF \E i \in EntriesOf(u, results) : results[i].result = "error" THEN "error"
    ELSE "value"

Aggregate == INSTANCE AggregateRun WITH
    state <- IF phase = "resolved" THEN "answered" ELSE phase,
    members <- (1..added) \ ignored,
    outcome <- [u \in Units |-> Outcome(u)],
    entries <- Len(response)

Aggregates == (Gathers => Aggregate!Init) /\ [][Gathers => Aggregate!Next]_(Aggregate!vars)
=============================================================================
