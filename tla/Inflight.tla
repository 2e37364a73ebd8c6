------------------------------ MODULE Inflight ------------------------------
(***************************************************************************)
(* The manager of pending requests of @jil/inflight                        *)
(* (src/packages/inflight/src/index.ts), with the peer that answers.       *)
(*                                                                         *)
(* A program acquires an id and a promise, sends the id with a request of  *)
(* its own transport, and calls resolve() or reject() with the id that     *)
(* comes back: perhaps late, perhaps twice, perhaps never.  start() checks *)
(* every `interval' seconds for requests that are too old.                 *)
(* Requests are numbered in the order of acquire().  Time is in seconds.   *)
(***************************************************************************)
EXTENDS Integers, FiniteSets

CONSTANTS
    MaxRequests,  \* bound: number of calls of acquire()
    MaxId,        \* the id generator counts from 1 and starts again at MaxId
    Timeouts,     \* options.timeout and the timeouts acquire() may be given
    Interval,     \* options.interval
    MaxTime       \* bound: how long the clock runs

ASSUME InflightAssumption ==
    /\ MaxRequests \in Nat /\ MaxTime \in Nat
    /\ MaxId \in Nat /\ MaxId > 1
    /\ Interval \in Nat \ {0}
    /\ Timeouts \subseteq Nat

Ids == 1..(MaxId - 1)
Requests == 1..MaxRequests
NoRequest == 0

VARIABLES
    now,
    current,     \* the generator's counter
    count,       \* number of requests acquired
    pendings,    \* pendings: the request that holds each id, or NoRequest
    acquired,    \* timestamp of each request
    limit,       \* timeout of each request
    outcome,     \* how the promise of each request was settled
    timer,       \* when the interval timer is due, or -1
    sent,        \* messages: pairs <<id, request>> the peer may answer to
    forgotten,   \* history: requests dropped by clear()
    checkedSince \* history: since when the interval timer has been running, or -1

vars == <<now, current, count, pendings, acquired, limit, outcome, timer, sent, forgotten, checkedSince>>

Stopped == -1

Init ==
    /\ now = 0
    /\ current = 0
    /\ count = 0
    /\ pendings = [id \in Ids |-> NoRequest]
    /\ acquired = [r \in Requests |-> 0]
    /\ limit = [r \in Requests |-> 0]
    /\ outcome = [r \in Requests |-> <<"none">>]
    /\ timer = Stopped
    /\ sent = {}
    /\ forgotten = {}
    /\ checkedSince = Stopped

Pending == {id \in Ids : pendings[id] # NoRequest}

-----------------------------------------------------------------------------
(* Broken variants, each the way a bug would be written.                   *)

\* A check removes what is too old without rejecting it.
SettleSilently(ids, how) ==
    /\ outcome' = IF how = <<"timeout">> THEN outcome
                  ELSE [r \in Requests |->
                          IF \E id \in ids : pendings[id] = r THEN how ELSE outcome[r]]
    /\ pendings' = [id \in Ids |-> IF id \in ids THEN NoRequest ELSE pendings[id]]

\* The generator starts again too soon.
NextIdShort == IF current + 1 >= MaxId - 1 THEN 1 ELSE current + 1

-----------------------------------------------------------------------------
(* The operations.                                                         *)

\* A request that has waited longer than its timeout.
Expired == {id \in Pending : now - acquired[pendings[id]] > limit[pendings[id]]}

\* makeNumberGenerator
NextId == IF current + 1 = MaxId THEN 1 ELSE current + 1

\* The promises of the requests that hold these ids are settled and the ids
\* become free.
Settle(ids, how) ==
    /\ outcome' = [r \in Requests |->
                      IF \E id \in ids : pendings[id] = r THEN how ELSE outcome[r]]
    /\ pendings' = [id \in Ids |-> IF id \in ids THEN NoRequest ELSE pendings[id]]

\* acquire() and the program's own send.  The assertion on a collision throws
\* after the generator has moved on.
Acquire ==
    /\ count < MaxRequests
    /\ current' = NextId
    /\ IF NextId \in Pending
       THEN UNCHANGED <<count, pendings, acquired, limit, sent>>
       ELSE /\ count' = count + 1
            /\ pendings' = [pendings EXCEPT ![NextId] = count']
            /\ acquired' = [acquired EXCEPT ![count'] = now]
            /\ \E timeout \in Timeouts : limit' = [limit EXCEPT ![count'] = timeout]
            /\ sent' = sent \cup {<<NextId, count'>>}
    /\ UNCHANGED <<now, outcome, timer, forgotten, checkedSince>>

\* An answer arrives: resolve(id, answer).  The message stays, so that it may
\* be late or come twice; without a pending request nothing happens.
Resolve ==
    /\ \E m \in sent : m[1] \in Pending /\ Settle({m[1]}, <<"answer", m[2]>>)
    /\ UNCHANGED <<now, current, count, acquired, limit, timer, sent, forgotten, checkedSince>>

\* The same for reject(id, reason).
Reject ==
    /\ \E m \in sent : m[1] \in Pending /\ Settle({m[1]}, <<"reason", m[2]>>)
    /\ UNCHANGED <<now, current, count, acquired, limit, timer, sent, forgotten, checkedSince>>

\* rejectAll(reason)
RejectAll ==
    /\ Pending # {}
    /\ Settle(Pending, <<"rejected">>)
    /\ UNCHANGED <<now, current, count, acquired, limit, timer, sent, forgotten, checkedSince>>

\* clear() settles no promise.
ClearPendings ==
    /\ Pending # {}
    /\ forgotten' = forgotten \cup {pendings[id] : id \in Pending}
    /\ pendings' = [id \in Ids |-> NoRequest]
    /\ UNCHANGED <<now, current, count, acquired, limit, outcome, timer, sent, checkedSince>>

\* The interval timer fires: check().
Check ==
    /\ timer = now
    /\ Settle(Expired, <<"timeout">>)
    /\ timer' = now + Interval
    /\ UNCHANGED <<now, current, count, acquired, limit, sent, forgotten, checkedSince>>

\* start(); it refuses to start twice.
Start ==
    /\ timer = Stopped
    /\ timer' = now + Interval
    /\ checkedSince' = now
    /\ UNCHANGED <<now, current, count, pendings, acquired, limit, outcome, sent, forgotten>>

\* stop()
Stop ==
    /\ timer # Stopped
    /\ timer' = Stopped
    /\ checkedSince' = Stopped
    /\ UNCHANGED <<now, current, count, pendings, acquired, limit, outcome, sent, forgotten>>

\* The clock; a due interval timer goes first.
Tick ==
    /\ now < MaxTime
    /\ timer # now
    /\ now' = now + 1
    /\ UNCHANGED <<current, count, pendings, acquired, limit, outcome, timer, sent, forgotten, checkedSince>>

Next ==
    \/ Acquire \/ Resolve \/ Reject \/ RejectAll \/ ClearPendings
    \/ Check \/ Start \/ Stop \/ Tick

Spec == Init /\ [][Next]_vars

-----------------------------------------------------------------------------
(* Properties.                                                             *)

Acquired == 1..count

TypeOK ==
    /\ now \in Nat
    /\ current \in 0..(MaxId - 1)
    /\ count \in 0..MaxRequests
    /\ pendings \in [Ids -> Requests \cup {NoRequest}]
    /\ acquired \in [Requests -> Nat]
    /\ limit \in [Requests -> Nat]
    /\ outcome \in [Requests -> {<<"none">>, <<"rejected">>, <<"timeout">>}
                                   \cup ({"answer", "reason"} \X Requests)]
    /\ timer \in Nat \cup {Stopped}
    /\ sent \subseteq Ids \X Requests
    /\ forgotten \subseteq Requests
    /\ checkedSince \in Nat \cup {Stopped}

\* No promise is lost and none is settled while it is pending: a request waits
\* under exactly one id until it is settled or dropped by clear(), also when the
\* generator starts again while old ids are pending (index.ts:45-93).
UnderOneId ==
    \A r \in Acquired :
        Cardinality({id \in Ids : pendings[id] = r}) =
            IF outcome[r] = <<"none">> /\ r \notin forgotten THEN 1 ELSE 0

\* A request is only ever settled with an answer to itself, even when answers
\* come late or twice, as long as the generator has not started again
\* (index.ts:46, 115-121).
OwnAnswer ==
    \A r \in Acquired :
        outcome[r][1] \in {"answer", "reason"} /\ r < MaxId => outcome[r][2] = r

\* While the timer runs no request waits longer than its timeout and one
\* interval after it (index.ts:85-101).
Timely ==
    checkedSince # Stopped =>
        \A id \in Pending :
            now - acquired[pendings[id]] <= limit[pendings[id]] + Interval
            \/ now - checkedSince <= Interval

\* Every request is settled or will be: no promise is left behind.
NoOrphan == TypeOK /\ UnderOneId /\ Timely
=============================================================================
