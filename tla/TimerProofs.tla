---------------------------- MODULE TimerProofs ----------------------------
(***************************************************************************)
(* What the two packages that are built on timers guarantee: the retimer   *)
(* for any delays and any lateness of the event loop, the pending requests *)
(* of Inflight for any number of requests, any ids, timeouts and interval. *)
(*                                                                         *)
(* The argument for the retimer relates the pending timer to the deadline  *)
(* asked for: a timer that will look for a new deadline is never later     *)
(* than it (Rearms below), a timer that will run the runner is not before  *)
(* it (Runs), and what is left of a delay is never below -Lateness         *)
(* (Remainder), so one more timer is enough.                               *)
(*                                                                         *)
(* The argument for Inflight: the ids and the requests that wait are in    *)
(* bijection (Holds, Single), so no promise is lost or settled twice.  An  *)
(* id is held by the last request that was sent under it (Latest), and     *)
(* until the generator starts again its counter is the number of requests  *)
(* (Fresh), so that an early request is sent under its own number          *)
(* (SentAs): an answer is never given to another of them.  The last check  *)
(* lies one interval before the timer (Clock) and has left no request      *)
(* behind that was too old (Checked).                                      *)
(***************************************************************************)
EXTENDS Retimer, Inflight, FiniteSetTheorems, TLAPS

-----------------------------------------------------------------------------
(* The retimer.                                                            *)

Alarmed == alarm # NoTimer

\* A timer is pending unless it was cleared or has run the runner.
Armed == Alarmed <=> ~cleared /\ ~triggered

Punctual == Alarmed => clock <= alarm + Lateness

\* The pending timer against the delay it was set for.
SetFor ==
    Alarmed =>
        /\ scheduled >= 1 => alarm <= started + scheduled
        /\ scheduled < 1 => alarm <= started + 1

Remainder == scheduled >= 0 - Lateness

Rearms == Alarmed /\ rescheduled > 0 => due = started + rescheduled /\ alarm <= due

Runs == Alarmed /\ rescheduled <= 0 => due <= alarm \/ due <= clock

Bounded == Alarmed => alarm <= due + Lateness + 1

RetimerIInv ==
    /\ RetimerTypeOK
    /\ started <= clock
    /\ Armed
    /\ Punctual
    /\ SetFor
    /\ Remainder
    /\ Rearms
    /\ Runs
    /\ Bounded

USE RetimerAssumption DEF NoTimer, Delays

LEMMA InitRetimer == RetimerInit => RetimerIInv
<1> SUFFICES ASSUME RetimerInit PROVE RetimerIInv
  OBVIOUS
<1>1. scheduled \in Nat /\ scheduled >= 1
  BY DEF RetimerInit
<1>2. RetimerTypeOK
  <2>1. triggered \in BOOLEAN /\ cleared \in BOOLEAN
    BY Zenon DEF RetimerInit
  <2> QED
    BY <1>1, <2>1 DEF RetimerInit, RetimerTypeOK
<1> QED
  BY <1>1, <1>2
  DEF RetimerInit, RetimerIInv, RetimerTypeOK, Alarmed, Armed, Punctual, SetFor, Remainder,
      Rearms, Runs, Bounded

\* schedule() gives every variable a value of its type.
LEMMA ScheduleType ==
    ASSUME RetimerTypeOK, NEW timeout \in Int, Schedule(timeout)
    PROVE  /\ started' \in Nat /\ scheduled' \in Int /\ rescheduled' \in Int
           /\ triggered' \in BOOLEAN /\ cleared' \in BOOLEAN
           /\ alarm' \in Nat
<1>1. Deadline(timeout) \in Nat
  BY DEF RetimerTypeOK, Deadline
<1>2. triggered' \in BOOLEAN /\ cleared' \in BOOLEAN
  BY Zenon DEF Schedule
<1>3. started' \in Nat /\ scheduled' \in Int /\ rescheduled' \in Int /\ alarm' \in Nat
  BY <1>1 DEF RetimerTypeOK, Schedule
<1> QED
  BY <1>2, <1>3

\* A reschedule sets a timer of its own or writes down a deadline that is not
\* before the pending timer.
LEMMA RescheduleIInv ==
    ASSUME RetimerIInv, NEW timeout \in Int, timeout \in Delays \/ timeout = scheduled,
           RescheduleTo(timeout)
    PROVE  RetimerIInv'
<1>1. RetimerTypeOK /\ timeout >= 0 - Lateness
  BY DEF RetimerIInv, Remainder, RetimerTypeOK
<1>2. CASE clock + timeout - (started + scheduled) < 0 \/ triggered
  <2>1. Schedule(timeout) /\ due' = clock + timeout /\ clock' = clock
    BY <1>2 DEF RescheduleTo
  <2>2. RetimerTypeOK'
    BY <1>1, <2>1, ScheduleType DEF RetimerTypeOK
  <2> QED
    BY <1>1, <2>1, <2>2
    DEF RetimerIInv, RetimerTypeOK, Schedule, Deadline, Alarmed, Armed, Punctual, SetFor,
        Remainder, Rearms, Runs, Bounded
<1>3. CASE ~(clock + timeout - (started + scheduled) < 0 \/ triggered)
  <2>1. /\ started' = clock /\ rescheduled' = timeout /\ due' = clock + timeout
        /\ UNCHANGED <<clock, scheduled, triggered, alarm, cleared>>
    BY <1>3 DEF RescheduleTo
  <2>2. RetimerTypeOK'
    BY <1>1, <2>1 DEF RetimerTypeOK
  <2> QED
    BY <1>1, <1>3, <2>1, <2>2
    DEF RetimerIInv, RetimerTypeOK, Alarmed, Armed, Punctual, SetFor, Remainder, Rearms, Runs,
        Bounded
<1> QED
  BY <1>2, <1>3

LEMMA RearmIInv == RetimerIInv /\ Rearm => RetimerIInv'
<1> SUFFICES ASSUME RetimerIInv, Rearm PROVE RetimerIInv'
  OBVIOUS
<1>1. RetimerTypeOK'
  <2>1. RetimerTypeOK /\ rescheduled - (clock - started) \in Int
    BY DEF RetimerIInv, RetimerTypeOK
  <2> QED
    BY <2>1, ScheduleType DEF RetimerTypeOK, Rearm
<1> QED
  BY <1>1
  DEF RetimerIInv, RetimerTypeOK, Rearm, Schedule, Deadline, Alarmed, Armed, Punctual, SetFor,
      Remainder, Rearms, Runs, Bounded

LEMMA NextRetimer == RetimerIInv /\ [RetimerNext]_retimerVars => RetimerIInv'
<1> SUFFICES ASSUME RetimerIInv, [RetimerNext]_retimerVars PROVE RetimerIInv'
  OBVIOUS
<1>1. CASE Reschedule
  BY <1>1, RescheduleIInv DEF Reschedule
<1>2. CASE RescheduleSame
  BY <1>2, RescheduleIInv DEF RescheduleSame, RetimerIInv, RetimerTypeOK
<1>3. CASE Rearm
  BY <1>3, RearmIInv
<1>4. CASE Trigger
  BY <1>4
  DEF RetimerIInv, RetimerTypeOK, Trigger, Alarmed, Armed, Punctual, SetFor, Remainder, Rearms,
      Runs, Bounded
<1>5. CASE Clear
  BY <1>5
  DEF RetimerIInv, RetimerTypeOK, Clear, Alarmed, Armed, Punctual, SetFor, Remainder, Rearms,
      Runs, Bounded
<1>6. CASE ClockTick
  BY <1>6
  DEF RetimerIInv, RetimerTypeOK, ClockTick, Alarmed, Armed, Punctual, SetFor, Remainder,
      Rearms, Runs, Bounded
<1>7. CASE UNCHANGED retimerVars
  BY <1>7
  DEF retimerVars, RetimerIInv, RetimerTypeOK, Alarmed, Armed, Punctual, SetFor, Remainder,
      Rearms, Runs, Bounded
<1> QED
  BY <1>1, <1>2, <1>3, <1>4, <1>5, <1>6, <1>7 DEF RetimerNext

LEMMA RetimerInvariance == RetimerSpec => []RetimerIInv
BY InitRetimer, NextRetimer, PTL DEF RetimerSpec

-----------------------------------------------------------------------------

\* For any delays and any lateness, a timer that was not cleared runs its
\* runner within a bounded time after its deadline (retimer.ts:36-50).
THEOREM InTime == RetimerSpec => []NeverLate
<1>1. RetimerIInv => NeverLate
  BY DEF RetimerIInv, RetimerTypeOK, NeverLate, Armed, Punctual, Bounded, Alarmed
<1> QED
  BY <1>1, RetimerInvariance, PTL

\* For any delays and any lateness, the runner never runs before the deadline
\* that was asked for last (retimer.ts:23-31).
THEOREM NeverBefore == RetimerSpec => NeverEarly
<1>1. RetimerIInv /\ [RetimerNext]_retimerVars => [~triggered /\ triggered' => clock >= due]_retimerVars
  <2> SUFFICES ASSUME RetimerIInv, [RetimerNext]_retimerVars, ~triggered, triggered'
               PROVE  clock >= due
    OBVIOUS
  <2>1. Trigger
    BY DEF RetimerNext, retimerVars, RetimerIInv, RetimerTypeOK, Reschedule, RescheduleSame,
        RescheduleTo, Schedule, Rearm, Clear, ClockTick
  <2> QED
    BY <2>1 DEF Trigger, RetimerIInv, RetimerTypeOK, Runs, Alarmed
<1> QED
  BY <1>1, RetimerInvariance, PTL DEF RetimerSpec, NeverEarly

\* A timer that was cleared stays silent until something sets it again.
THEOREM Silent == RetimerSpec => ClearedStaysSilent
<1>1. RetimerIInv /\ [RetimerNext]_retimerVars => [cleared /\ ~triggered => ~triggered']_retimerVars
  <2> SUFFICES ASSUME RetimerIInv, [RetimerNext]_retimerVars, cleared, ~triggered
               PROVE  ~triggered'
    OBVIOUS
  <2> QED
    BY DEF RetimerIInv, RetimerTypeOK, Armed, Alarmed, RetimerNext, retimerVars, Reschedule,
        RescheduleSame, RescheduleTo, Schedule,
           Rearm, Trigger, Clear, ClockTick
<1> QED
  BY <1>1, RetimerInvariance, PTL DEF RetimerSpec, ClearedStaysSilent

-----------------------------------------------------------------------------
(* The requests of Inflight.                                               *)

\* A request waits under some id as long as it is neither settled nor forgotten.
Holds ==
    \A r \in Requests :
        (\E id \in Ids : pendings[id] = r) <=>
            r <= count /\ outcome[r] = <<"none">> /\ r \notin forgotten

\* No request waits under two ids.
Single == \A i, j \in Ids : pendings[i] = pendings[j] /\ pendings[i] # NoRequest => i = j

\* Nothing is known of a request before it is acquired.
Unborn == \A r \in Requests : r > count => outcome[r] = <<"none">> /\ r \notin forgotten

\* The generator has started again, or has counted the requests.
Fresh ==
    \/ count >= MaxId - 1
    \/ current = count /\ \A id \in Ids : id > current => pendings[id] = NoRequest

\* A request the generator had a new id for is sent under its own number.
SentAs == \A m \in sent : m[2] <= count /\ (m[2] < MaxId => m[1] = m[2])

HeldAs == \A id \in Ids : pendings[id] # NoRequest => <<id, pendings[id]>> \in sent

\* An id is held by the last request it was given to.
Latest == \A m \in sent : pendings[m[1]] # NoRequest => m[2] <= pendings[m[1]]

\* The time of the last check, or of start().
LastCheck == timer - Interval

Clock ==
    /\ timer = Stopped <=> checkedSince = Stopped
    /\ timer # Stopped =>
          /\ now <= timer /\ timer <= now + Interval
          /\ checkedSince <= LastCheck

Checked ==
    timer # Stopped =>
        \A id \in Pending :
            LastCheck - acquired[pendings[id]] <= limit[pendings[id]] \/ LastCheck = checkedSince

IInv ==
    /\ TypeOK
    /\ Holds /\ Single /\ Unborn
    /\ Fresh /\ SentAs /\ HeldAs /\ Latest
    /\ OwnAnswer
    /\ Clock /\ Checked

USE InflightAssumption DEF Ids, Requests, NoRequest, Stopped

LEMMA InitIInv == Init => IInv
<1> SUFFICES ASSUME Init PROVE IInv
  OBVIOUS
<1>1. TypeOK
  BY DEF Init, TypeOK
<1>2. Holds /\ Single /\ Unborn
  BY DEF Init, Holds, Single, Unborn
<1>3. Fresh /\ SentAs /\ HeldAs /\ Latest
  BY DEF Init, Fresh, SentAs, HeldAs, Latest
<1>4. OwnAnswer /\ Clock /\ Checked
  BY DEF Init, OwnAnswer, Acquired, Clock, Checked
<1> QED
  BY <1>1, <1>2, <1>3, <1>4 DEF IInv

-----------------------------------------------------------------------------
(* acquire().                                                              *)

\* The generator stays among the ids.
LEMMA NextIdType == TypeOK => NextId \in Ids
BY DEF TypeOK, NextId

LEMMA AcquireIInv == IInv /\ Acquire => IInv'
<1> SUFFICES ASSUME IInv, Acquire PROVE IInv'
  OBVIOUS
<1> USE DEF IInv
<1>1. NextId \in Ids
  BY NextIdType
<1>2. CASE NextId \in Pending
  <2>1. /\ current' = NextId
        /\ UNCHANGED <<now, count, pendings, acquired, limit, outcome, timer, sent, forgotten, checkedSince>>
    BY <1>2 DEF Acquire
  <2>2. count >= MaxId - 1
    BY <1>2 DEF Pending, Fresh, NextId, TypeOK
  <2>3. TypeOK' /\ Fresh'
    BY <1>1, <2>1, <2>2 DEF TypeOK, Fresh
  <2>4. Holds' /\ Single' /\ Unborn' /\ SentAs' /\ HeldAs' /\ Latest' /\ OwnAnswer'
    BY <2>1 DEF Holds, Single, Unborn, SentAs, HeldAs, Latest, OwnAnswer, Acquired
  <2>5. Clock' /\ Checked'
    BY <2>1 DEF Clock, LastCheck, Checked, Pending
  <2> QED
    BY <2>3, <2>4, <2>5
<1>3. CASE NextId \notin Pending
  <2> DEFINE new == count + 1
  <2>1. PICK timeout \in Timeouts : limit' = [limit EXCEPT ![new] = timeout]
    BY <1>3 DEF Acquire
  <2>2. /\ new \in Requests /\ count' = new /\ current' = NextId
        /\ pendings' = [pendings EXCEPT ![NextId] = new]
        /\ acquired' = [acquired EXCEPT ![new] = now]
        /\ sent' = sent \cup {<<NextId, new>>}
        /\ UNCHANGED <<now, outcome, timer, forgotten, checkedSince>>
    BY <1>3 DEF Acquire, TypeOK
  <2>3. pendings[NextId] = NoRequest
    BY <1>1, <1>3 DEF Pending
  <2>4. TypeOK'
    <3>1. limit' \in [Requests -> Nat] /\ acquired' \in [Requests -> Nat]
      BY <2>1, <2>2 DEF TypeOK
    <3>2. pendings' \in [Ids -> Requests \cup {NoRequest}] /\ sent' \subseteq Ids \X Requests
      BY <1>1, <2>2, SMTT(30) DEF TypeOK
    <3>3. current' \in 0..(MaxId - 1) /\ count' \in 0..MaxRequests
      BY <1>1, <2>2
    <3> QED
      BY <2>2, <3>1, <3>2, <3>3 DEF TypeOK
  <2>5. Holds' /\ Single' /\ Unborn'
    <3>1. \A id \in Ids : pendings'[id] = IF id = NextId THEN new ELSE pendings[id]
      BY <2>2 DEF TypeOK
    <3>2. \A id \in Ids : pendings[id] # new
      BY <2>2 DEF TypeOK, Holds
    <3>3. outcome[new] = <<"none">> /\ new \notin forgotten /\ count \in Nat
      BY <2>2 DEF TypeOK, Unborn
    <3>4. Holds'
      <4> SUFFICES ASSUME NEW r \in Requests
                   PROVE  (\E id \in Ids : pendings'[id] = r) <=>
                             r <= new /\ outcome[r] = <<"none">> /\ r \notin forgotten
        BY <2>2 DEF Holds
      <4>1. CASE r = new
        BY <1>1, <3>1, <3>3, <4>1
      <4>2. CASE r # new
        <5>1. (\E id \in Ids : pendings'[id] = r) <=> (\E id \in Ids : pendings[id] = r)
          BY <1>1, <2>3, <3>1, <4>2
        <5> QED
          BY <3>3, <4>2, <5>1 DEF Holds
      <4> QED
        BY <4>1, <4>2
    <3>5. Single'
      BY <3>1, <3>2 DEF Single
    <3>6. Unborn'
      BY <2>2, <3>3 DEF Unborn
    <3> QED
      BY <3>4, <3>5, <3>6
  <2>6. count < MaxId - 1 => NextId = new
    BY DEF Fresh, NextId, TypeOK
  <2>7. Fresh' /\ SentAs'
    <3>1. Fresh'
      BY <1>1, <2>2, <2>6 DEF TypeOK, Fresh
    <3>2. SentAs'
      BY <1>1, <2>2, <2>6, SMTT(30) DEF TypeOK, SentAs
    <3> QED
      BY <3>1, <3>2
  <2>8. HeldAs' /\ Latest'
    BY <1>1, <2>2, <2>3, SMTT(30) DEF TypeOK, HeldAs, Latest, SentAs
  <2>9. OwnAnswer'
    BY <2>2, SMTT(30) DEF TypeOK, OwnAnswer, Acquired, Unborn
  <2>10. Clock' /\ Checked'
    BY <1>1, <2>1, <2>2 DEF TypeOK, Clock, Checked, LastCheck, Pending, Holds
  <2> QED
    BY <2>4, <2>5, <2>7, <2>8, <2>9, <2>10
<1> QED
  BY <1>2, <1>3

-----------------------------------------------------------------------------
(* resolve(), reject(), rejectAll() and check(): they settle requests.     *)

\* Settling the requests of some ids keeps what does not depend on the clock.
LEMMA SettleIInv ==
    ASSUME IInv, NEW ids \in SUBSET Pending, NEW how,
           how \in {<<"rejected">>, <<"timeout">>} \cup ({"answer", "reason"} \X Requests),
           \A id \in ids : how[1] \in {"answer", "reason"} /\ pendings[id] < MaxId => how[2] = pendings[id],
           Settle(ids, how),
           UNCHANGED <<current, count, acquired, limit, sent, forgotten>>
    PROVE  /\ pendings' \in [Ids -> Requests \cup {NoRequest}]
           /\ outcome' \in [Requests -> {<<"none">>, <<"rejected">>, <<"timeout">>}
                                          \cup ({"answer", "reason"} \X Requests)]
           /\ Holds' /\ Single' /\ Unborn'
           /\ Fresh' /\ SentAs' /\ HeldAs' /\ Latest'
           /\ OwnAnswer'
<1> USE DEF IInv
<1>1. /\ outcome' = [r \in Requests |-> IF \E id \in ids : pendings[id] = r THEN how ELSE outcome[r]]
      /\ pendings' = [id \in Ids |-> IF id \in ids THEN NoRequest ELSE pendings[id]]
  BY DEF Settle
<1>2. how # <<"none">>
  OBVIOUS
<1>3. ids \subseteq Ids /\ \A id \in ids : pendings[id] \in Requests
  BY DEF Pending, TypeOK
<1>4. pendings' \in [Ids -> Requests \cup {NoRequest}]
  BY <1>1 DEF TypeOK
<1>5. outcome' \in [Requests -> {<<"none">>, <<"rejected">>, <<"timeout">>} \cup ({"answer", "reason"} \X Requests)]
  BY <1>1 DEF TypeOK
<1>6. Holds'
  <2> SUFFICES ASSUME NEW r \in Requests
               PROVE  (\E id \in Ids : pendings'[id] = r) <=>
                         r <= count /\ outcome'[r] = <<"none">> /\ r \notin forgotten
    BY DEF Holds
  <2>1. CASE \E id \in ids : pendings[id] = r
    BY <1>1, <1>2, <1>3, <2>1 DEF Single
  <2>2. CASE ~\E id \in ids : pendings[id] = r
    <3>1. outcome'[r] = outcome[r]
      BY <1>1, <2>2
    <3>2. (\E id \in Ids : pendings'[id] = r) <=> (\E id \in Ids : pendings[id] = r)
      BY <1>1, <2>2
    <3> QED
      BY <3>1, <3>2 DEF Holds
  <2> QED
    BY <2>1, <2>2
<1>7. Single'
  BY <1>1 DEF Single
<1>8. Unborn'
  <2>1. \A r \in Requests : r > count => ~\E id \in ids : pendings[id] = r
    BY <1>3 DEF Holds, TypeOK
  <2> QED
    BY <1>1, <2>1 DEF Unborn
<1>9. Fresh' /\ SentAs' /\ HeldAs' /\ Latest'
  BY <1>1, <1>3 DEF Fresh, SentAs, HeldAs, Latest, TypeOK
<1>10. OwnAnswer'
  <2> SUFFICES ASSUME NEW r \in 1..count, outcome'[r][1] \in {"answer", "reason"}, r < MaxId
               PROVE  outcome'[r][2] = r
    BY DEF OwnAnswer, Acquired
  <2>1. r \in Requests
    BY DEF TypeOK
  <2>2. CASE \E id \in ids : pendings[id] = r
    BY <1>1, <2>1, <2>2
  <2>3. CASE ~\E id \in ids : pendings[id] = r
    BY <1>1, <2>1, <2>3 DEF OwnAnswer, Acquired
  <2> QED
    BY <2>2, <2>3
<1> QED
  BY <1>4, <1>5, <1>6, <1>7, <1>8, <1>9, <1>10

\* A settled request is no longer checked.
LEMMA SettleChecked ==
    ASSUME IInv, NEW ids \in SUBSET Pending, NEW how, Settle(ids, how),
           UNCHANGED <<now, timer, checkedSince, acquired, limit>>
    PROVE  Clock' /\ Checked'
BY DEF IInv, TypeOK, Settle, Clock, Checked, LastCheck, Pending

\* An answer under an id that waits is for the request that holds it, if that is an
\* early one.
LEMMA AnswerIsOwn ==
    ASSUME IInv, NEW m \in sent, m[1] \in Pending, pendings[m[1]] < MaxId
    PROVE  m[2] = pendings[m[1]]
<1> DEFINE r == pendings[m[1]]
<1>1. m[1] \in Ids /\ m[2] \in Requests /\ r \in Requests
  BY DEF IInv, TypeOK, Pending
<1>2. m[2] <= r
  BY <1>1 DEF IInv, Latest
<1>3. m[1] = m[2]
  BY <1>1, <1>2 DEF IInv, SentAs
<1>4. <<m[1], r>> \in sent
  BY <1>1 DEF IInv, HeldAs
<1>5. m[1] = r
  BY <1>4 DEF IInv, SentAs
<1> QED
  BY <1>3, <1>5

LEMMA AnswerIInv ==
    ASSUME IInv, NEW m \in sent, m[1] \in Pending, NEW how \in {"answer", "reason"},
           Settle({m[1]}, <<how, m[2]>>),
           UNCHANGED <<now, current, count, acquired, limit, timer, sent, forgotten, checkedSince>>
    PROVE  IInv'
<1>1. m[2] \in Requests
  BY DEF IInv, TypeOK
<1>2. <<how, m[2]>> \in {"answer", "reason"} \X Requests
  BY <1>1
<1>3. pendings[m[1]] < MaxId => m[2] = pendings[m[1]]
  BY AnswerIsOwn
<1>4. Clock' /\ Checked'
  BY SettleChecked
<1>5. /\ pendings' \in [Ids -> Requests \cup {NoRequest}]
      /\ outcome' \in [Requests -> {<<"none">>, <<"rejected">>, <<"timeout">>}
                                     \cup ({"answer", "reason"} \X Requests)]
      /\ Holds' /\ Single' /\ Unborn' /\ Fresh' /\ SentAs' /\ HeldAs' /\ Latest' /\ OwnAnswer'
  <2> DEFINE ids == {m[1]}
             result == <<how, m[2]>>
  <2>1. ids \in SUBSET Pending /\ Settle(ids, result)
    OBVIOUS
  <2>2. result \in {<<"rejected">>, <<"timeout">>} \cup ({"answer", "reason"} \X Requests)
    BY <1>2
  <2>3. \A id \in ids : result[1] \in {"answer", "reason"} /\ pendings[id] < MaxId => result[2] = pendings[id]
    BY <1>3
  <2> HIDE DEF ids, result
  <2> QED
    BY <2>1, <2>2, <2>3, SettleIInv
<1> QED
  BY <1>4, <1>5 DEF IInv, TypeOK

LEMMA RejectAllIInv == IInv /\ RejectAll => IInv'
<1> SUFFICES ASSUME IInv, RejectAll PROVE IInv'
  OBVIOUS
<1> DEFINE how == <<"rejected">>
<1>1. Settle(Pending, how) /\ how[1] \notin {"answer", "reason"}
      /\ UNCHANGED <<now, current, count, acquired, limit, timer, sent, forgotten, checkedSince>>
  BY DEF RejectAll
<1>2. how \in {<<"rejected">>, <<"timeout">>} \cup ({"answer", "reason"} \X Requests)
  OBVIOUS
<1> HIDE DEF how
<1>3. Clock' /\ Checked'
  BY <1>1, SettleChecked
<1> QED
  BY <1>1, <1>2, <1>3, SettleIInv DEF IInv, TypeOK

LEMMA CheckIInv == IInv /\ Check => IInv'
<1> SUFFICES ASSUME IInv, Check PROVE IInv'
  OBVIOUS
<1> DEFINE how == <<"timeout">>
<1>1. /\ Settle(Expired, how) /\ how[1] \notin {"answer", "reason"}
      /\ timer = now /\ timer' = now + Interval
      /\ UNCHANGED <<now, current, count, acquired, limit, sent, forgotten, checkedSince>>
  BY DEF Check
<1>2. how \in {<<"rejected">>, <<"timeout">>} \cup ({"answer", "reason"} \X Requests)
  OBVIOUS
<1>3. Expired \in SUBSET Pending
  BY DEF Expired
<1>4. Clock'
  BY <1>1 DEF IInv, TypeOK, Clock, LastCheck
<1>5. Checked'
  <2> SUFFICES ASSUME NEW id \in Pending'
               PROVE  now - acquired[pendings'[id]] <= limit[pendings'[id]]
    BY <1>1 DEF Checked, LastCheck, IInv, TypeOK
  <2>1. id \in Pending /\ id \notin Expired /\ pendings'[id] = pendings[id]
    BY <1>1 DEF Pending, Settle
  <2> QED
    BY <2>1 DEF Expired, Pending, IInv, TypeOK
<1> HIDE DEF how
<1>6. /\ pendings' \in [Ids -> Requests \cup {NoRequest}]
      /\ outcome' \in [Requests -> {<<"none">>, <<"rejected">>, <<"timeout">>}
                                     \cup ({"answer", "reason"} \X Requests)]
      /\ Holds' /\ Single' /\ Unborn' /\ Fresh' /\ SentAs' /\ HeldAs' /\ Latest' /\ OwnAnswer'
  BY <1>1, <1>2, <1>3, SettleIInv
<1>7. now + Interval \in Nat
  BY DEF IInv, TypeOK
<1> QED
  BY <1>1, <1>4, <1>5, <1>6, <1>7 DEF IInv, TypeOK

-----------------------------------------------------------------------------
(* The other operations.                                                   *)

LEMMA ClearIInv == IInv /\ ClearPendings => IInv'
<1> SUFFICES ASSUME IInv, ClearPendings PROVE IInv'
  OBVIOUS
<1> USE DEF IInv
<1>1. /\ forgotten' = forgotten \cup {pendings[id] : id \in Pending}
      /\ pendings' = [id \in Ids |-> NoRequest]
      /\ UNCHANGED <<now, current, count, acquired, limit, outcome, timer, sent, checkedSince>>
  BY DEF ClearPendings
<1>2. TypeOK'
  BY <1>1 DEF TypeOK, Pending
<1>3. Holds' /\ Single' /\ Unborn'
  BY <1>1, SMTT(30) DEF TypeOK, Holds, Single, Unborn, Pending
<1>4. Fresh' /\ SentAs' /\ HeldAs' /\ Latest'
  BY <1>1 DEF TypeOK, Fresh, SentAs, HeldAs, Latest
<1>5. OwnAnswer' /\ Clock' /\ Checked'
  BY <1>1 DEF OwnAnswer, Acquired, Clock, LastCheck, Checked, Pending
<1> QED
  BY <1>2, <1>3, <1>4, <1>5

\* start(), stop() and the clock leave the requests as they are.
LEMMA ClockIInv == IInv /\ (Start \/ Stop \/ Tick \/ UNCHANGED vars) => IInv'
<1> SUFFICES ASSUME IInv, Start \/ Stop \/ Tick \/ UNCHANGED vars PROVE IInv'
  OBVIOUS
<1> USE DEF IInv
<1>1. UNCHANGED <<current, count, pendings, acquired, limit, outcome, sent, forgotten>>
  BY DEF Start, Stop, Tick, vars
<1>2. TypeOK'
  <2>1. now + Interval \in Nat /\ now + 1 \in Nat
    BY DEF TypeOK
  <2>2. now' \in Nat /\ timer' \in Nat \cup {Stopped} /\ checkedSince' \in Nat \cup {Stopped}
    BY <2>1 DEF TypeOK, Start, Stop, Tick, vars
  <2> QED
    BY <1>1, <2>2 DEF TypeOK
<1>3. Holds' /\ Single' /\ Unborn' /\ Fresh' /\ SentAs' /\ HeldAs' /\ Latest' /\ OwnAnswer'
  BY <1>1 DEF Holds, Single, Unborn, Fresh, SentAs, HeldAs, Latest, OwnAnswer, Acquired
<1>4. Clock'
  BY SMTT(30) DEF Clock, LastCheck, TypeOK, Start, Stop, Tick, vars
<1>5. Checked'
  <2>1. Pending' = Pending
    BY <1>1 DEF Pending
  <2>2. CASE Start
    BY <1>1, <2>1, <2>2 DEF Start, Checked, LastCheck, TypeOK
  <2>3. CASE Stop
    BY <2>3 DEF Stop, Checked
  <2>4. CASE Tick \/ UNCHANGED vars
    BY <1>1, <2>1, <2>4 DEF Tick, vars, Checked, LastCheck
  <2> QED
    BY <2>2, <2>3, <2>4
<1> QED
  BY <1>2, <1>3, <1>4, <1>5

LEMMA NextIInv == IInv /\ [Next]_vars => IInv'
<1> SUFFICES ASSUME IInv, [Next]_vars PROVE IInv'
  OBVIOUS
<1>1. CASE Acquire
  BY <1>1, AcquireIInv
<1>2. CASE Resolve
  BY <1>2, AnswerIInv DEF Resolve
<1>3. CASE Reject
  BY <1>3, AnswerIInv DEF Reject
<1>4. CASE RejectAll
  BY <1>4, RejectAllIInv
<1>5. CASE ClearPendings
  BY <1>5, ClearIInv
<1>6. CASE Check
  BY <1>6, CheckIInv
<1>7. CASE Start \/ Stop \/ Tick \/ UNCHANGED vars
  BY <1>7, ClockIInv
<1> QED
  BY <1>1, <1>2, <1>3, <1>4, <1>5, <1>6, <1>7 DEF Next

\* The inductive invariant holds in every reachable state.
THEOREM Invariance == Spec => []IInv
BY InitIInv, NextIInv, PTL DEF Spec

-----------------------------------------------------------------------------
(* The theorems.                                                           *)

\* For any number of requests and ids, a request waits under one id until it is
\* settled or dropped by clear(), and under none afterwards; and while the timer
\* runs none waits longer than its timeout and one interval (index.ts:45-101).
THEOREM NotOrphaned == Spec => []NoOrphan
<1>1. IInv => UnderOneId
  <2> SUFFICES ASSUME IInv, NEW r \in Acquired
               PROVE  Cardinality({id \in Ids : pendings[id] = r}) =
                         IF outcome[r] = <<"none">> /\ r \notin forgotten THEN 1 ELSE 0
    BY DEF UnderOneId
  <2> DEFINE held == {id \in Ids : pendings[id] = r}
  <2>1. r \in Requests /\ r <= count /\ r # NoRequest
    BY DEF IInv, TypeOK, Acquired
  <2>2. held # {} <=> outcome[r] = <<"none">> /\ r \notin forgotten
    BY <2>1 DEF IInv, Holds
  <2>3. ASSUME NEW i \in held PROVE held = {i}
    BY <2>1, <2>3 DEF IInv, Single
  <2> HIDE DEF held
  <2>4. held = {} => Cardinality(held) = 0
    BY FS_EmptySet
  <2>5. held # {} => Cardinality(held) = 1
    BY <2>3, FS_Singleton
  <2>6. Cardinality(held) = IF outcome[r] = <<"none">> /\ r \notin forgotten THEN 1 ELSE 0
    BY <2>2, <2>4, <2>5
  <2> QED
    BY <2>6 DEF held
<1>2. IInv => Timely
  <2> SUFFICES ASSUME IInv, checkedSince # Stopped, NEW id \in Pending
               PROVE  \/ now - acquired[pendings[id]] <= limit[pendings[id]] + Interval
                      \/ now - checkedSince <= Interval
    BY DEF Timely
  <2>1. pendings[id] \in Requests /\ acquired[pendings[id]] \in Nat /\ limit[pendings[id]] \in Nat
    BY DEF IInv, TypeOK, Pending
  <2>2. timer # Stopped /\ timer \in Nat /\ now \in Nat /\ now <= timer
    BY DEF IInv, TypeOK, Clock
  <2>3. LastCheck - acquired[pendings[id]] <= limit[pendings[id]] \/ LastCheck = checkedSince
    BY <2>2 DEF IInv, Checked
  <2> QED
    BY <2>1, <2>2, <2>3 DEF LastCheck
<1> QED
  BY <1>1, <1>2, Invariance, PTL DEF NoOrphan, IInv

\* For any number of ids, a request that was sent before the generator started
\* again is settled with an answer to itself, if with any, however late the
\* answers to it and to other requests come (index.ts:46, 115-121).
THEOREM Answered == Spec => []OwnAnswer
BY Invariance, PTL DEF IInv
=============================================================================
