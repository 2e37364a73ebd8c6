------------------------------ MODULE Retimer ------------------------------
(***************************************************************************)
(* The timer of @jil/retimer (src/packages/retimer/src/retimer.ts), which  *)
(* can be moved cheaply: a later deadline is only written down, and the    *)
(* timer that is already pending sets itself again when it fires.          *)
(*                                                                         *)
(* Time is counted in milliseconds.  A setTimeout fires at its deadline or *)
(* up to Lateness after it; a delay below 1 counts as 1 (Node).            *)
(***************************************************************************)
EXTENDS Integers

CONSTANTS
    MaxDelay,   \* bound: delays the program passes
    LastTime,   \* bound: how long the clock runs
    Lateness    \* how late the event loop may run a timer

ASSUME RetimerAssumption ==
    /\ MaxDelay \in Nat \ {0}
    /\ LastTime \in Nat
    /\ Lateness \in Nat

NoTimer == -1

VARIABLES
    clock,
    started,      \* _started
    scheduled,    \* _scheduled
    rescheduled,  \* _rescheduled
    triggered,    \* _triggered
    alarm,        \* deadline of the pending setTimeout, or NoTimer
    cleared,      \* history: clear() was called and nothing set a timer since
    due           \* history: when the program last asked for the runner to run

retimerVars == <<clock, started, scheduled, rescheduled, triggered, alarm, cleared, due>>

Delays == 1..MaxDelay

\* setTimeout(f, delay)
Deadline(delay) == clock + (IF delay < 1 THEN 1 ELSE delay)

\* The constructor.
RetimerInit ==
    /\ clock = 0
    /\ started = 0
    /\ scheduled \in Delays
    /\ rescheduled = 0
    /\ triggered = FALSE
    /\ alarm = scheduled
    /\ cleared = FALSE
    /\ due = scheduled

-----------------------------------------------------------------------------
(* Broken variants, each the way a bug would be written.                   *)

\* A deadline that comes earlier is only written down too.
RescheduleLazily(timeout) ==
    /\ due' = clock + timeout
    /\ started' = clock
    /\ rescheduled' = timeout
    /\ UNCHANGED <<clock, scheduled, triggered, alarm, cleared>>

\* The timer that fires does not look for a new deadline.
TriggerAlways ==
    /\ alarm # NoTimer /\ clock >= alarm
    /\ triggered' = TRUE
    /\ alarm' = NoTimer
    /\ UNCHANGED <<clock, started, scheduled, rescheduled, cleared, due>>

\* clear() leaves the pending timer alone.
ClearFlagOnly ==
    /\ cleared' = TRUE
    /\ UNCHANGED <<clock, started, scheduled, rescheduled, triggered, alarm, due>>

-----------------------------------------------------------------------------
(* The operations.                                                         *)

\* schedule(timeout)
Schedule(timeout) ==
    /\ triggered' = FALSE
    /\ started' = clock
    /\ rescheduled' = 0
    /\ scheduled' = timeout
    /\ alarm' = Deadline(timeout)
    /\ cleared' = FALSE

\* reschedule(timeout), after the default for a missing timeout
RescheduleTo(timeout) ==
    /\ due' = clock + timeout
    /\ IF clock + timeout - (started + scheduled) < 0 \/ triggered
       THEN Schedule(timeout)
       ELSE /\ started' = clock
            /\ rescheduled' = timeout
            /\ UNCHANGED <<scheduled, triggered, alarm, cleared>>
    /\ UNCHANGED clock

\* reschedule(timeout)
Reschedule == \E timeout \in Delays : RescheduleTo(timeout)

\* reschedule(): the last delay that was set, which may be what was left of one
RescheduleSame == RescheduleTo(scheduled)

\* The pending timer fires and finds a later deadline: it sets itself again.
Rearm ==
    /\ alarm # NoTimer /\ clock >= alarm
    /\ rescheduled > 0
    /\ Schedule(rescheduled - (clock - started))
    /\ UNCHANGED <<clock, due>>

\* The pending timer fires and runs the runner.
Trigger ==
    /\ alarm # NoTimer /\ clock >= alarm
    /\ rescheduled <= 0
    /\ triggered' = TRUE
    /\ alarm' = NoTimer
    /\ UNCHANGED <<clock, started, scheduled, rescheduled, cleared, due>>

\* clear()
Clear ==
    /\ alarm' = NoTimer
    /\ cleared' = TRUE
    /\ UNCHANGED <<clock, started, scheduled, rescheduled, triggered, due>>

\* The clock, held back by a timer that is as late as it may be.
ClockTick ==
    /\ clock < LastTime
    /\ alarm # NoTimer => clock < alarm + Lateness
    /\ clock' = clock + 1
    /\ UNCHANGED <<started, scheduled, rescheduled, triggered, alarm, cleared, due>>

RetimerNext == Reschedule \/ RescheduleSame \/ Rearm \/ Trigger \/ Clear \/ ClockTick

RetimerSpec == RetimerInit /\ [][RetimerNext]_retimerVars

-----------------------------------------------------------------------------
(* Properties.                                                             *)

RetimerTypeOK ==
    /\ clock \in Nat
    /\ started \in Nat
    /\ scheduled \in Int
    /\ rescheduled \in Int
    /\ triggered \in BOOLEAN
    /\ alarm \in Nat \cup {NoTimer}
    /\ cleared \in BOOLEAN
    /\ due \in Int

\* The runner never runs before the deadline the program asked for last,
\* however often it was moved (retimer.ts:23-31, 41-49).
NeverEarly == [][~triggered /\ triggered' => clock >= due]_retimerVars

\* A timer that was not cleared runs the runner in time: the deadline passes by
\* no more than the lateness of the timer that finds the new deadline, that of
\* the timer it sets, and the millisecond a delay below 1 costs
\* (retimer.ts:41-49: a pending timer that is later than the new
\* deadline is always replaced).
NeverLate == ~cleared /\ ~triggered => clock <= due + 2 * Lateness + 1

\* After clear() the runner does not run until something sets the timer again.
ClearedStaysSilent == [][cleared /\ ~triggered => ~triggered']_retimerVars
=============================================================================
