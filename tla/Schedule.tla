------------------------------- MODULE Schedule -------------------------------
(***************************************************************************)
(* When an action runs again (agent/internal/store/store.go, action.go and *)
(* scheduler/scheduler.go), on a device whose clock may be set.            *)
(*                                                                         *)
(* The scheduler lists the due actions, reads the clock as it comes to     *)
(* each, and begins the run in a transaction that reads the clock again.   *)
(* Time passes and the clock is set between these steps.  AgentStore has   *)
(* the rows with their runs and results; here there is one action that     *)
(* stays assigned, and times are numbers of some unit.                     *)
(***************************************************************************)
EXTENDS Integers

CONSTANTS
    defaultInterval,  \* the interval of a schedule that has none
    Hours,            \* interval_hours of the schedules, 0 for none
    MaxTime,          \* bound: time that passes
    MaxClock          \* bound: what the clock may show

VARIABLES
    time,     \* the time that has really passed
    clock,    \* what the clock shows
    work,     \* the action's row of scheduled_work
    listed,   \* the scheduler has the action on its list of due ones
    started,  \* its reading of the clock before the run, or nothing
    begun     \* history: the readings of the last run since the last change

vars == <<time, clock, work, listed, started, begun>>

\* A reading of the clock, and whether the clock was not set since.
Reading(c, t) == [clock |-> c, time |-> t, steady |-> TRUE]

Unsteady(readings) == {[r EXCEPT !.steady = FALSE] : r \in readings}

interval(hours) == IF hours > 0 THEN hours ELSE defaultInterval

\* Mutant: no ceiling.
clampNothing(computed, now, i) == computed

clampInterval(computed, now, i) == IF computed > now + i THEN now + i ELSE computed

\* lastExecuted is a set of at most one time.
calculateNextExecuteFromSchedule(hours, lastExecuted, now) ==
    IF lastExecuted = {} THEN now
    ELSE LET last == CHOOSE t \in lastExecuted : TRUE
         IN  clampInterval(last + interval(hours), now, interval(hours))

\* The action has just been received.
Init ==
    /\ time = 0 /\ clock \in 0 .. MaxClock
    /\ \E hours \in Hours :
          work = [hours |-> hours, running |-> FALSE,
                  next_execute_at |-> calculateNextExecuteFromSchedule(hours, {}, clock)]
    /\ listed = FALSE /\ started = {} /\ begun = {}

Due == ~work.running /\ work.next_execute_at <= clock

\* runDue
GetDueScheduledWork ==
    /\ ~listed /\ Due
    /\ listed' = TRUE
    /\ UNCHANGED <<time, clock, work, started, begun>>

\* executeAction, up to the transaction
executeAction ==
    /\ listed /\ started = {}
    /\ started' = {Reading(clock, time)}
    /\ UNCHANGED <<time, clock, work, listed, begun>>

\* The action need not be due any more.
BeginActionRun(s) ==
    /\ listed' = FALSE /\ started' = {}
    /\ IF Due
       THEN /\ work' = [work EXCEPT !.running = TRUE,
                          !.next_execute_at = calculateNextExecuteFromSchedule(
                              work.hours, {s.clock}, clock)]
            /\ begun' = {[read |-> {s}, now |-> {Reading(clock, time)}]}
       ELSE UNCHANGED <<work, begun>>
    /\ UNCHANGED <<time, clock>>

RecordActionResult ==
    /\ work.running
    /\ work' = [work EXCEPT !.running = FALSE]
    /\ UNCHANGED <<time, clock, listed, started, begun>>

\* A policy with another schedule for the action makes it due at once.
ReconcilePolicy(hours) ==
    /\ work.hours # hours
    /\ work' = [work EXCEPT !.hours = hours, !.next_execute_at = clock]
    /\ begun' = {}
    /\ UNCHANGED <<time, clock, listed, started>>

Tick ==
    /\ time < MaxTime /\ clock < MaxClock
    /\ time' = time + 1 /\ clock' = clock + 1
    /\ UNCHANGED <<work, listed, started, begun>>

SetClock(c) ==
    /\ clock' = c
    /\ started' = Unsteady(started)
    /\ begun' = {[read |-> Unsteady(b.read), now |-> Unsteady(b.now)] : b \in begun}
    /\ UNCHANGED <<time, work, listed>>

Next ==
    \/ GetDueScheduledWork \/ executeAction \/ RecordActionResult \/ Tick
    \/ \E s \in started : BeginActionRun(s)
    \/ \E hours \in Hours : ReconcilePolicy(hours)
    \/ \E c \in 0 .. MaxClock : SetClock(c)

Spec == Init /\ [][Next]_vars

-------------------------------------------------------------------------------
Readings == [clock : Nat, time : Nat, steady : BOOLEAN]

TypeOK ==
    /\ time \in Nat /\ clock \in Nat
    /\ work \in [hours : Hours, running : BOOLEAN, next_execute_at : Nat]
    /\ listed \in BOOLEAN
    /\ started \in SUBSET Readings
    /\ begun \in SUBSET [read : SUBSET Readings, now : SUBSET Readings]

\* An action is due again once its interval has passed since its run began,
\* although the clock may have been set back between the scheduler's reading
\* and the transaction (clampInterval), unless it was set after that; and not
\* before its interval has passed since that reading, unless the clock was set
\* since.
DueOncePerInterval ==
    \A b \in begun :
        /\ \A r \in b.now : r.steady /\ time - r.time >= interval(work.hours) =>
                                work.next_execute_at <= clock
        /\ \A r \in b.read : r.steady /\ work.next_execute_at <= clock =>
                                time - r.time >= interval(work.hours)

===============================================================================
