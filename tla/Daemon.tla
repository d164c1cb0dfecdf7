-------------------------------- MODULE Daemon --------------------------------
(***************************************************************************)
(* What the agent's daemon keeps going: a session of its stream, the       *)
(* schedule of an action and its own systemd unit.  The three share no     *)
(* state here, so a behaviour of this model is one of AgentStream, of      *)
(* Schedule or of Units.                                                   *)
(***************************************************************************)
EXTENDS AgentStream, Integers

CONSTANTS
    defaultInterval, Hours, MaxTime, MaxClock,
    Dir, BadDir, Binary, WorldWritable, MaxTemplate, MaxRuns, MaxFaults

ASSUME ScheduleAssumption ==
    /\ defaultInterval \in Nat \ {0} /\ Hours \subseteq Nat
    /\ MaxTime \in Nat /\ MaxClock \in Nat

VARIABLES
    time, clock, work, listed, started, begun,
    template, file, loaded, pc, unitRun, undisturbed, runs, faults,
    part

schedule == INSTANCE Schedule
units == INSTANCE Units WITH run <- unitRun

scheduleVars == <<time, clock, work, listed, started, begun>>
unitsVars == <<template, file, loaded, pc, unitRun, undisturbed, runs, faults>>
allVars == <<vars, scheduleVars, unitsVars, part>>

PartsInit ==
    /\ part \in {"session", "schedule", "units"}
    /\ Init /\ schedule!Init /\ units!Init
    /\ part # "schedule" => clock = 0 /\ work.hours = 0
    /\ part # "units" => file = units!NoUnit

Session(A) == part = "session" /\ A /\ UNCHANGED <<scheduleVars, unitsVars, part>>
ScheduleNext == part = "schedule" /\ schedule!Next /\ UNCHANGED <<vars, unitsVars, part>>
UnitsNext == part = "units" /\ units!Next /\ UNCHANGED <<vars, scheduleVars, part>>

\* Nobody has to sync the unit again.
Rest == part = "units" /\ UNCHANGED allVars

PartsNext == Session(Next) \/ ScheduleNext \/ UnitsNext \/ Rest

FirstPull == main = "pull" /\ registerPending("policy")

PartsSpec ==
    /\ PartsInit /\ [][PartsNext]_allVars
    /\ WF_allVars(Session(MainStep)) /\ WF_allVars(Session(readinessTimeout))
    /\ WF_allVars(Session(RunStep)) /\ WF_allVars(Session(CloseTransport))
    /\ WF_allVars(Session(HeartbeatsEnd)) /\ WF_allVars(Session(FirstPull))
    /\ \A c \in Caller : WF_allVars(Session(CallerReturns(c)))

\* Schedule: an action is due again once its interval has passed since its run
\* began, and not before, while the clock is not set (clampInterval).
DueOncePerInterval == schedule!DueOncePerInterval

\* Units: a sync that reports success has settled file and systemd.
SyncSettles == units!SyncSettles

===============================================================================
