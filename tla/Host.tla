--------------------------------- MODULE Host ---------------------------------
(***************************************************************************)
(* What the agent does to its host: the files it replaces and the actions  *)
(* it executes.  The two share no state here, so a behaviour of this model *)
(* is one of FileReplace or of Executor.                                   *)
(***************************************************************************)
EXTENDS FileReplace

CONSTANTS Upstream, Release, Action, MaxActions, MaxDrift

VARIABLES
    backend, installed, leftover, action, step, expired, output, detection, status,
    healthy, drift, started, asked, remedied, changes, misread,
    part

executor == INSTANCE Executor

executorVars ==
    <<backend, installed, leftover, action, step, expired, output, detection, status,
      healthy, drift, started, asked, remedied, changes, misread>>
allVars == <<vars, executorVars, part>>

PartsInit ==
    /\ Init /\ executor!Init
    /\ \/ part = "files" /\ backend = "none" /\ installed = executor!None /\ healthy = 0
       \/ part = "actions" /\ noReplace

FilesNext == part = "files" /\ Next /\ UNCHANGED <<executorVars, part>>
ActionsNext == part = "actions" /\ executor!Next /\ UNCHANGED <<vars, part>>

\* Nobody has to write a file again.
Rest == part = "files" /\ UNCHANGED allVars

PartsNext == FilesNext \/ ActionsNext \/ Rest

PartsSpec == PartsInit /\ [][PartsNext]_allVars

\* Executor: a run reports success only for what its commands found.
SuccessWasSeen == executor!SuccessWasSeen

\* Executor: a device that is as it should be is left alone.
SettledIsLeftAlone == executor!SettledIsLeftAlone

===============================================================================
