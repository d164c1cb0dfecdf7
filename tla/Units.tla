-------------------------------- MODULE Units --------------------------------
(***************************************************************************)
(* The agent's own systemd unit: agent/internal/unit, which renders it     *)
(* from a template and brings the file and systemd into line with it, over *)
(* the Manager of sdk/sys/service.  "cadestrod install-unit" runs it, and  *)
(* so does every agent when it starts, perhaps at the same time.           *)
(*                                                                         *)
(* systemd is external: it keeps the unit it has loaded until it is told   *)
(* to reload, and starts the agent with the directory that unit names.  A  *)
(* unit file is replaced by one rename (FileReplace).                      *)
(***************************************************************************)
EXTENDS Naturals

CONSTANTS
    Dir,          \* data directories that may stand in a unit
    BadDir,       \* one with a character that systemd interprets
    Binary,       \* places the agent's binary is run from
    WorldWritable,\* those of them in a world-writable directory
    MaxTemplate,  \* bound: templates, one per version of the agent
    MaxRuns,      \* bound: syncs that begin
    MaxFaults     \* bound: failed commands and kills

VARIABLES
    template,     \* the template of the version that is on the host
    file,         \* the unit file
    loaded,       \* the unit systemd has loaded
    pc, run,      \* where each sync is, and what it was called with
    undisturbed,  \* history: syncs nothing has got in the way of
    runs, faults

vars == <<template, file, loaded, pc, run, undisturbed, runs, faults>>

NoUnit == [template |-> 0, binary |-> "none", dir |-> "none"]
Unit == [template : 1 .. MaxTemplate, binary : Binary, dir : Dir]

\* The agent that starts and the administrator's command.
Process == {"agent", "install"}

NoRun == [params |-> NoUnit, create |-> FALSE, result |-> "none"]

Init ==
    /\ template = 1
    /\ file \in {NoUnit} \cup {u \in Unit : u.template = 1 /\ u.binary \notin WorldWritable}
    /\ loaded = file
    /\ pc = [p \in Process |-> "idle"] /\ run = [p \in Process |-> NoRun]
    /\ undisturbed = {} /\ runs = 0 /\ faults = 0

-------------------------------------------------------------------------------
(* sdk/sys/service. *)

\* The rendered unit has one line that runs something.
validateExecLine(unit) == unit.binary \notin WorldWritable

validateUnitContent(unit) == validateExecLine(unit)

\* A command or a system call fails.
Fault == faults < MaxFaults /\ faults' = faults + 1

ReadUnit(ok) == (ok /\ UNCHANGED faults) \/ (~ok /\ Fault)

\* A write that fails may have replaced the file: its chown is the last step.
WriteUnit(unit, ok) ==
    \/ ~validateUnitContent(unit) /\ ~ok /\ UNCHANGED <<file, faults>>
    \/ validateUnitContent(unit) /\ ok /\ file' = unit /\ UNCHANGED faults
    \/ validateUnitContent(unit) /\ ~ok /\ file' \in {file, unit} /\ Fault

\* Only the strict "yes" and "no" of NeedDaemonReload are answers.  To show a
\* unit that is not loaded systemd loads it.
NeedsReload(pending, ok) ==
    \/ /\ ok /\ UNCHANGED faults
       /\ pending = (loaded \notin {NoUnit, file})
       /\ loaded' = IF loaded = NoUnit THEN file ELSE loaded
    \/ ~ok /\ ~pending /\ Fault /\ UNCHANGED loaded

\* systemctl mutates, or ends with another status than 0.
DaemonReload(ok) ==
    \/ ok /\ loaded' = file /\ UNCHANGED faults
    \/ ~ok /\ Fault /\ UNCHANGED loaded

-------------------------------------------------------------------------------
(* agent/internal/unit. *)

validateUnitPath(params) == params.dir # BadDir

\* The unit for the binary's template: no two parameters give the same one.
Render(params) == params

Return(p, result) ==
    /\ pc' = [pc EXCEPT ![p] = "idle"]
    /\ run' = [run EXCEPT ![p].result = result]

Goto(p, label) == pc' = [pc EXCEPT ![p] = label] /\ UNCHANGED run

\* What is there and what is to be done.  The agent leaves a host without a
\* unit alone.
syncRead(p) ==
    LET params == run[p].params IN
    /\ pc[p] = "read"
    /\ \/ ReadUnit(FALSE) /\ Return(p, "error") /\ UNCHANGED undisturbed
       \/ /\ ReadUnit(TRUE)
          /\ undisturbed' = undisturbed \cup {p}
          /\ IF file = NoUnit /\ ~run[p].create THEN Return(p, "done")
             ELSE IF ~validateUnitPath(params) THEN Return(p, "error")
             ELSE Goto(p, IF file = Render(params) THEN "check" ELSE "write")
    /\ UNCHANGED <<template, file, loaded, runs>>

\* Mutant: a file that is as it should be is taken for loaded.
syncCheckNothing(p) ==
    /\ pc[p] = "check"
    /\ Return(p, "done")
    /\ UNCHANGED <<template, file, loaded, undisturbed, runs, faults>>

\* The file is as it should be; an error is only logged.
syncCheck(p) ==
    /\ pc[p] = "check"
    /\ \E pending, ok \in BOOLEAN :
           /\ NeedsReload(pending, ok)
           /\ IF pending THEN Goto(p, "reload") ELSE Return(p, "done")
           /\ undisturbed' = IF ok THEN undisturbed ELSE undisturbed \ {p}
    /\ UNCHANGED <<template, file, runs>>

syncWrite(p) ==
    /\ pc[p] = "write"
    /\ \E ok \in BOOLEAN :
           /\ WriteUnit(Render(run[p].params), ok)
           /\ IF ok THEN Goto(p, "reload") ELSE Return(p, "error")
    /\ undisturbed' = IF file' = file THEN undisturbed ELSE undisturbed \cap {p}
    /\ UNCHANGED <<template, loaded, runs>>

syncReload(p) ==
    /\ pc[p] = "reload"
    /\ \E ok \in BOOLEAN :
           DaemonReload(ok) /\ Return(p, IF ok THEN "done" ELSE "error")
    /\ UNCHANGED <<template, file, undisturbed, runs>>

sync(p) == syncRead(p) \/ syncCheck(p) \/ syncWrite(p) \/ syncReload(p)

Begin(p, params, create) ==
    /\ pc[p] = "idle" /\ runs < MaxRuns /\ runs' = runs + 1
    /\ pc' = [pc EXCEPT ![p] = "read"]
    /\ run' = [run EXCEPT ![p] = [params |-> params, create |-> create, result |-> "none"]]
    /\ undisturbed' = undisturbed \ {p}
    /\ UNCHANGED <<template, file, loaded, faults>>

\* systemd starts the agent it has loaded; the binary is the one on the host.
reconcileUnitAtStartup ==
    /\ loaded # NoUnit
    /\ Begin("agent", [loaded EXCEPT !.template = template], FALSE)

runInstallUnit(binary, dir) ==
    Begin("install", [template |-> template, binary |-> binary, dir |-> dir], TRUE)

-------------------------------------------------------------------------------
(* The host. *)

Kill(p) ==
    /\ pc[p] # "idle" /\ Fault
    /\ Return(p, "killed")
    /\ UNCHANGED <<template, file, loaded, undisturbed, runs>>

\* A new version of the agent is installed.
UpgradeAgent ==
    /\ template < MaxTemplate /\ template' = template + 1
    /\ UNCHANGED <<file, loaded, pc, run, undisturbed, runs, faults>>

\* The host boots: systemd loads what is on disk.
Boot ==
    /\ loaded # file /\ loaded' = file
    /\ pc' = [p \in Process |-> "idle"] /\ run' = [p \in Process |-> NoRun]
    /\ UNCHANGED <<template, file, undisturbed, runs, faults>>

Next ==
    \/ \E p \in Process : sync(p) \/ Kill(p)
    \/ reconcileUnitAtStartup
    \/ \E b \in Binary, d \in Dir \cup {BadDir} : runInstallUnit(b, d)
    \/ UpgradeAgent \/ Boot

Spec == Init /\ [][Next]_vars

-------------------------------------------------------------------------------
(* Properties. *)

TypeOK ==
    /\ template \in 1 .. MaxTemplate
    /\ {file, loaded} \subseteq Unit \cup {NoUnit}
    /\ pc \in [Process -> {"idle", "read", "check", "write", "reload"}]
    /\ undisturbed \subseteq Process /\ runs \in 0 .. MaxRuns /\ faults \in 0 .. MaxFaults

\* A sync that reports success has settled the unit: the file is the one it
\* rendered and systemd has loaded it, wherever an earlier sync was killed or
\* failed, in particular between the write and the reload (sync asks
\* NeedsReload when the file is already right).  Except for a sync that could
\* not ask, or beside which another one wrote the file.
SyncSettles ==
    \A p \in undisturbed :
        run[p].result = "done" /\ file # NoUnit =>
            file = run[p].params /\ loaded = file

===============================================================================
