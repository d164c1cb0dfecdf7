------------------------------- MODULE Executor -------------------------------
(***************************************************************************)
(* The runs of actions on the device: agent/internal/executor.  A run is a *)
(* sequence of commands, before, during and between which its deadline can *)
(* pass, and between which someone else can change the device.  What a     *)
(* command prints is abstracted to whether its standard error is empty.    *)
(*                                                                         *)
(* A run that is cancelled by the agent's shutdown reports nothing         *)
(* (AgentRuntime) and is not considered.                                   *)
(***************************************************************************)
EXTENDS PackageManager

CONSTANTS
    Action,       \* actions, as records
    MaxActions,   \* bound: runs, one after the other
    MaxDrift      \* bound: changes of the device by others

VARIABLES
    action,      \* the action being run
    step,        \* the command that comes next, "idle" or "finished"
    expired,     \* 1 once the deadline of the run has passed
    output,      \* result.Output: at most one record
    detection,   \* result.DetectionOutput, likewise
    status,      \* result.Status
    healthy,     \* 1 while the detection script would find nothing to do
    drift,       \* changes by others so far
    started,     \* runs so far
    asked,       \* history: exit codes the detection script gave in this run
    remedied,    \* history: executions of the remediation script in this run
    changes,     \* history: Install and Remove commands executed in this run
    misread      \* history: 1 once IsInstalled of this run denied a known package

result == <<output, detection, status>>
history == <<asked, remedied, changes, misread>>
vars == <<host, action, step, expired, result, healthy, drift, started, history>>

NoAction == [kind |-> "none"]

\* What a command leaves: its exit code and whether it printed an error.
Exit(code, stderr) == [exit |-> code, stderr |-> stderr]

Init ==
    /\ backend \in Backend \cup {"none"}
    /\ installed \in Version \cup {None} /\ leftover = None
    /\ healthy \in 0..1
    /\ action = NoAction /\ step = "idle" /\ expired = 0
    /\ output = {} /\ detection = {} /\ status = "none"
    /\ drift = 0 /\ started = 0
    /\ asked = {} /\ remedied = 0 /\ changes = 0 /\ misread = 0

-------------------------------------------------------------------------------
(* Commands. *)

\* A command that is not started: the deadline has passed, its environment is
\* refused, or it or the escalation tool cannot be found.
NotStarted == [out |-> Exit(0, 0), err |-> 1, ran |-> 0, late |-> expired]

\* sudo or doas refuses, which detectEscalationDenied knows by its message; the
\* command itself may have run and printed the same.
Denied == {[out |-> Exit(1, 1), err |-> 1, ran |-> n, late |-> 0] : n \in 0..1}

\* The ends of a command, by runner.exec: not started, run to its end, denied,
\* or stopped by the deadline.  "err" is 1 with an error.
exec(codes) ==
    {NotStarted} \cup
    IF expired = 1 THEN {}
    ELSE {[out |-> Exit(c, e), err |-> 0, ran |-> 1, late |-> 0] : c \in codes, e \in 0..1}
         \cup Denied
         \cup {[out |-> Exit(c, e), err |-> 1, ran |-> 1, late |-> 1] : c \in 0..1, e \in 0..1}

\* A script, whose output is kept with an error too.
runShell(codes) == exec(codes)

\* A failed run says why: in the first of its outputs, if neither does yet.
ensureResultError(out, det) ==
    IF \E x \in out \cup det : x.stderr = 1 THEN <<out, det>>
    ELSE IF out # {} THEN <<{Exit(x.exit, 1) : x \in out}, det>>
    ELSE IF det # {} THEN <<out, {Exit(x.exit, 1) : x \in det}>>
    ELSE <<{Exit(0, 1)}, det>>

outputWithError(out) == Exit(out.exit, 1)

Succeed(out, det) ==
    /\ output' = out /\ detection' = det
    /\ status' = "SUCCESS" /\ step' = "finished"

\* Any error of a run whose deadline has passed counts as the timeout.
Fail(out, det) ==
    LET r == ensureResultError(out, det)
    IN  /\ output' = r[1] /\ detection' = r[2]
        /\ status' = IF expired' = 1 THEN "TIMEOUT" ELSE "FAILED"
        /\ step' = "finished"

Continue(next, out, det) ==
    /\ step' = next
    /\ output' = out /\ detection' = det
    /\ UNCHANGED status

-------------------------------------------------------------------------------
(* The beginning of a run. *)

FirstStep(a) ==
    CASE a.kind = "shell" /\ "detection" \in a.has -> "detect"
      [] a.kind = "shell" /\ ~a.compliance /\ a.has = {"script"} -> "script"
      [] a.kind = "package" /\ backend # "none" -> "probe"
      [] a.kind = "update" /\ backend # "none" -> "index"
      [] OTHER -> "invalid"

ExecuteAction(a) ==
    /\ step \in {"idle", "finished"} /\ started < MaxActions
    /\ started' = started + 1
    /\ action' = a /\ step' = FirstStep(a) /\ expired' = 0
    /\ output' = {} /\ detection' = {} /\ status' = "none"
    /\ asked' = {} /\ remedied' = 0 /\ changes' = 0 /\ misread' = 0
    /\ UNCHANGED <<host, healthy, drift>>

\* No detection script to check with, no script at all, no package manager.
Invalid ==
    /\ step = "invalid"
    /\ UNCHANGED expired
    /\ Fail({}, {})
    /\ UNCHANGED <<host, action, healthy, drift, started, history>>

-------------------------------------------------------------------------------
(* Shell actions: executeShell. *)

\* Mutant: the error of the detection is only noted in its output.
DetectSwallowsError ==
    /\ step = "detect"
    /\ \E r \in runShell({1 - healthy}) :
          /\ expired' = r.late
          /\ asked' = asked \cup IF r.err = 1 THEN {} ELSE {r.out.exit}
          /\ Succeed({}, {IF r.err = 1 THEN outputWithError(r.out) ELSE r.out})
    /\ UNCHANGED <<host, action, healthy, drift, started, remedied, changes, misread>>

\* The detection script reports the state of the device.
Detect ==
    /\ step = "detect"
    /\ \E r \in runShell({1 - healthy}) :
          /\ expired' = r.late
          /\ asked' = asked \cup IF r.err = 1 THEN {} ELSE {r.out.exit}
          /\ IF r.err = 1 THEN Fail({}, {outputWithError(r.out)})
             ELSE IF r.out.exit = 0 \/ action.compliance THEN Succeed({}, {r.out})
             ELSE IF "script" \notin action.has THEN Fail({}, {r.out})
             ELSE Continue("script", {}, {r.out})
    /\ UNCHANGED <<host, action, healthy, drift, started, remedied, changes, misread>>

\* The remediation script, which may do anything to the device.
Remediate ==
    /\ step = "script"
    /\ \E r \in runShell(0..1) :
          /\ expired' = r.late
          /\ remedied' = remedied + r.ran
          /\ healthy' \in IF r.ran = 1 THEN 0..1 ELSE {healthy}
          /\ IF r.err = 1 \/ r.out.exit # 0
             THEN Fail({outputWithError(r.out)}, detection)
             ELSE IF "detection" \in action.has THEN Continue("verify", {r.out}, detection)
             ELSE Succeed({r.out}, {})
    /\ UNCHANGED <<host, action, drift, started, asked, changes, misread>>

Verify ==
    /\ step = "verify"
    /\ \E r \in runShell({1 - healthy}) :
          /\ expired' = r.late
          /\ asked' = asked \cup IF r.err = 1 THEN {} ELSE {r.out.exit}
          /\ IF r.err = 1 \/ r.out.exit # 0
             THEN Fail(output, {outputWithError(r.out)})
             ELSE Succeed(output, {r.out})
    /\ UNCHANGED <<host, action, healthy, drift, started, remedied, changes, misread>>

-------------------------------------------------------------------------------
(* Package and update actions: executePackage and executeUpdate. *)

\* The methods of the package manager drop what a command printed before an
\* error of the runner.
returned(r) == IF r.err = 1 THEN Exit(0, 0) ELSE r.out

\* The method returned no error: the command did what it was told.
accepted(r, codes) == r.err = 0 /\ r.out.exit \in codes

\* Of the codes a method accepts, the executor accepts only 0.
commandResult(r) ==
    IF accepted(r, Write) /\ r.out.exit = 0 THEN Succeed({r.out}, {})
    ELSE Fail({returned(r)}, {})

Codes == {0, 1, Informational}

\* A query that was answered with a failure about a package that is known.
Misreads(r) == r.err = 0 /\ ~IsInstalled(r.out.exit) /\ Known # {}

\* Mutant: a package with a version is installed without a look at the one there.
ProbeSkipsVersion ==
    /\ step = "probe"
    /\ \E r \in exec(Query) :
          /\ expired' = r.late
          /\ misread' = IF Misreads(r) THEN 1 ELSE 0
          /\ IF r.err = 1 THEN Fail({}, {})
             ELSE IF action.state = "ABSENT"
             THEN IF IsInstalled(r.out.exit) THEN Continue("remove", {}, {})
                  ELSE Succeed({Exit(0, 0)}, {})
             ELSE IF IsInstalled(r.out.exit) /\ action.version = None
                  THEN Succeed({Exit(0, 0)}, {})
                  ELSE Continue("index", {}, {})
    /\ UNCHANGED <<host, action, healthy, drift, started, asked, remedied, changes>>

\* IsInstalled, and what follows from its answer.
Probe ==
    /\ step = "probe"
    /\ \E r \in exec(Query) :
          /\ expired' = r.late
          /\ misread' = IF Misreads(r) THEN 1 ELSE 0
          /\ IF r.err = 1 THEN Fail({}, {})
             ELSE IF action.state = "ABSENT"
             THEN IF IsInstalled(r.out.exit) THEN Continue("remove", {}, {})
                  ELSE Succeed({Exit(0, 0)}, {})
             ELSE IF ~IsInstalled(r.out.exit) THEN Continue("index", {}, {})
                  ELSE IF action.version = None THEN Succeed({Exit(0, 0)}, {})
                  ELSE Continue("version", {}, {})
    /\ UNCHANGED <<host, action, healthy, drift, started, asked, remedied, changes>>

\* InstalledVersion, which fails for a package that has gone since, and with its
\* query.  The answer is compared with the request as it is spelled.
ProbeVersion ==
    /\ step = "version"
    /\ \E r \in exec(Query) :
          LET versions == InstalledVersion(r.out.exit)
          IN  /\ expired' = r.late
              /\ IF r.err = 1 \/ versions = {} THEN Fail({}, {})
                 ELSE IF action.version \in versions THEN Succeed({Exit(0, 0)}, {})
                 ELSE Continue("index", {}, {})
    /\ UNCHANGED <<host, action, healthy, drift, started, history>>

\* Update of the package index, skipped where it is unsupported: for a package
\* the output of a failure is dropped, for an update action it is kept.
UpdateIndex ==
    LET next == IF action.kind = "update" THEN "upgrade" ELSE "install"
    IN  /\ step = "index"
        /\ \/ /\ Update = Unsupported
              /\ Continue(next, {}, {}) /\ UNCHANGED expired
           \/ /\ Update # Unsupported
              /\ \E r \in exec(Codes) :
                    /\ expired' = r.late
                    /\ IF accepted(r, Update) THEN Continue(next, {}, {})
                       ELSE Fail(IF action.kind = "update" THEN {returned(r)} ELSE {}, {})
        /\ UNCHANGED <<host, action, healthy, drift, started, history>>

\* A command that did what it was told has installed a version the request
\* names; one that failed or was stopped may leave the package in any state.
Install ==
    /\ step = "install"
    /\ \E r \in exec(Codes) :
          /\ expired' = r.late
          /\ changes' = changes + r.ran
          /\ commandResult(r)
          /\ \/ r.ran = 0 /\ UNCHANGED <<installed, leftover>>
             \/ /\ accepted(r, Write)
                /\ installed' \in Installs(action.version) /\ leftover' = None
             \/ /\ r.ran = 1 /\ ~accepted(r, Write)
                /\ \E h \in HostStates : installed' = h[1] /\ leftover' = h[2]
    /\ UNCHANGED <<backend, action, healthy, drift, started, asked, remedied, misread>>

Remove ==
    /\ step = "remove"
    /\ \E r \in exec(Codes) :
          /\ expired' = r.late
          /\ changes' = changes + r.ran
          /\ commandResult(r)
          /\ \/ ~accepted(r, Write) /\ UNCHANGED <<installed, leftover>>
             \/ r.ran = 1 /\ Removes
    /\ UNCHANGED <<backend, action, healthy, drift, started, asked, remedied, misread>>

UpgradeAll ==
    /\ step = "upgrade"
    /\ \E r \in exec(Codes) :
          /\ expired' = r.late
          /\ commandResult(r)
          /\ installed' \in IF r.ran = 1 /\ installed # None THEN Version ELSE {installed}
    /\ UNCHANGED <<backend, leftover, action, healthy, drift, started, history>>

-------------------------------------------------------------------------------

Running == step \notin {"idle", "finished"}

\* The deadline of context.WithTimeout passes between two commands.
Expire ==
    /\ Running /\ expired = 0
    /\ expired' = 1
    /\ UNCHANGED <<host, action, step, result, healthy, drift, started, history>>

\* Someone else changes the device.
Drift ==
    /\ drift < MaxDrift
    /\ drift' = drift + 1
    /\ healthy' \in 0..1
    /\ \E h \in HostStates : installed' = h[1] /\ leftover' = h[2]
    /\ UNCHANGED <<backend, action, step, expired, result, started, history>>

Step ==
    \/ Invalid \/ Detect \/ Remediate \/ Verify
    \/ Probe \/ ProbeVersion \/ UpdateIndex \/ Install \/ Remove \/ UpgradeAll

Done == ~Running /\ started = MaxActions /\ UNCHANGED vars

Next ==
    \/ \E a \in Action : ExecuteAction(a)
    \/ Step \/ Expire \/ Drift \/ Done

Spec == Init /\ [][Next]_vars

-------------------------------------------------------------------------------
(* Properties. *)

Outputs == {{}} \cup {{Exit(c, e)} : c \in Codes, e \in 0..1}

\* A run reports at most one output and one detection output and has a status
\* once it has finished; only dpkg keeps what is left of a removed package.
TypeOK ==
    /\ action \in Action \cup {NoAction} /\ expired \in 0..1 /\ healthy \in 0..1
    /\ <<installed, leftover>> \in HostStates
    /\ output \in Outputs /\ detection \in Outputs
    /\ step = "finished" <=> status \in {"SUCCESS", "FAILED", "TIMEOUT"}
    /\ asked \subseteq 0..1 /\ remedied \in 0..1 /\ changes \in 0..1 /\ misread \in 0..1
    /\ drift \in 0..MaxDrift /\ started \in 0..MaxActions

\* The package is in the state the action asks for.
Desired(a) ==
    IF a.state = "ABSENT" THEN installed = None
    ELSE installed # None /\ a.version \in {None, installed, Bare(installed)}

\* dpkg answers for a package that was removed and not purged.
Residue == installed = None /\ leftover # None

\* What a SUCCESS says is what was seen.  The server takes it for COMPLIANT if
\* its detection output has exit code 0 (complianceStatus): then the detection
\* script has run to its end and found nothing to do; an output made up for an
\* error, whose exit code is 0 as well, is never taken for that.  With a
\* detection script and no compliance check, the script found the device as it
\* should be the last time it ran.  And unless someone else changed the device
\* meanwhile, the package of a package action is now in the state and the
\* version asked for (executePackage), with two exceptions that the code has:
\* what dpkg keeps of a removed package is taken for the package (see
\* PresentIsInstalled), and a query that failed is taken for its absence
\* (apt.go:400, and the like in every backend), so that ABSENT may report
\* success about a package that is there.  PRESENT never does the like.
SuccessWasSeen ==
    status = "SUCCESS" =>
        /\ (\E x \in detection : x.exit = 0) => 0 \in asked
        /\ action.kind = "shell" /\ "detection" \in action.has /\ ~action.compliance
              => \E x \in detection : x.exit = 0
        /\ action.kind = "package" /\ drift = 0 =>
              \/ Desired(action) \/ Residue
              \/ action.state = "ABSENT" /\ misread = 1

\* IsInstalled "reports whether name is currently installed": then an action
\* that reports a package as present, installed now or before, leaves it
\* installed if nobody else changes the device.
PresentIsInstalled ==
    status = "SUCCESS" /\ action.kind = "package" /\ drift = 0 /\ action.state = "PRESENT"
        => installed # None

\* A device that is already as it should be is left alone, so that a run
\* repeated by the schedule changes nothing: no package is installed or removed
\* that is as asked for, and no script remedies what was not found.  The
\* exceptions are a version named without its release, which the comparison of
\* executePackage never finds installed, what dpkg keeps of a removed package,
\* which ABSENT removes again, and a query that failed, after which PRESENT
\* installs what is there.
SettledIsLeftAlone ==
    [][/\ changes' > changes /\ drift = 0 =>
             \/ ~Desired(action) \/ Residue \/ misread = 1
             \/ action.version \in {Bare(v) : v \in Version}
       /\ remedied' > remedied /\ "detection" \in action.has => 1 \in asked]_vars

===============================================================================
