----------------------------- MODULE AgentRuntime -----------------------------
(***************************************************************************)
(* The agent process around the action store: the scheduler goroutine      *)
(* (scheduler.go), the workers of a connected session that reconcile the   *)
(* policy and deliver the outbox (runtime.go), and the crash or shutdown   *)
(* and restart of the process.  The goroutines meet in the store's         *)
(* transactions and in two channels of capacity one, whose sends are       *)
(* dropped when the channel is full.                                       *)
(*                                                                         *)
(* The order of due work and of pending results does not matter to the     *)
(* properties below, so a loop over a snapshot takes its members in any    *)
(* order.  ResultDelivery has the ordered outbox and the server.           *)
(***************************************************************************)
EXTENDS AgentStore

CONSTANTS
    NoWork,        \* no run is being executed
    MaxFaults      \* bound: crashes, rollbacks and failed calls

ASSUME MaxFaultsAssumption == MaxFaults \in Nat

VARIABLES
    pc,            \* where the scheduler goroutine is
    items,         \* snapshot of due work still to visit
    current,       \* the run handed to the executor
    wake,          \* tokens in scheduleWakeCh
    ready,         \* tokens in resultReadyCh
    session,       \* where the worker that sends results is; "stalled" is idle
                   \* after a pass over the outbox that ended in an error
    sending,       \* its snapshot of pending results still to send
    deleting,      \* the result the server answered, until its row is deleted
    faults,        \* faults so far
    policy,        \* history: the policy reconciled last
    executed,      \* history: run_id -> action and definition executed
    inserts,       \* history: run_id -> rows ever inserted into the outbox
    answered       \* history: runs whose result the server acked or rejected

schedVars == <<pc, items, current, wake>>
sessionVars == <<session, sending, deleting, answered>>
vars == <<storeVars, schedVars, sessionVars, ready, faults, policy, executed, inserts>>

Work == [action_id : ActionId, run_id : RunId, action : Definition]

PC == {"down", "wait", "recover", "recovered", "load", "loop", "exec", "recorded"}
SessionState == {"off", "pull", "load", "send", "idle", "stalled"}

TypeOK ==
    /\ StoreTypeOK
    /\ pc \in PC
    /\ items \subseteq ActionId
    /\ current \in Work \cup {NoWork}
    /\ pc = "exec" => current \in Work
    /\ wake \in 0..1
    /\ ready \in 0..1
    /\ session \in SessionState
    /\ sending \subseteq Result
    /\ deleting \subseteq Result
    /\ faults \in 0..MaxFaults
    /\ DOMAIN policy \subseteq ActionId
    /\ policy \in [DOMAIN policy -> Definition]
    /\ executed \in [1..lastRun -> [action_id : ActionId, action : Definition]]
    /\ inserts \in [RunId -> Nat]
    /\ answered \subseteq RunId

Init ==
    /\ StoreInit
    /\ pc = "recover"
    /\ items = {}
    /\ current = NoWork
    /\ wake = 0
    /\ ready = 0
    /\ session = "off"
    /\ sending = {}
    /\ deleting = {}
    /\ faults = 0
    /\ policy = [a \in {} |-> {}]
    /\ executed = [r \in {} |-> {}]
    /\ inserts = [r \in RunId |-> 0]
    /\ answered = {}

Fault == faults < MaxFaults /\ faults' = faults + 1

-------------------------------------------------------------------------------
(* The scheduler goroutine. *)

\* Run: the one-minute ticker, or a token in scheduleWakeCh, starts runDue.
Tick ==
    /\ pc = "wait"
    /\ pc' = "recover"
    /\ UNCHANGED <<storeVars, sessionVars, items, current, wake, ready, faults,
                   policy, executed, inserts>>

Wake ==
    /\ pc = "wait"
    /\ wake = 1
    /\ wake' = 0
    /\ pc' = "recover"
    /\ UNCHANGED <<storeVars, sessionVars, items, current, ready, faults,
                   policy, executed, inserts>>

\* Mutant: no signal after a recovery.
RunDueRecoverSilent ==
    /\ pc = "recover"
    /\ RecoverInterruptedActions
    /\ inserts' = [r \in RunId |->
                      inserts[r] + IF \E a \in DOMAIN running : running[a].run_id = r
                                   THEN 1 ELSE 0]
    /\ pc' = "load"
    /\ UNCHANGED <<sessionVars, items, current, wake, ready, faults, policy, executed>>

RunDueRecover ==
    /\ pc = "recover"
    /\ RecoverInterruptedActions
    /\ inserts' = [r \in RunId |->
                      inserts[r] + IF \E a \in DOMAIN running : running[a].run_id = r
                                   THEN 1 ELSE 0]
    /\ pc' = IF DOMAIN running = {} THEN "load" ELSE "recovered"
    /\ UNCHANGED <<sessionVars, items, current, wake, ready, faults, policy, executed>>

\* The recovery transaction or the query for due work fails: runDue returns.
RunDueFails ==
    /\ pc \in {"recover", "load"}
    /\ Fault
    /\ pc' = "wait"
    /\ UNCHANGED <<storeVars, sessionVars, items, current, wake, ready,
                   policy, executed, inserts>>

\* signalResultsReady, after a recovery and after a recorded result.
SignalResultsReady ==
    /\ pc \in {"recovered", "recorded"}
    /\ ready' = 1
    /\ pc' = IF pc = "recovered" THEN "load" ELSE "loop"
    /\ UNCHANGED <<storeVars, sessionVars, items, current, wake, faults,
                   policy, executed, inserts>>

RunDueLoad ==
    /\ pc = "load"
    /\ items' = GetDueScheduledWork
    /\ pc' = "loop"
    /\ UNCHANGED <<storeVars, sessionVars, current, wake, ready, faults,
                   policy, executed, inserts>>

\* executeAction: BeginActionRun commits and the executor gets the definition
\* the transaction read, not the one in the snapshot.
ExecuteActionBegin(a) ==
    /\ pc = "loop"
    /\ a \in items
    /\ BeginActionRun(a)
    /\ items' = items \ {a}
    /\ current' = [action_id |-> a, run_id |-> lastRun + 1, action |-> action[a]]
    /\ executed' = [r \in 1..lastRun + 1 |->
                       IF r = lastRun + 1 THEN [action_id |-> a, action |-> action[a]]
                       ELSE executed[r]]
    /\ pc' = "exec"
    /\ UNCHANGED <<sessionVars, wake, ready, faults, policy, inserts>>

\* BeginActionRun finds the work no longer runnable, or rolls back.  (Past the
\* bound on run ids the model skips what is left.)
ExecuteActionSkips(a) ==
    /\ pc = "loop"
    /\ a \in items
    /\ \/ (a \notin GetDueScheduledWork \/ lastRun = MaxRuns) /\ UNCHANGED faults
       \/ Fault
    /\ items' = items \ {a}
    /\ UNCHANGED <<storeVars, sessionVars, pc, current, wake, ready,
                   policy, executed, inserts>>

RunDueReturns ==
    /\ pc = "loop"
    /\ items = {}
    /\ pc' = "wait"
    /\ UNCHANGED <<storeVars, sessionVars, items, current, wake, ready, faults,
                   policy, executed, inserts>>

\* The result that executeAction builds for the run it executed.
ExecutedResult(w) ==
    [action_id |-> w.action_id, run_id |-> w.run_id,
     digest |-> ActionDigest(w.action), status |-> "EXECUTED"]

\* The executor returned and RecordActionResult commits.
ExecuteActionRecord ==
    /\ pc = "exec"
    /\ RecordActionResult(ExecutedResult(current))
    /\ inserts' = [inserts EXCEPT ![current.run_id] = @ + 1]
    /\ current' = NoWork
    /\ pc' = "recorded"
    /\ UNCHANGED <<sessionVars, items, wake, ready, faults, policy, executed>>

\* RecordActionResult finds no such run in progress, or rolls back (a result
\* that does not marshal, a failing disk): the row stays as it is.
ExecuteActionLosesResult ==
    /\ pc = "exec"
    /\ \/ ~FinishScheduledRun(ExecutedResult(current)) /\ UNCHANGED faults
       \/ Fault
    /\ current' = NoWork
    /\ pc' = "loop"
    /\ UNCHANGED <<storeVars, sessionVars, items, wake, ready,
                   policy, executed, inserts>>

-------------------------------------------------------------------------------
(* The workers of a session: runAgent starts them once the stream is ready and
   cancels them when it ends. *)

Connect ==
    /\ pc # "down"
    /\ session = "off"
    /\ session' = "pull"
    /\ UNCHANGED <<storeVars, schedVars, sending, deleting, answered, ready,
                   faults, policy, executed, inserts>>

Disconnect ==
    /\ session # "off"
    /\ Fault
    /\ session' = "off"
    /\ sending' = {}
    /\ deleting' = {}
    /\ UNCHANGED <<storeVars, schedVars, answered, ready, policy, executed, inserts>>

\* pullDesiredPolicyFromControl: the store reconciles, then the scheduler is
\* woken.  The session pulls once before it starts its workers and on every
\* tick of periodicSync after that.
PullDesiredPolicy(p) ==
    /\ session # "off"
    /\ ReconcilePolicy(p)
    /\ policy' = p
    /\ wake' = 1
    /\ session' = IF session = "pull" THEN "load" ELSE session
    /\ UNCHANGED <<pc, items, current, sending, deleting, answered, ready,
                   faults, executed, inserts>>

\* The first pull or its reconciliation fails: the workers start all the same.
PullFails ==
    /\ session = "pull"
    /\ Fault
    /\ session' = "load"
    /\ UNCHANGED <<storeVars, schedVars, sending, deleting, answered, ready,
                   policy, executed, inserts>>

\* sendScheduledResults receives from resultReadyCh.
ResultsReady ==
    /\ session \in {"idle", "stalled"}
    /\ ready = 1
    /\ ready' = 0
    /\ session' = "load"
    /\ UNCHANGED <<storeVars, schedVars, sending, deleting, answered, faults,
                   policy, executed, inserts>>

\* syncPendingResults: the snapshot of the outbox.
SyncLoad ==
    /\ session = "load"
    /\ sending' = GetPendingResults
    /\ session' = "send"
    /\ UNCHANGED <<storeVars, schedVars, deleting, answered, ready, faults,
                   policy, executed, inserts>>

\* The server acked the result or rejected it: both delete its row next.
SyncSend(r) ==
    /\ session = "send"
    /\ deleting = {}
    /\ r \in sending
    /\ answered' = answered \cup {r.run_id}
    /\ deleting' = {r}
    /\ sending' = sending \ {r}
    /\ UNCHANGED <<storeVars, schedVars, session, ready, faults,
                   policy, executed, inserts>>

SyncDelete(r) ==
    /\ r \in deleting
    /\ DeletePendingResult(r)
    /\ deleting' = {}
    /\ UNCHANGED <<schedVars, session, sending, answered, ready, faults,
                   policy, executed, inserts>>

\* Any other error of the query, of a send (a message that does not validate, a
\* stream that closed before the answer) or of a delete ends the pass; what is
\* left waits for the next token or the next session.
SyncFails ==
    /\ session \in {"load", "send"}
    /\ Fault
    /\ session' = "stalled"
    /\ sending' = {}
    /\ deleting' = {}
    /\ UNCHANGED <<storeVars, schedVars, answered, ready, policy, executed, inserts>>

SyncReturns ==
    /\ session = "send"
    /\ sending = {}
    /\ deleting = {}
    /\ session' = "idle"
    /\ UNCHANGED <<storeVars, schedVars, sending, deleting, answered, ready, faults,
                   policy, executed, inserts>>

-------------------------------------------------------------------------------
(* The process and the clock. *)

\* A crash, or a shutdown: executeAction returns without recording once its
\* context is cancelled.  The database is all that is left.
Crash ==
    /\ pc # "down"
    /\ Fault
    /\ pc' = "down"
    /\ items' = {}
    /\ current' = NoWork
    /\ wake' = 0
    /\ ready' = 0
    /\ session' = "off"
    /\ sending' = {}
    /\ deleting' = {}
    /\ UNCHANGED <<storeVars, answered, policy, executed, inserts>>

Restart ==
    /\ pc = "down"
    /\ pc' = "recover"
    /\ UNCHANGED <<storeVars, sessionVars, items, current, wake, ready, faults,
                   policy, executed, inserts>>

ClockAdvances(a) ==
    /\ BecomesDue(a)
    /\ UNCHANGED <<schedVars, sessionVars, ready, faults, policy, executed, inserts>>

-------------------------------------------------------------------------------

SchedulerNext ==
    \/ Tick
    \/ Wake
    \/ RunDueRecover
    \/ RunDueFails
    \/ SignalResultsReady
    \/ RunDueLoad
    \/ \E a \in ActionId : ExecuteActionBegin(a)
    \/ \E a \in ActionId : ExecuteActionSkips(a)
    \/ RunDueReturns
    \/ ExecuteActionRecord
    \/ ExecuteActionLosesResult

SessionNext ==
    \/ Connect
    \/ Disconnect
    \/ \E p \in Policy : PullDesiredPolicy(p)
    \/ PullFails
    \/ ResultsReady
    \/ SyncLoad
    \/ \E r \in sending : SyncSend(r)
    \/ \E r \in deleting : SyncDelete(r)
    \/ SyncFails
    \/ SyncReturns

Next ==
    \/ SchedulerNext
    \/ SessionNext
    \/ Crash
    \/ Restart
    \/ \E a \in ActionId : ClockAdvances(a)

Spec == Init /\ [][Next]_vars

(* The Go scheduler runs both goroutines, the ticker fires every minute, the
   init system restarts the process, runAgent reconnects after its backoff, and
   an executor call ends at its timeout.  Faults are finitely many. *)
Fairness ==
    /\ WF_vars(Tick)
    /\ WF_vars(RunDueRecover)
    /\ WF_vars(SignalResultsReady)
    /\ WF_vars(RunDueLoad)
    /\ \A a \in ActionId : WF_vars(ExecuteActionBegin(a)) /\ WF_vars(ExecuteActionSkips(a))
    /\ WF_vars(RunDueReturns)
    /\ WF_vars(ExecuteActionRecord)
    /\ WF_vars(ExecuteActionLosesResult)
    /\ WF_vars(Connect)
    /\ WF_vars(\E p \in Policy : session = "pull" /\ PullDesiredPolicy(p))
    /\ WF_vars(ResultsReady)
    /\ WF_vars(SyncLoad)
    /\ WF_vars(\E r \in sending : SyncSend(r))
    /\ WF_vars(\E r \in deleting : SyncDelete(r))
    /\ WF_vars(SyncReturns)
    /\ WF_vars(Restart)

FairSpec == Spec /\ Fairness

-------------------------------------------------------------------------------
(* Properties *)

InProgress(r) == \E a \in DOMAIN running : running[a].run_id = r

\* A run that BeginActionRun committed has a result in the outbox table exactly
\* once: none while its row is in progress, and one from the moment it is not,
\* whether the executor's verdict was recorded or recovery wrote INDETERMINATE,
\* and whatever crashes and reconciliations came between.
ExactlyOneResult ==
    \A r \in RunId :
        inserts[r] = IF r <= lastRun /\ ~InProgress(r) THEN 1 ELSE 0

\* A result in the outbox names the action and the digest of the definition
\* that its run executed, even when a reconciliation rewrote, retired, deleted or
\* revived the row during the run (BeginActionRun hands its own read to the
\* executor, RecoverInterruptedActions takes run_action_digest).
ResultNamesExecutedDefinition ==
    \A r \in outbox :
        /\ r.run_id \in DOMAIN executed
        /\ r.action_id = executed[r.run_id].action_id
        /\ r.digest = ActionDigest(executed[r.run_id].action)

\* A result leaves the outbox only after the server answered it: every run that
\* has had its result is still pending or answered (syncPendingResults deletes
\* after an ack or a rejection only).
NoResultLost ==
    \A r \in RunId :
        inserts[r] > 0 => r \in answered \/ \E x \in outbox : x.run_id = r

\* No reconciliation takes the row from under the run that is executing, so
\* RecordActionResult always finds the run it is about (RetireWork instead of
\* DeleteWork while run_in_progress).
ExecutingRunKeepsItsRow ==
    pc = "exec" => FinishScheduledRun(ExecutedResult(current))

\* A row in progress carries the run that was begun for it, with the digest of
\* the definition that run executes: two rows never share a run.
RowNamesItsRun ==
    \A a \in DOMAIN running :
        /\ running[a].run_id \in DOMAIN executed
        /\ executed[running[a].run_id].action_id = a
        /\ running[a].digest = ActionDigest(executed[running[a].run_id].action)

\* A retired row exists only while its run is in progress: nothing else would
\* ever delete it (RecordActionResult, RecoverInterruptedActions).
RetiredRowHasRun == retired \subseteq DOMAIN running

\* What the scheduler may start is the last reconciled policy: the rows that are
\* not retired are its actions with its definitions.
StoreMirrorsPolicy ==
    /\ DOMAIN action \ retired = DOMAIN policy
    /\ \A a \in DOMAIN policy : action[a] = policy[a]

\* Unless an assigned action is due, its latest run executed the definition
\* the policy has now: a policy that changes during a run is not forgotten when
\* the run ends (UpdateScheduledWork moves next_execute_at of a running row).
ChangedDefinitionIsDue ==
    \A a \in DOMAIN policy \ due :
        \E r \in DOMAIN executed :
            /\ executed[r] = [action_id |-> a, action |-> policy[a]]
            /\ \A q \in DOMAIN executed : q > r => executed[q].action_id # a

\* The coalesced signal loses no result: with the sender waiting, no token in
\* resultReadyCh and none about to be sent, only a pass that ended in an error
\* leaves a result behind (the token is sent after the commit and received
\* before the snapshot).
NoLostWakeup ==
    session = "idle" /\ ready = 0 /\ pc \notin {"recovered", "recorded"}
        => outbox = {}

\* A pass deletes one result at a time, and the server answered it.
DeletedIsAnswered ==
    /\ \A r \in deleting : r.run_id \in answered
    /\ \A r, q \in deleting : r = q

\* During a pass a result outside the snapshot has its token sent or coming.
SnapshotCoversOutbox ==
    session = "send" /\ ready = 0 /\ pc \notin {"recovered", "recorded"}
        => outbox \subseteq sending \cup deleting

\* A run that has begun ends with a result, and the server answers the result,
\* whatever interrupts the run, the agent or its sessions: recovery finds the run
\* and a token or the next session finds the result.  Only a pass that failed
\* (SyncFails) may leave it in the outbox, for the pass after it.
RunIsAnswered ==
    \A r \in RunId :
        r <= lastRun ~> inserts[r] > 0 /\ (r \in answered \/ session = "stalled")

\* An assigned definition is executed, unless the policy changes first (or the
\* model is out of run ids).
AssignedDefinitionRuns ==
    \A a \in ActionId, d \in Definition :
        (a \in DOMAIN policy /\ policy[a] = d)
            ~> (\/ \E r \in DOMAIN executed : executed[r] = [action_id |-> a, action |-> d]
                \/ a \notin DOMAIN policy
                \/ policy[a] # d
                \/ lastRun = MaxRuns)

===============================================================================
