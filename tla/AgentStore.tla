------------------------------ MODULE AgentStore ------------------------------
(***************************************************************************)
(* The agent's SQLite action store: the tables scheduled_work and          *)
(* result_outbox and the transactions that change them.  Every transaction *)
(* runs under Store.mu and commits or rolls back as a whole, so each one   *)
(* is one atomic operator here; a rollback changes nothing.                *)
(*                                                                         *)
(* A row of scheduled_work is spread over four variables keyed by work_id: *)
(* it exists iff its id is in DOMAIN action, its flag retired is           *)
(* membership in retired, next_execute_at <= now is membership in due, and *)
(* run_in_progress is membership in DOMAIN running.                        *)
(***************************************************************************)
EXTENDS Naturals

CONSTANTS
    ActionId,      \* work ids (the server's action ids)
    Definition,    \* contents of an action: proto.Equal decides equality
    MaxRuns        \* bound: run ids that BeginActionRun may draw

ASSUME MaxRunsAssumption == MaxRuns \in Nat

VARIABLES
    action,        \* work_id -> action_blob, its domain is the set of rows
    retired,       \* rows with retired = TRUE
    due,           \* rows with next_execute_at <= now
    running,       \* rows in progress -> run_id and run_action_digest
    outbox,        \* payloads in result_outbox
    lastRun        \* run ids drawn so far: ulid.Make never repeats one

storeVars == <<action, retired, due, running, outbox, lastRun>>

RunId == 1..MaxRuns

\* SHA-256 of the deterministic encoding: equal exactly for equal definitions.
ActionDigest(d) == [sha256 |-> d]

Digest == {ActionDigest(d) : d \in Definition}

\* EXECUTION_STATUS_*: a verdict of the executor (success, failed, timeout: the
\* store does not tell them apart), or the one recovery writes in its place.
Status == {"EXECUTED", "INDETERMINATE"}

Run == [run_id : RunId, digest : Digest]
Result == [action_id : ActionId, run_id : RunId, digest : Digest, status : Status]

\* A desired policy: the definitions of the assigned actions, by action id.
Policy == UNION {[S -> Definition] : S \in SUBSET ActionId}

StoreTypeOK ==
    /\ DOMAIN action \subseteq ActionId
    /\ action \in [DOMAIN action -> Definition]
    /\ retired \subseteq DOMAIN action
    /\ due \subseteq DOMAIN action
    /\ DOMAIN running \subseteq DOMAIN action
    /\ running \in [DOMAIN running -> Run]
    /\ outbox \subseteq Result
    /\ lastRun \in 0..MaxRuns

StoreInit ==
    /\ action = [a \in {} |-> {}]
    /\ retired = {}
    /\ due = {}
    /\ running = [a \in {} |-> {}]
    /\ outbox = {}
    /\ lastRun = 0

-------------------------------------------------------------------------------

(* The statements (generated/action.sql.go).  One that a transaction repeats *)
(* for several rows is given by the rows it is run for.                      *)

ListAllWork == DOMAIN action

\* Rows the policy p no longer names, while their run is in progress ...
RetireWork(p) == (ListAllWork \ DOMAIN p) \cap DOMAIN running

\* ... and otherwise.
DeleteWork(p) == (ListAllWork \ DOMAIN p) \ DOMAIN running

\* Mutant: a row in progress keeps its next_execute_at.
UpdateIdleWork(p) ==
    {a \in (ListAllWork \cap DOMAIN p) \ DOMAIN running : a \in retired \/ action[a] # p[a]}

\* Revived rows, and ones whose definition changed.  The update leaves the run
\* in progress alone.
UpdateScheduledWork(p) ==
    {a \in ListAllWork \cap DOMAIN p : a \in retired \/ action[a] # p[a]}

InsertScheduledWork(p) == DOMAIN p \ ListAllWork

\* WHERE retired = FALSE AND run_in_progress = FALSE AND next_execute_at <= now
GetDueScheduledWork == due \ (retired \cup DOMAIN running)

GetRunnableWork(a) == {a} \cap GetDueScheduledWork

\* next_execute_at moves one interval ahead.
BeginScheduledRun(a, run) ==
    /\ running' = [b \in DOMAIN running \cup {a} |-> IF b = a THEN run ELSE running[b]]
    /\ due' = due \ {a}

\* WHERE work_id, run_id and digest are those of a run in progress.
FinishScheduledRun(r) ==
    /\ r.action_id \in DOMAIN running
    /\ running[r.action_id] = [run_id |-> r.run_id, digest |-> r.digest]

DeleteRetiredWork(F) == F \cap retired

InsertResultOutbox(R) == outbox' = outbox \cup R

ListInterruptedWork == DOMAIN running

GetPendingResults == outbox

-------------------------------------------------------------------------------
(* The transactions. *)

\* Mutant: an assigned row that is retired stays retired.
ReconcileForgetsRevival(p) ==
    /\ action' = [a \in (ListAllWork \ DeleteWork(p)) \cup InsertScheduledWork(p) |->
                     IF a \in DOMAIN p THEN p[a] ELSE action[a]]
    /\ retired' = (retired \ DeleteWork(p)) \cup RetireWork(p)
    /\ due' = (due \ DeleteWork(p)) \cup UpdateScheduledWork(p) \cup InsertScheduledWork(p)
    /\ UNCHANGED <<running, outbox, lastRun>>

ReconcilePolicy(p) ==
    /\ action' = [a \in (ListAllWork \ DeleteWork(p)) \cup InsertScheduledWork(p) |->
                     IF a \in DOMAIN p THEN p[a] ELSE action[a]]
    /\ retired' = (retired \ (DeleteWork(p) \cup UpdateScheduledWork(p))) \cup RetireWork(p)
    /\ due' = (due \ DeleteWork(p)) \cup UpdateScheduledWork(p) \cup InsertScheduledWork(p)
    /\ UNCHANGED <<running, outbox, lastRun>>

\* The transaction reads the row again: it runs the definition stored now.
BeginActionRun(a) ==
    /\ a \in GetRunnableWork(a)
    /\ lastRun < MaxRuns
    /\ lastRun' = lastRun + 1
    /\ BeginScheduledRun(a, [run_id |-> lastRun + 1, digest |-> ActionDigest(action[a])])
    /\ UNCHANGED <<action, retired, outbox>>

\* The runs of the rows F leave "in progress", and a retired row goes with its
\* run.
FinishScheduledRuns(F) ==
    /\ running' = [b \in DOMAIN running \ F |-> running[b]]
    /\ action' = [b \in DOMAIN action \ DeleteRetiredWork(F) |-> action[b]]
    /\ retired' = retired \ F
    /\ due' = due \ DeleteRetiredWork(F)
    /\ UNCHANGED lastRun

\* Mutant: the result is inserted and its run stays in progress.
RecordWithoutFinish(r) ==
    /\ FinishScheduledRun(r)
    /\ InsertResultOutbox({r})
    /\ UNCHANGED <<action, retired, due, running, lastRun>>

RecordActionResult(r) ==
    /\ FinishScheduledRun(r)
    /\ FinishScheduledRuns({r.action_id})
    /\ InsertResultOutbox({r})

\* Mutant: the digest of the definition stored now, not of the one that ran.
InterruptedResultOfStored(a) ==
    [action_id |-> a, run_id |-> running[a].run_id,
     digest |-> ActionDigest(action[a]), status |-> "INDETERMINATE"]

InterruptedResult(a) ==
    [action_id |-> a, run_id |-> running[a].run_id,
     digest |-> running[a].digest, status |-> "INDETERMINATE"]

RecoverInterruptedActions ==
    /\ FinishScheduledRuns(ListInterruptedWork)
    /\ InsertResultOutbox({InterruptedResult(a) : a \in ListInterruptedWork})

\* Mutant: DELETE without the sequence empties the table.
DeleteEveryPendingResult(r) ==
    /\ r \in outbox
    /\ outbox' = {}
    /\ UNCHANGED <<action, retired, due, running, lastRun>>

DeletePendingResult(r) ==
    /\ r \in outbox
    /\ outbox' = outbox \ {r}
    /\ UNCHANGED <<action, retired, due, running, lastRun>>

\* The clock reaches next_execute_at of a row.
BecomesDue(a) ==
    /\ a \in DOMAIN action \ due
    /\ due' = due \cup {a}
    /\ UNCHANGED <<action, retired, running, outbox, lastRun>>

===============================================================================
