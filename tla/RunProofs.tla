------------------------------- MODULE RunProofs ------------------------------
(*****************************************************************************)
(* Proofs about the runs of actions: AgentRuntime, the agent that executes   *)
(* its policy and keeps the results until they are answered, and             *)
(* ResultDelivery, the way of a result from the agent's outbox through       *)
(* breaking streams to the server's table.                                   *)
(*****************************************************************************)
EXTENDS AgentResults, Integers, TLAPS

\* A leaf that names no prover is Z3's, within this many seconds.
USE SMTT(30)

(***************************************************************************)
(* Type correctness.                                                       *)
(***************************************************************************)

\* Finishing the rows F keeps the tables well typed, whichever rows F are
\* (RecordActionResult finishes one row, RecoverInterruptedActions all).
LEMMA FinishTyped ==
    ASSUME NEW F, StoreTypeOK, FinishScheduledRuns(F)
    PROVE  /\ DOMAIN action' = DOMAIN action \ (F \cap retired)
           /\ action' \in [DOMAIN action' -> Definition]
           /\ retired' = retired \ F
           /\ DOMAIN running' = DOMAIN running \ F
           /\ running' \in [DOMAIN running' -> Run]
           /\ due' \subseteq DOMAIN action'
           /\ DOMAIN action' \subseteq ActionId
           /\ retired' \subseteq DOMAIN action'
           /\ DOMAIN running' \subseteq DOMAIN action'
           /\ \A b \in DOMAIN action' : action'[b] = action[b]
           /\ \A b \in DOMAIN running' : running'[b] = running[b]
           /\ lastRun' = lastRun
BY DEF StoreTypeOK, FinishScheduledRuns, DeleteRetiredWork

\* What a reconciliation leaves of the tables, row by row: the rows of the
\* policy, with its definitions, and the retired rows of runs in progress.
LEMMA ReconcileEffect ==
    ASSUME NEW p, StoreTypeOK, ReconcilePolicy(p)
    PROVE  /\ DOMAIN action' = DOMAIN p \cup RetireWork(p)
           /\ \A a \in DOMAIN action' :
                 action'[a] = IF a \in DOMAIN p THEN p[a] ELSE action[a]
           /\ action' = [a \in DOMAIN action' |-> action'[a]]
           /\ retired' = RetireWork(p)
           /\ due' \subseteq DOMAIN action'
           /\ due \cap DOMAIN p \subseteq due'
           /\ UpdateScheduledWork(p) \subseteq due'
           /\ DOMAIN p \ DOMAIN action \subseteq due'
           /\ UNCHANGED <<running, outbox, lastRun>>
BY DEF StoreTypeOK, ReconcilePolicy, ListAllWork, RetireWork, DeleteWork,
       UpdateScheduledWork, InsertScheduledWork

\* A reconciliation keeps the tables well typed.
LEMMA ReconcileTyped ==
    ASSUME NEW p \in Policy, StoreTypeOK, ReconcilePolicy(p)
    PROVE  StoreTypeOK'
<1>1. DOMAIN p \subseteq ActionId /\ p \in [DOMAIN p -> Definition]
  BY DEF Policy
<1>2. DOMAIN action' = DOMAIN p \cup RetireWork(p) /\ RetireWork(p) \subseteq DOMAIN action
  BY ReconcileEffect DEF RetireWork, ListAllWork
<1>3. action' \in [DOMAIN action' -> Definition] /\ DOMAIN action' \subseteq ActionId
  BY <1>1, <1>2, ReconcileEffect DEF StoreTypeOK
<1>4. retired' \subseteq DOMAIN action' /\ due' \subseteq DOMAIN action'
  BY <1>2, ReconcileEffect
<1>5. DOMAIN running \subseteq DOMAIN action'
  BY <1>2 DEF StoreTypeOK, RetireWork, ListAllWork
<1>6. QED
  BY <1>3, <1>4, <1>5, ReconcileEffect, Zenon DEF StoreTypeOK

\* The inductive step of type correctness.
LEMMA TypeStep == TypeOK /\ [Next]_vars => TypeOK'
<1> SUFFICES ASSUME TypeOK, [Next]_vars PROVE TypeOK'
  OBVIOUS
<1> USE MaxRunsAssumption, MaxFaultsAssumption
<1>1. CASE Tick \/ Wake
  BY <1>1 DEF TypeOK, Tick, Wake, storeVars, sessionVars, StoreTypeOK, PC
<1>2. CASE RunDueRecover
  <2>1. FinishScheduledRuns(DOMAIN running)
    BY <1>2 DEF RunDueRecover, RecoverInterruptedActions, ListInterruptedWork,
       InsertResultOutbox
  <2>2. \A a \in DOMAIN running : InterruptedResult(a) \in Result
    BY DEF TypeOK, StoreTypeOK, InterruptedResult, Result, Run, Status
  <2>3. outbox' \subseteq Result
    BY <1>2, <2>2 DEF TypeOK, StoreTypeOK, RunDueRecover, RecoverInterruptedActions,
       ListInterruptedWork, InsertResultOutbox
  <2>4. StoreTypeOK'
    BY <2>1, <2>3, FinishTyped, Zenon DEF TypeOK, StoreTypeOK
  <2>5. inserts' \in [RunId -> Nat]
    BY <1>2 DEF TypeOK, RunDueRecover
  <2>6. lastRun' = lastRun
    BY <2>1, FinishTyped, Zenon DEF TypeOK
  <2>7. QED
    BY <1>2, <2>4, <2>5, <2>6 DEF TypeOK, RunDueRecover, sessionVars, PC
<1>3. CASE RunDueFails \/ SignalResultsReady \/ RunDueReturns
  BY <1>3 DEF TypeOK, RunDueFails, SignalResultsReady, RunDueReturns, Fault,
              storeVars, sessionVars, StoreTypeOK, PC
<1>4. CASE RunDueLoad
  BY <1>4 DEF TypeOK, RunDueLoad, GetDueScheduledWork, storeVars, sessionVars,
     StoreTypeOK, PC
<1>5. ASSUME NEW a \in ActionId, ExecuteActionBegin(a) PROVE TypeOK'
  <2>1. a \in DOMAIN action /\ lastRun + 1 \in RunId
    BY <1>5 DEF TypeOK, StoreTypeOK, ExecuteActionBegin, BeginActionRun,
       BeginScheduledRun, GetRunnableWork, GetDueScheduledWork, RunId
  <2>2. action[a] \in Definition
    BY <2>1 DEF TypeOK, StoreTypeOK
  <2>3. [run_id |-> lastRun + 1, digest |-> ActionDigest(action[a])] \in Run
    BY <2>1, <2>2 DEF Run, Digest
  <2>4. DOMAIN running' = DOMAIN running \cup {a} /\ running' \in [DOMAIN running' -> Run]
    BY <1>5, <2>3 DEF TypeOK, StoreTypeOK, ExecuteActionBegin, BeginActionRun,
       BeginScheduledRun, GetRunnableWork
  <2> /\ action' = action /\ retired' = retired /\ outbox' = outbox
      /\ due' = due \ {a} /\ lastRun' = lastRun + 1
    BY <1>5 DEF ExecuteActionBegin, BeginActionRun, BeginScheduledRun, GetRunnableWork
  <2>5. StoreTypeOK'
    BY <2>1, <2>4 DEF TypeOK, StoreTypeOK, RunId
  <2>6. executed' \in [1..lastRun' -> [action_id : ActionId, action : Definition]]
    BY <1>5, <2>1, <2>2 DEF TypeOK, StoreTypeOK, ExecuteActionBegin, BeginActionRun,
       BeginScheduledRun, GetRunnableWork
  <2>7. current' \in Work
    BY <1>5, <2>1, <2>2 DEF ExecuteActionBegin, Work
  <2>8. QED
    BY <1>5, <2>5, <2>6, <2>7 DEF TypeOK, ExecuteActionBegin, sessionVars, PC
<1>6. ASSUME NEW a \in ActionId, ExecuteActionSkips(a) PROVE TypeOK'
  BY <1>6 DEF TypeOK, ExecuteActionSkips, Fault, storeVars, sessionVars, StoreTypeOK
<1>7. CASE ExecuteActionRecord
  <2>1. current \in Work
    BY <1>7 DEF TypeOK, ExecuteActionRecord
  <2>2. ExecutedResult(current) \in Result
    BY <2>1 DEF Work, ExecutedResult, Result, Digest, Status
  <2>3. FinishScheduledRuns({ExecutedResult(current).action_id})
    BY <1>7 DEF ExecuteActionRecord, RecordActionResult, InsertResultOutbox
  <2>4. outbox' \subseteq Result
    BY <1>7, <2>2 DEF TypeOK, StoreTypeOK, ExecuteActionRecord, RecordActionResult,
       InsertResultOutbox
  <2>5. StoreTypeOK' /\ lastRun' = lastRun
    BY <2>3, <2>4, FinishTyped, Zenon DEF TypeOK, StoreTypeOK
  <2>6. inserts' \in [RunId -> Nat]
    BY <1>7, <2>1 DEF TypeOK, ExecuteActionRecord, Work
  <2>7. QED
    BY <1>7, <2>5, <2>6 DEF TypeOK, ExecuteActionRecord, sessionVars, PC
<1>8. CASE ExecuteActionLosesResult
  BY <1>8 DEF TypeOK, ExecuteActionLosesResult, Fault, storeVars, sessionVars,
     StoreTypeOK, PC
<1>9. CASE Connect \/ Disconnect \/ PullFails \/ ResultsReady
  BY <1>9 DEF TypeOK, Connect, Disconnect, PullFails, ResultsReady, Fault,
              storeVars, schedVars, StoreTypeOK, SessionState
<1>10. ASSUME NEW p \in Policy, PullDesiredPolicy(p) PROVE TypeOK'
  <2>1. StoreTypeOK'
    BY <1>10, ReconcileTyped DEF TypeOK, PullDesiredPolicy
  <2>2. DOMAIN p \subseteq ActionId /\ p \in [DOMAIN p -> Definition]
    BY DEF Policy
  <2>3. lastRun' = lastRun
    BY <1>10 DEF PullDesiredPolicy, ReconcilePolicy
  <2>4. QED
    BY <1>10, <2>1, <2>2, <2>3 DEF TypeOK, PullDesiredPolicy, SessionState
<1>11. CASE SyncLoad \/ SyncFails \/ SyncReturns
  BY <1>11 DEF TypeOK, SyncLoad, GetPendingResults, SyncFails, SyncReturns, Fault,
     storeVars, schedVars,
               StoreTypeOK, SessionState
<1>12. ASSUME NEW r \in sending, SyncSend(r) PROVE TypeOK'
  BY <1>12 DEF TypeOK, SyncSend, Result, storeVars, schedVars, StoreTypeOK, SessionState
<1>13. ASSUME NEW r \in deleting, SyncDelete(r) PROVE TypeOK'
  BY <1>13 DEF TypeOK, SyncDelete, DeletePendingResult, schedVars, StoreTypeOK, SessionState
<1>14. CASE Crash \/ Restart
  BY <1>14 DEF TypeOK, Crash, Restart, Fault, storeVars, sessionVars, StoreTypeOK,
               PC, SessionState
<1>15. ASSUME NEW a \in ActionId, ClockAdvances(a) PROVE TypeOK'
  BY <1>15 DEF TypeOK, ClockAdvances, BecomesDue, schedVars, sessionVars, StoreTypeOK
<1>16. CASE UNCHANGED vars
  BY <1>16 DEF TypeOK, vars, storeVars, schedVars, sessionVars, StoreTypeOK
<1>17. QED
  BY <1>1, <1>2, <1>3, <1>4, <1>5, <1>6, <1>7, <1>8, <1>9, <1>10, <1>11, <1>12, <1>13,
     <1>14, <1>15, <1>16 DEF Next, SchedulerNext, SessionNext

\* Every state of the agent is well typed: in particular a row in progress is a
\* row of the table, and the scheduler executes only with a run in hand.
THEOREM TypeCorrect == Spec => []TypeOK
<1>1. Init => TypeOK
  BY MaxRunsAssumption, MaxFaultsAssumption
     DEF Init, TypeOK, StoreInit, StoreTypeOK, PC, SessionState
<1>2. QED
  BY <1>1, TypeStep, PTL DEF Spec

(***************************************************************************)
(* Every run is accounted for.  The inductive invariant joins what relates *)
(* a row to its run (RowNamesItsRun), the rows to the policy, and the      *)
(* outbox to the runs that were executed.                                  *)
(***************************************************************************)

RunInv ==
    /\ RetiredRowHasRun
    /\ StoreMirrorsPolicy
    /\ RowNamesItsRun
    /\ ExecutingRunKeepsItsRow
    /\ ExactlyOneResult
    /\ ResultNamesExecutedDefinition

\* What RunInv speaks of, the executing run excepted.
ledgerVars == <<action, retired, running, outbox, lastRun, policy, executed, inserts>>

\* A step that leaves the tables and the history alone and does not start an
\* execution preserves RunInv.
LEMMA FrameRunInv ==
    ASSUME RunInv, UNCHANGED ledgerVars,
           pc' = "exec" => pc = "exec" /\ current' = current
    PROVE  RunInv'
BY DEF RunInv, ledgerVars, RetiredRowHasRun, StoreMirrorsPolicy, RowNamesItsRun,
       ExecutingRunKeepsItsRow, FinishScheduledRun, ExecutedResult, ExactlyOneResult,
       InProgress,
       ResultNamesExecutedDefinition

\* RecoverInterruptedActions ends every run in progress with one result each.
LEMMA RecoverRunInv ==
    ASSUME TypeOK, RunInv, RunDueRecover
    PROVE  RunInv'
<1> USE DEF RunInv
<1>1. FinishScheduledRuns(DOMAIN running)
  BY DEF RunDueRecover, RecoverInterruptedActions, ListInterruptedWork, InsertResultOutbox
<1>2. /\ DOMAIN running' = DOMAIN running \ DOMAIN running
      /\ retired' = retired \ DOMAIN running
      /\ DOMAIN action' = DOMAIN action \ (DOMAIN running \cap retired)
      /\ \A b \in DOMAIN action' : action'[b] = action[b]
      /\ lastRun' = lastRun
  BY <1>1, FinishTyped, Zenon DEF TypeOK
<1>3. pc' # "exec" /\ policy' = policy /\ executed' = executed
  BY DEF RunDueRecover
<1>4. RetiredRowHasRun'
  BY <1>2 DEF RetiredRowHasRun
<1>5. StoreMirrorsPolicy'
  <2>1. retired' = {} /\ DOMAIN action' = DOMAIN action \ retired
    BY <1>2 DEF RetiredRowHasRun
  <2>2. DOMAIN action' = DOMAIN policy' /\ \A b \in DOMAIN policy' : action'[b] = policy'[b]
    BY <1>2, <1>3, <2>1 DEF StoreMirrorsPolicy
  <2>3. QED
    BY <2>1, <2>2 DEF StoreMirrorsPolicy
<1>6. RowNamesItsRun' /\ ExecutingRunKeepsItsRow'
  BY <1>2, <1>3 DEF RowNamesItsRun, ExecutingRunKeepsItsRow
<1>7. ExactlyOneResult'
  <2>1. \A r \in RunId : InProgress(r) => r <= lastRun
    BY DEF InProgress, RowNamesItsRun, TypeOK, StoreTypeOK
  <2>2. \A r \in RunId : inserts'[r] = inserts[r] + IF InProgress(r) THEN 1 ELSE 0
    BY DEF RunDueRecover, InProgress
  <2>3. \A r \in RunId : ~InProgress(r)'
    BY <1>2 DEF InProgress
  <2>4. QED
    BY <1>2, <2>1, <2>2, <2>3 DEF ExactlyOneResult
<1>8. ResultNamesExecutedDefinition'
  <2>1. \A a \in DOMAIN running :
           LET r == InterruptedResult(a) IN
           /\ r.run_id \in DOMAIN executed
           /\ r.action_id = executed[r.run_id].action_id
           /\ r.digest = ActionDigest(executed[r.run_id].action)
    BY DEF RowNamesItsRun, InterruptedResult
  <2>2. QED
    BY <1>3, <2>1
       DEF ResultNamesExecutedDefinition, RunDueRecover, RecoverInterruptedActions, ListInterruptedWork, InsertResultOutbox
<1>9. QED
  BY <1>4, <1>5, <1>6, <1>7, <1>8

\* BeginActionRun draws a new run for a row that had none.
LEMMA BeginRunInv ==
    ASSUME TypeOK, RunInv, NEW a \in ActionId, ExecuteActionBegin(a)
    PROVE  RunInv'
<1> USE DEF RunInv
<1> DEFINE n == lastRun + 1
<1>1. /\ a \in DOMAIN action /\ a \notin retired /\ a \notin DOMAIN running
      /\ action' = action /\ retired' = retired /\ outbox' = outbox /\ lastRun' = n
      /\ policy' = policy /\ inserts' = inserts
      /\ current' = [action_id |-> a, run_id |-> n, action |-> action[a]]
  BY Zenon DEF ExecuteActionBegin, BeginActionRun, BeginScheduledRun, GetRunnableWork,
     GetDueScheduledWork, TypeOK, StoreTypeOK
<1>2. /\ DOMAIN running' = DOMAIN running \cup {a}
      /\ running'[a] = [run_id |-> n, digest |-> ActionDigest(action[a])]
      /\ \A b \in DOMAIN running : running'[b] = running[b]
  BY <1>1, Zenon DEF ExecuteActionBegin, BeginActionRun, BeginScheduledRun, GetRunnableWork
<1>3. /\ DOMAIN executed' = 1..n /\ DOMAIN executed = 1..lastRun
      /\ executed'[n] = [action_id |-> a, action |-> action[a]]
      /\ \A r \in DOMAIN executed : executed'[r] = executed[r]
      /\ n \in 1..n /\ 1..lastRun \subseteq 1..n /\ n \notin 1..lastRun /\ n \in RunId
  BY MaxRunsAssumption
     DEF ExecuteActionBegin, BeginActionRun, BeginScheduledRun, GetRunnableWork, TypeOK, StoreTypeOK, RunId
<1> HIDE DEF n
<1>4. RetiredRowHasRun' /\ StoreMirrorsPolicy'
  BY <1>1, <1>2, Zenon DEF RetiredRowHasRun, StoreMirrorsPolicy
<1>5. RowNamesItsRun'
  BY <1>1, <1>2, <1>3 DEF RowNamesItsRun
<1>6. ExecutingRunKeepsItsRow'
  BY <1>1, <1>2 DEF ExecutingRunKeepsItsRow, FinishScheduledRun, ExecutedResult
<1>7. ExactlyOneResult'
  <2>1. \A r \in RunId : InProgress(r)' <=> InProgress(r) \/ r = n
    BY <1>1, <1>2 DEF InProgress
  <2>2. \A r \in RunId : r <= n <=> r <= lastRun \/ r = n
    BY DEF RunId, TypeOK, StoreTypeOK, n
  <2>3. ~(n <= lastRun)
    BY DEF n, TypeOK, StoreTypeOK
  <2>4. QED
    BY <1>1, <2>1, <2>2, <2>3, Zenon DEF ExactlyOneResult
<1>8. ResultNamesExecutedDefinition'
  BY <1>1, <1>3 DEF ResultNamesExecutedDefinition
<1>9. QED
  BY <1>4, <1>5, <1>6, <1>7, <1>8, Zenon

\* RecordActionResult ends the executing run with one result and leaves the
\* other rows alone.
LEMMA RecordRunInv ==
    ASSUME TypeOK, RunInv, ExecuteActionRecord
    PROVE  RunInv'
<1> USE DEF RunInv
<1> DEFINE c == current.action_id
           n == current.run_id
<1>1. /\ current \in Work /\ c \in DOMAIN running
      /\ running[c] = [run_id |-> n, digest |-> ActionDigest(current.action)]
  BY DEF ExecuteActionRecord, RecordActionResult, InsertResultOutbox, FinishScheduledRun,
     ExecutedResult, TypeOK
<1>2. FinishScheduledRuns({c})
  BY DEF ExecuteActionRecord, RecordActionResult, InsertResultOutbox, ExecutedResult
<1>3. /\ DOMAIN running' = DOMAIN running \ {c}
      /\ \A b \in DOMAIN running' : running'[b] = running[b]
      /\ retired' = retired \ {c}
      /\ DOMAIN action' = DOMAIN action \ ({c} \cap retired)
      /\ \A b \in DOMAIN action' : action'[b] = action[b]
      /\ lastRun' = lastRun
  BY <1>2, FinishTyped, Zenon DEF TypeOK
<1>4. pc' # "exec" /\ policy' = policy /\ executed' = executed
  BY DEF ExecuteActionRecord
<1>5. /\ n \in DOMAIN executed /\ executed[n].action_id = c
      /\ ActionDigest(current.action) = ActionDigest(executed[n].action)
      /\ n \in RunId /\ n <= lastRun
  BY <1>1 DEF RowNamesItsRun, TypeOK, StoreTypeOK, Work
<1>6. inserts' = [inserts EXCEPT ![n] = @ + 1]
  BY DEF ExecuteActionRecord
<1>7. outbox' = outbox \cup {[action_id |-> c, run_id |-> n,
                              digest |-> ActionDigest(current.action), status |-> "EXECUTED"]}
  BY DEF ExecuteActionRecord, RecordActionResult, InsertResultOutbox, ExecutedResult
<1> HIDE DEF c, n
<1>8. RetiredRowHasRun'
  BY <1>3 DEF RetiredRowHasRun
<1>9. StoreMirrorsPolicy'
  <2>1. DOMAIN action' \ retired' = DOMAIN action \ retired
    BY <1>1, <1>3, Zenon DEF TypeOK, StoreTypeOK
  <2>2. QED
    BY <1>3, <1>4, <2>1 DEF StoreMirrorsPolicy
<1>10. RowNamesItsRun' /\ ExecutingRunKeepsItsRow'
  BY <1>3, <1>4 DEF RowNamesItsRun, ExecutingRunKeepsItsRow
<1>11. ExactlyOneResult'
  <2>1. InProgress(n)
    BY <1>1 DEF InProgress
  <2>2. \A r \in RunId : r = n => ~InProgress(r)'
    BY <1>1, <1>3, <1>5, ZenonT(30) DEF InProgress, RowNamesItsRun
  <2>3. \A r \in RunId \ {n} : InProgress(r)' <=> InProgress(r)
    BY <1>1, <1>3 DEF InProgress
  <2>4. /\ inserts'[n] = inserts[n] + 1
        /\ \A r \in RunId \ {n} : inserts'[r] = inserts[r]
    BY <1>5, <1>6 DEF TypeOK
  <2>5. inserts'[n] = 1
    BY <1>5, <2>1, <2>4 DEF ExactlyOneResult
  <2>6. QED
    BY <1>3, <1>5, <2>2, <2>3, <2>4, <2>5 DEF ExactlyOneResult
<1>12. ResultNamesExecutedDefinition'
  BY <1>4, <1>5, <1>7 DEF ResultNamesExecutedDefinition
<1>13. QED
  BY <1>8, <1>9, <1>10, <1>11, <1>12

\* A reconciliation deletes no row in progress and changes no run.
LEMMA ReconcileRunInv ==
    ASSUME TypeOK, RunInv, NEW p \in Policy, PullDesiredPolicy(p)
    PROVE  RunInv'
<1> USE DEF RunInv
<1>1. /\ UNCHANGED <<running, outbox, lastRun, executed, inserts, pc, current>>
      /\ policy' = p
      /\ retired' = RetireWork(p)
      /\ DOMAIN action' = DOMAIN p \cup RetireWork(p)
      /\ \A a \in DOMAIN p : action'[a] = p[a]
  BY ReconcileEffect, Zenon DEF PullDesiredPolicy, TypeOK
<1>2. RetireWork(p) \cap DOMAIN p = {} /\ RetireWork(p) \subseteq DOMAIN running
  BY Zenon DEF RetireWork, ListAllWork
<1>3. RetiredRowHasRun' /\ StoreMirrorsPolicy'
  BY <1>1, <1>2, Zenon DEF RetiredRowHasRun, StoreMirrorsPolicy
<1>4. RowNamesItsRun' /\ ExactlyOneResult' /\ ResultNamesExecutedDefinition'
  BY <1>1, Zenon DEF RowNamesItsRun, ExactlyOneResult, InProgress,
     ResultNamesExecutedDefinition
<1>5. ExecutingRunKeepsItsRow'
  BY <1>1 DEF ExecutingRunKeepsItsRow, FinishScheduledRun, ExecutedResult
<1>6. QED
  BY <1>3, <1>4, <1>5

\* The inductive step.
LEMMA RunInvStep == TypeOK /\ RunInv /\ [Next]_vars => RunInv'
<1> SUFFICES ASSUME TypeOK, RunInv, [Next]_vars PROVE RunInv'
  OBVIOUS
<1>1. CASE RunDueRecover
  BY <1>1, RecoverRunInv
<1>2. ASSUME NEW a \in ActionId, ExecuteActionBegin(a) PROVE RunInv'
  BY <1>2, BeginRunInv
<1>3. CASE ExecuteActionRecord
  BY <1>3, RecordRunInv
<1>4. ASSUME NEW p \in Policy, PullDesiredPolicy(p) PROVE RunInv'
  BY <1>4, ReconcileRunInv, Zenon
<1>5. ASSUME NEW r \in deleting, SyncDelete(r) PROVE RunInv'
  BY <1>5, ZenonT(30) DEF RunInv, SyncDelete, DeletePendingResult, schedVars,
     RetiredRowHasRun,
              StoreMirrorsPolicy, RowNamesItsRun, ExecutingRunKeepsItsRow,
              FinishScheduledRun,
              ExecutedResult, ExactlyOneResult, InProgress, ResultNamesExecutedDefinition
<1>6. CASE Tick \/ Wake \/ RunDueFails \/ SignalResultsReady \/ RunDueLoad \/ RunDueReturns
           \/ ExecuteActionLosesResult \/ Crash \/ Restart
  BY <1>6, FrameRunInv DEF Tick, Wake, RunDueFails, SignalResultsReady, RunDueLoad,
     RunDueReturns, ExecuteActionLosesResult, Crash, Restart, ledgerVars, storeVars
<1>7. ASSUME NEW a \in ActionId, ExecuteActionSkips(a) PROVE RunInv'
  BY <1>7, FrameRunInv, Zenon DEF ExecuteActionSkips, ledgerVars, storeVars
<1>8. CASE Connect \/ Disconnect \/ PullFails \/ ResultsReady \/ SyncLoad \/ SyncFails \/ SyncReturns
  BY <1>8, FrameRunInv DEF Connect, Disconnect, PullFails, ResultsReady, SyncLoad,
     GetPendingResults,
     SyncFails, SyncReturns, ledgerVars, storeVars, schedVars
<1>9. ASSUME NEW r \in sending, SyncSend(r) PROVE RunInv'
  BY <1>9, FrameRunInv DEF SyncSend, ledgerVars, storeVars, schedVars
<1>10. ASSUME NEW a \in ActionId, ClockAdvances(a) PROVE RunInv'
  BY <1>10, FrameRunInv DEF ClockAdvances, BecomesDue, ledgerVars, schedVars
<1>11. CASE UNCHANGED vars
  BY <1>11, FrameRunInv DEF vars, ledgerVars, storeVars, schedVars
<1>12. QED
  BY <1>1, <1>2, <1>3, <1>4, <1>5, <1>6, <1>7, <1>8, <1>9, <1>10, <1>11
     DEF Next, SchedulerNext, SessionNext

\* RunInv is an invariant of the agent.
THEOREM RunInvariant == Spec => []RunInv
<1>1. Init => RunInv
  BY DEF Init, StoreInit, RunInv, RetiredRowHasRun, StoreMirrorsPolicy, RowNamesItsRun,
         ExecutingRunKeepsItsRow, ExactlyOneResult, InProgress,
         ResultNamesExecutedDefinition, RunId
<1>2. QED
  BY <1>1, TypeCorrect, RunInvStep, PTL DEF Spec

\* Every run that begins has exactly one result, from the moment its row is no
\* longer in progress (RecordActionResult, RecoverInterruptedActions).
THEOREM OneResultPerRun == Spec => []ExactlyOneResult
BY RunInvariant, PTL DEF RunInv

\* A pending result names the definition its run executed, whatever policy came
\* in between (BeginActionRun, ReconcilePolicy, RecoverInterruptedActions).
THEOREM ResultsNameExecutedDefinition == Spec => []ResultNamesExecutedDefinition
BY RunInvariant, PTL DEF RunInv

\* The row of the run in execution survives every reconciliation.
THEOREM ExecutingRunIsSafe == Spec => []ExecutingRunKeepsItsRow
BY RunInvariant, PTL DEF RunInv

\* The rows that can start are the last reconciled policy, and no retired row
\* outlives its run.
THEOREM StoreFollowsPolicy == Spec => [](StoreMirrorsPolicy /\ RetiredRowHasRun)
BY RunInvariant, PTL DEF RunInv

(***************************************************************************)
(* A changed definition is due.                                            *)
(***************************************************************************)

\* A step that moves no assigned row out of due preserves the property when
\* policy and history stay.
LEMMA FrameDue ==
    ASSUME ChangedDefinitionIsDue, UNCHANGED <<policy, executed>>,
           due \cap DOMAIN policy \subseteq due'
    PROVE  ChangedDefinitionIsDue'
BY DEF ChangedDefinitionIsDue

\* Finishing runs takes retired rows out of due, and those are not assigned.
LEMMA FinishDue ==
    ASSUME NEW F, TypeOK, RunInv, FinishScheduledRuns(F)
    PROVE  due \cap DOMAIN policy \subseteq due'
BY DEF FinishScheduledRuns, DeleteRetiredWork, RunInv, StoreMirrorsPolicy

\* The inductive step, from the typing and the match of store and policy.
LEMMA DueStep == TypeOK /\ RunInv /\ ChangedDefinitionIsDue /\ [Next]_vars => ChangedDefinitionIsDue'
<1> SUFFICES ASSUME TypeOK, RunInv, ChangedDefinitionIsDue, [Next]_vars
             PROVE  ChangedDefinitionIsDue'
  OBVIOUS
<1>1. CASE RunDueRecover
  BY <1>1, FinishDue, FrameDue, Zenon DEF RunDueRecover, RecoverInterruptedActions,
     ListInterruptedWork, InsertResultOutbox
<1>2. ASSUME NEW a \in ActionId, ExecuteActionBegin(a) PROVE ChangedDefinitionIsDue'
  <2> DEFINE n == lastRun + 1
  <2>1. /\ due' = due \ {a} /\ policy' = policy
        /\ a \in DOMAIN action \ retired
    BY <1>2 DEF ExecuteActionBegin, BeginActionRun, BeginScheduledRun, GetRunnableWork,
       GetDueScheduledWork, TypeOK, StoreTypeOK
  <2>2. action[a] = policy[a]
    BY <2>1, Zenon DEF RunInv, StoreMirrorsPolicy
  <2>3. /\ DOMAIN executed' = 1..n /\ DOMAIN executed = 1..lastRun /\ n \in 1..n
        /\ executed'[n] = [action_id |-> a, action |-> action[a]]
        /\ \A r \in 1..lastRun : r \in 1..n /\ executed'[r] = executed[r]
        /\ \A q \in 1..n : q \in 1..lastRun \/ q = n
        /\ \A q \in 1..n : ~(q > n)
    BY <1>2 DEF ExecuteActionBegin, BeginActionRun, BeginScheduledRun, GetRunnableWork,
       TypeOK, StoreTypeOK
  <2> HIDE DEF n
  <2>4. ASSUME NEW b \in DOMAIN policy', b \notin due', b # a
        PROVE  \E r \in DOMAIN executed' :
                   /\ executed'[r] = [action_id |-> b, action |-> policy'[b]]
                   /\ \A q \in DOMAIN executed' : q > r => executed'[q].action_id # b
    <3>1. b \in DOMAIN policy \ due
      BY <2>1, <2>4, Zenon
    <3>2. PICK r \in DOMAIN executed :
              /\ executed[r] = [action_id |-> b, action |-> policy[b]]
              /\ \A q \in DOMAIN executed : q > r => executed[q].action_id # b
      BY <3>1 DEF ChangedDefinitionIsDue
    <3>3. QED
      BY <2>1, <2>3, <2>4, <3>2
  <2>5. QED
    BY <2>1, <2>2, <2>3, <2>4 DEF ChangedDefinitionIsDue
<1>3. CASE ExecuteActionRecord
  BY <1>3, FinishDue, FrameDue DEF ExecuteActionRecord, RecordActionResult,
     InsertResultOutbox
<1>4. ASSUME NEW p \in Policy, PullDesiredPolicy(p) PROVE ChangedDefinitionIsDue'
  <2>1. /\ policy' = p /\ executed' = executed
        /\ due \cap DOMAIN p \subseteq due' /\ UpdateScheduledWork(p) \subseteq due'
        /\ DOMAIN p \ DOMAIN action \subseteq due'
    BY <1>4, ReconcileEffect, Zenon DEF PullDesiredPolicy, TypeOK
  <2>2. \A a \in DOMAIN p \ due' : a \in DOMAIN policy \ due /\ policy[a] = p[a]
    BY <2>1 DEF UpdateScheduledWork, ListAllWork, RunInv, StoreMirrorsPolicy
  <2>3. QED
    BY <2>1, <2>2 DEF ChangedDefinitionIsDue
<1>5. ASSUME NEW r \in deleting, SyncDelete(r) PROVE ChangedDefinitionIsDue'
  BY <1>5, FrameDue, Zenon DEF SyncDelete, DeletePendingResult
<1>6. CASE Tick \/ Wake \/ RunDueFails \/ SignalResultsReady \/ RunDueLoad \/ RunDueReturns
           \/ ExecuteActionLosesResult \/ Crash \/ Restart
  BY <1>6, FrameDue DEF Tick, Wake, RunDueFails, SignalResultsReady, RunDueLoad,
     RunDueReturns, ExecuteActionLosesResult, Crash, Restart, storeVars
<1>7. ASSUME NEW a \in ActionId, ExecuteActionSkips(a) PROVE ChangedDefinitionIsDue'
  BY <1>7, FrameDue, Zenon DEF ExecuteActionSkips, storeVars
<1>8. CASE Connect \/ Disconnect \/ PullFails \/ ResultsReady \/ SyncLoad \/ SyncFails \/ SyncReturns
  BY <1>8, FrameDue DEF Connect, Disconnect, PullFails, ResultsReady, SyncLoad,
     GetPendingResults,
     SyncFails, SyncReturns, storeVars
<1>9. ASSUME NEW r \in sending, SyncSend(r) PROVE ChangedDefinitionIsDue'
  BY <1>9, FrameDue, Zenon DEF SyncSend, storeVars
<1>10. ASSUME NEW a \in ActionId, ClockAdvances(a) PROVE ChangedDefinitionIsDue'
  BY <1>10, FrameDue DEF ClockAdvances, BecomesDue
<1>11. CASE UNCHANGED vars
  BY <1>11, FrameDue DEF vars, storeVars
<1>12. QED
  BY <1>1, <1>2, <1>3, <1>4, <1>5, <1>6, <1>7, <1>8, <1>9, <1>10, <1>11
     DEF Next, SchedulerNext, SessionNext

\* A policy change is never forgotten: an assigned action that is not due ran
\* its present definition last (UpdateScheduledWork, BeginScheduledRun).
THEOREM PolicyChangeIsDue == Spec => []ChangedDefinitionIsDue
<1>1. Init => ChangedDefinitionIsDue
  BY DEF Init, ChangedDefinitionIsDue
<1>2. QED
  BY <1>1, TypeCorrect, RunInvariant, DueStep, PTL DEF Spec

(***************************************************************************)
(* Delivery: no result is lost, and no signal.                             *)
(***************************************************************************)

DeliveryInv ==
    /\ NoResultLost
    /\ NoLostWakeup
    /\ DeletedIsAnswered
    /\ SnapshotCoversOutbox

\* The scheduler adds results to the outbox before it announces them.
LEMMA SchedulerDelivery ==
    ASSUME TypeOK, RunInv, DeliveryInv, SchedulerNext
    PROVE  DeliveryInv'
<1> USE DEF DeliveryInv
<1>1. CASE RunDueRecover
  <2>1. UNCHANGED <<session, sending, deleting, answered, ready>>
    BY <1>1 DEF RunDueRecover, sessionVars
  <2>2. outbox' = outbox \cup {InterruptedResult(a) : a \in DOMAIN running}
    BY <1>1 DEF RunDueRecover, RecoverInterruptedActions, ListInterruptedWork,
       InsertResultOutbox
  <2>3. DOMAIN running = {} => outbox' = outbox
    BY <2>2
  <2>4. pc = "recover" /\ (pc' \notin {"recovered", "recorded"} => DOMAIN running = {})
    BY <1>1 DEF RunDueRecover
  <2>5. NoLostWakeup' /\ SnapshotCoversOutbox' /\ DeletedIsAnswered'
    BY <2>1, <2>3, <2>4 DEF NoLostWakeup, SnapshotCoversOutbox, DeletedIsAnswered
  <2>6. NoResultLost'
    <3>1. \A r \in RunId : inserts'[r] > 0 => inserts[r] > 0 \/ InProgress(r)
      BY <1>1 DEF RunDueRecover, InProgress, TypeOK
    <3>2. \A a \in DOMAIN running :
              InterruptedResult(a) \in outbox' /\ InterruptedResult(a).run_id = running[a].run_id
      BY <2>2 DEF InterruptedResult
    <3>3. QED
      BY <2>1, <2>2, <3>1, <3>2 DEF NoResultLost, InProgress
  <2>7. QED
    BY <2>5, <2>6
<1>2. CASE ExecuteActionRecord
  <2>1. /\ UNCHANGED <<session, sending, deleting, answered, ready>>
        /\ outbox' = outbox \cup {ExecutedResult(current)} /\ pc' = "recorded"
    BY <1>2 DEF ExecuteActionRecord, RecordActionResult, InsertResultOutbox, sessionVars
  <2>2. \A r \in RunId : inserts'[r] > 0 => inserts[r] > 0 \/ r = current.run_id
    BY <1>2 DEF ExecuteActionRecord, TypeOK
  <2>3. ExecutedResult(current).run_id = current.run_id
    BY DEF ExecutedResult
  <2>4. NoResultLost'
    BY <2>1, <2>2, <2>3 DEF NoResultLost
  <2>5. QED
    BY <2>1, <2>4 DEF NoLostWakeup, SnapshotCoversOutbox, DeletedIsAnswered
<1>3. CASE SignalResultsReady
  BY <1>3 DEF SignalResultsReady, storeVars, sessionVars, NoResultLost, NoLostWakeup,
              DeletedIsAnswered, SnapshotCoversOutbox
<1>4. CASE Tick \/ Wake \/ RunDueFails \/ RunDueLoad \/ RunDueReturns \/ ExecuteActionLosesResult
  BY <1>4, Zenon DEF Tick, Wake, RunDueFails, RunDueLoad, RunDueReturns,
     ExecuteActionLosesResult,
              storeVars, sessionVars, NoResultLost, NoLostWakeup, DeletedIsAnswered,
              SnapshotCoversOutbox
<1>5. ASSUME NEW a \in ActionId, ExecuteActionBegin(a) \/ ExecuteActionSkips(a)
      PROVE  DeliveryInv'
  BY <1>5, Zenon DEF ExecuteActionBegin, BeginActionRun, BeginScheduledRun,
     GetRunnableWork, ExecuteActionSkips, storeVars, sessionVars,
              NoResultLost, NoLostWakeup, DeletedIsAnswered, SnapshotCoversOutbox
<1>6. QED
  BY <1>1, <1>2, <1>3, <1>4, <1>5 DEF SchedulerNext

\* The sender takes the token before its snapshot and deletes what was answered.
LEMMA SessionDelivery ==
    ASSUME TypeOK, RunInv, DeliveryInv, SessionNext
    PROVE  DeliveryInv'
<1> USE DEF DeliveryInv, NoResultLost, NoLostWakeup, DeletedIsAnswered, SnapshotCoversOutbox
<1>1. CASE Connect \/ Disconnect \/ PullFails \/ ResultsReady \/ SyncLoad \/ SyncFails \/ SyncReturns
  BY <1>1, Zenon DEF Connect, Disconnect, PullFails, ResultsReady, SyncLoad,
     GetPendingResults, SyncFails, SyncReturns,
              storeVars, schedVars
<1>2. ASSUME NEW p \in Policy, PullDesiredPolicy(p) PROVE DeliveryInv'
  BY <1>2, Zenon DEF PullDesiredPolicy, ReconcilePolicy
<1>3. ASSUME NEW r \in sending, SyncSend(r) PROVE DeliveryInv'
  BY <1>3 DEF SyncSend, storeVars, schedVars
<1>4. ASSUME NEW r \in deleting, SyncDelete(r) PROVE DeliveryInv'
  <2>1. /\ UNCHANGED <<session, sending, answered, ready, inserts, pc>>
        /\ outbox' = outbox \ {r} /\ deleting' = {} /\ r.run_id \in answered
    BY <1>4 DEF SyncDelete, DeletePendingResult, schedVars
  <2>2. NoResultLost' /\ DeletedIsAnswered' /\ NoLostWakeup'
    BY <2>1
  <2>3. SnapshotCoversOutbox'
    BY <2>1, <1>4, Zenon DEF SyncDelete
  <2>4. QED
    BY <2>2, <2>3, Zenon
<1>5. QED
  BY <1>1, <1>2, <1>3, <1>4, Zenon DEF SessionNext

\* The inductive step.
LEMMA DeliveryStep == TypeOK /\ RunInv /\ DeliveryInv /\ [Next]_vars => DeliveryInv'
<1> SUFFICES ASSUME TypeOK, RunInv, DeliveryInv, [Next]_vars PROVE DeliveryInv'
  OBVIOUS
<1>1. CASE SchedulerNext
  BY <1>1, SchedulerDelivery
<1>2. CASE SessionNext
  BY <1>2, SessionDelivery, Zenon
<1> USE DEF DeliveryInv, NoResultLost, NoLostWakeup, DeletedIsAnswered, SnapshotCoversOutbox
<1>3. CASE Crash \/ Restart
  BY <1>3, Zenon DEF Crash, Restart, storeVars, sessionVars
<1>4. ASSUME NEW a \in ActionId, ClockAdvances(a) PROVE DeliveryInv'
  BY <1>4, Zenon DEF ClockAdvances, BecomesDue, schedVars, sessionVars
<1>5. CASE UNCHANGED vars
  BY <1>5 DEF vars, storeVars, schedVars, sessionVars
<1>6. QED
  BY <1>1, <1>2, <1>3, <1>4, <1>5 DEF Next

\* DeliveryInv is an invariant of the agent.
THEOREM DeliveryInvariant == Spec => []DeliveryInv
<1>1. Init => DeliveryInv
  BY DEF Init, StoreInit, DeliveryInv, NoResultLost, NoLostWakeup, DeletedIsAnswered,
         SnapshotCoversOutbox
<1>2. QED
  BY <1>1, TypeCorrect, RunInvariant, DeliveryStep, PTL DEF Spec

\* A result leaves the outbox only once the server answered it
\* (syncPendingResults).
THEOREM OutboxIsDurable == Spec => []NoResultLost
BY DeliveryInvariant, PTL DEF DeliveryInv

\* The sender never waits beside a pending result it was not told of, except
\* after a pass that failed (signalResultsReady, sendScheduledResults).
THEOREM NoWakeupIsLost == Spec => []NoLostWakeup
BY DeliveryInvariant, PTL DEF DeliveryInv

-------------------------------------------------------------------------------
(*****************************************************************************)
(* The way of a result, for any runs, actions and broken streams: the outbox *)
(* is what is left of the submitted results, the sender works at its front,  *)
(* and the server has seen nothing beyond it. From that, each result is      *)
(* recorded once and in order, and the pipeline implements the ledger        *)
(* (ResultLedger).                                                           *)
(*****************************************************************************)

\* How many results have left the outbox.
Gone == Len(submitted) - Len(pending)

\* The results the sender has come to: those that left the outbox, and its head.
Sent == {submitted[i] : i \in {j \in DOMAIN submitted : j <= Gone + 1}}

Recorded == {r \in Runs : audit[r] > 0}

Types ==
    /\ pending \in Seq(Runs)
    /\ submitted \in Seq(Runs)
    /\ snapshot \in Seq(Runs)
    /\ down \subseteq [run : Runs, code : delivery!Code]
    /\ audit \in [Runs -> Nat]
    /\ assigned \subseteq Action
    /\ deleted \subseteq Action
    /\ results \subseteq Runs

\* The outbox is what is left of the submitted results after the first of them
\* were forgotten: the sender deletes from the front only.
OutboxInv ==
    /\ Len(pending) <= Len(submitted)
    /\ \A i \in 1..Len(pending) : pending[i] = submitted[Gone + i]
    /\ \A i, j \in DOMAIN submitted : submitted[i] = submitted[j] => i = j
    /\ forgotten = {submitted[i] : i \in 1..Gone}

\* While the sender works, what it has still to send begins the outbox.
SnapshotInv ==
    sender \in {"send", "await", "delete"} =>
        /\ snapshot # <<>>
        /\ Len(snapshot) <= Len(pending)
        /\ \A i \in 1..Len(snapshot) : snapshot[i] = pending[i]

\* Nothing beyond the head of the outbox has reached the server.
SentInv == up \cup late \cup refused \cup Recorded \subseteq Sent

\* An answer, and so a deletion, follows the server's decision.
AnswerInv ==
    /\ \A ack \in down : ack.run \in Recorded \cup refused
    /\ sender = "delete" => Head(snapshot) \in Recorded \cup refused

TableInv ==
    /\ assigned \cap deleted = {}
    /\ \A r \in Runs :
          /\ audit[r] <= 1
          /\ r \in results <=> audit[r] = 1 /\ ActionOf[r] \notin deleted

PipelineInv ==
    /\ Types
    /\ OutboxInv
    /\ SnapshotInv
    /\ SentInv
    /\ AnswerInv
    /\ TableInv

-------------------------------------------------------------------------------

\* The invariant holds before the first result.
LEMMA InitInv == delivery!Init => PipelineInv
<1> SUFFICES ASSUME delivery!Init PROVE PipelineInv
    OBVIOUS
<1> USE DEF delivery!Init
<1>1. Types /\ TableInv
  BY DEF Types, TableInv, delivery!Code
<1>2. OutboxInv
  BY DEF OutboxInv, Gone
<1>3. SnapshotInv /\ AnswerInv
  BY DEF SnapshotInv, AnswerInv
<1>4. SentInv
  BY DEF SentInv, Recorded
<1> QED
  BY <1>1, <1>2, <1>3, <1>4 DEF PipelineInv

\* Deleting the head of the outbox leaves its tail (DeletePendingResult).
LEMMA RemoveHead ==
    ASSUME NEW s \in Seq(Runs), s # <<>>
    PROVE  delivery!deleteRow(s, Head(s)) = Tail(s)
<1> DEFINE first == {i \in DOMAIN s : s[i] = Head(s) /\ \A j \in 1..(i - 1) : s[j] # Head(s)}
<1>1. Len(s) \in Nat /\ Len(s) >= 1 /\ s[1] = Head(s) /\ DOMAIN s = 1..Len(s)
  OBVIOUS
<1>2. first = {1}
  BY <1>1
<1>3. delivery!deleteRow(s, Head(s)) = SubSeq(s, 1, 0) \o SubSeq(s, 2, Len(s))
  BY <1>2 DEF delivery!deleteRow
<1> QED
  BY <1>1, <1>3

-------------------------------------------------------------------------------
(* Each action keeps the invariant. *)

\* What only the outbox and the results submitted determine.
LEMMA SameOutbox ==
    ASSUME UNCHANGED <<pending, submitted>>
    PROVE  Gone' = Gone /\ Sent' = Sent
BY DEF Gone, Sent

LEMMA SameSnapshot ==
    ASSUME UNCHANGED <<pending, submitted, forgotten, sender, snapshot>>, OutboxInv, SnapshotInv
    PROVE  OutboxInv' /\ SnapshotInv'
<1>1. Gone' = Gone
  BY SameOutbox, Zenon
<1>2. OutboxInv'
  BY <1>1, Zenon DEF OutboxInv
<1>3. SnapshotInv'
  BY Zenon DEF SnapshotInv
<1> QED
  BY <1>2, <1>3, Zenon

\* A step of the sender alone: what it has sent and what was recorded stay.
LEMMA SenderStep ==
    ASSUME PipelineInv,
           UNCHANGED <<pending, submitted, forgotten, late, refused, delivery!serverVars>>,
           snapshot' \in Seq(Runs), up' \subseteq Sent, down' \subseteq down,
           SnapshotInv', sender' = "delete" => Head(snapshot') \in Recorded \cup refused
    PROVE  PipelineInv'
<1> USE SameOutbox DEF PipelineInv, delivery!serverVars
<1>1. Types' /\ TableInv'
  BY DEF Types, TableInv
<1>2. OutboxInv'
  BY DEF OutboxInv
<1>3. Recorded' = Recorded
  BY DEF Recorded
<1>4. SentInv' /\ AnswerInv'
  BY <1>3 DEF SentInv, AnswerInv
<1> QED
  BY <1>1, <1>2, <1>4

\* The results of the outbox, in the order they were recorded (RecordActionResult).
LEMMA SentAreRuns ==
    ASSUME PipelineInv
    PROVE  submitted \in [DOMAIN submitted -> Runs]
<1>1. submitted \in Seq(Runs)
  BY Zenon DEF PipelineInv, Types
<1> QED
  BY <1>1

LEMMA HeadIsSent ==
    ASSUME PipelineInv, sender \in {"send", "await", "delete"}
    PROVE  /\ pending # <<>> /\ Head(snapshot) = Head(pending)
           /\ Gone \in Nat /\ Gone + 1 \in DOMAIN submitted
           /\ Head(snapshot) = submitted[Gone + 1]
           /\ Head(snapshot) \in Sent
<1> USE DEF PipelineInv, Types
<1>1. snapshot # <<>> /\ Len(snapshot) <= Len(pending) /\ snapshot[1] = pending[1]
  BY DEF SnapshotInv
<1>2. Len(snapshot) \in Nat /\ Len(snapshot) >= 1 /\ Len(pending) \in Nat /\ Len(submitted) \in Nat
  BY <1>1
<1>3. Gone \in Nat /\ Gone + 1 \in DOMAIN submitted
  <2>1. Len(pending) \in Nat /\ Len(pending) >= 1 /\ Len(pending) <= Len(submitted)
    BY <1>1, <1>2 DEF OutboxInv
  <2> QED
    BY <1>2, <2>1 DEF Gone
<1>4. pending[1] = submitted[Gone + 1]
  BY <1>1, <1>2 DEF OutboxInv
<1> QED
  BY <1>1, <1>2, <1>3, <1>4 DEF Sent

LEMMA ConnectPreserves == PipelineInv /\ (delivery!Connect \/ delivery!ResultsReady) => PipelineInv'
<1> SUFFICES ASSUME PipelineInv, delivery!Connect \/ delivery!ResultsReady PROVE PipelineInv'
    BY Zenon
<1>1. UNCHANGED <<pending, submitted, forgotten, late, refused, delivery!serverVars, snapshot, up, down>>
      /\ sender' = "load"
  BY DEF delivery!Connect, delivery!ResultsReady
<1>2. SnapshotInv'
  BY <1>1 DEF SnapshotInv
<1>3. snapshot' \in Seq(Runs) /\ up' \subseteq Sent
  BY <1>1 DEF PipelineInv, Types, SentInv
<1> QED
  BY <1>1, <1>2, <1>3, SenderStep

LEMMA GetPendingResultsPreserves == PipelineInv /\ delivery!GetPendingResults => PipelineInv'
<1> SUFFICES ASSUME PipelineInv, delivery!GetPendingResults PROVE PipelineInv'
    OBVIOUS
<1> USE DEF delivery!GetPendingResults
<1>1. SnapshotInv'
  BY DEF SnapshotInv, PipelineInv, Types
<1>2. snapshot' \in Seq(Runs) /\ up' \subseteq Sent /\ sender' # "delete"
  BY Zenon DEF PipelineInv, Types, SentInv
<1> QED
  BY <1>1, <1>2, SenderStep

LEMMA SendActionResultPreserves == PipelineInv /\ delivery!SendActionResult => PipelineInv'
<1> SUFFICES ASSUME PipelineInv, delivery!SendActionResult PROVE PipelineInv'
    OBVIOUS
<1> USE DEF delivery!SendActionResult
<1>1. SnapshotInv'
  BY DEF SnapshotInv, PipelineInv
<1>2. snapshot' \in Seq(Runs) /\ up' \subseteq Sent
  BY HeadIsSent DEF PipelineInv, Types
<1> QED
  BY <1>1, <1>2, SenderStep

LEMMA SendFailsPreserves == PipelineInv /\ delivery!SendActionResultFails => PipelineInv'
<1> SUFFICES ASSUME PipelineInv, delivery!SendActionResultFails PROVE PipelineInv'
    OBVIOUS
<1> USE DEF delivery!SendActionResultFails
<1>1. SnapshotInv'
  BY Zenon DEF SnapshotInv
<1>2. snapshot' \in Seq(Runs) /\ up' \subseteq Sent
  BY DEF PipelineInv, SentInv
<1> QED
  BY <1>1, <1>2, SenderStep, Zenon

\* The answer received is the one to the result in flight.
LEMMA ReceiveAckPreserves == PipelineInv /\ delivery!ReceiveAck => PipelineInv'
<1> SUFFICES ASSUME PipelineInv, delivery!ReceiveAck PROVE PipelineInv'
    OBVIOUS
<1> USE DEF delivery!ReceiveAck
<1>1. SnapshotInv'
  BY Zenon DEF SnapshotInv, PipelineInv
<1>2. snapshot' \in Seq(Runs) /\ up' \subseteq Sent
  BY DEF PipelineInv, Types, SentInv
<1>3. Head(snapshot') \in Recorded \cup refused
  BY DEF PipelineInv, AnswerInv
<1> QED
  BY <1>1, <1>2, <1>3, SenderStep, Zenon

\* A new result goes behind everything submitted before it.
LEMMA RecordPreserves ==
    ASSUME PipelineInv, NEW r \in Runs, delivery!RecordActionResult(r)
    PROVE  PipelineInv'
<1>0. UNCHANGED <<sender, snapshot, up, down, late, assigned, deleted, results, audit,
                refused, forgotten>>
  BY Zenon DEF delivery!RecordActionResult, delivery!serverVars
<1>1. Types' /\ TableInv'
  BY <1>0 DEF PipelineInv, Types, TableInv, delivery!RecordActionResult
<1>2. /\ Len(pending) \in Nat /\ Len(submitted) \in Nat
      /\ Len(pending') = Len(pending) + 1 /\ Len(submitted') = Len(submitted) + 1
      /\ pending'[Len(pending) + 1] = r /\ submitted'[Len(submitted) + 1] = r
      /\ \A i \in 1..Len(pending) : pending'[i] = pending[i]
      /\ \A i \in 1..Len(submitted) : submitted'[i] = submitted[i]
      /\ DOMAIN submitted = 1..Len(submitted) /\ DOMAIN submitted' = 1..Len(submitted')
  BY DEF PipelineInv, Types, delivery!RecordActionResult
<1>3. Len(pending) <= Len(submitted) /\ Gone \in Nat /\ Gone' = Gone /\ Gone <= Len(submitted)
      /\ Gone + Len(pending) = Len(submitted)
  BY <1>2 DEF Gone, OutboxInv, PipelineInv
<1>4. OutboxInv'
  <2>1. \A i \in 1..Len(pending') : pending'[i] = submitted'[Gone' + i]
    <3> SUFFICES ASSUME NEW i \in 1..Len(pending') PROVE pending'[i] = submitted'[Gone + i]
      BY <1>3, Zenon
    <3>1. CASE i \in 1..Len(pending)
      <4>1. pending[i] = submitted[Gone + i]
        BY <3>1, Zenon DEF OutboxInv, PipelineInv
      <4>2. Gone + i \in 1..Len(submitted)
        BY <3>1, <1>2, <1>3
      <4> QED
        BY <4>1, <4>2, <3>1, <1>2, Zenon
    <3>2. CASE i = Len(pending) + 1
      <4>1. Gone + i = Len(submitted) + 1
        BY <1>2, <1>3, <3>2
      <4> QED
        BY <4>1, <3>2, <1>2
    <3> QED
      BY <3>1, <3>2, <1>2
  <2>2. \A i, j \in DOMAIN submitted' : submitted'[i] = submitted'[j] => i = j
    <3>1. \A i \in 1..Len(submitted) : submitted[i] # r
      BY <1>2, Zenon DEF delivery!Range, delivery!RecordActionResult
    <3>2. \A i, j \in 1..Len(submitted) : submitted[i] = submitted[j] => i = j
      BY <1>2 DEF OutboxInv, PipelineInv
    <3>3. \A i \in 1..Len(submitted') : i \in 1..Len(submitted) \/ i = Len(submitted) + 1
      <4>1. Len(submitted) \in Nat /\ Len(submitted') = Len(submitted) + 1
        BY <1>2, Zenon
      <4> QED
        BY <4>1
    <3> QED
      BY <3>1, <3>2, <3>3, <1>2, Zenon
  <2>3. forgotten' = {submitted'[i] : i \in 1..Gone'}
    <3>1. \A i \in 1..Gone : submitted'[i] = submitted[i]
      BY <1>2, <1>3
    <3> QED
      BY <3>1, <1>0, <1>3 DEF OutboxInv, PipelineInv
  <2> QED
    BY <2>1, <2>2, <2>3, <1>2, <1>3 DEF OutboxInv
<1>5. SnapshotInv'
  BY <1>0, <1>2 DEF SnapshotInv, PipelineInv, Types
<1>6. Sent \subseteq Sent'
  <2>1. \A i \in DOMAIN submitted : i \in DOMAIN submitted' /\ submitted'[i] = submitted[i]
    BY <1>2
  <2> QED
    BY <2>1, <1>3, Zenon DEF Sent
<1>7. SentInv' /\ AnswerInv'
  BY <1>0, <1>6, Zenon DEF SentInv, AnswerInv, Recorded, PipelineInv
<1> QED
  BY <1>1, <1>4, <1>5, <1>7 DEF PipelineInv

\* The result answered is the head of the outbox, and leaves it.
LEMMA DeletePreserves == PipelineInv /\ delivery!DeletePendingResult => PipelineInv'
<1> SUFFICES ASSUME PipelineInv, delivery!DeletePendingResult PROVE PipelineInv'
    OBVIOUS
<1> USE DEF PipelineInv, Types
<1>0. /\ sender = "delete" /\ sender' \in {"idle", "send"}
      /\ snapshot' = Tail(snapshot) /\ (sender' = "send" => snapshot' # <<>>)
      /\ UNCHANGED <<up, down, late, assigned, deleted, results, audit, submitted, refused>>
  BY DEF delivery!DeletePendingResult, delivery!serverVars
<1>1. pending' = Tail(pending) /\ pending # <<>>
  BY <1>0, HeadIsSent, RemoveHead, Zenon DEF delivery!DeletePendingResult
<1>2. /\ Len(pending) \in Nat /\ Len(submitted) \in Nat
      /\ Len(pending') = Len(pending) - 1
      /\ \A i \in 1..Len(pending') : pending'[i] = pending[i + 1]
      /\ pending' \in Seq(Runs)
  BY <1>1
<1>3. Gone \in Nat /\ Gone' = Gone + 1 /\ Gone + 1 \in DOMAIN submitted
  <2>1. Gone \in Nat /\ Gone + 1 \in DOMAIN submitted
    BY <1>0, HeadIsSent
  <2>2. Len(submitted') = Len(submitted)
    BY <1>0
  <2> QED
    BY <2>1, <2>2, <1>2 DEF Gone
<1>4. /\ snapshot # <<>> /\ Len(snapshot) \in Nat
      /\ Len(snapshot') = Len(snapshot) - 1
      /\ \A i \in 1..Len(snapshot') : snapshot'[i] = snapshot[i + 1]
      /\ snapshot' \in Seq(Runs)
  BY <1>0 DEF SnapshotInv
<1>5. Types' /\ TableInv'
  BY <1>0, <1>2, <1>4, Zenon DEF TableInv
<1>6. OutboxInv'
  <2>1. \A i \in 1..Len(pending') : pending'[i] = submitted'[Gone' + i]
    <3> SUFFICES ASSUME NEW i \in 1..Len(pending') PROVE pending'[i] = submitted[Gone' + i]
      BY <1>0
    <3>1. i + 1 \in 1..Len(pending) /\ Gone' + i = Gone + (i + 1)
      BY <1>2, <1>3
    <3> QED
      BY <3>1, <1>2, Zenon DEF OutboxInv
  <2>2. forgotten' = {submitted'[i] : i \in 1..Gone'}
    <3>1. forgotten' = {submitted[i] : i \in 1..Gone} \cup {submitted[Gone + 1]}
      BY <1>0, HeadIsSent, Zenon DEF OutboxInv, delivery!DeletePendingResult
    <3>2. 1..Gone' = (1..Gone) \cup {Gone + 1}
      BY <1>3
    <3>3. UNCHANGED submitted
      BY <1>0, Zenon
    <3> QED
      BY <3>1, <3>2, <3>3, Zenon
  <2>3. Len(pending') <= Len(submitted') /\ UNCHANGED submitted
    BY <1>0, <1>2 DEF OutboxInv
  <2> QED
    BY <2>1, <2>2, <2>3 DEF OutboxInv
<1>7. SnapshotInv'
  <2> SUFFICES ASSUME sender' = "send"
               PROVE  /\ snapshot' # <<>>
                      /\ Len(snapshot') <= Len(pending')
                      /\ \A i \in 1..Len(snapshot') : snapshot'[i] = pending'[i]
    BY <1>0, Zenon DEF SnapshotInv
  <2>1. Len(snapshot) <= Len(pending) /\ \A i \in 1..Len(snapshot) : snapshot[i] = pending[i]
    BY <1>0, Zenon DEF SnapshotInv
  <2>2. \A i \in 1..Len(snapshot') : i + 1 \in 1..Len(snapshot) /\ i \in 1..Len(pending')
    BY <2>1, <1>2, <1>4
  <2>3. Len(snapshot') <= Len(pending')
    BY <2>1, <1>2, <1>4
  <2>4. \A i \in 1..Len(snapshot') : snapshot'[i] = pending'[i]
    BY <2>1, <2>2, <1>2, <1>4, ZenonT(30)
  <2> QED
    BY <2>3, <2>4, <1>0
<1>8. Sent \subseteq Sent'
  BY <1>0, <1>3 DEF Sent
<1>9. SentInv' /\ AnswerInv'
  BY <1>0, <1>8, Zenon DEF SentInv, AnswerInv, Recorded
<1> QED
  BY <1>5, <1>6, <1>7, <1>9

LEMMA BreakStreamPreserves == PipelineInv /\ delivery!BreakStream => PipelineInv'
<1> SUFFICES ASSUME PipelineInv, delivery!BreakStream PROVE PipelineInv'
    OBVIOUS
<1> USE SameOutbox DEF PipelineInv, Types, delivery!BreakStream, delivery!serverVars
<1>1. Types' /\ TableInv'
  BY DEF TableInv
<1>2. OutboxInv' /\ SnapshotInv'
  BY ZenonT(30) DEF OutboxInv, SnapshotInv
<1>3. SentInv' /\ AnswerInv'
  BY Zenon DEF SentInv, AnswerInv, Recorded
<1> QED
  BY <1>1, <1>2, <1>3, Zenon

-------------------------------------------------------------------------------

\* storeActionResult decides about its run, and about no other, and never takes
\* a decision back.
LEMMA StoreDecides ==
    ASSUME PipelineInv, NEW r \in Runs, delivery!storeActionResult(r)
    PROVE  /\ results' \subseteq Runs /\ audit' \in [Runs -> Nat] /\ TableInv'
           /\ Recorded \subseteq Recorded' /\ refused \subseteq refused'
           /\ Recorded' \cup refused' \subseteq Recorded \cup refused \cup {r}
           /\ r \in Recorded' \cup refused'
<1> USE DEF PipelineInv, Types, delivery!storeActionResult, delivery!Verdict
<1>1. results' \subseteq Runs /\ audit' \in [Runs -> Nat]
  OBVIOUS
<1>2. TableInv'
  <2>1. CASE r \in results
    BY <2>1, <1>1, ZenonT(30) DEF TableInv
  <2>2. CASE r \notin results /\ ActionOf[r] \in assigned
    <3>1. audit[r] = 0 /\ ActionOf[r] \notin deleted
      BY <2>2 DEF TableInv
    <3>2. results' = results \cup {r} /\ audit' = [audit EXCEPT ![r] = @ + 1]
      BY <2>2, Zenon
    <3> QED
      BY <3>1, <3>2 DEF TableInv
  <2>3. CASE r \notin results /\ ActionOf[r] \notin assigned
    BY <2>3, <1>1, Zenon DEF TableInv
  <2> QED
    BY <2>1, <2>2, <2>3, Zenon
<1>3. Recorded' \cup refused' \subseteq Recorded \cup refused \cup {r}
      /\ Recorded \subseteq Recorded' /\ refused \subseteq refused'
  BY DEF Recorded
<1>4. r \in Recorded' \cup refused'
  BY DEF Recorded, TableInv
<1> QED
  BY <1>1, <1>2, <1>3, <1>4, Zenon

\* A result that the server handles is one the sender has come to.
LEMMA HandlePreserves ==
    ASSUME PipelineInv, NEW r \in Runs, delivery!HandleActionResult(r) \/ delivery!HandleLate(r)
    PROVE  PipelineInv'
<1> USE SameOutbox DEF PipelineInv, Types, delivery!agentVars
<1>1. /\ delivery!storeActionResult(r) /\ r \in Sent
      /\ UNCHANGED <<delivery!agentVars, submitted, forgotten>>
      /\ up' \subseteq up /\ late' \subseteq late
      /\ \A ack \in down' : ack \in down \/ ack = [run |-> r, code |-> delivery!Verdict(r)]
  BY Zenon DEF delivery!HandleActionResult, delivery!HandleLate, SentInv
<1>2. UNCHANGED <<assigned, deleted>>
  BY <1>1, ZenonT(30) DEF delivery!storeActionResult
<1>3. Types'
  BY <1>1, <1>2, StoreDecides DEF delivery!Verdict, delivery!Code
<1>4. OutboxInv' /\ SnapshotInv'
  BY <1>1, Zenon DEF OutboxInv, SnapshotInv
<1>5. SentInv'
  <2>1. Sent' = Sent
    BY <1>1, SameOutbox, Zenon
  <2>2. refused' \cup Recorded' \subseteq Recorded \cup refused \cup {r}
    BY <1>1, StoreDecides, Zenon
  <2> QED
    BY <1>1, <2>1, <2>2, Zenon DEF SentInv
<1>6. AnswerInv'
  <2>1. /\ Recorded \cup refused \subseteq Recorded' \cup refused'
        /\ r \in Recorded' \cup refused'
    BY <1>1, StoreDecides, Zenon
  <2>2. [run |-> r, code |-> delivery!Verdict(r)].run = r
    OBVIOUS
  <2>3. \A ack \in down' : ack.run \in Recorded' \cup refused'
    BY <1>1, <2>1, <2>2, Zenon DEF AnswerInv
  <2>4. sender' = "delete" => Head(snapshot') \in Recorded' \cup refused'
    BY <1>1, <2>1, Zenon DEF AnswerInv
  <2> QED
    BY <2>3, <2>4, Zenon DEF AnswerInv
<1> QED
  BY <1>1, <1>3, <1>4, <1>5, <1>6, StoreDecides, Zenon

LEMMA DropLatePreserves ==
    ASSUME PipelineInv, NEW r \in Runs, delivery!DropLate(r)
    PROVE  PipelineInv'
<1> USE SameOutbox DEF PipelineInv, Types, delivery!DropLate, delivery!agentVars,
        delivery!serverVars
<1>1. Types' /\ TableInv'
  BY Zenon DEF TableInv
<1>2. OutboxInv' /\ SnapshotInv'
  BY Zenon DEF OutboxInv, SnapshotInv
<1>3. SentInv' /\ AnswerInv'
  BY Zenon DEF SentInv, AnswerInv, Recorded
<1> QED
  BY <1>1, <1>2, <1>3, Zenon

\* The administrator's actions do not touch what was decided.
LEMMA AdminPreserves ==
    ASSUME PipelineInv, NEW a \in Action,
           delivery!CreateAssignment(a) \/ delivery!DeleteAssignment(a) \/ delivery!DeleteAction(a)
    PROVE  PipelineInv'
<1> USE SameOutbox
    DEF PipelineInv, Types, delivery!agentVars, delivery!CreateAssignment, delivery!DeleteAssignment, delivery!DeleteAction
<1>1. Types'
  BY Zenon
<1>2. TableInv'
  <2>1. CASE delivery!CreateAssignment(a) \/ delivery!DeleteAssignment(a)
    BY <2>1, Zenon DEF TableInv
  <2>2. CASE delivery!DeleteAction(a)
    <3>1. \A r \in Runs : r \in results' <=> r \in results /\ ActionOf[r] # a
      BY <2>2, Zenon
    <3>2. UNCHANGED audit /\ deleted' = deleted \cup {a} /\ assigned' = assigned \ {a}
      BY <2>2, Zenon
    <3> QED
      BY <3>1, <3>2, Zenon DEF TableInv
  <2> QED
    BY <2>1, <2>2, Zenon
<1>3. OutboxInv' /\ SnapshotInv'
  <2>1. UNCHANGED <<pending, submitted, forgotten, sender, snapshot>>
    BY Zenon
  <2> QED
    BY <2>1, SameSnapshot, Zenon
<1>4. SentInv' /\ AnswerInv'
  BY Zenon DEF SentInv, AnswerInv, Recorded
<1> QED
  BY <1>1, <1>2, <1>3, <1>4, Zenon

-------------------------------------------------------------------------------
(* The theorems. *)

LEMMA HandledAreRuns == PipelineInv => up \subseteq Runs /\ late \subseteq Runs
BY DEF PipelineInv, Types, SentInv, Sent

LEMMA NextPreserves == PipelineInv /\ [delivery!Next]_delivery!vars => PipelineInv'
<1> SUFFICES ASSUME PipelineInv, [delivery!Next]_delivery!vars PROVE PipelineInv'
    BY Zenon
<1>1. CASE UNCHANGED delivery!vars
  <2>1. UNCHANGED <<pending, submitted, forgotten, late, refused, delivery!serverVars, snapshot, up,
                    down, sender>>
    BY <1>1, Zenon DEF delivery!vars, delivery!agentVars
  <2>2. SnapshotInv' /\ snapshot' \in Seq(Runs) /\ up' \subseteq Sent
    BY <2>1 DEF PipelineInv, SnapshotInv, Types, SentInv
  <2>3. sender' = "delete" => Head(snapshot') \in Recorded \cup refused
    BY <2>1 DEF PipelineInv, AnswerInv
  <2> QED
    BY <2>1, <2>2, <2>3, SenderStep, Zenon
<1>2. CASE \E r \in Runs : delivery!RecordActionResult(r)
  BY <1>2, RecordPreserves
<1>3. CASE delivery!Connect \/ delivery!ResultsReady \/ delivery!GetPendingResults \/ delivery!SendActionResult
           \/ delivery!SendActionResultFails \/ delivery!ReceiveAck \/ delivery!DeletePendingResult \/ delivery!BreakStream
  BY <1>3, ConnectPreserves, GetPendingResultsPreserves, SendActionResultPreserves,
     SendFailsPreserves, ReceiveAckPreserves, DeletePreserves, BreakStreamPreserves
<1>4. CASE \/ \E r \in up : delivery!HandleActionResult(r)
           \/ \E r \in late : delivery!HandleLate(r) \/ delivery!DropLate(r)
  BY <1>4, HandledAreRuns, HandlePreserves, DropLatePreserves
<1>5. CASE \E a \in Action : delivery!CreateAssignment(a) \/ delivery!DeleteAssignment(a) \/ delivery!DeleteAction(a)
  BY <1>5, AdminPreserves
<1> QED
  BY <1>1, <1>2, <1>3, <1>4, <1>5 DEF delivery!Next

\* The inductive invariant holds: the outbox is the tail of what was submitted,
\* the sender works at its front, and the server has seen nothing beyond it.
THEOREM PipelineInvariant == delivery!Spec => []PipelineInv
BY InitInv, NextPreserves, PTL DEF delivery!Spec

\* Results are recorded once and reach the server in the order in which the
\* agent recorded them, however often streams break and messages are sent again.
THEOREM AlwaysRecordedOnceInOrder == delivery!Spec => []RecordedOnceInOrder
<1>1. PipelineInv => RecordedOnceInOrder
  <2> SUFFICES ASSUME PipelineInv PROVE delivery!RecordedOnceInOrder
    BY Zenon DEF RecordedOnceInOrder
  <2>1. ASSUME NEW i \in DOMAIN submitted, NEW j \in DOMAIN submitted, i < j,
               submitted[j] \in up \cup late \cup refused \/ audit[submitted[j]] > 0
        PROVE  submitted[i] \in forgotten
    <3>1. i \in Nat /\ i >= 1 /\ j \in Nat /\ Gone \in Int /\ submitted[j] \in Runs
      BY DEF PipelineInv, Types, Gone
    <3>2. submitted[j] \in Sent
      BY <2>1, <3>1, Zenon DEF PipelineInv, SentInv, Recorded
    <3>3. PICK k \in DOMAIN submitted : k <= Gone + 1 /\ submitted[k] = submitted[j]
      BY <3>2, Zenon DEF Sent
    <3>4. k = j
      BY <3>3 DEF PipelineInv, OutboxInv
    <3>5. i \in 1..Gone
      BY <3>1, <3>3, <3>4, <2>1
    <3> QED
      BY <3>5 DEF PipelineInv, OutboxInv
  <2> QED
    BY <2>1 DEF delivery!RecordedOnceInOrder, PipelineInv, TableInv
<1> QED
  BY <1>1, PipelineInvariant, PTL

\* A step of storeActionResult is a record, a refusal or nothing to the ledger.
LEMMA StoreRefines ==
    ASSUME PipelineInv, NEW r \in Runs, r \in Sent, delivery!storeActionResult(r),
           UNCHANGED <<submitted, forgotten>>
    PROVE  delivery!Ledger!Record(r) \/ delivery!Ledger!Refuse(r) \/ UNCHANGED delivery!Ledger!ledger
<1> USE DEF PipelineInv, Types, delivery!storeActionResult, delivery!Verdict
<1>1. r \in delivery!Range(submitted)
  BY Zenon DEF Sent, delivery!Range
<1>2. CASE r \in results
  <2>1. UNCHANGED <<audit, refused, deleted, submitted, forgotten>>
    BY <1>2, Zenon
  <2> QED
    BY <2>1, Zenon DEF delivery!Ledger!ledger
<1>3. CASE r \notin results /\ ActionOf[r] \in assigned
  <2>1. /\ audit' = [audit EXCEPT ![r] = @ + 1] /\ audit[r] = 0
        /\ ActionOf[r] \notin deleted
        /\ UNCHANGED <<refused, deleted, submitted, forgotten>>
    BY <1>3 DEF TableInv
  <2>2. /\ {x \in Runs : audit'[x] > 0} = {x \in Runs : audit[x] > 0} \cup {r}
        /\ r \notin {x \in Runs : audit[x] > 0}
    BY <2>1
  <2>3. {x \in Runs : audit'[x] > 0 /\ ActionOf[x] \in deleted'}
            = {x \in Runs : audit[x] > 0 /\ ActionOf[x] \in deleted}
    BY <2>1, Zenon
  <2> QED
    BY <1>1, <2>1, <2>2, <2>3, Zenon DEF delivery!Ledger!Record
<1>4. CASE r \notin results /\ ActionOf[r] \notin assigned
  <2>1. refused' = refused \cup {r} /\ UNCHANGED <<audit, deleted, submitted, forgotten>>
    BY <1>4, Zenon
  <2>2. audit[r] = 0 \/ ActionOf[r] \in deleted
    BY <1>4 DEF TableInv
  <2>3. r \notin {x \in Runs : audit[x] > 0} \ {x \in Runs : audit[x] > 0 /\ ActionOf[x] \in deleted}
    BY <2>2
  <2> QED
    BY <1>1, <2>1, <2>3, Zenon DEF delivery!Ledger!Refuse
<1> QED
  BY <1>2, <1>3, <1>4, Zenon

\* Every step of the pipeline is a step of the ledger or leaves it alone.
LEMMA StepRefines == PipelineInv /\ [delivery!Next]_delivery!vars => [delivery!Ledger!Next]_(delivery!Ledger!ledger)
<1> SUFFICES ASSUME PipelineInv, [delivery!Next]_delivery!vars
             PROVE  delivery!Ledger!Next \/ UNCHANGED delivery!Ledger!ledger
    BY Zenon
<1> USE DEF delivery!Ledger!Next
<1>1. ASSUME UNCHANGED <<submitted, audit, deleted, refused, forgotten>>
      PROVE  UNCHANGED delivery!Ledger!ledger
  BY <1>1, Zenon DEF delivery!Ledger!ledger
<1>2. CASE \/ UNCHANGED delivery!vars \/ delivery!Connect \/ delivery!ResultsReady \/ delivery!GetPendingResults
           \/ delivery!SendActionResult \/ delivery!SendActionResultFails \/ delivery!ReceiveAck \/ delivery!BreakStream
  BY <1>1, <1>2, Zenon DEF delivery!vars, delivery!serverVars, delivery!Connect,
     delivery!ResultsReady, delivery!GetPendingResults,
     delivery!SendActionResult, delivery!SendActionResultFails, delivery!ReceiveAck,
     delivery!BreakStream
<1>3. ASSUME NEW r \in Runs, delivery!RecordActionResult(r) PROVE delivery!Ledger!Submit(r)
  <2>1. delivery!Range(submitted') = delivery!Range(submitted) \cup {r}
    <3>1. submitted \in Seq(Runs) /\ submitted' = Append(submitted, r)
      BY <1>3, Zenon DEF delivery!RecordActionResult, PipelineInv, Types
    <3>2. /\ DOMAIN submitted' = (DOMAIN submitted) \cup {Len(submitted) + 1}
          /\ \A i \in DOMAIN submitted : submitted'[i] = submitted[i]
          /\ submitted'[Len(submitted) + 1] = r
      BY <3>1
    <3> QED
      BY <3>2 DEF delivery!Range
  <2>2. UNCHANGED <<audit, deleted, refused, forgotten>> /\ r \notin delivery!Range(submitted)
    BY <1>3, Zenon DEF delivery!RecordActionResult, delivery!serverVars
  <2> QED
    BY <2>1, <2>2, Zenon DEF delivery!Ledger!Submit
<1>4. CASE delivery!DeletePendingResult
  <2> DEFINE r == Head(snapshot)
  <2>1. r \in Recorded \cup refused /\ r = submitted[Gone + 1] /\ r \in Sent
        /\ Gone \in Nat /\ Gone + 1 \in DOMAIN submitted
    <3>1. sender = "delete"
      BY <1>4, Zenon DEF delivery!DeletePendingResult
    <3>2. Head(snapshot) \in Recorded \cup refused
      BY <3>1, ZenonT(30) DEF PipelineInv, AnswerInv
    <3> QED
      BY <3>1, <3>2, HeadIsSent, ZenonT(30)
  <2>2. r \in Runs
    <3>1. submitted \in [DOMAIN submitted -> Runs]
      BY Zenon, SentAreRuns
    <3> QED
      BY <2>1, <3>1, Zenon
  <2>3. r \notin forgotten
    <3> SUFFICES ASSUME NEW i \in 1..Gone, r = submitted[i] PROVE FALSE
      BY Zenon DEF PipelineInv, OutboxInv
    <3>1. submitted \in Seq(Runs)
      BY Zenon DEF PipelineInv, Types
    <3>2. i \in DOMAIN submitted /\ i # Gone + 1
      BY <2>1, <3>1
    <3> QED
      BY <3>2, <2>1, Zenon DEF PipelineInv, OutboxInv
  <2>4. forgotten' = forgotten \cup {r} /\ UNCHANGED <<submitted, audit, deleted, refused>>
    BY <1>4, Zenon DEF delivery!DeletePendingResult, delivery!serverVars
  <2>5. delivery!Ledger!Forget(r)
    BY <2>1, <2>2, <2>3, <2>4, Zenon DEF delivery!Ledger!Forget, Recorded
  <2> QED
    BY <2>2, <2>5, Zenon
<1>5. ASSUME NEW r \in Runs, delivery!HandleActionResult(r) \/ delivery!HandleLate(r)
      PROVE  delivery!Ledger!Next \/ UNCHANGED delivery!Ledger!ledger
  <2>1. delivery!storeActionResult(r) /\ r \in Sent /\ UNCHANGED <<submitted, forgotten>>
    BY <1>5, Zenon DEF delivery!HandleActionResult, delivery!HandleLate, PipelineInv,
       SentInv
  <2> QED
    BY <2>1, StoreRefines, Zenon
<1>6. ASSUME NEW r \in Runs, delivery!DropLate(r) PROVE UNCHANGED delivery!Ledger!ledger
  BY <1>1, <1>6, Zenon DEF delivery!DropLate, delivery!serverVars
<1>7. ASSUME NEW a \in Action, delivery!CreateAssignment(a) \/ delivery!DeleteAssignment(a)
      PROVE  UNCHANGED delivery!Ledger!ledger
  BY <1>1, <1>7, Zenon DEF delivery!CreateAssignment, delivery!DeleteAssignment
<1>8. ASSUME NEW a \in Action, delivery!DeleteAction(a) PROVE delivery!Ledger!Next
  <2>1. PICK R : R = {r \in Runs : audit[r] > 0 /\ ActionOf[r] = a}
    BY Zenon
  <2>2. deleted' = deleted \cup {a} /\ UNCHANGED <<submitted, audit, refused, forgotten>>
    BY <1>8, Zenon DEF delivery!DeleteAction
  <2>3. delivery!Ledger!Erase(R)
    BY <2>1, <2>2, Zenon DEF delivery!Ledger!Erase
  <2>4. R \in SUBSET Runs
    BY <2>1
  <2> QED
    BY <2>3, <2>4
<1> QED
  BY <1>2, <1>3, <1>4, <1>5, <1>6, <1>7, <1>8, HandledAreRuns DEF delivery!Next

\* The agent's outbox, the stream and the server's handler together implement
\* the ledger: recorded at most once, refused only what is not held, forgotten
\* only what was recorded or refused.
THEOREM DeliveryImplementsLedger == delivery!Spec => ImplementsLedger
<1>1. delivery!Init => delivery!Ledger!Init
  BY DEF delivery!Init, delivery!Ledger!Init, delivery!Range
<1> QED
  BY <1>1, StepRefines, PipelineInvariant, PTL DEF delivery!Spec, ImplementsLedger,
     delivery!ImplementsLedger, delivery!Ledger!Spec

===============================================================================
