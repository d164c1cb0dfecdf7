---------------------------- MODULE ResultDelivery ----------------------------
(***************************************************************************)
(* Delivery of action results: the agent's ordered outbox and its sender   *)
(* (runtime.go), the stream (contract/client.go) and the server's handler  *)
(* (core/agent.go) with the tables it reads and writes.  A stream can      *)
(* break with a message or its answer in flight, and a message the server  *)
(* has already received may still be handled after the agent has come back *)
(* on a new stream and sent the same result again.                         *)
(***************************************************************************)
EXTENDS Naturals, Sequences, FiniteSets, Functions

CONSTANTS
    Run,           \* results, by the run they report
    Action,        \* actions on the server
    ActionOf,      \* the action each run executed
    Invalid,       \* results that fail validation against the contract
    MaxBreaks      \* bound: broken streams (agent and server restarts included)

VARIABLES
    outbox,        \* result_outbox in the order of its sequence
    ready,         \* tokens in resultReadyCh
    sender,        \* where sendScheduledResults is
    snapshot,      \* its results still to send, the one in flight first
    up, down,      \* the message and the answer in flight on the stream
    late,          \* messages of broken streams that handlers still hold
    assigned,      \* actions that ListActionsForDevice returns
    deleted,       \* actions that DeleteAction removed
    results,       \* execution_results
    audit,         \* run -> EXECUTION_RESULT_RECEIVED events
    breaks,        \* streams broken so far
    submitted,     \* history: outbox insertions, in order
    refused,       \* history: runs the server answered with REJECTED
    forgotten      \* history: runs deleted from the outbox

agentVars == <<outbox, ready, sender, snapshot>>
serverVars == <<assigned, deleted, results, audit>>
vars == <<agentVars, up, down, late, serverVars, breaks, submitted, refused, forgotten>>

Code == {"ACCEPTED", "REJECTED"}

TypeOK ==
    /\ outbox \in Seq(Run)
    /\ ready \in 0..1
    /\ sender \in {"off", "load", "send", "await", "delete", "idle"}
    /\ snapshot \in Seq(Run)
    /\ up \subseteq Run
    /\ down \subseteq [run : Run, code : Code]
    /\ late \subseteq Run
    /\ assigned \subseteq Action \ deleted
    /\ deleted \subseteq Action
    /\ results \subseteq Run
    /\ audit \in [Run -> Nat]
    /\ breaks \in 0..MaxBreaks
    /\ submitted \in Seq(Run)
    /\ refused \subseteq Run
    /\ forgotten \subseteq Run

Init ==
    /\ outbox = <<>>
    /\ ready = 0
    /\ sender = "off"
    /\ snapshot = <<>>
    /\ up = {}
    /\ down = {}
    /\ late = {}
    /\ assigned = Action
    /\ deleted = {}
    /\ results = {}
    /\ audit = [r \in Run |-> 0]
    /\ breaks = 0
    /\ submitted = <<>>
    /\ refused = {}
    /\ forgotten = {}

-------------------------------------------------------------------------------
(* The agent. *)

\* The scheduler records the result of a run: AgentRuntime shows it does so once.
RecordActionResult(r) ==
    /\ r \notin Range(submitted)
    /\ outbox' = Append(outbox, r)
    /\ submitted' = Append(submitted, r)
    /\ ready' = 1
    /\ UNCHANGED <<sender, snapshot, up, down, late, serverVars, breaks, refused, forgotten>>

Connect ==
    /\ sender = "off"
    /\ sender' = "load"
    /\ UNCHANGED <<outbox, ready, snapshot, up, down, late, serverVars, breaks,
                   submitted, refused, forgotten>>

ResultsReady ==
    /\ sender = "idle"
    /\ ready = 1
    /\ ready' = 0
    /\ sender' = "load"
    /\ UNCHANGED <<outbox, snapshot, up, down, late, serverVars, breaks,
                   submitted, refused, forgotten>>

\* Mutant: the query loses its ORDER BY.
GetPendingResultsUnordered ==
    /\ sender = "load"
    /\ snapshot' = [i \in 1..Len(outbox) |-> outbox[Len(outbox) + 1 - i]]
    /\ sender' = IF outbox = <<>> THEN "idle" ELSE "send"
    /\ UNCHANGED <<outbox, ready, up, down, late, serverVars, breaks,
                   submitted, refused, forgotten>>

GetPendingResults ==
    /\ sender = "load"
    /\ snapshot' = outbox
    /\ sender' = IF outbox = <<>> THEN "idle" ELSE "send"
    /\ UNCHANGED <<outbox, ready, up, down, late, serverVars, breaks,
                   submitted, refused, forgotten>>

\* SendActionResult registers its waiter, validates and sends the message.
SendActionResult ==
    /\ sender = "send"
    /\ Head(snapshot) \notin Invalid
    /\ up' = {Head(snapshot)}
    /\ sender' = "await"
    /\ UNCHANGED <<outbox, ready, snapshot, down, late, serverVars, breaks,
                   submitted, refused, forgotten>>

\* A message that does not validate is an error like any other: the pass ends.
SendActionResultFails ==
    /\ sender = "send"
    /\ Head(snapshot) \in Invalid
    /\ snapshot' = <<>>
    /\ sender' = "idle"
    /\ UNCHANGED <<outbox, ready, up, down, late, serverVars, breaks,
                   submitted, refused, forgotten>>

\* The waiter gets the answer to its own message; ACCEPTED and REJECTED both
\* lead to DeletePendingResult.
ReceiveAck ==
    /\ sender = "await"
    /\ \E ack \in down : ack.run = Head(snapshot)
    /\ down' = {}
    /\ sender' = "delete"
    /\ UNCHANGED <<outbox, ready, snapshot, up, late, serverVars, breaks,
                   submitted, refused, forgotten>>

\* DeletePendingResult's statement: the row of a run goes, the order stays.
deleteRow(rows, r) ==
    LET first == {i \in DOMAIN rows : rows[i] = r /\ \A j \in 1..(i - 1) : rows[j] # r}
    IN  IF first = {} THEN rows
        ELSE LET i == CHOOSE i \in first : TRUE
             IN  SubSeq(rows, 1, i - 1) \o SubSeq(rows, i + 1, Len(rows))

\* Mutant: the signal channel is drained after a pass instead of before it.
DeleteDrainsSignal ==
    /\ sender = "delete"
    /\ outbox' = deleteRow(outbox, Head(snapshot))
    /\ forgotten' = forgotten \cup {Head(snapshot)}
    /\ snapshot' = Tail(snapshot)
    /\ sender' = IF Tail(snapshot) = <<>> THEN "idle" ELSE "send"
    /\ ready' = IF Tail(snapshot) = <<>> THEN 0 ELSE ready
    /\ UNCHANGED <<up, down, late, serverVars, breaks, submitted, refused>>

DeletePendingResult ==
    /\ sender = "delete"
    /\ outbox' = deleteRow(outbox, Head(snapshot))
    /\ forgotten' = forgotten \cup {Head(snapshot)}
    /\ snapshot' = Tail(snapshot)
    /\ sender' = IF Tail(snapshot) = <<>> THEN "idle" ELSE "send"
    /\ UNCHANGED <<ready, up, down, late, serverVars, breaks, submitted, refused>>

\* The stream ends, with the agent's process or without it.  closeStream wakes
\* the waiter with an error; a message already with the server stays there.
BreakStream ==
    /\ sender # "off"
    /\ breaks < MaxBreaks
    /\ breaks' = breaks + 1
    /\ late' = late \cup up
    /\ up' = {}
    /\ down' = {}
    /\ snapshot' = <<>>
    /\ sender' = "off"
    /\ UNCHANGED <<outbox, ready, serverVars, submitted, refused, forgotten>>

-------------------------------------------------------------------------------
(* The server. *)

\* Mutant: the assignment is looked at before the duplicate.
VerdictAssignedOnly(r) == IF ActionOf[r] \in assigned THEN "ACCEPTED" ELSE "REJECTED"

\* storeActionResult: a run that is already stored is accepted as a duplicate,
\* before the assignment is looked at.
Verdict(r) ==
    IF r \in results \/ ActionOf[r] \in assigned THEN "ACCEPTED" ELSE "REJECTED"

storeActionResult(r) ==
    /\ results' = IF Verdict(r) = "ACCEPTED" THEN results \cup {r} ELSE results
    /\ audit' = IF Verdict(r) = "ACCEPTED" /\ r \notin results
                THEN [audit EXCEPT ![r] = @ + 1] ELSE audit
    /\ refused' = IF Verdict(r) = "REJECTED" THEN refused \cup {r} ELSE refused
    /\ UNCHANGED <<assigned, deleted>>

HandleActionResult(r) ==
    /\ r \in up
    /\ storeActionResult(r)
    /\ up' = up \ {r}
    /\ down' = {[run |-> r, code |-> Verdict(r)]}
    /\ UNCHANGED <<agentVars, late, breaks, submitted, forgotten>>

\* The handler of a broken stream: its answer reaches nobody.
HandleLate(r) ==
    /\ r \in late
    /\ storeActionResult(r)
    /\ late' = late \ {r}
    /\ UNCHANGED <<agentVars, up, down, breaks, submitted, forgotten>>

DropLate(r) ==
    /\ r \in late
    /\ late' = late \ {r}
    /\ UNCHANGED <<agentVars, up, down, serverVars, breaks, submitted, refused, forgotten>>

CreateAssignment(a) ==
    /\ a \notin assigned \cup deleted
    /\ assigned' = assigned \cup {a}
    /\ UNCHANGED <<agentVars, up, down, late, deleted, results, audit, breaks,
                   submitted, refused, forgotten>>

DeleteAssignment(a) ==
    /\ a \in assigned
    /\ assigned' = assigned \ {a}
    /\ UNCHANGED <<agentVars, up, down, late, deleted, results, audit, breaks,
                   submitted, refused, forgotten>>

\* ON DELETE CASCADE takes the assignments and the results of the action.
DeleteAction(a) ==
    /\ a \notin deleted
    /\ deleted' = deleted \cup {a}
    /\ assigned' = assigned \ {a}
    /\ results' = {r \in results : ActionOf[r] # a}
    /\ UNCHANGED <<agentVars, up, down, late, audit, breaks, submitted, refused, forgotten>>

-------------------------------------------------------------------------------

Next ==
    \/ \E r \in Run : RecordActionResult(r)
    \/ Connect
    \/ ResultsReady
    \/ GetPendingResults
    \/ SendActionResult
    \/ SendActionResultFails
    \/ ReceiveAck
    \/ DeletePendingResult
    \/ BreakStream
    \/ \E r \in up : HandleActionResult(r)
    \/ \E r \in late : HandleLate(r) \/ DropLate(r)
    \/ \E a \in Action : CreateAssignment(a) \/ DeleteAssignment(a) \/ DeleteAction(a)

Spec == Init /\ [][Next]_vars

(* The agent reconnects after its backoff, its sender runs, and the server
   answers what it receives on a stream that stays up. *)
Fairness ==
    /\ WF_vars(Connect)
    /\ WF_vars(ResultsReady)
    /\ WF_vars(GetPendingResults)
    /\ WF_vars(SendActionResult)
    /\ WF_vars(SendActionResultFails)
    /\ WF_vars(ReceiveAck)
    /\ WF_vars(DeletePendingResult)
    /\ WF_vars(\E r \in up : HandleActionResult(r))

FairSpec == Spec /\ Fairness

-------------------------------------------------------------------------------
(* Properties *)

\* A run is recorded once, whatever was sent again: one audit event, and the
\* result is in the table unless its action was deleted.  And results reach the
\* server in the order the agent recorded them: a result is sent, stored or
\* refused only when every earlier one has left the outbox.
RecordedOnceInOrder ==
    /\ \A r \in Run :
          /\ audit[r] <= 1
          /\ r \in results <=> audit[r] = 1 /\ ActionOf[r] \notin deleted
    /\ \A i, j \in DOMAIN submitted :
          i < j /\ (submitted[j] \in up \cup late \cup refused \/ audit[submitted[j]] > 0)
              => submitted[i] \in forgotten

\* The pipeline implements the ledger.
Ledger == INSTANCE ResultLedger WITH
    submitted <- Range(submitted),
    recorded <- {r \in Run : audit[r] > 0},
    erased <- {r \in Run : audit[r] > 0 /\ ActionOf[r] \in deleted},
    refused <- refused,
    forgotten <- forgotten

\* Every submitted result is recorded at most once, refused only while it is not
\* held, and forgotten by the agent only after that (storeActionResult and
\* syncPendingResults together).
ImplementsLedger == Ledger!Spec

\* The result, or one recorded before it, does not validate.
HeldUp(r) ==
    \E i, j \in DOMAIN submitted :
        i <= j /\ submitted[i] \in Invalid /\ submitted[j] = r

\* Every result is answered in the end, when streams stop breaking, unless it is
\* held up: syncPendingResults ends its pass at a result that does not validate,
\* and every later pass begins with it.
ResultIsAnswered ==
    \A r \in Run : r \in Range(submitted) ~> r \in forgotten \/ HeldUp(r)

===============================================================================
