----------------------------- MODULE AgentResults -----------------------------
(***************************************************************************)
(* A run and its result: the agent that executes actions and keeps their   *)
(* results, and the pipeline that takes results to the server.  A result's *)
(* way through AgentRuntime ends with the answer, which ResultDelivery     *)
(* follows over streams that break.  The two share no state here, so there *)
(* is a specification for each.                                            *)
(***************************************************************************)
EXTENDS AgentRuntime, Sequences

CONSTANTS Runs, Action, ActionOf, Invalid, MaxBreaks

ASSUME DeliveryAssumption == ActionOf \in [Runs -> Action] /\ Invalid \subseteq Runs

VARIABLES
    pending, signal, sender, snapshot, up, down, late, assigned, deleted, results, audit,
    breaks, submitted, refused, forgotten

delivery == INSTANCE ResultDelivery WITH Run <- Runs, outbox <- pending, ready <- signal

deliveryVars ==
    <<pending, signal, sender, snapshot, up, down, late, assigned, deleted, results, audit,
      breaks, submitted, refused, forgotten>>
allVars == <<vars, deliveryVars>>

PartsInit == Init /\ delivery!Init

\* A behaviour of the agent, and one of the pipeline; the other is at rest.
AgentNext == Next /\ UNCHANGED deliveryVars
DeliveryNext == delivery!Next /\ UNCHANGED vars

AgentSpec == PartsInit /\ [][AgentNext]_allVars /\ Fairness
DeliverySpec == PartsInit /\ [][DeliveryNext]_allVars /\ delivery!Fairness

\* ResultDelivery: a result is recorded once, and in the order of the outbox.
RecordedOnceInOrder == delivery!RecordedOnceInOrder

\* ResultDelivery: the pipeline implements the ledger.
ImplementsLedger == delivery!ImplementsLedger

\* ResultDelivery: a result is answered unless an invalid one holds it up.
ResultIsAnswered == delivery!ResultIsAnswered

===============================================================================
