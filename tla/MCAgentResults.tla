---------------------------- MODULE MCAgentResults ----------------------------
(* AgentResults with three runs of two actions for the server. *)
EXTENDS AgentResults, TLC

CONSTANTS r1, r2, r3, x1, x2

ThreeRuns == {r1, r2, r3}
TwoActions == {x1, x2}

\* Two runs of one action, one of the other.
RunActions == (r1 :> x1) @@ (r2 :> x2) @@ (r3 :> x1)

===============================================================================
