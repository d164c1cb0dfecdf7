\* One action with two definitions, two runs and two faults: a policy can change,
\* retire and revive the row in the middle of a run that crashes.  (The results
\* from r1 on are the pipeline's, which rests.)
CONSTANTS
    ActionId = {a1}
    Definition = {d1, d2}
    MaxRuns = 2
    MaxFaults = 2
    NoWork = NoWork
    r1 = r1
    r2 = r2
    r3 = r3
    x1 = x1
    x2 = x2
    Runs <- ThreeRuns
    Action <- TwoActions
    ActionOf <- RunActions
    Invalid = {r3}
    MaxBreaks = 2
SPECIFICATION AgentSpec
INVARIANTS
    ExactlyOneResult
    ResultNamesExecutedDefinition
    NoResultLost
    ChangedDefinitionIsDue
PROPERTIES
    RunIsAnswered
    AssignedDefinitionRuns
