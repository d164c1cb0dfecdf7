\* A device, alone or in a group, with two actions that are checks or remediations
\* by turns, two results in any order of completion, and one handler between its
\* reads and its write while others commit.
CONSTANTS
    d1 = d1
    g1 = g1
    a1 = a1
    a2 = a2
    Device = {d1}
    Group = {g1}
    Action = {a1, a2}
    Definition <- CheckDefinitions
    Outcome <- Outcomes
    Time = {1, 2}
    MaxRuns = 2
    MaxOpen = 1
SPECIFICATION Spec
INVARIANTS
    NoDanglingRows
    ViewsAgree
    ComplianceIsWorstCheck
    CompliantMeansChecked
CHECK_DEADLOCK FALSE
SYMMETRY Symmetric
