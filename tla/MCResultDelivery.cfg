\* Three runs, two actions, two broken streams: a result can be in flight twice,
\* with its action unassigned, assigned again or deleted in between, and one
\* result never passes validation.  (The action a1 and its definitions are the
\* agent's, which rests.)
CONSTANTS
    ActionId = {a1}
    Definition = {d1, d2}
    MaxRuns = 2
    MaxFaults = 2
    NoWork = NoWork
    r1 = r1
    r2 = r2
    r3 = r3
    x1 = x1
    x2 = x2
    Runs <- ThreeRuns
    Action <- TwoActions
    ActionOf <- RunActions
    Invalid = {r3}
    MaxBreaks = 2
SPECIFICATION DeliverySpec
INVARIANTS
    RecordedOnceInOrder
PROPERTIES
    ImplementsLedger
    ResultIsAnswered
CHECK_DEADLOCK FALSE
