\* Of the files: two writers with two contents, three calls in all, and one
\* failed system call, kill or power loss at any point.  Of the actions: every
\* shape, two runs in a row, two versions of a package of which one comes in
\* two releases, and one change by others.
CONSTANTS
    Writer = {w1, w2}
    Data = {d1, d2}
    MaxCalls = 3
    MaxFaults = 1
    Action <- Actions
    Upstream = {1, 2}
    Release = {1, 2}
    MaxActions = 2
    MaxDrift = 1
SPECIFICATION PartsSpec
INVARIANTS
    ExclusiveIsFirst
    SuccessWasSeen
PROPERTIES
    ImplementsFileLog
    SettledIsLeftAlone
