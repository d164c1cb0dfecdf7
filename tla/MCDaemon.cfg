\* Three requests: the first policy pull and one of each worker goroutine.  An
\* action with one of two intervals, and a clock set to any of five times.  Four
\* syncs of the unit, two faults and an upgrade of the agent.
CONSTANTS
    MaxRequests = 3
    defaultInterval = 2
    Hours = {0, 1}
    MaxTime = 3
    MaxClock = 4
    Dir = {"a", "b"}
    BadDir = "bad"
    Binary = {"installed", "built"}
    WorldWritable = {"built"}
    MaxTemplate = 2
    MaxRuns = 4
    MaxFaults = 2
SPECIFICATION PartsSpec
INVARIANTS
    AnswersFindTheirRequest
    DueOncePerInterval
    SyncSettles
PROPERTY SessionEnds
