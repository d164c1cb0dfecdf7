\* Of a command: lines shorter than, as long as and longer than what is left of
\* four bytes, and channels that are full with one line.  Of the packages: two
\* packages with two versions, on every package manager.
CONSTANTS
    MaxOutputBytes = 4
    MarkerBytes = 1
    LineBytes = {1, 2, 3}
    Buffer = 1
    MaxLines = 4
    Package = {p1, p2}
    Invalid = Invalid
    MaxVersion = 2
    MaxConf = 6
SPECIFICATION MCSpec
INVARIANTS
    CaptureIsFaithful
    PinsHold
PROPERTY ReturnsOnceDone
