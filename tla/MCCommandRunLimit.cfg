\* The command of MCSdk against the length the contract allows.
CONSTANTS
    MaxOutputBytes = 4
    MarkerBytes = 1
    LineBytes = {1, 2, 3}
    Buffer = 1
    MaxLines = 4
SPECIFICATION Spec
INVARIANT OutputFitsContract
