\* A certificate is due after four units of time and expires after five: time
\* for three renewals or an expiry.  Three faults and one failed read: a lost
\* Welcome, a lost renewal and a crash in one rotation, with late handlers.
CONSTANTS
    Validity = 5
    MaxTime = 13
    MaxSerial = 4
    MaxFaults = 3
    MaxLoadFaults = 1
SPECIFICATION Spec
INVARIANTS
    FileIsAccepted
    OneCertificatePerLifetime
PROPERTIES
    RotatesForward
    AgentReconnects
