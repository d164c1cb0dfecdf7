\* Two commands on one machine and one on another race for a token of two uses,
\* with a request each: a handler can act on a count that two others have
\* since changed.
CONSTANTS
    m1 = m1
    m2 = m2
    c1 = c1
    c2 = c2
    c3 = c3
    t1 = t1
    Machine = {m1, m2}
    Command = {c1, c2, c3}
    HostOf <- Hosts
    Token = {t1}
    NoToken = NoToken
    Invocation <- Arguments
    MaxUses <- TwoUses
    Validity = 1
    MaxKeys = 3
    MaxRequests = 3
SYMMETRY CommandSymmetry
SPECIFICATION Spec
INVARIANTS
    UsesCountDevices
    OneDevicePerMachine
    CredentialsMatchDevice
CHECK_DEADLOCK FALSE
