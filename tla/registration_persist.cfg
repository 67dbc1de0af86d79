CONSTANTS
    m1 = m1
    m2 = m2
    NoMachine = NoMachine
    Machines <- MCMachines
    UsedIPs = 252
    UsedPorts = 9998
    Tokens <- MCOneToken
    MaxCalls = 2
    MaxRestarts = 0
    Faults = FALSE
SPECIFICATION Spec
INVARIANT PeersPersisted
CHECK_DEADLOCK FALSE
