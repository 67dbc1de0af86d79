CONSTANTS
    m1 = m1
    m2 = m2
    NoMachine = NoMachine
    Machines <- MCMachines
    UsedIPs = 252
    UsedPorts = 9998
    Tokens <- MCOneToken
    MaxCalls = 3
    MaxRestarts = 1
    Faults = TRUE
SYMMETRY Symmetry
SPECIFICATION Spec
INVARIANT TypeOK
INVARIANT UniqueAddresses
INVARIANT RowsFirst
INVARIANT RoutedWhenRunning
PROPERTY ImplementsBook
CHECK_DEADLOCK FALSE
