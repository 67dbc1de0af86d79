CONSTANTS
    Absent = Absent
    Torn = Torn
    Hollow = Hollow
    MaxStarts = 2
SPECIFICATION Spec
INVARIANT SafeToRerun
CHECK_DEADLOCK FALSE
