CONSTANTS
    Absent = Absent
    Torn = Torn
    Hollow = Hollow
    MaxStarts = 3
SPECIFICATION Spec
INVARIANT TypeOK
INVARIANT SecretsAgree
INVARIANT CompleteUnlessCut
PROPERTY SecretsKept
CHECK_DEADLOCK FALSE
