SPECIFICATION Spec
CONSTANTS
    MaxHeight = 4
    MaxErrors = 1
    MaxCrashes = 2
INVARIANTS
    TypeOK
    NoGap
PROPERTIES
    CatchesUp
