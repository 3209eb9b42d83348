SPECIFICATION Spec
CONSTANTS
    NumFrames = 3
    NumBuffers = 4
    Values = {v1}
    SlotsPerPage = 2
    MaxPage = 2
    ATTRIBUTE_SZ = 2
    Scans = {s1}
    Conditions <- MCConditions
    NoRecord = NoRecord
    MaxPins = 1
    MaxTuples = 3
INVARIANTS
    ClosedTableIsInFile
CONSTRAINT Bounded
CHECK_DEADLOCK FALSE
