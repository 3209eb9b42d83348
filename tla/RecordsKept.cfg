SPECIFICATION Spec
CONSTANTS
    NumFrames = 4
    NumBuffers = 5
    Values = {v1, v2}
    SlotsPerPage = 2
    MaxPage = 2
    ATTRIBUTE_SZ = 2
    Scans = {s1}
    Conditions <- MCConditions
    NoRecord = NoRecord
    MaxPins = 1
    MaxTuples = 3
INVARIANTS
    TypeOK
    HangsOnlyUnused
PROPERTIES
    ImplementsTable
    ScansMissNoneInReach
CONSTRAINT Bounded
VIEW WhatCallsFind
SYMMETRY ValueSymmetry
CHECK_DEADLOCK FALSE
