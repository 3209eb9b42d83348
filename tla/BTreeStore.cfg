SPECIFICATION Spec
CONSTANTS
    Order = 2
    Keys <- MCKeys
    RIDs = {r1, r2}
    NoRID = NoRID
    FreshKeys = {0, 2}
    MaxNodes = 4
INVARIANTS
    TypeOK
    OnlyReopeningBreaks
PROPERTIES
    ImplementsKeyIndex
    ScanInOrder
    OtherKeysUnmoved
    InsertedIsFound
CONSTRAINT UpToSixTaken
SYMMETRY RIDSymmetry
CHECK_DEADLOCK FALSE
