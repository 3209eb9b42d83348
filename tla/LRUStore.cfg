SPECIFICATION Spec
CONSTANTS
    Clients = {c1, c2}
    PageNums <- MCPageNums
    Data = {zeros, bytes}
    Blank = zeros
    NumFrames = 3
INVARIANTS
    TypeOK
PROPERTIES
    ImplementsPageStore
    EvictsLeastRecent
VIEW WithoutFrames
CONSTRAINTS
    TwoPagesStored
    CarelessOnlyRead
SYMMETRY ClientSymmetry
CHECK_DEADLOCK FALSE
