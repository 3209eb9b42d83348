SPECIFICATION Spec
CONSTANTS
    Clients = {c1, c2, c3}
    PageNums <- MCPageNums
    Data = {zeros, bytes}
    Blank = zeros
    NumFrames = 2
    StrayUnpins = FALSE
INVARIANTS
    TypeOK
    Inv
    PinAccounting
    HandlesValid
    NothingLost
PROPERTIES
    ImplementsPageStore
SYMMETRY ClientSymmetry
CHECK_DEADLOCK FALSE
