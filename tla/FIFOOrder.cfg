SPECIFICATION Spec
CONSTANTS
    Clients = {c1, c2}
    PageNums <- MCFourPages
    Data = {zeros}
    Blank = zeros
    NumFrames = 3
    StrayUnpins = TRUE
INVARIANTS
    FilledFirst
PROPERTIES
    EvictsFirstIn
CONSTRAINTS
    ReadersOnly
    FixCountsBounded
SYMMETRY ClientSymmetry
CHECK_DEADLOCK FALSE
