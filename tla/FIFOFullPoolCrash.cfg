SPECIFICATION Spec
CONSTANTS
    Clients = {c1, c2, c3}
    PageNums <- MCPageNums
    Data = {zeros}
    Blank = zeros
    NumFrames = 2
    StrayUnpins = FALSE
PROPERTIES
    FullPoolSurvives
CHECK_DEADLOCK FALSE
