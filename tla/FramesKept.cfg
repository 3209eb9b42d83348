SPECIFICATION Spec
CONSTANTS
    NumFrames = 2
    NumBuffers = 4
    Clients = {c1, c2}
    PageNums = {0, 1, 2}
    Data = {zeros, bytes}
    Blank = zeros
    Strategies = {"RS_FIFO", "RS_LRU"}
    Unsaved = Unsaved
    MaxUnpins = 1
INVARIANTS
    TypeOK
    CopiesShareBytes
    AloneFindsAFrame
    ForcedIsKept
VIEW WithoutNumbers
SYMMETRY ClientSymmetry
CHECK_DEADLOCK FALSE
