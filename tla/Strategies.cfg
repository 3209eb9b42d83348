SPECIFICATION FairSpec
CONSTANTS
    Clients = {c1, c2}
    PageNums <- MCPageNums
    NumFrames = 3
    Strategies <- MCStrategies
    Buffers <- MCBuffers
    MaxHits = 8
INVARIANTS
    TypeOK
    OneFramePerPage
    PinsHonoured
PROPERTIES
    EvictsFirstIn
    EvictsLeastRecent
    TakesLeastUsed
    SearchEnds
CONSTRAINTS
    FirstPagesInOrder
    OneDirtyFrame
CHECK_DEADLOCK FALSE
