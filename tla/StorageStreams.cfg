SPECIFICATION Spec
CONSTANTS
    Names = {f1, f2}
    Handles = {h1, h2}
    Data = {zeros, bytes}
    Blank = zeros
    NULL = NULL
    PageSize = 2
    MaxPages = 3
INVARIANTS
    TypeOK
    HandleTracksFile
    StreamHasOwner
PROPERTIES
    PagesChangedByOwners
    ReadsThePage
VIEW BytesOfOneFile
SYMMETRY HandleSymmetry
CHECK_DEADLOCK FALSE
