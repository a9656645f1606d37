\* HCIwrite_header failing after it set the DD tag and ref.
CONSTANTS
    Tags       = {720}
    Refs       = {1, 2}
    AIDs       = {1, 2}
    InfoIds    = {1, 2, 3}
    NDDS       = 2
    MaxBlocks  = 2
    MaxRef     = 4
    MaxLen     = 3
    InitDD     <- MCInitDD
    Coders     <- MCRLE
    Lens       = {0, 1, 2}
    Offsets    <- MCOffsets
    FileAccess = 3
    Failing    = {"header_dd"}
SPECIFICATION Spec
INVARIANT HashMirrorsDDs
