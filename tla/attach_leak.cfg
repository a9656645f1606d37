\* HCcreate converting an element while the access table is full: Hgetelement fails after attach++.
CONSTANTS
    Tags       = {720}
    Refs       = {1, 2}
    AIDs       = {1, 2}
    InfoIds    = {1, 2, 3}
    NDDS       = 2
    MaxBlocks  = 3
    MaxRef     = 4
    MaxLen     = 3
    InitDD     <- MCInitDD
    Coders     <- MCRLE
    Lens       = {0, 1, 2}
    Offsets    <- MCOffsets
    FileAccess = 3
    Failing    = {}
SPECIFICATION Spec
INVARIANT AttachCountsAccesses
