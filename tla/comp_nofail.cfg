\* Compressed-element engine with every collaborator call succeeding.
CONSTANTS
    Tags       = {720}
    Refs       = {1, 2}
    AIDs       = {1, 2}
    InfoIds    = {1, 2, 3}
    NDDS       = 2
    MaxBlocks  = 4
    MaxRef     = 4
    MaxLen     = 3
    InitDD     <- MCInitDD
    Coders     <- MCGoodCoders
    Lens       = {0, 1, 2}
    Offsets    <- MCOffsets
    FileAccess = 3
    Failing    = {}
SPECIFICATION StoreSpec
INVARIANTS
    TypeOK
    AttachCoversAccesses
    InfoOwned
    WriterHeaderCurrent
    BackingRefsDistinct
    Attachable
    ReaderWithinElement
PROPERTY
    ImplementsStore
