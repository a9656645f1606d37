\* HCcreate retried on an element whose conversion failed after its
\* descriptor was indexed: the hash index refuses the second descriptor's
\* key, and HCcreate's exit leaves the DD slot and the compinfo it took.
\* No collaborator call fails; the first conversion fails because the
\* access table is full.
CONSTANTS
    Tags       = {720}
    Refs       = {1, 2}
    AIDs       = {1, 2}
    InfoIds    = {1, 2, 3}
    NDDS       = 2
    MaxBlocks  = 4
    MaxRef     = 4
    MaxLen     = 3
    InitDD     <- MCInitDD
    Coders     <- MCRLE
    Lens       = {0, 1, 2}
    Offsets    <- MCOffsets
    FileAccess = 3
    Failing    = {}
SPECIFICATION Spec
INVARIANT NothingOrphaned
