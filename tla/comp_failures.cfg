\* Compressed-element engine with every collaborator call allowed to fail.
\* Leaked DD slots fill the bounded DD chain, after which no call changes
\* the file: a state with no further step is the end of the run, not a
\* deadlock of the code.
CONSTANTS
    Tags       = {720}
    Refs       = {1, 2}
    AIDs       = {1, 2}
    InfoIds    = {1, 2}
    NDDS       = 2
    MaxBlocks  = 4
    MaxRef     = 4
    MaxLen     = 3
    InitDD     <- MCInitDD
    Coders     <- MCRLE
    Lens       = {0, 1}
    Offsets    <- MCOffsets
    FileAccess = 3
    Failing    = {"dd_block", "header_io", "header_dd", "model_start", "model_end", "model_seek", "read_io", "deldd", "del_hash", "length_io"}
SPECIFICATION Spec
CHECK_DEADLOCK FALSE
INVARIANTS
    AttachCoversAccesses
    InfoOwned
    Attachable
