\* The descriptor codec, HDmemfill and HIstrncpy over bounded inputs.
\* Descriptor fields take their boundary values (0, 1, 255/256,
\* 65535/65536, 2^31-1, -1); HDmemfill counts cover 0 .. 2^4+1 items,
\* so the doubling loop runs up to four rounds with every remainder;
\* event ids sit on and either side of every TagBin bound; a size_t of 2
\* bytes (UINT_MAX) puts lengths 0..7 below, on and past one to three chunk
\* bounds.
CONSTANTS
    Lengths   = {0, 1, 255, 256, 65535, 65536, 2147483647}
    CompRefs  = {1, 256, 65535}
    NumTypes  = {24, 99}
    BitFields <- MCBitFields
    SkipSizes = {1, 4, 65536}
    ItemSizes = {0, 1, 2, 3, 4}
    NumItems  = {0, 1, 2, 3, 4, 5, 6, 7, 8, 9, 10, 11, 12, 13, 15, 16, 17}
    StrLens   = {0, 1, 2, 3, 4, 5}
    Lens      = {0, 1, 2, 3, 4, 5, 6}
    Spare     = 3
    TagBin     <- MCTagBin
    HDF_FAMILY = 50
    EventIDs   <- MCEventIDs
    UINT_MAX   = 2
    BigLens    = {0, 1, 2, 3, 4, 5, 6, 7}
    FillValues <- MCFillValues
SPECIFICATION Spec
INVARIANTS
    HeaderRoundTrip
    MemfillMatchesReference
    StrncpyMatchesReference
    BinSearchCorrect
    MemcpyBigMatchesReference
    MemsetBigMatchesReference
    MemcmpBigAgrees
