CONSTANTS
    p1 = p1
    p2 = p2
    Ptrs <- MCPtrs
    Blocks <- MCBlocks
    CallocArgs <- MCCallocArgs
    StrLens <- MCStrLens
    Sizes <- MCBigSizes
SYMMETRY PtrSymmetry
SPECIFICATION Spec
INVARIANT CallerBlockIntact
