---------------------------- MODULE MC_HDFAllocPC ----------------------------
(* Instantiation of HDFAllocPC for TLC: two caller pointers, three heap     *)
(* blocks, and request sizes either side of the halloc threshold (63994 and *)
(* 63995 bytes become 63999 and 64000 with the header), 65531 (a 64 KB     *)
(* block, whose (uint16) size is 0) and above 64 KB.                         *)
EXTENDS HDFAllocPC, TLC

CONSTANTS p1, p2

MCPtrs == {p1, p2}
MCBlocks == 1..3
MCSizes == {10, 63994, 63995, 65531, 70000}
\* 2 * 32000 bytes need halloc once the header is added; a 9-character
\* string and 7 * 9 bytes stay with malloc.
MCCallocArgs == {<<2, 32000>>, <<7, 9>>}
MCStrLens == {9}
\* Sizes above 64 KB only, where the copy length of HDrealloc matters.
MCBigSizes == {70000, 80000}

PtrSymmetry == Permutations(MCPtrs)
=============================================================================
