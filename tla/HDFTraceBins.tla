---------------------------- MODULE HDFTraceBins ----------------------------
(***************************************************************************)
(* The event-id bins of the Pablo tracing code (src/unnamed/part_000):     *)
(* computePacketTag and computeProcMask map an HDF procedure's event id to *)
(* its family through the TagBin table of family bounds.                   *)
(***************************************************************************)
EXTENDS Integers, Sequences

CONSTANTS
    TagBin,     \* the TagBin table: DUMMY_HDF, ID_DFAN, ..., END_HDF (ProcIDs.h)
    HDF_FAMILY  \* the packet-tag stride of one HDF procedure family

(***************************************************************************)
(* computePacketTag / computeProcMask: the bin j of TagBin with            *)
(* TagBin[j] <= eventID < TagBin[j+1] (0-based), as j*HDF_FAMILY and as    *)
(* 1 << j; -1 when eventID is in no bin.                                   *)
(***************************************************************************)
RECURSIVE BinFrom(_, _)
BinFrom(id, j) ==
    IF j >= Len(TagBin) - 1 THEN -1
    ELSE IF TagBin[j+1] <= id /\ id < TagBin[j+2] THEN j
    ELSE BinFrom(id, j + 1)

RECURSIVE Shl1(_)
Shl1(j) == IF j = 0 THEN 1 ELSE 2 * Shl1(j - 1)

(* Mutation: the bin test with <= at the upper end.                        *)
computePacketTag_closed(id) ==
    LET RECURSIVE F(_)
        F(j) == IF j >= Len(TagBin) - 1 THEN -1
                ELSE IF TagBin[j+1] <= id /\ id <= TagBin[j+2] THEN j * HDF_FAMILY
                ELSE F(j + 1)
    IN  F(0)

computePacketTag(id) == LET j == BinFrom(id, 0) IN IF j = -1 THEN -1 ELSE j * HDF_FAMILY
computeProcMask(id)  == LET j == BinFrom(id, 0) IN IF j = -1 THEN -1 ELSE Shl1(j)

=============================================================================
