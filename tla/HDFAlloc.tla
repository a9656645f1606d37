------------------------------ MODULE HDFAlloc ------------------------------
(***************************************************************************)
(* The two portable algorithms of hdfalloc.c: HDmemfill, which fills a     *)
(* buffer with num_items copies of an item by doubling the copied chunk,   *)
(* and HIstrncpy, a bounded string copy that always terminates.            *)
(*                                                                         *)
(* A buffer is a sequence of bytes; offsets are 0-based as in C and the    *)
(* byte at offset o is element o+1.  A write past the end of the buffer is *)
(* dropped, so a buffer under test carries spare bytes past the region     *)
(* the call may touch, and an overrun shows as a changed spare byte.       *)
(*                                                                         *)
(* The PC routines memcpy_big, memset_big and memcmp_big split a 32-bit    *)
(* length into chunks of UINT_MAX bytes, the most one call of the 16-bit   *)
(* C library takes; UINT_MAX is a constant so that a small value makes the *)
(* chunk boundaries fall inside small buffers.                             *)
(***************************************************************************)
EXTENDS Integers, Sequences

CONSTANT UINT_MAX   \* the largest size_t of the 16-bit library

\* HDmemcpy (memcpy): n bytes from offset from of s to offset to of d.
HDmemcpy(d, to, s, from, n) ==
    [i \in 1..Len(d) |-> IF to <= i - 1 /\ i - 1 < to + n
                         THEN s[from + (i - 1 - to) + 1] ELSE d[i]]

(* Mutation: the last partial copy measured in chunks, not items.          *)
RECURSIVE HDmemfillLoop_tailByChunk(_, _, _, _, _, _)
HDmemfillLoop_tailByChunk(d, item_size, curr, copy_size, copy_items, items_left) ==
    IF items_left >= copy_items
    THEN HDmemfillLoop_tailByChunk(HDmemcpy(d, curr, d, 0, copy_size), item_size,
                                   curr + copy_size, copy_size * 2, copy_items * 2,
                                   items_left - copy_items)
    ELSE IF items_left > 0 THEN HDmemcpy(d, curr, d, 0, items_left * copy_size)
    ELSE d

(* The loop of HDmemfill: while at least copy_items items are left, copy   *)
(* the first copy_size bytes of dest to curr_dest and double the chunk;    *)
(* then copy the remaining items_left items in one piece.  curr_dest is    *)
(* always dest + copy_size, so every copy reads bytes already filled.      *)
RECURSIVE HDmemfillLoop(_, _, _, _, _, _)
HDmemfillLoop(d, item_size, curr, copy_size, copy_items, items_left) ==
    IF items_left >= copy_items
    THEN HDmemfillLoop(HDmemcpy(d, curr, d, 0, copy_size), item_size,
                       curr + copy_size, copy_size * 2, copy_items * 2,
                       items_left - copy_items)
    ELSE IF items_left > 0 THEN HDmemcpy(d, curr, d, 0, items_left * item_size)
    ELSE d

(* HDmemfill: nothing for a zero count or size; otherwise copy the first   *)
(* item from src and run the doubling loop.  Returns the filled dest.      *)
HDmemfill(dest, src, item_size, num_items) ==
    IF num_items > 0 /\ item_size > 0
    THEN HDmemfillLoop(HDmemcpy(dest, 0, src, 0, item_size), item_size,
                       item_size, item_size, 1, num_items - 1)
    ELSE dest

(* Mutation: the copy loop running while len > 0, one byte too far.        *)
RECURSIVE HIstrncpyLoop_offByOne(_, _, _, _)
HIstrncpyLoop_offByOne(d, source, i, len) ==
    IF len > 0 /\ source[i + 1] # 0
    THEN HIstrncpyLoop_offByOne([d EXCEPT ![i + 1] = source[i + 1]], source, i + 1, len - 1)
    ELSE [d EXCEPT ![i + 1] = 0]

(* The loop of HIstrncpy: copy bytes while len > 1 and the source byte is  *)
(* not NUL, then force a NUL at the current position.                      *)
RECURSIVE HIstrncpyLoop(_, _, _, _)
HIstrncpyLoop(d, source, i, len) ==
    IF len > 1 /\ source[i + 1] # 0
    THEN HIstrncpyLoop([d EXCEPT ![i + 1] = source[i + 1]], source, i + 1, len - 1)
    ELSE [d EXCEPT ![i + 1] = 0]

(* HIstrncpy: dest unchanged when len is 0, else the loop.  source is a    *)
(* NUL-terminated byte sequence.                                           *)
HIstrncpy(dest, source, len) ==
    IF len = 0 THEN dest ELSE HIstrncpyLoop(dest, source, 0, len)

-----------------------------------------------------------------------------
\* memset: n bytes from offset off of d set to c converted to unsigned char.
HDmemset(d, off, c, n) ==
    [i \in 1..Len(d) |-> IF off <= i - 1 /\ i - 1 < off + n THEN c % 256 ELSE d[i]]

\* memcmp: the difference of the first differing pair of the n bytes at
\* offsets o1 of a and o2 of b (as unsigned bytes), 0 when none differ.
HDmemcmp(a, o1, b, o2, n) ==
    LET diff == {k \in 0..n-1 : a[o1 + k + 1] # b[o2 + k + 1]}
        k    == CHOOSE k \in diff : \A j \in diff : k <= j
    IN  IF diff = {} THEN 0 ELSE a[o1 + k + 1] - b[o2 + k + 1]

(* Mutation: the destination pointer not advanced after a chunk.           *)
RECURSIVE memcpy_bigLoop_dstStays(_, _, _, _, _)
memcpy_bigLoop_dstStays(d, dp, s, sp, len) ==
    IF len > UINT_MAX
    THEN memcpy_bigLoop_dstStays(HDmemcpy(d, dp, s, sp, UINT_MAX), dp, s, sp + UINT_MAX,
                                 len - UINT_MAX)
    ELSE IF len > 0 THEN HDmemcpy(d, dp, s, sp, len) ELSE d

(* The chunk loop of memcpy_big: while more than UINT_MAX bytes are left,  *)
(* copy UINT_MAX of them and advance both pointers; then copy the rest.   *)
RECURSIVE memcpy_bigLoop(_, _, _, _, _)
memcpy_bigLoop(d, dp, s, sp, len) ==
    IF len > UINT_MAX
    THEN memcpy_bigLoop(HDmemcpy(d, dp, s, sp, UINT_MAX), dp + UINT_MAX, s, sp + UINT_MAX,
                        len - UINT_MAX)
    ELSE IF len > 0 THEN HDmemcpy(d, dp, s, sp, len) ELSE d

\* memcpy_big: one memcpy when len fits a size_t, else the chunk loop.
memcpy_big(dst, src, len) ==
    IF len <= UINT_MAX THEN HDmemcpy(dst, 0, src, 0, len) ELSE memcpy_bigLoop(dst, 0, src, 0, len)

(* Mutation: the remainder after the last full chunk never set.            *)
RECURSIVE memset_bigLoop_noTail(_, _, _, _)
memset_bigLoop_noTail(d, sp, c, len) ==
    IF len > UINT_MAX
    THEN memset_bigLoop_noTail(HDmemset(d, sp, c, UINT_MAX), sp + UINT_MAX, c, len - UINT_MAX)
    ELSE d

\* The chunk loop of memset_big.
RECURSIVE memset_bigLoop(_, _, _, _)
memset_bigLoop(d, sp, c, len) ==
    IF len > UINT_MAX
    THEN memset_bigLoop(HDmemset(d, sp, c, UINT_MAX), sp + UINT_MAX, c, len - UINT_MAX)
    ELSE IF len > 0 THEN HDmemset(d, sp, c, len) ELSE d

\* memset_big: one memset when len fits a size_t, else the chunk loop.
memset_big(src, c, len) ==
    IF len <= UINT_MAX THEN HDmemset(src, 0, c, len) ELSE memset_bigLoop(src, 0, c, len)

(* Mutation: a chunk's nonzero result not returned; the loop goes on.      *)
RECURSIVE memcmp_bigLoop_noEarlyReturn(_, _, _, _, _)
memcmp_bigLoop_noEarlyReturn(t1, p1, t2, p2, len) ==
    IF len > UINT_MAX
    THEN memcmp_bigLoop_noEarlyReturn(t1, p1 + UINT_MAX, t2, p2 + UINT_MAX, len - UINT_MAX)
    ELSE IF len > 0 THEN HDmemcmp(t1, p1, t2, p2, len) ELSE 0

(* The chunk loop of memcmp_big: a chunk that differs ends the loop with  *)
(* its result; equal chunks advance both pointers; the rest is compared   *)
(* last, and 0 is returned when nothing is left.                          *)
RECURSIVE memcmp_bigLoop(_, _, _, _, _)
memcmp_bigLoop(t1, p1, t2, p2, len) ==
    IF len > UINT_MAX
    THEN LET ret_val == HDmemcmp(t1, p1, t2, p2, UINT_MAX)
         IN  IF ret_val # 0 THEN ret_val
             ELSE memcmp_bigLoop(t1, p1 + UINT_MAX, t2, p2 + UINT_MAX, len - UINT_MAX)
    ELSE IF len > 0 THEN HDmemcmp(t1, p1, t2, p2, len) ELSE 0

\* memcmp_big: one memcmp when len fits a size_t, else the chunk loop.
memcmp_big(s1, s2, len) ==
    IF len <= UINT_MAX THEN HDmemcmp(s1, 0, s2, 0, len) ELSE memcmp_bigLoop(s1, 0, s2, 0, len)
=============================================================================
