----------------------------- MODULE HDFAllocPC -----------------------------
(***************************************************************************)
(* The heap allocator of the 16-bit PC build of hdfalloc.c (PC, not WIN3,  *)
(* not TEST_PC): HDmalloc, HDrealloc and HDfree.  Each block starts with a *)
(* 5-byte header -- one flag byte saying whether halloc() (1) or malloc()  *)
(* (0) gave it, then the uint32 size of the whole block -- and the caller  *)
(* gets the address just past it.  Requests of 64000 bytes or more (after  *)
(* adding the header) go to halloc, smaller ones to malloc.                *)
(*                                                                         *)
(* A caller keeps its blocks in pointer variables (Ptrs) and uses them as  *)
(* the code's comments say to: "Acts like malloc()" / "realloc()" /        *)
(* "free()".  Contents are abstracted to the length of the prefix of the  *)
(* usable bytes that holds the caller's data (data); the caller's side     *)
(* records what it asked for (want) and how much of its data malloc and    *)
(* realloc promise to have kept (expect).                                  *)
(***************************************************************************)
EXTENDS Integers, FiniteSets

CONSTANTS
    Ptrs,       \* the caller's pointer variables
    Blocks,     \* heap block addresses the model hands out
    Sizes,      \* byte counts a caller passes to HDmalloc / HDrealloc
    CallocArgs, \* <<n, size>> pairs a caller passes to HDcalloc
    StrLens     \* lengths of the strings a caller passes to HDstrdup

NULL == 0
HDR  == 5                       \* sizeof(char) + sizeof(uint32)

\* The 16-bit uint16 / size_t arithmetic of the build.  (qty is a uint32
\* too, but its wrap past 2^32 - 5 lies beyond TLC's integers: Sizes stay
\* below it.)
U16(x) == x % 65536

VARIABLES
    heap,       \* heap[b]: live, allocator used, flag byte, size word, bytes, data
    ptr,        \* ptr[v]: the block v points at (its header's address), or NULL
    want,       \* want[v]: the usable bytes v asked for
    expect,     \* expect[v]: the bytes of v's data malloc/realloc must have kept
    nospace,    \* DFE_NOSPACE has been pushed on the error stack
    misfreed    \* a block was released through the other allocator

vars == <<heap, ptr, want, expect, nospace, misfreed>>

FreeBlock == [live |-> FALSE, via |-> "none", flag |-> 0, size |-> 0, len |-> 0, data |-> 0]

\* The lowest address not in use; NULL when the heap is exhausted.
Fresh == IF \E b \in Blocks : ~heap[b].live
         THEN CHOOSE b \in Blocks : ~heap[b].live /\ \A c \in Blocks : ~heap[c].live => b <= c
         ELSE NULL

(* Mutation: the flag byte written as 0 on both branches.                  *)
NewBlock_flagZero(qty, d) ==
    [live |-> TRUE, via |-> IF qty >= 64000 THEN "halloc" ELSE "malloc",
     flag |-> 0, size |-> qty, len |-> qty, data |-> d]

(* The allocation shared by HDmalloc and HDrealloc: qty already counts the *)
(* header; 64000 bytes or more come from halloc, which sets the flag byte  *)
(* to 1, the rest from malloc with flag 0; the size word is qty.  d is    *)
(* the length of the caller's data in it.                                  *)
NewBlock(qty, d) ==
    LET big == qty >= 64000
    IN  [live |-> TRUE, via |-> IF big THEN "halloc" ELSE "malloc",
         flag |-> IF big THEN 1 ELSE 0, size |-> qty, len |-> qty, data |-> d]

\* The allocator the flag byte of b selects when it is released:
\* "if(*p) hfree(p); else free(p);".
FreedVia(b) == IF heap[b].flag # 0 THEN "halloc" ELSE "malloc"

\* Releasing b, as HDfree and HDrealloc do; the heap remembers which
\* allocator acquired it, so a release through the other one is recorded.
Release(b) ==
    /\ misfreed' = (misfreed \/ FreedVia(b) # heap[b].via)

\* The failure path of both: HRETURN_ERROR(DFE_NOSPACE, NULL).
NoSpace ==
    /\ nospace' = TRUE
    /\ UNCHANGED <<heap, ptr, want, expect, misfreed>>

(* HDmalloc (hdfalloc.c 353-380): qty += 5, then halloc or malloc,       *)
(* either of which may return NULL (DFE_NOSPACE, NULL returned);          *)
(* on success the flag byte and size word are written and the caller gets  *)
(* the block, whose usable bytes all hold the caller's data.               *)
HDmalloc(v, n) ==
    LET qty == n + HDR
        b   == Fresh
    IN  /\ ptr[v] = NULL
        /\ \/ /\ b # NULL
              /\ heap' = [heap EXCEPT ![b] = NewBlock(qty, n)]
              /\ ptr' = [ptr EXCEPT ![v] = b]
              /\ want' = [want EXCEPT ![v] = n]
              /\ expect' = [expect EXCEPT ![v] = n]
              /\ UNCHANGED <<nospace, misfreed>>
           \/ NoSpace

(* Mutation: the subtraction done in signed arithmetic, as when uint16     *)
(* promotes to a 32-bit int: a minimum just past a multiple of 64 KB gives  *)
(* a negative count.                                                        *)
CopyLen_signed(old_size, qty) == U16(IF old_size < qty THEN old_size ELSE qty) - HDR

\* HDrealloc 428-429: the number of bytes copied into the new block.
CopyLen(old_size, qty) == U16(U16(IF old_size < qty THEN old_size ELSE qty) - HDR)

(* Mutation: the old block is never released.                              *)
HDrealloc_keepOld(v, n) ==
    LET qty  == n + HDR
        b    == ptr[v]
        nb   == Fresh
        copy == CopyLen(heap[b].size, qty)
        kept == IF heap[b].data < copy THEN heap[b].data ELSE copy
    IN  /\ ptr[v] # NULL
        /\ \/ /\ nb # NULL
              /\ heap' = [heap EXCEPT ![nb] = NewBlock(qty, kept)]
              /\ ptr' = [ptr EXCEPT ![v] = nb]
              /\ want' = [want EXCEPT ![v] = n]
              /\ expect' = [expect EXCEPT ![v] = IF @ < n THEN @ ELSE n]
              /\ UNCHANGED <<nospace, misfreed>>
           \/ NoSpace

(* HDrealloc (hdfalloc.c 401-435), called as "q = HDrealloc(p, n); if (q)  *)
(* p = q;".  It reads the old size word, allocates the new block exactly   *)
(* as HDmalloc does, copies                                                *)
(*     MIN(UINT_MAX, (uint16)MIN(old_size, qty)) - 5                       *)
(* bytes in the build's 16-bit unsigned arithmetic, and releases the old   *)
(* block through its flag byte.  On failure the old block is untouched.    *)
HDrealloc(v, n) ==
    LET qty  == n + HDR
        b    == ptr[v]
        nb   == Fresh
        copy == CopyLen(heap[b].size, qty)
        kept == IF heap[b].data < copy THEN heap[b].data ELSE copy
    IN  /\ ptr[v] # NULL
        /\ \/ /\ nb # NULL
              /\ heap' = [heap EXCEPT ![nb] = NewBlock(qty, kept),
                                      ![b]  = FreeBlock]
              /\ Release(b)
              /\ ptr' = [ptr EXCEPT ![v] = nb]
              /\ want' = [want EXCEPT ![v] = n]
              /\ expect' = [expect EXCEPT ![v] = IF @ < n THEN @ ELSE n]
              /\ UNCHANGED nospace
           \/ NoSpace

(* HDcalloc (hdfalloc.c 584-598): HDmalloc(n * size), then HDmemset of    *)
(* the whole block to 0; on failure it reports and pushes DFE_NOSPACE once *)
(* more.  The zeroed bytes are the caller's data.                          *)
HDcalloc(v, n, size) == HDmalloc(v, n * size)

(* HDstrdup (hdfalloc.c 619-629): HDmalloc(strlen(s) + 1), NULL on failure *)
(* with nothing more pushed, else the string and its NUL are copied in.    *)
HDstrdup(v, len) == HDmalloc(v, len + 1)

(* HDfree (hdfalloc.c 453-466): a NULL pointer is ignored; otherwise the   *)
(* block is released through its flag byte and the caller drops it.       *)
HDfree(v) ==
    /\ ptr[v] # NULL
    /\ heap' = [heap EXCEPT ![ptr[v]] = FreeBlock]
    /\ Release(ptr[v])
    /\ ptr' = [ptr EXCEPT ![v] = NULL]
    /\ want' = [want EXCEPT ![v] = 0]
    /\ expect' = [expect EXCEPT ![v] = 0]
    /\ UNCHANGED nospace

Init ==
    /\ heap = [b \in Blocks |-> FreeBlock]
    /\ ptr = [v \in Ptrs |-> NULL]
    /\ want = [v \in Ptrs |-> 0]
    /\ expect = [v \in Ptrs |-> 0]
    /\ nospace = FALSE
    /\ misfreed = FALSE

Next ==
    \E v \in Ptrs :
        \/ \E n \in Sizes : HDmalloc(v, n) \/ HDrealloc(v, n)
        \/ \E a \in CallocArgs : HDcalloc(v, a[1], a[2])
        \/ \E len \in StrLens : HDstrdup(v, len)
        \/ HDfree(v)

Spec == Init /\ [][Next]_vars

-----------------------------------------------------------------------------
TypeOK ==
    /\ heap \in [Blocks -> [live : BOOLEAN, via : {"none", "malloc", "halloc"},
                            flag : {0, 1}, size : Nat, len : Nat, data : Nat]]
    /\ ptr \in [Ptrs -> Blocks \cup {NULL}]
    /\ want \in [Ptrs -> Nat] /\ expect \in [Ptrs -> Nat]
    /\ nospace \in BOOLEAN /\ misfreed \in BOOLEAN

(* Every block is owned once: a live block is held by exactly one of the   *)
(* caller's pointers and a released one by none.  HDrealloc must hand back *)
(* a block no one else holds and release the old one only on success; a   *)
(* leak, a double hand-out or a dangling pointer breaks this.              *)
OwnedOnce ==
    \A b \in Blocks :
        Cardinality({v \in Ptrs : ptr[v] = b}) = IF heap[b].live THEN 1 ELSE 0

(* HDfree and HDrealloc release every block through the allocator that     *)
(* acquired it: the flag byte HDmalloc or HDrealloc wrote five bytes before *)
(* the caller's pointer selects hfree for halloc'd and free for malloc'd   *)
(* memory.                                                                 *)
MatchedRelease == ~misfreed

(* "Acts like malloc()" / "Acts like realloc()": the block a caller holds  *)
(* has room for the header and every byte it asked for, and still holds    *)
(* as much of its data as realloc keeps -- the old contents up to the      *)
(* lesser of the old and new sizes.                                        *)
CallerBlockIntact ==
    \A v \in Ptrs : ptr[v] # NULL =>
        /\ heap[ptr[v]].len >= HDR + want[v]
        /\ heap[ptr[v]].data >= expect[v]
=============================================================================
