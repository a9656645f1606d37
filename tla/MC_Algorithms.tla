---------------------------- MODULE MC_Algorithms ----------------------------
(***************************************************************************)
(* Checks the pure algorithms of the sources over bounded inputs, each     *)
(* against what it must give back: the compression descriptor codec of     *)
(* hcomp.c (HCIwrite_header / HCIread_header / the length patch of         *)
(* HCPwrite), HDmemfill and HIstrncpy of hdfalloc.c, and the event-id     *)
(* bins of the tracing code, against reference definitions.  The state is *)
(* the call under test; there are no steps.                                *)
(***************************************************************************)
EXTENDS HCompHeader, HDFAlloc, HDFTraceBins

CONSTANTS
    Lengths, CompRefs, NumTypes, BitFields, SkipSizes,  \* descriptor inputs
    ItemSizes, NumItems,                                \* HDmemfill inputs
    StrLens, Lens,                                      \* HIstrncpy inputs
    EventIDs,                                           \* computePacketTag inputs
    BigLens, FillValues,                                \* *_big inputs
    Spare                                               \* bytes past each buffer

VARIABLE call

MCBitFields == {-1, 8, 31}

\* memset values: in range, the top byte, and ints that wrap to 255 and 2.
MCFillValues == {0, 255, -1, 258}

\* A TagBin table of 19 increasing bounds, as the code's (18 families).
MCTagBin == [k \in 1..19 |-> (k - 1) * 100]

\* Each bound, the ids either side of it, and ids outside the table.
MCEventIDs == {-1} \cup UNION {{MCTagBin[k] - 1, MCTagBin[k], MCTagBin[k] + 1} : k \in 1..19}

\* The coder parameters a caller of HCcreate may pass (comp_info union).
CallerCoders ==
    {[type |-> t, c |-> NoParams] : t \in {COMP_CODE_NONE, COMP_CODE_RLE}}
    \cup {[type |-> COMP_CODE_NBIT,
           c |-> [NoParams EXCEPT !.nt = nt, !.sign_ext = se, !.fill_one = fo,
                                  !.mask_off = off, !.mask_len = len]] :
            nt \in NumTypes, se \in {0, 1}, fo \in {0, 1},
            off \in BitFields, len \in BitFields}
    \cup {[type |-> COMP_CODE_SKPHUFF, c |-> [NoParams EXCEPT !.skip_size = k]] :
            k \in SkipSizes}

\* The compinfo record HCcreate fills in before calling HCIwrite_header.
HeaderCalls ==
    {LET ci == HCIinit_coder(cc.type, cc.c)
     IN  [fn |-> "header",
          info |-> [length |-> len, comp_ref |-> ref, model_type |-> COMP_MODEL_STDIO,
                    coder_type |-> ci.coder_type, cparm |-> ci.cparm]] :
        len \in Lengths, ref \in CompRefs, cc \in CallerCoders}

Calls ==
    HeaderCalls
    \cup {[fn |-> "HDmemfill", item_size |-> k, num_items |-> n] : k \in ItemSizes, n \in NumItems}
    \cup {[fn |-> "HIstrncpy", slen |-> s, len |-> l] : s \in StrLens, l \in Lens}
    \cup {[fn |-> "computePacketTag", id |-> id] : id \in EventIDs}
    \cup {[fn |-> "memcpy_big", len |-> n] : n \in BigLens}
    \cup {[fn |-> "memset_big", len |-> n, c |-> c] : n \in BigLens, c \in FillValues}
    \cup UNION {{[fn |-> "memcmp_big", len |-> n, up |-> u, down |-> w] :
                  u \in -1..n, w \in -1..n} : n \in BigLens}

Init == call \in Calls
Next == UNCHANGED call
Spec == Init /\ [][Next]_call

(* Header round trip: parsing the descriptor that HCIwrite_header wrote    *)
(* gives back the length, comp_ref, model, coder and every coder parameter *)
(* (the N-bit fields as HCIinit_coder stored them), and after HCPwrite     *)
(* rewrites the length word at offset+4, parsing gives the new length with *)
(* every other field intact.                                               *)
Parsed(info, len) ==
    [ok |-> TRUE, length |-> len, comp_ref |-> info.comp_ref,
     model_type |-> info.model_type, coder_type |-> info.coder_type, cparm |-> info.cparm]

HeaderRoundTrip ==
    call.fn = "header" =>
        LET d == HCIwrite_header_bytes(call.info)
        IN  /\ HCIread_header(d) = Parsed(call.info, call.info.length)
            /\ \A nl \in Lengths : HCIread_header(PatchLength(d, nl)) = Parsed(call.info, nl)

\* Item bytes are distinct (1..item_size), so a misplaced copy shows; every
\* dest buffer holds Spare bytes of 255 past what the call may write, so an
\* overrun shows.
Bytes(n) == [i \in 1..n |-> 255]

\* The reference fill: byte o of the first num_items * item_size bytes is
\* byte o mod item_size of the item; the rest of dest is untouched.
MemfillRef(dest, src, k, n) ==
    [i \in 1..Len(dest) |-> IF i <= n * k THEN src[((i - 1) % k) + 1] ELSE dest[i]]

(* HDmemfill fills exactly: for every item size and count, the doubling    *)
(* copies of HDmemfill's loop and its final partial copy leave dest        *)
(* holding num_items copies of the item and nothing written past them     *)
(* (no count is filled short, none overruns the buffer).                   *)
MemfillMatchesReference ==
    call.fn = "HDmemfill" =>
        LET k == call.item_size
            n == call.num_items
            src == [i \in 1..k |-> i]
            dest == Bytes(n * k + Spare)
        IN  HDmemfill(dest, src, k, n) = MemfillRef(dest, src, k, n)

\* A C string of n bytes 'a' (97) followed by NUL.
CString(n) == [i \in 1..n |-> 97] \o << 0 >>

\* The reference copy: m = min(len - 1, strlen) bytes, then a NUL.
StrncpyRef(dest, source, len) ==
    LET m == IF len - 1 < Len(source) - 1 THEN len - 1 ELSE Len(source) - 1
    IN  IF len = 0 THEN dest
        ELSE [i \in 1..Len(dest) |-> IF i <= m THEN source[i]
                                      ELSE IF i = m + 1 THEN 0 ELSE dest[i]]

(* HIstrncpy stays within len: as its comment says, dest receives at most  *)
(* len bytes including the NUL it always adds, the copied prefix of       *)
(* source, and no byte past them changes, for strings shorter than,        *)
(* equal to and longer than len.                                           *)
StrncpyMatchesReference ==
    call.fn = "HIstrncpy" =>
        LET source == CString(call.slen)
            dest == Bytes(call.len + Spare)
        IN  HIstrncpy(dest, source, call.len) = StrncpyRef(dest, source, call.len)

\* Source buffers of distinct bytes, so a byte copied from the wrong offset
\* shows.
Distinct(n) == [i \in 1..n |-> i]

(* memcpy_big copies like one memcpy: for every length, below, at and     *)
(* past multiples of UINT_MAX, the chunk loop leaves dst holding the first *)
(* len bytes of src and nothing past them changed; the pointer advance    *)
(* and the remainder after the last full chunk decide it.                 *)
MemcpyBigMatchesReference ==
    call.fn = "memcpy_big" =>
        LET dst == Bytes(call.len + Spare)
            src == Distinct(call.len + Spare)
        IN  memcpy_big(dst, src, call.len) = HDmemcpy(dst, 0, src, 0, call.len)

(* memset_big sets like one memset: every one of the len bytes, the ones  *)
(* in full chunks and the remainder, holds c as an unsigned char, and no   *)
(* byte past len changes, for c inside and outside 0..255.                 *)
MemsetBigMatchesReference ==
    call.fn = "memset_big" =>
        LET buf == Distinct(call.len + Spare)
        IN  memset_big(buf, call.c, call.len) = HDmemset(buf, 0, call.c, call.len)

\* The sign of a comparison result.
Sgn(x) == IF x > 0 THEN 1 ELSE IF x < 0 THEN -1 ELSE 0

(* memcmp_big orders like one memcmp: with s2 above s1 at offset up and   *)
(* below it at offset down (-1: nowhere), the chunked comparison has the  *)
(* sign of the first difference among the len bytes, whichever chunk it   *)
(* falls in and whatever differs after it or past len.                    *)
MemcmpBigAgrees ==
    call.fn = "memcmp_big" =>
        LET s1 == [i \in 1..call.len + Spare |-> 10]
            s2 == [i \in 1..call.len + Spare |->
                     CASE i - 1 = call.up   -> 11
                       [] i - 1 = call.down -> 9
                       [] OTHER             -> 10]
        IN  Sgn(memcmp_big(s1, s2, call.len)) = Sgn(HDmemcmp(s1, 0, s2, 0, call.len))

\* The reference bin of an event id: the j with TagBin[j] <= id < TagBin[j+1].
RefBin(id) ==
    IF \E j \in 0..Len(TagBin)-2 : TagBin[j+1] <= id /\ id < TagBin[j+2]
    THEN CHOOSE j \in 0..Len(TagBin)-2 : TagBin[j+1] <= id /\ id < TagBin[j+2]
    ELSE -1

(* Packet tag and mask agree with the bin: computePacketTag and            *)
(* computeProcMask return the tag and the bit of the TagBin interval that  *)
(* contains the event id, at the interval bounds too (a bound belongs to   *)
(* the family above it), and -1 for an id outside the table.               *)
BinSearchCorrect ==
    call.fn = "computePacketTag" =>
        LET j == RefBin(call.id)
        IN  /\ computePacketTag(call.id) = IF j = -1 THEN -1 ELSE j * HDF_FAMILY
            /\ computeProcMask(call.id) = IF j = -1 THEN -1 ELSE 2 ^ j
=============================================================================
