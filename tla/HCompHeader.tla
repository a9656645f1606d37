---------------------------- MODULE HCompHeader ----------------------------
(***************************************************************************)
(* The on-disk descriptor of a compressed (SPECIAL_COMP) element, as       *)
(* hcomp.c writes it in HCIwrite_header and parses it in HCIread_header,   *)
(* and the model/coder table set-up of HCIinit_model and HCIinit_coder.    *)
(*                                                                         *)
(* A descriptor is a sequence of bytes (0..255).  The big-endian encode    *)
(* and decode macros (INT16ENCODE, UINT32DECODE, ...) live in hdf.h, which *)
(* is not part of the sources; they are modelled from spec.md section 4.A. *)
(***************************************************************************)
EXTENDS Integers, Sequences

\* Special-element and compression codes (hcompi.h / hdf.h).
SPECIAL_COMP        == 3
COMP_HEADER_VERSION == 0
COMP_HEADER_LENGTH  == 14
COMP_START_BLOCK    == 1
COMP_MODEL_STDIO    == 0
COMP_CODE_NONE      == 0
COMP_CODE_RLE       == 1
COMP_CODE_NBIT      == 2
COMP_CODE_SKPHUFF   == 3
CoderCodes          == {COMP_CODE_NONE, COMP_CODE_RLE, COMP_CODE_NBIT, COMP_CODE_SKPHUFF}

\* Number types an N-bit coder may name, with their sizes (DFKNTsize).
DFNT_UINT8 == 21
DFNT_INT16 == 22
DFNT_INT32 == 24
FAIL       == -1
DFKNTsize(nt) ==
    CASE nt = DFNT_UINT8 -> 1
      [] nt = DFNT_INT16 -> 2
      [] nt = DFNT_INT32 -> 4
      [] OTHER           -> FAIL

(***************************************************************************)
(* Byte encoding primitives (spec.md 4.A): big-endian, two's complement    *)
(* for the signed 32-bit form.  TLC integers are 32-bit, so 2^32 is never  *)
(* written down: a negative int32 is encoded through its offset from -2^31.*)
(***************************************************************************)
UINT16ENCODE(x) == << (x \div 256) % 256, x % 256 >>
Bytes31(u) ==
    << (u \div 16777216) % 128, (u \div 65536) % 256, (u \div 256) % 256, u % 256 >>
INT32ENCODE(x) ==
    IF x >= 0 THEN Bytes31(x)
    ELSE LET b == Bytes31(x + 2147483647 + 1) IN [b EXCEPT ![1] = @ + 128]
UINT16DECODE(b, i) == b[i] * 256 + b[i+1]
INT32DECODE(b, i) ==
    LET low31 == (((b[i] % 128) * 256 + b[i+1]) * 256 + b[i+2]) * 256 + b[i+3]
    IN  IF b[i] < 128 THEN low31 ELSE low31 - 2147483647 - 1
\* UINT32 values in this model stay below 2^31, so they share the int32 form.
UINT32ENCODE(x) == INT32ENCODE(x)
UINT32DECODE(b, i) == INT32DECODE(b, i)

(***************************************************************************)
(* Coder parameters: the comp_info union, flattened into one record whose  *)
(* unused fields are 0.  mask_off / mask_len are start_bit / bit_len.      *)
(***************************************************************************)
NoParams == [nt |-> 0, sign_ext |-> 0, fill_one |-> 0,
             mask_off |-> 0, mask_len |-> 0, skip_size |-> 0]

(* HCIinit_coder: selects the coder for coder_type and copies its          *)
(* parameters; for N-bit it fails when the number type has no size, after  *)
(* coder_type and the parameters have already been stored.  An unknown     *)
(* coder type leaves coder_type unset and fails.                           *)
HCIinit_coder(ctype, c) ==
    CASE ctype \in {COMP_CODE_NONE, COMP_CODE_RLE} ->
             [ok |-> TRUE, coder_type |-> ctype, cparm |-> NoParams]
      [] ctype = COMP_CODE_NBIT ->
             [ok |-> DFKNTsize(c.nt) # FAIL, coder_type |-> ctype,
              cparm |-> [NoParams EXCEPT !.nt = c.nt, !.sign_ext = c.sign_ext,
                                         !.fill_one = c.fill_one,
                                         !.mask_off = c.mask_off,
                                         !.mask_len = c.mask_len]]
      [] ctype = COMP_CODE_SKPHUFF ->
             [ok |-> TRUE, coder_type |-> ctype,
              cparm |-> [NoParams EXCEPT !.skip_size = c.skip_size]]
      [] OTHER -> [ok |-> FALSE, coder_type |-> FAIL, cparm |-> NoParams]

\* HCIinit_model: only the stdio model exists.
HCIinit_model(mtype) == mtype = COMP_MODEL_STDIO

(* Mutation: the descriptor bytes without the coder trailer.              *)
HCIwrite_header_bytes_noTrailer(info) ==
    UINT16ENCODE(SPECIAL_COMP) \o UINT16ENCODE(COMP_HEADER_VERSION)
      \o INT32ENCODE(info.length) \o UINT16ENCODE(info.comp_ref)
      \o UINT16ENCODE(info.model_type) \o UINT16ENCODE(info.coder_type)

(* The bytes HCIwrite_header puts in the new descriptor block for a        *)
(* compinfo record: the fixed 14-byte part, then the coder's trailer.      *)
(* SKPHUFF writes skip_size twice: the second word stands for "# of bytes  *)
(* compressed", which nothing reads.                                       *)
HCIwrite_header_bytes(info) ==
    LET p == info.cparm
        trailer ==
          CASE info.coder_type = COMP_CODE_NBIT ->
                   INT32ENCODE(p.nt) \o UINT16ENCODE(p.sign_ext) \o UINT16ENCODE(p.fill_one)
                     \o INT32ENCODE(p.mask_off) \o INT32ENCODE(p.mask_len)
            [] info.coder_type = COMP_CODE_SKPHUFF ->
                   UINT32ENCODE(p.skip_size) \o UINT32ENCODE(p.skip_size)
            [] OTHER -> << >>
    IN  UINT16ENCODE(SPECIAL_COMP) \o UINT16ENCODE(COMP_HEADER_VERSION)
          \o INT32ENCODE(info.length) \o UINT16ENCODE(info.comp_ref)
          \o UINT16ENCODE(info.model_type) \o UINT16ENCODE(info.coder_type) \o trailer

(* Mutation: HCIread_header with the N-bit mask words read swapped.        *)
HCIread_header_swapped(d) ==
    LET ctype == UINT16DECODE(d, 13)
        tlen  == CASE ctype = COMP_CODE_NBIT -> 16 [] ctype = COMP_CODE_SKPHUFF -> 8 [] OTHER -> 0
        cparm ==
          CASE ctype = COMP_CODE_NBIT ->
                   [NoParams EXCEPT !.nt = INT32DECODE(d, 15), !.sign_ext = UINT16DECODE(d, 19),
                                    !.fill_one = UINT16DECODE(d, 21),
                                    !.mask_off = INT32DECODE(d, 27), !.mask_len = INT32DECODE(d, 23)]
            [] ctype = COMP_CODE_SKPHUFF -> [NoParams EXCEPT !.skip_size = UINT32DECODE(d, 15)]
            [] OTHER -> NoParams
    IN  IF Len(d) < COMP_HEADER_LENGTH \/ Len(d) < COMP_HEADER_LENGTH + tlen
        THEN [ok |-> FALSE]
        ELSE [ok |-> TRUE, length |-> INT32DECODE(d, 5), comp_ref |-> UINT16DECODE(d, 9),
              model_type |-> UINT16DECODE(d, 11), coder_type |-> ctype, cparm |-> cparm]

(* HCIread_header: reads COMP_HEADER_LENGTH-2 bytes from offset+2 of the   *)
(* descriptor d (so byte 3 onwards), then the coder trailer.  A short      *)
(* read fails.  Neither the header version nor the special code is         *)
(* checked.  The result carries the compinfo fields and the comp_info      *)
(* parameters that HCIinit_coder is then given.                            *)
HCIread_header(d) ==
    LET ctype == UINT16DECODE(d, 13)
        tlen  == CASE ctype = COMP_CODE_NBIT    -> 16
                   [] ctype = COMP_CODE_SKPHUFF -> 8
                   [] OTHER                     -> 0
        cparm ==
          CASE ctype = COMP_CODE_NBIT ->
                   [NoParams EXCEPT !.nt = INT32DECODE(d, 15),
                                    !.sign_ext = UINT16DECODE(d, 19),
                                    !.fill_one = UINT16DECODE(d, 21),
                                    !.mask_off = INT32DECODE(d, 23),
                                    !.mask_len = INT32DECODE(d, 27)]
            [] ctype = COMP_CODE_SKPHUFF ->
                   [NoParams EXCEPT !.skip_size = UINT32DECODE(d, 15)]
            [] OTHER -> NoParams
    IN  IF Len(d) < COMP_HEADER_LENGTH \/ Len(d) < COMP_HEADER_LENGTH + tlen
        THEN [ok |-> FALSE]
        ELSE [ok |-> TRUE,
              length     |-> INT32DECODE(d, 5),
              comp_ref   |-> UINT16DECODE(d, 9),
              model_type |-> UINT16DECODE(d, 11),
              coder_type |-> ctype,
              cparm      |-> cparm]

(* Mutation: the length rewritten at offset + 2 instead of offset + 4.     *)
PatchLength_atVersion(d, len) ==
    SubSeq(d, 1, 2) \o INT32ENCODE(len) \o SubSeq(d, 7, Len(d))

(* The new uncompressed length that HCPwrite writes over bytes 4..7 of the *)
(* descriptor (offset + 4) when an access extends the element.            *)
PatchLength(d, len) ==
    SubSeq(d, 1, 4) \o INT32ENCODE(len) \o SubSeq(d, 9, Len(d))
=============================================================================
