------------------------------ MODULE MC_HComp ------------------------------
(***************************************************************************)
(* Instantiation of HComp for TLC: one data tag, two refs, a file opened   *)
(* read/write whose first DD block holds one regular element (720, 1) of   *)
(* two bytes, two access records (HCcreate on an existing element needs a  *)
(* second one for Hgetelement), three compinfo cells.                      *)
(***************************************************************************)
EXTENDS HComp

\* The regular element the file starts with.
MCInitDD == << [tag |-> 720, ref |-> 1, len |-> 2] >>

\* Coder choices: RLE, and N-bit with a number type DFKNTsize knows
\* (24, DFNT_INT32) or does not (99).
MCCoders ==
    { [type |-> COMP_CODE_RLE, c |-> NoParams] } \cup
    { [type |-> COMP_CODE_NBIT,
       c |-> [NoParams EXCEPT !.nt = nt, !.mask_off = 7, !.mask_len = 8]] : nt \in {24, 99} }

\* Coders whose set-up succeeds.
MCGoodCoders == { c \in MCCoders : HCIinit_coder(c.type, c.c).ok }

\* The RLE coder alone.
MCRLE == { c \in MCCoders : c.type = COMP_CODE_RLE }

\* Offsets a seek is given: a negative one reaches DFE_RANGE.
MCOffsets == {-1, 0, 1}
=============================================================================
