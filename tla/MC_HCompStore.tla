---------------------------- MODULE MC_HCompStore ----------------------------
(***************************************************************************)
(* HComp checked against the element store CompStore.  The abstract      *)
(* element table is a function of the state (AbsElems) that decodes       *)
(* descriptors; storeElems records its value in each state so that the    *)
(* refinement check decodes once per state rather than at every use in    *)
(* CompStore's Next.  It never constrains a step: the reachable states    *)
(* are those of MC_HComp.                                                  *)
(***************************************************************************)
EXTENDS MC_HComp

VARIABLE storeElems

StoreSpec ==
    /\ Init /\ storeElems = AbsElems
    /\ [][Next /\ storeElems' = AbsElems']_<<vars, storeElems>>

Store == INSTANCE CompStore WITH
            Keys <- Tags \X Refs, StartLen <- COMP_START_BLOCK, MaxPos <- MaxLen,
            InitElems <- InitElemsOf(InitDD),
            elems <- storeElems,
            opens <- [a \in AIDs |-> AbsOpen(a)]

(* HComp implements the element store: each step of HCcreate, Hstartread  *)
(* style accesses, HCPseek, HCPread, HCPwrite and HCPendaccess is a step  *)
(* of CompStore or leaves the store as it was.  So a created element      *)
(* keeps a converted element's length, a lookup finds the element last    *)
(* created, and a write past the end is the length every later open sees. *)
ImplementsStore == Store!Spec
=============================================================================
