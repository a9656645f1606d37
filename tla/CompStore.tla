------------------------------ MODULE CompStore ------------------------------
(***************************************************************************)
(* What the compressed-element layer promises its callers (spec.md 4.E,    *)
(* 5, 8), stated without DD blocks, descriptors, hash index or heap.       *)
(*                                                                         *)
(* An element, named by its (tag, ref) key, is absent, regular, or         *)
(* compressed, with a logical length.  HCcreate turns an absent or regular *)
(* element into a compressed one (a regular one keeps its bytes) and opens *)
(* it for writing.  An access reads or writes a compressed element at its  *)
(* position.  Each access sees the length the element had when the access  *)
(* was opened, extended by its own writes; a write past the end extends    *)
(* the element itself.  Callers open at most one writer per element        *)
(* (spec.md 1: multi-writer access is a non-goal).                        *)
(***************************************************************************)
EXTENDS Naturals

CONSTANTS
    Keys,       \* (tag, ref) pairs a caller may name
    AIDs,       \* access ids
    StartLen,   \* the logical length of a newly created element
    InitElems,  \* the elements of the file when it is opened
    NoKey,      \* the key of a closed access
    MaxPos      \* the largest position an access reaches

VARIABLES elems, opens

vars == <<elems, opens>>

None   == [kind |-> "none", len |-> 0]
Closed == [used |-> FALSE, key |-> NoKey, mode |-> "none", posn |-> 0, len |-> 0]

Writing(k) == {a \in AIDs : opens[a].used /\ opens[a].key = k /\ opens[a].mode = "write"}

Higher(x, y) == IF x > y THEN x ELSE y

\* Make k compressed (keeping a regular element's bytes) and open it for writing.
Create(k, a) ==
    LET len == IF elems[k].kind = "reg" THEN elems[k].len ELSE StartLen
    IN  /\ elems[k].kind # "comp"
        /\ ~opens[a].used
        /\ elems' = [elems EXCEPT ![k] = [kind |-> "comp", len |-> len]]
        /\ opens' = [opens EXCEPT ![a] = [used |-> TRUE, key |-> k, mode |-> "write",
                                          posn |-> 0, len |-> len]]

\* Open a compressed element; callers never open a second writer.
Open(k, a, mode) ==
    /\ elems[k].kind = "comp"
    /\ ~opens[a].used
    /\ mode = "write" => Writing(k) = {}
    /\ opens' = [opens EXCEPT ![a] = [used |-> TRUE, key |-> k, mode |-> mode,
                                      posn |-> 0, len |-> elems[k].len]]
    /\ UNCHANGED elems

\* Move to any position inside the element as the access sees it.
Seek(a, p) ==
    /\ opens[a].used
    /\ p <= opens[a].len
    /\ opens' = [opens EXCEPT ![a].posn = p]
    /\ UNCHANGED elems

\* Read forward to position p, never past the end; a writer may read too.
Read(a, p) ==
    /\ opens[a].used
    /\ opens[a].posn <= p /\ p <= opens[a].len
    /\ opens' = [opens EXCEPT ![a].posn = p]
    /\ UNCHANGED elems

\* Write the bytes from the position up to p; the element grows to cover them.
Write(a, p) ==
    LET o   == opens[a]
        len == Higher(o.len, p)
    IN  /\ o.used /\ o.mode = "write"
        /\ o.posn <= p
        /\ opens' = [opens EXCEPT ![a].posn = p, ![a].len = len]
        /\ elems' = [elems EXCEPT ![o.key].len = len]

End(a) ==
    /\ opens[a].used
    /\ opens' = [opens EXCEPT ![a] = Closed]
    /\ UNCHANGED elems

Init ==
    /\ elems = InitElems
    /\ opens = [a \in AIDs |-> Closed]

Next ==
    \/ \E a \in AIDs : opens[a].used /\ \E p \in 0..MaxPos : Seek(a, p) \/ Read(a, p) \/ Write(a, p)
    \/ \E a \in AIDs : End(a)
    \/ \E k \in Keys, a \in AIDs : Create(k, a)
    \/ \E k \in Keys, a \in AIDs, m \in {"read", "write"} : Open(k, a, m)

Spec == Init /\ [][Next]_vars
=============================================================================
