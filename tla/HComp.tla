------------------------------- MODULE HComp -------------------------------
(***************************************************************************)
(* The compressed-element engine of hcomp.c over one open HDF file.        *)
(*                                                                         *)
(* State of the file record (hfile.c, modelled from spec.md 4.B/4.C):      *)
(*   dd      the DD slots of the DD-block chain, nslots of them in use;    *)
(*   hash    the (tag, ref) -> slot index, a set of <<tag, ref, slot>>;    *)
(*   desc    the bytes stored at each DD's offset (descriptors only);      *)
(*   maxref, attach   the file record's counters;                          *)
(*   acc     the access-record table;                                      *)
(*   heap, cinfo      the compinfo_t records HDmalloc has handed out;      *)
(*                                                                         *)
(* The stdio model and the coders are not in the sources; from spec.md     *)
(* 4.E.2/4.E.3 they are a byte stream over the backing (DFTAG_COMPRESSED,  *)
(* comp_ref) DD that the first stwrite creates.                            *)
(***************************************************************************)
EXTENDS HCompHeader, FiniteSets, FiniteSetsExt

CONSTANTS
    Tags,       \* base tags a caller passes
    Refs,       \* refs a caller passes
    AIDs,       \* access-record table slots
    InfoIds,    \* heap cells that can hold a compinfo_t
    NDDS,       \* DD slots per DD block
    MaxBlocks,  \* bound: DD blocks in the chain
    MaxRef,     \* bound: largest ref Hnewref hands out
    MaxLen,     \* bound: largest logical length of an element
    InitDD,     \* regular elements in the first DD block when the file is opened
    Coders,     \* coder choices [type, c] a caller passes to HCcreate
    Lens,       \* lengths a caller passes to read and write
    Offsets,    \* offsets a caller passes to seek
    FileAccess, \* the access mode the file was opened with
    Failing     \* the collaborator calls that may fail in this run

FailPoints == {"dd_block", "header_io", "header_dd", "model_start", "model_end",
               "model_seek", "read_io", "deldd", "del_hash", "length_io"}

ASSUME Failing \subseteq FailPoints

VARIABLES dd, nslots, hash, desc, maxref, attach, acc, heap, cinfo

vars == <<dd, nslots, hash, desc, maxref, attach, acc, heap, cinfo>>

DFTAG_NULL       == 1
DFTAG_COMPRESSED == 40
DFACC_READ       == 1
DFACC_WRITE      == 2
DFACC_RDWR       == 3
DF_START         == 0
DF_CURRENT       == 1
DF_END           == 2
NoInfo           == 0
MaxSlots         == NDDS * MaxBlocks
Slots            == 1..MaxSlots
FreeDD           == [tag |-> DFTAG_NULL, ref |-> 0, len |-> 0]
NoRec            == [length |-> 0, comp_ref |-> 0, model_type |-> 0,
                     coder_type |-> 0, cparm |-> NoParams]
NoAcc            == [used |-> FALSE, slot |-> 0, posn |-> 0, access |-> 0, info |-> NoInfo]

\* htags.h: the special bit of a tag, and the special version of a tag.
SPECIALTAG(t)   == t >= 16384 /\ t < 32768
MKSPECIALTAG(t) == IF t >= 32768 THEN DFTAG_NULL
                   ELSE IF SPECIALTAG(t) THEN t ELSE t + 16384
HasMode(m, bit) == (m \div bit) % 2 = 1

(***************************************************************************)
(* File-store and access-table collaborators (hfile.c; spec.md 4.B, 4.C).  *)
(***************************************************************************)

(* HIlookup_dd: the slot of (t, r) through the hash index; a base tag also *)
(* finds the special version of itself (HCcreate line 550 relies on it).   *)
HIlookup_dd(h, t, r) ==
    LET At(tg) == {x[3] : x \in {y \in h : y[1] = tg /\ y[2] = r}}
    IN  IF At(t) # {} THEN Min(At(t))
        ELSE IF At(MKSPECIALTAG(t)) # {} THEN Min(At(MKSPECIALTAG(t)))
        ELSE 0

(* A free DD slot: the first free one of the chain (HIlookup_dd with       *)
(* DFTAG_NULL), else the first slot of a new block (HInew_dd_block), else  *)
(* none.  Returns the slot and the new chain length.                       *)
HIalloc_dd(d, n) ==
    LET free == {s \in 1..n : d[s].tag = DFTAG_NULL}
    IN  IF free # {} THEN [slot |-> Min(free), n |-> n]
        ELSE IF n + NDDS <= MaxSlots THEN [slot |-> n + 1, n |-> n + NDDS]
        ELSE [slot |-> 0, n |-> n]

(* HIadd_hash_dd can add (t, r): the hash index refuses a key it already  *)
(* holds, since it enforces that (tag, ref) is unique in a file (spec.md 3). *)
HIadd_hash_dd_ok(h, t, r) == ~\E x \in h : x[1] = t /\ x[2] = r

\* HIget_access_slot: the first unused access record, 0 when the table is full.
HIget_access_slot(ac) ==
    LET free == {a \in AIDs : ~ac[a].used} IN IF free = {} THEN 0 ELSE Min(free)

\* HDmalloc(sizeof(compinfo_t)): a free heap cell, NoInfo when memory is exhausted.
HDmalloc_info(hp) ==
    IF InfoIds \ hp = {} THEN NoInfo ELSE Min(InfoIds \ hp)

\* The access records open for writing on the element of a DD slot.  As the
\* hash index keeps (tag, ref) unique, a slot names one element.
Writers(s) == {a \in AIDs : acc[a].used /\ acc[a].slot = s /\ acc[a].access = DFACC_RDWR}

\* The whole state as a record, so that a handler can be written as the
\* sequence of updates the C code performs, committed at its exit.
Cur == [dd |-> dd, nslots |-> nslots, hash |-> hash, desc |-> desc, maxref |-> maxref,
        attach |-> attach, acc |-> acc, heap |-> heap, cinfo |-> cinfo]

Commit(st) ==
    /\ dd' = st.dd         /\ nslots' = st.nslots /\ hash' = st.hash
    /\ desc' = st.desc     /\ maxref' = st.maxref /\ attach' = st.attach
    /\ acc' = st.acc       /\ heap' = st.heap     /\ cinfo' = st.cinfo

(* The stdio model's stwrite on a new element: the coder creates the       *)
(* backing (DFTAG_COMPRESSED, comp_ref) DD with COMP_START_BLOCK bytes.     *)
(* can is FALSE when the DD chain is at the MaxBlocks bound.               *)
ModelStwriteNew(st, cr) ==
    LET b == HIalloc_dd(st.dd, st.nslots)
    IN  [can |-> b.slot # 0,
         st  |-> [st EXCEPT
                    !.dd = [@ EXCEPT ![b.slot] = [tag |-> DFTAG_COMPRESSED, ref |-> cr,
                                                   len |-> COMP_START_BLOCK]],
                    !.nslots = b.n,
                    !.hash = @ \cup {<<DFTAG_COMPRESSED, cr, b.slot>>}]]

(* Mutation: the DD updated and hashed without the descriptor bytes       *)
(* (the HPwrite of the header left out).                                   *)
HCIwrite_header_noWrite(x, s, tag, ref, hdr) ==
    [x EXCEPT !.dd = [@ EXCEPT ![s] = [tag |-> tag, ref |-> ref, len |-> Len(hdr)]],
              !.hash = @ \cup {<<tag, ref, s>>}]

(* HCIwrite_header (hcomp.c 270-361) when it succeeds: the DD gets the     *)
(* special tag and ref and the descriptor's length, the descriptor bytes   *)
(* are written to its block, and the DD is updated and added to the hash   *)
(* (HCcreate checks beforehand that the hash add is not refused).          *)
HCIwrite_header(x, s, tag, ref, hdr) ==
    [x EXCEPT !.dd = [@ EXCEPT ![s] = [tag |-> tag, ref |-> ref, len |-> Len(hdr)]],
              !.desc = [@ EXCEPT ![s] = hdr],
              !.hash = @ \cup {<<tag, ref, s>>}]

(* Mutation: the maxref update without its comparison.                     *)
HCIupdate_maxref_always(m, r) == r

\* HCcreate 634-635: a caller's ref larger than maxref becomes maxref.
HCIupdate_maxref(m, r) == IF r > m THEN r ELSE m

(* Mutation: a new compinfo always starting at COMP_START_BLOCK.          *)
HCIinitial_length_startBlock(d, ex) == COMP_START_BLOCK

\* HCcreate 595-598: an existing element keeps its length, a new one starts
\* at COMP_START_BLOCK.
HCIinitial_length(d, ex) == IF ex # 0 THEN d[ex].len ELSE COMP_START_BLOCK

(* HCcreate 649-702: the old regular element is migrated through the new  *)
(* access -- Hgetelement of its bytes (which needs a second access record), *)
(* HCPwrite of them and HCPseek(0) -- and its DD is deleted with Hdeldd and *)
(* HIdel_hash_dd.  Every failure exit clears only the access record and    *)
(* frees the compinfo; on success the caller holds the writer.  st is the  *)
(* file state after the model's stwrite.                                   *)
HCcreate_migrate(st, t, r, ex, a, i, writer) ==
    LET spare == HIget_access_slot([acc EXCEPT ![a].used = TRUE])
        \* Hdeldd has freed the old DD and dropped it from the index
        deleted == [st EXCEPT !.dd = [@ EXCEPT ![ex] = FreeDD],
                              !.hash = @ \ {<<t, r, ex>>}]
        Freed(x) == [x EXCEPT !.heap = @ \ {i}, !.cinfo = [@ EXCEPT ![i] = NoRec]]
    IN  \/ /\ spare = 0 \/ "read_io" \in Failing        \* Hgetelement fails
           /\ Commit(Freed(st))
        \/ /\ spare # 0                                 \* HCPseek(0) or Hdeldd fails
           /\ "model_seek" \in Failing \/ "deldd" \in Failing
           /\ Commit(Freed(st))
        \/ /\ spare # 0 /\ "del_hash" \in Failing        \* HIdel_hash_dd(DFTAG_NULL, ref) fails
           /\ Commit(Freed(deleted))
        \/ /\ spare # 0                                 \* existing element compressed
           /\ Commit([deleted EXCEPT !.acc = [@ EXCEPT ![a] = writer]])

(***************************************************************************)
(* HCcreate (hcomp.c 506-707).  Each disjunct is one way the call ends;    *)
(* the failures that change nothing are left to the guard.                 *)
(***************************************************************************)
HCcreate(t, r, cc) ==
    LET st   == MKSPECIALTAG(t)
        a    == HIget_access_slot(acc)
        ex   == HIlookup_dd(hash, t, r)
        ds   == HIalloc_dd(dd, nslots)
        s    == ds.slot
        i    == HDmalloc_info(heap)
        cr   == maxref + 1
        ci   == HCIinit_coder(cc.type, cc.c)
        info == [length |-> HCIinitial_length(dd, ex),
                 comp_ref |-> cr, model_type |-> COMP_MODEL_STDIO,
                 coder_type |-> ci.coder_type, cparm |-> ci.cparm]
        hdr  == HCIwrite_header_bytes(info)
        \* after the DD slot is taken and the special info is allocated
        s1 == [Cur EXCEPT !.nslots = ds.n]
        \* HCIwrite_header has set the DD's tag/ref; Hnewref bumped maxref
        s2 == [s1 EXCEPT !.dd = [@ EXCEPT ![s] = [tag |-> st, ref |-> r, len |-> Len(hdr)]],
                         !.maxref = cr, !.heap = @ \cup {i}, !.cinfo = [@ EXCEPT ![i] = info]]
        \* header written, DD updated and hashed; attach and maxref updated
        s3 == [HCIwrite_header(s2, s, st, r, hdr) EXCEPT
                 !.attach = @ + 1, !.maxref = HCIupdate_maxref(@, r)]
        mw == ModelStwriteNew(s3, cr)
        s4 == mw.st
        \* HIadd_hash_dd (HCIwrite_header 353) refuses (st, r): DFE_CANTHASH
        hashed == HIadd_hash_dd_ok(hash, st, r)
        writer == [used |-> TRUE, slot |-> s, posn |-> 0, access |-> DFACC_RDWR, info |-> i]
    IN
    /\ ~SPECIALTAG(t) /\ st # DFTAG_NULL            \* DFE_ARGS
    /\ HasMode(FileAccess, DFACC_WRITE)              \* DFE_DENIED
    /\ a # 0                                         \* DFE_TOOMANY
    /\ ~(ex # 0 /\ SPECIALTAG(dd[ex].tag))           \* DFE_CANTMOD
    /\ s # 0                                         \* DFE_NOFREEDD
    /\ maxref < MaxRef
    /\ \/ /\ i = NoInfo                              \* DFE_NOSPACE
          /\ Commit(s1)
       \/ /\ i # NoInfo                              \* HCIwrite_header fails
          /\ \E written \in {w \in BOOLEAN : IF w THEN "header_dd" \in Failing \/ ~hashed
                                                   ELSE "header_io" \in Failing} :
                Commit(IF written THEN [s2 EXCEPT !.desc = [@ EXCEPT ![s] = hdr]] ELSE s2)
       \/ /\ i # NoInfo /\ hashed                    \* model stwrite fails
          /\ \/ "model_start" \in Failing
             \/ ~mw.can /\ "dd_block" \in Failing
          /\ Commit(s3)
       \/ /\ i # NoInfo /\ hashed /\ mw.can /\ ex = 0 \* new element
          /\ Commit([s4 EXCEPT !.acc = [@ EXCEPT ![a] = writer]])
       \/ /\ i # NoInfo /\ hashed /\ mw.can /\ ex # 0 \* an existing element
          /\ HCcreate_migrate(s4, t, r, ex, a, i, writer)

(***************************************************************************)
(* Hstartread / Hstartwrite on a compressed element: the H layer takes an  *)
(* access slot and finds the DD, then HCPstread / HCPstwrite (hcomp.c      *)
(* 793-851) run HCIstaccess (726-775) and the model's stread / stwrite.    *)
(***************************************************************************)
HCPstaccess(t, r, mode) ==
    LET a    == HIget_access_slot(acc)
        s    == HIlookup_dd(hash, t, r)
        i    == HDmalloc_info(heap)
        h    == HCIread_header(desc[s])
        ci   == HCIinit_coder(h.coder_type, h.cparm)
        info == [length |-> h.length, comp_ref |-> h.comp_ref, model_type |-> h.model_type,
                 coder_type |-> ci.coder_type, cparm |-> ci.cparm]
        \* the coder's stread / stwrite opens the backing element
        backed  == HIlookup_dd(hash, DFTAG_COMPRESSED, info.comp_ref) # 0
    IN
    /\ a # 0 /\ s # 0 /\ SPECIALTAG(dd[s].tag)
    \* The caller's discipline, not a check of the code: it never opens a
    \* second writer on an element (spec.md 1: concurrent multi-writer
    \* access is a non-goal).
    /\ mode = DFACC_WRITE => Writers(s) = {}
    /\ HasMode(FileAccess, mode)                      \* else DFE_ARGS
    /\ i # NoInfo                                     \* else DFE_NOSPACE
    /\ h.ok                                           \* else HDfree(info)
    /\ HCIinit_model(h.model_type) /\ ci.ok           \* else HDfree(info)
    /\ attach' = attach + 1
    /\ heap' = heap \cup {i}
    /\ cinfo' = [cinfo EXCEPT ![i] = info]
    /\ \/ /\ backed
          /\ acc' = [acc EXCEPT ![a] = [used |-> TRUE, slot |-> s, posn |-> 0,
                                         access |-> mode + DFACC_READ - (mode % 2),
                                         info |-> i]]
       \/ /\ ~backed \/ "model_start" \in Failing     \* model start fails
          /\ UNCHANGED acc
    /\ UNCHANGED <<dd, nslots, hash, desc, maxref>>

HCPstread(t, r)  == HCPstaccess(t, r, DFACC_READ)
HCPstwrite(t, r) == HCPstaccess(t, r, DFACC_WRITE)

(* The stdio model's seek (spec.md 4.E.2): a reader may seek anywhere in   *)
(* [0, length]; a writer may stay, restart at 0, or go to the end.         *)
ModelSeek(ar, info, off) ==
    IF ar.access = DFACC_READ THEN off <= info.length
    ELSE off \in {0, ar.posn, info.length}

(* Mutation: HCPseek without its check for a negative offset.             *)
HCPseek_noRange(a, off, origin) ==
    LET o == CASE origin = DF_CURRENT -> off + acc[a].posn
               [] origin = DF_END     -> off + cinfo[acc[a].info].length
               [] OTHER               -> off
    IN  /\ acc[a].used
        /\ ModelSeek(acc[a], cinfo[acc[a].info], o)
        /\ acc' = [acc EXCEPT ![a].posn = o]
        /\ UNCHANGED <<dd, nslots, hash, desc, maxref, attach, heap, cinfo>>

\* HCPseek (hcomp.c 871-894).
HCPseek(a, off, origin) ==
    LET ar   == acc[a]
        info == cinfo[ar.info]
        o    == CASE origin = DF_CURRENT -> off + ar.posn
                  [] origin = DF_END     -> off + info.length
                  [] OTHER               -> off
    IN  /\ ar.used
        /\ o >= 0                                     \* else DFE_RANGE
        /\ ModelSeek(ar, info, o)                     \* else DFE_MODEL
        /\ acc' = [acc EXCEPT ![a].posn = o]
        /\ UNCHANGED <<dd, nslots, hash, desc, maxref, attach, heap, cinfo>>

(* Mutation: HCPread without its range check.                             *)
HCPread_noRange(a, n) ==
    LET len == IF n = 0 THEN cinfo[acc[a].info].length - acc[a].posn ELSE n
    IN  /\ acc[a].used
        /\ n >= 0
        /\ acc' = [acc EXCEPT ![a].posn = @ + len]
        /\ UNCHANGED <<dd, nslots, hash, desc, maxref, attach, heap, cinfo>>

(* HCPread (hcomp.c 914-940).  Length 0 reads to the end.  The model read  *)
(* does not change the modelled state.  HCIstaccess gives every access     *)
(* the read bit (line 744), so a writer may read too.                      *)
HCPread(a, n) ==
    LET ar   == acc[a]
        info == cinfo[ar.info]
        len  == IF n = 0 THEN info.length - ar.posn ELSE n
    IN  /\ ar.used
        /\ n >= 0
        /\ n # 0 => ar.posn + n <= info.length        \* else DFE_RANGE
        /\ acc' = [acc EXCEPT ![a].posn = @ + len]
        /\ UNCHANGED <<dd, nslots, hash, desc, maxref, attach, heap, cinfo>>

(* HCPwrite (hcomp.c 960-1004): the model writes the bytes, the position   *)
(* advances, and when it passes the length the length is raised and        *)
(* rewritten at offset+4 of the descriptor; that rewrite may fail after    *)
(* the in-memory length has changed.                                       *)
HCPwrite(a, n) ==
    LET ar   == acc[a]
        i    == ar.info
        np   == ar.posn + n
        grow == np > cinfo[i].length
    IN  /\ ar.used /\ ar.access = DFACC_RDWR
        /\ n >= 0                                     \* else DFE_RANGE
        /\ np <= MaxLen
        /\ acc' = [acc EXCEPT ![a].posn = np]
        /\ cinfo' = IF grow THEN [cinfo EXCEPT ![i].length = np] ELSE cinfo
        /\ \/ desc' = IF grow THEN [desc EXCEPT ![ar.slot] = PatchLength(@, np)] ELSE desc
           \/ /\ grow /\ "length_io" \in Failing     \* DFE_WRITEERROR
              /\ UNCHANGED desc
        /\ UNCHANGED <<dd, nslots, hash, maxref, attach, heap>>

(* Mutations of HCPendaccess: no check that the record is in use; the      *)
(* record left in use.                                                     *)
HCPendaccess_unchecked(a) ==
    /\ heap' = heap \ {acc[a].info}
    /\ cinfo' = IF acc[a].used THEN [cinfo EXCEPT ![acc[a].info] = NoRec] ELSE cinfo
    /\ attach' = attach - 1
    /\ acc' = [acc EXCEPT ![a] = NoAcc]
    /\ UNCHANGED <<dd, nslots, hash, desc, maxref>>
HCPendaccess_keepsRecord(a) ==
    /\ acc[a].used
    /\ heap' = heap \ {acc[a].info}
    /\ cinfo' = [cinfo EXCEPT ![acc[a].info] = NoRec]
    /\ attach' = attach - 1
    /\ UNCHANGED <<dd, nslots, hash, desc, maxref, acc>>

(* HCPendaccess (hcomp.c 1078-1098) with HCPcloseAID (1116-1132): the      *)
(* model's endaccess, the compinfo freed when its count drops to 0, the    *)
(* file detached and the record released.  HCPcloseAID's failure is        *)
(* ignored by HCPendaccess.                                                *)
HCPendaccess(a) ==
    LET i == acc[a].info
    IN  /\ acc[a].used
        /\ \/ /\ heap' = heap \ {i}
              /\ cinfo' = [cinfo EXCEPT ![i] = NoRec]
           \/ /\ "model_end" \in Failing              \* model endaccess fails
              /\ UNCHANGED <<heap, cinfo>>
        /\ attach' = attach - 1
        /\ acc' = [acc EXCEPT ![a] = NoAcc]
        /\ UNCHANGED <<dd, nslots, hash, desc, maxref>>

Init ==
    /\ dd = [s \in Slots |-> IF s <= Len(InitDD) THEN InitDD[s] ELSE FreeDD]
    /\ nslots = NDDS
    /\ hash = {<<InitDD[k].tag, InitDD[k].ref, k>> : k \in 1..Len(InitDD)}
    /\ desc = [s \in Slots |-> << >>]
    /\ maxref = Max({0} \cup {InitDD[k].ref : k \in 1..Len(InitDD)})
    /\ attach = 0
    /\ acc = [a \in AIDs |-> NoAcc]
    /\ heap = {}
    /\ cinfo = [i \in InfoIds |-> NoRec]

Next ==
    \/ \E t \in Tags, r \in Refs, cc \in Coders : HCcreate(t, r, cc)
    \/ \E t \in Tags, r \in Refs : HCPstread(t, r) \/ HCPstwrite(t, r)
    \/ \E a \in AIDs, off \in Offsets, origin \in {DF_START, DF_CURRENT, DF_END} :
          HCPseek(a, off, origin)
    \/ \E a \in AIDs, n \in Lens : HCPread(a, n) \/ HCPwrite(a, n)
    \/ \E a \in AIDs : HCPendaccess(a)

Spec == Init /\ [][Next]_vars

-----------------------------------------------------------------------------
(***************************************************************************)
(* Properties.                                                             *)
(***************************************************************************)

Live(s) == s \in 1..nslots /\ dd[s].tag # DFTAG_NULL
Used    == {a \in AIDs : acc[a].used}
\* The descriptors reachable through the hash index, parsed.
Descriptors == {h \in hash : SPECIALTAG(h[1])}

TypeOK ==
    /\ nslots \in {NDDS * k : k \in 1..MaxBlocks}
    /\ dd \in [Slots -> [tag : Nat, ref : 0..MaxRef, len : Nat]]
    /\ hash \subseteq (Nat \X (0..MaxRef) \X Slots)
    /\ maxref \in 0..MaxRef
    /\ attach \in Nat
    /\ acc \in [AIDs -> [used : BOOLEAN, slot : 0..MaxSlots, posn : 0..MaxLen,
                          access : {0, DFACC_READ, DFACC_RDWR}, info : InfoIds \cup {NoInfo}]]
    /\ heap \subseteq InfoIds

(* Attach never undercounts: the file record's attach count is at least   *)
(* the number of access records in use, so Hclose (which refuses while     *)
(* attach is not 0) can never close the file under an open access.         *)
AttachCoversAccesses == attach >= Cardinality(Used)

(* No use after free: every access record in use owns its own compinfo,    *)
(* which is still allocated and describes the element the access is on.    *)
InfoOwned ==
    \A a \in Used :
        /\ acc[a].info \in heap
        /\ \A b \in Used \ {a} : acc[b].info # acc[a].info
        /\ cinfo[acc[a].info].comp_ref = HCIread_header(desc[acc[a].slot]).comp_ref

(* Attach count: the file record's attach count is the number of access   *)
(* records in use, so Hclose (which needs 0) succeeds once every access    *)
(* is ended.  Every path of HCcreate, HCIstaccess and HCPendaccess that    *)
(* changes one must change the other.                                      *)
AttachCountsAccesses == attach = Cardinality(Used)

(* No leaked compinfo: every compinfo_t HDmalloc handed out belongs to     *)
(* exactly one access record in use (spec.md 5: a failing start frees it). *)
NoLeakedInfo ==
    /\ heap = {acc[a].info : a \in Used}
    /\ \A a, b \in Used : a # b => acc[a].info # acc[b].info

(* A writer's length is on disk: for every open write access, the length  *)
(* word of its descriptor equals the length in its compinfo, so ending the *)
(* access or a crash of the caller loses no appended bytes.               *)
WriterHeaderCurrent ==
    \A a \in Used :
        acc[a].access = DFACC_RDWR =>
            HCIread_header(desc[acc[a].slot]).length = cinfo[acc[a].info].length

(* Backing elements: every compressed element reachable through the index *)
(* names a live backing DD of its own; no two share a comp_ref.            *)
BackingRefsDistinct ==
    \A h \in Descriptors :
        LET cr == HCIread_header(desc[h[3]]).comp_ref
        IN  /\ HIlookup_dd(hash, DFTAG_COMPRESSED, cr) # 0
            /\ \A g \in Descriptors \ {h} : HCIread_header(desc[g[3]]).comp_ref # cr

(* Attachable: every compressed element reachable through the index can be *)
(* opened: its descriptor parses and names a known model and a coder whose *)
(* set-up succeeds, so HCIstaccess does not fail on it.                    *)
Attachable ==
    \A h \in Descriptors :
        LET p == HCIread_header(desc[h[3]])
        IN  p.ok /\ HCIinit_model(p.model_type) /\ HCIinit_coder(p.coder_type, p.cparm).ok

(* Index mirrors the DD blocks (spec.md 3): the hash holds exactly the     *)
(* live DD slots.                                                          *)
HashMirrorsDDs ==
    hash = {<<dd[s].tag, dd[s].ref, s>> : s \in {x \in 1..nslots : Live(x)}}

(* Nothing is orphaned: every compinfo HDmalloc handed out belongs to one  *)
(* open access, and every claimed DD slot is in the hash index, so a failed *)
(* HCcreate or start gives back what it took.  HCIwrite_header claims the  *)
(* slot and HCcreate the compinfo before HIadd_hash_dd can refuse the key. *)
NothingOrphaned == NoLeakedInfo /\ HashMirrorsDDs

(* Readers see ended writes (spec.md 4.E.4, 5: opens of one element share *)
(* one refcounted special_info, and a write is visible to readers once its *)
(* access has ended): a read access open on an element no one is writing   *)
(* has the length recorded in the element's descriptor.                    *)
ReadersSeeEndedWrites ==
    \A a \in Used :
        acc[a].access = DFACC_READ /\ Writers(acc[a].slot) = {} =>
            cinfo[acc[a].info].length = HCIread_header(desc[acc[a].slot]).length

(* A reader stays inside the element: a read access's position never      *)
(* passes the length it was opened with.                                   *)
ReaderWithinElement ==
    \A a \in Used : acc[a].access = DFACC_READ => acc[a].posn <= cinfo[acc[a].info].length
-----------------------------------------------------------------------------
(***************************************************************************)
(* Refinement: the engine seen as the element store of CompStore.  An      *)
(* element is what HIlookup_dd finds for its (tag, ref) -- the regular DD  *)
(* itself, or the special one whose descriptor gives the length -- and an  *)
(* access is its record: the element of its DD, its position and the       *)
(* length in its own compinfo.                                             *)
(***************************************************************************)
NoKey == <<0, 0>>

\* The length an element's descriptor records (0 when it does not parse).
HeaderLength(d) == LET h == HCIread_header(d) IN IF h.ok THEN h.length ELSE 0

\* The element a lookup result denotes; a function so that a slot found by
\* HIlookup_dd is computed once.
AbsElemAt == [s \in {0} \cup Slots |->
    CASE s = 0                 -> [kind |-> "none", len |-> 0]
      [] SPECIALTAG(dd[s].tag) -> [kind |-> "comp", len |-> HeaderLength(desc[s])]
      [] OTHER                 -> [kind |-> "reg", len |-> dd[s].len]]

AbsElems == [k \in Tags \X Refs |-> AbsElemAt[HIlookup_dd(hash, k[1], k[2])]]

(* HCPinquire (hcomp.c 1032-1058): what an access reports of itself -- the *)
(* tag and ref of its descriptor's DD, the element's length as its        *)
(* compinfo has it, its position and access mode.                         *)
HCPinquire(a) ==
    [tag |-> dd[acc[a].slot].tag, ref |-> dd[acc[a].slot].ref,
     length |-> cinfo[acc[a].info].length, posn |-> acc[a].posn, access |-> acc[a].access]

\* An open access as HCPinquire reports it, keyed by the base tag.
AbsOpen(a) ==
    LET q == HCPinquire(a)
    IN  IF ~acc[a].used
        THEN [used |-> FALSE, key |-> NoKey, mode |-> "none", posn |-> 0, len |-> 0]
        ELSE [used |-> TRUE, key |-> <<q.tag - 16384, q.ref>>,
              mode |-> IF q.access = DFACC_READ THEN "read" ELSE "write",
              posn |-> q.posn, len |-> q.length]

InitElemsOf(d) ==
    [k \in Tags \X Refs |->
        LET js == {j \in 1..Len(d) : <<d[j].tag, d[j].ref>> = k}
        IN  IF js = {} THEN [kind |-> "none", len |-> 0]
            ELSE [kind |-> "reg", len |-> d[CHOOSE j \in js : TRUE].len]]

=============================================================================
