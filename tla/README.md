# TLA+ models of HDF4's compressed elements, memory allocators and helpers, and I/O tracing

This directory holds TLA+ models of the parts of HDF4 in `src/`. They are checked
with TLC. `PROJECT.json` lists the components, the runs, the mutants, the
definition-to-source map, the findings and the hazards.

## The system

- **File store** (`hfile.c`, not in `src/`; described in spec.md 4.B, 4.C). One
  file record per open file. It holds a chain of DD blocks (each DD slot is a
  `(tag, ref, offset, length)`), a hash index `(tag, ref) -> slot`, a `maxref`
  counter and an `attach` count of open access ids (AIDs). A table of access
  records mediates all I/O.
- **Compressed special element engine** (`src/hdf/src/hcomp.c`). `HCcreate`
  turns a `(tag, ref)` into a compressed element. It writes a *descriptor* DD
  whose tag has the special bit (`MKSPECIALTAG`), and creates a *backing* DD
  `(DFTAG_COMPRESSED, comp_ref)` through the model's `stwrite`. If a regular
  element with that `(tag, ref)` exists, `HCcreate` reads its bytes, writes them
  through the compression layer, and deletes it. `HCPstread`/`HCPstwrite` use
  `HCIstaccess` to parse the descriptor into a `compinfo_t`. `HCPseek`,
  `HCPread` and `HCPwrite` go through the model. `HCPwrite` rewrites the length
  word when an access extends the element. `HCPendaccess` ends the model access,
  frees the `compinfo_t` and detaches.
- **Modeling and coding layers** (`mstdio.c`, `crle.c`, `cnbit.c`, `cskphuff.c`;
  not in `src/`, spec.md 4.E.2, 4.E.3). A byte stream over the backing DD.
- **Memory helpers** (`src/hdf/src/hdfalloc.c`). `HDmalloc`/`HDfree` and the
  platform routines, plus `HDmemfill` and `HIstrncpy`. In the 16-bit PC build,
  `HDmalloc` puts a 5-byte header in front of every block: a flag byte (1 if
  `halloc` gave the block, for requests of 64000 bytes or more, else 0 for
  `malloc`) and the uint32 size. `HDrealloc` reads that header, allocates the
  same way, copies the data and frees the old block through its flag; `HDfree`
  does the same. `HDcalloc` and `HDstrdup` call `HDmalloc`. The 16-bit PC builds
  also have `memcpy_big`, `memset_big` and `memcmp_big`. These split a 32-bit
  length into chunks of `UINT_MAX` bytes, because one C library call takes at
  most `UINT_MAX` bytes there.
- **Pablo I/O tracing wrappers** (`src/unnamed/part_000`). `HDFinitTrace`
  selects an output (`SDDF_OUTPUT`, `RT_OUTPUT` or `NO_OUTPUT`) and sets
  `IOtracingEnabled`; `HDFendTrace` closes the selected backend and clears
  `procTrace`. Every `HDFtraceXXX` wrapper around a stdio/POSIX call emits a
  begin event, makes the call and emits an end event, while
  `IOtracingEnabled` is set; `traceIOEvent` routes the event by
  `OUTPUT_SWITCH`. The library's trace macros (not in `src/`) call
  `startHDFtraceEvent`/`endHDFtraceEvent` while `procTrace` is set.
  `computePacketTag`/`computeProcMask` map an event id to its family.
- **CI** (`src/.github/workflows/autotools.yml`). Build only.

## Modules

| Module | Models |
|---|---|
| `HCompHeader` | The descriptor layout: `HCIwrite_header`'s bytes, `HCIread_header`'s parse, and the length patch of `HCPwrite`. Also `HCIinit_coder`, `HCIinit_model`, and the big-endian encode/decode macros of `hdf.h` (from spec.md 4.A). |
| `HComp` | The engine over one open file: the file store's DD slots, hash and counters, the access table, the heap of `compinfo_t` cells, and one action per `hcomp.c` entry point. |
| `MC_HComp` | The TLC instantiation: tag 720, refs 1..2, one regular element `(720, 1)` of 2 bytes at open, and the coder choices. |
| `CompStore` | The abstract element store that the engine promises its callers (spec.md 4.E.4, 5, 8). Elements are absent, regular or compressed, each with a length. Accesses have a key, a mode, a position and the length they see. Actions: `Create`, `Open`, `Seek`, `Read`, `Write`, `End`. |
| `MC_HCompStore` | `MC_HComp` checked against `CompStore`: the refinement mapping as an `INSTANCE ... WITH`, and `ImplementsStore`. |
| `HDFAlloc` | `HDmemfill`'s doubling copy loop, `HIstrncpy`'s bounded copy, and the chunk loops of `memcpy_big`, `memset_big` and `memcmp_big`, as RECURSIVE operators over byte sequences. |
| `HDFAllocPC` | The 16-bit PC heap: blocks with their header, the caller's pointers, and one action each for `HDmalloc`, `HDcalloc`, `HDstrdup`, `HDrealloc` and `HDfree`. |
| `MC_HDFAllocPC` | The TLC instantiation: two pointers, three blocks, and sizes either side of the halloc threshold and of 64 KB. |
| `HDFTrace` | The tracing state (`IOtracingEnabled`, `OUTPUT_SWITCH`, `procTrace`), the two backends as idle/on/ended, one action per init/end entry, per wrapper and for the procedure events. |
| `HDFTraceBins` | The `TagBin` search of `computePacketTag` and `computeProcMask`. |
| `MC_Algorithms` | Checks the pure algorithms (descriptor codec, `HDmemfill`, `HIstrncpy`, the `*_big` routines, the bin search) against reference definitions over bounded inputs; its state is the call under test. |

### How `HComp` corresponds to the code

| Variable | Code |
|---|---|
| `dd`, `nslots` | `file_rec->ddhead ... ddlast` DD blocks (`NDDS` slots each) |
| `hash` | the `(tag, ref) -> (block, idx)` hash index |
| `desc` | the descriptor bytes at each DD's `offset` |
| `maxref`, `attach` | `file_rec->maxref`, `file_rec->attach` |
| `acc` | `access_records[]`: `used`, DD slot, `posn`, `access`, `special_info` |
| `heap`, `cinfo` | `compinfo_t` blocks returned by `HDmalloc` and not yet freed |

Each action is the whole handler. `HCcreate` is written as the C code's
sequence of state updates (`s1` to `s5`). Each disjunct is one way the call can
end: `DFE_NOSPACE` after the DD chain grew, a header write failing before or
after the descriptor bytes, the model's `stwrite` failing, or success for a new
element. For an existing element, `HCcreate_migrate` (649-706) is the migration:
one of its stages fails (`Hgetelement`, `HCPseek(0)`/`Hdeldd`, `HIdel_hash_dd`),
or the element is converted. A failure that leaves all state unchanged is just a false
guard. `HCPstaccess` is `Hstartread`/`Hstartwrite` + `HCIstaccess` +
`HCPstread`/`HCPstwrite`. `HCPendaccess` includes `HCPcloseAID`.

`hfile.c` is not in the sources, so its calls are modelled from spec.md:

- The hash index refuses a `(tag, ref)` it already holds (spec.md 3: the index
  enforces uniqueness). `HIadd_hash_dd_ok` is that check. When it refuses
  `HCIwrite_header`'s add, `HCcreate` takes the header-failure exit
  (`DFE_CANTHASH`, then `DFE_WRITEERROR`) after the DD slot was claimed and the
  descriptor written.
- `HIlookup_dd` returns the slot holding exactly `(tag, ref)`, or failing that
  the special version of the tag (spec.md 8: a live slot's own key finds it;
  `HCcreate` 550 relies on the fallback).
- `HCPstaccess` opens a writer only when no access is writing the element.
  The code does not check this. It is the caller's discipline: spec.md 1 puts
  concurrent multi-writer access out of scope.

`HCIstaccess` gives every access the read bit (`acc_mode | DFACC_READ`, 744),
so `HCPread` accepts writers as well as readers.

The constant `Failing` names the collaborator calls that may fail in a run:
`dd_block`, `header_io`, `header_dd`, `model_start`, `model_end`, `model_seek`,
`read_io`, `deldd`, `del_hash`, `length_io`. A call named there may fail or
succeed. A call not named there always succeeds.

Some limits are part of the code: the access table is a fixed array, and memory
for a `compinfo_t` can run out. The model treats them as states the code handles
(`DFE_TOOMANY`, `DFE_NOSPACE`, `Hgetelement` failing). Other limits are bounds
of the model only: `MaxBlocks` on the DD chain, `MaxRef`, `MaxLen`. A step that
would pass one of these bounds is disabled rather than failed.

### Refinement: `HComp` implements `CompStore`

`MC_HCompStore` maps each `HComp` state to a `CompStore` state. Each key
`(tag, ref)` maps to what `HIlookup_dd` finds for it:

- nothing: the element is absent;
- the regular DD: the element is regular, with that DD's length;
- the special DD (the exact tag missed): the element is compressed, with the
  length its descriptor records (`HCIread_header`).

Each access maps to what `HCPinquire` reports: its DD's base tag and ref, its
position, its mode, and the length in its own `compinfo_t`. `ImplementsStore`
says that every `HComp` step is a `CompStore` step, or leaves the mapped
state unchanged.

So the following hold:

- a conversion keeps the regular element's length;
- a new element starts at `COMP_START_BLOCK`;
- an element has at most one writer: callers open no second one (spec.md 1),
  and `HCcreate` cannot add a second descriptor for the key, because the hash
  index refuses it;
- reads stay inside the length the reader saw;
- a write past the end is the element's length for every later open.

A conversion that fails part-way maps to a stutter. The regular DD is still
found first by the exact-tag lookup.

The mapped element table decodes descriptors, and TLC re-evaluates a
substituted expression at each use. So `MC_HCompStore` keeps the table's value
in the variable `storeElems`, set in every step to `AbsElems'`. It is a
function of the other variables, so the reachable states are those of
`MC_HComp`.

### How `HDFAllocPC` corresponds to the code

| Variable | Code |
|---|---|
| `heap[b].flag`, `heap[b].size` | the flag byte and the uint32 size word before the caller's pointer |
| `heap[b].via`, `heap[b].len` | which of `halloc`/`malloc` gave the block, and its bytes (ghost) |
| `heap[b].data` | how many leading usable bytes hold the caller's data (contents abstracted to a length) |
| `ptr`, `want`, `expect` | the caller: its pointer variables, the size it asked for, and how much of its data `malloc`/`realloc` semantics keep |
| `nospace` | `DFE_NOSPACE` pushed by `HRETURN_ERROR` |
| `misfreed` | ghost: a block released through the other allocator's free |

The caller uses `HDrealloc` as `q = HDrealloc(p, n); if (q) p = q;`, and never
passes it NULL. `CopyLen` is the code's
`MIN(UINT_MAX,(uint16)MIN(old_size,qty)) - 5` in 16-bit unsigned arithmetic.
Any `halloc` or `malloc` may return NULL. When all three blocks are in use, an
allocation can only fail.

### How `HDFTrace` corresponds to the code

| Variable | Code |
|---|---|
| `IOtracingEnabled`, `OUTPUT_SWITCH`, `procTrace` | the globals of the same names |
| `backend` | whether `HDFinitTrace_SDDF`/`_RT` started and `HDFendTrace_SDDF`/`_RT` ended each backend (not in `src/`) |
| `exited` | `exit(-1)` in `HDFinitTrace` for an invalid `out_sw` |
| `ioDelivered`, `apiDelivered`, `routes` | ghost: the backend state each wrapper or procedure event reached, and the backends used since the last init |

`TraceIO(fam, hasBegin, hasEnd)` is the shape every wrapper shares: the begin
event, the call, the end event, each under `IOtracingEnabled`.
`HDFtraceFFLUSH(NULL)` has no begin and `HDFtraceFPUTC` has an end only on
`EOF`, as in the code. Payloads (file ids, byte counts, offsets) and the
`c_mappedID` table are data and are left out. Whether `HDFendTrace_SDDF`/`_RT`
clear `IOtracingEnabled` is not in the sources, so `HDFendTrace(clears)`
allows both.

## Runs

| Run | Result | Shows |
|---|---|---|
| `algorithms` | pass | `memcpy_big`, `memset_big` and `memcmp_big` act as one `memcpy`, `memset` or `memcmp` for lengths below, on and past one to three chunk bounds. `memset` converts `c` to an unsigned char. `memcmp` gives the sign of the first difference, even when a later chunk differs the other way. Descriptors written for lengths 0..2^31-1, refs up to 65535, N-bit parameters including -1 and unknown number types, and skip sizes up to 65536 parse back to the same compinfo, also after `HCPwrite` patches the length. `HDmemfill` writes exactly `num_items` copies and nothing past them. `HIstrncpy` writes at most `len` bytes with the NUL. The bin search puts every id on or beside a bound in the right family. |
| `comp_nofail` | pass | No collaborator call fails. There are 4 DD blocks, so a conversion that fails for want of an access record can be retried. All interleavings over two AIDs keep the following: attach ≥ open AIDs, each open AID owns a live compinfo, a writer's length is on disk, and backing refs are live and distinct. Every indexed descriptor parses and names a model and coder that set up. Readers stay inside the element. Every step refines `CompStore` (`ImplementsStore`), the retry included. |
| `comp_failures` | pass | Every failure is enabled. There are 4 DD blocks, so a failed conversion can be retried. Attach never undercounts, and no access uses a freed or shared compinfo. Every indexed descriptor parses and names a model and coder that set up (`Attachable`), so no failure exit indexes a descriptor whose bytes were not written. Whether the backing element exists is `BackingRefsDistinct`'s question, and it is not checked here. |
| `attach_leak` | violation | A conversion failing in `Hgetelement` (access table full) leaves attach too high, so `Hclose` refuses forever. |
| `retry_orphans` | violation | No collaborator call fails. A conversion fails in `Hgetelement` because both access records are in use, and it leaves the element's descriptor indexed. `HCcreate` is then retried on the element, and the hash index refuses the retry's descriptor key. `HCcreate`'s exit (614-618) only clears the access record, so the claimed DD slot is outside the index and the compinfo is owned by no access (`NothingOrphaned`). Each retry leaks one more of each. |
| `stale_header` | violation | A failed length rewrite in `HCPwrite` leaves the on-disk length behind. |
| `unattachable` | violation | `HCcreate` ignores `HCIinit_coder`'s failure, and the element can never be opened. |
| `stale_reader` | violation | Each access has its own compinfo, so a reader never sees a length extended by a writer that has since ended. |
| `trace_protocol` | pass | Over every sequence of init, end, procedure events and wrapper calls (with `out_sw` 0..3 and masks 0, 1), `OUTPUT_SWITCH` stays a valid switch, one session's I/O and procedure events go to one backend, and procedure events reach only a started, not yet ended backend. |
| `alloc_pc` | pass | In the PC build, every interleaving of `HDmalloc`, `HDcalloc`, `HDstrdup`, `HDrealloc` and `HDfree` over two pointers, with any allocation failing, keeps every block owned by exactly one pointer (no leak, no dangling or shared block) and releases each through the allocator that gave it. |
| `realloc_loss` | violation | `HDrealloc` of a 70000-byte block to 80000 bytes copies 70005 mod 65536 - 5 = 4464 bytes. The caller's data is lost, although the comment says it "acts like realloc()". |
| `no_output_events` | violation | `HDFinitTrace(NO_OUTPUT)` turns I/O tracing on, and the next wrapper call sends its event to the real-time backend that was never started. |

Every property of a passing run has a mutant in `PROJECT.json`: the mapped
definition replaced by a plausibly buggy version (defined just before it),
which TLC must catch.

### Bounds

- Two access records. This is the fewest that lets `HCcreate` hold one while
  `Hgetelement` needs another, and lets a reader and a writer coexist.
- Two or three compinfo cells.
- DD blocks of 2 slots, 2 to 4 blocks. One conversion needs a descriptor and a
  backing slot. A retry needs two more, which is why `comp_nofail`,
  `comp_failures` and `retry_orphans` use 4 blocks.
- `MaxLen` 2 or 3 bytes, enough for an element to grow past its start length.
- `MaxRef` 4.

The `algorithms` run uses each descriptor field's boundary values (0, 1,
255/256, 65535/65536, 2^31-1, -1). `HDmemfill` is checked for item sizes 0..4
and counts 0..17, which run its doubling loop for up to four rounds with every
remainder. `HIstrncpy` is checked for strings of 0..5 bytes against bounds
0..6, shorter, equal and longer. Each buffer has 3 spare bytes past the region
the call may write. The bin table has 19 increasing bounds like the code's, and
ids are taken on and beside every bound. The `*_big` routines run with
`UINT_MAX` = 2 and lengths 0..7. So there are zero to three full chunks, with
and without a remainder. `memset` values are 0, 255, -1 and 258. In each
`memcmp` input, `s2` is above `s1` at one offset and below it at another. Each
offset is in `-1..len`, so differences fall in every chunk and past `len`. `trace_protocol` has no bound to
choose: its state space is finite.

`alloc_pc` uses two pointers and three blocks. That is enough for `HDrealloc`
to need a second block while another pointer holds the third. Its sizes are 10
(malloc), 63994 and 63995 (63999 and 64000 with the header, on either side of
the halloc threshold), 65531 (a 64 KB block, whose (uint16) size is 0) and
70000. `HDcalloc` is called with 2 x 32000 and 7 x 9 bytes, and `HDstrdup` with
a 9-byte string. `realloc_loss` uses only 70000 and 80000 bytes.

Some code defects found while modelling have no run: a new element records
length 1 before any write (`hcomp.c:598`), the model stwrite failure also
leaves an indexed descriptor with no backing element (`hcomp.c:641`), and
`HDFtraceFPUTC`/`HDFtraceFFLUSH(NULL)` emit unpaired begin or end events. They
are listed as hazards in `PROJECT.json`. Two more defects are shown by
`info_leak.cfg` and `phantom_dd.cfg` (module `MC_HComp`), which are kept for
reproduction, although they are not runs of `PROJECT.json`. In `info_leak.cfg`,
a model start failure after `HCcreate` or `HCIstaccess` allocated the
`compinfo_t` leaks it (`hcomp.c:641`, `NoLeakedInfo`). In `phantom_dd.cfg`,
`HCIwrite_header` sets the DD's tag and ref (`hcomp.c:332`) before calls that can
fail, leaving a claimed slot that is not in the hash index (`HashMirrorsDDs`).
`NothingOrphaned` is the conjunction of the two, and `retry_orphans` shows
that both break with no collaborator failure at all. For that reason,
`comp_nofail` does not check them.

### Fairness

The library is single-threaded and runs only when a caller calls it (spec.md 5),
so no action is required to happen and no fairness is assumed. No liveness
property is checked. In `comp_failures`, leaked DD slots eventually fill the
bounded DD chain. After that no call changes the file, so the run disables
deadlock checking. In `trace_protocol`, an invalid `out_sw` ends the program
with `exit(-1)`, after which nothing runs, so that run disables it too.

## What is not modelled, and why

- The file store beyond what `hcomp.c` calls: open/close, regular-element I/O,
  free-space management, and the on-disk DD-block format.
- The coding algorithms (RLE runs, N-bit packing, Huffman trees). The model
  treats a coder as a byte stream; its bytes are data, not control.
- Calls through uninitialised coder function pointers after an unknown coder
  type. This is undefined behaviour, so the model offers only known coder types.
- Integer wrap of `posn + length` near 2^31, and `Hnewref` exhaustion. Both are
  listed as hazards, but they are not reachable within the bounds.
- The WIN3 twins `fmemcpy_big`, `fmemset_big` and `fmemcmp_big`. Their control
  is that of the modelled `memcpy_big` routines. They differ only in
  far/huge-pointer arithmetic, which depends on the memory model set in
  `hdfi.h`, and that file is not in `src/`.
- The uint32 wrap of `qty + 5` in the PC `HDmalloc`/`HDrealloc` and of
  `n * size` in `HDcalloc`. It needs values near 2^32, beyond TLC's integers, so
  it is listed as a hazard.
- The WIN3 allocator (`GlobalAlloc`/`GlobalReAlloc`/`GlobalLock`, `hdfalloc.c`
  240-332). Its handle, locking and moving behaviour belongs to the Windows
  kernel, not the sources. Its defects (the stale handle stored by `HDrealloc`,
  the missing header size, the unlocked block after a failure) are listed as a
  hazard. The `MALLOC_CHECK` build only forwards to `malloc`, `realloc` and
  `free`; `realloc(p, 0)` returning NULL there is a hazard without a run.
  `HDspaceleft` only queries the platform heap.
- `HCPinfo`, a read-only query not used by any modelled caller.
- The CI workflow.
- The tracing backends (`traceEvent`, `traceEvent_RT`, `HDFinitTrace_SDDF`/`_RT`,
  `HDFendTrace_SDDF`/`_RT`) and `ProcIDs.h`: not in `src/`. `HDFtraceFSETPOS`
  is compiled only under `#ifdef fpos_t`, and `HDFtraceFGETC`/`FGETS`/`GETS` are
  commented out.

## Plan for later work

1. Refine `CompStore` under collaborator failures (`comp_failures`). A failed
   `HCPwrite` length rewrite (`stale_header`) is expected to break it.
2. The file store's open/close (`Hclose` refusing while `attach > 0`), to state
   the consequence of `attach_leak` as a liveness property.
3. A tracing property over backends: every started backend is eventually ended.
