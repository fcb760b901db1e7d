# Formal verification of the CHERI trace converter

`traceconv` reads traces of memory accesses that QEMU-CHERI has recorded, and
converts, repairs and simulates them. Its core is a simulation of an inclusive
cache hierarchy whose lines hold nothing but *capability tags*: one bit for
each 16 bytes of memory, known or not known. Traces say little about the tags
that were in memory before they started, so the simulator learns them from the
accesses, and the requests that leave the last cache carry what is known.

This directory holds TLA+ modules of that program, the TLC configurations that
check them, and theorems with proofs for TLAPS. Paths below are relative to
the repository (`src/simulator.c` is the file of that name, `inc/` the headers).
`PROJECT.json` lists the parts, the runs, the hazards, the lines every
definition stands for, and the findings.

## 1. Inventory

| component | code | state | operations |
|---|---|---|---|
| cache hierarchy | `src/simulator.c`, `trace_simulate` in `src/handlers.c` | frames of L1I, L1D and L2 (line, LRU counter, dirty, tags, known mask), the controller's tag table, the requests written | hit, miss, victim, write back (visible and invisible), back invalidation, coherence flush, learning and propagating tags |
| tag table | `tag_table_*` in `src/simulator.c` | two arrays of bytes, several lines in a byte | read and write the bits of a line |
| replacement policy | `cache_request` | one counter per frame | choose a victim, touch |
| initial state | `trace_get_initial_accesses` | one record per granule, set of modified granules | one pass over a trace |
| request statistics | `trace_requests_get_info`, `trace_requests_make_tag_csv` | set of tagged granules, tags per page, three running counts | read the initial state file, account for a request |
| trace I/O | `src/io.c` | two buffers and a library context (lz4), a library stream (gzip), counters of open readers and writers | open, get, emit, close |
| commands | `src/main.c`, `src/handlers.c`, `src/utils.c` | the files and FIFOs on disk | ask, open, loop, close, quit |
| patch-paddrs | `src/handlers.c` | page table learned so far, pages and changes counted, two sets of statistics | patch an entry |
| trace statistics | `update_trace_stats` in `src/handlers.c` | counters by kind of entry and by what its physical address is | count an entry |
| drcachesim conversion | `src/drcachesim.cc`, `src/handlers.c` | page table of the markers written so far, count of entries skipped | header, markers and entries, footer |
| tag cache | `src/simulator.c` | frames, root and leaf tables | reached by no command |
| hash map, arena, strings | `src/hashmap.cc`, `inc/jdp.h` | | library wrappers |

The parts meet in four ways. *Calls*: `trace_simulate` flushes the peer cache
and then requests the line; `cache_request` on L1 calls `device_read` on L2,
which calls `cache_request` on L2, which reaches back into the L1 caches to
invalidate, while the caller still holds a pointer to the frame it is going to
fill. *Files*: `get-initial-state` and `simulate` read the same trace;
`requests-get-info` and `requests-tag-csv` read what the two of them have
written; `patch-paddrs` completes a trace that the conversions to drcachesim
read. *FIFOs*: an output can be one, so that another program reads while the
command writes; `split` has two outputs. *Process exit*: handlers registered
with `atexit` see what a command that quit has left open.

The program has one thread. What makes it hard is not scheduling but *long
sequences of legal steps across objects that share state*:

- the nested call described above, on state that was read before it;
- knowledge about tags that lives in up to four places (L1I, L1D, L2, table),
  moves both ways, and may be lost on any of the paths: eviction, back
  invalidation, flush, propagation;
- invalidated frames that keep their counter and their dirty flag;
- an initial state that is pieced together from accesses in an order that may
  or may not say something about the start;
- running counts that go up and down and are unsigned;
- a reader that buffers twice, over a library that hands out pieces as it likes;
- outputs that exist, files that cannot be opened, users who answer no;
- FIFOs that are full, whose readers die or wait for each other: the only
  concurrency there is;
- files that another execution left truncated, or longer than the new trace;
- two page tables, of two commands, that have to agree on what is skipped, and a
  third one in the reader of the file, which sees only markers.

Assertions matter: the Makefile defines no `NDEBUG`, so a failed `assert`
aborts the release build, too. In the models an assertion that can fail is an
outcome (`failed`, `aborted`), never an assumption.

What makes each component correct:

- *hierarchy*: a line is at most once in a cache; L2 includes L1; one writer;
  no assertion fails unless the trace contradicts itself; no knowledge is lost
  and none is wrong; WRITE requests stand for stores; every entry is carried
  through.
- *replacement*: counters are a permutation; the victim is the least recently
  used frame.
- *initial state and statistics together*: where a trace reads a tag before it
  writes it, the census has the tag the machine has; only stores change it;
  counts are the cardinalities they claim to be.
- *tag table*: a line is read as it was written, whatever is written to the
  lines that share its bytes.
- *reader*: entries come out whole, in order, all of them, and then the end; a
  damaged file never gives a clean end.
- *writers*: an end mark comes after all of the trace or not at all.
- *commands*: nothing is overwritten unasked, nothing stays open, nobody waits
  for ever.
- *patch-paddrs and conversion*: a filled-in address is the one the machine
  used; the file tells its reader the address and the tag of every entry it has;
  what is left out is what is reported.

## 2. Modules

| module | models | extends or instantiates |
|---|---|---|
| `Tags` | `tags_t`, `tag_set`, the masks and `check_update_unknown_tags` | |
| `Lru` | victim choice and counter update | |
| `LruSet` | one set under requests and invalidations | `Lru`; `RecencyOrder` as its abstract specification |
| `RecencyOrder` | least-recently-used, without counters | |
| `CacheHierarchy` | `trace_simulate` and the devices | `Tags`, `Lru` |
| `TagTable` | the bytes of `tag_table_t`: index, masks, partial reads and writes | `Tags` |
| `PackedHierarchy` | the hierarchy with those bytes beside its function from lines to tags | `CacheHierarchy`, `TagTable` |
| `TracedExecution` | the hierarchy on the trace of a machine with tagged memory | `CacheHierarchy`; `TagMemory` as its abstract specification |
| `TagMemory` | what the hierarchy promises, without caches | `Tags` |
| `InitialState` | the records of the initial state file, and `guess_initial_tag` | `Tags` |
| `InitialAccesses` | `get-initial-state` | `InitialState` |
| `RequestStats` | the census of the request statistics | `InitialState` |
| `TagPipeline` | scan, simulation and statistics, composed through their files | `InitialAccesses`, `RequestStats`, `TagMemory` |
| `TraceReader` | what a reader promises | |
| `Lz4Reader` | `lz4_reader_get_entry`, on whole, truncated and tailed files | `TraceReader` as its abstract specification |
| `Commands` | the life of every command, its files and FIFOs and their readers | |
| `PageTables` | addresses, page tables, entries, and `update_trace_stats` | |
| `PatchPaddrs` | `patch-paddrs` | `PageTables` |
| `Drcachesim` | both conversions to drcachesim | `PageTables` |
| `AddressPipeline` | a machine that moves its pages, patch-paddrs, conversion and the reader of the file | `PatchPaddrs`, `Drcachesim` |
| `LruTheorems`, `LruSetProofs`, `CacheHierarchyProofs`, `TagPipelineProofs`, `Lz4ReaderProofs`, `CommandsProofs`, `AddressPipelineProofs` | theorems and proofs | the modules they name |
| `ComposedHierarchyProofs` | theorems and proofs | `TracedExecution`, `PackedHierarchy`, `CacheHierarchyProofs` |
| `MC*` | sizes and bounds for TLC | |

Operators whose comment starts with `BUG:` are plausible mistakes. No
specification uses them; each replaces the definition after it in a mutant
listed in `PROJECT.json`, to show that a property depends on the code.

### CacheHierarchy

A frame is a record of its cache, set and way; `tag_addr`, `counter`, `dirty`
and `tags_cheri` are the fields of `cache_line_t`, as functions of the frame. A
tag state is a pair of sets, `data` and `known`, for the two bytes of `tags_t`.
`table` is the controller's tag table. `request` is the record a step has just
written to the output.

The actions follow the calls. An entry is read (`ReadEntry`), the peer is
flushed (`NotifyPeers`: `coherence_flush` for the one peer that exists), the L1
cache is asked (`RequestHit`, `RequestMiss`), on a miss L2 is asked
(`ForwardHit`, `ForwardMiss`), which may back-invalidate (`BackInvalidate`, one
step per child, in the order of the loop), evict (`Evict`) and fetch
(`Refill`); then L1 is filled (`Fill`), and the access does its work (`Load`,
`Store`, `Learn`). An entry that straddles lines goes round again. The steps
are cut where a device calls another, because the caller has read state by then
and will write it afterwards: between `RequestMiss` and `Fill` the L1 victim
still holds its old line, as in the code.

`Faults` collects the assertions that fail in the step the program is at;
`Abort` is taken instead of the step. `not_in_parent` is the assertion of
inclusivity, `known_bits_lost` and `known_data_changed` are those of the
write-backs, `tag_mismatch` the one of capability loads, and so on.

`StartGranule` and `EndGranule` are `start_addr_cap` and `end_addr_cap`, clipped
to the line the loop is at; `GranulesIn` is what the loops over granules go
through between them. That may be nothing: an entry of size 0 at the start of a
granule still has its line requested, and `coherence_propagate_known_tags` is
then called for no granule, which is why its assertions hold only where
something is propagated (`Propagates`).

Abstractions: the tree is the one `trace_simulate` builds (two L1 caches over
one L2), not the general tree the devices allow. Entries with an invalid
physical address are skipped by the code and change nothing, so they are not
inputs. An entry begins in memory and may run past its end: the loop then comes
to the line `NumLines`, the caches make room for it, and the assertion of the tag
table stops the program (`outside_memory`) before any cache has the line. The
tag of a plain load is not an input, as
the code does not look at it. The loop over the granules of an access is one
step; its assertions do not depend on the order of the granules. A counter is a
u16, hence at most `MaxWays` = 65536 ways. Nothing is flushed at the end of a
trace, in the code as in the model.

### TagTable and PackedHierarchy

`CacheHierarchy` keeps `table` as a function from lines to tag states. The code
packs the bits of several lines into a byte. `TagTable` has its index, its
masks, the reads and writes of a part of a byte and the assertions around them;
a word is the set of its 1 bits, and bits shifted out of it are lost.
`PackedHierarchy` takes every step of the hierarchy and writes the bytes where
the code does; `TableUnpacks` says that the bytes always unpack to the function.
Its other variable is history: `shown` holds the addresses whose tags entries
have shown so far, taken from the entry as a range of addresses and not from the
clipped granules of a line. `KnownIsShown` compares the two: an entry that is cut
wrongly at the border of a line, or knowledge that is lost on its way between
the caches, makes the hierarchy know less or more than the trace has shown.
A line has as many bits as granules, 1 to 8 (the assertion of
`tag_table_get_index`); the runs use a smaller byte, the proof any byte that holds
whole lines.

### TracedExecution and TagMemory

`CacheHierarchy` takes any trace. `TracedExecution` adds a machine with tagged
memory that produces it: capability loads return the tag that is there,
instructions are fetched from untagged memory. What the machine accesses
(`Accessed`) is its own, and owes nothing to the simulator's clipping. `memory`
and `stored` are history. `View(ln)` is what the newest copy of a line knows,
and with that mapping the hierarchy implements `TagMemory`, where learning adds
knowledge, stores set it, and no step forgets.

### InitialAccesses, RequestStats, TagPipeline

`Scan` is the body of the loop over a trace: all granules of an entry at once,
as no granule's record depends on another's; `ScanAborts` is taken when an
assertion of the body fails, and no file is written. `RequestStats` accounts
for one granule per step, because the counts are updated granule by granule and
look at the neighbours. `TagPipeline` runs the first over the trace of a
machine, then simulates the same trace with `TagMemory` in place of the caches
(what `TracedExecution` shows they implement) and hands requests to the second.
A request may come for any line at any time, which covers whatever the caches
do. A request is accounted for before the simulation goes on: the statistics
depend on the order of the requests and on nothing else. Entries stay within a
line, or run over the end of memory.

### Lz4Reader

The bytes of a trace are numbered; the buffers hold those numbers, so that what
`memmove_down` does to overlapping bytes is visible. `LZ4F_decompress` takes
and gives any number of bytes that the frame allows, and makes progress if it
can. The file is any beginning of a frame, as a command that was killed leaves
it, or a frame with the last bytes of an older file behind it, as an overwritten
file has them. In the first case the library neither fails nor gets on, and the
reader asks it again for ever (`Decompress` without progress, a stutter); in the
second the library fails where another frame should start. `TraceReader` says
what remains: all that can be had is returned, and a clean end is told only for a
file that is whole.

### Commands

A handler is the sequence of its checks, opens, loop and closes. The user may
answer either way, and the loop may end after any number of entries. A file
holds, for every entry, the number of the execution that wrote it. Executions
follow each other on the same files.

Failures are actions of their own (`Fail`), and no fairness makes them happen.
An error that the code looks at calls `quit`, so the exit handlers run: a file
cannot be opened (`OpenFails`), or `gzread` fails when the loop asks for the
next entry (`ReadFails`: `gz_at_eof`, with the reader and the writers still
open). The handlers abort when something is open (`aborted`). A failed assertion
ends the program at once, without them (`killed`): after an input has been
opened (`OpenFails`) or an output (`WriterFails`: the file is there by then),
where the initial state file could not be created, in the loop, and on a library
at a close (`AssertionFails`). The format of the input is not modelled:
`ReadFails` may be taken in any loop, also where an lz4 file, whose reader has
assertions instead, would not let it.

A writer holds back up to `BufferEntries` entries (`buffered`: the lz4 buffers,
or those of the C library), which reach the file in pieces, at the latest when
the buffer is full or the output is closed; an lz4 writer ends with an end mark.
What a close could not write to a file is not noticed (`lost`), and neither the
exit handlers nor an abort write what is still held back.

Any of the outputs may be a FIFO. Opening one waits for its reader; it takes
`PipeEntries` entries and then blocks; when its reader is gone a write kills the
program (`BrokenPipe`). The readers (`consumer`) open, read, see the end, or
die; `follower` is a reader that opens its FIFO only when the other is done,
which is what a shell script that runs them one after the other does. `turn` is
the set of outputs that still have to get the entry the loop is at; they get it
in the order of their names, as `split` writes them.

`SplitNeedsBothReaders` has a hypothesis: there is something to write to the first
output, an entry or the end mark of a frame. An empty trace that is split into
two plain FIFOs writes nothing, and readers that wait for each other are both
served.

### PatchPaddrs, Drcachesim, AddressPipeline

An address is a page and an offset. `PatchPaddrs` learns `page_table` from the
entries with a valid physical address and fills in the others; an address
outside simulated memory counts as invalid, an address that is 0 as missing.
`Drcachesim` writes the markers and the access of an entry; `mapped` is the page
table of the markers it has written. In `AddressPipeline` a machine translates
its accesses with `mapping`, which it may change at any time (`Remap`), and the
tracer loses physical addresses as it likes. The reader is the external
simulator: it learns mappings from pairs of markers (`physical`, then `tlb`), and
takes the tag that came last for the access that follows (`tag`). It reads while
the file is written. `decoded` is what it has made of the last access.

The commands are deterministic in their input, so a stage goes on when those
after it have nothing left to read: other interleavings give the same files.
`get-info` counts entries as `UpdateStats` does and writes nothing.

## 3. What is checked

All runs are of the specification as it stands, with constants only.

| run | bounds | shows |
|---|---|---|
| `hierarchy_conflicts` | 3 lines of 1 granule; L1I one line, L1D two ways, L2 two sets of one way; any trace of fetches, loads and capability stores | types, no line twice, counters distinct, inclusion, a single writer, and that the only assertions a trace can make fail are those that compare tags or stop at the end of memory |
| `hierarchy_granules` | 2 lines of 2 granules in a 4-bit byte of the table, one line per cache; fetches and loads of none to 3 granules, also past the end of memory | knowledge grows towards the cores; sharers agree; the packed table unpacks to the function; what is known is what the trace has shown, of entries that straddle lines too |
| `evicted_once` | 2 lines, one line per cache | finding 1 |
| `traced_safety` | 3 lines of 1 granule, L2 two sets, L1 one line; fetches, capability loads and stores | no assertion fails on the trace of a machine; WRITE stands for stores; what is known is true; requests carry what is known; implements `TagMemory` |
| `traced_promise` | 2 lines, one line per cache, all kinds of entries, over both lines | implements `TagMemory`; every entry completes |
| `lru_set` | 4 ways, 6 lines | implements `RecencyOrder`; the victim is unique |
| `pipeline_tags` | 1 line of 2 granules, traces of 3 entries, also past the end of memory | census of read tags is the machine's; only stores change the census; counts are right, none is negative |
| `pipeline_mismatches` | 1 granule, traces of 2 entries | finding 2 |
| `lz4_reader` | 8 entries of 3 bytes, buffers of 8, frame of 13, truncated anywhere or with up to 3 bytes behind it | implements `TraceReader`; the bytes in the buffer are in order |
| `commands` | 12 commands, 2 executions, 2 entries, a writer holds back 2 and a pipe 1; every choice of FIFOs | nothing overwritten unasked, outputs complete, the exit handlers abort only after a failed open or read, no early end mark, nobody waits for ever but when the readers of `split` do for each other |
| `commands_overwrite` | the same | finding 3 |
| `page_tables` | 2 virtual pages, 2 pages of memory and one outside it, 2 offsets, traces of 3 entries | filled-in addresses are real unless the page has moved; the reader decodes what was converted; what is skipped is what was reported, and was unknown |

Why the bounds are enough. The hazards of the hierarchy need a line that is in
L1 and the victim of L2 at once, a second line that is fetched, and a third to
be evicted in its turn: with three lines every combination of hit and miss in
the three caches occurs. L2 has an even and an odd line, so lines conflict in L2
and not in L1D, and L2 evicts what L1 holds; the two ways of L1D give the
counters something to order, and back invalidation leaves either way free. The
longer orders of a set are the business of `lru_set`, where six lines over four
ways bring a set from any order to any other. Two granules are enough for
partial knowledge, and entries of three granules straddle lines with a part of
one of them, which is where the clipping of an entry to a line matters. The
reader's entry size divides neither buffer nor frame, so entries straddle every
boundary. The pipeline's three entries are what the order load, store,
capability load takes; larger tables of pages and lines are the business of the
census's theorems. With one granule in a line a plain store is a capability
store of tag 0, so `hierarchy_conflicts` and `traced_safety` leave plain stores
out, and a capability load learns what a fetch learns in the other cache:
`hierarchy_conflicts`, which is about where lines are, has fetches that learn
and loads that do not, and `traced_safety`, which is about what is known, has
the accesses that show or set tags. `traced_promise` has all kinds together. Two
executions of a command are what leaves an old file under a new trace; a pipe of
one entry is full as soon as it is not empty, and a buffer of two lets one
output run ahead of the other. On two virtual pages three entries are a page
learned, moved and used again while the other page is unknown, and the page
outside memory is an address that is there and not valid. The reader takes one
entry of the file at a time, so every point between a marker and its access is a
state.

Fairness. `CacheHierarchy` and `TracedExecution` assume weak fairness of the
steps *after* an entry was read: the program is sequential and a step that can
be taken is taken. Reading another entry is not assumed: a trace may end.
`Lz4Reader` assumes weak fairness of its steps: a command reads on until it is
told there is nothing left, and the library call returns. `Commands` assumes
weak fairness of the running program (of its steps together, it is sequential)
and of every reader of a FIFO: processes that can go on are scheduled. Neither
that a command is started, nor that anything fails (`Fail`), nor that a reader
dies is assumed; `PipesDrain` holds although they may. `CHECK_DEADLOCK` is off
where the program stops: after a failed assertion, at the end of a trace, at the
end of the last execution, at the end of the drcachesim file.

### Findings

1. `EvictedOnce` — an L1 miss pushes its victim to L2 and leaves it valid; when
   L2 then misses and chooses the same line, it is invalidated and written back
   again, and counted twice. The comment in `cache_request` (simulator.c:602)
   says that making space first avoids this. No tag is lost
   (`ImplementsTagMemory` holds): the statistics are what is wrong.
2. `MismatchesAreCounted` — the count of "CLOADs followed by another CLOAD
   reading a different tag" does not compare the tags (handlers.c:680-688).
3. `OverwrittenFileIsTrace` — outputs are opened without `O_TRUNC`
   (io.c:412): overwriting a longer file leaves its end in place.

Two smaller things the models show without a run of their own. `inc/trace.h:19`
says to ignore the tag of a LOAD, and `get-initial-state` asserts that it is 0
(handlers.c:644; `ScanFails`). Two errors that the program
reports and quits on end in an abort all the same. A file that cannot be opened
has been counted as open before (io.c:184, 401); and when `gzread` fails in the
loop (io.c:151) the reader, and what the command writes to, are open. Either way
the assertion of an exit handler fails. `OnlyIoErrorsAbort` says that nothing else
leads there: no answer of the user, and no end of a command.

## 4. What is proved

For all values of the constants, from the named assumptions of the modules:
`GranulesAssumption` (1 to 8 granules in a line, what the assertions of
`cache_request` require), `HierarchyAssumption` (sizes are positive and a cache
has at most `MaxWays` ways), `LruSetAssumption`, `MemoryAssumption`,
`ByteAssumption` and `TableAssumption` (a byte of the table holds whole lines, and
memory whole bytes), `PagesAssumption` (page numbers are natural; memory does not
begin at page 0 and is apart from the devices), `PipelineAssumption`,
`ReaderAssumption` (an entry fits the buffer, and the frame holds the trace before
its end mark) and `NamesAssumption` (the commands are of the
table in `main`; the bounds of `Commands` may be anything).

| theorem | says |
|---|---|
| `LruSetProofs!Unambiguous` | the scan's assertion holds in every state of a set |
| `LruSetProofs!Refinement` | counters implement least-recently-used order |
| `CacheHierarchyProofs!Typed` | type correctness of the hierarchy |
| `CacheHierarchyProofs!AtMostOnce` | no line twice in a cache |
| `CacheHierarchyProofs!DistinctCounters` | counters of a set are distinct |
| `CacheHierarchyProofs!Inclusion` | L2 includes L1 |
| `CacheHierarchyProofs!OneWriter` | a modified line is in no other L1 cache |
| `CacheHierarchyProofs!KnowledgeGrows` | no cache knows less of a line than the one below it |
| `CacheHierarchyProofs!SharersKnowTheSame` | copies in both L1 caches and in L2 know the same |
| `CacheHierarchyProofs!OnlyConflictsAbort` | on any trace, only assertions about the trace itself can fail |
| `ComposedHierarchyProofs!PackedTable` | the bytes of the tag table unpack to the function |
| `ComposedHierarchyProofs!NothingForgotten` | the hierarchy knows a tag exactly when the trace has shown it, on any trace |
| `ComposedHierarchyProofs!NoAssertionFails` | on the trace of a machine no assertion fails |
| `ComposedHierarchyProofs!ViewIsTrue` | what the newest copy of a line knows is what memory holds |
| `ComposedHierarchyProofs!DirtyIsStored` | the dirty flags tell the lines stored to since they were read |
| `ComposedHierarchyProofs!RequestsAreComplete` | a request carries all that is known of its line |
| `ComposedHierarchyProofs!HierarchyImplementsMemory` | the hierarchy implements `TagMemory` |
| `TagPipelineProofs!NeverNegative` | no count falls below zero, on any requests |
| `TagPipelineProofs!CensusIsRight` | counts are the cardinalities of the sets, on any requests |
| `TagPipelineProofs!PipelineNeverNegative`, `PipelineCensus` | the same of the requests of the simulation, after the file of the scan |
| `TagPipelineProofs!ReadTagsReal` | where a trace reads a tag before it writes one, the census is the machine's |
| `TagPipelineProofs!StoresAloneChangeTags` | after the initial state only stores change the census |
| `Lz4ReaderProofs!BytesInOrder` | the bytes in the reader's buffer are the next ones of the trace |
| `Lz4ReaderProofs!ReaderKeepsPromise` | the lz4 reader implements `TraceReader`, but for its fairness |
| `Lz4ReaderProofs!OnlyTailsAbort` | the reader's assertions fail on no file without bytes behind the frame |
| `CommandsProofs!IoErrorsAbort` | the exit handlers find something open only after a failed open or a failed read of the input |
| `CommandsProofs!OnlyAllowedFilesChange` | no output that was there changes unasked |
| `CommandsProofs!DoneOutputsHoldTrace` | when a command is done its outputs hold the trace |
| `CommandsProofs!FrameEndMeansWhole` | a new output with the end of its frame is whole |
| `CommandsProofs!SplitWaitsForBoth` | `split` gets through two FIFOs only when neither reader waits for the other |
| `AddressPipelineProofs!PipelineTypes` | types, also of what the reader decodes |
| `AddressPipelineProofs!ReaderDecodes` | the reader gets every converted access as it was |
| `AddressPipelineProofs!SkippedAreCounted` | what patch-paddrs reports is what the conversion skips and writes |
| `AddressPipelineProofs!PatchedIsReal` | a filled-in address is the machine's, unless the page has moved |
| `AddressPipelineProofs!SkippedAreUnknown` | no entry of a page with a mapping is skipped |

*LRU.* `LruTheorems` shows that `Touch` maps distinct counters below the number
of ways to distinct counters below it: frames at most as old as the touched one
age by one, the touched one becomes 0, the others are older than all of these.
Distinct counters make the victim unique and make the order of counters the
recency order of the refinement mapping: the touched frame becomes the
youngest, the relation among the others stays.

*Hierarchy.* None of the properties is inductive. `Inclusive` needs to know
that `Fill` finds its line in L2, and that the line L2 replaces is in no L1
cache when it is replaced. `IInv` therefore says, besides the properties, what
holds at each step of the nested calls (`Control`): the line is missing in L1
from `forward` to `fill` and in L2 from `L1I` to `refill`; the victims are frames
of the set of the line; from `evict` on no child has the victim's line; at `fill`
L2 has the line. `NoDuplicateLine` follows from the misses, `CountersDistinct`
from `LruTheorems`. `Control` states that the program's pointers still mean what
they meant when they were taken, across calls that change the caches in
between.

*Tags.* The second half of `CacheHierarchyProofs` goes on from that invariant.
Here, too, the properties need what the calls in progress have established
(`TagInv`). `Writer` is about the frames rather than the line being accessed.
`Flushed` says what `coherence_flush` leaves behind and what has to survive the
whole request that follows it, evictions and back invalidations included: the
peer has the line exactly if the flush said so, clean and with the tags L2 has.
Then `Fill` gives the new copy what the sharer has, and `Learn`, which writes to
all the copies (`coherence_propagate_known_tags`), keeps them equal. `Counted`
bounds the dirty children of a line by one. `Known` is the three properties of
knowledge together, because each step needs all of them: a write back from L1
may change known data in L2 only when it is dirty, and a clean victim has, by
`KnownGrowsUpward`, all that is known below it. Of the assertions, those that
remain (`Conflicts`) compare the trace's tag with a known one.

*Table.* A byte of the table holds whole lines, so two lines either have
different bytes or disjoint ranges of bits (`BitsFacts`). A write through the
mask leaves the bits of the other lines, and a read after it finds what was
written.

*Knowledge.* For `NothingForgotten` the caches are looked at through their newest
copy, which knows what any copy knows (`NewestKnows`, from `KnownGrowsUpward`).
The steps between two accesses keep that copy's tags (the lemmas `*Views` of the
refinement, below), because a victim that is about to be forgotten has handed
down all it knew (`Handed`, which holds on any trace and needs no machine). An
access adds what it covers of its line: `AccessedGranules` shows that the range
from `StartGranule` to `EndGranule` is the part of the entry that is in the line,
and `LineOfGranule` that an address is in one line only.

*Machine.* `ComposedHierarchyProofs` relates the tags to the history variable
`memory`. `Truth` says which copies are right: those of the L1 caches always,
L2's when no child is dirty, the table's when no copy is. `Tracks` ties the
dirty flags to `stored`. Neither is inductive: `VictimPushed` and
`VictimWritten` (together `Handed`) say that the frame to be replaced, whose
line is about to be forgotten, has been written to the level below, with all it
knew and its dirty flag. With `Truth`, no conflict is left for an assertion to
see, so nothing fails. For the refinement, `View` picks the newest copy; each
step is shown to keep the view of every line (`VictimPushed` and `VictimWritten`
for the two evictions, `SharersAgree` for the choice between the L1 caches), but
`Learn`, which adds knowledge to one line, and `Store`, which sets it: these are
the steps of `TagMemory`.

*Addresses.* `AddressPipelineProofs` has an invariant in three alternatives for
the file and its reader: the reader is in the middle of the entries of one
access, at one of four points (`InAccess`, `Coming`); or between two accesses,
with header or footer left at most (`Between`); or the conversion has failed on
a tag after writing its markers (`Aborted`). In the first, the reader's table is
`mapped` but for the page of the markers still to come (`Moves`, `Mapped`); in
the second they are equal, which is why the conversion need not repeat a marker.
`PagesReal` relates the table of patch-paddrs to the machine; `MappedSeen` says
that the conversion knows no page that patch-paddrs does not know, so that an
entry that comes without a valid address (`Waiting`) is of a page no marker was
written for. The counts of `Skipped`, `InAccess` and `Between` follow an entry
from the statistics through the conversion to the reader.

*Census.* `IInv` is `StatsTypeOK /\ CountsAgree`. Each of the code's tests is
shown to say what it stands for *when the counts are right*: no neighbour has a
tag iff the granule's line is not (or no longer) among the lines with tags; the
page's count is 0 (or 1) iff the page is not among them (or the granule is the
last). The cardinalities then move as the counts do (`AddCounts`,
`RemoveCounts`).

*Pipeline.* `ReadTagsAreReal` relates the census, which is made of requests and of
the initial state file, to the memory of a machine that neither has seen. The
invariant (`PInv`) follows a granule's tag through the commands. While the trace
is scanned (`ScanRight`), memory differs from what it was exactly where the trace
has stored, and those are the granules `get-initial-state` calls modified; so a
record that tells a tag tells the one the trace began with (`RecordRight`). In the
simulation (`ViewTrue`), what the simulator knows is so, and what it does not know
has not been stored to: what an entry shows it for the first time is the tag the
trace began with, and the guess from the record agrees (`GuessRight`). Learning a
tag therefore does not change the tag that a request would give
(`TagToCome`), and outside `stored` the census has that one (`CensusTrue`).

*Reader.* The bytes of the file are unread, in the source buffer or
decompressed; those of the trace are returned, waiting or to come (`Accounts`).
Either nothing has been returned from the buffer since the last move, or at least
a whole entry has: so the less than an entry that is left moves over its own
length or more, and the recursion in `MovedDown`, which stands for bytes that
were overwritten before they were read, is never entered (`MoveKeepsBytes`). At
the end of a finished frame the waiting bytes are whole entries and less than
one, so none (`EndIsClean`). The refinement needs that the entries returned so far
fit what the bytes taken so far decode to, and division by the entry size
(`WholeEntries`).

*Commands.* What a handler does at a step depends on what it did at the steps
before it, so the proofs begin with facts about the sequences alone, once for
each handler: it checks an output before it opens it, opens outputs before the
loop and closes after it, each once (`Orderly`), and has closed everything at
its end (`ClosesAll`). On these rest the invariants of the control: the counts
of io.c are the steps done (`CountsRight`), what was checked is in `allowed`
(`AllowedRight`). A program that quits at a check or returns has, by
`CountsRight`, nothing open, which leaves `IoErrorsAbort` the opens and the
loop. `ContentInv` says of each output where the entries are. Before it is
opened there are none (`Fresh`); while it is open those the reader has, those in
the FIFO or before the file's offset, and those held back add up to the entries
the loop has emitted (`Filling`); after that it is whole, or its reader is gone,
or a close has lost the rest (`Finished`). The end mark is nowhere but at the
end of `Whole`, so a part of it that has the mark is all of it. For `split`,
`SplitBlocked` says what keeps it from its end: as long as it is running, with
the reader of the second output waiting for that of the first, the second can be
open only if the first reader was killed; then nothing that is held back for it
can ever be written.

Only model-checked: liveness, and fairness with it (`EntryCompletes`,
`PipesDrain`, and the fairness of `TraceReader` in `ImplementsTraceReader`),
which is out of the prover's reach. Every safety invariant and action property
that a passing run checks is a theorem.

## 5. What is not modelled

- *Tag cache*: `tag_cache_init` and `tag_cache_record_access` are called by no
  command; `simulate-tag-cache` has the calls commented out and prints requests.
- *Printed statistics* other than those named above, usage messages, formats.
- *Wrappers*: the hash map and set are functions and sets; the arena is a bump
  allocator that is freed at exit.
- *gzip and plain streams*: one library call per entry; only `TraceReader`, the
  opening and closing and what a writer holds back are modelled. An incomplete
  entry at the end of a gzip file is dropped by the reader; that is not modelled.
- *lz4 writer*: its two buffers, the compressor's and the one for the file, are
  one sequence of entries in `Commands`; bytes are not counted.
- *General trees of caches*: the devices allow them, `trace_simulate` builds one.
- *Bytes of records*: the layout of trace entries, requests and drcachesim
  records, and the signals and file modes that no command depends on.

## 6. Plan

Done: the hierarchy and its replacement policy (the most important behaviour),
with the packed table and entries past the end of memory; the pipeline of
initial state and statistics; the reader on damaged files; the commands with
their buffers, FIFOs and failures; the address pipeline from patch-paddrs to a
reader of drcachesim files. Every safety property is proved.

Left, in this order:

1. *Detail.* Granule by granule propagation as a refinement of `Learn`; the lz4
   writer's bytes, composed with `Lz4Reader`; the last entry of a gzip file.
2. *The general tree of caches*, with an abstract coherence protocol, if the
   program comes to build one.
