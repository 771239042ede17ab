# Verification of the malloc lab allocator

The repository holds course work. Its one program of substance is the explicit
free-list allocator of `cs4400/assn5/malloclab-handout` with the page supply it
stands on and the driver that judges it; this project is about that program.

## 1. Inventory

| part | state | operations | talks to |
|---|---|---|---|
| `mm.c`, the allocator | `free_list_head`, `page_list_head`; headers, footers, list links and page headers in the mapped pages | `mm_init`, `mm_malloc`, `mm_free` | calls `mem_map`, `mem_unmap` |
| `memlib.c`, the page supply | `page_count`, `activity_counter` | `mem_map`, `mem_unmap`, `mem_reset`, `mem_heapsize` | `mmap`, `munmap`, the page map |
| `pagemap.c`, the page map | three-level table of page records, list of the mapped ones | `pagemap_modify`, `pagemap_is_mapped`, `pagemap_for_each` | called by `memlib.c` and the driver |
| `mdriver.c`, the driver | a trace, its `blocks` and `block_sizes`, the list of payload ranges, statistics, `errors` | `read_trace`, `eval_mm_valid`, `eval_mm_util`, `eval_mm_speed`, `eval_libc_valid`, `eval_libc_speed`, `add_range`, `remove_range`, `clear_ranges` | calls `mm.c`, `memlib.c`, the C library, the timers |
| `fsecs.c`, `fcyc.c`, `clock.c`, `ftimer.c` | K-best samples, the counter at the start, cycles per tick | `fsecs`, `fcyc`, `callibrate`, `start_comp_counter`, `get_comp_counter`, `ftimer_itimer`, `ftimer_gettod` | call back `eval_mm_speed`, `eval_libc_speed` |
| `traces/*.pl` | the request list, tables of live ids | five generators, `checktrace.pl` | write and check trace files |
| `cs4400/simulator` | registers, memory, program counter | a skeleton | |
| `cs3200`, `cs3500`, labs | | numerical scripts, tests of an absent library | |

### What is hard here

Nothing in the program runs concurrently. What is hard is that a fault shows up
long after it was made: a wrong size, tag or link lies in memory until some
later call steps on it, and whether it does depends on the order of all calls
in between. In particular:

- **Every structure is stored in the memory it describes.** List links lie in
  the payload area of free blocks, tags next to payloads, page headers in the
  pages. Stale tags and client data stay behind where blocks are split and
  merged, and `get_prev_block` trusts whatever word lies in front of a header.
- **Lists are walked while their elements disappear**: `check_and_unmap_full_pages`
  unmaps chunks of the page list, `pagemap_for_each` the pages of the page map.
- **Two parties keep books about the same thing**: `page_count` and the page
  map; the page map and the operating system; the range list, `blocks`,
  `block_sizes` and the allocator's own blocks; `total_size` and what is allocated.
- **Early returns and resets**: `mem_reset` unmaps pages behind the allocator's
  back, `mm_init` forgets pages that stay mapped, `eval_mm_valid` returns early,
  and the next trace starts in what it left.
- **Boundaries**: when a remainder is split off, when a region ends at another
  chunk, which bytes of a payload `add_range` looks up, in which ways two
  intervals overlap, the first K samples, words of counters and clocks that
  wrap, size arithmetic near the end of `size_t`, empty traces and requests.
- **Two clocks**: the compensated counter reads cycles and ticks one after the
  other, and a tick may come in between.
- **Loops that must end**: walks along links that change on the way,
  calibration that waits for events, the driver's nested loops.

What makes each part correct:

| part | correct when | checked by |
|---|---|---|
| `mm.c` | payloads never overlap, are large enough, and keep their contents; blocks tile their chunk; free neighbours are merged; a chunk without an allocated block is given back; tags and lists say what the blocks are | `BlockHeap`, `MM`, `BlockHeap_proofs` |
| `memlib.c`, `pagemap.c` | the list, the table and the count agree and name mapped pages only; every walk ends | `Memlib` |
| `mdriver.c` | the books are exact; a correct allocator is not blamed; only held addresses are freed; each evaluation starts empty; an incorrect payload is found; no header of a trace file leads an evaluation past an array; the score is that of the traces; it ends | `Driver` |
| driver and `mm.c` | the driver sees the contract; `mm.c` passes, also after a failed trace, and stays within the mapped pages | `Lab` |
| `*.pl` | the checker dies of requests in an order that cannot be carried out, and of no others, and prints balanced traces with true headers; the generators' files pass | `Checktrace` |
| timing | the K smallest samples are kept and the smallest is returned; counters and clocks show the time that passed; a measurement ends | `Fsecs` |

## 2. Modules

```
Malloc <--implements-- BlockHeap <--implements-- MM --+             (mm.c, any client)
                           |                          |
          Intervals <--- Layout <------------------ Words           (mm.c's functions)
                                                      |
Contract <--implements--------------------+           |
   |                                      |           |
   +--> Driver <--- the same driver --- Lab ----------+             (mdriver.c; the program)
          |
        Traces <--- Checktrace <--- Generators (through MCChecktrace and Checktrace_proofs) (traces/*.pl)
PageSupply <--implements-- Memlib                                   (memlib.c, pagemap.c)
Fsecs                                                               (the timers)

Structures <-- BlockHeap_proofs, MM_proofs, Memlib_proofs,
               Fsecs_proofs, Checktrace_proofs, Driver_proofs       (theorems)
MM_proofs, Driver_proofs <--- Lab_proofs
```

**Intervals** says what chunks and blocks are as intervals, how a block is cut
and what it merges to, **Layout** holds the size arithmetic: `ALIGN`, tags, page
header and how much is mapped. Addresses are counted
in granules of 16 bytes: page size, tags and page header are multiples of 16
bytes and `ALIGN` rounds every request up to one, so every address the code
forms is a multiple of 16. A granule holds two pointer-sized words. Sizes wrap
as `size_t` does, at `WORD` granules; `LayoutAssumption` states how large a
request may be so that they do not, which `mm_malloc` does not test.

**Malloc** is the contract of `mm.h` in terms of payloads and mapped memory: a
payload is large enough, disjoint from the others and mapped; freeing one
unmaps nothing under another.

**BlockHeap** is `mm.c` as an algorithm on intervals. `chunks` are the entries of
the page list, `free` and `used` the blocks, `leaked` what `mm_init` forgot.
Actions: `mm_malloc` (a free block that fits, or a new chunk), `mm_free`
(coalescing and unmapping included), `mm_init`, `mem_reset`. Any free block
that fits may be taken and `mmap` may return any free run of pages, so the
results hold for every placement policy, not only for first fit.

**Words** is `mm.c` word by word. Its operators have the names of the functions
and map the heap before the call to the heap after it, in the order the code
loads and stores. A load or a store outside the mapped pages and a call of `abort`
(in `write_footer` and in `mem_unmap`, which is given an address, a size or a page
it should not be) set `crashed`: `Reads` names the granules a function loads
without storing to them, those a search of either list visits included. The loop
of `check_and_unmap_full_pages` is an iteration of `page_turn`, which reads the
next chunk before the chunk is unmapped, as the code does. That `mmap` and
`munmap` themselves fail is left out. **MM** makes them actions that any client
calls in any order. `client_write` is the client filling its block, with words
that look like a header, a footer and links. `ready` is false between
`mem_reset` and `mm_init`, where no client calls the allocator.

**PageSupply** and **Memlib**: the page map as records with links that survive
unmapping, the list through them, `page_count`, `activity_counter` and the
extra page of `mem_map`. The three-level table is a function from pages to
records. A step is one turn of a loop (`map_page`, `unmap_page`, `reset_page`);
`loop` is the loop under way and the page it is at. The abstract specification
is a set of pages and its size; the refinement mapping counts a run of pages as
handed out when its loop ends and as given back when its loop starts.

**Traces** says which lists of requests the driver can carry out, and what
`read_trace` asserts of a header. **Driver** is `mdriver.c`: one variable for
each of the driver's own and `phase`, the function that runs. `opnum` is the
loop index plus one, 0 before a function's first statement; one action per kind
of request and evaluation, `report` for the end of `main`. `read_trace` stores every
request of the file and compares their number with the header's at its end; a file
with more requests than its header says takes it past the end of `ops` (phase
`overrun`), and the behaviour ends there because the program's no longer has a
meaning. The allocator is a
parameter: a state and operators for the calls. Three allocators take its place:

- **Contract**, one that keeps its contract: any free place, exact or larger
  payloads, pages mapped ahead or kept. It returns NULL for an empty request only.
- in `MCDriver`, one that returns any address, mapped or not, or NULL, and whose
  `mm_init` may fail;
- **Lab**, the functions of `Words`: the whole program. The driver counts bytes
  and `mm.c` granules; `Payloads` reads from headers and footers what the
  contract speaks of, and `ImplementsContract` says that the program is the
  driver with an allocator that keeps its contract. Run `lab` checks it, and it
  is proved; so what run `driver` shows is shown of `mm.c`, within its bounds.

Data are abstracted to what properties tell apart: a trace file is its two
numbers and its requests, the performance index is "finite", "zero" or "not
finite", and `memset` writes the id's byte.

**Generators** has the files that the five generators write, `gen_random` with
every place its frees may go to, and **Checktrace** is `checktrace.pl` with
`HASH` as a function from ids to commands; it reads such a file or any lines. A
line begins with a command or with another word, which the script enters in its
table as it does an allocation, and dies of only when it prints the residue: the
lines "x 5", "f 5" pass. Its properties about traces speak of files whose lines are
requests (`IsTrace`).

**Fsecs** is `fsecs.c` with the packages it may be built with. The samples of a
call are kept whole for comparison (the code has them under `KEEP_SAMPLES`), and
so is the truth about the work done, the time passed and the ticks. `config.h`
selects `gettimeofday`; the other packages are compiled with it and not called.
The driver model has the timed call as a number of runs of `eval_mm_speed`.

## 3. Runs

A property that is a conjunction has its parts under names of their own:
`BlocksExact`, `LinksExact` (MM), `MapExact` (Memlib), `ReadsRight`, `PrintsRight`
(Checktrace), `SamplingExact`, `TimeExact` (Fsecs).

| run | instance | shows |
|---|---|---|
| `block_heap` | 3 pages of 12 granules, requests of 0, 16, 17, 130 bytes and the largest the assumption allows; 137,472 states | the interval algorithm keeps its invariants and implements `Malloc` |
| `mm_blocks` | 1 page of 15 granules, requests of 0, 16, 17, 33 bytes; 59,712 states | tags, free list and payloads under splitting and merging; each call is a step of `BlockHeap` |
| `mm_chunks` | 3 pages of 8 granules, requests of 0, 16, 96 bytes; 41,352 states | chunks side by side, unlinked and unmapped in any order while the page list is walked |
| `memlib` | 4 pages, runs of 1 and 2, 3 calls of `mem_map` between resets; 1,112,913 states | list, table and count agree, implement `PageSupply`, and every call returns |
| `driver` | every trace of up to 3 requests of 1 or 5 bytes on 2 ids, 6 pages of 4 bytes in three groups, 2 timed runs, with libc; 829,620 states | exact books, no false alarm, only held addresses freed, utilization at most 1, empty starts, what libc leaks |
| `driver_untrusted` | the same traces with sizes -1, 0, 3, 6 and five kinds of headers, 2 pages; 399,122 states | what `add_range` accepts from an arbitrary allocator; array bounds, the score, termination |
| `lab` | pairs of four traces on 4 pages of 12 granules, 2 timed runs, with libc; 22,238 states | `mm.c` under the driver implements the driver over `Contract`, keeps the client's data, is blamed for empty requests only and neither faults nor aborts, over several traces of which some fail |
| `checktrace` | every list of up to 6 lines, requests or other words, on 3 ids, and the files of the generators with 1 to 4 blocks; 965,663 states | of requests, the script dies exactly where they cannot be carried out; its output and the generators' are readable |
| `fsecs` | K = 2, at most 3 samples, counter words of 8 values, work of 10, 11 or 14 units; 780,175 states | K-best, borrow of both counter words and of seconds, compensation, termination |
| `checktrace_reuse`, `driver_overlap`, `driver_reset` | | disagreements, section 5 |

Why the bounds suffice. `block_heap`: behind its header a page has 10 granules,
three minimal blocks with a remainder, so a block can have a free neighbour on
either side and remainders fall on both sides of the split threshold; three
pages give a chunk of two pages next to one of one page. `mm_blocks` has one
granule more than four minimal blocks; `mm_chunks` has three chunks on the page
list, so one is unlinked at either end and in the middle, and a chunk of two
pages that is split. `memlib` meets the extra page at calls 1 and 2 and not at
call 3, and unlinks at either end and in the middle of lists of up to four
pages. `driver`: two ids are allocated side by side while one is reallocated,
and a payload of 5 bytes crosses a page. `driver_untrusted` meets every relative
position of two payloads of different size across a page boundary, and headers
off by one either way in either number. Its space is large enough to serve every
trace, which the deadlock check confirms. `lab`: the first file merges with the
left neighbour, the right one and both, and allocates an id again; the second
reallocates out of a chunk of two pages and leaves two blocks; the third maps a
page after it has lost one, and fails; the fourth is empty. Every pair of them occurs, so
that each is run after a failed one. `fsecs`: the counter starts at 0, at the end of its low
word and near the end of both, work is longer than a word, and two of the three
times agree within epsilon; array entries are replaced by the third sample.

Deadlock is checked in every run but `checktrace`, whose script ends.

Fairness. The program is one sequential process that waits for nobody, so a step
it can take it takes: weak fairness of the driver's next step (`Driver`), of the
loop under way (`Memlib`) and of the measurement under way (`Fsecs`). The callers
of `memlib.c` and of `fsecs` are under no obligation: `Returns` speaks of calls
that were made. In `Fsecs` the fairness includes that timer ticks keep coming,
for which `callibrate` waits; that turns of its loop without a tick change
nothing is by construction. An allocator that aborts ends the process, which
counts as its end in `Terminates`. `lab` states no liveness: termination of the
driver does not depend on the allocator, and `driver_untrusted` shows it for
one that may do anything.

The operators whose name has an underscore and a suffix after the name of an
operator of the code (`coalesce_KeepsPrev`) are mutants: what a plausible error
would make of the definition. No specification uses them.

## 4. Proofs

TLAPS checks the theorems for every value of the constants that satisfies the
ASSUME of the module, and whatever a theorem assumes besides. They state these
properties of the runs:

| module | theorems | what is assumed besides |
|---|---|---|
| `BlockHeap_proofs` | `Inv`, `BlocksApart`, `NoIdleChunk`, `ImplementsMalloc` | nothing |
| `MM_proofs` | `TypeOK`, `BlocksExact`, `LinksExact`, `PayloadKept`, `ImplementsBlockHeap` | nothing |
| `Memlib_proofs` | `TypeOK`, `ListExact`, `MapExact`, `ImplementsSupply` | nothing |
| `Driver_proofs`, any allocator | `IndicesInRange`, `ScoreSound`, `LibcLeaksExact` | nothing |
| | `TypeOK`, `OnlyContainmentMissed` | `Typed` |
| | `AcceptedIsMapped` | `Typed`, `KeepsPages` |
| `Driver_proofs`, contract | `RangesExact`, `FreesHeld`, `UtilSound`, `AcceptedIsMapped` | `Trusted` |
| | `NoFalseAlarm`, `StartsEmpty` | `Trusted`, `NoneEmpty` |
| `Lab_proofs` | `BlamedForEmptyOnly`, `DataKept`, `ImplementsContract` | true headers |
| `Checktrace_proofs` | `TypeOK`, `ReadsRight` | nothing |
| | `PrintsRight`, `GeneratedAccepted` | true headers; for the second well-formed requests |
| | both again | the files are the generators' |
| `Fsecs_proofs` | `TypeOK`, `SamplingExact` | nothing |
| | `CompensatedWithin`, `TimeExact` | `CounterLasts`; for the second `TimerLasts` |

### The allocator's blocks (`BlockHeap_proofs`)

The assumptions are those named in `Layout`: a positive page size, natural
bounds and sizes, and requests so far below the end of `size_t` that tags, page
header and rounding do not wrap (`NoWrap` draws from it that the arithmetic is
that of the natural numbers).

`BlocksApart` is not inductive: a merge yields a block that overlaps nothing only
because the blocks around it tile the chunk. The inductive invariant `Inv` adds
that chunks are apart and roomy, that every block lies in a chunk and that the
blocks tile it (`Tiled`: where a block ends, another starts or the chunk ends).
Tiling is stated with neighbours only, without induction over the blocks of a
chunk. `CutTiling`, `JoinTiling`, `ChunkTiling` and `DropTiling` say that
cutting one block in two, joining two neighbours, adding a chunk as one block
and dropping a chunk with the one block that fills it keep a tiling; each
action is a composition of these (`SplitSound`, `CoalesceSound`, `UnmapSound`).
`RoundUp` and `SizesSuffice` are the arithmetic of `MapSize`: a new chunk has
room for the block it was mapped for.

`ChunksInUse` needs `NoAdjacentFree` and `NoFullPage` besides: a chunk whose
blocks are all free has a first free block; it does not fill the chunk, so
another block starts at its end, which is free too, and the two are adjacent.
This is why it is enough that `check_and_unmap_full_pages` looks at the first
block of a chunk, and why coalescing on both sides may not be left out.

The lemmas about tilings are those of `Structures`, which `MM_proofs` uses too.

### The words of `mm.c` (`MM_proofs`)

The assumptions are those of `Layout` and that what a client writes are pairs of
words. There may be any number of pages, requests of any size the assumption
allows, and the client writes anything, header-like words included.

`BlocksExact` and `LinksExact` read the heap: they follow links and step from
header to header, and what is met depends on every word on the way. So the
induction does not use them but their converse. `Rep(H, C, F, U)` says what the
words must be for the heap `H` to *represent* the chunks `C`, the free blocks `F`
and the used blocks `U`: the page list links the chunks, each page header
records its chunk's extent, the free list links the payloads of `F`, both
tags of every block hold its size and the header its flag, and the blocks tile
the chunks (`WellTiled`, from `Structures`). `HeapReads` shows that a heap
represents only what can be read off it, so that the invariant can be stated of
`ChunksOf` and `BlocksOf`:

- `Inv`: while the allocator is in use the heap represents its own chunks and
  blocks, no chunk is one free block, and the client's pointers are those of the
  used blocks, each large enough; between `mem_reset` and `mm_init` nothing is mapped.

Each function of `mm.c` has lemmas of its own that say which granules it
stores to and what the heap represents then. That a store lands where it
should is not in any of the invariants the runs check: a link is written into a
payload only because the payload is free (`InBlock`), `get_prev_block` may
trust the word in front of a header because it is the footer of the block that
ends there (`FindsBelow`), `find_page_chunk_for_addr` finds the one chunk
around an address (`FindChunk`), and `Moved` and `Kept` carry along which words
a call leaves alone, whence `PayloadKept`. `coalesce` is proved in its four
cases (`GatherLow`, `GatherNext`). The loop of `check_and_unmap_full_pages` is
a fold over the page list as it was when the loop started; `LoopTurns` unfolds
it, and `SweepTurn` is the invariant of the loop: after k turns the full
chunks among the first k are gone, the list links the others, and the chunk
whose turn comes is still on it, which is what its saved `next_chunk` relies on.

`NoCrash`, a part of `LinksExact`, says that all loads and stores of all calls are
in mapped pages and that no test of `mem_unmap` fails. The lemmas about each
function show it of what the function reads: the nodes of a list are the headers
of chunks or the payloads of free blocks, a neighbour is a block of the same
chunk, and a full chunk is a run of whole mapped pages.

`Refinement` follows: in every case of the calls' lemmas the blocks represented
before and after are related as an action of `BlockHeap` says. What
`BlockHeap_proofs` shows of every placement policy holds of first fit on words.

### Lists and the page supply (`Structures`, `Memlib_proofs`)

`Linked(L, ...)` says that a head and two tables of links spell out the sequence
`L`. `Structures` proves that putting an element in front of the list and taking one
out of it, with the stores of `link` and `unlink`, yield links that spell out
the longer and the shorter sequence, and that walking along the links from the
head visits `L` in order and ends. The walk is a recursive function of the
number of steps; `Structures` shows that it exists and what it returns.

The inductive invariant `IInv` has four parts. `MapOK`: some list is linked, and
its elements are the tracked pages. `BooksOK`: tracked pages are mapped. `LoopOK`:
the pages of a run that the loop under way has passed are entered (or taken out)
and those ahead are not, so that no turn enters a page twice or takes out one
that is absent. `CountOK`: `page_count` is the number of tracked pages, but in
the middle of `mem_reset`, which sets it at the end. Without `LoopOK` the count
is not inductive: `unmap_page` decrements it without a test. `Refinement` maps
each turn of a loop to a step of `PageSupply` or to none: a run of pages is
handed out when its loop ends, which uses that nothing else runs in between.

### The driver with any allocator (`Driver_proofs`, first part)

The module's assumption is that requests are well formed, as `checktrace.pl`
leaves a trace; headers may be wrong, sizes zero or negative, and there may be any
number of traces, requests and ids. The allocator is any set of states with any
operations. `Typed` says that addresses are natural numbers, that states lead
to states and that finitely many pages are mapped.

`AnyInv` names what each part of the program relies on. `ControlOK`: a trace is
evaluated only after the assertions of `read_trace` about it passed, hence the
array bounds of the evaluations; `NoOverrun` draws from a true header that
`read_trace` stays within `ops` too. `ScoreOK` and `CountOK`: in each loop of `main`, what has been
counted for the traces before this one. `LibcOK`: how many passes each trace
has had. `MemoryOK`: the types of the arrays. `RangesOK`: two ranges are disjoint or the
newer lies around the older, which survives any removal and every insertion
`add_range` permits. It speaks of the ranges on the list: on a reallocation the old
one is off it when the new one is tested. `StatsOK`: `total_size` is the sum over the live ids.

`TypeOK` has an argument that is easily missed: `eval_mm_util` subtracts sizes
without a test, and its total stays natural for traces with negative sizes too,
because `PositiveOK` holds. `add_range` asserts a positive size, so such a trace
ends the program in `eval_mm_valid` or fails there, and a failed trace is never
measured.

`AcceptedMapped` says that one look-up per page and one at the last byte are
enough. Its hypothesis `KeepsPages` says that `mm_free` unmaps nothing, because
on a reallocation the driver frees the old block after it has accepted the new
one: an arbitrary allocator may unmap the new payload then. `mm.c` does unmap
pages and is covered by the next part instead (`AcceptedStaysMapped`).

### The driver with an allocator that keeps its contract (second part)

`Trusted` is `KeepsContract`, with finitely many pages mapped and addresses that
are natural numbers, and traces with true headers; `NoneEmpty` says that no trace
asks for an empty block. `Ready` are the states between `mm_init` and
`mem_reset`, `States` those in which `mm_init` may be called: an evaluation that
gave up on an empty request leaves pages and blocks behind. `Payloads(A)` are the extents the allocator has given out in state A; they are
aligned, mapped and disjoint; `mm_malloc` adds one that is large enough,
`mm_free` takes one back, and only on an empty heap `mm_init` must give an empty
one. It owes nothing for a size no trace asks for, because `mm.c` has no test
for sizes whose arithmetic wraps. `ContractKept` proves these hypotheses of the allocator of module
`Contract`, for all pages, slack and sizes, so the theorems speak of what run
`driver` checks.

`BlamedFairly` and the rest follow from `ContractInv`, whose centre is `HeapOK`:
ids, payloads and ranges correspond one to one (`Matches`, `RangesMatch`), each
payload has room for its id's size (`Covered`), and between evaluations the heap
is empty. A call of the allocator and the bookkeeping around it is a composition
of taking a pair out and putting a pair in (`MatchesTake`, `MatchesGive` and so
on); a reallocation puts the new pair in the place of the old one and then takes
the old payload back, in this order. That no check of the driver fails is
`GivenAccepted` and `NeverRefused`: a payload of the contract passes all tests of
`add_range` while the ranges lie in other payloads.

`UtilSound` is a counting argument. The live sizes add up to the number of bytes
of disjoint intervals (`RoomsCount`), which lie on mapped pages, whose bytes are
PAGE times their number (`PageBytesCount`); so the total fits the heap (`SizesFit`),
at every step, and so does the maximum of the totals the maximum of the heaps.

### The program (`Lab_proofs`)

The module instantiates the theorems about `mm.c` and those about the driver and
puts them together. `Words` counts granules and the driver bytes;
`LabAssumption` says that a page is a whole number of granules and that the
arithmetic of no request wraps. The functions of `Words` that `Lab` calls are
those the proofs in `MM_proofs` speak of (`SameFunctions`), and the driver of
`Lab` is that of `Driver_proofs` (`SameProgram`).

`MmKeepsContract` is `KeepsContract` for `mm.c`. `Ready` are the heaps that
represent some chunks of whole pages, each with a used block, and the payloads
are read off the words (`Given`). `MallocTakes`, `FreeReleases` and `FillWrites`
say what a call does to the used blocks; `MallocGives`, `FreeTakesBack`,
`MemsetWrites`, `InitStarts` and `ResetStarts` are the contract's clauses in
bytes. What the driver's `memset` writes lies between the tags because
the bytes asked for are, which `Granule` and `Addr` have to be inverted for
(`PayloadFacts`, `GranuleMonotone`). Hence `BooksExact`: what is proved of the
driver holds of the program. `BlamesRightly` follows from `BlamedFairly`: `mm_init`
on a heap with leaked pages gives a sound heap, so that one failed trace fails
no other. That nothing aborts or faults is part of it, since the driver would end
there: it rests on the `NoCrash` of every call.

`DataStays` is not part of the contract as the driver relies on it, which
says nothing about contents. Its invariant is `DataOK`. Each step is one call, or
two with a write in between: a new payload is filled (`RequestWrites`), the payloads of
the other ids are left alone by all three (`MallocKeepsData`, `MemsetKeepsData`,
`FreeKeepsData`), and the ids' blocks lie in their payloads (`Covered`, of the
driver's invariant), so their data stay (`FilledKept`).

`ContractImplemented` is the refinement, which says more than `KeepsContract`:
where a payload may lie, how much larger than asked for it may be and which pages
may come and go. The mapping is `Payloads`, the invariant that of the driver
(`D!ContractInv`): it gives a heap of `Ready` and an old block that is a payload at
every call. `CutIsPlace` finds the cut block among the contract's places, at most
three granules too large (a rest that `split_block` keeps, `TakenPart`);
`ChunkPages` and `PagesChange` turn the granules of a chunk into a run of pages, so
that `AbsMallocs` and `AbsFrees` can name the pages the contract maps or unmaps.
`SameBooks`, `SameMoves` and `SameVerdicts` say that the driver cannot tell
the two allocators apart, and each evaluation has its lemma (`AbsValid`,
`AbsUtil`, `AbsSpeed`).

### The trace checker (`Checktrace_proofs`)

`Structures` says which ids are live after a request more. The invariant is that
no entry of `HASH` is "f", whatever words the lines begin with, and that of a list
of requests `HASH` has exactly the live ids, each with an allocation; so the test
for an entry left by a free never succeeds, and what the script prints of requests
is balanced.

`GeneratorsSound` says that each generator writes, for any number of blocks, a
trace a client may issue, under a header that agrees with it. In all of them an
id is allocated and freed at most once, in this order, and reallocated only in
between (`OnceEach`), and such a trace is well formed (`OnceWellFormed`). For the
scripts with loops the request on each line is worked out (`BinaryTrace`,
`CoalescingLine`, `Realloc2Line`); for `gen_random` each insertion keeps
`FreesInserted`, because the place is behind the allocation that the search
finds (`FindsAllocation`). The number of iterations is positive: with none
`gen_binary` writes 0 ids where the driver counts 1. `GeneratorsAccepted` puts it
together with the theorems about the script.

### The timers (`Fsecs_proofs`)

`SamplingExact` needs that the array is a sorted arrangement of K samples that
no other sample is below; `InsertMoves` describes the insertion of one value
by the exchanges of `add_sample`, `SampleEnters` draws from it the new arrangement,
and `AgreedAtEnd` what `has_converged` may conclude. `CounterDifference` is the
subtraction with borrow of both words. `CounterLasts` says that a run is shorter
than the counter's period, which the code relies on and 2^64 cycles justify;
`TimerLasts` that the calls end before the timer of a day runs out, after which
`getitimer` returns zero and the package shows no time at all.

### What is not proved

Induction over data enters through sets, not operators: `Structures` restates the
principles of the library with a set in the place of the predicate (natural
numbers, finite sets, sums over a set, iteration of a function). Only
model-checked is liveness (`Returns`, `Terminates`), which is out of the prover's
reach. The runs check `ScoreSound` and `LibcLeaksExact` on one trace; the theorems have any number.

## 5. Disagreements between code and text

- `add_range` misses a new payload that contains an older one
  (`AcceptedApart`); `OnlyContainmentMissed` shows that of the ranges on its list
  this is all it misses.
- After a failed trace the next evaluation does not start from the reset heap
  that `mdriver.c:573` speaks of (`StartsEmpty`). `BlamedForEmptyOnly` shows that
  `mm.c` passes on such a heap all the same.
- `checktrace.pl:96` looks for an entry that `checktrace.pl:111` has deleted, so
  "reused ID" is never reported, while `traces/README:45-47` says that an id
  identifies a request uniquely (`ReusedIdDies`). `WellFormed` allows the reuse,
  because the driver carries out such a trace, one block per id at a time.

Without a run of their own:

- `memlib.c:82` maps a page at each power-of-two call and records it nowhere;
  `mem_reset`, which according to `memlib.c:44` frees the storage of the memory
  model, leaves it mapped. The model has the page (`Extra`).
- On a reallocation the old range is removed before the new payload is checked
  (`mdriver.c:627`) and the old block freed after that, so a payload on top of a block
  that is still allocated passes, against `mdriver.c:396` and `mdriver.c:599-600`. It
  follows from the order of the statements, and `OnlyContainmentMissed` does not
  see it: the range is off the list.
- `mdriver.c:666-670` defines the utilization with the size of the heap after the
  trace and says the heap never shrinks; the code divides by the largest size,
  and pages are unmapped during a trace.
- `gen_random.pl:19` may write a request of 0 bytes; `mm_malloc` returns NULL for
  it and the driver counts an error.
- The comment at `mdriver.c:605-608` says the fill is used to check that data are
  kept; the driver reads no payload. `DataKept` is that check.

## 6. Not modelled

- The characters of trace files and options, the floating-point values of the two
  ratios and of the index, the printed tables: input, output and arithmetic on reals.
- `mhz`, `init_fsecs`, `clear` and the setters of the timing package: a scale
  factor, reads that evict the cache, assignments of parameters that are
  constants of the model. The Alpha version of the counter: assembly for another
  processor, whose 32-bit wraparound needs no borrow.
- The sizes the generators print, other than that one may be 0.
- What a trace file with more requests than its header says overwrites when
  `read_trace` stores them: the model ends in the phase `overrun`.
- `cs4400/simulator`: `decode_instructions` returns NULL and the loop of `main` is
  commented out; there is no execution to check.
- `cs3200` (floating-point numerics), `cs3500` (tests of a library that is not in
  the repository), the labs (answers as text and binaries).
- Calls of the allocator between `mem_reset` and `mm_init`: no caller in the
  repository makes one, and `ready` excludes them.
- Failures of `mmap` and `munmap`: `mem_map` aborts, so `mm_malloc` never sees one and its test
  for NULL is dead code. Requests beyond the bound of `LayoutAssumption`: the
  driver's sizes are ints; a negative one becomes huge and wraps nothing but
  the contract, which does not cover it.

## 7. Plan

Done, in this order: the interval algorithm and its contract; its proofs; the
words of `mm.c` and their refinement; the page supply; the trace checker; the
driver; the timers; the composition of driver and allocator; the generators.

The proofs of `BlockHeap`, `MM`, `Memlib`, `Driver`, `Lab`, `Checktrace` and `Fsecs`
are done, with the lemmas on lists, tilings, sums and counting they share, and so
is `Generators`: what each script writes is well formed, for any number of blocks.
Nothing of the plan is left.
