# ft_malloc in TLA+

A model of this repository: the allocator (`src/src`, `src/include`) and the
library it brings along (`src/libft`). TLC checks it on small instances; TLAPS
proves the allocator, its contract and its locking, the limit caches, the lists
and arrays of strings, `get_next_line` and `quick_sort` for every value of the
constants.

Line numbers in this file and in `PROJECT.json` are those of the sources.

## 1. The system

The allocator replaces `malloc`, `free` and `realloc` of a program (preloaded as
a shared object) and adds `show_alloc_mem` and `show_alloc_mem_ex`. `libft` is a
general-purpose library; the allocator itself uses its `ft_memmove` alone.

| component | state | operations | talks to |
|---|---|---|---|
| sizes (`malloc_utils.c`, `malloc.h`) | none | `align_size`, `get_zone_type` | |
| limit caches (`malloc.h`) | a static per function and per file that includes the header | `get_pagesize`, `get_max_alloc_size` | `sysconf`, `getrlimit`; called by several threads without a lock |
| one zone (`malloc_allocate_block.c`, `malloc_utils.c`, `free_utils.c`, `free_convert_block_to_empty.c`, `realloc_utils.c`, `realloc_try_to_extend_block.c`) | the zone header: bounds, type, counters, a statistic, two sorted linked lists of chunks | `allocate_from_empty`, `convert_block_to_empty`, `merge_empty_spaces`, `split_block`, `extend_block`, `extend_block_back`, `update_empty_stats`, the list operations | called with the lock held |
| list of zones (`malloc_find_zone.c`, `free_utils.c`) | `g_zones`, newest first | `find_zone`, `create_zone`, `create_large_zone`, `find_zone_for_ptr`, `is_valid_block`, `free_large_zone` | `mmap`, `munmap` |
| public calls (`malloc.c`, `free.c`, `realloc.c`) | `g_malloc_lock` | `malloc`, `free`, `realloc` | all of the above |
| reports (`show_alloc_mem.c`, `show_alloc_mem_ex.c`) | none | the two reports | `printf`, under the lock |
| constructor (`malloc.c`) | none | `init_malloc` writes a banner | |
| libft: memory and strings | none | `ft_mem*`, `ft_str*`, `ft_substr`, `charjoin`, ... | `malloc` |
| libft: linked lists | nodes the caller owns | `ft_lst*` | `malloc`, `free`, the caller's `f` and `del` |
| libft: arrays of strings | arrays the caller owns | `ft_split`, `array_dup`, `array_free`, `array_to_str` | `malloc`, `free` |
| libft: line reader | a table with a buffer per descriptor | `get_next_line` | `read`, `malloc`, `free` |
| libft: sorts | the list being sorted | `quick_sort`, `merge_sort` | |
| libft: characters and numbers | none | `ft_is*`, `ft_to*`, `ft_itoa`, `ft_ato*` | `malloc` |
| libft: formatted output | none | `ft_printf`, `ft_put*` | `write` |

A zone is a mapping that starts with its own header; behind it chunks follow
each other, each a header and a payload. A chunk is a *block* (handed out) or an
*empty space*. A request is rounded up, classified as TINY, SMALL or LARGE, and
served by the first zone of its type that claims to have room, or by a new zone.
A LARGE request has a zone to itself, which goes when the block is freed.

### What is hard here

* **Geometry.** Splitting, absorbing, merging and growing in place happen in any
  order and adjust the same bytes: chunks must neither overlap nor leave a hole
  (`ZonesTiled`, `ZonesCoalesced`).
* **Redundant state.** Two counters and one statistic are maintained
  incrementally beside the lists (`CountersExact`, `StatisticHonest`); the
  statistic goes stale at one early return, and a caller pays for it (finding 1).
* **Metadata inside the data.** Headers lie between payloads, are copied to the
  stack, rewritten while their neighbours still point at them, and overwritten by
  the `memmove` of a block that grows backwards (`ContentsKept`,
  `ListsWellLinked`).
* **Failure in the middle.** `mmap`, `malloc`, `read` and `write` may fail
  anywhere; `realloc` must leave the old block alone, `ft_split`, `ft_lstmap`,
  `array_dup` and `get_next_line` must free what they had made, once
  (`FailuresLeaveNoTrace`, `NothingLeaks`, `BuffersHaveOwners`), and a count of
  bytes written must turn into -1 through a recursion (`CountIsHonest`).
* **Order.** A zone's header lies inside the memory that is unmapped with it;
  `realloc` takes a new zone before it looks the old block up a second time.
* **Locking.** Ten early returns, each with its own unlock; reports that print
  while they hold the lock; caches that are filled without it.
* **Boundaries.** Sums of a request and headers near `SIZE_MAX`; the two sides of
  `MIN_SPLIT_SIZE`; sizes between TINY and SMALL; `INT_MIN`; a `char` that is
  negative; scans without a bound in `quick_sort`.

`PROJECT.json` lists these hazards one by one, at their lines, with the
properties that would show them going wrong.

### What makes each component correct

* sizes: a rounded size is at least the request and never wraps on its way to
  `mmap`;
* limit caches: only what the kernel said is ever returned, and a cache settles;
* zone: tiled, coalesced, counted exactly, an honest statistic, no block much
  longer than its request, links that agree in both directions;
* list of zones: zones and mapped pages correspond, LARGE zones live as long as
  their block;
* public calls: the contract of `malloc.h` (disjoint, aligned, long enough
  regions whose contents stay; only the region concerned changes), failures
  without a trace, each block owned by one caller;
* locking: calls are atomic, the mutex is always given back;
* reports: their numbers agree with each other;
* memory and strings: copies as if through a second buffer and never beyond the
  room given, first and last places found, new strings that fit their buffers;
* lists and arrays: every node, content, word and array has exactly one owner
  after every call, and what is copied does not depend on its origin afterwards;
* line reader: no buffer leaks, no text is lost without a failure, each call
  returns;
* sorts: sorted rearrangements, no access outside;
* numbers and output: conversions can be reverted, formats are the sum of their
  pieces, counts are honest.

## 2. Modules

```
Sizes <- Zone <- Heap <- Allocator <- ShowAlloc       (<- is extended by)
                 Heap <- Threads
Sizes, MemOps <- Memory
Limits
MemOps, OneCall <- Strings                  \
MemOps, OneCall <- Numbers <- Printf         > <- LibftCalls
OneCall         <- MergeSort                /
Objects <- Caller <- TList, Arrays <- Containers
Objects <- LineReader
QuickSort

HeapProofs <- AllocatorProofs                         (up to ShowAlloc)
HeapProofs <- ThreadsProofs                           (about Threads)
MemoryProofs, StringsProofs, QuickSortProofs,         (about the module of that name)
  ContainersProofs
StaticsProofs                                         (about LineReader and Limits)

Threads, Memory => Allocator => MallocContract        (=> implements)
```

### The allocator

* **`Sizes`**: the layout constants with the assumptions the code makes of
  them (`SizesAssumption`), `align_size`, `get_zone_type`. `size_t` arithmetic is
  taken modulo `SIZE_MAX + 1` where a sum may exceed it (`Wrap`).
* **`Zone`**: one zone as a record with the fields of `struct s_zone_header`,
  and each operation inside it as an operator from zone to zone. The two linked
  lists, always sorted by address, are sets of chunks: every walk of the code is
  a walk by address (that this is so is what `Memory` checks). A chunk is
  `[addr, data_size]`; the field `end` is derived (`block_end`).
  `merge_empty_spaces`, a loop that merges into its current element, is stated by
  its runs (`Runs`): a maximal chain of spaces with gaps smaller than a chunk
  becomes one space.
* **`Heap`**: the state between calls as a record `[zones, mapped]`, the kernel
  (`mmap` gives any free page-aligned range or fails; `munmap` unmaps the pages
  of its range) and the steps of the three calls. Operators whose result depends
  on the kernel give the set of outcomes.
* **`Allocator`**: variables `g_zones`, `mapped`, `owned`; one action per public
  call. `owned`, the pointers callers hold with the sizes they asked for, is not
  in the code: it is what callers know. `free` and `realloc` are also called with
  pointers nobody holds (`StrayPtrs`).
* **`MallocContract`**: the abstract specification, with `owned` alone.
  `Allocator` implements it with the identity as refinement mapping
  (`KeepsContract`).
* **`Memory`**: the same calls over memory itself: headers of zones and chunks at
  their addresses, with `prev`, `next` and `end`, and the bytes of one watched
  payload, any. Writing a header destroys the payload bytes under it and the other
  way round, so that an order of writes that reads a header already overwritten
  fails. The list walks, insertions, replacements and removals are those of the
  code, as is the `memmove` (operators of `MemOps`). `Memory` implements
  `Allocator` (`ListsImplementSets`): the variable `zones`, set with every call to
  the sets of chunks the lists hold, is the refinement mapping, written as a
  variable so that TLC computes it once per step.
* **`Threads`**: the calls step by step. A step is the code between two points
  where the shared state is written or the call branches: the lock, `find_zone`,
  `allocate_block`, the look-up, the release (unlinking and unmapping of a LARGE
  zone apart), resizing, the second look-up of `realloc_free`, the unlock. Every
  early return is a jump to its unlock. Pointers of a call's local variables are
  kept as addresses and resolved when they are used. `settled`, the heap when the
  lock was last free, is a history variable; with it `Threads` implements
  `Allocator` (`CallsAreAtomic`). `printf` allocates a buffer the first time the
  program prints; that is external code.
* **`ShowAlloc`**: the numbers of the two reports as functions of the heap,
  with the loop of the extended report as it runs out when no empty space is left.
* **`Limits`**: the static variables of `get_max_alloc_size` and `get_pagesize`,
  with threads that test, ask, save and return in any interleaving while the
  program calls `setrlimit`. The unsynchronised second read, which a compiler may
  or may not keep, is a choice. In the other modules both are constants.

### libft

* **`OneCall`**: the scheme for functions that keep nothing: a state `before`, one
  `call`, the state `after` and the value returned. **`LibftCalls`** is the choice
  of one call of any of them.
* **`MemOps`**: memory as a function from addresses to bytes, the functions that
  work in place with their loops as folds over the indices in the order of the
  code. `Char` and `UChar` are the two readings of a byte (`char` is signed here).
* **`Strings`**: the functions that allocate a string, each with its failure, and
  the calls of them and of `MemOps` with any arguments that stay in the caller's
  memory.
* **`Numbers`**: classes, `ft_itoa`, `ft_atoi` and its wide siblings over ints of
  few bits that wrap. **`Printf`**: output over a file whose writes all succeed, or
  one of which fails or is short. **`MergeSort`**: the two arrays that change
  places at each level.
* **`Objects`**: a heap of objects with the smallest free pointer handed out, or
  none. **`Caller`**: a program that makes one call at a time on it. **`TList`**
  and **`Arrays`**: its list and array operations; `ft_lstmap`, `ft_split` and
  `array_dup` take a step for each turn of their loops. `numbers`, `arrays` and
  `strings` hold what the containers should contain. **`Containers`** is the
  program that uses both.
* **`LineReader`**: `get_next_line` as the tests of its loop divide it. A read
  gives any number of bytes up to the buffer's size, or fails.
* **`QuickSort`**: `quick_sort` with the recursion as a sequence of calls still to
  make; each comparison of the scans is a step.

`MC...` modules give the runs their constants, and hold the statements of comments
that turn out not to hold.

Operators whose name ends in an underscore and a word (`align_size_Down`,
`MapNode_Leak`, `LookUp_NoUnlock`, ...) are seeded faults: plausible mistakes in
the definition they are named after, used to see that each property notices one.
They are not part of any specification.

## 3. Runs

Layouts are scaled down so that each zone holds two to four chunks and every
boundary is hit: alignment 2, headers of 2 or 4 bytes, pages of 4 or 8. What
matters is kept: headers are multiples of the alignment, a chunk's minimum is a
header and one unit of alignment, a zone is a multiple of a page.

| run | bounds | shows |
|---|---|---|
| `allocator` | six pages: two TINY or SMALL zones of three pages, or LARGE ones; requests 0, 1, 4 (TINY), 6 (between TINY and SMALL, hence LARGE), 8 (SMALL), 12 (LARGE), 127 (`SIZE_MAX`, whose sum with the headers wraps); stray pointers: NULL, a payload address at times, a chunk's middle | the invariants of `Allocator`, the contract, failures without a trace, the reports |
| `threads` | two threads, four pages (two zones), a TINY and a LARGE request, a pointer that is no payload and double frees, since both threads may free the same pointer; stdout used before or not | atomicity, order of unlinking and unmapping, and that the mutex is given back |
| `memory` | one TINY zone of four chunks beside a LARGE one; requests of one, two and three units and a LARGE one; any one block watched | contents, links, and that lists implement sets |
| `limits` | two threads, three caches, limits that change between two values, one of them 0 | the answers of the caches, and that these settle |
| `calls` | five bytes of memory over four values (NUL, two letters, one beyond ASCII), every pair of pointers, overlaps included; ints of 8 bits, longs of 16; texts of up to five characters over eight; formats of up to three pieces; failure at any of the first six writes; arrays of up to six elements over four values | the stateless functions of libft |
| `containers` | two list variables, five texts with separators at the ends and in rows, four objects to begin a call with | ownership and contents whatever fails |
| `lines` | two descriptors, reads of one or two bytes, four files (empty, empty lines, no newline at the end, a line longer than two reads) | buffers, text, lines and return of `get_next_line` |
| `quick_sort` | every list of up to five elements over five values | scans, ranges, result, and return without duplicates |
| `requests_are_served`, `extended_total` | as `allocator`, with TINY and SMALL sizes that meet and seven pages | findings 1 and 2 |
| `printf_under_lock` | as `threads`, with a second TINY size | finding 3 |
| `sort_returns` | lists of up to three elements | finding 4 |

Small is enough because the operations look at little. An operation on a zone
looks at a chunk and its two neighbours, one on a list at a node and its two
neighbours, the calls at one zone and one page range: four chunks, two zones and a
few pages more than these take show every case, and the geometry is proved without
bounds besides. Two threads are enough for the lock: the actions of a thread depend
on others only through the mutex and the heap. In `memory` the end of the address
space is not a page boundary: `mmap` is asked for the bytes of a zone, so that the
LARGE zone just fits behind the TINY one. The functions of libft compare
neighbouring bytes or elements: five characters hold a prefix, a match and a
remainder; arrays of five or six elements recurse three levels deep with runs of
unequal length. `containers` begins a call with at most four live objects, and a
call may add as many as it needs.

Deadlock is checked but where the system may stop: a program that has made its one
call (`calls`), a sort that returned (`quick_sort`), and `threads`, where a report
that waits for itself stops its own thread and then every other (finding 3). That
nothing else stops a holder of the mutex is `LockIsReleased`, which a deadlock with
the mutex taken would violate.

**Fairness.** `Threads` assumes weak fairness of each thread's steps once it is in
a call: the code of a call waits for nothing but the mutex, and the scheduler runs
every thread. Nothing is assumed of when a program calls, nor of which waiting
thread gets the mutex; hence `LockIsReleased` (a holder gives the mutex back) is
checked, and "a waiting thread gets it" is not claimed: a default pthread mutex
does not promise it. `LockIsReleased` excepts the thread that waits for itself.
`LineReader` assumes weak fairness of the steps inside a call and `QuickSort` of
its steps: sequential code that goes on. Which outcome an allocation or a read has
is never fair; `CallsReturn` holds because every outcome comes nearer to an end.

### Runs that disagree with a comment or a declaration

1. `requests_are_served`: when the last empty space of a zone is used up,
   `update_empty_stats` returns before it writes (`malloc_utils.c:23`), so the
   zone still claims the room it had. `find_zone` picks it, nothing fits, `malloc`
   returns NULL; no new zone is mapped although there is room (`malloc.h:150`).
2. `extended_total`: the extended report leaves out blocks behind the last empty
   space, on its lines and in its total (`show_alloc_mem_ex.c:38`).
3. `printf_under_lock`: a report that is the first thing a program prints calls
   `malloc` from `printf` with the mutex held, and waits for itself.
4. `sort_returns`: with duplicates both scans of `quick_split` may stand on elements
   equal to the pivot, which are swapped for ever (`quick_sort.c:29`).

Further differences, met while modelling, that have no run of their own:

* `realloc` splits LARGE blocks too, so that a LARGE zone gets an empty space;
  `malloc.h:103-104` says it is not tracked by the freelist (`realloc.c:83`).
* Absorbed leftovers make TINY blocks longer than the 192 bytes of `malloc.h:87`
  (`malloc_allocate_block.c:72`).
* The zone header takes part of the 24 KB: 127 full-size TINY blocks fit, not 128
  (`malloc.h:55`, `malloc_find_zone.c:9`).
* The lines of `show_alloc_mem` count headers, its total does not
  (`show_alloc_mem.c:13-15`, the example in `malloc.h:161-170`).
* `get_next_line` lets the descriptor `OPEN_MAX` pass (`get_next_line.c:108`), for
  which its table has no entry (`:105`). The run asks for lower ones only.
* `quick_sort` takes a list of two for one that needs no sorting
  (`quick_sort.c:41`); `Sorts` says so.
* `ft_lstmap` frees the content it could not place with `free`, not with `del`
  (`ft_lstmap.c:28`).

## 4. Properties

**Allocator.** `ZonesTiled`, `ZonesCoalesced`: the geometry. `CountersExact`:
`blocks_num`, `remaining_space`, `total_space` against the lists.
`StatisticHonest`: while a zone has an empty space, `find_zone`'s test is right
about it (finding 1 is the other half). `OwnersMatchBlocks`: no leak and no
dangling pointer: the blocks are exactly what callers hold, each long enough.
`LittleToSpare`: however often a block was grown and shrunk, it is longer than its
request by less than a chunk. `ZonesMatchMappings`, `LargeZonesHoldOneBlock`: the
mapped pages are those of the zones. `FailuresLeaveNoTrace`: a step that changes
nothing for callers changes nothing at all. `ReportsAddUp`: the two reports agree
with each other and with the counters.

**Memory.** `ContentsKept`: what a caller wrote stays, through growing forwards,
backwards, moving and shrinking. `ListsWellLinked`: `prev` is the inverse of `next`
everywhere, lists are in the order of addresses, `end` is right.
`ListsImplementSets`: `Allocator` is the right abstraction.

**Threads.** `CallsAreAtomic`, `ListedZonesAreMapped`, `LockIsReleased`.

**Limits.** `AnswersAreReal`: the zero of an empty cache never gets out, whatever
the race. `CachesSettle`: a filled cache that nobody is about to fill is final.

**libft.** `CopiesAreExact` (overlapping moves, bounded copies and their result),
`SearchesAreRight`, `ComparisonsAreOrders`, `NewStringsFit` (a new string fits its
buffer and has the text asked for), `RoundTrips` (an int through `ft_itoa` and back,
a letter through its other case), `TextsAreRead`, `CountIsHonest` (-1 exactly for a
failed write, nothing written after it), `NumeralsEvaluate`, `FormatsCompose` (each
conversion of a format gets its own argument), `SortsItsElements` (`merge_sort`),
`NothingLeaks` and `ContainersHold`, `BuffersHaveOwners`, `NothingLost`,
`LinesAreLines`, `CallsReturn`, and for `quick_sort` `ScansStayInside`,
`RangesSeparate`, `Sorts`, `DistinctListsReturn`.

## 5. Proofs

### The allocator

`AllocatorProofs` proves, for every layout that satisfies `SizesAssumption`, every
address space, every set of requests and stray pointers, and lists of zones of any
length, all that the run `allocator` checks:

| theorem | states |
|---|---|
| `TypeCorrect`, `AlwaysTiled`, `AlwaysCoalesced`, `AlwaysCounted` | `[]TypeOK`, `[]ZonesTiled`, `[]ZonesCoalesced`, `[]CountersExact` |
| `StatisticAlwaysHonest`, `AlwaysLittleToSpare`, `LargeZonesAlwaysHoldOne` | `[]StatisticHonest`, `[]LittleToSpare`, `[]LargeZonesHoldOneBlock` |
| `OwnersAlwaysMatch`, `ZonesAlwaysMatchMappings` | `[]OwnersMatchBlocks`, `[]ZonesMatchMappings` |
| `NoTraceOfFailures` | `FailuresLeaveNoTrace`, an action property |
| `Refinement` | `KeepsContract`: `Allocator` implements `MallocContract` |
| `ReportsAlwaysAddUp` | `[]ReportsAddUp` |

There are two inductive invariants.

`IInv` looks at each zone alone and is the conjunction of the first four
(`InductiveInvariantMeans`). They lean on each other: `data_size` stays a natural
number because chunks are disjoint; the loop of `merge_empty_spaces` joins spaces
with a *gap* below `MIN_SPLIT_SIZE`, which in a tiled zone means they touch
(`JoinedIsTouching`); one pass suffices because the spaces did not touch before the
one change that preceded it (`RunsAround`, `MergeWellFormed`); and the bytes that
remain are those of the empty spaces because nothing else lies between the chunks.

`SoundInv` adds what relates zones to each other and to the world outside
(`SoundHeap`: zones apart, on whole pages, the mapped pages exactly theirs, the
statistic honest, LARGE zones with one block at their front, every chunk on the grid
of `ALIGNMENT`) and to the callers (`Held`: `owned` is a function on the payload
addresses of the blocks, and each block is *snug*: at least its rounded request and
less than a chunk more). `Held` needs `ZonesTiled` and the distance of the zones,
for two blocks of different zones must not have one payload address; that `free`
finds the right block needs them again.

The refinement is proved step by step: `CallEffect` says what an action did to
`owned` (nothing, one pointer more, one less, one with a new size, one in the place
of another), each action has such an effect (the `...Effect` lemmas), and with
`SoundInv` before and after it that is a step of the contract: the regions handed out
are disjoint because the blocks of a zone are, and zones are. `FailuresLeaveNoTrace`
follows from the same lemmas: an effect that is not the first shows in `owned`.

* `HeapProofs`: sums over finite sets (`MapThenSumSet` is a fold over a recursive
  function; that it exists for every finite set is shown by well-founded recursion
  over the subsets, and with it how a sum changes with an element); the geometry as
  lemmas on sets of chunks (cutting one in two, `TilingSplit`; joining two or three,
  `TilingJoin`, `TilingJoinAround`); one lemma for each operation of `Zone`,
  counters included; then the calls: rounding gives at least one unit of alignment (`AlignFacts`), the
  sum of `create_large_zone` does not wrap behind its guard (`FindZoneGood`), and
  each step of the calls keeps a good heap good and a sound one sound, with the
  pointers it concerns.
* `AllocatorProofs`: one lemma per public call, the contract, the reports.

### Lists and payloads in memory

`MemoryProofs` proves of the same calls, carried out header by header, for any layout
and any lengths of the lists:

* `ListsStayWellLinked`: `Spec => []ListsWellLinked`;
* `ContentsStay`: `Spec => []ContentsKept`.

The second is what a caller relies on: whatever the allocator writes, it does not
touch the bytes of a block that is in use, and `realloc` takes them along when the
block moves. Neither property is inductive, and neither can be proved without the
other half: a list stays linked only if its headers are not written over by a payload
or by a header of another list, and that needs to know where everything lies.
`MemoryInv` says so. `HeapOK`: the zones are listed, lie apart and on mapped pages,
and each has a `Shape`, that is two sets B and E of addresses such that the lists of
the zone are B and E in order, linked in both directions, and no two chunks of them,
with their headers, overlap. `Owns`: callers hold payloads of blocks that are large
enough. `Watches` and `Kept`: the first bytes of the watched block are what its owner
wrote. TLC cannot evaluate `MemoryInv`, which speaks of some sequences of
any numbers; it checks the two properties that follow from it.

The argument goes up from stores to calls.

* A list in order is described by its neighbours (`Linked`): what is before and
  behind each node in the set, without positions. So a node is put in, taken out or
  replaced by touching at most three headers (`CloseGap`, `FillGap`, `ReplaceGives`,
  `InsertGives`), and what a walk from the head meets is the set (`LinkedWalk`).
* `Touches` says which headers a step wrote; everything off these headers is as
  before. `Worked` is what an operation of a zone promises: blocks B became blocks C,
  with the sizes and bytes of those that stay, and nothing outside the zone changed.
  There is one lemma per operation. The order of the writes matters where a header
  is read after the bytes around it were moved (`GrowBackwardGives`,
  `MoveBackGives`).
* `merge_empty_spaces` joins into its current element as it goes. `Turned` says what
  one turn does, `MergeFromGives` what the loop does from any element on, by taking
  the least number of spaces for which it would go wrong.
* `memmove` between ranges that overlap is a fold over the bytes in one direction or
  the other. `SafeOrder` says that no byte is written before it is read, and
  `CopyGives` derives the result by the smallest set of bytes that would contradict it
  (`MemmoveGives`).
* `Step` lifts this to the heap: all blocks but those named last, with their bytes.
  `Moved` is what `realloc` promises, whether the block grows where it is, forward,
  backward, into a new place, or not at all. `LeaveGives` takes both to the
  invariant.

### The threads

`ThreadsProofs` proves for any number of threads, besides everything the
allocator's proofs leave open:

* `ListedZonesAlwaysMapped`: `Spec => []ListedZonesAreMapped`;
* `Atomicity`: `Spec => CallsAreAtomic`;
* `ThreadsKeepContract`: what the threads hold obeys `MallocContract`;
* `HeapSoundBetweenCalls`: when the lock is free, and when a report runs, the heap is
  `settled`, and `settled` is tiled, counted, matched with owners and mappings, and
  its reports add up.

The invariant `ThreadInv` says that only the holder of `g_malloc_lock` is inside a
call, and how far it has come (`Progress`): for each place in the code, what the
heap is now as a function of `settled` and of the arguments. In front of the unlock
this is `Finished`: the heap is one that the whole call, taken as a single step, may
lead to; that is the step `Atomicity` maps the unlock to, and every other step is a
stutter. Between two steps the heap need not be sound: `find_zone` may have mapped a
zone that has no block yet, `free_large_zone` unlinks before it unmaps. The proof of
`ListedZonesAreMapped` needs just that order. The last two theorems come from
`AllocatorProofs`, instantiated with `settled`.

### Memory and strings

`StringsProofs` proves, for a memory of any size (`LAST`) with any bytes in it:

* `CopiesStayExact`: `StringsSpec => []CopiesAreExact`;
* `SearchesStayRight`: `StringsSpec => []SearchesAreRight`;
* `ComparisonsStayOrders`: `StringsSpec => []ComparisonsAreOrders`;
* `NewStringsStayFit`: `StringsSpec => []NewStringsFit`.

`StringsSpec` has the behaviours of `LibftCalls` that begin with `StringsReady`. They
make calls of `StringCalls` and no others, because every call waits for things of its
own kind (`NoCall`). `LibftCalls` itself contains recursive operators, which no module
with a proof may reach. A behaviour makes one call, so there is little to keep: the
invariant (`StringsInv`) is what the memory was before it and the four properties. The
work is in what the functions compute.

* The loops are folds. `FoldsAgree` turns an induction over the turns into an argument
  about sets of turns: if a closed form agrees with the loop on no turns, and goes on
  agreeing with each turn, it agrees for all, since otherwise a smallest set would not.
  `Filled` is the closed form of a loop of stores.
* For `ft_memmove` the form holds only because no turn reads what an earlier one wrote,
  which is what the choice of the direction is for (`CopyBytesIs`).
* `StringAt` says that a string of n characters stands at an address: its first NUL is n
  behind. `PutString`, `Appended` and `CutOff` state what `ft_strlcpy` and `ft_strlcat`
  leave, when there is room and when there is not.
* `ft_strnstr` stops inside its loop at the first difference. `StandsWhere` relates the
  place where it stops to the whole match, within both the string and the limit. Two
  strings are compared up to the first place where they differ or one ends
  (`SamePrefixes`).
* New memory is not initialised, and each maker has to store into all of it. `NewFits`
  states the property for one outcome; `ft_bzero` and each fill after it are put
  together from `Zeroed` and `Fresh`. A part of a string is a string (`PartText`).
  `ft_strtrim` looks for the ends with `ft_strchr`, which compares characters as `char`;
  `KeptIs`, `FirstIs` and `LastIs` show that for a set of ASCII these are the first and
  the last character not in the set.

### Lists and arrays of strings

`ContainersProofs` proves for any number of lists and arrays, of any length, over any
numbers, texts and separators, whichever allocations fail:

* `OwnershipHolds`: `Spec => []Ownership`;
* `NothingEverLeaks`: `Spec => []NothingLeaks`;
* `ContainersAlwaysHold`: `Spec => []ContainersHold`.

`NothingLeaks` speaks of the time between calls, and `ft_lstmap`, `ft_split` and
`array_dup` take many steps. `Ownership`, the inductive invariant, holds inside them,
too: every object is the share of exactly one owner (`EachHasOneOwner`), and the
owners are the lists, the arrays, the strings and the call (`Owners`, `Share`). For
each owner it says what can be relied on (`Fits`): a list is a chain of different
nodes with contents of their own that hold `numbers`; an array ends with a NULL and
has the words in `arrays`, a string has the text in `strings`; the
copy of `ft_lstmap` follows the nodes that were passed (`MapFits`); the array
`ft_split` fills has the first words of the text and no entry behind them
(`SplitFits`), so that
`free_split`, which reads the entries from the failed one down, frees those and
nothing twice; the copy of `array_dup` has the first words of its original and ends
with NULLs from the start (`DupFits`), so that `array_free` stops where the copying
did.

The model's walks and loops are folds and recursive functions. For each there is a
lemma that says what it gives: the nodes a walk meets (`NodesAre`), freeing one
object after the other (`FreeEachGives`), clearing a list (`ClearGives`), freeing an
array or a half made one (`ArrayFreeGives`, `SplitFreeGives`), appending at either
end. `StepKeeps` then says what all steps share: an owner whose objects a step leaves
alone keeps what could be relied on. At the end `OwnershipMeansNothingLeaks` puts the
shares in a row and counts: each of the sequences joined in `NothingLeaks` has every
element of one share once (`Enumerates`), and the shares are disjoint.

That the contents are right rests on two arguments about texts. `ft_split` counts the
words before it cuts them, by other tests than those it cuts with. `CountIs` says that
the count is that of the maximal pieces without a separator (`Pieces`), and `Scanned`
relates the place in the text to the words made and the words still to come; each
turn of the loop then cuts the next piece (`ScanWord`), and none is left when the
count is used up (`ScannedNumbers`). `array_to_str` appends with `ft_strlcat`, which
cuts off what has no room. `RoomEnough` says that the length computed beforehand
is enough for every prefix of the result, also when it counts one separator too
many, so that nothing is cut off (`StrIs`).

### get_next_line

`StaticsProofs` proves, for any descriptors, files, buffer size and failures:

* `BuffersAlwaysHaveOwners`: `Spec => []BuffersHaveOwners`;
* `NothingEverLost`: `Spec => []NothingLost`;
* `OnlyLinesHandedOut`: `Spec => LinesAreLines`.

Their hypothesis `OPEN_MAX \notin FDs` is about the caller: that descriptor passes the
test at `get_next_line.c:108` and has no entry in the table, so that for it no claim
holds. `LInv` extends the properties, which speak of the time between calls, into
a call: while a descriptor is read its entry in the table is out of date (it may
point to a buffer that was freed), its text is what the local `str` points to, and
`res` is one more buffer that only the call knows (`Buffers`, `Complete`). Where a
line is cut off, either a newline is there or the file has ended, which is the last
conjunct.

### quick_sort

`QuickSortProofs` proves for lists of any length over any integers:

* `NeverOutside`: `Spec => []ScansStayInside`;
* `AlwaysSeparate`: `Spec => []RangesSeparate`;
* `AlwaysSorts`: `Spec => []Sorts`.

None of them is inductive. The scans stop because between `i` and `j` there is
always an element equal to the pivot (`SplitInv`), which the swap keeps. Ranges stay
separate although a swap rearranges one, since it keeps the elements of the range
(`SwapSeparate`). That ranges of two may be left alone deeper down needs one more
fact: a range other than the whole list has its least element first or its greatest
one last (`Anchored`, in `CallsInv`). `OrderInv`, two elements in the wrong order lie
in one range that is still to be sorted, gives the order when no range is left, and
`ElementsInv`, the list is the input under a permutation, gives the rest.

### The caches

`StaticsProofs` ends with the caches of `Limits`, which like the table of
`get_next_line` are static variables, and proves for any number of threads, caches and
limits:

* `AlwaysReal`: `CachesSpec => []AnswersAreReal`;
* `AlwaysSettle`: `CachesSpec => CachesSettle`.

The invariant adds what the caches hold (`CachesReal`: nothing yet, or something
real) and what the threads carry (`CallsReal`: a thread that is about to return
finds a cache that was filled, so that the second read is safe, too).

### Assumptions, and what is only model-checked

The assumptions are those of the modules: `SizesAssumption` (alignment divides
the headers and the limits; a zone has room for one request of its kind),
`HeapAssumption`, `AllocatorAssumption`, `MemoryAssumption`, `ThreadsAssumption`,
`StringsAssumption`, `LimitsAssumption`, `QuickSortAssumption`, `LineReaderAssumption`,
`CallerAssumption`, `TListAssumption` (contents are numbers, list variables finitely
many) and `ArraysAssumption` (texts are sequences); TLC evaluates them in the runs. Where
`ThreadsProofs` uses theorems of `AllocatorProofs` it proves that module's assumptions
from its own (`CallsAssumptions`).

Only model-checked:

* `ListsImplementSets`, that `Memory` implements `Allocator`. `MemoryProofs` says of
  each operation which blocks it leaves and that lists stay lists; the refinement asks
  for the same sets, spaces and counters as `Zone`'s operators give, one operation
  after the other, and in particular that the loop of `merge_empty_spaces` yields
  exactly the joined `Runs`;
* `Numbers`, `Printf` and `MergeSort`, with recursive operators for the recursions of
  the code, and `LibftCalls`, which contains them;
* liveness (`LockIsReleased`, `CallsReturn`, `DistinctListsReturn`), which is out of
  the prover's reach altogether.

## 6. Not modelled

* The text, colours and addresses of the reports; the hexadecimal dump.
* The banner of `init_malloc` (`malloc.c:8` writes one byte more than the text has);
  build files, tests, colours.
* Data races outside the lock: the reports' first read of `g_zones` is a step of
  its own, in which the pointer is tested and not followed.
* Integer widths of the counters: that they never go below zero is part of
  `CountersExact`.
* Contents of payloads other than the one watched; which one it is is arbitrary.
* NUL bytes in files read by `get_next_line`, which takes them for ends of strings.
* The product in `ft_calloc`, which may wrap (`ft_calloc.c:19`): no caller in the
  repository reaches it.
* The `va_list` that `print` passes by value to `put_all` (`ft_printf.c:59`): after
  that its value is undefined by the standard; modelled is what the ABI does whose
  `va_list` is an array.
* `quick_sort` and `merge_sort` on ranges that are not those of their lists.

## 7. Plan

Left is one proof, `ListsImplementSets` of `Memory`: with the sets of each `Shape` named,
one lemma per operation that it computes what the operator of `Zone` computes.
