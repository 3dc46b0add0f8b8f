# Specifications of the Kernel_Development projects

The repository holds three course projects in C: synchronisation tools
(`src/sync_tools`), a library of cooperative user-level threads
(`src/user_threads`) and a Linux kernel module that implements on-demand paging
(`src/virtual_memory`). This directory models them in TLA+, checks the models
with TLC and proves the safety properties of twelve parts with TLAPS. `PROJECT.json`
lists the components, the runs, the source lines behind every definition, the
hazards and the theorems.

## The system and its models

| part | state | operations | module |
|---|---|---|---|
| atomics (`locking.c`) | C ints | `atomic_add`, `atomic_sub`, `compare_and_swap` | `Atomics` |
| spinlock + test (`locking.c`, `driver.c`) | `free`, the counter | lock, unlock; `ex3_fn` | `Spinlock` |
| barrier | `cur_count`, `iterations`, each thread's `my_iter` | `barrier_wait` | `Barrier`, `AbstractBarrier` |
| the driver (`driver.c`) | the exercise `main` is at, its threads, `global_value` | `main`, `ex1_*_fn`, `ex2_fn`, `ex3_fn`, `ex4_*_fn` | `Driver` (over `Spinlock`, `Barrier`, `RWLock`) |
| reader/writer lock | `num_readers`, `writer`, `mutex` | read/write lock and unlock | `RWLock` |
| lock-free queue + test | `head`, `tail`, the nodes, the heap | enqueue, dequeue, deinit | `LFQueue` |
| linked list (`pet_list.h`) | `next`, `prev` | add, del, move, splice | `List`, `AbstractLists` |
| threads (`pet_thread.c`) | states, ready and blocked list, waiting lists | create, schedule/run, yield_to, join, exit | `PetThread` |
| hashtable (`pet_hashtable.c`) | chains, count, size, iterator | insert (expand), change, inc, dec, search, remove, iterator | `Hashtable`, `AbstractMultimap` |
| buddy allocator (`buddy.c`) | free lists, tag bits, stored orders | alloc, free | `Powers`, `BuddyPool`, `Buddy`, `BuddyRace`, `AbstractAllocator` |
| page pools (`main.c`) | list of pools | `ADD_MEMORY`, `petmem_alloc_pages`, `petmem_free_pages` | `PagePools` (over `BuddyPool`) |
| memory map (`on_demand.c`) | list of ranges | `LAZY_ALLOC`, `LAZY_FREE`, open, release | `MemMap` |
| demand paging (`on_demand.c`, `harness.c`) | page tables, translation cache | `PAGE_FAULT`, `INVALIDATE_PAGE`, the walk of a free and of a release | `PageTables`, `OnDemand` (over `MemMap` and `PagePools`) |
| offlining tool (`user/petmem.c`) | bitmap, region | scan, offline, check and undo, give | `PetmemTool` |

The parts meet in these places. `Driver` runs the exercises of `main` one after
the other: the threads of each use the atomics, the spinlock, the barrier or the
reader/writer lock, whose modules it extends, and
the pthread barrier of the C library; `main` creates and joins them and prints
the result. The exercise on the lock-free queue is in `LFQueue`. `Barrier` and
`RWLock` by themselves have freer callers, which come back at will.
`pet_list.h` carries the queues of the threads; `PetThread` uses sequences for
them, which is what the refinement of `List` justifies. `BuddyPool` holds the
operations on one buddy pool as operators. `Buddy` makes a state machine of a
single pool, `BuddyRace` runs `buddy_alloc` step by step for several processes
at once, and `PagePools` is the list of pools. `PageTables` holds the tables of a
process and one turn of the walk over them as operators. `OnDemand` composes the memory
map, the page tables, the processor's translation cache and the pools: a fault
takes a frame from the pools, a free in the memory map starts the page table
walk, the walk gives frames back, and the release of the process does the same
for every range that is left. The pools outlive the process.

### How code becomes actions

*Threads on several processors* (`Spinlock`, `Barrier`, `RWLock`, `Driver`,
`LFQueue`). The code is built without optimisation, so every plain load or
store of a shared word is a step of its own and a locked instruction is one step. A `pc` function says where each thread is. `x += 1` is a load and a store.
A turn of a spin loop is a step that may change nothing. The locked
instructions order memory on x86; the plain stores that the store buffer could
delay are not read by their own thread before such an instruction.

*Cooperative threads* (`PetThread`). Nothing interrupts a thread, so a library
call up to the switch to the next stack, and the cleanup done there, is one step.
The rest of a suspended call is done in the step that resumes it.

*ioctls* (`Buddy`, `MemMap`, `OnDemand` with `PagePools`). One ioctl at a time. The
loops of `petmem_free_vspace` and `petmem_deinit_process` are stepped through,
because what they touch changes under them. `BuddyRace` is the exception: its
processes are inside `buddy_alloc` at one time, and a list operation is a step.

*Undefined behaviour.* In `LFQueue` a node is named by the call of malloc that
returned it and has an address, which may be that of a freed node. An access
through a pointer to a freed node, or a compare-and-swap that succeeds because
two nodes have had the same address, sets `use_after_free` and ends the
behaviour.
In `Hashtable`, `wild` marks a table corrupted by the realloc fallback. In
`MemMap` and `OnDemand`, the release stops at the first node that is used after
it was freed.
In `OnDemand` a page fault stops the system (`phase` is `"crashed"`) when
`get_zeroed_page`, whose result nobody tests, has no page for a table: the
handler goes on with the table at a null pointer.
In `PetThread`, a failed assertion or a list entered through a pointer that does
not lead to one sets `crashed`. Three things lead there, and the code guards
against none of them: main joins (`pet_thread.c:299`), main is joined or exits
(its `waiting_for_me_list` is never initialised, lines 266 and 185), and a
thread joins the last stopped thread after that one has been freed. Line 95 reads
the id of that thread from freed memory at every lookup. Whether the id is still
there is left open: `pet_thread_join(t)` may take `t = stopped` for found or not.
`unsafe` remembers that one of the three has been done, and the safety properties
speak of the time before. No `main` of the repository does any of them.

## Hard behaviours, and the properties aimed at them

`PROJECT.json` lists every hazard with its line. In short:

- **Locks.** Interleavings of plain and locked accesses (`MutualExclusion`,
  `WriterExclusion`, `ReadersCounted`); the two-step reset of the barrier and the
  wrap of its counter (`OnePhase`, `Refinement`, `Released`); who waits for whom
  with a mutex held (`NoReaderOvertakes`, `WriterGetsIn`).
- **Driver.** Updates lost between a load and a store, a thread released one
  phase early, readers that see a half-made update (`TestsSucceed`); readers that
  wait at one barrier with a lock held (`DriverEnds`).
- **Queue.** Helping, a lagging tail, addresses that come back (`ListIntact`,
  `TailNearEnd`, `FIFO`, `AllReturn`; `NoUseAfterFree` fails).
- **Threads.** Sequences of yields, joins and exits (`OnePlace`,
  `BlockedOnTheLiving`, `JoinDelivers`, `NoCrash`, `EveryReadyRuns`).
- **Hashtable and list.** Growth with failing allocations, removal while
  iterating, entries moved beside themselves (`CountsEntries`,
  `IteratesOverAll`, `Ring`, and the refinements).
- **Memory.** Splitting and merging in any order (`Partition`, `FreeIsSafe`,
  `AllocFailsOnlyWhenFull`); pools cut from a region of any size (`PoolsTileTheMemory`,
  `FrameExclusive`, both proved for all regions); ranges that are split and combined (`Contiguous`,
  `Combined`, `RangesKept`); the walk over missing tables (`NoOrphan`,
  `MappedInUse`, `WalkStaysInRange`); loops over tables that change
  under them (`CallsEnd`); translations that outlive their mapping
  (`FrameExclusive`); two allocations at once (`BlockInPool`, which fails).
- **Tool.** A kernel that refuses or lies (`RegionIsRight`, `GivesUpRightly`,
  `Ends`).

The type invariant of a module is the first conjunct of one of these
(`ListIntact`, `OnePlace`, `CountsEntries`, `Partition`, `Contiguous`,
`FrameExclusive`, `RegionIsRight`) or part of what is proved (`Spinlock`, `Barrier`,
`RWLock`, `List`).

## Runs

Run one with `tlc -config MCX.cfg MCX`. The bounds are the constants of the cfg.

| run | instance | why it is enough | distinct states |
|---|---|---|---|
| driver | 3 threads, 3 iterations of every loop, ints from -8 to 9 | a third thread spins while two hand over, two readers beside the writer, the threads come back twice to each lock and barrier; `global_value` reaches the largest int | 75 188 |
| barrier | 3 threads, 10 phases, 3-bit ints | `iterations` wraps and the phases go on behind it | 28 476 |
| rwlock | 4 threads, each reader or writer at will, for ever | two readers, a waiting writer and a newcomer | 2 076 |
| lfqueue | 2 producers of 2 items, 1 consumer that runs until it finds the queue empty, malloc free to return any freed address | a queue that empties with an enqueue in progress, both retry paths, addresses that are reused | 1 320 296 |
| list | 2 heads, 3 entries | lists of 0 to 3 entries, first, middle and last positions, splice | 776 |
| pet_thread | main and 3 threads, 2 values | chains and cycles of joins with two waiters, joins and exits by main, joins of main and of a freed thread; the safety properties are proved for any number | 60 643 |
| hashtable | 3 keys, 3 entries, 3 table sizes, 1-bit values | collisions, two expansions, failure of every allocation; increments wrap | 29 778 |
| buddy | 8 minimal blocks, requests down to below the minimal order | three levels of splitting and merging | 11 195 |
| on_demand | tables of 3, 2 and 2 entries, 12 pages of which the region is 8, up to 4 ranges, requests of 0, 1 and 4 pages, a region of 6 frames that may come late, any number of processes one after the other | full space, ranges of size 0, both neighbours free; ranges that cross two levels of tables, with and without tables present; two pools, the first of which gives two frames, so that two pages hold frames of it at once, and then runs out; faults just behind a range; stale translations; a release with and without ranges left | 820 221 |
| petmem_tool | 5 blocks, regions of 2, any of them removable and any offline at the start | several restarts | 13 607 |
| lfqueue_reuse | 2 producers of 1 item | violated, see below | |
| buddy_race | 2 processes, 4 minimal blocks | violated, see below | |

The C ints are the range `INT_MIN .. INT_MAX` with wrap-around. The page tables
have `MAX_PDPE64_ENTRIES`, `MAX_PDE64_ENTRIES` and `MAX_PTE64_ENTRIES` entries
instead of 512, and the four levels stay. In `LFQueue` the consumer makes
`EMPTIES` turns of the outer loop of `dequeue_fn`, whose inner loop runs until
the queue is empty; the code makes as many turns as there are items. One turn is
enough in the run: a turn that ends changes the consumer's loop counter and
nothing else, and the turn may begin at any time.

Deadlock is checked in every run; a program that has ended takes a
stuttering step of its own (`Exited`, `Finished`, `Ended`, `Stopped`).

The program of `on_demand` touches bytes of pages of its own, the first byte of the
page just behind a range, which `vaddr_in_map` accepts too, and bytes elsewhere, for
which it is killed. Two pages can hold frames of one pool together, a stale
translation can meet the frame of another page, and a page can be mapped to what
`__pa` makes of NULL. Only one region is added in the run; `OnDemandProofs` has
`FrameExclusive` and `PoolsTileTheMemory` for any set of regions.
`strayed` remembers the pages of the second kind: no free of a range unmaps them,
and `MappedInUse` shows that nothing else stays mapped outside the ranges.

### Disagreements between the code and its comments

Two are runs, with a trace.

- `lfqueue_reuse`: the consumer frees the node that `tail`, or an `lf_enqueue`
  under way, still points to, although the comment on the extra node
  (`locking.c:332`) says that it prevents such problems. The invariants of the
  `lfqueue` run, and the theorems, hold up to the first such access.
- `buddy_race`: `petmem_ioctl` takes no lock (`main.c:256`). Two processes that
  fault at one time both find a free list not empty (`buddy.c:181`); one takes its
  only block, and the other takes the head of the list for a block. `BlockInPool`
  states the assertion at `buddy.c:21` for this.

The others are stated at the end of the modules as the comment, message or
README has them. To see a trace, name the definition in a cfg, as an INVARIANT or
(those marked *) as a PROPERTY.

| statement | module | what the code does |
|---|---|---|
| `OnlyItemsReturned` | `LFQueue` | the first dequeue returns the extra node of `lf_queue_init` (`locking.c:340`) |
| `NeverReached`*, `FinishedIsFinished`* | `PetThread` | a thread that yields alone ends `pet_thread_run` (`pet_thread.c:432`), and is later resumed at "NEVER REACHED" (434) |
| `PlanBWorks` | `Hashtable` | the realloc fallback clears memory through an uninitialised pointer (`pet_hashtable.c:263`) |
| `TagsSayAvailable` | `Buddy` | tag bits stay set after a merge (`buddy.c:240`); `FreeIsSafe` shows that no order is read from allocated memory because of it |
| `FreedPagesComeBack` | `OnDemand` | `petmem_free_pages` compares a physical with a virtual address (`main.c:73`) |
| `MappedToMemory` | `OnDemand` | the failure of a full pool is taken for a page, and later pools are not asked (`main.c:48`) |
| `UsedPagesKept`* | `OnDemand` | a skip counts too few pages, and the walk goes on into other ranges (`on_demand.c:337`); `WalkStaysInRange` shows that this is the only case |
| `InMapMeansInMap` | `MemMap` | the first byte behind a range counts as part of it (`on_demand.c:66`) |
| `FailureIsZero` | `MemMap` | failure is -1 and is tested as 0 (`main.c:160`) |
| `FreedOnce`* | `MemMap`, `OnDemand` | the release uses nodes after they were freed (`on_demand.c:44`); `CallsEnd` counts the crash as an end, and shows that the release gets through when no range is left in use |
| `StartsAgain`* | `PetmemTool` | blocks behind a refused one stay offline (`petmem.c:288`) |

## Fairness

- Lock, barrier and queue tests: weak fairness of every thread that is inside a
  call or a test function. `driver.c` pins each thread to a processor of its own
  and the threads are preempted by nobody for ever. No strong fairness: the
  spinlock is not fair, and no property says that a given thread gets it while
  others keep taking it. `DriverEnds` holds because the others stop: they
  come to the end of their loop, or to a barrier. `WriterGetsIn` starts when the writer has the mutex. A holder of the
  reader/writer lock unlocks in the end, and nobody is forced to call it.
- `Spec` of `PetThread`: a running thread other than main calls the library
  again, which is the contract of cooperative threads. Nothing is assumed of main:
  the programs in the repository call `pet_thread_run` once or twice and return.
  `EveryReadyRuns` therefore starts from a thread that is ready while a thread of the
  library runs. It leaves out threads that use `pet_thread_yield_to` for ever, which
  can pass the others by, and a thread that yields to main itself. It does not say
  that every thread gets to its end: one that yields alone is put on the ready
  list as main is resumed, and when main returns then, as in `tests/test.c`, that
  thread never runs again (`FinishedIsFinished` fails).
- `Driver`: `main` runs too. A thread that the pthread barrier holds takes no
  step until the last one has come.
- `PagingSpec`: a call into the kernel goes on once it has started; the program
  and the processor's cache are not obliged to anything. `CallsEnd` rests on this.
- `PetmemTool`: one process, which runs.

## Proofs

`tlapm M.tla` checks a module. The theorems hold for every value of the
constants under the named assumptions of the modules.

- **`LockProofs`**, spinlock: `SpinTypeOK`, `MutualExclusion`, `NoLostUpdate` for any
  set of threads. Inductive invariant: these and `SpinInv` (the word is 1 exactly
  when nobody is in the critical section; a value that has been loaded there is
  still current).
- **`LockProofs`**, barrier: `OnePhase` and `NobodyLeavesEarly`, and that the barrier
  implements `AbstractBarrier`, for any finite set of threads and any number of
  phases. `NobodyLeavesEarly` is not inductive: `OnePhase` says that there is a
  phase such that every thread is at most one call from it, that `my_iter` tells a
  thread truly whether it is released, and that `cur_count` is the number of
  threads that have arrived. The phase is existentially quantified since the code
  keeps it only modulo the width of an int.
- **`LockProofs`**, reader/writer lock: `RWTypeOK`, `WriterExclusion`,
  `ReadersCounted` and the action property `NoReaderOvertakes`, for any finite set
  of threads that an int can count. `RWInv` adds what a thread has seen while it
  holds the mutex: no writer, then no reader.
- **`DriverProofs`**: `TestsSucceed`, and `MutualExclusion`, `NobodyLeavesEarly`
  and `WriterExclusion` under the driver, for any number of threads and iterations
  whose product is an int. `DriverIInv` has one part per exercise. In the first four
  `global_value` is told by the set `Turns` of the pairs of a thread and a turn in
  which it has added: a step adds one pair, and when all threads have returned all
  pairs are there. That no thread of the barrier exercise finds another value
  between two barriers (`AllHaveAdded`) follows from `OnePhase`: a thread at the
  check has left twice as many calls as it has made turns, so that every other
  thread has made as many turns, or has added and is about to leave the second
  barrier of the turn before. In the last exercise
  `global_value` is the largest value stored so far (`Largest`) unless the writer
  holds the lock; a reader at its test holds it, so that `WriterExclusion` gives what
  the test needs. The proofs use the invariants of the three locks, which every step
  of the driver keeps. `DriverAssumption` is used by these theorems only.
- **`LFQueueEnqueueProofs`**, **`LFQueueProofs`**:
  `ListIntact`, `TailNearEnd` and `FIFO` up to the first use of a stale pointer,
  for any finite set of producers and any number of items. None is inductive. `IInv`
  adds what each thread knows at each line: the nodes from `head` on are distinct
  and linked one behind the other (`Chain`); the consumer's `p` is `head`, or a
  node just taken from the list; an enqueuer's `p`, unless it has been freed,
  leads into the list and is not ahead of `tail`; a node that is not linked yet is
  reachable from nowhere. `ProducerMoves` and `ConsumerMoves` treat the steps that
  change the locals of one thread only, and the other steps have a lemma each.
  For `FIFO` the histories are related to the list position by position
  (`Aligned`). The argument never uses that addresses differ: where it would,
  the step is one of `Dangling`.
- **`UserProofs`**, threads: `OnePlace`, `BlockedOnTheLiving`, `JoinDelivers` and
  `NoCrash`, for any number of threads and any values, with all calls of main
  among the steps. `NoCrash` says that a crash comes from an unsafe call only; the
  other three hold until the first such call. The invariant is `SafeIInv`: `IInv`
  holds as long as `unsafe` does not, and `unsafe` is never reset. None of the four is
  inductive. `IInv` says for each list which set it
  holds, each member once (`Holds`); that the waiting list of a thread is made of
  those that are blocked in a join of it, and that it has not exited (`Waits`);
  that a thread which has been woken finds the value in `return_reciever`
  (`Values`). The lemmas on lists say what `list_del_from`, an append, a concatenation
  and the loop of `__quarantine` do to `Holds`. Two lemmas, `Invoker` and
  `Resumed`, treat the end that all calls share, `__thread_invoker`; the calls then
  have one lemma each.
- **`UserProofs`**, list: `Ring` and `OneHead` for any heads and entries.
  `OneHead` is stated with an owner for every node, which makes it inductive
  without following `next`; the proof gives the new owner function for each
  operation.
- **`UserProofs`**, tool: `RegionIsRight` and `GivesUpRightly`, for any number of
  blocks, any bitmap, any blocks offline at the start and a kernel that may refuse anything. A scan does not reset
  `reg_start`. `ToolIInv` says why this does no harm: no run of blocks that starts
  before `reg_start` is long enough, and the block before it is not set. `Turn` is
  what one block does to the loop of the scan, and `AfterTurns` the loop, by
  induction on its turns.
- **`AddressSpaceProofs`**, memory map: `Contiguous`, `Combined` and the action
  property `RangesKept`, for any region, any requests and lists of any length. The
  inductive invariant is `Contiguous /\ Combined`. A split and a free with its
  merges are each described first by the list they give, node by node; that the
  new list tiles the region and keeps free ranges apart is then a lemma about
  lists. `FreePages` and `FreeLast` say which pages a free takes out of use.
- **`AddressSpaceProofs`**, page tables: lemmas about one turn of the loop of
  `petmem_free_vspace`, for tables of any size. A turn keeps the tables a tree
  (`WalkStep`). It does one of four things, the skip of a missing entry at one of
  three levels or the clearing of a PTE, and in each the index reached and the
  number of pages counted grow together. `Counts` is the relation of the
  two: the count is at most the pages passed, and equal to them when the walk is
  `Sound`. `Unmapped` says that no page between the first one and the index
  reached is mapped.
- **`BuddyProofs`**: `Partition`, `FreeIsSafe` and `AllocFailsOnlyWhenFull`, and that
  the pool implements `AbstractAllocator`, for a pool of any order and any smallest
  block. `PoolInv` adds to `Partition` what makes the free lists trustworthy: where a
  free block begins its tag bit is set and its stored order is right, where a block
  that is handed out begins the bit is clear, and no two buddies are free
  (`NoBuddies`). Of other addresses it says nothing: tag bits stay set there, and
  stored orders are stale. `BuddyBlock` is why this does no harm: a set bit inside a
  larger block is never met, because that block would overlap the one that is being
  freed. `TrimTiles` and `MergeTiles` say that the blocks which a split or a merge
  replaces have the same units. `Full` is the other use of `NoBuddies`: a block of the
  size all of which is free would have a smallest free block in it, and that one
  would have a free buddy. The power of two is a recursive function (`Powers`), about
  which `Nest`, `Siblings` and `Merged` say what the arithmetic needs.
- **`BuddyProofs`**, list of pools: `NewPools` says that the loop of `ADD_MEMORY` cuts
  a region of any size into pools that do not overlap and have all its frames, by
  induction on what is left of the region. `AllocPages` says that a page which
  `petmem_alloc_pages` gives is a frame that was free and is not any more, or is in
  no pool, and `NoPoolFound` that `petmem_free_pages` changes nothing.
- **`OnDemandProofs`**: for the composed system, with any tables, region, program
  and pools. `NoOrphan` is inductive. `Contiguous`, `Combined` and `RangesKept`
  carry over from the memory map: every step of the composition is a step of the
  map or leaves it alone, except that a fault may end the process (`PagingStep`).
  `WalkStaysInRange` rests on `WalkInv`, which adds `Counts` and `Unmapped` for the
  walk in progress, and that one call is in progress at a time. `MappedInUse`
  speaks of a program that is running, and says nothing of the middle of a
  free: `FreedInv` adds the range that has left the list and is not unmapped yet
  (`ToFree`), and that no second node starts at its address.
  `PoolsTileTheMemory` and `FrameExclusive` follow from `FrameInv`: the pools are those
  of the regions that were added, no region twice, and each pair of a page and a
  frame that the process can reach (`Mappings`) has a frame that is not free and is
  no other page's, or one of the two addresses that are in no pool. A stale
  translation does no harm since no frame is ever free again: the proof uses
  `NoPoolFound`.

The constants are only assumed to be what the code makes them: numbers are
natural, tables have at least one entry, the regions of memory do not overlap, do
not hold frame 0 and are mapped from `PAGE_OFFSET` on, which is in the upper half of
the addresses, special values such as `NONE` are none
of the ordinary ones. These assumptions are named in the modules and evaluated
by the runs.

Only model-checked:

- all liveness properties (`DriverEnds`, `Released`, `WriterGetsIn`, `AllReturn`,
  `EveryReadyRuns`, `CallsEnd`, `Ends`): fairness and ENABLED are beyond the prover
  here;
- the refinements of `List` and `Hashtable`, whose mappings follow chains or
  fold over sequences;
- the hashtable.

Where a proof needs an induction, over the turns of a loop (`AfterTurns`,
`UnlinkedHolds`) or the nodes of a list, it takes the smallest counterexample:
`<` is well-founded on the natural numbers, so a set of failing numbers has a
least member.

## Not modelled

- Hash functions, bit layout of page table entries, permission faults on present
  pages, stacks and registers, printing, logging, device registration.
- `file_io.c` and `swap.c` (unused and empty), `hlist` and `buddy_deinit` (unused).
- The fixed call sequences of the test programs of the threads and of
  `user/test.c`, and the single-threaded checks of one atomic operation in
  `driver.c`: the modules of the libraries allow every such sequence.
- Two threads of one process in its memory map at the same time, and frees that
  race with allocations in a pool. `BuddyRace` shows the first thing that goes wrong
  without a lock; `petmem_free_pages` finds no pool to free to (`main.c:73`).
- More than one consumer of the lock-free queue; its only user has one.
- `PetThread` keeps its queues as sequences. A version over the links of `List`
  would repeat what the refinement of `List` shows.
