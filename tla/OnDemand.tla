------------------------------ MODULE OnDemand ------------------------------
(***************************************************************************)
(* Demand paging: the memory map (MemMap) and the physical memory          *)
(* (PagePools) with the page tables of the process, the processor's        *)
(* translation cache, the page fault handler, the release of pages and the *)
(* release of the process of virtual_memory/on_demand.c.                   *)
(*                                                                         *)
(* One process at a time has the device open.  It ends, of its own accord  *)
(* or by a SIGSEGV that the handler does not serve, and its tables with    *)
(* it; the memory in the pools stays for the next one.                     *)
(***************************************************************************)
EXTENDS MemMap, PageTables, PagePools

CONSTANT Touched        \* the pages the program may touch

ASSUME TouchedAssumption ==
    /\ PETMEM_REGION_START % PDPE_PAGES = 0
    /\ PETMEM_REGION_END <= PML_PAGES
    /\ PML_PAGES <= PAGE_OFFSET
    /\ Touched \subseteq Page

\* Where petmem_free_vspace is in the tables: the indices and the pages it has
\* counted, and as history where it began and whether that was Sound.
WalkPosition ==
    [pml : Nat, pdpe : Nat, pde : Nat, pte : Nat, freed : Int, from : Nat, sound : BOOLEAN]

ASSUME NoneAssumption == NONE \notin WalkPosition

VARIABLES
    present,            \* the entries whose present bit is set
    page_base_addr,     \* the frame in the PTE of a page, 0 when it is not present
    tlb,                \* the <<page, frame>> translations the processor holds
    walk,               \* where petmem_free_vspace is in the tables, or NONE
    strayed             \* history: pages that were mapped while they were not in use

tables == <<present, page_base_addr>>
all_vars == <<vars, pools, tables, tlb, walk, strayed>>

PresentPages == {p \in Page : Path(p) \in present}

InUsePages == UNION {r[1] .. r[1] + r[2] - 1 : r \in InUse(map)}

-----------------------------------------------------------------------------
\* The program runs: it is in no call.
Running == phase = "open" /\ freeing = NONE /\ walk = NONE

\* petmem_handle_pagefault for a page in the map whose PTE is not present:
\* the tables on the way that are missing are new and zeroed.  The result of
\* petmem_alloc_pages is not looked at.
petmem_handle_pagefault(p) ==
    LET missing == Above(Path(p)) \ present
        taken == petmem_alloc_pages(petmem_pool_list)
    IN /\ present' = {e \in present : Above(e) \cap missing = {}} \cup missing \cup {Path(p)}
       /\ page_base_addr' = [page_base_addr EXCEPT ![p] = taken.page]
       /\ petmem_pool_list' = taken.list
       /\ strayed' = IF p \in InUsePages THEN strayed ELSE strayed \cup {p}

\* The program touches a byte of a page that has no translation and is not
\* mapped: segv_handler of user/harness.c makes the PAGE_FAULT ioctl, and kills
\* the process when that fails.  When get_zeroed_page has no page for a table,
\* the handler goes on to an entry of a table at a null pointer.
PAGE_FAULT(p) ==
    /\ Running
    /\ p \notin PresentPages /\ p \notin {e[1] : e \in tlb}
    /\ \E offset \in {0, 1} :
          \/ /\ vaddr_in_map(p, offset)
             /\ petmem_handle_pagefault(p)
             /\ UNCHANGED phase
          \/ /\ vaddr_in_map(p, offset) /\ ~ (Above(Path(p)) \subseteq present)
             /\ phase' = "crashed"
             /\ UNCHANGED <<tables, petmem_pool_list, strayed>>
          \/ /\ ~ vaddr_in_map(p, offset)
             /\ phase' = "deinit"
             /\ UNCHANGED <<tables, petmem_pool_list, strayed>>
    /\ result' = 0
    /\ UNCHANGED <<map, freeing, num_pages_to_free, added, tlb, walk>>

\* The program touches a page that is mapped: the processor reads the tables
\* and keeps the translation, which it uses as long as it has it.
tlb_fill(p) ==
    /\ Running
    /\ p \in PresentPages /\ p \notin {e[1] : e \in tlb}
    /\ tlb' = tlb \cup {<<p, page_base_addr[p]>>}
    /\ UNCHANGED <<vars, pools, tables, walk, strayed>>

\* invlpg: the translation of one address is forgotten.
invlpg(translations, addr) == {e \in translations : e[1] # addr}

\* The INVALIDATE_PAGE ioctl of pet_invlpg; a processor may also drop a
\* translation at any time.
INVALIDATE_PAGE(p) ==
    /\ Running
    /\ p \in {e[1] : e \in tlb}
    /\ tlb' = invlpg(tlb, p)
    /\ UNCHANGED <<vars, pools, tables, walk, strayed>>

-----------------------------------------------------------------------------
\* The skip of a missing page directory counts too few pages when the walk
\* begins in the middle of a page table.
Sound(p) == SubSeq(Path(p), 1, 2) \in present \/ p % MAX_PTE64_ENTRIES = 0

Walk(p) == [pml |-> Path(p)[1], pdpe |-> Path(p)[2], pde |-> Path(p)[3], pte |-> Path(p)[4],
            freed |-> 0, from |-> p, sound |-> Sound(p)]

\* The list has been walked: on to the tables.
walk_begin ==
    /\ free_end
    /\ walk' = Walk(freeing)
    /\ UNCHANGED <<tables, pools, tlb, strayed>>

\* A turn clears one PTE at most.  Its frame goes to petmem_free_pages; invlpg
\* is given the kernel's address of the frame.
walk_next ==
    /\ walk # NONE /\ walk.freed < num_pages_to_free
    /\ \E t \in {walk_step([pml |-> walk.pml, pdpe |-> walk.pdpe, pde |-> walk.pde,
                            pte |-> walk.pte, freed |-> walk.freed, present |-> present])} :
       \E cleared \in {{p \in PresentPages : Path(p) \notin t.present}} :
          /\ walk' = [walk EXCEPT !.pml = t.pml, !.pdpe = t.pdpe, !.pde = t.pde, !.pte = t.pte,
                                  !.freed = t.freed]
          /\ present' = t.present
          /\ page_base_addr' = [p \in Page |-> IF p \in cleared THEN 0 ELSE page_base_addr[p]]
          /\ \/ cleared = {} /\ UNCHANGED <<petmem_pool_list, tlb>>
             \/ \E p \in cleared :
                   /\ petmem_pool_list' = petmem_free_pages(petmem_pool_list, page_base_addr[p])
                   /\ tlb' = invlpg(tlb, __va(page_base_addr[p]))
          /\ strayed' = strayed \ cleared
    /\ UNCHANGED <<vars, added>>

walk_end ==
    /\ phase = "open"
    /\ walk # NONE /\ walk.freed >= num_pages_to_free
    /\ walk' = NONE
    /\ num_pages_to_free' = 0
    /\ UNCHANGED <<map, freeing, phase, result, tables, pools, tlb, strayed>>

-----------------------------------------------------------------------------
\* One turn of petmem_deinit_process, for an allocated node: its pages are
\* unmapped ...
deinit_walk ==
    /\ phase = "deinit" /\ walk = NONE
    /\ map # <<>> /\ map[1].allocated
    /\ num_pages_to_free' = map[Max({i \in DOMAIN map : allocated_at(i, map[1].start)})].size
    /\ walk' = Walk(map[1].start)
    /\ UNCHANGED <<map, freeing, phase, result, tables, pools, tlb, strayed>>

\* ... and then the node is unlinked and freed, as one that is not allocated is
\* at once.
deinit_node ==
    /\ petmem_deinit_node
    /\ IF map[1].allocated THEN walk # NONE /\ walk.freed >= num_pages_to_free ELSE walk = NONE
    /\ walk' = NONE
    /\ UNCHANGED <<tables, pools, tlb, strayed>>

\* petmem_open by a process that has a PML of its own.
paging_open ==
    /\ petmem_init_process
    /\ present' = {}
    /\ page_base_addr' = [p \in Page |-> 0]
    /\ tlb' = {}
    /\ strayed' = {}
    /\ UNCHANGED <<pools, walk>>

PagingInit ==
    /\ Init
    /\ PoolsInit
    /\ present = {}
    /\ page_base_addr = [p \in Page |-> 0]
    /\ tlb = {}
    /\ walk = NONE
    /\ strayed = {}

\* The steps that the program decides to take.
ProgramStep ==
    \/ paging_open
    \/ /\ walk = NONE
       /\ \/ \E n \in Requests : LAZY_ALLOC(n)
          \/ \E vaddr \in Address : LAZY_FREE(vaddr)
          \/ release
       /\ UNCHANGED <<tables, pools, tlb, walk, strayed>>
    \/ \E p \in Touched : PAGE_FAULT(p) \/ tlb_fill(p) \/ INVALIDATE_PAGE(p)
    \/ /\ \E r \in Regions \ added : ADD_MEMORY(r[1], r[2])
       /\ UNCHANGED <<vars, tables, tlb, walk, strayed>>

\* The steps of a call that is in progress.
CallStep ==
    \/ /\ \/ \E i \in DOMAIN map : free_node(i)
          \/ petmem_deinit_head
       /\ UNCHANGED <<tables, pools, tlb, walk, strayed>>
    \/ walk_begin \/ walk_next \/ walk_end
    \/ deinit_walk \/ deinit_node

Stopped == phase = "crashed" /\ UNCHANGED all_vars

PagingNext == ProgramStep \/ CallStep \/ Stopped

\* A call into the kernel keeps running; nothing makes the program do anything.
PagingSpec == PagingInit /\ [][PagingNext]_all_vars /\ WF_all_vars(CallStep)

-----------------------------------------------------------------------------
PagingTypeOK ==
    /\ page_base_addr \in [Page -> 0 .. ADDRESSES - 1]
    /\ tlb \subseteq Page \X (0 .. ADDRESSES - 1)
    /\ walk # NONE => {walk.pml, walk.pdpe, walk.pde, walk.pte} \subseteq Nat
    /\ strayed \subseteq PresentPages

\* No table is freed while it has entries: an entry that is present lies on
\* the way to a page of the process, and all of that way above it is present.
NoOrphan ==
    /\ present \subseteq {SubSeq(Path(p), 1, k) : p \in Page, k \in 1 .. 4}
    /\ \A e \in present : Above(e) \subseteq present

\* When petmem_free_vspace has returned no page is mapped that the program
\* does not own, but for those it was given by a fault just behind a range of
\* its own: the walk does not stop short.
MappedInUse == Running => PresentPages \subseteq InUsePages \cup strayed

\* Two pages never share a frame of a pool, whether they are mapped or the
\* processor still holds the translation of a mapping that is gone, and a
\* frame that is mapped or can still be reached is not free in its pool.
FrameExclusive ==
    LET reached == {<<p, page_base_addr[p]>> : p \in PresentPages} \cup tlb
    IN PagingTypeOK /\ \A e \in reached :
          /\ e[2] \in Added => \A f \in reached : f[2] = e[2] => f[1] = e[1]
          /\ \A k \in DOMAIN petmem_pool_list : e[2] \notin FreeFrames(petmem_pool_list[k])

\* petmem_free_vspace unmaps pages of the range it frees only, whichever of
\* the tables exist, unless the page directory of the first page is missing
\* and that page is not the first of a page table.
WalkStaysInRange ==
    [][walk # NONE /\ walk.sound
          => \A p \in PresentPages : Path(p) \notin present' =>
                p \in walk.from .. walk.from + num_pages_to_free - 1]_all_vars

\* petmem_free_vspace and petmem_release come to an end, and petmem_release
\* gets through without a crash when the program has freed all its ranges.
CallsEnd ==
    /\ walk # NONE \/ freeing # NONE \/ phase = "deinit"
          ~> walk = NONE /\ freeing = NONE /\ phase # "deinit"
    /\ phase = "deinit" /\ InUse(map) = {} ~> phase = "closed"

-----------------------------------------------------------------------------
\* "correctly freeing pages as they are no longer needed" (README.md):
\* petmem_free_vspace unmaps no page that is still in use.
UsedPagesKept ==
    [][walk # NONE => \A p \in InUsePages : Path(p) \in present => Path(p) \in present']_all_vars

\* ... and a page that is no longer mapped can be allocated again.
FreedPagesComeBack ==
    \A f \in Added :
        \/ \E p \in PresentPages : page_base_addr[p] = f
        \/ \E k \in DOMAIN petmem_pool_list : f \in FreeFrames(petmem_pool_list[k])

\* "Failed to allocate" is printed and 0 returned when there is no page: a
\* page that is mapped has a frame of a pool.
MappedToMemory == \A p \in PresentPages : page_base_addr[p] \in Added
=============================================================================
