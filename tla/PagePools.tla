----------------------------- MODULE PagePools -----------------------------
(***************************************************************************)
(* The physical memory of virtual_memory/main.c: the list of buddy pools   *)
(* that ADD_MEMORY fills and that petmem_alloc_pages and petmem_free_pages *)
(* serve.  Addresses count pages and MIN_ORDER is 0: the order of a pool   *)
(* is its order in bytes less PAGE_SHIFT.  OnDemand has the callers, the   *)
(* page fault handler and the release of virtual memory, which ask for one *)
(* page at a time.                                                         *)
(***************************************************************************)
EXTENDS BuddyPool

CONSTANTS
    Regions,        \* the <<first frame, number of pages>> the user may give
    PAGE_OFFSET,    \* where the kernel maps frame 0
    ADDRESSES       \* addresses are taken modulo this

Frames(base, num_pages) == base .. base + num_pages - 1

\* user/petmem.c gives memory it has just taken offline, never twice the same.
ASSUME LayoutAssumption ==
    /\ Regions \subseteq Nat \X Nat /\ PAGE_OFFSET \in Nat /\ ADDRESSES \in Nat
    /\ PAGE_OFFSET < ADDRESSES
    /\ \A r \in Regions : Frames(r[1], r[2]) \subseteq 1 .. ADDRESSES - PAGE_OFFSET - 1
    /\ \A q, r \in Regions : q # r => Frames(q[1], q[2]) \cap Frames(r[1], r[2]) = {}
    /\ ADDRESSES < PAGE_OFFSET + PAGE_OFFSET    \* it is in the upper half
    /\ MIN_ORDER = 0

VARIABLES
    petmem_pool_list,   \* of records [base_addr, mp]
    added               \* history: the regions given to ADD_MEMORY

pools == <<petmem_pool_list, added>>

PoolsInit ==
    /\ petmem_pool_list = <<>>
    /\ added = {}

__va(frame) == (frame + PAGE_OFFSET) % ADDRESSES
__pa(addr) == (addr - PAGE_OFFSET) % ADDRESSES

\* fls(num_pages) - 1: the order of the largest pool that fits.
highest_order(num_pages) ==
    CHOOSE b \in 0 .. num_pages : pow2[b] <= num_pages /\ num_pages < pow2[b + 1]

\* A mistaken ADD_MEMORY that does not move on to the rest of the range.
new_pool_at_base(base, num_pages, rest) ==
    LET order == highest_order(rest)
    IN [base_addr |-> __va(base), mp |-> buddy_free(buddy_init(order), 0, order)]

\* One turn of the loop of ADD_MEMORY, when rest pages of the range are left:
\* their largest pool, all of it free.
new_pool(base, num_pages, rest) ==
    LET order == highest_order(rest)
    IN [base_addr |-> __va(base + (num_pages - rest)),
        mp |-> buddy_free(buddy_init(order), 0, order)]

\* The pools that the loop adds, every one at the list's head.
new_pools(base, num_pages) ==
    LET loop[rest \in 0 .. num_pages] ==
            IF rest = 0 THEN <<>>
            ELSE Append(loop[rest - pow2[highest_order(rest)]], new_pool(base, num_pages, rest))
    IN loop[num_pages]

ADD_MEMORY(base, num_pages) ==
    /\ petmem_pool_list' = new_pools(base, num_pages) \o petmem_pool_list
    /\ added' = added \cup {<<base, num_pages>>}

\* The physical address that a pool gives for one page.  Of NULL too: __pa is
\* applied before the test.
paddr(pool) ==
    LET block == buddy_alloc(pool.mp, 0).block
    IN __pa(IF block = NULL THEN 0 ELSE block + pool.base_addr)

\* A mistaken petmem_alloc_pages that looks at the block and does not take it.
petmem_alloc_pages_peek(list) ==
    LET serve == {k \in DOMAIN list : paddr(list[k]) # 0}
    IN [page |-> IF serve = {} THEN 0 ELSE paddr(list[Min(serve)]), list |-> list]

\* petmem_alloc_pages(1): the first pool with an address that is not 0.
petmem_alloc_pages(list) ==
    LET serve == {k \in DOMAIN list : paddr(list[k]) # 0}
    IN IF serve = {} THEN [page |-> 0, list |-> list]
       ELSE [page |-> paddr(list[Min(serve)]),
             list |-> [list EXCEPT ![Min(serve)].mp = buddy_alloc(@, 0).pool]]

\* petmem_free_pages(page, 1) compares a physical address with base_addr, which
\* is a virtual one.
petmem_free_pages(list, page) ==
    LET in == {k \in DOMAIN list : /\ page >= list[k].base_addr
                                   /\ page < list[k].base_addr + pow2[list[k].mp.pool_order]}
    IN IF in = {} THEN list
       ELSE [list EXCEPT ![Min(in)].mp = buddy_free(@, __va(page) - list[Min(in)].base_addr, 0)]

-----------------------------------------------------------------------------
Added == UNION {Frames(r[1], r[2]) : r \in added}

PoolFrames(pool) == Frames(__pa(pool.base_addr), pow2[pool.mp.pool_order])

FreeFrames(pool) ==
    UNION {UNION {Units(__pa(pool.base_addr) + b, k) : b \in Range(pool.mp.avail[k])} :
              k \in DOMAIN pool.mp.avail}

\* ADD_MEMORY cuts a region into pools that do not overlap and leaves no page
\* of it out.
PoolsTileTheMemory ==
    /\ \A j, k \in DOMAIN petmem_pool_list :
          j # k => PoolFrames(petmem_pool_list[j]) \cap PoolFrames(petmem_pool_list[k]) = {}
    /\ UNION {PoolFrames(petmem_pool_list[k]) : k \in DOMAIN petmem_pool_list} = Added
=============================================================================
