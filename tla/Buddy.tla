------------------------------- MODULE Buddy -------------------------------
(***************************************************************************)
(* One pool of the buddy allocator and the callers that hold its blocks.   *)
(***************************************************************************)
EXTENDS BuddyPool

CONSTANT POOL_ORDER     \* the pool has 2^POOL_ORDER units of memory

ASSUME OrderAssumption == POOL_ORDER \in Nat /\ MIN_ORDER <= POOL_ORDER

VARIABLES
    mp,             \* the pool
    allocated       \* the <<address, order>> of the blocks the callers hold

buddy_vars == <<mp, allocated>>

\* The pool as ADD_MEMORY leaves it: one block of the highest order.
BuddyInit ==
    /\ mp = buddy_free(buddy_init(POOL_ORDER), 0, POOL_ORDER)
    /\ allocated = {}

Alloc(order) ==
    LET r == buddy_alloc(mp, order)
    IN /\ mp' = r.pool
       /\ allocated' = IF r.block = NULL THEN allocated
                       ELSE allocated \cup {<<r.block, fixup(order)>>}

Free(b) ==
    /\ mp' = buddy_free(mp, b[1], b[2])
    /\ allocated' = allocated \ {b}

BuddyNext ==
    \/ \E order \in 0 .. POOL_ORDER : Alloc(order)
    \/ \E b \in allocated : Free(b)

BuddySpec == BuddyInit /\ [][BuddyNext]_buddy_vars

-----------------------------------------------------------------------------
FreeBlocks == UNION {{<<b, k>> : b \in Range(mp.avail[k])} : k \in DOMAIN mp.avail}

BuddyTypeOK ==
    /\ mp.pool_order = POOL_ORDER
    /\ mp.avail \in [0 .. POOL_ORDER -> Seq(Blocks(POOL_ORDER))]
    /\ mp.tag_bits \subseteq Blocks(POOL_ORDER)
    /\ mp.order \in [Blocks(POOL_ORDER) -> (0 .. POOL_ORDER) \cup {Unknown}]
    /\ allocated \subseteq Blocks(POOL_ORDER) \X (MIN_ORDER .. POOL_ORDER)

\* The blocks on the free lists and the blocks handed out are aligned, do not
\* overlap, and together are the whole pool: nothing is handed out twice and
\* nothing is lost.
Partition ==
    LET all == FreeBlocks \cup allocated
    IN /\ BuddyTypeOK
       /\ \A k \in DOMAIN mp.avail : IsInjective(mp.avail[k])
       /\ FreeBlocks \cap allocated = {}
       /\ \A a, b \in all : a # b => Units(a[1], a[2]) \cap Units(b[1], b[2]) = {}
       /\ \A a \in all : a[1] % pow2[a[2]] = 0
       /\ UNION {Units(a[1], a[2]) : a \in all} = 0 .. pow2[POOL_ORDER] - 1

\* A caller can free its block at any time: BUG_ON(is_available(mp, block)) does
\* not stop it, although tag bits of merged buddies stay set inside larger
\* blocks, and while it merges buddy_free reads the order word of free blocks
\* only, never one that lies in memory a caller owns.
FreeIsSafe ==
    \A b \in allocated :
        /\ ~ is_available(mp, b[1])
        /\ \A k \in b[2] .. last_order(mp, b[1], b[2]) :
              LET buddy == find_buddy(merged(b[1], k), k)
              IN k < POOL_ORDER /\ is_available(mp, buddy) => \E f \in FreeBlocks : f[1] = buddy

\* buddy_alloc returns NULL only when no aligned block of the size is free.
AllocFailsOnlyWhenFull ==
    \A order \in MIN_ORDER .. POOL_ORDER :
        buddy_alloc(mp, order).block = NULL =>
            \A addr \in {a \in Blocks(POOL_ORDER) : a % pow2[order] = 0} :
                \E b \in allocated : Units(addr, order) \cap Units(b[1], b[2]) # {}

\* "0 = block is allocated, 1 = block is available" (the comment on tag_bits):
\* no block inside memory that is handed out has its bit set.
TagsSayAvailable ==
    \A b \in allocated : Units(b[1], b[2]) \cap mp.tag_bits = {}

\* The pool keeps the promise of an allocator: buddy_alloc and buddy_free are
\* steps of AbstractAllocator.
Abstract == INSTANCE AbstractAllocator WITH owned <- allocated
Refinement == Abstract!Spec
=============================================================================
