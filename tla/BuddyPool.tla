----------------------------- MODULE BuddyPool -----------------------------
(***************************************************************************)
(* The operations of virtual_memory/buddy.c, as operators from a pool to a *)
(* pool: Buddy has the specification of one pool and its callers,          *)
(* PagePools that of the list of pools.  Addresses are relative to the     *)
(* base address of the pool.                                               *)
(*                                                                         *)
(* struct block is overlaid on free memory: "order" holds that word for    *)
(* every block.  When a block is handed out its words belong to the        *)
(* caller, who may write anything to them: their value is then Unknown.    *)
(***************************************************************************)
EXTENDS Powers, Sequences, FiniteSetsExt

CONSTANTS
    MIN_ORDER,      \* the smallest block has 2^MIN_ORDER units
    NULL, Unknown

ASSUME BlockAssumption == MIN_ORDER \in Nat /\ NULL \notin Nat /\ Unknown \notin Nat

\* Addresses that have a tag bit.
Blocks(pool_order) == {b \in 0 .. pow2[pool_order] - 1 : b % pow2[MIN_ORDER] = 0}

Units(addr, order) == addr .. addr + pow2[order] - 1

\* "Fixup requested order to be at least the minimum supported."
fixup(order) == IF order < MIN_ORDER THEN MIN_ORDER ELSE order

buddy_init(pool_order) ==
    [pool_order |-> pool_order,
     avail      |-> [j \in 0 .. pool_order |-> <<>>],
     tag_bits   |-> {},
     order      |-> [b \in Blocks(pool_order) |-> Unknown]]

is_available(pool, block) == block \in pool.tag_bits

\* The bit of the block's size flipped.
find_buddy(block, order) ==
    IF (block \div pow2[order]) % 2 = 0 THEN block + pow2[order] ELSE block - pow2[order]

-----------------------------------------------------------------------------
mark_available(tag_bits, block) == tag_bits \cup {block}

\* A mistaken mark_allocated that leaves the bit set.
mark_allocated_lost(tag_bits, block) == tag_bits

mark_allocated(tag_bits, block) == tag_bits \ {block}

\* The orders whose list can serve a request.
candidates(pool, order) == {j \in order .. pool.pool_order : pool.avail[j] # <<>>}

\* A mistaken trim that keeps the lower halves on the lists.
trim_lower(pool, block, j, order) ==
    LET upper(k) == block
        trimmed == order .. j - 1
    IN [pool EXCEPT
           !.avail = [k \in DOMAIN @ |-> IF k \in trimmed THEN <<upper(k)>> \o @[k] ELSE @[k]],
           !.tag_bits = @ \cup {upper(k) : k \in trimmed}]

\* "Trim if a higher order block than necessary was allocated": the upper
\* halves of a block of order j go to the lists of their orders.
trim(pool, block, j, order) ==
    LET upper(k) == block + pow2[k]
        trimmed == order .. j - 1
    IN [pool EXCEPT
           !.avail = [k \in DOMAIN @ |-> IF k \in trimmed THEN <<upper(k)>> \o @[k] ELSE @[k]],
           !.tag_bits = @ \cup {upper(k) : k \in trimmed},
           !.order = [b \in DOMAIN @ |-> LET of == {k \in trimmed : upper(k) = b}
                                         IN IF of = {} THEN @[b] ELSE CHOOSE k \in of : TRUE]]

\* buddy_alloc takes the first block of the first order that has one; the
\* words of what it returns belong to the caller from then on.
buddy_alloc(pool, order) ==
    LET o == fixup(order)
        j == Min(candidates(pool, o))
        block == Head(pool.avail[j])
        taken == [pool EXCEPT !.avail[j] = Tail(@),
                              !.tag_bits = mark_allocated(@, block),
                              !.order = [b \in DOMAIN @ |-> IF b \in Units(block, o) THEN Unknown
                                                            ELSE @[b]]]
    IN IF candidates(pool, o) = {} THEN [block |-> NULL, pool |-> pool]
       ELSE [block |-> block, pool |-> trim(taken, block, j, o)]

-----------------------------------------------------------------------------
\* What a free block at addr has become when it has been merged up to order k.
merged(addr, k) == addr - (addr % pow2[k])

\* A mistaken check that does not compare the sizes.
mergeable_any_order(pool, addr, k) ==
    /\ k < pool.pool_order
    /\ is_available(pool, find_buddy(merged(addr, k), k))

\* A mistaken bound of the merge loop, one order short of the pool.
mergeable_short(pool, addr, k) ==
    LET buddy == find_buddy(merged(addr, k), k)
    IN /\ k < pool.pool_order - 1
       /\ is_available(pool, buddy)
       /\ pool.order[buddy] = k

\* "Make sure buddy is available and has the same size as us."
mergeable(pool, addr, k) ==
    LET buddy == find_buddy(merged(addr, k), k)
    IN /\ k < pool.pool_order
       /\ is_available(pool, buddy)
       /\ pool.order[buddy] = k

\* The order at which merging stops.
last_order(pool, addr, o) == Min({k \in o .. pool.pool_order : ~ mergeable(pool, addr, k)})

\* The list without the block b.
list_del(list, b) ==
    LET at == CHOOSE k \in 1 .. Len(list) : list[k] = b
    IN IF b \notin Range(list) THEN list
       ELSE [k \in 1 .. Len(list) - 1 |-> IF k < at THEN list[k] ELSE list[k + 1]]

\* buddy_free: the buddies leave their lists, the merged block joins the one
\* of its order.  The tag bits of buddies above the block are not cleared.
buddy_free(pool, addr, order) ==
    LET o == fixup(order)
        last == last_order(pool, addr, o)
        written(b) == {k \in o .. last : merged(addr, k) = b /\ (k > o \/ k = last)}
    IN [pool EXCEPT
           !.avail = [k \in DOMAIN @ |->
                         IF k \in o .. last - 1 THEN list_del(@[k], find_buddy(merged(addr, k), k))
                         ELSE IF k = last THEN <<merged(addr, k)>> \o @[k]
                         ELSE @[k]],
           !.tag_bits = mark_available(@, merged(addr, last)),
           !.order = [b \in DOMAIN @ |-> IF written(b) = {} THEN @[b] ELSE Max(written(b))]]
=============================================================================
