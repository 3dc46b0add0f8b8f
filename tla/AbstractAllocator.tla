------------------------- MODULE AbstractAllocator -------------------------
(***************************************************************************)
(* What an allocator of power-of-two blocks promises its callers: a block  *)
(* is aligned to its size, lies in the pool and overlaps no block that is  *)
(* still out.  A failed request is a stuttering step here; that it fails   *)
(* only when nothing fits is an invariant of the implementation.           *)
(***************************************************************************)
EXTENDS Powers

CONSTANTS POOL_ORDER, MIN_ORDER

VARIABLE owned       \* the <<address, order>> of the blocks handed out

Units(addr, order) == addr .. addr + pow2[order] - 1

\* The aligned blocks of an order that overlap nothing handed out.
Available(order) ==
    {addr \in 0 .. pow2[POOL_ORDER] - 1 :
        /\ addr % pow2[order] = 0
        /\ \A b \in owned : Units(addr, order) \cap Units(b[1], b[2]) = {}}

Alloc(order) == \E addr \in Available(order) : owned' = owned \cup {<<addr, order>>}

Free(b) == owned' = owned \ {b}

Init == owned = {}

Next ==
    \/ \E order \in MIN_ORDER .. POOL_ORDER : Alloc(order)
    \/ \E b \in owned : Free(b)

Spec == Init /\ [][Next]_owned
=============================================================================
