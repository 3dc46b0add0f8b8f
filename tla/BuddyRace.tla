----------------------------- MODULE BuddyRace -----------------------------
(***************************************************************************)
(* Page faults of several processes at one time.  PAGE_FAULT comes in      *)
(* through unlocked_ioctl, and nothing on the way to buddy_alloc takes a   *)
(* lock, so that the steps of buddy_alloc on one pool interleave.  Each    *)
(* asks for one page, the smallest block.  A list operation and a trim are *)
(* one step here; the code makes several of each.                          *)
(*                                                                         *)
(* Nothing is freed: petmem_free_pages does not find the pool of a page    *)
(* (PagePools).                                                            *)
(***************************************************************************)
EXTENDS BuddyPool, SequencesExt

CONSTANTS
    POOL_ORDER,     \* MIN_ORDER or more
    Process,
    HEAD            \* the address of mp->avail[j], taken for that of a block

VARIABLES
    mp,             \* the pool
    apc,            \* where each process is in buddy_alloc
    j, block,       \* the locals of buddy_alloc
    mapped          \* the pages each process has got

race_vars == <<mp, apc, j, block, mapped>>

RaceInit ==
    /\ mp = buddy_free(buddy_init(POOL_ORDER), 0, POOL_ORDER)
    /\ apc = [t \in Process |-> "out"]
    /\ j = [t \in Process |-> MIN_ORDER]
    /\ block = [t \in Process |-> NULL]
    /\ mapped = [t \in Process |-> {}]

Goto(t, label) == apc' = [apc EXCEPT ![t] = label]

\* A page fault: petmem_alloc_pages calls buddy_alloc.
alloc_call(t) ==
    /\ apc[t] = "out"
    /\ j' = [j EXCEPT ![t] = MIN_ORDER]
    /\ block' = [block EXCEPT ![t] = NULL]
    /\ Goto(t, "list")
    /\ UNCHANGED <<mp, mapped>>

\* The loop, as far as list_empty(list).
alloc_list(t) ==
    /\ apc[t] = "list"
    /\ IF j[t] > POOL_ORDER THEN Goto(t, "out") /\ UNCHANGED j
       ELSE IF mp.avail[j[t]] = <<>> THEN j' = [j EXCEPT ![t] = @ + 1] /\ UNCHANGED apc
       ELSE Goto(t, "first") /\ UNCHANGED j
    /\ UNCHANGED <<mp, block, mapped>>

\* block = list_entry(list->next, ...): the head of an empty list is its own next.
alloc_first(t) ==
    /\ apc[t] = "first"
    /\ block' = [block EXCEPT ![t] = IF mp.avail[j[t]] = <<>> THEN HEAD ELSE Head(mp.avail[j[t]])]
    /\ Goto(t, "del")
    /\ UNCHANGED <<mp, j, mapped>>

\* list_del(&block->link).  The links of a block that another process has
\* already removed are poisoned, and the access ends the process.  (That the
\* head's own links are poisoned is not kept: BUG_ON is next for its process.)
alloc_del(t) ==
    /\ apc[t] = "del"
    /\ Goto(t, IF block[t] = HEAD \/ block[t] \in ToSet(mp.avail[j[t]]) THEN "mark" ELSE "oops")
    /\ mp' = [mp EXCEPT !.avail[j[t]] = Remove(@, block[t])]
    /\ UNCHANGED <<j, block, mapped>>

\* mark_allocated, and in it the BUG_ON of block_to_id.
alloc_mark(t) ==
    /\ apc[t] = "mark"
    /\ IF block[t] = HEAD THEN Goto(t, "BUG") /\ UNCHANGED mp
       ELSE Goto(t, "trim") /\ mp' = [mp EXCEPT !.tag_bits = mark_allocated(@, block[t])]
    /\ UNCHANGED <<j, block, mapped>>

\* One turn of the loop that gives the upper halves back, or the return.
alloc_trim(t) ==
    /\ apc[t] = "trim"
    /\ IF j[t] > MIN_ORDER
       THEN /\ mp' = trim(mp, block[t], j[t], j[t] - 1)
            /\ j' = [j EXCEPT ![t] = @ - 1]
            /\ UNCHANGED <<apc, mapped>>
       ELSE /\ mapped' = [mapped EXCEPT ![t] = @ \cup {block[t]}]
            /\ mp' = [mp EXCEPT !.order[block[t]] = Unknown]
            /\ Goto(t, "out")
            /\ UNCHANGED j
    /\ UNCHANGED block

RaceNext ==
    \E t \in Process :
        \/ alloc_call(t) \/ alloc_list(t) \/ alloc_first(t)
        \/ alloc_del(t) \/ alloc_mark(t) \/ alloc_trim(t)

RaceSpec == RaceInit /\ [][RaceNext]_race_vars

-----------------------------------------------------------------------------
\* "BUG_ON(block_id >= mp->num_blocks)" (block_to_id of buddy.c): what
\* buddy_alloc takes off a free list is a block of the pool.
BlockInPool == \A t \in Process : apc[t] # "BUG"
=============================================================================
