------------------------------- MODULE MemMap -------------------------------
(***************************************************************************)
(* The memory map of virtual_memory/on_demand.c: the list of the allocated *)
(* and the free ranges of a process's part of the address space.  The list *)
(* is a sequence without its head, whose "allocated" is -1 and which       *)
(* therefore never takes part in a merge.  Addresses and sizes count       *)
(* pages.                                                                  *)
(*                                                                         *)
(* A process makes one ioctl at a time.  petmem_free_vspace frees one node *)
(* of the list per step, since its loop goes on after a match.             *)
(***************************************************************************)
EXTENDS Integers, Sequences

CONSTANTS
    PETMEM_REGION_START, PETMEM_REGION_END,
    Requests,           \* the numbers of pages that are asked for
    MAX_NODES,          \* bound on the length of the list
    NONE

ASSUME RegionAssumption ==
    /\ PETMEM_REGION_START \in Nat \ {0}
    /\ PETMEM_REGION_END \in Nat
    /\ PETMEM_REGION_START < PETMEM_REGION_END
    /\ Requests \subseteq Nat
    /\ MAX_NODES \in Nat
    /\ NONE \notin Nat

Address == PETMEM_REGION_START .. PETMEM_REGION_END

VARIABLES
    map,                \* the nodes, in list order
    freeing,            \* the address petmem_free_vspace is at, or NONE
    num_pages_to_free,
    phase,              \* "closed", "open", "deinit", or "crashed" after a double
                        \* kfree or a page table at a null pointer
    result              \* what the last call gave the program: an address, -1 or 0

vars == <<map, freeing, num_pages_to_free, phase, result>>

Node(start, size, allocated) == [start |-> start, size |-> size, allocated |-> allocated]

Init ==
    /\ map = <<>>
    /\ freeing = NONE
    /\ num_pages_to_free = 0
    /\ phase = "closed"
    /\ result = 0

\* petmem_open: one free node.
petmem_init_process ==
    /\ phase = "closed"
    /\ phase' = "open"
    /\ map' = <<Node(PETMEM_REGION_START, PETMEM_REGION_END - PETMEM_REGION_START, FALSE)>>
    /\ UNCHANGED <<freeing, num_pages_to_free, result>>

\* The end of a node is taken to be inside: the first byte (offset 0) of the
\* page behind it, and no other byte (offset 1) of that page.
vaddr_in_map(vaddr, offset) ==
    \E i \in DOMAIN map :
        map[i].allocated /\ vaddr >= map[i].start /\ vaddr + offset <= map[i].start + map[i].size

-----------------------------------------------------------------------------
\* A mistaken split that forgets to make the allocated node smaller.
split_large(i, n) ==
    [k \in 1 .. Len(map) + 1 |->
        IF k < i THEN map[k]
        ELSE IF k = i THEN Node(map[i].start, map[i].size, TRUE)
        ELSE IF k = i + 1 THEN Node(map[i].start + n, map[i].size - n, FALSE)
        ELSE map[k - 1]]

\* Node i becomes an allocated node of n pages, and what is left of it a new
\* free node behind it.
split(i, n) ==
    [k \in 1 .. Len(map) + 1 |->
        IF k < i THEN map[k]
        ELSE IF k = i THEN Node(map[i].start, n, TRUE)
        ELSE IF k = i + 1 THEN Node(map[i].start + n, map[i].size - n, FALSE)
        ELSE map[k - 1]]

\* A mistaken test that takes allocated nodes too.
fits_any(i, n) == map[i].size >= n

fits(i, n) == ~ map[i].allocated /\ map[i].size >= n

\* petmem_alloc_vspace at node i, the first one that fits.
petmem_alloc_vspace(i, n) ==
    /\ fits(i, n)
    /\ \A k \in 1 .. i - 1 : ~ fits(k, n)
    /\ map' = split(i, n)
    /\ result' = map[i].start

\* LAZY_ALLOC.  petmem_alloc_vspace returns -1 when nothing fits; the ioctl
\* tests for 0 and hands the -1 to the user.
LAZY_ALLOC(n) ==
    /\ phase = "open" /\ freeing = NONE
    /\ Len(map) < MAX_NODES
    /\ \/ \E i \in DOMAIN map : petmem_alloc_vspace(i, n)
       \/ /\ \A i \in DOMAIN map : ~ fits(i, n)
          /\ result' = -1
          /\ UNCHANGED map
    /\ UNCHANGED <<freeing, num_pages_to_free, phase>>

-----------------------------------------------------------------------------
\* The nodes that petmem_free_vspace looks for.
allocated_at(i, vaddr) == map[i].start = vaddr /\ map[i].allocated

is_free(i) == i \in DOMAIN map /\ ~ map[i].allocated

without(i) == [k \in 1 .. Len(map) - 1 |-> IF k < i THEN map[k] ELSE map[k + 1]]

\* A mistaken combine that does not look at the node before.
combine_next_only(i) ==
    IF is_free(i + 1)
    THEN [without(i) EXCEPT ![i] = Node(map[i].start, map[i].size + map[i + 1].size, FALSE)]
    ELSE [map EXCEPT ![i].allocated = FALSE]

\* Node i is freed and combined with a free node before and a free node
\* behind it.
combine(i) ==
    CASE is_free(i - 1) /\ is_free(i + 1) ->
            [k \in 1 .. Len(map) - 2 |->
                IF k < i - 1 THEN map[k]
                ELSE IF k = i - 1 THEN Node(map[i - 1].start, map[i - 1].size + map[i].size
                                                              + map[i + 1].size, FALSE)
                ELSE map[k + 2]]
      [] is_free(i - 1) /\ ~ is_free(i + 1) ->
            [without(i) EXCEPT ![i - 1] = Node(@.start, @.size + map[i].size, FALSE)]
      [] ~ is_free(i - 1) /\ is_free(i + 1) ->
            [without(i) EXCEPT ![i] = Node(map[i].start, @.size + map[i].size, FALSE)]
      [] OTHER -> [map EXCEPT ![i].allocated = FALSE]

\* LAZY_FREE: petmem_free_vspace returns at once for an address that is not
\* in the map.
LAZY_FREE(vaddr) ==
    /\ phase = "open" /\ freeing = NONE
    /\ vaddr_in_map(vaddr, 0)
    /\ freeing' = vaddr
    /\ num_pages_to_free' = 0
    /\ result' = 0
    /\ UNCHANGED <<map, phase>>

\* The first node left that starts at the address.
free_node(i) ==
    /\ freeing # NONE
    /\ allocated_at(i, freeing)
    /\ \A k \in 1 .. i - 1 : ~ allocated_at(k, freeing)
    /\ num_pages_to_free' = map[i].size
    /\ map' = combine(i)
    /\ UNCHANGED <<freeing, phase, result>>

\* The list has been walked; the page tables come next.
free_end ==
    /\ freeing # NONE
    /\ \A i \in DOMAIN map : ~ allocated_at(i, freeing)
    /\ freeing' = NONE
    /\ UNCHANGED <<map, num_pages_to_free, phase, result>>

\* petmem_release.
release ==
    /\ phase = "open" /\ freeing = NONE
    /\ phase' = "deinit"
    /\ UNCHANGED <<map, freeing, num_pages_to_free, result>>

\* One turn of the loop of petmem_deinit_process.  If petmem_free_vspace has
\* merged the node away, or the next one into it, then a freed node is
\* unlinked and freed again.
petmem_deinit_node ==
    /\ phase = "deinit" /\ map # <<>>
    /\ IF map[1].allocated /\ Len(map) > 1 /\ (is_free(2) \/ allocated_at(2, map[1].start))
       THEN phase' = "crashed" /\ UNCHANGED map
       ELSE map' = Tail(map) /\ UNCHANGED phase
    /\ UNCHANGED <<freeing, num_pages_to_free, result>>

petmem_deinit_head ==
    /\ phase = "deinit" /\ map = <<>>
    /\ phase' = "closed"
    /\ UNCHANGED <<map, freeing, num_pages_to_free, result>>

Crashed == phase = "crashed" /\ UNCHANGED vars

Next ==
    \/ petmem_init_process
    \/ \E n \in Requests : LAZY_ALLOC(n)
    \/ \E vaddr \in Address : LAZY_FREE(vaddr)
    \/ \E i \in DOMAIN map : free_node(i)
    \/ free_end
    \/ release \/ petmem_deinit_node \/ petmem_deinit_head
    \/ Crashed

Spec == Init /\ [][Next]_vars

-----------------------------------------------------------------------------
TypeOK ==
    /\ map \in Seq([start : Nat, size : Nat, allocated : BOOLEAN])
    /\ freeing \in Address \cup {NONE}
    /\ num_pages_to_free \in Nat
    /\ phase \in {"closed", "open", "deinit", "crashed"}
    /\ result \in Nat \cup {-1}

\* The nodes of an open map follow each other without a gap or an overlap
\* from the start of the region to its end.
Contiguous ==
    /\ TypeOK
    /\ phase = "open" =>
        /\ map # <<>>
        /\ map[1].start = PETMEM_REGION_START
        /\ \A i \in 1 .. Len(map) - 1 : map[i + 1].start = map[i].start + map[i].size
        /\ map[Len(map)].start + map[Len(map)].size = PETMEM_REGION_END

\* Freed nodes are combined with their neighbours: two free nodes are never
\* next to each other, and the last node is free.
Combined ==
    phase = "open" =>
        /\ \A i \in 1 .. Len(map) - 1 : map[i].allocated \/ map[i + 1].allocated
        /\ ~ map[Len(map)].allocated

\* The ranges in use, as a program sees them.
InUse(m) == {<<m[i].start, m[i].size>> : i \in {k \in DOMAIN m : m[k].allocated}}

\* Ranges in use stay as they are until they are freed: pet_malloc takes free
\* pages only and returns the start of what it has taken, and
\* petmem_free_vspace frees the range that starts at its argument and no other.
RangesKept ==
    [][phase = "open" =>
          IF freeing # NONE
          THEN \A r \in InUse(map) : r[1] # freeing => r \in InUse(map')
          ELSE /\ InUse(map) \subseteq InUse(map')
               /\ \A r \in InUse(map') \ InUse(map) : r[1] = result']_vars

-----------------------------------------------------------------------------
\* "1 - vaddr is in memory map, 0 - otherwise" (the comment on vaddr_in_map).
InMapMeansInMap ==
    \A vaddr \in Address :
        vaddr_in_map(vaddr, 0) =>
            \E r \in InUse(map) : vaddr \in r[1] .. r[1] + r[2] - 1

\* "Error: Could not allocate virtual address region": the ioctl leaves addr
\* 0 when there is no room, so what pet_malloc returns is 0 or in the region.
FailureIsZero == result = 0 \/ result \in Address

\* petmem_release is to "garbage collect": no node is freed twice.
FreedOnce == [][phase = "deinit" => phase' # "crashed"]_vars
=============================================================================
