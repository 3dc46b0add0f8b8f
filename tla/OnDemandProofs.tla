--------------------------- MODULE OnDemandProofs ---------------------------
(***************************************************************************)
(* The page tables of a process stay a tree, whatever pages are touched    *)
(* and freed and however large the tables are: petmem_free_vspace frees a  *)
(* table only when it is empty.  What the memory map promises on its own   *)
(* it still promises below the page fault handler and the walk over the    *)
(* tables.  The walk unmaps all of the range it frees, and nothing else    *)
(* when its skips count right.                                             *)
(***************************************************************************)
EXTENDS OnDemand, AddressSpaceProofs, BuddyProofs

\* Every step of the program and of a call keeps the tables a tree.
LEMMA PagingNextNoOrphan == NoOrphan /\ [PagingNext]_all_vars => NoOrphan'
<1> SUFFICES ASSUME Closed(present), [PagingNext]_all_vars PROVE Closed(present')
  BY DEF NoOrphan, Closed, Entry
<1>1. CASE UNCHANGED tables
  BY <1>1 DEF tables
<1>2. CASE paging_open
  BY <1>2 DEF paging_open, Closed
<1>3. ASSUME NEW p \in Touched, PAGE_FAULT(p) PROVE Closed(present')
  <2>1. p \in Page
    BY TouchedAssumption
  <2> QED BY <1>1, <1>3, <2>1, FaultIn DEF PAGE_FAULT, petmem_handle_pagefault
<1>4. CASE walk_next
  <2> DEFINE s == [pml |-> walk.pml, pdpe |-> walk.pdpe, pde |-> walk.pde, pte |-> walk.pte,
                   freed |-> walk.freed, present |-> present]
  <2>1. Tables(s)
    BY DEF Tables
  <2>2. present' = walk_step(s).present
    BY <1>4, Zenon DEF walk_next
  <2> HIDE DEF s
  <2> QED BY <2>1, <2>2, WalkStep
<1>5. CASE ProgramStep
  BY <1>1, <1>2, <1>3, <1>5 DEF ProgramStep, tlb_fill, INVALIDATE_PAGE
<1>6. CASE CallStep
  BY <1>1, <1>4, <1>6 DEF CallStep, walk_begin, walk_end, deinit_walk, deinit_node
<1>7. CASE Stopped \/ UNCHANGED all_vars
  BY <1>1, <1>7 DEF Stopped, all_vars
<1> QED BY <1>5, <1>6, <1>7 DEF PagingNext

\* petmem_free_vspace frees no table that has entries, and the page fault
\* handler makes every table on the way, however large the tables are.
THEOREM OnDemandNoOrphan == PagingSpec => []NoOrphan
<1>1. PagingInit => NoOrphan
  BY DEF PagingInit, NoOrphan
<1> QED BY <1>1, PagingNextNoOrphan, PTL DEF PagingSpec

-----------------------------------------------------------------------------
\* What the map sees of a step of the program or of a call: a step of its own,
\* or the list stays as it is, as in a fault that ends it all and in the
\* loops of petmem_free_vspace and petmem_deinit_process over the tables.
MapIdle ==
    /\ map' = map /\ freeing' = freeing
    /\ num_pages_to_free' \in Nat /\ result' \in Nat \cup {-1}
    /\ phase' = phase \/ (phase' \in {"deinit", "crashed"} /\ freeing = NONE)

\* Every step of PagingNext is one of these two.
LEMMA PagingStep == IInv /\ [PagingNext]_all_vars => [Next]_vars \/ MapIdle
<1> SUFFICES ASSUME IInv, [PagingNext]_all_vars PROVE [Next]_vars \/ MapIdle
  OBVIOUS
<1>0. TypeOK
  BY DEF IInv, Contiguous
<1>1. CASE UNCHANGED vars
  BY <1>1
<1>2. ASSUME NEW p \in Touched, PAGE_FAULT(p) PROVE MapIdle
  BY <1>0, <1>2 DEF PAGE_FAULT, Running, MapIdle, TypeOK
<1>3. CASE ProgramStep
  BY <1>1, <1>2, <1>3 DEF ProgramStep, Next, paging_open, tlb_fill, INVALIDATE_PAGE
<1>4. CASE walk_end
  BY <1>0, <1>4 DEF walk_end, MapIdle, TypeOK
<1>5. CASE deinit_walk
  <2> DEFINE S == {i \in DOMAIN map : allocated_at(i, map[1].start)}
  <2>1. Len(map) \in Nat /\ DOMAIN map = 1 .. Len(map) /\ map # <<>>
    BY <1>0, <1>5, LenProperties DEF TypeOK, deinit_walk
  <2>2. 1 \in S
    BY <1>5, <2>1, EmptySeq DEF deinit_walk, allocated_at
  <2>3. Max(S) \in DOMAIN map
    BY <2>1, <2>2, LastNode, Zenon DEF Max
  <2> DEFINE l == Max(S)
  <2> HIDE DEF l
  <2>4. map[l].size \in Nat
    <3>1. map \in Seq(NodeType) /\ l \in 1 .. Len(map)
      BY <1>0, <2>1, <2>3 DEF TypeOK, NodeType, l
    <3>2. map[l] \in NodeType
      BY <3>1, ElementOfSeq
    <3> QED BY <3>2 DEF NodeType
  <2> QED BY <1>0, <1>5, <2>4 DEF deinit_walk, MapIdle, TypeOK, l
<1>6. CASE CallStep
  BY <1>1, <1>4, <1>5, <1>6, ZenonT(30) DEF CallStep, Next, walk_begin, walk_next, deinit_node
<1>7. CASE Stopped \/ UNCHANGED all_vars
  BY <1>1, <1>7 DEF Stopped, all_vars
<1> QED BY <1>3, <1>6, <1>7 DEF PagingNext

\* Every step keeps the invariant of the map.
LEMMA PagingNextIInv == IInv /\ [PagingNext]_all_vars => IInv'
<1> SUFFICES ASSUME IInv, MapIdle PROVE IInv'
  BY PagingStep, NextIInv
<1>1. TypeOK'
  BY DEF IInv, Contiguous, TypeOK, MapIdle
<1>2. phase' = phase \/ phase' # "open"
  BY DEF MapIdle
<1> QED BY <1>1, <1>2, UnchangedMap DEF MapIdle

\* No map is open before the first process.
LEMMA PagingInitIInv == PagingInit => IInv
BY InitIInv DEF PagingInit

\* The nodes cover the region without gap or overlap also while page faults
\* are served, tables walked and processes killed.
THEOREM OnDemandContiguous == PagingSpec => []Contiguous
<1>1. IInv => Contiguous
  BY DEF IInv
<1> QED BY <1>1, PagingInitIInv, PagingNextIInv, PTL DEF PagingSpec

\* Nor are two free nodes ever next to each other then.
THEOREM OnDemandCombined == PagingSpec => []Combined
<1>1. IInv => Combined
  BY DEF IInv
<1> QED BY <1>1, PagingInitIInv, PagingNextIInv, PTL DEF PagingSpec

\* petmem_handle_pagefault and the walk of petmem_free_vspace leave the ranges
\* that the program owns alone.
THEOREM OnDemandRangesKept == PagingSpec => RangesKept
<1>1. IInv /\ [PagingNext]_all_vars => [Kept]_vars
  <2> SUFFICES ASSUME IInv, [PagingNext]_all_vars PROVE Kept \/ UNCHANGED vars
    OBVIOUS
  <2>1. CASE MapIdle
    BY <2>1 DEF MapIdle, Kept
  <2>2. CASE [Next]_vars
    BY <2>2, NextKeepsRanges
  <2> QED BY <2>1, <2>2, PagingStep
<1> QED BY <1>1, PagingInitIInv, PagingNextIInv, PTL DEF PagingSpec, RangesKept, Kept

-----------------------------------------------------------------------------
\* petmem_free_vspace in the tables: what the loop has counted, and what it
\* has left unmapped behind it.
WalkState == [pml |-> walk.pml, pdpe |-> walk.pdpe, pde |-> walk.pde, pte |-> walk.pte,
              freed |-> walk.freed, present |-> present]

WalkSound ==
    /\ walk \in WalkPosition
    /\ Counts(WalkState, walk.from, walk.sound)
    /\ Unmapped(WalkState, walk.from)

\* One call is in progress at a time, and a process is not gone before the
\* walk over its tables has come to an end.
WalkInv ==
    /\ freeing # NONE => phase = "open" /\ walk = NONE
    /\ walk # NONE => WalkSound /\ (phase = "open" \/ (phase = "deinit" /\ map # <<>>))

\* The walk begins where the list says.
LEMMA WalkSoundBegin ==
    ASSUME NEW p \in Nat, walk' = Walk(p), present' = present
    PROVE  WalkSound'
<1>1. /\ walk'.freed = 0 /\ walk'.from = p /\ walk'.sound = Sound(p)
      /\ walk'.pml = Path(p)[1] /\ walk'.pdpe = Path(p)[2]
      /\ walk'.pde = Path(p)[3] /\ walk'.pte = Path(p)[4]
  BY DEF Walk
<1> DEFINE s == WalkState'
<1>2. /\ s.freed = 0 /\ s.present = present
      /\ s.pml = Path(p)[1] /\ s.pdpe = Path(p)[2] /\ s.pde = Path(p)[3] /\ s.pte = Path(p)[4]
  BY <1>1 DEF WalkState
<1> HIDE DEF s
<1>3. Counts(s, p, Sound(p)) /\ Unmapped(s, p)
  BY <1>2, WalkBegins, Zenon DEF Sound
<1>4. walk' \in WalkPosition
  <2>1. /\ Path(p)[1] \in Nat /\ Path(p)[2] \in Nat /\ Path(p)[3] \in Nat /\ Path(p)[4] \in Nat
        /\ Sound(p) \in BOOLEAN
    BY PathPosition, Sizes DEF Sound
  <2> QED BY <2>1 DEF Walk, WalkPosition
<1> QED BY <1>1, <1>3, <1>4 DEF WalkSound, s

\* A turn of its loop.
LEMMA WalkSoundNext ==
    ASSUME WalkSound, NoOrphan, walk_next
    PROVE  WalkSound' /\ walk'.from = walk.from
<1> DEFINE s == WalkState
           t == walk_step(s)
<1>1. Walker(s) /\ s.present = present
  BY DEF Walker, WalkState
<1>2. walk' = [walk EXCEPT !.pml = t.pml, !.pdpe = t.pdpe, !.pde = t.pde, !.pte = t.pte,
                           !.freed = t.freed]
      /\ present' = t.present
  BY Zenon DEF walk_next, WalkState
<1>3. Counts(s, walk.from, walk.sound) /\ Unmapped(s, walk.from) /\ walk.from \in Nat
  BY DEF WalkSound, WalkPosition
<1>4. Closed(s.present)
  BY <1>1 DEF NoOrphan, Closed, Entry
<1>w. Whole(s)
  BY <1>1 DEF Whole, WalkState, WalkSound, WalkPosition
<1> HIDE DEF s
<1>5. Counts(t, walk.from, walk.sound) /\ Unmapped(t, walk.from) /\ Whole(t)
  BY <1>1, <1>3, <1>4, <1>w, TurnCounts, TurnUnmaps, TurnWhole
<1> HIDE DEF t
<1>6. /\ walk' \in WalkPosition
      /\ walk'.from = walk.from /\ walk'.sound = walk.sound
      /\ walk'.pml = t.pml /\ walk'.pdpe = t.pdpe /\ walk'.pde = t.pde /\ walk'.pte = t.pte
      /\ walk'.freed = t.freed
  BY <1>2, <1>5, Zenon DEF WalkSound, WalkPosition, Whole
<1> DEFINE u == WalkState'
<1>7. /\ u.pml = t.pml /\ u.pdpe = t.pdpe /\ u.pde = t.pde /\ u.pte = t.pte
      /\ u.freed = t.freed /\ u.present = t.present
  BY <1>2, <1>6 DEF WalkState
<1> HIDE DEF u
<1>8. Counts(u, walk.from, walk.sound) /\ Unmapped(u, walk.from)
  BY <1>5, <1>7 DEF Counts, Unmapped, Indices, Reached, entry
<1> QED BY <1>3, <1>6, <1>8 DEF WalkSound, u

\* Every step keeps the invariant of the walk.
LEMMA PagingNextWalkInv ==
    IInv /\ NoOrphan /\ WalkInv /\ [PagingNext]_all_vars => WalkInv'
<1> SUFFICES ASSUME IInv, NoOrphan, WalkInv, [PagingNext]_all_vars PROVE WalkInv'
  OBVIOUS
<1>0. TypeOK
  BY DEF IInv, Contiguous
<1>1. CASE UNCHANGED <<map, phase, freeing, walk, present>>
  <2>1. WalkSound => WalkSound'
    BY <1>1 DEF WalkSound, WalkState
  <2> QED BY <1>1, <2>1 DEF WalkInv
<1>2. ASSUME walk = NONE, walk' = NONE, freeing' # NONE => phase' = "open" PROVE WalkInv'
  BY <1>2 DEF WalkInv
<1>3. CASE walk' # NONE
  <2>1. CASE paging_open
    BY <1>3, <2>1 DEF paging_open, petmem_init_process, WalkInv
  <2>2. CASE walk_begin
    <3>1. freeing \in Nat /\ phase' = "open" /\ freeing' = NONE
      BY <1>0, <2>2, RegionAssumption DEF walk_begin, free_end, TypeOK, Address, WalkInv
    <3>2. WalkSound'
      BY <2>2, <3>1, WalkSoundBegin DEF walk_begin, tables
    <3> QED BY <3>1, <3>2 DEF WalkInv
  <2>3. CASE deinit_walk
    <3>1. map[1].start \in Nat
      <4>1. map \in Seq(NodeType) /\ map # <<>>
        BY <1>0, <2>3 DEF TypeOK, NodeType, deinit_walk
      <4>2. map[1] \in NodeType
        BY <4>1, EmptySeq, ElementOfSeq
      <4> QED BY <4>2 DEF NodeType
    <3>2. WalkSound'
      BY <2>3, <3>1, WalkSoundBegin DEF deinit_walk, tables
    <3> QED BY <2>3, <3>2 DEF WalkInv, deinit_walk
  <2>4. CASE walk_next
    <3>1. walk # NONE /\ UNCHANGED vars
      BY <2>4, Zenon DEF walk_next
    <3>2. WalkSound'
      BY <2>4, <3>1, WalkSoundNext DEF WalkInv
    <3> QED BY <3>1, <3>2 DEF WalkInv, vars
  <2>5. CASE UNCHANGED <<map, phase, freeing, walk, present>>
    BY <1>1, <2>5
  <2>6. CASE petmem_deinit_head /\ UNCHANGED walk
    BY <1>3, <2>6 DEF petmem_deinit_head, WalkInv
  <2>7. ASSUME NEW i \in DOMAIN map, free_node(i), UNCHANGED walk PROVE FALSE
    BY <1>3, <2>7 DEF free_node, WalkInv
  <2>8. CASE ProgramStep
    BY <1>3, <2>1, <2>5, <2>8 DEF ProgramStep, PAGE_FAULT, Running, tlb_fill, INVALIDATE_PAGE,
       vars, tables
  <2>9. CASE CallStep
    BY <1>3, <2>2, <2>3, <2>4, <2>6, <2>7, <2>9 DEF CallStep, walk_end, deinit_node
  <2> QED BY <2>5, <2>8, <2>9 DEF PagingNext, Stopped, all_vars, vars, tables
<1>4. CASE walk' = NONE
  <2> SUFFICES freeing' # NONE => phase' = "open"
    BY <1>4 DEF WalkInv
  <2>1. CASE UNCHANGED <<phase, freeing>>
    BY <2>1 DEF WalkInv
  <2>2. CASE freeing' = NONE
    BY <2>2
  <2>3. CASE [Next]_vars
    BY <2>1, <2>3, Zenon DEF Next, vars, petmem_init_process, LAZY_ALLOC, LAZY_FREE, free_node, free_end,
       release, petmem_deinit_node, petmem_deinit_head, Crashed, WalkInv
  <2>4. CASE MapIdle /\ ~ UNCHANGED phase
    BY <2>4 DEF MapIdle
  <2> QED BY <2>1, <2>3, <2>4, PagingStep DEF MapIdle
<1> QED BY <1>3, <1>4

\* The invariants together.
PagingIInv == IInv /\ NoOrphan /\ WalkInv

\* They hold before the first process, and every step keeps them.
LEMMA PagingInvariant == PagingSpec => []PagingIInv
<1>1. PagingInit => PagingIInv
  <2>1. PagingInit => NoOrphan /\ WalkInv
    BY DEF PagingInit, Init, NoOrphan, WalkInv
  <2> QED BY <2>1, PagingInitIInv DEF PagingIInv
<1>2. PagingIInv /\ [PagingNext]_all_vars => PagingIInv'
  BY PagingNextIInv, PagingNextNoOrphan, PagingNextWalkInv DEF PagingIInv
<1> QED BY <1>1, <1>2, PTL DEF PagingSpec

\* A turn of the loop clears the PTE of no page but the one it has reached.
LEMMA WalkNextClears ==
    ASSUME WalkSound, walk_next, NEW p \in PresentPages, Path(p) \notin present'
    PROVE  walk.pml = 0 /\ p = Reached(WalkState) /\ p \in Page
<1> DEFINE s == WalkState
<1>1. Walker(s) /\ s.present = present /\ s.pml = walk.pml
  BY DEF Walker, WalkState
<1>2. present' = walk_step(s).present
  BY Zenon DEF walk_next, WalkState
<1>3. Counts(s, walk.from, walk.sound) /\ walk.from \in Nat
  BY DEF WalkSound, WalkPosition
<1>4. p \in Page /\ Path(p) \in s.present /\ Path(p) \notin walk_step(s).present
  BY <1>1, <1>2 DEF PresentPages
<1> HIDE DEF s
<1>5. s.pml = 0 /\ p = Reached(s)
  BY <1>1, <1>3, <1>4, TurnClears
<1> QED BY <1>1, <1>4, <1>5 DEF s

\* petmem_free_vspace unmaps pages of the range it frees only, whatever tables
\* there are and however large, when the page directory of the first page is
\* there or that page is the first of a page table.
THEOREM OnDemandWalkStaysInRange == PagingSpec => WalkStaysInRange
<1> DEFINE InRange ==
        walk # NONE /\ walk.sound
            => \A p \in PresentPages : Path(p) \notin present' =>
                  p \in walk.from .. walk.from + num_pages_to_free - 1
<1>1. PagingIInv /\ [PagingNext]_all_vars => [InRange]_all_vars
  <2> SUFFICES ASSUME PagingIInv, [PagingNext]_all_vars, walk # NONE, walk.sound,
                      NEW p \in PresentPages, Path(p) \notin present'
               PROVE  p \in walk.from .. walk.from + num_pages_to_free - 1
    OBVIOUS
  <2>1. WalkSound /\ (phase = "open" \/ phase = "deinit") /\ num_pages_to_free \in Nat
    BY DEF PagingIInv, WalkInv, IInv, Contiguous, TypeOK
  <2>2. present' # present
    BY DEF PresentPages
  <2>3. ~ ProgramStep
    BY <2>1, <2>2, Zenon DEF ProgramStep, paging_open, petmem_init_process, PAGE_FAULT, Running, tlb_fill,
       INVALIDATE_PAGE, tables
  <2>4. walk_next
    BY <2>2, <2>3 DEF PagingNext, CallStep, Stopped, walk_begin, walk_end, deinit_walk, deinit_node,
       all_vars, tables
  <2>5. walk.pml = 0 /\ p = Reached(WalkState) /\ p \in Page
    BY <2>1, <2>4, WalkNextClears
  <2> DEFINE s == WalkState
  <2>6. s.pml = walk.pml /\ s.freed = walk.freed
    BY DEF WalkState
  <2>7. walk.from \in Nat /\ Counts(s, walk.from, walk.sound)
    BY <2>1, Zenon DEF WalkSound, WalkPosition
  <2> HIDE DEF s
  <2>8. walk.freed \in Nat /\ walk.from + walk.freed = Reached(s)
    BY <2>5, <2>6, <2>7 DEF Counts
  <2>9. walk.freed < num_pages_to_free
    BY <2>4, Zenon DEF walk_next
  <2> QED BY <2>1, <2>5, <2>7, <2>8, <2>9 DEF s
<1> QED BY <1>1, PagingInvariant, PTL DEF PagingSpec, WalkStaysInRange

-----------------------------------------------------------------------------
\* The range that petmem_free_vspace has taken from the list and is yet to
\* unmap.
ToFree ==
    IF freeing # NONE THEN freeing .. freeing + num_pages_to_free - 1
    ELSE IF walk # NONE THEN walk.from .. walk.from + num_pages_to_free - 1
    ELSE {}

\* A mapped page is in use, or strayed, or is going to be unmapped.  There is
\* one range to unmap: when a node with pages has been taken from the list, no
\* node that starts there is left.
FreedInv ==
    phase = "open" =>
        /\ PresentPages \subseteq InUsePages \cup strayed \cup ToFree
        /\ freeing # NONE /\ num_pages_to_free > 0 =>
              \A k \in DOMAIN map : ~ (map[k].start = freeing /\ map[k].allocated)

\* The loop over the list.
LEMMA FreeNodeFreedInv ==
    ASSUME PagingIInv, FreedInv, NEW i \in DOMAIN map, free_node(i),
           UNCHANGED <<tables, walk, strayed>>
    PROVE  FreedInv'
<1> SUFFICES ASSUME phase = "open" PROVE FreedInv'
  BY DEF FreedInv, free_node
<1>1. /\ IInv /\ freeing # NONE /\ freeing' = freeing /\ phase' = phase
      /\ allocated_at(i, freeing) /\ PresentPages' = PresentPages /\ strayed' = strayed
  BY DEF PagingIInv, free_node, PresentPages, tables
<1>2. ToFree' = freeing .. freeing + num_pages_to_free' - 1
  BY <1>1 DEF ToFree
<1>3. ToFree = {}
  <2>1. num_pages_to_free \in Nat /\ ~ (num_pages_to_free > 0)
    BY <1>1 DEF FreedInv, IInv, Contiguous, TypeOK, allocated_at
  <2>2. freeing \in Nat
    BY <1>1, RegionAssumption DEF IInv, Contiguous, TypeOK, Address
  <2> QED BY SMTT(20), Zenon, <1>1, <2>1, <2>2 DEF ToFree
<1>4. InUsePages \subseteq InUsePages' \cup ToFree'
  <2>1. InUsePages = PagesOf(map) /\ InUsePages' = PagesOf(map')
    BY DEF InUsePages, PagesOf
  <2> QED BY <1>1, <1>2, <2>1, FreePages
<1>5. num_pages_to_free' > 0 =>
         \A k \in DOMAIN map' : ~ (map'[k].start = freeing' /\ map'[k].allocated)
  BY <1>1, FreeLast
<1> QED BY SMTT(20), Zenon, <1>1, <1>3, <1>4, <1>5 DEF FreedInv

\* The loop over the tables has unmapped the range when it ends.
LEMMA WalkEndFreedInv ==
    ASSUME PagingIInv, FreedInv, walk_end
    PROVE  FreedInv'
<1>1. /\ walk # NONE /\ phase = "open" /\ walk' = NONE /\ freeing' = freeing /\ map' = map
      /\ strayed' = strayed /\ PresentPages' = PresentPages /\ InUsePages' = InUsePages
      /\ num_pages_to_free' = 0 /\ walk.freed >= num_pages_to_free
  BY DEF walk_end, PresentPages, InUsePages, tables
<1>2. WalkSound /\ freeing = NONE /\ num_pages_to_free \in Nat
  BY <1>1 DEF PagingIInv, WalkInv, IInv, Contiguous, TypeOK
<1>3. ToFree = walk.from .. walk.from + num_pages_to_free - 1 /\ ToFree' = {}
  BY <1>1, <1>2 DEF ToFree
<1>4. ASSUME NEW p \in PresentPages PROVE p \notin ToFree
  <2> DEFINE s == WalkState
  <2>1. /\ Counts(s, walk.from, walk.sound) /\ Unmapped(s, walk.from) /\ walk.from \in Nat
        /\ s.freed = walk.freed /\ s.present = present
    BY <1>2 DEF WalkSound, WalkPosition, WalkState
  <2>2. p \in Page /\ Path(p) \in s.present
    BY <2>1 DEF PresentPages
  <2> HIDE DEF s
  <2> QED BY SMTT(20), Zenon, <1>1, <1>2, <1>3, <2>1, <2>2, WalkEnds
<1> QED BY <1>1, <1>2, <1>3, <1>4 DEF FreedInv

\* A turn of that loop.
LEMMA WalkNextFreedInv ==
    ASSUME PagingIInv, FreedInv, walk_next
    PROVE  FreedInv'
<1> SUFFICES ASSUME phase = "open" PROVE FreedInv'
  BY Zenon DEF FreedInv, walk_next, vars
<1>1. walk # NONE /\ UNCHANGED vars
  BY Zenon DEF walk_next
<1>2. WalkSound /\ freeing = NONE
  BY <1>1 DEF PagingIInv, WalkInv
<1>3. WalkSound' /\ walk'.from = walk.from
  BY SMTT(20), Zenon, <1>2, WalkSoundNext DEF PagingIInv
<1>4. ToFree' = ToFree
  BY <1>1, <1>2, <1>3, NoneAssumption DEF ToFree, vars, WalkSound
<1>5. InUsePages' = InUsePages
  BY <1>1 DEF InUsePages, vars
<1>6. ASSUME NEW p \in PresentPages' PROVE p \in PresentPages /\ (p \in strayed => p \in strayed')
  <2> DEFINE s == WalkState
             cleared == {q \in PresentPages : Path(q) \notin walk_step(s).present}
  <2>1. Walker(s) /\ s.present = present
    BY DEF Walker, WalkState
  <2>2. present' = walk_step(s).present /\ strayed' = strayed \ cleared
    BY Zenon DEF walk_next, WalkState
  <2> HIDE DEF s
  <2>3. walk_step(s).present \subseteq present
    BY <2>1, TurnOfTheLoop
  <2> QED BY <2>2, <2>3 DEF PresentPages
<1> QED BY SMTT(20), Zenon, <1>1, <1>2, <1>4, <1>5, <1>6 DEF FreedInv, vars

\* Every step keeps it.
LEMMA PagingNextFreedInv == PagingIInv /\ FreedInv /\ [PagingNext]_all_vars => FreedInv'
<1> SUFFICES ASSUME PagingIInv, FreedInv, [PagingNext]_all_vars PROVE FreedInv'
  OBVIOUS
<1>0. TypeOK /\ WalkInv
  BY DEF PagingIInv, IInv, Contiguous
<1>1. CASE UNCHANGED <<vars, tables, walk, strayed>>
  BY <1>1 DEF FreedInv, PresentPages, InUsePages, ToFree, vars, tables
<1>2. CASE phase' # "open"
  BY <1>2 DEF FreedInv
<1>3. CASE paging_open
  <2>1. freeing' = NONE
    BY <1>0, <1>3 DEF paging_open, petmem_init_process, WalkInv
  <2>2. PresentPages' = {}
    BY <1>3 DEF paging_open, PresentPages
  <2> QED BY <2>1, <2>2 DEF FreedInv
<1>4. ASSUME NEW n \in Requests, LAZY_ALLOC(n), UNCHANGED <<tables, walk, strayed>> PROVE FreedInv'
  <2>1. phase = "open" /\ freeing = NONE /\ UNCHANGED <<freeing, num_pages_to_free, phase>>
    BY <1>4 DEF LAZY_ALLOC
  <2>2. InUsePages \subseteq InUsePages'
    BY <1>4, AllocKeepsRanges DEF InUsePages, PagingIInv
  <2> QED BY <1>4, <2>1, <2>2 DEF FreedInv, PresentPages, ToFree, tables
<1>5. ASSUME NEW vaddr \in Address, LAZY_FREE(vaddr), walk = NONE, UNCHANGED <<tables, walk, strayed>>
      PROVE  FreedInv'
  <2>1. ToFree = {} /\ phase = "open" /\ num_pages_to_free' = 0 /\ map' = map
    BY <1>5 DEF LAZY_FREE, ToFree
  <2> QED BY <1>5, <2>1 DEF FreedInv, PresentPages, InUsePages, tables
<1>6. ASSUME NEW p \in Touched, PAGE_FAULT(p) PROVE FreedInv'
  <2> SUFFICES ASSUME phase' = "open" PROVE FreedInv'
    BY <1>2
  <2>1. /\ phase = "open" /\ freeing = NONE /\ walk = NONE /\ petmem_handle_pagefault(p)
        /\ UNCHANGED <<map, freeing, num_pages_to_free, walk>>
    BY <1>6 DEF PAGE_FAULT, Running
  <2>2. PresentPages \subseteq InUsePages \cup strayed /\ InUsePages' = InUsePages
    BY <2>1 DEF FreedInv, ToFree, InUsePages
  <2>3. strayed \subseteq strayed' /\ p \in InUsePages \cup strayed'
    BY <2>1 DEF petmem_handle_pagefault
  <2>4. PresentPages' \subseteq PresentPages \cup {p}
    <3>1. p \in Page
      BY TouchedAssumption
    <3> QED BY <2>1, <3>1, FaultEnters DEF petmem_handle_pagefault, PresentPages
  <2> QED BY <2>1, <2>2, <2>3, <2>4 DEF FreedInv
<1>7. CASE walk_begin
  <2>1. /\ freeing # NONE /\ freeing' = NONE /\ UNCHANGED <<map, num_pages_to_free, phase>>
        /\ walk' = Walk(freeing) /\ UNCHANGED <<tables, strayed>>
    BY <1>7 DEF walk_begin, free_end
  <2>2. WalkSound' /\ walk'.from = freeing
    <3>1. freeing \in Nat
      BY SMTT(20), Zenon, <1>0, <2>1, RegionAssumption DEF TypeOK, Address
    <3> QED BY <2>1, <3>1, WalkSoundBegin DEF tables, Walk
  <2>3. ToFree' = ToFree
    BY SMTT(20), Zenon, <2>1, <2>2, NoneAssumption DEF ToFree, WalkSound
  <2> QED BY <2>1, <2>3 DEF FreedInv, PresentPages, InUsePages, tables
<1>8. CASE ProgramStep
  BY SMTT(20), Zenon, <1>1, <1>2, <1>3, <1>4, <1>5, <1>6, <1>8
  DEF ProgramStep, release, tlb_fill, INVALIDATE_PAGE
<1>9. CASE CallStep
  <2>1. CASE deinit_walk \/ deinit_node \/ petmem_deinit_head
    BY <1>2, <2>1 DEF deinit_walk, deinit_node, petmem_deinit_node, petmem_deinit_head
  <2> QED BY SMTT(20), Zenon, <1>7, <1>9, <2>1, FreeNodeFreedInv, WalkNextFreedInv, WalkEndFreedInv DEF CallStep
<1> QED BY <1>1, <1>8, <1>9 DEF PagingNext, Stopped, all_vars

\* When petmem_free_vspace has returned no page is mapped that the program does
\* not own, but for those a fault just behind a range has mapped, whatever the
\* program asks for, touches and frees and however large the tables are: the
\* walk does not stop short.
THEOREM OnDemandMappedInUse == PagingSpec => []MappedInUse
<1>1. PagingInit => FreedInv
  BY DEF PagingInit, Init, FreedInv
<1>2. FreedInv => MappedInUse
  BY DEF FreedInv, MappedInUse, Running, ToFree
<1> QED BY <1>1, <1>2, PagingInvariant, PagingNextFreedInv, PTL DEF PagingSpec
-----------------------------------------------------------------------------
\* The <<page, frame>> pairs that the process can reach: what is mapped, and
\* what the processor still holds the translation of.
Mappings == {<<p, page_base_addr[p]>> : p \in PresentPages} \cup tlb

\* What petmem_alloc_pages gives: a frame of a pool, 0, or the address that
\* __pa makes of NULL.
Frame == 0 .. ADDRESSES - PAGE_OFFSET

Exclusive(M, list, F) ==
    \A e \in M :
        /\ e[2] \in F \cup {0, ADDRESSES - PAGE_OFFSET}
        /\ e[2] \in F => \A f \in M : f[2] = e[2] => f[1] = e[1]
        /\ e[2] \notin FreeIn(list)

\* No region is given twice, the pools have the frames that were given, and
\* what can be reached is exclusive.
FrameInv ==
    /\ added \subseteq Regions
    /\ PoolsOf(petmem_pool_list, Added)
    /\ page_base_addr \in [Page -> Frame]
    /\ tlb \subseteq Page \X Frame
    /\ strayed \subseteq PresentPages
    /\ Exclusive(Mappings, petmem_pool_list, Added)

\* The page fault handler adds one pair: a frame that was free, or one that is
\* in no pool.
LEMMA FaultExclusive ==
    ASSUME NEW M, NEW list, NEW F, PoolsOf(list, F), Exclusive(M, list, F),
           NEW t, t = petmem_alloc_pages(list), NEW p, NEW N, N \subseteq M \cup {<<p, t.page>>}
    PROVE  PoolsOf(t.list, F) /\ t.page \in Frame /\ Exclusive(N, t.list, F)
<1>1. /\ PoolsOf(t.list, F) /\ FreeIn(t.list) \subseteq FreeIn(list)
      /\ t.page \notin FreeIn(t.list)
      /\ \/ t.page \in {0, ADDRESSES - PAGE_OFFSET}
         \/ t.page \in F /\ t.page \in FreeIn(list)
  BY AllocPages
<1>2. F \subseteq 1 .. ADDRESSES - PAGE_OFFSET - 1
  BY FramesOfPools
<1>3. /\ 0 \notin F /\ ADDRESSES - PAGE_OFFSET \notin F
      /\ F \subseteq Frame /\ {0, ADDRESSES - PAGE_OFFSET} \subseteq Frame
  BY <1>2, LayoutAssumption DEF Frame
<1>4. t.page \in Frame
  BY <1>1, <1>3
<1> DEFINE g == t.page
<1>5. ASSUME NEW e \in N
      PROVE  /\ e[2] \in F \cup {0, ADDRESSES - PAGE_OFFSET}
             /\ e[2] \in F => \A f \in N : f[2] = e[2] => f[1] = e[1]
             /\ e[2] \notin FreeIn(t.list)
  <2>1. \A f \in N : f \in M \/ (f[1] = p /\ f[2] = g)
    OBVIOUS
  <2>2. g \in F => \A f \in M : f[2] # g
    BY <1>1, <1>3 DEF Exclusive
  <2> HIDE DEF g
  <2>3. CASE e \in M
    BY <1>1, <2>1, <2>2, <2>3, Zenon DEF Exclusive
  <2>4. CASE e[1] = p /\ e[2] = g
    BY <1>1, <2>1, <2>2, <2>4, Zenon DEF g
  <2> QED BY <2>1, <2>3, <2>4
<1> QED BY <1>1, <1>4, <1>5, Zenon DEF Exclusive

\* ADD_MEMORY adds frames that nothing maps.
LEMMA AddFrames ==
    ASSUME FrameInv, NEW r \in Regions \ added, ADD_MEMORY(r[1], r[2]),
           UNCHANGED <<tables, tlb, strayed>>
    PROVE  FrameInv'
<1> DEFINE F == Added
           G == Frames(r[1], r[2])
           list == petmem_pool_list
           new == new_pools(r[1], r[2])
<1>1. r[1] \in Nat /\ r[2] \in Nat /\ G \subseteq 1 .. ADDRESSES - PAGE_OFFSET - 1
  BY LayoutAssumption
<1>2. F \cap G = {}
  BY LayoutAssumption DEF FrameInv, Added
<1>3. added' \subseteq Regions /\ Added' = G \cup F
  <2>1. r = <<r[1], r[2]>>
    BY LayoutAssumption
  <2>2. added' = added \cup {r}
    BY <2>1 DEF ADD_MEMORY
  <2> QED BY <2>2 DEF FrameInv, Added
<1>4. PoolsOf(new, G) /\ PoolsOf(list, F)
  BY <1>1, NewPools DEF FrameInv
<1>5. petmem_pool_list' = new \o list
  BY DEF ADD_MEMORY
<1>6. UNCHANGED <<page_base_addr, tlb, strayed, PresentPages, Mappings>>
  BY DEF tables, PresentPages, Mappings
<1> HIDE DEF F, G, list, new
<1>7. PoolsOf(new \o list, G \cup F) /\ FreeIn(new \o list) \subseteq FreeIn(new) \cup FreeIn(list)
  BY <1>2, <1>4, JoinPools
<1>8. FreeIn(new) \subseteq G
  BY <1>4, FramesOfPools
<1>9. 0 \notin G /\ ADDRESSES - PAGE_OFFSET \notin G
  BY <1>1, LayoutAssumption
<1>10. Exclusive(Mappings, list, F)
  BY DEF FrameInv, list, F
<1>11. ASSUME NEW e \in Mappings PROVE e[2] \notin G
  BY <1>2, <1>9, <1>10 DEF Exclusive
<1>12. Exclusive(Mappings, new \o list, G \cup F)
  BY <1>7, <1>8, <1>10, <1>11, Zenon DEF Exclusive
<1> QED BY <1>3, <1>5, <1>6, <1>7, <1>12 DEF FrameInv

\* A step that takes memory of no pool and adds no mapping.
LEMMA SubFrames ==
    ASSUME FrameInv, UNCHANGED pools, Mappings' \subseteq Mappings, tlb' \subseteq Page \X Frame,
           page_base_addr' \in [Page -> Frame], strayed' \subseteq PresentPages'
    PROVE  FrameInv'
<1>1. petmem_pool_list' = petmem_pool_list /\ added' = added /\ Added' = Added
  BY DEF pools, Added
<1>2. Exclusive(Mappings', petmem_pool_list, Added)
  BY DEF FrameInv, Exclusive
<1> QED BY <1>1, <1>2 DEF FrameInv

\* A page fault that is served.
LEMMA FaultFrames ==
    ASSUME FrameInv, NoOrphan, NEW p \in Page, petmem_handle_pagefault(p), UNCHANGED <<added, tlb>>
    PROVE  FrameInv'
<1> DEFINE t == petmem_alloc_pages(petmem_pool_list)
           g == t.page
<1>1. /\ petmem_pool_list' = t.list /\ page_base_addr' = [page_base_addr EXCEPT ![p] = g]
      /\ strayed' \subseteq strayed \cup {p} /\ Added' = Added
  BY DEF petmem_handle_pagefault, Added
<1>2. PresentPages' \subseteq PresentPages \cup {p}
  BY FaultEnters DEF petmem_handle_pagefault, PresentPages
<1>3. strayed' \subseteq PresentPages'
  <2>1. \A e \in present : Above(e) \cap (Above(Path(p)) \ present) = {}
    BY DEF NoOrphan
  <2>2. PresentPages \cup {p} \subseteq PresentPages'
    BY <2>1 DEF petmem_handle_pagefault, PresentPages
  <2> QED BY <1>1, <2>2 DEF FrameInv
<1> HIDE DEF g
<1>4. Mappings' \subseteq Mappings \cup {<<p, g>>}
  <2>1. ASSUME NEW q \in PresentPages'
        PROVE  <<q, page_base_addr'[q]>> \in Mappings \cup {<<p, g>>}
    BY <1>1, <1>2 DEF Mappings, PresentPages, FrameInv
  <2> QED BY <2>1 DEF Mappings
<1>5. PoolsOf(t.list, Added) /\ g \in Frame /\ Exclusive(Mappings', t.list, Added)
  BY <1>4, FaultExclusive DEF FrameInv, g
<1>6. page_base_addr' \in [Page -> Frame]
  BY <1>1, <1>5 DEF FrameInv
<1> QED BY <1>1, <1>3, <1>5, <1>6 DEF FrameInv

\* A turn of the loop of petmem_free_vspace: petmem_free_pages finds no pool
\* for the frame, so that it is lost rather than given to another page while
\* the processor holds its old translation.
LEMMA WalkFrames ==
    ASSUME FrameInv, walk_next
    PROVE  FrameInv'
<1> DEFINE s == WalkState
           t == walk_step(s)
           cleared == {p \in PresentPages : Path(p) \notin t.present}
<1>1. /\ present' = t.present /\ strayed' = strayed \ cleared
      /\ page_base_addr' = [p \in Page |-> IF p \in cleared THEN 0 ELSE page_base_addr[p]]
      /\ \/ cleared = {} /\ UNCHANGED <<petmem_pool_list, tlb>>
         \/ \E p \in cleared :
               /\ petmem_pool_list' = petmem_free_pages(petmem_pool_list, page_base_addr[p])
               /\ tlb' = invlpg(tlb, __va(page_base_addr[p]))
      /\ added' = added
  BY Zenon DEF walk_next, WalkState
<1>2. t.present \subseteq present
  <2>1. Walker(s) /\ s.present = present
    BY DEF Walker, WalkState
  <2> HIDE DEF s
  <2> QED BY <2>1, TurnOfTheLoop
<1> HIDE DEF s, t
<1>3. PresentPages' = PresentPages \ cleared
  BY <1>1, <1>2 DEF PresentPages
<1>4. ASSUME NEW p \in cleared PROVE petmem_free_pages(petmem_pool_list, page_base_addr[p]) = petmem_pool_list
  <2>1. page_base_addr[p] \in Nat /\ page_base_addr[p] < PAGE_OFFSET
    BY LayoutAssumption DEF FrameInv, Frame, PresentPages
  <2> QED BY <2>1, NoPoolFound DEF FrameInv
<1>5. UNCHANGED pools /\ tlb' \subseteq tlb
  BY <1>1, <1>4 DEF pools, invlpg
<1> HIDE DEF cleared
<1>6. page_base_addr' \in [Page -> Frame]
  BY <1>1, LayoutAssumption DEF FrameInv, Frame
<1>7. Mappings' \subseteq Mappings
  <2>1. ASSUME NEW p \in PresentPages' PROVE p \in PresentPages /\ page_base_addr'[p] = page_base_addr[p]
    BY <1>1, <1>3 DEF PresentPages
  <2> QED BY <1>5, <2>1 DEF Mappings
<1>8. strayed' \subseteq PresentPages'
  BY <1>1, <1>3 DEF FrameInv
<1>9. tlb' \subseteq Page \X Frame
  BY <1>5 DEF FrameInv
<1> QED BY <1>5, <1>6, <1>7, <1>8, <1>9, SubFrames

\* Every step keeps it.
LEMMA PagingNextFrameInv == PagingIInv /\ FrameInv /\ [PagingNext]_all_vars => FrameInv'
<1> SUFFICES ASSUME PagingIInv, FrameInv, [PagingNext]_all_vars PROVE FrameInv'
  OBVIOUS
<1>1. ASSUME UNCHANGED <<pools, tables, strayed>>, tlb' \subseteq Mappings PROVE FrameInv'
  <2>1. UNCHANGED <<page_base_addr, strayed, PresentPages>>
    BY <1>1 DEF tables, PresentPages
  <2>2. Mappings' \subseteq Mappings
    BY <1>1, <2>1 DEF Mappings
  <2>3. Mappings \subseteq Page \X Frame
    BY DEF Mappings, FrameInv, PresentPages
  <2>4. tlb' \subseteq Page \X Frame
    BY <1>1, <2>3
  <2> QED BY <1>1, <2>1, <2>2, <2>4, SubFrames DEF FrameInv
<1>2. tlb \subseteq Mappings
  BY DEF Mappings
<1>3. CASE UNCHANGED <<pools, tables, strayed, tlb>>
  BY <1>1, <1>2, <1>3
<1>4. CASE paging_open
  <2>1. UNCHANGED pools /\ tlb' = {} /\ strayed' = {} /\ page_base_addr' = [p \in Page |-> 0]
    BY <1>4 DEF paging_open
  <2>2. PresentPages' = {}
    BY <1>4 DEF paging_open, PresentPages
  <2>3. Mappings' = {}
    BY <2>1, <2>2 DEF Mappings
  <2>4. page_base_addr' \in [Page -> Frame]
    BY <2>1, LayoutAssumption DEF Frame
  <2> QED BY <2>1, <2>3, <2>4, SubFrames
<1>5. ASSUME NEW p \in Touched, PAGE_FAULT(p) PROVE FrameInv'
  <2>1. p \in Page /\ NoOrphan
    BY TouchedAssumption DEF PagingIInv
  <2>2. CASE petmem_handle_pagefault(p)
    BY <1>5, <2>1, <2>2, FaultFrames DEF PAGE_FAULT
  <2>3. CASE UNCHANGED <<tables, petmem_pool_list, strayed>>
    BY <1>3, <1>5, <2>3 DEF PAGE_FAULT, pools
  <2> QED BY <1>5, <2>2, <2>3, Zenon DEF PAGE_FAULT
<1>6. ASSUME NEW p \in Touched, tlb_fill(p) PROVE FrameInv'
  <2>1. <<p, page_base_addr[p]>> \in Mappings
    BY <1>6 DEF tlb_fill, Mappings
  <2> QED BY <1>1, <1>2, <1>6, <2>1 DEF tlb_fill
<1>7. ASSUME NEW p \in Touched, INVALIDATE_PAGE(p) PROVE FrameInv'
  BY <1>1, <1>2, <1>7 DEF INVALIDATE_PAGE, invlpg
<1>8. ASSUME NEW r \in Regions \ added, ADD_MEMORY(r[1], r[2]), UNCHANGED <<tables, tlb, strayed>>
      PROVE  FrameInv'
  BY <1>8, AddFrames
<1>9. CASE ProgramStep
  BY <1>3, <1>4, <1>5, <1>6, <1>7, <1>8, <1>9, Zenon DEF ProgramStep
<1>10. CASE CallStep
  BY <1>3, <1>10, WalkFrames, Zenon DEF CallStep, walk_begin, walk_end, deinit_walk, deinit_node
<1> QED BY <1>3, <1>9, <1>10, Zenon DEF PagingNext, Stopped, all_vars

\* The invariants hold for ever.
LEMMA FrameInvariant == PagingSpec => [](PagingIInv /\ FrameInv)
<1>1. PagingInit => FrameInv
  <2> SUFFICES ASSUME PagingInit PROVE FrameInv
    OBVIOUS
  <2>1. /\ petmem_pool_list = <<>> /\ added = {} /\ present = {} /\ tlb = {} /\ strayed = {}
        /\ page_base_addr = [p \in Page |-> 0]
    BY DEF PagingInit, PoolsInit
  <2>2. Mappings = {} /\ Added = {}
    BY <2>1 DEF Mappings, PresentPages, Added
  <2>3. PoolsOf(<<>>, {})
    BY DEF PoolsOf
  <2>4. page_base_addr \in [Page -> Frame]
    BY <2>1, LayoutAssumption DEF Frame
  <2> QED BY <2>1, <2>2, <2>3, <2>4 DEF FrameInv, Exclusive
<1> QED BY <1>1, PagingInvariant, PagingNextFrameInv, PTL DEF PagingSpec

\* ADD_MEMORY cuts every region, however large, into pools that do not overlap
\* and leaves no page of it out, and what is allocated of the pools and freed
\* later changes neither.
THEOREM OnDemandPoolsTileTheMemory == PagingSpec => []PoolsTileTheMemory
<1>1. FrameInv => PoolsTileTheMemory
  <2> SUFFICES ASSUME PoolsOf(petmem_pool_list, Added) PROVE PoolsTileTheMemory
    BY DEF FrameInv
  <2> DEFINE list == petmem_pool_list
  <2>1. DOMAIN list = 1 .. Len(list)
    BY LenProperties DEF PoolsOf
  <2>2. \A j, k \in DOMAIN list : j # k => PoolFrames(list[j]) \cap PoolFrames(list[k]) = {}
    BY <2>1 DEF PoolsOf
  <2>3. UNION {PoolFrames(list[k]) : k \in DOMAIN list} = Added
    BY <2>1 DEF PoolsOf
  <2> QED BY <2>2, <2>3 DEF PoolsTileTheMemory
<1> QED BY <1>1, FrameInvariant, PTL

\* Two pages never share a frame of a pool, neither by the tables nor by a
\* translation that the processor still holds, and no frame that can be
\* reached is free in its pool, whatever memory is added, touched and freed.
THEOREM OnDemandFrameExclusive == PagingSpec => []FrameExclusive
<1>1. PagingIInv /\ FrameInv => FrameExclusive
  <2> SUFFICES ASSUME PagingIInv, FrameInv PROVE FrameExclusive
    OBVIOUS
  <2>1. Frame \subseteq 0 .. ADDRESSES - 1
    <3>1. PAGE_OFFSET > 0
      BY LayoutAssumption
    <3> QED BY <3>1, LayoutAssumption DEF Frame
  <2>2. page_base_addr \in [Page -> 0 .. ADDRESSES - 1] /\ tlb \subseteq Page \X (0 .. ADDRESSES - 1)
    BY <2>1 DEF FrameInv
  <2>3. walk # NONE => {walk.pml, walk.pdpe, walk.pde, walk.pte} \subseteq Nat
    BY DEF PagingIInv, WalkInv, WalkSound, WalkPosition
  <2>4. PagingTypeOK
    BY <2>2, <2>3 DEF PagingTypeOK, FrameInv
  <2>5. Exclusive(Mappings, petmem_pool_list, Added)
    BY DEF FrameInv
  <2>6. ASSUME NEW e \in Mappings, NEW k \in DOMAIN petmem_pool_list
        PROVE  e[2] \notin FreeFrames(petmem_pool_list[k])
    BY <2>5 DEF Exclusive, FreeIn
  <2> QED BY <2>4, <2>5, <2>6, Zenon DEF FrameExclusive, Exclusive, Mappings
<1> QED BY <1>1, FrameInvariant, PTL
=============================================================================
