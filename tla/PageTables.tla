----------------------------- MODULE PageTables -----------------------------
(***************************************************************************)
(* The page tables of a process of virtual_memory/on_demand.c: the way to  *)
(* a page, and the loop of petmem_free_vspace over the tables.             *)
(*                                                                         *)
(* An entry is named by the indices that lead to it: <<pml>>,              *)
(* <<pml, pdpe>>, ...  The code adds pml_index*sizeof(pml4e64_t) to a      *)
(* pml4e64_t pointer and so looks at entry 8 * pml_index of the PML, which *)
(* the processor uses for other addresses, but for pml_index 0; the region *)
(* lies behind entry 0.  Where a walk goes on to a higher pml_index it     *)
(* finds an entry that is not present.                                     *)
(***************************************************************************)
EXTENDS Integers, Sequences

CONSTANTS MAX_PDPE64_ENTRIES, MAX_PDE64_ENTRIES, MAX_PTE64_ENTRIES      \* 512 each

ASSUME TableAssumption ==
    {MAX_PDPE64_ENTRIES, MAX_PDE64_ENTRIES, MAX_PTE64_ENTRIES} \subseteq Nat \ {0, 1}

\* The pages behind an entry of the PDPE table, and behind one of the PML.
PDPE_PAGES == MAX_PDE64_ENTRIES * MAX_PTE64_ENTRIES
PML_PAGES == MAX_PDPE64_ENTRIES * PDPE_PAGES

Page == 0 .. PML_PAGES - 1

Path(p) == <<0, p \div PDPE_PAGES, (p \div MAX_PTE64_ENTRIES) % MAX_PDE64_ENTRIES,
             p % MAX_PTE64_ENTRIES>>
Above(e) == {SubSeq(e, 1, k) : k \in 1 .. Len(e) - 1}

-----------------------------------------------------------------------------
\* petmem_free_vspace, its loop over the tables.  s holds the entries and the
\* four indices.
entry(s, level) == SubSeq(<<s.pml, s.pdpe, s.pde, s.pte>>, 1, level)

\* pdpe_table_is_empty, pde_table_is_empty and pte_table_is_empty, by level.
table_is_empty(s, table) ==
    LET entries == <<MAX_PDPE64_ENTRIES, MAX_PDE64_ENTRIES, MAX_PTE64_ENTRIES>>[Len(table)]
    IN \A k \in 0 .. entries - 1 : Append(table, k) \notin s.present

\* A mistaken check that looks at the first entry only.
drop_if_first_absent(s, table) ==
    IF Append(table, 0) \notin s.present THEN s.present \ {table} ELSE s.present

\* The table behind an entry is freed when it is empty.
drop_if_empty(s, table) ==
    IF table_is_empty(s, table) THEN s.present \ {table} ELSE s.present

increment_pml_index(s) == [s EXCEPT !.pml = @ + 1]

increment_pdpe_index(s) ==
    IF s.pdpe + 1 < MAX_PDPE64_ENTRIES THEN [s EXCEPT !.pdpe = @ + 1]
    ELSE increment_pml_index([s EXCEPT !.pdpe = 0, !.present = drop_if_empty(s, entry(s, 1))])

increment_pde_index(s) ==
    IF s.pde + 1 < MAX_PDE64_ENTRIES THEN [s EXCEPT !.pde = @ + 1]
    ELSE increment_pdpe_index([s EXCEPT !.pde = 0, !.present = drop_if_empty(s, entry(s, 2))])

increment_pte_index(s) ==
    IF s.pte + 1 < MAX_PTE64_ENTRIES THEN [s EXCEPT !.pte = @ + 1]
    ELSE increment_pde_index([s EXCEPT !.pte = 0, !.present = drop_if_empty(s, entry(s, 3))])

\* What is left of the three tables.
pdpes_left(s) == MAX_PDPE64_ENTRIES - s.pdpe
pdes_left(s) == MAX_PDE64_ENTRIES - s.pde
ptes_left(s) == MAX_PTE64_ENTRIES - s.pte

\* Mistaken counts: a missing table as a full one, and one page too few.
skipped_full(s, level) == <<PML_PAGES, PDPE_PAGES, MAX_PTE64_ENTRIES>>[level]

skipped_short(s, level) ==
    CASE level = 1 -> pdpes_left(s) * pdes_left(s) * ptes_left(s)
      [] level = 2 -> pdes_left(s) * ptes_left(s)
      [] level = 3 -> ptes_left(s) - 1

\* The pages that the missing entry of a level is taken to stand for.
skipped(s, level) ==
    CASE level = 1 -> pdpes_left(s) * pdes_left(s) * ptes_left(s)
      [] level = 2 -> pdes_left(s) * ptes_left(s)
      [] level = 3 -> ptes_left(s)

\* A mistaken step that stays where it is when the page table is missing.
walk_step_stuck(s) ==
    IF entry(s, 3) \notin s.present THEN s
    ELSE increment_pte_index([s EXCEPT !.freed = @ + 1, !.present = @ \ {entry(s, 4)}])

\* One turn of the loop: skip what a missing entry stands for, or clear a PTE.
walk_step(s) ==
    IF entry(s, 1) \notin s.present
    THEN [increment_pml_index(s) EXCEPT !.freed = @ + skipped(s, 1), !.pdpe = 0, !.pde = 0, !.pte = 0]
    ELSE IF entry(s, 2) \notin s.present
    THEN [increment_pdpe_index(s) EXCEPT !.freed = @ + skipped(s, 2), !.pde = 0, !.pte = 0]
    ELSE IF entry(s, 3) \notin s.present
    THEN [increment_pde_index(s) EXCEPT !.freed = @ + skipped(s, 3), !.pte = 0]
    ELSE increment_pte_index([s EXCEPT !.freed = @ + 1, !.present = @ \ {entry(s, 4)}])
=============================================================================
