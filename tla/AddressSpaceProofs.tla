------------------------- MODULE AddressSpaceProofs -------------------------
(***************************************************************************)
(* The two data structures of a process.  The ranges of the memory map     *)
(* cover the region without gap or overlap, free neighbours are always     *)
(* combined, and allocations and frees leave the other ranges alone, for   *)
(* any region, any requests and any length of the list.  The page tables   *)
(* stay a tree when a page is entered and in every turn of the loop of     *)
(* petmem_free_vspace, and what a turn counts as freed is what it has left *)
(* unmapped behind it, however large the tables are; OnDemandProofs uses   *)
(* this.                                                                   *)
(***************************************************************************)
EXTENDS MemMap, PageTables, WellFoundedInduction, TLAPS

\* What the lemmas about the list of nodes and about the ways through the
\* tables use of sequences.  A node of the list, by its place:
LEMMA ElementOfSeq ==
    ASSUME NEW S, NEW seq \in Seq(S), NEW n \in 1 .. Len(seq) PROVE seq[n] \in S
OBVIOUS

\* the places of the list of nodes,
LEMMA LenProperties ==
    ASSUME NEW S, NEW seq \in Seq(S)
    PROVE  Len(seq) \in Nat /\ seq \in [1 .. Len(seq) -> S] /\ DOMAIN seq = 1 .. Len(seq)
OBVIOUS

\* the list that petmem_deinit_process has emptied,
LEMMA EmptySeq ==
    ASSUME NEW S
    PROVE  /\ << >> \in Seq(S) /\ Len(<< >>) = 0
           /\ \A seq \in Seq(S) : seq # << >> => Len(seq) \in Nat \ {0}
OBVIOUS

\* and the list without its first node, which petmem_deinit_process frees.
LEMMA HeadTailProperties ==
    ASSUME NEW S, NEW s \in Seq(S), s # << >>
    PROVE  /\ Head(s) \in S /\ Tail(s) \in Seq(S) /\ Len(Tail(s)) = Len(s) - 1
           /\ \A i \in 1 .. Len(Tail(s)) : Tail(s)[i] = s[i + 1]
OBVIOUS

-----------------------------------------------------------------------------
\* The entries on the way to a page of the process, and a set of them that is
\* closed upwards.
Entry == {SubSeq(Path(p), 1, k) : p \in Page, k \in 1 .. 4}
Closed(P) == P \subseteq Entry /\ \A e \in P : Above(e) \subseteq P

\* The number of entries of a table of the three lower levels.
Entries == <<MAX_PDPE64_ENTRIES, MAX_PDE64_ENTRIES, MAX_PTE64_ENTRIES>>

\* The index of an entry in a table of that many entries.
LEMMA Quotient ==
    ASSUME NEW n \in Nat \ {0}, NEW d \in Nat \ {0}, NEW x \in Nat, x < n * d
    PROVE  x \div d \in 0 .. n - 1
<1>1. x \div d \in Int
  OBVIOUS
<1>2. x \div d >= 0
  OBVIOUS
<1>3. x \div d < n
  OBVIOUS
<1> QED BY <1>1, <1>2, <1>3

\* Products, quotients and remainders of natural numbers.
LEMMA Numbers ==
    ASSUME NEW n \in Nat \ {0}, NEW d \in Nat \ {0}, NEW x \in Nat
    PROVE  n * d \in Nat \ {0} /\ x \div d \in Nat /\ x % d \in 0 .. d - 1
OBVIOUS

\* The indices that PML4E64_INDEX, PDPE64_INDEX and so on take from an address
\* are in their tables.
LEMMA PathIndices ==
    ASSUME NEW p \in Page
    PROVE  /\ Path(p) \in Seq(Nat) /\ Len(Path(p)) = 4
           /\ \A k \in 1 .. 3 : Path(p)[k + 1] \in 0 .. Entries[k] - 1
<1>1. /\ MAX_PDPE64_ENTRIES \in Nat \ {0} /\ MAX_PDE64_ENTRIES \in Nat \ {0}
      /\ MAX_PTE64_ENTRIES \in Nat \ {0}
  BY TableAssumption
<1>2. PDPE_PAGES \in Nat \ {0}
  BY <1>1, Numbers DEF PDPE_PAGES
<1>3. p \in Nat /\ p < MAX_PDPE64_ENTRIES * PDPE_PAGES
  <2>1. PML_PAGES \in Nat \ {0}
    BY <1>1, <1>2, Numbers DEF PML_PAGES
  <2> QED BY <2>1 DEF Page, PML_PAGES
<1>4. p \div PDPE_PAGES \in 0 .. MAX_PDPE64_ENTRIES - 1
  BY <1>1, <1>2, <1>3, Quotient, Zenon
<1>5. (p \div MAX_PTE64_ENTRIES) % MAX_PDE64_ENTRIES \in 0 .. MAX_PDE64_ENTRIES - 1
  BY <1>1, <1>3, Numbers
<1>6. p % MAX_PTE64_ENTRIES \in 0 .. MAX_PTE64_ENTRIES - 1
  BY <1>1, <1>3, Numbers
<1> DEFINE a == p \div PDPE_PAGES
           b == (p \div MAX_PTE64_ENTRIES) % MAX_PDE64_ENTRIES
           c == p % MAX_PTE64_ENTRIES
<1>7. Path(p) = <<0, a, b, c>>
  BY DEF Path
<1>8. a \in 0 .. MAX_PDPE64_ENTRIES - 1 /\ b \in 0 .. MAX_PDE64_ENTRIES - 1
      /\ c \in 0 .. MAX_PTE64_ENTRIES - 1
  BY <1>4, <1>5, <1>6
<1> HIDE DEF a, b, c
<1> QED BY <1>1, <1>7, <1>8 DEF Entries

\* So are those of every entry.
LEMMA EntryIndices ==
    ASSUME NEW e \in Entry
    PROVE  /\ e \in Seq(Nat) /\ Len(e) \in 1 .. 4
           /\ \A k \in 1 .. Len(e) - 1 : e[k + 1] \in 0 .. Entries[k] - 1
           /\ Above(e) \subseteq Entry
<1>1. PICK p \in Page, n \in 1 .. 4 : e = SubSeq(Path(p), 1, n)
  BY DEF Entry
<1>2. /\ Path(p) \in Seq(Nat) /\ Len(Path(p)) = 4
      /\ \A k \in 1 .. 3 : Path(p)[k + 1] \in 0 .. Entries[k] - 1
  BY PathIndices
<1> DEFINE w == Path(p)
<1> HIDE DEF w
<1>3. e \in Seq(Nat) /\ Len(e) = n /\ \A j \in 1 .. n : e[j] = w[j]
  BY <1>1, <1>2 DEF w
<1>4. ASSUME NEW k \in 1 .. Len(e) - 1 PROVE e[k + 1] \in 0 .. Entries[k] - 1
  <2>1. k \in 1 .. 3 /\ k + 1 \in 1 .. n
    BY <1>3
  <2>2. e[k + 1] = w[k + 1]
    BY <1>3, <2>1
  <2> QED BY <1>2, <2>1, <2>2 DEF w
<1>5. ASSUME NEW k \in 1 .. n - 1 PROVE SubSeq(e, 1, k) \in Entry
  <2>1. SubSeq(e, 1, k) = SubSeq(w, 1, k)
    BY <1>1, <1>2 DEF w
  <2> QED BY <2>1 DEF Entry, w
<1> QED BY <1>3, <1>4, <1>5, Zenon DEF Above

\* A table that is freed is empty: the entries that are left have all that is
\* above them.
LEMMA Dropped ==
    ASSUME NEW s, Closed(s.present), NEW table, Len(table) \in 1 .. 3
    PROVE  Closed(drop_if_empty(s, table))
<1> SUFFICES ASSUME table_is_empty(s, table) PROVE Closed(s.present \ {table})
  BY DEF drop_if_empty
<1> SUFFICES ASSUME NEW e \in s.present, NEW k \in 1 .. Len(e) - 1, SubSeq(e, 1, k) = table
             PROVE  FALSE
  BY DEF Closed, Above
<1>1. /\ e \in Seq(Nat) /\ Len(e) \in 1 .. 4 /\ e[k + 1] \in 0 .. Entries[k] - 1
  BY EntryIndices DEF Closed
<1>2. SubSeq(e, 1, k + 1) = Append(table, e[k + 1]) /\ Len(table) = k
  BY <1>1
<1>3. SubSeq(e, 1, k + 1) \in s.present
  <2>1. CASE k + 1 = Len(e)
    <3>1. SubSeq(e, 1, k + 1) = e
      BY <1>1, <2>1
    <3> QED BY <3>1, Zenon
  <2>2. CASE k + 1 # Len(e)
    <3>1. k + 1 \in 1 .. Len(e) - 1
      BY <1>1, <2>2
    <3> QED BY <3>1, Zenon DEF Closed, Above
  <2> QED BY <2>1, <2>2
<1> QED BY <1>1, <1>2, <1>3, Zenon DEF table_is_empty, Entries

\* A PTE that is cleared is above nothing.
LEMMA ClearedPTE ==
    ASSUME NEW P, Closed(P), NEW e, Len(e) = 4
    PROVE  Closed(P \ {e})
<1> SUFFICES ASSUME NEW f \in P, NEW k \in 1 .. Len(f) - 1, SubSeq(f, 1, k) = e
             PROVE  FALSE
  BY Zenon DEF Closed, Above
<1>1. f \in Seq(Nat) /\ Len(f) \in 1 .. 4
  BY EntryIndices DEF Closed
<1>2. Len(SubSeq(f, 1, k)) = k /\ k # 4
  BY <1>1
<1> QED BY <1>2

\* petmem_handle_pagefault makes every table on the way to the page.
LEMMA FaultIn ==
    ASSUME NEW Q, Closed(Q), NEW p \in Page
    PROVE  LET missing == Above(Path(p)) \ Q
           IN Closed({e \in Q : Above(e) \cap missing = {}} \cup missing \cup {Path(p)})
<1> DEFINE w == Path(p)
<1>1. w \in Seq(Nat) /\ Len(w) = 4
  BY PathIndices
<1>2. w \in Entry
  <2>1. SubSeq(w, 1, 4) = w
    BY <1>1
  <2> QED BY <2>1 DEF Entry
<1>3. Above(w) \subseteq Entry
  BY <1>2, EntryIndices
<1> HIDE DEF w
<1>4. ASSUME NEW e \in Above(w) PROVE Above(e) \subseteq Above(w)
  <2>1. PICK k \in 1 .. 3 : e = SubSeq(w, 1, k)
    BY <1>1 DEF Above
  <2>2. Len(e) = k
    BY <1>1, <2>1
  <2>3. ASSUME NEW j \in 1 .. Len(e) - 1 PROVE SubSeq(e, 1, j) \in Above(w)
    <3>1. SubSeq(e, 1, j) = SubSeq(w, 1, j) /\ j \in 1 .. Len(w) - 1
      BY <1>1, <2>1, <2>2
    <3> QED BY <3>1 DEF Above
  <2> QED BY <2>3 DEF Above
<1> DEFINE missing == Above(w) \ Q
           P == {e \in Q : Above(e) \cap missing = {}} \cup missing \cup {w}
<1>5. P = Q \cup Above(w) \cup {w}
  BY DEF Closed
<1>6. Closed(P)
  BY <1>2, <1>3, <1>4, <1>5 DEF Closed
<1> QED BY <1>6 DEF w

-----------------------------------------------------------------------------
\* The tables as one turn of the loop of petmem_free_vspace has them.
Tables(s) == "present" \in DOMAIN s /\ Closed(s.present)

\* increment_pte_index and the three functions it goes on to free the tables
\* that they leave, when they are empty.
LEMMA Increments ==
    ASSUME NEW s, Tables(s)
    PROVE  /\ Tables(increment_pml_index(s)) /\ Tables(increment_pdpe_index(s))
           /\ Tables(increment_pde_index(s)) /\ Tables(increment_pte_index(s))
<1>0. ASSUME NEW u, NEW level \in 1 .. 4 PROVE Len(entry(u, level)) = level
  <2> DEFINE w == <<u.pml, u.pdpe, u.pde, u.pte>>
  <2>1. w \in Seq({u.pml, u.pdpe, u.pde, u.pte}) /\ Len(w) = 4
    OBVIOUS
  <2> HIDE DEF w
  <2>2. Len(SubSeq(w, 1, level)) = level
    BY <2>1
  <2> QED BY <2>2 DEF entry, w
<1>1. ASSUME NEW u, Tables(u) PROVE Tables(increment_pml_index(u))
  BY <1>1 DEF Tables, increment_pml_index
<1>2. ASSUME NEW u, Tables(u) PROVE Tables(increment_pdpe_index(u))
  <2> DEFINE d == drop_if_empty(u, entry(u, 1))
             v == [u EXCEPT !.pdpe = 0, !.present = d]
  <2>1. Closed(d)
    BY <1>0, <1>2, Dropped DEF Tables
  <2> HIDE DEF d
  <2>2. Tables(v) /\ Tables([u EXCEPT !.pdpe = @ + 1])
    BY <1>2, <2>1 DEF Tables
  <2>3. Tables(increment_pml_index(v))
    BY <1>1, <2>2
  <2> QED BY <2>2, <2>3 DEF increment_pdpe_index, d
<1>3. ASSUME NEW u, Tables(u) PROVE Tables(increment_pde_index(u))
  <2> DEFINE d == drop_if_empty(u, entry(u, 2))
             v == [u EXCEPT !.pde = 0, !.present = d]
  <2>1. Closed(d)
    BY <1>0, <1>3, Dropped DEF Tables
  <2> HIDE DEF d
  <2>2. Tables(v) /\ Tables([u EXCEPT !.pde = @ + 1])
    BY <1>3, <2>1 DEF Tables
  <2>3. Tables(increment_pdpe_index(v))
    BY <1>2, <2>2
  <2> QED BY <2>2, <2>3 DEF increment_pde_index, d
<1>4. Tables(increment_pte_index(s))
  <2> DEFINE d == drop_if_empty(s, entry(s, 3))
             v == [s EXCEPT !.pte = 0, !.present = d]
  <2>1. Closed(d)
    BY <1>0, Dropped DEF Tables
  <2> HIDE DEF d
  <2>2. Tables(v) /\ Tables([s EXCEPT !.pte = @ + 1])
    BY <2>1 DEF Tables
  <2>3. Tables(increment_pde_index(v))
    BY <1>3, <2>2
  <2> QED BY <2>2, <2>3 DEF increment_pte_index, d
<1> QED BY <1>1, <1>2, <1>3, <1>4

\* One turn of the loop.
LEMMA WalkStep ==
    ASSUME NEW s, Tables(s)
    PROVE  Closed(walk_step(s).present)
<1> DEFINE a == increment_pml_index(s)
           b == increment_pdpe_index(s)
           c == increment_pde_index(s)
           d == [s EXCEPT !.freed = @ + 1, !.present = @ \ {entry(s, 4)}]
           e == increment_pte_index(d)
<1>1. Tables(a) /\ Tables(b) /\ Tables(c)
  BY Increments
<1>2. Tables(e)
  <2>1. Len(entry(s, 4)) = 4
    <3> DEFINE w == <<s.pml, s.pdpe, s.pde, s.pte>>
    <3>1. w \in Seq({s.pml, s.pdpe, s.pde, s.pte}) /\ Len(w) = 4
      OBVIOUS
    <3> HIDE DEF w
    <3>2. Len(SubSeq(w, 1, 4)) = 4
      BY <3>1
    <3> QED BY <3>2 DEF entry, w
  <2>2. Closed(s.present \ {entry(s, 4)})
    BY <2>1, ClearedPTE DEF Tables
  <2>3. Tables(d)
    BY <2>2 DEF Tables
  <2> HIDE DEF d
  <2> QED BY <2>3, Increments
<1>3. \A x : [a EXCEPT !.freed = x, !.pdpe = 0, !.pde = 0, !.pte = 0].present = a.present
  BY <1>1 DEF Tables
<1>4. \A x : [b EXCEPT !.freed = x, !.pde = 0, !.pte = 0].present = b.present
  BY <1>1 DEF Tables
<1>5. \A x : [c EXCEPT !.freed = x, !.pte = 0].present = c.present
  BY <1>1 DEF Tables
<1> HIDE DEF a, b, c, d, e
<1>6. walk_step(s).present \in {a.present, b.present, c.present, e.present}
  BY <1>3, <1>4, <1>5 DEF walk_step, a, b, c, d, e
<1> QED BY <1>1, <1>2, <1>6 DEF Tables


\* The page that the four indices name.
Position(a, b, c) == a * PDPE_PAGES + b * MAX_PTE64_ENTRIES + c

\* Division with remainder.
LEMMA Remainder ==
    ASSUME NEW d \in Nat \ {0}, NEW x \in Nat
    PROVE  \E q \in Nat, r \in 0 .. d - 1 : q = x \div d /\ r = x % d /\ x = d * q + r
<1> DEFINE q == x \div d
           r == x - d * q
<1>1. q \in Nat /\ d * q \in Nat
  OBVIOUS
<1>2. d * (x \div d) <= x
  OBVIOUS
<1>3. x < d * (x \div d) + d
  OBVIOUS
<1>d. q = x \div d
  OBVIOUS
<1> HIDE DEF q
<1>4. r \in 0 .. d - 1 /\ x = d * q + r
  BY <1>1, <1>2, <1>3, <1>d
<1> HIDE DEF r
<1>5. x % d = r
  BY <1>1, <1>4
<1> QED BY <1>1, <1>d, <1>4, <1>5, Zenon

\* ... which is unique.
LEMMA Quotients ==
    ASSUME NEW d \in Nat \ {0}, NEW q \in Nat, NEW r \in 0 .. d - 1
    PROVE  (d * q + r) \div d = q /\ (d * q + r) % d = r
<1> DEFINE x == d * q + r
<1>1. x \in Nat
  OBVIOUS
<1> HIDE DEF x
<1>2. x = d * q + r
  BY DEF x
<1>3. x \div d = q
  BY <1>1, <1>2
<1>4. x % d = r
  BY <1>1, <1>2
<1> QED BY <1>3, <1>4 DEF x

\* The sizes of the tables.
LEMMA Sizes ==
    /\ MAX_PDPE64_ENTRIES \in Nat \ {0} /\ MAX_PDE64_ENTRIES \in Nat \ {0}
    /\ MAX_PTE64_ENTRIES \in Nat \ {0}
    /\ PDPE_PAGES \in Nat \ {0} /\ PML_PAGES \in Nat \ {0}
<1>1. /\ MAX_PDPE64_ENTRIES \in Nat \ {0} /\ MAX_PDE64_ENTRIES \in Nat \ {0}
      /\ MAX_PTE64_ENTRIES \in Nat \ {0}
  BY TableAssumption
<1>2. PDPE_PAGES \in Nat \ {0}
  BY <1>1, Numbers DEF PDPE_PAGES
<1> QED BY <1>1, <1>2, Numbers DEF PML_PAGES

\* A page lies where its indices say.
LEMMA PathPosition ==
    ASSUME NEW p \in Nat
    PROVE  /\ Path(p)[1] = 0 /\ Path(p)[2] \in Nat /\ Path(p)[3] \in 0 .. MAX_PDE64_ENTRIES - 1
           /\ Path(p)[4] \in 0 .. MAX_PTE64_ENTRIES - 1
           /\ p = Position(Path(p)[2], Path(p)[3], Path(p)[4])
<1> DEFINE D == MAX_PDE64_ENTRIES
           T == MAX_PTE64_ENTRIES
<1>1. D \in Nat \ {0} /\ T \in Nat \ {0} /\ PDPE_PAGES = D * T
  BY Sizes DEF PDPE_PAGES
<1> HIDE DEF D, T
<1>2. PICK q \in Nat, c \in 0 .. T - 1 : q = p \div T /\ c = p % T /\ p = T * q + c
  BY <1>1, Remainder, Zenon
<1>3. PICK a \in Nat, b \in 0 .. D - 1 : a = q \div D /\ b = q % D /\ q = D * a + b
  BY <1>1, Remainder, Zenon
<1>4. p = (D * T) * a + (T * b + c) /\ p = a * (D * T) + b * T + c
  <2>1. p = T * q + c /\ q = D * a + b
    BY <1>2, <1>3, Zenon
  <2> QED BY ONLY <2>1, <1>1, a \in Nat, b \in 0 .. D - 1, c \in 0 .. T - 1, q \in Nat
<1>5. T * b + c \in 0 .. D * T - 1
  <2>1. T * b <= T * (D - 1)
    BY <1>1, <1>3
  <2>2. T * (D - 1) = D * T - T
    BY <1>1
  <2> QED BY <1>1, <1>2, <1>3, <2>1, <2>2
<1>6. p \div PDPE_PAGES = a
  <2> DEFINE d == D * T
             r == T * b + c
  <2>1. d \in Nat \ {0} /\ r \in 0 .. d - 1 /\ p = d * a + r
    BY <1>1, <1>4, <1>5, Numbers
  <2> HIDE DEF d, r
  <2>2. p \div d = a
    BY <1>3, <2>1, Quotients, Zenon
  <2> QED BY <1>1, <2>2 DEF d
<1>7. Path(p) = <<0, a, b, c>>
  BY <1>2, <1>3, <1>6, Zenon DEF Path, D, T
<1> QED BY <1>1, <1>2, <1>3, <1>4, <1>7 DEF Position, D, T

-----------------------------------------------------------------------------
\* A record as the loop of petmem_free_vspace has it.
Walker(s) == {"pml", "pdpe", "pde", "pte", "freed", "present"} \subseteq DOMAIN s

\* Freeing tables unmaps no page.
PagesKept(P, Q) == Q \subseteq P /\ \A e \in P : Len(e) = 4 => e \in Q

\* drop_if_empty frees a table or nothing.
LEMMA DropKeepsPages ==
    ASSUME NEW s, NEW table, Len(table) \in 1 .. 3
    PROVE  PagesKept(s.present, drop_if_empty(s, table))
BY DEF PagesKept, drop_if_empty

\* Sequences that agree on their first elements.
LEMMA SamePrefix ==
    ASSUME NEW S, NEW x \in Seq(S), NEW y \in Seq(S), NEW k \in 1 .. Len(x), k <= Len(y),
           \A j \in 1 .. k : x[j] = y[j]
    PROVE  SubSeq(x, 1, k) = SubSeq(y, 1, k)
OBVIOUS

\* The entry of a level has that many indices.
LEMMA EntryLength ==
    ASSUME NEW s, NEW level \in 1 .. 4
    PROVE  Len(entry(s, level)) = level
<1> DEFINE w == <<s.pml, s.pdpe, s.pde, s.pte>>
<1>1. w \in Seq({s.pml, s.pdpe, s.pde, s.pte}) /\ Len(w) = 4
  OBVIOUS
<1> HIDE DEF w
<1>2. Len(SubSeq(w, 1, level)) = level
  BY <1>1
<1> QED BY <1>2 DEF entry, w

\* increment_pdpe_index goes on to the next entry, or to the next PML entry.
LEMMA NextPdpe ==
    ASSUME NEW s, Walker(s)
    PROVE  LET v == increment_pdpe_index(s)
           IN /\ Walker(v) /\ v.freed = s.freed /\ PagesKept(s.present, v.present)
              /\ \/ /\ v.pml = s.pml + 1 /\ ~ (s.pdpe + 1 < MAX_PDPE64_ENTRIES)
                    /\ v.pdpe = 0 /\ v.pde = s.pde /\ v.pte = s.pte
                 \/ /\ v.pml = s.pml /\ v.pdpe = s.pdpe + 1 /\ v.pde = s.pde /\ v.pte = s.pte
                    /\ v.present = s.present
<1> DEFINE d == drop_if_empty(s, entry(s, 1))
<1>1. PagesKept(s.present, d) /\ PagesKept(s.present, s.present)
  <2>1. Len(entry(s, 1)) = 1
    BY EntryLength
  <2> QED BY <2>1, DropKeepsPages DEF PagesKept
<1> HIDE DEF d
<1>2. CASE s.pdpe + 1 < MAX_PDPE64_ENTRIES
  <2>1. increment_pdpe_index(s) = [s EXCEPT !.pdpe = @ + 1]
    BY <1>2 DEF increment_pdpe_index
  <2> QED BY <1>1, <2>1 DEF Walker
<1>3. CASE ~ (s.pdpe + 1 < MAX_PDPE64_ENTRIES)
  <2>1. increment_pdpe_index(s) = [[s EXCEPT !.pdpe = 0, !.present = d] EXCEPT !.pml = @ + 1]
    BY <1>3 DEF increment_pdpe_index, increment_pml_index, d
  <2> QED BY <1>1, <1>3, <2>1 DEF Walker
<1> QED BY <1>2, <1>3

\* increment_pde_index the same one level down.
LEMMA NextPde ==
    ASSUME NEW s, Walker(s)
    PROVE  LET v == increment_pde_index(s)
           IN /\ Walker(v) /\ v.freed = s.freed /\ PagesKept(s.present, v.present)
              /\ \/ /\ s.pde + 1 < MAX_PDE64_ENTRIES
                    /\ v.pml = s.pml /\ v.pdpe = s.pdpe /\ v.pde = s.pde + 1 /\ v.pte = s.pte
                    /\ v.present = s.present
                 \/ /\ ~ (s.pde + 1 < MAX_PDE64_ENTRIES)
                    /\ \/ /\ v.pml = s.pml + 1 /\ ~ (s.pdpe + 1 < MAX_PDPE64_ENTRIES)
                          /\ v.pdpe = 0 /\ v.pde = 0 /\ v.pte = s.pte
                       \/ v.pml = s.pml /\ v.pdpe = s.pdpe + 1 /\ v.pde = 0 /\ v.pte = s.pte
<1> DEFINE d == drop_if_empty(s, entry(s, 2))
           u == [s EXCEPT !.pde = 0, !.present = d]
           v == increment_pde_index(s)
           w == increment_pdpe_index(u)
<1>1. PagesKept(s.present, d) /\ PagesKept(s.present, s.present)
  <2>1. Len(entry(s, 2)) = 2
    BY EntryLength
  <2> QED BY <2>1, DropKeepsPages DEF PagesKept
<1>2. CASE s.pde + 1 < MAX_PDE64_ENTRIES
  <2>1. increment_pde_index(s) = [s EXCEPT !.pde = @ + 1]
    BY <1>2 DEF increment_pde_index
  <2> QED BY <1>1, <1>2, <2>1 DEF Walker
<1>3. CASE ~ (s.pde + 1 < MAX_PDE64_ENTRIES)
  <2>1. v = w
    BY <1>3 DEF increment_pde_index
  <2> HIDE DEF d, v
  <2>2. /\ Walker(u) /\ u.freed = s.freed /\ u.present = d /\ u.pml = s.pml /\ u.pdpe = s.pdpe
        /\ u.pde = 0 /\ u.pte = s.pte
    BY DEF Walker
  <2> HIDE DEF u
  <2>3. /\ Walker(w) /\ w.freed = u.freed /\ PagesKept(u.present, w.present)
        /\ \/ /\ w.pml = u.pml + 1 /\ ~ (u.pdpe + 1 < MAX_PDPE64_ENTRIES)
              /\ w.pdpe = 0 /\ w.pde = u.pde /\ w.pte = u.pte
           \/ w.pml = u.pml /\ w.pdpe = u.pdpe + 1 /\ w.pde = u.pde /\ w.pte = u.pte
    BY <2>2, NextPdpe
  <2> HIDE DEF w
  <2>4. PagesKept(s.present, w.present)
    BY <1>1, <2>2, <2>3 DEF PagesKept
  <2>5. /\ Walker(v) /\ v.freed = s.freed /\ PagesKept(s.present, v.present)
        /\ \/ /\ v.pml = s.pml + 1 /\ ~ (s.pdpe + 1 < MAX_PDPE64_ENTRIES)
              /\ v.pdpe = 0 /\ v.pde = 0 /\ v.pte = s.pte
           \/ v.pml = s.pml /\ v.pdpe = s.pdpe + 1 /\ v.pde = 0 /\ v.pte = s.pte
    BY <2>1, <2>2, <2>3, <2>4
  <2> QED BY <1>3, <2>5 DEF v
<1> QED BY <1>2, <1>3

\* increment_pte_index the same at the lowest level.
LEMMA NextPte ==
    ASSUME NEW s, Walker(s)
    PROVE  LET v == increment_pte_index(s)
           IN /\ Walker(v) /\ v.freed = s.freed /\ PagesKept(s.present, v.present)
              /\ \/ /\ s.pte + 1 < MAX_PTE64_ENTRIES
                    /\ v.pml = s.pml /\ v.pdpe = s.pdpe /\ v.pde = s.pde /\ v.pte = s.pte + 1
                    /\ v.present = s.present
                 \/ /\ ~ (s.pte + 1 < MAX_PTE64_ENTRIES) /\ s.pde + 1 < MAX_PDE64_ENTRIES
                    /\ v.pml = s.pml /\ v.pdpe = s.pdpe /\ v.pde = s.pde + 1 /\ v.pte = 0
                 \/ /\ ~ (s.pte + 1 < MAX_PTE64_ENTRIES) /\ ~ (s.pde + 1 < MAX_PDE64_ENTRIES)
                    /\ \/ /\ v.pml = s.pml + 1 /\ ~ (s.pdpe + 1 < MAX_PDPE64_ENTRIES)
                          /\ v.pdpe = 0 /\ v.pde = 0 /\ v.pte = 0
                       \/ v.pml = s.pml /\ v.pdpe = s.pdpe + 1 /\ v.pde = 0 /\ v.pte = 0
<1> DEFINE d == drop_if_empty(s, entry(s, 3))
           u == [s EXCEPT !.pte = 0, !.present = d]
           v == increment_pte_index(s)
           w == increment_pde_index(u)
<1>1. PagesKept(s.present, d) /\ PagesKept(s.present, s.present)
  <2>1. Len(entry(s, 3)) = 3
    BY EntryLength
  <2> QED BY <2>1, DropKeepsPages DEF PagesKept
<1>2. CASE s.pte + 1 < MAX_PTE64_ENTRIES
  <2>1. increment_pte_index(s) = [s EXCEPT !.pte = @ + 1]
    BY <1>2 DEF increment_pte_index
  <2> QED BY <1>1, <1>2, <2>1 DEF Walker
<1>3. CASE ~ (s.pte + 1 < MAX_PTE64_ENTRIES)
  <2>1. v = w
    BY <1>3 DEF increment_pte_index
  <2> HIDE DEF d, v
  <2>2. /\ Walker(u) /\ u.freed = s.freed /\ u.present = d /\ u.pml = s.pml /\ u.pdpe = s.pdpe
        /\ u.pde = s.pde /\ u.pte = 0
    BY DEF Walker
  <2> HIDE DEF u
  <2>3. /\ Walker(w) /\ w.freed = u.freed /\ PagesKept(u.present, w.present)
        /\ \/ /\ u.pde + 1 < MAX_PDE64_ENTRIES
              /\ w.pml = u.pml /\ w.pdpe = u.pdpe /\ w.pde = u.pde + 1 /\ w.pte = u.pte
           \/ /\ ~ (u.pde + 1 < MAX_PDE64_ENTRIES)
              /\ \/ /\ w.pml = u.pml + 1 /\ ~ (u.pdpe + 1 < MAX_PDPE64_ENTRIES)
                    /\ w.pdpe = 0 /\ w.pde = 0 /\ w.pte = u.pte
                 \/ w.pml = u.pml /\ w.pdpe = u.pdpe + 1 /\ w.pde = 0 /\ w.pte = u.pte
    BY <2>2, NextPde
  <2> HIDE DEF w
  <2>4. PagesKept(s.present, w.present)
    BY <1>1, <2>2, <2>3 DEF PagesKept
  <2>5. /\ Walker(v) /\ v.freed = s.freed /\ PagesKept(s.present, v.present)
        /\ \/ /\ s.pde + 1 < MAX_PDE64_ENTRIES
              /\ v.pml = s.pml /\ v.pdpe = s.pdpe /\ v.pde = s.pde + 1 /\ v.pte = 0
           \/ /\ ~ (s.pde + 1 < MAX_PDE64_ENTRIES)
              /\ \/ /\ v.pml = s.pml + 1 /\ ~ (s.pdpe + 1 < MAX_PDPE64_ENTRIES)
                    /\ v.pdpe = 0 /\ v.pde = 0 /\ v.pte = 0
                 \/ v.pml = s.pml /\ v.pdpe = s.pdpe + 1 /\ v.pde = 0 /\ v.pte = 0
    BY <2>1, <2>2, <2>3, <2>4
  <2> QED BY <1>3, <2>5 DEF v
<1> QED BY <1>2, <1>3

\* On to the next entry of the PDPE table, and to the next page table.
NextDirectory(s, v) ==
    \/ /\ v.pml = s.pml + 1 /\ ~ (s.pdpe + 1 < MAX_PDPE64_ENTRIES)
       /\ v.pdpe = 0 /\ v.pde = 0 /\ v.pte = 0
    \/ v.pml = s.pml /\ v.pdpe = s.pdpe + 1 /\ v.pde = 0 /\ v.pte = 0
NextTable(s, v) ==
    IF s.pde + 1 < MAX_PDE64_ENTRIES
    THEN v.pml = s.pml /\ v.pdpe = s.pdpe /\ v.pde = s.pde + 1 /\ v.pte = 0
    ELSE NextDirectory(s, v)

\* What a turn of the loop may do: go past a missing entry of one of the three
\* levels, or clear a PTE.
SkipPML(s, v) ==
    /\ entry(s, 1) \notin s.present
    /\ v.freed = s.freed + (MAX_PDPE64_ENTRIES - s.pdpe) * (MAX_PDE64_ENTRIES - s.pde)
                           * (MAX_PTE64_ENTRIES - s.pte)
    /\ v.pml = s.pml + 1 /\ v.pdpe = 0 /\ v.pde = 0 /\ v.pte = 0
SkipDirectory(s, v) ==
    /\ entry(s, 2) \notin s.present
    /\ v.freed = s.freed + (MAX_PDE64_ENTRIES - s.pde) * (MAX_PTE64_ENTRIES - s.pte)
    /\ NextDirectory(s, v)
SkipTable(s, v) ==
    /\ entry(s, 3) \notin s.present
    /\ v.freed = s.freed + (MAX_PTE64_ENTRIES - s.pte)
    /\ NextTable(s, v)
ClearPTE(s, v) ==
    /\ entry(s, 2) \in s.present /\ entry(s, 4) \notin v.present
    /\ v.freed = s.freed + 1
    /\ IF s.pte + 1 < MAX_PTE64_ENTRIES
       THEN /\ v.pml = s.pml /\ v.pdpe = s.pdpe /\ v.pde = s.pde /\ v.pte = s.pte + 1
            /\ v.present = s.present \ {entry(s, 4)}
       ELSE NextTable(s, v)

\* One turn of the loop, by what it does.
LEMMA TurnOfTheLoop ==
    ASSUME NEW s, Walker(s)
    PROVE  LET v == walk_step(s)
           IN /\ v.present \subseteq s.present
              /\ \A e \in s.present : Len(e) = 4 /\ e \notin v.present => e = entry(s, 4)
              /\ SkipPML(s, v) \/ SkipDirectory(s, v) \/ SkipTable(s, v) \/ ClearPTE(s, v)
<1> DEFINE v == walk_step(s)
           Good == /\ v.present \subseteq s.present
                   /\ \A e \in s.present : Len(e) = 4 /\ e \notin v.present => e = entry(s, 4)
<1>1. CASE entry(s, 1) \notin s.present
  <2> DEFINE w == increment_pml_index(s)
             n == skipped(s, 1)
  <2>1. v = [w EXCEPT !.freed = @ + n, !.pdpe = 0, !.pde = 0, !.pte = 0]
    BY <1>1 DEF walk_step
  <2>2. n = (MAX_PDPE64_ENTRIES - s.pdpe) * (MAX_PDE64_ENTRIES - s.pde) * (MAX_PTE64_ENTRIES - s.pte)
    BY DEF skipped, pdpes_left, pdes_left, ptes_left
  <2>3. w.pml = s.pml + 1 /\ w.present = s.present /\ w.freed = s.freed /\ Walker(w)
    BY DEF increment_pml_index, Walker
  <2> HIDE DEF v, w, n
  <2>4. /\ v.pml = s.pml + 1 /\ v.present = s.present /\ v.freed = s.freed + n
        /\ v.pdpe = 0 /\ v.pde = 0 /\ v.pte = 0
    BY <2>1, <2>3 DEF Walker
  <2> QED BY <1>1, <2>2, <2>4, Zenon DEF SkipPML, v
<1>2. CASE entry(s, 1) \in s.present /\ entry(s, 2) \notin s.present
  <2> DEFINE w == increment_pdpe_index(s)
             n == skipped(s, 2)
  <2>1. v = [w EXCEPT !.freed = @ + n, !.pde = 0, !.pte = 0]
    BY <1>2 DEF walk_step
  <2>2. n = (MAX_PDE64_ENTRIES - s.pde) * (MAX_PTE64_ENTRIES - s.pte)
    BY DEF skipped, pdes_left, ptes_left
  <2>3. /\ Walker(w) /\ w.freed = s.freed /\ PagesKept(s.present, w.present)
        /\ \/ w.pml = s.pml + 1 /\ w.pdpe = 0 /\ ~ (s.pdpe + 1 < MAX_PDPE64_ENTRIES)
           \/ w.pml = s.pml /\ w.pdpe = s.pdpe + 1
    BY NextPdpe
  <2> HIDE DEF v, w, n
  <2>4. /\ v.pml = w.pml /\ v.pdpe = w.pdpe /\ v.pde = 0 /\ v.pte = 0 /\ v.freed = w.freed + n
        /\ v.present = w.present
    BY <2>1, <2>3 DEF Walker
  <2>5. SkipDirectory(s, v)
    BY <1>2, <2>2, <2>3, <2>4 DEF SkipDirectory, NextDirectory
  <2>6. Good
    BY <2>3, <2>4 DEF PagesKept
  <2> QED BY <2>5, <2>6 DEF v
<1>3. CASE entry(s, 1) \in s.present /\ entry(s, 2) \in s.present /\ entry(s, 3) \notin s.present
  <2> DEFINE w == increment_pde_index(s)
             n == skipped(s, 3)
  <2>1. v = [w EXCEPT !.freed = @ + n, !.pte = 0]
    BY <1>3 DEF walk_step
  <2>2. n = MAX_PTE64_ENTRIES - s.pte
    BY DEF skipped, ptes_left
  <2>3. /\ Walker(w) /\ w.freed = s.freed /\ PagesKept(s.present, w.present)
        /\ \/ /\ s.pde + 1 < MAX_PDE64_ENTRIES
              /\ w.pml = s.pml /\ w.pdpe = s.pdpe /\ w.pde = s.pde + 1
           \/ /\ ~ (s.pde + 1 < MAX_PDE64_ENTRIES)
              /\ \/ /\ w.pml = s.pml + 1 /\ ~ (s.pdpe + 1 < MAX_PDPE64_ENTRIES)
                    /\ w.pdpe = 0 /\ w.pde = 0
                 \/ w.pml = s.pml /\ w.pdpe = s.pdpe + 1 /\ w.pde = 0
    BY NextPde
  <2> HIDE DEF v, w, n
  <2>4. /\ v.pml = w.pml /\ v.pdpe = w.pdpe /\ v.pde = w.pde /\ v.pte = 0 /\ v.freed = w.freed + n
        /\ v.present = w.present
    BY <2>1, <2>3 DEF Walker
  <2>5. SkipTable(s, v)
    BY <1>3, <2>2, <2>3, <2>4 DEF SkipTable, NextTable, NextDirectory
  <2>6. Good
    BY <2>3, <2>4 DEF PagesKept
  <2> QED BY <2>5, <2>6 DEF v
<1>4. CASE entry(s, 1) \in s.present /\ entry(s, 2) \in s.present /\ entry(s, 3) \in s.present
  <2> DEFINE P == s.present \ {entry(s, 4)}
             u == [s EXCEPT !.freed = @ + 1, !.present = P]
  <2>1. v = increment_pte_index(u)
    BY <1>4 DEF walk_step
  <2>2. /\ Walker(u) /\ u.freed = s.freed + 1 /\ u.pml = s.pml /\ u.pdpe = s.pdpe
        /\ u.pde = s.pde /\ u.pte = s.pte /\ u.present = P
    BY DEF Walker
  <2> HIDE DEF u, v
  <2>3. /\ Walker(v) /\ v.freed = u.freed /\ PagesKept(u.present, v.present)
        /\ \/ /\ u.pte + 1 < MAX_PTE64_ENTRIES
              /\ v.pml = u.pml /\ v.pdpe = u.pdpe /\ v.pde = u.pde /\ v.pte = u.pte + 1
              /\ v.present = u.present
           \/ /\ ~ (u.pte + 1 < MAX_PTE64_ENTRIES) /\ u.pde + 1 < MAX_PDE64_ENTRIES
              /\ v.pml = u.pml /\ v.pdpe = u.pdpe /\ v.pde = u.pde + 1 /\ v.pte = 0
           \/ /\ ~ (u.pte + 1 < MAX_PTE64_ENTRIES) /\ ~ (u.pde + 1 < MAX_PDE64_ENTRIES)
              /\ \/ /\ v.pml = u.pml + 1 /\ ~ (u.pdpe + 1 < MAX_PDPE64_ENTRIES)
                    /\ v.pdpe = 0 /\ v.pde = 0 /\ v.pte = 0
                 \/ v.pml = u.pml /\ v.pdpe = u.pdpe + 1 /\ v.pde = 0 /\ v.pte = 0
    BY <2>1, <2>2, NextPte, Zenon
  <2>4. Good
    BY <2>2, <2>3 DEF PagesKept
  <2>5. entry(s, 4) \notin v.present
    BY <2>2, <2>3 DEF PagesKept
  <2>6. ClearPTE(s, v)
    BY <1>4, <2>2, <2>3, <2>5 DEF ClearPTE, NextTable, NextDirectory
  <2> QED BY <2>4, <2>6 DEF v
<1> QED BY <1>1, <1>2, <1>3, <1>4

-----------------------------------------------------------------------------
\* The indices of the page at a position.
LEMMA PositionPath ==
    ASSUME NEW a \in Nat, NEW b \in 0 .. MAX_PDE64_ENTRIES - 1, NEW c \in 0 .. MAX_PTE64_ENTRIES - 1
    PROVE  Position(a, b, c) \in Nat /\ Path(Position(a, b, c)) = <<0, a, b, c>>
<1> DEFINE D == MAX_PDE64_ENTRIES
           T == MAX_PTE64_ENTRIES
           p == Position(a, b, c)
           q == D * a + b
           r == T * b + c
<1>1. D \in Nat \ {0} /\ T \in Nat \ {0} /\ PDPE_PAGES = D * T /\ D * T \in Nat \ {0}
  BY Sizes DEF PDPE_PAGES
<1>2. b \in 0 .. D - 1 /\ c \in 0 .. T - 1 /\ p = a * (D * T) + b * T + c
  BY <1>1 DEF Position
<1> HIDE DEF D, T, p
<1>3. q \in Nat /\ p = T * q + c
  BY <1>1, <1>2
<1>4. r \in 0 .. D * T - 1 /\ p = (D * T) * a + r
  <2>1. T * b <= T * (D - 1)
    BY <1>1, <1>2
  <2>2. T * (D - 1) = D * T - T
    BY <1>1
  <2>3. T * b \in Nat
    BY <1>1, <1>2
  <2>4. r \in 0 .. D * T - 1
    BY <1>1, <1>2, <2>1, <2>2, <2>3
  <2> QED BY <1>1, <1>2, <2>4
<1>5. q \div D = a /\ q % D = b
  BY <1>1, <1>2, Quotients
<1> HIDE DEF q, r
<1>6. p \div T = q /\ p % T = c
  BY <1>1, <1>2, <1>3, Quotients
<1>7. p \div PDPE_PAGES = a
  BY <1>1, <1>4, Quotients
<1>8. p \in Nat
  BY <1>1, <1>2, <1>3
<1>9. Path(p) = <<0, a, b, c>>
  BY <1>5, <1>6, <1>7, Zenon DEF Path, D, T
<1> QED BY <1>8, <1>9 DEF p

\* The pages behind the rest of a page table have its indices.
LEMMA TablePages ==
    ASSUME NEW a \in Nat, NEW b \in 0 .. MAX_PDE64_ENTRIES - 1, NEW c \in 0 .. MAX_PTE64_ENTRIES - 1,
           NEW p \in Nat, Position(a, b, c) <= p, p < Position(a, b, c) + (MAX_PTE64_ENTRIES - c)
    PROVE  Path(p)[1] = 0 /\ Path(p)[2] = a /\ Path(p)[3] = b
<1> DEFINE n == a * PDPE_PAGES + b * MAX_PTE64_ENTRIES
           e == p - n
<1>1. n \in Nat /\ Position(a, b, c) = n + c /\ MAX_PTE64_ENTRIES \in Nat
  BY Sizes DEF Position
<1> HIDE DEF n
<1>2. e \in 0 .. MAX_PTE64_ENTRIES - 1 /\ p = n + e
  BY <1>1
<1> HIDE DEF e
<1>3. Position(a, b, e) = p
  BY <1>1, <1>2 DEF Position, n
<1>4. Path(p) = <<0, a, b, e>>
  BY <1>2, <1>3, PositionPath
<1> QED BY <1>4

\* So have those behind the rest of a page directory.
LEMMA DirectoryPages ==
    ASSUME NEW a \in Nat, NEW p \in Nat, a * PDPE_PAGES <= p, p < (a + 1) * PDPE_PAGES
    PROVE  Path(p)[1] = 0 /\ Path(p)[2] = a
<1> DEFINE r == p - PDPE_PAGES * a
<1>1. PDPE_PAGES \in Nat \ {0}
  BY Sizes
<1>2. r \in 0 .. PDPE_PAGES - 1 /\ p = PDPE_PAGES * a + r
  BY <1>1
<1> HIDE DEF r
<1>3. p \div PDPE_PAGES = a
  BY <1>1, <1>2, Quotients
<1> QED BY <1>3 DEF Path

\* Where the walk is: at the page of its indices, or behind the last one.
Reached(s) == IF s.pml = 0 THEN Position(s.pdpe, s.pde, s.pte) ELSE PML_PAGES

Indices(s) ==
    /\ s.pdpe \in Nat /\ s.pde \in 0 .. MAX_PDE64_ENTRIES - 1
    /\ s.pte \in 0 .. MAX_PTE64_ENTRIES - 1

\* No page is counted twice; a sound walk counts every page that it passes.
Counts(s, from, sound) ==
    /\ s.pml \in Nat
    /\ s.pml = 0 =>
          /\ Indices(s) /\ s.freed \in Nat
          /\ from + s.freed <= Reached(s)
          /\ sound => from + s.freed = Reached(s) /\ (s.pte = 0 \/ entry(s, 2) \in s.present)

\* What the walk has passed is not mapped.
Unmapped(s, from) == \A p \in Page : from <= p /\ p < Reached(s) => Path(p) \notin s.present

\* Where the walk gets to by going on to the next page directory.
LEMMA DirectoryReached ==
    ASSUME NEW s, NEW v, s.pml = 0, Indices(s), NextDirectory(s, v)
    PROVE  /\ v.pml \in {0, 1} /\ Reached(v) <= (s.pdpe + 1) * PDPE_PAGES
           /\ v.pml = 0 => /\ Indices(v) /\ v.pte = 0
                           /\ Reached(v) = (s.pdpe + 1) * PDPE_PAGES
<1>1. CASE v.pml = s.pml + 1 /\ ~ (s.pdpe + 1 < MAX_PDPE64_ENTRIES)
  <2>1. MAX_PDPE64_ENTRIES <= s.pdpe + 1 /\ s.pdpe + 1 \in Nat
    BY <1>1, Sizes DEF Indices
  <2>2. MAX_PDPE64_ENTRIES * PDPE_PAGES <= (s.pdpe + 1) * PDPE_PAGES
    BY <2>1, Sizes
  <2> QED BY <1>1, <2>2 DEF Reached, PML_PAGES
<1>2. CASE v.pml = s.pml /\ v.pdpe = s.pdpe + 1 /\ v.pde = 0 /\ v.pte = 0
  <2>1. Indices(v)
    BY <1>2, Sizes DEF Indices
  <2>2. Reached(v) = (s.pdpe + 1) * PDPE_PAGES
    BY <1>2, Sizes DEF Reached, Position, Indices
  <2>3. (s.pdpe + 1) * PDPE_PAGES \in Nat
    BY Sizes DEF Indices
  <2> QED BY <1>2, <2>1, <2>2, <2>3
<1> QED BY <1>1, <1>2 DEF NextDirectory

\* And by going on to the next page table.
LEMMA TableReached ==
    ASSUME NEW s, NEW v, s.pml = 0, Indices(s), NextTable(s, v)
    PROVE  /\ v.pml \in {0, 1} /\ Reached(v) <= Reached(s) + (MAX_PTE64_ENTRIES - s.pte)
           /\ v.pml = 0 => /\ Indices(v) /\ v.pte = 0
                           /\ Reached(v) = Reached(s) + (MAX_PTE64_ENTRIES - s.pte)
<1> DEFINE T == MAX_PTE64_ENTRIES
           D == MAX_PDE64_ENTRIES
           a == s.pdpe
           b == s.pde
           c == s.pte
<1>1. /\ T \in Nat \ {0} /\ D \in Nat \ {0} /\ PDPE_PAGES = D * T
      /\ a \in Nat /\ b \in 0 .. D - 1 /\ c \in 0 .. T - 1
      /\ Reached(s) = a * (D * T) + b * T + c
  BY Sizes DEF Indices, Reached, Position, PDPE_PAGES
<1>2. CASE s.pde + 1 < MAX_PDE64_ENTRIES
  <2>1. v.pml = 0 /\ v.pdpe = a /\ v.pde = b + 1 /\ v.pte = 0 /\ b + 1 < D
    BY <1>2 DEF NextTable
  <2>2. Reached(v) = a * (D * T) + (b + 1) * T + 0
    BY <1>1, <2>1 DEF Reached, Position
  <2>3. Indices(v)
    BY <1>1, <2>1 DEF Indices
  <2> HIDE DEF T, D, a, b, c
  <2>4. a * (D * T) + (b + 1) * T + 0 = a * (D * T) + b * T + c + (T - c)
    BY <1>1
  <2>5. a * (D * T) + (b + 1) * T + 0 \in Nat
    BY <1>1
  <2>6. Reached(v) = Reached(s) + (T - c) /\ Reached(v) \in Nat
    BY <1>1, <2>2, <2>4, <2>5
  <2> QED BY <2>1, <2>3, <2>6 DEF T, c
<1>3. CASE ~ (s.pde + 1 < MAX_PDE64_ENTRIES)
  <2>1. NextDirectory(s, v)
    BY <1>3 DEF NextTable
  <2>2. /\ v.pml \in {0, 1} /\ Reached(v) <= (a + 1) * (D * T)
        /\ v.pml = 0 => Indices(v) /\ v.pte = 0 /\ Reached(v) = (a + 1) * (D * T)
    BY <1>1, <2>1, DirectoryReached
  <2>3. b = D - 1
    BY <1>1, <1>3
  <2> HIDE DEF T, D, a, b, c
  <2>4. (a + 1) * (D * T) = a * (D * T) + b * T + c + (T - c)
    BY <1>1, <2>3
  <2>5. Reached(s) + (T - c) = (a + 1) * (D * T)
    BY <1>1, <2>4
  <2> QED BY <2>2, <2>5 DEF T, c
<1> QED BY <1>2, <1>3

\* The indices are natural numbers, and the count is a whole one.
Whole(s) == s.pml \in Nat /\ s.pdpe \in Nat /\ s.pde \in Nat /\ s.pte \in Nat /\ s.freed \in Int

\* A turn of the loop of petmem_free_vspace keeps them so.
LEMMA TurnWhole ==
    ASSUME NEW s, Walker(s), Whole(s)
    PROVE  Whole(walk_step(s))
<1> DEFINE v == walk_step(s)
           a == MAX_PDPE64_ENTRIES - s.pdpe
           b == MAX_PDE64_ENTRIES - s.pde
           c == MAX_PTE64_ENTRIES - s.pte
<1>1. a \in Int /\ b \in Int /\ c \in Int
  BY Sizes DEF Whole
<1> HIDE DEF a, b, c
<1>2. a * b * c \in Int /\ b * c \in Int
  BY <1>1
<1>3. SkipPML(s, v) \/ SkipDirectory(s, v) \/ SkipTable(s, v) \/ ClearPTE(s, v)
  BY TurnOfTheLoop
<1> SUFFICES Whole(v)
  OBVIOUS
<1> HIDE DEF v
<1>4. ASSUME NextDirectory(s, v) PROVE v.pml \in Nat /\ v.pdpe \in Nat /\ v.pde \in Nat /\ v.pte \in Nat
  BY <1>4 DEF NextDirectory, Whole
<1>5. ASSUME NextTable(s, v) PROVE v.pml \in Nat /\ v.pdpe \in Nat /\ v.pde \in Nat /\ v.pte \in Nat
  BY <1>4, <1>5 DEF NextTable, Whole
<1>6. CASE SkipPML(s, v)
  BY <1>2, <1>6 DEF SkipPML, Whole, a, b, c
<1>7. CASE SkipDirectory(s, v)
  BY <1>2, <1>4, <1>7 DEF SkipDirectory, Whole, b, c
<1>8. CASE SkipTable(s, v)
  BY <1>1, <1>5, <1>8 DEF SkipTable, Whole, c
<1>9. CASE ClearPTE(s, v)
  BY <1>5, <1>9 DEF ClearPTE, Whole
<1> QED BY <1>3, <1>6, <1>7, <1>8, <1>9

\* A page fault maps no page but its own.
LEMMA FaultEnters ==
    ASSUME NEW Q, NEW p \in Page, NEW q \in Page,
           LET missing == Above(Path(p)) \ Q
           IN Path(q) \in {e \in Q : Above(e) \cap missing = {}} \cup missing \cup {Path(p)}
    PROVE  Path(q) \in Q \/ q = p
<1> DEFINE w == Path(p)
           v == Path(q)
<1>1. w \in Seq(Nat) /\ Len(w) = 4 /\ v \in Seq(Nat) /\ Len(v) = 4
  BY PathIndices
<1>2. w = v => p = q
  <2>1. Page \subseteq Nat
    BY DEF Page
  <2>2. p = Position(w[2], w[3], w[4]) /\ q = Position(v[2], v[3], v[4])
    BY <2>1, PathPosition
  <2> QED BY <2>2
<1>3. v \in Q \/ v \in Above(w) \/ v = w
  OBVIOUS
<1> HIDE DEF w, v
<1>4. v \notin Above(w)
  <2>1. ASSUME NEW k \in 1 .. 3 PROVE Len(SubSeq(w, 1, k)) = k
    BY <1>1
  <2>2. \A e \in Above(w) : Len(e) \in 1 .. 3
    BY <1>1, <2>1 DEF Above
  <2>3. Len(v) \notin 1 .. 3
    BY <1>1
  <2> QED BY <2>2, <2>3, Zenon
<1>5. v \in Q \/ q = p
  BY <1>2, <1>3, <1>4
<1> QED BY <1>5 DEF v

\* When the loop of petmem_free_vspace ends no page of its range is mapped.
LEMMA WalkEnds ==
    ASSUME NEW s, NEW from \in Nat, NEW sound, Counts(s, from, sound), Unmapped(s, from),
           NEW n \in Nat, s.freed >= n, NEW p \in Page, p \in from .. from + n - 1
    PROVE  Path(p) \notin s.present
<1>1. p \in Nat /\ p < PML_PAGES
  BY Sizes DEF Page
<1>2. p < Reached(s)
  <2>1. CASE s.pml = 0
    <3>1. s.freed \in Nat /\ from + s.freed <= Reached(s) /\ Reached(s) \in Int
      <4>1. Reached(s) \in Nat
        BY <2>1, PositionPath DEF Counts, Indices, Reached
      <4> QED BY <2>1, <4>1 DEF Counts
    <3> QED BY <1>1, <3>1
  <2>2. CASE s.pml # 0
    BY <1>1, <2>2 DEF Reached
  <2> QED BY <2>1, <2>2
<1> QED BY <1>2 DEF Unmapped

\* petmem_free_vspace begins with the indices of its argument and has freed
\* nothing.
LEMMA WalkBegins ==
    ASSUME NEW s, NEW p \in Nat, NEW sound, s.freed = 0,
           s.pml = Path(p)[1], s.pdpe = Path(p)[2], s.pde = Path(p)[3], s.pte = Path(p)[4],
           sound => SubSeq(Path(p), 1, 2) \in s.present \/ p % MAX_PTE64_ENTRIES = 0
    PROVE  Counts(s, p, sound) /\ Unmapped(s, p)
<1>1. s.pml = 0 /\ Indices(s) /\ Reached(s) = p
  BY PathPosition DEF Indices, Reached
<1>2. entry(s, 2) = SubSeq(Path(p), 1, 2)
  BY DEF entry, Path
<1>3. s.pte = p % MAX_PTE64_ENTRIES
  BY DEF Path
<1>4. Counts(s, p, sound)
  <2>1. sound => s.pte = 0 \/ entry(s, 2) \in s.present
    BY <1>2, <1>3, Zenon
  <2> QED BY <1>1, <2>1 DEF Counts
<1>5. Unmapped(s, p)
  <2>1. Page \subseteq Nat
    BY DEF Page
  <2> QED BY <1>1, <2>1 DEF Unmapped
<1> QED BY <1>4, <1>5

\* A turn of the loop counts no page twice, and every page when it is sound.
LEMMA TurnCounts ==
    ASSUME NEW s, Walker(s), NEW from \in Nat, NEW sound, Counts(s, from, sound)
    PROVE  Counts(walk_step(s), from, sound)
<1> DEFINE v == walk_step(s)
           D == MAX_PDE64_ENTRIES
           T == MAX_PTE64_ENTRIES
<1>1. /\ v.present \subseteq s.present
      /\ \A e \in s.present : Len(e) = 4 /\ e \notin v.present => e = entry(s, 4)
      /\ SkipPML(s, v) \/ SkipDirectory(s, v) \/ SkipTable(s, v) \/ ClearPTE(s, v)
  BY TurnOfTheLoop
<1> HIDE DEF v
<1>2. s.pml \in Nat /\ D \in Nat \ {0} /\ T \in Nat \ {0} /\ PDPE_PAGES = D * T
  BY Sizes DEF Counts, PDPE_PAGES
<1>3. v.pml = s.pml \/ v.pml = s.pml + 1
  BY <1>1 DEF SkipPML, SkipDirectory, SkipTable, ClearPTE, NextTable, NextDirectory
<1>4. CASE v.pml # 0
  BY <1>2, <1>3, <1>4 DEF Counts, v
<1>5. CASE v.pml = 0
  <2>1. s.pml = 0 /\ v.pml # s.pml + 1
    BY <1>2, <1>3, <1>5
  <2>2. /\ Indices(s) /\ s.freed \in Nat /\ from + s.freed <= Reached(s)
        /\ sound => from + s.freed = Reached(s) /\ (s.pte = 0 \/ entry(s, 2) \in s.present)
    BY <2>1 DEF Counts
  <2> DEFINE a == s.pdpe
             b == s.pde
             c == s.pte
  <2>3. a \in Nat /\ b \in 0 .. D - 1 /\ c \in 0 .. T - 1 /\ Reached(s) = a * (D * T) + b * T + c
    BY <1>2, <2>1, <2>2 DEF Indices, Reached, Position
  <2>r. Reached(s) \in Nat
    BY <1>2, <2>3
  <2>4. CASE SkipDirectory(s, v)
    <3>1. Indices(v) /\ v.pte = 0 /\ Reached(v) = (a + 1) * (D * T)
      BY <1>2, <1>5, <2>1, <2>2, <2>4, DirectoryReached DEF SkipDirectory
    <3>2. v.freed = s.freed + (D - b) * (T - c) /\ entry(s, 2) \notin s.present
      BY <2>4 DEF SkipDirectory
    <3> HIDE DEF D, T, a, b, c
    <3>3. (D - b) * (T - c) \in Nat
      BY <1>2, <2>3
    <3>4. (D - b) * (T - c) <= (D - b) * T - c
      <4>1. (D - b) * (T - c) = (D - b) * T - (D - b) * c
        BY <1>2, <2>3
      <4>2. (D - b) * c >= c /\ (D - b) * c \in Nat /\ (D - b) * T \in Nat
        BY <1>2, <2>3
      <4> QED BY <2>3, <4>1, <4>2
    <3>5. (a + 1) * (D * T) = Reached(s) + ((D - b) * T - c)
      BY <1>2, <2>3
    <3>6. from + v.freed <= Reached(v) /\ v.freed \in Nat
      <4>1. (D - b) * T - c \in Int /\ (a + 1) * (D * T) \in Int
        BY <1>2, <2>3
      <4> QED BY <2>2, <2>r, <3>1, <3>2, <3>3, <3>4, <3>5, <4>1
    <3>7. sound => from + v.freed = Reached(v)
      <4> SUFFICES ASSUME sound PROVE from + v.freed = Reached(v)
        OBVIOUS
      <4>1. c = 0 /\ from + s.freed = Reached(s)
        BY <2>2, <3>2 DEF c
      <4>2. (D - b) * (T - c) = (D - b) * T - c
        BY <1>2, <2>3, <4>1
      <4>3. (D - b) * T - c \in Int /\ (a + 1) * (D * T) \in Int
        BY <1>2, <2>3
      <4> QED BY <2>2, <2>r, <3>1, <3>2, <3>5, <4>1, <4>2, <4>3
    <3> QED BY <1>5, <3>1, <3>6, <3>7 DEF Counts, v
  <2>5. CASE SkipTable(s, v)
    <3>1. Indices(v) /\ v.pte = 0 /\ Reached(v) = Reached(s) + (T - c)
      BY <1>5, <2>1, <2>2, <2>5, TableReached DEF SkipTable
    <3>2. v.freed = s.freed + (T - c)
      BY <2>5 DEF SkipTable
    <3>3. T - c \in Nat
      BY <1>2, <2>3
    <3> HIDE DEF T, c
    <3>4. v.freed \in Nat /\ from + v.freed <= Reached(v)
          /\ (sound => from + v.freed = Reached(v))
      BY <2>2, <2>r, <3>1, <3>2, <3>3
    <3> QED BY <1>5, <3>1, <3>4 DEF Counts, v
  <2>6. CASE ClearPTE(s, v) /\ s.pte + 1 < MAX_PTE64_ENTRIES
    <3>1. /\ v.pdpe = s.pdpe /\ v.pde = s.pde /\ v.pte = s.pte + 1 /\ v.freed = s.freed + 1
          /\ v.present = s.present \ {entry(s, 4)} /\ entry(s, 2) \in s.present
      BY <2>6 DEF ClearPTE
    <3>2. Indices(v)
      BY <1>2, <2>2, <2>6, <3>1 DEF Indices
    <3>3. Reached(v) = a * (D * T) + b * T + (c + 1)
      BY <1>2, <1>5, <3>1 DEF Reached, Position
    <3>4. Reached(v) = Reached(s) + 1
      <4> DEFINE x == a * (D * T)
                 y == b * T
      <4>1. x \in Int /\ y \in Int
        BY <1>2, <2>3
      <4>2. Reached(s) = x + y + c /\ Reached(v) = x + y + (c + 1)
        BY <2>3, <3>3
      <4> HIDE DEF x, y
      <4> QED BY <2>3, <4>1, <4>2
    <3>5. v.freed \in Nat /\ from + v.freed <= Reached(v)
          /\ (sound => from + v.freed = Reached(v))
      BY <2>2, <2>r, <3>1, <3>4
    <3>6. entry(v, 2) = entry(s, 2)
      <4>1. <<v.pml, v.pdpe, v.pde, v.pte>> \in Seq({v.pml, v.pdpe, v.pde, v.pte, s.pte})
            /\ <<s.pml, s.pdpe, s.pde, s.pte>> \in Seq({v.pml, v.pdpe, v.pde, v.pte, s.pte})
        BY <2>1, <1>5, <3>1
      <4> QED BY <1>5, <2>1, <3>1, <4>1, SamePrefix DEF entry
    <3>7. entry(v, 2) \in v.present
      <4>1. Len(entry(s, 2)) = 2 /\ Len(entry(s, 4)) = 4
        BY EntryLength
      <4> QED BY <3>1, <3>6, <4>1
    <3> QED BY <1>5, <3>2, <3>5, <3>7 DEF Counts, v
  <2>7. CASE ClearPTE(s, v) /\ ~ (s.pte + 1 < MAX_PTE64_ENTRIES)
    <3>1. Indices(v) /\ v.pte = 0 /\ Reached(v) = Reached(s) + (T - c)
      BY <1>5, <2>1, <2>2, <2>7, TableReached DEF ClearPTE
    <3>2. v.freed = s.freed + 1 /\ ~ (c + 1 < T) /\ c \in 0 .. T - 1 /\ T \in Nat
      BY <1>2, <2>3, <2>7, Zenon DEF ClearPTE
    <3> HIDE DEF T, c
    <3>3. v.freed \in Nat /\ from + v.freed <= Reached(v)
          /\ (sound => from + v.freed = Reached(v))
      BY <2>2, <2>r, <3>1, <3>2
    <3> QED BY <1>5, <3>1, <3>3 DEF Counts, v
  <2> QED BY <1>1, <2>1, <2>4, <2>5, <2>6, <2>7 DEF SkipPML
<1> QED BY <1>4, <1>5

\* A turn of the loop unmaps at most the page that it has reached.
LEMMA TurnClears ==
    ASSUME NEW s, Walker(s), NEW from \in Nat, NEW sound, Counts(s, from, sound),
           NEW p \in Page, Path(p) \in s.present, Path(p) \notin walk_step(s).present
    PROVE  s.pml = 0 /\ p = Reached(s)
<1> DEFINE w == <<s.pml, s.pdpe, s.pde, s.pte>>
<1>1. p \in Nat /\ Path(p) \in Seq(Nat) /\ Len(Path(p)) = 4
  BY PathIndices, Sizes DEF Page
<1>2. Path(p) = entry(s, 4)
  BY <1>1, TurnOfTheLoop
<1>3. Path(p)[1] = s.pml /\ Path(p)[2] = s.pdpe /\ Path(p)[3] = s.pde /\ Path(p)[4] = s.pte
  <2>1. w \in Seq({s.pml, s.pdpe, s.pde, s.pte}) /\ Len(w) = 4
    OBVIOUS
  <2>2. w[1] = s.pml /\ w[2] = s.pdpe /\ w[3] = s.pde /\ w[4] = s.pte
    OBVIOUS
  <2> HIDE DEF w
  <2>3. SubSeq(w, 1, 4) = w
    BY <2>1
  <2> QED BY <1>2, <2>2, <2>3 DEF entry, w
<1> QED BY <1>1, <1>3, PathPosition DEF Reached

\* A page below a missing entry is not mapped.
LEMMA BelowMissing ==
    ASSUME NEW P, Closed(P), NEW s, NEW p \in Page, NEW k \in 1 .. 4, entry(s, k) \notin P,
           \A j \in 1 .. k : Path(p)[j] = <<s.pml, s.pdpe, s.pde, s.pte>>[j]
    PROVE  Path(p) \notin P
<1> DEFINE w == <<s.pml, s.pdpe, s.pde, s.pte>>
           S == Nat \cup {s.pml, s.pdpe, s.pde, s.pte}
<1>1. w \in Seq(S) /\ Len(w) = 4
  OBVIOUS
<1>2. Path(p) \in Seq(S) /\ Len(Path(p)) = 4
  <2>1. Path(p) \in Seq(Nat) /\ Len(Path(p)) = 4
    BY PathIndices
  <2>2. Nat \subseteq S
    OBVIOUS
  <2> HIDE DEF S
  <2> QED BY <2>1, <2>2
<1>3. SubSeq(Path(p), 1, k) = entry(s, k)
  <2> HIDE DEF S
  <2>1. \A j \in 1 .. k : Path(p)[j] = w[j]
    OBVIOUS
  <2> HIDE DEF w
  <2>2. SubSeq(Path(p), 1, k) = SubSeq(w, 1, k)
    BY <1>1, <1>2, <2>1, SamePrefix
  <2> QED BY <2>2 DEF entry, w
<1>4. CASE k = 4
  <2>1. SubSeq(Path(p), 1, 4) = Path(p)
    BY <1>2
  <2> QED BY <1>3, <1>4, <2>1
<1>5. CASE k \in 1 .. 3
  BY <1>2, <1>3, <1>5 DEF Closed, Above
<1> QED BY <1>4, <1>5

\* What a turn of the loop passes is not mapped any more.
LEMMA TurnUnmaps ==
    ASSUME NEW s, Walker(s), Closed(s.present), NEW from \in Nat, NEW sound,
           Counts(s, from, sound), Unmapped(s, from)
    PROVE  Unmapped(walk_step(s), from)
<1> DEFINE v == walk_step(s)
           w == <<s.pml, s.pdpe, s.pde, s.pte>>
<1>1. /\ v.present \subseteq s.present
      /\ SkipPML(s, v) \/ SkipDirectory(s, v) \/ SkipTable(s, v) \/ ClearPTE(s, v)
  BY TurnOfTheLoop
<1>c. Counts(v, from, sound)
  BY TurnCounts
<1> HIDE DEF v
<1>r. Reached(v) \in Int
  <2>1. CASE v.pml = 0
    <3>1. Position(v.pdpe, v.pde, v.pte) \in Nat
      BY <1>c, <2>1, PositionPath DEF Counts, Indices
    <3> QED BY <2>1, <3>1 DEF Reached
  <2>2. CASE v.pml # 0
    BY <2>2, Sizes DEF Reached
  <2> QED BY <2>1, <2>2
<1> SUFFICES ASSUME NEW p \in Page, from <= p, p < Reached(v), Path(p) \in v.present PROVE FALSE
  BY DEF Unmapped, v
<1>2. p \in Nat /\ p < PML_PAGES /\ Path(p) \in s.present
  BY <1>1, Sizes DEF Page
<1>3. s.pml = 0
  BY <1>2 DEF Unmapped, Reached, Counts
<1>4. Indices(s) /\ Reached(s) = Position(s.pdpe, s.pde, s.pte)
  BY <1>3 DEF Counts, Reached
<1>5. Reached(s) \in Nat
  BY <1>4, PositionPath DEF Indices
<1>6. Reached(s) <= p
  BY <1>2, <1>5 DEF Unmapped
<1>7. w[1] = s.pml /\ w[2] = s.pdpe /\ w[3] = s.pde /\ w[4] = s.pte
  OBVIOUS
<1>8. Path(p)[1] = 0
  BY <1>2, PathPosition
<1>9. CASE SkipPML(s, v)
  <2>1. \A j \in 1 .. 1 : Path(p)[j] = w[j]
    BY <1>3, <1>7, <1>8
  <2> QED BY <1>2, <1>9, <2>1, BelowMissing DEF SkipPML
<1>10. CASE SkipDirectory(s, v)
  <2>1. Reached(v) <= (s.pdpe + 1) * PDPE_PAGES
    BY <1>3, <1>4, <1>10, DirectoryReached DEF SkipDirectory
  <2>2. s.pdpe * PDPE_PAGES <= Reached(s)
    <3>1. s.pde * MAX_PTE64_ENTRIES \in Nat /\ s.pdpe * PDPE_PAGES \in Nat
      BY <1>4, Sizes DEF Indices
    <3> QED BY <1>4, <3>1 DEF Position, Indices
  <2>3. s.pdpe \in Nat /\ s.pdpe * PDPE_PAGES <= p /\ p < (s.pdpe + 1) * PDPE_PAGES
    <3>1. s.pdpe \in Nat /\ s.pdpe * PDPE_PAGES \in Nat /\ (s.pdpe + 1) * PDPE_PAGES \in Nat
      BY <1>4, Sizes DEF Indices
    <3> QED BY <1>2, <1>5, <1>6, <1>r, <2>1, <2>2, <3>1
  <2>4. Path(p)[2] = s.pdpe
    BY <1>2, <2>3, DirectoryPages
  <2>5. \A j \in 1 .. 2 : Path(p)[j] = w[j]
    BY <1>3, <1>7, <1>8, <2>4
  <2> QED BY <1>2, <1>10, <2>5, BelowMissing DEF SkipDirectory
<1>11. CASE SkipTable(s, v)
  <2>1. Reached(v) <= Reached(s) + (MAX_PTE64_ENTRIES - s.pte)
    BY <1>3, <1>4, <1>11, TableReached DEF SkipTable
  <2>2. p < Reached(s) + (MAX_PTE64_ENTRIES - s.pte)
    <3>1. MAX_PTE64_ENTRIES - s.pte \in Int
      BY <1>4, Sizes DEF Indices
    <3> QED BY <1>2, <1>5, <1>r, <2>1, <3>1
  <2>3. Path(p)[2] = s.pdpe /\ Path(p)[3] = s.pde
    BY <1>2, <1>4, <1>6, <2>2, TablePages DEF Indices
  <2>4. \A j \in 1 .. 3 : Path(p)[j] = w[j]
    BY <1>3, <1>7, <1>8, <2>3
  <2> QED BY <1>2, <1>11, <2>4, BelowMissing DEF SkipTable
<1>12. CASE ClearPTE(s, v)
  <2>1. Reached(v) <= Reached(s) + 1
    <3>1. CASE s.pte + 1 < MAX_PTE64_ENTRIES
      <4>1. v.pml = 0 /\ v.pdpe = s.pdpe /\ v.pde = s.pde /\ v.pte = s.pte + 1
        BY <1>3, <1>12, <3>1 DEF ClearPTE
      <4>2. Reached(v) = s.pdpe * PDPE_PAGES + s.pde * MAX_PTE64_ENTRIES + (s.pte + 1)
        BY <4>1 DEF Reached, Position
      <4>3. s.pde * MAX_PTE64_ENTRIES \in Nat /\ s.pdpe * PDPE_PAGES \in Nat /\ s.pte \in Nat
        BY <1>4, Sizes DEF Indices
      <4> QED BY <1>4, <4>2, <4>3 DEF Position
    <3>2. CASE ~ (s.pte + 1 < MAX_PTE64_ENTRIES)
      <4>1. Reached(v) <= Reached(s) + (MAX_PTE64_ENTRIES - s.pte)
        BY <1>3, <1>4, <1>12, <3>2, TableReached DEF ClearPTE
      <4>2. MAX_PTE64_ENTRIES - s.pte = 1
        BY <1>4, <3>2, Sizes DEF Indices
      <4> QED BY <4>1, <4>2
    <3> QED BY <3>1, <3>2
  <2>2. p = Reached(s)
    BY <1>2, <1>5, <1>6, <1>r, <2>1
  <2>3. Path(p) = <<0, s.pdpe, s.pde, s.pte>>
    BY <1>4, <2>2, PositionPath DEF Indices
  <2>4. SubSeq(w, 1, 4) = w
    <3>1. w \in Seq({s.pml, s.pdpe, s.pde, s.pte}) /\ Len(w) = 4
      OBVIOUS
    <3> HIDE DEF w
    <3> QED BY <3>1
  <2>5. Path(p) = entry(s, 4)
    BY <1>3, <2>3, <2>4 DEF entry
  <2> QED BY <1>12, <2>5 DEF ClearPTE
<1> QED BY <1>1, <1>9, <1>10, <1>11, <1>12
-----------------------------------------------------------------------------
NodeType == [start : Nat, size : Nat, allocated : BOOLEAN]

\* Some nodes of a list have a last one.
LEMMA LastNode ==
    ASSUME NEW n \in Nat, NEW S \in SUBSET (1 .. n), S # {}
    PROVE  \E x \in S : \A y \in S : x >= y
<1> DEFINE T == {k \in Nat : n - k \in S}
<1>1. T # {}
  <2>1. PICK x \in S : TRUE
    BY Zenon
  <2>2. n - x \in Nat /\ n - (n - x) = x
    OBVIOUS
  <2> QED BY <2>1, <2>2, Zenon
<1>2. PICK k \in T : \A j \in T : ~ (<<j, k>> \in OpToRel(<, Nat))
  BY <1>1, NatLessThanWellFounded, WFMin, Zenon
<1>3. \A y \in S : n - k >= y
  <2> SUFFICES ASSUME NEW y \in S, n - k < y PROVE FALSE
    OBVIOUS
  <2>1. n - y \in T /\ n - y < k /\ n - (n - y) = y
    OBVIOUS
  <2> QED BY <1>2, <2>1, Zenon DEF OpToRel
<1>4. n - k \in S
  OBVIOUS
<1> QED BY <1>3, <1>4

\* A function on 1 .. n is a sequence of length n.
LEMMA FunctionIsSeq ==
    ASSUME NEW S, NEW n \in Nat, NEW f \in [1 .. n -> S]
    PROVE  f \in Seq(S) /\ Len(f) = n
<1>1. f \in Seq(S)
  OBVIOUS
<1>2. Len(f) \in Nat /\ DOMAIN f = 1 .. Len(f)
  BY <1>1, LenProperties
<1> QED
  BY <1>1, <1>2

\* A function with one value replaced.
LEMMA ExceptFunction ==
    ASSUME NEW D, NEW S, NEW f \in [D -> S], NEW x \in D, NEW e
    PROVE  [f EXCEPT ![x] = e] = [k \in D |-> IF k = x THEN e ELSE f[k]]
BY Zenon

\* cur->allocated = 0.
LEMMA FreedNode ==
    ASSUME NEW r \in NodeType
    PROVE  [r EXCEPT !.allocated = FALSE] = Node(r.start, r.size, FALSE)
<1>1. \A d : [r EXCEPT !.allocated = d] = [start |-> r.start, size |-> r.size, allocated |-> d]
  BY SMT DEF NodeType
<1> QED
  BY <1>1, Zenon DEF Node

\* The nodes of a list that petmem_alloc_vspace has split at node i.
LEMMA SplitAt ==
    ASSUME Len(map) \in Nat, NEW i \in 1 .. Len(map), NEW n \in Nat,
           NEW k \in 1 .. Len(map) + 1
    PROVE  /\ k < i => split(i, n)[k] = map[k]
           /\ k = i => split(i, n)[k] = Node(map[i].start, n, TRUE)
           /\ k = i + 1 => split(i, n)[k] = Node(map[i].start + n, map[i].size - n, FALSE)
           /\ k > i + 1 => split(i, n)[k] = map[k - 1]
BY DEF split, Node

\* The fields of a split list, which no prover finds through the records.
LEMMA SplitFields ==
    ASSUME Len(map) \in Nat, NEW i \in 1 .. Len(map), NEW n \in Nat
    PROVE  \A k \in 1 .. Len(map) + 1 :
              /\ k < i => split(i, n)[k] = map[k]
              /\ k = i => /\ split(i, n)[k].start = map[i].start
                          /\ split(i, n)[k].size = n
                          /\ split(i, n)[k].allocated
              /\ k = i + 1 => /\ split(i, n)[k].start = map[i].start + n
                              /\ split(i, n)[k].size = map[i].size - n
                              /\ ~ split(i, n)[k].allocated
              /\ k > i + 1 => split(i, n)[k] = map[k - 1]
BY DEF split, Node

\* What the node list is after petmem_alloc_vspace has split node i.
LEMMA SplitNodes ==
    ASSUME map \in Seq(NodeType), NEW i \in 1 .. Len(map), NEW n \in Nat, map[i].size >= n
    PROVE  /\ split(i, n) \in Seq(NodeType) /\ Len(split(i, n)) = Len(map) + 1
           /\ \A k \in 1 .. Len(map) + 1 :
                 /\ k < i => split(i, n)[k] = map[k]
                 /\ k = i => split(i, n)[k] = Node(map[i].start, n, TRUE)
                 /\ k = i + 1 => split(i, n)[k] = Node(map[i].start + n, map[i].size - n, FALSE)
                 /\ k > i + 1 => split(i, n)[k] = map[k - 1]
<1>1. Len(map) \in Nat /\ \A k \in 1 .. Len(map) : map[k] \in NodeType
  BY ElementOfSeq, LenProperties
<1>2. Node(map[i].start, n, TRUE) \in NodeType
      /\ Node(map[i].start + n, map[i].size - n, FALSE) \in NodeType
  BY SMTT(20), Zenon, <1>1 DEF Node, NodeType
<1>3. \A k \in 1 .. Len(map) + 1 : k > i + 1 => map[k - 1] \in NodeType
  BY <1>1
<1>4. split(i, n) \in [1 .. Len(map) + 1 -> NodeType]
  BY <1>1, <1>2, <1>3 DEF split, Node
<1>5. split(i, n) \in Seq(NodeType) /\ Len(split(i, n)) = Len(map) + 1
  BY <1>1, <1>4, FunctionIsSeq
<1> QED
  BY <1>1, <1>5, SplitAt, Zenon

\* The neighbours of node i that petmem_free_vspace combines with it: 1 for a
\* free one, 0 otherwise.
Before(i) == IF is_free(i - 1) THEN 1 ELSE 0
Behind(i) == IF is_free(i + 1) THEN 1 ELSE 0

\* The size of the combined node.
CombinedSize(i) ==
    (IF is_free(i - 1) THEN map[i - 1].size ELSE 0) + map[i].size
    + (IF is_free(i + 1) THEN map[i + 1].size ELSE 0)

\* What the node list is after petmem_free_vspace has freed node i, the four
\* cases of its two conditions in one.
LEMMA CombineNodes ==
    ASSUME map \in Seq(NodeType), NEW i \in 1 .. Len(map)
    PROVE  /\ Before(i) \in {0, 1} /\ Behind(i) \in {0, 1}
           /\ i - Before(i) >= 1 /\ i + Behind(i) <= Len(map)
           /\ CombinedSize(i) \in Nat
           /\ combine(i) \in Seq(NodeType)
           /\ Len(combine(i)) = Len(map) - Before(i) - Behind(i)
           /\ \A k \in 1 .. Len(combine(i)) :
                 /\ k < i - Before(i) => combine(i)[k] = map[k]
                 /\ k = i - Before(i) =>
                        combine(i)[k] = Node(map[i - Before(i)].start, CombinedSize(i), FALSE)
                 /\ k > i - Before(i) => combine(i)[k] = map[k + Before(i) + Behind(i)]
<1> DEFINE L == Len(map)
<1>1. L \in Nat /\ DOMAIN map = 1 .. L /\ map \in [1 .. L -> NodeType]
      /\ \A k \in 1 .. L : map[k] \in NodeType
  BY ElementOfSeq, LenProperties
<1>2. \A k \in 1 .. L : map[k].start \in Nat /\ map[k].size \in Nat /\ map[k].allocated \in BOOLEAN
  BY <1>1 DEF NodeType
<1>3. Before(i) \in {0, 1} /\ Behind(i) \in {0, 1} /\ i - Before(i) >= 1 /\ i + Behind(i) <= L
  BY <1>1 DEF Before, Behind, is_free
<1>4. CombinedSize(i) \in Nat
  <2>1. is_free(i - 1) => map[i - 1].size \in Nat
    BY <1>1, <1>2 DEF is_free
  <2>2. is_free(i + 1) => map[i + 1].size \in Nat
    BY <1>1, <1>2 DEF is_free
  <2> QED
    BY SMTT(20), Zenon, <1>2, <2>1, <2>2 DEF CombinedSize
<1> DEFINE E == Node(map[i - Before(i)].start, CombinedSize(i), FALSE)
<1>5. E \in NodeType
  <2>1. i - Before(i) \in 1 .. L
    BY <1>1, <1>3
  <2> QED
    BY <2>1, <1>2, <1>4 DEF Node, NodeType
<1> HIDE DEF E
<1> DEFINE new == [k \in 1 .. L - Before(i) - Behind(i) |->
                      IF k < i - Before(i) THEN map[k]
                      ELSE IF k = i - Before(i) THEN E
                      ELSE map[k + Before(i) + Behind(i)]]
<1>10. L - Before(i) - Behind(i) \in Nat
  BY <1>1, <1>3
<1>6. new \in [1 .. L - Before(i) - Behind(i) -> NodeType]
  <2> SUFFICES ASSUME NEW k \in 1 .. L - Before(i) - Behind(i)
               PROVE  new[k] \in NodeType
    OBVIOUS
  <2>1. CASE k < i - Before(i)
    BY <2>1, <1>1, <1>3
  <2>2. CASE k = i - Before(i)
    BY <2>2, <1>3, <1>5
  <2>3. CASE k > i - Before(i)
    <3>1. k + Before(i) + Behind(i) \in 1 .. L /\ ~ (k < i - Before(i)) /\ k # i - Before(i)
      BY <2>3, <1>1, <1>3
    <3> QED
      BY <3>1, <1>1
  <2> QED
    BY <2>1, <2>2, <2>3, <1>3
<1>7. combine(i) = new
  <2>1. CASE is_free(i - 1) /\ is_free(i + 1)
    <3>1. Before(i) = 1 /\ Behind(i) = 1 /\ CombinedSize(i) = map[i - 1].size + map[i].size + map[i + 1].size
      BY <2>1 DEF Before, Behind, CombinedSize
    <3>2. combine(i) = [k \in 1 .. L - 2 |->
                           IF k < i - 1 THEN map[k] ELSE IF k = i - 1 THEN E ELSE map[k + 2]]
      BY <2>1, <3>1 DEF combine, E, Node
    <3>3. L - Before(i) - Behind(i) = L - 2 /\ \A k \in 1 .. L - 2 : k + Before(i) + Behind(i) = k + 2
      BY <3>1, <1>1
    <3> QED
      BY <3>1, <3>2, <3>3
  <2>2. CASE is_free(i - 1) /\ ~ is_free(i + 1)
    <3>1. Before(i) = 1 /\ Behind(i) = 0 /\ CombinedSize(i) = map[i - 1].size + map[i].size
      BY <2>2, <1>1, <1>2 DEF Before, Behind, CombinedSize, is_free
    <3>2. without(i)[i - 1] = map[i - 1] /\ i - 1 \in 1 .. L - 1
      BY <1>1, <1>3, <3>1 DEF without
    <3>3. combine(i) = [without(i) EXCEPT ![i - 1] = E]
      BY <2>2, <3>1, <3>2 DEF combine, E, Node
    <3>4. L - Before(i) - Behind(i) = L - 1 /\ \A k \in 1 .. L - 1 : k + Before(i) + Behind(i) = k + 1
      BY <3>1, <1>1
    <3>5. combine(i) = [k \in 1 .. L - 1 |->
                           IF k < i - 1 THEN map[k] ELSE IF k = i - 1 THEN E ELSE map[k + 1]]
      <4>1. without(i) \in [1 .. L - 1 -> NodeType]
        BY <1>1 DEF without
      <4>2. combine(i) = [k \in 1 .. L - 1 |-> IF k = i - 1 THEN E ELSE without(i)[k]]
        BY <4>1, <3>2, <3>3, ExceptFunction, Zenon
      <4> QED
        BY <4>2, <3>2, <1>1 DEF without
    <3> QED
      BY <3>1, <3>4, <3>5
  <2>3. CASE ~ is_free(i - 1) /\ is_free(i + 1)
    <3>1. Before(i) = 0 /\ Behind(i) = 1 /\ CombinedSize(i) = map[i + 1].size + map[i].size
          /\ i - Before(i) = i
      BY <2>3, <1>1, <1>2 DEF Before, Behind, CombinedSize, is_free
    <3>2. without(i)[i] = map[i + 1] /\ i \in 1 .. L - 1
      BY <1>1, <1>3, <3>1 DEF without
    <3>3. combine(i) = [without(i) EXCEPT ![i] = E]
      BY <2>3, <3>1, <3>2, Zenon DEF combine, E, Node
    <3>4. L - Before(i) - Behind(i) = L - 1 /\ \A k \in 1 .. L - 1 : k + Before(i) + Behind(i) = k + 1
      BY <3>1, <1>1
    <3>5. combine(i) = [k \in 1 .. L - 1 |->
                           IF k < i THEN map[k] ELSE IF k = i THEN E ELSE map[k + 1]]
      <4>1. without(i) \in [1 .. L - 1 -> NodeType]
        BY <1>1 DEF without
      <4>2. combine(i) = [k \in 1 .. L - 1 |-> IF k = i THEN E ELSE without(i)[k]]
        BY <4>1, <3>2, <3>3, ExceptFunction, Zenon
      <4> QED
        BY <4>2, <3>2, <1>1 DEF without
    <3> QED
      BY <3>1, <3>4, <3>5
  <2>4. CASE ~ is_free(i - 1) /\ ~ is_free(i + 1)
    <3>1. Before(i) = 0 /\ Behind(i) = 0 /\ CombinedSize(i) = map[i].size /\ i - Before(i) = i
      BY <2>4, <1>1, <1>2 DEF Before, Behind, CombinedSize
    <3>2. [map[i] EXCEPT !.allocated = FALSE] = E
      BY <3>1, <1>1, FreedNode, Zenon DEF E
    <3>3. combine(i) = [map EXCEPT ![i] = E]
      BY <2>4, <3>2, Zenon DEF combine
    <3>4. L - Before(i) - Behind(i) = L /\ \A k \in 1 .. L : k + Before(i) + Behind(i) = k
      BY <3>1, <1>1
    <3>5. combine(i) = [k \in 1 .. L |-> IF k < i THEN map[k] ELSE IF k = i THEN E ELSE map[k]]
      <4>1. combine(i) = [k \in 1 .. L |-> IF k = i THEN E ELSE map[k]]
        BY <3>3, <1>1, ExceptFunction, Zenon
      <4> QED
        BY <4>1, <1>1
    <3> QED
      BY <3>1, <3>4, <3>5
  <2> QED
    BY <2>1, <2>2, <2>3, <2>4
<1>8. new \in Seq(NodeType) /\ Len(new) = L - Before(i) - Behind(i)
  <2> HIDE DEF new
  <2> QED
    BY <1>10, <1>6, FunctionIsSeq
<1>9. \A k \in 1 .. L - Before(i) - Behind(i) :
         /\ k < i - Before(i) => new[k] = map[k]
         /\ k = i - Before(i) => new[k] = E
         /\ k > i - Before(i) => new[k] = map[k + Before(i) + Behind(i)]
  BY <1>3
<1> HIDE DEF new
<1> QED
  BY <1>3, <1>4, <1>7, <1>8, <1>9, Zenon DEF E

-----------------------------------------------------------------------------
\* The first L nodes of a list cover the region, and no two free ones meet.
Tiles(m, L) ==
    /\ m[1].start = PETMEM_REGION_START
    /\ \A j \in 1 .. L - 1 : m[j + 1].start = m[j].start + m[j].size
    /\ m[L].start + m[L].size = PETMEM_REGION_END

FreeApart(m, L) ==
    /\ \A j \in 1 .. L - 1 : m[j].allocated \/ m[j + 1].allocated
    /\ ~ m[L].allocated

\* petmem_alloc_vspace: a list m that covers the region still does when node
\* i has been split; s is the new list.
LEMMA SplitTiles ==
    ASSUME NEW L \in Nat, NEW i \in 1 .. L, NEW n \in Nat, NEW m, NEW s,
           \A k \in 1 .. L : m[k].start \in Nat /\ m[k].size \in Nat,
           m[i].size >= n,
           \A k \in 1 .. L + 1 :
              /\ k < i => s[k] = m[k]
              /\ k = i => s[k].start = m[i].start /\ s[k].size = n
              /\ k = i + 1 => s[k].start = m[i].start + n /\ s[k].size = m[i].size - n
              /\ k > i + 1 => s[k] = m[k - 1],
           Tiles(m, L)
    PROVE  Tiles(s, L + 1)
<1>1. s[1].start = PETMEM_REGION_START
  BY DEF Tiles
<1>2. ASSUME NEW j \in 1 .. L PROVE s[j + 1].start = s[j].start + s[j].size
  <2>1. CASE j + 1 < i
    BY <2>1 DEF Tiles
  <2>2. CASE j + 1 = i
    BY <2>2 DEF Tiles
  <2>3. CASE j = i
    BY <2>3
  <2>4. CASE j = i + 1
    <3>1. s[j + 1] = m[j] /\ s[j].start + s[j].size = m[i].start + m[i].size
      BY <2>4
    <3> QED
      BY <2>4, <3>1 DEF Tiles
  <2>5. CASE j > i + 1
    <3>1. s[j + 1] = m[j] /\ s[j] = m[j - 1] /\ j - 1 \in 1 .. L - 1
      BY <2>5
    <3> QED
      BY <3>1 DEF Tiles
  <2> QED
    BY <2>1, <2>2, <2>3, <2>4, <2>5
<1>3. s[L + 1].start + s[L + 1].size = PETMEM_REGION_END
  <2>1. CASE i = L
    BY <2>1 DEF Tiles
  <2>2. CASE i < L
    BY <2>2 DEF Tiles
  <2> QED
    BY <2>1, <2>2
<1> QED
  BY <1>1, <1>2, <1>3 DEF Tiles

\* petmem_alloc_vspace: the free rest of node i is behind the allocated part,
\* and before a node that is not free.
LEMMA SplitFreeApart ==
    ASSUME NEW L \in Nat, NEW i \in 1 .. L, NEW m, NEW s,
           ~ m[i].allocated,
           \A k \in 1 .. L + 1 :
              /\ k < i => s[k] = m[k]
              /\ k = i => s[k].allocated
              /\ k = i + 1 => ~ s[k].allocated
              /\ k > i + 1 => s[k] = m[k - 1],
           FreeApart(m, L)
    PROVE  FreeApart(s, L + 1)
<1>1. ASSUME NEW j \in 1 .. L PROVE s[j].allocated \/ s[j + 1].allocated
  <2>1. CASE j + 1 < i
    BY <2>1 DEF FreeApart
  <2>2. CASE j + 1 = i \/ j = i
    BY <2>2
  <2>3. CASE j = i + 1
    BY <2>3 DEF FreeApart
  <2>4. CASE j > i + 1
    <3>1. s[j + 1] = m[j] /\ s[j] = m[j - 1] /\ j - 1 \in 1 .. L - 1
      BY <2>4
    <3> QED
      BY <3>1 DEF FreeApart
  <2> QED
    BY <2>1, <2>2, <2>3, <2>4
<1>2. ~ s[L + 1].allocated
  BY DEF FreeApart
<1> QED
  BY <1>1, <1>2 DEF FreeApart

\* petmem_free_vspace: a list m that covers the region still does when node i
\* has been combined with a nodes before and b nodes behind it.
LEMMA CombineTiles ==
    ASSUME NEW L \in Nat, NEW i \in 1 .. L, NEW m, NEW s, NEW size \in Nat,
           NEW a \in {0, 1}, NEW b \in {0, 1}, i - a >= 1, i + b <= L,
           \A k \in 1 .. L : m[k].start \in Nat /\ m[k].size \in Nat,
           size = (IF a = 1 THEN m[i - 1].size ELSE 0) + m[i].size
                  + (IF b = 1 THEN m[i + 1].size ELSE 0),
           \A k \in 1 .. L - a - b :
              /\ k < i - a => s[k] = m[k]
              /\ k = i - a => s[k].start = m[i - a].start /\ s[k].size = size
              /\ k > i - a => s[k] = m[k + a + b],
           Tiles(m, L)
    PROVE  Tiles(s, L - a - b)
<1>1. m[i - a].start + size = m[i + b].start + m[i + b].size
  <2>1. a = 1 => m[i].start = m[i - 1].start + m[i - 1].size
    <3>1. a = 1 => i - 1 \in 1 .. L - 1 /\ (i - 1) + 1 = i
      OBVIOUS
    <3> QED
      BY <3>1 DEF Tiles
  <2>2. b = 1 => m[i + 1].start = m[i].start + m[i].size
    BY DEF Tiles
  <2>3. m[i - a].start + size
           = m[i].start + m[i].size + (IF b = 1 THEN m[i + 1].size ELSE 0)
    <3>1. CASE a = 0
      BY <3>1
    <3>2. CASE a = 1
      <4>1. i - 1 \in 1 .. L /\ i - a = i - 1
        BY <3>2
      <4>2. b = 1 => i + 1 \in 1 .. L
        OBVIOUS
      <4> QED
        BY <3>2, <4>1, <4>2, <2>1
    <3> QED
      BY <3>1, <3>2
  <2>4. CASE b = 0
    BY <2>3, <2>4
  <2>5. CASE b = 1
    BY <2>2, <2>3, <2>5
  <2> QED
    BY <2>4, <2>5
<1>2. s[1].start = PETMEM_REGION_START
  BY DEF Tiles
<1>3. ASSUME NEW j \in 1 .. L - a - b - 1 PROVE s[j + 1].start = s[j].start + s[j].size
  <2>1. CASE j + 1 <= i - a
    <3>1. s[j] = m[j] /\ s[j + 1].start = m[j + 1].start /\ j \in 1 .. L - 1
      BY <2>1
    <3> QED
      BY <3>1 DEF Tiles
  <2>2. CASE j = i - a
    <3>1. s[j + 1] = m[i + b + 1] /\ s[j].start + s[j].size = m[i + b].start + m[i + b].size
          /\ i + b \in 1 .. L - 1
      BY <2>2, <1>1
    <3> QED
      BY <3>1 DEF Tiles
  <2>3. CASE j > i - a
    <3>1. s[j + 1] = m[j + a + b + 1] /\ s[j] = m[j + a + b] /\ j + a + b \in 1 .. L - 1
      BY <2>3
    <3> QED
      BY <3>1 DEF Tiles
  <2> QED
    BY <2>1, <2>2, <2>3
<1>4. s[L - a - b].start + s[L - a - b].size = PETMEM_REGION_END
  <2>1. CASE i + b = L
    BY <2>1, <1>1 DEF Tiles
  <2>2. CASE i + b < L
    BY <2>2 DEF Tiles
  <2> QED
    BY <2>1, <2>2
<1> QED
  BY <1>2, <1>3, <1>4 DEF Tiles

\* petmem_free_vspace: the nodes beside the combined one are not free, since
\* each free neighbour of node i became a part of it.
LEMMA CombineFreeApart ==
    ASSUME NEW L \in Nat, NEW i \in 1 .. L, NEW m, NEW s,
           NEW a \in {0, 1}, NEW b \in {0, 1}, i - a >= 1, i + b <= L,
           a = 1 => ~ m[i - 1].allocated,
           b = 1 => ~ m[i + 1].allocated,
           a = 0 /\ i > 1 => m[i - 1].allocated,
           b = 0 /\ i < L => m[i + 1].allocated,
           \A k \in 1 .. L - a - b :
              /\ k < i - a => s[k] = m[k]
              /\ k = i - a => ~ s[k].allocated
              /\ k > i - a => s[k] = m[k + a + b],
           FreeApart(m, L)
    PROVE  FreeApart(s, L - a - b)
<1>1. i - a > 1 => m[i - a - 1].allocated
  <2>1. CASE a = 0
    BY <2>1
  <2>2. CASE a = 1
    <3>1. i - a > 1 => i - 2 \in 1 .. L - 1 /\ (i - 2) + 1 = i - 1 /\ i - a - 1 = i - 2
      BY <2>2
    <3> QED
      BY <2>2, <3>1 DEF FreeApart
  <2> QED
    BY <2>1, <2>2
<1>2. i + b < L => m[i + b + 1].allocated
  <2>1. CASE b = 0
    BY <2>1
  <2>2. CASE b = 1
    BY <2>2 DEF FreeApart
  <2> QED
    BY <2>1, <2>2
<1>3. ASSUME NEW j \in 1 .. L - a - b - 1 PROVE s[j].allocated \/ s[j + 1].allocated
  <2>1. CASE j + 1 < i - a
    <3>1. s[j] = m[j] /\ s[j + 1] = m[j + 1] /\ j \in 1 .. L - 1
      BY <2>1
    <3> QED
      BY <3>1 DEF FreeApart
  <2>2. CASE j + 1 = i - a
    <3>1. s[j] = m[i - a - 1] /\ i - a > 1
      BY <2>2
    <3> QED
      BY <3>1, <1>1
  <2>3. CASE j = i - a
    <3>1. s[j + 1] = m[i + b + 1] /\ i + b < L
      BY <2>3
    <3> QED
      BY <3>1, <1>2
  <2>4. CASE j > i - a
    <3>1. s[j + 1] = m[j + a + b + 1] /\ s[j] = m[j + a + b] /\ j + a + b \in 1 .. L - 1
      BY <2>4
    <3> QED
      BY <3>1 DEF FreeApart
  <2> QED
    BY <2>1, <2>2, <2>3, <2>4
<1>4. ~ s[L - a - b].allocated
  <2>1. CASE i + b = L
    BY <2>1
  <2>2. CASE i + b < L
    BY <2>2 DEF FreeApart
  <2> QED
    BY <2>1, <2>2
<1> QED
  BY <1>3, <1>4 DEF FreeApart

-----------------------------------------------------------------------------
IInv == Contiguous /\ Combined

\* What the invariant says of an open map, and what makes it true again.
LEMMA OpenMap ==
    ASSUME IInv, phase = "open"
    PROVE  /\ Len(map) \in Nat \ {0}
           /\ \A k \in 1 .. Len(map) : map[k].start \in Nat /\ map[k].size \in Nat
           /\ Tiles(map, Len(map)) /\ FreeApart(map, Len(map))
<1>1. map \in Seq(NodeType) /\ map # <<>>
  BY DEF IInv, Contiguous, TypeOK, NodeType
<1>2. Len(map) \in Nat \ {0} /\ \A k \in 1 .. Len(map) : map[k] \in NodeType
  BY <1>1, EmptySeq, ElementOfSeq
<1>3. \A k \in 1 .. Len(map) : map[k].start \in Nat /\ map[k].size \in Nat
  BY <1>2 DEF NodeType
<1> QED
  BY <1>2, <1>3 DEF IInv, Contiguous, Combined, Tiles, FreeApart

\* A list that tiles the region with free ranges apart satisfies the invariant.
LEMMA MapKept ==
    ASSUME NEW L \in Nat \ {0}, TypeOK', Len(map)' = L, Tiles(map', L), FreeApart(map', L)
    PROVE  IInv'
<1>1. map' # <<>>
  BY EmptySeq
<1> QED
  BY <1>1 DEF IInv, Contiguous, Combined, Tiles, FreeApart

\* petmem_init_process starts with the whole region as one free node.
LEMMA InitProcessIInv == IInv /\ petmem_init_process => IInv'
<1> SUFFICES ASSUME IInv, petmem_init_process PROVE IInv'
  OBVIOUS
<1> DEFINE nd == Node(PETMEM_REGION_START, PETMEM_REGION_END - PETMEM_REGION_START, FALSE)
<1>1. nd \in NodeType /\ nd.start = PETMEM_REGION_START
      /\ nd.start + nd.size = PETMEM_REGION_END /\ ~ nd.allocated
  BY RegionAssumption DEF Node, NodeType
<1>2. map' = <<nd>>
  BY DEF petmem_init_process
<1> HIDE DEF nd
<1>3. map' \in Seq(NodeType) /\ Len(map') = 1 /\ map'[1] = nd
  BY <1>1, <1>2
<1>4. TypeOK'
  BY <1>3, Zenon DEF petmem_init_process, IInv, Contiguous, TypeOK, NodeType
<1>5. Tiles(map', 1) /\ FreeApart(map', 1)
  BY <1>1, <1>3 DEF Tiles, FreeApart
<1> QED
  BY <1>3, <1>4, <1>5, MapKept

\* LAZY_ALLOC splits the first node that is large enough, or changes nothing.
LEMMA AllocIInv == ASSUME NEW n \in Requests, IInv, LAZY_ALLOC(n) PROVE IInv'
<1>1. n \in Nat /\ phase = "open" /\ phase' = "open" /\ freeing' = freeing
      /\ num_pages_to_free' = num_pages_to_free
  BY RegionAssumption DEF LAZY_ALLOC
<1>2. map \in Seq(NodeType) /\ Len(map) \in Nat \ {0} /\ DOMAIN map = 1 .. Len(map)
  BY <1>1, OpenMap, LenProperties DEF IInv, Contiguous, TypeOK, NodeType
<1>3. ASSUME NEW i \in DOMAIN map, petmem_alloc_vspace(i, n) PROVE IInv'
  <2> DEFINE s == split(i, n)
             L == Len(map)
  <2>1. i \in 1 .. L /\ ~ map[i].allocated /\ map[i].size >= n /\ map' = s /\ result' = map[i].start
    BY <1>2, <1>3 DEF petmem_alloc_vspace, fits
  <2>2. s \in Seq(NodeType) /\ Len(s) = L + 1
    BY <1>1, <1>2, <2>1, SplitNodes, Zenon
  <2>3. \A k \in 1 .. L + 1 :
           /\ k < i => s[k] = map[k]
           /\ k = i => s[k].start = map[i].start /\ s[k].size = n /\ s[k].allocated
           /\ k = i + 1 => s[k].start = map[i].start + n /\ s[k].size = map[i].size - n
                           /\ ~ s[k].allocated
           /\ k > i + 1 => s[k] = map[k - 1]
    BY <1>1, <1>2, <2>1, SplitFields
  <2>4. /\ \A k \in 1 .. L : map[k].start \in Nat /\ map[k].size \in Nat
        /\ Tiles(map, L) /\ FreeApart(map, L)
    BY <1>1, OpenMap
  <2> HIDE DEF s
  <2>5. TypeOK'
    <3>1. TypeOK
      BY DEF IInv, Contiguous
    <3>2. map' \in Seq(NodeType) /\ result' \in Nat
      BY <2>1, <2>2, <2>4
    <3> QED BY <1>1, <3>1, <3>2 DEF TypeOK, NodeType
  <2> HIDE DEF L
  <2>6. L \in Nat
    BY <1>2 DEF L
  <2>7. Tiles(s, L + 1)
    BY <1>1, <2>1, <2>3, <2>4, <2>6, SplitTiles, Zenon
  <2>8. FreeApart(s, L + 1)
    BY <2>1, <2>3, <2>4, <2>6, SplitFreeApart
  <2>9. L + 1 \in Nat \ {0}
    BY <2>6
  <2> QED
    BY <2>1, <2>2, <2>5, <2>7, <2>8, <2>9, MapKept
<1>4. CASE UNCHANGED map /\ result' = -1
  BY <1>1, <1>4 DEF IInv, Contiguous, Combined, TypeOK
<1> QED
  BY <1>3, <1>4 DEF LAZY_ALLOC

\* One node of petmem_free_vspace's loop, combined with its free neighbours.
LEMMA FreeNodeIInv == ASSUME IInv, NEW i \in DOMAIN map, free_node(i) PROVE IInv'
<1> DEFINE s == combine(i)
           L == Len(map)
           a == Before(i)
           b == Behind(i)
<1>1. map \in Seq(NodeType) /\ DOMAIN map = 1 .. L /\ L \in Nat
      /\ \A k \in 1 .. L : map[k].start \in Nat /\ map[k].size \in Nat /\ map[k].allocated \in BOOLEAN
  <2>1. map \in Seq(NodeType)
    BY DEF IInv, Contiguous, TypeOK, NodeType
  <2>2. DOMAIN map = 1 .. L /\ L \in Nat /\ \A k \in 1 .. L : map[k] \in NodeType
    BY <2>1, LenProperties, ElementOfSeq
  <2> QED
    BY <2>1, <2>2 DEF NodeType
<1>11. L \in Nat /\ \A k \in 1 .. L : map[k].start \in Nat /\ map[k].size \in Nat
  BY <1>1
<1>2. map' = s /\ num_pages_to_free' = map[i].size /\ freeing' = freeing /\ phase' = phase
      /\ result' = result
  BY DEF free_node
<1>3. /\ a \in {0, 1} /\ b \in {0, 1} /\ i - a >= 1 /\ i + b <= L /\ i \in 1 .. L
      /\ CombinedSize(i) \in Nat
  BY <1>1, CombineNodes, Zenon
<1>12. s \in Seq(NodeType) /\ Len(s) = L - a - b
  BY <1>1, CombineNodes, Zenon
<1>4. \A k \in 1 .. L - a - b :
         /\ k < i - a => s[k] = map[k]
         /\ k = i - a => s[k] = Node(map[i - a].start, CombinedSize(i), FALSE)
         /\ k > i - a => s[k] = map[k + a + b]
  BY <1>1, <1>12, CombineNodes, Zenon
<1>5. CombinedSize(i) = (IF a = 1 THEN map[i - 1].size ELSE 0) + map[i].size
                        + (IF b = 1 THEN map[i + 1].size ELSE 0)
  BY DEF CombinedSize, Before, Behind
<1>6. /\ a = 1 => ~ map[i - 1].allocated
      /\ b = 1 => ~ map[i + 1].allocated
      /\ a = 0 /\ i > 1 => map[i - 1].allocated
      /\ b = 0 /\ i < L => map[i + 1].allocated
  <2>1. is_free(i - 1) <=> i > 1 /\ ~ map[i - 1].allocated
    BY <1>1, <1>3 DEF is_free
  <2>2. is_free(i + 1) <=> i < L /\ ~ map[i + 1].allocated
    BY <1>1, <1>3 DEF is_free
  <2> QED
    BY <2>1, <2>2 DEF Before, Behind
<1> HIDE DEF s, a, b
<1>7. \A k \in 1 .. L - a - b :
         /\ k < i - a => s[k] = map[k]
         /\ k = i - a => /\ s[k].start = map[i - a].start /\ s[k].size = CombinedSize(i)
                         /\ ~ s[k].allocated
         /\ k > i - a => s[k] = map[k + a + b]
  BY <1>4 DEF Node
<1>8. TypeOK'
  BY <1>1, <1>2, <1>3, <1>12 DEF IInv, Contiguous, TypeOK, NodeType
<1>9. CASE phase = "open"
  <2>1. Tiles(map, L) /\ FreeApart(map, L)
    BY <1>9, OpenMap
  <2>2. L - a - b \in Nat \ {0}
    BY <1>11, <1>3
  <2> HIDE DEF L
  <2>3. Tiles(s, L - a - b)
    <3>1. \A k \in 1 .. L - a - b :
             /\ k < i - a => s[k] = map[k]
             /\ k = i - a => s[k].start = map[i - a].start /\ s[k].size = CombinedSize(i)
             /\ k > i - a => s[k] = map[k + a + b]
      BY <1>7
    <3> QED
      BY <1>11, <1>3, <1>5, <2>1, <3>1, CombineTiles, ZenonT(60)
  <2>4. FreeApart(s, L - a - b)
    BY <1>11, <1>3, <1>6, <1>7, <2>1, CombineFreeApart, Zenon
  <2> QED
    BY <1>2, <1>12, <1>8, <2>2, <2>3, <2>4, MapKept
<1>10. CASE phase # "open"
  BY <1>2, <1>8, <1>10 DEF IInv, Contiguous, Combined
<1> QED
  BY <1>9, <1>10

\* A step that leaves the list alone and opens no map.
LEMMA UnchangedMap ==
    ASSUME IInv, TypeOK', map' = map, phase' = phase \/ phase' # "open"
    PROVE  IInv'
BY DEF IInv, Contiguous, Combined

\* Every step keeps the invariant.
LEMMA NextIInv == IInv /\ [Next]_vars => IInv'
<1> SUFFICES ASSUME IInv, [Next]_vars PROVE IInv'
  OBVIOUS
<1>1. CASE petmem_init_process
  BY <1>1, InitProcessIInv
<1>2. CASE \E n \in Requests : LAZY_ALLOC(n)
  BY <1>2, AllocIInv
<1>3. ASSUME NEW vaddr \in Address, LAZY_FREE(vaddr) PROVE IInv'
  <2>1. TypeOK'
    BY <1>3 DEF LAZY_FREE, IInv, Contiguous, TypeOK
  <2> QED
    BY <1>3, <2>1, UnchangedMap DEF LAZY_FREE
<1>4. CASE \E i \in DOMAIN map : free_node(i)
  BY <1>4, FreeNodeIInv
<1>5. CASE free_end
  <2>1. TypeOK'
    BY <1>5 DEF free_end, IInv, Contiguous, TypeOK
  <2> QED
    BY <1>5, <2>1, UnchangedMap DEF free_end
<1>6. CASE release
  <2>1. TypeOK'
    BY <1>6 DEF release, IInv, Contiguous, TypeOK
  <2> QED
    BY <1>6, <2>1, UnchangedMap DEF release
<1>7. CASE petmem_deinit_node
  <2>1. map # <<>> => Tail(map) \in Seq([start : Nat, size : Nat, allocated : BOOLEAN])
    BY HeadTailProperties DEF IInv, Contiguous, TypeOK
  <2>2. TypeOK'
    BY <1>7, <2>1, Zenon DEF petmem_deinit_node, IInv, Contiguous, TypeOK
  <2>3. phase' # "open"
    BY <1>7 DEF petmem_deinit_node
  <2> QED
    BY <2>2, <2>3 DEF IInv, Contiguous, Combined
<1>8. CASE petmem_deinit_head
  <2>1. TypeOK'
    BY <1>8 DEF petmem_deinit_head, IInv, Contiguous, TypeOK
  <2> QED
    BY <1>8, <2>1, UnchangedMap DEF petmem_deinit_head
<1>9. CASE UNCHANGED vars
  <2>1. TypeOK'
    BY <1>9 DEF vars, IInv, Contiguous, TypeOK
  <2> QED
    BY <1>9, <2>1, UnchangedMap DEF vars
<1> QED
  BY <1>1, <1>2, <1>3, <1>4, <1>5, <1>6, <1>7, <1>8, <1>9 DEF Next, Crashed

\* No map is open at first.
LEMMA InitIInv == Init => IInv
BY EmptySeq DEF Init, IInv, Contiguous, Combined, TypeOK

\* The nodes of petmem_alloc_vspace and petmem_free_vspace cover the region
\* without gap or overlap, whatever is asked for and freed.
THEOREM MemMapContiguous == Spec => []Contiguous
<1>1. IInv => Contiguous
  BY DEF IInv
<1> QED
  BY <1>1, InitIInv, NextIInv, PTL DEF Spec

\* petmem_free_vspace leaves no two free nodes next to each other.
THEOREM MemMapCombined == Spec => []Combined
<1>1. IInv => Combined
  BY DEF IInv
<1> QED
  BY <1>1, InitIInv, NextIInv, PTL DEF Spec

-----------------------------------------------------------------------------
\* Ranges of one list are ranges of another that has their nodes.
LEMMA InUseIn ==
    ASSUME NEW m, NEW s, NEW r \in InUse(m),
           \A k \in DOMAIN m : m[k].allocated /\ r[1] = m[k].start =>
               \E l \in DOMAIN s : s[l] = m[k]
    PROVE  r \in InUse(s)
<1>1. PICK k \in DOMAIN m : m[k].allocated /\ r = <<m[k].start, m[k].size>>
  BY DEF InUse
<1>2. r[1] = m[k].start
  BY <1>1
<1>3. PICK l \in DOMAIN s : s[l] = m[k]
  BY <1>1, <1>2
<1> QED
  BY <1>1, <1>3 DEF InUse

\* petmem_alloc_vspace keeps the ranges in use and adds the one it returns.
LEMMA AllocKeepsRanges ==
    ASSUME IInv, NEW n \in Requests, LAZY_ALLOC(n)
    PROVE  /\ InUse(map) \subseteq InUse(map')
           /\ \A r \in InUse(map') \ InUse(map) : r[1] = result'
<1>1. n \in Nat /\ phase = "open"
  BY RegionAssumption DEF LAZY_ALLOC
<1>2. map \in Seq(NodeType) /\ Len(map) \in Nat /\ DOMAIN map = 1 .. Len(map)
  BY <1>1, OpenMap, LenProperties DEF IInv, Contiguous, TypeOK, NodeType
<1>3. ASSUME NEW i \in DOMAIN map, petmem_alloc_vspace(i, n)
      PROVE  /\ InUse(map) \subseteq InUse(map')
             /\ \A r \in InUse(map') \ InUse(map) : r[1] = result'
  <2> DEFINE s == split(i, n)
             L == Len(map)
  <2>1. i \in 1 .. L /\ ~ map[i].allocated /\ map[i].size >= n /\ map' = s /\ result' = map[i].start
    BY <1>2, <1>3 DEF petmem_alloc_vspace, fits
  <2>2. L \in Nat /\ DOMAIN map = 1 .. L /\ DOMAIN s = 1 .. L + 1
    BY <1>2 DEF split
  <2>3. \A k \in 1 .. L + 1 :
           /\ k < i => s[k] = map[k]
           /\ k = i => s[k].start = map[i].start
           /\ k = i + 1 => ~ s[k].allocated
           /\ k > i + 1 => s[k] = map[k - 1]
    BY <1>1, <1>2, <2>1, SplitFields
  <2> HIDE DEF s, L
  <2>4. ASSUME NEW r \in InUse(map) PROVE r \in InUse(s)
    <3>1. ASSUME NEW k \in 1 .. L, map[k].allocated PROVE \E l \in 1 .. L + 1 : s[l] = map[k]
      <4>1. CASE k < i
        BY <4>1, <2>2, <2>3
      <4>2. CASE k > i
        <5>1. k + 1 \in 1 .. L + 1 /\ s[k + 1] = map[k]
          BY <4>2, <2>1, <2>2, <2>3
        <5> QED
          BY <5>1
      <4> QED
        BY <3>1, <4>1, <4>2, <2>1, <2>2
    <3> QED
      BY <3>1, <2>2, InUseIn
  <2>5. ASSUME NEW r \in InUse(s), r \notin InUse(map) PROVE r[1] = map[i].start
    <3>1. PICK k \in 1 .. L + 1 : s[k].allocated /\ r = <<s[k].start, s[k].size>>
      BY <2>2 DEF InUse
    <3>2. k < i \/ k > i + 1 => \E l \in 1 .. L : s[k] = map[l]
      BY <2>1, <2>2, <2>3
    <3>3. ~ (k < i \/ k > i + 1)
      BY <2>2, <2>5, <3>1, <3>2 DEF InUse
    <3>4. k = i
      BY <2>1, <2>2, <2>3, <3>1, <3>3
    <3> QED
      BY <2>3, <3>1, <3>4
  <2> QED
    BY <2>1, <2>4, <2>5
<1> QED
  BY <1>3 DEF LAZY_ALLOC

\* petmem_free_vspace keeps the other nodes in use, and makes no new ones.
LEMMA FreeNodes ==
    ASSUME IInv, NEW i \in DOMAIN map, free_node(i)
    PROVE  /\ \A k \in DOMAIN map : map[k].allocated /\ k # i =>
                 \E l \in DOMAIN map' : map'[l] = map[k]
           /\ \A l \in DOMAIN map' : map'[l].allocated =>
                 \E k \in DOMAIN map : k # i /\ map[k] = map'[l]
<1> DEFINE s == combine(i)
           L == Len(map)
           a == Before(i)
           b == Behind(i)
<1>1. map \in Seq(NodeType) /\ DOMAIN map = 1 .. L /\ L \in Nat
  BY LenProperties DEF IInv, Contiguous, TypeOK, NodeType
<1>2. a \in {0, 1} /\ b \in {0, 1} /\ i - a >= 1 /\ i + b <= L /\ i \in 1 .. L
  BY <1>1, CombineNodes, Zenon
<1>3. s \in Seq(NodeType) /\ Len(s) = L - a - b
  BY <1>1, CombineNodes, Zenon
<1>4. \A k \in 1 .. L - a - b :
         /\ k < i - a => s[k] = map[k]
         /\ k > i - a => s[k] = map[k + a + b]
  BY <1>1, <1>3, CombineNodes, Zenon
<1>n. i - a \in 1 .. L - a - b => ~ s[i - a].allocated
  <2>1. i - a \in 1 .. L - a - b => s[i - a] = Node(map[i - a].start, CombinedSize(i), FALSE)
    BY <1>1, <1>3, CombineNodes, Zenon
  <2> QED BY <2>1 DEF Node
<1>5. DOMAIN s = 1 .. L - a - b
  BY <1>3, LenProperties
<1>6. /\ a = 1 => ~ map[i - 1].allocated
      /\ b = 1 => ~ map[i + 1].allocated
      /\ map' = s
  BY DEF Before, Behind, is_free, free_node, allocated_at
<1>7. DOMAIN map = 1 .. L /\ L \in Nat
  BY <1>1
<1> HIDE DEF s, a, b, L
<1>8. ASSUME NEW k \in 1 .. L, map[k].allocated, k # i
      PROVE  \E l \in 1 .. L - a - b : s[l] = map[k]
  <2>1. CASE k < i - a
    <3>1. k \in 1 .. L - a - b
      BY <2>1, <1>2, <1>7
    <3> QED
      BY <2>1, <3>1, <1>4
  <2>2. CASE k > i + b
    <3>1. k - a - b \in 1 .. L - a - b /\ k - a - b > i - a /\ (k - a - b) + a + b = k
      BY <2>2, <1>2, <1>7
    <3> QED
      BY <3>1, <1>4
  <2>3. CASE ~ (k < i - a) /\ ~ (k > i + b)
    <3>1. (a = 1 /\ k = i - 1) \/ (b = 1 /\ k = i + 1)
      BY <1>8, <2>3, <1>2, <1>7
    <3> QED
      BY <3>1, <1>6, <1>8
  <2> QED
    BY <2>1, <2>2, <2>3
<1>9. ASSUME NEW l \in 1 .. L - a - b, s[l].allocated
      PROVE  \E k \in 1 .. L : k # i /\ map[k] = s[l]
  <2>1. l # i - a
    BY <1>9, <1>n
  <2>2. CASE l < i - a
    <3>1. l \in 1 .. L /\ l # i
      BY <2>2, <1>2, <1>7
    <3> QED BY <2>2, <3>1, <1>4, Zenon
  <2>3. CASE l > i - a
    <3>1. l + a + b \in 1 .. L /\ l + a + b # i
      BY <2>3, <1>2, <1>7
    <3> QED BY <2>3, <3>1, <1>4, Zenon
  <2>4. l < i - a \/ l > i - a
    BY <2>1, <1>2, <1>7
  <2> QED BY <2>2, <2>3, <2>4, Zenon
<1> QED
  BY <1>5, <1>6, <1>7, <1>8, <1>9, Zenon

\* petmem_free_vspace keeps the ranges that start elsewhere.
LEMMA FreeKeepsRanges ==
    ASSUME IInv, NEW i \in DOMAIN map, free_node(i),
           NEW r \in InUse(map), r[1] # freeing
    PROVE  r \in InUse(map')
<1>1. \A k \in DOMAIN map : map[k].allocated /\ r[1] = map[k].start =>
         \E l \in DOMAIN map' : map'[l] = map[k]
  BY FreeNodes DEF free_node, allocated_at
<1> QED
  BY <1>1, InUseIn, Zenon

\* A node starts behind the end of every node before it.
LEMMA StartsGrow ==
    ASSUME NEW L \in Nat, NEW m, Tiles(m, L), NEW i \in 1 .. L, NEW k \in 1 .. L, i < k,
           \A j \in 1 .. L : m[j].start \in Nat /\ m[j].size \in Nat
    PROVE  m[i].start + m[i].size <= m[k].start
<1> DEFINE S == {j \in Nat : j \in 1 .. L /\ i < j /\ ~ (m[i].start + m[i].size <= m[j].start)}
<1>1. SUFFICES ASSUME k \in S PROVE FALSE
  OBVIOUS
<1>2. S \subseteq Nat
  OBVIOUS
<1> HIDE DEF S
<1>3. PICK x \in S : \A y \in S : <<y, x>> \notin OpToRel(<, Nat)
  BY <1>1, <1>2, NatLessThanWellFounded, WFMin, Zenon
<1>4. x \in 1 .. L /\ i < x /\ ~ (m[i].start + m[i].size <= m[x].start)
  BY <1>3, Zenon DEF S
<1>5. x - 1 \in 1 .. L - 1 /\ x - 1 + 1 = x
  BY <1>4
<1>6. m[x].start = m[x - 1].start + m[x - 1].size
  BY <1>5 DEF Tiles
<1>7. x - 1 # i
  BY <1>4, <1>6
<1>8. x - 1 \in S
  BY <1>4, <1>5, <1>6, <1>7 DEF S
<1>9. <<x - 1, x>> \in OpToRel(<, Nat)
  BY <1>4, <1>5 DEF OpToRel
<1> QED BY <1>3, <1>8, <1>9, Zenon

\* The pages of the ranges in use.
PagesOf(m) == UNION {r[1] .. r[1] + r[2] - 1 : r \in InUse(m)}

\* They are those of the nodes in use.
LEMMA NodePages ==
    ASSUME NEW m, NEW x
    PROVE  x \in PagesOf(m) <=>
               \E k \in DOMAIN m :
                  m[k].allocated /\ x \in m[k].start .. m[k].start + m[k].size - 1
<1>1. ASSUME NEW k \in DOMAIN m, m[k].allocated,
             x \in m[k].start .. m[k].start + m[k].size - 1
      PROVE  x \in PagesOf(m)
  <2> DEFINE r == <<m[k].start, m[k].size>>
  <2>1. r \in InUse(m) /\ r[1] = m[k].start /\ r[2] = m[k].size
    BY <1>1 DEF InUse
  <2> QED BY <1>1, <2>1 DEF PagesOf
<1>2. ASSUME x \in PagesOf(m)
      PROVE  \E k \in DOMAIN m :
                m[k].allocated /\ x \in m[k].start .. m[k].start + m[k].size - 1
  <2>1. PICK r \in InUse(m) : x \in r[1] .. r[1] + r[2] - 1
    BY <1>2 DEF PagesOf
  <2>2. PICK k \in DOMAIN m : m[k].allocated /\ r = <<m[k].start, m[k].size>>
    BY DEF InUse
  <2> QED BY <2>1, <2>2
<1> QED BY <1>1, <1>2

\* The loop over the list takes no page from the program but those it will
\* unmap.
LEMMA FreePages ==
    ASSUME IInv, NEW i \in DOMAIN map, free_node(i), NEW x \in PagesOf(map)
    PROVE  x \in PagesOf(map') \/ x \in freeing .. freeing + num_pages_to_free' - 1
<1>1. PICK k \in DOMAIN map :
         map[k].allocated /\ x \in map[k].start .. map[k].start + map[k].size - 1
  BY NodePages
<1>2. CASE k = i
  BY <1>1, <1>2 DEF free_node, allocated_at
<1>3. CASE k # i
  <2>1. PICK l \in DOMAIN map' : map'[l] = map[k]
    BY <1>1, <1>3, FreeNodes
  <2> QED BY <1>1, <2>1, NodePages
<1> QED BY <1>2, <1>3

\* Of the nodes at an address only the last has pages: when that is freed,
\* none is left.
LEMMA FreeLast ==
    ASSUME IInv, phase = "open", NEW i \in DOMAIN map, free_node(i), num_pages_to_free' > 0,
           NEW l \in DOMAIN map', map'[l].allocated
    PROVE  map'[l].start # freeing
<1>1. PICK k \in DOMAIN map : k # i /\ map[k] = map'[l]
  BY FreeNodes
<1>2. /\ map[i].start = freeing /\ map[i].size > 0
      /\ \A j \in 1 .. i - 1 : ~ (map[j].start = freeing /\ map[j].allocated)
  BY DEF free_node, allocated_at
<1>3. /\ Len(map) \in Nat /\ DOMAIN map = 1 .. Len(map) /\ Tiles(map, Len(map))
      /\ \A j \in 1 .. Len(map) : map[j].start \in Nat /\ map[j].size \in Nat
  BY SMTT(20), Zenon, OpenMap, LenProperties DEF IInv, Contiguous, TypeOK
<1>4. CASE k < i
  <2>1. k \in 1 .. i - 1
    BY <1>3, <1>4
  <2> QED BY <1>1, <1>2, <2>1
<1>5. CASE i < k
  <2>1. map[i].start + map[i].size <= map[k].start
    BY <1>3, <1>5, StartsGrow
  <2> QED BY <1>1, <1>2, <1>3, <2>1
<1> QED BY <1>1, <1>3, <1>4, <1>5

\* What RangesKept says of a step.
Kept ==
    phase = "open" =>
        IF freeing # NONE
        THEN \A r \in InUse(map) : r[1] # freeing => r \in InUse(map')
        ELSE /\ InUse(map) \subseteq InUse(map')
             /\ \A r \in InUse(map') \ InUse(map) : r[1] = result'

\* Every step of the memory map keeps the ranges in use.
LEMMA NextKeepsRanges == IInv /\ [Next]_vars => [Kept]_vars
<1> SUFFICES ASSUME IInv, [Next]_vars, phase = "open" PROVE Kept \/ UNCHANGED vars
  BY DEF Kept
<1>1. CASE UNCHANGED map
  BY <1>1 DEF Kept
<1>2. ASSUME NEW n \in Requests, LAZY_ALLOC(n) PROVE Kept
  <2>1. freeing = NONE
    BY <1>2 DEF LAZY_ALLOC
  <2> QED
    BY <1>2, <2>1, AllocKeepsRanges DEF Kept
<1>3. ASSUME NEW i \in DOMAIN map, free_node(i) PROVE Kept
  <2>1. freeing # NONE
    BY <1>3 DEF free_node
  <2> QED
    BY <1>3, <2>1, FreeKeepsRanges DEF Kept
<1>4. CASE petmem_init_process \/ petmem_deinit_node
  BY <1>4 DEF petmem_init_process, petmem_deinit_node
<1>5. CASE (\E vaddr \in Address : LAZY_FREE(vaddr)) \/ free_end \/ release \/ petmem_deinit_head
           \/ Crashed
  BY <1>1, <1>5 DEF LAZY_FREE, free_end, release, petmem_deinit_head, Crashed, vars
<1> QED
  BY <1>2, <1>3, <1>4, <1>5 DEF Next

\* pet_malloc takes free pages only and returns where they start, and
\* petmem_free_vspace frees the range at its argument and no other.
THEOREM MemMapRangesKept == Spec => RangesKept
BY InitIInv, NextIInv, NextKeepsRanges, PTL DEF Spec, RangesKept, Kept
=============================================================================
