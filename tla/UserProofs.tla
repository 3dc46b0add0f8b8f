----------------------------- MODULE UserProofs -----------------------------
(***************************************************************************)
(* The three sequential parts in user space, for any size.  The rings of   *)
(* the linked list stay rings, for every set of heads and entries.         *)
(*                                                                         *)
(* The tool finds the right region and gives up rightly, for any number of *)
(* blocks, whichever of them are removable and whatever Linux refuses.     *)
(* What makes it so although a scan does not reset reg_start: no region    *)
(* before reg_start is long enough, and the block before it is not set, so *)
(* that the scan gets there and sets reg_start to what it is already.      *)
(*                                                                         *)
(* The thread library when main does not join, for any number of threads   *)
(* and any values: every thread is in one place, a blocked thread waits    *)
(* for a living one, a join gives the value of the thread that was joined, *)
(* and no assert fails.  None of the four is inductive alone.              *)
(***************************************************************************)
EXTENDS List, PetmemTool, PetThread, NaturalsInduction, WellFoundedInduction, TLAPS

\* The memory s is made of rings on the set L.
RingOn(s, L) ==
    \A n \in L : /\ s.next[n] \in L /\ s.prev[n] \in L
                 /\ s.prev[s.next[n]] = n /\ s.next[s.prev[n]] = n

Memory == [next : [Node -> Node \cup {LIST_POISON1}], prev : [Node -> Node \cup {LIST_POISON2}]]

\* Ring alone is not inductive: __list_splice would tear a ring in which the
\* two heads met.  OneHead says they never do.
ListIInv == ListTypeOK /\ Ring /\ OneHead

\* __list_add between two neighbours (list_add, list_add_tail) extends a ring.
LEMMA AddRing ==
    ASSUME NEW s \in Memory, NEW L \in SUBSET Node, RingOn(s, L),
           NEW new \in Node \ L, NEW p \in L, NEW n \in L, s.next[p] = n
    PROVE  /\ __list_add(s, new, p, n) \in Memory
           /\ RingOn(__list_add(s, new, p, n), L \cup {new})
<1> DEFINE t == __list_add(s, new, p, n)
<1>1. t.next = [s.next EXCEPT ![new] = n, ![p] = new] /\ t.prev = [s.prev EXCEPT ![n] = new, ![new] = p]
  BY DEF __list_add
<1>2. s.next \in [Node -> Node \cup {LIST_POISON1}] /\ s.prev \in [Node -> Node \cup {LIST_POISON2}]
  BY DEF Memory
<1>3. t \in Memory
  BY <1>2 DEF Memory, __list_add
<1>4. s.prev[n] = p
  BY DEF RingOn
<1>5. ASSUME NEW x \in L \cup {new}
      PROVE  /\ t.next[x] \in L \cup {new} /\ t.prev[x] \in L \cup {new}
             /\ t.prev[t.next[x]] = x /\ t.next[t.prev[x]] = x
  <2>1. CASE x = new
    BY <1>1, <1>2, <2>1
  <2>2. CASE x # new /\ x = p
    BY <1>1, <1>2, <1>4, <2>2 DEF RingOn
  <2>3. CASE x # new /\ x # p
    BY SMTT(20), Zenon, <1>1, <1>2, <1>4, <2>3 DEF RingOn
  <2> QED
    BY <2>1, <2>2, <2>3
<1> QED
  BY <1>3, <1>5 DEF RingOn

\* __list_del of an entry closes the ring behind it.
LEMMA DelRing ==
    ASSUME NEW s \in Memory, NEW L \in SUBSET Node, RingOn(s, L), NEW e \in L
    PROVE  /\ __list_del(s, s.prev[e], s.next[e]) \in Memory
           /\ RingOn(__list_del(s, s.prev[e], s.next[e]), L \ {e})
<1> DEFINE p == s.prev[e]
           n == s.next[e]
           t == __list_del(s, p, n)
<1>1. t.next = [s.next EXCEPT ![p] = n] /\ t.prev = [s.prev EXCEPT ![n] = p]
  BY DEF __list_del
<1>2. s.next \in [Node -> Node \cup {LIST_POISON1}] /\ s.prev \in [Node -> Node \cup {LIST_POISON2}]
  BY DEF Memory
<1>3. p \in L /\ n \in L /\ s.next[p] = e /\ s.prev[n] = e
  BY DEF RingOn
<1>4. t \in Memory
  BY <1>2, <1>3 DEF Memory, __list_del
<1>5. ASSUME NEW x \in L \ {e}
      PROVE  /\ t.next[x] \in L \ {e} /\ t.prev[x] \in L \ {e}
             /\ t.prev[t.next[x]] = x /\ t.next[t.prev[x]] = x
  <2> HIDE DEF t, p, n
  <2>1. t.next[x] = (IF x = p THEN n ELSE s.next[x]) /\ t.prev[x] = (IF x = n THEN p ELSE s.prev[x])
    BY <1>1, <1>2, <1>3
  <2>2. \A y \in L : t.next[y] = (IF y = p THEN n ELSE s.next[y])
                     /\ t.prev[y] = (IF y = n THEN p ELSE s.prev[y])
    BY <1>1, <1>2, <1>3
  <2>3. \A y \in L : s.next[y] \in L /\ s.prev[y] \in L /\ s.prev[s.next[y]] = y /\ s.next[s.prev[y]] = y
    BY DEF RingOn
  <2>4. n = s.next[e] /\ p = s.prev[e]
    BY DEF n, p
  <2> QED
    BY SMTT(20), Zenon, <1>3, <2>2, <2>3, <2>4
<1> QED
  BY <1>4, <1>5 DEF RingOn

\* A head or an entry outside the rings may be written.
LEMMA OutsideRing ==
    ASSUME NEW s \in Memory, NEW L \in SUBSET Node, RingOn(s, L), NEW x \in Node \ L
    PROVE  /\ INIT_LIST_HEAD(s, x) \in Memory /\ poison(s, x) \in Memory
           /\ RingOn(INIT_LIST_HEAD(s, x), L) /\ RingOn(poison(s, x), L)
           /\ RingOn(INIT_LIST_HEAD(s, x), L \cup {x})
<1>1. s.next \in [Node -> Node \cup {LIST_POISON1}] /\ s.prev \in [Node -> Node \cup {LIST_POISON2}]
  BY DEF Memory
<1>2. INIT_LIST_HEAD(s, x) \in Memory /\ poison(s, x) \in Memory
  BY <1>1 DEF Memory, INIT_LIST_HEAD, poison
<1>3. RingOn(INIT_LIST_HEAD(s, x), L) /\ RingOn(INIT_LIST_HEAD(s, x), L \cup {x})
  BY <1>1 DEF RingOn, INIT_LIST_HEAD
<1>4. RingOn(poison(s, x), L)
  BY <1>1 DEF RingOn, poison
<1> QED
  BY <1>2, <1>3, <1>4

-----------------------------------------------------------------------------
\* own names the head of every ring of s on L.
OwnsOn(s, L, own) ==
    /\ own \in [Node -> Heads]
    /\ \A n \in L : own[s.next[n]] = own[n]
    /\ \A h \in Heads : own[h] = h

\* __list_add gives the new entry to the head that owns its neighbours.
LEMMA AddOwns ==
    ASSUME NEW s \in Memory, NEW L \in SUBSET Node, RingOn(s, L), NEW own, OwnsOn(s, L, own),
           NEW new \in Entries \ L, NEW p \in L, NEW n \in L, s.next[p] = n
    PROVE  OwnsOn(__list_add(s, new, p, n), L \cup {new}, [own EXCEPT ![new] = own[p]])
<1> DEFINE t == __list_add(s, new, p, n)
           own2 == [own EXCEPT ![new] = own[p]]
<1>1. t.next = [s.next EXCEPT ![new] = n, ![p] = new] /\ s.next \in [Node -> Node \cup {LIST_POISON1}]
  BY DEF __list_add, Memory
<1>2. own \in [Node -> Heads] /\ own[n] = own[p] /\ new \in Node /\ new \notin Heads
  BY ListAssumption DEF OwnsOn, Node
<1>3. own2 \in [Node -> Heads] /\ \A h \in Heads : own2[h] = h
  BY <1>2 DEF OwnsOn, Node
<1>4. ASSUME NEW x \in L \cup {new} PROVE own2[t.next[x]] = own2[x]
  <2>1. CASE x = new
    BY <1>1, <1>2, <2>1
  <2>2. CASE x = p
    BY <1>1, <1>2, <2>2
  <2>3. CASE x # new /\ x # p
    <3>1. t.next[x] = s.next[x] /\ s.next[x] \in L /\ own[s.next[x]] = own[x]
      BY <1>1, <2>3 DEF RingOn, OwnsOn
    <3> QED
      BY <1>2, <2>3, <3>1
  <2> QED
    BY <2>1, <2>2, <2>3
<1> QED
  BY <1>3, <1>4 DEF OwnsOn

\* __list_del leaves the owners of the others as they are.
LEMMA DelOwns ==
    ASSUME NEW s \in Memory, NEW L \in SUBSET Node, RingOn(s, L), NEW own, OwnsOn(s, L, own),
           NEW e \in L
    PROVE  OwnsOn(__list_del(s, s.prev[e], s.next[e]), L \ {e}, own)
<1>1. s.next \in [Node -> Node \cup {LIST_POISON1}] /\ s.prev[e] \in L /\ s.next[s.prev[e]] = e
  BY DEF Memory, RingOn
<1>2. own[s.next[e]] = own[e] /\ own[e] = own[s.prev[e]]
  BY <1>1 DEF OwnsOn
<1>3. \A x \in L \ {e} : __list_del(s, s.prev[e], s.next[e]).next[x]
                           = IF x = s.prev[e] THEN s.next[e] ELSE s.next[x]
  BY <1>1 DEF __list_del
<1> QED
  BY <1>2, <1>3 DEF OwnsOn

\* So does a write to an entry or a head outside the rings.
LEMMA OutsideOwns ==
    ASSUME NEW s \in Memory, NEW L \in SUBSET Node, NEW own, OwnsOn(s, L, own), NEW x \in Node \ L
    PROVE  /\ OwnsOn(INIT_LIST_HEAD(s, x), L \cup {x}, own)
           /\ OwnsOn(INIT_LIST_HEAD(s, x), L, own) /\ OwnsOn(poison(s, x), L, own)
<1>1. s.next \in [Node -> Node \cup {LIST_POISON1}]
  BY DEF Memory
<1> QED
  BY <1>1 DEF OwnsOn, INIT_LIST_HEAD, poison

\* __list_splice moves the entries of one ring into another, whose heads differ.
LEMMA Splice ==
    ASSUME NEW s \in Memory, NEW L \in SUBSET Node, RingOn(s, L), NEW own, OwnsOn(s, L, own),
           NEW list \in L \cap Heads, NEW head \in L \cap Heads, list # head, s.next[list] # list
    PROVE  /\ __list_splice(s, list, head) \in Memory
           /\ RingOn(__list_splice(s, list, head), L \ {list})
           /\ OwnsOn(__list_splice(s, list, head), L \ {list},
                     [n \in Node |-> IF n # list /\ own[n] = list THEN head ELSE own[n]])
<1> DEFINE first == s.next[list]
           last == s.prev[list]
           at == s.next[head]
           t == __list_splice(s, list, head)
           own2 == [n \in Node |-> IF n # list /\ own[n] = list THEN head ELSE own[n]]
<1>1. /\ t.next = [s.next EXCEPT ![head] = first, ![last] = at]
      /\ t.prev = [s.prev EXCEPT ![first] = head, ![at] = last]
  BY DEF __list_splice
<1>2. s.next \in [Node -> Node \cup {LIST_POISON1}] /\ s.prev \in [Node -> Node \cup {LIST_POISON2}]
  BY DEF Memory
<1>3. /\ first \in L /\ last \in L /\ at \in L /\ s.prev[first] = list /\ s.next[last] = list
      /\ s.prev[at] = head /\ first # list /\ last # list
  BY DEF RingOn
<1>4. own[first] = list /\ own[last] = list /\ own[at] = head /\ own[list] = list /\ own[head] = head
  BY <1>3 DEF OwnsOn
<1>5. t \in Memory
  BY <1>1, <1>2, <1>3 DEF Memory, __list_splice
<1>6. \A y \in L : /\ t.next[y] = (IF y = last THEN at ELSE IF y = head THEN first ELSE s.next[y])
                   /\ t.prev[y] = (IF y = at THEN last ELSE IF y = first THEN head ELSE s.prev[y])
  BY <1>1, <1>2, <1>3
<1>7. \A y \in L : s.next[y] \in L /\ s.prev[y] \in L /\ s.prev[s.next[y]] = y /\ s.next[s.prev[y]] = y
  BY DEF RingOn
<1>8. \A y \in L : own[s.next[y]] = own[y]
  BY DEF OwnsOn
<1>9. first = s.next[list] /\ last = s.prev[list] /\ at = s.next[head]
  OBVIOUS
<1> HIDE DEF first, last, at, t
<1>10. ASSUME NEW x \in L \ {list}
       PROVE  /\ t.next[x] \in L \ {list} /\ t.prev[x] \in L \ {list}
              /\ t.prev[t.next[x]] = x /\ t.next[t.prev[x]] = x
  <2>1. head # last /\ at # list /\ at # first
    BY <1>4
  <2>2. t.next[x] \in L \ {list} /\ t.prev[t.next[x]] = x
    <3>1. CASE x = last
      BY <1>3, <1>6, <2>1, <3>1
    <3>2. CASE x # last /\ x = head
      BY <1>3, <1>6, <2>1, <3>2
    <3>3. CASE x # last /\ x # head
      <4>1. t.next[x] = s.next[x] /\ s.next[x] \in L /\ s.prev[s.next[x]] = x
        BY <1>6, <1>7, <3>3
      <4>2. s.next[x] # list /\ s.next[x] # at /\ s.next[x] # first
        BY <1>3, <1>9, <4>1, <3>3
      <4> QED
        BY <1>6, <4>1, <4>2
    <3> QED
      BY <3>1, <3>2, <3>3
  <2>3. t.prev[x] \in L \ {list} /\ t.next[t.prev[x]] = x
    <3>1. CASE x = at
      BY <1>3, <1>6, <2>1, <3>1
    <3>2. CASE x # at /\ x = first
      BY <1>3, <1>6, <2>1, <3>2
    <3>3. CASE x # at /\ x # first
      <4>1. t.prev[x] = s.prev[x] /\ s.prev[x] \in L /\ s.next[s.prev[x]] = x
        BY <1>6, <1>7, <3>3
      <4>2. s.prev[x] # list /\ s.prev[x] # last /\ s.prev[x] # head
        BY <1>3, <1>9, <4>1, <3>3
      <4> QED
        BY <1>6, <4>1, <4>2
    <3> QED
      BY <3>1, <3>2, <3>3
  <2> QED
    BY <2>2, <2>3
<1>11. own2 \in [Node -> Heads] /\ \A h \in Heads : own2[h] = h
  BY DEF OwnsOn, Node
<1>12. ASSUME NEW x \in L \ {list} PROVE own2[t.next[x]] = own2[x]
  <2>1. t.next[x] \in L \ {list}
    BY <1>10
  <2>2. own[t.next[x]] = own[x] \/ (own[t.next[x]] \in {list, head} /\ own[x] \in {list, head})
    BY <1>4, <1>6, <1>8
  <2>3. \A y \in L \ {list} : own2[y] = IF own[y] = list THEN head ELSE own[y]
    OBVIOUS
  <2> QED
    BY <2>1, <2>2, <2>3
<1> QED
  BY <1>5, <1>10, <1>11, <1>12, Zenon DEF RingOn, OwnsOn, t

-----------------------------------------------------------------------------
\* A ring with an owner for every entry is what the invariant asks for.
LEMMA ListIInvIsGood ==
    ListIInv <=> /\ m \in Memory /\ linked \in SUBSET Node /\ RingOn(m, linked)
             /\ \E own : OwnsOn(m, linked, own)
<1>1. ListTypeOK <=> m \in Memory /\ linked \in SUBSET Node
  BY DEF ListTypeOK, Memory
<1>2. Ring <=> RingOn(m, linked)
  BY DEF Ring, RingOn
<1>3. OneHead <=> \E own : OwnsOn(m, linked, own)
  BY DEF OneHead, Owns, OwnsOn
<1> QED
  BY <1>1, <1>2, <1>3 DEF ListIInv

\* The same of the next state.
LEMMA GoodAfter ==
    ASSUME m' \in Memory, linked' \in SUBSET Node, RingOn(m', linked'),
           NEW own, OwnsOn(m', linked', own)
    PROVE  ListIInv'
<1>1. ListTypeOK'
  BY DEF ListTypeOK, Memory
<1>2. Ring'
  BY DEF Ring, RingOn
<1>3. OneHead'
  BY DEF OneHead, Owns, OwnsOn
<1> QED
  BY <1>1, <1>2, <1>3 DEF ListIInv

\* The lists list_head_init leaves are empty rings, each its own.
LEMMA ListInitIInv == ListInit => ListIInv
<1> SUFFICES ASSUME ListInit PROVE ListIInv
  OBVIOUS
<1>1. m \in Memory /\ linked \in SUBSET Node /\ RingOn(m, linked)
  BY DEF ListInit, Memory, Node, RingOn
<1>2. PICK h \in Heads : TRUE
  BY ListAssumption
<1>3. OwnsOn(m, linked, [n \in Node |-> IF n \in Heads THEN n ELSE h])
  BY DEF OwnsOn, ListInit, Node
<1> QED
  BY <1>1, <1>3, ListIInvIsGood

\* Every list operation keeps the rings and gives its entries one owner each.
LEMMA ListNextIInv == ListIInv /\ [ListNext]_list_vars => ListIInv'
<1> SUFFICES ASSUME ListIInv, [ListNext]_list_vars PROVE ListIInv'
  OBVIOUS
<1>1. m \in Memory /\ linked \in SUBSET Node /\ RingOn(m, linked)
  BY ListIInvIsGood
<1>2. PICK own : OwnsOn(m, linked, own)
  BY ListIInvIsGood
<1>3. ASSUME NEW e \in Entries, NEW h \in Heads, list_add(e, h) PROVE ListIInv'
  <2>1. h \in linked /\ m.next[h] \in linked /\ e \in Entries \ linked /\ e \in Node \ linked
    BY <1>1, <1>3 DEF list_add, RingOn, Node
  <2>2. m' \in Memory /\ RingOn(m', linked') /\ linked' \in SUBSET Node
    BY <1>1, <1>3, <2>1, AddRing DEF list_add
  <2>3. OwnsOn(m', linked', [own EXCEPT ![e] = own[h]])
    BY <1>1, <1>2, <1>3, <2>1, AddOwns, Zenon DEF list_add
  <2> QED
    BY <2>2, <2>3, GoodAfter
<1>4. ASSUME NEW e \in Entries, NEW h \in Heads, list_add_tail(e, h) PROVE ListIInv'
  <2>1. /\ h \in linked /\ m.prev[h] \in linked /\ m.next[m.prev[h]] = h
        /\ e \in Entries \ linked /\ e \in Node \ linked
    BY <1>1, <1>4 DEF list_add_tail, RingOn, Node
  <2>2. m' \in Memory /\ RingOn(m', linked') /\ linked' \in SUBSET Node
    BY <1>1, <1>4, <2>1, AddRing, Zenon DEF list_add_tail
  <2>3. OwnsOn(m', linked', [own EXCEPT ![e] = own[m.prev[h]]])
    BY SMTT(20), Zenon, <1>1, <1>2, <1>4, <2>1, AddOwns DEF list_add_tail
  <2> QED
    BY <2>2, <2>3, GoodAfter
<1>5. ASSUME NEW e \in Entries, list_del(e) \/ list_del_init(e) PROVE ListIInv'
  <2> DEFINE s == __list_del(m, m.prev[e], m.next[e])
             L == linked \ {e}
  <2>1. e \in linked /\ linked' = L /\ e \in Node \ L
    BY <1>1, <1>5 DEF list_del, list_del_init
  <2>2. s \in Memory /\ RingOn(s, L) /\ OwnsOn(s, L, own)
    BY <1>1, <1>2, <2>1, DelRing, DelOwns, Zenon
  <2>3. m' = poison(s, e) \/ m' = INIT_LIST_HEAD(s, e)
    BY <1>5 DEF list_del, list_del_init
  <2>4. L \in SUBSET Node
    BY <1>1
  <2> HIDE DEF s, L
  <2>5. m' \in Memory /\ RingOn(m', L)
    BY <2>1, <2>2, <2>3, <2>4, OutsideRing, Zenon
  <2>6. OwnsOn(m', L, own)
    BY <2>1, <2>2, <2>3, <2>4, OutsideOwns, Zenon
  <2> QED
    BY <2>1, <2>4, <2>5, <2>6, GoodAfter
<1>6. ASSUME NEW e \in Entries, NEW h \in Heads, list_move(e, h) \/ list_move_tail(e, h) PROVE ListIInv'
  <2> DEFINE s == __list_del(m, m.prev[e], m.next[e])
             L == linked \ {e}
  <2>1. e \in linked /\ h \in L /\ linked' = linked /\ linked = L \cup {e} /\ e \in Node \ L
        /\ e \in Entries \ L
    BY <1>1, <1>6, ListAssumption DEF list_move, list_move_tail
  <2>2. s \in Memory /\ RingOn(s, L) /\ OwnsOn(s, L, own)
    BY <1>1, <1>2, <2>1, DelRing, DelOwns, Zenon
  <2>3. m' = __list_add(s, e, h, s.next[h]) \/ m' = __list_add(s, e, s.prev[h], h)
    BY <1>6 DEF list_move, list_move_tail
  <2>4. L \in SUBSET Node
    BY <1>1
  <2> HIDE DEF s, L
  <2>5. s.next[h] \in L /\ s.prev[h] \in L /\ s.next[s.prev[h]] = h
    BY <2>1, <2>2 DEF RingOn
  <2>6. m' \in Memory /\ RingOn(m', L \cup {e})
    <3>1. LET a == __list_add(s, e, h, s.next[h]) IN a \in Memory /\ RingOn(a, L \cup {e})
      BY <2>1, <2>2, <2>4, <2>5, AddRing
    <3>2. LET a == __list_add(s, e, s.prev[h], h) IN a \in Memory /\ RingOn(a, L \cup {e})
      BY <2>1, <2>2, <2>4, <2>5, AddRing
    <3> QED
      BY <2>3, <3>1, <3>2
  <2>7. \E o : OwnsOn(m', L \cup {e}, o)
    <3>1. OwnsOn(__list_add(s, e, h, s.next[h]), L \cup {e}, [own EXCEPT ![e] = own[h]])
      BY <2>1, <2>2, <2>4, <2>5, AddOwns, Zenon
    <3>2. OwnsOn(__list_add(s, e, s.prev[h], h), L \cup {e}, [own EXCEPT ![e] = own[s.prev[h]]])
      BY <2>1, <2>2, <2>4, <2>5, AddOwns, Zenon
    <3> QED
      BY <2>3, <3>1, <3>2
  <2> QED
    BY <1>1, <2>1, <2>6, <2>7, GoodAfter
<1>7. ASSUME NEW l \in Heads, NEW h \in Heads, list_splice(l, h) PROVE ListIInv'
  <2>1. CASE list_empty(m, l)
    BY <1>1, <1>2, <1>7, <2>1, GoodAfter DEF list_splice, list_vars
  <2>2. CASE ~ list_empty(m, l)
    <3>1. l \in linked \cap Heads /\ h \in linked \cap Heads /\ l # h /\ m.next[l] # l
      BY <1>7, <2>2 DEF list_splice, list_empty
    <3>2. m' = __list_splice(m, l, h) /\ linked' = linked \ {l}
      BY <1>7, <2>2 DEF list_splice
    <3>3. m' \in Memory /\ RingOn(m', linked') /\ \E o : OwnsOn(m', linked', o)
      BY <1>1, <1>2, <3>1, <3>2, Splice, Zenon
    <3> QED
      BY <1>1, <3>2, <3>3, GoodAfter
  <2> QED
    BY <2>1, <2>2
<1>8. ASSUME NEW l \in Heads, NEW h \in Heads, list_splice_init(l, h) PROVE ListIInv'
  <2>1. CASE list_empty(m, l)
    BY <1>1, <1>2, <1>8, <2>1, GoodAfter DEF list_splice_init
  <2>2. CASE ~ list_empty(m, l)
    <3> DEFINE s == __list_splice(m, l, h)
               L == linked \ {l}
               o == [n \in Node |-> IF n # l /\ own[n] = l THEN h ELSE own[n]]
    <3>1. l \in linked \cap Heads /\ h \in linked \cap Heads /\ l # h /\ m.next[l] # l
      BY <1>8, <2>2 DEF list_splice_init, list_empty
    <3>2. m' = INIT_LIST_HEAD(s, l) /\ linked' = L \cup {l} /\ L \in SUBSET Node /\ l \in Node \ L
      BY <1>1, <1>8, <2>2, <3>1 DEF list_splice_init
    <3>3. s \in Memory /\ RingOn(s, L) /\ OwnsOn(s, L, o)
      BY <1>1, <1>2, <3>1, Splice
    <3> HIDE DEF s, L, o
    <3>4. m' \in Memory /\ RingOn(m', linked')
      BY <3>2, <3>3, OutsideRing
    <3>5. OwnsOn(m', linked', o)
      BY <3>2, <3>3, OutsideOwns
    <3> QED
      BY <3>2, <3>4, <3>5, GoodAfter
  <2> QED
    BY <2>1, <2>2
<1>9. ASSUME NEW h \in Heads, list_head_init(h) PROVE ListIInv'
  <2>1. h \in Node \ linked /\ m' = INIT_LIST_HEAD(m, h) /\ linked' = linked \cup {h}
    BY <1>9 DEF list_head_init, Node
  <2>2. m' \in Memory /\ RingOn(m', linked')
    BY <1>1, <2>1, OutsideRing
  <2>3. OwnsOn(m', linked', own)
    BY <1>1, <1>2, <2>1, OutsideOwns
  <2> QED
    BY <1>1, <2>1, <2>2, <2>3, GoodAfter
<1>10. ASSUME UNCHANGED list_vars PROVE ListIInv'
  BY <1>1, <1>2, <1>10, GoodAfter DEF list_vars
<1> QED
  BY <1>3, <1>4, <1>5, <1>6, <1>7, <1>8, <1>9, <1>10 DEF ListNext

\* In every list program that follows the discipline, however many lists and
\* entries there are, list_add, list_del, list_move and list_splice keep next
\* and prev inverse to each other on what is linked.
THEOREM ListRing == ListSpec => []Ring
<1>1. ListIInv => Ring
  BY DEF ListIInv
<1> QED
  BY ListInitIInv, ListNextIInv, <1>1, PTL DEF ListSpec

\* And no two lists ever run into each other.
THEOREM ListOneHead == ListSpec => []OneHead
<1>1. ListIInv => OneHead
  BY DEF ListIInv
<1> QED
  BY ListInitIInv, ListNextIInv, <1>1, PTL DEF ListSpec

-----------------------------------------------------------------------------
Free(b) == b .. b + num_blocks - 1 \subseteq bitmap

\* No region that begins before start is long enough, and none that begins
\* there could begin earlier.
Behind(start) ==
    /\ start > 0 => start - 1 \notin bitmap
    /\ num_blocks > 0 => \A b \in 0 .. start - 1 : ~ Free(b)

\* The loop over the bitmap is left.
Long(s) == s.run_len >= num_blocks /\ s.run_len > 0

\* The scan after n turns: the run it is in, which ends here or is long enough,
\* or the blocks from 0 on while reg_start is still that of the last scan.
Scanned(n, s) ==
    /\ s \in [reg_start : 0 .. bitmap_entries, run_len : 0 .. bitmap_entries]
    /\ \/ /\ s.reg_start + s.run_len <= n
          /\ ~ Long(s) => s.reg_start + s.run_len = n
          /\ s.reg_start .. s.reg_start + s.run_len - 1 \subseteq bitmap
          /\ Behind(s.reg_start)
       \/ /\ n < s.reg_start /\ s.reg_start = reg_start
          /\ s.run_len = n /\ 0 .. n - 1 \subseteq bitmap

ToolIInv ==
    /\ ToolTypeOK
    /\ removable \subseteq Block
    /\ pc = "read" => reg_start = 0 /\ bitmap = {}
    /\ pc \in {"scan", "offline", "check"} => Behind(reg_start)
    /\ pc = "scan" /\ num_blocks = 0 => reg_start = 0
    /\ pc \in {"offline", "check"} => region \subseteq bitmap
    /\ pc = "check" => reg_start .. reg_start + i - 1 \subseteq offline
    /\ given # {} => pc = "done" /\ given \subseteq offline
    /\ GivesUpRightly

\* Induction over the natural numbers, on a set.
LEMMA NatIn ==
  ASSUME NEW S, 0 \in S, \A n \in Nat : n \in S => n + 1 \in S
  PROVE  Nat \subseteq S
<1> SUFFICES ASSUME Nat \ S # {} PROVE FALSE
  OBVIOUS
<1> DEFINE T == Nat \ S
<1>1. PICK x \in T : \A y \in T : ~ (<<y, x>> \in OpToRel(<, Nat))
  <2>1. T \subseteq Nat /\ T # {}
    OBVIOUS
  <2> HIDE DEF T
  <2> QED BY <2>1, NatLessThanWellFounded, WFMin, Zenon
<1>2. x \in Nat /\ x # 0
  OBVIOUS
<1>3. x - 1 \in Nat /\ (x - 1) + 1 = x /\ x - 1 < x
  BY <1>2
<1>4. x - 1 \in T
  BY <1>2, <1>3
<1>5. <<x - 1, x>> \in OpToRel(<, Nat)
  BY <1>2, <1>3 DEF OpToRel
<1> QED BY <1>1, <1>4, <1>5, Zenon

\* The loop over the bitmap does what its turns do.
LEMMA AfterTurns ==
  \A n \in 0 .. bitmap_entries :
      after[n] = IF n = 0 THEN [reg_start |-> reg_start, run_len |-> 0]
                 ELSE scan_block(n - 1, after[n - 1])
<1> DEFINE N == bitmap_entries
           first == [reg_start |-> reg_start, run_len |-> 0]
           Turns(f, n) == [k \in 0 .. n |-> IF k = 0 THEN first ELSE scan_block(k - 1, f[k - 1])]
           Is == {n \in Nat : \E f : f = Turns(f, n)}
<1>1. N \in Nat
  BY ToolAssumption
<1> HIDE DEF first
<1>2. 0 \in Is
  <2> DEFINE f == [k \in 0 .. 0 |-> first]
  <2>1. f = Turns(f, 0)
    OBVIOUS
  <2> QED BY <2>1, Zenon
<1>3. ASSUME NEW n \in Nat, n \in Is PROVE n + 1 \in Is
  <2> SUFFICES \E f : f = Turns(f, n + 1)
    OBVIOUS
  <2>1. PICK f : f = Turns(f, n)
    BY <1>3
  <2> DEFINE g == [k \in 0 .. n + 1 |-> IF k = n + 1 THEN scan_block(n, f[n]) ELSE f[k]]
  <2>2. ASSUME NEW k \in 0 .. n + 1
        PROVE  g[k] = IF k = 0 THEN first ELSE scan_block(k - 1, g[k - 1])
    <3>1. CASE k = n + 1
      <4>1. g[k] = scan_block(n, f[n]) /\ g[k - 1] = f[n] /\ k # 0 /\ k - 1 = n
        BY <3>1
      <4> QED BY <4>1
    <3>2. CASE k # n + 1
      <4>1. k \in 0 .. n /\ g[k] = f[k]
        BY <3>2
      <4>2. f[k] = IF k = 0 THEN first ELSE scan_block(k - 1, f[k - 1])
        BY <2>1, <4>1
      <4>3. k # 0 => g[k - 1] = f[k - 1]
        BY <4>1
      <4> QED BY <4>1, <4>2, <4>3
    <3> QED BY <3>1, <3>2
  <2>3. g = Turns(g, n + 1)
    BY <2>2
  <2> QED BY <2>3, Zenon
<1>4. N \in Is
  <2> HIDE DEF Is
  <2> QED BY <1>1, <1>2, <1>3, NatIn
<1>5. \E f : f = Turns(f, N)
  BY <1>4
<1>6. after = Turns(after, N)
  <2>1. after = CHOOSE f : f = Turns(f, N)
    BY DEF after, first
  <2> QED BY <1>5, <2>1, Zenon
<1> QED BY <1>6, Zenon DEF first

\* A turn of the scan.
LEMMA Turn ==
  ASSUME NEW n \in Nat, n + 1 <= bitmap_entries, NEW s, Scanned(n, s),
         reg_start \in 0 .. bitmap_entries, Behind(reg_start), num_blocks = 0 => reg_start = 0
  PROVE  Scanned(n + 1, scan_block(n, s))
<1> DEFINE r == s.reg_start
           l == s.run_len
           Here == /\ r + l <= n /\ (~ Long(s) => r + l = n)
                   /\ r .. r + l - 1 \subseteq bitmap /\ Behind(r)
           Early == n < r /\ r = reg_start /\ l = n /\ 0 .. n - 1 \subseteq bitmap
<1>1. /\ bitmap_entries \in Nat /\ num_blocks \in Nat /\ r \in 0 .. bitmap_entries /\ l \in 0 .. bitmap_entries
      /\ s = [reg_start |-> r, run_len |-> l]
  BY ToolAssumption DEF Scanned
<1>2. Here \/ Early
  BY DEF Scanned
<1>3. CASE Long(s)
  <2>1. scan_block(n, s) = s
    BY <1>3 DEF scan_block, Long
  <2>2. ASSUME Early PROVE FALSE
    <3>1. num_blocks > 0 /\ 0 \in 0 .. reg_start - 1
      BY <1>1, <2>2
    <3>2. 0 .. 0 + num_blocks - 1 \subseteq 0 .. n - 1
      BY <1>1, <1>3, <2>2 DEF Long
    <3> QED BY <2>2, <3>1, <3>2 DEF Behind, Free
  <2>3. r + l <= n + 1
    BY <1>1, <1>2, <2>2
  <2> QED BY <1>2, <1>3, <2>1, <2>2, <2>3 DEF Scanned
<1>4. ~ Long(s) /\ num_blocks > 0 => l < num_blocks
  BY <1>1 DEF Long
<1>5. CASE ~ Long(s) /\ n \notin bitmap
  <2> DEFINE t == [reg_start |-> n + 1, run_len |-> 0]
  <2>1. scan_block(n, s) = t
    BY <1>5 DEF scan_block, Long
  <2>2. ASSUME num_blocks > 0, NEW b \in 0 .. (n + 1) - 1 PROVE ~ Free(b)
    <3>1. CASE Early
      <4>1. b \in 0 .. reg_start - 1
        BY <3>1
      <4> QED BY <2>2, <4>1 DEF Behind
    <3>2. CASE Here /\ b < r
      <4>1. b \in 0 .. r - 1
        BY <1>1, <3>2
      <4> QED BY <2>2, <3>2, <4>1 DEF Behind
    <3>3. CASE Here /\ b >= r
      <4>1. n \in b .. b + num_blocks - 1
        BY <1>1, <1>4, <1>5, <2>2, <3>3
      <4> QED BY <1>5, <4>1 DEF Free
    <3> QED BY <1>1, <1>2, <3>1, <3>2, <3>3
  <2>3. Behind(n + 1)
    BY <1>5, <2>2 DEF Behind
  <2>4. t \in [reg_start : 0 .. bitmap_entries, run_len : 0 .. bitmap_entries]
    BY <1>1
  <2>5. n + 1 .. n + 1 + 0 - 1 \subseteq bitmap /\ n + 1 + 0 = n + 1
    OBVIOUS
  <2> QED BY <2>1, <2>3, <2>4, <2>5 DEF Scanned
<1>6. CASE ~ Long(s) /\ n \in bitmap
  <2> DEFINE t == [reg_start |-> r, run_len |-> l + 1]
  <2>1. scan_block(n, s) = t
    BY <1>1, <1>6 DEF scan_block, Long
  <2>2. CASE Here
    <3>1. r + (l + 1) = n + 1 /\ t \in [reg_start : 0 .. bitmap_entries, run_len : 0 .. bitmap_entries]
      BY <1>1, <1>6, <2>2
    <3>2. r .. r + (l + 1) - 1 \subseteq bitmap
      <4>1. \A b \in r .. r + (l + 1) - 1 : b \in r .. r + l - 1 \/ b = n
        BY <1>1, <1>6, <2>2
      <4> QED BY <1>6, <2>2, <4>1
    <3>3. t.reg_start = r /\ t.run_len = l + 1 /\ r + (l + 1) <= n + 1
      BY <1>1, <3>1
    <3> HIDE DEF t
    <3> QED BY <2>1, <2>2, <3>1, <3>2, <3>3 DEF Scanned
  <2>3. CASE Early
    <3>1. reg_start - 1 \notin bitmap
      BY <1>1, <2>3 DEF Behind
    <3>2. n + 1 < r /\ t \in [reg_start : 0 .. bitmap_entries, run_len : 0 .. bitmap_entries]
      BY <1>1, <1>6, <2>3, <3>1
    <3>3. 0 .. (n + 1) - 1 \subseteq bitmap
      <4>1. \A b \in 0 .. (n + 1) - 1 : b \in 0 .. n - 1 \/ b = n
        OBVIOUS
      <4> QED BY <1>6, <2>3, <4>1
    <3>4. t.reg_start = r /\ t.run_len = l + 1
      OBVIOUS
    <3> HIDE DEF t
    <3> QED BY <2>1, <2>3, <3>2, <3>3, <3>4 DEF Scanned
  <2> QED BY <1>2, <2>2, <2>3
<1> QED BY <1>3, <1>5, <1>6

\* The whole scan: it ends in a run that begins behind no longer one, which is
\* long enough or reaches to the end of the memory.
LEMMA ScanEnds ==
  ASSUME reg_start \in 0 .. bitmap_entries, Behind(reg_start), num_blocks = 0 => reg_start = 0
  PROVE  LET s == after[bitmap_entries]
         IN /\ s \in [reg_start : 0 .. bitmap_entries, run_len : 0 .. bitmap_entries]
            /\ ~ Long(s) => s.reg_start + s.run_len = bitmap_entries
            /\ s.reg_start .. s.reg_start + s.run_len - 1 \subseteq bitmap
            /\ Behind(s.reg_start)
<1> DEFINE Good == {n \in Nat : n <= bitmap_entries => Scanned(n, after[n])}
<1>1. bitmap_entries \in Nat
  BY ToolAssumption
<1>2. 0 \in Good
  <2> DEFINE s == [reg_start |-> reg_start, run_len |-> 0]
  <2>1. after[0] = s
    BY <1>1, AfterTurns
  <2>2. s \in [reg_start : 0 .. bitmap_entries, run_len : 0 .. bitmap_entries]
    BY <1>1
  <2>3. s.reg_start = reg_start /\ s.run_len = 0
    OBVIOUS
  <2> HIDE DEF s
  <2>4. Scanned(0, s)
    <3>1. CASE reg_start = 0
      BY <2>2, <2>3, <3>1 DEF Scanned
    <3>2. CASE reg_start > 0
      BY <2>2, <2>3, <3>2 DEF Scanned
    <3> QED BY <3>1, <3>2
  <2> QED BY <2>1, <2>4
<1>3. ASSUME NEW n \in Nat, n \in Good PROVE n + 1 \in Good
  <2> SUFFICES ASSUME n + 1 <= bitmap_entries PROVE Scanned(n + 1, after[n + 1])
    OBVIOUS
  <2>1. Scanned(n, after[n])
    BY <1>1, <1>3
  <2>2. after[n + 1] = scan_block(n, after[n])
    <3>1. n + 1 \in 0 .. bitmap_entries /\ (n + 1) - 1 = n /\ n + 1 # 0
      BY <1>1
    <3> QED BY <3>1, AfterTurns
  <2> QED BY <2>1, <2>2, Turn
<1>4. bitmap_entries \in Good
  <2> HIDE DEF Good
  <2> QED BY <1>1, <1>2, <1>3, NatIn
<1>5. Scanned(bitmap_entries, after[bitmap_entries])
  BY <1>1, <1>4
<1> QED BY <1>1, <1>5 DEF Scanned

\* The scan leads to a region of set blocks, or there is none.
LEMMA ScanIInv == ASSUME ToolIInv, scan PROVE ToolIInv'
<1> DEFINE s == after[bitmap_entries]
<1>1. /\ bitmap_entries \in Nat /\ num_blocks \in Nat /\ bitmap \subseteq Block
      /\ s \in [reg_start : 0 .. bitmap_entries, run_len : 0 .. bitmap_entries]
      /\ ~ Long(s) => s.reg_start + s.run_len = bitmap_entries
      /\ s.reg_start .. s.reg_start + s.run_len - 1 \subseteq bitmap
      /\ Behind(s.reg_start)
  <2>1. /\ reg_start \in 0 .. bitmap_entries /\ Behind(reg_start) /\ (num_blocks = 0 => reg_start = 0)
        /\ bitmap \subseteq Block
    BY DEF ToolIInv, ToolTypeOK, scan
  <2> QED BY <2>1, ScanEnds, ToolAssumption
<1> HIDE DEF s
<1>2. /\ reg_start' = s.reg_start /\ run_len' = s.run_len /\ i' = 0
      /\ pc' = IF s.run_len < num_blocks THEN "failed" ELSE "offline"
      /\ UNCHANGED <<removable, offline, bitmap, given>> /\ pc = "scan"
  BY DEF scan, s
<1>3. Behind(reg_start)'
  BY <1>1, <1>2 DEF Behind, Free
<1>4. ToolTypeOK'
  BY <1>1, <1>2 DEF ToolIInv, ToolTypeOK
<1>5. CASE s.run_len >= num_blocks
  <2>1. region' \subseteq bitmap
    <3>1. \A b \in region' : b \in s.reg_start .. s.reg_start + s.run_len - 1
      BY <1>1, <1>2, <1>5 DEF region
    <3> QED BY <1>1, <3>1
  <2>2. pc' = "offline"
    BY <1>1, <1>2, <1>5
  <2> QED BY <1>2, <1>3, <1>4, <2>1, <2>2 DEF ToolIInv, GivesUpRightly
<1>6. CASE s.run_len < num_blocks
  <2>1. num_blocks > 0 /\ s.reg_start + s.run_len = bitmap_entries /\ pc' = "failed"
    BY <1>1, <1>2, <1>6 DEF Long
  <2>2. ASSUME NEW b \in Block PROVE ~ (b .. b + num_blocks - 1 \subseteq bitmap)
    <3>1. CASE b < s.reg_start
      <4>1. b \in 0 .. s.reg_start - 1
        BY <1>1, <3>1 DEF Block
      <4> QED BY <1>1, <2>1, <4>1 DEF Behind, Free
    <3>2. CASE b >= s.reg_start
      <4>1. b + num_blocks - 1 \in b .. b + num_blocks - 1 /\ b + num_blocks - 1 \notin Block
        BY <1>1, <1>6, <2>1, <3>2 DEF Block
      <4> QED BY <1>1, <4>1
    <3> QED BY <1>1, <3>1, <3>2 DEF Block
  <2>3. GivesUpRightly'
    BY <1>2, <2>2 DEF GivesUpRightly
  <2> QED BY <1>2, <1>4, <2>1, <2>3 DEF ToolIInv
<1> QED BY <1>1, <1>5, <1>6

\* A block that has not gone offline is unset, and nothing before reg_start
\* is set by that.
LEMMA CheckIInv == ASSUME ToolIInv, check_block PROVE ToolIInv'
<1>1. /\ num_blocks \in Nat /\ reg_start \in Nat /\ i \in Nat /\ i < num_blocks /\ pc = "check"
      /\ UNCHANGED <<removable, reg_start, run_len, given>>
  BY ToolAssumption DEF ToolIInv, ToolTypeOK, check_block
<1>2. CASE is_offline(reg_start + i)
  <2>1. i' = i + 1 /\ UNCHANGED <<offline, bitmap, pc>>
    BY <1>2 DEF check_block
  <2>2. ToolTypeOK'
    BY <1>1, <2>1 DEF ToolIInv, ToolTypeOK
  <2>3. reg_start .. reg_start + (i + 1) - 1 \subseteq offline
    <3>1. \A b \in reg_start .. reg_start + (i + 1) - 1 : b \in reg_start .. reg_start + i - 1 \/ b = reg_start + i
      BY <1>1
    <3> QED BY <1>1, <1>2, <3>1 DEF ToolIInv, is_offline
  <2> QED BY <1>1, <2>1, <2>2, <2>3, Zenon DEF ToolIInv, GivesUpRightly, Behind, Free, region
<1>3. CASE ~ is_offline(reg_start + i)
  <2>1. /\ bitmap' = bitmap \ {reg_start + i} /\ offline' \subseteq offline /\ pc' = "scan" /\ i' = i
        /\ num_blocks # 0
    BY <1>1, <1>3 DEF check_block, mark_not_removable
  <2>2. ToolTypeOK'
    BY <1>1, <2>1 DEF ToolIInv, ToolTypeOK
  <2>3. Behind(reg_start)'
    BY <1>1, <2>1, Zenon DEF ToolIInv, Behind, Free
  <2>4. given' = {}
    BY <1>1 DEF ToolIInv
  <2> QED BY <1>1, <2>1, <2>2, <2>3, <2>4 DEF ToolIInv, GivesUpRightly
<1> QED BY <1>2, <1>3

\* Every step of main.
LEMMA ToolNextIInv == ToolIInv /\ [ToolNext]_tool_vars => ToolIInv'
<1> SUFFICES ASSUME ToolIInv, [ToolNext]_tool_vars PROVE ToolIInv'
  OBVIOUS
<1>1. bitmap_entries \in Nat /\ num_blocks \in Nat
  BY ToolAssumption
<1>2. ASSUME read_bitmap PROVE ToolIInv'
  <2>1. bitmap' \subseteq removable /\ reg_start = 0 /\ given = {}
    BY <1>2 DEF read_bitmap, ToolIInv
  <2>2. ToolTypeOK'
    BY <1>2, <2>1 DEF read_bitmap, ToolIInv, ToolTypeOK
  <2> QED BY <1>2, <2>1, <2>2 DEF read_bitmap, ToolIInv, Behind, GivesUpRightly
<1>3. ASSUME offline_block PROVE ToolIInv'
  <2>1. reg_start + i \in Block
    <3>1. reg_start + i \in region
      BY <1>1, <1>3 DEF offline_block, ToolIInv, ToolTypeOK, region
    <3> QED BY <1>3, <3>1 DEF offline_block, ToolIInv, ToolTypeOK
  <2>2. ToolTypeOK'
    BY <1>1, <1>3, <2>1 DEF offline_block, ToolIInv, ToolTypeOK
  <2>3. given' = {}
    BY <1>3 DEF offline_block, ToolIInv
  <2> QED BY <1>3, <2>2, <2>3 DEF offline_block, ToolIInv, Behind, Free, region, GivesUpRightly
<1>4. ASSUME offline_end PROVE ToolIInv'
  <2>1. ToolTypeOK'
    BY <1>1, <1>4 DEF offline_end, ToolIInv, ToolTypeOK
  <2>2. reg_start' .. reg_start' + i' - 1 \subseteq offline'
    BY <1>4 DEF offline_end, ToolIInv, ToolTypeOK
  <2> QED BY <1>4, <2>1, <2>2 DEF offline_end, ToolIInv, Behind, Free, region, GivesUpRightly
<1>5. ASSUME give PROVE ToolIInv'
  <2>1. ToolTypeOK'
    BY <1>5 DEF give, ToolIInv, ToolTypeOK
  <2>2. region \subseteq offline
    BY <1>5 DEF give, ToolIInv, region
  <2> QED BY <1>5, <2>1, <2>2 DEF give, ToolIInv, GivesUpRightly
<1>6. ASSUME UNCHANGED tool_vars PROVE ToolIInv'
  BY <1>6 DEF tool_vars, ToolIInv, ToolTypeOK, Behind, Free, region, GivesUpRightly
<1> QED BY <1>2, <1>3, <1>4, <1>5, <1>6, ScanIInv, CheckIInv DEF ToolNext, Finished

\* The start of main.
LEMMA ToolInitIInv == ToolInit => ToolIInv
<1> SUFFICES ASSUME ToolInit PROVE ToolIInv
  OBVIOUS
<1>1. ToolTypeOK
  BY ToolAssumption DEF ToolInit, ToolTypeOK
<1> QED BY <1>1 DEF ToolInit, ToolIInv, GivesUpRightly

\* The tool asks Linux only for blocks that it takes for removable, however
\* often it has to start again, and gives the module a region only when every
\* block of it is offline.
THEOREM ToolRegionIsRight == ToolSpec => []RegionIsRight
<1>1. ToolIInv => RegionIsRight
  BY DEF ToolIInv, RegionIsRight
<1> QED BY <1>1, ToolInitIInv, ToolNextIInv, PTL DEF ToolSpec

\* The tool gives up only when no run of the blocks that Linux has not refused
\* is long enough.
THEOREM ToolGivesUpRightly == ToolSpec => []GivesUpRightly
<1>1. ToolIInv => GivesUpRightly
  BY DEF ToolIInv
<1> QED BY <1>1, ToolInitIInv, ToolNextIInv, PTL DEF ToolSpec

-----------------------------------------------------------------------------
State == {"none", "STOPPED", "RUNNING", "READY", "BLOCKED"}
Cont == [at : {"start", "yield", "schedule9", "join", "exited"}, on : Thread \cup {NULL}]

Types ==
    /\ TypeOK
    /\ cont \in [Thread -> Cont]
    /\ joined \in [Thread -> (Thread \cup {NULL}) \X (RetVal \cup {NULL})]
    /\ exit_value \in [Thread -> RetVal \cup {NULL}]
    /\ crashed = "no"

\* The list has the members of S as its entries, each once.
Holds(list, S) ==
    /\ list \in Seq(Thread)
    /\ \A k \in 1 .. Len(list) : list[k] \in S
    /\ \A t \in S : \E k \in 1 .. Len(list) : list[k] = t
    /\ \A j, k \in 1 .. Len(list) : list[j] = list[k] => j = k

\* OnePlace, and that ids are given in order.
Places ==
    /\ Holds(ready_list, {t \in Created : state[t] = "READY"})
    /\ Holds(blocked_list, {t \in Created : state[t] = "BLOCKED"})
    /\ \A t \in Thread : state[t] = "RUNNING" <=> t = running
    /\ state[Master] \in {"RUNNING", "READY"}
    /\ freed = {t \in Created : state[t] = "STOPPED"}

Ids == \A t \in Created : state[t] = "none" <=> t >= thread_id_count

\* The waiting list of a thread is made of those blocked in a join of it, and
\* one that has exited has none.
Waits(st, cn, wt) ==
    /\ \A t \in Thread : Holds(wt[t], {u \in Thread : st[u] = "BLOCKED" /\ cn[u].on = t})
    /\ \A u \in Thread : st[u] = "BLOCKED" =>
          cn[u].at = "join" /\ cn[u].on \in Created /\ st[cn[u].on] \notin {"STOPPED", "none"}

\* A thread about to come back from a join has the value in return_reciever,
\* and what a join has given was the value.
Values(st, cn, rr, ev) ==
    /\ \A u \in Thread : st[u] = "READY" /\ cn[u].at = "join" =>
          cn[u].on \in Created /\ st[cn[u].on] = "STOPPED" /\ rr[u] = ev[cn[u].on]
    /\ \A u \in Thread : st[u] = "none" => cn[u].at # "join"

Given(st, jn, ev) ==
    \A u \in Thread : jn[u] # <<NULL, NULL>> =>
        jn[u][1] \in Created /\ st[jn[u][1]] = "STOPPED" /\ jn[u][2] = ev[jn[u][1]]

IInv ==
    /\ Types /\ Places /\ Ids
    /\ Waits(state, cont, waiting)
    /\ Values(state, cont, return_reciever, exit_value)
    /\ Given(state, joined, exit_value)

\* The invariant, for as long as no unsafe call has been made.
SafeIInv == ~ unsafe => IInv

\* What a call hands to __thread_invoker: the running thread is on no list.
Handed(st, rl, bl) ==
    /\ st \in [Thread -> State]
    /\ Holds(rl, {t \in Created : st[t] = "READY"})
    /\ Holds(bl, {t \in Created : t # running /\ st[t] = "BLOCKED"})
    /\ \A t \in Thread : st[t] = "RUNNING" => t = running
    /\ st[running] \in {"RUNNING", "BLOCKED", "STOPPED"}
    /\ st[Master] \in {"RUNNING", "READY"}
    /\ freed = {t \in Created : t # running /\ st[t] = "STOPPED"}

\* list_add_tail.
LEMMA AppendHolds ==
  ASSUME NEW S \in SUBSET Thread, NEW list, Holds(list, S), NEW t \in Thread \ S
  PROVE  Holds(Append(list, t), S \cup {t})
<1> DEFINE l == Append(list, t)
<1>1. l \in Seq(Thread) /\ Len(l) = Len(list) + 1 /\ Len(list) \in Nat
  BY DEF Holds
<1>2. (\A k \in 1 .. Len(list) : l[k] = list[k]) /\ l[Len(list) + 1] = t
  BY DEF Holds
<1> HIDE DEF l
<1>3. \A k \in 1 .. Len(l) : l[k] \in S \cup {t}
  BY <1>1, <1>2 DEF Holds
<1>4. \A u \in S \cup {t} : \E k \in 1 .. Len(l) : l[k] = u
  BY <1>1, <1>2 DEF Holds
<1>5. \A j, k \in 1 .. Len(l) : l[j] = l[k] => j = k
  BY <1>1, <1>2 DEF Holds
<1> QED BY <1>1, <1>3, <1>4, <1>5 DEF Holds, l

\* list_del_from.
LEMMA DelHolds ==
  ASSUME NEW S \in SUBSET Thread, NEW list, Holds(list, S), NEW t \in S
  PROVE  Holds(list_del_from(list, t), S \ {t})
<1> DEFINE at == CHOOSE k \in 1 .. Len(list) : list[k] = t
           l == [k \in 1 .. Len(list) - 1 |-> IF k < at THEN list[k] ELSE list[k + 1]]
<1>1. at \in 1 .. Len(list) /\ list[at] = t /\ Len(list) \in Nat
  BY DEF Holds
<1>2. l = list_del_from(list, t)
  BY DEF list_del_from
<1> HIDE DEF at
<1>3. l \in Seq(Thread) /\ Len(l) = Len(list) - 1
  <2>1. \A k \in 1 .. Len(list) - 1 : (IF k < at THEN list[k] ELSE list[k + 1]) \in Thread
    BY <1>1 DEF Holds
  <2> QED BY <1>1, <2>1
<1>4. \A k \in 1 .. Len(l) : l[k] = IF k < at THEN list[k] ELSE list[k + 1]
  BY <1>3, Zenon
<1> HIDE DEF l
<1>5. \A k \in 1 .. Len(l) : l[k] \in S \ {t}
  BY <1>1, <1>3, <1>4 DEF Holds
<1>6. ASSUME NEW u \in S \ {t} PROVE \E k \in 1 .. Len(l) : l[k] = u
  <2>1. PICK k \in 1 .. Len(list) : list[k] = u
    BY DEF Holds
  <2>2. CASE k < at
    BY <1>1, <1>3, <1>4, <2>1, <2>2
  <2>3. CASE k > at
    <3>1. k - 1 \in 1 .. Len(l) /\ l[k - 1] = list[k]
      BY <1>1, <1>3, <1>4, <2>3
    <3> QED BY <2>1, <3>1
  <2> QED BY <1>1, <2>1, <2>2, <2>3
<1>7. \A j, k \in 1 .. Len(l) : l[j] = l[k] => j = k
  BY SMTT(20), Zenon, <1>1, <1>3, <1>4 DEF Holds
<1> QED BY <1>2, <1>3, <1>5, <1>6, <1>7 DEF Holds

\* The ready list with the threads that waited behind it.
LEMMA ConcatHolds ==
  ASSUME NEW S \in SUBSET Thread, NEW T \in SUBSET Thread, S \cap T = {},
         NEW l1, NEW l2, Holds(l1, S), Holds(l2, T)
  PROVE  Holds(l1 \o l2, S \cup T)
<1> DEFINE l == l1 \o l2
<1>1. l \in Seq(Thread) /\ Len(l) = Len(l1) + Len(l2) /\ Len(l1) \in Nat /\ Len(l2) \in Nat
  BY DEF Holds
<1>2. /\ \A k \in 1 .. Len(l1) : l[k] = l1[k]
      /\ \A k \in 1 .. Len(l2) : l[Len(l1) + k] = l2[k]
      /\ \A k \in 1 .. Len(l) : k > Len(l1) => k - Len(l1) \in 1 .. Len(l2) /\ l[k] = l2[k - Len(l1)]
  BY <1>1 DEF Holds
<1> HIDE DEF l
<1>3. \A k \in 1 .. Len(l) : (k <= Len(l1) => l[k] \in S) /\ (k > Len(l1) => l[k] \in T)
  <2> SUFFICES ASSUME NEW k \in 1 .. Len(l)
               PROVE  (k <= Len(l1) => l[k] \in S) /\ (k > Len(l1) => l[k] \in T)
    OBVIOUS
  <2>1. CASE k <= Len(l1)
    <3>1. k \in 1 .. Len(l1)
      BY <1>1, <2>1
    <3> QED BY <1>1, <1>2, <2>1, <3>1 DEF Holds
  <2>2. CASE k > Len(l1)
    <3>1. k - Len(l1) \in 1 .. Len(l2) /\ l[k] = l2[k - Len(l1)]
      BY <1>2, <2>2
    <3> QED BY <1>1, <2>2, <3>1 DEF Holds
  <2> QED BY <1>1, <2>1, <2>2
<1>4. ASSUME NEW u \in S \cup T PROVE \E k \in 1 .. Len(l) : l[k] = u
  <2>1. CASE u \in S
    BY <1>1, <1>2, <2>1 DEF Holds
  <2>2. CASE u \in T
    <3>1. PICK k \in 1 .. Len(l2) : l2[k] = u
      BY <2>2 DEF Holds
    <3>2. Len(l1) + k \in 1 .. Len(l)
      BY <1>1
    <3> QED BY <1>2, <3>1, <3>2
  <2> QED BY <2>1, <2>2
<1>5. ASSUME NEW j \in 1 .. Len(l), NEW k \in 1 .. Len(l), l[j] = l[k] PROVE j = k
  <2>1. CASE j <= Len(l1)
    <3>1. k <= Len(l1)
      BY <1>1, <1>3, <1>5, <2>1
    <3> QED BY <1>1, <1>2, <1>5, <2>1, <3>1 DEF Holds
  <2>2. CASE j > Len(l1)
    <3>1. k > Len(l1)
      BY <1>1, <1>3, <1>5, <2>2
    <3>2. /\ j - Len(l1) \in 1 .. Len(l2) /\ k - Len(l1) \in 1 .. Len(l2)
          /\ l2[j - Len(l1)] = l2[k - Len(l1)]
      BY <1>2, <1>5, <2>2, <3>1
    <3>3. j - Len(l1) = k - Len(l1)
      BY <3>2 DEF Holds
    <3> QED BY <1>1, <3>3
  <2> QED BY <1>1, <2>1, <2>2
<1> QED BY <1>1, <1>3, <1>4, <1>5 DEF Holds, l

\* A list of one thread, and the first thread of a list.
LEMMA FirstHolds ==
  /\ \A t \in Thread : Holds(<<t>>, {t})
  /\ Holds(<<>>, {})
  /\ \A list, S : Holds(list, S) /\ list # <<>> => Head(list) \in S
  /\ \A list, S : Holds(list, S) /\ list = <<>> => S = {}
BY DEF Holds

\* __quarantine unlinks the threads that wait for the running one, one after
\* the other, from the blocked list.
LEMMA UnlinkedHolds ==
  ASSUME NEW S \in SUBSET Thread, NEW W \in SUBSET S, Holds(blocked_list, S), Holds(waiting[running], W)
  PROVE  Holds(unlinked[Len(waiting[running])], S \ W)
<1> DEFINE w == waiting[running]
           N == Len(w)
           Left(f, n) == [k \in 0 .. n |-> IF k = 0 THEN blocked_list ELSE list_del_from(f[k - 1], w[k])]
           Is == {n \in Nat : n <= N => \E f : f = Left(f, n)}
<1>1. w \in Seq(Thread) /\ N \in Nat
  BY DEF Holds
<1>2. 0 \in Is
  <2> DEFINE f == [k \in 0 .. 0 |-> blocked_list]
  <2>1. f = Left(f, 0)
    OBVIOUS
  <2> QED BY <2>1, Zenon
<1>3. ASSUME NEW n \in Nat, n \in Is PROVE n + 1 \in Is
  <2> SUFFICES ASSUME n + 1 <= N PROVE \E f : f = Left(f, n + 1)
    OBVIOUS
  <2>1. PICK f : f = Left(f, n)
    BY <1>1, <1>3
  <2> DEFINE g == [k \in 0 .. n + 1 |-> IF k = n + 1 THEN list_del_from(f[n], w[n + 1]) ELSE f[k]]
  <2>2. ASSUME NEW k \in 0 .. n + 1
        PROVE  g[k] = IF k = 0 THEN blocked_list ELSE list_del_from(g[k - 1], w[k])
    <3>1. CASE k = n + 1
      <4>1. g[k] = list_del_from(f[n], w[n + 1]) /\ g[k - 1] = f[n] /\ k # 0
        BY <3>1
      <4> QED BY <3>1, <4>1
    <3>2. CASE k # n + 1
      <4>1. k \in 0 .. n /\ g[k] = f[k]
        BY <3>2
      <4>2. f[k] = IF k = 0 THEN blocked_list ELSE list_del_from(f[k - 1], w[k])
        BY <2>1, <4>1
      <4>3. k # 0 => g[k - 1] = f[k - 1]
        BY <4>1
      <4> QED BY <4>1, <4>2, <4>3
    <3> QED BY <3>1, <3>2
  <2>3. g = Left(g, n + 1)
    BY <2>2
  <2> QED BY <2>3, Zenon
<1>4. N \in Is
  <2> HIDE DEF Is
  <2> QED BY <1>1, <1>2, <1>3, NatIn
<1>5. \E f : f = Left(f, N)
  BY <1>1, <1>4
<1>6. unlinked = Left(unlinked, N)
  <2>1. unlinked = CHOOSE f : f = Left(f, N)
    BY DEF unlinked, waiting_for_me_list
  <2> QED BY <1>5, <2>1, Zenon
<1>7. ASSUME NEW k \in 0 .. N
      PROVE  unlinked[k] = IF k = 0 THEN blocked_list ELSE list_del_from(unlinked[k - 1], w[k])
  <2> HIDE DEF w, N
  <2> QED BY <1>6, Zenon
<1> DEFINE Rest(n) == S \ {w[k] : k \in 1 .. n}
           Good == {n \in Nat : n <= N => Holds(unlinked[n], Rest(n))}
<1>8. 0 \in Good
  <2>1. Rest(0) = S
    OBVIOUS
  <2>2. unlinked[0] = blocked_list
    BY <1>1, <1>7
  <2> HIDE DEF Rest, N
  <2> QED BY <2>1, <2>2
<1>9. ASSUME NEW n \in Nat, n \in Good PROVE n + 1 \in Good
  <2> SUFFICES ASSUME n + 1 <= N PROVE Holds(unlinked[n + 1], Rest(n + 1))
    OBVIOUS
  <2>1. Holds(unlinked[n], Rest(n))
    BY <1>1, <1>9
  <2>2. w[n + 1] \in Rest(n)
    <3>1. w[n + 1] \in W /\ \A k \in 1 .. n : w[k] # w[n + 1]
      BY <1>1 DEF Holds
    <3> QED BY <3>1
  <2>3. unlinked[n + 1] = list_del_from(unlinked[n], w[n + 1])
    BY <1>1, <1>7
  <2>4. Rest(n + 1) = Rest(n) \ {w[n + 1]}
    <3>1. 1 .. n + 1 = (1 .. n) \cup {n + 1}
      OBVIOUS
    <3> QED BY <3>1
  <2>5. Rest(n) \in SUBSET Thread
    OBVIOUS
  <2> HIDE DEF Rest, w
  <2> QED BY <2>1, <2>2, <2>3, <2>4, <2>5, DelHolds
<1>10. N \in Good
  <2> HIDE DEF Good
  <2> QED BY <1>1, <1>8, <1>9, NatIn
<1>11. Rest(N) = S \ W
  BY <1>1 DEF Holds
<1> HIDE DEF Rest
<1>12. Holds(unlinked[N], Rest(N))
  <2> HIDE DEF N
  <2> QED BY <1>1, <1>10
<1> QED BY <1>11, <1>12

\* What a resumed thread and the others see of the switch.
Resumes(t, st, rr, h) ==
    /\ t \in Thread /\ t # running /\ st[t] = "READY"
    /\ running' = t /\ crashed' = "no"
    /\ state' = Switched(st, t)
    /\ cont' = [cont EXCEPT ![running] = h]
    /\ joined' = IF cont[t].at = "join" THEN [joined EXCEPT ![t] = <<cont[t].on, rr[t]>>] ELSE joined
    /\ return_reciever' = rr
    /\ stopped' \in freed' \cup {NULL}

\* __thread_invoker of a ready thread puts the running one where its state
\* says, and no assert fails.
LEMMA Invoker ==
  ASSUME Types, NEW st, NEW rl, NEW bl, NEW rr, NEW h, Handed(st, rl, bl),
         NEW t \in Thread, st[t] = "READY", __thread_invoker(t, st, rl, bl, rr, h)
  PROVE  Resumes(t, st, rr, h) /\ Places'
<1> DEFINE gone == IF t = Master THEN rl ELSE list_del_from(rl, t)
           back == IF st[running] = "RUNNING" /\ running # Master THEN <<running>> ELSE <<>>
<1>1. running \in Thread /\ t # running /\ st[running] # "READY" /\ Created \subseteq Thread
  BY DEF Handed, Types, TypeOK, Thread
<1>10. ~ (st[running] = "BLOCKED" /\ running \in Range(rl))
  <2>1. DOMAIN rl = 1 .. Len(rl) /\ \A k \in 1 .. Len(rl) : rl[k] # running
    BY <1>1 DEF Handed, Holds
  <2> QED BY <2>1 DEF Range
<1>2. /\ running' = t /\ ready_list' = gone \o back
      /\ blocked_list' = IF st[running] = "BLOCKED" THEN Append(bl, running) ELSE bl
      /\ state' = Switched(st, t) /\ pet_thread_cleanup(running, st)
      /\ stopped' = IF st[running] = "STOPPED" THEN running ELSE stopped
  BY <1>1, <1>10, Zenon DEF __thread_invoker
<1>3. Resumes(t, st, rr, h)
  <2>1. stopped' \in freed' \cup {NULL}
    BY <1>2 DEF pet_thread_cleanup, Types, TypeOK
  <2> QED BY <1>1, <1>2, <1>10, <2>1 DEF __thread_invoker, Resumes, Types
<1>4. \A u \in Thread : state'[u] = IF u = t THEN "RUNNING"
                                     ELSE IF u = running /\ st[u] = "RUNNING" THEN "READY" ELSE st[u]
  BY <1>2 DEF Switched
<1> DEFINE Ready == {u \in Created : st[u] = "READY"}
           Back == IF st[running] = "RUNNING" /\ running # Master THEN {running} ELSE {}
           Blocked == {u \in Created : u # running /\ st[u] = "BLOCKED"}
<1>5. Holds(ready_list, {u \in Created : state[u] = "READY"})'
  <2>1. Holds(gone, Ready \ {t})
    <3>1. CASE t = Master
      <4>1. Ready \ {t} = Ready
        BY <3>1 DEF Master, Created
      <4> QED BY <3>1, <4>1 DEF Handed
    <3>2. CASE t # Master
      <4>1. t \in Ready /\ Ready \in SUBSET Thread
        BY <1>1, <3>2 DEF Thread
      <4> HIDE DEF Ready
      <4>2. Holds(rl, Ready)
        BY DEF Handed, Ready
      <4> QED BY <3>2, <4>1, <4>2, DelHolds
    <3> QED BY <3>1, <3>2
  <2>2. Holds(back, Back)
    BY <1>1, FirstHolds
  <2>3. {u \in Created : state'[u] = "READY"} = (Ready \ {t}) \cup Back
    <3>1. Master \notin Created /\ (running # Master => running \in Created)
      BY <1>1 DEF Thread, Master, Created
    <3>2. \A u \in Created : state'[u] = "READY" <=> u \in (Ready \ {t}) \cup Back
      BY <1>1, <1>4, <3>1
    <3> QED BY <1>1, <3>1, <3>2
  <2>4. (Ready \ {t}) \cap Back = {} /\ Ready \ {t} \in SUBSET Thread /\ Back \in SUBSET Thread
    BY <1>1
  <2> HIDE DEF Ready, Back, gone, back
  <2>5. Holds(gone \o back, (Ready \ {t}) \cup Back)
    BY <2>1, <2>2, <2>4, ConcatHolds
  <2> QED BY <1>2, <2>3, <2>5, Zenon
<1>6. Holds(blocked_list, {u \in Created : state[u] = "BLOCKED"})'
  <2>1. Holds(bl, Blocked) /\ Blocked \in SUBSET Thread
    BY <1>1 DEF Handed
  <2>2. CASE st[running] = "BLOCKED"
    <3>1. running \in Thread \ Blocked /\ {u \in Created : state'[u] = "BLOCKED"} = Blocked \cup {running}
      BY <1>1, <1>4, <2>2 DEF Handed, Thread
    <3> HIDE DEF Blocked
    <3>2. Holds(Append(bl, running), Blocked \cup {running})
      BY <2>1, <3>1, AppendHolds
    <3> QED BY <1>2, <2>2, <3>1, <3>2, Zenon
  <2>3. CASE st[running] # "BLOCKED"
    <3>1. {u \in Created : state'[u] = "BLOCKED"} = Blocked
      BY <1>1, <1>4, <2>3
    <3> HIDE DEF Blocked
    <3> QED BY <1>2, <2>1, <2>3, <3>1, Zenon
  <2> QED BY <2>2, <2>3
<1>7. (\A u \in Thread : state[u] = "RUNNING" <=> u = running)'
  BY <1>1, <1>2, <1>4 DEF Handed
<1>8. (state[Master] \in {"RUNNING", "READY"})'
  BY <1>1, <1>4 DEF Handed, Thread
<1>9. (freed = {u \in Created : state[u] = "STOPPED"})'
  <2>1. running = Master => st[running] = "RUNNING"
    BY <1>1 DEF Handed
  <2> QED BY <1>1, <1>2, <1>4, <2>1 DEF Handed, pet_thread_cleanup, Thread
<1> QED BY <1>3, <1>5, <1>6, <1>7, <1>8, <1>9 DEF Places

\* pet_thread_schedule outside main resumes the first ready thread, or main.
LEMMA Scheduler ==
  ASSUME Types, NEW st, NEW rl, NEW bl, NEW rr, NEW h, Handed(st, rl, bl),
         running # Master \/ rl # <<>>, schedule(st, rl, bl, rr, h)
  PROVE  \E t : Resumes(t, st, rr, IF h = Yield /\ rl = <<>> THEN Yield9 ELSE h) /\ Places'
<1>1. Holds(rl, {t \in Created : st[t] = "READY"}) /\ Created \subseteq Thread /\ Master \in Thread
  BY DEF Handed, Thread
<1>2. CASE rl = <<>>
  <2>1. st[Master] = "READY"
    BY <1>1, <1>2 DEF Handed
  <2>2. __thread_invoker(Master, st, rl, bl, rr, IF h = Yield THEN Yield9 ELSE h)
    BY <1>2 DEF schedule
  <2> QED BY <1>1, <1>2, <2>1, <2>2, Invoker
<1>3. CASE rl # <<>>
  <2>1. Head(rl) \in Thread /\ st[Head(rl)] = "READY"
    BY <1>1, <1>3, FirstHolds
  <2>2. __thread_invoker(Head(rl), st, rl, bl, rr, h)
    BY <1>3, <2>1 DEF schedule
  <2> QED BY <1>3, <2>1, <2>2, Invoker
<1> QED BY <1>2, <1>3

\* After the switch the invariant is what the caller has made of it: no thread
\* blocks, exits or wakes up in it, and the one that runs has read its value.
LEMMA Resumed ==
  ASSUME Types, NEW st \in [Thread -> State], NEW rr \in [Thread -> RetVal \cup {NULL}], NEW h \in Cont, NEW t,
         Resumes(t, st, rr, h), Places', UNCHANGED thread_id_count, unsafe' \in BOOLEAN,
         waiting' \in [Thread -> Seq(Thread)], exit_value' \in [Thread -> RetVal \cup {NULL}],
         \A u \in Created : st[u] = "none" <=> u >= thread_id_count,
         st[running] = "RUNNING" => h.at # "join",
         Waits(st, [cont EXCEPT ![running] = h], waiting'),
         Values(st, [cont EXCEPT ![running] = h], rr, exit_value'),
         Given(st, joined, exit_value')
  PROVE  IInv'
<1>1. t \in Thread /\ running \in Thread /\ t # running /\ st[t] = "READY" /\ Created \subseteq Thread
  BY DEF Resumes, Types, TypeOK, Thread
<1>2. \A u \in Thread : state'[u] = IF u = t THEN "RUNNING"
                                     ELSE IF u = running /\ st[u] = "RUNNING" THEN "READY" ELSE st[u]
  BY DEF Resumes, Switched
<1>3. cont' = [cont EXCEPT ![running] = h] /\ return_reciever' = rr /\ running' = t /\ crashed' = "no"
  BY DEF Resumes
<1>4. cont' \in [Thread -> Cont] /\ cont'[t] = cont[t] /\ cont'[running] = h
  BY <1>1, <1>3 DEF Types
<1>5. joined' = IF cont[t].at = "join" THEN [joined EXCEPT ![t] = <<cont[t].on, rr[t]>>] ELSE joined
  BY DEF Resumes
<1>6. cont[t].on \in Thread \cup {NULL} /\ rr[t] \in RetVal \cup {NULL}
  BY <1>1 DEF Types, Cont
<1>7. Types'
  <2>1. state' \in [Thread -> State]
    BY <1>1 DEF Resumes, Switched, State
  <2>2. ready_list' \in Seq(Thread) /\ blocked_list' \in Seq(Thread) /\ freed' \subseteq Created
    BY DEF Places, Holds
  <2>3. joined' \in [Thread -> (Thread \cup {NULL}) \X (RetVal \cup {NULL})]
    BY <1>1, <1>5, <1>6 DEF Types
  <2>4. stopped' \in freed' \cup {NULL}
    BY DEF Resumes
  <2> QED BY <1>1, <1>3, <1>4, <2>1, <2>2, <2>3, <2>4 DEF Types, TypeOK, State
<1>8. Ids'
  BY <1>1, <1>2, Zenon DEF Ids
<1>9. Waits(state', cont', waiting')
  <2>1. \A u \in Thread : state'[u] = "BLOCKED" <=> st[u] = "BLOCKED"
    BY <1>1, <1>2, Zenon
  <2>2. \A u \in Thread : {x \in Thread : state'[x] = "BLOCKED" /\ cont'[x].on = u}
                           = {x \in Thread : st[x] = "BLOCKED" /\ cont'[x].on = u}
    BY <2>1
  <2>3. \A u \in Thread : state'[u] \in {"STOPPED", "none"} => st[u] \in {"STOPPED", "none"}
    BY SMTT(20), Zenon, <1>1, <1>2
  <2>4. \A u \in Thread : Holds(waiting'[u], {x \in Thread : state'[x] = "BLOCKED" /\ cont'[x].on = u})
    BY <1>3, <2>2, ZenonT(30) DEF Waits
  <2>5. ASSUME NEW u \in Thread, state'[u] = "BLOCKED"
        PROVE  cont'[u].at = "join" /\ cont'[u].on \in Created /\ state'[cont'[u].on] \notin {"STOPPED", "none"}
    <3>1. cont'[u].at = "join" /\ cont'[u].on \in Created /\ st[cont'[u].on] \notin {"STOPPED", "none"}
      BY <1>3, <2>1, <2>5, Zenon DEF Waits
    <3>2. cont'[u].on \in Thread
      BY <1>1, <3>1
    <3> QED BY <2>3, <3>1, <3>2, Zenon
  <2> QED BY <2>4, <2>5, Zenon DEF Waits
<1>10. Values(state', cont', rr, exit_value')
  <2>1. \A u \in Thread : state'[u] = "READY" /\ cont'[u].at = "join" => st[u] = "READY"
    BY <1>1, <1>2, <1>4, Zenon
  <2>2. \A u \in Thread : (state'[u] = "STOPPED" <=> st[u] = "STOPPED") /\ (state'[u] = "none" => st[u] = "none")
    BY <1>1, <1>2, Zenon
  <2> QED BY <1>1, <1>3, <2>1, <2>2 DEF Values
<1>11. Given(state', joined', exit_value')
  <2>1. \A u \in Thread : st[u] = "STOPPED" => state'[u] = "STOPPED"
    BY <1>1, <1>2, Zenon
  <2>2. Given(state', joined, exit_value')
    BY <1>1, <2>1 DEF Given
  <2>3. CASE cont[t].at = "join"
    <3>1. cont[t].on \in Created /\ st[cont[t].on] = "STOPPED" /\ rr[t] = exit_value'[cont[t].on]
      BY <1>1, <1>3, <1>4, <2>3 DEF Values
    <3>2. joined' = [joined EXCEPT ![t] = <<cont[t].on, rr[t]>>] /\ DOMAIN joined = Thread
      BY <1>5, <2>3 DEF Types
    <3> QED BY <1>1, <2>1, <2>2, <3>1, <3>2 DEF Given
  <2> QED BY <1>5, <2>2, <2>3
<1> QED BY <1>3, <1>7, <1>8, <1>9, <1>10, <1>11 DEF IInv

\* A step that leaves everything as it was.
LEMMA Stays ==
  ASSUME IInv, UNCHANGED vars
  PROVE  IInv'
<1> USE DEF vars, lists
<1>1. Types'
  BY DEF IInv, Types, TypeOK
<1>2. Places' /\ Ids'
  BY DEF IInv, Places, Ids
<1>3. Waits(state', cont', waiting') /\ Values(state', cont', return_reciever', exit_value')
      /\ Given(state', joined', exit_value')
  BY DEF IInv
<1> QED BY <1>1, <1>2, <1>3 DEF IInv

\* The facts about the running thread that the calls start from.
LEMMA Runs ==
  ASSUME IInv
  PROVE  /\ Types /\ running \in Thread /\ state \in [Thread -> State] /\ state[running] = "RUNNING"
         /\ Created \subseteq Thread /\ Master \in Thread /\ Master \notin Created /\ Thread \ {Master} \subseteq Created
         /\ \A u \in Thread : state[u] = "RUNNING" <=> u = running
         /\ \A u \in Created : state[u] = "none" <=> u >= thread_id_count
<1>1. Created \subseteq Thread /\ Master \in Thread /\ Master \notin Created /\ Thread \ {Master} \subseteq Created
  BY DEF Thread, Created, Master
<1>2. running \in Thread /\ state \in [Thread -> State]
  BY DEF IInv, Types, TypeOK, State
<1> QED BY <1>1, <1>2 DEF IInv, Places, Ids

\* pet_thread_schedule and pet_thread_yield_to.
LEMMA Yields ==
  ASSUME IInv, pet_thread_schedule \/ \E t \in Thread : pet_thread_yield_to(t)
  PROVE  IInv'
<1>1. Handed(state, ready_list, blocked_list)
  <2>1. {u \in Created : u # running /\ state[u] = "BLOCKED"} = {u \in Created : state[u] = "BLOCKED"}
    BY Runs
  <2>2. {u \in Created : u # running /\ state[u] = "STOPPED"} = {u \in Created : state[u] = "STOPPED"}
    BY Runs
  <2> QED BY <2>1, <2>2, Runs DEF Handed, IInv, Places
<1>2. UNCHANGED <<thread_id_count, waiting, exit_value, unsafe>> /\ unsafe \in BOOLEAN
  BY DEF pet_thread_schedule, pet_thread_yield_to, IInv, Types, TypeOK
<1>3. Yield \in Cont /\ Yield9 \in Cont /\ Yield.at # "join" /\ Yield9.at # "join"
  BY DEF Yield, Yield9, Cont
<1>4. ASSUME NEW t, NEW h \in {Yield, Yield9}, Resumes(t, state, return_reciever, h), Places' PROVE IInv'
  <2>1. h \in Cont /\ h.at # "join"
    BY <1>3
  <2> DEFINE cn == [cont EXCEPT ![running] = h]
  <2>2. \A u \in Thread : u # running => cn[u] = cont[u]
    BY DEF IInv, Types
  <2>3. cn[running] = h
    BY Runs DEF Types
  <2>4. return_reciever \in [Thread -> RetVal \cup {NULL}] /\ waiting' \in [Thread -> Seq(Thread)]
        /\ exit_value' \in [Thread -> RetVal \cup {NULL}]
    BY <1>2 DEF IInv, Types, TypeOK
  <2> HIDE DEF cn
  <2>5. Waits(state, cn, waiting')
    <3>1. \A u \in Thread : state[u] = "BLOCKED" => cn[u] = cont[u]
      BY <2>2, Runs
    <3>2. \A x \in Thread : {u \in Thread : state[u] = "BLOCKED" /\ cn[u].on = x}
                             = {u \in Thread : state[u] = "BLOCKED" /\ cont[u].on = x}
      BY <3>1
    <3> QED BY <1>2, <3>1, <3>2, Zenon DEF IInv, Waits
  <2>6. Values(state, cn, return_reciever, exit_value')
    BY <1>2, <2>1, <2>2, <2>3, Runs DEF IInv, Values
  <2>7. Given(state, joined, exit_value')
    BY <1>2 DEF IInv
  <2> QED BY <1>2, <1>4, <2>1, <2>4, <2>5, <2>6, <2>7, Runs, Resumed, Zenon DEF cn
<1>5. ASSUME schedule(state, ready_list, blocked_list, return_reciever, Yield) PROVE IInv'
  <2>1. CASE running # Master \/ ready_list # <<>>
    <3>1. PICK t : Resumes(t, state, return_reciever, IF Yield = Yield /\ ready_list = <<>> THEN Yield9 ELSE Yield)
                   /\ Places'
      BY <1>1, <1>5, <2>1, Runs, Scheduler
    <3> QED BY <1>4, <3>1
  <2>2. CASE running = Master /\ ready_list = <<>>
    <3>1. UNCHANGED vars
      BY <1>2, <1>3, <1>5, <2>2 DEF schedule, vars
    <3> QED BY <3>1, Stays
  <2> QED BY <2>1, <2>2
<1>6. ASSUME NEW t \in Thread, pet_thread_yield_to(t), t \in Live /\ state[t] = "READY" PROVE IInv'
  <2>1. __thread_invoker(t, state, ready_list, blocked_list, return_reciever, Yield)
    BY <1>6 DEF pet_thread_yield_to
  <2>2. Resumes(t, state, return_reciever, Yield) /\ Places'
    BY <1>1, <1>6, <2>1, Runs, Invoker
  <2> QED BY <1>4, <2>2
<1>7. ASSUME NEW t \in Thread, pet_thread_yield_to(t), ~ (t \in Live /\ state[t] = "READY")
      PROVE  schedule(state, ready_list, blocked_list, return_reciever, Yield)
  BY <1>7 DEF pet_thread_yield_to
<1> QED BY <1>5, <1>6, <1>7 DEF pet_thread_schedule

\* pet_thread_create: a new thread waits for nobody and nobody for it.
LEMMA Creates ==
  ASSUME IInv, pet_thread_create
  PROVE  IInv'
<1> DEFINE new == thread_id_count
<1>1. new \in Created /\ new \in Thread /\ state[new] = "none" /\ new # running /\ new \in Nat
  <2>1. new \in 1 .. MaxThreads /\ MaxThreads \in Nat
    BY PetThreadAssumption DEF IInv, Types, TypeOK, pet_thread_create
  <2>2. new \in Created /\ new >= thread_id_count
    BY <2>1 DEF Created
  <2> QED BY <2>1, <2>2, Runs
<1>2. /\ state' = [state EXCEPT ![new] = "READY"] /\ thread_id_count' = new + 1
      /\ ready_list' = Append(ready_list, new)
      /\ UNCHANGED <<blocked_list, running, stopped, waiting, return_reciever, cont, freed, joined,
                     exit_value, unsafe, crashed>>
  BY DEF pet_thread_create
<1>3. \A u \in Thread : state'[u] = IF u = new THEN "READY" ELSE state[u]
  BY <1>2, Runs
<1> HIDE DEF new
<1>4. Places'
  <2> DEFINE Ready == {u \in Created : state[u] = "READY"}
  <2>1. Ready \in SUBSET Thread /\ new \in Thread \ Ready /\ Holds(ready_list, Ready)
    BY <1>1, Runs, Zenon DEF IInv, Places
  <2>2. {u \in Created : state'[u] = "READY"} = Ready \cup {new}
    BY <1>1, <1>3, Runs, Zenon
  <2>3. {u \in Created : state'[u] = "BLOCKED"} = {u \in Created : state[u] = "BLOCKED"}
    BY <1>1, <1>3, Runs, Zenon
  <2>4. {u \in Created : state'[u] = "STOPPED"} = {u \in Created : state[u] = "STOPPED"}
    BY <1>1, <1>3, Runs, Zenon
  <2> HIDE DEF Ready
  <2>5. Holds(ready_list', Ready \cup {new})
    BY <1>2, <2>1, AppendHolds
  <2>6. \A u \in Thread : state'[u] = "RUNNING" <=> u = running'
    BY <1>1, <1>2, <1>3, Runs
  <2>7. state'[Master] \in {"RUNNING", "READY"}
    BY <1>1, <1>3, Runs, Zenon DEF IInv, Places
  <2> QED BY <1>2, <2>2, <2>3, <2>4, <2>5, <2>6, <2>7, Zenon DEF IInv, Places
<1>5. Types'
  <2>1. new + 1 \in 1 .. MaxThreads + 1
    BY <1>1, PetThreadAssumption DEF Created
  <2>2. ready_list' \in Seq(Thread)
    BY <1>4 DEF Places, Holds
  <2>3. state' \in [Thread -> State]
    BY <1>2, Runs, Zenon DEF State
  <2> QED BY <1>2, <2>1, <2>2, <2>3 DEF IInv, Types, TypeOK, State
<1>6. Ids'
  <2>1. \A u \in Created : u \in Nat
    BY PetThreadAssumption DEF Created
  <2> QED BY <1>1, <1>2, <1>3, <2>1, Runs DEF Ids, new
<1>7. Waits(state', cont', waiting')
  <2>1. \A u \in Thread : state'[u] = "BLOCKED" <=> state[u] = "BLOCKED"
    BY <1>1, <1>3
  <2>2. \A x \in Thread : {u \in Thread : state'[u] = "BLOCKED" /\ cont[u].on = x}
                           = {u \in Thread : state[u] = "BLOCKED" /\ cont[u].on = x}
    BY <2>1
  <2>3. \A u \in Thread : state'[u] \in {"STOPPED", "none"} => state[u] \in {"STOPPED", "none"}
    BY <1>1, <1>3
  <2>4. \A x \in Thread : Holds(waiting'[x], {u \in Thread : state'[u] = "BLOCKED" /\ cont'[u].on = x})
    BY <1>2, <2>2, Zenon DEF IInv, Waits
  <2> QED BY <1>2, <2>1, <2>3, <2>4, Runs, Zenon DEF IInv, Waits
<1>8. Values(state', cont', return_reciever', exit_value')
  <2>1. \A u \in Thread : (state'[u] = "STOPPED" <=> state[u] = "STOPPED") /\ (state'[u] = "none" => state[u] = "none")
    BY <1>1, <1>3
  <2>2. \A u \in Thread : state'[u] = "READY" /\ cont[u].at = "join" => state[u] = "READY"
    BY Zenon, <1>1, <1>3 DEF IInv, Values
  <2> QED BY <1>2, <2>1, <2>2, Runs DEF IInv, Values
<1>9. Given(state', joined', exit_value')
  BY <1>1, <1>2, <1>3, Runs DEF IInv, Given
<1> QED BY <1>4, <1>5, <1>6, <1>7, <1>8, <1>9 DEF IInv

\* pet_thread_join of a thread that has not exited, outside main.
LEMMA Joins ==
  ASSUME IInv, NEW t \in Thread, pet_thread_join(t), ~ unsafe'
  PROVE  IInv'
<1> DEFINE st == [state EXCEPT ![running] = "BLOCKED"]
           cn == [cont EXCEPT ![running] = Join(t)]
<1>1. /\ running # Master /\ t \in Created /\ state[t] \notin {"none", "STOPPED"}
      /\ waiting' = [waiting EXCEPT ![t] = Append(waiting[t], running)]
      /\ schedule(st, ready_list, blocked_list, return_reciever, Join(t))
      /\ UNCHANGED <<thread_id_count, exit_value>>
  <2>1. running # Master /\ t # Master /\ t # stopped
    BY Zenon DEF pet_thread_join
  <2>2. t \in Live /\ t \notin {Master, stopped}
    BY <2>1 DEF pet_thread_join
  <2> QED BY <2>1, <2>2, Runs DEF pet_thread_join, Live, IInv, Places
<1>2. st \in [Thread -> State] /\ \A u \in Thread : st[u] = IF u = running THEN "BLOCKED" ELSE state[u]
  BY Runs DEF State
<1>3. \A u \in Thread : cn[u] = IF u = running THEN Join(t) ELSE cont[u]
  BY Runs DEF Types
<1>4. Join(t) \in Cont /\ Join(t).at = "join" /\ Join(t).on = t /\ Join(t) # Yield
  BY DEF Join, Yield, Cont
<1> HIDE DEF st, cn
<1>5. Handed(st, ready_list, blocked_list)
  <2>1. {u \in Created : u # running /\ st[u] = "BLOCKED"} = {u \in Created : state[u] = "BLOCKED"}
    BY <1>2, Runs
  <2>2. {u \in Created : u # running /\ st[u] = "STOPPED"} = {u \in Created : state[u] = "STOPPED"}
    BY <1>2, Runs
  <2>3. {u \in Created : st[u] = "READY"} = {u \in Created : state[u] = "READY"}
    BY <1>2, Runs
  <2>4. \A u \in Thread : st[u] # "RUNNING"
    BY <1>2, Runs
  <2>5. st[running] = "BLOCKED" /\ st[Master] \in {"RUNNING", "READY"}
    BY <1>1, <1>2, Runs DEF IInv, Places
  <2> QED BY <1>2, <2>1, <2>2, <2>3, <2>4, <2>5 DEF Handed, IInv, Places
<1>6. PICK x : Resumes(x, st, return_reciever, Join(t)) /\ Places'
  BY <1>1, <1>4, <1>5, Runs, Scheduler
<1>7. Waits(st, cn, waiting')
  <2> DEFINE On(u) == {y \in Thread : state[y] = "BLOCKED" /\ cont[y].on = u}
             Now(u) == {y \in Thread : st[y] = "BLOCKED" /\ cn[y].on = u}
  <2>1. \A u \in Thread : Now(u) = IF u = t THEN On(u) \cup {running} ELSE On(u)
    BY <1>2, <1>3, <1>4, Runs
  <2>2. \A u \in Thread : On(u) \in SUBSET Thread /\ running \in Thread \ On(u)
    BY Runs
  <2>3. \A u \in Thread : waiting'[u] = IF u = t THEN Append(waiting[u], running) ELSE waiting[u]
    BY <1>1 DEF IInv, Types, TypeOK
  <2>4. \A u \in Thread : Holds(waiting[u], On(u))
    BY DEF IInv, Waits
  <2>5. \A u \in Thread : Holds(waiting'[u], Now(u))
    <3> HIDE DEF On, Now
    <3> QED BY <2>1, <2>2, <2>3, <2>4, AppendHolds
  <2>6. ASSUME NEW u \in Thread, st[u] = "BLOCKED"
        PROVE  cn[u].at = "join" /\ cn[u].on \in Created /\ st[cn[u].on] \notin {"STOPPED", "none"}
    <3>1. \A y \in Thread : st[y] \in {"STOPPED", "none"} => state[y] \in {"STOPPED", "none"}
      BY <1>2
    <3>2. CASE u = running
      BY <1>1, <1>3, <1>4, <3>1, <3>2, Runs
    <3>3. CASE u # running
      <4>1. state[u] = "BLOCKED" /\ cn[u] = cont[u]
        BY <1>2, <1>3, <2>6, <3>3
      <4>2. cont[u].at = "join" /\ cont[u].on \in Created /\ state[cont[u].on] \notin {"STOPPED", "none"}
        BY <4>1, Zenon DEF IInv, Waits
      <4> QED BY <3>1, <4>1, <4>2, Runs
    <3> QED BY <3>2, <3>3
  <2> QED BY <2>5, <2>6, Zenon DEF Waits
<1>8. Values(st, cn, return_reciever, exit_value')
  BY SMTT(20), Zenon, <1>1, <1>2, <1>3, Runs DEF IInv, Values
<1>9. Given(st, joined, exit_value')
  BY <1>1, <1>2, Runs DEF IInv, Given
<1>10. waiting' \in [Thread -> Seq(Thread)] /\ exit_value' \in [Thread -> RetVal \cup {NULL}]
       /\ return_reciever \in [Thread -> RetVal \cup {NULL}]
  <2>1. \A l \in Seq(Thread) : Append(l, running) \in Seq(Thread)
    BY Runs
  <2> QED BY <1>1, <2>1 DEF IInv, Types, TypeOK
<1>11. st[running] # "RUNNING" /\ \A u \in Created : st[u] = "none" <=> u >= thread_id_count
  BY <1>2, Runs
<1>12. unsafe' \in BOOLEAN
  BY DEF pet_thread_join
<1> QED BY <1>1, <1>2, <1>4, <1>6, <1>7, <1>8, <1>9, <1>10, <1>11, <1>12, Runs, Resumed, Zenon DEF cn

\* pet_thread_exit, and the return of a thread function.
LEMMA Exits ==
  ASSUME IInv, NEW v \in RetVal, pet_thread_exit(v), ~ unsafe'
  PROVE  IInv'
<1> DEFINE On(u) == {x \in Thread : state[x] = "BLOCKED" /\ cont[x].on = u}
           W == On(running)
           st == [unblock(state) EXCEPT ![running] = "STOPPED"]
           cn == [cont EXCEPT ![running] = Exited]
           rr == [u \in Thread |-> IF u \in Waiters THEN v ELSE return_reciever[u]]
<1>1. Holds(waiting[running], W) /\ running # Master
  <2>1. running # Master
    BY Zenon DEF pet_thread_exit, __quarantine
  <2> QED BY <2>1, Runs, Zenon DEF IInv, Waits
<1>2. Waiters = W /\ IsInjective(waiting[running])
  <2>1. waiting[running] \in Seq(Thread) /\ DOMAIN waiting[running] = 1 .. Len(waiting[running])
    BY Runs DEF Types, TypeOK
  <2> HIDE DEF W
  <2> QED BY <1>1, <2>1 DEF Waiters, waiting_for_me_list, Range, IsInjective, Holds
<1> DEFINE Blocked == {u \in Created : state[u] = "BLOCKED"}
           Ready == {u \in Created : state[u] = "READY"}
<1>3. W \subseteq Blocked /\ running \notin W /\ Blocked \subseteq Thread /\ Ready \subseteq Thread
  BY Runs DEF IInv, Places
<1>4. Blocked \subseteq Range(blocked_list)
  <2>1. Holds(blocked_list, Blocked)
    BY DEF IInv, Places
  <2>2. DOMAIN blocked_list = 1 .. Len(blocked_list)
    BY DEF IInv, Types, TypeOK
  <2> HIDE DEF Blocked
  <2> QED BY <2>1, <2>2 DEF Range, Holds
<1>5. /\ exit_value' = [exit_value EXCEPT ![running] = v]
      /\ waiting' = [waiting EXCEPT ![running] = <<>>]
      /\ schedule(st, ready_list \o waiting[running], unlinked[Len(waiting[running])], rr, Exited)
      /\ UNCHANGED thread_id_count
  <2>1. /\ IsInjective(waiting[running]) /\ \A u \in Waiters : state[u] = "BLOCKED"
        /\ Waiters \subseteq Range(blocked_list)
    BY <1>2, <1>3, <1>4
  <2> QED BY <1>1, <2>1 DEF pet_thread_exit, __quarantine
<1>6. /\ st \in [Thread -> State]
      /\ \A u \in Thread : st[u] = IF u = running THEN "STOPPED" ELSE IF u \in W THEN "READY" ELSE state[u]
  <2>1. unblock(state) \in [Thread -> State]
    BY Runs DEF unblock, State
  <2>2. \A u \in Thread : unblock(state)[u] = IF u \in W THEN "READY" ELSE state[u]
    BY <1>2 DEF unblock
  <2> QED BY <2>1, <2>2, Runs DEF State
<1>7. \A u \in Thread : cn[u] = IF u = running THEN Exited ELSE cont[u]
  BY Runs DEF Types
<1>8. /\ rr \in [Thread -> RetVal \cup {NULL}]
      /\ \A u \in Thread : rr[u] = IF u \in W THEN v ELSE return_reciever[u]
  BY <1>2 DEF IInv, Types, TypeOK
<1>9. Exited \in Cont /\ Exited.at = "exited" /\ Exited # Yield
  BY DEF Exited, Yield, Cont
<1>10. \A u \in Thread : exit_value'[u] = IF u = running THEN v ELSE exit_value[u]
  BY <1>5 DEF IInv, Types
<1>11. /\ \A u \in W : state[u] = "BLOCKED" /\ cont[u].on = running
       /\ \A u \in Thread : state[u] = "BLOCKED" /\ u \notin W => cont[u].on # running
  OBVIOUS
<1> HIDE DEF st, cn, rr, W
<1>12. Handed(st, ready_list \o waiting[running], unlinked[Len(waiting[running])])
  <2>1. {u \in Created : st[u] = "READY"} = Ready \cup W
    BY <1>3, <1>6, Runs
  <2>2. {u \in Created : u # running /\ st[u] = "BLOCKED"} = Blocked \ W
    BY <1>3, <1>6, Runs
  <2>3. {u \in Created : u # running /\ st[u] = "STOPPED"} = {u \in Created : state[u] = "STOPPED"}
    BY <1>3, <1>6, Runs
  <2>4. Ready \cap W = {} /\ Holds(ready_list, Ready) /\ Holds(blocked_list, Blocked)
    BY <1>3 DEF IInv, Places
  <2>5. Holds(ready_list \o waiting[running], Ready \cup W)
    <3> HIDE DEF Ready, Blocked
    <3> QED BY <1>1, <1>3, <2>4, ConcatHolds
  <2>6. Holds(unlinked[Len(waiting[running])], Blocked \ W)
    <3> HIDE DEF Ready, Blocked
    <3> QED BY <1>1, <1>3, <2>4, UnlinkedHolds
  <2>7. st[running] = "STOPPED" /\ st[Master] \in {"RUNNING", "READY"}
    BY <1>1, <1>6, Runs DEF IInv, Places
  <2>8. \A u \in Thread : st[u] # "RUNNING"
    BY <1>6, Runs
  <2>9. freed = {u \in Created : state[u] = "STOPPED"}
    BY SMTT(20), Zenon DEF IInv, Places
  <2> HIDE DEF Ready, Blocked
  <2> QED BY <1>6, <2>1, <2>2, <2>3, <2>5, <2>6, <2>7, <2>8, <2>9, Zenon DEF Handed
<1>13. PICK t : Resumes(t, st, rr, Exited) /\ Places'
  BY SMTT(20), Zenon, <1>1, <1>5, <1>9, <1>12, Runs, Scheduler
<1>14. Waits(st, cn, waiting')
  <2> DEFINE Now(u) == {x \in Thread : st[x] = "BLOCKED" /\ cn[x].on = u}
  <2>1. ASSUME NEW u \in Thread PROVE Now(u) = IF u = running THEN {} ELSE On(u)
    BY <1>6, <1>7, <1>11, Runs
  <2>2. \A u \in Thread : waiting'[u] = IF u = running THEN <<>> ELSE waiting[u]
    BY SMTT(20), Zenon, <1>5 DEF IInv, Types, TypeOK
  <2>3. \A u \in Thread : Holds(waiting[u], On(u))
    BY DEF IInv, Waits
  <2>4. \A u \in Thread : Holds(waiting'[u], Now(u))
    <3>1. Holds(<<>>, {})
      BY FirstHolds
    <3> HIDE DEF On, Now
    <3> QED BY <2>1, <2>2, <2>3, <3>1, Zenon
  <2>5. ASSUME NEW u \in Thread, st[u] = "BLOCKED"
        PROVE  cn[u].at = "join" /\ cn[u].on \in Created /\ st[cn[u].on] \notin {"STOPPED", "none"}
    <3>1. u # running /\ u \notin W /\ state[u] = "BLOCKED" /\ cn[u] = cont[u]
      BY <1>6, <1>7, <2>5
    <3>2. cont[u].at = "join" /\ cont[u].on \in Created /\ state[cont[u].on] \notin {"STOPPED", "none"}
      BY <3>1 DEF IInv, Waits
    <3>3. cont[u].on # running
      BY <1>11, <3>1
    <3> QED BY <1>6, <3>1, <3>2, <3>3, Runs
  <2> QED BY <2>4, <2>5 DEF Waits
<1>15. Values(st, cn, rr, exit_value')
  <2>1. ASSUME NEW u \in Thread, st[u] = "READY", cn[u].at = "join"
        PROVE  cn[u].on \in Created /\ st[cn[u].on] = "STOPPED" /\ rr[u] = exit_value'[cn[u].on]
    <3>1. u # running /\ cn[u] = cont[u]
      BY <1>6, <1>7, <2>1
    <3>2. CASE u \in W
      BY <1>1, <1>6, <1>8, <1>10, <1>11, <3>1, <3>2, Runs
    <3>3. CASE u \notin W
      <4>1. cont[u].on \in Created /\ state[cont[u].on] = "STOPPED" /\ return_reciever[u] = exit_value[cont[u].on]
        BY <1>6, <2>1, <3>1, <3>3 DEF IInv, Values
      <4>2. cont[u].on \in Thread /\ cont[u].on # running /\ cont[u].on \notin W
        BY <1>11, <4>1, Runs
      <4> QED BY <1>6, <1>8, <1>10, <3>1, <3>3, <4>1, <4>2
    <3> QED BY <3>2, <3>3
  <2>2. \A u \in Thread : st[u] = "none" => cn[u].at # "join"
    BY <1>6, <1>7 DEF IInv, Values
  <2> QED BY <2>1, <2>2 DEF Values
<1>16. Given(st, joined, exit_value')
  <2> SUFFICES ASSUME NEW u \in Thread, joined[u] # <<NULL, NULL>>
               PROVE  /\ joined[u][1] \in Created /\ st[joined[u][1]] = "STOPPED"
                      /\ joined[u][2] = exit_value'[joined[u][1]]
    BY DEF Given
  <2>1. joined[u][1] \in Created /\ state[joined[u][1]] = "STOPPED" /\ joined[u][2] = exit_value[joined[u][1]]
    BY DEF IInv, Given
  <2>2. joined[u][1] \in Thread /\ joined[u][1] # running /\ joined[u][1] \notin W
    BY <1>11, <2>1, Runs
  <2> QED BY <1>6, <1>10, <2>1, <2>2
<1>17. waiting' \in [Thread -> Seq(Thread)] /\ exit_value' \in [Thread -> RetVal \cup {NULL}]
  BY <1>5 DEF IInv, Types, TypeOK
<1>18. st[running] # "RUNNING" /\ \A u \in Created : st[u] = "none" <=> u >= thread_id_count
  BY <1>3, <1>6, Runs
<1>19. unsafe' \in BOOLEAN
  BY DEF pet_thread_exit, __quarantine
<1> QED BY <1>5, <1>6, <1>8, <1>9, <1>13, <1>14, <1>15, <1>16, <1>17, <1>18, <1>19, Runs, Resumed, Zenon DEF cn

\* pet_thread_init.
LEMMA InitIInv == Init => IInv
<1> SUFFICES ASSUME Init PROVE IInv
  OBVIOUS
<1> USE DEF Init
<1>1. Master \in Thread /\ Created \subseteq Thread /\ Master \notin Created /\ \A t \in Created : t >= 1
  BY PetThreadAssumption DEF Thread, Master, Created
<1>2. Types
  <2>1. thread_id_count \in 1 .. MaxThreads + 1
    BY PetThreadAssumption
  <2>2. Start \in Cont
    BY DEF Start, Cont
  <2>3. state \in [Thread -> {"none", "STOPPED", "RUNNING", "READY", "BLOCKED"}]
    OBVIOUS
  <2>4. stopped \in freed \cup {NULL} /\ unsafe \in BOOLEAN /\ freed \subseteq Created
    BY Zenon
  <2>5. /\ ready_list \in Seq(Thread) /\ blocked_list \in Seq(Thread)
        /\ waiting \in [Thread -> Seq(Thread)]
    OBVIOUS
  <2>6. /\ return_reciever \in [Thread -> RetVal \cup {NULL}] /\ exit_value \in [Thread -> RetVal \cup {NULL}]
        /\ joined \in [Thread -> (Thread \cup {NULL}) \X (RetVal \cup {NULL})] /\ cont \in [Thread -> Cont]
    BY <2>2
  <2>7. running \in Thread /\ crashed = "no"
    BY <1>1
  <2> QED BY <2>1, <2>3, <2>4, <2>5, <2>6, <2>7, Zenon DEF Types, TypeOK
<1>3. Places
  <2>1. {t \in Created : state[t] = "READY"} = {} /\ {t \in Created : state[t] = "BLOCKED"} = {}
        /\ {t \in Created : state[t] = "STOPPED"} = {}
    BY <1>1
  <2> QED BY <1>1, <2>1, FirstHolds, Zenon DEF Places
<1>4. Ids
  BY <1>1 DEF Ids
<1>5. Waits(state, cont, waiting)
  <2>1. \A t \in Thread : {u \in Thread : state[u] = "BLOCKED" /\ cont[u].on = t} = {}
    OBVIOUS
  <2> QED BY <2>1, FirstHolds, Zenon DEF Waits
<1>6. Values(state, cont, return_reciever, exit_value) /\ Given(state, joined, exit_value)
  BY <1>1 DEF Values, Given, Start
<1> QED BY <1>2, <1>3, <1>4, <1>5, <1>6 DEF IInv

\* An unsafe call stays on record.
LEMMA UnsafeStays ==
  ASSUME [Next]_vars, ~ unsafe', unsafe \in BOOLEAN
  PROVE  ~ unsafe
BY Zenon DEF Next, Switch, Create, YieldTo, Dead, pet_thread_schedule, pet_thread_yield_to, pet_thread_create,
             pet_thread_join, pet_thread_exit, __quarantine, vars

\* Every call of the library, by any thread.
LEMMA NextIInv ==
  ASSUME SafeIInv, [Next]_vars
  PROVE  SafeIInv'
<1> SUFFICES ASSUME ~ unsafe' PROVE IInv'
  BY DEF SafeIInv
<1>1. IInv
  BY UnsafeStays DEF SafeIInv
<1>2. ASSUME Switch PROVE IInv'
  BY <1>1, <1>2, Yields, Joins, Exits DEF Switch
<1>3. ASSUME Dead \/ UNCHANGED vars PROVE IInv'
  BY <1>1, <1>3, Stays DEF Dead
<1> QED BY <1>1, <1>2, <1>3, Yields, Creates DEF Next, Create, YieldTo

\* Until an unsafe call is made, every thread is in the place that its state
\* says, whatever calls the threads make: on one of the two lists, once, or
\* running, or exited and freed.
THEOREM PetThreadOnePlace ==
  Spec => []OnePlace
<1>1. SafeIInv => OnePlace
  <2> SUFFICES ASSUME IInv, ~ unsafe PROVE OnePlace
    BY DEF SafeIInv, OnePlace
  <2> DEFINE Ready == {t \in Created : state[t] = "READY"}
             Blocked == {t \in Created : state[t] = "BLOCKED"}
  <2>1. Holds(ready_list, Ready) /\ Holds(blocked_list, Blocked)
    BY DEF IInv, Places
  <2>2. ASSUME NEW list, NEW S, Holds(list, S) PROVE IsInjective(list) /\ Range(list) = S
    <3>1. DOMAIN list = 1 .. Len(list)
      BY <2>2 DEF Holds
    <3> QED BY <2>2, <3>1 DEF Holds, IsInjective, Range
  <2>3. /\ IsInjective(ready_list) /\ IsInjective(blocked_list)
        /\ Range(ready_list) = Ready /\ Range(blocked_list) = Blocked
    <3> HIDE DEF Ready, Blocked
    <3> QED BY <2>1, <2>2
  <2>4. freed = {t \in Created : state[t] = "STOPPED"}
    BY DEF IInv, Places
  <2>5. \A t \in Created : /\ (t \in Range(ready_list)) = (state[t] = "READY")
                           /\ (t \in Range(blocked_list)) = (state[t] = "BLOCKED")
                           /\ (t = running) = (state[t] = "RUNNING")
                           /\ (t \in freed) = (state[t] = "STOPPED")
    BY <2>3, <2>4, Runs
  <2> QED BY <2>3, <2>5, Runs DEF OnePlace, IInv, Types
<1>2. Init => SafeIInv
  BY InitIInv DEF SafeIInv
<1> QED BY <1>1, <1>2, NextIInv, PTL DEF Spec

\* Until an unsafe call is made, a blocked thread is on the waiting list of the one
\* thread it joined, and that one has not exited.
THEOREM PetThreadBlockedOnTheLiving ==
  Spec => []BlockedOnTheLiving
<1>1. SafeIInv => BlockedOnTheLiving
  <2> SUFFICES ASSUME IInv, ~ unsafe, NEW t \in Created
               PROVE  LET joinees == {u \in Thread : t \in Range(waiting[u])}
                      IN IF state[t] = "BLOCKED" THEN joinees = {cont[t].on} /\ joinees \cap freed = {}
                         ELSE joinees = {}
    BY DEF SafeIInv, BlockedOnTheLiving
  <2>1. \A u \in Thread : t \in Range(waiting[u]) <=> state[t] = "BLOCKED" /\ cont[t].on = u
    <3> SUFFICES ASSUME NEW u \in Thread
                 PROVE  t \in Range(waiting[u]) <=> state[t] = "BLOCKED" /\ cont[t].on = u
      OBVIOUS
    <3> DEFINE On == {x \in Thread : state[x] = "BLOCKED" /\ cont[x].on = u}
    <3>1. Holds(waiting[u], On)
      BY Zenon DEF IInv, Waits
    <3>2. t \in On <=> state[t] = "BLOCKED" /\ cont[t].on = u
      BY Runs
    <3> HIDE DEF On
    <3>3. DOMAIN waiting[u] = 1 .. Len(waiting[u])
      BY <3>1 DEF Holds
    <3> QED BY <3>1, <3>2, <3>3 DEF Holds, Range
  <2>2. state[t] = "BLOCKED" => cont[t].on \in Thread /\ cont[t].on \notin freed
    BY Runs DEF IInv, Waits, Places
  <2> QED BY <2>1, <2>2
<1>2. Init => SafeIInv
  BY InitIInv DEF SafeIInv
<1> QED BY <1>1, <1>2, NextIInv, PTL DEF Spec

\* Until an unsafe call is made, pet_thread_join gives the value that the joined
\* thread exited with.
THEOREM PetThreadJoinDelivers ==
  Spec => []JoinDelivers
<1>1. SafeIInv => JoinDelivers
  BY DEF SafeIInv, IInv, Given, JoinDelivers
<1>2. Init => SafeIInv
  BY InitIInv DEF SafeIInv
<1> QED BY <1>1, <1>2, NextIInv, PTL DEF Spec

\* No assert of pet_thread.c fails and no list is followed or written that is
\* not one, unless main has joined a thread, been joined or exited, or a thread
\* has joined one that get_thread found in freed memory.
THEOREM PetThreadNoCrash ==
  Spec => []NoCrash
<1>1. SafeIInv => NoCrash
  BY DEF SafeIInv, IInv, Types, NoCrash
<1>2. Init => SafeIInv
  BY InitIInv DEF SafeIInv
<1> QED BY <1>1, <1>2, NextIInv, PTL DEF Spec
=============================================================================
