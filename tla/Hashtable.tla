----------------------------- MODULE Hashtable ------------------------------
(***************************************************************************)
(* The chained hash table of user_threads/pet_hashtable.c, used by one     *)
(* thread.  A chain is a sequence of entries; the head of the sequence is  *)
(* the head of the chain.  What free_key and free_value hand to free() is  *)
(* left out.                                                               *)
(*                                                                         *)
(* An iterator is an index and a place in the chain: iter->entry is the    *)
(* entry there and iter->parent the one before it, and what its operations *)
(* return is whether there is an entry.  The program does not use an       *)
(* iterator after an insert or a remove by key, which may move or free     *)
(* what it points to.                                                      *)
(***************************************************************************)
EXTENDS Integers, SequencesExt, FiniteSets, Bags

CONSTANTS
    Keys, Values,
    Width,              \* the bits of a value
    primes, load_factors,
    do_hash,            \* the hash of every key
    MAX_ENTRIES         \* bound on the entries

ASSUME HashtableAssumption ==
    /\ Values \subseteq 0 .. 2 ^ Width - 1
    /\ Len(primes) = Len(load_factors) /\ primes # <<>>
    /\ do_hash \in [Keys -> Nat]

VARIABLES
    table,              \* the chains, or <<>> when there is no table
    entry_count,
    prime_index,
    iter,               \* the iterator
    snapshot, seen,     \* the keys when it was made, and those it has left behind
    wild,               \* an uninitialised pointer has been used
    ret                 \* what the last call returned

vars == <<table, entry_count, prime_index, iter, snapshot, seen, wild, ret>>

prime_table_len == Len(primes)
table_length == primes[prime_index]
load_limit == load_factors[prime_index]

Entry(k, v) == [key |-> k, value |-> v]
Exists == table # <<>>
Iter(index, pos, whole) == [live |-> TRUE, index |-> index, pos |-> pos, whole |-> whole]
NoIter == [live |-> FALSE, index |-> 0, pos |-> 0, whole |-> FALSE]

indexFor(length, hash) == hash % length

\* The first entry of the key in its chain, or 0.
bucket(k) == indexFor(table_length, do_hash[k])
place(k) == SelectInSeq(table[bucket(k)], LAMBDA e : do_hash[e.key] = do_hash[k] /\ e.key = k)

DropIterator == iter' = NoIter /\ snapshot' = EmptyBag /\ seen' = EmptyBag

\* The places in the chains, and the bag of something at some of them.
Places == {<<n, m>> \in (0 .. table_length - 1) \X (1 .. MAX_ENTRIES) : m <= Len(table[n])}
At(p) == table[p[1]][p[2]]
Pair(p) == <<At(p).key, At(p).value>>
Key(p) == At(p).key
BagOf(places, What(_)) ==
    [x \in {What(p) : p \in places} |-> Cardinality({p \in places : What(p) = x})]
Contents == IF Exists THEN BagOf(Places, Pair) ELSE EmptyBag

Init ==
    /\ table = <<>>
    /\ entry_count = 0
    /\ prime_index = 1
    /\ iter = NoIter /\ snapshot = EmptyBag /\ seen = EmptyBag
    /\ wild = FALSE
    /\ ret = 0

size_for(min_size, i) == primes[i] > min_size

\* The first prime above min_size.
pet_create_htable(min_size) ==
    /\ ~ Exists
    /\ \E i \in 1 .. prime_table_len :
          /\ size_for(min_size, i)
          /\ \A j \in 1 .. i - 1 : ~ size_for(min_size, j)
          /\ prime_index' = i
          /\ table' = [n \in 0 .. primes[i] - 1 |-> <<>>]
    /\ entry_count' = 0
    /\ UNCHANGED <<iter, snapshot, seen, wild, ret>>

pet_free_htable ==
    /\ Exists
    /\ table' = <<>>
    /\ entry_count' = 0
    /\ prime_index' = 1
    /\ DropIterator
    /\ UNCHANGED <<wild, ret>>

-----------------------------------------------------------------------------
\* A mistaken transfer that leaves the last chain behind.
transferred_short(t, length, new_size) ==
    LET all == FlattenSeq([n \in 1 .. length - 1 |-> t[n - 1]])
    IN [n \in 0 .. new_size - 1 |->
            Reverse(SelectSeq(all, LAMBDA e : indexFor(new_size, do_hash[e.key]) = n))]

\* Every entry, chain by chain, becomes the head of its new chain.
transferred(t, length, new_size) ==
    LET all == FlattenSeq([n \in 1 .. length |-> t[n - 1]])
    IN [n \in 0 .. new_size - 1 |->
            Reverse(SelectSeq(all, LAMBDA e : indexFor(new_size, do_hash[e.key]) = n))]

\* hashtable_expand: no larger size, or a new table, or neither calloc nor
\* realloc has the memory.
expanded ==
    {[table |-> table, prime_index |-> prime_index]} \cup
    IF prime_index = prime_table_len THEN {}
    ELSE {[table |-> transferred(table, table_length, primes[prime_index + 1]),
           prime_index |-> prime_index + 1]}

\* Plan B: calloc does not have the memory and realloc does.  memset is given
\* the first new slot, which is uninitialised, and not its address.
plan_b == prime_index < prime_table_len

\* A mistaken failure that keeps the count it has added.
count_after_oom_kept(count) == count

count_after_oom(count) == count - 1

\* pet_htable_insert.
pet_htable_insert(k, v) ==
    /\ Exists /\ ~ wild
    /\ entry_count < MAX_ENTRIES
    /\ \/ \E t \in IF entry_count + 1 > load_limit THEN expanded
                   ELSE {[table |-> table, prime_index |-> prime_index]} :
             LET i == indexFor(primes[t.prime_index], do_hash[k])
             IN /\ prime_index' = t.prime_index
                /\ \/ /\ table' = [t.table EXCEPT ![i] = <<Entry(k, v)>> \o @]
                      /\ entry_count' = entry_count + 1
                      /\ ret' = -1
                   \/ /\ table' = t.table
                      /\ entry_count' = count_after_oom(entry_count + 1)
                      /\ ret' = 0
                /\ UNCHANGED wild
       \/ /\ entry_count + 1 > load_limit /\ plan_b
          /\ wild' = TRUE
          /\ UNCHANGED <<table, entry_count, prime_index, ret>>
    /\ DropIterator

\* pet_htable_change, _inc and _dec: the first entry of the key gets a value.
update(k, New(_)) ==
    /\ Exists /\ ~ wild
    /\ IF place(k) = 0 THEN ret' = 0 /\ UNCHANGED table
       ELSE /\ ret' = -1
            /\ table' = [table EXCEPT ![bucket(k)][place(k)].value = New(@)]
    /\ UNCHANGED <<entry_count, prime_index, iter, snapshot, seen, wild>>

pet_htable_change(k, v) == update(k, LAMBDA old : v)
pet_htable_inc(k, v) == update(k, LAMBDA old : (old + v) % 2 ^ Width)

pet_htable_dec(k, v) == update(k, LAMBDA old : (old - v) % 2 ^ Width)

pet_htable_search(k) ==
    /\ Exists /\ ~ wild
    /\ ret' = IF place(k) = 0 THEN 0 ELSE table[bucket(k)][place(k)].value
    /\ UNCHANGED <<table, entry_count, prime_index, iter, snapshot, seen, wild>>

pet_htable_remove(k) ==
    /\ Exists /\ ~ wild
    /\ IF place(k) = 0 THEN ret' = 0 /\ UNCHANGED <<table, entry_count>>
       ELSE /\ table' = [table EXCEPT ![bucket(k)] = RemoveAt(@, place(k))]
            /\ entry_count' = entry_count - 1
            /\ ret' = table[bucket(k)][place(k)].value
    /\ DropIterator
    /\ UNCHANGED <<prime_index, wild>>

-----------------------------------------------------------------------------
\* The first entry in chain index or behind it, if there is one.
first_from(t, index, whole) ==
    LET full == {n \in index .. table_length - 1 : t[n] # <<>>}
    IN IF full = {} THEN Iter(table_length, 0, whole)
       ELSE Iter(CHOOSE n \in full : \A m \in full : n <= m, 1, whole)

pet_htable_create_iter ==
    /\ Exists /\ ~ wild /\ ~ iter.live
    /\ iter' = IF entry_count = 0 THEN Iter(table_length, 0, TRUE) ELSE first_from(table, 0, TRUE)
    /\ snapshot' = BagOf(Places, Key)
    /\ seen' = EmptyBag
    /\ UNCHANGED <<table, entry_count, prime_index, wild, ret>>

pet_htable_free_iter ==
    /\ iter.live
    /\ DropIterator
    /\ UNCHANGED <<table, entry_count, prime_index, wild, ret>>

\* The place behind pos in the chain, or else the head of the next chain.
iter_next(t, pos) ==
    IF pos < Len(t[iter.index]) THEN [iter EXCEPT !.pos = pos + 1]
    ELSE first_from(t, iter.index + 1, iter.whole)

Leave == seen' = seen (+) SetToBag({table[iter.index][iter.pos].key})

pet_htable_iter_advance ==
    /\ Exists /\ ~ wild /\ iter.live
    /\ iter.pos # 0
    /\ iter' = iter_next(table, iter.pos)
    /\ Leave
    /\ UNCHANGED <<table, entry_count, prime_index, snapshot, wild, ret>>

\* A mistaken removal that advances from the entry behind the removed one.
pet_htable_iter_remove_skips ==
    /\ Exists /\ ~ wild /\ iter.live /\ iter.pos # 0
    /\ table' = [table EXCEPT ![iter.index] = RemoveAt(@, iter.pos)]
    /\ entry_count' = entry_count - 1
    /\ iter' = iter_next(table', iter.pos)
    /\ Leave
    /\ UNCHANGED <<prime_index, snapshot, wild, ret>>

\* The entry is unlinked, and the iterator advances past it: its parent stays.
pet_htable_iter_remove ==
    /\ Exists /\ ~ wild /\ iter.live /\ iter.pos # 0
    /\ table' = [table EXCEPT ![iter.index] = RemoveAt(@, iter.pos)]
    /\ entry_count' = entry_count - 1
    /\ iter' = iter_next(table', iter.pos - 1)
    /\ Leave
    /\ UNCHANGED <<prime_index, snapshot, wild, ret>>

\* The iterator is moved to an entry of the key; it is no longer one over the
\* whole table.
pet_htable_iter_search(k) ==
    /\ Exists /\ ~ wild /\ iter.live
    /\ place(k) # 0
    /\ iter' = Iter(bucket(k), place(k), FALSE)
    /\ snapshot' = EmptyBag /\ seen' = EmptyBag
    /\ UNCHANGED <<table, entry_count, prime_index, wild, ret>>

Lost == wild /\ UNCHANGED vars

Next ==
    \/ \E min_size \in {0, primes[1]} : pet_create_htable(min_size)
    \/ pet_free_htable
    \/ \E k \in Keys :
          \/ \E v \in Values :
                \/ pet_htable_insert(k, v) \/ pet_htable_change(k, v)
                \/ pet_htable_inc(k, v) \/ pet_htable_dec(k, v)
          \/ pet_htable_search(k) \/ pet_htable_remove(k) \/ pet_htable_iter_search(k)
    \/ pet_htable_create_iter \/ pet_htable_free_iter
    \/ pet_htable_iter_advance \/ pet_htable_iter_remove
    \/ Lost

Spec == Init /\ [][Next]_vars

-----------------------------------------------------------------------------
TypeOK ==
    /\ prime_index \in 1 .. prime_table_len
    /\ Exists => /\ DOMAIN table = 0 .. table_length - 1
                 /\ \A n \in DOMAIN table : \A m \in DOMAIN table[n] :
                        table[n][m].key \in Keys /\ table[n][m].value \in 0 .. 2 ^ Width - 1
    /\ entry_count \in 0 .. MAX_ENTRIES
    /\ iter.live => iter.index \in 0 .. table_length
    /\ ret \in -1 .. 2 ^ Width - 1

\* entry_count, which decides when the table grows and whether an iterator
\* looks at the table at all, is the number of entries in the chains, also
\* when an insertion has run out of memory.
CountsEntries == TypeOK /\ (Exists => entry_count = Cardinality(Places))

\* An iterator over the whole table meets every entry once, whether it
\* advances or removes: what it has left behind and what is from its place on
\* are the entries there were when it was made.
IteratesOverAll ==
    iter.whole =>
        LET ahead == {p \in Places : p[1] > iter.index \/ (p[1] = iter.index /\ p[2] >= iter.pos)}
        IN seen (+) BagOf(IF iter.pos = 0 THEN {} ELSE ahead, Key) = snapshot

Abstract == INSTANCE AbstractMultimap WITH bag <- Contents

\* Through insertion, growth, chains and iterators, the table is a bag of
\* pairs, and every call returns what it says of that bag.
Refinement == Abstract!Spec

\* "Plan B: realloc instead" (hashtable_expand): when calloc fails the table is
\* enlarged in place, and no insertion uses memory it has not initialised.
PlanBWorks == ~ wild
=============================================================================
