-------------------------------- MODULE List --------------------------------
(***************************************************************************)
(* The circular doubly linked lists of user_threads/pet_list.h (the same   *)
(* as the kernel's, which virtual_memory uses), pointer by pointer.  The   *)
(* callers add only entries that are in no list and remove only entries    *)
(* that are in one.                                                        *)
(***************************************************************************)
EXTENDS Integers, Sequences, FiniteSets

CONSTANTS Heads, Entries, LIST_POISON1, LIST_POISON2

ASSUME ListAssumption ==
    /\ Heads # {} /\ Heads \cap Entries = {}
    /\ LIST_POISON1 \notin Heads \cup Entries /\ LIST_POISON2 \notin Heads \cup Entries

VARIABLES
    m,              \* the next and prev of every list_head
    linked          \* those in a ring: the heads in use and the entries in a list

list_vars == <<m, linked>>

Node == Heads \cup Entries

\* A mistaken __list_add that forgets the way back.
__list_add_one_way(s, new, prev, next) ==
    [next |-> [s.next EXCEPT ![new] = next, ![prev] = new],
     prev |-> [s.prev EXCEPT ![new] = prev]]

__list_add(s, new, prev, next) ==
    [next |-> [s.next EXCEPT ![new] = next, ![prev] = new],
     prev |-> [s.prev EXCEPT ![next] = new, ![new] = prev]]

__list_del(s, prev, next) ==
    [next |-> [s.next EXCEPT ![prev] = next],
     prev |-> [s.prev EXCEPT ![next] = prev]]

INIT_LIST_HEAD(s, n) ==
    [next |-> [s.next EXCEPT ![n] = n], prev |-> [s.prev EXCEPT ![n] = n]]

poison(s, n) ==
    [next |-> [s.next EXCEPT ![n] = LIST_POISON1], prev |-> [s.prev EXCEPT ![n] = LIST_POISON2]]

list_empty(s, head) == s.next[head] = head

\* A mistaken __list_splice that puts the entries in at the wrong end.
__list_splice_tail(s, list, head) ==
    LET first == s.next[list]
        last == s.prev[list]
        at == s.prev[head]
    IN [next |-> [s.next EXCEPT ![at] = first, ![last] = head],
        prev |-> [s.prev EXCEPT ![first] = at, ![head] = last]]

__list_splice(s, list, head) ==
    LET first == s.next[list]
        last == s.prev[list]
        at == s.next[head]
    IN [next |-> [s.next EXCEPT ![head] = first, ![last] = at],
        prev |-> [s.prev EXCEPT ![first] = head, ![at] = last]]

-----------------------------------------------------------------------------
ListInit ==
    /\ m = [next |-> [n \in Node |-> n], prev |-> [n \in Node |-> n]]
    /\ linked = Heads

list_add(new, head) ==
    /\ new \notin linked /\ head \in linked
    /\ m' = __list_add(m, new, head, m.next[head])
    /\ linked' = linked \cup {new}

list_add_tail(new, head) ==
    /\ new \notin linked /\ head \in linked
    /\ m' = __list_add(m, new, m.prev[head], head)
    /\ linked' = linked \cup {new}

list_del(entry) ==
    /\ entry \in linked
    /\ m' = poison(__list_del(m, m.prev[entry], m.next[entry]), entry)
    /\ linked' = linked \ {entry}

list_del_init(entry) ==
    /\ entry \in linked
    /\ m' = INIT_LIST_HEAD(__list_del(m, m.prev[entry], m.next[entry]), entry)
    /\ linked' = linked \ {entry}

\* head->next is read when the entry is out.
list_move(entry, head) ==
    /\ entry \in linked /\ head \in linked
    /\ LET s == __list_del(m, m.prev[entry], m.next[entry])
       IN m' = __list_add(s, entry, head, s.next[head])
    /\ UNCHANGED linked

list_move_tail(entry, head) ==
    /\ entry \in linked /\ head \in linked
    /\ LET s == __list_del(m, m.prev[entry], m.next[entry])
       IN m' = __list_add(s, entry, s.prev[head], head)
    /\ UNCHANGED linked

\* The spliced head still points to its old entries: it is not to be used.
list_splice(list, head) ==
    /\ list \in linked /\ head \in linked /\ list # head
    /\ IF list_empty(m, list) THEN UNCHANGED list_vars
       ELSE m' = __list_splice(m, list, head) /\ linked' = linked \ {list}

list_splice_init(list, head) ==
    /\ list \in linked /\ head \in linked /\ list # head
    /\ m' = IF list_empty(m, list) THEN m ELSE INIT_LIST_HEAD(__list_splice(m, list, head), list)
    /\ UNCHANGED linked

\* A head that is not in use is initialised again.
list_head_init(head) ==
    /\ head \notin linked
    /\ m' = INIT_LIST_HEAD(m, head)
    /\ linked' = linked \cup {head}

ListNext ==
    \/ \E e \in Entries :
          \/ \E h \in Heads : \/ list_add(e, h) \/ list_add_tail(e, h)
                              \/ list_move(e, h) \/ list_move_tail(e, h)
          \/ list_del(e) \/ list_del_init(e)
    \/ \E l, h \in Heads : list_splice(l, h) \/ list_splice_init(l, h)
    \/ \E h \in Heads : list_head_init(h)

ListSpec == ListInit /\ [][ListNext]_list_vars

-----------------------------------------------------------------------------
ListTypeOK ==
    /\ m \in [next : [Node -> Node \cup {LIST_POISON1}], prev : [Node -> Node \cup {LIST_POISON2}]]
    /\ linked \subseteq Node

\* In whatever order the operations come, also when a list has one entry or an
\* entry is moved to where it is, next and prev are each other's inverse on
\* what is linked, and lead to nothing else.
Ring ==
    \A n \in linked :
        /\ m.next[n] \in linked /\ m.prev[n] \in linked
        /\ m.prev[m.next[n]] = n /\ m.next[m.prev[n]] = n

\* own gives every node that is linked a head whose ring it is in.
Owns(own) ==
    /\ \A n \in linked : own[m.next[n]] = own[n]
    /\ \A h \in Heads : own[h] = h

\* Two lists never run into each other: no ring has two heads.
OneHead == \E own \in [Node -> Heads] : Owns(own)

\* The entries from a head on, in the order of next.
Order(h) ==
    LET after[k \in 0 .. Cardinality(Entries) + 1] == IF k = 0 THEN h ELSE m.next[after[k - 1]]
        length == CHOOSE k \in 0 .. Cardinality(Entries) :
                      after[k + 1] = h /\ \A j \in 1 .. k : after[j] # h
    IN [k \in 1 .. length |-> after[k]]

Abstract == INSTANCE AbstractLists
                WITH lists <- [h \in Heads |-> IF h \in linked THEN Order(h) ELSE <<>>]

\* The pointers behave as sequences: list_add puts an entry first,
\* list_add_tail last, and a splice keeps the order of both lists.
Refinement == Abstract!Spec
=============================================================================
