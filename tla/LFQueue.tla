------------------------------ MODULE LFQueue ------------------------------
(***************************************************************************)
(* The lock-free queue of sync_tools/locking.c under enqueue_fn and        *)
(* dequeue_fn of the driver.  Every access to a shared word is a step.     *)
(*                                                                         *)
(* The heap is modelled: a node is named by the call of malloc that        *)
(* returned it.  Its address is a new one or that of a freed node; an      *)
(* address is named by the first node that had it.  A pointer means a      *)
(* node; the processor compares addresses.  An access through a pointer to *)
(* a freed node, or a compare-and-swap that takes a new node for a freed   *)
(* one at the same address (ABA), sets use_after_free and ends the         *)
(* behaviour: nothing can be said of the program from there on.            *)
(***************************************************************************)
EXTENDS Naturals, Sequences, FiniteSets

CONSTANTS
    Enqueuer,             \* the producer threads
    Dequeuer,             \* the one consumer thread
    MAX_NODES,            \* bound on the calls of malloc
    NULL,
    Garbage,              \* what an uninitialized value field holds
    ITERATIONS,           \* items of each producer
    EMPTIES               \* "queue empty" results after which the consumer ends

\* There is room for the two nodes of lf_queue_init and for those of the
\* threads' calls.
ASSUME NodeAssumption ==
    /\ MAX_NODES \in Nat /\ ITERATIONS \in Nat /\ IsFiniteSet(Enqueuer)
    /\ MAX_NODES >= 2 /\ MAX_NODES >= 2 + ITERATIONS * Cardinality(Enqueuer)
    /\ Dequeuer \notin Enqueuer
    /\ NULL \notin Nat

Node == 1 .. MAX_NODES

Thread == Enqueuer \cup {Dequeuer}

VARIABLES
    head, tail,        \* queue->head, queue->tail
    value, next,       \* the fields of every node
    addr,              \* the address of every node
    mallocs,           \* the calls of malloc so far: nodes 1 .. mallocs
    allocated,         \* the nodes that are not freed
    pc,
    p, q, n,           \* the locals p and q, and a loaded p->next
    i,                 \* loop counter of enqueue_fn and dequeue_fn
    linked, taken,     \* history: values in the order they were linked in
                       \* (the nodes of lf_queue_init first), and returned
    order,             \* history: the nodes from head on, in link order
    use_after_free,    \* history: a stale pointer has been used
    deinit             \* history: lf_queue_deinit has begun

heap == <<addr, mallocs, allocated>>
shared == <<head, tail, value, next, heap>>
locals == <<pc, p, q, n, i>>
history == <<linked, taken, order, use_after_free, deinit>>
vars == <<shared, locals, history>>

lf_queue_init ==
    /\ addr = [m \in Node |-> IF m \in {1, 2} THEN m ELSE NULL]
    /\ mallocs = 2
    /\ allocated = {1, 2}
    /\ head = 1
    /\ tail = 2
    /\ value = [m \in Node |-> Garbage]
    /\ next = [m \in Node |-> IF m = 1 THEN 2 ELSE NULL]
    /\ order = <<1, 2>>

Init ==
    /\ lf_queue_init
    /\ pc = [t \in Thread |-> IF t \in Enqueuer THEN "e_loop" ELSE "d_loop"]
    /\ p = [t \in Thread |-> NULL]
    /\ q = [t \in Thread |-> NULL]
    /\ n = [t \in Thread |-> NULL]
    /\ i = [t \in Thread |-> 0]
    /\ linked = <<Garbage>>
    /\ taken = <<>>
    /\ use_after_free = FALSE
    /\ deinit = FALSE

Goto(t, label) == pc' = [pc EXCEPT ![t] = label]

\* The locals are gone with the return from a call.
Return(t, label) ==
    /\ Goto(t, label)
    /\ p' = [p EXCEPT ![t] = NULL]
    /\ q' = [q EXCEPT ![t] = NULL]
    /\ n' = [n EXCEPT ![t] = NULL]

-----------------------------------------------------------------------------
\* malloc never fails.
malloc(m) ==
    /\ m = mallocs + 1
    /\ mallocs' = m
    /\ allocated' = allocated \cup {m}
    /\ \E a \in {m} \cup ({addr[k] : k \in 1 .. mallocs} \ {addr[k] : k \in allocated}) :
          addr' = [addr EXCEPT ![m] = a]

\* The loop of enqueue_fn, and malloc with the stores to the private node.
lf_enqueue_alloc(t) ==
    /\ pc[t] = "e_loop"
    /\ \/ /\ i[t] < ITERATIONS
          /\ \E m \in Node :
                /\ malloc(m)
                /\ value' = [value EXCEPT ![m] = <<t, i[t]>>]
                /\ next' = [next EXCEPT ![m] = NULL]
                /\ q' = [q EXCEPT ![t] = m]
          /\ Goto(t, "e_tail")
       \/ /\ i[t] >= ITERATIONS
          /\ Goto(t, "return")
          /\ UNCHANGED <<heap, value, next, q>>
    /\ UNCHANGED <<head, tail, p, n, i, history>>

\* p = queue->tail
lf_enqueue_tail(t) ==
    /\ pc[t] = "e_tail"
    /\ p' = [p EXCEPT ![t] = tail]
    /\ Goto(t, "e_link")
    /\ UNCHANGED <<shared, q, n, i, history>>

\* A mistaken link that stores q whatever p->next holds.
lf_enqueue_link_blind(t) ==
    /\ pc[t] = "e_link" /\ p[t] \in allocated
    /\ next' = [next EXCEPT ![p[t]] = q[t]]
    /\ linked' = Append(linked, value[q[t]])
    /\ order' = Append(order, q[t])
    /\ Goto(t, "e_check")
    /\ UNCHANGED <<head, tail, value, heap, p, q, n, i, taken, use_after_free, deinit>>

\* compare_and_swap_ptr(&p->next, NULL, q)
lf_enqueue_link(t) ==
    /\ pc[t] = "e_link" /\ p[t] \in allocated
    /\ IF next[p[t]] = NULL
       THEN /\ next' = [next EXCEPT ![p[t]] = q[t]]
            /\ linked' = Append(linked, value[q[t]])
            /\ order' = Append(order, q[t])
       ELSE UNCHANGED <<next, linked, order>>
    /\ Goto(t, "e_check")
    /\ UNCHANGED <<head, tail, value, heap, p, q, n, i, taken, use_after_free, deinit>>

\* succ = (q == p->next)
lf_enqueue_check(t) ==
    /\ pc[t] = "e_check" /\ p[t] \in allocated
    /\ Goto(t, IF next[p[t]] = q[t] THEN "e_swing" ELSE "e_next")
    /\ UNCHANGED <<shared, p, q, n, i, history>>

\* The argument p->next of the compare_and_swap_ptr that helps tail along.
lf_enqueue_next(t) ==
    /\ pc[t] = "e_next" /\ p[t] \in allocated
    /\ n' = [n EXCEPT ![t] = next[p[t]]]
    /\ Goto(t, "e_help")
    /\ UNCHANGED <<shared, p, q, i, history>>

\* tail and p are equal as addresses and do not mean the same node.
ABA(t) == tail # p[t] /\ addr[tail] = addr[p[t]]

\* A mistaken retry that does not read queue->tail again.
lf_enqueue_help_same(t) ==
    /\ pc[t] = "e_help" /\ ~ ABA(t)
    /\ tail' = IF tail = p[t] THEN n[t] ELSE tail
    /\ Goto(t, "e_link")
    /\ UNCHANGED <<head, value, next, heap, p, q, n, i, history>>

\* compare_and_swap_ptr(&queue->tail, p, p->next)
lf_enqueue_help(t) ==
    /\ pc[t] = "e_help" /\ ~ ABA(t)
    /\ tail' = IF tail = p[t] THEN n[t] ELSE tail
    /\ Goto(t, "e_tail")
    /\ UNCHANGED <<head, value, next, heap, p, q, n, i, history>>

\* A mistaken swing that stores q whatever tail holds.
lf_enqueue_swing_blind(t) ==
    /\ pc[t] = "e_swing"
    /\ tail' = q[t]
    /\ i' = [i EXCEPT ![t] = @ + 1]
    /\ Return(t, "e_loop")
    /\ UNCHANGED <<head, value, next, heap, history>>

\* The last compare_and_swap_ptr(&queue->tail, p, q), and i++.
lf_enqueue_swing(t) ==
    /\ pc[t] = "e_swing" /\ ~ ABA(t)
    /\ tail' = IF tail = p[t] THEN q[t] ELSE tail
    /\ i' = [i EXCEPT ![t] = @ + 1]
    /\ Return(t, "e_loop")
    /\ UNCHANGED <<head, value, next, heap, history>>

lf_enqueue(t) ==
    \/ lf_enqueue_alloc(t)
    \/ lf_enqueue_tail(t)
    \/ lf_enqueue_link(t)
    \/ lf_enqueue_check(t)
    \/ lf_enqueue_next(t)
    \/ lf_enqueue_help(t)
    \/ lf_enqueue_swing(t)

-----------------------------------------------------------------------------
\* The loops of dequeue_fn, and p = queue->head.
lf_dequeue_head(t) ==
    /\ pc[t] = "d_loop"
    /\ IF i[t] < EMPTIES
       THEN p' = [p EXCEPT ![t] = head] /\ Goto(t, "d_empty")
       ELSE Goto(t, "return") /\ UNCHANGED p
    /\ UNCHANGED <<shared, q, n, i, history>>

\* if (p->next == NULL) return 0, which ends the inner loop of dequeue_fn.
lf_dequeue_empty(t) ==
    /\ pc[t] = "d_empty"
    /\ IF next[p[t]] = NULL
       THEN Return(t, "d_loop") /\ i' = [i EXCEPT ![t] = @ + 1]
       ELSE Goto(t, "d_next") /\ UNCHANGED <<p, q, n, i>>
    /\ UNCHANGED <<shared, history>>

\* The argument p->next of the compare_and_swap_ptr.
lf_dequeue_next(t) ==
    /\ pc[t] = "d_next"
    /\ n' = [n EXCEPT ![t] = next[p[t]]]
    /\ Goto(t, "d_swing")
    /\ UNCHANGED <<shared, p, q, i, history>>

\* old_head = compare_and_swap_ptr(&queue->head, p, p->next).  The local q
\* of a consumer keeps old_head.
lf_dequeue_swing(t) ==
    /\ pc[t] = "d_swing"
    /\ q' = [q EXCEPT ![t] = head]
    /\ IF head = p[t] THEN head' = n[t] /\ order' = Tail(order)
                      ELSE UNCHANGED <<head, order>>
    /\ Goto(t, "d_value")
    /\ UNCHANGED <<tail, value, next, heap, p, n, i, linked, taken, use_after_free, deinit>>

\* A mistaken dequeue that returns the value of the node it removes.
lf_dequeue_value_own(t) ==
    /\ pc[t] = "d_value"
    /\ taken' = IF q[t] = p[t] THEN Append(taken, value[p[t]]) ELSE taken
    /\ Goto(t, IF q[t] = p[t] THEN "d_free" ELSE "d_loop")
    /\ UNCHANGED <<shared, p, q, n, i, linked, order, use_after_free, deinit>>

\* *val = p->next->value, and the loop again unless old_head is p.
lf_dequeue_value(t) ==
    /\ pc[t] = "d_value"
    /\ taken' = IF q[t] = p[t] THEN Append(taken, value[next[p[t]]]) ELSE taken
    /\ Goto(t, IF q[t] = p[t] THEN "d_free" ELSE "d_loop")
    /\ UNCHANGED <<shared, p, q, n, i, linked, order, use_after_free, deinit>>

\* free(p) and return 1.
lf_dequeue_free(t) ==
    /\ pc[t] = "d_free"
    /\ allocated' = allocated \ {p[t]}
    /\ Return(t, "d_loop")
    /\ UNCHANGED <<head, tail, value, next, addr, mallocs, i, history>>

lf_dequeue(t) ==
    \/ lf_dequeue_head(t)
    \/ lf_dequeue_empty(t)
    \/ lf_dequeue_next(t)
    \/ lf_dequeue_swing(t)
    \/ lf_dequeue_value(t)
    \/ lf_dequeue_free(t)

\* An access through a stale p, or a compare-and-swap of tail that succeeds
\* although tail and p mean different nodes.
Dangling(t) ==
    /\ \/ pc[t] \in {"e_link", "e_check", "e_next"} /\ p[t] \notin allocated
       \/ pc[t] \in {"e_help", "e_swing"} /\ ABA(t)
    /\ use_after_free' = TRUE
    /\ UNCHANGED <<shared, locals, linked, taken, order, deinit>>

-----------------------------------------------------------------------------
Joined == \A t \in Thread : pc[t] = "return"

\* One turn of the loop of lf_queue_deinit, after the threads are joined.
lf_queue_deinit_node ==
    /\ Joined /\ head \in allocated
    /\ next[head] # NULL
    /\ next' = [next EXCEPT ![head] = next[next[head]]]
    /\ allocated' = allocated \ {next[head]}
    /\ order' = <<Head(order)>> \o Tail(Tail(order))
    /\ deinit' = TRUE
    /\ UNCHANGED <<head, tail, value, addr, mallocs, locals, linked, taken, use_after_free>>

\* free(lf->head)
lf_queue_deinit_head ==
    /\ Joined /\ head \in allocated
    /\ next[head] = NULL
    /\ allocated' = allocated \ {head}
    /\ order' = <<>>
    /\ deinit' = TRUE
    /\ UNCHANGED <<head, tail, value, next, addr, mallocs, locals, linked, taken, use_after_free>>

Deinit == lf_queue_deinit_node \/ lf_queue_deinit_head

\* Nothing follows a use after free, or the end of lf_queue_deinit.
Ended == use_after_free \/ (Joined /\ head \notin allocated)

ThreadStep(t) == lf_enqueue(t) \/ lf_dequeue(t) \/ Dangling(t)

Next ==
    \/ \E t \in Thread : ~ use_after_free /\ ThreadStep(t)
    \/ Deinit
    \/ Ended /\ UNCHANGED vars

Fairness == \A t \in Thread : WF_vars(~ use_after_free /\ ThreadStep(t))

Spec == Init /\ [][Next]_vars /\ Fairness /\ WF_vars(Deinit)

-----------------------------------------------------------------------------
\* The properties that follow are about behaviours up to a use after free.

Pointer == Node \cup {NULL}
last == order[Len(order)]

TypeOK ==
    /\ head \in Node /\ tail \in Node
    /\ mallocs \in Node
    /\ allocated \subseteq 1 .. mallocs
    /\ next \in [Node -> Pointer]
    /\ p \in [Thread -> Pointer] /\ q \in [Thread -> Pointer] /\ n \in [Thread -> Pointer]
    /\ order \in Seq(Node)

\* The list is what the links say it is: from head, next leads through the
\* linked nodes in the order they were linked in and ends in NULL, and all of
\* them are allocated.  lf_queue_deinit frees every one that is left, so that
\* nothing leaks.
ListIntact ==
    /\ TypeOK
    /\ order # <<>> => order[1] = head /\ next[last] = NULL
    /\ \A k \in 1 .. Len(order) : order[k] \in allocated
    /\ \A k \in 1 .. Len(order) - 1 : next[order[k]] = order[k + 1]
    /\ head \notin allocated => allocated = {}

\* tail lags behind the last node by at most one, even when lf_dequeue has
\* freed the node it is at, and is then mended by the enqueuer that linked the
\* last node: when no enqueue is in progress tail is the last node.
TailNearEnd ==
    ~ use_after_free /\ ~ deinit =>
        /\ tail = last \/ next[tail] = last
        /\ tail \notin allocated => Len(order) = 1
        /\ (\A t \in Enqueuer : pc[t] \in {"e_loop", "e_tail", "return"}) => tail = last

\* Values come out in the order in which their nodes were linked in, each
\* once and none invented or lost, after the value of the node that
\* lf_queue_init put between head and the items; what was linked and not
\* returned is still in the list.
FIFO ==
    (~ deinit /\ pc[Dequeuer] # "d_value") =>
        linked = taken \o [k \in 1 .. Len(order) - 1 |-> value[order[k + 1]]]

\* Every enqueue and dequeue ends although the calls retry: a failed
\* compare_and_swap_ptr means that another thread got on, or tail did.
AllReturn == <>(Joined \/ use_after_free)

-----------------------------------------------------------------------------
\* "this prevents problems between enqueue and dequeue when the queue is
\* empty or only contains a single node" (comment in lf_queue_init): with one
\* consumer no enqueuer touches a node that lf_dequeue has freed.
NoUseAfterFree == ~ use_after_free

\* "head always points to the node before the first item in the queue"
\* (comment in lf_queue_init): what lf_dequeue returns was enqueued.
OnlyItemsReturned == \A k \in 1 .. Len(taken) : taken[k] # Garbage
=============================================================================
