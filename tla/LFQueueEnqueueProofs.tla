------------------------ MODULE LFQueueEnqueueProofs ------------------------
(***************************************************************************)
(* The inductive invariant of the lock-free queue up to the first use of a *)
(* freed node, for any finite set of producers and any number of items,    *)
(* and that every step of lf_enqueue, the malloc before it and the return  *)
(* behind it preserve it.                                                  *)
(***************************************************************************)
EXTENDS LFQueue, TLAPS

In(m) == \E k \in 1 .. Len(order) : order[k] = m

\* The consumer has taken p from the list and not yet freed it.
Pending == pc[Dequeuer] \in {"d_value", "d_free"}

\* A pointer to a node that is not freed leads to the list, or to the node
\* that the consumer is about to free.
Leads(m) == m \in allocated => In(m) \/ (Pending /\ m = p[Dequeuer])

\* An enqueuer whose node is not linked yet.
Private(t) ==
    \/ pc[t] \in {"e_tail", "e_link", "e_next", "e_help"}
    \/ pc[t] = "e_check" /\ next[p[t]] # q[t]

EnqueueLabel == {"e_tail", "e_link", "e_check", "e_next", "e_help", "e_swing"}

Types ==
    /\ TypeOK
    /\ pc \in [Thread -> EnqueueLabel \cup {"e_loop", "d_loop", "d_empty", "d_next", "d_swing",
                                            "d_value", "d_free", "return"}]
    /\ \A t \in Enqueuer : pc[t] \in EnqueueLabel \cup {"e_loop", "return"}
    /\ pc[Dequeuer] \notin EnqueueLabel \cup {"e_loop"}
    /\ deinit \in BOOLEAN

\* The nodes of order, one behind the other.
Chain ==
    /\ order # <<>> => order[1] = head /\ next[last] = NULL
    /\ \A k \in 1 .. Len(order) : order[k] \in allocated
    /\ \A k \in 1 .. Len(order) - 1 : next[order[k]] = order[k + 1]
    /\ \A j, k \in 1 .. Len(order) : order[j] = order[k] => j = k

ConsumerInv ==
    /\ pc[Dequeuer] \in {"d_empty", "d_next", "d_swing"} => p[Dequeuer] = head
    /\ pc[Dequeuer] \in {"d_next", "d_swing"} => Len(order) > 1
    /\ pc[Dequeuer] = "d_swing" => n[Dequeuer] = order[2]
    /\ pc[Dequeuer] = "d_value" => q[Dequeuer] = p[Dequeuer]
    /\ Pending => /\ p[Dequeuer] \in allocated /\ ~ In(p[Dequeuer])
                  /\ next[p[Dequeuer]] = order[1]

\* p was tail once: it leads somewhere, and is not ahead of tail.
PointerInv(t) ==
    /\ pc[t] \in EnqueueLabel => q[t] \in 1 .. mallocs
    /\ pc[t] \in EnqueueLabel \ {"e_tail"} =>
          /\ p[t] \in 1 .. mallocs
          /\ Leads(p[t])
          /\ p[t] = last => tail = last
    /\ pc[t] \in {"e_check", "e_next"} => next[p[t]] # NULL
    /\ pc[t] = "e_help" => n[t] = next[p[t]] /\ n[t] # NULL
    /\ pc[t] = "e_swing" => next[p[t]] = q[t]
    /\ pc[t] \in EnqueueLabel /\ ~ Private(t) => Leads(q[t])

PrivateInv(t) ==
    Private(t) =>
        /\ q[t] \in allocated /\ next[q[t]] = NULL
        /\ ~ In(q[t]) /\ ~ (Pending /\ q[t] = p[Dequeuer])
        /\ \A u \in Enqueuer : Private(u) /\ q[u] = q[t] => u = t

TailInv ==
    /\ tail \in 1 .. mallocs
    /\ tail = last \/ next[tail] = last
    /\ Leads(tail)
    /\ tail \notin allocated => Len(order) = 1
    /\ tail # last => \E u \in Enqueuer : pc[u] \in {"e_check", "e_swing"} /\ p[u] = tail /\ q[u] = last

\* Every node that is not freed is in the list or somebody's.
NoLeak ==
    \A m \in allocated :
        \/ In(m)
        \/ Pending /\ m = p[Dequeuer]
        \/ \E t \in Enqueuer : pc[t] \in EnqueueLabel /\ q[t] = m

\* While the threads run.
RunInv ==
    /\ order # <<>>
    /\ ConsumerInv
    /\ \A t \in Enqueuer : PointerInv(t) /\ PrivateInv(t)
    /\ TailInv
    /\ NoLeak

\* Since lf_queue_deinit has begun.
DeinitInv ==
    /\ Joined
    /\ \A m \in allocated : In(m)
    /\ order = <<>> => head \notin allocated

IInv ==
    /\ Types
    /\ Chain
    /\ IF deinit THEN DeinitInv ELSE RunInv

-----------------------------------------------------------------------------
\* lf_queue_init, before a thread has run.
LEMMA InitIInv == Init => IInv
<1> SUFFICES ASSUME Init PROVE IInv
  OBVIOUS
<1> USE DEF Init, lf_queue_init
<1>1. order = <<1, 2>> /\ Len(order) = 2 /\ order[1] = 1 /\ order[2] = 2 /\ order \in Seq(Node)
  BY NodeAssumption DEF Node
<1>2. Types
  <2>1. TypeOK
    <3>1. 1 \in Node /\ 2 \in Node /\ NULL \in Pointer /\ Node \subseteq Pointer
      BY NodeAssumption DEF Node, Pointer
    <3>2. next \in [Node -> Pointer]
      BY <3>1
    <3>3. allocated \subseteq 1 .. mallocs
      OBVIOUS
    <3> QED BY <1>1, <3>1, <3>2, <3>3 DEF TypeOK
  <2> QED BY <2>1, NodeAssumption, Zenon DEF Types, Thread, EnqueueLabel
<1>3. Chain
  BY <1>1, NodeAssumption DEF Chain, last, Node
<1>4. RunInv
  BY <1>1, NodeAssumption DEF RunInv, ConsumerInv, PointerInv, PrivateInv, Private, TailInv, NoLeak,
     Pending, Leads, In, last, EnqueueLabel, Thread, Node
<1> QED BY <1>2, <1>3, <1>4 DEF IInv

\* What Chain says of single nodes: only the last one has no next, and the next
\* of another one is in the list.
LEMMA ListFacts ==
  ASSUME IInv, ~ deinit
  PROVE  /\ order \in Seq(Node) /\ Len(order) \in Nat /\ Len(order) > 0
         /\ 1 .. mallocs \subseteq Node
         /\ last \in Node /\ In(last) /\ next[last] = NULL
         /\ head = order[1] /\ In(head)
         /\ \A m : In(m) => m \in allocated /\ m \in Node
         /\ \A m : In(m) /\ m # last => In(next[m]) /\ next[m] # NULL
<1>1. order \in Seq(Node) /\ Len(order) \in Nat /\ order # <<>>
  BY DEF IInv, RunInv, Types, TypeOK
<1>2. Len(order) > 0
  BY <1>1
<1>3. 1 .. mallocs \subseteq Node
  BY NodeAssumption DEF IInv, Types, TypeOK, Node
<1>4. \A k \in 1 .. Len(order) : order[k] \in Node
  BY <1>1
<1>5. last \in Node /\ In(last) /\ next[last] = NULL /\ head = order[1] /\ In(head)
  BY <1>1, <1>2, <1>4 DEF last, In, IInv, Chain
<1>6. \A m : In(m) => m \in allocated /\ m \in Node
  BY <1>4 DEF In, IInv, Chain
<1>7. ASSUME NEW m, In(m), m # last PROVE In(next[m]) /\ next[m] # NULL
  <2>1. PICK k \in 1 .. Len(order) : order[k] = m
    BY <1>7 DEF In
  <2>2. k # Len(order)
    BY <2>1, <1>7 DEF last
  <2>3. k \in 1 .. Len(order) - 1 /\ k + 1 \in 1 .. Len(order)
    BY <2>2, <1>1
  <2>4. next[m] = order[k + 1]
    BY <2>1, <2>3 DEF IInv, Chain
  <2> QED BY <2>3, <2>4, <1>4, NodeAssumption DEF In, Node
<1> QED BY <1>1, <1>2, <1>3, <1>5, <1>6, <1>7

\* A node that is not freed and has no next is the last one or a producer's own.
LEMMA LastNode ==
  ASSUME IInv, ~ deinit, NEW m \in allocated, Leads(m), next[m] = NULL
  PROVE  m = last
<1>1. order[1] \in Node
  BY ListFacts DEF IInv, Types, TypeOK
<1>2. CASE In(m)
  BY <1>2, ListFacts
<1>3. CASE Pending /\ m = p[Dequeuer]
  BY <1>1, <1>3, NodeAssumption DEF IInv, RunInv, ConsumerInv, Node
<1> QED BY <1>2, <1>3 DEF Leads

\* What a new last node makes of the list.
LEMMA AppendFacts ==
  ASSUME order \in Seq(Node), Len(order) > 0, NEW m \in Node, order' = Append(order, m)
  PROVE  /\ order' \in Seq(Node) /\ Len(order') = Len(order) + 1 /\ order' # <<>>
         /\ last' = m
         /\ \A k \in 1 .. Len(order) : order'[k] = order[k]
         /\ order'[Len(order) + 1] = m
         /\ \A x : In(x)' <=> In(x) \/ x = m
<1>1. Len(order) \in Nat
  OBVIOUS
<1>2. /\ order' \in Seq(Node) /\ Len(order') = Len(order) + 1
      /\ \A k \in 1 .. Len(order) : order'[k] = order[k]
      /\ order'[Len(order) + 1] = m
  BY <1>1
<1>3. order' # <<>>
  BY <1>1, <1>2
<1>4. ASSUME NEW x PROVE In(x)' <=> In(x) \/ x = m
  <2>1. \A k : k \in 1 .. Len(order') <=> k \in 1 .. Len(order) \/ k = Len(order) + 1
    BY <1>1, <1>2
  <2> QED BY <2>1, <1>2 DEF In
<1> QED BY <1>2, <1>3, <1>4 DEF last

\* The compare_and_swap_ptr that links q: p is the last node, and so is tail.
LEMMA EnqueueLinks ==
  ASSUME IInv, NEW t \in Enqueuer, lf_enqueue_link(t), next[p[t]] = NULL
  PROVE  IInv'
<1> USE DEF lf_enqueue_link, heap, Goto
<1>1. ~ deinit /\ RunInv /\ t \in Thread
  BY DEF IInv, DeinitInv, Joined, Thread
<1>2. p[t] = last /\ tail = last
  BY <1>1, LastNode DEF RunInv, PointerInv, EnqueueLabel
<1>3. /\ Private(t) /\ q[t] \in Node /\ ~ In(q[t]) /\ q[t] \in allocated /\ next[q[t]] = NULL
      /\ ~ (Pending /\ q[t] = p[Dequeuer]) /\ q[t] # last
  BY <1>1, ListFacts DEF RunInv, PointerInv, PrivateInv, Private, EnqueueLabel
<1>4. /\ order' \in Seq(Node) /\ Len(order') = Len(order) + 1 /\ order' # <<>>
      /\ last' = q[t]
      /\ \A k \in 1 .. Len(order) : order'[k] = order[k]
      /\ order'[Len(order) + 1] = q[t]
      /\ \A x : In(x)' <=> In(x) \/ x = q[t]
  BY <1>1, <1>2, <1>3, ListFacts, AppendFacts
<1>5. next' = [next EXCEPT ![last] = q[t]] /\ next \in [Node -> Pointer] /\ last \in Node
  BY <1>1, <1>2, ListFacts DEF IInv, Types, TypeOK
<1>6. Types'
  BY <1>1, <1>3, <1>4, <1>5 DEF IInv, Types, TypeOK, EnqueueLabel, Thread, Pointer
<1>13. /\ pc'[t] = "e_check" /\ \A u \in Thread : u # t => pc'[u] = pc[u]
       /\ Pending' <=> Pending
  BY <1>1, NodeAssumption DEF Pending, IInv, Types, Thread
<1>14. pc[t] = "e_link" /\ UNCHANGED <<head, tail, allocated, mallocs, p, q, n, deinit>>
  OBVIOUS
<1> HIDE DEF lf_enqueue_link, heap, Goto
<1> USE <1>14
<1>7. Chain'
  <2>1. Len(order) \in Nat /\ Len(order) > 0 /\ head = order[1] /\ \A k \in 1 .. Len(order) : order[k] \in Node
    BY <1>1, ListFacts
  <2>2. order'[1] = head'
    BY <2>1, <1>4
  <2>3. next'[last'] = NULL
    BY <1>3, <1>4, <1>5
  <2>7. \A k : k \in 1 .. Len(order') <=> k \in 1 .. Len(order) \/ k = Len(order) + 1
    BY <2>1, <1>4, SMTT(30)
  <2>4. \A k \in 1 .. Len(order') : order'[k] \in allocated'
    BY <2>7, <1>3, <1>4 DEF IInv, Chain
  <2>5. ASSUME NEW k \in 1 .. Len(order') - 1 PROVE next'[order'[k]] = order'[k + 1]
    <3>1. CASE k = Len(order)
      BY <3>1, <2>1, <1>4, <1>5 DEF last
    <3>2. CASE k \in 1 .. Len(order) - 1
      <4>1. next[order[k]] = order[k + 1] /\ order[k] # last
        BY <3>2, <2>1 DEF IInv, Chain, last
      <4>2. k \in 1 .. Len(order) /\ k + 1 \in 1 .. Len(order)
        BY <3>2, <2>1
      <4> QED BY <4>1, <4>2, <2>1, <1>4, <1>5
    <3>3. Len(order') - 1 = Len(order)
      BY <2>1, <1>4
    <3> QED BY <3>1, <3>2, <3>3, <2>1, SMTT(30)
  <2>6. ASSUME NEW j \in 1 .. Len(order'), NEW k \in 1 .. Len(order'), order'[j] = order'[k] PROVE j = k
    <3>1. \A l \in 1 .. Len(order) : order'[l] = order[l] /\ order[l] # q[t]
      BY <1>3, <1>4 DEF In
    <3>2. order'[Len(order) + 1] = q[t]
      BY <1>4
    <3>3. CASE j \in 1 .. Len(order) /\ k \in 1 .. Len(order)
      BY <2>6, <3>1, <3>3 DEF IInv, Chain
    <3> QED BY <2>6, <2>7, <3>1, <3>2, <3>3
  <2> QED BY <2>2, <2>3, <2>4, <2>5, <2>6 DEF Chain
<1>8. ConsumerInv'
  <2>0. Len(order) \in Nat /\ Len(order) > 0 /\ head = order[1]
    BY <1>1, ListFacts
  <2>1. Len(order) \in Nat /\ Len(order) > 0 /\ head = order[1] /\ order[1] = order'[1]
    BY <1>4, <2>0
  <2>2. pc'[Dequeuer] = pc[Dequeuer] /\ ConsumerInv
    BY <1>1, <1>13, NodeAssumption DEF RunInv, Thread
  <2>3. Pending => p[Dequeuer] # last /\ p[Dequeuer] \in Node
    BY <1>1, <2>2, ListFacts, Zenon DEF ConsumerInv, IInv, Types, TypeOK
  <2>4. Len(order) > 1 => order'[2] = order[2]
    BY <1>4, <2>1
  <2>5. Len(order) > 1 => Len(order') > 1
    BY <1>4, <2>1
  <2>6. Pending => /\ p[Dequeuer] \in allocated /\ ~ In(p[Dequeuer])'
                   /\ next'[p[Dequeuer]] = order'[1]
    BY <1>3, <1>4, <1>5, <2>1, <2>2, <2>3 DEF ConsumerInv
  <2> QED BY <1>13, <2>2, <2>4, <2>5, <2>6 DEF ConsumerInv
<1>9. ASSUME NEW u \in Enqueuer PROVE PointerInv(u)'
  <2>0. PointerInv(u) /\ PointerInv(t) /\ pc[t] = "e_link" /\ NULL \notin Node /\ 1 .. mallocs \subseteq Node
    BY <1>1, ListFacts, NodeAssumption DEF RunInv, Node
  <2>1. /\ pc[u] \in EnqueueLabel \ {"e_tail"} => p[u] \in Node /\ p[u] # q[t]
        /\ pc[u] \in {"e_check", "e_next", "e_help", "e_swing"} => p[u] # last
    <3>1. pc[u] \in EnqueueLabel \ {"e_tail"} => p[u] \in Node /\ p[u] # q[t]
      BY <2>0, <1>3 DEF PointerInv, Leads
    <3>2. pc[u] \in {"e_check", "e_next", "e_help", "e_swing"} => next[p[u]] # NULL
      BY <2>0 DEF PointerInv, EnqueueLabel
    <3> QED BY <3>1, <3>2, <1>1, ListFacts
  <2>2. CASE u = t
    <3>1. pc'[t] = "e_check" /\ p[t] \in 1 .. mallocs /\ q[t] \in 1 .. mallocs
      BY <2>0, <1>13 DEF PointerInv, EnqueueLabel
    <3>2. In(p[t])' /\ In(q[t])'
      BY <1>1, <1>2, <1>4, ListFacts
    <3>3. next'[p[t]] = q[t] /\ q[t] # NULL
      BY <1>2, <1>3, <1>5, <2>0
    <3>4. p[t] # last'
      BY <1>2, <1>3, <1>4
    <3> QED BY <2>2, <3>1, <3>2, <3>3, <3>4 DEF PointerInv, Private, Leads, EnqueueLabel
  <2>3. CASE u # t
    <3>1. pc'[u] = pc[u] /\ (Pending' <=> Pending) /\ u \in Thread
      BY <2>3, <1>13 DEF Thread
    <3>2. \A m : Leads(m) => Leads(m)'
      BY <3>1, <1>4 DEF Leads
    <3>3. pc[u] \in EnqueueLabel \ {"e_tail"} => (p[u] = last => tail = last)'
      BY <2>1, <3>1, <1>3, <1>4, <1>1 DEF RunInv, PointerInv
    <3>4. pc[u] \in {"e_check", "e_next", "e_help", "e_swing"} => next'[p[u]] = next[p[u]]
      BY <2>1, <1>5 DEF EnqueueLabel
    <3>5. pc[u] \in EnqueueLabel => (Private(u)' <=> Private(u))
      BY <3>1, <3>4 DEF Private, EnqueueLabel
    <3> QED BY <3>1, <3>2, <3>3, <3>4, <3>5, <1>1 DEF RunInv, PointerInv, EnqueueLabel
  <2> QED BY <2>2, <2>3
<1>10. ASSUME NEW u \in Enqueuer PROVE PrivateInv(u)'
  <2>1. ASSUME NEW v \in Enqueuer, Private(v)' PROVE Private(v) /\ v # t
    <3>1. v # t
      BY <2>1, <1>2, <1>5, <1>13 DEF Private, IInv, Types, TypeOK
    <3>2. pc'[v] = pc[v] /\ PointerInv(v)
      BY <3>1, <1>1, <1>13 DEF RunInv, Thread
    <3>3. pc[v] = "e_check" => next'[p[v]] = next[p[v]]
      BY SMTT(20), Zenon, <3>2, <1>1, <1>5, ListFacts DEF PointerInv, IInv, Types, TypeOK
    <3> QED BY <2>1, <3>1, <3>2, <3>3 DEF Private
  <2>2. SUFFICES ASSUME Private(u)' PROVE PrivateInv(u)'
    BY DEF PrivateInv
  <2>3. Private(u) /\ u # t /\ PrivateInv(u) /\ PrivateInv(t)
    BY <2>1, <2>2, <1>1 DEF RunInv
  <2>4. q[u] \in Node /\ q[u] # last /\ q[u] # q[t]
    BY <2>3, <1>1, <1>3, ListFacts DEF PrivateInv, RunInv, PointerInv, Private, EnqueueLabel
  <2>5. next'[q[u]] = next[q[u]] /\ ~ In(q[u])'
    BY <2>3, <2>4, <1>4, <1>5 DEF PrivateInv
  <2> QED BY <2>1, <2>2, <2>3, <2>5, <1>13 DEF PrivateInv
<1>11. TailInv'
  <2>1. tail \in 1 .. mallocs /\ tail \in allocated /\ In(tail)'
    BY <1>1, <1>2, <1>4, ListFacts DEF RunInv, TailInv
  <2>2. next'[tail] = q[t]
    BY <1>2, <1>5
  <2> QED BY <2>1, <2>2, <1>2, <1>4, <1>13 DEF TailInv, Leads
<1>12. NoLeak'
  BY SMTT(20), Zenon, <1>1, <1>4, <1>13 DEF RunInv, NoLeak, EnqueueLabel, Thread
<1> QED BY <1>1, <1>4, <1>6, <1>7, <1>8, <1>9, <1>10, <1>11, <1>12 DEF IInv, RunInv

\* A step of a producer that changes its own locals only, or moves tail to the
\* last node.
LEMMA ProducerMoves ==
  ASSUME IInv, ~ deinit, NEW t \in Enqueuer,
         UNCHANGED <<head, next, mallocs, allocated, order, deinit>>,
         tail' = tail \/ tail' = last,
         Types', PointerInv(t)',
         \A u \in Thread : u # t => pc'[u] = pc[u] /\ p'[u] = p[u] /\ q'[u] = q[u] /\ n'[u] = n[u],
         Private(t)' => Private(t) /\ q'[t] = q[t],
         pc[t] \in EnqueueLabel => (pc'[t] \in EnqueueLabel /\ q'[t] = q[t]) \/ Leads(q[t]),
         pc[t] \in {"e_check", "e_swing"} /\ p[t] = tail /\ q[t] = last =>
            tail' = last \/ (pc'[t] \in {"e_check", "e_swing"} /\ p'[t] = tail /\ q'[t] = last)
  PROVE  IInv'
<1>1. RunInv /\ Dequeuer # t /\ Dequeuer \in Thread /\ Enqueuer \subseteq Thread
  BY NodeAssumption DEF IInv, Thread
<1>2. pc'[Dequeuer] = pc[Dequeuer] /\ p'[Dequeuer] = p[Dequeuer] /\ q'[Dequeuer] = q[Dequeuer] /\ n'[Dequeuer] = n[Dequeuer]
  BY <1>1
<1>3. last' = last /\ (Pending' <=> Pending) /\ \A m : In(m)' <=> In(m)
  BY <1>2 DEF last, In, Pending
<1>4. \A m : Leads(m)' <=> Leads(m)
  BY <1>2, <1>3 DEF Leads
<1>5. \A u \in Enqueuer : u # t => (Private(u)' <=> Private(u))
  BY <1>1 DEF Private
<1>6. Chain'
  BY <1>3 DEF IInv, Chain
<1>7. ConsumerInv'
  BY SMTT(20), Zenon, <1>1, <1>2, <1>3 DEF RunInv, ConsumerInv
<1>8. ASSUME NEW u \in Enqueuer, u # t PROVE PointerInv(u)'
  BY SMTT(20), Zenon, <1>1, <1>3, <1>4, <1>5, <1>8 DEF RunInv, PointerInv
<1>9. ASSUME NEW u \in Enqueuer PROVE PrivateInv(u)'
  <2>1. \A v \in Enqueuer : Private(v)' => Private(v) /\ q'[v] = q[v]
    BY <1>1, <1>5
  <2>2. PrivateInv(u)
    BY <1>1 DEF RunInv
  <2> QED BY Zenon, <1>2, <1>3, <2>1, <2>2 DEF PrivateInv
<1>10. TailInv'
  <2>1. CASE tail' = last
    <3>1. last \in 1 .. mallocs /\ Leads(last) /\ last \in allocated
      BY ListFacts, Zenon DEF Leads, IInv, Types, TypeOK
    <3> QED BY <2>1, <3>1, <1>3, <1>4 DEF TailInv
  <2>2. CASE tail' = tail /\ tail # last
    <3>1. \E u \in Enqueuer : pc'[u] \in {"e_check", "e_swing"} /\ p'[u] = tail /\ q'[u] = last
      BY SMTT(20), Zenon, <2>2, <1>1 DEF RunInv, TailInv
    <3> QED BY SMTT(20), Zenon, <2>2, <3>1, <1>1, <1>3, <1>4 DEF RunInv, TailInv
  <2> QED BY SMTT(20), Zenon, <2>1, <2>2
<1>11. NoLeak'
  BY <1>1, <1>2, <1>3 DEF RunInv, NoLeak, Leads
<1> QED BY SMTT(20), Zenon, <1>1, <1>6, <1>7, <1>8, <1>9, <1>10, <1>11 DEF IInv, RunInv

\* The load of queue->tail.
LEMMA EnqueueTail ==
  ASSUME IInv, NEW t \in Enqueuer, lf_enqueue_tail(t)
  PROVE  IInv'
<1> USE DEF lf_enqueue_tail, shared, heap, history, Goto
<1>1. ~ deinit /\ PointerInv(t) /\ PrivateInv(t) /\ TailInv /\ t \in Thread
  BY DEF IInv, RunInv, DeinitInv, Joined, Thread
<1>2. 1 .. mallocs \subseteq Node
  BY <1>1, ListFacts
<1>3. pc'[t] = "e_link" /\ p'[t] = tail
  BY <1>1 DEF IInv, Types, TypeOK
<1>5. Types'
  BY <1>1, <1>2 DEF IInv, Types, TypeOK, EnqueueLabel, Thread, Pointer, PointerInv
<1>6. \A u \in Thread : u # t => pc'[u] = pc[u] /\ p'[u] = p[u] /\ q'[u] = q[u] /\ n'[u] = n[u]
  BY DEF IInv, Types, TypeOK
<1>7. \A m : Leads(m)' <=> Leads(m)
  BY SMTT(20), Zenon, <1>1, <1>6, NodeAssumption DEF Leads, Pending, In, Thread
<1>8. PointerInv(t)' /\ Private(t)
  BY SMTT(20), Zenon, <1>1, <1>3, <1>7 DEF PointerInv, TailInv, Private, EnqueueLabel, last
<1> QED BY <1>1, <1>3, <1>5, <1>6, <1>8, ProducerMoves DEF EnqueueLabel

\* succ = (q == p->next): q stays private, or p and q are neighbours.
LEMMA EnqueueCheck ==
  ASSUME IInv, NEW t \in Enqueuer, lf_enqueue_check(t)
  PROVE  IInv'
<1> USE DEF lf_enqueue_check, shared, heap, history, Goto
<1>1. ~ deinit /\ PointerInv(t) /\ PrivateInv(t) /\ TailInv /\ t \in Thread
  BY Zenon DEF IInv, RunInv, DeinitInv, Joined, Thread
<1>2. 1 .. mallocs \subseteq Node
  BY <1>1, ListFacts
<1>3. pc'[t] = IF next[p[t]] = q[t] THEN "e_swing" ELSE "e_next"
  BY <1>1 DEF IInv, Types, TypeOK
<1>5. Types'
  BY <1>1, <1>2 DEF IInv, Types, TypeOK, EnqueueLabel, Thread, Pointer, PointerInv
<1>6. \A u \in Thread : u # t => pc'[u] = pc[u] /\ p'[u] = p[u] /\ q'[u] = q[u] /\ n'[u] = n[u]
  BY DEF IInv, Types, TypeOK
<1>7. \A m : Leads(m)' <=> Leads(m)
  BY <1>1, <1>6, NodeAssumption DEF Leads, Pending, In, Thread
<1>8. PointerInv(t)' /\ (Private(t)' => Private(t))
  <2>1. UNCHANGED <<tail, next, mallocs, order, p, q, n>> /\ pc[t] = "e_check" /\ last' = last
    BY DEF last
  <2> HIDE DEF lf_enqueue_check, shared, heap, history, Goto
  <2>2. Private(t)' <=> Private(t)
    BY <2>1, <1>3 DEF Private
  <2>3. /\ q[t] \in 1 .. mallocs /\ p[t] \in 1 .. mallocs /\ Leads(p[t]) /\ (p[t] = last => tail = last)
        /\ next[p[t]] # NULL /\ (~ Private(t) => Leads(q[t]))
    BY <2>1, <1>1 DEF PointerInv, EnqueueLabel
  <2> QED BY <2>1, <2>2, <2>3, <1>3, <1>7 DEF PointerInv
<1>9. p[t] = tail /\ q[t] = last => tail = last \/ pc'[t] = "e_swing"
  BY SMTT(20), Zenon, <1>1, <1>3 DEF TailInv
<1> QED BY SMTT(20), Zenon, <1>1, <1>3, <1>5, <1>6, <1>8, <1>9, ProducerMoves DEF EnqueueLabel

\* The load of p->next, which is not NULL.
LEMMA EnqueueNext ==
  ASSUME IInv, NEW t \in Enqueuer, lf_enqueue_next(t)
  PROVE  IInv'
<1> USE DEF lf_enqueue_next, shared, heap, history, Goto
<1>1. ~ deinit /\ PointerInv(t) /\ PrivateInv(t) /\ TailInv /\ t \in Thread
  BY DEF IInv, RunInv, DeinitInv, Joined, Thread
<1>2. 1 .. mallocs \subseteq Node
  BY <1>1, ListFacts
<1>3. pc'[t] = "e_help" /\ n'[t] = next[p[t]]
  BY <1>1 DEF IInv, Types, TypeOK
<1>5. Types'
  BY <1>1, <1>2 DEF IInv, Types, TypeOK, EnqueueLabel, Thread, Pointer, PointerInv
<1>6. \A u \in Thread : u # t => pc'[u] = pc[u] /\ p'[u] = p[u] /\ q'[u] = q[u] /\ n'[u] = n[u]
  BY DEF IInv, Types, TypeOK
<1>7. \A m : Leads(m)' <=> Leads(m)
  BY SMTT(20), Zenon, <1>1, <1>6, NodeAssumption DEF Leads, Pending, In, Thread
<1>8. PointerInv(t)' /\ Private(t)
  BY SMTT(20), Zenon, <1>1, <1>3, <1>7 DEF PointerInv, Private, EnqueueLabel, last
<1> QED BY SMTT(20), Zenon, <1>1, <1>3, <1>5, <1>6, <1>8, ProducerMoves DEF EnqueueLabel

\* The compare_and_swap_ptr that helps tail along takes it to the last node.
LEMMA EnqueueHelp ==
  ASSUME IInv, NEW t \in Enqueuer, lf_enqueue_help(t)
  PROVE  IInv'
<1> USE DEF lf_enqueue_help, shared, heap, history, Goto
<1>1. ~ deinit /\ PointerInv(t) /\ PrivateInv(t) /\ TailInv /\ t \in Thread
  BY SMTT(20), Zenon DEF IInv, RunInv, DeinitInv, Joined, Thread
<1>2. 1 .. mallocs \subseteq Node
  BY Zenon, <1>1, ListFacts
<1>3. pc'[t] = "e_tail"
  BY <1>1 DEF IInv, Types, TypeOK
<1>4. tail' = tail \/ tail' = last
  BY <1>1, ListFacts, NodeAssumption DEF PointerInv, TailInv, EnqueueLabel, Node
<1>5. Types'
  BY <1>1, <1>2, <1>4, ListFacts DEF IInv, Types, TypeOK, EnqueueLabel, Thread, Pointer, PointerInv
<1>6. \A u \in Thread : u # t => pc'[u] = pc[u] /\ p'[u] = p[u] /\ q'[u] = q[u] /\ n'[u] = n[u]
  BY DEF IInv, Types, TypeOK
<1>7. \A m : Leads(m)' <=> Leads(m)
  BY SMTT(20), Zenon, <1>1, <1>6, NodeAssumption DEF Leads, Pending, In, Thread
<1>8. PointerInv(t)' /\ Private(t)
  BY <1>1, <1>3, <1>7 DEF PointerInv, Private, EnqueueLabel
<1> QED BY Zenon, <1>1, <1>3, <1>4, <1>5, <1>6, <1>8, ProducerMoves DEF EnqueueLabel

\* The last compare_and_swap_ptr of lf_enqueue takes tail to the last node, or
\* leaves it.
LEMMA EnqueueSwing ==
  ASSUME IInv, NEW t \in Enqueuer, lf_enqueue_swing(t)
  PROVE  IInv'
<1> USE DEF lf_enqueue_swing, shared, heap, history, Goto, Return
<1>1. ~ deinit /\ PointerInv(t) /\ PrivateInv(t) /\ TailInv /\ t \in Thread
  BY DEF IInv, RunInv, DeinitInv, Joined, Thread
<1>2. 1 .. mallocs \subseteq Node
  BY <1>1, ListFacts
<1>3. pc'[t] = "e_loop"
  BY <1>1 DEF IInv, Types, TypeOK
<1>4. (tail' = tail \/ tail' = last) /\ (p[t] = tail /\ q[t] = last => tail' = last)
  <2>1. next[p[t]] = q[t] /\ q[t] \in Node /\ next[last] = NULL /\ NULL \notin Node
    <3>1. next[p[t]] = q[t] /\ q[t] \in Node
      BY <1>1, <1>2 DEF PointerInv, EnqueueLabel
    <3>2. next[last] = NULL
      BY <1>1, ListFacts
    <3>3. NULL \notin Node
      BY NodeAssumption DEF Node
    <3> QED BY <3>1, <3>2, <3>3
  <2>2. tail = last \/ next[tail] = last
    BY <1>1 DEF TailInv
  <2> QED BY <2>1, <2>2
<1>5. Types'
  BY <1>1, <1>2, <1>4, ListFacts DEF IInv, Types, TypeOK, EnqueueLabel, Thread, Pointer, PointerInv
<1>6. \A u \in Thread : u # t => pc'[u] = pc[u] /\ p'[u] = p[u] /\ q'[u] = q[u] /\ n'[u] = n[u]
  BY DEF IInv, Types, TypeOK
<1>7. \A m : Leads(m)' <=> Leads(m)
  BY <1>1, <1>6, NodeAssumption DEF Leads, Pending, In, Thread
<1>8. PointerInv(t)' /\ ~ Private(t)' /\ Leads(q[t])
  BY <1>1, <1>3, <1>7 DEF PointerInv, Private, EnqueueLabel
<1> QED BY <1>1, <1>3, <1>4, <1>5, <1>6, <1>8, ProducerMoves

\* A compare_and_swap_ptr of p->next that fails: q is still private.
LEMMA EnqueueLinkFails ==
  ASSUME IInv, NEW t \in Enqueuer, lf_enqueue_link(t), next[p[t]] # NULL
  PROVE  IInv'
<1> USE DEF lf_enqueue_link, heap, Goto
<1>1. ~ deinit /\ PointerInv(t) /\ PrivateInv(t) /\ TailInv /\ t \in Thread
  BY DEF IInv, RunInv, DeinitInv, Joined, Thread
<1>2. 1 .. mallocs \subseteq Node
  BY <1>1, ListFacts
<1>3. pc'[t] = "e_check"
  BY <1>1 DEF IInv, Types, TypeOK
<1>4. next[p[t]] # q[t]
  <2>1. Leads(p[t]) /\ Private(t)
    BY <1>1 DEF PointerInv, Private, EnqueueLabel
  <2>2. In(next[p[t]])
    BY <2>1, <1>1, ListFacts DEF Leads, IInv, RunInv, ConsumerInv
  <2> QED BY <1>1, <2>1, <2>2 DEF PrivateInv
<1>5. Types'
  BY <1>1, <1>2 DEF IInv, Types, TypeOK, EnqueueLabel, Thread, Pointer, PointerInv
<1>6. \A u \in Thread : u # t => pc'[u] = pc[u] /\ p'[u] = p[u] /\ q'[u] = q[u] /\ n'[u] = n[u]
  BY DEF IInv, Types, TypeOK
<1>7. \A m : Leads(m)' <=> Leads(m)
  BY <1>1, <1>6, NodeAssumption DEF Leads, Pending, In, Thread
<1>8. PointerInv(t)' /\ Private(t)
  BY <1>1, <1>3, <1>4, <1>7 DEF PointerInv, Private, EnqueueLabel, last
<1> QED BY <1>1, <1>3, <1>5, <1>6, <1>8, ProducerMoves DEF EnqueueLabel

\* The end of enqueue_fn.
LEMMA EnqueueReturns ==
  ASSUME IInv, NEW t \in Enqueuer, lf_enqueue_alloc(t), UNCHANGED <<heap, value, next, q>>,
         pc[t] = "e_loop", Goto(t, "return")
  PROVE  IInv'
<1> USE DEF lf_enqueue_alloc, heap, history, Goto
<1>1. ~ deinit /\ PointerInv(t) /\ PrivateInv(t) /\ TailInv /\ t \in Thread
  BY DEF IInv, RunInv, DeinitInv, Joined, Thread
<1>2. 1 .. mallocs \subseteq Node
  BY <1>1, ListFacts
<1>3. pc'[t] = "return"
  BY <1>1 DEF IInv, Types, TypeOK
<1>5. Types'
  BY <1>1, <1>2 DEF IInv, Types, TypeOK, EnqueueLabel, Thread, Pointer, PointerInv
<1>6. \A u \in Thread : u # t => pc'[u] = pc[u] /\ p'[u] = p[u] /\ q'[u] = q[u] /\ n'[u] = n[u]
  BY DEF IInv, Types, TypeOK
<1>7. \A m : Leads(m)' <=> Leads(m)
  BY <1>1, <1>6, NodeAssumption DEF Leads, Pending, In, Thread
<1>8. PointerInv(t)' /\ ~ Private(t)'
  BY <1>3 DEF PointerInv, Private, EnqueueLabel
<1> QED BY <1>1, <1>3, <1>5, <1>6, <1>8, ProducerMoves DEF EnqueueLabel

\* The node from malloc is new to everybody.
LEMMA EnqueueAllocates ==
  ASSUME IInv, NEW t \in Enqueuer, pc[t] = "e_loop", NEW m \in Node, malloc(m),
         next' = [next EXCEPT ![m] = NULL], q' = [q EXCEPT ![t] = m], Goto(t, "e_tail"),
         UNCHANGED <<head, tail, p, n, i, history>>
  PROVE  IInv'
<1> USE DEF malloc, history, Goto
<1>1. ~ deinit /\ RunInv /\ t \in Thread
  BY DEF IInv, DeinitInv, Joined, Thread
<1>2. /\ mallocs \in Nat /\ mallocs' = mallocs + 1 /\ m = mallocs + 1
      /\ m \notin 1 .. mallocs /\ 1 .. mallocs \subseteq 1 .. mallocs' /\ m \in 1 .. mallocs'
      /\ 1 .. mallocs \subseteq Node /\ NULL \notin Node
  BY <1>1, ListFacts, NodeAssumption DEF IInv, Types, TypeOK, Node
<1>3. ~ In(m) /\ m \notin allocated /\ last \in 1 .. mallocs /\ tail \in 1 .. mallocs
  <2>1. allocated \subseteq 1 .. mallocs /\ tail \in 1 .. mallocs
    BY <1>1 DEF IInv, Types, TypeOK, RunInv, TailInv
  <2>2. last \in allocated /\ (In(m) => m \in allocated)
    BY <1>1, ListFacts, Zenon
  <2> QED BY <2>1, <2>2, <1>2, Zenon
<1>4. \A x \in 1 .. mallocs : next'[x] = next[x] /\ (x \in allocated' <=> x \in allocated)
  BY <1>2 DEF IInv, Types, TypeOK
<1>5. next'[m] = NULL /\ m \in allocated' /\ allocated \subseteq allocated'
  BY <1>2 DEF IInv, Types, TypeOK
<1>6. last' = last /\ (Pending' <=> Pending) /\ (Pending => p[Dequeuer] \in 1 .. mallocs)
  BY <1>1, NodeAssumption, Zenon DEF last, Pending, IInv, Types, TypeOK, Thread, RunInv, ConsumerInv
<1>7. \A x : In(x)' <=> In(x)
  BY DEF In
<1>8. \A x \in 1 .. mallocs : Leads(x) => Leads(x)'
  BY <1>4, <1>6, <1>7 DEF Leads
<1>9. Types'
  BY <1>1, <1>2, NodeAssumption DEF IInv, Types, TypeOK, EnqueueLabel, Thread, Pointer
<1>15. /\ pc'[t] = "e_tail" /\ q'[t] = m
       /\ \A u \in Thread : u # t => pc'[u] = pc[u] /\ q'[u] = q[u]
       /\ UNCHANGED <<head, tail, order, deinit, p, n>>
  BY <1>1 DEF IInv, Types, TypeOK
<1> HIDE DEF malloc, history, Goto
<1> USE <1>15
<1>10. Chain'
  <2>1. \A k \in 1 .. Len(order) : order[k] \in 1 .. mallocs
    BY Zenon DEF IInv, Chain, Types, TypeOK
  <2>2. Len(order) \in Nat
    BY <1>1, ListFacts
  <2> QED BY <2>1, <2>2, <1>3, <1>4, <1>5, <1>6 DEF IInv, Chain
<1>11. ConsumerInv'
  <2>1. Dequeuer \in Thread /\ Dequeuer # t
    BY NodeAssumption DEF Thread
  <2> QED BY <2>1, <1>1, <1>4, <1>5, <1>6, <1>7 DEF RunInv, ConsumerInv
<1>12. ASSUME NEW u \in Enqueuer PROVE PointerInv(u)' /\ PrivateInv(u)'
  <2>0. PointerInv(u) /\ PrivateInv(u) /\ u \in Thread
    BY <1>1 DEF RunInv, Thread
  <2>1. CASE u = t
    <3>2. ASSUME NEW v \in Enqueuer, Private(v)', v # t PROVE q'[v] # m
      <4>1. pc'[v] = pc[v] /\ q'[v] = q[v] /\ PointerInv(v)
        BY <3>2, <1>1 DEF RunInv, Thread
      <4>2. pc'[v] \in EnqueueLabel
        BY <3>2 DEF Private, EnqueueLabel
      <4>3. q[v] \in 1 .. mallocs
        BY <4>1, <4>2 DEF PointerInv
      <4> QED BY <4>1, <4>3, <1>2
    <3>3. Private(t)'
      BY DEF Private
    <3>4. ~ (Pending' /\ m = p'[Dequeuer]) /\ ~ In(m)'
      BY <1>2, <1>3, <1>6, <1>7
    <3> QED BY <2>1, <3>2, <3>3, <3>4, <1>2, <1>5 DEF PointerInv, PrivateInv, EnqueueLabel
  <2>2. CASE u # t
    <3>1. pc'[u] = pc[u] /\ q'[u] = q[u] /\ p'[u] = p[u] /\ n'[u] = n[u]
      BY <2>0, <2>2
    <3>2. pc[u] \in EnqueueLabel => (Private(u)' <=> Private(u))
      BY <2>0, <3>1, <1>4 DEF Private, PointerInv, EnqueueLabel
    <3>3. PointerInv(u)'
      BY <2>0, <3>1, <3>2, <1>2, <1>4, <1>6, <1>8 DEF PointerInv, EnqueueLabel
    <3>4. ASSUME Private(u)' PROVE \A v \in Enqueuer : Private(v)' /\ q'[v] = q'[u] => v = u
      <4>1. Private(u) /\ q[u] \in 1 .. mallocs
        BY SMTT(20), Zenon, <2>0, <3>1, <3>2, <3>4 DEF Private, PointerInv, EnqueueLabel
      <4>3. ASSUME NEW v \in Enqueuer, Private(v)', q'[v] = q'[u] PROVE v = u
        <5>1. v # t
          BY SMTT(20), Zenon, <4>1, <4>3, <3>1, <1>2
        <5>2. pc'[v] = pc[v] /\ q'[v] = q[v] /\ p'[v] = p[v] /\ PointerInv(v)
          BY <5>1, <1>1 DEF Thread, RunInv
        <5>3. Private(v)
          BY <4>3, <5>2, <1>4 DEF Private, PointerInv, EnqueueLabel
        <5> QED BY SMTT(20), Zenon, <2>0, <3>1, <4>1, <4>3, <5>2, <5>3 DEF PrivateInv
      <4> QED BY SMTT(20), Zenon, <4>3
    <3>5. PrivateInv(u)'
      <4>1. Private(u)' => Private(u) /\ q[u] \in 1 .. mallocs
        BY <2>0, <3>1, <3>2 DEF Private, PointerInv, EnqueueLabel
      <4>2. Private(u)' => /\ q[u] \in allocated' /\ next'[q[u]] = NULL
                           /\ ~ In(q[u])' /\ ~ (Pending' /\ q[u] = p[Dequeuer])
        BY <2>0, <3>1, <4>1, <1>4, <1>6, <1>7 DEF PrivateInv
      <4> QED BY <3>1, <3>4, <4>2 DEF PrivateInv
    <3> QED BY <3>3, <3>5
  <2> QED BY <2>1, <2>2
<1>13. TailInv'
  <2>1. tail # last => \E u \in Enqueuer : u # t /\ pc[u] \in {"e_check", "e_swing"} /\ p[u] = tail /\ q[u] = last
    BY <1>1 DEF RunInv, TailInv
  <2>2. tail # last => \E u \in Enqueuer : pc'[u] \in {"e_check", "e_swing"} /\ p'[u] = tail /\ q'[u] = last
    BY <2>1 DEF Thread
  <2> QED BY <2>2, <1>1, <1>2, <1>3, <1>4, <1>6, <1>8 DEF RunInv, TailInv
<1>14. NoLeak'
  <2>1. allocated' = allocated \cup {m}
    BY DEF malloc
  <2>2. m = q'[t] /\ pc'[t] \in EnqueueLabel
    BY DEF EnqueueLabel
  <2>3. ASSUME NEW u \in Enqueuer, pc[u] \in EnqueueLabel PROVE pc'[u] \in EnqueueLabel /\ q'[u] = q[u]
    <3>1. u # t /\ u \in Thread
      BY <2>3 DEF EnqueueLabel, Thread
    <3> QED BY <2>3, <3>1
  <2>4. NoLeak
    BY <1>1 DEF RunInv
  <2> QED BY <2>1, <2>2, <2>3, <2>4, <1>6, <1>7 DEF NoLeak
<1> QED BY <1>1, <1>9, <1>10, <1>11, <1>12, <1>13, <1>14 DEF IInv, RunInv
=============================================================================
