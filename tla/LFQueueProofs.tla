--------------------------- MODULE LFQueueProofs ----------------------------
(***************************************************************************)
(* The lock-free queue up to the first use of a freed node, for any finite *)
(* set of producers and any number of items: the list is what its links    *)
(* say, tail is never more than one node behind its end, and the values    *)
(* come out in the order in which they were linked in.  The steps of       *)
(* lf_dequeue come first, the theorems last.                               *)
(***************************************************************************)
EXTENDS LFQueueEnqueueProofs

\* Two sequences one behind the other.
LEMMA Concatenation ==
  ASSUME NEW S, NEW s1 \in Seq(S), NEW s2 \in Seq(S)
  PROVE  /\ s1 \o s2 \in Seq(S) /\ Len(s1 \o s2) = Len(s1) + Len(s2)
         /\ \A k \in 1 .. Len(s1) + Len(s2) :
               (s1 \o s2)[k] = IF k <= Len(s1) THEN s1[k] ELSE s2[k - Len(s1)]
OBVIOUS

\* A step that changes locals of the consumer only.
LEMMA ConsumerMoves ==
  ASSUME IInv, ~ deinit, UNCHANGED <<head, tail, next, mallocs, allocated, order, deinit>>,
         Types', ConsumerInv',
         Pending' <=> Pending, Pending => p'[Dequeuer] = p[Dequeuer],
         \A u \in Enqueuer : pc'[u] = pc[u] /\ p'[u] = p[u] /\ q'[u] = q[u] /\ n'[u] = n[u]
  PROVE  IInv'
<1>1. RunInv
  BY DEF IInv
<1>2. last' = last /\ \A m : (In(m)' <=> In(m)) /\ (Leads(m)' <=> Leads(m))
  BY DEF last, In, Leads
<1>3. \A u \in Enqueuer : Private(u)' <=> Private(u)
  BY DEF Private
<1>4. Chain'
  BY <1>2 DEF IInv, Chain
<1>5. ASSUME NEW u \in Enqueuer PROVE PointerInv(u)'
  <2>1. PointerInv(u)
    BY <1>1 DEF RunInv
  <2> QED BY <2>1, <1>2, <1>3 DEF PointerInv
<1>6. ASSUME NEW u \in Enqueuer PROVE PrivateInv(u)'
  <2>1. PrivateInv(u)
    BY <1>1 DEF RunInv
  <2> QED BY <2>1, <1>2, <1>3 DEF PrivateInv
<1>7. TailInv'
  BY <1>1, <1>2 DEF RunInv, TailInv
<1>8. NoLeak'
  <2>1. NoLeak
    BY <1>1 DEF RunInv
  <2> QED BY <2>1, <1>2 DEF NoLeak
<1> QED BY <1>1, <1>4, <1>5, <1>6, <1>7, <1>8 DEF IInv, RunInv

\* The load of queue->head, or the end of dequeue_fn.
LEMMA DequeueHead ==
  ASSUME IInv, lf_dequeue_head(Dequeuer)
  PROVE  IInv'
<1> USE DEF lf_dequeue_head, shared, heap, history, Goto, Return
<1>1. ~ deinit /\ RunInv /\ Dequeuer \in Thread
  BY DEF IInv, DeinitInv, Joined, Thread
<1>3. Types'
  BY <1>1, ListFacts, NodeAssumption DEF IInv, Types, TypeOK, EnqueueLabel, Thread, Pointer
<1>4. (Pending' <=> Pending) /\ (Pending => p'[Dequeuer] = p[Dequeuer])
  BY <1>1, NodeAssumption DEF Pending, IInv, Types
<1>5. ConsumerInv'
  BY <1>1, <1>4 DEF RunInv, ConsumerInv, In, IInv, Types, TypeOK
<1>6. \A u \in Enqueuer : pc'[u] = pc[u] /\ p'[u] = p[u] /\ q'[u] = q[u] /\ n'[u] = n[u]
  BY NodeAssumption DEF IInv, Types, TypeOK, Thread
<1> QED BY <1>1, <1>3, <1>4, <1>5, <1>6, ConsumerMoves

\* The test for an empty queue: if p->next is not NULL, p is not the last node.
LEMMA DequeueEmpty ==
  ASSUME IInv, lf_dequeue_empty(Dequeuer)
  PROVE  IInv'
<1> USE DEF lf_dequeue_empty, shared, heap, history, Goto, Return
<1>1. ~ deinit /\ RunInv /\ Dequeuer \in Thread
  BY DEF IInv, DeinitInv, Joined, Thread
<1>2. next[p[Dequeuer]] # NULL => Len(order) > 1
  BY <1>1, ListFacts DEF RunInv, ConsumerInv, last
<1>3. Types'
  BY <1>1, ListFacts, NodeAssumption DEF IInv, Types, TypeOK, EnqueueLabel, Thread, Pointer
<1>4. (Pending' <=> Pending) /\ (Pending => p'[Dequeuer] = p[Dequeuer])
  BY <1>1, <1>2, NodeAssumption DEF Pending, IInv, Types
<1>5. ConsumerInv'
  BY <1>1, <1>2, <1>4 DEF RunInv, ConsumerInv, In, IInv, Types, TypeOK
<1>6. \A u \in Enqueuer : pc'[u] = pc[u] /\ p'[u] = p[u] /\ q'[u] = q[u] /\ n'[u] = n[u]
  BY NodeAssumption DEF IInv, Types, TypeOK, Thread
<1> QED BY <1>1, <1>3, <1>4, <1>5, <1>6, ConsumerMoves

\* The load of p->next, the second node of the list.
LEMMA DequeueNext ==
  ASSUME IInv, lf_dequeue_next(Dequeuer)
  PROVE  IInv'
<1> USE DEF lf_dequeue_next, shared, heap, history, Goto, Return
<1>1. ~ deinit /\ RunInv /\ Dequeuer \in Thread
  BY DEF IInv, DeinitInv, Joined, Thread
<1>2. next[p[Dequeuer]] = order[2]
  BY SMTT(20), Zenon, <1>1, ListFacts DEF RunInv, ConsumerInv, IInv, Chain
<1>3. Types'
  BY <1>1, ListFacts, NodeAssumption DEF IInv, Types, TypeOK, EnqueueLabel, Thread, Pointer, RunInv, ConsumerInv
<1>4. (Pending' <=> Pending) /\ (Pending => p'[Dequeuer] = p[Dequeuer])
  BY <1>1, <1>2, NodeAssumption DEF Pending, IInv, Types
<1>5. ConsumerInv'
  BY <1>1, <1>2, <1>4 DEF RunInv, ConsumerInv, In, IInv, Types, TypeOK
<1>6. \A u \in Enqueuer : pc'[u] = pc[u] /\ p'[u] = p[u] /\ q'[u] = q[u] /\ n'[u] = n[u]
  BY NodeAssumption DEF IInv, Types, TypeOK, Thread
<1> QED BY <1>1, <1>3, <1>4, <1>5, <1>6, ConsumerMoves

\* The load of the value.
LEMMA DequeueValue ==
  ASSUME IInv, lf_dequeue_value(Dequeuer)
  PROVE  IInv'
<1> USE DEF lf_dequeue_value, shared, heap, history, Goto, Return
<1>1. ~ deinit /\ RunInv /\ Dequeuer \in Thread
  BY DEF IInv, DeinitInv, Joined, Thread
<1>2. q[Dequeuer] = p[Dequeuer]
  BY <1>1 DEF RunInv, ConsumerInv
<1>3. Types'
  BY <1>1, ListFacts, NodeAssumption DEF IInv, Types, TypeOK, EnqueueLabel, Thread, Pointer
<1>4. (Pending' <=> Pending) /\ (Pending => p'[Dequeuer] = p[Dequeuer])
  BY <1>1, <1>2, NodeAssumption DEF Pending, IInv, Types
<1>5. ConsumerInv'
  BY <1>1, <1>2, <1>4 DEF RunInv, ConsumerInv, In, IInv, Types, TypeOK
<1>6. \A u \in Enqueuer : pc'[u] = pc[u] /\ p'[u] = p[u] /\ q'[u] = q[u] /\ n'[u] = n[u]
  BY NodeAssumption DEF IInv, Types, TypeOK, Thread
<1> QED BY <1>1, <1>3, <1>4, <1>5, <1>6, ConsumerMoves

\* The list without its first node.
LEMMA TailFacts ==
  ASSUME order \in Seq(Node), Len(order) > 1, order' = Tail(order),
         \A j, k \in 1 .. Len(order) : order[j] = order[k] => j = k
  PROVE  /\ order' \in Seq(Node) /\ Len(order') = Len(order) - 1 /\ order' # <<>>
         /\ last' = last
         /\ \A k \in 1 .. Len(order) - 1 : order'[k] = order[k + 1]
         /\ \A x : In(x)' <=> In(x) /\ x # order[1]
<1>1. Len(order) \in Nat
  OBVIOUS
<1>2. order' \in Seq(Node) /\ Len(order') = Len(order) - 1
  BY <1>1
<1>3. \A k \in 1 .. Len(order) - 1 : order'[k] = order[k + 1]
  BY <1>1
<1>4. last' = last /\ order' # <<>>
  <2>1. order'[Len(order) - 1] = order[(Len(order) - 1) + 1]
    BY <1>1, <1>3
  <2>2. (Len(order) - 1) + 1 = Len(order) /\ Len(order') # 0
    BY <1>1, <1>2
  <2> QED BY <1>2, <2>1, <2>2 DEF last
<1>5. ASSUME NEW x PROVE In(x)' <=> In(x) /\ x # order[1]
  <2>1. In(x)' <=> \E k \in 1 .. Len(order) - 1 : order[k + 1] = x
    BY <1>2, <1>3 DEF In
  <2>2. ASSUME NEW k \in 1 .. Len(order) - 1, order[k + 1] = x PROVE In(x) /\ x # order[1]
    <3>1. k + 1 \in 1 .. Len(order) /\ k + 1 # 1 /\ 1 \in 1 .. Len(order)
      BY <1>1
    <3> QED BY <2>2, <3>1 DEF In
  <2>3. ASSUME NEW j \in 1 .. Len(order), order[j] = x, x # order[1]
        PROVE  \E k \in 1 .. Len(order) - 1 : order[k + 1] = x
    <3>1. j - 1 \in 1 .. Len(order) - 1 /\ (j - 1) + 1 = j
      BY <1>1, <2>3
    <3> QED BY <3>1, <2>3
  <2> QED BY <2>1, <2>2, <2>3 DEF In
<1> QED BY <1>2, <1>3, <1>4, <1>5

\* The compare_and_swap_ptr that takes the first node from the list; with one
\* consumer it succeeds.
LEMMA DequeueSwing ==
  ASSUME IInv, lf_dequeue_swing(Dequeuer)
  PROVE  IInv'
<1> USE DEF lf_dequeue_swing, heap, Goto
<1>1. ~ deinit /\ RunInv /\ Dequeuer \in Thread
  BY DEF IInv, DeinitInv, Joined, Thread
<1>2. p[Dequeuer] = head /\ Len(order) > 1 /\ n[Dequeuer] = order[2] /\ head = order[1] /\ ~ Pending
  BY <1>1, ListFacts DEF RunInv, ConsumerInv, Pending
<1>3. head' = order[2] /\ order' = Tail(order)
  BY SMTT(20), Zenon, <1>2
<1>4. /\ order' \in Seq(Node) /\ Len(order') = Len(order) - 1 /\ order' # <<>>
      /\ last' = last
      /\ \A k \in 1 .. Len(order) - 1 : order'[k] = order[k + 1]
      /\ \A x : In(x)' <=> In(x) /\ x # order[1]
  BY <1>1, <1>2, <1>3, TailFacts, ListFacts DEF IInv, Chain
<1>5. Len(order) \in Nat /\ order'[1] = order[2] /\ \A k \in 1 .. Len(order) : order[k] \in Node
  <2>1. order \in Seq(Node) /\ Len(order) \in Nat
    BY <1>1, ListFacts
  <2>2. 1 \in 1 .. Len(order) - 1 /\ 1 + 1 = 2
    BY <1>2, <2>1
  <2> HIDE DEF lf_dequeue_swing
  <2> QED BY <1>4, <2>1, <2>2
<1>6. pc'[Dequeuer] = "d_value" /\ Pending' /\ q'[Dequeuer] = p[Dequeuer] /\ p' = p
  BY <1>1, <1>2 DEF Pending, IInv, Types, TypeOK
<1>7. \A u \in Enqueuer : pc'[u] = pc[u] /\ q'[u] = q[u]
  BY NodeAssumption DEF IInv, Types, TypeOK, Thread
<1>8. \A m : Leads(m) => Leads(m)'
  BY <1>2, <1>4, <1>6 DEF Leads
<1>9. Types'
  BY SMTT(20), Zenon, <1>1, <1>2, <1>3, <1>4, <1>5 DEF IInv, Types, TypeOK, EnqueueLabel, Thread, Pointer
<1>10. Chain'
  <2>1. order'[1] = head' /\ next'[last'] = NULL
    BY <1>1, <1>3, <1>4, <1>5, ListFacts, Zenon
  <2>2. \A k \in 1 .. Len(order') : order'[k] \in allocated'
    BY <1>4, <1>5 DEF IInv, Chain
  <2>3. \A k \in 1 .. Len(order') - 1 : next'[order'[k]] = order'[k + 1]
    BY <1>4, <1>5 DEF IInv, Chain
  <2>4. \A j, k \in 1 .. Len(order') : order'[j] = order'[k] => j = k
    BY <1>4, <1>5 DEF IInv, Chain
  <2> QED BY SMTT(20), Zenon, <2>1, <2>2, <2>3, <2>4 DEF Chain
<1>11. ConsumerInv'
  <2>1. next[order[1]] = order[2] /\ order[1] \in allocated
    <3>1. 1 \in 1 .. Len(order) - 1 /\ 1 \in 1 .. Len(order) /\ 1 + 1 = 2
      BY <1>2, <1>5
    <3> QED BY <3>1 DEF IInv, Chain
  <2> QED BY <2>1, <1>2, <1>4, <1>5, <1>6 DEF ConsumerInv
<1>12. UNCHANGED <<tail, next, allocated, mallocs, p, n, deinit>>
  OBVIOUS
<1> HIDE DEF lf_dequeue_swing, heap, Goto
<1> USE <1>12
<1>17. \A u \in Enqueuer : Private(u)' <=> Private(u)
  BY <1>7 DEF Private
<1>16. ASSUME NEW u \in Enqueuer PROVE PointerInv(u)'
  <2>1. PointerInv(u) /\ pc'[u] = pc[u] /\ q'[u] = q[u] /\ (Private(u)' <=> Private(u))
    BY <1>1, <1>7, <1>17 DEF RunInv
  <2>2. pc[u] \in EnqueueLabel \ {"e_tail"} => Leads(p[u])' /\ (p[u] = last' => tail = last')
    BY <2>1, <1>4, <1>8 DEF PointerInv
  <2>3. pc[u] \in EnqueueLabel /\ ~ Private(u) => Leads(q[u])'
    BY <2>1, <1>8 DEF PointerInv
  <2> QED BY SMTT(20), Zenon, <2>1, <2>2, <2>3 DEF PointerInv
<1>13. ASSUME NEW u \in Enqueuer PROVE PrivateInv(u)'
  <2> SUFFICES ASSUME Private(u)
               PROVE  /\ q[u] \in allocated /\ next[q[u]] = NULL
                      /\ ~ In(q[u])' /\ q[u] # p[Dequeuer]
                      /\ \A v \in Enqueuer : Private(v) /\ q[v] = q[u] => v = u
    BY <1>7, <1>17 DEF PrivateInv
  <2>1. PrivateInv(u)
    BY <1>1 DEF RunInv
  <2>2. q[u] # order[1]
    BY <1>1, <1>2, <2>1, ListFacts DEF PrivateInv
  <2>3. ~ In(q[u])' /\ q[u] # p[Dequeuer]
    BY <1>2, <1>4, <1>7, <2>1, <2>2 DEF PrivateInv
  <2> QED BY SMTT(20), Zenon, <2>1, <2>3 DEF PrivateInv
<1>14. TailInv'
  <2>1. tail \in allocated
    BY SMTT(20), Zenon, <1>1, <1>2 DEF RunInv, TailInv
  <2> QED BY <2>1, <1>1, <1>4, <1>6, <1>7, <1>8 DEF RunInv, TailInv
<1>15. NoLeak'
  <2> SUFFICES ASSUME NEW m \in allocated
               PROVE  In(m)' \/ m = p[Dequeuer] \/ \E u \in Enqueuer : pc'[u] \in EnqueueLabel /\ q'[u] = m
    BY <1>6 DEF NoLeak
  <2>1. In(m) \/ \E u \in Enqueuer : pc[u] \in EnqueueLabel /\ q[u] = m
    BY <1>1, <1>2 DEF RunInv, NoLeak
  <2>2. In(m) => In(m)' \/ m = p[Dequeuer]
    BY <1>2, <1>4
  <2> QED BY <2>1, <2>2, <1>7
<1> QED BY <1>1, <1>4, <1>9, <1>10, <1>11, <1>16, <1>13, <1>14, <1>15 DEF IInv, RunInv

\* free(p): when tail was there, the list has one node left.
LEMMA DequeueFree ==
  ASSUME IInv, lf_dequeue_free(Dequeuer)
  PROVE  IInv'
<1> USE DEF lf_dequeue_free, heap, history, Goto, Return
<1>1. ~ deinit /\ RunInv /\ Dequeuer \in Thread
  BY DEF IInv, DeinitInv, Joined, Thread
<1>2. /\ Pending /\ ~ In(p[Dequeuer]) /\ p[Dequeuer] \in allocated /\ next[p[Dequeuer]] = order[1]
      /\ pc'[Dequeuer] = "d_loop" /\ ~ Pending'
  BY <1>1 DEF RunInv, ConsumerInv, Pending, IInv, Types
<1>3. \A u \in Enqueuer : pc'[u] = pc[u] /\ p'[u] = p[u] /\ q'[u] = q[u] /\ n'[u] = n[u]
  BY NodeAssumption DEF IInv, Types, TypeOK, Thread
<1>4. last' = last /\ \A x : In(x)' <=> In(x)
  BY DEF last, In
<1>5. \A m : Leads(m) => Leads(m)'
  BY <1>2, <1>4 DEF Leads
<1>6. Types'
  BY <1>1, NodeAssumption, Zenon DEF IInv, Types, TypeOK, EnqueueLabel, Thread, Pointer
<1>7. Chain'
  BY <1>2, <1>4 DEF IInv, Chain, In
<1>8. ConsumerInv'
  BY <1>2 DEF ConsumerInv
<1>14. UNCHANGED <<head, tail, next, mallocs, order, deinit>> /\ allocated' = allocated \ {p[Dequeuer]}
  OBVIOUS
<1> HIDE DEF lf_dequeue_free, heap, history, Goto, Return
<1> USE <1>14
<1>15. \A u \in Enqueuer : Private(u)' <=> Private(u)
  BY <1>3 DEF Private
<1>9. ASSUME NEW u \in Enqueuer PROVE PointerInv(u)'
  <2>1. /\ PointerInv(u) /\ pc'[u] = pc[u] /\ p'[u] = p[u] /\ q'[u] = q[u] /\ n'[u] = n[u]
        /\ Private(u)' <=> Private(u)
    BY <1>1, <1>3, <1>15 DEF RunInv
  <2>2. pc[u] \in EnqueueLabel \ {"e_tail"} => Leads(p[u])' /\ (p[u] = last' => tail = last')
    BY <2>1, <1>4, <1>5 DEF PointerInv
  <2>3. pc[u] \in EnqueueLabel /\ ~ Private(u) => Leads(q[u])'
    BY <2>1, <1>5 DEF PointerInv
  <2> QED BY <2>1, <2>2, <2>3 DEF PointerInv
<1>10. ASSUME NEW u \in Enqueuer PROVE PrivateInv(u)'
  <2> SUFFICES ASSUME Private(u)
               PROVE  /\ q[u] \in allocated' /\ next[q[u]] = NULL /\ ~ In(q[u])
                      /\ \A v \in Enqueuer : Private(v) /\ q[v] = q[u] => v = u
    BY <1>2, <1>3, <1>4, <1>15 DEF PrivateInv
  <2>1. PrivateInv(u)
    BY <1>1 DEF RunInv
  <2>2. q[u] # p[Dequeuer]
    BY <1>2, <2>1 DEF PrivateInv
  <2> QED BY <2>1, <2>2 DEF PrivateInv
<1>11. tail \notin allocated' => Len(order) = 1
  <2>1. ASSUME tail = p[Dequeuer] PROVE Len(order) = 1
    <3>1. order[1] = last
      BY <2>1, <1>1, <1>2, ListFacts DEF RunInv, TailInv
    <3>2. 1 \in 1 .. Len(order) /\ Len(order) \in 1 .. Len(order)
      BY <1>1, ListFacts
    <3>3. order[1] = order[Len(order)]
      BY <3>1 DEF last
    <3> QED BY <3>2, <3>3, Zenon DEF IInv, Chain
  <2> QED BY <2>1, <1>1 DEF RunInv, TailInv
<1>12. TailInv'
  BY <1>1, <1>3, <1>4, <1>5, <1>11 DEF RunInv, TailInv
<1>13. NoLeak'
  BY <1>1, <1>3, <1>4 DEF RunInv, NoLeak
<1> QED BY <1>1, <1>6, <1>7, <1>8, <1>9, <1>10, <1>12, <1>13 DEF IInv, RunInv

\* An access through a stale pointer is only recorded.
LEMMA DanglingUse ==
  ASSUME IInv, NEW t \in Thread, Dangling(t)
  PROVE  IInv'
<1> USE DEF Dangling, shared, heap, locals
<1>1. Types'
  BY DEF IInv, Types, TypeOK
<1>2. Chain'
  BY DEF IInv, Chain, last
<1>3. ASSUME deinit PROVE DeinitInv'
  BY <1>3 DEF IInv, DeinitInv, Joined, In
<1>4. ASSUME ~ deinit PROVE IInv'
  <2>1. ConsumerInv' /\ (Pending' <=> Pending)
    BY <1>4 DEF IInv, RunInv, ConsumerInv, Pending, In
  <2> QED BY <1>1, <1>4, <2>1, ConsumerMoves
<1> QED BY <1>1, <1>2, <1>3, <1>4 DEF IInv

\* Once the threads are joined every node is in the list.
LEMMA DeinitBegins ==
  ASSUME IInv, Joined
  PROVE  \A m \in allocated : In(m)
<1>1. CASE deinit
  BY <1>1 DEF IInv, DeinitInv
<1>2. CASE ~ deinit
  <2>1. ~ Pending /\ \A t \in Enqueuer : pc[t] \notin EnqueueLabel
    BY DEF Joined, Pending, EnqueueLabel, Thread
  <2> QED BY <1>2, <2>1 DEF IInv, RunInv, NoLeak
<1> QED BY <1>1, <1>2

\* A turn of the loop of lf_queue_deinit frees the second node of the list.
LEMMA DeinitNode ==
  ASSUME IInv, lf_queue_deinit_node
  PROVE  IInv'
<1> USE DEF lf_queue_deinit_node, locals
<1>1. \A m \in allocated : In(m)
  BY DeinitBegins
<1>2. order \in Seq(Node) /\ Len(order) \in Nat /\ order # <<>> /\ Len(order) > 0
  BY <1>1 DEF In, IInv, Types, TypeOK
<1>3. order[1] = head /\ next[last] = NULL
  BY <1>2 DEF IInv, Chain
<1>4. Len(order) > 1
  BY <1>2, <1>3 DEF last
<1>5. next[head] = order[2] /\ order[2] \in Node /\ head \in Node /\ order[2] # head
  <2>1. 1 \in 1 .. Len(order) - 1 /\ 2 \in 1 .. Len(order) /\ 1 \in 1 .. Len(order) /\ 1 + 1 = 2
    BY <1>2, <1>4
  <2>3. \A j, k \in 1 .. Len(order) : order[j] = order[k] => j = k
    BY DEF IInv, Chain
  <2>2. order[1] # order[2]
    BY <2>1, <2>3
  <2> QED BY <1>2, <1>3, <2>1, <2>2 DEF IInv, Chain
<1>6. /\ order' \in Seq(Node) /\ Len(order') = Len(order) - 1
      /\ order'[1] = order[1]
      /\ \A k \in 2 .. Len(order) - 1 : order'[k] = order[k + 1]
  <2>1. Tail(order) \in Seq(Node) /\ Len(Tail(order)) = Len(order) - 1
    BY <1>2, <1>4
  <2>2. /\ Tail(Tail(order)) \in Seq(Node) /\ Len(Tail(Tail(order))) = Len(order) - 2
        /\ \A k \in 1 .. Len(order) - 2 : Tail(Tail(order))[k] = order[k + 2]
    <3> DEFINE s == Tail(order)
    <3>1. /\ s \in Seq(Node) /\ Len(s) = Len(order) - 1
          /\ \A k \in 1 .. Len(order) - 1 : s[k] = order[k + 1]
      BY <1>2, <2>1
    <3> HIDE DEF s
    <3>2. /\ Tail(s) \in Seq(Node) /\ Len(Tail(s)) = Len(s) - 1
          /\ \A k \in 1 .. Len(s) - 1 : Tail(s)[k] = s[k + 1]
      BY <1>2, <1>4, <3>1
    <3>3. ASSUME NEW k \in 1 .. Len(order) - 2 PROVE Tail(s)[k] = order[k + 2]
      <4>1. k \in 1 .. Len(s) - 1 /\ k + 1 \in 1 .. Len(order) - 1 /\ (k + 1) + 1 = k + 2
        BY <1>2, <3>1, <3>3
      <4> QED BY <3>1, <3>2, <4>1
    <3>4. Len(s) - 1 = Len(order) - 2
      BY <1>2, <3>1
    <3> QED BY SMTT(20), Zenon, <3>2, <3>3, <3>4 DEF s
  <2>3. <<Head(order)>> \in Seq(Node) /\ Len(<<Head(order)>>) = 1 /\ <<Head(order)>>[1] = order[1]
    BY <1>2, <1>3, <1>5
  <2>4. order' = <<Head(order)>> \o Tail(Tail(order))
    OBVIOUS
  <2> HIDE DEF lf_queue_deinit_node
  <2>5. order' \in Seq(Node) /\ Len(order') = Len(order) - 1 /\ order'[1] = order[1]
    BY <1>2, <1>4, <2>2, <2>3, <2>4
  <2>6. ASSUME NEW k \in 2 .. Len(order) - 1 PROVE order'[k] = order[k + 1]
    <3>1. k - 1 \in 1 .. Len(order) - 2 /\ (k - 1) + 2 = k + 1 /\ k > 1
      BY <1>2, <2>6
    <3>2. order'[k] = Tail(Tail(order))[k - 1]
      <4> DEFINE a == <<Head(order)>>
                 b == Tail(Tail(order))
      <4>1. a \in Seq(Node) /\ b \in Seq(Node) /\ Len(a) = 1 /\ Len(b) = Len(order) - 2 /\ order' = a \o b
        BY <2>2, <2>3, <2>4
      <4> HIDE DEF a, b
      <4>2. \A j \in 1 .. Len(a) + Len(b) : (a \o b)[j] = IF j <= Len(a) THEN a[j] ELSE b[j - Len(a)]
        BY <4>1, Concatenation, Zenon
      <4>3. k \in 1 .. Len(a) + Len(b) /\ ~ (k <= Len(a)) /\ k - Len(a) = k - 1
        BY <1>2, <3>1, <4>1
      <4> QED BY <4>1, <4>2, <4>3, Zenon DEF b
    <3> QED BY <3>1, <3>2, <2>2
  <2> QED BY <2>5, <2>6
<1>7. allocated' = allocated \ {order[2]} /\ next' = [next EXCEPT ![head] = next[order[2]]]
  BY <1>5
<1>8. Types'
  <2>1. next[order[2]] \in Pointer
    BY <1>5, Zenon DEF IInv, Types, TypeOK
  <2> QED BY <1>6, <1>7, <2>1, Zenon DEF IInv, Types, TypeOK
<1> HIDE DEF lf_queue_deinit_node
<1>9. \A k \in 1 .. Len(order) : order[k] \in Node /\ order[k] \in allocated
  BY <1>2 DEF IInv, Chain
<1>10. \A j, k \in 1 .. Len(order) : order[j] = order[k] => j = k
  BY DEF IInv, Chain
<1>11. \A k \in 1 .. Len(order) - 1 : next[order[k]] = order[k + 1]
  BY DEF IInv, Chain
<1>12. \A k \in 1 .. Len(order') : order'[k] = order[IF k = 1 THEN 1 ELSE k + 1]
  BY <1>2, <1>6
<1>13. head' = head /\ deinit' /\ pc' = pc
  BY DEF lf_queue_deinit_node
<1>14. next \in [Node -> Pointer]
  BY DEF IInv, Types, TypeOK
<1>15. Chain'
  <2>1. \A k \in 1 .. Len(order') : order'[k] \in allocated'
    BY SMTT(20), Zenon, <1>2, <1>4, <1>6, <1>7, <1>9, <1>10, <1>12
  <2>2. \A j, k \in 1 .. Len(order') : order'[j] = order'[k] => j = k
    BY <1>2, <1>4, <1>6, <1>10, <1>12
  <2>3. ASSUME NEW k \in 1 .. Len(order') - 1 PROVE next'[order'[k]] = order'[k + 1]
    <3>1. order'[k + 1] = order[k + 2] /\ k + 2 \in 3 .. Len(order) /\ k + 1 \in 2 .. Len(order) - 1
      BY <1>2, <1>4, <1>6, <2>3
    <3>2. CASE k = 1
      <4>1. next'[head] = next[order[2]]
        BY <1>5, <1>7, <1>14
      <4>2. next[order[2]] = order[3]
        BY <3>1, <3>2, <1>11, <1>2
      <4> QED BY <4>1, <4>2, <3>1, <3>2, <1>3, <1>6
    <3>3. CASE k # 1
      <4>1. order'[k] = order[k + 1] /\ order[k + 1] # order[1] /\ order[k + 1] \in Node
        BY <1>2, <1>6, <1>9, <1>10, <2>3, <3>1, <3>3
      <4>2. next[order[k + 1]] = order[(k + 1) + 1] /\ (k + 1) + 1 = k + 2
        BY <1>2, <1>11, <2>3, <3>1
      <4> QED BY <4>1, <4>2, <3>1, <1>3, <1>7, <1>14
    <3> QED BY <3>2, <3>3
  <2>4. next'[last'] = NULL
    <3>1. CASE Len(order) = 2
      <4>1. last = order[2] /\ last' = head
        BY <3>1, <1>3, <1>6 DEF last
      <4> QED BY <4>1, <1>3, <1>5, <1>7, <1>14
    <3>2. CASE Len(order) # 2
      <4>1. last' = order[Len(order)] /\ order[Len(order)] # order[1] /\ order[Len(order)] \in Node
        BY <3>2, <1>2, <1>4, <1>6, <1>9, <1>10, <1>12 DEF last
      <4> QED BY <4>1, <1>3, <1>7, <1>14 DEF last
    <3> QED BY <3>1, <3>2
  <2> QED BY <1>3, <1>6, <1>13, <2>1, <2>2, <2>3, <2>4 DEF Chain
<1>16. DeinitInv'
  <2>1. ASSUME NEW m \in allocated' PROVE In(m)'
    <3>1. PICK k \in 1 .. Len(order) : order[k] = m
      BY <2>1, <1>1, <1>7 DEF In
    <3>2. k # 2
      BY <3>1, <2>1, <1>7
    <3>3. CASE k = 1
      BY <3>1, <3>3, <1>2, <1>4, <1>6 DEF In
    <3>4. CASE k # 1
      <4>1. k - 1 \in 1 .. Len(order') /\ k - 1 # 1 /\ (k - 1) + 1 = k
        BY <3>2, <3>4, <1>2, <1>6
      <4> QED BY <3>1, <4>1, <1>12 DEF In
    <3> QED BY <3>3, <3>4
  <2>2. Joined'
    BY <1>13 DEF lf_queue_deinit_node, Joined
  <2>3. order' # <<>>
    BY <1>2, <1>4, <1>6
  <2> QED BY <2>1, <2>2, <2>3 DEF DeinitInv
<1> QED BY <1>8, <1>13, <1>15, <1>16 DEF IInv

\* free(lf->head): it is the only node left.
LEMMA DeinitHead ==
  ASSUME IInv, lf_queue_deinit_head
  PROVE  IInv'
<1> USE DEF lf_queue_deinit_head, locals
<1>1. \A m \in allocated : In(m)
  BY DeinitBegins
<1>2. order \in Seq(Node) /\ Len(order) \in Nat /\ order # <<>> /\ Len(order) > 0
  BY <1>1 DEF In, IInv, Types, TypeOK
<1>3. Len(order) = 1
  <2>1. ASSUME Len(order) > 1 PROVE FALSE
    <3>1. 1 \in 1 .. Len(order) - 1 /\ 1 + 1 = 2 /\ 2 \in 1 .. Len(order)
      BY <1>2, <2>1
    <3>2. next[order[1]] = order[2] /\ order[1] = head
      BY <1>2, <3>1 DEF IInv, Chain
    <3> QED BY <1>2, <3>1, <3>2, NodeAssumption DEF Node
  <2>2. \A k \in Nat : k > 0 /\ ~ (k > 1) => k = 1
    OBVIOUS
  <2> QED BY <1>2, <2>1, <2>2, Zenon
<1>4. allocated' = {}
  BY <1>1, <1>2, <1>3 DEF In, IInv, Chain
<1>5. Types'
  BY <1>4 DEF IInv, Types, TypeOK
<1>6. Chain' /\ DeinitInv'
  BY <1>4 DEF Chain, DeinitInv, Joined
<1> QED BY <1>5, <1>6 DEF IInv

\* A step that changes nothing.
LEMMA Stutters ==
  ASSUME IInv, UNCHANGED vars
  PROVE  IInv'
<1> USE DEF vars, shared, heap, locals, history
<1>1. Types'
  BY DEF IInv, Types, TypeOK
<1>2. Chain'
  BY DEF IInv, Chain, last
<1>3. ASSUME deinit PROVE DeinitInv'
  BY <1>3 DEF IInv, DeinitInv, Joined, In
<1>4. ASSUME ~ deinit PROVE IInv'
  <2>1. ConsumerInv' /\ (Pending' <=> Pending)
    BY <1>4 DEF IInv, RunInv, ConsumerInv, Pending, In
  <2> QED BY <1>1, <1>4, <2>1, ConsumerMoves
<1> QED BY <1>1, <1>2, <1>3, <1>4 DEF IInv

\* Every step of every thread, and of main.
LEMMA NextIInv ==
  ASSUME IInv, [Next]_vars
  PROVE  IInv'
<1>1. ASSUME NEW t \in Thread, lf_enqueue(t) PROVE IInv'
  <2>1. t \in Enqueuer
    BY <1>1 DEF IInv, Types, Thread, EnqueueLabel, lf_enqueue, lf_enqueue_alloc, lf_enqueue_tail, lf_enqueue_link,
       lf_enqueue_check, lf_enqueue_next, lf_enqueue_help, lf_enqueue_swing
  <2>2. ASSUME lf_enqueue_alloc(t) PROVE IInv'
    BY <2>1, <2>2, EnqueueAllocates, EnqueueReturns DEF lf_enqueue_alloc
  <2>3. ASSUME lf_enqueue_link(t) PROVE IInv'
    BY <2>1, <2>3, EnqueueLinks, EnqueueLinkFails
  <2> QED BY <1>1, <2>1, <2>2, <2>3, EnqueueTail, EnqueueCheck, EnqueueNext, EnqueueHelp, EnqueueSwing
      DEF lf_enqueue
<1>2. ASSUME NEW t \in Thread, lf_dequeue(t) PROVE IInv'
  <2>1. t = Dequeuer
    BY <1>2 DEF IInv, Types, Thread, EnqueueLabel, lf_dequeue, lf_dequeue_head, lf_dequeue_empty, lf_dequeue_next,
       lf_dequeue_swing, lf_dequeue_value, lf_dequeue_free
  <2> QED BY <1>2, <2>1, DequeueHead, DequeueEmpty, DequeueNext, DequeueSwing, DequeueValue, DequeueFree
      DEF lf_dequeue
<1>3. ASSUME Deinit PROVE IInv'
  BY <1>3, DeinitNode, DeinitHead DEF Deinit
<1> QED BY <1>1, <1>2, <1>3, DanglingUse, Stutters DEF Next, ThreadStep

\* While no stale pointer has been used, any number of producers and the
\* consumer leave the list as the links say it is, and lf_queue_deinit frees
\* all of it.
THEOREM LFQueueListIntact == Spec => []ListIntact
<1>1. IInv => ListIntact
  <2> SUFFICES ASSUME IInv PROVE ListIntact
    OBVIOUS
  <2>1. TypeOK /\ Chain
    BY DEF IInv, Types
  <2>2. ASSUME head \notin allocated PROVE allocated = {}
    <3>1. CASE order = <<>>
      <4>1. deinit
        BY <3>1 DEF IInv, RunInv
      <4> QED BY <4>1, <3>1 DEF IInv, DeinitInv, In
    <3>2. CASE order # <<>>
      <4>1. order[1] = head /\ order \in Seq(Node)
        BY <2>1, <3>2 DEF Chain, TypeOK
      <4>2. 1 \in 1 .. Len(order)
        BY <3>2, <4>1
      <4> QED BY <2>1, <2>2, <4>1, <4>2 DEF Chain
    <3> QED BY <3>1, <3>2
  <2> QED BY <2>1, <2>2 DEF Chain, ListIntact
<1> QED BY <1>1, InitIInv, NextIInv, PTL DEF Spec

\* tail is at the last node or the one before it, also when lf_dequeue has
\* freed the node it is at, and it is the last one when no enqueue is between
\* linking its node and moving tail.
THEOREM LFQueueTailNearEnd == Spec => []TailNearEnd
<1>1. IInv => TailNearEnd
  BY DEF IInv, RunInv, TailInv, TailNearEnd
<1> QED BY <1>1, InitIInv, NextIInv, PTL DEF Spec
Value == {Garbage} \cup (Enqueuer \X Nat)

\* The first node of order whose value is still to be returned.
First == IF pc[Dequeuer] = "d_value" THEN 1 ELSE 2

\* What was linked is what was returned, then the values from First on.
Aligned ==
    /\ Len(linked) = Len(taken) + Len(order) - (First - 1)
    /\ \A k \in 1 .. Len(taken) : linked[k] = taken[k]
    /\ \A k \in First .. Len(order) : linked[Len(taken) + k - (First - 1)] = value[order[k]]

HistoryInv ==
    /\ value \in [Node -> Value] /\ i \in [Thread -> Nat]
    /\ linked \in Seq(Value) /\ taken \in Seq(Value)
    /\ ~ deinit => Aligned

\* A sequence with one more element, which linked and taken are.
LEMMA OneMore ==
  ASSUME NEW S, NEW s \in Seq(S), NEW e \in S
  PROVE  /\ Append(s, e) \in Seq(S) /\ Len(Append(s, e)) = Len(s) + 1
         /\ \A k \in 1 .. Len(s) : Append(s, e)[k] = s[k]
         /\ Append(s, e)[Len(s) + 1] = e
OBVIOUS

\* Sequences with the same elements.
LEMMA SameSequence ==
  ASSUME NEW S, NEW s1 \in Seq(S), NEW s2 \in Seq(S), Len(s1) = Len(s2),
         \A k \in 1 .. Len(s1) : s1[k] = s2[k]
  PROVE  s1 = s2
OBVIOUS

\* The two values of lf_queue_init are never written.
LEMMA InitHistory == Init => HistoryInv
<1> SUFFICES ASSUME Init PROVE HistoryInv
  OBVIOUS
<1> USE DEF Init, lf_queue_init
<1>1. Garbage \in Value
  BY DEF Value
<1>2. linked \in Seq(Value) /\ taken \in Seq(Value) /\ Len(linked) = 1 /\ Len(taken) = 0 /\ linked[1] = Garbage
  BY <1>1
<1>3. Len(order) = 2 /\ order[2] = 2 /\ 2 \in Node
  BY NodeAssumption DEF Node
<1>4. First = 2
  BY NodeAssumption DEF First, Thread
<1> QED BY <1>1, <1>2, <1>3, <1>4 DEF HistoryInv, Aligned

\* A step that neither links nor takes.
LEMMA HistoryKept ==
  ASSUME HistoryInv, UNCHANGED <<value, linked, taken, order, deinit>>, i' \in [Thread -> Nat],
         ~ deinit => First' = First
  PROVE  HistoryInv'
<1>1. ~ deinit' => Aligned'
  BY DEF HistoryInv, Aligned
<1> QED BY <1>1 DEF HistoryInv

\* A new node is not in the list, so that the values there stay.
LEMMA HistoryAlloc ==
  ASSUME IInv, HistoryInv, NEW t \in Enqueuer, lf_enqueue_alloc(t)
  PROVE  HistoryInv'
<1> USE DEF lf_enqueue_alloc, history, Goto
<1>1. ~ deinit /\ t \in Thread
  BY DEF IInv, DeinitInv, Joined, Thread
<1>2. First' = First /\ i' = i
  BY <1>1, NodeAssumption DEF First, IInv, Types, Thread
<1>3. CASE i[t] >= ITERATIONS /\ UNCHANGED value
  BY <1>2, <1>3, HistoryKept DEF HistoryInv
<1>4. ASSUME NEW m \in Node, malloc(m), value' = [value EXCEPT ![m] = <<t, i[t]>>]
      PROVE  HistoryInv'
  <2>1. <<t, i[t]>> \in Value
    BY <1>1 DEF Value, HistoryInv
  <2>2. value' \in [Node -> Value]
    BY <1>4, <2>1 DEF HistoryInv
  <2>3. m \notin allocated
    BY <1>4 DEF malloc, IInv, Types, TypeOK, Node
  <2>4. \A k \in 1 .. Len(order) : order[k] \in Node /\ order[k] # m
    BY <1>1, <2>3, ListFacts DEF IInv, Chain, In
  <2>5. \A k \in 1 .. Len(order) : value'[order[k]] = value[order[k]]
    BY <1>4, <2>4 DEF HistoryInv
  <2>6. Aligned
    BY <1>1 DEF HistoryInv
  <2>7. \A k \in First .. Len(order) : k \in 1 .. Len(order)
    BY <1>1, ListFacts DEF First
  <2>8. Aligned'
    BY <1>2, <2>5, <2>6, <2>7 DEF Aligned
  <2> QED BY <1>2, <2>2, <2>8 DEF HistoryInv
<1> QED BY <1>3, <1>4

\* The node that is linked comes last in both histories.
LEMMA HistoryLink ==
  ASSUME IInv, HistoryInv, NEW t \in Enqueuer, lf_enqueue_link(t), next[p[t]] = NULL
  PROVE  HistoryInv'
<1> USE DEF lf_enqueue_link, heap, Goto
<1>1. ~ deinit /\ RunInv /\ t \in Thread
  BY DEF IInv, DeinitInv, Joined, Thread
<1>2. q[t] \in Node /\ value[q[t]] \in Value
  BY <1>1, ListFacts DEF RunInv, PointerInv, EnqueueLabel, HistoryInv
<1>3. First' = First /\ First \in 1 .. 2
  BY <1>1, NodeAssumption DEF First, IInv, Types, Thread
<1>8. linked' = Append(linked, value[q[t]]) /\ order' = Append(order, q[t])
  OBVIOUS
<1>9. UNCHANGED <<value, taken, i, deinit>>
  OBVIOUS
<1> HIDE DEF lf_enqueue_link
<1>4. /\ linked' \in Seq(Value) /\ Len(linked') = Len(linked) + 1
      /\ \A k \in 1 .. Len(linked) : linked'[k] = linked[k]
      /\ linked'[Len(linked) + 1] = value[q[t]]
  BY <1>2, <1>8, OneMore DEF HistoryInv
<1>5. /\ Len(order') = Len(order) + 1 /\ order'[Len(order) + 1] = q[t]
      /\ \A k \in 1 .. Len(order) : order'[k] = order[k]
  BY <1>1, <1>2, <1>8, ListFacts, AppendFacts
<1>6. Len(order) \in Nat /\ Len(order) > 0 /\ Len(taken) \in Nat /\ Len(linked) \in Nat /\ Aligned
  BY <1>1, ListFacts DEF HistoryInv
<1>7. Aligned'
  <2>1. Len(linked') = Len(taken') + Len(order') - (First' - 1)
    BY <1>3, <1>4, <1>5, <1>6, <1>9 DEF Aligned
  <2>2. \A k \in 1 .. Len(taken') : linked'[k] = taken'[k]
    BY <1>3, <1>4, <1>6, <1>9 DEF Aligned
  <2>3. ASSUME NEW k \in First' .. Len(order')
        PROVE  linked'[Len(taken') + k - (First' - 1)] = value'[order'[k]]
    <3>1. CASE k = Len(order) + 1
      <4>1. Len(taken) + k - (First - 1) = Len(linked) + 1
        BY <3>1, <1>3, <1>6 DEF Aligned
      <4> QED BY <3>1, <4>1, <1>3, <1>4, <1>5, <1>9
    <3>2. CASE k \in First .. Len(order)
      <4>1. Len(taken) + k - (First - 1) \in 1 .. Len(linked) /\ k \in 1 .. Len(order)
        BY <3>2, <1>3, <1>6 DEF Aligned
      <4>2. linked[Len(taken) + k - (First - 1)] = value[order[k]]
        BY <3>2, <1>6 DEF Aligned
      <4> QED BY <4>1, <4>2, <1>3, <1>4, <1>5, <1>9
    <3> QED BY <3>1, <3>2, <2>3, <1>3, <1>5, <1>6
  <2> QED BY <2>1, <2>2, <2>3 DEF Aligned
<1> QED BY <1>4, <1>7, <1>9 DEF HistoryInv

\* The first node leaves the list; the value of the next one is due.
LEMMA HistorySwing ==
  ASSUME IInv, HistoryInv, lf_dequeue_swing(Dequeuer)
  PROVE  HistoryInv'
<1> USE DEF lf_dequeue_swing, heap, Goto
<1>1. ~ deinit /\ RunInv /\ Dequeuer \in Thread
  BY DEF IInv, DeinitInv, Joined, Thread
<1>2. p[Dequeuer] = head /\ Len(order) > 1
  BY <1>1 DEF RunInv, ConsumerInv
<1>3. /\ Len(order') = Len(order) - 1
      /\ \A k \in 1 .. Len(order) - 1 : order'[k] = order[k + 1]
  BY SMTT(20), Zenon, <1>1, <1>2, TailFacts, ListFacts DEF IInv, Chain
<1>4. First = 2 /\ First' = 1
  BY <1>1 DEF First, IInv, Types
<1>5. Len(order) \in Nat /\ Len(taken) \in Nat /\ Len(linked) \in Nat /\ Aligned
  BY <1>1, ListFacts DEF HistoryInv
<1>6. UNCHANGED <<value, linked, taken, i, deinit>>
  OBVIOUS
<1> HIDE DEF lf_dequeue_swing
<1>7. Aligned'
  <2>1. Len(linked') = Len(taken') + Len(order') - (First' - 1)
    BY <1>3, <1>4, <1>5, <1>6 DEF Aligned
  <2>2. ASSUME NEW k \in First' .. Len(order')
        PROVE  linked'[Len(taken') + k - (First' - 1)] = value'[order'[k]]
    <3>1. k + 1 \in First .. Len(order) /\ k \in 1 .. Len(order) - 1
      BY <2>2, <1>3, <1>4, <1>5
    <3>2. linked[Len(taken) + (k + 1) - (First - 1)] = value[order[k + 1]]
      BY <3>1, <1>5 DEF Aligned
    <3>3. Len(taken) + (k + 1) - (First - 1) = Len(taken') + k - (First' - 1)
      BY <3>1, <1>4, <1>5, <1>6
    <3> QED BY <3>1, <3>2, <3>3, <1>3, <1>6
  <2> QED BY <2>1, <2>2, <1>5, <1>6 DEF Aligned
<1> QED BY <1>6, <1>7 DEF HistoryInv

\* p->next is the first node of the list, and its value is the one due.
LEMMA HistoryValue ==
  ASSUME IInv, HistoryInv, lf_dequeue_value(Dequeuer)
  PROVE  HistoryInv'
<1> USE DEF lf_dequeue_value, shared, heap, Goto
<1>1. ~ deinit /\ RunInv /\ Dequeuer \in Thread
  BY DEF IInv, DeinitInv, Joined, Thread
<1>2. q[Dequeuer] = p[Dequeuer] /\ next[p[Dequeuer]] = order[1]
  BY <1>1 DEF RunInv, ConsumerInv, Pending
<1>3. First = 1 /\ First' = 2
  BY <1>1, <1>2 DEF First, IInv, Types
<1>4. order[1] \in Node /\ value[order[1]] \in Value
  BY <1>1, ListFacts DEF HistoryInv
<1>5. taken' = Append(taken, value[order[1]])
  BY <1>2
<1>6. UNCHANGED <<value, linked, order, i, deinit>>
  OBVIOUS
<1> HIDE DEF lf_dequeue_value
<1>7. /\ taken' \in Seq(Value) /\ Len(taken') = Len(taken) + 1
      /\ \A k \in 1 .. Len(taken) : taken'[k] = taken[k]
      /\ taken'[Len(taken) + 1] = value[order[1]]
  BY <1>4, <1>5, OneMore DEF HistoryInv
<1>8. Len(order) \in Nat /\ Len(order) > 0 /\ Len(taken) \in Nat /\ Len(linked) \in Nat /\ Aligned
  BY <1>1, ListFacts DEF HistoryInv
<1>9. linked[Len(taken) + 1] = value[order[1]]
  <2>1. 1 \in First .. Len(order) /\ Len(taken) + 1 - (First - 1) = Len(taken) + 1
    BY <1>3, <1>8
  <2> QED BY <2>1, <1>8 DEF Aligned
<1>10. Aligned'
  <2>1. Len(linked') = Len(taken') + Len(order') - (First' - 1)
    BY <1>3, <1>6, <1>7, <1>8 DEF Aligned
  <2>2. ASSUME NEW k \in 1 .. Len(taken') PROVE linked'[k] = taken'[k]
    <3>1. CASE k = Len(taken) + 1
      BY <3>1, <1>6, <1>7, <1>9
    <3>2. CASE k \in 1 .. Len(taken)
      BY <3>2, <1>6, <1>7, <1>8 DEF Aligned
    <3> QED BY <3>1, <3>2, <2>2, <1>7, <1>8
  <2>3. ASSUME NEW k \in First' .. Len(order')
        PROVE  linked'[Len(taken') + k - (First' - 1)] = value'[order'[k]]
    <3>1. k \in First .. Len(order) /\ Len(taken') + k - (First' - 1) = Len(taken) + k - (First - 1)
      BY <2>3, <1>3, <1>6, <1>7, <1>8
    <3> QED BY <3>1, <1>6, <1>8 DEF Aligned
  <2> QED BY <2>1, <2>2, <2>3 DEF Aligned
<1> QED BY <1>6, <1>7, <1>10 DEF HistoryInv

\* Every step keeps the histories in line; once lf_queue_deinit has begun they
\* do not change.
LEMMA NextHistory ==
  ASSUME IInv, HistoryInv, [Next]_vars
  PROVE  HistoryInv'
<1>1. ASSUME NEW t \in Thread, lf_enqueue(t) PROVE HistoryInv'
  <2>1. t \in Enqueuer
    BY <1>1 DEF IInv, Types, Thread, EnqueueLabel, lf_enqueue, lf_enqueue_alloc, lf_enqueue_tail, lf_enqueue_link,
       lf_enqueue_check, lf_enqueue_next, lf_enqueue_help, lf_enqueue_swing
  <2>2. ASSUME \/ lf_enqueue_tail(t)
               \/ lf_enqueue_link(t) /\ next[p[t]] # NULL
               \/ lf_enqueue_check(t) \/ lf_enqueue_next(t) \/ lf_enqueue_help(t) \/ lf_enqueue_swing(t)
        PROVE  HistoryInv'
    <3>1. UNCHANGED <<value, linked, taken, order, deinit>>
      BY <2>2 DEF lf_enqueue_tail, lf_enqueue_link, lf_enqueue_check, lf_enqueue_next, lf_enqueue_help,
         lf_enqueue_swing, shared, history
    <3>2. i' \in [Thread -> Nat]
      <4>1. i' = i \/ i' = [i EXCEPT ![t] = @ + 1]
        BY SMTT(20), Zenon, <2>2 DEF lf_enqueue_tail, lf_enqueue_link, lf_enqueue_check, lf_enqueue_next, lf_enqueue_help,
           lf_enqueue_swing
      <4> QED BY SMTT(20), Zenon, <4>1 DEF HistoryInv
    <3>3. pc'[Dequeuer] = pc[Dequeuer]
      BY <2>1, <2>2, NodeAssumption DEF IInv, Types, Thread, Goto, Return, lf_enqueue_tail, lf_enqueue_link,
         lf_enqueue_check, lf_enqueue_next, lf_enqueue_help, lf_enqueue_swing
    <3> QED BY SMTT(20), Zenon, <3>1, <3>2, <3>3, HistoryKept DEF First
  <2> QED BY <1>1, <2>1, <2>2, HistoryAlloc, HistoryLink DEF lf_enqueue
<1>2. ASSUME NEW t \in Thread, lf_dequeue(t) PROVE HistoryInv'
  <2>1. t = Dequeuer
    BY <1>2 DEF IInv, Types, Thread, EnqueueLabel, lf_dequeue, lf_dequeue_head, lf_dequeue_empty, lf_dequeue_next,
       lf_dequeue_swing, lf_dequeue_value, lf_dequeue_free
  <2>2. ASSUME lf_dequeue_head(t) \/ lf_dequeue_empty(t) \/ lf_dequeue_next(t) \/ lf_dequeue_free(t)
        PROVE  HistoryInv'
    <3>1. UNCHANGED <<value, linked, taken, order, deinit>>
      BY <2>2 DEF lf_dequeue_head, lf_dequeue_empty, lf_dequeue_next, lf_dequeue_free, shared, history
    <3>2. i' \in [Thread -> Nat]
      BY SMTT(20), Zenon, <2>2 DEF HistoryInv, lf_dequeue_head, lf_dequeue_empty, lf_dequeue_next, lf_dequeue_free
    <3>3. pc[Dequeuer] # "d_value" /\ pc'[Dequeuer] # "d_value"
      BY SMTT(20), Zenon, <2>1, <2>2 DEF IInv, Types, Goto, Return, lf_dequeue_head, lf_dequeue_empty, lf_dequeue_next, lf_dequeue_free
    <3> QED BY <3>1, <3>2, <3>3, HistoryKept DEF First
  <2> QED BY SMTT(20), Zenon, <1>2, <2>1, <2>2, HistorySwing, HistoryValue DEF lf_dequeue
<1>3. ASSUME NEW t \in Thread, Dangling(t) PROVE HistoryInv'
  BY Zenon, <1>3, HistoryKept DEF Dangling, shared, locals, First, HistoryInv
<1>4. ASSUME Deinit PROVE HistoryInv'
  BY <1>4 DEF Deinit, lf_queue_deinit_node, lf_queue_deinit_head, locals, HistoryInv
<1>5. ASSUME UNCHANGED vars PROVE HistoryInv'
  BY <1>5, HistoryKept DEF vars, shared, locals, history, First, HistoryInv
<1> QED BY <1>1, <1>2, <1>3, <1>4, <1>5 DEF Next, ThreadStep

\* While no stale pointer has been used, lf_dequeue returns the values in the
\* order in which lf_enqueue linked them, each once: what was linked is what
\* was returned followed by what the list still holds.
THEOREM LFQueueFIFO == Spec => []FIFO
<1>1. IInv /\ HistoryInv => FIFO
  <2> SUFFICES ASSUME IInv, HistoryInv, ~ deinit, pc[Dequeuer] # "d_value"
               PROVE  linked = taken \o [k \in 1 .. Len(order) - 1 |-> value[order[k + 1]]]
    BY Zenon DEF FIFO
  <2> DEFINE rest == [k \in 1 .. Len(order) - 1 |-> value[order[k + 1]]]
  <2>1. /\ Len(order) \in Nat /\ Len(order) > 0 /\ Aligned /\ First = 2
        /\ linked \in Seq(Value) /\ taken \in Seq(Value) /\ Len(taken) \in Nat /\ Len(linked) \in Nat
    BY ListFacts DEF HistoryInv, First
  <2>2. \A k \in 1 .. Len(order) - 1 : value[order[k + 1]] \in Value
    <3>1. \A k \in 1 .. Len(order) : order[k] \in Node
      BY ListFacts
    <3> QED BY <2>1, <3>1 DEF HistoryInv
  <2>3. rest \in Seq(Value) /\ Len(rest) = Len(order) - 1
    BY <2>1, <2>2
  <2>4. \A k \in 1 .. Len(order) - 1 : rest[k] = value[order[k + 1]]
    OBVIOUS
  <2> HIDE DEF rest
  <2>5. /\ taken \o rest \in Seq(Value) /\ Len(taken \o rest) = Len(taken) + Len(rest)
        /\ \A k \in 1 .. Len(taken) + Len(rest) :
              (taken \o rest)[k] = IF k <= Len(taken) THEN taken[k] ELSE rest[k - Len(taken)]
    BY <2>1, <2>3, Concatenation, Zenon
  <2>6. Len(linked) = Len(taken \o rest)
    BY <2>1, <2>3, <2>5 DEF Aligned
  <2>7. ASSUME NEW k \in 1 .. Len(linked) PROVE linked[k] = (taken \o rest)[k]
    <3>1. k \in 1 .. Len(taken) + Len(rest)
      BY <2>5, <2>6
    <3>2. CASE k <= Len(taken)
      BY <3>1, <3>2, <2>1, <2>5 DEF Aligned
    <3>3. CASE ~ (k <= Len(taken))
      <4>1. k - Len(taken) \in 1 .. Len(order) - 1 /\ (k - Len(taken)) + 1 \in 2 .. Len(order)
        BY <3>1, <3>3, <2>1, <2>3
      <4>2. Len(taken) + ((k - Len(taken)) + 1) - (First - 1) = k
        BY <2>1
      <4>3. linked[k] = value[order[(k - Len(taken)) + 1]]
        BY <4>1, <4>2, <2>1 DEF Aligned
      <4> QED BY <3>1, <3>3, <4>1, <4>3, <2>4, <2>5
    <3> QED BY <3>2, <3>3, Zenon
  <2> QED BY <2>1, <2>5, <2>6, <2>7, SameSequence, Zenon DEF rest
<1> QED BY <1>1, InitIInv, NextIInv, InitHistory, NextHistory, PTL DEF Spec
=============================================================================
