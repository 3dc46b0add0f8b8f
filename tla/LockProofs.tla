----------------------------- MODULE LockProofs -----------------------------
(***************************************************************************)
(* The locks of sync_tools/locking.c, for any set of threads: the spin     *)
(* lock excludes and the counter it protects loses no update; the barrier  *)
(* is safe for any width of int and any number of calls, and implements    *)
(* AbstractBarrier; the reader-writer lock excludes writers from everybody *)
(* and counts its readers exactly.  Then the driver: none of the exercises *)
(* that use the locks one after another finds an error.                    *)
(***************************************************************************)
EXTENDS Driver, FiniteSetTheorems, TLAPS

\* The state after spinlock_init and before any thread runs.
LEMMA SpinInitIInv == SpinInit => SpinIInv
BY IterationsAssumption
DEF SpinInit, SpinIInv, SpinTypeOK, MutualExclusion, NoLostUpdate, SpinInv, Critical

\* Every step of ex3_fn keeps the inductive invariant.
LEMMA SpinNextIInv == SpinIInv /\ [SpinNext]_svars => SpinIInv'
<1> SUFFICES ASSUME SpinIInv, [SpinNext]_svars PROVE SpinIInv'
  OBVIOUS
<1> USE DEF SpinIInv, SpinTypeOK, MutualExclusion, NoLostUpdate, SpinInv, Critical
<1> USE IterationsAssumption
<1>1. ASSUME NEW t \in Thread, ex3_loop(t) PROVE SpinIInv'
  BY <1>1 DEF ex3_loop
<1>2. ASSUME NEW t \in Thread, spinlock_lock(t) PROVE SpinIInv'
  BY <1>2 DEF spinlock_lock, compare_and_swap
<1>3. ASSUME NEW t \in Thread, ex3_load(t) PROVE SpinIInv'
  BY <1>3 DEF ex3_load
<1>4. ASSUME NEW t \in Thread, ex3_store(t) PROVE SpinIInv'
  BY <1>4 DEF ex3_store
<1>5. ASSUME NEW t \in Thread, spinlock_unlock(t) PROVE SpinIInv'
  BY <1>5 DEF spinlock_unlock
<1>6. CASE UNCHANGED svars
  BY <1>6 DEF svars
<1> QED
  BY <1>1, <1>2, <1>3, <1>4, <1>5, <1>6 DEF SpinNext, ex3_fn, Terminated

\* spinlock_lock and spinlock_unlock keep the variables in their types.
THEOREM SpinlockTypeCorrect == SpinSpec => []SpinTypeOK
<1>1. SpinIInv => SpinTypeOK BY DEF SpinIInv
<1> QED BY <1>1, SpinInitIInv, SpinNextIInv, PTL DEF SpinSpec

\* The compare_and_swap of spinlock_lock lets one thread at a time past it.
THEOREM SpinlockMutualExclusion == SpinSpec => []MutualExclusion
<1>1. SpinIInv => MutualExclusion BY DEF SpinIInv
<1> QED BY <1>1, SpinInitIInv, SpinNextIInv, PTL DEF SpinSpec

\* The load and store of ex3_fn are atomic under the lock: the counter is the
\* number of increments.
THEOREM SpinlockNoLostUpdate == SpinSpec => []NoLostUpdate
<1>1. SpinIInv => NoLostUpdate BY DEF SpinIInv
<1> QED BY <1>1, SpinInitIInv, SpinNextIInv, PTL DEF SpinSpec

-----------------------------------------------------------------------------
BarrierIInv == BarrierTypeOK /\ OnePhase

\* An XADD of 1 stays an int and never returns to the value it started from.
LEMMA AddOne == \A v \in int : atomic_add(v) \in int /\ atomic_add(v) # v
BY IntAssumption DEF int, atomic_add

\* One more thread has arrived: what the XADD of barrier_arrive counts.
LEMMA OneMoreArrives ==
    ASSUME NEW S \in SUBSET Thread, NEW t \in Thread, t \notin S
    PROVE  /\ Cardinality(S) \in Nat
           /\ Cardinality(S \cup {t}) = Cardinality(S) + 1
           /\ Cardinality(S) < init_count
           /\ Cardinality(S) = init_count - 1 => S \cup {t} = Thread
<1>1. IsFiniteSet(Thread) /\ IsFiniteSet(S) /\ IsFiniteSet(S \cup {t})
  BY BarrierAssumption, FS_Subset
<1>2. /\ Cardinality(S) \in Nat
      /\ Cardinality(S \cup {t}) = Cardinality(S) + 1
  BY <1>1, FS_AddElement, FS_CardinalityType
<1>3. /\ Cardinality(S \cup {t}) <= Cardinality(Thread)
      /\ Cardinality(S \cup {t}) = Cardinality(Thread) => S \cup {t} = Thread
  BY <1>1, FS_Subset
<1> QED
  BY <1>1, <1>2, <1>3, FS_CardinalityType DEF init_count

\* barrier_init establishes the invariant, in phase 0.
LEMMA BarrierInitIInv == barrier_init => BarrierIInv
<1> SUFFICES ASSUME barrier_init PROVE BarrierIInv
  OBVIOUS
<1>1. BarrierTypeOK
  <2>1. 0 \in 0 .. init_count /\ 0 \in int /\ 0 \in 0 .. MaxCalls
    BY BarrierAssumption, IntAssumption DEF init_count, int
  <2> QED BY <2>1 DEF barrier_init, BarrierTypeOK
<1>2. {t \in Thread : arrived[t] = 0 + 1} = {}
  BY DEF barrier_init
<1>3. CountInPhase(0)
  BY <1>2, FS_EmptySet DEF CountInPhase, barrier_init
<1>4. \A t \in Thread : ThreadInPhase(t, 0)
  BY DEF ThreadInPhase, barrier_init
<1>5. 0 \in 0 .. MaxCalls
  BY BarrierAssumption
<1> QED BY <1>1, <1>3, <1>4, <1>5 DEF BarrierIInv, OnePhase

\* The phase after a step of thread t, and that the invariant survives it.
\* Only barrier_release changes the phase.
LEMMA BarrierNextIInv == BarrierIInv /\ [BarrierNext]_bvars => BarrierIInv'
<1> SUFFICES ASSUME BarrierIInv, [BarrierNext]_bvars PROVE BarrierIInv'
  OBVIOUS
<1> USE DEF BarrierIInv
<1>0. PICK phase \in 0 .. MaxCalls :
         (\A t \in Thread : ThreadInPhase(t, phase)) /\ CountInPhase(phase)
  BY DEF OnePhase
<1> DEFINE Here == {t \in Thread : arrived[t] = phase + 1}
<1>p. phase \in Nat /\ MaxCalls \in Nat /\ init_count \in Nat \ {0} /\ init_count <= INT_MAX
  BY BarrierAssumption, IntAssumption DEF init_count
<1>1. ASSUME NEW t \in Thread, barrier_enter(t) PROVE BarrierIInv'
  <2>1. BarrierTypeOK'
    BY <1>1 DEF barrier_enter, BarrierTypeOK
  <2>2. CountInPhase(phase)'
    BY <1>0, <1>1 DEF barrier_enter, CountInPhase, BarrierTypeOK
  <2>3. \A u \in Thread : ThreadInPhase(u, phase)'
    BY <1>0, <1>1, <1>p DEF barrier_enter, ThreadInPhase, BarrierTypeOK
  <2> QED BY <2>1, <2>2, <2>3 DEF OnePhase
<1>2. ASSUME NEW t \in Thread, barrier_arrive(t) PROVE BarrierIInv'
  <2>1. /\ arrived[t] = phase /\ left[t] = phase /\ my_iter[t] = iterations
        /\ phase < MaxCalls /\ bpc[t] = "xadd"
    BY <1>0, <1>2 DEF barrier_arrive, ThreadInPhase
  <2>2. \A u \in Thread : bpc[u] \notin {"reset", "load", "store"}
    BY <1>0, <2>1 DEF ThreadInPhase
  <2>3. cur_count = Cardinality(Here)
    BY <1>0, <2>2 DEF CountInPhase
  <2>4. t \notin Here /\ Here \in SUBSET Thread
    BY <2>1, <1>p
  <2>5. /\ Cardinality(Here \cup {t}) = cur_count + 1
        /\ cur_count < init_count
        /\ cur_count = init_count - 1 => Here \cup {t} = Thread
    BY <2>3, <2>4, OneMoreArrives
  <2>6. cur_count' = cur_count + 1
    BY <1>2, <1>p, <2>5, IntAssumption DEF barrier_arrive, atomic_add, BarrierTypeOK
  <2>7. {u \in Thread : arrived'[u] = phase + 1} = Here \cup {t}
    BY <1>2, <2>1, <1>p DEF barrier_arrive, BarrierTypeOK
  <2>8. BarrierTypeOK'
    BY <1>2, <1>p, <2>1, <2>5, <2>6 DEF barrier_arrive, BarrierTypeOK
  <2>9. CountInPhase(phase)'
    <3>1. \A u \in Thread : bpc'[u] \notin {"load", "store"}
      BY <1>2, <2>2 DEF barrier_arrive, BarrierTypeOK
    <3> QED BY Zenon, <3>1, <2>5, <2>6, <2>7 DEF CountInPhase
  <2>10. \A u \in Thread : ThreadInPhase(u, phase)'
    <3>1. CASE cur_count # init_count - 1
      BY <3>1, <1>0, <1>2, <1>p, <2>1, <2>2 DEF barrier_arrive, ThreadInPhase, BarrierTypeOK
    <3>2. CASE cur_count = init_count - 1
      <4>1. \A u \in Thread \ {t} : arrived[u] = phase + 1
        BY <3>2, <2>5
      <4>2. \A u \in Thread \ {t} : /\ bpc[u] = "spin" /\ left[u] = phase
                                    /\ my_iter[u] = iterations
        BY <4>1, <2>2, <1>0, <1>p DEF ThreadInPhase
      <4> QED
        BY <3>2, <4>1, <4>2, <1>2, <1>p, <2>1 DEF barrier_arrive, ThreadInPhase, BarrierTypeOK
    <3> QED BY <3>1, <3>2
  <2> QED BY <2>8, <2>9, <2>10 DEF OnePhase
<1>3. ASSUME NEW t \in Thread, barrier_reset(t) PROVE BarrierIInv'
  <2>1. BarrierTypeOK'
    BY <1>3, <1>p DEF barrier_reset, BarrierTypeOK
  <2>2. CountInPhase(phase)'
    BY <1>3 DEF barrier_reset, CountInPhase, BarrierTypeOK
  <2>3. \A u \in Thread : ThreadInPhase(u, phase)'
    BY <1>0, <1>3, <1>p DEF barrier_reset, ThreadInPhase, BarrierTypeOK
  <2> QED BY <2>1, <2>2, <2>3 DEF OnePhase
<1>4. ASSUME NEW t \in Thread, barrier_load(t) PROVE BarrierIInv'
  <2>1. BarrierTypeOK'
    BY <1>4 DEF barrier_load, BarrierTypeOK
  <2>2. CountInPhase(phase)'
    BY <1>0, <1>4 DEF barrier_load, CountInPhase, BarrierTypeOK
  <2>3. \A u \in Thread : ThreadInPhase(u, phase)'
    BY <1>0, <1>4, <1>p DEF barrier_load, ThreadInPhase, BarrierTypeOK
  <2> QED BY <2>1, <2>2, <2>3 DEF OnePhase
<1>5. ASSUME NEW t \in Thread, barrier_release(t) PROVE BarrierIInv'
  <2>1. /\ left[t] = phase /\ arrived[t] = phase + 1 /\ breg[t] = iterations
        /\ bpc[t] = "store"
        /\ \A u \in Thread \ {t} : bpc[u] = "spin" /\ arrived[u] = phase + 1
    BY <1>0, <1>5 DEF barrier_release, ThreadInPhase
  <2>2. phase + 1 \in 0 .. MaxCalls
    BY <2>1, <1>p DEF BarrierTypeOK
  <2>3. \A u \in Thread \ {t} : left[u] = phase /\ my_iter[u] = iterations
    BY <2>1, <1>0, <1>p DEF ThreadInPhase
  <2>4. BarrierTypeOK'
    BY <1>5, <2>1, <2>2, <1>p, AddOne DEF barrier_release, BarrierTypeOK
  <2>5. cur_count' = 0
    BY <1>0, <1>5, <2>1 DEF barrier_release, CountInPhase
  <2>6. CountInPhase(phase + 1)'
    <3>1. {u \in Thread : arrived'[u] = (phase + 1) + 1} = {}
      BY <1>5, <2>1, <1>p DEF barrier_release
    <3>2. Cardinality({u \in Thread : arrived'[u] = (phase + 1) + 1}) = 0
      BY <3>1, FS_EmptySet
    <3> QED BY <3>2, <2>5 DEF CountInPhase
  <2>7. \A u \in Thread : ThreadInPhase(u, phase + 1)'
    BY <1>5, <2>1, <2>3, <1>p DEF barrier_release, ThreadInPhase, BarrierTypeOK
  <2> QED BY <2>2, <2>4, <2>6, <2>7 DEF OnePhase
<1>6. ASSUME NEW t \in Thread, barrier_leave(t), iterations = atomic_add(my_iter[t])
      PROVE  BarrierIInv'
  <2>1. left[t] = phase - 1 /\ arrived[t] = phase
    BY <1>0, <1>6, AddOne DEF barrier_leave, ThreadInPhase, BarrierTypeOK
  <2>2. BarrierTypeOK'
    BY <1>6, <2>1, <1>p DEF barrier_leave, BarrierTypeOK
  <2>3. CountInPhase(phase)'
    BY <1>0, <1>6 DEF barrier_leave, CountInPhase, BarrierTypeOK
  <2>4. \A u \in Thread : ThreadInPhase(u, phase)'
    BY <1>0, <1>6, <1>p, <2>1 DEF barrier_leave, ThreadInPhase, BarrierTypeOK
  <2> QED BY <2>2, <2>3, <2>4 DEF OnePhase
<1>7. CASE UNCHANGED bvars
  <2>1. BarrierTypeOK'
    BY <1>7 DEF bvars, BarrierTypeOK
  <2>2. CountInPhase(phase)'
    BY <1>0, <1>7 DEF bvars, CountInPhase
  <2>3. \A u \in Thread : ThreadInPhase(u, phase)'
    BY <1>0, <1>7 DEF bvars, ThreadInPhase
  <2> QED BY <2>1, <2>2, <2>3 DEF OnePhase
<1>8. ASSUME NEW t \in Thread, barrier_leave(t), iterations # atomic_add(my_iter[t])
      PROVE  UNCHANGED bvars
  BY <1>8 DEF barrier_leave, bvars
<1> QED
  BY <1>1, <1>2, <1>3, <1>4, <1>5, <1>6, <1>7, <1>8
  DEF BarrierNext, barrier_wait, barrier_step, Finished

\* The words and the threads of the barrier agree on one phase throughout.
THEOREM BarrierOnePhase == BarrierSpec => [](BarrierTypeOK /\ OnePhase)
<1>1. BarrierIInv => BarrierTypeOK /\ OnePhase BY DEF BarrierIInv
<1> QED BY <1>1, BarrierInitIInv, BarrierNextIInv, PTL DEF BarrierSpec

\* Threads that agree on a phase have not left early.
LEMMA OnePhaseIsSafe == BarrierIInv => NobodyLeavesEarly
<1> SUFFICES ASSUME BarrierIInv, NEW t \in Thread, NEW u \in Thread
             PROVE  left[t] <= arrived[u]
  BY DEF NobodyLeavesEarly
<1>1. PICK phase \in 0 .. MaxCalls : \A v \in Thread : ThreadInPhase(v, phase)
  BY DEF BarrierIInv, OnePhase
<1>2. left[t] <= phase /\ phase <= arrived[u]
  BY <1>1, BarrierAssumption DEF ThreadInPhase
<1> QED BY <1>1, <1>2, BarrierAssumption DEF BarrierIInv, BarrierTypeOK

\* No thread returns from barrier_wait before all have arrived.
THEOREM BarrierSafe == BarrierSpec => []NobodyLeavesEarly
BY OnePhaseIsSafe, BarrierInitIInv, BarrierNextIInv, PTL DEF BarrierSpec

\* Every step of the barrier is an Arrive, a Leave or a stutter of the
\* abstract barrier.
LEMMA BarrierStepRefines == BarrierIInv /\ [BarrierNext]_bvars => [Abstract!Next]_<<arrived, left>>
<1> SUFFICES ASSUME BarrierIInv, [BarrierNext]_bvars
             PROVE  [Abstract!Next]_<<arrived, left>>
  OBVIOUS
<1>0. PICK phase \in 0 .. MaxCalls : \A t \in Thread : ThreadInPhase(t, phase)
  BY DEF BarrierIInv, OnePhase
<1>p. phase \in Nat
  OBVIOUS
<1>1. ASSUME NEW t \in Thread, barrier_arrive(t) PROVE Abstract!Arrive(t)
  BY <1>0, <1>1 DEF barrier_arrive, ThreadInPhase, Abstract!Arrive
<1>2. ASSUME NEW t \in Thread, barrier_release(t) PROVE Abstract!Leave(t)
  <2>1. \A u \in Thread : arrived[u] = phase + 1
    BY <1>0, <1>2 DEF barrier_release, ThreadInPhase
  <2>2. left[t] = phase
    BY <1>0, <1>2 DEF barrier_release, ThreadInPhase
  <2> QED BY <1>2, <1>p, <2>1, <2>2 DEF barrier_release, Abstract!Leave
<1>3. ASSUME NEW t \in Thread, barrier_leave(t), iterations = atomic_add(my_iter[t])
      PROVE  Abstract!Leave(t)
  <2>1. left[t] = phase - 1 /\ arrived[t] = phase
    BY <1>0, <1>3, AddOne DEF barrier_leave, ThreadInPhase, BarrierIInv, BarrierTypeOK
  <2>2. \A u \in Thread : phase <= arrived[u]
    BY <1>0, <1>p DEF ThreadInPhase
  <2> QED BY <1>3, <1>p, <2>1, <2>2 DEF barrier_leave, Abstract!Leave
<1>4. ASSUME NEW t \in Thread,
             barrier_enter(t) \/ barrier_reset(t) \/ barrier_load(t)
      PROVE  UNCHANGED <<arrived, left>>
  BY <1>4 DEF barrier_enter, barrier_reset, barrier_load
<1>5. CASE UNCHANGED bvars
  BY <1>5 DEF bvars
<1>6. ASSUME NEW t \in Thread, barrier_leave(t), iterations # atomic_add(my_iter[t])
      PROVE  UNCHANGED <<arrived, left>>
  BY <1>6 DEF barrier_leave
<1> QED
  BY <1>1, <1>2, <1>3, <1>4, <1>5, <1>6
  DEF BarrierNext, barrier_wait, barrier_step, Finished, Abstract!Next

\* locking.c's barrier implements the abstract barrier.
THEOREM BarrierImplementsAbstract == BarrierSpec => Refinement
<1>1. barrier_init => Abstract!Init
  BY DEF barrier_init, Abstract!Init
<1> QED
  BY <1>1, BarrierInitIInv, BarrierNextIInv, BarrierStepRefines, PTL
  DEF BarrierSpec, Refinement, Abstract!Spec, Abstract!avars

-----------------------------------------------------------------------------
RWIInv == RWTypeOK /\ WriterExclusion /\ ReadersCounted /\ RWInv

\* The set of readers is finite and its size fits an int.
LEMMA ReadersFinite ==
    /\ IsFiniteSet(Readers)
    /\ Cardinality(Readers) \in Nat
    /\ Cardinality(Readers) < INT_MAX
<1>1. Readers \subseteq Thread
  BY DEF Readers
<1> QED
  BY <1>1, RWAssumption, IntAssumption, FS_Subset, FS_CardinalityType

\* rw_lock_init establishes the invariant.
LEMMA RWInitIInv == rw_lock_init => RWIInv
<1> SUFFICES ASSUME rw_lock_init PROVE RWIInv
  OBVIOUS
<1>1. Readers = {} /\ Writers = {}
  BY DEF rw_lock_init, Readers, Writers, ReadHolder, WriteHolder
<1>2. ReadersCounted
  BY <1>1, FS_EmptySet DEF rw_lock_init, ReadersCounted
<1>3. RWTypeOK /\ RWInv
  BY <1>1, IntAssumption DEF rw_lock_init, RWTypeOK, RWInv, int, Labels, MutexHolder
<1> QED
  BY <1>1, <1>2, <1>3 DEF RWIInv, WriterExclusion

\* A step that changes neither the counted sets nor the counts keeps the
\* count and the exclusion.
LEMMA SameHolders ==
    ASSUME RWIInv, Readers' = Readers, Writers' = Writers, num_readers' = num_readers
    PROVE  WriterExclusion' /\ ReadersCounted'
BY DEF RWIInv, WriterExclusion, ReadersCounted

\* Every step of the five operations keeps the invariant.
LEMMA RWNextIInv == RWIInv /\ [RWNext]_lvars => RWIInv'
<1> SUFFICES ASSUME RWIInv, [RWNext]_lvars PROVE RWIInv'
  OBVIOUS
<1> USE DEF RWIInv, rw_goto
<1>i. num_readers \in Nat /\ num_readers < INT_MAX /\ num_readers = Cardinality(Readers)
  BY ReadersFinite DEF ReadersCounted
<1>n. INT_MIN <= 0 /\ INT_MIN \in Int /\ INT_MAX \in Nat
  BY IntAssumption
<1>1. ASSUME NEW t \in Thread, rw_read_call(t) \/ rw_write_call(t) PROVE RWIInv'
  <2>1. Readers' = Readers /\ Writers' = Writers /\ num_readers' = num_readers
    BY <1>1 DEF rw_read_call, rw_write_call, Readers, Writers, ReadHolder, WriteHolder, RWTypeOK
  <2>2. RWTypeOK' /\ RWInv'
    BY <1>1, <2>1 DEF rw_read_call, rw_write_call, RWTypeOK, RWInv, Labels, MutexHolder
  <2> QED BY <2>1, <2>2, SameHolders
<1>2. ASSUME NEW t \in Thread,
             mutex_lock(t, "r_mutex", "r_wait") \/ mutex_lock(t, "w_mutex", "w_wait1")
      PROVE  RWIInv'
  <2>1. Readers' = Readers /\ Writers' = Writers /\ num_readers' = num_readers
    BY <1>2 DEF mutex_lock, Readers, Writers, ReadHolder, WriteHolder, RWTypeOK
  <2>2. RWTypeOK' /\ RWInv'
    BY <1>2, <2>1 DEF mutex_lock, compare_and_swap, RWTypeOK, RWInv, Labels, MutexHolder
  <2> QED BY <2>1, <2>2, SameHolders
<1>3. ASSUME NEW t \in Thread, rw_read_wait(t) \/ rw_write_wait1(t) \/ rw_write_wait2(t)
      PROVE  RWIInv'
  <2>1. Readers' = Readers /\ Writers' = Writers /\ num_readers' = num_readers
    BY <1>3 DEF rw_read_wait, rw_write_wait1, rw_write_wait2,
                Readers, Writers, ReadHolder, WriteHolder, RWTypeOK
  <2>2. num_readers = 0 => Readers = {}
    BY Zenon, <1>i, ReadersFinite, FS_EmptySet
  <2>3. RWTypeOK'
    BY <1>3 DEF rw_read_wait, rw_write_wait1, rw_write_wait2, RWTypeOK, Labels, MutexHolder
  <2>4. RWInv'
    BY <1>3, <1>i, <2>1, <2>2
    DEF rw_read_wait, rw_write_wait1, rw_write_wait2, RWTypeOK, RWInv, MutexHolder
  <2> QED BY <2>1, <2>3, <2>4, SameHolders
<1>4. ASSUME NEW t \in Thread, rw_read_add(t) PROVE RWIInv'
  <2>1. t \notin Readers /\ Readers' = Readers \cup {t} /\ Writers' = Writers
    BY <1>4 DEF rw_read_add, Readers, Writers, ReadHolder, WriteHolder, RWTypeOK
  <2>2. num_readers' = num_readers + 1
    BY <1>4, <1>i DEF rw_read_add, atomic_add
  <2>3. ReadersCounted'
    BY SMTT(20), Zenon, <1>i, <2>1, <2>2, ReadersFinite, FS_AddElement DEF ReadersCounted
  <2>4. Writers = {}
    BY <1>4 DEF rw_read_add, RWInv
  <2>5. RWTypeOK'
    BY <1>4, <1>i, <1>n, <2>2 DEF rw_read_add, RWTypeOK, int, Labels, MutexHolder
  <2>6. RWInv'
    BY <1>4, <2>1, <2>4 DEF rw_read_add, RWTypeOK, RWInv, MutexHolder
  <2> QED BY <2>1, <2>3, <2>4, <2>5, <2>6 DEF WriterExclusion
<1>5. ASSUME NEW t \in Thread, rw_read_unlock(t) PROVE RWIInv'
  <2>1. t \in Readers /\ Readers' = Readers \ {t} /\ Writers' = Writers
    BY <1>5 DEF rw_read_unlock, Readers, Writers, ReadHolder, WriteHolder, RWTypeOK
  <2>2. /\ Cardinality(Readers \ {t}) = Cardinality(Readers) - 1
        /\ Cardinality(Readers \ {t}) \in Nat
    BY <2>1, ReadersFinite, FS_RemoveElement, FS_CardinalityType
  <2>3. num_readers' = num_readers - 1 /\ num_readers - 1 \in Nat
    BY <1>5, <1>i, <1>n, <2>2 DEF rw_read_unlock, atomic_sub
  <2>4. ReadersCounted'
    BY <1>i, <2>1, <2>2, <2>3 DEF ReadersCounted
  <2>5. RWTypeOK'
    BY <1>5, <1>i, <1>n, <2>3 DEF rw_read_unlock, RWTypeOK, int, Labels, MutexHolder
  <2>6. RWInv'
    BY <1>5, <2>1 DEF rw_read_unlock, RWTypeOK, RWInv, MutexHolder
  <2>7. WriterExclusion'
    BY <2>1 DEF WriterExclusion
  <2> QED BY <2>4, <2>5, <2>6, <2>7
<1>6. ASSUME NEW t \in Thread, rw_write_add(t) PROVE RWIInv'
  <2>0. writer' = 1
    BY <1>6, IntAssumption DEF rw_write_add, RWInv, atomic_add
  <2>1. /\ Readers' = Readers /\ Writers' = Writers \cup {t}
        /\ num_readers' = num_readers
    BY <1>6 DEF rw_write_add, Readers, Writers, ReadHolder, WriteHolder, RWTypeOK
  <2>2. Readers = {} /\ Writers = {}
    BY <1>6 DEF rw_write_add, RWInv
  <2>3. WriterExclusion' /\ ReadersCounted'
    BY <2>1, <2>2 DEF WriterExclusion, ReadersCounted
  <2>4. RWTypeOK' /\ RWInv'
    BY <1>6, <2>0, <2>1, <2>2 DEF rw_write_add, RWTypeOK, RWInv, Labels, MutexHolder, WriteHolder
  <2> QED BY <2>3, <2>4
<1>7. ASSUME NEW t \in Thread, rw_write_unlock(t) PROVE RWIInv'
  <2>1. t \in Writers
    BY <1>7 DEF rw_write_unlock, Writers, WriteHolder
  <2>2. Writers = {t} /\ Readers = {} /\ writer = 1
    BY <2>1 DEF WriterExclusion, RWInv
  <2>3. /\ Readers' = Readers /\ Writers' = {} /\ num_readers' = num_readers
        /\ writer' = 0
    BY <1>7, <2>2, <1>n DEF rw_write_unlock, Readers, Writers, ReadHolder, WriteHolder,
                      RWTypeOK, atomic_sub
  <2>4. WriterExclusion' /\ ReadersCounted'
    BY <2>3 DEF WriterExclusion, ReadersCounted
  <2>5. RWTypeOK' /\ RWInv'
    BY <1>7, <2>2, <2>3 DEF rw_write_unlock, RWTypeOK, RWInv, Labels, MutexHolder
  <2> QED BY <2>4, <2>5
<1>8. ASSUME NEW t \in Thread,
             mutex_unlock(t, "r_unlock", "reading") \/ mutex_unlock(t, "w_unlock", "writing")
      PROVE  RWIInv'
  <2>1. Readers' = Readers /\ Writers' = Writers /\ num_readers' = num_readers
    BY <1>8 DEF mutex_unlock, Readers, Writers, ReadHolder, WriteHolder, RWTypeOK
  <2>2. RWTypeOK' /\ RWInv'
    BY <1>8, <2>1 DEF mutex_unlock, RWTypeOK, RWInv, Labels, MutexHolder, ReadHolder, WriteHolder
  <2> QED BY <2>1, <2>2, SameHolders
<1>9. CASE UNCHANGED lvars
  <2>1. Readers' = Readers /\ Writers' = Writers /\ num_readers' = num_readers
    BY <1>9 DEF lvars, Readers, Writers
  <2>2. RWTypeOK' /\ RWInv'
    BY <1>9, <2>1 DEF lvars, RWTypeOK, RWInv
  <2> QED BY <2>1, <2>2, SameHolders
<1> QED
  BY <1>1, <1>2, <1>3, <1>4, <1>5, <1>6, <1>7, <1>8, <1>9
  DEF RWNext, LockStep, UnlockStep, rw_read_lock, rw_write_lock

\* The words of the lock keep their types; num_readers never wraps.
THEOREM RWLockTypeCorrect == RWSpec => []RWTypeOK
<1>1. RWIInv => RWTypeOK BY DEF RWIInv
<1> QED BY <1>1, RWInitIInv, RWNextIInv, PTL DEF RWSpec

\* rw_write_lock gives the lock to one writer and no reader.
THEOREM RWLockWriterExclusion == RWSpec => []WriterExclusion
<1>1. RWIInv => WriterExclusion BY DEF RWIInv
<1> QED BY <1>1, RWInitIInv, RWNextIInv, PTL DEF RWSpec

\* num_readers is the number of threads that hold a read lock.
THEOREM RWLockReadersCounted == RWSpec => []ReadersCounted
<1>1. RWIInv => ReadersCounted BY DEF RWIInv
<1> QED BY <1>1, RWInitIInv, RWNextIInv, PTL DEF RWSpec

\* While a writer waits with the mutex, no thread joins the readers.
THEOREM RWLockNoReaderOvertakes == RWSpec => NoReaderOvertakes
<1> DEFINE Waiting == \E w \in Thread : lpc[w] \in {"w_wait1", "w_wait2", "w_add"}
           Quiet == Waiting => Readers' \subseteq Readers
<1>1. RWIInv /\ [RWNext]_lvars => [Quiet]_lvars
  <2> SUFFICES ASSUME RWIInv, RWNext, Waiting PROVE Readers' \subseteq Readers
    OBVIOUS
  <2>1. PICK w \in Thread : lpc[w] \in {"w_wait1", "w_wait2", "w_add"}
    OBVIOUS
  <2>2. \A t \in Thread : ~ rw_read_add(t)
    BY <2>1 DEF RWIInv, RWInv, MutexHolder, rw_read_add
  <2>3. ASSUME NEW t \in Thread,
               \/ rw_read_call(t) \/ rw_write_call(t) \/ rw_read_wait(t)
               \/ rw_write_wait1(t) \/ rw_write_wait2(t) \/ rw_write_add(t)
               \/ rw_read_unlock(t) \/ rw_write_unlock(t)
               \/ mutex_lock(t, "r_mutex", "r_wait") \/ mutex_lock(t, "w_mutex", "w_wait1")
               \/ mutex_unlock(t, "r_unlock", "reading") \/ mutex_unlock(t, "w_unlock", "writing")
        PROVE  Readers' \subseteq Readers
    BY <2>3 DEF RWIInv, RWTypeOK, rw_goto, Readers, ReadHolder, rw_read_call, rw_write_call,
                rw_read_wait, rw_write_wait1, rw_write_wait2, rw_write_add,
                rw_read_unlock, rw_write_unlock, mutex_lock, mutex_unlock
  <2> QED
    BY <2>2, <2>3 DEF RWNext, LockStep, UnlockStep, rw_read_lock, rw_write_lock
<1> QED
  BY <1>1, RWInitIInv, RWNextIInv, PTL DEF RWSpec, NoReaderOvertakes

-----------------------------------------------------------------------------
\* The driver, locking.c.  Its theorems use DriverAssumption; nothing above does.
\* How often a thread of an exercise has added to the counter.  "unlock" and
\* "wait2" are the lines between the addition and the end of the turn.
Done(t) == i[t] + IF pc[t] \in {"unlock", "wait2"} THEN 1 ELSE 0

\* What the threads have added: thread x[1] in its turn x[2].
Turns == {x \in Thread \X (0 .. ITERATIONS - 1) : x[2] < Done(x[1])}

\* What the constants are.
LEMMA DriverConstants ==
    /\ num_threads \in Nat /\ num_threads > 1 /\ Thread = 0 .. num_threads - 1
    /\ Writer \in Thread /\ IsFiniteSet(Thread)
    /\ ITERATIONS \in Nat /\ RW_ITERATIONS \in Nat \ {0}
    /\ num_threads * ITERATIONS \in Nat /\ num_threads * ITERATIONS <= INT_MAX
    /\ INT_MIN \in Int /\ INT_MIN <= 0 /\ INT_MAX \in Nat \ {0}
<1>1. num_threads \in Nat
  BY DriverAssumption, FS_CardinalityType DEF num_threads
<1>2. num_threads * ITERATIONS \in Nat
  BY <1>1, IterationsAssumption
<1> QED BY <1>1, <1>2, DriverAssumption, IterationsAssumption, IntAssumption DEF Writer, int

\* The counter fits an int as long as a turn is missing.
LEMMA OneMoreTurn ==
    ASSUME NEW S \in SUBSET (Thread \X (0 .. ITERATIONS - 1)),
           NEW x \in Thread \X (0 .. ITERATIONS - 1), x \notin S
    PROVE  /\ Cardinality(S) \in Nat
           /\ Cardinality(S \cup {x}) = Cardinality(S) + 1
           /\ Cardinality(S) < num_threads * ITERATIONS
<1> DEFINE P == Thread \X (0 .. ITERATIONS - 1)
<1>1. IsFiniteSet(P) /\ Cardinality(P) = num_threads * ITERATIONS
  <2>1. IsFiniteSet(0 .. ITERATIONS - 1) /\ Cardinality(0 .. ITERATIONS - 1) = ITERATIONS
    BY FS_Interval, IterationsAssumption
  <2> QED BY ZenonT(30), <2>1, FS_Product, DriverAssumption DEF num_threads
<1> HIDE DEF P
<1>2. IsFiniteSet(S) /\ IsFiniteSet(S \cup {x}) /\ S \cup {x} \subseteq P
  BY <1>1, FS_Subset DEF P
<1>3. Cardinality(S) \in Nat /\ Cardinality(S \cup {x}) = Cardinality(S) + 1
  BY <1>2, FS_AddElement, FS_CardinalityType
<1>4. Cardinality(S \cup {x}) <= Cardinality(P)
  BY <1>1, <1>2, FS_Subset
<1>5. Cardinality(P) \in Nat
  BY <1>1, FS_CardinalityType
<1> QED BY <1>1, <1>3, <1>4, <1>5

\* r turns of every thread.
LEMMA EveryTurn ==
    ASSUME NEW r \in Nat
    PROVE  Cardinality(Thread \X (0 .. r - 1)) = num_threads * r
<1>1. IsFiniteSet(0 .. r - 1) /\ Cardinality(0 .. r - 1) = r
  BY FS_Interval
<1> QED BY SMTT(20), Zenon, <1>1, FS_Product, DriverAssumption DEF num_threads

-----------------------------------------------------------------------------
\* The lines of the functions of the threads.
Label ==
    {"none", "return", "sub", "ex1_sub", "add", "ex1_add"}
    \cup {"spinlock", "loop", "lock", "load", "store", "unlock"}
    \cup {"barrier", "wait1", "ex2_add", "wait2"}
    \cup {"read", "read_lock1", "read_wait1", "read_unlock1", "read_wait2", "read_loop", "read_lock",
          "read_test", "read_save", "read_unlock"}
    \cup {"write", "write_wait2", "write_loop", "write_lock", "write_zero", "write_load",
          "write_store", "write_unlock"}

\* The threads are created in order, and the exercises are as far as exercise
\* says.  Nobody has found an error.
DriverTypeOK ==
    /\ exercise \in 1 .. 6
    /\ \E c \in 0 .. num_threads : created = 0 .. c - 1
    /\ global_value \in Int
    /\ pc \in [Thread -> Label]
    /\ reg \in [Thread -> Int]
    /\ i \in [Thread -> Nat]
    /\ local \in [Thread -> [ret : {0}, prev_value : Int, j : Int]]
    /\ \A t \in Thread \ created : pc[t] = "none"
    /\ \A t \in Thread : pc[t] = "none" => i[t] = 0

\* The locks are used in their exercises only.
Unused ==
    /\ exercise # 3 => free = 1
    /\ exercise # 4 => \A t \in Thread : bpc[t] = "out"
    /\ exercise < 4 => \A t \in Thread : left[t] = 0
    /\ exercise # 5 => \A t \in Thread : lpc[t] = "out"

\* ex1_sub_fn and ex1_add_fn: a thread returns after its turns.
Ex1Inv(start, turn) ==
    /\ \A t \in Thread :
          /\ pc[t] \in {"none", start, turn, "return"}
          /\ i[t] <= ITERATIONS
          /\ pc[t] = "return" => i[t] = ITERATIONS

\* ex1_sub_fn: every turn has taken 1 from what main put into global_value.
SubInv ==
    /\ Ex1Inv("sub", "ex1_sub")
    /\ global_value = num_threads * ITERATIONS - Cardinality(Turns)

\* ex1_add_fn: every turn has added 1.
AddInv ==
    /\ Ex1Inv("add", "ex1_add")
    /\ global_value = Cardinality(Turns)

\* A thread of ex3_fn: what it has loaded in the critical section is current.
Ex3Thread(t) ==
    /\ pc[t] \in {"none", "spinlock", "loop", "lock", "return"} \cup Critical
    /\ i[t] <= ITERATIONS
    /\ pc[t] = "return" => i[t] = ITERATIONS
    /\ pc[t] \in Critical \cup {"lock"} => i[t] < ITERATIONS
    /\ pc[t] = "store" => reg[t] = global_value

\* ex3_fn: the invariant of the spin lock, and every turn has added 1.
Ex3Inv ==
    /\ \A t \in Thread : Ex3Thread(t)
    /\ MutualExclusion
    /\ free \in {0, 1}
    /\ free = 1 <=> \A t \in Thread : pc[t] \notin Critical
    /\ global_value = Cardinality(Turns)

\* ex2_fn: the calls that a thread has made of barrier_wait say which turn it
\* is in, two calls a turn.
Ex2Thread(t) ==
    /\ pc[t] \in {"none", "barrier", "wait1", "ex2_add", "wait2", "return"}
    /\ i[t] <= ITERATIONS
    /\ pc[t] = "return" => i[t] = ITERATIONS
    /\ pc[t] \in {"wait1", "ex2_add", "wait2"} => i[t] < ITERATIONS
    /\ pc[t] \in {"none", "barrier", "ex2_add", "return"} => bpc[t] = "out"
    /\ pc[t] \in {"ex2_add", "wait2"} => left[t] = 2 * i[t] + 1
    /\ pc[t] \notin {"ex2_add", "wait2"} => left[t] = 2 * i[t]

\* ex2_fn: every turn has added 1.
Ex2Inv ==
    /\ \A t \in Thread : Ex2Thread(t)
    /\ global_value = Cardinality(Turns)

\* The largest value that the writer of the last exercise has stored.
Largest ==
    IF pc[Writer] = "write_unlock" THEN i[Writer]
    ELSE IF i[Writer] = 0 THEN 0 ELSE i[Writer] - 1

\* Where a reader is in the lock when it is at a line of ex4_read_fn.
ReaderAt(line, at) ==
    /\ line \in {"none", "read", "read_lock1", "read_wait1", "read_unlock1", "read_wait2",
                 "read_loop", "read_lock", "read_test", "read_save", "read_unlock", "return"}
    /\ at \in IF line \in {"read_wait1", "read_unlock1", "read_test", "read_save", "read_unlock"}
              THEN {"reading"}
              ELSE IF line \in {"read_lock1", "read_lock"}
                   THEN {"out", "r_mutex", "r_wait", "r_add", "r_unlock"}
              ELSE {"out"}

\* Where the writer is in the lock when it is at a line of ex4_write_fn.
WriterAt(line, at) ==
    /\ line \in {"none", "write", "write_wait2", "write_loop", "write_lock", "write_zero",
                 "write_load", "write_store", "write_unlock", "return"}
    /\ at \in IF line \in {"write_zero", "write_load", "write_store", "write_unlock"} THEN {"writing"}
              ELSE IF line = "write_lock"
                   THEN {"out", "w_mutex", "w_wait1", "w_wait2", "w_add", "w_unlock"}
              ELSE {"out"}

\* What a reader has saved is not more than what was stored.
ReaderInv(t) == ReaderAt(pc[t], lpc[t]) /\ local[t].prev_value <= Largest

\* global_value is the largest value unless the writer has the lock.
WriterInv ==
    /\ WriterAt(pc[Writer], lpc[Writer])
    /\ global_value = IF pc[Writer] \in {"write_load", "write_store"} THEN 0 ELSE Largest
    /\ pc[Writer] = "write_store" => reg[Writer] = 0

\* ex4_read_fn and ex4_write_fn.
Ex4Inv ==
    /\ \A t \in Thread \ {Writer} : ReaderInv(t)
    /\ WriterInv

\* The inductive invariant of the driver.
DriverIInv ==
    /\ DriverTypeOK
    /\ TestsSucceed
    /\ Unused
    /\ BarrierIInv
    /\ RWIInv
    /\ exercise = 1 => SubInv
    /\ exercise = 2 => AddInv
    /\ exercise = 3 => Ex3Inv
    /\ exercise = 4 => Ex2Inv
    /\ exercise = 5 => Ex4Inv
    /\ exercise = 6 => \A t \in Thread : pc[t] = "none"

\* A step in which nobody adds.
LEMMA SameTurns ==
    ASSUME \A u \in Thread : Done(u)' = Done(u)
    PROVE  Turns' = Turns
BY DEF Turns

\* A step in which t adds.
LEMMA NextTurn ==
    ASSUME i \in [Thread -> Nat], NEW t \in Thread, Done(t) < ITERATIONS, Done(t)' = Done(t) + 1,
           \A u \in Thread \ {t} : Done(u)' = Done(u)
    PROVE  /\ Cardinality(Turns) \in Nat
           /\ Cardinality(Turns') = Cardinality(Turns) + 1
           /\ Cardinality(Turns) < num_threads * ITERATIONS
<1> DEFINE x == <<t, Done(t)>>
<1>1. \A u \in Thread : Done(u) \in Nat
  BY DEF Done
<1>2. x \in Thread \X (0 .. ITERATIONS - 1) /\ x \notin Turns
  BY SMTT(20), Zenon, <1>1, DriverConstants DEF Turns
<1>3. Turns' = Turns \cup {x}
  <2>1. ASSUME NEW u \in Thread, NEW k \in 0 .. ITERATIONS - 1
        PROVE  <<u, k>> \in Turns' <=> <<u, k>> \in Turns \cup {x}
    <3>1. <<u, k>> \in Turns <=> k < Done(u)
      BY DEF Turns
    <3>2. <<u, k>> \in Turns' <=> k < Done(u)'
      BY DEF Turns
    <3>3. CASE u = t
      BY SMTT(20), Zenon, <1>1, <3>1, <3>2, <3>3, DriverConstants
    <3>4. CASE u # t
      BY <3>1, <3>2, <3>4
    <3> QED BY <3>3, <3>4
  <2>2. Turns' \subseteq Thread \X (0 .. ITERATIONS - 1) /\ Turns \subseteq Thread \X (0 .. ITERATIONS - 1)
    BY DEF Turns
  <2> HIDE DEF x
  <2> QED BY <1>2, <2>1, <2>2
<1>4. Turns \in SUBSET (Thread \X (0 .. ITERATIONS - 1))
  BY DEF Turns
<1> HIDE DEF x
<1> QED BY <1>2, <1>3, <1>4, OneMoreTurn

\* All threads have added r times.
LEMMA EqualTurns ==
    ASSUME NEW r \in 0 .. ITERATIONS, \A u \in Thread : Done(u) = r
    PROVE  Cardinality(Turns) = num_threads * r
<1>1. Turns = Thread \X (0 .. r - 1)
  BY DriverConstants DEF Turns
<1>2. r \in Nat
  BY DriverConstants
<1> QED BY <1>1, <1>2, EveryTurn

-----------------------------------------------------------------------------
\* A step outside the barrier and the reader-writer lock keeps their
\* invariants.
LEMMA LocksKept ==
    /\ BarrierIInv /\ UNCHANGED bvars => BarrierIInv'
    /\ RWIInv /\ UNCHANGED lvars => RWIInv'
BY SMTT(20), Zenon, BarrierNextIInv, RWNextIInv

\* A thread leaves what main knows alone.
LEMMA MainWaits ==
    ASSUME NEW t \in Thread, ThreadStep(t)
    PROVE  UNCHANGED <<exercise, created, printed>>
BY DEF ThreadStep, env_vars, main_vars, pthread_barrier_wait, ex1_turn, ex1_sub_fn, ex1_add_fn,
   ex3_thread, ex2_fn, ex2_check, ex2_wait1, ex2_add, ex2_wait2, rw_lock, read_lock, ex4_read_begin,
   read_unlock1, ex4_loop, ex4_read_test, ex4_read_save, ex4_unlock, ex4_read_fn, ex4_write_zero,
   ex4_write_load, ex4_write_store, ex4_write_fn

\* Where the threads of an exercise can be.
LEMMA WhichFunction ==
    ASSUME NEW t \in Thread, ThreadStep(t)
    PROVE  /\ pc[t] \in {"sub", "ex1_sub"} => ex1_sub_fn(t)
           /\ pc[t] \in {"add", "ex1_add"} => ex1_add_fn(t)
           /\ pc[t] \in {"spinlock", "loop", "lock"} \cup Critical => ex3_thread(t)
           /\ pc[t] \in {"barrier", "wait1", "ex2_add", "wait2"} => ex2_fn(t)
           /\ pc[t] \in {"read", "read_lock1", "read_wait1", "read_unlock1", "read_wait2", "read_loop",
                         "read_lock", "read_test", "read_save", "read_unlock"} => ex4_read_fn(t)
           /\ pc[t] \in {"write", "write_wait2", "write_loop", "write_lock", "write_zero", "write_load",
                         "write_store", "write_unlock"} => ex4_write_fn(t)
           /\ pc[t] \notin {"none", "return"}
<1>1. ex1_sub_fn(t) => pc[t] \in {"sub", "ex1_sub"}
  BY DEF ex1_sub_fn, pthread_barrier_wait
<1>2. ex1_add_fn(t) => pc[t] \in {"add", "ex1_add"}
  BY DEF ex1_add_fn, pthread_barrier_wait
<1>3. ex3_thread(t) => pc[t] \in {"spinlock", "loop", "lock"} \cup Critical
  BY DEF ex3_thread, pthread_barrier_wait, ex3_fn, ex3_loop, spinlock_lock, ex3_load, ex3_store,
         spinlock_unlock, Critical
<1>4. ex2_fn(t) => pc[t] \in {"barrier", "wait1", "ex2_add", "wait2"}
  BY DEF ex2_fn, ex2_check, ex2_wait1, ex2_add, ex2_wait2
<1>5. ex4_read_fn(t) => pc[t] \in {"read", "read_lock1", "read_wait1", "read_unlock1", "read_wait2",
                                   "read_loop", "read_lock", "read_test", "read_save", "read_unlock"}
  BY SMTT(20), Zenon DEF ex4_read_fn, pthread_barrier_wait, rw_lock, read_lock, ex4_read_begin, read_unlock1, ex4_loop,
         ex4_read_test, ex4_read_save, ex4_unlock
<1>6. ex4_write_fn(t) => pc[t] \in {"write", "write_wait2", "write_loop", "write_lock", "write_zero",
                                    "write_load", "write_store", "write_unlock"}
  BY DEF ex4_write_fn, pthread_barrier_wait, rw_lock, ex4_loop, ex4_unlock, ex4_write_zero,
         ex4_write_load, ex4_write_store
<1> QED BY <1>1, <1>2, <1>3, <1>4, <1>5, <1>6 DEF ThreadStep, Critical

\* A step of a thread that has been created keeps the types.
LEMMA TypesKept ==
    ASSUME DriverTypeOK, NEW t \in Thread, pc[t] # "none", UNCHANGED <<exercise, created>>,
           NEW label \in Label, label # "none", pc' = [pc EXCEPT ![t] = label],
           global_value' \in Int, reg' \in [Thread -> Int], i' \in [Thread -> Nat],
           \A u \in Thread \ {t} : i'[u] = i[u],
           local' \in [Thread -> [ret : {0}, prev_value : Int, j : Int]]
    PROVE  DriverTypeOK'
<1>1. pc' \in [Thread -> Label]
  BY DEF DriverTypeOK
<1>2. \A u \in Thread \ created' : pc'[u] = "none"
  BY Zenon DEF DriverTypeOK
<1>3. \A u \in Thread : pc'[u] = "none" => i'[u] = 0
  BY Zenon DEF DriverTypeOK
<1> QED BY SMTT(20), Zenon, <1>1, <1>2, <1>3 DEF DriverTypeOK

\* One step of ex1_sub_fn or ex1_add_fn: nothing is added, or t adds once.
LEMMA Ex1Turn ==
    ASSUME DriverTypeOK, NEW t \in Thread, pc[t] # "none",
           UNCHANGED <<exercise, created, reg, local>>,
           NEW start \in {"sub", "add"}, NEW turn \in {"ex1_sub", "ex1_add"}, Ex1Inv(start, turn),
           NEW value \in Int,
           \/ pthread_barrier_wait(t, start, turn)
           \/ pc[t] = turn /\ ex1_turn(t, value)
    PROVE  /\ Ex1Inv(start, turn)'
           /\ DriverTypeOK'
           /\ \/ global_value' = global_value /\ Turns' = Turns
              \/ /\ global_value' = value
                 /\ Cardinality(Turns) \in Nat /\ Cardinality(Turns') = Cardinality(Turns) + 1
                 /\ Cardinality(Turns) < num_threads * ITERATIONS
<1>1. CASE i' = i /\ global_value' = global_value
           /\ \E label \in {turn, "return"} :
                 /\ pc' = [pc EXCEPT ![t] = label]
                 /\ label = "return" => i[t] = ITERATIONS
  <2>1. PICK label \in {turn, "return"} : /\ pc' = [pc EXCEPT ![t] = label]
                                          /\ label = "return" => i[t] = ITERATIONS
    BY Zenon, <1>1
  <2>2. Ex1Inv(start, turn)'
    BY <1>1, <2>1 DEF Ex1Inv, DriverTypeOK
  <2>3. \A u \in Thread : Done(u)' = Done(u)
    BY SMTT(20), Zenon, <1>1, <2>1 DEF Ex1Inv, Done, DriverTypeOK
  <2>4. DriverTypeOK'
    <3>1. /\ global_value' \in Int /\ reg' \in [Thread -> Int] /\ i' \in [Thread -> Nat]
          /\ \A u \in Thread \ {t} : i'[u] = i[u]
          /\ local' \in [Thread -> [ret : {0}, prev_value : Int, j : Int]]
      BY <1>1 DEF DriverTypeOK
    <3>2. label \in {"ex1_sub", "ex1_add", "return"}
      OBVIOUS
    <3>3. label \in Label /\ label # "none"
      BY <3>2 DEF Label
    <3> QED BY Zenon, <2>1, <3>1, <3>3, TypesKept
  <2> QED BY <1>1, <2>2, <2>3, <2>4, SameTurns
<1>2. CASE pc[t] = turn /\ i[t] < ITERATIONS /\ pc' = pc /\ i' = [i EXCEPT ![t] = @ + 1]
           /\ global_value' = value
  <2>1. i' \in [Thread -> Nat] /\ i'[t] = i[t] + 1 /\ \A u \in Thread \ {t} : i'[u] = i[u]
    BY <1>2 DEF DriverTypeOK
  <2>2. Ex1Inv(start, turn)'
    <3> SUFFICES ASSUME NEW u \in Thread
                 PROVE  /\ pc'[u] \in {"none", start, turn, "return"} /\ i'[u] <= ITERATIONS
                        /\ pc'[u] = "return" => i'[u] = ITERATIONS
      BY DEF Ex1Inv
    <3>1. /\ pc[u] \in {"none", start, turn, "return"} /\ i[u] <= ITERATIONS /\ i[u] \in Nat
          /\ pc[u] = "return" => i[u] = ITERATIONS
      BY DEF Ex1Inv, DriverTypeOK
    <3>2. CASE u = t
      BY <1>2, <2>1, <3>1, <3>2, DriverConstants
    <3>3. CASE u # t
      BY <1>2, <2>1, <3>1, <3>3
    <3> QED BY <3>2, <3>3
  <2>3. \A u \in Thread : Done(u) = i[u] /\ Done(u)' = i'[u]
    <3> SUFFICES ASSUME NEW u \in Thread PROVE Done(u) = i[u] /\ Done(u)' = i'[u]
      OBVIOUS
    <3>1. pc[u] \notin {"unlock", "wait2"} /\ pc'[u] = pc[u] /\ i[u] \in Nat /\ i'[u] \in Nat
      BY Zenon, <1>2, <2>1 DEF Ex1Inv, DriverTypeOK
    <3> QED BY <3>1 DEF Done
  <2>4. /\ Cardinality(Turns) \in Nat /\ Cardinality(Turns') = Cardinality(Turns) + 1
        /\ Cardinality(Turns) < num_threads * ITERATIONS
    BY SMTT(20), Zenon, <1>2, <2>1, <2>3, NextTurn DEF DriverTypeOK
  <2>5. DriverTypeOK'
    <3>1. pc' = [pc EXCEPT ![t] = turn]
      BY <1>2 DEF DriverTypeOK
    <3> QED BY SMTT(20), Zenon, <1>2, <2>1, <3>1, TypesKept DEF DriverTypeOK
  <2> QED BY <1>2, <2>2, <2>4, <2>5
<1>3. i[t] \in Nat /\ i[t] <= ITERATIONS
  BY DEF Ex1Inv, DriverTypeOK
<1>4. CASE pthread_barrier_wait(t, start, turn)
  BY <1>1, <1>4 DEF pthread_barrier_wait, Goto
<1>5. CASE pc[t] = turn /\ ex1_turn(t, value) /\ i[t] < ITERATIONS
  BY <1>2, <1>5 DEF ex1_turn
<1>6. CASE pc[t] = turn /\ ex1_turn(t, value) /\ ~ (i[t] < ITERATIONS)
  <2>1. i[t] = ITERATIONS
    BY <1>3, <1>6, DriverConstants
  <2> QED BY <1>1, <1>6, <2>1 DEF ex1_turn, Goto
<1> QED BY <1>4, <1>5, <1>6

\* ex1_sub_fn.
LEMMA SubStep ==
    ASSUME DriverIInv, NEW t \in Thread, ThreadStep(t), exercise = 1
    PROVE  DriverIInv'
<1>0. DriverTypeOK /\ SubInv /\ Unused /\ BarrierIInv /\ RWIInv /\ TestsSucceed
  BY DEF DriverIInv
<1>1. UNCHANGED <<exercise, created, printed>>
  BY SMTT(20), Zenon, MainWaits
<1>2. ex1_sub_fn(t) /\ pc[t] # "none"
  BY <1>0, WhichFunction DEF SubInv, Ex1Inv
<1>3. UNCHANGED <<free, reg, local, bvars, lvars>>
  BY SMTT(20), Zenon, <1>2 DEF ex1_sub_fn, pthread_barrier_wait, ex1_turn, env_vars
<1>4. BarrierIInv' /\ RWIInv' /\ TestsSucceed' /\ Unused'
  BY <1>0, <1>1, <1>3, LocksKept DEF TestsSucceed, Unused, bvars, lvars
<1> DEFINE total == num_threads * ITERATIONS
           c == Cardinality(Turns)
           value == atomic_sub(global_value)
<1>5. global_value \in Int /\ value \in Int
  BY <1>0, DriverConstants DEF atomic_sub, DriverTypeOK
<1>6. /\ Ex1Inv("sub", "ex1_sub")' /\ DriverTypeOK'
      /\ \/ global_value' = global_value /\ Turns' = Turns
         \/ /\ global_value' = value
            /\ c \in Nat /\ Cardinality(Turns') = c + 1 /\ c < total
  BY <1>0, <1>1, <1>2, <1>3, <1>5, Ex1Turn DEF ex1_sub_fn, SubInv
<1>7. global_value' = total - Cardinality(Turns')
  <2>1. total \in Nat /\ global_value = total - c
    BY <1>0, DriverConstants DEF SubInv
  <2>2. CASE global_value' = value /\ c \in Nat /\ Cardinality(Turns') = c + 1 /\ c < total
    <3> HIDE DEF total, c
    <3>1. value = global_value - 1
      BY <2>1, <2>2, DriverConstants DEF atomic_sub
    <3> HIDE DEF value
    <3> QED BY <2>1, <2>2, <3>1
  <2> QED BY <1>6, <2>1, <2>2
<1> QED BY <1>0, <1>1, <1>4, <1>6, <1>7 DEF DriverIInv, SubInv

\* ex1_add_fn.
LEMMA AddStep ==
    ASSUME DriverIInv, NEW t \in Thread, ThreadStep(t), exercise = 2
    PROVE  DriverIInv'
<1>0. DriverTypeOK /\ AddInv /\ Unused /\ BarrierIInv /\ RWIInv /\ TestsSucceed
  BY DEF DriverIInv
<1>1. UNCHANGED <<exercise, created, printed>>
  BY SMTT(20), Zenon, MainWaits
<1>2. ex1_add_fn(t) /\ pc[t] # "none"
  BY <1>0, WhichFunction DEF AddInv, Ex1Inv
<1>3. UNCHANGED <<free, reg, local, bvars, lvars>>
  BY <1>2 DEF ex1_add_fn, pthread_barrier_wait, ex1_turn, env_vars
<1>4. BarrierIInv' /\ RWIInv' /\ TestsSucceed' /\ Unused'
  BY <1>0, <1>1, <1>3, LocksKept DEF TestsSucceed, Unused, bvars, lvars
<1> DEFINE total == num_threads * ITERATIONS
           c == Cardinality(Turns)
           value == atomic_add(global_value)
<1>5. global_value \in Int /\ value \in Int
  BY <1>0, DriverConstants DEF atomic_add, DriverTypeOK
<1>6. /\ Ex1Inv("add", "ex1_add")' /\ DriverTypeOK'
      /\ \/ global_value' = global_value /\ Turns' = Turns
         \/ /\ global_value' = value
            /\ c \in Nat /\ Cardinality(Turns') = c + 1 /\ c < total
  BY <1>0, <1>1, <1>2, <1>3, <1>5, Ex1Turn DEF ex1_add_fn, AddInv
<1>7. global_value' = Cardinality(Turns')
  <2>1. total \in Nat /\ total <= INT_MAX /\ global_value = c
    BY <1>0, DriverConstants DEF AddInv
  <2>2. CASE global_value' = value /\ c \in Nat /\ Cardinality(Turns') = c + 1 /\ c < total
    <3> HIDE DEF total, c
    <3>1. value = global_value + 1
      BY <2>1, <2>2, DriverConstants DEF atomic_add
    <3> HIDE DEF value
    <3> QED BY <2>1, <2>2, <3>1
  <2> QED BY <1>6, <2>1, <2>2
<1> QED BY <1>0, <1>1, <1>4, <1>6, <1>7 DEF DriverIInv, AddInv

\* ex3_fn, whose critical section is the one of Spinlock.
LEMMA SpinStep ==
    ASSUME DriverIInv, NEW t \in Thread, ThreadStep(t), exercise = 3
    PROVE  DriverIInv'
<1>0. DriverTypeOK /\ Ex3Inv /\ Unused /\ BarrierIInv /\ RWIInv /\ TestsSucceed
  BY DEF DriverIInv
<1>1. UNCHANGED <<exercise, created, printed>>
  BY SMTT(20), Zenon, MainWaits
<1>2. ex3_thread(t) /\ pc[t] # "none"
  BY <1>0, WhichFunction DEF Ex3Inv, Ex3Thread, Critical
<1>3. UNCHANGED <<local, bvars, lvars>>
  BY <1>2 DEF ex3_thread, pthread_barrier_wait
<1>4. BarrierIInv' /\ RWIInv' /\ TestsSucceed' /\ Unused'
  BY <1>0, <1>1, <1>3, LocksKept DEF TestsSucceed, Unused, bvars, lvars
<1>5. SUFFICES DriverTypeOK' /\ Ex3Inv'
  BY <1>1, <1>4 DEF DriverIInv
<1>6. /\ global_value \in Int /\ pc \in [Thread -> Label] /\ reg \in [Thread -> Int]
      /\ i \in [Thread -> Nat] /\ local' \in [Thread -> [ret : {0}, prev_value : Int, j : Int]]
  BY <1>0, <1>3 DEF DriverTypeOK
<1>7. /\ \A u \in Thread : Ex3Thread(u)
      /\ MutualExclusion /\ free \in {0, 1}
      /\ free = 1 <=> \A u \in Thread : pc[u] \notin Critical
      /\ global_value = Cardinality(Turns)
  BY <1>0 DEF Ex3Inv
<1>8. ASSUME NEW label \in Label \ {"none"}, pc' = [pc EXCEPT ![t] = label],
             global_value' \in Int, reg' \in [Thread -> Int], i' \in [Thread -> Nat],
             \A u \in Thread \ {t} : i'[u] = i[u]
      PROVE  DriverTypeOK'
  BY Zenon, <1>0, <1>1, <1>2, <1>6, <1>8, TypesKept
<1>9. CASE \/ pthread_barrier_wait(t, "spinlock", "loop")
           \/ ex3_loop(t) \/ spinlock_lock(t) \/ ex3_load(t)
  <2> DEFINE label == IF pc[t] = "spinlock" THEN "loop"
                      ELSE IF pc[t] = "loop" THEN IF i[t] < ITERATIONS THEN "lock" ELSE "return"
                      ELSE IF pc[t] = "lock" THEN IF free # 0 THEN "load" ELSE "lock"
                      ELSE "store"
  <2>1. /\ pc' = [pc EXCEPT ![t] = label] /\ pc[t] \in {"spinlock", "loop", "lock", "load"}
        /\ i' = i /\ global_value' = global_value
        /\ reg' = IF pc[t] = "load" THEN [reg EXCEPT ![t] = global_value] ELSE reg
        /\ free' = IF pc[t] = "lock" THEN 0 ELSE free
    BY <1>7, <1>9 DEF pthread_barrier_wait, ex3_loop, spinlock_lock, ex3_load, Goto, compare_and_swap
  <2>2. label \in {"loop", "lock", "return", "load", "store"} /\ label \in Label \ {"none"}
    BY DEF Label
  <2>3. DriverTypeOK'
    <3> HIDE DEF label
    <3>1. reg' \in [Thread -> Int]
      BY <1>6, <2>1
    <3> QED BY Zenon, <1>6, <1>8, <2>1, <2>2, <3>1
  <2>4. Turns' = Turns
    <3>1. \A u \in Thread : Done(u)' = Done(u)
      <4> HIDE DEF label
      <4> QED BY <1>6, <2>1, <2>2 DEF Done
    <3> QED BY <3>1, SameTurns
  <2>5. \A u \in Thread : Ex3Thread(u)'
    <3> TAKE u \in Thread
    <3>1. Ex3Thread(u) /\ Ex3Thread(t)
      BY SMTT(20), Zenon, <1>7
    <3>2. CASE u = t
      BY SMTT(20), Zenon, <1>6, <2>1, <3>1, <3>2, DriverConstants DEF Ex3Thread, Critical
    <3>3. CASE u # t
      BY <1>6, <2>1, <3>1, <3>3 DEF Ex3Thread
    <3> QED BY <3>2, <3>3
  <2>6. MutualExclusion' /\ free' \in {0, 1} /\ (free' = 1 <=> \A u \in Thread : pc'[u] \notin Critical)
    BY <1>6, <1>7, <2>1 DEF MutualExclusion, Critical
  <2> QED BY SMTT(20), Zenon, <1>7, <2>1, <2>3, <2>4, <2>5, <2>6 DEF Ex3Inv
<1>10. CASE ex3_store(t)
  <2>1. /\ pc[t] = "store" /\ pc' = [pc EXCEPT ![t] = "unlock"] /\ global_value' = global_value + 1
        /\ UNCHANGED <<free, reg, i>>
    BY <1>7, <1>10 DEF ex3_store, Ex3Thread
  <2>2. DriverTypeOK'
    <3>1. global_value' \in Int /\ reg' \in [Thread -> Int] /\ i' \in [Thread -> Nat]
      BY <1>6, <2>1
    <3>2. "unlock" \in Label \ {"none"}
      BY DEF Label
    <3> QED BY Zenon, <1>8, <2>1, <3>1, <3>2
  <2>3. Done(t) = i[t] /\ Done(t)' = i[t] + 1 /\ \A u \in Thread \ {t} : Done(u)' = Done(u)
    BY <1>6, <2>1 DEF Done
  <2>4. i[t] < ITERATIONS
    BY <1>7, <2>1 DEF Ex3Thread, Critical
  <2>5. Cardinality(Turns') = Cardinality(Turns) + 1
    BY <1>6, <2>3, <2>4, NextTurn
  <2>6. \A u \in Thread : Ex3Thread(u)'
    <3> TAKE u \in Thread
    <3>1. Ex3Thread(u) /\ Ex3Thread(t)
      BY <1>7
    <3>2. u # t => pc[u] # "store"
      BY <1>7, <2>1 DEF MutualExclusion, Critical
    <3> QED BY <1>6, <2>1, <2>4, <3>1, <3>2 DEF Ex3Thread, Critical
  <2>7. MutualExclusion' /\ free' \in {0, 1} /\ (free' = 1 <=> \A u \in Thread : pc'[u] \notin Critical)
    BY <1>6, <1>7, <2>1 DEF MutualExclusion, Critical
  <2> QED BY <1>7, <2>1, <2>2, <2>5, <2>6, <2>7 DEF Ex3Inv
<1>11. CASE spinlock_unlock(t)
  <2>1. /\ pc[t] = "unlock" /\ pc' = [pc EXCEPT ![t] = "loop"] /\ i' = [i EXCEPT ![t] = @ + 1]
        /\ free' = 1 /\ UNCHANGED <<global_value, reg>>
    BY <1>11 DEF spinlock_unlock
  <2>2. i' \in [Thread -> Nat] /\ i'[t] = i[t] + 1 /\ \A u \in Thread \ {t} : i'[u] = i[u]
    BY <1>6, <2>1
  <2>3. DriverTypeOK'
    BY Zenon, <1>6, <1>8, <2>1, <2>2 DEF Label
  <2>4. Turns' = Turns
    <3>1. \A u \in Thread : Done(u)' = Done(u)
      BY <1>6, <2>1, <2>2 DEF Done
    <3> QED BY <3>1, SameTurns
  <2>5. \A u \in Thread : Ex3Thread(u)'
    <3> TAKE u \in Thread
    <3>1. Ex3Thread(u) /\ Ex3Thread(t)
      BY <1>7
    <3>2. CASE u = t
      <4>1. i[t] < ITERATIONS /\ i[t] \in Nat
        BY <1>6, <2>1, <3>1 DEF Ex3Thread, Critical
      <4>2. i'[t] <= ITERATIONS /\ pc'[t] = "loop"
        BY SMTT(20), Zenon, <1>6, <2>1, <2>2, <4>1, DriverConstants
      <4> QED BY <3>2, <4>2 DEF Ex3Thread, Critical
    <3>3. CASE u # t
      BY <1>6, <2>1, <2>2, <3>1, <3>3 DEF Ex3Thread
    <3> QED BY <3>2, <3>3
  <2>6. MutualExclusion' /\ free' \in {0, 1} /\ (free' = 1 <=> \A u \in Thread : pc'[u] \notin Critical)
    BY SMTT(20), Zenon, <1>6, <1>7, <2>1 DEF MutualExclusion, Critical
  <2> QED BY <1>7, <2>1, <2>3, <2>4, <2>5, <2>6 DEF Ex3Inv
<1> QED BY <1>2, <1>9, <1>10, <1>11 DEF ex3_thread, ex3_fn

\* What a step of barrier_wait does to the calls that have been made.
LEMMA BarrierCall ==
    ASSUME BarrierTypeOK, NEW t \in Thread, barrier_wait(t)
    PROVE  /\ \A u \in Thread \ {t} : bpc'[u] = bpc[u] /\ left'[u] = left[u]
           /\ bpc'[t] = "out" => left'[t] = left[t] + 1
           /\ bpc'[t] # "out" => left'[t] = left[t]
<1>1. CASE barrier_enter(t)
  BY <1>1 DEF BarrierTypeOK, barrier_enter
<1>2. CASE barrier_arrive(t)
  BY <1>2 DEF BarrierTypeOK, barrier_arrive
<1>3. CASE barrier_reset(t)
  BY <1>3 DEF BarrierTypeOK, barrier_reset
<1>4. CASE barrier_load(t)
  BY <1>4 DEF BarrierTypeOK, barrier_load
<1>5. CASE barrier_release(t)
  BY <1>5 DEF BarrierTypeOK, barrier_release
<1>6. CASE barrier_leave(t)
  BY <1>6 DEF BarrierTypeOK, barrier_leave
<1> QED BY <1>1, <1>2, <1>3, <1>4, <1>5, <1>6 DEF barrier_wait, barrier_step

\* A thread that looks at global_value is between two phases: every thread has
\* added as often as it has, also those that have not left the last call.
LEMMA AllHaveAdded ==
    ASSUME DriverTypeOK, Ex2Inv, BarrierIInv, NEW t \in Thread, pc[t] = "barrier"
    PROVE  \A u \in Thread : Done(u) = i[t]
<1>1. PICK phase \in 0 .. MaxCalls : \A u \in Thread : ThreadInPhase(u, phase)
  BY DEF BarrierIInv, OnePhase
<1>2. i[t] \in Nat /\ phase = 2 * i[t] /\ phase \in Nat
  <2>1. i[t] \in Nat /\ bpc[t] = "out" /\ left[t] = 2 * i[t]
    BY Zenon DEF Ex2Inv, Ex2Thread, DriverTypeOK
  <2> QED BY <1>1, <2>1, BarrierAssumption DEF ThreadInPhase
<1> TAKE u \in Thread
<1>3. left[u] = phase \/ (left[u] = phase - 1 /\ bpc[u] = "spin")
  BY <1>1 DEF ThreadInPhase
<1>4. i[u] \in Nat /\ Ex2Thread(u)
  BY DEF Ex2Inv, DriverTypeOK
<1>5. CASE pc[u] \in {"ex2_add", "wait2"}
  <2>1. left[u] = 2 * i[u] + 1
    BY <1>4, <1>5 DEF Ex2Thread
  <2>2. left[u] = phase - 1 /\ bpc[u] = "spin"
    BY SMTT(20), Zenon, <1>2, <1>3, <1>4, <2>1
  <2>3. pc[u] = "wait2"
    BY <1>4, <1>5, <2>2 DEF Ex2Thread
  <2>4. i[u] + 1 = i[t]
    BY <1>2, <1>4, <2>1, <2>2
  <2> QED BY <2>3, <2>4 DEF Done
<1>6. CASE pc[u] \notin {"ex2_add", "wait2"}
  <2>1. left[u] = 2 * i[u]
    BY <1>4, <1>6 DEF Ex2Thread
  <2>2. i[u] = i[t]
    BY <1>2, <1>3, <1>4, <2>1
  <2>3. pc[u] \notin {"unlock", "wait2"}
    BY <1>4, <1>6 DEF Ex2Thread
  <2> QED BY <1>4, <2>2, <2>3 DEF Done
<1> QED BY <1>5, <1>6

\* ex2_fn.
LEMMA BarrierStep ==
    ASSUME DriverIInv, NEW t \in Thread, ThreadStep(t), exercise = 4
    PROVE  DriverIInv'
<1>0. DriverTypeOK /\ Ex2Inv /\ Unused /\ BarrierIInv /\ RWIInv /\ TestsSucceed
  BY DEF DriverIInv
<1>1. UNCHANGED <<exercise, created, printed>>
  BY SMTT(20), Zenon, MainWaits
<1>2. ex2_fn(t) /\ pc[t] # "none"
  BY <1>0, WhichFunction DEF Ex2Inv, Ex2Thread
<1>3. UNCHANGED <<free, reg, lvars>>
  BY <1>2 DEF ex2_fn, ex2_check, ex2_wait1, ex2_add, ex2_wait2, env_vars
<1>4. RWIInv' /\ TestsSucceed' /\ Unused'
  BY <1>0, <1>1, <1>3, LocksKept DEF TestsSucceed, Unused, lvars
<1>5. BarrierIInv'
  <2>1. barrier_wait(t) \/ UNCHANGED bvars
    BY <1>2 DEF ex2_fn, ex2_check, ex2_wait1, ex2_add, ex2_wait2
  <2> QED BY <1>0, <2>1, BarrierNextIInv DEF BarrierNext
<1>6. SUFFICES DriverTypeOK' /\ Ex2Inv'
  BY <1>1, <1>4, <1>5 DEF DriverIInv
<1>7. /\ global_value \in Int /\ pc \in [Thread -> Label] /\ reg' \in [Thread -> Int]
      /\ i \in [Thread -> Nat] /\ local \in [Thread -> [ret : {0}, prev_value : Int, j : Int]]
  BY <1>0, <1>3 DEF DriverTypeOK
<1>8. /\ \A u \in Thread : Ex2Thread(u) /\ i[u] \in Nat
      /\ global_value = Cardinality(Turns)
  BY <1>0, <1>7 DEF Ex2Inv
<1>9. ASSUME NEW label \in Label \ {"none"}, pc' = [pc EXCEPT ![t] = label],
             global_value' \in Int, i' \in [Thread -> Nat], \A u \in Thread \ {t} : i'[u] = i[u],
             local' \in [Thread -> [ret : {0}, prev_value : Int, j : Int]]
      PROVE  DriverTypeOK'
  BY Zenon, <1>0, <1>1, <1>2, <1>7, <1>9, TypesKept
<1>10. CASE ex2_check(t)
  <2>1. pc[t] = "barrier" /\ UNCHANGED <<global_value, i, bpc, left>>
    BY <1>10 DEF ex2_check, bvars
  <2>2. i[t] < ITERATIONS => global_value = num_threads * i[t]
    BY <1>0, <1>8, <2>1, AllHaveAdded, EqualTurns, DriverConstants
  <2>3. PICK label \in {"wait1", "return"} :
           /\ pc' = [pc EXCEPT ![t] = label]
           /\ label = "return" <=> i[t] = ITERATIONS
    BY SMTT(20), Zenon, <1>8, <1>10, DriverConstants DEF ex2_check, Goto, Ex2Thread
  <2>4. local' = local
    BY <1>7, <1>10, <2>2 DEF ex2_check
  <2>5. DriverTypeOK'
    <3>1. label \in Label \ {"none"}
      BY DEF Label
    <3> QED BY Zenon, <1>7, <1>9, <2>1, <2>3, <2>4, <3>1
  <2>6. Turns' = Turns
    <3>1. \A u \in Thread : Done(u)' = Done(u)
      BY <1>7, <2>1, <2>3 DEF Done
    <3> QED BY <3>1, SameTurns
  <2>7. \A u \in Thread : Ex2Thread(u)'
    <3> TAKE u \in Thread
    <3>1. CASE u = t
      <4>1. /\ i[t] \in Nat /\ bpc[t] = "out" /\ left[t] = 2 * i[t] /\ i[t] <= ITERATIONS
            /\ pc'[t] = label
        BY <1>7, <1>8, <2>1, <2>3 DEF Ex2Thread
      <4>2. label = "wait1" => i[t] < ITERATIONS
        BY SMTT(20), Zenon, <2>3, <4>1, DriverConstants
      <4> QED BY <2>1, <2>3, <3>1, <4>1, <4>2 DEF Ex2Thread
    <3>2. CASE u # t
      BY <1>7, <1>8, <2>1, <2>3, <3>2 DEF Ex2Thread
    <3> QED BY <3>1, <3>2
  <2> QED BY <1>8, <2>1, <2>5, <2>6, <2>7 DEF Ex2Inv
<1>11. CASE ex2_wait1(t)
  <2>1. pc[t] = "wait1" /\ UNCHANGED <<global_value, i, local>> /\ barrier_wait(t)
    BY <1>11 DEF ex2_wait1
  <2>2. PICK label \in {"ex2_add", "wait1"} :
           /\ pc' = [pc EXCEPT ![t] = label]
           /\ label = "ex2_add" <=> bpc'[t] = "out"
    BY Zenon, <1>11 DEF ex2_wait1, Goto
  <2>3. DriverTypeOK'
    <3>1. label \in Label \ {"none"}
      BY DEF Label
    <3> QED BY Zenon, <1>7, <1>9, <2>1, <2>2, <3>1
  <2>4. Turns' = Turns
    <3>1. \A u \in Thread : Done(u)' = Done(u)
      BY <1>7, <2>1, <2>2 DEF Done
    <3> QED BY <3>1, SameTurns
  <2>5. /\ \A u \in Thread \ {t} : bpc'[u] = bpc[u] /\ left'[u] = left[u]
        /\ bpc'[t] = "out" => left'[t] = left[t] + 1
        /\ bpc'[t] # "out" => left'[t] = left[t]
    BY <1>0, <2>1, BarrierCall DEF BarrierIInv
  <2>6. \A u \in Thread : Ex2Thread(u)'
    <3> TAKE u \in Thread
    <3>1. CASE u = t
      BY SMTT(20), Zenon, <1>7, <1>8, <2>1, <2>2, <2>5, <3>1 DEF Ex2Thread
    <3>2. CASE u # t
      BY <1>7, <1>8, <2>1, <2>2, <2>5, <3>2 DEF Ex2Thread
    <3> QED BY <3>1, <3>2
  <2> QED BY <1>8, <2>1, <2>3, <2>4, <2>6 DEF Ex2Inv
<1>12. CASE ex2_add(t)
  <2>1. /\ pc[t] = "ex2_add" /\ pc' = [pc EXCEPT ![t] = "wait2"]
        /\ global_value' = atomic_add(global_value) /\ UNCHANGED <<i, local, bpc, left>>
    BY <1>12 DEF ex2_add, Goto, bvars
  <2>2. Done(t) = i[t] /\ Done(t)' = i[t] + 1 /\ \A u \in Thread \ {t} : Done(u)' = Done(u)
    BY SMTT(20), Zenon, <1>7, <2>1 DEF Done
  <2>3. i[t] < ITERATIONS
    BY <1>8, <2>1 DEF Ex2Thread
  <2>4. /\ Cardinality(Turns) \in Nat /\ Cardinality(Turns') = Cardinality(Turns) + 1
        /\ Cardinality(Turns) < num_threads * ITERATIONS
    BY <1>7, <2>2, <2>3, NextTurn
  <2>5. global_value' = Cardinality(Turns')
    <3> DEFINE total == num_threads * ITERATIONS
    <3>1. total \in Nat /\ total <= INT_MAX /\ global_value < total
      BY <1>8, <2>4, DriverConstants
    <3> HIDE DEF total
    <3>2. global_value # INT_MAX
      BY <1>7, <3>1, DriverConstants
    <3> QED BY <1>8, <2>1, <2>4, <3>2 DEF atomic_add
  <2>6. DriverTypeOK'
    <3>1. global_value' \in Int
      BY <2>4, <2>5
    <3>2. "wait2" \in Label \ {"none"}
      BY DEF Label
    <3> QED BY Zenon, <1>7, <1>9, <2>1, <3>1, <3>2
  <2>7. \A u \in Thread : Ex2Thread(u)'
    <3> TAKE u \in Thread
    <3>1. CASE u = t
      BY SMTT(20), Zenon, <1>7, <1>8, <2>1, <3>1 DEF Ex2Thread
    <3>2. CASE u # t
      BY <1>7, <1>8, <2>1, <3>2 DEF Ex2Thread
    <3> QED BY <3>1, <3>2
  <2> QED BY <2>5, <2>6, <2>7 DEF Ex2Inv
<1>13. CASE ex2_wait2(t)
  <2>1. pc[t] = "wait2" /\ UNCHANGED <<global_value, local>> /\ barrier_wait(t)
    BY SMTT(20), Zenon, <1>13 DEF ex2_wait2
  <2>2. /\ \A u \in Thread \ {t} : bpc'[u] = bpc[u] /\ left'[u] = left[u]
        /\ bpc'[t] = "out" => left'[t] = left[t] + 1
        /\ bpc'[t] # "out" => left'[t] = left[t]
    BY SMTT(20), Zenon, <1>0, <2>1, BarrierCall DEF BarrierIInv
  <2>3. CASE bpc'[t] = "out"
    <3>1. pc' = [pc EXCEPT ![t] = "barrier"] /\ i' = [i EXCEPT ![t] = @ + 1]
      BY <1>13, <2>3 DEF ex2_wait2, Goto
    <3>2. i' \in [Thread -> Nat] /\ i'[t] = i[t] + 1 /\ \A u \in Thread \ {t} : i'[u] = i[u]
      BY <1>7, <3>1
    <3>3. DriverTypeOK'
      <4>1. "barrier" \in Label \ {"none"}
        BY DEF Label
      <4> QED BY Zenon, <1>7, <1>9, <2>1, <3>1, <3>2, <4>1
    <3>4. Turns' = Turns
      <4>1. \A u \in Thread : Done(u)' = Done(u)
        BY <1>7, <1>8, <2>1, <3>1, <3>2 DEF Done
      <4> QED BY <4>1, SameTurns
    <3>5. \A u \in Thread : Ex2Thread(u)'
      <4> TAKE u \in Thread
      <4>1. CASE u = t
        <5>1. i[t] < ITERATIONS /\ left[t] = 2 * i[t] + 1 /\ i[t] \in Nat
          BY <1>8, <2>1 DEF Ex2Thread
        <5>2. i'[t] <= ITERATIONS /\ left'[t] = 2 * i'[t] /\ pc'[t] = "barrier"
          <6>1. left'[t] = (2 * i[t] + 1) + 1 /\ i'[t] = i[t] + 1 /\ pc'[t] = "barrier"
            BY <1>7, <2>2, <2>3, <3>1, <3>2, <5>1
          <6> QED BY SMTT(20), Zenon, <5>1, <6>1, DriverConstants
        <5> QED BY Zenon, <2>3, <4>1, <5>2 DEF Ex2Thread
      <4>2. CASE u # t
        BY SMTT(20), Zenon, <1>7, <1>8, <2>2, <3>1, <3>2, <4>2 DEF Ex2Thread
      <4> QED BY <4>1, <4>2
    <3> QED BY <1>8, <2>1, <3>3, <3>4, <3>5 DEF Ex2Inv
  <2>4. CASE bpc'[t] # "out"
    <3>1. pc' = pc /\ i' = i
      BY <1>13, <2>4 DEF ex2_wait2
    <3>2. DriverTypeOK'
      <4>1. pc' = [pc EXCEPT ![t] = "wait2"] /\ "wait2" \in Label \ {"none"}
        BY <1>7, <2>1, <3>1 DEF Label
      <4> QED BY Zenon, <1>7, <1>9, <2>1, <3>1, <4>1
    <3>3. Turns' = Turns
      <4>1. \A u \in Thread : Done(u)' = Done(u)
        BY <3>1 DEF Done
      <4> QED BY <4>1, SameTurns
    <3>4. \A u \in Thread : Ex2Thread(u)'
      <4> TAKE u \in Thread
      <4>1. Ex2Thread(u) /\ pc'[u] = pc[u] /\ i'[u] = i[u]
        BY <1>8, <3>1, ZenonT(30)
      <4>2. CASE u = t
        <5>1. left'[t] = left[t]
          BY Zenon, <2>2, <2>4
        <5> QED BY Zenon, <2>1, <2>4, <4>1, <4>2, <5>1 DEF Ex2Thread
      <4>3. CASE u # t
        <5>1. left'[u] = left[u] /\ bpc'[u] = bpc[u]
          BY <2>2, <4>3
        <5> QED BY Zenon, <4>1, <5>1 DEF Ex2Thread
      <4> QED BY <4>2, <4>3
    <3> QED BY <1>8, <2>1, <3>2, <3>3, <3>4 DEF Ex2Inv
  <2> QED BY <2>3, <2>4
<1> QED BY <1>2, <1>10, <1>11, <1>12, <1>13 DEF ex2_fn

=============================================================================
