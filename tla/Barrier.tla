------------------------------ MODULE Barrier ------------------------------
(***************************************************************************)
(* The barrier of sync_tools/locking.c.  init_count threads call           *)
(* barrier_wait again and again, each at most MaxCalls times; the last one *)
(* to arrive resets cur_count and advances iterations, and the others spin *)
(* on iterations.  iterations is an int and wraps.                         *)
(***************************************************************************)
EXTENDS Atomics, FiniteSets

CONSTANT MaxCalls    \* bound on the calls of one thread

ASSUME BarrierAssumption ==
    /\ IsFiniteSet(Thread)
    /\ Cardinality(Thread) \in 1 .. INT_MAX
    /\ MaxCalls \in Nat

VARIABLES
    iterations, \* bar->iterations
    cur_count,  \* bar->cur_count
    bpc,        \* where each thread is in barrier_wait
    my_iter,    \* the local my_iter of barrier_wait
    breg,       \* the register of the load of bar->iterations++
    arrived,    \* history: XADDs a thread has done
    left        \* history: calls a thread has returned from

init_count == Cardinality(Thread)

bvars == <<iterations, cur_count, bpc, my_iter, breg, arrived, left>>

\* barrier_init(bar, init_count), before the threads are created.
barrier_init ==
    /\ iterations = 0
    /\ cur_count = 0
    /\ bpc = [t \in Thread |-> "out"]
    /\ my_iter = [t \in Thread |-> 0]
    /\ breg = [t \in Thread |-> 0]
    /\ arrived = [t \in Thread |-> 0]
    /\ left = [t \in Thread |-> 0]

\* int my_iter = bar->iterations
barrier_enter(t) ==
    /\ bpc[t] = "out"
    /\ left[t] < MaxCalls
    /\ my_iter' = [my_iter EXCEPT ![t] = iterations]
    /\ bpc' = [bpc EXCEPT ![t] = "xadd"]
    /\ UNCHANGED <<iterations, cur_count, breg, arrived, left>>

\* A mistaken barrier whose last arriver is recognised one too early.
barrier_arrive_early(t) ==
    /\ bpc[t] = "xadd"
    /\ cur_count' = atomic_add(cur_count)
    /\ arrived' = [arrived EXCEPT ![t] = @ + 1]
    /\ bpc' = [bpc EXCEPT ![t] = IF cur_count >= init_count - 2 THEN "reset" ELSE "spin"]
    /\ UNCHANGED <<iterations, my_iter, breg, left>>

\* prev = atomic_add_ret_prev(&bar->cur_count, 1) and the test of prev, which
\* reads nothing shared that ever changes.
barrier_arrive(t) ==
    /\ bpc[t] = "xadd"
    /\ cur_count' = atomic_add(cur_count)
    /\ arrived' = [arrived EXCEPT ![t] = @ + 1]
    /\ bpc' = [bpc EXCEPT ![t] = IF cur_count = init_count - 1 THEN "reset" ELSE "spin"]
    /\ UNCHANGED <<iterations, my_iter, breg, left>>

\* A mistaken barrier that never resets its count.
barrier_reset_lost(t) ==
    /\ bpc[t] = "reset"
    /\ bpc' = [bpc EXCEPT ![t] = "load"]
    /\ UNCHANGED <<iterations, cur_count, my_iter, breg, arrived, left>>

\* bar->cur_count = 0
barrier_reset(t) ==
    /\ bpc[t] = "reset"
    /\ cur_count' = 0
    /\ bpc' = [bpc EXCEPT ![t] = "load"]
    /\ UNCHANGED <<iterations, my_iter, breg, arrived, left>>

\* bar->iterations++: the load ...
barrier_load(t) ==
    /\ bpc[t] = "load"
    /\ breg' = [breg EXCEPT ![t] = iterations]
    /\ bpc' = [bpc EXCEPT ![t] = "store"]
    /\ UNCHANGED <<iterations, cur_count, my_iter, arrived, left>>

\* ... and the store, after which the last arriver returns.
barrier_release(t) ==
    /\ bpc[t] = "store"
    /\ iterations' = atomic_add(breg[t])
    /\ left' = [left EXCEPT ![t] = @ + 1]
    /\ bpc' = [bpc EXCEPT ![t] = "out"]
    /\ UNCHANGED <<cur_count, my_iter, breg, arrived>>

\* A mistaken waiter that leaves when iterations is what it was on entry.
barrier_leave_early(t) ==
    /\ bpc[t] = "spin"
    /\ iterations \in {my_iter[t], atomic_add(my_iter[t])}
    /\ left' = [left EXCEPT ![t] = @ + 1]
    /\ bpc' = [bpc EXCEPT ![t] = "out"]
    /\ UNCHANGED <<iterations, cur_count, my_iter, breg, arrived>>

\* The read of bar->iterations that ends the spinning, or one that changes
\* nothing.
barrier_leave(t) ==
    /\ bpc[t] = "spin"
    /\ IF iterations = atomic_add(my_iter[t])
       THEN /\ left' = [left EXCEPT ![t] = @ + 1]
            /\ bpc' = [bpc EXCEPT ![t] = "out"]
       ELSE UNCHANGED <<left, bpc>>
    /\ UNCHANGED <<iterations, cur_count, my_iter, breg, arrived>>

\* The steps of a call after the one that enters it.
barrier_step(t) ==
    \/ barrier_arrive(t)
    \/ barrier_reset(t)
    \/ barrier_load(t)
    \/ barrier_release(t)
    \/ barrier_leave(t)

barrier_wait(t) == barrier_enter(t) \/ barrier_step(t)

\* Every thread has made its calls.
Finished ==
    /\ \A t \in Thread : bpc[t] = "out" /\ left[t] = MaxCalls
    /\ UNCHANGED bvars

BarrierNext == (\E t \in Thread : barrier_wait(t)) \/ Finished

\* A thread has a CPU of its own and is inside the call: it keeps running.
\* Nothing makes a thread call again.
BarrierFairness == \A t \in Thread : WF_bvars(barrier_step(t))

BarrierSpec == barrier_init /\ [][BarrierNext]_bvars /\ BarrierFairness

-----------------------------------------------------------------------------
BarrierTypeOK ==
    /\ iterations \in int
    /\ cur_count \in 0 .. init_count
    /\ bpc \in [Thread -> {"out", "xadd", "reset", "load", "store", "spin"}]
    /\ my_iter \in [Thread -> int]
    /\ breg \in [Thread -> int]
    /\ arrived \in [Thread -> 0 .. MaxCalls]
    /\ left \in [Thread -> 0 .. MaxCalls]

\* No thread returns from its n-th barrier_wait before every thread has
\* arrived at its own n-th: what the caller relies on.
NobodyLeavesEarly == \A t, u \in Thread : left[t] <= arrived[u]

\* How one thread stands to the phase, which is the number of times the
\* barrier has been released: it is at most one call behind or ahead, and
\* its my_iter tells it truly whether its call has been released.
ThreadInPhase(t, phase) ==
    \/ /\ bpc[t] \in {"out", "xadd"}
       /\ left[t] = phase
       /\ arrived[t] = phase
       /\ bpc[t] = "xadd" => my_iter[t] = iterations /\ phase < MaxCalls
    \/ /\ bpc[t] = "spin"
       /\ left[t] = phase
       /\ arrived[t] = phase + 1
       /\ my_iter[t] = iterations
    \/ /\ bpc[t] = "spin"
       /\ left[t] = phase - 1
       /\ arrived[t] = phase
       /\ atomic_add(my_iter[t]) = iterations
    \/ /\ bpc[t] \in {"reset", "load", "store"}
       /\ left[t] = phase
       /\ arrived[t] = phase + 1
       /\ \A u \in Thread \ {t} : bpc[u] = "spin" /\ arrived[u] = phase + 1
       /\ bpc[t] = "store" => breg[t] = iterations

\* Between the reset and the release cur_count is 0 and no thread can touch
\* it; otherwise it counts the threads that have arrived in this phase.
CountInPhase(phase) ==
    cur_count = IF \E t \in Thread : bpc[t] \in {"load", "store"} THEN 0
                ELSE Cardinality({t \in Thread : arrived[t] = phase + 1})

\* All threads agree on one phase, and the two words of the barrier reflect
\* it, in the middle of the non-atomic reset too.  Inductive with BarrierTypeOK.
OnePhase ==
    \E phase \in 0 .. MaxCalls :
        /\ \A t \in Thread : ThreadInPhase(t, phase)
        /\ CountInPhase(phase)

\* The barrier of locking.c implements the abstract one: reset and release
\* are invisible, a wrapped iterations lets nobody through.
Abstract == INSTANCE AbstractBarrier

Refinement == Abstract!Spec

\* Once every thread has arrived at its n-th call, every thread returns from
\* it, however the spinning threads, the non-atomic reset and the threads that
\* already call again interleave.
Released ==
    \A n \in 1 .. MaxCalls :
        (\A t \in Thread : arrived[t] >= n) ~> (\A t \in Thread : left[t] >= n)
=============================================================================
