------------------------------ MODULE Spinlock ------------------------------
(***************************************************************************)
(* The spin lock of sync_tools/locking.c, used the way ex3_fn of           *)
(* sync_tools/driver.c uses it: every thread enters the critical section   *)
(* ITERATIONS times and increments the shared global_value there with a    *)
(* plain load and a plain store.                                           *)
(***************************************************************************)
EXTENDS Atomics

CONSTANT ITERATIONS

ASSUME IterationsAssumption == ITERATIONS \in Nat

VARIABLES
    free,          \* lock->free
    global_value,  \* the unprotected counter of the driver
    pc,            \* where each thread is in the body of ex3_fn
    reg,           \* the register that holds the loaded global_value
    i,             \* the loop counter of each thread
    increments     \* history: completed executions of global_value += 1

svars == <<free, global_value, pc, reg, i, increments>>

SpinInit ==
    /\ free = 1
    /\ global_value = 0
    /\ pc = [t \in Thread |-> "loop"]
    /\ reg = [t \in Thread |-> 0]
    /\ i = [t \in Thread |-> 0]
    /\ increments = 0

\* The loop test of ex3_fn: call spinlock_lock once more, or return.
ex3_loop(t) ==
    /\ pc[t] = "loop"
    /\ pc' = [pc EXCEPT ![t] = IF i[t] < ITERATIONS THEN "lock" ELSE "return"]
    /\ UNCHANGED <<free, global_value, reg, i, increments>>

\* A mistaken lock that tests the word and swaps it whatever it holds.
spinlock_lock_blind(t) ==
    /\ pc[t] = "lock"
    /\ free' = 0
    /\ pc' = [pc EXCEPT ![t] = "load"]
    /\ UNCHANGED <<global_value, reg, i, increments>>

\* One turn of the loop of spinlock_lock: a compare_and_swap that returns 1
\* ends the spinning, one that returns 0 changes nothing.
spinlock_lock(t) ==
    /\ pc[t] = "lock"
    /\ free' = compare_and_swap(free, 1, 0)
    /\ pc' = [pc EXCEPT ![t] = IF free # 0 THEN "load" ELSE "lock"]
    /\ UNCHANGED <<global_value, reg, i, increments>>

\* global_value += 1, as the load and the store the build makes of it.
ex3_load(t) ==
    /\ pc[t] = "load"
    /\ reg' = [reg EXCEPT ![t] = global_value]
    /\ pc' = [pc EXCEPT ![t] = "store"]
    /\ UNCHANGED <<free, global_value, i, increments>>

ex3_store(t) ==
    /\ pc[t] = "store"
    /\ global_value' = reg[t] + 1
    /\ increments' = increments + 1
    /\ pc' = [pc EXCEPT ![t] = "unlock"]
    /\ UNCHANGED <<free, reg, i>>

\* A mistaken unlock that leaves the word as it is.
spinlock_unlock_lost(t) ==
    /\ pc[t] = "unlock"
    /\ i' = [i EXCEPT ![t] = @ + 1]
    /\ pc' = [pc EXCEPT ![t] = "loop"]
    /\ UNCHANGED <<free, global_value, reg, increments>>

\* The plain store of spinlock_unlock, and the i++ of the loop.
spinlock_unlock(t) ==
    /\ pc[t] = "unlock"
    /\ free' = 1
    /\ i' = [i EXCEPT ![t] = @ + 1]
    /\ pc' = [pc EXCEPT ![t] = "loop"]
    /\ UNCHANGED <<global_value, reg, increments>>

ex3_fn(t) ==
    \/ ex3_loop(t)
    \/ spinlock_lock(t)
    \/ ex3_load(t)
    \/ ex3_store(t)
    \/ spinlock_unlock(t)

Joined == \A t \in Thread : pc[t] = "return"

\* main of the driver returns from the last pthread_join.
Terminated == Joined /\ UNCHANGED svars

SpinNext == (\E t \in Thread : ex3_fn(t)) \/ Terminated

\* Every thread has a CPU of its own (pthread_attr_setaffinity_np), so a
\* thread that can take a step takes one.
SpinFairness == \A t \in Thread : WF_svars(ex3_fn(t))

SpinSpec == SpinInit /\ [][SpinNext]_svars /\ SpinFairness

-----------------------------------------------------------------------------
Critical == {"load", "store", "unlock"}

SpinTypeOK ==
    /\ free \in {0, 1}
    /\ global_value \in Nat
    /\ pc \in [Thread -> {"loop", "lock", "return"} \cup Critical]
    /\ reg \in [Thread -> Nat]
    /\ i \in [Thread -> 0 .. ITERATIONS]
    /\ increments \in Nat

\* At most one thread is between the return of spinlock_lock and the store
\* of spinlock_unlock.
MutualExclusion ==
    \A s, t \in Thread : pc[s] \in Critical /\ pc[t] \in Critical => s = t

\* No increment of the unprotected counter is lost: global_value is the
\* number of executions of global_value += 1 that have completed.
NoLostUpdate == global_value = increments

\* The lock word is 1 exactly when nobody is in the critical section, and the
\* value a thread has loaded there is still the value of the counter.  With
\* mutual exclusion this is inductive.
SpinInv ==
    /\ free = 1 <=> \A t \in Thread : pc[t] \notin Critical
    /\ \A t \in Thread : pc[t] = "store" => reg[t] = global_value
    /\ \A t \in Thread : pc[t] \in Critical \cup {"lock"} => i[t] < ITERATIONS

SpinIInv == SpinTypeOK /\ MutualExclusion /\ NoLostUpdate /\ SpinInv
=============================================================================
