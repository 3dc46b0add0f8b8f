------------------------------- MODULE Driver -------------------------------
(***************************************************************************)
(* sync_tools/driver.c: main runs its exercises one after the other, each  *)
(* with num_threads new threads that it joins, and prints for each of them *)
(* whether it came out right.  The threads use the atomic operations, the  *)
(* spin lock (Spinlock), the barrier (Barrier), the reader-writer lock     *)
(* (RWLock) and the pthread_barrier_t "barrier" of the C library.          *)
(*                                                                         *)
(* Left out are the exercise of the lock-free queue, which is in LFQueue,  *)
(* and the checks of a single atomic operation, which have no threads.     *)
(* usleep only takes time, and prev_glob is written and never read.        *)
(*                                                                         *)
(* pc is where a thread is in its function; while that is a call of the    *)
(* barrier or of the reader-writer lock, bpc or lpc is where it is in the  *)
(* call.                                                                   *)
(***************************************************************************)
EXTENDS Spinlock, Barrier, RWLock

CONSTANT RW_ITERATIONS      \* ITERATIONS / 10

num_threads == Cardinality(Thread)

ASSUME DriverAssumption ==
    /\ IsFiniteSet(Thread) /\ num_threads > 1
    /\ Thread = 0 .. num_threads - 1
    /\ RW_ITERATIONS \in Nat \ {0}
    /\ num_threads * ITERATIONS \in int
    /\ MaxCalls = 2 * ITERATIONS         \* the calls of ex2_fn

VARIABLES
    exercise,       \* what main is at
    created,        \* the threads of the exercise that have been created
    printed,        \* what main has printed: <<exercise, result>>
    waiting,        \* the threads that pthread_barrier_wait(&barrier) holds
    local           \* the locals ret, prev_value and j of a thread

main_vars == <<exercise, created, printed>>
env_vars == <<main_vars, waiting, free, increments>>
drv_vars == <<env_vars, global_value, pc, reg, i, local, bvars, lvars>>

Exercises == <<"sub", "add", "spinlock", "barrier", "rwlock", "end">>

\* The thread of the last exercise that writes; the others read.
Writer == num_threads - 1

NoLocals == [ret |-> 0, prev_value |-> 0, j |-> 0]

\* The locks are as their init functions leave them: nothing uses one of them
\* before its exercise.
DriverInit ==
    /\ exercise = 1
    /\ created = {}
    /\ printed = {}
    /\ waiting = {}
    /\ free = 1
    /\ increments = 0
    /\ global_value = num_threads * ITERATIONS
    /\ pc = [t \in Thread |-> "none"]
    /\ reg = [t \in Thread |-> 0]
    /\ i = [t \in Thread |-> 0]
    /\ local = [t \in Thread |-> NoLocals]
    /\ barrier_init
    /\ rw_lock_init

-----------------------------------------------------------------------------
Goto(t, label) == pc' = [pc EXCEPT ![t] = label]

\* pthread_barrier_wait(&barrier): the last of num_threads lets the others go on.
pthread_barrier_wait(t, before, after) ==
    /\ pc[t] = before
    /\ Goto(t, after)
    /\ waiting' = IF waiting \cup {t} = Thread THEN {} ELSE waiting \cup {t}
    /\ UNCHANGED <<main_vars, free, increments, global_value, reg, i, local, bvars, lvars>>

\* One turn of the loops of ex1_sub_fn and ex1_add_fn.
ex1_turn(t, value) ==
    /\ IF i[t] < ITERATIONS
       THEN global_value' = value /\ i' = [i EXCEPT ![t] = @ + 1] /\ UNCHANGED pc
       ELSE Goto(t, "return") /\ UNCHANGED <<global_value, i>>
    /\ UNCHANGED <<env_vars, reg, local, bvars, lvars>>

ex1_sub_fn(t) ==
    \/ pthread_barrier_wait(t, "sub", "ex1_sub")
    \/ pc[t] = "ex1_sub" /\ ex1_turn(t, atomic_sub(global_value))

ex1_add_fn(t) ==
    \/ pthread_barrier_wait(t, "add", "ex1_add")
    \/ pc[t] = "ex1_add" /\ ex1_turn(t, atomic_add(global_value))

\* ex3_fn of Spinlock, behind the pthread barrier.
ex3_thread(t) ==
    \/ pthread_barrier_wait(t, "spinlock", "loop")
    \/ ex3_fn(t) /\ UNCHANGED <<main_vars, waiting, local, bvars, lvars>>

-----------------------------------------------------------------------------
\* The test of the loop of ex2_fn, and the check of global_value.
ex2_check(t) ==
    /\ pc[t] = "barrier"
    /\ IF i[t] < ITERATIONS
       THEN /\ local' = [local EXCEPT ![t].ret = IF global_value # num_threads * i[t] THEN -1 ELSE @]
            /\ Goto(t, "wait1")
       ELSE Goto(t, "return") /\ UNCHANGED local
    /\ UNCHANGED <<env_vars, global_value, reg, i, bvars, lvars>>

\* The first barrier_wait(test_barrier) of the loop, ...
ex2_wait1(t) ==
    /\ pc[t] = "wait1"
    /\ barrier_wait(t)
    /\ Goto(t, IF bpc'[t] = "out" THEN "ex2_add" ELSE "wait1")
    /\ UNCHANGED <<env_vars, global_value, reg, i, local, lvars>>

ex2_add(t) ==
    /\ pc[t] = "ex2_add"
    /\ global_value' = atomic_add(global_value)
    /\ Goto(t, "wait2")
    /\ UNCHANGED <<env_vars, reg, i, local, bvars, lvars>>

\* A mistaken loop without its second barrier_wait.
ex2_wait2_left_out(t) ==
    /\ pc[t] = "wait2"
    /\ Goto(t, "barrier")
    /\ i' = [i EXCEPT ![t] = @ + 1]
    /\ UNCHANGED <<env_vars, global_value, reg, local, bvars, lvars>>

\* ... and the second one.
ex2_wait2(t) ==
    /\ pc[t] = "wait2"
    /\ barrier_wait(t)
    /\ IF bpc'[t] = "out" THEN Goto(t, "barrier") /\ i' = [i EXCEPT ![t] = @ + 1]
       ELSE UNCHANGED <<pc, i>>
    /\ UNCHANGED <<env_vars, global_value, reg, local, lvars>>

ex2_fn(t) == ex2_check(t) \/ ex2_wait1(t) \/ ex2_add(t) \/ ex2_wait2(t)

-----------------------------------------------------------------------------
\* A step of rw_read_lock or rw_write_lock; the function goes on to the line
\* after when the lock is held.
rw_lock(t, before, call, held, after) ==
    /\ pc[t] = before
    /\ call
    /\ Goto(t, IF lpc'[t] = held THEN after ELSE before)
    /\ UNCHANGED <<env_vars, global_value, reg, i, local, bvars>>

read_lock(t, before, after) ==
    rw_lock(t, before, rw_read_call(t) \/ rw_read_lock(t), "reading", after)

\* int prev_value = global_value
ex4_read_begin(t) ==
    /\ pc[t] = "read"
    /\ local' = [local EXCEPT ![t].prev_value = global_value]
    /\ Goto(t, "read_lock1")
    /\ UNCHANGED <<env_vars, global_value, reg, i, bvars, lvars>>

read_unlock1(t) ==
    /\ pc[t] = "read_unlock1"
    /\ rw_read_unlock(t)
    /\ Goto(t, "read_wait2")
    /\ UNCHANGED <<env_vars, global_value, reg, i, local, bvars>>

ex4_loop(t, before, body) ==
    /\ pc[t] = before
    /\ Goto(t, IF i[t] < RW_ITERATIONS THEN body ELSE "return")
    /\ UNCHANGED <<env_vars, global_value, reg, i, local, bvars, lvars>>

\* if (prev_value > global_value) ret = -1
ex4_read_test(t) ==
    /\ pc[t] = "read_test"
    /\ local' = [local EXCEPT ![t].ret = IF local[t].prev_value > global_value THEN -1 ELSE @]
    /\ Goto(t, "read_save")
    /\ UNCHANGED <<env_vars, global_value, reg, i, bvars, lvars>>

\* prev_value = global_value, which is read once more, and the j++ of the loop.
ex4_read_save(t) ==
    LET last == local[t].j = RW_ITERATIONS - 1
    IN /\ pc[t] = "read_save"
       /\ local' = [local EXCEPT ![t].prev_value = global_value, ![t].j = IF last THEN 0 ELSE @ + 1]
       /\ Goto(t, IF last THEN "read_unlock" ELSE "read_test")
       /\ UNCHANGED <<env_vars, global_value, reg, i, bvars, lvars>>

\* The unlock at the end of a turn, and i++.
ex4_unlock(t, before, call, loop) ==
    /\ pc[t] = before
    /\ call
    /\ i' = [i EXCEPT ![t] = @ + 1]
    /\ Goto(t, loop)
    /\ UNCHANGED <<env_vars, global_value, reg, local, bvars>>

ex4_read_fn(t) ==
    \/ ex4_read_begin(t)
    \/ read_lock(t, "read_lock1", "read_wait1")
    \/ pthread_barrier_wait(t, "read_wait1", "read_unlock1")
    \/ read_unlock1(t)
    \/ pthread_barrier_wait(t, "read_wait2", "read_loop")
    \/ ex4_loop(t, "read_loop", "read_lock")
    \/ read_lock(t, "read_lock", "read_test")
    \/ ex4_read_test(t)
    \/ ex4_read_save(t)
    \/ ex4_unlock(t, "read_unlock", rw_read_unlock(t), "read_loop")

\* global_value = 0
ex4_write_zero(t) ==
    /\ pc[t] = "write_zero"
    /\ global_value' = 0
    /\ Goto(t, "write_load")
    /\ UNCHANGED <<env_vars, reg, i, local, bvars, lvars>>

\* global_value += i, as a load and a store.
ex4_write_load(t) ==
    /\ pc[t] = "write_load"
    /\ reg' = [reg EXCEPT ![t] = global_value]
    /\ Goto(t, "write_store")
    /\ UNCHANGED <<env_vars, global_value, i, local, bvars, lvars>>

ex4_write_store(t) ==
    /\ pc[t] = "write_store"
    /\ global_value' = reg[t] + i[t]
    /\ Goto(t, "write_unlock")
    /\ UNCHANGED <<env_vars, reg, i, local, bvars, lvars>>

ex4_write_fn(t) ==
    \/ pthread_barrier_wait(t, "write", "write_wait2")
    \/ pthread_barrier_wait(t, "write_wait2", "write_loop")
    \/ ex4_loop(t, "write_loop", "write_lock")
    \/ rw_lock(t, "write_lock", rw_write_call(t) \/ rw_write_lock(t), "writing", "write_zero")
    \/ ex4_write_zero(t)
    \/ ex4_write_load(t)
    \/ ex4_write_store(t)
    \/ ex4_unlock(t, "write_unlock", rw_write_unlock(t), "write_loop")

ThreadStep(t) ==
    /\ t \notin waiting
    /\ \/ ex1_sub_fn(t) \/ ex1_add_fn(t) \/ ex2_fn(t) \/ ex3_thread(t)
       \/ ex4_read_fn(t) \/ ex4_write_fn(t)

-----------------------------------------------------------------------------
\* pthread_create, in the order of the threads; a thread runs at once.
main_create ==
    LET t == Cardinality(created)
        fn == IF Exercises[exercise] # "rwlock" THEN Exercises[exercise]
              ELSE IF t = Writer THEN "write" ELSE "read"
    IN /\ Exercises[exercise] # "end" /\ t < num_threads
       /\ created' = created \cup {t}
       /\ Goto(t, fn)
       /\ UNCHANGED <<exercise, printed, waiting, free, increments, global_value, reg, i, local,
                      bvars, lvars>>

\* What main checks when the threads have been joined.
passed ==
    CASE Exercises[exercise] = "sub" -> global_value = 0
      [] Exercises[exercise] \in {"add", "spinlock"} -> global_value = num_threads * ITERATIONS
      [] OTHER -> \A t \in Thread : local[t].ret = 0

\* The pthread_join calls return, main prints the result and goes on to the
\* next exercise, which sets global_value to 0.  The threads, their locals and
\* their registers are gone.
main_join ==
    /\ created = Thread /\ \A t \in Thread : pc[t] = "return"
    /\ printed' = printed \cup {<<Exercises[exercise], IF passed THEN "SUCCESS" ELSE "ERROR">>}
    /\ exercise' = exercise + 1
    /\ created' = {}
    /\ global_value' = 0
    /\ pc' = [t \in Thread |-> "none"]
    /\ reg' = [t \in Thread |-> 0]
    /\ i' = [t \in Thread |-> 0]
    /\ local' = [t \in Thread |-> NoLocals]
    /\ my_iter' = [t \in Thread |-> 0]
    /\ breg' = [t \in Thread |-> 0]
    /\ UNCHANGED <<waiting, free, increments, iterations, cur_count, bpc, arrived, left, lvars>>

main == main_create \/ main_join

Exited == Exercises[exercise] = "end" /\ UNCHANGED drv_vars

DriverNext == main \/ (\E t \in Thread : ThreadStep(t)) \/ Exited

\* main and every thread have a CPU to run on.
DriverSpec ==
    /\ DriverInit /\ [][DriverNext]_drv_vars
    /\ WF_drv_vars(main) /\ \A t \in Thread : WF_drv_vars(ThreadStep(t))

-----------------------------------------------------------------------------
\* No exercise prints ERROR: no atomic update and no locked one is lost, no
\* thread of the barrier exercise is ahead or behind when it looks at
\* global_value without a lock, and no reader sees the 0 that the writer
\* stores before the new value.
TestsSucceed == \A e \in printed : e[2] = "SUCCESS"

\* The driver comes to its end: no exercise hangs, although the spin lock and
\* the mutex of the reader-writer lock are fair to nobody, readers wait for
\* the pthread barrier while they hold the read lock, and threads of the
\* barrier exercise run before the others have been created.
DriverEnds == <>(Exercises[exercise] = "end")
=============================================================================
