------------------------------- MODULE RWLock -------------------------------
(***************************************************************************)
(* The reader-writer lock of sync_tools/locking.c.  A thread that enters   *)
(* takes the embedded spin lock, spins while it is kept out, counts itself *)
(* in, and gives the spin lock back; a thread that leaves only counts      *)
(* itself out.  Every read and write of a shared word is a step.           *)
(***************************************************************************)
EXTENDS Atomics, FiniteSets

ASSUME RWAssumption ==
    /\ IsFiniteSet(Thread)
    /\ Cardinality(Thread) < INT_MAX

VARIABLES
    num_readers,   \* lock->num_readers
    writer,        \* lock->writer
    mutex,         \* lock->mutex.free
    lpc            \* where each thread is in the five operations

lvars == <<num_readers, writer, mutex, lpc>>

rw_goto(t, label) == lpc' = [lpc EXCEPT ![t] = label]

rw_lock_init ==
    /\ num_readers = 0
    /\ writer = 0
    /\ mutex = 1
    /\ lpc = [t \in Thread |-> "out"]

\* The calls of rw_read_lock and rw_write_lock.
rw_read_call(t) ==
    /\ lpc[t] = "out"
    /\ rw_goto(t, "r_mutex")
    /\ UNCHANGED <<num_readers, writer, mutex>>

rw_write_call(t) ==
    /\ lpc[t] = "out"
    /\ rw_goto(t, "w_mutex")
    /\ UNCHANGED <<num_readers, writer, mutex>>

\* One turn of the loop of spinlock_lock(&lock->mutex).
mutex_lock(t, before, after) ==
    /\ lpc[t] = before
    /\ mutex' = compare_and_swap(mutex, 1, 0)
    /\ rw_goto(t, IF mutex # 0 THEN after ELSE before)
    /\ UNCHANGED <<num_readers, writer>>

\* spinlock_unlock(&lock->mutex), after which the operation returns.
mutex_unlock(t, before, after) ==
    /\ lpc[t] = before
    /\ mutex' = 1
    /\ rw_goto(t, after)
    /\ UNCHANGED <<num_readers, writer>>

\* while(lock->writer)
rw_read_wait(t) ==
    /\ lpc[t] = "r_wait"
    /\ rw_goto(t, IF writer = 0 THEN "r_add" ELSE "r_wait")
    /\ UNCHANGED <<num_readers, writer, mutex>>

\* atomic_add(&lock->num_readers, 1): from here on the thread holds the lock.
rw_read_add(t) ==
    /\ lpc[t] = "r_add"
    /\ num_readers' = atomic_add(num_readers)
    /\ rw_goto(t, "r_unlock")
    /\ UNCHANGED <<writer, mutex>>

\* A mistaken reader that leaves without counting itself out.
rw_read_unlock_lost(t) ==
    /\ lpc[t] = "reading"
    /\ rw_goto(t, "out")
    /\ UNCHANGED <<num_readers, writer, mutex>>

\* atomic_sub(&lock->num_readers, 1)
rw_read_unlock(t) ==
    /\ lpc[t] = "reading"
    /\ num_readers' = atomic_sub(num_readers)
    /\ rw_goto(t, "out")
    /\ UNCHANGED <<writer, mutex>>

\* A mistaken writer that gives the mutex back while it waits for readers.
rw_write_wait1_unlocks(t) ==
    /\ lpc[t] = "w_wait1"
    /\ writer = 0
    /\ mutex' = 1
    /\ rw_goto(t, "w_wait2")
    /\ UNCHANGED <<num_readers, writer>>

\* while(lock->writer || lock->num_readers > 0): the two operands are read
\* one after the other, the second only when the first is 0.
rw_write_wait1(t) ==
    /\ lpc[t] = "w_wait1"
    /\ rw_goto(t, IF writer = 0 THEN "w_wait2" ELSE "w_wait1")
    /\ UNCHANGED <<num_readers, writer, mutex>>

\* A mistaken second operand, off by one.
rw_write_wait2_offbyone(t) ==
    /\ lpc[t] = "w_wait2"
    /\ rw_goto(t, IF num_readers > 1 THEN "w_wait1" ELSE "w_add")
    /\ UNCHANGED <<num_readers, writer, mutex>>

rw_write_wait2(t) ==
    /\ lpc[t] = "w_wait2"
    /\ rw_goto(t, IF num_readers > 0 THEN "w_wait1" ELSE "w_add")
    /\ UNCHANGED <<num_readers, writer, mutex>>

\* atomic_add(&lock->writer, 1)
rw_write_add(t) ==
    /\ lpc[t] = "w_add"
    /\ writer' = atomic_add(writer)
    /\ rw_goto(t, "w_unlock")
    /\ UNCHANGED <<num_readers, mutex>>

\* atomic_sub(&lock->writer, 1)
rw_write_unlock(t) ==
    /\ lpc[t] = "writing"
    /\ writer' = atomic_sub(writer)
    /\ rw_goto(t, "out")
    /\ UNCHANGED <<num_readers, mutex>>

rw_read_lock(t) ==
    \/ mutex_lock(t, "r_mutex", "r_wait")
    \/ rw_read_wait(t)
    \/ rw_read_add(t)
    \/ mutex_unlock(t, "r_unlock", "reading")

rw_write_lock(t) ==
    \/ mutex_lock(t, "w_mutex", "w_wait1")
    \/ rw_write_wait1(t)
    \/ rw_write_wait2(t)
    \/ rw_write_add(t)
    \/ mutex_unlock(t, "w_unlock", "writing")

\* The steps a thread takes without deciding to: those inside a lock call.
LockStep(t) == rw_read_lock(t) \/ rw_write_lock(t)

UnlockStep(t) == rw_read_unlock(t) \/ rw_write_unlock(t)

RWNext ==
    \E t \in Thread : \/ rw_read_call(t) \/ rw_write_call(t)
                      \/ LockStep(t) \/ UnlockStep(t)

\* Threads have CPUs of their own and so proceed inside a call; those that
\* hold the lock give it back.  Nothing makes a thread ask for the lock, and
\* nothing makes the spin lock fair to one thread.
RWFairness == \A t \in Thread : WF_lvars(LockStep(t)) /\ WF_lvars(UnlockStep(t))

RWSpec == rw_lock_init /\ [][RWNext]_lvars /\ RWFairness

-----------------------------------------------------------------------------
ReadHolder == {"r_unlock", "reading"}
WriteHolder == {"w_unlock", "writing"}
MutexHolder == {"r_wait", "r_add", "r_unlock", "w_wait1", "w_wait2", "w_add", "w_unlock"}
Labels == {"out", "r_mutex", "w_mutex"} \cup MutexHolder \cup ReadHolder \cup WriteHolder

Readers == {t \in Thread : lpc[t] \in ReadHolder}
Writers == {t \in Thread : lpc[t] \in WriteHolder}

RWTypeOK ==
    /\ num_readers \in int
    /\ writer \in {0, 1}
    /\ mutex \in {0, 1}
    /\ lpc \in [Thread -> Labels]

\* A writer holds the lock alone: no other writer and no reader with it.
WriterExclusion ==
    \A w \in Writers : Readers = {} /\ Writers = {w}

\* The count is the number of readers that hold the lock, although readers
\* leave it without taking the mutex.
ReadersCounted == num_readers = Cardinality(Readers)

\* The rest of the inductive invariant: one thread has the mutex, writer says
\* whether there is a writer, and what a thread has seen while it holds the
\* mutex (no writer; no reader) stays true until it is counted in.
RWInv ==
    /\ \A s, t \in Thread : lpc[s] \in MutexHolder /\ lpc[t] \in MutexHolder => s = t
    /\ mutex = 1 <=> \A t \in Thread : lpc[t] \notin MutexHolder
    /\ writer = 1 <=> Writers # {}
    /\ \A t \in Thread : lpc[t] \in {"r_add", "w_wait2", "w_add"} => writer = 0
    /\ \A t \in Thread : lpc[t] = "w_add" => Readers = {}

\* Writers are not overtaken: from the moment rw_write_lock has the mutex
\* until it is counted in, no rw_read_lock gets in, while readers may leave.
NoReaderOvertakes ==
    [][(\E w \in Thread : lpc[w] \in {"w_wait1", "w_wait2", "w_add"})
        => Readers' \subseteq Readers]_lvars

\* A writer that has the mutex gets the lock as soon as the readers that are
\* in have left.
WriterGetsIn == \A t \in Thread : lpc[t] = "w_wait1" ~> lpc[t] = "writing"

=============================================================================
