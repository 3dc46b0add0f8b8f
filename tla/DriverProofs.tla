---------------------------- MODULE DriverProofs ----------------------------
(***************************************************************************)
(* The driver of sync_tools, for any number of threads: the exercise of    *)
(* the reader-writer lock and the steps of main preserve the invariant of  *)
(* LockProofs, so that none of the exercises, run one after another, finds *)
(* an error, and every lock is safe in the exercise that uses it.          *)
(***************************************************************************)
EXTENDS LockProofs

\* What a step of the reader-writer lock does to the place of a thread in it.
LEMMA RWCall ==
    ASSUME RWTypeOK, NEW t \in Thread
    PROVE  /\ rw_read_call(t) \/ rw_read_lock(t)
                 => lpc'[t] \in {"r_mutex", "r_wait", "r_add", "r_unlock", "reading"}
           /\ rw_write_call(t) \/ rw_write_lock(t)
                 => lpc'[t] \in {"w_mutex", "w_wait1", "w_wait2", "w_add", "w_unlock", "writing"}
           /\ rw_read_unlock(t) \/ rw_write_unlock(t) => lpc'[t] = "out"
           /\ (\/ rw_read_call(t) \/ rw_read_lock(t) \/ rw_write_call(t) \/ rw_write_lock(t)
               \/ rw_read_unlock(t) \/ rw_write_unlock(t))
                 => RWNext /\ \A u \in Thread \ {t} : lpc'[u] = lpc[u]
<1> USE DEF RWTypeOK, rw_goto
<1>1. rw_read_call(t) \/ rw_read_lock(t) =>
         /\ lpc'[t] \in {"r_mutex", "r_wait", "r_add", "r_unlock", "reading"}
         /\ \A u \in Thread \ {t} : lpc'[u] = lpc[u]
  BY DEF rw_read_call, rw_read_lock, mutex_lock, rw_read_wait, rw_read_add, mutex_unlock
<1>2. rw_write_call(t) \/ rw_write_lock(t) =>
         /\ lpc'[t] \in {"w_mutex", "w_wait1", "w_wait2", "w_add", "w_unlock", "writing"}
         /\ \A u \in Thread \ {t} : lpc'[u] = lpc[u]
  BY DEF rw_write_call, rw_write_lock, mutex_lock, rw_write_wait1, rw_write_wait2, rw_write_add,
         mutex_unlock
<1>3. rw_read_unlock(t) \/ rw_write_unlock(t) =>
         lpc'[t] = "out" /\ \A u \in Thread \ {t} : lpc'[u] = lpc[u]
  BY DEF rw_read_unlock, rw_write_unlock
<1> QED BY <1>1, <1>2, <1>3 DEF RWNext, LockStep, UnlockStep

\* What the writer has stored.
LEMMA LargestStored ==
    ASSUME DriverTypeOK, Ex4Inv
    PROVE  Largest \in Nat /\ i[Writer] \in Nat /\ global_value \in Nat /\ global_value <= Largest
<1>1. i[Writer] \in Nat
  BY SMTT(20), Zenon, DriverConstants DEF DriverTypeOK
<1>2. Largest \in Nat
  BY <1>1 DEF Largest
<1> QED BY <1>1, <1>2 DEF Ex4Inv, WriterInv

\* ex4_read_fn.
LEMMA ReaderStep ==
    ASSUME DriverIInv, NEW t \in Thread, ThreadStep(t), exercise = 5, t # Writer
    PROVE  DriverIInv'
<1>0. DriverTypeOK /\ Ex4Inv /\ Unused /\ BarrierIInv /\ RWIInv /\ TestsSucceed
  BY DEF DriverIInv
<1>1. UNCHANGED <<exercise, created, printed>>
  BY MainWaits
<1>2. ReaderAt(pc[t], lpc[t]) /\ local[t].prev_value <= Largest
  BY SMTT(20), Zenon, <1>0 DEF Ex4Inv, ReaderInv
<1>3. ex4_read_fn(t) /\ pc[t] # "none"
  BY <1>2, WhichFunction DEF ReaderAt
<1>4. UNCHANGED <<free, bvars, global_value, reg>>
  BY SMTT(20), Zenon, <1>3 DEF ex4_read_fn, ex4_read_begin, read_lock, rw_lock, pthread_barrier_wait, read_unlock1,
              ex4_loop, ex4_read_test, ex4_read_save, ex4_unlock, env_vars
<1>5. /\ UNCHANGED lvars \/ RWNext
      /\ \A u \in Thread \ {t} : lpc'[u] = lpc[u]
  <2>1. \/ UNCHANGED lvars
        \/ rw_read_call(t) \/ rw_read_lock(t) \/ rw_read_unlock(t)
    BY <1>3 DEF ex4_read_fn, ex4_read_begin, read_lock, rw_lock, pthread_barrier_wait, read_unlock1,
                ex4_loop, ex4_read_test, ex4_read_save, ex4_unlock
  <2>2. RWTypeOK
    BY <1>0 DEF RWIInv
  <2>3. UNCHANGED lvars => lpc' = lpc
    BY DEF lvars
  <2>4. CASE UNCHANGED lvars
    BY <2>3, <2>4
  <2>5. CASE rw_read_call(t) \/ rw_read_lock(t) \/ rw_read_unlock(t)
    <3>1. RWNext /\ \A u \in Thread \ {t} : lpc'[u] = lpc[u]
      BY <2>2, <2>5, RWCall
    <3> QED BY SMTT(20), Zenon, <3>1
  <2> QED BY <2>1, <2>4, <2>5
<1>6. BarrierIInv' /\ RWIInv' /\ TestsSucceed' /\ Unused'
  BY <1>0, <1>1, <1>4, <1>5, LocksKept, RWNextIInv DEF TestsSucceed, Unused, bvars
<1>7. SUFFICES DriverTypeOK' /\ Ex4Inv'
  BY <1>1, <1>6 DEF DriverIInv
<1>8. /\ global_value \in Int /\ pc \in [Thread -> Label] /\ reg \in [Thread -> Int]
      /\ i \in [Thread -> Nat] /\ local \in [Thread -> [ret : {0}, prev_value : Int, j : Int]]
      /\ Writer \in Thread /\ RWTypeOK
  BY Zenon, <1>0, DriverConstants DEF DriverTypeOK, RWIInv
<1>9. ASSUME NEW label, ReaderAt(label, lpc'[t]), label # "none", pc' = [pc EXCEPT ![t] = label],
             i' \in [Thread -> Nat], \A u \in Thread \ {t} : i'[u] = i[u],
             local' \in [Thread -> [ret : {0}, prev_value : Int, j : Int]],
             \A u \in Thread \ {t} : local'[u] = local[u],
             local'[t].prev_value <= Largest
      PROVE  DriverTypeOK' /\ Ex4Inv'
  <2>1. label \in Label
    BY <1>9 DEF ReaderAt, Label
  <2>2. DriverTypeOK'
    BY ZenonT(30), <1>0, <1>1, <1>3, <1>4, <1>8, <1>9, <2>1, TypesKept
  <2>3. pc'[Writer] = pc[Writer] /\ i'[Writer] = i[Writer] /\ lpc'[Writer] = lpc[Writer]
    BY <1>5, <1>8, <1>9
  <2>4. Largest' = Largest
    BY SMTT(20), Zenon, <2>3 DEF Largest
  <2>5. WriterInv'
    BY <1>0, <1>4, <2>3, <2>4 DEF Ex4Inv, WriterInv
  <2>6. ASSUME NEW u \in Thread \ {Writer} PROVE ReaderInv(u)'
    <3>1. CASE u = t
      <4>1. pc'[t] = label
        BY SMTT(20), Zenon, <1>8, <1>9
      <4> QED BY <1>9, <2>4, <3>1, <4>1 DEF ReaderInv
    <3>2. CASE u # t
      <4>1. pc'[u] = pc[u] /\ lpc'[u] = lpc[u] /\ local'[u] = local[u]
        BY <1>5, <1>8, <1>9, <3>2
      <4> QED BY <1>0, <2>4, <4>1 DEF Ex4Inv, ReaderInv
    <3> QED BY <3>1, <3>2
  <2> QED BY <2>2, <2>5, <2>6 DEF Ex4Inv
<1>10. Largest \in Nat /\ global_value \in Nat /\ global_value <= Largest
  BY <1>0, LargestStored
<1>11. ASSUME NEW label, ReaderAt(label, lpc'[t]), label # "none", pc' = [pc EXCEPT ![t] = label],
              local' = local,
              i' = i \/ i' = [i EXCEPT ![t] = @ + 1]
       PROVE  DriverTypeOK' /\ Ex4Inv'
  <2>1. i' \in [Thread -> Nat] /\ \A u \in Thread \ {t} : i'[u] = i[u]
    BY <1>8, <1>11
  <2> QED BY Zenon, <1>2, <1>8, <1>9, <1>11, <2>1
<1>12. CASE ex4_read_begin(t)
  <2>1. pc[t] = "read" /\ pc' = [pc EXCEPT ![t] = "read_lock1"] /\ i' = i /\ lpc' = lpc
        /\ local' = [local EXCEPT ![t].prev_value = global_value]
    BY <1>12 DEF ex4_read_begin, Goto, lvars
  <2>2. ReaderAt("read_lock1", lpc'[t])
    BY <1>2, <2>1 DEF ReaderAt
  <2>3. /\ local' \in [Thread -> [ret : {0}, prev_value : Int, j : Int]]
        /\ \A u \in Thread \ {t} : local'[u] = local[u]
        /\ local'[t].prev_value = global_value
    BY <1>8, <2>1
  <2> QED BY Zenon, <1>8, <1>9, <1>10, <2>1, <2>2, <2>3
<1>13. CASE read_lock(t, "read_lock1", "read_wait1") \/ read_lock(t, "read_lock", "read_test")
  <2>1. PICK label \in {"read_lock1", "read_wait1", "read_lock", "read_test"} :
           /\ pc' = [pc EXCEPT ![t] = label] /\ i' = i /\ local' = local
           /\ rw_read_call(t) \/ rw_read_lock(t)
           /\ label \in {"read_wait1", "read_test"} <=> lpc'[t] = "reading"
    BY SMTT(20), Zenon, <1>13 DEF read_lock, rw_lock, Goto
  <2>2. lpc'[t] \in {"r_mutex", "r_wait", "r_add", "r_unlock", "reading"}
    BY <1>8, <2>1, RWCall
  <2>3. ReaderAt(label, lpc'[t])
    BY <2>1, <2>2 DEF ReaderAt
  <2> QED BY Zenon, <1>11, <2>1, <2>3
<1>14. CASE \/ pthread_barrier_wait(t, "read_wait1", "read_unlock1")
            \/ pthread_barrier_wait(t, "read_wait2", "read_loop")
            \/ ex4_loop(t, "read_loop", "read_lock")
  <2>1. PICK label \in {"read_unlock1", "read_loop", "read_lock", "return"} :
           /\ pc' = [pc EXCEPT ![t] = label] /\ i' = i /\ local' = local /\ lpc' = lpc
           /\ pc[t] = "read_wait1" <=> label = "read_unlock1"
           /\ pc[t] \in {"read_wait1", "read_wait2", "read_loop"}
    BY <1>14 DEF pthread_barrier_wait, ex4_loop, Goto, lvars
  <2>2. ReaderAt(label, lpc'[t])
    BY <1>2, <2>1 DEF ReaderAt
  <2> QED BY Zenon, <1>11, <2>1, <2>2
<1>15. CASE read_unlock1(t) \/ ex4_unlock(t, "read_unlock", rw_read_unlock(t), "read_loop")
  <2>1. PICK label \in {"read_wait2", "read_loop"} :
           /\ pc' = [pc EXCEPT ![t] = label] /\ local' = local
           /\ i' = i \/ i' = [i EXCEPT ![t] = @ + 1]
           /\ rw_read_unlock(t)
    BY SMTT(20), Zenon, <1>15 DEF read_unlock1, ex4_unlock, Goto
  <2>2. lpc'[t] = "out"
    BY <1>8, <2>1, RWCall
  <2>3. ReaderAt(label, lpc'[t])
    BY <2>1, <2>2 DEF ReaderAt
  <2> QED BY Zenon, <1>11, <2>1, <2>3
<1>16. CASE ex4_read_test(t)
  <2>1. /\ pc[t] = "read_test" /\ pc' = [pc EXCEPT ![t] = "read_save"] /\ i' = i /\ lpc' = lpc
        /\ local' = [local EXCEPT ![t].ret = IF local[t].prev_value > global_value THEN -1 ELSE @]
    BY <1>16 DEF ex4_read_test, Goto, lvars
  <2>2. lpc[t] = "reading"
    BY <1>2, <2>1 DEF ReaderAt
  <2>3. lpc[Writer] # "writing"
    <3>1. t \in Readers
      BY <2>2 DEF Readers, ReadHolder
    <3>2. lpc[Writer] = "writing" => Writer \in Writers
      BY <1>8 DEF Writers, WriteHolder
    <3> QED BY <1>0, <3>1, <3>2 DEF RWIInv, WriterExclusion
  <2>4. global_value = Largest
    BY <1>0, <2>3 DEF Ex4Inv, WriterInv, WriterAt
  <2>5. local[t].prev_value \in Int /\ ~ (local[t].prev_value > global_value)
    BY <1>2, <1>8, <1>10, <2>4
  <2>6. local' = local
    BY <1>8, <2>1, <2>5
  <2>7. ReaderAt("read_save", lpc'[t])
    BY <1>2, <2>1 DEF ReaderAt
  <2> QED BY Zenon, <1>11, <2>1, <2>6, <2>7
<1>17. CASE ex4_read_save(t)
  <2>1. PICK label \in {"read_unlock", "read_test"} :
           pc[t] = "read_save" /\ pc' = [pc EXCEPT ![t] = label] /\ i' = i /\ lpc' = lpc
    BY Zenon, <1>17 DEF ex4_read_save, Goto, lvars
  <2>2. ReaderAt(label, lpc'[t])
    BY <1>2, <2>1 DEF ReaderAt
  <2> DEFINE k == IF local[t].j = RW_ITERATIONS - 1 THEN 0 ELSE local[t].j + 1
             l == [[local[t] EXCEPT !.prev_value = global_value] EXCEPT !.j = k]
  <2>3. local' = [local EXCEPT ![t] = l]
    BY Zenon, <1>8, <1>17 DEF ex4_read_save
  <2>4. k \in Int
    BY <1>8
  <2>5. l \in [ret : {0}, prev_value : Int, j : Int] /\ l.prev_value = global_value
    BY Zenon, <1>8, <2>4
  <2> HIDE DEF l
  <2>6. /\ local' \in [Thread -> [ret : {0}, prev_value : Int, j : Int]]
        /\ \A u \in Thread \ {t} : local'[u] = local[u]
        /\ local'[t] = l
    BY <1>8, <2>3, <2>5
  <2> QED BY Zenon, <1>8, <1>9, <1>10, <2>1, <2>2, <2>5, <2>6
<1> QED BY <1>3, <1>12, <1>13, <1>14, <1>15, <1>16, <1>17 DEF ex4_read_fn

\* ex4_write_fn.
LEMMA WriterStep ==
    ASSUME DriverIInv, ThreadStep(Writer), exercise = 5
    PROVE  DriverIInv'
<1>0. DriverTypeOK /\ Ex4Inv /\ Unused /\ BarrierIInv /\ RWIInv /\ TestsSucceed
  BY DEF DriverIInv
<1>1. UNCHANGED <<exercise, created, printed>> /\ Writer \in Thread
  BY SMTT(20), Zenon, MainWaits, DriverConstants
<1>2. WriterAt(pc[Writer], lpc[Writer]) /\ WriterInv
  BY SMTT(20), Zenon, <1>0 DEF Ex4Inv, WriterInv
<1>3. ex4_write_fn(Writer) /\ pc[Writer] # "none"
  BY SMTT(20), Zenon, <1>1, <1>2, WhichFunction DEF WriterAt
<1>4. UNCHANGED <<free, bvars, local>>
  BY Zenon, <1>3 DEF ex4_write_fn, rw_lock, pthread_barrier_wait, ex4_loop, ex4_write_zero, ex4_write_load,
              ex4_write_store, ex4_unlock, env_vars
<1>5. /\ UNCHANGED lvars \/ RWNext
      /\ \A u \in Thread \ {Writer} : lpc'[u] = lpc[u]
  <2>1. \/ UNCHANGED lvars
        \/ rw_write_call(Writer) \/ rw_write_lock(Writer) \/ rw_write_unlock(Writer)
    BY Zenon, <1>3 DEF ex4_write_fn, rw_lock, pthread_barrier_wait, ex4_loop, ex4_write_zero, ex4_write_load,
                ex4_write_store, ex4_unlock
  <2>2. RWTypeOK
    BY <1>0 DEF RWIInv
  <2>3. UNCHANGED lvars => lpc' = lpc
    BY DEF lvars
  <2>4. CASE UNCHANGED lvars
    BY <2>3, <2>4
  <2>5. CASE rw_write_call(Writer) \/ rw_write_lock(Writer) \/ rw_write_unlock(Writer)
    <3>1. RWNext /\ \A u \in Thread \ {Writer} : lpc'[u] = lpc[u]
      BY <1>1, <2>2, <2>5, RWCall
    <3> QED BY SMTT(20), Zenon, <3>1
  <2> QED BY SMTT(20), Zenon, <2>1, <2>4, <2>5
<1>6. BarrierIInv' /\ RWIInv' /\ TestsSucceed' /\ Unused'
  BY <1>0, <1>1, <1>4, <1>5, LocksKept, RWNextIInv DEF TestsSucceed, Unused, bvars
<1>7. SUFFICES DriverTypeOK' /\ Ex4Inv'
  BY <1>1, <1>6 DEF DriverIInv
<1>8. /\ global_value \in Int /\ pc \in [Thread -> Label] /\ reg \in [Thread -> Int]
      /\ i \in [Thread -> Nat] /\ local \in [Thread -> [ret : {0}, prev_value : Int, j : Int]]
      /\ RWTypeOK
  BY <1>0 DEF DriverTypeOK, RWIInv
<1>9. Largest \in Nat /\ i[Writer] \in Nat
  BY <1>0, LargestStored
<1>10. ASSUME NEW label, label # "none", pc' = [pc EXCEPT ![Writer] = label],
              WriterInv', Largest' \in Nat, Largest <= Largest', global_value' \in Int,
              i' \in [Thread -> Nat], \A u \in Thread \ {Writer} : i'[u] = i[u],
              reg' \in [Thread -> Int]
       PROVE  DriverTypeOK' /\ Ex4Inv'
  <2>1. pc'[Writer] = label
    BY <1>1, <1>8, <1>10
  <2>2. label \in Label
    BY <1>10, <2>1 DEF WriterInv, WriterAt, Label
  <2>3. local' \in [Thread -> [ret : {0}, prev_value : Int, j : Int]]
    BY <1>4, <1>8
  <2>4. DriverTypeOK'
    BY ZenonT(30), <1>0, <1>1, <1>3, <1>10, <2>2, <2>3, TypesKept
  <2>5. ASSUME NEW u \in Thread \ {Writer} PROVE ReaderInv(u)'
    <3>1. pc'[u] = pc[u] /\ lpc'[u] = lpc[u] /\ local'[u] = local[u]
      BY <1>4, <1>5, <1>8, <1>10
    <3>2. local[u].prev_value \in Int /\ local[u].prev_value <= Largest /\ ReaderAt(pc[u], lpc[u])
      BY <1>0, <1>8 DEF Ex4Inv, ReaderInv
    <3>3. local[u].prev_value <= Largest'
      BY <1>9, <1>10, <3>2
    <3> QED BY SMTT(20), Zenon, <3>1, <3>2, <3>3 DEF ReaderInv
  <2> QED BY <1>10, <2>4, <2>5 DEF Ex4Inv
\* The lines that neither add to i nor store.
<1>11. ASSUME NEW label, label # "none", label # "write_unlock", pc[Writer] # "write_unlock",
              pc' = [pc EXCEPT ![Writer] = label], i' = i, WriterAt(label, lpc'[Writer]),
              global_value' = IF label \in {"write_load", "write_store"} THEN 0 ELSE Largest,
              reg' \in [Thread -> Int], label = "write_store" => reg'[Writer] = 0
       PROVE  DriverTypeOK' /\ Ex4Inv'
  <2>1. pc'[Writer] = label
    BY SMTT(20), Zenon, <1>1, <1>8, <1>11
  <2>2. Largest' = Largest
    BY <1>11, <2>1 DEF Largest
  <2>3. WriterInv'
    BY <1>11, <2>1, <2>2 DEF WriterInv
  <2>4. global_value' \in Int
    BY <1>9, <1>11
  <2>5. /\ i' \in [Thread -> Nat] /\ \A u \in Thread \ {Writer} : i'[u] = i[u]
        /\ Largest' \in Nat /\ Largest <= Largest'
    BY <1>8, <1>9, <1>11, <2>2
  <2> QED BY Zenon, <1>10, <1>11, <2>3, <2>4, <2>5
<1>12. CASE \/ pthread_barrier_wait(Writer, "write", "write_wait2")
            \/ pthread_barrier_wait(Writer, "write_wait2", "write_loop")
            \/ ex4_loop(Writer, "write_loop", "write_lock")
  <2>1. PICK label \in {"write_wait2", "write_loop", "write_lock", "return"} :
           /\ pc' = [pc EXCEPT ![Writer] = label] /\ i' = i /\ lpc' = lpc
           /\ reg' = reg /\ global_value' = global_value
           /\ pc[Writer] \in {"write", "write_wait2", "write_loop"}
    BY <1>12 DEF pthread_barrier_wait, ex4_loop, Goto, lvars
  <2>2. WriterAt(label, lpc'[Writer])
    BY SMTT(20), Zenon, <1>2, <2>1 DEF WriterAt
  <2>3. global_value' = Largest
    BY <1>2, <2>1 DEF WriterInv
  <2> QED BY ZenonT(30), <1>8, <1>11, <2>1, <2>2, <2>3
<1>13. CASE rw_lock(Writer, "write_lock", rw_write_call(Writer) \/ rw_write_lock(Writer), "writing",
                    "write_zero")
  <2>1. PICK label \in {"write_lock", "write_zero"} :
           /\ pc[Writer] = "write_lock"
           /\ pc' = [pc EXCEPT ![Writer] = label] /\ i' = i
           /\ reg' = reg /\ global_value' = global_value
           /\ rw_write_call(Writer) \/ rw_write_lock(Writer)
           /\ label = "write_zero" <=> lpc'[Writer] = "writing"
    BY ZenonT(30), <1>13 DEF rw_lock, Goto
  <2>2. lpc'[Writer] \in {"w_mutex", "w_wait1", "w_wait2", "w_add", "w_unlock", "writing"}
    BY <1>1, <1>8, <2>1, RWCall
  <2>3. WriterAt(label, lpc'[Writer])
    BY <2>1, <2>2 DEF WriterAt
  <2>4. global_value' = Largest
    BY <1>2, <2>1 DEF WriterInv
  <2> QED BY Zenon, <1>8, <1>11, <2>1, <2>3, <2>4
<1>14. CASE ex4_write_zero(Writer)
  <2>1. /\ pc[Writer] = "write_zero" /\ pc' = [pc EXCEPT ![Writer] = "write_load"]
        /\ i' = i /\ reg' = reg /\ lpc' = lpc /\ global_value' = 0
    BY <1>14 DEF ex4_write_zero, Goto, lvars
  <2>2. WriterAt("write_load", lpc'[Writer])
    BY <1>2, <2>1 DEF WriterAt
  <2> QED BY Zenon, <1>8, <1>11, <2>1, <2>2
<1>15. CASE ex4_write_load(Writer)
  <2>1. /\ pc[Writer] = "write_load" /\ pc' = [pc EXCEPT ![Writer] = "write_store"]
        /\ i' = i /\ reg' = [reg EXCEPT ![Writer] = global_value] /\ lpc' = lpc
        /\ global_value' = global_value
    BY <1>15 DEF ex4_write_load, Goto, lvars
  <2>2. WriterAt("write_store", lpc'[Writer])
    BY <1>2, <2>1 DEF WriterAt
  <2>3. global_value = 0
    BY <1>2, <2>1 DEF WriterInv
  <2>4. reg' \in [Thread -> Int] /\ reg'[Writer] = 0
    BY <1>1, <1>8, <2>1, <2>3
  <2> QED BY Zenon, <1>11, <2>1, <2>2, <2>3, <2>4
<1>16. CASE ex4_write_store(Writer)
  <2>1. /\ pc[Writer] = "write_store" /\ pc' = [pc EXCEPT ![Writer] = "write_unlock"]
        /\ i' = i /\ reg' = reg /\ lpc' = lpc /\ global_value' = reg[Writer] + i[Writer]
    BY <1>16 DEF ex4_write_store, Goto, lvars
  <2>2. WriterAt("write_unlock", lpc'[Writer])
    BY <1>2, <2>1 DEF WriterAt
  <2>3. pc'[Writer] = "write_unlock" /\ global_value' = i[Writer]
    BY SMTT(20), Zenon, <1>1, <1>2, <1>8, <1>9, <2>1 DEF WriterInv
  <2>4. Largest' = i[Writer]
    BY <2>1, <2>3 DEF Largest
  <2>5. Largest <= i[Writer]
    BY <1>9, <2>1 DEF Largest
  <2>6. WriterInv'
    BY <2>2, <2>3, <2>4 DEF WriterInv
  <2>7. /\ i' \in [Thread -> Nat] /\ \A u \in Thread \ {Writer} : i'[u] = i[u]
        /\ Largest' \in Nat /\ Largest <= Largest' /\ global_value' \in Int
        /\ reg' \in [Thread -> Int]
    BY <1>8, <1>9, <2>1, <2>3, <2>4, <2>5
  <2> QED BY Zenon, <1>10, <2>1, <2>6, <2>7
<1>17. CASE ex4_unlock(Writer, "write_unlock", rw_write_unlock(Writer), "write_loop")
  <2>1. /\ pc[Writer] = "write_unlock" /\ pc' = [pc EXCEPT ![Writer] = "write_loop"]
        /\ i' = [i EXCEPT ![Writer] = @ + 1] /\ reg' = reg /\ global_value' = global_value
        /\ rw_write_unlock(Writer)
    BY SMTT(20), Zenon, <1>17 DEF ex4_unlock, Goto
  <2>2. lpc'[Writer] = "out"
    BY <1>1, <1>8, <2>1, RWCall
  <2>3. WriterAt("write_loop", lpc'[Writer])
    BY <2>2 DEF WriterAt
  <2>4. pc'[Writer] = "write_loop" /\ i'[Writer] = i[Writer] + 1 /\ i' \in [Thread -> Nat]
        /\ \A u \in Thread \ {Writer} : i'[u] = i[u]
    BY SMTT(20), Zenon, <1>1, <1>8, <1>9, <2>1
  <2>5. Largest = i[Writer] /\ global_value = i[Writer]
    BY SMTT(20), Zenon, <1>2, <2>1 DEF Largest, WriterInv
  <2>6. Largest' = i[Writer]
    BY SMTT(20), Zenon, <1>9, <2>4 DEF Largest
  <2>7. WriterInv'
    BY <2>1, <2>3, <2>4, <2>5, <2>6 DEF WriterInv
  <2>8. /\ Largest' \in Nat /\ Largest <= Largest' /\ global_value' \in Int
        /\ reg' \in [Thread -> Int]
    BY SMTT(20), Zenon, <1>8, <1>9, <2>1, <2>5, <2>6
  <2> QED BY Zenon, <1>10, <2>1, <2>4, <2>7, <2>8
<1> QED BY <1>3, <1>12, <1>13, <1>14, <1>15, <1>16, <1>17 DEF ex4_write_fn

-----------------------------------------------------------------------------
\* pthread_create: the new thread is at the first line of its function, which
\* is not one where it has added anything or holds a lock.
LEMMA CreateStep ==
    ASSUME DriverIInv, main_create
    PROVE  DriverIInv'
<1>0. DriverTypeOK /\ Unused /\ BarrierIInv /\ RWIInv /\ TestsSucceed
  BY DEF DriverIInv
<1>1. PICK c \in 0 .. num_threads : created = 0 .. c - 1
  BY <1>0 DEF DriverTypeOK
<1>2. c \in Nat /\ Cardinality(created) = c
  <2>1. c \in Nat
    BY DriverConstants
  <2>2. Cardinality(0 .. c - 1) = IF 0 > c - 1 THEN 0 ELSE (c - 1) - 0 + 1
    BY <2>1, FS_Interval
  <2> QED BY <1>1, <2>1, <2>2
<1>3. PICK fn : /\ pc' = [pc EXCEPT ![c] = fn]
                /\ fn = IF Exercises[exercise] # "rwlock" THEN Exercises[exercise]
                        ELSE IF c = Writer THEN "write" ELSE "read"
                /\ Exercises[exercise] # "end" /\ c < num_threads
                /\ created' = created \cup {c}
                /\ UNCHANGED <<exercise, printed, free, global_value, reg, i, local, bvars, lvars>>
  BY Zenon, <1>2 DEF main_create, Goto
<1>4. c \in Thread /\ c \notin created /\ created' = 0 .. (c + 1) - 1
  BY <1>1, <1>2, <1>3, DriverConstants
<1>5. /\ pc \in [Thread -> Label] /\ pc[c] = "none" /\ i[c] = 0 /\ i \in [Thread -> Nat]
      /\ exercise \in 1 .. 6
  BY <1>0, <1>4 DEF DriverTypeOK
<1>6. /\ exercise \in 1 .. 5
      /\ exercise = 1 => fn = "sub"
      /\ exercise = 2 => fn = "add"
      /\ exercise = 3 => fn = "spinlock"
      /\ exercise = 4 => fn = "barrier"
      /\ exercise = 5 => fn = IF c = Writer THEN "write" ELSE "read"
  <2>1. exercise = 1 \/ exercise = 2 \/ exercise = 3 \/ exercise = 4 \/ exercise = 5 \/ exercise = 6
    BY <1>5
  <2> QED BY <1>3, <2>1 DEF Exercises
<1>7. fn \in {"sub", "add", "spinlock", "barrier", "write", "read"}
  <2>1. exercise = 1 \/ exercise = 2 \/ exercise = 3 \/ exercise = 4 \/ exercise = 5
    BY <1>6
  <2> QED BY <1>6, <2>1
<1>8. pc'[c] = fn /\ pc' \in [Thread -> Label] /\ \A u \in Thread \ {c} : pc'[u] = pc[u]
  <2>1. fn \in Label
    BY <1>7 DEF Label
  <2> QED BY <1>3, <1>4, <1>5, <2>1
<1>9. DriverTypeOK'
  <2>1. \E d \in 0 .. num_threads : created' = 0 .. d - 1
    <3>1. c + 1 \in 0 .. num_threads
      BY SMTT(20), Zenon, <1>2, <1>3, DriverConstants
    <3> QED BY <1>4, <3>1
  <2>2. \A u \in Thread \ created' : pc'[u] = "none"
    BY SMTT(20), Zenon, <1>0, <1>3, <1>4, <1>8 DEF DriverTypeOK
  <2>3. \A u \in Thread : pc'[u] = "none" => i'[u] = 0
    BY SMTT(20), Zenon, <1>0, <1>3, <1>5, <1>8 DEF DriverTypeOK
  <2> QED BY SMTT(20), Zenon, <1>0, <1>3, <1>8, <2>1, <2>2, <2>3 DEF DriverTypeOK
<1>10. TestsSucceed' /\ Unused' /\ BarrierIInv' /\ RWIInv'
  BY <1>0, <1>3, LocksKept DEF TestsSucceed, Unused, bvars, lvars
<1>11. Turns' = Turns
  <2>1. ASSUME NEW u \in Thread PROVE Done(u)' = Done(u)
    <3>1. CASE u = c
      BY SMTT(20), Zenon, <1>3, <1>5, <1>7, <1>8, <3>1 DEF Done
    <3>2. CASE u # c
      BY <1>3, <1>8, <3>2 DEF Done
    <3> QED BY <3>1, <3>2
  <2> QED BY <2>1, SameTurns
<1>12. UNCHANGED <<exercise, free, global_value, reg, i, local, bpc, left, lpc>>
  BY <1>3 DEF bvars, lvars
<1>13. ITERATIONS \in Nat
  BY DriverConstants
<1>14. exercise = 1 => SubInv'
  <2> SUFFICES ASSUME exercise = 1 PROVE SubInv'
    OBVIOUS
  <2>1. SubInv
    BY DEF DriverIInv
  <2> QED BY <1>5, <1>6, <1>8, <1>11, <1>12, <1>13, <2>1 DEF SubInv, Ex1Inv
<1>15. exercise = 2 => AddInv'
  <2> SUFFICES ASSUME exercise = 2 PROVE AddInv'
    OBVIOUS
  <2>1. AddInv
    BY SMTT(20), Zenon DEF DriverIInv
  <2> QED BY <1>5, <1>6, <1>8, <1>11, <1>12, <1>13, <2>1 DEF AddInv, Ex1Inv
<1>16. exercise = 3 => Ex3Inv'
  <2> SUFFICES ASSUME exercise = 3 PROVE Ex3Inv'
    OBVIOUS
  <2>1. Ex3Inv
    BY DEF DriverIInv
  <2>2. \A u \in Thread : Ex3Thread(u)'
    BY <1>5, <1>6, <1>8, <1>12, <1>13, <2>1 DEF Ex3Inv, Ex3Thread, Critical
  <2>3. \A u \in Thread : pc'[u] \in Critical <=> pc[u] \in Critical
    BY SMTT(20), Zenon, <1>5, <1>6, <1>8 DEF Critical
  <2>4. MutualExclusion' /\ (free' = 1 <=> \A u \in Thread : pc'[u] \notin Critical)
    BY <1>12, <2>1, <2>3 DEF Ex3Inv, MutualExclusion
  <2> QED BY <1>11, <1>12, <2>1, <2>2, <2>4 DEF Ex3Inv
<1>17. exercise = 4 => Ex2Inv'
  <2> SUFFICES ASSUME exercise = 4 PROVE Ex2Inv'
    OBVIOUS
  <2>1. Ex2Inv
    BY DEF DriverIInv
  <2>2. ASSUME NEW u \in Thread PROVE Ex2Thread(u)'
    <3>1. Ex2Thread(u)
      BY <2>1 DEF Ex2Inv
    <3>2. CASE u = c
      BY SMTT(20), Zenon, <1>5, <1>6, <1>8, <1>12, <1>13, <3>1, <3>2 DEF Ex2Thread
    <3>3. CASE u # c
      BY <1>8, <1>12, <3>1, <3>3 DEF Ex2Thread
    <3> QED BY <3>2, <3>3
  <2> QED BY <1>11, <1>12, <2>1, <2>2 DEF Ex2Inv
<1>18. exercise = 5 => Ex4Inv'
  <2> SUFFICES ASSUME exercise = 5 PROVE Ex4Inv'
    OBVIOUS
  <2>1. Ex4Inv
    BY DEF DriverIInv
  <2>2. Largest' = Largest /\ WriterInv'
    <3>1. WriterInv /\ Writer \in Thread
      BY <2>1, DriverConstants DEF Ex4Inv
    <3>2. CASE c = Writer
      <4>1. pc[Writer] = "none" /\ pc'[Writer] = "write"
        BY <1>5, <1>6, <1>8, <3>2
      <4>2. Largest' = Largest
        BY <1>12, <4>1 DEF Largest
      <4> QED BY <1>12, <3>1, <4>1, <4>2 DEF WriterInv, WriterAt
    <3>3. CASE c # Writer
      <4>1. pc'[Writer] = pc[Writer]
        BY <1>8, <3>1, <3>3
      <4>2. Largest' = Largest
        BY <1>12, <4>1 DEF Largest
      <4> QED BY <1>12, <3>1, <4>1, <4>2 DEF WriterInv
    <3> QED BY <3>2, <3>3
  <2>3. ASSUME NEW u \in Thread \ {Writer} PROVE ReaderInv(u)'
    <3>1. ReaderInv(u)
      BY SMTT(20), Zenon, <2>1 DEF Ex4Inv
    <3>2. CASE u = c
      BY SMTT(20), Zenon, <1>5, <1>6, <1>8, <1>12, <2>2, <3>1, <3>2 DEF ReaderInv, ReaderAt
    <3>3. CASE u # c
      BY <1>8, <1>12, <2>2, <3>1, <3>3 DEF ReaderInv
    <3> QED BY <3>2, <3>3
  <2> QED BY <2>2, <2>3 DEF Ex4Inv
<1> QED
  BY <1>6, <1>9, <1>10, <1>12, <1>14, <1>15, <1>16, <1>17, <1>18 DEF DriverIInv

\* The threads have returned: the result of the exercise is right, and they
\* have left the locks.
LEMMA AllReturned ==
    ASSUME DriverIInv, \A t \in Thread : pc[t] = "return"
    PROVE  /\ exercise \in 1 .. 5
           /\ passed
           /\ free = 1
           /\ \A t \in Thread : bpc[t] = "out" /\ lpc[t] = "out"
<1>0. DriverTypeOK /\ Unused /\ Writer \in Thread /\ ITERATIONS \in Nat
  BY DriverConstants DEF DriverIInv
<1>1. exercise \in 1 .. 5
  <2>1. exercise # 6
    BY <1>0 DEF DriverIInv
  <2> QED BY <1>0, <2>1 DEF DriverTypeOK
<1>2. (\A t \in Thread : Done(t) = ITERATIONS) => Cardinality(Turns) = num_threads * ITERATIONS
  <2>1. ITERATIONS \in 0 .. ITERATIONS
    BY <1>0
  <2> QED BY <2>1, EqualTurns
<1>3. (\A t \in Thread : i[t] = ITERATIONS) => \A t \in Thread : Done(t) = ITERATIONS
  BY <1>0 DEF Done
<1>4. CASE exercise = 1
  <2>1. SubInv
    BY <1>4 DEF DriverIInv
  <2>2. Cardinality(Turns) = num_threads * ITERATIONS
    BY <1>2, <1>3, <2>1 DEF SubInv, Ex1Inv
  <2> DEFINE total == num_threads * ITERATIONS
  <2>3. total \in Nat /\ global_value = total - Cardinality(Turns) /\ Cardinality(Turns) = total
    BY <2>1, <2>2, DriverConstants DEF SubInv
  <2> HIDE DEF total
  <2>4. global_value = 0
    BY <2>3
  <2> QED BY <1>0, <1>1, <1>4, <2>4 DEF passed, Exercises, Unused
<1>5. CASE exercise = 2
  <2>1. AddInv
    BY <1>5 DEF DriverIInv
  <2>2. Cardinality(Turns) = num_threads * ITERATIONS
    BY <1>2, <1>3, <2>1 DEF AddInv, Ex1Inv
  <2>3. global_value = num_threads * ITERATIONS
    BY <2>1, <2>2 DEF AddInv
  <2> QED BY <1>0, <1>1, <1>5, <2>3 DEF passed, Exercises, Unused
<1>6. CASE exercise = 3
  <2>1. Ex3Inv
    BY <1>6 DEF DriverIInv
  <2>2. Cardinality(Turns) = num_threads * ITERATIONS
    BY <1>2, <1>3, <2>1 DEF Ex3Inv, Ex3Thread
  <2>3. global_value = num_threads * ITERATIONS /\ free = 1
    BY <2>1, <2>2 DEF Ex3Inv, Critical
  <2> QED BY <1>0, <1>1, <1>6, <2>3 DEF passed, Exercises, Unused
<1>7. CASE exercise = 4
  <2>1. Ex2Inv
    BY <1>7 DEF DriverIInv
  <2>2. \A t \in Thread : bpc[t] = "out"
    BY <2>1 DEF Ex2Inv, Ex2Thread
  <2>3. \A t \in Thread : local[t].ret = 0
    BY <1>0 DEF DriverTypeOK
  <2> QED BY <1>0, <1>1, <1>7, <2>2, <2>3 DEF passed, Exercises, Unused
<1>8. CASE exercise = 5
  <2>1. Ex4Inv
    BY <1>8 DEF DriverIInv
  <2>2. \A t \in Thread : lpc[t] = "out"
    BY <1>0, <2>1 DEF Ex4Inv, WriterInv, ReaderInv, ReaderAt, WriterAt
  <2>3. \A t \in Thread : local[t].ret = 0
    BY <1>0 DEF DriverTypeOK
  <2> QED BY <1>0, <1>1, <1>8, <2>2, <2>3 DEF passed, Exercises, Unused
<1>9. exercise = 1 \/ exercise = 2 \/ exercise = 3 \/ exercise = 4 \/ exercise = 5
  BY <1>1
<1> QED BY <1>4, <1>5, <1>6, <1>7, <1>8, <1>9

\* pthread_join: main finds what it looks for, and what the next exercise
\* starts from is in order.
LEMMA JoinStep ==
    ASSUME DriverIInv, main_join
    PROVE  DriverIInv'
<1>0. DriverTypeOK /\ Unused /\ BarrierIInv /\ RWIInv /\ TestsSucceed
  BY DEF DriverIInv
<1>1. /\ exercise \in 1 .. 5 /\ passed /\ free = 1
      /\ \A t \in Thread : bpc[t] = "out" /\ lpc[t] = "out"
  BY AllReturned DEF main_join
<1>2. /\ exercise' = exercise + 1 /\ created' = {} /\ global_value' = 0
      /\ pc' = [t \in Thread |-> "none"] /\ reg' = [t \in Thread |-> 0] /\ i' = [t \in Thread |-> 0]
      /\ local' = [t \in Thread |-> NoLocals]
      /\ UNCHANGED <<free, iterations, cur_count, bpc, arrived, left, lvars>>
  BY DEF main_join
<1>3. DriverTypeOK'
  <2>1. created' = 0 .. 0 - 1 /\ 0 \in 0 .. num_threads
    BY <1>2, DriverConstants
  <2>2. NoLocals \in [ret : {0}, prev_value : Int, j : Int] /\ "none" \in Label
    BY DEF NoLocals, Label
  <2>3. exercise' \in 1 .. 6
    BY <1>1, <1>2
  <2> QED BY <1>2, <2>1, <2>2, <2>3 DEF DriverTypeOK
<1>4. TestsSucceed'
  <2>1. printed' = printed \cup {<<Exercises[exercise], "SUCCESS">>}
    BY <1>1 DEF main_join
  <2> QED BY <1>0, <2>1 DEF TestsSucceed
<1>5. Unused'
  BY <1>0, <1>1, <1>2 DEF Unused, lvars
<1>6. BarrierIInv'
  <2>1. PICK phase \in 0 .. MaxCalls : (\A t \in Thread : ThreadInPhase(t, phase)) /\ CountInPhase(phase)
    BY SMTT(20), Zenon, <1>0 DEF BarrierIInv, OnePhase
  <2>2. \A t \in Thread : ThreadInPhase(t, phase)'
    BY Zenon, <1>1, <1>2, <2>1 DEF ThreadInPhase
  <2>3. CountInPhase(phase)'
    BY <1>2, <2>1 DEF CountInPhase
  <2>4. my_iter' = [t \in Thread |-> 0] /\ breg' = [t \in Thread |-> 0] /\ 0 \in int
    BY DriverConstants DEF main_join, int
  <2>5. BarrierTypeOK'
    BY <1>0, <1>2, <2>4 DEF BarrierTypeOK, BarrierIInv
  <2> QED BY <2>1, <2>2, <2>3, <2>5 DEF BarrierIInv, OnePhase
<1>7. RWIInv'
  BY <1>0, <1>2, LocksKept
<1>8. Cardinality(Turns') = 0
  <2>1. Turns' = {}
    BY <1>2, DriverConstants DEF Turns, Done
  <2> QED BY <2>1, FS_EmptySet
<1>9. ITERATIONS \in Nat /\ Writer \in Thread
  BY DriverConstants
<1>10. AddInv'
  BY SMTT(20), Zenon, <1>2, <1>8, <1>9 DEF AddInv, Ex1Inv
<1>11. Ex3Inv'
  BY SMTT(20), Zenon, <1>1, <1>2, <1>8, <1>9 DEF Ex3Inv, Ex3Thread, MutualExclusion, Critical
<1>12. exercise' = 4 => Ex2Inv'
  <2> SUFFICES ASSUME exercise' = 4 PROVE Ex2Inv'
    OBVIOUS
  <2>1. exercise = 3
    BY <1>1, <1>2
  <2>2. \A t \in Thread : left[t] = 0
    BY <1>0, <2>1 DEF Unused
  <2> QED BY <1>1, <1>2, <1>8, <1>9, <2>2 DEF Ex2Inv, Ex2Thread
<1>13. Ex4Inv'
  <2>1. Largest' = 0
    BY <1>2, <1>9 DEF Largest
  <2>2. \A t \in Thread : lpc'[t] = "out"
    BY <1>1, <1>2 DEF lvars
  <2>3. WriterInv'
    BY <1>2, <1>9, <2>1, <2>2 DEF WriterInv, WriterAt
  <2>4. \A t \in Thread \ {Writer} : ReaderInv(t)'
    BY <1>2, <2>1, <2>2 DEF ReaderInv, ReaderAt, NoLocals
  <2> QED BY <2>3, <2>4 DEF Ex4Inv
<1>14. exercise' # 1 /\ \A t \in Thread : pc'[t] = "none"
  BY <1>1, <1>2
<1> QED
  BY <1>3, <1>4, <1>5, <1>6, <1>7, <1>10, <1>11, <1>12, <1>13, <1>14 DEF DriverIInv

\* The first exercise, before pthread_create.
LEMMA DriverInitIInv == DriverInit => DriverIInv
<1> SUFFICES ASSUME DriverInit PROVE DriverIInv
  OBVIOUS
<1> USE DEF DriverInit
<1>1. DriverTypeOK
  <2>1. created = 0 .. 0 - 1 /\ 0 \in 0 .. num_threads
    BY DriverConstants
  <2>2. NoLocals \in [ret : {0}, prev_value : Int, j : Int] /\ "none" \in Label
    BY DEF NoLocals, Label
  <2>3. global_value \in Int
    BY DriverConstants
  <2>4. exercise \in 1 .. 6
    OBVIOUS
  <2> QED BY <2>1, <2>2, <2>3, <2>4 DEF DriverTypeOK
<1>2. TestsSucceed
  BY DEF TestsSucceed
<1>3. Unused
  BY DEF Unused, barrier_init, rw_lock_init
<1>4. BarrierIInv /\ RWIInv
  BY BarrierInitIInv, RWInitIInv
<1>5. Cardinality(Turns) = 0
  <2>1. Turns = {}
    BY DriverConstants DEF Turns, Done
  <2> QED BY <2>1, FS_EmptySet
<1>6. SubInv
  <2>1. global_value = num_threads * ITERATIONS - Cardinality(Turns)
    BY <1>5, DriverConstants
  <2> QED BY SMTT(20), Zenon, <2>1, DriverConstants DEF SubInv, Ex1Inv
<1> QED BY <1>1, <1>2, <1>3, <1>4, <1>6 DEF DriverIInv

\* Every step of the driver keeps the invariant.
LEMMA DriverNextIInv == DriverIInv /\ [DriverNext]_drv_vars => DriverIInv'
<1> SUFFICES ASSUME DriverIInv, [DriverNext]_drv_vars PROVE DriverIInv'
  OBVIOUS
<1>1. CASE main
  BY <1>1, CreateStep, JoinStep DEF main
<1>2. ASSUME NEW t \in Thread, ThreadStep(t) PROVE DriverIInv'
  <2>1. exercise \in 1 .. 6
    BY DEF DriverIInv, DriverTypeOK
  <2>2. exercise # 6
    BY <1>2, WhichFunction DEF DriverIInv
  <2>3. exercise = 1 \/ exercise = 2 \/ exercise = 3 \/ exercise = 4 \/ exercise = 5
    BY <2>1, <2>2
  <2>4. exercise = 5 => DriverIInv'
    <3>1. CASE t = Writer
      BY <1>2, <3>1, WriterStep
    <3>2. CASE t # Writer
      BY <1>2, <3>2, ReaderStep
    <3> QED BY <3>1, <3>2
  <2> QED BY <1>2, <2>3, <2>4, SubStep, AddStep, SpinStep, BarrierStep
<1>3. CASE UNCHANGED drv_vars
  <2>1. UNCHANGED <<exercise, created, printed, free, global_value, pc, reg, i, local, bvars, lvars>>
    BY <1>3 DEF drv_vars, env_vars, main_vars
  <2>2. UNCHANGED <<bpc, left, lpc>>
    BY <2>1 DEF bvars, lvars
  <2>3. BarrierIInv' /\ RWIInv'
    BY SMTT(20), Zenon, <2>1, LocksKept DEF DriverIInv
  <2>4. DriverTypeOK' /\ TestsSucceed' /\ Unused'
    BY <2>1, <2>2 DEF DriverIInv, DriverTypeOK, TestsSucceed, Unused
  <2>5. Turns' = Turns
    BY SMTT(20), Zenon, <2>1, SameTurns DEF Done
  <2>6. (SubInv => SubInv') /\ (AddInv => AddInv')
    BY SMTT(20), Zenon, <2>1, <2>5 DEF SubInv, AddInv, Ex1Inv
  <2>7. (Ex3Inv => Ex3Inv') /\ (Ex2Inv => Ex2Inv')
    BY SMTT(20), Zenon, <2>1, <2>2, <2>5 DEF Ex3Inv, Ex3Thread, MutualExclusion, Ex2Inv, Ex2Thread
  <2>8. Ex4Inv => Ex4Inv'
    BY <2>1, <2>2 DEF Ex4Inv, ReaderInv, WriterInv, Largest
  <2> QED BY SMTT(20), Zenon, <2>1, <2>3, <2>4, <2>6, <2>7, <2>8 DEF DriverIInv
<1> QED BY <1>1, <1>2, <1>3 DEF DriverNext, Exited

\* locking.c, main: none of the five exercises prints ERROR, for every number
\* of threads and of iterations whose product is an int: no atomic update and
\* no locked one is lost, barrier_wait keeps the threads in step, and no
\* reader sees global_value go back.
THEOREM DriverTestsSucceed == DriverSpec => []TestsSucceed
<1>1. DriverIInv => TestsSucceed
  BY DEF DriverIInv
<1> QED BY <1>1, DriverInitIInv, DriverNextIInv, PTL DEF DriverSpec

\* The spin lock, the barrier and the reader-writer lock keep what they promise
\* when the driver uses them: under main, which creates the threads one after
\* another, joins them, and goes on to the next exercise with the locks as the
\* last one left them.
THEOREM DriverLocksSafe ==
    DriverSpec => [](MutualExclusion /\ NobodyLeavesEarly /\ WriterExclusion)
<1>1. DriverIInv => MutualExclusion
  <2> SUFFICES ASSUME DriverIInv PROVE MutualExclusion
    OBVIOUS
  <2>1. exercise \in 1 .. 6
    BY DEF DriverIInv, DriverTypeOK
  <2>2. CASE exercise = 3
    BY <2>2 DEF DriverIInv, Ex3Inv
  <2>3. CASE exercise # 3
    <3>1. \/ exercise = 1 \/ exercise = 2 \/ exercise = 4 \/ exercise = 5 \/ exercise = 6
      BY <2>1, <2>3
    <3>2. SUFFICES \A t \in Thread : pc[t] \notin Critical
      BY DEF MutualExclusion
    <3>3. (exercise = 1 => SubInv) /\ (exercise = 2 => AddInv)
          /\ (exercise = 4 => Ex2Inv) /\ (exercise = 5 => Ex4Inv)
          /\ (exercise = 6 => \A t \in Thread : pc[t] = "none")
      BY DEF DriverIInv
    <3>4. (SubInv \/ AddInv) => \A t \in Thread : pc[t] \notin Critical
      BY DEF SubInv, AddInv, Ex1Inv, Critical
    <3>5. Ex2Inv => \A t \in Thread : pc[t] \notin Critical
      BY DEF Ex2Inv, Ex2Thread, Critical
    <3>6. Ex4Inv => \A t \in Thread : pc[t] \notin Critical
      BY DEF Ex4Inv, ReaderInv, WriterInv, ReaderAt, WriterAt, Critical
    <3> QED BY <3>1, <3>3, <3>4, <3>5, <3>6 DEF Critical
  <2> QED BY <2>2, <2>3
<1>2. DriverIInv => NobodyLeavesEarly
  BY OnePhaseIsSafe DEF DriverIInv, BarrierIInv
<1>3. DriverIInv => WriterExclusion
  BY DEF DriverIInv, RWIInv
<1> QED BY <1>1, <1>2, <1>3, DriverInitIInv, DriverNextIInv, PTL DEF DriverSpec
=============================================================================
