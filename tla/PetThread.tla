----------------------------- MODULE PetThread -----------------------------
(***************************************************************************)
(* The cooperative threads of user_threads/pet_thread.c.  One thread runs  *)
(* at a time and nothing interrupts it, so a call of the library, up to    *)
(* the switch to another stack and the cleanup on that stack, is one step. *)
(* What a suspended call still does when its thread is resumed is done in  *)
(* the step that resumes it.                                               *)
(*                                                                         *)
(* Threads are named by their ids, which are never reused.  get_thread     *)
(* also reads the id of the last stopped thread after that thread has been *)
(* freed: whether it still finds the thread there is left open.            *)
(***************************************************************************)
EXTENDS Integers, Sequences, Functions

CONSTANTS
    MaxThreads,      \* bound on pet_thread_create calls
    RetVal,          \* values a thread function can return
    NULL

ASSUME PetThreadAssumption == MaxThreads \in Nat /\ NULL \notin RetVal \cup Nat

Master == 0                        \* PET_MASTER_THREAD_ID
Created == 1 .. MaxThreads
Thread == {Master} \cup Created

\* Where a suspended thread goes on: in its function, after a yield (which
\* may have been the one that invokes the master), after a join, nowhere.
Start == [at |-> "start", on |-> NULL]
Yield == [at |-> "yield", on |-> NULL]
Yield9 == [at |-> "schedule9", on |-> NULL]
Join(t) == [at |-> "join", on |-> t]
Exited == [at |-> "exited", on |-> NULL]

VARIABLES
    thread_id_count,
    state,           \* of every thread; "none" before it is created
    ready_list, blocked_list,
    running,
    stopped,         \* the last thread that stopped, or NULL
    waiting,         \* waiting_for_me_list of every thread
    return_reciever,
    cont,            \* where a thread is suspended
    freed,           \* the threads whose stack and struct have been freed
    joined,          \* history: the <<thread, value>> of the last join
    exit_value,      \* history: what a thread exited with, or NULL
    unsafe,          \* history: main has joined, been joined or exited, or a
                     \* thread has joined one that get_thread found freed
    crashed          \* "no", "assert" or "segv"

lists == <<ready_list, blocked_list>>
vars == <<thread_id_count, state, lists, running, stopped, waiting, return_reciever,
          cont, freed, joined, exit_value, unsafe, crashed>>

\* pet_thread_init
Init ==
    /\ thread_id_count = 1
    /\ state = [t \in Thread |-> IF t = Master THEN "RUNNING" ELSE "none"]
    /\ ready_list = <<>>
    /\ blocked_list = <<>>
    /\ running = Master
    /\ stopped = NULL
    /\ waiting = [t \in Thread |-> <<>>]
    /\ return_reciever = [t \in Thread |-> NULL]
    /\ cont = [t \in Thread |-> Start]
    /\ freed = {}
    /\ joined = [t \in Thread |-> <<NULL, NULL>>]
    /\ exit_value = [t \in Thread |-> NULL]
    /\ unsafe = FALSE
    /\ crashed = "no"

\* The threads get_thread finds, whatever free() has left of the last stopped
\* one.
Live == {t \in Thread : state[t] # "none" /\ t \notin freed}

\* A failed assert or a wild pointer ends the program.
Crash(how) ==
    /\ crashed' = how
    /\ UNCHANGED <<state, lists, running, stopped, return_reciever, cont, freed, joined>>

\* pet_thread_cleanup, on the stack of the next thread.
pet_thread_cleanup(prev, st) ==
    freed' = IF st[prev] = "STOPPED" THEN freed \cup {prev} ELSE freed

\* The list without the entry t.
list_del_from(list, t) ==
    LET at == CHOOSE k \in 1 .. Len(list) : list[k] = t
    IN [k \in 1 .. Len(list) - 1 |-> IF k < at THEN list[k] ELSE list[k + 1]]

\* A mistaken switch that leaves the running thread marked as running.
Switched_forgets(st, t) == [st EXCEPT ![t] = "RUNNING"]

\* The states after the running thread has given way to t.
Switched(st, t) ==
    [u \in Thread |-> IF u = t THEN "RUNNING"
                     ELSE IF u = running /\ st[u] = "RUNNING" THEN "READY"
                     ELSE st[u]]

\* A mistaken invoker that loses a running thread.
__thread_invoker_drops(t, st, rl, bl, rr, here) ==
    IF st[t] # "READY" \/ st[running] = "READY" THEN Crash("assert")
    ELSE IF st[running] = "BLOCKED" /\ running \in Range(rl) THEN Crash("segv") ELSE
    /\ running' = t
    /\ stopped' = IF st[running] = "STOPPED" THEN running ELSE stopped
    /\ ready_list' = IF t = Master THEN rl ELSE list_del_from(rl, t)
    /\ blocked_list' = IF st[running] = "BLOCKED" THEN Append(bl, running) ELSE bl
    /\ state' = Switched(st, t)
    /\ cont' = [cont EXCEPT ![running] = here]
    /\ pet_thread_cleanup(running, st)
    /\ joined' = IF cont[t].at = "join" THEN [joined EXCEPT ![t] = <<cont[t].on, rr[t]>>] ELSE joined
    /\ return_reciever' = rr
    /\ UNCHANGED crashed

\* __thread_invoker(t): st, rl, bl and rr are what the caller has made of the
\* states, the two lists and the return_recievers; here is where the running
\* thread is left.  A join that is resumed reads its return_reciever.  The
\* master stays on the ready list when it is taken from there; linking it into
\* the blocked list then leaves neither of them a list.
__thread_invoker(t, st, rl, bl, rr, here) ==
    IF st[t] # "READY" \/ st[running] = "READY" THEN Crash("assert")
    ELSE IF st[running] = "BLOCKED" /\ running \in Range(rl) THEN Crash("segv") ELSE
    /\ running' = t
    /\ stopped' = IF st[running] = "STOPPED" THEN running ELSE stopped
    /\ ready_list' = (IF t = Master THEN rl ELSE list_del_from(rl, t))
                     \o (IF st[running] = "RUNNING" /\ running # Master THEN <<running>> ELSE <<>>)
    /\ blocked_list' = IF st[running] = "BLOCKED" THEN Append(bl, running) ELSE bl
    /\ state' = Switched(st, t)
    /\ cont' = [cont EXCEPT ![running] = here]
    /\ pet_thread_cleanup(running, st)
    /\ joined' = IF cont[t].at = "join" THEN [joined EXCEPT ![t] = <<cont[t].on, rr[t]>>] ELSE joined
    /\ return_reciever' = rr
    /\ UNCHANGED crashed

\* A mistaken scheduler that takes the youngest ready thread.
schedule_last(st, rl, bl, rr, here) ==
    \/ /\ rl = <<>> /\ running # Master
       /\ __thread_invoker(Master, st, rl, bl, rr, IF here = Yield THEN Yield9 ELSE here)
    \/ /\ rl = <<>> /\ running = Master
       /\ state' = st /\ return_reciever' = rr
       /\ joined' = IF here.at = "join" THEN [joined EXCEPT ![Master] = <<here.on, rr[Master]>>] ELSE joined
       /\ UNCHANGED <<lists, running, stopped, cont, freed, crashed>>
    \/ /\ rl # <<>>
       /\ __thread_invoker(rl[Len(rl)], st, rl, bl, rr, here)

\* pet_thread_schedule called with the given states and lists.  With nothing
\* ready the master thread is invoked, and the call would come back to
\* "return 9"; in the master itself it returns at once.
schedule(st, rl, bl, rr, here) ==
    \/ /\ rl = <<>> /\ running # Master
       /\ __thread_invoker(Master, st, rl, bl, rr, IF here = Yield THEN Yield9 ELSE here)
    \/ /\ rl = <<>> /\ running = Master
       /\ state' = st /\ return_reciever' = rr
       /\ joined' = IF here.at = "join" THEN [joined EXCEPT ![Master] = <<here.on, rr[Master]>>] ELSE joined
       /\ UNCHANGED <<lists, running, stopped, cont, freed, crashed>>
    \/ /\ rl # <<>>
       /\ IF st[Head(rl)] # "READY" THEN Crash("assert")
          ELSE __thread_invoker(Head(rl), st, rl, bl, rr, here)

-----------------------------------------------------------------------------
\* pet_thread_create by the running thread.
pet_thread_create ==
    /\ thread_id_count <= MaxThreads
    /\ thread_id_count' = thread_id_count + 1
    /\ state' = [state EXCEPT ![thread_id_count] = "READY"]
    /\ ready_list' = Append(ready_list, thread_id_count)
    /\ UNCHANGED <<blocked_list, running, stopped, waiting, return_reciever, cont, freed,
                   joined, exit_value, unsafe, crashed>>

\* pet_thread_schedule; in the master thread it is pet_thread_run.
pet_thread_schedule ==
    /\ schedule(state, ready_list, blocked_list, return_reciever, Yield)
    /\ UNCHANGED <<thread_id_count, waiting, exit_value, unsafe>>

\* pet_thread_yield_to: straight to the target if it is ready.  A freed one
\* never is, found or not.
pet_thread_yield_to(t) ==
    /\ IF t \in Live /\ state[t] = "READY"
       THEN __thread_invoker(t, state, ready_list, blocked_list, return_reciever, Yield)
       ELSE schedule(state, ready_list, blocked_list, return_reciever, Yield)
    /\ UNCHANGED <<thread_id_count, waiting, exit_value, unsafe>>

\* pet_thread_join returns -1 for a thread that get_thread does not find, and
\* otherwise blocks until __quarantine of t moves the caller back to the ready
\* list.  The waiting list of the master has never been initialised, and that
\* of a freed thread is no longer its own: linking into either is a wild write.
pet_thread_join(t) ==
    /\ t \in Live \/ t = stopped
    /\ unsafe' = (unsafe \/ running = Master \/ t \in {Master, stopped})
    /\ waiting' = [waiting EXCEPT ![t] = Append(@, running)]
    /\ IF state[running] # "RUNNING" THEN Crash("assert")
       ELSE IF t \in {Master, stopped} THEN Crash("segv")
       ELSE schedule([state EXCEPT ![running] = "BLOCKED"], ready_list, blocked_list,
                     return_reciever, Join(t))
    /\ UNCHANGED <<thread_id_count, exit_value>>

\* What __quarantine makes of the states of the threads that wait for the
\* running one, and of the blocked list with the first k of them unlinked.
waiting_for_me_list == waiting[running]
Waiters == Range(waiting_for_me_list)
unlinked[k \in 0 .. Len(waiting_for_me_list)] ==
    IF k = 0 THEN blocked_list ELSE list_del_from(unlinked[k - 1], waiting_for_me_list[k])
unblock(st) == [t \in Thread |-> IF t \in Waiters THEN "READY" ELSE st[t]]

\* A mistaken __quarantine that forgets to deliver the value.
__quarantine_mute(v) ==
    /\ exit_value' = [exit_value EXCEPT ![running] = v]
    /\ waiting' = [waiting EXCEPT ![running] = <<>>]
    /\ schedule([unblock(state) EXCEPT ![running] = "STOPPED"],
                ready_list \o waiting[running],
                unlinked[Len(waiting[running])],
                return_reciever, Exited)
    /\ unsafe' = (unsafe \/ running = Master)
    /\ UNCHANGED thread_id_count

\* A mistaken __quarantine that wakes only the first thread that waits.
__quarantine_first(v) ==
    /\ exit_value' = [exit_value EXCEPT ![running] = v]
    /\ waiting' = [waiting EXCEPT ![running] = <<>>]
    /\ LET first == IF waiting[running] = <<>> THEN {} ELSE {Head(waiting[running])}
       IN schedule([t \in Thread |-> CASE t = running -> "STOPPED" [] t \in first -> "READY"
                                       [] OTHER -> state[t]],
                   IF first = {} THEN ready_list ELSE Append(ready_list, Head(waiting[running])),
                   IF first = {} THEN blocked_list ELSE unlinked[1],
                   [t \in Thread |-> IF t \in first THEN v ELSE return_reciever[t]], Exited)
    /\ unsafe' = (unsafe \/ running = Master)
    /\ UNCHANGED thread_id_count

\* __quarantine(v), reached from pet_thread_exit or by returning into
\* __capture_return.  The walk along the waiting list of the master starts at
\* a null pointer, and list_del of a waiter that is on no list is a wild write.
__quarantine(v) ==
    /\ exit_value' = [exit_value EXCEPT ![running] = v]
    /\ waiting' = [waiting EXCEPT ![running] = <<>>]
    /\ IF running = Master THEN Crash("segv")
       ELSE IF ~ IsInjective(waiting[running]) \/ \E t \in Waiters : state[t] # "BLOCKED"
       THEN Crash("assert")
       ELSE IF ~ (Waiters \subseteq Range(blocked_list)) THEN Crash("segv")
       ELSE schedule([unblock(state) EXCEPT ![running] = "STOPPED"],
                     ready_list \o waiting[running],
                     unlinked[Len(waiting[running])],
                     [t \in Thread |-> IF t \in Waiters THEN v ELSE return_reciever[t]],
                     Exited)
    /\ unsafe' = (unsafe \/ running = Master)
    /\ UNCHANGED thread_id_count

pet_thread_exit(v) == __quarantine(v)

-----------------------------------------------------------------------------
\* A call that gives the processor to another thread, or may.
Switch ==
    /\ crashed = "no"
    /\ \/ pet_thread_schedule
       \/ \E t \in Thread : pet_thread_join(t)
       \/ \E v \in RetVal : pet_thread_exit(v)

Create == crashed = "no" /\ pet_thread_create

YieldTo == crashed = "no" /\ \E t \in Thread : pet_thread_yield_to(t)

\* After a crash nothing happens any more.
Dead == crashed # "no" /\ UNCHANGED vars

Next == Switch \/ Create \/ YieldTo \/ Dead

\* Cooperation is the threads' part of the contract: one that runs calls the
\* library again, not only to create threads or to yield to one it chooses.
\* main owes nothing: it may return once pet_thread_run has.
Spec == Init /\ [][Next]_vars /\ WF_vars(running # Master /\ Switch)

-----------------------------------------------------------------------------
TypeOK ==
    /\ thread_id_count \in 1 .. MaxThreads + 1
    /\ state \in [Thread -> {"none", "STOPPED", "RUNNING", "READY", "BLOCKED"}]
    /\ ready_list \in Seq(Thread)
    /\ blocked_list \in Seq(Thread)
    /\ running \in Thread
    /\ waiting \in [Thread -> Seq(Thread)]
    /\ return_reciever \in [Thread -> RetVal \cup {NULL}]
    /\ freed \subseteq Created
    /\ stopped \in freed \cup {NULL}
    /\ unsafe \in BOOLEAN
    /\ crashed \in {"no", "assert", "segv"}

\* Every thread is in exactly one place, the one its state says: running,
\* once on the ready list, once on the blocked list, or exited and freed.
\* The master is on no list.  As long as no unsafe call has been made.
OnePlace ==
    ~ unsafe =>
        /\ TypeOK
        /\ IsInjective(ready_list) /\ IsInjective(blocked_list)
        /\ state[running] = "RUNNING"
        /\ \A t \in Created :
              /\ (t \in Range(ready_list)) = (state[t] = "READY")
              /\ (t \in Range(blocked_list)) = (state[t] = "BLOCKED")
              /\ (t = running) = (state[t] = "RUNNING")
              /\ (t \in freed) = (state[t] = "STOPPED")
        /\ Master \notin Range(ready_list) \cup Range(blocked_list)

\* A blocked thread is on the waiting list of exactly one thread, the one it
\* joined, once, and that thread has not exited: its exit will wake it.  As
\* long as no unsafe call has been made.
BlockedOnTheLiving ==
    ~ unsafe => \A t \in Created :
        LET joinees == {u \in Thread : t \in Range(waiting[u])}
        IN IF state[t] = "BLOCKED" THEN joinees = {cont[t].on} /\ joinees \cap freed = {}
           ELSE joinees = {}

\* pet_thread_join gives the value that the joined thread exited with, not
\* that of another thread or of an earlier join.
JoinDelivers ==
    ~ unsafe => \A t \in Thread :
        joined[t] # <<NULL, NULL>> => joined[t][2] = exit_value[joined[t][1]]

\* No assertion of pet_thread.c fails, and no list is entered through a pointer
\* that does not lead to one, unless main has joined a thread, been joined or
\* exited, or a thread has joined the last stopped one and get_thread found
\* its id in the freed memory.  The read of that id is made all the same.
NoCrash == crashed # "no" => unsafe

\* A thread has yielded to main itself, past the ready list.
YieldedToMain == running = Master /\ \E t \in Range(ready_list) : cont[t] = Yield

\* A thread that is ready while a thread of the library runs gets to run in
\* the end, even though nothing makes main call pet_thread_run again: main is
\* not resumed before the ready list is empty.  Unless threads yield to each
\* other past the ready list for ever, or one yields to main.
EveryReadyRuns ==
    [](~ unsafe) /\ <>[][Switch \/ Create]_vars
        => \A t \in Created :
              state[t] = "READY" /\ running # Master
                  ~> state[t] = "RUNNING" \/ YieldedToMain

-----------------------------------------------------------------------------
\* "return 9; // NEVER REACHED" in pet_thread_schedule: no thread that had
\* nothing to yield to is ever resumed.
NeverReached == [][running' # running => cont[running'] # Yield9]_vars

\* "Pet Thread execution has finished", printed when the master is resumed:
\* no thread is left that could execute.
FinishedIsFinished ==
    [][running # Master /\ running' = Master => ready_list' = <<>>]_vars
=============================================================================
