-------------------------- MODULE AbstractBarrier --------------------------
(***************************************************************************)
(* What a reusable barrier promises, as two counters per thread: how often *)
(* it has arrived and how often it has left.  Nobody leaves for the n-th   *)
(* time before everybody has arrived n times.                              *)
(***************************************************************************)
EXTENDS Naturals

CONSTANT Thread

VARIABLES arrived, left

avars == <<arrived, left>>

Init ==
    /\ arrived = [t \in Thread |-> 0]
    /\ left = [t \in Thread |-> 0]

Arrive(t) ==
    /\ arrived[t] = left[t]
    /\ arrived' = [arrived EXCEPT ![t] = @ + 1]
    /\ UNCHANGED left

Leave(t) ==
    /\ left[t] < arrived[t]
    /\ \A u \in Thread : arrived[t] <= arrived[u]
    /\ left' = [left EXCEPT ![t] = @ + 1]
    /\ UNCHANGED arrived

Next == \E t \in Thread : Arrive(t) \/ Leave(t)

Spec == Init /\ [][Next]_avars
=============================================================================
