------------------------------ MODULE Atomics ------------------------------
(***************************************************************************)
(* The lock-prefixed instructions of sync_tools/locking.c.  Each is one    *)
(* atomic step on a memory word; a function of the old value of the word   *)
(* gives the new one, and the old value itself is what CMPXCHG and XADD    *)
(* leave in the register.                                                  *)
(*                                                                         *)
(* An int is a member of INT_MIN..INT_MAX and wraps, as ADD and SUB do.    *)
(***************************************************************************)
EXTENDS Integers

CONSTANTS
    INT_MIN, INT_MAX,
    Thread             \* the threads that use them

ASSUME IntAssumption ==
    /\ INT_MIN \in Int
    /\ INT_MAX \in Nat \ {0}
    /\ INT_MIN <= 0

int == INT_MIN .. INT_MAX

\* Every use of the add and sub instructions in the repository has the
\* immediate 1 as its second operand.
atomic_add(value) == IF value = INT_MAX THEN INT_MIN ELSE value + 1

atomic_sub(value) == IF value = INT_MIN THEN INT_MAX ELSE value - 1

\* The new value of *ptr; the caller also gets the old one.
compare_and_swap(ptr, expected, new) == IF ptr = expected THEN new ELSE ptr
=============================================================================
