------------------------------- MODULE Powers -------------------------------
(***************************************************************************)
(* 1 << k, the size of a block of order k in the buddy allocator.          *)
(***************************************************************************)
EXTENDS Integers

pow2[k \in Nat] == IF k = 0 THEN 1 ELSE 2 * pow2[k - 1]
=============================================================================
