-------------------------- MODULE AbstractMultimap --------------------------
(***************************************************************************)
(* What a hash table promises: a bag of (key, value) pairs.  A key may be  *)
(* there more than once, and then any of its values may be meant.          *)
(***************************************************************************)
EXTENDS Integers, Bags

CONSTANTS Keys, Values, Width

VARIABLES
    bag,            \* the pairs
    ret             \* what the last call returned

vars == <<bag, ret>>

Pairs(k) == {e \in BagToSet(bag) : e[1] = k}
Single(k, v) == SetToBag({<<k, v>>})

Init == bag = EmptyBag /\ ret = 0

Insert(k, v) ==
    \/ bag' = bag (+) Single(k, v) /\ ret' = -1
    \/ UNCHANGED bag /\ ret' = 0

\* A pair of the key gets a new value.
Update(k, New(_)) ==
    \/ /\ ret' = -1
       /\ \E e \in Pairs(k) : bag' = (bag (-) SetToBag({e})) (+) Single(k, New(e[2]))
    \/ Pairs(k) = {} /\ ret' = 0 /\ UNCHANGED bag

Search(k) ==
    /\ \/ \E e \in Pairs(k) : ret' = e[2]
       \/ Pairs(k) = {} /\ ret' = 0
    /\ UNCHANGED bag

Remove(k) ==
    \/ \E e \in Pairs(k) : bag' = bag (-) SetToBag({e}) /\ ret' = e[2]
    \/ Pairs(k) = {} /\ ret' = 0 /\ UNCHANGED bag

\* An iterator drops a pair; the table is thrown away.
Drop == \E e \in BagToSet(bag) : bag' = bag (-) SetToBag({e}) /\ UNCHANGED ret
Clear == bag' = EmptyBag /\ UNCHANGED ret

Next ==
    \/ \E k \in Keys :
          \/ \E v \in Values :
                \/ Insert(k, v)
                \/ Update(k, LAMBDA old : v)
                \/ Update(k, LAMBDA old : (old + v) % 2 ^ Width)
                \/ Update(k, LAMBDA old : (old - v) % 2 ^ Width)
          \/ Search(k) \/ Remove(k)
    \/ Drop \/ Clear

Spec == Init /\ [][Next]_vars
=============================================================================
