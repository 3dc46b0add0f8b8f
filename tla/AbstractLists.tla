---------------------------- MODULE AbstractLists ---------------------------
(***************************************************************************)
(* Lists as sequences: entries move between them and in and out of them.   *)
(***************************************************************************)
EXTENDS Naturals, Sequences

CONSTANTS Heads, Entries

VARIABLE lists          \* the sequence behind every head

Loose(e) == \A h \in Heads : \A k \in DOMAIN lists[h] : lists[h][k] # e
Without(e) == [h \in Heads |-> SelectSeq(lists[h], LAMBDA x : x # e)]

Init == lists = [h \in Heads |-> <<>>]

Push(e, h) == Loose(e) /\ lists' = [lists EXCEPT ![h] = <<e>> \o @]
PushTail(e, h) == Loose(e) /\ lists' = [lists EXCEPT ![h] = Append(@, e)]
TakeOut(e) == ~ Loose(e) /\ lists' = Without(e)
Move(e, h) == ~ Loose(e) /\ lists' = [Without(e) EXCEPT ![h] = <<e>> \o @]
MoveTail(e, h) == ~ Loose(e) /\ lists' = [Without(e) EXCEPT ![h] = Append(@, e)]
Splice(l, h) == l # h /\ lists' = [lists EXCEPT ![h] = lists[l] \o @, ![l] = <<>>]

Next ==
    \/ \E e \in Entries :
          \/ \E h \in Heads : Push(e, h) \/ PushTail(e, h) \/ Move(e, h) \/ MoveTail(e, h)
          \/ TakeOut(e)
    \/ \E l, h \in Heads : Splice(l, h)

Spec == Init /\ [][Next]_lists
=============================================================================
