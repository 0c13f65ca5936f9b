----------------------------- MODULE SortedBag ------------------------------
(***************************************************************************)
(* What a Map promises: its elements in the order of their keys, those     *)
(* with the same key in the order they came; calls put one in or take one  *)
(* out.  The one exception is Forget.                                      *)
(***************************************************************************)
EXTENDS Integers, Sequences

CONSTANT Element    \* pairs of a key and a value

VARIABLE items

Init == items = <<>>

\* The element goes after all those whose key is not greater.
Place(e) == Len(SelectSeq(items, LAMBDA f : f[1] <= e[1]))

Add(e) ==
  items' = SubSeq(items, 1, Place(e)) \o <<e>> \o SubSeq(items, Place(e) + 1, Len(items))

Take(i) == items' = SubSeq(items, 1, i - 1) \o SubSeq(items, i + 1, Len(items))

\* Of two elements BinaryTree::remove(search) may lose the other one as well.
Forget == Len(items) = 2 /\ items' = <<>>

Next ==
  \/ \E e \in Element : Add(e)
  \/ \E i \in 1..Len(items) : Take(i)
  \/ Forget

Spec == Init /\ [][Next]_items
=============================================================================
