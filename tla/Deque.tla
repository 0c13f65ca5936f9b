------------------------------- MODULE Deque --------------------------------
(***************************************************************************)
(* What a list promises: a sequence that grows and shrinks at both ends,   *)
(* grows before any element and is emptied at once; a call that shrinks it *)
(* at an end may hand out the element that was there.                      *)
(***************************************************************************)
EXTENDS Integers, Sequences

CONSTANTS
  Element,
  Nothing     \* what is handed out by the other calls

VARIABLES
  items,
  out         \* what the last call has handed out

Init == items = <<>> /\ out = Nothing

Push(e) == items' = Append(items, e) /\ out' = Nothing

InsertAt(i, e) ==
  /\ items' = SubSeq(items, 1, i - 1) \o <<e>> \o SubSeq(items, i, Len(items))
  /\ out' = Nothing

\* The last element goes.
Shrink == items # <<>> /\ items' = SubSeq(items, 1, Len(items) - 1)

Pop == Shrink /\ out' \in {Nothing, items[Len(items)]}

PopFront == items # <<>> /\ items' = Tail(items) /\ out' \in {Nothing, Head(items)}

Clear == items' = <<>> /\ out' = Nothing

Next ==
  \/ \E e \in Element : Push(e) \/ \E i \in 1..Len(items) : InsertAt(i, e)
  \/ Pop \/ PopFront \/ Clear

Spec == Init /\ [][Next]_<<items, out>>
=============================================================================
