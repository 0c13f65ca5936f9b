---------------------------- MODULE RedBlackTree ----------------------------
(***************************************************************************)
(* BinaryNode (containers/binary_tree.h): the nodes of a red-black tree,   *)
(* which are also linked in order.  Pure functions of the memory t, which  *)
(* maps nodes to what they hold.                                           *)
(*                                                                         *)
(* A node is named by the element it holds, a pair whose first part is     *)
(* what the tree is ordered by.  The code writes everything twice, for the *)
(* left and for the right: here a side is an argument.                     *)
(***************************************************************************)
EXTENDS Integers, Sequences, FiniteSets

CONSTANT Null    \* the null pointer

Side == {"left", "right"}
Other(s) == IF s = "left" THEN "right" ELSE "left"

\* The link in order that goes with a side.
Along(s) == IF s = "left" THEN "prev" ELSE "next"

\* Compare<T>: by key alone.
Before(a, b) == a[1] < b[1]

Fresh == [parent |-> Null, left |-> Null, right |-> Null,
          prev |-> Null, next |-> Null, red |-> TRUE]

With(t, n) == [e \in DOMAIN t \cup {n} |-> IF e = n THEN Fresh ELSE t[e]]

Without(t, n) == [e \in DOMAIN t \ {n} |-> t[e]]

Red(t, n) == n # Null /\ t[n].red

Paint(t, n, red) == [t EXCEPT ![n].red = red]

SideOf(t, n) == IF t[t[n].parent].left = n THEN "left" ELSE "right"

----------------------------------------------------------------------------
RECURSIVE GetRoot(_, _)
GetRoot(t, n) == IF t[n].parent = Null THEN n ELSE GetRoot(t, t[n].parent)

\* getMin and getMax: the last node on the way to one side.
RECURSIVE Extreme(_, _, _)
Extreme(t, n, s) == IF t[n][s] = Null THEN n ELSE Extreme(t, t[n][s], s)

RECURSIVE Find(_, _, _)
Find(t, n, key) ==
  IF n = Null \/ n[1] = key THEN n
  ELSE Find(t, t[n][IF key < n[1] THEN "left" ELSE "right"], key)

----------------------------------------------------------------------------
\* setLeftChild and setRightChild.
SetChild(t, p, s, n) ==
  LET u == [t EXCEPT ![p][s] = n]
  IN  IF n = Null THEN u ELSE [u EXCEPT ![n].parent = p]

\* setPrevNode and setNextNode: n comes between p and what p was linked to.
SetLink(t, p, s, n) ==
  LET beyond == t[p][Along(s)]
      back == Along(Other(s))
      u == [t EXCEPT ![n][Along(s)] = beyond, ![n][back] = p, ![p][Along(s)] = n]
  IN  IF beyond = Null THEN u ELSE [u EXCEPT ![beyond][back] = n]

\* rotateLeft and rotateRight: the child on the other side takes n's place.
Rotate(t, n, s) ==
  LET c == t[n][Other(s)]
      p == t[n].parent
      raised == IF p = Null THEN [t EXCEPT ![c].parent = Null]
                ELSE SetChild(t, p, SideOf(t, n), c)
  IN  SetChild(SetChild(raised, n, Other(s), t[c][s]), c, s, n)

\* Faulty variant: the uncle keeps its colour.
RECURSIVE RepairUncleRed(_, _)
RepairUncleRed(t, n) ==
  LET p == t[n].parent
      g == t[p].parent
      s == SideOf(t, p)
      uncle == t[g][Other(s)]
  IN  IF p = Null THEN Paint(t, n, FALSE)
      ELSE IF ~t[p].red THEN Paint(t, n, TRUE)
      ELSE IF Red(t, uncle) THEN RepairUncleRed(Paint(Paint(t, p, FALSE), g, TRUE), g)
      ELSE Paint(Paint(Rotate(t, g, Other(s)), p, FALSE), g, TRUE)

RECURSIVE Repair(_, _)
Repair(t, n) ==
  LET p == t[n].parent
      g == t[p].parent
      s == SideOf(t, p)
      uncle == t[g][Other(s)]
      inner == t[p][Other(s)] = n
      top == IF inner THEN n ELSE p
      turned == IF inner THEN Rotate(t, p, s) ELSE t
  IN  IF p = Null THEN Paint(t, n, FALSE)
      ELSE IF ~t[p].red THEN Paint(t, n, TRUE)
      ELSE IF Red(t, uncle)
      THEN Repair(Paint(Paint(Paint(t, uncle, FALSE), p, FALSE), g, TRUE), g)
      ELSE Paint(Paint(Rotate(turned, g, Other(s)), top, FALSE), g, TRUE)

----------------------------------------------------------------------------
\* BinaryNode::insert: an element goes to the right of its equals.
RECURSIVE Insert(_, _, _)
Insert(t, p, n) ==
  LET s == IF Before(n, p) THEN "left" ELSE "right"
  IN  IF t[p][s] # Null THEN Insert(t, t[p][s], n)
      ELSE Repair(SetChild(SetLink(t, p, s, n), p, s, n), n)

\* BinaryNode::insertUnique at the root p, for an element with another key: the
\* rest of the way is insert's, so that only p is compared for equality. The
\* new node is linked to p alone.
InsertUnique(t, p, n) ==
  LET s == IF Before(n, p) THEN "left" ELSE "right"
  IN  IF t[p][s] # Null THEN Insert(t, t[p][s], n)
      ELSE Repair(SetChild([t EXCEPT ![p][Along(s)] = n, ![n][Along(Other(s))] = p],
                           p, s, n), n)

----------------------------------------------------------------------------
\* repairRemoved, for the node n, which may be null, below p.
RECURSIVE RepairRemoved(_, _, _)
RepairRemoved(t, n, p) ==
  IF n = Null /\ p = Null THEN t
  ELSE IF n # Null /\ (t[n].red \/ p = Null) THEN Paint(t, n, FALSE)
  ELSE
    LET s == IF t[p].left = n THEN "left" ELSE "right"
        far == Other(s)
        redSibling == t[t[p][far]].red
        u == IF redSibling
             THEN Rotate(Paint(Paint(t, t[p][far], FALSE), p, TRUE), p, s) ELSE t
        sibling == u[p][far]
        inner == u[sibling][s]
        v == IF Red(u, inner)
             THEN Rotate(Paint(Paint(u, sibling, TRUE), inner, FALSE), sibling, far) ELSE u
        top == IF Red(u, inner) THEN inner ELSE sibling
    IN  IF ~u[sibling].red /\ ~Red(u, inner) /\ ~Red(u, u[sibling][far])
        THEN RepairRemoved(Paint(u, sibling, TRUE), p, u[p].parent)
        ELSE Rotate(Paint(Paint(Paint(v, top, v[p].red), p, FALSE), v[top][far], FALSE), p, s)

\* Faulty variant: the other end of the left subtree.
EvictedFirst(t, n) ==
  IF t[n].left # Null /\ t[n].right # Null THEN Extreme(t, t[n].left, "left") ELSE n

\* The node that BinaryNode::remove takes out of the tree.
Evicted(t, n) ==
  IF t[n].left # Null /\ t[n].right # Null THEN Extreme(t, t[n].right, "left") ELSE n

\* What is left of the links in order around e, which has at most one child.
Unlink(t, e) ==
  LET s == IF t[e].left # Null THEN "left" ELSE "right"
      child == t[e][s]
      w == Along(Other(s))   \* the link of the child that led to e
      x == t[e][w]
      joined == [f \in DOMAIN t |->
                   [t[f] EXCEPT !.next = IF f = t[e].prev THEN t[e].next ELSE @,
                                !.prev = IF f = t[e].next THEN t[e].prev ELSE @]]
      u == [t EXCEPT ![child][w] = x]
  IN  IF child = Null THEN joined
      ELSE IF x = Null THEN u ELSE [u EXCEPT ![x][Along(s)] = child]

\* Takes the node e, with at most one child, out of the tree.
Evict(t, e) ==
  LET child == IF t[e].left # Null THEN t[e].left ELSE t[e].right
      p == t[e].parent
      u == Unlink(t, e)
      v == IF p # Null THEN SetChild(u, p, SideOf(u, e), child)
           ELSE IF child # Null THEN [u EXCEPT ![child].parent = Null] ELSE u
  IN  IF t[e].red THEN v
      ELSE RepairRemoved(v, child, IF child # Null THEN v[child].parent ELSE p)

\* The node e is from now on called n.
Rename(t, e, n) ==
  LET new(f) == IF f = e THEN n ELSE f
      old(f) == IF f = n THEN e ELSE f
  IN  [f \in {new(g) : g \in DOMAIN t} |->
         LET r == t[old(f)]
         IN  [r EXCEPT !.parent = new(@), !.left = new(@), !.right = new(@),
                       !.prev = new(@), !.next = new(@)]]

\* BinaryNode::remove and the release of the node it evicts. A node with two
\* children stays and gets the element of the node evicted.
Remove(t, n) ==
  LET e == Evicted(t, n)
      u == Without(Evict(t, e), e)
  IN  IF e = n THEN u ELSE Rename(u, n, e)

----------------------------------------------------------------------------
(***************************************************************************)
(* What a red-black tree must be, for the properties of the modules that   *)
(* use one.                                                                *)
(***************************************************************************)
RECURSIVE InOrder(_, _)
InOrder(t, n) ==
  IF n = Null THEN <<>> ELSE InOrder(t, t[n].left) \o <<n>> \o InOrder(t, t[n].right)

\* At most k steps along the links in order.
RECURSIVE Walk(_, _, _, _)
Walk(t, n, w, k) ==
  IF n = Null \/ k = 0 THEN <<>> ELSE <<n>> \o Walk(t, t[n][w], w, k - 1)

RECURSIVE BlackDepths(_, _)
BlackDepths(t, n) ==
  IF n = Null THEN {0}
  ELSE {d + (IF t[n].red THEN 0 ELSE 1) :
          d \in BlackDepths(t, t[n].left) \cup BlackDepths(t, t[n].right)}

\* The nodes below root form a red-black tree.
RedBlack(t, root) ==
  /\ \A n \in DOMAIN t : \A s \in Side : t[n][s] # Null => t[t[n][s]].parent = n
  /\ root # Null => t[root].parent = Null /\ ~t[root].red
  /\ \A n \in DOMAIN t : t[n].red => ~Red(t, t[n].left) /\ ~Red(t, t[n].right)
  /\ Cardinality(BlackDepths(t, root)) = 1

\* The links in order visit every node below root, both ways.
Threaded(t, root) ==
  LET all == InOrder(t, root)
      k == Len(all)
  IN  root # Null =>
        /\ Walk(t, all[1], "next", k + 1) = all
        /\ Walk(t, all[k], "prev", k + 1) = [i \in 1..k |-> all[k + 1 - i]]
=============================================================================
