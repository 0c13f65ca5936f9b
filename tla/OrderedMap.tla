----------------------------- MODULE OrderedMap -----------------------------
(***************************************************************************)
(* Map (containers/map.h) and the BinaryTree it keeps its pairs in         *)
(* (containers/binary_tree.h), one action per call.  The caller never has  *)
(* two pairs with the same key and value in one map.                       *)
(***************************************************************************)
EXTENDS RedBlackTree

CONSTANTS
  Element,    \* pairs of a key, an integer, and a value
  Default     \* the value of a pair made of a key alone

VARIABLES
  tree,       \* the nodes, with those nobody can reach any more
  root,
  numNodes,
  treeLives   \* the tree has not been destroyed

mapVars == <<tree, root, numNodes, treeLives>>

KeyOf == {e[1] : e \in Element}

Items == IF treeLives THEN InOrder(tree, root) ELSE <<>>

MapInit ==
  /\ tree = [e \in {} |-> Fresh]
  /\ root = Null
  /\ numNodes = 0
  /\ treeLives = TRUE

Plant(e) ==
  /\ tree' = Paint(With(tree, e), e, FALSE)
  /\ root' = e
  /\ numNodes' = 1

Grow(t) ==
  /\ tree' = t
  /\ root' = GetRoot(t, root)
  /\ numNodes' = numNodes + 1

\* Map::insert, which is BinaryTree::insertUnique: the node made for a pair with
\* the root's key is released again.
Put(e) ==
  /\ treeLives
  /\ e \notin DOMAIN tree
  /\ \/ root = Null /\ Plant(e)
     \/ root # Null /\ root[1] = e[1] /\ UNCHANGED <<tree, root, numNodes>>
     \/ root # Null /\ root[1] # e[1] /\ Grow(InsertUnique(With(tree, e), root, e))
  /\ UNCHANGED treeLives

\* Map::operator[] for a key that is not found, with BinaryTree::insert.
At(key) ==
  LET e == <<key, Default>>
  IN  /\ treeLives
      /\ e \in Element \ DOMAIN tree
      /\ Find(tree, root, key) = Null
      /\ \/ root = Null /\ Plant(e)
         \/ root # Null /\ Grow(Insert(With(tree, e), root, e))
      /\ UNCHANGED treeLives

\* Node n goes; heir is the new root if it is the root's node that goes.
Cut(n, heir) ==
  LET e == Evicted(tree, n)
      t == Remove(tree, n)
  IN  /\ tree' = t
      /\ root' = IF e = root THEN heir ELSE GetRoot(t, IF n = root THEN e ELSE root)
      /\ numNodes' = numNodes - 1
      /\ UNCHANGED treeLives

\* BinaryTree::remove(TreeIterator), for an iterator at any node.
RemoveAt(n) ==
  /\ treeLives
  /\ Cut(n, IF tree[root].left # Null THEN tree[root].left ELSE tree[root].right)

\* Map::remove(key) and erase, which turn the iterator of find into the other kind.
RemoveKey(key) ==
  /\ treeLives
  /\ Find(tree, root, key) # Null
  /\ RemoveAt(Find(tree, root, key))

\* BinaryTree::remove(search), and the same for a constant iterator: only the
\* right child is heir, and a left one is lost. Bound: one node is lost.
RemoveSearch(key) ==
  /\ treeLives
  /\ Len(Items) = Cardinality(DOMAIN tree)
  /\ Find(tree, root, key) # Null
  /\ Cut(Find(tree, root, key), tree[root].right)

\* Faulty variant: the right subtree is left behind.
RECURSIVE EmptyLeft(_, _)
EmptyLeft(t, n) == IF n = Null THEN t ELSE EmptyLeft(Without(t, n), t[n].left)

\* empty: the node is released, then its subtrees.
RECURSIVE Empty(_, _)
Empty(t, n) ==
  IF n = Null THEN t ELSE Empty(Empty(Without(t, n), t[n].left), t[n].right)

\* ~BinaryTree, on every path after which the tree is gone.
Destroy ==
  /\ treeLives
  /\ tree' = Empty(tree, root)
  /\ treeLives' = FALSE
  /\ UNCHANGED <<root, numNodes>>

MapNext ==
  \/ \E e \in Element : Put(e)
  \/ \E key \in KeyOf : At(key)
  \/ \E i \in DOMAIN Items : RemoveAt(Items[i])
  \/ \E key \in KeyOf : RemoveKey(key)
  \/ \E key \in KeyOf : RemoveSearch(key)
  \/ Destroy

----------------------------------------------------------------------------
\* Every sequence of calls leaves a red-black tree: no red node has a red child
\* and all ways down have as many black nodes, so that find is logarithmic.
Balanced == treeLives => RedBlack(tree, root)

\* The links that iterators follow visit the nodes in the order of the tree.
LinksInOrder == treeLives => Threaded(tree, root)

\* find finds a pair whenever one with that key is in the tree, duplicates or not.
Findable ==
  treeLives =>
    \A i \in DOMAIN Items : LET n == Find(tree, root, Items[i][1])
                            IN  n # Null /\ n[1] = Items[i][1]

\* The counter is the number of nodes, unless the tree forgot its last one.
Counted == treeLives /\ root # Null => numNodes = Len(Items)

\* The destructor releases every node, unless BinaryTree::remove(search) lost one.
NothingLeaks == ~treeLives => DOMAIN tree \subseteq {e \in Element : tree[e].parent = Null}

\* A Map implements SortedBag: rotations and removals never lose, double or move
\* an element.
Bag == INSTANCE SortedBag WITH items <- Items
BagStep == treeLives' => Bag!Next \/ Items' = Items
=============================================================================
