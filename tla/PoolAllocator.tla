--------------------------- MODULE PoolAllocator ----------------------------
(***************************************************************************)
(* MallocBinned (hal/malloc_binned.h) and its pools (hal/malloc_pool.h):   *)
(* pools of blocks of one size, in a list for each size, and a red-black   *)
(* tree by which a block that is freed finds its pool.                     *)
(*                                                                         *)
(* A pool is known by the address of its buffer, and a block by that       *)
(* address and its number: addresses are in the order of these pairs.  No  *)
(* block is freed twice.                                                   *)
(***************************************************************************)
EXTENDS RedBlackTree

CONSTANTS
  MinBlock,     \* MALLOC_BINNED_BLOCK_MIN_SIZE, a power of 2
  LastBucket,   \* MALLOC_BINNED_NUM_BUCKETS - 1
  Blocks,       \* blocks in a pool: fewer than in the code
  MaxPools      \* bound: pools ever made

VARIABLES
  bucketOf,   \* the bucket of each pool
  buckets,    \* the list of pools of each bucket, first one first
  free,       \* the free list of each pool
  numFree,    \* numFreeBlocks of each pool
  tree,
  root,
  lent,       \* the blocks in use
  refused     \* the size asked for, if the last call returned a null pointer

poolVars == <<bucketOf, buckets, free, numFree, tree, root, lent, refused>>

Bucket == 0..LastBucket
BlockSize(b) == 2^b * MinBlock
MaxBlock == BlockSize(LastBucket)

\* getBucketIndex: the size is halved, and what is left over forgotten.
RECURSIVE BucketIndex(_)
BucketIndex(n) == IF n > MinBlock THEN 1 + BucketIndex(n \div 2) ELSE 0

Pools == DOMAIN bucketOf
PoolNode(p) == <<p, bucketOf[p]>>

\* A map with a value for one more, or another value for one.
Map(f, x, y) == [z \in DOMAIN f \cup {x} |-> IF z = x THEN y ELSE f[z]]

NewFreeList(p) == [i \in 1..Blocks |-> <<p, i>>]

Rooted(t, n) == IF t[n].parent # Null THEN t[n].parent ELSE n

\* createPool, at whatever address the system has: the new pool is the first of
\* its bucket. The root is looked for no further than one node up.
Created(p, b) ==
  LET n == <<p, b>>
      t == IF root = Null THEN Paint(With(tree, n), n, FALSE)
           ELSE InsertUnique(With(tree, n), root, n)
  IN  /\ p \in 1..MaxPools \ Pools
      /\ bucketOf' = Map(bucketOf, p, b)
      /\ tree' = t
      /\ root' = IF root = Null THEN n ELSE Rooted(t, root)

\* The search of free, realloc and getAllocSize: the pool of a block, or null.
RECURSIVE PoolAt(_, _)
PoolAt(n, block) ==
  IF n = Null \/ n[1] = block[1] THEN n
  ELSE PoolAt(tree[n][IF block[1] < n[1] THEN "left" ELSE "right"], block)

----------------------------------------------------------------------------
\* The constructor, which makes a pool for each bucket, one step for each.
PoolInit ==
  /\ bucketOf = [p \in {} |-> 0]
  /\ buckets = [b \in Bucket |-> <<>>]
  /\ free = [p \in {} |-> <<>>]
  /\ numFree = [p \in {} |-> 0]
  /\ tree = [n \in {} |-> Fresh]
  /\ root = Null
  /\ lent = {}
  /\ refused = 0

Building == Cardinality(Pools) <= LastBucket

Build(p) ==
  LET b == Cardinality(Pools)
  IN  /\ Building
      /\ Created(p, b)
      /\ buckets' = [buckets EXCEPT ![b] = <<p>>]
      /\ free' = Map(free, p, NewFreeList(p))
      /\ numFree' = Map(numFree, p, Blocks)
      /\ UNCHANGED <<lent, refused>>

\* MallocPool::malloc of n bytes, in a pool with these free blocks.
Take(p, list, n) ==
  LET granted == n <= BlockSize(bucketOf'[p])
      left == IF granted THEN Tail(list) ELSE list
  IN  /\ free' = Map(free, p, left)
      /\ numFree' = Map(numFree, p, Len(left))
      /\ lent' = IF granted THEN lent \cup {Head(list)} ELSE lent
      /\ refused' = IF granted THEN 0 ELSE n

\* The first pool in the bucket with a free block.
Candidates(b) == {i \in DOMAIN buckets[b] : numFree[buckets[b][i]] > 0}

First(b) == CHOOSE i \in Candidates(b) : \A j \in Candidates(b) : i <= j

\* Faulty variant: the pool found is not brought forth, and what precedes it is lost.
MallocCutting(n) ==
  LET b == BucketIndex(n)
      list == buckets[b]
  IN  /\ ~Building /\ n <= MaxBlock /\ Candidates(b) # {}
      /\ buckets' = [buckets EXCEPT ![b] = SubSeq(list, First(b), Len(list))]
      /\ UNCHANGED <<bucketOf, tree, root>>
      /\ Take(list[First(b)], free[list[First(b)]], n)

\* malloc: the pool found is brought forth.
MallocFrom(n) ==
  LET b == BucketIndex(n)
      list == buckets[b]
      i == First(b)
  IN  /\ ~Building /\ n <= MaxBlock /\ Candidates(b) # {}
      /\ buckets' = [buckets EXCEPT ![b] =
           <<list[i]>> \o SubSeq(list, 1, i - 1) \o SubSeq(list, i + 1, Len(list))]
      /\ UNCHANGED <<bucketOf, tree, root>>
      /\ Take(list[i], free[list[i]], n)

\* malloc, when all pools of the bucket are exhausted.
MallocNew(n, p) ==
  LET b == BucketIndex(n)
  IN  /\ ~Building /\ n <= MaxBlock /\ Candidates(b) = {}
      /\ Created(p, b)
      /\ buckets' = [buckets EXCEPT ![b] = <<p>> \o @]
      /\ Take(p, NewFreeList(p), n)

\* MallocPool::free: the block is the first to be lent again.
Relink(p, x) ==
  /\ free' = [free EXCEPT ![p] = <<x>> \o @]
  /\ numFree' = [numFree EXCEPT ![p] = @ + 1]
  /\ lent' = lent \ {x}
  /\ refused' = 0

Free(x) ==
  LET p == PoolAt(root, x)[1]
  IN  /\ x \in lent
      /\ PoolAt(root, x) # Null
      /\ Relink(p, x)
      /\ UNCHANGED <<bucketOf, buckets, tree, root>>

\* realloc changes nothing for a size below the block's, and else is free followed
\* by malloc, which is what those actions do.
PoolNext ==
  \/ \E p \in 1..MaxPools : Build(p)
  \/ \E n \in 1..MaxBlock : MallocFrom(n) \/ \E p \in 1..MaxPools : MallocNew(n, p)
  \/ \E x \in lent : Free(x)

----------------------------------------------------------------------------
\* The tree of pools stays one: a root with nothing above it, and all pools in
\* balance below it, although createPool only looks one node up for a new root.
PoolsInTree ==
  /\ root # Null => RedBlack(tree, root) /\ InOrder(tree, root) # <<>>
  /\ root # Null => {InOrder(tree, root)[i] : i \in DOMAIN InOrder(tree, root)} = {PoolNode(p) : p \in Pools}

\* Each block in use is found to be of the pool it came from, so that freeing it
\* never hands it to another allocator; it is not free as well.
BlocksAtHome ==
  \A x \in lent :
    /\ PoolAt(root, x) = PoolNode(x[1])
    /\ \A i \in DOMAIN free[x[1]] : free[x[1]][i] # x

\* No block is lost: those free and those in use are all blocks of a pool, and
\* every pool can be found from its bucket.
NoBlockLost ==
  \A p \in Pools :
    /\ {free[p][i] : i \in DOMAIN free[p]} \cup {x \in lent : x[1] = p} = {<<p, i>> : i \in 1..Blocks}
    /\ numFree[p] = Len(free[p])
    /\ \E i \in DOMAIN buckets[bucketOf[p]] : buckets[bucketOf[p]][i] = p

\* A request within the largest block size is refused only if its size is a little
\* above the block size of its bucket, which halving it has hidden.
RefusedByHalving ==
  LET b == BucketIndex(refused)
  IN  refused > 0 => refused > BlockSize(b) /\ refused < BlockSize(b) + 2^b
=============================================================================
