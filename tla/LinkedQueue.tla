----------------------------- MODULE LinkedQueue ----------------------------
(***************************************************************************)
(* Queue (containers/queue.h), a singly linked list with a pointer to each *)
(* end: several queues, which are copied and moved into each other, and    *)
(* destroyed.  Nobody assigns a queue to itself.  Each is made with an     *)
(* allocator of its own, which bears its name.                             *)
(*                                                                         *)
(* What a queue does with an allocator that has been deleted is undefined: *)
(* strayed records it, and the model stops there.                          *)
(*                                                                         *)
(* A client node is named by the queue it was made for and the item it     *)
(* holds; no item is twice in a queue.                                     *)
(***************************************************************************)
EXTENDS Integers, Sequences, FiniteSets

CONSTANTS
  Queues,
  Customer,     \* what is queued
  NoClient,     \* the null pointer
  MaxClients    \* bound: what numClients may say

ASSUME QueueAssumption ==
  IsFiniteSet(Queues) /\ NoClient \notin Queues \X Customer /\ MaxClients \in Nat

VARIABLES
  following,    \* the link to the next client, of each client in memory
  first,
  last,
  numClients,
  owned,        \* whose allocator each queue uses, and whether it is to delete it
  origin,       \* the allocator each client in memory was taken from
  standing,     \* queues that have not been destroyed
  deleted,      \* allocators that have been
  strayed       \* whether a queue has used one of these: no, its own, or one lent

queueVars == <<following, first, last, numClients, owned, origin, standing, deleted, strayed>>

QueueInit ==
  /\ following = [c \in {} |-> NoClient]
  /\ first = [q \in Queues |-> NoClient]
  /\ last = [q \in Queues |-> NoClient]
  /\ numClients = [q \in Queues |-> 0]
  /\ owned = [q \in Queues |-> <<q, TRUE>>]
  /\ origin = [c \in {} |-> NoClient]
  /\ standing = Queues
  /\ deleted = {}
  /\ strayed = "no"

\* The clients from c on, along the links.
Line(next, c) ==
  LET at[i \in 0..MaxClients] ==
        IF i = 0 THEN c
        ELSE LET it == at[i - 1] IN IF it \in DOMAIN next THEN next[it] ELSE NoClient
  IN  IF c = NoClient THEN <<>>
      ELSE [i \in 1..Cardinality({i \in 0..MaxClients : at[i] \in DOMAIN next}) |-> at[i - 1]]

ClientsOf(q) == Line(following, first[q])

\* What is in a queue.
Content(q) == [i \in DOMAIN ClientsOf(q) |-> ClientsOf(q)[i][2]]

Set(f, c, next) == [d \in DOMAIN f \cup {c} |-> IF d = c THEN next ELSE f[d]]

Free(f, cs) == [d \in DOMAIN f \ cs |-> f[d]]

\* Some client that is not in memory yet, for the item.
FreshClient(q, x) == CHOOSE c \in Queues \X {x} : c \notin DOMAIN following /\
                 (<<q, x>> \notin DOMAIN following => c = <<q, x>>)

\* Calls malloc or free of the queue's allocator.
Uses(q) ==
  strayed' = IF owned[q][1] \notin deleted THEN "no" ELSE IF owned[q][2] THEN "own" ELSE "lent"

\* Faulty variant: the customer goes to the front.
EnqueueFirst(q, x) ==
  LET c == FreshClient(q, x)
  IN  /\ \A i \in DOMAIN Content(q) : Content(q)[i] # x
      /\ numClients[q] < MaxClients
      /\ following' = Set(following, c, first[q])
      /\ first' = [first EXCEPT ![q] = c]
      /\ last' = [last EXCEPT ![q] = IF @ = NoClient THEN c ELSE @]
      /\ numClients' = [numClients EXCEPT ![q] = @ + 1]
      /\ origin' = Set(origin, c, owned[q][1])
      /\ Uses(q)
      /\ UNCHANGED <<owned, standing, deleted>>

\* push.
Enqueue(q, x) ==
  LET c == FreshClient(q, x)
      f == Set(following, c, NoClient)
  IN  /\ \A i \in DOMAIN Content(q) : Content(q)[i] # x
      /\ numClients[q] < MaxClients
      /\ following' = IF last[q] = NoClient THEN f ELSE [f EXCEPT ![last[q]] = c]
      /\ first' = [first EXCEPT ![q] = IF last[q] = NoClient THEN c ELSE @]
      /\ last' = [last EXCEPT ![q] = c]
      /\ numClients' = [numClients EXCEPT ![q] = @ + 1]
      /\ origin' = Set(origin, c, owned[q][1])
      /\ Uses(q)
      /\ UNCHANGED <<owned, standing, deleted>>

\* pop, with or without the item, and removeFirst.
Dequeue(q) ==
  /\ first[q] # NoClient
  /\ following' = Free(following, {first[q]})
  /\ first' = [first EXCEPT ![q] = following[@]]
  /\ last' = [last EXCEPT ![q] = IF first'[q] = NoClient THEN NoClient ELSE @]
  /\ numClients' = [numClients EXCEPT ![q] = @ - 1]
  /\ origin' = Free(origin, {first[q]})
  /\ Uses(q)
  /\ UNCHANGED <<owned, standing, deleted>>

\* The clients empty gives back.
Waiting(q) == {ClientsOf(q)[i] : i \in DOMAIN ClientsOf(q)}

\* Its calls of the allocator: none if there is no client.
Returns(q) == IF first[q] = NoClient THEN UNCHANGED strayed ELSE Uses(q)

\* empty: numClients stays.
EmptyOut(q) ==
  /\ following' = Free(following, Waiting(q))
  /\ first' = [first EXCEPT ![q] = NoClient]
  /\ last' = [last EXCEPT ![q] = NoClient]
  /\ origin' = Free(origin, Waiting(q))
  /\ Returns(q)
  /\ UNCHANGED <<numClients, owned>>

Clear(q) == EmptyOut(q) /\ UNCHANGED <<standing, deleted>>

\* ~Queue.
DestroyQueue(q) ==
  /\ EmptyOut(q)
  /\ standing' = standing \ {q}
  /\ deleted' = IF owned[q][2] THEN deleted \cup {owned[q][1]} ELSE deleted

\* Copy assignment: q is emptied and gets clients of its own for r's items.
CopyQueue(q, r) ==
  LET kept == Free(following, Waiting(q))
      copy == [i \in DOMAIN Content(r) |->
                 CHOOSE c \in Queues \X {Content(r)[i]} : c \notin DOMAIN kept]
      n == Len(copy)
      cs == {copy[i] : i \in 1..n}
  IN  /\ q # r
      /\ following' = [d \in DOMAIN kept \cup cs |->
                         IF d \in DOMAIN kept THEN kept[d]
                         ELSE IF d = copy[n] THEN NoClient
                         ELSE copy[1 + CHOOSE i \in 1..n : copy[i] = d]]
      /\ first' = [first EXCEPT ![q] = IF n = 0 THEN NoClient ELSE copy[1]]
      /\ last' = [last EXCEPT ![q] = IF n = 0 THEN NoClient ELSE copy[n]]
      /\ numClients' = [numClients EXCEPT ![q] = numClients[r]]
      /\ origin' = [d \in DOMAIN kept \cup cs |-> IF d \in DOMAIN kept THEN origin[d] ELSE owned[q][1]]
      /\ IF n = 0 THEN Returns(q) ELSE Uses(q)
      /\ UNCHANGED <<owned, standing, deleted>>

\* Faulty variant: other.bHasOwnAllocator is not reset.
MoveBothOwn(q, r) ==
  /\ q # r
  /\ following' = Free(following, Waiting(q))
  /\ first' = [first EXCEPT ![q] = first[r], ![r] = NoClient]
  /\ last' = [last EXCEPT ![q] = last[r], ![r] = NoClient]
  /\ numClients' = [numClients EXCEPT ![q] = numClients[r]]
  /\ owned' = [owned EXCEPT ![q] = owned[r]]
  /\ origin' = Free(origin, Waiting(q))
  /\ Returns(q)
  /\ UNCHANGED <<standing, deleted>>

\* Move assignment: q takes r's clients and allocator; r keeps its number of
\* clients, and the allocator that is no longer its own but q's to delete. What
\* was q's own is never deleted.
MoveQueue(q, r) ==
  /\ q # r
  /\ following' = Free(following, Waiting(q))
  /\ first' = [first EXCEPT ![q] = first[r], ![r] = NoClient]
  /\ last' = [last EXCEPT ![q] = last[r], ![r] = NoClient]
  /\ numClients' = [numClients EXCEPT ![q] = numClients[r]]
  /\ owned' = [owned EXCEPT ![q] = owned[r], ![r] = <<owned[r][1], FALSE>>]
  /\ origin' = Free(origin, Waiting(q))
  /\ Returns(q)
  /\ UNCHANGED <<standing, deleted>>

QueueNext ==
  /\ strayed = "no"
  /\ \E q \in standing :
       \/ \E x \in Customer : Enqueue(q, x)
       \/ Dequeue(q)
       \/ Clear(q)
       \/ DestroyQueue(q)
       \/ \E r \in standing : CopyQueue(q, r) \/ MoveQueue(q, r)

QueueSpec == QueueInit /\ [][QueueNext]_queueVars

----------------------------------------------------------------------------
\* What is pushed to or popped from one queue, after copies and moves, leaves the
\* others alone, and no client is lost or dangling.
NoClientShared ==
  LET line == [q \in Queues |-> ClientsOf(q)]
  IN  /\ DOMAIN following = UNION {{line[q][i] : i \in DOMAIN line[q]} : q \in Queues}
      /\ \A q, r \in Queues : \A i \in DOMAIN line[q], j \in DOMAIN line[r] :
           line[q][i] = line[r][j] => q = r /\ i = j
      /\ \A q \in Queues :
           IF line[q] = <<>> THEN first[q] = NoClient /\ last[q] = NoClient
           ELSE last[q] = line[q][Len(line[q])] /\ following[last[q]] = NoClient

\* numClients never says less than there are: it is right until a queue is emptied
\* or moved away.
CountsEnough == \A q \in Queues : Len(Content(q)) <= numClients[q]

\* Each client is given back to the allocator it was taken from.
ClientsReturn ==
  \A q \in Queues : \A i \in DOMAIN ClientsOf(q) : origin[ClientsOf(q)[i]] = owned[q][1]

\* An allocator is deleted once, by the queue it is then the own one of.
DeletedOnce ==
  \A q \in standing :
    owned[q][2] => /\ owned[q][1] \notin deleted
                   /\ \A r \in standing : owned[r][2] /\ owned[r][1] = owned[q][1] => r = q

\* Queues that were copied and moved into each other share no client, though they
\* may share an allocator: a client goes back to the one it came from, none is
\* deleted twice, and only a queue that was moved away from can use one that has
\* been deleted (queue.h).
QueuesApart ==
  NoClientShared /\ CountsEnough /\ ClientsReturn /\ DeletedOnce /\ strayed # "own"

\* Each queue is first in, first out; a copy is equal to what it is a copy of.
FifoStep ==
  LET before == [q \in Queues |-> Content(q)]
      after == [q \in Queues |-> Content(q)']
  IN  \A q \in Queues :
        \/ after[q] \in {before[r] : r \in Queues} \cup {<<>>}
        \/ \E x \in Customer : after[q] = Append(before[q], x)
        \/ before[q] # <<>> /\ after[q] = Tail(before[q])

\* All calls do this and no more (queue.h).
FifoSteps == [][FifoStep]_queueVars
=============================================================================
