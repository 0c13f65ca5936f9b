# A verification of the Chord node in TLA+

This directory holds TLA+ models of the Chord distributed hash table whose
source is in `src/`, the TLC configurations that check them and the proofs
TLAPS checks. `PROJECT.json` lists the runs, the lines each definition models,
the hazards that the properties are about and the theorems.

## 1. The system

A *node* is one process. It has a UDP socket, a 32-bit identifier (the first
word of the SHA-1 of its address) and three threads:

| thread | code | what it does |
|---|---|---|
| receiver | `receive_task.cpp` | reads a datagram, counts the hop, drops an expired request, calls `handleRequest` |
| updater | `update_task.cpp` | every second `stabilize` and `fixFingers`, every two `checkPredecessor` and `checkRequests` |
| command loop | `main.cpp` | `join` before the other two start; then lookups, files, `leave` |

The three share one `LocalNode`. Its setters lock, its readers do not.

### Components, their state and operations

| component | state | operations | what makes it correct |
|---|---|---|---|
| identifier circle (`local_node.h`, `findSuccessor`) | none | circular ranges, `getP2Index`, `findSuccessor` | a hop comes strictly closer to the key |
| ring maintenance (`local_node.cpp`) | `fingers` (slot 0 is the successor), `predecessor`, `nextFinger` | `join`, `stabilize`/`handleNotify`, `fixFingers`, `checkPeer`/`handleCheck`, `removePeer`, `leave`/`handleLeave` | one ordered ring while nodes join; after crashes, departures and losses everything becomes right again; no working node is dropped without a loss |
| lookups | promise of the caller | `lookup`, `handleLookup` | the owner of the key or "not found"; set once; no loops; few hops |
| request table (`request.h`, `callbacks`) | open requests with their callbacks and age, a 16-bit counter | `makeRequest`, `handleReply`, `checkRequests` | a reply answers the request it belongs to, which the counter alone does not see to; a request is answered or given up, once |
| file store (`local_node.cpp`, second half) | `/store`, `/store/copy1`, `/store/copy2` of each node | `write`, `read`, `deleteFile` and handlers, copying when a node joins, leaves or crashes | a file has one primary and two copies at the right nodes; none is lost by a transfer |
| file index (`main.cpp`) | table `FileList` of a MySQL server | insert, select, delete | it names the files the ring holds |
| futures, events (`future.h`, `event_pthread.*`) | completion flag, result, callback; trigger state, waiters | `set`, `get`, `setCallback`, `reset`; `wait`, `trigger` | set once; a completion wakes every waiter and runs the callback |
| threads (`runnable_pthread.h`, `thread_manager.h`) | started flag, registry | create, kill, destroy | an object outlives the thread that uses it |
| tree and map (`binary_tree.h`, `map.h`) | nodes, their colours, children and links in order | insert, remove, find, empty | ordered and balanced; no call loses an element it is not about |
| lists, queues, arrays, strings, sorting | links; buffers with a size and a count; allocators | push, pop, insert, copy, move, destroy, resize, append, sort | no element lost, shared or moved; what is handed out is what goes; no allocator is deleted twice; buffers are not left |
| allocators (`malloc_pool`, `malloc_binned`) | free lists | malloc, realloc, free | a block is handed out to one owner at a time |
| SHA-1 (`sha1.cpp`) | a padded copy of the text | `sha1` | different texts of one length are hashed differently |
| mathematics (`mat4_simd.h`, `quat.h`, `simd_float.h`) | - | products, inverses, rotations | they are those of the text books |
| command line, timers | - | - | - |

### How they interact

Nodes exchange `Request` datagrams (`LOOKUP`, `NOTIFY`, `CHECK`, `LEAVE`, the
file requests, and `REPLY`). A request names its source and carries an operand;
a reply is the request itself with type, recipient and operand changed, so it
has the request's number. `makeRequest` stores a pair of callbacks under that
number; the receiver thread calls the first when the reply comes, the updater
thread the second when the timer of five seconds has run out. The second one,
by default, checks the peer the request was sent to; a check that is not
answered either removes the peer from the local view. `lookup` returns a
promise that one of the two callbacks sets and the command loop waits for.

### What is hard about it

* Concurrency: two threads and the user change one node; handlers of different
  nodes interleave through the network in any order.
* Failure: datagrams are lost, delayed and reordered; processes crash, or leave
  while their threads still run; a slow answer makes a working node look dead.
* Stale data: finger tables and predecessors name nodes that have gone, or are
  older than a node that has joined.
* Reuse: replies are matched by number alone, numbers come round again and two
  threads count without a lock.
* Boundaries: circular comparisons, the slots 0 and 32 of the finger table, the
  hop limit.

`PROJECT.json`, "hazards", gives the line of each and the properties for it.

## 2. Modules

| module | models | builds on |
|---|---|---|
| `ChordId` | the circle, the ranges, `findSuccessor`; the reference: distance, neighbours, owner | |
| `ChordRing` | ring maintenance and lookups: every node's three threads, the network, crashes | `ChordId`, and `LookupService` as an instance |
| `LookupService` | abstract specification: what `lookup` promises its caller | |
| `MCChordRing` | the request numbers TLC is given | `ChordRing` |
| `ChordId_proofs` | lemmas on the circle | `ChordId` |
| `ChordRing_proofs` | the inductive invariant; nobody names a node that has not joined; who is silent is down; one ordered ring while nodes join | `ChordRing`, `ChordId_proofs` |
| `Routing_proofs` | promises are set once, to the owner of the key; few hops | `ChordRing_proofs` |
| `FileStore` | files and their copies, the index and the commands on files, in a ring that stays as it is | `ChordId` |
| `MCFileStore` | the files TLC is given | `FileStore` |
| `FileStore_proofs` | where files are, and that no copy is forgotten | `FileStore`, `ChordId_proofs` |
| `Future` | a promise: set, get and setCallback between their accesses to shared memory | an instance of `Event` |
| `WriteOnce` | abstract specification: a value written once and read by all who wait | |
| `Future_proofs` | the promise implements `WriteOnce` | `Future` |
| `FileTransfer_proofs` | who answers for the files of a lost node; every file stays on two disks; where it is in the end | `FileTransfer`, `ChordId_proofs` |

The request table, the transfer of files, events and the library are units, which
have a module each and are checked side by side in `MCUnits`:

| module | models | builds on |
|---|---|---|
| `RedBlackTree` | `BinaryNode`: functions of the memory its nodes are in | |
| `OrderedMap` | `BinaryTree` and `Map`, one action per call | `RedBlackTree`, and `SortedBag` as an instance |
| `SortedBag` | abstract specification: what a map holds, in order | |
| `RequestTable` | `callbacks`, the generator of numbers, the loop of `checkRequests` | `OrderedMap` |
| `FileTransfer` | the files when one node joins, leaves or crashes, and the way of the node before it to its next successor | `ChordId` |
| `Event` | `PThreadEvent`: wait, trigger, reset, destruction | |
| `LinkedList`, `Deque` | the doubly linked list; what it promises | `Deque` as an instance |
| `LinkedQueue` | several queues, copied and moved into each other and destroyed, with their allocators | |
| `GrowingArray`, `CharString` | arrays; strings, which are arrays that end with a zero | `CharString` on `GrowingArray` |
| `PoolAllocator` | `MallocBinned` and its pools | `RedBlackTree` |
| `Sorting` | minsort, insertion sort, quicksort | |
| `Digest` | what `sha1` hashes | |
| `WorkerThread` | a thread object and its thread | |
| `Algebra` | matrices and quaternions, over integers | |
| `MCUnits` | the composition of these, and what TLC is given | all of them |
| `Units_proofs` | lemmas on numbers, loops and sequences; arrays, strings, sorting; what a trigger wakes; threads and their objects; what is hashed; matrices and quaternions | `CharString`, `Sorting`, `Event`, `WorkerThread`, `Digest`, `Algebra` |
| `Links_proofs` | queues are apart and first in, first out; lists are deques | `LinkedQueue`, `LinkedList`, `Units_proofs` |

The tree is where they meet: the request table is a map, a map is a tree, and the
allocator finds the pool of a block in a tree of the same nodes.

The first group meets at two promises. `LookupService` is what `lookup` gives the file
commands: `FileStore` uses it as "the successor the ring answers with, or the
wildcard". The promise `lookup` returns is `Future`; what `ChordRing` needs of it
(set once, seen by whoever waits) is `WriteOnce`.

### State of ChordRing and the code

| variable | code |
|---|---|
| `status[n]` | where the program of `main.cpp` is: not started, in `join`, in its loop, after `leave`, ended, crashed |
| `fingers[n]`, `predecessor[n]`, `nextFinger[n]` | the members of the same name; `successor(n)` is slot 0, as the union in `local_node.h:37-46` makes it |
| `duty[n]` | which call of `UpdateTask::run` comes next |
| `callbacks[n]` | the map `callbacks`: number, what the request is for (it selects the lambdas), the peer it was sent to, the slot it is for |
| `answer[n]` | the promise of the last `lookup` |
| `net` | datagrams sent and not yet read |
| `lost`, `late`, `repeated` | how often the environment has used its bounds |

### Actions of ChordRing and the code

| action | code |
|---|---|
| `Stabilize`, `FixFingers`, `CheckPredecessor` | the methods of that name, called by the updater |
| `ExpireRequest`, `ExpireCheck` | one entry of `checkRequests` that has run out, with its error callback: `checkPeer`, or `removePeer` for a check |
| `DropExpired`, `HandleLookup`, `HandleNotify`, `HandleCheck`, `HandleLeave`, `HandleReply` | `ReceiveTask::run` and the handler it ends in |
| `Join`, `JoinReply` | `join` up to and after its blocking read |
| `Lookup`, `Leave` | the methods, called by the command loop |
| `Exit`, `Crash`, `Lose` | the end of `main`, a crash, a lost datagram |

`GetNext` and `Open` are the two halves of `makeRequest` that each of these has: the
number is drawn, and the pair of callbacks is inserted into the map, which may refuse
it if the number is there already.

### State and actions of FileStore and the code

| here | code |
|---|---|
| `files[n]` | the directories `/store`, `/store/copy1`, `/store/copy2` of a node |
| `index` | the rows of `FileList` |
| `downloads[u]` | the directory `/Downloads` of a user's node |
| `command[u]` | where `main.cpp` is in a command: before or after its call of the node |
| `net` | `WRITE` and `DELETE` requests with the flag that is set, `READ` requests, and their answers (a `WRITE` with `isRead`) |
| `deleted`, `lost` | history: keys that were deleted, or that something was lost for |
| `SelectWrite`, `SelectRead`, `SelectDelete` | the query each command begins with |
| `Write`, `Read`, `Delete` | `LocalNode::write`, `read`, `deleteFile` |
| `List`, `Unlist` | the `INSERT` and `DELETE` that follow |
| `HandleWrite`, `HandleDelete`, `HandleRead`, `HandleAnswer` | the handlers; `WritePath` and `NextRole` are the two halves of `getWritePath` |
| `Lose` | a lost datagram; `Ask` also has the lookup that fails |

A file is its key: two contents with the same key are not told apart (what that
leaves out is listed as a hazard, for the hash of a file is not always its own).
The bytes, the error messages and the limits on sizes are left out.

### State and actions of Event and Future and the code

| here | code |
|---|---|
| `triggerState` | the member of that name |
| `waiting`, `signalled` | threads blocked on the condition variable (`numWaiting` counts them), and those it has woken |
| `life` | the destructor has begun, has ended |
| `EnterWait`, `Wait`, `Wake`, `Spurious`, `Expire` | `wait`, from one release of the mutex to the next |
| `TriggerAll`, `TriggerOne`, `Reset`, `Close`, `Destroy` | `trigger(true)`, `trigger(false)`, `reset`, the destructor |
| `result`, `bComplete`, `callback` | the members of the same name of `FutureState` |
| `guard` | `callbacksGuard`, which `handleReply` and `checkRequests` hold when they set a promise |
| `Begin` ... `End` | `setResult` and `complete`, one access to shared memory at a time |
| `TestReady`, `WaitReady`, `WakeUp`, `ReadResult` | `getResult` |
| `TestCompleted`, `Register`, `RunLate` | `setCallback` |

### State and actions of FileTransfer and the code

| here | code |
|---|---|
| `files[n]` | `/store`, `/store/copy1`, `/store/copy2`, `/store/copy2/temp` of a node |
| `member`, `successor`, `predecessor`, `change` | the ring, which one node joins (`Join`) or leaves without a word (`Depart`) |
| `owes[n]` | `isPredOfRemovedNode` |
| `lost` | history: how many messages were lost |
| `HandleSuccOne`, `HandleSuccTwo`, `HandleSuccThree` | the handlers of `UPDATE_SUCCONE_NODE_ADD` and what follows it, with `transferFilesToNewNode` |
| `HandleFile` | `handleNewNodeForNodeAdd`, and `handleWrite` of a copy |
| `RemovePredecessor`, `RemoveSuccessor` | the two halves of `removePeer`; its lookup has no source, so nothing comes back |
| `Stabilize` | `stabilize`, `handleNotify` and the success callback: a node that has lost its successor takes itself for it, then its predecessor, and so on backwards round the ring, until it has come to the right one |
| `CheckPeer` | the copy at the end of `checkPeer`, to whoever is taken for the successor at that moment |
| `HandleLeaveSucc` | the method of that name |

### The other units and the code

* `RedBlackTree` has a function for each method of `BinaryNode`: `Insert`,
  `InsertUnique`, `Repair`, `Remove`, `RepairRemoved`, `Rotate`, `SetLink`. They map
  the memory `t` (node to parent, children, neighbours, colour) to the memory
  afterwards. The code is written twice, for the left and for the right; the
  module once, with the side as an argument. `Remove` keeps that a node with two
  children is not freed but takes the data of the next one, which is freed.
* `OrderedMap`: `tree`, `root`, `numNodes` and `treeLives` are the members of
  `BinaryTree`; `Plant`, `Grow`, `Put`, `At`, `RemoveAt`, `RemoveKey`,
  `RemoveSearch`, `Empty`, `Destroy` its calls.
* `RequestTable`: `Load` and `Store` are the two halves of `++state` in the
  generator, which wraps round after `Numbers`, `Register` the insertion,
  `HandleReply` the handler, `CheckRequests` the loop, with the callbacks of the
  requests that have run out. `raced` and `draws` are history: whether two threads
  have counted at once, and how often a number was drawn.
* `LinkedList`: `links`, `head`, `tail`, `numLinks`. `given` is what the last call has
  handed out; `Pop` and `PopTo` are `pop()` and `pop(data)`. After some calls the list
  is broken (below): `sound` says so, and the model stops.
* `LinkedQueue`, `GrowingArray`, `CharString`: the members of the same name; one
  action per call. `owned[q]` is the allocator of a queue and `bHasOwnAllocator`,
  `origin` the allocator each client was taken from, `standing` and `deleted` the
  queues that are left and the allocators that are not. `astray` is the first write
  outside a buffer, `strayed` the first use of an allocator that is gone.
* `PoolAllocator`: `buckets` are the lists of pools, `free` and `numFree` the free
  list of each pool, `lent` the blocks in use; `MallocFrom`, `MallocNew` and `Free`
  are `malloc` that finds a free block, `malloc` that makes a pool, and `free`.
* `Digest`: `Mark`, `Enlarge`, `GiveUp`, `Pad`, `Hash` are the lines of `sha1` in
  their order.
* `WorkerThread`: `Create`, `Kill`, `KillAtOnce`, `Delete`, `Joined` are what the
  owner does, `EntryPoint`, `Run`, `Return`, `Cancelled` what the thread does.
* `Algebra`: a function for each function; the state, `matrices`, is empty or holds
  the one matrix that a program of products has got to, so that the functions are
  applied to many.

What happens under the event's mutex is one step, because nothing else can see
it half done. Durations are abstracted: a thread that waits for a limited time
may give up at any moment.

### What is abstracted

Of the ring:

* An address and the identifier computed from it stand for each other. A process
  that starts again gets a new port and so a new identity; a node that has
  stopped therefore stays away.
* Time. The updater's calls come in turn; a request may be given up when nothing
  in flight can answer it any more, or up to `MaxLate` times although an answer
  is still on its way. Without that bound "a working node is never removed"
  would be false: the code assumes that an answer takes less than five seconds.
* `checkRequests` goes over the whole table in one call; the model takes one
  entry at a time and lets other threads in between, which is more than the code
  can do. Its iterator is left to the module on the tree.
* A handler, or a call of the updater, is one step. In the code handlers of one
  node run one at a time, but the updater and the command loop run beside them
  without a common lock. Interleavings inside a handler are in the plan.
* The counter of request numbers. `GetNext` gives a request a number that no open
  request and no message of the node carries, and which of these has no influence;
  or one that is in use, at most `MaxRepeat` times. The code promises neither: the
  counter has 16 bits and no lock, so that a number is drawn again while it is in
  use when two threads count at once or 65536 requests later. `MaxRepeat` is 0 in
  the runs and theorems that are about a ring without that, which is what
  `SilenceMeansDown` and `OneRingWhileJoining` need; `ring_repeat` and the other
  theorems have it. `RequestTable` has the counter itself.
* When successor and predecessor are the same node, the two equal `LEAVE`
  datagrams are one element of the set `net`. The second one would find nothing
  left to remove.
* The requests and copies of the file store: the calls inside `removePeer`,
  `checkPeer` and `join` that move files do not touch the state of the ring. They
  are `FileTransfer`.

Of the transfer of files: the ring is in order when the one join or departure
happens, users write nothing meanwhile, a `NOTIFY` and its reply are one step, and
nobody is removed who works. A directory is the set of its keys, and a leave is
silent, since what a `LEAVE` causes is what a failed check causes.

Of the library: an element of a container, or a character, is a value without
parts but for the key it is sorted by; a node or link is named by the element it
holds, an address by the number of its pool and block. What C++ leaves undefined
is not guessed at: where a call breaks a list the model stops and says in a
property that nothing else does, and where a write leaves a buffer `astray` says
which.

## 3. Properties

| property | kind | what it says |
|---|---|---|
| `TypeOK` | invariant | types; that `nextFinger` is a slot needs what `fixFingers` skips; a slot may hold a `NodeInfo` that was never filled in, see `Inv` |
| `LookupHopBound` | invariant | hops made and distance left never exceed a full turn: lookups do not loop |
| `LogHops` | invariant | with fingers in order, fewer hops than bits |
| `Inv` | invariant | the inductive invariant, see section 5; as long as no number is drawn while it is in use, what comes back under it is the answer to that request, and slots hold nodes |
| `OneOrderedRing` | invariant | while nodes only join, exactly one ring, in order |
| `OnlyTheDeadAreSilent` | invariant | a check that nothing can answer any more is about a node that is down |
| `RingSettles` | liveness | successors, predecessors and fingers end up right for ever |
| `LookupsExact` | refinement | `LookupService` with the owner of the key as the only right answer, and each lookup is answered |
| `LookupsOnce` | refinement | `LookupService` with any answer: promises are set, and set once |
| `LookupsFind` | violated | a lookup in a settled ring without losses finds its key |
| `Placed` | invariant | each part of a file, and each request on its way, is at a node where it belongs |
| `CopiesFollow` | invariant | each of the three parts of a listed file is there or will be made by a request in flight |
| `CopiesArrive` | liveness | a listed file ends up at three nodes |
| `BroadcastWakes` | invariant | while the event is triggered for all, every sleeper has been woken |
| `TriggerWakesOne` | violated | a single trigger that is not used up has woken a sleeper, if there is one |
| `DestructorEnds` | liveness | the destructor of an event does not wait for ever |
| `Inv` (`Future`) | invariant | the inductive invariant, see section 5 |
| `NobodySleeps` | invariant | no thread sleeps on a result that is there |
| `SetOnce` | refinement | the promise is a `WriteOnce`, and everyone who waits gets the value |
| `RegisteredRun` | liveness | a function that stays registered is run |
| `TwiceOnDisk` | invariant | in the course of a join or of a departure every file is on the disks of two members, whatever is lost or late |
| `OwnersAnswer` | invariant | once a lost predecessor is missed, what a member owns is in its store |
| `ReplicasRestored` | invariant | `JoinRestores` and `DepartureRestores` |
| `JoinRestores` | part of `ReplicasRestored` | when the messages of a join have arrived, every file is at its owner and the next two members and nowhere else; or one place further on, if `getFileListNew` misses its key |
| `DepartureRestores` | part of `ReplicasRestored` | when a departure has run its course, every file is in its store and first copies, and but for those of one owner in its second copies |
| `RequestsAccounted` | invariant | no request is lost from the table or left in it; two that wait have different numbers, and none is refused, unless two threads have counted at once or the numbers have come round |
| `TickReachesAll` | action | a call of `checkRequests` passes over at most the entries whose neighbour it removed, and each once |
| `TreeSound` | invariant | red-black, links in order, every element found, nothing leaks |
| `BagSteps` | action | each call changes the map as `SortedBag` says |
| `ListSound`, `DequeSteps` | invariant, action | links both ways, the index operator; as long as no call broke it, the list is a deque in what is put in, taken away and handed out, but that `pop(data)` takes away the last element and hands out the first |
| `QueuesApart`, `FifoSteps` | invariant, action | queues share no client, each client goes back to the allocator it came from, no allocator is deleted twice or used after that but by a queue that was moved away from; first in, first out |
| `ArraySteps`, `BuffersSound` | action, invariant | values keep their order through every reallocation; writes stay in the buffer, strings end |
| `PoolsSound` | invariant | the tree of pools stays one, a block is found to be of its pool, none is lost |
| `SortsRight` | invariant | ordered permutations, and a stable insertion sort |
| `DigestsWhole` | invariant | all of a text is hashed, and nothing else |
| `ThreadsEndFirst` | invariant | no thread uses an object that is gone, no thread is joined twice |
| `AlgebraRight` | invariant | products, inverses and rotations agree with the text books, whose product of quaternions is stated apart from the code's |

What the transfer leaves behind is part of the two halves of `ReplicasRestored`:

* After a join across the end of the circle, `key <= id` in `getFileListNew` does not
  see which keys are the newcomer's: their files stay one place too far on, at the
  newcomer's successor and the two after it (`Listed` says which keys). Lookups for
  them go to the newcomer, which does not have them.
* After a departure, what the departed node had in `/store/copy2/` is to be made anew
  by the node before it, from its first copies. That is the copy in `checkPeer`, but
  at its next check the node may still take itself or some node behind it for its
  successor, and the copies go there. The files of one owner then have no third copy,
  and other nodes have copies too many. What a `LEAVESUCC` overtakes stays in
  `copy2/temp/`.

Both hold in whatever order messages arrive, and as long as none is lost;
`TwiceOnDisk` and `OwnersAnswer` say what holds when they are.

Queues are made with an allocator of their own, as `Queue(nullptr)` is; one that uses
the allocator of the program, which is the default, has none to share or delete.

`CopiesFollow` and `CopiesArrive` are about keys that nobody deletes and nothing
was lost for: nothing in the code repairs a chain of copies that is broken, and
a delete that overtakes a write leaves copies behind.

## 4. Runs

| run | instance | states | shows |
|---|---|---|---|
| `ring_join` | identifiers of 2 bits, node 0 up, 1 and 3 join through any node that is up | 78,436 | `TypeOK`, `LookupHopBound`, `OneOrderedRing`, `RingSettles` |
| `ring_down` | three neighbours, the middle one may crash or leave at any point | 175,748 | `OnlyTheDeadAreSilent`, `RingSettles` |
| `ring_loss` | three nodes, any two messages lost | 104,875 | `Inv`, `RingSettles` |
| `ring_repeat` | two nodes of four identifiers, two open requests of the updater, one number drawn while it is in use | 111,060 | `Inv`, `RingSettles` |
| `lookup_stale` | identifiers of 3 bits, all combinations of stale fingers, all keys | 4,896 | `LookupsExact` |
| `lookup_hops` | identifiers of 4 bits, fifteen nodes, all keys, two askers | 4,032 | `LogHops` |
| `lookup_late` | five nodes, one loss, one early time out | 145,699 | `LookupsOnce` |
| `lookup_ttl` | five nodes, nothing lost | - | `LookupsFind` is violated |
| `files_ring` | three nodes of eight, two users, three files (two with one key, one key across the end of the circle), three commands, one key with losses | 144,141 | `Placed`, `CopiesFollow`, `CopiesArrive` |
| `event_timed` | two threads, one for a limited time | - | `TriggerWakesOne` is violated |
| `future_set` | two setters, two getters, two callbacks | 9,730 | `Inv`, `NobodySleeps`, `SetOnce`, `RegisteredRun` |
| `units` | the thirteen units of `MCUnits`, one at a time | 487,923 | the twenty properties of section 3 from `BroadcastWakes` on but for `TriggerWakesOne` and those of `Future` |

### Bounds

* `Bits` is 2 to 4 instead of 32. With two bits there is a finger besides the
  successor, ranges wrap round, and with three nodes of four identifiers a key
  may belong to another node, which is all that ring maintenance tells apart.
  Routing needs more: three bits give two fingers that may be stale in
  different ways, four bits lookups of three hops.
* `MaxOpen = 1` lets the updater of a node have one request open before it makes
  the next. More would make the same requests overtake each other; those of
  different nodes do so already. In `ring_repeat` it is 2, so that there is an open
  request whose number can be drawn again.
* `Ids` are the free numbers for each kind of request. `OneId` is enough while
  nothing is given up, `MoreIds` adds numbers for the checks and recovery lookups
  that follow a time out, `LateId` a second one for a lookup that is asked again
  while the answer to the last one is still on its way.
* `MaxRepeat = 1`: one number drawn while it is in use already makes a reply be taken
  for the answer to another request, a request be refused, and a successor be what
  is no node. Two nodes and three open requests are enough for each of these.
* `MaxLoss`, `MaxLate`, `MayCrash`, `MayLeave` bound the environment: liveness is
  about what happens once it stops interfering. Two losses suffice to lose a
  request and the check that follows, that is, to remove a node that works.
* `MaxCommands = 3` is enough for a write, a delete of it and a write or read that
  crosses both; three nodes make the two copies of a file land on different
  nodes, and the node after the last copy is the owner again.
* Two setters, two getters and two callbacks are the two error and success paths
  of a lookup, more than one waiter, and a second registration.
* `units`: four nodes of eight identifiers, three members before a join and four
  before a departure, so that the three places of a file differ; up to two of three
  files (`MaxFiles`), one of which has its owner across the end of the circle, and one
  loss; four threads that wait for an event, two of them for a limited time; eight
  elements of a map, two with one key, which is enough for every case of both repairs; four requests of two threads and three numbers, so
  that the counter comes round, with callbacks that make another; lists of four,
  two queues and arrays that are copied and moved into each other,
  arrays that double twice; three sizes of blocks and four pools, one block each,
  so that a pool is exhausted at once; ranges of up to five elements with equal
  keys; texts of up to 130 characters, which is two blocks and the boundary behind
  them; two thread objects, one whose runnable does not heed `stop`.
* Deadlock is checked in every ring run: some action is always possible. The
  others say `CHECK_DEADLOCK FALSE`, because their threads come to an end, the
  event is destroyed or the commands are used up.

### Fairness

`Fairness` asks for weak fairness of: each node's updater as a whole (the thread
loops for ever and calls in turn), its `checkRequests` (called by the same loop),
the end of `join` once its reply is there, the exit of a process after `leave`,
and the arrival of each message that stays in flight. The last is stated for the
messages of one source and number, because a message changes (hop count, next
recipient) as it is forwarded; losses are bounded, so every message is lost or
arrives. Nothing asks a user to look anything up, a node to join, leave or crash,
or a message to be lost. No action needs strong fairness.

Of the units only the event has fairness (`EventFairness`): a woken thread gets the
mutex and the destructor's loop goes on. The properties of the others are about steps
and states. In
`FileStore` a command that was begun is finished and messages that are not
lost arrive. A command sends one request at a time, so fairness for the
requests with its number is fairness for each. In `Future` threads that are inside a
call go on, and the setters do call `set`: in the node one of the two callbacks
always does.

### Disagreements found

* `lookup_ttl`: `lookup` passes `3.f`, evidently seconds, where `makeRequest`
  takes the hop limit (`local_node.cpp:321`). A lookup that needs three hops is
  dropped, and the caller is told "not found" in a ring without any fault.
* `event_timed`: a thread that waits for a limited time and is woken by
  `trigger(false)` when its time is up leaves without looking at the trigger
  state (`event_pthread.cpp:68-75`). The signal is used up, the state is not, and
  nobody else wakes. `event.h:30` promises that one thread does.

Met on the way, and part of the models where they change a state, but without a
run of their own:

* Request numbers: `makeRequest` says "Assign unique id" (`local_node.cpp:77`), but the
  generator counts without a lock, and both the updater and the command loop draw
  from it: two requests may get the same number, and the reply to one be taken for
  the answer to the other. `RequestTable` lets two threads draw the same number
  (`raced`), and `RequestsAccounted` says what holds all the same; `ring_repeat` shows what it does
  to the ring.
* Node: the lookup `removePeer` sends to find a new successor has no source
  (`local_node.cpp:571-583`), so that no reply ever comes back; what repairs the
  ring is the reply to the next `NOTIFY`, and `ring_down` shows that it is enough
  for three nodes. On the way the node takes others for its successor, and
  `checkPeer` copies files to them. `getFileListNew` compares keys without regard to
  the circle. `handleRead` means to fall back to the copies but appends the
  name to the path that failed (`local_node.cpp:1129`). Names with the same contents
  share a key, so deleting one deletes the other.
* Futures: `setCallback` on a promise that is complete runs its function only if
  another one is already registered (`future.h:53`).
* SHA-1: texts with 57 to 63 bytes in their last block all get the initial value
  (`sha1.cpp:25`), one with 56 loses its 0x80, and the length is in bytes.
* Tree: `insertUnique` compares with the root only, so that duplicates get in below
  it, which `map.h:111` does not say; two of the three `remove` lose the left child
  of a root that goes; a destructor after `empty` releases the nodes again.
* List: `pop(data)`, which "removes last element of the list" (`linked_list.h:418`),
  hands out the first one (`linked_list.h:439`) and removes the last; the first stays in
  the list, and where moving an element empties it, stays there empty. `DequeSteps` says
  so. `pop` and `popFront` leave the other end and the count alone, `insert` before
  the head leaves `head`, and copies have no links backwards. Queue: `empty` and a
  move leave the count; a move leaves both queues with one allocator, which belongs
  to the one that took it, and never deletes the allocator that one had before.
* Array and string: a string made by the default constructor or by assignment has
  no zero at its end, `append` to a full buffer writes one past it, `substring(b,b)`
  gives the rest; the destructor of an array releases nothing.
* Allocator: a size a little above a block size is refused, because
  `getBucketIndex` halves it and forgets what is left over; `realloc` loses the
  contents; pools are said to be of 4 MB and are of 8.
* Threads: all threads enter the manager with number 0, so that only the first is
  listed, and `remove` does nothing; `join` waits for thread 0.
* Mathematics: `getInverseTransform` moves by the opposite of what it should, the
  plain quaternion rotates the other way, `Vec4::operator+=` with vector instructions
  subtracts. The product of quaternions with vector instructions, the one that is
  compiled in where there are any, takes its operand for the first of four terms only
  (`quat_simd.h:84-120`) and is not the "combined rotation quaternion" of its comment;
  `Algebra` has the plain one.

## 5. Proofs

`tlapm` checks the eight modules of proofs for all values of the constants that
satisfy the assumptions: any set of nodes, files, users and threads, any number
of losses, crashes, departures, early time outs and, where a theorem does not say
`MaxRepeat = 0`, of request numbers that are drawn while they are in use.

### The ring

| theorem | statement |
|---|---|
| `Invariance` | `Spec \/ StaleSpec => []Inv` |
| `TypeCorrect` | `Spec => []TypeOK` |
| `LookupsApproach` | `Spec \/ StaleSpec => []LookupHopBound` |
| `NextHopIsCloser` | a node `findSuccessor` chooses is closer to the key |

The argument. `HandleReply` stores the operand of a reply in a slot of the finger
table without looking at it, and matches replies by number alone. What holds whatever
numbers are drawn is that the operand is a node or a `NodeInfo` that was never filled
in, which is what the reply to a `CHECK` carries (`MessageFits`: a reply goes back to
its source, a notification names its node, a check names nobody); that is what `TypeOK`
says, and all that it needs. `Inv` has more for as long as no number was drawn while it
was in use (`NodesNamed`): every slot holds a node. For this one has to know that a
reply answers the request it is taken for, which is `AnswersFit`; it is a consequence
of free numbers (`Drawn`) and of replies that keep the number of their request, and
`ring_repeat` has states in which it is false. A joining node reads its reply without
a callback: `OutsidersQuiet` says what can be in flight for it.
`LookupHopBound` needs `TypeOK`, and `NextHopIsCloser` for the step in which a
lookup is forwarded: the candidates of `findSuccessor` lie strictly between the
node and the key, and the successor does too when the key is not its own. There
is one lemma per action, a lemma on what each may put in flight (`AskStep`,
`ServeStep`, `ReplyStep`, `SilentStep`), and one for the initial states.

### The order of the ring

| theorem | statement |
|---|---|
| `NamesStarted` | `Spec \/ StaleSpec => []PeersStarted`: nobody names a node that has not joined |
| `SilenceMeansDown` | `MaxLoss = 0`, `MaxRepeat = 0`, `RoundTrip`: `Spec \/ StaleSpec => []OnlyTheDeadAreSilent` |
| `OneRingWhileJoining` | `OnlyJoining`, `RoundTrip`, `Initial # {}`: `Spec \/ StaleSpec => []OneOrderedRing` |

The hypotheses say what the properties are about. `RoundTrip` is that the hop
limit of a request is neither 1 nor 2, so that one to a neighbour gets there and
back; the code's is 65535. With `MaxLoss = 0` nodes may still crash, leave and join
as they like, and requests be given up too early. `MaxRepeat = 0` is that no number is drawn
while it is in use, which is an assumption about the run, not a fact about the code:
with one repetition a reply to a check may be taken for another's answer, and a node
that works be removed. `OnlyJoining` excludes that, losses, late answers, crashes and
departures, as the run `ring_join` does. `NamesStarted` needs none of these: whatever
callback takes a reply, what the reply names has joined.

`SilenceMeansDown` rests on `Watched`: for each open check of a node that works, the
check or its reply is in flight. What could go wrong is that somebody else takes
the reply (`Tidy`: without repetitions, numbers of open requests differ), that a check reaches a node
that is in `join` still and is dropped (`Tidy` again: it has joined), or that it
is at the end of its hops (`ChecksDirect`: it has been read at most once).

`OneRingWhileJoining`: three facts are inductive together. `OnlyJoins`: no node ever
stops, and nothing in flight or open tells one to remove a peer, by
`SilenceMeansDown`'s invariant. `NoneSkipped`: between a member and its successor
there is no node of `Initial`. `NewcomersAim`: a newcomer asks for its own identifier
and is told a node with none of `Initial` in between, however old the answer is.
What is left is a fact on the circle (`Skipless`): if every member has a member as
its successor and none skips a certain node, then the walk along successors from any member
comes past that node, so that there is one ring; and the walk from that
node comes back to it with rising distances, so that the ring is ordered. A walk is
a recursive notion; the proof avoids induction over data by taking, of a set of
distances, the least (`LeastExists`, from well-foundedness of the naturals, which the
library states without an operator as a parameter).

### Routing

| theorem | statement |
|---|---|
| `PromisesSetOnce` | `(MayCrash \cup MayLeave) \cap Asker = {}`: `Spec \/ StaleSpec => Loose!Safety` |
| `LookupsFindOwners` | `KeepsMembers`: `Spec \/ StaleSpec => Exact!Safety` |
| `HopsAreFew` | `KeepsMembers`: `Spec => []LogHops` |

These are step by step refinements of `LookupService`: its initial states, and a
step of it or a stutter for each step of the ring. Their liveness, that each lookup
is answered, is in the properties `LookupsOnce` and `LookupsExact` and stays with
TLC. A promise is the user's, so `PromisesSetOnce` wants his node to stay; nothing
else is assumed, not even that numbers differ: a reply may then set a promise to a
wrong answer, but only one callback of the request runs. `KeepsMembers` is `OnlyJoining`, `RoundTrip` and that all nodes are
members from the start: the runs `lookup_stale` and `lookup_hops` for any nodes.

`OneOpen` (a node has at most one lookup open, and while it has one its promise is
pending) makes a second setting impossible. `Meant` says that the `LOOKUP` of an open
request asks for the key the request is for, and that its reply names the owner
of that key: the node whose successor owns a key says so, as successors are right, and fingers
only decide who is asked. `HopsAreFew` adds `TablesInOrder`, which
`fixFingers` keeps because what it is answered is the owner of the start of the
slot, by `Meant`, and `HopsFew`: each hop takes away the highest bit of the distance left
(`FewLeft`), since the slot for that power of two (`TopBit`) points at a node
between the one that asks and the key.

### Files

| theorem | statement |
|---|---|
| `TypeCorrect` | `Spec => []TypeOK`, which no run checks |
| `FilesPlaced` | `Spec => []Placed` |
| `NoCopyForgotten` | `Spec => []CopiesFollow` |

`ChainsGrow` says where a request in a chain comes from (a command, or the handler
of the request before it) and `FilesChange` what it takes for a file to enter or
leave a directory; from these `Placed` is inductive, since the successor of a
place for one part is a place for the next. `CopiesFollow` is inductive together
with `Placed` (a request that is handled leaves its file where the part belongs)
and `DeletesKnown` (nothing deletes a key that nobody deleted). `WritesEnd` and
`ListingBegins` are the two ways in which it could fail: a `WRITE` that is no
longer there, and a file that has just been listed.

### Events and futures

| theorem | statement |
|---|---|
| `EventTypeAlways` | `EventSpec => []EventTypeOK` |
| `BroadcastReachesAll` | `EventSpec => []BroadcastWakes` |
| `NoTriggerForgotten` | `Timed = {} /\ EventSpec => []TriggerWakesOne`: with `event_timed`, exactly the time limit breaks it |
| `Invariance` | `Spec => []Inv` for `Future` |
| `NobodyMissesTheResult` | `Spec => []NobodySleeps` |
| `PromiseIsWriteOnce` | `Spec => promise!Safety`: the safety of `WriteOnce`, with the refinement mapping "the result, once the flag is set" |

The invariant of `Future` says that a setter between its test and the flag holds
the lock and finds the flag unset, that a result that is there is some setter's
value, and that the event is triggered once the setter is past its trigger. The
last is what makes the test without a lock in `getResult` safe: a getter that
decides to wait finds the event triggered, or is woken.

### Transfers, digests and threads

| theorem | statement |
|---|---|
| `HeirAnswers` | `TransferSpec => []OwnersAnswer` |
| `FilesStayTwice` | `Cardinality(Node) >= 4`: `TransferSpec => []TwiceOnDisk` |
| `JoinsRestored` | `Cardinality(Node) >= 4`: `TransferSpec => []JoinRestores` |
| `DeparturesRestored` | `Cardinality(Node) >= 4`: `TransferSpec => []DepartureRestores` |
| `TransfersRestored` | `Cardinality(Node) >= 4`: `TransferSpec => []ReplicasRestored` |
| `DigestsAreOfTheText` | `DigestSpec => []DigestsWhole`, for texts of any length |
| `ObjectsOutliveThreads` | `WorkerSpec => []ThreadsEndFirst`, for any set of threads |

`OwnersAnswer` says nothing until the predecessor is missed, so the invariant says
where a file is before: of the files of the node that left, the heir (the next
member) has the first copies; every other file is in the store of its owner, and
stays there, because after a departure nothing takes a file from a store.
`OwnerWithout` is the lemma on the circle: without one node, its files belong to
its successor and all others to whom they did. `RemovePredecessor` makes the first
copies the store in the same step that ends `predecessor[n] \notin member`, which
is the whole argument, and what its faulty variant breaks.

`FilesStayTwice` wants four nodes, so that the ring has three members before a
newcomer (`TransferInit` starts with all nodes or all but one) and after a
departure: with two members a file has two places only, and a departure leaves one. While a node joins, directories move
between three neighbours, by messages any of which may be lost, and a handler
may delete second copies (`old` in `HandleSuccTwo`, `HandleSuccThree`). The
invariant `Shifting` says where it is safe: what a member of the old ring had in `store/`
and `copy1/`, which are two places of each file, it has somewhere on its disk;
and it still has it in these two as long as no shift has been at it. `ShiftsLeft` says
that at most one shift is under way and that it meets directories no shift has
been at, so that what it deletes from `copy2/` was no main copy. After a departure
nothing is deleted at all (`NothingDeleted`), and of three places two are left.

`JoinsRestored` and `DeparturesRestored` are about all that the transfer does, so their
invariant (`PlaceInv`) names the contents of the directories at each stage, for as
long as nothing is lost. `K[x]` is what x owns while n or d is in the ring; `Around`
says what each neighbour has with that node and without it (`TwoRings`), and shows
that only the three members after it have different files: h, t and u for a
departure, s, t and u for a join.

`Healing` describes a departure by two things that happen in this order, with any
steps of others in between: h misses d, and t handles `LEAVESUCC`. The node before d
may meanwhile take any member for its successor and copy its first copies there, and
so may others; so the invariant says what is in a directory at least (`HealGrows`:
copies only add). What a directory will hold is what is in it and what is on its
way (`Due`), so a `FILE` that arrives changes nothing (`FileArrives`). Two facts keep
replicas in their places. `Edge`: h and t still know their right successors, since
no member lies between them and these to take their place, so that what `removePeer` and
`handleLeaveSucc` send goes where it should; this is the one fact about the way back of
the node before d that is needed (`NotifyNeighbours`). And nothing but `HandleLeaveSucc`
moves what is in `copy2/temp/`, so what it overtakes stays there.

`Filling` describes a join by which of the three shifts is in flight, and exactly:
the files of a node are those of one ring or of the other. `Handover` sends no word when
there is nothing to send, and leaves its second step out when nothing of the store
moved, and in both cases the shifts that are left out would have changed nothing.
The first place of each file (`JoinPlaces`) is its owner, or the next member when the
comparison in `getFileListNew`, which knows no circle, misses its key; `KeysBelow` is the
lemma on the circle that says when, and `JoinKeys` what s then gives away.

The invariant of `Digest` gives, for each stage, what each position of the copy
holds, from which the arithmetic of `Align` and `Padding` does the rest. That of
`WorkerThread` says that an object that waits for its thread, or whose thread is
past its start and not over, is there, unless it was killed without waiting.

### Containers and algorithms

| theorem | statement |
|---|---|
| `ArraysKeepOrder` | `ArraySpec => [](Fitting /\ StrayByOne) /\ ArraySteps` |
| `StringsSound` | `StringSpec => []BuffersSound` |
| `QueuesStayApart` | `QueueSpec => []QueuesApart` |
| `QueuesAreFifo` | `QueueSpec => FifoSteps` |
| `ListsKeepOrder` | `ListSpec => []ListSound` |
| `ListsAreDeques` | `ListSpec => DequeSteps` |
| `SortingIsRight` | `SortSpec => []SortsRight` |
| `AlgebraIsRight` | `AlgebraSpec => []AlgebraRight` |

For any number of containers, any set of items, any length, and matrices of any integers.

An array's buffer is a function of the positions up to its size, and one that is
allocated anew takes over what was below the count; so every call changes what is
below the count as `ArrayStep` says, and leaves the buffer at most by one place
(`StrayByOne`), as `operator()(size)` does, or by writing into an array that was moved
away. In a string the
character at the count is the zero, unless the string is `loose`, because the count never
moves without the zero.

A queue or list is what a walk along links finds, and the walk is a function of the
number of steps. The invariant names the sequence the walk has to find: `Strung` for
queues, `Chained` for lists, which also reads it backwards. `QueueInv` has such a
chain for each queue, and no client on two; it is what makes `copy` and `move` safe, which
replace a whole chain and must free its clients and no others. `ListInv` is that
the list is chained or is no longer `sound`. `PutChained` and `TakenChained` say
once for all calls that an element put in or taken out at one place leaves a chain
with that one difference; each call then has to be one of the two, with `head`,
`tail` and the neighbours' links written in the order of the code, or to break the
list. Sound steps are those of `Deque`, in the items and in what is handed out, but
for `pop(data)`, which takes away the last item and hands out the first
(`PopToKeeps`).

Queues may well use one allocator, after a move. `QueuesStayApart` says what is right
all the same, and `QueueInv` why: at most one queue is to delete an allocator, that
one is not deleted, and each client of a queue was taken from the one it uses
(`Returning`), since a move takes clients and allocator together. What is excluded by
`strayed # "own"` is that a queue uses its own allocator after it was deleted; one that
was moved away from and is used again after the other's destructor does
(`strayed = "lent"`).

Of the sorts, `SortsRight` says that the outcome is ordered and a permutation, and for
insertion sort that equal keys keep their order. The proofs are of the loops as they
are: `minsort` has the least elements of the range in front, insertion sort a stable
ordering of the elements so far, and the loop of `quicksort` has the elements that precede
the pivot in front of those that do not.
The calls of `quicksort` are counted by their depth, which the length of the range
bounds; the induction (`Induction`) is over a set of such depths.

`AlgebraRight` needs no more of a state than that its entries are integers
(`MatricesStay`); the rest is about the functions. Each vector instruction is first said
lane by lane (`TransposeIs`, `RowDotsAre`, `ComplementLanes`), so that a function of the
code becomes an expression of its entries, and what is left are identities of
polynomials. For the inverse these are two: a row of complements is orthogonal to the
three rows it was made of (`CofactorOrthogonal`), and each of the four rows gives the
same determinant (`Laplace`), with the signs as the code has them. For rotations,
`Rodrigues` is the common form of q v q*, of the product of two matrices and of the two
cross products, the last for quaternions of length 1 only. The reference is Hamilton's
product and `Star`, not the code's functions, which are shown to agree with them.

### Assumptions and limits

`WidthAssumption` and `PowerAssumption` (at least two bits; powers of two are
positive and each is twice the one before, which the provers cannot compute), `NodeAssumption` (nodes are identifiers, and one
identifier is no node's: it stands for the 0 of a `NodeInfo` that was never filled in), `RequestAssumption` (numbers are positive, 0 marks a request
without reply), `EnvironmentAssumption`; `FileAssumption` (nodes are identifiers,
users are nodes, no key is 0, the value for which `write` takes a file for a
copy); `TimedAssumption`; `ThreadAssumption` (a thread plays one part);
`TransferAssumption` (nodes and keys are identifiers); `DigestAssumption`,
`ArrayAssumption`, `QueueAssumption`, `ListAssumption`, `SortAssumption` (bounds are
numbers, the null pointer is no link or client, and there are finitely many queues);
`AlgebraAssumption` (the vectors and quaternions given are of integers);
`CharAssumption` (no value but the zero is the zero). TLC evaluates them in every run of
their module.

Only model-checked: the liveness properties and the liveness of the refinements
(the prover has no fairness or `ENABLED`), and what rests on the red-black tree
(`TreeSound`, `BagSteps`, `RequestsAccounted`, `TickReachesAll`, `PoolsSound`).
`RedBlackTree` declares `RECURSIVE` operators, because the code it models recurs over
data, and with one the prover loses its arithmetic: no module with a theorem reaches
it.

## 6. What is left

Of the plan this project began with everything has a module now. What would come
next, in this order:

1. `FileTransfer` in `ChordRing`: a transfer while the ring itself is not in order,
   a second departure during the first, and users who write meanwhile.
2. The threads of one node inside `handleLookup` and `findSuccessor`, which read
   slots that another thread writes.
3. Copies of a tree, moves of a list, `realloc` as a call of its own.

## 7. Not modelled

* The rounds of SHA-1 (arithmetic on constants), rounding, normalisation and
  projections (TLA+ has no floating point), plain vector operators (one line each).
* Type traits, atomics, smart pointers and platform wrappers: no behaviour of their
  own, or the compiler's.
* Comparison, formatting and parsing of strings, the command line,
  `serializable_map` (compiled in, never used), resolution of host names, what the
  commands print.
* The MySQL client, the system's allocator, the file system: external. They are
  modelled by what the code uses of them, and do not fail, but for threads that
  cannot be made.
* `async`, the thread barrier and `join` of a thread object: no code of the node
  calls them.
