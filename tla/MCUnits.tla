------------------------------ MODULE MCUnits ------------------------------
(***************************************************************************)
(* The parts of the node and of its library that are checked apart, each   *)
(* as a unit with variables of its own: a behaviour is one of one unit,    *)
(* and the variables of the others stay as they are at first.  A unit      *)
(* shares variables with those it is built from: the request table with    *)
(* the map, and the pools with the tree of the map; strings are arrays.    *)
(*                                                                         *)
(* The properties of the other modules are checked under the names they    *)
(* have there: they hold in every unit.                                    *)
(***************************************************************************)
EXTENDS RequestTable, FileTransfer, Event, WorkerThread, Digest, CharString,
        LinkedQueue, LinkedList, Sorting, Algebra

CONSTANTS
  MinBlock, LastBucket, Blocks, MaxPools

VARIABLES
  unit,
  bucketOf, buckets, free, numFree, lent, refused

Pool == INSTANCE PoolAllocator

poolVars == <<bucketOf, buckets, free, numFree, lent, refused>>

----------------------------------------------------------------------------
\* Seven keys, one of which two pairs have.
MapElements == ((1..7) \X {1}) \cup {<<4, 2>>}

\* Of a translation and a scaling; a half turn, one of the opposite sign, and one
\* that is not of length 1.
Probes == {<<1, 0, 2>>, <<1, -1, 1>>}
Turns == {<<0, 0, 1, 0>>, <<0, -1, 0, 0>>, <<1, 1, 0, 1>>}

Units == {"map", "requests", "transfer", "event", "list", "queue", "array", "string",
          "pools", "sort", "digest", "workers", "maths"}

Init ==
  /\ unit \in Units
  /\ TableInit
  /\ IF unit = "transfer" THEN TransferInit
     ELSE /\ member = {} /\ successor = <<>> /\ predecessor = <<>> /\ owes = <<>>
          /\ files = Placement({}, {}) /\ net = {} /\ change = "none" /\ lost = 0
  /\ EventInit
  /\ ListInit
  /\ QueueInit
  /\ StringInit
  /\ bucketOf = <<>> /\ free = <<>> /\ numFree = <<>>
  /\ buckets = [b \in Pool!Bucket |-> <<>>]
  /\ lent = {} /\ refused = 0
  /\ IF unit = "sort" THEN SortInit ELSE original = <<>> /\ range = <<>> /\ by = "none"
  /\ IF unit = "digest" THEN DigestInit ELSE len = 0 /\ data = <<>> /\ stage = "text"
  /\ WorkerInit
  /\ AlgebraInit

\* All variables that are of none of these units stay.
Only(units) ==
  /\ unit \in units
  /\ UNCHANGED unit
  /\ "requests" \notin units => UNCHANGED tableVars
  /\ units \cap {"map", "requests", "pools"} = {} => UNCHANGED mapVars
  /\ "transfer" \notin units => UNCHANGED transferVars
  /\ "event" \notin units => UNCHANGED eventVars
  /\ "list" \notin units => UNCHANGED listVars
  /\ "queue" \notin units => UNCHANGED queueVars
  /\ units \cap {"array", "string"} = {} => UNCHANGED stringVars
  /\ "pools" \notin units => UNCHANGED poolVars
  /\ "sort" \notin units => UNCHANGED sortVars
  /\ "digest" \notin units => UNCHANGED digestVars
  /\ "workers" \notin units => UNCHANGED workerVars
  /\ "maths" \notin units => UNCHANGED matrices

MapUnit == Only({"map"}) /\ MapNext
RequestUnit == Only({"requests"}) /\ TableNext
TransferUnit == Only({"transfer"}) /\ TransferNext
EventUnit == Only({"event"}) /\ EventNext
ListUnit == Only({"list"}) /\ ListNext
QueueUnit == Only({"queue"}) /\ QueueNext
ArrayUnit == Only({"array"}) /\ ArrayNext /\ UNCHANGED loose
StringUnit == Only({"string"}) /\ StringNext
PoolUnit == Only({"pools"}) /\ Pool!PoolNext /\ UNCHANGED <<numNodes, treeLives>>
SortUnit == Only({"sort"}) /\ SortNext
DigestUnit == Only({"digest"}) /\ DigestNext
WorkerUnit == Only({"workers"}) /\ WorkerNext
MathsUnit == Only({"maths"}) /\ AlgebraNext

Next ==
  \/ MapUnit \/ RequestUnit \/ TransferUnit \/ EventUnit
  \/ ListUnit \/ QueueUnit \/ ArrayUnit \/ StringUnit \/ PoolUnit
  \/ SortUnit \/ DigestUnit \/ WorkerUnit \/ MathsUnit

vars == <<unit, mapVars, tableVars, transferVars, eventVars, listVars, queueVars,
          stringVars, poolVars, sortVars, digestVars, workerVars, matrices>>

Spec == Init /\ [][Next]_vars

\* Of the event's threads and no others anything is asked, see Event.
FairSpec == Spec /\ EventFairness

----------------------------------------------------------------------------
\* Every sequence of calls of a Map leaves a red-black tree whose links and searches
\* agree with it, and its destructor releases all that can be reached
\* (binary_tree.h).
TreeSound ==
  unit = "map" => Balanced /\ LinksInOrder /\ Findable /\ Counted /\ NothingLeaks

\* A Map implements SortedBag: no call loses, doubles or moves an element that it
\* is not about (map.h).
BagSteps == [][unit = "map" => BagStep]_Items

\* No open request is lost from the table, whichever numbers two threads draw, and
\* none is left in it; and a request never gets into it, or shares its number with
\* another, only because two threads drew at once or the counter came round
\* (LocalNode::callbacks, requestIdGenerator).
RequestsAccounted ==
  unit = "requests" => Balanced /\ Accounted /\ MissedOnce /\ DifferUnlessRaced

\* The loop over the table, which it takes entries out of, reaches every open
\* request, or passes over it once (LocalNode::checkRequests).
TickReachesAll == [][unit = "requests" => Tick]_tableVars

\* Every block in use is found to be of the pool it came from, and no block or pool
\* is lost; what is refused was lost in halving (malloc_binned.cpp, malloc_pool.h).
PoolsSound ==
  unit = "pools" =>
    /\ Pool!PoolsInTree /\ Pool!BlocksAtHome
    /\ Pool!NoBlockLost /\ Pool!RefusedByHalving
=============================================================================
