---------------------------- MODULE RequestTable ----------------------------
(***************************************************************************)
(* The open requests of a node: LocalNode::callbacks, a Map, the generator *)
(* of their numbers (math/uuid_generator.h) and the loop of checkRequests  *)
(* over the map, which takes entries out of it.  callbacksGuard makes an   *)
(* insertion, a reply and a whole loop single steps; the generator has no  *)
(* lock.  An element of the map is a number and the request it is for.     *)
(***************************************************************************)
EXTENDS OrderedMap

LOCAL INSTANCE FiniteSetsExt

CONSTANTS
  Maker,          \* threads that make requests
  Updater,        \* the one that runs checkRequests
  MaxRequests,    \* bound: requests ever made
  Numbers,        \* how many numbers there are: 2^16 in the code
  Patience        \* ticks a request lives through

Request == 1..MaxRequests

VARIABLES
  lastId,     \* UUIdGenerator::state
  maker,      \* where each thread is in makeRequest, and the number it has drawn
  number,     \* of each request, 0 before it is made
  status,     \* unmade, open, refused (its callback was dropped), answered, failed
  age,        \* ticks of each request
  missed,     \* ticks at which the loop passed it over
  crashed,    \* the loop followed a link in memory that was used for something else
  draws,      \* numbers drawn so far
  raced       \* two threads have counted at once

tableVars == <<lastId, maker, number, status, age, missed, crashed, draws, raced>>
requestVars == <<mapVars, tableVars>>

AtRest == <<"rest", 0>>

TableInit ==
  /\ MapInit
  /\ lastId = 0
  /\ maker = [m \in Maker |-> AtRest]
  /\ number = [r \in Request |-> 0]
  /\ status = [r \in Request |-> "unmade"]
  /\ age = [r \in Request |-> 0]
  /\ missed = [r \in Request |-> 0]
  /\ crashed = FALSE
  /\ draws = 0
  /\ raced = FALSE

\* UUIdGenerator::getNext: ++state, which wraps round.
GetNext(id) == (id + 1) % Numbers

\* All that a call changes, in one record, for calls made inside a loop.
State == [tree |-> tree, root |-> root, numNodes |-> numNodes, lastId |-> lastId,
          number |-> number, status |-> status, age |-> age, missed |-> missed,
          crashed |-> crashed, draws |-> draws]

Becomes(s) ==
  /\ tree' = s.tree
  /\ root' = s.root
  /\ numNodes' = s.numNodes
  /\ lastId' = s.lastId
  /\ number' = s.number
  /\ status' = s.status
  /\ age' = s.age
  /\ missed' = s.missed
  /\ crashed' = s.crashed
  /\ draws' = s.draws
  /\ UNCHANGED <<treeLives, raced>>

Unmade(s) == {r \in Request : s.status[r] = "unmade"}

\* callbacks.insert of the next request under number id.
Enter(s, id) ==
  LET r == CHOOSE q \in Unmade(s) : \A p \in Unmade(s) : q <= p
      e == <<id, r>>
      planted == s.root = Null
      refused == ~planted /\ s.root[1] = id
      t == IF planted THEN Paint(With(s.tree, e), e, FALSE)
           ELSE IF refused THEN s.tree ELSE InsertUnique(With(s.tree, e), s.root, e)
  IN  [s EXCEPT !.tree = t,
                !.root = IF planted THEN e ELSE GetRoot(t, @),
                !.numNodes = IF planted THEN 1 ELSE IF refused THEN @ ELSE @ + 1,
                !.number[r] = id,
                !.status[r] = IF refused THEN "refused" ELSE "open"]

\* Faulty variant: the root is not looked for after the tree was turned round.
DropBelow(s, e, why) ==
  LET v == Evicted(s.tree, e)
      child == IF s.tree[v].left # Null THEN s.tree[v].left ELSE s.tree[v].right
  IN  [s EXCEPT !.tree = Remove(@, e),
                !.root = IF v = @ THEN child ELSE IF @ = e THEN v ELSE @,
                !.numNodes = @ - 1,
                !.status[e[2]] = why]

\* callbacks.remove(it) for the entry e.
Drop(s, e, why) ==
  LET v == Evicted(s.tree, e)
      t == Remove(s.tree, e)
      child == IF s.tree[v].left # Null THEN s.tree[v].left ELSE s.tree[v].right
  IN  [s EXCEPT !.tree = t,
                !.root = IF v = @ THEN child ELSE GetRoot(t, IF @ = e THEN v ELSE @),
                !.numNodes = @ - 1,
                !.status[e[2]] = why]

\* A request made inside a callback, by the thread that holds the lock.
Draw(s) ==
  IF Unmade(s) = {} THEN s
  ELSE Enter([s EXCEPT !.lastId = GetNext(@), !.draws = @ + 1], GetNext(s.lastId))

----------------------------------------------------------------------------
\* makeRequest: ++state without a lock is a read and a write, and the entry is
\* inserted under the lock.
Load(m) ==
  /\ ~crashed
  /\ maker[m] = AtRest
  /\ Unmade(State) # {}
  /\ maker' = [maker EXCEPT ![m] = <<"read", GetNext(lastId)>>]
  /\ UNCHANGED <<mapVars, lastId, number, status, age, missed, crashed, draws, raced>>

Store(m) ==
  /\ ~crashed
  /\ maker[m][1] = "read"
  /\ lastId' = maker[m][2]
  /\ draws' = draws + 1
  /\ raced' = (raced \/ maker[m][2] # GetNext(lastId))
  /\ maker' = [maker EXCEPT ![m][1] = "written"]
  /\ UNCHANGED <<mapVars, number, status, age, missed, crashed>>

Register(m) ==
  /\ ~crashed
  /\ maker[m][1] = "written"
  /\ maker' = [maker EXCEPT ![m] = AtRest]
  /\ IF Unmade(State) = {}
     THEN UNCHANGED <<mapVars, lastId, number, status, age, missed, crashed, draws, raced>>
     ELSE Becomes(Enter(State, maker[m][2]))

\* handleReply, for a reply with that number. The callback, which may make
\* another request, runs before the entry goes.
HandleReply(id) ==
  LET e == Find(tree, root, id)
  IN  /\ ~crashed
      /\ e # Null
      /\ \E s \in {State, Draw(State)} : Becomes(Drop(s, e, "answered"))
      /\ UNCHANGED maker

\* Faulty variant: the loop ends at the first entry it removes.
RECURSIVE SweepOne(_, _, _, _)
SweepOne(s, e, asks, reused) ==
  IF e = Null THEN s
  ELSE IF s.age[e[2]] < Patience
  THEN SweepOne([s EXCEPT !.age[e[2]] = @ + 1], s.tree[e].next, asks, reused)
  ELSE Drop(IF e[2] \in asks THEN Draw(s) ELSE s, e, "answered")

\* The loop of checkRequests with its iterator at entry e. Error callbacks of
\* the requests in asks make another request. A node with two children stays when
\* its entry is removed, and holds the entry after it: that one is passed over.
\* Any other node is released, and the link out of it read afterwards, which is
\* right unless the memory has been reused.
RECURSIVE Sweep(_, _, _, _)
Sweep(s, e, asks, reused) ==
  IF e = Null THEN s
  ELSE IF s.age[e[2]] < Patience
  THEN Sweep([s EXCEPT !.age[e[2]] = @ + 1], s.tree[e].next, asks, reused)
  ELSE LET u == IF e[2] \in asks THEN Draw(s) ELSE s
           v == Evicted(u.tree, e)
           w == Drop(u, e, "failed")
       IN  IF v # e THEN Sweep([w EXCEPT !.missed[v[2]] = @ + 1], w.tree[v].next, asks, reused)
           ELSE IF reused THEN [w EXCEPT !.crashed = TRUE]
           ELSE Sweep(w, u.tree[e].next, asks, reused)

CheckRequests ==
  /\ ~crashed
  /\ maker[Updater] = AtRest
  /\ root # Null
  /\ \E asks \in SUBSET {n[2] : n \in DOMAIN tree}, reused \in BOOLEAN :
       Becomes(Sweep(State, Extreme(tree, root, "left"), asks, reused))
  /\ UNCHANGED maker

TableNext ==
  \/ \E m \in Maker : Load(m) \/ Store(m) \/ Register(m)
  \/ \E id \in {e[1] : e \in DOMAIN tree} : HandleReply(id)
  \/ CheckRequests

TableSpec == TableInit /\ [][TableNext]_requestVars

----------------------------------------------------------------------------
\* An open request is in the map, once, and its number finds it or another with
\* the same number; no request leaves the map but answered or given up.
Accounted ==
  /\ {r \in Request : status[r] = "open"} = {Items[i][2] : i \in DOMAIN Items}
  /\ numNodes = Cardinality({r \in Request : status[r] = "open"})

\* The requests that wait for an answer have different numbers (makeRequest: "Assign
\* unique id"). Those that were refused wait as well, but nobody knows of them.
NumbersDiffer ==
  \A r, q \in Request :
    r # q /\ {status[r], status[q]} \subseteq {"open", "refused"} => number[r] # number[q]

\* It takes two threads that count at once, or as many requests as there are numbers,
\* for two that wait to have the same number or for one to be refused.
DifferUnlessRaced ==
  ~raced /\ draws <= Numbers =>
    NumbersDiffer /\ \A r \in Request : status[r] # "refused"

\* Although the loop changes the map it walks over, each entry it removes makes
\* it pass over at most one other.
MissedOnce ==
  MapThenSumSet(LAMBDA r : missed[r], Request)
    <= Cardinality({r \in Request : status[r] = "failed"})

\* Each tick reaches every open request or is counted as missed: nobody waits for
\* an answer longer than Patience and the requests that failed meanwhile.
Tick ==
  age' # age \/ missed' # missed =>
    \A r \in Request :
      status[r] = "open" /\ status'[r] = "open" /\ ~crashed' =>
        age'[r] + missed'[r] = age[r] + missed[r] + 1
=============================================================================
