----------------------------- MODULE ChordRing -----------------------------
(***************************************************************************)
(* Ring maintenance and lookups of the Chord library: the state and the    *)
(* handlers of every LocalNode (local_node.cpp), run by its receiver       *)
(* thread (receive_task.cpp), its updater thread (update_task.cpp) and the *)
(* program's command loop (main.cpp), over a datagram network that delays, *)
(* reorders and may lose messages.                                         *)
(*                                                                         *)
(* A node's address and its identifier stand for each other (the           *)
(* identifier is the hash of the address), so a NodeInfo is an identifier. *)
(* A process gets a new port, hence a new identity, each time it starts: a *)
(* node that is gone stays gone.                                           *)
(* The copies of files that removePeer and join move are in FileTransfer.  *)
(***************************************************************************)
EXTENDS ChordId, FiniteSets

CONSTANTS
  Node,        \* identifiers of the processes that ever run
  Initial,     \* those that form a converged ring at the start
  Nobody,      \* a NodeInfo that was never filled in: no address, identifier 0
  Ids,         \* request identifiers, by kind of request
  MaxOpen,     \* bound: requests of the updater thread open at a node at once
  Asker,       \* nodes whose user looks keys up
  Key,         \* keys the users look up
  LookupTtl,   \* hops a user's lookup may take: 3 in the code
  DefaultTtl,  \* hops any other request may take: 65535 in the code
  MaxLoss,     \* bound: messages the network loses
  MayCrash,    \* bound: nodes that may crash
  MayLeave,    \* bound: nodes that may leave
  MaxLate,     \* bound: requests given up while an answer may still come
  MaxRepeat    \* bound: numbers drawn while they are in use

\* What a request is sent for: it selects the pair of callbacks.
Kind == {"join", "notify", "finger", "lookup", "succ", "check"}

ReqId == UNION {Ids[kind] : kind \in Kind}

\* Only distances count, so any identifier that no node has stands for 0.
ASSUME NodeAssumption ==
  /\ Node \subseteq Id
  /\ Initial \cup Asker \cup MayCrash \cup MayLeave \subseteq Node
  /\ Nobody \in Id \ Node

ASSUME RequestAssumption ==
  /\ Ids \in [Kind -> SUBSET (Nat \ {0})]
  /\ MaxOpen \in Nat
  /\ Key \subseteq Id
  /\ LookupTtl \in Nat
  /\ DefaultTtl \in Nat

ASSUME EnvironmentAssumption ==
  /\ MaxLoss \in Nat
  /\ MaxLate \in Nat
  /\ MaxRepeat \in Nat

VARIABLES
  status,       \* off, joining, up, leaving (LEAVE sent), left, crashed
  fingers,      \* finger table; slot 0 is the successor
  predecessor,
  duty,         \* what the updater thread calls next
  nextFinger,   \* slot fixFingers refreshes next
  callbacks,    \* open requests
  answer,       \* the promise of the node's last user lookup
  net,          \* messages in flight
  lost,         \* messages lost so far
  late,         \* requests given up too early so far
  repeated      \* numbers drawn so far while they were in use

vars == <<status, fingers, predecessor, duty, nextFinger, callbacks, answer, net, lost, late,
          repeated>>

\* What a NodeInfo holds.
Peer == Node \cup {Nobody}

Request ==
  [type : {"REPLY", "LOOKUP", "NOTIFY", "LEAVE", "CHECK"},
   id   : ReqId \cup {0},
   src  : Peer,
   dst  : Id,       \* a key, or the node a reply names
   to   : Node,
   ttl  : Nat,
   hop  : Nat]

Callback ==
  [id : ReqId, kind : Kind, peer : Peer, finger : Finger]

Promise ==
  [state : {"idle", "pending", "set"}, key : Id, peer : Peer]

Unasked == [state |-> "idle", key |-> 0, peer |-> Nobody]

\* A promise once it is set.
Answered(promise, peer) == [state |-> "set", key |-> promise.key, peer |-> peer]

Running == {n \in Node : status[n] \in {"up", "leaving"}}

successor(n) == fingers[n][0]

----------------------------------------------------------------------------
(***************************************************************************)
(* Requests.                                                               *)
(***************************************************************************)

\* A request as its constructor and makeRequest leave it.
NewRequest(type, id, src, dst, to, ttl) ==
  [type |-> type, id |-> id, src |-> src, dst |-> dst, to |-> to,
   ttl |-> ttl, hop |-> 0]

\* Turning a request into its reply: everything it carries is kept, only the
\* type, the recipient (its source) and the operand change.
ReplyTo(m, dst) ==
  [m EXCEPT !.type = "REPLY", !.to = m.src, !.dst = dst]

\* A socket write: what is addressed to no socket vanishes.
Sent(ms) ==
  {m \in ms : m.to \in Node /\ status[m.to] \in {"joining", "up", "leaving"}}

\* The numbers that an open request of the node, or a message about a request of
\* its own, still carries (a LEAVE, which has number 0, is never answered).
InUse(n) ==
  {c.id : c \in callbacks[n]} \cup {m.id : m \in {x \in net : x.src = n}}

\* requestIdGenerator.getNext(), an unlocked ++state on 16 bits: a number that is
\* not in use, and which of them is of no consequence (a set for each kind of
\* request spares the permutations); or, MaxRepeat times, one that is, because the
\* counter has come round to it or two threads have counted at once.
GetNext(n, kind, id) ==
  \/ /\ Ids[kind] \ InUse(n) # {}
     /\ id = CHOOSE i \in Ids[kind] \ InUse(n) : TRUE
     /\ UNCHANGED repeated
  \/ /\ repeated < MaxRepeat
     /\ id \in InUse(n)
     /\ repeated' = repeated + 1

\* The pair of callbacks makeRequest inserts. The five seconds of a callback's
\* time to live are abstracted: see TimeOut.
NewCallback(id, kind, peer, finger) ==
  [id |-> id, kind |-> kind, peer |-> peer, finger |-> finger]

\* callbacks.insert(id, ...) while those in gone are on their way out: a number
\* that is there already is refused if the root of the tree has it, and stands
\* there twice otherwise (RequestTable has the tree).
Open(n, c, gone) ==
  \/ callbacks' = [callbacks EXCEPT ![n] = (@ \cup {c}) \ gone]
  \/ /\ \E d \in callbacks[n] : d.id = c.id
     /\ callbacks' = [callbacks EXCEPT ![n] = @ \ gone]

\* Faulty variant: the first node to receive the check takes it for expired.
ShortCheckRequest(n, id, peer) ==
  NewRequest("CHECK", id, n, Nobody, peer, 1)

\* The request a node sends to check that a peer is alive.
CheckRequest(n, id, peer) ==
  NewRequest("CHECK", id, n, Nobody, peer, DefaultTtl)

\* Some message may still bring the answer to a request.
Answerable(n, c) == \E m \in net : m.src = n /\ m.id = c.id

\* The timer of a request has run out. Messages are taken to be faster than
\* the five seconds of the timer, save MaxLate times.
TimeOut(n, c) ==
  \/ ~Answerable(n, c) /\ UNCHANGED late
  \/ Answerable(n, c) /\ late < MaxLate /\ late' = late + 1

----------------------------------------------------------------------------
(***************************************************************************)
(* LocalNode::removePeer, called when a check fails or a LEAVE arrives.    *)
(***************************************************************************)

\* The lookup for a new successor. Its source is never set.
RecoveryRequest(n, id, to) ==
  NewRequest("LOOKUP", id, Nobody, Plus(n, 1), to, DefaultTtl)

\* Faulty variant: the slots that hold peer are left as they are.
KeptSlots(n, peer) == fingers[n]

\* The finger table with every slot that holds peer reset to the node itself.
ResetSlots(n, peer) ==
  [i \in Finger |-> IF fingers[n][i] = peer THEN n ELSE fingers[n][i]]

\* What becomes of n once peer is removed, and of the callbacks and the message
\* that go with the event that removes it.
RemovePeer(n, peer, gone, taken) ==
  LET pred == IF peer = predecessor[n] THEN n ELSE predecessor[n]
  IN  /\ predecessor' = [predecessor EXCEPT ![n] = pred]
      /\ fingers' = [fingers EXCEPT ![n] = ResetSlots(n, peer)]
      /\ \/ /\ peer = successor(n)
            /\ \E id \in ReqId :
                 /\ GetNext(n, "succ", id)
                 /\ Open(n, NewCallback(id, "succ", pred, 0), gone)
                 /\ net' = (net \ taken) \cup Sent({RecoveryRequest(n, id, pred)})
         \/ /\ peer # successor(n)
            /\ callbacks' = [callbacks EXCEPT ![n] = @ \ gone]
            /\ net' = net \ taken
            /\ UNCHANGED repeated

----------------------------------------------------------------------------
(***************************************************************************)
(* The updater thread.                                                     *)
(***************************************************************************)

\* UpdateTask::run calls stabilize, fixFingers and checkPredecessor in turn.
\* The code never waits for an answer before the next call: with MaxOpen the
\* model does, once that many requests are unanswered.
OnDuty(n, call, next) ==
  /\ n \in Running
  /\ duty[n] = call
  /\ duty' = [duty EXCEPT ![n] = next]

Idle(n) ==
  Cardinality({c \in callbacks[n] : c.kind # "lookup"}) < MaxOpen

\* LocalNode::stabilize: notify the successor first, the reply may replace it.
Stabilize(n) ==
  /\ OnDuty(n, "stabilize", "fixFingers")
  /\ Idle(n)
  /\ \E id \in ReqId :
       /\ GetNext(n, "notify", id)
       /\ Open(n, NewCallback(id, "notify", successor(n), 0), {})
       /\ net' = net \cup Sent({NewRequest("NOTIFY", id, n, Nobody, successor(n), DefaultTtl)})
  /\ UNCHANGED <<status, fingers, predecessor, nextFinger, answer, lost, late>>

\* The start of the interval slot i stands for.
Start(n, i) == Plus(n, 2^i)

\* Faulty variant: the slot after the last one is not skipped.
NextSlotPastEnd(i) == IF i = Bits THEN 1 ELSE i + 1

\* The slot fixFingers refreshes after slot i: it never refreshes slot 0.
NextSlot(i) == IF i + 1 = Bits THEN 1 ELSE i + 1

\* LocalNode::fixFingers: refresh one slot, from the successor when that owns
\* the start of the slot's interval, by a lookup otherwise.
FixFingers(n) ==
  LET i   == nextFinger[n]
      key == Start(n, i)
      hop == FindSuccessor(fingers[n], n, key)
  IN  /\ OnDuty(n, "fixFingers", "checkPredecessor")
      /\ nextFinger' = [nextFinger EXCEPT ![n] = NextSlot(i)]
      /\ \/ /\ RangeOpenClosed(key, n, successor(n))
            /\ fingers' = [fingers EXCEPT ![n][i] = successor(n)]
            /\ UNCHANGED <<callbacks, net, repeated>>
         \/ /\ ~RangeOpenClosed(key, n, successor(n))
            /\ Idle(n)
            /\ \E id \in ReqId :
                 /\ GetNext(n, "finger", id)
                 /\ Open(n, NewCallback(id, "finger", hop, i), {})
                 /\ net' = net \cup Sent({NewRequest("LOOKUP", id, n, key, hop, DefaultTtl)})
            /\ UNCHANGED fingers
      /\ UNCHANGED <<status, predecessor, answer, lost, late>>

\* LocalNode::checkPredecessor.
CheckPredecessor(n) ==
  /\ OnDuty(n, "checkPredecessor", "stabilize")
  /\ Idle(n)
  /\ \E id \in ReqId :
       /\ GetNext(n, "check", id)
       /\ Open(n, NewCallback(id, "check", predecessor[n], 0), {})
       /\ net' = net \cup Sent({CheckRequest(n, id, predecessor[n])})
  /\ UNCHANGED <<status, fingers, predecessor, nextFinger, answer, lost, late>>

\* Faulty variant: the promise of a lookup is left pending.
GiveUpSilently(n, c) == answer

\* The error callback of a user's lookup sets its promise to an invalid peer.
GiveUp(n, c) ==
  IF c.kind = "lookup"
  THEN [answer EXCEPT ![n] = Answered(@, Nobody)]
  ELSE answer

\* LocalNode::checkRequests, a request other than a check: its peer is checked.
ExpireRequest(n) ==
  /\ n \in Running
  /\ \E c \in callbacks[n], id \in ReqId :
       /\ c.kind # "check"
       /\ TimeOut(n, c)
       /\ GetNext(n, "check", id)
       /\ Open(n, NewCallback(id, "check", c.peer, 0), {c})
       /\ net' = net \cup Sent({CheckRequest(n, id, c.peer)})
       /\ answer' = GiveUp(n, c)
  /\ UNCHANGED <<status, fingers, predecessor, duty, nextFinger, lost>>

\* LocalNode::checkRequests, a check: the peer is removed from the local view.
ExpireCheck(n) ==
  /\ n \in Running
  /\ \E c \in callbacks[n] :
       /\ c.kind = "check"
       /\ TimeOut(n, c)
       /\ RemovePeer(n, c.peer, {c}, {})
  /\ UNCHANGED <<status, duty, nextFinger, answer, lost>>

----------------------------------------------------------------------------
(***************************************************************************)
(* The receiver thread: ReceiveTask::run takes a datagram, counts the hop  *)
(* and drops an expired request; handleRequest dispatches the others.      *)
(***************************************************************************)

Expired(m) == m.ttl > 0 /\ m.hop >= m.ttl

\* The datagrams n may take next, as they are once read.
Arriving(n, m) ==
  /\ n \in Running
  /\ m \in net
  /\ m.to = n

Hopped(m) == [m EXCEPT !.hop = @ + 1]

DropExpired(n, m) ==
  /\ Arriving(n, m)
  /\ Expired(Hopped(m))
  /\ net' = net \ {m}
  /\ UNCHANGED <<status, fingers, predecessor, duty, nextFinger, callbacks, answer, lost,
                 late, repeated>>

\* LocalNode::handleLookup.
HandleLookup(n, m) ==
  LET key == m.dst
      hop == FindSuccessor(fingers[n], n, key)
      out == IF RangeOpenClosed(key, n, successor(n))
             THEN [ReplyTo(Hopped(m), successor(n)) EXCEPT !.hop = 0]
             ELSE IF hop = n
             THEN [ReplyTo(Hopped(m), n) EXCEPT !.hop = 0]
             ELSE [Hopped(m) EXCEPT !.to = hop]
  IN  /\ Arriving(n, m)
      /\ m.type = "LOOKUP"
      /\ ~Expired(Hopped(m))
      /\ net' = (net \ {m}) \cup Sent({out})
      /\ UNCHANGED <<status, fingers, predecessor, duty, nextFinger, callbacks, answer, lost,
                 late, repeated>>

\* Faulty variant: a node without a predecessor does not take one.
AdoptsCloserPredecessor(n, src) == RangeOpen(src, predecessor[n], n)

\* The source of a NOTIFY becomes the predecessor.
AdoptsPredecessor(n, src) ==
  predecessor[n] = n \/ RangeOpen(src, predecessor[n], n)

\* LocalNode::handleNotify: reply with the predecessor held so far, then adopt
\* the source when there is none or the source is closer.
HandleNotify(n, m) ==
  /\ Arriving(n, m)
  /\ m.type = "NOTIFY"
  /\ ~Expired(Hopped(m))
  /\ net' = (net \ {m}) \cup Sent({ReplyTo(Hopped(m), predecessor[n])})
  /\ predecessor' =
       IF AdoptsPredecessor(n, m.src)
       THEN [predecessor EXCEPT ![n] = m.src] ELSE predecessor
  /\ UNCHANGED <<status, fingers, duty, nextFinger, callbacks, answer, lost,
                 late, repeated>>

\* LocalNode::handleCheck: reply, we are alive.
HandleCheck(n, m) ==
  /\ Arriving(n, m)
  /\ m.type = "CHECK"
  /\ ~Expired(Hopped(m))
  /\ net' = (net \ {m}) \cup Sent({ReplyTo(Hopped(m), m.dst)})
  /\ UNCHANGED <<status, fingers, predecessor, duty, nextFinger, callbacks, answer, lost,
                 late, repeated>>

\* LocalNode::handleLeave: drop the leaving node from the local view.
HandleLeave(n, m) ==
  /\ Arriving(n, m)
  /\ m.type = "LEAVE"
  /\ ~Expired(Hopped(m))
  /\ RemovePeer(n, m.src, {}, {m})
  /\ UNCHANGED <<status, duty, nextFinger, answer, lost, late>>

\* Faulty variants: any node named is adopted, one that was reset to the node
\* itself is never replaced.
AdoptsAnySuccessor(n, c, dst) == c.kind \in {"succ", "notify"}

AdoptsCloserSuccessor(n, c, dst) ==
  \/ c.kind = "succ"
  \/ c.kind = "notify" /\ RangeOpen(dst, n, successor(n))

\* The node a reply names becomes the successor.
AdoptsSuccessor(n, c, dst) ==
  \/ c.kind = "succ"
  \/ /\ c.kind = "notify"
     /\ successor(n) = n \/ RangeOpen(dst, n, successor(n))

\* The success callback of an open request.
OnSuccess(n, c, dst) ==
  /\ fingers' =
       IF AdoptsSuccessor(n, c, dst) THEN [fingers EXCEPT ![n][0] = dst]
       ELSE IF c.kind = "finger" THEN [fingers EXCEPT ![n][c.finger] = dst]
       ELSE fingers
  /\ answer' =
       IF c.kind = "lookup"
       THEN [answer EXCEPT ![n] = Answered(@, dst)] ELSE answer

\* LocalNode::handleReply: a reply whose request is no longer open is ignored.
HandleReply(n, m) ==
  /\ Arriving(n, m)
  /\ m.type = "REPLY"
  /\ ~Expired(Hopped(m))
  /\ net' = net \ {m}
  /\ \/ /\ \A c \in callbacks[n] : c.id # m.id
        /\ UNCHANGED <<fingers, callbacks, answer>>
     \/ \E c \in callbacks[n] :
          /\ c.id = m.id
          /\ OnSuccess(n, c, m.dst)
          /\ callbacks' = [callbacks EXCEPT ![n] = @ \ {c}]
  /\ UNCHANGED <<status, predecessor, duty, nextFinger, lost, late, repeated>>

Receive(n, m) ==
  \/ DropExpired(n, m)
  \/ HandleLookup(n, m)
  \/ HandleNotify(n, m)
  \/ HandleCheck(n, m)
  \/ HandleLeave(n, m)
  \/ HandleReply(n, m)

----------------------------------------------------------------------------
(***************************************************************************)
(* The program: joining, looking a key up, leaving.                        *)
(***************************************************************************)

\* LocalNode::join up to the blocking read: no callback, no time out.
Join(n, peer) ==
  /\ status[n] = "off"
  /\ peer \in Running
  /\ status' = [status EXCEPT ![n] = "joining"]
  /\ \E id \in ReqId :
       /\ GetNext(n, "join", id)
       /\ net' = net \cup Sent({NewRequest("LOOKUP", id, n, n, peer, DefaultTtl)})
  /\ UNCHANGED <<fingers, predecessor, duty, nextFinger, callbacks, answer, lost, late>>

\* LocalNode::join from the read on; the two threads start afterwards. The read
\* skips messages with another number, but none can come: nobody knows the node
\* yet. The request that asks the successor for files has no callback.
JoinReply(n) ==
  /\ status[n] = "joining"
  /\ \E m \in net :
       /\ m.to = n
       /\ m.type = "REPLY"
       /\ net' = net \ {m}
       /\ fingers' = [fingers EXCEPT ![n][0] = m.dst]
  /\ status' = [status EXCEPT ![n] = "up"]
  /\ UNCHANGED <<predecessor, duty, nextFinger, callbacks, answer, lost,
                 late, repeated>>

\* LocalNode::lookup, called by the command loop, which waits for the promise.
Lookup(n, key) ==
  LET hop == FindSuccessor(fingers[n], n, key)
  IN  /\ n \in Asker
      /\ status[n] = "up"
      /\ answer[n].state # "pending"
      /\ \/ /\ RangeOpenClosed(key, n, successor(n))
            /\ answer' = [answer EXCEPT ![n] =
                            [state |-> "set", key |-> key, peer |-> successor(n)]]
            /\ UNCHANGED <<callbacks, net, repeated>>
         \/ /\ ~RangeOpenClosed(key, n, successor(n))
            /\ answer' = [answer EXCEPT ![n] =
                            [state |-> "pending", key |-> key, peer |-> Nobody]]
            /\ \E id \in ReqId :
                 /\ GetNext(n, "lookup", id)
                 /\ Open(n, NewCallback(id, "lookup", hop, 0), {})
                 /\ net' = net \cup Sent({NewRequest("LOOKUP", id, n, key, hop, LookupTtl)})
      /\ UNCHANGED <<status, fingers, predecessor, duty, nextFinger, lost, late>>

\* LocalNode::leave: tell both neighbours. The threads run on until the
\* process exits.
Leave(n) ==
  /\ n \in MayLeave
  /\ status[n] = "up"
  /\ answer[n].state # "pending"
  /\ status' = [status EXCEPT ![n] = "leaving"]
  /\ net' = net \cup Sent({NewRequest("LEAVE", 0, n, Nobody, to, 0) :
                             to \in {successor(n), predecessor[n]}})
  /\ UNCHANGED <<fingers, predecessor, duty, nextFinger, callbacks, answer, lost,
                 late, repeated>>

----------------------------------------------------------------------------
(***************************************************************************)
(* The environment.                                                        *)
(***************************************************************************)

\* The process of n stops: its memory and what its socket would receive go.
Stop(n, how) ==
  /\ status' = [status EXCEPT ![n] = how]
  /\ fingers' = [fingers EXCEPT ![n] = [i \in Finger |-> n]]
  /\ predecessor' = [predecessor EXCEPT ![n] = n]
  /\ duty' = [duty EXCEPT ![n] = "stabilize"]
  /\ nextFinger' = [nextFinger EXCEPT ![n] = 1]
  /\ callbacks' = [callbacks EXCEPT ![n] = {}]
  /\ answer' = [answer EXCEPT ![n] = Unasked]
  /\ net' = {m \in net : m.to # n}
  /\ UNCHANGED <<lost, late, repeated>>

Exit(n) ==
  /\ status[n] = "leaving"
  /\ Stop(n, "left")

Crash(n) ==
  /\ n \in MayCrash
  /\ status[n] = "up"
  /\ Stop(n, "crashed")

Lose(m) ==
  /\ lost < MaxLoss
  /\ net' = net \ {m}
  /\ lost' = lost + 1
  /\ UNCHANGED <<status, fingers, predecessor, duty, nextFinger, callbacks, answer, late,
                 repeated>>

----------------------------------------------------------------------------
\* The finger tables of a ring that has settled; of a node on its own, all self,
\* as LocalNode::init leaves them.
SettledFingers ==
  [n \in Node |-> [i \in Finger |->
     IF n \notin Initial THEN n
     ELSE IF i = 0 THEN NextAfter(n, Initial)
     ELSE Owner(Start(n, i), Initial)]]

\* Tables that are out of date: each slot but the successor was never set, or
\* was set by a lookup when the ring had other members.
StaleTables(n) ==
  {t \in [Finger -> Initial] :
     /\ t[0] = NextAfter(n, Initial)
     /\ \A i \in Finger \ {0} : t[i] = n \/ Dist(n, t[i]) >= 2^i}

InitRest ==
  /\ status = [n \in Node |-> IF n \in Initial THEN "up" ELSE "off"]
  /\ predecessor = [n \in Node |->
                      IF n \in Initial THEN NextBefore(n, Initial) ELSE n]
  /\ duty = [n \in Node |-> "stabilize"]
  /\ nextFinger = [n \in Node |-> 1]
  /\ callbacks = [n \in Node |-> {}]
  /\ answer = [n \in Node |-> Unasked]
  /\ net = {}
  /\ lost = 0
  /\ late = 0
  /\ repeated = 0

Init == fingers = SettledFingers /\ InitRest

StaleInit ==
  /\ fingers \in {f \in [Node -> [Finger -> Initial]] :
                    \A n \in Node : f[n] \in StaleTables(n)}
  /\ InitRest

Updater(n) == Stabilize(n) \/ FixFingers(n) \/ CheckPredecessor(n)

CheckRequests(n) == ExpireRequest(n) \/ ExpireCheck(n)

Receiver(n) == \E m \in net : Receive(n, m)

Program(n) ==
  \/ \E peer \in Node : Join(n, peer)
  \/ JoinReply(n)
  \/ \E key \in Key : Lookup(n, key)
  \/ Leave(n)

Environment ==
  \/ \E n \in Node : Exit(n) \/ Crash(n)
  \/ \E m \in net : Lose(m)

Next ==
  \/ \E n \in Node : Updater(n) \/ CheckRequests(n) \/ Receiver(n) \/ Program(n)
  \/ Environment

Spec == Init /\ [][Next]_vars

\* The two threads of a running node go on, a message that is not lost arrives,
\* the process exits once the command loop has ended.
Fairness ==
  /\ \A n \in Node :
       /\ WF_vars(Updater(n)) /\ WF_vars(CheckRequests(n))
       /\ WF_vars(JoinReply(n)) /\ WF_vars(Exit(n))
  /\ \A src \in Node \cup {Nobody}, id \in ReqId \cup {0} :
       WF_vars(\E m \in net : /\ m.src = src /\ m.id = id
                              /\ Receive(m.to, m))

FairSpec == Spec /\ Fairness

StaleSpec == StaleInit /\ [][Next]_vars /\ Fairness

----------------------------------------------------------------------------
(***************************************************************************)
(* Safety.                                                                 *)
(***************************************************************************)

\* Every variable has its type, whatever numbers requests are given. A slot, or a
\* promise, may hold a NodeInfo that was never filled in: that is what the reply
\* to a CHECK names, should another request's callback take it.
TypeOK ==
  /\ status \in [Node -> {"off", "joining", "up", "leaving", "left", "crashed"}]
  /\ fingers \in [Node -> [Finger -> Peer]]
  /\ predecessor \in [Node -> Node]
  /\ duty \in [Node -> {"stabilize", "fixFingers", "checkPredecessor"}]
  /\ nextFinger \in [Node -> Finger \ {0}]
  /\ callbacks \in [Node -> SUBSET Callback]
  /\ answer \in [Node -> Promise]
  /\ net \subseteq Request
  /\ lost \in 0 .. MaxLoss
  /\ late \in 0 .. MaxLate
  /\ repeated \in 0 .. MaxRepeat

\* Lookups do not go round in circles, whatever the finger tables hold: each
\* hop of a LOOKUP brings it closer to its key (LocalNode::handleLookup).
LookupHopBound ==
  \A m \in net : m.type = "LOOKUP" => m.hop + Dist(m.to, m.dst) <= 2^Bits

\* What may be in flight under the number of an open request that no other uses:
\* the request, or a reply that names a node if the callback will use one.
Fits(c, m) ==
  \/ c.kind = "check" /\ m.type \in {"CHECK", "REPLY"} /\ m.dst = Nobody
  \/ c.kind = "notify" /\ m.type = "NOTIFY" /\ m.to = c.peer
  \/ c.kind \notin {"check", "notify"} /\ m.type = "LOOKUP"
  \/ c.kind # "check" /\ m.type = "REPLY" /\ m.dst \in Node

AnswersFit ==
  \A n \in Node : \A c \in callbacks[n], m \in net :
    m.src = n /\ m.id = c.id => Fits(c, m)

\* Every message is one a handler can serve: a reply goes back to its source and
\* names at most a node, a notification names its node, a check names nobody.
MessageFits(m) ==
  /\ m \in Request
  /\ m.type = "REPLY" => m.to = m.src /\ m.dst \in Peer
  /\ m.type = "NOTIFY" => m.src \in Node
  /\ m.type = "CHECK" => m.dst = Nobody

\* A node that has not started has nothing in flight; all that one still joining
\* has is its lookup or the reply.
OutsidersQuiet ==
  \A m \in net : m.src \in Node =>
    /\ status[m.src] # "off"
    /\ status[m.src] = "joining" => m.type \in {"LOOKUP", "REPLY"}

\* What holds as long as no number was drawn while it was in use, and may be lost
\* for good afterwards, for handleReply matches by number alone: answers answer
\* their requests, and whatever is taken for a node is one.
NodesNamed ==
  /\ AnswersFit
  /\ fingers \in [Node -> [Finger -> Node]]
  /\ \A m \in net :
       m.type = "REPLY" /\ m.src \in Node /\ status[m.src] = "joining" => m.dst \in Node

\* The inductive invariant: TypeOK and LookupHopBound need each other and the
\* rest, for a handler trusts what the messages it takes were sent with.
Inv ==
  /\ TypeOK
  /\ LookupHopBound
  /\ \A m \in net : MessageFits(m)
  /\ OutsidersQuiet
  /\ repeated = 0 => NodesNamed

\* The nodes met by following successors from n.
Walk(n) ==
  LET w[k \in 0 .. Cardinality(Node)] ==
        IF k = 0 THEN n ELSE successor(w[k - 1])
  IN  {w[k] : k \in 1 .. Cardinality(Node)}

OnRing == {n \in Running : n \in Walk(n)}

\* While nodes only join, there is always exactly one ring, and it visits its
\* nodes in the order of their identifiers (join, stabilize, handleNotify).
OneOrderedRing ==
  /\ OnRing # {}
  /\ \A n, m \in OnRing :
       /\ m \in Walk(n)
       /\ ~RangeOpen(m, n, successor(n))

Members == {n \in Node : status[n] = "up"}

\* A check nothing in flight can answer any more concerns a node that is down:
\* without losses, removePeer never runs for a node that works.
OnlyTheDeadAreSilent ==
  \A n \in Node : \A c \in callbacks[n] :
    c.kind = "check" /\ ~Answerable(n, c) => c.peer \notin Members

\* With finger tables in order a lookup is forwarded at most once per bit of
\* the identifier (findSuccessor takes the closest preceding finger).
LogHops ==
  \A m \in net : m.type = "LOOKUP" => m.hop < Bits

\* A lookup in a settled ring without losses finds its key: the promise is set
\* to a node ("@return future successor info", local_node.h:152).
LookupsFind ==
  \A n \in Asker : answer[n].state = "set" => answer[n].peer # Nobody

----------------------------------------------------------------------------
(***************************************************************************)
(* Liveness.                                                               *)
(***************************************************************************)

RingIdeal ==
  \A n \in Members :
    /\ successor(n) = NextAfter(n, Members)
    /\ predecessor[n] = NextBefore(n, Members)
    /\ \A i \in Finger \ {0} : fingers[n][i] = Owner(Start(n, i), Members)

\* Once nodes stop joining, leaving and crashing, every successor, predecessor
\* and finger becomes and stays right (stabilize, fixFingers, checkPredecessor,
\* removePeer).
RingSettles == <>[]RingIdeal

----------------------------------------------------------------------------
(***************************************************************************)
(* Lookups implement LookupService: in a settled ring with the owner of    *)
(* the key, in any ring with what a NodeInfo holds.                        *)
(***************************************************************************)

Exact == INSTANCE LookupService WITH
  answer <- [n \in Asker |-> answer[n]],
  Right <- [key \in Key |-> {Owner(key, Initial)}], NoKey <- 0

Loose == INSTANCE LookupService WITH
  answer <- [n \in Asker |-> answer[n]],
  Right <- [key \in Key |-> Peer], NoKey <- 0

\* In a ring whose successors are right a lookup is answered with the owner of
\* its key or not at all, however stale the fingers are, and it is answered.
LookupsExact == Exact!Spec

\* Whatever happens, a lookup's promise is set, and set once: a late reply does
\* not overwrite it.
LookupsOnce == Loose!Spec
============================================================================
