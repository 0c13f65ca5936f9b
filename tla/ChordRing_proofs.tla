-------------------------- MODULE ChordRing_proofs --------------------------
(***************************************************************************)
(* Theorems about ChordRing: its variables keep their types, and a lookup  *)
(* comes closer to its key with each hop, for every set of nodes, any      *)
(* number of losses, crashes, early time outs, departures and request      *)
(* numbers that come again, and whatever the finger tables hold.           *)
(* Inv is the inductive invariant; a lemma per action shows it preserved.  *)
(*                                                                         *)
(* The second part is about the ring as a whole: what nodes know of each   *)
(* other, what the silence of a peer means, and the one ordered ring that  *)
(* nodes joining leave in place.                                           *)
(***************************************************************************)
EXTENDS ChordRing, ChordId_proofs, FiniteSetTheorems

\* What the variables other than net hold.
StateOK ==
  /\ status \in [Node -> {"off", "joining", "up", "leaving", "left", "crashed"}]
  /\ fingers \in [Node -> [Finger -> Peer]]
  /\ repeated = 0 => fingers \in [Node -> [Finger -> Node]]
  /\ predecessor \in [Node -> Node]
  /\ duty \in [Node -> {"stabilize", "fixFingers", "checkPredecessor"}]
  /\ nextFinger \in [Node -> Finger \ {0}]
  /\ callbacks \in [Node -> SUBSET Callback]
  /\ answer \in [Node -> Promise]
  /\ lost \in 0 .. MaxLoss
  /\ late \in 0 .. MaxLate
  /\ repeated \in 0 .. MaxRepeat

\* A lookup and the hops it has left (LookupHopBound for one message).
Closer(m) == m.type = "LOOKUP" => m.hop + Dist(m.to, m.dst) <= 2^Bits

\* A message that may be put in flight.
Sendable(m) == MessageFits(m) /\ Closer(m)

\* A reply, if it is one, names a node.
Named(m) == m.type = "REPLY" => m.dst \in Node

\* What the newcomers may have in flight, as long as no number was drawn twice.
NewcomersNamed ==
  \A m \in net : m.src \in Node /\ status[m.src] = "joining" => Named(m)

\* What the messages in flight are like.
NetOK ==
  /\ \A m \in net : Sendable(m)
  /\ OutsidersQuiet
  /\ repeated = 0 => AnswersFit /\ NewcomersNamed

\* Inv, regrouped: the state of the nodes and the messages.
LEMMA InvParts == Inv <=> StateOK /\ NetOK
<1>1. (\A m \in net : MessageFits(m)) => net \subseteq Request
  BY DEF MessageFits
<1>2. LookupHopBound <=> \A m \in net : Closer(m)
  BY DEF LookupHopBound, Closer
<1>3. NodesNamed <=> /\ AnswersFit /\ NewcomersNamed
                     /\ fingers \in [Node -> [Finger -> Node]]
  BY DEF NodesNamed, NewcomersNamed, Named
<1> QED
  BY <1>1, <1>2, <1>3 DEF Inv, TypeOK, StateOK, NetOK, Sendable

\* The same after a step.
LEMMA InvPartsNext == Inv' <=> StateOK' /\ NetOK'
<1>1. (\A m \in net' : MessageFits(m)) => net' \subseteq Request
  BY DEF MessageFits
<1>2. LookupHopBound' <=> \A m \in net' : Closer(m)
  BY DEF LookupHopBound, Closer
<1>3. NodesNamed' <=> /\ AnswersFit' /\ NewcomersNamed'
                      /\ fingers' \in [Node -> [Finger -> Node]]
  BY DEF NodesNamed, NewcomersNamed, Named
<1> QED
  BY <1>1, <1>2, <1>3 DEF Inv, TypeOK, StateOK, NetOK, Sendable

----------------------------------------------------------------------------
(***************************************************************************)
(* Messages: what a step may do to net and callbacks.                      *)
(***************************************************************************)

\* The number of a new request is free, if none was ever drawn while it was in use.
LEMMA Drawn ==
  ASSUME StateOK, NEW n \in Node, NEW kind, NEW id, GetNext(n, kind, id)
  PROVE  /\ repeated' \in 0 .. MaxRepeat
         /\ repeated' = 0 => /\ repeated = 0
                             /\ \A c \in callbacks[n] : c.id # id
                             /\ \A m \in net : m.src = n => m.id # id
<1>1. CASE /\ id = CHOOSE i \in Ids[kind] \ InUse(n) : TRUE
           /\ Ids[kind] \ InUse(n) # {}
           /\ UNCHANGED repeated
  <2>1. id \notin InUse(n)
    BY <1>1
  <2> QED
    BY <1>1, <2>1 DEF InUse, StateOK
<1>2. CASE repeated < MaxRepeat /\ repeated' = repeated + 1
  BY <1>2, EnvironmentAssumption DEF StateOK
<1> QED
  BY <1>1, <1>2 DEF GetNext

\* What a request does to the table of requests.
LEMMA Opened ==
  ASSUME StateOK, NEW n \in Node, NEW c \in Callback, NEW gone, Open(n, c, gone)
  PROVE  /\ callbacks' \in [Node -> SUBSET Callback]
         /\ \A k \in Node :
              callbacks'[k] \subseteq callbacks[k] \cup (IF k = n THEN {c} ELSE {})
         /\ callbacks'[n] \subseteq (callbacks[n] \cup {c}) \ gone
BY DEF StateOK, Open

\* Request numbers are positive; 0 marks a request that expects no reply.
LEMMA ReqIdPositive == ReqId \subseteq Nat \ {0}
BY RequestAssumption DEF ReqId

\* A step that sends nothing and opens no request.
LEMMA SilentStep ==
  ASSUME Inv,
         \A n \in Node : status'[n] \in {"off", "joining"} => status'[n] = status[n],
         net' \subseteq net, repeated' = repeated,
         \A n \in Node : callbacks'[n] \subseteq callbacks[n]
  PROVE  NetOK'
<1>0. NetOK
  BY InvParts
<1>1. \A m \in net' : Sendable(m)
  BY <1>0 DEF NetOK
<1>2. repeated' = 0 => AnswersFit'
  BY <1>0 DEF AnswersFit, NetOK
<1>3. OutsidersQuiet' /\ (repeated' = 0 => NewcomersNamed')
  <2> SUFFICES ASSUME NEW m \in net', m.src \in Node
               PROVE  /\ status'[m.src] # "off"
                      /\ status'[m.src] = "joining" =>
                           /\ m.type \in {"LOOKUP", "REPLY"}
                           /\ repeated = 0 => Named(m)
    BY DEF OutsidersQuiet, NewcomersNamed
  <2>1. m \in net
    OBVIOUS
  <2>2. /\ status[m.src] # "off"
        /\ status[m.src] = "joining" => /\ m.type \in {"LOOKUP", "REPLY"}
                                        /\ repeated = 0 => Named(m)
    BY <1>0, <2>1 DEF OutsidersQuiet, NewcomersNamed, NetOK
  <2> QED
    BY <2>2
<1> QED
  BY <1>1, <1>2, <1>3 DEF NetOK

\* A socket write puts nothing else in flight, and nothing that goes nowhere.
LEMMA SentSubset ==
  /\ \A ms : Sent(ms) \subseteq ms
  /\ \A ms : \A m \in Sent(ms) : m.to \in Node
BY DEF Sent

\* A running node opens a request and sends a message: the request itself, or the
\* recovery lookup, which has no source.
LEMMA AskStep ==
  ASSUME Inv, NEW n \in Node, NEW kind, NEW id, GetNext(n, kind, id),
         status[n] \notin {"off", "joining"}, status' = status,
         NEW q, q.to \in Node => Sendable(q), NEW c, c.id = id,
         \/ q.src = n /\ q.id = id /\ Fits(c, q)
         \/ q.src = Nobody,
         net' \subseteq net \cup Sent({q}),
         \A k \in Node :
           callbacks'[k] \subseteq callbacks[k] \cup (IF k = n THEN {c} ELSE {})
  PROVE  NetOK'
<1>0. Nobody \notin Node /\ StateOK /\ NetOK
  BY NodeAssumption, InvParts
<1>1. \A m \in net' \ net : m = q /\ m.to \in Node
  BY SentSubset
<1>2. \A m \in net' : Sendable(m)
  BY <1>0, <1>1 DEF NetOK
<1>3. ASSUME repeated' = 0
      PROVE  AnswersFit' /\ NewcomersNamed'
  <2>0. /\ repeated = 0 /\ AnswersFit /\ NewcomersNamed
        /\ \A d \in callbacks[n] : d.id # id
        /\ \A m \in net : m.src = n => m.id # id
    BY <1>0, <1>3, Drawn DEF NetOK
  <2>1. AnswersFit'
    <3> SUFFICES ASSUME NEW k \in Node, NEW d \in callbacks'[k], NEW m \in net',
                        m.src = k, m.id = d.id
                 PROVE  Fits(d, m)
      BY DEF AnswersFit
    <3>1. CASE m \in net /\ d \in callbacks[k]
      BY <2>0, <3>1 DEF AnswersFit
    <3>2. CASE m \in net /\ d \notin callbacks[k]
      <4>1. k = n /\ d = c
        BY <3>2
      <4> QED
        BY <2>0, <3>2, <4>1
    <3>3. CASE m \notin net
      <4>1. m = q /\ k = n /\ m.id = id /\ Fits(c, m)
        BY <1>0, <1>1, <3>3
      <4>2. d = c
        BY <2>0, <4>1
      <4> QED
        BY <4>1, <4>2
    <3> QED
      BY <3>1, <3>2, <3>3
  <2>2. NewcomersNamed'
    BY <1>0, <1>1, <2>0 DEF NewcomersNamed
  <2> QED
    BY <2>1, <2>2
<1>4. OutsidersQuiet'
  BY <1>0, <1>1 DEF OutsidersQuiet, NetOK
<1> QED
  BY <1>2, <1>3, <1>4 DEF NetOK

\* A message is taken and another put in its place that carries the same source
\* and number and fits wherever the first one did.
LEMMA ServeStep ==
  ASSUME Inv, NEW m \in net, NEW out, out.to \in Node => Sendable(out),
         out.src = m.src, out.id = m.id,
         repeated = 0 => \A c : Fits(c, m) => Fits(c, out),
         m.type \in {"LOOKUP", "REPLY"} => out.type \in {"LOOKUP", "REPLY"},
         repeated = 0 /\ m.type = "LOOKUP" => Named(out),
         repeated = 0 /\ m.type = "REPLY" /\ Named(m) => Named(out),
         net' \subseteq net \cup Sent({out}),
         callbacks' = callbacks, status' = status, repeated' = repeated
  PROVE  NetOK'
<1>0. NetOK
  BY InvParts
<1>1. \A x \in net' \ net : x = out /\ x.to \in Node
  BY SentSubset
<1>2. \A x \in net' : Sendable(x)
  BY <1>0, <1>1 DEF NetOK
<1>3. OutsidersQuiet'
  BY <1>0, <1>1 DEF OutsidersQuiet, NetOK
<1>4. ASSUME repeated = 0
      PROVE  AnswersFit'
  <2> SUFFICES ASSUME NEW k \in Node, NEW d \in callbacks[k], NEW x \in net',
                      x.src = k, x.id = d.id
               PROVE  Fits(d, x)
    BY DEF AnswersFit
  <2>0. AnswersFit
    BY <1>0, <1>4 DEF NetOK
  <2>1. CASE x \in net
    BY <2>0, <2>1 DEF AnswersFit
  <2>2. CASE x = out
    <3>1. Fits(d, m)
      BY <2>0, <2>2 DEF AnswersFit
    <3> QED
      BY <1>4, <3>1, <2>2
  <2> QED
    BY <1>1, <2>1, <2>2
<1>5. ASSUME repeated = 0
      PROVE  NewcomersNamed'
  <2> SUFFICES ASSUME NEW x \in net', x.src \in Node, status[x.src] = "joining"
               PROVE  Named(x)
    BY DEF NewcomersNamed
  <2>0. NewcomersNamed /\ OutsidersQuiet
    BY <1>0, <1>5 DEF NetOK
  <2>1. CASE x \in net
    BY <2>0, <2>1 DEF NewcomersNamed
  <2>2. CASE x = out
    <3>1. Named(m) /\ m.type \in {"LOOKUP", "REPLY"}
      BY <2>0, <2>2 DEF NewcomersNamed, OutsidersQuiet
    <3> QED
      BY <1>5, <3>1, <2>2
  <2> QED
    BY <1>1, <2>1, <2>2
<1> QED
  BY <1>2, <1>3, <1>4, <1>5 DEF NetOK

----------------------------------------------------------------------------
(***************************************************************************)
(* What the program builds.                                                *)
(***************************************************************************)

\* The slots and the successor of a node are nodes, hence identifiers.
LEMMA Neighbours ==
  ASSUME StateOK, NEW n \in Node
  PROVE  /\ 0 \in Finger /\ Node \subseteq Id /\ Peer \subseteq Id /\ Node \subseteq Peer
         /\ fingers[n] \in [Finger -> Peer] /\ fingers[n] \in [Finger -> Id]
         /\ successor(n) \in Peer /\ predecessor[n] \in Node
         /\ repeated = 0 => /\ fingers[n] \in [Finger -> Node]
                            /\ successor(n) \in Node
<1>1. 0 \in Finger
  BY WidthAssumption DEF Finger
<1>2. Node \subseteq Id /\ Peer \subseteq Id /\ Node \subseteq Peer
  BY NodeAssumption DEF Peer
<1>3. /\ fingers[n] \in [Finger -> Peer] /\ predecessor[n] \in Node
      /\ repeated = 0 => fingers[n] \in [Finger -> Node]
  BY DEF StateOK
<1>4. fingers[n] \in [Finger -> Id]
  BY <1>2, <1>3
<1> QED
  BY <1>1, <1>2, <1>3, <1>4 DEF successor

\* A request of makeRequest that asks for an identifier or names its node may be
\* put in flight, if it goes to a node.
LEMMA NewRequestSendable ==
  ASSUME NEW type \in {"LOOKUP", "NOTIFY", "LEAVE", "CHECK"},
         NEW id \in ReqId \cup {0}, NEW src \in Peer,
         NEW dst \in Id, NEW to \in Node, NEW ttl \in Nat,
         type = "NOTIFY" => src \in Node,
         type = "CHECK" => dst = Nobody
  PROVE  Sendable(NewRequest(type, id, src, dst, to, ttl))
<1> DEFINE q == NewRequest(type, id, src, dst, to, ttl)
<1>1. MessageFits(q)
  BY DEF NewRequest, MessageFits, Request
<1>2. 0 + Dist(to, dst) <= 2^Bits
  <2>1. to \in Id /\ dst \in Id
    BY NodeAssumption
  <2>2. Dist(to, dst) \in 1 .. 2^Bits /\ 2^Bits \in Nat
    BY <2>1, DistRange, WidthAssumption
  <2> QED
    BY <2>2
<1>3. Closer(q)
  BY <1>2 DEF NewRequest, Closer
<1> QED
  BY <1>1, <1>3 DEF Sendable

\* The callbacks makeRequest inserts have their type.
LEMMA NewCallbackType ==
  ASSUME NEW id \in ReqId, NEW kind \in Kind, NEW peer \in Peer, NEW finger \in Finger
  PROVE  /\ NewCallback(id, kind, peer, finger) \in Callback
         /\ NewCallback(id, kind, peer, finger).id = id
         /\ NewCallback(id, kind, peer, finger).kind = kind
         /\ NewCallback(id, kind, peer, finger).peer = peer
BY DEF NewCallback, Callback

\* A check and its callback: what is sent fits.
LEMMA CheckRequestSendable ==
  ASSUME NEW n \in Node, NEW id \in ReqId, NEW peer \in Peer
  PROVE  /\ CheckRequest(n, id, peer).to \in Node => Sendable(CheckRequest(n, id, peer))
         /\ CheckRequest(n, id, peer).src = n
         /\ CheckRequest(n, id, peer).id = id
         /\ Fits(NewCallback(id, "check", peer, 0), CheckRequest(n, id, peer))
<1>1. DefaultTtl \in Nat /\ Nobody \in Id /\ n \in Peer
  BY RequestAssumption, NodeAssumption DEF Peer
<1>2. CheckRequest(n, id, peer).to = peer
  BY DEF CheckRequest, NewRequest
<1>3. ASSUME peer \in Node
      PROVE  Sendable(CheckRequest(n, id, peer))
  BY <1>1, <1>3, NewRequestSendable DEF CheckRequest
<1> QED
  BY <1>2, <1>3 DEF CheckRequest, NewRequest, NewCallback, Fits

----------------------------------------------------------------------------
(***************************************************************************)
(* The updater thread.                                                     *)
(***************************************************************************)

\* stabilize: the notification names its source and goes to its callback's peer.
LEMMA StabilizeInv ==
  ASSUME Inv, NEW n \in Node, Stabilize(n)
  PROVE  Inv'
<1>0. PICK id \in ReqId :
        /\ GetNext(n, "notify", id)
        /\ Open(n, NewCallback(id, "notify", successor(n), 0), {})
        /\ net' = net \cup Sent({NewRequest("NOTIFY", id, n, Nobody, successor(n), DefaultTtl)})
  BY DEF Stabilize
<1> DEFINE c == NewCallback(id, "notify", successor(n), 0)
           q == NewRequest("NOTIFY", id, n, Nobody, successor(n), DefaultTtl)
<1>1. StateOK /\ "notify" \in Kind /\ n \in Running
  BY InvParts DEF Stabilize, Kind, OnDuty
<1>2. successor(n) \in Peer /\ 0 \in Finger /\ n \in Peer /\ Nobody \in Id
  BY <1>1, Neighbours, NodeAssumption
<1>3. c \in Callback /\ c.id = id /\ c.kind = "notify" /\ c.peer = successor(n)
  BY <1>1, <1>2, NewCallbackType
<1>4. ASSUME successor(n) \in Node PROVE Sendable(q)
  BY <1>2, <1>4, NewRequestSendable, RequestAssumption
<1>5. q.src = n /\ q.id = id /\ q.type = "NOTIFY" /\ q.to = successor(n)
  BY DEF NewRequest
<1>6. Open(n, c, {}) /\ net' = net \cup Sent({q})
  BY <1>0
<1> HIDE DEF c, q
<1>7. StateOK'
  <2>1. callbacks' \in [Node -> SUBSET Callback]
    BY <1>1, <1>3, <1>6, Opened
  <2>2. repeated' \in 0 .. MaxRepeat /\ (repeated' = 0 => repeated = 0)
    BY <1>0, <1>1, Drawn
  <2> QED
    BY <1>1, <2>1, <2>2 DEF StateOK, Stabilize, OnDuty
<1>8. NetOK'
  <2>1. \A k \in Node :
          callbacks'[k] \subseteq callbacks[k] \cup (IF k = n THEN {c} ELSE {})
    BY <1>1, <1>3, <1>6, Opened
  <2>2. status[n] \notin {"off", "joining"} /\ status' = status
    BY <1>1 DEF Running, Stabilize
  <2>3. Fits(c, q)
    BY <1>3, <1>5 DEF Fits
  <2> QED
    BY <1>0, <1>3, <1>4, <1>5, <1>6, <2>1, <2>2, <2>3, AskStep
<1> QED
  BY <1>7, <1>8, InvPartsNext

\* checkPredecessor: the check names no operand.
LEMMA CheckPredecessorInv ==
  ASSUME Inv, NEW n \in Node, CheckPredecessor(n)
  PROVE  Inv'
<1>0. PICK id \in ReqId :
        /\ GetNext(n, "check", id)
        /\ Open(n, NewCallback(id, "check", predecessor[n], 0), {})
        /\ net' = net \cup Sent({CheckRequest(n, id, predecessor[n])})
  BY DEF CheckPredecessor
<1> DEFINE c == NewCallback(id, "check", predecessor[n], 0)
           q == CheckRequest(n, id, predecessor[n])
<1>1. StateOK /\ "check" \in Kind /\ n \in Running
  BY InvParts DEF CheckPredecessor, Kind, OnDuty
<1>2. predecessor[n] \in Peer /\ 0 \in Finger
  BY <1>1, Neighbours
<1>3. c \in Callback /\ c.id = id
  BY <1>1, <1>2, NewCallbackType
<1>4. (q.to \in Node => Sendable(q)) /\ q.src = n /\ q.id = id /\ Fits(c, q)
  BY <1>1, <1>2, CheckRequestSendable
<1>5. Open(n, c, {}) /\ net' = net \cup Sent({q})
  BY <1>0
<1> HIDE DEF c, q
<1>6. StateOK'
  <2>1. callbacks' \in [Node -> SUBSET Callback]
    BY <1>1, <1>3, <1>5, Opened
  <2>2. repeated' \in 0 .. MaxRepeat /\ (repeated' = 0 => repeated = 0)
    BY <1>0, <1>1, Drawn
  <2> QED
    BY <1>1, <2>1, <2>2 DEF StateOK, CheckPredecessor, OnDuty
<1>7. NetOK'
  <2>1. \A k \in Node :
          callbacks'[k] \subseteq callbacks[k] \cup (IF k = n THEN {c} ELSE {})
    BY <1>1, <1>3, <1>5, Opened
  <2>2. status[n] \notin {"off", "joining"} /\ status' = status
    BY <1>1 DEF Running, CheckPredecessor
  <2> QED
    BY <1>0, <1>3, <1>4, <1>5, <2>1, <2>2, AskStep
<1> QED
  BY <1>6, <1>7, InvPartsNext

\* The key fixFingers looks up, and the slot it refreshes next.
LEMMA SlotTypes ==
  ASSUME StateOK, NEW n \in Node
  PROVE  /\ nextFinger[n] \in Finger
         /\ Start(n, nextFinger[n]) \in Id
         /\ NextSlot(nextFinger[n]) \in Finger \ {0}
<1>1. nextFinger[n] \in Finger \ {0} /\ Bits \in Nat \ {0, 1}
  BY WidthAssumption DEF StateOK
<1>2. nextFinger[n] \in 0 .. Bits /\ n \in Id
  BY <1>1, NodeAssumption DEF Finger
<1>3. Start(n, nextFinger[n]) \in Id
  BY <1>2, IdArithmetic DEF Start
<1>4. NextSlot(nextFinger[n]) \in Finger \ {0}
  BY <1>1 DEF NextSlot, Finger
<1> QED
  BY <1>1, <1>3, <1>4

\* fixFingers: the lookup asks for an identifier and starts a full turn away.
LEMMA FixFingersInv ==
  ASSUME Inv, NEW n \in Node, FixFingers(n)
  PROVE  Inv'
<1> DEFINE i   == nextFinger[n]
           key == Start(n, i)
           hop == FindSuccessor(fingers[n], n, key)
<1>1. StateOK /\ "finger" \in Kind /\ n \in Running /\ status' = status
  BY InvParts DEF FixFingers, Kind, OnDuty
<1>2. i \in Finger /\ key \in Id /\ NextSlot(i) \in Finger \ {0}
  BY <1>1, SlotTypes
<1>3. /\ fingers[n] \in [Finger -> Peer] /\ successor(n) \in Peer /\ n \in Peer
      /\ repeated = 0 => successor(n) \in Node
  BY <1>1, Neighbours
<1>4. /\ nextFinger' \in [Node -> Finger \ {0}]
      /\ duty' \in [Node -> {"stabilize", "fixFingers", "checkPredecessor"}]
      /\ UNCHANGED <<status, predecessor, answer, lost, late>>
  BY <1>1, <1>2 DEF FixFingers, OnDuty, StateOK
<1>5. CASE /\ fingers' = [fingers EXCEPT ![n][i] = successor(n)]
           /\ UNCHANGED <<callbacks, net, repeated>>
  <2>1. StateOK'
    <3>1. /\ fingers' \in [Node -> [Finger -> Peer]]
          /\ repeated = 0 => fingers' \in [Node -> [Finger -> Node]]
      BY <1>1, <1>2, <1>3, <1>5 DEF StateOK
    <3> QED
      BY <1>1, <1>4, <1>5, <3>1 DEF StateOK
  <2>2. NetOK'
    BY <1>1, <1>5, SilentStep
  <2> QED
    BY <2>1, <2>2, InvPartsNext
<1>6. ASSUME NEW id \in ReqId, GetNext(n, "finger", id),
             Open(n, NewCallback(id, "finger", hop, i), {}),
             net' = net \cup Sent({NewRequest("LOOKUP", id, n, key, hop, DefaultTtl)}),
             UNCHANGED fingers
      PROVE  Inv'
  <2> DEFINE c == NewCallback(id, "finger", hop, i)
             q == NewRequest("LOOKUP", id, n, key, hop, DefaultTtl)
  <2>1. hop \in Peer
    BY <1>3, NextHopType
  <2>2. c \in Callback /\ c.id = id /\ c.kind = "finger"
    BY <1>1, <1>2, <2>1, NewCallbackType
  <2>3. ASSUME hop \in Node PROVE Sendable(q)
    BY <1>2, <1>3, <2>3, NewRequestSendable, RequestAssumption
  <2>4. q.src = n /\ q.id = id /\ q.type = "LOOKUP" /\ q.to = hop
    BY DEF NewRequest
  <2>5. Open(n, c, {}) /\ net' = net \cup Sent({q})
    BY <1>6
  <2> HIDE DEF c, q
  <2>6. StateOK'
    <3>1. callbacks' \in [Node -> SUBSET Callback]
      BY <1>1, <2>2, <2>5, Opened
    <3>2. repeated' \in 0 .. MaxRepeat /\ (repeated' = 0 => repeated = 0)
      BY <1>1, <1>6, Drawn
    <3> QED
      BY <1>1, <1>4, <1>6, <3>1, <3>2 DEF StateOK
  <2>7. NetOK'
    <3>1. \A k \in Node :
            callbacks'[k] \subseteq callbacks[k] \cup (IF k = n THEN {c} ELSE {})
      BY <1>1, <2>2, <2>5, Opened
    <3>2. status[n] \notin {"off", "joining"}
      BY <1>1 DEF Running
    <3>3. Fits(c, q)
      BY <2>2, <2>4 DEF Fits
    <3>4. q.to \in Node => Sendable(q)
      BY <2>3, <2>4
    <3> QED
      BY <1>1, <1>6, <2>2, <2>4, <2>5, <3>1, <3>2, <3>3, <3>4, AskStep
  <2> QED
    BY <2>6, <2>7, InvPartsNext
<1> QED
  BY <1>5, <1>6 DEF FixFingers

----------------------------------------------------------------------------
(***************************************************************************)
(* Requests that expire, and the removal of a peer.                        *)
(***************************************************************************)

\* However a request times out, the bound on early time outs is kept.
LEMMA TimeOutBound ==
  ASSUME StateOK, NEW n, NEW c, TimeOut(n, c)
  PROVE  late' \in 0 .. MaxLate
BY EnvironmentAssumption DEF StateOK, TimeOut

\* checkRequests, a request other than a check.
LEMMA ExpireRequestInv ==
  ASSUME Inv, NEW n \in Node, ExpireRequest(n)
  PROVE  Inv'
<1>1. PICK e \in callbacks[n], id \in ReqId :
        /\ e.kind # "check"
        /\ TimeOut(n, e)
        /\ GetNext(n, "check", id)
        /\ Open(n, NewCallback(id, "check", e.peer, 0), {e})
        /\ net' = net \cup Sent({CheckRequest(n, id, e.peer)})
        /\ answer' = GiveUp(n, e)
  BY DEF ExpireRequest
<1> DEFINE c == NewCallback(id, "check", e.peer, 0)
           q == CheckRequest(n, id, e.peer)
<1>2. /\ StateOK /\ "check" \in Kind /\ n \in Running
      /\ UNCHANGED <<status, fingers, predecessor, duty, nextFinger, lost>>
  BY InvParts DEF ExpireRequest, Kind
<1>3. e.peer \in Peer /\ 0 \in Finger
  <2>1. e \in Callback
    BY <1>2 DEF StateOK
  <2> QED
    BY <1>2, <2>1, Neighbours DEF Callback
<1>4. c \in Callback /\ c.id = id
  BY <1>2, <1>3, NewCallbackType
<1>5. (q.to \in Node => Sendable(q)) /\ q.src = n /\ q.id = id /\ Fits(c, q)
  BY <1>2, <1>3, CheckRequestSendable
<1>6. Open(n, c, {e}) /\ net' = net \cup Sent({q})
  BY <1>1
<1> HIDE DEF c, q
<1>7. StateOK'
  <2>1. callbacks' \in [Node -> SUBSET Callback]
    BY <1>2, <1>4, <1>6, Opened
  <2>2. late' \in 0 .. MaxLate
    BY <1>1, <1>2, TimeOutBound
  <2>3. answer' \in [Node -> Promise]
    BY <1>1, <1>2 DEF GiveUp, Answered, StateOK, Promise, Peer
  <2>4. repeated' \in 0 .. MaxRepeat /\ (repeated' = 0 => repeated = 0)
    BY <1>1, <1>2, Drawn
  <2> QED
    BY <1>2, <2>1, <2>2, <2>3, <2>4 DEF StateOK
<1>8. NetOK'
  <2>1. \A k \in Node :
          callbacks'[k] \subseteq callbacks[k] \cup (IF k = n THEN {c} ELSE {})
    BY <1>2, <1>4, <1>6, Opened
  <2>2. status[n] \notin {"off", "joining"} /\ status' = status
    BY <1>2 DEF Running
  <2>3. GetNext(n, "check", id) /\ net' \subseteq net \cup Sent({q}) /\ c.id = id
    BY <1>1, <1>4, <1>6
  <2> QED
    BY <1>5, <2>1, <2>2, <2>3, AskStep
<1> QED
  BY <1>7, <1>8, InvPartsNext

\* removePeer, called with some callback gone and some message taken.
LEMMA RemovePeerInv ==
  ASSUME Inv, NEW n \in Running, NEW peer, NEW gone, NEW taken,
         RemovePeer(n, peer, gone, taken),
         late' \in 0 .. MaxLate,
         UNCHANGED <<status, duty, nextFinger, answer, lost>>
  PROVE  Inv'
<1> DEFINE pred == IF peer = predecessor[n] THEN n ELSE predecessor[n]
<1>1. n \in Node /\ status[n] \notin {"off", "joining"} /\ StateOK /\ "succ" \in Kind
  BY InvParts DEF Running, Kind
<1>2. /\ pred \in Node /\ pred \in Peer /\ 0 \in Finger /\ n \in Id
      /\ fingers[n] \in [Finger -> Peer]
      /\ repeated = 0 => fingers[n] \in [Finger -> Node]
  BY <1>1, Neighbours
<1>3. fingers' = [fingers EXCEPT ![n] = ResetSlots(n, peer)]
      /\ predecessor' = [predecessor EXCEPT ![n] = pred]
  BY DEF RemovePeer
<1>4. /\ fingers' \in [Node -> [Finger -> Peer]] /\ predecessor' \in [Node -> Node]
      /\ repeated = 0 => fingers' \in [Node -> [Finger -> Node]]
  <2>1. /\ ResetSlots(n, peer) \in [Finger -> Peer]
        /\ repeated = 0 => ResetSlots(n, peer) \in [Finger -> Node]
    BY <1>1, <1>2 DEF ResetSlots, Peer
  <2> HIDE DEF pred
  <2> QED
    BY <1>1, <1>2, <1>3, <2>1 DEF StateOK
<1>5. ASSUME NEW id \in ReqId, GetNext(n, "succ", id),
             Open(n, NewCallback(id, "succ", pred, 0), gone),
             net' = (net \ taken) \cup Sent({RecoveryRequest(n, id, pred)})
      PROVE  Inv'
  <2> DEFINE c == NewCallback(id, "succ", pred, 0)
             q == RecoveryRequest(n, id, pred)
  <2>1. c \in Callback /\ c.id = id
    BY <1>1, <1>2, NewCallbackType
  <2>2. Sendable(q) /\ q.src = Nobody
    <3>1. Plus(n, 1) \in Id /\ Nobody \in Peer
      BY <1>2, PlusOneInId DEF Peer
    <3>2. Sendable(q)
      BY <1>2, <3>1, NewRequestSendable, RequestAssumption DEF RecoveryRequest
    <3> QED
      BY <3>2 DEF RecoveryRequest, NewRequest
  <2>3. Open(n, c, gone) /\ net' \subseteq net \cup Sent({q})
    BY <1>5
  <2> HIDE DEF c, q
  <2>4. StateOK'
    <3>1. callbacks' \in [Node -> SUBSET Callback]
      BY <1>1, <2>1, <2>3, Opened
    <3>2. repeated' \in 0 .. MaxRepeat /\ (repeated' = 0 => repeated = 0)
      BY <1>1, <1>5, Drawn
    <3> QED
      BY <1>1, <1>4, <3>1, <3>2 DEF StateOK
  <2>5. NetOK'
    <3>1. \A k \in Node :
            callbacks'[k] \subseteq callbacks[k] \cup (IF k = n THEN {c} ELSE {})
      BY <1>1, <2>1, <2>3, Opened
    <3> QED
      BY <1>1, <1>5, <2>1, <2>2, <2>3, <3>1, AskStep
  <2> QED
    BY <2>4, <2>5, InvPartsNext
<1>6. CASE /\ callbacks' = [callbacks EXCEPT ![n] = @ \ gone]
           /\ net' = net \ taken
           /\ UNCHANGED repeated
  <2>1. StateOK'
    <3>1. callbacks' \in [Node -> SUBSET Callback]
      BY <1>1, <1>6 DEF StateOK
    <3> QED
      BY <1>1, <1>4, <1>6, <3>1 DEF StateOK
  <2>2. NetOK'
    <3>1. \A k \in Node : callbacks'[k] \subseteq callbacks[k]
      BY <1>1, <1>6 DEF StateOK
    <3> QED
      BY <1>6, <3>1, SilentStep
  <2> QED
    BY <2>1, <2>2, InvPartsNext
<1> QED
  BY <1>5, <1>6 DEF RemovePeer

\* checkRequests, a check: its peer is removed.
LEMMA ExpireCheckInv ==
  ASSUME Inv, NEW n \in Node, ExpireCheck(n)
  PROVE  Inv'
<1>1. PICK e \in callbacks[n] : TimeOut(n, e) /\ RemovePeer(n, e.peer, {e}, {})
  BY DEF ExpireCheck
<1>2. n \in Running /\ UNCHANGED <<status, duty, nextFinger, answer, lost>>
  BY DEF ExpireCheck
<1>3. late' \in 0 .. MaxLate
  BY <1>1, InvParts, TimeOutBound
<1> QED
  BY <1>1, <1>2, <1>3, RemovePeerInv

----------------------------------------------------------------------------
(***************************************************************************)
(* The receiver thread.                                                    *)
(***************************************************************************)

\* A datagram counted by its reader is as good as before, but for a lookup.
LEMMA HoppedFits ==
  ASSUME NEW m, MessageFits(m)
  PROVE  /\ Hopped(m) = [type |-> m.type, id |-> m.id, src |-> m.src, dst |-> m.dst,
                          to |-> m.to, ttl |-> m.ttl, hop |-> m.hop + 1]
         /\ MessageFits(Hopped(m))
BY DEF MessageFits, Request, Hopped

\* An expired request is dropped.
LEMMA DropExpiredInv ==
  ASSUME Inv, NEW n \in Node, NEW m, DropExpired(n, m)
  PROVE  Inv'
<1>1. StateOK /\ StateOK'
  BY InvParts DEF StateOK, DropExpired
<1>2. NetOK'
  BY SilentStep DEF DropExpired
<1> QED
  BY <1>1, <1>2, InvPartsNext

\* A request turned into its reply.
LEMMA ReplyRecord ==
  ASSUME NEW m, MessageFits(m), NEW dst
  PROVE  ReplyTo(m, dst) = [type |-> "REPLY", id |-> m.id, src |-> m.src, dst |-> dst,
                            to |-> m.src, ttl |-> m.ttl, hop |-> m.hop]
<1> DEFINE r1 == [m EXCEPT !.type = "REPLY"]
           r2 == [r1 EXCEPT !.to = m.src]
           r3 == [r2 EXCEPT !.dst = dst]
<1>0. m \in Request
  BY DEF MessageFits
<1>1. r1 = [type |-> "REPLY", id |-> m.id, src |-> m.src, dst |-> m.dst,
            to |-> m.to, ttl |-> m.ttl, hop |-> m.hop]
  BY <1>0 DEF Request
<1>2. r2 = [type |-> "REPLY", id |-> m.id, src |-> m.src, dst |-> m.dst,
            to |-> m.src, ttl |-> m.ttl, hop |-> m.hop]
  <2> HIDE DEF r1
  <2> QED
    BY <1>1
<1>3. r3 = [type |-> "REPLY", id |-> m.id, src |-> m.src, dst |-> dst,
            to |-> m.src, ttl |-> m.ttl, hop |-> m.hop]
  <2> HIDE DEF r2
  <2> QED
    BY <1>2
<1>4. ReplyTo(m, dst) = r3
  BY DEF ReplyTo
<1> HIDE DEF r3
<1> QED
  BY <1>3, <1>4

\* The same with the hops counted anew.
LEMMA ResetReplyRecord ==
  ASSUME NEW m, MessageFits(m), NEW dst
  PROVE  [ReplyTo(m, dst) EXCEPT !.hop = 0] =
           [type |-> "REPLY", id |-> m.id, src |-> m.src, dst |-> dst,
            to |-> m.src, ttl |-> m.ttl, hop |-> 0]
BY ReplyRecord

\* A handler that sends a reply and leaves the requests it has open alone.
LEMMA ReplyStep ==
  ASSUME Inv, NEW m \in net, NEW dst \in Peer, NEW hop \in Nat, NEW out,
         out = [type |-> "REPLY", id |-> m.id, src |-> m.src, dst |-> dst,
                to |-> m.src, ttl |-> m.ttl, hop |-> hop],
         \/ m.type = "CHECK" /\ dst = m.dst
         \/ m.type \in {"LOOKUP", "NOTIFY"} /\ (repeated = 0 => dst \in Node),
         net' \subseteq net \cup Sent({out}),
         callbacks' = callbacks, status' = status, repeated' = repeated
  PROVE  NetOK'
<1>1. MessageFits(m)
  BY InvParts DEF Sendable, NetOK
<1>2. out.to \in Node => Sendable(out)
  BY <1>1, NodeAssumption DEF MessageFits, Request, Sendable, Closer, Peer
<1>3. repeated = 0 => \A c : Fits(c, m) => Fits(c, out)
  BY DEF Fits
<1>4. /\ repeated = 0 /\ m.type = "LOOKUP" => Named(out)
      /\ m.type # "REPLY"
  BY DEF Named
<1>5. out.src = m.src /\ out.id = m.id /\ out.type = "REPLY"
  OBVIOUS
<1> QED
  BY <1>2, <1>3, <1>4, <1>5, ServeStep

\* What the reader of a datagram makes of it fits wherever the datagram did.
LEMMA HoppedSame ==
  ASSUME NEW m, MessageFits(m)
  PROVE  /\ MessageFits(Hopped(m))
         /\ Hopped(m).type = m.type /\ Hopped(m).id = m.id /\ Hopped(m).src = m.src
         /\ Hopped(m).dst = m.dst /\ Hopped(m).ttl = m.ttl
         /\ Hopped(m).hop = m.hop + 1 /\ Hopped(m).to = m.to
BY HoppedFits

\* What a handler may rely on.
LEMMA Served ==
  ASSUME Inv, NEW n \in Node, NEW m, Arriving(n, m)
  PROVE  /\ StateOK /\ n \in Running /\ m \in net /\ m.to = n
         /\ Sendable(m) /\ MessageFits(m) /\ MessageFits(Hopped(m))
         /\ m \in Request /\ m.hop \in Nat
<1>1. m \in net /\ m.to = n /\ n \in Running /\ StateOK
  BY InvParts DEF Arriving
<1>2. Sendable(m) /\ MessageFits(m)
  BY <1>1, InvParts DEF Sendable, NetOK
<1>3. m \in Request /\ m.hop \in Nat
  BY <1>2 DEF MessageFits, Request
<1> QED
  BY <1>1, <1>2, <1>3, HoppedSame

\* handleLookup: a lookup passed on is closer to its key, a reply names a node.
LEMMA HandleLookupInv ==
  ASSUME Inv, NEW n \in Node, NEW m, HandleLookup(n, m)
  PROVE  Inv'
<1> DEFINE key == m.dst
           hop == FindSuccessor(fingers[n], n, key)
           owner == [ReplyTo(Hopped(m), successor(n)) EXCEPT !.hop = 0]
           self  == [ReplyTo(Hopped(m), n) EXCEPT !.hop = 0]
           fwd   == [Hopped(m) EXCEPT !.to = hop]
<1>1. /\ StateOK /\ n \in Running /\ m \in net /\ m.to = n /\ Sendable(m)
      /\ MessageFits(m) /\ MessageFits(Hopped(m)) /\ m.hop \in Nat
  BY Served DEF HandleLookup
<1>2. /\ m.type = "LOOKUP" /\ key \in Id
      /\ UNCHANGED <<status, fingers, predecessor, duty, nextFinger, callbacks, answer,
                     lost, late, repeated>>
  BY <1>1 DEF HandleLookup, MessageFits, Request
<1>3. StateOK'
  BY <1>1, <1>2 DEF StateOK
<1>4. /\ n \in Id /\ Node \subseteq Id /\ successor(n) \in Peer /\ n \in Peer
      /\ fingers[n] \in [Finger -> Peer] /\ fingers[n] \in [Finger -> Id]
      /\ Peer \subseteq Id /\ (repeated = 0 => successor(n) \in Node)
  BY <1>1, Neighbours
<1>5. \/ net' = (net \ {m}) \cup Sent({owner})
      \/ net' = (net \ {m}) \cup Sent({self})
      \/ /\ ~RangeOpenClosed(key, n, successor(n)) /\ hop # n
         /\ net' = (net \ {m}) \cup Sent({fwd})
  BY DEF HandleLookup
<1>6. ASSUME NEW dst \in Peer, repeated = 0 => dst \in Node,
             net' = (net \ {m}) \cup Sent({[ReplyTo(Hopped(m), dst) EXCEPT !.hop = 0]})
      PROVE  NetOK'
  <2> DEFINE out == [ReplyTo(Hopped(m), dst) EXCEPT !.hop = 0]
  <2>1. out = [type |-> "REPLY", id |-> m.id, src |-> m.src, dst |-> dst,
               to |-> m.src, ttl |-> m.ttl, hop |-> 0]
    BY <1>1, ResetReplyRecord, HoppedSame
  <2>2. net' \subseteq net \cup Sent({out}) 
    BY <1>6
  <2> HIDE DEF out
  <2> QED
    BY <1>1, <1>2, <1>6, <2>1, <2>2, ReplyStep
<1>7. CASE /\ ~RangeOpenClosed(key, n, successor(n)) /\ hop # n
           /\ net' = (net \ {m}) \cup Sent({fwd})
  <2>1. hop \in Peer
    BY <1>4, NextHopType
  <2>2. fwd = [type |-> m.type, id |-> m.id, src |-> m.src, dst |-> m.dst,
               to |-> hop, ttl |-> m.ttl, hop |-> m.hop + 1]
    <3>1. Hopped(m) = [type |-> m.type, id |-> m.id, src |-> m.src, dst |-> m.dst,
                       to |-> m.to, ttl |-> m.ttl, hop |-> m.hop + 1]
      BY <1>1, HoppedFits
    <3> HIDE DEF hop
    <3> QED
      BY <3>1
  <2>3. Dist(hop, key) < Dist(n, key)
    <3>1. ~RangeOpenClosed(key, n, fingers[n][0])
      BY <1>7 DEF successor
    <3> QED
      BY <1>2, <1>4, <1>7, <3>1, NextHopIsCloser
  <2>4. m.hop + Dist(n, key) <= 2^Bits
    BY <1>1, <1>2 DEF Sendable, Closer
  <2>5. m.hop + 1 + Dist(hop, key) <= 2^Bits
    <3>1. /\ Dist(hop, key) \in 1 .. 2^Bits /\ Dist(n, key) \in 1 .. 2^Bits
          /\ 2^Bits \in Nat
      BY <1>2, <1>4, <2>1, DistRange, WidthAssumption
    <3>2. Dist(hop, key) \in Nat /\ Dist(n, key) \in Nat
      BY <3>1
    <3> HIDE DEF hop, key
    <3> QED
      BY <1>1, <2>3, <2>4, <3>1, <3>2
  <2> HIDE DEF hop, fwd, owner, self
  <2>6. ASSUME fwd.to \in Node PROVE Sendable(fwd)
    <3>1. MessageFits(fwd)
      BY <1>1, <1>2, <2>2, <2>6 DEF MessageFits, Request
    <3>2. Closer(fwd)
      BY <2>2, <2>5 DEF Closer
    <3> QED
      BY <3>1, <3>2 DEF Sendable
  <2>7. \A c : Fits(c, m) => Fits(c, fwd)
    BY <1>2, <2>2 DEF Fits
  <2>8. fwd.type = "LOOKUP" /\ Named(fwd)
    BY <1>2, <2>2 DEF Named
  <2>9. net' \subseteq net \cup Sent({fwd})
    BY <1>7
  <2>10. fwd.src = m.src /\ fwd.id = m.id
    BY <2>2
  <2>11. /\ m \in net /\ callbacks' = callbacks /\ status' = status
         /\ repeated' = repeated
    BY <1>1, <1>2
  <2>12. NetOK'
    BY <2>6, <2>7, <2>8, <2>9, <2>10, <2>11, ServeStep
  <2> QED
    BY <1>3, <2>12, InvPartsNext
<1> QED
  BY <1>3, <1>4, <1>5, <1>6, <1>7, InvPartsNext

\* handleNotify: the reply names a node and the source becomes predecessor.
LEMMA HandleNotifyInv ==
  ASSUME Inv, NEW n \in Node, NEW m, HandleNotify(n, m)
  PROVE  Inv'
<1> DEFINE out == ReplyTo(Hopped(m), predecessor[n])
<1>1. /\ StateOK /\ n \in Running /\ m \in net /\ MessageFits(m)
      /\ MessageFits(Hopped(m)) /\ m.hop \in Nat
  BY Served DEF HandleNotify
<1>2. m.type = "NOTIFY" /\ m.src \in Node
  BY <1>1 DEF HandleNotify, MessageFits
<1>3. predecessor[n] \in Node /\ predecessor[n] \in Peer
  BY <1>1, Neighbours
<1>4. StateOK'
  <2>1. predecessor' \in [Node -> Node]
    BY <1>1, <1>2 DEF HandleNotify, StateOK
  <2> QED
    BY <1>1, <2>1 DEF HandleNotify, StateOK
<1>5. out = [type |-> "REPLY", id |-> m.id, src |-> m.src, dst |-> predecessor[n],
             to |-> m.src, ttl |-> m.ttl, hop |-> m.hop + 1]
  BY <1>1, ReplyRecord, HoppedSame
<1>6. /\ net' \subseteq net \cup Sent({out})
      /\ callbacks' = callbacks /\ status' = status /\ repeated' = repeated
  BY DEF HandleNotify
<1>7. NetOK'
  <2> HIDE DEF out
  <2>1. m.hop + 1 \in Nat
    BY <1>1
  <2> QED
    BY <1>1, <1>2, <1>3, <1>5, <1>6, <2>1, ReplyStep
<1> QED
  BY <1>4, <1>7, InvPartsNext

\* handleCheck: the reply names no node, and its callback will use none.
LEMMA HandleCheckInv ==
  ASSUME Inv, NEW n \in Node, NEW m, HandleCheck(n, m)
  PROVE  Inv'
<1> DEFINE out == ReplyTo(Hopped(m), m.dst)
<1>1. /\ StateOK /\ n \in Running /\ m \in net /\ MessageFits(m) /\ m \in Request
      /\ MessageFits(Hopped(m)) /\ m.hop \in Nat
  BY Served DEF HandleCheck
<1>2. m.type = "CHECK" /\ m.dst \in Peer
  BY <1>1 DEF HandleCheck, MessageFits, Peer
<1>3. StateOK'
  BY <1>1 DEF HandleCheck, StateOK
<1>4. out = [type |-> "REPLY", id |-> m.id, src |-> m.src, dst |-> m.dst,
             to |-> m.src, ttl |-> m.ttl, hop |-> m.hop + 1]
  BY <1>1, ReplyRecord, HoppedSame
<1>5. /\ net' \subseteq net \cup Sent({out})
      /\ callbacks' = callbacks /\ status' = status /\ repeated' = repeated
  BY DEF HandleCheck
<1>6. NetOK'
  <2> HIDE DEF out
  <2>1. m.hop + 1 \in Nat
    BY <1>1
  <2> QED
    BY <1>1, <1>2, <1>4, <1>5, <2>1, ReplyStep
<1> QED
  BY <1>3, <1>6, InvPartsNext

\* handleLeave: the source of the message is removed.
LEMMA HandleLeaveInv ==
  ASSUME Inv, NEW n \in Node, NEW m, HandleLeave(n, m)
  PROVE  Inv'
<1>1. n \in Running /\ StateOK
  BY Served DEF HandleLeave
<1>2. /\ RemovePeer(n, m.src, {}, {m})
      /\ UNCHANGED <<status, duty, nextFinger, answer, lost, late>>
  BY DEF HandleLeave
<1>3. late' \in 0 .. MaxLate
  BY <1>1, <1>2 DEF StateOK
<1> QED
  BY <1>1, <1>2, <1>3, RemovePeerInv

\* handleReply: the operand is at most a node, and AnswersFit gives it the type the
\* callback needs.
LEMMA HandleReplyInv ==
  ASSUME Inv, NEW n \in Node, NEW m, HandleReply(n, m)
  PROVE  Inv'
<1>1. /\ StateOK /\ m \in net /\ m.to = n /\ MessageFits(m) /\ m \in Request
      /\ m.type = "REPLY" /\ m.dst \in Peer
  BY Served DEF HandleReply, MessageFits
<1>2. m.src = n
  BY <1>1 DEF MessageFits
<1>3. net' \subseteq net
      /\ UNCHANGED <<status, predecessor, duty, nextFinger, lost, late, repeated>>
  BY DEF HandleReply
<1>4. CASE UNCHANGED <<fingers, callbacks, answer>>
  <2>1. StateOK'
    BY <1>1, <1>3, <1>4 DEF StateOK
  <2>2. NetOK'
    BY <1>3, <1>4, SilentStep
  <2> QED
    BY <2>1, <2>2, InvPartsNext
<1>5. ASSUME NEW c \in callbacks[n], c.id = m.id, OnSuccess(n, c, m.dst),
             callbacks' = [callbacks EXCEPT ![n] = @ \ {c}]
      PROVE  Inv'
  <2>1. c \in Callback
    BY <1>1 DEF StateOK
  <2>2. repeated = 0 => Fits(c, m)
    BY <1>1, <1>2, <1>5, InvParts DEF AnswersFit, NetOK
  <2>3. repeated = 0 /\ c.kind # "check" => m.dst \in Node
    BY <1>1, <2>2 DEF Fits
  <2>4. /\ fingers' \in [Node -> [Finger -> Peer]]
        /\ repeated = 0 => fingers' \in [Node -> [Finger -> Node]]
    <3>1. AdoptsSuccessor(n, c, m.dst) => c.kind # "check"
      BY DEF AdoptsSuccessor
    <3>2. /\ 0 \in Finger /\ c.finger \in Finger /\ fingers \in [Node -> [Finger -> Peer]]
          /\ repeated = 0 => fingers \in [Node -> [Finger -> Node]]
      BY <1>1, <2>1, Neighbours DEF Callback, StateOK
    <3>3. fingers' \in [Node -> [Finger -> Peer]]
      BY <1>1, <1>5, <3>2 DEF OnSuccess
    <3>4. ASSUME repeated = 0 PROVE fingers' \in [Node -> [Finger -> Node]]
      BY <1>5, <2>3, <3>1, <3>2, <3>4 DEF OnSuccess
    <3> QED
      BY <3>3, <3>4
  <2>5. answer' \in [Node -> Promise]
    <3>1. answer \in [Node -> Promise]
      BY <1>1 DEF StateOK
    <3> QED
      BY <1>1, <1>5, <3>1 DEF OnSuccess, Answered, Promise
  <2>6. callbacks' \in [Node -> SUBSET Callback]
        /\ \A k \in Node : callbacks'[k] \subseteq callbacks[k]
    BY <1>1, <1>5 DEF StateOK
  <2>7. StateOK'
    BY <1>1, <1>3, <2>4, <2>5, <2>6 DEF StateOK
  <2>8. NetOK'
    BY <1>3, <2>6, SilentStep
  <2> QED
    BY <2>7, <2>8, InvPartsNext
<1> QED
  BY <1>4, <1>5 DEF HandleReply

----------------------------------------------------------------------------
(***************************************************************************)
(* The program and the environment.                                        *)
(***************************************************************************)

\* join, the request: a node that was off has nothing else in flight.
LEMMA JoinInv ==
  ASSUME Inv, NEW n \in Node, NEW peer \in Node, Join(n, peer)
  PROVE  Inv'
<1>0. PICK id \in ReqId :
        /\ GetNext(n, "join", id)
        /\ net' = net \cup Sent({NewRequest("LOOKUP", id, n, n, peer, DefaultTtl)})
  BY DEF Join
<1> DEFINE q == NewRequest("LOOKUP", id, n, n, peer, DefaultTtl)
<1>1. /\ StateOK /\ NetOK /\ status[n] = "off"
      /\ status' = [status EXCEPT ![n] = "joining"] /\ callbacks' = callbacks
  BY InvParts DEF Join
<1>2. Sendable(q)
  BY NewRequestSendable, RequestAssumption, NodeAssumption DEF Peer
<1>3. q.src = n /\ q.id = id /\ q.type = "LOOKUP"
  BY DEF NewRequest
<1> HIDE DEF q
<1>4. net' \subseteq net \cup {q}
  BY <1>0, SentSubset DEF q
<1>5. repeated' \in 0 .. MaxRepeat
      /\ (repeated' = 0 => repeated = 0 /\ \A c \in callbacks[n] : c.id # id)
  BY <1>0, <1>1, Drawn
<1>6. StateOK'
  BY <1>1, <1>5 DEF Join, StateOK
<1>7. ASSUME repeated' = 0 PROVE AnswersFit'
  <2>0. AnswersFit
    BY <1>1, <1>5, <1>7 DEF NetOK
  <2> SUFFICES ASSUME NEW k \in Node, NEW c \in callbacks[k], NEW m \in net',
                      m.src = k, m.id = c.id
               PROVE  Fits(c, m)
    BY <1>1 DEF AnswersFit
  <2>1. CASE m \in net
    BY <2>0, <2>1 DEF AnswersFit
  <2>2. CASE m = q
    BY <1>3, <1>5, <1>7, <2>2
  <2> QED
    BY <1>4, <2>1, <2>2
<1>8. OutsidersQuiet' /\ (repeated' = 0 => NewcomersNamed')
  <2>1. \A m \in net : m.src # n
    BY <1>1 DEF OutsidersQuiet, NetOK
  <2>2. status \in [Node -> {"off", "joining", "up", "leaving", "left", "crashed"}]
    BY <1>1 DEF StateOK
  <2>3. /\ status'[n] = "joining"
        /\ \A k \in Node : k # n => status'[k] = status[k]
    BY <1>1, <2>2
  <2>4. OutsidersQuiet'
    BY <1>1, <1>3, <1>4, <2>1, <2>3 DEF OutsidersQuiet, NetOK
  <2>5. ASSUME repeated' = 0 PROVE NewcomersNamed'
    BY <1>1, <1>3, <1>4, <1>5, <2>1, <2>3, <2>5 DEF NewcomersNamed, NetOK, Named
  <2> QED
    BY <2>4, <2>5
<1>9. \A m \in net' : Sendable(m)
  BY <1>1, <1>2, <1>4 DEF NetOK
<1>10. NetOK'
  BY <1>7, <1>8, <1>9 DEF NetOK
<1> QED
  BY <1>6, <1>10, InvPartsNext

\* join, the answer: a reply names at most a node, NewcomersNamed says that it does.
LEMMA JoinReplyInv ==
  ASSUME Inv, NEW n \in Node, JoinReply(n)
  PROVE  Inv'
<1>1. PICK m \in net : /\ m.to = n
                       /\ m.type = "REPLY"
                       /\ net' = net \ {m}
                       /\ fingers' = [fingers EXCEPT ![n][0] = m.dst]
  BY DEF JoinReply
<1>2. /\ StateOK /\ status[n] = "joining" /\ NetOK /\ MessageFits(m)
      /\ status' = [status EXCEPT ![n] = "up"]
      /\ UNCHANGED <<predecessor, duty, nextFinger, callbacks, answer, lost, late,
                     repeated>>
  BY InvParts DEF JoinReply, Sendable, NetOK
<1>3. m.src = n
  BY <1>1, <1>2 DEF MessageFits
<1>4. m.dst \in Peer /\ (repeated = 0 => m.dst \in Node)
  BY <1>1, <1>2, <1>3 DEF MessageFits, NewcomersNamed, NetOK, Named
<1>5. StateOK'
  <2>1. /\ fingers' \in [Node -> [Finger -> Peer]]
        /\ repeated = 0 => fingers' \in [Node -> [Finger -> Node]]
    <3>1. /\ 0 \in Finger /\ fingers \in [Node -> [Finger -> Peer]]
          /\ repeated = 0 => fingers \in [Node -> [Finger -> Node]]
      BY <1>2, Neighbours DEF StateOK
    <3> QED
      BY <1>1, <1>4, <3>1
  <2> QED
    BY <1>2, <2>1 DEF StateOK
<1>6. NetOK'
  <2>1. \A k \in Node : status'[k] \in {"off", "joining"} => status'[k] = status[k]
    BY <1>2 DEF StateOK
  <2> QED
    BY <1>1, <1>2, <2>1, SilentStep
<1> QED
  BY <1>5, <1>6, InvPartsNext

\* lookup: answered at once or by a request.
LEMMA LookupInv ==
  ASSUME Inv, NEW n \in Node, NEW key \in Key, Lookup(n, key)
  PROVE  Inv'
<1> DEFINE hop == FindSuccessor(fingers[n], n, key)
<1>1. /\ StateOK /\ "lookup" \in Kind /\ status[n] = "up" /\ key \in Id
      /\ UNCHANGED <<status, fingers, predecessor, duty, nextFinger, lost, late>>
  BY InvParts, RequestAssumption DEF Lookup, Kind
<1>2. fingers[n] \in [Finger -> Peer] /\ successor(n) \in Peer /\ 0 \in Finger /\ n \in Peer
  BY <1>1, Neighbours
<1>3. CASE /\ answer' = [answer EXCEPT ![n] =
                           [state |-> "set", key |-> key, peer |-> successor(n)]]
           /\ UNCHANGED <<callbacks, net, repeated>>
  <2>1. StateOK'
    BY <1>1, <1>2, <1>3 DEF StateOK, Promise
  <2>2. NetOK'
    BY <1>1, <1>3, SilentStep
  <2> QED
    BY <2>1, <2>2, InvPartsNext
<1>4. ASSUME NEW id \in ReqId, GetNext(n, "lookup", id),
             answer' = [answer EXCEPT ![n] =
                          [state |-> "pending", key |-> key, peer |-> Nobody]],
             Open(n, NewCallback(id, "lookup", hop, 0), {}),
             net' = net \cup Sent({NewRequest("LOOKUP", id, n, key, hop, LookupTtl)})
      PROVE  Inv'
  <2> DEFINE c == NewCallback(id, "lookup", hop, 0)
             q == NewRequest("LOOKUP", id, n, key, hop, LookupTtl)
  <2>1. hop \in Peer
    BY <1>2, NextHopType
  <2>2. c \in Callback /\ c.id = id /\ c.kind = "lookup"
    BY <1>1, <1>2, <2>1, NewCallbackType
  <2>3. ASSUME hop \in Node PROVE Sendable(q)
    BY <1>1, <1>2, <2>3, NewRequestSendable, RequestAssumption
  <2>4. q.src = n /\ q.id = id /\ q.type = "LOOKUP" /\ q.to = hop
    BY DEF NewRequest
  <2>5. Open(n, c, {}) /\ net' = net \cup Sent({q})
    BY <1>4
  <2> HIDE DEF c, q
  <2>6. StateOK'
    <3>1. callbacks' \in [Node -> SUBSET Callback]
      BY <1>1, <2>2, <2>5, Opened
    <3>2. answer' \in [Node -> Promise]
      BY <1>1, <1>4 DEF StateOK, Promise, Peer
    <3>3. repeated' \in 0 .. MaxRepeat /\ (repeated' = 0 => repeated = 0)
      BY <1>1, <1>4, Drawn
    <3> QED
      BY <1>1, <3>1, <3>2, <3>3 DEF StateOK
  <2>7. NetOK'
    <3>1. \A k \in Node :
            callbacks'[k] \subseteq callbacks[k] \cup (IF k = n THEN {c} ELSE {})
      BY <1>1, <2>2, <2>5, Opened
    <3>2. Fits(c, q)
      BY <2>2, <2>4 DEF Fits
    <3>3. q.to \in Node => Sendable(q)
      BY <2>3, <2>4
    <3>4. /\ status[n] \notin {"off", "joining"} /\ status' = status
          /\ GetNext(n, "lookup", id) /\ net' \subseteq net \cup Sent({q})
      BY <1>1, <1>4, <2>5
    <3>5. c.id = id /\ q.src = n /\ q.id = id
      BY <2>2, <2>4
    <3> QED
      BY <3>1, <3>2, <3>3, <3>4, <3>5, AskStep
  <2> QED
    BY <2>6, <2>7, InvPartsNext
<1> QED
  BY <1>3, <1>4 DEF Lookup

\* leave: the messages to the neighbours expect no reply.
LEMMA LeaveInv ==
  ASSUME Inv, NEW n \in Node, Leave(n)
  PROVE  Inv'
<1>1. /\ StateOK /\ NetOK
      /\ status[n] = "up" /\ status' = [status EXCEPT ![n] = "leaving"]
      /\ UNCHANGED <<fingers, predecessor, duty, nextFinger, callbacks, answer, lost,
                     late, repeated>>
  BY InvParts DEF Leave
<1>2. \A m \in net' \ net : m.src = n /\ m.id = 0 /\ Sendable(m)
  <2> SUFFICES ASSUME NEW m \in net' \ net
               PROVE  m.src = n /\ m.id = 0 /\ Sendable(m)
    OBVIOUS
  <2>1. m \in Sent({NewRequest("LEAVE", 0, n, Nobody, to, 0) :
                      to \in {successor(n), predecessor[n]}})
    BY DEF Leave
  <2>2. PICK to \in {successor(n), predecessor[n]} :
          m = NewRequest("LEAVE", 0, n, Nobody, to, 0)
    BY <2>1, SentSubset
  <2>3. m.to = to /\ m.to \in Node
    BY <2>1, <2>2, SentSubset DEF NewRequest
  <2>4. Sendable(NewRequest("LEAVE", 0, n, Nobody, to, 0))
    BY <2>3, NewRequestSendable, NodeAssumption DEF Peer
  <2> QED
    BY <2>2, <2>4 DEF NewRequest
<1>3. StateOK'
  BY <1>1 DEF StateOK
<1>4. \A m \in net' : Sendable(m)
  BY <1>1, <1>2 DEF NetOK
<1>5. ASSUME repeated = 0 PROVE AnswersFit'
  <2>0. AnswersFit
    BY <1>1, <1>5 DEF NetOK
  <2> SUFFICES ASSUME NEW k \in Node, NEW c \in callbacks[k], NEW m \in net',
                      m.src = k, m.id = c.id
               PROVE  Fits(c, m)
    BY <1>1 DEF AnswersFit
  <2>1. c.id # 0
    <3>1. c \in Callback
      BY <1>1 DEF StateOK
    <3> QED
      BY <3>1, ReqIdPositive DEF Callback
  <2> QED
    BY <1>2, <2>0, <2>1 DEF AnswersFit
<1>6. /\ status'[n] = "leaving"
      /\ \A k \in Node : k # n => status'[k] = status[k]
  BY <1>1 DEF StateOK
<1>7. OutsidersQuiet'
  BY <1>1, <1>2, <1>6 DEF OutsidersQuiet, NetOK
<1>8. ASSUME repeated = 0 PROVE NewcomersNamed'
  BY <1>1, <1>2, <1>6, <1>8 DEF NewcomersNamed, NetOK
<1>9. NetOK'
  BY <1>1, <1>4, <1>5, <1>7, <1>8 DEF NetOK
<1> QED
  BY <1>3, <1>9, InvPartsNext

\* The end of a process: its open requests are forgotten.
LEMMA StopInv ==
  ASSUME Inv, NEW n \in Node, NEW how \in {"left", "crashed"}, Stop(n, how)
  PROVE  Inv'
<1>1. StateOK /\ 1 \in Finger \ {0}
  BY InvParts, WidthAssumption DEF Finger
<1>2. StateOK'
  <2>1. Unasked \in Promise
    <3>1. 0 \in Id
      BY WidthAssumption DEF Id
    <3> QED
      BY <3>1 DEF Unasked, Promise, Peer
  <2>2. [i \in Finger |-> n] \in [Finger -> Node] /\ [i \in Finger |-> n] \in [Finger -> Peer]
    BY DEF Peer
  <2>3. /\ fingers' \in [Node -> [Finger -> Peer]] /\ repeated' = repeated
        /\ repeated = 0 => fingers' \in [Node -> [Finger -> Node]]
    BY <1>1, <2>2 DEF Stop, StateOK
  <2>4. answer' \in [Node -> Promise]
    BY <1>1, <2>1 DEF Stop, StateOK
  <2>5. callbacks' \in [Node -> SUBSET Callback]
    BY <1>1 DEF Stop, StateOK
  <2>6. nextFinger' \in [Node -> Finger \ {0}]
    BY <1>1 DEF Stop, StateOK
  <2> QED
    BY <1>1, <2>3, <2>4, <2>5, <2>6 DEF Stop, StateOK
<1>3. NetOK'
  <2>1. \A k \in Node : status'[k] \in {"off", "joining"} => status'[k] = status[k]
    BY <1>1 DEF Stop, StateOK
  <2>2. \A k \in Node : callbacks'[k] \subseteq callbacks[k]
    BY <1>1 DEF Stop, StateOK
  <2>3. net' \subseteq net /\ repeated' = repeated
    BY DEF Stop
  <2> QED
    BY <2>1, <2>2, <2>3, SilentStep
<1> QED
  BY <1>2, <1>3, InvPartsNext

\* The loss of a message.
LEMMA LoseInv ==
  ASSUME Inv, NEW m \in net, Lose(m)
  PROVE  Inv'
<1>1. StateOK'
  BY InvParts, EnvironmentAssumption DEF Lose, StateOK
<1>2. NetOK'
  BY SilentStep DEF Lose
<1> QED
  BY <1>1, <1>2, InvPartsNext

----------------------------------------------------------------------------
(***************************************************************************)
(* The theorems.                                                           *)
(***************************************************************************)

\* The tables of a settled ring, and of a node on its own.
LEMMA SettledType == SettledFingers \in [Node -> [Finger -> Node]]
<1> SUFFICES ASSUME NEW n \in Node, NEW i \in Finger
             PROVE  SettledFingers[n][i] \in Node
  BY DEF SettledFingers
<1>1. n \in Id /\ Initial \in SUBSET Id /\ Initial \subseteq Node
  BY NodeAssumption
<1>2. Start(n, i) \in Id
  <2>1. i \in 0 .. Bits
    BY WidthAssumption DEF Finger
  <2> QED
    BY <1>1, <2>1, IdArithmetic DEF Start
<1>3. CASE n \notin Initial
  BY <1>3 DEF SettledFingers
<1>4. CASE n \in Initial
  <2>1. NextAfter(n, Initial) \in Initial /\ NextAfter(Start(n, i), Initial) \in Initial
    BY <1>1, <1>2, <1>4, NeighboursExist
  <2>2. Owner(Start(n, i), Initial) \in Initial
    BY <2>1 DEF Owner
  <2> QED
    BY <1>1, <1>4, <2>1, <2>2 DEF SettledFingers
<1> QED
  BY <1>3, <1>4

\* The invariant holds at the start whatever type-correct fingers the nodes have.
LEMMA InitInv ==
  ASSUME InitRest, fingers \in [Node -> [Finger -> Node]]
  PROVE  Inv
<1>1. StateOK
  <2>1. predecessor \in [Node -> Node]
    <3> SUFFICES ASSUME NEW n \in Initial
                 PROVE  NextBefore(n, Initial) \in Node
      BY DEF InitRest
    <3>1. n \in Id /\ Initial \in SUBSET Id /\ Initial \subseteq Node
      BY NodeAssumption
    <3> QED
      BY <3>1, NeighboursExist
  <2>2. answer \in [Node -> Promise]
    <3>1. 0 \in Id
      BY WidthAssumption DEF Id
    <3> QED
      BY <3>1 DEF InitRest, Unasked, Promise, Peer
  <2>3. nextFinger \in [Node -> Finger \ {0}]
    <3>1. 1 \in Finger \ {0}
      BY WidthAssumption DEF Finger
    <3> QED
      BY <3>1 DEF InitRest
  <2>4. lost \in 0 .. MaxLoss /\ late \in 0 .. MaxLate /\ repeated \in 0 .. MaxRepeat
    BY EnvironmentAssumption DEF InitRest
  <2>5. /\ status \in [Node -> {"off", "joining", "up", "leaving", "left", "crashed"}]
        /\ duty \in [Node -> {"stabilize", "fixFingers", "checkPredecessor"}]
        /\ callbacks \in [Node -> SUBSET Callback]
    BY DEF InitRest
  <2>6. fingers \in [Node -> [Finger -> Peer]]
    BY DEF Peer
  <2> QED
    BY <2>1, <2>2, <2>3, <2>4, <2>5, <2>6 DEF StateOK
<1>2. net = {}
  BY DEF InitRest
<1> QED
  BY <1>1, <1>2, InvParts DEF NetOK, AnswersFit, OutsidersQuiet, NewcomersNamed

\* The invariant holds in the initial states of both specifications.
LEMMA InvAtStart == Init \/ StaleInit => Inv
<1>1. ASSUME Init PROVE Inv
  BY <1>1, SettledType, InitInv DEF Init
<1>2. ASSUME StaleInit PROVE Inv
  <2>1. fingers \in [Node -> [Finger -> Node]]
    BY <1>2, NodeAssumption DEF StaleInit
  <2> QED
    BY <1>2, <2>1, InitInv DEF StaleInit
<1> QED
  BY <1>1, <1>2

\* Every step of the system preserves the invariant.
LEMMA InvNext == Inv /\ [Next]_vars => Inv'
<1> SUFFICES ASSUME Inv, [Next]_vars
             PROVE  Inv'
  OBVIOUS
<1>1. ASSUME NEW n \in Node, Updater(n)
      PROVE  Inv'
  BY <1>1, StabilizeInv, FixFingersInv, CheckPredecessorInv DEF Updater
<1>2. ASSUME NEW n \in Node, CheckRequests(n)
      PROVE  Inv'
  BY <1>2, ExpireRequestInv, ExpireCheckInv DEF CheckRequests
<1>3. ASSUME NEW n \in Node, Receiver(n)
      PROVE  Inv'
  BY <1>3, DropExpiredInv, HandleLookupInv, HandleNotifyInv, HandleCheckInv,
     HandleLeaveInv, HandleReplyInv DEF Receiver, Receive
<1>4. ASSUME NEW n \in Node, Program(n)
      PROVE  Inv'
  BY <1>4, JoinInv, JoinReplyInv, LookupInv, LeaveInv DEF Program
<1>5. ASSUME Environment
      PROVE  Inv'
  BY <1>5, StopInv, LoseInv DEF Environment, Exit, Crash
<1>6. CASE UNCHANGED vars
  <2>1. StateOK'
    BY <1>6, InvParts DEF StateOK, vars
  <2>2. NetOK'
    BY <1>6, SilentStep DEF vars
  <2> QED
    BY <2>1, <2>2, InvPartsNext
<1> QED
  BY <1>1, <1>2, <1>3, <1>4, <1>5, <1>6 DEF Next

\* The inductive invariant holds in every reachable state, from a settled ring or
\* from one whose finger tables are out of date: above all, as long as no number was
\* drawn while it was in use, every successor and finger is a node, never the
\* operand of a reply that asked for none (handleReply, getNext).
THEOREM Invariance == Spec \/ StaleSpec => []Inv
<1>1. Spec => []Inv
  BY InvAtStart, InvNext, PTL DEF Spec
<1>2. StaleSpec => []Inv
  BY InvAtStart, InvNext, PTL DEF StaleSpec
<1> QED
  BY <1>1, <1>2

\* Type correctness, whatever numbers requests are given: a slot holds a node or a
\* NodeInfo that was never filled in, and the predecessor is a node (handleReply,
\* handleNotify, removePeer).
THEOREM TypeCorrect == Spec => []TypeOK
<1>1. Inv => TypeOK
  BY DEF Inv
<1>2. Spec => []Inv
  BY Invariance
<1> QED
  BY <1>1, <1>2, PTL

\* No lookup goes round in circles: each hop brings it closer to its key, so it
\* takes fewer than 2^Bits hops (handleLookup, findSuccessor).
THEOREM LookupsApproach == Spec \/ StaleSpec => []LookupHopBound
<1>1. Inv => LookupHopBound
  BY DEF Inv
<1> QED
  BY <1>1, Invariance, PTL

----------------------------------------------------------------------------
(***************************************************************************)
(* What nodes know of each other, and the ring they form.                  *)
(***************************************************************************)

\* The nodes that have taken part in the ring, those that are gone included.
Started == {n \in Node : status[n] \notin {"off", "joining"}}

\* Those and the NodeInfo that was never filled in.
Known == Started \cup {Nobody}

\* Whatever a node or a message names has taken part in the ring, or is the node
\* itself: a slot, a predecessor, the peer of a request, the operand of a reply.
PeersStarted ==
  /\ \A n \in Node :
       /\ predecessor[n] \in Started \cup {n}
       /\ \A i \in Finger : fingers[n][i] \in Known \cup {n}
       /\ \A c \in callbacks[n] : c.peer \in Known
  /\ \A m \in net : m.type \in {"CHECK", "REPLY"} /\ m.dst \in Node => m.dst \in Started

\* A node that does not run has no open request.
OpenAtRunning == \A n \in Node : n \notin Running => callbacks[n] = {}

\* The open requests of a node have numbers of their own.
NumbersApart ==
  \A n \in Node : \A c, d \in callbacks[n] : c.id = d.id => c = d

\* The three together, the last as long as no number was drawn while it was in use.
Tidy == PeersStarted /\ OpenAtRunning /\ (repeated = 0 => NumbersApart)

\* The check of a node that works, or its reply, is on its way.
Watched ==
  \A n \in Node : \A c \in callbacks[n] :
    c.kind = "check" /\ c.peer \in Members => Answerable(n, c)

\* A check on its way to its peer, or its reply on the way back: handleCheck sends
\* the reply with the hops counted so far.
Direct(c, m) ==
  /\ m.ttl = DefaultTtl
  /\ \/ m.type = "CHECK" /\ m.to = c.peer /\ m.hop = 0
     \/ m.type = "REPLY" /\ m.hop = 1

\* A check goes straight to its peer and back.
ChecksDirect ==
  \A n \in Node : \A c \in callbacks[n], m \in net :
    c.kind = "check" /\ m.src = n /\ m.id = c.id => Direct(c, m)

\* No member's successor lies behind a node that was there from the start.
NoneSkipped ==
  \A n \in Node : status[n] = "up" =>
    \A b \in Initial : Dist(n, successor(n)) <= Dist(n, b)

\* A newcomer asks for its own identifier, and the node the reply names skips none
\* that was there from the start.
NewcomersAim ==
  \A m \in net : m.src \in Node /\ status[m.src] = "joining" =>
    /\ m.type = "LOOKUP" => m.dst = m.src
    /\ m.type = "REPLY" => \A b \in Initial : Dist(m.src, m.dst) <= Dist(m.src, b)

\* Nobody has left, nobody is leaving, nobody looks for another successor, and every
\* request was sent to a node.
OnlyJoins ==
  /\ \A n \in Node : status[n] \in {"off", "joining", "up"}
  /\ \A n \in Initial : status[n] = "up"
  /\ \A m \in net : m.type # "LEAVE"
  /\ \A n \in Node : \A c \in callbacks[n] :
       c.kind # "succ" /\ (c.kind = "finger" => c.finger # 0) /\ c.peer \in Node

----------------------------------------------------------------------------
(***************************************************************************)
(* Nothing names a node that has not started; and while no number is drawn *)
(* again, which the counter does not promise, the open requests of a node  *)
(* have different numbers.                                                 *)
(***************************************************************************)

\* What a step may do without disturbing Tidy: no node goes back, a node that stops
\* forgets its requests, a new request has a number of its own and goes to a node that
\* has started, and nodes learn of none but those.
LEMMA TidyStep ==
  ASSUME Tidy,
         \A k \in Started : status'[k] \notin {"off", "joining"},
         \A k \in Node : status'[k] \notin {"up", "leaving"} => callbacks'[k] = {},
         \A k \in Node : \A c \in callbacks'[k] : c \in callbacks[k] \/ c.peer \in Known,
         repeated' = 0 =>
           /\ repeated = 0
           /\ \A k \in Node : \A c \in callbacks'[k] :
                \/ c \in callbacks[k]
                \/ \A d \in callbacks'[k] : d.id = c.id => d = c,
         \A k \in Node : /\ predecessor'[k] \in Started \cup {k}
                         /\ \A i \in Finger : fingers'[k][i] \in Known \cup {k},
         \A m \in net' : m.type \in {"CHECK", "REPLY"} /\ m.dst \in Node => m.dst \in Started
  PROVE  Tidy'
<1>1. \A k \in Started : k \in Started'
  BY DEF Started
<1>2. \A k \in Known : k \in Known'
  BY <1>1 DEF Known
<1>3. PeersStarted'
  BY <1>1, <1>2 DEF PeersStarted, Tidy
<1>4. ASSUME repeated' = 0 PROVE NumbersApart'
  <2>1. ASSUME NEW k \in Node, NEW c \in callbacks'[k], NEW d \in callbacks'[k], c.id = d.id
        PROVE  c = d
    <3>1. CASE c \in callbacks[k] /\ d \in callbacks[k]
      BY <1>4, <2>1, <3>1 DEF NumbersApart, Tidy
    <3>2. CASE c \notin callbacks[k]
      BY <1>4, <2>1, <3>2
    <3>3. CASE d \notin callbacks[k]
      BY <1>4, <2>1, <3>3
    <3> QED
      BY <3>1, <3>2, <3>3
  <2> QED
    BY <2>1 DEF NumbersApart
<1>5. OpenAtRunning'
  BY DEF OpenAtRunning, Running
<1> QED
  BY <1>3, <1>4, <1>5 DEF Tidy

\* What a node that runs knows of.
LEMMA KnownStarted ==
  ASSUME Inv, Tidy, NEW n \in Running
  PROVE  /\ n \in Node /\ n \in Started /\ n \in Known /\ status[n] \notin {"off", "joining"}
         /\ predecessor[n] \in Started
         /\ \A i \in Finger : fingers[n][i] \in Known
         /\ successor(n) \in Known /\ 0 \in Finger
         /\ \A c \in callbacks[n] : c.peer \in Known
         /\ repeated = 0 => /\ \A i \in Finger : fingers[n][i] \in Started
                            /\ successor(n) \in Started
<1>1. /\ n \in Node /\ n \in Started /\ n \in Known
      /\ status[n] \notin {"off", "joining"}
  BY DEF Running, Started, Known
<1>2. 0 \in Finger
  BY WidthAssumption DEF Finger
<1>3. /\ predecessor[n] \in Started
      /\ \A i \in Finger : fingers[n][i] \in Known
      /\ \A c \in callbacks[n] : c.peer \in Known
  BY <1>1 DEF Tidy, PeersStarted
<1>4. ASSUME repeated = 0 PROVE \A i \in Finger : fingers[n][i] \in Started
  <2>1. fingers \in [Node -> [Finger -> Node]] /\ Nobody \notin Node
    BY <1>4, InvParts, NodeAssumption DEF StateOK
  <2> QED
    BY <1>1, <1>3, <2>1 DEF Known
<1> QED
  BY <1>1, <1>2, <1>3, <1>4 DEF successor

\* A step in which one node opens a request, with a new number and for a peer that has
\* started, and no node starts or stops.
LEMMA TidyAsk ==
  ASSUME Inv, Tidy, NEW n \in Running, NEW kind, NEW id, GetNext(n, kind, id),
         NEW c, c.id = id, c.peer \in Known,
         \A k \in Node : \A i \in Finger : fingers'[k][i] \in Known \cup {k},
         \A k \in Node : predecessor'[k] \in Started \cup {k},
         UNCHANGED status,
         \A k \in Node :
           callbacks'[k] \subseteq callbacks[k] \cup (IF k = n THEN {c} ELSE {}),
         \A m \in net' : m \in net \/ (m.type \in {"CHECK", "REPLY"} => m.dst \notin Node)
  PROVE  Tidy'
<1>1. StateOK /\ n \in Node
  BY InvParts DEF Running
<1>2. \A k \in Node : status'[k] \notin {"up", "leaving"} => callbacks'[k] = {}
  BY DEF Tidy, OpenAtRunning, Running
<1>3. \A k \in Node : \A e \in callbacks'[k] : e \in callbacks[k] \/ (k = n /\ e = c)
  OBVIOUS
<1>4. ASSUME repeated' = 0
      PROVE  /\ repeated = 0
             /\ \A k \in Node : \A e \in callbacks'[k] :
                  \/ e \in callbacks[k]
                  \/ \A d \in callbacks'[k] : d.id = e.id => d = e
  <2>1. repeated = 0 /\ \A d \in callbacks[n] : d.id # c.id
    BY <1>1, <1>4, Drawn
  <2> QED
    BY <1>3, <2>1
<1>5. \A k \in Started : status'[k] \notin {"off", "joining"}
  BY DEF Started
<1>6. \A m \in net' : m.type \in {"CHECK", "REPLY"} /\ m.dst \in Node => m.dst \in Started
  BY DEF Tidy, PeersStarted
<1>7. \A k \in Node : \A e \in callbacks'[k] : e \in callbacks[k] \/ e.peer \in Known
  BY <1>3
<1> QED
  BY <1>2, <1>4, <1>5, <1>6, <1>7, TidyStep

\* A step that opens no request.
LEMMA TidyQuiet ==
  ASSUME Inv, Tidy,
         \A k \in Node : \A i \in Finger : fingers'[k][i] \in Known \cup {k},
         \A k \in Node : predecessor'[k] \in Started \cup {k},
         \A k \in Started : status'[k] \notin {"off", "joining"},
         \A k \in Node : status'[k] \notin {"up", "leaving"} => callbacks'[k] = {},
         \A k \in Node : callbacks'[k] \subseteq callbacks[k], repeated' = repeated,
         \A m \in net' : m \in net \/ (m.type \in {"CHECK", "REPLY"} /\ m.dst \in Node => m.dst \in Started)
  PROVE  Tidy'
<1>1. \A m \in net' : m.type \in {"CHECK", "REPLY"} /\ m.dst \in Node => m.dst \in Started
  BY DEF Tidy, PeersStarted
<1>2. \A k \in Node : \A c \in callbacks'[k] : c \in callbacks[k]
  OBVIOUS
<1> QED
  BY <1>1, <1>2, TidyStep

\* A step in which nodes learn nothing and stop or start nothing.
LEMMA TidySame ==
  ASSUME Inv, Tidy, UNCHANGED <<status, fingers, predecessor, repeated>>,
         \A k \in Node : callbacks'[k] \subseteq callbacks[k],
         \A m \in net' : m \in net \/ (m.type \in {"CHECK", "REPLY"} /\ m.dst \in Node => m.dst \in Started)
  PROVE  Tidy'
<1>1. /\ \A k \in Node : \A i \in Finger : fingers'[k][i] \in Known \cup {k}
      /\ \A k \in Node : predecessor'[k] \in Started \cup {k}
  BY DEF Tidy, PeersStarted
<1>2. \A k \in Node : status'[k] \notin {"up", "leaving"} => callbacks'[k] = {}
  BY DEF Tidy, OpenAtRunning, Running
<1>3. \A k \in Started : status'[k] \notin {"off", "joining"}
  BY DEF Started
<1> QED
  BY <1>1, <1>2, <1>3, TidyQuiet

\* The updater's calls.
LEMMA UpdaterTidy ==
  ASSUME Inv, Tidy, NEW n \in Node, Updater(n)
  PROVE  Tidy'
<1>1. n \in Running
  BY DEF Updater, Stabilize, FixFingers, CheckPredecessor, OnDuty
<1>2. /\ predecessor[n] \in Started /\ successor(n) \in Known /\ 0 \in Finger
      /\ predecessor[n] \in Known
      /\ \A i \in Finger : fingers[n][i] \in Known
      /\ StateOK /\ n \in Node /\ fingers[n] \in [Finger -> Peer]
      /\ successor(n) \in Peer /\ predecessor[n] \in Peer
  BY <1>1, KnownStarted, InvParts, Neighbours DEF Known
<1>3. /\ \A k \in Node : \A i \in Finger : fingers[k][i] \in Known \cup {k}
      /\ \A k \in Node : predecessor[k] \in Started \cup {k}
  BY DEF Tidy, PeersStarted
<1>4. "notify" \in Kind /\ "finger" \in Kind /\ "check" \in Kind
  BY DEF Kind
<1>5. CASE Stabilize(n)
  <2>0. PICK id \in ReqId :
          /\ GetNext(n, "notify", id)
          /\ Open(n, NewCallback(id, "notify", successor(n), 0), {})
          /\ net' = net \cup Sent({NewRequest("NOTIFY", id, n, Nobody, successor(n), DefaultTtl)})
    BY <1>5 DEF Stabilize
  <2> DEFINE c == NewCallback(id, "notify", successor(n), 0)
  <2>1. c \in Callback /\ c.id = id /\ c.peer \in Known
    BY <1>2, <1>4, NewCallbackType DEF NewCallback
  <2>2. UNCHANGED <<status, fingers, predecessor>> /\ Open(n, c, {})
    BY <1>5, <2>0 DEF Stabilize
  <2>3. \A m \in net' : m \in net \/ (m.type \in {"CHECK", "REPLY"} => m.dst \notin Node)
    BY <2>0, SentSubset, NodeAssumption DEF CheckRequest, NewRequest
  <2> HIDE DEF c
  <2>4. \A k \in Node :
          callbacks'[k] \subseteq callbacks[k] \cup (IF k = n THEN {c} ELSE {})
    BY <1>2, <2>1, <2>2, Opened
  <2> QED
    BY <1>1, <1>3, <2>0, <2>1, <2>2, <2>3, <2>4, TidyAsk
<1>6. CASE CheckPredecessor(n)
  <2>0. PICK id \in ReqId :
          /\ GetNext(n, "check", id)
          /\ Open(n, NewCallback(id, "check", predecessor[n], 0), {})
          /\ net' = net \cup Sent({CheckRequest(n, id, predecessor[n])})
    BY <1>6 DEF CheckPredecessor
  <2> DEFINE c == NewCallback(id, "check", predecessor[n], 0)
  <2>1. c \in Callback /\ c.id = id /\ c.peer \in Known
    BY <1>2, <1>4, NewCallbackType DEF NewCallback
  <2>2. UNCHANGED <<status, fingers, predecessor>> /\ Open(n, c, {})
    BY <1>6, <2>0 DEF CheckPredecessor
  <2>3. \A m \in net' : m \in net \/ (m.type \in {"CHECK", "REPLY"} => m.dst \notin Node)
    BY <2>0, SentSubset, NodeAssumption DEF CheckRequest, NewRequest
  <2> HIDE DEF c
  <2>4. \A k \in Node :
          callbacks'[k] \subseteq callbacks[k] \cup (IF k = n THEN {c} ELSE {})
    BY <1>2, <2>1, <2>2, Opened
  <2> QED
    BY <1>1, <1>3, <2>0, <2>1, <2>2, <2>3, <2>4, TidyAsk
<1>7. CASE FixFingers(n)
  <2> DEFINE i   == nextFinger[n]
             hop == FindSuccessor(fingers[n], n, Start(n, i))
  <2>0. i \in Finger
    BY <1>2, SlotTypes
  <2>1. UNCHANGED <<status, predecessor>>
    BY <1>7 DEF FixFingers
  <2>2. CASE /\ fingers' = [fingers EXCEPT ![n][i] = successor(n)]
             /\ UNCHANGED <<callbacks, net, repeated>>
    <3>1. \A k \in Node : \A j \in Finger : fingers'[k][j] \in Known \cup {k}
      BY <1>2, <1>3, <2>2 DEF StateOK
    <3>2. \A k \in Node : status'[k] \notin {"up", "leaving"} => callbacks'[k] = {}
      BY <2>1, <2>2 DEF Tidy, OpenAtRunning, Running
    <3>3. \A k \in Started : status'[k] \notin {"off", "joining"}
      BY <2>1 DEF Started
    <3> QED
      BY <1>3, <2>1, <2>2, <3>1, <3>2, <3>3, TidyQuiet
  <2>3. ASSUME NEW id \in ReqId, GetNext(n, "finger", id),
               Open(n, NewCallback(id, "finger", hop, i), {}),
               net' = net \cup Sent({NewRequest("LOOKUP", id, n, Start(n, i), hop, DefaultTtl)}),
               UNCHANGED fingers
        PROVE  Tidy'
    <3> DEFINE c == NewCallback(id, "finger", hop, i)
    <3>1. hop \in Known
      <4>1. fingers[n] \in [Finger -> Known]
        BY <1>2 DEF StateOK
      <4> QED
        BY <4>1, NextHopType
    <3>2. c \in Callback /\ c.id = id /\ c.peer \in Known
      <4>1. hop \in Peer
        BY <1>2, NextHopType
      <4> QED
        BY <1>4, <2>0, <3>1, <4>1, NewCallbackType DEF NewCallback
    <3>3. \A m \in net' : m \in net \/ (m.type \in {"CHECK", "REPLY"} => m.dst \notin Node)
      BY <2>3, SentSubset DEF NewRequest
    <3>4. Open(n, c, {})
      BY <2>3
    <3> HIDE DEF c
    <3>5. \A k \in Node :
            callbacks'[k] \subseteq callbacks[k] \cup (IF k = n THEN {c} ELSE {})
      BY <1>2, <3>2, <3>4, Opened
    <3>6. /\ \A k \in Node : \A j \in Finger : fingers'[k][j] \in Known \cup {k}
          /\ \A k \in Node : predecessor'[k] \in Started \cup {k}
      BY <1>3, <2>1, <2>3
    <3> HIDE DEF hop, i
    <3> QED
      BY <1>1, <2>1, <2>3, <3>2, <3>3, <3>5, <3>6, TidyAsk
  <2> QED
    BY <1>7, <2>2, <2>3 DEF FixFingers
<1> QED
  BY <1>5, <1>6, <1>7 DEF Updater

\* checkRequests, a request other than a check.
LEMMA ExpireRequestTidy ==
  ASSUME Inv, Tidy, NEW n \in Node, ExpireRequest(n)
  PROVE  Tidy'
<1>1. PICK e \in callbacks[n], id \in ReqId :
        /\ GetNext(n, "check", id)
        /\ Open(n, NewCallback(id, "check", e.peer, 0), {e})
        /\ net' = net \cup Sent({CheckRequest(n, id, e.peer)})
  BY DEF ExpireRequest
<1> DEFINE c == NewCallback(id, "check", e.peer, 0)
<1>2. n \in Running /\ "check" \in Kind /\ StateOK
      /\ UNCHANGED <<status, fingers, predecessor>>
  BY InvParts DEF ExpireRequest, Kind
<1>3. c \in Callback /\ c.id = id /\ c.peer \in Known
  <2>1. e.peer \in Peer /\ e.peer \in Known /\ 0 \in Finger
    BY <1>2, KnownStarted DEF StateOK, Callback
  <2> QED
    BY <1>2, <2>1, NewCallbackType DEF NewCallback
<1>4. \A m \in net' : m \in net \/ (m.type \in {"CHECK", "REPLY"} => m.dst \notin Node)
  BY <1>1, SentSubset, NodeAssumption DEF CheckRequest, NewRequest
<1>5. Open(n, c, {e})
  BY <1>1
<1> HIDE DEF c
<1>6. \A k \in Node :
        callbacks'[k] \subseteq callbacks[k] \cup (IF k = n THEN {c} ELSE {})
  BY <1>2, <1>3, <1>5, Opened
<1>7. /\ \A k \in Node : \A i \in Finger : fingers'[k][i] \in Known \cup {k}
      /\ \A k \in Node : predecessor'[k] \in Started \cup {k}
  BY <1>2 DEF Tidy, PeersStarted
<1> QED
  BY <1>1, <1>2, <1>3, <1>4, <1>6, <1>7, TidyAsk

\* removePeer replaces slots by the node itself, and asks for a new successor.
LEMMA RemovePeerTidy ==
  ASSUME Inv, Tidy, NEW n \in Running, NEW peer, NEW gone, NEW taken,
         RemovePeer(n, peer, gone, taken), UNCHANGED status
  PROVE  Tidy'
<1> DEFINE pred == IF peer = predecessor[n] THEN n ELSE predecessor[n]
<1>1. /\ n \in Node /\ n \in Started /\ StateOK /\ "succ" \in Kind
      /\ predecessor[n] \in Started /\ \A i \in Finger : fingers[n][i] \in Known
      /\ n \in Known
  BY KnownStarted, InvParts DEF Kind
<1>2. /\ \A k \in Node : \A i \in Finger : fingers[k][i] \in Known \cup {k}
      /\ \A k \in Node : predecessor[k] \in Started \cup {k}
  BY DEF Tidy, PeersStarted
<1>3. \A k \in Node : \A i \in Finger : fingers'[k][i] \in Known \cup {k}
  <2>1. \A i \in Finger : ResetSlots(n, peer)[i] \in Known
    BY <1>1 DEF ResetSlots
  <2>2. fingers' = [fingers EXCEPT ![n] = ResetSlots(n, peer)]
    BY DEF RemovePeer
  <2> QED
    BY <1>1, <1>2, <2>1, <2>2 DEF StateOK
<1>4. \A k \in Node : predecessor'[k] \in Started \cup {k}
  BY <1>1, <1>2 DEF RemovePeer, StateOK
<1>5. ASSUME NEW id \in ReqId, GetNext(n, "succ", id),
             Open(n, NewCallback(id, "succ", pred, 0), gone),
             net' = (net \ taken) \cup Sent({RecoveryRequest(n, id, pred)})
      PROVE  Tidy'
  <2> DEFINE c == NewCallback(id, "succ", pred, 0)
  <2>1. c \in Callback /\ c.id = id /\ c.peer \in Known
    <3>1. pred \in Peer /\ pred \in Known /\ 0 \in Finger
      BY <1>1, Neighbours DEF Known
    <3> HIDE DEF pred
    <3> QED
      BY <1>1, <3>1, NewCallbackType DEF NewCallback
  <2>2. \A m \in net' : m \in net \/ (m.type \in {"CHECK", "REPLY"} => m.dst \notin Node)
    BY <1>5, SentSubset DEF RecoveryRequest, NewRequest
  <2>3. Open(n, c, gone)
    BY <1>5
  <2> HIDE DEF c
  <2>4. \A k \in Node :
          callbacks'[k] \subseteq callbacks[k] \cup (IF k = n THEN {c} ELSE {})
    BY <1>1, <2>1, <2>3, Opened
  <2> QED
    BY <1>3, <1>4, <1>5, <2>1, <2>2, <2>4, TidyAsk
<1>6. CASE /\ callbacks' = [callbacks EXCEPT ![n] = @ \ gone]
           /\ net' = net \ taken
           /\ UNCHANGED repeated
  <2>1. \A k \in Node : callbacks'[k] \subseteq callbacks[k]
    BY <1>1, <1>6 DEF StateOK
  <2>2. \A k \in Node : status'[k] \notin {"up", "leaving"} => callbacks'[k] = {}
    BY <2>1 DEF Tidy, OpenAtRunning, Running
  <2>3. \A k \in Started : status'[k] \notin {"off", "joining"}
    BY DEF Started
  <2> QED
    BY <1>3, <1>4, <1>6, <2>1, <2>2, <2>3, TidyQuiet
<1> QED
  BY <1>5, <1>6 DEF RemovePeer

\* checkRequests.
LEMMA CheckRequestsTidy ==
  ASSUME Inv, Tidy, NEW n \in Node, CheckRequests(n)
  PROVE  Tidy'
<1>1. CASE ExpireCheck(n)
  <2>1. PICK e \in callbacks[n] : RemovePeer(n, e.peer, {e}, {})
    BY <1>1 DEF ExpireCheck
  <2>2. n \in Running /\ UNCHANGED status
    BY <1>1 DEF ExpireCheck
  <2> QED
    BY <2>1, <2>2, RemovePeerTidy
<1> QED
  BY <1>1, ExpireRequestTidy DEF CheckRequests

\* A reply a handler makes: what it names.
LEMMA RepliesName ==
  ASSUME NEW m, MessageFits(m), NEW dst
  PROVE  /\ ReplyTo(Hopped(m), dst).dst = dst
         /\ [ReplyTo(Hopped(m), dst) EXCEPT !.hop = 0].dst = dst
         /\ [ReplyTo(Hopped(m), dst) EXCEPT !.hop = 0].src = m.src
         /\ [ReplyTo(Hopped(m), dst) EXCEPT !.hop = 0].id = m.id
         /\ [ReplyTo(Hopped(m), dst) EXCEPT !.hop = 0].type = "REPLY"
<1>1. MessageFits(Hopped(m)) /\ Hopped(m).src = m.src /\ Hopped(m).id = m.id
  BY HoppedSame
<1> DEFINE h == Hopped(m)
<1> HIDE DEF h
<1>2. /\ ReplyTo(h, dst).dst = dst
      /\ [ReplyTo(h, dst) EXCEPT !.hop = 0].dst = dst
      /\ [ReplyTo(h, dst) EXCEPT !.hop = 0].src = h.src
      /\ [ReplyTo(h, dst) EXCEPT !.hop = 0].id = h.id
      /\ [ReplyTo(h, dst) EXCEPT !.hop = 0].type = "REPLY"
  <2>1. MessageFits(h)
    BY <1>1 DEF h
  <2> QED
    BY <2>1, ReplyRecord, ResetReplyRecord
<1> QED
  BY <1>1, <1>2 DEF h

\* handleLookup: the node itself or its successor answers.
LEMMA HandleLookupTidy ==
  ASSUME Inv, Tidy, NEW n \in Node, NEW m, HandleLookup(n, m)
  PROVE  Tidy'
<1> DEFINE hop == FindSuccessor(fingers[n], n, m.dst)
           owner == [ReplyTo(Hopped(m), successor(n)) EXCEPT !.hop = 0]
           self  == [ReplyTo(Hopped(m), n) EXCEPT !.hop = 0]
           fwd   == [Hopped(m) EXCEPT !.to = hop]
<1>1. n \in Running /\ MessageFits(m) /\ m \in Request
  BY Served DEF HandleLookup
<1>2. n \in Started /\ successor(n) \in Known
  BY <1>1, KnownStarted
<1>3. UNCHANGED <<status, fingers, predecessor, repeated>>
      /\ \A k \in Node : callbacks'[k] \subseteq callbacks[k]
  BY DEF HandleLookup
<1>4. /\ owner.dst \in Node => owner.dst \in Started
      /\ self.dst \in Started
  BY <1>1, <1>2, RepliesName, NodeAssumption DEF Known
<1>5. fwd.type = m.type
  BY <1>1 DEF Hopped, Request
<1>6. m.type = "LOOKUP"
  BY DEF HandleLookup
<1>7. net' \subseteq net \cup {owner, self, fwd}
  <2>1. \/ net' = (net \ {m}) \cup Sent({owner})
        \/ net' = (net \ {m}) \cup Sent({self})
        \/ net' = (net \ {m}) \cup Sent({fwd})
    BY DEF HandleLookup
  <2> HIDE DEF owner, self, fwd
  <2> QED
    BY <2>1, SentSubset
<1> HIDE DEF owner, self, fwd
<1>8. \A x \in net' : x \in net \/ (x.type \in {"CHECK", "REPLY"} /\ x.dst \in Node => x.dst \in Started)
  BY <1>4, <1>5, <1>6, <1>7
<1> QED
  BY <1>3, <1>8, TidySame

\* handleNotify: the source runs, or did when it sent the message.
LEMMA HandleNotifyTidy ==
  ASSUME Inv, Tidy, NEW n \in Node, NEW m, HandleNotify(n, m)
  PROVE  Tidy'
<1> DEFINE out == ReplyTo(Hopped(m), predecessor[n])
<1>1. n \in Running /\ MessageFits(m) /\ m \in net /\ StateOK
  BY Served DEF HandleNotify
<1>2. predecessor[n] \in Started
  BY <1>1, KnownStarted
<1>3. m.src \in Started
  <2>1. m.type = "NOTIFY" /\ m.src \in Node /\ OutsidersQuiet
    BY <1>1, InvParts DEF HandleNotify, MessageFits, NetOK
  <2> QED
    BY <1>1, <2>1 DEF OutsidersQuiet, Started
<1>4. UNCHANGED <<status, fingers, repeated>> /\ callbacks' = callbacks
  BY DEF HandleNotify
<1>5. out.dst \in Started
  BY <1>1, <1>2, RepliesName
<1>6. net' \subseteq net \cup {out}
  BY SentSubset DEF HandleNotify
<1> HIDE DEF out
<1>7. /\ \A k \in Node : \A i \in Finger : fingers'[k][i] \in Known \cup {k}
      /\ \A k \in Node : predecessor'[k] \in Started \cup {k}
  <2>1. /\ \A k \in Node : \A i \in Finger : fingers[k][i] \in Known \cup {k}
        /\ \A k \in Node : predecessor[k] \in Started \cup {k}
    BY DEF Tidy, PeersStarted
  <2>2. \A k \in Node : predecessor'[k] \in {predecessor[k], m.src}
    BY <1>1 DEF HandleNotify, StateOK
  <2> QED
    BY <1>3, <1>4, <2>1, <2>2
<1>8. \A k \in Node : status'[k] \notin {"up", "leaving"} => callbacks'[k] = {}
  BY <1>4 DEF Tidy, OpenAtRunning, Running
<1>9. \A k \in Started : status'[k] \notin {"off", "joining"}
  BY <1>4 DEF Started
<1>10. \A x \in net' : x \in net \/ (x.type \in {"CHECK", "REPLY"} /\ x.dst \in Node => x.dst \in Started)
  BY <1>5, <1>6
<1> QED
  BY <1>4, <1>7, <1>8, <1>9, <1>10, TidyQuiet

\* handleCheck: the reply names what the check named, nobody.
LEMMA HandleCheckTidy ==
  ASSUME Inv, Tidy, NEW n \in Node, NEW m, HandleCheck(n, m)
  PROVE  Tidy'
<1> DEFINE out == ReplyTo(Hopped(m), m.dst)
<1>1. MessageFits(m) /\ m \in net
  BY Served DEF HandleCheck
<1>2. out.dst = m.dst
  BY <1>1, RepliesName
<1>3. UNCHANGED <<status, fingers, predecessor, callbacks, repeated>>
  BY DEF HandleCheck
<1>4. net' \subseteq net \cup {out}
  BY SentSubset DEF HandleCheck
<1> HIDE DEF out
<1>5. \A x \in net' : x \in net \/ (x.type \in {"CHECK", "REPLY"} /\ x.dst \in Node => x.dst \in Started)
  BY <1>1, <1>2, <1>4 DEF Tidy, PeersStarted, HandleCheck
<1> QED
  BY <1>3, <1>5, TidySame

\* handleReply: what a node learns from a reply has started.
LEMMA HandleReplyTidy ==
  ASSUME Inv, Tidy, NEW n \in Node, NEW m, HandleReply(n, m)
  PROVE  Tidy'
<1>1. /\ StateOK /\ n \in Running /\ m \in net /\ m.to = n /\ MessageFits(m)
      /\ m.type = "REPLY"
  BY Served DEF HandleReply
<1>3. net' \subseteq net /\ UNCHANGED <<status, predecessor, repeated>>
  BY DEF HandleReply
<1>4. CASE UNCHANGED <<fingers, callbacks>>
  BY <1>3, <1>4, TidySame
<1>5. ASSUME NEW c \in callbacks[n], c.id = m.id, OnSuccess(n, c, m.dst),
             callbacks' = [callbacks EXCEPT ![n] = @ \ {c}]
      PROVE  Tidy'
  <2>2. m.dst \in Known
    BY <1>1 DEF MessageFits, Peer, Known, Tidy, PeersStarted
  <2>3. c.finger \in Finger /\ 0 \in Finger
    <3>1. c \in Callback
      BY <1>1 DEF StateOK
    <3> QED
      BY <1>1, <3>1, Neighbours DEF Callback
  <2>4. \A k \in Node : \A i \in Finger : fingers'[k][i] \in Known \cup {k}
    <3>1. \A k \in Node : \A i \in Finger :
            \/ fingers'[k][i] = fingers[k][i]
            \/ fingers'[k][i] = m.dst
      <4>1. \/ fingers' = fingers
            \/ \E j \in Finger : fingers' = [fingers EXCEPT ![n][j] = m.dst]
        BY <1>5, <2>3 DEF OnSuccess
      <4>2. fingers \in [Node -> [Finger -> Peer]]
        BY <1>1 DEF StateOK
      <4>3. ASSUME NEW j \in Finger, fingers' = [fingers EXCEPT ![n][j] = m.dst],
                   NEW k \in Node, NEW i \in Finger
            PROVE  fingers'[k][i] \in {fingers[k][i], m.dst}
        BY <4>2, <4>3
      <4>4. CASE fingers' = fingers
        BY <4>4
      <4>5. CASE fingers' # fingers
        BY <4>1, <4>3, <4>5
      <4> QED
        BY <4>4, <4>5
    <3>2. \A k \in Node : \A i \in Finger : fingers[k][i] \in Known \cup {k}
      BY DEF Tidy, PeersStarted
    <3> QED
      BY <2>2, <3>1, <3>2
  <2>5. \A k \in Node : callbacks'[k] \subseteq callbacks[k]
    BY <1>1, <1>5 DEF StateOK
  <2>6. \A k \in Node : status'[k] \notin {"up", "leaving"} => callbacks'[k] = {}
    BY <1>3, <2>5 DEF Tidy, OpenAtRunning, Running
  <2>7. \A k \in Started : status'[k] \notin {"off", "joining"}
    BY <1>3 DEF Started
  <2>8. \A k \in Node : predecessor'[k] \in Started \cup {k}
    BY <1>3 DEF Tidy, PeersStarted
  <2> QED
    BY <1>3, <2>4, <2>5, <2>6, <2>7, <2>8, TidyQuiet
<1> QED
  BY <1>4, <1>5 DEF HandleReply

\* The receiver.
LEMMA ReceiverTidy ==
  ASSUME Inv, Tidy, NEW n \in Node, NEW m, Receive(n, m)
  PROVE  Tidy'
<1>1. CASE DropExpired(n, m)
  BY <1>1, TidySame DEF DropExpired
<1>2. CASE HandleLeave(n, m)
  <2>1. n \in Running
    BY <1>2 DEF HandleLeave, Arriving
  <2> QED
    BY <1>2, <2>1, RemovePeerTidy DEF HandleLeave
<1> QED
  BY <1>1, <1>2, HandleLookupTidy, HandleNotifyTidy, HandleCheckTidy, HandleReplyTidy
  DEF Receive

\* The program: joining starts no node before its reply has come, and the reply
\* names a node that has started.
LEMMA ProgramTidy ==
  ASSUME Inv, Tidy, NEW n \in Node, Program(n)
  PROVE  Tidy'
<1>0. StateOK
  BY InvParts
<1>1. ASSUME NEW peer \in Node, Join(n, peer)
      PROVE  Tidy'
  <2>1. /\ status[n] = "off" /\ status' = [status EXCEPT ![n] = "joining"]
        /\ UNCHANGED <<fingers, predecessor, callbacks>>
    BY <1>1 DEF Join
  <2>2. PICK id \in ReqId :
          /\ GetNext(n, "join", id)
          /\ net' = net \cup Sent({NewRequest("LOOKUP", id, n, n, peer, DefaultTtl)})
    BY <1>1 DEF Join
  <2>3. \A x \in net' : x.type \in {"CHECK", "REPLY"} /\ x.dst \in Node => x.dst \in Started
    BY <2>2, SentSubset DEF NewRequest, Tidy, PeersStarted
  <2>4. /\ \A k \in Started : status'[k] \notin {"off", "joining"}
        /\ \A k \in Node : status'[k] \notin {"up", "leaving"} => callbacks'[k] = {}
    BY <1>0, <2>1 DEF Started, Tidy, OpenAtRunning, Running, StateOK
  <2>5. /\ \A k \in Node : \A i \in Finger : fingers'[k][i] \in Known \cup {k}
        /\ \A k \in Node : predecessor'[k] \in Started \cup {k}
    BY <2>1 DEF Tidy, PeersStarted
  <2>6. repeated' = 0 => repeated = 0
    BY <1>0, <2>2, Drawn
  <2> QED
    BY <2>1, <2>3, <2>4, <2>5, <2>6, TidyStep
<1>2. CASE JoinReply(n)
  <2>1. PICK m \in net : /\ m.to = n
                         /\ m.type = "REPLY"
                         /\ net' = net \ {m}
                         /\ fingers' = [fingers EXCEPT ![n][0] = m.dst]
    BY <1>2 DEF JoinReply
  <2>2. /\ status[n] = "joining" /\ status' = [status EXCEPT ![n] = "up"]
        /\ UNCHANGED <<predecessor, callbacks, repeated>>
    BY <1>2 DEF JoinReply
  <2>3. m.src = n
    BY <2>1, InvParts DEF Sendable, MessageFits, NetOK
  <2>4. m.dst \in Known
    BY <2>1, InvParts DEF Sendable, MessageFits, NetOK, Peer, Known, Tidy, PeersStarted
  <2>5. /\ \A k \in Started : status'[k] \notin {"off", "joining"}
        /\ \A k \in Node : status'[k] \notin {"up", "leaving"} => callbacks'[k] = {}
    BY <1>0, <2>2 DEF Started, Tidy, OpenAtRunning, Running, StateOK
  <2>6. \A k \in Node : \A i \in Finger : fingers'[k][i] \in Known \cup {k}
    <3>1. fingers \in [Node -> [Finger -> Peer]] /\ 0 \in Finger
      BY <1>0, WidthAssumption DEF StateOK, Finger
    <3>2. \A k \in Node : \A i \in Finger : fingers'[k][i] \in {fingers[k][i], m.dst}
      BY <2>1, <3>1
    <3> QED
      BY <2>4, <3>2 DEF Tidy, PeersStarted
  <2>7. \A k \in Node : predecessor'[k] \in Started \cup {k}
    BY <2>2 DEF Tidy, PeersStarted
  <2> QED
    BY <2>1, <2>2, <2>5, <2>6, <2>7, TidyQuiet
<1>3. ASSUME NEW key \in Key, Lookup(n, key)
      PROVE  Tidy'
  <2> DEFINE hop == FindSuccessor(fingers[n], n, key)
  <2>1. n \in Running /\ UNCHANGED <<status, fingers, predecessor>> /\ "lookup" \in Kind
    BY <1>3 DEF Lookup, Running, Kind
  <2>2. CASE UNCHANGED <<callbacks, net, repeated>>
    BY <2>1, <2>2, TidySame
  <2>3. ASSUME NEW id \in ReqId, GetNext(n, "lookup", id),
               Open(n, NewCallback(id, "lookup", hop, 0), {}),
               net' = net \cup Sent({NewRequest("LOOKUP", id, n, key, hop, LookupTtl)})
        PROVE  Tidy'
    <3> DEFINE c == NewCallback(id, "lookup", hop, 0)
    <3>1. hop \in Known /\ hop \in Peer /\ 0 \in Finger
      <4>1. fingers[n] \in [Finger -> Known] /\ fingers[n] \in [Finger -> Peer] /\ 0 \in Finger
        BY <1>0, <2>1, KnownStarted, Neighbours DEF StateOK
      <4> QED
        BY <4>1, NextHopType
    <3> HIDE DEF hop
    <3>2. c \in Callback /\ c.id = id /\ c.peer \in Known
      BY <2>1, <3>1, NewCallbackType DEF NewCallback
    <3>3. \A x \in net' : x \in net \/ (x.type \in {"CHECK", "REPLY"} => x.dst \notin Node)
      BY <2>3, SentSubset DEF NewRequest
    <3>4. Open(n, c, {})
      BY <2>3
    <3> HIDE DEF c
    <3>5. \A k \in Node :
            callbacks'[k] \subseteq callbacks[k] \cup (IF k = n THEN {c} ELSE {})
      BY <1>0, <3>2, <3>4, Opened
    <3>6. /\ \A k \in Node : \A i \in Finger : fingers'[k][i] \in Known \cup {k}
          /\ \A k \in Node : predecessor'[k] \in Started \cup {k}
      BY <2>1 DEF Tidy, PeersStarted
    <3> QED
      BY <2>1, <2>3, <3>2, <3>3, <3>5, <3>6, TidyAsk
  <2> QED
    BY <1>3, <2>2, <2>3 DEF Lookup
<1>4. CASE Leave(n)
  <2>1. /\ status[n] = "up" /\ status' = [status EXCEPT ![n] = "leaving"]
        /\ UNCHANGED <<fingers, predecessor, callbacks, repeated>>
    BY <1>4 DEF Leave
  <2>2. \A x \in net' : x \in net \/ (x.type \in {"CHECK", "REPLY"} => x.dst \notin Node)
    BY <1>4, SentSubset DEF Leave, NewRequest
  <2>3. /\ \A k \in Started : status'[k] \notin {"off", "joining"}
        /\ \A k \in Node : status'[k] \notin {"up", "leaving"} => callbacks'[k] = {}
    BY <1>0, <2>1 DEF Started, Tidy, OpenAtRunning, Running, StateOK
  <2>4. /\ \A k \in Node : \A i \in Finger : fingers'[k][i] \in Known \cup {k}
        /\ \A k \in Node : predecessor'[k] \in Started \cup {k}
    BY <2>1 DEF Tidy, PeersStarted
  <2> QED
    BY <2>1, <2>2, <2>3, <2>4, TidyQuiet
<1> QED
  BY <1>1, <1>2, <1>3, <1>4 DEF Program

\* The environment: a node that stops keeps no request.
LEMMA EnvironmentTidy ==
  ASSUME Inv, Tidy, Environment
  PROVE  Tidy'
<1>0. StateOK
  BY InvParts
<1>1. ASSUME NEW n \in Node, NEW how \in {"left", "crashed"}, Stop(n, how)
      PROVE  Tidy'
  <2>1. /\ \A k \in Node : \A i \in Finger : fingers'[k][i] \in Known \cup {k}
        /\ \A k \in Node : predecessor'[k] \in Started \cup {k}
        /\ \A k \in Node : callbacks'[k] \subseteq callbacks[k]
    BY <1>0, <1>1 DEF Stop, StateOK, Tidy, PeersStarted
  <2>2. /\ \A k \in Started : status'[k] \notin {"off", "joining"}
        /\ \A k \in Node : status'[k] \notin {"up", "leaving"} => callbacks'[k] = {}
    BY <1>0, <1>1 DEF Stop, StateOK, Started, Tidy, OpenAtRunning, Running
  <2>3. (\A x \in net' : x \in net) /\ repeated' = repeated
    BY <1>1 DEF Stop
  <2> QED
    BY <2>1, <2>2, <2>3, TidyQuiet
<1>2. ASSUME NEW m, Lose(m)
      PROVE  Tidy'
  BY <1>2, TidySame DEF Lose
<1> QED
  BY <1>1, <1>2 DEF Environment, Exit, Crash

\* Both specifications start so, for the members of the ring all run.
LEMMA TidyInit == Init \/ StaleInit => Tidy
<1> SUFFICES ASSUME Init \/ StaleInit
             PROVE  Tidy
  OBVIOUS
<1>1. InitRest /\ Inv
  BY InvAtStart DEF Init, StaleInit
<1>2. \A n \in Initial : n \in Started /\ n \in Known /\ n \in Node /\ n \in Id
  BY <1>1, NodeAssumption DEF InitRest, Started, Known
<1>3. \A n \in Node : \A i \in Finger : fingers[n][i] \in Known \cup {n}
  <2>1. CASE Init
    <3> SUFFICES ASSUME NEW n \in Node, NEW i \in Finger
                 PROVE  SettledFingers[n][i] \in Initial \cup {n}
      BY <1>2, <2>1 DEF Init
    <3>1. Initial \in SUBSET Id /\ n \in Id /\ i \in 0 .. Bits
      BY NodeAssumption, WidthAssumption DEF Finger
    <3>2. Start(n, i) \in Id
      BY <3>1, IdArithmetic DEF Start
    <3>3. Initial # {} => /\ NextAfter(n, Initial) \in Initial
                          /\ NextAfter(Start(n, i), Initial) \in Initial
      BY <3>1, <3>2, NeighboursExist
    <3> QED
      BY <3>3 DEF SettledFingers, Owner
  <2>2. CASE StaleInit
    BY <1>2, <2>2 DEF StaleInit
  <2> QED
    BY <2>1, <2>2
<1>4. \A n \in Node : predecessor[n] \in Started \cup {n}
  <2>1. \A n \in Initial : NextBefore(n, Initial) \in Initial
    BY <1>2, NeighboursExist
  <2> QED
    BY <1>1, <1>2, <2>1 DEF InitRest
<1> QED
  BY <1>1, <1>3, <1>4 DEF Tidy, PeersStarted, OpenAtRunning, NumbersApart, InitRest

\* Every step keeps it.
LEMMA TidyNext == Inv /\ Tidy /\ [Next]_vars => Tidy'
<1>1. ASSUME Inv, Tidy, UNCHANGED vars
      PROVE  Tidy'
  BY <1>1, TidySame DEF vars
<1> QED
  BY <1>1, UpdaterTidy, CheckRequestsTidy, ReceiverTidy, ProgramTidy, EnvironmentTidy
  DEF Next, Receiver

\* The invariant of the lemmas above.
LEMMA TidyAlways == Spec \/ StaleSpec => []Tidy
<1>1. Spec => []Inv /\ []Tidy
  BY Invariance, TidyInit, TidyNext, PTL DEF Spec
<1>2. StaleSpec => []Inv /\ []Tidy
  BY Invariance, TidyInit, TidyNext, PTL DEF StaleSpec
<1> QED
  BY <1>1, <1>2, PTL

\* No node ever holds or hands on a node that has not joined, whatever is lost,
\* whoever stops and whatever numbers requests are given (join, handleLookup,
\* handleNotify, handleReply).
THEOREM NamesStarted == Spec \/ StaleSpec => []PeersStarted
<1>1. Tidy => PeersStarted
  BY DEF Tidy
<1> QED
  BY <1>1, TidyAlways, PTL

----------------------------------------------------------------------------
(***************************************************************************)
(* Checks: each open check of a node that is up is on its way to that node *)
(* or answered.                                                            *)
(***************************************************************************)

\* What a step may do without disturbing it.
LEMMA WatchStep ==
  ASSUME Inv, Tidy, Watched, ChecksDirect,
         \A k \in Started : status'[k] = "up" => status[k] = "up",
         \A k \in Node : \A c \in callbacks'[k] :
           c.kind = "check" =>
             \/ c \in callbacks[k]
             \/ /\ \A m \in net' : m.src = k /\ m.id = c.id => Direct(c, m)
                /\ c.peer \in Members' => \E m \in net' : m.src = k /\ m.id = c.id,
         \A m \in net' \ net, k \in Node : \A c \in callbacks[k] :
           c.kind = "check" /\ m.src = k /\ m.id = c.id => Direct(c, m),
         \A m \in net \ net', k \in Node : \A c \in callbacks[k] \cap callbacks'[k] :
           c.kind = "check" /\ m.src = k /\ m.id = c.id /\ c.peer \in Members' =>
             \E x \in net' : x.src = k /\ x.id = c.id
  PROVE  Watched' /\ ChecksDirect'
<1>1. ASSUME NEW k \in Node, NEW c \in callbacks'[k], c.kind = "check",
             c.peer \in Members'
      PROVE  \E m \in net' : m.src = k /\ m.id = c.id
  <2>1. CASE c \notin callbacks[k]
    BY <1>1, <2>1
  <2>2. CASE c \in callbacks[k]
    <3>1. c.peer \in Members
      <4>1. c.peer \in Known /\ c.peer \in Node /\ status'[c.peer] = "up"
        BY <1>1, <2>2 DEF Tidy, PeersStarted, Members
      <4>2. c.peer \in Started
        BY <4>1, NodeAssumption DEF Known
      <4> QED
        BY <4>1, <4>2 DEF Members
    <3>2. PICK m \in net : m.src = k /\ m.id = c.id
      BY <1>1, <2>2, <3>1 DEF Watched, Answerable
    <3>3. CASE m \in net'
      BY <3>2, <3>3
    <3>4. CASE m \notin net'
      <4>1. m \in net \ net' /\ c \in callbacks[k] \cap callbacks'[k]
        BY <1>1, <2>2, <3>4
      <4> QED
        BY <1>1, <3>2, <4>1
    <3> QED
      BY <3>3, <3>4
  <2> QED
    BY <2>1, <2>2
<1>2. ASSUME NEW k \in Node, NEW c \in callbacks'[k], NEW m \in net',
             c.kind = "check", m.src = k, m.id = c.id
      PROVE  Direct(c, m)
  <2>1. CASE c \notin callbacks[k]
    BY <1>2, <2>1
  <2>2. CASE c \in callbacks[k] /\ m \in net
    BY <1>2, <2>2 DEF ChecksDirect
  <2>3. CASE c \in callbacks[k] /\ m \in net' \ net
    BY <1>2, <2>3
  <2> QED
    BY <2>1, <2>2, <2>3
<1>3. Watched'
  BY <1>1 DEF Watched, Answerable
<1>4. ChecksDirect'
  BY <1>2 DEF ChecksDirect, Direct
<1> QED
  BY <1>3, <1>4

\* What holds as long as no number is ever drawn while it is in use.
LEMMA NoneRepeated ==
  ASSUME MaxRepeat = 0, Inv
  PROVE  repeated = 0 /\ StateOK /\ AnswersFit /\ NewcomersNamed
<1>1. repeated = 0
  BY InvParts DEF StateOK
<1> QED
  BY <1>1, InvParts DEF NetOK

\* The number of a new request is free.
LEMMA Fresh ==
  ASSUME MaxRepeat = 0, Inv, NEW n \in Node, NEW kind, NEW id, GetNext(n, kind, id)
  PROVE  /\ \A c \in callbacks[n] : c.id # id
         /\ \A m \in net : m.src = n => m.id # id
<1>1. StateOK /\ repeated' \in 0 .. MaxRepeat
  BY InvParts, Drawn
<1>2. repeated' = 0
  BY <1>1
<1> QED
  BY <1>1, <1>2, Drawn

\* The messages under an open check are checks and replies.
LEMMA CheckTypes ==
  ASSUME MaxRepeat = 0, Inv, NEW k \in Node, NEW c \in callbacks[k], NEW m \in net,
         c.kind = "check", m.src = k, m.id = c.id
  PROVE  m.type \in {"CHECK", "REPLY"}
BY NoneRepeated DEF AnswersFit, Fits

\* A node opens a request; if it is a check, the check is on its way.
LEMMA WatchAsk ==
  ASSUME MaxRepeat = 0, Inv, Tidy, Watched, ChecksDirect,
         NEW n \in Node, NEW kind, NEW id, GetNext(n, kind, id),
         NEW q, NEW c, c.id = id,
         \/ q.src = n /\ q.id = c.id
         \/ q.src = Nobody,
         c.kind = "check" =>
           Direct(c, q) /\ q.src = n /\ (c.peer \in Members => q \in net'),
         UNCHANGED status,
         \A k \in Node :
           callbacks'[k] \subseteq callbacks[k] \cup (IF k = n THEN {c} ELSE {}),
         net' \subseteq net \cup {q},
         \A m \in net : m.type \in {"CHECK", "REPLY"} => m \in net'
  PROVE  Watched' /\ ChecksDirect'
<1>0. Nobody \notin Node
  BY NodeAssumption
<1>1. /\ \A d \in callbacks[n] : d.id # c.id
      /\ \A m \in net : m.src = n => m.id # c.id
  BY Fresh
<1>2. ASSUME NEW k \in Node, NEW d \in callbacks'[k], d.kind = "check", d \notin callbacks[k]
      PROVE  /\ \A m \in net' : m.src = k /\ m.id = d.id => Direct(d, m)
             /\ d.peer \in Members' => \E m \in net' : m.src = k /\ m.id = d.id
  <2>1. k = n /\ d = c
    BY <1>2
  <2>2. q.src = n /\ q.id = c.id /\ Direct(c, q)
    BY <1>0, <1>2, <2>1
  <2> QED
    BY <1>1, <1>2, <2>1, <2>2 DEF Members
<1>3. ASSUME NEW m \in net' \ net, NEW k \in Node, NEW d \in callbacks[k],
             d.kind = "check", m.src = k, m.id = d.id
      PROVE  Direct(d, m)
  <2>1. m = q /\ k = n /\ m.id = c.id
    BY <1>0, <1>3
  <2> QED
    BY <1>1, <1>3, <2>1
<1>4. ASSUME NEW m \in net \ net', NEW k \in Node, NEW d \in callbacks[k],
             d.kind = "check", m.src = k, m.id = d.id
      PROVE  FALSE
  BY <1>4, CheckTypes
<1>5. \A k \in Started : status'[k] = "up" => status[k] = "up"
  OBVIOUS
<1> QED
  BY <1>2, <1>3, <1>4, <1>5, WatchStep

\* A node serves a message of a kind that checks do not send, or takes one such
\* without an answer; it may forget requests.
LEMMA WatchServe ==
  ASSUME MaxRepeat = 0, Inv, Tidy, Watched, ChecksDirect, NEW m \in net,
         m.type \notin {"CHECK", "REPLY"},
         \A x \in net' : x \in net \/ (x.src = m.src /\ x.id = m.id),
         \A x \in net : x # m => x \in net',
         UNCHANGED status,
         \A k \in Node : callbacks'[k] \subseteq callbacks[k]
  PROVE  Watched' /\ ChecksDirect'
<1>1. ASSUME NEW k \in Node, NEW c \in callbacks[k], c.kind = "check",
             m.src = k, m.id = c.id
      PROVE  FALSE
  BY <1>1, CheckTypes
<1>2. \A k \in Started : status'[k] = "up" => status[k] = "up"
  OBVIOUS
<1> QED
  BY <1>1, <1>2, WatchStep

\* A check and its callback.
LEMMA CheckDirect ==
  ASSUME NEW n \in Node, NEW id \in ReqId, NEW peer \in Peer
  PROVE  /\ CheckRequest(n, id, peer).src = n
         /\ CheckRequest(n, id, peer).id = id
         /\ NewCallback(id, "check", peer, 0).id = id
         /\ NewCallback(id, "check", peer, 0).kind = "check"
         /\ NewCallback(id, "check", peer, 0).peer = peer
         /\ NewCallback(id, "check", peer, 0) \in Callback
         /\ Direct(NewCallback(id, "check", peer, 0), CheckRequest(n, id, peer))
         /\ peer \in Members => CheckRequest(n, id, peer) \in Sent({CheckRequest(n, id, peer)})
<1>1. 0 \in Finger /\ "check" \in Kind
  BY WidthAssumption DEF Finger, Kind
<1> QED
  BY <1>1, NewCallbackType DEF CheckRequest, NewRequest, NewCallback, Direct, Sent, Members

\* The updater's calls.
LEMMA UpdaterWatch ==
  ASSUME MaxRepeat = 0, Inv, Tidy, Watched, ChecksDirect, NEW n \in Node, Updater(n)
  PROVE  Watched' /\ ChecksDirect'
<1>1. /\ UNCHANGED status /\ StateOK
      /\ "notify" \in Kind /\ "finger" \in Kind /\ "check" \in Kind
      /\ predecessor[n] \in Peer /\ successor(n) \in Peer /\ 0 \in Finger
      /\ fingers[n] \in [Finger -> Peer]
  BY InvParts, Neighbours DEF Updater, Stabilize, FixFingers, CheckPredecessor, OnDuty, Kind
<1>2. ASSUME NEW kind \in Kind \ {"check"}, NEW id, GetNext(n, kind, id), NEW q,
             NEW c \in Callback, c.id = id, c.kind = kind, q.src = n, q.id = c.id,
             Open(n, c, {}), net' = net \cup Sent({q})
      PROVE  Watched' /\ ChecksDirect'
  <2>1. \A k \in Node :
          callbacks'[k] \subseteq callbacks[k] \cup (IF k = n THEN {c} ELSE {})
    BY <1>1, <1>2, Opened
  <2>2. net' \subseteq net \cup {q} /\ net \subseteq net'
    BY <1>2, SentSubset
  <2> QED
    BY <1>1, <1>2, <2>1, <2>2, WatchAsk
<1>3. CASE Stabilize(n)
  <2>1. PICK id \in ReqId :
          /\ GetNext(n, "notify", id)
          /\ Open(n, NewCallback(id, "notify", successor(n), 0), {})
          /\ net' = net \cup Sent({NewRequest("NOTIFY", id, n, Nobody, successor(n), DefaultTtl)})
    BY <1>3 DEF Stabilize
  <2> DEFINE c == NewCallback(id, "notify", successor(n), 0)
             q == NewRequest("NOTIFY", id, n, Nobody, successor(n), DefaultTtl)
  <2>2. /\ c \in Callback /\ c.id = id /\ c.kind = "notify" /\ q.src = n /\ q.id = c.id
        /\ "notify" \in Kind \ {"check"}
    BY <1>1, NewCallbackType DEF NewRequest
  <2>3. Open(n, c, {}) /\ net' = net \cup Sent({q})
    BY <2>1
  <2> HIDE DEF c, q
  <2> QED
    BY <1>2, <2>1, <2>2, <2>3
<1>4. CASE FixFingers(n)
  <2> DEFINE i   == nextFinger[n]
             hop == FindSuccessor(fingers[n], n, Start(n, i))
  <2>1. CASE UNCHANGED <<callbacks, net>>
    BY <1>1, <2>1, WatchStep
  <2>2. ASSUME NEW id \in ReqId, GetNext(n, "finger", id),
               Open(n, NewCallback(id, "finger", hop, i), {}),
               net' = net \cup Sent({NewRequest("LOOKUP", id, n, Start(n, i), hop, DefaultTtl)})
        PROVE  Watched' /\ ChecksDirect'
    <3> DEFINE c == NewCallback(id, "finger", hop, i)
               q == NewRequest("LOOKUP", id, n, Start(n, i), hop, DefaultTtl)
    <3>1. hop \in Peer /\ i \in Finger
      BY <1>1, NextHopType, SlotTypes
    <3>2. /\ c \in Callback /\ c.id = id /\ c.kind = "finger" /\ q.src = n /\ q.id = c.id
          /\ "finger" \in Kind \ {"check"}
      BY <1>1, <3>1, NewCallbackType DEF NewRequest
    <3>3. Open(n, c, {}) /\ net' = net \cup Sent({q})
      BY <2>2
    <3> HIDE DEF c, q
    <3> QED
      BY <1>2, <2>2, <3>2, <3>3
  <2> QED
    BY <1>4, <2>1, <2>2 DEF FixFingers
<1>5. CASE CheckPredecessor(n)
  <2>1. PICK id \in ReqId :
          /\ GetNext(n, "check", id)
          /\ Open(n, NewCallback(id, "check", predecessor[n], 0), {})
          /\ net' = net \cup Sent({CheckRequest(n, id, predecessor[n])})
    BY <1>5 DEF CheckPredecessor
  <2> DEFINE c == NewCallback(id, "check", predecessor[n], 0)
             q == CheckRequest(n, id, predecessor[n])
  <2>2. /\ q.src = n /\ c.id = id /\ q.id = c.id /\ Direct(c, q) /\ c \in Callback
        /\ c.peer \in Members => q \in Sent({q})
    BY <1>1, CheckDirect
  <2>3. Open(n, c, {}) /\ net' = net \cup Sent({q})
    BY <2>1
  <2> HIDE DEF c, q
  <2>4. \A k \in Node :
          callbacks'[k] \subseteq callbacks[k] \cup (IF k = n THEN {c} ELSE {})
    BY <1>1, <2>2, <2>3, Opened
  <2>5. net' \subseteq net \cup {q} /\ net \subseteq net'
    BY <2>3, SentSubset
  <2>6. c.peer \in Members => q \in net'
    BY <2>2, <2>3
  <2>7. \A m \in net : m.type \in {"CHECK", "REPLY"} => m \in net'
    BY <2>5
  <2> QED
    BY <1>1, <2>1, <2>2, <2>4, <2>5, <2>6, <2>7, WatchAsk
<1> QED
  BY <1>3, <1>4, <1>5 DEF Updater

\* removePeer opens no check.
LEMMA RemovePeerWatch ==
  ASSUME MaxRepeat = 0, Inv, Tidy, Watched, ChecksDirect, NEW n \in Node, NEW peer,
         NEW gone, NEW taken, \A m \in taken : m.type \notin {"CHECK", "REPLY"},
         RemovePeer(n, peer, gone, taken), UNCHANGED status
  PROVE  Watched' /\ ChecksDirect'
<1> DEFINE pred == IF peer = predecessor[n] THEN n ELSE predecessor[n]
<1>1. "succ" \in Kind /\ StateOK /\ 0 \in Finger /\ pred \in Peer
  BY InvParts, Neighbours DEF Kind
<1> HIDE DEF pred
<1>2. ASSUME NEW id \in ReqId, GetNext(n, "succ", id),
             Open(n, NewCallback(id, "succ", pred, 0), gone),
             net' = (net \ taken) \cup Sent({RecoveryRequest(n, id, pred)})
      PROVE  Watched' /\ ChecksDirect'
  <2> DEFINE c == NewCallback(id, "succ", pred, 0)
             q == RecoveryRequest(n, id, pred)
  <2>1. /\ c \in Callback /\ c.id = id /\ c.kind # "check" /\ q.src = Nobody
    BY <1>1, NewCallbackType DEF RecoveryRequest, NewRequest
  <2>2. Open(n, c, gone) /\ net' = (net \ taken) \cup Sent({q})
    BY <1>2
  <2> HIDE DEF c, q
  <2>3. \A k \in Node :
          callbacks'[k] \subseteq callbacks[k] \cup (IF k = n THEN {c} ELSE {})
    BY <1>1, <2>1, <2>2, Opened
  <2>4. /\ net' \subseteq net \cup {q}
        /\ \A m \in net : m.type \in {"CHECK", "REPLY"} => m \in net'
    BY <2>2, SentSubset
  <2> QED
    BY <1>1, <1>2, <2>1, <2>3, <2>4, WatchAsk
<1>3. CASE /\ callbacks' = [callbacks EXCEPT ![n] = @ \ gone]
           /\ net' = net \ taken
  <2>1. \A k \in Node : callbacks'[k] \subseteq callbacks[k]
    BY <1>1, <1>3 DEF StateOK
  <2>2. ASSUME NEW m \in net \ net', NEW k \in Node, NEW d \in callbacks[k],
               d.kind = "check", m.src = k, m.id = d.id
        PROVE  FALSE
    BY <1>3, <2>2, CheckTypes
  <2> QED
    BY <1>3, <2>1, <2>2, WatchStep
<1> QED
  BY <1>2, <1>3 DEF RemovePeer, pred

\* checkRequests: a request that is given up is followed by a check of its peer.
LEMMA CheckRequestsWatch ==
  ASSUME MaxRepeat = 0, Inv, Tidy, Watched, ChecksDirect, NEW n \in Node, CheckRequests(n)
  PROVE  Watched' /\ ChecksDirect'
<1>1. CASE ExpireRequest(n)
  <2>1. PICK e \in callbacks[n], id \in ReqId :
          /\ GetNext(n, "check", id)
          /\ Open(n, NewCallback(id, "check", e.peer, 0), {e})
          /\ net' = net \cup Sent({CheckRequest(n, id, e.peer)})
    BY <1>1 DEF ExpireRequest
  <2> DEFINE c == NewCallback(id, "check", e.peer, 0)
             q == CheckRequest(n, id, e.peer)
  <2>2. UNCHANGED status /\ StateOK
    BY <1>1, InvParts DEF ExpireRequest
  <2>3. e.peer \in Peer
    BY <2>2 DEF StateOK, Callback
  <2>4. /\ q.src = n /\ c.id = id /\ q.id = c.id /\ Direct(c, q) /\ c \in Callback
        /\ c.peer \in Members => q \in Sent({q})
    BY <2>3, CheckDirect
  <2>5. Open(n, c, {e}) /\ net' = net \cup Sent({q})
    BY <2>1
  <2> HIDE DEF c, q
  <2>6. \A k \in Node :
          callbacks'[k] \subseteq callbacks[k] \cup (IF k = n THEN {c} ELSE {})
    BY <2>2, <2>4, <2>5, Opened
  <2>7. net' \subseteq net \cup {q} /\ net \subseteq net'
    BY <2>5, SentSubset
  <2>8. c.peer \in Members => q \in net'
    BY <2>4, <2>5
  <2>9. \A m \in net : m.type \in {"CHECK", "REPLY"} => m \in net'
    BY <2>7
  <2> QED
    BY <2>1, <2>2, <2>4, <2>6, <2>7, <2>8, <2>9, WatchAsk
<1>2. CASE ExpireCheck(n)
  <2>1. PICK e \in callbacks[n] : RemovePeer(n, e.peer, {e}, {})
    BY <1>2 DEF ExpireCheck
  <2>2. UNCHANGED status
    BY <1>2 DEF ExpireCheck
  <2> QED
    BY <2>1, <2>2, RemovePeerWatch
<1> QED
  BY <1>1, <1>2 DEF CheckRequests

\* The default number of hops is enough for a check and its reply: the reply
\* counts on from the hop of the check (handleCheck does not reset it).
RoundTrip == DefaultTtl \notin {1, 2}

\* No message under an open check is dropped for its age.
LEMMA ChecksFresh ==
  ASSUME RoundTrip, NEW c, NEW m, MessageFits(m), Direct(c, m)
  PROVE  ~Expired(Hopped(m))
<1>1. Hopped(m).ttl = DefaultTtl /\ Hopped(m).hop \in {1, 2} /\ DefaultTtl \in Nat
  BY HoppedSame, RequestAssumption DEF Direct
<1> QED
  BY <1>1 DEF Expired, RoundTrip

\* handleCheck: the reply takes the place of the check.
LEMMA HandleCheckWatch ==
  ASSUME MaxRepeat = 0, Inv, Tidy, Watched, ChecksDirect, NEW n \in Node, NEW m, HandleCheck(n, m)
  PROVE  Watched' /\ ChecksDirect'
<1> DEFINE out == ReplyTo(Hopped(m), m.dst)
<1>1. MessageFits(m) /\ MessageFits(Hopped(m)) /\ m \in net /\ m.hop \in Nat
  BY Served DEF HandleCheck
<1>2. out = [type |-> "REPLY", id |-> m.id, src |-> m.src, dst |-> m.dst,
             to |-> m.src, ttl |-> m.ttl, hop |-> m.hop + 1]
  BY <1>1, ReplyRecord, HoppedSame
<1>3. /\ net' = (net \ {m}) \cup Sent({out}) /\ UNCHANGED <<status, callbacks>>
      /\ m.type = "CHECK"
  BY DEF HandleCheck
<1>4. /\ out.src = m.src /\ out.id = m.id /\ out.to = m.src /\ out.type = "REPLY"
      /\ out.ttl = m.ttl /\ out.hop = m.hop + 1
  BY <1>2
<1> HIDE DEF out
<1>5. ASSUME NEW k \in Node, NEW c \in callbacks[k], c.kind = "check",
             m.src = k, m.id = c.id
      PROVE  Direct(c, out) /\ out \in net'
  <2>1. Direct(c, m)
    BY <1>1, <1>5 DEF ChecksDirect
  <2>2. Direct(c, out)
    BY <1>3, <1>4, <2>1 DEF Direct
  <2>3. k \in Running
    BY <1>5 DEF Tidy, OpenAtRunning
  <2>4. out \in Sent({out})
    BY <1>4, <1>5, <2>3 DEF Sent, Running
  <2> QED
    BY <1>3, <2>2, <2>4
<1>6. \A x \in net' \ net : x = out
  BY <1>3, SentSubset
<1>7. \A x \in net \ net' : x = m
  BY <1>3
<1>8. \A x \in net' \ net, k \in Node : \A c \in callbacks[k] :
        c.kind = "check" /\ x.src = k /\ x.id = c.id => Direct(c, x)
  BY <1>4, <1>5, <1>6
<1>9. \A x \in net \ net', k \in Node : \A c \in callbacks[k] \cap callbacks'[k] :
        c.kind = "check" /\ x.src = k /\ x.id = c.id /\ c.peer \in Members' =>
          \E y \in net' : y.src = k /\ y.id = c.id
  BY <1>4, <1>5, <1>7
<1> QED
  BY <1>3, <1>8, <1>9, WatchStep

\* handleReply: the check the reply answers is closed.
LEMMA HandleReplyWatch ==
  ASSUME MaxRepeat = 0, Inv, Tidy, Watched, ChecksDirect, NEW n \in Node, NEW m, HandleReply(n, m)
  PROVE  Watched' /\ ChecksDirect'
<1>1. /\ StateOK /\ m \in net /\ m.to = n /\ MessageFits(m) /\ m.type = "REPLY"
  BY Served DEF HandleReply
<1>2. m.src = n
  BY <1>1 DEF MessageFits
<1>3. net' = net \ {m} /\ UNCHANGED status
  BY DEF HandleReply
<1>4. /\ \A k \in Node : callbacks'[k] \subseteq callbacks[k]
      /\ \A c \in callbacks'[n] : c.id # m.id
  <2>1. CASE (\A c \in callbacks[n] : c.id # m.id) /\ UNCHANGED callbacks
    BY <2>1
  <2>2. ASSUME NEW c \in callbacks[n], c.id = m.id,
               callbacks' = [callbacks EXCEPT ![n] = @ \ {c}]
        PROVE  /\ \A k \in Node : callbacks'[k] \subseteq callbacks[k]
               /\ \A d \in callbacks'[n] : d.id # m.id
    <3>1. /\ \A k \in Node : callbacks'[k] \subseteq callbacks[k]
          /\ callbacks'[n] = callbacks[n] \ {c}
      BY <1>1, <2>2 DEF StateOK
    <3> QED
      BY <2>2, <3>1, NoneRepeated DEF Tidy, NumbersApart
  <2> QED
    BY <2>1, <2>2 DEF HandleReply
<1> QED
  BY <1>2, <1>3, <1>4, WatchStep

\* The receiver.
LEMMA ReceiverWatch ==
  ASSUME MaxRepeat = 0, Inv, Tidy, Watched, ChecksDirect, RoundTrip, NEW n \in Node, NEW m, Receive(n, m)
  PROVE  Watched' /\ ChecksDirect'
<1>1. MessageFits(m) /\ MessageFits(Hopped(m)) /\ m \in net
  BY Served DEF Receive, DropExpired, HandleLookup, HandleNotify, HandleCheck, HandleLeave,
                HandleReply
<1>2. CASE DropExpired(n, m)
  <2>1. net' = net \ {m} /\ UNCHANGED <<status, callbacks>> /\ Expired(Hopped(m))
    BY <1>2 DEF DropExpired
  <2>2. ASSUME NEW k \in Node, NEW c \in callbacks[k], c.kind = "check",
               m.src = k, m.id = c.id
        PROVE  FALSE
    BY <1>1, <2>1, <2>2, ChecksFresh DEF ChecksDirect
  <2> QED
    BY <2>1, <2>2, WatchStep
<1>3. CASE HandleLookup(n, m)
  <2> DEFINE hop == FindSuccessor(fingers[n], n, m.dst)
             owner == [ReplyTo(Hopped(m), successor(n)) EXCEPT !.hop = 0]
             self  == [ReplyTo(Hopped(m), n) EXCEPT !.hop = 0]
             fwd   == [Hopped(m) EXCEPT !.to = hop]
  <2>1. /\ owner.src = m.src /\ owner.id = m.id /\ self.src = m.src /\ self.id = m.id
    BY <1>1, RepliesName
  <2>2. fwd.src = m.src /\ fwd.id = m.id
    BY <1>1, HoppedFits
  <2>3. \/ net' = (net \ {m}) \cup Sent({owner})
        \/ net' = (net \ {m}) \cup Sent({self})
        \/ net' = (net \ {m}) \cup Sent({fwd})
    BY <1>3 DEF HandleLookup
  <2>4. m.type = "LOOKUP" /\ UNCHANGED <<status, callbacks>>
    BY <1>3 DEF HandleLookup
  <2> HIDE DEF owner, self, fwd
  <2>5. /\ \A x \in net' : x \in net \/ (x.src = m.src /\ x.id = m.id)
        /\ \A x \in net : x # m => x \in net'
    BY <2>1, <2>2, <2>3, SentSubset
  <2> QED
    BY <1>1, <2>4, <2>5, WatchServe
<1>4. CASE HandleNotify(n, m)
  <2> DEFINE out == ReplyTo(Hopped(m), predecessor[n])
  <2>1. out.src = m.src /\ out.id = m.id
    BY <1>1, ReplyRecord, HoppedSame
  <2>2. /\ net' = (net \ {m}) \cup Sent({out}) /\ m.type = "NOTIFY"
        /\ UNCHANGED <<status, callbacks>>
    BY <1>4 DEF HandleNotify
  <2> HIDE DEF out
  <2>3. /\ \A x \in net' : x \in net \/ (x.src = m.src /\ x.id = m.id)
        /\ \A x \in net : x # m => x \in net'
    BY <2>1, <2>2, SentSubset
  <2> QED
    BY <1>1, <2>2, <2>3, WatchServe
<1>5. CASE HandleLeave(n, m)
  <2>1. /\ RemovePeer(n, m.src, {}, {m})
        /\ UNCHANGED status /\ m.type = "LEAVE"
    BY <1>5 DEF HandleLeave
  <2>2. \A x \in {m} : x.type \notin {"CHECK", "REPLY"}
    BY <2>1
  <2> QED
    BY <2>1, <2>2, RemovePeerWatch
<1> QED
  BY <1>2, <1>3, <1>4, <1>5, HandleCheckWatch, HandleReplyWatch DEF Receive

\* The program.
LEMMA ProgramWatch ==
  ASSUME MaxRepeat = 0, Inv, Tidy, Watched, ChecksDirect, NEW n \in Node, Program(n)
  PROVE  Watched' /\ ChecksDirect'
<1>0. StateOK
  BY InvParts
<1>1. ASSUME NEW peer \in Node, Join(n, peer)
      PROVE  Watched' /\ ChecksDirect'
  <2>1. /\ status[n] = "off" /\ status' = [status EXCEPT ![n] = "joining"]
        /\ UNCHANGED callbacks
    BY <1>1 DEF Join
  <2>2. /\ \A x \in net' : x \in net \/ x.src = n
        /\ net \subseteq net'
    <3>1. PICK id \in ReqId : net' = net \cup Sent({NewRequest("LOOKUP", id, n, n, peer, DefaultTtl)})
      BY <1>1 DEF Join
    <3> QED
      BY <3>1, SentSubset DEF NewRequest
  <2>3. callbacks[n] = {} /\ \A k \in Started : status'[k] = "up" => status[k] = "up"
    BY <1>0, <2>1 DEF StateOK, Started, Tidy, OpenAtRunning, Running
  <2> QED
    BY <2>1, <2>2, <2>3, WatchStep
<1>2. CASE JoinReply(n)
  <2>1. PICK m \in net : m.to = n /\ m.type = "REPLY" /\ net' = net \ {m}
    BY <1>2 DEF JoinReply
  <2>2. /\ status[n] = "joining" /\ status' = [status EXCEPT ![n] = "up"]
        /\ UNCHANGED callbacks
    BY <1>2 DEF JoinReply
  <2>3. m.src = n
    BY <2>1, InvParts DEF NetOK, Sendable, MessageFits
  <2>4. callbacks[n] = {} /\ \A k \in Started : status'[k] = "up" => status[k] = "up"
    BY <1>0, <2>2 DEF StateOK, Started, Tidy, OpenAtRunning, Running
  <2> QED
    BY <2>1, <2>2, <2>3, <2>4, WatchStep
<1>3. ASSUME NEW key \in Key, Lookup(n, key)
      PROVE  Watched' /\ ChecksDirect'
  <2> DEFINE hop == FindSuccessor(fingers[n], n, key)
  <2>1. UNCHANGED status /\ "lookup" \in Kind
    BY <1>3 DEF Lookup, Kind
  <2>2. CASE UNCHANGED <<callbacks, net>>
    BY <2>1, <2>2, WatchStep
  <2>3. ASSUME NEW id \in ReqId, GetNext(n, "lookup", id),
               Open(n, NewCallback(id, "lookup", hop, 0), {}),
               net' = net \cup Sent({NewRequest("LOOKUP", id, n, key, hop, LookupTtl)})
        PROVE  Watched' /\ ChecksDirect'
    <3> DEFINE c == NewCallback(id, "lookup", hop, 0)
               q == NewRequest("LOOKUP", id, n, key, hop, LookupTtl)
    <3>1. hop \in Peer /\ 0 \in Finger
      BY <1>0, Neighbours, NextHopType
    <3>2. /\ c \in Callback /\ c.id = id /\ c.kind # "check" /\ q.src = n /\ q.id = c.id
      BY <2>1, <3>1, NewCallbackType DEF NewRequest
    <3>3. Open(n, c, {}) /\ net' = net \cup Sent({q})
      BY <2>3
    <3> HIDE DEF c, q, hop
    <3>4. \A k \in Node :
            callbacks'[k] \subseteq callbacks[k] \cup (IF k = n THEN {c} ELSE {})
      BY <1>0, <3>2, <3>3, Opened
    <3>5. net' \subseteq net \cup {q} /\ net \subseteq net'
      BY <3>3, SentSubset
    <3>6. GetNext(n, "lookup", id) /\ UNCHANGED status
      BY <2>1, <2>3
    <3>7. \A m \in net : m.type \in {"CHECK", "REPLY"} => m \in net'
      BY <3>5
    <3> QED
      BY <3>2, <3>4, <3>5, <3>6, <3>7, WatchAsk
  <2>4. \/ UNCHANGED <<callbacks, net>>
        \/ \E id \in ReqId :
             /\ GetNext(n, "lookup", id)
             /\ Open(n, NewCallback(id, "lookup", hop, 0), {})
             /\ net' = net \cup Sent({NewRequest("LOOKUP", id, n, key, hop, LookupTtl)})
    BY <1>3 DEF Lookup
  <2> QED
    BY <2>2, <2>3, <2>4
<1>4. CASE Leave(n)
  <2>1. /\ status[n] = "up" /\ status' = [status EXCEPT ![n] = "leaving"]
        /\ UNCHANGED callbacks
    BY <1>4 DEF Leave
  <2>2. /\ \A x \in net' : x \in net \/ x.id = 0
        /\ net \subseteq net'
    BY <1>4, SentSubset DEF Leave, NewRequest
  <2>3. \A k \in Node : \A c \in callbacks[k] : c.id # 0
    BY <1>0, ReqIdPositive DEF StateOK, Callback
  <2>4. \A k \in Started : status'[k] = "up" => status[k] = "up"
    BY <1>0, <2>1 DEF StateOK, Started
  <2> QED
    BY <2>1, <2>2, <2>3, <2>4, WatchStep
<1> QED
  BY <1>1, <1>2, <1>3, <1>4 DEF Program

\* The environment: the checks of a node that stops stop with it, those that
\* were on their way to it concern a node that is down.
LEMMA EnvironmentWatch ==
  ASSUME MaxRepeat = 0, Inv, Tidy, Watched, ChecksDirect, MaxLoss = 0, Environment
  PROVE  Watched' /\ ChecksDirect'
<1>0. StateOK
  BY InvParts
<1>1. ASSUME NEW n \in Node, NEW how \in {"left", "crashed"}, Stop(n, how)
      PROVE  Watched' /\ ChecksDirect'
  <2>1. /\ \A k \in Node : callbacks'[k] \subseteq callbacks[k]
        /\ callbacks'[n] = {} /\ n \notin Members'
        /\ \A k \in Started : status'[k] = "up" => status[k] = "up"
        /\ net' = {m \in net : m.to # n}
    BY <1>0, <1>1 DEF Stop, StateOK, Started, Members
  <2>2. ASSUME NEW m \in net \ net', NEW k \in Node, NEW c \in callbacks[k] \cap callbacks'[k],
               c.kind = "check", m.src = k, m.id = c.id
        PROVE  c.peer \notin Members'
    <3>1. m.to = n /\ k # n
      BY <2>1, <2>2
    <3>2. m.type = "REPLY" => m.to = k
      BY <2>2, InvParts DEF NetOK, Sendable, MessageFits
    <3>3. Direct(c, m)
      BY <2>2 DEF ChecksDirect
    <3>4. c.peer = n
      BY <3>1, <3>2, <3>3 DEF Direct
    <3> QED
      BY <2>1, <3>4
  <2> QED
    BY <2>1, <2>2, WatchStep
<1>2. ASSUME NEW m, Lose(m)
      PROVE  FALSE
  BY <1>0, <1>2 DEF Lose, StateOK
<1> QED
  BY <1>1, <1>2 DEF Environment, Exit, Crash

\* Nothing is open at the start.
LEMMA WatchInit == Init \/ StaleInit => Watched /\ ChecksDirect
BY DEF Init, StaleInit, InitRest, Watched, ChecksDirect

\* Every step keeps the checks on their way.
LEMMA WatchNext ==
  ASSUME MaxLoss = 0, MaxRepeat = 0, RoundTrip
  PROVE  Inv /\ Tidy /\ Watched /\ ChecksDirect /\ [Next]_vars => Watched' /\ ChecksDirect'
<1>1. ASSUME MaxRepeat = 0, Inv, Tidy, Watched, ChecksDirect, UNCHANGED vars
      PROVE  Watched' /\ ChecksDirect'
  BY <1>1, WatchStep DEF vars
<1> QED
  BY <1>1, UpdaterWatch, CheckRequestsWatch, ReceiverWatch, ProgramWatch, EnvironmentWatch
  DEF Next, Receiver

\* Without losses and with numbers of their own, a check that nothing in flight can
\* answer any more concerns a node that is down, whoever crashes, leaves or joins
\* and however many requests are given up early: removePeer is never called for
\* want of an answer that a working node would have sent.
THEOREM SilenceMeansDown ==
  ASSUME MaxLoss = 0, MaxRepeat = 0, RoundTrip
  PROVE  Spec \/ StaleSpec => []OnlyTheDeadAreSilent
<1>1. Watched => OnlyTheDeadAreSilent
  BY DEF Watched, OnlyTheDeadAreSilent
<1>2. Spec => []Watched
  BY Invariance, TidyAlways, WatchInit, WatchNext, PTL DEF Spec
<1>3. StaleSpec => []Watched
  BY Invariance, TidyAlways, WatchInit, WatchNext, PTL DEF StaleSpec
<1> QED
  BY <1>1, <1>2, <1>3, PTL

----------------------------------------------------------------------------
(***************************************************************************)
(* A ring that only grows.                                                 *)
(***************************************************************************)

\* Nodes join, nothing else happens to them, no message is lost or late, and no
\* number is drawn while it is in use.
OnlyJoining ==
  MaxLoss = 0 /\ MaxLate = 0 /\ MaxRepeat = 0 /\ MayCrash = {} /\ MayLeave = {}

\* What OneRingWhileJoining rests on.
Growing == OnlyJoins /\ NoneSkipped /\ NewcomersAim

\* What a step may do without disturbing it.
LEMMA GrowStep ==
  ASSUME Inv, Growing, UNCHANGED status,
         \A k \in Node : status[k] = "up" => fingers'[k][0] = fingers[k][0],
         \A m \in net' : m \in net \/ ((m.src \in Node => status[m.src] # "joining")
                                       /\ m.type # "LEAVE"),
         \A k \in Node : \A c \in callbacks'[k] :
           c \in callbacks[k] \/ (c.kind # "succ" /\ (c.kind = "finger" => c.finger # 0) /\ c.peer \in Node)
  PROVE  Growing'
<1>1. OnlyJoins'
  BY DEF Growing, OnlyJoins
<1>2. NoneSkipped'
  BY DEF Growing, NoneSkipped, successor
<1>3. NewcomersAim'
  BY DEF Growing, NewcomersAim
<1> QED
  BY <1>1, <1>2, <1>3 DEF Growing

\* The slots of all nodes hold nodes.
LEMMA SlotsNamed ==
  ASSUME OnlyJoining, Inv
  PROVE  /\ StateOK /\ AnswersFit /\ fingers \in [Node -> [Finger -> Node]]
         /\ \A n \in Node : /\ fingers[n] \in [Finger -> Node]
                            /\ successor(n) \in Node /\ predecessor[n] \in Node
<1>1. /\ repeated = 0 /\ StateOK /\ AnswersFit
  BY NoneRepeated DEF OnlyJoining
<1> QED
  BY <1>1, Neighbours DEF StateOK

\* While nodes only join no check fails and no message tells of a departure.
LEMMA NobodyRemoved ==
  ASSUME OnlyJoining, Inv, Tidy, Watched, Growing, NEW n \in Node
  PROVE  ~ExpireCheck(n) /\ \A m \in net : ~HandleLeave(n, m)
<1>1. ASSUME ExpireCheck(n)
      PROVE  FALSE
  <2>1. PICK c \in callbacks[n] : c.kind = "check" /\ TimeOut(n, c)
    BY <1>1 DEF ExpireCheck
  <2>2. ~Answerable(n, c)
    BY <2>1, InvParts, EnvironmentAssumption DEF TimeOut, OnlyJoining, StateOK
  <2>3. c.peer \notin Members
    BY <2>1, <2>2 DEF Watched
  <2>4. c.peer \in Started
    <3>1. c.peer \in Node /\ c.peer \in Known
      BY DEF Growing, OnlyJoins, Tidy, PeersStarted
    <3> QED
      BY <3>1, NodeAssumption DEF Known
  <2> QED
    BY <2>3, <2>4 DEF Started, Members, Growing, OnlyJoins
<1> QED
  BY <1>1 DEF HandleLeave, Growing, OnlyJoins

\* The updater's calls leave slot 0 alone.
LEMMA UpdaterGrows ==
  ASSUME OnlyJoining, Inv, Growing, NEW n \in Node, Updater(n)
  PROVE  Growing'
<1>1. StateOK /\ UNCHANGED status /\ status[n] # "joining"
      /\ fingers[n] \in [Finger -> Node] /\ successor(n) \in Node /\ predecessor[n] \in Node
  BY SlotsNamed DEF Updater, Stabilize, FixFingers, CheckPredecessor, OnDuty, Running
<1>2. nextFinger[n] \in Finger \ {0} /\ 0 \in Finger
      /\ successor(n) \in Peer /\ predecessor[n] \in Peer
      /\ "notify" \in Kind /\ "check" \in Kind /\ "finger" \in Kind
  BY <1>1, WidthAssumption DEF StateOK, Finger, Peer, Kind
<1>3. CASE Stabilize(n)
  <2>1. PICK id \in ReqId :
          /\ Open(n, NewCallback(id, "notify", successor(n), 0), {})
          /\ net' = net \cup Sent({NewRequest("NOTIFY", id, n, Nobody, successor(n), DefaultTtl)})
    BY <1>3 DEF Stabilize
  <2>2. \A m \in net' : m \in net \/ (m.src = n /\ m.type # "LEAVE")
    BY <2>1, SentSubset DEF NewRequest
  <2> DEFINE c == NewCallback(id, "notify", successor(n), 0)
  <2>3. c \in Callback /\ c.kind = "notify" /\ c.peer \in Node
    BY <1>1, <1>2, NewCallbackType
  <2>4. UNCHANGED fingers /\ Open(n, c, {})
    BY <1>3, <2>1 DEF Stabilize
  <2> HIDE DEF c
  <2>5. \A k \in Node : \A d \in callbacks'[k] : d \in callbacks[k] \/ d = c
    BY <1>1, <2>3, <2>4, Opened
  <2> QED
    BY <1>1, <2>2, <2>3, <2>4, <2>5, GrowStep
<1>4. CASE CheckPredecessor(n)
  <2>1. PICK id \in ReqId :
          /\ Open(n, NewCallback(id, "check", predecessor[n], 0), {})
          /\ net' = net \cup Sent({CheckRequest(n, id, predecessor[n])})
    BY <1>4 DEF CheckPredecessor
  <2>2. \A m \in net' : m \in net \/ (m.src = n /\ m.type # "LEAVE")
    BY <2>1, SentSubset DEF CheckRequest, NewRequest
  <2> DEFINE c == NewCallback(id, "check", predecessor[n], 0)
  <2>3. c \in Callback /\ c.kind = "check" /\ c.peer \in Node
    BY <1>1, <1>2, NewCallbackType
  <2>4. UNCHANGED fingers /\ Open(n, c, {})
    BY <1>4, <2>1 DEF CheckPredecessor
  <2> HIDE DEF c
  <2>5. \A k \in Node : \A d \in callbacks'[k] : d \in callbacks[k] \/ d = c
    BY <1>1, <2>3, <2>4, Opened
  <2> QED
    BY <1>1, <2>2, <2>3, <2>4, <2>5, GrowStep
<1>5. CASE FixFingers(n)
  <2> DEFINE i   == nextFinger[n]
             hop == FindSuccessor(fingers[n], n, Start(n, i))
  <2>1. CASE fingers' = [fingers EXCEPT ![n][i] = successor(n)] /\ UNCHANGED <<callbacks, net>>
    <3>1. \A k \in Node : fingers'[k][0] = fingers[k][0]
      BY <1>1, <1>2, <2>1 DEF StateOK
    <3> QED
      BY <1>1, <2>1, <3>1, GrowStep
  <2>2. ASSUME NEW id \in ReqId, Open(n, NewCallback(id, "finger", hop, i), {}),
               net' = net \cup Sent({NewRequest("LOOKUP", id, n, Start(n, i), hop, DefaultTtl)}),
               UNCHANGED fingers
        PROVE  Growing'
    <3>1. \A m \in net' : m \in net \/ (m.src = n /\ m.type # "LEAVE")
      BY <2>2, SentSubset DEF NewRequest
    <3> DEFINE c == NewCallback(id, "finger", hop, i)
    <3>2. hop \in Node /\ hop \in Peer /\ i \in Finger /\ i # 0
      BY <1>1, <1>2, NextHopType DEF Peer
    <3>3. c \in Callback /\ c.kind = "finger" /\ c.peer \in Node /\ c.finger # 0
      BY <1>2, <3>2, NewCallbackType DEF NewCallback
    <3>4. Open(n, c, {})
      BY <2>2
    <3> HIDE DEF c
    <3>5. \A k \in Node : \A d \in callbacks'[k] : d \in callbacks[k] \/ d = c
      BY <1>1, <3>3, <3>4, Opened
    <3> QED
      BY <1>1, <2>2, <3>1, <3>3, <3>5, GrowStep
  <2>3. \/ fingers' = [fingers EXCEPT ![n][i] = successor(n)] /\ UNCHANGED <<callbacks, net>>
        \/ /\ \E id \in ReqId :
                /\ Open(n, NewCallback(id, "finger", hop, i), {})
                /\ net' = net \cup Sent({NewRequest("LOOKUP", id, n, Start(n, i), hop, DefaultTtl)})
           /\ UNCHANGED fingers
    BY <1>5 DEF FixFingers
  <2> QED
    BY <2>1, <2>2, <2>3
<1> QED
  BY <1>3, <1>4, <1>5 DEF Updater

\* A request that is given up is followed by a check.
LEMMA ExpireRequestGrows ==
  ASSUME Inv, Growing, NEW n \in Node, ExpireRequest(n)
  PROVE  Growing'
<1>1. StateOK /\ UNCHANGED <<status, fingers>> /\ status[n] # "joining"
      /\ 0 \in Finger /\ "check" \in Kind
  BY InvParts, WidthAssumption DEF ExpireRequest, Running, Finger, Kind
<1>2. PICK e \in callbacks[n], id \in ReqId :
        /\ Open(n, NewCallback(id, "check", e.peer, 0), {e})
        /\ net' = net \cup Sent({CheckRequest(n, id, e.peer)})
  BY DEF ExpireRequest
<1>3. \A m \in net' : m \in net \/ (m.src = n /\ m.type # "LEAVE")
  BY <1>2, SentSubset DEF CheckRequest, NewRequest
<1> DEFINE c == NewCallback(id, "check", e.peer, 0)
<1>4. c \in Callback /\ c.kind = "check" /\ c.peer \in Node
  <2>1. e.peer \in Node /\ e.peer \in Peer
    BY DEF Growing, OnlyJoins, Peer
  <2> QED
    BY <1>1, <2>1, NewCallbackType
<1>5. Open(n, c, {e})
  BY <1>2
<1> HIDE DEF c
<1>6. \A k \in Node : \A d \in callbacks'[k] : d \in callbacks[k] \/ d = c
  BY <1>1, <1>4, <1>5, Opened
<1> QED
  BY <1>1, <1>3, <1>4, <1>6, GrowStep

\* A node that is its own successor is the only one that was there from the start.
LEMMA AloneAtStart ==
  ASSUME Inv, Growing, NEW n \in Node, status[n] = "up", successor(n) = n
  PROVE  Initial \subseteq {n}
<1> SUFFICES ASSUME NEW b \in Initial PROVE b = n
  OBVIOUS
<1>1. n \in Id /\ b \in Id
  BY NodeAssumption
<1>2. Dist(n, n) <= Dist(n, b)
  BY DEF Growing, NoneSkipped
<1> QED
  BY <1>1, <1>2, RangesAreNear

\* handleLookup: who answers a newcomer names a node no further from it than any
\* that was there from the start.
LEMMA HandleLookupGrows ==
  ASSUME OnlyJoining, Inv, Tidy, Growing, NEW n \in Node, NEW m, HandleLookup(n, m)
  PROVE  Growing'
<1> DEFINE hop == FindSuccessor(fingers[n], n, m.dst)
           owner == [ReplyTo(Hopped(m), successor(n)) EXCEPT !.hop = 0]
           self  == [ReplyTo(Hopped(m), n) EXCEPT !.hop = 0]
           fwd   == [Hopped(m) EXCEPT !.to = hop]
<1>1. /\ StateOK /\ n \in Running /\ m \in net /\ MessageFits(m) /\ MessageFits(Hopped(m))
      /\ m.type = "LOOKUP" /\ m.dst \in Id
      /\ UNCHANGED <<status, fingers, callbacks>>
  <2>1. m.type = "LOOKUP" /\ Arriving(n, m) /\ UNCHANGED <<status, fingers, callbacks>>
    BY DEF HandleLookup
  <2>2. StateOK /\ n \in Running /\ m \in net /\ MessageFits(m) /\ MessageFits(Hopped(m))
    BY <2>1, Served
  <2> QED
    BY <2>1, <2>2 DEF MessageFits, Request
<1>2. status[n] = "up" /\ n \in Id /\ successor(n) \in Node /\ successor(n) \in Id
      /\ successor(n) \in Started /\ fingers[n] \in [Finger -> Node] /\ Node \subseteq Id
      /\ Initial \subseteq Id
  <2>1. status[n] = "up" /\ n \in Id /\ Node \subseteq Id /\ Initial \subseteq Id /\ n \in Node
    BY <1>1, NodeAssumption DEF Running, Growing, OnlyJoins
  <2>2. successor(n) \in Node /\ fingers[n] \in [Finger -> Node] /\ repeated = 0
    BY <2>1, SlotsNamed, NoneRepeated DEF OnlyJoining
  <2> QED
    BY <1>1, <2>1, <2>2, KnownStarted
<1>3. /\ owner.src = m.src /\ owner.type = "REPLY" /\ owner.dst = successor(n)
      /\ self.src = m.src /\ self.type = "REPLY" /\ self.dst = n
  BY <1>1, RepliesName
<1>4. fwd.src = m.src /\ fwd.type = "LOOKUP" /\ fwd.dst = m.dst
  BY <1>1, HoppedFits
<1>5. \/ /\ RangeOpenClosed(m.dst, n, successor(n))
         /\ net' = (net \ {m}) \cup Sent({owner})
      \/ /\ hop = n
         /\ net' = (net \ {m}) \cup Sent({self})
      \/ net' = (net \ {m}) \cup Sent({fwd})
  BY DEF HandleLookup
<1>6. ASSUME hop = n
      PROVE  Initial \subseteq {n}
  <2>1. CASE fingers[n][0] = n
    BY <1>2, <2>1, AloneAtStart DEF successor
  <2>2. ASSUME NEW i \in Finger, fingers[n][i] = n, RangeOpen(fingers[n][i], n, m.dst)
        PROVE  FALSE
    BY <1>1, <1>2, <2>2, RangesAreNear
  <2> QED
    BY <1>6, <2>1, <2>2, NextHop
<1>7. ASSUME RangeOpenClosed(m.dst, n, successor(n)), m.src \in Node,
             status[m.src] = "joining", NEW b \in Initial
      PROVE  Dist(m.src, successor(n)) <= Dist(m.src, b)
  <2>1. m.dst = m.src
    BY <1>1, <1>7 DEF Growing, NewcomersAim
  <2>2. successor(n) # m.src /\ m.src \in Id /\ b \in Id
    BY <1>2, <1>7 DEF Started
  <2>3. m.src # n /\ Dist(n, m.src) < Dist(n, successor(n))
    BY <1>2, <1>7, <2>1, <2>2, RangesAreNear
  <2>4. Dist(m.src, successor(n)) = Dist(n, successor(n)) - Dist(n, m.src)
    BY <1>2, <2>2, <2>3, DistApart
  <2>5. Dist(n, successor(n)) <= Dist(n, b)
    BY <1>2 DEF Growing, NoneSkipped
  <2>6. Dist(n, m.src) \in Nat /\ Dist(n, b) \in Nat /\ Dist(n, successor(n)) \in Nat
    BY <1>2, <2>2, DistApart
  <2>7. Dist(n, m.src) < Dist(n, b)
    BY <2>3, <2>5, <2>6
  <2>8. Dist(m.src, b) = Dist(n, b) - Dist(n, m.src)
    BY <1>2, <2>2, <2>3, <2>7, DistApart
  <2> QED
    BY <2>4, <2>5, <2>6, <2>8
<1>8. ASSUME hop = n, m.src \in Node, NEW b \in Initial
      PROVE  Dist(m.src, n) <= Dist(m.src, b)
  <2>1. b = n /\ m.src \in Id
    BY <1>2, <1>6, <1>8
  <2>2. Dist(m.src, n) \in Nat
    BY <1>2, <2>1, DistApart
  <2> QED
    BY <2>1, <2>2
<1> HIDE DEF owner, self, fwd
<1>9. OnlyJoins'
  <2>1. \A x \in net' : x.type # "LEAVE"
    BY <1>3, <1>4, <1>5, SentSubset DEF Growing, OnlyJoins
  <2> QED
    BY <1>1, <2>1 DEF Growing, OnlyJoins
<1>10. NoneSkipped'
  BY <1>1 DEF Growing, NoneSkipped, successor
<1>11. NewcomersAim'
  <2> SUFFICES ASSUME NEW x \in net', x.src \in Node, status[x.src] = "joining"
               PROVE  /\ x.type = "LOOKUP" => x.dst = x.src
                      /\ x.type = "REPLY" =>
                           \A b \in Initial : Dist(x.src, x.dst) <= Dist(x.src, b)
    BY <1>1 DEF NewcomersAim
  <2>1. CASE x \in net
    BY <2>1 DEF Growing, NewcomersAim
  <2>2. CASE x = owner /\ RangeOpenClosed(m.dst, n, successor(n))
    BY <1>3, <1>7, <2>2
  <2>3. CASE x = self /\ hop = n
    BY <1>3, <1>8, <2>3
  <2>4. CASE x = fwd
    BY <1>1, <1>4, <2>4 DEF Growing, NewcomersAim
  <2> QED
    BY <1>5, <2>1, <2>2, <2>3, <2>4, SentSubset
<1> QED
  BY <1>9, <1>10, <1>11 DEF Growing

\* handleNotify and handleCheck answer nobody who is still joining.
LEMMA AnswersGrow ==
  ASSUME Inv, Growing, NEW n \in Node, NEW m, HandleNotify(n, m) \/ HandleCheck(n, m)
  PROVE  Growing'
<1> DEFINE out == ReplyTo(Hopped(m), IF m.type = "CHECK" THEN m.dst ELSE predecessor[n])
<1>1. /\ StateOK /\ m \in net /\ MessageFits(m) /\ m.type \in {"NOTIFY", "CHECK"}
      /\ UNCHANGED <<status, fingers, callbacks>>
  BY Served DEF HandleNotify, HandleCheck
<1>2. net' = (net \ {m}) \cup Sent({out})
  BY DEF HandleNotify, HandleCheck
<1>3. out.src = m.src /\ out.type = "REPLY"
  <2> DEFINE h == Hopped(m)
  <2>1. MessageFits(h) /\ h.src = m.src
    BY <1>1, HoppedSame
  <2> HIDE DEF h
  <2>2. \A dst : ReplyTo(h, dst).src = h.src /\ ReplyTo(h, dst).type = "REPLY"
    BY <2>1, ReplyRecord
  <2> QED
    BY <2>1, <2>2 DEF h
<1> HIDE DEF out
<1>4. m.src \in Node => status[m.src] # "joining"
  BY <1>1, InvParts DEF NetOK, OutsidersQuiet
<1>5. \A x \in net' : x \in net \/ ((x.src \in Node => status[x.src] # "joining")
                                     /\ x.type # "LEAVE")
  BY <1>2, <1>3, <1>4, SentSubset
<1> QED
  BY <1>1, <1>5, GrowStep

\* handleReply: the successor only ever moves closer.
LEMMA HandleReplyGrows ==
  ASSUME OnlyJoining, Inv, Tidy, Growing, NEW n \in Node, NEW m, HandleReply(n, m)
  PROVE  Growing'
<1>1. /\ StateOK /\ n \in Running /\ m \in net /\ m.to = n /\ MessageFits(m)
      /\ m.type = "REPLY"
  BY Served DEF HandleReply
<1>2. m.src = n
  BY <1>1 DEF MessageFits
<1>3. net' \subseteq net /\ UNCHANGED <<status, predecessor>>
  BY DEF HandleReply
<1>4. CASE UNCHANGED <<fingers, callbacks>>
  BY <1>3, <1>4, GrowStep
<1>5. ASSUME NEW c \in callbacks[n], c.id = m.id, OnSuccess(n, c, m.dst),
             callbacks' = [callbacks EXCEPT ![n] = @ \ {c}]
      PROVE  Growing'
  <2>1. Fits(c, m)
    BY <1>1, <1>2, <1>5, SlotsNamed DEF AnswersFit
  <2>2. c.kind # "check" => m.dst \in Node
    BY <1>1, <2>1 DEF Fits
  <2>3. c.kind # "succ" /\ (c.kind = "finger" => c.finger # 0) /\ c.finger \in Finger
    BY <1>1 DEF Growing, OnlyJoins, StateOK, Callback
  <2>4. \A k \in Node : \A d \in callbacks'[k] : d \in callbacks[k]
    BY <1>1, <1>5 DEF StateOK
  <2>5. fingers \in [Node -> [Finger -> Node]] /\ 0 \in Finger
    BY SlotsNamed, WidthAssumption DEF Finger
  <2>6. CASE AdoptsSuccessor(n, c, m.dst)
    <3>1. /\ m.dst \in Node /\ m.dst \in Id /\ n \in Id /\ successor(n) \in Id
          /\ Initial \subseteq Id /\ status[n] = "up"
      BY <1>1, <2>2, <2>3, <2>6, SlotsNamed, NodeAssumption
      DEF AdoptsSuccessor, Running, Growing, OnlyJoins
    <3>2. fingers' = [fingers EXCEPT ![n][0] = m.dst]
      BY <1>5, <2>6 DEF OnSuccess
    <3>3. ASSUME NEW b \in Initial
          PROVE  Dist(n, m.dst) <= Dist(n, b)
      <4>1. CASE successor(n) = n
        <5>1. b = n
          BY <3>1, <4>1, AloneAtStart
        <5> QED
          BY <3>1, <5>1, RangesAreNear
      <4>2. CASE RangeOpen(m.dst, n, successor(n))
        <5>1. Dist(n, m.dst) < Dist(n, successor(n))
          BY <3>1, <4>2, RangesAreNear
        <5>2. Dist(n, successor(n)) <= Dist(n, b)
          BY <3>1 DEF Growing, NoneSkipped
        <5>3. Dist(n, m.dst) \in Nat /\ Dist(n, b) \in Nat /\ Dist(n, successor(n)) \in Nat
          BY <3>1, DistApart
        <5> QED
          BY <5>1, <5>2, <5>3
      <4> QED
        BY <2>3, <2>6, <4>1, <4>2 DEF AdoptsSuccessor
    <3>4. NoneSkipped'
      <4> SUFFICES ASSUME NEW k \in Node, status[k] = "up", NEW b \in Initial
                   PROVE  Dist(k, fingers'[k][0]) <= Dist(k, b)
        BY <1>3 DEF NoneSkipped, successor
      <4>1. fingers'[k][0] = IF k = n THEN m.dst ELSE fingers[k][0]
        BY <2>5, <3>2
      <4> QED
        BY <3>3, <4>1 DEF Growing, NoneSkipped, successor
    <3>5. OnlyJoins' /\ NewcomersAim'
      BY <1>3, <2>4 DEF Growing, OnlyJoins, NewcomersAim
    <3> QED
      BY <3>4, <3>5 DEF Growing
  <2>7. CASE ~AdoptsSuccessor(n, c, m.dst)
    <3>1. \A k \in Node : fingers'[k][0] = fingers[k][0]
      <4>1. \/ fingers' = fingers
            \/ c.finger # 0 /\ fingers' = [fingers EXCEPT ![n][c.finger] = m.dst]
        BY <1>5, <2>3, <2>7 DEF OnSuccess
      <4> QED
        BY <2>3, <2>5, <4>1
    <3> QED
      BY <1>3, <2>4, <3>1, GrowStep
  <2> QED
    BY <2>6, <2>7
<1> QED
  BY <1>4, <1>5 DEF HandleReply

\* The program: a newcomer asks for its own identifier and takes the node named.
LEMMA ProgramGrows ==
  ASSUME OnlyJoining, Inv, Tidy, Growing, NEW n \in Node, Program(n)
  PROVE  Growing'
<1>0. StateOK
  BY InvParts
<1>1. ASSUME NEW peer \in Node, Join(n, peer)
      PROVE  Growing'
  <2>1. /\ status[n] = "off" /\ status' = [status EXCEPT ![n] = "joining"]
        /\ UNCHANGED <<callbacks, fingers>>
    BY <1>1 DEF Join
  <2>2. \A x \in net' : x \in net \/ (x.src = n /\ x.type = "LOOKUP" /\ x.dst = n)
    <3>1. PICK id \in ReqId : net' = net \cup Sent({NewRequest("LOOKUP", id, n, n, peer, DefaultTtl)})
      BY <1>1 DEF Join
    <3> QED
      BY <3>1, SentSubset DEF NewRequest
  <2>3. \A k \in Node : status'[k] = IF k = n THEN "joining" ELSE status[k]
    BY <1>0, <2>1 DEF StateOK
  <2>4. OnlyJoins'
    <3>1. n \notin Initial
      BY <2>1 DEF Growing, OnlyJoins
    <3>2. Initial \subseteq Node
      BY NodeAssumption
    <3> QED
      BY <2>1, <2>2, <2>3, <3>1, <3>2 DEF Growing, OnlyJoins
  <2>5. NoneSkipped'
    BY <2>1, <2>3 DEF Growing, NoneSkipped, successor
  <2>6. NewcomersAim'
    <3>1. \A x \in net : x.src # n
      BY <2>1, InvParts DEF NetOK, OutsidersQuiet
    <3> QED
      BY <2>2, <2>3, <3>1 DEF Growing, NewcomersAim
  <2> QED
    BY <2>4, <2>5, <2>6 DEF Growing
<1>2. CASE JoinReply(n)
  <2>1. PICK m \in net : /\ m.to = n
                         /\ m.type = "REPLY"
                         /\ net' = net \ {m}
                         /\ fingers' = [fingers EXCEPT ![n][0] = m.dst]
    BY <1>2 DEF JoinReply
  <2>2. /\ status[n] = "joining" /\ status' = [status EXCEPT ![n] = "up"]
        /\ UNCHANGED callbacks
    BY <1>2 DEF JoinReply
  <2>3. m.src = n
    BY <2>1, InvParts DEF NetOK, Sendable, MessageFits
  <2>4. \A k \in Node : status'[k] = IF k = n THEN "up" ELSE status[k]
    BY <1>0, <2>2 DEF StateOK
  <2>5. OnlyJoins'
    <3>1. Initial \subseteq Node
      BY NodeAssumption
    <3> QED
      BY <2>1, <2>2, <2>4, <3>1 DEF Growing, OnlyJoins
  <2>6. NoneSkipped'
    <3>1. fingers \in [Node -> [Finger -> Node]] /\ 0 \in Finger
      BY SlotsNamed, WidthAssumption DEF Finger
    <3>2. \A k \in Node : fingers'[k][0] = IF k = n THEN m.dst ELSE fingers[k][0]
      BY <2>1, <3>1
    <3>3. \A b \in Initial : Dist(n, m.dst) <= Dist(n, b)
      BY <2>1, <2>2, <2>3 DEF Growing, NewcomersAim
    <3> QED
      BY <2>4, <3>2, <3>3 DEF Growing, NoneSkipped, successor
  <2>7. NewcomersAim'
    BY <2>1, <2>4 DEF Growing, NewcomersAim
  <2> QED
    BY <2>5, <2>6, <2>7 DEF Growing
<1>3. ASSUME NEW key \in Key, Lookup(n, key)
      PROVE  Growing'
  <2> DEFINE hop == FindSuccessor(fingers[n], n, key)
  <2>1. UNCHANGED <<status, fingers>> /\ status[n] = "up"
    BY <1>3 DEF Lookup
  <2>2. CASE UNCHANGED <<callbacks, net>>
    BY <2>1, <2>2, GrowStep
  <2>3. ASSUME NEW id \in ReqId, Open(n, NewCallback(id, "lookup", hop, 0), {}),
               net' = net \cup Sent({NewRequest("LOOKUP", id, n, key, hop, LookupTtl)})
        PROVE  Growing'
    <3>1. \A x \in net' : x \in net \/ (x.src = n /\ x.type = "LOOKUP")
      BY <2>3, SentSubset DEF NewRequest
    <3> DEFINE c == NewCallback(id, "lookup", hop, 0)
    <3>2. hop \in Node /\ hop \in Peer /\ 0 \in Finger /\ "lookup" \in Kind
      BY SlotsNamed, NextHopType, WidthAssumption DEF Peer, Finger, Kind
    <3>3. c \in Callback /\ c.kind = "lookup" /\ c.peer \in Node
      BY <3>2, NewCallbackType
    <3>4. Open(n, c, {})
      BY <2>3
    <3> HIDE DEF c
    <3>5. \A k \in Node : \A d \in callbacks'[k] : d \in callbacks[k] \/ d = c
      BY <1>0, <3>3, <3>4, Opened
    <3> QED
      BY <2>1, <3>1, <3>3, <3>5, GrowStep
  <2>4. \/ UNCHANGED <<callbacks, net>>
        \/ \E id \in ReqId :
             /\ Open(n, NewCallback(id, "lookup", hop, 0), {})
             /\ net' = net \cup Sent({NewRequest("LOOKUP", id, n, key, hop, LookupTtl)})
    BY <1>3 DEF Lookup
  <2> QED
    BY <2>2, <2>3, <2>4
<1> QED
  BY <1>1, <1>2, <1>3 DEF Program, Leave, OnlyJoining

\* The ring at the start.
LEMMA GrowInit == Init \/ StaleInit => Growing
<1> SUFFICES ASSUME Init \/ StaleInit
             PROVE  Growing
  OBVIOUS
<1>1. InitRest
  BY DEF Init, StaleInit
<1>2. Initial \subseteq Node /\ Initial \subseteq Id /\ 0 \in Finger
  BY NodeAssumption, WidthAssumption DEF Finger
<1>3. \A n \in Initial : successor(n) = NextAfter(n, Initial)
  BY <1>2 DEF Init, StaleInit, SettledFingers, StaleTables, successor
<1>4. NoneSkipped
  BY <1>1, <1>2, <1>3, NeighboursExist DEF NoneSkipped, InitRest
<1> QED
  BY <1>1, <1>2, <1>4 DEF Growing, OnlyJoins, NewcomersAim, InitRest

\* Every step of a ring that only grows keeps it.
LEMMA GrowNext ==
  ASSUME OnlyJoining
  PROVE  Inv /\ Tidy /\ Watched /\ Growing /\ [Next]_vars => Growing'
<1> SUFFICES ASSUME Inv, Tidy, Watched, Growing, [Next]_vars
             PROVE  Growing'
  OBVIOUS
<1>1. ASSUME NEW n \in Node, CheckRequests(n)
      PROVE  Growing'
  BY <1>1, ExpireRequestGrows, NobodyRemoved DEF CheckRequests
<1>2. ASSUME NEW n \in Node, NEW m \in net, Receive(n, m)
      PROVE  Growing'
  <2>1. CASE DropExpired(n, m)
    BY <2>1, GrowStep DEF DropExpired
  <2> QED
    BY <1>2, <2>1, HandleLookupGrows, AnswersGrow, HandleReplyGrows, NobodyRemoved
    DEF Receive
<1>3. ASSUME Environment
      PROVE  FALSE
  <2>1. ~\E m \in net : Lose(m)
    BY InvParts DEF Lose, OnlyJoining, StateOK
  <2>2. ~\E n \in Node : Exit(n) \/ Crash(n)
    BY DEF Exit, Crash, OnlyJoining, Growing, OnlyJoins
  <2> QED
    BY <1>3, <2>1, <2>2 DEF Environment
<1>4. ASSUME UNCHANGED vars
      PROVE  Growing'
  BY <1>4, GrowStep DEF vars
<1> QED
  BY <1>1, <1>2, <1>3, <1>4, UpdaterGrows, ProgramGrows DEF Next, Receiver

----------------------------------------------------------------------------
(***************************************************************************)
(* Following successors.                                                   *)
(***************************************************************************)

\* What n followed for k hops meets.
Follows(w, n, N) == w = [k \in 0 .. N |-> IF k = 0 THEN n ELSE successor(w[k - 1])]

\* The nodes are finitely many.
LEMMA NodesFinite == IsFiniteSet(Node) /\ Cardinality(Node) \in Nat
<1>1. 2^Bits - 1 \in Int /\ 0 \in Int
  BY WidthAssumption
<1>2. IsFiniteSet(Id)
  BY <1>1, FS_Interval DEF Id
<1>3. Node \in SUBSET Id
  BY NodeAssumption
<1> QED
  BY <1>2, <1>3, FS_Subset, FS_CardinalityType

\* Successors can be followed for any number of hops.
LEMMA FollowsExists ==
  ASSUME NEW n, NEW N \in Nat
  PROVE  \E w : Follows(w, n, N)
<1> DEFINE T == {j \in Nat : ~\E w : Follows(w, n, j)}
<1> SUFFICES ASSUME T # {} PROVE FALSE
  OBVIOUS
<1>1. PICK j \in T : \A i \in T : j <= i
  <2>1. T \in SUBSET Nat
    OBVIOUS
  <2> HIDE DEF T
  <2> QED
    BY <2>1, LeastExists
<1>2. CASE j = 0
  <2> DEFINE v == [k \in 0 .. 0 |-> n]
  <2>1. v = [k \in 0 .. 0 |-> IF k = 0 THEN n ELSE successor(v[k - 1])]
    OBVIOUS
  <2>2. Follows(v, n, 0)
    BY <2>1 DEF Follows
  <2> QED
    BY <1>2, <2>2
<1>3. CASE j # 0
  <2>1. j - 1 \in Nat /\ j - 1 \notin T
    BY <1>1, <1>3
  <2>2. PICK u : Follows(u, n, j - 1)
    BY <2>1
  <2> DEFINE v == [k \in 0 .. j |-> IF k < j THEN u[k] ELSE successor(u[j - 1])]
  <2>3. ASSUME NEW k \in 0 .. j
        PROVE  v[k] = IF k = 0 THEN n ELSE successor(v[k - 1])
    <3>1. CASE k < j
      <4>1. u[k] = IF k = 0 THEN n ELSE successor(u[k - 1])
        <5>1. k \in 0 .. (j - 1)
          BY <2>1, <3>1
        <5> QED
          BY <2>2, <5>1 DEF Follows
      <4>2. k # 0 => v[k - 1] = u[k - 1]
        BY <2>1, <3>1
      <4> QED
        BY <3>1, <4>1, <4>2
    <3>2. CASE k = j
      <4>1. v[k - 1] = u[j - 1]
        BY <1>3, <2>1, <3>2
      <4> QED
        BY <1>3, <3>2, <4>1
    <3> QED
      BY <3>1, <3>2
  <2>4. v = [k \in 0 .. j |-> IF k = 0 THEN n ELSE successor(v[k - 1])]
    <3>1. v = [k \in 0 .. j |-> v[k]]
      OBVIOUS
    <3> HIDE DEF v
    <3> QED
      BY <2>3, <3>1
  <2>5. Follows(v, n, j)
    <3> HIDE DEF v
    <3> QED
      BY <2>4 DEF Follows
  <2> QED
    BY <1>1, <2>5
<1> QED
  BY <1>2, <1>3

\* Walk(n) is what such a function meets after its first hop.
LEMMA WalkFollows ==
  ASSUME NEW n
  PROVE  \E w : /\ Walk(n) = {w[k] : k \in 1 .. Cardinality(Node)}
                /\ w[0] = n
                /\ \A k \in 1 .. Cardinality(Node) : w[k] = successor(w[k - 1])
<1> DEFINE N == Cardinality(Node)
           w == CHOOSE w : w = [k \in 0 .. N |-> IF k = 0 THEN n ELSE successor(w[k - 1])]
<1>1. N \in Nat
  BY NodesFinite
<1>2. \E v : v = [k \in 0 .. N |-> IF k = 0 THEN n ELSE successor(v[k - 1])]
  BY <1>1, FollowsExists DEF Follows
<1>3. w = [k \in 0 .. N |-> IF k = 0 THEN n ELSE successor(w[k - 1])]
  BY <1>2
<1>4. Walk(n) = {w[k] : k \in 1 .. N}
  BY DEF Walk
<1> HIDE DEF w
<1>5. w[0] = n /\ \A k \in 1 .. N : w[k] = successor(w[k - 1])
  BY <1>1, <1>3
<1> QED
  BY <1>4, <1>5

\* Every node follows a node, itself or another: what the lemmas below need.
Chained(U) == U \subseteq Node /\ \A x \in U : successor(x) \in U

\* A walk stays where successors lead: it begins with the successor of its node
\* and lies in every set that does so and is closed.
LEMMA WalkLeast ==
  ASSUME NEW U, Chained(U), NEW n \in U
  PROVE  /\ successor(n) \in Walk(n)
         /\ \A T : successor(n) \in T /\ (\A x \in T : successor(x) \in T) => Walk(n) \subseteq T
<1> DEFINE N == Cardinality(Node)
<1>1. N \in Nat /\ N >= 1
  <2>1. n \in Node
    BY DEF Chained
  <2>2. Cardinality(Node) # 0
    BY <2>1, NodesFinite, FS_EmptySet
  <2> QED
    BY <2>2, NodesFinite
<1>2. PICK w : /\ Walk(n) = {w[k] : k \in 1 .. N}
               /\ w[0] = n
               /\ \A k \in 1 .. N : w[k] = successor(w[k - 1])
  BY WalkFollows
<1> HIDE DEF N
<1>3. w[1] = successor(n) /\ 1 \in 1 .. N
  <2>1. 1 \in 1 .. N
    BY <1>1
  <2>2. w[1] = successor(w[1 - 1]) /\ 1 - 1 = 0
    BY <1>2, <2>1
  <2> QED
    BY <1>2, <2>1, <2>2
<1>4. ASSUME NEW T, successor(n) \in T, \A x \in T : successor(x) \in T
      PROVE  Walk(n) \subseteq T
  <2> DEFINE B == {k \in 1 .. N : w[k] \notin T}
  <2> SUFFICES ASSUME B # {} PROVE FALSE
    BY <1>2
  <2>1. PICK k \in B : \A i \in B : k <= i
    <3>1. B \in SUBSET Nat
      OBVIOUS
    <3> HIDE DEF B
    <3> QED
      BY <3>1, LeastExists
  <2>2. k # 1
    BY <1>3, <1>4
  <2>3. k - 1 \in 1 .. N /\ k - 1 \notin B
    BY <1>1, <2>1, <2>2
  <2>4. w[k - 1] \in T /\ w[k] = successor(w[k - 1])
    BY <1>2, <2>1, <2>3
  <2> QED
    BY <1>4, <2>1, <2>4
<1> QED
  BY <1>2, <1>3, <1>4

\* A walk long enough to meet every node meets the successor of each it meets.
LEMMA WalkClosed ==
  ASSUME NEW U, Chained(U), NEW n \in U
  PROVE  /\ Walk(n) \subseteq U
         /\ \A x \in Walk(n) : successor(x) \in Walk(n)
<1> DEFINE N == Cardinality(Node)
<1>0. N \in Nat /\ IsFiniteSet(Node)
  BY NodesFinite
<1>1. Walk(n) \subseteq U
  BY WalkLeast DEF Chained
<1>2. PICK w : /\ Walk(n) = {w[k] : k \in 1 .. N}
               /\ w[0] = n
               /\ \A k \in 1 .. N : w[k] = successor(w[k - 1])
  BY WalkFollows
<1>3. \A k \in 1 .. N : w[k] \in Node
  BY <1>1, <1>2 DEF Chained
<1>4. ASSUME NEW k \in 1 .. N, k < N
      PROVE  successor(w[k]) \in Walk(n)
  <2>1. k + 1 \in 1 .. N /\ (k + 1) - 1 = k
    BY <1>0, <1>4
  <2>2. w[k + 1] = successor(w[k])
    BY <1>2, <2>1
  <2> QED
    BY <1>2, <2>1, <2>2
<1>5. ASSUME N \in 1 .. N
      PROVE  successor(w[N]) \in Walk(n)
  <2> DEFINE f == [k \in 1 .. N |-> w[k]]
  <2>0. f \in [1 .. N -> Node]
    BY <1>3
  <2>1. CASE f \in Injection(1 .. N, Node)
    <3>1. Cardinality(1 .. N) = N
      BY <1>0, <1>5, FS_Interval
    <3>2. f \in Surjection(1 .. N, Node)
      <4> HIDE DEF f
      <4> QED
        BY <1>0, <2>1, <3>1, FS_Injection
    <3>3. \A x \in Node : \E k \in 1 .. N : f[k] = x
      <4> HIDE DEF f
      <4> QED
        BY <3>2 DEF Surjection
    <3>4. Node \subseteq Walk(n)
      BY <1>2, <3>3
    <3>5. successor(w[N]) \in Node
      BY <1>1, <1>2, <1>5 DEF Chained
    <3> QED
      BY <3>4, <3>5
  <2>2. CASE f \notin Injection(1 .. N, Node)
    <3>1. PICK i \in 1 .. N, j \in 1 .. N : i < j /\ w[i] = w[j]
      <4>1. \E a \in 1 .. N, b \in 1 .. N : f[a] = f[b] /\ a # b
        <5> HIDE DEF f
        <5> QED
          BY <2>0, <2>2 DEF Injection, IsInjective
      <4>2. PICK a \in 1 .. N, b \in 1 .. N : w[a] = w[b] /\ a # b
        BY <4>1
      <4> QED
        BY <1>0, <4>2
    <3> DEFINE p == j - i
    <3>2. p \in 1 .. N /\ N - p >= i /\ N - p < N
      BY <1>0, <3>1
    <3>3. \A k \in j .. N : w[k] = w[k - p]
      <4> DEFINE B == {k \in j .. N : w[k] # w[k - p]}
      <4> SUFFICES ASSUME B # {} PROVE FALSE
        OBVIOUS
      <4>1. PICK k \in B : \A l \in B : k <= l
        <5>1. B \in SUBSET Nat
          OBVIOUS
        <5> HIDE DEF B
        <5> QED
          BY <5>1, LeastExists
      <4>2. k # j
        BY <3>1, <4>1
      <4>3. k - 1 \in j .. N /\ k \in 1 .. N /\ k - p \in 1 .. N
        BY <1>0, <3>1, <4>1, <4>2
      <4>4. w[k - 1] = w[(k - 1) - p]
        BY <1>0, <4>1, <4>3
      <4>5. w[k] = successor(w[k - 1]) /\ w[k - p] = successor(w[(k - p) - 1])
        BY <1>2, <4>3
      <4>6. (k - p) - 1 = (k - 1) - p
        BY <3>1, <4>1
      <4> QED
        BY <4>1, <4>4, <4>5, <4>6
    <3>4. w[N] = w[N - p] /\ N - p \in 1 .. N
      <4>1. N \in j .. N /\ N - p \in 1 .. N
        BY <1>0, <3>1, <3>2
      <4> QED
        BY <3>3, <4>1
    <3>5. successor(w[N - p]) \in Walk(n)
      <4> HIDE DEF p
      <4> QED
        BY <1>4, <3>2, <3>4
    <3> QED
      BY <3>4, <3>5
  <2> QED
    BY <2>1, <2>2
<1>6. ASSUME NEW k \in 1 .. N
      PROVE  successor(w[k]) \in Walk(n)
  <2>1. k < N \/ (k = N /\ N \in 1 .. N)
    BY <1>0
  <2> QED
    BY <1>4, <1>5, <2>1
<1> QED
  BY <1>1, <1>2, <1>6

\* What a walk meets it goes on from, and what is met again and again is the
\* successor of another such.
LEMMA WalkOnwards ==
  ASSUME NEW U, Chained(U), NEW n \in U, NEW m \in Walk(n)
  PROVE  /\ m \in U /\ Walk(m) \subseteq Walk(n)
         /\ \E x \in Walk(n) \cup {n} : successor(x) = m
<1>1. m \in U /\ successor(m) \in Walk(n) /\ \A x \in Walk(n) : successor(x) \in Walk(n)
  BY WalkClosed
<1>2. Walk(m) \subseteq Walk(n)
  BY <1>1, WalkLeast
<1>3. \E x \in Walk(n) \cup {n} : successor(x) = m
  <2> DEFINE T == {successor(x) : x \in Walk(n) \cup {n}}
  <2>1. T \subseteq Walk(n)
    BY <1>1, WalkLeast
  <2>2. successor(n) \in T /\ \A x \in T : successor(x) \in T
    BY <2>1
  <2>3. Walk(n) \subseteq T
    <3> HIDE DEF T
    <3> QED
      BY <2>2, WalkLeast
  <2> QED
    BY <2>3
<1> QED
  BY <1>1, <1>2, <1>3

----------------------------------------------------------------------------
(***************************************************************************)
(* One ring, in order.                                                     *)
(***************************************************************************)

\* The members: each has a member as its successor, and no member that was there
\* from the start lies between them.
Skipless ==
  /\ Chained(Running)
  /\ Initial # {} /\ Initial \subseteq Running
  /\ \A n \in Running, b \in Initial : Dist(n, successor(n)) <= Dist(n, b)

\* The hop from a member to its successor, seen from one that was there from the start.
LEMMA HopNearer ==
  ASSUME Skipless, NEW n \in Running, NEW b \in Initial
  PROVE  /\ n \in Id /\ b \in Id /\ b \in Running /\ successor(n) \in Id
         /\ successor(n) \in Running
         /\ Dist(n, successor(n)) <= Dist(n, b)
         /\ \/ successor(n) = b
            \/ successor(n) # n /\ Dist(successor(n), b) < Dist(n, b)
<1>1. Running \subseteq Id
  BY NodeAssumption DEF Running
<1>2. /\ n \in Id /\ b \in Id /\ successor(n) \in Id /\ b \in Running
      /\ successor(n) \in Running /\ Dist(n, successor(n)) <= Dist(n, b)
  BY <1>1 DEF Skipless, Chained
<1> QED
  BY <1>2, NearerOrThere

\* Every walk comes past every node that was there from the start.
LEMMA WalksMeet ==
  ASSUME Skipless, NEW n \in Running, NEW b \in Initial
  PROVE  b \in Walk(n)
<1>1. /\ Chained(Running) /\ successor(n) \in Walk(n) /\ Walk(n) \subseteq Running
      /\ \A x \in Walk(n) : successor(x) \in Walk(n)
  BY WalkLeast, WalkClosed DEF Skipless
<1> DEFINE D == {Dist(x, b) : x \in Walk(n)}
<1>2. \A x \in Walk(n) : x \in Id /\ b \in Id /\ Dist(x, b) \in Nat
  BY <1>1, HopNearer, DistApart
<1>3. PICK x \in Walk(n) : \A y \in Walk(n) : Dist(x, b) <= Dist(y, b)
  <2>1. D \in SUBSET Nat /\ D # {}
    BY <1>1, <1>2
  <2>2. PICK d \in D : \A e \in D : d <= e
    <3> HIDE DEF D
    <3> QED
      BY <2>1, LeastExists
  <2> QED
    BY <2>2
<1>4. successor(x) \in Walk(n)
  BY <1>1
<1>5. \/ successor(x) = b
      \/ Dist(successor(x), b) < Dist(x, b)
  BY <1>1, HopNearer
<1>6. Dist(x, b) <= Dist(successor(x), b) /\ Dist(x, b) \in Nat /\ Dist(successor(x), b) \in Nat
  BY <1>2, <1>3, <1>4
<1> QED
  BY <1>4, <1>5, <1>6

\* The nodes on the ring are those that the walk of a node of the start meets.
LEMMA RingIsWalk ==
  ASSUME Skipless, NEW m \in OnRing, NEW b \in Initial
  PROVE  m \in Walk(b)
<1>1. m \in Running /\ m \in Walk(m) /\ Chained(Running)
  BY DEF OnRing, Skipless
<1>2. b \in Running /\ Walk(b) \subseteq Running /\ successor(b) \in Walk(b)
      /\ \A x \in Walk(b) : successor(x) \in Walk(b)
  BY <1>1, HopNearer, WalkLeast, WalkClosed
<1>3. b \in Walk(b)
  BY <1>2, WalksMeet
<1> DEFINE T == Walk(b) \cup {x \in Running : Dist(x, b) < Dist(m, b)}
<1>4. ASSUME NEW x \in Running, x = m \/ Dist(x, b) < Dist(m, b)
      PROVE  successor(x) \in T
  <2>1. CASE successor(x) = b
    BY <1>3, <2>1
  <2>2. CASE Dist(successor(x), b) < Dist(x, b)
    <3>1. successor(x) \in Running /\ successor(x) \in Id /\ b \in Id /\ x \in Id /\ m \in Id
      BY <1>1, HopNearer
    <3>2. Dist(successor(x), b) \in Nat /\ Dist(x, b) \in Nat /\ Dist(m, b) \in Nat
      BY <3>1, DistApart
    <3>3. Dist(successor(x), b) < Dist(m, b)
      BY <1>4, <2>2, <3>2
    <3> QED
      BY <3>1, <3>3
  <2> QED
    BY <2>1, <2>2, HopNearer
<1>5. successor(m) \in T /\ \A x \in T : successor(x) \in T
  BY <1>1, <1>2, <1>4
<1>6. Walk(m) \subseteq T
  <2> HIDE DEF T
  <2> QED
    BY <1>1, <1>5, WalkLeast
<1>7. ~(Dist(m, b) < Dist(m, b))
  <2>1. m \in Id /\ b \in Id
    BY <1>1, HopNearer
  <2>2. Dist(m, b) \in Nat
    BY <2>1, DistApart
  <2> QED
    BY <2>2
<1> QED
  BY <1>1, <1>6, <1>7

\* The successor of a node on the ring is on it, and so is a node it is the
\* successor of.
LEMMA RingLinks ==
  ASSUME Skipless, NEW m \in OnRing
  PROVE  \E x \in OnRing : successor(x) = m
<1>1. m \in Running /\ m \in Walk(m) /\ Chained(Running)
  BY DEF OnRing, Skipless
<1>2. PICK x \in Walk(m) : successor(x) = m
  BY <1>1, WalkOnwards
<1>3. x \in Running /\ m \in Walk(x)
  BY <1>1, <1>2, WalkOnwards, WalkLeast
<1>4. Walk(m) \subseteq Walk(x)
  BY <1>1, <1>3, WalkOnwards
<1> QED
  BY <1>2, <1>3, <1>4 DEF OnRing

\* No node on the ring lies between another and its successor.
LEMMA RingInOrder ==
  ASSUME Skipless, NEW b \in Initial
  PROVE  \A n, m \in OnRing : ~RangeOpen(m, n, successor(n))
<1> DEFINE Bad == {m \in OnRing : \E n \in OnRing : RangeOpen(m, n, successor(n))}
           D == {Dist(m, b) : m \in Bad}
<1> SUFFICES ASSUME Bad # {} PROVE FALSE
  OBVIOUS
<1>1. \A x \in OnRing : x \in Running /\ x \in Id /\ b \in Id /\ Dist(x, b) \in Nat
                        /\ Dist(x, b) <= 2^Bits
  <2>1. OnRing \subseteq Running
    BY DEF OnRing
  <2> QED
    BY <2>1, HopNearer, RangesAreNear
<1>2. PICK m \in Bad : \A y \in Bad : Dist(y, b) <= Dist(m, b)
  <2>1. 2^Bits \in Nat
    BY WidthAssumption
  <2>2. \A y \in Bad : Dist(y, b) \in 0 .. 2^Bits
    BY <1>1, <2>1
  <2>3. D \in SUBSET (0 .. 2^Bits) /\ D # {}
    BY <2>2
  <2>4. PICK d \in D : \A e \in D : e <= d
    <3> HIDE DEF D
    <3> QED
      BY <2>1, <2>3, GreatestExists
  <2> QED
    BY <2>4
<1>3. PICK n \in OnRing : RangeOpen(m, n, successor(n))
  OBVIOUS
<1>4. PICK x \in OnRing : successor(x) = m
  BY RingLinks
<1>5. m \in OnRing
  OBVIOUS
<1>6. /\ n \in Id /\ m \in Id /\ x \in Id /\ b \in Id /\ successor(n) \in Id
      /\ Dist(n, b) \in Nat /\ Dist(m, b) \in Nat /\ Dist(x, b) \in Nat
      /\ Dist(successor(n), b) \in Nat
      /\ Dist(n, successor(n)) <= Dist(n, b)
      /\ Dist(x, m) <= Dist(x, b)
      /\ m = b \/ (m # x /\ Dist(m, b) < Dist(x, b))
  BY <1>1, <1>4, <1>5, HopNearer, DistApart
<1>7. n # successor(n)
  BY <1>3, <1>6 DEF RangeOpen, Id
<1>8. /\ Dist(m, b) < Dist(n, b)
      /\ successor(n) = b \/ Dist(successor(n), b) < Dist(m, b)
  BY <1>3, <1>6, <1>7, BetweenOnTheWay
<1>9. m # b
  <2>1. Dist(b, b) = 2^Bits /\ Dist(n, b) <= 2^Bits /\ 2^Bits \in Nat
    BY <1>1, <1>6, RangesAreNear, WidthAssumption
  <2> QED
    BY <1>6, <1>8, <2>1
<1>10. m # x /\ Dist(m, b) < Dist(x, b)
  BY <1>6, <1>9
<1>11. x # n
  <2>1. ~RangeOpen(m, n, m)
    BY <1>6 DEF RangeOpen, Id
  <2> QED
    BY <1>3, <1>4, <2>1
<1>12. CASE Dist(n, b) < Dist(x, b)
  <2>1. RangeOpen(n, x, m)
    BY <1>6, <1>8, <1>10, <1>12, BetweenOnTheWay
  <2>2. n \in Bad
    BY <1>4, <2>1
  <2>3. Dist(n, b) <= Dist(m, b)
    BY <1>2, <2>2
  <2> QED
    BY <1>6, <1>8, <2>3
<1>13. CASE Dist(x, b) < Dist(n, b)
  <2>1. successor(n) = b \/ Dist(successor(n), b) < Dist(x, b)
    BY <1>6, <1>8, <1>10
  <2>2. RangeOpen(x, n, successor(n))
    BY <1>6, <1>7, <1>13, <2>1, BetweenOnTheWay
  <2>3. x \in Bad
    BY <2>2
  <2>4. Dist(x, b) <= Dist(m, b)
    BY <1>2, <2>3
  <2> QED
    BY <1>6, <1>10, <2>4
<1>14. CASE Dist(x, b) = Dist(n, b)
  BY <1>6, <1>11, <1>14, DistApart
<1> QED
  BY <1>6, <1>12, <1>13, <1>14

\* A ring whose successors skip none of the nodes of the start is one, in order.
LEMMA SkiplessIsOneRing == Skipless => OneOrderedRing
<1> SUFFICES ASSUME Skipless
             PROVE  OneOrderedRing
  OBVIOUS
<1>1. PICK b \in Initial : TRUE
  BY DEF Skipless
<1>2. b \in OnRing
  BY HopNearer, WalksMeet DEF OnRing, Skipless
<1>3. ASSUME NEW n \in OnRing, NEW m \in OnRing
      PROVE  m \in Walk(n)
  <2>1. n \in Running /\ Chained(Running)
    BY DEF OnRing, Skipless
  <2>2. b \in Walk(n) /\ m \in Walk(b)
    BY <2>1, WalksMeet, RingIsWalk
  <2>3. Walk(b) \subseteq Walk(n)
    BY <2>1, <2>2, WalkOnwards
  <2> QED
    BY <2>2, <2>3
<1> QED
  BY <1>2, <1>3, RingInOrder DEF OneOrderedRing

\* What grows skips nobody.
LEMMA GrowingIsSkipless ==
  ASSUME OnlyJoining, Initial # {}
  PROVE  Inv /\ Tidy /\ Growing => Skipless
<1> SUFFICES ASSUME Inv, Tidy, Growing
             PROVE  Skipless
  OBVIOUS
<1>1. /\ \A n \in Node : n \in Running <=> status[n] = "up"
      /\ \A n \in Node : n \in Started <=> status[n] = "up"
  BY DEF Growing, OnlyJoins, Running, Started
<1>2. \A n \in Running : successor(n) \in Started
  BY KnownStarted, NoneRepeated DEF OnlyJoining
<1>3. Chained(Running)
  BY <1>1, <1>2 DEF Chained, Running, Started
<1>4. Initial \subseteq Running
  BY <1>1, NodeAssumption DEF Growing, OnlyJoins
<1>5. \A n \in Running, b \in Initial : Dist(n, successor(n)) <= Dist(n, b)
  BY <1>1 DEF Growing, NoneSkipped, Running
<1> QED
  BY <1>3, <1>4, <1>5 DEF Skipless

\* While nodes only join, whatever their number and the order of their messages,
\* there is always exactly one ring, and it visits its nodes in the order of
\* their identifiers (join, stabilize, handleNotify, handleReply).
THEOREM OneRingWhileJoining ==
  ASSUME OnlyJoining, RoundTrip, Initial # {}
  PROVE  Spec \/ StaleSpec => []OneOrderedRing
<1>0. MaxLoss = 0 /\ MaxRepeat = 0
  BY DEF OnlyJoining
<1>1. Inv /\ Tidy /\ Growing => OneOrderedRing
  BY GrowingIsSkipless, SkiplessIsOneRing
<1>2. Spec => []OneOrderedRing
  BY <1>0, <1>1, Invariance, TidyAlways, WatchInit, WatchNext, GrowInit, GrowNext, PTL DEF Spec
<1>3. StaleSpec => []OneOrderedRing
  BY <1>0, <1>1, Invariance, TidyAlways, WatchInit, WatchNext, GrowInit, GrowNext, PTL DEF StaleSpec
<1> QED
  BY <1>2, <1>3
============================================================================
