--------------------------- MODULE Routing_proofs ---------------------------
(***************************************************************************)
(* For every ring: the promise of a lookup is set once, and in a ring that *)
(* keeps its members it is set to the owner of the key, after a number of  *)
(* hops that is logarithmic in the size of the circle.                     *)
(***************************************************************************)
EXTENDS ChordRing_proofs

\* While a lookup is open its promise is pending, for one of the keys asked for,
\* and no other lookup of the node is open.
OneOpen ==
  \A n \in Node :
    /\ answer[n].state = "pending" => answer[n].key \in Key
    /\ \A c \in callbacks[n] : c.kind = "lookup" =>
         /\ answer[n].state = "pending"
         /\ \A d \in callbacks[n] : d.kind = "lookup" => d = c

\* Only those that may leave do.
LeaversMay == \A n \in Node : status[n] = "leaving" => n \in MayLeave

\* A promise whose lookup is on its way.
Pending(key) == [state |-> "pending", key |-> key, peer |-> Nobody]

\* A reply to the open lookup c of n.
AnswerTo(n, c, m) ==
  /\ m \in net /\ m.type = "REPLY" /\ m.src = n /\ m.id = c.id
  /\ c \in callbacks[n] /\ c.kind = "lookup"

\* The ways in which promises change. A lookup begins: it is answered at once when
\* the successor owns the key.
Asks(n) ==
  /\ n \in Asker /\ answer[n].state # "pending"
  /\ \E key \in Key :
       \/ answer' = [answer EXCEPT ![n] = Pending(key)]
       \/ /\ RangeOpenClosed(key, n, successor(n))
          /\ answer' = [answer EXCEPT ![n] = Answered(Pending(key), successor(n))]

\* The open lookup ends: it is given up, or answered by its reply.
Resolves(n) ==
  /\ answer[n].state = "pending"
  /\ \/ answer' = [answer EXCEPT ![n] = Answered(@, Nobody)]
     \/ \E c \in callbacks[n], m \in net :
          /\ AnswerTo(n, c, m) /\ m.dst \in Peer
          /\ answer' = [answer EXCEPT ![n] = Answered(@, m.dst)]

\* The process stops.
Forgets(n) ==
  /\ n \in MayCrash \cup MayLeave
  /\ answer' = [answer EXCEPT ![n] = Unasked]

\* No step changes promises in another way.
PromiseStep ==
  \/ answer' = answer
  \/ \E n \in Node : Asks(n) \/ Resolves(n) \/ Forgets(n)

----------------------------------------------------------------------------
(***************************************************************************)
(* Promises.                                                               *)
(***************************************************************************)

\* What a request adds to the open ones.
LEMMA OpenedOnly ==
  ASSUME StateOK, NEW n \in Node, NEW c, NEW gone, Open(n, c, gone)
  PROVE  /\ \A k \in Node : \A d \in callbacks'[k] : d \in callbacks[k] \/ (k = n /\ d = c)
         /\ \A d \in callbacks'[n] : d \notin gone
BY DEF StateOK, Open

\* A step that leaves the promises alone and opens no lookup.
LEMMA PromisesKept ==
  ASSUME OneOpen, UNCHANGED answer,
         \A k \in Node : \A c \in callbacks'[k] : c \in callbacks[k] \/ c.kind # "lookup"
  PROVE  OneOpen' /\ PromiseStep
BY DEF OneOpen, PromiseStep

\* The updater's calls, and a check that is given up.
LEMMA UpdaterPromises ==
  ASSUME Inv, OneOpen, NEW n \in Node, Updater(n)
  PROVE  OneOpen' /\ PromiseStep
<1>1. StateOK /\ UNCHANGED answer
  BY InvParts DEF Updater, Stabilize, FixFingers, CheckPredecessor
<1>2. ASSUME NEW c, c.kind # "lookup", Open(n, c, {})
      PROVE  OneOpen' /\ PromiseStep
  <2>1. \A k \in Node : \A d \in callbacks'[k] : d \in callbacks[k] \/ d = c
    BY <1>1, <1>2, OpenedOnly
  <2> QED
    BY <1>1, <1>2, <2>1, PromisesKept
<1>3. \A id, peer, finger : \A kind \in {"notify", "check", "finger"} :
        NewCallback(id, kind, peer, finger).kind # "lookup"
  BY DEF NewCallback
<1>4. \/ callbacks' = callbacks
      \/ \E id, peer, finger : \E kind \in {"notify", "check", "finger"} :
           Open(n, NewCallback(id, kind, peer, finger), {})
  <2>1. CASE Stabilize(n)
    <3>1. \E id : Open(n, NewCallback(id, "notify", successor(n), 0), {})
      BY <2>1 DEF Stabilize
    <3> QED
      BY <3>1
  <2>2. CASE CheckPredecessor(n)
    <3>1. \E id : Open(n, NewCallback(id, "check", predecessor[n], 0), {})
      BY <2>2 DEF CheckPredecessor
    <3> QED
      BY <3>1
  <2>3. CASE FixFingers(n)
    <3>1. \/ callbacks' = callbacks
          \/ \E id, peer, finger : Open(n, NewCallback(id, "finger", peer, finger), {})
      BY <2>3 DEF FixFingers
    <3> QED
      BY <3>1
  <2> QED
    BY <2>1, <2>2, <2>3 DEF Updater
<1>5. CASE callbacks' = callbacks
  BY <1>1, <1>5, PromisesKept
<1> QED
  BY <1>2, <1>3, <1>4, <1>5

\* removePeer opens no user's lookup.
LEMMA RemovePeerPromises ==
  ASSUME Inv, OneOpen, NEW n \in Node, NEW peer, NEW gone, NEW taken,
         RemovePeer(n, peer, gone, taken), UNCHANGED answer
  PROVE  OneOpen' /\ PromiseStep
<1>1. StateOK
  BY InvParts
<1>2. CASE callbacks' = [callbacks EXCEPT ![n] = @ \ gone]
  BY <1>1, <1>2, PromisesKept DEF StateOK
<1>3. ASSUME NEW c, c.kind = "succ", Open(n, c, gone)
      PROVE  OneOpen' /\ PromiseStep
  <2>1. \A k \in Node : \A d \in callbacks'[k] : d \in callbacks[k] \/ d = c
    BY <1>1, <1>3, OpenedOnly
  <2> QED
    BY <1>3, <2>1, PromisesKept
<1>4. \A id, to : NewCallback(id, "succ", to, 0).kind = "succ"
  BY DEF NewCallback
<1>5. \/ callbacks' = [callbacks EXCEPT ![n] = @ \ gone]
      \/ \E id, to : Open(n, NewCallback(id, "succ", to, 0), gone)
  BY DEF RemovePeer
<1> QED
  BY <1>2, <1>3, <1>4, <1>5

\* checkRequests: a lookup that is given up sets its promise to nobody.
LEMMA CheckRequestsPromises ==
  ASSUME Inv, OneOpen, NEW n \in Node, CheckRequests(n)
  PROVE  OneOpen' /\ PromiseStep
<1>1. StateOK /\ answer \in [Node -> Promise]
  BY InvParts DEF StateOK
<1>2. CASE ExpireRequest(n)
  <2>1. PICK c \in callbacks[n], id \in ReqId :
          /\ Open(n, NewCallback(id, "check", c.peer, 0), {c})
          /\ answer' = GiveUp(n, c)
    BY <1>2 DEF ExpireRequest
  <2> DEFINE d == NewCallback(id, "check", c.peer, 0)
  <2>2. d.kind = "check" /\ Open(n, d, {c})
    BY <2>1 DEF NewCallback
  <2> HIDE DEF d
  <2>3. /\ \A k \in Node : \A e \in callbacks'[k] : e \in callbacks[k] \/ (k = n /\ e = d)
        /\ c \notin callbacks'[n]
    BY <1>1, <2>2, OpenedOnly
  <2>4. CASE c.kind # "lookup"
    BY <2>1, <2>2, <2>3, <2>4, PromisesKept DEF GiveUp
  <2>5. CASE c.kind = "lookup"
    <3>1. answer' = [answer EXCEPT ![n] = Answered(@, Nobody)]
      BY <2>1, <2>5 DEF GiveUp
    <3>2. \A k \in Node : answer'[k] = IF k = n THEN Answered(answer[n], Nobody) ELSE answer[k]
      BY <1>1, <3>1
    <3>3. \A e \in callbacks'[n] : e.kind # "lookup"
      BY <2>2, <2>3, <2>5 DEF OneOpen
    <3>4. OneOpen'
      BY <2>3, <3>2, <3>3 DEF OneOpen, Answered
    <3>5. answer[n].state = "pending"
      BY <2>5 DEF OneOpen
    <3> QED
      BY <3>1, <3>4, <3>5 DEF PromiseStep, Resolves
  <2> QED
    BY <2>4, <2>5
<1>3. CASE ExpireCheck(n)
  BY <1>3, RemovePeerPromises DEF ExpireCheck
<1> QED
  BY <1>2, <1>3 DEF CheckRequests

\* The receiver: the reply to an open lookup sets its promise.
LEMMA ReceiverPromises ==
  ASSUME Inv, OneOpen, NEW n \in Node, NEW m \in net, Receive(n, m)
  PROVE  OneOpen' /\ PromiseStep
<1>1. callbacks \in [Node -> SUBSET Callback] /\ answer \in [Node -> Promise]
  BY InvParts DEF StateOK
<1>2. CASE DropExpired(n, m) \/ HandleLookup(n, m) \/ HandleNotify(n, m) \/ HandleCheck(n, m)
  <2>1. UNCHANGED <<callbacks, answer>>
    BY <1>2 DEF DropExpired, HandleLookup, HandleNotify, HandleCheck
  <2> QED
    BY <2>1, PromisesKept
<1>3. CASE HandleLeave(n, m)
  BY <1>3, RemovePeerPromises DEF HandleLeave
<1>4. CASE HandleReply(n, m)
  <2>1. m.type = "REPLY" /\ m.to = n /\ m.src = n /\ m.dst \in Peer
    BY <1>4, InvParts DEF HandleReply, Arriving, NetOK, Sendable, MessageFits
  <2>2. CASE UNCHANGED <<callbacks, answer>>
    BY <2>2, PromisesKept
  <2>3. ASSUME NEW c \in callbacks[n], c.id = m.id, OnSuccess(n, c, m.dst),
               callbacks' = [callbacks EXCEPT ![n] = @ \ {c}]
        PROVE  OneOpen' /\ PromiseStep
    <3>1. \A k \in Node : callbacks'[k] = IF k = n THEN callbacks[n] \ {c} ELSE callbacks[k]
      BY <1>1, <2>3
    <3>2. CASE c.kind # "lookup"
      BY <2>3, <3>1, <3>2, PromisesKept DEF OnSuccess
    <3>3. CASE c.kind = "lookup"
      <4>1. answer' = [answer EXCEPT ![n] = Answered(@, m.dst)]
        BY <2>3, <3>3 DEF OnSuccess
      <4>2. \A k \in Node : answer'[k] = IF k = n THEN Answered(answer[n], m.dst) ELSE answer[k]
        BY <1>1, <4>1
      <4>3. \A e \in callbacks'[n] : e.kind # "lookup"
        BY <3>1, <3>3 DEF OneOpen
      <4>4. OneOpen'
        BY <3>1, <4>2, <4>3 DEF OneOpen, Answered
      <4>5. answer[n].state = "pending" /\ AnswerTo(n, c, m)
        BY <2>1, <2>3, <3>3 DEF OneOpen, AnswerTo
      <4> QED
        BY <2>1, <4>1, <4>4, <4>5 DEF PromiseStep, Resolves
    <3> QED
      BY <3>2, <3>3
  <2> QED
    BY <1>4, <2>2, <2>3 DEF HandleReply
<1> QED
  BY <1>2, <1>3, <1>4 DEF Receive

\* The program: a lookup begins only when the promise of the last one is set.
LEMMA ProgramPromises ==
  ASSUME Inv, OneOpen, NEW n \in Node, Program(n)
  PROVE  OneOpen' /\ PromiseStep
<1>1. StateOK /\ answer \in [Node -> Promise]
  BY InvParts DEF StateOK
<1>2. CASE (\E peer \in Node : Join(n, peer)) \/ JoinReply(n) \/ Leave(n)
  <2>1. UNCHANGED <<callbacks, answer>>
    BY <1>2 DEF Join, JoinReply, Leave
  <2> QED
    BY <2>1, PromisesKept
<1>3. ASSUME NEW key \in Key, Lookup(n, key)
      PROVE  OneOpen' /\ PromiseStep
  <2>1. n \in Asker /\ answer[n].state # "pending"
    BY <1>3 DEF Lookup
  <2>2. \A c \in callbacks[n] : c.kind # "lookup"
    BY <2>1 DEF OneOpen
  <2>3. CASE /\ RangeOpenClosed(key, n, successor(n))
             /\ answer' = [answer EXCEPT ![n] =
                             [state |-> "set", key |-> key, peer |-> successor(n)]]
             /\ UNCHANGED callbacks
    <3>1. \A k \in Node : answer'[k] = IF k = n THEN [state |-> "set", key |-> key, peer |-> successor(n)]
                                       ELSE answer[k]
      BY <1>1, <2>3
    <3>2. OneOpen'
      BY <2>2, <2>3, <3>1 DEF OneOpen
    <3>3. Answered(Pending(key), successor(n)) = [state |-> "set", key |-> key, peer |-> successor(n)]
      BY DEF Answered, Pending
    <3>4. Asks(n)
      BY <2>1, <2>3, <3>3 DEF Asks
    <3> QED
      BY <3>2, <3>4 DEF PromiseStep
  <2>4. ASSUME NEW c, answer' = [answer EXCEPT ![n] = Pending(key)], Open(n, c, {})
        PROVE  OneOpen' /\ PromiseStep
    <3>1. \A k \in Node : \A d \in callbacks'[k] : d \in callbacks[k] \/ (k = n /\ d = c)
      BY <1>1, <2>4, OpenedOnly
    <3>2. \A k \in Node : answer'[k] = IF k = n THEN Pending(key) ELSE answer[k]
      BY <1>1, <2>4
    <3>3. OneOpen'
      BY <2>2, <3>1, <3>2 DEF OneOpen, Pending
    <3>4. Asks(n)
      BY <2>1, <2>4 DEF Asks
    <3> QED
      BY <3>3, <3>4 DEF PromiseStep
  <2>5. \/ /\ RangeOpenClosed(key, n, successor(n))
           /\ answer' = [answer EXCEPT ![n] =
                           [state |-> "set", key |-> key, peer |-> successor(n)]]
           /\ UNCHANGED callbacks
        \/ /\ answer' = [answer EXCEPT ![n] = Pending(key)]
           /\ \E c : Open(n, c, {})
    BY <1>3 DEF Lookup, Pending
  <2> QED
    BY <2>3, <2>4, <2>5
<1> QED
  BY <1>2, <1>3 DEF Program

\* The environment: a node that stops forgets its promise and its requests.
LEMMA EnvironmentPromises ==
  ASSUME Inv, OneOpen, LeaversMay, Environment
  PROVE  OneOpen' /\ PromiseStep
<1>1. callbacks \in [Node -> SUBSET Callback] /\ answer \in [Node -> Promise]
  BY InvParts DEF StateOK
<1>2. ASSUME NEW n \in MayCrash \cup MayLeave, NEW how, n \in Node, Stop(n, how)
      PROVE  OneOpen' /\ PromiseStep
  <2>1. /\ answer' = [answer EXCEPT ![n] = Unasked]
        /\ callbacks' = [callbacks EXCEPT ![n] = {}]
    BY <1>2 DEF Stop
  <2>2. \A k \in Node : /\ callbacks'[k] = IF k = n THEN {} ELSE callbacks[k]
                        /\ answer'[k] = IF k = n THEN Unasked ELSE answer[k]
    BY <1>1, <2>1
  <2>3. OneOpen'
    BY <2>2 DEF OneOpen, Unasked
  <2> QED
    BY <1>2, <2>1, <2>3 DEF PromiseStep, Forgets
<1>3. ASSUME NEW n \in Node, Exit(n) \/ Crash(n)
      PROVE  OneOpen' /\ PromiseStep
  BY <1>2, <1>3 DEF Exit, Crash, LeaversMay
<1>4. ASSUME NEW m \in net, Lose(m)
      PROVE  OneOpen' /\ PromiseStep
  BY <1>4, PromisesKept DEF Lose
<1> QED
  BY <1>3, <1>4 DEF Environment

\* Whoever leaves may.
LEMMA LeaversNext == Inv /\ LeaversMay /\ [Next]_vars => LeaversMay'
<1> SUFFICES ASSUME Inv, LeaversMay, [Next]_vars PROVE LeaversMay'
  OBVIOUS
<1>1. status \in [Node -> {"off", "joining", "up", "leaving", "left", "crashed"}]
  BY InvParts DEF StateOK
<1>2. CASE UNCHANGED status
  BY <1>2 DEF LeaversMay
<1>3. ASSUME NEW n \in Node, NEW how \in {"joining", "up", "left", "crashed"},
             status' = [status EXCEPT ![n] = how]
      PROVE  LeaversMay'
  BY <1>1, <1>3 DEF LeaversMay
<1>4. ASSUME NEW n \in Node, Leave(n)
      PROVE  LeaversMay'
  BY <1>1, <1>4 DEF LeaversMay, Leave
<1>5. ASSUME NEW n \in Node, Updater(n)
      PROVE  UNCHANGED status
  BY <1>5 DEF Updater, Stabilize, FixFingers, CheckPredecessor
<1>6. ASSUME NEW n \in Node, CheckRequests(n)
      PROVE  UNCHANGED status
  BY <1>6 DEF CheckRequests, ExpireRequest, ExpireCheck
<1>7. ASSUME NEW n \in Node, NEW m \in net, Receive(n, m)
      PROVE  UNCHANGED status
  BY <1>7 DEF Receive, DropExpired, HandleLookup, HandleNotify, HandleCheck, HandleLeave,
              HandleReply
<1>8. ASSUME NEW n \in Node, Program(n)
      PROVE  LeaversMay'
  <2>1. ASSUME NEW peer \in Node, Join(n, peer)
        PROVE  LeaversMay'
    BY <1>3, <2>1 DEF Join
  <2>2. CASE JoinReply(n)
    BY <1>3, <2>2 DEF JoinReply
  <2>3. ASSUME NEW key \in Key, Lookup(n, key)
        PROVE  LeaversMay'
    BY <1>2, <2>3 DEF Lookup
  <2> QED
    BY <1>4, <1>8, <2>1, <2>2, <2>3 DEF Program
<1>9. CASE Environment
  <2>1. ASSUME NEW n \in Node, Exit(n) \/ Crash(n)
        PROVE  LeaversMay'
    BY <1>3, <2>1 DEF Exit, Crash, Stop
  <2>2. ASSUME NEW m \in net, Lose(m)
        PROVE  LeaversMay'
    BY <1>2, <2>2 DEF Lose
  <2> QED
    BY <1>9, <2>1, <2>2 DEF Environment
<1>10. CASE UNCHANGED vars
  BY <1>2, <1>10 DEF vars
<1> QED
  BY <1>2, <1>5, <1>6, <1>7, <1>8, <1>9, <1>10 DEF Next, Receiver

\* Every step keeps promises and open lookups together.
LEMMA PromiseNext ==
  Inv /\ OneOpen /\ LeaversMay /\ [Next]_vars => OneOpen' /\ PromiseStep
<1> SUFFICES ASSUME Inv, OneOpen, LeaversMay, [Next]_vars PROVE OneOpen' /\ PromiseStep
  OBVIOUS
<1>1. CASE UNCHANGED vars
  BY <1>1, PromisesKept DEF vars
<1>2. ASSUME NEW n \in Node, Updater(n) \/ CheckRequests(n) \/ Program(n)
      PROVE  OneOpen' /\ PromiseStep
  BY <1>2, UpdaterPromises, CheckRequestsPromises, ProgramPromises
<1>3. ASSUME NEW n \in Node, Receiver(n)
      PROVE  OneOpen' /\ PromiseStep
  BY <1>3, ReceiverPromises DEF Receiver
<1> QED
  BY <1>1, <1>2, <1>3, EnvironmentPromises DEF Next

\* At the start nobody has asked and nobody leaves.
LEMMA PromiseInit == Init \/ StaleInit => OneOpen /\ LeaversMay
BY DEF Init, StaleInit, InitRest, OneOpen, LeaversMay, Unasked

----------------------------------------------------------------------------
(***************************************************************************)
(* The refinement of LookupService.                                        *)
(***************************************************************************)

\* A promise is its three parts.
LEMMA PromiseParts ==
  ASSUME NEW p \in Promise, NEW peer
  PROVE  [p EXCEPT !.state = "set", !.peer = peer] = Answered(p, peer)
<1> DEFINE r == [p EXCEPT !.state = "set"]
           s == [r EXCEPT !.peer = peer]
<1>1. r = [state |-> "set", key |-> p.key, peer |-> p.peer]
  BY DEF Promise
<1>2. s = [state |-> "set", key |-> p.key, peer |-> peer]
  <2> HIDE DEF r
  <2> QED
    BY <1>1
<1>3. [p EXCEPT !.state = "set", !.peer = peer] = s
  OBVIOUS
<1> HIDE DEF s
<1> QED
  BY <1>2, <1>3 DEF Answered

\* Setting a promise, seen by the abstract specification: the promise of a node whose
\* user looks keys up is set as there.
LEMMA SetAsThere ==
  ASSUME answer \in [Node -> Promise], NEW n \in Asker, NEW peer,
         answer' = [answer EXCEPT ![n] = Answered(@, peer)]
  PROVE  LET a == [k \in Asker |-> answer[k]]
         IN  [k \in Asker |-> answer'[k]] =
               [a EXCEPT ![n].state = "set", ![n].peer = peer]
<1>1. n \in Node /\ Asker \subseteq Node
  BY NodeAssumption
<1>2. answer'[n] = [answer[n] EXCEPT !.state = "set", !.peer = peer]
  BY <1>1, PromiseParts
<1>3. \A k \in Asker : k # n => answer'[k] = answer[k]
  BY <1>1
<1> QED
  BY <1>1, <1>2, <1>3

\* An Asker that never stops: what it promises is the abstract specification's.
LEMMA LooseStep ==
  ASSUME Inv, OneOpen, LeaversMay, PromiseStep, (MayCrash \cup MayLeave) \cap Asker = {}
  PROVE  [Loose!Next]_([n \in Asker |-> answer[n]])
<1> DEFINE a == [k \in Asker |-> answer[k]]
           right == [key \in Key |-> Peer]
<1>1. answer \in [Node -> Promise] /\ Asker \subseteq Node /\ StateOK
  BY InvParts, NodeAssumption DEF StateOK
<1>2. ASSUME NEW n \in Node \ Asker, NEW p, answer' = [answer EXCEPT ![n] = p]
      PROVE  a' = a
  BY <1>1, <1>2
<1>3. ASSUME NEW n \in Asker, Asks(n)
      PROVE  Loose!Next
  <2>1. PICK key \in Key :
          \/ answer' = [answer EXCEPT ![n] = Pending(key)]
          \/ answer' = [answer EXCEPT ![n] = Answered(Pending(key), successor(n))]
    BY <1>3 DEF Asks
  <2>2. successor(n) \in right[key]
    BY <1>1, Neighbours
  <2>3. Answered(Pending(key), successor(n)) = [state |-> "set", key |-> key, peer |-> successor(n)]
    BY DEF Answered, Pending
  <2>4. \/ a' = [a EXCEPT ![n] = [state |-> "pending", key |-> key, peer |-> Nobody]]
        \/ a' = [a EXCEPT ![n] = [state |-> "set", key |-> key, peer |-> successor(n)]]
    BY <1>1, <2>1, <2>3 DEF Pending
  <2>5. a[n].state # "pending"
    BY <1>3 DEF Asks
  <2>6. Loose!Ask(n, key)
    BY <2>2, <2>4, <2>5 DEF Loose!Ask
  <2> QED
    BY <2>6 DEF Loose!Next
<1>4. ASSUME NEW n \in Asker, Resolves(n)
      PROVE  Loose!Next
  <2>1. PICK peer \in Peer : answer' = [answer EXCEPT ![n] = Answered(@, peer)]
    BY <1>4 DEF Resolves, Peer
  <2>2. a' = [a EXCEPT ![n].state = "set", ![n].peer = peer]
    BY <1>1, <2>1, SetAsThere
  <2>3. a[n].state = "pending" /\ answer[n].state = "pending"
    BY <1>4 DEF Resolves
  <2>4. a[n].key \in Key
    BY <1>1, <2>3 DEF OneOpen
  <2>5. peer \in right[a[n].key] \cup {Nobody}
    BY <2>4
  <2>6. Loose!Resolve(n)
    BY <2>2, <2>3, <2>5 DEF Loose!Resolve
  <2> QED
    BY <2>6 DEF Loose!Next
<1>5. ASSUME NEW n \in Node, Asks(n) \/ Resolves(n) \/ Forgets(n)
      PROVE  Loose!Next \/ a' = a
  <2>1. CASE n \in Asker
    BY <1>3, <1>4, <1>5, <2>1 DEF Forgets
  <2>2. CASE n \notin Asker
    <3>1. \E p : answer' = [answer EXCEPT ![n] = p]
      BY <1>5, <2>2 DEF Asks, Resolves, Forgets
    <3> QED
      BY <1>2, <2>2, <3>1
  <2> QED
    BY <2>1, <2>2
<1> QED
  BY <1>5 DEF PromiseStep

\* Whatever is lost, late or gone and whatever numbers requests are given, as long as
\* the nodes whose users look keys up stay, each call of lookup gives a promise that
\* is set at most once, to a node or to nobody: the safety of LookupService (lookup,
\* handleReply, checkRequests).
THEOREM PromisesSetOnce ==
  ASSUME (MayCrash \cup MayLeave) \cap Asker = {}
  PROVE  Spec \/ StaleSpec => Loose!Safety
<1>1. Init \/ StaleInit => Loose!Init
  <2>1. Asker \subseteq Node
    BY NodeAssumption
  <2> QED
    BY <2>1 DEF Init, StaleInit, InitRest, Loose!Init, Unasked
<1>2. Inv /\ OneOpen /\ LeaversMay /\ [Next]_vars => [Loose!Next]_([n \in Asker |-> answer[n]])
  BY PromiseNext, LooseStep
<1>3. Inv /\ OneOpen /\ LeaversMay /\ [Next]_vars => (OneOpen /\ LeaversMay)'
  BY PromiseNext, LeaversNext
<1> QED
  BY <1>1, <1>2, <1>3, PromiseInit, Invariance, PTL DEF Spec, StaleSpec, Loose!Safety
----------------------------------------------------------------------------
(***************************************************************************)
(* The hops of a lookup in a ring whose tables are in order.               *)
(***************************************************************************)

\* A finger table in order: the successor, and the owner of the start of each slot.
InOrder(table, x, M) ==
  /\ table \in [Finger -> M]
  /\ table[0] = NextAfter(x, M)
  /\ \A i \in Finger \ {0} : table[i] = Owner(Plus(x, 2^i), M)

\* Steps left to the node p that will answer.
Rest(x, p) == IF x = p THEN 0 ELSE Dist(x, p)

\* Each slot is as far away as its place in the table says, or further.
LEMMA SlotsFar ==
  ASSUME NEW M \in SUBSET Id, NEW x \in M, NEW table, InOrder(table, x, M), NEW i \in Finger
  PROVE  /\ table[i] \in M /\ Dist(x, table[i]) >= 2^i
         /\ \A q \in M : q # x /\ Dist(x, q) >= 2^i => Dist(x, table[i]) <= Dist(x, q)
<1>1. CASE i = 0
  <2>1. table[i] \in M /\ \A q \in M : Dist(x, table[i]) <= Dist(x, q)
    BY <1>1, NeighboursExist DEF InOrder
  <2>2. Dist(x, table[i]) \in 1 .. 2^Bits
    BY <2>1, DistRange
  <2>3. 2^i = 1
    BY <1>1, PowerAssumption
  <2>4. Dist(x, table[i]) >= 2^i
    BY <2>2, <2>3, WidthAssumption
  <2> QED
    BY <2>1, <2>4
<1>2. CASE i # 0
  BY <1>2, SlotsReachOut DEF InOrder
<1> QED
  BY <1>1, <1>2

\* The member that answers for a key is the last one before it: who passes a lookup
\* on is another one, and so is whoever gets it if it has the key's identifier.
LEMMA LastAnswers ==
  ASSUME NEW M \in SUBSET Id, NEW x \in M, NEW key \in Id, NEW table, InOrder(table, x, M),
         ~RangeOpenClosed(key, x, table[0]), FindSuccessor(table, x, key) # x
  PROVE  /\ x # NextBefore(key, M) /\ NextBefore(key, M) \in M
         /\ FindSuccessor(table, x, key) \in M /\ FindSuccessor(table, x, key) # key
         /\ table[0] # x
<1> DEFINE p == NextBefore(key, M)
           y == FindSuccessor(table, x, key)
<1>1. p \in M /\ \A k \in M : Dist(p, key) <= Dist(k, key)
  BY NeighboursExist
<1>2. table \in [Finger -> M] /\ 0 \in Finger /\ table[0] \in M /\ M \subseteq Id
  BY WidthAssumption DEF Finger, InOrder
<1>3. y \in M
  BY <1>2, NextHopType
<1>4. table[0] # x
  <2>1. ASSUME table[0] = x
        PROVE  FALSE
    <3>1. M = {x}
      BY <2>1, AloneIsAll DEF InOrder
    <3> QED
      BY <1>3, <3>1
  <2> QED
    BY <2>1
<1>5. Dist(table[0], key) < Dist(x, key)
  BY <1>2, <1>4, SuccessorIsCloser
<1>6. x # p
  <2>1. Dist(table[0], key) \in Nat /\ Dist(x, key) \in Nat
    BY <1>2, DistApart
  <2> QED
    BY <1>1, <1>2, <1>5, <2>1
<1>7. y # key
  <2>1. CASE y = table[0]
    <3>1. table[0] # key \/ RangeOpenClosed(key, x, table[0])
      <4> DEFINE R == 2^Bits
      <4>1. R \in Nat /\ x \in 0 .. R - 1 /\ key \in 0 .. R - 1
        BY WidthAssumption DEF Id
      <4> HIDE DEF R
      <4> QED
        BY <4>1, <1>4 DEF RangeOpenClosed
    <3> QED
      BY <2>1, <3>1
  <2>2. ASSUME NEW i \in Finger, y = table[i], RangeOpen(table[i], x, key)
        PROVE  y # key
    BY <1>2, <2>2, WidthAssumption DEF RangeOpen, Id
  <2> QED
    BY <2>1, <2>2, NextHop
<1> QED
  BY <1>1, <1>3, <1>4, <1>6, <1>7

\* No member lies between the last one before a key and the key.
LEMMA NoneBehindLast ==
  ASSUME NEW M \in SUBSET Id, NEW x \in M, NEW y \in M, NEW key \in Id,
         x # NextBefore(key, M), x # key, RangeOpen(y, x, key)
  PROVE  /\ Dist(x, y) <= Dist(x, NextBefore(key, M))
         /\ Dist(x, NextBefore(key, M)) < Dist(x, key)
<1> DEFINE R == 2^Bits
           p == NextBefore(key, M)
<1>1. p \in M /\ Dist(p, key) <= Dist(y, key) /\ Dist(p, key) <= Dist(x, key)
  BY NeighboursExist
<1> HIDE DEF p
<1>2. /\ R \in Nat \ {0} /\ x \in 0 .. R - 1 /\ y \in 0 .. R - 1 /\ key \in 0 .. R - 1
      /\ p \in 0 .. R - 1
  <2>1. R \in Nat \ {0}
    BY WidthAssumption
  <2>2. x \in Id /\ y \in Id /\ key \in Id /\ p \in Id
    BY <1>1
  <2> QED
    BY <2>1, <2>2 DEF Id
<1> HIDE DEF R
<1>3. x # p
  BY DEF p
<1>4. /\ Dist(x, y) = IF x < y THEN y - x ELSE R - (x - y)
      /\ Dist(x, p) = IF x < p THEN p - x ELSE R - (x - p)
      /\ Dist(x, key) = IF x < key THEN key - x ELSE R - (x - key)
      /\ Dist(y, key) = IF y < key THEN key - y ELSE R - (y - key)
      /\ Dist(p, key) = IF p < key THEN key - p ELSE R - (p - key)
  BY DEF Dist, R
<1>5. \/ x < key /\ y > x /\ y < key
      \/ x > key /\ (y > x \/ y < key)
  BY DEF RangeOpen
<1>6. Dist(x, y) <= Dist(x, p) /\ Dist(x, p) < Dist(x, key)
  BY <1>1, <1>2, <1>3, <1>4, <1>5
<1> QED
  BY <1>6 DEF p

\* Past a member on the way, the rest is what is left of the way.
LEMMA RestOfWay ==
  ASSUME NEW x \in Id, NEW y \in Id, NEW p \in Id, x # p, y # x, Dist(x, y) <= Dist(x, p)
  PROVE  Rest(y, p) = Dist(x, p) - Dist(x, y)
<1>1. CASE y = p
  BY <1>1, DistApart DEF Rest
<1>2. CASE y # p
  <2>1. Dist(x, y) # Dist(x, p) /\ Dist(x, y) \in Nat /\ Dist(x, p) \in Nat
    BY <1>2, DistApart
  <2>2. Dist(x, y) < Dist(x, p)
    BY <2>1
  <2> QED
    BY <1>2, <2>2, DistApart DEF Rest
<1> QED
  BY <1>1, <1>2

\* A hop takes away at least the highest power of two in what is left: the slot for
\* it holds a node on the way, and the slot chosen is no lower.
LEMMA HopHalves ==
  ASSUME NEW M \in SUBSET Id, NEW x \in M, NEW key \in Id, x # key, NEW table,
         InOrder(table, x, M),
         ~RangeOpenClosed(key, x, table[0]), FindSuccessor(table, x, key) # x,
         NEW p, p = NextBefore(key, M), NEW h \in Finger, 2^h <= Dist(x, p)
  PROVE  /\ Rest(FindSuccessor(table, x, key), p) <= Dist(x, p) - 2^h
         /\ Rest(FindSuccessor(table, x, key), p) \in Nat
<1> DEFINE C == PrecedingFingers(table, x, key)
           y == FindSuccessor(table, x, key)
<1>1. x # p /\ p \in M /\ y \in M /\ M \subseteq Id /\ x \in Id /\ 0 \in Finger
  BY LastAnswers, WidthAssumption DEF Finger
<1>2. Dist(x, p) \in Nat /\ Dist(x, y) \in Nat /\ 2^h \in Nat /\ Dist(x, key) \in Nat
  BY <1>1, DistApart, WidthAssumption DEF Finger
<1>3. y # x
  OBVIOUS
<1> HIDE DEF y
<1>4. Dist(x, p) < Dist(x, key)
  <2>1. table[0] \in M /\ table[0] # x /\ Dist(table[0], key) < Dist(x, key)
    BY <1>1, LastAnswers, SuccessorIsCloser DEF InOrder
  <2>2. RangeOpen(p, x, key)
    <3> DEFINE R == 2^Bits
    <3>1. Dist(p, key) <= Dist(table[0], key)
      BY <2>1, NeighboursExist
    <3>2. /\ R \in Nat \ {0} /\ x \in 0 .. R - 1 /\ key \in 0 .. R - 1 /\ p \in 0 .. R - 1
          /\ table[0] \in 0 .. R - 1
      <4>1. R \in Nat \ {0}
        BY WidthAssumption
      <4>2. x \in Id /\ key \in Id /\ p \in Id /\ table[0] \in Id
        BY <1>1, <2>1
      <4> QED
        BY <4>1, <4>2 DEF Id
    <3> HIDE DEF R
    <3>3. Dist(p, key) < Dist(x, key)
      BY <2>1, <3>1, <3>2 DEF Dist, R
    <3>4. /\ Dist(p, key) = IF p < key THEN key - p ELSE R - (p - key)
          /\ Dist(x, key) = IF x < key THEN key - x ELSE R - (x - key)
      BY DEF Dist, R
    <3> QED
      BY <1>1, <3>2, <3>3, <3>4 DEF RangeOpen
  <2> QED
    BY <1>1, <2>2, RangesAreNear
<1>5. h # 0 => h \in C
  <2> SUFFICES ASSUME h # 0 PROVE h \in C
    OBVIOUS
  <2>1. Dist(x, table[h]) <= Dist(x, p) /\ table[h] \in M /\ Dist(x, table[h]) \in Nat
    BY <1>1, SlotsFar, DistApart
  <2>2. RangeOpen(table[h], x, key)
    <3>1. Dist(x, x) = 2^Bits /\ Dist(x, key) <= 2^Bits
      BY <1>1, RangesAreNear
    <3>2. Dist(x, table[h]) < Dist(x, key)
      BY <1>2, <1>4, <2>1
    <3>3. table[h] # x
      BY <1>2, <2>1, <3>1, <3>2, WidthAssumption
    <3> QED
      BY <1>1, <2>1, <3>2, <3>3, RangesAreNear
  <2>3. h <= P2Index(Minus(key, x))
    <3>1. Minus(key, x) = Dist(x, key) /\ Dist(x, key) \in Nat \ {0} /\ Dist(x, key) < 2^Bits
      BY <1>1, MinusIsDist
    <3>2. 2^h <= Dist(x, key)
      BY <1>2, <1>4
    <3> QED
      BY <3>1, <3>2, TopBitIsTop
  <2> QED
    BY <2>2, <2>3 DEF PrecedingFingers
<1>6. /\ Dist(x, y) <= Dist(x, p) /\ Dist(x, y) >= 2^h
  <2>1. CASE C = {}
    <3>1. y = table[0] /\ h = 0
      BY <1>5, <2>1 DEF FindSuccessor, y
    <3> QED
      BY <1>1, <3>1, SlotsFar
  <2>2. CASE C # {}
    <3>1. C \subseteq Finger /\ \A i \in C : RangeOpen(table[i], x, key)
      BY DEF PrecedingFingers
    <3>2. \E i \in C : \A j \in C : j <= i
      <4>1. C \in SUBSET (0 .. (Bits - 1)) /\ Bits - 1 \in Nat
        BY <3>1, WidthAssumption DEF Finger
      <4> QED
        BY <2>2, <4>1, GreatestExists
    <3>3. PICK i \in C : y = table[i] /\ \A j \in C : j <= i
      BY <2>2, <3>2 DEF FindSuccessor, y
    <3>4. Dist(x, y) <= Dist(x, p)
      BY <1>1, <3>1, <3>3, NoneBehindLast
    <3>5. Dist(x, y) >= 2^i
      BY <3>1, <3>3, SlotsFar
    <3>6. h <= i
      BY <1>5, <3>1, <3>3, WidthAssumption DEF Finger
    <3>7. 2^h <= 2^i /\ 2^i \in Nat
      <4>1. h \in 0 .. Bits /\ i \in 0 .. Bits
        BY <3>1, WidthAssumption DEF Finger
      <4> QED
        BY <3>6, <4>1, PowersGrow, WidthAssumption
    <3> QED
      BY <1>2, <3>4, <3>5, <3>7
  <2> QED
    BY <2>1, <2>2
<1>7. Rest(y, p) = Dist(x, p) - Dist(x, y)
  BY <1>1, <1>3, <1>6, RestOfWay
<1> QED
  BY <1>2, <1>6, <1>7 DEF y

\* A node asked for its own identifier passes the lookup to its successor.
LEMMA HopFromKey ==
  ASSUME NEW M \in SUBSET Id, NEW x \in M, NEW table, InOrder(table, x, M),
         FindSuccessor(table, x, x) # x, NEW p, p = NextBefore(x, M)
  PROVE  /\ Rest(FindSuccessor(table, x, x), p) <= 2^Bits - 2
         /\ Rest(FindSuccessor(table, x, x), p) \in Nat
<1> DEFINE y == FindSuccessor(table, x, x)
<1>1. ~RangeOpenClosed(x, x, table[0]) /\ \A i \in Finger : ~RangeOpen(table[i], x, x)
  <2>1. x \in Id /\ M \subseteq Id /\ table[0] \in M /\ \A i \in Finger : table[i] \in M
    BY WidthAssumption DEF InOrder, Finger
  <2>2. x \in Int /\ table[0] \in Int /\ \A i \in Finger : table[i] \in Int
    <3>1. Id \subseteq Int
      BY WidthAssumption DEF Id
    <3> QED
      BY <2>1, <3>1
  <2>3. \A k \in Int : ~RangeOpenClosed(x, x, k) /\ ~RangeOpen(k, x, x)
    BY <2>2 DEF RangeOpenClosed, RangeOpen
  <2> QED
    BY <2>2, <2>3
<1>2. y = table[0]
  BY <1>1, NextHop
<1>3. x # p /\ p \in M /\ y \in M /\ y # x /\ x \in Id /\ p \in Id /\ y \in Id
  BY <1>1, LastAnswers
<1>4. Dist(x, y) <= Dist(x, p)
  BY <1>2, <1>3, NeighboursExist DEF InOrder
<1> HIDE DEF y
<1>5. Rest(y, p) = Dist(x, p) - Dist(x, y)
  BY <1>3, <1>4, RestOfWay
<1>6. Dist(x, p) \in Nat /\ Dist(x, p) < 2^Bits /\ Dist(x, y) \in Nat \ {0} /\ 2^Bits \in Nat
  BY <1>3, MinusIsDist, WidthAssumption
<1> QED
  BY <1>4, <1>5, <1>6 DEF y

\* findSuccessor returns the node itself only to a node that is its own successor.
LEMMA LoopsBack ==
  ASSUME NEW x \in Id, NEW key \in Id, NEW table \in [Finger -> Id],
         FindSuccessor(table, x, key) = x
  PROVE  table[0] = x
<1>1. ASSUME NEW i \in Finger, table[i] = x, RangeOpen(table[i], x, key)
      PROVE  FALSE
  BY <1>1, RangesAreNear
<1> QED
  BY <1>1, NextHop

----------------------------------------------------------------------------
(***************************************************************************)
(* A ring that keeps its members: all that will ever run do, none leaves   *)
(* or crashes, and no message is lost or late.                             *)
(***************************************************************************)

\* OnlyJoining and nobody left to join.
KeepsMembers == OnlyJoining /\ RoundTrip /\ Initial = Node

\* What is known of such a ring so far.
Settled == Inv /\ Tidy /\ Watched /\ ChecksDirect /\ Growing /\ OneOpen

\* What the callback of a lookup is after: the start of a slot, or the key the user
\* asked for.
KeyOf(n, c) == IF c.kind = "finger" THEN Start(n, c.finger) ELSE answer[n].key

\* The callbacks that use the node a lookup finds for them.
Seeks(c) == c.kind \in {"lookup", "finger"}

\* A lookup asks for what its callback is after, and its reply names the owner of it.
Meant ==
  \A n \in Node : \A c \in callbacks[n], m \in net :
    Seeks(c) /\ m.src = n /\ m.id = c.id =>
      /\ m.type = "LOOKUP" => m.dst = KeyOf(n, c)
      /\ m.type = "REPLY" => m.dst = Owner(KeyOf(n, c), Node)

\* Settled holds for ever.
LEMMA SettledNext ==
  ASSUME KeepsMembers
  PROVE  Settled /\ [Next]_vars => Settled' /\ PromiseStep
<1> SUFFICES ASSUME Settled, [Next]_vars PROVE Settled' /\ PromiseStep
  OBVIOUS
<1>1. OnlyJoining /\ RoundTrip /\ MaxLoss = 0 /\ MaxRepeat = 0
  BY DEF KeepsMembers, OnlyJoining
<1>2. LeaversMay
  BY DEF Settled, Growing, OnlyJoins, LeaversMay
<1>3. Inv' /\ Tidy'
  BY InvNext, TidyNext DEF Settled
<1>4. Watched' /\ ChecksDirect'
  BY <1>1, WatchNext DEF Settled
<1>5. Growing'
  BY <1>1, GrowNext DEF Settled
<1>6. OneOpen' /\ PromiseStep
  BY <1>2, PromiseNext DEF Settled
<1> QED
  BY <1>3, <1>4, <1>5, <1>6 DEF Settled

\* It holds at the start, whatever the finger tables.
LEMMA SettledInit == Init \/ StaleInit => Settled
BY InvAtStart, TidyInit, WatchInit, GrowInit, PromiseInit DEF Settled

\* In such a ring everybody is up, and the successors are those of the circle.
LEMMA AllInRing ==
  ASSUME KeepsMembers, Settled, NEW n \in Node
  PROVE  /\ status[n] = "up" /\ n \in Id /\ Node \subseteq Id
         /\ successor(n) = NextAfter(n, Node) /\ successor(n) \in Node
         /\ fingers[n] \in [Finger -> Node] /\ StateOK /\ 0 \in Finger
<1>1. /\ n \in Id /\ Node \subseteq Id /\ successor(n) \in Node
      /\ fingers[n] \in [Finger -> Node] /\ StateOK /\ 0 \in Finger
  BY SlotsNamed, Neighbours DEF Settled, KeepsMembers
<1>2. status[n] = "up"
  BY DEF KeepsMembers, Settled, Growing, OnlyJoins
<1>3. \A k \in Node : Dist(n, successor(n)) <= Dist(n, k)
  BY <1>2 DEF KeepsMembers, Settled, Growing, NoneSkipped
<1> QED
  BY <1>1, <1>2, <1>3, NearestIsNext

\* What is left of the steps: the updater's, the receiver's, lookups.
LEMMA NobodyMoves ==
  ASSUME KeepsMembers, Settled, NEW n \in Node
  PROVE  /\ ~ExpireCheck(n) /\ \A m \in net : ~HandleLeave(n, m)
         /\ \A peer \in Node : ~Join(n, peer)
         /\ ~JoinReply(n) /\ ~Leave(n) /\ ~Environment
<1>1. OnlyJoining /\ \A k \in Node : status[k] = "up"
  BY AllInRing DEF KeepsMembers
<1>2. ~ExpireCheck(n) /\ \A m \in net : ~HandleLeave(n, m)
  BY <1>1, NobodyRemoved DEF Settled
<1>3. ~Environment
  <2>1. ~\E m \in net : Lose(m)
    BY <1>1, InvParts DEF Lose, OnlyJoining, StateOK, Settled
  <2> QED
    BY <1>1, <2>1 DEF Environment, Exit, Crash, OnlyJoining
<1> QED
  BY <1>1, <1>2, <1>3 DEF Join, JoinReply, Leave, OnlyJoining

\* Who answers a lookup names the owner of its key.
LEMMA OwnersAreNamed ==
  ASSUME KeepsMembers, Settled, NEW n \in Node, NEW key \in Id
  PROVE  /\ RangeOpenClosed(key, n, successor(n)) => successor(n) = Owner(key, Node)
         /\ FindSuccessor(fingers[n], n, key) = n => n = Owner(key, Node)
<1>1. /\ n \in Id /\ Node \subseteq Id /\ successor(n) = NextAfter(n, Node)
      /\ fingers[n] \in [Finger -> Node] /\ 0 \in Finger
  BY AllInRing
<1>2. RangeOpenClosed(key, n, successor(n)) => successor(n) = Owner(key, Node)
  BY <1>1, NextOwns
<1>3. ASSUME FindSuccessor(fingers[n], n, key) = n
      PROVE  n = Owner(key, Node)
  <2>1. CASE fingers[n][0] = n
    <3>1. Node = {n}
      BY <1>1, <2>1, AloneIsAll DEF successor
    <3>2. NextAfter(key, Node) \in Node
      BY <1>1, NeighboursExist
    <3> QED
      BY <3>1, <3>2 DEF Owner
  <2>2. ASSUME NEW i \in Finger, fingers[n][i] = n, RangeOpen(fingers[n][i], n, key)
        PROVE  FALSE
    BY <1>1, <2>2, RangesAreNear
  <2> QED
    BY <1>3, <2>1, <2>2, NextHop
<1> QED
  BY <1>2, <1>3

\* What a step may do to lookups and their callbacks: a new lookup asks for what its
\* callback is after, a message handed on asks for the same, a reply names the owner.
LEMMA MeantStep ==
  ASSUME OnlyJoining, Inv, Meant,
         \A k \in Node : \A c \in callbacks'[k] : Seeks(c) =>
           \/ c \in callbacks[k] /\ KeyOf(k, c)' = KeyOf(k, c)
           \/ \A m \in net' : m.src = k /\ m.id = c.id =>
                m.type = "LOOKUP" /\ m.dst = KeyOf(k, c)',
         \A m \in net' :
           \/ m \in net
           \/ \A k \in Node : \A c \in callbacks[k] : m.src = k => m.id # c.id
           \/ \E x \in net : /\ m.src = x.src /\ m.id = x.id
                             /\ \/ x.type = "LOOKUP" /\ m.type = "LOOKUP" /\ m.dst = x.dst
                                \/ x.type = "LOOKUP" /\ m.type = "REPLY"
                                   /\ m.dst = Owner(x.dst, Node)
                                \/ x.type \in {"NOTIFY", "CHECK"}
  PROVE  Meant'
<1> SUFFICES ASSUME NEW k \in Node, NEW c \in callbacks'[k], NEW m \in net',
                    Seeks(c), m.src = k, m.id = c.id
             PROVE  /\ m.type = "LOOKUP" => m.dst = KeyOf(k, c)'
                    /\ m.type = "REPLY" => m.dst = Owner(KeyOf(k, c)', Node)
  BY DEF Meant
<1>1. CASE \A x \in net' : x.src = k /\ x.id = c.id =>
             x.type = "LOOKUP" /\ x.dst = KeyOf(k, c)'
  BY <1>1
<1>2. CASE c \in callbacks[k] /\ KeyOf(k, c)' = KeyOf(k, c)
  <2>1. CASE m \in net
    BY <1>2, <2>1 DEF Meant
  <2>2. ASSUME NEW x \in net, m.src = x.src, m.id = x.id
        PROVE  /\ x.type = "LOOKUP" => x.dst = KeyOf(k, c)
               /\ x.type \notin {"NOTIFY", "CHECK"}
    <3>1. Fits(c, x)
      BY <1>2, <2>2, SlotsNamed DEF AnswersFit
    <3>2. x.type \notin {"NOTIFY", "CHECK"}
      BY <3>1 DEF Fits, Seeks
    <3>3. x.src = k /\ x.id = c.id
      BY <2>2
    <3> QED
      BY <1>2, <3>2, <3>3 DEF Meant
  <2> QED
    BY <1>2, <2>1, <2>2
<1> QED
  BY <1>1, <1>2

\* A node opens a request.
LEMMA AskMeant ==
  ASSUME OnlyJoining, Inv, Meant, NEW n \in Node, NEW kind, NEW id, GetNext(n, kind, id),
         NEW c, c.id = id, NEW q, q.src = n, q.id = c.id,
         Seeks(c) => q.type = "LOOKUP" /\ q.dst = KeyOf(n, c)',
         net' \subseteq net \cup {q},
         \A k \in Node : \A d \in callbacks'[k] :
           \/ d \in callbacks[k] /\ (Seeks(d) => KeyOf(k, d)' = KeyOf(k, d))
           \/ k = n /\ d = c
  PROVE  Meant'
<1>1. /\ \A d \in callbacks[n] : d.id # c.id
      /\ \A m \in net : m.src = n => m.id # c.id
  BY Fresh DEF OnlyJoining
<1>2. \A k \in Node : \A d \in callbacks'[k] : Seeks(d) =>
        \/ d \in callbacks[k] /\ KeyOf(k, d)' = KeyOf(k, d)
        \/ \A m \in net' : m.src = k /\ m.id = d.id => m.type = "LOOKUP" /\ m.dst = KeyOf(k, d)'
  <2> SUFFICES ASSUME NEW k \in Node, NEW d \in callbacks'[k], Seeks(d), k = n, d = c,
                      NEW m \in net', m.src = k, m.id = d.id
               PROVE  m.type = "LOOKUP" /\ m.dst = KeyOf(k, d)'
    OBVIOUS
  <2>1. m = q
    BY <1>1
  <2> QED
    BY <2>1
<1>3. \A m \in net' : m \in net \/ \A k \in Node : \A d \in callbacks[k] : m.src = k => m.id # d.id
  BY <1>1
<1> QED
  BY <1>2, <1>3, MeantStep

\* What a callback is after stays while the promises do.
LEMMA SameKeys ==
  ASSUME NEW k \in Node, NEW c, c.kind # "finger" => answer'[k].key = answer[k].key
  PROVE  KeyOf(k, c)' = KeyOf(k, c)
BY DEF KeyOf, Start, Plus

\* The updater's calls: fixFingers asks for the start of the slot.
LEMMA UpdaterMeant ==
  ASSUME OnlyJoining, Settled, Meant, NEW n \in Node, Updater(n)
  PROVE  Meant'
<1>1. StateOK /\ Inv /\ UNCHANGED answer
  BY InvParts DEF Settled, Updater, Stabilize, FixFingers, CheckPredecessor
<1>2. ASSUME NEW kind, NEW id, GetNext(n, kind, id),
             NEW c, c.id = id, NEW q, q.src = n, q.id = id,
             Seeks(c) => q.type = "LOOKUP" /\ q.dst = KeyOf(n, c)',
             Open(n, c, {}), net' = net \cup Sent({q})
      PROVE  Meant'
  <2>1. \A k \in Node : \A d \in callbacks'[k] : d \in callbacks[k] \/ (k = n /\ d = c)
    BY <1>1, <1>2, OpenedOnly
  <2>2. \A k \in Node : \A d : KeyOf(k, d)' = KeyOf(k, d)
    BY <1>1, SameKeys
  <2>3. net' \subseteq net \cup {q}
    BY <1>2, SentSubset
  <2>4. \A k \in Node : \A d \in callbacks'[k] :
          \/ d \in callbacks[k] /\ (Seeks(d) => KeyOf(k, d)' = KeyOf(k, d))
          \/ k = n /\ d = c
    BY <2>1, <2>2
  <2>5. /\ Inv /\ GetNext(n, kind, id) /\ c.id = id /\ q.src = n /\ q.id = c.id
        /\ Seeks(c) => q.type = "LOOKUP" /\ q.dst = KeyOf(n, c)'
    BY <1>1, <1>2
  <2> QED
    BY <2>3, <2>4, <2>5, AskMeant
<1>3. CASE Stabilize(n)
  <2>1. PICK id, c, q :
          /\ c = NewCallback(id, "notify", successor(n), 0)
          /\ q = NewRequest("NOTIFY", id, n, Nobody, successor(n), DefaultTtl)
          /\ GetNext(n, "notify", id) /\ Open(n, c, {}) /\ net' = net \cup Sent({q})
    BY <1>3 DEF Stabilize
  <2>2. c.id = id /\ ~Seeks(c) /\ q.src = n /\ q.id = id
    BY <2>1 DEF NewCallback, NewRequest, Seeks
  <2> QED
    BY <1>2, <2>1, <2>2
<1>4. CASE CheckPredecessor(n)
  <2>1. PICK id, c, q :
          /\ c = NewCallback(id, "check", predecessor[n], 0)
          /\ q = CheckRequest(n, id, predecessor[n])
          /\ GetNext(n, "check", id) /\ Open(n, c, {}) /\ net' = net \cup Sent({q})
    BY <1>4 DEF CheckPredecessor
  <2>2. c.id = id /\ ~Seeks(c) /\ q.src = n /\ q.id = id
    BY <2>1 DEF NewCallback, NewRequest, CheckRequest, Seeks
  <2> QED
    BY <1>2, <2>1, <2>2
<1>5. CASE FixFingers(n)
  <2>1. CASE UNCHANGED <<callbacks, net>>
    BY <1>1, <2>1 DEF Meant, KeyOf, Start, Plus
  <2>2. ASSUME NEW i, NEW hop, NEW id, NEW c, NEW q,
               c = NewCallback(id, "finger", hop, i),
               q = NewRequest("LOOKUP", id, n, Start(n, i), hop, DefaultTtl),
               GetNext(n, "finger", id), Open(n, c, {}), net' = net \cup Sent({q})
        PROVE  Meant'
    <3>1. c.id = id /\ c.kind = "finger" /\ c.finger = i
          /\ q.src = n /\ q.id = id /\ q.type = "LOOKUP" /\ q.dst = Start(n, i)
      BY <2>2 DEF NewCallback, NewRequest
    <3>2. q.dst = KeyOf(n, c)'
      BY <3>1 DEF KeyOf, Start, Plus
    <3> QED
      BY <1>2, <2>2, <3>1, <3>2
  <2>3. \/ UNCHANGED <<callbacks, net>>
        \/ \E i, hop, id, c, q :
             /\ c = NewCallback(id, "finger", hop, i)
             /\ q = NewRequest("LOOKUP", id, n, Start(n, i), hop, DefaultTtl)
             /\ GetNext(n, "finger", id) /\ Open(n, c, {}) /\ net' = net \cup Sent({q})
    BY <1>5 DEF FixFingers
  <2> QED
    BY <2>1, <2>2, <2>3
<1> QED
  BY <1>3, <1>4, <1>5 DEF Updater

\* checkRequests.
LEMMA ExpireRequestMeant ==
  ASSUME OnlyJoining, Settled, Meant, NEW n \in Node, ExpireRequest(n)
  PROVE  Meant'
<1>1. StateOK /\ answer \in [Node -> Promise] /\ Inv
  BY InvParts DEF StateOK, Settled
<1>0. PICK c \in callbacks[n], id \in ReqId :
        /\ GetNext(n, "check", id)
        /\ Open(n, NewCallback(id, "check", c.peer, 0), {c})
        /\ net' = net \cup Sent({CheckRequest(n, id, c.peer)})
        /\ answer' = GiveUp(n, c)
  BY DEF ExpireRequest
<1>2. PICK d, q :
        /\ d = NewCallback(id, "check", c.peer, 0)
        /\ q = CheckRequest(n, id, c.peer)
        /\ GetNext(n, "check", id) /\ Open(n, d, {c}) /\ net' = net \cup Sent({q})
        /\ answer' = GiveUp(n, c)
  BY <1>0
<1>3. d.id = id /\ ~Seeks(d) /\ q.src = n /\ q.id = d.id
  BY <1>2 DEF NewCallback, NewRequest, CheckRequest, Seeks
<1>4. net' \subseteq net \cup {q}
  BY <1>2, SentSubset
<1>6. \A k \in Node : answer'[k].key = answer[k].key
  BY <1>1, <1>2 DEF GiveUp, Answered
<1>7. \A k \in Node : \A e \in callbacks'[k] : e \in callbacks[k] \/ (k = n /\ e = d)
  BY <1>1, <1>2, OpenedOnly
<1>8. \A k \in Node : \A e : KeyOf(k, e)' = KeyOf(k, e)
  BY <1>6, SameKeys
<1>9. \A k \in Node : \A e \in callbacks'[k] :
        \/ e \in callbacks[k] /\ (Seeks(e) => KeyOf(k, e)' = KeyOf(k, e))
        \/ k = n /\ e = d
  BY <1>7, <1>8
<1>10. Inv /\ GetNext(n, "check", id)
  BY <1>0, <1>1
<1> QED
  BY <1>3, <1>4, <1>9, <1>10, AskMeant

\* The user's lookup asks for the user's key.
LEMMA LookupMeant ==
  ASSUME OnlyJoining, Settled, Meant, NEW n \in Node, NEW key \in Key, Lookup(n, key)
  PROVE  Meant'
<1>1. StateOK /\ answer \in [Node -> Promise] /\ Inv
  BY InvParts DEF StateOK, Settled
<1>2. \A c \in callbacks[n] : c.kind # "lookup"
  BY DEF Lookup, Settled, OneOpen
<1>3. PICK p : p.key = key /\ answer' = [answer EXCEPT ![n] = p]
  BY DEF Lookup
<1>4. \A k \in Node : answer'[k].key = IF k = n THEN key ELSE answer[k].key
  BY <1>1, <1>3
<1>5. \A k \in Node : \A d \in callbacks[k] : Seeks(d) => KeyOf(k, d)' = KeyOf(k, d)
  <2> SUFFICES ASSUME NEW k \in Node, NEW d \in callbacks[k], Seeks(d)
               PROVE  KeyOf(k, d)' = KeyOf(k, d)
    OBVIOUS
  <2>1. d.kind # "finger" => answer'[k].key = answer[k].key
    BY <1>2, <1>4 DEF Seeks
  <2> QED
    BY <2>1, SameKeys
<1>6. CASE UNCHANGED <<callbacks, net>>
  BY <1>1, <1>5, <1>6, MeantStep
<1>7. ASSUME NEW hop, NEW id, NEW c, NEW q,
             c = NewCallback(id, "lookup", hop, 0),
             q = NewRequest("LOOKUP", id, n, key, hop, LookupTtl),
             GetNext(n, "lookup", id), Open(n, c, {}), net' = net \cup Sent({q})
      PROVE  Meant'
  <2>1. c.id = id /\ c.kind = "lookup"
        /\ q.src = n /\ q.id = c.id /\ q.type = "LOOKUP" /\ q.dst = key
    BY <1>7 DEF NewCallback, NewRequest
  <2>2. KeyOf(n, c)' = key
    BY <1>4, <2>1 DEF KeyOf
  <2>3. \A k \in Node : \A d \in callbacks'[k] : d \in callbacks[k] \/ (k = n /\ d = c)
    BY <1>1, <1>7, OpenedOnly
  <2>4. net' \subseteq net \cup {q} /\ GetNext(n, "lookup", id)
    BY <1>7, SentSubset
  <2>5. \A k \in Node : \A d \in callbacks'[k] :
          \/ d \in callbacks[k] /\ (Seeks(d) => KeyOf(k, d)' = KeyOf(k, d))
          \/ k = n /\ d = c
    BY <1>5, <2>3
  <2>6. Seeks(c) => q.type = "LOOKUP" /\ q.dst = KeyOf(n, c)'
    BY <2>1, <2>2
  <2> QED
    BY <1>1, <2>1, <2>4, <2>5, <2>6, AskMeant
<1>8. \/ UNCHANGED <<callbacks, net>>
      \/ \E hop, id, c, q :
           /\ c = NewCallback(id, "lookup", hop, 0)
           /\ q = NewRequest("LOOKUP", id, n, key, hop, LookupTtl)
           /\ GetNext(n, "lookup", id) /\ Open(n, c, {}) /\ net' = net \cup Sent({q})
  BY DEF Lookup
<1> QED
  BY <1>6, <1>7, <1>8

\* The receiver: who answers names the owner.
LEMMA ReceiverMeant ==
  ASSUME KeepsMembers, Settled, Meant, NEW n \in Node, NEW m \in net, Receive(n, m)
  PROVE  Meant'
<1>1. callbacks \in [Node -> SUBSET Callback] /\ answer \in [Node -> Promise] /\ Inv
      /\ OnlyJoining
  BY InvParts DEF StateOK, Settled, KeepsMembers
<1>2. MessageFits(m)
  BY <1>1, InvParts DEF NetOK, Sendable
<1>3. ASSUME UNCHANGED <<callbacks, answer>>,
             \A x \in net' : \/ x \in net
                             \/ /\ x.src = m.src /\ x.id = m.id
                                /\ \/ m.type = "LOOKUP" /\ x.type = "LOOKUP" /\ x.dst = m.dst
                                   \/ m.type = "LOOKUP" /\ x.type = "REPLY"
                                      /\ x.dst = Owner(m.dst, Node)
                                   \/ m.type \in {"NOTIFY", "CHECK"}
      PROVE  Meant'
  <2>1. \A k \in Node : \A c : KeyOf(k, c)' = KeyOf(k, c)
    BY <1>3, SameKeys
  <2>2. \A k \in Node : \A c \in callbacks'[k] : c \in callbacks[k]
    BY <1>3
  <2> QED
    BY <1>1, <1>3, <2>1, <2>2, MeantStep
<1>4. CASE DropExpired(n, m)
  BY <1>3, <1>4 DEF DropExpired
<1>5. CASE HandleLookup(n, m)
  <2> DEFINE hop == FindSuccessor(fingers[n], n, m.dst)
             owner == [ReplyTo(Hopped(m), successor(n)) EXCEPT !.hop = 0]
             self  == [ReplyTo(Hopped(m), n) EXCEPT !.hop = 0]
             fwd   == [Hopped(m) EXCEPT !.to = hop]
  <2>1. m.type = "LOOKUP" /\ m.dst \in Id /\ UNCHANGED <<callbacks, answer>>
    BY <1>2, <1>5 DEF HandleLookup, MessageFits, Request
  <2>2. \/ /\ RangeOpenClosed(m.dst, n, successor(n))
           /\ net' = (net \ {m}) \cup Sent({owner})
        \/ hop = n /\ net' = (net \ {m}) \cup Sent({self})
        \/ net' = (net \ {m}) \cup Sent({fwd})
    BY <1>5 DEF HandleLookup
  <2>3. /\ owner.src = m.src /\ owner.id = m.id /\ owner.type = "REPLY" /\ owner.dst = successor(n)
        /\ self.src = m.src /\ self.id = m.id /\ self.type = "REPLY" /\ self.dst = n
    BY <1>2, RepliesName
  <2>4. fwd.src = m.src /\ fwd.id = m.id /\ fwd.type = "LOOKUP" /\ fwd.dst = m.dst
    BY <1>2, <2>1, HoppedFits
  <2> HIDE DEF owner, self, fwd
  <2>5. \/ \A x \in net' : x \in net \/ (x = owner /\ RangeOpenClosed(m.dst, n, successor(n)))
        \/ \A x \in net' : x \in net \/ (x = self /\ hop = n)
        \/ \A x \in net' : x \in net \/ x = fwd
    BY <2>2, SentSubset
  <2> QED
    BY <1>3, <2>1, <2>3, <2>4, <2>5, OwnersAreNamed
<1>6. CASE HandleNotify(n, m) \/ HandleCheck(n, m)
  <2> DEFINE out == ReplyTo(Hopped(m), IF m.type = "CHECK" THEN m.dst ELSE predecessor[n])
  <2>1. m.type \in {"NOTIFY", "CHECK"} /\ UNCHANGED <<callbacks, answer>>
        /\ net' = (net \ {m}) \cup Sent({out})
    BY <1>6 DEF HandleNotify, HandleCheck
  <2>2. out.src = m.src /\ out.id = m.id
    <3> DEFINE h == Hopped(m)
    <3>1. MessageFits(h) /\ h.src = m.src /\ h.id = m.id
      BY <1>2, HoppedSame
    <3> HIDE DEF h
    <3>2. \A dst : ReplyTo(h, dst).src = h.src /\ ReplyTo(h, dst).id = h.id
      BY <3>1, ReplyRecord
    <3> QED
      BY <3>1, <3>2 DEF h
  <2> HIDE DEF out
  <2>3. \A x \in net' : x \in net \/ x = out
    BY <2>1, SentSubset
  <2> QED
    BY <1>3, <2>1, <2>2, <2>3
<1>7. CASE HandleReply(n, m)
  <2>1. net' \subseteq net /\ \A k \in Node : callbacks'[k] \subseteq callbacks[k]
    BY <1>1, <1>7 DEF HandleReply
  <2>2. \A k \in Node : answer'[k].key = answer[k].key
    BY <1>1, <1>7 DEF HandleReply, OnSuccess, Answered
  <2>3. \A k \in Node : \A c : KeyOf(k, c)' = KeyOf(k, c)
    BY <2>2, SameKeys
  <2> QED
    BY <1>1, <2>1, <2>3, MeantStep
<1>8. ~HandleLeave(n, m)
  BY NobodyMoves
<1> QED
  BY <1>4, <1>5, <1>6, <1>7, <1>8 DEF Receive

\* In a ring that keeps its members lookups stay what they were meant to be.
LEMMA MeantNext ==
  ASSUME KeepsMembers
  PROVE  Settled /\ Meant /\ [Next]_vars => Meant'
<1> SUFFICES ASSUME Settled, Meant, [Next]_vars PROVE Meant'
  OBVIOUS
<1>0. OnlyJoining
  BY DEF KeepsMembers
<1>1. CASE UNCHANGED vars
  BY <1>1 DEF vars, Meant, KeyOf, Start
<1>2. ASSUME NEW n \in Node, CheckRequests(n)
      PROVE  Meant'
  BY <1>0, <1>2, ExpireRequestMeant, NobodyMoves DEF CheckRequests
<1>3. ASSUME NEW n \in Node, Receiver(n)
      PROVE  Meant'
  BY <1>3, ReceiverMeant DEF Receiver
<1>4. ASSUME NEW n \in Node, Program(n)
      PROVE  Meant'
  BY <1>0, <1>4, LookupMeant, NobodyMoves DEF Program
<1>5. ASSUME Environment
      PROVE  Meant'
  <2>1. CASE Node = {}
    BY <1>5, <2>1 DEF Meant
  <2> QED
    BY <1>5, <2>1, NobodyMoves
<1> QED
  BY <1>0, <1>1, <1>2, <1>3, <1>4, <1>5, UpdaterMeant DEF Next

----------------------------------------------------------------------------
(***************************************************************************)
(* The refinement of LookupService with one right answer to each key.      *)
(***************************************************************************)

\* What a promise is set to is the owner of its key.
LEMMA ExactStep ==
  ASSUME KeepsMembers, Settled, Meant, PromiseStep
  PROVE  [Exact!Next]_([n \in Asker |-> answer[n]])
<1> DEFINE a == [k \in Asker |-> answer[k]]
           right == [key \in Key |-> {Owner(key, Initial)}]
<1>1. answer \in [Node -> Promise] /\ Asker \subseteq Node /\ Key \subseteq Id /\ Initial = Node
  BY InvParts, NodeAssumption, RequestAssumption DEF StateOK, Settled, KeepsMembers
<1>2. ASSUME NEW n \in Node \ Asker, NEW p, answer' = [answer EXCEPT ![n] = p]
      PROVE  a' = a
  BY <1>1, <1>2
<1>3. ASSUME NEW n \in Asker, Asks(n)
      PROVE  Exact!Next
  <2>1. PICK key \in Key :
          \/ answer' = [answer EXCEPT ![n] = Pending(key)]
          \/ /\ RangeOpenClosed(key, n, successor(n))
             /\ answer' = [answer EXCEPT ![n] = Answered(Pending(key), successor(n))]
    BY <1>3 DEF Asks
  <2>2. RangeOpenClosed(key, n, successor(n)) => successor(n) \in right[key]
    BY <1>1, OwnersAreNamed
  <2>3. Answered(Pending(key), successor(n)) = [state |-> "set", key |-> key, peer |-> successor(n)]
    BY DEF Answered, Pending
  <2>4. \/ a' = [a EXCEPT ![n] = [state |-> "pending", key |-> key, peer |-> Nobody]]
        \/ /\ a' = [a EXCEPT ![n] = [state |-> "set", key |-> key, peer |-> successor(n)]]
           /\ successor(n) \in right[key]
    BY <1>1, <2>1, <2>2, <2>3 DEF Pending
  <2>5. a[n].state # "pending"
    BY <1>3 DEF Asks
  <2>6. Exact!Ask(n, key)
    BY <2>4, <2>5 DEF Exact!Ask
  <2> QED
    BY <2>6 DEF Exact!Next
<1>4. ASSUME NEW n \in Asker, Resolves(n)
      PROVE  Exact!Next
  <2>1. a[n].state = "pending" /\ answer[n].state = "pending" /\ a[n] = answer[n] /\ n \in Node
    BY <1>1, <1>4 DEF Resolves
  <2>2. a[n].key \in Key /\ right[a[n].key] = {Owner(answer[n].key, Node)}
    BY <1>1, <2>1 DEF Settled, OneOpen
  <2>3. \E peer \in {Owner(answer[n].key, Node), Nobody} :
          answer' = [answer EXCEPT ![n] = Answered(@, peer)]
    <3>1. ASSUME NEW c \in callbacks[n], NEW m \in net, AnswerTo(n, c, m)
          PROVE  m.dst = Owner(answer[n].key, Node)
      BY <2>1, <3>1 DEF AnswerTo, Meant, Seeks, KeyOf
    <3> QED
      BY <1>4, <3>1 DEF Resolves
  <2>4. PICK peer \in {Owner(answer[n].key, Node), Nobody} :
          answer' = [answer EXCEPT ![n] = Answered(@, peer)]
    BY <2>3
  <2>5. a' = [a EXCEPT ![n].state = "set", ![n].peer = peer]
    BY <1>1, <2>4, SetAsThere
  <2>6. peer \in right[a[n].key] \cup {Nobody}
    BY <2>2, <2>4
  <2>7. Exact!Resolve(n)
    BY <2>1, <2>5, <2>6 DEF Exact!Resolve
  <2> QED
    BY <2>7 DEF Exact!Next
<1>5. ASSUME NEW n \in Node, Asks(n) \/ Resolves(n) \/ Forgets(n)
      PROVE  Exact!Next \/ a' = a
  <2>1. CASE n \in Asker
    BY <1>3, <1>4, <1>5, <2>1 DEF Forgets, KeepsMembers, OnlyJoining
  <2>2. CASE n \notin Asker
    <3>1. \E p : answer' = [answer EXCEPT ![n] = p]
      BY <1>5, <2>2 DEF Asks, Resolves, Forgets
    <3> QED
      BY <1>2, <2>2, <3>1
  <2> QED
    BY <2>1, <2>2
<1> QED
  BY <1>5 DEF PromiseStep

\* At the start there are no lookups.
LEMMA MeantInit == Init \/ StaleInit => Meant
BY DEF Init, StaleInit, InitRest, Meant

\* In a ring that keeps its members, however stale the finger tables are at the start
\* and whatever the updater makes of them meanwhile, a lookup is answered with the
\* owner of its key or with nobody, and once: the safety of LookupsExact.
THEOREM LookupsFindOwners ==
  ASSUME KeepsMembers
  PROVE  Spec \/ StaleSpec => Exact!Safety
<1>1. Init \/ StaleInit => Exact!Init
  <2>1. Asker \subseteq Node
    BY NodeAssumption
  <2> QED
    BY <2>1 DEF Init, StaleInit, InitRest, Exact!Init, Unasked
<1>2. Settled /\ Meant /\ [Next]_vars => [Exact!Next]_([n \in Asker |-> answer[n]])
  BY SettledNext, ExactStep
<1>3. Settled /\ Meant /\ [Next]_vars => (Settled /\ Meant)'
  BY SettledNext, MeantNext
<1> QED
  BY <1>1, <1>2, <1>3, SettledInit, MeantInit, PTL DEF Spec, StaleSpec, Exact!Safety

----------------------------------------------------------------------------
(***************************************************************************)
(* The number of hops.                                                     *)
(***************************************************************************)

\* Every slot of every table holds the owner of its start.
TablesInOrder == \A n \in Node : InOrder(fingers[n], n, Node)

\* h hops are done and r steps are left: every further hop takes away the highest
\* bit of what is left. A node that asks for its own identifier has one bit more to
\* go, and spends the first hop on its successor.
FewLeft(r, h) ==
  \E j \in 0 .. Bits : \/ r <= 2^j - 1 /\ h + j <= Bits - 1
                       \/ j >= 1 /\ r <= 2^j - 2 /\ h + j <= Bits

\* Who holds a lookup of its own identifier is the one that answers it, or asked.
HopsLeft(m) ==
  LET p == NextBefore(m.dst, Node)
  IN  /\ m.to = p \/ m.to # m.dst
      /\ FewLeft(Rest(m.to, p), m.hop)

\* Every lookup has few hops to go.
HopsFew == \A m \in net : m.type = "LOOKUP" => HopsLeft(m)

\* A hop that is one of few leaves fewer.
LEMMA HopOfFew ==
  ASSUME NEW M \in SUBSET Id, NEW x \in M, NEW key \in Id, x # key, NEW table,
         InOrder(table, x, M),
         ~RangeOpenClosed(key, x, table[0]), FindSuccessor(table, x, key) # x,
         NEW p, p = NextBefore(key, M), NEW h \in Nat
  PROVE  /\ FewLeft(Rest(x, p), h) => FewLeft(Rest(FindSuccessor(table, x, key), p), h + 1)
         /\ h = 0 => FewLeft(Rest(FindSuccessor(table, x, key), p), h)
<1> DEFINE d == Dist(x, p)
           i == P2Index(d)
           r == Rest(FindSuccessor(table, x, key), p)
<1>1. x # p /\ p \in Id /\ x \in Id
  BY LastAnswers
<1>2. d \in Nat \ {0} /\ d < 2^Bits /\ Rest(x, p) = d
  BY <1>1, MinusIsDist DEF Rest
<1>3. i \in Finger /\ 2^i <= d /\ d < 2^(i + 1)
  BY <1>2, TopBit
<1>4. r <= d - 2^i /\ r \in Nat
  BY <1>3, HopHalves
<1> HIDE DEF d, i, r
<1>5. Bits \in Nat /\ i \in Nat /\ i <= Bits - 1 /\ i \in 0 .. Bits /\ 2^i \in Nat
      /\ 2^(i + 1) = 2 * 2^i
  BY <1>3, WidthAssumption, PowerAssumption DEF Finger
<1>6. r <= 2^i - 1
  BY <1>2, <1>3, <1>4, <1>5
<1>7. h = 0 => FewLeft(r, h)
  BY <1>5, <1>6 DEF FewLeft
<1>8. ASSUME FewLeft(d, h)
      PROVE  FewLeft(r, h + 1)
  <2>1. PICK j \in 0 .. Bits : \/ d <= 2^j - 1 /\ h + j <= Bits - 1
                               \/ j >= 1 /\ d <= 2^j - 2 /\ h + j <= Bits
    BY <1>8 DEF FewLeft
  <2>2. 2^j \in Nat /\ j \in Nat
    BY WidthAssumption
  <2>3. d < 2^j
    BY <1>2, <2>1, <2>2
  <2>4. i < j
    <3>1. CASE j <= i
      <4>1. 2^j <= 2^i
        BY <1>5, <3>1, PowersGrow
      <4> QED
        BY <1>2, <1>3, <1>5, <2>2, <2>3, <4>1
    <3> QED
      BY <1>5, <2>2, <3>1
  <2>5. CASE h + 1 + i <= Bits - 1
    BY <1>5, <1>6, <2>5 DEF FewLeft
  <2>6. CASE h + 1 + i > Bits - 1
    <3>1. j = i + 1 /\ d <= 2^j - 2 /\ h + j <= Bits
      BY <1>5, <2>1, <2>2, <2>4, <2>6
    <3>2. d <= 2 * 2^i - 2
      BY <1>5, <3>1
    <3>3. r <= 2^i - 2 /\ h + 1 + i <= Bits
      BY <1>2, <1>4, <1>5, <3>1, <3>2
    <3>4. i >= 1
      <4>1. i = 0 => 2^i = 1
        BY PowerAssumption
      <4>2. i # 0
        BY <1>4, <1>5, <3>3, <4>1
      <4> QED
        BY <1>5, <4>2
    <3> QED
      BY <1>5, <3>3, <3>4 DEF FewLeft
  <2> QED
    BY <1>5, <2>5, <2>6
<1> QED
  BY <1>2, <1>7, <1>8 DEF d, i, r

\* Few hops are fewer than the bits of an identifier.
LEMMA FewAreFew ==
  ASSUME NEW r \in Nat, NEW h \in Nat, FewLeft(r, h)
  PROVE  h < Bits
<1>1. PICK j \in 0 .. Bits : \/ r <= 2^j - 1 /\ h + j <= Bits - 1
                             \/ j >= 1 /\ r <= 2^j - 2 /\ h + j <= Bits
  BY DEF FewLeft
<1>2. Bits \in Nat /\ j \in Nat
  BY WidthAssumption
<1> QED
  BY <1>1, <1>2

\* A lookup a node has just made has few hops to go.
LEMMA NewHops ==
  ASSUME KeepsMembers, Settled, TablesInOrder, NEW n \in Node, NEW key \in Id,
         ~RangeOpenClosed(key, n, successor(n)),
         NEW q, q.dst = key, q.to = FindSuccessor(fingers[n], n, key), q.hop = 0
  PROVE  HopsLeft(q)
<1> DEFINE p == NextBefore(key, Node)
<1>1. n \in Id /\ Node \subseteq Id /\ successor(n) = fingers[n][0] /\ InOrder(fingers[n], n, Node)
  BY AllInRing DEF TablesInOrder, successor
<1>2. Bits \in Nat /\ Bits >= 2
  BY WidthAssumption
<1>3. p \in Node
  BY <1>1, NeighboursExist
<1>4. CASE q.to = n
  <2>1. fingers[n][0] = n
    <3>1. fingers[n] \in [Finger -> Id]
      BY <1>1 DEF InOrder
    <3> QED
      BY <1>1, <1>4, <3>1, LoopsBack
  <2>2. Node = {n}
    BY <1>1, <2>1, AloneIsAll DEF InOrder
  <2>3. p = n
    BY <1>3, <2>2
  <2>4. Rest(q.to, p) = 0
    BY <1>4, <2>3 DEF Rest
  <2>5. FewLeft(Rest(q.to, p), q.hop)
    <3>1. 0 \in 0 .. Bits /\ 0 <= 2^0 - 1 /\ 0 + 0 <= Bits - 1
      BY <1>2, PowerAssumption
    <3>2. FewLeft(0, 0)
      BY <3>1 DEF FewLeft
    <3> QED
      BY <2>4, <3>2
  <2>6. q.to = NextBefore(q.dst, Node)
    BY <1>4, <2>3
  <2> QED
    BY <2>5, <2>6, <1>4, q.dst = key DEF HopsLeft
<1>5. CASE q.to # n
  <2>1. q.to # key
    BY <1>1, <1>5, LastAnswers
  <2>2. FewLeft(Rest(q.to, p), q.hop)
    <3>1. CASE n # key
      <4>1. ~RangeOpenClosed(key, n, fingers[n][0]) /\ FindSuccessor(fingers[n], n, key) # n
        BY <1>1, <1>5
      <4>2. 0 = 0 => FewLeft(Rest(FindSuccessor(fingers[n], n, key), p), 0)
        BY <1>1, <3>1, <4>1, HopOfFew, 0 \in Nat
      <4> QED
        BY <4>2
    <3>2. CASE n = key
      <4>1. Rest(q.to, p) <= 2^Bits - 2
        BY <1>1, <1>5, <3>2, HopFromKey
      <4>2. Bits \in 0 .. Bits /\ Bits >= 1 /\ q.hop + Bits <= Bits
        BY <1>2
      <4> QED
        BY <4>1, <4>2 DEF FewLeft
    <3> QED
      BY <3>1, <3>2
  <2> QED
    BY <2>1, <2>2 DEF HopsLeft
<1> QED
  BY <1>4, <1>5

\* A lookup that is handed on has fewer hops to go.
LEMMA NextHops ==
  ASSUME KeepsMembers, Settled, TablesInOrder, NEW m \in net, HopsLeft(m),
         NEW n \in Node, m.to = n, m.dst \in Id, m.hop \in Nat,
         ~RangeOpenClosed(m.dst, n, successor(n)), FindSuccessor(fingers[n], n, m.dst) # n,
         NEW q, q.dst = m.dst, q.to = FindSuccessor(fingers[n], n, m.dst), q.hop = m.hop + 1
  PROVE  HopsLeft(q)
<1> DEFINE p == NextBefore(m.dst, Node)
<1>1. n \in Id /\ Node \subseteq Id /\ successor(n) = fingers[n][0] /\ InOrder(fingers[n], n, Node)
  BY AllInRing DEF TablesInOrder, successor
<1>2. n # p /\ q.to # m.dst
  <2> DEFINE key == m.dst
  <2>1. key \in Id /\ n \in Node /\ FindSuccessor(fingers[n], n, key) # n
    OBVIOUS
  <2>2. InOrder(fingers[n], n, Node) /\ ~RangeOpenClosed(key, n, fingers[n][0])
    BY <1>1
  <2>3. q.to = FindSuccessor(fingers[n], n, key)
    OBVIOUS
  <2> HIDE DEF key
  <2>4. n # NextBefore(key, Node) /\ FindSuccessor(fingers[n], n, key) # key
    BY <1>1, <2>1, <2>2, LastAnswers
  <2> QED
    BY <2>3, <2>4 DEF key
<1>3. n # m.dst /\ FewLeft(Rest(n, p), m.hop)
  BY <1>2 DEF HopsLeft
<1>4. FewLeft(Rest(q.to, p), q.hop)
  BY <1>1, <1>3, HopOfFew
<1> QED
  BY <1>2, <1>4 DEF HopsLeft

----------------------------------------------------------------------------
(***************************************************************************)
(* The tables stay in order, and with them the lookups.                    *)
(***************************************************************************)

\* A table stays in order when a slot is set to what it should hold.
LEMMA SlotSet ==
  ASSUME NEW table, NEW n \in Node, InOrder(table, n, Node), NEW i \in Finger, NEW k,
         k = IF i = 0 THEN NextAfter(n, Node) ELSE Owner(Start(n, i), Node), k \in Node
  PROVE  InOrder([table EXCEPT ![i] = k], n, Node)
<1>1. 0 \in Finger
  BY WidthAssumption DEF Finger
<1> QED
  BY <1>1 DEF InOrder, Start

\* fixFingers stores the owner of the start of the slot, at once or by a lookup.
LEMMA FixFingersInOrder ==
  ASSUME KeepsMembers, Settled, TablesInOrder, NEW n \in Node, FixFingers(n)
  PROVE  TablesInOrder'
<1>1. /\ fingers \in [Node -> [Finger -> Node]] /\ nextFinger[n] \in Finger \ {0}
      /\ successor(n) \in Node /\ n \in Id
  BY AllInRing, SlotsNamed DEF StateOK, Settled, KeepsMembers
<1>2. CASE UNCHANGED fingers
  BY <1>2 DEF TablesInOrder, InOrder
<1>3. CASE /\ RangeOpenClosed(Start(n, nextFinger[n]), n, successor(n))
           /\ fingers' = [fingers EXCEPT ![n][nextFinger[n]] = successor(n)]
  <2> DEFINE i == nextFinger[n]
  <2>1. Start(n, i) \in Id
    BY <1>1, StepsUp DEF Start
  <2>2. successor(n) = Owner(Start(n, i), Node)
    BY <1>3, <2>1, OwnersAreNamed
  <2>3. InOrder([fingers[n] EXCEPT ![i] = successor(n)], n, Node)
    BY <1>1, <2>2, SlotSet DEF TablesInOrder
  <2>4. \A k \in Node : fingers'[k] = IF k = n THEN [fingers[n] EXCEPT ![i] = successor(n)]
                                      ELSE fingers[k]
    BY <1>1, <1>3
  <2>5. \A k \in Node : InOrder(fingers'[k], k, Node)
    BY <2>3, <2>4 DEF TablesInOrder
  <2> QED
    BY <2>5 DEF TablesInOrder, InOrder
<1> QED
  BY <1>2, <1>3 DEF FixFingers

\* A reply replaces a slot by the owner of its start; the successor is right already.
LEMMA ReplyInOrder ==
  ASSUME KeepsMembers, Settled, Meant, TablesInOrder, NEW n \in Node, NEW m \in net,
         HandleReply(n, m)
  PROVE  TablesInOrder'
<1>1. /\ fingers \in [Node -> [Finger -> Node]] /\ callbacks \in [Node -> SUBSET Callback]
      /\ successor(n) \in Node /\ n \in Id /\ Node \subseteq Id
      /\ successor(n) = NextAfter(n, Node)
  BY AllInRing, SlotsNamed DEF StateOK, Settled, KeepsMembers
<1>2. m.type = "REPLY" /\ m.src = n
  BY InvParts DEF HandleReply, Arriving, NetOK, Sendable, MessageFits, Settled
<1>3. CASE UNCHANGED fingers
  BY <1>3 DEF TablesInOrder, InOrder
<1>4. ASSUME NEW c \in callbacks[n], c.id = m.id, OnSuccess(n, c, m.dst)
      PROVE  TablesInOrder'
  <2>1. c.kind # "succ" /\ (c.kind = "finger" => c.finger \in Finger \ {0})
    <3>1. c \in Callback
      BY <1>1
    <3>2. c.kind # "succ" /\ (c.kind = "finger" => c.finger # 0)
      BY DEF Settled, Growing, OnlyJoins
    <3> QED
      BY <3>1, <3>2 DEF Callback
  <2>2. Fits(c, m)
    BY <1>2, <1>4, SlotsNamed DEF AnswersFit, Settled, KeepsMembers
  <2>3. CASE AdoptsSuccessor(n, c, m.dst)
    <3>1. /\ c.kind = "notify"
          /\ successor(n) = n \/ RangeOpen(m.dst, n, successor(n))
      BY <2>1, <2>3 DEF AdoptsSuccessor
    <3>2. m.dst \in Node
      BY <1>2, <2>2, <3>1 DEF Fits
    <3>3. CASE successor(n) = n
      <4>1. Node = {n}
        BY <1>1, <3>3, AloneIsAll
      <4>2. m.dst = successor(n)
        BY <3>2, <3>3, <4>1
      <4> QED
        BY <1>1, <1>3, <1>4, <2>3, <4>2 DEF OnSuccess, successor
    <3>4. CASE RangeOpen(m.dst, n, successor(n))
      <4>1. Dist(n, m.dst) < Dist(n, successor(n))
        BY <1>1, <3>2, <3>4, RangesAreNear
      <4>2. Dist(n, successor(n)) <= Dist(n, m.dst)
        BY <1>1, <3>2, NeighboursExist
      <4>3. Dist(n, m.dst) \in Nat /\ Dist(n, successor(n)) \in Nat
        BY <1>1, <3>2, DistApart
      <4> QED
        BY <4>1, <4>2, <4>3
    <3> QED
      BY <3>1, <3>3, <3>4
  <2>4. CASE ~AdoptsSuccessor(n, c, m.dst) /\ c.kind = "finger"
    <3>1. m.dst = Owner(Start(n, c.finger), Node) /\ m.dst \in Node
      BY <1>2, <1>4, <2>2, <2>4 DEF Meant, Seeks, KeyOf, Fits
    <3>2. InOrder([fingers[n] EXCEPT ![c.finger] = m.dst], n, Node)
      BY <2>1, <2>4, <3>1, SlotSet DEF TablesInOrder
    <3>3. fingers' = [fingers EXCEPT ![n][c.finger] = m.dst]
      BY <1>4, <2>4 DEF OnSuccess
    <3>4. \A k \in Node : fingers'[k] = IF k = n THEN [fingers[n] EXCEPT ![c.finger] = m.dst]
                                        ELSE fingers[k]
      BY <1>1, <3>3
    <3>5. \A k \in Node : InOrder(fingers'[k], k, Node)
      BY <3>2, <3>4 DEF TablesInOrder
    <3> QED
      BY <3>5 DEF TablesInOrder, InOrder
  <2>5. CASE ~AdoptsSuccessor(n, c, m.dst) /\ c.kind # "finger"
    BY <1>3, <1>4, <2>5 DEF OnSuccess
  <2> QED
    BY <2>3, <2>4, <2>5
<1> QED
  BY <1>3, <1>4 DEF HandleReply

\* Every step keeps the tables in order.
LEMMA TablesNext ==
  ASSUME KeepsMembers
  PROVE  Settled /\ Meant /\ TablesInOrder /\ [Next]_vars => TablesInOrder'
<1> SUFFICES ASSUME Settled, Meant, TablesInOrder, [Next]_vars PROVE TablesInOrder'
  OBVIOUS
<1>1. CASE UNCHANGED fingers
  BY <1>1 DEF TablesInOrder, InOrder
<1>2. ASSUME NEW n \in Node, Updater(n)
      PROVE  TablesInOrder'
  BY <1>1, <1>2, FixFingersInOrder DEF Updater, Stabilize, CheckPredecessor
<1>3. ASSUME NEW n \in Node, CheckRequests(n)
      PROVE  TablesInOrder'
  <2>1. ~ExpireCheck(n)
    BY NobodyMoves
  <2> QED
    BY <1>1, <1>3, <2>1 DEF CheckRequests, ExpireRequest
<1>4. ASSUME NEW n \in Node, NEW m \in net, Receive(n, m)
      PROVE  TablesInOrder'
  <2>1. ~HandleLeave(n, m)
    BY NobodyMoves
  <2> QED
    BY <1>1, <1>4, <2>1, ReplyInOrder
    DEF Receive, DropExpired, HandleLookup, HandleNotify, HandleCheck
<1>5. ASSUME NEW n \in Node, Program(n)
      PROVE  TablesInOrder'
  <2>1. /\ \A peer \in Node : ~Join(n, peer)
        /\ ~JoinReply(n) /\ ~Leave(n)
    BY NobodyMoves
  <2> QED
    BY <1>1, <1>5, <2>1 DEF Program, Lookup
<1>6. ASSUME Environment
      PROVE  TablesInOrder'
  <2>1. CASE Node = {}
    BY <2>1 DEF TablesInOrder
  <2> QED
    BY <1>6, <2>1, NobodyMoves
<1>7. CASE UNCHANGED vars
  BY <1>1, <1>7 DEF vars
<1> QED
  BY <1>2, <1>3, <1>4, <1>5, <1>6, <1>7 DEF Next, Receiver

\* A ring that has settled has its tables in order.
LEMMA TablesInit ==
  ASSUME KeepsMembers
  PROVE  Init => TablesInOrder
<1> SUFFICES ASSUME Init, NEW n \in Node PROVE InOrder(fingers[n], n, Node)
  BY DEF TablesInOrder
<1>1. n \in Id /\ Node \subseteq Id /\ Initial = Node /\ 0 \in Finger
  BY NodeAssumption, WidthAssumption DEF KeepsMembers, Finger
<1>2. fingers[n] = [i \in Finger |-> IF i = 0 THEN NextAfter(n, Node)
                                     ELSE Owner(Start(n, i), Node)]
  BY <1>1 DEF Init, SettledFingers
<1>3. NextAfter(n, Node) \in Node
  BY <1>1, NeighboursExist
<1>4. \A i \in Finger : Owner(Start(n, i), Node) \in Node
  BY <1>1, SlotsReachOut DEF Start
<1> QED
  BY <1>1, <1>2, <1>3, <1>4 DEF InOrder, Start

\* Lookups that are new or handed on are the ones to look at.
LEMMA HopsStep ==
  ASSUME HopsFew, \A m \in net' : m \in net \/ m.type # "LOOKUP" \/ HopsLeft(m)
  PROVE  HopsFew'
BY DEF HopsFew

\* The updater's calls: fixFingers makes a lookup.
LEMMA UpdaterHops ==
  ASSUME KeepsMembers, Settled, TablesInOrder, HopsFew, NEW n \in Node, Updater(n)
  PROVE  HopsFew'
<1>1. CASE Stabilize(n) \/ CheckPredecessor(n)
  <2>1. CASE Stabilize(n)
    <3>1. PICK id, q :
            /\ q = NewRequest("NOTIFY", id, n, Nobody, successor(n), DefaultTtl)
            /\ net' = net \cup Sent({q})
      BY <2>1 DEF Stabilize
    <3>2. q.type = "NOTIFY"
      BY <3>1 DEF NewRequest
    <3> QED
      BY <3>1, <3>2, SentSubset, HopsStep
  <2>2. CASE CheckPredecessor(n)
    <3>1. PICK id, q :
            /\ q = CheckRequest(n, id, predecessor[n])
            /\ net' = net \cup Sent({q})
      BY <2>2 DEF CheckPredecessor
    <3>2. q.type = "CHECK"
      BY <3>1 DEF CheckRequest, NewRequest
    <3> QED
      BY <3>1, <3>2, SentSubset, HopsStep
  <2> QED
    BY <1>1, <2>1, <2>2
<1>2. CASE FixFingers(n)
  <2> DEFINE i == nextFinger[n]
             key == Start(n, i)
             hop == FindSuccessor(fingers[n], n, key)
             q(id) == NewRequest("LOOKUP", id, n, key, hop, DefaultTtl)
  <2>1. key \in Id
    BY AllInRing, StepsUp DEF Start, StateOK
  <2>2. \A id : q(id).dst = key /\ q(id).to = hop /\ q(id).hop = 0
    BY DEF NewRequest
  <2>3. UNCHANGED net \/ (~RangeOpenClosed(key, n, successor(n)) /\ \E id : net' = net \cup Sent({q(id)}))
    BY <1>2 DEF FixFingers
  <2> HIDE DEF q, key
  <2>4. ~RangeOpenClosed(key, n, successor(n)) => \A id : HopsLeft(q(id))
    BY <2>1, <2>2, NewHops
  <2> QED
    BY <2>3, <2>4, SentSubset, HopsStep
<1> QED
  BY <1>1, <1>2 DEF Updater

\* The user's lookup.
LEMMA LookupHops ==
  ASSUME KeepsMembers, Settled, TablesInOrder, HopsFew, NEW n \in Node, NEW key \in Key,
         Lookup(n, key)
  PROVE  HopsFew'
<1> DEFINE hop == FindSuccessor(fingers[n], n, key)
           q(id) == NewRequest("LOOKUP", id, n, key, hop, LookupTtl)
<1>1. (\A id : q(id).dst = key /\ q(id).to = hop /\ q(id).hop = 0) /\ key \in Id
  BY RequestAssumption DEF NewRequest
<1>2. UNCHANGED net \/ (~RangeOpenClosed(key, n, successor(n)) /\ \E id : net' = net \cup Sent({q(id)}))
  BY DEF Lookup
<1> HIDE DEF q
<1>3. ~RangeOpenClosed(key, n, successor(n)) => \A id : HopsLeft(q(id))
  BY <1>1, NewHops
<1> QED
  BY <1>2, <1>3, SentSubset, HopsStep

\* The receiver: a lookup is answered or handed on.
LEMMA ReceiverHops ==
  ASSUME KeepsMembers, Settled, TablesInOrder, HopsFew, NEW n \in Node, NEW m \in net,
         Receive(n, m)
  PROVE  HopsFew'
<1>1. MessageFits(m) /\ m \in Request
  BY InvParts DEF NetOK, Sendable, Settled, MessageFits
<1>2. CASE DropExpired(n, m) \/ HandleReply(n, m)
  BY <1>2, HopsStep DEF DropExpired, HandleReply
<1>3. CASE HandleLookup(n, m)
  <2> DEFINE hop == FindSuccessor(fingers[n], n, m.dst)
             owner == [ReplyTo(Hopped(m), successor(n)) EXCEPT !.hop = 0]
             self  == [ReplyTo(Hopped(m), n) EXCEPT !.hop = 0]
             fwd   == [Hopped(m) EXCEPT !.to = hop]
  <2>1. m.type = "LOOKUP" /\ m.dst \in Id /\ m.to = n /\ m.hop \in Nat
    BY <1>1, <1>3 DEF HandleLookup, MessageFits, Arriving, Request
  <2>2. \/ net' = (net \ {m}) \cup Sent({owner})
        \/ net' = (net \ {m}) \cup Sent({self})
        \/ /\ ~RangeOpenClosed(m.dst, n, successor(n)) /\ hop # n
           /\ net' = (net \ {m}) \cup Sent({fwd})
    BY <1>3 DEF HandleLookup
  <2>3. owner.type = "REPLY" /\ self.type = "REPLY"
    BY <1>1, RepliesName
  <2>4. fwd.dst = m.dst /\ fwd.to = hop /\ fwd.hop = m.hop + 1
    BY <1>1, HoppedFits
  <2> HIDE DEF owner, self, fwd
  <2>5. ~RangeOpenClosed(m.dst, n, successor(n)) /\ hop # n => HopsLeft(fwd)
    BY <2>1, <2>4, NextHops DEF HopsFew
  <2>6. \/ \A x \in net' : x \in net \/ x = owner
        \/ \A x \in net' : x \in net \/ x = self
        \/ \A x \in net' : x \in net \/ (x = fwd /\ HopsLeft(fwd))
    BY <2>2, <2>5, SentSubset
  <2> QED
    BY <2>3, <2>6, HopsStep
<1>4. CASE HandleNotify(n, m) \/ HandleCheck(n, m)
  <2> DEFINE out == ReplyTo(Hopped(m), IF m.type = "CHECK" THEN m.dst ELSE predecessor[n])
  <2>1. net' = (net \ {m}) \cup Sent({out})
    BY <1>4 DEF HandleNotify, HandleCheck
  <2>2. out.type = "REPLY"
    <3>1. MessageFits(Hopped(m))
      BY <1>1, HoppedSame
    <3> QED
      BY <3>1, ReplyRecord
  <2> HIDE DEF out
  <2> QED
    BY <2>1, <2>2, SentSubset, HopsStep
<1>5. ~HandleLeave(n, m)
  BY NobodyMoves
<1> QED
  BY <1>2, <1>3, <1>4, <1>5 DEF Receive

\* Every step leaves few hops to go.
LEMMA HopsNext ==
  ASSUME KeepsMembers
  PROVE  Settled /\ TablesInOrder /\ HopsFew /\ [Next]_vars => HopsFew'
<1> SUFFICES ASSUME Settled, TablesInOrder, HopsFew, [Next]_vars PROVE HopsFew'
  OBVIOUS
<1>1. CASE UNCHANGED vars
  BY <1>1, HopsStep DEF vars
<1>2. ASSUME NEW n \in Node, CheckRequests(n)
      PROVE  HopsFew'
  <2>1. PICK id, peer : net' = net \cup Sent({CheckRequest(n, id, peer)})
    BY <1>2, NobodyMoves DEF CheckRequests, ExpireRequest
  <2>2. CheckRequest(n, id, peer).type = "CHECK"
    BY DEF CheckRequest, NewRequest
  <2> QED
    BY <2>1, <2>2, SentSubset, HopsStep
<1>3. ASSUME NEW n \in Node, Receiver(n)
      PROVE  HopsFew'
  BY <1>3, ReceiverHops DEF Receiver
<1>4. ASSUME NEW n \in Node, Program(n)
      PROVE  HopsFew'
  BY <1>4, LookupHops, NobodyMoves DEF Program
<1>5. ASSUME Environment
      PROVE  HopsFew'
  <2>1. CASE Node = {}
    <3>1. ~\E m \in net : Lose(m)
      BY InvParts DEF Lose, OnlyJoining, KeepsMembers, StateOK, Settled
    <3> QED
      BY <1>5, <2>1, <3>1 DEF Environment
  <2> QED
    BY <1>5, <2>1, NobodyMoves
<1> QED
  BY <1>1, <1>2, <1>3, <1>4, <1>5, UpdaterHops DEF Next

\* In a ring that has settled and keeps its members no lookup, be it the user's or
\* fixFingers', is handed on more often than an identifier has bits: LogHops.
THEOREM HopsAreFew ==
  ASSUME KeepsMembers
  PROVE  Spec => []LogHops
<1> DEFINE All == Settled /\ Meant /\ TablesInOrder /\ HopsFew
<1>1. Init => All
  <2>1. Init => HopsFew
    BY DEF Init, InitRest, HopsFew
  <2> QED
    BY <2>1, SettledInit, MeantInit, TablesInit
<1>2. All /\ [Next]_vars => All'
  BY SettledNext, MeantNext, TablesNext, HopsNext
<1>3. All => LogHops
  <2> SUFFICES ASSUME All, NEW m \in net, m.type = "LOOKUP" PROVE m.hop < Bits
    BY DEF LogHops
  <2> DEFINE p == NextBefore(m.dst, Node)
  <2>1. m.hop \in Nat /\ m.dst \in Id /\ m.to \in Node /\ Node \subseteq Id
    BY InvParts, NodeAssumption DEF NetOK, Sendable, MessageFits, Request, Settled
  <2>2. p \in Id
    BY <2>1, NeighboursExist
  <2>3. Rest(m.to, p) \in Nat
    BY <2>1, <2>2, DistApart DEF Rest
  <2> QED
    BY <2>1, <2>3, FewAreFew DEF HopsFew, HopsLeft
<1> QED
  BY <1>1, <1>2, <1>3, PTL DEF Spec
=============================================================================
