------------------------ MODULE FileTransfer_proofs -------------------------
(***************************************************************************)
(* For any set of nodes on a circle of any width: when a member of an      *)
(* orderly ring departs, its successor answers for its files as soon as it *)
(* has missed it, and while one departs or joins every file stays on the   *)
(* disks of two members, whatever is lost or late. If nothing was lost,    *)
(* every file is in the end where JoinRestores or DepartureRestores says.  *)
(***************************************************************************)
EXTENDS FileTransfer, ChordId_proofs, FiniteSetTheorems, TLAPS

\* Directories that hold none but these files.
Shelves(keys) == [Node -> [Dir -> SUBSET keys]]

\* Before anything happens the ring is in order and nobody owes anything.
Orderly ==
  /\ member \subseteq Node
  /\ successor = [n \in Node |-> NextAfter(n, member)]
  /\ predecessor = [n \in Node |-> NextBefore(n, member)]
  /\ owes = [n \in Node |-> FALSE]
  /\ net = {}
  /\ \E keys \in SUBSET Key : files = Placement(member, keys)

\* Two neighbours that know each other. A NOTIFY of others does not part them.
Edge(a, b) ==
  /\ a \in member /\ b \in member /\ a # b /\ b = NextAfter(a, member)
  /\ successor[a] = b /\ predecessor[b] = a

\* After d has departed the stores of the others are what they were or larger, and
\* the files of d are with its heir: in copy1/ until the heir misses d, then in store/.
Stored(d, keys) ==
  \A k \in keys : \A n \in member :
    Owner(k, member \cup {d}) = n => k \in files[n]["store"]

Inherited(d, keys) ==
  LET heir == NextAfter(d, member)
  IN  \A k \in keys : Owner(k, member \cup {d}) = d =>
        k \in files[heir][IF predecessor[heir] = d THEN "copy1" ELSE "store"]

\* Only copies and LEAVESUCC travel then.
Carried(keys) ==
  \A m \in net : \/ m.type = "FILE" /\ m.arg.key \in keys /\ m.arg.dir \in Dir
                 \/ m.type = "LEAVESUCC"

\* The ring after d has left it: d's files are with its heir, the others where they were.
Bereft(d, keys) ==
  /\ member \subseteq Node
  /\ member # {}
  /\ predecessor \in [Node -> Node]
  /\ files \in Shelves(keys)
  /\ Stored(d, keys)
  /\ Inherited(d, keys)
  /\ Carried(keys)

\* What HeirAnswers rests on: the ring before anything happens, or without d.
TransferInv ==
  \/ change = "join"
  \/ change = "none" /\ Orderly
  \/ change = "departure" /\ \E d \in Node \ member, keys \in SUBSET Key : Bereft(d, keys)

----------------------------------------------------------------------------
\* Nobody is between a node and the next one.
LEMMA NothingBetween ==
  ASSUME NEW M \in SUBSET Id, M # {}, NEW a \in Id, NEW x \in M
  PROVE  ~RangeOpen(x, a, NextAfter(a, M))
<1>1. NextAfter(a, M) \in Id /\ x \in Id
  BY NeighboursExist
<1>2. Dist(a, NextAfter(a, M)) <= Dist(a, x)
  BY NeighboursExist
<1>3. Dist(a, NextAfter(a, M)) \in Nat /\ Dist(a, x) \in Nat
  BY <1>1, RangesAreNear
<1>4. RangeOpen(x, a, NextAfter(a, M)) => Dist(a, x) < Dist(a, NextAfter(a, M))
  BY <1>1, RangesAreNear
<1> QED
  BY <1>2, <1>3, <1>4

\* A NOTIFY makes members predecessors, and leaves one that is next as it is.
LEMMA NotifyPredecessors ==
  ASSUME member \subseteq Node, predecessor \in [Node -> Node], NEW n \in Node, Stabilize(n)
  PROVE  /\ predecessor' \in [Node -> Node]
         /\ \A x \in Node : predecessor'[x] \in member \/ predecessor'[x] = predecessor[x]
         /\ \A a \in Id : LET b == NextAfter(a, member)
                        IN  predecessor[b] = a /\ a # b => predecessor'[b] = a
<1>1. PICK s, target : s = successor[n] /\ target = predecessor[s]
  OBVIOUS
<1>2. /\ n \in member /\ s \in member
      /\ predecessor' = [predecessor EXCEPT ![s] =
           IF target = s \/ RangeOpen(n, target, s) THEN n ELSE target]
  BY <1>1 DEF Stabilize
<1>3. s \in Node /\ target \in Node
  BY <1>1, <1>2
<1>4. /\ predecessor' \in [Node -> Node]
      /\ \A x \in Node : x # s => predecessor'[x] = predecessor[x]
      /\ predecessor'[s] \in {n, target}
      /\ target # s /\ ~RangeOpen(n, target, s) => predecessor'[s] = target
  BY <1>2, <1>3
<1>5. ASSUME NEW a \in Id, NEW b, b = NextAfter(a, member), predecessor[b] = a, a # b
      PROVE  predecessor'[b] = a
  <2>1. member \in SUBSET Id /\ member # {}
    BY <1>2, TransferAssumption
  <2>2. b \in Node
    BY <1>5, <2>1, NeighboursExist
  <2>3. b = s => ~RangeOpen(n, target, s)
    BY <1>1, <1>2, <1>5, <2>1, NothingBetween
  <2> QED
    BY <1>1, <1>4, <1>5, <2>2, <2>3
<1> QED
  BY <1>1, <1>2, <1>4, <1>5

\* Neighbours that know each other stay so, and a ring of members stays one.
LEMMA NotifyNeighbours ==
  ASSUME member \subseteq Node, predecessor \in [Node -> Node], successor \in [Node -> Node],
         NEW n \in Node, Stabilize(n)
  PROVE  /\ successor' \in [Node -> Node]
         /\ \A a, b : Edge(a, b) => Edge(a, b)'
         /\ (\A x \in member : successor[x] \in member /\ predecessor[x] \in member) =>
              \A x \in member : successor'[x] \in member /\ predecessor'[x] \in member
<1>1. PICK s, target : s = successor[n] /\ target = predecessor[s]
  OBVIOUS
<1>2. /\ n \in member /\ s \in member /\ member' = member
      /\ successor' = [successor EXCEPT ![n] =
           IF s = n \/ RangeOpen(target, n, s) THEN target ELSE s]
  BY <1>1 DEF Stabilize
<1>3. s \in Node /\ target \in Node
  BY <1>1, <1>2
<1>4. /\ successor' \in [Node -> Node]
      /\ \A x \in Node : x # n => successor'[x] = successor[x]
      /\ successor'[n] \in {s, target}
      /\ s # n /\ ~RangeOpen(target, n, s) => successor'[n] = s
  BY <1>2, <1>3
<1>5. /\ \A x \in Node : predecessor'[x] \in member \/ predecessor'[x] = predecessor[x]
      /\ \A a \in Id : LET b == NextAfter(a, member)
                     IN  predecessor[b] = a /\ a # b => predecessor'[b] = a
  BY NotifyPredecessors
<1>6. ASSUME NEW a, NEW b, Edge(a, b)
      PROVE  Edge(a, b)'
  <2>1. /\ a \in member /\ b \in member /\ a # b /\ b = NextAfter(a, member)
        /\ successor[a] = b /\ predecessor[b] = a
    BY <1>6 DEF Edge
  <2>2. a \in Id /\ a \in Node /\ member \in SUBSET Id /\ member # {}
    BY <2>1, TransferAssumption
  <2>3. predecessor'[b] = a
    BY <1>5, <2>1, <2>2
  <2>4. ~RangeOpen(a, a, b)
    BY <2>1, <2>2, NothingBetween
  <2>5. successor'[a] = b
    BY <1>1, <1>4, <2>1, <2>2, <2>4
  <2> QED
    BY <1>2, <2>1, <2>3, <2>5 DEF Edge
<1> QED
  BY <1>1, <1>2, <1>3, <1>4, <1>5, <1>6

\* It holds at first.
LEMMA TransferStarts == TransferInit => TransferInv
BY DEF TransferInit, TransferInv, Orderly

\* The contents of a node's directories, when its entries are replaced.
LEMMA ShelvesKept ==
  ASSUME NEW keys, files \in Shelves(keys), NEW n \in Node, NEW g \in [Dir -> SUBSET keys]
  PROVE  [files EXCEPT ![n] = g] \in Shelves(keys)
BY DEF Shelves

\* Placement gives every node its directories.
LEMMA PlacementShelves ==
  ASSUME NEW M, NEW keys
  PROVE  Placement(M, keys) \in Shelves(keys)
BY DEF Placement, Shelves, Dir

\* The departure: the files of d are with its heir as well.
LEMMA DepartBereft ==
  ASSUME Orderly, NEW d \in Node, Depart(d),
         NEW keys \in SUBSET Key, files = Placement(member, keys)
  PROVE  change' = "departure" /\ d \in Node \ member' /\ Bereft(d, keys)'
<1> DEFINE M == member \ {d}
           heir == NextAfter(d, M)
<1>2. /\ d \in member /\ Cardinality(member) > 3 /\ change' = "departure" /\ member' = M
      /\ UNCHANGED <<predecessor, files, net>>
  BY DEF Depart
<1>3. M # {} /\ M \in SUBSET Id /\ d \in Id \ M /\ M \cup {d} = member
  <2>1. IsFiniteSet(member)
    <3> DEFINE R == 2^Bits
    <3>1. R \in Nat \ {0} /\ member \in SUBSET (0..R - 1)
      BY TransferAssumption, WidthAssumption DEF Orderly, Id
    <3> HIDE DEF R
    <3>2. IsFiniteSet(0..R - 1)
      BY <3>1, FS_Interval
    <3> QED
      BY <3>1, <3>2, FS_Subset
  <2>2. M # {}
    <3> SUFFICES ASSUME M = {} PROVE FALSE
      OBVIOUS
    <3>1. member = {d}
      BY <1>2
    <3>2. Cardinality(member) = 1
      BY <3>1, FS_Singleton
    <3> QED
      BY <1>2, <3>2
  <2> QED
    BY <1>2, <2>2, TransferAssumption DEF Orderly
<1>4. heir \in M /\ NextAfter(d, member) = heir /\ NextBefore(heir, member) = d
  <2> HIDE DEF M
  <2> QED
    BY <1>3, NeighboursExist, NextWithout, BackAgain
<1>5. predecessor \in [Node -> Node]
  <2>1. member \in SUBSET Id /\ member # {}
    BY <1>3
  <2>2. \A n \in Node : NextBefore(n, member) \in member
    BY <2>1, TransferAssumption, NeighboursExist
  <2> QED
    BY <2>2 DEF Orderly
<1>6. files \in Shelves(keys)
  BY PlacementShelves
<1>7. Stored(d, keys)'
  <2> SUFFICES ASSUME NEW k \in keys, NEW n \in M, Owner(k, M \cup {d}) = n
               PROVE  k \in files[n]["store"]
    BY <1>2 DEF Stored
  <2>1. Owner(k, member) = n /\ n \in Node
    BY <1>3 DEF Orderly
  <2> QED
    BY <2>1 DEF Placement
<1>8. Inherited(d, keys)'
  <2> SUFFICES ASSUME NEW k \in keys, Owner(k, M \cup {d}) = d
               PROVE  k \in files[heir][IF predecessor[heir] = d THEN "copy1" ELSE "store"]
    BY <1>2 DEF Inherited
  <2>1. Owner(k, member) = d /\ heir \in Node /\ NextAfter(d, member) = heir
    BY <1>3, <1>4 DEF Orderly
  <2>2. predecessor[heir] = d
    BY <1>4, <2>1 DEF Orderly
  <2>3. k \in files[heir]["copy1"]
    <3> HIDE DEF heir
    <3> QED
      BY <2>1 DEF Placement
  <2> QED
    BY <2>2, <2>3
<1>9. Carried(keys)'
  BY <1>2 DEF Carried, Orderly
<1> QED
  <2>1. d \in Node \ member' /\ member' \subseteq Node /\ member' # {}
    BY <1>2, <1>3 DEF Orderly
  <2>2. predecessor' \in [Node -> Node] /\ files' \in Shelves(keys)
    BY <1>2, <1>5, <1>6
  <2>3. Shelves(keys)' = Shelves(keys)
    BY DEF Shelves
  <2>4. Bereft(d, keys)'
    BY <2>1, <2>2, <2>3, <1>7, <1>8, <1>9 DEF Bereft
  <2> QED
    BY <1>2, <2>1, <2>4

\* So the departure keeps the invariant.
LEMMA DepartStep ==
  ASSUME Orderly, NEW d \in Node, Depart(d)
  PROVE  TransferInv'
<1>1. PICK keys \in SUBSET Key : files = Placement(member, keys)
  BY DEF Orderly
<1> QED
  BY <1>1, DepartBereft DEF TransferInv

\* In an orderly ring nobody is missed and nothing travels.
LEMMA OrderlyStep ==
  ASSUME change = "none", Orderly, TransferNext
  PROVE  TransferInv'
<1>1. ASSUME NEW n \in member
      PROVE  successor[n] \in member /\ predecessor[n] \in member /\ ~owes[n]
             /\ successor[n] = NextAfter(n, member)
  <2>1. member \in SUBSET Id /\ n \in Node /\ n \in Id /\ member # {}
    BY TransferAssumption DEF Orderly
  <2> QED
    BY <2>1, NeighboursExist DEF Orderly
<1>2. CASE \E n \in Node : Join(n)
  BY <1>2 DEF Join, TransferInv
<1>3. CASE \E n \in Node : Depart(n)
  BY <1>3, DepartStep
<1>4. CASE \E n \in Node : CheckPeer(n) \/ RemovePredecessor(n) \/ RemoveSuccessor(n)
  BY <1>1, <1>4 DEF CheckPeer, RemovePredecessor, RemoveSuccessor
<1>5. CASE \E n \in Node : Stabilize(n)
  <2>1. PICK n \in member : Stabilize(n)
    BY <1>5 DEF Stabilize
  <2>2. PICK s, target : s = successor[n] /\ target = predecessor[s]
    OBVIOUS
  <2>3. member \in SUBSET Id /\ n \in Node /\ n \in Id /\ member # {}
    BY <2>1, TransferAssumption DEF Orderly
  <2>4. s \in member /\ s \in Node /\ s = NextAfter(n, member)
    BY <1>1, <2>1, <2>2, <2>3 DEF Orderly
  <2>5. target = n
    <3>1. target = NextBefore(s, member)
      BY <2>2, <2>4 DEF Orderly
    <3> QED
      BY <2>1, <2>3, <2>4, <3>1, NextIsBack
  <2>6. ~RangeOpen(n, n, s)
    BY <2>1, <2>3, <2>4, NothingBetween
  <2>7. /\ successor' = [successor EXCEPT ![n] =
             IF s = n \/ RangeOpen(target, n, s) THEN target ELSE s]
        /\ predecessor' = [predecessor EXCEPT ![s] =
             IF target = s \/ RangeOpen(n, target, s) THEN n ELSE target]
        /\ UNCHANGED <<member, change, owes, files, net>>
    BY <2>1, <2>2 DEF Stabilize
  <2>8. /\ successor' = [successor EXCEPT ![n] = successor[n]]
        /\ predecessor' = [predecessor EXCEPT ![s] = predecessor[s]]
    BY <2>2, <2>5, <2>6, <2>7
  <2>9. successor' = successor /\ predecessor' = predecessor
    BY <2>8 DEF Orderly
  <2> QED
    BY <2>7, <2>9 DEF TransferInv, Orderly
<1> QED
  BY <1>2, <1>3, <1>4, <1>5 DEF TransferNext, Orderly

----------------------------------------------------------------------------
\* A step after the departure that leaves the ring alone, or only marks a
\* predecessor as missed that is not d: the heir's place is the same, so it is enough that
\* nothing leaves store/, and nothing leaves the copy1/ of the heir.
LEMMA StillBereft ==
  ASSUME NEW d, NEW keys, Bereft(d, keys), member' = member,
         predecessor' \in [Node -> Node], files' \in Shelves(keys), Carried(keys)',
         \A n \in member : files[n]["store"] \subseteq files'[n]["store"],
         \A n \in member : predecessor[n] = d /\ predecessor'[n] = d =>
                             files[n]["copy1"] \subseteq files'[n]["copy1"],
         \A n \in member : predecessor[n] = d /\ predecessor'[n] # d =>
                             files[n]["copy1"] \subseteq files'[n]["store"],
         \A n \in member : predecessor'[n] = d => predecessor[n] = d,
         NextAfter(d, member) \in member
  PROVE  Bereft(d, keys)'
<1>1. Stored(d, keys)'
  BY DEF Bereft, Stored
<1>2. Inherited(d, keys)'
  <2> DEFINE heir == NextAfter(d, member)
  <2> SUFFICES ASSUME NEW k \in keys, Owner(k, member \cup {d}) = d
               PROVE  k \in files'[heir][IF predecessor'[heir] = d THEN "copy1" ELSE "store"]
    BY DEF Inherited
  <2>1. k \in files[heir][IF predecessor[heir] = d THEN "copy1" ELSE "store"]
    BY DEF Bereft, Inherited
  <2> HIDE DEF heir
  <2>2. heir \in member
    BY DEF heir
  <2> QED
    BY <2>1, <2>2
<1>3. Shelves(keys)' = Shelves(keys)
  BY DEF Shelves
<1> QED
  BY <1>1, <1>2, <1>3 DEF Bereft

\* Copies of a directory are copies of files.
LEMMA CopiesCarried ==
  ASSUME NEW keys, NEW K \in SUBSET keys, NEW dir \in Dir, NEW target,
         NEW m \in CopyRemote(K, dir, target)
  PROVE  m.type = "FILE" /\ m.arg.key \in keys /\ m.arg.dir \in Dir
BY DEF CopyRemote, CopyToRemote, Message

\* Every step after the departure.
LEMMA BereftStep ==
  ASSUME change = "departure", NEW d \in Node \ member, NEW keys \in SUBSET Key,
         Bereft(d, keys), TransferNext
  PROVE  change' = "departure" /\ member' = member /\ Bereft(d, keys)'
<1>0. /\ member \subseteq Node /\ NextAfter(d, member) \in member
      /\ predecessor \in [Node -> Node] /\ files \in Shelves(keys)
  BY TransferAssumption, NeighboursExist DEF Bereft
<1>a. \A n \in Node : files[n] \in [Dir -> SUBSET keys]
  BY <1>0 DEF Shelves
<1>b. "store" \in Dir /\ "copy1" \in Dir /\ "copy2" \in Dir /\ "temp" \in Dir
  BY DEF Dir
<1>1. CASE \E n \in Node : Join(n) \/ Depart(n)
  BY <1>1 DEF Join, Depart
<1>2. ASSUME NEW n \in Node, CheckPeer(n)
      PROVE  change' = "departure" /\ member' = member /\ Bereft(d, keys)'
  <2>1. Carried(keys)'
    <3> SUFFICES ASSUME NEW m \in net'
                 PROVE  \/ m.type = "FILE" /\ m.arg.key \in keys /\ m.arg.dir \in Dir
                        \/ m.type = "LEAVESUCC"
      BY DEF Carried
    <3>1. CASE m \in net
      BY <3>1 DEF Bereft, Carried
    <3>2. CASE m \in CopyRemote(files[n]["copy1"], "copy2", successor[n])
      <4>1. files[n]["copy1"] \in SUBSET keys
        BY <1>a, <1>b
      <4> QED
        BY <3>2, <4>1, <1>b, CopiesCarried
    <3> QED
      BY <1>2, <3>1, <3>2 DEF CheckPeer
  <2>2. member' = member /\ predecessor' = predecessor /\ files' = files /\ change' = "departure"
    BY <1>2 DEF CheckPeer, ringVars
  <2> QED
    BY <1>0, <2>1, <2>2, StillBereft
<1>3. ASSUME NEW n \in Node, RemovePredecessor(n)
      PROVE  change' = "departure" /\ member' = member /\ Bereft(d, keys)'
  <2> DEFINE f == files[n]
             g == [f EXCEPT !["store"] = f["store"] \cup f["copy1"],
                            !["copy1"] = f["copy2"], !["copy2"] = {}]
  <2>1. /\ n \in member /\ predecessor[n] \notin member /\ member' = member
        /\ files' = [files EXCEPT ![n] = g] /\ predecessor' = [predecessor EXCEPT ![n] = n]
        /\ net' = net \cup CopyRemote(f["copy2"], "temp", successor[n])
                      \cup {Message("LEAVESUCC", successor[n], 0)}
        /\ change' = "departure"
    BY <1>3 DEF RemovePredecessor
  <2>2. /\ g \in [Dir -> SUBSET keys]
        /\ g["store"] = f["store"] \cup f["copy1"]
    BY <1>a, <1>b
  <2>3. Carried(keys)'
    <3> SUFFICES ASSUME NEW m \in net'
                 PROVE  \/ m.type = "FILE" /\ m.arg.key \in keys /\ m.arg.dir \in Dir
                        \/ m.type = "LEAVESUCC"
      BY DEF Carried
    <3>1. CASE m \in net
      BY <3>1 DEF Bereft, Carried
    <3>2. CASE m \in CopyRemote(f["copy2"], "temp", successor[n])
      <4>1. f["copy2"] \in SUBSET keys
        BY <1>a, <1>b
      <4> QED
        BY <3>2, <4>1, <1>b, CopiesCarried
    <3>3. CASE m = Message("LEAVESUCC", successor[n], 0)
      BY <3>3 DEF Message
    <3> QED
      BY <2>1, <3>1, <3>2, <3>3
  <2> HIDE DEF g
  <2>4. files' \in Shelves(keys)
    BY <1>0, <2>1, <2>2, ShelvesKept
  <2>5. \A o \in Node : files'[o] = IF o = n THEN g ELSE files[o]
    BY <1>0, <2>1 DEF Shelves
  <2>6. /\ predecessor' \in [Node -> Node]
        /\ \A o \in Node : predecessor'[o] = IF o = n THEN n ELSE predecessor[o]
    BY <1>0, <2>1
  <2>7. ASSUME NEW o \in member
        PROVE  /\ files[o]["store"] \subseteq files'[o]["store"]
               /\ predecessor'[o] = d => o # n
               /\ o # n => predecessor'[o] = predecessor[o] /\ files'[o] = files[o]
               /\ files[n]["copy1"] \subseteq files'[n]["store"]
    BY <1>0, <2>1, <2>2, <2>5, <2>6
  <2> QED
    BY <1>0, <2>1, <2>3, <2>4, <2>6, <2>7, StillBereft
<1>4. ASSUME NEW n \in Node, RemoveSuccessor(n)
      PROVE  change' = "departure" /\ member' = member /\ Bereft(d, keys)'
  <2>1. /\ member' = member /\ predecessor' = predecessor /\ files' = files /\ net' = net
        /\ change' = "departure"
    BY <1>4 DEF RemoveSuccessor
  <2>2. Carried(keys)'
    BY <2>1 DEF Bereft, Carried
  <2> QED
    BY <1>0, <2>1, <2>2, StillBereft
<1>9. ASSUME NEW n \in Node, Stabilize(n)
      PROVE  change' = "departure" /\ member' = member /\ Bereft(d, keys)'
  <2>1. member' = member /\ files' = files /\ net' = net /\ change' = "departure"
    BY <1>9 DEF Stabilize
  <2>2. Carried(keys)'
    BY <2>1 DEF Bereft, Carried
  <2>3. Stored(d, keys)'
    BY <2>1 DEF Bereft, Stored
  <2>4. PICK heir : heir = NextAfter(d, member)
    OBVIOUS
  <2>5. /\ predecessor' \in [Node -> Node]
        /\ predecessor'[heir] \in member \/ predecessor'[heir] = predecessor[heir]
        /\ predecessor[heir] = d => predecessor'[heir] = d
    <3>1. heir \in member /\ heir \in Node /\ d \in Id /\ d # heir
      BY <1>0, <2>4, TransferAssumption
    <3> QED
      BY <1>0, <1>9, <2>4, <3>1, NotifyPredecessors
  <2>6. predecessor'[heir] = d <=> predecessor[heir] = d
    BY <2>5
  <2>7. Inherited(d, keys)'
    <3>1. \A k \in keys : Owner(k, member \cup {d}) = d =>
            k \in files[heir][IF predecessor[heir] = d THEN "copy1" ELSE "store"]
      BY <2>4 DEF Bereft, Inherited
    <3>2. \A k \in keys : Owner(k, member \cup {d}) = d =>
            k \in files'[heir][IF predecessor'[heir] = d THEN "copy1" ELSE "store"]
      BY <2>1, <2>6, <3>1
    <3> QED
      BY <2>1, <2>4, <3>2 DEF Inherited
  <2>8. Shelves(keys)' = Shelves(keys)
    BY DEF Shelves
  <2> QED
    BY <1>0, <2>1, <2>2, <2>3, <2>5, <2>7, <2>8 DEF Bereft
<1>5. ASSUME NEW m \in net, Lose(m)
      PROVE  change' = "departure" /\ member' = member /\ Bereft(d, keys)'
  <2>1. /\ member' = member /\ predecessor' = predecessor /\ files' = files
        /\ net' = net \ {m} /\ change' = "departure"
    BY <1>5 DEF Lose, ringVars
  <2>2. Carried(keys)'
    BY <2>1 DEF Bereft, Carried
  <2> QED
    BY <1>0, <2>1, <2>2, StillBereft
<1>6. ASSUME NEW m \in net, m.to \in member, HandleFile(m)
      PROVE  change' = "departure" /\ member' = member /\ Bereft(d, keys)'
  <2> DEFINE n == m.to
             dir == m.arg.dir
             g == [files[n] EXCEPT ![dir] = files[n][dir] \cup {m.arg.key}]
  <2>1. /\ n \in Node /\ dir \in Dir /\ m.arg.key \in keys
    BY <1>0, <1>6 DEF HandleFile, Bereft, Carried
  <2>2. /\ member' = member /\ predecessor' = predecessor /\ change' = "departure"
        /\ net' = net \ {m} /\ files' = [files EXCEPT ![n] = g]
    <3>1. files' = [files EXCEPT ![m.to][m.arg.dir] = @ \cup {m.arg.key}]
      BY <1>6 DEF HandleFile
    <3> QED
      BY <1>6, <3>1 DEF HandleFile, ringVars
  <2>3. g \in [Dir -> SUBSET keys] /\ \A e \in Dir : files[n][e] \subseteq g[e]
    BY <1>a, <2>1
  <2>4. Carried(keys)'
    BY <2>2 DEF Bereft, Carried
  <2> HIDE DEF g, n
  <2>5. files' \in Shelves(keys)
    BY <1>0, <2>1, <2>2, <2>3, ShelvesKept
  <2>6. \A o \in Node : files'[o] = IF o = n THEN g ELSE files[o]
    BY <1>0, <2>2 DEF Shelves
  <2>7. ASSUME NEW o \in member
        PROVE  /\ files[o]["store"] \subseteq files'[o]["store"]
               /\ files[o]["copy1"] \subseteq files'[o]["copy1"]
    BY <1>0, <1>b, <2>3, <2>6
  <2> QED
    BY <1>0, <2>2, <2>4, <2>5, <2>7, StillBereft
<1>7. ASSUME NEW m \in net, m.to \in member, HandleLeaveSucc(m)
      PROVE  change' = "departure" /\ member' = member /\ Bereft(d, keys)'
  <2> DEFINE n == m.to
             f == files[n]
             g == [f EXCEPT !["copy1"] = f["copy1"] \cup f["copy2"],
                            !["copy2"] = f["temp"], !["temp"] = {}]
  <2>1. n \in Node
    BY <1>0, <1>7
  <2>2. /\ member' = member /\ predecessor' = predecessor /\ change' = "departure"
        /\ net' = (net \ {m}) \cup CopyRemote(f["copy2"], "copy2", successor[n])
        /\ files' = [files EXCEPT ![n] = g]
    BY <1>7 DEF HandleLeaveSucc, ringVars
  <2>3. /\ g \in [Dir -> SUBSET keys] /\ g["store"] = f["store"]
        /\ f["copy1"] \subseteq g["copy1"]
    BY <1>a, <1>b, <2>1
  <2>4. Carried(keys)'
    <3> SUFFICES ASSUME NEW o \in net'
                 PROVE  \/ o.type = "FILE" /\ o.arg.key \in keys /\ o.arg.dir \in Dir
                        \/ o.type = "LEAVESUCC"
      BY DEF Carried
    <3>1. CASE o \in net
      BY <3>1 DEF Bereft, Carried
    <3>2. CASE o \in CopyRemote(f["copy2"], "copy2", successor[n])
      <4>1. f["copy2"] \in SUBSET keys
        BY <1>a, <1>b, <2>1
      <4> QED
        BY <3>2, <4>1, <1>b, CopiesCarried
    <3> QED
      BY <2>2, <3>1, <3>2
  <2> HIDE DEF g
  <2>5. files' \in Shelves(keys)
    BY <1>0, <2>1, <2>2, <2>3, ShelvesKept
  <2>6. \A o \in Node : files'[o] = IF o = n THEN g ELSE files[o]
    BY <1>0, <2>2 DEF Shelves
  <2> QED
    BY <1>0, <2>2, <2>3, <2>4, <2>5, <2>6, StillBereft
<1>8. ASSUME NEW m \in net, HandleSuccOne(m) \/ HandleSuccTwo(m) \/ HandleSuccThree(m)
      PROVE  FALSE
  BY <1>8 DEF HandleSuccOne, HandleSuccTwo, HandleSuccThree, Bereft, Carried
<1> QED
  BY <1>1, <1>2, <1>3, <1>4, <1>5, <1>6, <1>7, <1>8, <1>9 DEF TransferNext, Handle

\* Each step keeps it.
LEMMA TransferStep == TransferInv /\ [TransferNext]_transferVars => TransferInv'
<1> SUFFICES ASSUME TransferInv, [TransferNext]_transferVars PROVE TransferInv'
  OBVIOUS
<1>1. CASE UNCHANGED transferVars
  <2>1. Orderly => Orderly'
    BY <1>1 DEF transferVars, ringVars, Orderly
  <2>2. ASSUME NEW d, NEW keys, Bereft(d, keys)
        PROVE  Bereft(d, keys)'
    <3>1. Stored(d, keys)' /\ Inherited(d, keys)' /\ Carried(keys)'
      BY <1>1, <2>2 DEF transferVars, ringVars, Bereft, Stored, Inherited, Carried
    <3> QED
      BY <1>1, <2>2, <3>1 DEF transferVars, ringVars, Bereft, Shelves
  <2> QED
    BY <1>1, <2>1, <2>2 DEF transferVars, ringVars, TransferInv
<1>2. CASE TransferNext /\ change = "none"
  BY <1>2, OrderlyStep DEF TransferInv
<1>3. CASE TransferNext /\ change = "departure"
  <2>1. PICK d \in Node \ member, keys \in SUBSET Key : Bereft(d, keys)
    BY <1>3 DEF TransferInv
  <2> QED
    BY <1>3, <2>1, BereftStep DEF TransferInv
<1>4. CASE TransferNext /\ change = "join"
  <2>1. change' = "join"
    BY <1>4 DEF TransferNext, Join, Depart, CheckPeer, RemovePredecessor, RemoveSuccessor,
                Stabilize, Handle, Lose, HandleSuccOne, HandleSuccTwo,
                HandleSuccThree, HandleFile, HandleLeaveSucc, ringVars
  <2> QED
    BY <2>1 DEF TransferInv
<1> QED
  BY <1>1, <1>2, <1>3, <1>4 DEF TransferInv

\* The heir has what d owned, the others have what they owned, and nobody else owns
\* anything (OwnerWithout).
LEMMA TransferInvAnswers == TransferInv => OwnersAnswer
<1> SUFFICES ASSUME TransferInv, change = "departure",
                    \A n \in member : predecessor[n] \in member,
                    NEW o \in member, NEW k \in Everywhere(o)
             PROVE  k \in files[Owner(k, member)]["store"]
  BY DEF OwnersAnswer
<1>1. PICK d \in Node \ member, keys \in SUBSET Key : Bereft(d, keys)
  BY DEF TransferInv
<1> DEFINE heir == NextAfter(d, member)
<1>2. member \in SUBSET Id /\ member # {} /\ d \in Id \ member
  BY <1>1, TransferAssumption DEF Bereft
<1>3. k \in keys /\ k \in Id
  <2>1. o \in Node /\ files[o] \in [Dir -> SUBSET keys]
    BY <1>1 DEF Bereft, Shelves
  <2> QED
    BY <2>1, TransferAssumption DEF Everywhere
<1>4. heir \in member /\ predecessor[heir] # d
  BY <1>2, NeighboursExist
<1>5. Owner(k, member) = IF Owner(k, member \cup {d}) = d THEN heir
                         ELSE Owner(k, member \cup {d})
  BY <1>2, <1>3, OwnerWithout
<1>6. CASE Owner(k, member \cup {d}) = d
  BY <1>1, <1>3, <1>4, <1>5, <1>6 DEF Bereft, Inherited
<1>7. CASE Owner(k, member \cup {d}) # d
  <2>1. Owner(k, member) \in member
    BY <1>2, <1>3, NeighboursExist DEF Owner
  <2> QED
    BY <1>1, <1>3, <1>5, <1>7, <2>1 DEF Bereft, Stored
<1> QED
  BY <1>6, <1>7

\* removePeer: once the member after a lost one has missed it, it answers for the
\* files of the lost one, although every message may be lost.
THEOREM HeirAnswers == TransferSpec => []OwnersAnswer
<1> QED
  BY TransferStarts, TransferStep, TransferInvAnswers, PTL DEF TransferSpec
----------------------------------------------------------------------------
(***************************************************************************)
(* Every file stays on two disks, in a ring of three members or more.      *)
(***************************************************************************)

\* At least three.
Many(M) == \E a, b, c \in M : a # b /\ b # c /\ a # c

\* Each of these files is on the disks of two members.
Doubled(keys) ==
  \A k \in keys : \E x, y \in member :
    x # y /\ k \in Everywhere(x) /\ k \in Everywhere(y)

\* What store/ and copy1/ of x hold in an orderly ring of the nodes M: each file is
\* among these at two members.
Mains(M, keys, x) == Placement(M, keys)[x]["store"] \cup Placement(M, keys)[x]["copy1"]

\* x has them all.
InPlace(M, keys, x) == Mains(M, keys, x) \subseteq files[x]["store"] \cup files[x]["copy1"]

\* The messages that shift whole directories.
Shifts == {m \in net : m.type # "FILE"}

\* One shift is under way at most: first at the successor s of the newcomer, then at
\* the next member t, then at one after them. A shift may delete second copies,
\* so it matters that it meets directories that no shift has been at before.
ShiftsLeft(M, keys, s, t) ==
  /\ \A m, o \in Shifts : m = o
  /\ \A m \in Shifts :
       \/ m.type = "SUCCONE" /\ m.to = s /\ InPlace(M, keys, s) /\ InPlace(M, keys, t)
       \/ m.type = "SUCCTWO" /\ m.to = t /\ InPlace(M, keys, t)
       \/ m.type = "SUCCTHREE" /\ m.to \notin {s, t}

\* What the shifts need of the ring: all are there, nobody owes anything, and the three
\* that are told one after another know each other.
Ring(s, t, u) ==
  /\ member \subseteq Node /\ successor \in [Node -> Node] /\ predecessor \in [Node -> Node]
  /\ \A x \in member : successor[x] \in member /\ predecessor[x] \in member /\ ~owes[x]
  /\ Edge(s, t) /\ Edge(t, u)

\* n has joined the ring M; what files may be where by now.
Shifting(n, M, keys) ==
  LET s == NextAfter(n, M)
      t == NextAfter(s, M)
  IN  /\ member = M \cup {n}
      /\ Ring(s, t, NextAfter(t, M))
      /\ files \in Shelves(keys)
      /\ \A x \in M : Mains(M, keys, x) \subseteq Everywhere(x)
      /\ \A x \in M \ {s, t} : InPlace(M, keys, x)
      /\ \A m \in net : m.type = "FILE" => m.arg.key \in keys /\ m.arg.dir \in Dir
      /\ ShiftsLeft(M, keys, s, t)

\* What FilesStayTwice rests on: the ring at first, while n joins it, or without d.
DiskInv ==
  \/ change = "none" /\ Orderly /\ Many(member)
  \/ /\ change = "join"
     /\ \E n \in Node, M \in SUBSET Node, keys \in SUBSET Key :
          n \notin M /\ Many(M) /\ Shifting(n, M, keys)
  \/ /\ change = "departure"
     /\ \E d \in Node \ member, keys \in SUBSET Key : Bereft(d, keys) /\ Doubled(keys)

----------------------------------------------------------------------------
\* Nodes are finitely many.
LEMMA NodesFinite == IsFiniteSet(Node)
<1> DEFINE R == 2^Bits
<1>1. R \in Nat \ {0} /\ Node \in SUBSET (0 .. R - 1)
  BY TransferAssumption, WidthAssumption DEF Id
<1> HIDE DEF R
<1>2. IsFiniteSet(0 .. R - 1)
  BY <1>1, FS_Interval
<1> QED
  BY <1>1, <1>2, FS_Subset

\* Three or more, as a number.
LEMMA ManyAreThree ==
  ASSUME NEW S, IsFiniteSet(S), Cardinality(S) >= 3
  PROVE  Many(S)
<1>1. \A T : IsFiniteSet(T) => (Cardinality(T) = 0 <=> T = {}) /\ Cardinality(T) \in Nat
  BY FS_EmptySet, FS_CardinalityType
<1>2. \A T, x : IsFiniteSet(T) /\ x \in T =>
        IsFiniteSet(T \ {x}) /\ Cardinality(T \ {x}) = Cardinality(T) - 1
  BY FS_RemoveElement
<1>3. PICK a : a \in S
  BY <1>1
<1>4. IsFiniteSet(S \ {a}) /\ Cardinality(S \ {a}) >= 2
  BY <1>1, <1>2, <1>3
<1>5. PICK b : b \in S \ {a}
  BY <1>1, <1>4
<1>6. IsFiniteSet((S \ {a}) \ {b}) /\ Cardinality((S \ {a}) \ {b}) >= 1
  BY <1>1, <1>2, <1>4, <1>5
<1>7. PICK c : c \in (S \ {a}) \ {b}
  BY <1>1, <1>6
<1> QED
  BY <1>3, <1>5, <1>7 DEF Many

\* The members after one are two others.
LEMMA TwoOthers ==
  ASSUME NEW M \in SUBSET Id, Many(M), NEW x \in M
  PROVE  LET t == NextAfter(x, M)
             u == NextAfter(t, M)
         IN  t \in M /\ u \in M /\ t # x /\ u # t /\ u # x
<1> DEFINE t == NextAfter(x, M)
           u == NextAfter(t, M)
<1>1. t \in M /\ u \in M /\ x \in Id
  BY NeighboursExist
<1>2. t # x /\ u # t
  BY <1>1, AloneIsAll DEF Many
<1>3. ASSUME u = x
      PROVE  FALSE
  <2>1. PICK c \in M : c # x /\ c # t
    BY DEF Many
  <2>2. Dist(x, t) <= Dist(x, c) /\ Dist(t, x) <= Dist(t, c)
    BY <1>1, <1>3, NeighboursExist
  <2> DEFINE R == 2^Bits
  <2>3. R \in Nat \ {0} /\ x \in 0 .. R - 1 /\ t \in 0 .. R - 1 /\ c \in 0 .. R - 1
    <3>1. R \in Nat \ {0}
      BY WidthAssumption
    <3>2. x \in Id /\ t \in Id /\ c \in Id
      BY <1>1, <2>1
    <3> QED
      BY <3>1, <3>2 DEF Id
  <2> HIDE DEF R, t, u
  <2>4. Dist(x, t) = (IF x < t THEN t - x ELSE R - (x - t))
        /\ Dist(x, c) = (IF x < c THEN c - x ELSE R - (x - c))
        /\ Dist(t, x) = (IF t < x THEN x - t ELSE R - (t - x))
        /\ Dist(t, c) = (IF t < c THEN c - t ELSE R - (t - c))
    BY DEF Dist, R
  <2> QED
    BY <1>2, <2>1, <2>2, <2>3, <2>4
<1> QED
  BY <1>1, <1>2, <1>3

\* In an orderly ring each file is in the store of one member, in the first copies of
\* another, and in the second copies of a third one.
LEMMA ThreePlaces ==
  ASSUME NEW M \in SUBSET Node, Many(M), NEW keys \in SUBSET Key, NEW k \in keys
  PROVE  LET p == Placement(M, keys)
         IN  \E x, y, z \in M : /\ x # y /\ y # z /\ x # z
                                /\ k \in p[x]["store"] /\ k \in p[y]["copy1"]
                                /\ k \in p[z]["copy2"]
<1> DEFINE x == Owner(k, M)
           y == NextAfter(x, M)
           z == NextAfter(y, M)
<1>1. M \in SUBSET Id /\ k \in Id /\ M # {}
  BY TransferAssumption DEF Many
<1>2. x \in M
  BY <1>1, NeighboursExist DEF Owner
<1>3. y \in M /\ z \in M /\ x # y /\ y # z /\ x # z
  BY <1>1, <1>2, TwoOthers
<1>4. /\ k \in Placement(M, keys)[x]["store"] /\ k \in Placement(M, keys)[y]["copy1"]
      /\ k \in Placement(M, keys)[z]["copy2"]
  BY <1>2, <1>3 DEF Placement
<1> HIDE DEF x, y, z
<1> QED
  BY <1>2, <1>3, <1>4

\* What is in a directory is on the disk.
LEMMA OnDisk ==
  ASSUME NEW n, NEW d \in Dir
  PROVE  files[n][d] \subseteq Everywhere(n)
BY DEF Everywhere

\* Two members that have a file make it two or more.
LEMMA DoubledIsTwice ==
  ASSUME NEW keys, Doubled(keys), files \in Shelves(keys), member \subseteq Node
  PROVE  TwiceOnDisk
<1> SUFFICES ASSUME NEW n \in Node, NEW k \in Everywhere(n)
             PROVE  Cardinality({o \in member : k \in Everywhere(o)}) >= 2
  BY DEF TwiceOnDisk
<1> DEFINE S == {o \in member : k \in Everywhere(o)}
<1>1. k \in keys
  BY DEF Everywhere, Shelves
<1>2. PICK x, y \in member : x # y /\ k \in Everywhere(x) /\ k \in Everywhere(y)
  BY <1>1 DEF Doubled
<1>3. {x} \cup {y} \subseteq S
  BY <1>2
<1>4. IsFiniteSet(S)
  BY NodesFinite, FS_Subset
<1>5. Cardinality({x} \cup {y}) = 2
  <2>1. IsFiniteSet({x}) /\ Cardinality({x}) = 1 /\ y \notin {x}
    BY <1>2, FS_Singleton
  <2>2. Cardinality({x} \cup {y}) = Cardinality({x}) + 1
    BY <2>1, FS_AddElement
  <2> QED
    BY <2>1, <2>2
<1>6. Cardinality({x} \cup {y}) <= Cardinality(S) /\ Cardinality(S) \in Nat
  BY <1>3, <1>4, FS_Subset, FS_CardinalityType
<1> QED
  BY <1>5, <1>6

\* So much for what the invariant means.
LEMMA DiskInvTwice == DiskInv => TwiceOnDisk
<1>1. ASSUME change = "none", Orderly, Many(member)
      PROVE  TwiceOnDisk
  <2>1. PICK keys \in SUBSET Key : files = Placement(member, keys)
    BY <1>1 DEF Orderly
  <2>2. member \in SUBSET Node
    BY <1>1 DEF Orderly
  <2>3. Doubled(keys)
    BY <1>1, <2>1, <2>2, ThreePlaces, OnDisk DEF Doubled, Dir
  <2> QED
    BY <2>1, <2>2, <2>3, PlacementShelves, DoubledIsTwice
<1>2. ASSUME NEW n \in Node, NEW M \in SUBSET Node, NEW keys \in SUBSET Key,
             Many(M), Shifting(n, M, keys)
      PROVE  TwiceOnDisk
  <2>1. \A x \in M : /\ Placement(M, keys)[x]["store"] \subseteq Everywhere(x)
                     /\ Placement(M, keys)[x]["copy1"] \subseteq Everywhere(x)
    BY <1>2 DEF Shifting, Mains
  <2>2. Doubled(keys)
    BY <1>2, <2>1, ThreePlaces DEF Doubled, Shifting
  <2> QED
    BY <1>2, <2>2, DoubledIsTwice DEF Shifting
<1>3. ASSUME NEW d, NEW keys, Bereft(d, keys), Doubled(keys)
      PROVE  TwiceOnDisk
  BY <1>3, DoubledIsTwice DEF Bereft
<1> QED
  BY <1>1, <1>2, <1>3 DEF DiskInv

----------------------------------------------------------------------------
\* At the start.
LEMMA DiskStarts ==
  ASSUME Cardinality(Node) >= 4
  PROVE  TransferInit => DiskInv
<1> SUFFICES ASSUME TransferInit PROVE DiskInv
  OBVIOUS
<1>1. change = "none" /\ Orderly
  BY DEF TransferInit, Orderly
<1>2. PICK n : member = Node \/ member = Node \ {n}
  BY DEF TransferInit
<1>3. IsFiniteSet(Node) /\ Cardinality(Node) \in Nat
  BY NodesFinite, FS_CardinalityType
<1>4. IsFiniteSet(member) /\ Cardinality(member) >= 3
  BY <1>2, <1>3, FS_RemoveElement
<1> QED
  BY <1>1, <1>4, ManyAreThree DEF DiskInv

\* A departure takes one of the three places of a file.
LEMMA DepartDoubled ==
  ASSUME change = "none", Orderly, Many(member), NEW d \in Node, Depart(d)
  PROVE  DiskInv'
<1>1. /\ d \in member /\ change' = "departure" /\ member' = member \ {d} /\ files' = files
      /\ member \in SUBSET Node
  BY DEF Depart, Orderly
<1>2. PICK keys \in SUBSET Key : files = Placement(member, keys)
  BY DEF Orderly
<1>3. d \in Node \ member' /\ Bereft(d, keys)'
  BY <1>2, DepartBereft
<1>4. Doubled(keys)'
  <2> SUFFICES ASSUME NEW k \in keys
               PROVE  \E x, y \in member' : x # y /\ k \in Everywhere(x)' /\ k \in Everywhere(y)'
    BY DEF Doubled
  <2>1. PICK x, y, z \in member :
          /\ x # y /\ y # z /\ x # z
          /\ k \in files[x]["store"] /\ k \in files[y]["copy1"] /\ k \in files[z]["copy2"]
    BY <1>1, <1>2, ThreePlaces
  <2>2. k \in Everywhere(x) /\ k \in Everywhere(y) /\ k \in Everywhere(z)
    BY <2>1, OnDisk DEF Dir
  <2>3. \A o : Everywhere(o)' = Everywhere(o)
    BY <1>1 DEF Everywhere
  <2>4. \/ x \in member' /\ y \in member'
        \/ x \in member' /\ z \in member'
        \/ y \in member' /\ z \in member'
    BY <1>1, <2>1
  <2> QED
    BY <2>1, <2>2, <2>3, <2>4
<1> QED
  BY <1>1, <1>3, <1>4 DEF DiskInv

\* As long as nobody's neighbours change, or by a NOTIFY only.
LEMMA RingStays ==
  ASSUME NEW s, NEW t, NEW u, Ring(s, t, u),
         UNCHANGED <<member, successor, predecessor, owes>>
  PROVE  Ring(s, t, u)'
BY DEF Ring, Edge

LEMMA RingNotified ==
  ASSUME NEW s, NEW t, NEW u, Ring(s, t, u), NEW n \in Node, Stabilize(n)
  PROVE  /\ Ring(s, t, u)'
         /\ UNCHANGED <<member, owes, files, net, change, lost>>
<1>1. /\ member \subseteq Node /\ successor \in [Node -> Node] /\ predecessor \in [Node -> Node]
      /\ \A x \in member : successor[x] \in member /\ predecessor[x] \in member
  BY DEF Ring
<1>2. UNCHANGED <<member, owes, files, net, change, lost>>
  BY DEF Stabilize
<1>3. /\ successor' \in [Node -> Node] /\ predecessor' \in [Node -> Node]
      /\ Edge(s, t) => Edge(s, t)'
      /\ Edge(t, u) => Edge(t, u)'
      /\ \A x \in member : successor'[x] \in member /\ predecessor'[x] \in member
  BY <1>1, NotifyPredecessors, NotifyNeighbours
<1> QED
  BY <1>1, <1>2, <1>3 DEF Ring

\* Nobody but the messages and stabilize does anything after a join.
LEMMA OnlyMessages ==
  ASSUME NEW s, NEW t, NEW u, Ring(s, t, u), change = "join", NEW x \in Node
  PROVE  /\ ~Join(x) /\ ~Depart(x) /\ ~CheckPeer(x) /\ ~RemovePredecessor(x)
         /\ ~RemoveSuccessor(x)
BY DEF Ring, Join, Depart, CheckPeer, RemovePredecessor, RemoveSuccessor

\* The ring after the join: the three members after the newcomer are as they were.
LEMMA JoinRing ==
  ASSUME Orderly, Many(member), NEW n \in Node, Join(n), NEW M, M = member,
         NEW s, NEW t, NEW u, s = NextAfter(n, M), t = NextAfter(s, M), u = NextAfter(t, M)
  PROVE  Ring(s, t, u)'
<1>1. /\ M \in SUBSET Node /\ M \in SUBSET Id /\ M # {} /\ n \in Id \ M
  BY TransferAssumption DEF Join, Many, Orderly
<1>2. s \in M /\ t \in M /\ u \in M /\ s # t /\ t # u
  BY <1>1, NeighboursExist, TwoOthers
<1>3. /\ successor = [x \in Node |-> NextAfter(x, M)]
      /\ predecessor = [x \in Node |-> NextBefore(x, M)]
      /\ owes = [x \in Node |-> FALSE]
  BY DEF Orderly
<1>4. \A x \in Node : NextAfter(x, M) \in M /\ NextBefore(x, M) \in M
  BY <1>1, TransferAssumption, NeighboursExist
<1>5. /\ member' = M \cup {n} /\ owes' = owes
      /\ successor' = [successor EXCEPT ![n] = s]
      /\ predecessor' = [predecessor EXCEPT ![n] = n]
  BY DEF Join
<1>6. /\ successor' \in [Node -> Node] /\ predecessor' \in [Node -> Node]
      /\ \A x \in M : successor'[x] = NextAfter(x, M) /\ predecessor'[x] = NextBefore(x, M)
      /\ successor'[n] = s /\ predecessor'[n] = n
      /\ \A x \in Node : ~owes'[x]
  BY <1>1, <1>2, <1>3, <1>4, <1>5
<1>7. ASSUME NEW a \in M, NEW b \in M, b = NextAfter(a, M), b # s, a # b
      PROVE  Edge(a, b)'
  <2>1. NextBefore(b, M) = a
    BY <1>1, <1>7, NextIsBack
  <2>2. NextBefore(b, M \cup {n}) = a
    BY <1>1, <1>7, <2>1, GapCloses
  <2>3. M \cup {n} \in SUBSET Id /\ a \in M \cup {n} /\ b \in M \cup {n}
    BY <1>1
  <2>4. NextAfter(a, M \cup {n}) = b
    BY <2>2, <2>3, NextIsBack
  <2> QED
    BY <1>5, <1>6, <1>7, <2>1, <2>3, <2>4 DEF Edge
<1>8. Edge(s, t)' /\ Edge(t, u)'
  <2>1. u # s
    BY <1>1, <1>2, TwoOthers
  <2> QED
    BY <1>2, <1>7, <2>1
<1>9. \A x \in M \cup {n} : successor'[x] \in M \cup {n} /\ predecessor'[x] \in M \cup {n}
  BY <1>1, <1>2, <1>4, <1>6
<1> QED
  BY <1>1, <1>5, <1>6, <1>8, <1>9 DEF Ring

\* The newcomer asks its successor for the first shift.
LEMMA JoinShifts ==
  ASSUME change = "none", Orderly, Many(member), NEW n \in Node, Join(n)
  PROVE  DiskInv'
<1>0. PICK M \in SUBSET Node : M = member
  BY DEF Orderly
<1> DEFINE s == NextAfter(n, M)
           t == NextAfter(s, M)
           q == UpdateForNewNodeAddition(n, s)
<1>1. PICK keys \in SUBSET Key : files = Placement(M, keys)
  BY <1>0 DEF Orderly
<1>2. M \in SUBSET Node /\ M \in SUBSET Id /\ M # {} /\ n \notin M /\ n \in Id
  BY <1>0, TransferAssumption DEF Join, Many
<1>3. /\ change' = "join" /\ member' = M \cup {n} /\ files' = files
      /\ net' = net \cup {q}
  BY <1>0 DEF Join
<1>4. s \in M /\ t \in M
  BY <1>2, NeighboursExist
<1>5. Ring(s, t, NextAfter(t, M))'
  BY <1>0, JoinRing
<1>7. files' \in Shelves(keys)
  BY <1>1, <1>3, PlacementShelves
<1>8. \A x \in M : Mains(M, keys, x) \subseteq Everywhere(x)' /\ InPlace(M, keys, x)'
  BY <1>1, <1>2, <1>3 DEF Mains, InPlace, Everywhere, Dir
<1>9. \A m \in net' : m.type = "SUCCONE" /\ m.to = s /\ m = q
  BY <1>3 DEF Orderly, UpdateForNewNodeAddition, Message
<1> HIDE DEF s, t, q
<1>10. ShiftsLeft(M, keys, s, t)'
  BY <1>4, <1>8, <1>9 DEF ShiftsLeft, Shifts
<1>11. Shifting(n, M, keys)'
  <2>1. \A m \in net' : m.type # "FILE"
    BY <1>9
  <2>2. Shelves(keys)' = Shelves(keys)
    BY DEF Shelves
  <2> QED
    BY <1>5, <1>7, <1>8, <1>10, <2>1, <1>3, <2>2 DEF Shifting, s, t
<1> QED
  BY <1>0, <1>2, <1>3, <1>11 DEF DiskInv

\* A step that leaves the ring alone.
LEMMA StillShifting ==
  ASSUME NEW n \in Node, NEW M \in SUBSET Node, NEW keys \in SUBSET Key, NEW s, NEW t,
         s = NextAfter(n, M), t = NextAfter(s, M), Shifting(n, M, keys),
         member' = member, Ring(s, t, NextAfter(t, M))',
         files' \in Shelves(keys),
         \A x \in M : Mains(M, keys, x) \subseteq Everywhere(x)',
         \A x \in M \ {s, t} : InPlace(M, keys, x)',
         \A m \in net' : m.type = "FILE" => m.arg.key \in keys /\ m.arg.dir \in Dir,
         ShiftsLeft(M, keys, s, t)'
  PROVE  Shifting(n, M, keys)'
<1>1. Shelves(keys)' = Shelves(keys)
  BY DEF Shelves
<1> QED
  BY <1>1 DEF Shifting

\* A step that takes a message away, or a file that arrives: the disks only fill up.
LEMMA DisksFill ==
  ASSUME NEW n \in Node, NEW M \in SUBSET Node, NEW keys \in SUBSET Key,
         Many(M), Shifting(n, M, keys),
         UNCHANGED <<member, successor, predecessor, owes>>,
         files' \in Shelves(keys), net' \subseteq net,
         \A x \in Node, d \in Dir : files[x][d] \subseteq files'[x][d]
  PROVE  Shifting(n, M, keys)'
<1> DEFINE s == NextAfter(n, M)
           t == NextAfter(s, M)
<1>1. \A x \in Node : Everywhere(x) \subseteq Everywhere(x)'
  BY DEF Everywhere
<1>2. \A x \in Node : InPlace(M, keys, x) => InPlace(M, keys, x)'
  BY DEF InPlace, Dir
<1>3. /\ \A x \in M : Mains(M, keys, x) \subseteq Everywhere(x)
      /\ \A x \in M \ {s, t} : InPlace(M, keys, x)
      /\ \A m \in net : m.type = "FILE" => m.arg.key \in keys /\ m.arg.dir \in Dir
      /\ ShiftsLeft(M, keys, s, t)
  BY DEF Shifting
<1>4. \A x \in M : Mains(M, keys, x) \subseteq Everywhere(x)'
  BY <1>1, <1>3
<1>5. \A x \in M \ {s, t} : InPlace(M, keys, x)'
  BY <1>2, <1>3
<1>6. ShiftsLeft(M, keys, s, t)'
  <2>1. Shifts' \subseteq Shifts
    BY DEF Shifts
  <2>2. s \in Node /\ t \in Node
    <3>1. M \in SUBSET Id /\ M # {} /\ n \in Id
      BY TransferAssumption DEF Many
    <3> QED
      BY <3>1, NeighboursExist
  <2> HIDE DEF s, t
  <2> QED
    BY <1>2, <1>3, <2>1, <2>2 DEF ShiftsLeft
<1>7. Ring(s, t, NextAfter(t, M))'
  BY RingStays DEF Shifting
<1> QED
  BY <1>3, <1>4, <1>5, <1>6, <1>7, StillShifting

\* The first shift: the successor of the newcomer keeps its main files, what was in
\* store/ or copy1/ is now in one of three directories, and passes word on.
LEMMA FirstShift ==
  ASSUME NEW n \in Node, NEW M \in SUBSET Node, NEW keys \in SUBSET Key, n \notin M,
         Many(M), Shifting(n, M, keys), NEW m \in net, HandleSuccOne(m)
  PROVE  Shifting(n, M, keys)'
<1>0. PICK s, t : s = NextAfter(n, M) /\ t = NextAfter(s, M)
  OBVIOUS
<1> DEFINE f == files[m.to]
           mine == IF m.arg < m.to THEN FileListNew(f["store"], m.arg) ELSE {}
           g == [f EXCEPT !["store"] = f["store"] \ mine, !["copy1"] = mine, !["copy2"] = f["copy1"]]
           word == Message("SUCCTWO", successor[m.to],
                           [node |-> m.arg, copy1 |-> f["copy1"] # {}, store |-> mine # {}])
<1>1. /\ s \in M /\ t \in M /\ t # s
  <2>1. M \in SUBSET Id /\ M # {} /\ n \in Id
    BY TransferAssumption DEF Many
  <2> QED
    BY <1>0, <2>1, NeighboursExist, TwoOthers
<1>2. /\ m.type = "SUCCONE" /\ files' = [files EXCEPT ![m.to] = g]
      /\ net' = (net \ {m}) \cup Handover(m, f, mine)
      /\ UNCHANGED <<member, successor, predecessor, owes>>
  BY DEF HandleSuccOne, ringVars
<1>3. /\ files \in Shelves(keys) /\ ShiftsLeft(M, keys, s, t) /\ successor[s] = t
      /\ \A x \in M : Mains(M, keys, x) \subseteq Everywhere(x)
      /\ \A x \in M \ {s, t} : InPlace(M, keys, x)
      /\ \A o \in net : o.type = "FILE" => o.arg.key \in keys /\ o.arg.dir \in Dir
  BY <1>0, <1>1 DEF Shifting, Ring, Edge
<1>4. /\ m.to = s /\ InPlace(M, keys, s) /\ InPlace(M, keys, t)
      /\ \A o \in net : o.type # "FILE" => o = m
  BY <1>2, <1>3 DEF ShiftsLeft, Shifts
<1>5. f \in [Dir -> SUBSET keys] /\ mine \subseteq f["store"]
      /\ "store" \in Dir /\ "copy1" \in Dir /\ "copy2" \in Dir
  BY <1>1, <1>3, <1>4 DEF Shelves, FileListNew, Dir
<1>6. /\ g \in [Dir -> SUBSET keys]
      /\ g["store"] = f["store"] \ mine /\ g["copy1"] = mine /\ g["copy2"] = f["copy1"]
  <2> HIDE DEF mine, f
  <2> QED
    BY <1>5
<1>7. \A o \in Handover(m, f, mine) :
        \/ o.type = "FILE" /\ o.arg.key \in keys /\ o.arg.dir \in Dir
        \/ o = word
  <2> HIDE DEF mine, f
  <2> QED
    BY <1>5 DEF Handover, CopyRemote, CopyFilesToRemote, CopyToRemote, Message
<1>8. word.type = "SUCCTWO" /\ word.to = t
  BY <1>3, <1>4 DEF Message
<1> HIDE DEF mine, g, word
<1>9. files' \in Shelves(keys) /\ \A x \in Node : files'[x] = IF x = s THEN g ELSE files[x]
  BY <1>1, <1>2, <1>3, <1>4, <1>6, ShelvesKept DEF Shelves
<1>10. \A x \in Node \ {s} : /\ Everywhere(x)' = Everywhere(x)
                             /\ InPlace(M, keys, x)' = InPlace(M, keys, x)
  BY <1>9 DEF Everywhere, InPlace
<1>11. Mains(M, keys, s) \subseteq Everywhere(s)'
  <2>1. Mains(M, keys, s) \subseteq f["store"] \cup f["copy1"]
    BY <1>4 DEF InPlace
  <2>2. g["store"] \cup g["copy1"] \cup g["copy2"] = f["store"] \cup f["copy1"]
    BY <1>5, <1>6
  <2>3. files'[s] = g /\ g["store"] \cup g["copy1"] \cup g["copy2"] \subseteq Everywhere(s)'
    BY <1>1, <1>5, <1>9 DEF Everywhere
  <2> QED
    BY <2>1, <2>2, <2>3
<1>12. \A x \in M : Mains(M, keys, x) \subseteq Everywhere(x)'
  BY <1>3, <1>10, <1>11
<1>13. \A x \in M \ {s, t} : InPlace(M, keys, x)'
  BY <1>3, <1>10
<1>14. \A o \in net' : /\ o.type = "FILE" => o.arg.key \in keys /\ o.arg.dir \in Dir
                       /\ o.type # "FILE" => o = word
  BY <1>2, <1>3, <1>4, <1>7, <1>8
<1>15. ShiftsLeft(M, keys, s, t)'
  <2>1. InPlace(M, keys, t)'
    BY <1>1, <1>4, <1>10
  <2> QED
    BY <1>8, <1>14, <2>1 DEF ShiftsLeft, Shifts
<1>16. Ring(s, t, NextAfter(t, M))'
  BY <1>0, <1>2, RingStays DEF Shifting
<1> QED
  BY <1>0, <1>2, <1>9, <1>12, <1>13, <1>14, <1>15, <1>16, StillShifting

\* The second shift, one further on: first copies become second copies, the second
\* copies that were there may go.
LEMMA SecondShift ==
  ASSUME NEW n \in Node, NEW M \in SUBSET Node, NEW keys \in SUBSET Key, n \notin M,
         Many(M), Shifting(n, M, keys), NEW m \in net, HandleSuccTwo(m)
  PROVE  Shifting(n, M, keys)'
<1>0. PICK s, t : s = NextAfter(n, M) /\ t = NextAfter(s, M)
  OBVIOUS
<1> DEFINE f == files[m.to]
           old == IF m.arg.copy1 THEN {} ELSE f["copy2"]
           mine == IF m.arg.store THEN FileListNew(f["copy1"], m.arg.node) ELSE {}
           g == [f EXCEPT !["copy1"] = f["copy1"] \ mine, !["copy2"] = old \cup mine]
           word == Message("SUCCTHREE", successor[m.to], m.arg.node)
<1>1. /\ s \in M /\ t \in M /\ t # s /\ NextAfter(t, M) \notin {s, t}
  <2>1. M \in SUBSET Id /\ M # {} /\ n \in Id
    BY TransferAssumption DEF Many
  <2>2. s \in M
    BY <1>0, <2>1, NeighboursExist
  <2> QED
    BY <1>0, <2>1, <2>2, TwoOthers
<1>2. /\ m.type = "SUCCTWO" /\ files' = [files EXCEPT ![m.to] = g]
      /\ net' \subseteq (net \ {m}) \cup {word}
      /\ UNCHANGED <<member, successor, predecessor, owes>>
  BY DEF HandleSuccTwo, ringVars
<1>3. /\ files \in Shelves(keys) /\ ShiftsLeft(M, keys, s, t)
      /\ successor[t] = NextAfter(t, M)
      /\ \A x \in M : Mains(M, keys, x) \subseteq Everywhere(x)
      /\ \A x \in M \ {s, t} : InPlace(M, keys, x)
      /\ \A o \in net : o.type = "FILE" => o.arg.key \in keys /\ o.arg.dir \in Dir
  BY <1>0, <1>1 DEF Shifting, Ring, Edge
<1>4. /\ m.to = t /\ InPlace(M, keys, t)
      /\ \A o \in net : o.type # "FILE" => o = m
  BY <1>2, <1>3 DEF ShiftsLeft, Shifts
<1>5. f \in [Dir -> SUBSET keys] /\ mine \subseteq f["copy1"] /\ old \subseteq f["copy2"]
      /\ "store" \in Dir /\ "copy1" \in Dir /\ "copy2" \in Dir
  BY <1>1, <1>3, <1>4 DEF Shelves, FileListNew, Dir
<1>6. /\ g \in [Dir -> SUBSET keys]
      /\ g["store"] = f["store"] /\ g["copy1"] = f["copy1"] \ mine /\ g["copy2"] = old \cup mine
  <2> HIDE DEF mine, old, f
  <2> QED
    BY <1>5
<1>7. word.type = "SUCCTHREE" /\ word.to \notin {s, t}
  BY <1>1, <1>3, <1>4 DEF Message
<1> HIDE DEF mine, old, g, word
<1>8. files' \in Shelves(keys) /\ \A x \in Node : files'[x] = IF x = t THEN g ELSE files[x]
  BY <1>1, <1>2, <1>3, <1>4, <1>6, ShelvesKept DEF Shelves
<1>9. \A x \in Node \ {t} : /\ Everywhere(x)' = Everywhere(x)
                            /\ InPlace(M, keys, x)' = InPlace(M, keys, x)
  BY <1>8 DEF Everywhere, InPlace
<1>10. Mains(M, keys, t) \subseteq Everywhere(t)'
  <2>1. Mains(M, keys, t) \subseteq f["store"] \cup f["copy1"]
    BY <1>4 DEF InPlace
  <2>2. f["store"] \cup f["copy1"] \subseteq g["store"] \cup g["copy1"] \cup g["copy2"]
    BY <1>5, <1>6
  <2>3. files'[t] = g /\ g["store"] \cup g["copy1"] \cup g["copy2"] \subseteq Everywhere(t)'
    BY <1>1, <1>5, <1>8 DEF Everywhere
  <2> QED
    BY <2>1, <2>2, <2>3
<1>11. \A x \in M : Mains(M, keys, x) \subseteq Everywhere(x)'
  BY <1>3, <1>9, <1>10
<1>12. \A x \in M \ {s, t} : InPlace(M, keys, x)'
  BY <1>3, <1>9
<1>13. \A o \in net' : /\ o.type = "FILE" => o.arg.key \in keys /\ o.arg.dir \in Dir
                       /\ o.type # "FILE" => o = word
  BY <1>2, <1>3, <1>4, <1>7
<1>14. ShiftsLeft(M, keys, s, t)'
  BY <1>7, <1>13 DEF ShiftsLeft, Shifts
<1>15. Ring(s, t, NextAfter(t, M))'
  BY <1>0, <1>2, RingStays DEF Shifting
<1> QED
  BY <1>0, <1>2, <1>8, <1>11, <1>12, <1>13, <1>14, <1>15, StillShifting

\* The third shift drops second copies, at a node that no shift has been at before.
LEMMA ThirdShift ==
  ASSUME NEW n \in Node, NEW M \in SUBSET Node, NEW keys \in SUBSET Key, n \notin M,
         Many(M), Shifting(n, M, keys), NEW m \in net, m.to \in member, HandleSuccThree(m)
  PROVE  Shifting(n, M, keys)'
<1>0. PICK s, t : s = NextAfter(n, M) /\ t = NextAfter(s, M)
  OBVIOUS
<1> DEFINE u == m.to
           f == files[u]
           g == [f EXCEPT !["copy2"] = f["copy2"] \ FileListNew(f["copy2"], m.arg)]
<1>1. /\ m.type = "SUCCTHREE" /\ files' = [files EXCEPT ![u] = g]
      /\ net' = net \ {m} /\ UNCHANGED <<member, successor, predecessor, owes>>
  <2>1. files' = [files EXCEPT ![m.to]["copy2"] = @ \ FileListNew(@, m.arg)]
    BY DEF HandleSuccThree
  <2> QED
    BY <2>1 DEF HandleSuccThree, ringVars
<1>2. /\ files \in Shelves(keys) /\ ShiftsLeft(M, keys, s, t) /\ member = M \cup {n}
      /\ \A x \in M : Mains(M, keys, x) \subseteq Everywhere(x)
      /\ \A x \in M \ {s, t} : InPlace(M, keys, x)
      /\ \A o \in net : o.type = "FILE" => o.arg.key \in keys /\ o.arg.dir \in Dir
  BY <1>0 DEF Shifting
<1>3. u \notin {s, t} /\ u \in Node /\ \A o \in net : o.type # "FILE" => o = m
  BY <1>1, <1>2 DEF ShiftsLeft, Shifts
<1>4. f \in [Dir -> SUBSET keys] /\ "store" \in Dir /\ "copy1" \in Dir /\ "copy2" \in Dir
  BY <1>2, <1>3 DEF Shelves, Dir
<1>5. /\ g \in [Dir -> SUBSET keys] /\ g["store"] = f["store"] /\ g["copy1"] = f["copy1"]
  BY <1>4
<1> HIDE DEF g, u
<1>6. files' \in Shelves(keys) /\ \A x \in Node : files'[x] = IF x = u THEN g ELSE files[x]
  BY <1>1, <1>2, <1>3, <1>5, ShelvesKept DEF Shelves
<1>7. \A x \in Node \ {u} : Everywhere(x)' = Everywhere(x)
  BY <1>6 DEF Everywhere
<1>8. \A x \in Node : InPlace(M, keys, x) => InPlace(M, keys, x)'
  BY <1>4, <1>5, <1>6 DEF InPlace
<1>9. \A x \in M \ {s, t} : InPlace(M, keys, x)'
  BY <1>2, <1>8
<1>10. \A x \in M : Mains(M, keys, x) \subseteq Everywhere(x)'
  <2>1. CASE u \in M
    <3>1. Mains(M, keys, u) \subseteq files'[u]["store"] \cup files'[u]["copy1"]
      BY <1>3, <1>9, <2>1 DEF InPlace
    <3>2. Mains(M, keys, u) \subseteq Everywhere(u)'
      BY <1>4, <3>1 DEF Everywhere
    <3> QED
      BY <1>2, <1>7, <3>2
  <2> QED
    BY <1>2, <1>7, <2>1
<1>11. \A o \in net' : o.type = "FILE"
  BY <1>1, <1>3
<1>12. ShiftsLeft(M, keys, s, t)'
  BY <1>11 DEF ShiftsLeft, Shifts
<1>13. Ring(s, t, NextAfter(t, M))'
  BY <1>0, <1>1, RingStays DEF Shifting
<1> QED
  BY <1>0, <1>1, <1>2, <1>6, <1>9, <1>10, <1>11, <1>12, <1>13, StillShifting

\* Every step after a join.
LEMMA ShiftStep ==
  ASSUME change = "join", NEW n \in Node, NEW M \in SUBSET Node, NEW keys \in SUBSET Key,
         n \notin M, Many(M), Shifting(n, M, keys), TransferNext
  PROVE  change' = "join" /\ Shifting(n, M, keys)'
<1>0. PICK s, t, u : s = NextAfter(n, M) /\ t = NextAfter(s, M) /\ u = NextAfter(t, M)
  OBVIOUS
<1>1. member = M \cup {n} /\ files \in Shelves(keys) /\ Ring(s, t, u)
  BY <1>0 DEF Shifting
<1>2. ASSUME NEW x \in Node, Stabilize(x)
      PROVE  change' = "join" /\ Shifting(n, M, keys)'
  <2>1. Ring(s, t, u)' /\ UNCHANGED <<member, owes, files, net, change>>
    BY <1>1, <1>2, RingNotified
  <2>2. /\ \A o \in M : Mains(M, keys, o) \subseteq Everywhere(o)'
        /\ \A o \in M \ {s, t} : InPlace(M, keys, o)'
        /\ \A m \in net' : m.type = "FILE" => m.arg.key \in keys /\ m.arg.dir \in Dir
    BY <1>0, <2>1 DEF Shifting, Everywhere, InPlace
  <2>3. ShiftsLeft(M, keys, s, t)'
    <3>1. ShiftsLeft(M, keys, s, t)
      BY <1>0 DEF Shifting
    <3> QED
      BY <2>1, <3>1 DEF ShiftsLeft, Shifts, InPlace
  <2> QED
    BY <1>0, <1>1, <2>1, <2>2, <2>3, StillShifting
<1>3. ASSUME NEW x \in Node
      PROVE  /\ ~Join(x) /\ ~Depart(x) /\ ~CheckPeer(x) /\ ~RemovePredecessor(x)
             /\ ~RemoveSuccessor(x)
  BY <1>1, OnlyMessages
<1>4. ASSUME NEW m \in net, Lose(m)
      PROVE  change' = "join" /\ Shifting(n, M, keys)'
  <2>1. /\ UNCHANGED <<member, successor, predecessor, owes, files, change>>
        /\ net' \subseteq net
    BY <1>4 DEF Lose, ringVars
  <2> QED
    BY <1>1, <2>1, DisksFill
<1>5. ASSUME NEW m \in net, m.to \in member, HandleFile(m)
      PROVE  change' = "join" /\ Shifting(n, M, keys)'
  <2> DEFINE g == [files[m.to] EXCEPT ![m.arg.dir] = files[m.to][m.arg.dir] \cup {m.arg.key}]
  <2>1. m.to \in Node /\ m.arg.key \in keys /\ m.arg.dir \in Dir
    BY <1>1, <1>5 DEF Shifting, HandleFile
  <2>2. /\ UNCHANGED <<member, successor, predecessor, owes, change>>
        /\ net' \subseteq net /\ files' = [files EXCEPT ![m.to] = g]
    <3>1. files' = [files EXCEPT ![m.to][m.arg.dir] = @ \cup {m.arg.key}]
      BY <1>5 DEF HandleFile
    <3> QED
      BY <1>5, <3>1 DEF HandleFile, ringVars
  <2>3. g \in [Dir -> SUBSET keys] /\ \A e \in Dir : files[m.to][e] \subseteq g[e]
    BY <1>1, <2>1 DEF Shelves
  <2> HIDE DEF g
  <2>4. files' \in Shelves(keys) /\ \A x \in Node, e \in Dir : files[x][e] \subseteq files'[x][e]
    BY <1>1, <2>1, <2>2, <2>3, ShelvesKept DEF Shelves
  <2> QED
    BY <1>1, <2>2, <2>4, DisksFill
<1>6. ASSUME NEW m \in net, HandleSuccOne(m)
      PROVE  change' = "join" /\ Shifting(n, M, keys)'
  BY <1>6, FirstShift DEF HandleSuccOne, ringVars
<1>7. ASSUME NEW m \in net, HandleSuccTwo(m)
      PROVE  change' = "join" /\ Shifting(n, M, keys)'
  BY <1>7, SecondShift DEF HandleSuccTwo, ringVars
<1>8. ASSUME NEW m \in net, m.to \in member, HandleSuccThree(m)
      PROVE  change' = "join" /\ Shifting(n, M, keys)'
  BY <1>8, ThirdShift DEF HandleSuccThree, ringVars
<1>9. ASSUME NEW m \in net, HandleLeaveSucc(m)
      PROVE  FALSE
  BY <1>9 DEF HandleLeaveSucc, Shifting, ShiftsLeft, Shifts
<1> QED
  BY <1>2, <1>3, <1>4, <1>5, <1>6, <1>7, <1>8, <1>9 DEF TransferNext, Handle

\* After a departure nothing that a member has is ever deleted: what it moves from one
\* directory to another stays on its disk.
LEMMA NothingDeleted ==
  ASSUME change = "departure", NEW d \in Node \ member, NEW keys \in SUBSET Key,
         Bereft(d, keys), TransferNext, NEW o \in member
  PROVE  Everywhere(o) \subseteq Everywhere(o)'
<1>0. /\ member \subseteq Node /\ files \in Shelves(keys)
      /\ \A n \in Node : files[n] \in [Dir -> SUBSET keys]
      /\ \A m \in net : m.type \in {"FILE", "LEAVESUCC"}
      /\ \A m \in net : m.type = "FILE" => m.arg.key \in keys /\ m.arg.dir \in Dir
  BY DEF Bereft, Shelves, Carried
<1>1. CASE files' = files
  BY <1>1 DEF Everywhere
<1>2. ASSUME NEW n \in Node, NEW g, files' = [files EXCEPT ![n] = g],
             UNION {files[n][e] : e \in Dir} \subseteq UNION {g[e] : e \in Dir}
      PROVE  Everywhere(o) \subseteq Everywhere(o)'
  <2>1. files'[o] = IF o = n THEN g ELSE files[o]
    BY <1>0, <1>2 DEF Shelves
  <2> QED
    BY <1>2, <2>1 DEF Everywhere
<1>3. ASSUME NEW n \in Node, RemovePredecessor(n)
      PROVE  Everywhere(o) \subseteq Everywhere(o)'
  <2> DEFINE f == files[n]
             g == [f EXCEPT !["store"] = f["store"] \cup f["copy1"], !["copy1"] = f["copy2"],
                            !["copy2"] = {}]
  <2>1. files' = [files EXCEPT ![n] = g]
    BY <1>3 DEF RemovePredecessor
  <2>2. \A e \in Dir : \A k \in f[e] : \E a \in Dir : k \in g[a]
    BY <1>0 DEF Dir
  <2> HIDE DEF g
  <2>3. UNION {f[e] : e \in Dir} \subseteq UNION {g[e] : e \in Dir}
    BY <2>2
  <2> QED
    BY <1>2, <2>1, <2>3
<1>4. ASSUME NEW m \in net, m.to \in member, HandleLeaveSucc(m)
      PROVE  Everywhere(o) \subseteq Everywhere(o)'
  <2> DEFINE f == files[m.to]
             g == [f EXCEPT !["copy1"] = f["copy1"] \cup f["copy2"], !["copy2"] = f["temp"],
                            !["temp"] = {}]
  <2>1. files' = [files EXCEPT ![m.to] = g] /\ m.to \in Node
    BY <1>0, <1>4 DEF HandleLeaveSucc
  <2>2. \A e \in Dir : \A k \in f[e] : \E a \in Dir : k \in g[a]
    BY <1>0, <2>1 DEF Dir
  <2> HIDE DEF g
  <2>3. UNION {f[e] : e \in Dir} \subseteq UNION {g[e] : e \in Dir}
    BY <2>2
  <2> QED
    BY <1>2, <2>1, <2>3
<1>5. ASSUME NEW m \in net, m.to \in member, HandleFile(m)
      PROVE  Everywhere(o) \subseteq Everywhere(o)'
  <2> DEFINE f == files[m.to]
             g == [f EXCEPT ![m.arg.dir] = f[m.arg.dir] \cup {m.arg.key}]
  <2>1. m.to \in Node /\ m.arg.dir \in Dir
    BY <1>0, <1>5 DEF HandleFile
  <2>2. files' = [files EXCEPT ![m.to] = g]
    <3>1. files' = [files EXCEPT ![m.to][m.arg.dir] = @ \cup {m.arg.key}]
      BY <1>5 DEF HandleFile
    <3> QED
      BY <3>1
  <2>3. \A e \in Dir : f[e] \subseteq g[e]
    BY <1>0, <2>1
  <2> HIDE DEF g
  <2>4. UNION {f[e] : e \in Dir} \subseteq UNION {g[e] : e \in Dir}
    BY <2>3
  <2> QED
    BY <1>2, <2>1, <2>2, <2>4
<1>6. ASSUME NEW m \in net, HandleSuccOne(m) \/ HandleSuccTwo(m) \/ HandleSuccThree(m)
      PROVE  FALSE
  BY <1>0, <1>6 DEF HandleSuccOne, HandleSuccTwo, HandleSuccThree
<1>7. ASSUME NEW n \in Node,
             \/ Join(n) \/ Depart(n) \/ CheckPeer(n) \/ RemoveSuccessor(n)
             \/ Stabilize(n)
      PROVE  files' = files
  BY <1>7 DEF Join, Depart, CheckPeer, RemoveSuccessor, Stabilize
<1>8. ASSUME NEW m \in net, Lose(m)
      PROVE  files' = files
  BY <1>8 DEF Lose
<1> QED
  BY <1>1, <1>3, <1>4, <1>5, <1>6, <1>7, <1>8 DEF TransferNext, Handle

\* Every step keeps every file on two disks.
LEMMA DiskStep == DiskInv /\ [TransferNext]_transferVars => DiskInv'
<1> SUFFICES ASSUME DiskInv, [TransferNext]_transferVars PROVE DiskInv'
  OBVIOUS
<1>1. CASE UNCHANGED transferVars
  <2>1. Orderly => Orderly'
    BY <1>1 DEF transferVars, ringVars, Orderly
  <2>2. \A x : Everywhere(x)' = Everywhere(x)
    BY <1>1 DEF transferVars, Everywhere
  <2>3. ASSUME NEW d, NEW keys, Bereft(d, keys), Doubled(keys)
        PROVE  Bereft(d, keys)' /\ Doubled(keys)'
    <3>1. Stored(d, keys)' /\ Inherited(d, keys)' /\ Carried(keys)'
      BY <1>1, <2>3 DEF transferVars, ringVars, Bereft, Stored, Inherited, Carried
    <3>2. Bereft(d, keys)'
      BY <1>1, <2>3, <3>1 DEF transferVars, ringVars, Bereft, Shelves
    <3> QED
      BY <1>1, <2>2, <2>3, <3>2 DEF transferVars, ringVars, Doubled
  <2>4. ASSUME NEW n \in Node, NEW M \in SUBSET Node, NEW keys \in SUBSET Key,
               Many(M), Shifting(n, M, keys)
        PROVE  Shifting(n, M, keys)'
    <3>1. /\ UNCHANGED <<member, successor, predecessor, owes>> /\ net' \subseteq net
          /\ files' = files /\ files \in Shelves(keys)
      BY <1>1, <2>4 DEF transferVars, ringVars, Shifting
    <3> QED
      BY <2>4, <3>1, DisksFill
  <2>5. change' = change /\ member' = member
    BY <1>1 DEF transferVars, ringVars
  <2> QED
    BY <2>1, <2>3, <2>4, <2>5 DEF DiskInv
<1>2. CASE TransferNext /\ change = "none"
  <2>1. Orderly /\ Many(member)
    BY <1>2 DEF DiskInv
  <2>2. ASSUME NEW n \in Node, Join(n) \/ Depart(n)
        PROVE  DiskInv'
    BY <1>2, <2>1, <2>2, JoinShifts, DepartDoubled
  <2>3. CASE \A n \in Node : ~Join(n) /\ ~Depart(n)
    <3>1. change' = "none" /\ member' = member
      BY <1>2, <2>1, <2>3
      DEF TransferNext, CheckPeer, RemovePredecessor, RemoveSuccessor, Stabilize,
          Orderly, ringVars
    <3>2. Orderly'
      BY <1>2, <2>1, <3>1, OrderlyStep DEF TransferInv
    <3> QED
      BY <2>1, <3>1, <3>2 DEF DiskInv
  <2> QED
    BY <2>2, <2>3
<1>3. CASE TransferNext /\ change = "join"
  <2>1. PICK n \in Node, M \in SUBSET Node, keys \in SUBSET Key :
          n \notin M /\ Many(M) /\ Shifting(n, M, keys)
    BY <1>3 DEF DiskInv
  <2>2. change' = "join" /\ Shifting(n, M, keys)'
    BY <1>3, <2>1, ShiftStep
  <2> QED
    BY <2>1, <2>2 DEF DiskInv
<1>4. CASE TransferNext /\ change = "departure"
  <2>1. PICK d \in Node \ member, keys \in SUBSET Key : Bereft(d, keys) /\ Doubled(keys)
    BY <1>4 DEF DiskInv
  <2>2. change' = "departure" /\ member' = member /\ Bereft(d, keys)'
    BY <1>4, <2>1, BereftStep
  <2>3. \A o \in member : Everywhere(o) \subseteq Everywhere(o)'
    BY <1>4, <2>1, NothingDeleted
  <2>4. Doubled(keys)'
    BY <2>1, <2>2, <2>3 DEF Doubled
  <2> QED
    BY <2>2, <2>4 DEF DiskInv
<1> QED
  BY <1>1, <1>2, <1>3, <1>4 DEF DiskInv

\* removePeer, handleLeaveSucc, handleSuccOneForNodeAdd, handleSuccTwoForNodeAdd,
\* handleNewNodeForNodeAdd: while a node joins a ring of three or more, or one of
\* four or more departs, every file is on the disks of two members, in any order of
\* the messages and whichever are lost.
THEOREM FilesStayTwice ==
  ASSUME Cardinality(Node) >= 4
  PROVE  TransferSpec => []TwiceOnDisk
<1> QED
  BY DiskStarts, DiskStep, DiskInvTwice, PTL DEF TransferSpec

----------------------------------------------------------------------------
(***************************************************************************)
(* Where every file is when the messages have arrived.                     *)
(***************************************************************************)

\* Where the files are if the first of the three places of k is F[k].
PlacedFrom(F, M, keys) ==
  [x \in Node |-> [store |-> {k \in keys : x = F[k]},
                   copy1 |-> {k \in keys : x = NextAfter(F[k], M)},
                   copy2 |-> {k \in keys : x = NextAfter(NextAfter(F[k], M), M)},
                   temp  |-> {}]]

\* The files that have each node for their first place.
Shares(F, keys) == [x \in Node |-> {k \in keys : F[k] = x}]

\* The directories f hold these replicas.
Triple(f, main, first, second) ==
  f["store"] = main /\ f["copy1"] = first /\ f["copy2"] = second /\ f["temp"] = {}

\* The three members after d, and the two before it.
Nearby(d, M, h, t, u, p, q) ==
  /\ h = NextAfter(d, M) /\ t = NextAfter(h, M) /\ u = NextAfter(t, M)
  /\ p = NextBefore(d, M) /\ q = NextBefore(p, M)

\* The files of d's neighbours with d in the ring, which is the first place of some of
\* them, and without it: the three members after d have other ones then.
Around(d, M, keys, F, h, t, u, p, q, K) ==
  LET with == PlacedFrom(F, M \cup {d}, keys)
      rest == Placement(M, keys)
  IN  /\ {h, t, u, p, q} \subseteq M /\ h # t /\ t # u /\ h # u /\ p # h /\ p # t
      /\ K \in [Node -> SUBSET keys]
      /\ \A x, y \in Node : x # y => K[x] \cap K[y] = {}
      /\ Triple(with[d], K[d], K[p], K[q]) /\ Triple(with[h], K[h], K[d], K[p])
      /\ Triple(with[t], K[t], K[h], K[d]) /\ Triple(with[u], K[u], K[t], K[h])
      /\ Triple(rest[h], K[h] \cup K[d], K[p], K[q])
      /\ Triple(rest[t], K[t], K[h] \cup K[d], K[p])
      /\ Triple(rest[u], K[u], K[t], K[h] \cup K[d])
      /\ Triple(rest[d], {}, {}, {})
      /\ \A x \in M \ {h, t, u} : rest[x] = with[x]

\* Directories that hold the same are the same.
LEMMA SameShelf ==
  ASSUME NEW keys, NEW f \in [Dir -> SUBSET keys], NEW g \in [Dir -> SUBSET keys],
         NEW a, NEW b, NEW c, Triple(f, a, b, c), Triple(g, a, b, c)
  PROVE  f = g
<1>1. \A e \in Dir : f[e] = g[e]
  BY DEF Triple, Dir
<1> QED
  BY <1>1

\* It gives every node its directories, and Placement is one of these.
LEMMA PlacedShelves ==
  ASSUME NEW F, NEW M, NEW keys
  PROVE  PlacedFrom(F, M, keys) \in Shelves(keys)
BY DEF PlacedFrom, Shelves, Dir

LEMMA OwnersPlace ==
  ASSUME NEW M, NEW keys, NEW F, \A k \in keys : F[k] = Owner(k, M)
  PROVE  Placement(M, keys) = PlacedFrom(F, M, keys)
BY DEF Placement, PlacedFrom

\* A member is the first place of some files, the second one of those of the member
\* before it, and the third one of those of the member before that.
LEMMA PlacementOf ==
  ASSUME NEW M \in SUBSET Node, NEW keys, NEW F, \A k \in keys : F[k] \in M, NEW x \in M,
         NEW y, y = NextBefore(x, M), NEW z, z = NextBefore(y, M)
  PROVE  /\ y \in M /\ z \in M
         /\ Triple(PlacedFrom(F, M, keys)[x], Shares(F, keys)[x], Shares(F, keys)[y],
                   Shares(F, keys)[z])
<1>1. M \in SUBSET Id /\ M # {} /\ x \in Id /\ x \in Node
  BY TransferAssumption
<1>2. y \in M /\ y \in Id /\ y \in Node
  BY <1>1, NeighboursExist
<1>3. z \in M /\ z \in Node
  BY <1>1, <1>2, NeighboursExist
<1>4. ASSUME NEW k \in keys
      PROVE  /\ x = NextAfter(F[k], M) <=> F[k] = y
             /\ x = NextAfter(NextAfter(F[k], M), M) <=> F[k] = z
  <2>0. PICK o : o = F[k]
    OBVIOUS
  <2>1. o \in M /\ o \in Id
    BY <1>1, <2>0
  <2>2. NextAfter(o, M) \in M
    BY <1>1, <2>1, NeighboursExist
  <2>3. \A a, b \in M : NextAfter(a, M) = b <=> NextBefore(b, M) = a
    BY <1>1, NextIsBack
  <2> QED
    BY <1>2, <1>3, <2>0, <2>1, <2>2, <2>3
<1> QED
  BY <1>1, <1>2, <1>3, <1>4 DEF PlacedFrom, Shares, Triple

\* So it is in every ring of three members or more and one that is not in it. The files
\* that have d for their first place, in the larger ring, are the next member's
\* in the smaller one.
LEMMA TwoRings ==
  ASSUME NEW M \in SUBSET Node, Many(M), NEW d \in Node \ M, NEW keys \in SUBSET Key,
         NEW h, NEW t, NEW u, NEW p, NEW q, Nearby(d, M, h, t, u, p, q),
         NEW F, \A k \in keys : F[k] \in M \cup {d},
         \A k \in keys : Owner(k, M) = IF F[k] = d THEN h ELSE F[k],
         NEW K, K = Shares(F, keys)
  PROVE  Around(d, M, keys, F, h, t, u, p, q, K)
<1> DEFINE N == M \cup {d}
           G == [k \in keys |-> Owner(k, M)]
           L == Shares(G, keys)
           with == PlacedFrom(F, N, keys)
           rest == Placement(M, keys)
           B(x) == NextBefore(x, M)
           C(x) == NextBefore(x, N)
<1>1. /\ M \in SUBSET Id /\ M # {} /\ d \in Id \ M /\ N \in SUBSET Node /\ d \in N
      /\ N \in SUBSET Id
  BY TransferAssumption DEF Many
<1>2. /\ h \in M /\ p \in M /\ h \in Id /\ p \in Id
  BY <1>1, NeighboursExist DEF Nearby
<1>3. t \in M /\ u \in M /\ q \in M /\ h # t /\ t # u /\ h # u
  BY <1>1, <1>2, NeighboursExist, TwoOthers DEF Nearby
<1>4. C(d) = p /\ C(h) = d /\ B(h) = p /\ \A x \in M \ {h} : C(x) = B(x)
  BY <1>1, GapCloses DEF Nearby
<1>5. \A x, y \in M : NextAfter(x, M) = y <=> B(y) = x
  BY <1>1, NextIsBack
<1>6. B(t) = h /\ B(u) = t /\ B(p) = q /\ NextAfter(p, M) = h
  BY <1>2, <1>3, <1>4, <1>5 DEF Nearby
<1>7. p # h /\ p # t
  BY <1>2, <1>3, <1>6, <1>1, TwoOthers DEF Nearby
<1>8. C(t) = h /\ C(u) = t /\ C(p) = q
  BY <1>2, <1>3, <1>4, <1>6, <1>7
<1>9. \A k \in keys : G[k] \in M /\ G[k] = IF F[k] = d THEN h ELSE F[k]
  BY <1>2
<1>10. /\ K \in [Node -> SUBSET keys] /\ \A x \in Node : K[x] = {k \in keys : F[k] = x}
  BY DEF Shares
<1>11. L[h] = K[h] \cup K[d] /\ \A x \in M \ {h} : L[x] = K[x]
  <2>1. \A x \in Node : L[x] = {k \in keys : G[k] = x}
    BY DEF Shares
  <2>2. h \in Node /\ d \in Node /\ d \notin M /\ M \subseteq Node
    BY <1>1, <1>2
  <2> HIDE DEF G, L
  <2>3. L[h] = K[h] \cup K[d]
    <3>1. \A k \in keys : G[k] = h <=> F[k] = h \/ F[k] = d
      BY <1>9
    <3> QED
      BY <1>10, <2>1, <2>2, <3>1
  <2>4. ASSUME NEW x \in M \ {h}
        PROVE  L[x] = K[x]
    <3>1. \A k \in keys : G[k] = x <=> F[k] = x
      BY <1>9, <2>2
    <3>2. L[x] = {k \in keys : G[k] = x} /\ K[x] = {k \in keys : F[k] = x}
      BY <1>10, <2>1, <2>2
    <3> QED
      BY <3>1, <3>2
  <2> QED
    BY <2>3, <2>4
<1>12. q # h
  BY <1>2, <1>3, <1>5, <1>6, <1>7
<1> HIDE DEF B, C
<1>13. \A x \in N : Triple(with[x], K[x], K[C(x)], K[C(C(x))])
  BY <1>1, PlacementOf DEF C
<1>14. \A x \in M : Triple(rest[x], L[x], L[B(x)], L[B(B(x))]) /\ B(x) \in M /\ B(B(x)) \in M
  <2>1. rest = PlacedFrom(G, M, keys)
    BY OwnersPlace
  <2>2. \A k \in keys : G[k] \in M
    BY <1>9
  <2> HIDE DEF G, L, rest
  <2> QED
    BY <1>1, <2>1, <2>2, PlacementOf DEF B, L
<1>15. Triple(rest[d], {}, {}, {})
  <2>1. \A k \in keys : Owner(k, M) \in M
    BY <1>1, NeighboursExist, TransferAssumption DEF Owner
  <2>2. \A y \in M : NextAfter(y, M) \in M
    BY <1>1, NeighboursExist
  <2> QED
    BY <1>1, <2>1, <2>2 DEF Placement, Triple
<1> HIDE DEF with, rest, L, G
<1>16. /\ Triple(with[d], K[d], K[p], K[q]) /\ Triple(with[h], K[h], K[d], K[p])
       /\ Triple(with[t], K[t], K[h], K[d]) /\ Triple(with[u], K[u], K[t], K[h])
  BY <1>1, <1>2, <1>3, <1>4, <1>8, <1>13
<1>17. /\ Triple(rest[h], L[h], L[p], L[q]) /\ Triple(rest[t], L[t], L[h], L[p])
       /\ Triple(rest[u], L[u], L[t], L[h])
  BY <1>2, <1>3, <1>4, <1>6, <1>14
<1>18. ASSUME NEW x \in M \ {h, t, u}
       PROVE  rest[x] = with[x]
  <2>1. B(x) \in M \ {h, t} /\ B(B(x)) \in M \ {h}
    BY <1>2, <1>3, <1>5, <1>14 DEF Nearby, B
  <2>2. C(x) = B(x) /\ C(C(x)) = B(B(x))
    BY <1>4, <2>1
  <2>3. L[x] = K[x] /\ L[B(x)] = K[B(x)] /\ L[B(B(x))] = K[B(B(x))]
    BY <1>11, <2>1
  <2>4. /\ Triple(rest[x], K[x], K[B(x)], K[B(B(x))])
        /\ Triple(with[x], K[x], K[B(x)], K[B(B(x))])
    BY <1>13, <1>14, <2>2, <2>3
  <2>5. rest[x] \in [Dir -> SUBSET keys] /\ with[x] \in [Dir -> SUBSET keys]
    BY PlacementShelves, PlacedShelves DEF Shelves, rest, with
  <2> QED
    BY <2>4, <2>5, SameShelf
<1> QED
  BY <1>2, <1>3, <1>7, <1>10, <1>11, <1>12, <1>15, <1>16, <1>17, <1>18 DEF with, rest, Around

----------------------------------------------------------------------------
\* The files on their way to a directory, and all that it will hold.
Coming(x, e) == {m.arg.key : m \in {o \in net : o.type = "FILE" /\ o.to = x /\ o.arg.dir = e}}
Due(x, e) == files[x][e] \cup Coming(x, e)

\* d has left. Its heir h takes its place when it misses d, and hands its second
\* copies on to t, in copy2/temp/; t takes those in when LEAVESUCC comes and hands its own
\* on to u. K[x] are the files of x at the time. Nobody loses what it has a place for,
\* whatever other copies come and wherever from: only the second copies of h, which
\* become first copies, may not be replaced.
Healing(d, keys, h, t, u, p, K) ==
  LET leave == Message("LEAVESUCC", t, 0)
      missed == predecessor[h] # d
      handed == missed /\ leave \notin net
      place == Placement(member, keys)
  IN  /\ files \in Shelves(keys) /\ predecessor \in [Node -> Node]
      /\ successor \in [Node -> Node]
      /\ Edge(h, t) /\ Edge(t, u)
      /\ \A x \in member \ {h} : predecessor[x] \in member
      /\ predecessor[h] \in member \cup {d}
      /\ leave \in net => missed
      /\ \A m \in net : \/ m = leave
                        \/ m.type = "FILE" /\ m.arg.key \in keys /\ m.arg.dir \in Dir
      /\ \A x \in member \ {h} : place[x]["store"] \subseteq files[x]["store"]
      /\ \A x \in member \ {h, t} : place[x]["copy1"] \subseteq files[x]["copy1"]
      /\ \A x \in member \ {h, t, u} : place[x]["copy2"] \subseteq files[x]["copy2"]
      /\ K[h] \subseteq files[h]["store"]
      /\ IF missed
         THEN K[d] \subseteq files[h]["store"] /\ K[p] \subseteq files[h]["copy1"]
         ELSE K[d] \subseteq files[h]["copy1"] /\ K[p] \subseteq files[h]["copy2"]
      /\ K[h] \subseteq files[t]["copy1"]
      /\ IF handed
         THEN K[d] \subseteq files[t]["copy1"] /\ K[p] \subseteq files[t]["copy2"] \cup Due(t, "temp")
         ELSE K[d] \subseteq files[t]["copy2"] /\ (missed => K[p] \subseteq Due(t, "temp"))
      /\ K[h] \subseteq files[u]["copy2"]
      /\ handed => K[d] \subseteq Due(u, "copy2")

\* What is used of the ring and of the places in it while it heals.
Patch(d, keys, h, t, u, p, K) ==
  /\ member \subseteq Node /\ Many(member) /\ d \in Node \ member /\ keys \subseteq Key
  /\ {h, t, u, p} \subseteq member /\ h # t /\ t # u /\ h # u
  /\ h = NextAfter(d, member)
  /\ K \in [Node -> SUBSET keys]
  /\ LET place == Placement(member, keys)
     IN  /\ place[h]["store"] = K[h] \cup K[d] /\ place[h]["copy1"] = K[p]
         /\ place[t]["copy1"] = K[h] \cup K[d] /\ place[t]["copy2"] = K[p]
         /\ place[u]["copy2"] = K[h] \cup K[d]

\* A file is on its way as long as its message is.
LEMMA ComingIs ==
  \A x, e, k : k \in Coming(x, e) <=>
    \E m \in net : m.type = "FILE" /\ m.to = x /\ m.arg.dir = e /\ m.arg.key = k
BY DEF Coming

\* Files that are sent are on their way.
LEMMA FilesSent ==
  ASSUME NEW ks, NEW y, NEW f, CopyRemote(ks, f, y) \subseteq net'
  PROVE  ks \subseteq Coming(y, f)'
<1> SUFFICES ASSUME NEW k \in ks
             PROVE  k \in Coming(y, f)'
  OBVIOUS
<1>1. PICK m \in net' : m = CopyToRemote(k, f, y)
  BY DEF CopyRemote
<1>2. m.type = "FILE" /\ m.to = y /\ m.arg.dir = f /\ m.arg.key = k
  BY <1>1 DEF CopyToRemote, Message
<1> QED
  BY <1>2 DEF Coming

\* As long as directories only fill up and no copy is lost, what is due stays due.
LEMMA StillDue ==
  ASSUME \A x \in Node, e \in Dir : files[x][e] \subseteq files'[x][e],
         \A m \in net : m.type = "FILE" =>
                          m \in net' \/ m.arg.key \in files'[m.to][m.arg.dir],
         NEW x \in Node, NEW e \in Dir
  PROVE  Due(x, e) \subseteq Due(x, e)'
<1> SUFFICES ASSUME NEW k \in Coming(x, e)
             PROVE  k \in Due(x, e)'
  BY DEF Due
<1>1. PICK m \in net : m.type = "FILE" /\ m.to = x /\ m.arg.dir = e /\ m.arg.key = k
  BY ComingIs
<1>2. CASE m \in net'
  <2>1. k \in Coming(x, e)'
    BY <1>1, <1>2 DEF Coming
  <2> QED
    BY <2>1 DEF Due
<1>3. CASE k \in files'[x][e]
  BY <1>3 DEF Due
<1> QED
  BY <1>1, <1>2, <1>3

\* A file that arrives is where it was due.
LEMMA FileArrives ==
  ASSUME NEW keys, files \in Shelves(keys), NEW m \in net, HandleFile(m),
         m.to \in Node, m.arg.dir \in Dir, m.arg.key \in keys
  PROVE  /\ files' \in Shelves(keys)
         /\ \A x \in Node, e \in Dir :
              /\ Due(x, e)' = Due(x, e)
              /\ x # m.to \/ e # m.arg.dir =>
                   files'[x][e] = files[x][e] /\ Coming(x, e)' = Coming(x, e)
         /\ \A x \in Node : x # m.to => files'[x] = files[x]
<1> DEFINE y == m.to
           f == m.arg.dir
           k == m.arg.key
           g == [files[y] EXCEPT ![f] = files[y][f] \cup {k}]
<1>1. m.type = "FILE" /\ net' = net \ {m} /\ files' = [files EXCEPT ![y] = g]
  <2>1. files' = [files EXCEPT ![m.to][m.arg.dir] = @ \cup {m.arg.key}]
    BY DEF HandleFile
  <2> QED
    BY <2>1 DEF HandleFile
<1>2. g \in [Dir -> SUBSET keys] /\ \A e \in Dir : g[e] = IF e = f THEN files[y][f] \cup {k} ELSE files[y][e]
  BY DEF Shelves
<1> HIDE DEF g
<1>3. /\ files' \in Shelves(keys)
      /\ \A x \in Node : files'[x] = IF x = y THEN g ELSE files[x]
  BY <1>1, <1>2, ShelvesKept DEF Shelves
<1>4. ASSUME NEW x \in Node, NEW e \in Dir, NEW j
      PROVE  /\ j \in Coming(x, e)' => j \in Coming(x, e)
             /\ j \in Coming(x, e) /\ ~(x = y /\ e = f /\ j = k) => j \in Coming(x, e)'
  <2>1. j \in Coming(x, e)' <=>
          \E o \in net' : o.type = "FILE" /\ o.to = x /\ o.arg.dir = e /\ o.arg.key = j
    BY DEF Coming
  <2> QED
    BY <1>1, <2>1, ComingIs
<1>5. k \in Coming(y, f)
  BY <1>1, ComingIs
<1>6. ASSUME NEW x \in Node, NEW e \in Dir
      PROVE  /\ Due(x, e)' = Due(x, e)
             /\ x # y \/ e # f => files'[x][e] = files[x][e] /\ Coming(x, e)' = Coming(x, e)
  <2>1. x # y \/ e # f => Coming(x, e)' = Coming(x, e)
    BY <1>4
  <2>2. x # y \/ e # f => files'[x][e] = files[x][e]
    BY <1>2, <1>3
  <2>3. x = y /\ e = f => Due(x, e)' = Due(x, e)
    BY <1>2, <1>3, <1>4, <1>5 DEF Due
  <2> QED
    BY <2>1, <2>2, <2>3 DEF Due
<1> QED
  BY <1>3, <1>6

\* A step after which directories have what they had, or more, no message but copies has
\* come or gone, and no edge of the ring has been cut: checkPeer, stabilize, removePeer of a
\* successor, handleNewNodeForNodeAdd.
LEMMA HealGrows ==
  ASSUME NEW d, NEW keys, NEW h, NEW t, NEW u, NEW p, NEW K,
         Patch(d, keys, h, t, u, p, K), Healing(d, keys, h, t, u, p, K), member' = member,
         files' \in Shelves(keys), successor' \in [Node -> Node], predecessor' \in [Node -> Node],
         Edge(h, t)', Edge(t, u)',
         \A x \in Node : predecessor'[x] \in member \/ predecessor'[x] = predecessor[x],
         predecessor[h] = d => predecessor'[h] = d,
         \A x \in Node, e \in Dir : files[x][e] \subseteq files'[x][e],
         \A m \in net : m \in net' \/ (m.type = "FILE" /\ m.arg.key \in files'[m.to][m.arg.dir]),
         \A m \in net' : \/ m \in net
                         \/ m.type = "FILE" /\ m.arg.key \in keys /\ m.arg.dir \in Dir
  PROVE  Healing(d, keys, h, t, u, p, K)'
<1> DEFINE leave == Message("LEAVESUCC", t, 0)
           place == Placement(member, keys)
<1>1. leave.type = "LEAVESUCC"
  BY DEF Message
<1>2. /\ {h, t, u, p} \subseteq member /\ member \subseteq Node /\ d \in Node \ member
  BY DEF Patch
<1>3. {"store", "copy1", "copy2", "temp"} = Dir
  BY DEF Dir
<1>4. /\ Due(t, "temp") \subseteq Due(t, "temp")'
      /\ Due(u, "copy2") \subseteq Due(u, "copy2")'
  BY <1>2, <1>3, StillDue
<1> HIDE DEF leave
<1>5. leave \in net' <=> leave \in net
  BY <1>1
<1>6. predecessor'[h] = d <=> predecessor[h] = d
  BY <1>2
<1>7. /\ \A x \in member \ {h} : predecessor'[x] \in member
      /\ predecessor'[h] \in member \cup {d}
  BY <1>2 DEF Healing
<1>8. \A m \in net' : \/ m = leave
                      \/ m.type = "FILE" /\ m.arg.key \in keys /\ m.arg.dir \in Dir
  BY DEF Healing, leave
<1>9. /\ \A x \in member \ {h} : place[x]["store"] \subseteq files'[x]["store"]
      /\ \A x \in member \ {h, t} : place[x]["copy1"] \subseteq files'[x]["copy1"]
      /\ \A x \in member \ {h, t, u} : place[x]["copy2"] \subseteq files'[x]["copy2"]
  <2>1. \A x \in member : /\ files[x]["store"] \subseteq files'[x]["store"]
                          /\ files[x]["copy1"] \subseteq files'[x]["copy1"]
                          /\ files[x]["copy2"] \subseteq files'[x]["copy2"]
    BY <1>2, <1>3
  <2>2. /\ \A x \in member \ {h} : place[x]["store"] \subseteq files[x]["store"]
        /\ \A x \in member \ {h, t} : place[x]["copy1"] \subseteq files[x]["copy1"]
        /\ \A x \in member \ {h, t, u} : place[x]["copy2"] \subseteq files[x]["copy2"]
    BY DEF Healing
  <2> HIDE DEF place
  <2> QED
    BY <2>1, <2>2
<1>10. /\ files[h]["store"] \subseteq files'[h]["store"]
       /\ files[h]["copy1"] \subseteq files'[h]["copy1"]
       /\ files[h]["copy2"] \subseteq files'[h]["copy2"]
       /\ files[t]["copy1"] \subseteq files'[t]["copy1"]
       /\ files[t]["copy2"] \subseteq files'[t]["copy2"]
       /\ files[u]["copy2"] \subseteq files'[u]["copy2"]
  BY <1>2, <1>3
<1>11. /\ K[h] \subseteq files'[h]["store"]
       /\ K[h] \subseteq files'[t]["copy1"]
       /\ K[h] \subseteq files'[u]["copy2"]
       /\ IF predecessor[h] # d
          THEN K[d] \subseteq files'[h]["store"] /\ K[p] \subseteq files'[h]["copy1"]
          ELSE K[d] \subseteq files'[h]["copy1"] /\ K[p] \subseteq files'[h]["copy2"]
  BY <1>10 DEF Healing
<1>12. LET missed == predecessor[h] # d
           handed == missed /\ leave \notin net
       IN  /\ IF handed
              THEN /\ K[d] \subseteq files'[t]["copy1"]
                   /\ K[p] \subseteq files'[t]["copy2"] \cup Due(t, "temp")'
              ELSE K[d] \subseteq files'[t]["copy2"] /\ (missed => K[p] \subseteq Due(t, "temp")')
           /\ handed => K[d] \subseteq Due(u, "copy2")'
           /\ leave \in net => missed
  BY <1>4, <1>10 DEF Healing, leave
<1>13. Shelves(keys)' = Shelves(keys) /\ Placement(member, keys)' = place
  BY DEF Shelves, Placement
<1> QED
  BY <1>5, <1>6, <1>7, <1>8, <1>9, <1>11, <1>12, <1>13 DEF Healing, leave

\* removePeer at the heir: the first copies of what d owned become its own.
LEMMA HealPredecessor ==
  ASSUME NEW d, NEW keys, NEW h, NEW t, NEW u, NEW p, NEW K,
         Patch(d, keys, h, t, u, p, K), Healing(d, keys, h, t, u, p, K),
         NEW n \in Node, RemovePredecessor(n)
  PROVE  Healing(d, keys, h, t, u, p, K)'
<1> DEFINE leave == Message("LEAVESUCC", t, 0)
           place == Placement(member, keys)
           f == files[h]
           g == [f EXCEPT !["store"] = f["store"] \cup f["copy1"], !["copy1"] = f["copy2"],
                          !["copy2"] = {}]
<1>1. /\ {h, t, u, p} \subseteq member /\ member \subseteq Node /\ d \in Node \ member
      /\ h # t /\ t # u /\ h # u
  BY DEF Patch
<1>2. n = h /\ predecessor[h] = d /\ leave \notin net /\ successor[h] = t
  <2>1. n = h /\ predecessor[h] = d
    BY <1>1 DEF Healing, RemovePredecessor
  <2> QED
    BY <2>1 DEF Healing, Edge
<1>3. /\ K[h] \subseteq f["store"] /\ K[d] \subseteq f["copy1"] /\ K[p] \subseteq f["copy2"]
      /\ K[h] \subseteq files[t]["copy1"] /\ K[d] \subseteq files[t]["copy2"]
      /\ K[h] \subseteq files[u]["copy2"]
  BY <1>2 DEF Healing
<1>4. /\ UNCHANGED <<member, successor>>
      /\ predecessor' = [predecessor EXCEPT ![h] = h]
      /\ files' = [files EXCEPT ![h] = g]
      /\ net' = net \cup CopyRemote(f["copy2"], "temp", t) \cup {leave}
  BY <1>2 DEF RemovePredecessor
<1>5. files \in Shelves(keys) /\ f \in [Dir -> SUBSET keys]
  BY <1>1 DEF Healing, Shelves
<1>6. /\ g \in [Dir -> SUBSET keys] /\ g["store"] = f["store"] \cup f["copy1"]
      /\ g["copy1"] = f["copy2"]
  BY <1>5 DEF Dir
<1>7. leave.type = "LEAVESUCC"
  BY DEF Message
<1> HIDE DEF g, leave
<1>8. /\ files' \in Shelves(keys) /\ files'[h] = g
      /\ \A x \in Node \ {h} : files'[x] = files[x]
  BY <1>1, <1>4, <1>5, <1>6, ShelvesKept DEF Shelves
<1>9. K[p] \subseteq Due(t, "temp")'
  <2>1. f["copy2"] \subseteq Coming(t, "temp")'
    BY <1>4, FilesSent
  <2> QED
    BY <1>3, <2>1 DEF Due
<1>10. /\ predecessor' \in [Node -> Node] /\ predecessor'[h] = h
       /\ \A x \in member \ {h} : predecessor'[x] = predecessor[x]
  BY <1>1, <1>4 DEF Healing
<1>11. Edge(h, t)' /\ Edge(t, u)'
  BY <1>1, <1>4, <1>10 DEF Healing, Edge
<1>12. \A m \in net' : \/ m = leave
                       \/ m.type = "FILE" /\ m.arg.key \in keys /\ m.arg.dir \in Dir
  <2>1. \A m \in CopyRemote(f["copy2"], "temp", t) :
          m.type = "FILE" /\ m.arg.key \in keys /\ m.arg.dir \in Dir
    <3>1. f["copy2"] \in SUBSET keys /\ "temp" \in Dir
      BY <1>5 DEF Dir
    <3> HIDE DEF f
    <3> QED
      BY <3>1, CopiesCarried
  <2> QED
    BY <1>4, <2>1 DEF Healing, leave
<1>13. /\ \A x \in member \ {h} : place[x]["store"] \subseteq files'[x]["store"]
       /\ \A x \in member \ {h, t} : place[x]["copy1"] \subseteq files'[x]["copy1"]
       /\ \A x \in member \ {h, t, u} : place[x]["copy2"] \subseteq files'[x]["copy2"]
  <2>1. \A x \in member \ {h} : files'[x] = files[x]
    BY <1>1, <1>8
  <2> QED
    BY <2>1 DEF Healing
<1>14. /\ K[h] \subseteq files'[h]["store"] /\ K[d] \subseteq files'[h]["store"]
       /\ K[p] \subseteq files'[h]["copy1"]
       /\ K[h] \subseteq files'[t]["copy1"] /\ K[d] \subseteq files'[t]["copy2"]
       /\ K[h] \subseteq files'[u]["copy2"]
  <2>1. files'[h] = g /\ files'[t] = files[t] /\ files'[u] = files[u]
    BY <1>1, <1>8
  <2> QED
    BY <1>3, <1>6, <2>1
<1>15. /\ successor' \in [Node -> Node] /\ \A x \in member \ {h} : predecessor'[x] \in member
       /\ predecessor'[h] # d /\ predecessor'[h] \in member
       /\ leave \in net'
  BY <1>1, <1>4, <1>10 DEF Healing
<1>16. /\ Shelves(keys)' = Shelves(keys) /\ Placement(member, keys)' = place /\ member' = member
  BY <1>4 DEF Shelves, Placement
<1> QED
  BY <1>8, <1>9, <1>10, <1>11, <1>12, <1>13, <1>14, <1>15, <1>16 DEF Healing, leave

\* handleLeaveSucc: what has come to copy2/temp/ by then becomes second copies, what comes
\* later stays there.
LEMMA HealSecond ==
  ASSUME NEW d, NEW keys, NEW h, NEW t, NEW u, NEW p, NEW K,
         Patch(d, keys, h, t, u, p, K), Healing(d, keys, h, t, u, p, K),
         NEW m \in net, HandleLeaveSucc(m)
  PROVE  Healing(d, keys, h, t, u, p, K)'
<1> DEFINE leave == Message("LEAVESUCC", t, 0)
           place == Placement(member, keys)
           f == files[t]
           g == [f EXCEPT !["copy1"] = f["copy1"] \cup f["copy2"], !["copy2"] = f["temp"],
                          !["temp"] = {}]
<1>1. /\ {h, t, u, p} \subseteq member /\ member \subseteq Node
      /\ h # t /\ t # u /\ h # u
  BY DEF Patch
<1>2. leave.type = "LEAVESUCC" /\ leave.to = t
  BY DEF Message
<1>3. m.type = "LEAVESUCC"
  BY DEF HandleLeaveSucc
<1> HIDE DEF leave
<1>4. m = leave /\ leave \in net
  BY <1>3 DEF Healing, leave
<1>5. predecessor[h] # d /\ successor[t] = u
  BY <1>4 DEF Healing, Edge, leave
<1>6. /\ K[h] \subseteq files[h]["store"] /\ K[d] \subseteq files[h]["store"]
      /\ K[p] \subseteq files[h]["copy1"]
      /\ K[h] \subseteq f["copy1"] /\ K[d] \subseteq f["copy2"]
      /\ K[p] \subseteq f["temp"] \cup Coming(t, "temp")
      /\ K[h] \subseteq files[u]["copy2"]
  <2>1. K[p] \subseteq Due(t, "temp")
    BY <1>4, <1>5 DEF Healing, leave
  <2> QED
    BY <1>4, <1>5, <2>1 DEF Healing, leave, Due
<1>7. /\ UNCHANGED <<member, predecessor, successor>>
      /\ files' = [files EXCEPT ![t] = g]
      /\ net' = (net \ {leave}) \cup CopyRemote(f["copy2"], "copy2", u)
  BY <1>2, <1>4, <1>5 DEF HandleLeaveSucc, ringVars
<1>8. files \in Shelves(keys) /\ f \in [Dir -> SUBSET keys]
  BY <1>1 DEF Healing, Shelves
<1>9. /\ g \in [Dir -> SUBSET keys] /\ g["copy1"] = f["copy1"] \cup f["copy2"]
      /\ g["copy2"] = f["temp"] /\ g["store"] = f["store"]
  BY <1>8 DEF Dir
<1> HIDE DEF g
<1>10. /\ files' \in Shelves(keys) /\ files'[t] = g
       /\ \A x \in Node \ {t} : files'[x] = files[x]
  BY <1>1, <1>7, <1>8, <1>9, ShelvesKept DEF Shelves
<1>11. K[d] \subseteq Due(u, "copy2")'
  <2>1. f["copy2"] \subseteq Coming(u, "copy2")'
    BY <1>7, FilesSent
  <2> QED
    BY <1>6, <2>1 DEF Due
<1>12. Coming(t, "temp") \subseteq Coming(t, "temp")'
  <2> SUFFICES ASSUME NEW k \in Coming(t, "temp")
               PROVE  k \in Coming(t, "temp")'
    OBVIOUS
  <2>1. PICK o \in net : o.type = "FILE" /\ o.to = t /\ o.arg.dir = "temp" /\ o.arg.key = k
    BY ComingIs
  <2>2. o \in net'
    BY <1>2, <1>7, <2>1
  <2> QED
    BY <2>1, <2>2 DEF Coming
<1>13. \A o \in net' : o.type = "FILE" /\ o.arg.key \in keys /\ o.arg.dir \in Dir
  <2>1. \A o \in CopyRemote(f["copy2"], "copy2", u) :
          o.type = "FILE" /\ o.arg.key \in keys /\ o.arg.dir \in Dir
    BY <1>8, CopiesCarried DEF Dir
  <2> QED
    BY <1>7, <2>1 DEF Healing, leave
<1>14. /\ \A x \in member \ {h} : place[x]["store"] \subseteq files'[x]["store"]
       /\ \A x \in member \ {h, t} : place[x]["copy1"] \subseteq files'[x]["copy1"]
       /\ \A x \in member \ {h, t, u} : place[x]["copy2"] \subseteq files'[x]["copy2"]
  <2>1. \A x \in member : /\ x # t => files'[x] = files[x]
                          /\ files'[x]["store"] = files[x]["store"]
    BY <1>1, <1>9, <1>10
  <2>2. /\ \A x \in member \ {h} : place[x]["store"] \subseteq files[x]["store"]
        /\ \A x \in member \ {h, t} : place[x]["copy1"] \subseteq files[x]["copy1"]
        /\ \A x \in member \ {h, t, u} : place[x]["copy2"] \subseteq files[x]["copy2"]
    BY DEF Healing
  <2> HIDE DEF place
  <2> QED
    BY <2>1, <2>2
<1>15. /\ K[h] \subseteq files'[h]["store"] /\ K[d] \subseteq files'[h]["store"]
       /\ K[p] \subseteq files'[h]["copy1"]
       /\ K[h] \subseteq files'[t]["copy1"] /\ K[d] \subseteq files'[t]["copy1"]
       /\ K[p] \subseteq files'[t]["copy2"] \cup Due(t, "temp")'
       /\ K[h] \subseteq files'[u]["copy2"]
  <2>1. files'[t] = g /\ files'[h] = files[h] /\ files'[u] = files[u]
    BY <1>1, <1>10
  <2>2. K[p] \subseteq g["copy2"] \cup Due(t, "temp")'
    BY <1>6, <1>9, <1>12 DEF Due
  <2> QED
    BY <1>6, <1>9, <2>1, <2>2
<1>16. leave \notin net'
  BY <1>2, <1>13
<1>17. Edge(h, t)' /\ Edge(t, u)'
  BY <1>7 DEF Healing, Edge
<1>18. /\ successor' \in [Node -> Node] /\ predecessor' \in [Node -> Node]
       /\ \A x \in member \ {h} : predecessor'[x] \in member
       /\ predecessor'[h] # d /\ predecessor'[h] \in member \cup {d}
  BY <1>5, <1>7 DEF Healing
<1>19. /\ Shelves(keys)' = Shelves(keys) /\ Placement(member, keys)' = place /\ member' = member
  BY <1>7 DEF Shelves, Placement
<1> QED
  BY <1>10, <1>11, <1>13, <1>14, <1>15, <1>16, <1>17, <1>18, <1>19 DEF Healing, leave

\* Every step after the departure that loses nothing.
LEMMA HealingStep ==
  ASSUME change = "departure", NEW d, NEW keys, NEW h, NEW t, NEW u, NEW p, NEW K,
         Patch(d, keys, h, t, u, p, K), Healing(d, keys, h, t, u, p, K),
         TransferNext, \A m \in net : ~Lose(m)
  PROVE  /\ change' = "departure" /\ Patch(d, keys, h, t, u, p, K)'
         /\ Healing(d, keys, h, t, u, p, K)'
<1>1. ASSUME NEW n \in Node, Join(n) \/ Depart(n)
      PROVE  FALSE
  BY <1>1 DEF Join, Depart
<1>2. /\ member \subseteq Node /\ {h, t, u, p} \subseteq member /\ d \in Node \ member
      /\ h = NextAfter(d, member) /\ d \in Id
  BY TransferAssumption DEF Patch
<1>3. /\ files \in Shelves(keys) /\ predecessor \in [Node -> Node]
      /\ successor \in [Node -> Node] /\ Edge(h, t) /\ Edge(t, u)
      /\ \A x \in Node, e \in Dir : files[x][e] \subseteq keys
  BY DEF Healing, Shelves
<1>4. ASSUME NEW m \in net, HandleSuccOne(m) \/ HandleSuccTwo(m) \/ HandleSuccThree(m)
      PROVE  FALSE
  <2>1. m.type \in {"LEAVESUCC", "FILE"}
    BY DEF Healing, Message
  <2> QED
    BY <1>4, <2>1 DEF HandleSuccOne, HandleSuccTwo, HandleSuccThree
<1>5. Shelves(keys)' = Shelves(keys)
  BY DEF Shelves
<1>6. ASSUME NEW n \in Node, CheckPeer(n)
      PROVE  Healing(d, keys, h, t, u, p, K)'
  <2>1. /\ UNCHANGED <<member, successor, predecessor, files>> /\ net \subseteq net'
        /\ net' \subseteq net \cup CopyRemote(files[n]["copy1"], "copy2", successor[n])
    BY <1>6 DEF CheckPeer, ringVars
  <2>2. \A m \in net' : \/ m \in net
                        \/ m.type = "FILE" /\ m.arg.key \in keys /\ m.arg.dir \in Dir
    <3>1. "copy1" \in Dir /\ "copy2" \in Dir /\ files[n]["copy1"] \in SUBSET keys
      BY <1>3 DEF Dir
    <3>2. \A m \in CopyRemote(files[n]["copy1"], "copy2", successor[n]) :
            m.type = "FILE" /\ m.arg.key \in keys /\ m.arg.dir \in Dir
      <4>1. PICK ks, y : ks = files[n]["copy1"] /\ y = successor[n]
        OBVIOUS
      <4>2. ks \in SUBSET keys
        BY <3>1, <4>1
      <4>3. \A m \in CopyRemote(ks, "copy2", y) :
              m.type = "FILE" /\ m.arg.key \in keys /\ m.arg.dir \in Dir
        BY <3>1, <4>2, CopiesCarried
      <4> QED
        BY <4>1, <4>3
    <3> QED
      BY <2>1, <3>2
  <2>3. Edge(h, t)' /\ Edge(t, u)'
    BY <1>3, <2>1 DEF Edge
  <2> QED
    BY <1>3, <2>1, <2>2, <2>3, HealGrows
<1>7. ASSUME NEW n \in Node, RemoveSuccessor(n)
      PROVE  Healing(d, keys, h, t, u, p, K)'
  <2>1. /\ UNCHANGED <<member, predecessor, files, net>> /\ successor[n] \notin member
        /\ successor' = [successor EXCEPT ![n] = n]
    BY <1>7 DEF RemoveSuccessor
  <2>2. successor' \in [Node -> Node] /\ Edge(h, t)' /\ Edge(t, u)'
    BY <1>2, <1>3, <2>1 DEF Edge
  <2> QED
    BY <1>3, <2>1, <2>2, HealGrows
<1>8. ASSUME NEW n \in Node, Stabilize(n)
      PROVE  Healing(d, keys, h, t, u, p, K)'
  <2>1. UNCHANGED <<member, files, net>>
    BY <1>8 DEF Stabilize
  <2>2. /\ predecessor' \in [Node -> Node]
        /\ \A x \in Node : predecessor'[x] \in member \/ predecessor'[x] = predecessor[x]
        /\ predecessor[h] = d => predecessor'[h] = d
    BY <1>2, <1>3, <1>8, NotifyPredecessors
  <2>3. successor' \in [Node -> Node] /\ Edge(h, t)' /\ Edge(t, u)'
    BY <1>2, <1>3, <1>8, NotifyNeighbours
  <2> QED
    BY <1>3, <2>1, <2>2, <2>3, HealGrows
<1>9. ASSUME NEW m \in net, m.to \in member, HandleFile(m)
      PROVE  Healing(d, keys, h, t, u, p, K)'
  <2> DEFINE g == [files[m.to] EXCEPT ![m.arg.dir] = files[m.to][m.arg.dir] \cup {m.arg.key}]
  <2>1. /\ m.type = "FILE" /\ net' = net \ {m}
        /\ UNCHANGED <<member, successor, predecessor>>
    BY <1>9 DEF HandleFile, ringVars
  <2>2. m.to \in Node /\ m.arg.key \in keys /\ m.arg.dir \in Dir
    <3>1. Message("LEAVESUCC", t, 0).type = "LEAVESUCC"
      BY DEF Message
    <3> QED
      BY <1>2, <1>9, <2>1, <3>1 DEF Healing
  <2>3. files' = [files EXCEPT ![m.to] = g]
    <3>1. files' = [files EXCEPT ![m.to][m.arg.dir] = @ \cup {m.arg.key}]
      BY <1>9 DEF HandleFile
    <3> QED
      BY <3>1
  <2>4. /\ g \in [Dir -> SUBSET keys] /\ m.arg.key \in g[m.arg.dir]
        /\ \A e \in Dir : files[m.to][e] \subseteq g[e]
    BY <1>3, <2>2 DEF Shelves
  <2> HIDE DEF g
  <2>5. files' \in Shelves(keys) /\ \A x \in Node : files'[x] = IF x = m.to THEN g ELSE files[x]
    BY <1>3, <2>2, <2>3, <2>4, ShelvesKept DEF Shelves
  <2>6. /\ \A x \in Node, e \in Dir : files[x][e] \subseteq files'[x][e]
        /\ m.arg.key \in files'[m.to][m.arg.dir]
    BY <2>2, <2>4, <2>5
  <2>7. Edge(h, t)' /\ Edge(t, u)'
    BY <1>3, <2>1 DEF Edge
  <2> QED
    BY <1>3, <2>1, <2>5, <2>6, <2>7, HealGrows
<1>10. Healing(d, keys, h, t, u, p, K)'
  BY <1>1, <1>4, <1>6, <1>7, <1>8, <1>9, HealPredecessor, HealSecond DEF TransferNext, Handle
<1>11. change' = "departure" /\ member' = member
  BY <1>1, <1>4 DEF TransferNext, Handle, CheckPeer, RemovePredecessor, RemoveSuccessor,
     Stabilize, HandleFile, HandleLeaveSucc, ringVars
<1>12. Placement(member, keys)' = Placement(member, keys)
  BY <1>11 DEF Placement
<1>13. Patch(d, keys, h, t, u, p, K)'
  BY <1>11, <1>12 DEF Patch
<1> QED
  BY <1>10, <1>11, <1>13

\* The departure itself.
LEMMA HealingStarts ==
  ASSUME change = "none", Orderly, NEW d \in Node, Depart(d)
  PROVE  /\ change' = "departure"
         /\ \E keys \in SUBSET Key : \E h, t, u, p \in Node : \E K \in [Node -> SUBSET keys] :
              Patch(d, keys, h, t, u, p, K)' /\ Healing(d, keys, h, t, u, p, K)'
<1>0. PICK N : N = member
  OBVIOUS
<1>1. PICK keys \in SUBSET Key : files = Placement(N, keys)
  BY <1>0 DEF Orderly
<1>2. PICK M : M = N \ {d}
  OBVIOUS
<1>3. /\ N \subseteq Node /\ d \in N /\ Cardinality(N) > 3 /\ member' = M
      /\ change' = "departure"
      /\ UNCHANGED <<successor, predecessor, owes, files, net>>
  BY <1>0, <1>2 DEF Depart, Orderly
<1>4. M \in SUBSET Node /\ Many(M) /\ d \in Node \ M /\ N = M \cup {d}
  <2>1. IsFiniteSet(N) /\ Cardinality(N) \in Nat
    BY <1>3, NodesFinite, FS_Subset, FS_CardinalityType
  <2>2. IsFiniteSet(M) /\ Cardinality(M) = Cardinality(N) - 1
    BY <1>2, <1>3, <2>1, FS_RemoveElement
  <2>3. Many(M)
    BY <1>3, <2>1, <2>2, ManyAreThree
  <2> QED
    BY <1>2, <1>3, <2>3
<1>5. PICK h, t, u, p, q : Nearby(d, M, h, t, u, p, q)
  BY DEF Nearby
<1>6. PICK F : F = [k \in keys |-> Owner(k, N)]
  OBVIOUS
<1>7. PICK K, rest : K = Shares(F, keys) /\ rest = Placement(M, keys)
  OBVIOUS
<1>8. M \in SUBSET Id /\ M # {} /\ d \in Id \ M /\ N \in SUBSET Id
  BY <1>4, TransferAssumption DEF Many
<1>9. /\ {h, t, u, p} \subseteq M /\ h # t /\ t # u /\ h # u
      /\ K \in [Node -> SUBSET keys]
      /\ Triple(files[h], K[h], K[d], K[p])
      /\ Triple(files[t], K[t], K[h], K[d]) /\ Triple(files[u], K[u], K[t], K[h])
      /\ Triple(rest[h], K[h] \cup K[d], K[p], K[q])
      /\ Triple(rest[t], K[t], K[h] \cup K[d], K[p])
      /\ Triple(rest[u], K[u], K[t], K[h] \cup K[d])
      /\ \A x \in M \ {h, t, u} : files[x] = rest[x]
  <2>1. \A k \in keys : F[k] = Owner(k, N)
    BY <1>6
  <2>2. files = PlacedFrom(F, M \cup {d}, keys)
    BY <1>1, <1>4, <2>1, OwnersPlace
  <2>3. \A k \in keys : k \in Id /\ Owner(k, N) \in N
    BY <1>3, <1>8, TransferAssumption, NeighboursExist DEF Owner
  <2>4. \A k \in keys : Owner(k, M) = IF F[k] = d THEN h ELSE F[k]
    BY <1>4, <1>5, <1>8, <2>1, <2>3, OwnerWithout DEF Nearby
  <2>5. \A k \in keys : F[k] \in M \cup {d}
    BY <1>4, <2>1, <2>3
  <2>6. Around(d, M, keys, F, h, t, u, p, q, K)
    BY <1>4, <1>5, <1>7, <2>4, <2>5, TwoRings
  <2>7. PICK with : with = PlacedFrom(F, M \cup {d}, keys)
    OBVIOUS
  <2>8. /\ {h, t, u, p} \subseteq M /\ h # t /\ t # u /\ h # u
        /\ K \in [Node -> SUBSET keys]
        /\ Triple(with[h], K[h], K[d], K[p])
        /\ Triple(with[t], K[t], K[h], K[d]) /\ Triple(with[u], K[u], K[t], K[h])
        /\ Triple(rest[h], K[h] \cup K[d], K[p], K[q])
        /\ Triple(rest[t], K[t], K[h] \cup K[d], K[p])
        /\ Triple(rest[u], K[u], K[t], K[h] \cup K[d])
        /\ \A x \in M \ {h, t, u} : rest[x] = with[x]
    BY <1>7, <2>6, <2>7 DEF Around
  <2>9. files = with
    BY <2>2, <2>7
  <2> QED
    BY <2>8, <2>9
<1>10. h = NextAfter(d, M) /\ t = NextAfter(h, M) /\ u = NextAfter(t, M)
  BY <1>5 DEF Nearby
<1>11. Patch(d, keys, h, t, u, p, K)'
  <2>1. Placement(member, keys)' = rest
    BY <1>3, <1>7 DEF Placement
  <2> QED
    BY <1>3, <1>4, <1>9, <1>10, <2>1 DEF Patch, Triple
<1>12. /\ predecessor = [x \in Node |-> NextBefore(x, N)]
       /\ successor = [x \in Node |-> NextAfter(x, N)] /\ net = {}
  BY <1>0 DEF Orderly
<1>13. /\ \A x \in Node : NextBefore(x, N) \in N /\ NextAfter(x, N) \in N
       /\ \A x, y \in N : NextAfter(x, N) = y <=> NextBefore(y, N) = x
  BY <1>3, <1>8, TransferAssumption, NeighboursExist, NextIsBack
<1>14. /\ NextBefore(h, N) = d
       /\ \A x \in M \ {h} : NextBefore(x, N) = NextBefore(x, M)
  BY <1>4, <1>5, <1>8, GapCloses DEF Nearby
<1>15. predecessor \in [Node -> Node] /\ successor \in [Node -> Node]
  BY <1>3, <1>12, <1>13
<1>16. h \in Node /\ predecessor[h] = d
  BY <1>4, <1>9, <1>12, <1>14
<1>17. ASSUME NEW x \in M \ {h}
       PROVE  predecessor[x] \in M
  <2>1. x \in Node /\ x \in Id /\ NextBefore(x, N) = NextBefore(x, M)
    BY <1>4, <1>8, <1>14
  <2> QED
    BY <1>8, <1>12, <2>1, NeighboursExist
<1>18. ASSUME NEW a \in M, NEW b \in M \ {h}, b = NextAfter(a, M), a # b
       PROVE  Edge(a, b)'
  <2>1. NextBefore(b, M) = a
    BY <1>8, <1>18, NextIsBack
  <2>2. a \in Node /\ b \in Node /\ a \in N /\ b \in N /\ NextBefore(b, N) = a
    BY <1>4, <1>14, <2>1
  <2>3. NextAfter(a, N) = b
    BY <1>13, <2>2
  <2> QED
    BY <1>3, <1>12, <1>18, <2>2, <2>3 DEF Edge
<1>19. Edge(h, t)' /\ Edge(t, u)'
  BY <1>9, <1>10, <1>18
<1>20. files' \in Shelves(keys) /\ Shelves(keys)' = Shelves(keys)
  BY <1>1, <1>3, PlacementShelves DEF Shelves
<1>21. /\ \A x \in M \ {h} : rest[x]["store"] \subseteq files[x]["store"]
       /\ \A x \in M \ {h, t} : rest[x]["copy1"] \subseteq files[x]["copy1"]
       /\ \A x \in M \ {h, t, u} : rest[x]["copy2"] \subseteq files[x]["copy2"]
  <2>1. \A x \in M \ {h, t, u} : files[x] = rest[x]
    BY <1>9
  <2>2. /\ rest[t]["store"] = files[t]["store"] /\ rest[u]["store"] = files[u]["store"]
        /\ rest[u]["copy1"] = files[u]["copy1"]
    BY <1>9 DEF Triple
  <2> QED
    BY <2>1, <2>2
<1>22. /\ K[h] \subseteq files[h]["store"] /\ K[d] \subseteq files[h]["copy1"]
       /\ K[p] \subseteq files[h]["copy2"] /\ K[h] \subseteq files[t]["copy1"]
       /\ K[d] \subseteq files[t]["copy2"] /\ K[h] \subseteq files[u]["copy2"]
  BY <1>9 DEF Triple
<1>23. Healing(d, keys, h, t, u, p, K)'
  <2>1. Placement(member, keys)' = rest
    BY <1>3, <1>7 DEF Placement
  <2> QED
    BY <1>3, <1>12, <1>15, <1>16, <1>17, <1>19, <1>20, <1>21, <1>22, <2>1 DEF Healing
<1> QED
  BY <1>3, <1>4, <1>9, <1>11, <1>23

\* Every file is somewhere, and no other is anywhere.
LEMMA FilesFound ==
  ASSUME member \in SUBSET Node, NEW keys \in SUBSET Key,
         files \in Shelves(keys),
         \A k \in keys : \E x \in member, e \in Dir : k \in files[x][e]
  PROVE  Present = keys
<1>1. ASSUME NEW k \in keys
      PROVE  k \in Present
  BY <1>1 DEF Present, Everywhere
<1>2. ASSUME NEW o \in member, NEW k \in Everywhere(o)
      PROVE  k \in keys
  BY DEF Everywhere, Shelves
<1> QED
  BY <1>1, <1>2 DEF Present

\* When the heir has missed d and nothing is on its way, the files are where they belong,
\* but for the third copies of one owner's, which the heir should have.
LEMMA HealingEnds ==
  ASSUME NEW d, NEW keys, NEW h, NEW t, NEW u, NEW p, NEW K,
         Patch(d, keys, h, t, u, p, K), Healing(d, keys, h, t, u, p, K)
  PROVE  DepartureRestores
<1> SUFFICES ASSUME net = {}, \A n \in member : predecessor[n] \in member
             PROVE  LET place == Placement(member, Present)
                    IN  /\ \A n \in member : /\ place[n]["store"] \subseteq files[n]["store"]
                                             /\ place[n]["copy1"] \subseteq files[n]["copy1"]
                        /\ \E poor \in member : \A n \in member : \A k \in place[n]["copy2"] :
                             Owner(k, member) # poor => k \in files[n]["copy2"] \cup files[n]["temp"]
  BY DEF DepartureRestores
<1>0. PICK place, poor : place = Placement(member, keys)
                         /\ poor = NextBefore(NextBefore(h, member), member)
  OBVIOUS
<1>1. /\ {h, t, u, p} \subseteq member /\ member \subseteq Node /\ d \notin member
      /\ Many(member) /\ keys \in SUBSET Key
      /\ place[h]["store"] = K[h] \cup K[d] /\ place[h]["copy1"] = K[p]
      /\ place[t]["copy1"] = K[h] \cup K[d] /\ place[t]["copy2"] = K[p]
      /\ place[u]["copy2"] = K[h] \cup K[d]
  BY <1>0 DEF Patch
<1>2. predecessor[h] # d /\ Message("LEAVESUCC", t, 0) \notin net
  BY <1>1
<1>3. \A x, e : Due(x, e) = files[x][e]
  BY DEF Due, Coming
<1>4. /\ files \in Shelves(keys)
      /\ \A x \in member \ {h} : place[x]["store"] \subseteq files[x]["store"]
      /\ \A x \in member \ {h, t} : place[x]["copy1"] \subseteq files[x]["copy1"]
      /\ \A x \in member \ {h, t, u} : place[x]["copy2"] \subseteq files[x]["copy2"]
      /\ K[h] \subseteq files[h]["store"] /\ K[d] \subseteq files[h]["store"]
      /\ K[p] \subseteq files[h]["copy1"]
      /\ K[h] \subseteq files[t]["copy1"] /\ K[d] \subseteq files[t]["copy1"]
      /\ K[p] \subseteq files[t]["copy2"] \cup files[t]["temp"]
      /\ K[h] \subseteq files[u]["copy2"] /\ K[d] \subseteq files[u]["copy2"]
  BY <1>0, <1>2, <1>3 DEF Healing
<1>5. /\ \A x \in member : /\ place[x]["store"] \subseteq files[x]["store"]
                           /\ place[x]["copy1"] \subseteq files[x]["copy1"]
      /\ \A x \in member \ {h} : place[x]["copy2"] \subseteq files[x]["copy2"] \cup files[x]["temp"]
  BY <1>1, <1>4
<1>6. poor \in member /\ \A k \in place[h]["copy2"] : Owner(k, member) = poor
  <2>1. PICK F : F = [k \in keys |-> Owner(k, member)]
    OBVIOUS
  <2>2. \A k \in keys : F[k] = Owner(k, member) /\ F[k] \in member
    <3>1. member \in SUBSET Id /\ member # {} /\ keys \subseteq Id
      BY <1>1, TransferAssumption
    <3> QED
      BY <2>1, <3>1, NeighboursExist DEF Owner
  <2>3. place = PlacedFrom(F, member, keys)
    BY <1>0, <2>2, OwnersPlace
  <2>4. poor \in member /\ place[h]["copy2"] = Shares(F, keys)[poor]
    <3>1. PICK y, z : y = NextBefore(h, member) /\ z = NextBefore(y, member)
      OBVIOUS
    <3>2. member \in SUBSET Node /\ h \in member /\ \A k \in keys : F[k] \in member
      BY <1>1, <2>2
    <3>3. /\ z \in member
          /\ Triple(PlacedFrom(F, member, keys)[h], Shares(F, keys)[h], Shares(F, keys)[y],
                    Shares(F, keys)[z])
      BY <3>1, <3>2, PlacementOf
    <3>4. poor = z
      BY <1>0, <3>1
    <3> QED
      BY <2>3, <3>3, <3>4 DEF Triple
  <2>5. Shares(F, keys)[poor] = {k \in keys : F[k] = poor}
    BY <1>1, <2>4 DEF Shares
  <2> QED
    BY <2>2, <2>4, <2>5
<1>7. Present = keys
  <2>1. ASSUME NEW k \in keys
        PROVE  \E x \in member, e \in Dir : k \in files[x][e]
    <3>1. PICK x \in member : k \in place[x]["store"]
      BY <1>0, <1>1, ThreePlaces
    <3> QED
      BY <1>5, <3>1 DEF Dir
  <2> QED
    BY <1>1, <1>4, <2>1, FilesFound
<1>8. /\ \A n \in member : /\ place[n]["store"] \subseteq files[n]["store"]
                           /\ place[n]["copy1"] \subseteq files[n]["copy1"]
      /\ \A n \in member : \A k \in place[n]["copy2"] :
           Owner(k, member) # poor => k \in files[n]["copy2"] \cup files[n]["temp"]
  BY <1>5, <1>6
<1> QED
  BY <1>0, <1>6, <1>7, <1>8

----------------------------------------------------------------------------
\* Where the files go when n joins before s: those that it owns but that the comparison
\* misses stay with s.
JoinPlaces(n, s, N, keys) ==
  [k \in keys |-> IF Owner(k, N) = n /\ ~(k <= n /\ n < s) THEN s ELSE Owner(k, N)]

\* n has joined the ring M between p and s; of what s owned, the keys up to n are n's,
\* unless the circle ends between n and s.
Entry(n, M, keys, F, s, t, u, p, q, K) ==
  /\ M \subseteq Node /\ Many(M) /\ n \in Node \ M /\ keys \subseteq Key /\ member = M \cup {n}
  /\ s = NextAfter(n, M) /\ F = JoinPlaces(n, s, M \cup {n}, keys)
  /\ Ring(s, t, u)
  /\ Around(n, M, keys, F, s, t, u, p, q, K)
  /\ IF n < s THEN FileListNew(K[s] \cup K[n], n) = K[n] ELSE K[n] = {}

\* The only message of another kind than FILE.
Only(word) == word \in net /\ \A m \in net : m.type # "FILE" => m = word

\* The shifts come one after another at s, t and u; the files that n should have are there
\* or on their way.
Filling(n, M, keys, F, s, t, u, p, q, K) ==
  LET with == PlacedFrom(F, M \cup {n}, keys)
      rest == Placement(M, keys)
      word == [node |-> n, copy1 |-> K[p] # {}, store |-> K[n] # {}]
  IN  /\ files \in Shelves(keys)
      /\ \/ net = {UpdateForNewNodeAddition(n, s)} /\ files = rest
         \/ /\ \A m \in net : m.type = "FILE" =>
                                m.to = n /\ m.arg.key \in keys /\ m.arg.dir \in Dir
            /\ \A e \in Dir : Due(n, e) = with[n][e]
            /\ \A x \in M \ {t, u} : files[x] = with[x]
            /\ \/ Only(Message("SUCCTWO", t, word)) /\ files[t] = rest[t] /\ files[u] = rest[u]
               \/ /\ Only(Message("SUCCTHREE", u, n)) /\ K[n] # {}
                  /\ files[t] = with[t] /\ files[u] = rest[u]
               \/ (\A m \in net : m.type = "FILE") /\ files[t] = with[t] /\ files[u] = with[u]

\* As long as the ring stays as it is.
LEMMA EntryStays ==
  ASSUME NEW n, NEW M, NEW keys, NEW F, NEW s, NEW t, NEW u, NEW p, NEW q, NEW K,
         Entry(n, M, keys, F, s, t, u, p, q, K), member' = member, Ring(s, t, u)'
  PROVE  Entry(n, M, keys, F, s, t, u, p, q, K)'
<1>1. Around(n, M, keys, F, s, t, u, p, q, K)' = Around(n, M, keys, F, s, t, u, p, q, K)
  BY DEF Around, Placement, PlacedFrom, Triple
<1>2. FileListNew(K[s] \cup K[n], n)' = FileListNew(K[s] \cup K[n], n)
  BY DEF FileListNew
<1>3. JoinPlaces(n, s, M \cup {n}, keys)' = JoinPlaces(n, s, M \cup {n}, keys)
  BY DEF JoinPlaces
<1> QED
  BY <1>1, <1>2, <1>3 DEF Entry, Many

\* What getFileListNew takes for the newcomer's is the newcomer's.
LEMMA KeysBelow ==
  ASSUME NEW M \in SUBSET Id, M # {}, NEW n \in Id \ M, NEW k \in Id,
         Owner(k, M) = NextAfter(n, M), n < NextAfter(n, M), k <= n
  PROVE  Owner(k, M \cup {n}) = n
<1>0. PICK N, s : N = M \cup {n} /\ s = NextAfter(n, M)
  OBVIOUS
<1> SUFFICES ASSUME Owner(k, N) # n PROVE FALSE
  BY <1>0
<1>1. Owner(k, N) = s
  BY <1>0, OwnerWithout
<1>2. N \in SUBSET Id /\ n \in N /\ s \in M /\ s \in Id
  BY <1>0, NeighboursExist
<1>3. /\ 2^Bits \in Nat /\ s \in Nat /\ n \in Nat /\ k \in Nat
      /\ s < 2^Bits /\ n < 2^Bits /\ k < 2^Bits
  BY <1>2, WidthAssumption DEF Id
<1>4. CASE k \in N
  BY <1>0, <1>1, <1>3, <1>4 DEF Owner
<1>5. CASE k \notin N
  <2>1. NextAfter(k, N) = s /\ k # n
    BY <1>1, <1>2, <1>5 DEF Owner
  <2>2. Dist(k, s) <= Dist(k, n)
    BY <1>2, <2>1, NeighboursExist
  <2>3. Dist(k, s) = s - k /\ Dist(k, n) = n - k
    BY <1>0, <1>3, <2>1 DEF Dist
  <2> QED
    BY <1>0, <1>3, <2>2, <2>3
<1> QED
  BY <1>4, <1>5

\* The places of the files when n joins, and before that.
JoinSplits(n, M, keys, s, F, K) ==
  /\ \A k \in keys : F[k] \in M \cup {n}
  /\ \A k \in keys : Owner(k, M) = IF F[k] = n THEN s ELSE F[k]
  /\ IF n < s THEN FileListNew(K[s] \cup K[n], n) = K[n] ELSE K[n] = {}

LEMMA JoinKeys ==
  ASSUME NEW M, M \in SUBSET Node, Many(M), NEW n, n \in Node \ M, NEW keys, keys \in SUBSET Key,
         NEW s, s = NextAfter(n, M), NEW F, F = JoinPlaces(n, s, M \cup {n}, keys),
         NEW K, K = Shares(F, keys)
  PROVE  JoinSplits(n, M, keys, s, F, K)
<1>0. PICK N : N = M \cup {n}
  OBVIOUS
<1>1. /\ M \in SUBSET Id /\ M # {} /\ n \in Id \ M /\ N \in SUBSET Id /\ N # {}
      /\ keys \subseteq Id
  BY <1>0, TransferAssumption DEF Many
<1>2. s \in M /\ s # n /\ s \in Node
  BY <1>1, NeighboursExist
<1>3. ASSUME NEW k \in keys
      PROVE  /\ F[k] \in N /\ Owner(k, M) = IF F[k] = n THEN s ELSE F[k]
             /\ F[k] = n <=> Owner(k, N) = n /\ k <= n /\ n < s
             /\ F[k] = s \/ F[k] = n <=> Owner(k, M) = s
  <2>1. Owner(k, N) \in N
    BY <1>1, NeighboursExist DEF Owner
  <2>2. Owner(k, M) = IF Owner(k, N) = n THEN s ELSE Owner(k, N)
    BY <1>0, <1>1, OwnerWithout
  <2>3. F[k] = IF Owner(k, N) = n /\ ~(k <= n /\ n < s) THEN s ELSE Owner(k, N)
    BY <1>0 DEF JoinPlaces
  <2> QED
    BY <1>0, <1>2, <2>1, <2>2, <2>3
<1>4. K[n] = {k \in keys : F[k] = n} /\ K[s] = {k \in keys : F[k] = s}
  BY <1>2 DEF Shares
<1>5. CASE n < s
  <2>1. ASSUME NEW k \in keys, Owner(k, M) = s, k <= n
        PROVE  Owner(k, N) = n
    BY <1>0, <1>1, <1>5, <2>1, KeysBelow
  <2>2. \A k \in keys : (F[k] = s \/ F[k] = n) /\ k <= n <=> F[k] = n
    BY <1>3, <1>5, <2>1
  <2> QED
    BY <1>0, <1>3, <1>4, <1>5, <2>2 DEF FileListNew, JoinSplits
<1>6. CASE ~(n < s)
  BY <1>0, <1>3, <1>4, <1>6 DEF JoinSplits
<1> QED
  BY <1>5, <1>6

\* The join itself.
LEMMA FillingStarts ==
  ASSUME change = "none", Orderly, Many(member), NEW n \in Node, Join(n)
  PROVE  /\ change' = "join"
         /\ \E M \in SUBSET Node : \E keys \in SUBSET Key : \E F \in [keys -> Node] :
              \E s, t, u, p, q \in Node : \E K \in [Node -> SUBSET keys] :
                /\ Entry(n, M, keys, F, s, t, u, p, q, K)'
                /\ Filling(n, M, keys, F, s, t, u, p, q, K)'
<1>0. PICK M \in SUBSET Node : M = member
  BY DEF Orderly
<1>1. PICK keys \in SUBSET Key : files = Placement(M, keys)
  BY <1>0 DEF Orderly
<1>2. PICK s, t, u, p, q : Nearby(n, M, s, t, u, p, q)
  BY DEF Nearby
<1>3. PICK F : F = JoinPlaces(n, s, M \cup {n}, keys)
  OBVIOUS
<1>4. PICK K : K = Shares(F, keys)
  OBVIOUS
<1>5. n \in Node \ M /\ Many(M) /\ s = NextAfter(n, M)
  BY <1>0, <1>2 DEF Join, Nearby
<1>6. /\ \A k \in keys : F[k] \in M \cup {n}
      /\ \A k \in keys : Owner(k, M) = IF F[k] = n THEN s ELSE F[k]
      /\ IF n < s THEN FileListNew(K[s] \cup K[n], n) = K[n] ELSE K[n] = {}
  <2>1. M \in SUBSET Node /\ keys \in SUBSET Key
    OBVIOUS
  <2>2. JoinSplits(n, M, keys, s, F, K)
    BY <1>3, <1>4, <1>5, <2>1, JoinKeys, Zenon
  <2> QED
    BY <2>2 DEF JoinSplits
<1>7. Around(n, M, keys, F, s, t, u, p, q, K)
  BY <1>2, <1>4, <1>5, <1>6, TwoRings
<1>8. {s, t, u, p, q} \subseteq M /\ K \in [Node -> SUBSET keys]
  BY <1>7 DEF Around
<1>9. F \in [keys -> Node]
  <2>1. F = [k \in keys |-> F[k]]
    BY <1>3 DEF JoinPlaces
  <2> QED
    BY <1>5, <1>6, <2>1
<1>10. /\ change' = "join" /\ member' = M \cup {n} /\ files' = files
       /\ net' = net \cup {UpdateForNewNodeAddition(n, s)}
  BY <1>0, <1>5 DEF Join
<1>11. Ring(s, t, u)'
  <2>1. t = NextAfter(s, M) /\ u = NextAfter(t, M)
    BY <1>2 DEF Nearby
  <2> QED
    BY <1>0, <1>5, <2>1, JoinRing
<1>12. Entry(n, M, keys, F, s, t, u, p, q, K)'
  <2>1. Around(n, M, keys, F, s, t, u, p, q, K)' = Around(n, M, keys, F, s, t, u, p, q, K)
    BY DEF Around, Placement, PlacedFrom, Triple
  <2>2. FileListNew(K[s] \cup K[n], n)' = FileListNew(K[s] \cup K[n], n)
    BY DEF FileListNew
  <2>3. JoinPlaces(n, s, M \cup {n}, keys)' = F
    BY <1>3 DEF JoinPlaces
  <2> QED
    BY <1>5, <1>6, <1>7, <1>10, <1>11, <2>1, <2>2, <2>3 DEF Entry, Many
<1>13. Filling(n, M, keys, F, s, t, u, p, q, K)'
  <2>1. files' \in Shelves(keys)
    BY <1>1, <1>10, PlacementShelves
  <2>2. net' = {UpdateForNewNodeAddition(n, s)} /\ files' = Placement(M, keys)
    BY <1>1, <1>10 DEF Orderly
  <2>3. Shelves(keys)' = Shelves(keys) /\ Placement(M, keys)' = Placement(M, keys)
    BY DEF Shelves, Placement
  <2>4. UpdateForNewNodeAddition(n, s)' = UpdateForNewNodeAddition(n, s)
    BY DEF UpdateForNewNodeAddition, Message
  <2> QED
    BY <2>1, <2>2, <2>3, <2>4 DEF Filling
<1> QED
  <2>1. s \in Node /\ t \in Node /\ u \in Node /\ p \in Node /\ q \in Node
    BY <1>8
  <2> QED
    BY <1>8, <1>9, <1>10, <1>12, <1>13, <2>1

\* handleSuccOneForNodeAdd: all that n should have is sent to it, and t is told unless
\* there was nothing to send.
LEMMA FillFirst ==
  ASSUME NEW n, NEW M, NEW keys, NEW F, NEW s, NEW t, NEW u, NEW p, NEW q, NEW K,
         Entry(n, M, keys, F, s, t, u, p, q, K), Filling(n, M, keys, F, s, t, u, p, q, K),
         NEW m \in net, HandleSuccOne(m)
  PROVE  Filling(n, M, keys, F, s, t, u, p, q, K)'
<1>0. PICK with, rest : with = PlacedFrom(F, M \cup {n}, keys) /\ rest = Placement(M, keys)
  OBVIOUS
<1> DEFINE f == files[m.to]
           mine == IF m.arg < m.to THEN FileListNew(f["store"], m.arg) ELSE {}
           g == [f EXCEPT !["store"] = f["store"] \ mine,
                          !["copy1"] = mine, !["copy2"] = f["copy1"]]
           word == Message("SUCCTWO", t, [node |-> n, copy1 |-> K[p] # {}, store |-> K[n] # {}])
           sent == CopyRemote(K[q], "copy2", n) \cup CopyRemote(K[p], "copy1", n)
                     \cup CopyFilesToRemote(K[n], n)
<1>1. /\ {s, t, u, p, q} \subseteq M /\ s # t /\ t # u /\ s # u
      /\ M \subseteq Node /\ n \in Node \ M /\ K \in [Node -> SUBSET keys]
      /\ K[s] \cap K[n] = {}
      /\ IF n < s THEN FileListNew(K[s] \cup K[n], n) = K[n] ELSE K[n] = {}
      /\ Triple(with[n], K[n], K[p], K[q]) /\ Triple(with[s], K[s], K[n], K[p])
      /\ Triple(with[t], K[t], K[s], K[n]) /\ Triple(with[u], K[u], K[t], K[s])
      /\ Triple(rest[s], K[s] \cup K[n], K[p], K[q])
      /\ Triple(rest[t], K[t], K[s] \cup K[n], K[p])
      /\ Triple(rest[u], K[u], K[t], K[s] \cup K[n])
      /\ Triple(rest[n], {}, {}, {})
      /\ \A x \in M \ {s, t, u} : rest[x] = with[x]
      /\ successor[s] = t
  <2>1. Around(n, M, keys, F, s, t, u, p, q, K)
    BY DEF Entry
  <2>2. \A x, y \in Node : x # y => K[x] \cap K[y] = {}
    BY <2>1 DEF Around
  <2>3. {s, t, u, p, q} \subseteq M /\ M \subseteq Node /\ n \in Node \ M
    BY <2>1 DEF Around, Entry
  <2>4. K[s] \cap K[n] = {}
    BY <2>2, <2>3
  <2>5. successor[s] = t
    BY DEF Entry, Ring, Edge
  <2>6. IF n < s THEN FileListNew(K[s] \cup K[n], n) = K[n] ELSE K[n] = {}
    BY DEF Entry
  <2> QED
    BY <1>0, <2>1, <2>3, <2>4, <2>5, <2>6 DEF Around
<1>2. m.to = s /\ m.arg = n /\ net = {m} /\ files = rest /\ files \in Shelves(keys)
  <2>1. net = {UpdateForNewNodeAddition(n, s)} /\ files = rest
    BY <1>0 DEF Filling, Only, HandleSuccOne, Message
  <2> QED
    BY <2>1 DEF Filling, UpdateForNewNodeAddition, Message
<1>3. /\ files' = [files EXCEPT ![s] = g] /\ net' = Handover(m, f, mine)
      /\ UNCHANGED <<member, successor, predecessor, owes>>
  BY <1>2 DEF HandleSuccOne, ringVars
<1>4. /\ f["store"] = K[s] \cup K[n] /\ f["copy1"] = K[p] /\ f["copy2"] = K[q]
      /\ f["temp"] = {} /\ mine = K[n] /\ f \in [Dir -> SUBSET keys]
  BY <1>1, <1>2 DEF Triple, Shelves
<1> HIDE DEF mine
<1>5. g \in [Dir -> SUBSET keys] /\ Triple(g, K[s], K[n], K[p])
  <2>1. K[s] \subseteq keys /\ K[n] \subseteq keys /\ K[p] \subseteq keys
    BY <1>1
  <2>2. (K[s] \cup K[n]) \ K[n] = K[s]
    BY <1>1
  <2> HIDE DEF f
  <2> QED
    BY <1>4, <2>1, <2>2 DEF Triple, Dir
<1>6. net' = IF sent = {} THEN {} ELSE sent \cup {word}
  BY <1>1, <1>2, <1>3, <1>4 DEF Handover
<1>7. /\ \A o \in sent : /\ o.type = "FILE" /\ o.to = n
                         /\ \/ o.arg.dir = "copy2" /\ o.arg.key \in K[q]
                            \/ o.arg.dir = "copy1" /\ o.arg.key \in K[p]
                            \/ o.arg.dir = "store" /\ o.arg.key \in K[n]
      /\ \A k \in K[q] : \E o \in sent : o.arg.dir = "copy2" /\ o.arg.key = k
      /\ \A k \in K[p] : \E o \in sent : o.arg.dir = "copy1" /\ o.arg.key = k
      /\ \A k \in K[n] : \E o \in sent : o.arg.dir = "store" /\ o.arg.key = k
  <2>1. \A k, e : LET o == CopyToRemote(k, e, n)
                  IN  o.type = "FILE" /\ o.to = n /\ o.arg.dir = e /\ o.arg.key = k
    BY DEF CopyToRemote, Message
  <2> QED
    BY <2>1 DEF CopyRemote, CopyFilesToRemote
<1>8. word.type = "SUCCTWO"
  BY DEF Message
<1> HIDE DEF g, word, sent, f
<1>9. \A o : o.type = "FILE" => (o \in net' <=> o \in sent)
  BY <1>6, <1>8
<1>10. /\ files' \in Shelves(keys) /\ files'[s] = g
       /\ \A x \in Node \ {s} : files'[x] = rest[x]
  BY <1>1, <1>2, <1>3, <1>5, ShelvesKept DEF Shelves
<1>11. \A x \in Node : with[x] \in [Dir -> SUBSET keys] /\ rest[x] \in [Dir -> SUBSET keys]
  BY <1>0, PlacementShelves, PlacedShelves DEF Shelves
<1>12. files'[s] = with[s]
  <2>1. with[s] \in [Dir -> SUBSET keys]
    BY <1>1, <1>11
  <2> QED
    BY <1>1, <1>5, <1>10, <2>1, SameShelf
<1>13. \A o \in net' : o.type = "FILE" => o.to = n /\ o.arg.key \in keys /\ o.arg.dir \in Dir
  BY <1>1, <1>7, <1>9 DEF Dir
<1>14. ASSUME NEW e \in Dir
       PROVE  Due(n, e)' = with[n][e]
  <2>1. \A k : k \in Coming(n, e)' <=>
                 \E o \in net' : o.type = "FILE" /\ o.to = n /\ o.arg.dir = e /\ o.arg.key = k
    BY DEF Coming
  <2>2. \A k : k \in Coming(n, e)' <=> \E o \in sent : o.arg.dir = e /\ o.arg.key = k
    BY <1>7, <1>9, <2>1
  <2>3. \A k : k \in Coming(n, e)' <=> k \in with[n][e]
    <3>1. /\ with[n]["store"] = K[n] /\ with[n]["copy1"] = K[p] /\ with[n]["copy2"] = K[q]
          /\ with[n]["temp"] = {}
      BY <1>1 DEF Triple
    <3>2. CASE e = "store"
      BY <1>7, <2>2, <3>1, <3>2
    <3>3. CASE e = "copy1"
      BY <1>7, <2>2, <3>1, <3>3
    <3>4. CASE e = "copy2"
      BY <1>7, <2>2, <3>1, <3>4
    <3>5. CASE e = "temp"
      BY <1>7, <2>2, <3>1, <3>5
    <3> QED
      BY <3>2, <3>3, <3>4, <3>5 DEF Dir
  <2>4. files'[n][e] = {}
    BY <1>1, <1>10 DEF Triple, Dir
  <2> QED
    BY <2>3, <2>4 DEF Due
<1>15. \A x \in M \ {t, u} : files'[x] = with[x]
  BY <1>1, <1>10, <1>12
<1>16. files'[t] = rest[t] /\ files'[u] = rest[u]
  BY <1>1, <1>10
<1>17. \/ Only(word)'
       \/ (\A o \in net' : o.type = "FILE") /\ files'[t] = with[t] /\ files'[u] = with[u]
  <2>1. CASE sent = {}
    <3>1. K[p] = {} /\ K[n] = {} /\ net' = {}
      BY <1>6, <1>7, <2>1
    <3>2. Triple(with[t], K[t], K[s], {}) /\ Triple(rest[t], K[t], K[s], {})
      BY <1>1, <3>1
    <3>3. Triple(with[u], K[u], K[t], K[s]) /\ Triple(rest[u], K[u], K[t], K[s])
      BY <1>1, <3>1
    <3>4. t \in Node /\ u \in Node
      BY <1>1
    <3>5. with[t] = rest[t]
      BY <1>11, <3>2, <3>4, SameShelf
    <3>6. with[u] = rest[u]
      BY <1>11, <3>3, <3>4, SameShelf
    <3> QED
      BY <1>16, <3>1, <3>5, <3>6
  <2>2. CASE sent # {}
    <3>1. word \in net' /\ \A o \in net' : o.type # "FILE" => o = word
      BY <1>6, <1>7, <2>2
    <3>2. word' = word
      BY DEF word, Message
    <3> QED
      BY <3>1, <3>2 DEF Only
  <2> QED
    BY <2>1, <2>2
<1>18. /\ Shelves(keys)' = Shelves(keys) /\ Placement(M, keys)' = Placement(M, keys)
       /\ PlacedFrom(F, M \cup {n}, keys)' = PlacedFrom(F, M \cup {n}, keys)
  BY DEF Shelves, Placement, PlacedFrom
<1> QED
  BY <1>0, <1>10, <1>13, <1>14, <1>15, <1>16, <1>17, <1>18 DEF Filling, word

\* handleSuccTwoForNodeAdd at t: n's files become second copies.
LEMMA FillSecond ==
  ASSUME NEW n, NEW M, NEW keys, NEW F, NEW s, NEW t, NEW u, NEW p, NEW q, NEW K,
         Entry(n, M, keys, F, s, t, u, p, q, K), Filling(n, M, keys, F, s, t, u, p, q, K),
         NEW m \in net, HandleSuccTwo(m)
  PROVE  Filling(n, M, keys, F, s, t, u, p, q, K)'
<1>0. PICK with, rest : with = PlacedFrom(F, M \cup {n}, keys) /\ rest = Placement(M, keys)
  OBVIOUS
<1> DEFINE f == files[t]
           old == IF m.arg.copy1 THEN {} ELSE f["copy2"]
           mine == IF m.arg.store THEN FileListNew(f["copy1"], m.arg.node) ELSE {}
           g == [f EXCEPT !["copy1"] = f["copy1"] \ mine, !["copy2"] = old \cup mine]
           last == Message("SUCCTHREE", u, n)
<1>1. /\ {s, t, u, p, q} \subseteq M /\ s # t /\ t # u /\ s # u
      /\ M \subseteq Node /\ n \in Node \ M /\ K \in [Node -> SUBSET keys]
      /\ K[s] \cap K[n] = {} /\ (K[n] # {} => FileListNew(K[s] \cup K[n], n) = K[n])
      /\ Triple(with[t], K[t], K[s], K[n]) /\ Triple(with[u], K[u], K[t], K[s])
      /\ Triple(rest[t], K[t], K[s] \cup K[n], K[p])
      /\ Triple(rest[u], K[u], K[t], K[s] \cup K[n])
      /\ successor[t] = u
  <2>1. Around(n, M, keys, F, s, t, u, p, q, K)
    BY DEF Entry
  <2>2. \A x, y \in Node : x # y => K[x] \cap K[y] = {}
    BY <2>1 DEF Around
  <2>3. {s, t, u, p, q} \subseteq M /\ M \subseteq Node /\ n \in Node \ M
    BY <2>1 DEF Around, Entry
  <2>4. K[s] \cap K[n] = {}
    BY <2>2, <2>3
  <2>5. successor[t] = u
    BY DEF Entry, Ring, Edge
  <2>6. K[n] # {} => FileListNew(K[s] \cup K[n], n) = K[n]
    BY DEF Entry
  <2> QED
    BY <1>0, <2>1, <2>3, <2>4, <2>5, <2>6 DEF Around
<1>2. m.type = "SUCCTWO" /\ last.type = "SUCCTHREE"
  BY DEF HandleSuccTwo, Message
<1>3. /\ files \in Shelves(keys)
      /\ \A o \in net : o.type = "FILE" => o.to = n /\ o.arg.key \in keys /\ o.arg.dir \in Dir
      /\ \A e \in Dir : Due(n, e) = with[n][e]
      /\ \A x \in M \ {t, u} : files[x] = with[x]
      /\ \A o \in net : o.type # "FILE" => o = m
      /\ m.to = t /\ m.arg = [node |-> n, copy1 |-> K[p] # {}, store |-> K[n] # {}]
      /\ files[t] = rest[t] /\ files[u] = rest[u]
  BY <1>0, <1>2 DEF Filling, Only, UpdateForNewNodeAddition, Message
<1>4. m.arg.node = n /\ m.arg.copy1 = (K[p] # {}) /\ m.arg.store = (K[n] # {})
  <2>1. PICK a, b : a = (K[p] # {}) /\ b = (K[n] # {})
    OBVIOUS
  <2>2. m.arg = [node |-> n, copy1 |-> a, store |-> b]
    BY <1>3, <2>1, Zenon
  <2>3. m.arg.node = n /\ m.arg.copy1 = a /\ m.arg.store = b
    BY <2>2
  <2> QED
    BY <2>1, <2>3, Zenon
<1>5. /\ f["store"] = K[t] /\ f["copy1"] = K[s] \cup K[n] /\ f["copy2"] = K[p]
      /\ f["temp"] = {} /\ f \in [Dir -> SUBSET keys]
  BY <1>1, <1>3 DEF Triple, Shelves
<1>6. old = {} /\ mine = K[n]
  BY <1>1, <1>4, <1>5
<1>7. /\ files' = [files EXCEPT ![t] = g]
      /\ net' = (net \ {m}) \cup {last : flag \in {TRUE} \cap {m.arg.store}}
      /\ UNCHANGED <<member, successor, predecessor, owes>>
  BY <1>1, <1>3, <1>4 DEF HandleSuccTwo, ringVars
<1> HIDE DEF old, mine
<1>8. g \in [Dir -> SUBSET keys] /\ Triple(g, K[t], K[s], K[n])
  <2>1. K[s] \subseteq keys /\ K[n] \subseteq keys /\ (K[s] \cup K[n]) \ K[n] = K[s]
    BY <1>1
  <2> HIDE DEF f
  <2> QED
    BY <1>5, <1>6, <2>1 DEF Triple, Dir
<1> HIDE DEF g, f, last
<1>9. /\ files' \in Shelves(keys) /\ files'[t] = g
      /\ \A x \in Node \ {t} : files'[x] = files[x]
  BY <1>1, <1>3, <1>7, <1>8, ShelvesKept DEF Shelves
<1>10. \A x \in Node : with[x] \in [Dir -> SUBSET keys] /\ rest[x] \in [Dir -> SUBSET keys]
  BY <1>0, PlacementShelves, PlacedShelves DEF Shelves
<1>11. files'[t] = with[t]
  <2>1. with[t] \in [Dir -> SUBSET keys]
    BY <1>1, <1>10
  <2> QED
    BY <1>1, <1>8, <1>9, <2>1, SameShelf
<1>12. \A o : o.type = "FILE" => (o \in net' <=> o \in net)
  BY <1>2, <1>7
<1>13. \A o \in net' : o.type = "FILE" => o.to = n /\ o.arg.key \in keys /\ o.arg.dir \in Dir
  BY <1>3, <1>12
<1>14. \A e \in Dir : Due(n, e)' = with[n][e]
  <2>1. \A e : Coming(n, e)' = Coming(n, e)
    <3>1. \A e, k : k \in Coming(n, e)' <=>
            \E o \in net' : o.type = "FILE" /\ o.to = n /\ o.arg.dir = e /\ o.arg.key = k
      BY DEF Coming
    <3>2. \A e, k : k \in Coming(n, e)' <=> k \in Coming(n, e)
      BY <1>12, <3>1, ComingIs
    <3> QED
      BY <3>2
  <2>2. files'[n] = files[n]
    BY <1>1, <1>9
  <2> QED
    BY <1>3, <2>1, <2>2 DEF Due
<1>15. /\ \A x \in M \ {t, u} : files'[x] = with[x]
       /\ files'[u] = rest[u]
  BY <1>1, <1>3, <1>9
<1>16. \/ Only(last)' /\ K[n] # {}
       \/ (\A o \in net' : o.type = "FILE") /\ files'[u] = with[u]
  <2>1. CASE K[n] = {}
    <3>1. net' = net \ {m}
      BY <1>4, <1>7, <2>1
    <3>2. rest[u] = with[u]
      <4>1. Triple(rest[u], K[u], K[t], K[s]) /\ u \in Node
        BY <1>1, <2>1
      <4> QED
        BY <1>1, <1>10, <4>1, SameShelf
    <3> QED
      BY <1>3, <1>15, <3>1, <3>2
  <2>2. CASE K[n] # {}
    <3>1. m.arg.store = TRUE
      BY <1>4, <2>2
    <3>2. last \in net' /\ \A o \in net' : o.type # "FILE" => o = last
      BY <1>3, <1>7, <3>1
    <3>3. last' = last
      BY DEF last, Message
    <3> QED
      BY <2>2, <3>2, <3>3 DEF Only
  <2> QED
    BY <2>1, <2>2
<1>17. /\ Shelves(keys)' = Shelves(keys) /\ Placement(M, keys)' = Placement(M, keys)
       /\ PlacedFrom(F, M \cup {n}, keys)' = PlacedFrom(F, M \cup {n}, keys)
  BY DEF Shelves, Placement, PlacedFrom
<1> QED
  BY <1>0, <1>9, <1>11, <1>13, <1>14, <1>15, <1>16, <1>17 DEF Filling, last

\* handleSuccThreeForNodeAdd at u: n's files are none of its copies any more.
LEMMA FillThird ==
  ASSUME NEW n, NEW M, NEW keys, NEW F, NEW s, NEW t, NEW u, NEW p, NEW q, NEW K,
         Entry(n, M, keys, F, s, t, u, p, q, K), Filling(n, M, keys, F, s, t, u, p, q, K),
         NEW m \in net, HandleSuccThree(m)
  PROVE  Filling(n, M, keys, F, s, t, u, p, q, K)'
<1>0. PICK with, rest : with = PlacedFrom(F, M \cup {n}, keys) /\ rest = Placement(M, keys)
  OBVIOUS
<1> DEFINE f == files[u]
           g == [f EXCEPT !["copy2"] = f["copy2"] \ FileListNew(f["copy2"], n)]
<1>1. /\ {s, t, u, p, q} \subseteq M /\ s # t /\ t # u /\ s # u
      /\ M \subseteq Node /\ n \in Node \ M /\ K \in [Node -> SUBSET keys]
      /\ K[s] \cap K[n] = {} /\ (K[n] # {} => FileListNew(K[s] \cup K[n], n) = K[n])
      /\ Triple(with[u], K[u], K[t], K[s])
      /\ Triple(rest[u], K[u], K[t], K[s] \cup K[n])
  <2>1. Around(n, M, keys, F, s, t, u, p, q, K)
    BY DEF Entry
  <2>2. \A x, y \in Node : x # y => K[x] \cap K[y] = {}
    BY <2>1 DEF Around
  <2>3. {s, t, u, p, q} \subseteq M /\ M \subseteq Node /\ n \in Node \ M
    BY <2>1 DEF Around, Entry
  <2>4. K[s] \cap K[n] = {}
    BY <2>2, <2>3
  <2>5. K[n] # {} => FileListNew(K[s] \cup K[n], n) = K[n]
    BY DEF Entry
  <2> QED
    BY <1>0, <2>1, <2>3, <2>4, <2>5 DEF Around
<1>2. m.type = "SUCCTHREE"
  BY DEF HandleSuccThree
<1>3. /\ files \in Shelves(keys)
      /\ \A o \in net : o.type = "FILE" => o.to = n /\ o.arg.key \in keys /\ o.arg.dir \in Dir
      /\ \A e \in Dir : Due(n, e) = with[n][e]
      /\ \A x \in M \ {t, u} : files[x] = with[x]
      /\ \A o \in net : o.type # "FILE" => o = m
      /\ m.to = u /\ m.arg = n /\ K[n] # {}
      /\ files[t] = with[t] /\ files[u] = rest[u]
  <2>1. \A arg : /\ Message("SUCCTWO", t, arg).type = "SUCCTWO"
                 /\ Message("SUCCONE", s, arg).type = "SUCCONE"
    BY DEF Message
  <2>2. \A o : o = Message("SUCCTHREE", u, n) => o.type = "SUCCTHREE" /\ o.to = u /\ o.arg = n
    BY DEF Message
  <2>3. net # {UpdateForNewNodeAddition(n, s)}
    BY <1>2, <2>1 DEF UpdateForNewNodeAddition
  <2> QED
    BY <1>0, <1>2, <2>1, <2>2, <2>3 DEF Filling, Only
<1>4. /\ files' = [files EXCEPT ![u] = g] /\ net' = net \ {m}
      /\ UNCHANGED <<member, successor, predecessor, owes>>
  <2>1. files' = [files EXCEPT ![m.to]["copy2"] = @ \ FileListNew(@, m.arg)]
    BY DEF HandleSuccThree
  <2> QED
    BY <1>3, <2>1 DEF HandleSuccThree, ringVars
<1>5. /\ f["store"] = K[u] /\ f["copy1"] = K[t] /\ f["copy2"] = K[s] \cup K[n]
      /\ f["temp"] = {} /\ f \in [Dir -> SUBSET keys]
  BY <1>1, <1>3 DEF Triple, Shelves
<1>6. g \in [Dir -> SUBSET keys] /\ Triple(g, K[u], K[t], K[s])
  <2>1. /\ K[s] \subseteq keys /\ (K[s] \cup K[n]) \ K[n] = K[s]
        /\ FileListNew(f["copy2"], n) = K[n]
    BY <1>1, <1>3, <1>5
  <2>2. /\ g["store"] = f["store"] /\ g["copy1"] = f["copy1"] /\ g["temp"] = f["temp"]
        /\ g["copy2"] = K[s] /\ g \in [Dir -> SUBSET keys]
    <3>1. g = [f EXCEPT !["copy2"] = K[s]]
      BY <1>5, <2>1
    <3> HIDE DEF f, g
    <3> QED
      BY <1>5, <2>1, <3>1 DEF Dir
  <2> QED
    BY <1>5, <2>2 DEF Triple
<1> HIDE DEF g, f
<1>7. /\ files' \in Shelves(keys) /\ files'[u] = g
      /\ \A x \in Node \ {u} : files'[x] = files[x]
  BY <1>1, <1>3, <1>4, <1>6, ShelvesKept DEF Shelves
<1>8. files'[u] = with[u]
  <2>1. with[u] \in [Dir -> SUBSET keys]
    BY <1>0, <1>1, PlacementShelves, PlacedShelves DEF Shelves
  <2> QED
    BY <1>1, <1>6, <1>7, <2>1, SameShelf
<1>9. \A o : o.type = "FILE" => (o \in net' <=> o \in net)
  BY <1>2, <1>4
<1>10. \A e \in Dir : Due(n, e)' = with[n][e]
  <2>1. \A e : Coming(n, e)' = Coming(n, e)
    <3>1. \A e, k : k \in Coming(n, e)' <=>
            \E o \in net' : o.type = "FILE" /\ o.to = n /\ o.arg.dir = e /\ o.arg.key = k
      BY DEF Coming
    <3>2. \A e, k : k \in Coming(n, e)' <=> k \in Coming(n, e)
      BY <1>9, <3>1, ComingIs
    <3> QED
      BY <3>2
  <2>2. files'[n] = files[n]
    BY <1>1, <1>7
  <2> QED
    BY <1>3, <2>1, <2>2 DEF Due
<1>11. /\ \A x \in M \ {t, u} : files'[x] = with[x]
       /\ files'[t] = with[t]
  BY <1>1, <1>3, <1>7
<1>12. \A o \in net' : /\ o.type = "FILE"
                       /\ o.to = n /\ o.arg.key \in keys /\ o.arg.dir \in Dir
  BY <1>3, <1>4
<1>13. /\ Shelves(keys)' = Shelves(keys) /\ Placement(M, keys)' = Placement(M, keys)
       /\ PlacedFrom(F, M \cup {n}, keys)' = PlacedFrom(F, M \cup {n}, keys)
  BY DEF Shelves, Placement, PlacedFrom
<1> QED
  BY <1>0, <1>7, <1>8, <1>10, <1>11, <1>12, <1>13 DEF Filling

\* handleNewNodeForNodeAdd at n.
LEMMA FillFile ==
  ASSUME NEW n, NEW M, NEW keys, NEW F, NEW s, NEW t, NEW u, NEW p, NEW q, NEW K,
         Entry(n, M, keys, F, s, t, u, p, q, K), Filling(n, M, keys, F, s, t, u, p, q, K),
         NEW m \in net, HandleFile(m)
  PROVE  Filling(n, M, keys, F, s, t, u, p, q, K)'
<1>0. PICK with, rest : with = PlacedFrom(F, M \cup {n}, keys) /\ rest = Placement(M, keys)
  OBVIOUS
<1>1. m.type = "FILE" /\ net' = net \ {m}
  BY DEF HandleFile
<1>2. /\ files \in Shelves(keys)
      /\ \A o \in net : o.type = "FILE" => o.to = n /\ o.arg.key \in keys /\ o.arg.dir \in Dir
      /\ \A e \in Dir : Due(n, e) = with[n][e]
      /\ \A x \in M \ {t, u} : files[x] = with[x]
      /\ \/ /\ Only(Message("SUCCTWO", t, [node |-> n, copy1 |-> K[p] # {}, store |-> K[n] # {}]))
            /\ files[t] = rest[t] /\ files[u] = rest[u]
         \/ /\ Only(Message("SUCCTHREE", u, n)) /\ K[n] # {}
            /\ files[t] = with[t] /\ files[u] = rest[u]
         \/ (\A o \in net : o.type = "FILE") /\ files[t] = with[t] /\ files[u] = with[u]
  <2>1. net # {UpdateForNewNodeAddition(n, s)}
    <3>1. UpdateForNewNodeAddition(n, s).type = "SUCCONE"
      BY DEF UpdateForNewNodeAddition, Message
    <3> QED
      BY <1>1, <3>1
  <2> QED
    BY <1>0, <2>1 DEF Filling
<1>3. n \in Node /\ n \notin M /\ M \subseteq Node /\ t \in M /\ u \in M
  BY DEF Entry, Around
<1>4. m.to = n /\ m.arg.dir \in Dir /\ m.arg.key \in keys
  BY <1>1, <1>2
<1>5. /\ files' \in Shelves(keys)
      /\ \A x \in Node, e \in Dir : Due(x, e)' = Due(x, e)
      /\ \A x \in Node : x # n => files'[x] = files[x]
  BY <1>2, <1>3, <1>4, FileArrives
<1>6. ASSUME NEW word, word.type # "FILE", Only(word), word' = word
      PROVE  Only(word)'
  BY <1>1, <1>6 DEF Only
<1>7. /\ Message("SUCCTHREE", u, n).type # "FILE"
      /\ Message("SUCCTHREE", u, n)' = Message("SUCCTHREE", u, n)
      /\ \A arg : Message("SUCCTWO", t, arg).type # "FILE"
      /\ \A arg : Message("SUCCTWO", t, arg)' = Message("SUCCTWO", t, arg)
  BY DEF Message
<1>8. /\ \A o \in net' :
           /\ o \in net
           /\ o.type = "FILE" => o.to = n /\ o.arg.key \in keys /\ o.arg.dir \in Dir
      /\ \A e \in Dir : Due(n, e)' = with[n][e]
      /\ \A x \in M \ {t, u} : files'[x] = with[x]
      /\ files'[t] = files[t] /\ files'[u] = files[u]
  BY <1>1, <1>2, <1>3, <1>5
<1>9. /\ Shelves(keys)' = Shelves(keys) /\ Placement(M, keys)' = Placement(M, keys)
      /\ PlacedFrom(F, M \cup {n}, keys)' = PlacedFrom(F, M \cup {n}, keys)
  BY DEF Shelves, Placement, PlacedFrom
<1> QED
  BY <1>0, <1>2, <1>5, <1>6, <1>7, <1>8, <1>9 DEF Filling


\* While nothing is delivered.
LEMMA FillingWaits ==
  ASSUME NEW n, NEW M, NEW keys, NEW F, NEW s, NEW t, NEW u, NEW p, NEW q, NEW K,
         Filling(n, M, keys, F, s, t, u, p, q, K), UNCHANGED <<files, net>>
  PROVE  Filling(n, M, keys, F, s, t, u, p, q, K)'
<1>1. \A x, e : Due(x, e)' = Due(x, e)
  BY DEF Due, Coming
<1>2. /\ Shelves(keys)' = Shelves(keys) /\ Placement(M, keys)' = Placement(M, keys)
      /\ PlacedFrom(F, M \cup {n}, keys)' = PlacedFrom(F, M \cup {n}, keys)
  BY DEF Shelves, Placement, PlacedFrom
<1>3. \A word : Only(word)' = (word' \in net /\ \A m \in net : m.type # "FILE" => m = word')
  BY DEF Only
<1> QED
  BY <1>1, <1>2, <1>3 DEF Filling, Only, UpdateForNewNodeAddition, Message

\* Every step after the join that loses nothing.
LEMMA FillingStep ==
  ASSUME change = "join",
         NEW n, NEW M, NEW keys, NEW F, NEW s, NEW t, NEW u, NEW p, NEW q, NEW K,
         Entry(n, M, keys, F, s, t, u, p, q, K), Filling(n, M, keys, F, s, t, u, p, q, K),
         TransferNext, \A m \in net : ~Lose(m)
  PROVE  /\ change' = "join" /\ Entry(n, M, keys, F, s, t, u, p, q, K)'
         /\ Filling(n, M, keys, F, s, t, u, p, q, K)'
<1>1. Ring(s, t, u)
  BY DEF Entry
<1>2. ASSUME NEW m \in net, HandleLeaveSucc(m)
      PROVE  FALSE
  <2>1. /\ UpdateForNewNodeAddition(n, s).type = "SUCCONE"
        /\ \A arg : Message("SUCCTWO", t, arg).type = "SUCCTWO"
        /\ Message("SUCCTHREE", u, n).type = "SUCCTHREE"
    BY DEF UpdateForNewNodeAddition, Message
  <2>2. m.type = "LEAVESUCC"
    BY <1>2 DEF HandleLeaveSucc
  <2> QED
    BY <2>1, <2>2 DEF Filling, Only
<1>3. ASSUME NEW x \in Node
      PROVE  /\ ~Join(x) /\ ~Depart(x) /\ ~CheckPeer(x) /\ ~RemovePredecessor(x)
             /\ ~RemoveSuccessor(x)
  BY <1>1, OnlyMessages
<1>4. CASE \E x \in Node : Stabilize(x)
  <2>1. Ring(s, t, u)' /\ UNCHANGED <<member, files, net, change>>
    BY <1>1, <1>4, RingNotified
  <2> QED
    BY <2>1, EntryStays, FillingWaits
<1>5. CASE \E m \in net :
             HandleSuccOne(m) \/ HandleSuccTwo(m) \/ HandleSuccThree(m) \/ HandleFile(m)
  <2>1. Filling(n, M, keys, F, s, t, u, p, q, K)'
    BY <1>5, FillFirst, FillSecond, FillThird, FillFile
  <2>2. change' = "join" /\ UNCHANGED <<member, successor, predecessor, owes>>
    BY <1>5 DEF HandleSuccOne, HandleSuccTwo, HandleSuccThree, HandleFile, ringVars
  <2>3. Ring(s, t, u)'
    BY <1>1, <2>2, RingStays
  <2> QED
    BY <2>1, <2>2, <2>3, EntryStays
<1> QED
  BY <1>2, <1>3, <1>4, <1>5 DEF TransferNext, Handle

\* When nothing is on its way, every file is where it goes.
LEMMA FillingEnds ==
  ASSUME NEW n, NEW M, NEW keys, NEW F, NEW s, NEW t, NEW u, NEW p, NEW q, NEW K,
         Entry(n, M, keys, F, s, t, u, p, q, K), Filling(n, M, keys, F, s, t, u, p, q, K)
  PROVE  JoinRestores
<1>0. PICK N, with : N = M \cup {n} /\ with = PlacedFrom(F, N, keys)
  OBVIOUS
<1>1. /\ M \in SUBSET Node /\ n \in Node \ M /\ keys \in SUBSET Key /\ member = N
      /\ s = NextAfter(n, M) /\ s \in M /\ F = JoinPlaces(n, s, N, keys)
  BY <1>0 DEF Entry, Around
<1>2. /\ M \in SUBSET Id /\ M # {} /\ n \in Id \ M /\ N \in SUBSET Id /\ N # {}
      /\ keys \subseteq Id /\ N \in SUBSET Node
  BY <1>0, <1>1, TransferAssumption
<1>3. NextAfter(n, N) = s
  BY <1>0, <1>1, <1>2, NextWithout
<1>4. ASSUME NEW k \in keys
      PROVE  /\ F[k] \in N
             /\ \/ F[k] = Owner(k, N)
                \/ /\ ~Listed(k, Owner(k, N))
                   /\ F[k] = NextAfter(Owner(k, N), N)
  <2>1. Owner(k, N) \in N /\ s \in N
    BY <1>0, <1>1, <1>2, NeighboursExist DEF Owner
  <2>2. F[k] = IF Owner(k, N) = n /\ ~(k <= n /\ n < s) THEN s ELSE Owner(k, N)
    BY <1>1 DEF JoinPlaces
  <2>3. Listed(k, n) = (k <= n /\ n < s)
    BY <1>1, <1>3 DEF Listed
  <2> QED
    BY <1>3, <2>1, <2>2, <2>3
<1> SUFFICES ASSUME net = {}
             PROVE  \A k \in Present :
                      LET owner == Owner(k, member)
                      IN  \/ InARow(k, owner)
                          \/ ~Listed(k, owner) /\ InARow(k, NextAfter(owner, member))
  BY DEF JoinRestores
<1>5. /\ files \in Shelves(keys) /\ \A e \in Dir : Due(n, e) = with[n][e]
      /\ \A x \in M : files[x] = with[x]
  BY <1>0 DEF Filling, Only
<1>6. files[n] = with[n]
  <2>1. \A e : Coming(n, e) = {}
    BY DEF Coming
  <2>2. \A e \in Dir : files[n][e] = with[n][e]
    BY <1>5, <2>1 DEF Due
  <2>3. files[n] \in [Dir -> SUBSET keys] /\ with[n] \in [Dir -> SUBSET keys]
    BY <1>0, <1>1, <1>5, PlacedShelves DEF Shelves
  <2> QED
    BY <2>2, <2>3
<1>7. \A x \in N : files[x] = with[x]
  BY <1>0, <1>5, <1>6
<1>8. \A x \in N, k \in keys :
        /\ k \in with[x]["store"] <=> x = F[k]
        /\ k \in with[x]["copy1"] <=> x = NextAfter(F[k], N)
        /\ k \in with[x]["copy2"] <=> x = NextAfter(NextAfter(F[k], N), N)
        /\ k \notin with[x]["temp"]
  BY <1>0, <1>2 DEF PlacedFrom
<1>9. \A k \in keys : InARow(k, F[k])
  BY <1>1, <1>7, <1>8 DEF InARow
<1>10. Present = keys
  <2>1. \A k \in keys : \E x \in N, e \in Dir : k \in files[x][e]
    BY <1>4, <1>7, <1>8 DEF Dir
  <2> QED
    BY <1>1, <1>2, <1>5, <2>1, FilesFound
<1> QED
  BY <1>1, <1>4, <1>9, <1>10

----------------------------------------------------------------------------
\* What the two theorems rest on, as long as nothing is lost.
PlaceInv ==
  /\ lost \in Nat
  /\ \/ lost > 0
     \/ change = "none" /\ Orderly /\ Many(member)
     \/ /\ change = "join"
        /\ \E M \in SUBSET Node : \E keys \in SUBSET Key : \E F \in [keys -> Node] :
             \E n, s, t, u, p, q \in Node : \E K \in [Node -> SUBSET keys] :
               Entry(n, M, keys, F, s, t, u, p, q, K) /\ Filling(n, M, keys, F, s, t, u, p, q, K)
     \/ /\ change = "departure"
        /\ \E d \in Node : \E keys \in SUBSET Key : \E h, t, u, p \in Node :
             \E K \in [Node -> SUBSET keys] :
               Patch(d, keys, h, t, u, p, K) /\ Healing(d, keys, h, t, u, p, K)

\* What is lost stays lost.
LEMMA LostGrows ==
  ASSUME lost \in Nat, TransferNext
  PROVE  /\ lost' \in Nat /\ lost' >= lost
         /\ \A m \in net : Lose(m) => lost' > 0
<1>1. CASE \E m \in net : Lose(m)
  BY <1>1 DEF Lose
<1>2. CASE ~\E m \in net : Lose(m)
  <2>1. lost' = lost
    BY <1>2 DEF TransferNext, Handle, Join, Depart, CheckPeer, RemovePredecessor, RemoveSuccessor,
       Stabilize, HandleSuccOne, HandleSuccTwo, HandleSuccThree, HandleFile, HandleLeaveSucc
  <2> QED
    BY <1>2, <2>1
<1> QED
  BY <1>1, <1>2

\* Nothing changes.
LEMMA PlacesStutter ==
  ASSUME UNCHANGED transferVars, PlaceInv
  PROVE  PlaceInv'
<1>1. /\ UNCHANGED <<member, successor, predecessor, change, owes, files, net, lost>>
  BY DEF transferVars, ringVars
<1>2. CASE lost > 0 \/ (change = "none" /\ Orderly /\ Many(member))
  BY <1>1, <1>2 DEF PlaceInv, Orderly
<1>3. ASSUME NEW n, NEW M, NEW keys, NEW F, NEW s, NEW t, NEW u, NEW p, NEW q, NEW K,
             Entry(n, M, keys, F, s, t, u, p, q, K), Filling(n, M, keys, F, s, t, u, p, q, K)
      PROVE  /\ Entry(n, M, keys, F, s, t, u, p, q, K)'
             /\ Filling(n, M, keys, F, s, t, u, p, q, K)'
  <2>1. Ring(s, t, u)'
    BY <1>1, <1>3, RingStays DEF Entry
  <2> QED
    BY <1>1, <1>3, <2>1, EntryStays, FillingWaits
<1>4. ASSUME NEW d, NEW keys, NEW h, NEW t, NEW u, NEW p, NEW K,
             Patch(d, keys, h, t, u, p, K), Healing(d, keys, h, t, u, p, K)
      PROVE  Patch(d, keys, h, t, u, p, K)' /\ Healing(d, keys, h, t, u, p, K)'
  <2>1. Placement(member, keys)' = Placement(member, keys)
    BY <1>1 DEF Placement
  <2>2. /\ \A x, e : Due(x, e)' = Due(x, e)
        /\ Shelves(keys)' = Shelves(keys)
        /\ Edge(h, t)' = Edge(h, t) /\ Edge(t, u)' = Edge(t, u)
    BY <1>1 DEF Coming, Due, Shelves, Edge
  <2>3. Patch(d, keys, h, t, u, p, K)'
    BY <1>1, <1>4, <2>1 DEF Patch
  <2>4. Healing(d, keys, h, t, u, p, K)'
    BY <1>1, <1>4, <2>1, <2>2 DEF Healing
  <2> QED
    BY <2>3, <2>4
<1>5. CASE change = "join" /\ ~(lost > 0)
  BY <1>1, <1>3, <1>5 DEF PlaceInv
<1>6. CASE change = "departure" /\ ~(lost > 0)
  BY <1>1, <1>4, <1>6 DEF PlaceInv
<1> QED
  BY <1>2, <1>5, <1>6 DEF PlaceInv

\* Every step keeps the files in their places, or on their way there.
LEMMA PlaceStep == PlaceInv /\ [TransferNext]_transferVars => PlaceInv'
<1> SUFFICES ASSUME PlaceInv, TransferNext, ~(lost' > 0) PROVE PlaceInv'
  <2>1. TransferNext /\ PlaceInv => lost' \in Nat
    BY LostGrows DEF PlaceInv
  <2> QED
    BY <2>1, PlacesStutter DEF PlaceInv
<1>0. lost' \in Nat /\ ~(lost > 0) /\ \A m \in net : ~Lose(m)
  BY LostGrows DEF PlaceInv
<1>1. CASE change = "none"
  <2>1. Orderly /\ Many(member)
    BY <1>0, <1>1 DEF PlaceInv
  <2>2. ASSUME NEW n \in Node, Join(n)
        PROVE  PlaceInv'
    BY <1>0, <1>1, <2>1, <2>2, FillingStarts DEF PlaceInv
  <2>3. ASSUME NEW n \in Node, Depart(n)
        PROVE  PlaceInv'
    BY <1>0, <1>1, <2>1, <2>3, HealingStarts DEF PlaceInv
  <2>4. CASE \A n \in Node : ~Join(n) /\ ~Depart(n)
    <3>1. change' = "none" /\ member' = member
      BY <1>1, <2>1, <2>4
      DEF TransferNext, CheckPeer, RemovePredecessor, RemoveSuccessor, Stabilize,
          Orderly, ringVars
    <3>2. Orderly'
      BY <1>1, <2>1, <3>1, OrderlyStep DEF TransferInv
    <3> QED
      BY <1>0, <2>1, <3>1, <3>2 DEF PlaceInv
  <2> QED
    BY <2>2, <2>3, <2>4
<1>2. CASE change = "join"
  <2>1. PICK M \in SUBSET Node : \E keys \in SUBSET Key : \E F \in [keys -> Node] :
               \E n, s, t, u, p, q \in Node : \E K \in [Node -> SUBSET keys] :
                 /\ Entry(n, M, keys, F, s, t, u, p, q, K)
                 /\ Filling(n, M, keys, F, s, t, u, p, q, K)
    BY <1>0, <1>2 DEF PlaceInv
  <2>2. PICK keys \in SUBSET Key : \E F \in [keys -> Node] :
               \E n, s, t, u, p, q \in Node : \E K \in [Node -> SUBSET keys] :
                 /\ Entry(n, M, keys, F, s, t, u, p, q, K)
                 /\ Filling(n, M, keys, F, s, t, u, p, q, K)
    BY <2>1
  <2>3. PICK F \in [keys -> Node] :
               \E n, s, t, u, p, q \in Node : \E K \in [Node -> SUBSET keys] :
                 /\ Entry(n, M, keys, F, s, t, u, p, q, K)
                 /\ Filling(n, M, keys, F, s, t, u, p, q, K)
    BY <2>2
  <2>4. PICK n, s, t, u, p, q \in Node : \E K \in [Node -> SUBSET keys] :
                 /\ Entry(n, M, keys, F, s, t, u, p, q, K)
                 /\ Filling(n, M, keys, F, s, t, u, p, q, K)
    BY <2>3
  <2>5. PICK K \in [Node -> SUBSET keys] :
                 /\ Entry(n, M, keys, F, s, t, u, p, q, K)
                 /\ Filling(n, M, keys, F, s, t, u, p, q, K)
    BY <2>4
  <2>6. /\ change' = "join" /\ Entry(n, M, keys, F, s, t, u, p, q, K)'
        /\ Filling(n, M, keys, F, s, t, u, p, q, K)'
    BY <1>0, <1>2, <2>5, FillingStep
  <2> QED
    BY <1>0, <2>6 DEF PlaceInv
<1>3. CASE change = "departure"
  <2>1. PICK d, keys, h, t, u, p, K :
          /\ d \in Node /\ keys \in SUBSET Key
          /\ {h, t, u, p} \subseteq Node /\ K \in [Node -> SUBSET keys]
          /\ Patch(d, keys, h, t, u, p, K) /\ Healing(d, keys, h, t, u, p, K)
    BY <1>0, <1>3 DEF PlaceInv
  <2>2. /\ change' = "departure" /\ Patch(d, keys, h, t, u, p, K)'
        /\ Healing(d, keys, h, t, u, p, K)'
    BY <1>0, <1>3, <2>1, HealingStep
  <2>3. h \in Node /\ t \in Node /\ u \in Node /\ p \in Node
    BY <2>1
  <2> QED
    BY <1>0, <2>1, <2>2, <2>3 DEF PlaceInv
<1> QED
  BY <1>0, <1>1, <1>2, <1>3 DEF PlaceInv

LEMMA PlacesStart ==
  ASSUME Cardinality(Node) >= 4
  PROVE  TransferInit => PlaceInv
<1>1. TransferInit => DiskInv /\ change = "none" /\ lost = 0
  BY DiskStarts DEF TransferInit
<1> QED
  BY <1>1 DEF DiskInv, PlaceInv

\* So much for what the invariant means.
LEMMA PlacesAreRestored == PlaceInv => JoinRestores /\ DepartureRestores
<1> SUFFICES ASSUME PlaceInv PROVE JoinRestores /\ DepartureRestores
  OBVIOUS
<1>1. CASE lost > 0
  BY <1>1 DEF JoinRestores, DepartureRestores, PlaceInv
<1>2. CASE change = "none" /\ ~(lost > 0)
  BY <1>2 DEF JoinRestores, DepartureRestores
<1>3. CASE change = "join" /\ ~(lost > 0)
  <2>1. JoinRestores
    BY <1>3, FillingEnds DEF PlaceInv
  <2> QED
    BY <1>3, <2>1 DEF DepartureRestores
<1>4. CASE change = "departure" /\ ~(lost > 0)
  <2>1. DepartureRestores
    BY <1>4, HealingEnds DEF PlaceInv
  <2> QED
    BY <1>4, <2>1 DEF JoinRestores
<1> QED
  BY <1>1, <1>2, <1>3, <1>4 DEF PlaceInv

\* handleSuccOneForNodeAdd, handleSuccTwoForNodeAdd, handleSuccThreeForNodeAdd,
\* handleNewNodeForNodeAdd: when a node has joined a ring of three or more and the messages
\* that follow have arrived, in any order, every file is at its owner and the two members
\* after it, or at the three after the owner if getFileListNew misses its key.
THEOREM JoinsRestored ==
  ASSUME Cardinality(Node) >= 4
  PROVE  TransferSpec => []JoinRestores
<1>1. PlaceInv => JoinRestores
  BY PlacesAreRestored
<1> QED
  BY <1>1, PlacesStart, PlaceStep, PTL DEF TransferSpec

\* removePeer, checkPeer, handleLeaveSucc, handleNotify: when one of four members or more
\* has departed, its successor has missed it and the messages that follow have arrived,
\* every file is in the store of its owner and the first copies of the next member, and
\* the third copies are there but for one owner's, whoever was taken for a successor
\* meanwhile.
THEOREM DeparturesRestored ==
  ASSUME Cardinality(Node) >= 4
  PROVE  TransferSpec => []DepartureRestores
<1>1. PlaceInv => DepartureRestores
  BY PlacesAreRestored
<1> QED
  BY <1>1, PlacesStart, PlaceStep, PTL DEF TransferSpec

\* Both (transferFilesToNewNode, removePeer, checkPeer and the handlers of what they send).
THEOREM TransfersRestored ==
  ASSUME Cardinality(Node) >= 4
  PROVE  TransferSpec => []ReplicasRestored
  BY JoinsRestored, DeparturesRestored, PTL DEF ReplicasRestored
=============================================================================
