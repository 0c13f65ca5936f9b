---------------------------- MODULE FileTransfer ----------------------------
(***************************************************************************)
(* What becomes of the files when one node joins or leaves the ring        *)
(* (local_node.cpp): the directories of replicas are shifted between       *)
(* neighbours by requests that nothing answers and nothing repeats.        *)
(*                                                                         *)
(* The ring was in order and every file at its three nodes before, and     *)
(* users write nothing meanwhile.  A file is its key.  A NOTIFY and its    *)
(* answer are one step here, and only the dead are removed: ChordRing      *)
(* takes the ring apart.                                                   *)
(***************************************************************************)
EXTENDS ChordId, FiniteSets

CONSTANTS
  Node,
  Key,
  MaxFiles,  \* bound: files in the ring
  MaxLost    \* bound: messages lost

\* Peers and files are known by identifiers.
ASSUME TransferAssumption == Node \subseteq Id /\ Key \subseteq Id

VARIABLES
  member,
  successor,
  predecessor,
  owes,      \* isPredOfRemovedNode
  files,     \* the keys in each directory of each node
  net,
  change,    \* what has happened: nothing yet, a join, a departure
  lost       \* number of messages lost

ringVars == <<member, successor, predecessor, change>>
transferVars == <<ringVars, owes, files, net, lost>>

Dir == {"store", "copy1", "copy2", "temp"}

\* Where the files of key k belong in an orderly ring of the nodes M.
Placement(M, keys) ==
  LET owner(k) == Owner(k, M)
      next(n) == NextAfter(n, M)
  IN  [n \in Node |->
         [store |-> {k \in keys : n = owner(k)},
          copy1 |-> {k \in keys : n = next(owner(k))},
          copy2 |-> {k \in keys : n = next(next(owner(k)))},
          temp  |-> {}]]

Message(type, to, arg) == [type |-> type, to |-> to, arg |-> arg]

\* copyToRemote and copyToRemoteNew, whose requests the receiver treats alike.
CopyToRemote(key, dir, target) == Message("FILE", target, [dir |-> dir, key |-> key])

\* copyDirectoryRemote and copyDirectoryRemoteNew: one request for each file.
CopyRemote(keys, dir, target) == {CopyToRemote(k, dir, target) : k \in keys}

\* copyFilesToRemote, of the files in a list, which are from the store.
CopyFilesToRemote(keys, target) == {CopyToRemote(k, "store", target) : k \in keys}

\* getFileListNew: a comparison that knows no circle.
FileListNew(keys, check) == {k \in keys : k <= check}

----------------------------------------------------------------------------
(***************************************************************************)
(* A node joins.                                                           *)
(***************************************************************************)

UpdateForNewNodeAddition(n, s) == Message("SUCCONE", s, n)

\* The end of join: the successor is asked for the files.
Join(n) ==
  LET s == NextAfter(n, member)
  IN  /\ change = "none"
      /\ n \notin member
      /\ change' = "join"
      /\ member' = member \cup {n}
      /\ successor' = [successor EXCEPT ![n] = s]
      /\ predecessor' = [predecessor EXCEPT ![n] = n]
      /\ net' = net \cup {UpdateForNewNodeAddition(n, s)}
      /\ UNCHANGED <<owes, files, lost>>

\* What the successor sends for a join: files to the newcomer, and word to its own
\* successor if there were any.
Handover(m, f, mine) ==
  LET sent == CopyRemote(f["copy2"], "copy2", m.arg) \cup CopyRemote(f["copy1"], "copy1", m.arg)
                \cup CopyFilesToRemote(mine, m.arg)
      word == Message("SUCCTWO", successor[m.to],
                      [node |-> m.arg, copy1 |-> f["copy1"] # {}, store |-> mine # {}])
  IN  IF sent = {} THEN {} ELSE sent \cup {word}

\* Faulty variant: the newcomer's files leave the store before there is a copy.
SuccOneMoves(m) ==
  LET f == files[m.to]
      mine == IF m.arg < m.to THEN FileListNew(f["store"], m.arg) ELSE {}
  IN  /\ m.type = "SUCCONE"
      /\ files' = [files EXCEPT ![m.to] =
           [f EXCEPT !["store"] = f["store"] \ mine, !["copy1"] = {}, !["copy2"] = f["copy1"]]]
      /\ net' = (net \ {m}) \cup Handover(m, f, mine)
      /\ UNCHANGED <<ringVars, owes, lost>>

\* handleSuccOneForNodeAdd, with transferFilesToNewNode for each directory: the
\* successor gives its second copies and first copies away, which makes the
\* latter its second copies, and the part of its store that the newcomer owns.
HandleSuccOne(m) ==
  LET f == files[m.to]
      mine == IF m.arg < m.to THEN FileListNew(f["store"], m.arg) ELSE {}
  IN  /\ m.type = "SUCCONE"
      /\ files' = [files EXCEPT ![m.to] =
           [f EXCEPT !["store"] = f["store"] \ mine, !["copy1"] = mine, !["copy2"] = f["copy1"]]]
      /\ net' = (net \ {m}) \cup Handover(m, f, mine)
      /\ UNCHANGED <<ringVars, owes, lost>>

\* handleSuccTwoForNodeAdd.
HandleSuccTwo(m) ==
  LET f == files[m.to]
      old == IF m.arg.copy1 THEN {} ELSE f["copy2"]
      mine == IF m.arg.store THEN FileListNew(f["copy1"], m.arg.node) ELSE {}
  IN  /\ m.type = "SUCCTWO"
      /\ files' = [files EXCEPT ![m.to] =
           [f EXCEPT !["copy1"] = f["copy1"] \ mine, !["copy2"] = old \cup mine]]
      /\ net' = (net \ {m}) \cup
           {Message("SUCCTHREE", successor[m.to], m.arg.node) : flag \in {TRUE} \cap {m.arg.store}}
      /\ UNCHANGED <<ringVars, owes, lost>>

HandleSuccThree(m) ==
  /\ m.type = "SUCCTHREE"
  /\ files' = [files EXCEPT ![m.to]["copy2"] = @ \ FileListNew(@, m.arg)]
  /\ net' = net \ {m}
  /\ UNCHANGED <<ringVars, owes, lost>>

\* handleNewNodeForNodeAdd, and handleWrite with isCopyRemote set.
HandleFile(m) ==
  /\ m.type = "FILE"
  /\ files' = [files EXCEPT ![m.to][m.arg.dir] = @ \cup {m.arg.key}]
  /\ net' = net \ {m}
  /\ UNCHANGED <<ringVars, owes, lost>>

----------------------------------------------------------------------------
(***************************************************************************)
(* A node leaves, or crashes.                                              *)
(***************************************************************************)

\* Bound: three nodes are left, so that the three places of a file differ.
Depart(d) ==
  /\ change = "none"
  /\ d \in member
  /\ Cardinality(member) > 3
  /\ change' = "departure"
  /\ member' = member \ {d}
  /\ UNCHANGED <<successor, predecessor, owes, files, net, lost>>

\* Faulty variant: the second copies are deleted before they become first copies.
RemovePredecessorLate(n) ==
  LET f == files[n]
  IN  /\ n \in member /\ predecessor[n] \notin member
      /\ files' = [files EXCEPT ![n] =
           [f EXCEPT !["store"] = f["store"] \cup f["copy1"], !["copy1"] = {}, !["copy2"] = {}]]
      /\ predecessor' = [predecessor EXCEPT ![n] = n]
      /\ net' = net \cup CopyRemote(f["copy2"], "temp", successor[n])
                    \cup {Message("LEAVESUCC", successor[n], 0)}
      /\ UNCHANGED <<member, successor, change, owes, lost>>

\* Faulty variant: the first copies stay first copies.
RemovePredecessorOnly(n) ==
  LET f == files[n]
  IN  /\ n \in member /\ predecessor[n] \notin member
      /\ files' = [files EXCEPT ![n] =
           [f EXCEPT !["copy1"] = f["copy1"] \cup f["copy2"], !["copy2"] = {}]]
      /\ predecessor' = [predecessor EXCEPT ![n] = n]
      /\ net' = net \cup CopyRemote(f["copy2"], "temp", successor[n])
                    \cup {Message("LEAVESUCC", successor[n], 0)}
      /\ UNCHANGED <<member, successor, change, owes, lost>>

\* removePeer for a lost predecessor, whose store n has the copies of.
RemovePredecessor(n) ==
  LET f == files[n]
  IN  /\ n \in member /\ predecessor[n] \notin member
      /\ files' = [files EXCEPT ![n] =
           [f EXCEPT !["store"] = f["store"] \cup f["copy1"], !["copy1"] = f["copy2"], !["copy2"] = {}]]
      /\ predecessor' = [predecessor EXCEPT ![n] = n]
      /\ net' = net \cup CopyRemote(f["copy2"], "temp", successor[n])
                    \cup {Message("LEAVESUCC", successor[n], 0)}
      /\ UNCHANGED <<member, successor, change, owes, lost>>

\* removePeer for a lost successor. The lookup it sends names no node to answer.
RemoveSuccessor(n) ==
  /\ n \in member /\ successor[n] \notin member
  /\ owes' = [owes EXCEPT ![n] = TRUE]
  /\ successor' = [successor EXCEPT ![n] = n]
  /\ UNCHANGED <<member, predecessor, change, files, net, lost>>

\* stabilize and handleNotify: s names its predecessor and may take n for it. A node
\* that has lost its successor comes back to it from one predecessor to the next.
Stabilize(n) ==
  LET s == successor[n]
      target == predecessor[s]
  IN  /\ n \in member /\ s \in member
      /\ successor' = [successor EXCEPT ![n] =
           IF s = n \/ RangeOpen(target, n, s) THEN target ELSE s]
      /\ predecessor' = [predecessor EXCEPT ![s] =
           IF target = s \/ RangeOpen(n, target, s) THEN n ELSE target]
      /\ UNCHANGED <<member, change, owes, files, net, lost>>

\* checkPeer, of any peer: the copies go to whoever is taken for the successor.
CheckPeer(n) ==
  /\ n \in member /\ owes[n]
  /\ owes' = [owes EXCEPT ![n] = FALSE]
  /\ net' = net \cup {m \in CopyRemote(files[n]["copy1"], "copy2", successor[n]) :
                       m.to \in member}
  /\ UNCHANGED <<ringVars, files, lost>>

\* handleLeaveSucc. Files that are still on their way to copy2/temp/ stay there.
HandleLeaveSucc(m) ==
  LET f == files[m.to]
  IN  /\ m.type = "LEAVESUCC"
      /\ files' = [files EXCEPT ![m.to] =
           [f EXCEPT !["copy1"] = f["copy1"] \cup f["copy2"], !["copy2"] = f["temp"], !["temp"] = {}]]
      /\ net' = (net \ {m}) \cup CopyRemote(f["copy2"], "copy2", successor[m.to])
      /\ UNCHANGED <<ringVars, owes, lost>>

----------------------------------------------------------------------------
Handle(m) ==
  /\ m.to \in member
  /\ \/ HandleSuccOne(m) \/ HandleSuccTwo(m) \/ HandleSuccThree(m)
     \/ HandleFile(m) \/ HandleLeaveSucc(m)

Lose(m) ==
  /\ lost < MaxLost
  /\ lost' = lost + 1
  /\ net' = net \ {m}
  /\ UNCHANGED <<ringVars, owes, files>>

\* A ring of all nodes, or of all but one, with any of the files.
TransferInit ==
  /\ member \in {Node} \cup {Node \ {n} : n \in Node}
  /\ successor = [n \in Node |-> NextAfter(n, member)]
  /\ predecessor = [n \in Node |-> NextBefore(n, member)]
  /\ owes = [n \in Node |-> FALSE]
  /\ \E keys \in SUBSET Key :
       Cardinality(keys) <= MaxFiles /\ files = Placement(member, keys)
  /\ net = {}
  /\ change = "none"
  /\ lost = 0

TransferNext ==
  \/ \E n \in Node : \/ Join(n) \/ Depart(n) \/ CheckPeer(n)
                     \/ RemovePredecessor(n) \/ RemoveSuccessor(n) \/ Stabilize(n)
  \/ \E m \in net : Handle(m) \/ Lose(m)

TransferSpec == TransferInit /\ [][TransferNext]_transferVars

----------------------------------------------------------------------------
Everywhere(n) == UNION {files[n][d] : d \in Dir}

\* Whatever is lost, late or out of order, in the course of a join, or of a departure
\* that takes one of the three copies: every file is on the disks of two members.
TwiceOnDisk ==
  \A k \in UNION {Everywhere(n) : n \in Node} :
    Cardinality({n \in member : k \in Everywhere(n)}) >= 2

\* Once the lost predecessor is missed, its successor answers for its files: what
\* a member owns is in its store, without any message.
OwnersAnswer ==
  change = "departure" /\ (\A n \in member : predecessor[n] \in member) =>
    \A k \in UNION {Everywhere(n) : n \in member} : k \in files[Owner(k, member)]["store"]

\* The files that members have.
Present == UNION {Everywhere(n) : n \in member}

\* A file is at three members in a row, and nowhere else.
InARow(k, first) ==
  LET second == NextAfter(first, member)
      third == NextAfter(second, member)
  IN  \A n \in member : /\ k \in files[n]["store"] <=> n = first
                        /\ k \in files[n]["copy1"] <=> n = second
                        /\ k \in files[n]["copy2"] <=> n = third
                        /\ k \notin files[n]["temp"]

\* What the comparison of getFileListNew makes of a key and its owner: it misses keys
\* when the circle ends between the two, or between the owner and the next member.
Listed(k, owner) == k <= owner /\ owner < NextAfter(owner, member)

\* Once the messages that follow a join have all arrived, in whatever order, every file
\* is at its owner and the two members after it and nowhere else; or at the three after
\* the owner, if the comparison misses its key.
JoinRestores ==
  change = "join" /\ net = {} /\ lost = 0 =>
    \A k \in Present :
      LET owner == Owner(k, member)
      IN  \/ InARow(k, owner)
          \/ ~Listed(k, owner) /\ InARow(k, NextAfter(owner, member))

\* Once the lost predecessor is missed and the messages that follow have all arrived, in
\* whatever order and wherever copies went while the successor was unknown, every file
\* is in the store of its owner and in the first copies of the next member; its third
\* copy is there, in copy2/ or still in copy2/temp/, unless it was the departed node
\* that had it: so it is with the files of one owner at most.
DepartureRestores ==
  LET place == Placement(member, Present)
  IN  /\ change = "departure" /\ net = {} /\ lost = 0
      /\ \A n \in member : predecessor[n] \in member
      => /\ \A n \in member : /\ place[n]["store"] \subseteq files[n]["store"]
                              /\ place[n]["copy1"] \subseteq files[n]["copy1"]
         /\ \E poor \in member : \A n \in member : \A k \in place[n]["copy2"] :
              Owner(k, member) # poor => k \in files[n]["copy2"] \cup files[n]["temp"]

\* When the messages of a join or a departure have arrived, every file is where these
\* say (local_node.cpp: transferFilesToNewNode, removePeer, checkPeer, handleLeaveSucc).
ReplicasRestored == JoinRestores /\ DepartureRestores
=============================================================================
