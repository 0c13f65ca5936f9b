----------------------------- MODULE FileStore -----------------------------
(***************************************************************************)
(* The files of the ring (local_node.cpp) and the commands of its users    *)
(* (main.cpp): a file is kept at the node that owns its key, and copied to *)
(* the next node and the one after.  The ring stays as it is here.         *)
(*                                                                         *)
(* A file is known by its key, the hash of its contents.  lookup is what   *)
(* LookupService says of it.  Datagrams are reordered or lost; nothing     *)
(* answers a WRITE or a DELETE, and nothing is sent twice.  All requests   *)
(* of a command bear its number.                                           *)
(***************************************************************************)
EXTENDS ChordId, FiniteSets

CONSTANTS
  Node,
  User,      \* nodes whose user types commands
  File,      \* what users may write: pairs of a name and a key
  Nothing,
  MaxCommands,   \* bound: commands typed
  MaxLost        \* bound: keys messages or lookups may be lost for

Key == {f[2] : f \in File}

ASSUME FileAssumption ==
  /\ Node \subseteq Id /\ Node # {}
  /\ User \subseteq Node
  /\ Key \subseteq Id \ {0}
  /\ Nothing \notin File
  /\ MaxCommands \in Nat
  /\ MaxLost \in Nat

VARIABLES
  member,      \* nodes in the ring
  successor,   \* what each node takes for its successor
  files,       \* the keys in each directory of each node
  downloads,   \* what each user has read: a name, a key, whether it was there
  index,       \* rows of the table FileList
  command,     \* where each user's command loop is
  typed,       \* number of commands so far
  net,
  deleted,     \* keys a DELETE was ever sent for
  lost         \* keys a message or a lookup was lost for

ringVars == <<member, successor>>
userVars == <<downloads, index, command, typed, deleted>>
storeVars == <<ringVars, userVars, files, net, lost>>

\* /store/, /store/copy1/ and /store/copy2/.
Dir == {"store", "copy1", "copy2"}

\* The flags isDest, isSucc1 and isSucc2 of a request.
Role == {"dest", "succ1", "succ2"}

\* The answers a lookup of key may get.
Found(key) ==
  {successor[p] : p \in {p \in member : RangeOpenClosed(key, p, successor[p])}}

----------------------------------------------------------------------------
(***************************************************************************)
(* Messages: requests that go from node to node in a chain, requests to    *)
(* read and the answers to them.                                           *)
(***************************************************************************)
Chained(type, to, key, role, id) ==
  [type |-> type, to |-> to, key |-> key, role |-> role, id |-> id]

\* What a command sends to the node found for its file.
First(type, c) == {Chained(type, d, c.file[2], "dest", c.id) : d \in Found(c.file[2])}

ReadOf(u, c) ==
  {[type |-> "READ", to |-> d, key |-> c.file[2], src |-> u, name |-> c.file[1], id |-> c.id] :
     d \in Found(c.file[2])}

AnswerTo(m, found) ==
  [type |-> "ANSWER", to |-> m.src, key |-> m.key, name |-> m.name, found |-> found, id |-> m.id]

MayLose(key) ==
  /\ Cardinality(lost \cup {key}) <= MaxLost
  /\ lost' = lost \cup {key}

\* A lookup that is not answered gives the wildcard address: what is sent there
\* arrives nowhere.
Ask(key, messages) ==
  \/ UNCHANGED lost /\ \E m \in messages : net' = net \cup {m}
  \/ UNCHANGED net /\ MayLose(key)

----------------------------------------------------------------------------
(***************************************************************************)
(* The command loop: each command looks at the index, asks the ring, and   *)
(* changes the index, in steps of its own.                                 *)
(***************************************************************************)
Idle == [do |-> "nothing", file |-> Nothing, id |-> 0]

Select(u, what, f) ==
  /\ typed < MaxCommands
  /\ typed' = typed + 1
  /\ command[u] = Idle
  /\ command' = [command EXCEPT ![u] = [do |-> what, file |-> f, id |-> typed']]
  /\ UNCHANGED <<ringVars, files, downloads, index, net, deleted, lost>>

SelectWrite(u) ==
  \E f \in File : (\A row \in index : row[1] # f[1]) /\ Select(u, "write", f)

SelectRead(u) == \E row \in index : Select(u, "read", row)

SelectDelete(u) == \E row \in index : Select(u, "delete", row)

Continue(u, what, then) ==
  /\ command[u].do = what
  /\ command' = [command EXCEPT ![u] = then]
  /\ UNCHANGED <<ringVars, files, downloads, typed>>

\* LocalNode::write. The file is listed afterwards, whatever has become of it.
Write(u) ==
  /\ Continue(u, "write", [command[u] EXCEPT !.do = "list"])
  /\ Ask(command[u].file[2], First("WRITE", command[u]))
  /\ UNCHANGED <<index, deleted>>

List(u) ==
  /\ Continue(u, "list", Idle)
  /\ index' = index \cup {command[u].file}
  /\ UNCHANGED <<net, deleted, lost>>

\* LocalNode::read.
Read(u) ==
  /\ Continue(u, "read", Idle)
  /\ Ask(command[u].file[2], ReadOf(u, command[u]))
  /\ UNCHANGED <<index, deleted>>

\* LocalNode::deleteFile, after which all rows with the name go.
Delete(u) ==
  /\ Continue(u, "delete", [command[u] EXCEPT !.do = "unlist"])
  /\ Ask(command[u].file[2], First("DELETE", command[u]))
  /\ deleted' = deleted \cup {command[u].file[2]}
  /\ UNCHANGED index

Unlist(u) ==
  /\ Continue(u, "unlist", Idle)
  /\ index' = {row \in index : row[1] # command[u].file[1]}
  /\ UNCHANGED <<net, deleted, lost>>

\* What is left of a command once it has begun.
Finish(u) == Write(u) \/ List(u) \/ Read(u) \/ Delete(u) \/ Unlist(u)

----------------------------------------------------------------------------
(***************************************************************************)
(* Handlers.                                                               *)
(***************************************************************************)

\* Faulty variants: both copies go to the same directory, the chain ends with
\* the first copy.
WritePathTwice(role) == IF role = "dest" THEN "store" ELSE "copy1"

NextRoleOnce(role) == IF role = "dest" THEN {"succ1"} ELSE {}

\* LocalNode::getWritePath: the directory for the flag that is set, and the flag
\* that is set in its place, if any.
WritePath(role) ==
  CASE role = "dest"  -> "store"
    [] role = "succ1" -> "copy1"
    [] role = "succ2" -> "copy2"

NextRole(role) ==
  CASE role = "dest"  -> {"succ1"}
    [] role = "succ1" -> {"succ2"}
    [] role = "succ2" -> {}

\* The chain goes on at the successor.
HandOn(m) == {Chained(m.type, successor[m.to], m.key, r, m.id) : r \in NextRole(m.role)}

HandleWrite(m) ==
  /\ m.type = "WRITE"
  /\ files' = [files EXCEPT ![m.to][WritePath(m.role)] = @ \cup {m.key}]
  /\ net' = (net \ {m}) \cup HandOn(m)
  /\ UNCHANGED <<ringVars, userVars, lost>>

HandleDelete(m) ==
  /\ m.type = "DELETE"
  /\ files' = [files EXCEPT ![m.to][WritePath(m.role)] = @ \ {m.key}]
  /\ net' = (net \ {m}) \cup HandOn(m)
  /\ UNCHANGED <<ringVars, userVars, lost>>

\* A file that is not in /store/ is answered as an empty one. The copies are
\* never found: their name is appended to the path that failed.
HandleRead(m) ==
  /\ m.type = "READ"
  /\ net' = (net \ {m}) \cup {AnswerTo(m, m.key \in files[m.to]["store"])}
  /\ UNCHANGED <<ringVars, userVars, files, lost>>

\* The answer, a WRITE with isRead set, goes to /Downloads/ under its name.
HandleAnswer(m) ==
  /\ m.type = "ANSWER"
  /\ downloads' = [downloads EXCEPT ![m.to] =
                     {d \in @ : d[1] # m.name} \cup {<<m.name, m.key, m.found>>}]
  /\ net' = net \ {m}
  /\ UNCHANGED <<ringVars, index, command, typed, deleted, files, lost>>

Handle(m) ==
  /\ m.to \in member
  /\ HandleWrite(m) \/ HandleDelete(m) \/ HandleRead(m) \/ HandleAnswer(m)

Lose(m) ==
  /\ MayLose(m.key)
  /\ net' = net \ {m}
  /\ UNCHANGED <<ringVars, userVars, files>>

----------------------------------------------------------------------------
NoFiles == [n \in Node |-> [d \in Dir |-> {}]]

InitUsers ==
  /\ downloads = [u \in User |-> {}]
  /\ index = {}
  /\ command = [u \in User |-> Idle]
  /\ typed = 0
  /\ deleted = {}
  /\ net = {}
  /\ lost = {}

Init ==
  /\ member = Node
  /\ successor = [n \in Node |-> NextAfter(n, Node)]
  /\ files = NoFiles
  /\ InitUsers

Next ==
  \/ \E u \in User : SelectWrite(u) \/ SelectRead(u) \/ SelectDelete(u) \/ Finish(u)
  \/ \E m \in net : Handle(m) \/ Lose(m)

Spec == Init /\ [][Next]_storeVars

Number == 1 .. MaxCommands

Name == {f[1] : f \in File}

ChainMessage ==
  [type : {"WRITE", "DELETE"}, to : Node, key : Key, role : Role, id : Number]

ReadMessage ==
  [type : {"READ"}, to : Node, key : Key, src : User, name : Name, id : Number]
    \cup [type : {"ANSWER"}, to : User, key : Key, name : Name, found : BOOLEAN, id : Number]

Arrive(i) == \E m \in net : m.id = i /\ Handle(m)

Command ==
  [do : {"write", "list", "read", "delete", "unlist"}, file : File, id : Number] \cup {Idle}

\* A command that was begun is finished, and a message that is not lost arrives.
\* Nothing asks users for commands, or messages to be lost.
Fairness ==
  /\ \A u \in User : WF_storeVars(Finish(u))
  /\ \A i \in Number : WF_storeVars(Arrive(i))

FairSpec == Spec /\ Fairness

TypeOK ==
  /\ member = Node
  /\ successor \in [Node -> Node]
  /\ files \in [Node -> [Dir -> SUBSET Key]]
  /\ downloads \in [User -> SUBSET (Name \X Key \X BOOLEAN)]
  /\ index \subseteq File
  /\ typed \in 0 .. MaxCommands
  /\ command \in [User -> Command]
  /\ net \subseteq ChainMessage \cup ReadMessage
  /\ deleted \subseteq Key
  /\ lost \subseteq Key

\* Where the parts of a chain belong: at the node found for the key, at its
\* successor, and at the successor of that.
At(role, key) ==
  CASE role = "dest"  -> Found(key)
    [] role = "succ1" -> {successor[o] : o \in Found(key)}
    [] role = "succ2" -> {successor[successor[o]] : o \in Found(key)}

\* The directory each part is kept in.
Place == [dest |-> "store", succ1 |-> "copy1", succ2 |-> "copy2"]

\* No file is anywhere but where a read, a write or a delete will look for it,
\* on its way included.
Placed ==
  /\ \A n \in Node, r \in Role : \A k \in files[n][Place[r]] : n \in At(r, k)
  /\ \A m \in net : m.type \in {"WRITE", "DELETE"} => m.to \in At(m.role, m.key)

\* A key that was sent, that no message was lost for and that nobody deletes.
Listed(key) ==
  \/ \E f \in index : f[2] = key
  \/ \E u \in User : command[u].do = "list" /\ command[u].file[2] = key

Kept(key) == key \notin deleted \cup lost /\ Listed(key)

\* What is still to come for a role: a WRITE of that role or an earlier one.
Coming(key, roles) ==
  \E m \in net : m.type = "WRITE" /\ m.key = key /\ m.role \in roles

\* No copy of a listed file is ever forgotten: each of the three is there, or a
\* WRITE that will make it is on its way.
CopiesFollow ==
  \A k \in Key : Kept(k) =>
    /\ Coming(k, {"dest"}) \/ \E n \in At("dest", k) : k \in files[n]["store"]
    /\ Coming(k, {"dest", "succ1"}) \/ \E n \in At("succ1", k) : k \in files[n]["copy1"]
    /\ Coming(k, Role) \/ \E n \in At("succ2", k) : k \in files[n]["copy2"]

\* A file that is listed ends up at three nodes, unless it is deleted or a
\* message of its is lost ("for redundancy WRITE", request.h:75).
Replicated(k) ==
  \A r \in Role : \E n \in At(r, k) : k \in files[n][Place[r]]

CopiesArrive == \A k \in Key : Kept(k) ~> (Replicated(k) \/ k \in deleted \cup lost)
=============================================================================
