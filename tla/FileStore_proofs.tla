-------------------------- MODULE FileStore_proofs --------------------------
(***************************************************************************)
(* What holds of the files of a ring of any size, for any users, files and *)
(* losses: files are only kept where they belong, and each part of a file  *)
(* that is listed is there or on its way.                                  *)
(***************************************************************************)
EXTENDS FileStore, ChordId_proofs

\* A DELETE is only in flight for keys that a user has deleted.
DeletesKnown == \A m \in net : m.type = "DELETE" => m.key \in deleted

----------------------------------------------------------------------------
(***************************************************************************)
(* Types.                                                                  *)
(***************************************************************************)

\* A file is a name and a key.
LEMMA FilesTyped == \A f \in File : f[2] \in Key /\ f[1] \in Name
BY DEF Key, Name

\* A lookup finds nodes of the ring.
LEMMA FoundTyped ==
  ASSUME TypeOK, NEW k \in Key
  PROVE  Found(k) \subseteq Node
BY DEF TypeOK, Found

\* What asking the ring puts in flight.
LEMMA AskTyped ==
  ASSUME NEW k \in Key, NEW messages \in SUBSET (ChainMessage \cup ReadMessage), TypeOK,
         Ask(k, messages)
  PROVE  net' \subseteq ChainMessage \cup ReadMessage /\ lost' \subseteq Key
BY DEF Ask, MayLose, TypeOK

\* The command loop keeps types.
LEMMA CommandTyped ==
  ASSUME TypeOK, NEW u \in User,
         SelectWrite(u) \/ SelectRead(u) \/ SelectDelete(u) \/ Finish(u)
  PROVE  TypeOK'
<1>1. ASSUME NEW what \in {"write", "read", "delete"}, NEW f \in File, Select(u, what, f)
      PROVE  TypeOK'
  <2>1. typed' \in 0 .. MaxCommands /\ typed' \in Number
    BY <1>1, FileAssumption DEF Select, TypeOK, Number
  <2>2. command' \in [User -> Command]
    BY <1>1, <2>1 DEF Select, TypeOK, Command
  <2> QED
    BY <1>1, <2>1, <2>2 DEF Select, TypeOK, ringVars
<1>2. ASSUME NEW what \in {"write", "list", "read", "delete", "unlist"}, command[u].do = what
      PROVE  /\ command[u] \in Command \ {Idle}
             /\ command[u].file \in File
             /\ command[u].file[2] \in Key /\ command[u].file[1] \in Name
             /\ command[u].id \in Number
             /\ [command[u] EXCEPT !.do = "list"] \in Command
             /\ [command[u] EXCEPT !.do = "unlist"] \in Command
  <2>1. command[u] \in Command /\ command[u] # Idle
    BY <1>2 DEF TypeOK, Idle
  <2> QED
    BY <2>1, FilesTyped DEF Command
<1>3. ASSUME NEW what \in {"write", "list", "read", "delete", "unlist"},
             NEW then \in Command, Continue(u, what, then),
             net' \subseteq ChainMessage \cup ReadMessage, lost' \subseteq Key,
             index' \subseteq File, deleted' \subseteq Key
      PROVE  TypeOK'
  BY <1>3 DEF Continue, TypeOK, ringVars
<1>4. ASSUME NEW type \in {"WRITE", "DELETE"}, NEW c \in Command \ {Idle}
      PROVE  First(type, c) \in SUBSET (ChainMessage \cup ReadMessage)
  <2>1. c.file \in File /\ c.id \in Number /\ c.file[2] \in Key
    BY FilesTyped DEF Command
  <2> QED
    BY <2>1, FoundTyped DEF First, Chained, ChainMessage, Role
<1>5. ASSUME NEW c \in Command \ {Idle}
      PROVE  ReadOf(u, c) \in SUBSET (ChainMessage \cup ReadMessage)
  <2>1. c.file \in File /\ c.id \in Number /\ c.file[2] \in Key /\ c.file[1] \in Name
    BY FilesTyped DEF Command
  <2> QED
    BY <2>1, FoundTyped DEF ReadOf, ReadMessage
<1>6. CASE SelectWrite(u)
  BY <1>1, <1>6 DEF SelectWrite
<1>7. CASE SelectRead(u)
  BY <1>1, <1>7 DEF SelectRead, TypeOK
<1>8. CASE SelectDelete(u)
  BY <1>1, <1>8 DEF SelectDelete, TypeOK
<1>9. CASE Write(u)
  <2>1. Continue(u, "write", [command[u] EXCEPT !.do = "list"]) /\ command[u].do = "write"
    BY <1>9 DEF Write, Continue
  <2>2. net' \subseteq ChainMessage \cup ReadMessage /\ lost' \subseteq Key
    BY <1>9, <2>1, <1>2, <1>4, AskTyped DEF Write
  <2>3. index' \subseteq File /\ deleted' \subseteq Key
    BY <1>9 DEF Write, TypeOK
  <2> QED
    BY <1>2, <1>3, <2>1, <2>2, <2>3
<1>10. CASE List(u)
  <2>1. Continue(u, "list", Idle) /\ command[u].do = "list"
    BY <1>10 DEF List, Continue
  <2>2. index' \subseteq File
    BY <1>10, <1>2, <2>1 DEF List, TypeOK
  <2>3. net' \subseteq ChainMessage \cup ReadMessage /\ lost' \subseteq Key /\ deleted' \subseteq Key
    BY <1>10 DEF List, TypeOK
  <2> QED
    BY <1>3, <2>1, <2>2, <2>3 DEF Command
<1>11. CASE Read(u)
  <2>1. Continue(u, "read", Idle) /\ command[u].do = "read"
    BY <1>11 DEF Read, Continue
  <2>2. net' \subseteq ChainMessage \cup ReadMessage /\ lost' \subseteq Key
    BY <1>11, <2>1, <1>2, <1>5, AskTyped DEF Read
  <2>3. index' \subseteq File /\ deleted' \subseteq Key
    BY <1>11 DEF Read, TypeOK
  <2> QED
    BY <1>3, <2>1, <2>2, <2>3 DEF Command
<1>12. CASE Delete(u)
  <2>1. Continue(u, "delete", [command[u] EXCEPT !.do = "unlist"]) /\ command[u].do = "delete"
    BY <1>12 DEF Delete, Continue
  <2>2. net' \subseteq ChainMessage \cup ReadMessage /\ lost' \subseteq Key
    BY <1>12, <2>1, <1>2, <1>4, AskTyped DEF Delete
  <2>3. index' \subseteq File /\ deleted' \subseteq Key
    BY <1>12, <1>2, <2>1 DEF Delete, TypeOK
  <2> QED
    BY <1>2, <1>3, <2>1, <2>2, <2>3
<1>13. CASE Unlist(u)
  <2>1. Continue(u, "unlist", Idle)
    BY <1>13 DEF Unlist
  <2>2. index' \subseteq File
    BY <1>13 DEF Unlist, TypeOK
  <2>3. net' \subseteq ChainMessage \cup ReadMessage /\ lost' \subseteq Key /\ deleted' \subseteq Key
    BY <1>13 DEF Unlist, TypeOK
  <2> QED
    BY <1>3, <2>1, <2>2, <2>3 DEF Command
<1> QED
  BY <1>6, <1>7, <1>8, <1>9, <1>10, <1>11, <1>12, <1>13 DEF Finish

\* A chain goes on with messages of its kind, for its key.
LEMMA HandOnTyped ==
  ASSUME TypeOK, NEW m \in ChainMessage, NEW x \in HandOn(m)
  PROVE  /\ x \in ChainMessage
         /\ x.type = m.type /\ x.key = m.key /\ x.to = successor[m.to]
         /\ \/ m.role = "dest" /\ x.role = "succ1"
            \/ m.role = "succ1" /\ x.role = "succ2"
BY DEF TypeOK, HandOn, NextRole, Chained, ChainMessage, Role

\* Messages by type.
LEMMA MessageKinds ==
  ASSUME TypeOK, NEW m \in net
  PROVE  /\ m.key \in Key
         /\ m.type \in {"WRITE", "DELETE"} => m \in ChainMessage
         /\ m.type = "READ" => /\ m.src \in User /\ m.name \in Name /\ m.id \in Number
         /\ m.type = "ANSWER" => /\ m.to \in User /\ m.name \in Name
                                 /\ m.found \in BOOLEAN
BY DEF TypeOK, ChainMessage, ReadMessage

\* Handlers keep types.
LEMMA HandlerTyped ==
  ASSUME TypeOK, NEW m \in net, Handle(m) \/ Lose(m)
  PROVE  TypeOK'
<1>1. CASE HandleWrite(m)
  <2>1. m \in ChainMessage
    BY <1>1, MessageKinds DEF HandleWrite
  <2>2. net' \subseteq ChainMessage \cup ReadMessage
    BY <1>1, <2>1, HandOnTyped DEF HandleWrite, TypeOK
  <2>3. files' \in [Node -> [Dir -> SUBSET Key]]
    BY <1>1, <2>1 DEF HandleWrite, TypeOK, ChainMessage, Role, WritePath, Dir
  <2> QED
    BY <1>1, <2>2, <2>3 DEF HandleWrite, TypeOK, ringVars, userVars
<1>2. CASE HandleDelete(m)
  <2>1. m \in ChainMessage
    BY <1>2, MessageKinds DEF HandleDelete
  <2>2. net' \subseteq ChainMessage \cup ReadMessage
    BY <1>2, <2>1, HandOnTyped DEF HandleDelete, TypeOK
  <2>3. files' \in [Node -> [Dir -> SUBSET Key]]
    BY <1>2, <2>1 DEF HandleDelete, TypeOK, ChainMessage, Role, WritePath, Dir
  <2> QED
    BY <1>2, <2>2, <2>3 DEF HandleDelete, TypeOK, ringVars, userVars
<1>3. CASE HandleRead(m)
  <2>1. AnswerTo(m, m.key \in files[m.to]["store"]) \in ReadMessage
    BY <1>3, MessageKinds DEF HandleRead, AnswerTo, ReadMessage
  <2> QED
    BY <1>3, <2>1 DEF HandleRead, TypeOK, ringVars, userVars
<1>4. CASE HandleAnswer(m)
  <2>1. <<m.name, m.key, m.found>> \in Name \X Key \X BOOLEAN /\ m.to \in User
    BY <1>4, MessageKinds DEF HandleAnswer
  <2>2. downloads' \in [User -> SUBSET (Name \X Key \X BOOLEAN)]
    BY <1>4, <2>1 DEF HandleAnswer, TypeOK
  <2> QED
    BY <1>4, <2>2 DEF HandleAnswer, TypeOK, ringVars
<1>5. CASE Lose(m)
  BY <1>5, MessageKinds DEF Lose, MayLose, TypeOK, ringVars, userVars
<1> QED
  BY <1>1, <1>2, <1>3, <1>4, <1>5 DEF Handle

\* The ring exists, and nothing is stored at first.
LEMMA InitTyped == Init => TypeOK
<1> SUFFICES ASSUME Init PROVE TypeOK
  OBVIOUS
<1>1. \A n \in Node : NextAfter(n, Node) \in Node
  <2> SUFFICES ASSUME NEW n \in Node PROVE NextAfter(n, Node) \in Node
    OBVIOUS
  <2>1. n \in Id /\ Node \in SUBSET Id /\ Node # {}
    BY FileAssumption
  <2> QED
    BY <2>1, NeighboursExist
<1>2. successor \in [Node -> Node]
  BY <1>1 DEF Init
<1>3. files \in [Node -> [Dir -> SUBSET Key]]
  BY DEF Init, NoFiles
<1> QED
  BY <1>2, <1>3, FileAssumption DEF Init, InitUsers, TypeOK, Command

\* A step is a user's, a message that is handled or lost, or none.
LEMMA Steps ==
  ASSUME [Next]_storeVars
  PROVE  \/ \E u \in User : SelectWrite(u) \/ SelectRead(u) \/ SelectDelete(u) \/ Finish(u)
         \/ \E m \in net : Handle(m) \/ Lose(m)
         \/ UNCHANGED storeVars
BY DEF Next

\* Each step keeps the types.
LEMMA StepTyped == TypeOK /\ [Next]_storeVars => TypeOK'
<1> SUFFICES ASSUME TypeOK, [Next]_storeVars PROVE TypeOK'
  OBVIOUS
<1>1. ASSUME UNCHANGED storeVars PROVE TypeOK'
  BY <1>1 DEF storeVars, ringVars, userVars, TypeOK
<1> QED
  BY <1>1, Steps, CommandTyped, HandlerTyped

\* Every variable keeps its type, and the ring stays as it is.
THEOREM TypeCorrect == Spec => []TypeOK
BY InitTyped, StepTyped, PTL DEF Spec

\* Nothing a step does changes the ring, and so where a key belongs.
LEMMA RingFixed ==
  ASSUME [Next]_storeVars
  PROVE  /\ UNCHANGED <<member, successor>>
         /\ \A k : Found(k)' = Found(k)
         /\ \A r, k : At(r, k)' = At(r, k)
<1>1. UNCHANGED <<member, successor>>
  <2>1. ASSUME NEW u \in User,
               SelectWrite(u) \/ SelectRead(u) \/ SelectDelete(u) \/ Finish(u)
        PROVE  UNCHANGED ringVars
    BY <2>1 DEF SelectWrite, SelectRead, SelectDelete, Select, Finish, Write, List, Read, Delete,
                Unlist, Continue
  <2>2. ASSUME NEW m \in net, Handle(m) \/ Lose(m)
        PROVE  UNCHANGED ringVars
    BY <2>2 DEF Handle, HandleWrite, HandleDelete, HandleRead, HandleAnswer, Lose
  <2> QED
    BY <2>1, <2>2, Steps DEF ringVars, storeVars
<1>2. \A k : Found(k)' = Found(k)
  BY <1>1 DEF Found
<1> QED
  BY <1>1, <1>2 DEF At

----------------------------------------------------------------------------
(***************************************************************************)
(* Files are where they belong.                                            *)
(***************************************************************************)

\* A WRITE or a DELETE comes from a command, which sends it to a node found for
\* its key, or from the handler of the one before it in its chain.
LEMMA ChainsGrow ==
  ASSUME TypeOK, [Next]_storeVars, NEW m \in net', m \notin net, m.type \in {"WRITE", "DELETE"}
  PROVE  \/ /\ m.role = "dest" /\ m.to \in Found(m.key)
            /\ m.type = "DELETE" => m.key \in deleted'
         \/ \E x \in net : x \in ChainMessage /\ m \in HandOn(x)
<1>1. ASSUME NEW type \in {"WRITE", "DELETE"}, NEW c, m \in First(type, c)
      PROVE  m.role = "dest" /\ m.key = c.file[2] /\ m.type = type /\ m.to \in Found(m.key)
  BY <1>1 DEF First, Chained
<1>2. ASSUME NEW u \in User, SelectWrite(u) \/ SelectRead(u) \/ SelectDelete(u) \/ Finish(u)
      PROVE  /\ m.role = "dest" /\ m.to \in Found(m.key)
             /\ m.type = "DELETE" => m.key \in deleted'
  <2>1. CASE SelectWrite(u) \/ SelectRead(u) \/ SelectDelete(u) \/ List(u) \/ Unlist(u)
    BY <2>1 DEF SelectWrite, SelectRead, SelectDelete, Select, List, Unlist
  <2>2. CASE Write(u)
    BY <2>2, <1>1 DEF Write, Ask
  <2>3. CASE Delete(u)
    BY <2>3, <1>1 DEF Delete, Ask
  <2>4. CASE Read(u)
    <3>1. m \in ReadOf(u, command[u])
      BY <2>4 DEF Read, Ask
    <3>2. m.type = "READ"
      BY <3>1 DEF ReadOf
    <3> QED
      BY <3>2
  <2> QED
    BY <1>2, <2>1, <2>2, <2>3, <2>4 DEF Finish
<1>3. ASSUME NEW x \in net, Handle(x) \/ Lose(x)
      PROVE  \E y \in net : y \in ChainMessage /\ m \in HandOn(y)
  <2>1. CASE HandleWrite(x) \/ HandleDelete(x)
    <3>1. x \in ChainMessage
      BY <2>1, MessageKinds DEF HandleWrite, HandleDelete
    <3> QED
      BY <2>1, <3>1 DEF HandleWrite, HandleDelete
  <2>2. CASE HandleRead(x)
    <3>1. m = AnswerTo(x, x.key \in files[x.to]["store"])
      BY <2>2 DEF HandleRead
    <3> QED
      BY <3>1 DEF AnswerTo
  <2>3. CASE HandleAnswer(x) \/ Lose(x)
    BY <2>3 DEF HandleAnswer, Lose
  <2> QED
    BY <1>3, <2>1, <2>2, <2>3 DEF Handle
<1> QED
  BY <1>2, <1>3, Steps DEF storeVars

\* A file gets into a directory by a WRITE, and out of it by a DELETE.
LEMMA FilesChange ==
  ASSUME TypeOK, [Next]_storeVars, NEW n \in Node, NEW r \in Role, NEW k
  PROVE  /\ k \in files'[n][Place[r]] /\ k \notin files[n][Place[r]] =>
              \E m \in net : m.type = "WRITE" /\ m.to = n /\ m.role = r /\ m.key = k
         /\ k \in files[n][Place[r]] /\ k \notin files'[n][Place[r]] =>
              \E m \in net : m.type = "DELETE" /\ m.key = k
<1>1. CASE UNCHANGED files
  BY <1>1
<1>2. ASSUME NEW m \in net, HandleWrite(m)
      PROVE  /\ k \in files'[n][Place[r]] /\ k \notin files[n][Place[r]] =>
                  m.type = "WRITE" /\ m.to = n /\ m.role = r /\ m.key = k
             /\ k \in files[n][Place[r]] => k \in files'[n][Place[r]]
  <2>1. m \in ChainMessage /\ m.type = "WRITE"
    BY <1>2, MessageKinds DEF HandleWrite
  <2>2. files' = [files EXCEPT ![m.to][WritePath(m.role)] = @ \cup {m.key}]
    BY <1>2 DEF HandleWrite
  <2> QED
    BY <2>1, <2>2 DEF TypeOK, ChainMessage, Role, WritePath, Place, Dir
<1>3. ASSUME NEW m \in net, HandleDelete(m)
      PROVE  /\ k \in files'[n][Place[r]] => k \in files[n][Place[r]]
             /\ k \in files[n][Place[r]] /\ k \notin files'[n][Place[r]] =>
                  m.type = "DELETE" /\ m.key = k
  <2>1. m \in ChainMessage /\ m.type = "DELETE"
    BY <1>3, MessageKinds DEF HandleDelete
  <2>2. files' = [files EXCEPT ![m.to][WritePath(m.role)] = @ \ {m.key}]
    BY <1>3 DEF HandleDelete
  <2> QED
    BY <2>1, <2>2 DEF TypeOK, ChainMessage, Role, WritePath, Place, Dir
<1>4. ASSUME NEW u \in User, SelectWrite(u) \/ SelectRead(u) \/ SelectDelete(u) \/ Finish(u)
      PROVE  UNCHANGED files
  BY <1>4 DEF SelectWrite, SelectRead, SelectDelete, Select, Finish, Write, List, Read, Delete,
              Unlist, Continue
<1>5. ASSUME NEW m \in net, HandleRead(m) \/ HandleAnswer(m) \/ Lose(m)
      PROVE  UNCHANGED files
  BY <1>5 DEF HandleRead, HandleAnswer, Lose
<1> QED
  BY <1>1, <1>2, <1>3, <1>4, <1>5, Steps DEF Handle, storeVars

\* Each step leaves the parts of files, and the requests for them, where they belong.
LEMMA StepPlaced == TypeOK /\ Placed /\ [Next]_storeVars => Placed'
<1> SUFFICES ASSUME TypeOK, Placed, [Next]_storeVars PROVE Placed'
  OBVIOUS
<1>1. ASSUME NEW n \in Node, NEW r \in Role, NEW k \in files'[n][Place[r]]
      PROVE  n \in At(r, k)
  BY <1>1, FilesChange DEF Placed
<1>2. ASSUME NEW m \in net', m.type \in {"WRITE", "DELETE"}
      PROVE  m.to \in At(m.role, m.key)
  <2>1. CASE m \in net
    BY <1>2, <2>1 DEF Placed
  <2>2. CASE m.role = "dest" /\ m.to \in Found(m.key)
    BY <2>2 DEF At
  <2>3. ASSUME NEW x \in net, x \in ChainMessage, m \in HandOn(x)
        PROVE  m.to \in At(m.role, m.key)
    <3>1. x.to \in At(x.role, x.key)
      BY <2>3 DEF Placed, ChainMessage
    <3>2. /\ m.key = x.key /\ m.to = successor[x.to]
          /\ \/ x.role = "dest" /\ m.role = "succ1"
             \/ x.role = "succ1" /\ m.role = "succ2"
      BY <2>3, HandOnTyped
    <3> QED
      BY <3>1, <3>2 DEF At
  <2> QED
    BY <1>2, <2>1, <2>2, <2>3, ChainsGrow
<1> QED
  BY <1>1, <1>2, RingFixed DEF Placed

\* Placed: a file is only at the node its key is found at and at the two after
\* it, each part in the directory for it, whatever is lost or overtaken.
THEOREM FilesPlaced == Spec => []Placed
<1>1. Init => Placed
  BY DEF Init, InitUsers, NoFiles, Placed, Role, Place, Dir
<1> QED
  BY <1>1, StepPlaced, TypeCorrect, PTL DEF Spec

----------------------------------------------------------------------------
(***************************************************************************)
(* No copy is forgotten.                                                   *)
(***************************************************************************)

\* What was lost or deleted stays so.
LEMMA EventsRemembered ==
  ASSUME [Next]_storeVars
  PROVE  deleted \subseteq deleted' /\ lost \subseteq lost'
<1>1. ASSUME NEW u \in User, SelectWrite(u) \/ SelectRead(u) \/ SelectDelete(u) \/ Finish(u)
      PROVE  deleted \subseteq deleted' /\ lost \subseteq lost'
  BY <1>1 DEF SelectWrite, SelectRead, SelectDelete, Select, Finish, Write, List, Read, Delete,
              Unlist, Ask, MayLose
<1>2. ASSUME NEW m \in net, Handle(m) \/ Lose(m)
      PROVE  deleted \subseteq deleted' /\ lost \subseteq lost'
  BY <1>2 DEF Handle, HandleWrite, HandleDelete, HandleRead, HandleAnswer, Lose, MayLose, userVars
<1> QED
  BY <1>1, <1>2, Steps DEF storeVars, userVars

\* Only a key that was deleted is in a DELETE.
LEMMA StepDeletes == TypeOK /\ DeletesKnown /\ [Next]_storeVars => DeletesKnown'
<1> SUFFICES ASSUME TypeOK, DeletesKnown, [Next]_storeVars,
                    NEW m \in net', m.type = "DELETE"
             PROVE  m.key \in deleted'
  BY DEF DeletesKnown
<1>1. CASE m \in net
  BY <1>1, EventsRemembered DEF DeletesKnown
<1>2. ASSUME NEW x \in net, x \in ChainMessage, m \in HandOn(x)
      PROVE  m.key \in deleted'
  BY <1>2, HandOnTyped, EventsRemembered DEF DeletesKnown
<1> QED
  BY <1>1, <1>2, ChainsGrow

\* A WRITE that is no longer in flight was handled or lost.
LEMMA WritesEnd ==
  ASSUME TypeOK, [Next]_storeVars, NEW m \in net, m \notin net', m.type = "WRITE"
  PROVE  HandleWrite(m) \/ m.key \in lost'
<1>1. ASSUME NEW u \in User, SelectWrite(u) \/ SelectRead(u) \/ SelectDelete(u) \/ Finish(u)
      PROVE  net \subseteq net'
  BY <1>1 DEF SelectWrite, SelectRead, SelectDelete, Select, Finish, Write, List, Read, Delete,
              Unlist, Ask
<1>2. ASSUME NEW x \in net, Handle(x) \/ Lose(x)
      PROVE  /\ net \ {x} \subseteq net'
             /\ x.type = "WRITE" => HandleWrite(x) \/ x.key \in lost'
  BY <1>2 DEF Handle, HandleWrite, HandleDelete, HandleRead, HandleAnswer, Lose, MayLose
<1> QED
  BY <1>1, <1>2, Steps DEF storeVars

\* A key becomes listed when a user writes a file.
LEMMA ListingBegins ==
  ASSUME TypeOK, [Next]_storeVars, NEW k, Listed(k)', ~ Listed(k)
  PROVE  \E u \in User : Write(u) /\ command[u].file[2] = k
<1>1. ASSUME UNCHANGED <<index, command>> PROVE FALSE
  BY <1>1 DEF Listed
<1>2. ASSUME NEW m \in net, Handle(m) \/ Lose(m) PROVE FALSE
  BY <1>1, <1>2 DEF Handle, HandleWrite, HandleDelete, HandleRead, HandleAnswer, Lose, userVars
<1>3. ASSUME NEW u \in User, SelectWrite(u) \/ SelectRead(u) \/ SelectDelete(u) \/ Finish(u)
      PROVE  Write(u) /\ command[u].file[2] = k
  <2>1. ASSUME NEW what \in {"write", "read", "delete"}, NEW f, Select(u, what, f) PROVE FALSE
    BY <2>1 DEF Select, Listed, TypeOK
  <2>2. CASE SelectWrite(u) \/ SelectRead(u) \/ SelectDelete(u)
    BY <2>1, <2>2 DEF SelectWrite, SelectRead, SelectDelete
  <2>3. CASE Write(u)
    <3>1. index' = index /\ command' = [command EXCEPT ![u] = [command[u] EXCEPT !.do = "list"]]
      BY <2>3 DEF Write, Continue
    <3>2. command[u].do = "write"
      BY <2>3 DEF Write, Continue
    <3>3. \A v \in User : v # u => command'[v] = command[v]
      BY <3>1 DEF TypeOK
    <3>4. command'[u].file = command[u].file
      BY <3>1 DEF TypeOK, Command, Idle
    <3> QED
      BY <2>3, <3>1, <3>3, <3>4 DEF Listed
  <2>4. CASE List(u) \/ Read(u) \/ Delete(u) \/ Unlist(u)
    <3>1. \A v \in User : command'[v].do = "list" => command'[v] = command[v]
      BY <2>4 DEF List, Read, Delete, Unlist, Continue, Idle, TypeOK, Command
    <3>2. \A f \in index' : f \in index \/ (command[u].do = "list" /\ f = command[u].file)
      BY <2>4 DEF List, Read, Delete, Unlist, Continue
    <3> QED
      BY <3>1, <3>2 DEF Listed
  <2> QED
    BY <1>3, <2>2, <2>3, <2>4 DEF Finish
<1> QED
  BY <1>1, <1>2, <1>3, Steps DEF storeVars, userVars

\* The WRITEs that make a part in the end.
Before == [dest |-> {"dest"}, succ1 |-> {"dest", "succ1"}, succ2 |-> Role]

\* Part r of the file is at its place.
Made(r, k) == \E n \in At(r, k) : k \in files[n][Place[r]]

\* CopiesFollow, one part of a file at a time.
LEMMA CopiesByRole ==
  CopiesFollow <=> \A k \in Key : Kept(k) => \A r \in Role : Coming(k, Before[r]) \/ Made(r, k)
BY DEF CopiesFollow, Role, Before, Made, Place

\* Each step keeps every part of a listed file there or on its way.
LEMMA StepCopies ==
  TypeOK /\ Placed /\ DeletesKnown /\ CopiesFollow /\ [Next]_storeVars => CopiesFollow'
<1> SUFFICES ASSUME TypeOK, Placed, DeletesKnown, CopiesFollow, [Next]_storeVars,
                    NEW k \in Key, Kept(k)', NEW r \in Role
             PROVE  (Coming(k, Before[r]) \/ Made(r, k))'
  BY CopiesByRole DEF Role, CopiesFollow, Before, Made, Place
<1>1. k \notin deleted' /\ k \notin lost' /\ Listed(k)' /\ k \notin deleted /\ k \notin lost
  BY EventsRemembered DEF Kept
<1>2. ASSUME ~ Listed(k)
      PROVE  Coming(k, Before[r])'
  <2>1. PICK u \in User : Write(u) /\ command[u].file[2] = k
    BY <1>1, <1>2, ListingBegins
  <2>2. PICK m \in First("WRITE", command[u]) : m \in net'
    BY <1>1, <2>1 DEF Write, Ask, MayLose
  <2>3. m.type = "WRITE" /\ m.key = k /\ m.role = "dest"
    BY <2>1, <2>2 DEF First, Chained
  <2> QED
    BY <2>2, <2>3 DEF Coming, Before, Role
<1>3. ASSUME Made(r, k)
      PROVE  Made(r, k)'
  <2>1. PICK n \in At(r, k) : k \in files[n][Place[r]]
    BY <1>3 DEF Made
  <2>2. n \in Node
    BY <2>1, FoundTyped DEF At, Role, TypeOK
  <2>3. k \in files'[n][Place[r]]
    BY <1>1, <2>1, <2>2, FilesChange DEF DeletesKnown
  <2> QED
    BY <2>1, <2>3, RingFixed DEF Made
<1>4. ASSUME Coming(k, Before[r])
      PROVE  (Coming(k, Before[r]) \/ Made(r, k))'
  <2>1. PICK m \in net : m.type = "WRITE" /\ m.key = k /\ m.role \in Before[r]
    BY <1>4 DEF Coming
  <2>2. CASE m \in net'
    BY <2>1, <2>2 DEF Coming
  <2>3. CASE m \notin net'
    <3>1. HandleWrite(m) /\ m \in ChainMessage /\ m.to \in Node
      BY <1>1, <2>1, <2>3, WritesEnd, MessageKinds DEF ChainMessage
    <3>2. CASE m.role = r
      <4>1. m.to \in At(r, k)
        BY <2>1, <3>2 DEF Placed
      <4>2. files' = [files EXCEPT ![m.to][WritePath(r)] = @ \cup {k}]
        BY <2>1, <3>1, <3>2 DEF HandleWrite
      <4>3. k \in files'[m.to][Place[r]]
        BY <3>1, <4>2 DEF TypeOK, WritePath, Place, Role, Dir
      <4> QED
        BY <4>1, <4>3, RingFixed DEF Made
    <3>3. CASE m.role # r
      <4>1. PICK q \in NextRole(m.role) : q \in Before[r]
        BY <2>1, <3>3 DEF NextRole, Before, Role
      <4>2. Chained("WRITE", successor[m.to], k, q, m.id) \in net'
        BY <2>1, <3>1, <4>1 DEF HandleWrite, HandOn
      <4> QED
        BY <4>1, <4>2 DEF Coming, Chained
    <3> QED
      BY <3>2, <3>3
  <2> QED
    BY <2>2, <2>3
<1> QED
  BY <1>1, <1>2, <1>3, <1>4, CopiesByRole DEF Kept

\* CopiesFollow: as long as nothing about a file that is listed was lost and
\* nobody deletes it, each of its three parts is there or on its way, however its
\* messages are delayed.
THEOREM NoCopyForgotten == Spec => []CopiesFollow
<1>1. Init => CopiesFollow /\ DeletesKnown
  BY DEF Init, InitUsers, CopiesFollow, DeletesKnown, Kept, Listed, Idle
<1>2. Spec => []DeletesKnown
  BY <1>1, StepDeletes, TypeCorrect, PTL DEF Spec
<1> QED
  BY <1>1, <1>2, StepCopies, TypeCorrect, FilesPlaced, PTL DEF Spec
=============================================================================
