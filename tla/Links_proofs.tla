--------------------------- MODULE Links_proofs ----------------------------
(***************************************************************************)
(* Theorems about what is linked, queues and lists, for any number of      *)
(* them, of items and of clients: the links agree with a sequence of items *)
(* that no call but its own changes.                                       *)
(***************************************************************************)
EXTENDS LinkedQueue, LinkedList, Units_proofs

----------------------------------------------------------------------------
(***************************************************************************)
(* Queues: what the walk along the links of a queue finds is a sequence,   *)
(* and no client is on two of them.                                        *)
(***************************************************************************)

\* The clients that can be in memory.
Client == Queues \X Customer

\* What a sequence holds.
In(s) == {s[i] : i \in 1..Len(s)}

\* s is a chain of links from a to z, of clients with one item each.
Strung(s, next, a, z) ==
  /\ s \in Seq(Client)
  /\ a = IF s = <<>> THEN NoClient ELSE s[1]
  /\ z = IF s = <<>> THEN NoClient ELSE s[Len(s)]
  /\ \A i \in 1..Len(s) : /\ s[i] \in DOMAIN next
                          /\ next[s[i]] = IF i < Len(s) THEN s[i + 1] ELSE NoClient
  /\ \A i, j \in 1..Len(s) : s[i][2] = s[j][2] => i = j

\* So many are counted, and not less than there are.
Fits(s, n) == n \in 0..MaxClients /\ Len(s) <= n

\* The chains of all queues.
Lined(line, next, a, z, num) ==
  /\ DOMAIN line = Queues
  /\ \A q \in Queues : /\ Strung(line[q], next, a[q], z[q])
                       /\ Fits(line[q], num[q])
  /\ \A q, r \in Queues : q # r => In(line[q]) \cap In(line[r]) = {}
  /\ \A d : d \in DOMAIN next <=> \E q \in Queues : d \in In(line[q])

\* The clients of each queue were taken from the allocator it uses.
Returning(line, from, lent) ==
  \A q \in Queues : \A d \in In(line[q]) : from[d] = lent[q][1]

\* What the properties of queues rest on: each is a chain of its own.
QueueInv ==
  /\ DOMAIN first = Queues /\ DOMAIN last = Queues /\ DOMAIN numClients = Queues
  /\ owned \in [Queues -> Queues \X BOOLEAN]
  /\ standing \subseteq Queues
  /\ DOMAIN origin = DOMAIN following
  /\ DeletedOnce /\ strayed # "own"
  /\ \E line : /\ Lined(line, following, first, last, numClients)
               /\ Returning(line, origin, owned)

\* The elements of a chain.
LEMMA StrungIs ==
  ASSUME NEW s, NEW next, NEW a, NEW z, Strung(s, next, a, z)
  PROVE  /\ s \in Seq(Client) /\ Len(s) \in Nat /\ (s = <<>> <=> Len(s) = 0)
         /\ \A i \in 1..Len(s) : s[i] \in Client
         /\ \A i, j \in 1..Len(s) : s[i] = s[j] => i = j
         /\ s = [i \in 1..Len(s) |-> s[i]]
<1>1. s \in Seq(Client)
  BY DEF Strung
<1>2. Len(s) \in Nat /\ (s = <<>> <=> Len(s) = 0) /\ \A i \in 1..Len(s) : s[i] \in Client
  BY <1>1, EmptySeq, LenProperties, ElementOfSeq
<1>3. \A i, j \in 1..Len(s) : s[i] = s[j] => i = j
  BY DEF Strung
<1>4. s = [i \in 1..Len(s) |-> s[i]]
  BY <1>1, LenProperties
<1> QED
  BY <1>1, <1>2, <1>3, <1>4

\* The walk along the links finds the chain.
LEMMA LineIs ==
  ASSUME NEW s, NEW next, NEW a, NEW z, Strung(s, next, a, z),
         Len(s) <= MaxClients, NoClient \notin DOMAIN next
  PROVE  Line(next, a) = s
<1> DEFINE n == Len(s)
           Eq(f) == f = [i \in 0..MaxClients |->
                           IF i = 0 THEN a
                           ELSE LET it == f[i - 1]
                                IN  IF it \in DOMAIN next THEN next[it] ELSE NoClient]
           g == [i \in 0..MaxClients |-> IF i < n THEN s[i + 1] ELSE NoClient]
           at == CHOOSE f : Eq(f)
<1>1. /\ MaxClients \in Nat /\ n \in Nat /\ n <= MaxClients /\ (s = <<>> <=> n = 0)
      /\ \A i \in 1..n : s[i] \in DOMAIN next /\ next[s[i]] = IF i < n THEN s[i + 1] ELSE NoClient
      /\ a = IF n = 0 THEN NoClient ELSE s[1]
      /\ s = [i \in 1..n |-> s[i]]
  BY StrungIs, QueueAssumption DEF Strung
<1>2. \A i \in 0..MaxClients : g[i] = IF i < n THEN s[i + 1] ELSE NoClient
  OBVIOUS
<1>3. g = [i \in 0..MaxClients |-> g[i]]
  OBVIOUS
<1> HIDE DEF g, n
<1>4. \A i \in 0..MaxClients :
        g[i] = IF i = 0 THEN a
               ELSE IF g[i - 1] \in DOMAIN next THEN next[g[i - 1]] ELSE NoClient
  <2> SUFFICES ASSUME NEW i \in 0..MaxClients
               PROVE  g[i] = IF i = 0 THEN a
                             ELSE IF g[i - 1] \in DOMAIN next THEN next[g[i - 1]] ELSE NoClient
    OBVIOUS
  <2>1. CASE i = 0
    <3>1. 0 < n <=> n # 0
      BY <1>1
    <3> QED
      BY <1>1, <1>2, <2>1, <3>1
  <2>2. CASE i # 0 /\ i <= n
    <3>1. i - 1 \in 0..MaxClients /\ i - 1 < n /\ i - 1 + 1 = i /\ i \in 1..n
      BY <1>1, <2>2
    <3>2. g[i - 1] = s[i]
      BY <1>2, <3>1
    <3> QED
      BY <1>1, <1>2, <2>2, <3>1, <3>2
  <2>3. CASE i # 0 /\ i > n
    <3>1. i - 1 \in 0..MaxClients /\ ~(i - 1 < n) /\ ~(i < n)
      BY <1>1, <2>3
    <3> QED
      BY <1>2, <2>3, <3>1
  <2> QED
    BY <1>1, <2>1, <2>2, <2>3
<1>5. Eq(g)
  BY <1>3, <1>4, Zenon
<1>6. Eq(at)
  BY <1>5, Zenon
<1>7. \A i \in 0..MaxClients :
        at[i] = IF i = 0 THEN a
                ELSE IF at[i - 1] \in DOMAIN next THEN next[at[i - 1]] ELSE NoClient
  <2> HIDE DEF at
  <2> QED
    BY <1>6
<1>8. Line(next, a) =
        IF a = NoClient THEN <<>>
        ELSE [i \in 1..Cardinality({i \in 0..MaxClients : at[i] \in DOMAIN next}) |-> at[i - 1]]
  BY DEF Line
<1> HIDE DEF at, Eq
<1>9. \A i \in 0..MaxClients : at[i] = g[i]
  <2> DEFINE T == {i \in 0..MaxClients : at[i] = g[i]}
  <2>1. 0 \in T
    <3>1. 0 \in 0..MaxClients
      BY <1>1
    <3> QED
      BY <1>4, <1>7, <3>1
  <2>2. ASSUME NEW i \in 0..MaxClients - 1, i \in T
        PROVE  i + 1 \in T
    <3>1. i + 1 \in 0..MaxClients /\ i + 1 # 0 /\ i + 1 - 1 = i /\ at[i] = g[i]
      BY <1>1, <2>2
    <3> QED
      BY <1>4, <1>7, <3>1
  <2> HIDE DEF T
  <2>3. \A i \in 0..MaxClients : i \in T
    BY <1>1, <2>1, <2>2, InductionTo
  <2> QED
    BY <2>3 DEF T
<1>10. {i \in 0..MaxClients : at[i] \in DOMAIN next} = 0..n - 1
  <2>1. ASSUME NEW i \in 0..MaxClients
        PROVE  at[i] \in DOMAIN next <=> i < n
    <3>1. CASE i < n
      <4>1. i + 1 \in 1..n
        BY <1>1, <3>1
      <4> QED
        BY <1>1, <1>2, <1>9, <3>1, <4>1
    <3>2. CASE ~(i < n)
      BY <1>2, <1>9, <3>2
    <3> QED
      BY <3>1, <3>2
  <2> QED
    BY <1>1, <2>1
<1>11. Cardinality(0..n - 1) = n
  <2>1. 0 \in Int /\ n - 1 \in Int
    BY <1>1
  <2>2. Cardinality(0..n - 1) = IF 0 > n - 1 THEN 0 ELSE (n - 1) - 0 + 1
    BY <2>1, FS_Interval
  <2> QED
    BY <1>1, <2>2
<1>12. ASSUME n # 0
       PROVE  Line(next, a) = [i \in 1..n |-> at[i - 1]]
  <2>1. a # NoClient
    <3>1. 1 \in 1..n
      BY <1>1, <1>12
    <3> QED
      BY <1>1, <1>12, <3>1
  <2> QED
    BY <1>8, <1>10, <1>11, <2>1
<1>13. \A i \in 1..n : at[i - 1] = s[i]
  <2> SUFFICES ASSUME NEW i \in 1..n PROVE at[i - 1] = s[i]
    OBVIOUS
  <2>1. i - 1 \in 0..MaxClients /\ i - 1 < n /\ i - 1 + 1 = i
    BY <1>1
  <2> QED
    BY <1>2, <1>9, <2>1
<1>14. [i \in 1..n |-> at[i - 1]] = [i \in 1..n |-> s[i]]
  BY <1>13
<1>15. CASE n = 0
  BY <1>1, <1>8, <1>15
<1>16. CASE n # 0
  BY <1>1, <1>12, <1>14, <1>16
<1> QED
  BY <1>15, <1>16

----------------------------------------------------------------------------
\* A chain stays one when its links do.
LEMMA StrungElsewhere ==
  ASSUME NEW s, NEW next, NEW to, NEW a, NEW z, Strung(s, next, a, z),
         \A d \in In(s) : d \in DOMAIN to /\ to[d] = next[d]
  PROVE  Strung(s, to, a, z)
<1>1. \A i \in 1..Len(s) : s[i] \in In(s)
  BY DEF In
<1> QED
  BY <1>1 DEF Strung

\* A client is put at its end.
LEMMA StrungAppended ==
  ASSUME NEW s, NEW next, NEW to, NEW a, NEW z, Strung(s, next, a, z),
         NEW c \in Client, c \in DOMAIN to, to[c] = NoClient,
         \A i \in 1..Len(s) : s[i][2] # c[2],
         \A d \in In(s) : d \in DOMAIN to /\ to[d] = IF d = z THEN c ELSE next[d]
  PROVE  /\ Strung(Append(s, c), to, IF s = <<>> THEN c ELSE a, c)
         /\ In(Append(s, c)) = In(s) \cup {c}
         /\ Len(Append(s, c)) = Len(s) + 1
<1> DEFINE t == Append(s, c)
           n == Len(s)
<1>1. /\ s \in Seq(Client) /\ n \in Nat /\ (s = <<>> <=> n = 0)
      /\ \A i, j \in 1..n : s[i] = s[j] => i = j
      /\ a = IF n = 0 THEN NoClient ELSE s[1]
      /\ z = IF n = 0 THEN NoClient ELSE s[n]
      /\ \A i \in 1..n : s[i] \in DOMAIN next /\ next[s[i]] = IF i < n THEN s[i + 1] ELSE NoClient
      /\ \A i, j \in 1..n : s[i][2] = s[j][2] => i = j
  BY StrungIs DEF Strung
<1>2. /\ t \in Seq(Client) /\ t # <<>> /\ Len(t) = n + 1
      /\ \A i \in 1..n : t[i] = s[i]
      /\ t[n + 1] = c
  BY <1>1, AppendProperties
<1>3. \A i \in 1..n : s[i] \in In(s)
  BY DEF In
<1> HIDE DEF t, n
<1>4. \A i \in 1..n + 1 : i \in 1..n \/ i = n + 1
  BY <1>1
<1>5. \A i \in 1..Len(t) : /\ t[i] \in DOMAIN to
                           /\ to[t[i]] = IF i < Len(t) THEN t[i + 1] ELSE NoClient
  <2> SUFFICES ASSUME NEW i \in 1..n + 1
               PROVE  /\ t[i] \in DOMAIN to
                      /\ to[t[i]] = IF i < n + 1 THEN t[i + 1] ELSE NoClient
    BY <1>2
  <2>1. CASE i = n + 1
    BY <1>1, <1>2, <2>1
  <2>2. CASE i = n /\ i \in 1..n
    <3>1. i < n + 1 /\ n # 0 /\ s[i] = z
      BY <1>1, <2>2
    <3> QED
      BY <1>1, <1>2, <1>3, <2>2, <3>1
  <2>3. CASE i < n /\ i \in 1..n
    <3>1. i < n + 1 /\ i + 1 \in 1..n /\ n \in 1..n /\ n # 0 /\ i # n
      BY <1>1, <2>3
    <3>2. s[i] # z
      BY <1>1, <2>3, <3>1
    <3>3. t[i] = s[i] /\ t[i + 1] = s[i + 1]
      BY <1>1, <1>2, <3>1
    <3>4. s[i] \in DOMAIN next /\ next[s[i]] = s[i + 1]
      BY <1>1, <2>3, <3>1
    <3> QED
      BY <1>3, <3>1, <3>2, <3>3, <3>4
  <2> QED
    BY <1>1, <1>4, <2>1, <2>2, <2>3
<1>6. \A i, j \in 1..Len(t) : t[i][2] = t[j][2] => i = j
  <2> SUFFICES ASSUME NEW i \in 1..n + 1, NEW j \in 1..n + 1, t[i][2] = t[j][2]
               PROVE  i = j
    BY <1>2
  <2>1. \A k \in 1..n : s[k][2] # c[2]
    BY DEF n
  <2> QED
    BY <1>1, <1>2, <1>4, <2>1
<1>7. t[1] = IF s = <<>> THEN c ELSE a
  <2>1. n # 0 => 1 \in 1..n
    BY <1>1
  <2> QED
    BY <1>1, <1>2, <2>1
<1>8. Strung(t, to, IF s = <<>> THEN c ELSE a, c)
  BY <1>2, <1>5, <1>6, <1>7 DEF Strung
<1>9. In(t) = In(s) \cup {c}
  <2>1. In(t) = {t[i] : i \in 1..n + 1} /\ In(s) = {s[i] : i \in 1..n}
    BY <1>2 DEF In, n
  <2>2. 1..n \subseteq 1..n + 1 /\ n + 1 \in 1..n + 1
    BY <1>1
  <2> QED
    BY <1>2, <1>4, <2>1, <2>2
<1> QED
  BY <1>2, <1>8, <1>9 DEF t, n

\* The first client goes.
LEMMA StrungTail ==
  ASSUME NEW s, NEW next, NEW to, NEW a, NEW z, Strung(s, next, a, z), s # <<>>,
         NoClient \notin In(s),
         \A d \in In(s) \ {a} : d \in DOMAIN to /\ to[d] = next[d]
  PROVE  /\ Strung(Tail(s), to, next[a], IF next[a] = NoClient THEN NoClient ELSE z)
         /\ In(Tail(s)) = In(s) \ {a}
         /\ Len(Tail(s)) = Len(s) - 1
<1> DEFINE t == Tail(s)
           n == Len(s)
<1>1. /\ s \in Seq(Client) /\ n \in Nat /\ n # 0
      /\ \A i, j \in 1..n : s[i] = s[j] => i = j
      /\ a = s[1] /\ z = s[n]
      /\ \A i \in 1..n : s[i] \in DOMAIN next /\ next[s[i]] = IF i < n THEN s[i + 1] ELSE NoClient
      /\ \A i, j \in 1..n : s[i][2] = s[j][2] => i = j
  BY StrungIs DEF Strung
<1>2. /\ t \in Seq(Client) /\ Len(t) = n - 1
      /\ \A i \in 1..n - 1 : t[i] = s[i + 1]
      /\ t = <<>> <=> n - 1 = 0
  <2>1. /\ t \in Seq(Client) /\ Len(t) = n - 1
        /\ \A i \in 1..Len(t) : t[i] = s[i + 1]
    BY <1>1, HeadTailProperties
  <2>2. t = <<>> <=> Len(t) = 0
    BY <2>1, EmptySeq
  <2> QED
    BY <2>1, <2>2
<1>3. \A i \in 1..n : s[i] \in In(s)
  BY DEF In
<1>4. next[a] = IF n = 1 THEN NoClient ELSE s[2]
  <2> HIDE DEF n
  <2>1. 1 \in 1..n /\ (1 < n <=> n # 1) /\ 1 + 1 = 2
    BY <1>1
  <2> QED
    BY <1>1, <2>1
<1> HIDE DEF t, n
<1>5. \A i \in 1..n - 1 : /\ i + 1 \in 1..n /\ i + 1 # 1 /\ s[i + 1] # s[1]
                          /\ (i < n - 1 <=> i + 1 < n)
                          /\ (i < n - 1 => i + 1 \in 1..n - 1)
  <2> SUFFICES ASSUME NEW i \in 1..n - 1
               PROVE  /\ i + 1 \in 1..n /\ i + 1 # 1 /\ s[i + 1] # s[1]
                      /\ (i < n - 1 <=> i + 1 < n)
                      /\ (i < n - 1 => i + 1 \in 1..n - 1)
    OBVIOUS
  <2>1. /\ i + 1 \in 1..n /\ i + 1 # 1 /\ 1 \in 1..n
        /\ (i < n - 1 <=> i + 1 < n)
        /\ (i < n - 1 => i + 1 \in 1..n - 1)
    BY <1>1
  <2> QED
    BY <1>1, <2>1
<1>6. \A i \in 1..Len(t) : /\ t[i] \in DOMAIN to
                           /\ to[t[i]] = IF i < Len(t) THEN t[i + 1] ELSE NoClient
  <2> SUFFICES ASSUME NEW i \in 1..n - 1
               PROVE  /\ t[i] \in DOMAIN to
                      /\ to[t[i]] = IF i < n - 1 THEN t[i + 1] ELSE NoClient
    BY <1>2
  <2>1. t[i] = s[i + 1] /\ s[i + 1] \in In(s) \ {a}
    BY <1>1, <1>2, <1>3, <1>5
  <2>2. next[s[i + 1]] = IF i + 1 < n THEN s[i + 1 + 1] ELSE NoClient
    BY <1>1, <1>5
  <2>3. i < n - 1 => t[i + 1] = s[i + 1 + 1]
    BY <1>2, <1>5
  <2> QED
    BY <1>5, <2>1, <2>2, <2>3
<1>7. \A i, j \in 1..Len(t) : t[i][2] = t[j][2] => i = j
  <2> SUFFICES ASSUME NEW i \in 1..n - 1, NEW j \in 1..n - 1, t[i][2] = t[j][2]
               PROVE  i = j
    BY <1>2
  <2>1. s[i + 1][2] = s[j + 1][2] /\ i + 1 \in 1..n /\ j + 1 \in 1..n
    BY <1>2, <1>5
  <2>2. i + 1 = j + 1
    BY <1>1, <2>1
  <2> QED
    BY <2>2
<1>8. ASSUME n = 1
      PROVE  Strung(t, to, next[a], IF next[a] = NoClient THEN NoClient ELSE z)
  BY <1>1, <1>2, <1>4, <1>6, <1>7, <1>8 DEF Strung
<1>9. ASSUME n # 1
      PROVE  Strung(t, to, next[a], IF next[a] = NoClient THEN NoClient ELSE z)
  <2>1. /\ 1 \in 1..n - 1 /\ n - 1 \in 1..n - 1 /\ n - 1 + 1 = n /\ 1 + 1 = 2 /\ n - 1 # 0
        /\ 2 \in 1..n
    BY <1>1, <1>9
  <2>2. t[1] = s[2] /\ t[n - 1] = s[n] /\ s[2] # NoClient
    BY <1>2, <1>3, <2>1
  <2> QED
    BY <1>1, <1>2, <1>4, <1>6, <1>7, <1>9, <2>1, <2>2 DEF Strung
<1>10. In(t) = In(s) \ {a}
  <2>1. In(t) = {t[i] : i \in 1..n - 1} /\ In(s) = {s[i] : i \in 1..n}
    BY <1>2 DEF In, n
  <2>2. ASSUME NEW d \in In(t)
        PROVE  d \in In(s) \ {a}
    BY SMTT(30), <1>1, <1>2, <1>5, <2>1, <2>2
  <2>3. ASSUME NEW d \in In(s) \ {a}
        PROVE  d \in In(t)
    <3>1. PICK i \in 1..n : d = s[i]
      BY <2>1, <2>3
    <3>2. i - 1 \in 1..n - 1 /\ i - 1 + 1 = i
      BY <1>1, <2>3, <3>1
    <3> QED
      BY <1>2, <2>1, <3>1, <3>2
  <2> QED
    BY <2>2, <2>3
<1> QED
  BY <1>2, <1>8, <1>9, <1>10 DEF t, n

\* Nothing is strung.
LEMMA StrungNothing ==
  ASSUME NEW next
  PROVE  Strung(<<>>, next, NoClient, NoClient) /\ In(<<>>) = {}
<1>1. <<>> \in Seq(Client) /\ Len(<<>>) = 0 /\ 1..0 = {}
  BY EmptySeq
<1> QED
  BY <1>1 DEF Strung, In

----------------------------------------------------------------------------
\* What the walks find in all queues.
LEMMA LinesAre ==
  ASSUME NEW line, NEW next, NEW a, NEW z, NEW num, Lined(line, next, a, z, num)
  PROVE  /\ NoClient \notin DOMAIN next
         /\ \A q \in Queues : Line(next, a[q]) = line[q]
         /\ \A q \in Queues : NoClient \notin In(line[q])
         /\ \A q \in Queues : In(line[q]) \subseteq DOMAIN next /\ In(line[q]) \subseteq Client
<1>1. \A q \in Queues : In(line[q]) \subseteq Client
  BY StrungIs DEF In, Lined
<1>2. \A d : d \in DOMAIN next <=> \E q \in Queues : d \in In(line[q])
  BY DEF Lined
<1>3. NoClient \notin DOMAIN next
  BY <1>1, <1>2, QueueAssumption DEF Client
<1>4. ASSUME NEW q \in Queues
      PROVE  Line(next, a[q]) = line[q]
  <2>1. Strung(line[q], next, a[q], z[q]) /\ num[q] \in 0..MaxClients /\ Len(line[q]) <= num[q]
    BY DEF Lined, Fits
  <2>2. Len(line[q]) <= MaxClients
    BY <2>1, StrungIs, QueueAssumption
  <2> QED
    BY <1>3, <2>1, <2>2, LineIs
<1> QED
  BY <1>1, <1>2, <1>3, <1>4

\* One queue gets another chain, and those of the others stay.
LEMMA LineReplaced ==
  ASSUME NEW line, Lined(line, following, first, last, numClients),
         NEW q \in Queues, NEW s,
         Strung(s, following', first'[q], last'[q]), Fits(s, numClients'[q]),
         \A r \in Queues \ {q} :
           /\ first'[r] = first[r] /\ last'[r] = last[r] /\ numClients'[r] = numClients[r]
           /\ \A d \in In(line[r]) : d \in DOMAIN following' /\ following'[d] = following[d]
           /\ In(s) \cap In(line[r]) = {},
         \A d : d \in DOMAIN following' <=>
                  d \in In(s) \/ \E r \in Queues \ {q} : d \in In(line[r])
  PROVE  Lined([line EXCEPT ![q] = s], following', first', last', numClients')
<1> DEFINE new == [line EXCEPT ![q] = s]
<1>1. /\ DOMAIN new = Queues /\ new[q] = s
      /\ \A r \in Queues \ {q} : new[r] = line[r]
  BY DEF Lined
<1> HIDE DEF new
<1>2. ASSUME NEW r \in Queues
      PROVE  Strung(new[r], following', first'[r], last'[r]) /\ Fits(new[r], numClients'[r])
  <2>1. CASE r = q
    BY <1>1, <2>1
  <2>2. CASE r # q
    <3>1. Strung(line[r], following, first[r], last[r]) /\ Fits(line[r], numClients[r])
      BY DEF Lined
    <3>2. Strung(line[r], following', first[r], last[r])
      BY <2>2, <3>1, StrungElsewhere
    <3> QED
      BY <1>1, <2>2, <3>1, <3>2
  <2> QED
    BY <2>1, <2>2
<1>3. ASSUME NEW r \in Queues, NEW t \in Queues, r # t
      PROVE  In(new[r]) \cap In(new[t]) = {}
  BY <1>1, <1>3 DEF Lined
<1>4. \A d : d \in DOMAIN following' <=> \E r \in Queues : d \in In(new[r])
  BY <1>1, Zenon
<1>5. Lined(new, following', first', last', numClients')
  BY <1>1, <1>2, <1>3, <1>4 DEF Lined
<1> QED
  BY <1>5 DEF new

\* And the clients of the others still come from where they did.
LEMMA ReturningReplaced ==
  ASSUME NEW line, Lined(line, following, first, last, numClients),
         Returning(line, origin, owned), owned' = owned, NEW q \in Queues, NEW s,
         \A d \in In(s) : origin'[d] = owned[q][1],
         \A r \in Queues \ {q} : \A d \in In(line[r]) : origin'[d] = origin[d]
  PROVE  Returning([line EXCEPT ![q] = s], origin', owned')
<1> DEFINE new == [line EXCEPT ![q] = s]
<1>1. new[q] = s /\ \A r \in Queues \ {q} : new[r] = line[r]
  BY DEF Lined
<1> HIDE DEF new
<1>2. ASSUME NEW r \in Queues, NEW d \in In(new[r])
      PROVE  origin'[d] = owned[r][1]
  <2>1. CASE r = q
    BY <1>1, <1>2, <2>1
  <2>2. CASE r # q
    BY <1>1, <1>2, <2>2 DEF Returning
  <2> QED
    BY <2>1, <2>2
<1>3. Returning(new, origin', owned')
  BY <1>2 DEF Returning
<1> QED
  BY <1>3 DEF new

\* A queue that calls the allocator it owns finds it there.
LEMMA NothingStrays ==
  ASSUME DeletedOnce, strayed = "no", NEW q \in standing, Uses(q) \/ Returns(q)
  PROVE  strayed' # "own"
<1>1. CASE Uses(q)
  BY <1>1 DEF Uses, DeletedOnce
<1>2. CASE Returns(q)
  BY <1>1, <1>2 DEF Returns
<1> QED
  BY <1>1, <1>2

\* The items of a chain.
Items(s) == [i \in DOMAIN s |-> s[i][2]]

\* A client more, or one less, is an item more or less.
LEMMA ItemsAppended ==
  ASSUME NEW s \in Seq(Client), NEW c \in Client
  PROVE  Items(Append(s, c)) = Append(Items(s), c[2])
<1>1. Len(s) \in Nat /\ DOMAIN s = 1..Len(s)
  BY LenProperties
<1>2. \A i \in 1..Len(s) : s[i] \in Client
  BY ElementOfSeq
<1>3. Items(s) \in Seq(Customer) /\ Len(Items(s)) = Len(s)
  <2>1. Items(s) \in [1..Len(s) -> Customer]
    BY <1>1, <1>2 DEF Items, Client
  <2>2. Items(s) \in Seq(Customer)
    BY <1>1, <2>1, SeqDef
  <2>3. DOMAIN Items(s) = 1..Len(s)
    BY <1>1 DEF Items
  <2> QED
    BY <1>1, <2>2, <2>3, LenProperties
<1>4. /\ Append(s, c) \in Seq(Client) /\ Len(Append(s, c)) = Len(s) + 1
      /\ \A i \in 1..Len(s) : Append(s, c)[i] = s[i]
      /\ Append(s, c)[Len(s) + 1] = c
  BY AppendProperties
<1>5. DOMAIN Append(s, c) = 1..Len(s) + 1
  BY <1>4, LenProperties
<1>6. c[2] \in Customer
  BY DEF Client
<1>7. /\ Append(Items(s), c[2]) \in Seq(Customer)
      /\ Len(Append(Items(s), c[2])) = Len(s) + 1
      /\ \A i \in 1..Len(s) : Append(Items(s), c[2])[i] = Items(s)[i]
      /\ Append(Items(s), c[2])[Len(s) + 1] = c[2]
  BY <1>3, <1>6, AppendProperties
<1>8. Append(Items(s), c[2]) = [i \in 1..Len(s) + 1 |-> Append(Items(s), c[2])[i]]
  BY <1>7, LenProperties
<1>9. ASSUME NEW i \in 1..Len(s) + 1
      PROVE  Append(s, c)[i][2] = Append(Items(s), c[2])[i]
  <2>1. CASE i = Len(s) + 1
    BY <1>4, <1>7, <2>1
  <2>2. CASE i \in 1..Len(s)
    BY <1>1, <1>4, <1>7, <2>2 DEF Items
  <2>3. i = Len(s) + 1 \/ i \in 1..Len(s)
    BY <1>1
  <2> QED
    BY Zenon, <2>1, <2>2, <2>3
<1> QED
  BY <1>5, <1>8, <1>9 DEF Items

\* The first one less.
LEMMA ItemsTail ==
  ASSUME NEW s \in Seq(Client), s # <<>>
  PROVE  Items(s) # <<>> /\ Items(Tail(s)) = Tail(Items(s))
<1>1. Len(s) \in Nat \ {0} /\ DOMAIN s = 1..Len(s)
  BY LenProperties, EmptySeq
<1>2. \A i \in 1..Len(s) : s[i] \in Client
  BY ElementOfSeq
<1>3. Items(s) \in Seq(Customer) /\ Len(Items(s)) = Len(s)
  <2>1. Items(s) \in [1..Len(s) -> Customer]
    BY <1>1, <1>2 DEF Items, Client
  <2>2. Items(s) \in Seq(Customer)
    BY <1>1, <2>1, SeqDef
  <2>3. DOMAIN Items(s) = 1..Len(s)
    BY <1>1 DEF Items
  <2> QED
    BY <1>1, <2>2, <2>3, LenProperties
<1>4. Items(s) # <<>>
  BY <1>1, <1>3, EmptySeq
<1>5. /\ Tail(s) \in Seq(Client) /\ Len(Tail(s)) = Len(s) - 1
      /\ \A i \in 1..Len(Tail(s)) : Tail(s)[i] = s[i + 1]
  BY HeadTailProperties
<1>6. /\ Tail(Items(s)) \in Seq(Customer) /\ Len(Tail(Items(s))) = Len(s) - 1
      /\ \A i \in 1..Len(Tail(Items(s))) : Tail(Items(s))[i] = Items(s)[i + 1]
  BY <1>3, <1>4, HeadTailProperties
<1>7. DOMAIN Tail(s) = 1..Len(s) - 1
  BY <1>5, LenProperties
<1>8. Tail(Items(s)) = [i \in 1..Len(s) - 1 |-> Tail(Items(s))[i]]
  BY <1>6, LenProperties
<1>9. ASSUME NEW i \in 1..Len(s) - 1
      PROVE  Tail(s)[i][2] = Tail(Items(s))[i]
  <2>1. i + 1 \in 1..Len(s)
    BY <1>1
  <2> QED
    BY <1>1, <1>5, <1>6, <2>1 DEF Items
<1> QED
  BY <1>4, <1>7, <1>8, <1>9 DEF Items

\* How chains may change.
LEMMA FifoStepOf ==
  ASSUME NEW line, Lined(line, following, first, last, numClients),
         NEW new, Lined(new, following', first', last', numClients'),
         \A q \in Queues :
           \/ \E r \in Queues : Items(new[q]) = Items(line[r])
           \/ new[q] = <<>>
           \/ \E c \in Client : new[q] = Append(line[q], c)
           \/ line[q] # <<>> /\ new[q] = Tail(line[q])
  PROVE  FifoStep
<1> DEFINE before == [q \in Queues |-> Content(q)]
           after == [q \in Queues |-> Content(q)']
<1>1. \A q \in Queues : ClientsOf(q) = line[q] /\ Line(following', first'[q]) = new[q]
  BY LinesAre DEF ClientsOf
<1>2. \A q \in Queues : Content(q) = Items(line[q]) /\ Content(q)' = Items(new[q])
  BY <1>1 DEF Content, Items, ClientsOf
<1>3. \A q \in Queues : before[q] = Items(line[q]) /\ after[q] = Items(new[q])
  BY <1>2
<1> HIDE DEF before, after
<1>4. ASSUME NEW q \in Queues
      PROVE  \/ after[q] \in {before[r] : r \in Queues} \cup {<<>>}
             \/ \E x \in Customer : after[q] = Append(before[q], x)
             \/ before[q] # <<>> /\ after[q] = Tail(before[q])
  <2>1. line[q] \in Seq(Client)
    BY DEF Lined, Strung
  <2>2. CASE \E r \in Queues : Items(new[q]) = Items(line[r])
    BY <1>3, <2>2
  <2>3. CASE new[q] = <<>>
    <3>1. Items(<<>>) = <<>>
      BY DEF Items
    <3> QED
      BY <1>3, <2>3, <3>1
  <2>4. ASSUME NEW c \in Client, new[q] = Append(line[q], c)
        PROVE  \E x \in Customer : after[q] = Append(before[q], x)
    <3>1. after[q] = Append(before[q], c[2])
      BY <1>3, <2>1, <2>4, ItemsAppended
    <3>2. c[2] \in Customer
      BY DEF Client
    <3> QED
      BY <3>1, <3>2
  <2>5. CASE line[q] # <<>> /\ new[q] = Tail(line[q])
    BY <1>3, <2>1, <2>5, ItemsTail
  <2> QED
    BY <2>2, <2>3, <2>4, <2>5
<1> QED
  BY <1>4 DEF FifoStep, before, after

----------------------------------------------------------------------------
\* A client can be made for an item that a queue does not hold: each of the other
\* queues holds it once at most.
LEMMA FreshExists ==
  ASSUME NEW q \in Queues, NEW x, NEW D, NEW line,
         \A r \in Queues : <<r, x>> \in D => \E t \in Queues \ {q} : <<r, x>> \in In(line[t]),
         \A t \in Queues : \A i, j \in 1..Len(line[t]) : line[t][i][2] = line[t][j][2] => i = j
  PROVE  \E r \in Queues : <<r, x>> \notin D
<1> SUFFICES ASSUME \A r \in Queues : <<r, x>> \in D
             PROVE  FALSE
  OBVIOUS
<1> DEFINE holder == [r \in Queues |-> CHOOSE t \in Queues \ {q} : <<r, x>> \in In(line[t])]
<1>1. \A r \in Queues : holder[r] \in Queues \ {q} /\ <<r, x>> \in In(line[holder[r]])
  BY Zenon
<1>2. holder \in [Queues -> Queues \ {q}]
  BY <1>1
<1>3. /\ IsFiniteSet(Queues \ {q})
      /\ Cardinality(Queues \ {q}) = Cardinality(Queues) - 1
      /\ Cardinality(Queues) \in Nat
  BY QueueAssumption, FS_RemoveElement, FS_CardinalityType
<1>4. Cardinality(Queues \ {q}) < Cardinality(Queues)
  BY <1>3
<1> HIDE DEF holder
<1>5. PICK r \in Queues, t \in Queues : r # t /\ holder[r] = holder[t]
  BY <1>2, <1>3, <1>4, QueueAssumption, FS_PigeonHole
<1> DEFINE s == line[holder[r]]
<1>6. PICK i \in 1..Len(s) : s[i] = <<r, x>>
  BY <1>1 DEF In
<1>7. PICK j \in 1..Len(s) : s[j] = <<t, x>>
  <2>1. <<t, x>> \in In(s)
    BY <1>1, <1>5
  <2> QED
    BY <2>1 DEF In
<1>8. i = j
  <2>1. s[i][2] = s[j][2]
    BY <1>6, <1>7
  <2>2. holder[r] \in Queues
    BY <1>1
  <2> QED
    BY <2>1, <2>2
<1> QED
  BY <1>5, <1>6, <1>7, <1>8

\* push.
LEMMA EnqueueKeeps ==
  ASSUME QueueInv, strayed = "no", NEW q \in Queues, q \in standing,
         NEW x \in Customer, Enqueue(q, x)
  PROVE  QueueInv' /\ FifoStep
<1> DEFINE c == FreshClient(q, x)
<1>1. PICK line : /\ Lined(line, following, first, last, numClients)
                  /\ Returning(line, origin, owned)
  BY DEF QueueInv
<1>2. /\ \A r \in Queues : ClientsOf(r) = line[r] /\ NoClient \notin In(line[r])
      /\ NoClient \notin DOMAIN following
      /\ \A r \in Queues : In(line[r]) \subseteq DOMAIN following
  BY <1>1, LinesAre DEF ClientsOf
<1>3. /\ \A r \in Queues : Strung(line[r], following, first[r], last[r])
      /\ \A r \in Queues : numClients[r] \in 0..MaxClients /\ Len(line[r]) <= numClients[r]
      /\ \A r, t \in Queues : r # t => In(line[r]) \cap In(line[t]) = {}
      /\ \A d : d \in DOMAIN following <=> \E r \in Queues : d \in In(line[r])
  BY <1>1 DEF Lined, Fits
<1> DEFINE s == line[q]
<1>4. /\ s \in Seq(Client) /\ Len(s) \in Nat /\ (s = <<>> <=> Len(s) = 0)
      /\ DOMAIN s = 1..Len(s)
  <2>1. s \in Seq(Client) /\ Len(s) \in Nat /\ (s = <<>> <=> Len(s) = 0)
    BY <1>3, StrungIs
  <2> QED
    BY <2>1, LenProperties
<1>5. \A i \in 1..Len(s) : s[i][2] # x
  BY <1>2, <1>4 DEF Enqueue, Content
<1>6. c \in Queues \X {x} /\ c \notin DOMAIN following
  <2>1. \A r \in Queues : <<r, x>> \in DOMAIN following => \E t \in Queues \ {q} : <<r, x>> \in In(line[t])
    <3> SUFFICES ASSUME NEW r \in Queues, <<r, x>> \in DOMAIN following
                 PROVE  \E t \in Queues \ {q} : <<r, x>> \in In(line[t])
      OBVIOUS
    <3>1. PICK t \in Queues : <<r, x>> \in In(line[t])
      BY <1>3
    <3>2. <<r, x>>[2] = x
      OBVIOUS
    <3>3. t # q
      BY <1>5, <3>1, <3>2 DEF In
    <3> QED
      BY <3>1, <3>3
  <2>2. \A t \in Queues : \A i, j \in 1..Len(line[t]) : line[t][i][2] = line[t][j][2] => i = j
    BY <1>3 DEF Strung
  <2>3. PICK r \in Queues : <<r, x>> \notin DOMAIN following
    BY <2>1, <2>2, FreshExists
  <2>4. \E d \in Queues \X {x} : d \notin DOMAIN following /\
                 (<<q, x>> \notin DOMAIN following => d = <<q, x>>)
    <3>1. CASE <<q, x>> \in DOMAIN following
      BY <2>3, <3>1
    <3>2. CASE <<q, x>> \notin DOMAIN following
      BY <3>2
    <3> QED
      BY <3>1, <3>2
  <2> QED
    BY <2>4 DEF FreshClient
<1>7. /\ numClients[q] < MaxClients
      /\ following' = IF last[q] = NoClient THEN Set(following, c, NoClient)
                      ELSE [Set(following, c, NoClient) EXCEPT ![last[q]] = c]
      /\ first' = [first EXCEPT ![q] = IF last[q] = NoClient THEN c ELSE first[q]]
      /\ last' = [last EXCEPT ![q] = c]
      /\ numClients' = [numClients EXCEPT ![q] = numClients[q] + 1]
      /\ origin' = Set(origin, c, owned[q][1])
      /\ owned' = owned /\ standing' = standing /\ deleted' = deleted
      /\ strayed' # "own"
  BY NothingStrays DEF Enqueue, QueueInv
<1> HIDE DEF c
<1>8. c \in Client /\ c[2] = x /\ c # NoClient
  BY <1>6, QueueAssumption DEF Client
<1>9. /\ s = <<>> => last[q] = NoClient
      /\ s # <<>> => last[q] \in In(s) /\ last[q] # NoClient
  <2>1. s # <<>> => Len(s) \in 1..Len(s)
    BY <1>4
  <2>2. s # <<>> => last[q] \in In(s)
    BY <1>3, <2>1 DEF Strung, In
  <2> QED
    BY <1>2, <1>3, <2>2 DEF Strung
<1>10. /\ DOMAIN following' = DOMAIN following \cup {c}
       /\ following'[c] = NoClient
       /\ \A d \in DOMAIN following : following'[d] = IF d = last[q] THEN c ELSE following[d]
  <2>1. CASE last[q] = NoClient
    BY <1>2, <1>6, <1>7, <2>1 DEF Set
  <2>2. CASE last[q] # NoClient
    <3>1. last[q] \in DOMAIN following /\ last[q] # c
      BY <1>2, <1>6, <1>9, <2>2
    <3> QED
      BY <1>6, <1>7, <2>2, <3>1 DEF Set
  <2> QED
    BY <2>1, <2>2
<1>11. /\ first'[q] = IF s = <<>> THEN c ELSE first[q]
       /\ last'[q] = c
       /\ numClients'[q] = numClients[q] + 1
       /\ \A r \in Queues \ {q} : first'[r] = first[r] /\ last'[r] = last[r]
                                  /\ numClients'[r] = numClients[r]
  BY <1>7, <1>9 DEF QueueInv
<1> DEFINE t == Append(s, c)
<1>12. /\ Strung(t, following', first'[q], last'[q])
       /\ In(t) = In(s) \cup {c}
       /\ Len(t) = Len(s) + 1
  <2>1. \A d \in In(s) : d \in DOMAIN following' /\ following'[d] = IF d = last[q] THEN c ELSE following[d]
    BY <1>2, <1>10
  <2>2. c \in DOMAIN following' /\ following'[c] = NoClient /\ \A i \in 1..Len(s) : s[i][2] # c[2]
    BY <1>5, <1>8, <1>10
  <2>3. Strung(s, following, first[q], last[q])
    BY <1>3
  <2> HIDE DEF s
  <2>4. /\ Strung(t, following', IF s = <<>> THEN c ELSE first[q], c)
        /\ In(t) = In(s) \cup {c}
        /\ Len(t) = Len(s) + 1
    BY <1>8, <2>1, <2>2, <2>3, StrungAppended
  <2> QED
    BY <1>11, <2>4 DEF s
<1>13. Fits(t, numClients'[q])
  <2> HIDE DEF t, s
  <2>1. numClients[q] \in 0..MaxClients /\ Len(s) <= numClients[q]
    BY <1>3 DEF s
  <2> QED
    BY <1>4, <1>7, <1>11, <1>12, <2>1, QueueAssumption DEF Fits
<1>14. \A r \in Queues \ {q} :
         /\ \A d \in In(line[r]) : d \in DOMAIN following' /\ following'[d] = following[d]
         /\ In(t) \cap In(line[r]) = {}
  <2> SUFFICES ASSUME NEW r \in Queues \ {q}
               PROVE  /\ \A d \in In(line[r]) : d \in DOMAIN following' /\ following'[d] = following[d]
                      /\ In(t) \cap In(line[r]) = {}
    OBVIOUS
  <2>1. In(line[r]) \subseteq DOMAIN following /\ In(s) \cap In(line[r]) = {}
        /\ NoClient \notin In(line[r])
    BY <1>2, <1>3
  <2>2. last[q] \notin In(line[r])
    BY <1>9, <2>1
  <2> HIDE DEF s, t
  <2> QED
    BY <1>6, <1>10, <1>12, <2>1, <2>2
<1>15. \A d : d \in DOMAIN following' <=>
              d \in In(t) \/ \E r \in Queues \ {q} : d \in In(line[r])
  <2>1. \A d : d \in DOMAIN following <=>
               d \in In(s) \/ \E r \in Queues \ {q} : d \in In(line[r])
    BY <1>3
  <2> HIDE DEF s, t
  <2> QED
    BY <1>10, <1>12, <2>1
<1> DEFINE new == [line EXCEPT ![q] = t]
<1>16. Lined(new, following', first', last', numClients')
  <2> HIDE DEF t, s
  <2>1. \A r \in Queues \ {q} :
          /\ first'[r] = first[r] /\ last'[r] = last[r] /\ numClients'[r] = numClients[r]
          /\ \A d \in In(line[r]) : d \in DOMAIN following' /\ following'[d] = following[d]
          /\ In(t) \cap In(line[r]) = {}
    BY <1>11, <1>14
  <2>2. Strung(t, following', first'[q], last'[q])
    BY <1>12
  <2> QED
    BY <1>1, <1>13, <1>15, <2>1, <2>2, LineReplaced
<1>17. \A r \in Queues :
         \/ \E u \in Queues : Items(new[r]) = Items(line[u])
         \/ \E d \in Client : new[r] = Append(line[r], d)
  BY <1>1, <1>8 DEF Lined
<1>18. /\ DOMAIN origin' = DOMAIN following'
       /\ origin'[c] = owned[q][1]
       /\ \A d \in DOMAIN following : origin'[d] = origin[d]
  BY <1>6, <1>7, <1>10 DEF Set, QueueInv
<1>19. Returning(new, origin', owned')
  <2> HIDE DEF t, s
  <2>1. \A d \in In(s) : origin[d] = owned[q][1]
    BY <1>1 DEF Returning, s
  <2>2. \A d \in In(t) : origin'[d] = owned[q][1]
    BY <1>2, <1>12, <1>18, <2>1 DEF s
  <2>3. \A r \in Queues \ {q} : \A d \in In(line[r]) : origin'[d] = origin[d]
    BY <1>2, <1>18
  <2> QED
    BY <1>1, <1>7, <2>2, <2>3, ReturningReplaced
<1>20. QueueInv'
  <2> HIDE DEF new
  <2>1. DeletedOnce'
    BY <1>7 DEF QueueInv, DeletedOnce
  <2> QED
    BY <1>7, <1>16, <1>18, <1>19, <2>1 DEF QueueInv
<1> HIDE DEF new
<1>21. FifoStep
  BY <1>1, <1>16, <1>17, FifoStepOf
<1> QED
  BY <1>20, <1>21

\* The chains, and what is in one.
LEMMA ChainsAre ==
  ASSUME NEW line, Lined(line, following, first, last, numClients)
  PROVE  /\ \A r \in Queues :
              /\ ClientsOf(r) = line[r] /\ NoClient \notin In(line[r])
              /\ In(line[r]) \subseteq DOMAIN following
              /\ Strung(line[r], following, first[r], last[r])
              /\ Fits(line[r], numClients[r])
              /\ line[r] \in Seq(Client) /\ DOMAIN line[r] = 1..Len(line[r])
              /\ {ClientsOf(r)[i] : i \in DOMAIN ClientsOf(r)} = In(line[r])
         /\ NoClient \notin DOMAIN following
         /\ \A r, t \in Queues : r # t => In(line[r]) \cap In(line[t]) = {}
         /\ \A d : d \in DOMAIN following <=> \E r \in Queues : d \in In(line[r])
<1>1. \A r \in Queues :
        /\ ClientsOf(r) = line[r] /\ NoClient \notin In(line[r])
        /\ In(line[r]) \subseteq DOMAIN following
  BY LinesAre DEF ClientsOf
<1>2. \A r \in Queues :
        /\ Strung(line[r], following, first[r], last[r])
        /\ Fits(line[r], numClients[r])
  BY DEF Lined
<1>3. \A r \in Queues : line[r] \in Seq(Client) /\ DOMAIN line[r] = 1..Len(line[r])
  BY <1>2, LenProperties DEF Strung
<1>4. \A r \in Queues : {ClientsOf(r)[i] : i \in DOMAIN ClientsOf(r)} = In(line[r])
  BY <1>1, <1>3 DEF In
<1>5. NoClient \notin DOMAIN following
  BY LinesAre
<1> QED
  BY <1>1, <1>2, <1>3, <1>4, <1>5 DEF Lined

\* pop and removeFirst.
LEMMA DequeueKeeps ==
  ASSUME QueueInv, strayed = "no", NEW q \in Queues, q \in standing, Dequeue(q)
  PROVE  QueueInv' /\ FifoStep
<1>1. PICK line : /\ Lined(line, following, first, last, numClients)
                  /\ Returning(line, origin, owned)
  BY DEF QueueInv
<1> DEFINE s == line[q]
           t == Tail(s)
           new == [line EXCEPT ![q] = t]
<1>2. /\ first[q] # NoClient
      /\ following' = Free(following, {first[q]})
      /\ first' = [first EXCEPT ![q] = following[first[q]]]
      /\ last' = [last EXCEPT ![q] = IF first'[q] = NoClient THEN NoClient ELSE last[q]]
      /\ numClients' = [numClients EXCEPT ![q] = numClients[q] - 1]
      /\ origin' = Free(origin, {first[q]})
      /\ owned' = owned /\ standing' = standing /\ deleted' = deleted
      /\ strayed' # "own"
  BY NothingStrays DEF Dequeue, QueueInv
<1>3. /\ Strung(s, following, first[q], last[q]) /\ Fits(s, numClients[q])
      /\ NoClient \notin In(s) /\ s \in Seq(Client)
  BY <1>1, ChainsAre
<1>4. s # <<>> /\ first[q] \in In(s)
  <2>1. s # <<>> /\ first[q] = s[1]
    BY <1>2, <1>3 DEF Strung
  <2>2. 1 \in 1..Len(s)
    BY <1>3, <2>1, EmptySeq
  <2> QED
    BY <2>1, <2>2 DEF In
<1>5. /\ first'[q] = following[first[q]]
      /\ last'[q] = IF following[first[q]] = NoClient THEN NoClient ELSE last[q]
      /\ numClients'[q] = numClients[q] - 1
      /\ \A r \in Queues \ {q} : first'[r] = first[r] /\ last'[r] = last[r]
                                 /\ numClients'[r] = numClients[r]
  BY <1>2 DEF QueueInv
<1>6. /\ DOMAIN following' = DOMAIN following \ {first[q]}
      /\ \A d \in DOMAIN following' : following'[d] = following[d]
  BY <1>2 DEF Free
<1>7. /\ Strung(t, following', first'[q], last'[q])
      /\ In(t) = In(s) \ {first[q]}
      /\ Len(t) = Len(s) - 1
  <2>1. \A d \in In(s) \ {first[q]} : d \in DOMAIN following' /\ following'[d] = following[d]
    BY <1>1, <1>6, ChainsAre
  <2> HIDE DEF s
  <2> QED
    BY <1>3, <1>4, <1>5, <2>1, StrungTail
<1>8. Fits(t, numClients'[q])
  <2> HIDE DEF s, t
  <2>1. Len(s) \in Nat \ {0}
    BY <1>3, <1>4, EmptySeq
  <2> QED
    BY <1>3, <1>5, <1>7, <2>1, QueueAssumption DEF Fits
<1>9. \A r \in Queues \ {q} :
        /\ first'[r] = first[r] /\ last'[r] = last[r] /\ numClients'[r] = numClients[r]
        /\ \A d \in In(line[r]) : d \in DOMAIN following' /\ following'[d] = following[d]
        /\ In(t) \cap In(line[r]) = {}
  <2> SUFFICES ASSUME NEW r \in Queues \ {q}
               PROVE  /\ \A d \in In(line[r]) : d \in DOMAIN following' /\ following'[d] = following[d]
                      /\ In(t) \cap In(line[r]) = {}
    BY <1>5
  <2>1. In(line[r]) \subseteq DOMAIN following /\ In(s) \cap In(line[r]) = {}
    BY <1>1, ChainsAre
  <2> HIDE DEF s, t
  <2> QED
    BY <1>4, <1>6, <1>7, <2>1
<1>10. \A d : d \in DOMAIN following' <=>
              d \in In(t) \/ \E r \in Queues \ {q} : d \in In(line[r])
  <2>1. \A d : d \in DOMAIN following <=>
               d \in In(s) \/ \E r \in Queues \ {q} : d \in In(line[r])
    BY <1>1, ChainsAre
  <2>2. \A r \in Queues \ {q} : first[q] \notin In(line[r])
    BY <1>1, <1>4, ChainsAre
  <2> HIDE DEF s, t
  <2> QED
    BY <1>6, <1>7, <2>1, <2>2
<1>11. Lined(new, following', first', last', numClients')
  <2> HIDE DEF s, t
  <2> QED
    BY <1>1, <1>7, <1>8, <1>9, <1>10, LineReplaced
<1>12. \A r \in Queues :
         \/ \E u \in Queues : Items(new[r]) = Items(line[u])
         \/ line[r] # <<>> /\ new[r] = Tail(line[r])
  BY <1>1, <1>4 DEF Lined
<1>13. DOMAIN origin' = DOMAIN following' /\ \A d \in DOMAIN origin' : origin'[d] = origin[d]
  BY <1>2, <1>6 DEF Free, QueueInv
<1>14. Returning(new, origin', owned')
  <2> HIDE DEF s, t
  <2>1. \A d \in In(s) : origin[d] = owned[q][1] /\ d \in DOMAIN following
    BY <1>1, ChainsAre DEF Returning, s
  <2>2. \A d \in In(t) : origin'[d] = owned[q][1]
    BY <1>6, <1>7, <1>13, <2>1
  <2>3. \A r \in Queues \ {q} : \A d \in In(line[r]) : origin'[d] = origin[d]
    BY <1>9, <1>13
  <2> QED
    BY <1>1, <1>2, <2>2, <2>3, ReturningReplaced
<1> HIDE DEF new
<1>15. QueueInv'
  <2>1. DeletedOnce'
    BY <1>2 DEF QueueInv, DeletedOnce
  <2> QED
    BY <1>2, <1>11, <1>13, <1>14, <2>1 DEF QueueInv
<1>16. FifoStep
  BY <1>1, <1>11, <1>12, FifoStepOf
<1> QED
  BY <1>15, <1>16

\* empty leaves no link, whether it is called or part of the destructor.
LEMMA EmptyOutKeeps ==
  ASSUME QueueInv, strayed = "no", NEW q \in Queues, q \in standing, EmptyOut(q),
         standing' \subseteq standing, DeletedOnce'
  PROVE  QueueInv' /\ FifoStep
<1>1. PICK line : /\ Lined(line, following, first, last, numClients)
                  /\ Returning(line, origin, owned)
  BY DEF QueueInv
<1> DEFINE new == [line EXCEPT ![q] = <<>>]
<1>2. /\ following' = Free(following, In(line[q]))
      /\ first' = [first EXCEPT ![q] = NoClient]
      /\ last' = [last EXCEPT ![q] = NoClient]
      /\ numClients' = numClients /\ owned' = owned
      /\ origin' = Free(origin, In(line[q]))
      /\ strayed' # "own"
  BY <1>1, ChainsAre, NothingStrays DEF EmptyOut, Waiting, QueueInv
<1>3. /\ DOMAIN following' = DOMAIN following \ In(line[q])
      /\ \A d \in DOMAIN following' : following'[d] = following[d]
  BY <1>2 DEF Free
<1>4. Strung(<<>>, following', first'[q], last'[q]) /\ In(<<>>) = {}
  BY <1>2, StrungNothing DEF QueueInv
<1>5. Fits(<<>>, numClients'[q])
  <2>1. Fits(line[q], numClients[q])
    BY <1>1, ChainsAre
  <2> QED
    BY <1>2, <2>1 DEF Fits
<1>6. \A r \in Queues \ {q} :
        /\ first'[r] = first[r] /\ last'[r] = last[r] /\ numClients'[r] = numClients[r]
        /\ \A d \in In(line[r]) : d \in DOMAIN following' /\ following'[d] = following[d]
        /\ In(<<>>) \cap In(line[r]) = {}
  <2> SUFFICES ASSUME NEW r \in Queues \ {q}
               PROVE  \A d \in In(line[r]) : d \in DOMAIN following' /\ following'[d] = following[d]
    BY <1>2, <1>4 DEF QueueInv
  <2>1. In(line[r]) \subseteq DOMAIN following /\ In(line[q]) \cap In(line[r]) = {}
    BY <1>1, ChainsAre
  <2> QED
    BY <1>3, <2>1
<1>7. \A d : d \in DOMAIN following' <=>
             d \in In(<<>>) \/ \E r \in Queues \ {q} : d \in In(line[r])
  <2>1. \A d : d \in DOMAIN following <=>
               d \in In(line[q]) \/ \E r \in Queues \ {q} : d \in In(line[r])
    BY <1>1, ChainsAre
  <2>2. \A r \in Queues \ {q} : In(line[q]) \cap In(line[r]) = {}
    BY <1>1, ChainsAre
  <2> QED
    BY <1>3, <1>4, <2>1, <2>2
<1>8. Lined(new, following', first', last', numClients')
  BY <1>1, <1>4, <1>5, <1>6, <1>7, LineReplaced
<1>9. \A r \in Queues :
        \/ \E u \in Queues : Items(new[r]) = Items(line[u])
        \/ new[r] = <<>>
  BY <1>1 DEF Lined
<1>10. DOMAIN origin' = DOMAIN following' /\ \A d \in DOMAIN origin' : origin'[d] = origin[d]
  BY <1>2, <1>3 DEF Free, QueueInv
<1>11. Returning(new, origin', owned')
  <2>1. \A d \in In(<<>>) : origin'[d] = owned[q][1]
    BY <1>4
  <2>2. \A r \in Queues \ {q} : \A d \in In(line[r]) : origin'[d] = origin[d]
    BY <1>6, <1>10
  <2> QED
    BY <1>1, <1>2, <2>1, <2>2, ReturningReplaced
<1> HIDE DEF new
<1>12. QueueInv'
  BY <1>2, <1>8, <1>10, <1>11 DEF QueueInv
<1>13. FifoStep
  BY <1>1, <1>8, <1>9, FifoStepOf
<1> QED
  BY <1>12, <1>13

\* empty.
LEMMA ClearKeeps ==
  ASSUME QueueInv, strayed = "no", NEW q \in Queues, q \in standing, Clear(q)
  PROVE  QueueInv' /\ FifoStep
<1>1. EmptyOut(q) /\ owned' = owned /\ standing' = standing /\ deleted' = deleted
  BY DEF Clear, EmptyOut
<1>2. DeletedOnce'
  BY <1>1 DEF QueueInv, DeletedOnce
<1> QED
  BY <1>1, <1>2, EmptyOutKeeps

\* The destructor: nobody else owns what it deletes.
LEMMA DestroyKeeps ==
  ASSUME QueueInv, strayed = "no", NEW q \in Queues, q \in standing, DestroyQueue(q)
  PROVE  QueueInv' /\ FifoStep
<1>1. /\ EmptyOut(q) /\ owned' = owned
      /\ standing' = standing \ {q}
      /\ deleted' = IF owned[q][2] THEN deleted \cup {owned[q][1]} ELSE deleted
  BY DEF DestroyQueue, EmptyOut
<1>2. DeletedOnce'
  BY <1>1 DEF QueueInv, DeletedOnce
<1> QED
  BY <1>1, <1>2, EmptyOutKeeps


\* Copy assignment.
LEMMA CopyQueueKeeps ==
  ASSUME QueueInv, strayed = "no", NEW q \in Queues, q \in standing,
         NEW r \in Queues, r \in standing, CopyQueue(q, r)
  PROVE  QueueInv' /\ FifoStep
<1>1. PICK line : /\ Lined(line, following, first, last, numClients)
                  /\ Returning(line, origin, owned)
  BY DEF QueueInv
<1> DEFINE s == line[r]
           n == Len(s)
           kept == Free(following, Waiting(q))
           copy == [i \in DOMAIN Content(r) |->
                      CHOOSE c \in Queues \X {Content(r)[i]} : c \notin DOMAIN kept]
           cs == {copy[i] : i \in 1..Len(copy)}
           new == [line EXCEPT ![q] = copy]
<1>2. /\ q # r
      /\ following' = [d \in DOMAIN kept \cup cs |->
                         IF d \in DOMAIN kept THEN kept[d]
                         ELSE IF d = copy[Len(copy)] THEN NoClient
                         ELSE copy[1 + CHOOSE i \in 1..Len(copy) : copy[i] = d]]
      /\ first' = [first EXCEPT ![q] = IF Len(copy) = 0 THEN NoClient ELSE copy[1]]
      /\ last' = [last EXCEPT ![q] = IF Len(copy) = 0 THEN NoClient ELSE copy[Len(copy)]]
      /\ numClients' = [numClients EXCEPT ![q] = numClients[r]]
      /\ origin' = [d \in DOMAIN kept \cup cs |->
                      IF d \in DOMAIN kept THEN origin[d] ELSE owned[q][1]]
      /\ owned' = owned /\ standing' = standing /\ deleted' = deleted
  BY Zenon DEF CopyQueue
<1>3. /\ Strung(s, following, first[r], last[r]) /\ Fits(s, numClients[r])
      /\ s \in Seq(Client) /\ n \in Nat /\ DOMAIN s = 1..n
      /\ \A i \in 1..n : s[i] \in Client
      /\ \A i, j \in 1..n : s[i][2] = s[j][2] => i = j
  BY <1>1, ChainsAre, StrungIs DEF Strung
<1>4. ClientsOf(r) = s /\ Waiting(q) = In(line[q])
  BY <1>1, ChainsAre DEF Waiting
<1>5. Content(r) = [i \in 1..n |-> s[i][2]]
  BY <1>3, <1>4 DEF Content
<1>6. /\ DOMAIN kept = DOMAIN following \ In(line[q])
      /\ \A d \in DOMAIN kept : kept[d] = following[d]
  BY <1>4 DEF Free
<1>7. /\ DOMAIN copy = 1..n
      /\ \A i \in 1..n : copy[i] = CHOOSE c \in Queues \X {Content(r)[i]} : c \notin DOMAIN kept
      /\ \A i \in 1..n : Content(r)[i] = s[i][2]
  <2>1. DOMAIN Content(r) = 1..n /\ \A i \in 1..n : Content(r)[i] = s[i][2]
    <3> HIDE DEF n
    <3> QED
      BY <1>5
  <2> HIDE DEF kept, s, n
  <2>2. \A i \in DOMAIN Content(r) :
          copy[i] = CHOOSE c \in Queues \X {Content(r)[i]} : c \notin DOMAIN kept
    BY Zenon
  <2>3. DOMAIN copy = DOMAIN Content(r)
    OBVIOUS
  <2> HIDE DEF copy
  <2> QED
    BY Zenon, <2>1, <2>2, <2>3
<1> HIDE DEF kept, copy, cs
<1>8. \A i \in 1..n : copy[i] \in Queues \X {s[i][2]} /\ copy[i] \notin DOMAIN kept
  <2> SUFFICES ASSUME NEW i \in 1..n
               PROVE  copy[i] \in Queues \X {s[i][2]} /\ copy[i] \notin DOMAIN kept
    OBVIOUS
  <2> DEFINE x == Content(r)[i]
  <2>0. copy[i] = (CHOOSE c \in Queues \X {x} : c \notin DOMAIN kept) /\ x = s[i][2]
    BY <1>7
  <2> HIDE DEF x
  <2>1. \A u \in Queues : <<u, x>> \in DOMAIN kept => \E t \in Queues \ {q} : <<u, x>> \in In(line[t])
    <3> SUFFICES ASSUME NEW u \in Queues, <<u, x>> \in DOMAIN kept
                 PROVE  \E t \in Queues \ {q} : <<u, x>> \in In(line[t])
      OBVIOUS
    <3>1. <<u, x>> \in DOMAIN following /\ <<u, x>> \notin In(line[q])
      BY <1>6
    <3> QED
      BY <1>1, <3>1, ChainsAre
  <2>2. \A t \in Queues : \A j, k \in 1..Len(line[t]) : line[t][j][2] = line[t][k][2] => j = k
    BY <1>1 DEF Lined, Strung
  <2>3. PICK u \in Queues : <<u, x>> \notin DOMAIN kept
    BY <2>1, <2>2, FreshExists
  <2>4. \E c \in Queues \X {x} : c \notin DOMAIN kept
    BY <2>3
  <2>5. copy[i] \in Queues \X {x} /\ copy[i] \notin DOMAIN kept
    BY Zenon, <2>0, <2>4
  <2> QED
    BY <2>0, <2>5
<1>9. \A i \in 1..n : copy[i] \in Client /\ copy[i][2] = s[i][2]
  BY <1>3, <1>8 DEF Client
<1>10. copy \in Seq(Client) /\ Len(copy) = n
  <2>1. copy \in [1..n -> Client]
    <3>1. \A i \in DOMAIN Content(r) : copy[i] \in Client
      BY <1>3, <1>5, <1>9
    <3>2. copy \in [DOMAIN Content(r) -> Client]
      BY <3>1 DEF copy
    <3> HIDE DEF n
    <3> QED
      BY <1>5, <3>2
  <2>2. copy \in Seq(Client)
    BY <1>3, <2>1, SeqDef
  <2> QED
    BY <1>3, <1>7, <2>2, LenProperties
<1>11. \A i, j \in 1..n : copy[i] = copy[j] => i = j
  BY <1>3, <1>9
<1>12. In(copy) = cs /\ In(copy) = {copy[i] : i \in 1..n} /\ In(copy) \cap DOMAIN kept = {}
  BY <1>8, <1>10 DEF In, cs
<1> HIDE DEF s, n
<1>13. /\ DOMAIN following' = DOMAIN kept \cup In(copy)
       /\ \A d \in DOMAIN kept : following'[d] = following[d]
  BY <1>2, <1>6, <1>12
<1>14. \A i \in 1..n : following'[copy[i]] = IF i < n THEN copy[i + 1] ELSE NoClient
  <2> SUFFICES ASSUME NEW i \in 1..n
               PROVE  following'[copy[i]] = IF i < n THEN copy[i + 1] ELSE NoClient
    OBVIOUS
  <2>1. copy[i] \in In(copy) /\ copy[i] \notin DOMAIN kept /\ n \in 1..n
    BY <1>3, <1>8, <1>12
  <2>2. following'[copy[i]] = IF copy[i] = copy[n] THEN NoClient
                              ELSE copy[1 + CHOOSE j \in 1..n : copy[j] = copy[i]]
    BY <1>2, <1>10, <1>12, <2>1
  <2>3. (CHOOSE j \in 1..n : copy[j] = copy[i]) = i
    BY <1>11
  <2>4. copy[i] = copy[n] <=> i = n
    BY <1>11, <2>1
  <2>5. (i < n <=> i # n) /\ 1 + i = i + 1
    BY <1>3
  <2> QED
    BY <2>2, <2>3, <2>4, <2>5
<1>15. /\ first'[q] = IF n = 0 THEN NoClient ELSE copy[1]
       /\ last'[q] = IF n = 0 THEN NoClient ELSE copy[n]
       /\ numClients'[q] = numClients[r]
       /\ \A t \in Queues \ {q} : first'[t] = first[t] /\ last'[t] = last[t]
                                  /\ numClients'[t] = numClients[t]
  BY <1>2, <1>10 DEF QueueInv
<1>16. Strung(copy, following', first'[q], last'[q])
  <2>1. copy = <<>> <=> n = 0
    BY <1>3, <1>10, EmptySeq
  <2>2. \A i \in 1..n : copy[i] \in DOMAIN following'
    BY <1>12, <1>13
  <2>3. \A i, j \in 1..n : copy[i][2] = copy[j][2] => i = j
    BY <1>3, <1>9
  <2> QED
    BY <1>10, <1>14, <1>15, <2>1, <2>2, <2>3 DEF Strung
<1>17. Fits(copy, numClients'[q])
  BY <1>3, <1>10, <1>15 DEF Fits, n
<1>18. \A t \in Queues \ {q} :
         /\ first'[t] = first[t] /\ last'[t] = last[t] /\ numClients'[t] = numClients[t]
         /\ \A d \in In(line[t]) : d \in DOMAIN following' /\ following'[d] = following[d]
         /\ In(copy) \cap In(line[t]) = {}
  <2> SUFFICES ASSUME NEW t \in Queues \ {q}
               PROVE  /\ \A d \in In(line[t]) : d \in DOMAIN following' /\ following'[d] = following[d]
                      /\ In(copy) \cap In(line[t]) = {}
    BY <1>15
  <2>1. In(line[t]) \subseteq DOMAIN kept
    BY <1>1, <1>6, ChainsAre
  <2> QED
    BY <1>12, <1>13, <2>1
<1>19. \A d : d \in DOMAIN following' <=>
              d \in In(copy) \/ \E t \in Queues \ {q} : d \in In(line[t])
  <2>1. \A d : d \in DOMAIN following <=>
               d \in In(line[q]) \/ \E t \in Queues \ {q} : d \in In(line[t])
    BY <1>1, ChainsAre
  <2>2. \A t \in Queues \ {q} : In(line[q]) \cap In(line[t]) = {}
    BY <1>1, ChainsAre
  <2>3. \A d : d \in DOMAIN kept <=> \E t \in Queues \ {q} : d \in In(line[t])
    BY <1>6, <2>1, <2>2
  <2> QED
    BY <1>13, <2>3
<1>20. Lined(new, following', first', last', numClients')
  BY <1>1, <1>16, <1>17, <1>18, <1>19, LineReplaced
<1>21. Items(copy) = Items(s)
  BY <1>3, <1>7, <1>9 DEF Items
<1>22. \A t \in Queues : \E u \in Queues : Items(new[t]) = Items(line[u])
  <2>1. \A t \in Queues : new[t] = IF t = q THEN copy ELSE line[t]
    BY <1>1 DEF Lined
  <2> HIDE DEF new
  <2> QED
    BY <1>21, <2>1 DEF s
<1>23. /\ DOMAIN origin' = DOMAIN following'
       /\ \A d \in DOMAIN kept : origin'[d] = origin[d]
       /\ \A d \in In(copy) : origin'[d] = owned[q][1]
  BY <1>2, <1>12, <1>13
<1>24. Returning(new, origin', owned')
  <2>1. \A t \in Queues \ {q} : \A d \in In(line[t]) : d \in DOMAIN kept
    BY <1>1, <1>6, ChainsAre
  <2>2. \A t \in Queues \ {q} : \A d \in In(line[t]) : origin'[d] = origin[d]
    BY <1>23, <2>1
  <2> QED
    BY <1>1, <1>2, <1>23, <2>2, ReturningReplaced
<1> HIDE DEF new
<1>25. strayed' # "own"
  <2>1. Uses(q) \/ Returns(q)
    BY Zenon DEF CopyQueue
  <2> QED
    BY <2>1, NothingStrays DEF QueueInv
<1>26. QueueInv'
  <2>1. DeletedOnce'
    BY <1>2 DEF QueueInv, DeletedOnce
  <2> QED
    BY <1>2, <1>20, <1>23, <1>24, <1>25, <2>1 DEF QueueInv
<1>27. FifoStep
  BY <1>1, <1>20, <1>22, FifoStepOf
<1> QED
  BY <1>26, <1>27

\* Move assignment.
LEMMA MoveQueueKeeps ==
  ASSUME QueueInv, strayed = "no", NEW q \in Queues, q \in standing,
         NEW r \in Queues, r \in standing, MoveQueue(q, r)
  PROVE  QueueInv' /\ FifoStep
<1>1. PICK line : /\ Lined(line, following, first, last, numClients)
                  /\ Returning(line, origin, owned)
  BY DEF QueueInv
<1> DEFINE new == [line EXCEPT ![q] = line[r], ![r] = <<>>]
<1>2. /\ q # r
      /\ following' = Free(following, In(line[q]))
      /\ first' = [first EXCEPT ![q] = first[r], ![r] = NoClient]
      /\ last' = [last EXCEPT ![q] = last[r], ![r] = NoClient]
      /\ numClients' = [numClients EXCEPT ![q] = numClients[r]]
      /\ owned' = [owned EXCEPT ![q] = owned[r], ![r] = <<owned[r][1], FALSE>>]
      /\ origin' = Free(origin, In(line[q]))
      /\ standing' = standing /\ deleted' = deleted
      /\ strayed' # "own"
  BY <1>1, ChainsAre, NothingStrays DEF MoveQueue, Waiting, QueueInv
<1>3. /\ DOMAIN following' = DOMAIN following \ In(line[q])
      /\ \A d \in DOMAIN following' : following'[d] = following[d]
  BY <1>2 DEF Free
<1>4. /\ first'[q] = first[r] /\ last'[q] = last[r] /\ numClients'[q] = numClients[r]
      /\ first'[r] = NoClient /\ last'[r] = NoClient /\ numClients'[r] = numClients[r]
      /\ \A t \in Queues \ {q, r} : first'[t] = first[t] /\ last'[t] = last[t]
                                    /\ numClients'[t] = numClients[t]
  BY <1>2 DEF QueueInv
<1>5. /\ DOMAIN new = Queues /\ new[q] = line[r] /\ new[r] = <<>>
      /\ \A t \in Queues \ {q, r} : new[t] = line[t]
  BY <1>1, <1>2 DEF Lined
<1> HIDE DEF new
<1>6. \A t \in Queues \ {q} : \A d \in In(line[t]) : d \in DOMAIN following' /\ following'[d] = following[d]
  <2> SUFFICES ASSUME NEW t \in Queues \ {q}
               PROVE  \A d \in In(line[t]) : d \in DOMAIN following' /\ following'[d] = following[d]
    OBVIOUS
  <2>1. In(line[t]) \subseteq DOMAIN following /\ In(line[q]) \cap In(line[t]) = {}
    BY <1>1, ChainsAre
  <2> QED
    BY <1>3, <2>1
<1>7. \A t \in Queues \ {q} : Strung(line[t], following', first[t], last[t])
  <2> SUFFICES ASSUME NEW t \in Queues \ {q}
               PROVE  Strung(line[t], following', first[t], last[t])
    OBVIOUS
  <2>1. Strung(line[t], following, first[t], last[t])
    BY <1>1, ChainsAre
  <2> QED
    BY <1>6, <2>1, StrungElsewhere
<1>8. Strung(<<>>, following', NoClient, NoClient) /\ In(<<>>) = {}
  BY StrungNothing
<1>9. \A t \in Queues : Strung(new[t], following', first'[t], last'[t])
  <2>1. Strung(new[q], following', first'[q], last'[q])
    BY <1>2, <1>4, <1>5, <1>7
  <2>2. Strung(new[r], following', first'[r], last'[r])
    BY <1>4, <1>5, <1>8
  <2>3. ASSUME NEW t \in Queues \ {q, r}
        PROVE  Strung(new[t], following', first'[t], last'[t])
    BY <1>4, <1>5, <1>7
  <2> QED
    BY <2>1, <2>2, <2>3
<1>10. \A t \in Queues : Fits(new[t], numClients'[t])
  <2>1. \A t \in Queues : Fits(line[t], numClients[t])
    BY <1>1, ChainsAre
  <2>2. Fits(<<>>, numClients[r])
    BY <2>1 DEF Fits
  <2> QED
    BY <1>4, <1>5, <2>1, <2>2
<1>11. \A t, u \in Queues : t # u => In(new[t]) \cap In(new[u]) = {}
  <2>1. \A t, u \in Queues : t # u => In(line[t]) \cap In(line[u]) = {}
    BY <1>1 DEF Lined
  <2> QED
    BY SMTT(30), <1>5, <1>8, <2>1
<1>12. \A d : d \in DOMAIN following' <=> \E t \in Queues : d \in In(new[t])
  <2>1. \A d : d \in DOMAIN following <=>
               d \in In(line[q]) \/ \E t \in Queues \ {q} : d \in In(line[t])
    BY <1>1, ChainsAre
  <2>2. \A t \in Queues \ {q} : In(line[q]) \cap In(line[t]) = {}
    BY <1>1, ChainsAre
  <2>3. \A d : d \in DOMAIN following' <=> \E t \in Queues \ {q} : d \in In(line[t])
    BY <1>3, <2>1, <2>2
  <2>4. \A d : (\E t \in Queues \ {q} : d \in In(line[t])) <=> (\E t \in Queues : d \in In(new[t]))
    BY <1>2, <1>5, <1>8
  <2> QED
    BY <2>3, <2>4
<1>13. Lined(new, following', first', last', numClients')
  BY <1>5, <1>9, <1>10, <1>11, <1>12 DEF Lined
<1>14. \A t \in Queues :
         \/ \E u \in Queues : Items(new[t]) = Items(line[u])
         \/ new[t] = <<>>
  BY <1>5
<1>15. /\ owned'[q] = owned[r] /\ owned'[r][2] = FALSE
       /\ \A t \in Queues \ {q, r} : owned'[t] = owned[t]
       /\ owned' \in [Queues -> Queues \X BOOLEAN]
  <2> DEFINE pair == <<owned[r][1], FALSE>>
  <2>1. owned \in [Queues -> Queues \X BOOLEAN]
    BY DEF QueueInv
  <2>2. pair \in Queues \X BOOLEAN /\ pair[2] = FALSE
    BY <2>1
  <2>3. owned' = [owned EXCEPT ![q] = owned[r], ![r] = pair]
    BY <1>2
  <2>4. q # r
    BY <1>2
  <2> HIDE DEF pair
  <2>5. /\ owned'[q] = owned[r] /\ owned'[r] = pair
        /\ \A t \in Queues \ {q, r} : owned'[t] = owned[t]
    BY <2>1, <2>3, <2>4
  <2>6. owned' \in [Queues -> Queues \X BOOLEAN]
    BY <2>1, <2>2, <2>3
  <2> QED
    BY <2>2, <2>5, <2>6
<1>16. DeletedOnce'
  <2> SUFFICES ASSUME NEW t \in standing, owned'[t][2]
               PROVE  /\ owned'[t][1] \notin deleted
                      /\ \A u \in standing : owned'[u][2] /\ owned'[u][1] = owned'[t][1] => u = t
    BY <1>2 DEF DeletedOnce
  <2>1. t # r /\ standing \subseteq Queues
    BY <1>15 DEF QueueInv
  <2>2. \A u \in standing : owned'[u][2] => u # r
    BY <1>15
  <2> QED
    BY <1>15, <2>1, <2>2 DEF QueueInv, DeletedOnce
<1>17. DOMAIN origin' = DOMAIN following' /\ \A d \in DOMAIN origin' : origin'[d] = origin[d]
  BY <1>2, <1>3 DEF Free, QueueInv
<1>18. Returning(new, origin', owned')
  <2>1. \A t \in Queues \ {q} : \A d \in In(line[t]) : origin'[d] = owned[t][1]
    BY <1>1, <1>6, <1>17 DEF Returning
  <2>2. ASSUME NEW t \in Queues, NEW d \in In(new[t])
        PROVE  origin'[d] = owned'[t][1]
    <3>1. t # r
      BY <1>5, <1>8, <2>2
    <3>2. CASE t = q
      BY <1>2, <1>5, <1>15, <2>1, <2>2, <3>2
    <3>3. CASE t # q
      BY <1>5, <1>15, <2>1, <2>2, <3>1, <3>3
    <3> QED
      BY <3>2, <3>3
  <2> QED
    BY <2>2 DEF Returning
<1>19. QueueInv'
  BY <1>2, <1>13, <1>15, <1>16, <1>17, <1>18 DEF QueueInv
<1>20. FifoStep
  BY <1>1, <1>13, <1>14, FifoStepOf
<1> QED
  BY <1>19, <1>20

----------------------------------------------------------------------------
\* What the invariant says of the queues.
LEMMA QueuesAreApart ==
  ASSUME QueueInv
  PROVE  QueuesApart
<1>1. PICK line : /\ Lined(line, following, first, last, numClients)
                  /\ Returning(line, origin, owned)
  BY DEF QueueInv
<1>2. \A q \in Queues : /\ ClientsOf(q) = line[q] /\ DOMAIN line[q] = 1..Len(line[q])
                        /\ Strung(line[q], following, first[q], last[q])
                        /\ Fits(line[q], numClients[q])
  BY <1>1, ChainsAre
<1>3. \A q \in Queues : \A i \in DOMAIN line[q] : line[q][i] \in In(line[q])
  BY <1>2 DEF In
<1>4. \A q, r \in Queues : \A i \in DOMAIN line[q], j \in DOMAIN line[r] :
        line[q][i] = line[r][j] => q = r /\ i = j
  <2> SUFFICES ASSUME NEW q \in Queues, NEW r \in Queues,
                      NEW i \in DOMAIN line[q], NEW j \in DOMAIN line[r],
                      line[q][i] = line[r][j]
               PROVE  q = r /\ i = j
    OBVIOUS
  <2>1. q = r
    <3>1. q # r => In(line[q]) \cap In(line[r]) = {}
      BY <1>1, ChainsAre
    <3>2. line[q][i] \in In(line[q]) /\ line[r][j] \in In(line[r])
      BY <1>3
    <3> QED
      BY <3>1, <3>2
  <2>2. i = j
    <3>1. Strung(line[q], following, first[q], last[q])
      BY <1>2
    <3>2. i \in 1..Len(line[q]) /\ j \in 1..Len(line[q]) /\ line[q][i] = line[q][j]
      BY <1>2, <2>1
    <3> QED
      BY <3>1, <3>2, StrungIs
  <2> QED
    BY <2>1, <2>2
<1>5. DOMAIN following = UNION {{line[q][i] : i \in DOMAIN line[q]} : q \in Queues}
  <2>1. \A d : d \in DOMAIN following <=> \E q \in Queues : d \in In(line[q])
    BY <1>1, ChainsAre
  <2>2. \A q \in Queues : \A d : d \in In(line[q]) <=> \E i \in DOMAIN line[q] : d = line[q][i]
    BY <1>2 DEF In
  <2>3. \A d : d \in DOMAIN following <=> \E q \in Queues : \E i \in DOMAIN line[q] : d = line[q][i]
    <3> SUFFICES ASSUME NEW d
                 PROVE  d \in DOMAIN following
                        <=> \E q \in Queues : \E i \in DOMAIN line[q] : d = line[q][i]
      OBVIOUS
    <3>1. \A q \in Queues : d \in In(line[q]) <=> \E i \in DOMAIN line[q] : d = line[q][i]
      BY <2>2
    <3> QED
      BY Zenon, <2>1, <3>1
  <2>4. ASSUME NEW d
        PROVE  d \in DOMAIN following
               <=> d \in UNION {{line[q][i] : i \in DOMAIN line[q]} : q \in Queues}
    BY <2>3
  <2> QED
    BY <2>4
<1>6. \A q \in Queues :
        IF line[q] = <<>> THEN first[q] = NoClient /\ last[q] = NoClient
        ELSE last[q] = line[q][Len(line[q])] /\ following[last[q]] = NoClient
  <2> SUFFICES ASSUME NEW q \in Queues
               PROVE  IF line[q] = <<>> THEN first[q] = NoClient /\ last[q] = NoClient
                      ELSE last[q] = line[q][Len(line[q])] /\ following[last[q]] = NoClient
    OBVIOUS
  <2>1. /\ Strung(line[q], following, first[q], last[q])
        /\ Len(line[q]) \in Nat /\ (line[q] = <<>> <=> Len(line[q]) = 0)
    BY <1>2, StrungIs
  <2>2. line[q] # <<>> => Len(line[q]) \in 1..Len(line[q])
    BY <2>1
  <2> QED
    BY <2>1, <2>2 DEF Strung
<1>7. NoClientShared
  BY <1>2, <1>4, <1>5, <1>6 DEF NoClientShared
<1>8. CountsEnough
  <2> SUFFICES ASSUME NEW q \in Queues
               PROVE  Len(Content(q)) <= numClients[q]
    BY DEF CountsEnough
  <2>1. Len(line[q]) \in Nat /\ Len(line[q]) <= numClients[q]
    BY <1>2, StrungIs DEF Fits
  <2>2. Content(q) = [i \in 1..Len(line[q]) |-> line[q][i][2]]
    BY <1>2 DEF Content
  <2>3. IsSeqOf(Content(q), Len(line[q]))
    BY <2>2 DEF IsSeqOf
  <2>4. Len(Content(q)) = Len(line[q])
    BY <2>1, <2>3, SeqOfLen
  <2> QED
    BY <2>1, <2>4
<1>9. ClientsReturn
  BY <1>1, <1>2, <1>3 DEF ClientsReturn, Returning
<1> QED
  BY <1>7, <1>8, <1>9 DEF QueuesApart, QueueInv

\* Each call keeps it, and is first in, first out.
LEMMA QueueNextKeeps ==
  ASSUME QueueInv, QueueNext
  PROVE  QueueInv' /\ FifoStep
<1>1. strayed = "no" /\ standing \subseteq Queues
  BY DEF QueueNext, QueueInv
<1>2. PICK q \in standing :
        \/ \E x \in Customer : Enqueue(q, x)
        \/ Dequeue(q)
        \/ Clear(q)
        \/ DestroyQueue(q)
        \/ \E r \in standing : CopyQueue(q, r) \/ MoveQueue(q, r)
  BY Zenon DEF QueueNext
<1> QED
  BY <1>1, <1>2, EnqueueKeeps, DequeueKeeps, ClearKeeps, DestroyKeeps, CopyQueueKeeps,
     MoveQueueKeeps

\* Queues are empty at first, each with its allocator.
LEMMA QueuesStart == QueueInit => QueueInv
<1> SUFFICES ASSUME QueueInit PROVE QueueInv
  OBVIOUS
<1> DEFINE line == [q \in Queues |-> <<>>]
<1>1. \A q \in Queues :
        /\ Strung(line[q], following, first[q], last[q]) /\ Fits(line[q], numClients[q])
        /\ In(line[q]) = {}
  BY StrungNothing, QueueAssumption DEF QueueInit, Fits
<1>2. \A d : d \in DOMAIN following <=> \E q \in Queues : d \in In(line[q])
  BY <1>1 DEF QueueInit
<1>3. DOMAIN line = Queues
  OBVIOUS
<1> HIDE DEF line
<1>4. Lined(line, following, first, last, numClients)
  BY <1>1, <1>2, <1>3 DEF Lined
<1>5. DeletedOnce /\ owned \in [Queues -> Queues \X BOOLEAN]
  BY DEF QueueInit, DeletedOnce
<1>6. Returning(line, origin, owned)
  BY <1>1 DEF Returning
<1> QED
  BY <1>4, <1>5, <1>6 DEF QueueInv, QueueInit

\* Each step of the queues does, and keeps the order of each.
LEMMA QueueStepKeeps == QueueInv /\ [QueueNext]_queueVars => QueueInv' /\ [FifoStep]_queueVars
<1> SUFFICES ASSUME QueueInv, [QueueNext]_queueVars
             PROVE  QueueInv' /\ [FifoStep]_queueVars
  OBVIOUS
<1>1. CASE QueueNext
  BY <1>1, QueueNextKeeps
<1>2. CASE UNCHANGED queueVars
  BY <1>2 DEF queueVars, QueueInv, DeletedOnce
<1> QED
  BY <1>1, <1>2

\* Queues that are copied and moved into each other share no client and count no
\* less than they hold; each client goes back to the allocator it was taken from, no
\* allocator is deleted twice, and only a queue that was moved away from can use one
\* that has been deleted (queue.h).
THEOREM QueuesStayApart == QueueSpec => []QueuesApart
  BY QueuesStart, QueueStepKeeps, QueuesAreApart, PTL DEF QueueSpec

\* Each of them is first in, first out, and a copy is equal to what it is a copy of
\* (queue.h).
THEOREM QueuesAreFifo == QueueSpec => FifoSteps
  BY QueuesStart, QueueStepKeeps, PTL DEF QueueSpec, FifoSteps

----------------------------------------------------------------------------
(***************************************************************************)
(* Lists: the links in memory are a chain that can be read both ways, and  *)
(* every call puts in an element or takes one out at one place of it, or   *)
(* breaks the list for good.                                               *)
(***************************************************************************)

\* Links in memory.
Link == [next : Item \cup {NoLink}, prev : Item \cup {NoLink}]
Linked(m) == m \in [DOMAIN m -> Link] /\ DOMAIN m \subseteq Item

\* What is beside position i.
Before(s, i) == IF i = 1 THEN NoLink ELSE s[i - 1]
Beyond(s, i) == IF i = Len(s) THEN NoLink ELSE s[i + 1]

\* s is the chain from a to z, and all there is in memory. Links backwards may be
\* missing in a copy.
Chained(s, m, a, z, one) ==
  /\ s \in Seq(Item)
  /\ a = IF s = <<>> THEN NoLink ELSE s[1]
  /\ z = IF s = <<>> THEN NoLink ELSE s[Len(s)]
  /\ \A i \in 1..Len(s) : /\ s[i] \in DOMAIN m
                          /\ m[s[i]].next = Beyond(s, i)
                          /\ m[s[i]].prev = Before(s, i) \/ (one /\ m[s[i]].prev = NoLink)
  /\ \A i, j \in 1..Len(s) : s[i] = s[j] => i = j
  /\ \A d : d \in DOMAIN m <=> \E i \in 1..Len(s) : d = s[i]

\* A list that was not broken is such a chain, and counts at least its links.
ListInv ==
  /\ numLinks \in 0..MaxCount
  /\ sound => /\ Linked(links)
              /\ \E s : Chained(s, links, head, tail, oneWay) /\ Len(s) <= numLinks
  /\ BrokenIndeed

\* What a chain is as a sequence.
LEMMA ChainedIs ==
  ASSUME NEW s, NEW m, NEW a, NEW z, NEW one, Chained(s, m, a, z, one)
  PROVE  /\ s \in Seq(Item) /\ Len(s) \in Nat /\ (s = <<>> <=> Len(s) = 0)
         /\ \A i \in 1..Len(s) : s[i] \in Item
         /\ s = [i \in 1..Len(s) |-> s[i]]
<1>1. s \in Seq(Item)
  BY DEF Chained
<1> QED
  BY <1>1, EmptySeq, LenProperties, ElementOfSeq

\* Writing one link of one element.
NextSet(u, m, l, to) ==
  /\ Linked(u)
  /\ DOMAIN u = DOMAIN m
  /\ \A d \in DOMAIN m : u[d].next = IF d = l THEN to ELSE m[d].next
  /\ \A d \in DOMAIN m : u[d].prev = m[d].prev

\* SetNext does that, and SetPrev the like.
LEMMA SetNextIs ==
  ASSUME NEW m, Linked(m), NEW l \in DOMAIN m \cup {NoLink}, NEW to \in Item \cup {NoLink}
  PROVE  NextSet(SetNext(m, l, to), m, l, to)
<1>1. NoLink \notin DOMAIN m
  BY ListAssumption DEF Linked
<1>2. CASE l = NoLink
  BY <1>1, <1>2 DEF SetNext, NextSet
<1>3. CASE l # NoLink
  <2> DEFINE u == [m EXCEPT ![l].next = to]
  <2>1. SetNext(m, l, to) = u /\ l \in DOMAIN m
    BY <1>3 DEF SetNext
  <2>2. DOMAIN u = DOMAIN m
    OBVIOUS
  <2>3. \A d \in DOMAIN m : m[d] \in Link /\ u[d] = IF d = l THEN [m[d] EXCEPT !.next = to] ELSE m[d]
    BY <2>1 DEF Linked
  <2>4. u = [d \in DOMAIN m |-> u[d]]
    OBVIOUS
  <2> HIDE DEF u
  <2>5. \A d \in DOMAIN m : /\ u[d] \in Link
                            /\ u[d].next = IF d = l THEN to ELSE m[d].next
                            /\ u[d].prev = m[d].prev
    BY <2>3 DEF Link
  <2>6. u \in [DOMAIN m -> Link]
    BY <2>3, <2>4, <2>5
  <2> QED
    BY <2>1, <2>2, <2>5, <2>6 DEF Linked, NextSet
<1> QED
  BY <1>2, <1>3

\* The links the other way.
LEMMA SetPrevIs ==
  ASSUME NEW m, Linked(m), NEW l \in DOMAIN m \cup {NoLink}, NEW to \in Item \cup {NoLink}
  PROVE  /\ Linked(SetPrev(m, l, to))
         /\ DOMAIN SetPrev(m, l, to) = DOMAIN m
         /\ \A d \in DOMAIN m : /\ SetPrev(m, l, to)[d].prev = IF d = l THEN to ELSE m[d].prev
                                /\ SetPrev(m, l, to)[d].next = m[d].next
<1>1. NoLink \notin DOMAIN m
  BY ListAssumption DEF Linked
<1>2. CASE l = NoLink
  BY <1>1, <1>2 DEF SetPrev
<1>3. CASE l # NoLink
  <2> DEFINE u == [m EXCEPT ![l].prev = to]
  <2>1. SetPrev(m, l, to) = u /\ l \in DOMAIN m
    BY <1>3 DEF SetPrev
  <2>2. DOMAIN u = DOMAIN m
    OBVIOUS
  <2>3. \A d \in DOMAIN m : m[d] \in Link /\ u[d] = IF d = l THEN [m[d] EXCEPT !.prev = to] ELSE m[d]
    BY <2>1 DEF Linked
  <2>4. u = [d \in DOMAIN m |-> u[d]]
    OBVIOUS
  <2> HIDE DEF u
  <2>5. \A d \in DOMAIN m : /\ u[d] \in Link
                            /\ u[d].prev = IF d = l THEN to ELSE m[d].prev
                            /\ u[d].next = m[d].next
    BY <2>3 DEF Link
  <2>6. u \in [DOMAIN m -> Link]
    BY <2>3, <2>4, <2>5
  <2> QED
    BY <2>1, <2>2, <2>5, <2>6 DEF Linked
<1> QED
  BY <1>2, <1>3

\* u is m with a link e between next and prev, which do not know of it.
Created(u, m, e, next, prev) ==
  /\ Linked(u)
  /\ DOMAIN u = DOMAIN m \cup {e}
  /\ u[e] = [next |-> next, prev |-> prev]
  /\ \A d \in DOMAIN m \ {e} : u[d] = m[d]

\* createLink does that.
LEMMA CreateLinkIs ==
  ASSUME NEW m, Linked(m), NEW e \in Item,
         NEW next \in Item \cup {NoLink}, NEW prev \in Item \cup {NoLink}
  PROVE  Created(CreateLink(m, e, next, prev), m, e, next, prev)
<1> DEFINE u == CreateLink(m, e, next, prev)
<1>1. u = [f \in DOMAIN m \cup {e} |-> IF f = e THEN [next |-> next, prev |-> prev] ELSE m[f]]
  BY DEF CreateLink
<1> HIDE DEF u
<1>2. DOMAIN u = DOMAIN m \cup {e}
  BY <1>1
<1>3. u[e] = [next |-> next, prev |-> prev] /\ \A d \in DOMAIN m \ {e} : u[d] = m[d]
  BY <1>1
<1>4. \A d \in DOMAIN u : u[d] \in Link
  BY <1>2, <1>3 DEF Linked, Link
<1>5. u = [d \in DOMAIN u |-> u[d]]
  BY <1>1
<1>6. Linked(u)
  BY <1>2, <1>4, <1>5 DEF Linked
<1> QED
  BY <1>2, <1>3, <1>6 DEF u, Created

\* A link taken out, the links of its neighbours closed over it.
Released(u, m, l) ==
  /\ Linked(u)
  /\ DOMAIN u = DOMAIN m \ {l}
  /\ \A d \in DOMAIN m \ {l} : /\ u[d].next = IF d = m[l].prev THEN m[l].next ELSE m[d].next
                               /\ u[d].prev = IF d = m[l].next THEN m[l].prev ELSE m[d].prev

\* ~Link does that.
LEMMA ReleaseIs ==
  ASSUME NEW m, Linked(m), NEW l \in DOMAIN m,
         m[l].next \in DOMAIN m \cup {NoLink}, m[l].prev \in DOMAIN m \cup {NoLink}
  PROVE  Released(Release(m, l), m, l)
<1> DEFINE next == m[l].next
           prev == m[l].prev
           v == SetPrev(m, next, prev)
           u == SetNext(v, prev, next)
           r == Release(m, l)
<1>1. next \in Item \cup {NoLink} /\ prev \in Item \cup {NoLink}
  BY DEF Linked, Link
<1>2. next \in DOMAIN m \cup {NoLink} /\ prev \in DOMAIN m \cup {NoLink}
  OBVIOUS
<1>3. r = [f \in DOMAIN m \ {l} |-> u[f]]
  BY DEF Release
<1> HIDE DEF next, prev
<1>4. /\ Linked(v) /\ DOMAIN v = DOMAIN m
      /\ \A d \in DOMAIN m : /\ v[d].prev = IF d = next THEN prev ELSE m[d].prev
                             /\ v[d].next = m[d].next
  BY ZenonT(30), <1>1, <1>2, SetPrevIs
<1> HIDE DEF v
<1>5. NextSet(u, v, prev, next)
  <2>1. prev \in DOMAIN v \cup {NoLink}
    BY <1>2, <1>4
  <2> QED
    BY <1>1, <1>4, <2>1, SetNextIs
<1> HIDE DEF u, r
<1>6. DOMAIN r = DOMAIN m \ {l} /\ \A d \in DOMAIN m \ {l} : r[d] = u[d]
  BY <1>3
<1>7. Linked(r)
  BY <1>3, <1>4, <1>5, <1>6 DEF Linked, NextSet
<1>8. \A d \in DOMAIN m \ {l} : /\ r[d].next = IF d = prev THEN next ELSE m[d].next
                                /\ r[d].prev = IF d = next THEN prev ELSE m[d].prev
  BY <1>4, <1>5, <1>6 DEF NextSet
<1> QED
  BY <1>6, <1>7, <1>8 DEF r, next, prev, Released

\* A link put before another, after the one that is there.
LEMMA LinkNextIs ==
  ASSUME NEW m, Linked(m), NEW l \in DOMAIN m, NEW next \in DOMAIN m,
         l # next, m[next].prev \in DOMAIN m \cup {NoLink}
  PROVE  /\ Linked(LinkNext(m, l, next))
         /\ DOMAIN LinkNext(m, l, next) = DOMAIN m
         /\ \A d \in DOMAIN m :
              /\ LinkNext(m, l, next)[d].next =
                   IF d = m[next].prev THEN l ELSE IF d = l THEN next ELSE m[d].next
              /\ LinkNext(m, l, next)[d].prev =
                   IF d = next THEN l ELSE IF d = l THEN m[next].prev ELSE m[d].prev
<1> DEFINE prev == m[next].prev
           v == [m EXCEPT ![l] = [next |-> next, prev |-> prev]]
           u == SetPrev(v, next, l)
<1>1. l \in Item /\ next \in Item /\ prev \in Item \cup {NoLink} /\ next # NoLink
  BY ListAssumption DEF Linked, Link
<1>2. DOMAIN v = DOMAIN m
  OBVIOUS
<1>3. v[l] = [next |-> next, prev |-> prev] /\ \A d \in DOMAIN m \ {l} : v[d] = m[d]
  OBVIOUS
<1>4. v = [d \in DOMAIN v |-> v[d]]
  OBVIOUS
<1>5. LinkNext(m, l, next) = SetNext([v EXCEPT ![next].prev = l], prev, l)
  BY DEF LinkNext
<1>6. u = [v EXCEPT ![next].prev = l]
  BY <1>1 DEF SetPrev
<1>12. prev \in DOMAIN m \cup {NoLink}
  OBVIOUS
<1> HIDE DEF v
<1>7. Linked(v)
  <2>1. \A d \in DOMAIN v : v[d] \in Link
    BY <1>1, <1>2, <1>3 DEF Linked, Link
  <2> QED
    BY <1>2, <1>4, <2>1 DEF Linked
<1>8. /\ Linked(u) /\ DOMAIN u = DOMAIN v
      /\ \A d \in DOMAIN v : /\ u[d].prev = IF d = next THEN l ELSE v[d].prev
                             /\ u[d].next = v[d].next
  <2>1. next \in DOMAIN v \cup {NoLink} /\ l \in Item \cup {NoLink}
    BY <1>1, <1>2
  <2> QED
    BY ZenonT(30), <1>7, <2>1, SetPrevIs
<1>9. LinkNext(m, l, next) = SetNext(u, prev, l)
  BY <1>5, <1>6
<1> HIDE DEF u, prev
<1>10. NextSet(SetNext(u, prev, l), u, prev, l)
  <2>1. prev \in DOMAIN u \cup {NoLink} /\ l \in Item \cup {NoLink}
    BY <1>1, <1>2, <1>8, <1>12
  <2> QED
    BY <1>8, <2>1, SetNextIs
<1>11. \A d \in DOMAIN m :
         /\ v[d].next = IF d = l THEN next ELSE m[d].next
         /\ v[d].prev = IF d = l THEN prev ELSE m[d].prev
  BY <1>3
<1> QED
  BY <1>2, <1>8, <1>9, <1>10, <1>11 DEF prev, NextSet

\* An element put into a sequence at a position, and taken out of it.
Insertion(s, j, e) ==
  [i \in 1..Len(s) + 1 |-> IF i < j THEN s[i] ELSE IF i = j THEN e ELSE s[i - 1]]
Removal(s, j) == [i \in 1..Len(s) - 1 |-> IF i < j THEN s[i] ELSE s[i + 1]]

\* Both are sequences again.
LEMMA InsertionIs ==
  ASSUME NEW s \in Seq(Item), NEW e \in Item, NEW j \in 1..Len(s) + 1
  PROVE  /\ Insertion(s, j, e) \in Seq(Item)
         /\ Len(Insertion(s, j, e)) = Len(s) + 1
         /\ \A i \in 1..Len(s) + 1 :
              Insertion(s, j, e)[i] = IF i < j THEN s[i] ELSE IF i = j THEN e ELSE s[i - 1]
<1> DEFINE n == Len(s)
           t == Insertion(s, j, e)
<1>1. n \in Nat /\ \A i \in 1..n : s[i] \in Item
  BY LenProperties, ElementOfSeq
<1>2. t = [i \in 1..n + 1 |-> IF i < j THEN s[i] ELSE IF i = j THEN e ELSE s[i - 1]]
  BY DEF Insertion
<1>3. j \in 1..n + 1
  OBVIOUS
<1> HIDE DEF n, t
<1>4. \A i \in 1..n + 1 : t[i] = IF i < j THEN s[i] ELSE IF i = j THEN e ELSE s[i - 1]
  BY <1>2
<1>5. \A i \in 1..n + 1 : t[i] \in Item
  BY <1>1, <1>3, <1>4
<1>6. n + 1 \in Nat /\ t = [i \in 1..n + 1 |-> t[i]]
  BY <1>1, <1>2
<1>7. t \in Seq(Item) /\ Len(t) = n + 1
  BY <1>5, <1>6, SeqOfLen
<1> QED
  BY <1>4, <1>7 DEF n, t

\* Without one element.
LEMMA RemovalIs ==
  ASSUME NEW s \in Seq(Item), NEW j \in 1..Len(s)
  PROVE  /\ Removal(s, j) \in Seq(Item)
         /\ Len(Removal(s, j)) = Len(s) - 1
         /\ \A i \in 1..Len(s) - 1 : Removal(s, j)[i] = IF i < j THEN s[i] ELSE s[i + 1]
<1> DEFINE n == Len(s)
           t == Removal(s, j)
<1>1. n \in Nat /\ \A i \in 1..n : s[i] \in Item
  BY LenProperties, ElementOfSeq
<1>2. t = [i \in 1..n - 1 |-> IF i < j THEN s[i] ELSE s[i + 1]]
  BY DEF Removal
<1>3. j \in 1..n
  OBVIOUS
<1> HIDE DEF n, t
<1>4. \A i \in 1..n - 1 : t[i] = IF i < j THEN s[i] ELSE s[i + 1]
  BY <1>2
<1>5. \A i \in 1..n - 1 : t[i] \in Item
  BY <1>1, <1>3, <1>4
<1>6. n - 1 \in Nat /\ t = [i \in 1..n - 1 |-> t[i]]
  BY <1>1, <1>2, <1>3
<1>7. t \in Seq(Item) /\ Len(t) = n - 1
  BY <1>5, <1>6, SeqOfLen
<1> QED
  BY <1>4, <1>7 DEF n, t

\* u is m with the link e put at position j of the chain s.
Put(u, m, s, j, e) ==
  /\ \A d : d \in DOMAIN u <=> d \in DOMAIN m \/ d = e
  /\ u[e].next = IF j <= Len(s) THEN s[j] ELSE NoLink
  /\ u[e].prev = Before(s, j)
  /\ \A d \in DOMAIN m : u[d].next = IF 1 < j /\ d = s[j - 1] THEN e ELSE m[d].next
  /\ \A d \in DOMAIN m : u[d].prev = IF j <= Len(s) /\ d = s[j] THEN e ELSE m[d].prev

\* The links u are m without the j-th of the chain, its neighbours joined.
Taken(u, m, s, j) ==
  /\ \A d : d \in DOMAIN u <=> d \in DOMAIN m /\ d # s[j]
  /\ \A d \in DOMAIN u : u[d].next = IF 1 < j /\ d = s[j - 1] THEN Beyond(s, j) ELSE m[d].next
  /\ \A d \in DOMAIN u : u[d].prev = IF j < Len(s) /\ d = s[j + 1] THEN Before(s, j) ELSE m[d].prev

\* Then the element is in the chain.
LEMMA PutChained ==
  ASSUME NEW s, NEW m, NEW a, NEW z, NEW one, Chained(s, m, a, z, one),
         NEW e \in Item, e \notin DOMAIN m, NEW j \in 1..Len(s) + 1, NEW u, Put(u, m, s, j, e)
  PROVE  Chained(Insertion(s, j, e), u,
                 IF j = 1 THEN e ELSE a, IF j = Len(s) + 1 THEN e ELSE z, one)
<1> DEFINE n == Len(s)
           t == Insertion(s, j, e)
<1>1. /\ n \in Nat /\ (s = <<>> <=> n = 0) /\ s \in Seq(Item)
      /\ a = (IF n = 0 THEN NoLink ELSE s[1]) /\ z = (IF n = 0 THEN NoLink ELSE s[n])
      /\ \A i \in 1..n : /\ s[i] \in DOMAIN m
                         /\ m[s[i]].next = IF i = n THEN NoLink ELSE s[i + 1]
                         /\ m[s[i]].prev = Before(s, i) \/ (one /\ m[s[i]].prev = NoLink)
      /\ \A i, k \in 1..n : s[i] = s[k] => i = k
      /\ \A d : d \in DOMAIN m <=> \E i \in 1..n : d = s[i]
  BY ChainedIs DEF Chained, Beyond
<1>2. /\ t \in Seq(Item) /\ Len(t) = n + 1
      /\ \A i \in 1..n + 1 : t[i] = IF i < j THEN s[i] ELSE IF i = j THEN e ELSE s[i - 1]
  BY <1>1, InsertionIs
<1>3. /\ \A d : d \in DOMAIN u <=> d \in DOMAIN m \/ d = e
      /\ u[e].next = IF j <= n THEN s[j] ELSE NoLink
      /\ u[e].prev = Before(s, j)
      /\ \A d \in DOMAIN m : u[d].next = IF 1 < j /\ d = s[j - 1] THEN e ELSE m[d].next
      /\ \A d \in DOMAIN m : u[d].prev = IF j <= n /\ d = s[j] THEN e ELSE m[d].prev
  BY DEF Put
<1>4. j \in 1..n + 1
  OBVIOUS
<1> HIDE DEF n, t
<1>5. t # <<>> /\ Len(t) \in Nat /\ (t = <<>> <=> Len(t) = 0)
  BY <1>1, <1>2, EmptySeq
<1>6. t[1] = IF j = 1 THEN e ELSE a
  <2>1. 1 \in 1..n + 1
    BY <1>1
  <2>2. j # 1 => 1 < j /\ n # 0
    BY <1>1, <1>4
  <2> QED
    BY <1>1, <1>2, <1>4, <2>1, <2>2
<1>7. t[n + 1] = IF j = n + 1 THEN e ELSE z
  <2>1. n + 1 \in 1..n + 1 /\ n + 1 - 1 = n /\ ~(n + 1 < j)
    BY <1>1, <1>4
  <2>2. j # n + 1 => n # 0
    BY <1>1, <1>4
  <2>3. t[n + 1] = IF n + 1 < j THEN s[n + 1] ELSE IF n + 1 = j THEN e ELSE s[n + 1 - 1]
    <3>1. ASSUME NEW i \in 1..n + 1
          PROVE  t[i] = IF i < j THEN s[i] ELSE IF i = j THEN e ELSE s[i - 1]
      BY <1>2
    <3>2. n \in Nat /\ j \in Nat
      BY <1>1, <1>4
    <3> QED
      BY <2>1, <3>1, <3>2
  <2>4. n # 0 => z = s[n]
    BY <1>1
  <2> QED
    BY <2>1, <2>2, <2>3, <2>4
<1>8. \A d : d \in DOMAIN u <=> \E i \in 1..n + 1 : d = t[i]
  <2>1. ASSUME NEW i \in 1..n + 1
        PROVE  t[i] \in DOMAIN u
    <3>1. CASE i < j
      <4>1. i \in 1..n
        BY <1>1, <1>4, <3>1
      <4> QED
        BY <1>1, <1>2, <1>3, <3>1, <4>1
    <3>2. CASE i = j
      BY <1>1, <1>2, <1>3, <3>2
    <3>3. CASE i > j
      <4>1. i - 1 \in 1..n /\ ~(i < j) /\ i # j
        BY <1>1, <1>4, <3>3
      <4> QED
        BY <1>1, <1>2, <1>3, <4>1
    <3> QED
      BY <1>1, <1>4, <3>1, <3>2, <3>3
  <2>2. ASSUME NEW d, d \in DOMAIN u
        PROVE  \E i \in 1..n + 1 : d = t[i]
    <3>1. CASE d = e
      <4>1. t[j] = e
        BY <1>1, <1>2, <1>4
      <4> QED
        BY <1>4, <3>1, <4>1
    <3>2. CASE d # e
      <4>1. PICK i \in 1..n : d = s[i]
        BY <1>1, <1>3, <2>2, <3>2
      <4>2. CASE i < j
        BY <1>1, <1>2, <4>1, <4>2
      <4>3. CASE i >= j
        <5>1. i + 1 \in 1..n + 1 /\ ~(i + 1 < j) /\ i + 1 # j /\ i + 1 - 1 = i
          BY <1>1, <1>4, <4>3
        <5> QED
          BY <1>2, <4>1, <5>1
      <4> QED
        BY <1>1, <1>4, <4>2, <4>3
    <3> QED
      BY <3>1, <3>2
  <2> QED
    BY <2>1, <2>2
<1>9. \A i, k \in 1..n + 1 : t[i] = t[k] => i = k
  <2>1. \A i \in 1..n + 1 : /\ i < j => i \in 1..n /\ t[i] = s[i]
                            /\ i = j => t[i] = e
                            /\ i > j => i - 1 \in 1..n /\ t[i] = s[i - 1]
    <3> SUFFICES ASSUME NEW i \in 1..n + 1
                 PROVE  /\ i < j => i \in 1..n /\ t[i] = s[i]
                        /\ i = j => t[i] = e
                        /\ i > j => i - 1 \in 1..n /\ t[i] = s[i - 1]
      OBVIOUS
    <3>1. t[i] = IF i < j THEN s[i] ELSE IF i = j THEN e ELSE s[i - 1]
      BY <1>2
    <3>2. /\ i < j => i \in 1..n
          /\ i = j => ~(i < j)
          /\ i > j => i - 1 \in 1..n /\ ~(i < j) /\ i # j
      BY <1>1, <1>4
    <3> QED
      BY <3>1, <3>2
  <2>2. \A i \in 1..n : s[i] # e
    BY <1>1
  <2>3. SUFFICES ASSUME NEW i \in 1..n + 1, NEW k \in 1..n + 1, t[i] = t[k], i # k
                 PROVE  FALSE
    OBVIOUS
  <2>4. i # j /\ k # j
    <3>1. \A h \in 1..n + 1 : h = j \/ h < j \/ h > j
      BY <1>1, <1>4
    <3>2. \A h \in 1..n + 1 : h # j => t[h] # e
      BY <2>1, <2>2, <3>1
    <3> QED
      BY <2>1, <2>3, <3>2
  <2>5. \A h \in 1..n + 1 : h # j => \E x \in 1..n : /\ t[h] = s[x]
                                                     /\ h < j => x = h
                                                     /\ h > j => x = h - 1
    <3> SUFFICES ASSUME NEW h \in 1..n + 1, h # j
                 PROVE  \E x \in 1..n : /\ t[h] = s[x]
                                        /\ h < j => x = h
                                        /\ h > j => x = h - 1
      OBVIOUS
    <3>1. CASE h < j
      BY <1>1, <1>4, <2>1, <3>1
    <3>2. CASE h > j
      <4>1. h - 1 \in 1..n /\ t[h] = s[h - 1] /\ ~(h < j)
        BY <1>1, <1>4, <2>1, <3>2
      <4> QED
        BY <4>1
    <3> QED
      BY <1>1, <1>4, <3>1, <3>2
  <2>6. PICK x \in 1..n : t[i] = s[x] /\ (i < j => x = i) /\ (i > j => x = i - 1)
    BY <1>1, <1>4, <2>3, <2>4, <2>5
  <2>7. PICK y \in 1..n : t[k] = s[y] /\ (k < j => y = k) /\ (k > j => y = k - 1)
    BY <1>1, <1>4, <2>3, <2>4, <2>5
  <2>8. x # y
    <3>1. /\ i \in Int /\ j \in Int /\ k \in Int /\ i # j /\ k # j /\ i # k
          /\ (i < j => x = i) /\ (i > j => x = i - 1) /\ (k < j => y = k) /\ (k > j => y = k - 1)
      BY <1>1, <1>4, <2>3, <2>4, <2>6, <2>7
    <3> QED
      BY <3>1
  <2> QED
    <3>1. \A p, q \in 1..n : s[p] = s[q] => p = q
      BY <1>1
    <3>2. s[x] = s[y]
      BY <2>3, <2>6, <2>7
    <3> QED
      BY <2>8, <3>1, <3>2
<1>10. ASSUME NEW i \in 1..n + 1
       PROVE  /\ u[t[i]].next = IF i = n + 1 THEN NoLink ELSE t[i + 1]
              /\ u[t[i]].prev = Before(t, i) \/ (one /\ u[t[i]].prev = NoLink)
  <2>1. Before(t, i) = IF i = 1 THEN NoLink ELSE t[i - 1]
    BY DEF Before
  <2>2. CASE i = j
    <3>1. t[i] = e
      BY <1>1, <1>2, <2>2
    <3>2. u[e].next = IF i = n + 1 THEN NoLink ELSE t[i + 1]
      <4>1. CASE i = n + 1
        BY <1>1, <1>3, <2>2, <4>1
      <4>2. CASE i # n + 1
        <5>1. i + 1 \in 1..n + 1 /\ ~(i + 1 < j) /\ i + 1 # j /\ i + 1 - 1 = j /\ j <= n
          BY <1>1, <1>4, <2>2, <4>2
        <5>2. t[i + 1] = s[j]
          BY <1>2, <5>1
        <5> QED
          BY <1>3, <4>2, <5>1, <5>2
      <4> QED
        BY <4>1, <4>2
    <3>3. u[e].prev = Before(t, i)
      <4>1. CASE i = 1
        BY <1>3, <2>1, <2>2, <4>1 DEF Before
      <4>2. CASE i # 1
        <5>1. i - 1 \in 1..n + 1 /\ i - 1 < j
          BY <1>1, <1>4, <2>2, <4>2
        <5> QED
          BY <1>2, <1>3, <2>1, <2>2, <4>2, <5>1 DEF Before
      <4> QED
        BY <4>1, <4>2
    <3> QED
      BY <3>1, <3>2, <3>3
  <2>3. CASE i < j
    <3>1. i \in 1..n /\ i # n + 1 /\ i + 1 \in 1..n + 1 /\ (i + 1 = j \/ i + 1 < j) /\ i + 1 - 1 = i /\ 1 < j
      BY <1>1, <1>4, <2>3
    <3>2. t[i] = s[i] /\ s[i] \in DOMAIN m
      BY <1>1, <1>2, <2>3, <3>1
    <3>3. u[s[i]].next = t[i + 1]
      <4>1. CASE i + 1 = j
        <5>1. j - 1 = i /\ t[j] = e
          BY <1>1, <1>2, <1>4, <4>1
        <5> QED
          BY <1>3, <3>1, <3>2, <4>1, <5>1
      <4>2. CASE i + 1 < j
        <5>1. j - 1 \in 1..n /\ j - 1 # i /\ i # n
          BY <1>1, <1>4, <4>2
        <5>2. s[i] # s[j - 1]
          BY <1>1, <3>1, <5>1
        <5>3. t[i + 1] = s[i + 1]
          BY <1>2, <3>1, <4>2
        <5> QED
          BY <1>1, <1>3, <3>1, <3>2, <5>1, <5>2, <5>3
      <4> QED
        BY <3>1, <4>1, <4>2
    <3>4. u[s[i]].prev = m[s[i]].prev
      <4>1. j <= n => j \in 1..n /\ i # j
        BY <1>1, <1>4, <2>3
      <4> QED
        BY <1>1, <1>3, <3>1, <3>2, <4>1
    <3>5. Before(t, i) = Before(s, i)
      <4>1. CASE i = 1
        BY <4>1 DEF Before
      <4>2. CASE i # 1
        <5>1. i - 1 \in 1..n + 1 /\ i - 1 < j
          BY <1>1, <1>4, <2>3, <4>2
        <5> QED
          BY <1>2, <4>2, <5>1 DEF Before
      <4> QED
        BY <4>1, <4>2
    <3> QED
      BY <1>1, <3>1, <3>2, <3>3, <3>4, <3>5
  <2>4. CASE i > j
    <3> DEFINE h == i - 1
    <3>1. /\ h \in 1..n /\ i # 1 /\ ~(i < j) /\ i # j /\ i - 1 = h /\ h + 1 = i /\ h >= j
          /\ (h = n <=> i = n + 1)
      BY <1>1, <1>4, <2>4
    <3> HIDE DEF h
    <3>2. t[i] = s[h] /\ s[h] \in DOMAIN m
      BY <1>1, <1>2, <3>1
    <3>3. u[s[h]].next = m[s[h]].next
      <4>1. 1 < j => j - 1 \in 1..n /\ j - 1 # h
        BY <1>1, <1>4, <3>1
      <4> QED
        BY <1>1, <1>3, <3>1, <3>2, <4>1
    <3>4. i # n + 1 => t[i + 1] = s[h + 1]
      <4>1. SUFFICES ASSUME i # n + 1
                     PROVE  t[i + 1] = s[h + 1]
        OBVIOUS
      <4>2. i + 1 \in 1..n + 1 /\ ~(i + 1 < j) /\ i + 1 # j /\ i + 1 - 1 = h + 1
        BY <1>1, <1>4, <2>4, <3>1, <4>1
      <4> QED
        BY <1>2, <4>2
    <3>5. u[s[h]].prev = Before(t, i) \/ (one /\ u[s[h]].prev = NoLink)
      <4>1. CASE h = j
        <5>1. j <= n /\ t[h] = e
          BY <1>1, <1>2, <1>4, <3>1, <4>1
        <5> QED
          BY <1>3, <2>1, <3>1, <3>2, <4>1, <5>1
      <4>2. CASE h # j
        <5>1. j \in 1..n /\ j <= n /\ h # 1 /\ h \in 1..n + 1 /\ ~(h < j)
          BY <1>1, <1>4, <3>1, <4>2
        <5>2. s[h] # s[j]
          BY <1>1, <3>1, <4>2, <5>1
        <5>3. u[s[h]].prev = m[s[h]].prev
          BY <1>3, <3>2, <5>2
        <5>4. t[h] = s[h - 1]
          BY <1>2, <4>2, <5>1
        <5>5. Before(t, i) = Before(s, h)
          BY <2>1, <3>1, <5>1, <5>4 DEF Before
        <5> QED
          BY <1>1, <3>1, <5>3, <5>5
      <4> QED
        BY <4>1, <4>2
    <3> QED
      BY <1>1, <3>1, <3>2, <3>3, <3>4, <3>5
  <2> QED
    BY <1>1, <1>4, <2>2, <2>3, <2>4
<1>11. \A i \in 1..n + 1 : t[i] \in DOMAIN u
  BY <1>8
<1> QED
  <2>1. \A i \in 1..Len(t) : Beyond(t, i) = IF i = n + 1 THEN NoLink ELSE t[i + 1]
    BY <1>2 DEF Beyond
  <2> DEFINE b == IF j = 1 THEN e ELSE a
             y == IF j = n + 1 THEN e ELSE z
  <2>2. /\ b = IF t = <<>> THEN NoLink ELSE t[1]
        /\ y = IF t = <<>> THEN NoLink ELSE t[Len(t)]
    BY <1>2, <1>5, <1>6, <1>7
  <2>3. \A i \in 1..Len(t) : /\ t[i] \in DOMAIN u
                             /\ u[t[i]].next = Beyond(t, i)
                             /\ u[t[i]].prev = Before(t, i) \/ (one /\ u[t[i]].prev = NoLink)
    BY <1>2, <1>10, <1>11, <2>1
  <2>4. /\ \A i, k \in 1..Len(t) : t[i] = t[k] => i = k
        /\ \A d : d \in DOMAIN u <=> \E i \in 1..Len(t) : d = t[i]
    BY <1>2, <1>8, <1>9
  <2> HIDE DEF b, y
  <2>5. Chained(t, u, b, y, one)
    BY <1>2, <2>2, <2>3, <2>4 DEF Chained
  <2> QED
    BY <2>5 DEF n, t, b, y

\* And then it is not any more.
LEMMA TakenChained ==
  ASSUME NEW s, NEW m, NEW a, NEW z, NEW one, Chained(s, m, a, z, one),
         NEW j \in 1..Len(s), NEW u, Taken(u, m, s, j)
  PROVE  Chained(Removal(s, j), u,
                 IF j = 1 THEN Beyond(s, 1) ELSE a, IF j = Len(s) THEN Before(s, j) ELSE z, one)
<1> DEFINE n == Len(s)
           t == Removal(s, j)
<1>1. /\ n \in Nat /\ (s = <<>> <=> n = 0) /\ s \in Seq(Item)
      /\ a = (IF n = 0 THEN NoLink ELSE s[1]) /\ z = (IF n = 0 THEN NoLink ELSE s[n])
      /\ \A i \in 1..n : /\ s[i] \in DOMAIN m
                         /\ m[s[i]].next = Beyond(s, i)
                         /\ m[s[i]].prev = Before(s, i) \/ (one /\ m[s[i]].prev = NoLink)
      /\ \A i, k \in 1..n : s[i] = s[k] => i = k
      /\ \A d : d \in DOMAIN m <=> \E i \in 1..n : d = s[i]
  BY ChainedIs DEF Chained
<1>2. /\ t \in Seq(Item) /\ Len(t) = n - 1
      /\ \A i \in 1..n - 1 : t[i] = IF i < j THEN s[i] ELSE s[i + 1]
  BY <1>1, RemovalIs
<1>3. /\ \A d : d \in DOMAIN u <=> d \in DOMAIN m /\ d # s[j]
      /\ \A d \in DOMAIN u : u[d].next = IF 1 < j /\ d = s[j - 1] THEN Beyond(s, j) ELSE m[d].next
      /\ \A d \in DOMAIN u : u[d].prev = IF j < n /\ d = s[j + 1] THEN Before(s, j) ELSE m[d].prev
  BY DEF Taken
<1>4. j \in 1..n
  OBVIOUS
<1>5. \A i \in 1..n : /\ Beyond(s, i) = IF i = n THEN NoLink ELSE s[i + 1]
                      /\ Before(s, i) = IF i = 1 THEN NoLink ELSE s[i - 1]
  BY DEF Beyond, Before
<1> HIDE DEF n, t
<1>6. \A i \in 1..n - 1 : /\ Beyond(t, i) = IF i = n - 1 THEN NoLink ELSE t[i + 1]
                          /\ Before(t, i) = IF i = 1 THEN NoLink ELSE t[i - 1]
  BY <1>2 DEF Beyond, Before
<1>7. t = <<>> <=> n = 1
  BY SMTT(30), <1>1, <1>2, <1>4, EmptySeq
<1>8. (IF j = 1 THEN Beyond(s, 1) ELSE a) = IF t = <<>> THEN NoLink ELSE t[1]
  <2>1. CASE n = 1
    <3>1. j = 1 /\ 1 \in 1..n
      BY <1>4, <2>1
    <3> QED
      BY <1>5, <1>7, <2>1, <3>1
  <2>2. CASE n # 1
    <3>1. n # 0 /\ 1 \in 1..n /\ 1 \in 1..n - 1 /\ (1 < j <=> j # 1) /\ 1 + 1 = 2
      BY <1>1, <1>4, <2>2
    <3> QED
      BY <1>1, <1>2, <1>5, <1>7, <2>2, <3>1
  <2> QED
    BY <2>1, <2>2
<1>9. (IF j = n THEN Before(s, j) ELSE z) = IF t = <<>> THEN NoLink ELSE t[n - 1]
  <2>1. CASE n = 1
    <3>1. j = 1
      BY <1>4, <2>1
    <3> QED
      BY <1>4, <1>5, <1>7, <2>1, <3>1
  <2>2. CASE n # 1
    <3>1. n # 0 /\ n \in 1..n /\ n - 1 \in 1..n - 1 /\ (n - 1 < j <=> j = n) /\ n - 1 + 1 = n
      BY <1>1, <1>4, <2>2
    <3>2. t[n - 1] = IF n - 1 < j THEN s[n - 1] ELSE s[n]
      BY <1>2, <3>1
    <3>3. Before(s, n) = s[n - 1]
      BY <1>5, <2>2, <3>1
    <3>4. t # <<>> /\ (j # n => z = s[n])
      BY <1>1, <1>7, <2>2, <3>1
    <3> QED
      BY <3>1, <3>2, <3>3, <3>4
  <2> QED
    BY <2>1, <2>2
<1>10. \A i \in 1..n - 1 : /\ i < j => t[i] = s[i] /\ i \in 1..n
                           /\ i >= j => t[i] = s[i + 1] /\ i + 1 \in 1..n
  <2> SUFFICES ASSUME NEW i \in 1..n - 1
               PROVE  /\ i < j => t[i] = s[i] /\ i \in 1..n
                      /\ i >= j => t[i] = s[i + 1] /\ i + 1 \in 1..n
    OBVIOUS
  <2>1. t[i] = IF i < j THEN s[i] ELSE s[i + 1]
    BY <1>2
  <2>2. i \in 1..n /\ i + 1 \in 1..n /\ (i >= j => ~(i < j))
    BY <1>1, <1>4
  <2> QED
    BY <2>1, <2>2
<1>11. \A d : d \in DOMAIN u <=> \E i \in 1..n - 1 : d = t[i]
  <2>1. ASSUME NEW i \in 1..n - 1
        PROVE  t[i] \in DOMAIN u
    <3>1. CASE i < j
      <4>1. t[i] = s[i] /\ i \in 1..n /\ i # j
        BY <1>1, <1>4, <1>10, <3>1
      <4> QED
        BY <1>1, <1>3, <1>4, <4>1
    <3>2. CASE i >= j
      <4>1. t[i] = s[i + 1] /\ i + 1 \in 1..n /\ i + 1 # j
        BY <1>1, <1>4, <1>10, <3>2
      <4> QED
        BY <1>1, <1>3, <1>4, <4>1
    <3> QED
      BY <1>1, <1>4, <3>1, <3>2
  <2>2. ASSUME NEW d, d \in DOMAIN u
        PROVE  \E i \in 1..n - 1 : d = t[i]
    <3>1. PICK i \in 1..n : d = s[i]
      BY <1>1, <1>3, <2>2
    <3>2. i # j
      BY <1>3, <2>2, <3>1
    <3>3. CASE i < j
      <4>1. i \in 1..n - 1
        BY <1>1, <1>4, <3>3
      <4> QED
        BY <1>10, <3>1, <3>3, <4>1
    <3>4. CASE i > j
      <4>1. i - 1 \in 1..n - 1 /\ i - 1 >= j /\ i - 1 + 1 = i
        BY <1>1, <1>4, <3>4
      <4>2. t[i - 1] = s[i]
        BY <1>10, <4>1
      <4> QED
        BY <3>1, <4>1, <4>2
    <3> QED
      BY <1>1, <1>4, <3>2, <3>3, <3>4
  <2> QED
    BY <2>1, <2>2
<1>12. \A i, k \in 1..n - 1 : t[i] = t[k] => i = k
  <2>1. SUFFICES ASSUME NEW i \in 1..n - 1, NEW k \in 1..n - 1, t[i] = t[k]
                 PROVE  i = k
    OBVIOUS
  <2>2. i \in 1..n - 1 /\ k \in 1..n - 1
    BY <2>1
  <2>3. \A h \in 1..n - 1 : h < j \/ h >= j
    BY <1>1, <1>4
  <2>4. CASE i < j /\ k < j
    BY <1>1, <1>10, <2>1, <2>2, <2>4
  <2>5. CASE i >= j /\ k >= j
    <3>1. i + 1 = k + 1
      BY <1>1, <1>10, <2>1, <2>2, <2>5
    <3> QED
      BY <1>1, <2>2, <3>1
  <2>6. CASE i < j /\ k >= j
    <3>1. i = k + 1
      BY <1>1, <1>10, <2>1, <2>2, <2>6
    <3> QED
      BY <1>1, <1>4, <2>2, <2>6, <3>1
  <2>7. CASE i >= j /\ k < j
    <3>1. i + 1 = k
      BY <1>1, <1>10, <2>1, <2>2, <2>7
    <3> QED
      BY <1>1, <1>4, <2>2, <2>7, <3>1
  <2> QED
    BY <2>2, <2>3, <2>4, <2>5, <2>6, <2>7
<1>13. ASSUME NEW i \in 1..n - 1
       PROVE  /\ u[t[i]].next = Beyond(t, i)
              /\ u[t[i]].prev = Before(t, i) \/ (one /\ u[t[i]].prev = NoLink)
  <2>1. t[i] \in DOMAIN u
    BY <1>11
  <2>2. CASE i < j
    <3>1. t[i] = s[i] /\ i \in 1..n /\ 1 < j /\ j - 1 \in 1..n /\ i # n
      BY <1>1, <1>4, <1>10, <2>2
    <3>2. u[s[i]].next = Beyond(t, i)
      <4>1. CASE i = j - 1
        <5>1. u[s[i]].next = Beyond(s, j)
          BY <1>3, <2>1, <3>1, <4>1
        <5>2. i + 1 = j /\ (i = n - 1 <=> j = n)
          BY <1>1, <1>4, <4>1
        <5>3. CASE j = n
          BY <1>4, <1>5, <1>6, <5>1, <5>2, <5>3
        <5>4. CASE j # n
          <6>1. j \in 1..n - 1 /\ j >= j
            BY <1>1, <1>4, <5>4
          <6>2. t[j] = s[j + 1]
            BY <1>10, <6>1
          <6> QED
            BY <1>4, <1>5, <1>6, <5>1, <5>2, <5>4, <6>2
        <5> QED
          BY <5>3, <5>4
      <4>2. CASE i # j - 1
        <5>1. i + 1 \in 1..n - 1 /\ i + 1 < j /\ i # n - 1
          BY <1>1, <1>4, <2>2, <4>2
        <5>2. s[i] # s[j - 1]
          BY <1>1, <3>1, <4>2
        <5>3. t[i + 1] = s[i + 1]
          BY <1>10, <5>1
        <5> QED
          BY <1>1, <1>3, <1>5, <1>6, <2>1, <3>1, <5>1, <5>2, <5>3
      <4> QED
        BY <4>1, <4>2
    <3>3. u[s[i]].prev = m[s[i]].prev
      <4>1. j < n => j + 1 \in 1..n /\ j + 1 # i
        BY <1>1, <1>4, <2>2
      <4> QED
        BY <1>1, <1>3, <2>1, <3>1, <4>1
    <3>4. Before(t, i) = Before(s, i)
      <4>1. i # 1 => i - 1 \in 1..n - 1 /\ i - 1 < j
        BY <1>1, <1>4, <2>2
      <4> QED
        BY <1>5, <1>6, <1>10, <3>1, <4>1
    <3> QED
      BY <1>1, <3>1, <3>2, <3>3, <3>4
  <2>3. CASE i >= j
    <3> DEFINE h == i + 1
    <3>1. t[i] = s[h] /\ h \in 1..n
      BY <1>10, <2>3
    <3>2. h # 1 /\ h - 1 = i /\ h > j /\ (h = n <=> i = n - 1) /\ i + 1 = h /\ j < n
      BY <1>1, <1>4, <2>3
    <3> HIDE DEF h
    <3>3. u[s[h]].next = Beyond(t, i)
      <4>1. 1 < j => j - 1 \in 1..n /\ j - 1 # h
        BY <1>1, <1>4, <3>1, <3>2
      <4>2. u[s[h]].next = Beyond(s, h)
        BY <1>1, <1>3, <2>1, <3>1, <4>1
      <4>3. i # n - 1 => h \in 1..n - 1 /\ h >= j
        BY <1>1, <1>4, <3>1, <3>2
      <4> QED
        BY <1>5, <1>6, <1>10, <3>1, <3>2, <4>2, <4>3
    <3>4. CASE h = j + 1
      <4>1. u[s[h]].prev = Before(s, j)
        BY <1>3, <2>1, <3>1, <3>2, <3>4
      <4>2. i = j /\ (j # 1 => j - 1 \in 1..n - 1 /\ j - 1 < j /\ j - 1 = i - 1)
        BY <1>1, <1>4, <3>1, <3>2, <3>4
      <4>3. Before(s, j) = Before(t, i)
        BY <1>4, <1>5, <1>6, <1>10, <4>2
      <4> QED
        BY <3>1, <3>3, <4>1, <4>3
    <3>5. CASE h # j + 1
      <4>1. j + 1 \in 1..n /\ i - 1 \in 1..n - 1 /\ i - 1 >= j /\ i - 1 + 1 = i /\ i # 1
        BY <1>1, <1>4, <3>1, <3>2, <3>5
      <4>2. s[h] # s[j + 1]
        BY <1>1, <3>1, <3>5, <4>1
      <4>3. u[s[h]].prev = m[s[h]].prev
        BY <1>3, <2>1, <3>1, <4>2
      <4>4. t[i - 1] = s[i]
        BY <1>10, <4>1
      <4>5. Before(t, i) = Before(s, h)
        BY <1>5, <1>6, <3>1, <3>2, <4>1, <4>4
      <4> QED
        BY <1>1, <3>1, <3>3, <4>3, <4>5
    <3> QED
      BY <3>4, <3>5
  <2> QED
    BY <1>1, <1>4, <2>2, <2>3
<1> QED
  <2> DEFINE b == IF j = 1 THEN Beyond(s, 1) ELSE a
             y == IF j = n THEN Before(s, j) ELSE z
  <2>1. /\ b = IF t = <<>> THEN NoLink ELSE t[1]
        /\ y = IF t = <<>> THEN NoLink ELSE t[Len(t)]
    BY <1>2, <1>8, <1>9
  <2>2. \A i \in 1..Len(t) : /\ t[i] \in DOMAIN u
                             /\ u[t[i]].next = Beyond(t, i)
                             /\ u[t[i]].prev = Before(t, i) \/ (one /\ u[t[i]].prev = NoLink)
    BY <1>2, <1>11, <1>13
  <2>3. /\ \A i, k \in 1..Len(t) : t[i] = t[k] => i = k
        /\ \A d : d \in DOMAIN u <=> \E i \in 1..Len(t) : d = t[i]
    BY <1>2, <1>11, <1>12
  <2> HIDE DEF b, y
  <2>4. Chained(t, u, b, y, one)
    BY <1>2, <2>1, <2>2, <2>3 DEF Chained
  <2> QED
    BY <2>4 DEF n, t, b, y

\* The walk along the links of one kind finds as much of the chain as it is let to.
Path(r, n, m, l, w) ==
  /\ NoLink \notin DOMAIN m
  /\ l = IF n = 0 THEN NoLink ELSE r[1]
  /\ \A i \in 1..n : r[i] \in DOMAIN m /\ m[r[i]][w] = IF i = n THEN NoLink ELSE r[i + 1]

\* As much of it as k steps find.
FirstOf(r, n, k) == [i \in 1..(IF k < n THEN k ELSE n) |-> r[i]]

\* That is what Chain gives.
LEMMA ChainIs ==
  ASSUME NEW m, NEW w, NEW l, NEW k \in Nat, NEW r, NEW n \in Nat, Path(r, n, m, l, w)
  PROVE  Chain(m, l, w, k) = FirstOf(r, n, k)
<1> DEFINE Eq(f) == f = [i \in 0..k |->
                           IF i = 0 THEN l
                           ELSE LET it == f[i - 1] IN IF it \in DOMAIN m THEN m[it][w] ELSE NoLink]
           g == [i \in 0..k |-> IF i < n THEN r[i + 1] ELSE NoLink]
           at == CHOOSE f : Eq(f)
           c == IF k < n THEN k ELSE n
<1> USE DEF Path
<1>1. \A i \in 0..k : g[i] = IF i < n THEN r[i + 1] ELSE NoLink
  OBVIOUS
<1>2. g = [i \in 0..k |-> g[i]]
  OBVIOUS
<1> HIDE DEF g
<1>3. \A i \in 0..k :
        g[i] = IF i = 0 THEN l
               ELSE IF g[i - 1] \in DOMAIN m THEN m[g[i - 1]][w] ELSE NoLink
  <2> SUFFICES ASSUME NEW i \in 0..k
               PROVE  g[i] = IF i = 0 THEN l
                             ELSE IF g[i - 1] \in DOMAIN m THEN m[g[i - 1]][w] ELSE NoLink
    OBVIOUS
  <2>1. CASE i = 0
    <3>1. 0 < n <=> n # 0
      OBVIOUS
    <3> QED
      BY <1>1, <2>1, <3>1
  <2>2. CASE i # 0 /\ i <= n
    <3>1. i - 1 \in 0..k /\ i - 1 < n /\ i - 1 + 1 = i /\ i \in 1..n /\ (i < n <=> i # n)
      BY <2>2
    <3>2. g[i - 1] = r[i]
      BY <1>1, <3>1
    <3> QED
      BY <1>1, <2>2, <3>1, <3>2
  <2>3. CASE i # 0 /\ i > n
    <3>1. i - 1 \in 0..k /\ ~(i - 1 < n) /\ ~(i < n)
      BY <2>3
    <3> QED
      BY <1>1, <2>3, <3>1
  <2> QED
    BY <2>1, <2>2, <2>3
<1>4. Eq(g)
  BY <1>2, <1>3, Zenon
<1>5. Eq(at)
  BY <1>4, Zenon
<1>6. \A i \in 0..k :
        at[i] = IF i = 0 THEN l
                ELSE IF at[i - 1] \in DOMAIN m THEN m[at[i - 1]][w] ELSE NoLink
  <2> HIDE DEF at
  <2> QED
    BY <1>5
<1>7. Chain(m, l, w, k) =
        IF l = NoLink THEN <<>>
        ELSE [i \in 1..Cardinality({i \in 0..k - 1 : at[i] \in DOMAIN m}) |-> at[i - 1]]
  BY DEF Chain
<1> HIDE DEF at, Eq
<1>8. \A i \in 0..k : at[i] = g[i]
  <2> DEFINE T == {i \in 0..k : at[i] = g[i]}
  <2>1. 0 \in T
    <3>1. 0 \in 0..k
      OBVIOUS
    <3> QED
      BY <1>3, <1>6, <3>1
  <2>2. ASSUME NEW i \in 0..k - 1, i \in T
        PROVE  i + 1 \in T
    <3>1. i + 1 \in 0..k /\ i + 1 # 0 /\ i + 1 - 1 = i /\ at[i] = g[i]
      BY <2>2
    <3> QED
      BY <1>3, <1>6, <3>1
  <2> HIDE DEF T
  <2>3. \A i \in 0..k : i \in T
    BY <2>1, <2>2, InductionTo
  <2> QED
    BY <2>3 DEF T
<1>9. c \in Nat /\ c <= k /\ c <= n /\ \A i \in 0..k - 1 : i < n <=> i < c
  OBVIOUS
<1> HIDE DEF c
<1>10. {i \in 0..k - 1 : at[i] \in DOMAIN m} = 0..c - 1
  <2>1. ASSUME NEW i \in 0..k - 1
        PROVE  at[i] \in DOMAIN m <=> i < c
    <3>1. CASE i < n
      <4>1. i + 1 \in 1..n
        BY <3>1
      <4> QED
        BY <1>1, <1>8, <1>9, <3>1, <4>1
    <3>2. CASE ~(i < n)
      BY <1>1, <1>8, <1>9, <3>2
    <3> QED
      BY <3>1, <3>2
  <2> QED
    BY <1>9, <2>1
<1>11. Cardinality(0..c - 1) = c
  <2>1. 0 \in Int /\ c - 1 \in Int
    BY <1>9
  <2>2. Cardinality(0..c - 1) = IF 0 > c - 1 THEN 0 ELSE (c - 1) - 0 + 1
    BY <2>1, FS_Interval
  <2> QED
    BY <1>9, <2>2
<1>12. Chain(m, l, w, k) = IF l = NoLink THEN <<>> ELSE [i \in 1..c |-> at[i - 1]]
  BY <1>7, <1>10, <1>11
<1>13. \A i \in 1..c : at[i - 1] = r[i]
  <2> SUFFICES ASSUME NEW i \in 1..c PROVE at[i - 1] = r[i]
    OBVIOUS
  <2>1. i - 1 \in 0..k /\ i - 1 < n /\ i - 1 + 1 = i
    BY <1>9
  <2> QED
    BY <1>1, <1>8, <2>1
<1>14. [i \in 1..c |-> at[i - 1]] = [i \in 1..c |-> r[i]]
  BY <1>13
<1>15. CASE l = NoLink
  <2>1. n = 0
    <3>1. n # 0 => 1 \in 1..n
      OBVIOUS
    <3> QED
      BY <1>15, <3>1
  <2>2. c = 0
    BY <2>1, <1>9
  <2>3. [i \in 1..c |-> r[i]] = <<>>
    <3> DEFINE f == [i \in 1..c |-> r[i]]
    <3>1. IsSeqOf(f, 0)
      BY <2>2 DEF IsSeqOf
    <3>2. f \in Seq({f[i] : i \in 1..0}) /\ Len(f) = 0
      <4> HIDE DEF f
      <4> QED
        BY <3>1, SeqOfLen
    <3> QED
      BY <3>2, EmptySeq
  <2> QED
    BY <1>12, <1>15, <2>3 DEF c, FirstOf
<1>16. CASE l # NoLink
  BY <1>12, <1>14, <1>16 DEF c, FirstOf
<1> QED
  BY <1>15, <1>16

\* Forwards the walk finds the whole chain.
LEMMA ForwardIs ==
  ASSUME NEW s, NEW m, NEW a, NEW z, NEW one, Chained(s, m, a, z, one), Linked(m),
         NEW k \in Nat
  PROVE  /\ Chain(m, a, "next", k) = FirstOf(s, Len(s), k)
         /\ k >= Len(s) => Chain(m, a, "next", k) = s
<1>1. /\ Len(s) \in Nat /\ (s = <<>> <=> Len(s) = 0) /\ s = [i \in 1..Len(s) |-> s[i]]
      /\ a = (IF s = <<>> THEN NoLink ELSE s[1])
      /\ \A i \in 1..Len(s) : s[i] \in DOMAIN m /\ m[s[i]].next = Beyond(s, i)
  BY ChainedIs DEF Chained
<1> DEFINE n == Len(s)
           w == "next"
<1>2. a = (IF n = 0 THEN NoLink ELSE s[1]) /\ n \in Nat
  BY <1>1
<1>3. \A i \in 1..n : s[i] \in DOMAIN m /\ m[s[i]][w] = IF i = n THEN NoLink ELSE s[i + 1]
  BY <1>1 DEF Beyond
<1>4. NoLink \notin DOMAIN m
  BY ListAssumption DEF Linked
<1>5. s = [i \in 1..n |-> s[i]]
  BY <1>1
<1> HIDE DEF n, w
<1>6. Chain(m, a, w, k) = FirstOf(s, n, k)
  <2>1. Path(s, n, m, a, w)
    BY <1>2, <1>3, <1>4 DEF Path
  <2> QED
    BY <1>2, <2>1, ChainIs
<1>7. k >= n => FirstOf(s, n, k) = s
  BY <1>2, <1>5 DEF FirstOf
<1> QED
  BY <1>6, <1>7 DEF n, w

\* A set of positions has a last one.
LEMMA LastOf ==
  ASSUME NEW n \in Nat, NEW T, 1 \in T, n >= 1
  PROVE  \E p \in 1..n : p \in T /\ \A q \in p + 1..n : q \notin T
<1> DEFINE U == {i \in 0..n - 1 : \A q \in n - i..n : q \notin T}
<1>1. SUFFICES ASSUME \A p \in 1..n : p \in T => \E q \in p + 1..n : q \in T
               PROVE  FALSE
  OBVIOUS
<1>2. 0 \in U
  <2>1. n \in 1..n /\ \A q \in n + 1..n : FALSE
    OBVIOUS
  <2>2. n \notin T
    BY <1>1, <2>1
  <2>3. 0 \in 0..n - 1 /\ \A q \in n - 0..n : q = n
    OBVIOUS
  <2> QED
    BY <2>2, <2>3
<1>3. ASSUME NEW i \in 0..(n - 1) - 1, i \in U
      PROVE  i + 1 \in U
  <2>1. \A q \in n - i..n : q \notin T
    BY <1>3
  <2> DEFINE p == n - (i + 1)
  <2>2. p \in 1..n /\ p + 1 = n - i /\ i + 1 \in 0..n - 1 /\ \A q \in p..n : q = p \/ q \in n - i..n
    OBVIOUS
  <2> HIDE DEF p
  <2>3. p \notin T
    BY <1>1, <2>1, <2>2
  <2>4. \A q \in p..n : q \notin T
    BY <2>1, <2>2, <2>3
  <2> QED
    BY <2>2, <2>4 DEF p
<1> HIDE DEF U
<1>4. n - 1 \in Nat /\ n - 1 \in 0..n - 1
  OBVIOUS
<1>5. n - 1 \in U
  BY <1>2, <1>3, <1>4, InductionTo
<1> QED
  <2>1. 1 \in n - (n - 1)..n
    OBVIOUS
  <2> QED
    BY <1>5, <2>1 DEF U

\* From the end on.
Turned(s) == [i \in 1..Len(s) |-> s[Len(s) + 1 - i]]

\* Backwards it finds the chain from its end, in a copy perhaps not all of it.
LEMMA BackwardIs ==
  ASSUME NEW s, NEW m, NEW a, NEW z, NEW one, Chained(s, m, a, z, one), Linked(m), s # <<>>
  PROVE  \E p \in 1..Len(s) :
           /\ ~one => p = 1
           /\ \A k \in Nat : Chain(m, z, "prev", k) = FirstOf(Turned(s), Len(s) + 1 - p, k)
<1> DEFINE n == Len(s)
           T == {i \in 1..n : m[s[i]].prev = NoLink}
<1>1. /\ n \in Nat /\ n >= 1 /\ 1 \in 1..n
      /\ z = s[n]
      /\ \A i \in 1..n : s[i] \in DOMAIN m /\ s[i] \in Item
  <2>1. n \in Nat /\ n # 0 /\ \A i \in 1..n : s[i] \in DOMAIN m /\ s[i] \in Item
    BY ChainedIs DEF Chained
  <2>2. z = s[n]
    BY DEF Chained
  <2> QED
    BY <2>1, <2>2
<1>2. \A i \in 1..n : m[s[i]].prev = Before(s, i) \/ (one /\ m[s[i]].prev = NoLink)
  BY DEF Chained
<1>3. NoLink \notin DOMAIN m /\ NoLink \notin Item
  BY ListAssumption DEF Linked
<1>4. \A i \in 1..n : Before(s, i) = IF i = 1 THEN NoLink ELSE s[i - 1]
  BY DEF Before
<1> HIDE DEF n
<1>5. 1 \in T
  BY <1>1, <1>2, <1>4
<1> HIDE DEF T
<1>6. PICK p \in 1..n : p \in T /\ \A q \in p + 1..n : q \notin T
  BY <1>1, <1>5, LastOf
<1>7. m[s[p]].prev = NoLink
  BY <1>6 DEF T
<1>8. \A q \in p + 1..n : m[s[q]].prev = s[q - 1]
  <2> SUFFICES ASSUME NEW q \in p + 1..n
               PROVE  m[s[q]].prev = s[q - 1]
    OBVIOUS
  <2>1. q \in 1..n /\ q # 1
    BY <1>1
  <2>2. m[s[q]].prev # NoLink
    BY <1>6, <2>1 DEF T
  <2> QED
    BY <1>2, <1>4, <2>1, <2>2
<1>9. ~one => p = 1
  <2>1. SUFFICES ASSUME ~one, p # 1
                 PROVE  FALSE
    OBVIOUS
  <2>2. p - 1 \in 1..n
    BY <1>1, <2>1
  <2> QED
    BY <1>1, <1>2, <1>3, <1>4, <1>7, <2>1, <2>2
<1>10. ASSUME NEW k \in Nat
       PROVE  Chain(m, z, "prev", k) = FirstOf(Turned(s), n + 1 - p, k)
  <2> DEFINE c == n + 1 - p
             r == Turned(s)
             w == "prev"
  <2>1. /\ c \in Nat /\ c # 0 /\ 1 \in 1..c /\ n + 1 - 1 = n /\ n + 1 - c = p /\ p \in 1..n
        /\ \A i \in 1..c : n + 1 - i \in 1..n /\ i \in 1..n
        /\ \A i \in 1..c : i # c => n + 1 - i \in p + 1..n /\ i + 1 \in 1..c /\ n + 1 - (i + 1) = n + 1 - i - 1
    BY <1>1
  <2> HIDE DEF c
  <2>2. \A i \in 1..c : r[i] = s[n + 1 - i]
    BY <2>1 DEF Turned, n
  <2> HIDE DEF r
  <2>3. z = IF c = 0 THEN NoLink ELSE r[1]
    BY <1>1, <2>1, <2>2
  <2>4. ASSUME NEW i \in 1..c
        PROVE  r[i] \in DOMAIN m /\ m[r[i]][w] = IF i = c THEN NoLink ELSE r[i + 1]
    <3>1. r[i] \in DOMAIN m
      BY <1>1, <2>1, <2>2
    <3>2. CASE i = c
      BY <1>7, <2>1, <2>2, <3>1, <3>2
    <3>3. CASE i # c
      <4>1. m[s[n + 1 - i]].prev = s[n + 1 - i - 1]
        BY <1>1, <1>8, <2>1, <3>3
      <4>2. r[i + 1] = s[n + 1 - i - 1]
        BY <2>1, <2>2, <3>3
      <4> QED
        BY <2>2, <3>1, <3>3, <4>1, <4>2
    <3> QED
      BY <3>2, <3>3
  <2> HIDE DEF w
  <2>5. Path(r, c, m, z, w)
    BY <1>3, <2>3, <2>4 DEF Path
  <2>6. Chain(m, z, w, k) = FirstOf(r, c, k)
    BY <2>1, <2>5, ChainIs
  <2> QED
    BY <2>6 DEF c, r, w
<1> QED
  BY <1>6, <1>9, <1>10 DEF n

\* Insertion and removal in the words of Deque.
LEMMA InsertionForms ==
  ASSUME NEW s \in Seq(Item), NEW e \in Item, NEW j \in 1..Len(s) + 1
  PROVE  /\ j = Len(s) + 1 => Insertion(s, j, e) = Append(s, e)
         /\ j <= Len(s) => Insertion(s, j, e) = SubSeq(s, 1, j - 1) \o <<e>> \o SubSeq(s, j, Len(s))
<1> DEFINE n == Len(s)
           t == Insertion(s, j, e)
<1>1. n \in Nat /\ j \in 1..n + 1 /\ \A i \in 1..n : s[i] \in Item
  BY LenProperties, ElementOfSeq
<1>2. /\ t \in Seq(Item) /\ Len(t) = n + 1
      /\ \A i \in 1..n + 1 : t[i] = IF i < j THEN s[i] ELSE IF i = j THEN e ELSE s[i - 1]
  BY InsertionIs
<1>3. CASE j = n + 1
  <2> DEFINE u == Append(s, e)
  <2>1. /\ u \in Seq(Item) /\ Len(u) = n + 1
        /\ \A i \in 1..n : u[i] = s[i]
        /\ u[n + 1] = e
    BY AppendProperties
  <2> HIDE DEF n, t, u
  <2>2. \A i \in 1..n + 1 : t[i] = u[i]
    BY <1>1, <1>2, <1>3, <2>1
  <2>3. t = u
    BY <1>2, <2>1, <2>2, SeqEqual
  <2>4. ~(j <= n)
    BY <1>1, <1>3
  <2> QED
    BY <1>3, <2>3, <2>4 DEF n, t, u
<1>4. CASE j <= n
  <2> DEFINE a == SubSeq(s, 1, j - 1)
             b == SubSeq(s, j, n)
             c == a \o <<e>>
             u == c \o b
  <2>1. /\ 1 \in Int /\ j - 1 \in Int /\ j \in Int /\ n \in Int
        /\ j - 1 - 1 + 1 = j - 1 /\ (IF 1 <= j - 1 THEN j - 1 - 1 + 1 ELSE 0) = j - 1
        /\ (IF j <= n THEN n - j + 1 ELSE 0) = n - j + 1
        /\ \A i \in 1..j - 1 : i \in 1..n /\ 1 + i - 1 = i
        /\ \A i \in j..n : i \in 1..n
    BY <1>1, <1>4
  <2> HIDE DEF n
  <2>2. a \in Seq(Item) /\ Len(a) = j - 1 /\ \A i \in 1..j - 1 : a[i] = s[i]
    <3>1. \A i \in 1..j - 1 : s[i] \in Item
      BY <1>1, <2>1
    <3>2. /\ SubSeq(s, 1, j - 1) \in Seq(Item)
          /\ Len(SubSeq(s, 1, j - 1)) = (IF 1 <= j - 1 THEN j - 1 - 1 + 1 ELSE 0)
          /\ \A i \in 1..j - 1 - 1 + 1 : SubSeq(s, 1, j - 1)[i] = s[1 + i - 1]
      BY <2>1, <3>1, SubSeqProperties
    <3> QED
      BY <2>1, <3>2
  <2>3. b \in Seq(Item) /\ Len(b) = n - j + 1 /\ \A i \in 1..n - j + 1 : b[i] = s[j + i - 1]
    <3>1. \A i \in j..n : s[i] \in Item
      BY <1>1, <2>1
    <3> QED
      BY <2>1, <3>1, SubSeqProperties
  <2> HIDE DEF a, b
  <2>4. c \in Seq(Item) /\ Len(c) = j /\ \A i \in 1..j : c[i] = IF i = j THEN e ELSE s[i]
    <3>1. <<e>> \in Seq(Item) /\ Len(<<e>>) = 1 /\ <<e>>[1] = e
      OBVIOUS
    <3> DEFINE o == <<e>>
    <3> HIDE DEF o
    <3>2. /\ a \o o \in Seq(Item) /\ Len(a \o o) = Len(a) + Len(o)
          /\ \A i \in 1..Len(a) + Len(o) : (a \o o)[i] = IF i <= Len(a) THEN a[i] ELSE o[i - Len(a)]
      BY <2>2, <3>1, ConcatProperties DEF o
    <3>3. Len(a) + Len(o) = j
      BY <1>1, <2>2, <3>1 DEF o
    <3>4. \A i \in 1..j : /\ i <= j - 1 <=> i # j
                          /\ i # j => i \in 1..j - 1
                          /\ i = j => i - (j - 1) = 1
      BY <1>1
    <3>5. \A i \in 1..j : (a \o o)[i] = IF i = j THEN e ELSE s[i]
      BY <2>2, <3>1, <3>2, <3>3, <3>4 DEF o
    <3> QED
      BY <3>2, <3>3, <3>5 DEF o
  <2> HIDE DEF c
  <2>5. u \in Seq(Item) /\ Len(u) = n + 1
        /\ \A i \in 1..n + 1 : u[i] = IF i <= j THEN c[i] ELSE b[i - j]
    <3>1. Len(c) + Len(b) = n + 1
      BY <1>1, <2>3, <2>4
    <3>2. /\ c \o b \in Seq(Item) /\ Len(c \o b) = Len(c) + Len(b)
          /\ \A i \in 1..Len(c) + Len(b) : (c \o b)[i] = IF i <= Len(c) THEN c[i] ELSE b[i - Len(c)]
      BY <2>3, <2>4, ConcatProperties
    <3> QED
      BY <2>4, <3>1, <3>2
  <2> HIDE DEF u, t
  <2>6. ASSUME NEW i \in 1..n + 1
        PROVE  t[i] = u[i]
    <3>1. CASE i <= j
      <4>1. i \in 1..j /\ (i < j <=> i # j)
        BY <1>1, <3>1
      <4> QED
        BY <1>2, <2>4, <2>5, <3>1, <4>1
    <3>2. CASE i > j
      <4>1. i - j \in 1..n - j + 1 /\ j + (i - j) - 1 = i - 1 /\ ~(i < j) /\ i # j /\ ~(i <= j)
        BY <1>1, <3>2
      <4> QED
        BY <1>2, <2>3, <2>5, <4>1
    <3> QED
      BY <1>1, <3>1, <3>2
  <2>7. t = u
    BY <1>2, <2>5, <2>6, SeqEqual
  <2>8. j # n + 1
    BY <1>1, <1>4
  <2> QED
    BY <2>7, <2>8 DEF u, c, a, b, t, n
<1> QED
  BY <1>1, <1>3, <1>4

\* Without its last or first element.
LEMMA RemovalForms ==
  ASSUME NEW s \in Seq(Item), s # <<>>
  PROVE  /\ Removal(s, Len(s)) = SubSeq(s, 1, Len(s) - 1)
         /\ Removal(s, 1) = Tail(s)
<1> DEFINE n == Len(s)
<1>1. n \in Nat /\ n # 0 /\ n \in 1..n /\ 1 \in 1..n /\ \A i \in 1..n : s[i] \in Item
  <2>1. n \in Nat /\ n # 0
    BY EmptySeq
  <2>2. \A i \in 1..n : s[i] \in Item
    BY ElementOfSeq
  <2> HIDE DEF n
  <2> QED
    BY <2>1, <2>2
<1>2. Removal(s, n) = SubSeq(s, 1, n - 1)
  <2> DEFINE t == Removal(s, n)
             u == SubSeq(s, 1, n - 1)
  <2>1. t \in Seq(Item) /\ Len(t) = n - 1 /\ \A i \in 1..n - 1 : t[i] = IF i < n THEN s[i] ELSE s[i + 1]
    BY <1>1, RemovalIs
  <2>2. u \in Seq(Item) /\ Len(u) = n - 1 /\ \A i \in 1..n - 1 : u[i] = s[i]
    <3> HIDE DEF n
    <3>1. /\ 1 \in Int /\ n - 1 \in Int /\ n - 1 - 1 + 1 = n - 1
          /\ (IF 1 <= n - 1 THEN n - 1 - 1 + 1 ELSE 0) = n - 1
          /\ \A i \in 1..n - 1 : i \in 1..n /\ 1 + i - 1 = i
      BY <1>1
    <3>2. \A i \in 1..n - 1 : s[i] \in Item
      BY <1>1, <3>1
    <3>3. /\ SubSeq(s, 1, n - 1) \in Seq(Item)
          /\ Len(SubSeq(s, 1, n - 1)) = (IF 1 <= n - 1 THEN n - 1 - 1 + 1 ELSE 0)
          /\ \A i \in 1..n - 1 - 1 + 1 : SubSeq(s, 1, n - 1)[i] = s[1 + i - 1]
      BY <3>1, <3>2, SubSeqProperties
    <3> QED
      BY <3>1, <3>3
  <2> HIDE DEF t, u, n
  <2>3. \A i \in 1..n - 1 : t[i] = u[i]
    BY <1>1, <2>1, <2>2
  <2>4. t = u
    BY <2>1, <2>2, <2>3, SeqEqual
  <2> QED
    BY <2>4 DEF t, u
<1>3. Removal(s, 1) = Tail(s)
  <2> DEFINE t == Removal(s, 1)
             u == Tail(s)
  <2>1. t \in Seq(Item) /\ Len(t) = n - 1 /\ \A i \in 1..n - 1 : t[i] = IF i < 1 THEN s[i] ELSE s[i + 1]
    BY <1>1, RemovalIs
  <2>2. u \in Seq(Item) /\ Len(u) = n - 1 /\ \A i \in 1..n - 1 : u[i] = s[i + 1]
    BY HeadTailProperties
  <2> HIDE DEF t, u, n
  <2>3. \A i \in 1..n - 1 : t[i] = u[i]
    BY <1>1, <2>1, <2>2
  <2>4. t = u
    BY <2>1, <2>2, <2>3, SeqEqual
  <2> QED
    BY <2>4 DEF t, u
<1> QED
  BY <1>2, <1>3 DEF n

\* What a list holds, read off the chain.
LEMMA ForwardOf ==
  ASSUME NEW s, Chained(s, links, head, tail, oneWay), Linked(links),
         numLinks \in 0..MaxCount, Len(s) <= numLinks
  PROVE  Forward = s
<1>1. Len(s) \in Nat
  BY ChainedIs
<1>2. MaxCount + 1 \in Nat /\ MaxCount + 1 >= Len(s)
  BY <1>1, ListAssumption
<1> QED
  BY <1>2, ForwardIs DEF Forward

\* The same after a call.
LEMMA ForwardAfter ==
  ASSUME NEW s, Chained(s, links', head', tail', oneWay'), Linked(links'),
         numLinks' \in 0..MaxCount, Len(s) <= numLinks'
  PROVE  Forward' = s
<1>1. Len(s) \in Nat
  BY ChainedIs
<1>2. MaxCount + 1 \in Nat /\ MaxCount + 1 >= Len(s)
  BY <1>1, ListAssumption
<1> QED
  BY <1>2, ForwardIs DEF Forward

\* The position a call seeks is one of the chain; without copies and pops the one meant.
LEMMA SeekIs ==
  ASSUME NEW s, Chained(s, links, head, tail, oneWay), Linked(links),
         numLinks \in 0..MaxCount, Len(s) <= numLinks, NEW i \in Nat, i < numLinks
  PROVE  /\ Reached(i) => \E j \in 1..Len(s) : Seek(i) = s[j]
         /\ ~oneWay /\ numLinks = Len(s) => Seek(i) = s[i + 1]
<1> DEFINE n == Len(s)
           half == numLinks \div 2
           c == IF i < half THEN i + 1 ELSE numLinks - i
<1>1. n \in Nat /\ n <= numLinks /\ numLinks \in Nat
  BY ChainedIs
<1>2. half \in Int /\ half <= numLinks
  BY <1>1
<1>3. Way(i) = IF i < half THEN Chain(links, head, "next", i + 1)
               ELSE Chain(links, tail, "prev", numLinks - i)
  BY DEF Way
<1>4. Reached(i) <=> Len(Way(i)) = c
  BY DEF Reached
<1>5. Seek(i) = Way(i)[Len(Way(i))]
  BY DEF Seek
<1> HIDE DEF n, half
<1>6. c \in Nat /\ c >= 1
  BY <1>1, <1>2
<1>7. ASSUME NEW k \in Nat, NEW r, \A x \in 1..k : r[x] \in In(s),
             Way(i) = [x \in 1..k |-> r[x]]
      PROVE  Len(Way(i)) = k
  <2>1. Way(i) \in Seq(In(s))
    BY <1>7, SeqDef
  <2>2. DOMAIN Way(i) = 1..k
    BY <1>7
  <2>3. Len(Way(i)) \in Nat /\ DOMAIN Way(i) = 1..Len(Way(i))
    BY <2>1, LenProperties
  <2> QED
    BY <1>7, <2>2, <2>3
<1>8. CASE s = <<>>
  <2>1. n = 0 /\ head = NoLink /\ tail = NoLink /\ NoLink \notin DOMAIN links
    BY <1>8, ListAssumption, ChainedIs DEF Chained, Linked, n
  <2>2. \A w : Path(s, 0, links, NoLink, w)
    BY <2>1 DEF Path
  <2>3. i + 1 \in Nat /\ numLinks - i \in Nat
    BY <1>1
  <2>4. \A w : \A k \in Nat : Chain(links, NoLink, w, k) = FirstOf(s, 0, k)
    BY <2>2, ChainIs
  <2>5. \A k \in Nat : FirstOf(s, 0, k) = [x \in 1..0 |-> s[x]]
    BY DEF FirstOf
  <2>6. Way(i) = [x \in 1..0 |-> s[x]]
    BY <1>3, <2>1, <2>3, <2>4, <2>5
  <2>7. Len(Way(i)) = 0
    BY <1>7, <2>6
  <2> QED
    BY <1>1, <1>4, <1>6, <2>1, <2>7 DEF n
<1>9. CASE s # <<>> /\ i < half
  <2>1. CASE i + 1 <= n
    <3>1. Way(i) = [x \in 1..i + 1 |-> s[x]]
      <4>1. i + 1 \in Nat
        OBVIOUS
      <4>2. Way(i) = FirstOf(s, n, i + 1)
        BY <1>3, <1>9, <4>1, ForwardIs DEF n
      <4>3. (IF i + 1 < n THEN i + 1 ELSE n) = i + 1
        BY <1>1, <2>1
      <4> QED
        BY <4>2, <4>3 DEF FirstOf
    <3>2. \A x \in 1..i + 1 : x \in 1..n
      BY <1>1, <2>1
    <3>3. Len(Way(i)) = i + 1
      BY <1>7, <3>1, <3>2 DEF In, n
    <3>4. Seek(i) = s[i + 1] /\ i + 1 \in 1..n
      BY <1>5, <2>1, <3>1, <3>3
    <3> QED
      BY <3>4 DEF n
  <2>2. CASE i + 1 > n
    <3>1. i + 1 \in Nat /\ i + 1 >= n
      BY <1>1, <2>2
    <3>2. Way(i) = s
      BY <1>3, <1>9, <3>1, ForwardIs DEF n
    <3>3. ~Reached(i)
      BY <1>1, <1>4, <1>9, <2>2, <3>2 DEF n
    <3>4. numLinks # n
      BY <1>1, <1>2, <1>9, <2>2
    <3> QED
      BY <3>3, <3>4 DEF n
  <2> QED
    BY <1>1, <2>1, <2>2
<1>10. CASE s # <<>> /\ ~(i < half)
  <2>1. PICK p \in 1..n :
          /\ ~oneWay => p = 1
          /\ \A k \in Nat : Chain(links, tail, "prev", k) = FirstOf(Turned(s), n + 1 - p, k)
    BY <1>10, BackwardIs DEF n
  <2> DEFINE q == IF c < n + 1 - p THEN c ELSE n + 1 - p
             r == [x \in 1..q |-> s[n + 1 - x]]
  <2>2. c = numLinks - i
    BY <1>10
  <2> HIDE DEF c
  <2>3. q \in Nat /\ q >= 1 /\ q <= c /\ q \in 1..q /\ n + 1 - q \in 1..n /\ \A x \in 1..q : n + 1 - x \in 1..n
    BY <1>1, <1>6
  <2>4. Way(i) = [x \in 1..q |-> s[n + 1 - x]]
    <3>1. Way(i) = FirstOf(Turned(s), n + 1 - p, c)
      BY <1>3, <1>6, <1>10, <2>1, <2>2
    <3>2. FirstOf(Turned(s), n + 1 - p, c) = [x \in 1..q |-> Turned(s)[x]]
      BY DEF FirstOf
    <3>3. \A x \in 1..q : x \in 1..n
      BY <1>1, <2>3
    <3>4. \A x \in 1..q : Turned(s)[x] = s[n + 1 - x]
      BY <3>3 DEF Turned, n
    <3> QED
      BY <3>1, <3>2, <3>4
  <2>5. ~oneWay /\ numLinks = n => n + 1 - q = i + 1
    BY <1>1, <2>1, <2>2
  <2> HIDE DEF q
  <2>6. Way(i) = [x \in 1..q |-> r[x]] /\ \A x \in 1..q : r[x] \in In(s)
    BY <2>3, <2>4 DEF In, n
  <2> HIDE DEF r
  <2>7. Len(Way(i)) = q
    BY <1>7, <2>3, <2>6
  <2>8. Seek(i) = s[n + 1 - q]
    BY <1>5, <2>3, <2>4, <2>7
  <2> QED
    BY <2>3, <2>5, <2>8 DEF n
<1> QED
  BY <1>8, <1>9, <1>10

\* The chain gives a list all that is asked of it.
LEMMA ListIsSound ==
  ASSUME ListInv
  PROVE  ListSound
<1>1. ASSUME sound, NEW s, Chained(s, links, head, tail, oneWay), Linked(links),
             numLinks \in 0..MaxCount, Len(s) <= numLinks
      PROVE  WellLinked /\ IndexExact
  <2> DEFINE n == Len(s)
  <2>1. Forward = s
    BY <1>1, ForwardOf
  <2>2. /\ n \in Nat /\ (s = <<>> <=> n = 0)
        /\ \A i \in 1..n : s[i] \in DOMAIN links /\ links[s[i]].next = Beyond(s, i)
        /\ \A d : d \in DOMAIN links <=> \E i \in 1..n : d = s[i]
        /\ head = (IF s = <<>> THEN NoLink ELSE s[1])
        /\ tail = (IF s = <<>> THEN NoLink ELSE s[n])
    BY <1>1, ChainedIs DEF Chained
  <2>3. {s[i] : i \in 1..n} = DOMAIN links
    BY <2>2
  <2>4. n # 0 => tail = s[n] /\ links[tail].next = NoLink
    <3>1. n # 0 => n \in 1..n
      BY <2>2
    <3> QED
      BY <2>2, <3>1 DEF Beyond
  <2>5. n = 0 => head = NoLink /\ tail = NoLink
    BY <2>2
  <2>6. ~oneWay => Backward = [i \in 1..n |-> s[n + 1 - i]]
    <3> SUFFICES ASSUME ~oneWay
                 PROVE  Backward = [i \in 1..n |-> s[n + 1 - i]]
      OBVIOUS
    <3>1. MaxCount + 1 \in Nat /\ ~(MaxCount + 1 < n)
      BY <1>1, <2>2, ListAssumption
    <3>2. CASE n = 0
      <4>1. tail = NoLink /\ NoLink \notin DOMAIN links
        BY <1>1, <2>5, <3>2, ListAssumption DEF Linked
      <4> DEFINE w == "prev"
      <4>2. Path(s, 0, links, tail, w)
        BY <4>1 DEF Path
      <4> HIDE DEF w
      <4>3. Chain(links, tail, w, MaxCount + 1) = FirstOf(s, 0, MaxCount + 1)
        BY <3>1, <4>2, ChainIs
      <4>4. FirstOf(s, 0, MaxCount + 1) = [i \in 1..0 |-> s[i]]
        BY <3>1, <3>2 DEF FirstOf
      <4> QED
        BY <3>2, <4>3, <4>4 DEF Backward, w
    <3>3. CASE n # 0
      <4>1. s # <<>>
        BY <2>2, <3>3
      <4>2. Chain(links, tail, "prev", MaxCount + 1) = FirstOf(Turned(s), n + 1 - 1, MaxCount + 1)
        BY <1>1, <3>1, <4>1, BackwardIs
      <4>3. n + 1 - 1 = n
        BY <2>2
      <4>4. FirstOf(Turned(s), n, MaxCount + 1) = [i \in 1..n |-> Turned(s)[i]]
        BY <3>1 DEF FirstOf
      <4>5. \A i \in 1..n : Turned(s)[i] = s[n + 1 - i]
        BY DEF Turned
      <4> HIDE DEF n
      <4> QED
        BY <4>2, <4>3, <4>4, <4>5 DEF Backward
    <3> QED
      BY <3>2, <3>3
  <2>7. WellLinked
    BY <2>1, <2>3, <2>4, <2>5, <2>6 DEF WellLinked
  <2>8. IndexExact
    <3> SUFFICES ASSUME ~oneWay, numLinks = Len(Forward), NEW i \in 0..numLinks - 1
                 PROVE  Seek(i) = Forward[i + 1]
      BY DEF IndexExact
    <3>1. i \in Nat /\ i < numLinks
      BY <1>1
    <3> QED
      BY <1>1, <2>1, <3>1, SeekIs
  <2> QED
    BY <2>7, <2>8
<1>2. CASE sound
  <2>1. PICK s : Chained(s, links, head, tail, oneWay) /\ Len(s) <= numLinks
    BY <1>2 DEF ListInv
  <2> QED
    BY <1>1, <1>2, <2>1 DEF ListInv, ListSound
<1>3. CASE ~sound
  BY <1>3 DEF ListInv, ListSound, WellLinked, IndexExact
<1> QED
  BY <1>2, <1>3

\* What a step has to show: what the list holds then, or that it is broken.
LEMMA SoundAfter ==
  ASSUME numLinks' \in 0..MaxCount, sound', Linked(links'),
         NEW t, Chained(t, links', head', tail', oneWay'), Len(t) <= numLinks'
  PROVE  ListInv' /\ Forward' = t
<1>1. Forward' = t
  BY ForwardAfter
<1>2. BrokenIndeed'
  BY DEF BrokenIndeed
<1>3. (\E s : Chained(s, links, head, tail, oneWay) /\ Len(s) <= numLinks)'
  OBVIOUS
<1> QED
  BY <1>1, <1>2, <1>3 DEF ListInv

\* A call that breaks the list leaves nothing to be shown.
LEMMA BrokenAfter ==
  ASSUME numLinks' \in 0..MaxCount, ~sound',
         \/ head' \notin Alive' \/ tail' \notin Alive'
         \/ tail' = NoLink /\ head' # NoLink
  PROVE  ListInv' /\ DequeStep
BY DEF ListInv, BrokenIndeed, DequeStep

\* A list that is in order, taken apart.
LEMMA ListIs ==
  ASSUME ListInv, sound
  PROVE  /\ numLinks \in 0..MaxCount
         /\ Linked(links)
         /\ \E s : Chained(s, links, head, tail, oneWay) /\ Len(s) <= numLinks
BY DEF ListInv

\* One more element, at position j.
LEMMA PutKeeps ==
  ASSUME NEW e \in Item, NewLink(e), ListInv, sound', Linked(links'),
         NEW s, Chained(s, links, head, tail, oneWay), Len(s) <= numLinks,
         NEW j \in 1..Len(s) + 1, Put(links', links, s, j, e),
         head' = IF j = 1 THEN e ELSE head,
         tail' = IF j = Len(s) + 1 THEN e ELSE tail
  PROVE  ListInv' /\ DequeStep
<1>1. /\ sound /\ numLinks < MaxCount /\ e \notin DOMAIN links
      /\ numLinks' = numLinks + 1 /\ oneWay' = oneWay /\ given' = NoLink
  BY DEF NewLink
<1>2. numLinks \in 0..MaxCount /\ Linked(links)
  BY <1>1, ListIs
<1>3. s \in Seq(Item) /\ Len(s) \in Nat
  BY ChainedIs
<1>4. Forward = s
  BY <1>2, ForwardOf
<1> DEFINE t == Insertion(s, j, e)
<1>5. Len(t) = Len(s) + 1
  BY <1>3, InsertionIs
<1>6. Chained(t, links', head', tail', oneWay')
  BY <1>1, PutChained
<1> HIDE DEF t
<1>7. numLinks' \in 0..MaxCount /\ Len(t) <= numLinks'
  BY <1>1, <1>2, <1>3, <1>5, ListAssumption
<1>8. ListInv' /\ Forward' = t
  BY <1>6, <1>7, SoundAfter
<1>9. Ends!Next
  <2>1. CASE j = Len(s) + 1
    <3>1. t = Append(s, e)
      BY <1>3, <2>1, InsertionForms DEF t
    <3> QED
      BY <1>1, <1>4, <1>8, <3>1 DEF Ends!Next, Ends!Push
  <2>2. CASE j # Len(s) + 1
    <3>1. j \in 1..Len(s) /\ j <= Len(s)
      BY <1>3, <2>2
    <3>2. t = SubSeq(s, 1, j - 1) \o <<e>> \o SubSeq(s, j, Len(s))
      BY <1>3, <3>1, InsertionForms DEF t
    <3>3. Ends!InsertAt(j, e)
      BY <1>1, <1>4, <1>8, <3>2 DEF Ends!InsertAt
    <3>4. j \in 1..Len(Forward)
      BY <1>4, <3>1
    <3> QED
      BY <3>3, <3>4 DEF Ends!Next
  <2> QED
    BY <2>1, <2>2
<1> QED
  BY <1>8, <1>9 DEF DequeStep

\* push keeps the chain, and puts the element at its end.
LEMMA PushBackKeeps ==
  ASSUME ListInv, NEW e \in Item, PushBack(e)
  PROVE  ListInv' /\ DequeStep
<1> DEFINE v == CreateLink(links, e, NoLink, tail)
           u == SetNext(v, tail, e)
<1>1. /\ NewLink(e) /\ sound /\ e \notin DOMAIN links /\ sound'
      /\ links' = u
      /\ tail' = e
      /\ head' = IF tail = NoLink THEN e ELSE head
  BY DEF PushBack, NewLink
<1>2. Linked(links)
  BY <1>1, ListIs
<1>3. PICK s : Chained(s, links, head, tail, oneWay) /\ Len(s) <= numLinks
  BY <1>1, ListIs
<1>4. /\ Len(s) \in Nat /\ (s = <<>> <=> Len(s) = 0)
      /\ \A i \in 1..Len(s) : s[i] \in Item /\ s[i] \in DOMAIN links
      /\ tail = (IF s = <<>> THEN NoLink ELSE s[Len(s)])
      /\ \A d : d \in DOMAIN links <=> \E i \in 1..Len(s) : d = s[i]
  BY <1>3, ChainedIs DEF Chained
<1> DEFINE n == Len(s)
           j == n + 1
<1>5. /\ n # 0 => n \in 1..n /\ 1 < j
      /\ j \in 1..n + 1 /\ j - 1 = n /\ ~(j <= n)
      /\ (j = 1 <=> n = 0)
  BY <1>4
<1>6. /\ NoLink \notin Item
      /\ tail \in Item \cup {NoLink} /\ tail \in DOMAIN links \cup {NoLink}
      /\ (tail = NoLink <=> n = 0) /\ e # tail
  BY <1>1, <1>4, <1>5, ListAssumption
<1>7. /\ Linked(v) /\ DOMAIN v = DOMAIN links \cup {e}
      /\ v[e] = [next |-> NoLink, prev |-> tail]
      /\ \A d \in DOMAIN links \ {e} : v[d] = links[d]
  <2>1. NoLink \in Item \cup {NoLink}
    OBVIOUS
  <2> QED
    <3>1. Created(v, links, e, NoLink, tail)
      BY <1>2, <1>6, <2>1, CreateLinkIs
    <3> QED
      BY <3>1 DEF Created
<1> HIDE DEF v
<1>8. NextSet(u, v, tail, e)
  <2>1. tail \in DOMAIN v \cup {NoLink} /\ e \in Item \cup {NoLink}
    BY <1>6, <1>7
  <2> QED
    BY <1>7, <2>1, SetNextIs
<1> HIDE DEF u, n, j
<1>9. Put(u, links, s, j, e)
  <2>1. DOMAIN u = DOMAIN links \cup {e}
    BY <1>7, <1>8 DEF NextSet
  <2>2. u[e].next = NoLink /\ u[e].prev = tail
    BY <1>6, <1>7, <1>8 DEF NextSet
  <2>3. Before(s, j) = tail
    BY <1>4, <1>5 DEF Before, n
  <2>4. \A d \in DOMAIN links : d # e /\ n # 0
    BY <1>1, <1>4, <1>5 DEF n
  <2>5. \A d \in DOMAIN links : /\ u[d].next = IF d = tail THEN e ELSE links[d].next
                                /\ u[d].prev = links[d].prev
    BY <1>7, <1>8, <2>4 DEF NextSet
  <2>6. n # 0 => tail = s[j - 1] /\ 1 < j
    BY <1>4, <1>5 DEF n
  <2>7. ~(j <= Len(s))
    BY <1>5 DEF n
  <2> QED
    BY <2>1, <2>2, <2>3, <2>4, <2>5, <2>6, <2>7 DEF Put
<1>10. /\ head' = IF j = 1 THEN e ELSE head
       /\ tail' = IF j = Len(s) + 1 THEN e ELSE tail
  BY <1>1, <1>5, <1>6 DEF j, n
<1>11. j \in 1..Len(s) + 1 /\ Linked(u)
  BY <1>5, <1>8 DEF j, n, NextSet
<1> QED
  BY <1>1, <1>3, <1>9, <1>10, <1>11, PutKeeps

\* pushFront keeps it, and puts the element at its beginning.
LEMMA PushFrontKeeps ==
  ASSUME ListInv, NEW e \in Item, PushFront(e)
  PROVE  ListInv' /\ DequeStep
<1> DEFINE v == CreateLink(links, e, head, NoLink)
           u == SetPrev(v, head, e)
<1>1. /\ NewLink(e) /\ sound /\ e \notin DOMAIN links /\ sound'
      /\ links' = u
      /\ head' = e
      /\ tail' = IF head = NoLink THEN e ELSE tail
  BY DEF PushFront, NewLink
<1>2. Linked(links)
  BY <1>1, ListIs
<1>3. PICK s : Chained(s, links, head, tail, oneWay) /\ Len(s) <= numLinks
  BY <1>1, ListIs
<1>4. /\ Len(s) \in Nat /\ (s = <<>> <=> Len(s) = 0)
      /\ \A i \in 1..Len(s) : s[i] \in Item /\ s[i] \in DOMAIN links
      /\ head = (IF s = <<>> THEN NoLink ELSE s[1])
      /\ \A d : d \in DOMAIN links <=> \E i \in 1..Len(s) : d = s[i]
  BY <1>3, ChainedIs DEF Chained
<1> DEFINE n == Len(s)
<1>5. /\ n # 0 <=> 1 <= n
      /\ n # 0 => 1 \in 1..n
      /\ 1 \in 1..n + 1 /\ (1 = n + 1 <=> n = 0)
  BY <1>4
<1>6. /\ NoLink \notin Item
      /\ head \in Item \cup {NoLink} /\ head \in DOMAIN links \cup {NoLink}
      /\ (head = NoLink <=> n = 0) /\ e # head
  BY <1>1, <1>4, <1>5, ListAssumption
<1>7. /\ Linked(v) /\ DOMAIN v = DOMAIN links \cup {e}
      /\ v[e] = [next |-> head, prev |-> NoLink]
      /\ \A d \in DOMAIN links \ {e} : v[d] = links[d]
  <2>1. NoLink \in Item \cup {NoLink}
    OBVIOUS
  <2> QED
    <3>1. Created(v, links, e, head, NoLink)
      BY <1>2, <1>6, <2>1, CreateLinkIs
    <3> QED
      BY <3>1 DEF Created
<1> HIDE DEF v
<1>8. /\ Linked(u) /\ DOMAIN u = DOMAIN v
      /\ \A d \in DOMAIN v : /\ u[d].prev = IF d = head THEN e ELSE v[d].prev
                             /\ u[d].next = v[d].next
  <2>1. head \in DOMAIN v \cup {NoLink} /\ e \in Item \cup {NoLink}
    BY <1>6, <1>7
  <2> QED
    BY <1>7, <2>1, SetPrevIs
<1> HIDE DEF u, n
<1>9. Put(u, links, s, 1, e)
  <2>1. DOMAIN u = DOMAIN links \cup {e}
    BY <1>7, <1>8
  <2>2. u[e].next = head /\ u[e].prev = NoLink
    BY <1>6, <1>7, <1>8
  <2>3. Before(s, 1) = NoLink
    BY DEF Before
  <2>4. \A d \in DOMAIN links : d # e /\ n # 0
    BY <1>1, <1>4, <1>5 DEF n
  <2>5. \A d \in DOMAIN links : /\ u[d].prev = IF d = head THEN e ELSE links[d].prev
                                /\ u[d].next = links[d].next
    BY <1>7, <1>8, <2>4
  <2>6. head = (IF 1 <= Len(s) THEN s[1] ELSE NoLink) /\ ~(1 < 1)
    BY <1>4, <1>5 DEF n
  <2>7. n # 0 => 1 <= Len(s)
    BY <1>5 DEF n
  <2> QED
    BY <2>1, <2>2, <2>3, <2>4, <2>5, <2>6, <2>7 DEF Put
<1>10. tail' = IF 1 = Len(s) + 1 THEN e ELSE tail
  BY <1>1, <1>5, <1>6 DEF n
<1>11. 1 \in 1..Len(s) + 1
  BY <1>5 DEF n
<1> QED
  BY <1>1, <1>3, <1>8, <1>9, <1>10, <1>11, PutKeeps

\* insert keeps it, with the element where it was to go, or breaks the list.
LEMMA InsertBeforeKeeps ==
  ASSUME ListInv, NEW e \in Item, NEW i \in 0..MaxCount, InsertBefore(e, i)
  PROVE  ListInv' /\ DequeStep
<1> DEFINE v == CreateLink(links, e, NoLink, NoLink)
           l == Seek(i)
           u == LinkNext(v, e, l)
<1>1. /\ NewLink(e) /\ sound /\ e \notin DOMAIN links /\ i < numLinks /\ Reached(i)
      /\ numLinks < MaxCount /\ numLinks' = numLinks + 1
      /\ links' = u /\ (sound' <=> links[l].prev # NoLink)
      /\ head' = head /\ tail' = tail
  BY DEF InsertBefore, NewLink
<1>2. Linked(links) /\ numLinks \in 0..MaxCount
  BY <1>1, ListIs
<1>3. PICK s : Chained(s, links, head, tail, oneWay) /\ Len(s) <= numLinks
  BY <1>1, ListIs
<1>4. /\ Len(s) \in Nat /\ (s = <<>> <=> Len(s) = 0)
      /\ s = [k \in 1..Len(s) |-> s[k]]
      /\ \A k \in 1..Len(s) : s[k] \in Item /\ s[k] \in DOMAIN links
      /\ \A k \in 1..Len(s) : /\ links[s[k]].next = Beyond(s, k)
                              /\ links[s[k]].prev \in {NoLink, Before(s, k)}
      /\ head = (IF s = <<>> THEN NoLink ELSE s[1])
  BY <1>3, ChainedIs DEF Chained
<1>5. PICK j \in 1..Len(s) : l = s[j]
  <2>1. i \in Nat
    BY ListAssumption
  <2> QED
    BY <1>1, <1>2, <1>3, <2>1, SeekIs
<1> DEFINE n == Len(s)
           prev == links[l].prev
<1> HIDE DEF l
<1>6. /\ NoLink \notin Item /\ l \in DOMAIN links /\ l \in Item /\ l # e
      /\ prev \in {NoLink, Before(s, j)}
  BY <1>1, <1>4, <1>5, ListAssumption
<1>7. /\ Before(s, j) = (IF j = 1 THEN NoLink ELSE s[j - 1])
      /\ j # 1 => j - 1 \in 1..n /\ 1 < j
      /\ j \in 1..n /\ j \in 1..n + 1 /\ j <= n /\ j # n + 1
  BY <1>4, <1>5 DEF Before
<1>8. prev \in DOMAIN links \cup {NoLink} /\ prev # e
  BY <1>1, <1>4, <1>6, <1>7
<1>9. /\ Linked(v) /\ DOMAIN v = DOMAIN links \cup {e}
      /\ v[e] = [next |-> NoLink, prev |-> NoLink]
      /\ \A d \in DOMAIN links \ {e} : v[d] = links[d]
  <2>1. NoLink \in Item \cup {NoLink}
    OBVIOUS
  <2> QED
    <3>1. Created(v, links, e, NoLink, NoLink)
      BY <1>2, <2>1, CreateLinkIs
    <3> QED
      BY <3>1 DEF Created
<1> HIDE DEF v
<1>10. v[l].prev = prev /\ l \in DOMAIN v /\ e \in DOMAIN v
  BY <1>6, <1>9
<1> HIDE DEF prev
<1>11. /\ Linked(u) /\ DOMAIN u = DOMAIN v
       /\ \A d \in DOMAIN v :
            /\ u[d].next = IF d = prev THEN e ELSE IF d = e THEN l ELSE v[d].next
            /\ u[d].prev = IF d = l THEN e ELSE IF d = e THEN prev ELSE v[d].prev
  <2>1. v[l].prev \in DOMAIN v \cup {NoLink}
    BY <1>8, <1>9, <1>10
  <2>2. /\ Linked(u) /\ DOMAIN u = DOMAIN v
        /\ \A d \in DOMAIN v :
             /\ u[d].next = IF d = v[l].prev THEN e ELSE IF d = e THEN l ELSE v[d].next
             /\ u[d].prev = IF d = l THEN e ELSE IF d = e THEN v[l].prev ELSE v[d].prev
    BY <1>6, <1>9, <1>10, <2>1, LinkNextIs
  <2> QED
    BY <1>10, <2>2
<1> HIDE DEF u, n
<1>12. /\ u[e].next = l /\ u[e].prev = prev
       /\ \A d \in DOMAIN links : /\ d # e
                                  /\ u[d].next = IF d = prev THEN e ELSE links[d].next
                                  /\ u[d].prev = IF d = l THEN e ELSE links[d].prev
       /\ \A d : d \in DOMAIN u <=> d \in DOMAIN links \/ d = e
  BY <1>1, <1>6, <1>8, <1>9, <1>11
<1>13. CASE prev # NoLink
  <2>1. j # 1 /\ prev = s[j - 1] /\ 1 < j
    BY <1>6, <1>7, <1>13
  <2>2. Put(u, links, s, j, e)
    BY <1>5, <1>7, <1>12, <2>1 DEF Put, n
  <2>3. j \in 1..Len(s) + 1 /\ j # Len(s) + 1
    BY <1>7 DEF n
  <2>4. /\ head' = (IF j = 1 THEN e ELSE head)
        /\ tail' = (IF j = Len(s) + 1 THEN e ELSE tail)
    BY <1>1, <2>1, <2>3
  <2>5. sound' /\ Linked(links') /\ Put(links', links, s, j, e)
    BY <1>1, <1>11, <1>13, <2>2 DEF prev
  <2> QED
    BY <1>1, <1>3, <2>3, <2>4, <2>5, PutKeeps
<1>14. CASE prev = NoLink
  <2> DEFINE w == "next"
  <2>1. \A k \in 1..n : s[k] \in DOMAIN u /\ u[s[k]][w] = IF k = n THEN NoLink ELSE s[k + 1]
    <3>1. \A k \in 1..n : s[k] \in DOMAIN links /\ s[k] # NoLink /\ links[s[k]].next = Beyond(s, k)
      BY <1>4, <1>6 DEF n
    <3> QED
      BY <1>12, <1>14, <3>1 DEF Beyond, n
  <2>2. head = IF n = 0 THEN NoLink ELSE s[1]
    BY <1>4 DEF n
  <2>3. NoLink \notin DOMAIN u
    BY <1>6, <1>11 DEF Linked
  <2> HIDE DEF w
  <2>4. Path(s, n, u, head, w)
    BY <2>1, <2>2, <2>3 DEF Path
  <2>5. n \in Nat /\ MaxCount + 1 \in Nat /\ ~(MaxCount + 1 < n)
    BY <1>2, <1>3, <1>4, ListAssumption DEF n
  <2>6. Chain(u, head, w, MaxCount + 1) = FirstOf(s, n, MaxCount + 1)
    BY <2>4, <2>5, ChainIs
  <2>7. FirstOf(s, n, MaxCount + 1) = s
    BY <1>4, <2>5 DEF FirstOf, n
  <2>8. Forward' = s
    BY <1>1, <2>6, <2>7 DEF Forward, w
  <2>9. DOMAIN s = 1..n
    BY <1>4 DEF n
  <2>10. e \notin {s[k] : k \in 1..n} /\ e \in DOMAIN u
    BY <1>1, <1>4, <1>12 DEF n
  <2>11. {Forward'[k] : k \in DOMAIN Forward'} # DOMAIN links'
    BY <1>1, <2>8, <2>9, <2>10
  <2>12. ~sound' /\ numLinks' \in 0..MaxCount
    BY <1>1, <1>2, <1>14, ListAssumption DEF prev
  <2> QED
    BY <2>11, <2>12 DEF ListInv, BrokenIndeed, DequeStep
<1> QED
  BY <1>13, <1>14

\* A step that takes out the link at position j leaves the rest of the chain.
LEMMA TakenKeeps ==
  ASSUME ListInv, sound, sound', Linked(links'), numLinks' = numLinks, oneWay' = oneWay,
         NEW s, Chained(s, links, head, tail, oneWay), Len(s) <= numLinks,
         NEW j \in 1..Len(s), j \in {1, Len(s)}, Taken(links', links, s, j),
         head' = IF j = 1 THEN Beyond(s, 1) ELSE head,
         tail' = IF j = Len(s) THEN Before(s, j) ELSE tail
  PROVE  /\ ListInv' /\ Forward = s /\ s # <<>>
         /\ j = 1 => Forward' = Tail(s)
         /\ j = Len(s) => Ends!Shrink
<1> DEFINE t == Removal(s, j)
<1>1. numLinks \in 0..MaxCount /\ Linked(links)
  BY ListIs
<1>2. s \in Seq(Item) /\ Len(s) \in Nat /\ (s = <<>> <=> Len(s) = 0)
  BY ChainedIs
<1>3. s # <<>>
  BY <1>2
<1>4. Forward = s
  BY <1>1, ForwardOf
<1>5. Len(t) = Len(s) - 1
  BY <1>2, RemovalIs
<1>6. Chained(t, links', head', tail', oneWay')
  BY TakenChained
<1> HIDE DEF t
<1>7. numLinks' \in 0..MaxCount /\ Len(t) <= numLinks'
  BY <1>1, <1>2, <1>5
<1>8. ListInv' /\ Forward' = t
  BY <1>6, <1>7, SoundAfter
<1>9. ASSUME j = 1
      PROVE  t = Tail(s)
  BY <1>2, <1>3, <1>9, RemovalForms DEF t
<1>10. ASSUME j = Len(s)
       PROVE  t = SubSeq(s, 1, Len(s) - 1)
  BY <1>2, <1>3, <1>10, RemovalForms DEF t
<1>11. j = Len(s) => Ends!Shrink
  BY <1>3, <1>4, <1>8, <1>10 DEF Ends!Shrink
<1> QED
  BY <1>3, <1>4, <1>8, <1>9, <1>11

\* pop takes the last element, and breaks a list in which nothing links back from it.
LEMMA RemoveLastKeeps ==
  ASSUME ListInv, RemoveLast
  PROVE  ListInv' /\ (sound' => Ends!Shrink)
<1> DEFINE u == Release(links, tail)
           next == links[tail].next
           prev == links[tail].prev
<1>1. /\ sound /\ tail # NoLink /\ links' = u /\ tail' = prev /\ (sound' <=> prev # NoLink)
      /\ head' = head /\ numLinks' = numLinks /\ oneWay' = oneWay
  BY DEF RemoveLast
<1>2. Linked(links) /\ numLinks \in 0..MaxCount
  BY <1>1, ListIs
<1>3. PICK s : Chained(s, links, head, tail, oneWay) /\ Len(s) <= numLinks
  BY <1>1, ListIs
<1>4. /\ Len(s) \in Nat /\ (s = <<>> <=> Len(s) = 0)
      /\ \A k \in 1..Len(s) : s[k] \in Item /\ s[k] \in DOMAIN links
      /\ \A k \in 1..Len(s) : /\ links[s[k]].next = Beyond(s, k)
                              /\ links[s[k]].prev \in {NoLink, Before(s, k)}
      /\ head = (IF s = <<>> THEN NoLink ELSE s[1])
      /\ tail = (IF s = <<>> THEN NoLink ELSE s[Len(s)])
  BY <1>3, ChainedIs DEF Chained
<1> DEFINE n == Len(s)
<1>5. /\ n \in Nat /\ n # 0 /\ n \in 1..n /\ 1 \in 1..n /\ ~(n < n)
      /\ n # 1 => n - 1 \in 1..n /\ 1 < n
  <2>1. n \in Nat /\ n # 0
    BY <1>1, <1>4
  <2> HIDE DEF n
  <2> QED
    BY <2>1
<1>6. /\ tail = s[n] /\ tail \in DOMAIN links /\ head = s[1] /\ head # NoLink
      /\ Beyond(s, n) = NoLink /\ Before(s, n) = (IF n = 1 THEN NoLink ELSE s[n - 1])
  BY <1>4, <1>5, ListAssumption DEF Beyond, Before
<1>7. next = NoLink /\ prev \in {NoLink, Before(s, n)}
  BY <1>4, <1>5, <1>6
<1> HIDE DEF n
<1>8. CASE prev = NoLink
  <2>1. ~sound' /\ numLinks' \in 0..MaxCount /\ tail' = NoLink /\ head' # NoLink
    BY <1>1, <1>2, <1>6, <1>8
  <2> QED
    BY <2>1, BrokenAfter
<1>9. CASE prev # NoLink
  <2>1. n # 1 /\ prev = s[n - 1] /\ prev = Before(s, n)
    BY <1>6, <1>7, <1>9
  <2>2. /\ next \in DOMAIN links \cup {NoLink} /\ prev \in DOMAIN links \cup {NoLink}
        /\ NoLink \notin DOMAIN links
    BY <1>2, <1>4, <1>5, <1>7, <2>1, ListAssumption DEF n, Linked
  <2>3. /\ Linked(u) /\ DOMAIN u = DOMAIN links \ {tail}
        /\ \A d \in DOMAIN links \ {tail} :
             /\ u[d].next = IF d = prev THEN next ELSE links[d].next
             /\ u[d].prev = IF d = next THEN prev ELSE links[d].prev
    <3>1. Released(u, links, tail)
      BY <1>2, <1>6, <2>2, ReleaseIs
    <3> QED
      BY <3>1 DEF Released
  <2> HIDE DEF u, next, prev
  <2>4. Taken(u, links, s, n)
    BY <1>5, <1>6, <1>7, <2>1, <2>2, <2>3 DEF Taken, n
  <2>5. /\ n \in 1..Len(s) /\ n \in {1, Len(s)}
        /\ head' = (IF n = 1 THEN Beyond(s, 1) ELSE head)
        /\ tail' = (IF n = Len(s) THEN Before(s, n) ELSE tail)
    BY <1>1, <1>5, <2>1 DEF n
  <2>6. Linked(links') /\ Taken(links', links, s, n) /\ sound'
    BY <1>1, <1>9, <2>3, <2>4
  <2>7. sound /\ numLinks' = numLinks /\ oneWay' = oneWay
    BY <1>1
  <2>8. ListInv' /\ (n = Len(s) => Ends!Shrink)
    BY <1>3, <2>5, <2>6, <2>7, TakenKeeps
  <2> QED
    BY <2>8 DEF n
<1> QED
  BY <1>8, <1>9

\* pop without an element handed out.
LEMMA PopKeeps ==
  ASSUME ListInv, Pop
  PROVE  ListInv' /\ DequeStep
<1>1. RemoveLast /\ given' = NoLink
  BY DEF Pop
<1>2. ListInv' /\ (sound' => Ends!Shrink)
  BY <1>1, RemoveLastKeeps
<1>3. Ends!Shrink => Ends!Next
  BY <1>1 DEF Ends!Pop, Ends!Next
<1> QED
  BY <1>2, <1>3 DEF DequeStep

\* pop with one: the first one, although it takes the last.
LEMMA PopToKeeps ==
  ASSUME ListInv, PopTo
  PROVE  ListInv' /\ DequeStep
<1>1. ListInv' /\ (sound' => Ends!Shrink)
  BY RemoveLastKeeps DEF PopTo
<1>2. sound /\ tail # NoLink /\ given' = head
  BY DEF PopTo, RemoveLast
<1>3. PICK s : Chained(s, links, head, tail, oneWay) /\ Len(s) <= numLinks
  BY <1>2, ListIs
<1>4. s # <<>> /\ head = s[1]
  BY <1>2, <1>3 DEF Chained
<1>5. Linked(links) /\ numLinks \in 0..MaxCount
  BY <1>2, ListIs
<1>6. Forward = s
  BY <1>3, <1>5, ForwardOf
<1> QED
  BY <1>1, <1>2, <1>4, <1>6 DEF DequeStep

\* popFront takes the first one, and breaks a list of one.
LEMMA PopFrontKeeps ==
  ASSUME ListInv, PopFront
  PROVE  ListInv' /\ DequeStep
<1> DEFINE u == Release(links, head)
           next == links[head].next
           prev == links[head].prev
<1>1. /\ sound /\ head # NoLink /\ links' = u /\ head' = next /\ (sound' <=> next # NoLink)
      /\ tail' = tail /\ numLinks' = numLinks /\ oneWay' = oneWay
      /\ given' \in {NoLink, head}
  BY DEF PopFront
<1>2. Linked(links) /\ numLinks \in 0..MaxCount
  BY <1>1, ListIs
<1>3. PICK s : Chained(s, links, head, tail, oneWay) /\ Len(s) <= numLinks
  BY <1>1, ListIs
<1>4. /\ Len(s) \in Nat /\ (s = <<>> <=> Len(s) = 0)
      /\ \A k \in 1..Len(s) : s[k] \in Item /\ s[k] \in DOMAIN links
      /\ \A k \in 1..Len(s) : /\ links[s[k]].next = Beyond(s, k)
                              /\ links[s[k]].prev \in {NoLink, Before(s, k)}
      /\ \A i, k \in 1..Len(s) : s[i] = s[k] => i = k
      /\ head = (IF s = <<>> THEN NoLink ELSE s[1])
      /\ tail = (IF s = <<>> THEN NoLink ELSE s[Len(s)])
  BY <1>3, ChainedIs DEF Chained
<1> DEFINE n == Len(s)
<1>5. /\ n \in Nat /\ n # 0 /\ n \in 1..n /\ 1 \in 1..n /\ ~(1 < 1)
      /\ (n # 1 <=> 1 < n) /\ (n # 1 => 2 \in 1..n) /\ 1 + 1 = 2
  <2>1. n \in Nat /\ n # 0
    BY <1>1, <1>4
  <2> HIDE DEF n
  <2> QED
    BY <2>1
<1>6. /\ head = s[1] /\ head \in DOMAIN links /\ tail = s[n] /\ tail # NoLink
      /\ Beyond(s, 1) = (IF n = 1 THEN NoLink ELSE s[2]) /\ Before(s, 1) = NoLink
  BY <1>4, <1>5, ListAssumption DEF Beyond, Before
<1>7. next = Beyond(s, 1) /\ prev = NoLink
  BY <1>4, <1>5, <1>6
<1>8. /\ next \in DOMAIN links \cup {NoLink} /\ prev \in DOMAIN links \cup {NoLink}
      /\ NoLink \notin DOMAIN links
  BY <1>2, <1>4, <1>5, <1>6, <1>7, ListAssumption DEF Linked
<1>9. /\ Linked(u) /\ DOMAIN u = DOMAIN links \ {head}
      /\ \A d \in DOMAIN links \ {head} :
           /\ u[d].next = IF d = prev THEN next ELSE links[d].next
           /\ u[d].prev = IF d = next THEN prev ELSE links[d].prev
  <2>1. Released(u, links, head)
    BY <1>2, <1>6, <1>8, ReleaseIs
  <2> QED
    BY <2>1 DEF Released
<1> HIDE DEF n, u, next, prev
<1>10. CASE next = NoLink
  <2>1. n = 1
    BY <1>4, <1>5, <1>6, <1>7, <1>10, ListAssumption DEF n
  <2>2. tail' \notin Alive'
    BY <1>1, <1>6, <1>9, <2>1 DEF Alive
  <2>3. ~sound' /\ numLinks' \in 0..MaxCount
    BY <1>1, <1>2, <1>10
  <2> QED
    BY <2>2, <2>3, BrokenAfter
<1>11. CASE next # NoLink
  <2>1. n # 1 /\ next = s[2]
    BY <1>6, <1>7, <1>11
  <2>2. Taken(u, links, s, 1)
    <3>1. \A d : d \in DOMAIN u <=> d \in DOMAIN links /\ d # s[1]
      BY <1>6, <1>9
    <3>2. \A d \in DOMAIN u : /\ u[d].next = links[d].next
                              /\ u[d].prev = IF d = s[1 + 1] THEN Before(s, 1) ELSE links[d].prev
      BY <1>5, <1>6, <1>7, <1>8, <1>9, <2>1
    <3>3. 1 < Len(s)
      BY <1>5, <2>1 DEF n
    <3> QED
      BY <1>5, <3>1, <3>2, <3>3 DEF Taken
  <2>3. /\ 1 \in 1..Len(s) /\ 1 \in {1, Len(s)}
        /\ head' = (IF 1 = 1 THEN Beyond(s, 1) ELSE head)
        /\ tail' = (IF 1 = Len(s) THEN Before(s, 1) ELSE tail)
    BY <1>1, <1>5, <1>7, <2>1 DEF n
  <2>4. Linked(links') /\ Taken(links', links, s, 1) /\ sound'
    BY <1>1, <1>9, <1>11, <2>2
  <2>5. ListInv' /\ Forward = s /\ s # <<>> /\ Forward' = Tail(s)
    BY <1>1, <1>3, <2>3, <2>4, TakenKeeps
  <2>6. Head(s) = head
    BY <1>4, <2>5
  <2>7. Ends!PopFront
    BY <1>1, <2>5, <2>6 DEF Ends!PopFront
  <2> QED
    BY <2>5, <2>7 DEF DequeStep, Ends!Next
<1> QED
  BY <1>10, <1>11

\* empty leaves no link.
LEMMA EmptyListKeeps ==
  ASSUME ListInv, EmptyList
  PROVE  ListInv' /\ DequeStep
<1>1. /\ sound /\ head' = NoLink /\ tail' = NoLink /\ numLinks' = numLinks /\ sound'
      /\ given' = NoLink
      /\ links' = [e \in DOMAIN links \ {Forward[i] : i \in DOMAIN Forward} |-> links[e]]
  BY DEF EmptyList
<1>2. Linked(links) /\ numLinks \in 0..MaxCount
  BY <1>1, ListIs
<1>3. PICK s : Chained(s, links, head, tail, oneWay) /\ Len(s) <= numLinks
  BY <1>1, ListIs
<1>4. Forward = s
  BY <1>2, <1>3, ForwardOf
<1>5. /\ \A d : d \in DOMAIN links <=> \E i \in 1..Len(s) : d = s[i]
      /\ DOMAIN s = 1..Len(s)
  <2>1. s \in Seq(Item)
    BY <1>3, ChainedIs
  <2> QED
    BY <1>3, <2>1, LenProperties DEF Chained
<1>6. DOMAIN links \ {Forward[i] : i \in DOMAIN Forward} = {}
  BY <1>4, <1>5
<1>7. DOMAIN links' = {}
  BY <1>1, <1>6
<1>8. Linked(links')
  BY <1>1, <1>6, <1>7 DEF Linked
<1> DEFINE t == <<>>
<1>9. t \in Seq(Item) /\ Len(t) = 0 /\ t = <<>>
  BY EmptySeq
<1> HIDE DEF t
<1>10. Chained(t, links', head', tail', oneWay')
  <2>1. 1..Len(t) = {}
    BY <1>9
  <2> QED
    BY <1>1, <1>7, <1>9, <2>1 DEF Chained
<1>11. numLinks' \in 0..MaxCount /\ Len(t) <= numLinks'
  BY <1>1, <1>2, <1>9
<1>12. ListInv' /\ Forward' = t
  BY <1>1, <1>8, <1>10, <1>11, SoundAfter
<1> QED
  BY <1>1, <1>9, <1>12 DEF DequeStep, Ends!Next, Ends!Clear

\* A copy has the same elements, linked forwards only.
LEMMA CopyOverKeeps ==
  ASSUME ListInv, CopyOver
  PROVE  ListInv' /\ DequeStep
<1> DEFINE u == [e \in DOMAIN links |-> [links[e] EXCEPT !.prev = NoLink]]
<1>1. /\ sound /\ head' = head /\ tail' = tail /\ numLinks' = numLinks /\ sound'
      /\ links' = u /\ (oneWay' <=> Len(Forward) > 1) /\ given' = NoLink
  BY DEF CopyOver
<1>2. Linked(links) /\ numLinks \in 0..MaxCount
  BY <1>1, ListIs
<1>3. PICK s : Chained(s, links, head, tail, oneWay) /\ Len(s) <= numLinks
  BY <1>1, ListIs
<1>4. Forward = s
  BY <1>2, <1>3, ForwardOf
<1>5. DOMAIN u = DOMAIN links /\ \A d \in DOMAIN links :
        links[d] \in Link /\ u[d] = [links[d] EXCEPT !.prev = NoLink]
  BY <1>2 DEF Linked
<1>6. u = [d \in DOMAIN u |-> u[d]]
  OBVIOUS
<1> HIDE DEF u
<1>7. \A d \in DOMAIN links : u[d] \in Link /\ u[d].next = links[d].next /\ u[d].prev = NoLink
  BY <1>5 DEF Link
<1>8. Linked(u)
  BY <1>2, <1>5, <1>6, <1>7 DEF Linked
<1>9. Len(s) \in Nat
  BY <1>3, ChainedIs
<1>10. \A i \in 1..Len(s) : /\ s[i] \in DOMAIN u
                            /\ u[s[i]].next = Beyond(s, i)
                            /\ u[s[i]].prev = Before(s, i) \/ (oneWay' /\ u[s[i]].prev = NoLink)
  <2> SUFFICES ASSUME NEW i \in 1..Len(s)
               PROVE  /\ s[i] \in DOMAIN u
                      /\ u[s[i]].next = Beyond(s, i)
                      /\ u[s[i]].prev = Before(s, i) \/ (oneWay' /\ u[s[i]].prev = NoLink)
    OBVIOUS
  <2>1. s[i] \in DOMAIN links /\ links[s[i]].next = Beyond(s, i)
    BY <1>3 DEF Chained
  <2>2. CASE Len(s) > 1
    BY <1>1, <1>4, <1>5, <1>7, <2>1, <2>2
  <2>3. CASE ~(Len(s) > 1)
    <3>1. i = 1
      BY <1>9, <2>3
    <3> QED
      BY <1>5, <1>7, <2>1, <3>1 DEF Before
  <2> QED
    BY <2>2, <2>3
<1>11. Chained(s, u, head, tail, oneWay')
  BY <1>3, <1>5, <1>10 DEF Chained
<1>12. Linked(links') /\ Chained(s, links', head', tail', oneWay')
  BY <1>1, <1>8, <1>11
<1>13. numLinks' \in 0..MaxCount /\ Len(s) <= numLinks'
  BY <1>1, <1>2, <1>3
<1>14. ListInv' /\ Forward' = s
  BY <1>1, <1>12, <1>13, SoundAfter
<1> QED
  BY <1>1, <1>4, <1>14 DEF DequeStep

\* Each call keeps the chain, and is a step of Deque or leaves the items.
LEMMA ListNextKeeps ==
  ASSUME ListInv, ListNext
  PROVE  ListInv' /\ DequeStep
<1>1. ASSUME NEW e \in Item, PushBack(e) \/ PushFront(e)
      PROVE  ListInv' /\ DequeStep
  BY <1>1, PushBackKeeps, PushFrontKeeps
<1>2. ASSUME NEW e \in Item, NEW i \in 0..MaxCount, InsertBefore(e, i)
      PROVE  ListInv' /\ DequeStep
  BY <1>2, InsertBeforeKeeps
<1>3. ASSUME Pop \/ PopTo \/ PopFront \/ EmptyList \/ CopyOver
      PROVE  ListInv' /\ DequeStep
  BY <1>3, PopKeeps, PopToKeeps, PopFrontKeeps, EmptyListKeeps, CopyOverKeeps
<1> QED
  BY <1>1, <1>2, <1>3 DEF ListNext

\* A list has no links at first.
LEMMA ListStart == ListInit => ListInv
<1> SUFFICES ASSUME ListInit
             PROVE  ListInv
  OBVIOUS
<1> DEFINE t == <<>>
<1>1. t \in Seq(Item) /\ Len(t) = 0 /\ t = <<>>
  BY EmptySeq
<1> HIDE DEF t
<1>2. /\ head = NoLink /\ tail = NoLink /\ numLinks = 0 /\ sound = TRUE
      /\ links = [e \in {} |-> 0]
  BY DEF ListInit
<1>3. DOMAIN links = {} /\ Linked(links)
  BY <1>2 DEF Linked
<1>4. Chained(t, links, head, tail, oneWay)
  <2>1. 1..Len(t) = {}
    BY <1>1
  <2> QED
    BY <1>1, <1>2, <1>3, <2>1 DEF Chained
<1>5. numLinks \in 0..MaxCount /\ Len(t) <= numLinks
  BY <1>1, <1>2, ListAssumption
<1> QED
  BY <1>2, <1>3, <1>4, <1>5 DEF ListInv, BrokenIndeed

\* Each step of a list does, and is one of a deque.
LEMMA ListStepKeeps == ListInv /\ [ListNext]_listVars => ListInv' /\ [DequeStep]_listVars
<1> SUFFICES ASSUME ListInv, [ListNext]_listVars
             PROVE  ListInv' /\ [DequeStep]_listVars
  OBVIOUS
<1>1. CASE ListNext
  BY <1>1, ListNextKeeps
<1>2. CASE UNCHANGED listVars
  BY <1>2 DEF listVars, ListInv, BrokenIndeed, Alive, Forward
<1> QED
  BY <1>1, <1>2

\* Whatever calls are made, a list is linked from head to tail, reads the same
\* backwards and by index, and is given up only in the states that break it
\* (linked_list.h).
THEOREM ListsKeepOrder == ListSpec => []ListSound
  BY ListStart, ListStepKeeps, ListIsSound, PTL DEF ListSpec

\* And every call that does not break it is one of Deque, or leaves the items: it takes
\* away, puts in and hands out the element it is about; only pop(data) takes away the
\* last one and hands out the first (linked_list.h).
THEOREM ListsAreDeques == ListSpec => DequeSteps
  BY ListStart, ListStepKeeps, PTL DEF ListSpec, DequeSteps
=============================================================================
