--------------------------- MODULE Units_proofs ----------------------------
(***************************************************************************)
(* Theorems about parts of the foundation library, each for any size of    *)
(* it: arrays and strings, sorting, events, worker threads, the digest of  *)
(* a text, and matrices and quaternions.  The lemmas at the beginning are  *)
(* about numbers, sequences and loops.                                     *)
(***************************************************************************)
EXTENDS Event, WorkerThread, Digest, CharString, Sorting, Algebra,
        SequenceTheorems, WellFoundedInduction, FiniteSetTheorems, TLAPS

----------------------------------------------------------------------------
(***************************************************************************)
(* Numbers, loops and sequences.                                           *)
(***************************************************************************)

\* The order of the natural numbers is well-founded.
LEMMA LeastOf ==
  ASSUME NEW T \in SUBSET Nat, T # {}
  PROVE  \E x \in T : \A y \in T : x <= y
<1>0. IsWellFoundedOn({p \in Nat \X Nat : p[1] < p[2]}, Nat)
  BY NatLessThanWellFounded DEF OpToRel
<1>1. PICK x \in T : \A y \in T : ~(<<y, x>> \in {p \in Nat \X Nat : p[1] < p[2]})
  BY <1>0, WFMin
<1>2. ASSUME NEW y \in T
      PROVE  x <= y
  <2>1. /\ <<y, x>> \in Nat \X Nat
        /\ ~(<<y, x>> \in {p \in Nat \X Nat : p[1] < p[2]})
    BY <1>1
  <2>2. ~(y < x)
    BY <2>1
  <2> QED
    BY <2>2
<1> QED
  BY <1>2

\* Induction over the natural numbers, for a set of them.
LEMMA Induction ==
  ASSUME NEW T, 0 \in T, \A i \in Nat : i \in T => i + 1 \in T
  PROVE  \A i \in Nat : i \in T
<1> DEFINE Rest == {i \in Nat : i \notin T}
<1>1. ASSUME Rest # {}
      PROVE  FALSE
  <2>1. PICK i \in Rest : \A k \in Rest : i <= k
    BY <1>1, LeastOf
  <2>2. i \in Nat /\ i # 0 /\ i \notin T
    BY <2>1
  <2>3. i - 1 \in Nat /\ i - 1 \notin Rest
    BY <2>1, <2>2
  <2> QED
    BY <2>2, <2>3
<1> QED
  BY <1>1

\* The same, up to a number.
LEMMA InductionTo ==
  ASSUME NEW n \in Nat, NEW T, 0 \in T, \A i \in 0..n - 1 : i \in T => i + 1 \in T
  PROVE  \A i \in 0..n : i \in T
<1> DEFINE U == {i \in Nat : i <= n => i \in T}
<1>1. \A i \in Nat : i \in U
  <2>1. 0 \in U
    OBVIOUS
  <2>2. ASSUME NEW i \in Nat, i \in U
        PROVE  i + 1 \in U
    BY <2>2
  <2> HIDE DEF U
  <2> QED
    BY <2>1, <2>2, Induction
<1> QED
  BY <1>1

\* What the steps of a loop leave: g makes each value of the one before it.
Unfolds(f, x, k, g) == f[0] = x /\ \A i \in 1..k : f[i] = g[<<i, f[i - 1]>>]

\* There is a function of what each of k steps leaves.
LEMMA Recursion ==
  ASSUME NEW V, NEW x \in V, NEW k \in Nat, NEW g \in [(1..k) \X V -> V]
  PROVE  \E f \in [0..k -> V] : Unfolds(f, x, k, g)
<1> DEFINE Fine(f, n) == f[0] = x /\ \A i \in 1..n : f[i] = g[<<i, f[i - 1]>>]
           Good == {n \in 0..k : \E f \in [0..n -> V] : Fine(f, n)}
<1>1. 0 \in Good
  <2> DEFINE f == [i \in 0..0 |-> x]
  <2>1. f \in [0..0 -> V] /\ f[0] = x
    OBVIOUS
  <2> HIDE DEF f
  <2>2. Fine(f, 0)
    BY <2>1
  <2>3. 0 \in 0..k
    OBVIOUS
  <2> HIDE DEF Fine
  <2> QED
    BY <2>1, <2>2, <2>3
<1>2. ASSUME NEW n \in 0..k - 1, n \in Good
      PROVE  n + 1 \in Good
  <2>1. PICK f \in [0..n -> V] : Fine(f, n)
    BY <1>2
  <2> DEFINE y == g[<<n + 1, f[n]>>]
             h == [i \in 0..n + 1 |-> IF i = n + 1 THEN y ELSE f[i]]
  <2>2. n + 1 \in 1..k /\ n \in 0..n /\ n + 1 \in 0..k
    OBVIOUS
  <2>3. y \in V
    BY <2>2
  <2> HIDE DEF y
  <2>4. h \in [0..n + 1 -> V]
    BY <2>3
  <2>5. \A i \in 0..n : h[i] = f[i]
    OBVIOUS
  <2>6. h[n + 1] = y
    OBVIOUS
  <2> HIDE DEF h
  <2>7. h[0] = x
    BY <2>1, <2>5
  <2>8. ASSUME NEW i \in 1..n + 1
        PROVE  h[i] = g[<<i, h[i - 1]>>]
    <3>1. CASE i = n + 1
      <4>1. i - 1 = n
        BY <3>1
      <4>2. h[i - 1] = f[n]
        BY <2>2, <2>5, <4>1
      <4> QED
        BY <2>6, <3>1, <4>2 DEF y
    <3>2. CASE i # n + 1
      <4>1. i \in 1..n /\ i \in 0..n /\ i - 1 \in 0..n
        BY <3>2
      <4>2. h[i] = f[i] /\ h[i - 1] = f[i - 1]
        BY <2>5, <4>1
      <4> QED
        BY <2>1, <4>1, <4>2
    <3> QED
      BY <3>1, <3>2
  <2>9. Fine(h, n + 1)
    BY <2>7, <2>8
  <2> HIDE DEF Fine
  <2> QED
    BY <2>2, <2>4, <2>9
<1> HIDE DEF Good
<1>3. k \in Good
  BY <1>1, <1>2, InductionTo
<1> QED
  BY <1>3 DEF Good, Unfolds

\* The loop that doubles a size ends, with one that is large enough.
LEMMA DoubledEnough ==
  ASSUME NEW n \in Nat \ {0}, NEW needed \in Nat
  PROVE  /\ Doubled(n, needed) \in Nat
         /\ n <= Doubled(n, needed)
         /\ needed <= Doubled(n, needed)
         /\ needed <= n => Doubled(n, needed) = n
<1> DEFINE top == n + 2 * needed
           Eq(f, k) == f = [m \in k..top |-> IF needed <= m THEN m ELSE f[2 * m]]
<1>1. \E f : Eq(f, n)
  <2> DEFINE Good == {j \in Nat : \E f : Eq(f, top - j)}
  <2>1. 0 \in Good
    <3> DEFINE f == [m \in top..top |-> m]
    <3>1. Eq(f, top)
      OBVIOUS
    <3>2. top - 0 = top
      OBVIOUS
    <3> QED
      BY <3>1, <3>2
  <2>2. ASSUME NEW j \in 0..2 * needed - 1, j \in Good
        PROVE  j + 1 \in Good
    <3> DEFINE k == top - (j + 1)
    <3>1. k \in n..top /\ k + 1 = top - j /\ k < top
      OBVIOUS
    <3>2. PICK f : Eq(f, k + 1)
      BY <2>2, <3>1
    <3> DEFINE g == [m \in k..top |-> IF m = k THEN (IF needed <= k THEN k ELSE f[2 * k]) ELSE f[m]]
    <3> HIDE DEF k
    <3>4. \A m \in k..top : needed > m => 2 * m \in (k + 1)..top
      BY <3>1
    <3>5. \A m \in (k + 1)..top : f[m] = IF needed <= m THEN m ELSE f[2 * m]
      BY <3>2
    <3>6. \A m \in (k + 1)..top : g[m] = f[m]
      BY <3>1
    <3>7. ASSUME NEW m \in k..top
          PROVE  g[m] = IF needed <= m THEN m ELSE g[2 * m]
      <4>1. CASE needed <= m
        BY <3>1, <3>5, <4>1
      <4>2. CASE needed > m
        <5>1. g[2 * m] = f[2 * m]
          BY <3>4, <3>6, <4>2
        <5>2. g[m] = f[2 * m]
          BY <3>1, <3>5, <4>2
        <5> QED
          BY <3>1, <4>2, <5>1, <5>2
      <4> QED
        BY <3>1, <4>1, <4>2
    <3>8. Eq(g, k)
      BY <3>7, Zenon
    <3>9. \E h : Eq(h, top - (j + 1))
      BY <3>8 DEF k
    <3> HIDE DEF Eq
    <3> QED
      BY <3>9
  <2> HIDE DEF Good
  <2>3. 2 * needed \in Good
    BY <2>1, <2>2, InductionTo
  <2>4. top - 2 * needed = n
    OBVIOUS
  <2> USE DEF Good
  <2> QED
    BY <2>3, <2>4
<1> DEFINE f == CHOOSE f : f = [m \in n..n + 2 * needed |-> IF needed <= m THEN m ELSE f[2 * m]]
<1>2. \A m \in n..top : f[m] = IF needed <= m THEN m ELSE f[2 * m]
  <2>1. Eq(f, n)
    BY <1>1
  <2> HIDE DEF f
  <2> QED
    BY <2>1
<1>3. Doubled(n, needed) = f[n]
  BY DEF Doubled
<1> HIDE DEF f
<1> DEFINE Fine(m) == f[m] \in Nat /\ m <= f[m] /\ needed <= f[m]
           From == {j \in Nat : \A m \in top - j..top : Fine(m)}
<1>4. 0 \in From
  BY <1>2
<1>5. ASSUME NEW j \in 0..2 * needed - 1, j \in From
      PROVE  j + 1 \in From
  <2> DEFINE k == top - (j + 1)
  <2>1. k \in n..top /\ k # 0
    OBVIOUS
  <2>2. \A m \in k + 1..top : Fine(m)
    BY <1>5
  <2> HIDE DEF k
  <2>3. Fine(k)
    <3>1. CASE needed <= k
      BY <1>2, <2>1, <3>1
    <3>2. CASE needed > k
      <4>1. 2 * k \in k + 1..top
        BY <2>1, <3>2
      <4>2. f[k] = f[2 * k]
        BY <1>2, <2>1, <3>2
      <4> QED
        BY <2>1, <2>2, <4>1, <4>2
    <3> QED
      BY <2>1, <3>1, <3>2
  <2> HIDE DEF Fine
  <2>4. \A m \in k..top : Fine(m)
    BY <2>1, <2>2, <2>3
  <2> QED
    BY <2>4 DEF k
<1> HIDE DEF From
<1>6. 2 * needed \in From
  BY <1>4, <1>5, InductionTo
<1> USE DEF From
<1>7. Fine(n)
  BY <1>6
<1> QED
  BY <1>2, <1>3, <1>7

----------------------------------------------------------------------------
\* Two parts of sequences are the same if their elements are.
LEMMA PartsEqual ==
  ASSUME NEW s, NEW t, NEW k \in Int, NEW l \in Int, NEW m \in Int, NEW n \in Int,
         l - k = n - m, \A i \in k..l : s[i] = t[i - k + m]
  PROVE  SubSeq(s, k, l) = SubSeq(t, m, n)
<1> DEFINE S == {s[i] : i \in k..l} \cup {t[i] : i \in m..n}
<1>1. /\ \A i \in k..l : s[i] \in S
      /\ \A i \in m..n : t[i] \in S
  OBVIOUS
<1> HIDE DEF S
<1>2. /\ SubSeq(s, k, l) \in Seq(S)
      /\ Len(SubSeq(s, k, l)) = IF k <= l THEN l - k + 1 ELSE 0
      /\ \A i \in 1..l - k + 1 : SubSeq(s, k, l)[i] = s[k + i - 1]
  BY <1>1, SubSeqProperties
<1>3. /\ SubSeq(t, m, n) \in Seq(S)
      /\ Len(SubSeq(t, m, n)) = IF m <= n THEN n - m + 1 ELSE 0
      /\ \A i \in 1..n - m + 1 : SubSeq(t, m, n)[i] = t[m + i - 1]
  BY <1>1, SubSeqProperties
<1>4. \A i \in 1..Len(SubSeq(s, k, l)) : SubSeq(s, k, l)[i] = SubSeq(t, m, n)[i]
  <2> SUFFICES ASSUME NEW i \in 1..Len(SubSeq(s, k, l))
               PROVE  SubSeq(s, k, l)[i] = SubSeq(t, m, n)[i]
    OBVIOUS
  <2>1. i \in 1..l - k + 1 /\ k + i - 1 \in k..l /\ i \in 1..n - m + 1
    BY <1>2
  <2>2. s[k + i - 1] = t[(k + i - 1) - k + m] /\ (k + i - 1) - k + m = m + i - 1
    BY <2>1
  <2> QED
    BY <1>2, <1>3, <2>1, <2>2
<1>5. Len(SubSeq(s, k, l)) = Len(SubSeq(t, m, n))
  BY <1>2, <1>3
<1> QED
  BY <1>2, <1>3, <1>4, <1>5, SeqEqual

\* A sequence of k elements.
IsSeqOf(s, k) == s = [i \in 1..k |-> s[i]]

\* And its length.
LEMMA SeqOfLen ==
  ASSUME NEW k \in Nat, NEW s, IsSeqOf(s, k)
  PROVE  /\ Len(s) = k
         /\ s \in Seq({s[i] : i \in 1..k})
<1> DEFINE S == {s[i] : i \in 1..k}
<1>1. s \in [1..k -> S]
  BY DEF IsSeqOf
<1> HIDE DEF S
<1>2. s \in Seq(S)
  BY <1>1, SeqDef
<1>3. Len(s) = k
  BY <1>1, <1>2, LenProperties
<1> QED
  BY <1>2, <1>3 DEF S

\* A sequence of so many elements is a part of another if its elements are.
LEMMA IsPart ==
  ASSUME NEW s, NEW t, NEW k \in Nat, NEW m \in Int, NEW n \in Int, n = m + k - 1,
         IsSeqOf(s, k), \A i \in 1..k : s[i] = t[m + i - 1]
  PROVE  s = SubSeq(t, m, n)
<1> DEFINE S == {s[i] : i \in 1..k}
<1>1. s \in Seq(S) /\ Len(s) = k
  BY SeqOfLen
<1>2. SubSeq(s, 1, k) = s
  BY <1>1, SubSeqFull
<1>3. SubSeq(s, 1, k) = SubSeq(t, m, n)
  <2> HIDE DEF S
  <2>1. \A i \in 1..k : s[i] = t[i - 1 + m]
    <3>1. \A i \in 1..k : i - 1 + m = m + i - 1
      OBVIOUS
    <3> QED
      BY <3>1
  <2>2. k - 1 = n - m /\ 1 \in Int /\ k \in Int
    OBVIOUS
  <2> QED
    BY <2>1, <2>2, PartsEqual
<1> QED
  BY <1>2, <1>3

----------------------------------------------------------------------------
(***************************************************************************)
(* Arrays, any number of any size: the calls keep the items and their      *)
(* order, and write inside the buffers or right after them.                *)
(***************************************************************************)

\* The types of arrays.
ArrayTypeOK ==
  /\ DOMAIN cells = Arrays
  /\ size \in [Arrays -> Nat \ {0}]
  /\ count \in [Arrays -> Nat]

\* What the properties of arrays rest on.
ArrayInv == ArrayTypeOK /\ Fitting /\ StrayByOne

\* It holds at first.
LEMMA ArraysStart == ArrayInit => ArrayInv
<1> SUFFICES ASSUME ArrayInit PROVE ArrayInv
  OBVIOUS
<1>1. \A a \in Arrays : size[a] = 2 /\ count[a] = 0 /\ DOMAIN cells[a] = 0..2 - 1
  BY DEF ArrayInit, Buffer
<1>2. ArrayTypeOK
  BY DEF ArrayInit, ArrayTypeOK
<1>3. Fitting
  <2> SUFFICES ASSUME NEW a \in Arrays
               PROVE  DOMAIN cells[a] = 0..size[a] - 1 /\ count[a] <= size[a]
    BY DEF Fitting
  <2>1. size[a] = 2 /\ count[a] = 0 /\ DOMAIN cells[a] = 0..2 - 1
    BY <1>1
  <2> QED
    BY <2>1
<1> QED
  BY <1>2, <1>3 DEF ArrayInv, ArrayInit, StrayByOne

\* An array gets another buffer, size and count, and the others stay.
LEMMA ArrayReplaced ==
  ASSUME ArrayInv, NEW a \in Arrays, NEW buffer, NEW n \in Nat \ {0}, NEW c \in Nat,
         astray = <<>>,
         cells' = [cells EXCEPT ![a] = buffer],
         size' = [size EXCEPT ![a] = n],
         count' = [count EXCEPT ![a] = c],
         DOMAIN buffer \in {{}, 0..n - 1},
         c <= n,
         astray' = <<>> \/ (\E i : astray' = <<a, i>> /\ (DOMAIN buffer = {} \/ i = n))
  PROVE  ArrayInv'
<1>1. ArrayTypeOK'
  BY DEF ArrayInv, ArrayTypeOK
<1>2. /\ cells'[a] = buffer /\ size'[a] = n /\ count'[a] = c
      /\ \A b \in Arrays \ {a} : cells'[b] = cells[b] /\ size'[b] = size[b] /\ count'[b] = count[b]
  BY DEF ArrayInv, ArrayTypeOK
<1>3. Fitting'
  <2> SUFFICES ASSUME NEW b \in Arrays
               PROVE  /\ DOMAIN cells'[b] # {} => DOMAIN cells'[b] = 0..size'[b] - 1
                      /\ count'[b] <= size'[b]
    BY DEF Fitting, Held
  <2>1. CASE b = a
    BY <1>2, <2>1
  <2>2. CASE b # a
    <3>1. /\ DOMAIN cells[b] # {} => DOMAIN cells[b] = 0..size[b] - 1
          /\ count[b] <= size[b]
      BY DEF ArrayInv, Fitting, Held
    <3> QED
      BY <1>2, <2>2, <3>1
  <2> QED
    BY <2>1, <2>2
<1>4. StrayByOne'
  <2> SUFFICES ASSUME astray' # <<>>
               PROVE  DOMAIN cells'[astray'[1]] = {} \/ astray'[2] = size'[astray'[1]]
    BY DEF StrayByOne, Held
  <2>1. PICK i : astray' = <<a, i>> /\ (DOMAIN buffer = {} \/ i = n)
    OBVIOUS
  <2>2. astray'[1] = a /\ astray'[2] = i
    BY <2>1
  <2> QED
    BY <1>2, <2>1, <2>2
<1> QED
  BY <1>1, <1>3, <1>4 DEF ArrayInv

\* The contents of an array are a sequence, of what its buffer holds.
LEMMA ElementsAre ==
  ASSUME ArrayTypeOK, NEW a \in Arrays
  PROVE  /\ IsSeqOf(Elements(a), count[a])
         /\ Len(Elements(a)) = count[a]
         /\ DOMAIN Elements(a) = 1..count[a]
         /\ \A i \in 1..count[a] :
              Elements(a)[i] = IF i - 1 \in DOMAIN cells[a] THEN cells[a][i - 1] ELSE Raw
<1>1. count[a] \in Nat
  BY DEF ArrayTypeOK
<1>2. /\ IsSeqOf(Elements(a), count[a])
      /\ DOMAIN Elements(a) = 1..count[a]
      /\ \A i \in 1..count[a] :
           Elements(a)[i] = IF i - 1 \in DOMAIN cells[a] THEN cells[a][i - 1] ELSE Raw
  BY <1>1 DEF Elements, IsSeqOf
<1>3. Len(Elements(a)) = count[a]
  BY <1>1, <1>2, SeqOfLen
<1> QED
  BY <1>2, <1>3

\* A buffer that is made longer or shorter keeps what it holds.
LEMMA RoomKeeps ==
  ASSUME ArrayInv, NEW a \in Arrays, NEW n \in Nat \ {0}
  PROVE  /\ DOMAIN Room(a, n) \in {{}, 0..n - 1}
         /\ Held(a) => DOMAIN Room(a, n) = 0..n - 1
         /\ DOMAIN Room(a, n) = {} => DOMAIN cells[a] = {}
         /\ \A j \in DOMAIN Room(a, n) :
              Room(a, n)[j] = IF j \in DOMAIN cells[a] THEN cells[a][j] ELSE Raw
<1>1. CASE n = size[a]
  BY <1>1 DEF Room, ArrayInv, Fitting, Held
<1>2. CASE n # size[a]
  <2>1. 0 \in 0..n - 1
    OBVIOUS
  <2> QED
  BY <1>2, <2>1 DEF Room, Realloc
<1> QED
  BY <1>1, <1>2

\* What a call may do to one array, when it leaves the others alone, or one of
\* them without a buffer.
LEMMA ArrayStepOf ==
  ASSUME NEW a \in Arrays,
         \A b \in Arrays \ {a} :
           (cells'[b] = cells[b] /\ count'[b] = count[b]) \/ cells'[b] = Buffer(0),
         \/ \E b \in Arrays : Elements(a)' = Elements(b)
         \/ Inserted(Elements(a), Elements(a)') \/ Inserted(Elements(a)', Elements(a))
         \/ \E i \in DOMAIN Elements(a) \cap DOMAIN Elements(a)' :
              Elements(a)' = [Elements(a) EXCEPT ![i] = Elements(a)'[i]]
         \/ \E b \in Arrays : \E i \in 0..count[b] - count'[a] :
              Elements(a)' = SubSeq(Elements(b), i + 1, i + count'[a])
  PROVE  ArrayStep
<1> DEFINE before == [b \in Arrays |-> Elements(b)]
           after == [b \in Arrays |-> Elements(b)']
<1>1. \A b \in Arrays \ {a} : after[b] = before[b] \/ cells'[b] = Buffer(0)
  BY DEF Elements
<1>2. \A b \in Arrays : before[b] = Elements(b) /\ after[b] = Elements(b)'
  OBVIOUS
<1> HIDE DEF before, after
<1>3. \/ after[a] \in {before[b] : b \in Arrays}
      \/ Inserted(before[a], after[a]) \/ Inserted(after[a], before[a])
      \/ \E i \in DOMAIN before[a] \cap DOMAIN after[a] :
           after[a] = [before[a] EXCEPT ![i] = after[a][i]]
      \/ \E b \in Arrays : \E i \in 0..count[b] - count'[a] :
           after[a] = SubSeq(before[b], i + 1, i + count'[a])
  <2>1. CASE \E b \in Arrays : Elements(a)' = Elements(b)
    BY <1>2, <2>1
  <2>2. CASE Inserted(Elements(a), Elements(a)') \/ Inserted(Elements(a)', Elements(a))
    BY <1>2, <2>2
  <2>3. CASE \E i \in DOMAIN Elements(a) \cap DOMAIN Elements(a)' :
              Elements(a)' = [Elements(a) EXCEPT ![i] = Elements(a)'[i]]
    BY <1>2, <2>3
  <2>4. CASE \E b \in Arrays : \E i \in 0..count[b] - count'[a] :
              Elements(a)' = SubSeq(Elements(b), i + 1, i + count'[a])
    BY <1>2, <2>4
  <2> QED
    BY <2>1, <2>2, <2>3, <2>4
<1> QED
  BY <1>1, <1>3 DEF ArrayStep, before, after

\* The contents of an array that got another buffer and count.
LEMMA ElementsAfter ==
  ASSUME NEW a \in Arrays, NEW c \in Nat, NEW buffer, cells'[a] = buffer, count'[a] = c
  PROVE  /\ IsSeqOf(Elements(a)', c)
         /\ DOMAIN Elements(a)' = 1..c
         /\ \A i \in 1..c :
              Elements(a)'[i] = IF i - 1 \in DOMAIN buffer THEN buffer[i - 1] ELSE Raw
<1>1. Elements(a)' = [i \in 1..c |-> IF i - 1 \in DOMAIN buffer THEN buffer[i - 1] ELSE Raw]
  BY DEF Elements
<1> QED
  BY <1>1 DEF IsSeqOf

\* A sequence with n more elements at one place.
LEMMA InsertedAt ==
  ASSUME NEW s, NEW t, NEW k \in Nat, NEW n \in Nat, NEW i \in 0..k,
         IsSeqOf(s, k), IsSeqOf(t, k + n),
         \A j \in 1..i : t[j] = s[j],
         \A j \in i + 1..k : t[j + n] = s[j]
  PROVE  Inserted(s, t)
<1>1. Len(s) = k /\ Len(t) = k + n
  <2>1. k + n \in Nat
    OBVIOUS
  <2> QED
    BY <2>1, SeqOfLen
<1>2. SubSeq(t, 1, i) = SubSeq(s, 1, i)
  <2>1. \A j \in 1..i : t[j] = s[j - 1 + 1]
    <3>1. \A j \in 1..i : j - 1 + 1 = j
      OBVIOUS
    <3> QED
      BY <3>1
  <2>2. i \in Int /\ 1 \in Int /\ i - 1 = i - 1
    OBVIOUS
  <2> QED
    BY <2>1, <2>2, PartsEqual
<1>3. SubSeq(s, i + 1, k) = SubSeq(t, i + 1 + n, k + n)
  <2>1. \A j \in i + 1..k : s[j] = t[j - (i + 1) + (i + 1 + n)]
    <3>1. \A j \in i + 1..k : j - (i + 1) + (i + 1 + n) = j + n
      OBVIOUS
    <3> QED
      BY <3>1
  <2>2. /\ i + 1 \in Int /\ k \in Int /\ i + 1 + n \in Int /\ k + n \in Int
        /\ k - (i + 1) = k + n - (i + 1 + n)
    OBVIOUS
  <2> QED
    BY <2>1, <2>2, PartsEqual
<1>4. i + 1 + Len(t) - Len(s) = i + 1 + n /\ Len(t) >= Len(s)
  BY <1>1
<1> QED
  BY <1>1, <1>2, <1>3, <1>4 DEF Inserted

\* What one array holds changed like this, and the others stay.
LEMMA OneChanged ==
  ASSUME ArrayInv, NEW a \in Arrays, NEW buffer, NEW c,
         cells' = [cells EXCEPT ![a] = buffer],
         count' = [count EXCEPT ![a] = c],
         \/ \E b \in Arrays : Elements(a)' = Elements(b)
         \/ Inserted(Elements(a), Elements(a)') \/ Inserted(Elements(a)', Elements(a))
         \/ \E i \in DOMAIN Elements(a) \cap DOMAIN Elements(a)' :
              Elements(a)' = [Elements(a) EXCEPT ![i] = Elements(a)'[i]]
         \/ \E b \in Arrays : \E i \in 0..count[b] - count'[a] :
              Elements(a)' = SubSeq(Elements(b), i + 1, i + count'[a])
  PROVE  ArrayStep
<1>1. \A b \in Arrays \ {a} : cells'[b] = cells[b] /\ count'[b] = count[b]
  BY DEF ArrayInv, ArrayTypeOK
<1> QED
  BY <1>1, ArrayStepOf

\* The sequences that are added.
LEMMA SomeAre ==
  ASSUME NEW xs \in Some
  PROVE  Len(xs) \in {1, 2} /\ IsSeqOf(xs, Len(xs))
BY DEF Some, IsSeqOf

----------------------------------------------------------------------------
\* Adding and inserting.
LEMMA InsertKeeps ==
  ASSUME ArrayInv, NEW a \in Arrays, NEW i \in Nat, NEW xs \in Some, InsertItems(a, i, xs)
  PROVE  ArrayInv' /\ (astray' = <<>> => ArrayStep)
<1> DEFINE n == Len(xs)
           k == count[a]
           N == Doubled(size[a], k + n)
           room == Room(a, N)
           outside == {j \in i..i + n - 1 : j \notin DOMAIN room}
           buffer == [j \in DOMAIN room |->
             IF j \in i..i + n - 1 THEN xs[j - i + 1]
             ELSE IF j \in i + n..k + n - 1 THEN room[j - n] ELSE room[j]]
<1>1. n \in Nat /\ n >= 1 /\ k \in Nat /\ i <= k /\ size[a] \in Nat \ {0} /\ k <= size[a]
  <2>1. n \in {1, 2}
    BY SomeAre
  <2>2. n \in Nat /\ n >= 1
    BY <2>1
  <2> QED
    BY <2>2 DEF ArrayInv, ArrayTypeOK, Fitting, InsertItems
<1>2. /\ astray = <<>>
      /\ size' = [size EXCEPT ![a] = N]
      /\ count' = [count EXCEPT ![a] = k + n]
      /\ outside # {} => /\ \E j : astray' = <<a, j>>
                         /\ cells' = [cells EXCEPT ![a] = room]
      /\ outside = {} => astray' = <<>> /\ cells' = [cells EXCEPT ![a] = buffer]
  BY Zenon DEF InsertItems, Write
<1>3. N \in Nat \ {0} /\ k + n <= N
  <2> HIDE DEF n, k
  <2>1. k + n \in Nat /\ size[a] \in Nat \ {0}
    BY <1>1
  <2>2. N \in Nat /\ size[a] <= N /\ k + n <= N
    BY <2>1, DoubledEnough
  <2> QED
    BY <2>1, <2>2
<1>4. /\ DOMAIN room \in {{}, 0..N - 1}
      /\ \A j \in DOMAIN room : room[j] = IF j \in DOMAIN cells[a] THEN cells[a][j] ELSE Raw
  BY <1>3, RoomKeeps
<1> HIDE DEF N, room
<1>5. CASE outside # {}
  <2>1. DOMAIN room = {}
    BY <1>1, <1>3, <1>4, <1>5
  <2>2. PICK j : astray' = <<a, j>>
    BY <1>2, <1>5
  <2>3. astray' # <<>>
    BY <2>2
  <2>4. k + n \in Nat
    BY <1>1
  <2> QED
    BY <1>2, <1>3, <1>5, <2>1, <2>2, <2>3, <2>4, ArrayReplaced
<1>6. CASE outside = {}
  <2>1. DOMAIN room = 0..N - 1 /\ DOMAIN buffer = 0..N - 1
    <3>1. i \in i..i + n - 1
      <4> HIDE DEF n, k
      <4> QED
        BY <1>1
    <3>2. i \in DOMAIN room
      BY <1>6, <3>1
    <3> QED
      BY <1>4, <3>2
  <2>2. /\ cells' = [cells EXCEPT ![a] = buffer]
        /\ count' = [count EXCEPT ![a] = k + n]
        /\ cells'[a] = buffer /\ count'[a] = k + n
    BY <1>2, <1>6 DEF ArrayInv, ArrayTypeOK
  <2>3. k + n \in Nat
    BY <1>1
  <2>4. ArrayInv'
    <3> HIDE DEF n, k, buffer, outside
    <3> QED
      BY <1>2, <1>3, <1>6, <2>1, <2>2, <2>3, ArrayReplaced
  <2>5. \A j \in 0..N - 1 : buffer[j] =
             IF j \in i..i + n - 1 THEN xs[j - i + 1]
             ELSE IF j \in i + n..k + n - 1 THEN room[j - n] ELSE room[j]
    BY <2>1
  <2> HIDE DEF buffer
  <2>6. /\ IsSeqOf(Elements(a), k)
        /\ \A j \in 1..k : Elements(a)[j] = IF j - 1 \in DOMAIN cells[a] THEN cells[a][j - 1] ELSE Raw
    BY ElementsAre DEF ArrayInv
  <2>7. /\ IsSeqOf(Elements(a)', k + n)
        /\ \A j \in 1..k + n : Elements(a)'[j] = buffer[j - 1]
    <3>1. \A j \in 1..k + n : j - 1 \in DOMAIN buffer
      BY <1>1, <1>3, <2>1
    <3> HIDE DEF n, k
    <3> QED
      BY <2>2, <2>3, <3>1, ElementsAfter
  <2>8. \A j \in 0..k - 1 : room[j] = Elements(a)[j + 1]
    <3>1. \A j \in 0..k - 1 : j + 1 \in 1..k /\ j + 1 - 1 = j /\ j \in DOMAIN room
      BY <1>1, <1>3, <2>1
    <3> QED
      BY <1>4, <2>6, <3>1
  <2>9. \A j \in 1..i : Elements(a)'[j] = Elements(a)[j]
    <3> SUFFICES ASSUME NEW j \in 1..i PROVE Elements(a)'[j] = Elements(a)[j]
      OBVIOUS
    <3>1. j \in 1..k + n /\ j - 1 \in 0..N - 1 /\ j - 1 \notin i..i + n - 1
          /\ j - 1 \notin i + n..k + n - 1 /\ j - 1 \in 0..k - 1 /\ j - 1 + 1 = j
      BY <1>1, <1>3
    <3> HIDE DEF n, k
    <3> QED
      BY <2>5, <2>7, <2>8, <3>1
  <2>10. \A j \in i + 1..k : Elements(a)'[j + n] = Elements(a)[j]
    <3> SUFFICES ASSUME NEW j \in i + 1..k PROVE Elements(a)'[j + n] = Elements(a)[j]
      OBVIOUS
    <3>1. j + n \in 1..k + n /\ j + n - 1 \in 0..N - 1 /\ j + n - 1 \notin i..i + n - 1
          /\ j + n - 1 \in i + n..k + n - 1 /\ j - 1 \in 0..k - 1 /\ j - 1 + 1 = j
          /\ j + n - 1 - n = j - 1
      <4>1. n \in Nat /\ k \in Nat /\ N \in Nat /\ i \in Nat /\ i <= k /\ k + n <= N /\ j \in i + 1..k
        BY <1>1, <1>3
      <4> HIDE DEF n, k, N
      <4> QED
        BY <4>1
    <3> HIDE DEF n, k
    <3>2. Elements(a)'[j + n] = buffer[j + n - 1]
      BY <1>1, <2>7, <3>1
    <3>3. buffer[j + n - 1] = room[j - 1]
      BY <1>1, <2>5, <3>1
    <3>4. room[j - 1] = Elements(a)[j]
      BY <2>8, <3>1
    <3> QED
      BY <3>2, <3>3, <3>4
  <2>11. Inserted(Elements(a), Elements(a)')
    <3>1. n \in Nat /\ i \in 0..k
      BY <1>1
    <3> HIDE DEF n, k
    <3> QED
      BY <1>1, <2>6, <2>7, <2>9, <2>10, <3>1, InsertedAt
  <2>12. ArrayStep
    BY <2>2, <2>11, OneChanged
  <2> QED
    BY <2>4, <2>12
<1> QED
  BY <1>5, <1>6

\* The same, when both hold the same.
LEMMA SameElements ==
  ASSUME NEW s, NEW t, NEW k, IsSeqOf(s, k), IsSeqOf(t, k), \A j \in 1..k : t[j] = s[j]
  PROVE  t = s
BY Zenon DEF IsSeqOf

\* Assigning to an item, or extending the array.
LEMMA AtOrExtendKeeps ==
  ASSUME ArrayInv, NEW a \in Arrays, NEW i \in Nat, NEW x, AtOrExtend(a, i, x)
  PROVE  ArrayInv' /\ (astray' = <<>> => ArrayStep)
<1> DEFINE k == count[a]
           N == Doubled(size[a], i)
           c == IF i > k THEN i ELSE k
           room == Room(a, N)
           buffer == [j \in DOMAIN room |-> IF j = i /\ i < k THEN x ELSE room[j]]
<1>1. k \in Nat /\ size[a] \in Nat \ {0} /\ k <= size[a] /\ c \in Nat
  BY DEF ArrayInv, ArrayTypeOK, Fitting
<1>2. /\ astray = <<>>
      /\ size' = [size EXCEPT ![a] = N]
      /\ cells' = [cells EXCEPT ![a] = buffer]
      /\ astray' = IF i \in DOMAIN room THEN <<>> ELSE <<a, i>>
  BY DEF AtOrExtend
<1>3. count' = [count EXCEPT ![a] = c]
  BY DEF AtOrExtend, ArrayInv, ArrayTypeOK
<1>4. N \in Nat \ {0} /\ i <= N /\ size[a] <= N
  <2> HIDE DEF k
  <2>2. N \in Nat /\ size[a] <= N /\ i <= N
    BY <1>1, DoubledEnough
  <2> QED
    BY <1>1, <2>2
<1>5. /\ DOMAIN room \in {{}, 0..N - 1}
      /\ \A j \in DOMAIN room : room[j] = IF j \in DOMAIN cells[a] THEN cells[a][j] ELSE Raw
      /\ DOMAIN room = {} => DOMAIN cells[a] = {}
  BY <1>4, RoomKeeps
<1>6. cells'[a] = buffer /\ count'[a] = c /\ DOMAIN buffer = DOMAIN room
  BY <1>2, <1>3 DEF ArrayInv, ArrayTypeOK
<1>7. \A j \in DOMAIN room : buffer[j] = IF j = i /\ i < k THEN x ELSE room[j]
  OBVIOUS
<1>8. c <= N /\ k <= c /\ (i <= k => c = k) /\ (i > k => c = i)
  BY <1>1, <1>4
<1> HIDE DEF N, room, buffer, c, k
<1>9. ArrayInv'
  <2>1. astray' = <<>> \/ (\E j : astray' = <<a, j>> /\ (DOMAIN buffer = {} \/ j = N))
    BY <1>2, <1>4, <1>5, <1>6
  <2> QED
    BY <1>1, <1>2, <1>3, <1>4, <1>5, <1>6, <1>8, <2>1, ArrayReplaced
<1>10. ASSUME astray' = <<>>
       PROVE  ArrayStep
  <2>1. DOMAIN room = 0..N - 1 /\ i \in 0..N - 1
    <3>1. <<a, i>> # <<>>
      OBVIOUS
    <3>2. i \in DOMAIN room
      BY <1>2, <1>10, <3>1
    <3> QED
      BY <1>5, <3>2
  <2>2. /\ IsSeqOf(Elements(a), k) /\ DOMAIN Elements(a) = 1..k
        /\ \A j \in 1..k : Elements(a)[j] = IF j - 1 \in DOMAIN cells[a] THEN cells[a][j - 1] ELSE Raw
    BY ElementsAre DEF ArrayInv, k
  <2>3. /\ IsSeqOf(Elements(a)', c) /\ DOMAIN Elements(a)' = 1..c
        /\ \A j \in 1..c : Elements(a)'[j] = IF j - 1 \in DOMAIN buffer THEN buffer[j - 1] ELSE Raw
    BY <1>1, <1>6, ElementsAfter
  <2>4. \A j \in 1..k : Elements(a)'[j] = IF j - 1 = i /\ i < k THEN x ELSE Elements(a)[j]
    <3> SUFFICES ASSUME NEW j \in 1..k
                 PROVE  Elements(a)'[j] = IF j - 1 = i /\ i < k THEN x ELSE Elements(a)[j]
      OBVIOUS
    <3>1. j \in 1..c /\ j - 1 \in DOMAIN room
      BY <1>1, <1>4, <1>8, <2>1
    <3>2. Elements(a)'[j] = buffer[j - 1]
      BY <1>6, <2>3, <3>1
    <3>3. room[j - 1] = Elements(a)[j]
      BY <1>5, <2>2, <3>1
    <3> QED
      BY <1>7, <3>1, <3>2, <3>3
  <2>5. CASE i < k
    <3>1. i + 1 \in 1..k /\ c = k
      BY <1>1, <1>8, <2>5
    <3>2. \A j \in 1..k : (j - 1 = i) <=> (j = i + 1)
      OBVIOUS
    <3>3. Elements(a)' = [Elements(a) EXCEPT ![i + 1] = Elements(a)'[i + 1]]
      <4> DEFINE t == [Elements(a) EXCEPT ![i + 1] = Elements(a)'[i + 1]]
      <4>1. DOMAIN t = 1..k /\ IsSeqOf(t, k)
        BY <2>2 DEF IsSeqOf
      <4>2. \A j \in 1..k : t[j] = Elements(a)'[j]
        BY <2>2, <2>4, <3>1, <3>2
      <4> HIDE DEF t
      <4>3. Elements(a)' = t
        BY <2>3, <3>1, <4>1, <4>2, SameElements
      <4> QED
        BY <4>3 DEF t
    <3>4. i + 1 \in DOMAIN Elements(a) \cap DOMAIN Elements(a)'
      BY <2>2, <2>3, <3>1
    <3> QED
      BY <1>2, <1>3, <3>3, <3>4, OneChanged
  <2>6. CASE i = k
    <3>1. c = k
      BY <1>1, <1>8, <2>6
    <3>2. \A j \in 1..k : Elements(a)'[j] = Elements(a)[j]
      BY <2>4, <2>6, <1>1
    <3>3. Elements(a)' = Elements(a)
      BY <2>2, <2>3, <3>1, <3>2, SameElements
    <3> QED
      BY <1>2, <1>3, <3>3, OneChanged
  <2>7. CASE i > k
    <3>1. c = k + (i - k) /\ i - k \in Nat /\ k \in 0..k /\ k + 1..k = {}
      BY <1>1, <1>8, <2>7
    <3>2. \A j \in 1..k : Elements(a)'[j] = Elements(a)[j]
      BY <2>4, <2>7, <1>1
    <3>3. Inserted(Elements(a), Elements(a)')
      BY <1>1, <2>2, <2>3, <3>1, <3>2, InsertedAt
    <3> QED
      BY <1>2, <1>3, <3>3, OneChanged
  <2> QED
    BY <1>1, <2>5, <2>6, <2>7
<1> QED
  BY <1>9, <1>10

\* Removing.
LEMMA RemoveKeeps ==
  ASSUME ArrayInv, NEW a \in Arrays, NEW i \in Nat, NEW n \in Nat, RemoveItems(a, i, n)
  PROVE  ArrayInv' /\ (astray' = <<>> => ArrayStep)
<1> DEFINE k == count[a]
           buffer == [j \in DOMAIN cells[a] |->
             IF j \notin i..k - 1 THEN cells[a][j]
             ELSE IF j + n < k THEN cells[a][j + n] ELSE Raw]
<1>1. /\ k \in Nat /\ size[a] \in Nat \ {0} /\ k <= size[a] /\ i + n <= k
      /\ DOMAIN cells[a] = 0..size[a] - 1 /\ DOMAIN buffer = 0..size[a] - 1
  BY DEF ArrayInv, ArrayTypeOK, Fitting, RemoveItems
<1>2. /\ astray = <<>> /\ astray' = <<>>
      /\ size' = [size EXCEPT ![a] = size[a]]
      /\ cells' = [cells EXCEPT ![a] = buffer]
      /\ count' = [count EXCEPT ![a] = k - n]
  BY DEF RemoveItems, ArrayInv, ArrayTypeOK
<1>3. cells'[a] = buffer /\ count'[a] = k - n /\ k - n \in Nat /\ k - n <= size[a]
  <2>1. cells'[a] = buffer /\ count'[a] = k - n
    BY <1>2 DEF ArrayInv, ArrayTypeOK
  <2> HIDE DEF k
  <2> QED
    BY <1>1, <2>1
<1>4. \A j \in 0..size[a] - 1 : buffer[j] =
             IF j \notin i..k - 1 THEN cells[a][j]
             ELSE IF j + n < k THEN cells[a][j + n] ELSE Raw
  BY <1>1
<1> HIDE DEF buffer, k
<1>5. ArrayInv'
  BY <1>1, <1>2, <1>3, ArrayReplaced
<1>6. /\ IsSeqOf(Elements(a), k)
      /\ \A j \in 1..k : Elements(a)[j] = IF j - 1 \in DOMAIN cells[a] THEN cells[a][j - 1] ELSE Raw
  BY ElementsAre DEF ArrayInv, k
<1>7. /\ IsSeqOf(Elements(a)', k - n)
      /\ \A j \in 1..k - n : Elements(a)'[j] = IF j - 1 \in DOMAIN buffer THEN buffer[j - 1] ELSE Raw
  BY <1>3, ElementsAfter
<1>8. \A j \in 1..i : Elements(a)[j] = Elements(a)'[j]
  <2> SUFFICES ASSUME NEW j \in 1..i PROVE Elements(a)[j] = Elements(a)'[j]
    OBVIOUS
  <2>1. j \in 1..k /\ j \in 1..k - n /\ j - 1 \in 0..size[a] - 1 /\ j - 1 \notin i..k - 1
    BY <1>1
  <2> QED
    BY <1>1, <1>4, <1>6, <1>7, <2>1
<1>9. \A j \in i + 1..k - n : Elements(a)[j + n] = Elements(a)'[j]
  <2> SUFFICES ASSUME NEW j \in i + 1..k - n PROVE Elements(a)[j + n] = Elements(a)'[j]
    OBVIOUS
  <2>1. /\ j + n \in 1..k /\ j \in 1..k - n /\ j - 1 \in 0..size[a] - 1 /\ j - 1 \in i..k - 1
        /\ j + n - 1 \in 0..size[a] - 1 /\ j - 1 + n < k /\ j - 1 + n = j + n - 1
    BY <1>1
  <2>2. Elements(a)[j + n] = cells[a][j + n - 1]
    BY <1>1, <1>6, <2>1
  <2>3. Elements(a)'[j] = buffer[j - 1]
    BY <1>1, <1>7, <2>1
  <2>4. buffer[j - 1] = cells[a][j - 1 + n]
    BY <1>1, <1>4, <2>1
  <2> QED
    BY <2>1, <2>2, <2>3, <2>4
<1>10. Inserted(Elements(a)', Elements(a))
  <2> DEFINE m == k - n
  <2>1. m \in Nat /\ m + n = k /\ i \in 0..m
    BY <1>1
  <2>2. IsSeqOf(Elements(a)', m) /\ IsSeqOf(Elements(a), m + n)
    BY <1>6, <1>7, <2>1
  <2>3. \A j \in i + 1..m : Elements(a)[j + n] = Elements(a)'[j]
    BY <1>9
  <2> HIDE DEF m
  <2> QED
    BY <1>8, <2>1, <2>2, <2>3, InsertedAt
<1> QED
  BY <1>2, <1>5, <1>10, OneChanged

\* Resizing.
LEMMA ResizeKeeps ==
  ASSUME ArrayInv, NEW a \in Arrays, NEW n \in 1..MaxSize, NEW counted \in Nat,
         Resize(a, n, counted)
  PROVE  ArrayInv' /\ (astray' = <<>> => ArrayStep)
<1> DEFINE k == count[a]
           c == IF counted < n THEN counted ELSE n
           buffer == Room(a, n)
<1>1. k \in Nat /\ size[a] \in Nat \ {0} /\ c \in Nat /\ c <= n /\ n \in Nat \ {0}
  BY DEF ArrayInv, ArrayTypeOK
<1>2. /\ astray = <<>> /\ astray' = <<>>
      /\ size' = [size EXCEPT ![a] = n]
      /\ cells' = [cells EXCEPT ![a] = buffer]
      /\ count' = [count EXCEPT ![a] = c]
  BY DEF Resize
<1>3. /\ DOMAIN buffer \in {{}, 0..n - 1}
      /\ DOMAIN buffer = {} => DOMAIN cells[a] = {}
      /\ \A j \in DOMAIN buffer : buffer[j] = IF j \in DOMAIN cells[a] THEN cells[a][j] ELSE Raw
  BY <1>1, RoomKeeps
<1>4. cells'[a] = buffer /\ count'[a] = c
  BY <1>2 DEF ArrayInv, ArrayTypeOK
<1>5. /\ IsSeqOf(Elements(a), k)
      /\ \A j \in 1..k : Elements(a)[j] = IF j - 1 \in DOMAIN cells[a] THEN cells[a][j - 1] ELSE Raw
  BY ElementsAre DEF ArrayInv
<1> HIDE DEF buffer, c, k
<1>6. ArrayInv'
  BY <1>1, <1>2, <1>3, ArrayReplaced
<1>7. /\ IsSeqOf(Elements(a)', c)
      /\ \A j \in 1..c : Elements(a)'[j] = IF j - 1 \in DOMAIN buffer THEN buffer[j - 1] ELSE Raw
  BY <1>1, <1>4, ElementsAfter
<1>8. \A j \in 1..c : j <= k => Elements(a)'[j] = Elements(a)[j]
  <2> SUFFICES ASSUME NEW j \in 1..c, j <= k PROVE Elements(a)'[j] = Elements(a)[j]
    OBVIOUS
  <2>1. j \in 1..k /\ j - 1 \in 0..n - 1
    BY <1>1
  <2> QED
    BY <1>3, <1>5, <1>7, <2>1
<1>9. CASE c <= k
  <2>1. \A j \in 1..c : Elements(a)'[j] = Elements(a)[1 + j - 1]
    <3>1. \A j \in 1..c : 1 + j - 1 = j /\ j <= k
      BY <1>1, <1>9
    <3> QED
      BY <1>8, <3>1
  <2>2. Elements(a)' = SubSeq(Elements(a), 1, c)
    <3>1. c = 1 + c - 1 /\ 1 \in Int /\ c \in Int
      BY <1>1
    <3> QED
      BY ZenonT(30), <1>1, <1>7, <2>1, <3>1, IsPart
  <2>3. 0 \in 0..k - c /\ 0 + c = c /\ 0 + 1 = 1
    BY <1>1, <1>9
  <2>4. \E b \in Arrays : \E i \in 0..count[b] - count'[a] :
          Elements(a)' = SubSeq(Elements(b), i + 1, i + count'[a])
    BY <1>4, <2>2, <2>3 DEF k
  <2> QED
    BY <1>2, <1>6, <2>4, OneChanged
<1>10. CASE c > k
  <2> DEFINE m == c - k
  <2>1. c = k + m /\ m \in Nat /\ k \in 0..k /\ k + 1..k = {}
    BY <1>1, <1>10
  <2>2. \A j \in 1..k : Elements(a)'[j] = Elements(a)[j]
    BY <1>1, <1>8, <1>10
  <2> HIDE DEF m
  <2>3. Inserted(Elements(a), Elements(a)')
    BY <1>1, <1>5, <1>7, <2>1, <2>2, InsertedAt
  <2> QED
    BY <1>2, <1>6, <2>3, OneChanged
<1> QED
  BY <1>1, <1>9, <1>10

\* Assigning a copy.
LEMMA CopyAssignKeeps ==
  ASSUME ArrayInv, NEW a \in Arrays, NEW b \in Arrays, CopyAssign(a, b)
  PROVE  ArrayInv' /\ (astray' = <<>> => ArrayStep)
<1> DEFINE k == count[b]
           n == IF ~Held(a) \/ count[b] > size[a] THEN size[b] ELSE size[a]
           buffer == [j \in 0..n - 1 |-> IF j < k THEN cells[b][j] ELSE Raw]
<1>1. k \in Nat /\ n \in Nat \ {0} /\ k <= n /\ k <= size[b] /\ size[b] \in Nat \ {0}
  BY DEF ArrayInv, ArrayTypeOK, Fitting
<1>2. /\ astray = <<>> /\ astray' = <<>>
      /\ size' = [size EXCEPT ![a] = n]
      /\ cells' = [cells EXCEPT ![a] = buffer]
      /\ count' = [count EXCEPT ![a] = k]
      /\ DOMAIN cells[b] = 0..size[b] - 1
  BY DEF CopyAssign, ArrayInv, Fitting
<1>3. cells'[a] = buffer /\ count'[a] = k /\ DOMAIN buffer = 0..n - 1
  BY <1>2 DEF ArrayInv, ArrayTypeOK
<1>4. \A j \in 0..n - 1 : buffer[j] = IF j < k THEN cells[b][j] ELSE Raw
  OBVIOUS
<1>5. /\ IsSeqOf(Elements(b), k)
      /\ \A j \in 1..k : Elements(b)[j] = IF j - 1 \in DOMAIN cells[b] THEN cells[b][j - 1] ELSE Raw
  BY ElementsAre DEF ArrayInv
<1> HIDE DEF buffer, n, k
<1>6. ArrayInv'
  BY <1>1, <1>2, <1>3, ArrayReplaced
<1>7. /\ IsSeqOf(Elements(a)', k)
      /\ \A j \in 1..k : Elements(a)'[j] = IF j - 1 \in DOMAIN buffer THEN buffer[j - 1] ELSE Raw
  BY <1>1, <1>3, ElementsAfter
<1>8. \A j \in 1..k : Elements(a)'[j] = Elements(b)[j]
  <2> SUFFICES ASSUME NEW j \in 1..k PROVE Elements(a)'[j] = Elements(b)[j]
    OBVIOUS
  <2>1. j - 1 \in 0..n - 1 /\ j - 1 < k /\ j - 1 \in 0..size[b] - 1
    BY <1>1
  <2> QED
    BY <1>2, <1>3, <1>4, <1>5, <1>7, <2>1
<1>9. Elements(a)' = Elements(b)
  BY <1>5, <1>7, <1>8, SameElements
<1> QED
  BY <1>2, <1>6, <1>9, OneChanged

\* Moving an array into another one.
LEMMA MoveAssignKeeps ==
  ASSUME ArrayInv, NEW a \in Arrays, NEW b \in Arrays, MoveAssign(a, b)
  PROVE  ArrayInv' /\ (astray' = <<>> => ArrayStep)
<1>1. /\ astray = <<>> /\ astray' = <<>> /\ a # b
      /\ cells' = [cells EXCEPT ![a] = cells[b], ![b] = Buffer(0)]
      /\ size' = [size EXCEPT ![a] = size[b]]
      /\ count' = [count EXCEPT ![a] = count[b]]
  BY DEF MoveAssign
<1>2. /\ cells'[a] = cells[b] /\ size'[a] = size[b] /\ count'[a] = count[b]
      /\ cells'[b] = Buffer(0)
      /\ \A c \in Arrays \ {a} : size'[c] = size[c] /\ count'[c] = count[c]
      /\ \A c \in Arrays \ {a, b} : cells'[c] = cells[c]
  BY <1>1 DEF ArrayInv, ArrayTypeOK
<1>3. ArrayTypeOK'
  BY <1>1 DEF ArrayInv, ArrayTypeOK
<1>4. DOMAIN Buffer(0) = {}
  BY DEF Buffer
<1>5. Fitting'
  <2> SUFFICES ASSUME NEW c \in Arrays
               PROVE  /\ DOMAIN cells'[c] # {} => DOMAIN cells'[c] = 0..size'[c] - 1
                      /\ count'[c] <= size'[c]
    BY DEF Fitting, Held
  <2>1. \A d \in Arrays : /\ DOMAIN cells[d] # {} => DOMAIN cells[d] = 0..size[d] - 1
                          /\ count[d] <= size[d]
    BY DEF ArrayInv, Fitting, Held
  <2>2. CASE c = a
    BY <1>2, <2>1, <2>2
  <2>3. CASE c = b
    BY <1>1, <1>2, <1>4, <2>1, <2>3
  <2>4. CASE c \notin {a, b}
    BY <1>2, <2>1, <2>4
  <2> QED
    BY <2>2, <2>3, <2>4
<1>6. ArrayInv'
  BY <1>1, <1>3, <1>5 DEF ArrayInv, StrayByOne
<1>7. Elements(a)' = Elements(b)
  BY <1>2 DEF Elements
<1>8. ArrayStep
  BY <1>2, <1>7, ArrayStepOf
<1> QED
  BY <1>6, <1>8

\* Making an array of a part of another one.
LEMMA ConstructKeeps ==
  ASSUME ArrayInv, NEW a \in Arrays, NEW b \in Arrays, NEW i \in Nat, NEW n \in Nat,
         NEW m \in Nat \ {0}, n <= m, Construct(a, b, i, n, m)
  PROVE  ArrayInv' /\ (astray' = <<>> => ArrayStep)
<1> DEFINE k == count[b]
           buffer == [j \in 0..m - 1 |-> IF j < n THEN cells[b][i + j] ELSE Raw]
<1>1. k \in Nat /\ k <= size[b] /\ size[b] \in Nat \ {0} /\ i + n <= k
  BY DEF ArrayInv, ArrayTypeOK, Fitting, Construct
<1>2. /\ astray = <<>> /\ astray' = <<>>
      /\ size' = [size EXCEPT ![a] = m]
      /\ cells' = [cells EXCEPT ![a] = buffer]
      /\ count' = [count EXCEPT ![a] = n]
      /\ DOMAIN cells[b] = 0..size[b] - 1
  BY DEF Construct, ArrayInv, Fitting
<1>3. cells'[a] = buffer /\ count'[a] = n /\ DOMAIN buffer = 0..m - 1
  BY <1>2 DEF ArrayInv, ArrayTypeOK
<1>4. \A j \in 0..m - 1 : buffer[j] = IF j < n THEN cells[b][i + j] ELSE Raw
  OBVIOUS
<1>5. \A j \in 1..k : Elements(b)[j] = IF j - 1 \in DOMAIN cells[b] THEN cells[b][j - 1] ELSE Raw
  BY ElementsAre DEF ArrayInv
<1> HIDE DEF buffer
<1>6. ArrayInv'
  BY <1>1, <1>2, <1>3, ArrayReplaced
<1>7. /\ IsSeqOf(Elements(a)', n)
      /\ \A j \in 1..n : Elements(a)'[j] = IF j - 1 \in DOMAIN buffer THEN buffer[j - 1] ELSE Raw
  BY <1>3, ElementsAfter
<1>8. \A j \in 1..n : Elements(a)'[j] = Elements(b)[i + 1 + j - 1]
  <2> SUFFICES ASSUME NEW j \in 1..n PROVE Elements(a)'[j] = Elements(b)[i + 1 + j - 1]
    OBVIOUS
  <2> HIDE DEF k
  <2>1. /\ j - 1 \in 0..m - 1 /\ j - 1 < n /\ i + j \in 1..k /\ i + j - 1 \in 0..size[b] - 1
        /\ i + (j - 1) = i + j - 1 /\ i + 1 + j - 1 = i + j
    BY <1>1
  <2>2. Elements(b)[i + j] = cells[b][i + j - 1]
    BY <1>2, <1>5, <2>1
  <2>3. Elements(a)'[j] = cells[b][i + (j - 1)]
    BY <1>3, <1>4, <1>7, <2>1
  <2> QED
    BY <2>1, <2>2, <2>3
<1>9. Elements(a)' = SubSeq(Elements(b), i + 1, i + n)
  <2>1. i + n = i + 1 + n - 1 /\ i + 1 \in Int /\ i + n \in Int
    OBVIOUS
  <2> QED
    BY <1>7, <1>8, <2>1, IsPart
<1>10. \E c \in Arrays : \E j \in 0..count[c] - count'[a] :
         Elements(a)' = SubSeq(Elements(c), j + 1, j + count'[a])
  <2>1. i \in 0..k - n
    <3> HIDE DEF k
    <3> QED
      BY <1>1
  <2> QED
    BY <1>3, <1>9, <2>1
<1> QED
  BY <1>2, <1>6, <1>10, OneChanged

\* Each call keeps what the properties of arrays rest on, and changes one array.
LEMMA ArrayNextKeeps ==
  ASSUME ArrayInv, ArrayNext
  PROVE  ArrayInv' /\ ArrayStep
<1>0. astray' # <<>> => ArrayStep
  BY DEF ArrayStep
<1>1. PICK a \in Arrays :
        \/ \E i \in 0..MaxSize, xs \in Some : InsertItems(a, i, xs)
        \/ \E i \in 0..MaxSize, x \in Value : AtOrExtend(a, i, x)
        \/ \E i \in 0..MaxSize, n \in 1..MaxSize : RemoveItems(a, i, n)
        \/ \E n \in 1..MaxSize : Resize(a, n, count[a]) \/ Resize(a, n, n)
        \/ \E b \in Arrays :
             \/ CopyAssign(a, b) \/ MoveAssign(a, b) \/ Copy(a, b)
             \/ \E i, n \in 0..MaxSize : Slice(a, b, i, n)
  BY Zenon DEF ArrayNext
<1>2. ASSUME NEW i \in 0..MaxSize, NEW xs \in Some, InsertItems(a, i, xs)
      PROVE  ArrayInv' /\ ArrayStep
  <2>1. i \in Nat
    BY ArrayAssumption
  <2> QED
    BY <1>0, <1>2, <2>1, InsertKeeps
<1>3. ASSUME NEW i \in 0..MaxSize, NEW x \in Value, AtOrExtend(a, i, x)
      PROVE  ArrayInv' /\ ArrayStep
  <2>1. i \in Nat
    BY ArrayAssumption
  <2> QED
    BY <1>0, <1>3, <2>1, AtOrExtendKeeps
<1>4. ASSUME NEW i \in 0..MaxSize, NEW n \in 1..MaxSize, RemoveItems(a, i, n)
      PROVE  ArrayInv' /\ ArrayStep
  <2>1. i \in Nat /\ n \in Nat
    BY ArrayAssumption
  <2> QED
    BY <1>0, <1>4, <2>1, RemoveKeeps
<1>5. ASSUME NEW n \in 1..MaxSize, Resize(a, n, count[a]) \/ Resize(a, n, n)
      PROVE  ArrayInv' /\ ArrayStep
  <2>1. n \in Nat /\ count[a] \in Nat
    BY ArrayAssumption DEF ArrayInv, ArrayTypeOK
  <2> QED
    BY <1>0, <1>5, <2>1, ResizeKeeps
<1>6. ASSUME NEW b \in Arrays, CopyAssign(a, b) \/ MoveAssign(a, b)
      PROVE  ArrayInv' /\ ArrayStep
  BY <1>0, <1>6, CopyAssignKeeps, MoveAssignKeeps
<1>7. ASSUME NEW b \in Arrays, Copy(a, b)
      PROVE  ArrayInv' /\ ArrayStep
  <2>1. count[b] \in Nat /\ size[b] \in Nat \ {0} /\ count[b] <= size[b] /\ 0 \in Nat
    BY DEF ArrayInv, ArrayTypeOK, Fitting
  <2>2. Construct(a, b, 0, count[b], size[b])
    BY <1>7 DEF Copy
  <2> QED
    BY <1>0, <2>1, <2>2, ConstructKeeps
<1>8. ASSUME NEW b \in Arrays, NEW i \in 0..MaxSize, NEW n \in 0..MaxSize, Slice(a, b, i, n)
      PROVE  ArrayInv' /\ ArrayStep
  <2> DEFINE m == IF n = 0 THEN 2 ELSE n
  <2>1. i \in Nat /\ n \in Nat /\ m \in Nat \ {0} /\ n <= m
    BY ArrayAssumption
  <2>2. Construct(a, b, i, n, m)
    BY <1>8 DEF Slice
  <2> HIDE DEF m
  <2> QED
    BY <1>0, <2>1, <2>2, ConstructKeeps
<1> QED
  BY Zenon, <1>1, <1>2, <1>3, <1>4, <1>5, <1>6, <1>7, <1>8

\* Nothing is written outside a buffer but right after it, no more is counted than
\* fits, and each call keeps the items of the arrays and their order
\* (array.h).
THEOREM ArraysKeepOrder == ArraySpec => [](Fitting /\ StrayByOne) /\ ArraySteps
<1>1. ASSUME ArrayInv, [ArrayNext]_arrayVars
      PROVE  ArrayInv'
  <2>1. CASE UNCHANGED arrayVars
    BY <1>1, <2>1 DEF arrayVars, ArrayInv, ArrayTypeOK, Fitting, StrayByOne, Held
  <2> QED
    BY <1>1, <2>1, ArrayNextKeeps
<1>2. ArrayInv /\ [ArrayNext]_arrayVars => [ArrayNext => ArrayStep]_arrayVars
  BY ArrayNextKeeps
<1>3. ArrayInv => Fitting /\ StrayByOne
  BY DEF ArrayInv
<1> QED
  BY <1>1, <1>2, <1>3, ArraysStart, PTL DEF ArraySpec, ArraySteps

----------------------------------------------------------------------------
(***************************************************************************)
(* Strings, which are arrays of characters: a string that was not assigned *)
(* to ends where it says, for the functions of C too.                      *)
(***************************************************************************)

\* Characters, none of which is zero.
IsText(s) == \E S : s \in Seq(S) /\ Zero \notin S

\* What the properties of strings rest on.
StringInv ==
  /\ ArrayInv
  /\ \A a \in Arrays : /\ Held(a)
                       /\ \A j \in 0..count[a] - 1 : cells[a][j] # Zero
  /\ astray = <<>> =>
       \A a \in Arrays \ loose : count[a] < size[a] /\ cells[a][count[a]] = Zero

\* The buffers of strings have as many characters as their sizes say.
LEMMA StringBuffers ==
  ASSUME StringInv, NEW a \in Arrays
  PROVE  /\ count[a] \in Nat /\ size[a] \in Nat \ {0} /\ count[a] <= size[a]
         /\ DOMAIN cells[a] = 0..size[a] - 1
         /\ \A j \in 0..count[a] - 1 : cells[a][j] # Zero
         /\ \A j \in 1..count[a] : Elements(a)[j] = cells[a][j - 1]
         /\ IsSeqOf(Elements(a), count[a])
<1>1. /\ count[a] \in Nat /\ size[a] \in Nat \ {0} /\ count[a] <= size[a]
      /\ DOMAIN cells[a] = 0..size[a] - 1
      /\ \A j \in 0..count[a] - 1 : cells[a][j] # Zero
  BY DEF StringInv, ArrayInv, ArrayTypeOK, Fitting
<1>2. /\ \A j \in 1..count[a] : Elements(a)[j] = cells[a][j - 1]
      /\ IsSeqOf(Elements(a), count[a])
  <2>1. \A j \in 1..count[a] : j - 1 \in DOMAIN cells[a]
    BY <1>1
  <2> QED
    BY <2>1, ElementsAre DEF StringInv, ArrayInv
<1> QED
  BY <1>1, <1>2

\* One string gets another buffer and count.
LEMMA StringReplaced ==
  ASSUME StringInv, NEW a \in Arrays, NEW buffer, NEW n \in Nat \ {0}, NEW c \in Nat,
         astray = <<>>,
         cells' = [cells EXCEPT ![a] = buffer],
         size' = [size EXCEPT ![a] = n],
         count' = [count EXCEPT ![a] = c],
         DOMAIN buffer = 0..n - 1,
         c <= n,
         \A j \in 0..c - 1 : buffer[j] # Zero,
         astray' = <<>> \/ astray' = <<a, n>>,
         \A b \in Arrays \ {a} : b \notin loose' => b \notin loose,
         astray' = <<>> /\ a \notin loose' => c < n /\ buffer[c] = Zero
  PROVE  StringInv'
<1>1. ArrayInv'
  BY ArrayReplaced DEF StringInv
<1>2. /\ cells'[a] = buffer /\ size'[a] = n /\ count'[a] = c
      /\ \A b \in Arrays \ {a} : cells'[b] = cells[b] /\ size'[b] = size[b] /\ count'[b] = count[b]
  BY DEF StringInv, ArrayInv, ArrayTypeOK
<1>3. 0 \in 0..n - 1
  OBVIOUS
<1>4. ASSUME NEW b \in Arrays
      PROVE  /\ DOMAIN cells'[b] # {}
             /\ \A j \in 0..count'[b] - 1 : cells'[b][j] # Zero
             /\ astray' = <<>> /\ b \notin loose' => count'[b] < size'[b] /\ cells'[b][count'[b]] = Zero
  <2>1. CASE b = a
    BY <1>2, <1>3, <2>1
  <2>2. CASE b # a
    BY <1>2, <2>2 DEF StringInv, Held
  <2> QED
    BY <2>1, <2>2
<1> QED
  BY <1>1, <1>4 DEF StringInv, Held

\* The same, when it becomes that.
LEMMA BecomeKeeps ==
  ASSUME StringInv, NEW a \in Arrays, NEW buffer, NEW n \in Nat \ {0}, NEW c \in Nat,
         Become(a, buffer, c),
         DOMAIN buffer = 0..n - 1,
         c <= n,
         \A j \in 0..c - 1 : buffer[j] # Zero,
         \A b \in Arrays \ {a} : b \notin loose' => b \notin loose,
         a \notin loose' => c < n /\ buffer[c] = Zero
  PROVE  StringInv'
<1>1. Cardinality(DOMAIN buffer) = n
  <2>1. 0 \in Int /\ n - 1 \in Int
    OBVIOUS
  <2>2. Cardinality(0..n - 1) = IF 0 > n - 1 THEN 0 ELSE (n - 1) - 0 + 1
    BY <2>1, FS_Interval
  <2> QED
    BY <2>2
<1>2. /\ astray = <<>> /\ astray' = <<>>
      /\ cells' = [cells EXCEPT ![a] = buffer]
      /\ size' = [size EXCEPT ![a] = n]
      /\ count' = [count EXCEPT ![a] = c]
  BY <1>1 DEF Become
<1> QED
  BY <1>2, StringReplaced

----------------------------------------------------------------------------
\* What strings hold is text, and so are parts of them and two of them together.
LEMMA ElementsText ==
  ASSUME StringInv, NEW a \in Arrays
  PROVE  IsText(Elements(a)) /\ Len(Elements(a)) = count[a]
<1> DEFINE S == {Elements(a)[j] : j \in 1..count[a]}
<1>1. /\ count[a] \in Nat /\ IsSeqOf(Elements(a), count[a])
      /\ \A j \in 1..count[a] : j - 1 \in 0..count[a] - 1 /\ Elements(a)[j] = cells[a][j - 1]
      /\ \A j \in 0..count[a] - 1 : cells[a][j] # Zero
  BY StringBuffers
<1>2. Elements(a) \in Seq(S) /\ Len(Elements(a)) = count[a]
  BY <1>1, SeqOfLen
<1>3. Zero \notin S
  BY <1>1
<1> QED
  BY <1>2, <1>3 DEF IsText

\* The texts that strings are made of, and the ones two make together, hold no zero.
LEMMA SomeText ==
  ASSUME NEW s \in Some \cup {<<>>}
  PROVE  IsText(s)
<1>1. s \in Seq(Value)
  <2>1. CASE s = <<>>
    BY <2>1, EmptySeq
  <2>2. CASE \E x \in Value : s = <<x>>
    BY <2>2
  <2>3. CASE s \in Value \X Value
    <3>1. PICK x \in Value, y \in Value : s = <<x, y>>
      BY <2>3
    <3> QED
      BY <3>1
  <2> QED
    BY <2>1, <2>2, <2>3 DEF Some
<1> QED
  BY <1>1, CharAssumption DEF IsText

\* And two texts make one.
LEMMA ConcatText ==
  ASSUME NEW s, NEW t, IsText(s), IsText(t)
  PROVE  IsText(s \o t)
<1>1. PICK S : s \in Seq(S) /\ Zero \notin S
  BY DEF IsText
<1>2. PICK T : t \in Seq(T) /\ Zero \notin T
  BY DEF IsText
<1>3. s \in Seq(S \cup T) /\ t \in Seq(S \cup T)
  BY <1>1, <1>2, SeqMonotonic
<1>4. s \o t \in Seq(S \cup T)
  BY <1>3, ConcatProperties
<1> QED
  BY <1>1, <1>2, <1>4 DEF IsText

\* The characters of a text.
LEMMA TextIs ==
  ASSUME NEW s, IsText(s)
  PROVE  Len(s) \in Nat /\ \A j \in 1..Len(s) : s[j] # Zero
<1>1. PICK S : s \in Seq(S) /\ Zero \notin S
  BY DEF IsText
<1> QED
  BY <1>1, LenProperties, ElementOfSeq

\* What a function of C finds in a string from its i-th character on, when that is
\* not after its end: text; and from the first one on all the string holds.
LEMMA AsCText ==
  ASSUME StringInv, NEW a \in Arrays \ loose, astray = <<>>, NEW i \in 0..count[a]
  PROVE  /\ IsText(AsC(a, i))
         /\ i = 0 => AsC(a, i) = Elements(a)
<1> DEFINE ends == {j \in DOMAIN cells[a] : j >= i /\ cells[a][j] = Zero}
           end == CHOOSE j \in ends : \A k \in ends : j <= k
           S == {cells[a][j] : j \in i..end - 1}
<1>1. /\ count[a] \in Nat /\ size[a] \in Nat \ {0} /\ count[a] <= size[a]
      /\ DOMAIN cells[a] = 0..size[a] - 1
      /\ \A j \in 0..count[a] - 1 : cells[a][j] # Zero
      /\ \A j \in 1..count[a] : Elements(a)[j] = cells[a][j - 1]
      /\ IsSeqOf(Elements(a), count[a])
  BY StringBuffers
<1>2. count[a] < size[a] /\ cells[a][count[a]] = Zero
  BY DEF StringInv
<1>3. ends \in SUBSET Nat /\ count[a] \in ends
  BY <1>1, <1>2
<1>4. end \in ends /\ \A k \in ends : end <= k
  <2> HIDE DEF ends
  <2>1. \E j \in ends : \A k \in ends : j <= k
    BY <1>3, LeastOf
  <2> QED
    BY <2>1
<1>5. AsC(a, i) = [j \in 1..end - i |-> cells[a][i + j - 1]]
  BY DEF AsC
<1>6. end = count[a]
  <2>1. end \in 0..size[a] - 1 /\ cells[a][end] = Zero /\ end <= count[a]
    BY <1>1, <1>3, <1>4
  <2> HIDE DEF end, ends
  <2>2. ~(end \in 0..count[a] - 1)
    BY <1>1, <2>1
  <2> QED
    BY <1>1, <2>1, <2>2
<1> HIDE DEF end, ends
<1>7. Zero \notin S
  BY <1>1, <1>6
<1>8. \A j \in 1..end - i : cells[a][i + j - 1] \in S
  <2> SUFFICES ASSUME NEW j \in 1..end - i PROVE cells[a][i + j - 1] \in S
    OBVIOUS
  <2>1. i + j - 1 \in i..end - 1
    BY <1>1, <1>6
  <2> HIDE DEF end
  <2> QED
    BY <2>1
<1>9. AsC(a, i) \in Seq(S)
  <2> HIDE DEF S
  <2>1. end - i \in Nat
    BY <1>1, <1>6
  <2>2. AsC(a, i) \in [1..end - i -> S]
    BY <1>5, <1>8
  <2> QED
    BY <2>1, <2>2, SeqDef
<1>10. ASSUME i = 0
       PROVE  AsC(a, i) = Elements(a)
  <2>1. end - i = count[a] /\ \A j \in 1..count[a] : i + j - 1 = j - 1
    BY <1>1, <1>6, <1>10
  <2>2. AsC(a, i) = [j \in 1..count[a] |-> cells[a][i + j - 1]]
    BY <1>5, <2>1
  <2>3. \A j \in 1..count[a] : AsC(a, i)[j] = Elements(a)[j]
    BY <1>1, <2>1, <2>2
  <2>4. IsSeqOf(AsC(a, i), count[a])
    BY <2>2 DEF IsSeqOf
  <2> QED
    BY <1>1, <2>3, <2>4, SameElements
<1> QED
  BY <1>7, <1>9, <1>10 DEF IsText

----------------------------------------------------------------------------
\* Making a string of text.
LEMMA MakeKeeps ==
  ASSUME StringInv, NEW a \in Arrays, NEW s, IsText(s), Make(a, s)
  PROVE  StringInv'
<1> DEFINE n == Len(s)
           buffer == Written(n + 1, s)
<1>1. n \in Nat /\ n + 1 \in Nat \ {0} /\ n <= n + 1 /\ n < n + 1 /\ n + 1 - 1 = n
  BY TextIs
<1>2. \A j \in 1..n : s[j] # Zero
  BY TextIs
<1>3. DOMAIN buffer = 0..n + 1 - 1
  BY DEF Written
<1>4. buffer[n] = Zero
  <2>1. n \in 0..n + 1 - 1 /\ ~(n < n)
    BY <1>1
  <2> QED
    BY <2>1 DEF Written
<1>5. \A j \in 0..n - 1 : buffer[j] # Zero
  <2> SUFFICES ASSUME NEW j \in 0..n - 1 PROVE buffer[j] # Zero
    OBVIOUS
  <2>1. j \in 0..n + 1 - 1 /\ j < n /\ j + 1 \in 1..n
    BY <1>1
  <2>2. buffer[j] = s[j + 1]
    BY <2>1 DEF Written
  <2> QED
    BY <1>2, <2>1, <2>2
<1>6. Become(a, buffer, n) /\ loose' = loose \ {a}
  BY DEF Make
<1> DEFINE m == n + 1
<1>7. m \in Nat \ {0} /\ n <= m /\ n < m /\ DOMAIN buffer = 0..m - 1
  BY <1>1, <1>3
<1> HIDE DEF buffer, n, m
<1> QED
  BY <1>1, <1>4, <1>5, <1>6, <1>7, BecomeKeeps

\* Making one of another string, with what is after its last character.
LEMMA CopyConstructKeeps ==
  ASSUME StringInv, NEW a \in Arrays, NEW b \in Arrays, CopyConstruct(a, b)
  PROVE  StringInv'
<1> DEFINE n == count[b]
           buffer == [i \in 0..n |-> IF i \in DOMAIN cells[b] THEN cells[b][i] ELSE Raw]
<1>1. /\ n \in Nat /\ size[b] \in Nat \ {0} /\ n <= size[b]
      /\ DOMAIN cells[b] = 0..size[b] - 1
      /\ \A j \in 0..n - 1 : cells[b][j] # Zero
  BY StringBuffers
<1>2. DOMAIN buffer = 0..n + 1 - 1 /\ n + 1 \in Nat \ {0} /\ n <= n + 1 /\ n < n + 1
  BY <1>1
<1>3. \A j \in 0..n - 1 : buffer[j] # Zero
  <2> SUFFICES ASSUME NEW j \in 0..n - 1 PROVE buffer[j] # Zero
    OBVIOUS
  <2>1. j \in 0..n /\ j \in DOMAIN cells[b]
    BY <1>1
  <2> QED
    BY <1>1, <2>1
<1>4. ASSUME b \notin loose
      PROVE  buffer[n] = Zero
  <2>1. count[b] < size[b] /\ cells[b][count[b]] = Zero
    BY <1>4 DEF StringInv, CopyConstruct, Become
  <2>2. n \in 0..n /\ n \in DOMAIN cells[b]
    BY <1>1, <2>1
  <2> QED
    BY <2>1, <2>2
<1>5. Become(a, buffer, n) /\ loose' = IF b \in loose THEN loose \cup {a} ELSE loose \ {a}
  BY DEF CopyConstruct
<1> HIDE DEF buffer, n
<1>6. a \notin loose' => n < n + 1 /\ buffer[n] = Zero
  BY <1>2, <1>4, <1>5
<1>7. \A c \in Arrays \ {a} : c \notin loose' => c \notin loose
  BY <1>5
<1> DEFINE m == n + 1
<1>8. m \in Nat \ {0} /\ n <= m /\ n < m /\ DOMAIN buffer = 0..m - 1
  BY <1>1, <1>2
<1>9. a \notin loose' => n < m /\ buffer[n] = Zero
  BY <1>6
<1> HIDE DEF m
<1> QED
  BY <1>1, <1>3, <1>5, <1>7, <1>8, <1>9, BecomeKeeps

\* Appending text, with room for it, and for a zero or not.
LEMMA ExtendKeeps ==
  ASSUME StringInv, NEW a \in Arrays, NEW s, IsText(s), NEW room \in Nat,
         room >= count[a] + Len(s), Extend(a, s, room)
  PROVE  StringInv'
<1> DEFINE k == count[a]
           N == Doubled(size[a], room)
           old == Room(a, N)
           end == k + Len(s)
           buffer == [i \in DOMAIN old |-> IF i = end THEN Zero
                                           ELSE IF i \in k..end - 1 THEN s[i - k + 1]
                                           ELSE old[i]]
<1>1. /\ k \in Nat /\ size[a] \in Nat \ {0} /\ k <= size[a]
      /\ DOMAIN cells[a] = 0..size[a] - 1
      /\ \A j \in 0..k - 1 : cells[a][j] # Zero
  BY StringBuffers
<1>2. Len(s) \in Nat /\ \A j \in 1..Len(s) : s[j] # Zero
  BY TextIs
<1>3. N \in Nat \ {0} /\ size[a] <= N /\ room <= N
  <2>1. N \in Nat /\ size[a] <= N /\ room <= N
    BY <1>1, DoubledEnough
  <2> QED
    BY <1>1, <2>1
<1>4. /\ DOMAIN old = 0..N - 1
      /\ \A j \in DOMAIN old : old[j] = IF j \in DOMAIN cells[a] THEN cells[a][j] ELSE Raw
  <2>1. Held(a)
    BY DEF StringInv
  <2> HIDE DEF N
  <2> QED
    BY <1>3, <2>1, RoomKeeps DEF StringInv
<1>5. /\ astray = <<>>
      /\ size' = [size EXCEPT ![a] = N]
      /\ count' = [count EXCEPT ![a] = end]
      /\ cells' = [cells EXCEPT ![a] = buffer]
      /\ astray' = IF end \in DOMAIN old THEN <<>> ELSE <<a, end>>
      /\ loose' = loose \ {a}
  BY DEF Extend
<1> HIDE DEF N, old
<1>6. DOMAIN buffer = 0..N - 1 /\ \A i \in 0..N - 1 :
        buffer[i] = IF i = end THEN Zero
                    ELSE IF i \in k..end - 1 THEN s[i - k + 1] ELSE old[i]
  BY <1>4
<1>7. end \in Nat /\ end <= N /\ k <= end /\ end = k + Len(s)
  <2> HIDE DEF k
  <2>1. room >= k + Len(s)
    BY DEF k
  <2> QED
    BY <1>1, <1>2, <1>3, <2>1
<1> HIDE DEF buffer, end, k
<1>8. \A j \in 0..end - 1 : buffer[j] # Zero
  <2> SUFFICES ASSUME NEW j \in 0..end - 1 PROVE buffer[j] # Zero
    OBVIOUS
  <2>1. j \in 0..N - 1 /\ j # end
    BY <1>3, <1>7
  <2>2. CASE j < k
    <3>1. j \in 0..k - 1 /\ j \notin k..end - 1 /\ j \in DOMAIN cells[a]
      BY <1>1, <1>7, <2>2
    <3>2. buffer[j] = cells[a][j]
      BY <1>4, <1>6, <2>1, <3>1
    <3> QED
      BY <1>1, <3>1, <3>2
  <2>3. CASE j >= k
    <3>1. j \in k..end - 1 /\ j - k + 1 \in 1..Len(s)
      BY <1>1, <1>2, <1>7, <2>3
    <3>2. buffer[j] = s[j - k + 1]
      BY <1>6, <2>1, <3>1
    <3> QED
      BY <1>2, <3>1, <3>2
  <2> QED
    BY <1>1, <2>2, <2>3
<1>9. astray' = <<>> \/ astray' = <<a, N>>
  <2>1. end \in 0..N - 1 \/ end = N
    BY <1>3, <1>7
  <2> QED
    BY <1>4, <1>5, <2>1
<1>10. astray' = <<>> => end < N /\ buffer[end] = Zero
  <2>1. <<a, end>> # <<>>
    OBVIOUS
  <2>2. astray' = <<>> => end \in 0..N - 1
    BY <1>4, <1>5, <2>1
  <2> QED
    BY <1>3, <1>6, <1>7, <2>2
<1> QED
  BY <1>3, <1>5, <1>6, <1>7, <1>8, <1>9, <1>10, StringReplaced

\* The default constructor, createEmpty and the assignment of arrays.
LEMMA DefaultKeeps ==
  ASSUME StringInv, NEW a \in Arrays, DefaultConstruct(a)
  PROVE  StringInv'
<1> DEFINE buffer == Buffer(2)
<1>1. DOMAIN buffer = 0..2 - 1 /\ \A j \in 0..0 - 1 : buffer[j] # Zero
  BY DEF Buffer
<1>2. Become(a, buffer, 0) /\ loose' = loose \cup {a} /\ 0 \in Nat /\ 2 \in Nat \ {0} /\ 0 <= 2
  BY DEF DefaultConstruct
<1>3. /\ a \in loose'
      /\ \A b \in Arrays \ {a} : b \notin loose' => b \notin loose
  BY <1>2
<1> HIDE DEF buffer
<1> QED
  BY <1>1, <1>2, <1>3, BecomeKeeps

\* createEmpty leaves every string with an end.
LEMMA CreateEmptyKeeps ==
  ASSUME StringInv, NEW a \in Arrays, NEW n \in Nat, CreateEmpty(a, n)
  PROVE  StringInv'
<1> DEFINE buffer == [Buffer(n + 1) EXCEPT ![n] = Zero]
           m == n + 1
<1>1. /\ DOMAIN buffer = 0..m - 1 /\ m \in Nat \ {0} /\ n <= m /\ n < m
      /\ n \in 0..m - 1 /\ \A j \in 0..n - 1 : j \in 0..m - 1 /\ j # n
  BY DEF Buffer
<1>2. \A j \in 0..m - 1 : buffer[j] = IF j = n THEN Zero ELSE Raw
  BY DEF Buffer
<1>3. Become(a, buffer, n) /\ loose' = loose \ {a}
  BY DEF CreateEmpty
<1> HIDE DEF buffer, m
<1>4. buffer[n] = Zero /\ \A j \in 0..n - 1 : buffer[j] # Zero
  BY <1>1, <1>2, CharAssumption
<1>5. \A b \in Arrays \ {a} : b \notin loose' => b \notin loose
  BY <1>3
<1> QED
  BY <1>1, <1>3, <1>4, <1>5, BecomeKeeps

\* operator= leaves one without, which is then counted among those.
LEMMA AssignKeeps ==
  ASSUME StringInv, NEW a \in Arrays, NEW b \in Arrays, Assign(a, b)
  PROVE  StringInv'
<1> DEFINE k == count[b]
           n == IF ~Held(a) \/ count[b] > size[a] THEN size[b] ELSE size[a]
           buffer == [j \in 0..n - 1 |-> IF j < k THEN cells[b][j] ELSE Raw]
<1>1. /\ k \in Nat /\ size[b] \in Nat \ {0} /\ k <= size[b]
      /\ \A j \in 0..k - 1 : cells[b][j] # Zero
  BY StringBuffers
<1>2. n \in Nat \ {0} /\ k <= n
  <2>1. size[a] \in Nat \ {0}
    BY StringBuffers
  <2> QED
    BY <1>1, <2>1
<1>3. /\ astray = <<>> /\ astray' = <<>>
      /\ size' = [size EXCEPT ![a] = n]
      /\ cells' = [cells EXCEPT ![a] = buffer]
      /\ count' = [count EXCEPT ![a] = k]
      /\ loose' = loose \cup {a}
  BY DEF Assign, CopyAssign
<1>4. /\ DOMAIN buffer = 0..n - 1
      /\ \A j \in 0..n - 1 : buffer[j] = IF j < k THEN cells[b][j] ELSE Raw
  OBVIOUS
<1> HIDE DEF buffer, n, k
<1>5. \A j \in 0..k - 1 : buffer[j] # Zero
  <2>1. \A j \in 0..k - 1 : j \in 0..n - 1 /\ j < k
    BY <1>1, <1>2
  <2> QED
    BY <1>1, <1>4, <2>1
<1> QED
  BY <1>1, <1>2, <1>3, <1>4, <1>5, StringReplaced

\* Two strings together, and a part of one.
LEMMA ConcatKeeps ==
  ASSUME StringInv, NEW a \in Arrays, NEW b \in Arrays, NEW c \in Arrays, Concat(a, b, c)
  PROVE  StringInv'
<1>1. IsText(Elements(b) \o Elements(c))
  BY ElementsText, ConcatText
<1> QED
  BY <1>1, MakeKeeps DEF Concat

\* substring leaves every string with an end, also where it reads one as C does.
LEMMA SubstringKeeps ==
  ASSUME StringInv, NEW a \in Arrays, NEW b \in Arrays, NEW i \in Nat, NEW j \in Nat,
         Substring(a, b, i, j)
  PROVE  StringInv'
<1>1. /\ i <= j /\ j <= count[b] /\ count[b] \in Nat /\ astray = <<>>
      /\ i = j => b \notin loose
  BY StringBuffers DEF Substring, Make, Become
<1>2. CASE i = j
  <2>1. i \in 0..count[b]
    BY <1>1
  <2>2. IsText(AsC(b, i)) /\ Make(a, AsC(b, i))
    BY <1>1, <1>2, <2>1, AsCText DEF Substring
  <2> QED
    BY <2>2, MakeKeeps
<1>3. CASE i # j
  <2>1. PICK S : Elements(b) \in Seq(S) /\ Zero \notin S
    BY ElementsText DEF IsText
  <2>2. \A k \in i + 1..j : Elements(b)[k] \in S
    <3>1. Len(Elements(b)) = count[b] /\ \A k \in i + 1..j : k \in 1..count[b]
      BY <1>1, ElementsText
    <3> QED
      BY <2>1, <3>1, ElementOfSeq
  <2>3. i + 1 \in Int /\ j \in Int
    OBVIOUS
  <2>4. SubSeq(Elements(b), i + 1, j) \in Seq(S)
    BY <2>2, <2>3, SubSeqProperties
  <2>5. IsText(SubSeq(Elements(b), i + 1, j)) /\ Make(a, SubSeq(Elements(b), i + 1, j))
    BY <1>3, <2>1, <2>4 DEF IsText, Substring
  <2> QED
    BY <2>5, MakeKeeps
<1> QED
  BY <1>2, <1>3

\* Appending.
LEMMA AppendTextKeeps ==
  ASSUME StringInv, NEW a \in Arrays, NEW s, IsText(s), AppendText(a, s)
  PROVE  StringInv'
<1>1. count[a] + Len(s) \in Nat /\ count[a] + Len(s) >= count[a] + Len(s)
  BY StringBuffers, TextIs
<1> QED
  BY <1>1, ExtendKeeps DEF AppendText

\* operator+=(ansichar) leaves every string with an end.
LEMMA AppendCharKeeps ==
  ASSUME StringInv, NEW a \in Arrays, NEW c \in Value, AppendChar(a, c)
  PROVE  StringInv'
<1>1. IsText(<<c>>)
  BY CharAssumption DEF IsText
<1>2. count[a] + 2 \in Nat /\ count[a] + 2 >= count[a] + Len(<<c>>)
  <2>1. Len(<<c>>) = 1 /\ count[a] \in Nat
    BY StringBuffers
  <2> QED
    BY <2>1
<1> QED
  BY <1>1, <1>2, ExtendKeeps DEF AppendChar

----------------------------------------------------------------------------
\* Each call keeps what the properties of strings rest on.
LEMMA StringNextKeeps ==
  ASSUME StringInv, StringNext
  PROVE  StringInv'
<1>1. PICK a \in Arrays, b \in Arrays :
        \/ DefaultConstruct(a) \/ CopyConstruct(a, b) \/ Assign(a, b)
        \/ \E c \in Value : AppendChar(a, c)
        \/ a # b /\ AppendText(a, Elements(b))
        \/ \E n \in 0..MaxSize - 1 : CreateEmpty(a, n)
        \/ \E s \in Some \cup {<<>>} : Make(a, s) \/ AppendText(a, s)
        \/ \E c \in Arrays : Concat(a, b, c)
        \/ \E i, j \in 0..MaxSize : Substring(a, b, i, j)
  BY Zenon DEF StringNext
<1>2. CASE DefaultConstruct(a) \/ CopyConstruct(a, b) \/ Assign(a, b)
  BY <1>2, DefaultKeeps, CopyConstructKeeps, AssignKeeps
<1>3. CASE \E c \in Value : AppendChar(a, c)
  BY <1>3, AppendCharKeeps
<1>4. CASE AppendText(a, Elements(b))
  BY <1>4, ElementsText, AppendTextKeeps
<1>5. ASSUME NEW n \in 0..MaxSize - 1, CreateEmpty(a, n)
      PROVE  StringInv'
  <2>1. n \in Nat
    BY ArrayAssumption
  <2> QED
    BY <1>5, <2>1, CreateEmptyKeeps
<1>6. CASE \E s \in Some \cup {<<>>} : Make(a, s) \/ AppendText(a, s)
  BY <1>6, SomeText, MakeKeeps, AppendTextKeeps
<1>7. CASE \E c \in Arrays : Concat(a, b, c)
  BY <1>7, ConcatKeeps
<1>8. ASSUME NEW i \in 0..MaxSize, NEW j \in 0..MaxSize, Substring(a, b, i, j)
      PROVE  StringInv'
  <2>1. i \in Nat /\ j \in Nat
    BY ArrayAssumption
  <2> QED
    BY <1>8, <2>1, SubstringKeeps
<1> QED
  BY Zenon, <1>1, <1>2, <1>3, <1>4, <1>5, <1>6, <1>7, <1>8

\* A string is written within its buffer or right after it, and ends where it says
\* for the functions of C too, unless it was only made by default or assigned to
\* since (string.h).
THEOREM StringsSound == StringSpec => []BuffersSound
<1>1. StringInit => StringInv
  <2> SUFFICES ASSUME StringInit PROVE StringInv
    OBVIOUS
  <2>1. ArrayInv /\ loose = Arrays
    BY ArraysStart DEF StringInit
  <2>2. \A a \in Arrays : Held(a) /\ \A j \in 0..count[a] - 1 : cells[a][j] # Zero
    <3> SUFFICES ASSUME NEW a \in Arrays
                 PROVE  DOMAIN cells[a] # {} /\ 0..count[a] - 1 = {}
      BY DEF Held
    <3>1. cells[a] = Buffer(2) /\ count[a] = 0
      BY DEF StringInit, ArrayInit
    <3>2. DOMAIN cells[a] = 0..1 /\ 0 \in 0..1
      BY <3>1 DEF Buffer
    <3> QED
      BY <3>1, <3>2
  <2> QED
    BY <2>1, <2>2 DEF StringInv
<1>2. ASSUME StringInv, [StringNext]_stringVars
      PROVE  StringInv'
  <2>1. CASE UNCHANGED stringVars
    BY <1>2, <2>1 DEF stringVars, arrayVars, StringInv, ArrayInv, ArrayTypeOK, Fitting,
                      StrayByOne, Held
  <2> QED
    BY <1>2, <2>1, StringNextKeeps
<1>3. ASSUME StringInv
      PROVE  BuffersSound
  <2>1. ASSUME astray = <<>>, NEW a \in Arrays \ loose
        PROVE  count[a] \in DOMAIN cells[a] /\ AsC(a, 0) = Elements(a)
    <3>1. /\ count[a] \in Nat /\ size[a] \in Nat \ {0} /\ DOMAIN cells[a] = 0..size[a] - 1
          /\ count[a] < size[a] /\ 0 \in 0..count[a]
      BY <1>3, <2>1, StringBuffers DEF StringInv
    <3> QED
      BY <1>3, <2>1, <3>1, AsCText
  <2> QED
    BY <1>3, <2>1 DEF BuffersSound, StringInv, ArrayInv, StringsEnd
<1> QED
  BY <1>1, <1>2, <1>3, PTL DEF StringSpec

----------------------------------------------------------------------------
(***************************************************************************)
(* Sorting, of ranges of any length.                                       *)
(***************************************************************************)

\* The elements from one position up to another.
Between(s, lo, hi) == {s[k] : k \in lo..hi}

\* A part of a range has its elements at other positions, and the rest is as it was.
Rearranged(s, t, lo, hi) ==
  /\ Between(t, lo, hi) = Between(s, lo, hi)
  /\ \A k \in DOMAIN s : k \notin lo..hi => t[k] = s[k]

\* A part of a range is in order.
OrderedIn(s, lo, hi) == \A i, j \in lo..hi : i < j => ~Precedes(s[j], s[i])

\* Elements have whole numbers for keys.
Keyed(E) == \A e \in E : e[1] \in Int

\* Whatever is rearranged twice is rearranged.
LEMMA RearrangedTwice ==
  ASSUME NEW s, NEW t, NEW u, NEW lo, NEW hi, DOMAIN t = DOMAIN s,
         Rearranged(s, t, lo, hi), Rearranged(t, u, lo, hi)
  PROVE  Rearranged(s, u, lo, hi)
  BY DEF Rearranged

\* A part of a range is rearranged if a part of it is.
LEMMA RearrangedWider ==
  ASSUME NEW N \in Nat, NEW E, NEW s \in [1..N -> E], NEW t,
         NEW lo \in Int, NEW hi \in Int, NEW l \in Int, NEW h \in Int,
         lo <= l, h <= hi, 1 <= lo, hi <= N,
         Rearranged(s, t, l, h)
  PROVE  Rearranged(s, t, lo, hi)
<1>1. \A k \in DOMAIN s : k \notin l..h => t[k] = s[k]
  BY DEF Rearranged
<1>2. Between(t, l, h) = Between(s, l, h)
  BY DEF Rearranged
<1>3. ASSUME NEW e
      PROVE  e \in Between(t, lo, hi) <=> e \in Between(s, lo, hi)
  <2>1. (\E k \in l..h : t[k] = e) <=> (\E k \in l..h : s[k] = e)
    BY <1>2 DEF Between
  <2>2. \A k \in lo..hi : k \in l..h \/ t[k] = s[k]
    BY <1>1
  <2>3. \A k \in l..h : k \in lo..hi
    OBVIOUS
  <2> QED
    BY <2>1, <2>2, <2>3 DEF Between
<1>4. Between(t, lo, hi) = Between(s, lo, hi)
  BY <1>3
<1>5. \A k \in DOMAIN s : k \notin lo..hi => t[k] = s[k]
  BY <1>1
<1> QED
  BY <1>4, <1>5 DEF Rearranged

\* All elements of a part are elements of the same part of another range.
Within(t, s, lo, hi) == \A k \in lo..hi : \E m \in lo..hi : t[k] = s[m]

\* Two parts have the same elements if each has those of the other.
LEMMA SameBetween ==
  ASSUME NEW s, NEW t, NEW lo, NEW hi, Within(t, s, lo, hi), Within(s, t, lo, hi)
  PROVE  Between(t, lo, hi) = Between(s, lo, hi)
<1>1. ASSUME NEW e \in Between(t, lo, hi)
      PROVE  e \in Between(s, lo, hi)
  <2>1. PICK k \in lo..hi : e = t[k]
    BY <1>1 DEF Between
  <2>2. PICK m \in lo..hi : t[k] = s[m]
    BY DEF Within
  <2> QED
    BY <2>1, <2>2 DEF Between
<1>2. ASSUME NEW e \in Between(s, lo, hi)
      PROVE  e \in Between(t, lo, hi)
  <2>1. PICK k \in lo..hi : e = s[k]
    BY <1>2 DEF Between
  <2>2. PICK m \in lo..hi : s[k] = t[m]
    BY DEF Within
  <2> QED
    BY <2>1, <2>2 DEF Between
<1> QED
  BY <1>1, <1>2

\* What it is that two elements change places.
SwapOf(t, s, i, j) ==
  \A k \in DOMAIN s : t[k] = IF k = i THEN s[j] ELSE IF k = j THEN s[i] ELSE s[k]

\* Two elements change places.
LEMMA SwapIs ==
  ASSUME NEW N \in Nat, NEW E, NEW s \in [1..N -> E], NEW i \in 1..N, NEW j \in 1..N
  PROVE  /\ Swap(s, i, j) \in [1..N -> E]
         /\ SwapOf(Swap(s, i, j), s, i, j)
  BY DEF Swap, SwapOf

\* That rearranges every part they are in.
LEMMA SwapRearranges ==
  ASSUME NEW N \in Nat, NEW E, NEW s \in [1..N -> E], NEW lo \in Int, NEW hi \in Int,
         1 <= lo, hi <= N, NEW i \in lo..hi, NEW j \in lo..hi
  PROVE  Rearranged(s, Swap(s, i, j), lo, hi)
<1> DEFINE t == Swap(s, i, j)
<1>0. i \in 1..N /\ j \in 1..N
  OBVIOUS
<1>1. SwapOf(t, s, i, j)
  BY <1>0, SwapIs
<1> HIDE DEF t
<1>2. \A k \in 1..N : t[k] = IF k = i THEN s[j] ELSE IF k = j THEN s[i] ELSE s[k]
  BY <1>1 DEF SwapOf
<1>3. ASSUME NEW k \in lo..hi
      PROVE  /\ \E m \in lo..hi : t[k] = s[m]
             /\ \E m \in lo..hi : s[k] = t[m]
  <2>1. k \in 1..N
    OBVIOUS
  <2> QED
    BY <1>0, <1>2, <2>1
<1>4. Between(t, lo, hi) = Between(s, lo, hi)
  <2>1. Within(t, s, lo, hi) /\ Within(s, t, lo, hi)
    BY <1>3 DEF Within
  <2> QED
    BY <2>1, SameBetween
<1>5. \A k \in DOMAIN s : k \notin lo..hi => t[k] = s[k]
  BY <1>2
<1> QED
  BY <1>4, <1>5 DEF Rearranged, t

\* What it is that an element moves back past others.
MovedOf(t, s, i, j) ==
  /\ t[j] = s[i]
  /\ \A k \in j + 1..i : t[k] = s[k - 1]
  /\ \A k \in DOMAIN s : k \notin j..i => t[k] = s[k]

\* An element moves back.
LEMMA MovedIs ==
  ASSUME NEW N \in Nat, NEW E, NEW s \in [1..N -> E], NEW i \in 1..N, NEW j \in 1..i
  PROVE  /\ Moved(s, i, j) \in [1..N -> E]
         /\ MovedOf(Moved(s, i, j), s, i, j)
<1>1. j \in 1..N /\ \A k \in j + 1..i : k \in 1..N /\ k # j /\ k - 1 \in 1..N
  OBVIOUS
<1>2. \A k \in 1..N : k \notin j..i => k # j /\ k \notin j + 1..i
  OBVIOUS
<1> QED
  BY <1>1, <1>2 DEF Moved, MovedOf

\* That rearranges the part from there on.
LEMMA MovedRearranges ==
  ASSUME NEW N \in Nat, NEW E, NEW s \in [1..N -> E], NEW i \in 1..N, NEW j \in 1..i
  PROVE  Rearranged(s, Moved(s, i, j), 1, i)
<1> DEFINE t == Moved(s, i, j)
<1>0. MovedOf(t, s, i, j)
  BY MovedIs
<1> HIDE DEF t
<1>1. /\ t[j] = s[i]
      /\ \A k \in j + 1..i : t[k] = s[k - 1]
      /\ \A k \in 1..N : k \notin j..i => t[k] = s[k]
  BY <1>0 DEF MovedOf
<1>2. ASSUME NEW k \in 1..i
      PROVE  /\ \E m \in 1..i : t[k] = s[m]
             /\ \E m \in 1..i : s[k] = t[m]
  <2>0. k \in j..i - 1 => s[k] = t[k + 1] /\ k + 1 \in 1..i
    <3>1. k \in j..i - 1 => k + 1 \in j + 1..i /\ k + 1 - 1 = k
      OBVIOUS
    <3> QED
      BY <1>1, <3>1
  <2>1. i \in 1..i /\ j \in 1..i
    OBVIOUS
  <2>2. CASE k < j
    <3>1. t[k] = s[k]
      BY <1>1, <2>2
    <3> QED
      BY <3>1
  <2>3. CASE k = j
    BY <1>1, <2>0, <2>1, <2>3
  <2>4. CASE k > j
    <3>1. k \in j + 1..i /\ k - 1 \in 1..i
      BY <2>4
    <3>2. t[k] = s[k - 1]
      BY <1>1, <3>1
    <3> QED
      BY <1>1, <2>0, <2>1, <2>4, <3>1, <3>2
  <2> QED
    BY <2>2, <2>3, <2>4
<1>3. Between(t, 1, i) = Between(s, 1, i)
  <2>1. Within(t, s, 1, i) /\ Within(s, t, 1, i)
    BY <1>2 DEF Within
  <2> QED
    BY <2>1, SameBetween
<1>4. \A k \in DOMAIN s : k \notin 1..i => t[k] = s[k]
  BY <1>1
<1> QED
  BY <1>3, <1>4 DEF Rearranged, t

\* What holds of all elements of a part holds of them when it is rearranged.
LEMMA RearrangedAll ==
  ASSUME NEW s, NEW t, NEW lo \in Int, NEW hi \in Int, Rearranged(s, t, lo, hi),
         NEW P, \A k \in lo..hi : s[k] \in P
  PROVE  \A k \in lo..hi : t[k] \in P
<1>1. Between(s, lo, hi) \subseteq P
  BY DEF Between
<1>2. ASSUME NEW k \in lo..hi
      PROVE  t[k] \in P
  <2>1. t[k] \in Between(t, lo, hi)
    BY DEF Between
  <2> QED
    BY <1>1, <2>1 DEF Rearranged
<1> QED
  BY <1>2

\* The length of a range.
LEMMA RangeLen ==
  ASSUME NEW N \in Nat, NEW E, NEW s \in [1..N -> E]
  PROVE  Len(s) = N
<1>1. IsSeqOf(s, N)
  BY DEF IsSeqOf
<1> QED
  BY <1>1, SeqOfLen

----------------------------------------------------------------------------
(***************************************************************************)
(* minsort: after each turn, the part up to there is in order, and none    *)
(* of the rest precedes any of it.                                         *)
(***************************************************************************)

\* Of the elements from one position to another, this is the first of the least.
FirstLeast(s, i, j, n) ==
  /\ j \in i..n
  /\ \A k \in i..n : ~Precedes(s[k], s[j])
  /\ \A k \in i..j - 1 : Precedes(s[j], s[k])

\* There is one.
LEMMA LeastFromIs ==
  ASSUME NEW N \in Nat, NEW E, Keyed(E), NEW s \in [1..N -> E], NEW i \in 1..N
  PROVE  FirstLeast(s, i, LeastFrom(s, i), N)
<1> DEFINE T == {n \in Nat : n <= N - i => \E j \in Nat : FirstLeast(s, i, j, i + n)}
<1>0. \A k \in 1..N : s[k] \in E /\ s[k][1] \in Int
  BY DEF Keyed
<1>1. 0 \in T
  <2>1. FirstLeast(s, i, i, i + 0)
    BY <1>0 DEF FirstLeast, Precedes
  <2> QED
    BY <2>1
<1>2. ASSUME NEW n \in 0..(N - i) - 1, n \in T
      PROVE  n + 1 \in T
  <2>1. PICK j \in Nat : FirstLeast(s, i, j, i + n)
    BY <1>2
  <2> DEFINE m == i + (n + 1)
  <2>2. m \in 1..N /\ m \in i..m /\ \A k \in i..m : k = m \/ k \in i..i + n
    OBVIOUS
  <2>3. j \in 1..N /\ j \in i..i + n /\ m - 1 = i + n
    BY <2>1 DEF FirstLeast
  <2> HIDE DEF m
  <2>4. CASE Precedes(s[m], s[j])
    <3>1. ASSUME NEW k \in i..i + n
          PROVE  Precedes(s[m], s[k])
      <4>1. k \in 1..N /\ ~Precedes(s[k], s[j])
        BY <2>1 DEF FirstLeast
      <4> QED
        BY <1>0, <2>2, <2>3, <2>4, <4>1 DEF Precedes
    <3>2. ~Precedes(s[m], s[m])
      BY <1>0, <2>2 DEF Precedes
    <3>3. \A k \in i..i + n : ~Precedes(s[k], s[m])
      BY <1>0, <2>2, <3>1 DEF Precedes
    <3>4. FirstLeast(s, i, m, m)
      BY <2>2, <2>3, <3>1, <3>2, <3>3 DEF FirstLeast
    <3>5. m \in Nat
      BY <2>2
    <3> QED
      BY <3>4, <3>5 DEF m
  <2>5. CASE ~Precedes(s[m], s[j])
    <3>1. j \in i..m
      BY <2>2, <2>3
    <3>2. FirstLeast(s, i, j, m)
      BY <2>1, <2>2, <2>5, <3>1 DEF FirstLeast
    <3> QED
      BY <3>2 DEF m
  <2> QED
    BY <2>4, <2>5
<1> HIDE DEF T
<1>3. N - i \in Nat /\ N - i \in 0..N - i
  OBVIOUS
<1>4. N - i \in T
  BY <1>1, <1>2, <1>3, InductionTo
<1>5. PICK j \in Nat : FirstLeast(s, i, j, N)
  <2>1. \E j \in Nat : FirstLeast(s, i, j, i + (N - i))
    BY <1>4 DEF T
  <2>2. i + (N - i) = N
    OBVIOUS
  <2> QED
    BY <2>1, <2>2
<1>6. Len(s) = N
  BY RangeLen
<1>7. LeastFrom(s, i) = CHOOSE k \in i..N : /\ \A m \in i..N : ~Precedes(s[m], s[k])
                                            /\ \A m \in i..k - 1 : Precedes(s[k], s[m])
  BY <1>6 DEF LeastFrom
<1>8. /\ j \in i..N
      /\ \A m \in i..N : ~Precedes(s[m], s[j])
      /\ \A m \in i..j - 1 : Precedes(s[j], s[m])
  BY <1>5 DEF FirstLeast
<1> QED
  BY <1>7, <1>8 DEF FirstLeast

\* What is true after so many turns of the loop.
LeastUpTo(s, t, i, N, E) ==
  /\ t \in [1..N -> E]
  /\ Rearranged(s, t, 1, N)
  /\ OrderedIn(t, 1, i)
  /\ \A j \in 1..i, k \in i + 1..N : ~Precedes(t[k], t[j])

\* Each turn keeps it so.
LEMMA LeastUpToNext ==
  ASSUME NEW N \in Nat, NEW E, Keyed(E), NEW s \in [1..N -> E],
         NEW i \in 1..N, NEW t, LeastUpTo(s, t, i - 1, N, E)
  PROVE  LeastUpTo(s, Swap(t, i, LeastFrom(t, i)), i, N, E)
<1> DEFINE m == LeastFrom(t, i)
           u == Swap(t, i, m)
<1>1. t \in [1..N -> E]
  BY DEF LeastUpTo
<1>2. FirstLeast(t, i, m, N)
  BY <1>1, LeastFromIs
<1> HIDE DEF m
<1>3. m \in i..N /\ m \in 1..N
  BY <1>2 DEF FirstLeast
<1>4. u \in [1..N -> E] /\ SwapOf(u, t, i, m)
  BY <1>1, <1>3, SwapIs
<1>5. Rearranged(s, u, 1, N)
  <2>0. i \in 1..N /\ 1 \in Int /\ N \in Int /\ 1 <= 1 /\ N <= N
    OBVIOUS
  <2>1. Rearranged(t, u, 1, N)
    BY <1>1, <1>3, <2>0, SwapRearranges
  <2>2. Rearranged(s, t, 1, N) /\ DOMAIN t = DOMAIN s
    BY <1>1 DEF LeastUpTo
  <2> HIDE DEF u
  <2> QED
    BY <2>1, <2>2, RearrangedTwice
<1> HIDE DEF u
<1>6. \A k \in 1..N : u[k] = IF k = i THEN t[m] ELSE IF k = m THEN t[i] ELSE t[k]
  BY <1>1, <1>4 DEF SwapOf
<1>7. \A k \in 1..N : t[k] \in E /\ t[k][1] \in Int
  BY <1>1 DEF Keyed
<1>8. \A k \in i..N : ~Precedes(t[k], t[m])
  BY <1>2 DEF FirstLeast
<1>9. \A j \in 1..i - 1, k \in i..N : ~Precedes(t[k], t[j])
  <2>1. (i - 1) + 1 = i
    OBVIOUS
  <2> QED
    BY <2>1 DEF LeastUpTo
<1>10. \A k \in i..N : \E n \in i..N : u[k] = t[n]
  <2>1. i \in i..N
    OBVIOUS
  <2>2. \A k \in i..N : k \in 1..N
    OBVIOUS
  <2> QED
    BY <1>3, <1>6, <2>1, <2>2
<1>11. \A k \in 1..i - 1 : u[k] = t[k] /\ k \in 1..N
  BY <1>3, <1>6
<1>12. u[i] = t[m]
  BY <1>6
<1>13. ASSUME NEW j \in 1..i, NEW k \in i..N
       PROVE  ~Precedes(u[k], u[j])
  <2>1. PICK n \in i..N : u[k] = t[n]
    BY <1>10
  <2>2. CASE j = i
    BY <1>8, <1>12, <2>1, <2>2
  <2>3. CASE j # i
    <3>1. j \in 1..i - 1
      BY <2>3
    <3> QED
      BY <1>9, <1>11, <2>1, <3>1
  <2> QED
    BY <2>2, <2>3
<1>14. OrderedIn(u, 1, i)
  <2>1. SUFFICES ASSUME NEW j \in 1..i, NEW k \in 1..i, j < k
                 PROVE  ~Precedes(u[k], u[j])
    BY DEF OrderedIn
  <2>2. CASE k = i
    BY <1>13, <2>1, <2>2
  <2>3. CASE k # i
    <3>1. k \in 1..i - 1 /\ j \in 1..i - 1
      BY <2>1, <2>3
    <3> QED
      BY <1>11, <2>1, <3>1 DEF LeastUpTo, OrderedIn
  <2> QED
    BY <2>2, <2>3
<1>15. \A j \in 1..i, k \in i + 1..N : ~Precedes(u[k], u[j])
  BY <1>13
<1> QED
  BY <1>4, <1>5, <1>14, <1>15 DEF LeastUpTo, u, m

\* What is to hold of a range that was sorted.
Sorted(s, t, N, E) ==
  /\ t \in [1..N -> E]
  /\ Rearranged(s, t, 1, N)
  /\ OrderedIn(t, 1, N)

\* minsort sorts.
LEMMA MinSorts ==
  ASSUME NEW N \in Nat, NEW E, Keyed(E), NEW s \in [1..N -> E]
  PROVE  Sorted(s, MinSort(s), N, E)
<1> DEFINE V == [1..N -> E]
           Round(i, t) == Swap(t, i, LeastFrom(t, i))
           g == [x \in (1..N) \X V |-> Round(x[1], x[2])]
           f == CHOOSE f : f = [i \in 0..N |-> IF i = 0 THEN s
                                               ELSE Swap(f[i - 1], i, LeastFrom(f[i - 1], i))]
<1>1. MinSort(s) = f[N]
  BY RangeLen DEF MinSort
<1>2. g \in [(1..N) \X V -> V]
  <2>1. ASSUME NEW i \in 1..N, NEW t \in V
        PROVE  Round(i, t) \in V
    <3>1. FirstLeast(t, i, LeastFrom(t, i), N)
      BY LeastFromIs
    <3>2. LeastFrom(t, i) \in 1..N
      BY <3>1 DEF FirstLeast
    <3> HIDE DEF V
    <3> QED
      BY <3>2, SwapIs DEF V
  <2> HIDE DEF V, Round
  <2> QED
    BY <2>1
<1>3. \E h : h = [i \in 0..N |-> IF i = 0 THEN s ELSE Round(i, h[i - 1])]
  <2> HIDE DEF Round
  <2>1. s \in V
    OBVIOUS
  <2> HIDE DEF V, g, f
  <2>2. PICK h \in [0..N -> V] : Unfolds(h, s, N, g)
    BY <1>2, <2>1, Recursion
  <2>3. ASSUME NEW i \in 1..N
        PROVE  h[i] = Round(i, h[i - 1])
    <3>1. i - 1 \in 0..N
      OBVIOUS
    <3>2. h[i - 1] \in V
      BY <3>1
    <3> QED
      BY <2>2, <3>2 DEF g, Unfolds
  <2>4. \A i \in 0..N : h[i] = IF i = 0 THEN s ELSE Round(i, h[i - 1])
    BY <2>2, <2>3 DEF Unfolds
  <2>5. h = [i \in 0..N |-> IF i = 0 THEN s ELSE Round(i, h[i - 1])]
    BY <2>4
  <2> QED
    BY <2>5
<1>4. f = [i \in 0..N |-> IF i = 0 THEN s ELSE Round(i, f[i - 1])]
  BY <1>3, Zenon
<1> HIDE DEF f, g, Round
<1>5. f[0] = s /\ \A i \in 1..N : f[i] = Round(i, f[i - 1])
  BY <1>4
<1> DEFINE T == {i \in 0..N : LeastUpTo(s, f[i], i, N, E)}
<1>6. 0 \in T
  <2>1. Rearranged(s, s, 1, N)
    BY DEF Rearranged
  <2>2. LeastUpTo(s, s, 0, N, E)
    BY <2>1 DEF LeastUpTo, OrderedIn
  <2> QED
    BY <1>5, <2>2
<1>7. ASSUME NEW i \in 0..N - 1, i \in T
      PROVE  i + 1 \in T
  <2>1. i + 1 \in 1..N /\ (i + 1) - 1 = i /\ i + 1 \in 0..N
    OBVIOUS
  <2>2. LeastUpTo(s, f[i], (i + 1) - 1, N, E)
    BY <1>7, <2>1
  <2>3. LeastUpTo(s, Round(i + 1, f[i]), i + 1, N, E)
    BY <2>1, <2>2, LeastUpToNext DEF Round
  <2>4. f[i + 1] = Round(i + 1, f[i])
    BY <1>5, <2>1
  <2> QED
    BY <2>1, <2>3, <2>4
<1> HIDE DEF T
<1>8. N \in T
  <2>1. N \in 0..N
    OBVIOUS
  <2> QED
    BY <1>6, <1>7, <2>1, InductionTo
<1> QED
  BY <1>1, <1>8 DEF T, LeastUpTo, Sorted

----------------------------------------------------------------------------
(***************************************************************************)
(* Insertion sort: after each turn, the part up to there is in order, with *)
(* equals in the order they came in.                                       *)
(***************************************************************************)

\* Each element is tagged with the position it came at.
Tagged(s) == \A k \in DOMAIN s : s[k][1] \in Int /\ s[k][2] = k

\* A part is in order, and equals are in the order of their tags.
InTurn(s, lo, hi) ==
  \A i, j \in lo..hi :
    i < j => s[i][1] < s[j][1] \/ (s[i][1] = s[j][1] /\ s[i][2] < s[j][2])

\* This is how far the i-th element goes back.
Rest(s, i, j) ==
  /\ j = 1 \/ ~Precedes(s[i], s[j - 1])
  /\ \A k \in j + 1..i : Precedes(s[i], s[k - 1])

\* It comes to rest somewhere.
LEMMA SinkIs ==
  ASSUME NEW N \in Nat, NEW E, NEW s \in [1..N -> E], NEW i \in 1..N
  PROVE  \E j \in 1..i : Rest(s, i, j) /\ Sink(s, i) = Moved(s, i, j)
<1> DEFINE T == {j \in 1..i : \A k \in j + 1..i : Precedes(s[i], s[k - 1])}
<1>1. i \in T
  OBVIOUS
<1>2. PICK j \in T : \A k \in T : j <= k
  <2>1. T \subseteq Nat
    OBVIOUS
  <2> HIDE DEF T
  <2>2. T \in SUBSET Nat /\ T # {}
    BY <1>1, <2>1
  <2> QED
    BY <2>2, LeastOf
<1>3. j \in 1..i /\ \A k \in j + 1..i : Precedes(s[i], s[k - 1])
  BY <1>2
<1>4. ASSUME j # 1, Precedes(s[i], s[j - 1])
      PROVE  FALSE
  <2>1. j - 1 \in 1..i /\ (j - 1) + 1 = j /\ ~(j <= j - 1)
    BY <1>3, <1>4
  <2>2. \A k \in j..i : k = j \/ k \in j + 1..i
    BY <1>3
  <2>3. \A k \in j..i : Precedes(s[i], s[k - 1])
    BY <1>3, <1>4, <2>2
  <2>4. j - 1 \in T
    BY <2>1, <2>3
  <2> HIDE DEF T
  <2> QED
    BY <1>2, <2>1, <2>4
<1> DEFINE Fits(k) == /\ k = 1 \/ ~Precedes(s[i], s[k - 1])
                      /\ \A n \in k + 1..i : Precedes(s[i], s[n - 1])
           m == CHOOSE k \in 1..i : Fits(k)
<1>5. \E k \in 1..i : Fits(k)
  BY <1>3, <1>4
<1>6. Sink(s, i) = Moved(s, i, m)
  BY DEF Sink
<1>7. m \in 1..i /\ Fits(m)
  <2> HIDE DEF Fits
  <2> QED
    BY <1>5
<1> HIDE DEF m
<1> QED
  BY <1>6, <1>7 DEF Rest

\* What is true after so many turns of the loop.
SunkUpTo(s, t, i, N, E) ==
  /\ t \in [1..N -> E]
  /\ Rearranged(s, t, 1, i)
  /\ InTurn(t, 1, i)

\* Each turn keeps it so.
LEMMA SunkUpToNext ==
  ASSUME NEW N \in Nat, NEW E, NEW s \in [1..N -> E], Tagged(s),
         NEW i \in 1..N, NEW t, SunkUpTo(s, t, i - 1, N, E)
  PROVE  SunkUpTo(s, Sink(t, i), i, N, E)
<1>1. t \in [1..N -> E] /\ Rearranged(s, t, 1, i - 1) /\ InTurn(t, 1, i - 1)
  BY DEF SunkUpTo
<1>2. PICK j \in 1..i : Rest(t, i, j) /\ Sink(t, i) = Moved(t, i, j)
  BY <1>1, SinkIs
<1> DEFINE u == Moved(t, i, j)
<1>3. u \in [1..N -> E] /\ MovedOf(u, t, i, j)
  BY <1>1, MovedIs
<1>4. Rearranged(s, u, 1, i)
  <2>1. Rearranged(t, u, 1, i)
    BY <1>1, MovedRearranges
  <2> HIDE DEF u
  <2>2. Rearranged(s, t, 1, i)
    <3>1. i - 1 \in Int /\ i \in Int /\ 1 \in Int /\ 1 <= 1 /\ i - 1 <= i /\ i <= N
      OBVIOUS
    <3> QED
      BY <1>1, <3>1, RearrangedWider
  <2>3. DOMAIN t = DOMAIN s
    BY <1>1
  <2> QED
    BY <2>1, <2>2, <2>3, RearrangedTwice
<1> HIDE DEF u
<1>5. ASSUME NEW k \in 1..i - 1
      PROVE  t[k][1] \in Int /\ t[k][2] \in 1..i - 1
  <2> DEFINE P == {e \in E : e[1] \in Int /\ e[2] \in 1..i - 1}
  <2>1. \A n \in 1..i - 1 : n \in 1..N /\ s[n] \in P
    BY DEF Tagged
  <2> HIDE DEF P
  <2>2. i - 1 \in Int /\ 1 \in Int
    OBVIOUS
  <2>3. \A n \in 1..i - 1 : t[n] \in P
    BY <1>1, <2>1, <2>2, RearrangedAll
  <2> QED
    BY <2>3 DEF P
<1>6. t[i][1] \in Int /\ t[i][2] = i
  <2>1. i \notin 1..i - 1
    OBVIOUS
  <2>2. t[i] = s[i]
    BY <1>1, <2>1 DEF Rearranged
  <2> QED
    BY <2>2 DEF Tagged
<1>7. /\ u[j] = t[i]
      /\ \A k \in j + 1..i : u[k] = t[k - 1]
      /\ \A k \in 1..j - 1 : u[k] = t[k]
  <2>1. \A k \in 1..j - 1 : k \in DOMAIN t /\ k \notin j..i
    BY <1>1
  <2> QED
    BY <1>3, <2>1 DEF MovedOf
<1>8. \A a, b \in 1..i - 1 :
        a < b => t[a][1] < t[b][1] \/ (t[a][1] = t[b][1] /\ t[a][2] < t[b][2])
  BY <1>1 DEF InTurn
<1>9. /\ j = 1 \/ ~(t[i][1] < t[j - 1][1])
      /\ \A k \in j + 1..i : t[i][1] < t[k - 1][1]
  BY <1>2 DEF Rest, Precedes
<1>10. ASSUME NEW a \in 1..i, NEW b \in 1..i, a < b
       PROVE  u[a][1] < u[b][1] \/ (u[a][1] = u[b][1] /\ u[a][2] < u[b][2])
  <2>1. CASE b < j
    <3>1. u[a] = t[a] /\ u[b] = t[b] /\ a \in 1..i - 1 /\ b \in 1..i - 1
      BY <1>7, <1>10, <2>1
    <3> QED
      BY <1>8, <1>10, <3>1
  <2>2. CASE b = j
    <3>1. u[a] = t[a] /\ u[b] = t[i] /\ a \in 1..i - 1 /\ j - 1 \in 1..i - 1
      BY <1>7, <1>10, <2>2
    <3>2. ~(t[i][1] < t[j - 1][1])
      BY <1>9, <1>10, <2>2
    <3>3. a = j - 1 \/ a < j - 1
      BY <1>10, <2>2
    <3>4. t[a][1] <= t[j - 1][1]
      BY <1>5, <1>8, <3>1, <3>3
    <3>5. t[a][1] <= t[i][1] /\ t[a][2] < t[i][2]
      <4>1. t[a][1] \in Int /\ t[j - 1][1] \in Int /\ t[a][2] \in 1..i - 1
        BY <1>5, <3>1
      <4> QED
        BY <1>6, <3>2, <3>4, <4>1
    <3> QED
      BY <1>5, <1>6, <3>1, <3>5
  <2>3. CASE a < j /\ j < b
    <3>1. u[a] = t[a] /\ u[b] = t[b - 1] /\ a \in 1..i - 1 /\ b - 1 \in 1..i - 1 /\ a < b - 1
      BY <1>7, <2>3
    <3> QED
      BY <1>8, <3>1
  <2>4. CASE a = j
    <3>1. u[a] = t[i] /\ u[b] = t[b - 1] /\ b \in j + 1..i
      BY <1>7, <1>10, <2>4
    <3> QED
      BY <1>9, <3>1
  <2>5. CASE j < a
    <3>1. /\ u[a] = t[a - 1] /\ u[b] = t[b - 1]
          /\ a - 1 \in 1..i - 1 /\ b - 1 \in 1..i - 1 /\ a - 1 < b - 1
      BY <1>7, <1>10, <2>5
    <3> QED
      BY <1>8, <3>1
  <2> QED
    BY <1>10, <2>1, <2>2, <2>3, <2>4, <2>5
<1>11. InTurn(u, 1, i)
  BY <1>10 DEF InTurn
<1> QED
  BY <1>2, <1>3, <1>4, <1>11 DEF SunkUpTo, u

\* Insertion sort sorts, and keeps the order of equals.
LEMMA InsertionSorts ==
  ASSUME NEW N \in Nat, NEW E, NEW s \in [1..N -> E], Tagged(s)
  PROVE  SunkUpTo(s, InsertionSort(s), N, N, E)
<1> DEFINE V == [1..N -> E]
           g == [x \in (1..N) \X V |-> Sink(x[2], x[1])]
           f == CHOOSE f : f = [i \in 0..N |-> IF i = 0 THEN s ELSE Sink(f[i - 1], i)]
<1>1. InsertionSort(s) = f[N]
  BY RangeLen DEF InsertionSort
<1>2. g \in [(1..N) \X V -> V]
  <2>1. ASSUME NEW i \in 1..N, NEW t \in V
        PROVE  Sink(t, i) \in V
    <3> HIDE DEF g, f
    <3>0. t \in [1..N -> E]
      OBVIOUS
    <3> HIDE DEF V
    <3>1. PICK j \in 1..i : Rest(t, i, j) /\ Sink(t, i) = Moved(t, i, j)
      BY <3>0, SinkIs
    <3>2. Moved(t, i, j) \in [1..N -> E]
      BY <3>0, MovedIs
    <3> QED
      BY <3>1, <3>2 DEF V
  <2> HIDE DEF V
  <2> QED
    BY <2>1
<1>3. \E h : h = [i \in 0..N |-> IF i = 0 THEN s ELSE Sink(h[i - 1], i)]
  <2>1. s \in V
    OBVIOUS
  <2> HIDE DEF V, g, f
  <2>2. PICK h \in [0..N -> V] : Unfolds(h, s, N, g)
    BY <1>2, <2>1, Recursion
  <2>3. ASSUME NEW i \in 1..N
        PROVE  h[i] = Sink(h[i - 1], i)
    <3>1. i - 1 \in 0..N
      OBVIOUS
    <3>2. h[i - 1] \in V
      BY <3>1
    <3> QED
      BY <2>2, <3>2 DEF g, Unfolds
  <2>4. \A i \in 0..N : h[i] = IF i = 0 THEN s ELSE Sink(h[i - 1], i)
    BY <2>2, <2>3 DEF Unfolds
  <2>5. h = [i \in 0..N |-> IF i = 0 THEN s ELSE Sink(h[i - 1], i)]
    BY <2>4
  <2> QED
    BY <2>5
<1>4. f = [i \in 0..N |-> IF i = 0 THEN s ELSE Sink(f[i - 1], i)]
  BY <1>3, Zenon
<1> HIDE DEF f, g
<1>5. f[0] = s /\ \A i \in 1..N : f[i] = Sink(f[i - 1], i)
  BY <1>4
<1> DEFINE T == {i \in 0..N : SunkUpTo(s, f[i], i, N, E)}
<1>6. 0 \in T
  <2>1. Rearranged(s, s, 1, 0)
    BY DEF Rearranged
  <2>2. SunkUpTo(s, s, 0, N, E)
    BY <2>1 DEF SunkUpTo, InTurn
  <2> QED
    BY <1>5, <2>2
<1>7. ASSUME NEW i \in 0..N - 1, i \in T
      PROVE  i + 1 \in T
  <2>1. i + 1 \in 1..N /\ (i + 1) - 1 = i /\ i + 1 \in 0..N
    OBVIOUS
  <2>2. SunkUpTo(s, f[i], (i + 1) - 1, N, E)
    BY <1>7, <2>1
  <2>3. SunkUpTo(s, Sink(f[i], i + 1), i + 1, N, E)
    BY <2>1, <2>2, SunkUpToNext
  <2>4. f[i + 1] = Sink(f[i], i + 1)
    BY <1>5, <2>1
  <2> QED
    BY <2>1, <2>3, <2>4
<1> HIDE DEF T
<1>8. N \in T
  <2>1. N \in 0..N
    OBVIOUS
  <2> QED
    BY <1>6, <1>7, <2>1, InductionTo
<1> QED
  BY <1>1, <1>8 DEF T

----------------------------------------------------------------------------
(***************************************************************************)
(* Quicksort.  The loop leaves those that precede the pivot before the     *)
(* rest; each call then sorts its range if the shorter ones do.            *)
(***************************************************************************)

\* The range and the position that the loop of quicksort works on, after so many
\* turns.
PartedUpTo(s, p, first, n, N, E) ==
  /\ p \in [1..N -> E] \X (1..N + 1)
  /\ p[2] \in first + 1..first + n + 1
  /\ Rearranged(s, p[1], first + 1, first + n)
  /\ \A k \in first + 1..p[2] - 1 : Precedes(p[1][k], s[first])
  /\ \A k \in p[2]..first + n : ~Precedes(p[1][k], s[first])

\* Each turn keeps it so.
LEMMA PartedUpToNext ==
  ASSUME NEW N \in Nat, NEW E, NEW s \in [1..N -> E], NEW first \in 1..N,
         NEW n \in 1..N - first, NEW p, PartedUpTo(s, p, first, n - 1, N, E)
  PROVE  PartedUpTo(s, Parted(p, first, first + n), first, n, N, E)
<1> DEFINE t == p[1]
           b == p[2]
           i == first + n
           q == Parted(p, first, i)
<1>1. /\ p \in [1..N -> E] \X (1..N + 1)
      /\ t \in [1..N -> E]
      /\ b \in first + 1..i
      /\ Rearranged(s, t, first + 1, i - 1)
      /\ \A k \in first + 1..b - 1 : Precedes(t[k], s[first])
      /\ \A k \in b..i - 1 : ~Precedes(t[k], s[first])
  <2>1. first + (n - 1) = i - 1 /\ first + (n - 1) + 1 = i
    OBVIOUS
  <2> HIDE DEF i
  <2> QED
    BY <2>1 DEF PartedUpTo
<1>2. i \in 1..N /\ i \in first + 1..i /\ b \in 1..N /\ b \in first + 1..i /\ i \in Int
  BY <1>1
<1>3. t[first] = s[first]
  <2>1. first \in DOMAIN s /\ first \notin first + 1..i - 1
    BY <1>1
  <2> HIDE DEF t, i
  <2> QED
    BY <1>1, <2>1 DEF Rearranged
<1>4. Rearranged(s, t, first + 1, i)
  <2>1. first + 1 \in Int /\ i - 1 \in Int /\ first + 1 <= first + 1 /\ i - 1 <= i /\ 1 <= first + 1 /\ i <= N
    BY <1>2
  <2> HIDE DEF t, i
  <2> QED
    BY <1>1, <1>2, <2>1, RearrangedWider
<1> SUFFICES PartedUpTo(s, q, first, n, N, E)
  BY DEF q, i
<1>5. CASE Precedes(t[i], s[first])
  <2> DEFINE u == Swap(t, i, b)
  <2>1. q = <<u, b + 1>>
    BY <1>3, <1>5 DEF Parted
  <2>2. u \in [1..N -> E] /\ SwapOf(u, t, i, b)
    <3> HIDE DEF t, i, b
    <3> QED
      BY <1>1, <1>2, SwapIs
  <2>3. Rearranged(s, u, first + 1, i)
    <3>1. first + 1 \in Int /\ 1 <= first + 1 /\ i <= N
      BY <1>2
    <3> HIDE DEF t, i, b
    <3>2. Rearranged(t, u, first + 1, i)
      BY <1>1, <1>2, <3>1, SwapRearranges
    <3>3. DOMAIN t = DOMAIN s
      BY <1>1
    <3> HIDE DEF u
    <3> QED
      BY <1>4, <3>2, <3>3, RearrangedTwice
  <2> HIDE DEF u, q, t, i, b
  <2>4. \A k \in 1..N : u[k] = IF k = i THEN t[b] ELSE IF k = b THEN t[i] ELSE t[k]
    BY <1>1, <2>2 DEF SwapOf
  <2>5. ASSUME NEW k \in first + 1..b
        PROVE  Precedes(u[k], s[first])
    <3>1. k \in 1..N
      BY <1>2
    <3>2. CASE k = b
      BY <1>2, <1>5, <2>4, <3>2
    <3>3. CASE k # b
      <4>1. k \in first + 1..b - 1 /\ k # i
        BY <1>2, <3>3
      <4>2. u[k] = t[k]
        BY <2>4, <3>1, <3>3, <4>1
      <4> QED
        BY <1>1, <4>1, <4>2
    <3> QED
      BY <3>2, <3>3
  <2>6. ASSUME NEW k \in b + 1..i
        PROVE  ~Precedes(u[k], s[first])
    <3>1. k \in 1..N /\ k # b
      BY <1>2
    <3>2. CASE k = i
      <4>1. b \in b..i - 1
        BY <1>2, <3>2
      <4>2. u[k] = t[b]
        BY <2>4, <3>1, <3>2
      <4> QED
        BY <1>1, <4>1, <4>2
    <3>3. CASE k # i
      <4>1. k \in b..i - 1
        BY <1>2, <3>3
      <4>2. u[k] = t[k]
        BY <2>4, <3>1, <3>3
      <4> QED
        BY <1>1, <4>1, <4>2
    <3> QED
      BY <3>2, <3>3
  <2>7. q[1] = u /\ q[2] = b + 1 /\ q \in [1..N -> E] \X (1..N + 1)
    BY <1>2, <2>1, <2>2
  <2>8. b + 1 \in first + 1..i + 1 /\ (b + 1) - 1 = b
    BY <1>2
  <2>9. i = first + n /\ i + 1 = first + n + 1
    BY DEF i
  <2> QED
    BY <2>3, <2>5, <2>6, <2>7, <2>8, <2>9 DEF PartedUpTo
<1>6. CASE ~Precedes(t[i], s[first])
  <2>1. q = p
    BY <1>3, <1>6 DEF Parted
  <2>2. i = first + n /\ i + 1 = first + n + 1
    BY DEF i
  <2>3. \A k \in b..i : k = i \/ k \in b..i - 1
    BY <1>2
  <2>4. b \in first + 1..i + 1
    BY <1>2
  <2> HIDE DEF q, i
  <2> QED
    BY <1>1, <1>4, <1>6, <2>1, <2>2, <2>3, <2>4 DEF PartedUpTo
<1> QED
  BY <1>5, <1>6

\* What the loop of quicksort leaves of a range with more than one element.
LEMMA PartitionIs ==
  ASSUME NEW N \in Nat, NEW E, NEW s \in [1..N -> E], NEW first \in 1..N,
         NEW end \in 1..N + 1, first + 1 < end
  PROVE  PartedUpTo(s, Partition(s, first, end), first, end - first - 1, N, E)
<1> DEFINE K == end - first - 1
           V == [1..N -> E] \X (1..N + 1)
           Round(n, p) == Parted(p, first, first + n)
           g == [x \in (1..K) \X V |->
                   IF x[2][2] \in first + 1..first + x[1] THEN Round(x[1], x[2]) ELSE x[2]]
           f == CHOOSE f : f = [n \in 0..end - first - 1 |->
                                  IF n = 0 THEN <<s, first + 1>>
                                  ELSE Parted(f[n - 1], first, first + n)]
<1>1. Partition(s, first, end) = f[K]
  BY DEF Partition
<1> HIDE DEF f
<1>2. K \in Nat /\ K <= N - first /\ K \in 0..K
  OBVIOUS
<1>3. g \in [(1..K) \X V -> V]
  <2>1. ASSUME NEW n \in 1..K, NEW p \in V, p[2] \in first + 1..first + n
        PROVE  Round(n, p) \in V
    <3>1. p[1] \in [1..N -> E] /\ first + n \in 1..N /\ p[2] \in 1..N /\ p[2] + 1 \in 1..N + 1
      BY <1>2, <2>1
    <3> HIDE DEF K, g
    <3>2. Swap(p[1], first + n, p[2]) \in [1..N -> E]
      BY <3>1, SwapIs
    <3> QED
      BY <3>1, <3>2 DEF Parted
  <2> HIDE DEF V, Round, K
  <2> QED
    BY <2>1
<1>4. PICK h \in [0..K -> V] : Unfolds(h, <<s, first + 1>>, K, g)
  <2>1. <<s, first + 1>> \in V
    OBVIOUS
  <2> HIDE DEF V, K, g
  <2> QED
    BY <1>2, <1>3, <2>1, Recursion
<1> HIDE DEF V, K
<1>5. h[0] = <<s, first + 1>> /\ \A n \in 1..K : h[n] = g[<<n, h[n - 1]>>]
  BY <1>4 DEF Unfolds
<1> DEFINE T == {n \in 0..K : /\ PartedUpTo(s, h[n], first, n, N, E)
                              /\ n # 0 => h[n] = Round(n, h[n - 1])}
<1>6. 0 \in T
  <2> DEFINE p == <<s, first + 1>>
  <2>1. p \in [1..N -> E] \X (1..N + 1) /\ p[1] = s /\ p[2] = first + 1
    OBVIOUS
  <2> HIDE DEF p
  <2>2. Rearranged(s, s, first + 1, first + 0)
    BY DEF Rearranged
  <2>3. PartedUpTo(s, p, first, 0, N, E)
    BY <2>1, <2>2 DEF PartedUpTo
  <2> QED
    BY SMTT(30), <1>2, <1>5, <2>3 DEF p
<1>7. ASSUME NEW n \in 0..K - 1, n \in T
      PROVE  n + 1 \in T
  <2>1. n + 1 \in 1..K /\ n + 1 \in 1..N - first /\ (n + 1) - 1 = n /\ n + 1 \in 0..K /\ n \in 0..K
    BY <1>2
  <2>2. PartedUpTo(s, h[n], first, (n + 1) - 1, N, E)
    BY <1>7, <2>1
  <2>3. PartedUpTo(s, Round(n + 1, h[n]), first, n + 1, N, E)
    BY <2>1, <2>2, PartedUpToNext
  <2>4. h[n + 1] = Round(n + 1, h[n])
    <3>1. h[n] \in V
      BY <2>1
    <3>2. h[n][2] \in first + 1..first + (n + 1)
      <4>1. first + n + 1 = first + (n + 1)
        OBVIOUS
      <4> QED
        BY <1>7, <4>1 DEF PartedUpTo
    <3>3. h[n + 1] = g[<<n + 1, h[n]>>]
      BY <1>5, <2>1
    <3> HIDE DEF Round, T
    <3> QED
      BY <2>1, <3>1, <3>2, <3>3
  <2> HIDE DEF Round
  <2> QED
    BY <2>1, <2>3, <2>4
<1> HIDE DEF T, g
<1>8. \A n \in 0..K : n \in T
  BY <1>2, <1>6, <1>7, InductionTo
<1>9. h = [n \in 0..K |-> IF n = 0 THEN <<s, first + 1>> ELSE Parted(h[n - 1], first, first + n)]
  <2>1. \A n \in 0..K : h[n] = IF n = 0 THEN <<s, first + 1>>
                               ELSE Parted(h[n - 1], first, first + n)
    BY <1>5, <1>8 DEF T
  <2> QED
    BY <2>1
<1>10. f = [n \in 0..K |-> IF n = 0 THEN <<s, first + 1>> ELSE Parted(f[n - 1], first, first + n)]
  BY <1>9, Zenon DEF f, K
<1>11. \A n \in 0..K : f[n] = h[n]
  <2> DEFINE S == {n \in 0..K : f[n] = h[n]}
  <2>1. 0 \in S
    BY <1>2, <1>5, <1>10
  <2>2. ASSUME NEW n \in 0..K - 1, n \in S
        PROVE  n + 1 \in S
    <3>1. n + 1 \in 0..K /\ n + 1 # 0 /\ (n + 1) - 1 = n
      BY <1>2
    <3>2. f[n + 1] = Parted(f[n], first, first + (n + 1))
      BY <1>10, <3>1
    <3>3. h[n + 1] = Parted(h[n], first, first + (n + 1))
      BY <1>9, <3>1
    <3> QED
      BY <2>2, <3>1, <3>2, <3>3
  <2> HIDE DEF S
  <2>3. \A n \in 0..K : n \in S
    BY <1>2, <2>1, <2>2, InductionTo
  <2> QED
    BY <2>3 DEF S
<1>12. PartedUpTo(s, h[K], first, K, N, E)
  BY <1>2, <1>8 DEF T
<1> QED
  BY <1>1, <1>2, <1>11, <1>12 DEF K

\* The range of a call is sorted, in what it leaves.
Done(r, t) == Rearranged(r[1], t, r[2], r[3] - 1) /\ OrderedIn(t, r[2], r[3] - 1)

\* All ranges of N elements.
RangesOf(N, E) == [1..N -> E] \X (1..N + 1) \X (1..N + 1)

\* calls sorts all shorter ranges.
SortsBelow(calls, d, N, E) ==
  \A r \in RangesOf(N, E) : r[3] - r[2] <= d => Done(r, calls[r])

\* The first element, and those that precede it, change places.
LEMMA PivotPlaced ==
  ASSUME NEW N \in Nat, NEW E, NEW s \in [1..N -> E], NEW first \in 1..N,
         NEW end \in 1..N + 1, first + 1 < end,
         NEW p, PartedUpTo(s, p, first, end - first - 1, N, E)
  PROVE  /\ p[2] \in first + 1..end
         /\ Swap(p[1], first, p[2] - 1) \in [1..N -> E]
         /\ Rearranged(s, Swap(p[1], first, p[2] - 1), first, end - 1)
         /\ Swap(p[1], first, p[2] - 1)[p[2] - 1] = s[first]
         /\ \A k \in first..p[2] - 2 : Precedes(Swap(p[1], first, p[2] - 1)[k], s[first])
         /\ \A k \in p[2]..end - 1 : ~Precedes(Swap(p[1], first, p[2] - 1)[k], s[first])
<1> DEFINE t == p[1]
           b == p[2]
           u == Swap(t, first, b - 1)
<1>1. /\ t \in [1..N -> E]
      /\ b \in first + 1..end
      /\ Rearranged(s, t, first + 1, end - 1)
      /\ \A k \in first + 1..b - 1 : Precedes(t[k], s[first])
      /\ \A k \in b..end - 1 : ~Precedes(t[k], s[first])
  <2>1. first + (end - first - 1) = end - 1 /\ first + (end - first - 1) + 1 = end
    OBVIOUS
  <2> QED
    BY <2>1 DEF PartedUpTo
<1> SUFFICES /\ u \in [1..N -> E]
             /\ Rearranged(s, u, first, end - 1)
             /\ u[b - 1] = s[first]
             /\ \A k \in first..b - 2 : Precedes(u[k], s[first])
             /\ \A k \in b..end - 1 : ~Precedes(u[k], s[first])
  BY <1>1
<1> HIDE DEF t, b
<1>2. b - 1 \in 1..N /\ b - 1 \in first..end - 1 /\ first \in first..end - 1 /\ end - 1 \in 1..N
  BY <1>1
<1>3. u \in [1..N -> E] /\ SwapOf(u, t, first, b - 1)
  BY <1>1, <1>2, SwapIs
<1>4. Rearranged(s, u, first, end - 1)
  <2>1. first \in Int /\ end - 1 \in Int /\ first + 1 \in Int /\ 1 <= first /\ end - 1 <= N /\ first <= first + 1
        /\ end - 1 <= end - 1
    BY <1>2
  <2>2. Rearranged(s, t, first, end - 1)
    BY <1>1, <2>1, RearrangedWider
  <2>3. Rearranged(t, u, first, end - 1)
    BY <1>1, <1>2, <2>1, SwapRearranges
  <2>4. DOMAIN t = DOMAIN s
    BY <1>1
  <2> HIDE DEF u
  <2> QED
    BY <2>2, <2>3, <2>4, RearrangedTwice
<1> HIDE DEF u
<1>5. \A k \in 1..N : u[k] = IF k = first THEN t[b - 1] ELSE IF k = b - 1 THEN t[first] ELSE t[k]
  BY <1>1, <1>3 DEF SwapOf
<1>6. t[first] = s[first]
  <2>1. first \in DOMAIN s /\ first \notin first + 1..end - 1
    BY <1>1
  <2> QED
    BY <1>1, <2>1 DEF Rearranged
<1>7. u[b - 1] = s[first]
  BY <1>2, <1>5, <1>6
<1>8. ASSUME NEW k \in first..b - 2
      PROVE  Precedes(u[k], s[first])
  <2>1. k \in 1..N /\ b - 1 \in first + 1..b - 1 /\ k # b - 1
    BY <1>1
  <2>2. CASE k = first
    BY <1>1, <1>5, <2>1, <2>2
  <2>3. CASE k # first
    <3>1. k \in first + 1..b - 1 /\ u[k] = t[k]
      BY <1>1, <1>5, <2>1, <2>3
    <3> QED
      BY <1>1, <3>1
  <2> QED
    BY <2>2, <2>3
<1>9. ASSUME NEW k \in b..end - 1
      PROVE  ~Precedes(u[k], s[first])
  <2>1. k \in 1..N /\ k # first /\ k # b - 1
    BY <1>1
  <2> QED
    BY <1>1, <1>5, <2>1
<1> QED
  BY <1>3, <1>4, <1>7, <1>8, <1>9

\* A call sorts its range if the calls it makes do.
LEMMA DivideSorts ==
  ASSUME NEW N \in Nat, NEW E, Keyed(E), NEW calls \in [RangesOf(N, E) -> [1..N -> E]],
         NEW r \in RangesOf(N, E)
  PROVE  /\ Divide(calls, r) \in [1..N -> E]
         /\ \A d \in Nat : SortsBelow(calls, d, N, E) /\ r[3] - r[2] <= d + 1 =>
              Done(r, Divide(calls, r))
<1> DEFINE s == r[1]
           first == r[2]
           end == r[3]
<1>1. s \in [1..N -> E] /\ first \in 1..N + 1 /\ end \in 1..N + 1
  BY DEF RangesOf
<1>2. CASE first >= end \/ first + 1 = end
  <2>1. Divide(calls, r) = s
    BY <1>2 DEF Divide
  <2>2. Rearranged(s, s, first, end - 1)
    BY DEF Rearranged
  <2> HIDE DEF s, first, end
  <2>3. OrderedIn(s, first, end - 1)
    BY <1>1, <1>2 DEF OrderedIn
  <2> QED
    BY <1>1, <2>1, <2>2, <2>3 DEF Done, s, first, end
<1>3. CASE ~(first >= end \/ first + 1 = end)
  <2> DEFINE p == Partition(s, first, end)
             b == p[2]
             u == Swap(p[1], first, b - 1)
             w == calls[<<u, first, b - 1>>]
             z == calls[<<w, b, end>>]
  <2>1. Divide(calls, r) = z
    BY <1>3 DEF Divide
  <2> HIDE DEF s, first, end
  <2>2. first \in 1..N /\ first + 1 < end
    BY <1>1, <1>3
  <2>3. PartedUpTo(s, p, first, end - first - 1, N, E)
    BY <1>1, <2>2, PartitionIs
  <2> HIDE DEF p
  <2>4. /\ b \in first + 1..end
        /\ u \in [1..N -> E]
        /\ Rearranged(s, u, first, end - 1)
        /\ u[b - 1] = s[first]
        /\ \A k \in first..b - 2 : Precedes(u[k], s[first])
        /\ \A k \in b..end - 1 : ~Precedes(u[k], s[first])
    BY <1>1, <2>2, <2>3, PivotPlaced
  <2> HIDE DEF b, u
  <2>5. b - 1 \in 1..N + 1 /\ b \in 1..N + 1 /\ b - 1 \in first..end - 1
    BY <1>1, <2>2, <2>4
  <2>6. <<u, first, b - 1>> \in RangesOf(N, E)
    BY <1>1, <2>4, <2>5 DEF RangesOf
  <2>7. w \in [1..N -> E]
    BY <2>6
  <2> HIDE DEF w
  <2>8. <<w, b, end>> \in RangesOf(N, E)
    BY <1>1, <2>5, <2>7 DEF RangesOf
  <2>9. z \in [1..N -> E]
    BY <2>8
  <2> SUFFICES ASSUME NEW d \in Nat, SortsBelow(calls, d, N, E), r[3] - r[2] <= d + 1
               PROVE  Done(r, z)
    BY <2>1, <2>9
  <2>10. (b - 1) - first <= d /\ end - b <= d
    <3>1. end - first <= d + 1
      BY DEF first, end
    <3> QED
      BY <1>1, <2>4, <3>1
  <2>11. Done(<<u, first, b - 1>>, w)
    BY <2>6, <2>10 DEF SortsBelow, w
  <2>12. Done(<<w, b, end>>, z)
    BY <2>8, <2>10 DEF SortsBelow
  <2> HIDE DEF z
  <2>13. Rearranged(u, w, first, b - 2) /\ OrderedIn(w, first, b - 2)
    <3>1. (b - 1) - 1 = b - 2
      BY <2>5
    <3> QED
      BY <2>11, <3>1 DEF Done
  <2>14. Rearranged(w, z, b, end - 1) /\ OrderedIn(z, b, end - 1)
    BY <2>12 DEF Done
  <2>15. Rearranged(s, z, first, end - 1)
    <3>1. /\ first \in Int /\ end - 1 \in Int /\ 1 <= first /\ end - 1 <= N
          /\ first <= first /\ end - 1 <= end - 1 /\ b \in Int /\ b - 2 \in Int
          /\ first <= b /\ b - 2 <= end - 1
      BY <1>1, <2>2, <2>4
    <3>2. Rearranged(u, w, first, end - 1)
      BY <2>4, <2>13, <3>1, RearrangedWider
    <3>3. Rearranged(w, z, first, end - 1)
      BY <2>7, <2>14, <3>1, RearrangedWider
    <3>4. DOMAIN s = DOMAIN u /\ DOMAIN u = DOMAIN w
      BY <1>1, <2>4, <2>7
    <3>5. Rearranged(s, w, first, end - 1)
      BY <2>4, <3>2, <3>4, RearrangedTwice
    <3> QED
      BY <3>3, <3>4, <3>5, RearrangedTwice
  <2>16. \A k \in first..end - 1 : k \in 1..N
    BY <1>1
  <2>17. \A k \in b - 1..end - 1 : w[k] = u[k]
    <3>1. \A k \in b - 1..end - 1 : k \in first..end - 1 /\ k \notin first..b - 2
      BY <1>1, <2>4
    <3>2. \A k \in DOMAIN u : k \notin first..b - 2 => w[k] = u[k]
      BY <2>13 DEF Rearranged
    <3> QED
      BY <2>4, <2>16, <3>1, <3>2
  <2>18. \A k \in first..b - 1 : z[k] = w[k]
    <3>1. \A k \in first..b - 1 : k \in first..end - 1 /\ k \notin b..end - 1
      BY <1>1, <2>4
    <3>2. \A k \in DOMAIN w : k \notin b..end - 1 => z[k] = w[k]
      BY <2>14 DEF Rearranged
    <3> QED
      BY <2>7, <2>16, <3>1, <3>2
  <2>19. \A k \in first..b - 2 : Precedes(z[k], s[first])
    <3> DEFINE P == {e \in E : Precedes(e, s[first])}
    <3>1. \A k \in first..b - 2 : k \in first..end - 1 /\ k \in first..b - 1
      BY <1>1, <2>4
    <3>2. \A k \in first..b - 2 : u[k] \in P
      BY <2>4, <2>16, <3>1
    <3> HIDE DEF P
    <3>3. first \in Int /\ b - 2 \in Int
      BY <1>1, <2>5
    <3>4. \A k \in first..b - 2 : w[k] \in P
      BY <2>13, <3>2, <3>3, RearrangedAll
    <3> QED
      BY <2>18, <3>1, <3>4 DEF P
  <2>20. z[b - 1] = s[first]
    BY <2>4, <2>5, <2>17, <2>18
  <2>21. \A k \in b..end - 1 : ~Precedes(z[k], s[first])
    <3> DEFINE P == {e \in E : ~Precedes(e, s[first])}
    <3>1. \A k \in b..end - 1 : k \in b - 1..end - 1 /\ k \in first..end - 1
      BY <1>1, <2>4
    <3>2. \A k \in b..end - 1 : w[k] \in P
      BY <2>4, <2>16, <2>17, <3>1
    <3> HIDE DEF P
    <3>3. b \in Int /\ end - 1 \in Int
      BY <1>1, <2>5
    <3>4. \A k \in b..end - 1 : z[k] \in P
      BY <2>14, <3>2, <3>3, RearrangedAll
    <3> QED
      BY <3>4 DEF P
  <2>22. \A k \in 1..N : z[k] \in E /\ z[k][1] \in Int
    BY <2>9 DEF Keyed
  <2>23. s[first][1] \in Int
    BY <1>1, <2>2 DEF Keyed
  <2>24. ASSUME NEW i \in first..end - 1, NEW j \in first..end - 1, i < j
         PROVE  ~Precedes(z[j], z[i])
    <3>1. z[i][1] \in Int /\ z[j][1] \in Int
      BY <2>16, <2>22
    <3>2. CASE j < b - 1
      <4>1. i \in first..b - 2 /\ j \in first..b - 2 /\ i \in first..b - 1 /\ j \in first..b - 1
        BY <1>1, <2>4, <2>24, <3>2
      <4>2. z[i] = w[i] /\ z[j] = w[j]
        BY <2>18, <4>1
      <4> QED
        BY <2>13, <2>24, <4>1, <4>2 DEF OrderedIn
    <3>3. CASE i >= b
      <4>1. i \in b..end - 1 /\ j \in b..end - 1
        BY <1>1, <2>4, <2>24, <3>3
      <4> QED
        BY <2>14, <2>24, <4>1 DEF OrderedIn
    <3>4. CASE i < b /\ j >= b - 1
      <4>1. i \in first..b - 2 \/ i = b - 1
        BY <1>1, <2>4, <3>4
      <4>2. j \in b..end - 1 \/ j = b - 1
        BY <1>1, <2>4, <3>4
      <4>3. z[i][1] <= s[first][1]
        BY <2>19, <2>20, <2>23, <3>1, <4>1 DEF Precedes
      <4>4. s[first][1] <= z[j][1]
        BY <2>20, <2>21, <2>23, <3>1, <4>2 DEF Precedes
      <4> QED
        BY <2>23, <3>1, <4>3, <4>4 DEF Precedes
    <3> QED
      BY <1>1, <2>4, <2>24, <3>2, <3>3, <3>4
  <2>25. OrderedIn(z, first, end - 1)
    BY <2>24 DEF OrderedIn
  <2> QED
    BY <2>15, <2>25 DEF Done, s, first, end
<1> QED
  BY <1>2, <1>3

\* Quicksort sorts.
LEMMA QuickSorts ==
  ASSUME NEW N \in Nat, NEW E, Keyed(E), NEW s \in [1..N -> E]
  PROVE  Sorted(s, QuickSort(s), N, E)
<1> DEFINE F == {s[i] : i \in DOMAIN s}
           R == RangesOf(N, F)
           V == [R -> [1..N -> F]]
           x == [r \in R |-> r[1]]
           g == [y \in (1..N) \X V |-> [r \in R |-> Divide(y[2], r)]]
           f == CHOOSE f : f = [depth \in 0..Len(s) |->
                                  IF depth = 0 THEN [r \in Ranges(s) |-> r[1]]
                                  ELSE [r \in Ranges(s) |-> Divide(f[depth - 1], r)]]
<1>1. QuickSort(s) = f[Len(s)][<<s, 1, Len(s) + 1>>]
  BY DEF QuickSort
<1> HIDE DEF f
<1>2. Len(s) = N /\ DOMAIN s = 1..N
  BY RangeLen
<1>3. Ranges(s) = R
  BY <1>2 DEF Ranges, RangesOf
<1>4. s \in [1..N -> F] /\ F \subseteq E /\ Keyed(F)
  BY DEF Keyed
<1> HIDE DEF F
<1>5. x \in V
  BY DEF RangesOf
<1>6. ASSUME NEW calls \in V
      PROVE  [r \in R |-> Divide(calls, r)] \in V
  <2>1. calls \in [RangesOf(N, F) -> [1..N -> F]]
    OBVIOUS
  <2>2. \A r \in RangesOf(N, F) : Divide(calls, r) \in [1..N -> F]
    BY <1>4, <2>1, DivideSorts
  <2> QED
    BY <2>2
<1>7. g \in [(1..N) \X V -> V]
  BY <1>6
<1>8. PICK h \in [0..N -> V] : Unfolds(h, x, N, g)
  <2> HIDE DEF V, g, x
  <2> QED
    BY <1>5, <1>7, Recursion
<1>9. h[0] = x
  BY <1>8 DEF Unfolds
<1>10. ASSUME NEW d \in 1..N
       PROVE  h[d] = [r \in R |-> Divide(h[d - 1], r)]
  <2> HIDE DEF R, V
  <2>1. d - 1 \in 0..N
    OBVIOUS
  <2>2. h[d - 1] \in V
    BY <2>1
  <2> QED
    BY <1>8, <2>2 DEF Unfolds
<1> HIDE DEF R, g
<1>11. h = [depth \in 0..Len(s) |-> IF depth = 0 THEN [r \in Ranges(s) |-> r[1]]
                                    ELSE [r \in Ranges(s) |-> Divide(h[depth - 1], r)]]
  <2>1. \A d \in 0..N : h[d] = IF d = 0 THEN [r \in R |-> r[1]]
                               ELSE [r \in R |-> Divide(h[d - 1], r)]
    <3>1. ASSUME NEW d \in 0..N, d # 0
          PROVE  h[d] = [r \in R |-> Divide(h[d - 1], r)]
      <4>1. d \in 1..N
        BY <3>1
      <4> QED
        BY <1>10, <4>1
    <3> QED
      BY <1>9, <3>1
  <2> HIDE DEF V
  <2>2. h = [d \in 0..N |-> IF d = 0 THEN [r \in R |-> r[1]]
                            ELSE [r \in R |-> Divide(h[d - 1], r)]]
    BY <2>1
  <2> QED
    BY <1>2, <1>3, <2>2
<1>12. f = [depth \in 0..Len(s) |-> IF depth = 0 THEN [r \in Ranges(s) |-> r[1]]
                                    ELSE [r \in Ranges(s) |-> Divide(f[depth - 1], r)]]
  BY <1>11, Zenon DEF f
<1>13. f[0] = x /\ \A d \in 1..N : f[d] = [r \in R |-> Divide(f[d - 1], r)]
  <2>1. \A d \in 0..N : f[d] = IF d = 0 THEN [r \in R |-> r[1]]
                               ELSE [r \in R |-> Divide(f[d - 1], r)]
    BY <1>2, <1>3, <1>12
  <2>2. 0 \in 0..N /\ \A d \in 1..N : d \in 0..N /\ d # 0
    OBVIOUS
  <2> QED
    BY <2>1, <2>2
<1> DEFINE T == {d \in 0..N : f[d] \in V /\ SortsBelow(f[d], d, N, F)}
<1>14. 0 \in T
  <2>1. SortsBelow(x, 0, N, F)
    <3>1. SUFFICES ASSUME NEW r \in RangesOf(N, F), r[3] - r[2] <= 0
                   PROVE  Done(r, x[r])
      BY DEF SortsBelow
    <3>2. x[r] = r[1]
      BY DEF R
    <3>3. r[2] \in Int /\ r[3] \in Int
      BY DEF RangesOf
    <3>4. Rearranged(r[1], r[1], r[2], r[3] - 1)
      BY DEF Rearranged
    <3>5. OrderedIn(r[1], r[2], r[3] - 1)
      BY <3>1, <3>3 DEF OrderedIn
    <3> QED
      BY <3>2, <3>4, <3>5 DEF Done
  <2> HIDE DEF V, x
  <2> QED
    BY <1>5, <1>13, <2>1
<1>15. ASSUME NEW d \in 0..N - 1, d \in T
       PROVE  d + 1 \in T
  <2>1. d + 1 \in 1..N /\ (d + 1) - 1 = d /\ d + 1 \in 0..N /\ d \in Nat
    OBVIOUS
  <2>2. f[d] \in [RangesOf(N, F) -> [1..N -> F]] /\ SortsBelow(f[d], d, N, F)
    BY <1>15 DEF R
  <2>3. f[d + 1] = [r \in R |-> Divide(f[d], r)]
    BY <1>13, <2>1
  <2>4. f[d + 1] \in V
    BY <1>6, <2>2, <2>3 DEF R
  <2>5. SortsBelow(f[d + 1], d + 1, N, F)
    <3>1. SUFFICES ASSUME NEW r \in RangesOf(N, F), r[3] - r[2] <= d + 1
                   PROVE  Done(r, f[d + 1][r])
      BY DEF SortsBelow
    <3>2. f[d + 1][r] = Divide(f[d], r)
      BY <2>3 DEF R
    <3>3. \A n \in Nat : SortsBelow(f[d], n, N, F) /\ r[3] - r[2] <= n + 1 =>
                        Done(r, Divide(f[d], r))
      BY <1>4, <2>2, DivideSorts
    <3> QED
      BY <2>1, <2>2, <3>1, <3>2, <3>3
  <2> QED
    BY <2>1, <2>4, <2>5
<1> HIDE DEF T
<1>16. N \in T
  <2>1. N \in 0..N
    OBVIOUS
  <2> QED
    BY <1>14, <1>15, <2>1, InductionTo
<1> DEFINE r == <<s, 1, N + 1>>
           t == f[N][r]
<1>17. r \in RangesOf(N, F) /\ r[1] = s /\ r[2] = 1 /\ r[3] = N + 1 /\ r[3] - 1 = N /\ r[3] - r[2] <= N
  BY <1>4 DEF RangesOf
<1> HIDE DEF r
<1>18. t \in [1..N -> F] /\ Done(r, t)
  BY <1>16, <1>17 DEF T, R, SortsBelow
<1>19. t \in [1..N -> E]
  BY <1>4, <1>18
<1> QED
  BY <1>1, <1>2, <1>17, <1>18, <1>19 DEF Sorted, Done, r

----------------------------------------------------------------------------
\* A range that was sorted is right.
LEMMA SortedIsRight ==
  ASSUME NEW N \in Nat, NEW E, NEW s \in [1..N -> E], NEW t, Sorted(s, t, N, E)
  PROVE  Permutation(s, t) /\ Ordered(t)
<1>1. t \in [1..N -> E] /\ Between(t, 1, N) = Between(s, 1, N) /\ OrderedIn(t, 1, N)
  BY DEF Sorted, Rearranged
<1>2. Len(s) = N /\ Len(t) = N /\ DOMAIN s = 1..N /\ DOMAIN t = 1..N
  BY <1>1, RangeLen
<1> QED
  BY <1>1, <1>2 DEF Permutation, Ordered, OrderedIn, Between

\* The range came as a sequence of tagged elements, and stays as it came until it is
\* sorted.
SortInv ==
  /\ \E n \in 0..MaxLength : original \in [1..n -> SortKey \X (1..MaxLength)]
  /\ Tagged(original)
  /\ by = "none" => range = original
  /\ SortsRight

\* Keys are whole numbers, and so are positions.
LEMMA KeysAre ==
  /\ \A key \in SortKey : key \in Int
  /\ MaxLength \in Nat
  /\ \A n \in 0..MaxLength : n \in Nat /\ \A i \in 1..n : i \in 1..MaxLength
<1>1. SortKey \subseteq Int /\ MaxLength \in Nat
  BY SortAssumption
<1> QED
  BY <1>1

\* It holds at first.
LEMMA SortStart == SortInit => SortInv
<1> SUFFICES ASSUME SortInit
             PROVE  SortInv
  OBVIOUS
<1>1. PICK n \in 0..MaxLength, f \in [1..MaxLength -> SortKey] :
        original = [i \in 1..n |-> <<f[i], i>>]
  BY DEF SortInit
<1>2. \A i \in 1..n : i \in 1..MaxLength /\ f[i] \in SortKey /\ f[i] \in Int
  <2>1. \A i \in 1..n : i \in 1..MaxLength
    BY KeysAre
  <2>2. \A i \in 1..MaxLength : f[i] \in SortKey
    OBVIOUS
  <2> QED
    BY <2>1, <2>2, KeysAre
<1>3. original \in [1..n -> SortKey \X (1..MaxLength)]
  BY <1>1, <1>2
<1>4. Tagged(original)
  BY <1>1, <1>2 DEF Tagged
<1>5. by = "none" /\ range = original
  BY DEF SortInit
<1> QED
  BY <1>3, <1>4, <1>5 DEF SortInv, SortsRight

\* Every step keeps it.
LEMMA SortNextKeeps == SortInv /\ [SortNext]_sortVars => SortInv'
<1> SUFFICES ASSUME SortInv, [SortNext]_sortVars
             PROVE  SortInv'
  OBVIOUS
<1>1. CASE UNCHANGED sortVars
  <2>1. original' = original /\ range' = range /\ by' = by
    BY <1>1 DEF sortVars
  <2>2. Tagged(original')
    BY <2>1 DEF SortInv
  <2>3. SortsRight'
    <3>1. Permutation(original, range)' <=> Permutation(original, range)
      BY <2>1 DEF Permutation
    <3>2. Ordered(range)' <=> Ordered(range)
      BY <2>1 DEF Ordered
    <3>3. Stable(range)' <=> Stable(range)
      BY <2>1 DEF Stable
    <3> QED
      BY <2>1, <3>1, <3>2, <3>3 DEF SortInv, SortsRight
  <2> QED
    BY <2>1, <2>2, <2>3 DEF SortInv
<1>2. CASE SortNext
  <2> DEFINE E == SortKey \X (1..MaxLength)
  <2>1. PICK N \in 0..MaxLength : original \in [1..N -> E]
    BY DEF SortInv
  <2>2. N \in Nat /\ Keyed(E)
    <3>1. \A e \in E : e[1] \in SortKey
      OBVIOUS
    <3> QED
      BY <3>1, KeysAre DEF Keyed
  <2>3. by = "none" /\ range = original /\ Tagged(original) /\ original' = original
    BY <1>2 DEF SortNext, Sorts, SortInv
  <2> HIDE DEF E
  <2>4. CASE by' = "insertion" /\ range' = InsertionSort(original)
    <3> DEFINE t == InsertionSort(original)
    <3>1. SunkUpTo(original, t, N, N, E)
      BY <2>1, <2>2, <2>3, InsertionSorts
    <3> HIDE DEF t
    <3>2. t \in [1..N -> E] /\ InTurn(t, 1, N)
      BY <3>1 DEF SunkUpTo
    <3>3. OrderedIn(t, 1, N)
      <4>1. \A k \in 1..N : t[k][1] \in Int
        BY <2>2, <3>2 DEF Keyed
      <4> QED
        BY <3>2, <4>1 DEF InTurn, OrderedIn, Precedes
    <3>4. Sorted(original, t, N, E)
      BY <3>1, <3>3 DEF SunkUpTo, Sorted
    <3>5. Permutation(original, t) /\ Ordered(t)
      BY <2>1, <2>2, <3>4, SortedIsRight
    <3>6. Stable(t)
      <4>1. \A k \in 1..N : t[k][1] \in Int
        BY <2>2, <3>2 DEF Keyed
      <4> QED
        BY <3>2, <4>1 DEF InTurn, Stable
    <3>7. range' = t
      BY <2>4 DEF t
    <3>8. SortsRight'
      BY <2>3, <3>5, <3>6, <3>7 DEF SortsRight, Permutation, Ordered, Stable
    <3> QED
      BY <2>1, <2>3, <2>4, <3>8 DEF SortInv, E, Tagged
  <2>5. CASE by' \notin {"none", "insertion"} /\ range' \in {MinSort(original), QuickSort(original)}
    <3>1. Sorted(original, MinSort(original), N, E)
      BY <2>1, <2>2, MinSorts
    <3>2. Sorted(original, QuickSort(original), N, E)
      BY <2>1, <2>2, QuickSorts
    <3>3. \A t : Sorted(original, t, N, E) => Permutation(original, t) /\ Ordered(t)
      BY <2>1, <2>2, SortedIsRight
    <3>4. PICK t : range' = t /\ Sorted(original, t, N, E)
      BY <2>5, <3>1, <3>2
    <3>5. Permutation(original, t) /\ Ordered(t)
      BY <3>3, <3>4
    <3>6. SortsRight'
      BY <2>3, <2>5, <3>4, <3>5 DEF SortsRight, Permutation, Ordered
    <3> QED
      BY <2>1, <2>3, <2>5, <3>6 DEF SortInv, E, Tagged
  <2> QED
    BY <1>2, <2>3, <2>4, <2>5 DEF SortNext, Sorts
<1> QED
  BY <1>1, <1>2

\* Each of the three algorithms leaves the elements it was given, in order; insertion
\* sort keeps equals in the order they came in (sorting.h).  For ranges of any length,
\* whatever is equal among them.
THEOREM SortingIsRight == SortSpec => []SortsRight
<1>1. SortInv => SortsRight
  BY DEF SortInv
<1> QED
  BY <1>1, SortStart, SortNextKeeps, PTL DEF SortSpec

----------------------------------------------------------------------------
(***************************************************************************)
(* Events, for every set of threads: a broadcast reaches all that sleep,   *)
(* and a single trigger one of them unless waits are timed.                *)
(***************************************************************************)

\* Every step keeps the types.
LEMMA EventTypeNext == EventTypeOK /\ [EventNext]_eventVars => EventTypeOK'
<1> SUFFICES ASSUME EventTypeOK, [EventNext]_eventVars
             PROVE  EventTypeOK'
  OBVIOUS
<1>1. ASSUME NEW t \in Thread, EnterWait(t)
      PROVE  EventTypeOK'
  BY <1>1 DEF EventTypeOK, EnterWait
<1>2. ASSUME NEW t \in Thread, Expire(t)
      PROVE  EventTypeOK'
  BY <1>2 DEF EventTypeOK, Expire
<1>3. CASE TriggerAll \/ TriggerOne \/ Reset
  BY <1>3 DEF EventTypeOK, TriggerAll, TriggerOne, SignalOne, Reset
<1>4. CASE Close \/ DestructorReturns \/ UNCHANGED eventVars
  BY <1>4 DEF EventTypeOK, Close, DestructorReturns, eventVars
<1> QED
  BY <1>1, <1>2, <1>3, <1>4 DEF EventNext, Wait, Wake, Spurious

\* The types hold for ever.
LEMMA EventTypeAlways == EventSpec => []EventTypeOK
<1>1. EventInit => EventTypeOK
  BY DEF EventInit, EventTypeOK
<1> QED
  BY <1>1, EventTypeNext, PTL DEF EventSpec

\* Every step keeps a broadcast in force for those that sleep.
LEMMA BroadcastWakesNext ==
  EventTypeOK /\ BroadcastWakes /\ [EventNext]_eventVars => BroadcastWakes'
<1> SUFFICES ASSUME EventTypeOK, BroadcastWakes, [EventNext]_eventVars
             PROVE  BroadcastWakes'
  OBVIOUS
<1>1. ASSUME NEW t \in Thread, EnterWait(t) \/ Expire(t)
      PROVE  BroadcastWakes'
  BY <1>1 DEF EventTypeOK, BroadcastWakes, EnterWait, Expire
<1>2. CASE TriggerAll \/ Reset \/ Close
  BY <1>2 DEF BroadcastWakes, TriggerAll, Reset, Close
<1>3. CASE TriggerOne
  BY <1>3 DEF BroadcastWakes, TriggerOne
<1>4. CASE DestructorReturns \/ UNCHANGED eventVars
  BY <1>4 DEF BroadcastWakes, DestructorReturns, eventVars
<1> QED
  BY <1>1, <1>2, <1>3, <1>4 DEF EventNext, Wait, Wake, Spurious

\* A broadcast wakes up everybody who sleeps (PThreadEvent::trigger(true) and
\* wait), whether they wait for a limited time or not.
THEOREM BroadcastReachesAll == EventSpec => []BroadcastWakes
<1>1. EventInit => BroadcastWakes
  BY DEF EventInit, BroadcastWakes
<1> QED
  BY <1>1, BroadcastWakesNext, EventTypeAlways, PTL DEF EventSpec

----------------------------------------------------------------------------
\* Every step keeps a single trigger from being forgotten, if no wait is timed.
LEMMA TriggerWakesOneNext ==
  ASSUME Timed = {}
  PROVE  EventTypeOK /\ TriggerWakesOne /\ [EventNext]_eventVars => TriggerWakesOne'
<1> SUFFICES ASSUME EventTypeOK, TriggerWakesOne, [EventNext]_eventVars
             PROVE  TriggerWakesOne'
  OBVIOUS
<1>1. ASSUME NEW t \in Thread, EnterWait(t)
      PROVE  TriggerWakesOne'
  BY <1>1 DEF EventTypeOK, TriggerWakesOne, EnterWait
<1>2. ASSUME NEW t \in Thread, Expire(t)
      PROVE  FALSE
  BY <1>2 DEF Expire
<1>3. CASE TriggerAll \/ Reset \/ Close
  BY <1>3 DEF TriggerWakesOne, TriggerAll, Reset, Close
<1>4. CASE TriggerOne
  BY <1>4 DEF EventTypeOK, TriggerWakesOne, TriggerOne, SignalOne
<1>5. CASE DestructorReturns \/ UNCHANGED eventVars
  BY <1>5 DEF TriggerWakesOne, DestructorReturns, eventVars
<1> QED
  BY <1>1, <1>2, <1>3, <1>4, <1>5 DEF EventNext, Wait, Wake, Spurious

\* A single trigger wakes up one of those that sleep, as long as no thread waits
\* for a limited time only.
THEOREM NoTriggerForgotten ==
  ASSUME Timed = {}
  PROVE  EventSpec => []TriggerWakesOne
<1>1. EventInit => TriggerWakesOne
  BY DEF EventInit, TriggerWakesOne
<1> QED
  BY <1>1, TriggerWakesOneNext, EventTypeAlways, PTL DEF EventSpec

----------------------------------------------------------------------------
(***************************************************************************)
(* Worker threads, for any number of them: a thread outlives its object    *)
(* only when it was killed without waiting, and nobody waits twice.        *)
(***************************************************************************)

\* The types of the thread objects.
WorkerTypeOK ==
  /\ object \in [Worker -> {"none", "live", "killing", "closing", "deleted"}]
  /\ thread \in [Worker -> {"none", "new", "entered", "running", "ended"}]
  /\ started \subseteq Worker
  /\ stopped \subseteq Worker
  /\ cancelled \subseteq Worker
  /\ joins \in [Worker -> Nat]
  /\ touched \subseteq Worker

\* bStarted tells which threads are still to be waited for: those neither waited
\* for nor cancelled.
StartedUnjoined ==
  \A w \in started :
    joins[w] = 0 /\ w \notin cancelled /\ object[w] \in {"live", "killing", "closing"}

\* An object waits for a thread only if that has been started.
WaitsForStarted == \A w \in Worker : object[w] \in {"killing", "closing"} => w \in started

\* The thread of an object that is not started has ended, if it was not cancelled.
UnstartedEnded ==
  \A w \in Worker \ started : w \notin cancelled => thread[w] \in {"none", "ended"}

\* What ObjectsOutliveThreads rests on.
WorkerInv ==
  /\ WorkerTypeOK
  /\ StartedUnjoined
  /\ WaitsForStarted
  /\ UnstartedEnded
  /\ \A w \in Worker : object[w] = "none" => joins[w] = 0 /\ w \notin cancelled
  /\ ThreadsEndFirst

\* It holds at first.
LEMMA WorkersStart == WorkerInit => WorkerInv
BY DEF WorkerInit, WorkerInv, WorkerTypeOK, StartedUnjoined, WaitsForStarted,
       UnstartedEnded, ThreadsEndFirst

\* The thread's own steps: none is taken by a thread that has ended, so one whose
\* object is deleted was cancelled.
LEMMA ThreadSteps ==
  ASSUME WorkerInv, NEW w \in Worker,
         EntryPoint(w) \/ Run(w) \/ Return(w) \/ Cancelled(w)
  PROVE  WorkerInv'
<1>1. ASSUME NEW from \in {"new", "entered", "running"},
             NEW to \in {"entered", "running", "ended"}, Proceeds(w, from, to)
      PROVE  WorkerInv'
  <2>1. /\ thread' = [thread EXCEPT ![w] = to] /\ thread[w] = from
        /\ UNCHANGED <<object, started, stopped, cancelled, joins>>
    BY <1>1 DEF Proceeds
  <2>2. w \in started \/ w \in cancelled
    BY <2>1 DEF WorkerInv, UnstartedEnded
  <2>3. touched' \subseteq touched \cup {w} /\ (touched' # touched => object[w] = "deleted")
    BY <1>1 DEF Proceeds
  <2>4. object[w] = "deleted" => w \in cancelled
    BY <2>2 DEF WorkerInv, StartedUnjoined
  <2>5. touched' \subseteq cancelled' /\ touched' \subseteq Worker
    BY <2>1, <2>3, <2>4 DEF WorkerInv, ThreadsEndFirst, WorkerTypeOK
  <2>6. UnstartedEnded'
    BY <2>1, <2>2 DEF WorkerInv, UnstartedEnded, WorkerTypeOK
  <2>7. WorkerTypeOK'
    BY <2>1, <2>5 DEF WorkerInv, WorkerTypeOK
  <2> QED
    BY <2>1, <2>5, <2>6, <2>7 DEF WorkerInv, StartedUnjoined, WaitsForStarted, ThreadsEndFirst
<1>2. CASE Cancelled(w)
  BY <1>2 DEF Cancelled, WorkerInv, WorkerTypeOK, StartedUnjoined, WaitsForStarted,
              UnstartedEnded, ThreadsEndFirst
<1> QED
  BY <1>1, <1>2 DEF EntryPoint, Run, Return

\* The owner's calls: whoever waits removes the thread from those started, so that
\* it is waited for once.
LEMMA OwnerSteps ==
  ASSUME WorkerInv, NEW w \in Worker,
         Create(w) \/ Kill(w) \/ KillAtOnce(w) \/ Delete(w) \/ Joined(w)
  PROVE  WorkerInv'
<1>1. CASE Create(w)
  <2>1. w \notin started /\ joins[w] = 0 /\ w \notin cancelled
    BY <1>1 DEF Create, WorkerInv, StartedUnjoined
  <2> QED
    BY <1>1, <2>1 DEF Create, WorkerInv, WorkerTypeOK, StartedUnjoined, WaitsForStarted,
                      UnstartedEnded, ThreadsEndFirst
<1>2. CASE Kill(w) \/ Delete(w)
  BY <1>2 DEF Kill, Delete, WorkerInv, WorkerTypeOK, StartedUnjoined, WaitsForStarted,
              UnstartedEnded, ThreadsEndFirst
<1>3. CASE KillAtOnce(w)
  BY <1>3 DEF KillAtOnce, WorkerInv, WorkerTypeOK, StartedUnjoined, WaitsForStarted,
              UnstartedEnded, ThreadsEndFirst
<1>4. CASE Joined(w)
  <2>1. w \in started /\ joins[w] = 0 /\ w \notin cancelled
    BY <1>4 DEF Joined, WorkerInv, WaitsForStarted, StartedUnjoined
  <2> QED
    BY <1>4, <2>1 DEF Joined, WorkerInv, WorkerTypeOK, StartedUnjoined, WaitsForStarted,
                      UnstartedEnded, ThreadsEndFirst
<1> QED
  BY <1>1, <1>2, <1>3, <1>4

\* Each step keeps it.
LEMMA WorkerStep == WorkerInv /\ [WorkerNext]_workerVars => WorkerInv'
<1> SUFFICES ASSUME WorkerInv, [WorkerNext]_workerVars PROVE WorkerInv'
  OBVIOUS
<1>1. CASE UNCHANGED workerVars
  BY <1>1 DEF workerVars, WorkerInv, WorkerTypeOK, StartedUnjoined, WaitsForStarted,
              UnstartedEnded, ThreadsEndFirst
<1> QED
  BY <1>1, ThreadSteps, OwnerSteps DEF WorkerNext

\* A thread outlives its object, and uses it, only when it was killed without
\* waiting; no thread is waited for twice, or after it was cancelled
\* (runnable_pthread.cpp, the destructor in runnable_pthread.h).
THEOREM ObjectsOutliveThreads == WorkerSpec => []ThreadsEndFirst
<1>1. WorkerInv => ThreadsEndFirst
  BY DEF WorkerInv
<1> QED
  BY <1>1, WorkersStart, WorkerStep, PTL DEF WorkerSpec

----------------------------------------------------------------------------
(***************************************************************************)
(* The digest, for texts of any length: what is hashed is the whole text   *)
(* and its length, and which texts are not hashed.                         *)
(***************************************************************************)

\* What is in the copy of the text after each stage.
Contents ==
  [text    |-> [i \in 0..len - 1 |-> Text(i)],
   marked  |-> [i \in 0..len |-> IF i = len THEN One ELSE Text(i)],
   resized |-> [i \in 0..Align - 1 |-> IF i < len THEN Text(i)
                                       ELSE IF i = len THEN One ELSE Unwritten],
   padded  |-> [i \in 0..Align - 1 |-> IF i < len THEN Text(i)
                                       ELSE IF i = len THEN One
                                       ELSE IF i <= Align - 8 THEN Nil ELSE Unwritten]]

\* What DigestsAreOfTheText rests on: what the copy holds at each stage.
DigestInv ==
  /\ len \in Nat
  /\ stage \in {"text", "marked", "resized", "padded", "hashed", "initial"}
  /\ stage = "text" => data = Contents.text
  /\ stage = "marked" => data = Contents.marked
  /\ stage = "resized" => data = Contents.resized
  /\ stage = "padded" => Padding >= 8 /\ data = Contents.padded
  /\ DigestsWhole

\* The last block begins at or before the end of the text, so that 1 to 64 bytes
\* are left in it.
LEMMA LastBlock ==
  ASSUME NEW n \in Nat
  PROVE  LET up == AlignUp(n + 1, Block)
         IN  /\ up \in Nat /\ up > n
             /\ up - n = 8 => n % Block = 56
             /\ up - n < 8 => n % Block \in 57..63
BY DEF AlignUp, Block

\* A byte that nobody wrote is none of those that are written.
LEMMA BytesDiffer == \A i : Unwritten \notin {Length, Text(i), One, Nil}
<1>1. \A i : Unwritten[1] # Length[1] /\ Unwritten[1] # Text(i)[1]
  BY DEF Text, Length, Unwritten
<1>2. Unwritten[1] # One[1] /\ Unwritten[1] # Nil[1]
  BY DEF One, Nil, Unwritten
<1> QED
  BY <1>1, <1>2

\* It holds at first.
LEMMA DigestStarts == DigestInit => DigestInv
BY DigestAssumption DEF DigestInit, DigestInv, Contents, DigestsWhole

\* Each step keeps it.
LEMMA DigestStep == DigestInv /\ [DigestNext]_digestVars => DigestInv'
<1> SUFFICES ASSUME DigestInv, [DigestNext]_digestVars PROVE DigestInv'
  OBVIOUS
<1>1. Align \in Nat /\ Align > len
  BY LastBlock DEF DigestInv, Align
<1>2. Padding = 8 => len % Block = 56
  BY LastBlock DEF DigestInv, Align, Padding
<1>3. Padding < 8 => len % Block \in 57..63
  BY LastBlock DEF DigestInv, Align, Padding
<1>4. CASE Mark
  BY <1>4 DEF Mark, Stage, DigestInv, Contents, DigestsWhole
<1>5. CASE Enlarge
  <2>1. data = Contents.marked /\ len' = len /\ stage' = "resized"
    BY <1>5 DEF Enlarge, Stage, DigestInv
  <2>2. data' = Contents.resized
    BY <1>1, <1>5, <2>1 DEF Enlarge, Stage, DigestInv, Contents
  <2>3. Contents.resized' = Contents.resized
    BY <2>1 DEF Contents, Align
  <2> QED
    BY <2>1, <2>2, <2>3 DEF DigestInv, DigestsWhole
<1>6. CASE GiveUp
  BY <1>3, <1>6 DEF GiveUp, Stage, DigestInv, DigestsWhole
<1>7. CASE Pad
  <2>1. /\ data = Contents.resized /\ len' = len /\ stage' = "padded" /\ Padding >= 8
        /\ data' = [i \in DOMAIN data |-> IF i \in len + 1..len + Padding - 8 THEN Nil ELSE data[i]]
    BY <1>7 DEF Pad, Stage, DigestInv
  <2>2. data' = Contents.padded
    BY <1>1, <2>1 DEF DigestInv, Contents, Padding
  <2>3. Contents.padded' = Contents.padded /\ Padding' = Padding
    BY <2>1 DEF Contents, Align, Padding
  <2> QED
    BY <2>1, <2>2, <2>3 DEF DigestInv, DigestsWhole
<1>8. CASE Hash
  <2>1. /\ data = Contents.padded /\ len' = len /\ stage' = "hashed" /\ Padding >= 8
        /\ data' = [i \in DOMAIN data |-> IF i >= Align - 8 THEN Length ELSE data[i]]
    BY <1>8 DEF Hash, Stage, DigestInv
  <2>2. DOMAIN data' = 0..Align - 1 /\ len <= Align - 8
    BY <1>1, <2>1 DEF Contents, Padding, DigestInv
  <2>3. \A i \in 0..Align - 1 : data'[i] # Unwritten
    <3>1. \A i \in 0..Align - 1 : data'[i] \in {Length, Text(i), One, Nil}
      BY <1>1, <2>1, <2>2 DEF Contents, DigestInv
    <3> QED
      BY <3>1, BytesDiffer
  <2>4. \A i \in 0..len - 1 : data'[i] = Text(i)
    BY <1>1, <2>1, <2>2 DEF Contents, DigestInv
  <2>5. data'[Align - 1] = Length
    BY <1>1, <2>1, <2>2 DEF DigestInv
  <2>6. data'[len] = One \/ len % Block = 56
    BY <1>1, <1>2, <2>1, <2>2 DEF Contents, DigestInv, Padding
  <2>7. DigestsWhole'
    <3>1. Align - 1 \in 0..Align - 1
      BY <1>1, <2>2 DEF DigestInv
    <3> QED
      BY <2>1, <2>2, <2>3, <2>4, <2>5, <2>6, <3>1 DEF DigestsWhole
  <2> QED
    BY <2>1, <2>7 DEF DigestInv
<1>9. CASE UNCHANGED digestVars
  BY <1>9 DEF digestVars, DigestInv, Contents, Align, Padding, DigestsWhole
<1> QED
  BY <1>4, <1>5, <1>6, <1>7, <1>8, <1>9 DEF DigestNext

\* What is hashed is a function of the text, of any length: every character and the
\* length, and no byte that nobody wrote; texts that are not hashed are those whose
\* length is 57 to 63 above a multiple of 64 (sha1.cpp).
THEOREM DigestsAreOfTheText == DigestSpec => []DigestsWhole
<1>1. DigestInv => DigestsWhole
  BY DEF DigestInv
<1> QED
  BY <1>1, DigestStarts, DigestStep, PTL DEF DigestSpec

----------------------------------------------------------------------------
(***************************************************************************)
(* Matrices and quaternions.  Each instruction is first said lane by lane; *)
(* what remains are identities of polynomials, which need vectors to be    *)
(* taken apart into numbers.                                               *)
(***************************************************************************)

\* Vectors of four lanes, and matrices of four rows.
Vec == Int \X Int \X Int \X Int
Mat == Vec \X Vec \X Vec \X Vec

\* Lanes of vectors.
LEMMA VecIs ==
  ASSUME NEW v \in Vec
  PROVE  /\ v[1] \in Int /\ v[2] \in Int /\ v[3] \in Int /\ v[4] \in Int
         /\ v = <<v[1], v[2], v[3], v[4]>> /\ DOMAIN v = 1..4
BY DEF Vec

\* Lanes multiplied.
LEMMA MulIs ==
  ASSUME NEW v \in Vec, NEW w \in Vec
  PROVE  Mul(v, w) = <<v[1] * w[1], v[2] * w[2], v[3] * w[3], v[4] * w[4]>>
<1>1. DOMAIN v = 1..4
  BY VecIs
<1> QED
  BY <1>1 DEF Mul

\* Two lanes after two others.
LEMMA PairsJoined ==
  ASSUME NEW x, NEW y, NEW z, NEW u
  PROVE  <<x, y>> \o <<z, u>> = <<x, y, z, u>>
<1> DEFINE S == {x, y, z, u}
           s == <<x, y>>
           t == <<z, u>>
           r == <<x, y, z, u>>
<1>1. s \in Seq(S) /\ t \in Seq(S) /\ r \in Seq(S) /\ Len(s) = 2 /\ Len(t) = 2 /\ Len(r) = 4
  OBVIOUS
<1>2. s[1] = x /\ s[2] = y /\ t[1] = z /\ t[2] = u /\ r[1] = x /\ r[2] = y /\ r[3] = z /\ r[4] = u
  OBVIOUS
<1> HIDE DEF S, s, t, r
<1>3. s \o t \in Seq(S) /\ Len(s \o t) = 2 + 2
      /\ \A i \in 1..2 + 2 : (s \o t)[i] = IF i <= 2 THEN s[i] ELSE t[i - 2]
  <2>1. /\ s \o t \in Seq(S) /\ Len(s \o t) = Len(s) + Len(t)
        /\ \A i \in 1..Len(s) + Len(t) : (s \o t)[i] = IF i <= Len(s) THEN s[i] ELSE t[i - Len(s)]
    BY <1>1, ConcatProperties, Zenon
  <2> QED
    BY <1>1, <2>1, Zenon
<1>4. \A i \in 1..Len(s \o t) : (s \o t)[i] = r[i]
  <2>1. /\ (s \o t)[1] = s[1] /\ (s \o t)[2] = s[2]
        /\ (s \o t)[3] = t[1] /\ (s \o t)[4] = t[2]
    BY <1>3
  <2>2. \A i \in 1..Len(s \o t) : i = 1 \/ i = 2 \/ i = 3 \/ i = 4
    BY <1>3
  <2> QED
    BY <1>2, <2>1, <2>2
<1>5. s \o t = r
  BY <1>1, <1>3, <1>4, SeqEqual
<1> QED
  BY <1>5 DEF s, t, r

\* A shuffle of two vectors takes two lanes of each.
LEMMA Shuffle2Is ==
  ASSUME NEW v, NEW w, NEW a \in Int, NEW b \in Int, NEW c \in Int, NEW d \in Int
  PROVE  Shuffle2(v, w, <<a, b, c, d>>) = <<v[a + 1], v[b + 1], w[c + 1], w[d + 1]>>
<1>1. SubSeq(<<a, b, c, d>>, 1, 2) = <<a, b>> /\ SubSeq(<<a, b, c, d>>, 3, 4) = <<c, d>>
  <2> DEFINE s == <<a, b, c, d>>
  <2>1. IsSeqOf(<<a, b>>, 2) /\ IsSeqOf(<<c, d>>, 2)
    BY DEF IsSeqOf
  <2>2. /\ s[1] = a /\ s[2] = b /\ s[3] = c /\ s[4] = d
        /\ <<a, b>>[1] = a /\ <<a, b>>[2] = b /\ <<c, d>>[1] = c /\ <<c, d>>[2] = d
    OBVIOUS
  <2> HIDE DEF s
  <2>3. \A i \in 1..2 : <<a, b>>[i] = s[1 + i - 1] /\ <<c, d>>[i] = s[3 + i - 1]
    BY <2>2
  <2>4. <<a, b>> = SubSeq(s, 1, 2)
    BY <2>1, <2>3, IsPart
  <2>5. <<c, d>> = SubSeq(s, 3, 4)
    BY <2>1, <2>3, IsPart
  <2> QED
    BY <2>4, <2>5 DEF s
<1>2. Shuffle(v, <<a, b>>) = <<v[a + 1], v[b + 1]>> /\ Shuffle(w, <<c, d>>) = <<w[c + 1], w[d + 1]>>
  BY DEF Shuffle
<1>3. <<v[a + 1], v[b + 1]>> \o <<w[c + 1], w[d + 1]>> = <<v[a + 1], v[b + 1], w[c + 1], w[d + 1]>>
  BY PairsJoined, Zenon
<1> QED
  BY <1>1, <1>2, <1>3, Zenon DEF Shuffle2

\* What the code unpacks and shuffles is the columns.
LEMMA TransposeIs ==
  ASSUME NEW m
  PROVE  Transpose(m) = <<Column(m, 1), Column(m, 2), Column(m, 3), Column(m, 4)>>
<1>1. \A v, w : /\ Shuffle2(v, w, <<0, 1, 0, 1>>) = <<v[1], v[2], w[1], w[2]>>
                /\ Shuffle2(v, w, <<2, 3, 2, 3>>) = <<v[3], v[4], w[3], w[4]>>
  <2> SUFFICES ASSUME NEW v, NEW w
               PROVE  /\ Shuffle2(v, w, <<0, 1, 0, 1>>) = <<v[1], v[2], w[1], w[2]>>
                      /\ Shuffle2(v, w, <<2, 3, 2, 3>>) = <<v[3], v[4], w[3], w[4]>>
    OBVIOUS
  <2>1. Shuffle2(v, w, <<0, 1, 0, 1>>) = <<v[0 + 1], v[1 + 1], w[0 + 1], w[1 + 1]>>
    BY Shuffle2Is
  <2>2. Shuffle2(v, w, <<2, 3, 2, 3>>) = <<v[2 + 1], v[3 + 1], w[2 + 1], w[3 + 1]>>
    BY Shuffle2Is
  <2> QED
    BY <2>1, <2>2
<1> QED
  BY <1>1 DEF Transpose, Column, Unpacklo, Unpackhi

\* Rows and columns of a matrix are vectors, and its transpose has one for the other.
LEMMA ColumnIs ==
  ASSUME NEW m \in Mat, NEW j \in 1..4
  PROVE  /\ Column(m, j) \in Vec /\ m[j] \in Vec
         /\ Column(Transpose(m), j) = m[j]
         /\ Transpose(m)[j] = Column(m, j)
         /\ Transpose(m) \in Mat
<1>1. \A i \in 1..4 : m[i] \in Vec /\ Column(m, i) \in Vec
  BY DEF Mat, Vec, Column
<1>2. Transpose(m) = <<Column(m, 1), Column(m, 2), Column(m, 3), Column(m, 4)>>
  BY TransposeIs
<1>3. Transpose(m) \in Mat /\ Transpose(m)[j] = Column(m, j)
  BY <1>1, <1>2 DEF Mat
<1>4. Column(Transpose(m), j) = <<Column(m, 1)[j], Column(m, 2)[j], Column(m, 3)[j], Column(m, 4)[j]>>
  BY <1>2 DEF Column
<1>5. \A i \in 1..4 : Column(m, i)[j] = m[j][i]
  BY DEF Column
<1>6. m[j] = <<m[j][1], m[j][2], m[j][3], m[j][4]>>
  BY <1>1, VecIs
<1> QED
  BY <1>1, <1>3, <1>4, <1>5, <1>6

\* The sums of four vectors.
Sum(p) == p[1] + p[2] + p[3] + p[4]

\* Three horizontal additions sum up four vectors.
LEMMA SumsAre ==
  ASSUME NEW p \in Vec, NEW q \in Vec, NEW r \in Vec, NEW s \in Vec
  PROVE  Hadd(Hadd(p, q), Hadd(r, s)) = <<Sum(p), Sum(q), Sum(r), Sum(s)>>
BY VecIs DEF Hadd, Sum

\* A product of two vectors, summed up.
LEMMA DotIs ==
  ASSUME NEW v \in Vec, NEW w \in Vec
  PROVE  Mul(v, w) \in Vec /\ Dot(v, w) = Sum(Mul(v, w)) /\ Dot(v, w) \in Int
<1>1. Mul(v, w) = <<v[1] * w[1], v[2] * w[2], v[3] * w[3], v[4] * w[4]>>
  BY MulIs
<1>2. /\ v[1] \in Int /\ v[2] \in Int /\ v[3] \in Int /\ v[4] \in Int
      /\ w[1] \in Int /\ w[2] \in Int /\ w[3] \in Int /\ w[4] \in Int
  BY VecIs
<1>3. v[1] * w[1] \in Int /\ v[2] * w[2] \in Int /\ v[3] * w[3] \in Int /\ v[4] * w[4] \in Int
  BY <1>2
<1> QED
  BY <1>1, <1>3 DEF Vec, Dot, Sum

\* The products of a vector with four others, lane by lane, and what they add up to.
RowSums(v, p, q, r, s) == Hadd(Hadd(Mul(v, p), Mul(v, q)), Hadd(Mul(v, r), Mul(v, s)))
RowDots(v, p, q, r, s) == <<Dot(v, p), Dot(v, q), Dot(v, r), Dot(v, s)>>

\* And with the vector on the other side.
ColumnSums(v, p, q, r, s) == Hadd(Hadd(Mul(p, v), Mul(q, v)), Hadd(Mul(r, v), Mul(s, v)))
ColumnDots(v, p, q, r, s) == <<Dot(p, v), Dot(q, v), Dot(r, v), Dot(s, v)>>

\* Four products with one vector on the left, by horizontal additions.
LEMMA RowDotsAre ==
  ASSUME NEW v \in Vec, NEW p \in Vec, NEW q \in Vec, NEW r \in Vec, NEW s \in Vec
  PROVE  RowSums(v, p, q, r, s) = RowDots(v, p, q, r, s) /\ RowDots(v, p, q, r, s) \in Vec
<1>1. Mul(v, p) \in Vec /\ Mul(v, q) \in Vec /\ Mul(v, r) \in Vec /\ Mul(v, s) \in Vec
  BY DotIs
<1>2. Hadd(Hadd(Mul(v, p), Mul(v, q)), Hadd(Mul(v, r), Mul(v, s))) =
        <<Sum(Mul(v, p)), Sum(Mul(v, q)), Sum(Mul(v, r)), Sum(Mul(v, s))>>
  BY <1>1, SumsAre
<1>3. /\ Sum(Mul(v, p)) = Dot(v, p) /\ Sum(Mul(v, q)) = Dot(v, q)
      /\ Sum(Mul(v, r)) = Dot(v, r) /\ Sum(Mul(v, s)) = Dot(v, s)
  BY DotIs
<1>4. RowSums(v, p, q, r, s) = RowDots(v, p, q, r, s)
  BY <1>2, <1>3, Zenon DEF RowSums, RowDots
<1>5. Dot(v, p) \in Int /\ Dot(v, q) \in Int /\ Dot(v, r) \in Int /\ Dot(v, s) \in Int
  BY DotIs
<1>6. RowDots(v, p, q, r, s) \in Vec
  BY <1>5 DEF RowDots, Vec
<1> QED
  BY <1>4, <1>6

\* And with it on the right.
LEMMA ColumnDotsAre ==
  ASSUME NEW v \in Vec, NEW p \in Vec, NEW q \in Vec, NEW r \in Vec, NEW s \in Vec
  PROVE  ColumnSums(v, p, q, r, s) = ColumnDots(v, p, q, r, s)
<1>1. Mul(p, v) \in Vec /\ Mul(q, v) \in Vec /\ Mul(r, v) \in Vec /\ Mul(s, v) \in Vec
  BY DotIs
<1>2. Hadd(Hadd(Mul(p, v), Mul(q, v)), Hadd(Mul(r, v), Mul(s, v))) =
        <<Sum(Mul(p, v)), Sum(Mul(q, v)), Sum(Mul(r, v)), Sum(Mul(s, v))>>
  BY <1>1, SumsAre
<1>3. /\ Sum(Mul(p, v)) = Dot(p, v) /\ Sum(Mul(q, v)) = Dot(q, v)
      /\ Sum(Mul(r, v)) = Dot(r, v) /\ Sum(Mul(s, v)) = Dot(s, v)
  BY DotIs
<1> QED
  BY <1>2, <1>3, Zenon DEF ColumnSums, ColumnDots

\* One row of a product of matrices.
LEMMA RowIs ==
  ASSUME NEW m \in Mat, NEW n \in Mat, NEW i \in 1..4
  PROVE  /\ MultiplyTransposed(m, n)[i] = RowDots(m[i], n[1], n[2], n[3], n[4])
         /\ MultiplyTransposed(m, n)[i] \in Vec
<1>1. m[i] \in Vec /\ n[1] \in Vec /\ n[2] \in Vec /\ n[3] \in Vec /\ n[4] \in Vec
  BY ColumnIs
<1>2. MultiplyTransposed(m, n)[i] = RowSums(m[i], n[1], n[2], n[3], n[4])
  BY DEF MultiplyTransposed, RowSums
<1>3. /\ RowSums(m[i], n[1], n[2], n[3], n[4]) = RowDots(m[i], n[1], n[2], n[3], n[4])
      /\ RowDots(m[i], n[1], n[2], n[3], n[4]) \in Vec
  BY <1>1, RowDotsAre
<1> QED
  BY <1>2, <1>3, Zenon

\* A function of four vectors is a matrix.
LEMMA RowsMakeMat ==
  ASSUME NEW f, f = [i \in 1..4 |-> f[i]],
         f[1] \in Vec, f[2] \in Vec, f[3] \in Vec, f[4] \in Vec
  PROVE  f \in Mat
<1>1. f = <<f[1], f[2], f[3], f[4]>>
  OBVIOUS
<1> QED
  BY <1>1 DEF Mat

\* The matrix of all of them.
LEMMA ProductIs ==
  ASSUME NEW m \in Mat, NEW n \in Mat
  PROVE  MultiplyTransposed(m, n) \in Mat
<1>1. MultiplyTransposed(m, n) = [i \in 1..4 |-> MultiplyTransposed(m, n)[i]]
  BY DEF MultiplyTransposed
<1>2. /\ MultiplyTransposed(m, n)[1] \in Vec /\ MultiplyTransposed(m, n)[2] \in Vec
      /\ MultiplyTransposed(m, n)[3] \in Vec /\ MultiplyTransposed(m, n)[4] \in Vec
  BY RowIs
<1> QED
  BY <1>1, <1>2, RowsMakeMat, Zenon

\* Multiplication of matrices is the text book's.
LEMMA TimesIs ==
  ASSUME NEW m \in Mat, NEW n \in Mat
  PROVE  Times(m, n) = Product(m, n) /\ Product(m, n) \in Mat
<1> DEFINE t == Transpose(n)
<1>1. t \in Mat /\ t[1] = Column(n, 1) /\ t[2] = Column(n, 2) /\ t[3] = Column(n, 3) /\ t[4] = Column(n, 4)
  BY ColumnIs
<1>2. Times(m, n) = MultiplyTransposed(m, t)
  BY DEF Times
<1> HIDE DEF t
<1>3. ASSUME NEW i \in 1..4
      PROVE  MultiplyTransposed(m, t)[i] = [j \in 1..4 |-> Dot(m[i], Column(n, j))]
  <2>1. MultiplyTransposed(m, t)[i] = RowDots(m[i], t[1], t[2], t[3], t[4])
    BY <1>1, RowIs
  <2>2. MultiplyTransposed(m, t)[i] =
          RowDots(m[i], Column(n, 1), Column(n, 2), Column(n, 3), Column(n, 4))
    BY <1>1, <2>1, Zenon
  <2> QED
    BY <2>2 DEF RowDots
<1>4. MultiplyTransposed(m, t) = [i \in 1..4 |-> MultiplyTransposed(m, t)[i]]
  BY DEF MultiplyTransposed
<1>5. MultiplyTransposed(m, t) = [i \in 1..4 |-> [j \in 1..4 |-> Dot(m[i], Column(n, j))]]
  BY <1>3, <1>4
<1> QED
  BY <1>1, <1>2, <1>5, ProductIs, Zenon DEF Product

\* And so is a matrix times a vector.
LEMMA ApplyIs ==
  ASSUME NEW m \in Mat, NEW v \in Vec
  PROVE  Apply(m, v) = <<Dot(m[1], v), Dot(m[2], v), Dot(m[3], v), Dot(m[4], v)>>
<1>1. m[1] \in Vec /\ m[2] \in Vec /\ m[3] \in Vec /\ m[4] \in Vec
  BY ColumnIs
<1>2. Apply(m, v) = ColumnSums(v, m[1], m[2], m[3], m[4])
  BY DEF Apply, ColumnSums
<1>3. ColumnSums(v, m[1], m[2], m[3], m[4]) = ColumnDots(v, m[1], m[2], m[3], m[4])
  BY <1>1, ColumnDotsAre
<1> QED
  BY <1>2, <1>3, Zenon DEF ColumnDots

\* The complements of two rows of four, given two others.
ComplementsOf(a, b, c) ==
  /\ c[1] = 1 * (a[6] * (b[3] * b[8] - b[4] * b[7])
              - a[7] * (b[2] * b[8] - b[4] * b[6]) + a[8] * (b[2] * b[7] - b[3] * b[6]))
  /\ c[2] = (-1) * (a[5] * (b[3] * b[8] - b[4] * b[7])
              - a[7] * (b[1] * b[8] - b[4] * b[5]) + a[8] * (b[1] * b[7] - b[3] * b[5]))
  /\ c[3] = 1 * (a[5] * (b[2] * b[8] - b[4] * b[6])
              - a[6] * (b[1] * b[8] - b[4] * b[5]) + a[8] * (b[1] * b[6] - b[2] * b[5]))
  /\ c[4] = (-1) * (a[5] * (b[2] * b[7] - b[3] * b[6])
              - a[6] * (b[1] * b[7] - b[3] * b[5]) + a[7] * (b[1] * b[6] - b[2] * b[5]))
  /\ c[5] = (-1) * (a[2] * (b[3] * b[8] - b[4] * b[7])
              - a[3] * (b[2] * b[8] - b[4] * b[6]) + a[4] * (b[2] * b[7] - b[3] * b[6]))
  /\ c[6] = 1 * (a[1] * (b[3] * b[8] - b[4] * b[7])
              - a[3] * (b[1] * b[8] - b[4] * b[5]) + a[4] * (b[1] * b[7] - b[3] * b[5]))
  /\ c[7] = (-1) * (a[1] * (b[2] * b[8] - b[4] * b[6])
              - a[2] * (b[1] * b[8] - b[4] * b[5]) + a[4] * (b[1] * b[6] - b[2] * b[5]))
  /\ c[8] = 1 * (a[1] * (b[2] * b[7] - b[3] * b[6])
              - a[2] * (b[1] * b[7] - b[3] * b[5]) + a[3] * (b[1] * b[6] - b[2] * b[5]))

\* The lanes of what the vector instructions compute.
LEMMA ComplementLanes ==
  ASSUME NEW a, NEW b, NEW c, c = Complements(a, b)
  PROVE  IsSeqOf(c, 8) /\ ComplementsOf(a, b, c)
<1> DEFINE a0 == Shuffle(a, <<5, 4, 4, 4, 1, 0, 0, 0>>)
           a1 == Shuffle(a, <<6, 6, 5, 5, 2, 2, 1, 1>>)
           a2 == Shuffle(a, <<7, 7, 7, 6, 3, 3, 3, 2>>)
           b0 == Shuffle(b, <<2, 2, 1, 1, 2, 2, 1, 1>>)
           b1 == Shuffle(b, <<7, 7, 7, 6, 7, 7, 7, 6>>)
           b2 == Shuffle(b, <<3, 3, 3, 2, 3, 3, 3, 2>>)
           b3 == Shuffle(b, <<6, 6, 5, 5, 6, 6, 5, 5>>)
           b4 == Shuffle(b, <<1, 0, 0, 0, 1, 0, 0, 0>>)
           b5 == Shuffle(b, <<5, 4, 4, 4, 5, 4, 4, 4>>)
           s == <<1, -1, 1, -1, -1, 1, -1, 1>>
<1>1. /\ DOMAIN a0 = 1..8 /\ a0[1] = a[6] /\ a0[2] = a[5] /\ a0[3] = a[5] /\ a0[4] = a[5]
      /\ a0[5] = a[2] /\ a0[6] = a[1] /\ a0[7] = a[1] /\ a0[8] = a[1]
  BY DEF Shuffle
<1>2. /\ DOMAIN a1 = 1..8 /\ a1[1] = a[7] /\ a1[2] = a[7] /\ a1[3] = a[6] /\ a1[4] = a[6]
      /\ a1[5] = a[3] /\ a1[6] = a[3] /\ a1[7] = a[2] /\ a1[8] = a[2]
  BY DEF Shuffle
<1>3. /\ DOMAIN a2 = 1..8 /\ a2[1] = a[8] /\ a2[2] = a[8] /\ a2[3] = a[8] /\ a2[4] = a[7]
      /\ a2[5] = a[4] /\ a2[6] = a[4] /\ a2[7] = a[4] /\ a2[8] = a[3]
  BY DEF Shuffle
<1>4. /\ DOMAIN b0 = 1..8 /\ b0[1] = b[3] /\ b0[2] = b[3] /\ b0[3] = b[2] /\ b0[4] = b[2]
      /\ b0[5] = b[3] /\ b0[6] = b[3] /\ b0[7] = b[2] /\ b0[8] = b[2]
  BY DEF Shuffle
<1>5. /\ DOMAIN b1 = 1..8 /\ b1[1] = b[8] /\ b1[2] = b[8] /\ b1[3] = b[8] /\ b1[4] = b[7]
      /\ b1[5] = b[8] /\ b1[6] = b[8] /\ b1[7] = b[8] /\ b1[8] = b[7]
  BY DEF Shuffle
<1>6. /\ DOMAIN b2 = 1..8 /\ b2[1] = b[4] /\ b2[2] = b[4] /\ b2[3] = b[4] /\ b2[4] = b[3]
      /\ b2[5] = b[4] /\ b2[6] = b[4] /\ b2[7] = b[4] /\ b2[8] = b[3]
  BY DEF Shuffle
<1>7. /\ DOMAIN b3 = 1..8 /\ b3[1] = b[7] /\ b3[2] = b[7] /\ b3[3] = b[6] /\ b3[4] = b[6]
      /\ b3[5] = b[7] /\ b3[6] = b[7] /\ b3[7] = b[6] /\ b3[8] = b[6]
  BY DEF Shuffle
<1>8. /\ DOMAIN b4 = 1..8 /\ b4[1] = b[2] /\ b4[2] = b[1] /\ b4[3] = b[1] /\ b4[4] = b[1]
      /\ b4[5] = b[2] /\ b4[6] = b[1] /\ b4[7] = b[1] /\ b4[8] = b[1]
  BY DEF Shuffle
<1>9. /\ DOMAIN b5 = 1..8 /\ b5[1] = b[6] /\ b5[2] = b[5] /\ b5[3] = b[5] /\ b5[4] = b[5]
      /\ b5[5] = b[6] /\ b5[6] = b[5] /\ b5[7] = b[5] /\ b5[8] = b[5]
  BY DEF Shuffle
<1>10. /\ DOMAIN s = 1..8 /\ s[1] = 1 /\ s[2] = -1 /\ s[3] = 1 /\ s[4] = -1
       /\ s[5] = -1 /\ s[6] = 1 /\ s[7] = -1 /\ s[8] = 1
  OBVIOUS
<1>11. c = Mul(s, Add(Sub(Mul(a0, Sub(Mul(b0, b1), Mul(b2, b3))), Mul(a1, Sub(Mul(b4, b1), Mul(b2, b5)))),
                      Mul(a2, Sub(Mul(b4, b3), Mul(b0, b5)))))
  BY DEF Complements
<1> HIDE DEF a0, a1, a2, b0, b1, b2, b3, b4, b5, s
<1> DEFINE lane(i) == s[i] * (a0[i] * (b0[i] * b1[i] - b2[i] * b3[i]) - a1[i] * (b4[i] * b1[i] - b2[i] * b5[i])
                              + a2[i] * (b4[i] * b3[i] - b0[i] * b5[i]))
<1>12. c = [i \in 1..8 |-> lane(i)]
  <2>1. DOMAIN a0 = 1..8 /\ DOMAIN a1 = 1..8 /\ DOMAIN a2 = 1..8 /\ DOMAIN b0 = 1..8
        /\ DOMAIN b2 = 1..8 /\ DOMAIN b4 = 1..8 /\ DOMAIN s = 1..8
    BY <1>1, <1>2, <1>3, <1>4, <1>6, <1>8, <1>10
  <2> QED
    BY <1>11, <2>1 DEF Mul, Add, Sub
<1>13. IsSeqOf(c, 8)
  BY <1>12 DEF IsSeqOf
<1>14. c[1] = 1 * (a[6] * (b[3] * b[8] - b[4] * b[7])
                - a[7] * (b[2] * b[8] - b[4] * b[6]) + a[8] * (b[2] * b[7] - b[3] * b[6]))
  <2>1. c[1] = lane(1)
    BY <1>12
  <2>2. /\ s[1] = 1 /\ a0[1] = a[6] /\ a1[1] = a[7] /\ a2[1] = a[8] /\ b0[1] = b[3]
        /\ b1[1] = b[8] /\ b2[1] = b[4] /\ b3[1] = b[7] /\ b4[1] = b[2] /\ b5[1] = b[6]
    BY <1>1, <1>2, <1>3, <1>4, <1>5, <1>6, <1>7, <1>8, <1>9, <1>10, Zenon
  <2> QED
    BY <2>1, <2>2, Zenon
<1>15. c[2] = (-1) * (a[5] * (b[3] * b[8] - b[4] * b[7])
                - a[7] * (b[1] * b[8] - b[4] * b[5]) + a[8] * (b[1] * b[7] - b[3] * b[5]))
  <2>1. c[2] = lane(2)
    BY <1>12
  <2>2. /\ s[2] = -1 /\ a0[2] = a[5] /\ a1[2] = a[7] /\ a2[2] = a[8] /\ b0[2] = b[3]
        /\ b1[2] = b[8] /\ b2[2] = b[4] /\ b3[2] = b[7] /\ b4[2] = b[1] /\ b5[2] = b[5]
    BY <1>1, <1>2, <1>3, <1>4, <1>5, <1>6, <1>7, <1>8, <1>9, <1>10, Zenon
  <2> QED
    BY <2>1, <2>2, Zenon
<1>16. c[3] = 1 * (a[5] * (b[2] * b[8] - b[4] * b[6])
                - a[6] * (b[1] * b[8] - b[4] * b[5]) + a[8] * (b[1] * b[6] - b[2] * b[5]))
  <2>1. c[3] = lane(3)
    BY <1>12
  <2>2. /\ s[3] = 1 /\ a0[3] = a[5] /\ a1[3] = a[6] /\ a2[3] = a[8] /\ b0[3] = b[2]
        /\ b1[3] = b[8] /\ b2[3] = b[4] /\ b3[3] = b[6] /\ b4[3] = b[1] /\ b5[3] = b[5]
    BY <1>1, <1>2, <1>3, <1>4, <1>5, <1>6, <1>7, <1>8, <1>9, <1>10, Zenon
  <2> QED
    BY <2>1, <2>2, Zenon
<1>17. c[4] = (-1) * (a[5] * (b[2] * b[7] - b[3] * b[6])
                - a[6] * (b[1] * b[7] - b[3] * b[5]) + a[7] * (b[1] * b[6] - b[2] * b[5]))
  <2>1. c[4] = lane(4)
    BY <1>12
  <2>2. /\ s[4] = -1 /\ a0[4] = a[5] /\ a1[4] = a[6] /\ a2[4] = a[7] /\ b0[4] = b[2]
        /\ b1[4] = b[7] /\ b2[4] = b[3] /\ b3[4] = b[6] /\ b4[4] = b[1] /\ b5[4] = b[5]
    BY <1>1, <1>2, <1>3, <1>4, <1>5, <1>6, <1>7, <1>8, <1>9, <1>10, Zenon
  <2> QED
    BY <2>1, <2>2, Zenon
<1>18. c[5] = (-1) * (a[2] * (b[3] * b[8] - b[4] * b[7])
                - a[3] * (b[2] * b[8] - b[4] * b[6]) + a[4] * (b[2] * b[7] - b[3] * b[6]))
  <2>1. c[5] = lane(5)
    BY <1>12
  <2>2. /\ s[5] = -1 /\ a0[5] = a[2] /\ a1[5] = a[3] /\ a2[5] = a[4] /\ b0[5] = b[3]
        /\ b1[5] = b[8] /\ b2[5] = b[4] /\ b3[5] = b[7] /\ b4[5] = b[2] /\ b5[5] = b[6]
    BY <1>1, <1>2, <1>3, <1>4, <1>5, <1>6, <1>7, <1>8, <1>9, <1>10, Zenon
  <2> QED
    BY <2>1, <2>2, Zenon
<1>19. c[6] = 1 * (a[1] * (b[3] * b[8] - b[4] * b[7])
                - a[3] * (b[1] * b[8] - b[4] * b[5]) + a[4] * (b[1] * b[7] - b[3] * b[5]))
  <2>1. c[6] = lane(6)
    BY <1>12
  <2>2. /\ s[6] = 1 /\ a0[6] = a[1] /\ a1[6] = a[3] /\ a2[6] = a[4] /\ b0[6] = b[3]
        /\ b1[6] = b[8] /\ b2[6] = b[4] /\ b3[6] = b[7] /\ b4[6] = b[1] /\ b5[6] = b[5]
    BY <1>1, <1>2, <1>3, <1>4, <1>5, <1>6, <1>7, <1>8, <1>9, <1>10, Zenon
  <2> QED
    BY <2>1, <2>2, Zenon
<1>20. c[7] = (-1) * (a[1] * (b[2] * b[8] - b[4] * b[6])
                - a[2] * (b[1] * b[8] - b[4] * b[5]) + a[4] * (b[1] * b[6] - b[2] * b[5]))
  <2>1. c[7] = lane(7)
    BY <1>12
  <2>2. /\ s[7] = -1 /\ a0[7] = a[1] /\ a1[7] = a[2] /\ a2[7] = a[4] /\ b0[7] = b[2]
        /\ b1[7] = b[8] /\ b2[7] = b[4] /\ b3[7] = b[6] /\ b4[7] = b[1] /\ b5[7] = b[5]
    BY <1>1, <1>2, <1>3, <1>4, <1>5, <1>6, <1>7, <1>8, <1>9, <1>10, Zenon
  <2> QED
    BY <2>1, <2>2, Zenon
<1>21. c[8] = 1 * (a[1] * (b[2] * b[7] - b[3] * b[6])
                - a[2] * (b[1] * b[7] - b[3] * b[5]) + a[3] * (b[1] * b[6] - b[2] * b[5]))
  <2>1. c[8] = lane(8)
    BY <1>12
  <2>2. /\ s[8] = 1 /\ a0[8] = a[1] /\ a1[8] = a[2] /\ a2[8] = a[3] /\ b0[8] = b[2]
        /\ b1[8] = b[7] /\ b2[8] = b[3] /\ b3[8] = b[6] /\ b4[8] = b[1] /\ b5[8] = b[5]
    BY <1>1, <1>2, <1>3, <1>4, <1>5, <1>6, <1>7, <1>8, <1>9, <1>10, Zenon
  <2> QED
    BY <2>1, <2>2, Zenon
<1>22. ComplementsOf(a, b, c)
  BY <1>14, <1>15, <1>16, <1>17, <1>18, <1>19, <1>20, <1>21, Zenon DEF ComplementsOf
<1> QED
  BY <1>13, <1>22

\* Two sequences, one after the other.
SideBySide(s, t) == s \o t

\* The parts of two sequences, one after the other.
LEMMA JoinedIs ==
  ASSUME NEW k \in Nat, NEW n \in Nat, NEW s, NEW t, IsSeqOf(s, k), IsSeqOf(t, n)
  PROVE  /\ \A i \in 1..k : SideBySide(s, t)[i] = s[i]
         /\ \A i \in 1..n : SideBySide(s, t)[k + i] = t[i]
<1> DEFINE S == {s[i] : i \in 1..k} \cup {t[i] : i \in 1..n}
<1>1. s \in Seq(S) /\ Len(s) = k
  <2>1. s \in Seq({s[i] : i \in 1..k}) /\ Len(s) = k
    BY SeqOfLen
  <2> QED
    BY <2>1
<1>2. t \in Seq(S) /\ Len(t) = n
  <2>1. t \in Seq({t[i] : i \in 1..n}) /\ Len(t) = n
    BY SeqOfLen
  <2> QED
    BY <2>1
<1> HIDE DEF S
<1>3. /\ s \o t \in Seq(S) /\ Len(s \o t) = k + n
      /\ \A i \in 1..k + n : (s \o t)[i] = IF i <= k THEN s[i] ELSE t[i - k]
  <2>1. /\ s \o t \in Seq(S) /\ Len(s \o t) = Len(s) + Len(t)
        /\ \A i \in 1..Len(s) + Len(t) : (s \o t)[i] = IF i <= Len(s) THEN s[i] ELSE t[i - Len(s)]
    BY <1>1, <1>2, ConcatProperties, Zenon
  <2> QED
    BY <1>1, <1>2, <2>1, Zenon
<1>4. \A i \in 1..n : (s \o t)[k + i] = t[i]
  <2>1. \A i \in 1..n : k + i \in 1..k + n /\ ~(k + i <= k) /\ k + i - k = i
    OBVIOUS
  <2> QED
    BY <1>3, <2>1
<1>5. \A i \in 1..k : (s \o t)[i] = s[i]
  BY <1>3
<1> QED
  BY <1>4, <1>5, Zenon DEF SideBySide

\* Two rows of four.
LEMMA EightAre ==
  ASSUME NEW v \in Vec, NEW w \in Vec, NEW e, e = SideBySide(v, w)
  PROVE  /\ e[1] = v[1] /\ e[2] = v[2] /\ e[3] = v[3] /\ e[4] = v[4]
         /\ e[5] = w[1] /\ e[6] = w[2] /\ e[7] = w[3] /\ e[8] = w[4]
<1>1. IsSeqOf(v, 4) /\ IsSeqOf(w, 4)
  <2>1. \A x \in Vec : x = [i \in 1..4 |-> x[i]]
    BY DEF Vec
  <2> QED
    BY <2>1, Zenon DEF IsSeqOf
<1>2. /\ \A i \in 1..4 : SideBySide(v, w)[i] = v[i]
      /\ \A i \in 1..4 : SideBySide(v, w)[4 + i] = w[i]
  BY <1>1, JoinedIs
<1> QED
  BY <1>2

\* The halves of eight lanes.
FirstFour(c) == <<c[1], c[2], c[3], c[4]>>
LastFour(c) == <<c[5], c[6], c[7], c[8]>>

\* The rows of the matrix of complements.
LEMMA ComplementRows ==
  ASSUME NEW m, NEW c, NEW d, NEW r,
         c = Complements(SideBySide(m[1], m[2]), SideBySide(m[3], m[4])),
         d = Complements(SideBySide(m[3], m[4]), SideBySide(m[1], m[2])),
         r = ComplementsMatrix(m)
  PROVE  /\ r = [i \in 1..4 |-> r[i]]
         /\ r[1] = FirstFour(c) /\ r[2] = LastFour(c) /\ r[3] = FirstFour(d) /\ r[4] = LastFour(d)
<1> DEFINE cd == SideBySide(c, d)
<1>1. r = [i \in 1..4 |-> SubSeq(cd, 4 * i - 3, 4 * i)]
  BY Zenon DEF ComplementsMatrix, SideBySide
<1>2. IsSeqOf(c, 8) /\ IsSeqOf(d, 8)
  BY ComplementLanes
<1>3. /\ \A i \in 1..8 : cd[i] = c[i]
      /\ \A i \in 1..8 : cd[8 + i] = d[i]
  BY <1>2, JoinedIs
<1> HIDE DEF cd
<1>4. \A w, i, j : /\ w = [k \in 1..4 |-> w[k]] /\ i \in 1..16 /\ j = i + 3
                   /\ w[1] = cd[i] /\ w[2] = cd[i + 1] /\ w[3] = cd[i + 2] /\ w[4] = cd[i + 3]
                   => w = SubSeq(cd, i, j)
  <2> SUFFICES ASSUME NEW w, NEW i \in 1..16, NEW j, w = [k \in 1..4 |-> w[k]], j = i + 3,
                      w[1] = cd[i], w[2] = cd[i + 1], w[3] = cd[i + 2], w[4] = cd[i + 3]
               PROVE  w = SubSeq(cd, i, j)
    OBVIOUS
  <2>1. \A k \in 1..4 : w[k] = cd[i + k - 1]
    OBVIOUS
  <2>2. IsSeqOf(w, 4) /\ i \in Int /\ j \in Int /\ j = i + 4 - 1
    BY DEF IsSeqOf
  <2> QED
    BY <2>1, <2>2, IsPart
<1>5. <<c[1], c[2], c[3], c[4]>> = SubSeq(cd, 1, 4)
  <2> DEFINE w == <<c[1], c[2], c[3], c[4]>>
  <2>1. cd[1] = c[1] /\ cd[2] = c[2] /\ cd[3] = c[3] /\ cd[4] = c[4]
    BY <1>3
  <2>2. w = [k \in 1..4 |-> w[k]] /\ w[1] = c[1] /\ w[2] = c[2] /\ w[3] = c[3] /\ w[4] = c[4]
    OBVIOUS
  <2> HIDE DEF w
  <2>3. w = SubSeq(cd, 1, 4)
    BY <1>4, <2>1, <2>2
  <2> QED
    BY <2>3 DEF w
<1>6. <<c[5], c[6], c[7], c[8]>> = SubSeq(cd, 5, 8)
  <2> DEFINE w == <<c[5], c[6], c[7], c[8]>>
  <2>1. cd[5] = c[5] /\ cd[6] = c[6] /\ cd[7] = c[7] /\ cd[8] = c[8]
    BY <1>3
  <2>2. w = [k \in 1..4 |-> w[k]] /\ w[1] = c[5] /\ w[2] = c[6] /\ w[3] = c[7] /\ w[4] = c[8]
    OBVIOUS
  <2> HIDE DEF w
  <2>3. w = SubSeq(cd, 5, 8)
    BY <1>4, <2>1, <2>2
  <2> QED
    BY <2>3 DEF w
<1>7. <<d[1], d[2], d[3], d[4]>> = SubSeq(cd, 9, 12)
  <2> DEFINE w == <<d[1], d[2], d[3], d[4]>>
  <2>1. cd[9] = d[1] /\ cd[10] = d[2] /\ cd[11] = d[3] /\ cd[12] = d[4]
    BY <1>3
  <2>2. w = [k \in 1..4 |-> w[k]] /\ w[1] = d[1] /\ w[2] = d[2] /\ w[3] = d[3] /\ w[4] = d[4]
    OBVIOUS
  <2> HIDE DEF w
  <2>3. w = SubSeq(cd, 9, 12)
    BY <1>4, <2>1, <2>2
  <2> QED
    BY <2>3 DEF w
<1>8. <<d[5], d[6], d[7], d[8]>> = SubSeq(cd, 13, 16)
  <2> DEFINE w == <<d[5], d[6], d[7], d[8]>>
  <2>1. cd[13] = d[5] /\ cd[14] = d[6] /\ cd[15] = d[7] /\ cd[16] = d[8]
    BY <1>3
  <2>2. w = [k \in 1..4 |-> w[k]] /\ w[1] = d[5] /\ w[2] = d[6] /\ w[3] = d[7] /\ w[4] = d[8]
    OBVIOUS
  <2> HIDE DEF w
  <2>3. w = SubSeq(cd, 13, 16)
    BY <1>4, <2>1, <2>2
  <2> QED
    BY <2>3 DEF w
<1>9. /\ r[1] = SubSeq(cd, 1, 4) /\ r[2] = SubSeq(cd, 5, 8)
      /\ r[3] = SubSeq(cd, 9, 12) /\ r[4] = SubSeq(cd, 13, 16)
  BY <1>1
<1>10. r = [i \in 1..4 |-> r[i]]
  BY <1>1
<1> QED
  BY <1>5, <1>6, <1>7, <1>8, <1>9, <1>10, Zenon DEF FirstFour, LastFour

\* A matrix with the same number four times.
FourTimes(e) == [i \in 1..4 |-> [j \in 1..4 |-> IF i = j THEN e ELSE 0]]

\* The diagonal matrix has that number where row and column agree.
LEMMA DiagIs ==
  ASSUME NEW e
  PROVE  Diag(e, e, e, e) = FourTimes(e)
<1>1. \A f : f = [i \in 1..4 |-> f[i]] => f = <<f[1], f[2], f[3], f[4]>>
  OBVIOUS
<1> DEFINE f == [i \in 1..4 |-> [j \in 1..4 |-> IF i = j THEN e ELSE 0]]
<1>2. f[1] = <<e, 0, 0, 0>> /\ f[2] = <<0, e, 0, 0>> /\ f[3] = <<0, 0, e, 0>> /\ f[4] = <<0, 0, 0, e>>
  OBVIOUS
<1>3. f = [i \in 1..4 |-> f[i]]
  OBVIOUS
<1> HIDE DEF f
<1>4. f = <<f[1], f[2], f[3], f[4]>>
  BY <1>1, <1>3, Zenon
<1>5. f = Diag(e, e, e, e)
  BY <1>2, <1>4, Zenon DEF Diag
<1> QED
  BY <1>5 DEF f, FourTimes

\* The determinant of columns i, j and k of three rows, as the code adds it up.
Minor(p, q, s, i, j, k) ==
  p[i] * (q[j] * s[k] - q[k] * s[j]) - p[j] * (q[i] * s[k] - q[k] * s[i])
    + p[k] * (q[i] * s[j] - q[j] * s[i])

\* The complements of a fourth row, with their signs.
Cofactor(e, f, p, q, s) ==
  <<e * Minor(p, q, s, 2, 3, 4), f * Minor(p, q, s, 1, 3, 4),
    e * Minor(p, q, s, 1, 2, 4), f * Minor(p, q, s, 1, 2, 3)>>

\* The two rows of complements that one call computes.
LEMMA CofactorsAre ==
  ASSUME NEW v \in Vec, NEW w \in Vec, NEW x \in Vec, NEW y \in Vec,
         NEW c, c = Complements(SideBySide(v, w), SideBySide(x, y))
  PROVE  FirstFour(c) = Cofactor(1, -1, w, x, y) /\ LastFour(c) = Cofactor(-1, 1, v, x, y)
<1> DEFINE a == SideBySide(v, w)
           b == SideBySide(x, y)
<1>1. /\ a[1] = v[1] /\ a[2] = v[2] /\ a[3] = v[3] /\ a[4] = v[4]
      /\ a[5] = w[1] /\ a[6] = w[2] /\ a[7] = w[3] /\ a[8] = w[4]
  BY EightAre
<1>2. /\ b[1] = x[1] /\ b[2] = x[2] /\ b[3] = x[3] /\ b[4] = x[4]
      /\ b[5] = y[1] /\ b[6] = y[2] /\ b[7] = y[3] /\ b[8] = y[4]
  BY EightAre
<1>3. ComplementsOf(a, b, c)
  BY ComplementLanes
<1> HIDE DEF a, b
<1>4. /\ c[1] = 1 * Minor(w, x, y, 2, 3, 4) /\ c[2] = (-1) * Minor(w, x, y, 1, 3, 4)
      /\ c[3] = 1 * Minor(w, x, y, 1, 2, 4) /\ c[4] = (-1) * Minor(w, x, y, 1, 2, 3)
  BY <1>1, <1>2, <1>3, Zenon DEF Minor, ComplementsOf
<1>5. /\ c[5] = (-1) * Minor(v, x, y, 2, 3, 4) /\ c[6] = 1 * Minor(v, x, y, 1, 3, 4)
      /\ c[7] = (-1) * Minor(v, x, y, 1, 2, 4) /\ c[8] = 1 * Minor(v, x, y, 1, 2, 3)
  BY <1>1, <1>2, <1>3, Zenon DEF Minor, ComplementsOf
<1> QED
  BY <1>4, <1>5, Zenon DEF Cofactor, FirstFour, LastFour

\* Every matrix is its four rows.
LEMMA ComplementsMatrixIs ==
  ASSUME NEW m \in Mat, NEW r, r = ComplementsMatrix(m)
  PROVE  /\ r = [i \in 1..4 |-> r[i]]
         /\ r[1] = Cofactor(1, -1, m[2], m[3], m[4]) /\ r[2] = Cofactor(-1, 1, m[1], m[3], m[4])
         /\ r[3] = Cofactor(1, -1, m[4], m[1], m[2]) /\ r[4] = Cofactor(-1, 1, m[3], m[1], m[2])
<1>1. m[1] \in Vec /\ m[2] \in Vec /\ m[3] \in Vec /\ m[4] \in Vec
  BY ColumnIs
<1> DEFINE c == Complements(SideBySide(m[1], m[2]), SideBySide(m[3], m[4]))
           d == Complements(SideBySide(m[3], m[4]), SideBySide(m[1], m[2]))
<1>2. FirstFour(c) = Cofactor(1, -1, m[2], m[3], m[4]) /\ LastFour(c) = Cofactor(-1, 1, m[1], m[3], m[4])
  BY <1>1, CofactorsAre
<1>3. FirstFour(d) = Cofactor(1, -1, m[4], m[1], m[2]) /\ LastFour(d) = Cofactor(-1, 1, m[3], m[1], m[2])
  BY <1>1, CofactorsAre
<1>4. /\ r = [i \in 1..4 |-> r[i]]
      /\ r[1] = FirstFour(c) /\ r[2] = LastFour(c) /\ r[3] = FirstFour(d) /\ r[4] = LastFour(d)
  BY ComplementRows
<1> HIDE DEF c, d
<1> QED
  BY <1>2, <1>3, <1>4, Zenon

\* They are vectors of numbers.
LEMMA CofactorIsVec ==
  ASSUME NEW p \in Vec, NEW q \in Vec, NEW s \in Vec
  PROVE  Cofactor(1, -1, p, q, s) \in Vec /\ Cofactor(-1, 1, p, q, s) \in Vec
<1>1. /\ p[1] \in Int /\ p[2] \in Int /\ p[3] \in Int /\ p[4] \in Int
      /\ q[1] \in Int /\ q[2] \in Int /\ q[3] \in Int /\ q[4] \in Int
      /\ s[1] \in Int /\ s[2] \in Int /\ s[3] \in Int /\ s[4] \in Int
  BY VecIs
<1>2. /\ Minor(p, q, s, 2, 3, 4) \in Int /\ Minor(p, q, s, 1, 3, 4) \in Int
      /\ Minor(p, q, s, 1, 2, 4) \in Int /\ Minor(p, q, s, 1, 2, 3) \in Int
  BY <1>1 DEF Minor
<1> QED
  BY <1>2 DEF Cofactor, Vec

\* The complements of a row are orthogonal to the other rows.
LEMMA CofactorOrthogonal ==
  ASSUME NEW p \in Vec, NEW q \in Vec, NEW s \in Vec
  PROVE  /\ \A v \in {p, q, s} : Dot(v, Cofactor(1, -1, p, q, s)) = 0
         /\ \A v \in {p, q, s} : Dot(v, Cofactor(-1, 1, p, q, s)) = 0
<1>1. PICK p1, p2, p3, p4 \in Int : p = <<p1, p2, p3, p4>>
  BY DEF Vec
<1>2. PICK q1, q2, q3, q4 \in Int : q = <<q1, q2, q3, q4>>
  BY DEF Vec
<1>3. PICK s1, s2, s3, s4 \in Int : s = <<s1, s2, s3, s4>>
  BY DEF Vec
<1> DEFINE c(e, f) == Cofactor(e, f, <<p1, p2, p3, p4>>, <<q1, q2, q3, q4>>, <<s1, s2, s3, s4>>)
<1>4. Dot(<<p1, p2, p3, p4>>, c(1, -1)) = 0 /\ Dot(<<p1, p2, p3, p4>>, c(-1, 1)) = 0
  BY DEF Dot, Cofactor, Minor
<1>5. Dot(<<q1, q2, q3, q4>>, c(1, -1)) = 0 /\ Dot(<<q1, q2, q3, q4>>, c(-1, 1)) = 0
  BY DEF Dot, Cofactor, Minor
<1>6. Dot(<<s1, s2, s3, s4>>, c(1, -1)) = 0 /\ Dot(<<s1, s2, s3, s4>>, c(-1, 1)) = 0
  BY DEF Dot, Cofactor, Minor
<1>7. /\ Dot(p, Cofactor(1, -1, p, q, s)) = 0 /\ Dot(p, Cofactor(-1, 1, p, q, s)) = 0
      /\ Dot(q, Cofactor(1, -1, p, q, s)) = 0 /\ Dot(q, Cofactor(-1, 1, p, q, s)) = 0
      /\ Dot(s, Cofactor(1, -1, p, q, s)) = 0 /\ Dot(s, Cofactor(-1, 1, p, q, s)) = 0
  BY <1>1, <1>2, <1>3, <1>4, <1>5, <1>6, Zenon
<1> QED
  BY <1>7

\* The determinant is the same along each row.
LEMMA Laplace ==
  ASSUME NEW p \in Vec, NEW q \in Vec, NEW s \in Vec, NEW t \in Vec
  PROVE  /\ Dot(q, Cofactor(-1, 1, p, s, t)) = Dot(p, Cofactor(1, -1, q, s, t))
         /\ Dot(s, Cofactor(1, -1, t, p, q)) = Dot(p, Cofactor(1, -1, q, s, t))
         /\ Dot(t, Cofactor(-1, 1, s, p, q)) = Dot(p, Cofactor(1, -1, q, s, t))
<1>1. /\ p[1] \in Int /\ p[2] \in Int /\ p[3] \in Int /\ p[4] \in Int
      /\ q[1] \in Int /\ q[2] \in Int /\ q[3] \in Int /\ q[4] \in Int
      /\ s[1] \in Int /\ s[2] \in Int /\ s[3] \in Int /\ s[4] \in Int
      /\ t[1] \in Int /\ t[2] \in Int /\ t[3] \in Int /\ t[4] \in Int
  BY VecIs
<1>2. Dot(q, Cofactor(-1, 1, p, s, t)) = Dot(p, Cofactor(1, -1, q, s, t))
  BY <1>1 DEF Dot, Cofactor, Minor
<1>3. Dot(s, Cofactor(1, -1, t, p, q)) = Dot(p, Cofactor(1, -1, q, s, t))
  BY <1>1 DEF Dot, Cofactor, Minor
<1>4. Dot(t, Cofactor(-1, 1, s, p, q)) = Dot(p, Cofactor(1, -1, q, s, t))
  BY <1>1 DEF Dot, Cofactor, Minor
<1> QED
  BY <1>2, <1>3, <1>4

\* A matrix times its inverse, but for the division, is its determinant.
LEMMA InverseRight ==
  ASSUME NEW m \in Mat, NEW d, d = Determinant(m)
  PROVE  Product(m, InverseTimesDet(m)) = Diag(d, d, d, d) /\ InverseTimesDet(m) \in Mat
<1> DEFINE r == ComplementsMatrix(m)
           t == Transpose(r)
<1>1. m[1] \in Vec /\ m[2] \in Vec /\ m[3] \in Vec /\ m[4] \in Vec
  BY ColumnIs
<1>2. /\ r = [i \in 1..4 |-> r[i]]
      /\ r[1] = Cofactor(1, -1, m[2], m[3], m[4]) /\ r[2] = Cofactor(-1, 1, m[1], m[3], m[4])
      /\ r[3] = Cofactor(1, -1, m[4], m[1], m[2]) /\ r[4] = Cofactor(-1, 1, m[3], m[1], m[2])
  BY ComplementsMatrixIs
<1> HIDE DEF r
<1>3. r[1] \in Vec /\ r[2] \in Vec /\ r[3] \in Vec /\ r[4] \in Vec
  <2>1. /\ Cofactor(1, -1, m[2], m[3], m[4]) \in Vec /\ Cofactor(-1, 1, m[1], m[3], m[4]) \in Vec
        /\ Cofactor(1, -1, m[4], m[1], m[2]) \in Vec /\ Cofactor(-1, 1, m[3], m[1], m[2]) \in Vec
    BY <1>1, CofactorIsVec
  <2> QED
    BY <1>2, <2>1, Zenon
<1>4. r \in Mat
  BY <1>2, <1>3, RowsMakeMat, Zenon
<1>5. t \in Mat /\ \A j \in 1..4 : Column(t, j) = r[j]
  BY <1>4, ColumnIs
<1>6. d = Dot(m[1], r[1])
  BY Zenon DEF Determinant, Dot, r
<1>7. /\ Dot(m[1], r[1]) = d /\ Dot(m[2], r[2]) = d /\ Dot(m[3], r[3]) = d /\ Dot(m[4], r[4]) = d
  <2>1. /\ Dot(m[2], Cofactor(-1, 1, m[1], m[3], m[4])) = Dot(m[1], Cofactor(1, -1, m[2], m[3], m[4]))
        /\ Dot(m[3], Cofactor(1, -1, m[4], m[1], m[2])) = Dot(m[1], Cofactor(1, -1, m[2], m[3], m[4]))
        /\ Dot(m[4], Cofactor(-1, 1, m[3], m[1], m[2])) = Dot(m[1], Cofactor(1, -1, m[2], m[3], m[4]))
    BY <1>1, Laplace
  <2> QED
    BY <1>2, <1>6, <2>1, Zenon
<1>8. Dot(m[2], r[1]) = 0 /\ Dot(m[3], r[1]) = 0 /\ Dot(m[4], r[1]) = 0
  BY <1>1, <1>2, CofactorOrthogonal
<1>9. Dot(m[1], r[2]) = 0 /\ Dot(m[3], r[2]) = 0 /\ Dot(m[4], r[2]) = 0
  BY <1>1, <1>2, CofactorOrthogonal
<1>10. Dot(m[1], r[3]) = 0 /\ Dot(m[2], r[3]) = 0 /\ Dot(m[4], r[3]) = 0
  BY <1>1, <1>2, CofactorOrthogonal
<1>11. Dot(m[1], r[4]) = 0 /\ Dot(m[2], r[4]) = 0 /\ Dot(m[3], r[4]) = 0
  BY <1>1, <1>2, CofactorOrthogonal
<1>12. \A i, j \in 1..4 : Dot(m[i], Column(t, j)) = IF i = j THEN d ELSE 0
  <2>1. \A i, j \in 1..4 : Dot(m[i], r[j]) = IF i = j THEN d ELSE 0
    BY <1>7, <1>8, <1>9, <1>10, <1>11
  <2> QED
    BY <1>5, <2>1
<1> HIDE DEF t
<1>13. Product(m, t) = FourTimes(d)
  BY <1>12 DEF Product, FourTimes
<1>14. t = InverseTimesDet(m)
  BY DEF t, r, InverseTimesDet
<1> QED
  BY <1>5, <1>13, <1>14, DiagIs, Zenon

\* Vectors of three lanes.
Space == Int \X Int \X Int

\* A vector of three lanes with a fourth.
LEMMA PointIs ==
  ASSUME NEW v \in Space, NEW e
  PROVE  Append(v, e) = <<v[1], v[2], v[3], e>>
<1>1. PICK a, b, c \in Int : v = <<a, b, c>>
  BY DEF Space
<1> DEFINE S == {a, b, c, e}
           s == <<a, b, c>>
           t == <<a, b, c, e>>
<1>2. s \in Seq(S) /\ t \in Seq(S) /\ e \in S /\ Len(s) = 3 /\ Len(t) = 4
  OBVIOUS
<1>3. s[1] = a /\ s[2] = b /\ s[3] = c /\ t[1] = a /\ t[2] = b /\ t[3] = c /\ t[4] = e
  OBVIOUS
<1> HIDE DEF S, s, t
<1>4. /\ Append(s, e) \in Seq(S) /\ Len(Append(s, e)) = 4
      /\ \A i \in 1..3 : Append(s, e)[i] = s[i]
      /\ Append(s, e)[4] = e
  <2>1. Append(s, e) \in Seq(S) /\ Len(Append(s, e)) = Len(s) + 1
    BY <1>2, AppendProperties, Zenon
  <2>2. \A i \in 1..3 : Append(s, e)[i] = s[i]
    <3>1. Append(s, e) = SideBySide(s, <<e>>)
      BY <1>2, AppendIsConcat, Zenon DEF SideBySide
    <3>2. IsSeqOf(s, 3) /\ IsSeqOf(<<e>>, 1)
      BY DEF s, IsSeqOf
    <3>3. \A i \in 1..3 : SideBySide(s, <<e>>)[i] = s[i]
      BY <3>2, JoinedIs
    <3> QED
      BY <3>1, <3>3, Zenon
  <2>3. Append(s, e)[Len(s) + 1] = e
    BY <1>2, AppendProperties, Zenon
  <2>4. Len(s) = 3 /\ 3 + 1 = 4
    BY <1>2
  <2> QED
    BY <2>1, <2>2, <2>3, <2>4, Zenon
<1>5. \A i \in 1..Len(t) : Append(s, e)[i] = t[i]
  <2>1. \A i \in 1..Len(t) : i = 1 \/ i = 2 \/ i = 3 \/ i = 4
    BY <1>2
  <2> QED
    BY <1>3, <1>4, <2>1
<1>6. Append(s, e) = t
  BY <1>2, <1>4, <1>5, SeqEqual
<1> QED
  BY <1>1, <1>6 DEF s, t

\* A vector of four lanes without the fourth.
LEMMA ThreeOfFour ==
  ASSUME NEW a, NEW b, NEW c, NEW d
  PROVE  SubSeq(<<a, b, c, d>>, 1, 3) = <<a, b, c>>
<1> DEFINE s == <<a, b, c, d>>
           t == <<a, b, c>>
<1>1. IsSeqOf(t, 3)
  BY DEF IsSeqOf
<1>2. \A i \in 1..3 : t[i] = s[1 + i - 1]
  OBVIOUS
<1> HIDE DEF s
<1>3. t = SubSeq(s, 1, 3)
  BY <1>1, <1>2, IsPart
<1> QED
  BY <1>3 DEF s

\* What the text books have for q v q*.
Rodrigues(q, v) ==
  <<(q[4] * q[4] + q[1] * q[1] - q[2] * q[2] - q[3] * q[3]) * v[1]
      + 2 * (q[1] * q[2] - q[4] * q[3]) * v[2] + 2 * (q[1] * q[3] + q[4] * q[2]) * v[3],
    2 * (q[1] * q[2] + q[4] * q[3]) * v[1]
      + (q[4] * q[4] - q[1] * q[1] + q[2] * q[2] - q[3] * q[3]) * v[2]
      + 2 * (q[2] * q[3] - q[4] * q[1]) * v[3],
    2 * (q[1] * q[3] - q[4] * q[2]) * v[1] + 2 * (q[2] * q[3] + q[4] * q[1]) * v[2]
      + (q[4] * q[4] - q[1] * q[1] - q[2] * q[2] + q[3] * q[3]) * v[3]>>

\* Two products of quaternions rotate a point.
LEMMA SandwichIs ==
  ASSUME NEW q \in Vec, NEW v \in Space
  PROVE  Sandwich(q, v) = Rodrigues(q, v) /\ Sandwich(q, v) \in Space
<1>1. PICK x, y, z, w \in Int : q = <<x, y, z, w>>
  BY DEF Vec
<1>2. PICK a, b, c \in Int : v = <<a, b, c>>
  BY DEF Space
<1>3. Imaginary(<<a, b, c>>) = <<a, b, c, 0>>
  BY PointIs DEF Imaginary, Space
<1> DEFINE p == Hamilton(<<x, y, z, w>>, <<a, b, c, 0>>)
           s == Hamilton(p, <<-x, -y, -z, w>>)
<1>4. s = <<s[1], s[2], s[3], s[4]>>
  <2> HIDE DEF p
  <2> QED
    BY DEF Hamilton
<1>5. SubSeq(s, 1, 3) = <<s[1], s[2], s[3]>>
  <2> HIDE DEF s
  <2>1. SubSeq(<<s[1], s[2], s[3], s[4]>>, 1, 3) = <<s[1], s[2], s[3]>>
    BY ThreeOfFour
  <2> QED
    BY <1>4, <2>1, Zenon
<1> DEFINE r == Rodrigues(<<x, y, z, w>>, <<a, b, c>>)
<1>6. s[1] = r[1]
  BY DEF Hamilton, Rodrigues
<1>7. s[2] = r[2]
  BY DEF Hamilton, Rodrigues
<1>8. s[3] = r[3]
  BY DEF Hamilton, Rodrigues
<1>9. r = <<r[1], r[2], r[3]>> /\ r \in Space
  BY DEF Rodrigues, Space
<1>10. Sandwich(<<x, y, z, w>>, <<a, b, c>>) = SubSeq(s, 1, 3)
  <2>1. Star(<<x, y, z, w>>) = <<-x, -y, -z, w>>
    BY DEF Star
  <2> HIDE DEF s
  <2>2. s = Hamilton(Hamilton(<<x, y, z, w>>, Imaginary(<<a, b, c>>)), Star(<<x, y, z, w>>))
    BY <1>3, <2>1, Zenon DEF s
  <2> QED
    BY <2>2, Zenon DEF Sandwich
<1> HIDE DEF s, r
<1>11. Sandwich(<<x, y, z, w>>, <<a, b, c>>) = r
  BY <1>5, <1>6, <1>7, <1>8, <1>9, <1>10, Zenon
<1> QED
  BY <1>1, <1>2, <1>9, <1>11, Zenon DEF r

\* The matrix of a quaternion turns a point, and multiplies by the square of its length.
LEMMA RotationIs ==
  ASSUME NEW q \in Vec
  PROVE  /\ Rotation(q) \in Mat
         /\ \A v \in Space : Apply(Rotation(q), Point(v)) = Append(Sandwich(q, v), Dot(q, q))
<1>1. PICK x, y, z, w \in Int : q = <<x, y, z, w>>
  BY DEF Vec
<1> DEFINE A == <<<<w, -z, y, x>>, <<z, w, -x, y>>, <<-y, x, w, z>>, <<-x, -y, -z, w>>>>
           B == <<<<w, z, -y, x>>, <<-z, w, x, y>>, <<y, -x, w, z>>, <<-x, -y, -z, w>>>>
           R == MultiplyTransposed(A, B)
<1>2. A \in Mat /\ B \in Mat
  BY DEF Mat, Vec
<1>3. R \in Mat
  BY <1>2, ProductIs
<1>4. Rotation(<<x, y, z, w>>) = R
  BY DEF Rotation
<1>5. /\ R[1] = RowDots(A[1], B[1], B[2], B[3], B[4]) /\ R[2] = RowDots(A[2], B[1], B[2], B[3], B[4])
      /\ R[3] = RowDots(A[3], B[1], B[2], B[3], B[4]) /\ R[4] = RowDots(A[4], B[1], B[2], B[3], B[4])
  <2> HIDE DEF A, B
  <2> QED
    BY <1>2, RowIs
<1>6. ASSUME NEW v \in Space
      PROVE  Apply(R, Point(v)) = Append(Sandwich(<<x, y, z, w>>, v), Dot(<<x, y, z, w>>, <<x, y, z, w>>))
  <2>1. PICK a, b, c \in Int : v = <<a, b, c>>
    BY DEF Space
  <2> DEFINE r == Rodrigues(<<x, y, z, w>>, <<a, b, c>>)
             d == Dot(<<x, y, z, w>>, <<x, y, z, w>>)
             p == <<a, b, c, 1>>
  <2>2. Point(v) = p /\ p \in Vec
    BY <2>1, PointIs DEF Point, Vec
  <2>3. Sandwich(<<x, y, z, w>>, v) = r /\ r \in Space
    BY <2>1, SandwichIs DEF Vec
  <2>4. Append(r, d) = <<r[1], r[2], r[3], d>>
    <3> HIDE DEF r, d
    <3> QED
      BY <2>3, PointIs
  <2>5. Apply(R, p) = <<Dot(R[1], p), Dot(R[2], p), Dot(R[3], p), Dot(R[4], p)>>
    <3> HIDE DEF R, p
    <3> QED
      BY <1>3, <2>2, ApplyIs
  <2>6. Dot(RowDots(A[1], B[1], B[2], B[3], B[4]), p) = r[1]
    BY DEF Dot, RowDots, Rodrigues
  <2>7. Dot(RowDots(A[2], B[1], B[2], B[3], B[4]), p) = r[2]
    BY DEF Dot, RowDots, Rodrigues
  <2>8. Dot(RowDots(A[3], B[1], B[2], B[3], B[4]), p) = r[3]
    BY DEF Dot, RowDots, Rodrigues
  <2>9. Dot(RowDots(A[4], B[1], B[2], B[3], B[4]), p) = d
    BY DEF Dot, RowDots
  <2> HIDE DEF A, B, R, r, d, p
  <2>10. Apply(R, p) = Append(r, d)
    BY <1>5, <2>4, <2>5, <2>6, <2>7, <2>8, <2>9, Zenon
  <2> QED
    BY <2>2, <2>3, <2>10, Zenon DEF d
<1> QED
  BY <1>1, <1>3, <1>4, <1>6, Zenon

\* A rotation applied to a point, without a matrix.
LEMMA RotatedIs ==
  ASSUME NEW q \in Vec, NEW v \in Space, Dot(q, q) = 1
  PROVE  Rotated(q, v, 1) = Sandwich(q, v) /\ Rotated(q, v, -1) = Sandwich(Star(q), v)
<1>1. PICK x, y, z, w \in Int : q = <<x, y, z, w>>
  BY DEF Vec
<1>2. PICK a, b, c \in Int : v = <<a, b, c>>
  BY DEF Space
<1>3. SubSeq(<<x, y, z, w>>, 1, 3) = <<x, y, z>>
  BY ThreeOfFour
<1>4. \A k, l, m, d, e, f \in Int : /\ Cross(<<k, l, m>>, <<d, e, f>>) =
                                         <<l * f - m * e, m * d - k * f, k * e - l * d>>
  BY DEF Cross, Sub, Mul, Shuffle
<1> DEFINE t1 == 2 * (y * c - z * b)
           t2 == 2 * (z * a - x * c)
           t3 == 2 * (x * b - y * a)
<1>5. Scaled(2, Cross(<<x, y, z>>, <<a, b, c>>)) = <<t1, t2, t3>>
  <2>1. Cross(<<x, y, z>>, <<a, b, c>>) = <<y * c - z * b, z * a - x * c, x * b - y * a>>
    BY <1>4
  <2> QED
    BY <2>1 DEF Scaled
<1>6. t1 \in Int /\ t2 \in Int /\ t3 \in Int
  OBVIOUS
<1>7. Cross(<<x, y, z>>, <<t1, t2, t3>>) = <<y * t3 - z * t2, z * t1 - x * t3, x * t2 - y * t1>>
  <2> HIDE DEF t1, t2, t3
  <2> QED
    BY <1>4, <1>6
<1>8. ASSUME NEW e \in {1, -1}
      PROVE  Rotated(<<x, y, z, w>>, <<a, b, c>>, e) =
               <<a + e * w * t1 + (y * t3 - z * t2), b + e * w * t2 + (z * t1 - x * t3),
                 c + e * w * t3 + (x * t2 - y * t1)>>
  <2> HIDE DEF t1, t2, t3
  <2>1. Rotated(<<x, y, z, w>>, <<a, b, c>>, e) =
          Add(Add(<<a, b, c>>, Scaled(e * w, <<t1, t2, t3>>)),
              <<y * t3 - z * t2, z * t1 - x * t3, x * t2 - y * t1>>)
    BY <1>3, <1>5, <1>7 DEF Rotated
  <2> QED
    BY <2>1 DEF Add, Scaled
<1>9. w * w + x * x + y * y + z * z = 1
  BY <1>1 DEF Dot
<1> DEFINE r == Rodrigues(<<x, y, z, w>>, <<a, b, c>>)
           s == Rodrigues(<<-x, -y, -z, w>>, <<a, b, c>>)
           n == w * w + x * x + y * y + z * z
<1>10. /\ a + 1 * w * t1 + (y * t3 - z * t2) = r[1] + a * (1 - n)
       /\ b + 1 * w * t2 + (z * t1 - x * t3) = r[2] + b * (1 - n)
       /\ c + 1 * w * t3 + (x * t2 - y * t1) = r[3] + c * (1 - n)
  BY DEF Rodrigues
<1>11. /\ a + (-1) * w * t1 + (y * t3 - z * t2) = s[1] + a * (1 - n)
       /\ b + (-1) * w * t2 + (z * t1 - x * t3) = s[2] + b * (1 - n)
       /\ c + (-1) * w * t3 + (x * t2 - y * t1) = s[3] + c * (1 - n)
  BY DEF Rodrigues
<1>12. r = <<r[1], r[2], r[3]>> /\ r \in Space /\ s = <<s[1], s[2], s[3]>> /\ s \in Space
  BY DEF Rodrigues, Space
<1>13. Sandwich(q, v) = r /\ Sandwich(Star(q), v) = s
  <2>1. Star(q) = <<-x, -y, -z, w>> /\ Star(q) \in Vec
    BY <1>1 DEF Star, Vec
  <2> QED
    BY <1>1, <1>2, <2>1, SandwichIs
<1> HIDE DEF t1, t2, t3, r, s
<1>14. /\ \A k \in Int : k * (1 - n) = 0
       /\ r[1] \in Int /\ r[2] \in Int /\ r[3] \in Int /\ s[1] \in Int /\ s[2] \in Int /\ s[3] \in Int
  BY <1>9, <1>12 DEF Space
<1> HIDE DEF n
<1>15. /\ a + 1 * w * t1 + (y * t3 - z * t2) = r[1]
       /\ b + 1 * w * t2 + (z * t1 - x * t3) = r[2]
       /\ c + 1 * w * t3 + (x * t2 - y * t1) = r[3]
  BY <1>10, <1>14
<1>16. /\ a + (-1) * w * t1 + (y * t3 - z * t2) = s[1]
       /\ b + (-1) * w * t2 + (z * t1 - x * t3) = s[2]
       /\ c + (-1) * w * t3 + (x * t2 - y * t1) = s[3]
  BY <1>11, <1>14
<1>17. Rotated(<<x, y, z, w>>, <<a, b, c>>, 1) = r
  BY <1>8, <1>12, <1>15, Zenon
<1>18. Rotated(<<x, y, z, w>>, <<a, b, c>>, -1) = s
  BY <1>8, <1>12, <1>16, Zenon
<1> QED
  BY <1>1, <1>2, <1>13, <1>17, <1>18, Zenon

\* A vector times a scalar, lane by lane.
LEMMA ScaledIs ==
  ASSUME NEW k \in Int, NEW x1 \in Int, NEW x2 \in Int, NEW x3 \in Int, NEW x4 \in Int
  PROVE  Scaled(k, <<x1, x2, x3, x4>>) = <<k * x1, k * x2, k * x3, k * x4>>
BY DEF Scaled

\* A matrix of three scaled columns and a translation, and what it does to a point.
Frame(a, b, c, v, t, stray) ==
  [Transpose(<<Scaled(v[1], a), Scaled(v[2], b), Scaled(v[3], c), Append(t, stray)>>)
     EXCEPT ![4][4] = 1]

\* Where that is.
MovedTo(a, b, c, v, t, u) ==
  <<a[1] * (v[1] * u[1]) + b[1] * (v[2] * u[2]) + c[1] * (v[3] * u[3]) + t[1],
    a[2] * (v[1] * u[1]) + b[2] * (v[2] * u[2]) + c[2] * (v[3] * u[3]) + t[2],
    a[3] * (v[1] * u[1]) + b[3] * (v[2] * u[2]) + c[3] * (v[3] * u[3]) + t[3],
    a[4] * (v[1] * u[1]) + b[4] * (v[2] * u[2]) + c[4] * (v[3] * u[3]) + 1>>

\* Each lane of it.
LEMMA MovedPoint ==
  ASSUME NEW a \in Vec, NEW b \in Vec, NEW c \in Vec,
         NEW v \in Space, NEW t \in Space, NEW u \in Space, NEW stray \in Int
  PROVE  Apply(Frame(a, b, c, v, t, stray), Point(u)) = MovedTo(a, b, c, v, t, u)
<1> DEFINE v1 == v[1]
           v2 == v[2]
           v3 == v[3]
           t1 == t[1]
           t2 == t[2]
           t3 == t[3]
           u1 == u[1]
           u2 == u[2]
           u3 == u[3]
<1>0. /\ v1 \in Int /\ v2 \in Int /\ v3 \in Int /\ t1 \in Int /\ t2 \in Int /\ t3 \in Int
      /\ u1 \in Int /\ u2 \in Int /\ u3 \in Int
      /\ Point(u) = <<u1, u2, u3, 1>> /\ Append(t, stray) = <<t1, t2, t3, stray>>
  <2>1. Append(u, 1) = <<u[1], u[2], u[3], 1>> /\ Append(t, stray) = <<t[1], t[2], t[3], stray>>
    BY PointIs, Zenon
  <2>2. \A x \in Space : x[1] \in Int /\ x[2] \in Int /\ x[3] \in Int
    BY DEF Space
  <2> QED
    BY <2>1, <2>2, Zenon DEF Point
<1> DEFINE n == <<Scaled(v1, a), Scaled(v2, b), Scaled(v3, c), <<t1, t2, t3, stray>>>>
<1>14. Frame(a, b, c, v, t, stray) = [Transpose(n) EXCEPT ![4][4] = 1]
  BY <1>0, Zenon DEF Frame
<1> HIDE DEF v1, v2, v3, t1, t2, t3, u1, u2, u3
<1>1. PICK a1, a2, a3, a4 \in Int : a = <<a1, a2, a3, a4>>
  BY DEF Vec
<1>2. PICK b1, b2, b3, b4 \in Int : b = <<b1, b2, b3, b4>>
  BY DEF Vec
<1>3. PICK c1, c2, c3, c4 \in Int : c = <<c1, c2, c3, c4>>
  BY DEF Vec
<1>4. /\ Scaled(v1, a) = <<v1 * a1, v1 * a2, v1 * a3, v1 * a4>>
      /\ Scaled(v2, b) = <<v2 * b1, v2 * b2, v2 * b3, v2 * b4>>
      /\ Scaled(v3, c) = <<v3 * c1, v3 * c2, v3 * c3, v3 * c4>>
  <2>1. \A k, x1, x2, x3, x4 \in Int :
          Scaled(k, <<x1, x2, x3, x4>>) = <<k * x1, k * x2, k * x3, k * x4>>
    BY ScaledIs
  <2>2. v1 \in Int /\ v2 \in Int /\ v3 \in Int
    BY <1>0
  <2>3. Scaled(v1, a) = <<v1 * a1, v1 * a2, v1 * a3, v1 * a4>>
    BY <1>1, <2>1, <2>2
  <2>4. Scaled(v2, b) = <<v2 * b1, v2 * b2, v2 * b3, v2 * b4>>
    BY <1>2, <2>1, <2>2
  <2>5. Scaled(v3, c) = <<v3 * c1, v3 * c2, v3 * c3, v3 * c4>>
    BY <1>3, <2>1, <2>2
  <2> QED
    BY <2>3, <2>4, <2>5
<1> DEFINE p == <<u1, u2, u3, 1>>
           m1 == <<v1 * a1, v2 * b1, v3 * c1, t1>>
           m2 == <<v1 * a2, v2 * b2, v3 * c2, t2>>
           m3 == <<v1 * a3, v2 * b3, v3 * c3, t3>>
           m4 == <<v1 * a4, v2 * b4, v3 * c4, 1>>
           o4 == <<v1 * a4, v2 * b4, v3 * c4, stray>>
           m == <<m1, m2, m3, m4>>
<1>5. Transpose(n) = <<Column(n, 1), Column(n, 2), Column(n, 3), Column(n, 4)>>
  BY TransposeIs
<1>6. Column(n, 1) = m1 /\ Column(n, 2) = m2 /\ Column(n, 3) = m3 /\ Column(n, 4) = o4
  BY <1>4 DEF Column
<1>7. [o4 EXCEPT ![4] = 1] = m4
  OBVIOUS
<1>8. p \in Vec /\ m1 \in Vec /\ m2 \in Vec /\ m3 \in Vec /\ m4 \in Vec
  <2>1. \A j, k \in Int : j * k \in Int
    OBVIOUS
  <2>2. \A x1, x2, x3, x4 \in Int : <<x1, x2, x3, x4>> \in Vec
    BY DEF Vec
  <2>3. /\ v1 * a1 \in Int /\ v1 * a2 \in Int /\ v1 * a3 \in Int /\ v1 * a4 \in Int
        /\ v2 * b1 \in Int /\ v2 * b2 \in Int /\ v2 * b3 \in Int /\ v2 * b4 \in Int
        /\ v3 * c1 \in Int /\ v3 * c2 \in Int /\ v3 * c3 \in Int /\ v3 * c4 \in Int
    BY <1>0, <2>1, Zenon
  <2>4. 1 \in Int
    OBVIOUS
  <2> QED
    BY <1>0, <2>2, <2>3, <2>4, Zenon
<1>9. /\ Dot(m1, p) = a1 * (v1 * u1) + b1 * (v2 * u2) + c1 * (v3 * u3) + t1
      /\ Dot(m2, p) = a2 * (v1 * u1) + b2 * (v2 * u2) + c2 * (v3 * u3) + t2
      /\ Dot(m3, p) = a3 * (v1 * u1) + b3 * (v2 * u2) + c3 * (v3 * u3) + t3
      /\ Dot(m4, p) = a4 * (v1 * u1) + b4 * (v2 * u2) + c4 * (v3 * u3) + 1
  BY <1>0 DEF Dot
<1> HIDE DEF n, p, m1, m2, m3, m4, o4
<1>10. [Transpose(n) EXCEPT ![4][4] = 1] = m
  BY <1>5, <1>6, <1>7
<1>11. m \in Mat /\ m[1] = m1 /\ m[2] = m2 /\ m[3] = m3 /\ m[4] = m4
  BY <1>8 DEF Mat
<1> HIDE DEF m
<1>12. Apply(m, p) = <<Dot(m1, p), Dot(m2, p), Dot(m3, p), Dot(m4, p)>>
  BY <1>8, <1>11, ApplyIs
<1>13. /\ a[1] = a1 /\ a[2] = a2 /\ a[3] = a3 /\ a[4] = a4
       /\ b[1] = b1 /\ b[2] = b2 /\ b[3] = b3 /\ b[4] = b4
       /\ c[1] = c1 /\ c[2] = c2 /\ c[3] = c3 /\ c[4] = c4
  BY <1>1, <1>2, <1>3
<1> QED
  BY <1>0, <1>9, <1>10, <1>12, <1>13, <1>14, Zenon DEF MovedTo, p, v1, v2, v3, t1, t2, t3, u1, u2, u3

\* The two matrices that the code multiplies, and the first columns of what comes of it.
LeftOf(x, y, z, w) ==
  <<<<w, z, -y, x>>, <<-z, w, x, y>>, <<y, -x, w, z>>, <<-x, -y, -z, w>>>>
RightOf(x, y, z, w) ==
  <<<<w, -z, y, x>>, <<z, w, -x, y>>, <<-y, x, w, z>>, <<-x, -y, -z, w>>>>
FirstColumn(x, y, z, w) ==
  <<w * w + x * x - y * y - z * z, 2 * (x * y + w * z), 2 * (x * z - w * y), 0>>
SecondColumn(x, y, z, w) ==
  <<2 * (x * y - w * z), w * w - x * x + y * y - z * z, 2 * (y * z + w * x), 0>>
ThirdColumn(x, y, z, w) ==
  <<2 * (x * z + w * y), 2 * (y * z - w * x), w * w - x * x - y * y + z * z, 0>>

\* The rows that the code computes are the columns of the rotation.
LEMMA RotationColumns ==
  ASSUME NEW x \in Int, NEW y \in Int, NEW z \in Int, NEW w \in Int, NEW A, NEW B,
         A = LeftOf(x, y, z, w), B = RightOf(x, y, z, w)
  PROVE  /\ A \in Mat /\ B \in Mat
         /\ MultiplyTransposed(A, B)[1] = FirstColumn(x, y, z, w)
         /\ MultiplyTransposed(A, B)[2] = SecondColumn(x, y, z, w)
         /\ MultiplyTransposed(A, B)[3] = ThirdColumn(x, y, z, w)
<1>1. A \in Mat /\ B \in Mat
  BY DEF LeftOf, RightOf, Mat, Vec
<1>2. /\ MultiplyTransposed(A, B)[1] = RowDots(A[1], B[1], B[2], B[3], B[4])
      /\ MultiplyTransposed(A, B)[2] = RowDots(A[2], B[1], B[2], B[3], B[4])
      /\ MultiplyTransposed(A, B)[3] = RowDots(A[3], B[1], B[2], B[3], B[4])
  BY <1>1, RowIs
<1>3. /\ A[1] = <<w, z, -y, x>> /\ A[2] = <<-z, w, x, y>> /\ A[3] = <<y, -x, w, z>>
      /\ B[1] = <<w, -z, y, x>> /\ B[2] = <<z, w, -x, y>>
      /\ B[3] = <<-y, x, w, z>> /\ B[4] = <<-x, -y, -z, w>>
  BY DEF LeftOf, RightOf
<1> DEFINE dots(v) ==
             RowDots(v, <<w, -z, y, x>>, <<z, w, -x, y>>, <<-y, x, w, z>>, <<-x, -y, -z, w>>)
<1>4. dots(<<w, z, -y, x>>) =
        <<w * w + x * x - y * y - z * z, 2 * (x * y + w * z), 2 * (x * z - w * y), 0>>
  BY DEF RowDots, Dot
<1>5. dots(<<-z, w, x, y>>) =
        <<2 * (x * y - w * z), w * w - x * x + y * y - z * z, 2 * (y * z + w * x), 0>>
  BY DEF RowDots, Dot
<1>6. dots(<<y, -x, w, z>>) =
        <<2 * (x * z + w * y), 2 * (y * z - w * x), w * w - x * x - y * y + z * z, 0>>
  BY DEF RowDots, Dot
<1> QED
  BY <1>1, <1>2, <1>3, <1>4, <1>5, <1>6, Zenon DEF FirstColumn, SecondColumn, ThirdColumn

\* A transform scales, turns and moves a point, whatever was in the lane not used.
LEMMA TransformIs ==
  ASSUME NEW q \in Vec, NEW v \in Space, NEW t \in Space, NEW u \in Space, NEW stray \in Int
  PROVE  Apply(Transform(t, q, v, stray), Point(u)) = Point(Add(Sandwich(q, Mul(v, u)), t))
<1>1. PICK x, y, z, w \in Int : q = <<x, y, z, w>>
  BY DEF Vec
<1>2. PICK v1, v2, v3 \in Int : v = <<v1, v2, v3>>
  BY DEF Space
<1>3. PICK t1, t2, t3 \in Int : t = <<t1, t2, t3>>
  BY DEF Space
<1>4. PICK u1, u2, u3 \in Int : u = <<u1, u2, u3>>
  BY DEF Space
<1> DEFINE A == LeftOf(x, y, z, w)
           B == RightOf(x, y, z, w)
           r == MultiplyTransposed(A, B)
<1>5. A \in Mat /\ B \in Mat /\ r[1] = FirstColumn(x, y, z, w)
      /\ r[2] = SecondColumn(x, y, z, w) /\ r[3] = ThirdColumn(x, y, z, w)
  BY RotationColumns
<1>6. Transform(t, q, v, stray) = Frame(r[1], r[2], r[3], v, t, stray)
  <2>1. q[1] = x /\ q[2] = y /\ q[3] = z /\ q[4] = w
    BY <1>1
  <2>2. Transform(t, q, v, stray) =
          LET k == MultiplyTransposed(LeftOf(q[1], q[2], q[3], q[4]),
                                      RightOf(q[1], q[2], q[3], q[4]))
          IN  Frame(k[1], k[2], k[3], v, t, stray)
    BY Zenon DEF Transform, Frame, LeftOf, RightOf
  <2> QED
    BY <2>1, <2>2, Zenon
<1>7. r[1] \in Vec /\ r[2] \in Vec /\ r[3] \in Vec
  <2> HIDE DEF A, B
  <2> QED
    BY <1>5, RowIs
<1> HIDE DEF r, A, B
<1>8. Apply(Frame(r[1], r[2], r[3], v, t, stray), Point(u)) = MovedTo(r[1], r[2], r[3], v, t, u)
  BY <1>7, MovedPoint
<1>9. MovedTo(r[1], r[2], r[3], v, t, u) =
        <<r[1][1] * (v1 * u1) + r[2][1] * (v2 * u2) + r[3][1] * (v3 * u3) + t1,
          r[1][2] * (v1 * u1) + r[2][2] * (v2 * u2) + r[3][2] * (v3 * u3) + t2,
          r[1][3] * (v1 * u1) + r[2][3] * (v2 * u2) + r[3][3] * (v3 * u3) + t3,
          r[1][4] * (v1 * u1) + r[2][4] * (v2 * u2) + r[3][4] * (v3 * u3) + 1>>
  <2>1. /\ u[1] = u1 /\ u[2] = u2 /\ u[3] = u3 /\ t[1] = t1 /\ t[2] = t2 /\ t[3] = t3
        /\ v[1] = v1 /\ v[2] = v2 /\ v[3] = v3
    BY <1>2, <1>3, <1>4
  <2> QED
    BY <2>1, Zenon DEF MovedTo
<1>10. /\ r[1] = <<w * w + x * x - y * y - z * z, 2 * (x * y + w * z), 2 * (x * z - w * y), 0>>
       /\ r[2] = <<2 * (x * y - w * z), w * w - x * x + y * y - z * z, 2 * (y * z + w * x), 0>>
       /\ r[3] = <<2 * (x * z + w * y), 2 * (y * z - w * x), w * w - x * x - y * y + z * z, 0>>
  BY <1>5, Zenon DEF FirstColumn, SecondColumn, ThirdColumn
<1> DEFINE s == Rodrigues(<<x, y, z, w>>, <<v1 * u1, v2 * u2, v3 * u3>>)
<1>11. Sandwich(q, Mul(v, u)) = s /\ s \in Space
  <2>1. Mul(v, u) = <<v1 * u1, v2 * u2, v3 * u3>> /\ Mul(v, u) \in Space
    BY <1>2, <1>4 DEF Mul, Space
  <2>2. Sandwich(q, Mul(v, u)) = Rodrigues(q, Mul(v, u)) /\ Sandwich(q, Mul(v, u)) \in Space
    BY <2>1, SandwichIs
  <2> QED
    BY <1>1, <2>1, <2>2, Zenon
<1>12. Point(Add(s, t)) = <<s[1] + t1, s[2] + t2, s[3] + t3, 1>>
  <2> HIDE DEF s
  <2>1. Add(s, t) = <<s[1] + t1, s[2] + t2, s[3] + t3>> /\ Add(s, t) \in Space
    BY <1>3, <1>11 DEF Add, Space
  <2>2. Add(s, t)[1] = s[1] + t1 /\ Add(s, t)[2] = s[2] + t2 /\ Add(s, t)[3] = s[3] + t3
    BY <2>1
  <2>3. Append(Add(s, t), 1) = <<Add(s, t)[1], Add(s, t)[2], Add(s, t)[3], 1>>
    BY <2>1, PointIs, Zenon
  <2> QED
    BY <2>2, <2>3, Zenon DEF Point
<1>13. /\ r[1][1] * (v1 * u1) + r[2][1] * (v2 * u2) + r[3][1] * (v3 * u3) = s[1]
       /\ r[1][2] * (v1 * u1) + r[2][2] * (v2 * u2) + r[3][2] * (v3 * u3) = s[2]
       /\ r[1][3] * (v1 * u1) + r[2][3] * (v2 * u2) + r[3][3] * (v3 * u3) = s[3]
       /\ r[1][4] * (v1 * u1) + r[2][4] * (v2 * u2) + r[3][4] * (v3 * u3) + 1 = 1
  BY <1>10 DEF Rodrigues
<1> HIDE DEF s
<1> QED
  BY <1>6, <1>8, <1>9, <1>11, <1>12, <1>13, Zenon

\* The products of three pairs of vectors, added up.
LEMMA ThreeDots ==
  ASSUME NEW c1 \in Vec, NEW c2 \in Vec, NEW c3 \in Vec,
         NEW d1 \in Vec, NEW d2 \in Vec, NEW d3 \in Vec
  PROVE  Hadd(Hadd(Mul(c1, d1), Mul(c2, d2)), Hadd(Mul(c3, d3), <<0, 0, 0, 0>>)) =
           <<Dot(c1, d1), Dot(c2, d2), Dot(c3, d3), 0>>
<1> DEFINE p == Mul(c1, d1)
           q == Mul(c2, d2)
           r == Mul(c3, d3)
           z == <<0, 0, 0, 0>>
<1>1. /\ p \in Vec /\ q \in Vec /\ r \in Vec
      /\ Dot(c1, d1) = Sum(p) /\ Dot(c2, d2) = Sum(q) /\ Dot(c3, d3) = Sum(r)
  BY DotIs
<1>2. z \in Vec /\ Sum(z) = 0
  BY DEF Vec, Sum
<1> HIDE DEF p, q, r, z
<1>3. Hadd(Hadd(p, q), Hadd(r, z)) = <<Sum(p), Sum(q), Sum(r), Sum(z)>>
  <2>1. p \in Vec /\ q \in Vec /\ r \in Vec /\ z \in Vec
    BY <1>1, <1>2
  <2> QED
    BY <2>1, SumsAre, SMTT(60)
<1>4. Hadd(Hadd(p, q), Hadd(r, z)) = <<Dot(c1, d1), Dot(c2, d2), Dot(c3, d3), 0>>
  BY <1>1, <1>2, <1>3, Zenon
<1> QED
  BY <1>4 DEF p, q, r, z

\* A lane added to the last one of a vector.
LEMMA LastLane ==
  ASSUME NEW c \in Vec, NEW e1, NEW e2, NEW e3, NEW t, t = <<e1, e2, e3, 0>>
  PROVE  /\ Add(c, Shuffle(t, <<3, 3, 3, 0>>)) = <<c[1], c[2], c[3], c[4] + e1>>
         /\ Add(c, Shuffle(t, <<3, 3, 3, 1>>)) = <<c[1], c[2], c[3], c[4] + e2>>
         /\ Add(c, Shuffle(t, <<3, 3, 3, 2>>)) = <<c[1], c[2], c[3], c[4] + e3>>
<1>1. /\ Shuffle(t, <<3, 3, 3, 0>>) = <<0, 0, 0, e1>>
      /\ Shuffle(t, <<3, 3, 3, 1>>) = <<0, 0, 0, e2>>
      /\ Shuffle(t, <<3, 3, 3, 2>>) = <<0, 0, 0, e3>>
  BY DEF Shuffle
<1>2. DOMAIN c = 1..4
  BY VecIs
<1>3. \A e : Add(c, <<0, 0, 0, e>>) = <<c[1] + 0, c[2] + 0, c[3] + 0, c[4] + e>>
  BY <1>2 DEF Add
<1>4. c[1] + 0 = c[1] /\ c[2] + 0 = c[2] /\ c[3] + 0 = c[3]
  BY VecIs
<1> QED
  BY <1>1, <1>3, <1>4, Zenon

\* The rows that the code computes for an affine matrix, and what it divides them by.
LEMMA InverseTransformIs ==
  ASSUME NEW m, NEW n,
         NEW c1 \in Vec, NEW c2 \in Vec, NEW c3 \in Vec, NEW c4 \in Vec,
         n = InverseTransform(m), Transpose(m) = <<c1, c2, c3, c4>>
  PROVE  /\ n.rows = <<<<c1[1], c1[2], c1[3], c1[4] + Dot(c1, c4)>>,
                       <<c2[1], c2[2], c2[3], c2[4] + Dot(c2, c4)>>,
                       <<c3[1], c3[2], c3[3], c3[4] + Dot(c3, c4)>>, <<0, 0, 0, 1>>>>
         /\ n.by = <<Dot(c1, c1), Dot(c2, c2), Dot(c3, c3), 1>>
<1> DEFINE zero == <<0, 0, 0, 0>>
           sums(d1, d2, d3) ==
             Hadd(Hadd(Mul(c1, d1), Mul(c2, d2)), Hadd(Mul(c3, d3), zero))
           row(c, e) == <<c[1], c[2], c[3], c[4] + e>>
           s0 == sums(c1, c2, c3)
           t0 == sums(c4, c4, c4)
<1>2. /\ s0 = <<Dot(c1, c1), Dot(c2, c2), Dot(c3, c3), 0>>
      /\ t0 = <<Dot(c1, c4), Dot(c2, c4), Dot(c3, c4), 0>>
  <2>1. s0 = <<Dot(c1, c1), Dot(c2, c2), Dot(c3, c3), 0>>
    BY ThreeDots
  <2>2. t0 = <<Dot(c1, c4), Dot(c2, c4), Dot(c3, c4), 0>>
    BY ThreeDots
  <2> QED
    BY <2>1, <2>2, Zenon
<1>5. /\ Add(c1, Shuffle(t0, <<3, 3, 3, 0>>)) = row(c1, Dot(c1, c4))
      /\ Add(c2, Shuffle(t0, <<3, 3, 3, 1>>)) = row(c2, Dot(c2, c4))
      /\ Add(c3, Shuffle(t0, <<3, 3, 3, 2>>)) = row(c3, Dot(c3, c4))
  <2> HIDE DEF t0
  <2>1. Add(c1, Shuffle(t0, <<3, 3, 3, 0>>)) = <<c1[1], c1[2], c1[3], c1[4] + Dot(c1, c4)>>
    BY <1>2, LastLane
  <2>2. Add(c2, Shuffle(t0, <<3, 3, 3, 1>>)) = <<c2[1], c2[2], c2[3], c2[4] + Dot(c2, c4)>>
    BY <1>2, LastLane
  <2>3. Add(c3, Shuffle(t0, <<3, 3, 3, 2>>)) = <<c3[1], c3[2], c3[3], c3[4] + Dot(c3, c4)>>
    BY <1>2, LastLane
  <2> QED
    BY <2>1, <2>2, <2>3, Zenon
<1> DEFINE k == <<c1, c2, c3, c4>>
           products(l) ==
             Hadd(Hadd(Mul(k[1], k[l[1]]), Mul(k[2], k[l[2]])), Hadd(Mul(k[3], k[l[3]]), zero))
<1>6. k[1] = c1 /\ k[2] = c2 /\ k[3] = c3 /\ k[4] = c4
  OBVIOUS
<1>7. /\ n.rows = <<Add(k[1], Shuffle(products(<<4, 4, 4>>), <<3, 3, 3, 0>>)),
                    Add(k[2], Shuffle(products(<<4, 4, 4>>), <<3, 3, 3, 1>>)),
                    Add(k[3], Shuffle(products(<<4, 4, 4>>), <<3, 3, 3, 2>>)), <<0, 0, 0, 1>>>>
      /\ n.by = <<products(<<1, 2, 3>>)[1], products(<<1, 2, 3>>)[2], products(<<1, 2, 3>>)[3], 1>>
  BY Zenon DEF InverseTransform
<1> HIDE DEF k
<1>8. products(<<1, 2, 3>>) = s0 /\ products(<<4, 4, 4>>) = t0
  <2>1. /\ <<1, 2, 3>>[1] = 1 /\ <<1, 2, 3>>[2] = 2 /\ <<1, 2, 3>>[3] = 3
        /\ <<4, 4, 4>>[1] = 4 /\ <<4, 4, 4>>[2] = 4 /\ <<4, 4, 4>>[3] = 4
    OBVIOUS
  <2> QED
    BY <1>6, <2>1, Zenon
<1>9. s0[1] = Dot(c1, c1) /\ s0[2] = Dot(c2, c2) /\ s0[3] = Dot(c3, c3)
  <2> HIDE DEF s0
  <2> QED
    BY <1>2
<1> HIDE DEF products, s0, t0
<1> QED
  BY <1>5, <1>6, <1>7, <1>8, <1>9, Zenon

\* The last lanes of the first three rows, with the other sign.
Opposed(r) == [r EXCEPT ![1][4] = -@, ![2][4] = -@, ![3][4] = -@]

\* Each row of it.
LEMMA OpposedIs ==
  ASSUME NEW x1, NEW x2, NEW x3, NEW x4, NEW y1, NEW y2, NEW y3, NEW y4,
         NEW z1, NEW z2, NEW z3, NEW z4, NEW v, NEW r,
         r = <<<<x1, x2, x3, x4>>, <<y1, y2, y3, y4>>, <<z1, z2, z3, z4>>, v>>
  PROVE  Opposed(r) = <<<<x1, x2, x3, -x4>>, <<y1, y2, y3, -y4>>, <<z1, z2, z3, -z4>>, v>>
BY DEF Opposed

\* For an affine matrix of orthogonal columns, these rows invert its linear part.
LEMMA OppositeIs ==
  ASSUME NEW m \in Mat
  PROVE  InverseOpposite(m)
<1> DEFINE inv == InverseTransform(m)
           r == Opposed(inv.rows)
           D == Diag(inv.by[1], inv.by[2], inv.by[3], 1)
<1>1. SUFFICES ASSUME Affine(m), Orthogonal(m)
               PROVE  Product(r, m) = D
  BY Zenon DEF InverseOpposite, Opposed
<1>2. PICK a1, a2, a3, a4 \in Int : m[1] = <<a1, a2, a3, a4>>
  BY DEF Mat, Vec
<1>3. PICK b1, b2, b3, b4 \in Int : m[2] = <<b1, b2, b3, b4>>
  BY DEF Mat, Vec
<1>4. PICK c1, c2, c3, c4 \in Int : m[3] = <<c1, c2, c3, c4>>
  BY DEF Mat, Vec
<1>5. m[4] = <<0, 0, 0, 1>>
  BY <1>1 DEF Affine
<1> DEFINE k1 == <<a1, b1, c1, 0>>
           k2 == <<a2, b2, c2, 0>>
           k3 == <<a3, b3, c3, 0>>
           k4 == <<a4, b4, c4, 1>>
<1>6. Column(m, 1) = k1 /\ Column(m, 2) = k2 /\ Column(m, 3) = k3 /\ Column(m, 4) = k4
  BY <1>2, <1>3, <1>4, <1>5 DEF Column
<1>7. k1 \in Vec /\ k2 \in Vec /\ k3 \in Vec /\ k4 \in Vec
  BY DEF Vec
<1>8. Transpose(m) = <<k1, k2, k3, k4>>
  BY <1>6, TransposeIs, Zenon
<1>9. /\ inv.rows = <<<<k1[1], k1[2], k1[3], k1[4] + Dot(k1, k4)>>,
                      <<k2[1], k2[2], k2[3], k2[4] + Dot(k2, k4)>>,
                      <<k3[1], k3[2], k3[3], k3[4] + Dot(k3, k4)>>, <<0, 0, 0, 1>>>>
      /\ inv.by = <<Dot(k1, k1), Dot(k2, k2), Dot(k3, k3), 1>>
  <2> HIDE DEF inv, k1, k2, k3, k4
  <2> QED
    BY <1>7, <1>8, InverseTransformIs DEF inv
<1> DEFINE r1 == <<k1[1], k1[2], k1[3], -(k1[4] + Dot(k1, k4))>>
           r2 == <<k2[1], k2[2], k2[3], -(k2[4] + Dot(k2, k4))>>
           r3 == <<k3[1], k3[2], k3[3], -(k3[4] + Dot(k3, k4))>>
           r4 == <<0, 0, 0, 1>>
<1>10. r = <<r1, r2, r3, r4>>
  <2> DEFINE n == inv.rows
             e1 == k1[4] + Dot(k1, k4)
             e2 == k2[4] + Dot(k2, k4)
             e3 == k3[4] + Dot(k3, k4)
  <2>1. n = <<<<k1[1], k1[2], k1[3], e1>>, <<k2[1], k2[2], k2[3], e2>>,
              <<k3[1], k3[2], k3[3], e3>>, <<0, 0, 0, 1>>>>
    BY <1>9
  <2> HIDE DEF n, k1, k2, k3, k4, e1, e2, e3
  <2>2. Opposed(n) = <<<<k1[1], k1[2], k1[3], -e1>>, <<k2[1], k2[2], k2[3], -e2>>,
                       <<k3[1], k3[2], k3[3], -e3>>, <<0, 0, 0, 1>>>>
    BY <2>1, OpposedIs
  <2> QED
    BY <2>2, Zenon DEF n, e1, e2, e3
<1>11. r[1] = r1 /\ r[2] = r2 /\ r[3] = r3 /\ r[4] = r4
  <2> HIDE DEF r, r1, r2, r3, r4
  <2> QED
    BY <1>10
<1>12. /\ Dot(k1, k2) = 0 /\ Dot(k1, k3) = 0 /\ Dot(k2, k1) = 0
       /\ Dot(k2, k3) = 0 /\ Dot(k3, k1) = 0 /\ Dot(k3, k2) = 0
  <2> HIDE DEF k1, k2, k3, k4
  <2> QED
    BY <1>1, <1>6 DEF Orthogonal
<1>13. /\ Dot(r1, k1) = Dot(k1, k1) /\ Dot(r1, k2) = Dot(k1, k2) /\ Dot(r1, k3) = Dot(k1, k3)
       /\ Dot(r2, k1) = Dot(k2, k1) /\ Dot(r2, k2) = Dot(k2, k2) /\ Dot(r2, k3) = Dot(k2, k3)
       /\ Dot(r3, k1) = Dot(k3, k1) /\ Dot(r3, k2) = Dot(k3, k2) /\ Dot(r3, k3) = Dot(k3, k3)
       /\ Dot(r1, k4) = 0 /\ Dot(r2, k4) = 0 /\ Dot(r3, k4) = 0
       /\ Dot(r4, k1) = 0 /\ Dot(r4, k2) = 0 /\ Dot(r4, k3) = 0 /\ Dot(r4, k4) = 1
  BY DEF Dot
<1> DEFINE d1 == Dot(k1, k1)
           d2 == Dot(k2, k2)
           d3 == Dot(k3, k3)
<1>14. inv.by[1] = d1 /\ inv.by[2] = d2 /\ inv.by[3] = d3
  <2> HIDE DEF inv, d1, d2, d3
  <2>1. inv.by = <<d1, d2, d3, 1>>
    BY <1>9 DEF d1, d2, d3
  <2> QED
    BY <2>1
<1> HIDE DEF inv, r, k1, k2, k3, k4, r1, r2, r3, r4
<1>15. /\ RowDots(r1, k1, k2, k3, k4) = <<d1, 0, 0, 0>> /\ RowDots(r2, k1, k2, k3, k4) = <<0, d2, 0, 0>>
       /\ RowDots(r3, k1, k2, k3, k4) = <<0, 0, d3, 0>> /\ RowDots(r4, k1, k2, k3, k4) = <<0, 0, 0, 1>>
  BY <1>12, <1>13, Zenon DEF RowDots
<1> DEFINE P == Product(r, m)
<1>16. P = [i \in 1..4 |-> P[i]]
  BY DEF Product
<1>17. \A i \in 1..4 : P[i] = RowDots(r[i], Column(m, 1), Column(m, 2), Column(m, 3), Column(m, 4))
  BY DEF Product, RowDots
<1> HIDE DEF P
<1>18. P = <<P[1], P[2], P[3], P[4]>>
  BY <1>16
<1>19. \A i \in 1..4 : P[i] = RowDots(r[i], k1, k2, k3, k4)
  BY <1>6, <1>17, Zenon
<1>20. /\ P[1] = RowDots(r1, k1, k2, k3, k4) /\ P[2] = RowDots(r2, k1, k2, k3, k4)
       /\ P[3] = RowDots(r3, k1, k2, k3, k4) /\ P[4] = RowDots(r4, k1, k2, k3, k4)
  <2>1. 1 \in 1..4 /\ 2 \in 1..4 /\ 3 \in 1..4 /\ 4 \in 1..4
    OBVIOUS
  <2> QED
    BY <1>11, <1>19, <2>1, Zenon
<1>21. P = Diag(d1, d2, d3, 1)
  BY <1>15, <1>18, <1>20, Zenon DEF Diag
<1> QED
  BY <1>14, <1>21, Zenon DEF P

\* What AlgebraRight says of rotations, for every quaternion and point.
LEMMA RotationsAreRight == RotationsRight
<1> SUFFICES ASSUME NEW q \in Turn, NEW v \in Probe
             PROVE  /\ \A p \in Turn : QuatTimes(p, q) = Hamilton(p, q)
                    /\ QuatTimes(q, Conjugate(q)) = <<0, 0, 0, Dot(q, q)>>
                    /\ Apply(Rotation(q), Point(v)) = Append(Sandwich(q, v), Dot(q, q))
                    /\ Dot(q, q) = 1 =>
                         /\ Rotated(q, v, 1) = Sandwich(q, v)
                         /\ Rotated(q, v, -1) = Sandwich(Star(q), v)
                         /\ \A t \in Probe, stray \in {0, 2} :
                              Apply(Transform(t, q, v, stray), Point(t)) =
                                Point(Add(Sandwich(q, Mul(v, t)), t))
  BY Zenon DEF RotationsRight
<1>1. q \in Vec /\ v \in Space /\ \A t \in Probe : t \in Space
  BY AlgebraAssumption DEF Vec, Space
<1>2. Apply(Rotation(q), Point(v)) = Append(Sandwich(q, v), Dot(q, q))
  BY <1>1, RotationIs
<1>3. Dot(q, q) = 1 => Rotated(q, v, 1) = Sandwich(q, v) /\ Rotated(q, v, -1) = Sandwich(Star(q), v)
  BY <1>1, RotatedIs
<1>4. ASSUME NEW t \in Probe, NEW stray \in {0, 2}
      PROVE  Apply(Transform(t, q, v, stray), Point(t)) = Point(Add(Sandwich(q, Mul(v, t)), t))
  <2>1. stray \in Int
    OBVIOUS
  <2> QED
    BY <1>1, <2>1, TransformIs
<1>5. ASSUME NEW p \in Turn
      PROVE  QuatTimes(p, q) = Hamilton(p, q)
  <2>1. p \in Vec
    BY AlgebraAssumption DEF Vec
  <2>2. PICK a, b, c, d \in Int : p = <<a, b, c, d>>
    BY <2>1 DEF Vec
  <2>3. PICK x, y, z, w \in Int : q = <<x, y, z, w>>
    BY <1>1 DEF Vec
  <2> QED
    BY <2>2, <2>3 DEF QuatTimes, Hamilton
<1>6. QuatTimes(q, Conjugate(q)) = <<0, 0, 0, Dot(q, q)>>
  <2>1. PICK x, y, z, w \in Int : q = <<x, y, z, w>>
    BY <1>1 DEF Vec
  <2> QED
    BY <2>1 DEF QuatTimes, Conjugate, Dot
<1> QED
  BY <1>2, <1>3, <1>4, <1>5, <1>6, Zenon

\* Products of a matrix, and its inverse.
LEMMA ProductsAreRight ==
  ASSUME NEW m \in Mat
  PROVE  ProductsRight(m)
<1>1. Times(m, m) = Product(m, m)
  BY TimesIs
<1>2. ASSUME NEW v \in Probe
      PROVE  Apply(m, Point(v)) = [i \in 1..4 |-> Dot(m[i], Point(v))]
  <2> DEFINE p == Point(v)
  <2>1. v \in Space
    BY AlgebraAssumption DEF Space
  <2>2. Append(v, 1) = <<v[1], v[2], v[3], 1>> /\ v[1] \in Int /\ v[2] \in Int /\ v[3] \in Int
    <3>1. v[1] \in Int /\ v[2] \in Int /\ v[3] \in Int
      BY <2>1 DEF Space
    <3> QED
      BY <2>1, <3>1, PointIs, Zenon
  <2>3. p \in Vec
    <3>1. <<v[1], v[2], v[3], 1>> \in Vec
      BY <2>2 DEF Vec
    <3> QED
      BY <2>2, <3>1, Zenon DEF Point
  <2> HIDE DEF p
  <2>4. Apply(m, p) = <<Dot(m[1], p), Dot(m[2], p), Dot(m[3], p), Dot(m[4], p)>>
    BY <2>3, ApplyIs
  <2>5. <<Dot(m[1], p), Dot(m[2], p), Dot(m[3], p), Dot(m[4], p)>> = [i \in 1..4 |-> Dot(m[i], p)]
    OBVIOUS
  <2> QED
    BY <2>4, <2>5, Zenon DEF p
<1>3. LET d == Determinant(m) IN Product(m, InverseTimesDet(m)) = Diag(d, d, d, d)
  BY InverseRight
<1> QED
  BY <1>1, <1>2, <1>3, Zenon DEF ProductsRight

\* Products with the matrices of translations, scalings and rotations are matrices.
LEMMA FactorsAreMatrices ==
  /\ Eye \in Mat
  /\ \A v \in Probe : Translation(v) \in Mat /\ Scaling(v) \in Mat
  /\ \A q \in Turn : Rotation(q) \in Mat
<1>1. Eye \in Mat
  BY DEF Eye, Diag, Mat, Vec
<1>2. ASSUME NEW v \in Probe
      PROVE  Translation(v) \in Mat /\ Scaling(v) \in Mat
  <2>1. v[1] \in Int /\ v[2] \in Int /\ v[3] \in Int
    BY AlgebraAssumption
  <2> QED
    BY <2>1 DEF Translation, Scaling, Diag, Mat, Vec
<1>3. ASSUME NEW q \in Turn
      PROVE  Rotation(q) \in Mat
  <2>1. q \in Vec
    BY AlgebraAssumption DEF Vec
  <2> QED
    BY <2>1, RotationIs
<1> QED
  BY <1>1, <1>2, <1>3, Zenon

\* A program never has anything but matrices of numbers.
LEMMA MatricesStay ==
  ASSUME matrices \subseteq Mat, [AlgebraNext]_matrices
  PROVE  matrices' \subseteq Mat
<1>1. ASSUME NEW k \in Mat, Compute(k)
      PROVE  matrices' \subseteq Mat
  BY <1>1 DEF Compute
<1>2. CASE Compute(Eye)
  BY <1>1, <1>2, FactorsAreMatrices
<1>3. ASSUME NEW m \in matrices, Compute(Transpose(m))
      PROVE  matrices' \subseteq Mat
  <2>1. m \in Mat /\ 1 \in 1..4
    OBVIOUS
  <2>2. Transpose(m) \in Mat
    BY <2>1, ColumnIs, Zenon
  <2> QED
    BY <1>1, <1>3, <2>2, Zenon
<1>4. ASSUME NEW m \in matrices, Compute(InverseTimesDet(m))
      PROVE  matrices' \subseteq Mat
  <2>1. InverseTimesDet(m) \in Mat
    BY InverseRight
  <2> QED
    BY <1>1, <1>4, <2>1, Zenon
<1>5. ASSUME NEW m \in matrices, NEW n \in Mat, Compute(Times(m, n))
      PROVE  matrices' \subseteq Mat
  <2>1. Times(m, n) \in Mat
    BY TimesIs
  <2> QED
    BY <1>1, <1>5, <2>1, Zenon
<1>6. CASE UNCHANGED matrices
  BY <1>6
<1> QED
  BY <1>2, <1>3, <1>4, <1>5, <1>6, FactorsAreMatrices, Zenon DEF AlgebraNext

\* Products, inverses and rotations are those of the text books, whatever the integers
\* in them, but that inverse transforms move by the opposite of what they should
\* (mat4_simd.h, quat.h).
THEOREM AlgebraIsRight == AlgebraSpec => []AlgebraRight
<1>1. AlgebraInit => matrices \subseteq Mat
  BY DEF AlgebraInit
<1>2. matrices \subseteq Mat /\ [AlgebraNext]_matrices => (matrices \subseteq Mat)'
  BY MatricesStay
<1>3. matrices \subseteq Mat => AlgebraRight
  BY RotationsAreRight, ProductsAreRight, OppositeIs DEF AlgebraRight
<1> QED
  BY <1>1, <1>2, <1>3, PTL DEF AlgebraSpec
=============================================================================
