---------------------------- MODULE GrowingArray ----------------------------
(***************************************************************************)
(* Array (containers/array.h): a buffer that is doubled when it is full.   *)
(* Several arrays, which are copied and moved into each other.             *)
(*                                                                         *)
(* Callers remove only what is there, insert at positions in the array or  *)
(* at its end, and do not resize to nothing: from 0 the size would be      *)
(* doubled for ever.                                                       *)
(***************************************************************************)
EXTENDS Integers, Sequences

CONSTANTS
  Arrays,
  Value,
  Raw,        \* what is in memory nobody wrote to, or that is not counted any more
  MaxSize     \* bound: the size of a buffer

ASSUME ArrayAssumption == MaxSize \in Nat

VARIABLES
  cells,      \* the buffer of each array, indexed from 0; moved away, it has no index
  size,
  count,
  astray      \* the index and array of a write outside the buffer, after which
              \* nothing is defined: the model stops

arrayVars == <<cells, size, count, astray>>

Buffer(n) == [i \in 0..n - 1 |-> Raw]

ArrayInit ==
  /\ cells = [a \in Arrays |-> Buffer(2)]
  /\ size = [a \in Arrays |-> 2]
  /\ count = [a \in Arrays |-> 0]
  /\ astray = <<>>

\* Array a has a buffer: it was not moved away.
Held(a) == DOMAIN cells[a] # {}

Elements(a) == [i \in 1..count[a] |-> IF i - 1 \in DOMAIN cells[a] THEN cells[a][i - 1] ELSE Raw]

\* Faulty variant: a new buffer, into which nothing is copied.
ReallocFresh(buffer, n) == Buffer(n)

\* realloc.
Realloc(buffer, n) ==
  [i \in 0..n - 1 |-> IF i \in DOMAIN buffer THEN buffer[i] ELSE Raw]

\* resize: the buffer of array a, made n long.
Room(a, n) == IF n = size[a] THEN cells[a] ELSE Realloc(cells[a], n)

\* resizeIfNecessary: the size it leaves.
Doubled(n, needed) ==
  LET from[m \in n..n + 2 * needed] == IF needed <= m THEN m ELSE from[2 * m]
  IN  from[n]

\* The array gets a size, a count, and the values xs from index i on, after those
\* from there up to the old count have made room.
Write(a, newSize, newCount, i, xs) ==
  LET room == Room(a, newSize)
      n == Len(xs)
      moved(j) == IF j \in i..i + n - 1 THEN xs[j - i + 1]
                  ELSE IF j \in i + n..count[a] + n - 1 THEN room[j - n] ELSE room[j]
      outside == {j \in i..i + n - 1 : j \notin DOMAIN room}
  IN  /\ astray = <<>>
      /\ newSize <= MaxSize
      /\ size' = [size EXCEPT ![a] = newSize]
      /\ count' = [count EXCEPT ![a] = newCount]
      /\ IF outside # {}
         THEN /\ astray' = <<a, CHOOSE j \in outside : \A k \in outside : j <= k>>
              /\ cells' = [cells EXCEPT ![a] = room]
         ELSE /\ cells' = [cells EXCEPT ![a] = [j \in DOMAIN room |-> moved(j)]]
              /\ UNCHANGED astray

----------------------------------------------------------------------------
\* Bound: no value is twice in an array.
New(a, x) == \A i \in 1..count[a] : Elements(a)[i] # x

\* add and insert, of one item or several.
InsertItems(a, i, xs) ==
  LET n == count[a] + Len(xs)
  IN  /\ i <= count[a]
      /\ \A k \in DOMAIN xs : New(a, xs[k])
      /\ Write(a, Doubled(size[a], n), n, i, xs)

\* operator()(i), assigned to: made to extend the array, it makes room for i items
\* and counts i items, and item i is the one after those.
AtOrExtend(a, i, x) ==
  LET n == Doubled(size[a], i)
      room == Room(a, n)
  IN  /\ astray = <<>>
      /\ New(a, x)
      /\ n <= MaxSize
      /\ size' = [size EXCEPT ![a] = n]
      /\ count' = [count EXCEPT ![a] = IF i > @ THEN i ELSE @]
      /\ cells' = [cells EXCEPT ![a] = [j \in DOMAIN room |-> IF j = i /\ i < count[a] THEN x ELSE room[j]]]
      /\ astray' = IF i \in DOMAIN room THEN <<>> ELSE <<a, i>>

\* removeAt. What it moves ends n items after the last one, if need be after the
\* end of the buffer: those are not counted any more.
RemoveItems(a, i, n) ==
  /\ astray = <<>>
  /\ Held(a)
  /\ i + n <= count[a]
  /\ cells' = [cells EXCEPT ![a] =
       [j \in DOMAIN @ |-> IF j \notin i..count[a] - 1 THEN @[j]
                           ELSE IF j + n < count[a] THEN @[j + n] ELSE Raw]]
  /\ count' = [count EXCEPT ![a] = @ - n]
  /\ UNCHANGED <<size, astray>>

\* resize and, with the items counted before there is room for them, emplace.
Resize(a, n, counted) ==
  /\ astray = <<>>
  /\ n \in 1..MaxSize
  /\ cells' = [cells EXCEPT ![a] = Room(a, n)]
  /\ size' = [size EXCEPT ![a] = n]
  /\ count' = [count EXCEPT ![a] = IF counted < n THEN counted ELSE n]
  /\ UNCHANGED astray

\* Copy assignment: a buffer that is large enough stays.
CopyAssign(a, b) ==
  LET n == IF ~Held(a) \/ count[b] > size[a] THEN size[b] ELSE size[a]
  IN  /\ astray = <<>>
      /\ Held(b)
      /\ cells' = [cells EXCEPT ![a] =
           [j \in 0..n - 1 |-> IF j < count[b] THEN cells[b][j] ELSE Raw]]
      /\ size' = [size EXCEPT ![a] = n]
      /\ count' = [count EXCEPT ![a] = count[b]]
      /\ UNCHANGED astray

\* Move assignment, and move construction in place of a: b has no buffer any
\* more, but its size and count.
MoveAssign(a, b) ==
  /\ astray = <<>>
  /\ a # b
  /\ cells' = [cells EXCEPT ![a] = cells[b], ![b] = Buffer(0)]
  /\ size' = [size EXCEPT ![a] = size[b]]
  /\ count' = [count EXCEPT ![a] = count[b]]
  /\ UNCHANGED astray

\* Array a is made anew from n items of b, from i on: a copy or a slice.
Construct(a, b, i, n, newSize) ==
  /\ astray = <<>>
  /\ Held(b)
  /\ i + n <= count[b]
  /\ cells' = [cells EXCEPT ![a] =
       [j \in 0..newSize - 1 |-> IF j < n THEN cells[b][i + j] ELSE Raw]]
  /\ size' = [size EXCEPT ![a] = newSize]
  /\ count' = [count EXCEPT ![a] = n]
  /\ UNCHANGED astray

Slice(a, b, i, n) == Construct(a, b, i, n, IF n = 0 THEN 2 ELSE n)

Copy(a, b) == Construct(a, b, 0, count[b], size[b])

Some == {<<x>> : x \in Value} \cup {p \in Value \X Value : p[1] # p[2]}

ArrayNext ==
  \E a \in Arrays :
    \/ \E i \in 0..MaxSize, xs \in Some : InsertItems(a, i, xs)
    \/ \E i \in 0..MaxSize, x \in Value : AtOrExtend(a, i, x)
    \/ \E i \in 0..MaxSize, n \in 1..MaxSize : RemoveItems(a, i, n)
    \/ \E n \in 1..MaxSize : Resize(a, n, count[a]) \/ Resize(a, n, n)
    \/ \E b \in Arrays :
         \/ CopyAssign(a, b) \/ MoveAssign(a, b) \/ Copy(a, b)
         \/ \E i, n \in 0..MaxSize : Slice(a, b, i, n)

ArraySpec == ArrayInit /\ [][ArrayNext]_arrayVars

----------------------------------------------------------------------------
\* size is the size of the buffer, or of the one moved away, and no more items are
\* counted than fit.
Fitting ==
  \A a \in Arrays : /\ Held(a) => DOMAIN cells[a] = 0..size[a] - 1
                    /\ count[a] <= size[a]

\* Nothing is ever written outside a buffer, but into the place right after it, by
\* operator()(size), and into an array that was moved away.
StrayByOne ==
  astray # <<>> => ~Held(astray[1]) \/ astray[2] = size[astray[1]]

\* Growing, shrinking, copying and moving an array keeps its items and their order:
\* it gets or loses items at one place, has one replaced, or becomes a part of
\* another one; all other arrays, except one moved away, are left alone.
Inserted(b, c) ==
  \E i \in 0..Len(b) :
    /\ Len(c) >= Len(b)
    /\ SubSeq(c, 1, i) = SubSeq(b, 1, i)
    /\ SubSeq(c, i + 1 + Len(c) - Len(b), Len(c)) = SubSeq(b, i + 1, Len(b))

ArrayStep ==
  LET before == [a \in Arrays |-> Elements(a)]
      after == [a \in Arrays |-> Elements(a)']
  IN  astray' = <<>> =>
        \E a \in Arrays :
          /\ \A b \in Arrays \ {a} : after[b] = before[b] \/ cells'[b] = Buffer(0)
          /\ \/ after[a] \in {before[b] : b \in Arrays}
             \/ Inserted(before[a], after[a]) \/ Inserted(after[a], before[a])
             \/ \E i \in DOMAIN before[a] \cap DOMAIN after[a] :
                  after[a] = [before[a] EXCEPT ![i] = after[a][i]]
             \/ \E b \in Arrays : \E i \in 0..count[b] - count'[a] :
                  after[a] = SubSeq(before[b], i + 1, i + count'[a])

\* No call of an array does anything else (array.h).
ArraySteps == [][~ArrayStep => ~ArrayNext]_arrayVars
=============================================================================
