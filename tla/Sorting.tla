------------------------------ MODULE Sorting -------------------------------
(***************************************************************************)
(* The sorting algorithms of containers/sorting.h, as functions of a       *)
(* sequence: ranges are sorted in place, and compared by key alone.  An    *)
(* element is a pair of a key and what tells it from others with that key. *)
(*                                                                         *)
(* Merge sort is named in the code but not there.  Insertion sort is not   *)
(* given an empty range, which it would leave at once.                     *)
(***************************************************************************)
EXTENDS Integers, Sequences

CONSTANTS
  SortKey,
  MaxLength    \* bound: the length of a range

ASSUME SortAssumption == SortKey \subseteq Int /\ MaxLength \in Nat

VARIABLES
  range,       \* the range, as it is now
  original,    \* and as it was
  by           \* what has sorted it

sortVars == <<range, original, by>>

Precedes(x, y) == x[1] < y[1]

Swap(s, i, j) == [s EXCEPT ![i] = s[j], ![j] = s[i]]

\* The position minsort finds from position i on: of several least ones the first.
LeastFrom(s, i) ==
  CHOOSE j \in i..Len(s) : /\ \A k \in i..Len(s) : ~Precedes(s[k], s[j])
                           /\ \A k \in i..j - 1 : Precedes(s[j], s[k])

\* The range after the loop has been at each of its positions.
MinSort(s) ==
  LET after[i \in 0..Len(s)] ==
        IF i = 0 THEN s ELSE Swap(after[i - 1], i, LeastFrom(after[i - 1], i))
  IN  after[Len(s)]

\* The i-th element has changed places with those before it, back to the j-th.
Moved(s, i, j) ==
  [k \in DOMAIN s |-> IF k = j THEN s[i] ELSE IF k \in j + 1..i THEN s[k - 1] ELSE s[k]]

\* Faulty variant: an element sinks below its equals.
SinkFar(s, i) ==
  Moved(s, i, CHOOSE j \in 1..i : /\ j = 1 \/ Precedes(s[j - 1], s[i])
                                  /\ \A k \in j + 1..i : ~Precedes(s[k - 1], s[i]))

\* The i-th element goes back while it precedes the one before it.
Sink(s, i) ==
  Moved(s, i, CHOOSE j \in 1..i : /\ j = 1 \/ ~Precedes(s[i], s[j - 1])
                                  /\ \A k \in j + 1..i : Precedes(s[i], s[k - 1]))

InsertionSort(s) ==
  LET after[i \in 0..Len(s)] == IF i = 0 THEN s ELSE Sink(after[i - 1], i)
  IN  after[Len(s)]

\* One turn of the loop of quicksort, at position i: what precedes the first element
\* is swapped to position p[2], the end of those found so far.
Parted(p, first, i) ==
  IF Precedes(p[1][i], p[1][first]) THEN <<Swap(p[1], i, p[2]), p[2] + 1>> ELSE p

\* All of them, for the range from first up to end, without end.
Partition(s, first, end) ==
  LET after[n \in 0..end - first - 1] ==
        IF n = 0 THEN <<s, first + 1>> ELSE Parted(after[n - 1], first, first + n)
  IN  after[end - first - 1]

\* A call for the range r[2] up to r[3], without r[3], of r[1]; calls[r] is what the
\* calls it makes of itself leave of r. The last of those that precede the pivot, the
\* first element, changes places with it.
Divide(calls, r) ==
  IF r[2] >= r[3] \/ r[2] + 1 = r[3] THEN r[1]
  ELSE LET p == Partition(r[1], r[2], r[3])
           b == p[2]
       IN  calls[<<calls[<<Swap(p[1], r[2], b - 1), r[2], b - 1>>], b, r[3]>>]

Ranges(s) ==
  LET bounds == 1..Len(s) + 1
  IN  [DOMAIN s -> {s[i] : i \in DOMAIN s}] \X bounds \X bounds

\* Each call is for a shorter range: they nest no deeper than the range is long.
QuickSort(s) ==
  LET within[depth \in 0..Len(s)] ==
        IF depth = 0 THEN [r \in Ranges(s) |-> r[1]]
        ELSE [r \in Ranges(s) |-> Divide(within[depth - 1], r)]
  IN  within[Len(s)][<<s, 1, Len(s) + 1>>]

----------------------------------------------------------------------------
SortInit ==
  /\ \E n \in 0..MaxLength, f \in [1..MaxLength -> SortKey] :
       original = [i \in 1..n |-> <<f[i], i>>]
  /\ range = original
  /\ by = "none"

Sorts(name, result) ==
  /\ by = "none"
  /\ by' = name
  /\ range' = result
  /\ UNCHANGED original

SortNext ==
  \/ Sorts("min", MinSort(range))
  \/ Sorts("insertion", InsertionSort(range))
  \/ Sorts("quick", QuickSort(range))

SortSpec == SortInit /\ [][SortNext]_sortVars

----------------------------------------------------------------------------
Permutation(s, t) ==
  /\ Len(s) = Len(t)
  /\ {s[i] : i \in DOMAIN s} = {t[i] : i \in DOMAIN t}

Ordered(s) == \A i, j \in DOMAIN s : i < j => ~Precedes(s[j], s[i])

\* Equals keep the order they came in.
Stable(s) == \A i, j \in DOMAIN s : i < j /\ s[i][1] = s[j][1] => s[i][2] < s[j][2]

\* Each algorithm leaves the elements it was given, in order, however many have the
\* same key; insertion sort keeps the order of those.
SortsRight ==
  by # "none" =>
    /\ Permutation(original, range)
    /\ Ordered(range)
    /\ by = "insertion" => Stable(range)
=============================================================================
