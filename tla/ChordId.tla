------------------------------ MODULE ChordId ------------------------------
(***************************************************************************)
(* The identifier circle of the Chord library: unsigned integers of Bits   *)
(* bits (32 in the code), the circular ranges every routing decision is    *)
(* made with (local_node.h) and the choice of the closest preceding finger *)
(* (LocalNode::findSuccessor).  Pure operators, no state.                  *)
(***************************************************************************)
EXTENDS Integers

CONSTANT Bits   \* width of an identifier: 32 in the code

\* The powers of two are stated to be positive numbers because the provers know
\* no exponentiation; TLC evaluates it.
ASSUME WidthAssumption ==
  Bits \in Nat \ {0, 1} /\ \A i \in 0 .. Bits : 2^i \in Nat \ {0}

\* How they grow, for the same reason.
ASSUME PowerAssumption ==
  2^0 = 1 /\ \A i \in 0 .. (Bits - 1) : 2^(i + 1) = 2 * 2^i

Id == 0 .. (2^Bits - 1)

\* The slots of the finger table; slot 0 is the successor (the union in
\* local_node.h overlays them).
Finger == 0 .. (Bits - 1)

\* Unsigned arithmetic of width Bits.
Plus(a, b)  == (a + b) % 2^Bits
Minus(a, b) == (a - b) % 2^Bits

\* n lies strictly between a and b, walking up from a.  When a = b the code
\* answers FALSE: no range covers the whole circle.
RangeOpen(n, a, b) ==
  \/ a < b /\ n > a /\ n < b
  \/ a > b /\ (n > a \/ n < b)

\* Faulty variant: the lower end belongs to the range.
RangeClosed(n, a, b) ==
  \/ a < b /\ n >= a /\ n <= b
  \/ a > b /\ (n >= a \/ n <= b)

RangeOpenClosed(n, a, b) ==
  \/ a < b /\ n > a /\ n <= b
  \/ a > b /\ (n > a \/ n <= b)

\* Index of the most significant bit of n, 0 for n = 0.
P2Index(n) ==
  IF n = 0 THEN 0 ELSE CHOOSE i \in Finger : 2^i <= n /\ n < 2^(i + 1)

\* Faulty variants: the key itself counts as preceding, the ends of the range
\* are swapped, only the lowest slot is looked at.
FingersUpToKey(table, id, key) ==
  {i \in Finger \ {0} : i <= P2Index(Minus(key, id)) /\ RangeOpenClosed(table[i], id, key)}

FollowingFingers(table, id, key) ==
  {i \in Finger \ {0} : i <= P2Index(Minus(key, id)) /\ RangeOpen(table[i], key, id)}

LowestFinger(table, id, key) ==
  {i \in {1} : RangeOpen(table[i], id, key)}

\* The slots scanned by findSuccessor that hold a node strictly between the
\* node itself and the key.
PrecedingFingers(table, id, key) ==
  {i \in Finger \ {0} : i <= P2Index(Minus(key, id)) /\ RangeOpen(table[i], id, key)}

\* The node a request for key is passed on to: the highest such slot, or the
\* successor when there is none.
FindSuccessor(table, id, key) ==
  LET C == PrecedingFingers(table, id, key)
  IN  IF C = {} THEN table[0]
      ELSE table[CHOOSE i \in C : \A j \in C : j <= i]

----------------------------------------------------------------------------
(***************************************************************************)
(* What the operators above are measured against.                          *)
(***************************************************************************)

\* Steps from a up to b round the circle; a full turn when they are equal.
Dist(a, b) == IF a < b THEN b - a ELSE 2^Bits - (a - b)

\* The first member of M met when walking up from a (a itself comes last).
NextAfter(a, M) == CHOOSE m \in M : \A k \in M : Dist(a, m) <= Dist(a, k)

\* The first member met when walking down from a (a itself comes last).
NextBefore(a, M) == CHOOSE m \in M : \A k \in M : Dist(m, a) <= Dist(k, a)

\* succ(key), the member that owns key: the first one at key or after it.
Owner(key, M) ==
  IF key \in M THEN key ELSE NextAfter(key, M)
============================================================================
