------------------------------- MODULE Digest -------------------------------
(***************************************************************************)
(* Crypto::sha1 (chord/private/crypto/sha1.cpp) as far as the rounds: what *)
(* is done to a string of so many characters before it is cut into blocks. *)
(* Identifiers of nodes and of files are digests.                          *)
(*                                                                         *)
(* A byte is what was put there, with a number for characters of the text. *)
(***************************************************************************)
EXTENDS Integers

CONSTANT MaxText    \* bound: the length of a text

ASSUME DigestAssumption == MaxText \in Nat

VARIABLES
  len,      \* of the text
  data,     \* the copy of the text and what follows it, a function of positions
  stage     \* what has been done: "text", "marked", "resized", "padded", and then
            \* "hashed", or "initial" when the initial value is returned

digestVars == <<len, data, stage>>

Block == 64

Text(i) == <<"text", i>>
One == <<"0x80", 0>>
Nil == <<"0x00", 0>>
Length == <<"length", 0>>
Unwritten == <<"raw", 0>>

AlignUp(n, a) == IF n % a # 0 THEN n - (n % a) + a ELSE n

Align == AlignUp(len + 1, Block)
Padding == Align - len

DigestInit ==
  /\ len \in 0..MaxText
  /\ data = [i \in 0..len - 1 |-> Text(i)]
  /\ stage = "text"

Stage(from, to, bytes) ==
  /\ stage = from
  /\ stage' = to
  /\ data' = bytes
  /\ UNCHANGED len

\* data.add(0x80).
Mark == Stage("text", "marked", [i \in 0..len |-> IF i = len THEN One ELSE data[i]])

\* data.resize(align).
Enlarge ==
  Stage("marked", "resized", [i \in 0..Align - 1 |-> IF i <= len THEN data[i] ELSE Unwritten])

\* Without room for the length in the last block, that is all.
GiveUp == Padding < 8 /\ Stage("resized", "initial", data)

\* Faulty variant: the zeros begin where the text ends.
PadEarly ==
  /\ Padding >= 8
  /\ Stage("resized", "padded",
           [i \in DOMAIN data |-> IF i \in len..len + Padding - 9 THEN Nil ELSE data[i]])

\* The first of the bytes meant for the length is set to zero as well.
Pad ==
  /\ Padding >= 8
  /\ Stage("resized", "padded",
           [i \in DOMAIN data |-> IF i \in len + 1..len + Padding - 8 THEN Nil ELSE data[i]])

\* The length goes to the end, and the blocks are hashed: all bytes count.
Hash ==
  Stage("padded", "hashed", [i \in DOMAIN data |-> IF i >= Align - 8 THEN Length ELSE data[i]])

DigestNext == Mark \/ Enlarge \/ GiveUp \/ Pad \/ Hash

DigestSpec == DigestInit /\ [][DigestNext]_digestVars

----------------------------------------------------------------------------
\* What is hashed is a function of the text: every character of it and its length,
\* and no byte that nobody wrote. Only texts whose length is 57 to 63 above a
\* multiple of 64 are not hashed at all: those have one digest in common.
DigestsWhole ==
  /\ stage = "hashed" =>
       /\ \A i \in DOMAIN data : data[i] # Unwritten
       /\ \A i \in 0..len - 1 : data[i] = Text(i)
       /\ \E i \in DOMAIN data : data[i] = Length
       /\ data[len] = One \/ len % Block = 56
  /\ stage = "initial" => len % Block \in 57..63
=============================================================================
