----------------------------- MODULE CharString -----------------------------
(***************************************************************************)
(* String (containers/string.h): an array of characters, of which the one  *)
(* after the last counted is zero when the string is read as a C string.   *)
(* Several strings.                                                        *)
(*                                                                         *)
(* Nobody makes a string of a null pointer, or appends one to itself.      *)
(***************************************************************************)
EXTENDS GrowingArray, FiniteSets

CONSTANT Zero     \* the character that ends a C string; Value holds the others

\* What nobody wrote is told apart from every character, a zero among them.
ASSUME CharAssumption == Zero \notin Value \cup {Raw}

VARIABLE loose    \* strings in which nothing has put that character

stringVars == <<arrayVars, loose>>

StringInit == ArrayInit /\ loose = Arrays

\* A buffer of n characters with s at its beginning and a zero after that.
Written(n, s) ==
  [i \in 0..n - 1 |-> IF i < Len(s) THEN s[i + 1] ELSE IF i = Len(s) THEN Zero ELSE Raw]

\* What is at s + i, up to the zero, as a function of C finds it.
AsC(a, i) ==
  LET ends == {j \in DOMAIN cells[a] : j >= i /\ cells[a][j] = Zero}
      end == CHOOSE j \in ends : \A k \in ends : j <= k
  IN  [j \in 1..end - i |-> cells[a][i + j - 1]]

Become(a, buffer, n) ==
  /\ astray = <<>>
  /\ Cardinality(DOMAIN buffer) <= MaxSize
  /\ cells' = [cells EXCEPT ![a] = buffer]
  /\ size' = [size EXCEPT ![a] = Cardinality(DOMAIN buffer)]
  /\ count' = [count EXCEPT ![a] = n]
  /\ UNCHANGED astray

\* Faulty variant: the buffer ends with the last character.
MakeTight(a, s) ==
  /\ Become(a, [i \in 0..Len(s) - 1 |-> s[i + 1]], Len(s))
  /\ loose' = loose \ {a}

\* A string made of characters: of a literal, by concat, or by substring.
Make(a, s) ==
  /\ Become(a, Written(Len(s) + 1, s), Len(s))
  /\ loose' = loose \ {a}

\* The default constructor leaves the array as it is, 16 long in the code.
DefaultConstruct(a) ==
  /\ Become(a, Buffer(2), 0)
  /\ loose' = loose \cup {a}

\* createEmpty: nothing but the zero is written.
CreateEmpty(a, n) ==
  /\ Become(a, [Buffer(n + 1) EXCEPT ![n] = Zero], n)
  /\ loose' = loose \ {a}

\* concat, of strings and their counts.
Concat(a, b, c) == Make(a, Elements(b) \o Elements(c))

\* substring(begin, end): for an empty one, everything from begin on is taken, as
\* a C string.
Substring(a, b, i, j) ==
  /\ i <= j /\ j <= count[b]
  /\ i = j => b \notin loose
  /\ Make(a, IF i = j THEN AsC(b, i) ELSE SubSeq(Elements(b), i + 1, j))

\* The copy constructor, which copies what is after the last character as well.
CopyConstruct(a, b) ==
  /\ Become(a, [i \in 0..count[b] |-> IF i \in DOMAIN cells[b] THEN cells[b][i] ELSE Raw], count[b])
  /\ loose' = IF b \in loose THEN loose \cup {a} ELSE loose \ {a}

\* operator= is not declared: the array is assigned to, and no zero is copied.
Assign(a, b) ==
  /\ a # b
  /\ CopyAssign(a, b)
  /\ loose' = loose \cup {a}

\* s goes to the end, with room for so many characters in all.
Extend(a, s, room) ==
  LET n == Doubled(size[a], room)
      buffer == Room(a, n)
      end == count[a] + Len(s)
  IN  /\ astray = <<>>
      /\ n <= MaxSize
      /\ size' = [size EXCEPT ![a] = n]
      /\ count' = [count EXCEPT ![a] = end]
      /\ cells' = [cells EXCEPT ![a] =
           [i \in DOMAIN buffer |-> IF i = end THEN Zero
                                    ELSE IF i \in count[a]..end - 1 THEN s[i - count[a] + 1]
                                    ELSE buffer[i]]]
      /\ astray' = IF end \in DOMAIN buffer THEN <<>> ELSE <<a, end>>
      /\ loose' = loose \ {a}

\* operator+=(ansichar).
AppendChar(a, c) == Extend(a, <<c>>, count[a] + 2)

\* append: there is room for the characters, and not always for the zero.
AppendText(a, s) == Extend(a, s, count[a] + Len(s))

StringNext ==
  \E a, b \in Arrays :
    \/ DefaultConstruct(a) \/ CopyConstruct(a, b) \/ Assign(a, b)
    \/ \E c \in Value : AppendChar(a, c)
    \/ a # b /\ AppendText(a, Elements(b))
    \/ \E n \in 0..MaxSize - 1 : CreateEmpty(a, n)
    \/ \E s \in Some \cup {<<>>} : Make(a, s) \/ AppendText(a, s)
    \/ \E c \in Arrays : Concat(a, b, c)
    \/ \E i, j \in 0..MaxSize : Substring(a, b, i, j)

StringSpec == StringInit /\ [][StringNext]_stringVars

----------------------------------------------------------------------------
\* A string ends where it says, for the functions of C as well: the character after
\* those counted is zero, and no other one, unless the string was only made by
\* default or assigned to since.
StringsEnd ==
  astray = <<>> =>
    \A a \in Arrays \ loose :
      /\ count[a] \in DOMAIN cells[a]
      /\ AsC(a, 0) = Elements(a)

\* An array is written within its buffer or right after it, and a string that was
\* not assigned to ends where it says, for the functions of C too (string.h).
BuffersSound == Fitting /\ StrayByOne /\ StringsEnd
=============================================================================
