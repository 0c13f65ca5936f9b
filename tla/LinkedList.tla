----------------------------- MODULE LinkedList -----------------------------
(***************************************************************************)
(* LinkedList and its links (containers/linked_list.h), one action per     *)
(* call.  A link is named by the element it holds; no element is twice in  *)
(* a list.                                                                 *)
(*                                                                         *)
(* There are calls after which head or tail points to a link that is gone, *)
(* or no longer to the end of the chain: they set sound to FALSE, and what *)
(* the list does from then on is undefined.  The model stops there.        *)
(***************************************************************************)
EXTENDS Integers, Sequences, FiniteSets

CONSTANTS
  Item,
  NoLink,      \* the null pointer
  MaxCount     \* bound: insertions

ASSUME ListAssumption == NoLink \notin Item /\ MaxCount \in Nat

VARIABLES
  links,    \* the links in memory
  head,
  tail,
  numLinks,
  oneWay,   \* the list is a copy, which has no links backwards
  given,    \* the element the last call has handed out
  sound

listVars == <<links, head, tail, numLinks, oneWay, given, sound>>

ListInit ==
  /\ links = [e \in {} |-> 0]
  /\ head = NoLink
  /\ tail = NoLink
  /\ numLinks = 0
  /\ oneWay = FALSE
  /\ given = NoLink
  /\ sound = TRUE

Alive == {NoLink} \cup DOMAIN links

\* createLink.
CreateLink(m, e, next, prev) ==
  [f \in DOMAIN m \cup {e} |-> IF f = e THEN [next |-> next, prev |-> prev] ELSE m[f]]

SetNext(m, l, to) == IF l = NoLink THEN m ELSE [m EXCEPT ![l].next = to]
SetPrev(m, l, to) == IF l = NoLink THEN m ELSE [m EXCEPT ![l].prev = to]

\* ~Link, which unlinks, and free.
Release(m, l) ==
  LET u == SetNext(SetPrev(m, m[l].next, m[l].prev), m[l].prev, m[l].next)
  IN  [f \in DOMAIN m \ {l} |-> u[f]]

\* Faulty variants: the link before does not learn of l; next is passed over.
LinkNextOneWay(m, l, next) ==
  [m EXCEPT ![l] = [next |-> next, prev |-> m[next].prev], ![next].prev = l]

LinkNextSkip(m, l, next) ==
  LET prev == m[next].prev
  IN  SetNext([m EXCEPT ![l] = [next |-> m[next].next, prev |-> prev], ![next].prev = l], prev, l)

\* Link::linkNext(next) for the fresh link l.
LinkNext(m, l, next) ==
  LET prev == m[next].prev
  IN  SetNext([m EXCEPT ![l] = [next |-> next, prev |-> prev], ![next].prev = l], prev, l)

\* At most k steps from l along the links w.
Chain(m, l, w, k) ==
  LET at[i \in 0..k] ==
        IF i = 0 THEN l
        ELSE LET it == at[i - 1] IN IF it \in DOMAIN m THEN m[it][w] ELSE NoLink
  IN  IF l = NoLink THEN <<>>
      ELSE [i \in 1..Cardinality({i \in 0..k - 1 : at[i] \in DOMAIN m}) |-> at[i - 1]]

Forward == Chain(links, head, "next", MaxCount + 1)
Backward == Chain(links, tail, "prev", MaxCount + 1)

\* The way to position i, from the nearer end by what numLinks says.
Way(i) ==
  IF i < numLinks \div 2 THEN Chain(links, head, "next", i + 1)
  ELSE Chain(links, tail, "prev", numLinks - i)

Reached(i) == Len(Way(i)) = IF i < numLinks \div 2 THEN i + 1 ELSE numLinks - i

Seek(i) == Way(i)[Len(Way(i))]

----------------------------------------------------------------------------
NewLink(e) ==
  /\ sound
  /\ numLinks < MaxCount
  /\ e \notin DOMAIN links
  /\ numLinks' = numLinks + 1
  /\ given' = NoLink
  /\ UNCHANGED oneWay

\* operator+= and push.
PushBack(e) ==
  /\ NewLink(e)
  /\ links' = SetNext(CreateLink(links, e, NoLink, tail), tail, e)
  /\ tail' = e
  /\ head' = IF tail = NoLink THEN e ELSE head
  /\ UNCHANGED sound

PushFront(e) ==
  /\ NewLink(e)
  /\ links' = SetPrev(CreateLink(links, e, head, NoLink), head, e)
  /\ head' = e
  /\ tail' = IF head = NoLink THEN e ELSE tail
  /\ UNCHANGED sound

\* insert at a position the walk reaches: it follows a null pointer in an empty
\* list, and may do so when numLinks is too large after a pop. An element inserted
\* before a link that has none before it, head above all, is out of head's reach.
InsertBefore(e, i) ==
  /\ NewLink(e)
  /\ i < numLinks
  /\ Reached(i)
  /\ links' = LinkNext(CreateLink(links, e, NoLink, NoLink), e, Seek(i))
  /\ sound' = (links[Seek(i)].prev # NoLink)
  /\ UNCHANGED <<head, tail>>

\* head is left alone, and so is numLinks. A copy has no way back to the link
\* before its last.
RemoveLast ==
  /\ sound
  /\ tail # NoLink
  /\ links' = Release(links, tail)
  /\ tail' = links[tail].prev
  /\ sound' = (tail' # NoLink)
  /\ UNCHANGED <<head, numLinks, oneWay>>

\* pop().
Pop == RemoveLast /\ given' = NoLink

\* pop(data): what it hands out is the element at the head.
PopTo == RemoveLast /\ given' = head

\* popFront() and popFront(data): tail is left alone, and so is numLinks.
PopFront ==
  /\ sound
  /\ head # NoLink
  /\ links' = Release(links, head)
  /\ head' = links[head].next
  /\ given' \in {NoLink, head}
  /\ sound' = (head' # NoLink)
  /\ UNCHANGED <<tail, numLinks, oneWay>>

\* empty, also as part of the destructor.
EmptyList ==
  /\ sound
  /\ links' = [e \in DOMAIN links \ {Forward[i] : i \in DOMAIN Forward} |-> links[e]]
  /\ head' = NoLink
  /\ tail' = NoLink
  /\ oneWay' = FALSE
  /\ given' = NoLink
  /\ UNCHANGED <<numLinks, sound>>

\* The list is replaced by its copy, made by the copy constructor or assignment,
\* and destroyed: links are only set forwards.
CopyOver ==
  /\ sound
  /\ links' = [e \in DOMAIN links |-> [links[e] EXCEPT !.prev = NoLink]]
  /\ oneWay' = (Len(Forward) > 1)
  /\ given' = NoLink
  /\ UNCHANGED <<head, tail, numLinks, sound>>

ListNext ==
  \/ \E e \in Item : PushBack(e) \/ PushFront(e)
  \/ \E e \in Item, i \in 0..MaxCount : InsertBefore(e, i)
  \/ Pop \/ PopTo \/ PopFront \/ EmptyList \/ CopyOver

ListSpec == ListInit /\ [][ListNext]_listVars

----------------------------------------------------------------------------
\* As long as no call broke it, the list holds exactly the links in memory, ends
\* at its tail and can be read backwards, if it is not a copy.
WellLinked ==
  sound =>
    LET n == Len(Forward)
    IN  /\ {Forward[i] : i \in 1..n} = DOMAIN links
        /\ IF n = 0 THEN head = NoLink /\ tail = NoLink
           ELSE tail = Forward[n] /\ links[tail].next = NoLink
        /\ ~oneWay => Backward = [i \in 1..n |-> Forward[n + 1 - i]]

\* operator[] gives the i-th element as long as nothing was popped.
IndexExact ==
  sound /\ ~oneWay /\ numLinks = Len(Forward) =>
    \A i \in 0..numLinks - 1 : Seek(i) = Forward[i + 1]

\* A list is only given up when it is broken: an end dangles, or tail is not the
\* end of the chain that begins with head.
BrokenIndeed ==
  ~sound =>
    \/ head \notin Alive \/ tail \notin Alive
    \/ {Forward[i] : i \in DOMAIN Forward} # DOMAIN links
    \/ tail = NoLink /\ head # NoLink

\* Until a call breaks it, a list is linked both ways from head to tail and its
\* index operator gives the element at that position (linked_list.h).
ListSound == WellLinked /\ IndexExact /\ BrokenIndeed

\* While it is sound, a list implements Deque in all but what pop(data) hands out:
\* the first element, which stays in the list.
Ends == INSTANCE Deque WITH Element <- Item, Nothing <- NoLink, items <- Forward, out <- given
DequeStep ==
  sound' => \/ Forward' = Forward /\ given' = NoLink
            \/ Ends!Next
            \/ Ends!Shrink /\ given' = Forward[1]

\* All calls do this and no more: each takes away, puts in and hands out the element
\* it is about, but for pop(data), which takes away the last element of the list and
\* hands out the first (linked_list.h:439).
DequeSteps == [][DequeStep]_listVars
=============================================================================
