---------------------------- MODULE LookupService ---------------------------
(***************************************************************************)
(* What LocalNode::lookup promises its caller: each call returns a promise *)
(* that is set once, to a node that may own the key or to the invalid peer *)
(* that stands for "not found", and no call waits for ever.                *)
(***************************************************************************)
CONSTANTS
  Asker,    \* the callers
  Key,      \* the keys they look up
  Right,    \* for each key, the nodes a promise may be set to
  Nobody,   \* the invalid peer
  NoKey     \* the key of a promise nobody asked for yet

VARIABLE answer   \* the promise of each caller's last lookup

Init == answer = [a \in Asker |-> [state |-> "idle", key |-> NoKey, peer |-> Nobody]]

\* A call: the promise is set at once or pending.
Ask(a, key) ==
  /\ answer[a].state # "pending"
  /\ \/ answer' = [answer EXCEPT ![a] =
                     [state |-> "pending", key |-> key, peer |-> Nobody]]
     \/ \E p \in Right[key] :
          answer' = [answer EXCEPT ![a] = [state |-> "set", key |-> key, peer |-> p]]

\* The answer to a pending call, found or not.
Resolve(a) ==
  /\ answer[a].state = "pending"
  /\ \E p \in Right[answer[a].key] \cup {Nobody} :
       answer' = [answer EXCEPT ![a].state = "set", ![a].peer = p]

Next == \E a \in Asker : Resolve(a) \/ \E key \in Key : Ask(a, key)

Safety == Init /\ [][Next]_answer

Spec == Safety /\ \A a \in Asker : WF_answer(Resolve(a))
=============================================================================
