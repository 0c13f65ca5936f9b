------------------------------- MODULE Future ------------------------------
(***************************************************************************)
(* FutureState and the promises that share it (async/future.h), step by    *)
(* step between the accesses to shared memory: threads that set, read and  *)
(* subscribe to one result, which nobody resets.  The critical sections of *)
(* its mutex are single steps.  Its event is an instance of Event.         *)
(*                                                                         *)
(* Setters take turns under a lock of their own, as the two callbacks of   *)
(* LocalNode::lookup do under callbacksGuard: setResult has none.          *)
(***************************************************************************)
CONSTANTS
  Setter,    \* threads that set the result, each to a value that names it
  Getter,    \* threads that wait for the result
  Listener,  \* threads that register a callback
  Nothing

ASSUME ThreadAssumption ==
  /\ Setter \cap (Getter \cup Listener) = {}
  /\ Getter \cap Listener = {}
  /\ Nothing \notin Setter \cup Listener

VARIABLES
  guard,         \* the setter that holds callbacksGuard
  result,
  bComplete,
  callback,      \* the listener whose function is registered
  ran,           \* listeners whose function has run
  got,           \* what each getter has read
  pc,            \* where each thread is
  triggerState, waiting, signalled, life   \* the completion event

event == INSTANCE Event WITH Thread <- Getter, Timed <- {}

eventVars == <<triggerState, waiting, signalled, life>>

vars == <<guard, result, bComplete, callback, ran, got, pc, eventVars>>

Goes(t, from, to) ==
  /\ pc[t] = from
  /\ pc' = [pc EXCEPT ![t] = to]

----------------------------------------------------------------------------
(***************************************************************************)
(* FutureState::setResult.                                                 *)
(***************************************************************************)

\* Faulty variant: the caller takes no lock.
BeginUnlocked(s) ==
  /\ Goes(s, "start", "test")
  /\ UNCHANGED <<guard, result, bComplete, callback, ran, got, eventVars>>

Begin(s) ==
  /\ Goes(s, "start", "test")
  /\ guard = Nothing
  /\ guard' = s
  /\ UNCHANGED <<result, bComplete, callback, ran, got, eventVars>>

\* Faulty variant: a result that is there is overwritten.
TestNothing(s) ==
  /\ Goes(s, "test", "store")
  /\ UNCHANGED <<guard, result, bComplete, callback, ran, got, eventVars>>

TestComplete(s) ==
  /\ Goes(s, "test", IF bComplete THEN "end" ELSE "store")
  /\ UNCHANGED <<guard, result, bComplete, callback, ran, got, eventVars>>

Store(s) ==
  /\ Goes(s, "store", "complete")
  /\ result' = s
  /\ UNCHANGED <<guard, bComplete, callback, ran, got, eventVars>>

Complete(s) ==
  /\ Goes(s, "complete", "trigger")
  /\ bComplete' = TRUE
  /\ UNCHANGED <<guard, result, callback, ran, got, eventVars>>

Trigger(s) ==
  /\ Goes(s, "trigger", "callback")
  /\ event!TriggerAll
  /\ UNCHANGED <<guard, result, bComplete, callback, ran, got>>

RunCallback(s) ==
  /\ Goes(s, "callback", "end")
  /\ ran' = ran \cup ({callback} \ {Nothing})
  /\ UNCHANGED <<guard, result, bComplete, callback, got, eventVars>>

End(s) ==
  /\ Goes(s, "end", "done")
  /\ guard' = Nothing
  /\ UNCHANGED <<result, bComplete, callback, ran, got, eventVars>>

Set(s) ==
  \/ Begin(s) \/ TestComplete(s) \/ Store(s) \/ Complete(s)
  \/ Trigger(s) \/ RunCallback(s) \/ End(s)

----------------------------------------------------------------------------
(***************************************************************************)
(* FutureState::getResult: a loop round the wait for the event.            *)
(***************************************************************************)

TestReady(g) ==
  /\ Goes(g, "start", IF bComplete THEN "read" ELSE "wait")
  /\ g \notin waiting
  /\ UNCHANGED <<guard, result, bComplete, callback, ran, got, eventVars>>

WaitReady(g) ==
  /\ Goes(g, "wait", "start")
  /\ event!Wait(g)
  /\ UNCHANGED <<guard, result, bComplete, callback, ran, got>>

WakeUp(g) ==
  /\ event!Wake(g) \/ event!Spurious(g)
  /\ UNCHANGED <<guard, result, bComplete, callback, ran, got, pc>>

ReadResult(g) ==
  /\ Goes(g, "read", "done")
  /\ got' = [got EXCEPT ![g] = result]
  /\ UNCHANGED <<guard, result, bComplete, callback, ran, eventVars>>

Get(g) == TestReady(g) \/ WaitReady(g) \/ ReadResult(g)

----------------------------------------------------------------------------
(***************************************************************************)
(* GenericFutureState::setCallback.                                        *)
(***************************************************************************)

TestCompleted(l) ==
  /\ Goes(l, "start", IF bComplete THEN "late" ELSE "register")
  /\ UNCHANGED <<guard, result, bComplete, callback, ran, got, eventVars>>

\* Faulty variant: the second test is missing.
RegisterUntested(l) ==
  /\ Goes(l, "register", "done")
  /\ callback' = l
  /\ UNCHANGED <<guard, result, bComplete, ran, got, eventVars>>

\* Under the mutex, after a second test.
Register(l) ==
  /\ Goes(l, "register", "done")
  /\ callback' = IF bComplete THEN callback ELSE l
  /\ UNCHANGED <<guard, result, bComplete, ran, got, eventVars>>

\* The new function is run if the registered one is not empty.
RunLate(l) ==
  /\ Goes(l, "late", "done")
  /\ ran' = IF callback # Nothing THEN ran \cup {l} ELSE ran
  /\ UNCHANGED <<guard, result, bComplete, callback, got, eventVars>>

Subscribe(l) == TestCompleted(l) \/ Register(l) \/ RunLate(l)

----------------------------------------------------------------------------
Init ==
  /\ guard = Nothing
  /\ result = Nothing
  /\ bComplete = FALSE
  /\ callback = Nothing
  /\ ran = {}
  /\ got = [g \in Getter |-> Nothing]
  /\ pc = [t \in Setter \cup Getter \cup Listener |-> "start"]
  /\ event!EventInit

Next ==
  \/ \E s \in Setter : Set(s)
  \/ \E g \in Getter : Get(g) \/ WakeUp(g)
  \/ \E l \in Listener : Subscribe(l)

Spec == Init /\ [][Next]_vars

\* Threads that are inside a call go on, the lock is handed over, a thread that
\* was woken up runs.
Fairness ==
  /\ \A s \in Setter : WF_vars(Set(s))
  /\ \A g \in Getter :
       WF_vars(Get(g)) /\ WF_vars(g \in signalled /\ WakeUp(g))
  /\ \A l \in Listener : WF_vars(Subscribe(l))

FairSpec == Spec /\ Fairness

----------------------------------------------------------------------------
SetterAt == {"start", "test", "store", "complete", "trigger", "callback", "end", "done"}

TypeOK ==
  /\ guard \in Setter \cup {Nothing}
  /\ result \in Setter \cup {Nothing}
  /\ bComplete \in BOOLEAN
  /\ callback \in Listener \cup {Nothing}
  /\ ran \subseteq Listener
  /\ got \in [Getter -> Setter \cup {Nothing}]
  /\ DOMAIN pc = Setter \cup Getter \cup Listener
  /\ \A s \in Setter : pc[s] \in SetterAt
  /\ \A g \in Getter : pc[g] \in {"start", "wait", "read", "done"}
  /\ \A l \in Listener : pc[l] \in {"start", "register", "late", "done"}
  /\ event!EventTypeOK

\* Nobody sleeps on a result that is there: once the setter has triggered the
\* event every getter that waits has been woken up (getResult tests for
\* completion before it waits, without a lock).
NobodySleeps ==
  bComplete /\ (\A s \in Setter : pc[s] # "trigger") => waiting = signalled

\* The function registered when the result comes is run (complete reads it
\* without the lock setCallback writes it under).
RegisteredRun ==
  \A l \in Listener : callback = l ~> l \in ran \/ callback # l

\* The inductive invariant: who holds the lock, what a result that is there
\* implies, and that the event follows the flag.
Holds(s) == pc[s] \notin {"start", "done"}

Inv ==
  /\ TypeOK
  /\ \A s \in Setter :
       /\ Holds(s) => guard = s
       /\ pc[s] \in {"store", "complete"} => ~bComplete
       /\ pc[s] = "complete" => result = s
  /\ bComplete => result \in Setter
  /\ \A g \in Getter :
       /\ pc[g] \in {"read", "done"} => bComplete
       /\ got[g] = IF pc[g] = "done" THEN result ELSE Nothing
  /\ bComplete /\ (\A s \in Setter : pc[s] # "trigger") => triggerState = "ALL"
  /\ triggerState = "ALL" => waiting = signalled
  /\ triggerState # "ONE"

\* The promise is a value written once, read by everyone who waits for it:
\* setters that come late do not change it, and get returns what was set.
promise == INSTANCE WriteOnce WITH
  Writer <- Setter, Reader <- Getter,
  value <- IF bComplete THEN result ELSE Nothing

SetOnce == promise!Spec
============================================================================
