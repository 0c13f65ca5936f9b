------------------------------- MODULE Event -------------------------------
(***************************************************************************)
(* PThreadEvent (event_pthread.h, event_pthread.cpp): a trigger state      *)
(* behind a mutex and a condition variable.  Between two waits on the      *)
(* condition variable everything happens under the mutex, so what is done  *)
(* in between is one step.                                                 *)
(***************************************************************************)
CONSTANTS
  Thread,   \* the threads that wait
  Timed     \* those that wait for a limited time only

ASSUME TimedAssumption == Timed \subseteq Thread

VARIABLES
  triggerState,
  waiting,      \* threads blocked on the condition variable (numWaiting of them)
  signalled,    \* those among them it has woken up
  life          \* live, closing (in the destructor), gone

eventVars == <<triggerState, waiting, signalled, life>>

\* PThreadEvent::wait up to the condition variable: a thread returns when the
\* event is triggered (a single trigger is used up) and blocks otherwise.
EnterWait(t) ==
  /\ triggerState' = IF triggerState = "ONE" THEN "NONE" ELSE triggerState
  /\ waiting' = IF triggerState = "NONE" THEN waiting \cup {t} ELSE waiting \ {t}
  /\ signalled' = signalled \ {t}
  /\ UNCHANGED life

Wait(t) ==
  /\ life = "live"
  /\ t \notin waiting
  /\ EnterWait(t)

\* A thread that is woken up goes round the loop again. A condition variable may
\* wake threads up for no reason.
Wake(t) == t \in signalled /\ EnterWait(t)

Spurious(t) == t \in waiting \ signalled /\ EnterWait(t)

\* The time a thread was ready to wait is over, as it finds once it is awake: it
\* leaves without another look at the trigger state.
Expire(t) ==
  /\ t \in waiting \cap Timed
  /\ waiting' = waiting \ {t}
  /\ signalled' = signalled \ {t}
  /\ UNCHANGED <<triggerState, life>>

\* pthread_cond_signal: one of the threads that are still asleep, if any.
SignalOne ==
  \/ waiting \subseteq signalled /\ UNCHANGED signalled
  \/ \E t \in waiting \ signalled : signalled' = signalled \cup {t}

\* Faulty variant: the state is set, and one thread is woken up.
TriggerAllSignal ==
  /\ triggerState' = "ALL"
  /\ SignalOne
  /\ UNCHANGED <<waiting, life>>

\* Faulty variant: the threads asleep are woken up, the state is not set.
BroadcastOnly ==
  /\ signalled' = waiting
  /\ UNCHANGED <<triggerState, waiting, life>>

\* PThreadEvent::trigger(true).
TriggerAll ==
  /\ triggerState' = "ALL"
  /\ signalled' = waiting
  /\ UNCHANGED <<waiting, life>>

\* PThreadEvent::trigger(false).
TriggerOne ==
  /\ triggerState' = "ONE"
  /\ SignalOne
  /\ UNCHANGED <<waiting, life>>

\* PThreadEvent::reset.
Reset ==
  /\ triggerState' = "NONE"
  /\ UNCHANGED <<waiting, signalled, life>>

\* Faulty variant: the destructor waits for threads it has not woken up.
CloseSilently ==
  /\ life = "live"
  /\ life' = "closing"
  /\ UNCHANGED <<triggerState, waiting, signalled>>

\* The destructor: wake everybody up, then wait until they have left. No thread
\* may start to wait once it has begun.
Close ==
  /\ life = "live"
  /\ triggerState' = "ALL"
  /\ signalled' = waiting
  /\ life' = "closing"
  /\ UNCHANGED waiting

DestructorReturns ==
  /\ life = "closing"
  /\ waiting = {}
  /\ life' = "gone"
  /\ UNCHANGED <<triggerState, waiting, signalled>>

EventInit ==
  /\ triggerState = "NONE"
  /\ waiting = {}
  /\ signalled = {}
  /\ life = "live"

EventNext ==
  \/ \E t \in Thread : Wait(t) \/ Wake(t) \/ Spurious(t) \/ Expire(t)
  \/ life = "live" /\ (TriggerAll \/ TriggerOne \/ Reset)
  \/ Close
  \/ DestructorReturns

EventSpec == EventInit /\ [][EventNext]_eventVars

\* A thread that was woken up gets the mutex, a destructor that waits for nobody
\* any more ends. Nothing asks a condition variable to wake threads up for no
\* reason, or a thread to trigger the event.
EventFairness == (\A t \in Thread : WF_eventVars(Wake(t))) /\ WF_eventVars(DestructorReturns)

----------------------------------------------------------------------------
EventTypeOK ==
  /\ triggerState \in {"NONE", "ALL", "ONE"}
  /\ waiting \subseteq Thread
  /\ signalled \subseteq waiting
  /\ life \in {"live", "closing", "gone"}

\* A broadcast reaches everybody: while the event is triggered for all, every
\* thread that sleeps is about to be woken up ("if true wakes all threads",
\* event.h:30).
BroadcastWakes == triggerState = "ALL" => waiting = signalled

\* A single trigger reaches somebody: while it is not used up and threads sleep,
\* one of them is about to be woken up ("otherwise only one", event.h:30).
TriggerWakesOne == triggerState = "ONE" /\ waiting # {} => signalled # {}

\* The destructor ends: every thread that waits is woken up, finds the event
\* triggered and leaves (the loop in ~PThreadEvent waits for nothing else).
DestructorEnds == life = "closing" ~> life = "gone"
============================================================================
