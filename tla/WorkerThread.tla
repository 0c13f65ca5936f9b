---------------------------- MODULE WorkerThread ----------------------------
(***************************************************************************)
(* RunnablePThread (hal/runnable_pthread.h), the thread behind it, and the *)
(* ThreadManager all threads enter (hal/thread_manager.h).  One owner      *)
(* makes, kills and deletes workers while their threads run.               *)
(*                                                                         *)
(* The owner calls nothing on a worker that is gone, and not join, which   *)
(* waits for thread number 0.                                              *)
(***************************************************************************)
EXTENDS Integers

CONSTANTS
  Worker,
  Heeding,    \* workers whose runnable ends when it is stopped, or by itself
  NoWorker

VARIABLES
  object,      \* of each worker: none, live, killing and closing (in kill, and in
               \* kill in the destructor, waiting for the thread), deleted
  thread,      \* of each worker: none, new, entered, running, ended
  started,     \* workers with bStarted
  stopped,     \* workers whose runnable was told to stop
  cancelled,   \* workers killed without waiting
  joins,       \* times each thread was waited for
  named,       \* the worker in ThreadManager::threads
  touched      \* workers whose thread used them after they were deleted

workerVars == <<object, thread, started, stopped, cancelled, joins, named, touched>>

WorkerInit ==
  /\ object = [w \in Worker |-> "none"]
  /\ thread = [w \in Worker |-> "none"]
  /\ started = {}
  /\ stopped = {}
  /\ cancelled = {}
  /\ joins = [w \in Worker |-> 0]
  /\ named = NoWorker
  /\ touched = {}

\* create: without a thread the object is deleted again.
Create(w) ==
  /\ object[w] = "none"
  /\ \/ /\ object' = [object EXCEPT ![w] = "live"]
        /\ thread' = [thread EXCEPT ![w] = "new"]
        /\ started' = started \cup {w}
     \/ /\ object' = [object EXCEPT ![w] = "deleted"]
        /\ UNCHANGED <<thread, started>>
  /\ UNCHANGED <<stopped, cancelled, joins, named, touched>>

----------------------------------------------------------------------------
Proceeds(w, from, to) ==
  /\ thread[w] = from
  /\ thread' = [thread EXCEPT ![w] = to]
  /\ touched' = IF object[w] = "deleted" THEN touched \cup {w} ELSE touched
  /\ UNCHANGED <<object, started, stopped, cancelled, joins>>

\* entryPoint: all threads enter with number 0, and the map refuses a second one.
EntryPoint(w) ==
  /\ Proceeds(w, "new", "entered")
  /\ named' = IF named = NoWorker THEN w ELSE named

\* run, as far as the call of the runnable, whose init may fail.
Run(w) ==
  /\ \/ Proceeds(w, "entered", "running")
     \/ Proceeds(w, "entered", "ended")
  /\ UNCHANGED named

\* The runnable returns, and so does the thread, through postRun.
Return(w) ==
  /\ w \in Heeding
  /\ Proceeds(w, "running", "ended")
  /\ UNCHANGED named

\* A thread that is cancelled ends wherever it is.
Cancelled(w) ==
  /\ w \in cancelled
  /\ thread[w] \notin {"none", "ended"}
  /\ thread' = [thread EXCEPT ![w] = "ended"]
  /\ UNCHANGED <<object, started, stopped, cancelled, joins, named, touched>>

----------------------------------------------------------------------------
\* kill(true) up to pthread_join; nothing for a worker that is not started.
Kill(w) ==
  /\ object[w] = "live"
  /\ w \in started
  /\ stopped' = stopped \cup {w}
  /\ object' = [object EXCEPT ![w] = "killing"]
  /\ UNCHANGED <<thread, started, cancelled, joins, named, touched>>

\* kill(false).
KillAtOnce(w) ==
  /\ object[w] = "live"
  /\ w \in started
  /\ stopped' = stopped \cup {w}
  /\ cancelled' = cancelled \cup {w}
  /\ started' = started \ {w}
  /\ UNCHANGED <<object, thread, joins, named, touched>>

\* Faulty variant: the destructor stops the runnable and waits for nothing.
DeleteAtOnce(w) ==
  /\ object[w] = "live"
  /\ object' = [object EXCEPT ![w] = "deleted"]
  /\ stopped' = IF w \in started THEN stopped \cup {w} ELSE stopped
  /\ UNCHANGED <<thread, started, cancelled, joins, named, touched>>

\* The destructor. The manager keeps the entry: its remove does nothing.
Delete(w) ==
  /\ object[w] = "live"
  /\ object' = [object EXCEPT ![w] = IF w \in started THEN "closing" ELSE "deleted"]
  /\ stopped' = IF w \in started THEN stopped \cup {w} ELSE stopped
  /\ UNCHANGED <<thread, started, cancelled, joins, named, touched>>

\* pthread_join returns.
Joined(w) ==
  /\ object[w] \in {"killing", "closing"}
  /\ thread[w] = "ended"
  /\ object' = [object EXCEPT ![w] = IF @ = "killing" THEN "live" ELSE "deleted"]
  /\ joins' = [joins EXCEPT ![w] = @ + 1]
  /\ started' = started \ {w}
  /\ UNCHANGED <<thread, stopped, cancelled, named, touched>>

WorkerNext ==
  \E w \in Worker :
    \/ Create(w) \/ Kill(w) \/ KillAtOnce(w) \/ Delete(w) \/ Joined(w)
    \/ EntryPoint(w) \/ Run(w) \/ Return(w) \/ Cancelled(w)

WorkerSpec == WorkerInit /\ [][WorkerNext]_workerVars

----------------------------------------------------------------------------
\* A thread outlives its object, and uses it, only when it was killed without
\* waiting; no thread is waited for twice, or after it was cancelled.
ThreadsEndFirst ==
  /\ touched \subseteq cancelled
  /\ \A w \in Worker : joins[w] <= 1 /\ (w \in cancelled => joins[w] = 0)
=============================================================================
