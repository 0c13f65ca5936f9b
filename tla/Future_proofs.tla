--------------------------- MODULE Future_proofs ---------------------------
(***************************************************************************)
(* Theorems about Future, for every set of threads: a promise is a value   *)
(* written once, and no getter sleeps on a result that is there.           *)
(***************************************************************************)
EXTENDS Future, TLAPS

\* The invariant holds at the start.
LEMMA InitInv == Init => Inv
BY ThreadAssumption DEF Init, Inv, TypeOK, Holds, SetterAt, event!EventInit, event!EventTypeOK

----------------------------------------------------------------------------
\* A step of a setter keeps the lock: another setter is outside, and what the
\* setter that has it relies on is untouched.
LEMMA SetInv ==
  ASSUME Inv, NEW s \in Setter, Set(s)
  PROVE  Inv'
<1> USE ThreadAssumption
<1>1. CASE Begin(s)
  BY <1>1 DEF Begin, Goes, Inv, TypeOK, Holds, SetterAt, eventVars, event!EventTypeOK
<1>2. CASE TestComplete(s)
  BY <1>2 DEF TestComplete, Goes, Inv, TypeOK, Holds, SetterAt, eventVars, event!EventTypeOK
<1>3. CASE Store(s)
  BY <1>3 DEF Store, Goes, Inv, TypeOK, Holds, SetterAt, eventVars, event!EventTypeOK
<1>4. CASE Complete(s)
  BY <1>4 DEF Complete, Goes, Inv, TypeOK, Holds, SetterAt, eventVars, event!EventTypeOK
<1>5. CASE Trigger(s)
  BY <1>5 DEF Trigger, Goes, Inv, TypeOK, Holds, SetterAt, event!EventTypeOK, event!TriggerAll
<1>6. CASE RunCallback(s)
  BY <1>6 DEF RunCallback, Goes, Inv, TypeOK, Holds, SetterAt, eventVars, event!EventTypeOK
<1>7. CASE End(s)
  BY <1>7 DEF End, Goes, Inv, TypeOK, Holds, SetterAt, eventVars, event!EventTypeOK
<1>8. QED
  BY <1>1, <1>2, <1>3, <1>4, <1>5, <1>6, <1>7 DEF Set

\* A getter enters or goes round the wait: nothing but the event and its place
\* change.
LEMMA WaitInv ==
  ASSUME Inv, NEW g \in Getter, event!EnterWait(g),
         pc' = pc \/ Goes(g, "wait", "start"),
         UNCHANGED <<guard, result, bComplete, callback, ran, got>>
  PROVE  Inv'
BY ThreadAssumption
   DEF Goes, Inv, TypeOK, Holds, SetterAt, event!EventTypeOK, event!EnterWait

\* A step of a getter.
LEMMA GetInv ==
  ASSUME Inv, NEW g \in Getter, Get(g) \/ WakeUp(g)
  PROVE  Inv'
<1> USE ThreadAssumption
<1>1. CASE TestReady(g)
  BY <1>1 DEF TestReady, Goes, Inv, TypeOK, Holds, SetterAt, eventVars, event!EventTypeOK
<1>2. CASE WaitReady(g)
  BY <1>2, WaitInv DEF WaitReady, event!Wait
<1>3. CASE ReadResult(g)
  BY <1>3 DEF ReadResult, Goes, Inv, TypeOK, Holds, SetterAt, eventVars, event!EventTypeOK
<1>4. CASE WakeUp(g)
  BY <1>4, WaitInv DEF WakeUp, event!Wake, event!Spurious
<1>5. QED
  BY <1>1, <1>2, <1>3, <1>4 DEF Get

\* A step of a thread that registers a function.
LEMMA SubscribeInv ==
  ASSUME Inv, NEW l \in Listener, Subscribe(l)
  PROVE  Inv'
<1> USE ThreadAssumption
<1>1. CASE TestCompleted(l)
  BY <1>1 DEF TestCompleted, Goes, Inv, TypeOK, Holds, SetterAt, eventVars, event!EventTypeOK
<1>2. CASE Register(l)
  BY <1>2 DEF Register, Goes, Inv, TypeOK, Holds, SetterAt, eventVars, event!EventTypeOK
<1>3. CASE RunLate(l)
  BY <1>3 DEF RunLate, Goes, Inv, TypeOK, Holds, SetterAt, eventVars, event!EventTypeOK
<1>4. QED
  BY <1>1, <1>2, <1>3 DEF Subscribe

\* Every step preserves the invariant.
LEMMA InvNext == Inv /\ [Next]_vars => Inv'
<1> SUFFICES ASSUME Inv, [Next]_vars
             PROVE  Inv'
  OBVIOUS
<1>1. CASE UNCHANGED vars
  BY <1>1 DEF vars, eventVars, Inv, TypeOK, Holds, SetterAt, event!EventTypeOK
<1>2. QED
  BY <1>1, SetInv, GetInv, SubscribeInv DEF Next

\* A setter that holds the lock finds what it relies on, a result that is there
\* is a value that was set, and the event follows the flag.
THEOREM Invariance == Spec => []Inv
BY InitInv, InvNext, PTL DEF Spec

\* Once the setter has triggered the event nobody sleeps on a result that is
\* there: no getter misses it between its test and its wait.
THEOREM NobodyMissesTheResult == Spec => []NobodySleeps
<1>1. Inv => NobodySleeps
  BY DEF Inv, NobodySleeps
<1>2. QED
  BY <1>1, Invariance, PTL

----------------------------------------------------------------------------
\* Every step writes the value once, reads it, or does not concern it.
LEMMA StepRefines ==
  ASSUME Inv, [Next]_vars
  PROVE  [promise!Next]_<<IF bComplete THEN result ELSE Nothing, got>>
<1> DEFINE value == IF bComplete THEN result ELSE Nothing
<1> USE ThreadAssumption
<1>1. ASSUME NEW s \in Setter, Set(s)
      PROVE  promise!Write \/ UNCHANGED <<value, got>>
  <2>1. CASE Complete(s)
    BY <1>1, <2>1 DEF Complete, Goes, Inv, TypeOK, promise!Write
  <2>2. CASE Store(s)
    BY <1>1, <2>2 DEF Store, Goes, Inv
  <2>3. CASE Begin(s) \/ TestComplete(s) \/ Trigger(s) \/ RunCallback(s) \/ End(s)
    BY <2>3 DEF Begin, TestComplete, Trigger, RunCallback, End
  <2>4. QED
    BY <1>1, <2>1, <2>2, <2>3 DEF Set
<1>2. ASSUME NEW g \in Getter, Get(g) \/ WakeUp(g)
      PROVE  promise!Read(g) \/ UNCHANGED <<value, got>>
  <2>1. CASE ReadResult(g)
    BY <2>1 DEF ReadResult, Goes, Inv, TypeOK, promise!Read
  <2>2. CASE TestReady(g) \/ WaitReady(g) \/ WakeUp(g)
    BY <2>2 DEF TestReady, WaitReady, WakeUp
  <2>3. QED
    BY <1>2, <2>1, <2>2 DEF Get
<1>3. ASSUME NEW l \in Listener, Subscribe(l)
      PROVE  UNCHANGED <<value, got>>
  BY <1>3 DEF Subscribe, TestCompleted, Register, RunLate
<1>4. CASE UNCHANGED vars
  BY <1>4 DEF vars
<1>5. QED
  BY <1>1, <1>2, <1>3, <1>4 DEF Next, promise!Next

\* A promise is a value written once and read by those who wait for it, whatever
\* threads set it and in whichever order (the safety of SetOnce).
THEOREM PromiseIsWriteOnce == Spec => promise!Safety
<1>1. Init => promise!Init
  BY DEF Init, promise!Init
<1>2. QED
  BY <1>1, StepRefines, Invariance, PTL DEF Spec, promise!Safety
============================================================================
