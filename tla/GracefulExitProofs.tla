------------------------- MODULE GracefulExitProofs -------------------------
(***************************************************************************)
(* Theorems about GracefulExit for any sets of threads, tasks and guards.  *)
(* Inductive is the inductive invariant: the counter stays a natural       *)
(* number (TypeOK) only because it counts the guards, it counts the guards *)
(* only because what one has read of it is still there when it writes      *)
(* (LoadedIsFresh), that is so only because it is in the critical section  *)
(* alone, and nobody sleeps through the notification for all these reasons.*)
(***************************************************************************)
EXTENDS GracefulExit, FiniteSetTheorems, TLAPS

(* Only a drain with a timeout sees it run out (lib.rs:59).                *)
OnlyTimedElapse == \A d \in Drainers : elapsed[d] => d \in TimedDrainers

(* Between the read and the write of a += or -= nobody else has written.   *)
LoadedIsFresh ==
  \A g \in Guards : guardPc[g] \in {"adding", "subtracting"} => loaded[g] = counter

Inductive ==
  /\ TypeOK
  /\ LockDiscipline
  /\ LoadedIsFresh
  /\ CounterMatchesGuards
  /\ NoLostWakeup
  /\ OnlyTimedElapse

-----------------------------------------------------------------------------
(* A guard that is being dropped is counted, so there is something to      *)
(* subtract from.                                                          *)
LEMMA DroppingIsCounted ==
  ASSUME TypeOK, CounterMatchesGuards,
         NEW g \in Guards, g \in Counted
  PROVE  counter > 0
<1>1. IsFiniteSet(Counted) /\ counter = Cardinality(Counted)
  BY DEF CounterMatchesGuards
<1>2. Cardinality(Counted) # 0
  BY <1>1, FS_EmptySet
<1>3. QED
  BY <1>1, <1>2 DEF TypeOK

(* When the counter is zero no guard is in scope, and conversely.          *)
LEMMA ZeroIsQuiet ==
  ASSUME CounterMatchesGuards
  PROVE  counter = 0 <=>
           \A g \in Guards : guardPc[g] \notin {"held", "dropping", "subtracting"}
<1>1. IsFiniteSet(Counted) /\ counter = Cardinality(Counted)
  BY DEF CounterMatchesGuards
<1>2. counter = 0 <=> Counted = {}
  BY <1>1, FS_EmptySet
<1>3. QED
  BY <1>2 DEF Counted

-----------------------------------------------------------------------------
(* Every step keeps the types, the counter's included.                     *)
LEMMA TypeStep ==
  TypeOK /\ LoadedIsFresh /\ CounterMatchesGuards /\ [Next]_vars => TypeOK'
<1> SUFFICES ASSUME TypeOK, LoadedIsFresh, CounterMatchesGuards, [Next]_vars
             PROVE  TypeOK'
  OBVIOUS
<1> USE ConstantsAssumption
<1>1. ASSUME NEW e \in Exiters, ExitStep(e) PROVE TypeOK'
  <2>1. CASE ExitSet(e)
    BY <2>1 DEF TypeOK, ExitSet, guardVars, drainVars
  <2>2. CASE ExitNotify(e)
    BY <2>2 DEF TypeOK, ExitNotify, NotifyWaiters, guardVars, drainVars
  <2>3. QED
    BY <1>1, <2>1, <2>2 DEF ExitStep
<1>2. ASSUME NEW w \in AsyncWaiters, AsyncStep(w) PROVE TypeOK'
  BY <1>2 DEF TypeOK, AsyncStep, AsyncRegister, AsyncReturn, AsyncCancel,
     guardVars, drainVars
<1>3. ASSUME NEW b \in BlockingWaiters, BlockingStep(b) PROVE TypeOK'
  BY <1>3 DEF TypeOK, BlockingStep, BlockingCall, BlockingReturn, guardVars,
     drainVars
<1>4. ASSUME NEW g \in Guards, GuardStep(g) PROVE TypeOK'
  <2>1. CASE GuardLock(g) \/ GuardLoad(g)
    BY <2>1 DEF TypeOK, GuardLock, GuardLoad, exitVars, drainVars
  <2>2. CASE GuardIncrement(g)
    BY <2>2 DEF TypeOK, GuardIncrement, exitVars, drainVars
  <2>3. CASE DropLock(g) \/ DropLoad(g)
    BY <2>3 DEF TypeOK, DropLock, DropLoad, exitVars, drainVars
  <2>4. CASE DropDecrement(g)
    <3>1. g \in Counted /\ loaded[g] = counter
      BY <2>4 DEF DropDecrement, Counted, LoadedIsFresh
    <3>2. counter > 0
      BY <3>1, DroppingIsCounted
    <3>3. loaded[g] - 1 \in Nat
      BY <3>1, <3>2 DEF TypeOK
    <3>4. QED
      BY <2>4, <3>3 DEF TypeOK, DropDecrement, exitVars, drainVars
  <2>5. CASE DropNotify(g)
    BY <2>5 DEF TypeOK, DropNotify, NotifyAll, exitVars
  <2>6. QED
    BY <1>4, <2>1, <2>2, <2>3, <2>4, <2>5 DEF GuardStep
<1>5. ASSUME NEW d \in Drainers, DrainStep(d) PROVE TypeOK'
  <2>1. CASE DrainLock(d) \/ DrainReturn(d) \/ DrainTimeOut(d)
    BY <2>1 DEF TypeOK, DrainLock, DrainReturn, DrainTimeOut, exitVars
  <2>2. CASE DrainCheck(d) \/ DrainPark(d)
    BY <2>2 DEF TypeOK, DrainCheck, DrainPark, exitVars, guardVars
  <2>3. CASE Elapse(d) \/ TimeoutWake(d)
    BY <2>3, ZenonT(30) DEF TypeOK, Elapse, TimeoutWake, exitVars, guardVars
  <2>4. CASE SpuriousWake(d)
    <3>1. spurious[d] + 1 \in 0 .. MaxSpurious
      BY <2>4 DEF TypeOK, SpuriousWake
    <3>2. spurious' \in [Drainers -> 0 .. MaxSpurious]
      BY <2>4, <3>1 DEF TypeOK, SpuriousWake
    <3>3. QED
      BY <2>4, <3>2 DEF TypeOK, SpuriousWake, exitVars, guardVars
  <2>5. QED
    BY <1>5, <2>1, <2>2, <2>3, <2>4 DEF DrainStep
<1>6. CASE UNCHANGED vars
  BY <1>6 DEF TypeOK, vars, exitVars, guardVars, drainVars
<1>7. QED
  BY <1>1, <1>2, <1>3, <1>4, <1>5, <1>6 DEF Next

(* Every step keeps the mutex with the one thread in a critical section.   *)
LEMMA LockStep == TypeOK /\ LockDiscipline /\ [Next]_vars => LockDiscipline'
<1> SUFFICES ASSUME TypeOK, LockDiscipline, [Next]_vars PROVE LockDiscipline'
  OBVIOUS
<1> USE ConstantsAssumption
<1>1. ASSUME NEW e \in Exiters, ExitStep(e) PROVE LockDiscipline'
  BY <1>1 DEF LockDiscipline, ExitStep, ExitSet, ExitNotify, guardVars, drainVars
<1>2. ASSUME NEW w \in AsyncWaiters, AsyncStep(w) PROVE LockDiscipline'
  BY <1>2 DEF LockDiscipline, AsyncStep, AsyncRegister, AsyncReturn, AsyncCancel,
     guardVars, drainVars
<1>3. ASSUME NEW b \in BlockingWaiters, BlockingStep(b) PROVE LockDiscipline'
  BY <1>3 DEF LockDiscipline, BlockingStep, BlockingCall, BlockingReturn,
     guardVars, drainVars
<1>4. ASSUME NEW g \in Guards, GuardStep(g) PROVE LockDiscipline'
  <2>1. CASE GuardLock(g) \/ GuardLoad(g)
    BY <2>1 DEF TypeOK, LockDiscipline, GuardLock, GuardLoad, exitVars, drainVars
  <2>2. CASE GuardIncrement(g)
    BY <2>2 DEF TypeOK, LockDiscipline, GuardIncrement, exitVars, drainVars
  <2>3. CASE DropLock(g) \/ DropLoad(g)
    BY <2>3 DEF TypeOK, LockDiscipline, DropLock, DropLoad, exitVars, drainVars
  <2>4. CASE DropDecrement(g)
    BY <2>4 DEF TypeOK, LockDiscipline, DropDecrement, exitVars, drainVars
  <2>5. CASE DropNotify(g)
    BY <2>5 DEF TypeOK, LockDiscipline, DropNotify, NotifyAll, exitVars
  <2>6. QED
    BY <1>4, <2>1, <2>2, <2>3, <2>4, <2>5 DEF GuardStep
<1>5. ASSUME NEW d \in Drainers, DrainStep(d) PROVE LockDiscipline'
  <2>1. CASE DrainLock(d)
    BY <2>1 DEF TypeOK, LockDiscipline, DrainLock, exitVars
  <2>2. CASE DrainReturn(d) \/ DrainTimeOut(d)
    BY <2>2 DEF TypeOK, LockDiscipline, DrainReturn, DrainTimeOut, exitVars
  <2>3. CASE DrainCheck(d) \/ DrainPark(d)
    BY <2>3 DEF TypeOK, LockDiscipline, DrainCheck, DrainPark, exitVars, guardVars
  <2>4. CASE Elapse(d) \/ TimeoutWake(d) \/ SpuriousWake(d)
    BY <2>4 DEF TypeOK, LockDiscipline, Elapse, TimeoutWake, SpuriousWake,
       exitVars, guardVars
  <2>5. QED
    BY <1>5, <2>1, <2>2, <2>3, <2>4 DEF DrainStep
<1>6. CASE UNCHANGED vars
  BY <1>6 DEF LockDiscipline, vars, guardVars, drainVars
<1>7. QED
  BY <1>1, <1>2, <1>3, <1>4, <1>5, <1>6 DEF Next

(* Every step leaves a value that was read fresh until it is written back: *)
(* the counter changes only under the mutex, which the reader holds.       *)
LEMMA FreshStep ==
  TypeOK /\ LockDiscipline /\ LoadedIsFresh /\ [Next]_vars => LoadedIsFresh'
<1> SUFFICES ASSUME TypeOK, LockDiscipline, LoadedIsFresh, [Next]_vars
             PROVE  LoadedIsFresh'
  OBVIOUS
<1>a. ASSUME UNCHANGED <<counter, loaded, guardPc>> PROVE LoadedIsFresh'
  BY <1>a DEF LoadedIsFresh
<1>1. ASSUME NEW e \in Exiters, ExitStep(e) PROVE LoadedIsFresh'
  BY <1>1, <1>a DEF ExitStep, ExitSet, ExitNotify, guardVars
<1>2. ASSUME NEW w \in AsyncWaiters, AsyncStep(w) PROVE LoadedIsFresh'
  BY <1>2, <1>a DEF AsyncStep, AsyncRegister, AsyncReturn, AsyncCancel, guardVars
<1>3. ASSUME NEW b \in BlockingWaiters, BlockingStep(b) PROVE LoadedIsFresh'
  BY <1>3, <1>a DEF BlockingStep, BlockingCall, BlockingReturn, guardVars
<1>4. ASSUME NEW g \in Guards, GuardStep(g) PROVE LoadedIsFresh'
  <2>1. CASE GuardLock(g) \/ DropLock(g) \/ DropNotify(g)
    BY <2>1 DEF TypeOK, LoadedIsFresh, GuardLock, DropLock, DropNotify
  <2>2. CASE GuardLoad(g) \/ DropLoad(g)
    BY <2>2 DEF TypeOK, LoadedIsFresh, GuardLoad, DropLoad
  <2>3. CASE GuardIncrement(g) \/ DropDecrement(g)
    <3>1. mutex = g
      BY <2>3 DEF LockDiscipline, GuardIncrement, DropDecrement
    <3>2. \A h \in Guards \ {g} : guardPc[h] \notin {"adding", "subtracting"}
      BY <3>1 DEF LockDiscipline
    <3>3. \A h \in Guards : guardPc'[h] \notin {"adding", "subtracting"}
      BY <2>3, <3>2 DEF TypeOK, GuardIncrement, DropDecrement
    <3>4. QED
      BY <3>3 DEF LoadedIsFresh
  <2>4. QED
    BY <1>4, <2>1, <2>2, <2>3 DEF GuardStep
<1>5. ASSUME NEW d \in Drainers, DrainStep(d) PROVE LoadedIsFresh'
  BY <1>5, <1>a DEF DrainStep, DrainLock, DrainReturn, DrainTimeOut, DrainCheck,
     DrainPark, Elapse, TimeoutWake, SpuriousWake, guardVars
<1>6. CASE UNCHANGED vars
  BY <1>6, <1>a DEF vars, guardVars
<1>7. QED
  BY <1>1, <1>2, <1>3, <1>4, <1>5, <1>6 DEF Next

(* Every step keeps the counter equal to the number of guards in scope.    *)
LEMMA CountStep ==
  TypeOK /\ LoadedIsFresh /\ CounterMatchesGuards /\ [Next]_vars
    => CounterMatchesGuards'
<1> SUFFICES ASSUME TypeOK, LoadedIsFresh, CounterMatchesGuards, [Next]_vars
             PROVE  CounterMatchesGuards'
  OBVIOUS
<1>0. IsFiniteSet(Counted) /\ counter = Cardinality(Counted)
  BY DEF CounterMatchesGuards
<1>a. ASSUME Counted' = Counted, counter' = counter PROVE CounterMatchesGuards'
  BY <1>0, <1>a DEF CounterMatchesGuards
<1>1. ASSUME NEW e \in Exiters, ExitStep(e) PROVE CounterMatchesGuards'
  BY <1>1, <1>a DEF Counted, ExitStep, ExitSet, ExitNotify, guardVars
<1>2. ASSUME NEW w \in AsyncWaiters, AsyncStep(w) PROVE CounterMatchesGuards'
  BY <1>2, <1>a DEF Counted, AsyncStep, AsyncRegister, AsyncReturn, AsyncCancel,
     guardVars
<1>3. ASSUME NEW b \in BlockingWaiters, BlockingStep(b) PROVE CounterMatchesGuards'
  BY <1>3, <1>a DEF Counted, BlockingStep, BlockingCall, BlockingReturn, guardVars
<1>4. ASSUME NEW g \in Guards, GuardStep(g) PROVE CounterMatchesGuards'
  <2>1. CASE GuardLock(g) \/ GuardLoad(g) \/ DropLock(g) \/ DropLoad(g) \/ DropNotify(g)
    <3>1. Counted' = Counted
      BY <2>1 DEF TypeOK, Counted, GuardLock, GuardLoad, DropLock, DropLoad, DropNotify
    <3>2. counter' = counter
      BY <2>1 DEF GuardLock, GuardLoad, DropLock, DropLoad, DropNotify
    <3>3. QED
      BY <3>1, <3>2, <1>a
  <2>2. CASE GuardIncrement(g)
    <3>1. g \notin Counted /\ Counted' = Counted \cup {g}
      BY <2>2 DEF TypeOK, Counted, GuardIncrement
    <3>2. IsFiniteSet(Counted') /\ Cardinality(Counted') = Cardinality(Counted) + 1
      BY <1>0, <3>1, FS_AddElement
    <3>3. counter' = counter + 1
      BY <2>2 DEF GuardIncrement, LoadedIsFresh
    <3>4. QED
      BY <1>0, <3>2, <3>3 DEF CounterMatchesGuards
  <2>3. CASE DropDecrement(g)
    <3>1. g \in Counted /\ Counted' = Counted \ {g}
      BY <2>3 DEF TypeOK, Counted, DropDecrement
    <3>2. IsFiniteSet(Counted') /\ Cardinality(Counted') = Cardinality(Counted) - 1
      BY <1>0, <3>1, FS_RemoveElement
    <3>3. counter' = counter - 1
      BY <2>3 DEF DropDecrement, LoadedIsFresh
    <3>4. QED
      BY <1>0, <3>2, <3>3 DEF CounterMatchesGuards
  <2>4. QED
    BY <1>4, <2>1, <2>2, <2>3 DEF GuardStep
<1>5. ASSUME NEW d \in Drainers, DrainStep(d) PROVE CounterMatchesGuards'
  BY <1>5, <1>a DEF Counted, DrainStep, DrainLock, DrainReturn, DrainTimeOut,
     DrainCheck, DrainPark, Elapse, TimeoutWake, SpuriousWake, guardVars
<1>6. CASE UNCHANGED vars
  BY <1>6, <1>a DEF Counted, vars, guardVars
<1>7. QED
  BY <1>1, <1>2, <1>3, <1>4, <1>5, <1>6 DEF Next

(* No step makes a drain miss the notification it sleeps for. The two      *)
(* steps at which it could are the decrement, where the mutex keeps every  *)
(* drain from being about to sleep, and the notification itself.           *)
LEMMA WakeupStep ==
  TypeOK /\ LockDiscipline /\ LoadedIsFresh /\ CounterMatchesGuards
    /\ NoLostWakeup /\ [Next]_vars => NoLostWakeup'
<1> SUFFICES ASSUME TypeOK, LockDiscipline, LoadedIsFresh, CounterMatchesGuards,
                    NoLostWakeup, [Next]_vars
             PROVE  NoLostWakeup'
  OBVIOUS
<1> USE ConstantsAssumption
<1>1. ASSUME NEW e \in Exiters, ExitStep(e) PROVE NoLostWakeup'
  BY <1>1 DEF NoLostWakeup, ExitStep, ExitSet, ExitNotify, guardVars, drainVars
<1>2. ASSUME NEW w \in AsyncWaiters, AsyncStep(w) PROVE NoLostWakeup'
  BY <1>2 DEF NoLostWakeup, AsyncStep, AsyncRegister, AsyncReturn, AsyncCancel,
     guardVars, drainVars
<1>3. ASSUME NEW b \in BlockingWaiters, BlockingStep(b) PROVE NoLostWakeup'
  BY <1>3 DEF NoLostWakeup, BlockingStep, BlockingCall, BlockingReturn, guardVars,
     drainVars
<1>4. ASSUME NEW g \in Guards, GuardStep(g) PROVE NoLostWakeup'
  <2>1. CASE GuardLock(g) \/ GuardLoad(g) \/ DropLock(g) \/ DropLoad(g)
    BY <2>1 DEF TypeOK, NoLostWakeup, GuardLock, GuardLoad, DropLock, DropLoad, drainVars
  <2>2. CASE GuardIncrement(g)
    <3>1. counter' > 0
      BY <2>2 DEF TypeOK, GuardIncrement
    <3>2. QED
      BY <2>2, <3>1 DEF NoLostWakeup, GuardIncrement, drainVars
  <2>3. CASE DropDecrement(g)
    <3>1. mutex = g /\ \A d \in Drainers : drainPc[d] # "parking"
      BY <2>3 DEF LockDiscipline, DropDecrement
    <3>2. counter > 0
      BY <2>3, DroppingIsCounted DEF DropDecrement, Counted
    <3>3. counter' > 0 \/ guardPc'[g] = "notifying"
      BY <2>3, <3>2 DEF TypeOK, DropDecrement, LoadedIsFresh
    <3>4. QED
      BY <2>3, <3>1, <3>3 DEF NoLostWakeup, DropDecrement, drainVars
  <2>4. CASE DropNotify(g)
    <3>1. \A d \in Drainers : drainPc'[d] # "asleep"
      BY <2>4 DEF DropNotify, NotifyAll
    <3>2. \A d \in Drainers : drainPc'[d] = "parking" => drainPc[d] = "parking"
      BY <2>4 DEF DropNotify, NotifyAll
    <3>3. QED
      BY <2>4, <3>1, <3>2 DEF NoLostWakeup, DropNotify
  <2>5. QED
    BY <1>4, <2>1, <2>2, <2>3, <2>4 DEF GuardStep
<1>5. ASSUME NEW d \in Drainers, DrainStep(d) PROVE NoLostWakeup'
  <2>1. CASE DrainLock(d) \/ DrainReturn(d) \/ DrainTimeOut(d)
    BY <2>1 DEF TypeOK, NoLostWakeup, DrainLock, DrainReturn, DrainTimeOut
  <2>2. CASE DrainCheck(d)
    BY <2>2 DEF TypeOK, NoLostWakeup, DrainCheck, guardVars
  <2>3. CASE DrainPark(d)
    BY <2>3 DEF TypeOK, NoLostWakeup, DrainPark
  <2>4. CASE Elapse(d) \/ TimeoutWake(d) \/ SpuriousWake(d)
    BY <2>4 DEF TypeOK, NoLostWakeup, Elapse, TimeoutWake, SpuriousWake, guardVars
  <2>5. QED
    BY <1>5, <2>1, <2>2, <2>3, <2>4 DEF DrainStep
<1>6. CASE UNCHANGED vars
  BY <1>6 DEF NoLostWakeup, vars, guardVars, drainVars
<1>7. QED
  BY <1>1, <1>2, <1>3, <1>4, <1>5, <1>6 DEF Next

(* The clock of a drain without a timeout never runs out.                  *)
LEMMA ElapseStep == TypeOK /\ OnlyTimedElapse /\ [Next]_vars => OnlyTimedElapse'
<1> SUFFICES ASSUME TypeOK, OnlyTimedElapse, [Next]_vars PROVE OnlyTimedElapse'
  OBVIOUS
<1>1. ASSUME NEW d \in Drainers, Elapse(d) PROVE OnlyTimedElapse'
  BY <1>1 DEF TypeOK, OnlyTimedElapse, Elapse
<1>2. ASSUME UNCHANGED elapsed PROVE OnlyTimedElapse'
  BY <1>2 DEF OnlyTimedElapse
<1>3. (\E d \in Drainers : Elapse(d)) \/ UNCHANGED elapsed
  <2>1. ASSUME NEW d \in Drainers, DrainStep(d) PROVE Elapse(d) \/ UNCHANGED elapsed
    BY <2>1 DEF DrainStep, DrainLock, DrainReturn, DrainTimeOut, DrainCheck,
       DrainPark, TimeoutWake, SpuriousWake
  <2>2. ASSUME NEW g \in Guards, GuardStep(g) PROVE UNCHANGED elapsed
    BY <2>2 DEF GuardStep, GuardLock, GuardLoad, GuardIncrement, DropLock,
       DropLoad, DropDecrement, DropNotify, drainVars
  <2>3. ASSUME \/ \E e \in Exiters : ExitStep(e)
               \/ \E w \in AsyncWaiters : AsyncStep(w)
               \/ \E b \in BlockingWaiters : BlockingStep(b)
        PROVE  UNCHANGED elapsed
    BY <2>3 DEF ExitStep, ExitSet, ExitNotify, AsyncStep, AsyncRegister,
       AsyncReturn, AsyncCancel, BlockingStep, BlockingCall, BlockingReturn,
       drainVars
  <2>4. CASE UNCHANGED vars
    BY <2>4 DEF vars, drainVars
  <2>5. QED
    BY <2>1, <2>2, <2>3, <2>4 DEF Next
<1>4. QED
  BY <1>1, <1>2, <1>3

-----------------------------------------------------------------------------
LEMMA InductiveInit == Init => Inductive
<1> SUFFICES ASSUME Init PROVE Inductive
  OBVIOUS
<1> USE ConstantsAssumption
<1>1. TypeOK
  <2>1. 0 \in 0 .. MaxSpurious
    OBVIOUS
  <2>2. QED
    BY <2>1 DEF Init, TypeOK
<1>2. LockDiscipline
  BY DEF Init, LockDiscipline
<1>3. CounterMatchesGuards
  <2>1. Counted = {}
    BY DEF Init, Counted
  <2>2. QED
    BY <2>1, FS_EmptySet DEF Init, CounterMatchesGuards
<1>4. LoadedIsFresh /\ NoLostWakeup /\ OnlyTimedElapse
  BY DEF Init, LoadedIsFresh, NoLostWakeup, OnlyTimedElapse
<1>5. QED
  BY <1>1, <1>2, <1>3, <1>4 DEF Inductive

LEMMA InductiveStep == Inductive /\ [Next]_vars => Inductive'
BY TypeStep, LockStep, FreshStep, CountStep, WakeupStep, ElapseStep DEF Inductive

LEMMA InductiveAlways == Spec => []Inductive
BY InductiveInit, InductiveStep, PTL DEF Spec

(* The types hold; with it, the u64 counter is never taken below zero.     *)
THEOREM TypeCorrect == Spec => []TypeOK
<1>1. Inductive => TypeOK
  BY DEF Inductive
<1>2. QED
  BY InductiveAlways, <1>1, PTL

(* The counter is the number of guards in scope in every reachable state,  *)
(* however many threads make and drop guards (lib.rs:32, 84-85).           *)
THEOREM CounterCorrect == Spec => []CounterMatchesGuards
<1>1. Inductive => CounterMatchesGuards
  BY DEF Inductive
<1>2. QED
  BY InductiveAlways, <1>1, PTL

(* The mutex serialises guard(), drop() and blocking_wait_for_guards().    *)
THEOREM MutualExclusion == Spec => []LockDiscipline
<1>1. Inductive => LockDiscipline
  BY DEF Inductive
<1>2. QED
  BY InductiveAlways, <1>1, PTL

(* No drain sleeps through the drop it waits for (lib.rs:72-75, 84-90).    *)
THEOREM WakeupCorrect == Spec => []NoLostWakeup
<1>1. Inductive => NoLostWakeup
  BY DEF Inductive
<1>2. QED
  BY InductiveAlways, <1>1, PTL

(* A wait for the exit ends, and a task is notified, only after exit() has *)
(* set the cell (lib.rs:39-41): the cell is never cleared again.           *)
THEOREM NobodyExitsEarly == Spec => []NoEarlyExit
<1>1. Init => NoEarlyExit
  BY DEF Init, NoEarlyExit
<1>2. TypeOK /\ NoEarlyExit /\ [Next]_vars => NoEarlyExit'
  <2> SUFFICES ASSUME TypeOK, NoEarlyExit, [Next]_vars PROVE NoEarlyExit'
    OBVIOUS
  <2>1. ASSUME NEW e \in Exiters, ExitStep(e) PROVE NoEarlyExit'
    <3>1. CASE ExitSet(e)
      BY <3>1 DEF NoEarlyExit, ExitSet
    <3>2. CASE ExitNotify(e)
      BY <3>2 DEF TypeOK, NoEarlyExit, ExitNotify, NotifyWaiters
    <3>3. QED
      BY <2>1, <3>1, <3>2 DEF ExitStep
  <2>2. ASSUME NEW w \in AsyncWaiters, AsyncStep(w) PROVE NoEarlyExit'
    BY <2>2 DEF TypeOK, NoEarlyExit, AsyncStep, AsyncRegister, AsyncReturn,
       AsyncCancel
  <2>3. ASSUME NEW b \in BlockingWaiters, BlockingStep(b) PROVE NoEarlyExit'
    BY <2>3 DEF TypeOK, NoEarlyExit, BlockingStep, BlockingCall, BlockingReturn
  <2>4. ASSUME NEW g \in Guards, GuardStep(g) PROVE NoEarlyExit'
    BY <2>4 DEF NoEarlyExit, GuardStep, GuardLock, GuardLoad, GuardIncrement, DropLock,
       DropLoad, DropDecrement, DropNotify, exitVars
  <2>5. ASSUME NEW d \in Drainers, DrainStep(d) PROVE NoEarlyExit'
    BY <2>5 DEF NoEarlyExit, DrainStep, DrainLock, DrainReturn, DrainTimeOut,
       DrainCheck, DrainPark, Elapse, TimeoutWake, SpuriousWake, exitVars
  <2>6. CASE UNCHANGED vars
    BY <2>6 DEF NoEarlyExit, vars, exitVars
  <2>7. QED
    BY <2>1, <2>2, <2>3, <2>4, <2>5, <2>6 DEF Next
<1>3. QED
  BY TypeCorrect, <1>1, <1>2, PTL DEF Spec

-----------------------------------------------------------------------------
(* The refinement. Taking the mutex, parking, waking and notifying are     *)
(* stutters of the contract; the steps that count are the ones below.      *)

LEMMA ContractInit == Init => Contract!Init
<1> SUFFICES ASSUME Init PROVE Contract!Init
  OBVIOUS
<1>1. Told = {}
  BY DEF Init, Told
<1>2. \A g \in Guards : ScopeOf(guardPc[g]) = "before"
  BY DEF Init, ScopeOf
<1>3. \A d \in Drainers : DrainOf(drainPc[d]) = "uncalled"
  BY DEF Init, DrainOf
<1>4. QED
  BY <1>1, <1>2, <1>3 DEF Init, Contract!Init

LEMMA ContractStep ==
  Inductive /\ NoEarlyExit /\ [Next]_vars => [Contract!Next]_(Contract!vars)
<1> SUFFICES ASSUME Inductive, NoEarlyExit, [Next]_vars
             PROVE  [Contract!Next]_(Contract!vars)
  OBVIOUS
<1> DEFINE Scope == [g \in Guards |-> ScopeOf(guardPc[g])]
           Drain == [d \in Drainers |-> DrainOf(drainPc[d])]
           Quiet == UNCHANGED <<initiated, Told, Scope, Drain>>
<1>0. TypeOK /\ CounterMatchesGuards /\ OnlyTimedElapse /\ NoEarlyExit
  BY DEF Inductive
<1>a. Quiet => [Contract!Next]_(Contract!vars)
  BY DEF Contract!vars
<1>1. ASSUME NEW e \in Exiters, ExitStep(e) PROVE [Contract!Next]_(Contract!vars)
  <2>1. UNCHANGED <<Scope, Drain>>
    BY <1>1 DEF ExitStep, ExitSet, ExitNotify, guardVars, drainVars
  <2>2. UNCHANGED Told
    BY <1>0, <1>1 DEF TypeOK, Told, ExitStep, ExitSet, ExitNotify, NotifyWaiters
  <2>3. CASE ExitSet(e)
    <3>1. Contract!Request
      BY <2>1, <2>2, <2>3 DEF ExitSet, Contract!Request
    <3>2. QED
      BY <3>1 DEF Contract!Next
  <2>4. CASE ExitNotify(e)
    BY <1>a, <2>1, <2>2, <2>4 DEF ExitNotify
  <2>5. QED
    BY <1>1, <2>3, <2>4 DEF ExitStep
<1>2. ASSUME NEW w \in AsyncWaiters, AsyncStep(w) PROVE [Contract!Next]_(Contract!vars)
  <2>1. UNCHANGED <<initiated, Scope, Drain>>
    BY <1>2 DEF AsyncStep, AsyncRegister, AsyncReturn, AsyncCancel, guardVars,
       drainVars
  <2>2. CASE AsyncReturn(w)
    <3>1. Told' = Told \cup {w}
      BY <1>0, <2>2 DEF TypeOK, Told, AsyncReturn
    <3>2. initiated
      BY <1>0, <2>2 DEF NoEarlyExit, AsyncReturn
    <3>3. Contract!Tell(w)
      BY <2>1, <3>1, <3>2 DEF Contract!Tell
    <3>4. QED
      BY <3>3 DEF Contract!Next
  <2>3. CASE AsyncRegister(w) \/ AsyncCancel(w)
    <3>1. UNCHANGED Told
      BY <1>0, <2>3 DEF TypeOK, Told, AsyncRegister, AsyncCancel
    <3>2. QED
      BY <1>a, <2>1, <3>1
  <2>4. QED
    BY <1>2, <2>2, <2>3 DEF AsyncStep
<1>3. ASSUME NEW b \in BlockingWaiters, BlockingStep(b)
      PROVE  [Contract!Next]_(Contract!vars)
  <2>1. UNCHANGED <<initiated, Scope, Drain>>
    BY <1>3 DEF BlockingStep, BlockingCall, BlockingReturn, guardVars, drainVars
  <2>2. CASE BlockingReturn(b)
    <3>1. Told' = Told \cup {b} /\ initiated
      BY <1>0, <2>2 DEF TypeOK, Told, BlockingReturn
    <3>2. Contract!Tell(b)
      BY <2>1, <3>1 DEF Contract!Tell
    <3>3. QED
      BY <3>2 DEF Contract!Next
  <2>3. CASE BlockingCall(b)
    <3>1. UNCHANGED Told
      BY <1>0, <2>3 DEF TypeOK, Told, BlockingCall
    <3>2. QED
      BY <1>a, <2>1, <3>1
  <2>4. QED
    BY <1>3, <2>2, <2>3 DEF BlockingStep
<1>4. ASSUME NEW g \in Guards, GuardStep(g) PROVE [Contract!Next]_(Contract!vars)
  <2>1. UNCHANGED <<initiated, Told>>
    BY <1>4 DEF GuardStep, GuardLock, GuardLoad, GuardIncrement, DropLock,
       DropLoad, DropDecrement, DropNotify, exitVars, Told
  <2>2. UNCHANGED Drain
    BY <1>0, <1>4 DEF TypeOK, GuardStep, GuardLock, GuardLoad, GuardIncrement, DropLock,
       DropLoad, DropDecrement, DropNotify, NotifyAll, drainVars, DrainOf
  <2>3. CASE GuardLock(g) \/ GuardLoad(g) \/ DropLock(g) \/ DropLoad(g) \/ DropNotify(g)
    <3>1. UNCHANGED Scope
      BY <1>0, <2>3
      DEF TypeOK, GuardLock, GuardLoad, DropLock, DropLoad, DropNotify, ScopeOf
    <3>2. QED
      BY <1>a, <2>1, <2>2, <3>1
  <2>4. CASE GuardIncrement(g)
    <3>1. Scope[g] = "before" /\ Scope' = [Scope EXCEPT ![g] = "in"]
      BY <1>0, <2>4 DEF TypeOK, GuardIncrement, ScopeOf
    <3>2. Contract!Enter(g)
      BY <2>1, <2>2, <3>1 DEF Contract!Enter
    <3>3. QED
      BY <3>2 DEF Contract!Next
  <2>5. CASE DropDecrement(g)
    <3>1. Scope[g] = "in" /\ Scope' = [Scope EXCEPT ![g] = "after"]
      BY <1>0, <2>5 DEF TypeOK, DropDecrement, ScopeOf
    <3>2. Contract!Leave(g)
      BY <2>1, <2>2, <3>1 DEF Contract!Leave
    <3>3. QED
      BY <3>2 DEF Contract!Next
  <2>6. QED
    BY <1>4, <2>3, <2>4, <2>5 DEF GuardStep
<1>5. ASSUME NEW d \in Drainers, DrainStep(d) PROVE [Contract!Next]_(Contract!vars)
  <2>1. UNCHANGED <<initiated, Told, Scope>>
    BY <1>5 DEF DrainStep, DrainLock, DrainReturn, DrainTimeOut, DrainCheck,
       DrainPark, Elapse, TimeoutWake, SpuriousWake, exitVars, guardVars, Told
  <2>2. Contract!NoGuardInScope <=> counter = 0
    BY <1>0, ZeroIsQuiet DEF Contract!NoGuardInScope, ScopeOf, TypeOK
  <2>3. CASE DrainLock(d)
    <3>1. CASE drainPc[d] = "idle"
      <4>1. Drain[d] = "uncalled" /\ Drain' = [Drain EXCEPT ![d] = "waiting"]
        BY <1>0, <2>3, <3>1 DEF TypeOK, DrainLock, DrainOf
      <4>2. Contract!Call(d)
        BY <2>1, <4>1 DEF Contract!Call
      <4>3. QED
        BY <4>2 DEF Contract!Next
    <3>2. CASE drainPc[d] = "woken"
      <4>1. UNCHANGED Drain
        BY <1>0, <2>3, <3>2 DEF TypeOK, DrainLock, DrainOf
      <4>2. QED
        BY <1>a, <2>1, <4>1
    <3>3. QED
      BY <2>3, <3>1, <3>2 DEF DrainLock
  <2>4. CASE DrainReturn(d)
    <3>1. Drain[d] = "waiting" /\ Drain' = [Drain EXCEPT ![d] = "drained"]
      BY <1>0, <2>4 DEF TypeOK, DrainReturn, DrainOf
    <3>2. Contract!Drained(d)
      BY <2>1, <2>2, <2>4, <3>1 DEF DrainReturn, Contract!Drained
    <3>3. QED
      BY <3>2 DEF Contract!Next
  <2>5. CASE DrainTimeOut(d)
    <3>1. Drain[d] = "waiting" /\ Drain' = [Drain EXCEPT ![d] = "forced"]
      BY <1>0, <2>5 DEF TypeOK, DrainTimeOut, DrainOf
    <3>2. d \in TimedDrainers /\ counter # 0
      BY <1>0, <2>5 DEF OnlyTimedElapse, DrainTimeOut
    <3>3. Contract!Forced(d)
      BY <2>1, <2>2, <3>1, <3>2 DEF Contract!Forced
    <3>4. QED
      BY <3>2, <3>3 DEF Contract!Next
  <2>6. CASE DrainCheck(d) \/ DrainPark(d) \/ Elapse(d) \/ TimeoutWake(d)
               \/ SpuriousWake(d)
    <3>1. UNCHANGED Drain
      BY <1>0, <2>6 DEF TypeOK, DrainCheck, DrainPark, Elapse, TimeoutWake,
         SpuriousWake, DrainOf
    <3>2. QED
      BY <1>a, <2>1, <3>1
  <2>7. QED
    BY <1>5, <2>3, <2>4, <2>5, <2>6 DEF DrainStep
<1>6. CASE UNCHANGED vars
  BY <1>6, <1>a DEF vars, exitVars, guardVars, drainVars, Told
<1>7. QED
  BY <1>1, <1>2, <1>3, <1>4, <1>5, <1>6 DEF Next

(* The exit system implements its contract: every quiet return of          *)
(* blocking_wait_for_guards happens with no guard in scope, every forced   *)
(* one after a timeout with a guard in scope (lib.rs:57-78).               *)
THEOREM ExitImplementsContract == Spec => ContractSafety
BY InductiveAlways, NobodyExitsEarly, ContractInit, ContractStep, PTL
   DEF Spec, ContractSafety, Contract!Spec

=============================================================================
