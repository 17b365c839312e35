------------------------- MODULE CheckoutLockProofs -------------------------
(***************************************************************************)
(* What the checkout lock promises, for any writers in any processes and   *)
(* any timing with Update < Stale < Wait: never two writers inside while   *)
(* no holder overstays, no lock left behind by an exit, and no refusal     *)
(* unless a living writer held the lock during the wait.                   *)
(*                                                                         *)
(* The promises are not inductive alone.  Exclusion needs the directory's  *)
(* age to be the holder's own since its last refresh (OneAge); refusals    *)
(* need that a directory nobody living holds ages at least as fast as the  *)
(* wait runs (Outwaited).  That two store writes of one process are never  *)
(* both inside, however late a holder is, needs the permit's line: each    *)
(* writer in it once, and whoever is past the permit at its head (Turns).  *)
(***************************************************************************)
EXTENDS CheckoutLock, TLAPS

\* A fiber has a release registered exactly while its effect runs.
Inside == \A f \in Fiber : f \in held <=> pc[f] \in {"in", "nested"}

\* The budget starts at the first attempt.
FreshWait == \A f \in Fiber : pc[f] # "try" => waited[f] = 0

\* A holder is told its lock is compromised only when the directory is not its own.
LostIsGone == \A f \in lost : owner # f

\* Unless a holder overstayed: the holder's directory is its own, of its own age.
OneAge ==
    ~late => \A f \in held : owner = f /\ f \notin lost /\ since[f] = age /\ age <= Stale

\* A waiter that met no living holder has waited no longer than the directory aged.
Outwaited ==
    \A f \in Fiber : pc[f] = "try" /\ f \notin met /\ owner # None
                       => waited[f] <= age \/ age > Stale

LockInv ==
    /\ Typed /\ Inside /\ FreshWait /\ NoStrandedLock /\ LostIsGone
    /\ OneAge /\ Outwaited /\ RefusedOnlyByTheLiving


LEMMA InitLock == Init => LockInv
<1> SUFFICES ASSUME Init PROVE LockInv
  OBVIOUS
<1>1. Typed
  <2>1. late \in BOOLEAN
    BY Zenon DEF Init
  <2>2. /\ pc \in [Fiber -> {"idle", "line", "try", "in", "nested", "refused"}]
        /\ since \in [Fiber -> 0..(Stale + 1)]
        /\ pause \in [Fiber -> 0..MaxPause]
        /\ waited \in [Fiber -> 0..Wait]
    BY LockAssumption DEF Init
  <2> QED
    BY <2>1, <2>2, LockAssumption DEF Init, Typed
<1>2. Inside /\ FreshWait /\ Outwaited /\ RefusedOnlyByTheLiving
  BY DEF Init, Inside, FreshWait, Outwaited, RefusedOnlyByTheLiving
<1>3. NoStrandedLock /\ LostIsGone /\ OneAge
  BY DEF Init, NoStrandedLock, LostIsGone, OneAge
<1> QED
  BY <1>1, <1>2, <1>3 DEF LockInv

\* Every step keeps the state's types.
LEMMA TypedStep == LockInv /\ [Next]_vars => Typed'
<1> SUFFICES ASSUME LockInv, [Next]_vars PROVE Typed'
  OBVIOUS
<1> USE LockAssumption DEF LockAssumption, LockInv, Typed, lockVars, timeVars, envVars
<1>0. CASE UNCHANGED vars
  BY <1>0 DEF vars
<1>1. ASSUME NEW f \in Fiber, Call(f) PROVE Typed'
  BY <1>1 DEF Call, FirstAttempt, Watch
<1>2. ASSUME NEW f \in Fiber, Permit(f) PROVE Typed'
  BY <1>2 DEF Permit, FirstAttempt, Watch
<1>3. ASSUME NEW f \in Fiber, Attempt(f) PROVE Typed'
  <2>1. CASE Take(f)
    BY <1>3, <2>1 DEF Attempt, Due, Take, EndWait, Watch
  <2>2. CASE Pause(f)
    BY <1>3, <2>2 DEF Attempt, Due, Pause, Pauses, Watch
  <2>3. CASE Refuse(f)
    BY <1>3, <2>3 DEF Attempt, Due, Refuse, EndWait, Watch
  <2>4. QED
    BY <1>3, <2>1, <2>2, <2>3 DEF Attempt
<1>4. ASSUME NEW f \in Fiber, GiveUp(f) PROVE Typed'
  BY <1>4 DEF GiveUp, EndWait, Watch
<1>5. ASSUME NEW f \in Fiber, Nest(f) PROVE Typed'
  BY <1>5 DEF Nest, FirstAttempt, Reentrant, Watch
<1>6. ASSUME NEW f \in Fiber, Return(f) PROVE Typed'
  BY <1>6 DEF Return, Watch
<1>7. ASSUME NEW f \in Fiber, Refresh(f) PROVE Typed'
  BY <1>7 DEF Refresh, RefreshDue, Watch
<1>8. ASSUME NEW f \in Fiber, Exit(f) PROVE Typed'
  BY <1>8 DEF Exit, Released, Watch
<1>9. CASE Tick
  BY <1>9 DEF Tick, Capped, Watch
<1>10. ASSUME NEW p \in Process, Stall(p) PROVE Typed'
  BY <1>10 DEF Stall, Watch
<1>11. ASSUME NEW p \in Process, Resume(p) PROVE Typed'
  BY <1>11 DEF Resume, Watch
<1>12. ASSUME NEW p \in Process, Crash(p) PROVE Typed'
  BY <1>12 DEF Crash, Watch
<1> QED
  BY <1>0, <1>1, <1>2, <1>3, <1>4, <1>5, <1>6, <1>7, <1>8, <1>9, <1>10, <1>11, <1>12
     DEF Next, Step

\* A release is registered with the mkdir, and dropped by the exit that runs it.
LEMMA InsideStep == LockInv /\ [Next]_vars => Inside'
<1> SUFFICES ASSUME LockInv, [Next]_vars PROVE Inside'
  OBVIOUS
<1> USE LockAssumption DEF LockAssumption, LockInv, Inside, Typed, lockVars, timeVars, envVars
<1>0. CASE UNCHANGED vars
  BY <1>0 DEF vars
<1>1. ASSUME NEW f \in Fiber, Call(f) PROVE Inside'
  BY <1>1 DEF Call, FirstAttempt
<1>2. ASSUME NEW f \in Fiber, Permit(f) PROVE Inside'
  BY <1>2 DEF Permit, FirstAttempt
<1>3. ASSUME NEW f \in Fiber, Attempt(f) PROVE Inside'
  <2>1. CASE Take(f)
    BY <1>3, <2>1 DEF Attempt, Due, Take, EndWait
  <2>2. CASE Pause(f)
    BY <1>3, <2>2 DEF Attempt, Due, Pause, Pauses
  <2>3. CASE Refuse(f)
    BY <1>3, <2>3 DEF Attempt, Due, Refuse, EndWait
  <2>4. QED
    BY <1>3, <2>1, <2>2, <2>3 DEF Attempt
<1>4. ASSUME NEW f \in Fiber, GiveUp(f) PROVE Inside'
  BY <1>4 DEF GiveUp, EndWait
<1>5. ASSUME NEW f \in Fiber, Nest(f) PROVE Inside'
  BY <1>5 DEF Nest, FirstAttempt, Reentrant
<1>6. ASSUME NEW f \in Fiber, Return(f) PROVE Inside'
  BY <1>6 DEF Return
<1>7. ASSUME NEW f \in Fiber, Refresh(f) PROVE Inside'
  BY <1>7 DEF Refresh, RefreshDue
<1>8. ASSUME NEW f \in Fiber, Exit(f) PROVE Inside'
  BY <1>8 DEF Exit, Released
<1>9. CASE Tick
  BY <1>9 DEF Tick, Capped
<1>10. ASSUME NEW p \in Process, Stall(p) PROVE Inside'
  BY <1>10 DEF Stall
<1>11. ASSUME NEW p \in Process, Resume(p) PROVE Inside'
  BY <1>11 DEF Resume
<1>12. ASSUME NEW p \in Process, Crash(p) PROVE Inside'
  BY <1>12 DEF Crash
<1> QED
  BY <1>0, <1>1, <1>2, <1>3, <1>4, <1>5, <1>6, <1>7, <1>8, <1>9, <1>10, <1>11, <1>12
     DEF Next, Step

\* A fiber that does not wait has spent nothing of its budget.
LEMMA FreshWaitStep == LockInv /\ [Next]_vars => FreshWait'
<1> SUFFICES ASSUME LockInv, [Next]_vars PROVE FreshWait'
  OBVIOUS
<1> USE LockAssumption DEF LockAssumption, LockInv, FreshWait, Typed, lockVars, timeVars, envVars
<1>0. CASE UNCHANGED vars
  BY <1>0 DEF vars
<1>1. ASSUME NEW f \in Fiber, Call(f) PROVE FreshWait'
  BY <1>1 DEF Call, FirstAttempt
<1>2. ASSUME NEW f \in Fiber, Permit(f) PROVE FreshWait'
  BY <1>2 DEF Permit, FirstAttempt
<1>3. ASSUME NEW f \in Fiber, Attempt(f) PROVE FreshWait'
  <2>1. CASE Take(f)
    BY <1>3, <2>1 DEF Attempt, Due, Take, EndWait
  <2>2. CASE Pause(f)
    BY <1>3, <2>2 DEF Attempt, Due, Pause, Pauses
  <2>3. CASE Refuse(f)
    BY <1>3, <2>3 DEF Attempt, Due, Refuse, EndWait
  <2>4. QED
    BY <1>3, <2>1, <2>2, <2>3 DEF Attempt
<1>4. ASSUME NEW f \in Fiber, GiveUp(f) PROVE FreshWait'
  BY <1>4 DEF GiveUp, EndWait
<1>5. ASSUME NEW f \in Fiber, Nest(f) PROVE FreshWait'
  BY <1>5 DEF Nest, FirstAttempt, Reentrant
<1>6. ASSUME NEW f \in Fiber, Return(f) PROVE FreshWait'
  BY <1>6 DEF Return
<1>7. ASSUME NEW f \in Fiber, Refresh(f) PROVE FreshWait'
  BY <1>7 DEF Refresh, RefreshDue
<1>8. ASSUME NEW f \in Fiber, Exit(f) PROVE FreshWait'
  BY <1>8 DEF Exit, Released
<1>9. CASE Tick
  BY <1>9 DEF Tick, Capped
<1>10. ASSUME NEW p \in Process, Stall(p) PROVE FreshWait'
  BY <1>10 DEF Stall
<1>11. ASSUME NEW p \in Process, Resume(p) PROVE FreshWait'
  BY <1>11 DEF Resume
<1>12. ASSUME NEW p \in Process, Crash(p) PROVE FreshWait'
  BY <1>12 DEF Crash
<1> QED
  BY <1>0, <1>1, <1>2, <1>3, <1>4, <1>5, <1>6, <1>7, <1>8, <1>9, <1>10, <1>11, <1>12
     DEF Next, Step

\* Only a holder's own exit, or its kill, parts it from its directory.
LEMMA NoStrandedStep == LockInv /\ [Next]_vars => (NoStrandedLock /\ LostIsGone)'
<1> SUFFICES ASSUME LockInv, [Next]_vars PROVE (NoStrandedLock /\ LostIsGone)'
  OBVIOUS
<1> USE LockAssumption DEF LockAssumption, LockInv, Inside, NoStrandedLock, LostIsGone, Typed, lockVars, timeVars, envVars
<1>0. CASE UNCHANGED vars
  BY <1>0 DEF vars
<1>1. ASSUME NEW f \in Fiber, Call(f) PROVE (NoStrandedLock /\ LostIsGone)'
  BY <1>1 DEF Call, FirstAttempt
<1>2. ASSUME NEW f \in Fiber, Permit(f) PROVE (NoStrandedLock /\ LostIsGone)'
  BY <1>2 DEF Permit, FirstAttempt
<1>3. ASSUME NEW f \in Fiber, Attempt(f) PROVE (NoStrandedLock /\ LostIsGone)'
  <2>1. CASE Take(f)
    BY <1>3, <2>1 DEF Attempt, Due, Take, EndWait
  <2>2. CASE Pause(f)
    BY <1>3, <2>2 DEF Attempt, Due, Pause, Pauses
  <2>3. CASE Refuse(f)
    BY <1>3, <2>3 DEF Attempt, Due, Refuse, EndWait
  <2>4. QED
    BY <1>3, <2>1, <2>2, <2>3 DEF Attempt
<1>4. ASSUME NEW f \in Fiber, GiveUp(f) PROVE (NoStrandedLock /\ LostIsGone)'
  BY <1>4 DEF GiveUp, EndWait
<1>5. ASSUME NEW f \in Fiber, Nest(f) PROVE (NoStrandedLock /\ LostIsGone)'
  BY <1>5 DEF Nest, FirstAttempt, Reentrant
<1>6. ASSUME NEW f \in Fiber, Return(f) PROVE (NoStrandedLock /\ LostIsGone)'
  BY <1>6 DEF Return
<1>7. ASSUME NEW f \in Fiber, Refresh(f) PROVE (NoStrandedLock /\ LostIsGone)'
  BY <1>7 DEF Refresh, RefreshDue
<1>8. ASSUME NEW f \in Fiber, Exit(f) PROVE (NoStrandedLock /\ LostIsGone)'
  BY <1>8 DEF Exit, Released
<1>9. CASE Tick
  BY <1>9 DEF Tick, Capped
<1>10. ASSUME NEW p \in Process, Stall(p) PROVE (NoStrandedLock /\ LostIsGone)'
  BY <1>10 DEF Stall
<1>11. ASSUME NEW p \in Process, Resume(p) PROVE (NoStrandedLock /\ LostIsGone)'
  BY <1>11 DEF Resume
<1>12. ASSUME NEW p \in Process, Crash(p) PROVE (NoStrandedLock /\ LostIsGone)'
  BY <1>12 DEF Crash
<1> QED
  BY <1>0, <1>1, <1>2, <1>3, <1>4, <1>5, <1>6, <1>7, <1>8, <1>9, <1>10, <1>11, <1>12
     DEF Next, Step

\* While nobody overstays, every step keeps the one holder's age.
LEMMA OneAgeStep == LockInv /\ [Next]_vars => OneAge'
<1> SUFFICES ASSUME LockInv, [Next]_vars PROVE OneAge'
  OBVIOUS
<1> USE LockAssumption DEF LockAssumption, LockInv, Inside, OneAge, NoStrandedLock, Typed, lockVars, timeVars, envVars
<1>0. CASE UNCHANGED vars
  BY <1>0 DEF vars
<1>1. ASSUME NEW f \in Fiber, Call(f) PROVE OneAge'
  BY <1>1 DEF Call, FirstAttempt
<1>2. ASSUME NEW f \in Fiber, Permit(f) PROVE OneAge'
  BY <1>2 DEF Permit, FirstAttempt
<1>3. ASSUME NEW f \in Fiber, Attempt(f) PROVE OneAge'
  <2>1. CASE Take(f)
    BY <1>3, <2>1 DEF Attempt, Due, Take, EndWait, Takeable, IsStale
  <2>2. CASE Pause(f)
    BY <1>3, <2>2 DEF Attempt, Due, Pause, Pauses
  <2>3. CASE Refuse(f)
    BY <1>3, <2>3 DEF Attempt, Due, Refuse, EndWait
  <2>4. QED
    BY <1>3, <2>1, <2>2, <2>3 DEF Attempt
<1>4. ASSUME NEW f \in Fiber, GiveUp(f) PROVE OneAge'
  BY <1>4 DEF GiveUp, EndWait
<1>5. ASSUME NEW f \in Fiber, Nest(f) PROVE OneAge'
  BY <1>5 DEF Nest, FirstAttempt, Reentrant
<1>6. ASSUME NEW f \in Fiber, Return(f) PROVE OneAge'
  BY <1>6 DEF Return
<1>7. ASSUME NEW f \in Fiber, Refresh(f) PROVE OneAge'
  BY <1>7 DEF Refresh, RefreshDue
<1>8. ASSUME NEW f \in Fiber, Exit(f) PROVE OneAge'
  BY <1>8 DEF Exit, Released
<1>9. CASE Tick
  <2>1. SUFFICES ASSUME ~late', NEW f \in held
                 PROVE  owner = f /\ f \notin lost /\ since'[f] = age' /\ age' <= Stale
    BY <1>9 DEF Tick
  <2>2. ~late /\ owner = f /\ f \notin lost /\ since[f] = age /\ age <= Stale
    BY <1>9, <2>1 DEF Tick
  <2>3. owner # None /\ f \in Fiber
    BY <2>2
  <2>4. since'[f] = age + 1 /\ age' = age + 1
    BY <1>9, <2>2, <2>3 DEF Tick, Capped
  <2>5. ~(since'[f] > Stale)
    BY <1>9, <2>1, <2>2 DEF Tick
  <2>6. QED
    BY <2>2, <2>4, <2>5
<1>10. ASSUME NEW p \in Process, Stall(p) PROVE OneAge'
  BY <1>10 DEF Stall
<1>11. ASSUME NEW p \in Process, Resume(p) PROVE OneAge'
  BY <1>11 DEF Resume
<1>12. ASSUME NEW p \in Process, Crash(p) PROVE OneAge'
  BY <1>12 DEF Crash
<1> QED
  BY <1>0, <1>1, <1>2, <1>3, <1>4, <1>5, <1>6, <1>7, <1>8, <1>9, <1>10, <1>11, <1>12
     DEF Next, Step

\* A directory that nobody living holds ages as the wait runs.
LEMMA OutwaitedStep == LockInv /\ [Next]_vars => Outwaited'
<1> SUFFICES ASSUME LockInv, [Next]_vars PROVE Outwaited'
  OBVIOUS
<1> USE LockAssumption DEF LockAssumption, LockInv, Inside, FreshWait, NoStrandedLock, Outwaited, LiveOwnerBesides, Running, Typed, lockVars, timeVars, envVars
<1>0. CASE UNCHANGED vars
  BY <1>0 DEF vars
<1>1. ASSUME NEW f \in Fiber, Call(f) PROVE Outwaited'
  BY <1>1 DEF Call, FirstAttempt, Watch
<1>2. ASSUME NEW f \in Fiber, Permit(f) PROVE Outwaited'
  BY <1>2 DEF Permit, FirstAttempt, Watch
<1>3. ASSUME NEW f \in Fiber, Attempt(f) PROVE Outwaited'
  <2>1. CASE Take(f)
    BY <1>3, <2>1 DEF Attempt, Due, Take, EndWait, Watch
  <2>2. CASE Pause(f)
    BY <1>3, <2>2 DEF Attempt, Due, Pause, Pauses, Watch
  <2>3. CASE Refuse(f)
    BY <1>3, <2>3 DEF Attempt, Due, Refuse, EndWait, Watch
  <2>4. QED
    BY <1>3, <2>1, <2>2, <2>3 DEF Attempt
<1>4. ASSUME NEW f \in Fiber, GiveUp(f) PROVE Outwaited'
  BY <1>4 DEF GiveUp, EndWait, Watch
<1>5. ASSUME NEW f \in Fiber, Nest(f) PROVE Outwaited'
  BY <1>5 DEF Nest, FirstAttempt, Reentrant, Watch
<1>6. ASSUME NEW f \in Fiber, Return(f) PROVE Outwaited'
  BY <1>6 DEF Return, Watch
<1>7. ASSUME NEW f \in Fiber, Refresh(f) PROVE Outwaited'
  BY <1>7 DEF Refresh, RefreshDue, Watch
<1>8. ASSUME NEW f \in Fiber, Exit(f) PROVE Outwaited'
  BY <1>8 DEF Exit, Released, Watch
<1>9. CASE Tick
  BY <1>9 DEF Tick, Capped, Watch
<1>10. ASSUME NEW p \in Process, Stall(p) PROVE Outwaited'
  BY <1>10 DEF Stall, Watch
<1>11. ASSUME NEW p \in Process, Resume(p) PROVE Outwaited'
  BY <1>11 DEF Resume, Watch
<1>12. ASSUME NEW p \in Process, Crash(p) PROVE Outwaited'
  BY <1>12 DEF Crash, Watch
<1> QED
  BY <1>0, <1>1, <1>2, <1>3, <1>4, <1>5, <1>6, <1>7, <1>8, <1>9, <1>10, <1>11, <1>12
     DEF Next, Step

\* A budget spent against such a directory would have found it stale.
LEMMA RefusedStep == LockInv /\ [Next]_vars => RefusedOnlyByTheLiving'
<1> SUFFICES ASSUME LockInv, [Next]_vars PROVE RefusedOnlyByTheLiving'
  OBVIOUS
<1> USE LockAssumption DEF LockAssumption, LockInv, Outwaited, RefusedOnlyByTheLiving, Takeable, IsStale, OutOfTime, Typed, lockVars, timeVars, envVars
<1>0. CASE UNCHANGED vars
  BY <1>0 DEF vars
<1>1. ASSUME NEW f \in Fiber, Call(f) PROVE RefusedOnlyByTheLiving'
  BY <1>1 DEF Call, FirstAttempt, Watch
<1>2. ASSUME NEW f \in Fiber, Permit(f) PROVE RefusedOnlyByTheLiving'
  BY <1>2 DEF Permit, FirstAttempt, Watch
<1>3. ASSUME NEW f \in Fiber, Attempt(f) PROVE RefusedOnlyByTheLiving'
  <2>1. CASE Take(f)
    BY <1>3, <2>1 DEF Attempt, Due, Take, EndWait, Watch
  <2>2. CASE Pause(f)
    BY <1>3, <2>2 DEF Attempt, Due, Pause, Pauses, Watch
  <2>3. CASE Refuse(f)
    BY <1>3, <2>3 DEF Attempt, Due, Refuse, EndWait, Watch
  <2>4. QED
    BY <1>3, <2>1, <2>2, <2>3 DEF Attempt
<1>4. ASSUME NEW f \in Fiber, GiveUp(f) PROVE RefusedOnlyByTheLiving'
  BY <1>4 DEF GiveUp, EndWait, Watch
<1>5. ASSUME NEW f \in Fiber, Nest(f) PROVE RefusedOnlyByTheLiving'
  BY <1>5 DEF Nest, FirstAttempt, Reentrant, Watch
<1>6. ASSUME NEW f \in Fiber, Return(f) PROVE RefusedOnlyByTheLiving'
  BY <1>6 DEF Return, Watch
<1>7. ASSUME NEW f \in Fiber, Refresh(f) PROVE RefusedOnlyByTheLiving'
  BY <1>7 DEF Refresh, RefreshDue, Watch
<1>8. ASSUME NEW f \in Fiber, Exit(f) PROVE RefusedOnlyByTheLiving'
  BY <1>8 DEF Exit, Released, Watch
<1>9. CASE Tick
  BY <1>9 DEF Tick, Capped, Watch
<1>10. ASSUME NEW p \in Process, Stall(p) PROVE RefusedOnlyByTheLiving'
  BY <1>10 DEF Stall, Watch
<1>11. ASSUME NEW p \in Process, Resume(p) PROVE RefusedOnlyByTheLiving'
  BY <1>11 DEF Resume, Watch
<1>12. ASSUME NEW p \in Process, Crash(p) PROVE RefusedOnlyByTheLiving'
  BY <1>12 DEF Crash, Watch
<1> QED
  BY <1>0, <1>1, <1>2, <1>3, <1>4, <1>5, <1>6, <1>7, <1>8, <1>9, <1>10, <1>11, <1>12
     DEF Next, Step

LEMMA LockInvStep == LockInv /\ [Next]_vars => LockInv'
  BY TypedStep, InsideStep, FreshWaitStep, NoStrandedStep, OneAgeStep, OutwaitedStep, RefusedStep
     DEF LockInv

LEMMA LockInvAlways == Spec => []LockInv
  BY InitLock, LockInvStep, PTL DEF Spec

-----------------------------------------------------------------------------
(* The permit *)

Waiting == {"line", "try", "in", "nested"}
Past    == {"try", "in", "nested"}
Places  == Waiting \cup {"idle", "refused"}

\* Nobody stands twice in a line.
Once(q) == \A i, j \in 1..Len(q) : q[i] = q[j] => i = j

\* A line holds store writes of its own process that have not ended, each once.
InLine(p) ==
    /\ Once(line[p])
    /\ \A i \in 1..Len(line[p]) : ProcessOf[line[p][i]] = p /\ pc[line[p][i]] \in Waiting

\* Whoever has gone on to the lock is at the head of its line.
Turns ==
    /\ line \in [Process -> Seq(Store)]
    /\ \A p \in Process : InLine(p)
    /\ \A f \in Store : pc[f] \in Past => HasPermit(f)

\* Leaving a line in which one stands at most once takes out that place, and only it.
LEMMA FirstPlace ==
    ASSUME NEW S, NEW q \in Seq(S), NEW i \in 1..Len(q),
           \A a, b \in 1..Len(q) : q[a] = q[b] => a = b
    PROVE  RemoveFirst(q, q[i]) = RemoveAt(q, i)
<1>1. {a \in 1..Len(q) : q[a] = q[i]} = {i}
  OBVIOUS
<1>2. Min({i}) = i
  BY DEF Min
<1>3. SelectInSeq(q, LAMBDA v : v = q[i]) = i
  BY <1>1, <1>2 DEF SelectInSeq
<1> QED
  BY <1>3 DEF RemoveFirst

\* Behind that place everyone moves up by one.
LEMMA MoveUp ==
    ASSUME NEW S, NEW q \in Seq(S), NEW i \in 1..Len(q)
    PROVE  /\ RemoveAt(q, i) \in Seq(S)
           /\ Len(RemoveAt(q, i)) = Len(q) - 1
           /\ \A j \in 1..(Len(q) - 1) :
                RemoveAt(q, i)[j] = IF j < i THEN q[j] ELSE q[j + 1]
<1> DEFINE before == SubSeq(q, 1, i - 1)
           behind == SubSeq(q, i + 1, Len(q))
<1>1. /\ before \in Seq(S) /\ Len(before) = i - 1
      /\ \A j \in 1..(i - 1) : before[j] = q[j]
  OBVIOUS
<1>2. /\ behind \in Seq(S) /\ Len(behind) = Len(q) - i
      /\ \A j \in 1..(Len(q) - i) : behind[j] = q[i + j]
  OBVIOUS
<1>3. RemoveAt(q, i) = before \o behind
  BY DEF RemoveAt
<1> HIDE DEF before, behind
<1>4. before \o behind \in Seq(S) /\ Len(before \o behind) = Len(q) - 1
  <2>1. Len(q) \in Nat /\ i \in Nat /\ (i - 1) + (Len(q) - i) = Len(q) - 1
    OBVIOUS
  <2>0. before \in Seq(S) /\ behind \in Seq(S)
    BY <1>1, <1>2
  <2>2. before \o behind \in Seq(S)
    BY <2>0
  <2>3. Len(before \o behind) = Len(before) + Len(behind)
    BY <2>0
  <2> QED
    BY <1>1, <1>2, <2>1, <2>2, <2>3
<1>5. ASSUME NEW j \in 1..(Len(q) - 1)
      PROVE  (before \o behind)[j] = IF j < i THEN q[j] ELSE q[j + 1]
  <2>1. CASE j < i
    BY <2>1, <1>1, <1>2
  <2>2. CASE ~(j < i)
    <3>1. j - (i - 1) \in 1..(Len(q) - i) /\ i + (j - (i - 1)) = j + 1
      BY <2>2
    <3>2. (before \o behind)[j] = behind[j - (i - 1)]
      BY <2>2, <1>1, <1>2
    <3> QED
      BY <3>1, <3>2, <2>2, <1>2
  <2> QED
    BY <2>1, <2>2
<1> QED
  BY <1>3, <1>4, <1>5

\* One who leaves a line is no longer in it; the others are, each once, and the
\* head stays the head unless it is the head that leaves.
LEMMA Leaving ==
    ASSUME NEW S, NEW q \in Seq(S), Once(q), NEW f, NEW r, r = RemoveFirst(q, f)
    PROVE  /\ r \in Seq(S)
           /\ Once(r)
           /\ \A j \in 1..Len(r) : r[j] # f /\ \E i \in 1..Len(q) : r[j] = q[i]
           /\ q # <<>> /\ Head(q) # f => r # <<>> /\ Head(r) = Head(q)
<1>1. CASE \A i \in 1..Len(q) : q[i] # f
  <2>1. r = q
    BY <1>1 DEF RemoveFirst
  <2> QED
    BY <1>1, <2>1
<1>2. ASSUME NEW i \in 1..Len(q), q[i] = f
      PROVE  /\ r \in Seq(S)
             /\ Once(r)
             /\ \A j \in 1..Len(r) : r[j] # f /\ \E k \in 1..Len(q) : r[j] = q[k]
             /\ q # <<>> /\ Head(q) # f => r # <<>> /\ Head(r) = Head(q)
  <2>1. r = RemoveAt(q, i)
    BY <1>2, FirstPlace DEF Once
  <2>2. /\ r \in Seq(S)
        /\ Len(r) = Len(q) - 1
        /\ \A j \in 1..(Len(q) - 1) : r[j] = IF j < i THEN q[j] ELSE q[j + 1]
    BY <2>1, MoveUp
  <2>3. Len(q) \in Nat /\ i \in Nat
    OBVIOUS
  <2>4. ASSUME NEW j \in 1..Len(r)
        PROVE  \E k \in 1..Len(q) : k # i /\ r[j] = q[k] /\ k = IF j < i THEN j ELSE j + 1
    BY <2>2, <2>3, <2>4
  <2>5. Once(r)
    <3> SUFFICES ASSUME NEW a \in 1..Len(r), NEW b \in 1..Len(r), r[a] = r[b]
                 PROVE  a = b
      BY DEF Once
    <3>1. PICK k \in 1..Len(q) : r[a] = q[k] /\ k = IF a < i THEN a ELSE a + 1
      BY <2>4
    <3>2. PICK l \in 1..Len(q) : r[b] = q[l] /\ l = IF b < i THEN b ELSE b + 1
      BY <2>4
    <3>3. k = l
      BY <3>1, <3>2 DEF Once
    <3> QED
      BY <3>1, <3>2, <3>3, <2>2, <2>3
  <2>6. \A j \in 1..Len(r) : r[j] # f /\ \E k \in 1..Len(q) : r[j] = q[k]
    BY <1>2, <2>4 DEF Once
  <2>7. q # <<>> /\ Head(q) # f => r # <<>> /\ Head(r) = Head(q)
    <3> SUFFICES ASSUME q # <<>>, Head(q) # f
                 PROVE  r # <<>> /\ Head(r) = Head(q)
      OBVIOUS
    <3>1. Head(q) = q[1]
      OBVIOUS
    <3>2. 1 < i /\ 1 \in 1..(Len(q) - 1)
      BY <1>2, <2>3, <3>1
    <3>3. r[1] = q[1] /\ Len(r) # 0
      BY <2>2, <2>3, <3>2
    <3> QED
      BY <2>2, <3>1, <3>3
  <2> QED
    BY <2>2, <2>5, <2>6, <2>7
<1> QED
  BY <1>1, <1>2

\* A step that leaves the lines alone keeps the turns if nobody ends, and whoever
\* goes on to the lock has the permit.
LEMMA SameLines ==
    ASSUME Turns, line' = line,
           \A f \in Store : pc[f] \in Waiting => pc'[f] \in Waiting,
           \A f \in Store : pc'[f] \in Past => pc[f] \in Past \/ HasPermit(f)
    PROVE  Turns'
<1>1. ASSUME NEW p \in Process PROVE InLine(p)'
  <2>1. \A i \in 1..Len(line[p]) : line[p][i] \in Store
    BY DEF Turns
  <2> QED
    BY <2>1 DEF Turns, InLine, Once
<1>2. \A f \in Store : pc'[f] \in Past => HasPermit(f)'
  BY DEF Turns, HasPermit
<1> QED
  BY <1>1, <1>2 DEF Turns

\* A call that ends leaves its line.
LEMMA EndTurn ==
    ASSUME LockInv, Turns, NEW f \in Fiber, LeaveLine(f),
           NEW x \in {"idle", "refused"}, pc' = [pc EXCEPT ![f] = x]
    PROVE  Turns'
<1> USE LockAssumption DEF LockAssumption
<1> DEFINE P == ProcessOf[f]
<1>0. P \in Process /\ line \in [Process -> Seq(Store)] /\ pc \in [Fiber -> Places]
  BY DEF Places, Waiting, Turns, LockInv, Typed
<1>1. /\ line' = [line EXCEPT ![P] = RemoveFirst(line[P], f)]
      /\ line'[P] = RemoveFirst(line[P], f)
      /\ \A p \in Process : p # P => line'[p] = line[p]
  BY <1>0 DEF LeaveLine
<1>2. line[P] \in Seq(Store) /\ Once(line[P])
  BY <1>0 DEF Turns, InLine
<1>3. /\ line'[P] \in Seq(Store)
      /\ Once(line'[P])
      /\ \A j \in 1..Len(line'[P]) :
           line'[P][j] # f /\ \E i \in 1..Len(line[P]) : line'[P][j] = line[P][i]
      /\ line[P] # <<>> /\ Head(line[P]) # f
           => line'[P] # <<>> /\ Head(line'[P]) = Head(line[P])
  BY <1>1, <1>2, Leaving
<1>4. \A g \in Fiber : g # f => pc'[g] = pc[g]
  BY <1>0
<1>5. line' \in [Process -> Seq(Store)]
  BY <1>0, <1>1, <1>3
<1>6. ASSUME NEW p \in Process PROVE InLine(p)'
  <2>1. CASE p = P
    <3> SUFFICES ASSUME NEW j \in 1..Len(line'[P])
                 PROVE  ProcessOf[line'[P][j]] = P /\ pc'[line'[P][j]] \in Waiting
      BY <1>3, <2>1 DEF InLine, Once
    <3>1. PICK i \in 1..Len(line[P]) : line'[P][j] = line[P][i]
      BY <1>3
    <3>2. line[P][i] \in Fiber /\ line[P][i] # f
      BY <1>2, <1>3, <3>1
    <3>3. ProcessOf[line[P][i]] = P /\ pc[line[P][i]] \in Waiting
      BY <1>0 DEF Turns, InLine
    <3> QED
      BY <1>4, <3>1, <3>2, <3>3
  <2>2. CASE p # P
    <3>1. line'[p] = line[p] /\ line[p] \in Seq(Store) /\ InLine(p)
      BY <1>0, <1>1, <2>2 DEF Turns
    <3>2. \A i \in 1..Len(line[p]) : line[p][i] \in Fiber /\ line[p][i] # f
      BY <3>1, <2>2 DEF InLine
    <3> QED
      BY <1>4, <3>1, <3>2 DEF InLine, Once
  <2> QED
    BY <2>1, <2>2
<1>7. ASSUME NEW g \in Store, pc'[g] \in Past PROVE HasPermit(g)'
  <2>1. g \in Fiber /\ g # f
    BY <1>0, <1>7 DEF Past
  <2>2. HasPermit(g)
    BY <1>4, <1>7, <2>1 DEF Turns
  <2>3. CASE ProcessOf[g] = P
    BY <1>3, <2>1, <2>2, <2>3 DEF HasPermit
  <2>4. CASE ProcessOf[g] # P
    BY <1>1, <2>1, <2>2, <2>4 DEF HasPermit
  <2> QED
    BY <2>3, <2>4
<1> QED
  BY <1>5, <1>6, <1>7 DEF Turns

\* A store write that calls goes to the end of its line.
LEMMA StandInLine ==
    ASSUME LockInv, Turns, NEW f \in Store, pc[f] \in {"idle", "refused"},
           Queue(f), pc' = [pc EXCEPT ![f] = "line"]
    PROVE  Turns'
<1> USE LockAssumption DEF LockAssumption
<1> DEFINE P == ProcessOf[f]
<1>0. /\ f \in Fiber /\ P \in Process
      /\ line \in [Process -> Seq(Store)] /\ pc \in [Fiber -> Places]
  BY DEF Places, Waiting, Turns, LockInv, Typed
<1>1. /\ line' = [line EXCEPT ![P] = Append(line[P], f)]
      /\ line'[P] = Append(line[P], f)
      /\ \A p \in Process : p # P => line'[p] = line[p]
  BY <1>0 DEF Queue
<1>2. line[P] \in Seq(Store) /\ InLine(P)
  BY <1>0 DEF Turns
<1>3. /\ line'[P] \in Seq(Store) /\ Len(line'[P]) = Len(line[P]) + 1
      /\ \A i \in 1..Len(line[P]) : line'[P][i] = line[P][i]
      /\ line'[P][Len(line[P]) + 1] = f
  BY <1>1, <1>2
<1>4. \A i \in 1..Len(line[P]) : line[P][i] # f
  BY <1>2 DEF InLine, Waiting
<1>5. pc'[f] = "line" /\ \A g \in Fiber : g # f => pc'[g] = pc[g]
  BY <1>0
<1>6. ASSUME NEW p \in Process PROVE InLine(p)'
  <2>1. CASE p = P
    <3>1. Len(line[P]) \in Nat
      BY <1>2
    <3>2. Once(line'[P])
      <4> SUFFICES ASSUME NEW a \in 1..Len(line'[P]), NEW b \in 1..Len(line'[P]),
                          line'[P][a] = line'[P][b]
                   PROVE  a = b
        BY DEF Once
      <4>1. CASE a \in 1..Len(line[P]) /\ b \in 1..Len(line[P])
        BY <4>1, <1>2, <1>3 DEF InLine, Once
      <4>2. CASE a \in 1..Len(line[P]) /\ b = Len(line[P]) + 1
        BY <4>2, <1>3, <1>4
      <4>3. CASE a = Len(line[P]) + 1 /\ b \in 1..Len(line[P])
        BY <4>3, <1>3, <1>4
      <4>4. CASE a = Len(line[P]) + 1 /\ b = Len(line[P]) + 1
        BY <4>4
      <4> QED
        BY <4>1, <4>2, <4>3, <4>4, <1>3, <3>1
    <3>3. ASSUME NEW j \in 1..Len(line'[P])
          PROVE  ProcessOf[line'[P][j]] = P /\ pc'[line'[P][j]] \in Waiting
      <4>1. CASE j \in 1..Len(line[P])
        <5>1. line[P][j] \in Fiber
          BY <4>1, <1>2
        <5> QED
          BY <4>1, <5>1, <1>2, <1>3, <1>4, <1>5 DEF InLine
      <4>2. CASE j = Len(line[P]) + 1
        BY <4>2, <1>3, <1>5 DEF Waiting
      <4> QED
        BY <4>1, <4>2, <1>3, <3>1
    <3> QED
      BY <2>1, <3>2, <3>3 DEF InLine, Once
  <2>2. CASE p # P
    <3>1. line'[p] = line[p] /\ line[p] \in Seq(Store) /\ InLine(p)
      BY <1>0, <1>1, <2>2 DEF Turns
    <3>2. \A i \in 1..Len(line[p]) : line[p][i] \in Fiber /\ line[p][i] # f
      BY <3>1, <2>2 DEF InLine
    <3> QED
      BY <1>5, <3>1, <3>2 DEF InLine, Once
  <2> QED
    BY <2>1, <2>2
<1>7. ASSUME NEW g \in Store, pc'[g] \in Past PROVE HasPermit(g)'
  <2>1. g \in Fiber /\ g # f
    BY <1>5, <1>7 DEF Past
  <2>2. HasPermit(g)
    BY <1>5, <1>7, <2>1 DEF Turns
  <2>3. CASE ProcessOf[g] = P
    <3>1. line[P] # <<>> /\ Head(line[P]) = g
      BY <2>2, <2>3 DEF HasPermit
    <3>2. line'[P] # <<>> /\ Head(line'[P]) = Head(line[P])
      BY <3>1, <1>1, <1>2
    <3> QED
      BY <2>3, <3>1, <3>2 DEF HasPermit
  <2>4. CASE ProcessOf[g] # P
    BY <1>1, <2>1, <2>2, <2>4 DEF HasPermit
  <2> QED
    BY <2>3, <2>4
<1>8. line' \in [Process -> Seq(Store)]
  BY <1>0, <1>1, <1>3
<1> QED
  BY <1>6, <1>7, <1>8 DEF Turns

\* A killed process's line is empty, and none of its writers is past it.
LEMMA EmptyLine ==
    ASSUME LockInv, Turns, NEW p \in Process, Crash(p)
    PROVE  Turns'
<1> USE LockAssumption DEF LockAssumption
<1>0. line \in [Process -> Seq(Store)] /\ pc \in [Fiber -> Places]
  BY DEF Places, Waiting, Turns, LockInv, Typed
<1>1. /\ line' = [line EXCEPT ![p] = <<>>]
      /\ pc' = [f \in Fiber |-> IF ProcessOf[f] = p THEN "idle" ELSE pc[f]]
  BY DEF Crash
<1>2. \A f \in Fiber : pc'[f] = IF ProcessOf[f] = p THEN "idle" ELSE pc[f]
  BY <1>1
<1>3. line' \in [Process -> Seq(Store)]
  BY <1>0, <1>1
<1>4. ASSUME NEW o \in Process PROVE InLine(o)'
  <2>1. CASE o = p
    <3>1. line'[o] = <<>>
      BY <1>0, <1>1, <2>1
    <3> QED
      BY <3>1 DEF InLine, Once
  <2>2. CASE o # p
    <3>1. line'[o] = line[o] /\ line[o] \in Seq(Store) /\ InLine(o)
      BY <1>0, <1>1, <2>2 DEF Turns
    <3>2. \A i \in 1..Len(line[o]) : line[o][i] \in Fiber /\ ProcessOf[line[o][i]] # p
      BY <3>1, <2>2 DEF InLine
    <3> QED
      BY <1>2, <3>1, <3>2 DEF InLine, Once
  <2> QED
    BY <2>1, <2>2
<1>5. ASSUME NEW g \in Store, pc'[g] \in Past PROVE HasPermit(g)'
  <2>1. g \in Fiber /\ ProcessOf[g] # p /\ ProcessOf[g] \in Process
    BY <1>2, <1>5 DEF Past
  <2>2. HasPermit(g)
    BY <1>2, <1>5, <2>1 DEF Turns
  <2> QED
    BY <1>0, <1>1, <2>1, <2>2 DEF HasPermit
<1> QED
  BY <1>3, <1>4, <1>5 DEF Turns

LEMMA InitTurns == Init => Turns
<1> SUFFICES ASSUME Init PROVE Turns
  OBVIOUS
<1>1. line \in [Process -> Seq(Store)] /\ \A p \in Process : line[p] = <<>>
  BY DEF Init
<1>2. \A f \in Store : pc[f] = "idle"
  BY LockAssumption DEF LockAssumption, Init
<1> QED
  BY <1>1, <1>2 DEF Turns, InLine, Once, Past

\* Every step keeps the turns.
LEMMA TurnsStep == LockInv /\ Turns /\ [Next]_vars => Turns'
<1> SUFFICES ASSUME LockInv, Turns, [Next]_vars PROVE Turns'
  OBVIOUS
<1> USE LockAssumption DEF LockAssumption
<1>a. pc \in [Fiber -> Places]
  BY DEF Places, Waiting, LockInv, Typed
<1>0. CASE UNCHANGED vars
  BY <1>0, SameLines DEF vars
<1>1. ASSUME NEW f \in Fiber, Call(f) PROVE Turns'
  <2>1. CASE f \in Store
    BY <1>1, <2>1, StandInLine DEF Call
  <2>2. CASE f \notin Store
    <3>1. line' = line /\ \A g \in Store : pc'[g] = pc[g]
      BY <1>1, <1>a, <2>2 DEF Call, FirstAttempt
    <3> QED
      BY <3>1, SameLines
  <2> QED
    BY <2>1, <2>2
<1>2. ASSUME NEW f \in Fiber, Permit(f) PROVE Turns'
  <2>1. line' = line /\ pc' = [pc EXCEPT ![f] = "try"] /\ HasPermit(f)
    BY <1>2 DEF Permit, FirstAttempt
  <2> QED
    BY <1>a, <2>1, SameLines DEF Waiting
<1>3. ASSUME NEW f \in Fiber, Attempt(f) PROVE Turns'
  <2>1. CASE Take(f)
    <3>1. line' = line /\ pc' = [pc EXCEPT ![f] = "in"] /\ pc[f] = "try"
      BY <1>3, <2>1 DEF Attempt, Due, Take
    <3> QED
      BY <1>a, <3>1, SameLines DEF Waiting, Past
  <2>2. CASE Pause(f)
    BY <2>2, SameLines DEF Pause
  <2>3. CASE Refuse(f)
    BY <2>3, EndTurn DEF Refuse
  <2> QED
    BY <1>3, <2>1, <2>2, <2>3 DEF Attempt
<1>4. ASSUME NEW f \in Fiber, GiveUp(f) PROVE Turns'
  BY <1>4, EndTurn DEF GiveUp
<1>5. ASSUME NEW f \in Fiber, Nest(f) PROVE Turns'
  <2>1. /\ line' = line /\ pc[f] = "in"
        /\ \E x \in {"nested", "try"} : pc' = [pc EXCEPT ![f] = x]
    BY <1>5 DEF Nest, FirstAttempt
  <2> QED
    BY <1>a, <2>1, SameLines DEF Waiting, Past
<1>6. ASSUME NEW f \in Fiber, Return(f) PROVE Turns'
  <2>1. line' = line /\ pc[f] = "nested" /\ pc' = [pc EXCEPT ![f] = "in"]
    BY <1>6 DEF Return
  <2> QED
    BY <1>a, <2>1, SameLines DEF Waiting, Past
<1>7. ASSUME NEW f \in Fiber, Refresh(f) PROVE Turns'
  BY <1>7, SameLines DEF Refresh
<1>8. ASSUME NEW f \in Fiber, Exit(f) PROVE Turns'
  BY <1>8, EndTurn DEF Exit
<1>9. CASE Tick
  BY <1>9, SameLines DEF Tick
<1>10. ASSUME NEW p \in Process, Stall(p) PROVE Turns'
  BY <1>10, SameLines DEF Stall
<1>11. ASSUME NEW p \in Process, Resume(p) PROVE Turns'
  BY <1>11, SameLines DEF Resume
<1>12. ASSUME NEW p \in Process, Crash(p) PROVE Turns'
  BY <1>12, EmptyLine
<1> QED
  BY <1>0, <1>1, <1>2, <1>3, <1>4, <1>5, <1>6, <1>7, <1>8, <1>9, <1>10, <1>11, <1>12
     DEF Next, Step

LEMMA TurnsAlways == Spec => [](LockInv /\ Turns)
  BY InitLock, LockInvStep, InitTurns, TurnsStep, PTL DEF Spec

-----------------------------------------------------------------------------
\* The lock's state has its types, the lines of the permit included: one who leaves
\* is taken out of the line, whatever ended its call (store.ts 1466-1471).
THEOREM LockTypes == Spec => []LockTypeOK
<1>1. LockInv /\ Turns => LockTypeOK
  BY DEF LockInv, Turns, LockTypeOK
<1> QED
  BY <1>1, TurnsAlways, PTL

\* Never two writers inside at once, in one process or in two, while no holder
\* stays longer than Stale without a refresh (checkout-lock.ts 6-24); and, stalls
\* and stolen locks or not, never two store writes of one process (store.ts
\* 1445-1448).
THEOREM NeverTwoInside == Spec => []MutualExclusion
<1>1. LockInv /\ Turns => MutualExclusion
  <2> SUFFICES ASSUME LockInv, Turns, NEW f \in held, NEW g \in held, f # g
               PROVE  late /\ ~SharePermit(f, g)
    BY DEF MutualExclusion
  <2>1. late
    BY Zenon DEF LockInv, OneAge
  <2>2. f \in Fiber /\ g \in Fiber /\ pc[f] \in Past /\ pc[g] \in Past
    BY DEF LockInv, Typed, Inside, Past
  <2>3. SharePermit(f, g) => HasPermit(f) /\ HasPermit(g)
    BY <2>2 DEF Turns, SharePermit
  <2>4. ~SharePermit(f, g)
    BY <2>3 DEF SharePermit, HasPermit
  <2> QED
    BY <2>1, <2>4
<1> QED
  BY <1>1, TurnsAlways, PTL

\* Whatever ends a call, it leaves no lock directory of its own behind
\* (checkout-lock.ts 121).
THEOREM ExitsRelease == Spec => []NoStrandedLock
<1>1. LockInv => NoStrandedLock
  BY DEF LockInv
<1> QED
  BY <1>1, LockInvAlways, PTL

\* A refused writer waited on a living one: the wait outlasts any lock left by a
\* killed or stalled holder, because Wait > Stale (checkout-lock.ts 48-53).
THEOREM WaitOutlastsTheDead == Spec => []RefusedOnlyByTheLiving
<1>1. LockInv => RefusedOnlyByTheLiving
  BY DEF LockInv
<1> QED
  BY <1>1, LockInvAlways, PTL
=============================================================================
