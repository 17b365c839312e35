---------------------------- MODULE CheckoutLock ----------------------------
(***************************************************************************)
(* The checkout lock: one directory, .memhtml/checkout.lock, that every    *)
(* writer of the shared git index holds, and the store's in-process permit *)
(* taken before it.                                                        *)
(*                                                                         *)
(*   packages/contracts/src/checkout-lock.ts   withCheckoutLockUsing       *)
(*   packages/store/src/store.ts               exclusive: permit, then lock *)
(*   packages/store/src/git.ts                 commit: re-enters the lock  *)
(*                                                                         *)
(* Time is discrete.  A tick does not pass while a process whose event     *)
(* loop runs has an attempt or a refresh due; it passes freely while a     *)
(* process is stalled.                                                     *)
(*                                                                         *)
(* The directory itself is the library proper-lockfile's: an atomic mkdir, *)
(* an mtime its holder refreshes, and a removal by whoever finds the mtime *)
(* too old.  The library's judging an mtime and replacing the directory is *)
(* one step here.  Only the mtime is on disk: the owner a state names is   *)
(* the writer whose mtime that is.                                         *)
(***************************************************************************)
EXTENDS Naturals, FiniteSets, SequencesExt

CONSTANTS
    Fiber,      \* calls that change the shared index
    Process,    \* processes they run in
    ProcessOf,  \* the process of each fiber
    Store,      \* fibers that go through the store's permit; the others lock directly
    Stale,      \* CHECKOUT_LOCK_STALE_MS
    Update,     \* CHECKOUT_LOCK_UPDATE_MS
    Wait,       \* CHECKOUT_LOCK_WAIT_MS
    MaxPause,   \* CHECKOUT_LOCK_MAX_PAUSE_MS
    MaxStalls,  \* bound: stalls of an event loop
    MaxCrashes, \* bound: processes killed
    None,       \* no lock directory
    Orphan      \* a lock directory whose writer was killed

ASSUME LockAssumption ==
    /\ ProcessOf \in [Fiber -> Process]
    /\ Store \subseteq Fiber
    /\ Update \in Nat \ {0} /\ Stale \in Nat /\ Wait \in Nat
    /\ MaxPause \in Nat \ {0}
    /\ Update < Stale /\ Stale < Wait
    /\ MaxStalls \in Nat /\ MaxCrashes \in Nat
    /\ None \notin Fiber /\ Orphan \notin Fiber /\ None # Orphan

VARIABLES
    owner,    \* whose lock directory is on disk
    age,      \* how long ago its mtime was set
    line,     \* each process's permit: its holder, then those queueing for it
    pc,       \* where each fiber is
    held,     \* fibers that run their effect with a release registered
    since,    \* how long ago each of them last set an mtime
    lost,     \* fibers told their lock was compromised
    pause,    \* ticks until a waiting fiber's next attempt
    waited,   \* ticks since its first attempt
    stalled,  \* processes whose event loop does not run
    stalls, crashes,  \* bounds: how often each failure has happened
    late,     \* history: some fiber held longer than Stale without a refresh
    met       \* history: fibers in whose wait another's event loop held the lock, running

timeVars == <<age, since, pause, waited>>
envVars  == <<stalled, stalls, crashes>>
lockVars == <<owner, held, lost>>
vars == <<lockVars, timeVars, envVars, line, pc, late, met>>

Typed ==
    /\ owner \in Fiber \cup {None, Orphan}
    /\ age \in 0..(Stale + 1)
    /\ pc \in [Fiber -> {"idle", "line", "try", "in", "nested", "refused"}]
    /\ held \subseteq Fiber
    /\ since \in [Fiber -> 0..(Stale + 1)]
    /\ lost \subseteq held
    /\ pause \in [Fiber -> 0..MaxPause]
    /\ waited \in [Fiber -> 0..Wait]
    /\ stalled \subseteq Process
    /\ stalls \in 0..MaxStalls
    /\ crashes \in 0..MaxCrashes
    /\ late \in BOOLEAN
    /\ met \subseteq Fiber

\* The lock's state has its types, and only store writes queue for a permit.
LockTypeOK == Typed /\ line \in [Process -> Seq(Store)]

Init ==
    /\ owner = None /\ age = 0
    /\ line = [p \in Process |-> <<>>]
    /\ pc = [f \in Fiber |-> "idle"]
    /\ held = {} /\ lost = {} /\ late = FALSE /\ met = {}
    /\ since = [f \in Fiber |-> 0]
    /\ pause = [f \in Fiber |-> 0]
    /\ waited = [f \in Fiber |-> 0]
    /\ stalled = {} /\ stalls = 0 /\ crashes = 0

Running(f) == ProcessOf[f] \notin stalled

-----------------------------------------------------------------------------
\* Whether a fiber other than f holds the directory and its event loop runs.
LiveOwnerBesides(f) == owner \in Fiber \ {f} /\ Running(owner)

\* History: noted for every fiber that waits, in each state of its wait.
Watch == met' = {f \in Fiber : pc'[f] \in {"try", "refused"} /\
                               (\/ f \in met /\ (pc[f] = "try" \/ pc'[f] = "refused")
                                \/ pc[f] = "try" /\ LiveOwnerBesides(f)
                                \/ pc'[f] = "try" /\ LiveOwnerBesides(f)')}

-----------------------------------------------------------------------------
(* The store's permit, Effect's Semaphore(1): the head of the line has it. *)

Queue(f)  == line' = [line EXCEPT ![ProcessOf[f]] = Append(@, f)]
TwoPermits(f) ==   \* mutant: a semaphore of two
    LET q == line[ProcessOf[f]] IN \E i \in DOMAIN q : i <= 2 /\ q[i] = f
HasPermit(f) == line[ProcessOf[f]] # <<>> /\ Head(line[ProcessOf[f]]) = f

\* Every way out of a call gives the permit up, or the place in its line.
LeaveIfHeld(f) ==   \* mutant: the permit is given up only once the effect has run
    line' = [line EXCEPT ![ProcessOf[f]] =
               IF f \in held THEN RemoveFirst(@, f) ELSE @]
LeaveLine(f) ==
    line' = [line EXCEPT ![ProcessOf[f]] = RemoveFirst(@, f)]

\* The lock is tried at once; the wait's budget starts with it.
FirstAttempt(f) ==
    pc' = [pc EXCEPT ![f] = "try"] /\ UNCHANGED <<pause, waited>>

\* A wait is over: its schedule is gone.
EndWait(f) ==
    pause' = [pause EXCEPT ![f] = 0] /\ waited' = [waited EXCEPT ![f] = 0]

\* A call of a store write, or of a command that locks the checkout itself.
Call(f) ==
    /\ Running(f)
    /\ pc[f] \in {"idle", "refused"}
    /\ \/ /\ f \in Store
          /\ Queue(f)
          /\ pc' = [pc EXCEPT ![f] = "line"]
          /\ UNCHANGED <<pause, waited>>
       \/ /\ f \notin Store
          /\ FirstAttempt(f)
          /\ UNCHANGED line
    /\ UNCHANGED <<lockVars, envVars, age, since, late>>
    /\ Watch

Permit(f) ==
    /\ Running(f)
    /\ pc[f] = "line"
    /\ HasPermit(f)
    /\ FirstAttempt(f)
    /\ UNCHANGED <<lockVars, envVars, line, age, since, late>>
    /\ Watch

-----------------------------------------------------------------------------
(* Attempts *)

IsUnrefreshed == age >= Update   \* mutant: stale as soon as a refresh is due
IsStale == age > Stale
Takeable == owner = None \/ IsStale

ShortWait(f) == waited[f] >= Stale   \* mutant: a wait no longer than the stale time
OutOfTime(f) == waited[f] >= Wait

\* The mkdir that succeeds, after removing a stale directory; the release is
\* registered in the same step.
Take(f) ==
    /\ Takeable
    /\ owner' = f /\ age' = 0
    /\ since' = [since EXCEPT ![f] = 0]
    /\ held' = held \cup {f}
    /\ pc' = [pc EXCEPT ![f] = "in"]
    /\ EndWait(f)
    /\ UNCHANGED <<lost, line>>

UncappedPauses == 1..(2 * MaxPause)   \* mutant: the doubling pause has no cap
Pauses == 1..MaxPause

\* ELOCKED within the budget: pause, between the first and the longest pause.
Pause(f) ==
    /\ ~Takeable
    /\ ~OutOfTime(f)
    /\ \E d \in Pauses : pause' = [pause EXCEPT ![f] = d]
    /\ UNCHANGED <<lockVars, line, age, since, pc, waited>>

\* ELOCKED with the budget spent: fail with checkout.locked.
Refuse(f) ==
    /\ ~Takeable
    /\ OutOfTime(f)
    /\ pc' = [pc EXCEPT ![f] = "refused"]
    /\ LeaveLine(f) /\ EndWait(f)
    /\ UNCHANGED <<lockVars, age, since>>

Due(f) == pc[f] = "try" /\ pause[f] = 0

Attempt(f) ==
    /\ Running(f)
    /\ Due(f)
    /\ Take(f) \/ Pause(f) \/ Refuse(f)
    /\ UNCHANGED <<envVars, late>>
    /\ Watch

\* An interrupt between two attempts, or in the permit's line; or an attempt that
\* failed for another reason than ELOCKED (checkout.lock), which is not retried.
GiveUp(f) ==
    /\ Running(f)
    /\ pc[f] \in {"line", "try"}
    /\ pc' = [pc EXCEPT ![f] = "idle"]
    /\ LeaveLine(f) /\ EndWait(f)
    /\ UNCHANGED <<lockVars, age, since, envVars, late>>
    /\ Watch

-----------------------------------------------------------------------------
(* Holding *)

\* A nested call (git.commit inside a store write) of a target this fiber holds
\* runs its effect; one that it does not hold starts an attempt.
NotReentrant(f) == FALSE   \* mutant: a nested call takes the lock again
Reentrant(f) == f \in held

Nest(f) ==
    /\ Running(f)
    /\ pc[f] = "in"
    /\ IF Reentrant(f)
       THEN /\ pc' = [pc EXCEPT ![f] = "nested"]
            /\ UNCHANGED <<pause, waited>>
       ELSE FirstAttempt(f)
    /\ UNCHANGED <<lockVars, envVars, line, age, since, late>>
    /\ Watch

Return(f) ==
    /\ Running(f)
    /\ pc[f] = "nested"
    /\ pc' = [pc EXCEPT ![f] = "in"]
    /\ UNCHANGED <<lockVars, timeVars, envVars, line, late>>
    /\ Watch

RefreshDue(f) == f \in held \ lost /\ since[f] >= Update

\* The library's timer: a directory that is not this holder's, or gone, means
\* the lock was compromised; otherwise its mtime is set to now.
Refresh(f) ==
    /\ Running(f)
    /\ RefreshDue(f)
    /\ IF owner = f
       THEN /\ age' = 0
            /\ since' = [since EXCEPT ![f] = 0]
            /\ UNCHANGED lost
       ELSE /\ lost' = lost \cup {f}
            /\ since' = [since EXCEPT ![f] = 0]
            /\ UNCHANGED age
    /\ UNCHANGED <<owner, held, envVars, line, pc, pause, waited, late>>
    /\ Watch

\* The effect ends, by success, failure, defect or interrupt, and the release
\* runs.  It removes the directory without asking whose it is, unless this
\* holder was told that its lock is compromised.
KeptWhenNested(f) ==   \* mutant: an exit from within a nested call skips the release
    IF f \in lost \/ pc[f] = "nested" THEN owner ELSE None
Released(f) == IF f \in lost THEN owner ELSE None

Exit(f) ==
    /\ Running(f)
    /\ pc[f] \in {"in", "nested"}
    /\ owner' = Released(f)
    /\ age' = IF owner' = None THEN 0 ELSE age
    /\ held' = held \ {f}
    /\ lost' = lost \ {f}
    /\ since' = [since EXCEPT ![f] = 0]
    /\ pc' = [pc EXCEPT ![f] = "idle"]
    /\ LeaveLine(f)
    /\ UNCHANGED <<pause, waited, envVars, late>>
    /\ Watch

-----------------------------------------------------------------------------
(* Time and failures *)

Capped(n, cap) == IF n < cap THEN n + 1 ELSE n

Tick ==
    /\ \A f \in Fiber : Running(f) => ~Due(f) /\ ~RefreshDue(f)
    /\ age' = IF owner = None THEN age ELSE Capped(age, Stale + 1)
    /\ since' = [f \in Fiber |-> IF f \in held \ lost THEN Capped(since[f], Stale + 1)
                                                      ELSE since[f]]
    /\ late' = (late \/ \E f \in held \ lost : since'[f] > Stale)
    /\ pause' = [f \in Fiber |-> IF pc[f] = "try" /\ pause[f] > 0 THEN pause[f] - 1 ELSE pause[f]]
    /\ waited' = [f \in Fiber |-> IF pc[f] = "try" THEN Capped(waited[f], Wait) ELSE waited[f]]
    /\ UNCHANGED <<lockVars, envVars, line, pc>>
    /\ Watch

Stall(p) ==
    /\ stalls < MaxStalls /\ p \notin stalled
    /\ stalled' = stalled \cup {p} /\ stalls' = stalls + 1
    /\ UNCHANGED <<lockVars, timeVars, crashes, line, pc, late>>
    /\ Watch

Resume(p) ==
    /\ p \in stalled
    /\ stalled' = stalled \ {p}
    /\ UNCHANGED <<lockVars, timeVars, stalls, crashes, line, pc, late>>
    /\ Watch

\* A kill leaves the lock directory behind, with nobody to refresh it.  The
\* fibers are then those of the process that is started in its place.
Crash(p) ==
    LET gone == {f \in Fiber : ProcessOf[f] = p}
    IN  /\ crashes < MaxCrashes
        /\ crashes' = crashes + 1
        /\ owner' = IF owner \in gone THEN Orphan ELSE owner
        /\ held' = held \ gone
        /\ lost' = lost \ gone
        /\ pc' = [f \in Fiber |-> IF f \in gone THEN "idle" ELSE pc[f]]
        /\ line' = [line EXCEPT ![p] = <<>>]
        /\ since' = [f \in Fiber |-> IF f \in gone THEN 0 ELSE since[f]]
        /\ pause' = [f \in Fiber |-> IF f \in gone THEN 0 ELSE pause[f]]
        /\ waited' = [f \in Fiber |-> IF f \in gone THEN 0 ELSE waited[f]]
        /\ stalled' = stalled \ {p}
        /\ UNCHANGED <<age, stalls, late>>
        /\ Watch

-----------------------------------------------------------------------------
Step(f) == Call(f) \/ Permit(f) \/ Attempt(f) \/ GiveUp(f) \/ Nest(f) \/ Return(f)
           \/ Refresh(f) \/ Exit(f)

Next == \/ \E f \in Fiber : Step(f)
        \/ Tick
        \/ \E p \in Process : Stall(p) \/ Resume(p) \/ Crash(p)

Spec == Init /\ [][Next]_vars

\* An event loop that runs gets to each timer and each effect ends (git commands
\* end); time passes; a stalled event loop runs again.  Nobody has to call, give
\* up or re-enter.
Fairness ==
    /\ \A f \in Fiber : WF_vars(Permit(f) \/ Attempt(f))
    /\ \A f \in Fiber : WF_vars(Refresh(f))
    /\ \A f \in Fiber : WF_vars(Exit(f))
    /\ SF_vars(Tick)
    /\ \A p \in Process : WF_vars(Resume(p))

FairSpec == Spec /\ Fairness

-----------------------------------------------------------------------------
(* Properties *)

SharePermit(f, g) == {f, g} \subseteq Store /\ ProcessOf[f] = ProcessOf[g]

\* The lock's promise (checkout-lock.ts 6-24): two writers are never inside at
\* once, in one process or in two, unless some holder's event loop has stalled for
\* longer than Stale.  A kill at any moment does not break it.  Not even then are
\* two store writes of one process (store.ts 1445-1448): the permit has no clock.
MutualExclusion ==
    \A f, g \in held : f # g => late /\ ~SharePermit(f, g)

\* Lines 48-53: a writer is refused only if, during its wait, another writer
\* held the lock with its event loop running.  A lock left by a killed holder,
\* one its holder stopped refreshing, and the caller's own never refuse it.
RefusedOnlyByTheLiving ==
    \A f \in Fiber : pc[f] = "refused" => f \in met

\* Every exit releases (success, failure, defect, interrupt: line 121): a lock
\* directory on disk is that of a fiber still inside, or of a killed process.
NoStrandedLock ==
    owner \in held \cup {None, Orphan}

\* A waiting writer ends: it comes to hold the lock, is refused, or gives up,
\* whoever dies or stalls, and so does every writer queued for the permit.
EveryWaitEnds ==
    \A f \in Fiber : pc[f] # "idle" ~> pc[f] \in {"idle", "refused"}
=============================================================================
