------------------------- MODULE SessionCommitRefines -------------------------
(***************************************************************************)
(* SessionCommit implements SessionLedger, for every number of processes,  *)
(* sessions, files and refs, while no process is so slow that a lock it    *)
(* still uses is judged stale ("stall"), nobody commits or stages by hand  *)
(* ("user") and git answers whether a commit landed ("blind").             *)
(*                                                                         *)
(* The invariant adds to those of SessionCommitProofs what the history of  *)
(* a commit is: trees grow along it, bases come from refs, a session's     *)
(* commit is on its ref or nobody has anything to do with it, and the log  *)
(* names the commit a process lands or a put settles.                      *)
(***************************************************************************)
EXTENDS SessionCommitProofs

\* A commit's tree holds what its ancestors' trees hold.
Monotone == \A c \in Made(next) : \A d \in commits[c].anc : commits[d].tree \subseteq commits[c].tree

LEMMA MonotoneCommit ==
    ASSUME Typed, Fit, Keeps, Monotone, NEW b \in Made(next), NEW tree, NEW ops, NEW by,
           NewCommit(b, tree, ops, by), commits[b].tree \subseteq tree
    PROVE  Monotone'
<1>1. next \in CommitId /\ Made(next') = Made(next) \cup {next} /\ next \notin Made(next)
  BY SessionAssumption DEF NewCommit, Typed, TypeOK, CommitId, Made
<1>2. commits'[next].anc = commits[b].anc \cup {next} /\ commits'[next].tree = tree
  BY <1>1 DEF NewCommit, Typed, TypeOK
<1>3. \A c \in Made(next) : commits'[c] = commits[c] /\ commits[c].anc \subseteq Made(next)
  BY DEF Keeps, Fit, CommitFits
<1>4. ASSUME NEW c \in Made(next), NEW d \in commits[c].anc
      PROVE  commits'[d].tree \subseteq commits'[c].tree
  BY <1>3 DEF Monotone
<1>5. ASSUME NEW d \in commits'[next].anc PROVE commits'[d].tree \subseteq tree
  BY <1>2, <1>3 DEF Monotone
<1>. QED BY <1>1, <1>2, <1>3, <1>4, <1>5 DEF Monotone

LEMMA MonotoneStep == ASSUME Typed, Fit, NoStagedDeletion, Monotone, [Next]_vars PROVE Monotone'
<1>0. Keeps
  BY KeepsStep
<1>1. CASE UNCHANGED <<commits, next>>
  BY <1>1 DEF Monotone
<1>2. ASSUME NEW p \in Proc, Build(p) PROVE Monotone'
  <2>1. job[p].copy.base \in Made(next)
    BY <1>2, JobHere DEF Build, LogFits
  <2>. QED BY <1>0, <1>2, <2>1, MonotoneCommit DEF Build
<1>3. CASE CommitIndex
  <2>1. ref[Main] \in Made(next)
    BY SessionAssumption DEF Fit, Typed, TypeOK, CommitId
  <2>. QED BY <1>0, <1>3, <2>1, MonotoneCommit DEF CommitIndex, NoStagedDeletion, HeadTree
<1>. QED BY <1>1, <1>2, <1>3, WhoWritesGit DEF gitVars, Swap, SwapFails

\* Every base comes from a ref: the session's own, or the checked-out one while that was unborn.
Roots(s) == Reach(RefOf[s]) \cup Reach(Main)
Rooted == /\ \A s \in Session : log[s].base \in Roots(s)
          /\ \A p \in Proc : pc[p] \notin {"idle", "dead"} => job[p].copy.base \in Roots(job[p].s)

LEMMA RootsGrow == ASSUME Grows, NEW s \in Session PROVE Roots(s) \subseteq Roots(s)'
  BY SessionAssumption DEF Grows, Roots

LEMMA TipIsRoot == ASSUME Typed, Fit, NEW s \in Session PROVE TipFor(RefOf[s]) \in Roots(s)
<1>1. \A r \in Ref : ref[r] # None => ref[r] \in Reach(r)
  BY DEF Fit, CommitFits, Reach
<1>2. ref[Main] # None /\ RefOf[s] \in Ref /\ Main \in Ref
  BY SessionAssumption DEF Typed, TypeOK, CommitId
<1>. QED BY <1>1, <1>2 DEF TipFor, Roots

\* The base a process writes is the one in its hands, or the commit it found on the ref.
WritesBase(p) ==
    \/ UNCHANGED log
    \/ \E l : /\ WriteLog(p, l) /\ pc[p] \notin {"idle", "dead"}
              /\ l.base = job[p].copy.base \/ (pc[p] \in {"landed", "final"} /\ l.base = job[p].built)
\* The base in its hands is the one it had, the log's, or a tip.
HoldsBase(p) ==
    \/ pc'[p] \in {"idle", "dead"}
    \/ /\ pc[p] \notin {"idle", "dead"} /\ job'[p].s = job[p].s
       /\ job'[p].copy.base \in {job[p].copy.base, TipFor(RefOf[job[p].s])}
    \/ job'[p].s \in Session /\ job'[p].copy.base = log[job'[p].s].base

LEMMA Bases ==
    ASSUME Typed, NEW p \in Proc,
           \/ \E s \in Session, kind \in Calls : Read(p, s, kind)
           \/ Call(p)
           \/ LandTimeout(p) \/ SwapFails(p) \/ Fails(p) \/ Crash(p) \/ Respawn(p)
    PROVE  WritesBase(p) /\ HoldsBase(p)
<1>0. ASSUME NEW w, Goto(p, w) PROVE pc'[p] = w
  BY <1>0 DEF Goto, Typed, TypeOK
<1>1. ASSUME Done(p) PROVE HoldsBase(p)
  BY <1>0, <1>1 DEF Done, HoldsBase
<1>2. ASSUME UNCHANGED job, pc[p] \notin {"idle", "dead"} PROVE HoldsBase(p)
  BY <1>2 DEF HoldsBase
<1>3. CASE \E s \in Session, kind \in Calls : Read(p, s, kind)
  <2>1. PICK s \in Session, kind \in Calls : Read(p, s, kind)
    BY <1>3
  <2>2. PICK new : job' = [job EXCEPT ![p] = CallOf(s, kind, new)]
    BY <2>1, Zenon DEF Read
  <2>3. CallOf(s, kind, new).copy = log[s] /\ CallOf(s, kind, new).s = s
    BY DEF CallOf, NoJob
  <2>4. job'[p] = CallOf(s, kind, new)
    BY <2>2 DEF Typed, TypeOK
  <2>. QED BY <2>1, <2>3, <2>4 DEF Read, WritesBase, HoldsBase
<1>4. CASE Onto(p)
  <2>. DEFINE j == [job[p] EXCEPT !.copy.base = TipFor(RefOf[job[p].s])]
  <2>1. job'[p] = j /\ UNCHANGED log /\ pc[p] = "onto"
    BY <1>4 DEF Onto, Typed, TypeOK
  <2>2. j.copy.base = TipFor(RefOf[job[p].s]) /\ j.s = job[p].s
    BY TypedJob DEF Job, Log
  <2>. QED BY <2>1, <2>2 DEF WritesBase, HoldsBase
<1>5. CASE \/ TakeSession(p) \/ Settle(p) \/ Rollback(p) \/ SkipRecovery(p)
           \/ Land(p) \/ LandTimeout(p) \/ Swap(p) \/ SwapFails(p) \/ Unsync(p)
  <2>1. UNCHANGED <<job, log>> /\ pc[p] \notin {"idle", "dead"}
    BY <1>5 DEF TakeSession, Settle, Rollback, SkipRecovery, Land, LandTimeout, Swap, SwapFails, Unsync
  <2>. QED BY <1>2, <2>1 DEF WritesBase
<1>6. CASE \/ Refuse(p) \/ Invalid(p) \/ RebaseNeeded(p) \/ Sync(p) \/ AfterFailure(p)
           \/ RefuseReplace(p) \/ Fails(p)
  <2>1. /\ UNCHANGED log
        /\ Done(p) \/ UNCHANGED job
        /\ UNCHANGED job => pc[p] \notin {"idle", "dead"} \/ Done(p)
    BY <1>6 DEF Refuse, Invalid, RebaseNeeded, Sync, AfterFailure, CommitFails, RefuseReplace, Fails
  <2>. QED BY <1>1, <1>2, <2>1 DEF WritesBase
<1>7. CASE Crash(p) \/ Respawn(p)
  <2>1. UNCHANGED log /\ (Goto(p, "idle") \/ Goto(p, "dead"))
    BY <1>7 DEF Crash, Respawn
  <2>. QED BY <1>0, <2>1 DEF WritesBase, HoldsBase
<1>8. CASE StartSettle(p)
  <2>. DEFINE j == [job[p] EXCEPT !.built = ToSettle(p)]
  <2>1. job'[p] = j /\ UNCHANGED log /\ pc[p] = "held"
    BY <1>8 DEF StartSettle, Typed, TypeOK
  <2>2. j.copy = job[p].copy /\ j.s = job[p].s
    BY TypedJob DEF Job
  <2>. QED BY <2>1, <2>2 DEF WritesBase, HoldsBase
<1>9. CASE Start(p) \/ Rebase(p) \/ Clear(p) \/ Recover(p) \/ Final(p) \/ Put(p) \/ PutSettled(p)
  <2>1. Done(p) /\ pc[p] \notin {"idle", "dead"}
    BY <1>9 DEF Start, Rebase, Clear, Recover, Final, Put, PutSettled, Append
  <2>2. \A l \in Log : [l EXCEPT !.ops = @ \cup job[p].new, !.pending = None].base = l.base
    BY DEF Log
  <2>3. /\ [EmptyLog EXCEPT !.base = job[p].copy.base].base = job[p].copy.base
        /\ [job[p].copy EXCEPT !.pending = None].base = job[p].copy.base
        /\ [job[p].copy EXCEPT !.base = job[p].built, !.ops = {}].base = job[p].built
    BY TypedJob DEF EmptyLog, Log
  <2>4. pc[p] = "landed" => [job[p].copy EXCEPT !.base = job[p].built, !.ops = {}] \in Log
    BY TypedJob DEF Log, Typed, JobTyped, HasBuilt
  <2>5. Start(p) \/ Rebase(p) \/ Clear(p) => WritesBase(p)
    BY <2>1, <2>3 DEF Start, Rebase, Clear, WritesBase
  <2>6. Recover(p) \/ Final(p) => WritesBase(p)
    BY <2>1 DEF Recover, Final, WritesBase
  <2>7. Put(p) => WritesBase(p)
    BY <2>1, <2>2, TypedJob DEF Put, Append, WritesBase
  <2>8. PutSettled(p) => WritesBase(p)
    BY <2>1, <2>2, <2>3, <2>4, TypedJob DEF PutSettled, Append, WritesBase
  <2>. QED BY <1>1, <1>9, <2>1, <2>5, <2>6, <2>7, <2>8
<1>10. CASE ForgetPending(p) \/ Build(p)
  <2>. DEFINE j1 == [job[p] EXCEPT !.copy.pending = None, !.built = None]
              j2 == [job[p] EXCEPT !.built = next, !.expected = ref[RefOf[job[p].s]]]
  <2>1. /\ [job[p].copy EXCEPT !.pending = None].base = job[p].copy.base
        /\ [job[p].copy EXCEPT !.pending = next].base = job[p].copy.base
        /\ j1.copy.base = job[p].copy.base /\ j1.s = job[p].s
        /\ j2.copy.base = job[p].copy.base /\ j2.s = job[p].s
    BY TypedJob DEF Log, Job
  <2>2. pc[p] \notin {"idle", "dead"} /\ (job'[p] = j1 \/ job'[p] = j2)
    BY <1>10 DEF ForgetPending, Build, Typed, TypeOK
  <2>3. HoldsBase(p)
    BY <2>1, <2>2 DEF HoldsBase
  <2>4. \E l : WriteLog(p, l) /\ l.base = job[p].copy.base
    BY <1>10, <2>1 DEF ForgetPending, Build
  <2>. QED BY <2>2, <2>3, <2>4 DEF WritesBase
<1>11. CASE Replace(p)
  <2>. DEFINE kept == [job[p].copy EXCEPT !.ops = Kept(p), !.pending = None]
              j == [job[p] EXCEPT !.copy = kept, !.built = None]
  <2>1. kept.base = job[p].copy.base /\ j.copy = kept /\ j.s = job[p].s
    BY TypedJob DEF Log, Job
  <2>2. WriteLog(p, kept) /\ (Done(p) \/ job'[p] = j) /\ pc[p] = "replace"
    BY <1>11 DEF Replace, Typed, TypeOK
  <2>. HIDE DEF kept, j
  <2>. QED BY <1>1, <2>1, <2>2 DEF WritesBase, HoldsBase
<1>. QED BY <1>3, <1>4, <1>5, <1>6, <1>7, <1>8, <1>9, <1>10, <1>11, Zenon DEF Call

\* The steps of Next that are no process's of Proc leave the logs and the processes alone.
LEMMA NobodysStep ==
    ASSUME Typed, [Next]_vars,
           ~ \E p \in Proc : \/ \E s \in Session, kind \in Calls : Read(p, s, kind)
                             \/ Call(p) \/ LandTimeout(p) \/ SwapFails(p) \/ Fails(p)
                             \/ Crash(p) \/ Respawn(p)
    PROVE  /\ UNCHANGED log /\ \A p \in Proc : job'[p] = job[p] /\ pc'[p] = pc[p]
           /\ UNCHANGED gitVars \/ CommitIndex
<1>1. ASSUME NEW v \in V1, V1Stage(v) \/ V1Commit(v) \/ V1Compensate(v) \/ Crash(v) \/ Respawn(v)
      PROVE  /\ UNCHANGED log /\ \A p \in Proc : job'[p] = job[p] /\ pc'[p] = pc[p]
             /\ UNCHANGED gitVars \/ CommitIndex
  <2>1. \A p \in Proc : p # v
    BY SessionAssumption
  <2>. QED BY <1>1, <2>1
    DEF V1Stage, V1Commit, V1Compensate, Crash, Respawn, Done, Goto, Typed, TypeOK
<1>2. CASE (\E s \in Session : ReclaimSession(s)) \/ ReclaimCheckout \/ User \/ UNCHANGED vars
  BY <1>2 DEF ReclaimSession, ReclaimCheckout, User, vars, gitVars
<1>. QED BY <1>1, <1>2 DEF Next

LEMMA RootedStep ==
    ASSUME Typed, Fit, Owned, NoOpLost, Rooted, [Next]_vars, Typed'
    PROVE  Rooted'
<1>0. Grows /\ \A s \in Session : Roots(s) \subseteq Roots(s)'
  BY GrowsStep, RootsGrow
<1>1. ASSUME NEW p \in Proc,
             \/ \E s \in Session, kind \in Calls : Read(p, s, kind)
             \/ Call(p) \/ LandTimeout(p) \/ SwapFails(p) \/ Fails(p) \/ Crash(p) \/ Respawn(p)
      PROVE  Rooted'
  <2>1. WritesBase(p) /\ HoldsBase(p)
    BY <1>1, Bases
  <2>2. ASSUME pc[p] \notin {"idle", "dead"}
        PROVE  job[p].s \in Session /\ job[p].copy.base \in Roots(job[p].s)
    BY <2>2 DEF Typed, JobTyped, Rooted
  <2>3. ASSUME pc[p] \in {"landed", "final"} PROVE job[p].built \in Roots(job[p].s)
    BY <2>3, OwnsHere DEF Locked, HasBuilt, Roots
  <2>4. ASSUME NEW s \in Session PROVE log'[s].base \in Roots(s)
    <3>1. CASE UNCHANGED log
      BY <3>1 DEF Rooted
    <3>2. CASE ~UNCHANGED log
      <4>1. PICK l : /\ WriteLog(p, l) /\ pc[p] \notin {"idle", "dead"}
                     /\ l.base = job[p].copy.base \/ (pc[p] \in {"landed", "final"} /\ l.base = job[p].built)
        BY <2>1, <3>2 DEF WritesBase
      <4>. QED BY <2>2, <2>3, <4>1, WritesItsOwn DEF Rooted
    <3>. QED BY <3>1, <3>2
  <2>5. ASSUME pc'[p] \notin {"idle", "dead"}
        PROVE  job'[p].s \in Session /\ job'[p].copy.base \in Roots(job'[p].s)
    BY <2>1, <2>2, <2>5, TipIsRoot DEF HoldsBase, Rooted
  <2>6. ASSUME NEW q \in Proc, q # p, pc'[q] \notin {"idle", "dead"}
        PROVE  job'[q].s \in Session /\ job'[q].copy.base \in Roots(job'[q].s)
    <3>1. job'[q] = job[q] /\ pc'[q] = pc[q]
      BY <1>1, <2>6, OthersStay
    <3>. QED BY <2>6, <3>1 DEF Rooted, Typed, JobTyped
  <2>7. ASSUME NEW q \in Proc, pc'[q] \notin {"idle", "dead"}
        PROVE  \E s \in Session : s = job'[q].s /\ job'[q].copy.base \in Roots(s)'
    BY <1>0, <2>5, <2>6, <2>7
  <2>. QED BY <1>0, <2>4, <2>7 DEF Rooted, Roots, Reach
<1>2. CASE UNCHANGED log /\ \A p \in Proc : job'[p] = job[p] /\ pc'[p] = pc[p]
  <2>1. \A s \in Session : log'[s].base \in Roots(s)'
    BY <1>0, <1>2 DEF Rooted
  <2>2. ASSUME NEW q \in Proc, pc'[q] \notin {"idle", "dead"}
        PROVE  \E s \in Session : s = job'[q].s /\ job'[q].copy.base \in Roots(s)'
    BY <1>0, <1>2, <2>2 DEF Rooted, Typed, JobTyped
  <2>. QED BY <1>2, <2>1, <2>2 DEF Rooted, Roots, Reach
<1>. QED BY <1>1, <1>2, NobodysStep

\* A session's commit is on its ref or nobody has anything to do with it.
Away == \A c \in Made(next) : \A s \in Session :
          commits[c].by = s => c \in Reach(RefOf[s]) \/ Apart(c)

\* A commit that nobody swaps in stays where it is: on its session's ref or off it.
LEMMA StaysOff ==
    ASSUME Typed, Fit, Away, [Next]_vars, NEW s \in Session, NEW c \in Made(next), commits[c].by = s,
           \A p \in Proc : Swap(p) \/ SwapFails(p) => ref' = ref \/ job[p].built # c
    PROVE  /\ c \in Reach(RefOf[s])' <=> c \in Reach(RefOf[s])
           /\ c \in Reach(RefOf[s])' \/ Apart(c)'
<1>0. Grows /\ Fit' /\ RefOf[s] \in Ref
  BY GrowsStep, FitStep, SessionAssumption
<1>1. CASE c \in Reach(RefOf[s])
  BY <1>0, <1>1 DEF Grows
<1>2. CASE c \notin Reach(RefOf[s])
  <2>1. Apart(c)'
    BY <1>2, ApartStep DEF Away
  <2>2. c \notin Reach(RefOf[s])'
    BY <1>0, <2>1 DEF Apart, Reach, Fit
  <2>. QED BY <1>2, <2>1, <2>2
<1>. QED BY <1>1, <1>2

\* The process that moves a ref puts its own commit there.
LEMMA SwapsIn ==
    ASSUME Typed, Fit, Owned, NEW p \in Proc, Swap(p) \/ SwapFails(p), ref' # ref
    PROVE  /\ pc[p] = "swap" /\ job[p].s \in Session /\ job[p].built \in Made(next)
           /\ ref[RefOf[job[p].s]] = job[p].expected
           /\ ref' = [ref EXCEPT ![RefOf[job[p].s]] = job[p].built]
           /\ UNCHANGED <<commits, next, log, job>>
           /\ commits[job[p].built].by = job[p].s /\ commits[job[p].built].ops = job[p].copy.ops
           /\ job[p].built \in Reach(RefOf[job[p].s])'
<1>1. /\ pc[p] = "swap" /\ ref[RefOf[job[p].s]] = job[p].expected
      /\ ref' = [ref EXCEPT ![RefOf[job[p].s]] = job[p].built]
      /\ UNCHANGED <<commits, next, log, job>>
  BY DEF Swap, SwapFails
<1>2. job[p].built \in Made(next) /\ job[p].built # None /\ job[p].s \in Session
  BY <1>1, JobHere, SessionAssumption DEF HasBuilt, Made, Typed, TypeOK, JobTyped
<1>3. RefOf[job[p].s] \in Ref /\ ref'[RefOf[job[p].s]] = job[p].built
  BY <1>1, <1>2, SessionAssumption DEF Typed, TypeOK
<1>4. job[p].built \in commits[job[p].built].anc
  BY <1>2 DEF Fit, CommitFits
<1>5. job[p].built \in Reach(RefOf[job[p].s])'
  BY <1>1, <1>2, <1>3, <1>4 DEF Reach
<1>. QED BY <1>1, <1>2, <1>5, OwnsHere DEF Locked, HasBuilt

\* A session's commit is made apart.
LEMMA NewIsApart ==
    ASSUME Typed, Fit, [Next]_vars, NEW c \in Made(next'), c \notin Made(next),
           NEW s \in Session, commits'[c].by = s
    PROVE  Apart(c)'
<1>1. CASE UNCHANGED next
  BY <1>1
<1>2. ASSUME NEW p \in Proc, Build(p) PROVE Apart(c)'
  <2>0. c = next
    BY <1>2, SessionAssumption DEF Build, NewCommit, Made, Typed, TypeOK
  <2>1. c = next /\ job'[p].built = next
    BY <1>2, <2>0, TypedJob DEF Build, Job, Typed, TypeOK
  <2>2. Apart(job[p].built)'
    BY <1>2, BuildIsPrivate
  <2>. QED BY <2>1, <2>2 DEF Apart
<1>3. CASE CommitIndex
  <2>1. c = next /\ next \in CommitId
    BY <1>3, SessionAssumption DEF CommitIndex, NewCommit, Made, Typed, TypeOK, CommitId
  <2>2. commits'[c].by = None
    BY <1>3, <2>1 DEF CommitIndex, NewCommit, Typed, TypeOK
  <2>. QED BY <2>2, SessionAssumption
<1>. QED BY <1>1, <1>2, <1>3, WhoWritesGit DEF gitVars, Swap, SwapFails

LEMMA AwayStep == ASSUME Typed, Fit, Owned, Away, [Next]_vars PROVE Away'
<1>. SUFFICES ASSUME NEW c \in Made(next'), NEW s \in Session, commits'[c].by = s
              PROVE  c \in Reach(RefOf[s])' \/ Apart(c)'
  BY DEF Away, Reach
<1>0. Keeps
  BY KeepsStep
<1>1. CASE c \in Made(next)
  <2>1. commits[c].by = s
    BY <1>0, <1>1 DEF Keeps
  <2>2. CASE \A p \in Proc : Swap(p) \/ SwapFails(p) => ref' = ref \/ job[p].built # c
    BY <1>1, <2>1, <2>2, StaysOff
  <2>3. ASSUME NEW p \in Proc, Swap(p) \/ SwapFails(p), ref' # ref, job[p].built = c
        PROVE  c \in Reach(RefOf[s])'
    <3>1. job[p].s = s /\ job[p].built \in Reach(RefOf[job[p].s])' /\ job' = job
      BY <2>1, <2>3, SwapsIn
    <3>. QED BY <2>3, <3>1
  <2>. QED BY <2>2, <2>3
<1>2. CASE c \notin Made(next)
  BY <1>2, NewIsApart
<1>. QED BY <1>1, <1>2

\* Where the log carries the commit a process has in hand: the one it is landing, and the
\* one a put settles.
InLog(p) == \/ pc[p] \in {"land", "sync", "swap"}
            \/ job[p].kind = "put" /\ pc[p] \in {"settle", "rollback", "landed", "unlanded"}

\* A put brings one op, what it found unlanded stays unlanded while it has the lock, and a
\* start is a call that processes make.
Named(p) ==
    /\ InLog(p) => log[job[p].s].pending = job[p].built
    /\ job[p].kind = "put" /\ pc[p] \in {"rollback", "unlanded"} => ~HasLanded(p)
    /\ job[p].kind = "put" /\ pc[p] \notin {"idle", "dead"} => \E f \in Fact : job[p].new = {f}
    /\ job[p].kind = "start" /\ pc[p] \notin {"idle", "dead"} => "start" \in Calls

AllNamed == \A p \in Proc : Named(p)

\* Who has a session's lock keeps others from landing that session's commits.
LEMMA UnlandedStays ==
    ASSUME Typed, Fit, Owned, Away, [Next]_vars, NEW q \in Proc, NEW s \in Session, s = job[q].s,
           pc[q] \in {"rollback", "unlanded"}, ~HasLanded(q), NEW c, c = job[q].built
    PROVE  c \notin Reach(RefOf[s])'
<1>1. c \in Made(next) /\ commits[c].by = s /\ slock[s] = q /\ c \notin Reach(RefOf[s])
  BY JobHere, OwnsHere DEF Locked, HasBuilt, HasLanded
<1>2. ASSUME NEW p \in Proc, Swap(p) \/ SwapFails(p), ref' # ref, job[p].built = c PROVE FALSE
  <2>1. pc[p] = "swap" /\ job[p].s = s
    BY <1>1, <1>2, SwapsIn
  <2>2. slock[s] = p
    BY <2>1, OwnsHere DEF Locked, HasBuilt
  <2>. QED BY <1>1, <2>1, <2>2
<1>. QED BY <1>1, <1>2, StaysOff

LEMMA OthersNamed ==
    ASSUME Typed, Fit, Owned, Away, AllNamed, [Next]_vars, NEW q \in Proc,
           job'[q] = job[q], pc'[q] = pc[q],
           \A s \in Session : slock[s] = q => log'[s] = log[s]
    PROVE  Named(q)'
<1>0. Named(q)
  BY DEF AllNamed
<1>1. CASE pc[q] \in {"idle", "dead"}
  BY <1>1 DEF Named, InLog
<1>2. CASE pc[q] \notin {"idle", "dead"}
  <2>1. PICK s \in Session : s = job[q].s
    BY <1>2 DEF Typed, JobTyped
  <2>2. InLog(q) => pc[q] \in Locked
    BY DEF InLog, Locked, HasBuilt
  <2>3. InLog(q)' => log'[job'[q].s].pending = job'[q].built
    BY <1>0, <2>1, <2>2, OwnsHere DEF Named, InLog
  <2>4. ASSUME job[q].kind = "put", pc[q] \in {"rollback", "unlanded"}
        PROVE  job[q].built \notin Reach(RefOf[s])'
    BY <1>0, <2>1, <2>4, UnlandedStays DEF Named
  <2>5. ASSUME job[q].kind = "put", pc[q] \in {"rollback", "unlanded"} PROVE ~HasLanded(q)'
    BY <2>1, <2>4, <2>5 DEF HasLanded, Reach
  <2>. QED BY <1>0, <2>3, <2>5 DEF Named
<1>. QED BY <1>1, <1>2

\* A process that goes where it has no commit in hand.
LEMMA NamedElsewhere ==
    ASSUME Typed, NEW p \in Proc, Named(p), NEW w, Goto(p, w),
           w \notin {"land", "sync", "swap", "settle", "rollback", "landed", "unlanded"},
           \/ w \in {"idle", "dead"}
           \/ /\ pc[p] \notin {"idle", "dead"}
              /\ job'[p].kind = job[p].kind /\ job'[p].new = job[p].new
    PROVE  Named(p)'
<1>1. pc'[p] = w
  BY DEF Goto, Typed, TypeOK
<1>. QED BY <1>1 DEF Named, InLog

LEMMA NamedSettle ==
    ASSUME Typed, NEW p \in Proc, Named(p), StartSettle(p) \/ Settle(p) \/ Rollback(p)
    PROVE  Named(p)'
<1>1. CASE StartSettle(p)
  <2>. DEFINE j == [job[p] EXCEPT !.built = ToSettle(p)]
  <2>1. job'[p] = j /\ pc'[p] = "settle" /\ UNCHANGED log /\ pc[p] = "held"
    BY <1>1 DEF StartSettle, Goto, Typed, TypeOK
  <2>2. j.kind = job[p].kind /\ j.new = job[p].new /\ j.s = job[p].s /\ j.built = ToSettle(p)
    BY TypedJob DEF Job
  <2>. QED BY <2>1, <2>2 DEF Named, InLog, ToSettle
<1>2. CASE Settle(p) \/ Rollback(p)
  <2>1. UNCHANGED <<job, log, ref, commits>> /\ pc[p] \in {"settle", "rollback"}
    BY <1>2 DEF Settle, Rollback, gitVars
  <2>2. \/ pc'[p] = "landed"
        \/ pc'[p] \in {"rollback", "unlanded"} /\ (pc[p] = "settle" => ~HasLanded(p))
    BY <1>2 DEF Settle, Rollback, Goto, Typed, TypeOK
  <2>. QED BY <2>1, <2>2 DEF Named, InLog, HasLanded, Reach
<1>. QED BY <1>1, <1>2

LEMMA NamedLand ==
    ASSUME Typed, NEW p \in Proc, Named(p), Build(p) \/ Land(p) \/ Sync(p)
    PROVE  Named(p)'
<1>1. CASE Build(p)
  <2>. DEFINE l == [job[p].copy EXCEPT !.pending = next]
              j == [job[p] EXCEPT !.built = next, !.expected = ref[RefOf[job[p].s]]]
  <2>1. job'[p] = j /\ pc'[p] = "land" /\ WriteLog(p, l) /\ pc[p] = "prepare"
    BY <1>1 DEF Build, Goto, Typed, TypeOK
  <2>2. j.kind = job[p].kind /\ j.new = job[p].new /\ j.s = job[p].s /\ j.built = next /\ l.pending = next
    BY TypedJob DEF Job, Log
  <2>3. job[p].s \in Session
    BY <2>1 DEF Typed, JobTyped
  <2>. HIDE DEF l, j
  <2>4. log'[job[p].s] = l
    BY <2>1, <2>3, WritesItsOwn
  <2>. QED BY <2>1, <2>2, <2>4 DEF Named, InLog
<1>2. CASE Sync(p) /\ Done(p)
  BY <1>2, NamedElsewhere DEF Done
<1>3. CASE Land(p) \/ (Sync(p) /\ ~Done(p))
  <2>1. UNCHANGED <<job, log>> /\ pc[p] \in {"land", "sync"} /\ pc'[p] \in {"clear", "sync", "swap"}
    BY <1>3 DEF Land, Sync, Goto, Typed, TypeOK
  <2>. QED BY <2>1 DEF Named, InLog
<1>. QED BY <1>1, <1>2, <1>3

LEMMA NamedItself ==
    ASSUME Typed, NEW p \in Proc, Named(p),
           \/ \E s \in Session, kind \in Calls : Read(p, s, kind)
           \/ Call(p)
           \/ LandTimeout(p) \/ SwapFails(p) \/ Fails(p) \/ Crash(p) \/ Respawn(p)
    PROVE  Named(p)'
<1>1. ASSUME Done(p) PROVE Named(p)'
  BY <1>1, NamedElsewhere DEF Done
<1>2. CASE \E s \in Session, kind \in Calls : Read(p, s, kind)
  <2>1. PICK s \in Session, kind \in Calls : Read(p, s, kind)
    BY <1>2
  <2>2. PICK new : job' = [job EXCEPT ![p] = CallOf(s, kind, new)] /\ (kind = "put" => \E f \in Fact : new = {f})
    BY <2>1, Zenon DEF Read
  <2>3. CallOf(s, kind, new).kind = kind /\ CallOf(s, kind, new).new = new
    BY DEF CallOf, NoJob
  <2>4. job'[p] = CallOf(s, kind, new) /\ pc'[p] \in {"onto", "read"}
    BY <2>1, <2>2 DEF Read, Goto, Typed, TypeOK
  <2>. QED BY <2>2, <2>3, <2>4 DEF Named, InLog
<1>3. CASE Onto(p)
  <2>. DEFINE j == [job[p] EXCEPT !.copy.base = TipFor(RefOf[job[p].s])]
  <2>1. job'[p] = j /\ Goto(p, "read") /\ pc[p] = "onto"
    BY <1>3 DEF Onto, Typed, TypeOK
  <2>2. j.kind = job[p].kind /\ j.new = job[p].new
    BY TypedJob DEF Job
  <2>. QED BY <2>1, <2>2, NamedElsewhere
<1>4. CASE TakeSession(p) \/ SkipRecovery(p) \/ LandTimeout(p) \/ Swap(p) \/ SwapFails(p) \/ Unsync(p)
  <2>1. UNCHANGED job /\ pc[p] \notin {"idle", "dead"}
        /\ \E w \in {"held", "prepare", "clear", "final", "unsync", "fail"} : Goto(p, w)
    BY <1>4 DEF TakeSession, SkipRecovery, LandTimeout, Swap, SwapFails, Unsync
  <2>. QED BY <2>1, NamedElsewhere
<1>5. CASE \/ Refuse(p) \/ RebaseNeeded(p) \/ AfterFailure(p) \/ RefuseReplace(p) \/ Fails(p)
           \/ Start(p) \/ Rebase(p) \/ Clear(p) \/ Recover(p) \/ Final(p) \/ Put(p) \/ PutSettled(p)
  BY <1>1, <1>5 DEF Refuse, RebaseNeeded, AfterFailure, CommitFails, RefuseReplace, Fails, Start, Rebase,
       Clear, Recover, Final, Put, PutSettled, Append
<1>6. CASE Crash(p) \/ Respawn(p)
  <2>1. \E w \in {"idle", "dead"} : Goto(p, w)
    BY <1>6 DEF Crash, Respawn
  <2>. QED BY <2>1, NamedElsewhere
<1>7. CASE ForgetPending(p)
  <2>. DEFINE j == [job[p] EXCEPT !.copy.pending = None, !.built = None]
  <2>1. job'[p] = j /\ Goto(p, "prepare") /\ pc[p] = "unlanded"
    BY <1>7 DEF ForgetPending, Typed, TypeOK
  <2>2. j.kind = job[p].kind /\ j.new = job[p].new
    BY TypedJob DEF Job
  <2>. QED BY <2>1, <2>2, NamedElsewhere
<1>8. CASE Invalid(p)
  <2>1. Done(p) \/ (Goto(p, "replace") /\ UNCHANGED job /\ pc[p] = "prepare")
    BY <1>8 DEF Invalid
  <2>. QED BY <1>1, <2>1, NamedElsewhere
<1>9. CASE Replace(p)
  <2>. DEFINE j == [job[p] EXCEPT !.copy = [job[p].copy EXCEPT !.ops = Kept(p), !.pending = None],
                                  !.built = None]
  <2>1. Done(p) \/ (job'[p] = j /\ Goto(p, "read") /\ pc[p] = "replace")
    BY <1>9 DEF Replace, Typed, TypeOK
  <2>2. j.kind = job[p].kind /\ j.new = job[p].new
    BY TypedJob DEF Job
  <2>. QED BY <1>1, <2>1, <2>2, NamedElsewhere
<1>. QED BY <1>2, <1>3, <1>4, <1>5, <1>6, <1>7, <1>8, <1>9, NamedSettle, NamedLand, Zenon DEF Call

LEMMA NamedStep ==
    ASSUME Typed, Fit, Owned, NoOpLost, Away, AllNamed, [Next]_vars
    PROVE  AllNamed'
<1>1. ASSUME NEW p \in Proc,
             \/ \E s \in Session, kind \in Calls : Read(p, s, kind)
             \/ Call(p) \/ LandTimeout(p) \/ SwapFails(p) \/ Fails(p) \/ Crash(p) \/ Respawn(p)
      PROVE  AllNamed'
  <2>1. Named(p)'
    BY <1>1, NamedItself DEF AllNamed
  <2>2. Footprint(p)
    BY <1>1, GoodStep DEF Good
  <2>3. ASSUME NEW q \in Proc, q # p PROVE Named(q)'
    <3>1. q # None
      BY SessionAssumption
    <3>. QED BY <2>2, <2>3, <3>1, OthersNamed DEF Footprint
  <2>. QED BY <2>1, <2>3 DEF AllNamed
<1>2. CASE UNCHANGED log /\ \A p \in Proc : job'[p] = job[p] /\ pc'[p] = pc[p]
  BY <1>2, OthersNamed DEF AllNamed
<1>. QED BY <1>1, <1>2, NobodysStep

-----------------------------------------------------------------------------
(* The ledger's state, and what its steps may do to it *)

\* The ledger's variables.
Facts == [r \in Ref |-> IF ref[r] = None THEN {} ELSE commits[ref[r]].tree]
Open  == [s \in Session |-> IF log[s].pending \in Reach(RefOf[s]) THEN {} ELSE log[s].ops]

Simulated == [Ledger!Next]_(Ledger!vars)

LEMMA InitSimulated == Init => Ledger!Init
<1>. SUFFICES ASSUME Init PROVE Ledger!Init
  OBVIOUS
<1>1. \A r \in Ref : (IF ref[r] = None THEN {} ELSE commits[ref[r]].tree) = {}
  BY SessionAssumption DEF Init, NoCommit, CommitId
<1>2. \A s \in Session : (IF log[s].pending \in Reach(RefOf[s]) THEN {} ELSE log[s].ops) = {}
  BY DEF Init, EmptyLog
<1>. QED BY <1>1, <1>2 DEF Ledger!Init

LEMMA LedgerStutters == ASSUME UNCHANGED <<Facts, Open>> PROVE Simulated
  BY DEF Simulated, Ledger!vars, Facts, Open

\* What the ledger lets happen to the open ops of one session.
LEMMA LedgerMoves ==
    ASSUME NEW s \in Session, UNCHANGED Facts, NEW X, Open' = [Open EXCEPT ![s] = X],
           \/ \E f \in Fact : X = Open[s] \cup {f}
           \/ \E F \in SUBSET (Open[s] \cap UNION {Facts[r] : r \in Ref}) : X = Open[s] \ F
           \/ \E F \in SUBSET Facts[RefOf[s]] : X = Open[s] \cup F
           \/ X = {} /\ "start" \in Calls
    PROVE  Simulated
<1>0. Open[s] = IF log[s].pending \in Reach(RefOf[s]) THEN {} ELSE log[s].ops
  BY DEF Open
<1>1. ASSUME NEW f \in Fact, X = Open[s] \cup {f} PROVE Ledger!Put(s)
  BY <1>1 DEF Ledger!Put, Facts, Open
<1>2. ASSUME NEW F \in SUBSET (Open[s] \cap UNION {Facts[r] : r \in Ref}), X = Open[s] \ F
      PROVE  Ledger!Drop(s)
  BY <1>2 DEF Ledger!Drop, Facts, Open
<1>3. ASSUME NEW F \in SUBSET Facts[RefOf[s]], X = Open[s] \cup F PROVE Ledger!Reopen(s)
  BY <1>3 DEF Ledger!Reopen, Facts, Open
<1>4. ASSUME X = {}, "start" \in Calls PROVE Ledger!Discard(s)
  BY <1>4 DEF Ledger!Discard, Facts, Open
<1>. QED BY <1>1, <1>2, <1>3, <1>4 DEF Simulated, Ledger!Next

LEMMA NoneMade == ASSUME NEW n PROVE None \notin Made(n)
<1>1. Made(n) \subseteq Nat
  BY DEF Made
<1>. QED BY <1>1, SessionAssumption

LEMMA ReachMade == ASSUME Fit, NEW r \in Ref
                   PROVE  /\ Reach(r) \subseteq Made(next) /\ None \notin Reach(r)
                          /\ ref[r] # None => ref[r] \in Reach(r)
  BY NoneMade DEF Fit, CommitFits, Reach

\* What a ref reaches, it holds.
LEMMA ReachHeld ==
    ASSUME Typed, Fit, Monotone, NEW r \in Ref, NEW c \in Reach(r)
    PROVE  /\ commits[c].tree \subseteq Facts[r]
           /\ commits[c].by # None => commits[c].ops \subseteq Facts[r]
<1>1. ref[r] # None /\ ref[r] \in Made(next) /\ c \in commits[ref[r]].anc /\ c \in Made(next)
  BY ReachMade DEF Reach, Fit
<1>2. commits[c].tree \subseteq Facts[r]
  BY <1>1 DEF Monotone, Facts
<1>3. commits[c].by # None => commits[c].ops \subseteq commits[c].tree
  BY <1>1 DEF Fit, CommitFits
<1>. QED BY <1>2, <1>3

\* A session whose log a step leaves, and whose pending commit it does not land.
LEMMA OpenStays ==
    ASSUME Typed, Fit, Away, [Next]_vars, NEW t \in Session, log'[t] = log[t],
           \A p \in Proc : Swap(p) \/ SwapFails(p) => ref' = ref \/ job[p].built # log[t].pending
    PROVE  Open'[t] = Open[t]
<1>1. CASE log[t].pending = None
  <2>1. RefOf[t] \in Ref /\ Fit'
    BY FitStep, SessionAssumption
  <2>2. None \notin Reach(RefOf[t])
    BY <2>1, ReachMade
  <2>3. None \notin Reach(RefOf[t])'
    BY <2>1, NoneMade DEF Fit, CommitFits, Reach
  <2>. QED BY <1>1, <2>2, <2>3 DEF Open
<1>2. CASE log[t].pending # None
  <2>1. log[t].pending \in Made(next) /\ commits[log[t].pending].by = t
    BY <1>2 DEF Fit, LogFits
  <2>2. log[t].pending \in Reach(RefOf[t])' <=> log[t].pending \in Reach(RefOf[t])
    <3>1. PICK c : c = log[t].pending
      OBVIOUS
    <3>2. c \in Reach(RefOf[t])' <=> c \in Reach(RefOf[t])
      BY <2>1, <3>1, StaysOff
    <3>3. log'[t].pending = c
      BY <3>1
    <3>. QED BY <3>1, <3>2, <3>3
  <2>. QED BY <2>2 DEF Open
<1>. QED BY <1>1, <1>2

LEMMA FactsStay == ASSUME Fit, Keeps, UNCHANGED ref PROVE UNCHANGED Facts
  BY DEF Facts, Fit, Keeps

\* A step that moves no ref and writes at most one log.
LEMMA OneLog ==
    ASSUME Typed, Fit, Away, [Next]_vars, UNCHANGED ref, NEW s \in Session,
           \A t \in Session : t # s => log'[t] = log[t],
           \/ Open'[s] = Open[s]
           \/ \E f \in Fact : Open'[s] = Open[s] \cup {f}
           \/ \E F \in SUBSET (Open[s] \cap UNION {Facts[r] : r \in Ref}) : Open'[s] = Open[s] \ F
           \/ \E F \in SUBSET Facts[RefOf[s]] : Open'[s] = Open[s] \cup F
           \/ Open'[s] = {} /\ "start" \in Calls
    PROVE  Simulated
<1>1. UNCHANGED Facts
  BY FactsStay, KeepsStep
<1>2. \A t \in Session : t # s => Open'[t] = Open[t]
  BY OpenStays
<1>. DEFINE X == Open'[s]
<1>3. Open' = [Open EXCEPT ![s] = X]
  BY <1>2 DEF Open
<1>4. CASE X = Open[s]
  <2>1. Open' = Open
    BY <1>3, <1>4 DEF Open
  <2>. QED BY <1>1, <2>1, LedgerStutters
<1>. HIDE DEF X
<1>. QED BY <1>1, <1>3, <1>4, LedgerMoves DEF X

\* A writer that keeps the log's ops, whatever it says of `pending`: what it takes off the
\* open ops or puts back is on the branch.
LEMMA OpsKept ==
    ASSUME Typed, Fit, Monotone, Away, [Next]_vars, UNCHANGED ref, NEW s \in Session,
           \A t \in Session : t # s => log'[t] = log[t],
           log'[s].ops = log[s].ops
    PROVE  Simulated
<1>0. Keeps /\ Fit' /\ RefOf[s] \in Ref /\ Reach(RefOf[s])' = Reach(RefOf[s])
  <2>1. Keeps /\ Fit' /\ RefOf[s] \in Ref
    BY KeepsStep, FitStep, SessionAssumption
  <2>. QED BY <2>1 DEF Reach, Fit, Keeps
<1>1. ASSUME log[s].pending \in Reach(RefOf[s]) PROVE log[s].ops \subseteq Facts[RefOf[s]]
  <2>1. log[s].pending # None
    BY <1>0, <1>1, ReachMade
  <2>2. commits[log[s].pending].ops = log[s].ops /\ commits[log[s].pending].by # None
    BY <2>1, SessionAssumption DEF Fit, LogFits
  <2>. QED BY <1>0, <1>1, <2>2, ReachHeld
<1>2. ASSUME log'[s].pending \in Reach(RefOf[s]) PROVE log[s].ops \subseteq Facts[RefOf[s]]
  <2>1. log'[s].pending # None /\ log'[s].pending \in Made(next)
    BY <1>0, <1>2, ReachMade
  <2>2. commits'[log'[s].pending].ops = log[s].ops /\ commits'[log'[s].pending].by # None
    BY <1>0, <2>1, SessionAssumption DEF Fit, LogFits
  <2>3. commits'[log'[s].pending] = commits[log'[s].pending]
    BY <1>0, <2>1 DEF Keeps
  <2>. QED BY <1>0, <1>2, <2>2, <2>3, ReachHeld
<1>3. /\ Open[s] = IF log[s].pending \in Reach(RefOf[s]) THEN {} ELSE log[s].ops
      /\ Open'[s] = IF log'[s].pending \in Reach(RefOf[s]) THEN {} ELSE log[s].ops
  BY <1>0 DEF Open
<1>4. CASE Open'[s] = Open[s]
  BY <1>4, OneLog
<1>5. CASE Open[s] = {} /\ Open'[s] = log[s].ops /\ log[s].pending \in Reach(RefOf[s])
  <2>1. log[s].ops \in SUBSET Facts[RefOf[s]] /\ Open'[s] = Open[s] \cup log[s].ops
    BY <1>1, <1>5
  <2>. QED BY <2>1, OneLog
<1>6. CASE Open[s] = log[s].ops /\ Open'[s] = {} /\ log'[s].pending \in Reach(RefOf[s])
  <2>1. Open[s] \in SUBSET (Open[s] \cap UNION {Facts[r] : r \in Ref}) /\ Open'[s] = Open[s] \ Open[s]
    BY <1>0, <1>2, <1>6
  <2>. QED BY <2>1, OneLog
<1>. QED BY <1>3, <1>4, <1>5, <1>6

-----------------------------------------------------------------------------
(* Each step is the ledger's *)

\* What the refinement rests on.
Refining ==
    Typed /\ Fit /\ Private /\ Owned /\ NoOpLost /\ Shared /\ Monotone /\ Rooted /\ Away /\ AllNamed

\* Steps that write no log and move no ref.
LEMMA QuietSimulated ==
    ASSUME Typed, Fit, Away, [Next]_vars, UNCHANGED <<ref, log>>
    PROVE  Simulated
<1>1. \A s \in Session : Open'[s] = Open[s]
  BY OpenStays
<1>2. UNCHANGED Open
  BY <1>1 DEF Open
<1>. QED BY <1>2, FactsStay, KeepsStep, LedgerStutters

\* The open ops of a session whose log a put, holding its lock, settles or finds settled.
LEMMA PutSimulated ==
    ASSUME Refining, [Next]_vars, NEW p \in Proc, Put(p) \/ PutSettled(p)
    PROVE  Simulated
<1>1. /\ UNCHANGED gitVars /\ job[p].kind = "put" /\ pc[p] \in {"held", "landed", "unlanded"}
      /\ pc[p] \in Locked
  BY DEF Put, PutSettled, Append, Locked, HasBuilt
<1>2. PICK s \in Session : s = job[p].s
  BY <1>1 DEF Refining, Typed, JobTyped
<1>3. PICK f \in Fact : job[p].new = {f}
  BY <1>1 DEF Refining, AllNamed, Named
<1>4. log[s].ops = job[p].copy.ops /\ RefOf[s] \in Ref
  BY <1>1, <1>2, KnowsOps, SessionAssumption DEF Refining
<1>5. ASSUME NEW l \in Log, Append(p, l), l.ops = Open[s] PROVE Simulated
  <2>. DEFINE m == [l EXCEPT !.ops = @ \cup job[p].new, !.pending = None]
  <2>1. WriteLog(p, m) /\ m.ops = l.ops \cup {f} /\ m.pending = None
    BY <1>3, <1>5 DEF Append, Log
  <2>. HIDE DEF m
  <2>2. log'[s] = m /\ \A t \in Session : t # s => log'[t] = log[t]
    BY <1>2, <2>1, WritesItsOwn DEF Refining
  <2>3. None \notin Reach(RefOf[s])'
    BY <1>1, <1>4, ReachMade DEF Refining, Reach, gitVars
  <2>4. Open'[s] = Open[s] \cup {f}
    BY <1>5, <2>1, <2>2, <2>3 DEF Open
  <2>. QED BY <1>1, <2>2, <2>4, OneLog DEF Refining, gitVars
<1>6. CASE Put(p)
  <2>1. log[s].pending = None
    BY <1>2, <1>6 DEF Put
  <2>2. Open[s] = log[s].ops
    BY <1>4, <2>1, ReachMade DEF Refining, Open
  <2>. QED BY <1>4, <1>5, <1>6, <2>2, TypedJob DEF Put, Refining
<1>7. CASE PutSettled(p)
  <2>1. log[s].pending = job[p].built
    BY <1>1, <1>2, <1>7 DEF PutSettled, Refining, AllNamed, Named, InLog
  <2>2. CASE pc[p] = "landed"
    <3>1. Open[s] = {}
      BY <1>1, <1>2, <2>1, <2>2, OwnsHere DEF Refining, Open
    <3>2. [job[p].copy EXCEPT !.base = job[p].built, !.ops = {}] \in Log
      BY <2>2, TypedJob DEF Refining, Log, Typed, JobTyped, HasBuilt
    <3>3. [job[p].copy EXCEPT !.base = job[p].built, !.ops = {}].ops = {}
      BY TypedJob DEF Refining, Log
    <3>. QED BY <1>5, <1>7, <2>2, <3>1, <3>2, <3>3 DEF PutSettled
  <2>3. CASE pc[p] = "unlanded"
    <3>1. Open[s] = log[s].ops
      BY <1>1, <1>2, <2>1, <2>3 DEF Refining, AllNamed, Named, HasLanded, Open
    <3>. QED BY <1>4, <1>5, <1>7, <2>3, <3>1, TypedJob DEF PutSettled, Refining
  <2>. QED BY <1>7, <2>2, <2>3 DEF PutSettled
<1>. QED BY <1>6, <1>7

\* The writers that keep the ops and say something else of `pending`.
LEMMA KeptSimulated ==
    ASSUME Refining, [Next]_vars, NEW p \in Proc,
           Rebase(p) \/ ForgetPending(p) \/ Clear(p) \/ Build(p)
    PROVE  Simulated
<1>1. /\ UNCHANGED ref /\ pc[p] \in {"held", "unlanded", "clear", "prepare"} /\ pc[p] \in Locked
      /\ pc[p] = "held" => job[p].kind = "rebase"
  BY DEF Rebase, ForgetPending, Clear, Build, gitVars, Locked, HasBuilt
<1>2. PICK s \in Session : s = job[p].s
  BY <1>1 DEF Refining, Typed, JobTyped
<1>3. log[s].ops = job[p].copy.ops
  BY <1>1, <1>2, KnowsOps DEF Refining
<1>4. \E l : WriteLog(p, l) /\ l.ops = job[p].copy.ops
  <2>1. /\ [job[p].copy EXCEPT !.pending = None].ops = job[p].copy.ops
        /\ [job[p].copy EXCEPT !.pending = next].ops = job[p].copy.ops
    BY TypedJob DEF Refining, Log
  <2>. QED BY <2>1 DEF Rebase, ForgetPending, Clear, Build
<1>5. log'[s].ops = log[s].ops /\ \A t \in Session : t # s => log'[t] = log[t]
  BY <1>2, <1>3, <1>4, WritesItsOwn DEF Refining
<1>. QED BY <1>1, <1>5, OpsKept DEF Refining

\* The writers that leave the log empty: the ops went with a start, or they are on the ref.
LEMMA EmptiedSimulated ==
    ASSUME Refining, [Next]_vars, NEW p \in Proc, Start(p) \/ Recover(p) \/ Final(p)
    PROVE  Simulated
<1>1. UNCHANGED ref /\ pc[p] \in {"held", "landed", "final"} /\ pc[p] \in Locked
  BY DEF Start, Recover, Final, gitVars, Locked, HasBuilt
<1>2. PICK s \in Session : s = job[p].s
  BY <1>1 DEF Refining, Typed, JobTyped
<1>3. PICK l : WriteLog(p, l) /\ l.ops = {}
  BY DEF Start, Recover, Final, EmptyLog
<1>4. log'[s] = l /\ \A t \in Session : t # s => log'[t] = log[t]
  BY <1>2, <1>3, WritesItsOwn DEF Refining
<1>5. Open'[s] = {}
  BY <1>3, <1>4 DEF Open
<1>6. CASE Start(p)
  <2>1. "start" \in Calls
    BY <1>6 DEF Start, Refining, AllNamed, Named
  <2>. QED BY <1>1, <1>4, <1>5, <2>1, OneLog DEF Refining
<1>7. CASE Recover(p) \/ Final(p)
  <2>1. /\ pc[p] \in {"landed", "final"} /\ log[s].ops = commits[job[p].built].ops
        /\ job[p].built \in Reach(RefOf[s]) /\ commits[job[p].built].by # None
    BY <1>1, <1>2, <1>7, OwnsHere, SessionAssumption DEF Recover, Final, Refining, HasBuilt
  <2>2. log[s].ops \subseteq Facts[RefOf[s]] /\ RefOf[s] \in Ref
    BY <2>1, ReachHeld, SessionAssumption DEF Refining
  <2>3. Open[s] \in SUBSET (Open[s] \cap UNION {Facts[r] : r \in Ref}) /\ Open'[s] = Open[s] \ Open[s]
    BY <1>5, <2>2 DEF Open
  <2>. QED BY <1>1, <1>4, <2>3, OneLog DEF Refining
<1>. QED BY <1>6, <1>7

\* --drop-refused takes out what the version at its base holds, and a branch holds that.
LEMMA ReplaceSimulated == ASSUME Refining, [Next]_vars, NEW p \in Proc, Replace(p) PROVE Simulated
<1>1. UNCHANGED gitVars /\ pc[p] = "replace"
  BY DEF Replace
<1>2. PICK s \in Session : s = job[p].s
  BY <1>1 DEF Refining, Typed, JobTyped
<1>3. log[s].ops = job[p].copy.ops /\ log[s].pending = None /\ RefOf[s] \in Ref
  BY <1>2, SessionAssumption DEF Replace, Unmoved, Refining, Owned, Owns
<1>. DEFINE l == [job[p].copy EXCEPT !.ops = Kept(p), !.pending = None]
<1>4. WriteLog(p, l) /\ l.ops = job[p].copy.ops \ Duplicates(p) /\ l.pending = None
  BY TypedJob DEF Replace, Refining, Log, Kept
<1>. HIDE DEF l
<1>5. log'[s] = l /\ \A t \in Session : t # s => log'[t] = log[t]
  BY <1>2, <1>4, WritesItsOwn DEF Refining
<1>6. None \notin Reach(RefOf[s]) /\ Reach(RefOf[s])' = Reach(RefOf[s])
  BY <1>1, <1>3, ReachMade DEF Refining, Reach, gitVars
<1>7. Open[s] = job[p].copy.ops /\ Open'[s] = Open[s] \ Duplicates(p)
  BY <1>3, <1>4, <1>5, <1>6 DEF Open
<1>8. Duplicates(p) \in SUBSET (Open[s] \cap UNION {Facts[r] : r \in Ref})
  <2>1. PICK r \in Ref : job[p].copy.base \in Reach(r)
    BY <1>1, <1>2, <1>3, SessionAssumption DEF Refining, Rooted, Roots
  <2>2. commits[job[p].copy.base].tree \subseteq Facts[r]
    BY <2>1, ReachHeld DEF Refining
  <2>. QED BY <1>7, <2>2 DEF Duplicates
<1>. QED BY <1>1, <1>5, <1>7, <1>8, OneLog DEF Refining, gitVars

\* The swap lands the open ops: all of them, over the version they were judged against.
LEMMA SwapSimulated ==
    ASSUME Refining, [Next]_vars, NEW p \in Proc, Swap(p) \/ SwapFails(p)
    PROVE  Simulated
<1>1. CASE ref' = ref
  BY <1>1, QuietSimulated DEF Refining, Swap, SwapFails
<1>2. CASE ref' # ref
  <2>. DEFINE built == job[p].built  base == job[p].copy.base
  <2>1. /\ pc[p] = "swap" /\ built \in Made(next)
        /\ UNCHANGED <<commits, next, log, job>>
        /\ commits[built].ops = job[p].copy.ops
    BY <1>2, SwapsIn DEF Refining
  <2>2. PICK s \in Session : s = job[p].s
    BY <2>1 DEF Refining, Typed, JobTyped
  <2>3. PICK r \in Ref : r = RefOf[s]
    BY SessionAssumption
  <2>4. /\ ref[r] = job[p].expected /\ ref' = [ref EXCEPT ![r] = built]
        /\ commits[built].by = s /\ built \in Reach(r)'
    BY <1>2, <2>1, <2>2, <2>3, SwapsIn DEF Refining
  <2>5. /\ base \in Made(next) /\ commits[built].parent = base /\ commits[built].by # None
        /\ ref[r] = base \/ (ref[r] = None /\ r # Main)
    BY <2>1, <2>2, <2>3, <2>4, JobHere DEF Refining, Shared, Ahead, LogFits
  <2>6. /\ commits[built].ops # {} /\ commits[built].tree = commits[base].tree \cup commits[built].ops
        /\ commits[built].ops \cap commits[base].tree = {}
    BY <2>1, <2>5 DEF Refining, Fit, CommitFits
  <2>7. log[s].pending = built /\ log[s].ops = commits[built].ops
    BY <2>1, <2>2, KnowsOps DEF Refining, AllNamed, Named, InLog, Locked, HasBuilt
  <2>8. built \notin Reach(r)
    BY <2>1, ApartUnreached DEF Refining, Private, Landing
  <2>9. Open[s] = commits[built].ops /\ Open'[s] = {}
    BY <2>1, <2>3, <2>4, <2>7, <2>8 DEF Open
  <2>10. ASSUME NEW t \in Session, t # s PROVE Open'[t] = Open[t]
    <3>1. ASSUME NEW q \in Proc, Swap(q) \/ SwapFails(q), ref' # ref, job[q].built = log[t].pending
          PROVE  FALSE
      <4>1. job[q].s \in Session /\ ref' = [ref EXCEPT ![RefOf[job[q].s]] = job[q].built]
            /\ ref[RefOf[job[q].s]] = job[q].expected /\ commits[job[q].built].by = job[q].s
            /\ pc[q] = "swap"
        BY <3>1, SwapsIn DEF Refining
      <4>2. q = p
        BY <1>2, <2>1, <3>1, <4>1, OthersStay DEF Swap, SwapFails, Call, Goto, Refining, Typed, TypeOK
      <4>3. log[t].pending = built /\ built # None
        BY <2>1, <3>1, <4>2, NoneMade
      <4>. QED BY <2>4, <2>10, <4>3 DEF Refining, Fit, LogFits
    <3>. QED BY <2>1, <3>1, OpenStays DEF Refining
  <2>11. Open' = [Open EXCEPT ![s] = {}]
    BY <2>9, <2>10 DEF Open
  <2>. DEFINE inherited == IF ref[r] = None THEN commits[base].tree ELSE {}
  <2>12. Facts[r] = IF ref[r] = None THEN {} ELSE commits[base].tree
    BY <2>5, NoneMade DEF Facts
  <2>13. Facts' = [Facts EXCEPT ![r] = @ \cup inherited \cup Open[s]]
    <3>1. Facts'[r] = commits[base].tree \cup commits[built].ops
      BY <2>1, <2>4, <2>6, NoneMade DEF Facts, Refining, Typed, TypeOK
    <3>2. \A x \in Ref : x # r => Facts'[x] = Facts[x]
      BY <2>1, <2>4 DEF Facts, Refining, Typed, TypeOK
    <3>3. Facts'[r] = Facts[r] \cup inherited \cup Open[s]
      BY <2>9, <2>12, <3>1
    <3>. QED BY <3>2, <3>3 DEF Facts
  <2>14. Open[s] # {} /\ Open[s] \cap (Facts[r] \cup inherited) = {}
    BY <2>6, <2>9, <2>12
  <2>15. inherited \in SUBSET (IF Facts[r] = {} THEN Facts[Main] ELSE {})
    <3>1. CASE ref[r] # None
      BY <3>1
    <3>2. CASE ref[r] = None
      <4>1. base \in Reach(Main) /\ Main \in Ref
        BY <2>1, <2>2, <2>3, <3>2, SessionAssumption DEF Refining, Rooted, Roots, Reach
      <4>2. commits[base].tree \subseteq Facts[Main]
        BY <4>1, ReachHeld DEF Refining
      <4>. QED BY <2>12, <3>2, <4>2
    <3>. QED BY <3>1, <3>2
  <2>. HIDE DEF inherited
  <2>16. Ledger!Land(s)
    BY <2>3, <2>11, <2>13, <2>14, <2>15 DEF Ledger!Land, Facts, Open
  <2>. QED BY <2>16 DEF Simulated, Ledger!Next
<1>. QED BY <1>1, <1>2

\* A commit of the index adds to the checked-out branch what was staged.
LEMMA IndexSimulated ==
    ASSUME Refining, [Next]_vars, CommitIndex, UNCHANGED log,
           \A p \in Proc : job'[p] = job[p] /\ pc'[p] = pc[p]
    PROVE  Simulated
<1>1. next \in CommitId /\ Main \in Ref /\ ref[Main] \in CommitId /\ index \subseteq Fact
  BY SessionAssumption DEF CommitIndex, NewCommit, Refining, Typed, TypeOK, CommitId
<1>2. ref' = [ref EXCEPT ![Main] = next] /\ commits'[next].tree = index
  BY <1>1 DEF CommitIndex, NewCommit, Refining, Typed, TypeOK
<1>3. next # None /\ ref[Main] # None /\ Facts[Main] = HeadTree /\ HeadTree \subseteq index
  BY <1>1, SessionAssumption DEF CommitId, Facts, HeadTree, Refining, Shared, NoStagedDeletion
<1>4. Keeps /\ \A r \in Ref : ref[r] # None => ref[r] \in Made(next)
  BY KeepsStep DEF Refining, Fit
<1>5. \A r \in Ref : r # Main => Facts'[r] = Facts[r]
  BY <1>1, <1>2, <1>4 DEF Facts, Keeps, Refining, Typed, TypeOK
<1>6. Facts'[Main] = Facts[Main] \cup index
  BY <1>1, <1>2, <1>3 DEF Facts, Refining, Typed, TypeOK
<1>7. Facts' = [Facts EXCEPT ![Main] = @ \cup index]
  <2>1. \A r \in Ref : Facts'[r] = [Facts EXCEPT ![Main] = @ \cup index][r]
    BY <1>5, <1>6 DEF Facts
  <2>2. Facts = [r \in Ref |-> Facts[r]] /\ Facts' = [r \in Ref |-> Facts'[r]]
    BY DEF Facts
  <2>. QED BY <2>1, <2>2
<1>8. \A p \in Proc : ~Swap(p) /\ ~SwapFails(p)
  BY DEF Swap, SwapFails, Goto, Refining, Typed, TypeOK
<1>9. Open' = Open
  <2>1. \A s \in Session : Open'[s] = Open[s]
    BY <1>8, OpenStays DEF Refining
  <2>. QED BY <2>1 DEF Open
<1>10. Ledger!Other
  BY <1>1, <1>7, <1>9 DEF Ledger!Other, Facts, Open
<1>. QED BY <1>10 DEF Simulated, Ledger!Next

LEMMA StepSimulated == ASSUME Refining, [Next]_vars PROVE Simulated
<1>1. ASSUME NEW p \in Proc,
             \/ \E s \in Session, kind \in Calls : Read(p, s, kind)
             \/ Call(p) \/ LandTimeout(p) \/ SwapFails(p) \/ Fails(p) \/ Crash(p) \/ Respawn(p)
      PROVE  Simulated
  <2>1. CASE Put(p) \/ PutSettled(p) \/ Rebase(p) \/ ForgetPending(p) \/ Clear(p) \/ Build(p)
             \/ Start(p) \/ Recover(p) \/ Final(p) \/ Replace(p) \/ Swap(p) \/ SwapFails(p)
    BY <2>1, PutSimulated, KeptSimulated, EmptiedSimulated, ReplaceSimulated, SwapSimulated
  <2>2. CASE \/ \E s \in Session, kind \in Calls : Read(p, s, kind)
             \/ Onto(p) \/ TakeSession(p) \/ Refuse(p) \/ StartSettle(p) \/ Settle(p) \/ Rollback(p)
             \/ SkipRecovery(p) \/ Invalid(p) \/ RebaseNeeded(p) \/ Land(p) \/ Sync(p)
             \/ AfterFailure(p) \/ Unsync(p) \/ RefuseReplace(p) \/ LandTimeout(p) \/ Fails(p)
             \/ Crash(p) \/ Respawn(p)
    <3>1. UNCHANGED <<ref, log>>
      BY <2>2 DEF Read, Onto, TakeSession, Refuse, StartSettle, Settle, Rollback, SkipRecovery, Invalid,
           RebaseNeeded, Land, Sync, AfterFailure, Unsync, RefuseReplace, LandTimeout, Fails, Crash,
           Respawn, gitVars
    <3>. QED BY <3>1, QuietSimulated DEF Refining
  <2>. QED BY <1>1, <2>1, <2>2, Zenon DEF Call
<1>2. CASE /\ UNCHANGED log /\ \A p \in Proc : job'[p] = job[p] /\ pc'[p] = pc[p]
           /\ UNCHANGED gitVars \/ CommitIndex
  BY <1>2, QuietSimulated, IndexSimulated DEF Refining, gitVars
<1>. QED BY <1>1, <1>2, NobodysStep DEF Refining

LEMMA InitRefining == Init => Refining
<1>. SUFFICES ASSUME Init PROVE Refining
  OBVIOUS
<1>1. Made(next) = {0} /\ commits[0] = [NoCommit EXCEPT !.anc = {0}]
  BY SessionAssumption DEF Init, Made, CommitId
<1>2. Monotone
  BY <1>1 DEF Monotone, NoCommit
<1>3. Away
  BY <1>1, SessionAssumption DEF Away, NoCommit
<1>4. Rooted
  <2>1. ref[Main] = 0 /\ Main \in Ref /\ 0 # None
    BY SessionAssumption DEF Init
  <2>2. 0 \in Reach(Main)
    BY <1>1, <2>1 DEF Reach, NoCommit
  <2>. QED BY <2>2 DEF Rooted, Roots, Init, EmptyLog
<1>5. AllNamed
  BY DEF Init, AllNamed, Named, InLog, NoJob
<1>. QED BY <1>2, <1>3, <1>4, <1>5, InitTyped, InitFits, InitPrivate, InitOwned, InitShared DEF Refining

LEMMA RefiningStep ==
    ASSUME {"stall", "user", "blind"} \cap Env = {}, Refining, [Next]_vars
    PROVE  Refining'
<1>1. Typed' /\ Fit' /\ Private' /\ Shared'
  BY TypedStep, FitStep, PrivateStep, SharedStep DEF Refining
<1>2. Owned' /\ NoOpLost'
  BY OwnedStep DEF Refining
<1>3. Monotone' /\ Rooted' /\ Away' /\ AllNamed'
  BY <1>1, MonotoneStep, RootedStep, AwayStep, NamedStep DEF Refining, Shared
<1>. QED BY <1>1, <1>2, <1>3 DEF Refining

\* The commit path is the ledger, for every number of processes, sessions, files and refs, and
\* with kills and failures anywhere, while no lock in use is lost, nobody commits or stages by
\* hand and git answers: a session's ops reach its branch all at once and once, over a branch
\* that holds none of them, and nothing but a forced start gives up an op no branch holds
\* (commit.ts commitSession and landOnRef, settle.ts, session.ts).
THEOREM CommitPathImplementsLedger ==
    ASSUME {"stall", "user", "blind"} \cap Env = {}
    PROVE  Spec => ImplementsLedger
<1>1. Refining /\ [Next]_vars => Simulated
  BY StepSimulated
<1>2. Refining /\ [Next]_vars => Refining'
  BY RefiningStep
<1>. QED BY <1>1, <1>2, InitRefining, InitSimulated, PTL
         DEF Spec, ImplementsLedger, Ledger!Spec, Simulated
=============================================================================
