-------------------------- MODULE SessionCommitAlone --------------------------
(***************************************************************************)
(* What holds of SessionCommit while the calls on a session come one at a  *)
(* time, for every number of processes, sessions, files and refs: however  *)
(* they are killed and fail, a log says what has become of its ops.  Two   *)
(* processes that race on one session may leave it saying otherwise.       *)
(***************************************************************************)
EXTENDS SessionCommitRefines

InCall(p) == pc[p] \notin {"idle", "dead"}

\* No two processes are in a call on the same session.
Unshared == \A p, q \in Proc : InCall(p) /\ InCall(q) /\ job[p].s = job[q].s => p = q

\* Where a process has not written its log since it read it, or since it gave up its `pending`.
Reading == {"onto", "read", "held", "settle", "rollback", "landed", "unlanded", "prepare", "replace"}

\* What the commits made for a session were built from, on a ref or not.
OpsBy(s) == UNION {commits[c].ops : c \in {d \in Made(next) : commits[d].by = s}}

\* What a session's log and its commits hold was given to a put.
Tried == \A s \in Session : log[s].ops \cup OpsBy(s) \subseteq tried[s]

\* What a process that is alone with its session knows: the log's ops, its `pending`, that what
\* it settles in vain is on no ref, and that what it puts is new.
Knows(p) ==
    /\ InCall(p) => /\ log[job[p].s].ops = job[p].copy.ops
                    /\ job[p].kind = "put" =>
                         /\ job[p].new \subseteq tried[job[p].s]
                         /\ job[p].new \cap (log[job[p].s].ops \cup OpsBy(job[p].s)) = {}
    /\ pc[p] \in Reading => log[job[p].s].pending = job[p].copy.pending
    /\ pc[p] \in HasBuilt => log[job[p].s].pending = job[p].built
    /\ pc[p] \in {"prepare", "replace"} => log[job[p].s].pending = None
    /\ pc[p] \in {"rollback", "unlanded"} => ~HasLanded(p)

AllKnow == \A p \in Proc : Knows(p)

-----------------------------------------------------------------------------
\* A step of process p.
StepOf(p) == \/ \E s \in Session, kind \in Calls : Read(p, s, kind)
             \/ Call(p)
             \/ LandTimeout(p) \/ SwapFails(p) \/ Fails(p) \/ Crash(p) \/ Respawn(p)

LEMMA TriedGrows == ASSUME Typed, [Next]_vars PROVE \A s \in Session : tried[s] \subseteq tried'[s]
<1>1. ASSUME NEW p \in Proc, NEW t \in Session, NEW kind \in Calls, Read(p, t, kind)
      PROVE  \A s \in Session : tried[s] \subseteq tried'[s]
  <2>1. UNCHANGED tried \/ \E f \in Fact : tried' = [tried EXCEPT ![t] = @ \cup {f}]
    BY <1>1, Zenon DEF Read
  <2>. QED BY <2>1 DEF Typed, TypeOK
<1>2. ASSUME NEW p \in Proc, Call(p) \/ LandTimeout(p) \/ SwapFails(p) \/ Fails(p)
      PROVE  UNCHANGED tried
  BY <1>2 DEF Call, Onto, TakeSession, Refuse, Start, Rebase, Put, PutSettled, Append,
              StartSettle, Settle, Rollback, Recover, ForgetPending, SkipRecovery, Invalid,
              RebaseNeeded, Build, Land, Sync, Swap, AfterFailure, Unsync, Clear, Final, Replace,
              RefuseReplace, LandTimeout, SwapFails, Fails
<1>3. ASSUME NEW p \in Proc \cup V1, V1Stage(p) \/ V1Commit(p) \/ V1Compensate(p) \/ Crash(p) \/ Respawn(p)
      PROVE  UNCHANGED tried
  BY <1>3 DEF V1Stage, V1Commit, V1Compensate, Crash, Respawn
<1>4. CASE (\E s \in Session : ReclaimSession(s)) \/ ReclaimCheckout \/ User \/ UNCHANGED vars
  BY <1>4 DEF ReclaimSession, ReclaimCheckout, User, vars
<1>. QED BY <1>1, <1>2, <1>3, <1>4 DEF Next

\* What is built for a session comes from the process that builds it.
LEMMA OpsByStep ==
    ASSUME Typed, Fit, [Next]_vars, NEW s \in Session
    PROVE  \/ OpsBy(s)' = OpsBy(s)
           \/ \E p \in Proc : Build(p) /\ job[p].s = s /\ OpsBy(s)' = OpsBy(s) \cup job[p].copy.ops
<1>0. Keeps /\ next \in Nat
  BY KeepsStep, SessionAssumption DEF Typed, TypeOK
<1>1. CASE UNCHANGED <<commits, next>>
  BY <1>1 DEF OpsBy
<1>2. ASSUME NEW b, NEW tree, NEW ops, NEW by, NewCommit(b, tree, ops, by)
      PROVE  OpsBy(s)' = IF by = s THEN OpsBy(s) \cup ops ELSE OpsBy(s)
  <2>1. next \in CommitId /\ Made(next') = Made(next) \cup {next} /\ next \notin Made(next)
    BY <1>0, <1>2, SessionAssumption DEF NewCommit, CommitId, Made
  <2>2. commits'[next].by = by /\ commits'[next].ops = ops
    BY <1>2, <2>1 DEF NewCommit, Typed, TypeOK
  <2>3. \A c \in Made(next) : commits'[c] = commits[c]
    BY <1>0 DEF Keeps
  <2>. QED BY <2>1, <2>2, <2>3 DEF OpsBy
<1>3. ASSUME NEW p \in Proc, Build(p)
      PROVE  OpsBy(s)' = IF job[p].s = s THEN OpsBy(s) \cup job[p].copy.ops ELSE OpsBy(s)
  BY <1>2, <1>3 DEF Build
<1>4. CASE CommitIndex
  <2>1. OpsBy(s)' = IF None = s THEN OpsBy(s) \cup {} ELSE OpsBy(s)
    BY <1>2, <1>4 DEF CommitIndex
  <2>. QED BY <2>1
<1>. QED BY <1>1, <1>3, <1>4, WhoWritesGit DEF gitVars, Swap, SwapFails

-----------------------------------------------------------------------------
(* What a process goes on knowing *)

\* The session of a process in a call, with what it knows of it.
LEMMA KnowsHere ==
    ASSUME Typed, AllKnow, NEW p \in Proc, InCall(p)
    PROVE  /\ job[p].s \in Session /\ RefOf[job[p].s] \in Ref
           /\ log[job[p].s] \in Log
           /\ Knows(p)
  BY SessionAssumption DEF InCall, Typed, TypeOK, JobTyped, AllKnow

LEMMA KnowsNothing ==
    ASSUME Typed, NEW p \in Proc, NEW w \in {"idle", "dead"}, Goto(p, w)
    PROVE  Knows(p)'
<1>1. pc'[p] = w
  BY DEF Goto, Typed, TypeOK
<1>2. w \notin Reading /\ w \notin HasBuilt
  BY DEF Reading, HasBuilt
<1>. QED BY <1>1, <1>2 DEF Knows, InCall

\* A process that goes on with the log and the job it had.
LEMMA KnowsGoes ==
    ASSUME Typed, Fit, AllKnow, NEW p \in Proc, InCall(p), NEW w, Goto(p, w),
           UNCHANGED <<log, job, gitVars>> \/ (UNCHANGED <<log, job, commits, next>> /\ w \notin {"rollback", "unlanded"}),
           w \in Reading => pc[p] \in Reading,
           w \in HasBuilt => pc[p] \in HasBuilt,
           w \in {"prepare", "replace"} => log[job[p].s].pending = None,
           w \in {"rollback", "unlanded"} => ~HasLanded(p),
           UNCHANGED tried
    PROVE  Knows(p)'
<1>1. pc'[p] = w /\ UNCHANGED <<log, job, commits, next>>
  BY DEF Goto, Typed, TypeOK, gitVars
<1>2. OpsBy(job[p].s)' = OpsBy(job[p].s)
  BY <1>1 DEF OpsBy
<1>3. w \in {"rollback", "unlanded"} => ~HasLanded(p)'
  BY <1>1 DEF HasLanded, Reach, gitVars
<1>. QED BY <1>1, <1>2, <1>3, KnowsHere DEF Knows, InCall

LEMMA KnowsRead ==
    ASSUME Typed, Tried, NEW p \in Proc, NEW s \in Session, NEW kind \in Calls, Read(p, s, kind)
    PROVE  Knows(p)'
<1>1. PICK new : /\ job' = [job EXCEPT ![p] = CallOf(s, kind, new)]
                 /\ kind = "put" => \E f \in Fact \ tried[s] : /\ new = {f}
                                                              /\ tried' = [tried EXCEPT ![s] = @ \cup {f}]
  BY Zenon DEF Read
<1>2. /\ CallOf(s, kind, new).copy = log[s] /\ CallOf(s, kind, new).s = s
      /\ CallOf(s, kind, new).kind = kind /\ CallOf(s, kind, new).new = new
  BY DEF CallOf, NoJob
<1>3. job'[p] = CallOf(s, kind, new) /\ pc'[p] \in {"onto", "read"} /\ UNCHANGED <<log, commits, next>>
  BY <1>1 DEF Read, Goto, Typed, TypeOK, gitVars
<1>4. pc'[p] \notin HasBuilt
  BY <1>3 DEF HasBuilt
<1>5. OpsBy(s)' = OpsBy(s) /\ log[s].ops \cup OpsBy(s) \subseteq tried[s]
  BY <1>3 DEF OpsBy, Tried
<1>6. kind = "put" => new \subseteq tried'[s] /\ new \cap (log[s].ops \cup OpsBy(s)) = {}
  BY <1>1, <1>5 DEF Typed, TypeOK
<1>. QED BY <1>2, <1>3, <1>4, <1>5, <1>6 DEF Knows, InCall

LEMMA KnowsMoves ==
    ASSUME Typed, Fit, AllKnow, NEW p \in Proc,
           \/ TakeSession(p) \/ Settle(p) \/ Rollback(p) \/ SkipRecovery(p) \/ Land(p)
           \/ LandTimeout(p) \/ Swap(p) \/ SwapFails(p) \/ Unsync(p)
    PROVE  Knows(p)'
<1>. USE DEF Reading, HasBuilt
<1>1. CASE TakeSession(p)
  BY <1>1, KnowsGoes DEF TakeSession, InCall
<1>2. CASE Settle(p)
  <2>1. /\ InCall(p) /\ pc[p] = "settle" /\ UNCHANGED <<log, job, gitVars, tried>>
        /\ Goto(p, "landed") \/ (~HasLanded(p) /\ (Goto(p, "rollback") \/ Goto(p, "unlanded")))
    BY <1>2 DEF Settle, InCall
  <2>. QED BY <2>1, KnowsGoes
<1>3. CASE Rollback(p)
  <2>1. InCall(p) /\ pc[p] = "rollback" /\ UNCHANGED <<log, job, gitVars, tried>> /\ Goto(p, "unlanded")
    BY <1>3 DEF Rollback, InCall
  <2>2. ~HasLanded(p)
    BY <2>1, KnowsHere DEF Knows
  <2>. QED BY <2>1, <2>2, KnowsGoes
<1>4. CASE SkipRecovery(p)
  <2>1. /\ InCall(p) /\ pc[p] = "held" /\ UNCHANGED <<log, job, gitVars, tried>> /\ Goto(p, "prepare")
        /\ job[p].copy.pending = None
    BY <1>4 DEF SkipRecovery, InCall
  <2>2. log[job[p].s].pending = None
    BY <2>1, KnowsHere DEF Knows
  <2>. QED BY <2>1, <2>2, KnowsGoes
<1>5. CASE Land(p) \/ LandTimeout(p) \/ Unsync(p)
  <2>1. /\ InCall(p) /\ pc[p] \in {"land", "unsync"} /\ UNCHANGED <<log, job, gitVars, tried>>
        /\ \E w \in {"clear", "sync", "swap"} : Goto(p, w)
    BY <1>5 DEF Land, LandTimeout, Unsync, InCall
  <2>. QED BY <2>1, KnowsGoes
<1>6. CASE Swap(p) \/ SwapFails(p)
  <2>1. /\ InCall(p) /\ pc[p] = "swap" /\ UNCHANGED <<log, job, commits, next, tried>>
        /\ \E w \in {"final", "unsync", "clear", "fail"} : Goto(p, w)
    BY <1>6 DEF Swap, SwapFails, InCall
  <2>. QED BY <2>1, KnowsGoes
<1>. QED BY <1>1, <1>2, <1>3, <1>4, <1>5, <1>6

LEMMA KnowsJobs ==
    ASSUME Typed, Fit, AllKnow, NEW p \in Proc, Onto(p) \/ StartSettle(p)
    PROVE  Knows(p)'
<1>1. InCall(p) /\ UNCHANGED <<log, commits, next, tried>>
  BY DEF Onto, StartSettle, InCall, gitVars
<1>2. \A s \in Session : OpsBy(s)' = OpsBy(s)
  BY <1>1 DEF OpsBy
<1>3. CASE Onto(p)
  <2>. DEFINE j == [job[p] EXCEPT !.copy.base = TipFor(RefOf[job[p].s])]
  <2>1. job'[p] = j /\ pc'[p] = "read" /\ pc[p] = "onto"
    BY <1>3 DEF Onto, Goto, Typed, TypeOK
  <2>2. /\ j.kind = job[p].kind /\ j.new = job[p].new /\ j.s = job[p].s
        /\ j.copy.ops = job[p].copy.ops /\ j.copy.pending = job[p].copy.pending
    BY TypedJob DEF Job, Log
  <2>. QED BY <1>1, <1>2, <2>1, <2>2, KnowsHere DEF Knows, InCall, Reading, HasBuilt
<1>4. CASE StartSettle(p)
  <2>. DEFINE j == [job[p] EXCEPT !.built = ToSettle(p)]
  <2>1. job'[p] = j /\ pc'[p] = "settle" /\ pc[p] = "held"
    BY <1>4 DEF StartSettle, Goto, Typed, TypeOK
  <2>2. /\ j.kind = job[p].kind /\ j.new = job[p].new /\ j.s = job[p].s
        /\ j.copy = job[p].copy /\ j.built = ToSettle(p)
    BY TypedJob DEF Job
  <2>3. ToSettle(p) = log[job[p].s].pending
    BY <1>1, <2>1, KnowsHere DEF Knows, Reading, ToSettle
  <2>. QED BY <1>1, <1>2, <2>1, <2>2, <2>3, KnowsHere DEF Knows, InCall, Reading, HasBuilt
<1>. QED BY <1>3, <1>4

LEMMA KnowsWrites ==
    ASSUME Typed, Fit, AllKnow, NEW p \in Proc, ForgetPending(p) \/ Build(p) \/ Replace(p), [Next]_vars
    PROVE  Knows(p)'
<1>1. InCall(p) /\ UNCHANGED tried
  BY DEF ForgetPending, Build, Replace, InCall
<1>2. Knows(p) /\ job[p].s \in Session /\ log[job[p].s].ops = job[p].copy.ops
  BY <1>1, KnowsHere DEF Knows
<1>3. CASE ForgetPending(p)
  <2>. DEFINE j == [job[p] EXCEPT !.copy.pending = None, !.built = None]
              l == [job[p].copy EXCEPT !.pending = None]
  <2>1. job'[p] = j /\ pc'[p] = "prepare" /\ WriteLog(p, l) /\ UNCHANGED <<commits, next>>
    BY <1>3 DEF ForgetPending, Goto, Typed, TypeOK, gitVars
  <2>2. /\ j.kind = job[p].kind /\ j.new = job[p].new /\ j.s = job[p].s
        /\ j.copy.ops = job[p].copy.ops /\ j.copy.pending = None
        /\ l.ops = job[p].copy.ops /\ l.pending = None
    BY TypedJob DEF Job, Log
  <2>. HIDE DEF l, j
  <2>3. log'[job[p].s] = l /\ \A s \in Session : OpsBy(s)' = OpsBy(s)
    BY <1>2, <2>1, WritesItsOwn DEF OpsBy
  <2>. QED BY <1>1, <1>2, <2>1, <2>2, <2>3 DEF Knows, InCall, Reading, HasBuilt
<1>4. CASE Build(p)
  <2>. DEFINE l == [job[p].copy EXCEPT !.pending = next]
              j == [job[p] EXCEPT !.built = next, !.expected = ref[RefOf[job[p].s]]]
  <2>1. job'[p] = j /\ pc'[p] = "land" /\ WriteLog(p, l)
    BY <1>4 DEF Build, Goto, Typed, TypeOK
  <2>2. /\ j.kind = job[p].kind /\ j.new = job[p].new /\ j.s = job[p].s
        /\ j.copy = job[p].copy /\ j.built = next
        /\ l.ops = job[p].copy.ops /\ l.pending = next
    BY TypedJob DEF Job, Log
  <2>. HIDE DEF l, j
  <2>3. log'[job[p].s] = l
    BY <1>2, <2>1, WritesItsOwn
  <2>4. \A s \in Session : OpsBy(s)' \subseteq OpsBy(s) \cup job[p].copy.ops
    <3>1. \A q \in Proc : Build(q) => q = p
      BY <1>4, <2>1 DEF Build, Goto, Typed, TypeOK
    <3>. QED BY <1>2, <3>1, OpsByStep
  <2>. QED BY <1>1, <1>2, <2>1, <2>2, <2>3, <2>4 DEF Knows, InCall, Reading, HasBuilt
<1>5. CASE Replace(p) /\ Done(p)
  BY <1>5, KnowsNothing DEF Done
<1>6. CASE Replace(p) /\ ~Done(p)
  <2>. DEFINE l == [job[p].copy EXCEPT !.ops = Kept(p), !.pending = None]
              j == [job[p] EXCEPT !.copy = l, !.built = None]
  <2>1. /\ job'[p] = j /\ pc'[p] = "read" /\ WriteLog(p, l) /\ UNCHANGED <<commits, next>>
    BY <1>6 DEF Replace, Goto, Typed, TypeOK, gitVars
  <2>2. /\ j.kind = job[p].kind /\ j.new = job[p].new /\ j.s = job[p].s /\ j.copy = l
        /\ l.ops \subseteq job[p].copy.ops /\ l.pending = None
    BY TypedJob DEF Job, Log, Kept
  <2>. HIDE DEF l, j
  <2>3. log'[job[p].s] = l /\ \A s \in Session : OpsBy(s)' = OpsBy(s)
    BY <1>2, <2>1, WritesItsOwn DEF OpsBy
  <2>. QED BY <1>1, <1>2, <2>1, <2>2, <2>3 DEF Knows, InCall, Reading, HasBuilt
<1>. QED BY <1>3, <1>4, <1>5, <1>6

LEMMA KnowsItself ==
    ASSUME Typed, Fit, Tried, AllKnow, [Next]_vars, NEW p \in Proc, StepOf(p)
    PROVE  Knows(p)'
<1>1. ASSUME Done(p) PROVE Knows(p)'
  BY <1>1, KnowsNothing DEF Done
<1>2. CASE \E s \in Session, kind \in Calls : Read(p, s, kind)
  BY <1>2, KnowsRead
<1>3. CASE \/ Refuse(p) \/ RebaseNeeded(p) \/ AfterFailure(p) \/ RefuseReplace(p) \/ Fails(p)
           \/ Start(p) \/ Rebase(p) \/ Clear(p) \/ Recover(p) \/ Final(p) \/ Put(p) \/ PutSettled(p)
  BY <1>1, <1>3 DEF Refuse, RebaseNeeded, AfterFailure, CommitFails, RefuseReplace, Fails, Start, Rebase,
       Clear, Recover, Final, Put, PutSettled, Append
<1>4. CASE Crash(p) \/ Respawn(p)
  <2>1. \E w \in {"idle", "dead"} : Goto(p, w)
    BY <1>4 DEF Crash, Respawn
  <2>. QED BY <2>1, KnowsNothing
<1>5. CASE Invalid(p) \/ Sync(p)
  <2>1. \/ Done(p)
        \/ /\ UNCHANGED <<log, job, gitVars, tried>> /\ InCall(p)
           /\ \/ pc[p] = "prepare" /\ Goto(p, "replace")
              \/ pc[p] = "sync" /\ Goto(p, "swap")
    BY <1>5 DEF Invalid, Sync, InCall
  <2>2. InCall(p) /\ pc[p] = "prepare" => log[job[p].s].pending = None
    BY KnowsHere DEF Knows
  <2>. QED BY <1>1, <2>1, <2>2, KnowsGoes DEF Reading, HasBuilt
<1>. QED BY <1>2, <1>3, <1>4, <1>5, KnowsMoves, KnowsJobs, KnowsWrites, Zenon DEF StepOf, Call

\* What one process does to its session leaves what the others know of theirs.
LEMMA KnowsStays ==
    ASSUME Typed, Fit, Owned, Away, AllKnow, [Next]_vars, NEW q \in Proc, job'[q] = job[q], pc'[q] = pc[q],
           InCall(q) => log'[job[q].s] = log[job[q].s] /\ \A p \in Proc : Build(p) => job[p].s # job[q].s
    PROVE  Knows(q)'
<1>1. CASE ~InCall(q)
  <2>1. pc'[q] \notin HasBuilt /\ pc'[q] \notin Reading
    BY <1>1 DEF InCall, HasBuilt, Reading
  <2>. QED BY <1>1, <2>1 DEF Knows, InCall
<1>2. CASE InCall(q)
  <2>1. PICK s \in Session : s = job[q].s
    BY <1>2, KnowsHere
  <2>2. OpsBy(s)' = OpsBy(s) /\ tried[s] \subseteq tried'[s]
    BY <1>2, <2>1, OpsByStep, TriedGrows
  <2>3. Knows(q) /\ log'[s] = log[s]
    BY <1>2, <2>1 DEF AllKnow
  <2>4. pc[q] \in {"rollback", "unlanded"} => job[q].built \notin Reach(RefOf[s])'
    BY <2>1, <2>3, UnlandedStays DEF Knows
  <2>5. pc[q] \in {"rollback", "unlanded"} => ~HasLanded(q)'
    BY <2>1, <2>4 DEF HasLanded, Reach
  <2>. QED BY <1>2, <2>1, <2>2, <2>3, <2>5 DEF Knows, InCall
<1>. QED BY <1>1, <1>2

LEMMA KnowsStep ==
    ASSUME Typed, Fit, Owned, NoOpLost, Away, Unshared, Tried, AllKnow, [Next]_vars
    PROVE  AllKnow'
<1>1. ASSUME NEW p \in Proc, StepOf(p) PROVE AllKnow'
  <2>1. Knows(p)'
    BY <1>1, KnowsItself
  <2>2. Footprint(p)
    BY <1>1, GoodStep DEF Good, StepOf
  <2>3. WritesBase(p)
    BY <1>1, Bases DEF StepOf
  <2>4. ASSUME NEW q \in Proc, q # p PROVE Knows(q)'
    <3>1. job'[q] = job[q] /\ pc'[q] = pc[q]
      BY <2>2, <2>4 DEF Footprint
    <3>2. ASSUME InCall(q) PROVE log'[job[q].s] = log[job[q].s]
      <4>1. CASE UNCHANGED log
        BY <4>1
      <4>2. CASE ~UNCHANGED log
        <5>1. PICK l : WriteLog(p, l) /\ InCall(p)
          BY <2>3, <4>2 DEF WritesBase, InCall
        <5>2. job[p].s # job[q].s /\ job[q].s \in Session
          BY <2>4, <3>2, <5>1, KnowsHere DEF Unshared
        <5>. QED BY <5>1, <5>2, WritesItsOwn
      <4>. QED BY <4>1, <4>2
    <3>3. ASSUME InCall(q), NEW r \in Proc, Build(r) PROVE job[r].s # job[q].s
      <4>1. InCall(r) /\ pc[r] # pc'[r]
        BY <3>3 DEF Build, InCall, Goto, Typed, TypeOK
      <4>2. r # q
        BY <3>1, <4>1
      <4>. QED BY <3>3, <4>1, <4>2 DEF Unshared
    <3>. QED BY <3>1, <3>2, <3>3, KnowsStays
  <2>. QED BY <2>1, <2>4 DEF AllKnow
<1>2. ASSUME UNCHANGED log, \A p \in Proc : job'[p] = job[p] /\ pc'[p] = pc[p] PROVE AllKnow'
  <2>1. ASSUME NEW r \in Proc, Build(r) PROVE FALSE
    BY <1>2, <2>1 DEF Build, Goto, Typed, TypeOK
  <2>. QED BY <1>2, <2>1, KnowsStays DEF AllKnow
<1>. QED BY <1>1, <1>2, NobodysStep DEF StepOf

-----------------------------------------------------------------------------
(* What becomes of the ops of a log *)

\* What a process writes over its session's log, and where: nothing or its own new op; the log
\* as it read it; a log of ops that had no `pending`, or one that landed nowhere.
WritesOps(p, l) ==
    LET news == IF job[p].kind = "put" THEN job[p].new ELSE {}
    IN  \/ l.ops \subseteq news
        \/ pc[p] = "held" /\ l.ops = job[p].copy.ops /\ l.pending = job[p].copy.pending
        \/ /\ l.ops \subseteq job[p].copy.ops \cup news
           /\ pc[p] \in {"unlanded", "clear"} \/ log[job[p].s].pending = None

LEMMA WhatIsWritten ==
    ASSUME Typed, AllKnow, NEW p \in Proc, StepOf(p)
    PROVE  UNCHANGED log \/ \E l : WriteLog(p, l) /\ InCall(p) /\ WritesOps(p, l)
<1>1. CASE \/ \E s \in Session, kind \in Calls : Read(p, s, kind)
           \/ Onto(p) \/ TakeSession(p) \/ Refuse(p) \/ StartSettle(p) \/ Settle(p) \/ Rollback(p)
           \/ SkipRecovery(p) \/ Invalid(p) \/ RebaseNeeded(p) \/ Land(p) \/ Sync(p) \/ Swap(p)
           \/ AfterFailure(p) \/ Unsync(p) \/ RefuseReplace(p) \/ LandTimeout(p) \/ SwapFails(p)
           \/ Fails(p) \/ Crash(p) \/ Respawn(p)
  BY <1>1 DEF Read, Onto, TakeSession, Refuse, StartSettle, Settle, Rollback, SkipRecovery, Invalid,
       RebaseNeeded, Land, Sync, Swap, AfterFailure, Unsync, RefuseReplace, LandTimeout, SwapFails,
       Fails, Crash, Respawn
<1>2. CASE Start(p) \/ Recover(p) \/ Final(p)
  <2>1. PICK l : WriteLog(p, l) /\ l.ops = {}
    BY <1>2 DEF Start, Recover, Final, EmptyLog
  <2>2. InCall(p)
    BY <1>2 DEF Start, Recover, Final, InCall
  <2>. QED BY <2>1, <2>2 DEF WritesOps
<1>3. CASE Rebase(p)
  BY <1>3 DEF Rebase, InCall, WritesOps
<1>4. CASE Put(p) \/ PutSettled(p)
  <2>1. /\ InCall(p) /\ job[p].kind = "put" /\ job[p].copy \in Log
        /\ \/ log[job[p].s].pending = None /\ Append(p, job[p].copy)
           \/ pc[p] = "unlanded" /\ Append(p, job[p].copy)
           \/ /\ pc[p] = "landed"
              /\ Append(p, [job[p].copy EXCEPT !.base = job[p].built, !.ops = {}])
    BY <1>4, TypedJob DEF Put, PutSettled, InCall
  <2>2. \A l : Append(p, l) => WriteLog(p, [l EXCEPT !.ops = @ \cup job[p].new, !.pending = None])
    BY DEF Append
  <2>3. /\ [job[p].copy EXCEPT !.ops = @ \cup job[p].new, !.pending = None].ops = job[p].copy.ops \cup job[p].new
        /\ [[job[p].copy EXCEPT !.base = job[p].built, !.ops = {}]
              EXCEPT !.ops = @ \cup job[p].new, !.pending = None].ops = job[p].new
    BY <2>1 DEF Log
  <2>. QED BY <2>1, <2>2, <2>3 DEF WritesOps
<1>5. CASE ForgetPending(p) \/ Clear(p)
  <2>1. [job[p].copy EXCEPT !.pending = None].ops = job[p].copy.ops
    BY TypedJob DEF Log
  <2>2. InCall(p) /\ pc[p] \in {"unlanded", "clear"} /\ WriteLog(p, [job[p].copy EXCEPT !.pending = None])
    BY <1>5 DEF ForgetPending, Clear, InCall
  <2>. QED BY <2>1, <2>2 DEF WritesOps
<1>6. CASE Build(p) \/ Replace(p)
  <2>1. /\ [job[p].copy EXCEPT !.pending = next].ops = job[p].copy.ops
        /\ [job[p].copy EXCEPT !.ops = Kept(p), !.pending = None].ops \subseteq job[p].copy.ops
    BY TypedJob DEF Log, Kept
  <2>2. /\ InCall(p) /\ pc[p] \in {"prepare", "replace"}
        /\ \/ WriteLog(p, [job[p].copy EXCEPT !.pending = next])
           \/ WriteLog(p, [job[p].copy EXCEPT !.ops = Kept(p), !.pending = None])
    BY <1>6 DEF Build, Replace, InCall
  <2>3. log[job[p].s].pending = None
    BY <2>2 DEF AllKnow, Knows
  <2>. QED BY <2>1, <2>2, <2>3 DEF WritesOps
<1>. QED BY <1>1, <1>2, <1>3, <1>4, <1>5, <1>6, Zenon DEF StepOf, Call

LEMMA TriedStep == ASSUME Typed, Fit, AllKnow, Tried, [Next]_vars PROVE Tried'
<1>. SUFFICES ASSUME NEW s \in Session PROVE log'[s].ops \subseteq tried[s] /\ OpsBy(s)' \subseteq tried[s]
  BY TriedGrows DEF Tried
<1>1. ASSUME NEW p \in Proc, InCall(p), job[p].s = s
      PROVE  job[p].copy.ops \subseteq tried[s] /\ (job[p].kind = "put" => job[p].new \subseteq tried[s])
  BY <1>1 DEF AllKnow, Knows, Tried
<1>2. OpsBy(s)' \subseteq tried[s]
  <2>1. \A p \in Proc : Build(p) => InCall(p)
    BY DEF Build, InCall
  <2>. QED BY <1>1, <2>1, OpsByStep DEF Tried
<1>3. log'[s].ops \subseteq tried[s]
  <2>1. CASE log'[s] = log[s]
    BY <2>1 DEF Tried
  <2>2. ASSUME NEW p \in Proc, NEW l, WriteLog(p, l), InCall(p), WritesOps(p, l)
        PROVE  log'[s].ops \subseteq tried[s]
    <3>1. s # job[p].s => log'[s] = log[s]
      BY <2>2, WritesItsOwn
    <3>2. ASSUME s = job[p].s PROVE l.ops \subseteq tried[s]
      BY <1>1, <2>2, <3>2 DEF WritesOps
    <3>. QED BY <2>2, <3>1, <3>2, WritesItsOwn DEF Tried
  <2>. QED BY <2>1, <2>2, NobodysStep, WhatIsWritten DEF StepOf
<1>. QED BY <1>2, <1>3

LEMMA LandedIsBy == ASSUME Fit, NEW s \in Session PROVE Landed(s) \subseteq OpsBy(s)
<1>1. Reach(RefOf[s]) \subseteq Made(next)
  BY ReachMade, SessionAssumption
<1>. QED BY <1>1 DEF Landed, OpsBy

\* Only a swap of a session's own commit lands ops of the session.
LEMMA LandedStays ==
    ASSUME Typed, Fit, Away, [Next]_vars, NEW s \in Session,
           \A p \in Proc : Swap(p) \/ SwapFails(p) => ref' = ref \/ commits[job[p].built].by # s
    PROVE  Landed(s)' \subseteq Landed(s)
<1>0. Keeps /\ Fit' /\ RefOf[s] \in Ref
  BY KeepsStep, FitStep, SessionAssumption
<1>1. ASSUME NEW c \in Reach(RefOf[s])', commits'[c].by = s
      PROVE  c \in Reach(RefOf[s]) /\ commits'[c] = commits[c]
  <2>1. c \in Made(next')
    BY <1>0, <1>1, ReachMade DEF Fit, CommitFits, Reach
  <2>2. CASE c \in Made(next)
    <3>1. commits'[c] = commits[c] /\ commits[c].by = s
      BY <1>0, <1>1, <2>2 DEF Keeps
    <3>2. c \in Reach(RefOf[s])' <=> c \in Reach(RefOf[s])
      BY <2>2, <3>1, StaysOff
    <3>. QED BY <1>1, <3>1, <3>2
  <2>3. CASE c \notin Made(next)
    <3>1. Apart(c)'
      BY <1>1, <2>1, <2>3, NewIsApart
    <3>2. c \notin Reach(RefOf[s])'
      BY <1>0, <3>1 DEF Apart, Reach, Fit
    <3>. QED BY <1>1, <3>2
  <2>. QED BY <2>2, <2>3
<1>. QED BY <1>1 DEF Landed

LEMMA LandedStep ==
    ASSUME Typed, Fit, Private, Owned, Away, AllKnow, LandedOpsNamed, [Next]_vars
    PROVE  LandedOpsNamed'
<1>. SUFFICES ASSUME NEW s \in Session, log'[s].ops \cap Landed(s)' # {}
              PROVE  log'[s].pending # None /\ log'[s].pending \in Reach(RefOf[s])'
  BY DEF LandedOpsNamed, Landed, Reach
<1>0. Keeps /\ Grows /\ Fit' /\ RefOf[s] \in Ref
  BY KeepsStep, GrowsStep, FitStep, SessionAssumption
<1>1. ASSUME NEW p \in Proc, Swap(p) \/ SwapFails(p), ref' # ref, commits[job[p].built].by = s
      PROVE  log'[s].pending # None /\ log'[s].pending \in Reach(RefOf[s])'
  <2>1. /\ pc[p] = "swap" /\ job[p].s = s /\ job[p].built \in Made(next)
        /\ UNCHANGED <<log, job>> /\ job[p].built \in Reach(RefOf[job[p].s])'
    BY <1>1, SwapsIn
  <2>2. log[s].pending = job[p].built
    BY <2>1 DEF AllKnow, Knows, HasBuilt
  <2>3. job[p].built \in Reach(RefOf[s])'
    BY <2>1
  <2>. QED BY <2>1, <2>2, <2>3, NoneMade
<1>2. ASSUME Landed(s)' \subseteq Landed(s), log[s].ops \cap Landed(s) # {}, log'[s].pending = log[s].pending
      PROVE  log'[s].pending # None /\ log'[s].pending \in Reach(RefOf[s])'
  BY <1>0, <1>2 DEF LandedOpsNamed, Grows
<1>3. ASSUME Landed(s)' \subseteq Landed(s), NEW p \in Proc, InCall(p), job[p].s = s,
             NEW l, WriteLog(p, l), WritesOps(p, l)
      PROVE  log'[s].pending # None /\ log'[s].pending \in Reach(RefOf[s])'
  <2>1. log'[s] = l /\ Knows(p) /\ log[s].ops = job[p].copy.ops
    BY <1>3, WritesItsOwn DEF AllKnow, Knows
  <2>2. (IF job[p].kind = "put" THEN job[p].new ELSE {}) \cap Landed(s) = {}
    BY <1>0, <1>3, <2>1, LandedIsBy DEF Knows
  <2>3. ~ (l.ops \subseteq IF job[p].kind = "put" THEN job[p].new ELSE {})
    BY <1>3, <2>1, <2>2
  <2>4. CASE pc[p] = "held" /\ l.ops = job[p].copy.ops /\ l.pending = job[p].copy.pending
    BY <1>2, <1>3, <2>1, <2>4 DEF Knows, Reading
  <2>5. ASSUME l.ops \subseteq job[p].copy.ops \cup IF job[p].kind = "put" THEN job[p].new ELSE {},
               pc[p] \in {"unlanded", "clear"} \/ log[s].pending = None
        PROVE  FALSE
    <3>1. log[s].ops \cap Landed(s) # {}
      BY <1>3, <2>1, <2>2, <2>5
    <3>2. log[s].pending # None /\ log[s].pending \in Reach(RefOf[s])
      BY <3>1 DEF LandedOpsNamed
    <3>3. log[s].pending = job[p].built
      BY <1>3, <2>1, <2>5, <3>2 DEF Knows, HasBuilt
    <3>4. pc[p] = "unlanded" => job[p].built \notin Reach(RefOf[s])
      BY <1>3, <2>1 DEF Knows, HasLanded
    <3>5. pc[p] = "clear" => job[p].built \notin Reach(RefOf[s])
      BY <1>0, ApartUnreached DEF Private, Landing
    <3>. QED BY <2>5, <3>2, <3>3, <3>4, <3>5
  <2>. QED BY <1>3, <2>3, <2>4, <2>5 DEF WritesOps
<1>4. CASE \A p \in Proc : Swap(p) \/ SwapFails(p) => ref' = ref \/ commits[job[p].built].by # s
  <2>1. Landed(s)' \subseteq Landed(s)
    BY <1>4, LandedStays
  <2>2. CASE log'[s] = log[s]
    BY <1>2, <2>1, <2>2
  <2>3. CASE log'[s] # log[s]
    <3>1. PICK p \in Proc : StepOf(p)
      BY <2>3, NobodysStep DEF StepOf
    <3>2. PICK l : WriteLog(p, l) /\ InCall(p) /\ WritesOps(p, l)
      BY <2>3, <3>1, WhatIsWritten
    <3>3. job[p].s = s
      BY <2>3, <3>2, WritesItsOwn
    <3>. QED BY <1>3, <2>1, <3>2, <3>3
  <2>. QED BY <2>2, <2>3
<1>. QED BY <1>1, <1>4

\* What is true while no two processes are in a call on one session.
Alone == /\ Typed /\ Fit /\ Private /\ Owned /\ NoOpLost /\ Away
         /\ Tried /\ AllKnow /\ LandedOpsNamed

LEMMA InitAlone == Init => Alone
<1>. SUFFICES ASSUME Init PROVE Alone
  OBVIOUS
<1>1. Typed /\ Fit /\ Private /\ Owned /\ NoOpLost /\ Away
  BY InitRefining DEF Refining
<1>2. Made(next) = {0} /\ commits[0] = [NoCommit EXCEPT !.anc = {0}]
  BY SessionAssumption DEF Init, Made, CommitId
<1>3. \A s \in Session : OpsBy(s) = {} /\ log[s].ops = {}
  <2>1. commits[0].ops = {}
    BY <1>2 DEF NoCommit
  <2>2. \A s \in Session : OpsBy(s) = {}
    BY <1>2, <2>1 DEF OpsBy
  <2>. QED BY <2>2 DEF Init, EmptyLog
<1>4. AllKnow
  BY DEF Init, AllKnow, Knows, InCall, Reading, HasBuilt
<1>5. LandedOpsNamed
  BY <1>3 DEF LandedOpsNamed
<1>. QED BY <1>1, <1>3, <1>4, <1>5 DEF Alone, Tried

LEMMA AloneStep == ASSUME "stall" \notin Env, Alone, Unshared, [Next]_vars PROVE Alone'
<1>1. Typed' /\ Fit' /\ Private' /\ Owned' /\ NoOpLost' /\ Away'
  BY TypedStep, FitStep, PrivateStep, OwnedStep, AwayStep DEF Alone
<1>2. Tried' /\ AllKnow' /\ LandedOpsNamed'
  BY TriedStep, KnowsStep, LandedStep DEF Alone
<1>. QED BY <1>1, <1>2 DEF Alone

\* While the calls on one session come one at a time, from whatever processes, a log that
\* still holds ops on its ref carries the `pending` that names their commit, whatever is
\* killed, fails or is pruned, whoever else uses the checkout and the ref: the next call on
\* the session has what it needs to settle it (settle.ts, session.ts appendOps).
THEOREM LandedOpsAreNamed == ASSUME "stall" \notin Env
                             PROVE  Spec /\ []Unshared => []LandedOpsNamed
<1>1. Alone => LandedOpsNamed
  BY DEF Alone
<1>2. Alone /\ Unshared /\ [Next]_vars => Alone'
  BY AloneStep
<1>. QED BY <1>1, <1>2, InitAlone, PTL DEF Spec

\* So no commit then refuses a session's ops as duplicates of themselves: what
\* SessionCommit's NotItsOwnDuplicate says is broken only by two processes that race on one
\* session (commit.ts step 1 after step 0).
THEOREM OwnOpsNotRefused == ASSUME "stall" \notin Env
                            PROVE  Spec /\ []Unshared => []NotItsOwnDuplicate
<1>1. ASSUME Alone PROVE NotItsOwnDuplicate
  <2>1. ASSUME NEW p \in Proc, pc[p] = "prepare" PROVE Duplicates(p) \cap Landed(job[p].s) = {}
    <3>1. /\ job[p].s \in Session /\ log[job[p].s].ops = job[p].copy.ops
          /\ log[job[p].s].pending = None
      BY <1>1, <2>1, KnowsHere DEF Alone, Knows, InCall
    <3>2. log[job[p].s].ops \cap Landed(job[p].s) = {}
      BY <1>1, <3>1 DEF Alone, LandedOpsNamed
    <3>. QED BY <3>1, <3>2 DEF Duplicates
  <2>. QED BY <2>1 DEF NotItsOwnDuplicate
<1>2. Alone /\ Unshared /\ [Next]_vars => Alone'
  BY AloneStep
<1>. QED BY <1>1, <1>2, InitAlone, PTL DEF Spec

-----------------------------------------------------------------------------
(* What is staged *)

\* Processes are killed, logs fail to be written and waits run out, but git does as it is
\* told; nobody writes through the v1 store, which stages files no log names, and nobody forces
\* a start, which throws the names away.
Orderly == Env \subseteq {"crash", "io", "timeout"} /\ V1 = {} /\ "start" \notin Calls

\* Where nothing of a session's ops is staged.
Unstaged == {"landed", "unlanded", "prepare", "land", "sync", "clear", "final"}

\* A session whose log may account for what is staged.
NamesStaged(s) == /\ RefOf[s] = Main /\ log[s].pending # None
                  /\ \A p \in Proc : job[p].s = s => pc[p] \notin Unstaged

Quiet == /\ work = index
         /\ \A p \in Proc : pc[p] \notin {"unsync", "fail"}
         /\ \A f \in index \ HeadTree : \E s \in Session : NamesStaged(s) /\ f \in log[s].ops

LEMMA QuietMoves ==
    ASSUME Typed, Quiet, NEW p \in Proc,
           \A q \in Proc : q # p => job'[q] = job[q] /\ pc'[q] = pc[q],
           \A s \in Session : s # job[p].s => log'[s] = log[s],
           work' = index', pc'[p] \notin {"unsync", "fail"},
           job'[p].s = job[p].s \/ pc'[p] \notin Unstaged,
           \A s \in Session : s = job[p].s /\ NamesStaged(s) =>
             \/ /\ log'[s].ops = log[s].ops /\ log'[s].pending = log[s].pending
                /\ pc'[p] \notin Unstaged
             \/ log[s].ops \cap (index' \ HeadTree') = {},
           \A f \in index' \ HeadTree' : \/ f \in index \ HeadTree
                                         \/ \E s \in Session : NamesStaged(s)' /\ f \in log'[s].ops
    PROVE  Quiet'
<1>1. ASSUME NEW f \in index' \ HeadTree', f \in index \ HeadTree
      PROVE  \E s \in Session : NamesStaged(s)' /\ f \in log'[s].ops
  <2>1. PICK s \in Session : NamesStaged(s) /\ f \in log[s].ops
    BY <1>1 DEF Quiet
  <2>2. /\ log'[s].ops = log[s].ops /\ log'[s].pending = log[s].pending
        /\ s = job[p].s => pc'[p] \notin Unstaged
    BY <1>1, <2>1
  <2>3. \A q \in Proc : job'[q].s = s => pc'[q] \notin Unstaged
    <3>1. \A q \in Proc : q # p => job'[q] = job[q] /\ pc'[q] = pc[q]
      OBVIOUS
    <3>. QED BY <2>1, <2>2, <3>1 DEF NamesStaged
  <2>. QED BY <2>1, <2>2, <2>3 DEF NamesStaged
<1>2. \A q \in Proc : pc'[q] \notin {"unsync", "fail"}
  BY DEF Quiet
<1>. QED BY <1>1, <1>2 DEF Quiet

\* A step that leaves the checkout and its branch.
LEMMA QuietHere ==
    ASSUME Typed, Fit, Keeps, Quiet, NEW p \in Proc,
           \A q \in Proc : q # p => job'[q] = job[q] /\ pc'[q] = pc[q],
           \A s \in Session : s # job[p].s => log'[s] = log[s],
           UNCHANGED treeVars, ref'[Main] = ref[Main], pc'[p] \notin {"unsync", "fail"},
           job'[p].s = job[p].s \/ pc'[p] \notin Unstaged,
           \A s \in Session : s = job[p].s /\ NamesStaged(s) =>
             \/ /\ log'[s].ops = log[s].ops /\ log'[s].pending = log[s].pending
                /\ pc'[p] \notin Unstaged
             \/ log[s].ops \subseteq HeadTree
    PROVE  Quiet'
<1>1. HeadTree' = HeadTree
  BY HeadStays
<1>2. index' = index /\ work' = index'
  BY DEF treeVars, Quiet
<1>3. \A s \in Session : s = job[p].s /\ NamesStaged(s) =>
        \/ /\ log'[s].ops = log[s].ops /\ log'[s].pending = log[s].pending
           /\ pc'[p] \notin Unstaged
        \/ log[s].ops \cap (index' \ HeadTree') = {}
  BY <1>1
<1>. QED BY <1>1, <1>2, <1>3, QuietMoves

\* The invariant: what the refinement rests on, what a process alone with its session knows,
\* and that what is staged has a name.
Calm == Refining /\ Alone /\ Quiet

\* What every step of a process leaves.
LEMMA Leaves ==
    ASSUME Calm, [Next]_vars, NEW p \in Proc, StepOf(p)
    PROVE  /\ Typed /\ Fit /\ Keeps /\ Owned /\ Quiet /\ Shared /\ AllKnow
           /\ \A q \in Proc : q # p => job'[q] = job[q] /\ pc'[q] = pc[q]
           /\ \A s \in Session : s # job[p].s => log'[s] = log[s]
<1>1. Typed /\ Fit /\ Keeps /\ Owned /\ NoOpLost /\ Quiet /\ Shared /\ AllKnow
  BY KeepsStep DEF Calm, Refining, Alone
<1>2. Footprint(p)
  BY <1>1, GoodStep DEF Good, StepOf
<1>3. WritesBase(p)
  BY <1>1, Bases DEF StepOf
<1>4. \A s \in Session : s # job[p].s => log'[s] = log[s]
  BY <1>1, <1>3, WritesItsOwn DEF WritesBase
<1>. QED BY <1>1, <1>2, <1>4 DEF Footprint

LEMMA QuietCalls ==
    ASSUME Orderly, Calm, [Next]_vars, NEW p \in Proc, StepOf(p),
           \/ \E s \in Session, kind \in Calls : Read(p, s, kind)
           \/ Onto(p) \/ TakeSession(p) \/ Refuse(p) \/ StartSettle(p) \/ Invalid(p)
           \/ RebaseNeeded(p) \/ RefuseReplace(p) \/ Fails(p) \/ Crash(p) \/ Respawn(p)
    PROVE  Quiet'
<1>1. UNCHANGED <<log, ref, treeVars>>
  BY DEF Read, Onto, TakeSession, Refuse, StartSettle, Invalid, RebaseNeeded, RefuseReplace, Fails,
         Crash, Respawn, gitVars
<1>2. \E w \in {"onto", "read", "held", "settle", "replace", "idle", "dead"} : Goto(p, w)
  <2>1. CASE \E s \in Session, kind \in Calls : Read(p, s, kind)
    <3>1. Goto(p, "onto") \/ Goto(p, "read")
      BY <2>1 DEF Read
    <3>. QED BY <3>1
  <2>2. CASE \/ Onto(p) \/ TakeSession(p) \/ Refuse(p) \/ StartSettle(p) \/ Invalid(p)
             \/ RebaseNeeded(p) \/ RefuseReplace(p) \/ Fails(p) \/ Crash(p) \/ Respawn(p)
    BY <2>2 DEF Onto, TakeSession, Refuse, StartSettle, Invalid, RebaseNeeded, RefuseReplace, Fails,
         Crash, Respawn, Done
  <2>. QED BY <2>1, <2>2
<1>3. pc'[p] \notin Unstaged /\ pc'[p] \notin {"unsync", "fail"}
  <2>1. pc'[p] \in {"onto", "read", "held", "settle", "replace", "idle", "dead"}
    BY <1>2, Leaves DEF Goto, Typed, TypeOK
  <2>. QED BY <2>1 DEF Unstaged
<1>. QED BY <1>1, <1>3, Leaves, QuietHere

LEMMA QuietSteps ==
    ASSUME Orderly, Calm, [Next]_vars, NEW p \in Proc, StepOf(p),
           SkipRecovery(p) \/ Land(p) \/ LandTimeout(p) \/ Settle(p)
    PROVE  Quiet'
<1>0. UNCHANGED <<log, job, ref, treeVars>>
  BY DEF SkipRecovery, Land, LandTimeout, Settle, gitVars
<1>1. \A s \in Session : s = job[p].s /\ NamesStaged(s) =>
        pc'[p] \notin Unstaged \/ log[s].ops \subseteq HeadTree
  <2>1. CASE SkipRecovery(p)
    <3>1. pc[p] = "held" /\ job[p].copy.pending = None
      BY <2>1 DEF SkipRecovery
    <3>2. log[job[p].s].pending = None
      BY <3>1, Leaves DEF AllKnow, Knows, Reading
    <3>. QED BY <3>2 DEF NamesStaged
  <2>2. CASE Land(p) \/ LandTimeout(p)
    BY <2>2 DEF Land, LandTimeout, NamesStaged, Unstaged
  <2>3. CASE Settle(p)
    <3>. SUFFICES ASSUME NEW s \in Session, s = job[p].s, RefOf[s] = Main, pc'[p] \in Unstaged
                  PROVE  log[s].ops \subseteq HeadTree
      BY DEF NamesStaged
    <3>1. Typed /\ Fit /\ Owned /\ Monotone
      BY DEF Calm, Refining
    <3>2. pc[p] = "settle" /\ job[p].built \in Reach(Main)
      BY <2>3, <3>1 DEF Settle, HasLanded, CheckedOut, Goto, Orderly, Unstaged, Typed, TypeOK
    <3>3. commits[job[p].built].by # None /\ commits[job[p].built].ops = log[s].ops
      <4>1. log[s].ops = job[p].copy.ops
        BY <3>1, <3>2, KnowsOps DEF Locked, HasBuilt
      <4>. QED BY <3>1, <3>2, <4>1, OwnsHere, SessionAssumption DEF Locked, HasBuilt
    <3>4. Main \in Ref /\ ref[Main] # None
      BY <3>1, SessionAssumption DEF Typed, TypeOK, CommitId
    <3>. QED BY <3>1, <3>2, <3>3, <3>4, ReachHeld DEF Facts, HeadTree
  <2>. QED BY <2>1, <2>2, <2>3
<1>2. pc'[p] \notin {"unsync", "fail"}
  <2>1. \E w \in {"prepare", "clear", "sync", "swap", "landed", "rollback", "unlanded"} : Goto(p, w)
    BY DEF SkipRecovery, Land, LandTimeout, Settle
  <2>. QED BY <2>1, Leaves DEF Goto, Typed, TypeOK
<1>. QED BY <1>0, <1>1, <1>2, Leaves, QuietHere

LEMMA QuietWrites ==
    ASSUME Orderly, Calm, [Next]_vars, NEW p \in Proc, StepOf(p),
           \/ Start(p) \/ Rebase(p) \/ Put(p) \/ PutSettled(p) \/ Recover(p) \/ ForgetPending(p)
           \/ Build(p) \/ Clear(p) \/ Final(p) \/ Replace(p)
    PROVE  Quiet'
<1>0. UNCHANGED <<ref, treeVars>> /\ InCall(p)
  BY DEF Start, Rebase, Put, PutSettled, Recover, ForgetPending, Build, Clear, Final, Replace, Append,
         gitVars, InCall
<1>1. ~Start(p)
  <2>1. job[p].kind = "start" /\ pc[p] \notin {"idle", "dead"} => "start" \in Calls
    BY DEF Calm, Refining, AllNamed, Named
  <2>. QED BY <2>1 DEF Start, Orderly
<1>2. ASSUME Done(p) PROVE pc'[p] = "idle"
  BY <1>2, Leaves DEF Done, Goto, Typed, TypeOK
<1>3. CASE Rebase(p)
  <2>1. /\ pc[p] = "held" /\ WriteLog(p, job[p].copy) /\ Done(p)
    BY <1>3 DEF Rebase
  <2>2. \A s \in Session : s = job[p].s => log'[s].ops = log[s].ops /\ log'[s].pending = log[s].pending
    BY <1>0, <2>1, Leaves, WritesItsOwn DEF AllKnow, Knows, Reading
  <2>3. pc'[p] \notin Unstaged /\ pc'[p] \notin {"unsync", "fail"}
    BY <1>2, <2>1 DEF Unstaged
  <2>. QED BY <1>0, <2>2, <2>3, Leaves, QuietHere
<1>4. CASE \/ Put(p) \/ PutSettled(p) \/ Recover(p) \/ ForgetPending(p)
           \/ Build(p) \/ Clear(p) \/ Final(p) \/ Replace(p)
  <2>1. pc[p] \in Unstaged \/ log[job[p].s].pending = None
    BY <1>4 DEF Put, PutSettled, Recover, ForgetPending, Build, Clear, Final, Replace, Unstaged
  <2>2. \A s \in Session : s = job[p].s => ~NamesStaged(s)
    BY <2>1 DEF NamesStaged
  <2>3. ASSUME ForgetPending(p) \/ Build(p)
        PROVE  job'[p].s = job[p].s /\ pc'[p] \in {"prepare", "land"}
    <3>. DEFINE j1 == [job[p] EXCEPT !.copy.pending = None, !.built = None]
                j2 == [job[p] EXCEPT !.built = next, !.expected = ref[RefOf[job[p].s]]]
    <3>1. /\ job'[p] = j1 \/ job'[p] = j2
          /\ pc'[p] \in {"prepare", "land"}
      BY <2>3, Leaves DEF ForgetPending, Build, Goto, Typed, TypeOK
    <3>2. j1.s = job[p].s /\ j2.s = job[p].s
      BY Leaves, TypedJob DEF Job
    <3>. QED BY <3>1, <3>2
  <2>4. ASSUME ~ForgetPending(p), ~Build(p) PROVE pc'[p] \in {"idle", "read"}
    <3>1. Done(p) \/ Goto(p, "read")
      BY <1>4, <2>4 DEF Put, PutSettled, Append, Recover, Clear, Final, Replace
    <3>. QED BY <1>2, <3>1, Leaves DEF Goto, Typed, TypeOK
  <2>5. /\ job'[p].s = job[p].s \/ pc'[p] \notin Unstaged
        /\ pc'[p] \notin {"unsync", "fail"}
    BY <2>3, <2>4 DEF Unstaged
  <2>. QED BY <1>0, <2>2, <2>5, Leaves, QuietHere
<1>. QED BY <1>1, <1>3, <1>4

\* What a process in the checkout's critical section has in hand.
LEMMA InsideMain ==
    ASSUME Calm, NEW p \in Proc, pc[p] \in {"sync", "swap"}, RefOf[job[p].s] = Main
    PROVE  /\ job[p].s \in Session /\ job[p].built \in Made(next) /\ job[p].built # None
           /\ ref[Main] = job[p].copy.base /\ job[p].expected = ref[Main]
           /\ commits[job[p].built].tree = HeadTree \cup log[job[p].s].ops
           /\ log[job[p].s].pending = job[p].built
<1>1. Typed /\ Fit /\ Owned /\ Ahead(p) /\ Knows(p)
  BY DEF Calm, Refining, Shared, Alone, AllKnow
<1>2. job[p].s \in Session /\ job[p].built \in Made(next)
  BY <1>1, JobHere DEF HasBuilt, Typed, JobTyped
<1>3. commits[job[p].built].ops = log[job[p].s].ops
  BY <1>1, OwnsHere DEF Locked, HasBuilt
<1>4. /\ commits[job[p].built].by # None /\ commits[job[p].built].parent = job[p].copy.base
      /\ ref[Main] = job[p].copy.base /\ job[p].expected = ref[Main]
  BY <1>1 DEF Ahead
<1>5. commits[job[p].built].tree = HeadTree \cup log[job[p].s].ops
  BY <1>1, <1>2, <1>3, <1>4 DEF Fit, CommitFits, HeadTree
<1>6. log[job[p].s].pending = job[p].built
  BY <1>1 DEF Knows, HasBuilt
<1>. QED BY <1>2, <1>4, <1>5, <1>6, NoneMade

LEMMA QuietSync ==
    ASSUME Orderly, Calm, [Next]_vars, NEW p \in Proc, Sync(p)
    PROVE  Quiet'
<1>0. StepOf(p)
  BY DEF StepOf, Call
<1>1. Typed /\ Fit /\ Keeps /\ Owned /\ Quiet /\ Shared
  BY <1>0, Leaves
<1>2. pc[p] = "sync" /\ RefOf[job[p].s] = Main /\ UNCHANGED <<log, commits, ref>>
  BY <1>1 DEF Sync, Shared, Ahead, gitVars
<1>3. PICK t \in Session : t = job[p].s
  BY <1>2, InsideMain
<1>4. /\ job[p].built # None /\ ref[Main] = job[p].copy.base /\ log[t].pending = job[p].built
      /\ commits[job[p].built].tree = HeadTree \cup log[t].ops
  BY <1>2, <1>3, InsideMain
<1>5. /\ MoveCheckout(job[p].copy.base, job[p].built) /\ Goto(p, "swap") /\ UNCHANGED job
  BY <1>1 DEF Sync, Orderly, ReadTreeOK, Quiet
<1>6. /\ index' = ReadTree(HeadTree, HeadTree \cup log[t].ops, index)
      /\ work' = ReadTree(HeadTree, HeadTree \cup log[t].ops, work)
  BY <1>4, <1>5 DEF MoveCheckout, HeadTree
<1>7. index' \subseteq index \cup log[t].ops /\ work' = index' /\ HeadTree' = HeadTree
  BY <1>1, <1>2, <1>6, HeadStays DEF ReadTree, Quiet
<1>8. pc'[p] = "swap" /\ pc' = [pc EXCEPT ![p] = "swap"]
  BY <1>1, <1>5 DEF Goto, Typed, TypeOK
<1>9. NamesStaged(t)'
  <2>1. ASSUME NEW q \in Proc, job[q].s = t, pc[q] \in Unstaged PROVE q = p
    <3>1. slock[t] = q /\ slock[t] = p
      BY <1>1, <1>2, <1>3, <2>1, OwnsHere DEF Unstaged, Locked, HasBuilt
    <3>. QED BY <3>1
  <2>2. \A q \in Proc : job'[q].s = t => pc'[q] \notin Unstaged
    BY <1>0, <1>5, <1>8, <2>1, Leaves DEF Unstaged
  <2>. QED BY <1>2, <1>3, <1>4, <2>2 DEF NamesStaged
<1>10. ~NamesStaged(t)
  BY <1>2, <1>3 DEF NamesStaged, Unstaged
<1>11. \A f \in index' \ HeadTree' : \/ f \in index \ HeadTree
                                     \/ \E s \in Session : NamesStaged(s)' /\ f \in log'[s].ops
  BY <1>2, <1>7, <1>9
<1>. QED BY <1>0, <1>2, <1>3, <1>5, <1>7, <1>8, <1>10, <1>11, Leaves, QuietMoves

LEMMA QuietRollback ==
    ASSUME Orderly, Calm, [Next]_vars, NEW p \in Proc, Rollback(p)
    PROVE  Quiet'
<1>0. StepOf(p)
  BY DEF StepOf, Call
<1>1. Typed /\ Fit /\ Keeps /\ Owned /\ Quiet
  BY <1>0, Leaves
<1>2. pc[p] = "rollback" /\ UNCHANGED <<log, job, commits, ref>>
  BY DEF Rollback, gitVars
<1>3. PICK t \in Session : t = job[p].s
  BY <1>1, <1>2 DEF Typed, JobTyped
<1>4. log[t].ops \subseteq commits[job[p].built].tree
  <2>1. log[t].ops = job[p].copy.ops /\ pc[p] \in Locked
    BY <1>1, <1>2, <1>3, KnowsOps DEF Locked, HasBuilt
  <2>2. commits[job[p].built].ops = log[t].ops /\ commits[job[p].built].by = t
    BY <1>1, <1>2, <1>3, <2>1, OwnsHere DEF HasBuilt
  <2>3. job[p].built \in Made(next) /\ t # None
    BY <1>1, <1>2, JobHere, SessionAssumption DEF HasBuilt
  <2>. QED BY <1>1, <2>2, <2>3 DEF Fit, CommitFits
<1>5. MoveCheckout(job[p].built, ref[Main]) /\ Goto(p, "unlanded")
  BY <1>1 DEF Rollback, RollbackTo, Orderly, ReadTreeOK, Quiet
<1>6. /\ index' = ReadTree(commits[job[p].built].tree, HeadTree, index)
      /\ work' = ReadTree(commits[job[p].built].tree, HeadTree, work)
  BY <1>5 DEF MoveCheckout, HeadTree
<1>7. /\ index' \ HeadTree \subseteq (index \ HeadTree) \ log[t].ops
      /\ work' = index' /\ HeadTree' = HeadTree
  BY <1>1, <1>2, <1>4, <1>6, HeadStays DEF ReadTree, Quiet
<1>8. pc'[p] = "unlanded" /\ job'[p].s = job[p].s
  BY <1>1, <1>2, <1>5 DEF Goto, Typed, TypeOK
<1>. QED BY <1>0, <1>2, <1>3, <1>7, <1>8, Leaves, QuietMoves

LEMMA QuietSwap ==
    ASSUME Orderly, Calm, [Next]_vars, NEW p \in Proc, Swap(p)
    PROVE  Quiet'
<1>0. StepOf(p)
  BY DEF StepOf, Call
<1>1. Typed /\ Fit /\ Keeps /\ Owned /\ Quiet
  BY <1>0, Leaves
<1>2. pc[p] = "swap" /\ UNCHANGED <<log, job, commits, treeVars>> /\ "git" \notin Env
  BY DEF Swap, Orderly
<1>3. CASE RefOf[job[p].s] = Main
  <2>1. PICK t \in Session : t = job[p].s
    BY <1>2, <1>3, InsideMain
  <2>2. /\ job[p].expected = ref[Main] /\ Main \in Ref
        /\ commits[job[p].built].tree = HeadTree \cup log[t].ops
    BY <1>2, <1>3, <2>1, InsideMain, SessionAssumption
  <2>3. ref' = [ref EXCEPT ![Main] = job[p].built] /\ Goto(p, "final")
    BY <1>2, <1>3, <2>2 DEF Swap
  <2>4. HeadTree' = HeadTree \cup log[t].ops
    BY <1>1, <1>2, <2>2, <2>3 DEF HeadTree, Typed, TypeOK
  <2>5. pc'[p] = "final" /\ work' = index' /\ index' = index
    BY <1>1, <1>2, <2>3 DEF Goto, Typed, TypeOK, treeVars, Quiet
  <2>. QED BY <1>0, <1>2, <2>1, <2>4, <2>5, Leaves, QuietMoves
<1>4. CASE RefOf[job[p].s] # Main
  <2>1. /\ Goto(p, "final") \/ Goto(p, "clear")
        /\ UNCHANGED ref \/ ref' = [ref EXCEPT ![RefOf[job[p].s]] = job[p].built]
    BY <1>4 DEF Swap, CheckedOut
  <2>2. ref'[Main] = ref[Main]
    BY <1>1, <1>4, <2>1, SessionAssumption DEF Typed, TypeOK
  <2>3. pc'[p] \in {"final", "clear"}
    BY <1>1, <2>1 DEF Goto, Typed, TypeOK
  <2>4. \A s \in Session : s = job[p].s => ~NamesStaged(s)
    BY <1>4 DEF NamesStaged
  <2>. QED BY <1>0, <1>2, <2>2, <2>3, <2>4, Leaves, QuietHere
<1>. QED BY <1>3, <1>4

LEMMA QuietStep == ASSUME Orderly, Calm, [Next]_vars PROVE Quiet'
<1>1. ASSUME NEW p \in Proc, StepOf(p) PROVE Quiet'
  <2>1. ~SwapFails(p) /\ ~AfterFailure(p) /\ ~Unsync(p)
    BY DEF Calm, Quiet, Orderly, SwapFails, AfterFailure, Unsync
  <2>. QED BY <1>1, <2>1, QuietCalls, QuietSteps, QuietWrites, QuietSync, QuietRollback, QuietSwap,
       Zenon DEF StepOf, Call
<1>2. CASE (\E s \in Session : ReclaimSession(s)) \/ ReclaimCheckout \/ UNCHANGED vars
  <2>1. UNCHANGED <<commits, ref, index, work, log, pc, job>>
    BY <1>2 DEF ReclaimSession, ReclaimCheckout, gitVars, treeVars, vars
  <2>. QED BY <2>1 DEF Calm, Quiet, NamesStaged, HeadTree
<1>3. ~User /\ Proc \cup V1 = Proc
  BY DEF User, Orderly
<1>. QED BY <1>1, <1>2, <1>3 DEF Next, StepOf, Orderly

LEMMA InitCalm == Init => Calm
<1>1. Init => Quiet
  <2>1. Init => index = {} /\ work = {} /\ \A p \in Proc : pc[p] = "idle"
    BY DEF Init
  <2>. QED BY <2>1 DEF Quiet
<1>. QED BY <1>1, InitRefining, InitAlone DEF Calm

\* While nothing stages a file but session commits whose sessions are used by one call at a
\* time, what is staged and not on the branch is what the log of some session's unlanded
\* commit names, whoever is killed and whatever fails to be written or times out: settling
\* takes it out of the index again (commit.ts landOnRef, settle.ts).
THEOREM StagedIsAccountedFor == ASSUME Orderly
                                PROVE  Spec /\ []Unshared => []StagedIsNamed
<1>1. ASSUME Calm PROVE StagedIsNamed
  BY <1>1 DEF Calm, Quiet, NamesStaged, StagedIsNamed
<1>2. ASSUME Calm, Unshared, [Next]_vars PROVE Calm'
  <2>1. {"stall", "user", "blind"} \cap Env = {} /\ "stall" \notin Env
    BY DEF Orderly
  <2>. QED BY <1>2, <2>1, QuietStep, RefiningStep, AloneStep DEF Calm
<1>3. Calm => StagedIsNamed
  BY <1>1
<1>4. Calm /\ Unshared /\ [Next]_vars => Calm'
  BY <1>2
<1>. QED BY <1>3, <1>4, InitCalm, PTL DEF Spec

\* One process makes one call at a time.
LEMMA OneIsAlone == ASSUME \A p, q \in Proc : p = q PROVE Unshared
  BY DEF Unshared

\* So a log and the index need nothing else said of one process: with any number of sessions,
\* refs and files, and killed as often as may be, it finds its landed ops beside the `pending`
\* that names them, and what it left staged in some log.
THEOREM OneProcessIsNamed ==
    ASSUME Orderly, \A p, q \in Proc : p = q
    PROVE  Spec => [](LandedOpsNamed /\ StagedIsNamed)
<1>1. Unshared
  BY OneIsAlone
<1>2. Spec /\ []Unshared => []LandedOpsNamed
  BY LandedOpsAreNamed DEF Orderly
<1>3. Spec /\ []Unshared => []StagedIsNamed
  BY StagedIsAccountedFor
<1>. QED BY <1>1, <1>2, <1>3, PTL
=============================================================================
