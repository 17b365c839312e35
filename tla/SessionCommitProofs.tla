-------------------------- MODULE SessionCommitProofs --------------------------
(***************************************************************************)
(* What SessionCommit guarantees for every number of processes, sessions,  *)
(* files and refs, proved with TLAPS.                                      *)
(***************************************************************************)
EXTENDS SessionCommit, TLAPS

\* Where a process has a commit in hand: the one it settles or the one it lands.
HasBuilt == {"settle", "rollback", "landed", "unlanded", "land", "sync", "swap",
             "unsync", "fail", "clear", "final"}

\* A process in a call has a session, and one that settles or lands has a commit.
JobTyped(p) == /\ pc[p] \notin {"idle", "dead"} => job[p].s \in Session
               /\ pc[p] \in HasBuilt => job[p].built \in CommitId

Typed == TypeOK /\ \A p \in Proc : JobTyped(p)

LEMMA InitTyped == Init => Typed
  BY SessionAssumption
  DEF Init, Typed, TypeOK, JobTyped, NoCommit, NoJob, EmptyLog, Commit, Job, Log,
      CommitId, Opt, SessionPc, V1Pc, HasBuilt, CallKinds

LEMMA TypedJob == ASSUME Typed, NEW p \in Proc
                  PROVE  /\ job[p] \in Job /\ job[p].copy \in Log /\ job[p].new \in SUBSET Fact
                         /\ job[p].s \in Opt(Session) /\ job[p].expected \in Opt(CommitId)
                         /\ job[p].built \in Opt(CommitId) /\ pc[p] \in SessionPc \cup V1Pc
                         /\ job[p].copy.base \in CommitId /\ job[p].copy.ops \in SUBSET Fact
                         /\ job[p].copy.pending \in Opt(CommitId)
                         /\ job[p].kind \in CallKinds \cup {"none", "v1"}
  BY DEF Typed, TypeOK, Job, Log

LEMMA TypedMove == ASSUME Typed, NEW p \in Proc, NEW w \in SessionPc, NEW j \in Job,
                          pc' = [pc EXCEPT ![p] = w], job' = [job EXCEPT ![p] = j],
                          w \notin {"idle", "dead"} => j.s \in Session,
                          w \in HasBuilt => j.built \in CommitId
                   PROVE  /\ pc' \in [Proc \cup V1 -> SessionPc \cup V1Pc]
                          /\ job' \in [Proc \cup V1 -> Job]
                          /\ \A q \in Proc : JobTyped(q)'
  BY DEF Typed, TypeOK, JobTyped

LEMMA NoJobTyped == NoJob \in Job /\ EmptyLog \in Log
  BY SessionAssumption DEF NoJob, EmptyLog, Job, Log, CommitId, Opt, CallKinds

LEMMA TypedGoto == ASSUME Typed, NEW p \in Proc, NEW w \in SessionPc, Goto(p, w), UNCHANGED job,
                          w \notin {"idle", "dead"} => job[p].s \in Session,
                          w \in HasBuilt => job[p].built \in CommitId
                   PROVE  /\ pc' \in [Proc \cup V1 -> SessionPc \cup V1Pc]
                          /\ job' \in [Proc \cup V1 -> Job]
                          /\ \A q \in Proc : JobTyped(q)'
<1>1. job' = [job EXCEPT ![p] = job[p]]
  BY DEF Typed, TypeOK
<1>. QED BY <1>1, TypedJob, TypedMove DEF Goto

LEMMA TypedDone == ASSUME Typed, NEW p \in Proc, Done(p)
                   PROVE  /\ pc' \in [Proc \cup V1 -> SessionPc \cup V1Pc]
                          /\ job' \in [Proc \cup V1 -> Job]
                          /\ \A q \in Proc : JobTyped(q)'
<1>1. "idle" \in SessionPc /\ "idle" \notin HasBuilt
  BY DEF SessionPc, HasBuilt
<1>. QED BY <1>1, NoJobTyped, TypedMove DEF Done, Goto

LEMMA TypedWrite == ASSUME Typed, NEW p \in Proc, NEW l \in Log, WriteLog(p, l)
                    PROVE  log' \in [Session -> Log]
  BY DEF Typed, TypeOK, WriteLog

LEMMA TypedRelease == ASSUME Typed, NEW p \in Proc
                      PROVE  /\ ReleaseSession(p) => slock' \in [Session -> Opt(Proc)]
                             /\ ReleaseCheckout(p) => clock' \in Opt(Proc \cup V1)
  BY DEF Typed, TypeOK, ReleaseSession, ReleaseCheckout, Opt

LEMMA TypedCheckout == ASSUME Typed, NEW a \in CommitId, NEW b \in CommitId, MoveCheckout(a, b)
                       PROVE  index' \subseteq Fact /\ work' \subseteq Fact
  BY DEF Typed, TypeOK, MoveCheckout, ReadTree, Commit

LEMMA TypedRead == ASSUME Typed, NEW p \in Proc, NEW s \in Session, NEW kind \in Calls,
                          Read(p, s, kind)
                   PROVE  Typed'
<1>1. PICK new \in SUBSET Fact : job' = [job EXCEPT ![p] = CallOf(s, kind, new)]
  <2>1. {} \in SUBSET Fact /\ \A f \in Fact : {f} \in SUBSET Fact
    OBVIOUS
  <2>. QED BY <2>1, Zenon DEF Read
<1>2. tried' \in [Session -> SUBSET Fact]
  <2>1. \/ UNCHANGED tried
        \/ \E f \in Fact : tried' = [tried EXCEPT ![s] = @ \cup {f}]
    BY Zenon DEF Read
  <2>. QED BY <2>1 DEF Typed, TypeOK
<1>3. CallOf(s, kind, new) \in Job /\ CallOf(s, kind, new).s \in Session
  BY SessionAssumption, NoJobTyped DEF CallOf, Typed, TypeOK, Job, Opt, NoJob
<1>. DEFINE w == IF kind \in {"start", "rebase"} THEN "onto" ELSE "read"
<1>4. w \in SessionPc /\ w \notin HasBuilt /\ pc' = [pc EXCEPT ![p] = w]
  BY DEF SessionPc, HasBuilt, Read, Goto
<1>. HIDE DEF w
<1>5. /\ pc' \in [Proc \cup V1 -> SessionPc \cup V1Pc] /\ job' \in [Proc \cup V1 -> Job]
      /\ \A q \in Proc : JobTyped(q)'
  BY <1>1, <1>3, <1>4, TypedMove
<1>. QED BY <1>2, <1>5 DEF Read, Typed, TypeOK, gitVars, treeVars, lockVars

LEMMA TypedOnto == ASSUME Typed, NEW p \in Proc, Onto(p) PROVE Typed'
<1>1. job[p].s \in Session
  BY DEF Typed, JobTyped, Onto
<1>2. TipFor(RefOf[job[p].s]) \in CommitId
  BY <1>1, SessionAssumption DEF Typed, TypeOK, TipFor, Opt
<1>. DEFINE j == [job[p] EXCEPT !.copy.base = TipFor(RefOf[job[p].s])]
<1>3. j \in Job /\ j.s = job[p].s
  BY <1>2, TypedJob DEF Job, Log
<1>4. job' = [job EXCEPT ![p] = j] /\ pc' = [pc EXCEPT ![p] = "read"]
  BY DEF Onto, Goto, Typed, TypeOK
<1>5. "read" \in SessionPc /\ "read" \notin HasBuilt
  BY DEF SessionPc, HasBuilt
<1>. HIDE DEF j
<1>6. /\ pc' \in [Proc \cup V1 -> SessionPc \cup V1Pc] /\ job' \in [Proc \cup V1 -> Job]
      /\ \A q \in Proc : JobTyped(q)'
  BY <1>1, <1>3, <1>4, <1>5, TypedMove
<1>. QED BY <1>6 DEF Onto, Typed, TypeOK, gitVars, treeVars, lockVars

LEMMA TypedTake == ASSUME Typed, NEW p \in Proc, TakeSession(p) \/ Refuse(p) PROVE Typed'
<1>1. CASE TakeSession(p)
  <2>1. /\ pc' \in [Proc \cup V1 -> SessionPc \cup V1Pc] /\ job' \in [Proc \cup V1 -> Job]
        /\ \A q \in Proc : JobTyped(q)'
    BY <1>1, TypedGoto DEF TakeSession, SessionPc, HasBuilt, Typed, JobTyped
  <2>2. slock' \in [Session -> Opt(Proc)]
    BY <1>1 DEF TakeSession, Typed, TypeOK, Opt
  <2>. QED BY <1>1, <2>1, <2>2 DEF TakeSession, Typed, TypeOK, gitVars, treeVars
<1>2. CASE Refuse(p)
  BY <1>2, TypedDone DEF Refuse, Typed, TypeOK, gitVars, treeVars, lockVars
<1>. QED BY <1>1, <1>2

LEMMA TypedEnd == ASSUME Typed, NEW p \in Proc, NEW l \in Log,
                         WriteLog(p, l), ReleaseSession(p), Done(p),
                         acked' \in [Session -> SUBSET Fact],
                         UNCHANGED <<gitVars, treeVars, clock, tried, crashes>>
                  PROVE  Typed'
  BY TypedWrite, TypedRelease, TypedDone DEF Typed, TypeOK, gitVars, treeVars

LEMMA TypedAppend == ASSUME Typed, NEW p \in Proc, NEW l \in Log, Append(p, l) PROVE Typed'
<1>1. [l EXCEPT !.ops = @ \cup job[p].new, !.pending = None] \in Log
  BY TypedJob DEF Log, Opt
<1>2. acked' \in [Session -> SUBSET Fact]
  BY TypedJob DEF Append, Typed, TypeOK
<1>. QED BY <1>1, <1>2, TypedEnd DEF Append

LEMMA TypedPut == ASSUME Typed, NEW p \in Proc,
                         Start(p) \/ Rebase(p) \/ Put(p) \/ PutSettled(p)
                  PROVE  Typed'
<1>1. CASE Start(p)
  <2>1. [EmptyLog EXCEPT !.base = job[p].copy.base] \in Log
    BY NoJobTyped, TypedJob DEF Log, EmptyLog
  <2>2. acked' \in [Session -> SUBSET Fact]
    BY <1>1 DEF Start, Typed, TypeOK
  <2>. QED BY <1>1, <2>1, <2>2, TypedEnd DEF Start
<1>2. CASE Rebase(p)
  BY <1>2, TypedJob, TypedEnd DEF Rebase, Typed, TypeOK
<1>3. CASE Put(p)
  BY <1>3, TypedJob, TypedAppend DEF Put
<1>4. CASE PutSettled(p)
  <2>1. ASSUME pc[p] = "landed" PROVE [job[p].copy EXCEPT !.base = job[p].built, !.ops = {}] \in Log
    BY <2>1, TypedJob DEF Log, Typed, JobTyped, HasBuilt
  <2>. QED BY <1>4, <2>1, TypedJob, TypedAppend DEF PutSettled
<1>. QED BY <1>1, <1>2, <1>3, <1>4

LEMMA TypedSettle == ASSUME Typed, NEW p \in Proc,
                            StartSettle(p) \/ Settle(p) \/ Rollback(p)
                     PROVE  Typed'
<1>1. CASE StartSettle(p)
  <2>1. job[p].s \in Session
    BY <1>1 DEF StartSettle, Typed, JobTyped
  <2>2. ToSettle(p) \in CommitId
    BY <1>1, <2>1, TypedJob DEF StartSettle, ToSettle, Typed, TypeOK, Log, Opt
  <2>. DEFINE j == [job[p] EXCEPT !.built = ToSettle(p)]
  <2>3. j \in Job /\ j.s = job[p].s /\ j.built = ToSettle(p)
    BY <2>2, TypedJob DEF Job, Opt
  <2>4. job' = [job EXCEPT ![p] = j] /\ pc' = [pc EXCEPT ![p] = "settle"] /\ "settle" \in SessionPc
    BY <1>1 DEF StartSettle, Goto, Typed, TypeOK, SessionPc
  <2>. HIDE DEF j
  <2>5. /\ pc' \in [Proc \cup V1 -> SessionPc \cup V1Pc] /\ job' \in [Proc \cup V1 -> Job]
        /\ \A q \in Proc : JobTyped(q)'
    BY <2>1, <2>2, <2>3, <2>4, TypedMove
  <2>. QED BY <1>1, <2>5 DEF StartSettle, Typed, TypeOK, gitVars, treeVars, lockVars
<1>2. CASE Settle(p)
  <2>1. job[p].s \in Session /\ job[p].built \in CommitId
    BY <1>2 DEF Settle, Typed, JobTyped, HasBuilt
  <2>2. /\ pc' \in [Proc \cup V1 -> SessionPc \cup V1Pc] /\ job' \in [Proc \cup V1 -> Job]
        /\ \A q \in Proc : JobTyped(q)'
    BY <1>2, <2>1, TypedGoto DEF Settle, SessionPc
  <2>3. clock' \in Opt(Proc \cup V1)
    BY <1>2 DEF Settle, Typed, TypeOK, Opt
  <2>. QED BY <1>2, <2>2, <2>3 DEF Settle, Typed, TypeOK, gitVars, treeVars
<1>3. CASE Rollback(p)
  <2>1. job[p].s \in Session /\ job[p].built \in CommitId
    BY <1>3 DEF Rollback, Typed, JobTyped, HasBuilt
  <2>2. /\ pc' \in [Proc \cup V1 -> SessionPc \cup V1Pc] /\ job' \in [Proc \cup V1 -> Job]
        /\ \A q \in Proc : JobTyped(q)'
    BY <1>3, <2>1, TypedGoto DEF Rollback, SessionPc
  <2>3. index' \subseteq Fact /\ work' \subseteq Fact
    BY <1>3, <2>1, TypedCheckout DEF Rollback, RollbackTo, Typed, TypeOK, treeVars
  <2>. QED BY <1>3, <2>2, <2>3, TypedRelease DEF Rollback, Typed, TypeOK, gitVars
<1>. QED BY <1>1, <1>2, <1>3

LEMMA TypedPrepare == ASSUME Typed, NEW p \in Proc,
                             \/ Recover(p) \/ ForgetPending(p) \/ SkipRecovery(p)
                             \/ Invalid(p) \/ RebaseNeeded(p) \/ Build(p)
                      PROVE  Typed'
<1>1. CASE Recover(p)
  <2>1. [base |-> job[p].built, ops |-> {}, pending |-> None] \in Log
    BY <1>1 DEF Recover, Typed, JobTyped, HasBuilt, Log, Opt
  <2>. QED BY <1>1, <2>1, TypedEnd DEF Recover, Typed, TypeOK
<1>2. CASE ForgetPending(p)
  <2>1. job[p].s \in Session
    BY <1>2 DEF ForgetPending, Typed, JobTyped
  <2>. DEFINE j == [job[p] EXCEPT !.copy.pending = None, !.built = None]
  <2>2. j \in Job /\ j.s = job[p].s
    BY TypedJob DEF Job, Log, Opt
  <2>3. job' = [job EXCEPT ![p] = j] /\ pc' = [pc EXCEPT ![p] = "prepare"]
    BY <1>2 DEF ForgetPending, Goto, Typed, TypeOK
  <2>4. "prepare" \in SessionPc /\ "prepare" \notin HasBuilt
    BY DEF SessionPc, HasBuilt
  <2>. HIDE DEF j
  <2>5. /\ pc' \in [Proc \cup V1 -> SessionPc \cup V1Pc] /\ job' \in [Proc \cup V1 -> Job]
        /\ \A q \in Proc : JobTyped(q)'
    BY <2>1, <2>2, <2>3, <2>4, TypedMove
  <2>6. [job[p].copy EXCEPT !.pending = None] \in Log
    BY TypedJob DEF Log, Opt
  <2>. QED BY <1>2, <2>5, <2>6, TypedWrite DEF ForgetPending, Typed, TypeOK, gitVars, treeVars, lockVars
<1>3. CASE SkipRecovery(p)
  <2>1. /\ pc' \in [Proc \cup V1 -> SessionPc \cup V1Pc] /\ job' \in [Proc \cup V1 -> Job]
        /\ \A q \in Proc : JobTyped(q)'
    BY <1>3, TypedGoto DEF SkipRecovery, SessionPc, HasBuilt, Typed, JobTyped
  <2>. QED BY <1>3, <2>1 DEF SkipRecovery, Typed, TypeOK, gitVars, treeVars, lockVars
<1>4. CASE Invalid(p)
  <2>1. /\ pc' \in [Proc \cup V1 -> SessionPc \cup V1Pc] /\ job' \in [Proc \cup V1 -> Job]
        /\ \A q \in Proc : JobTyped(q)'
    BY <1>4, TypedGoto, TypedDone DEF Invalid, SessionPc, HasBuilt, Typed, JobTyped
  <2>. QED BY <1>4, <2>1, TypedRelease DEF Invalid, Typed, TypeOK, gitVars, treeVars
<1>5. CASE RebaseNeeded(p)
  BY <1>5, TypedDone, TypedRelease DEF RebaseNeeded, Typed, TypeOK, gitVars, treeVars
<1>6. CASE Build(p)
  <2>1. job[p].s \in Session /\ next \in CommitId
    <3>1. job[p].s \in Session
      BY <1>6 DEF Build, Typed, JobTyped
    <3>2. next <= MaxCommits /\ next \in 1..(MaxCommits + 1)
      BY <1>6 DEF Build, NewCommit, Typed, TypeOK
    <3>. QED BY <3>1, <3>2, SessionAssumption DEF CommitId
  <2>2. ref[RefOf[job[p].s]] \in Opt(CommitId)
    BY <2>1, SessionAssumption DEF Typed, TypeOK
  <2>. DEFINE j == [job[p] EXCEPT !.built = next, !.expected = ref[RefOf[job[p].s]]]
  <2>3. j \in Job /\ j.s = job[p].s /\ j.built = next
    BY <2>1, <2>2, TypedJob DEF Job, Opt
  <2>4. job' = [job EXCEPT ![p] = j] /\ pc' = [pc EXCEPT ![p] = "land"]
    BY <1>6 DEF Build, Goto, Typed, TypeOK
  <2>5. "land" \in SessionPc
    BY DEF SessionPc
  <2>. HIDE DEF j
  <2>6. /\ pc' \in [Proc \cup V1 -> SessionPc \cup V1Pc] /\ job' \in [Proc \cup V1 -> Job]
        /\ \A q \in Proc : JobTyped(q)'
    BY <2>1, <2>3, <2>4, <2>5, TypedMove
  <2>7. [job[p].copy EXCEPT !.pending = next] \in Log
    BY <2>1, TypedJob DEF Log, Opt
  <2>8. commits' \in [CommitId -> Commit] /\ next' \in 1..(MaxCommits + 1)
    <3>1. commits[job[p].copy.base] \in Commit
      BY TypedJob DEF Typed, TypeOK
    <3>2. [anc |-> commits[job[p].copy.base].anc \cup {next}, parent |-> job[p].copy.base,
           tree |-> commits[job[p].copy.base].tree \cup job[p].copy.ops,
           ops |-> job[p].copy.ops, by |-> job[p].s] \in Commit
      BY <2>1, <3>1, TypedJob DEF Commit, Opt
    <3>. QED BY <1>6, <2>1, <3>2, SessionAssumption DEF Build, NewCommit, Typed, TypeOK, CommitId
  <2>. QED BY <1>6, <2>6, <2>7, <2>8, TypedWrite DEF Build, Typed, TypeOK, treeVars, lockVars
<1>. QED BY <1>1, <1>2, <1>3, <1>4, <1>5, <1>6

LEMMA TypedLand == ASSUME Typed, NEW p \in Proc,
                          \/ Land(p) \/ LandTimeout(p) \/ Sync(p) \/ Swap(p) \/ SwapFails(p)
                          \/ AfterFailure(p) \/ Unsync(p) \/ Clear(p) \/ Final(p)
                   PROVE  Typed'
<1>. DEFINE Moved == /\ pc' \in [Proc \cup V1 -> SessionPc \cup V1Pc]
                     /\ job' \in [Proc \cup V1 -> Job]
                     /\ \A q \in Proc : JobTyped(q)'
<1>0. ASSUME pc[p] \in {"land", "sync", "swap", "fail", "unsync", "clear", "final"}
      PROVE  job[p].s \in Session /\ RefOf[job[p].s] \in Ref /\ job[p].built \in CommitId
  BY <1>0, SessionAssumption DEF Typed, JobTyped, HasBuilt
<1>1. CASE Land(p)
  <2>1. job[p].s \in Session /\ job[p].built \in CommitId
    BY <1>0, <1>1 DEF Land
  <2>2. Moved
    BY <1>1, <2>1, TypedGoto DEF Land, SessionPc
  <2>3. clock' \in Opt(Proc \cup V1)
    BY <1>1 DEF Land, Typed, TypeOK, Opt
  <2>. QED BY <1>1, <2>2, <2>3 DEF Land, Typed, TypeOK, gitVars, treeVars
<1>2. CASE LandTimeout(p)
  <2>1. job[p].s \in Session /\ job[p].built \in CommitId
    BY <1>0, <1>2 DEF LandTimeout
  <2>2. Moved
    BY <1>2, <2>1, TypedGoto DEF LandTimeout, SessionPc
  <2>. QED BY <1>2, <2>2 DEF LandTimeout, Typed, TypeOK, gitVars, treeVars, lockVars
<1>3. CASE Sync(p)
  <2>1. job[p].s \in Session /\ job[p].built \in CommitId
    BY <1>0, <1>3 DEF Sync
  <2>2. Moved
    BY <1>3, <2>1, TypedGoto, TypedDone DEF Sync, SessionPc
  <2>3. index' \subseteq Fact /\ work' \subseteq Fact
    BY <1>3, <2>1, TypedJob, TypedCheckout DEF Sync, Typed, TypeOK, treeVars
  <2>4. slock' \in [Session -> Opt(Proc)] /\ clock' \in Opt(Proc \cup V1)
    BY <1>3, TypedRelease DEF Sync, Typed, TypeOK, lockVars
  <2>. QED BY <1>3, <2>2, <2>3, <2>4 DEF Sync, Typed, TypeOK, gitVars
<1>4. CASE Swap(p)
  <2>1. job[p].s \in Session /\ RefOf[job[p].s] \in Ref /\ job[p].built \in CommitId
    BY <1>0, <1>4 DEF Swap
  <2>2. Moved
    BY <1>4, <2>1, TypedGoto DEF Swap, SessionPc
  <2>3. ref' \in [Ref -> Opt(CommitId)] /\ ref'[Main] \in CommitId
    BY <1>4, <2>1, SessionAssumption DEF Swap, Typed, TypeOK, Opt
  <2>4. clock' \in Opt(Proc \cup V1)
    BY <1>4, TypedRelease DEF Swap, Typed, TypeOK
  <2>. QED BY <1>4, <2>2, <2>3, <2>4 DEF Swap, Typed, TypeOK, treeVars
<1>5. CASE SwapFails(p)
  <2>1. job[p].s \in Session /\ RefOf[job[p].s] \in Ref /\ job[p].built \in CommitId
    BY <1>0, <1>5 DEF SwapFails
  <2>2. Moved
    BY <1>5, <2>1, TypedGoto DEF SwapFails, SessionPc
  <2>3. ref' \in [Ref -> Opt(CommitId)] /\ ref'[Main] \in CommitId
    BY <1>5, <2>1, SessionAssumption DEF SwapFails, Typed, TypeOK, Opt
  <2>. QED BY <1>5, <2>2, <2>3 DEF SwapFails, Typed, TypeOK, treeVars, lockVars
<1>6. CASE AfterFailure(p)
  <2>1. job[p].built \in CommitId
    BY <1>0, <1>6 DEF AfterFailure
  <2>2. index' \subseteq Fact /\ work' \subseteq Fact
    BY <1>6, <2>1, TypedJob, TypedCheckout DEF AfterFailure, Typed, TypeOK, treeVars
  <2>. QED BY <1>6, <2>2, TypedDone, TypedRelease DEF AfterFailure, CommitFails, Typed, TypeOK, gitVars
<1>7. CASE Unsync(p)
  <2>1. job[p].s \in Session /\ job[p].built \in CommitId
    BY <1>0, <1>7 DEF Unsync
  <2>2. Moved
    BY <1>7, <2>1, TypedGoto DEF Unsync, SessionPc
  <2>3. index' \subseteq Fact /\ work' \subseteq Fact
    BY <1>7, <2>1, TypedJob, TypedCheckout DEF Unsync, Typed, TypeOK, treeVars
  <2>. QED BY <1>7, <2>2, <2>3, TypedRelease DEF Unsync, Typed, TypeOK, gitVars
<1>8. CASE Clear(p)
  <2>1. [job[p].copy EXCEPT !.pending = None] \in Log
    BY TypedJob DEF Log, Opt
  <2>. QED BY <1>8, <2>1, TypedEnd DEF Clear, Typed, TypeOK
<1>9. CASE Final(p)
  <2>1. [base |-> job[p].built, ops |-> {}, pending |-> None] \in Log
    BY <1>0, <1>9 DEF Final, Log, Opt
  <2>. QED BY <1>9, <2>1, TypedEnd DEF Final, Typed, TypeOK
<1>. QED BY <1>1, <1>2, <1>3, <1>4, <1>5, <1>6, <1>7, <1>8, <1>9

LEMMA TypedReplace == ASSUME Typed, NEW p \in Proc,
                             Replace(p) \/ RefuseReplace(p) \/ Fails(p) \/ Crash(p) \/ Respawn(p)
                      PROVE  Typed'
<1>1. CASE Replace(p)
  <2>1. job[p].s \in Session
    BY <1>1 DEF Replace, Typed, JobTyped
  <2>. DEFINE kept == [job[p].copy EXCEPT !.ops = Kept(p), !.pending = None]
              j == [job[p] EXCEPT !.copy = kept, !.built = None]
  <2>2. kept \in Log
    BY TypedJob DEF Log, Opt, Kept
  <2>3. j \in Job /\ j.s = job[p].s
    BY <2>2, TypedJob DEF Job, Opt
  <2>4. Done(p) \/ (job' = [job EXCEPT ![p] = j] /\ pc' = [pc EXCEPT ![p] = "read"])
    BY <1>1 DEF Replace, Goto, Typed, TypeOK
  <2>5. "read" \in SessionPc /\ "read" \notin HasBuilt
    BY DEF SessionPc, HasBuilt
  <2>6. WriteLog(p, kept)
    BY <1>1 DEF Replace
  <2>7. acked' \in [Session -> SUBSET Fact]
    BY <1>1 DEF Replace, Typed, TypeOK
  <2>. HIDE DEF j, kept
  <2>8. /\ pc' \in [Proc \cup V1 -> SessionPc \cup V1Pc] /\ job' \in [Proc \cup V1 -> Job]
        /\ \A q \in Proc : JobTyped(q)'
    BY <2>1, <2>3, <2>4, <2>5, TypedMove, TypedDone
  <2>. QED BY <1>1, <2>2, <2>6, <2>7, <2>8, TypedWrite DEF Replace, Typed, TypeOK, gitVars, treeVars, lockVars
<1>2. CASE RefuseReplace(p)
  BY <1>2, TypedDone DEF RefuseReplace, Typed, TypeOK, gitVars, treeVars, lockVars
<1>3. CASE Fails(p)
  BY <1>3, TypedDone, TypedRelease DEF Fails, Typed, TypeOK, gitVars, treeVars
<1>4. CASE Crash(p)
  <2>1. "dead" \in SessionPc /\ "dead" \notin HasBuilt
    BY DEF SessionPc, HasBuilt
  <2>2. /\ pc' \in [Proc \cup V1 -> SessionPc \cup V1Pc] /\ job' \in [Proc \cup V1 -> Job]
        /\ \A q \in Proc : JobTyped(q)'
    BY <1>4, <2>1, NoJobTyped, TypedMove DEF Crash, Goto
  <2>3. crashes' \in 0..MaxCrashes
    BY <1>4, SessionAssumption DEF Crash, Typed, TypeOK
  <2>. QED BY <1>4, <2>2, <2>3 DEF Crash, Typed, TypeOK, gitVars, treeVars, lockVars
<1>5. CASE Respawn(p)
  <2>1. /\ pc' \in [Proc \cup V1 -> SessionPc \cup V1Pc] /\ job' \in [Proc \cup V1 -> Job]
        /\ \A q \in Proc : JobTyped(q)'
    BY <1>5, TypedGoto DEF Respawn, SessionPc, HasBuilt
  <2>. QED BY <1>5, <2>1 DEF Respawn, Typed, TypeOK, gitVars, treeVars, lockVars
<1>. QED BY <1>1, <1>2, <1>3, <1>4, <1>5

LEMMA TypedNewCommit == ASSUME Typed, NEW c \in CommitId, NEW tree \in SUBSET Fact,
                               NEW ops \in SUBSET Fact, NEW by \in Opt(Session),
                               NewCommit(c, tree, ops, by)
                        PROVE  /\ next \in CommitId
                               /\ commits' \in [CommitId -> Commit]
                               /\ next' \in 1..(MaxCommits + 1)
<1>1. next \in CommitId
  BY SessionAssumption DEF NewCommit, Typed, TypeOK, CommitId
<1>2. commits[c] \in Commit
  BY DEF Typed, TypeOK
<1>3. [anc |-> commits[c].anc \cup {next}, parent |-> c, tree |-> tree, ops |-> ops, by |-> by]
        \in Commit
  BY <1>1, <1>2 DEF Commit, Opt
<1>. QED BY <1>1, <1>3, SessionAssumption DEF NewCommit, Typed, TypeOK, CommitId

LEMMA TypedCommitIndex == ASSUME Typed, CommitIndex
                          PROVE  /\ commits' \in [CommitId -> Commit]
                                 /\ next' \in 1..(MaxCommits + 1)
                                 /\ ref' \in [Ref -> Opt(CommitId)]
                                 /\ ref'[Main] \in CommitId
<1>1. ref[Main] \in CommitId /\ index \in SUBSET Fact /\ {} \in SUBSET Fact /\ None \in Opt(Session)
  BY DEF Typed, TypeOK, Opt
<1>2. NewCommit(ref[Main], index, {}, None)
  BY DEF CommitIndex
<1>3. next \in CommitId /\ commits' \in [CommitId -> Commit] /\ next' \in 1..(MaxCommits + 1)
  BY <1>1, <1>2, TypedNewCommit
<1>. QED BY <1>3, SessionAssumption DEF CommitIndex, Typed, TypeOK, Opt

\* A step of a v1 writer leaves what the session processes hold.
LEMMA TypedV1Move == ASSUME Typed, NEW v \in V1, NEW w \in SessionPc \cup V1Pc, NEW j \in Job,
                            pc' = [pc EXCEPT ![v] = w], job' = [job EXCEPT ![v] = j]
                     PROVE  /\ pc' \in [Proc \cup V1 -> SessionPc \cup V1Pc]
                            /\ job' \in [Proc \cup V1 -> Job]
                            /\ \A q \in Proc : JobTyped(q)'
  BY SessionAssumption DEF Typed, TypeOK, JobTyped

LEMMA TypedV1 == ASSUME Typed, NEW v \in V1,
                        V1Stage(v) \/ V1Commit(v) \/ V1Compensate(v) \/ Crash(v) \/ Respawn(v)
                 PROVE  Typed'
<1>. DEFINE Moved == /\ pc' \in [Proc \cup V1 -> SessionPc \cup V1Pc]
                     /\ job' \in [Proc \cup V1 -> Job]
                     /\ \A q \in Proc : JobTyped(q)'
<1>0. {"idle", "staged", "dead"} \subseteq SessionPc \cup V1Pc
  BY DEF V1Pc
<1>1. ASSUME Done(v) PROVE Moved
  BY <1>0, <1>1, NoJobTyped, TypedV1Move DEF Done, Goto
<1>2. CASE V1Stage(v)
  <2>1. PICK f \in Fact : /\ job' = [job EXCEPT ![v] = [NoJob EXCEPT !.kind = "v1", !.new = {f}]]
                          /\ index' = index \cup {f} /\ work' = work \cup {f}
    BY <1>2 DEF V1Stage
  <2>2. [NoJob EXCEPT !.kind = "v1", !.new = {f}] \in Job
    BY NoJobTyped DEF Job
  <2>3. Moved
    BY <1>0, <1>2, <2>1, <2>2, TypedV1Move DEF V1Stage, Goto
  <2>. QED BY <1>2, <2>1, <2>3 DEF V1Stage, Typed, TypeOK, gitVars, Opt
<1>3. CASE V1Commit(v)
  BY <1>1, <1>3, TypedCommitIndex DEF V1Commit, ReleaseCheckout, Typed, TypeOK, treeVars, Opt
<1>4. CASE V1Compensate(v)
  BY <1>1, <1>4 DEF V1Compensate, ReleaseCheckout, Typed, TypeOK, gitVars, Opt
<1>5. CASE Crash(v)
  <2>1. Moved
    BY <1>0, <1>5, NoJobTyped, TypedV1Move DEF Crash, Goto
  <2>2. crashes' \in 0..MaxCrashes
    BY <1>5, SessionAssumption DEF Crash, Typed, TypeOK
  <2>. QED BY <1>5, <2>1, <2>2 DEF Crash, Typed, TypeOK, gitVars, treeVars, lockVars
<1>6. CASE Respawn(v)
  <2>1. job' = [job EXCEPT ![v] = job[v]] /\ job[v] \in Job
    BY <1>6 DEF Respawn, Typed, TypeOK
  <2>2. Moved
    BY <1>0, <1>6, <2>1, TypedV1Move DEF Respawn, Goto
  <2>. QED BY <1>6, <2>2 DEF Respawn, Typed, TypeOK, gitVars, treeVars, lockVars
<1>. QED BY <1>2, <1>3, <1>4, <1>5, <1>6

LEMMA TypedOthers == ASSUME Typed,
                            \/ \E s \in Session : ReclaimSession(s)
                            \/ ReclaimCheckout
                            \/ User
                     PROVE  Typed'
<1>1. CASE \E s \in Session : ReclaimSession(s)
  BY <1>1 DEF ReclaimSession, Typed, TypeOK, JobTyped, gitVars, treeVars, Opt
<1>2. CASE ReclaimCheckout
  BY <1>2 DEF ReclaimCheckout, Typed, TypeOK, JobTyped, gitVars, treeVars, Opt
<1>3. CASE User
  <2>1. index' \subseteq Fact /\ work' \subseteq Fact
    BY <1>3 DEF User, Typed, TypeOK, treeVars
  <2>2. \/ UNCHANGED gitVars
        \/ CommitIndex
    BY <1>3 DEF User
  <2>3. /\ commits' \in [CommitId -> Commit] /\ next' \in 1..(MaxCommits + 1)
        /\ ref' \in [Ref -> Opt(CommitId)] /\ ref'[Main] \in CommitId
    BY <2>2, TypedCommitIndex DEF Typed, TypeOK, gitVars
  <2>. QED BY <1>3, <2>1, <2>3 DEF User, Typed, TypeOK, JobTyped, lockVars
<1>. QED BY <1>1, <1>2, <1>3

LEMMA TypedStep == ASSUME Typed, [Next]_vars PROVE Typed'
<1>1. CASE \E p \in Proc : \/ \E s \in Session, kind \in Calls : Read(p, s, kind)
                           \/ Call(p)
                           \/ LandTimeout(p) \/ SwapFails(p) \/ Fails(p)
  BY <1>1, TypedRead, TypedOnto, TypedTake, TypedPut, TypedSettle, TypedPrepare, TypedLand,
     TypedReplace, Zenon DEF Call
<1>2. CASE \E v \in V1 : V1Stage(v) \/ V1Commit(v) \/ V1Compensate(v)
  BY <1>2, TypedV1
<1>3. CASE \E p \in Proc \cup V1 : Crash(p) \/ Respawn(p)
  BY <1>3, TypedReplace, TypedV1
<1>4. CASE UNCHANGED vars
  BY <1>4 DEF vars, Typed, TypeOK, JobTyped
<1>. QED BY <1>1, <1>2, <1>3, <1>4, TypedOthers DEF Next

\* Every variable keeps its type, whatever the processes do and whatever fails.
THEOREM TypeCorrect == Spec => []TypeOK
<1>1. Typed => TypeOK
  BY DEF Typed
<1>. QED BY <1>1, InitTyped, TypedStep, PTL DEF Spec

-----------------------------------------------------------------------------
(***************************************************************************)
(* What every log and every ref of SessionCommit says of the commits that  *)
(* were made, proved for every number of processes, sessions, files and    *)
(* refs, and under every failure of Env: locks lost by living holders and  *)
(* a person who takes no lock are among them.  So none of it rests on the  *)
(* locks, only on what the writers compare and on git's compare-and-swap.  *)
(***************************************************************************)
\* The commits made so far, when n is the next id.
Made(n) == 0..(n - 1)

\* A commit names its whole ancestry; a session's commit is exact.
CommitFits(C, n, c) ==
    /\ c \in C[c].anc
    /\ C[c].anc \subseteq Made(n)
    /\ \A d \in C[c].anc : C[d].anc \subseteq C[c].anc
    /\ C[c].by # None =>
         /\ C[c].parent \in Made(n)
         /\ C[c].ops # {}
         /\ C[c].tree = C[C[c].parent].tree \cup C[c].ops
         /\ C[c].ops \cap C[C[c].parent].tree = {}

\* A log, stored or in a process's memory: its pending commit was built from its ops.
LogFits(C, n, l, s) ==
    /\ l.base \in Made(n)
    /\ l.pending # None =>
         /\ l.pending \in Made(n)
         /\ l.ops # {}
         /\ C[l.pending].ops = l.ops
         /\ C[l.pending].by = s

\* What a process at w holds: a commit never has an empty log in hand, and the
\* commit about to land descends from the value its swap expects.
JobFits(C, n, j, w) ==
    w \notin {"idle", "dead"} =>
        /\ LogFits(C, n, j.copy, j.s)
        /\ j.kind \in {"commit", "drop"} \/ w = "prepare" => j.copy.ops # {}
        /\ w \in HasBuilt => j.built \in Made(n)
        /\ w \in {"land", "sync", "swap"} => j.expected = None \/ j.expected \in C[j.built].anc

Fit == /\ \A c \in Made(next) : CommitFits(commits, next, c)
       /\ \A r \in Ref : ref[r] # None => ref[r] \in Made(next)
       /\ \A s \in Session : LogFits(commits, next, log[s], s)
       /\ \A p \in Proc : JobFits(commits, next, job[p], pc[p])

\* The commits made stay what they are.
Keeps == /\ Made(next) \subseteq Made(next')
         /\ \A c \in Made(next) : commits'[c] = commits[c]

LEMMA InitFits == Init => Fit
<1>. SUFFICES ASSUME Init PROVE Fit
  OBVIOUS
<1>1. Made(next) = {0} /\ commits[0] = [NoCommit EXCEPT !.anc = {0}]
  BY SessionAssumption DEF Init, Made, CommitId
<1>2. \A c \in Made(next) : CommitFits(commits, next, c)
  BY <1>1 DEF CommitFits, NoCommit
<1>3. \A s \in Session : LogFits(commits, next, log[s], s)
  BY <1>1 DEF Init, LogFits, EmptyLog
<1>4. \A p \in Proc : JobFits(commits, next, job[p], pc[p])
  BY DEF Init, JobFits
<1>5. \A r \in Ref : ref[r] # None => ref[r] \in Made(next)
  BY <1>1 DEF Init
<1>. QED BY <1>2, <1>3, <1>4, <1>5 DEF Fit

LEMMA StaysKept == ASSUME UNCHANGED <<commits, next>> PROVE Keeps
  BY DEF Keeps

LEMMA KeptLog == ASSUME Keeps, NEW l, NEW s, LogFits(commits, next, l, s)
                 PROVE  LogFits(commits', next', l, s)
  BY DEF Keeps, LogFits

LEMMA KeptJob == ASSUME Keeps, NEW j, NEW w, JobFits(commits, next, j, w)
                 PROVE  JobFits(commits', next', j, w)
  BY KeptLog, "land" \in HasBuilt /\ "sync" \in HasBuilt /\ "swap" \in HasBuilt DEF Keeps, JobFits, HasBuilt

\* A new commit over one that was made.
LEMMA CommitMade ==
    ASSUME Typed, Fit, NEW c \in Made(next), NEW tree \in SUBSET Fact, NEW ops \in SUBSET Fact,
           NEW by \in Opt(Session), NewCommit(c, tree, ops, by),
           by # None => /\ ops # {} /\ tree = commits[c].tree \cup ops
                        /\ ops \cap commits[c].tree = {}
    PROVE  /\ Keeps
           /\ next \in Made(next') /\ next \notin Made(next)
           /\ commits'[next] = [anc |-> commits[c].anc \cup {next}, parent |-> c,
                                tree |-> tree, ops |-> ops, by |-> by]
           /\ \A d \in Made(next') : CommitFits(commits', next', d)
<1>1. next \in Nat /\ next <= MaxCommits /\ next' = next + 1 /\ MaxCommits \in Nat
  BY SessionAssumption DEF Typed, TypeOK, NewCommit
<1>2. Made(next') = Made(next) \cup {next} /\ next \notin Made(next)
  BY <1>1 DEF Made
<1>3. next \in CommitId /\ Made(next) \subseteq CommitId
  BY <1>1 DEF CommitId, Made
<1>4. \A d \in Made(next) : commits'[d] = commits[d]
  BY <1>2, <1>3 DEF NewCommit, Typed, TypeOK
<1>5. commits'[next] = [anc |-> commits[c].anc \cup {next}, parent |-> c,
                        tree |-> tree, ops |-> ops, by |-> by]
  BY <1>3 DEF NewCommit, Typed, TypeOK
<1>6. Keeps
  BY <1>2, <1>4 DEF Keeps
<1>7. ASSUME NEW d \in Made(next) PROVE CommitFits(commits', next', d)
  <2>1. CommitFits(commits, next, d)
    BY DEF Fit
  <2>. QED BY <1>2, <1>4, <2>1 DEF CommitFits
<1>8. CommitFits(commits', next', next)
  <2>1. CommitFits(commits, next, c)
    BY DEF Fit
  <2>2. commits[c].anc \subseteq Made(next) /\ c \in commits[c].anc
    BY <2>1 DEF CommitFits
  <2>3. \A d \in commits[c].anc : commits'[d].anc \subseteq commits[c].anc
    BY <1>4, <2>1, <2>2 DEF CommitFits
  <2>4. commits'[c].tree = commits[c].tree
    BY <1>4
  <2>. QED BY <1>2, <1>5, <2>2, <2>3, <2>4 DEF CommitFits
<1>. QED BY <1>2, <1>5, <1>6, <1>7, <1>8

LEMMA FitCommits == ASSUME Fit, UNCHANGED <<commits, next>>
                    PROVE  \A c \in Made(next') : CommitFits(commits', next', c)
  BY DEF Fit

LEMMA FitRefs == ASSUME Fit, Keeps, UNCHANGED ref
                 PROVE  \A r \in Ref : ref'[r] # None => ref'[r] \in Made(next')
  BY DEF Fit, Keeps

LEMMA FitLogs == ASSUME Fit, Keeps, UNCHANGED log
                 PROVE  \A s \in Session : LogFits(commits', next', log'[s], s)
  BY KeptLog DEF Fit

LEMMA FitWrite == ASSUME Typed, Fit, Keeps, NEW p \in Proc, NEW l, WriteLog(p, l),
                         LogFits(commits', next', l, job[p].s)
                  PROVE  \A s \in Session : LogFits(commits', next', log'[s], s)
<1>1. \A s \in Session : log'[s] = log[s] \/ (s = job[p].s /\ log'[s] = l)
  BY DEF WriteLog, Typed, TypeOK
<1>2. \A s \in Session : LogFits(commits', next', log[s], s)
  BY KeptLog DEF Fit
<1>. QED BY <1>1, <1>2

LEMMA FitMove == ASSUME Typed, Fit, Keeps, NEW p \in Proc, NEW w, NEW j,
                        pc' = [pc EXCEPT ![p] = w], job' = [job EXCEPT ![p] = j],
                        JobFits(commits', next', j, w)
                 PROVE  \A q \in Proc : JobFits(commits', next', job'[q], pc'[q])
<1>1. \A q \in Proc : JobFits(commits', next', job[q], pc[q])
  BY KeptJob DEF Fit
<1>2. \A q \in Proc : \/ job'[q] = job[q] /\ pc'[q] = pc[q]
                      \/ job'[q] = j /\ pc'[q] = w
  BY DEF Typed, TypeOK
<1>. QED BY <1>1, <1>2

LEMMA FitGoto == ASSUME Typed, Fit, Keeps, NEW p \in Proc, NEW w, Goto(p, w), UNCHANGED job,
                        JobFits(commits', next', job[p], w)
                 PROVE  \A q \in Proc : JobFits(commits', next', job'[q], pc'[q])
<1>1. job' = [job EXCEPT ![p] = job[p]]
  BY DEF Typed, TypeOK
<1>. QED BY <1>1, FitMove DEF Goto

LEMMA FitDone == ASSUME Typed, Fit, Keeps, NEW p \in Proc, Done(p)
                 PROVE  \A q \in Proc : JobFits(commits', next', job'[q], pc'[q])
<1>1. JobFits(commits', next', NoJob, "idle")
  BY DEF JobFits
<1>. QED BY <1>1, FitMove DEF Done, Goto

LEMMA FitJobs == ASSUME Typed, Fit, Keeps, \A p \in Proc : job'[p] = job[p] /\ pc'[p] = pc[p]
                 PROVE  \A q \in Proc : JobFits(commits', next', job'[q], pc'[q])
  BY KeptJob DEF Fit

LEMMA JobHere == ASSUME Fit, NEW p \in Proc, pc[p] \notin {"idle", "dead"}
                 PROVE  /\ LogFits(commits, next, job[p].copy, job[p].s)
                        /\ job[p].kind \in {"commit", "drop"} => job[p].copy.ops # {}
                        /\ pc[p] = "prepare" => job[p].copy.ops # {}
                        /\ pc[p] \in HasBuilt => job[p].built \in Made(next)
                        /\ pc[p] \in {"land", "sync", "swap"} =>
                             job[p].expected = None \/ job[p].expected \in commits[job[p].built].anc
  BY DEF Fit, JobFits

\* A log with nothing pending needs only its base.
LEMMA Settled == ASSUME NEW l, l.base \in Made(next), l.pending = None, NEW s
                 PROVE  LogFits(commits, next, l, s)
  BY DEF LogFits

\* A step that moves a process and leaves git and the logs.
LEMMA FitQuiet == ASSUME Fit, UNCHANGED <<gitVars, log>>,
                         \A q \in Proc : JobFits(commits', next', job'[q], pc'[q])
                  PROVE  Fit'
  BY StaysKept, FitCommits, FitRefs, FitLogs DEF Fit, gitVars

\* A call that ends without writing its log, or with one that fits.
LEMMA FitEnd == ASSUME Typed, Fit, NEW p \in Proc, UNCHANGED gitVars, Done(p),
                       \/ UNCHANGED log
                       \/ \E l : WriteLog(p, l) /\ LogFits(commits, next, l, job[p].s)
                PROVE  Fit'
<1>1. Keeps /\ UNCHANGED <<commits, next, ref>>
  BY StaysKept DEF gitVars
<1>2. \A s \in Session : LogFits(commits', next', log'[s], s)
  BY <1>1, FitLogs, FitWrite
<1>. QED BY <1>1, <1>2, FitCommits, FitRefs, FitDone DEF Fit

LEMMA FitRead == ASSUME Typed, Fit, NEW p \in Proc, NEW s \in Session, NEW kind \in Calls,
                        Read(p, s, kind)
                 PROVE  Fit'
<1>1. PICK new : /\ job' = [job EXCEPT ![p] = CallOf(s, kind, new)]
                 /\ kind \in {"commit", "drop"} => log[s].ops # {} \/ log[s].pending # None
  BY Zenon DEF Read
<1>. DEFINE w == IF kind \in {"start", "rebase"} THEN "onto" ELSE "read"
            j == CallOf(s, kind, new)
<1>2. /\ pc' = [pc EXCEPT ![p] = w] /\ job' = [job EXCEPT ![p] = j]
      /\ w \notin HasBuilt /\ w \notin {"prepare", "land", "sync", "swap"}
  BY <1>1 DEF Read, Goto, HasBuilt
<1>3. j.copy = log[s] /\ j.s = s /\ j.kind = kind
  BY DEF CallOf, NoJob
<1>4. LogFits(commits, next, log[s], s)
  BY DEF Fit
<1>5. UNCHANGED <<commits, next, ref, log>>
  BY DEF Read, gitVars
<1>6. JobFits(commits', next', j, w)
  BY <1>1, <1>2, <1>3, <1>4, <1>5 DEF JobFits, LogFits
<1>. HIDE DEF w, j
<1>7. \A q \in Proc : JobFits(commits', next', job'[q], pc'[q])
  BY <1>2, <1>5, <1>6, StaysKept, FitMove
<1>. QED BY <1>5, <1>7, FitQuiet DEF gitVars

LEMMA FitOnto == ASSUME Typed, Fit, NEW p \in Proc, Onto(p) PROVE Fit'
<1>. DEFINE tip == TipFor(RefOf[job[p].s])
            j == [job[p] EXCEPT !.copy.base = tip]
<1>1. pc[p] = "onto" /\ job[p].s \in Session /\ UNCHANGED <<commits, next, ref, log>>
  BY DEF Onto, Typed, JobTyped, gitVars
<1>2. tip \in Made(next)
  BY <1>1, SessionAssumption DEF Typed, TypeOK, TipFor, Fit, CommitId
<1>3. /\ j.s = job[p].s /\ j.kind = job[p].kind /\ j.copy.ops = job[p].copy.ops
      /\ j.copy.pending = job[p].copy.pending /\ j.copy.base = tip
  BY TypedJob DEF Job, Log
<1>4. job' = [job EXCEPT ![p] = j] /\ pc' = [pc EXCEPT ![p] = "read"]
  BY DEF Onto, Goto, Typed, TypeOK
<1>5. "read" \notin HasBuilt
  BY DEF HasBuilt
<1>. HIDE DEF tip, j
<1>6. JobFits(commits', next', j, "read")
  BY <1>1, <1>2, <1>3, <1>5, JobHere DEF JobFits, LogFits
<1>7. \A q \in Proc : JobFits(commits', next', job'[q], pc'[q])
  BY <1>1, <1>4, <1>6, StaysKept, FitMove
<1>. QED BY <1>1, <1>7, FitQuiet DEF gitVars

\* A process that goes on with what it holds and a commit already in hand.
LEMMA FitGoes == ASSUME Typed, Fit, NEW p \in Proc, NEW w, Goto(p, w), UNCHANGED <<gitVars, log, job>>,
                        pc[p] \notin {"idle", "dead"},
                        w = "prepare" => job[p].copy.ops # {},
                        w \in HasBuilt => pc[p] \in HasBuilt,
                        w \in {"land", "sync", "swap"} => pc[p] \in {"land", "sync", "swap"}
                 PROVE  Fit'
<1>1. UNCHANGED <<commits, next>>
  BY DEF gitVars
<1>2. JobFits(commits', next', job[p], w)
  BY <1>1, JobHere DEF JobFits
<1>3. \A q \in Proc : JobFits(commits', next', job'[q], pc'[q])
  BY <1>1, <1>2, StaysKept, FitGoto
<1>. QED BY <1>3, FitQuiet

LEMMA FitTake == ASSUME Typed, Fit, NEW p \in Proc, TakeSession(p) \/ Refuse(p) PROVE Fit'
<1>1. CASE TakeSession(p)
  BY <1>1, FitGoes DEF TakeSession, HasBuilt
<1>2. CASE Refuse(p)
  BY <1>2, FitEnd DEF Refuse
<1>. QED BY <1>1, <1>2

LEMMA FitPut == ASSUME Typed, Fit, NEW p \in Proc,
                       Start(p) \/ Rebase(p) \/ Put(p) \/ PutSettled(p)
                PROVE  Fit'
<1>1. pc[p] \in {"held", "landed", "unlanded"} /\ UNCHANGED gitVars /\ Done(p)
  BY DEF Start, Rebase, Put, PutSettled, Append
<1>2. LogFits(commits, next, job[p].copy, job[p].s) /\ job[p].copy.base \in Made(next)
  BY <1>1, JobHere DEF LogFits
<1>3. ASSUME NEW l \in Log, l.base \in Made(next), Append(p, l)
      PROVE  \E m : WriteLog(p, m) /\ LogFits(commits, next, m, job[p].s)
  <2>1. /\ [l EXCEPT !.ops = @ \cup job[p].new, !.pending = None].base = l.base
        /\ [l EXCEPT !.ops = @ \cup job[p].new, !.pending = None].pending = None
    BY <1>3 DEF Log
  <2>. QED BY <1>3, <2>1, Settled DEF Append
<1>4. CASE Start(p)
  <2>1. /\ [EmptyLog EXCEPT !.base = job[p].copy.base].base = job[p].copy.base
        /\ [EmptyLog EXCEPT !.base = job[p].copy.base].pending = None
    BY DEF EmptyLog
  <2>2. LogFits(commits, next, [EmptyLog EXCEPT !.base = job[p].copy.base], job[p].s)
    BY <1>2, <2>1, Settled
  <2>. QED BY <1>1, <1>4, <2>2, FitEnd DEF Start
<1>5. CASE Rebase(p)
  BY <1>1, <1>2, <1>5, FitEnd DEF Rebase
<1>6. CASE Put(p)
  BY <1>1, <1>2, <1>3, <1>6, FitEnd, TypedJob DEF Put
<1>7. CASE PutSettled(p)
  <2>1. ASSUME pc[p] = "landed"
        PROVE  /\ [job[p].copy EXCEPT !.base = job[p].built, !.ops = {}] \in Log
               /\ [job[p].copy EXCEPT !.base = job[p].built, !.ops = {}].base = job[p].built
               /\ job[p].built \in Made(next)
    BY <2>1, TypedJob, JobHere DEF Log, Typed, JobTyped, HasBuilt
  <2>2. \E l \in Log : l.base \in Made(next) /\ Append(p, l)
    BY <1>2, <1>7, <2>1, TypedJob DEF PutSettled
  <2>. QED BY <1>1, <1>3, <2>2, FitEnd
<1>. QED BY <1>4, <1>5, <1>6, <1>7

LEMMA FitSettle == ASSUME Typed, Fit, NEW p \in Proc,
                          StartSettle(p) \/ Settle(p) \/ Rollback(p)
                   PROVE  Fit'
<1>1. CASE StartSettle(p)
  <2>. DEFINE j == [job[p] EXCEPT !.built = ToSettle(p)]
  <2>1. /\ pc[p] = "held" /\ job[p].s \in Session /\ ToSettle(p) # None
        /\ UNCHANGED <<commits, next, ref, log>>
    BY <1>1 DEF StartSettle, Typed, JobTyped, gitVars
  <2>2. ToSettle(p) \in Made(next)
    <3>1. LogFits(commits, next, log[job[p].s], job[p].s)
      BY <2>1 DEF Fit
    <3>. QED BY <2>1, <3>1, JobHere DEF ToSettle, LogFits
  <2>3. /\ j.s = job[p].s /\ j.kind = job[p].kind /\ j.copy = job[p].copy
        /\ j.built = ToSettle(p)
    BY TypedJob DEF Job
  <2>4. job' = [job EXCEPT ![p] = j] /\ pc' = [pc EXCEPT ![p] = "settle"]
    BY <1>1 DEF StartSettle, Goto, Typed, TypeOK
  <2>. HIDE DEF j
  <2>5. JobFits(commits', next', j, "settle")
    BY <2>1, <2>2, <2>3, JobHere DEF JobFits
  <2>6. \A q \in Proc : JobFits(commits', next', job'[q], pc'[q])
    BY <2>1, <2>4, <2>5, StaysKept, FitMove
  <2>. QED BY <2>1, <2>6, FitQuiet DEF gitVars
<1>2. CASE Settle(p)
  BY <1>2, FitGoes DEF Settle, HasBuilt
<1>3. CASE Rollback(p)
  BY <1>3, FitGoes DEF Rollback, HasBuilt
<1>. QED BY <1>1, <1>2, <1>3

LEMMA FitPrepare == ASSUME Typed, Fit, NEW p \in Proc,
                           \/ Recover(p) \/ ForgetPending(p) \/ SkipRecovery(p)
                           \/ Invalid(p) \/ RebaseNeeded(p)
                    PROVE  Fit'
<1>1. CASE Recover(p)
  <2>. DEFINE l == [base |-> job[p].built, ops |-> {}, pending |-> None]
  <2>1. l.base \in Made(next) /\ l.pending = None
    BY <1>1, JobHere DEF Recover, HasBuilt
  <2>. HIDE DEF l
  <2>2. LogFits(commits, next, l, job[p].s)
    BY <2>1, Settled
  <2>. QED BY <1>1, <2>2, FitEnd DEF Recover, l
<1>2. CASE ForgetPending(p)
  <2>. DEFINE l == [job[p].copy EXCEPT !.pending = None]
              j == [job[p] EXCEPT !.copy.pending = None, !.built = None]
  <2>1. /\ pc[p] = "unlanded" /\ Committing(p) /\ UNCHANGED <<commits, next, ref>>
        /\ WriteLog(p, l)
    BY <1>2 DEF ForgetPending, gitVars
  <2>2. /\ job[p].copy.base \in Made(next) /\ job[p].copy.ops # {}
    BY <2>1, JobHere DEF LogFits, Committing
  <2>3. l.base = job[p].copy.base /\ l.pending = None
    BY TypedJob DEF Log
  <2>4. /\ j.s = job[p].s /\ j.kind = job[p].kind /\ j.copy.ops = job[p].copy.ops
        /\ j.copy.base = job[p].copy.base /\ j.copy.pending = None
    BY TypedJob DEF Job, Log
  <2>5. job' = [job EXCEPT ![p] = j] /\ pc' = [pc EXCEPT ![p] = "prepare"]
    BY <1>2 DEF ForgetPending, Goto, Typed, TypeOK
  <2>6. "prepare" \notin HasBuilt
    BY DEF HasBuilt
  <2>. HIDE DEF l, j
  <2>7. LogFits(commits', next', l, job[p].s) /\ LogFits(commits', next', j.copy, j.s)
    BY <2>1, <2>2, <2>3, <2>4 DEF LogFits
  <2>8. JobFits(commits', next', j, "prepare")
    BY <2>2, <2>4, <2>6, <2>7 DEF JobFits
  <2>9. Keeps
    BY <2>1, StaysKept
  <2>10. \A q \in Proc : JobFits(commits', next', job'[q], pc'[q])
    BY <2>5, <2>8, <2>9, FitMove
  <2>11. \A s \in Session : LogFits(commits', next', log'[s], s)
    BY <2>1, <2>7, <2>9, FitWrite
  <2>. QED BY <2>1, <2>9, <2>10, <2>11, FitCommits, FitRefs DEF Fit
<1>3. CASE SkipRecovery(p)
  BY <1>3, FitGoes, JobHere DEF SkipRecovery, Committing, HasBuilt
<1>4. CASE Invalid(p)
  <2>1. CASE Done(p)
    BY <1>4, <2>1, FitEnd DEF Invalid
  <2>2. CASE ~Done(p)
    BY <1>4, <2>2, FitGoes DEF Invalid, HasBuilt
  <2>. QED BY <2>1, <2>2
<1>5. CASE RebaseNeeded(p)
  BY <1>5, FitEnd DEF RebaseNeeded
<1>. QED BY <1>1, <1>2, <1>3, <1>4, <1>5

LEMMA FitBuild == ASSUME Typed, Fit, NEW p \in Proc, Build(p) PROVE Fit'
<1>. DEFINE copy == job[p].copy
            l == [copy EXCEPT !.pending = next]
            expected == ref[RefOf[job[p].s]]
            j == [job[p] EXCEPT !.built = next, !.expected = expected]
<1>1. /\ pc[p] = "prepare" /\ job[p].s \in Session /\ job[p].s # None
      /\ expected \in {None, copy.base}
      /\ copy.ops \cap commits[copy.base].tree = {}
  BY SessionAssumption DEF Build, AtTip, Duplicates, Typed, JobTyped
<1>2. copy.base \in Made(next) /\ copy.ops # {} /\ copy.ops \in SUBSET Fact
  BY <1>1, JobHere, TypedJob DEF LogFits
<1>3. /\ NewCommit(copy.base, commits[copy.base].tree \cup copy.ops, copy.ops, job[p].s)
      /\ WriteLog(p, l)
      /\ UNCHANGED ref
  BY DEF Build
<1>4. commits[copy.base].tree \cup copy.ops \in SUBSET Fact /\ job[p].s \in Opt(Session)
  BY <1>1, TypedJob DEF Typed, TypeOK, Commit, Opt
<1>5. /\ Keeps
      /\ next \in Made(next')
      /\ commits'[next] = [anc |-> commits[copy.base].anc \cup {next}, parent |-> copy.base,
                           tree |-> commits[copy.base].tree \cup copy.ops,
                           ops |-> copy.ops, by |-> job[p].s]
      /\ \A d \in Made(next') : CommitFits(commits', next', d)
  <2>. DEFINE b == copy.base
              ops == copy.ops
              t == commits[b].tree \cup ops
              by == job[p].s
  <2>1. /\ b \in Made(next) /\ t \in SUBSET Fact /\ ops \in SUBSET Fact /\ by \in Opt(Session)
        /\ NewCommit(b, t, ops, by)
    BY <1>2, <1>3, <1>4
  <2>2. by # None => ops # {} /\ t = commits[b].tree \cup ops /\ ops \cap commits[b].tree = {}
    BY <1>1, <1>2
  <2>. HIDE DEF b, ops, t, by
  <2>3. /\ Keeps
        /\ next \in Made(next')
        /\ commits'[next] = [anc |-> commits[b].anc \cup {next}, parent |-> b,
                             tree |-> t, ops |-> ops, by |-> by]
        /\ \A d \in Made(next') : CommitFits(commits', next', d)
    BY <2>1, <2>2, CommitMade
  <2>. QED BY <2>3 DEF b, ops, t, by
<1>6. next # None
  BY SessionAssumption DEF Typed, TypeOK
<1>7. l.base = copy.base /\ l.ops = copy.ops /\ l.pending = next
  BY TypedJob DEF Log
<1>8. j.s = job[p].s /\ j.copy = copy /\ j.built = next /\ j.expected = expected
  BY TypedJob DEF Job
<1>9. job' = [job EXCEPT ![p] = j] /\ pc' = [pc EXCEPT ![p] = "land"]
  BY DEF Build, Goto, Typed, TypeOK
<1>10. LogFits(commits', next', copy, job[p].s)
  BY <1>1, <1>5, JobHere, KeptLog
<1>11. expected = None \/ expected \in commits'[next].anc
  <2>1. copy.base \in commits[copy.base].anc
    BY <1>2 DEF Fit, CommitFits
  <2>. QED BY <1>1, <1>5, <2>1
<1>12. copy.base \in Made(next')
  BY <1>2, <1>5 DEF Keeps
<1>. HIDE DEF copy, l, expected, j
<1>13. JobFits(commits', next', j, "land")
  BY <1>2, <1>5, <1>8, <1>10, <1>11 DEF JobFits
<1>14. LogFits(commits', next', l, job[p].s)
  BY <1>2, <1>5, <1>7, <1>12 DEF LogFits
<1>15. \A s \in Session : LogFits(commits', next', log'[s], s)
  BY <1>3, <1>5, <1>14, FitWrite
<1>16. \A q \in Proc : JobFits(commits', next', job'[q], pc'[q])
  BY <1>5, <1>9, <1>13, FitMove
<1>. QED BY <1>3, <1>5, <1>15, <1>16, FitRefs DEF Fit

\* A swap puts on the ref the commit the process built.
LEMMA FitSwap == ASSUME Typed, Fit, NEW p \in Proc, Swap(p) \/ SwapFails(p) PROVE Fit'
<1>1. /\ pc[p] = "swap" /\ job[p].s \in Session /\ RefOf[job[p].s] \in Ref
      /\ UNCHANGED <<commits, next, log, job>>
  BY SessionAssumption DEF Swap, SwapFails, Typed, JobTyped
<1>2. job[p].built \in Made(next)
  BY <1>1, JobHere DEF HasBuilt
<1>3. ref' = ref \/ ref' = [ref EXCEPT ![RefOf[job[p].s]] = job[p].built]
  BY DEF Swap, SwapFails
<1>4. \A r \in Ref : ref'[r] # None => ref'[r] \in Made(next')
  BY <1>1, <1>2, <1>3 DEF Fit, Typed, TypeOK
<1>5. PICK w \in {"final", "unsync", "clear", "fail"} : Goto(p, w)
  BY DEF Swap, SwapFails
<1>6. JobFits(commits', next', job[p], w)
  BY <1>1, <1>2, <1>5, JobHere DEF JobFits
<1>7. \A q \in Proc : JobFits(commits', next', job'[q], pc'[q])
  BY <1>1, <1>5, <1>6, StaysKept, FitGoto
<1>. QED BY <1>1, <1>4, <1>7, StaysKept, FitCommits, FitLogs DEF Fit

LEMMA FitLand == ASSUME Typed, Fit, NEW p \in Proc,
                        \/ Land(p) \/ LandTimeout(p) \/ Sync(p)
                        \/ AfterFailure(p) \/ Unsync(p) \/ Clear(p) \/ Final(p)
                 PROVE  Fit'
<1>1. CASE Land(p)
  BY <1>1, FitGoes DEF Land, HasBuilt
<1>2. CASE LandTimeout(p)
  BY <1>2, FitGoes DEF LandTimeout, HasBuilt
<1>3. CASE Sync(p)
  <2>1. CASE Done(p)
    BY <1>3, <2>1, FitEnd DEF Sync
  <2>2. CASE ~Done(p)
    BY <1>3, <2>2, FitGoes DEF Sync, HasBuilt
  <2>. QED BY <2>1, <2>2
<1>4. CASE AfterFailure(p)
  BY <1>4, FitEnd DEF AfterFailure, CommitFails
<1>5. CASE Unsync(p)
  BY <1>5, FitGoes DEF Unsync, HasBuilt
<1>6. CASE Clear(p)
  <2>. DEFINE l == [job[p].copy EXCEPT !.pending = None]
  <2>1. l.base = job[p].copy.base /\ l.pending = None
    BY TypedJob DEF Log
  <2>2. job[p].copy.base \in Made(next)
    BY <1>6, JobHere DEF Clear, LogFits
  <2>. HIDE DEF l
  <2>3. LogFits(commits, next, l, job[p].s)
    BY <2>1, <2>2, Settled
  <2>. QED BY <1>6, <2>3, FitEnd DEF Clear, l
<1>7. CASE Final(p)
  <2>. DEFINE l == [base |-> job[p].built, ops |-> {}, pending |-> None]
  <2>1. l.base \in Made(next) /\ l.pending = None
    BY <1>7, JobHere DEF Final, HasBuilt
  <2>. HIDE DEF l
  <2>2. LogFits(commits, next, l, job[p].s)
    BY <2>1, Settled
  <2>. QED BY <1>7, <2>2, FitEnd DEF Final, l
<1>. QED BY <1>1, <1>2, <1>3, <1>4, <1>5, <1>6, <1>7

LEMMA FitReplace == ASSUME Typed, Fit, NEW p \in Proc,
                           Replace(p) \/ RefuseReplace(p) \/ Fails(p) \/ Crash(p) \/ Respawn(p)
                    PROVE  Fit'
<1>1. CASE Replace(p)
  <2>. DEFINE kept == [job[p].copy EXCEPT !.ops = Kept(p), !.pending = None]
              j == [job[p] EXCEPT !.copy = kept, !.built = None]
  <2>1. pc[p] = "replace" /\ UNCHANGED gitVars /\ WriteLog(p, kept)
    BY <1>1 DEF Replace
  <2>2. job[p].copy.base \in Made(next)
    BY <2>1, JobHere DEF LogFits
  <2>3. kept.base = job[p].copy.base /\ kept.pending = None
    BY TypedJob DEF Log
  <2>4. j.s = job[p].s /\ j.copy = kept
    BY TypedJob DEF Job
  <2>5. \/ Done(p)
        \/ job' = [job EXCEPT ![p] = j] /\ pc' = [pc EXCEPT ![p] = "read"] /\ kept.ops # {}
    BY <1>1 DEF Replace, Goto, Typed, TypeOK
  <2>6. "read" \notin HasBuilt
    BY DEF HasBuilt
  <2>. HIDE DEF kept, j
  <2>7. LogFits(commits, next, kept, job[p].s)
    BY <2>2, <2>3, Settled
  <2>8. CASE Done(p)
    BY <2>1, <2>7, <2>8, FitEnd
  <2>9. CASE job' = [job EXCEPT ![p] = j] /\ pc' = [pc EXCEPT ![p] = "read"] /\ kept.ops # {}
    <3>1. UNCHANGED <<commits, next, ref>> /\ Keeps
      BY <2>1, StaysKept DEF gitVars
    <3>2. JobFits(commits', next', j, "read") /\ LogFits(commits', next', kept, job[p].s)
      BY <2>4, <2>6, <2>7, <2>9, <3>1 DEF JobFits
    <3>3. \A q \in Proc : JobFits(commits', next', job'[q], pc'[q])
      BY <2>9, <3>1, <3>2, FitMove
    <3>4. \A s \in Session : LogFits(commits', next', log'[s], s)
      BY <2>1, <3>1, <3>2, FitWrite
    <3>. QED BY <3>1, <3>3, <3>4, FitCommits, FitRefs DEF Fit
  <2>. QED BY <2>5, <2>8, <2>9
<1>2. CASE RefuseReplace(p)
  BY <1>2, FitEnd DEF RefuseReplace
<1>3. CASE Fails(p)
  BY <1>3, FitEnd DEF Fails
<1>4. CASE Crash(p) \/ Respawn(p)
  <2>1. UNCHANGED <<commits, next, ref, log>>
    BY <1>4 DEF Crash, Respawn, gitVars
  <2>2. \A j : JobFits(commits', next', j, "idle") /\ JobFits(commits', next', j, "dead")
    BY DEF JobFits
  <2>3. CASE Crash(p)
    BY <2>1, <2>2, <2>3, StaysKept, FitMove, FitQuiet DEF Crash, Goto, gitVars
  <2>4. CASE Respawn(p)
    BY <2>1, <2>2, <2>4, StaysKept, FitGoto, FitQuiet DEF Respawn, gitVars
  <2>. QED BY <1>4, <2>3, <2>4
<1>. QED BY <1>1, <1>2, <1>3, <1>4

\* A v1 writer or a person commits the index, with no session's name on it.
LEMMA FitCommitIndex == ASSUME Typed, Fit, CommitIndex, UNCHANGED log,
                               \A p \in Proc : job'[p] = job[p] /\ pc'[p] = pc[p]
                        PROVE  Fit' /\ ref[Main] \in commits'[ref'[Main]].anc
<1>1. Main \in Ref /\ ref[Main] \in Made(next) /\ index \in SUBSET Fact /\ {} \in SUBSET Fact
  BY SessionAssumption DEF Typed, TypeOK, Fit, CommitId
<1>2. NewCommit(ref[Main], index, {}, None) /\ None \in Opt(Session)
  BY DEF CommitIndex, Opt
<1>3. /\ Keeps
      /\ next \in Made(next')
      /\ commits'[next] = [anc |-> commits[ref[Main]].anc \cup {next}, parent |-> ref[Main],
                           tree |-> index, ops |-> {}, by |-> None]
      /\ \A d \in Made(next') : CommitFits(commits', next', d)
  BY <1>1, <1>2, CommitMade
<1>4. \A r \in Ref : ref'[r] # None => ref'[r] \in Made(next')
  BY <1>3 DEF CommitIndex, Fit, Keeps, Typed, TypeOK
<1>5. ref[Main] \in commits[ref[Main]].anc
  BY <1>1 DEF Fit, CommitFits
<1>6. ref'[Main] = next
  BY <1>1 DEF CommitIndex, Typed, TypeOK
<1>. QED BY <1>3, <1>4, <1>5, <1>6, FitLogs, FitJobs DEF Fit

LEMMA FitV1 == ASSUME Typed, Fit, NEW v \in V1,
                      V1Stage(v) \/ V1Commit(v) \/ V1Compensate(v) \/ Crash(v) \/ Respawn(v)
               PROVE  Fit'
<1>1. \A p \in Proc : job'[p] = job[p] /\ pc'[p] = pc[p]
  <2>1. \A p \in Proc : p # v
    BY SessionAssumption
  <2>. QED BY <2>1 DEF V1Stage, V1Commit, V1Compensate, Crash, Respawn, Done, Goto, Typed, TypeOK
<1>2. CASE V1Commit(v)
  BY <1>1, <1>2, FitCommitIndex DEF V1Commit
<1>3. CASE ~V1Commit(v)
  <2>1. UNCHANGED gitVars /\ UNCHANGED log
    BY <1>3 DEF V1Stage, V1Compensate, Crash, Respawn
  <2>. QED BY <1>1, <2>1, StaysKept, FitJobs, FitQuiet DEF gitVars
<1>. QED BY <1>2, <1>3

LEMMA FitOthers == ASSUME Typed, Fit,
                          \/ \E s \in Session : ReclaimSession(s)
                          \/ ReclaimCheckout
                          \/ User
                          \/ UNCHANGED vars
                   PROVE  Fit'
<1>1. \A p \in Proc : job'[p] = job[p] /\ pc'[p] = pc[p]
  BY DEF ReclaimSession, ReclaimCheckout, User, vars
<1>2. UNCHANGED log /\ (CommitIndex \/ UNCHANGED gitVars)
  BY DEF ReclaimSession, ReclaimCheckout, User, vars, gitVars
<1>. QED BY <1>1, <1>2, StaysKept, FitJobs, FitQuiet, FitCommitIndex DEF gitVars

LEMMA FitStep == ASSUME Typed, Fit, [Next]_vars PROVE Fit'
<1>1. CASE \E p \in Proc : \/ \E s \in Session, kind \in Calls : Read(p, s, kind)
                           \/ Call(p)
                           \/ LandTimeout(p) \/ SwapFails(p) \/ Fails(p)
  BY <1>1, FitRead, FitOnto, FitTake, FitPut, FitSettle, FitPrepare, FitBuild, FitSwap, FitLand,
     FitReplace, Zenon DEF Call
<1>2. CASE \E v \in V1 : V1Stage(v) \/ V1Commit(v) \/ V1Compensate(v)
  BY <1>2, FitV1
<1>3. CASE \E p \in Proc \cup V1 : Crash(p) \/ Respawn(p)
  BY <1>3, FitReplace, FitV1
<1>. QED BY <1>1, <1>2, <1>3, FitOthers DEF Next

\* A log's pending commit holds exactly the log's ops, whoever else writes the
\* log and whichever locks are lost: clearing a log whose pending landed loses
\* nothing (commit.ts step 0, session.ts appendOps).
THEOREM PendingIsTheLog == Spec => []PendingHoldsOps
<1>1. Fit => PendingHoldsOps
  BY DEF Fit, LogFits, PendingHoldsOps
<1>. QED BY <1>1, InitTyped, TypedStep, InitFits, FitStep, PTL DEF Spec

\* The objects and the refs change when a session commit is built, when it is
\* swapped in, and when somebody commits the index.
LEMMA WhoWritesGit ==
    ASSUME Typed, [Next]_vars
    PROVE  \/ UNCHANGED gitVars
           \/ \E p \in Proc : Build(p) \/ Swap(p) \/ SwapFails(p)
           \/ CommitIndex /\ UNCHANGED log /\ \A p \in Proc : job'[p] = job[p] /\ pc'[p] = pc[p]
<1>1. ASSUME NEW p \in Proc, Call(p) \/ LandTimeout(p) \/ SwapFails(p) \/ Fails(p)
      PROVE  \/ UNCHANGED gitVars
             \/ Build(p) \/ Swap(p) \/ SwapFails(p)
  BY <1>1 DEF Call, Onto, TakeSession, Refuse, Start, Rebase, Put, PutSettled, Append,
              StartSettle, Settle, Rollback, Recover, ForgetPending, SkipRecovery, Invalid,
              RebaseNeeded, Land, Sync, AfterFailure, Unsync, Clear, Final, Replace, RefuseReplace,
              LandTimeout, Fails
<1>2. CASE \E p \in Proc : \/ \E s \in Session, kind \in Calls : Read(p, s, kind)
                           \/ Call(p)
                           \/ LandTimeout(p) \/ SwapFails(p) \/ Fails(p)
  BY <1>1, <1>2 DEF Read
<1>3. ASSUME NEW v \in V1, V1Stage(v) \/ V1Commit(v) \/ V1Compensate(v)
      PROVE  \/ UNCHANGED gitVars
             \/ CommitIndex /\ UNCHANGED log /\ \A p \in Proc : job'[p] = job[p] /\ pc'[p] = pc[p]
  <2>1. \A p \in Proc : p # v
    BY SessionAssumption
  <2>. QED BY <1>3, <2>1
    DEF V1Stage, V1Commit, V1Compensate, Done, Goto, Typed, TypeOK
<1>4. CASE \E p \in Proc \cup V1 : Crash(p) \/ Respawn(p)
  BY <1>4 DEF Crash, Respawn
<1>5. CASE (\E s \in Session : ReclaimSession(s)) \/ ReclaimCheckout \/ User \/ UNCHANGED vars
  BY <1>5 DEF ReclaimSession, ReclaimCheckout, User, vars, gitVars
<1>. QED BY <1>2, <1>3, <1>4, <1>5 DEF Next

LEMMA NewKeeps == ASSUME Typed, NEW c, NEW tree, NEW ops, NEW by, NewCommit(c, tree, ops, by)
                  PROVE  Keeps
<1>1. next \in Nat /\ next' = next + 1
  BY SessionAssumption DEF NewCommit, Typed, TypeOK
<1>2. Made(next) \subseteq Made(next') /\ next \notin Made(next)
  BY <1>1 DEF Made
<1>3. \A d \in Made(next) : commits'[d] = commits[d]
  BY <1>1, <1>2 DEF NewCommit, Typed, TypeOK, CommitId, Made
<1>. QED BY <1>2, <1>3 DEF Keeps

LEMMA KeepsStep == ASSUME Typed, Fit, [Next]_vars PROVE Keeps
<1>1. \A p \in Proc : Swap(p) \/ SwapFails(p) => UNCHANGED <<commits, next>>
  BY DEF Swap, SwapFails
<1>2. ASSUME NEW p \in Proc, Build(p) PROVE Keeps
  BY <1>2, NewKeeps DEF Build
<1>3. CASE CommitIndex
  BY <1>3, NewKeeps DEF CommitIndex
<1>. QED BY <1>1, <1>2, <1>3, WhoWritesGit, StaysKept DEF gitVars

LEMMA RefsAdvanceStep ==
    ASSUME Typed, Fit, [Next]_vars
    PROVE  \A r \in Ref : ref[r] # None => ref'[r] # None /\ ref[r] \in commits'[ref'[r]].anc
<1>1. \A r \in Ref : ref[r] # None => ref[r] \in commits[ref[r]].anc
  BY DEF Fit, CommitFits
<1>2. CASE UNCHANGED ref
  BY <1>1, <1>2, KeepsStep DEF Fit, Keeps
<1>3. ASSUME NEW p \in Proc, Swap(p) \/ SwapFails(p)
      PROVE  \A r \in Ref : ref[r] # None => ref'[r] # None /\ ref[r] \in commits'[ref'[r]].anc
  <2>1. /\ pc[p] = "swap" /\ job[p].s \in Session /\ RefOf[job[p].s] \in Ref
        /\ UNCHANGED <<commits, next>>
    BY <1>3, SessionAssumption DEF Swap, SwapFails, Typed, JobTyped
  <2>2. \/ ref' = ref
        \/ /\ ref[RefOf[job[p].s]] = job[p].expected
           /\ ref' = [ref EXCEPT ![RefOf[job[p].s]] = job[p].built]
    BY <1>3 DEF Swap, SwapFails
  <2>3. job[p].expected = None \/ job[p].expected \in commits[job[p].built].anc
    BY <2>1, JobHere
  <2>4. job[p].built \in Made(next) /\ None \notin Made(next)
    BY <2>1, JobHere, SessionAssumption DEF HasBuilt, Made, Typed, TypeOK
  <2>. QED BY <1>1, <2>1, <2>2, <2>3, <2>4 DEF Typed, TypeOK
<1>4. ASSUME CommitIndex, UNCHANGED log, \A p \in Proc : job'[p] = job[p] /\ pc'[p] = pc[p]
      PROVE  \A r \in Ref : ref[r] # None => ref'[r] # None /\ ref[r] \in commits'[ref'[r]].anc
  <2>1. Fit' /\ ref[Main] \in commits'[ref'[Main]].anc
    BY <1>4, FitCommitIndex
  <2>2. next # None /\ Main \in Ref /\ ref' = [ref EXCEPT ![Main] = next]
    BY <1>4, SessionAssumption DEF CommitIndex, Typed, TypeOK
  <2>3. \A r \in Ref : r # Main /\ ref[r] # None => commits'[ref[r]] = commits[ref[r]]
    BY <1>4, SessionAssumption DEF CommitIndex, NewCommit, Typed, TypeOK, Fit, Made
  <2>. QED BY <1>1, <2>1, <2>2, <2>3 DEF Typed, TypeOK
<1>. QED BY <1>2, <1>3, <1>4, WhoWritesGit DEF Build, gitVars

\* A ref only moves to descendants of the commit it names, whoever moves it and
\* however many locks are lost on the way: the swap demands the value the commit
\* was built over (commit.ts landOnRef, plumbing.ts updateRef).
THEOREM RefsAdvance == Spec => RefsOnlyAdvance
<1>1. Typed /\ Fit /\ [Next]_vars =>
        [\A r \in Ref : ref[r] # None => ref'[r] # None /\ ref[r] \in commits'[ref'[r]].anc]_vars
  BY RefsAdvanceStep
<1>. QED BY <1>1, InitTyped, TypedStep, InitFits, FitStep, PTL DEF Spec, RefsOnlyAdvance

-----------------------------------------------------------------------------
(* A commit in hand is nobody else's *)

LEMMA MovesAlone == ASSUME Typed, NEW p \in Proc, \E w : Goto(p, w),
                           UNCHANGED job \/ \E j : job' = [job EXCEPT ![p] = j]
                    PROVE  \A q \in Proc : q # p => job'[q] = job[q] /\ pc'[q] = pc[q]
  BY DEF Goto, Typed, TypeOK

LEMMA WritesItsOwn == ASSUME Typed, NEW p \in Proc, NEW l, WriteLog(p, l)
                      PROVE  \A s \in Session : /\ s # job[p].s => log'[s] = log[s]
                                                /\ s = job[p].s => log'[s] = l
  BY DEF WriteLog, Typed, TypeOK

\* Where a process has a commit of its own that is on no ref.
Landing == {"land", "sync", "swap", "unsync", "clear"}

\* Nothing builds on commit c: no ref and no base names it, nobody has found it on a
\* ref, and no other commit descends from it.
Apart(c) ==
    /\ \A r \in Ref : ref[r] # c
    /\ \A s \in Session : log[s].base # c
    /\ \A q \in Proc : pc[q] \notin {"idle", "dead"} => job[q].copy.base # c
    /\ \A q \in Proc : pc[q] \in {"landed", "final"} => job[q].built # c
    /\ \A d \in Made(next) : c \in commits[d].anc => d = c

\* The commit a process is landing is its own, and nothing builds on it yet.
Private == \A p \in Proc : pc[p] \in Landing =>
             /\ Apart(job[p].built)
             /\ \A q \in Proc : q # p /\ pc[q] \in Landing => job[q].built # job[p].built

LEMMA ApartUnreached == ASSUME Fit, NEW c, Apart(c), NEW r \in Ref PROVE c \notin Reach(r)
  BY DEF Apart, Reach, Fit

\* What a process writes as a base, here or in a log, was a base or a tip, or was found
\* on a ref.
LEMMA ApartMove ==
    ASSUME Typed, Fit, NEW c \in Made(next), Apart(c), UNCHANGED gitVars, NEW p \in Proc,
           \A q \in Proc : q # p => job'[q] = job[q] /\ pc'[q] = pc[q],
           UNCHANGED log \/ \E l : WriteLog(p, l) /\ l.base # c,
           pc'[p] \notin {"idle", "dead"} => job'[p].copy.base # c,
           pc'[p] \in {"landed", "final"} => job'[p].built # c
    PROVE  Apart(c)'
<1>1. \A s \in Session : log'[s].base # c
  BY WritesItsOwn DEF Apart
<1>. QED BY <1>1 DEF Apart, gitVars

LEMMA ApartDone ==
    ASSUME Typed, Fit, NEW c \in Made(next), Apart(c), UNCHANGED gitVars, NEW p \in Proc, Done(p),
           UNCHANGED log \/ \E l : WriteLog(p, l) /\ l.base # c
    PROVE  Apart(c)'
<1>1. pc'[p] = "idle"
  BY DEF Done, Goto, Typed, TypeOK
<1>2. \A q \in Proc : q # p => job'[q] = job[q] /\ pc'[q] = pc[q]
  BY MovesAlone DEF Done
<1>. QED BY <1>1, <1>2, ApartMove

\* A process that goes on with the job it has.
LEMMA ApartGoes ==
    ASSUME Typed, Fit, NEW c \in Made(next), Apart(c), UNCHANGED gitVars, NEW p \in Proc,
           NEW w, Goto(p, w), UNCHANGED job, pc[p] \notin {"idle", "dead"} \/ w \in {"idle", "dead"},
           UNCHANGED log,
           w \in {"landed", "final"} => job[p].built # c
    PROVE  Apart(c)'
<1>1. pc'[p] = w /\ job'[p] = job[p]
  BY DEF Goto, Typed, TypeOK
<1>2. \A q \in Proc : q # p => job'[q] = job[q] /\ pc'[q] = pc[q]
  BY MovesAlone
<1>3. pc[p] \notin {"idle", "dead"} => job[p].copy.base # c
  BY DEF Apart
<1>. QED BY <1>1, <1>2, <1>3, ApartMove

LEMMA ApartRead ==
    ASSUME Typed, Fit, NEW c \in Made(next), Apart(c), NEW p \in Proc,
           (\E s \in Session, kind \in Calls : Read(p, s, kind)) \/ Onto(p)
    PROVE  Apart(c)'
<1>1. ASSUME NEW s \in Session, NEW kind \in Calls, Read(p, s, kind) PROVE Apart(c)'
  <2>1. PICK new : job' = [job EXCEPT ![p] = CallOf(s, kind, new)]
    BY <1>1, Zenon DEF Read
  <2>2. CallOf(s, kind, new).copy = log[s]
    BY DEF CallOf, NoJob
  <2>3. job'[p].copy.base = log[s].base /\ pc'[p] \notin {"landed", "final"}
    BY <1>1, <2>1, <2>2 DEF Read, Goto, Typed, TypeOK
  <2>4. \A q \in Proc : q # p => job'[q] = job[q] /\ pc'[q] = pc[q]
    BY <1>1, <2>1, MovesAlone DEF Read
  <2>. QED BY <1>1, <2>3, <2>4, ApartMove DEF Read, Apart
<1>2. CASE Onto(p)
  <2>. DEFINE j == [job[p] EXCEPT !.copy.base = TipFor(RefOf[job[p].s])]
  <2>1. job' = [job EXCEPT ![p] = j] /\ Goto(p, "read") /\ pc'[p] = "read" /\ job'[p] = j
    BY <1>2 DEF Onto, Goto, Typed, TypeOK
  <2>2. j.copy.base = TipFor(RefOf[job[p].s])
    BY TypedJob DEF Job, Log
  <2>3. TipFor(RefOf[job[p].s]) # c
    BY <1>2, SessionAssumption DEF Onto, Typed, JobTyped, TipFor, Apart
  <2>. HIDE DEF j
  <2>4. \A q \in Proc : q # p => job'[q] = job[q] /\ pc'[q] = pc[q]
    BY <2>1, MovesAlone
  <2>. QED BY <1>2, <2>1, <2>2, <2>3, <2>4, ApartMove DEF Onto
<1>. QED BY <1>1, <1>2

LEMMA ApartWrite ==
    ASSUME Typed, Fit, NEW c \in Made(next), Apart(c), NEW p \in Proc,
           \/ TakeSession(p) \/ Refuse(p) \/ Start(p) \/ Rebase(p) \/ Put(p) \/ PutSettled(p)
    PROVE  Apart(c)'
<1>1. CASE TakeSession(p)
  BY <1>1, ApartGoes DEF TakeSession
<1>2. CASE Refuse(p)
  BY <1>2, ApartDone DEF Refuse
<1>3. CASE Start(p) \/ Rebase(p)
  <2>1. job[p].copy.base # c /\ [EmptyLog EXCEPT !.base = job[p].copy.base].base # c
    BY <1>3 DEF Start, Rebase, Apart, EmptyLog
  <2>. QED BY <1>3, <2>1, ApartDone DEF Start, Rebase
<1>4. ASSUME NEW l \in Log, Append(p, l), l.base # c PROVE Apart(c)'
  <2>1. [l EXCEPT !.ops = @ \cup job[p].new, !.pending = None].base = l.base
    BY DEF Log
  <2>. QED BY <1>4, <2>1, ApartDone DEF Append
<1>5. CASE Put(p)
  BY <1>4, <1>5, TypedJob DEF Put, Apart
<1>6. CASE PutSettled(p) /\ pc[p] = "landed"
  <2>1. /\ [job[p].copy EXCEPT !.base = job[p].built, !.ops = {}] \in Log
        /\ [job[p].copy EXCEPT !.base = job[p].built, !.ops = {}].base # c
    BY <1>6, TypedJob DEF Log, Typed, JobTyped, HasBuilt, Apart
  <2>. QED BY <1>4, <1>6, <2>1 DEF PutSettled
<1>7. CASE PutSettled(p) /\ pc[p] = "unlanded"
  BY <1>4, <1>7, TypedJob DEF PutSettled, Apart
<1>. QED BY <1>1, <1>2, <1>3, <1>5, <1>6, <1>7 DEF PutSettled

LEMMA ApartSettle ==
    ASSUME Typed, Fit, NEW c \in Made(next), Apart(c), NEW p \in Proc,
           \/ StartSettle(p) \/ Settle(p) \/ Rollback(p) \/ Recover(p) \/ ForgetPending(p)
           \/ SkipRecovery(p) \/ Invalid(p) \/ RebaseNeeded(p)
    PROVE  Apart(c)'
<1>1. CASE StartSettle(p)
  <2>. DEFINE j == [job[p] EXCEPT !.built = ToSettle(p)]
  <2>1. job' = [job EXCEPT ![p] = j] /\ Goto(p, "settle") /\ pc'[p] = "settle" /\ job'[p] = j
    BY <1>1 DEF StartSettle, Goto, Typed, TypeOK
  <2>2. j.copy = job[p].copy
    BY TypedJob DEF Job
  <2>3. job[p].copy.base # c
    BY <1>1 DEF StartSettle, Apart
  <2>. HIDE DEF j
  <2>4. \A q \in Proc : q # p => job'[q] = job[q] /\ pc'[q] = pc[q]
    BY <2>1, MovesAlone
  <2>. QED BY <1>1, <2>1, <2>2, <2>3, <2>4, ApartMove DEF StartSettle
<1>2. CASE Settle(p)
  <2>1. HasLanded(p) => job[p].built # c
    <3>1. job[p].s \in Session /\ RefOf[job[p].s] \in Ref
      BY <1>2, SessionAssumption DEF Settle, Typed, JobTyped
    <3>. QED BY <3>1, ApartUnreached DEF HasLanded
  <2>. QED BY <1>2, <2>1, ApartGoes DEF Settle
<1>3. CASE Rollback(p) \/ SkipRecovery(p)
  BY <1>3, ApartGoes DEF Rollback, SkipRecovery
<1>4. CASE Recover(p)
  BY <1>4, ApartDone DEF Recover, Apart
<1>5. CASE ForgetPending(p)
  <2>. DEFINE l == [job[p].copy EXCEPT !.pending = None]
              j == [job[p] EXCEPT !.copy.pending = None, !.built = None]
  <2>1. job' = [job EXCEPT ![p] = j] /\ Goto(p, "prepare") /\ pc'[p] = "prepare" /\ job'[p] = j
    BY <1>5 DEF ForgetPending, Goto, Typed, TypeOK
  <2>2. j.copy.base = job[p].copy.base /\ l.base = job[p].copy.base /\ WriteLog(p, l)
    BY <1>5, TypedJob DEF Job, Log, ForgetPending
  <2>3. job[p].copy.base # c
    BY <1>5 DEF ForgetPending, Apart
  <2>. HIDE DEF j, l
  <2>4. \A q \in Proc : q # p => job'[q] = job[q] /\ pc'[q] = pc[q]
    BY <2>1, MovesAlone
  <2>. QED BY <1>5, <2>1, <2>2, <2>3, <2>4, ApartMove DEF ForgetPending
<1>6. CASE Invalid(p) \/ RebaseNeeded(p)
  BY <1>6, ApartGoes, ApartDone DEF Invalid, RebaseNeeded
<1>. QED BY <1>1, <1>2, <1>3, <1>4, <1>5, <1>6

LEMMA ApartLand ==
    ASSUME Typed, Fit, NEW c \in Made(next), Apart(c), NEW p \in Proc,
           \/ Land(p) \/ LandTimeout(p) \/ Sync(p) \/ AfterFailure(p) \/ Unsync(p)
           \/ Clear(p) \/ Final(p) \/ Replace(p) \/ RefuseReplace(p) \/ Fails(p)
           \/ Crash(p) \/ Respawn(p)
    PROVE  Apart(c)'
<1>1. CASE Land(p) \/ LandTimeout(p) \/ Unsync(p)
  BY <1>1, ApartGoes DEF Land, LandTimeout, Unsync
<1>2. CASE Sync(p)
  BY <1>2, ApartGoes, ApartDone DEF Sync
<1>3. CASE AfterFailure(p) \/ RefuseReplace(p) \/ Fails(p)
  BY <1>3, ApartDone DEF AfterFailure, CommitFails, RefuseReplace, Fails
<1>4. CASE Clear(p)
  <2>1. [job[p].copy EXCEPT !.pending = None].base # c
    BY <1>4, TypedJob DEF Log, Clear, Apart
  <2>. QED BY <1>4, <2>1, ApartDone DEF Clear
<1>5. CASE Final(p)
  BY <1>5, ApartDone DEF Final, Apart
<1>6. CASE Replace(p)
  <2>. DEFINE kept == [job[p].copy EXCEPT !.ops = Kept(p), !.pending = None]
              j == [job[p] EXCEPT !.copy = kept, !.built = None]
  <2>1. kept.base # c /\ WriteLog(p, kept)
    BY <1>6, TypedJob DEF Log, Replace, Apart
  <2>2. j.copy = kept
    BY TypedJob DEF Job
  <2>3. Done(p) \/ (job' = [job EXCEPT ![p] = j] /\ Goto(p, "read") /\ pc'[p] = "read" /\ job'[p] = j)
    BY <1>6 DEF Replace, Goto, Typed, TypeOK
  <2>. HIDE DEF j, kept
  <2>4. \A q \in Proc : q # p => job'[q] = job[q] /\ pc'[q] = pc[q]
    BY <2>3, MovesAlone DEF Done
  <2>. QED BY <1>6, <2>1, <2>2, <2>3, <2>4, ApartDone, ApartMove DEF Replace
<1>7. CASE Crash(p)
  <2>1. job' = [job EXCEPT ![p] = NoJob] /\ Goto(p, "dead") /\ pc'[p] = "dead"
    BY <1>7 DEF Crash, Goto, Typed, TypeOK
  <2>2. \A q \in Proc : q # p => job'[q] = job[q] /\ pc'[q] = pc[q]
    BY <2>1, MovesAlone
  <2>. QED BY <1>7, <2>1, <2>2, ApartMove DEF Crash
<1>8. CASE Respawn(p)
  BY <1>8, ApartGoes DEF Respawn
<1>. QED BY <1>1, <1>2, <1>3, <1>4, <1>5, <1>6, <1>7, <1>8

\* A new commit descends from c only if what it is built over does.
LEMMA ApartCommit ==
    ASSUME Typed, Fit, NEW c \in Made(next), Apart(c), NEW b \in Made(next), b # c,
           NEW tree, NEW ops, NEW by, NewCommit(b, tree, ops, by)
    PROVE  \A d \in Made(next') : c \in commits'[d].anc => d = c
<1>1. next \in CommitId /\ Made(next') = Made(next) \cup {next} /\ next \notin Made(next)
  BY SessionAssumption DEF NewCommit, Typed, TypeOK, CommitId, Made
<1>2. commits'[next].anc = commits[b].anc \cup {next}
  BY <1>1 DEF NewCommit, Typed, TypeOK
<1>3. \A d \in Made(next) : commits'[d] = commits[d]
  BY <1>1, SessionAssumption DEF NewCommit, Typed, TypeOK, Made, CommitId
<1>4. c \notin commits[b].anc
  BY DEF Apart
<1>. QED BY <1>1, <1>2, <1>3, <1>4 DEF Apart

LEMMA ApartBuild ==
    ASSUME Typed, Fit, NEW c \in Made(next), Apart(c), NEW p \in Proc, Build(p)
    PROVE  Apart(c)'
<1>. DEFINE l == [job[p].copy EXCEPT !.pending = next]
            j == [job[p] EXCEPT !.built = next, !.expected = ref[RefOf[job[p].s]]]
<1>1. /\ job' = [job EXCEPT ![p] = j] /\ Goto(p, "land") /\ pc'[p] = "land" /\ job'[p] = j
      /\ WriteLog(p, l) /\ UNCHANGED ref
  BY DEF Build, Goto, Typed, TypeOK
<1>2. j.copy = job[p].copy /\ l.base = job[p].copy.base
  BY TypedJob DEF Job, Log
<1>3. job[p].copy.base \in Made(next) /\ job[p].copy.base # c
  BY JobHere DEF Build, LogFits, Apart
<1>. HIDE DEF j, l
<1>4. \A q \in Proc : q # p => job'[q] = job[q] /\ pc'[q] = pc[q]
  BY <1>1, MovesAlone
<1>5. \A d \in Made(next') : c \in commits'[d].anc => d = c
  BY <1>3, ApartCommit DEF Build
<1>6. \A s \in Session : log'[s].base # c
  BY <1>1, <1>2, <1>3, WritesItsOwn DEF Apart
<1>. QED BY <1>1, <1>2, <1>3, <1>4, <1>5, <1>6 DEF Apart

LEMMA ApartSwap ==
    ASSUME Typed, Fit, NEW c \in Made(next), Apart(c), NEW p \in Proc, Swap(p) \/ SwapFails(p),
           ref' = ref \/ job[p].built # c
    PROVE  Apart(c)'
<1>1. /\ pc[p] = "swap" /\ job[p].s \in Session /\ RefOf[job[p].s] \in Ref
      /\ UNCHANGED <<commits, next, log, job>> /\ \E w : Goto(p, w)
  BY SessionAssumption DEF Swap, SwapFails, Typed, JobTyped
<1>2. ref' = ref \/ ref' = [ref EXCEPT ![RefOf[job[p].s]] = job[p].built]
  BY DEF Swap, SwapFails
<1>3. \A r \in Ref : ref'[r] # c
  BY <1>2 DEF Apart, Typed, TypeOK
<1>4. \A q \in Proc : q # p => job'[q] = job[q] /\ pc'[q] = pc[q]
  BY <1>1, MovesAlone
<1>5. pc'[p] \in {"landed", "final"} => job'[p].built # c
  <2>1. pc'[p] \in {"landed", "final"} => ref' = [ref EXCEPT ![RefOf[job[p].s]] = job[p].built]
    BY DEF Swap, SwapFails, Goto, Typed, TypeOK
  <2>. QED BY <1>1, <1>3, <2>1 DEF Typed, TypeOK
<1>6. pc'[p] \notin {"idle", "dead"} => job'[p].copy.base # c
  BY <1>1 DEF Apart
<1>. QED BY <1>1, <1>3, <1>4, <1>5, <1>6 DEF Apart

LEMMA ApartCommitIndex ==
    ASSUME Typed, Fit, NEW c \in Made(next), Apart(c), CommitIndex, UNCHANGED log,
           \A p \in Proc : job'[p] = job[p] /\ pc'[p] = pc[p]
    PROVE  Apart(c)'
<1>1. ref[Main] \in Made(next) /\ ref[Main] # c
  BY SessionAssumption DEF Fit, Apart, Typed, TypeOK, CommitId
<1>2. \A d \in Made(next') : c \in commits'[d].anc => d = c
  BY <1>1, ApartCommit DEF CommitIndex
<1>3. \A r \in Ref : ref'[r] # c
  BY DEF CommitIndex, Apart, Typed, TypeOK, Made
<1>. QED BY <1>2, <1>3 DEF Apart

\* Only the process that swaps a commit in makes it a ref's.
LEMMA ApartStep ==
    ASSUME Typed, Fit, NEW c \in Made(next), Apart(c), [Next]_vars,
           \A p \in Proc : Swap(p) \/ SwapFails(p) => ref' = ref \/ job[p].built # c
    PROVE  Apart(c)'
<1>1. CASE \E p \in Proc : \/ \E s \in Session, kind \in Calls : Read(p, s, kind)
                           \/ Call(p)
                           \/ LandTimeout(p) \/ SwapFails(p) \/ Fails(p)
  BY <1>1, ApartRead, ApartWrite, ApartSettle, ApartBuild, ApartSwap, ApartLand, Zenon DEF Call
<1>2. ASSUME NEW v \in V1, V1Stage(v) \/ V1Commit(v) \/ V1Compensate(v) \/ Crash(v) \/ Respawn(v)
      PROVE  Apart(c)'
  <2>1. \A p \in Proc : p # v
    BY SessionAssumption
  <2>2. \A p \in Proc : job'[p] = job[p] /\ pc'[p] = pc[p]
    BY <1>2, <2>1 DEF V1Stage, V1Commit, V1Compensate, Crash, Respawn, Done, Goto, Typed, TypeOK
  <2>3. UNCHANGED log /\ (CommitIndex \/ UNCHANGED gitVars)
    BY <1>2 DEF V1Stage, V1Commit, V1Compensate, Crash, Respawn
  <2>. QED BY <2>2, <2>3, ApartCommitIndex DEF Apart, gitVars
<1>3. CASE \E p \in Proc : Crash(p) \/ Respawn(p)
  BY <1>3, ApartLand
<1>4. CASE (\E s \in Session : ReclaimSession(s)) \/ ReclaimCheckout \/ User \/ UNCHANGED vars
  <2>1. \A p \in Proc : job'[p] = job[p] /\ pc'[p] = pc[p]
    BY <1>4 DEF ReclaimSession, ReclaimCheckout, User, vars
  <2>2. UNCHANGED log /\ (CommitIndex \/ UNCHANGED gitVars)
    BY <1>4 DEF ReclaimSession, ReclaimCheckout, User, vars, gitVars
  <2>. QED BY <2>1, <2>2, ApartCommitIndex DEF Apart, gitVars
<1>. QED BY <1>1, <1>2, <1>3, <1>4 DEF Next

\* A step of one process leaves what the others are doing.
LEMMA OthersStay ==
    ASSUME Typed, NEW p \in Proc \cup V1, NEW q \in Proc, q # p,
           \/ \E s \in Session, kind \in Calls : Read(q, s, kind)
           \/ Call(q) \/ LandTimeout(q) \/ SwapFails(q) \/ Fails(q) \/ Crash(q) \/ Respawn(q)
    PROVE  job'[p] = job[p] /\ pc'[p] = pc[p]
<1>1. ASSUME NEW s \in Session, NEW kind \in Calls, Read(q, s, kind)
      PROVE  job'[p] = job[p] /\ pc'[p] = pc[p]
  BY <1>1 DEF Read, Goto, Typed, TypeOK
<1>2. ASSUME Call(q) \/ LandTimeout(q) \/ SwapFails(q) \/ Fails(q) \/ Crash(q) \/ Respawn(q)
      PROVE  job'[p] = job[p] /\ pc'[p] = pc[p]
  BY <1>2
    DEF Call, Onto, TakeSession, Refuse, Start, Rebase, Put, PutSettled, Append,
        StartSettle, Settle, Rollback, Recover, ForgetPending, SkipRecovery, Invalid,
        RebaseNeeded, Build, Land, Sync, Swap, AfterFailure, CommitFails, Unsync, Clear, Final,
        Replace, RefuseReplace, LandTimeout, SwapFails, Fails, Crash, Respawn, Goto, Done, Typed, TypeOK
<1>. QED BY <1>1, <1>2

\* A process comes to land a commit by building it, and goes on with that one.
LEMMA LandsItsOwn ==
    ASSUME Typed, [Next]_vars, NEW p \in Proc, pc'[p] \in Landing
    PROVE  \/ Build(p)
           \/ pc[p] \in Landing /\ job'[p].built = job[p].built
<1>0. ASSUME NEW w, Goto(p, w) PROVE pc'[p] = w
  BY <1>0 DEF Goto, Typed, TypeOK
<1>1. ASSUME Call(p) \/ LandTimeout(p) \/ SwapFails(p) \/ Fails(p) \/ Crash(p) \/ Respawn(p)
      PROVE  Build(p) \/ (pc[p] \in Landing /\ job'[p].built = job[p].built)
  <2>1. CASE Build(p) \/ Land(p) \/ LandTimeout(p) \/ Swap(p) \/ SwapFails(p) \/ Unsync(p)
    <3>1. Land(p) \/ LandTimeout(p) => pc[p] = "land" /\ job' = job
      BY DEF Land, LandTimeout
    <3>2. /\ Swap(p) => pc[p] = "swap" /\ job' = job
          /\ SwapFails(p) => pc[p] = "swap" /\ job' = job
      BY DEF Swap, SwapFails
    <3>3. Unsync(p) => pc[p] = "unsync" /\ job' = job
      BY DEF Unsync
    <3>. QED BY <2>1, <3>1, <3>2, <3>3 DEF Landing
  <2>2. CASE Sync(p)
    <3>1. ~Done(p)
      BY <1>0 DEF Done, Landing
    <3>. QED BY <2>2, <3>1 DEF Sync, Landing
  <2>3. CASE \/ Onto(p) \/ TakeSession(p) \/ Refuse(p) \/ Start(p) \/ Rebase(p) \/ Put(p)
             \/ PutSettled(p) \/ StartSettle(p) \/ Settle(p) \/ Rollback(p) \/ Recover(p)
             \/ ForgetPending(p) \/ SkipRecovery(p) \/ Invalid(p) \/ RebaseNeeded(p)
             \/ AfterFailure(p) \/ Clear(p) \/ Final(p) \/ Replace(p) \/ RefuseReplace(p)
             \/ Fails(p) \/ Crash(p) \/ Respawn(p)
    <3>1. CASE \/ Onto(p) \/ TakeSession(p) \/ Refuse(p) \/ Start(p) \/ Rebase(p) \/ Put(p)
               \/ PutSettled(p) \/ StartSettle(p) \/ Settle(p) \/ Rollback(p) \/ Recover(p)
      <4>1. \E w : Goto(p, w) /\ w \notin Landing
        BY <3>1
          DEF Onto, TakeSession, Refuse, Start, Rebase, Put, PutSettled, Append, StartSettle,
              Settle, Rollback, Recover, Done, Landing
      <4>. QED BY <1>0, <4>1
    <3>2. CASE \/ ForgetPending(p) \/ SkipRecovery(p) \/ Invalid(p) \/ RebaseNeeded(p)
               \/ AfterFailure(p) \/ Clear(p) \/ Final(p) \/ Replace(p) \/ RefuseReplace(p)
               \/ Fails(p) \/ Crash(p) \/ Respawn(p)
      <4>1. \E w : Goto(p, w) /\ w \notin Landing
        BY <3>2
          DEF ForgetPending, SkipRecovery, Invalid, RebaseNeeded, AfterFailure, CommitFails, Clear,
              Final, Replace, RefuseReplace, Fails, Crash, Respawn, Done, Landing
      <4>. QED BY <1>0, <4>1
    <3>. QED BY <2>3, <3>1, <3>2
  <2>. QED BY <1>1, <2>1, <2>2, <2>3, Zenon DEF Call
<1>2. ASSUME NEW s \in Session, NEW kind \in Calls, Read(p, s, kind) PROVE FALSE
  BY <1>2 DEF Read, Goto, Typed, TypeOK, Landing
<1>3. ASSUME NEW q \in Proc, q # p,
             \/ \E s \in Session, kind \in Calls : Read(q, s, kind)
             \/ Call(q) \/ LandTimeout(q) \/ SwapFails(q) \/ Fails(q) \/ Crash(q) \/ Respawn(q)
      PROVE  pc[p] \in Landing /\ job'[p].built = job[p].built
  BY <1>3, OthersStay
<1>4. ASSUME NEW v \in V1, V1Stage(v) \/ V1Commit(v) \/ V1Compensate(v) \/ Crash(v) \/ Respawn(v)
      PROVE  pc[p] \in Landing /\ job'[p].built = job[p].built
  <2>1. p # v
    BY SessionAssumption
  <2>. QED BY <1>4, <2>1
    DEF V1Stage, V1Commit, V1Compensate, Crash, Respawn, Done, Goto, Typed, TypeOK
<1>5. CASE (\E s \in Session : ReclaimSession(s)) \/ ReclaimCheckout \/ User \/ UNCHANGED vars
  BY <1>5 DEF ReclaimSession, ReclaimCheckout, User, vars
<1>6. CASE \E q \in Proc : \/ \E s \in Session, kind \in Calls : Read(q, s, kind)
                           \/ Call(q) \/ LandTimeout(q) \/ SwapFails(q) \/ Fails(q)
  BY <1>1, <1>2, <1>3, <1>6, Zenon
<1>7. CASE \E q \in Proc \cup V1 : Crash(q) \/ Respawn(q)
  BY <1>1, <1>3, <1>4, <1>7
<1>. QED BY <1>4, <1>5, <1>6, <1>7 DEF Next

LEMMA InitPrivate == Init => Private
  BY DEF Init, Private, Landing

LEMMA BuildIsPrivate ==
    ASSUME Typed, Fit, [Next]_vars, NEW p \in Proc, Build(p)
    PROVE  /\ Apart(job[p].built)'
           /\ \A q \in Proc : q # p /\ pc'[q] \in Landing => job'[q].built # job'[p].built
<1>1. /\ job'[p].built = next /\ next \notin Made(next) /\ Made(next') = Made(next) \cup {next}
      /\ UNCHANGED ref /\ next # None
  <2>1. next \in Nat /\ next' = next + 1 /\ next # None
    BY SessionAssumption DEF Build, NewCommit, Typed, TypeOK
  <2>2. job'[p].built = next
    BY TypedJob DEF Build, Job, Typed, TypeOK
  <2>. QED BY <2>1, <2>2 DEF Build, Made
<1>2. \A q \in Proc : q # p => job'[q] = job[q] /\ pc'[q] = pc[q]
  <2>1. Call(p)
    BY DEF Call
  <2>. QED BY <2>1, OthersStay
<1>3. \A r \in Ref : ref'[r] # next
  BY <1>1 DEF Fit
<1>4. job[p].copy.base \in Made(next) /\ job'[p].copy = job[p].copy /\ pc'[p] = "land"
  BY JobHere, TypedJob DEF Build, LogFits, Goto, Typed, TypeOK, Job
<1>5. \A s \in Session : log'[s].base # next
  <2>. DEFINE l == [job[p].copy EXCEPT !.pending = next]
  <2>1. WriteLog(p, l) /\ l.base = job[p].copy.base
    BY TypedJob DEF Build, Log
  <2>. HIDE DEF l
  <2>2. \A s \in Session : log[s].base \in Made(next)
    BY DEF Fit, LogFits
  <2>. QED BY <1>1, <1>4, <2>1, <2>2, WritesItsOwn
<1>6. \A q \in Proc : pc'[q] \notin {"idle", "dead"} => job'[q].copy.base # next
  BY <1>1, <1>2, <1>4 DEF Fit, JobFits, LogFits
<1>7. \A q \in Proc : q # p /\ pc'[q] \in HasBuilt => job'[q].built \in Made(next)
  BY <1>2, JobHere DEF HasBuilt
<1>8. \A d \in Made(next) : commits'[d] = commits[d] /\ commits[d].anc \subseteq Made(next)
  BY KeepsStep DEF Keeps, Fit, CommitFits
<1>9. {"landed", "final"} \cup Landing \subseteq HasBuilt
  BY DEF HasBuilt, Landing
<1>. QED BY <1>1, <1>3, <1>4, <1>5, <1>6, <1>7, <1>8, <1>9 DEF Apart

LEMMA PrivateStep == ASSUME Typed, Fit, Private, [Next]_vars PROVE Private'
<1>. SUFFICES ASSUME NEW p \in Proc, pc'[p] \in Landing
              PROVE  /\ Apart(job[p].built)'
                     /\ \A q \in Proc : q # p /\ pc'[q] \in Landing => job'[q].built # job'[p].built
  BY DEF Private
<1>2. CASE Build(p)
  BY <1>2, BuildIsPrivate
<1>3. CASE pc[p] \in Landing /\ job'[p].built = job[p].built
  <2>0. PICK c : c = job[p].built
    OBVIOUS
  <2>1. c \in Made(next) /\ Apart(c)
    BY <1>3, <2>0, JobHere DEF Private, Landing, HasBuilt
  <2>2. ASSUME NEW q \in Proc, pc'[q] \in Landing, q # p PROVE job'[q].built # c
    <3>1. CASE Build(q)
      BY <1>3, <2>0, <2>2, <3>1, BuildIsPrivate
    <3>2. CASE pc[q] \in Landing /\ job'[q].built = job[q].built
      BY <1>3, <2>0, <2>2, <3>2 DEF Private
    <3>. QED BY <2>2, <3>1, <3>2, LandsItsOwn
  <2>3. ASSUME NEW q \in Proc, Swap(q) \/ SwapFails(q) PROVE ref' = ref \/ job[q].built # c
    <3>1. CASE q # p
      BY <1>3, <2>0, <2>3, <3>1 DEF Private, Landing, Swap, SwapFails
    <3>2. CASE q = p
      <4>1. ~Goto(p, "final") /\ ~Goto(p, "fail")
        BY DEF Goto, Landing, Typed, TypeOK
      <4>. QED BY <2>3, <3>2, <4>1 DEF Swap, SwapFails
    <3>. QED BY <3>1, <3>2
  <2>4. Apart(c)'
    BY <2>1, <2>3, ApartStep
  <2>. QED BY <1>3, <2>0, <2>2, <2>4 DEF Apart
<1>. QED BY <1>2, <1>3, LandsItsOwn

\* A call that answers raced, worktree-dirty or checkout.locked landed nothing, under every
\* failure and with every lock lost: the commit it built is on no ref, nothing is built on
\* it, and no other process has it to land (commit.ts step 6).
THEOREM UncommittedStaysOff == Spec => []UncommittedNotLanded
<1>1. Typed /\ Fit /\ Private => UncommittedNotLanded
  <2>. SUFFICES ASSUME Typed, Fit, Private, NEW p \in Proc, pc[p] = "clear"
                PROVE  job[p].built \notin Reach(RefOf[job[p].s])
    BY DEF UncommittedNotLanded
  <2>1. RefOf[job[p].s] \in Ref
    BY SessionAssumption DEF Typed, JobTyped
  <2>. QED BY <2>1, ApartUnreached DEF Private, Landing
<1>. QED BY <1>1, InitTyped, TypedStep, InitFits, FitStep, InitPrivate, PrivateStep, PTL DEF Spec

-----------------------------------------------------------------------------
(***************************************************************************)
(* What rests on the locks of SessionCommit, for every number of           *)
(* processes, sessions, files and refs.  No answered put is lost, unless a *)
(* process is so slow that its session lock is judged stale while it lives *)
(* ("stall").  And the shared checkout never stages the removal of a file  *)
(* the branch has, unless a lock is lost that way, a person works in the   *)
(* checkout without one ("user"), or git does not answer whether a commit  *)
(* landed ("blind").                                                       *)
(***************************************************************************)

\* Where a process holds its session's lock.
Locked == HasBuilt \cup {"held", "prepare"}

\* Under the lock a process knows the log's ops (a forced start does not ask), the
\* commit in its hands was built from them, and landed means it is on the ref.
Owns(p) ==
    /\ pc[p] \in Locked =>
        /\ slock[job[p].s] = p
        /\ log[job[p].s].ops = job[p].copy.ops \/ (pc[p] = "held" /\ job[p].kind = "start")
        /\ pc[p] \in HasBuilt => /\ commits[job[p].built].ops = job[p].copy.ops
                                 /\ commits[job[p].built].by = job[p].s
        /\ pc[p] \in {"landed", "final"} => job[p].built \in Reach(RefOf[job[p].s])
    /\ pc[p] = "replace" => job[p].kind # "start"

Owned == \A p \in Proc : Owns(p)

\* What a ref reaches it goes on reaching.
Grows == \A r \in Ref : Reach(r) \subseteq Reach(r)'

LEMMA GrowsStep == ASSUME Typed, Fit, [Next]_vars PROVE Grows
<1>. SUFFICES ASSUME NEW r \in Ref, ref[r] # None PROVE commits[ref[r]].anc \subseteq Reach(r)'
  BY DEF Grows, Reach
<1>1. ref'[r] # None /\ ref[r] \in commits'[ref'[r]].anc
  BY RefsAdvanceStep
<1>2. Fit' /\ Keeps
  BY FitStep, KeepsStep
<1>3. ref'[r] \in Made(next')
  BY <1>1, <1>2 DEF Fit
<1>4. CommitFits(commits', next', ref'[r])
  BY <1>2, <1>3 DEF Fit
<1>5. commits'[ref[r]].anc \subseteq commits'[ref'[r]].anc
  BY <1>1, <1>4 DEF CommitFits
<1>6. commits'[ref[r]] = commits[ref[r]]
  BY <1>2 DEF Fit, Keeps
<1>. QED BY <1>1, <1>5, <1>6 DEF Reach

LEMMA LandedGrows == ASSUME Typed, Fit, Keeps, Grows, NEW s \in Session
                     PROVE  Landed(s) \subseteq Landed(s)'
<1>1. RefOf[s] \in Ref
  BY SessionAssumption
<1>2. \A c \in Reach(RefOf[s]) : c \in Made(next)
  <2>1. ASSUME ref[RefOf[s]] # None PROVE commits[ref[RefOf[s]]].anc \subseteq Made(next)
    BY <1>1, <2>1 DEF Fit, CommitFits
  <2>. QED BY <2>1 DEF Reach
<1>3. ASSUME NEW c \in Reach(RefOf[s]), commits[c].by = s
      PROVE  c \in Reach(RefOf[s])' /\ commits'[c].by = s /\ commits'[c].ops = commits[c].ops
  BY <1>1, <1>2, <1>3 DEF Grows, Keeps
<1>. QED BY <1>3 DEF Landed

\* What a commit on a session's ref was built from has landed.
LEMMA OnRefLanded == ASSUME NEW s, NEW c \in Reach(RefOf[s]), commits[c].by = s
                     PROVE  commits[c].ops \subseteq Landed(s)
  BY DEF Landed

LEMMA OwnsHere == ASSUME Owned, NEW p \in Proc, pc[p] \in Locked
                  PROVE  /\ slock[job[p].s] = p
                         /\ log[job[p].s].ops = job[p].copy.ops \/ (pc[p] = "held" /\ job[p].kind = "start")
                         /\ pc[p] \in HasBuilt => /\ commits[job[p].built].ops = job[p].copy.ops
                                                  /\ commits[job[p].built].by = job[p].s
                         /\ pc[p] \in {"landed", "final"} => job[p].built \in Reach(RefOf[job[p].s])
  BY DEF Owned, Owns

\* A step that leaves a process, its log's ops and its lock leaves what it owns.
LEMMA OwnsStays == ASSUME Typed, Fit, Owned, Keeps, Grows, NEW p \in Proc,
                          job'[p] = job[p], pc'[p] = pc[p],
                          pc[p] \in Locked => /\ slock'[job[p].s] = slock[job[p].s]
                                              /\ log'[job[p].s].ops = log[job[p].s].ops
                   PROVE  Owns(p)'
<1>. SUFFICES ASSUME pc[p] \in Locked
              PROVE  /\ slock'[job'[p].s] = p
                     /\ log'[job'[p].s].ops = job'[p].copy.ops \/ (pc'[p] = "held" /\ job'[p].kind = "start")
                     /\ pc'[p] \in HasBuilt => /\ commits'[job'[p].built].ops = job'[p].copy.ops
                                               /\ commits'[job'[p].built].by = job'[p].s
                     /\ pc'[p] \in {"landed", "final"} => job'[p].built \in Reach(RefOf[job[p].s])'
  BY DEF Owned, Owns
<1>1. PICK s \in Session : job[p].s = s /\ job'[p].s = s
  <2>1. pc[p] \notin {"idle", "dead"}
    BY DEF Locked, HasBuilt
  <2>. QED BY <2>1 DEF Typed, JobTyped
<1>2. pc[p] \in HasBuilt => commits'[job[p].built] = commits[job[p].built]
  BY JobHere DEF HasBuilt, Keeps
<1>3. Reach(RefOf[s]) \subseteq Reach(RefOf[s])'
  BY SessionAssumption DEF Grows
<1>4. pc[p] \in {"landed", "final"} => job[p].built \in Reach(RefOf[s])
  BY <1>1, OwnsHere
<1>5. pc'[p] \in {"landed", "final"} => job'[p].built \in Reach(RefOf[job[p].s])'
  BY <1>1, <1>3, <1>4 DEF Reach
<1>. QED BY <1>2, <1>5, OwnsHere

\* A process that holds the lock goes on, with the ops it knows still in the log.
LEMMA OwnsGoes == ASSUME Typed, Fit, Owned, Keeps, Grows, NEW p \in Proc, NEW w \in Locked,
                         pc[p] \in Locked, Goto(p, w), UNCHANGED <<job, slock>>,
                         w \notin {"held", "landed", "final"},
                         pc[p] # "held" \/ job[p].kind # "start",
                         log'[job[p].s].ops = log[job[p].s].ops,
                         w \in HasBuilt => pc[p] \in HasBuilt
                  PROVE  Owns(p)'
<1>1. pc'[p] = w
  BY DEF Goto, Typed, TypeOK
<1>2. pc[p] \in HasBuilt => commits'[job[p].built] = commits[job[p].built]
  BY JobHere DEF HasBuilt, Keeps
<1>3. w # "replace"
  BY DEF Locked, HasBuilt
<1>. QED BY <1>1, <1>2, <1>3, OwnsHere DEF Owns

\* A process that ends its call, or goes where it holds no lock, owns nothing.
LEMMA OwnsNothing == ASSUME Typed, NEW p \in Proc, NEW w, w \notin Locked, Goto(p, w),
                            w = "replace" => job'[p].kind # "start"
                     PROVE  Owns(p)'
<1>1. pc'[p] = w
  BY DEF Goto, Typed, TypeOK
<1>. QED BY <1>1 DEF Owns

LEMMA OwnsDone == ASSUME Typed, NEW p \in Proc, Done(p) PROVE Owns(p)'
<1>1. "idle" \notin Locked
  BY DEF Locked, HasBuilt
<1>. QED BY <1>1, OwnsNothing DEF Done

\* A process writes its own session's log and lock, and only while it holds that
\* lock or nobody does.
Footprint(p) ==
    /\ \A s \in Session : s # job[p].s \/ slock[s] \notin {p, None} =>
         log'[s] = log[s] /\ slock'[s] = slock[s]
    /\ \A q \in Proc : q # p => job'[q] = job[q] /\ pc'[q] = pc[q]

\* What a step of p has to establish.
Good(p) == Footprint(p) /\ Owns(p)' /\ NoOpLost'

LEMMA ReleasesItsOwn == ASSUME Typed, NEW p \in Proc, ReleaseSession(p)
                        PROVE  \A s \in Session : s # job[p].s \/ slock[s] \notin {p, None} =>
                                 slock'[s] = slock[s]
  BY DEF ReleaseSession, Typed, TypeOK

LEMMA SafeStays == ASSUME Typed, Fit, NoOpLost, Keeps, Grows, UNCHANGED <<log, acked>>
                   PROVE  NoOpLost'
  BY LandedGrows DEF NoOpLost

LEMMA SafeWrites == ASSUME Typed, Fit, NoOpLost, Keeps, Grows, NEW p \in Proc, NEW l, WriteLog(p, l),
                           \A s \in Session : s # job[p].s => acked'[s] = acked[s],
                           \A s \in Session : s = job[p].s => acked'[s] \subseteq l.ops \cup Landed(s)'
                    PROVE  NoOpLost'
<1>. SUFFICES ASSUME NEW s \in Session PROVE acked'[s] \subseteq log'[s].ops \cup Landed(s)'
  BY DEF NoOpLost
<1>1. CASE s = job[p].s
  BY <1>1, WritesItsOwn
<1>2. CASE s # job[p].s
  BY <1>2, WritesItsOwn, LandedGrows DEF NoOpLost
<1>. QED BY <1>1, <1>2

\* A call that ends without writing its log.
LEMMA GoodEnd == ASSUME Typed, Fit, Owned, NoOpLost, Keeps, Grows, NEW p \in Proc, Done(p),
                        UNCHANGED <<log, acked>>, UNCHANGED slock \/ ReleaseSession(p)
                 PROVE  Good(p)
<1>1. \A q \in Proc : q # p => job'[q] = job[q] /\ pc'[q] = pc[q]
  BY MovesAlone DEF Done
<1>2. Footprint(p)
  BY <1>1, ReleasesItsOwn DEF Footprint
<1>. QED BY <1>2, OwnsDone, SafeStays DEF Good

\* A call that goes on under the lock without writing its log.
LEMMA GoodGoes == ASSUME Typed, Fit, Owned, NoOpLost, Keeps, Grows, NEW p \in Proc, NEW w \in Locked,
                         pc[p] \in Locked, Goto(p, w), UNCHANGED <<log, acked, job, slock>>,
                         w \notin {"held", "landed", "final"},
                         pc[p] # "held" \/ job[p].kind # "start",
                         w \in HasBuilt => pc[p] \in HasBuilt
                  PROVE  Good(p)
<1>1. \A q \in Proc : q # p => job'[q] = job[q] /\ pc'[q] = pc[q]
  BY MovesAlone
<1>2. Footprint(p)
  BY <1>1 DEF Footprint
<1>. QED BY <1>2, OwnsGoes, SafeStays DEF Good

\* A call that writes its log under the lock and ends.
LEMMA GoodWrite == ASSUME Typed, Fit, Owned, NoOpLost, Keeps, Grows, NEW p \in Proc, NEW l,
                          pc[p] \in Locked, WriteLog(p, l), ReleaseSession(p), Done(p),
                          \A s \in Session : s # job[p].s => acked'[s] = acked[s],
                          \A s \in Session : s = job[p].s => acked'[s] \subseteq l.ops \cup Landed(s)'
                   PROVE  Good(p)
<1>1. \A q \in Proc : q # p => job'[q] = job[q] /\ pc'[q] = pc[q]
  BY MovesAlone DEF Done
<1>2. slock[job[p].s] = p
  BY OwnsHere
<1>3. Footprint(p)
  BY <1>1, <1>2, ReleasesItsOwn, WritesItsOwn DEF Footprint
<1>4. NoOpLost'
  BY SafeWrites
<1>. QED BY <1>3, <1>4, OwnsDone DEF Good

LEMMA GoodRead == ASSUME Typed, Fit, Owned, NoOpLost, Keeps, Grows, NEW p \in Proc,
                         (\E s \in Session, kind \in Calls : Read(p, s, kind)) \/ Onto(p)
                  PROVE  Good(p)
<1>1. UNCHANGED <<log, acked, slock>>
  BY DEF Read, Onto, lockVars
<1>2. Goto(p, "onto") \/ Goto(p, "read")
  BY DEF Read, Onto
<1>3. UNCHANGED job \/ \E j : job' = [job EXCEPT ![p] = j]
  <2>1. ASSUME NEW s \in Session, NEW kind \in Calls, Read(p, s, kind)
        PROVE  \E j : job' = [job EXCEPT ![p] = j]
    BY <2>1, Zenon DEF Read
  <2>2. CASE Onto(p)
    <3>1. job' = [job EXCEPT ![p] = [job[p] EXCEPT !.copy.base = TipFor(RefOf[job[p].s])]]
      BY <2>2 DEF Onto, Typed, TypeOK
    <3>. QED BY <3>1, Zenon
  <2>. QED BY <2>1, <2>2
<1>4. \A q \in Proc : q # p => job'[q] = job[q] /\ pc'[q] = pc[q]
  BY <1>2, <1>3, MovesAlone
<1>5. Footprint(p)
  BY <1>1, <1>4 DEF Footprint
<1>6. "onto" \notin Locked /\ "read" \notin Locked
  BY DEF Locked, HasBuilt
<1>7. Owns(p)'
  BY <1>2, <1>6, OwnsNothing
<1>. QED BY <1>1, <1>5, <1>7, SafeStays DEF Good

LEMMA GoodTake == ASSUME Typed, Fit, Owned, NoOpLost, Keeps, Grows, NEW p \in Proc,
                         TakeSession(p) \/ Refuse(p)
                  PROVE  Good(p)
<1>1. CASE TakeSession(p)
  <2>1. job[p].s \in Session
    BY <1>1 DEF TakeSession, Typed, JobTyped
  <2>2. \A q \in Proc : q # p => job'[q] = job[q] /\ pc'[q] = pc[q]
    BY <1>1, MovesAlone DEF TakeSession
  <2>3. Footprint(p)
    BY <1>1, <2>2 DEF TakeSession, Footprint, Typed, TypeOK
  <2>4. pc'[p] = "held" /\ slock'[job[p].s] = p
    BY <1>1, <2>1 DEF TakeSession, Goto, Typed, TypeOK
  <2>5. "held" \notin HasBuilt
    BY DEF HasBuilt
  <2>6. Owns(p)'
    BY <1>1, <2>4, <2>5 DEF TakeSession, Unmoved, Owns
  <2>. QED BY <1>1, <2>3, <2>6, SafeStays DEF Good, TakeSession
<1>2. CASE Refuse(p)
  BY <1>2, GoodEnd DEF Refuse, lockVars
<1>. QED BY <1>1, <1>2

LEMMA GoodPut == ASSUME Typed, Fit, Owned, NoOpLost, Keeps, Grows, NEW p \in Proc,
                        Start(p) \/ Rebase(p) \/ Put(p) \/ PutSettled(p)
                 PROVE  Good(p)
<1>1. pc[p] \in {"held", "landed", "unlanded"} /\ pc[p] \in Locked /\ ReleaseSession(p) /\ Done(p)
  BY DEF Start, Rebase, Put, PutSettled, Append, Locked, HasBuilt
<1>2. PICK s \in Session : job[p].s = s
  BY <1>1 DEF Typed, JobTyped
<1>3. \A l : (l \in Log) => /\ [l EXCEPT !.ops = @ \cup job[p].new, !.pending = None].ops
                                  = l.ops \cup job[p].new
  BY DEF Log
<1>4. acked[s] \subseteq log[s].ops \cup Landed(s)'
  BY LandedGrows DEF NoOpLost
<1>5. ASSUME NEW l \in Log, Append(p, l), log[s].ops \subseteq l.ops \cup Landed(s)'
      PROVE  Good(p)
  <2>. DEFINE m == [l EXCEPT !.ops = @ \cup job[p].new, !.pending = None]
  <2>1. WriteLog(p, m) /\ acked' = [acked EXCEPT ![s] = @ \cup job[p].new]
    BY <1>2, <1>5 DEF Append
  <2>2. m.ops = l.ops \cup job[p].new
    BY <1>3
  <2>3. \A x \in Session : /\ x # s => acked'[x] = acked[x]
                           /\ x = s => acked'[x] = acked[s] \cup job[p].new
    BY <2>1 DEF Typed, TypeOK
  <2>. HIDE DEF m
  <2>4. acked'[s] \subseteq m.ops \cup Landed(s)'
    BY <1>4, <1>5, <2>2, <2>3
  <2>. QED BY <1>1, <1>2, <2>1, <2>3, <2>4, GoodWrite
<1>6. CASE Start(p)
  <2>1. \A x \in Session : /\ x # s => acked'[x] = acked[x]
                           /\ x = s => acked'[x] = {}
    BY <1>2, <1>6 DEF Start, Typed, TypeOK
  <2>. QED BY <1>1, <1>2, <1>6, <2>1, GoodWrite DEF Start
<1>7. CASE Rebase(p)
  <2>1. log[s].ops = job[p].copy.ops
    BY <1>1, <1>2, <1>7, OwnsHere DEF Rebase
  <2>. QED BY <1>1, <1>2, <1>4, <1>7, <2>1, GoodWrite DEF Rebase
<1>8. CASE Put(p)
  <2>1. log[s].ops = job[p].copy.ops
    BY <1>1, <1>2, <1>8, OwnsHere DEF Put
  <2>. QED BY <1>5, <1>8, <2>1, TypedJob DEF Put
<1>9. CASE PutSettled(p)
  <2>1. log[s].ops = job[p].copy.ops
    BY <1>1, <1>2, <1>9, OwnsHere DEF PutSettled
  <2>2. CASE pc[p] = "landed"
    <3>1. /\ job[p].built \in Reach(RefOf[s]) /\ commits[job[p].built].by = s
          /\ commits[job[p].built].ops = log[s].ops
      BY <1>1, <1>2, <2>1, <2>2, OwnsHere DEF HasBuilt
    <3>2. log[s].ops \subseteq Landed(s)'
      BY <3>1, OnRefLanded, LandedGrows
    <3>3. [job[p].copy EXCEPT !.base = job[p].built, !.ops = {}] \in Log
      BY <2>2, TypedJob DEF Log, Typed, JobTyped, HasBuilt
    <3>. QED BY <1>5, <1>9, <2>2, <3>2, <3>3 DEF PutSettled
  <2>3. CASE pc[p] = "unlanded"
    BY <1>5, <1>9, <2>1, <2>3, TypedJob DEF PutSettled
  <2>. QED BY <1>9, <2>2, <2>3 DEF PutSettled
<1>. QED BY <1>6, <1>7, <1>8, <1>9

LEMMA GoodSettle == ASSUME Typed, Fit, Owned, NoOpLost, Keeps, Grows, NEW p \in Proc,
                           StartSettle(p) \/ Settle(p) \/ Rollback(p)
                    PROVE  Good(p)
<1>1. pc[p] \in Locked /\ UNCHANGED <<log, acked, slock, commits, ref>>
  BY DEF StartSettle, Settle, Rollback, Locked, HasBuilt, lockVars, gitVars
<1>2. PICK s \in Session : job[p].s = s
  BY DEF StartSettle, Settle, Rollback, Typed, JobTyped
<1>3. CASE StartSettle(p)
  <2>. DEFINE j == [job[p] EXCEPT !.built = ToSettle(p)]
  <2>1. job' = [job EXCEPT ![p] = j] /\ Goto(p, "settle") /\ pc'[p] = "settle" /\ job'[p] = j
    BY <1>3 DEF StartSettle, Goto, Typed, TypeOK
  <2>2. j.s = s /\ j.copy = job[p].copy /\ j.built = ToSettle(p) /\ j.kind = job[p].kind
    BY <1>2, TypedJob DEF Job
  <2>3. slock[s] = p /\ log[s].ops = job[p].copy.ops
    BY <1>1, <1>2, <1>3, OwnsHere DEF StartSettle
  <2>4. LogFits(commits, next, log[s], s) /\ LogFits(commits, next, job[p].copy, s)
    BY <1>2, <1>3, JobHere DEF StartSettle, Fit
  <2>5. commits[ToSettle(p)].ops = job[p].copy.ops /\ commits[ToSettle(p)].by = s
    BY <1>2, <1>3, <2>3, <2>4 DEF StartSettle, ToSettle, LogFits
  <2>6. \A q \in Proc : q # p => job'[q] = job[q] /\ pc'[q] = pc[q]
    BY <2>1, MovesAlone
  <2>. HIDE DEF j
  <2>7. Footprint(p)
    BY <1>1, <2>6 DEF Footprint
  <2>8. Owns(p)'
    BY <1>1, <2>1, <2>2, <2>3, <2>5 DEF Owns
  <2>. QED BY <1>1, <2>7, <2>8, SafeStays DEF Good
<1>4. CASE Settle(p) /\ ~Goto(p, "landed")
  BY <1>1, <1>4, GoodGoes DEF Settle, Locked, HasBuilt
<1>5. CASE Settle(p) /\ Goto(p, "landed")
  <2>1. pc'[p] = "landed" /\ UNCHANGED job /\ HasLanded(p)
    BY <1>5 DEF Settle, Goto, Typed, TypeOK
  <2>2. \A q \in Proc : q # p => job'[q] = job[q] /\ pc'[q] = pc[q]
    BY <1>5, <2>1, MovesAlone
  <2>3. Footprint(p)
    BY <1>1, <2>2 DEF Footprint
  <2>4. /\ slock[s] = p /\ log[s].ops = job[p].copy.ops
        /\ commits[job[p].built].ops = job[p].copy.ops /\ commits[job[p].built].by = s
    BY <1>1, <1>2, <1>5, OwnsHere DEF Settle, HasBuilt
  <2>5. Owns(p)'
    BY <1>1, <1>2, <2>1, <2>4 DEF Owns, HasLanded, Reach
  <2>. QED BY <1>1, <2>3, <2>5, SafeStays DEF Good
<1>6. CASE Rollback(p)
  BY <1>1, <1>6, GoodGoes DEF Rollback, Locked, HasBuilt
<1>. QED BY <1>3, <1>4, <1>5, <1>6

\* The log's ops under a lock held past "held", or by anything but a start.
LEMMA KnowsOps == ASSUME Owned, NEW p \in Proc, pc[p] \in Locked, pc[p] # "held" \/ job[p].kind # "start"
                  PROVE  log[job[p].s].ops = job[p].copy.ops
  BY OwnsHere

LEMMA GoodPrepare == ASSUME Typed, Fit, Owned, NoOpLost, Keeps, Grows, NEW p \in Proc,
                            \/ Recover(p) \/ ForgetPending(p) \/ SkipRecovery(p)
                            \/ Invalid(p) \/ RebaseNeeded(p)
                     PROVE  Good(p)
<1>1. pc[p] \in Locked
  BY DEF Recover, ForgetPending, SkipRecovery, Invalid, RebaseNeeded, Locked, HasBuilt
<1>2. PICK s \in Session : job[p].s = s
  BY DEF Recover, ForgetPending, SkipRecovery, Invalid, RebaseNeeded, Typed, JobTyped
<1>3. acked[s] \subseteq log[s].ops \cup Landed(s)'
  BY LandedGrows DEF NoOpLost
<1>4. CASE Recover(p)
  <2>1. /\ job[p].built \in Reach(RefOf[s]) /\ commits[job[p].built].by = s
        /\ commits[job[p].built].ops = log[s].ops
    BY <1>1, <1>2, <1>4, OwnsHere DEF Recover, HasBuilt
  <2>2. acked[s] \subseteq Landed(s)'
    BY <1>3, <2>1, OnRefLanded, LandedGrows
  <2>. QED BY <1>1, <1>2, <1>4, <2>2, GoodWrite DEF Recover
<1>5. CASE ForgetPending(p)
  <2>. DEFINE l == [job[p].copy EXCEPT !.pending = None]
              j == [job[p] EXCEPT !.copy.pending = None, !.built = None]
  <2>1. /\ job' = [job EXCEPT ![p] = j] /\ Goto(p, "prepare") /\ pc'[p] = "prepare" /\ job'[p] = j
        /\ WriteLog(p, l) /\ UNCHANGED <<slock, acked>>
    BY <1>5 DEF ForgetPending, Goto, Typed, TypeOK, lockVars
  <2>2. j.s = s /\ j.copy.ops = job[p].copy.ops /\ l.ops = job[p].copy.ops
    BY <1>2, TypedJob DEF Job, Log
  <2>3. slock[s] = p /\ log[s].ops = job[p].copy.ops
    BY <1>1, <1>2, <1>5, OwnsHere DEF ForgetPending
  <2>4. "prepare" \notin HasBuilt
    BY DEF HasBuilt
  <2>5. \A q \in Proc : q # p => job'[q] = job[q] /\ pc'[q] = pc[q]
    BY <2>1, MovesAlone
  <2>. HIDE DEF l, j
  <2>6. Footprint(p) /\ log'[s] = l
    BY <1>2, <2>1, <2>3, <2>5, WritesItsOwn DEF Footprint
  <2>7. Owns(p)'
    BY <2>1, <2>2, <2>3, <2>4, <2>6 DEF Owns
  <2>8. NoOpLost'
    BY <1>2, <1>3, <2>1, <2>2, <2>3, SafeWrites
  <2>. QED BY <2>6, <2>7, <2>8 DEF Good
<1>6. CASE SkipRecovery(p)
  BY <1>1, <1>6, GoodGoes DEF SkipRecovery, Committing, Locked, HasBuilt, lockVars
<1>7. CASE Invalid(p) /\ Done(p)
  BY <1>7, GoodEnd DEF Invalid
<1>8. CASE Invalid(p) /\ ~Done(p)
  <2>1. Goto(p, "replace") /\ UNCHANGED <<job, log, acked>> /\ ReleaseSession(p)
    BY <1>8 DEF Invalid
  <2>2. \A q \in Proc : q # p => job'[q] = job[q] /\ pc'[q] = pc[q]
    BY <2>1, MovesAlone
  <2>3. Footprint(p)
    BY <2>1, <2>2, ReleasesItsOwn DEF Footprint
  <2>4. "replace" \notin Locked /\ job'[p].kind # "start"
    BY <1>8, <2>1 DEF Locked, HasBuilt, Invalid
  <2>. QED BY <2>1, <2>3, <2>4, OwnsNothing, SafeStays DEF Good
<1>9. CASE RebaseNeeded(p)
  BY <1>9, GoodEnd DEF RebaseNeeded
<1>. QED BY <1>4, <1>5, <1>6, <1>7, <1>8, <1>9

LEMMA GoodBuild == ASSUME Typed, Fit, Owned, NoOpLost, Keeps, Grows, NEW p \in Proc, Build(p)
                   PROVE  Good(p)
<1>. DEFINE l == [job[p].copy EXCEPT !.pending = next]
            j == [job[p] EXCEPT !.built = next, !.expected = ref[RefOf[job[p].s]]]
<1>1. pc[p] \in Locked /\ pc[p] = "prepare"
  BY DEF Build, Locked
<1>2. PICK s \in Session : job[p].s = s
  BY DEF Build, Typed, JobTyped
<1>3. /\ job' = [job EXCEPT ![p] = j] /\ Goto(p, "land") /\ pc'[p] = "land" /\ job'[p] = j
      /\ WriteLog(p, l) /\ UNCHANGED <<slock, acked>>
  BY DEF Build, Goto, Typed, TypeOK, lockVars
<1>4. j.s = s /\ j.copy = job[p].copy /\ j.built = next /\ l.ops = job[p].copy.ops
  BY <1>2, TypedJob DEF Job, Log
<1>5. slock[s] = p /\ log[s].ops = job[p].copy.ops
  BY <1>1, <1>2, OwnsHere
<1>6. commits'[next].ops = job[p].copy.ops /\ commits'[next].by = s
  <2>1. next \in CommitId
    BY SessionAssumption DEF Build, NewCommit, Typed, TypeOK, CommitId
  <2>. QED BY <1>2, <2>1 DEF Build, NewCommit, Typed, TypeOK
<1>7. \A q \in Proc : q # p => job'[q] = job[q] /\ pc'[q] = pc[q]
  BY <1>3, MovesAlone
<1>8. acked[s] \subseteq log[s].ops \cup Landed(s)'
  BY LandedGrows DEF NoOpLost
<1>. HIDE DEF l, j
<1>9. Footprint(p) /\ log'[s] = l
  BY <1>2, <1>3, <1>5, <1>7, WritesItsOwn DEF Footprint
<1>10. Owns(p)'
  BY <1>3, <1>4, <1>5, <1>6, <1>9 DEF Owns
<1>11. NoOpLost'
  BY <1>2, <1>3, <1>4, <1>5, <1>8, SafeWrites
<1>. QED BY <1>9, <1>10, <1>11 DEF Good

LEMMA GoodSwap == ASSUME Typed, Fit, Owned, NoOpLost, Keeps, Grows, NEW p \in Proc,
                         Swap(p) \/ SwapFails(p)
                  PROVE  Good(p)
<1>1. /\ pc[p] = "swap" /\ pc[p] \in Locked /\ pc[p] \in HasBuilt
      /\ UNCHANGED <<log, acked, slock, job, commits>>
  BY DEF Swap, SwapFails, Locked, HasBuilt, lockVars
<1>2. PICK s \in Session : job[p].s = s
  BY <1>1 DEF Typed, JobTyped
<1>3. CASE Goto(p, "final")
  <2>1. pc'[p] = "final" /\ ref' = [ref EXCEPT ![RefOf[s]] = job[p].built]
    BY <1>1, <1>2, <1>3 DEF Swap, SwapFails, Goto, Typed, TypeOK
  <2>2. job[p].built \in Made(next) /\ job[p].built # None
    BY <1>1, JobHere, SessionAssumption DEF Made, Typed, TypeOK
  <2>3. job[p].built \in commits[job[p].built].anc
    BY <2>2 DEF Fit, CommitFits
  <2>4. job[p].built \in Reach(RefOf[s])'
    BY <1>1, <2>1, <2>2, <2>3, SessionAssumption DEF Reach, Typed, TypeOK
  <2>5. /\ slock[s] = p /\ log[s].ops = job[p].copy.ops
        /\ commits[job[p].built].ops = job[p].copy.ops /\ commits[job[p].built].by = s
    BY <1>1, <1>2, OwnsHere
  <2>6. \A q \in Proc : q # p => job'[q] = job[q] /\ pc'[q] = pc[q]
    BY <1>1, <1>3, MovesAlone
  <2>7. Footprint(p)
    BY <1>1, <2>6 DEF Footprint
  <2>8. Owns(p)'
    BY <1>1, <1>2, <2>1, <2>4, <2>5 DEF Owns, Reach
  <2>. QED BY <1>1, <2>7, <2>8, SafeStays DEF Good
<1>4. CASE Goto(p, "unsync") \/ Goto(p, "clear") \/ Goto(p, "fail")
  BY <1>1, <1>4, GoodGoes DEF Locked, HasBuilt
<1>. QED BY <1>3, <1>4 DEF Swap, SwapFails

LEMMA GoodLand == ASSUME Typed, Fit, Owned, NoOpLost, Keeps, Grows, NEW p \in Proc,
                         \/ Land(p) \/ LandTimeout(p) \/ Sync(p)
                         \/ AfterFailure(p) \/ Unsync(p) \/ Clear(p) \/ Final(p)
                  PROVE  Good(p)
<1>1. CASE Land(p) \/ LandTimeout(p) \/ Unsync(p)
  BY <1>1, GoodGoes DEF Land, LandTimeout, Unsync, Locked, HasBuilt, lockVars
<1>2. CASE Sync(p) /\ Done(p)
  BY <1>2, GoodEnd DEF Sync, lockVars
<1>3. CASE Sync(p) /\ ~Done(p)
  BY <1>3, GoodGoes DEF Sync, Locked, HasBuilt, lockVars
<1>4. CASE AfterFailure(p)
  BY <1>4, GoodEnd DEF AfterFailure, CommitFails
<1>5. ASSUME Clear(p) \/ Final(p)
      PROVE  \E s \in Session : /\ job[p].s = s /\ pc[p] \in Locked
                                /\ acked[s] \subseteq log[s].ops \cup Landed(s)'
                                /\ log[s].ops = job[p].copy.ops
  <2>1. pc[p] \in {"clear", "final"} /\ pc[p] \in Locked
    BY <1>5 DEF Clear, Final, Locked, HasBuilt
  <2>2. PICK s \in Session : job[p].s = s
    BY <2>1 DEF Typed, JobTyped
  <2>. QED BY <2>1, <2>2, KnowsOps, LandedGrows DEF NoOpLost
<1>6. CASE Clear(p)
  <2>1. PICK s \in Session : /\ job[p].s = s /\ pc[p] \in Locked
                             /\ acked[s] \subseteq log[s].ops \cup Landed(s)'
                             /\ log[s].ops = job[p].copy.ops
    BY <1>5, <1>6
  <2>. DEFINE l == [job[p].copy EXCEPT !.pending = None]
  <2>2. l.ops = job[p].copy.ops /\ WriteLog(p, l) /\ ReleaseSession(p) /\ Done(p) /\ UNCHANGED acked
    BY <1>6, TypedJob DEF Clear, Log
  <2>. HIDE DEF l
  <2>. QED BY <2>1, <2>2, GoodWrite
<1>7. CASE Final(p)
  <2>1. PICK s \in Session : /\ job[p].s = s /\ pc[p] \in Locked
                             /\ acked[s] \subseteq log[s].ops \cup Landed(s)'
                             /\ log[s].ops = job[p].copy.ops
    BY <1>5, <1>7
  <2>2. /\ job[p].built \in Reach(RefOf[s]) /\ commits[job[p].built].by = s
        /\ commits[job[p].built].ops = log[s].ops
    BY <1>7, <2>1, OwnsHere DEF Final, HasBuilt
  <2>3. acked[s] \subseteq Landed(s)'
    BY <2>1, <2>2, OnRefLanded, LandedGrows
  <2>. QED BY <1>7, <2>1, <2>3, GoodWrite DEF Final
<1>. QED BY <1>1, <1>2, <1>3, <1>4, <1>6, <1>7

LEMMA GoodReplace == ASSUME Typed, Fit, Owned, NoOpLost, Keeps, Grows, NEW p \in Proc,
                            Replace(p) \/ RefuseReplace(p) \/ Fails(p) \/ Crash(p) \/ Respawn(p)
                     PROVE  Good(p)
<1>1. CASE Replace(p)
  <2>. DEFINE kept == [job[p].copy EXCEPT !.ops = Kept(p), !.pending = None]
              j == [job[p] EXCEPT !.copy = kept, !.built = None]
  <2>1. PICK s \in Session : job[p].s = s
    BY <1>1 DEF Replace, Typed, JobTyped
  <2>2. slock[s] = None /\ UNCHANGED slock /\ WriteLog(p, kept)
    BY <1>1, <2>1 DEF Replace, lockVars
  <2>3. kept.ops = job[p].copy.ops \ Duplicates(p)
    BY TypedJob DEF Log, Kept
  <2>4. log[s].ops = job[p].copy.ops
    BY <1>1, <2>1 DEF Replace, Unmoved, Owned, Owns
  <2>5. \A x \in Session : /\ x # s => acked'[x] = acked[x]
                           /\ x = s => acked'[x] = acked[s] \ Duplicates(p)
    BY <1>1, <2>1 DEF Replace, Typed, TypeOK
  <2>6. \/ Done(p)
        \/ job' = [job EXCEPT ![p] = j] /\ Goto(p, "read")
    BY <1>1 DEF Replace, Typed, TypeOK
  <2>. HIDE DEF kept, j
  <2>7. \A q \in Proc : q # p => job'[q] = job[q] /\ pc'[q] = pc[q]
    BY <2>6, MovesAlone DEF Done
  <2>8. Footprint(p)
    BY <2>1, <2>2, <2>7, WritesItsOwn DEF Footprint
  <2>9. "idle" \notin Locked /\ "read" \notin Locked
    BY DEF Locked, HasBuilt
  <2>10. Owns(p)'
    BY <2>6, <2>9, OwnsNothing DEF Done
  <2>11. acked[s] \subseteq log[s].ops \cup Landed(s)'
    BY LandedGrows DEF NoOpLost
  <2>12. NoOpLost'
    BY <2>1, <2>2, <2>3, <2>4, <2>5, <2>11, SafeWrites
  <2>. QED BY <2>8, <2>10, <2>12 DEF Good
<1>2. CASE RefuseReplace(p) \/ Fails(p)
  BY <1>2, GoodEnd DEF RefuseReplace, Fails, lockVars
<1>3. CASE Crash(p) \/ Respawn(p)
  <2>1. UNCHANGED <<log, acked, slock>> /\ \E w \in {"idle", "dead"} : Goto(p, w)
    BY <1>3 DEF Crash, Respawn, lockVars
  <2>2. UNCHANGED job \/ \E x : job' = [job EXCEPT ![p] = x]
    BY <1>3 DEF Crash, Respawn
  <2>3. Footprint(p)
    BY <2>1, <2>2, MovesAlone DEF Footprint
  <2>4. "idle" \notin Locked /\ "dead" \notin Locked
    BY DEF Locked, HasBuilt
  <2>. QED BY <2>1, <2>3, <2>4, OwnsNothing, SafeStays DEF Good
<1>. QED BY <1>1, <1>2, <1>3

\* While nobody loses a lock it still uses, a step of one process leaves what the
\* others own.
LEMMA OthersOwn == ASSUME Typed, Fit, Owned, Keeps, Grows, NEW p \in Proc, Footprint(p),
                          NEW q \in Proc, q # p
                   PROVE  Owns(q)'
<1>1. job'[q] = job[q] /\ pc'[q] = pc[q]
  BY DEF Footprint
<1>2. ASSUME pc[q] \in Locked
      PROVE  slock'[job[q].s] = slock[job[q].s] /\ log'[job[q].s].ops = log[job[q].s].ops
  <2>1. slock[job[q].s] = q /\ q # None
    BY <1>2, OwnsHere, SessionAssumption
  <2>2. job[q].s \in Session
    BY <1>2 DEF Typed, JobTyped, Locked, HasBuilt
  <2>. QED BY <2>1, <2>2 DEF Footprint
<1>. QED BY <1>1, <1>2, OwnsStays

LEMMA AllOwn == ASSUME Typed, Fit, Owned, Keeps, Grows, NEW p \in Proc, Good(p)
                PROVE  Owned' /\ NoOpLost'
  BY OthersOwn DEF Good, Owned

\* A step of nobody's process leaves the logs, and takes a lock only from the dead.
LEMMA OthersLeave == ASSUME Typed, Fit, Owned, NoOpLost, Keeps, Grows, UNCHANGED <<log, acked>>,
                            \A p \in Proc : job'[p] = job[p] /\ pc'[p] = pc[p],
                            \A s \in Session : \/ slock'[s] = slock[s]
                                               \/ slock[s] # None /\ pc[slock[s]] = "dead"
                     PROVE  Owned' /\ NoOpLost'
<1>1. ASSUME NEW p \in Proc PROVE Owns(p)'
  <2>1. ASSUME pc[p] \in Locked PROVE slock'[job[p].s] = slock[job[p].s]
    <3>1. job[p].s \in Session /\ pc[p] # "dead"
      BY <2>1 DEF Typed, JobTyped, Locked, HasBuilt
    <3>. QED BY <2>1, <3>1, OwnsHere
  <2>. QED BY <2>1, OwnsStays
<1>. QED BY <1>1, SafeStays DEF Owned

LEMMA GoodStep ==
    ASSUME Typed, Fit, Owned, NoOpLost, [Next]_vars, NEW p \in Proc,
           \/ \E s \in Session, kind \in Calls : Read(p, s, kind)
           \/ Call(p)
           \/ LandTimeout(p) \/ SwapFails(p) \/ Fails(p) \/ Crash(p) \/ Respawn(p)
    PROVE  Good(p)
<1>. Keeps /\ Grows
  BY KeepsStep, GrowsStep
<1>. QED BY GoodRead, GoodTake, GoodPut, GoodSettle, GoodPrepare, GoodBuild, GoodSwap, GoodLand,
     GoodReplace, Zenon DEF Call

LEMMA OwnedStep == ASSUME "stall" \notin Env, Typed, Fit, Owned, NoOpLost, [Next]_vars
                   PROVE  Owned' /\ NoOpLost'
<1>0. Keeps /\ Grows
  BY KeepsStep, GrowsStep
<1>1. ASSUME NEW p \in Proc,
             \/ \E s \in Session, kind \in Calls : Read(p, s, kind)
             \/ Call(p)
             \/ LandTimeout(p) \/ SwapFails(p) \/ Fails(p) \/ Crash(p) \/ Respawn(p)
      PROVE  Good(p)
  BY <1>1, GoodStep
<1>2. ASSUME NEW v \in V1, V1Stage(v) \/ V1Commit(v) \/ V1Compensate(v) \/ Crash(v) \/ Respawn(v)
      PROVE  Owned' /\ NoOpLost'
  <2>1. \A p \in Proc : p # v
    BY SessionAssumption
  <2>2. \A p \in Proc : job'[p] = job[p] /\ pc'[p] = pc[p]
    BY <1>2, <2>1 DEF V1Stage, V1Commit, V1Compensate, Crash, Respawn, Done, Goto, Typed, TypeOK
  <2>3. UNCHANGED <<log, acked, slock>>
    BY <1>2 DEF V1Stage, V1Commit, V1Compensate, Crash, Respawn, lockVars
  <2>. QED BY <1>0, <2>2, <2>3, OthersLeave
<1>3. CASE (\E s \in Session : ReclaimSession(s)) \/ ReclaimCheckout \/ User \/ UNCHANGED vars
  <2>1. \A s \in Session : slock'[s] = slock[s] \/ (slock[s] # None /\ pc[slock[s]] = "dead")
    BY <1>3 DEF ReclaimSession, ReclaimCheckout, User, vars, lockVars, Stale, Typed, TypeOK
  <2>2. UNCHANGED <<log, acked, pc, job>>
    BY <1>3 DEF ReclaimSession, ReclaimCheckout, User, vars
  <2>. QED BY <1>0, <2>1, <2>2, OthersLeave
<1>. QED BY <1>0, <1>1, <1>2, <1>3, AllOwn DEF Next

LEMMA InitOwned == Init => Owned /\ NoOpLost
<1>1. "idle" \notin Locked
  BY DEF Locked, HasBuilt
<1>. QED BY <1>1 DEF Init, Owned, Owns, NoOpLost

\* A put that was answered stays in its session's log or lands on its ref, however
\* many processes write the log, whatever is killed and whatever fails, as long as
\* no process is slow enough to lose a session lock it still uses: what
\* requireLogUnmoved, the session lock and the settling of `pending` are for.
THEOREM NoPutIsLost == ASSUME "stall" \notin Env PROVE Spec => []NoOpLost
<1>1. Typed /\ Fit /\ Owned /\ NoOpLost /\ [Next]_vars => Owned' /\ NoOpLost'
  BY OwnedStep
<1>. QED BY <1>1, InitTyped, TypedStep, InitFits, FitStep, InitOwned, PTL DEF Spec

-----------------------------------------------------------------------------
(* The shared checkout: what the checkout lock protects *)

\* Where a process holds the checkout lock.
Inside == {"rollback", "sync", "swap", "unsync", "fail"}

\* Whoever is in the critical section of the checkout is who its lock names.
Holds == /\ \A p \in Proc : pc[p] \in Inside => clock = p
         /\ \A v \in V1 : pc[v] = "staged" => clock = v

\* What a process between its build and its answer knows: the commit it built is its ops
\* over its base, and while it is inside, the branch is where it was.
Ahead(p) ==
    pc[p] \in {"land", "sync", "swap", "unsync", "fail"} =>
        LET base == job[p].copy.base
            built == job[p].built
            onMain == RefOf[job[p].s] = Main
        IN  /\ commits[built].by # None /\ commits[built].parent = base
            /\ pc[p] \in {"land", "sync", "swap"} =>
                 job[p].expected = base \/ (job[p].expected = None /\ ~onMain)
            /\ pc[p] \in {"sync", "unsync"} => onMain
            /\ onMain /\ pc[p] \in {"sync", "swap", "unsync"} => ref[Main] = base
            /\ onMain /\ pc[p] = "swap" => commits[built].tree \subseteq index
            /\ onMain /\ pc[p] = "fail" => ref[Main] \in {base, built}

\* A v1 writer has staged what the branch does not have.
Adds(v) == pc[v] = "staged" => job[v].new \cap HeadTree = {}

Shared == /\ Holds
          /\ \A p \in Proc : Ahead(p)
          /\ \A v \in V1 : Adds(v)
          /\ NoStagedDeletion

\* A step of one writer leaves the rest alone: the lock it does not hold, and what may only
\* be written under that lock.
Careful(w) ==
    /\ clock \notin {w, None} => clock' = clock /\ index' = index /\ ref'[Main] = ref[Main]
    /\ \A q \in Proc \cup V1 : q # w => job'[q] = job[q] /\ pc'[q] = pc[q]

LEMMA HeadStays == ASSUME Typed, Fit, Keeps, ref'[Main] = ref[Main] PROVE HeadTree' = HeadTree
<1>1. Main \in Ref /\ ref[Main] \in Made(next)
  BY SessionAssumption DEF Fit, Typed, TypeOK, CommitId
<1>. QED BY <1>1 DEF HeadTree, Keeps

\* What a process has in hand was made, so no step changes it.
LEMMA InHand == ASSUME Typed, Fit, Keeps, NEW p \in Proc, pc[p] \in Inside \cup {"land"}
                PROVE  /\ job[p].built \in Made(next) /\ job[p].copy.base \in Made(next)
                       /\ commits'[job[p].built] = commits[job[p].built]
                       /\ commits'[job[p].copy.base] = commits[job[p].copy.base]
                       /\ job[p].s \in Session /\ RefOf[job[p].s] \in Ref
<1>1. job[p].built \in Made(next) /\ job[p].copy.base \in Made(next)
  BY JobHere DEF Inside, HasBuilt, LogFits
<1>2. job[p].s \in Session
  BY DEF Inside, Typed, JobTyped
<1>. QED BY <1>1, <1>2, SessionAssumption DEF Keeps

\* While one writer works, what the others are in the middle of stays as they left it.
LEMMA OthersShared ==
    ASSUME Typed, Fit, Keeps, Shared, NEW w \in Proc \cup V1, Careful(w)
    PROVE  /\ \A p \in Proc : p # w => Ahead(p)' /\ (pc'[p] \in Inside => clock' = p)
           /\ \A v \in V1 : v # w => Adds(v)' /\ (pc'[v] = "staged" => clock' = v)
<1>1. ASSUME NEW p \in Proc, p # w PROVE Ahead(p)' /\ (pc'[p] \in Inside => clock' = p)
  <2>1. job'[p] = job[p] /\ pc'[p] = pc[p]
    BY <1>1 DEF Careful
  <2>2. pc[p] \in Inside => clock' = p /\ index' = index /\ ref'[Main] = ref[Main]
    BY <1>1, SessionAssumption DEF Shared, Holds, Careful
  <2>3. CASE pc[p] \in Inside
    BY <2>1, <2>2, <2>3, InHand DEF Shared, Ahead
  <2>4. CASE pc[p] = "land"
    BY <2>1, <2>4, InHand DEF Shared, Ahead, Inside
  <2>5. CASE pc[p] \notin Inside \cup {"land"}
    BY <2>1, <2>5 DEF Ahead, Inside
  <2>. QED BY <2>3, <2>4, <2>5, <2>1, <2>2
<1>2. ASSUME NEW v \in V1, v # w PROVE Adds(v)' /\ (pc'[v] = "staged" => clock' = v)
  <2>1. job'[v] = job[v] /\ pc'[v] = pc[v]
    BY <1>2 DEF Careful
  <2>2. pc[v] = "staged" => clock' = v /\ ref'[Main] = ref[Main]
    BY <1>2, SessionAssumption DEF Shared, Holds, Careful
  <2>. QED BY <2>1, <2>2, HeadStays DEF Shared, Adds
<1>. QED BY <1>1, <1>2

\* What a step of process p has to establish.
Sound(p) == Careful(p) /\ Ahead(p)' /\ (pc'[p] \in Inside => clock' = p) /\ NoStagedDeletion'

LEMMA AllShared == ASSUME Typed, Fit, Keeps, Shared, NEW p \in Proc, Sound(p) PROVE Shared'
<1>1. \A v \in V1 : v # p
  BY SessionAssumption
<1>. QED BY <1>1, OthersShared DEF Sound, Shared, Holds

\* The steps that touch neither the checkout nor the refs nor the lock between them.
LEMMA SoundQuiet ==
    ASSUME Typed, Fit, Keeps, Shared, NEW p \in Proc,
           UNCHANGED <<clock, index, ref>>, pc'[p] \notin Inside \cup {"land"},
           \A q \in Proc \cup V1 : q # p => job'[q] = job[q] /\ pc'[q] = pc[q]
    PROVE  Sound(p)
<1>1. Careful(p)
  BY DEF Careful
<1>2. Ahead(p)' /\ pc'[p] \notin Inside
  BY DEF Ahead, Inside
<1>3. NoStagedDeletion'
  BY HeadStays DEF NoStagedDeletion, Shared
<1>. QED BY <1>1, <1>2, <1>3 DEF Sound

LEMMA SoundCalls ==
    ASSUME Typed, Fit, Keeps, Shared, NEW p \in Proc,
           \/ \E s \in Session, kind \in Calls : Read(p, s, kind)
           \/ Onto(p) \/ TakeSession(p) \/ Refuse(p) \/ Start(p) \/ Rebase(p) \/ Put(p)
           \/ PutSettled(p) \/ StartSettle(p) \/ Recover(p) \/ ForgetPending(p) \/ SkipRecovery(p)
           \/ Invalid(p) \/ RebaseNeeded(p) \/ LandTimeout(p) \/ Clear(p) \/ Final(p)
           \/ Replace(p) \/ RefuseReplace(p) \/ Fails(p) \/ Crash(p) \/ Respawn(p)
    PROVE  Sound(p)
<1>0. ASSUME NEW w, Goto(p, w) PROVE pc'[p] = w
  BY <1>0 DEF Goto, Typed, TypeOK
<1>1. \A q \in Proc \cup V1 : q # p => job'[q] = job[q] /\ pc'[q] = pc[q]
  BY OthersStay DEF Call
<1>2. CASE \E s \in Session, kind \in Calls : Read(p, s, kind)
  <2>1. UNCHANGED <<clock, index, ref>> /\ (Goto(p, "onto") \/ Goto(p, "read"))
    BY <1>2 DEF Read, gitVars, treeVars, lockVars
  <2>. QED BY <1>0, <1>1, <2>1, SoundQuiet DEF Inside
<1>3. CASE \/ Onto(p) \/ TakeSession(p) \/ Refuse(p) \/ Start(p) \/ Rebase(p) \/ Put(p)
           \/ PutSettled(p) \/ StartSettle(p) \/ Recover(p) \/ ForgetPending(p) \/ SkipRecovery(p)
           \/ Invalid(p) \/ RebaseNeeded(p) \/ LandTimeout(p) \/ Clear(p) \/ Final(p)
           \/ Replace(p) \/ RefuseReplace(p) \/ Fails(p) \/ Crash(p) \/ Respawn(p)
  <2>1. UNCHANGED clock /\ UNCHANGED treeVars /\ UNCHANGED gitVars
    <3>1. CASE \/ Onto(p) \/ TakeSession(p) \/ Refuse(p) \/ Start(p) \/ Rebase(p) \/ Put(p)
               \/ PutSettled(p) \/ StartSettle(p) \/ Recover(p) \/ ForgetPending(p)
      BY <3>1 DEF Onto, TakeSession, Refuse, Start, Rebase, Put, PutSettled, Append, StartSettle,
           Recover, ForgetPending, lockVars
    <3>2. CASE \/ SkipRecovery(p) \/ Invalid(p) \/ RebaseNeeded(p) \/ LandTimeout(p) \/ Clear(p)
               \/ Final(p) \/ Replace(p) \/ RefuseReplace(p) \/ Fails(p) \/ Crash(p) \/ Respawn(p)
      BY <3>2 DEF SkipRecovery, Invalid, RebaseNeeded, LandTimeout, Clear, Final, Replace,
           RefuseReplace, Fails, Crash, Respawn, lockVars
    <3>. QED BY <1>3, <3>1, <3>2
  <2>2. \/ \E w \in {"read", "held", "settle", "prepare", "replace", "clear", "dead"} : Goto(p, w)
        \/ Goto(p, "idle")
    <3>1. CASE \/ Onto(p) \/ TakeSession(p) \/ Refuse(p) \/ Start(p) \/ Rebase(p) \/ Put(p)
               \/ PutSettled(p) \/ StartSettle(p) \/ Recover(p) \/ ForgetPending(p)
      BY <3>1 DEF Onto, TakeSession, Refuse, Start, Rebase, Put, PutSettled, Append, StartSettle,
           Recover, ForgetPending, Done
    <3>2. CASE \/ SkipRecovery(p) \/ Invalid(p) \/ RebaseNeeded(p) \/ LandTimeout(p) \/ Clear(p)
               \/ Final(p) \/ Replace(p) \/ RefuseReplace(p) \/ Fails(p) \/ Crash(p) \/ Respawn(p)
      BY <3>2 DEF SkipRecovery, Invalid, RebaseNeeded, LandTimeout, Clear, Final, Replace,
           RefuseReplace, Fails, Crash, Respawn, Done
    <3>. QED BY <1>3, <3>1, <3>2
  <2>3. \E w : Goto(p, w) /\ w \notin Inside \cup {"land"}
    BY <2>2 DEF Inside
  <2>. QED BY <1>0, <1>1, <2>1, <2>3, SoundQuiet DEF gitVars, treeVars
<1>. QED BY <1>2, <1>3

LEMMA SoundBuild == ASSUME Typed, Fit, Keeps, Shared, NEW p \in Proc, Build(p) PROVE Sound(p)
<1>1. /\ pc'[p] = "land" /\ UNCHANGED <<ref, index, clock>>
      /\ job'[p].s = job[p].s /\ job'[p].copy = job[p].copy /\ job'[p].built = next
      /\ job'[p].expected = ref[RefOf[job[p].s]]
  BY TypedJob DEF Build, Goto, Typed, TypeOK, Job, treeVars, lockVars
<1>2. job[p].s \in Session /\ job[p].s # None
  BY SessionAssumption DEF Build, Typed, JobTyped
<1>3. commits'[next].by = job[p].s /\ commits'[next].parent = job[p].copy.base
  <2>1. next \in CommitId
    BY SessionAssumption DEF Build, NewCommit, Typed, TypeOK, CommitId
  <2>. QED BY <2>1 DEF Build, NewCommit, Typed, TypeOK
<1>4. /\ job'[p].expected = job'[p].copy.base \/ job'[p].expected = None
      /\ RefOf[job[p].s] = Main => job'[p].expected = job'[p].copy.base
  <2>1. AtTip(p)
    BY DEF Build
  <2>2. ref[Main] # None
    BY SessionAssumption DEF Typed, TypeOK, CommitId
  <2>. QED BY <1>1, <2>1, <2>2 DEF AtTip
<1>5. \A q \in Proc \cup V1 : q # p => job'[q] = job[q] /\ pc'[q] = pc[q]
  <2>1. Call(p)
    BY DEF Call
  <2>. QED BY <2>1, OthersStay
<1>6. Careful(p)
  BY <1>1, <1>5 DEF Careful
<1>7. Ahead(p)'
  BY <1>1, <1>2, <1>3, <1>4 DEF Ahead
<1>8. NoStagedDeletion' /\ pc'[p] \notin Inside
  BY <1>1, HeadStays DEF NoStagedDeletion, Shared, Inside
<1>. QED BY <1>6, <1>7, <1>8 DEF Sound

LEMMA SoundEnter == ASSUME Typed, Fit, Keeps, Shared, NEW p \in Proc, Settle(p) \/ Land(p)
                    PROVE  Sound(p)
<1>1. UNCHANGED <<ref, index, job>> /\ clock = None
  BY DEF Settle, Land, gitVars, treeVars
<1>2. \A q \in Proc \cup V1 : q # p => job'[q] = job[q] /\ pc'[q] = pc[q]
  <2>1. Call(p)
    BY DEF Call
  <2>. QED BY <2>1, OthersStay
<1>3. Careful(p)
  BY <1>1, <1>2 DEF Careful
<1>4. NoStagedDeletion'
  BY <1>1, HeadStays DEF NoStagedDeletion, Shared
<1>5. pc'[p] \in Inside => clock' = p
  BY DEF Settle, Land, Goto, Typed, TypeOK, Inside
<1>6. Ahead(p)'
  <2>1. CASE Settle(p)
    BY <2>1 DEF Settle, Goto, Ahead, Typed, TypeOK
  <2>2. CASE Land(p)
    <3>1. pc[p] = "land" /\ job[p].s \in Session
      BY <2>2 DEF Land, Typed, JobTyped
    <3>2. /\ commits'[job[p].built] = commits[job[p].built]
          /\ Ahead(p)
      BY <3>1, InHand DEF Shared
    <3>3. \/ pc'[p] = "clear"
          \/ pc'[p] = "sync" /\ RefOf[job[p].s] = Main /\ ref[Main] = job[p].expected
          \/ pc'[p] = "swap" /\ RefOf[job[p].s] # Main
      BY <2>2 DEF Land, Goto, CheckedOut, Typed, TypeOK
    <3>. QED BY <1>1, <3>1, <3>2, <3>3 DEF Ahead
  <2>. QED BY <2>1, <2>2
<1>. QED BY <1>3, <1>4, <1>5, <1>6 DEF Sound

\* What git read-tree -m -u does to a set it covers.
LEMMA ReadTreeCovers == ASSUME NEW a, NEW b, NEW S PROVE /\ a \subseteq S => b \subseteq ReadTree(a, b, S)
                                                         /\ b \subseteq S => b \subseteq ReadTree(a, b, S)
  BY DEF ReadTree

LEMMA SoundRollback == ASSUME Typed, Fit, Keeps, Shared, NEW p \in Proc, Rollback(p) PROVE Sound(p)
<1>1. /\ pc[p] = "rollback" /\ UNCHANGED <<ref, job, commits>> /\ pc'[p] = "unlanded"
      /\ ReleaseCheckout(p)
  BY DEF Rollback, Goto, Typed, TypeOK, gitVars
<1>2. \A q \in Proc \cup V1 : q # p => job'[q] = job[q] /\ pc'[q] = pc[q]
  <2>1. Call(p)
    BY DEF Call
  <2>. QED BY <2>1, OthersStay
<1>3. clock = p
  BY <1>1 DEF Shared, Holds, Inside
<1>4. Careful(p)
  BY <1>2, <1>3 DEF Careful
<1>5. Ahead(p)' /\ pc'[p] \notin Inside
  BY <1>1 DEF Ahead, Inside
<1>6. index' = index \/ index' = ReadTree(commits[job[p].built].tree, HeadTree, index)
  BY DEF Rollback, RollbackTo, MoveCheckout, HeadTree, treeVars
<1>7. HeadTree \subseteq index'
  BY <1>6, ReadTreeCovers DEF Shared, NoStagedDeletion
<1>8. NoStagedDeletion'
  BY <1>1, <1>7, HeadStays DEF NoStagedDeletion
<1>. QED BY <1>4, <1>5, <1>8 DEF Sound

LEMMA SoundSync == ASSUME Typed, Fit, Keeps, Shared, NEW p \in Proc, Sync(p) PROVE Sound(p)
<1>1. pc[p] = "sync" /\ UNCHANGED <<ref, commits>>
  BY DEF Sync, gitVars
<1>2. \A q \in Proc \cup V1 : q # p => job'[q] = job[q] /\ pc'[q] = pc[q]
  <2>1. Call(p)
    BY DEF Call
  <2>. QED BY <2>1, OthersStay
<1>3. clock = p
  BY <1>1 DEF Shared, Holds, Inside
<1>4. Careful(p)
  BY <1>2, <1>3 DEF Careful
<1>5. Ahead(p) /\ RefOf[job[p].s] = Main /\ ref[Main] = job[p].copy.base
  BY <1>1 DEF Shared, Ahead
<1>6. CASE Done(p)
  <2>1. index' = index /\ pc'[p] = "idle"
    BY <1>1, <1>6 DEF Sync, Done, Goto, Typed, TypeOK, treeVars
  <2>. QED BY <1>1, <1>4, <2>1, HeadStays DEF Sound, Shared, Ahead, Inside, NoStagedDeletion
<1>7. CASE ~Done(p)
  <2>1. /\ index' = ReadTree(HeadTree, commits[job[p].built].tree, index) /\ clock' = clock
        /\ job' = job /\ pc'[p] = "swap"
    BY <1>1, <1>5, <1>7 DEF Sync, Goto, Typed, TypeOK, MoveCheckout, HeadTree, lockVars
  <2>2. commits[job[p].built].tree \subseteq index'
    BY <2>1, ReadTreeCovers DEF Shared, NoStagedDeletion
  <2>3. HeadTree \subseteq commits[job[p].built].tree
    <3>1. job[p].built \in Made(next) /\ commits[job[p].built].by # None
          /\ commits[job[p].built].parent = job[p].copy.base
      BY <1>1, <1>5, InHand DEF Inside, Ahead
    <3>. QED BY <1>5, <3>1 DEF Fit, CommitFits, HeadTree
  <2>4. NoStagedDeletion'
    BY <1>1, <2>2, <2>3, HeadStays DEF NoStagedDeletion
  <2>5. Ahead(p)'
    BY <1>1, <1>5, <2>1, <2>2 DEF Ahead
  <2>. QED BY <1>3, <1>4, <2>1, <2>4, <2>5 DEF Sound
<1>. QED BY <1>6, <1>7

LEMMA SoundSwap == ASSUME "blind" \notin Env, Typed, Fit, Keeps, Shared, NEW p \in Proc, Swap(p) \/ SwapFails(p)
                   PROVE Sound(p)
<1>1. pc[p] = "swap" /\ UNCHANGED <<index, commits, job>>
  BY DEF Swap, SwapFails, treeVars
<1>2. \A q \in Proc \cup V1 : q # p => job'[q] = job[q] /\ pc'[q] = pc[q]
  BY OthersStay DEF Call
<1>3. clock = p
  BY <1>1 DEF Shared, Holds, Inside
<1>4. Careful(p)
  BY <1>2, <1>3 DEF Careful
<1>5. Ahead(p) /\ job[p].s \in Session /\ RefOf[job[p].s] \in Ref /\ Main \in Ref
  BY <1>1, InHand, SessionAssumption DEF Shared, Inside
<1>6. \/ ref' = ref /\ (RefOf[job[p].s] = Main => pc'[p] \in {"unsync", "fail"})
      \/ ref' = [ref EXCEPT ![RefOf[job[p].s]] = job[p].built]
  BY DEF Swap, SwapFails, CheckedOut, Goto, Typed, TypeOK
<1>7. \/ pc'[p] \in {"final", "clear"}
      \/ pc'[p] = "fail" /\ clock' = clock
      \/ pc'[p] = "unsync" /\ clock' = clock /\ ref' = ref /\ RefOf[job[p].s] = Main
  BY DEF Swap, SwapFails, CheckedOut, Goto, Typed, TypeOK, lockVars
<1>8. pc'[p] \in Inside => clock' = p
  BY <1>3, <1>7 DEF Inside
<1>9. CASE RefOf[job[p].s] = Main
  <2>1. ref'[Main] = ref[Main] \/ ref'[Main] = job[p].built
    BY <1>5, <1>6, <1>9 DEF Typed, TypeOK
  <2>2. NoStagedDeletion'
    BY <1>1, <1>5, <1>9, <2>1, HeadStays DEF NoStagedDeletion, Shared, Ahead, HeadTree
  <2>3. Ahead(p)'
    BY <1>1, <1>5, <1>7, <1>9, <2>1 DEF Ahead
  <2>. QED BY <1>4, <1>8, <2>2, <2>3 DEF Sound
<1>10. CASE RefOf[job[p].s] # Main
  <2>1. ref'[Main] = ref[Main]
    BY <1>5, <1>6, <1>10 DEF Typed, TypeOK
  <2>2. NoStagedDeletion'
    BY <1>1, <2>1, HeadStays DEF NoStagedDeletion, Shared
  <2>3. Ahead(p)'
    BY <1>1, <1>5, <1>7, <1>10 DEF Ahead
  <2>. QED BY <1>4, <1>8, <2>2, <2>3 DEF Sound
<1>. QED BY <1>9, <1>10

\* Undoing a checkout update that has not reached the branch.
LEMMA SoundUndo ==
    ASSUME "blind" \notin Env, Typed, Fit, Keeps, Shared, NEW p \in Proc, AfterFailure(p) \/ Unsync(p)
    PROVE  Sound(p)
<1>1. pc[p] \in {"fail", "unsync"} /\ UNCHANGED <<ref, commits>> /\ pc'[p] \in {"idle", "clear"}
  BY DEF AfterFailure, CommitFails, Unsync, Done, Goto, Typed, TypeOK, gitVars
<1>2. \A q \in Proc \cup V1 : q # p => job'[q] = job[q] /\ pc'[q] = pc[q]
  <2>1. Call(p)
    BY DEF Call
  <2>. QED BY <2>1, OthersStay
<1>3. clock = p
  BY <1>1 DEF Shared, Holds, Inside
<1>4. Careful(p)
  BY <1>2, <1>3 DEF Careful
<1>5. Ahead(p)' /\ pc'[p] \notin Inside
  BY <1>1 DEF Ahead, Inside
<1>6. Ahead(p) /\ job[p].built \in Made(next) /\ job[p].s \in Session
  BY <1>1, InHand DEF Shared, Inside
<1>7. ASSUME index' # index
      PROVE  /\ index' = ReadTree(commits[job[p].built].tree, commits[job[p].copy.base].tree, index)
             /\ ref[Main] = job[p].copy.base
  <2>1. CASE Unsync(p)
    BY <1>6, <1>7, <2>1 DEF Unsync, MoveCheckout, treeVars, Ahead
  <2>2. CASE AfterFailure(p)
    <3>1. /\ RefOf[job[p].s] = Main /\ job[p].built \notin Reach(Main)
          /\ index' = ReadTree(commits[job[p].built].tree, commits[job[p].copy.base].tree, index)
      BY <1>7, <2>2 DEF AfterFailure, MoveCheckout, treeVars, CheckedOut
    <3>2. ref[Main] # job[p].built
      BY <1>6, <3>1, SessionAssumption DEF Reach, Fit, CommitFits, Made, Typed, TypeOK
    <3>. QED BY <1>6, <2>2, <3>1, <3>2 DEF Ahead, AfterFailure
  <2>. QED BY <2>1, <2>2
<1>8. HeadTree \subseteq index'
  BY <1>7, ReadTreeCovers DEF Shared, NoStagedDeletion, HeadTree
<1>9. NoStagedDeletion'
  BY <1>1, <1>8, HeadStays DEF NoStagedDeletion
<1>. QED BY <1>4, <1>5, <1>9 DEF Sound

LEMMA SharedV1 ==
    ASSUME Typed, Fit, Keeps, Shared, NEW v \in V1,
           V1Stage(v) \/ V1Commit(v) \/ V1Compensate(v) \/ Crash(v) \/ Respawn(v)
    PROVE  Shared'
<1>0. v \notin Proc
  BY SessionAssumption
<1>1. \A q \in Proc \cup V1 : q # v => job'[q] = job[q] /\ pc'[q] = pc[q]
  BY DEF V1Stage, V1Commit, V1Compensate, Crash, Respawn, Done, Goto, Typed, TypeOK
<1>2. ASSUME Careful(v), Adds(v)', pc'[v] = "staged" => clock' = v, NoStagedDeletion' PROVE Shared'
  BY <1>0, <1>2, OthersShared DEF Shared, Holds
<1>3. CASE V1Stage(v)
  <2>1. PICK f \in Fact : /\ f \notin HeadTree /\ index' = index \cup {f}
                          /\ job' = [job EXCEPT ![v] = [NoJob EXCEPT !.kind = "v1", !.new = {f}]]
    BY <1>3 DEF V1Stage
  <2>2. /\ job'[v].new = {f} /\ UNCHANGED <<ref, commits>> /\ clock = None /\ clock' = v
        /\ HeadTree' = HeadTree
    BY <1>3, <2>1, HeadStays DEF V1Stage, Typed, TypeOK, gitVars, NoJob
  <2>3. Careful(v) /\ Adds(v)' /\ NoStagedDeletion'
    BY <1>1, <2>1, <2>2 DEF Careful, Adds, NoStagedDeletion, Shared
  <2>. QED BY <1>2, <2>2, <2>3
<1>4. CASE V1Commit(v)
  <2>1. clock = v /\ pc'[v] = "idle" /\ index' = index
    BY <1>4 DEF V1Commit, Shared, Holds, Done, Goto, Typed, TypeOK, treeVars
  <2>2. HeadTree' = index
    <3>1. next \in CommitId /\ Main \in Ref
      BY <1>4, SessionAssumption DEF V1Commit, CommitIndex, NewCommit, Typed, TypeOK, CommitId
    <3>. QED BY <1>4, <3>1 DEF V1Commit, CommitIndex, NewCommit, HeadTree, Typed, TypeOK
  <2>3. Careful(v) /\ Adds(v)' /\ NoStagedDeletion'
    BY <1>1, <2>1, <2>2 DEF Careful, Adds, NoStagedDeletion
  <2>. QED BY <1>2, <2>1, <2>3
<1>5. CASE V1Compensate(v)
  <2>1. clock = v /\ pc'[v] = "idle" /\ index' = index \ job[v].new /\ Adds(v) /\ pc[v] = "staged"
    BY <1>5 DEF V1Compensate, Shared, Holds, Done, Goto, Typed, TypeOK
  <2>2. HeadTree' = HeadTree
    BY <1>5, HeadStays DEF V1Compensate, gitVars
  <2>3. Careful(v) /\ Adds(v)' /\ NoStagedDeletion'
    BY <1>1, <2>1, <2>2 DEF Careful, Adds, NoStagedDeletion, Shared
  <2>. QED BY <1>2, <2>1, <2>3
<1>6. CASE Crash(v) \/ Respawn(v)
  <2>1. UNCHANGED <<ref, commits, index, clock>> /\ pc'[v] \in {"idle", "dead"}
    BY <1>6 DEF Crash, Respawn, Goto, Typed, TypeOK, gitVars, treeVars, lockVars
  <2>2. Careful(v) /\ Adds(v)' /\ NoStagedDeletion'
    BY <1>1, <2>1, HeadStays DEF Careful, Adds, NoStagedDeletion, Shared
  <2>. QED BY <1>2, <2>1, <2>2
<1>. QED BY <1>3, <1>4, <1>5, <1>6

LEMMA SharedStep ==
    ASSUME {"stall", "user", "blind"} \cap Env = {}, Typed, Fit, Shared, [Next]_vars
    PROVE  Shared'
<1>0. Keeps
  BY KeepsStep
<1>1. ASSUME NEW p \in Proc,
             \/ \E s \in Session, kind \in Calls : Read(p, s, kind)
             \/ Call(p)
             \/ LandTimeout(p) \/ SwapFails(p) \/ Fails(p) \/ Crash(p) \/ Respawn(p)
      PROVE  Shared'
  <2>1. Sound(p)
    BY <1>0, <1>1, SoundCalls, SoundBuild, SoundEnter, SoundRollback, SoundSync, SoundSwap, SoundUndo,
       Zenon DEF Call
  <2>. QED BY <1>0, <2>1, AllShared
<1>2. ASSUME NEW v \in V1, V1Stage(v) \/ V1Commit(v) \/ V1Compensate(v) \/ Crash(v) \/ Respawn(v)
      PROVE  Shared'
  BY <1>0, <1>2, SharedV1
<1>3. CASE (\E s \in Session : ReclaimSession(s)) \/ UNCHANGED vars
  BY <1>3 DEF ReclaimSession, vars, gitVars, treeVars, Shared, Holds, Ahead, Adds, NoStagedDeletion, HeadTree
<1>4. CASE ReclaimCheckout
  <2>1. pc[clock] = "dead" /\ UNCHANGED <<commits, next, ref, index, pc, job>>
    BY <1>4 DEF ReclaimCheckout, Stale, gitVars, treeVars
  <2>2. (\A p \in Proc : pc[p] \notin Inside) /\ \A v \in V1 : pc[v] # "staged"
    BY <2>1 DEF Shared, Holds, Inside
  <2>. QED BY <2>1, <2>2 DEF Shared, Holds, Ahead, Adds, NoStagedDeletion, HeadTree
<1>5. ~User
  BY DEF User
<1>. QED BY <1>0, <1>1, <1>2, <1>3, <1>4, <1>5 DEF Next

LEMMA InitShared == Init => Shared
<1>. SUFFICES ASSUME Init PROVE Shared
  OBVIOUS
<1>1. HeadTree = {}
  BY SessionAssumption DEF Init, HeadTree, NoCommit, CommitId
<1>2. \A p \in Proc \cup V1 : pc[p] = "idle"
  BY DEF Init
<1>. QED BY <1>1, <1>2 DEF Shared, Holds, Ahead, Adds, Inside, NoStagedDeletion

\* While processes lose no lock they use, and nobody commits or stages by hand, the index
\* has whatever the branch has: no v1 write, session commit, settling or undoing, killed or
\* failed anywhere, leaves a deletion staged for the next v1 commit to make.
THEOREM NothingStagedAway == ASSUME {"stall", "user", "blind"} \cap Env = {}
                             PROVE  Spec => []NoStagedDeletion
<1>1. Shared => NoStagedDeletion
  BY DEF Shared
<1>2. Typed /\ Fit /\ Shared /\ [Next]_vars => Shared'
  BY SharedStep
<1>. QED BY <1>1, <1>2, InitTyped, TypedStep, InitFits, FitStep, InitShared, PTL DEF Spec

\* Then a branch never loses a file, whoever moves it: a session commit is its ops over
\* the value it swaps, and a v1 commit is an index that has what the branch has.
THEOREM BranchesKeepFacts == ASSUME {"stall", "user", "blind"} \cap Env = {}
                             PROVE  Spec => BranchKeepsFacts
<1>1. ASSUME Typed, Fit, Shared, [Next]_vars, NEW r \in Ref, ref[r] # None
      PROVE  commits[ref[r]].tree \subseteq commits'[ref'[r]].tree
  <2>1. Keeps /\ ref[r] \in Made(next)
    BY <1>1, KeepsStep DEF Fit
  <2>2. CASE ref'[r] = ref[r]
    BY <2>1, <2>2 DEF Keeps
  <2>3. ASSUME NEW p \in Proc, Swap(p) \/ SwapFails(p), ref'[r] # ref[r]
        PROVE  commits[ref[r]].tree \subseteq commits'[ref'[r]].tree
    <3>1. /\ pc[p] = "swap" /\ r = RefOf[job[p].s] /\ ref[r] = job[p].expected
          /\ ref'[r] = job[p].built
      BY <1>1, <2>3 DEF Swap, SwapFails, Typed, TypeOK
    <3>2. /\ job[p].built \in Made(next) /\ commits[job[p].built].by # None
          /\ commits[job[p].built].parent = ref[r]
      BY <1>1, <2>1, <3>1, InHand DEF Shared, Ahead, Inside
    <3>. QED BY <1>1, <2>1, <3>1, <3>2 DEF Fit, CommitFits, Keeps
  <2>4. ASSUME CommitIndex, ref'[r] # ref[r]
        PROVE  commits[ref[r]].tree \subseteq commits'[ref'[r]].tree
    <3>1. next \in CommitId /\ r = Main /\ ref'[r] = next
      BY <1>1, <2>4, SessionAssumption DEF CommitIndex, NewCommit, Typed, TypeOK, CommitId
    <3>2. commits'[next].tree = index
      BY <1>1, <2>4, <3>1 DEF CommitIndex, NewCommit, Typed, TypeOK
    <3>. QED BY <1>1, <3>1, <3>2 DEF Shared, NoStagedDeletion, HeadTree
  <2>. QED BY <1>1, <2>2, <2>3, <2>4, WhoWritesGit DEF Build, gitVars
<1>2. Typed /\ Fit /\ Shared /\ [Next]_vars =>
        [\A r \in Ref : ref[r] # None => commits[ref[r]].tree \subseteq commits'[ref'[r]].tree]_vars
  BY <1>1
<1>3. Typed /\ Fit /\ Shared /\ [Next]_vars => Shared'
  BY SharedStep
<1>. QED BY <1>2, <1>3, InitTyped, TypedStep, InitFits, FitStep, InitShared, PTL DEF Spec, BranchKeepsFacts
=============================================================================
