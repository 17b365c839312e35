---------------------------- MODULE SessionCommit ----------------------------
(***************************************************************************)
(* The v2 commit path of memhtml: sessions whose overlay logs are written  *)
(* by racing CLI processes, and landed on a git ref as one commit through  *)
(* a compare-and-swap, while v1 store writers share the same checkout.     *)
(*                                                                         *)
(*   packages/session/src/session.ts   the log, its lock, its writers      *)
(*   packages/session/src/commit.ts    commitSession and landOnRef         *)
(*   packages/session/src/settle.ts    settlePending                       *)
(*   packages/contracts/src/checkout-lock.ts   the checkout lock           *)
(*   packages/store/src/store.ts       the v1 write that shares the index  *)
(*                                                                         *)
(* A memory file is a Fact: its path and its bytes are one model value, so *)
(* a tree, an index and a working tree are each the set of facts they hold *)
(* and an overlay op is the fact a `put` adds.  What ops of other kinds do *)
(* to a tree is the OverlayOps module's subject.                           *)
(***************************************************************************)
EXTENDS Naturals, FiniteSets

CONSTANTS
    Session,      \* session ids
    Proc,         \* CLI processes (or head-server requests) that write logs
    V1,           \* processes that write through the v1 store
    Fact,         \* memory files
    Ref,          \* git refs sessions land on
    Main,         \* the ref HEAD names: the one the checkout follows
    RefOf,        \* the ref of each session
    MaxCommits,   \* bound: commit objects after the root commit
    MaxCrashes,   \* bound: processes killed
    Calls,        \* which log-writing calls the processes make
    Env,          \* which failures the environment produces
    None          \* no commit, no process, no session

CallKinds == {"start", "put", "rebase", "commit", "drop"}
EnvKinds  == {"crash", "stall", "git", "io", "timeout", "gc", "user", "blind"}

ASSUME SessionAssumption ==
    /\ Main \in Ref
    /\ RefOf \in [Session -> Ref]
    /\ MaxCommits \in Nat
    /\ MaxCrashes \in Nat
    /\ Calls \subseteq CallKinds
    /\ Env \subseteq EnvKinds
    /\ Proc \cap V1 = {}
    /\ None \notin Proc \cup V1 \cup Session \cup Nat

CommitId == 0..MaxCommits
Opt(S)   == S \cup {None}

VARIABLES
    commits,   \* the object database: commit objects by id
    next,      \* the next commit id to be created
    ref,       \* the commit each ref names (None: the ref is unborn)
    index,     \* the facts in the shared git index
    work,      \* the facts in the shared working tree
    log,       \* .memhtml/sessions/<id>.json
    slock,     \* .memhtml/sessions/<id>.lock: the holder of each session's lock
    clock,     \* .memhtml/checkout.lock: the holder of the checkout lock
    pc,        \* where each process is
    job,       \* what each process holds in memory
    tried,     \* bound: the facts a put of each session was given, once each
    acked,     \* history: facts a put was answered for, less the dropped ones
    crashes    \* bound: kills so far

vars == <<commits, next, ref, index, work, log, slock, clock, pc, job, tried, acked, crashes>>
gitVars   == <<commits, next, ref>>
treeVars  == <<index, work>>
lockVars  == <<slock, clock>>

-----------------------------------------------------------------------------
(* Types *)

Log    == [base: CommitId, ops: SUBSET Fact, pending: Opt(CommitId)]
Commit == [anc: SUBSET CommitId, parent: Opt(CommitId), tree: SUBSET Fact,
           ops: SUBSET Fact, by: Opt(Session)]
Job    == [kind: CallKinds \cup {"none", "v1"}, s: Opt(Session), copy: Log,
           new: SUBSET Fact, expected: Opt(CommitId), built: Opt(CommitId)]

SessionPc == {"idle", "onto", "read", "held", "settle", "rollback", "landed", "unlanded",
              "prepare", "land", "sync", "swap", "unsync", "fail", "clear", "final",
              "replace", "dead"}
V1Pc      == {"idle", "staged", "dead"}

TypeOK ==
    /\ commits \in [CommitId -> Commit]
    /\ next \in 1..(MaxCommits + 1)
    /\ ref \in [Ref -> Opt(CommitId)]
    /\ ref[Main] \in CommitId
    /\ index \subseteq Fact
    /\ work \subseteq Fact
    /\ log \in [Session -> Log]
    /\ slock \in [Session -> Opt(Proc)]
    /\ clock \in Opt(Proc \cup V1)
    /\ pc \in [Proc \cup V1 -> SessionPc \cup V1Pc]
    /\ job \in [Proc \cup V1 -> Job]
    /\ tried \in [Session -> SUBSET Fact]
    /\ acked \in [Session -> SUBSET Fact]
    /\ crashes \in 0..MaxCrashes

-----------------------------------------------------------------------------
(* Git, as the plumbing asks it *)

EmptyLog == [base |-> 0, ops |-> {}, pending |-> None]
NoCommit == [anc |-> {}, parent |-> None, tree |-> {}, ops |-> {}, by |-> None]
NoJob    == [kind |-> "none", s |-> None, copy |-> EmptyLog, new |-> {},
             expected |-> None, built |-> None]

\* What git merge-base --is-ancestor reads: the commits reachable from a ref.
Reach(r) == IF ref[r] = None THEN {} ELSE commits[ref[r]].anc

HeadTree == commits[ref[Main]].tree
CheckedOut(r) == r = Main

\* git status --porcelain at the given paths: staged, modified or untracked.
DirtyAt(paths) == {f \in paths : \/ (f \in index) # (f \in HeadTree)
                                 \/ (f \in work) # (f \in index)}

\* git read-tree -m -u from to touches the paths the two trees disagree on, and
\* refuses the whole update when one of them holds uncommitted work: an entry the
\* working tree does not match, or an untracked file where one is to be written.
Differ(a, b)      == (a \ b) \cup (b \ a)
ReadTreeOK(a, b)  == \A f \in Differ(a, b) : (f \in work) = (f \in index)
ReadTree(a, b, S) == (S \ (a \ b)) \cup (b \ a)

MoveCheckout(from, to) ==
    LET a == commits[from].tree  b == commits[to].tree
    IN  /\ ReadTreeOK(a, b)
        /\ index' = ReadTree(a, b, index)
        /\ work'  = ReadTree(a, b, work)

NewCommit(parent, tree, ops, by) ==
    /\ next <= MaxCommits
    /\ commits' = [commits EXCEPT ![next] =
         [anc |-> commits[parent].anc \cup {next}, parent |-> parent,
          tree |-> tree, ops |-> ops, by |-> by]]
    /\ next' = next + 1

-----------------------------------------------------------------------------
Init ==
    /\ commits = [c \in CommitId |->
                    IF c = 0 THEN [NoCommit EXCEPT !.anc = {0}] ELSE NoCommit]
    /\ next = 1
    /\ ref = [r \in Ref |-> IF r = Main THEN 0 ELSE None]
    /\ index = {}
    /\ work = {}
    /\ log = [s \in Session |-> EmptyLog]
    /\ slock = [s \in Session |-> None]
    /\ clock = None
    /\ pc = [p \in Proc \cup V1 |-> "idle"]
    /\ job = [p \in Proc \cup V1 |-> NoJob]
    /\ tried = [s \in Session |-> {}]
    /\ acked = [s \in Session |-> {}]
    /\ crashes = 0

Goto(p, where) == pc' = [pc EXCEPT ![p] = where]

\* A call ends: the process answers and forgets what it held.
Done(p) == /\ Goto(p, "idle")
           /\ job' = [job EXCEPT ![p] = NoJob]

\* A release touches nothing another process took meanwhile.
ReleaseSession(p) == LET s == job[p].s
                     IN  slock' = [slock EXCEPT ![s] = IF @ = p THEN None ELSE @]
ReleaseCheckout(p) == clock' = IF clock = p THEN None ELSE clock

WriteLog(p, l) == log' = [log EXCEPT ![job[p].s] = l]
-----------------------------------------------------------------------------
(* Session calls.  A process reads the log without the lock (resumeSession), *)
(* takes the session's lock, and writes only if the log still holds the ops   *)
(* it read.  `copy` is what it read; `base` of a rebase or a start is the tip *)
(* read after it.                                                             *)

\* The tip a start or a rebase moves to; HEAD's commit while the ref is unborn.
UnbornTipFor(r) == ref[r]   \* mutant: no fallback
TipFor(r) == IF ref[r] = None THEN ref[Main] ELSE ref[r]

CallOf(s, kind, new) == [NoJob EXCEPT !.kind = kind, !.s = s, !.copy = log[s], !.new = new]

Read(p, s, kind) ==
    /\ pc[p] = "idle"
    /\ \/ /\ kind = "put"
          /\ \E f \in Fact \ tried[s] :
               /\ job' = [job EXCEPT ![p] = CallOf(s, kind, {f})]
               /\ tried' = [tried EXCEPT ![s] = @ \cup {f}]
       \/ /\ kind \in {"start", "rebase"}
          /\ job' = [job EXCEPT ![p] = CallOf(s, kind, {})]
          /\ UNCHANGED tried
       \/ /\ kind \in {"commit", "drop"}
          /\ log[s].ops # {} \/ log[s].pending # None
          /\ job' = [job EXCEPT ![p] = CallOf(s, kind, {})]
          /\ UNCHANGED tried
    /\ Goto(p, IF kind \in {"start", "rebase"} THEN "onto" ELSE "read")
    /\ UNCHANGED <<gitVars, treeVars, log, lockVars, acked, crashes>>

\* A rebase or a start resolves the tip it moves the session's base to.
Onto(p) ==
    /\ pc[p] = "onto"
    /\ job' = [job EXCEPT ![p].copy.base = TipFor(RefOf[job[p].s])]
    /\ Goto(p, "read")
    /\ UNCHANGED <<gitVars, treeVars, log, lockVars, tried, acked, crashes>>

\* readUnmoved: only the ops are compared.  startSession --force compares nothing.
AlwaysUnmoved(p) == TRUE   \* mutant: the log is not read again
Unmoved(p) == job[p].kind = "start" \/ log[job[p].s].ops = job[p].copy.ops

\* withSessionLock, then requireLogUnmoved under it.
TakeSession(p) ==
    /\ pc[p] = "read"
    /\ slock[job[p].s] = None
    /\ Unmoved(p)
    /\ slock' = [slock EXCEPT ![job[p].s] = p]
    /\ Goto(p, "held")
    /\ UNCHANGED <<gitVars, treeVars, log, clock, job, tried, acked, crashes>>

\* session.locked and session.moved: the call fails with nothing written.
WaitForSession(p) ==   \* mutant: the session's lock is waited for
    /\ pc[p] = "read" /\ slock[job[p].s] = None /\ ~Unmoved(p)
    /\ Done(p)
    /\ UNCHANGED <<gitVars, treeVars, log, lockVars, tried, acked, crashes>>
Refuse(p) ==
    /\ pc[p] = "read"
    /\ slock[job[p].s] # None \/ ~Unmoved(p)
    /\ Done(p)
    /\ UNCHANGED <<gitVars, treeVars, log, lockVars, tried, acked, crashes>>

Start(p) ==
    /\ pc[p] = "held" /\ job[p].kind = "start"
    /\ WriteLog(p, [EmptyLog EXCEPT !.base = job[p].copy.base])
    /\ acked' = [acked EXCEPT ![job[p].s] = {}]
    /\ ReleaseSession(p) /\ Done(p)
    /\ UNCHANGED <<gitVars, treeVars, clock, tried, crashes>>

\* saveSession writes the caller's session whole, its `pending` included.
Rebase(p) ==
    /\ pc[p] = "held" /\ job[p].kind = "rebase"
    /\ WriteLog(p, job[p].copy)
    /\ ReleaseSession(p) /\ Done(p)
    /\ UNCHANGED <<gitVars, treeVars, clock, tried, acked, crashes>>

\* appendOps: over a log that carries `pending`, settle it first.
AppendBeside(p, l) ==   \* mutant: the caller's `pending` is written back
    /\ WriteLog(p, [l EXCEPT !.ops = @ \cup job[p].new])
    /\ acked' = [acked EXCEPT ![job[p].s] = @ \cup job[p].new]
    /\ ReleaseSession(p) /\ Done(p)
    /\ UNCHANGED <<gitVars, treeVars, clock, tried, crashes>>
Append(p, l) ==
    /\ WriteLog(p, [l EXCEPT !.ops = @ \cup job[p].new, !.pending = None])
    /\ acked' = [acked EXCEPT ![job[p].s] = @ \cup job[p].new]
    /\ ReleaseSession(p) /\ Done(p)
    /\ UNCHANGED <<gitVars, treeVars, clock, tried, crashes>>

Put(p) ==
    /\ pc[p] = "held" /\ job[p].kind = "put"
    /\ log[job[p].s].pending = None
    /\ Append(p, job[p].copy)

PutSettled(p) ==
    /\ job[p].kind = "put"
    /\ \/ /\ pc[p] = "landed"
          /\ Append(p, [job[p].copy EXCEPT !.base = job[p].built, !.ops = {}])
       \/ /\ pc[p] = "unlanded"
          /\ Append(p, job[p].copy)

\* What a put settles is the stored log's `pending`; what a commit settles is
\* the `pending` of the session it was handed.
ToSettle(p) == IF job[p].kind = "put" THEN log[job[p].s].pending ELSE job[p].copy.pending

StartSettle(p) ==
    /\ pc[p] = "held" /\ job[p].kind \in {"put", "commit", "drop"}
    /\ ToSettle(p) # None
    /\ job' = [job EXCEPT ![p].built = ToSettle(p)]
    /\ Goto(p, "settle")
    /\ UNCHANGED <<gitVars, treeVars, log, lockVars, tried, acked, crashes>>

-----------------------------------------------------------------------------
(* settlePending, under the checkout lock *)

\* merge-base --is-ancestor pending ref.
TipIsPending(p) == ref[RefOf[job[p].s]] = job[p].built   \* mutant: landed only while the tip
HasLanded(p) == job[p].built \in Reach(RefOf[job[p].s])

Settle(p) ==
    /\ pc[p] = "settle"
    /\ clock = None
    /\ \/ /\ HasLanded(p)
          /\ Goto(p, "landed")
          /\ UNCHANGED clock
       \/ /\ ~HasLanded(p)
          /\ IF CheckedOut(RefOf[job[p].s])
             THEN Goto(p, "rollback") /\ clock' = p
             ELSE Goto(p, "unlanded") /\ UNCHANGED clock
       \/ /\ ~HasLanded(p) /\ "gc" \in Env   \* the object is pruned
          /\ Goto(p, "unlanded")
          /\ UNCHANGED clock
    /\ UNCHANGED <<gitVars, treeVars, log, slock, job, tried, acked, crashes>>

\* read-tree -m -u pending tip: undoes the checkout update where the index still
\* holds pending's version and the tip another.  A failure is only logged.
PendingParent(p) == commits[job[p].built].parent   \* mutant: roll back to pending^
NoRollback(p) == job[p].built                      \* mutant: leave the checkout as it is
RollbackTo(p) == ref[Main]

Rollback(p) ==
    /\ pc[p] = "rollback"
    /\ \/ MoveCheckout(job[p].built, RollbackTo(p))
       \/ /\ \/ "git" \in Env
             \/ ~ReadTreeOK(commits[job[p].built].tree, commits[RollbackTo(p)].tree)
          /\ UNCHANGED treeVars
    /\ ReleaseCheckout(p)
    /\ Goto(p, "unlanded")
    /\ UNCHANGED <<gitVars, log, slock, job, tried, acked, crashes>>

-----------------------------------------------------------------------------
(* commitSession: the numbered steps of commit.ts *)

Committing(p) == job[p].kind \in {"commit", "drop"}

\* 0. The pending commit had landed: answer `committed` for it and clear the log.
Recover(p) ==
    /\ pc[p] = "landed" /\ Committing(p)
    /\ WriteLog(p, [base |-> job[p].built, ops |-> {}, pending |-> None])
    /\ ReleaseSession(p) /\ Done(p)
    /\ UNCHANGED <<gitVars, treeVars, clock, tried, acked, crashes>>

\* 0. It had not: drop `pending` from the log and go on.
ForgetPending(p) ==
    /\ pc[p] = "unlanded" /\ Committing(p)
    /\ WriteLog(p, [job[p].copy EXCEPT !.pending = None])
    /\ job' = [job EXCEPT ![p].copy.pending = None, ![p].built = None]
    /\ Goto(p, "prepare")
    /\ UNCHANGED <<gitVars, treeVars, lockVars, tried, acked, crashes>>

SkipRecovery(p) ==
    /\ pc[p] = "held" /\ Committing(p)
    /\ job[p].copy.pending = None
    /\ Goto(p, "prepare")
    /\ UNCHANGED <<gitVars, treeVars, log, lockVars, job, tried, acked, crashes>>

\* The version the ops are judged against is the one at the session's base.
NoDuplicates(p) == {}   \* mutant: nothing is judged
Duplicates(p) == job[p].copy.ops \cap commits[job[p].copy.base].tree

\* 1. validateOps: a put whose fact the version already holds refuses the batch.
\*    --drop-refused goes on to take the refused ops out of the log.
Invalid(p) ==
    /\ pc[p] = "prepare" /\ Duplicates(p) # {}
    /\ IF job[p].kind = "drop"
       THEN /\ Goto(p, "replace")
            /\ UNCHANGED job
       ELSE Done(p)
    /\ ReleaseSession(p)
    /\ UNCHANGED <<gitVars, treeVars, log, clock, tried, acked, crashes>>

\* 2. The ref is at the validated version, or unborn.
AnyTip(p) == TRUE   \* mutant: a path-disjoint advance is let through
AtTip(p) == ref[RefOf[job[p].s]] \in {None, job[p].copy.base}

\* 2. It is not: rebase-needed.
RebaseNeeded(p) ==
    /\ pc[p] = "prepare" /\ Duplicates(p) = {}
    /\ ~AtTip(p)
    /\ ReleaseSession(p) /\ Done(p)
    /\ UNCHANGED <<gitVars, treeVars, log, clock, tried, acked, crashes>>

\* 2-5. Build the commit over its parent and record the intent in the log.
Build(p) ==
    /\ pc[p] = "prepare" /\ Duplicates(p) = {}
    /\ AtTip(p)
    /\ LET copy == job[p].copy
       IN  /\ NewCommit(copy.base, commits[copy.base].tree \cup copy.ops, copy.ops, job[p].s)
           /\ WriteLog(p, [copy EXCEPT !.pending = next])
    /\ job' = [job EXCEPT ![p].built = next, ![p].expected = ref[RefOf[job[p].s]]]
    /\ Goto(p, "land")
    /\ UNCHANGED <<ref, treeVars, lockVars, tried, acked, crashes>>

\* 6. landOnRef takes the checkout lock; the ref must still be as expected and
\*    the checkout clean at the commit's paths.
Land(p) ==
    /\ pc[p] = "land"
    /\ clock = None
    /\ LET r == RefOf[job[p].s]
       IN  \/ /\ ref[r] # job[p].expected
              /\ Goto(p, "clear")
              /\ UNCHANGED clock
           \/ /\ ref[r] = job[p].expected
              /\ CheckedOut(r) /\ DirtyAt(job[p].copy.ops) # {}
              /\ Goto(p, "clear")
              /\ UNCHANGED clock
           \/ /\ ref[r] = job[p].expected
              /\ CheckedOut(r) => DirtyAt(job[p].copy.ops) = {}
              /\ Goto(p, IF CheckedOut(r) THEN "sync" ELSE "swap")
              /\ clock' = p
    /\ UNCHANGED <<gitVars, treeVars, log, slock, job, tried, acked, crashes>>

\* checkout.locked: the wait for the checkout lock ran out.
LandTimeout(p) ==
    /\ "timeout" \in Env
    /\ pc[p] = "land" /\ clock # None
    /\ Goto(p, "clear")
    /\ UNCHANGED <<gitVars, treeVars, log, lockVars, job, tried, acked, crashes>>

\* The checkout follows before the ref moves.
Sync(p) ==
    /\ pc[p] = "sync"
    /\ \/ /\ MoveCheckout(job[p].copy.base, job[p].built)
          /\ Goto(p, "swap")
          /\ UNCHANGED lockVars /\ UNCHANGED job
       \/ /\ \/ "git" \in Env
             \/ ~ReadTreeOK(commits[job[p].copy.base].tree, commits[job[p].built].tree)
          /\ ReleaseCheckout(p) /\ ReleaseSession(p) /\ Done(p)
          /\ UNCHANGED treeVars
    /\ UNCHANGED <<gitVars, log, tried, acked, crashes>>

\* The compare-and-swap.
Swap(p) ==
    /\ pc[p] = "swap"
    /\ LET r == RefOf[job[p].s]
       IN  \/ /\ ref[r] = job[p].expected
              /\ ref' = [ref EXCEPT ![r] = job[p].built]
              /\ ReleaseCheckout(p)
              /\ Goto(p, "final")
           \/ /\ ref[r] # job[p].expected \/ "git" \in Env   \* or the ref's own lock was held
              /\ IF CheckedOut(r)
                 THEN Goto(p, "unsync") /\ UNCHANGED clock
                 ELSE Goto(p, "clear") /\ ReleaseCheckout(p)
              /\ UNCHANGED ref
    /\ UNCHANGED <<commits, next, treeVars, log, slock, job, tried, acked, crashes>>

\* update-ref failed as a process; the ref may have moved or not.  `fail` asks.
SwapFails(p) ==
    /\ "git" \in Env
    /\ pc[p] = "swap"
    /\ LET r == RefOf[job[p].s]
       IN  \/ UNCHANGED ref
          \/ /\ ref[r] = job[p].expected
             /\ ref' = [ref EXCEPT ![r] = job[p].built]
    /\ Goto(p, "fail")
    /\ UNCHANGED <<commits, next, treeVars, log, lockVars, job, tried, acked, crashes>>

CommitFails(p) == ReleaseCheckout(p) /\ ReleaseSession(p) /\ Done(p)

\* A failed swap that left the ref where it was rolls the checkout back; either
\* way the call fails with `pending` in the log.  A question git does not answer
\* ("blind") counts as not landed.
AfterFailureClears(p) ==   \* mutant: every failure clears the intent
    /\ pc[p] = "fail"
    /\ Goto(p, "clear") /\ ReleaseCheckout(p)
    /\ UNCHANGED <<gitVars, treeVars, log, slock, job, tried, acked, crashes>>
AfterFailure(p) ==
    /\ pc[p] = "fail"
    /\ LET r == RefOf[job[p].s]
           landed == job[p].built \in Reach(r)
       IN  \/ /\ CheckedOut(r) /\ (~landed \/ "blind" \in Env)
             /\ MoveCheckout(job[p].built, job[p].copy.base)
          \/ UNCHANGED treeVars
    /\ CommitFails(p)
    /\ UNCHANGED <<gitVars, log, tried, acked, crashes>>

\* A lost swap rolls the checkout back; a failure to is only logged.
Unsync(p) ==
    /\ pc[p] = "unsync"
    /\ \/ MoveCheckout(job[p].built, job[p].copy.base)
       \/ /\ \/ "git" \in Env
             \/ ~ReadTreeOK(commits[job[p].built].tree, commits[job[p].copy.base].tree)
          /\ UNCHANGED treeVars
    /\ ReleaseCheckout(p)
    /\ Goto(p, "clear")
    /\ UNCHANGED <<gitVars, log, slock, job, tried, acked, crashes>>

\* raced, worktree-dirty or checkout.locked: nothing moved, so the intent goes.
Clear(p) ==
    /\ pc[p] = "clear"
    /\ WriteLog(p, [job[p].copy EXCEPT !.pending = None])
    /\ ReleaseSession(p) /\ Done(p)
    /\ UNCHANGED <<gitVars, treeVars, clock, tried, acked, crashes>>

\* 7. The session sits on the commit it made, with an empty log.
Final(p) ==
    /\ pc[p] = "final"
    /\ WriteLog(p, [base |-> job[p].built, ops |-> {}, pending |-> None])
    /\ ReleaseSession(p) /\ Done(p)
    /\ UNCHANGED <<gitVars, treeVars, clock, tried, acked, crashes>>

\* replaceOps: keep what the refusal did not name, unless a `pending` appeared.
\* The process goes on to commit what it kept.
Kept(p) == job[p].copy.ops \ Duplicates(p)

Replace(p) ==
    /\ pc[p] = "replace"
    /\ slock[job[p].s] = None
    /\ Unmoved(p) /\ log[job[p].s].pending = None
    /\ LET kept == [job[p].copy EXCEPT !.ops = Kept(p), !.pending = None]
       IN  /\ WriteLog(p, kept)
           /\ IF kept.ops = {}
              THEN Done(p)
              ELSE /\ job' = [job EXCEPT ![p].copy = kept, ![p].built = None]
                   /\ Goto(p, "read")
    /\ acked' = [acked EXCEPT ![job[p].s] = @ \ Duplicates(p)]
    /\ UNCHANGED <<gitVars, treeVars, lockVars, tried, crashes>>

RefuseReplace(p) ==
    /\ pc[p] = "replace"
    /\ \/ slock[job[p].s] # None
       \/ ~Unmoved(p)
       \/ log[job[p].s].pending # None
    /\ Done(p)
    /\ UNCHANGED <<gitVars, treeVars, log, lockVars, tried, acked, crashes>>
-----------------------------------------------------------------------------
(* The v1 store: stage under the checkout lock, then commit the whole index *)

V1Stage(v) ==
    /\ pc[v] = "idle"
    /\ clock = None
    /\ \E f \in Fact \ (HeadTree \cup work) :
         /\ job' = [job EXCEPT ![v] = [NoJob EXCEPT !.kind = "v1", !.new = {f}]]
         /\ index' = index \cup {f}
         /\ work' = work \cup {f}
    /\ clock' = v
    /\ Goto(v, "staged")
    /\ UNCHANGED <<gitVars, log, slock, tried, acked, crashes>>

CommitIndex == /\ NewCommit(ref[Main], index, {}, None)
               /\ ref' = [ref EXCEPT ![Main] = next]

V1Commit(v) ==
    /\ pc[v] = "staged"
    /\ CommitIndex
    /\ ReleaseCheckout(v) /\ Done(v)
    /\ UNCHANGED <<treeVars, log, slock, tried, acked, crashes>>

\* A failed commit is compensated: the staged path is reset and its file removed.
V1Compensate(v) ==
    /\ pc[v] = "staged"
    /\ "git" \in Env
    /\ index' = index \ job[v].new
    /\ work' = work \ job[v].new
    /\ ReleaseCheckout(v) /\ Done(v)
    /\ UNCHANGED <<gitVars, log, slock, tried, acked, crashes>>

-----------------------------------------------------------------------------
(* The environment *)

\* A log write fails, or a git command that asks or builds, or the wait for the
\* checkout lock in a settle: the call fails and the session's lock goes.
Fails(p) ==
    /\ \/ "io" \in Env /\ pc[p] \in {"held", "landed", "unlanded", "prepare", "clear", "final"}
       \/ "git" \in Env /\ pc[p] \in {"settle", "landed", "prepare", "land"}
       \/ "timeout" \in Env /\ pc[p] = "settle" /\ clock # None
    /\ ReleaseSession(p) /\ Done(p)
    /\ UNCHANGED <<gitVars, treeVars, log, clock, tried, acked, crashes>>

\* A process is killed anywhere; the locks it held stay until they go stale.
Crash(p) ==
    /\ "crash" \in Env /\ crashes < MaxCrashes
    /\ pc[p] \notin {"idle", "dead"}
    /\ crashes' = crashes + 1
    /\ Goto(p, "dead")
    /\ job' = [job EXCEPT ![p] = NoJob]
    /\ UNCHANGED <<gitVars, treeVars, log, lockVars, tried, acked>>

\* A lock not refreshed for its stale time is reclaimed by the next taker.
Stale(p) == pc[p] = "dead" \/ "stall" \in Env

ReclaimSession(s) ==
    /\ slock[s] # None /\ Stale(slock[s])
    /\ slock' = [slock EXCEPT ![s] = None]
    /\ UNCHANGED <<gitVars, treeVars, log, clock, pc, job, tried, acked, crashes>>

ReclaimCheckout ==
    /\ clock # None /\ Stale(clock)
    /\ clock' = None
    /\ UNCHANGED <<gitVars, treeVars, log, slock, pc, job, tried, acked, crashes>>

\* A new process takes the place of a killed one.
Respawn(p) ==
    /\ pc[p] = "dead"
    /\ clock # p /\ \A s \in Session : slock[s] # p
    /\ Goto(p, "idle")
    /\ UNCHANGED <<gitVars, treeVars, log, lockVars, job, tried, acked, crashes>>

\* A person working in the checkout takes no lock.
User ==
    /\ "user" \in Env
    /\ \/ /\ \E f \in Fact : work' = work \cup {f}
          /\ UNCHANGED <<gitVars, index>>
       \/ /\ index' = work
          /\ UNCHANGED <<gitVars, work>>
       \/ /\ CommitIndex
          /\ UNCHANGED treeVars
    /\ UNCHANGED <<log, lockVars, pc, job, tried, acked, crashes>>

-----------------------------------------------------------------------------
Call(p) ==
    \/ Onto(p) \/ TakeSession(p) \/ Refuse(p)
    \/ Start(p) \/ Rebase(p) \/ Put(p) \/ PutSettled(p)
    \/ StartSettle(p) \/ Settle(p) \/ Rollback(p)
    \/ Recover(p) \/ ForgetPending(p) \/ SkipRecovery(p)
    \/ Invalid(p) \/ RebaseNeeded(p) \/ Build(p)
    \/ Land(p) \/ Sync(p) \/ Swap(p) \/ AfterFailure(p) \/ Unsync(p)
    \/ Clear(p) \/ Final(p) \/ Replace(p) \/ RefuseReplace(p)

Next ==
    \/ \E p \in Proc : \/ \E s \in Session, kind \in Calls : Read(p, s, kind)
                       \/ Call(p)
                       \/ LandTimeout(p) \/ SwapFails(p) \/ Fails(p)
    \/ \E v \in V1 : V1Stage(v) \/ V1Commit(v) \/ V1Compensate(v)
    \/ \E p \in Proc \cup V1 : Crash(p) \/ Respawn(p)
    \/ \E s \in Session : ReclaimSession(s)
    \/ ReclaimCheckout
    \/ User

Spec == Init /\ [][Next]_vars

-----------------------------------------------------------------------------
(* Properties *)

\* What session s has on its ref.
Landed(s) == UNION {commits[c].ops : c \in {d \in Reach(RefOf[s]) : commits[d].by = s}}

\* A put that was answered is in the log or on the ref, whoever else wrote the
\* log meanwhile and whoever was killed: no writer overwrites ops it did not
\* read, and a settled commit never takes unlanded ops with it (session.ts).
NoOpLost == \A s \in Session : acked[s] \subseteq log[s].ops \cup Landed(s)

\* A log that carries `pending` holds exactly the ops that commit was built from,
\* so clearing them when it turns out to have landed loses nothing.
PendingHoldsOps ==
    \A s \in Session : log[s].pending # None =>
        /\ commits[log[s].pending].ops = log[s].ops
        /\ commits[log[s].pending].by = s

\* Between the calls of one process at a time, ops still in a log although they
\* landed are there only beside the `pending` that names their commit: a killed
\* commit leaves a log the next call settles.
LandedOpsNamed ==
    \A s \in Session : log[s].ops \cap Landed(s) # {} =>
        log[s].pending # None /\ log[s].pending \in Reach(RefOf[s])

\* No commit refuses a session's ops as duplicates of themselves, which is what
\* `pending` is recorded for (session.ts:54): two racing processes break it.
NotItsOwnDuplicate ==
    \A p \in Proc : pc[p] = "prepare" => Duplicates(p) \cap Landed(job[p].s) = {}

\* A call that answers anything but `committed` landed nothing: a process about
\* to clear its intent built a commit that is on no ref and never will be.
UncommittedNotLanded ==
    \A p \in Proc : pc[p] = "clear" => job[p].built \notin Reach(RefOf[job[p].s])

\* The index never holds a staged deletion of a file the branch has: the next v1
\* commit would remove it from the branch.
NoStagedDeletion == HeadTree \subseteq index

\* A ref moves only to descendants of the commit it named: no writer, however it
\* lost its lock, throws away a commit another one landed.
RefsOnlyAdvance ==
    [][\A r \in Ref : ref[r] # None => ref'[r] # None /\ ref[r] \in commits'[ref'[r]].anc]_vars

\* A branch never loses a fact it held, whatever was killed half-way.
BranchKeepsFacts ==
    [][\A r \in Ref : ref[r] # None => commits[ref[r]].tree \subseteq commits'[ref'[r]].tree]_vars

\* Whenever nobody is in the critical section, what is staged and not on the
\* branch is what some log's unlanded `pending` names, so settling it undoes it.
StagedIsNamed ==
    clock = None =>
        index \ HeadTree \subseteq
            UNION {log[s].ops : s \in {t \in Session : log[t].pending # None}}

-----------------------------------------------------------------------------
(* The abstract specification, and the one liveness property *)

Ledger == INSTANCE SessionLedger WITH
    Restarts <- "start" \in Calls, Given <- {},
    branch <- [r \in Ref |-> IF ref[r] = None THEN {} ELSE commits[ref[r]].tree],
    open   <- [s \in Session |-> IF log[s].pending \in Reach(RefOf[s])
                                 THEN {} ELSE log[s].ops]

\* Appends, landings and drops happen as the ledger says, in one step each, whatever
\* is killed or fails between the steps they are made of: no op lands twice, and none
\* is given up that is on no branch.
ImplementsLedger == Ledger!Spec

\* A process that is not killed takes its next step.  Waiting for the checkout
\* lock is bounded, so a step is always enabled: the lock or the timeout.
Step(p) == Call(p) \/ LandTimeout(p) \/ SwapFails(p) \/ Fails(p)
FairSpec == Spec /\ \A p \in Proc : WF_vars(Step(p))

\* Every call ends, though it takes the session's lock and then the checkout's
\* while others do the same and holders die: the session lock is refused at once
\* and the checkout lock is waited for only so long.
EveryCallEnds ==
    \A p \in Proc : pc[p] # "idle" ~> pc[p] \in {"idle", "dead"} \/ next > MaxCommits
=============================================================================
