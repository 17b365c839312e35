----------------------------- MODULE CurateMerge -----------------------------
(***************************************************************************)
(* Landing a curator's branch (curateMerge and landReplay in               *)
(* apps/cli/src/v2.ts, reconstructOps in replay.ts), and the curators that *)
(* commit to that branch meanwhile (land in curate-run.ts, landOps in      *)
(* curate-collapse.ts).                                                    *)
(*                                                                         *)
(* `into` is the branch everybody writes to, `cur` the curate ref.  A      *)
(* merge fast-forwards `into` where the ref descends from it.  Where it    *)
(* does not, the curation's ops are rebuilt from two trees, judged over    *)
(* the tip of `into`, scored by the gate, landed as one session commit     *)
(* that is rebased while `into` moves, and the ref is moved after it.      *)
(*                                                                         *)
(* A commit is what its tree holds and the commits it descends from; one   *)
(* attempt of commitSession is one step (SessionCommit has its inside).    *)
(* The repoints and what an op may do to a tree are OverlayLog's.          *)
(***************************************************************************)
EXTENDS Naturals, Sequences, FiniteSets

CONSTANTS
    Fact,         \* memory files
    Curator,      \* curator sessions
    Merger,       \* calls of `curate merge`
    Env,          \* what else happens: a "hand" edit, a merge that can "fail"
    MaxCommits,   \* bound: commits, the first one included
    MaxAttempts,  \* MERGE_ATTEMPTS and COMMIT_ATTEMPTS: 8 in the code
    None

ASSUME MergeAssumption ==
    /\ {MaxCommits, MaxAttempts} \subseteq Nat \ {0}
    /\ Env \subseteq {"hand", "fail"}
    /\ None \notin Merger

VARIABLES
    commits,   \* every commit, in the order they were made
    into, cur, \* the refs, as places in `commits`; `cur` is 0 until a curator lands
    log,       \* the log of session merge-<sha>, for each tip a merge may replay
    curator,   \* each curator: the version it judges over, its ops, its attempts
    merger     \* each merge: where it is, what it has read, and the refs it has moved

vars == <<commits, into, cur, log, curator, merger>>

Last == Len(commits)
\* `copy`: puts at an archive slot, which only a reconstructed log holds.
NoOps == [put |-> {}, archive |-> {}, copy |-> {}]
Ops == [put : SUBSET Fact, archive : SUBSET Fact, copy : SUBSET Fact]
OneOp == {[NoOps EXCEPT !.put = {f}] : f \in Fact} \cup {[NoOps EXCEPT !.archive = {f}] : f \in Fact}
NoLog == [base |-> 0, ops |-> NoOps]
Waiting == [phase |-> "idle", base |-> 0, ops |-> NoOps, attempts |-> 0]
Unasked == [phase |-> "idle", to |-> 0, from |-> 0, ops |-> NoOps, sha |-> 0, attempts |-> 0,
            moved |-> {}]

-----------------------------------------------------------------------------
(* Commits. *)
Tree(n) == commits[n].tree
Descends(n, m) == m \in commits[n].past
TargetTip(n, m) == n   \* mutant: the two tips are compared, not the ref's tip and the base
MergeBase(n, m) == CHOOSE b \in commits[n].past \cap commits[m].past :
                     \A c \in commits[n].past \cap commits[m].past : c <= b

Commit(parent, tree, on, by, of) ==
    Append(commits, [past |-> commits[parent].past \cup {Last + 1}, parent |-> parent,
                     tree |-> tree, on |-> on, by |-> by, of |-> of])

After(tree, ops) ==
    [tree EXCEPT !.live = (@ \cup ops.put) \ ops.archive,
                 !.archived = @ \cup ops.archive \cup ops.copy]

\* What validateOps answers for: a path or an article already live, in the version or
\* in the batch, and an absent source.
Refused(tree, ops) ==
    \/ ops.put \cap tree.live # {}
    \/ ops.copy \cap (tree.live \cup ops.put) # {}
    \/ ~(ops.archive \subseteq tree.live)

\* reconstructOps over the trees at the merge base and at the ref's tip: a file gone
\* pairs with its new twin as an archive, and a twin that pairs with none stays a put.
Delta(before, after) ==
    LET archive == before.live \ after.live
    IN  [put |-> after.live \ before.live, archive |-> archive,
         copy |-> (after.archived \ before.archived) \ archive]

\* A change no operation makes: an article edited in place.
ByHand(before, after) == after.odd # before.odd

Init ==
    /\ \E live \in SUBSET Fact :
         commits = <<[past |-> {1}, parent |-> 0, on |-> "into", by |-> None, of |-> 0,
                      tree |-> [live |-> live, archived |-> {}, odd |-> {}]]>>
    /\ into = 1 /\ cur = 0
    /\ log = [t \in 1..MaxCommits |-> NoLog]
    /\ curator = [c \in Curator |-> Waiting]
    /\ merger = [m \in Merger |-> Unasked]

Unbounded(w) == FALSE   \* mutant: rebased for as long as the branch moves
Spent(w) == w.attempts = MaxAttempts

-----------------------------------------------------------------------------
(* The writers of the two refs. *)

\* curate run: a session over `into`, or over what the ref holds by now.
Curate(c) ==
    /\ curator[c].phase = "idle"
    /\ \E base \in {into, cur} \ {0}, ops \in OneOp :
         /\ ~Refused(Tree(base), ops) /\ ops.put \cap Tree(base).archived = {}
         /\ curator' = [curator EXCEPT ![c] =
              [phase |-> "land", base |-> base, ops |-> ops, attempts |-> 0]]
    /\ UNCHANGED <<commits, into, cur, log, merger>>

\* One attempt of `land`: judged over the version in hand, committed if the ref is
\* there or not born, else rebased onto the ref's tip.
CurateLands(c) ==
    /\ curator[c].phase = "land"
    /\ LET w == curator[c]
           refused == Refused(Tree(w.base), w.ops) \/ Spent(w)
       IN  \/ /\ refused
              /\ curator' = [curator EXCEPT ![c] = [Waiting EXCEPT !.phase = "done"]]
              /\ UNCHANGED <<commits, cur>>
           \/ /\ ~refused /\ cur \notin {0, w.base}
              /\ curator' = [curator EXCEPT ![c].base = cur, ![c].attempts = @ + 1]
              /\ UNCHANGED <<commits, cur>>
           \/ /\ ~refused /\ cur \in {0, w.base} /\ Last < MaxCommits
              /\ commits' = Commit(w.base, After(Tree(w.base), w.ops), "cur", None, 0)
              /\ cur' = Last + 1
              /\ curator' = [curator EXCEPT ![c] = [Waiting EXCEPT !.phase = "done"]]
    /\ UNCHANGED <<into, log, merger>>

\* A person edits an article on the curate ref.
Hand(f) ==
    /\ "hand" \in Env /\ cur # 0 /\ Last < MaxCommits
    /\ f \in Tree(cur).live \ Tree(cur).odd
    /\ commits' = Commit(cur, [Tree(cur) EXCEPT !.odd = @ \cup {f}], "cur", None, 0)
    /\ cur' = Last + 1
    /\ UNCHANGED <<into, log, curator, merger>>

\* A session or a v1 write lands on `into`.
Other(f) ==
    /\ Last < MaxCommits /\ f \notin Tree(into).archived
    /\ LET ops == IF f \in Tree(into).live THEN [NoOps EXCEPT !.archive = {f}]
                  ELSE [NoOps EXCEPT !.put = {f}]
       IN  commits' = Commit(into, After(Tree(into), ops), "into", None, 0)
    /\ into' = Last + 1
    /\ UNCHANGED <<cur, log, curator, merger>>

-----------------------------------------------------------------------------
(* curate merge. *)
Answer(m, answer) == merger' = [merger EXCEPT ![m].phase = answer]

\* A step that moved a ref to `sha` goes on to `next`, or fails with the ref moved:
\* update-ref failed as a process, the log was not written after it, or a kill.
Moves(m, name, sha, next) ==
    \E phase \in {next} \cup (IF "fail" \in Env THEN {"failed"} ELSE {}) :
        merger' = [merger EXCEPT ![m].phase = phase, ![m].sha = sha, ![m].moved = @ \cup {name}]

ReadRef(m) ==
    /\ merger[m].phase = "idle" /\ cur # 0
    /\ merger' = [merger EXCEPT ![m].phase = "asked", ![m].to = cur]
    /\ UNCHANGED <<commits, into, cur, log, curator>>

\* The tip of `into`, which of the two landings it is, and for a replay the ops, or
\* the refusal a hand-written change earns; the replay's session starts by force.
ReadInto(m) ==
    /\ merger[m].phase = "asked"
    /\ LET to == merger[m].to
           base == Tree(MergeBase(into, to))
       IN  \/ /\ Descends(to, into)
              /\ merger' = [merger EXCEPT ![m].phase = "gate", ![m].from = into]
              /\ UNCHANGED log
           \/ /\ ~Descends(to, into) /\ ByHand(base, Tree(to))
              /\ Answer(m, "refused")
              /\ UNCHANGED log
           \/ /\ ~Descends(to, into) /\ ~ByHand(base, Tree(to))
              /\ merger' = [merger EXCEPT ![m].phase = "append", ![m].from = into,
                                          ![m].ops = Delta(base, Tree(to))]
              /\ log' = [log EXCEPT ![to] = [base |-> into, ops |-> NoOps]]
    /\ UNCHANGED <<commits, into, cur, curator>>

\* appendOps, then validateOps over the tip that was read.
AppendAndJudge(m) ==
    /\ merger[m].phase = "append"
    /\ LET w == merger[m]
       IN  IF log[w.to].ops # NoOps THEN Answer(m, "refused") /\ UNCHANGED log
           ELSE /\ log' = [log EXCEPT ![w.to].ops = w.ops]
                /\ Answer(m, IF Refused(Tree(w.from), w.ops) THEN "refused" ELSE "gate")
    /\ UNCHANGED <<commits, into, cur, curator>>

IsReplay(m) == ~Descends(merger[m].to, merger[m].from)
Gate(m) ==
    /\ merger[m].phase = "gate"
    /\ \/ Answer(m, IF IsReplay(m) THEN "replay" ELSE "forward")
       \/ Answer(m, "refused")
    /\ UNCHANGED <<commits, into, cur, log, curator>>

\* landOnRef with `from` as the value to swap.
ForwardUnasked(m) ==   \* mutant: the ref is set, not swapped
    /\ merger[m].phase = "forward"
    /\ into' = merger[m].to /\ Moves(m, "into", merger[m].to, "moved")
    /\ UNCHANGED <<commits, cur, log, curator>>
Forward(m) ==
    /\ merger[m].phase = "forward"
    /\ LET w == merger[m]
       IN  \/ w.from = w.to /\ Answer(m, "unmoved") /\ UNCHANGED into
           \/ w.from # w.to /\ into # w.from /\ Answer(m, "refused") /\ UNCHANGED into
           \/ w.from # w.to /\ into = w.from /\ into' = w.to /\ Moves(m, "into", merger[m].to, "moved")
    /\ UNCHANGED <<commits, cur, log, curator>>

\* One attempt of landReplay.  The log is emptied once the commit has landed; where the
\* merge fails in between it keeps its ops, which the next merge of the tip discards.
Rebased(m) == [merger EXCEPT ![m].from = into, ![m].attempts = @ + 1]
ReplayOver(n, ops) == After(Tree(n), ops)
Replay(m) ==
    /\ merger[m].phase = "replay"
    /\ LET w == merger[m]
           stale == log[w.to].ops # w.ops
           refused == stale \/ Refused(Tree(w.from), w.ops) \/ Spent(w)
       IN  \/ refused /\ Answer(m, "refused") /\ UNCHANGED <<commits, into, log>>
           \/ /\ ~refused /\ into # w.from
              /\ merger' = Rebased(m)
              /\ log' = [log EXCEPT ![w.to].base = into]
              /\ UNCHANGED <<commits, into>>
           \/ /\ ~refused /\ into = w.from /\ Last < MaxCommits
              /\ commits' = Commit(w.from, ReplayOver(w.from, w.ops), "into", m, w.to)
              /\ into' = Last + 1
              /\ Moves(m, "into", Last + 1, "follow")
              /\ log' = IF merger'[m].phase = "failed" THEN log
                        ELSE [log EXCEPT ![w.to] = [base |-> Last + 1, ops |-> NoOps]]
    /\ UNCHANGED <<cur, curator>>

\* The curate ref follows its replay, unless a curator moved it meanwhile.
FollowOrRefuse(m) ==   \* mutant: the ref that moved meanwhile is refused
    /\ merger[m].phase = "follow"
    /\ IF cur = merger[m].to THEN cur' = merger[m].sha /\ Moves(m, "cur", merger[m].sha, "moved")
       ELSE Answer(m, "refused") /\ UNCHANGED cur
    /\ UNCHANGED <<commits, into, log, curator>>
Follow(m) ==
    /\ merger[m].phase = "follow"
    /\ IF cur = merger[m].to THEN cur' = merger[m].sha /\ Moves(m, "cur", merger[m].sha, "moved")
       ELSE Answer(m, "moved") /\ UNCHANGED cur
    /\ UNCHANGED <<commits, into, log, curator>>

\* A git call, a load or a write of the log fails, or the process is killed, and the
\* step it was at has moved nothing.  In "follow" the replay has landed by then.
Fails(m) ==
    /\ "fail" \in Env
    /\ merger[m].phase \in {"asked", "append", "gate", "replay", "forward", "follow"}
    /\ Answer(m, "failed")
    /\ UNCHANGED <<commits, into, cur, log, curator>>

Next ==
    \/ \E c \in Curator : Curate(c) \/ CurateLands(c)
    \/ \E f \in Fact : Hand(f) \/ Other(f)
    \/ \E m \in Merger : \/ ReadRef(m) \/ ReadInto(m) \/ AppendAndJudge(m) \/ Gate(m)
                         \/ Forward(m) \/ Replay(m) \/ Follow(m) \/ Fails(m)

Spec == Init /\ [][Next]_vars

-----------------------------------------------------------------------------
\* The variables have their types, the refs name commits, and no landing is retried past
\* its bound.
MergeTypeOK ==
    /\ into \in 1..Last /\ cur \in 0..Last
    /\ \A n \in 1..Last : /\ commits[n].parent \in 0..(n - 1)
                         /\ Tree(n).live \subseteq Fact /\ Tree(n).odd \subseteq Fact
    /\ log \in [1..MaxCommits -> [base : 0..Last, ops : Ops]]
    /\ \A c \in Curator : curator[c].attempts \in 0..MaxAttempts
    /\ \A m \in Merger : merger[m].attempts \in 0..MaxAttempts /\ merger[m].ops \in Ops

\* Where n's work is on `into`: n itself, or a replay of a tip that descends from it.
Landed(n) == \E l \in commits[into].past :
                l = n \/ (commits[l].of # 0 /\ Descends(commits[l].of, n))

\* No commit is lost, whoever moves a ref between another's read of it and its swap:
\* what was committed on `into` stays under it, and what was committed on the curate
\* ref stays under it until it has landed.
NothingLost ==
    \A n \in 1..Last :
        IF commits[n].on = "into" THEN Descends(into, n) ELSE Descends(cur, n) \/ Landed(n)

\* A replay is a three-way merge without conflicts: a file the curation left as it
\* was at the fork is as `into` has it by the landing, and any other is as the
\* curation has it, however often the landing was rebased.
Merged(ours, base, theirs) == (ours \ (base \ theirs)) \cup (theirs \ base)
Fork(p, t) == {b \in commits[p].past \cap commits[t].past :
                 \A c \in commits[p].past \cap commits[t].past : c <= b}
ThreeWay ==
    \A n \in 1..Last : commits[n].by # None =>
        LET p == commits[n].parent
            t == commits[n].of
        IN  \A b \in Fork(p, t) :
              /\ Tree(n).live = Merged(Tree(p).live, Tree(b).live, Tree(t).live)
              /\ Tree(n).archived = Merged(Tree(p).archived, Tree(b).archived, Tree(t).archived)

\* What a merge answers is what it did: a refusal and `moved: false` left both refs
\* alone, a landing is on `into`, and a merge that failed moved nothing or has landed
\* whole and once.  The curate ref goes only where `into` has gone first.
AnswersWhatItMoved ==
    \A m \in Merger :
        LET w == merger[m]
            own == {n \in 1..Last : commits[n].by = m}
        IN  /\ w.phase \in {"refused", "unmoved"} => w.moved = {}
            /\ w.phase = "moved" => "into" \in w.moved
            /\ "cur" \in w.moved => own # {}
            /\ own # {} => "into" \in w.moved /\ own = {w.sha}
            /\ w.moved # {} => Descends(into, w.sha)
=============================================================================
