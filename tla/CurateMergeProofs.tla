------------------------- MODULE CurateMergeProofs -------------------------
(***************************************************************************)
(* What landing a curator's branch guarantees, proved for every number of  *)
(* curators, merges, files, commits and attempts, with TLAPS.              *)
(***************************************************************************)
EXTENDS CurateMerge, TLAPS, WellFoundedInduction

Trees == [live : SUBSET Fact, archived : SUBSET Fact, odd : SUBSET Fact]
Commits == [past : SUBSET Nat, parent : Nat, tree : Trees, on : {"into", "cur"},
            by : Merger \cup {None}, of : Nat]
Curators(n) == [phase : {"idle", "land", "done"}, base : 0..n, ops : Ops,
                attempts : 0..MaxAttempts]
Phases == {"idle", "asked", "append", "gate", "replay", "forward", "follow",
           "moved", "unmoved", "refused", "failed"}
Mergers(n) == [phase : Phases, to : 0..n, from : 0..n, ops : Ops, sha : 0..n,
               attempts : 0..MaxAttempts, moved : SUBSET {"into", "cur"}]
Logs(n) == [base : 0..n, ops : Ops]

\* A commit is the newest of the commits it descends from, and a merge's commit is
\* made over one commit and stands for another.
CommitOK(n) ==
    /\ commits[n].past \subseteq 1..n /\ {1, n} \subseteq commits[n].past
    /\ commits[n].parent < n /\ commits[n].of < n
    /\ commits[n].by # None => commits[n].of # 0 /\ commits[n].parent # 0
CommitsOK == /\ commits \in Seq(Commits) /\ Last \in 1..MaxCommits
             /\ \A n \in 1..Last : CommitOK(n)

\* A call that is past its reads names the commits it read.
CuratorOK(c) == c.phase = "land" => c.base # 0
MergerOK(w) == /\ w.phase # "idle" => w.to # 0
               /\ w.phase \in {"append", "gate", "replay", "forward"} => w.from # 0
               /\ w.phase = "follow" => w.sha # 0
CallsOK == /\ into \in 1..Last /\ cur \in 0..Last
           /\ log \in [1..MaxCommits -> Logs(Last)]
           /\ curator \in [Curator -> Curators(Last)]
           /\ merger \in [Merger -> Mergers(Last)]
           /\ \A c \in Curator : CuratorOK(curator[c])
           /\ \A m \in Merger : MergerOK(merger[m])
Typed == CommitsOK /\ CallsOK

-----------------------------------------------------------------------------
(* What a step may add to the history: one commit, over the tip of a ref or, for
   a curator whose ref is not born, over the version it judged. *)
Added(parent, tree, on, by, of) ==
    /\ parent \in 1..Last /\ Last < MaxCommits /\ Last' = Last + 1
    /\ commits' \in Seq(Commits)
    /\ \A n \in 1..Last : commits'[n] = commits[n]
    /\ commits'[Last + 1] = [past |-> commits[parent].past \cup {Last + 1}, parent |-> parent,
                             tree |-> tree, on |-> on, by |-> by, of |-> of]
    /\ \A n \in 1..Last + 1 : CommitOK(n)'

LEMMA CommitAdds ==
    ASSUME CommitsOK, Last < MaxCommits, NEW parent \in 1..Last, NEW tree \in Trees,
           NEW on \in {"into", "cur"}, NEW by \in Merger \cup {None}, NEW of \in 0..Last,
           by # None => of # 0, commits' = Commit(parent, tree, on, by, of)
    PROVE  Added(parent, tree, on, by, of)
<1>. DEFINE new == [past |-> commits[parent].past \cup {Last + 1}, parent |-> parent,
                    tree |-> tree, on |-> on, by |-> by, of |-> of]
<1>1. Last \in Nat /\ commits \in Seq(Commits) /\ commits' = Append(commits, new)
  BY DEF CommitsOK, Last, Commit
<1>2. commits[parent].past \subseteq 1..parent /\ 1 \in commits[parent].past
  BY DEF CommitsOK, CommitOK
<1>3. new \in Commits
  BY <1>1, <1>2 DEF Commits
<1>4. Last' = Last + 1 /\ commits' \in Seq(Commits)
  BY <1>1, <1>3 DEF Last
<1>5. \A n \in 1..Last : commits'[n] = commits[n]
  BY <1>1, <1>3 DEF Last
<1>6. commits'[Last + 1] = new
  BY <1>1, <1>3 DEF Last
<1>7. ASSUME NEW n \in 1..Last PROVE CommitOK(n)'
  BY <1>5 DEF CommitsOK, CommitOK
<1>8. ASSUME NEW n, n = Last + 1 PROVE CommitOK(n)'
  <2>1. parent \in Nat /\ parent # 0 /\ parent < Last + 1 /\ of < Last + 1
    BY <1>1
  <2>2. commits[parent].past \cup {Last + 1} \subseteq 1..Last + 1
    BY <1>1, <1>2
  <2>3. {1, Last + 1} \subseteq commits[parent].past \cup {Last + 1}
    BY <1>2
  <2>. QED BY <1>6, <1>8, <2>1, <2>2, <2>3 DEF CommitOK
<1>9. \A n \in 1..Last + 1 : n \in 1..Last \/ n = Last + 1
  BY <1>1
<1>10. \A n \in 1..Last + 1 : CommitOK(n)'
  BY <1>7, <1>8, <1>9
<1>. QED BY <1>4, <1>5, <1>6, <1>10 DEF Added

\* What an operation leaves is a tree.
LEMMA AfterTyped == ASSUME NEW tree \in Trees, NEW ops \in Ops
                    PROVE  After(tree, ops) \in Trees
  BY DEF Trees, Ops, After

LEMMA TreeTyped == ASSUME CommitsOK, NEW n \in 1..Last PROVE Tree(n) \in Trees
<1>1. commits[n] \in Commits
  BY DEF CommitsOK, Last
<1>. QED BY <1>1 DEF Tree, Commits

LEMMA OpsTyped == /\ NoOps \in Ops
                  /\ \A f \in Fact : [NoOps EXCEPT !.put = {f}] \in Ops
                                     /\ [NoOps EXCEPT !.archive = {f}] \in Ops
                  /\ OneOp \subseteq Ops
                  /\ \A b \in Trees, t \in Trees : Delta(b, t) \in Ops
  BY DEF NoOps, Ops, OneOp, Delta, Trees

\* Each action that commits, and what it commits.
CurateCommits(c) == /\ cur \in {0, curator[c].base}
                    /\ Added(curator[c].base, After(Tree(curator[c].base), curator[c].ops), "cur", None, 0)
                    /\ cur' = Last + 1
HandCommits(f) == /\ cur # 0
                  /\ Added(cur, [Tree(cur) EXCEPT !.odd = @ \cup {f}], "cur", None, 0)
                  /\ cur' = Last + 1
OtherCommits == \E ops \in Ops : Added(into, After(Tree(into), ops), "into", None, 0)
ReplayCommits(m) == /\ merger[m].phase = "replay" /\ into = merger[m].from
                    /\ Added(into, After(Tree(into), merger[m].ops), "into", m, merger[m].to)
                    /\ into' = Last + 1
                    /\ merger'[m].phase \in {"follow", "failed"} /\ merger'[m].sha = Last + 1
                    /\ merger'[m].to = merger[m].to
                    /\ merger'[m].moved = merger[m].moved \cup {"into"}

LEMMA CuratorTyped == ASSUME Typed, NEW c \in Curator
                      PROVE  /\ curator[c].phase \in {"idle", "land", "done"}
                             /\ curator[c].base \in 0..Last /\ curator[c].ops \in Ops
                             /\ curator[c].attempts \in 0..MaxAttempts
                             /\ curator[c].phase = "land" => curator[c].base \in 1..Last
<1>1. curator[c] \in Curators(Last) /\ CuratorOK(curator[c]) /\ Last \in Nat
  BY DEF Typed, CallsOK, CommitsOK
<1>. QED BY <1>1 DEF Curators, CuratorOK

LEMMA MergerTyped == ASSUME Typed, NEW m \in Merger
                     PROVE  /\ merger[m].phase \in Phases /\ merger[m].ops \in Ops
                            /\ merger[m].to \in 0..Last /\ merger[m].from \in 0..Last
                            /\ merger[m].sha \in 0..Last /\ merger[m].attempts \in 0..MaxAttempts
                            /\ merger[m].phase # "idle" => merger[m].to \in 1..Last
                            /\ merger[m].phase \in {"append", "gate", "replay", "forward"} =>
                                 merger[m].from \in 1..Last
                            /\ merger[m].phase = "follow" => merger[m].sha \in 1..Last
<1>1. merger[m] \in Mergers(Last) /\ MergerOK(merger[m]) /\ Last \in Nat
  BY DEF Typed, CallsOK, CommitsOK
<1>. QED BY <1>1 DEF Mergers, MergerOK

LEMMA MovesSays == ASSUME Typed, NEW m \in Merger, NEW name, NEW sha, NEW next,
                          Moves(m, name, sha, next)
                   PROVE  /\ merger'[m].phase \in {next, "failed"} /\ merger'[m].sha = sha
                          /\ merger'[m].moved = merger[m].moved \cup {name}
                          /\ merger'[m].to = merger[m].to
<1>1. merger \in [Merger -> Mergers(Last)] /\ merger[m] \in Mergers(Last)
  BY DEF Typed, CallsOK
<1>2. PICK phase \in {next, "failed"} :
        merger' = [merger EXCEPT ![m].phase = phase, ![m].sha = sha, ![m].moved = @ \cup {name}]
  BY DEF Moves
<1>3. merger'[m] = [merger[m] EXCEPT !.phase = phase, !.sha = sha, !.moved = @ \cup {name}]
  BY <1>1, <1>2
<1>. QED BY <1>1, <1>3 DEF Mergers

LEMMA AnswerSays == ASSUME Typed, NEW m \in Merger, NEW answer, Answer(m, answer)
                    PROVE  /\ merger'[m].phase = answer /\ merger'[m].sha = merger[m].sha
                           /\ merger'[m].moved = merger[m].moved
<1>1. merger \in [Merger -> Mergers(Last)] /\ merger[m] \in Mergers(Last)
  BY DEF Typed, CallsOK
<1>2. merger'[m] = [merger[m] EXCEPT !.phase = answer]
  BY <1>1 DEF Answer
<1>. QED BY <1>1, <1>2 DEF Mergers

\* The ways a merge that swaps ends.
LEMMA SwapsSay == ASSUME Typed, NEW m \in Merger
                  PROVE  /\ Forward(m) =>
                              \/ /\ merger'[m].phase \in {"unmoved", "refused"}
                                 /\ merger'[m].sha = merger[m].sha /\ merger'[m].moved = merger[m].moved
                              \/ /\ merger'[m].phase \in {"moved", "failed"} /\ into' = merger[m].to
                                 /\ merger'[m].sha = merger[m].to
                                 /\ merger'[m].moved = merger[m].moved \cup {"into"}
                         /\ Follow(m) =>
                              /\ merger'[m].phase \in {"moved", "failed"}
                              /\ merger'[m].sha = merger[m].sha
                              /\ merger'[m].moved \in {merger[m].moved, merger[m].moved \cup {"cur"}}
<1>1. CASE Forward(m) /\ Moves(m, "into", merger[m].to, "moved") /\ into' = merger[m].to
  <2>1. /\ merger'[m].phase \in {"moved", "failed"} /\ merger'[m].sha = merger[m].to
        /\ merger'[m].moved = merger[m].moved \cup {"into"}
    BY <1>1, MovesSays
  <2>. QED BY <1>1, <2>1 DEF Forward, Follow
<1>2. CASE Forward(m) /\ (Answer(m, "unmoved") \/ Answer(m, "refused"))
  BY <1>2, AnswerSays DEF Forward, Follow
<1>3. CASE Follow(m) /\ Moves(m, "cur", merger[m].sha, "moved")
  <2>1. /\ merger'[m].phase \in {"moved", "failed"} /\ merger'[m].sha = merger[m].sha
        /\ merger'[m].moved = merger[m].moved \cup {"cur"}
    BY <1>3, MovesSays
  <2>. QED BY <1>3, <2>1 DEF Forward, Follow
<1>4. CASE Follow(m) /\ Answer(m, "moved")
  BY <1>4, AnswerSays DEF Forward, Follow
<1>. QED BY <1>1, <1>2, <1>3, <1>4 DEF Forward, Follow

LEMMA CurateLandsAdds ==
    ASSUME Typed, NEW c \in Curator, CurateLands(c)
    PROVE  (UNCHANGED <<commits, cur>>) \/ CurateCommits(c)
<1>1. CASE UNCHANGED <<commits, cur>>
  BY <1>1
<1>2. CASE /\ cur \in {0, curator[c].base} /\ Last < MaxCommits /\ cur' = Last + 1
           /\ commits' = Commit(curator[c].base, After(Tree(curator[c].base), curator[c].ops),
                                "cur", None, 0)
  <2>1. curator[c].base \in 1..Last /\ curator[c].ops \in Ops
    BY CuratorTyped DEF CurateLands
  <2>2. After(Tree(curator[c].base), curator[c].ops) \in Trees /\ 0 \in 0..Last
    BY <2>1, TreeTyped, AfterTyped DEF Typed, CommitsOK
  <2>. QED BY <1>2, <2>1, <2>2, CommitAdds DEF Typed, CurateCommits
<1>. QED BY <1>1, <1>2 DEF CurateLands

LEMMA HandAdds == ASSUME Typed, NEW f \in Fact, Hand(f) PROVE HandCommits(f)
<1>1. cur \in 1..Last /\ 0 \in 0..Last
  BY DEF Hand, Typed, CallsOK, CommitsOK
<1>2. [Tree(cur) EXCEPT !.odd = @ \cup {f}] \in Trees
  BY <1>1, TreeTyped DEF Typed, Trees
<1>. QED BY <1>1, <1>2, CommitAdds DEF Hand, HandCommits, Typed

LEMMA OtherAdds == ASSUME Typed, NEW f \in Fact, Other(f)
                   PROVE  OtherCommits /\ into' = Last + 1
<1>1. PICK ops \in Ops : commits' = Commit(into, After(Tree(into), ops), "into", None, 0)
  BY OpsTyped DEF Other
<1>2. into \in 1..Last /\ 0 \in 0..Last
  BY DEF Typed, CallsOK, CommitsOK
<1>3. After(Tree(into), ops) \in Trees
  BY <1>2, TreeTyped, AfterTyped DEF Typed
<1>. QED BY <1>1, <1>2, <1>3, CommitAdds DEF Other, OtherCommits, Typed

LEMMA ReplayAdds == ASSUME Typed, NEW m \in Merger, Replay(m)
                    PROVE  \/ UNCHANGED <<commits, into>>
                           \/ ReplayCommits(m)
<1>1. CASE UNCHANGED <<commits, into>>
  BY <1>1
<1>2. CASE /\ into = merger[m].from /\ Last < MaxCommits /\ into' = Last + 1
           /\ commits' = Commit(merger[m].from, ReplayOver(merger[m].from, merger[m].ops),
                                "into", m, merger[m].to)
           /\ Moves(m, "into", Last + 1, "follow")
  <2>1. into \in 1..Last /\ merger[m].to \in 1..Last /\ merger[m].ops \in Ops
    BY MergerTyped DEF Replay, Typed, CallsOK
  <2>2. After(Tree(into), merger[m].ops) \in Trees
    BY <2>1, TreeTyped, AfterTyped DEF Typed
  <2>3. Added(into, After(Tree(into), merger[m].ops), "into", m, merger[m].to)
    BY <1>2, <2>1, <2>2, CommitAdds DEF Typed, ReplayOver
  <2>4. /\ merger'[m].phase \in {"follow", "failed"} /\ merger'[m].sha = Last + 1
        /\ merger'[m].to = merger[m].to
        /\ merger'[m].moved = merger[m].moved \cup {"into"}
    BY <1>2, MovesSays, Zenon
  <2>. QED BY <1>2, <2>3, <2>4 DEF ReplayCommits, Replay
<1>. QED BY <1>1, <1>2 DEF Replay


-----------------------------------------------------------------------------
(* The merge base: two commits have the first in common, and so a latest one. *)
LEMMA Greatest == ASSUME NEW n \in Nat, NEW S, S \subseteq 1..n, S # {}
                  PROVE  \E b \in S : \A c \in S : c <= b
<1>. DEFINE T == {n - x : x \in S}
            less == {ss \in Nat \X Nat : ss[1] < ss[2]}
<1>1. IsWellFoundedOn(less, Nat)
  BY NatLessThanWellFounded DEF OpToRel
<1>2. T \subseteq Nat /\ T # {}
  <2>1. \A x \in S : n - x \in Nat
    OBVIOUS
  <2>2. PICK x \in S : TRUE
    OBVIOUS
  <2>. QED BY <2>1, <2>2
<1>3. PICK x \in T : \A y \in T : ~(<<y, x>> \in less)
  <2>. HIDE DEF T, less
  <2>. QED BY <1>1, <1>2, WFMin
<1>4. PICK b \in S : x = n - b
  BY <1>3
<1>5. ASSUME NEW c \in S PROVE c <= b
  <2>1. n - c \in T /\ n - c \in Nat /\ x \in Nat
    BY <1>2
  <2>2. ~(n - c < x)
    BY <1>3, <2>1
  <2>. QED BY <1>4, <2>2
<1>. QED BY <1>5
LEMMA BaseIsLast ==
    ASSUME CommitsOK, NEW n \in 1..Last, NEW m \in 1..Last
    PROVE  MergeBase(n, m) \in Fork(n, m) /\ MergeBase(n, m) \in 1..Last
<1>. DEFINE S == commits[n].past \cap commits[m].past
<1>1. S \subseteq 1..n /\ S # {} /\ n \in Nat /\ Last \in Nat
  BY DEF CommitsOK, CommitOK
<1>2. \E b \in S : \A c \in S : c <= b
  BY <1>1, Greatest
<1>3. MergeBase(n, m) \in S /\ \A c \in S : c <= MergeBase(n, m)
  BY <1>2 DEF MergeBase
<1>. QED BY <1>1, <1>3 DEF Fork

-----------------------------------------------------------------------------
(* Types. *)
LEMMA AddedTyped == ASSUME CommitsOK, NEW p, NEW t, NEW o, NEW b, NEW f, Added(p, t, o, b, f)
                    PROVE  CommitsOK' /\ Last' = Last + 1 /\ Last \in Nat
  BY MergeAssumption DEF Added, CommitsOK

LEMMA Wider == ASSUME NEW n \in Nat, NEW k \in Nat, n <= k
               PROVE  /\ Curators(n) \subseteq Curators(k) /\ Mergers(n) \subseteq Mergers(k)
                      /\ Logs(n) \subseteq Logs(k)
  BY DEF Curators, Mergers, Logs

\* One call of each kind, or one log, is replaced by one that has its type.
OneCurator(n) == \/ UNCHANGED curator
                 \/ \E c \in Curator, w \in Curators(n) :
                      CuratorOK(w) /\ curator' = [curator EXCEPT ![c] = w]
OneMerger(n) == \/ UNCHANGED merger
                \/ \E m \in Merger, w \in Mergers(n) :
                     MergerOK(w) /\ merger' = [merger EXCEPT ![m] = w]
OneLog(n) == UNCHANGED log \/ \E t \in 1..MaxCommits, l \in Logs(n) : log' = [log EXCEPT ![t] = l]

LEMMA TypedCalls ==
    ASSUME Typed, CommitsOK', NEW n \in Nat, n = Last', Last <= Last',
           into' \in 1..Last', cur' \in 0..Last', OneCurator(n), OneMerger(n), OneLog(n)
    PROVE  Typed'
<1>1. Last \in Nat /\ Last' \in Nat
  BY DEF Typed, CommitsOK
<1>2. /\ curator \in [Curator -> Curators(n)] /\ merger \in [Merger -> Mergers(n)]
      /\ log \in [1..MaxCommits -> Logs(n)]
  BY <1>1, Wider DEF Typed, CallsOK
<1>3. curator' \in [Curator -> Curators(n)] /\ \A c \in Curator : CuratorOK(curator[c])'
  BY <1>2 DEF OneCurator, Typed, CallsOK, CuratorOK
<1>4. merger' \in [Merger -> Mergers(n)] /\ \A m \in Merger : MergerOK(merger[m])'
  BY <1>2 DEF OneMerger, Typed, CallsOK, MergerOK
<1>5. log' \in [1..MaxCommits -> Logs(n)]
  BY <1>2 DEF OneLog
<1>6. (Curators(Last) = Curators(n))' /\ (Mergers(Last) = Mergers(n))' /\ (Logs(Last) = Logs(n))'
  OBVIOUS
<1>7. CallsOK'
  BY <1>3, <1>4, <1>5, <1>6 DEF CallsOK
<1>. QED BY <1>7 DEF Typed

LEMMA SameTyped == ASSUME Typed, UNCHANGED <<commits, into, cur>>, OneCurator(Last),
                          OneMerger(Last), OneLog(Last)
                   PROVE  Typed'
<1>1. CommitsOK' /\ Last' = Last /\ Last \in Nat /\ into' \in 1..Last' /\ cur' \in 0..Last'
  BY DEF Typed, CommitsOK, CommitOK, CallsOK, Last
<1>. QED BY <1>1, TypedCalls

LEMMA Answered == ASSUME Typed, NEW m \in Merger, NEW answer \in {"replay", "forward", "gate", "moved", "unmoved", "refused", "failed"},
                         answer \in {"replay", "forward", "gate"} => merger[m].from # 0,
                         merger[m].phase # "idle", Answer(m, answer)
                  PROVE  /\ OneMerger(Last)
                         /\ \E w \in Mergers(Last) : MergerOK(w) /\ w = [merger[m] EXCEPT !.phase = answer]
<1>. DEFINE w == [merger[m] EXCEPT !.phase = answer]
<1>1. merger[m] \in Mergers(Last) /\ MergerOK(merger[m])
  BY DEF Typed, CallsOK
<1>2. w \in Mergers(Last) /\ MergerOK(w)
  BY <1>1 DEF Mergers, MergerOK, Phases
<1>3. merger' = [merger EXCEPT ![m] = w]
  BY DEF Answer
<1>. QED BY <1>2, <1>3 DEF OneMerger

LEMMA MovedTyped == ASSUME Typed, NEW n \in Nat, Last <= n, NEW m \in Merger, NEW name \in {"into", "cur"},
                           NEW sha \in 1..n, NEW next \in {"moved", "follow"},
                           merger[m].phase # "idle", Moves(m, name, sha, next)
                    PROVE  OneMerger(n)
<1>1. PICK phase \in {next, "failed"} :
        merger' = [merger EXCEPT ![m].phase = phase, ![m].sha = sha, ![m].moved = @ \cup {name}]
  BY DEF Moves
<1>. DEFINE w == [merger[m] EXCEPT !.phase = phase, !.sha = sha, !.moved = @ \cup {name}]
<1>2. merger \in [Merger -> Mergers(Last)] /\ merger[m] \in Mergers(n) /\ merger[m].to # 0
  BY Wider DEF Typed, CallsOK, CommitsOK, MergerOK
<1>3. phase \in Phases /\ sha \in 0..n /\ sha # 0
      /\ merger[m].moved \cup {name} \in SUBSET {"into", "cur"}
  BY <1>2 DEF Mergers, Phases
<1>4. w \in Mergers(n)
  BY <1>2, <1>3 DEF Mergers
<1>5. w.phase = phase /\ w.sha = sha /\ w.to = merger[m].to
  BY <1>2 DEF Mergers
<1>6. MergerOK(w)
  BY <1>2, <1>3, <1>5 DEF MergerOK
<1>7. merger' = [merger EXCEPT ![m] = w]
  BY <1>1, <1>2 DEF Mergers
<1>. QED BY <1>4, <1>6, <1>7 DEF OneMerger

LEMMA TypedCurate == ASSUME Typed, NEW c \in Curator, Curate(c) PROVE Typed'
<1>1. PICK base \in {into, cur} \ {0}, ops \in OneOp :
        curator' = [curator EXCEPT ![c] = [phase |-> "land", base |-> base, ops |-> ops, attempts |-> 0]]
  BY DEF Curate
<1>2. base \in 0..Last /\ base # 0 /\ ops \in Ops /\ 0 \in 0..MaxAttempts
  BY OpsTyped, MergeAssumption DEF Typed, CallsOK, CommitsOK
<1>3. OneCurator(Last)
  BY <1>1, <1>2 DEF OneCurator, Curators, CuratorOK
<1>. QED BY <1>3, SameTyped DEF Curate, OneMerger, OneLog

LEMMA TypedCurateLands == ASSUME Typed, NEW c \in Curator, CurateLands(c) PROVE Typed'
<1>1. curator[c] \in Curators(Last) /\ Last \in Nat /\ cur \in 0..Last /\ into \in 1..Last
  BY DEF Typed, CallsOK, CommitsOK
<1>2. \A k \in Nat : [Waiting EXCEPT !.phase = "done"] \in Curators(k)
  BY MergeAssumption, OpsTyped DEF Waiting, Curators
<1>3. CuratorOK([Waiting EXCEPT !.phase = "done"])
  BY DEF Waiting, CuratorOK
<1>4. CASE UNCHANGED <<commits, cur>> /\ curator' = [curator EXCEPT ![c] = [Waiting EXCEPT !.phase = "done"]]
  <2>1. OneCurator(Last)
    BY <1>1, <1>2, <1>3, <1>4 DEF OneCurator
  <2>. QED BY <1>4, <2>1, SameTyped DEF CurateLands, OneMerger, OneLog
<1>5. CASE /\ UNCHANGED <<commits, cur>> /\ cur # 0 /\ ~Spent(curator[c])
           /\ curator' = [curator EXCEPT ![c].base = cur, ![c].attempts = @ + 1]
  <2>. DEFINE w == [curator[c] EXCEPT !.base = cur, !.attempts = @ + 1]
  <2>1. curator[c].attempts + 1 \in 0..MaxAttempts
    BY <1>1, <1>5, MergeAssumption DEF Spent, Curators
  <2>2. w \in Curators(Last) /\ CuratorOK(w)
    BY <1>1, <1>5, <2>1 DEF Curators, CuratorOK
  <2>3. curator' = [curator EXCEPT ![c] = w]
    BY <1>5 DEF Typed, CallsOK, Curators
  <2>4. OneCurator(Last)
    BY <2>2, <2>3 DEF OneCurator
  <2>. QED BY <1>5, <2>4, SameTyped DEF CurateLands, OneMerger, OneLog
<1>6. CASE CurateCommits(c) /\ curator' = [curator EXCEPT ![c] = [Waiting EXCEPT !.phase = "done"]]
  <2>1. CommitsOK' /\ Last' = Last + 1
    BY <1>6, AddedTyped DEF CurateCommits, Typed
  <2>2. OneCurator(Last + 1)
    <3>1. [Waiting EXCEPT !.phase = "done"] \in Curators(Last + 1)
      BY <1>1, <1>2
    <3>. QED BY <1>3, <1>6, <3>1 DEF OneCurator
  <2>3. into' \in 1..Last' /\ cur' \in 0..Last' /\ Last + 1 \in Nat /\ Last <= Last'
    BY <1>1, <1>6, <2>1 DEF CurateLands, CurateCommits
  <2>. QED BY <2>1, <2>2, <2>3, TypedCalls DEF CurateLands, OneMerger, OneLog
<1>. QED BY <1>4, <1>5, <1>6, CurateLandsAdds DEF CurateLands

LEMMA TypedWriters == ASSUME Typed, NEW f \in Fact, Hand(f) \/ Other(f) PROVE Typed'
<1>1. HandCommits(f) \/ (OtherCommits /\ into' = Last + 1)
  BY HandAdds, OtherAdds
<1>2. CommitsOK' /\ Last' = Last + 1 /\ Last \in Nat
  BY <1>1, AddedTyped DEF HandCommits, OtherCommits, Typed
<1>3. into' \in 1..Last' /\ cur' \in 0..Last'
  BY <1>1, <1>2 DEF Hand, Other, HandCommits, Typed, CallsOK
<1>. QED BY <1>2, <1>3, TypedCalls DEF Hand, Other, OneCurator, OneMerger, OneLog

LEMMA TypedReads == ASSUME Typed, NEW m \in Merger, ReadRef(m) \/ ReadInto(m) PROVE Typed'
<1>. DEFINE w == merger[m]
            base == Tree(MergeBase(into, w.to))
<1>1. /\ merger \in [Merger -> Mergers(Last)] /\ w \in Mergers(Last) /\ MergerOK(w)
      /\ Last \in Nat /\ into \in 1..Last /\ into \in 0..Last /\ into # 0 /\ cur \in 0..Last
  BY DEF Typed, CallsOK, CommitsOK
<1>2. CASE ReadRef(m)
  <2>1. [w EXCEPT !.phase = "asked", !.to = cur] \in Mergers(Last)
    BY <1>1 DEF Mergers, Phases
  <2>2. MergerOK([w EXCEPT !.phase = "asked", !.to = cur])
    BY <1>1, <1>2 DEF ReadRef, MergerOK, Mergers
  <2>3. merger' = [merger EXCEPT ![m] = [w EXCEPT !.phase = "asked", !.to = cur]]
    BY <1>1, <1>2 DEF ReadRef, Mergers
  <2>4. OneMerger(Last)
    BY <2>1, <2>2, <2>3 DEF OneMerger
  <2>. QED BY <1>2, <2>4, SameTyped DEF ReadRef, OneCurator, OneLog
<1>3. CASE ReadInto(m) /\ UNCHANGED log /\ merger' = [merger EXCEPT ![m].phase = "gate", ![m].from = into]
  <2>1. [w EXCEPT !.phase = "gate", !.from = into] \in Mergers(Last)
    BY <1>1 DEF Mergers, Phases
  <2>2. MergerOK([w EXCEPT !.phase = "gate", !.from = into])
    BY <1>1, <1>3 DEF ReadInto, MergerOK, Mergers
  <2>3. merger' = [merger EXCEPT ![m] = [w EXCEPT !.phase = "gate", !.from = into]]
    BY <1>1, <1>3 DEF Mergers
  <2>4. OneMerger(Last)
    BY <2>1, <2>2, <2>3 DEF OneMerger
  <2>. QED BY <1>3, <2>4, SameTyped DEF ReadInto, OneCurator, OneLog
<1>4. CASE ReadInto(m) /\ Answer(m, "refused") /\ UNCHANGED log
  BY <1>4, Answered, SameTyped DEF ReadInto, OneCurator, OneLog
<1>5. CASE /\ ReadInto(m) /\ log' = [log EXCEPT ![w.to] = [base |-> into, ops |-> NoOps]]
           /\ merger' = [merger EXCEPT ![m].phase = "append", ![m].from = into,
                                       ![m].ops = Delta(base, Tree(w.to))]
  <2>. DEFINE ops == Delta(base, Tree(w.to))
              v == [w EXCEPT !.phase = "append", !.from = into, !.ops = ops]
  <2>1. w.to \in 1..Last
    BY <1>5, MergerTyped DEF ReadInto
  <2>2. base \in Trees /\ Tree(w.to) \in Trees
    BY <1>1, <2>1, BaseIsLast, TreeTyped DEF Typed
  <2>3. ops \in Ops /\ NoOps \in Ops
    BY <2>2, OpsTyped
  <2>4. v \in Mergers(Last) /\ MergerOK(v)
    <3>1. v \in Mergers(Last)
      BY <1>1, <2>3 DEF Mergers, Phases
    <3>2. v.phase = "append" /\ v.from # 0 /\ v.to = w.to /\ w.to # 0
      BY <1>1, <2>1 DEF Mergers
    <3>. QED BY <3>1, <3>2 DEF MergerOK
  <2>5. merger' = [merger EXCEPT ![m] = v]
    BY <1>1, <1>5 DEF Mergers
  <2>6. OneMerger(Last)
    BY <2>4, <2>5 DEF OneMerger
  <2>7. w.to \in 1..MaxCommits
    BY <1>1, <2>1, MergeAssumption DEF Typed, CommitsOK
  <2>8. [base |-> into, ops |-> NoOps] \in Logs(Last)
    BY <1>1, <2>3 DEF Logs
  <2>9. OneLog(Last)
    BY <1>5, <2>7, <2>8 DEF OneLog
  <2>. QED BY <1>5, <2>6, <2>9, SameTyped DEF ReadInto, OneCurator
<1>. QED BY <1>2, <1>3, <1>4, <1>5 DEF ReadInto

LEMMA TypedAppend == ASSUME Typed, NEW m \in Merger, AppendAndJudge(m) PROVE Typed'
<1>. DEFINE w == merger[m]
<1>1. w.to \in 1..Last /\ w.ops \in Ops /\ w.from # 0 /\ Last \in 1..MaxCommits /\ 0 \notin 1..Last
  BY MergerTyped DEF AppendAndJudge, Typed, CommitsOK
<1>2. OneMerger(Last)
  <2>1. Answer(m, "refused") \/ Answer(m, "gate")
    BY DEF AppendAndJudge
  <2>. QED BY <1>1, <2>1, Answered DEF AppendAndJudge
<1>3. OneLog(Last)
  <2>1. w.to \in 1..MaxCommits /\ log[w.to] \in Logs(Last)
    BY <1>1, MergeAssumption DEF Typed, CallsOK
  <2>2. [log[w.to] EXCEPT !.ops = w.ops] \in Logs(Last)
    BY <1>1, <2>1 DEF Logs
  <2>3. UNCHANGED log \/ log' = [log EXCEPT ![w.to] = [log[w.to] EXCEPT !.ops = w.ops]]
    BY DEF AppendAndJudge
  <2>. QED BY <2>1, <2>2, <2>3 DEF OneLog
<1>. QED BY <1>2, <1>3, SameTyped DEF AppendAndJudge, OneCurator

LEMMA TypedGate == ASSUME Typed, NEW m \in Merger, Gate(m) \/ Fails(m) PROVE Typed'
<1>1. merger[m].phase # "idle" /\ (merger[m].phase = "gate" => merger[m].from # 0)
  BY MergerTyped DEF Gate, Fails, Typed, CommitsOK
<1>2. OneMerger(Last)
  BY <1>1, Answered DEF Gate, Fails
<1>. QED BY <1>2, SameTyped DEF Gate, Fails, OneCurator, OneLog

LEMMA TypedForward == ASSUME Typed, NEW m \in Merger, Forward(m) \/ Follow(m) PROVE Typed'
<1>1. /\ merger[m].phase = "forward" => merger[m].to \in 1..Last
      /\ merger[m].phase = "follow" => merger[m].sha \in 1..Last
      /\ into \in 1..Last /\ cur \in 0..Last /\ Last \in Nat /\ Last <= Last
  BY MergerTyped DEF Typed, CallsOK, CommitsOK
<1>2. OneMerger(Last)
  <2>1. CASE \E answer \in {"moved", "unmoved", "refused"} : Answer(m, answer)
    BY <2>1, Answered DEF Forward, Follow
  <2>2. CASE Forward(m) /\ Moves(m, "into", merger[m].to, "moved")
    BY <1>1, <2>2, MovedTyped DEF Forward
  <2>3. CASE Follow(m) /\ Moves(m, "cur", merger[m].sha, "moved")
    BY <1>1, <2>3, MovedTyped DEF Follow
  <2>. QED BY <2>1, <2>2, <2>3 DEF Forward, Follow
<1>3. into' \in 1..Last /\ cur' \in 0..Last
  BY <1>1 DEF Forward, Follow
<1>4. CommitsOK' /\ Last' = Last
  BY DEF Forward, Follow, Typed, CommitsOK, CommitOK, Last
<1>. QED BY <1>1, <1>2, <1>3, <1>4, TypedCalls DEF Forward, Follow, OneCurator, OneLog

LEMMA TypedReplay == ASSUME Typed, NEW m \in Merger, Replay(m) PROVE Typed'
<1>. DEFINE w == merger[m]
<1>1. /\ merger \in [Merger -> Mergers(Last)] /\ w \in Mergers(Last) /\ MergerOK(w)
      /\ log \in [1..MaxCommits -> Logs(Last)]
      /\ Last \in Nat /\ into \in 1..Last /\ into \in 0..Last /\ into # 0 /\ into # Last + 1
      /\ cur \in 0..Last /\ w.to \in 1..MaxCommits
  BY MergerTyped, MergeAssumption DEF Replay, Typed, CallsOK, CommitsOK
<1>2. CASE Answer(m, "refused") /\ UNCHANGED <<commits, into, log>>
  BY <1>2, Answered, SameTyped DEF Replay, OneCurator, OneLog
<1>3. CASE /\ ~Spent(w) /\ merger' = Rebased(m) /\ log' = [log EXCEPT ![w.to].base = into]
           /\ UNCHANGED <<commits, into>>
  <2>. DEFINE v == [w EXCEPT !.from = into, !.attempts = @ + 1]
  <2>1. w.attempts + 1 \in 0..MaxAttempts
    BY <1>1, <1>3, MergeAssumption DEF Spent, Mergers
  <2>2. v \in Mergers(Last) /\ MergerOK(v)
    <3>1. v \in Mergers(Last)
      BY <1>1, <2>1 DEF Mergers
    <3>2. v.phase = "replay" /\ v.from # 0 /\ v.to = w.to /\ w.to # 0
      BY <1>1 DEF Mergers, Replay, MergerOK
    <3>. QED BY <3>1, <3>2 DEF MergerOK
  <2>3. merger' = [merger EXCEPT ![m] = v]
    BY <1>1, <1>3 DEF Rebased, Mergers
  <2>4. OneMerger(Last)
    BY <2>2, <2>3 DEF OneMerger
  <2>5. [log[w.to] EXCEPT !.base = into] \in Logs(Last)
    BY <1>1 DEF Logs
  <2>6. log' = [log EXCEPT ![w.to] = [log[w.to] EXCEPT !.base = into]]
    BY <1>3
  <2>7. OneLog(Last)
    BY <1>1, <2>5, <2>6 DEF OneLog
  <2>. QED BY <1>3, <2>4, <2>7, SameTyped DEF Replay, OneCurator
<1>4. CASE /\ ReplayCommits(m) /\ Moves(m, "into", Last + 1, "follow")
           /\ log' \in {log, [log EXCEPT ![w.to] = [base |-> Last + 1, ops |-> NoOps]]}
  <2>1. CommitsOK' /\ Last' = Last + 1
    BY <1>4, AddedTyped DEF ReplayCommits, Typed
  <2>2. Last + 1 \in Nat /\ Last <= Last + 1 /\ Last + 1 \in 1..(Last + 1) /\ w.phase # "idle"
    BY <1>1 DEF Replay
  <2>3. OneMerger(Last + 1)
    BY <1>4, <2>2, MovedTyped
  <2>4. [base |-> Last + 1, ops |-> NoOps] \in Logs(Last + 1)
    BY <1>1, OpsTyped DEF Logs
  <2>5. OneLog(Last + 1)
    BY <1>1, <1>4, <2>4 DEF OneLog
  <2>6. into' \in 1..Last' /\ cur' \in 0..Last' /\ Last <= Last'
    BY <1>1, <1>4, <2>1 DEF Replay, ReplayCommits
  <2>. QED BY <2>1, <2>2, <2>3, <2>5, <2>6, TypedCalls DEF Replay, OneCurator
<1>. QED BY <1>1, <1>2, <1>3, <1>4, ReplayAdds DEF Replay

LEMMA InitTyped == Init => Typed
<1>. SUFFICES ASSUME Init PROVE Typed
  OBVIOUS
<1>1. PICK live \in SUBSET Fact :
        commits = <<[past |-> {1}, parent |-> 0, on |-> "into", by |-> None, of |-> 0,
                     tree |-> [live |-> live, archived |-> {}, odd |-> {}]]>>
  BY DEF Init
<1>2. /\ Last = 1 /\ commits \in Seq(Commits)
      /\ commits[1].past = {1} /\ commits[1].parent = 0 /\ commits[1].of = 0 /\ commits[1].by = None
  BY <1>1 DEF Last, Commits, Trees
<1>3. CommitsOK
  BY <1>2, MergeAssumption DEF CommitsOK, CommitOK
<1>4. NoLog \in Logs(1) /\ Waiting \in Curators(1) /\ Unasked \in Mergers(1)
  BY OpsTyped, MergeAssumption DEF NoLog, Logs, Waiting, Curators, Unasked, Mergers, Phases
<1>5. CuratorOK(Waiting) /\ MergerOK(Unasked)
  BY DEF CuratorOK, MergerOK, Waiting, Unasked
<1>. QED BY <1>2, <1>3, <1>4, <1>5 DEF Init, Typed, CallsOK

LEMMA TypedStep == ASSUME Typed, [Next]_vars PROVE Typed'
<1>1. CASE UNCHANGED vars
  BY <1>1 DEF vars, Typed, CommitsOK, CommitOK, CallsOK, CuratorOK, MergerOK, Last
<1>2. ASSUME NEW c \in Curator, Curate(c) \/ CurateLands(c) PROVE Typed'
  BY <1>2, TypedCurate, TypedCurateLands
<1>3. ASSUME NEW f \in Fact, Hand(f) \/ Other(f) PROVE Typed'
  BY <1>3, TypedWriters
<1>4. ASSUME NEW m \in Merger,
             \/ ReadRef(m) \/ ReadInto(m) \/ AppendAndJudge(m) \/ Gate(m)
             \/ Forward(m) \/ Replay(m) \/ Follow(m) \/ Fails(m)
      PROVE  Typed'
  BY <1>4, TypedReads, TypedAppend, TypedGate, TypedForward, TypedReplay
<1>. QED BY <1>1, <1>2, <1>3, <1>4 DEF Next

\* The refs and every log name commits that were made, and neither a curator nor a
\* landing is retried past its bound, whoever moves the refs.
THEOREM TypeCorrect == Spec => []MergeTypeOK
<1>1. ASSUME Typed PROVE MergeTypeOK
  <2>1. ASSUME NEW n \in 1..Last
        PROVE  Tree(n) \in Trees /\ commits[n].parent \in Nat /\ commits[n].parent < n
    <3>1. commits[n] \in Commits /\ CommitOK(n)
      BY <1>1 DEF Typed, CommitsOK, Last
    <3>. QED BY <3>1 DEF Tree, Commits, CommitOK
  <2>2. \A n \in 1..Last : commits[n].parent \in 0..(n - 1)
    BY <1>1, <2>1 DEF Typed, CommitsOK
  <2>3. \A n \in 1..Last : Tree(n).live \subseteq Fact /\ Tree(n).odd \subseteq Fact
    BY <2>1 DEF Trees
  <2>4. \A c \in Curator : curator[c].attempts \in 0..MaxAttempts
    BY <1>1, CuratorTyped
  <2>5. \A m \in Merger : merger[m].attempts \in 0..MaxAttempts /\ merger[m].ops \in Ops
    BY <1>1, MergerTyped
  <2>. QED BY <1>1, <2>2, <2>3, <2>4, <2>5 DEF MergeTypeOK, Typed, CallsOK, Logs
<1>. QED BY <1>1, InitTyped, TypedStep, PTL DEF Spec

-----------------------------------------------------------------------------
(* The history. *)

\* A commit has one parent, so what it descends from is a chain; and a file leaves
\* the live ones for good only to an archive, which nothing empties.
HistoryOK(n) ==
    /\ commits[n].parent # 0 => commits[n].past = commits[commits[n].parent].past \cup {n}
    /\ \A x \in commits[n].past : /\ commits[x].past \subseteq commits[n].past
                                 /\ Tree(x).archived \subseteq Tree(n).archived
                                 /\ Tree(x).live \ Tree(n).live \subseteq Tree(n).archived
    /\ \A x, y \in commits[n].past : x \in commits[y].past \/ y \in commits[x].past
History == \A n \in 1..Last : HistoryOK(n)

LEMMA PastIsMade == ASSUME CommitsOK, NEW n \in 1..Last, NEW x \in commits[n].past
                    PROVE  x \in 1..Last /\ x <= n
  BY DEF CommitsOK, CommitOK

\* What was made stays as it was.
LEMMA HistoryStays ==
    ASSUME CommitsOK, NEW n \in 1..Last, HistoryOK(n), \A k \in 1..Last : commits'[k] = commits[k]
    PROVE  HistoryOK(n)'
<1>1. \A x \in commits[n].past : x \in 1..Last
  BY PastIsMade
<1>2. commits[n].parent # 0 => commits[n].parent \in 1..Last
  <2>1. commits[n] \in Commits /\ CommitOK(n) /\ Last \in Nat
    BY DEF CommitsOK, Last
  <2>. QED BY <2>1 DEF Commits, CommitOK
<1>. QED BY <1>1, <1>2 DEF HistoryOK, Tree

LEMMA HistoryAdds ==
    ASSUME CommitsOK, History, NEW p, NEW t, NEW o, NEW b, NEW f, Added(p, t, o, b, f),
           Tree(p).archived \subseteq t.archived, Tree(p).live \ t.live \subseteq t.archived
    PROVE  History'
<1>1. Last \in Nat /\ p \in 1..Last /\ Last' = Last + 1 /\ \A k \in 1..Last : commits'[k] = commits[k]
  BY DEF Added, CommitsOK
<1>2. ASSUME NEW n, n = Last + 1 PROVE HistoryOK(n)'
  <2>1. commits'[n].past = commits[p].past \cup {n} /\ commits'[n].parent = p /\ commits'[n].tree = t
    BY <1>2 DEF Added
  <2>2. HistoryOK(p) /\ p \in commits[p].past /\ n \notin 1..Last
    BY <1>1, <1>2 DEF History, CommitsOK, CommitOK
  <2>3. \A x \in commits[p].past : x \in 1..Last /\ commits'[x] = commits[x]
    BY <1>1, PastIsMade
  <2>4. commits'[p] = commits[p]
    BY <1>1
  <2>5. \A x \in commits[p].past : /\ commits'[x].past \subseteq commits'[n].past
                                  /\ commits'[x].tree.archived \subseteq t.archived
                                  /\ commits'[x].tree.live \ t.live \subseteq t.archived
    BY <2>1, <2>2, <2>3 DEF HistoryOK, Tree
  <2>6. \A x, y \in commits'[n].past : x \in commits'[y].past \/ y \in commits'[x].past
    BY <2>1, <2>2, <2>3 DEF HistoryOK
  <2>. QED BY <2>1, <2>4, <2>5, <2>6 DEF HistoryOK, Tree
<1>3. ASSUME NEW n \in 1..Last PROVE HistoryOK(n)'
  BY <1>1, HistoryStays DEF History
<1>4. \A n \in 1..(Last + 1) : n \in 1..Last \/ n = Last + 1
  BY <1>1
<1>. QED BY <1>1, <1>2, <1>3, <1>4 DEF History

LEMMA AfterKeeps == ASSUME NEW tree \in Trees, NEW ops \in Ops
                    PROVE  /\ tree.archived \subseteq After(tree, ops).archived
                           /\ tree.live \ After(tree, ops).live \subseteq After(tree, ops).archived
  BY DEF After, Trees

\* Who moves a ref, and whether by a commit or by naming one that was made.
RefMoves == \/ UNCHANGED <<commits, into, cur>>
            \/ \E c \in Curator : CurateCommits(c) /\ UNCHANGED into
            \/ \E f \in Fact : HandCommits(f) /\ UNCHANGED into
            \/ OtherCommits /\ into' = Last + 1 /\ UNCHANGED cur
            \/ \E m \in Merger : ReplayCommits(m) /\ UNCHANGED cur
            \/ \E m \in Merger : /\ merger[m].phase = "forward" /\ into = merger[m].from
                                 /\ into' = merger[m].to /\ UNCHANGED <<commits, cur>>
            \/ \E m \in Merger : /\ merger[m].phase = "follow" /\ cur = merger[m].to
                                 /\ cur' = merger[m].sha /\ UNCHANGED <<commits, into>>

LEMMA WhoMoves == ASSUME Typed, [Next]_vars PROVE RefMoves
<1>1. CASE UNCHANGED vars
  BY <1>1 DEF vars, RefMoves
<1>2. ASSUME NEW c \in Curator, Curate(c) \/ CurateLands(c) PROVE RefMoves
  BY <1>2, CurateLandsAdds DEF Curate, CurateLands, RefMoves
<1>3. ASSUME NEW f \in Fact, Hand(f) \/ Other(f) PROVE RefMoves
  BY <1>3, HandAdds, OtherAdds DEF Hand, Other, RefMoves
<1>4. ASSUME NEW m \in Merger, Replay(m) PROVE RefMoves
  BY <1>4, ReplayAdds DEF Replay, RefMoves
<1>5. ASSUME NEW m \in Merger, Forward(m) PROVE RefMoves
  BY <1>5 DEF Forward, RefMoves
<1>6. ASSUME NEW m \in Merger, Follow(m) PROVE RefMoves
  BY <1>6 DEF Follow, RefMoves
<1>7. ASSUME NEW m \in Merger,
             ReadRef(m) \/ ReadInto(m) \/ AppendAndJudge(m) \/ Gate(m) \/ Fails(m)
      PROVE  RefMoves
  BY <1>7 DEF RefMoves, ReadRef, ReadInto, AppendAndJudge, Gate, Fails
<1>. QED BY <1>1, <1>2, <1>3, <1>4, <1>5, <1>6, <1>7 DEF Next

LEMMA InitHistory == Init => History
<1>. SUFFICES ASSUME Init PROVE History
  OBVIOUS
<1>1. Last = 1 /\ commits[1].past = {1} /\ commits[1].parent = 0
  BY DEF Init, Last
<1>. QED BY <1>1 DEF History, HistoryOK

LEMMA HistoryStep == ASSUME Typed, History, [Next]_vars PROVE History'
<1>. USE DEF Typed
<1>1. CASE UNCHANGED commits
  <2>1. Last' = Last
    BY <1>1 DEF Last
  <2>. QED BY <1>1, <2>1, HistoryStays DEF History
<1>2. ASSUME NEW c \in Curator, CurateCommits(c) PROVE History'
  <2>1. curator[c].base \in 1..Last /\ curator[c].ops \in Ops
    BY <1>2, CuratorTyped DEF CurateCommits, Added
  <2>2. Tree(curator[c].base) \in Trees
    BY <2>1, TreeTyped
  <2>. QED BY <1>2, <2>1, <2>2, AfterKeeps, HistoryAdds DEF CurateCommits
<1>3. ASSUME NEW f \in Fact, HandCommits(f) PROVE History'
  <2>1. Tree(cur) \in Trees
    BY <1>3, TreeTyped DEF HandCommits, Added
  <2>2. LET t == [Tree(cur) EXCEPT !.odd = @ \cup {f}]
        IN  t.live = Tree(cur).live /\ t.archived = Tree(cur).archived
    BY <2>1 DEF Trees
  <2>. QED BY <1>3, <2>2, HistoryAdds DEF HandCommits
<1>4. CASE OtherCommits
  <2>1. PICK ops \in Ops : Added(into, After(Tree(into), ops), "into", None, 0)
    BY <1>4 DEF OtherCommits
  <2>2. Tree(into) \in Trees
    BY <2>1, TreeTyped DEF Added
  <2>. QED BY <2>1, <2>2, AfterKeeps, HistoryAdds
<1>5. ASSUME NEW m \in Merger, ReplayCommits(m) PROVE History'
  <2>1. Tree(into) \in Trees /\ merger[m].ops \in Ops
    BY <1>5, TreeTyped, MergerTyped DEF ReplayCommits, Added
  <2>. QED BY <1>5, <2>1, AfterKeeps, HistoryAdds DEF ReplayCommits
<1>. QED BY <1>1, <1>2, <1>3, <1>4, <1>5, WhoMoves DEF RefMoves

-----------------------------------------------------------------------------
(* The calls of `curate merge`. *)

\* Where a call's ops are those of the ref it read, over the branch as it is.
Replays(w) == w.phase \in {"append", "replay"} \/ (w.phase = "gate" /\ ~Descends(w.to, w.from))

\* What a step does to a call.
CallMoves(w, v) ==
    \/ v = w
    \/ v.phase \in {"asked", "refused", "unmoved"} /\ w.phase \notin {"follow", "moved", "failed"}
    \/ v.phase \in {"moved", "failed"}
    \/ /\ w.phase = "asked" /\ v.phase = "gate" /\ v.to = w.to /\ Descends(v.to, v.from)
    \/ /\ w.phase = "asked" /\ v.phase = "append" /\ v.to = w.to /\ UNCHANGED <<commits, into>>
       /\ ~Descends(w.to, into) /\ v.ops = Delta(Tree(MergeBase(into, w.to)), Tree(w.to))
    \/ /\ Replays(w) /\ v.phase \in {"gate", "replay"} /\ v.to = w.to /\ v.ops = w.ops
    \/ /\ w.phase = "gate" /\ Descends(w.to, w.from)
       /\ v.phase = "forward" /\ v.to = w.to /\ v.from = w.from

LEMMA CallStep == ASSUME Typed, [Next]_vars, NEW k \in Merger
                  PROVE  CallMoves(merger[k], merger'[k]) \/ ReplayCommits(k)
<1>. DEFINE w == merger[k]
            v == merger'[k]
<1>1. /\ merger \in [Merger -> Mergers(Last)] /\ w \in Mergers(Last)
      /\ into \in 1..Last /\ Last \in Nat
  BY DEF Typed, CallsOK, CommitsOK
<1>2. CASE UNCHANGED merger
  BY <1>2 DEF CallMoves
<1>3. ASSUME NEW m \in Merger, m # k,
             \/ ReadRef(m) \/ ReadInto(m) \/ AppendAndJudge(m) \/ Gate(m)
             \/ Forward(m) \/ Replay(m) \/ Follow(m) \/ Fails(m)
      PROVE  v = w
  BY <1>1, <1>3 DEF ReadRef, ReadInto, AppendAndJudge, Gate, Forward, Replay, Follow, Fails,
                    Answer, Moves, Rebased
<1>4. CASE ReadRef(k)
  BY <1>1, <1>4 DEF ReadRef, CallMoves, Mergers
<1>5. CASE ReadInto(k)
  BY <1>1, <1>5 DEF ReadInto, Answer, CallMoves, Mergers
<1>6. CASE AppendAndJudge(k)
  BY <1>1, <1>6 DEF AppendAndJudge, Answer, CallMoves, Replays, Mergers
<1>7. CASE Gate(k)
  BY <1>1, <1>7 DEF Gate, IsReplay, Answer, CallMoves, Replays, Mergers
<1>8. CASE Forward(k) \/ Follow(k) \/ Fails(k)
  <2>1. Fails(k) => v.phase = "failed"
    BY AnswerSays DEF Fails
  <2>2. Forward(k) => w.phase = "forward"
    BY DEF Forward
  <2>. QED BY <1>8, <2>1, <2>2, SwapsSay DEF CallMoves
<1>9. CASE Replay(k)
  <2>1. CASE Answer(k, "refused")
    BY <1>1, <1>9, <2>1 DEF Replay, Answer, CallMoves, Mergers
  <2>2. CASE merger' = Rebased(k)
    BY <1>1, <1>9, <2>2 DEF Replay, Rebased, CallMoves, Replays, Mergers
  <2>3. CASE into' = Last + 1
    BY <1>1, <1>9, <2>3, ReplayAdds
  <2>. QED BY <1>9, <2>1, <2>2, <2>3 DEF Replay
<1>10. ASSUME NEW c \in Curator, Curate(c) \/ CurateLands(c) PROVE UNCHANGED merger
  BY <1>10 DEF Curate, CurateLands
<1>11. ASSUME NEW f \in Fact, Hand(f) \/ Other(f) PROVE UNCHANGED merger
  BY <1>11 DEF Hand, Other
<1>12. UNCHANGED vars => UNCHANGED merger
  BY DEF vars
<1>13. v = w => CallMoves(w, v)
  BY DEF CallMoves
<1>. QED BY <1>2, <1>3, <1>4, <1>5, <1>6, <1>7, <1>8, <1>9, <1>10, <1>11, <1>12, <1>13 DEF Next

LEMMA Stays == ASSUME Typed, [Next]_vars
               PROVE  Last <= Last' /\ \A n \in 1..Last : commits'[n] = commits[n]
<1>1. Last \in Nat
  BY DEF Typed, CommitsOK
<1>2. UNCHANGED commits => Last' = Last
  BY DEF Last
<1>. DEFINE Stay == Last <= Last' /\ \A n \in 1..Last : commits'[n] = commits[n]
<1>3. ASSUME NEW p, NEW t, NEW o, NEW b, NEW f, Added(p, t, o, b, f) PROVE Stay
  BY <1>1, <1>3 DEF Added
<1>4. UNCHANGED commits => Stay
  BY <1>1, <1>2
<1>. HIDE DEF Stay
<1>5. Stay
  BY <1>3, <1>4, WhoMoves
     DEF RefMoves, CurateCommits, HandCommits, OtherCommits, ReplayCommits
<1>. QED BY <1>5 DEF Stay

\* A swap is of a ref that the commit it gives descends from, or is replayed by.
Swaps(w) == /\ w.phase = "forward" => Descends(w.to, w.from)
            /\ w.phase = "follow" => commits[w.sha].of = w.to /\ commits[w.sha].on = "into"
\* A merge that committed has landed, or failed once it had.
Author(n) == commits[n].by # None =>
               commits[n].by \in Merger /\ merger[commits[n].by].phase \in {"follow", "moved", "failed"}
Calls == /\ \A m \in Merger : Swaps(merger[m])
         /\ \A n \in 1..Last : Author(n)

LEMMA CallsStep == ASSUME Typed, Calls, [Next]_vars PROVE Calls'
<1>1. Last \in Nat /\ Last <= Last' /\ \A n \in 1..Last : commits'[n] = commits[n]
  BY Stays DEF Typed, CommitsOK
<1>2. ASSUME NEW k \in Merger PROVE Swaps(merger[k])'
  <2>. DEFINE w == merger[k]
              v == merger'[k]
  <2>1. /\ Swaps(w)
        /\ w.phase \in {"gate", "forward"} => w.to \in 1..Last
        /\ w.phase = "follow" => w.sha \in 1..Last
    BY MergerTyped DEF Calls
  <2>2. CASE v = w
    BY <1>1, <2>1, <2>2 DEF Swaps, Descends
  <2>3. CASE w.phase = "gate" /\ Descends(w.to, w.from) /\ v.phase = "forward" /\ v.to = w.to /\ v.from = w.from
    BY <1>1, <2>1, <2>3 DEF Swaps, Descends
  <2>4. CASE ReplayCommits(k)
    BY <1>1, <2>4 DEF ReplayCommits, Added, Swaps
  <2>5. v.phase \notin {"forward", "follow"} => Swaps(merger[k])'
    BY DEF Swaps
  <2>. QED BY <2>2, <2>3, <2>4, <2>5, CallStep DEF CallMoves
<1>3. ASSUME NEW n \in 1..Last PROVE Author(n)'
  <2>1. commits'[n] = commits[n] /\ Author(n)
    BY <1>1 DEF Calls
  <2>2. ASSUME NEW k \in Merger, merger[k].phase \in {"follow", "moved", "failed"}
        PROVE  merger'[k].phase \in {"follow", "moved", "failed"}
    BY <2>2, CallStep DEF CallMoves, ReplayCommits, Replays
  <2>. QED BY <2>1, <2>2 DEF Author
<1>4. ASSUME NEW n \in 1..Last', n \notin 1..Last PROVE Author(n)'
  <2>1. ~UNCHANGED commits
    BY <1>4 DEF Last
  <2>2. ASSUME NEW p, NEW t, NEW o, NEW b, NEW f, Added(p, t, o, b, f) PROVE commits'[n].by = b
    BY <1>1, <1>4, <2>2 DEF Added
  <2>3. \/ commits'[n].by = None
        \/ \E m \in Merger : commits'[n].by = m /\ merger'[m].phase \in {"follow", "failed"}
    BY <2>1, <2>2, WhoMoves DEF RefMoves, CurateCommits, HandCommits, OtherCommits, ReplayCommits
  <2>. QED BY <2>3 DEF Author
<1>. QED BY <1>2, <1>3, <1>4 DEF Calls

\* Whatever a step does, `into` goes on descending from what it descended from.
LEMMA IntoGrows == ASSUME Typed, History, Calls, [Next]_vars
                   PROVE  commits[into].past \subseteq commits'[into'].past
<1>1. /\ into \in 1..Last /\ \A n \in 1..Last : commits'[n] = commits[n]
      /\ HistoryOK(into) /\ into \in commits[into].past
  BY Stays DEF Typed, CallsOK, CommitsOK, CommitOK, History
<1>2. CASE UNCHANGED into
  BY <1>1, <1>2
<1>3. ASSUME NEW t, NEW o, NEW b, NEW f, Added(into, t, o, b, f), into' = Last + 1
      PROVE  commits[into].past \subseteq commits'[into'].past
  BY <1>3 DEF Added
<1>4. ASSUME NEW m \in Merger, merger[m].phase = "forward", into = merger[m].from, into' = merger[m].to
      PROVE  commits[into].past \subseteq commits'[into'].past
  <2>1. merger[m].to \in 1..Last /\ into \in commits[merger[m].to].past
    BY <1>4, MergerTyped DEF Calls, Swaps, Descends
  <2>. QED BY <1>1, <1>4, <2>1 DEF History, HistoryOK
<1>. QED BY <1>2, <1>3, <1>4, WhoMoves DEF RefMoves, OtherCommits, ReplayCommits

-----------------------------------------------------------------------------
(* Nothing is lost. *)
NoneLost == NothingLost /\ \A n \in 1..Last : commits[n].on = "cur" => cur # 0

LEMMA LandedStays == ASSUME Typed, History, Calls, [Next]_vars, NEW n \in 1..Last, Landed(n)
                     PROVE  Landed(n)'
<1>1. PICK l \in commits[into].past : l = n \/ (commits[l].of # 0 /\ Descends(commits[l].of, n))
  BY DEF Landed
<1>2. l \in 1..Last /\ into \in 1..Last /\ l \in commits'[into'].past
  BY IntoGrows, PastIsMade DEF Typed, CallsOK
<1>3. commits[l].of # 0 => commits[l].of \in 1..Last
  <2>1. commits[l] \in Commits /\ CommitOK(l) /\ Last \in Nat
    BY <1>2 DEF Typed, CommitsOK, Last
  <2>. QED BY <1>2, <2>1 DEF Commits, CommitOK
<1>4. \A k \in 1..Last : commits'[k] = commits[k]
  BY Stays
<1>5. l = n \/ (commits'[l].of # 0 /\ n \in commits'[commits'[l].of].past)
  BY <1>1, <1>2, <1>3, <1>4 DEF Descends
<1>. QED BY <1>2, <1>5 DEF Landed, Descends

LEMMA NoneLostStep == ASSUME Typed, History, Calls, NoneLost, [Next]_vars PROVE NoneLost'
<1>1. /\ into \in 1..Last /\ cur \in 0..Last /\ Last \in Nat /\ Last <= Last'
      /\ \A n \in 1..Last : commits'[n] = commits[n]
  BY Stays DEF Typed, CallsOK, CommitsOK
<1>. DEFINE Safe(n) == IF commits[n].on = "into" THEN Descends(into, n)
                       ELSE Descends(cur, n) \/ Landed(n)
            Has(n) == commits[n].on = "cur" => cur # 0
<1>2. ASSUME NEW n \in 1..Last PROVE Safe(n)' /\ Has(n)'
  <2>1. Safe(n) /\ Has(n) /\ commits'[n] = commits[n] /\ commits[n].on \in {"into", "cur"}
    <3>1. commits[n] \in Commits
      BY DEF Typed, CommitsOK, Last
    <3>. QED BY <1>1, <3>1 DEF NoneLost, NothingLost, Commits
  <2>2. CASE commits[n].on = "into"
    BY <2>1, <2>2, IntoGrows DEF Descends
  <2>3. CASE commits[n].on # "into" /\ Landed(n)
    <3>1. cur # 0 => cur' # 0
      <4>1. ASSUME NEW m \in Merger, merger[m].phase = "follow" PROVE merger[m].sha # 0
        BY <1>1, <4>1, MergerTyped
      <4>2. Last + 1 # 0
        BY <1>1
      <4>. QED BY <4>1, <4>2, WhoMoves DEF RefMoves, CurateCommits, HandCommits
    <3>. QED BY <2>1, <2>3, <3>1, LandedStays
  <2>4. CASE commits[n].on # "into" /\ n \in commits[cur].past
    <3>1. cur # 0 /\ cur \in 1..Last
      BY <1>1, <2>1, <2>4
    <3>2. CASE UNCHANGED cur
      BY <1>1, <2>1, <2>4, <3>1, <3>2 DEF Descends
    <3>3. ASSUME NEW t, NEW o, NEW b, NEW f, Added(cur, t, o, b, f), cur' = Last + 1
          PROVE  n \in commits'[cur'].past /\ cur' # 0
      BY <1>1, <2>4, <3>3 DEF Added
    <3>4. ASSUME NEW m \in Merger, merger[m].phase = "follow", cur = merger[m].to,
                 cur' = merger[m].sha, UNCHANGED <<commits, into>>
          PROVE  Landed(n) /\ cur' # 0
      <4>1. /\ merger[m].sha \in 1..Last
            /\ commits[merger[m].sha].of = cur /\ commits[merger[m].sha].on = "into"
        BY <3>4, MergerTyped DEF Calls, Swaps
      <4>2. merger[m].sha \in commits[into].past
        BY <4>1 DEF NoneLost, NothingLost, Descends
      <4>. QED BY <2>4, <3>1, <3>4, <4>1, <4>2 DEF Landed, Descends
    <3>. QED BY <2>1, <2>4, <3>1, <3>2, <3>3, <3>4, WhoMoves, LandedStays
             DEF RefMoves, CurateCommits, HandCommits, Descends
  <2>. QED BY <2>1, <2>2, <2>3, <2>4 DEF Descends
<1>3. ASSUME NEW n \in 1..Last', n \notin 1..Last PROVE Safe(n)' /\ Has(n)'
  <2>1. ~UNCHANGED commits
    BY <1>3 DEF Last
  <2>2. ASSUME NEW p, NEW t, NEW o, NEW b, NEW f, Added(p, t, o, b, f)
        PROVE  n = Last + 1 /\ commits'[n].on = o /\ n \in commits'[n].past
    BY <1>1, <1>3, <2>2 DEF Added
  <2>3. \/ commits'[n].on = "into" /\ into' = n /\ n \in commits'[n].past
        \/ commits'[n].on = "cur" /\ cur' = n /\ n \in commits'[n].past
    BY <2>1, <2>2, WhoMoves DEF RefMoves, CurateCommits, HandCommits, OtherCommits, ReplayCommits
  <2>. QED BY <1>1, <1>3, <2>3 DEF Descends
<1>4. \A n \in 1..Last' : Safe(n)' /\ Has(n)'
  BY <1>2, <1>3
<1>. QED BY <1>4 DEF NoneLost, NothingLost

-----------------------------------------------------------------------------
(* A replay is a three-way merge. *)

\* A call that replays holds the ops of the ref it read over the branch as it is: the
\* branch moves, and its fork with the ref does not.
CurrentOps(w) ==
    Replays(w) => /\ ~Descends(w.to, into)
                  /\ \A b \in Fork(into, w.to) : w.ops = Delta(Tree(b), Tree(w.to))
Current == \A m \in Merger : CurrentOps(merger[m])

LEMMA ForkStays ==
    ASSUME Typed, History, Calls, [Next]_vars, NEW t \in 1..Last, ~Descends(t, into)
    PROVE  ~Descends(t, into)' /\ Fork(into, t)' = Fork(into, t)
<1>. DEFINE Common == commits[into].past \cap commits[t].past
<1>1. /\ into \in 1..Last /\ Last \in Nat /\ \A n \in 1..Last : commits'[n] = commits[n]
      /\ HistoryOK(t) /\ commits[t].past \subseteq 1..Last
  BY Stays, PastIsMade DEF Typed, CallsOK, CommitsOK, History
<1>2. CASE UNCHANGED into
  BY <1>1, <1>2 DEF Descends, Fork
<1>3. ASSUME NEW u, NEW o, NEW b, NEW f, Added(into, u, o, b, f), into' = Last + 1
      PROVE  into' \notin commits'[t].past /\ Common' = Common
  BY <1>1, <1>3 DEF Added
<1>4. ASSUME NEW m \in Merger, merger[m].phase = "forward", into = merger[m].from, into' = merger[m].to
      PROVE  into' \notin commits'[t].past /\ Common' = Common
  <2>. DEFINE to == merger[m].to
  <2>1. to \in 1..Last /\ into \in commits[to].past /\ HistoryOK(to)
    BY <1>4, MergerTyped DEF Calls, Swaps, Descends, History
  <2>2. into \notin commits[t].past
    BY DEF Descends
  <2>3. to \notin commits[t].past
    BY <1>1, <2>1, <2>2 DEF HistoryOK
  <2>4. ASSUME NEW z \in commits[to].past, z \in commits[t].past PROVE z \in commits[into].past
    BY <1>1, <2>1, <2>2, <2>4 DEF HistoryOK
  <2>5. commits[into].past \subseteq commits[to].past
    BY <2>1 DEF HistoryOK
  <2>6. commits'[into'].past = commits[to].past /\ commits'[t].past = commits[t].past
    BY <1>1, <1>4, <2>1
  <2>. QED BY <1>4, <2>3, <2>4, <2>5, <2>6
<1>5. UNCHANGED into \/ (into' \notin commits'[t].past /\ Common' = Common)
  BY <1>3, <1>4, WhoMoves DEF RefMoves, OtherCommits, ReplayCommits
<1>. QED BY <1>2, <1>5 DEF Descends, Fork

LEMMA CurrentStep == ASSUME Typed, History, Calls, Current, [Next]_vars PROVE Current'
<1>. SUFFICES ASSUME NEW k \in Merger, Replays(merger[k])' PROVE CurrentOps(merger[k])'
  BY DEF Current, CurrentOps
<1>. DEFINE w == merger[k]
            v == merger'[k]
<1>1. /\ into \in 1..Last /\ Last \in Nat /\ \A n \in 1..Last : commits'[n] = commits[n]
      /\ \A n \in 1..Last : \A x \in commits[n].past : x \in 1..Last
  BY Stays, PastIsMade DEF Typed, CallsOK, CommitsOK
<1>2. /\ v.phase \in {"append", "replay", "gate"}
      /\ v.phase = "gate" => v.from \notin commits'[v.to].past
  BY DEF Replays, Descends
<1>3. w.phase # "idle" => w.to \in 1..Last
  BY MergerTyped
<1>4. ASSUME NEW t \in 1..Last, v.to = t, into \notin commits[t].past,
             \A b \in Fork(into, t) : v.ops = Delta(commits[b].tree, commits[t].tree)
      PROVE  CurrentOps(merger[k])'
  <2>1. into' \notin commits'[t].past /\ Fork(into, t)' = Fork(into, t)
    BY <1>4, ForkStays DEF Descends
  <2>2. \A b \in Fork(into, t) : b \in 1..Last
    BY <1>1 DEF Fork
  <2>3. \A b \in Fork(into, t)' : v.ops = Delta(commits'[b].tree, commits'[t].tree)
    BY <1>1, <1>4, <2>1, <2>2
  <2>. QED BY <1>4, <2>1, <2>3 DEF CurrentOps, Descends, Tree
<1>5. CASE Replays(w) /\ v.to = w.to /\ v.ops = w.ops
  <2>1. PICK t \in 1..Last : t = w.to
    BY <1>3, <1>5 DEF Replays
  <2>2. CurrentOps(w)
    BY DEF Current
  <2>. QED BY <1>4, <1>5, <2>1, <2>2 DEF CurrentOps, Descends, Tree
<1>6. CASE /\ w.phase = "asked" /\ v.to = w.to /\ ~Descends(w.to, into)
           /\ v.ops = Delta(Tree(MergeBase(into, w.to)), Tree(w.to))
  <2>1. PICK t \in 1..Last : t = w.to
    BY <1>3, <1>6
  <2>2. MergeBase(into, t) \in Fork(into, t)
    BY <1>1, BaseIsLast DEF Typed
  <2>3. ASSUME NEW b \in Fork(into, t) PROVE b = MergeBase(into, t)
    <3>1. b \in 1..Last /\ MergeBase(into, t) \in 1..Last
      BY <1>1, <2>2 DEF Fork
    <3>2. b <= MergeBase(into, t) /\ MergeBase(into, t) <= b
      BY <2>2 DEF Fork
    <3>. QED BY <1>1, <3>1, <3>2
  <2>. QED BY <1>4, <1>6, <2>1, <2>3 DEF Descends, Tree
<1>7. CASE w.phase = "asked" /\ v.phase = "gate" /\ v.to = w.to /\ Descends(v.to, v.from)
  <2>1. v.to \in 1..Last
    BY <1>3, <1>7
  <2>. QED BY <1>1, <1>2, <1>7, <2>1 DEF Descends
<1>8. CASE v = w
  <2>1. CASE Replays(w)
    BY <1>5, <1>8, <2>1
  <2>2. CASE ~Replays(w)
    <3>1. w.phase = "gate" /\ w.to \in 1..Last /\ Descends(w.to, w.from)
      BY <1>2, <1>3, <1>8, <2>2 DEF Replays
    <3>. QED BY <1>1, <1>2, <1>8, <3>1 DEF Descends
  <2>. QED BY <2>1, <2>2
<1>. QED BY <1>2, <1>5, <1>6, <1>7, <1>8, CallStep DEF CallMoves, ReplayCommits

ReplaysMerge(n) ==
    commits[n].by # None =>
      \A b \in Fork(commits[n].parent, commits[n].of) :
        LET p == Tree(commits[n].parent)
            t == Tree(commits[n].of)
        IN  /\ Tree(n).live = Merged(p.live, Tree(b).live, t.live)
            /\ Tree(n).archived = Merged(p.archived, Tree(b).archived, t.archived)

\* The ops rebuilt from two trees of one history, over a tip the older one is under.
LEMMA DeltaMerges ==
    ASSUME NEW b \in Trees, NEW t \in Trees, NEW p \in Trees, b.archived \subseteq t.archived,
           b.live \ t.live \subseteq t.archived, b.archived \subseteq p.archived
    PROVE  /\ After(p, Delta(b, t)).live = Merged(p.live, b.live, t.live)
           /\ After(p, Delta(b, t)).archived = Merged(p.archived, b.archived, t.archived)
<1>1. /\ After(p, Delta(b, t)).live = (p.live \cup (t.live \ b.live)) \ (b.live \ t.live)
      /\ After(p, Delta(b, t)).archived =
           p.archived \cup (b.live \ t.live) \cup ((t.archived \ b.archived) \ (b.live \ t.live))
  BY DEF After, Delta, Trees
<1>. QED BY <1>1 DEF Merged

LEMMA MergesStep == ASSUME Typed, History, Calls, Current, ThreeWay, [Next]_vars PROVE ThreeWay'
<1>1. /\ Last \in Nat /\ Last <= Last' /\ \A n \in 1..Last : commits'[n] = commits[n]
      /\ \A n \in 1..Last : \A x \in commits[n].past : x \in 1..Last
      /\ into \in 1..Last /\ HistoryOK(into)
  BY Stays, PastIsMade DEF Typed, CommitsOK, CallsOK, History
<1>2. ASSUME NEW n \in 1..Last PROVE ReplaysMerge(n)'
  <2>1. ReplaysMerge(n) /\ commits'[n] = commits[n]
    BY <1>1 DEF ThreeWay, ReplaysMerge
  <2>2. CASE commits[n].by # None
    <3>1. commits[n].parent \in 1..Last /\ commits[n].of \in 1..Last
      <4>1. commits[n] \in Commits /\ CommitOK(n)
        BY DEF Typed, CommitsOK, Last
      <4>. QED BY <1>1, <2>2, <4>1 DEF Commits, CommitOK
    <3>. QED BY <1>1, <2>1, <3>1 DEF ReplaysMerge, Fork, Tree
  <2>. QED BY <2>1, <2>2 DEF ReplaysMerge
<1>3. ASSUME NEW n \in 1..Last', n \notin 1..Last PROVE ReplaysMerge(n)'
  <2>1. ~UNCHANGED commits
    BY <1>3 DEF Last
  <2>2. ASSUME NEW p, NEW t, NEW o, NEW b, NEW f, Added(p, t, o, b, f)
        PROVE  n = Last + 1 /\ commits'[n].by = b
    BY <1>1, <1>3, <2>2 DEF Added
  <2>3. commits'[n].by = None \/ \E m \in Merger : ReplayCommits(m)
    BY <2>1, <2>2, WhoMoves DEF RefMoves, CurateCommits, HandCommits, OtherCommits
  <2>4. ASSUME NEW m \in Merger, ReplayCommits(m) PROVE ReplaysMerge(n)'
    <3>1. PICK t \in 1..Last : t = merger[m].to
      BY <2>4, MergerTyped DEF ReplayCommits
    <3>2. /\ commits'[n].parent = into /\ commits'[n].of = t
          /\ commits'[n].tree = After(Tree(into), merger[m].ops)
      BY <1>1, <1>3, <2>4, <3>1 DEF ReplayCommits, Added
    <3>3. CurrentOps(merger[m]) /\ Replays(merger[m])
      BY <2>4 DEF Current, Replays, ReplayCommits
    <3>4. ASSUME NEW b \in Fork(into, t)
          PROVE  /\ commits'[n].tree.live =
                      Merged(Tree(into).live, Tree(b).live, Tree(t).live)
                 /\ commits'[n].tree.archived =
                      Merged(Tree(into).archived, Tree(b).archived, Tree(t).archived)
      <4>1. b \in commits[into].past /\ b \in commits[t].past /\ b \in 1..Last /\ HistoryOK(t)
        BY <1>1 DEF Fork, History
      <4>2. Tree(b) \in Trees /\ Tree(t) \in Trees /\ Tree(into) \in Trees
        BY <1>1, <4>1, TreeTyped DEF Typed
      <4>3. /\ Tree(b).archived \subseteq Tree(t).archived
            /\ Tree(b).live \ Tree(t).live \subseteq Tree(t).archived
            /\ Tree(b).archived \subseteq Tree(into).archived
        BY <1>1, <4>1 DEF HistoryOK
      <4>4. merger[m].ops = Delta(Tree(b), Tree(t))
        BY <3>1, <3>3 DEF CurrentOps
      <4>. QED BY <3>2, <4>2, <4>3, <4>4, DeltaMerges
    <3>5. /\ \A b \in Fork(into, t) : b \in 1..Last
          /\ commits'[into] = commits[into] /\ commits'[t] = commits[t]
      BY <1>1 DEF Fork
    <3>6. {b \in commits'[into].past \cap commits'[t].past :
             \A c \in commits'[into].past \cap commits'[t].past : c <= b} = Fork(into, t)
      BY <3>5 DEF Fork
    <3>7. ASSUME NEW b \in Fork(into, t)
          PROVE  /\ commits'[n].tree.live =
                      Merged(commits'[into].tree.live, commits'[b].tree.live, commits'[t].tree.live)
                 /\ commits'[n].tree.archived =
                      Merged(commits'[into].tree.archived, commits'[b].tree.archived,
                             commits'[t].tree.archived)
      BY <1>1, <3>4, <3>5 DEF Tree
    <3>. QED BY <3>2, <3>6, <3>7 DEF ReplaysMerge, Fork, Tree
  <2>. QED BY <2>3, <2>4 DEF ReplaysMerge
<1>4. \A n \in 1..Last' : ReplaysMerge(n)'
  BY <1>2, <1>3
<1>. QED BY <1>4 DEF ThreeWay, ReplaysMerge

-----------------------------------------------------------------------------
(* What a merge answers. *)
Committed(m, n) == n \in 1..Last /\ commits[n].by = m

\* Before a landing nothing has moved; after one `into` has, to the merge's own commit
\* or to the tip it forwarded; and only a replay moves the curate ref.
Told(m) ==
    LET w == merger[m]
    IN  /\ w.phase \notin {"follow", "moved", "failed"} => w.moved = {}
        /\ w.phase \in {"follow", "moved"} => "into" \in w.moved
        /\ w.phase = "follow" \/ "cur" \in w.moved => \E n : Committed(m, n)
        /\ \A n : Committed(m, n) => n = w.sha /\ "into" \in w.moved
        /\ w.moved # {} => w.sha \in 1..Last /\ Descends(into, w.sha)
AllTold == \A m \in Merger : Told(m)

\* A step leaves what a merge has moved as it is, or moves one ref and says so.
MovesOne(w, v) ==
    \/ /\ v.moved = w.moved /\ v.sha = w.sha
       /\ \/ v.phase = w.phase
          \/ w.phase \notin {"follow", "moved", "failed"} /\ v.phase \notin {"follow", "moved"}
          \/ w.phase = "follow" /\ v.phase \in {"moved", "failed"}
    \/ /\ w.phase = "forward" /\ v.phase \in {"moved", "failed"}
       /\ v.moved = w.moved \cup {"into"} /\ v.sha = w.to /\ into' = w.to
    \/ /\ w.phase = "follow" /\ v.phase \in {"moved", "failed"}
       /\ v.moved = w.moved \cup {"cur"} /\ v.sha = w.sha

LEMMA MoveStep == ASSUME Typed, [Next]_vars, NEW k \in Merger
                  PROVE  MovesOne(merger[k], merger'[k]) \/ ReplayCommits(k)
<1>. DEFINE w == merger[k]
            v == merger'[k]
<1>1. merger \in [Merger -> Mergers(Last)] /\ w \in Mergers(Last)
  BY DEF Typed, CallsOK
<1>2. CASE UNCHANGED merger
  BY <1>2 DEF MovesOne
<1>3. ASSUME NEW m \in Merger, m # k,
             \/ ReadRef(m) \/ ReadInto(m) \/ AppendAndJudge(m) \/ Gate(m)
             \/ Forward(m) \/ Replay(m) \/ Follow(m) \/ Fails(m)
      PROVE  v = w
  BY <1>1, <1>3 DEF ReadRef, ReadInto, AppendAndJudge, Gate, Forward, Replay, Follow, Fails,
                    Answer, Moves, Rebased
<1>4. CASE ReadRef(k) \/ ReadInto(k)
  BY <1>1, <1>4 DEF ReadRef, ReadInto, Answer, MovesOne, Mergers
<1>5. CASE AppendAndJudge(k) \/ Gate(k) \/ Fails(k)
  BY <1>1, <1>5 DEF AppendAndJudge, Gate, Fails, Answer, MovesOne, Mergers
<1>6. CASE Forward(k) \/ Follow(k)
  <2>1. (Forward(k) => w.phase = "forward") /\ (Follow(k) => w.phase = "follow")
    BY DEF Forward, Follow
  <2>. QED BY <1>6, <2>1, SwapsSay DEF MovesOne
<1>7. CASE Replay(k)
  <2>1. CASE Answer(k, "refused")
    BY <1>1, <1>7, <2>1 DEF Replay, Answer, MovesOne, Mergers
  <2>2. CASE merger' = Rebased(k)
    BY <1>1, <2>2 DEF Rebased, MovesOne, Mergers
  <2>3. CASE into' = Last + 1
    <3>1. into # Last + 1
      BY DEF Typed, CallsOK, CommitsOK
    <3>. QED BY <1>7, <2>3, <3>1, ReplayAdds
  <2>. QED BY <1>7, <2>1, <2>2, <2>3 DEF Replay
<1>8. ASSUME NEW c \in Curator, Curate(c) \/ CurateLands(c) PROVE UNCHANGED merger
  BY <1>8 DEF Curate, CurateLands
<1>9. ASSUME NEW f \in Fact, Hand(f) \/ Other(f) PROVE UNCHANGED merger
  BY <1>9 DEF Hand, Other
<1>10. UNCHANGED vars => UNCHANGED merger
  BY DEF vars
<1>11. v = w => MovesOne(w, v)
  BY DEF MovesOne
<1>. QED BY <1>2, <1>3, <1>4, <1>5, <1>6, <1>7, <1>8, <1>9, <1>10, <1>11 DEF Next

LEMMA ToldStep == ASSUME Typed, History, Calls, AllTold, [Next]_vars PROVE AllTold'
<1>. SUFFICES ASSUME NEW k \in Merger PROVE Told(k)'
  BY DEF AllTold
<1>. DEFINE w == merger[k]
            v == merger'[k]
<1>1. /\ Last \in Nat /\ Last' \in Nat /\ Last <= Last'
      /\ \A n \in 1..Last : commits'[n] = commits[n]
      /\ into \in 1..Last /\ commits[into].past \subseteq commits'[into'].past
      /\ Told(k) /\ w.moved \subseteq {"into", "cur"}
      /\ k # None
  <2>1. w \in Mergers(Last)
    BY DEF Typed, CallsOK
  <2>2. Last \in Nat /\ Last' \in Nat
    BY TypedStep DEF Typed, CommitsOK
  <2>. QED BY <2>1, <2>2, Stays, IntoGrows, MergeAssumption DEF Typed, CallsOK, AllTold, Mergers
<1>2. \A n : Committed(k, n) => w.phase \in {"follow", "moved", "failed"}
  BY <1>1 DEF Committed, Calls, Author
<1>3. ASSUME NEW p, NEW t, NEW o, NEW b, NEW f, Added(p, t, o, b, f)
      PROVE  \A n : Committed(k, n)' <=> Committed(k, n) \/ (n = Last + 1 /\ b = k)
  BY <1>1, <1>3 DEF Added, Committed
<1>4. CASE ReplayCommits(k)
  <2>1. /\ w.phase = "replay" /\ w.moved = {} /\ \A n : ~Committed(k, n)
        /\ into' = Last + 1 /\ Last' = Last + 1 /\ Last + 1 \in commits'[Last + 1].past
        /\ v.phase \in {"follow", "failed"} /\ v.sha = Last + 1 /\ v.moved = {"into"}
    BY <1>1, <1>2, <1>4 DEF ReplayCommits, Added, Told
  <2>2. \A n : Committed(k, n)' <=> n = Last + 1
    BY <1>3, <1>4, <2>1 DEF ReplayCommits
  <2>3. v.sha \in 1..Last' /\ v.sha \in commits'[into'].past
    BY <1>1, <2>1
  <2>. QED BY <2>1, <2>2, <2>3 DEF Told, Descends
<1>5. CASE ~ReplayCommits(k)
  <2>1. \A n : Committed(k, n)' <=> Committed(k, n)
    <3>1. CASE UNCHANGED commits
      BY <3>1 DEF Committed, Last
    <3>2. ASSUME NEW m \in Merger, ReplayCommits(m)
          PROVE  \A n : Committed(k, n)' <=> Committed(k, n)
      BY <1>3, <1>5, <3>2 DEF ReplayCommits
    <3>3. ASSUME NEW p, NEW t, NEW o, Added(p, t, o, None, 0)
          PROVE  \A n : Committed(k, n)' <=> Committed(k, n)
      BY <1>1, <1>3, <3>3
    <3>. QED BY <3>1, <3>2, <3>3, WhoMoves DEF RefMoves, CurateCommits, HandCommits, OtherCommits
  <2>2. MovesOne(w, v)
    BY <1>5, MoveStep
  <2>3. w.moved # {} => w.sha \in 1..Last' /\ w.sha \in commits'[into'].past
    BY <1>1 DEF Told, Descends
  <2>4. CASE v.moved = w.moved /\ v.sha = w.sha
    BY <1>1, <2>1, <2>2, <2>3, <2>4 DEF MovesOne, Told, Descends
  <2>5. CASE /\ w.phase = "forward" /\ v.phase \in {"moved", "failed"}
             /\ v.moved = w.moved \cup {"into"} /\ v.sha = w.to /\ into' = w.to
    <3>1. w.to \in 1..Last /\ w.to \in commits[w.to].past
      BY <2>5, MergerTyped DEF Typed, CommitsOK, CommitOK
    <3>2. v.sha \in 1..Last' /\ v.sha \in commits'[into'].past
      <4>1. commits'[w.to] = commits[w.to]
        BY <1>1, <3>1
      <4>. QED BY <1>1, <2>5, <3>1, <4>1
    <3>. QED BY <1>1, <1>2, <2>1, <2>5, <3>2 DEF Told, Descends
  <2>6. CASE /\ w.phase = "follow" /\ v.phase \in {"moved", "failed"}
             /\ v.moved = w.moved \cup {"cur"} /\ v.sha = w.sha
    BY <1>1, <2>1, <2>3, <2>6 DEF Told, Descends
  <2>. QED BY <2>2, <2>4, <2>5, <2>6 DEF MovesOne
<1>. QED BY <1>4, <1>5

-----------------------------------------------------------------------------
(* The theorems. *)
IInv == Typed /\ History /\ Calls /\ Current /\ NoneLost /\ ThreeWay /\ AllTold

LEMMA Inductive == Spec => []IInv
<1>1. ASSUME Init PROVE IInv
  <2>1. Last = 1 /\ commits[1].by = None /\ commits[1].on = "into" /\ commits[1].past = {1}
    BY <1>1 DEF Init, Last
  <2>2. Calls /\ Current
    BY <1>1, <2>1 DEF Init, Calls, Swaps, Author, Current, CurrentOps, Replays, Unasked
  <2>3. NoneLost /\ ThreeWay
    BY <1>1, <2>1 DEF Init, NoneLost, NothingLost, Descends, ThreeWay
  <2>4. AllTold
    BY <1>1, <2>1, MergeAssumption DEF Init, AllTold, Told, Committed, Unasked
  <2>. QED BY <1>1, <2>2, <2>3, <2>4, InitTyped, InitHistory DEF IInv
<1>2. ASSUME IInv, [Next]_vars PROVE IInv'
  BY <1>2, TypedStep, HistoryStep, CallsStep, CurrentStep, NoneLostStep, MergesStep, ToldStep
     DEF IInv
<1>. QED BY <1>1, <1>2, PTL DEF Spec

\* No commit is lost: what was committed on `into` stays under it, and what was
\* committed on the curate ref stays under it until it has landed, for every number of
\* curators, merges and writers and wherever a merge is killed.
THEOREM NoCommitLost == Spec => []NothingLost
<1>1. IInv => NothingLost
  BY DEF IInv, NoneLost
<1>. QED BY <1>1, Inductive, PTL

\* A replay is a three-way merge without conflicts, however often it was rebased while
\* the branch moved.
THEOREM ReplayMerges == Spec => []ThreeWay
<1>1. IInv => ThreeWay
  BY DEF IInv
<1>. QED BY <1>1, Inductive, PTL

\* What a merge answers is what it did: a refusal left both refs alone, and a merge
\* that failed moved nothing or landed whole and once, whatever failed and whoever
\* moved the refs meanwhile.
THEOREM AnswersTellWhatMoved == Spec => []AnswersWhatItMoved
<1>1. IInv => AnswersWhatItMoved
  <2>. SUFFICES ASSUME IInv, NEW m \in Merger
                PROVE  LET w == merger[m]
                           own == {n \in 1..Last : commits[n].by = m}
                       IN  /\ w.phase \in {"refused", "unmoved"} => w.moved = {}
                           /\ w.phase = "moved" => "into" \in w.moved
                           /\ "cur" \in w.moved => own # {}
                           /\ own # {} => "into" \in w.moved /\ own = {w.sha}
                           /\ w.moved # {} => Descends(into, w.sha)
    BY DEF AnswersWhatItMoved
  <2>. QED BY DEF IInv, AllTold, Told, Committed
<1>. QED BY <1>1, Inductive, PTL
=============================================================================
