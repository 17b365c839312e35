------------------------------- MODULE Store -------------------------------
(***************************************************************************)
(* The v1 store and the index beside it: the operations of makeStore that  *)
(* change the corpus (packages/store/src/store.ts), each with its journal  *)
(* and compensation, and the pass that brings the SQLite index up to HEAD  *)
(* afterwards (packages/index/src/indexer.ts).  They meet twice: a write   *)
(* asks the index whether its article is held, and a pass reads whatever   *)
(* another operation has half done.                                        *)
(*                                                                         *)
(* An operation reads, decides and then runs a list of steps, all inside   *)
(* `exclusive`; a step touches the working tree (disk), git's index        *)
(* (staged) or HEAD (the last of commits).  A pass runs under no lock.     *)
(***************************************************************************)
EXTENDS Integers, Sequences, FiniteSets

CONSTANTS
    Caller,         \* what calls the store: CLI processes, tool calls of an MCP server
    Title,          \* titles, which name records and order them
    Art,            \* articles, one content hash each
    Seeds,          \* the corpora a run may start from, each indexed or not
    Kinds,          \* the calls that are made
    Env,            \* what else happens: "fault", "late", "kill", "session"
    MaxOrdinal,     \* bound: collision suffixes of a title (1000 in the code)
    MaxGeneration,  \* bound: archive slots of a path
    MaxCalls,       \* bound: calls
    None

ASSUME StoreAssumption ==
    /\ Title \subseteq Nat
    /\ {MaxOrdinal, MaxGeneration, MaxCalls} \subseteq Nat \ {0}
    /\ Kinds \subseteq {"write", "batch", "correct", "archive", "supersede", "link",
                        "update", "rebuild"}
    /\ Env \subseteq {"fault", "late", "kill", "session"}

VARIABLES
    commits,    \* the tree of every commit, HEAD's last
    staged,     \* git's index
    disk,       \* the working tree
    rows,       \* the index: the article it holds for a path
    mark,       \* index_state.head_sha: a commit, 0 when NULL, None without a row
    lock,       \* who is inside `exclusive`
    call,       \* what each caller is doing
    calls,      \* how many calls were made
    begun,      \* history: HEAD, staged and disk when the lock's holder began
    slips       \* history: what happened that leaves the index behind or ahead

vars == <<commits, staged, disk, rows, mark, lock, call, calls, begun, slips>>
tree == <<commits, staged, disk>>
index == <<rows, mark>>

(***************************************************************************)
(* Generation 0 is a live path, generation g its g-th archive slot.  A     *)
(* file is its article and the paths its <link>s name.                     *)
(***************************************************************************)
Path == [title : Title, ordinal : 1..MaxOrdinal, generation : 0..MaxGeneration]
IsLive(p) == p.generation = 0
Live == {p \in Path : IsLive(p)}
File == [art : Art, links : SUBSET Path]
IsTree(t) == DOMAIN t \subseteq Path /\ t \in [DOMAIN t -> File]
ArchiveLinks(t) == {q \in Path \ Live : \E p \in DOMAIN t : q \in t[p].links}

\* a corpus a run starts from names no archived file it does not hold
ASSUME SeedsAssumption ==
    /\ \A t \in Seeds : IsTree(t) /\ ArchiveLinks(t) \subseteq DOMAIN t
    /\ None \notin Caller \cup Path \cup Nat

Tip == commits[Len(commits)]

Holding(t, p, f) == [q \in DOMAIN t \cup {p} |-> IF q = p THEN f ELSE t[q]]
Without(t, S) == [q \in DOMAIN t \ S |-> t[q]]
At(t, p) == IF p \in DOMAIN t THEN <<t[p]>> ELSE <<>>
Reading(t, S) == [p \in S |-> At(t, p)]
\* t with each path of a reading as it was read: its file, or none
PutBack(t, was) ==
    [p \in (DOMAIN t \ DOMAIN was) \cup {q \in DOMAIN was : was[q] # <<>>} |->
        IF p \in DOMAIN was THEN was[p][1] ELSE t[p]]

ArtOf(t) == [p \in DOMAIN t |-> t[p].art]
\* no article is active twice, as files_content_hash_active wants it
OneEach(t) == \A p, q \in DOMAIN t : IsLive(p) /\ IsLive(q) /\ t[p].art = t[q].art => p = q

\* git's order of paths: archive/ sorts before the live buckets
Before(p, q) ==
    LET key(r) == <<IF IsLive(r) THEN 1 ELSE 0, r.generation, r.title, r.ordinal>>
    IN  \E i \in 1..4 : /\ key(p)[i] < key(q)[i]
                        /\ \A j \in 1..(i - 1) : key(p)[j] = key(q)[j]
First(S) == CHOOSE p \in S : \A q \in S \ {p} : Before(p, q)

(***************************************************************************)
(* What an operation decides before it touches anything.                   *)
(***************************************************************************)
Input == [art : Art, title : Title, named : BOOLEAN]    \* named: with the explicit path of its title

\* activePathForHash: the dedupe question is put to the index
IsDeduped(a) == \E p \in DOMAIN rows : IsLive(p) /\ rows[p] = a

PathUnasked(i, claimed, vacating) ==   \* mutant: an explicit path is taken as given
    LET named == [title |-> i.title, ordinal |-> 1, generation |-> 0]
        free == {p \in Live : p.title = i.title} \ (claimed \cup DOMAIN disk)
    IN  CASE i.named -> named
          [] ~i.named /\ free = {} -> None
          [] OTHER -> First(free)

FreePath(i, claimed, vacating) ==
    LET named == [title |-> i.title, ordinal |-> 1, generation |-> 0]
        free == {p \in Live : p.title = i.title} \ (claimed \cup DOMAIN disk)
    IN  CASE ~i.named -> IF free = {} THEN None ELSE First(free)
          [] i.named /\ (named \in claimed \/ (named # vacating /\ named \in DOMAIN disk)) -> None
          [] OTHER -> named

\* archiveSlotOf: the first generation with no file, past the slots the call took before
ArchiveSlot(p, taken) ==
    LET free == {q \in Path \ Live : q.title = p.title /\ q.ordinal = p.ordinal}
                \ (DOMAIN disk \cup taken)
    IN  IF free = {} THEN None ELSE First(free)

\* the steps of a plan
Note(S) == <<"note", S>>            \* the journal takes the first reading of these paths
Put(p, f) == <<"put", p, f>>        \* writeFile
Stamp(p, S) == <<"stamp", p, S>>    \* setMeta over what the file holds: links to S
Move(p, q) == <<"move", p, q>>      \* git mv
Add(S) == <<"add", S>>              \* git add
Commit == <<"commit">>              \* git commit, of the whole index
New(a, links) == [art |-> a, links |-> links]

\* stageArchive: the move, the stamps, the stage
StageArchive(p, slot, S) == <<Move(p, slot), Stamp(slot, S), Add({slot})>>

\* p gives way to q: p goes to its slot, which links to q, and q is written as f
Replacing(p, slot, q, f) ==
    <<Note({p, slot, q})>> \o StageArchive(p, slot, {q}) \o <<Put(q, f), Add({q})>>

NoneYet == [plan |-> <<>>, claimed |-> {}, arts |-> {}, aborted |-> FALSE]

ValidatedApart(acc, i, continueOnError) ==   \* mutant: the batch's own hashes are not asked
    LET p == FreePath(i, acc.claimed, None)
    IN  IF IsDeduped(i.art) \/ p = None THEN acc
        ELSE [acc EXCEPT !.plan = @ \o <<Note({p}), Put(p, New(i.art, {}))>>, !.claimed = @ \cup {p}]

\* validateOp, over a batch: its own hashes and claims first, then the store's
Validated(acc, i, continueOnError) ==
    LET p == FreePath(i, acc.claimed, None)
        held == i.art \in acc.arts \/ IsDeduped(i.art)
    IN  CASE acc.aborted -> acc
          [] ~acc.aborted /\ held -> [acc EXCEPT !.arts = @ \cup {i.art}]
          [] ~acc.aborted /\ ~held /\ p = None -> [acc EXCEPT !.aborted = ~continueOnError]
          [] OTHER -> [acc EXCEPT !.plan = @ \o <<Note({p}), Put(p, New(i.art, {}))>>,
                                  !.claimed = @ \cup {p}, !.arts = @ \cup {i.art}]

(***************************************************************************)
(* A call: its phase, the steps left and the journal while it holds the    *)
(* lock, then the HEAD, the watermark and the dirty files its pass read.   *)
(***************************************************************************)
Idle == [phase |-> "idle", steps |-> <<>>, journal |-> <<>>, head |-> 0, base |-> 0, dirty |-> <<>>]
Busy == {c \in Caller : call[c].phase # "idle"}

Init ==
    /\ \E t \in Seeds :
          /\ commits = <<t>> /\ staged = t /\ disk = t
          /\ \/ rows = <<>> /\ mark = None /\ slips = (IF t = <<>> THEN {} ELSE {"unindexed"})
             \/ OneEach(t) /\ rows = ArtOf(t) /\ mark = 1 /\ slips = {}
    /\ lock = None /\ call = [c \in Caller |-> Idle] /\ calls = 0
    /\ begun = None

May(c, kind) == kind \in Kinds /\ call[c].phase = "idle" /\ calls < MaxCalls

Starts(c, kind) ==
    /\ May(c, kind)
    /\ calls' = calls + 1
    /\ slips' = slips \cup (IF Busy = {} THEN {} ELSE {"overlap"}) \cup ({kind} \cap {"correct"})

\* exclusive: the permit and the checkout lock come first, then the plan
MayEnter(c, kind) == May(c, kind) /\ lock = None

Runs(c, kind, plan) ==
    /\ Starts(c, kind)
    /\ lock' = c
    /\ begun' = [tip |-> Tip, staged |-> staged, disk |-> disk]
    /\ call' = [call EXCEPT ![c].phase = "running", ![c].steps = Append(plan, Commit)]
    /\ UNCHANGED <<tree, index>>

WriteMemory(c) ==
    /\ MayEnter(c, "write")
    /\ \E i \in Input :
           LET p == FreePath(i, {}, None)
           IN  /\ ~IsDeduped(i.art) /\ p # None
               /\ Runs(c, "write", <<Note({p}), Put(p, New(i.art, {})), Add({p})>>)

WriteMemories(c) ==
    /\ MayEnter(c, "batch")
    /\ \E i, j \in Input, continueOnError \in BOOLEAN :
           LET v == Validated(Validated(NoneYet, i, continueOnError), j, continueOnError)
           IN  /\ ~v.aborted /\ v.plan # <<>>
               /\ Runs(c, "batch", v.plan \o <<Add(v.claimed)>>)

CorrectTowardsItself(c) ==   \* mutant: the link names the slot of the correction's path
    /\ MayEnter(c, "correct")
    /\ \E i \in Input, target \in DOMAIN disk \cap Live :
           LET slot == ArchiveSlot(target, {})
               p == FreePath(i, {}, target)
           IN  /\ slot # None /\ p # None
               /\ Runs(c, "correct",
                       Replacing(target, slot, p, New(i.art, {[p EXCEPT !.generation = 1]})))

CorrectMemory(c) ==
    /\ MayEnter(c, "correct")
    /\ \E i \in Input, target \in DOMAIN disk \cap Live :
           LET slot == ArchiveSlot(target, {})
               p == FreePath(i, {}, target)
           IN  /\ slot # None /\ p # None
               /\ Runs(c, "correct", Replacing(target, slot, p, New(i.art, {slot})))

ArchiveMemory(c) ==
    /\ MayEnter(c, "archive")
    /\ \E p \in DOMAIN disk \cap Live :
           LET slot == ArchiveSlot(p, {})
           IN  /\ slot # None
               /\ Runs(c, "archive", <<Note({p, slot})>> \o StageArchive(p, slot, {}))

\* the winner's bytes were read before the first pair, and gain a link per loser
SupersedeMemories(c) ==
    /\ MayEnter(c, "supersede")
    /\ \E winner \in DOMAIN disk, p, q \in DOMAIN disk \cap Live :
           LET a == ArchiveSlot(p, {})
               b == ArchiveSlot(q, {a})
               linked(S) == [disk[winner] EXCEPT !.links = @ \cup S]
               first == Replacing(p, a, winner, linked({a}))
           IN  /\ a # None
               /\ \/ Runs(c, "supersede", first)
                  \/ b # None /\ Runs(c, "supersede", first \o Replacing(q, b, winner, linked({a, b})))

LinkMemories(c) ==
    /\ MayEnter(c, "link")
    /\ \E src, dst \in DOMAIN disk :
           /\ src # dst /\ dst \notin disk[src].links
           /\ Runs(c, "link", <<Note({src}), Put(src, [disk[src] EXCEPT !.links = @ \cup {dst}]),
                                Add({src})>>)

(***************************************************************************)
(* The steps.                                                              *)
(***************************************************************************)
Doing(c, do) == call[c].phase = "running" /\ call[c].steps[1][1] = do
Stepped(c) == call' = [call EXCEPT ![c].steps = Tail(@)]
Frame == UNCHANGED <<index, lock, calls, begun, slips>>

NoteLast(c) ==   \* mutant: the journal keeps the last reading of a path
    /\ Doing(c, "note")
    /\ LET S == call[c].steps[1][2]
       IN  call' = [call EXCEPT ![c].steps = Tail(@),
                       ![c].journal = [p \in DOMAIN @ \cup S |-> IF p \in S THEN At(disk, p) ELSE @[p]]]
    /\ UNCHANGED tree /\ Frame

NoteStep(c) ==
    /\ Doing(c, "note")
    /\ LET fresh == call[c].steps[1][2] \ DOMAIN call[c].journal
       IN  call' = [call EXCEPT ![c].steps = Tail(@),
                       ![c].journal = [p \in DOMAIN @ \cup fresh |->
                                          IF p \in fresh THEN At(disk, p) ELSE @[p]]]
    /\ UNCHANGED tree /\ Frame

PutStep(c) ==
    /\ Doing(c, "put")
    /\ disk' = Holding(disk, call[c].steps[1][2], call[c].steps[1][3])
    /\ Stepped(c) /\ UNCHANGED <<commits, staged>> /\ Frame

StampStep(c) ==
    /\ Doing(c, "stamp")
    /\ LET p == call[c].steps[1][2]
       IN  disk' = [disk EXCEPT ![p].links = @ \cup call[c].steps[1][3]]
    /\ Stepped(c) /\ UNCHANGED <<commits, staged>> /\ Frame

\* git mv wants a tracked source and a free destination
CanMove(p, q) == p \in DOMAIN staged \cap DOMAIN disk /\ q \notin DOMAIN disk

MoveStep(c) ==
    /\ Doing(c, "move")
    /\ LET p == call[c].steps[1][2]
           q == call[c].steps[1][3]
       IN  /\ CanMove(p, q)
           /\ disk' = Holding(Without(disk, {p}), q, disk[p])
           /\ staged' = Holding(Without(staged, {p}), q, staged[p])
    /\ Stepped(c) /\ UNCHANGED commits /\ Frame

AddStep(c) ==
    /\ Doing(c, "add")
    /\ staged' = PutBack(staged, Reading(disk, call[c].steps[1][2]))
    /\ Stepped(c) /\ UNCHANGED <<commits, disk>> /\ Frame

\* git commits the whole index, or nothing when it equals HEAD
Landed == commits' = IF staged = Tip THEN commits ELSE Append(commits, staged)

CommitStep(c) ==
    /\ Doing(c, "commit")
    /\ Landed
    /\ call' = [call EXCEPT ![c] = [Idle EXCEPT !.phase = "reindex"]]
    /\ lock' = None /\ begun' = None
    /\ UNCHANGED <<staged, disk, index, calls, slips>>

\* the commit landed and the caller is interrupted before the store knows it
LateFailure(c) ==
    /\ "late" \in Env /\ Doing(c, "commit") /\ staged # Tip
    /\ Landed
    /\ call' = [call EXCEPT ![c].phase = "reset"]
    /\ slips' = slips \cup {"late"}
    /\ UNCHANGED <<staged, disk, index, lock, calls, begun>>

StepFails(c) ==
    /\ call[c].phase = "running"
    /\ \/ "fault" \in Env
       \/ Doing(c, "move") /\ ~CanMove(call[c].steps[1][2], call[c].steps[1][3])
    /\ call' = [call EXCEPT ![c].phase = "reset"]
    /\ UNCHANGED tree /\ Frame

\* restore: unstage every noted path, then put each one back
Reset(c) ==
    /\ call[c].phase = "reset"
    /\ staged' = PutBack(staged, Reading(Tip, DOMAIN call[c].journal))
    /\ call' = [call EXCEPT ![c].phase = "rewrite"]
    /\ UNCHANGED <<commits, disk>> /\ Frame

Ended(c) == call' = [call EXCEPT ![c] = Idle]

RewriteHolding(c) ==   \* mutant: the permit is not given back after a compensation
    /\ call[c].phase = "rewrite"
    /\ disk' = PutBack(disk, call[c].journal)
    /\ Ended(c)
    /\ UNCHANGED <<commits, staged, index, lock, calls, begun, slips>>

Rewrite(c) ==
    /\ call[c].phase = "rewrite"
    /\ disk' = PutBack(disk, call[c].journal)
    /\ Ended(c) /\ lock' = None /\ begun' = None
    /\ UNCHANGED <<commits, staged, index, calls, slips>>

\* the compensation is logged, not raised, when it fails itself
RestoreFails(c) ==
    /\ "fault" \in Env /\ call[c].phase \in {"reset", "rewrite"}
    /\ Ended(c) /\ lock' = None /\ begun' = None
    /\ slips' = slips \cup {"unrestored"}
    /\ UNCHANGED <<tree, index, calls>>

(***************************************************************************)
(* The index pass: Indexer.update, or a reprojection of the whole HEAD.    *)
(***************************************************************************)
Clashes(r, p, a) == IsLive(p) /\ \E q \in DOMAIN r \ {p} : IsLive(q) /\ r[q] = a

(***************************************************************************)
(* A pass is one transaction of entries, one per path, written in git's    *)
(* order.  An entry takes the rows of some paths away and may put one in   *)
(* its own; files_content_hash_active fails the transaction whole.         *)
(***************************************************************************)
Entry(p, t, sources) ==
    [gone |-> sources \cup (IF p \in DOMAIN t THEN {} ELSE {p}),
     art |-> IF p \in DOMAIN t THEN <<t[p].art>> ELSE <<>>]
Written(entries, S) == {p \in S : entries[p].art # <<>>}

\* the rows once the entries of S are in
After(r, entries, S) ==
    [p \in (DOMAIN r \ UNION {entries[q].gone : q \in S}) \cup Written(entries, S) |->
        IF p \in Written(entries, S) THEN entries[p].art[1] ELSE r[p]]
AfterAll(r, entries) == After(r, entries, DOMAIN entries)

Accepts(r, entries) ==
    \A p \in Written(entries, DOMAIN entries) :
        LET earlier == After(r, entries, {q \in DOMAIN entries : Before(q, p)})
        IN  ~Clashes(Without(earlier, entries[p].gone), p, entries[p].art[1])

Differ(t, u) == {p \in DOMAIN t \cup DOMAIN u : At(t, p) # At(u, p)}
\* the paths p was renamed from
Sources(old, new, p) ==
    IF p \in DOMAIN new \ DOMAIN old
    THEN {q \in DOMAIN old \ DOMAIN new : old[q].art = new[p].art} ELSE {}
Moved(old, new) == UNION {Sources(old, new, p) : p \in DOMAIN new}

DiffBlind(old, new) ==   \* mutant: a renamed path leaves its row behind
    [p \in Differ(old, new) \ Moved(old, new) |-> Entry(p, new, {})]

\* diff --name-status -M: a path that appeared takes the row of the one it was renamed from
Diff(old, new) == [p \in Differ(old, new) \ Moved(old, new) |-> Entry(p, new, Sources(old, new, p))]

\* status --porcelain: every path on which HEAD, git's index and the tree disagree
Dirty == Differ(Tip, staged) \cup Differ(staged, disk)

Update(c) ==
    /\ Starts(c, "update")
    /\ call' = [call EXCEPT ![c].phase = "reindex"]
    /\ UNCHANGED <<tree, index, lock, begun>>

Rebuild(c) ==
    /\ Starts(c, "rebuild")
    /\ call' = [call EXCEPT ![c].phase = "truncate"]
    /\ UNCHANGED <<tree, index, lock, begun>>

PassFrame == UNCHANGED <<tree, lock, calls, begun, slips>>

ReadHead(c) ==
    /\ call[c].phase = "reindex"
    /\ call' = [call EXCEPT ![c].phase = "state", ![c].head = Len(commits)]
    /\ UNCHANGED index /\ PassFrame

\* no row: a first reprojection; a row with no commit: IndexStale
ReadState(c) ==
    /\ call[c].phase = "state"
    /\ call' = [call EXCEPT ![c] =
                   CASE mark = None -> [@ EXCEPT !.phase = "truncate"]
                     [] mark = 0 -> Idle
                     [] OTHER -> [@ EXCEPT !.phase = "status", !.base = mark]]
    /\ UNCHANGED index /\ PassFrame

ReadStatus(c) ==
    /\ call[c].phase = "status"
    /\ call' = [call EXCEPT ![c].phase = "apply",
                            ![c].dirty = Reading(disk, Dirty)]
    /\ slips' = slips \cup (IF Dirty = {} THEN {} ELSE {"dirty"})
    /\ UNCHANGED <<tree, index, lock, calls, begun>>

Apply(c) ==
    LET read == call[c].dirty
        onDisk == [p \in {q \in DOMAIN read : read[q] # <<>>} |-> read[p][1]]
        diff == Diff(commits[call[c].base], commits[call[c].head])
        dirty == [p \in DOMAIN read |-> Entry(p, onDisk, {})]
    IN  /\ call[c].phase = "apply"
        /\ IF Accepts(rows, diff) /\ Accepts(AfterAll(rows, diff), dirty)
           THEN /\ rows' = AfterAll(AfterAll(rows, diff), dirty)
                /\ call' = [call EXCEPT ![c].phase = "mark"]
           ELSE /\ rows' = rows
                /\ Ended(c)
        /\ UNCHANGED mark /\ PassFrame

Truncate(c) ==
    /\ call[c].phase = "truncate"
    /\ rows' = <<>> /\ mark' = 0
    /\ call' = [call EXCEPT ![c].phase = "load", ![c].head = Len(commits)]
    /\ PassFrame

Load(c) ==
    LET t == commits[call[c].head]
        entries == [p \in DOMAIN t |-> Entry(p, t, {})]
    IN  /\ call[c].phase = "load"
        /\ IF Accepts(rows, entries)
           THEN /\ rows' = AfterAll(rows, entries)
                /\ call' = [call EXCEPT ![c].phase = "mark"]
           ELSE /\ rows' = rows
                /\ Ended(c)
        /\ UNCHANGED mark /\ PassFrame

WriteState(c) ==
    /\ call[c].phase = "mark"
    /\ mark' = call[c].head
    /\ Ended(c)
    /\ UNCHANGED rows /\ PassFrame

(***************************************************************************)
(* What else happens.  A killed caller's lock goes with it (CheckoutLock); *)
(* a session commit (SessionCommit) lands under the lock, over paths that  *)
(* are clean, and runs no index pass.                                      *)
(***************************************************************************)
Killed(c) ==
    /\ "kill" \in Env /\ call[c].phase # "idle"
    /\ Ended(c)
    /\ lock' = IF lock = c THEN None ELSE lock
    /\ begun' = IF lock = c THEN None ELSE begun
    /\ slips' = slips \cup {"kill"} \cup (IF call[c].phase = "mark" THEN {"unmarked"} ELSE {})
    /\ UNCHANGED <<tree, index, calls>>

Lands(S, t) ==
    /\ S \cap Dirty = {}
    /\ commits' = Append(commits, t)
    /\ staged' = PutBack(staged, Reading(t, S))
    /\ disk' = PutBack(disk, Reading(t, S))

IsActive(t, a) == \E p \in DOMAIN t : IsLive(p) /\ t[p].art = a

SessionCommit ==
    /\ "session" \in Env /\ lock = None /\ calls < MaxCalls
    /\ \/ \E p \in Live \ DOMAIN Tip, a \in Art :
            ~IsActive(Tip, a) /\ Lands({p}, Holding(Tip, p, New(a, {})))
       \/ \E p \in DOMAIN Tip \cap Live : \E q \in Path \ (Live \cup DOMAIN Tip) :
            /\ q.title = p.title /\ q.ordinal = p.ordinal
            /\ Lands({p, q}, Holding(Without(Tip, {p}), q, Tip[p]))
    /\ calls' = calls + 1
    /\ slips' = slips \cup {"session"}
    /\ UNCHANGED <<index, lock, call, begun>>

Operation(c) ==
    \/ WriteMemory(c) \/ WriteMemories(c) \/ CorrectMemory(c) \/ ArchiveMemory(c)
    \/ SupersedeMemories(c) \/ LinkMemories(c) \/ Update(c) \/ Rebuild(c)

Step(c) ==
    \/ NoteStep(c) \/ PutStep(c) \/ StampStep(c) \/ MoveStep(c) \/ AddStep(c) \/ CommitStep(c)
    \/ StepFails(c) \/ LateFailure(c) \/ Reset(c) \/ Rewrite(c) \/ RestoreFails(c)
    \/ ReadHead(c) \/ ReadState(c) \/ ReadStatus(c) \/ Apply(c)
    \/ Truncate(c) \/ Load(c) \/ WriteState(c)

Next == (\E c \in Caller : Operation(c) \/ Step(c) \/ Killed(c)) \/ SessionCommit

Spec == Init /\ [][Next]_vars

-----------------------------------------------------------------------------
\* The variables have their types, and the lock its holder: it is taken exactly while a caller
\* runs its steps or puts back what it did, whichever way the call ended.
StoreTypeOK ==
    /\ Len(commits) >= 1
    /\ \A t \in {commits[n] : n \in DOMAIN commits} \cup {staged, disk} : IsTree(t)
    /\ DOMAIN rows \subseteq Path /\ \A p \in DOMAIN rows : rows[p] \in Art
    /\ mark \in 0..Len(commits) \cup {None}
    /\ lock \in Caller \cup {None}
    /\ \A c \in Caller : lock = c <=> call[c].phase \in {"running", "reset", "rewrite"}

\* An operation that fails leaves the tree it found, whichever step failed: the working tree byte
\* for byte, HEAD, and of git's index at most what an earlier, killed operation had left staged.
FailedChangesNothing ==
    [][\A c \in Caller : Rewrite(c) /\ "late" \notin slips =>
          /\ disk' = begun.disk
          /\ Tip' = begun.tip
          /\ \A p \in Path : At(staged', p) \in {At(begun.staged, p), At(Tip, p)}]_vars

ArtsOf(t) == {t[p].art : p \in DOMAIN t}

\* Nothing is ever removed: an article that was at HEAD is at HEAD still, or in a file of the
\* working tree, whatever was written over, corrected, archived or given up half-way.
NothingRemoved ==
    "late" \notin slips =>
        \A n \in DOMAIN commits : ArtsOf(commits[n]) \subseteq ArtsOf(Tip) \cup ArtsOf(disk)

\* With a clean tree and no pass running, an index whose watermark is HEAD holds what a fresh
\* rebuild would, whatever failed, was killed or landed from a session before: unless two calls
\* ran at once, a pass died between its rows and its watermark, or one read a dirty tree.
FreshAgrees ==
    mark = Len(commits) /\ Dirty = {} /\ Busy = {} /\ slips \cap {"overlap", "unmarked", "dirty"} = {} =>
        rows = ArtOf(Tip)

\* Every link into archive/ that HEAD holds, a `supersedes` above all, names a file that is there.
ArchiveLinksResolve ==
    "late" \notin slips =>
        ArchiveLinks(Tip) \subseteq DOMAIN Tip \cup DOMAIN disk

\* No article is active twice at HEAD, so that HEAD can be indexed: files_content_hash_active refuses
\* the second row, and with it the pass, every later pass, and every rebuild.
ActiveOnce == OneEach(Tip)

\* ... as long as the index was there, no correction ran and every pass ended before the next call.
ActiveOnceInTurn == slips = {} => ActiveOnce
=============================================================================
