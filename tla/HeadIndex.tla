----------------------------- MODULE HeadIndex -----------------------------
(***************************************************************************)
(* The version of a branch held in memory: the indexes a load builds, how  *)
(* a held version is advanced over a range of commits, and the snapshots a *)
(* load may start from (packages/head/src, apps/cli/src/head-cache.ts).    *)
(*                                                                         *)
(* A path is a number, in the byte order git lists paths in; archive/ sorts*)
(* before every live directory, so a path up to Names is the archive slot  *)
(* of the path Names above it. A file is its article (its content hash) and *)
(* the paths its links name, or does not parse. An index from keys to sets *)
(* of paths is a relation of keys and paths.                               *)
(***************************************************************************)
EXTENDS Naturals, Sequences, FiniteSets, SequencesExt, Functions, TLC

CONSTANTS
    Names,      \* how many live paths there are
    Article,    \* the contents a live record may have
    Broken,     \* stands for the bytes of a file that does not parse
    MaxCommits, \* bound: trees on the branch
    Kept        \* SNAPSHOTS_KEPT

VARIABLES
    branch,     \* the trees of the branch, oldest first; a sha is its place here
    held,       \* the version a process holds
    snapshots   \* the files under .memhtml/snapshots, newest first

vars == <<branch, held, snapshots>>

Path == 1 .. 2 * Names
Archived(p) == p <= Names
Slot(p) == p - Names
Tip == Len(branch)
InOrder(S) == SetToSortSeq(S, <)
Without(f, x) == Restrict(f, DOMAIN f \ {x})

-----------------------------------------------------------------------------
(* The indexes and their two writers.                                      *)

EmptyIndexes == [records |-> <<>>, holder |-> <<>>, active |-> {}, inbound |-> {}]

Holds(ix, article, p) == article \in DOMAIN ix.holder /\ ix.holder[article] = p

RemoveRecord(ix, p) ==
    IF p \notin DOMAIN ix.records THEN ix
    ELSE LET file == ix.records[p]
         IN  [records |-> Without(ix.records, p),
              holder  |-> IF Holds(ix, file.article, p)
                          THEN Without(ix.holder, file.article) ELSE ix.holder,
              active  |-> ix.active \ {<<file.article, p>>},
              inbound |-> ix.inbound \ (file.links \X {p})]

InsertRecord(ix, p, file) ==
    LET cleared == RemoveRecord(ix, p)
        free    == file.article \notin DOMAIN cleared.holder
    IN  [records |-> (p :> file) @@ cleared.records,
         holder  |-> IF ~Archived(p) /\ free
                     THEN (file.article :> p) @@ cleared.holder ELSE cleared.holder,
         active  |-> cleared.active \cup (IF Archived(p) THEN {} ELSE {<<file.article, p>>}),
         inbound |-> cleared.inbound \cup (file.links \X {p})]

-----------------------------------------------------------------------------
(* Versions: from a tree, from a snapshot's records, from a parent.        *)

Parses(file) == file.article # Broken

\* The files of tree at paths, parsed in ls-tree order over the indexes ix.
ParseOver(ix, tree, paths) ==
    FoldLeft(LAMBDA acc, p : IF Parses(tree[p]) THEN InsertRecord(acc, p, tree[p])
                             ELSE RemoveRecord(acc, p),
             ix, InOrder(paths))

Skipped(tree, paths) == {p \in paths : ~Parses(tree[p])}

LoadHead(sha) ==
    LET tree == branch[sha]
    IN  [sha     |-> sha,
         indexes |-> ParseOver(EmptyIndexes, tree, DOMAIN tree),
         skipped |-> Skipped(tree, DOMAIN tree)]

\* A snapshot keeps the order of a hash map, which is any order.
VersionFromRecords(records, sha) ==
    [sha     |-> sha,
     indexes |-> FoldLeft(LAMBDA acc, p : InsertRecord(acc, p, records[p]),
                          EmptyIndexes, SetToSeq(DOMAIN records)),
     skipped |-> {}]

Differs(old, new, p) ==
    \/ (p \in DOMAIN old) # (p \in DOMAIN new)
    \/ p \in DOMAIN old /\ old[p] # new[p]
ChangedPaths(from, to) == {p \in Path : Differs(branch[from], branch[to], p)}

AdvanceHead(from, to) ==
    LET changed == ChangedPaths(from.sha, to)
        present == changed \cap DOMAIN branch[to]
        toParse == {p \in present : Differs(from.indexes.records, branch[to], p)}
        removed == FoldLeft(RemoveRecord, from.indexes, InOrder(changed \ present))
    IN  IF to = from.sha THEN from
        ELSE [sha     |-> to,
              indexes |-> ParseOver(removed, branch[to], toParse),
              skipped |-> (from.skipped \ changed) \cup Skipped(branch[to], toParse)]

-----------------------------------------------------------------------------
(* The snapshots of a clone.                                               *)

OfCommit(sha) == {i \in DOMAIN snapshots : snapshots[i].sha = sha}
Distance(i) == Cardinality(ChangedPaths(snapshots[i].sha, Tip))
\* The ancestor to advance from: the fewest changed paths, of those the newest.
Nearest(i) == \A j \in DOMAIN snapshots : \/ Distance(i) < Distance(j)
                                          \/ Distance(i) = Distance(j) /\ i <= j

FromSnapshot(i) == VersionFromRecords(snapshots[i].records, snapshots[i].sha)

\* The version at the tip: from its own snapshot, else from an ancestor's, else from git.
LoadVersion ==
    LET own == OfCommit(Tip)
        ancestors == {i \in DOMAIN snapshots : Nearest(i)}
    IN  IF own # {} THEN FromSnapshot(CHOOSE i \in own : TRUE)
        ELSE IF ancestors # {} THEN AdvanceHead(FromSnapshot(CHOOSE i \in ancestors : TRUE), Tip)
        ELSE LoadHead(Tip)

PruneSnapshots(files) == SubSeq(files, 1, IF Len(files) < Kept THEN Len(files) ELSE Kept)

-----------------------------------------------------------------------------
(* Commits on the branch. None of them means to make a second live record  *)
(* of an article: a session asks the held version, a v1 write the SQLite   *)
(* index, taken here to be current. (A v1 correction asks nothing: what    *)
(* follows is in Store, and left out here as it is of a person's edit.)    *)

Current == branch[Tip]
Unheld(article) == \A p \in DOMAIN Current : Archived(p) \/ Current[p].article # article
File(article, links) == [article |-> article, links |-> links]

Lands(tree) ==
    /\ Tip < MaxCommits
    /\ branch' = Append(branch, tree)
    /\ UNCHANGED <<held, snapshots>>

\* A session's put, at a path the version in memory holds nothing live at.
Put(p, article, links) ==
    /\ held.sha = Tip
    /\ p \notin DOMAIN Current
    /\ article \notin DOMAIN held.indexes.holder
    /\ Lands((p :> File(article, links)) @@ Current)

\* A v1 write, at a free path.
Write(p, article, links) ==
    /\ p \notin DOMAIN Current
    /\ Unheld(article)
    /\ Lands((p :> File(article, links)) @@ Current)

Moved(p) == (Slot(p) :> Current[p]) @@ Without(Current, p)

Archive(p) ==
    /\ p \in DOMAIN Current /\ Parses(Current[p])
    /\ Slot(p) \notin DOMAIN Current
    /\ Lands(Moved(p))

\* A v1 correction of p, at q: its own path again, or a free one.
Correct(p, q, article) ==
    /\ p \in DOMAIN Current /\ Parses(Current[p])
    /\ Slot(p) \notin DOMAIN Current
    /\ q = p \/ q \notin DOMAIN Current
    /\ Unheld(article)
    /\ Lands((q :> File(article, {Slot(p)})) @@ Moved(p))

\* A person edits one file, perhaps into one that does not parse, and commits it.
Edit(p, article) ==
    /\ p \in DOMAIN Current
    /\ article = Broken \/ Unheld(article)
    /\ Lands([Current EXCEPT ![p].article = article])

-----------------------------------------------------------------------------
(* What the process that holds the version does.                           *)

Follow ==
    /\ held' = AdvanceHead(held, Tip)
    /\ UNCHANGED <<branch, snapshots>>

Start ==
    /\ held' = LoadVersion
    /\ UNCHANGED <<branch, snapshots>>

\* After a commit, or on request: the version that was held is advanced, or one is loaded.
WriteSnapshot ==
    \E version \in {AdvanceHead(held, Tip), LoadVersion} :
        LET file   == [sha |-> Tip, records |-> version.indexes.records]
            others == SelectSeq(snapshots, LAMBDA s : s.sha # Tip)
        IN  /\ snapshots' = PruneSnapshots(<<file>> \o others)
            /\ UNCHANGED <<branch, held>>

\* A snapshot that cannot be read is a miss, and is removed.
LoseSnapshot(i) ==
    /\ snapshots' = RemoveAt(snapshots, i)
    /\ UNCHANGED <<branch, held>>

Init ==
    /\ branch = << <<>> >>
    /\ held = [sha |-> 1, indexes |-> EmptyIndexes, skipped |-> {}]
    /\ snapshots = <<>>

Live == {p \in Path : ~Archived(p)}

Next ==
    \/ \E p \in Live, article \in Article, links \in SUBSET Live :
           Put(p, article, links) \/ Write(p, article, links)
    \/ \E p \in Live : Archive(p)
    \/ \E p, q \in Live, article \in Article : Correct(p, q, article)
    \/ \E p \in Live, article \in Article \cup {Broken} : Edit(p, article)
    \/ Follow
    \/ Start
    \/ WriteSnapshot
    \/ \E i \in DOMAIN snapshots : LoseSnapshot(i)

Spec == Init /\ [][Next]_vars

-----------------------------------------------------------------------------
(* "A version built from scratch and one built by advancing agree node for *)
(* node": however a version was come by, its indexes are those a load of   *)
(* its commit from git would build.                                        *)
AgreesWithLoad == held.indexes = LoadHead(held.sha).indexes
=============================================================================
