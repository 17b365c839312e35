----------------------------- MODULE OverlayLog -----------------------------
(***************************************************************************)
(* What a session's log of overlay ops means, in the three places that     *)
(* read it from the first op to the last:                                  *)
(*                                                                         *)
(*   packages/session/src/validate.ts   validateOps: may the log land?     *)
(*   packages/head/src/overlay.ts       withOverlay: what the session sees *)
(*   packages/session/src/commit.ts     stage: the tree the commit writes  *)
(*                                                                         *)
(* and the repoints moves.ts appends for the edges an archive or a move    *)
(* leaves behind.  Each of the three is a fold over the log, so one action *)
(* here, an op joining the log, is one step of all three.  The validator   *)
(* refuses a log for its first bad op, so a log is followed only while no  *)
(* op of it is bad; what it judges after the walk is Accepted.             *)
(*                                                                         *)
(* A path is a name and the archive generation it sits in, 0 for a live    *)
(* path; the paths are spelled canonically and the year of an archive is   *)
(* one.  A record is its article (its content hash), the paths its links   *)
(* name, and its entities.  Link relations, and the format of a file, are  *)
(* not modelled: neither changes which record is where.                    *)
(***************************************************************************)
EXTENDS Naturals, FiniteSets

CONSTANTS
    Name,           \* the paths a record may live at
    Article,        \* contents, as the content hash tells them apart
    Entity,         \* values of memhtml-entity
    Rival,          \* the articles that contradict an article
    Workspace,      \* names under projects/<slug>/, which anchor a record
    Curated,        \* names under areas/arcs/ and resources/people/
    CurateScope,    \* whether the log is judged under the scope `curate`
    RequireAnchor,  \* the store's write bar
    Cap,            \* BATCH_CAP
    MaxGeneration,  \* bound: archivings of one name
    MaxEdges,       \* bound: links of a new record
    MaxCommits,     \* bound: logs committed one after another
    BaseHeads,      \* versions a session may start from
    ArchivePut,     \* archive paths a writer puts at
    Reuse           \* what a writer may do at a path its log archived: put, edit

Live(n) == [name |-> n, generation |-> 0]
Path == [name : Name, generation : 0..MaxGeneration]
Record == [article : Article, links : SUBSET Path, entities : SUBSET Entity]

\* archive/<YYYY>[.<n>]/<original path>
IsArchivePath(p) == p.generation > 0

\* A put goes where the writer says, an archive path included: putPathFor returns an explicit path
\* as it is, and an exec that changed a file in the archive is harvested as a put at its slot.
PutPath == {Live(n) : n \in Name} \cup ArchivePut

IsBareYear(slot, taken) == slot.generation = 1    \* mutant: always the bare year
IsFree(slot, taken) == slot \notin taken          \* mutant: any free generation

\* What archiveSlotFor picks: the lowest generation nothing holds.
IsFirstFree(slot, taken) ==
    /\ slot \notin taken
    /\ \A g \in 1..(slot.generation - 1) : [slot EXCEPT !.generation = g] \in taken

IsReserved(p) == ~CurateScope /\ ~IsArchivePath(p) /\ p.name \in Curated

IsAnchored(p, entities) == entities # {} \/ (~IsArchivePath(p) /\ p.name \in Workspace)

\* A tree is a map from some of the paths to records.
IsMap(f, values) == DOMAIN f \subseteq Path /\ f \in [DOMAIN f -> values]
With(tree, p, r) == [q \in DOMAIN tree \cup {p} |-> IF q = p THEN r ELSE tree[q]]
Without(tree, p) == [q \in DOMAIN tree \ {p} |-> tree[q]]
IsActiveIn(tree, p) == p \in DOMAIN tree /\ ~IsArchivePath(p)

Slots(tree, n) == {g \in 1..MaxGeneration : [name |-> n, generation |-> g] \in DOMAIN tree}

\* A reader that counts up from the first generation of a name sees them all.
NoGap(tree, n) == \A g \in Slots(tree, n) : 1..g \subseteq Slots(tree, n)

\* A tidy version of the store: no two live records hold one article, and every live record is
\* anchored where the store asks for it.
Tidy(tree) ==
    /\ \A p, q \in DOMAIN tree :
         IsActiveIn(tree, p) /\ IsActiveIn(tree, q) /\ tree[p].article = tree[q].article => p = q
    /\ RequireAnchor => \A p \in DOMAIN tree :
         IsArchivePath(p) \/ IsAnchored(p, tree[p].entities)

ASSUME LogAssumption ==
    /\ IsFiniteSet(Path)
    /\ Workspace \subseteq Name /\ Curated \subseteq Name
    /\ ArchivePut \subseteq {p \in Path : IsArchivePath(p)}
    /\ Rival \in [Article -> SUBSET Article]
    /\ CurateScope \in BOOLEAN /\ RequireAnchor \in BOOLEAN /\ Reuse \subseteq {"put", "edit"}
    /\ Cap \in Nat /\ MaxGeneration \in Nat /\ MaxEdges \in Nat /\ MaxCommits \in Nat
    /\ \A base \in BaseHeads : IsMap(base, Record) /\ Tidy(base)

VARIABLES
    head,      \* the version the log is judged against and lands on
    count,     \* ops in the log
    claimed,   \* batchHashes: articles the log puts
    puts,      \* batchPuts: the article put at a path
    edges,     \* batchEdges: the links of a path the log edited
    labels,    \* batchEntities: the entities of a path the log edited
    unlabeled, \* paths an unlabel edited
    archives,  \* <<source, slot>> of each archive
    moves,     \* <<source, destination>> of each move
    aims,      \* targets of links that the head does not hold
    unlinked,  \* <<path its holder began at, target>> of each edge dropped
    putAgain,  \* paths put at after the log archived what was there
    overlay,   \* withOverlay: the session's view
    inStep,    \* withOverlay has not failed on an op
    writes,    \* stage: files to write
    removes,   \* stage: paths to remove
    inert,     \* stage: some head op left its file unchanged
    commits    \* logs committed

walk == <<claimed, puts, edges, labels, unlabeled, archives, moves, aims, unlinked, putAgain>>
staged == <<writes, removes, inert>>
vars == <<head, count, walk, overlay, inStep, staged, commits>>

Archived == {v[1] : v \in archives}
ArchiveDestinations == {v[2] : v \in archives}
MovedAway == {v[1] : v \in moves}
MovedInto == {v[2] : v \in moves}
HasMoved(p) == p \in MovedAway   \* mutant: archived earlier in the batch does not count
HasLeft(p) == p \in MovedAway \/ p \in Archived
BatchCreates == DOMAIN puts \cup ArchiveDestinations \cup MovedInto

EdgesOf(p) ==
    IF p \in DOMAIN edges THEN edges[p] ELSE IF p \in DOMAIN head THEN head[p].links ELSE {}
EntitiesOf(p) ==
    IF p \in DOMAIN labels THEN labels[p]
    ELSE IF p \in DOMAIN head THEN head[p].entities ELSE {}

IsLiveSource(p) ==
    \/ IsActiveIn(head, p) /\ p \notin MovedAway
    \/ p \in DOMAIN puts
    \/ p \in MovedInto

\* stage's read of a file: from an earlier op of the log, else from the head.
HasFile(p) == p \in DOMAIN writes \cup DOMAIN head
HeadFile(p) ==                   \* mutant: the head before the batch
    IF p \in DOMAIN head THEN head[p] ELSE writes[p]
File(p) == IF p \in DOMAIN writes THEN writes[p] ELSE head[p]

-----------------------------------------------------------------------------
Nowhere == << >>  \* the function of no path

\* A log with no op over the version its session sits on.
Init ==
    /\ head \in BaseHeads /\ overlay = head
    /\ count = 0 /\ commits = 0
    /\ claimed = {} /\ puts = Nowhere /\ edges = Nowhere /\ labels = Nowhere
    /\ unlabeled = {} /\ archives = {} /\ moves = {} /\ aims = {} /\ unlinked = {} /\ putAgain = {}
    /\ inStep = TRUE
    /\ writes = Nowhere /\ removes = {} /\ inert = FALSE

\* A path its own log archived holds no record in the session's view, so it is free for a put
\* (putPathFor); an edit there is by a writer that did not look, unless a put filled it again.
MayPut(p) == p \notin Archived \/ "put" \in Reuse
MayEdit(p) == p \notin Archived \/ p \in putAgain \/ "edit" \in Reuse

AppendOp ==
    /\ count < Cap
    /\ commits < MaxCommits
    /\ count' = count + 1
    /\ UNCHANGED <<head, commits>>

Put(p, r) ==
    /\ AppendOp
    /\ MayPut(p)
    /\ ~IsReserved(p)
    /\ r.article \notin claimed
    /\ \A q \in DOMAIN head : IsActiveIn(head, q) => head[q].article # r.article
    /\ ~IsActiveIn(head, p) /\ p \notin MovedInto
    /\ RequireAnchor /\ ~IsArchivePath(p) => IsAnchored(p, r.entities)
    /\ claimed' = claimed \cup {r.article}
    /\ puts' = With(puts, p, r.article)
    /\ edges' = With(edges, p, r.links)
    /\ labels' = With(labels, p, r.entities)
    /\ putAgain' = IF p \in Archived THEN putAgain \cup {p} ELSE putAgain
    /\ overlay' = With(overlay, p, r)
    /\ writes' = With(writes, p, r)
    /\ removes' = removes \ {p}
    /\ UNCHANGED <<unlabeled, archives, moves, aims, unlinked, inStep, inert>>

\* The op's own bytes, as minted before the source gained any head-only edge or label.
Minted(article) == [article |-> article, links |-> {}, entities |-> {}]

SourceArticle(p) == IF p \in DOMAIN puts THEN puts[p] ELSE head[p].article

Archive(p, slot) ==
    /\ AppendOp
    /\ ~IsReserved(p)
    /\ p \in DOMAIN puts \/ IsActiveIn(head, p)
    /\ ~HasLeft(p)
    /\ ~IsArchivePath(p)
    /\ IsArchivePath(slot) /\ slot.name = p.name
    /\ IsFirstFree(slot, DOMAIN head \cup ArchiveDestinations)
    /\ archives' = archives \cup {<<p, slot>>}
    /\ overlay' = With(Without(overlay, p), slot, Minted(SourceArticle(p)))
    /\ writes' =
         With(Without(writes, p), slot, IF HasFile(p) THEN File(p) ELSE Minted(SourceArticle(p)))
    /\ removes' = removes \cup {p}
    /\ UNCHANGED <<claimed, puts, edges, labels, unlabeled, moves, aims, unlinked, putAgain,
                   inStep, inert>>

\* A head op takes some links or entities out of a record and puts some in.
Nothing == [links |-> {}, entities |-> {}]
OnlyLink(target) == [links |-> {target}, entities |-> {}]
OnlyEntity(e) == [links |-> {}, entities |-> {e}]
Edited(r, cut, add) ==
    [r EXCEPT !.links = (@ \ cut.links) \cup add.links,
              !.entities = (@ \ cut.entities) \cup add.entities]
Carries(r, cut) == cut.links \subseteq r.links /\ cut.entities \subseteq r.entities

\* The overlay fails where its view lacks p, or what the op takes out of it.  stage edits the file
\* it finds and skips a path with none; a link its file already carries is no change to report.
EditHead(p, cut, add) ==
    /\ MayEdit(p)
    /\ ~IsReserved(p)
    /\ IsLiveSource(p)
    /\ IF inStep /\ p \in DOMAIN overlay /\ Carries(overlay[p], cut)
       THEN overlay' = With(overlay, p, Edited(overlay[p], cut, add)) /\ UNCHANGED inStep
       ELSE inStep' = FALSE /\ UNCHANGED overlay
    /\ IF HasFile(p)
       THEN /\ writes' = With(writes, p, Edited(File(p), cut, add))
            /\ inert' = (inert \/ (add.links = {} /\ Edited(File(p), cut, add) = File(p)))
       ELSE UNCHANGED <<writes, inert>>
    /\ UNCHANGED <<removes, claimed, puts, archives, moves, putAgain>>

Link(p, target) ==
    /\ AppendOp
    /\ EditHead(p, Nothing, OnlyLink(target))
    /\ aims' = IF target \in DOMAIN head THEN aims ELSE aims \cup {target}
    /\ edges' = With(edges, p, EdgesOf(p) \cup {target})
    /\ UNCHANGED <<labels, unlabeled, unlinked>>

\* The path the record at p had when the log began.
Origin(p) == IF p \in MovedInto THEN (CHOOSE m \in moves : m[2] = p)[1] ELSE p

Unlink(p, target) ==
    /\ AppendOp
    /\ target \in EdgesOf(p)
    /\ EditHead(p, OnlyLink(target), Nothing)
    /\ edges' = With(edges, p, EdgesOf(p) \ {target})
    /\ unlinked' = unlinked \cup {<<Origin(p), target>>}
    /\ UNCHANGED <<labels, unlabeled, aims>>

Label(p, e) ==
    /\ AppendOp
    /\ e \notin EntitiesOf(p)
    /\ EditHead(p, Nothing, OnlyEntity(e))
    /\ labels' = With(labels, p, EntitiesOf(p) \cup {e})
    /\ UNCHANGED <<edges, unlabeled, aims, unlinked>>

Unlabel(p, e) ==
    /\ AppendOp
    /\ e \in EntitiesOf(p)
    /\ EditHead(p, OnlyEntity(e), Nothing)
    /\ labels' = With(labels, p, EntitiesOf(p) \ {e})
    /\ unlabeled' = unlabeled \cup {p}
    /\ UNCHANGED <<edges, aims, unlinked>>

Move(p, q) ==
    /\ AppendOp
    /\ ~IsReserved(p) /\ ~IsReserved(q)
    /\ IsActiveIn(head, p) /\ ~HasLeft(p)
    /\ ~IsArchivePath(q) /\ q # p /\ q \notin DOMAIN head
    /\ q \notin DOMAIN puts \cup MovedInto \cup ArchiveDestinations
    /\ edges' = With(edges, q, EdgesOf(p))
    /\ labels' = With(labels, q, EntitiesOf(p))
    /\ moves' = moves \cup {<<p, q>>}
    /\ IF inStep /\ p \in DOMAIN overlay
       THEN overlay' = With(Without(overlay, p), q, overlay[p]) /\ UNCHANGED inStep
       ELSE inStep' = FALSE /\ UNCHANGED overlay
    /\ writes' = With(Without(writes, p), q, File(p))
    /\ removes' = (removes \cup {p}) \ {q}
    /\ UNCHANGED <<claimed, puts, unlabeled, archives, aims, unlinked, putAgain, inert>>

-----------------------------------------------------------------------------
StaleInHead(h, v) ==   \* mutant: edges the log itself added are not looked at
    h \notin Archived \cup MovedAway /\ IsActiveIn(head, h) /\ v[1] \in head[h].links

\* danglingAt: the edges live records still carry to a path the log emptied.
StaleAt(h, v) ==
    /\ h \notin Archived \cup MovedAway
    /\ v[1] \in (IF h \in DOMAIN edges \/ IsActiveIn(head, h) THEN EdgesOf(h) ELSE {})
    /\ v \in archives => ~IsReserved(h)
    /\ v \in moves => v[1] \notin DOMAIN puts \cup MovedInto
StaleEdges ==
    {e \in (DOMAIN head \cup DOMAIN edges) \X (archives \cup moves) : StaleAt(e[1], e[2])}

\* The write bar once the log is walked: each move's destination, and what an unlabel left.
BelowBar ==
    IF RequireAnchor
    THEN {p \in MovedInto \cup (unlabeled \ Archived) : ~IsAnchored(p, EntitiesOf(p))}
    ELSE {}

\* Step 1 of the commit finds nothing to refuse, and step 3 no op that changed nothing.
Accepted ==
    /\ count > 0
    /\ aims \subseteq DOMAIN head \cup BatchCreates
    /\ StaleEdges = {}
    /\ BelowBar = {}
    /\ ~inert

-----------------------------------------------------------------------------
MissingInPlace ==   \* mutant: holders the log moves are forgotten
    {e \in (DOMAIN head) \X (archives \cup moves) :
        LET h == e[1]  v == e[2]
        IN  /\ IsActiveIn(head, h) /\ ~HasLeft(h) /\ ~IsReserved(h)
            /\ v[1] \in head[h].links
            /\ <<h, v[1]>> \notin unlinked
            /\ v[1] \notin (IF v \in moves THEN DOMAIN puts ELSE putAgain)}

\* repointsByVacate: the edges of the head's records that the log's archives and moves leave
\* behind, each with the archive or move it names.
Missing ==
    {e \in (DOMAIN head) \X (archives \cup moves) :
        LET h == e[1]  v == e[2]
        IN  /\ IsActiveIn(head, h) /\ h \notin Archived /\ ~IsReserved(h)
            /\ v[1] \in head[h].links
            /\ <<h, v[1]>> \notin unlinked
            /\ v[1] \notin (IF v \in moves THEN DOMAIN puts ELSE putAgain)}

MovedTo(p) == IF p \in MovedAway THEN (CHOOSE m \in moves : m[1] = p)[2] ELSE p

\* The links of the record that began at h, each repointed edge at where its target went.
Repointed(links, h) ==
    LET gone == {e \in Missing : e[1] = h}
    IN  (links \ {e[2][1] : e \in gone}) \cup {e[2][2] : e \in gone}

Repoint(tree, held) ==
    [p \in DOMAIN tree \cup held |->
        LET r == IF p \in DOMAIN tree THEN tree[p] ELSE head[p]
        IN  IF p \in held THEN [r EXCEPT !.links = Repointed(@, Origin(p))] ELSE r]

Uncapped == count <= Cap   \* mutant: the pairs are not counted
\* Pairs that would take the log over the cap are not written, and the commit is refused.
WithinCap == count + 2 * Cardinality(Missing) <= Cap

\* missingRepoints, appended to the log: one unlink and one link per missing edge, the holder at
\* the path the log moved it to.  Pairs that would take the log over the cap are not written.
Complete ==
    LET held == {MovedTo(e[1]) : e \in Missing}
    IN  /\ Missing # {}
        /\ WithinCap
        /\ count' = count + 2 * Cardinality(Missing)
        /\ edges' = [p \in DOMAIN edges \cup held |->
                        IF p \in held THEN Repointed(EdgesOf(p), Origin(p)) ELSE edges[p]]
        /\ unlinked' = unlinked \cup {<<e[1], e[2][1]>> : e \in Missing}
        /\ IF inStep /\ held \subseteq DOMAIN overlay
           THEN overlay' = Repoint(overlay, held) /\ UNCHANGED inStep
           ELSE inStep' = FALSE /\ UNCHANGED overlay
        /\ writes' = Repoint(writes, held)
        /\ UNCHANGED <<head, commits, claimed, puts, labels, unlabeled, archives, moves, aims,
                       putAgain, removes, inert>>

-----------------------------------------------------------------------------
ContradictedInHead(p) ==   \* mutant: a moved rival is named where it was
    {q \in DOMAIN head \ ({p} \cup Archived) :
        IsActiveIn(head, q) /\ head[q].article \in Rival[writes[p].article]}

\* markContradictions: where the live records a put contradicts are once the log has landed.
Contradicted(p) ==
    {MovedTo(q) : q \in {o \in DOMAIN head \ ({p} \cup Archived) :
        IsActiveIn(head, o) /\ head[o].article \in Rival[writes[p].article]}}

Marked ==
    [p \in DOMAIN writes |->
        IF p \in DOMAIN puts THEN [writes[p] EXCEPT !.links = @ \cup Contradicted(p)]
        ELSE writes[p]]

\* Step 4: the parent's tree, the removes taken out, then the writes put in.
Tree ==
    [p \in (DOMAIN head \ removes) \cup DOMAIN Marked |->
        IF p \in DOMAIN Marked THEN Marked[p] ELSE head[p]]

\* commitOverHead lands the log, complete and accepted; the session goes on from the commit.
Commit ==
    /\ commits < MaxCommits
    /\ Missing = {}
    /\ Accepted
    /\ head' = Tree /\ overlay' = Tree
    /\ count' = 0 /\ commits' = commits + 1
    /\ claimed' = {} /\ puts' = Nowhere /\ edges' = Nowhere /\ labels' = Nowhere
    /\ unlabeled' = {} /\ archives' = {} /\ moves' = {} /\ aims' = {} /\ unlinked' = {}
    /\ putAgain' = {} /\ inStep' = TRUE
    /\ writes' = Nowhere /\ removes' = {} /\ inert' = FALSE

\* Bound: a new record names a few paths that hold a record now or in the session's view.
NewRecord ==
    {r \in [article : Article, links : SUBSET (DOMAIN head \cup DOMAIN overlay),
            entities : SUBSET Entity] : Cardinality(r.links) <= MaxEdges}

Next ==
    \/ count < Cap /\ \E p \in PutPath, r \in NewRecord : Put(p, r)
    \/ \E n \in Name, g \in 1..MaxGeneration : Archive(Live(n), [name |-> n, generation |-> g])
    \/ \E p \in PutPath, target \in Path : Link(p, target)
    \/ \E p \in PutPath, target \in Path : Unlink(p, target)
    \/ \E p \in PutPath, e \in Entity : Label(p, e)
    \/ \E p \in PutPath, e \in Entity : Unlabel(p, e)
    \/ \E n, m \in Name : Move(Live(n), Live(m))
    \/ Complete
    \/ Commit

Spec == Init /\ [][Next]_vars

-----------------------------------------------------------------------------
(***************************************************************************)
(* What a log that may land promises.                                      *)
(***************************************************************************)

\* The types of the state: every map a function from paths to what the code keeps there, and a log
\* never over the cap, the pairs a commit appends to it included.
LogTypeOK ==
    /\ IsMap(head, Record) /\ IsMap(overlay, Record) /\ IsMap(writes, Record)
    /\ IsMap(puts, Article) /\ IsMap(edges, SUBSET Path) /\ IsMap(labels, SUBSET Entity)
    /\ claimed \subseteq Article
    /\ unlabeled \subseteq Path /\ aims \subseteq Path /\ removes \subseteq Path
    /\ putAgain \subseteq Path
    /\ archives \subseteq Path \X Path /\ moves \subseteq Path \X Path
    /\ unlinked \subseteq Path \X Path
    /\ inStep \in BOOLEAN /\ inert \in BOOLEAN
    /\ count \in 0..Cap /\ commits \in 0..MaxCommits

\* A commit keeps the store tidy, whatever mix of puts, archives and moves made it: in a version the
\* next session starts from no claim is held twice and no live record is below the bar, as the
\* refusals of validateOps are there to see to.
CommitsTidy == Tidy(head)

\* A log that may land leaves every record of the head in one place: where the log archived it or
\* moved it, and otherwise where it was, with the same article; and the path a record left is
\* empty or holds what the log put there.  "The record moves" (validate.ts, of an archive).  A put
\* at an archive path is the exception: it writes over whatever is there, a record of the head or
\* one the log itself archived.
RecordsKept ==
    Accepted =>
        \A p \in DOMAIN head :
            /\ \A v \in archives \cup moves :
                 v[1] = p /\ v[2] \notin DOMAIN puts =>
                     v[2] \in DOMAIN Tree /\ Tree[v[2]].article = head[p].article
            /\ \A v, w \in archives \cup moves : v[1] = p /\ w[1] = p => v = w
            /\ p \in (Archived \cup MovedAway) \ DOMAIN puts => p \notin DOMAIN Tree
            /\ p \notin Archived \cup MovedAway =>
                 /\ p \in DOMAIN Tree
                 /\ ~(IsArchivePath(p) /\ p \in DOMAIN puts) => Tree[p].article = head[p].article

\* The session saw what it commits.  An accepted log applies to the base without a failure, and its
\* view holds the same paths as the tree staged from it, with the same articles, and with the same
\* links and entities on every live record, before contradictions are marked.  A log that archives
\* into a slot it also puts at is left out: the validator keeps the put's links and entities for
\* the slot, the file there is the archived record's, and the view's copy of it has neither.
OverlayIsStaged ==
    Accepted /\ DOMAIN puts \cap ArchiveDestinations = {} =>
        /\ inStep
        /\ DOMAIN overlay = DOMAIN Tree
        /\ \A p \in DOMAIN overlay :
             LET r == IF p \in DOMAIN writes THEN writes[p] ELSE head[p]
             IN  IF IsArchivePath(p) THEN overlay[p].article = r.article ELSE overlay[p] = r

\* No live record of the tree a log lands names a path the log emptied, the links the commit adds
\* to mark contradictions included.  A session's archive may leave the edge of a curated record,
\* which it cannot write.  A record put at a path the log had archived is not looked at.
NoEdgeLeftBehind ==
    Accepted =>
        \A h \in DOMAIN Tree, v \in archives \cup moves :
            IsActiveIn(Tree, h) /\ v[1] \in Tree[h].links /\ v[1] \notin DOMAIN Tree =>
                \/ h \in putAgain
                \/ v \in archives /\ ~CurateScope /\ h.name \in Curated

\* Completing a log is enough: once it lacks no repoint, the only edges validateOps still finds
\* dangling are edges the log's own links and puts aimed there, a put over an archived record
\* among them, edges it unlinked and linked again, and edges of records its scope may not write.
\* moves.ts and validate.ts compute the two sides apart, one from the head's links and one from the
\* batch's.
CompletionSuffices ==
    Missing = {} =>
        \A e \in StaleEdges :
            LET h == Origin(e[1])  old == e[2][1]
            IN  \/ h \notin DOMAIN head \/ old \notin head[h].links
                \/ IsArchivePath(h)
                \/ <<h, old>> \in unlinked
                \/ IsReserved(h)

\* Only a put at the slot itself writes over history: whatever else a log does, its commit leaves
\* the records in the archive as they were.
HistoryKept ==
    [][\A p \in DOMAIN head :
         IsArchivePath(p) =>
            p \in DOMAIN head' /\ (p \in DOMAIN puts \/ head'[p] = head[p])]_vars

\* A log that puts at no archive path of a name opens no gap among the name's generations, however
\* often it archives the name and whatever it puts between ("a later generation past a free one
\* leaves a gap that readers taking the newest generation would not see past", validate.ts).
NoGapMade ==
    [][\A n \in Name :
         NoGap(head, n) /\ (\A p \in DOMAIN puts : p.name = n => ~IsArchivePath(p)) =>
            NoGap(head', n)]_vars
=============================================================================
