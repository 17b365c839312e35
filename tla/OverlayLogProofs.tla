-------------------------- MODULE OverlayLogProofs --------------------------
(***************************************************************************)
(* What the ops of a session's log do to the store, for any heads, names,  *)
(* articles and bounds, in five parts: the types, and that only a put at   *)
(* the slot itself touches history; that archives open no gap; that every  *)
(* record is kept; that commits are tidy; and that the session saw what it *)
(* commits, and leaves no edge.                                            *)
(*                                                                         *)
(* Types and history need to know where an op may put a file: types        *)
(* because a repoint is written where its holder was moved to, so a move's *)
(* file must still be there (MovesPlaced); history because a slot is       *)
(* written by a put there, or by the archive that found it free in the     *)
(* head, and by nothing else (ArchivesPlaced).  Both hold whatever ops the *)
(* log is made of.                                                         *)
(***************************************************************************)
EXTENDS OverlayLog, FiniteSetTheorems, TLAPS

\* The paths the log took a record from.
Left == Archived \cup MovedAway

\* A move takes a live record of the head to a live path that held nothing, and the file is there.
MovesPlaced ==
    \A m \in moves :
        /\ ~IsArchivePath(m[1]) /\ m[1] \in DOMAIN head
        /\ ~IsArchivePath(m[2]) /\ m[2] \notin DOMAIN head \cup DOMAIN puts
        /\ m[2] \in DOMAIN writes

\* A put at a live path is at a new one, an archive takes a live path to a slot the head does not
\* hold and its file is there, only an archive or a put writes a slot, and nothing removes one.
ArchivesPlaced ==
    /\ \A p \in DOMAIN puts : IsArchivePath(p) \/ p \notin DOMAIN head
    /\ \A v \in archives :
        /\ ~IsArchivePath(v[1]) /\ v[1] \in DOMAIN puts \cup DOMAIN head
        /\ IsArchivePath(v[2]) /\ v[2] \notin DOMAIN head
        /\ v[2] \in DOMAIN writes
    /\ \A p \in removes : ~IsArchivePath(p)
    /\ \A p \in DOMAIN writes : IsArchivePath(p) => p \in ArchiveDestinations \cup DOMAIN puts

LogInv == LogTypeOK /\ MovesPlaced /\ ArchivesPlaced

LEMMA LivePath == \A n \in Name : Live(n) \in Path /\ ~IsArchivePath(Live(n))
BY LogAssumption DEF Live, Path, IsArchivePath

\* Setting a path of a map to a value, and taking one out, gives a map.
LEMMA WithMap ==
    ASSUME NEW S, NEW f, IsMap(f, S), NEW p \in Path, NEW r \in S
    PROVE  IsMap(With(f, p, r), S)
BY DEF IsMap, With

LEMMA WithoutMap ==
    ASSUME NEW S, NEW f, IsMap(f, S), NEW p
    PROVE  IsMap(Without(f, p), S)
BY DEF IsMap, Without

LEMMA NowhereMap == \A S : IsMap(Nowhere, S)
BY DEF IsMap, Nowhere

LEMMA EditedRecord ==
    ASSUME NEW r \in Record, NEW cut, NEW add,
           add.links \subseteq Path, add.entities \subseteq Entity
    PROVE  Edited(r, cut, add) \in Record /\ Edited(r, cut, add).article = r.article
BY DEF Record, Edited

LEMMA FileRecord ==
    ASSUME IsMap(writes, Record), IsMap(head, Record), NEW p, HasFile(p)
    PROVE  File(p) \in Record /\ p \in Path
BY DEF IsMap, HasFile, File

\* What a path carries as the log left it is of the right type.
LEMMA CarriedTypes ==
    ASSUME LogTypeOK, NEW p
    PROVE  EdgesOf(p) \subseteq Path /\ EntitiesOf(p) \subseteq Entity
BY DEF LogTypeOK, IsMap, EdgesOf, EntitiesOf, Record

LEMMA EditHeadType ==
    ASSUME LogTypeOK, NEW p \in Path, NEW cut, NEW add,
           add.links \subseteq Path, add.entities \subseteq Entity, EditHead(p, cut, add)
    PROVE  IsMap(overlay', Record) /\ IsMap(writes', Record)
           /\ inStep' \in BOOLEAN /\ inert' \in BOOLEAN
<1>1. IsMap(overlay', Record) /\ inStep' \in BOOLEAN
  <2>1. CASE inStep /\ p \in DOMAIN overlay /\ Carries(overlay[p], cut)
    <3>1. overlay[p] \in Record
      BY <2>1 DEF LogTypeOK, IsMap
    <3>2. Edited(overlay[p], cut, add) \in Record
      BY <3>1, EditedRecord
    <3> QED BY <2>1, <3>2, WithMap DEF LogTypeOK, EditHead
  <2>2. CASE ~(inStep /\ p \in DOMAIN overlay /\ Carries(overlay[p], cut))
    BY <2>2 DEF LogTypeOK, EditHead
  <2> QED BY <2>1, <2>2
<1>2. IsMap(writes', Record) /\ inert' \in BOOLEAN
  <2>1. CASE HasFile(p)
    <3>1. File(p) \in Record
      BY <2>1, FileRecord DEF LogTypeOK
    <3>2. Edited(File(p), cut, add) \in Record
      BY <3>1, EditedRecord
    <3>3. inert' = (inert \/ (add.links = {} /\ Edited(File(p), cut, add) = File(p)))
      BY <2>1 DEF EditHead
    <3>4. inert' \in BOOLEAN
      BY <3>3, Zenon
    <3> QED BY <2>1, <3>2, <3>4, WithMap DEF LogTypeOK, EditHead
  <2>2. CASE ~HasFile(p)
    BY <2>2 DEF LogTypeOK, EditHead
  <2> QED BY <2>1, <2>2
<1> QED BY <1>1, <1>2

\* Every op that joins the log, one action at a time, keeps the types.
LEMMA PutType ==
    ASSUME LogTypeOK, NEW p \in Path, NEW r \in Record, Put(p, r)
    PROVE  LogTypeOK'
<1>1. /\ r.article \in Article /\ r.links \in SUBSET Path /\ r.entities \in SUBSET Entity
  BY DEF Record
<1>2. /\ IsMap(puts', Article) /\ IsMap(edges', SUBSET Path) /\ IsMap(labels', SUBSET Entity)
      /\ IsMap(overlay', Record) /\ IsMap(writes', Record)
  BY <1>1, WithMap DEF LogTypeOK, Put
<1> QED
  BY <1>1, <1>2, LogAssumption DEF LogTypeOK, Put, AppendOp

LEMMA ArchiveType ==
    ASSUME LogTypeOK, NEW p \in Path, NEW slot \in Path, Archive(p, slot)
    PROVE  LogTypeOK'
<1>1. SourceArticle(p) \in Article
  BY DEF LogTypeOK, IsMap, Record, Archive, SourceArticle, IsActiveIn
<1>2. Minted(SourceArticle(p)) \in Record
  BY <1>1 DEF Minted, Record
<1>3. (IF HasFile(p) THEN File(p) ELSE Minted(SourceArticle(p))) \in Record
  BY <1>2, FileRecord DEF LogTypeOK
<1>4. IsMap(overlay', Record) /\ IsMap(writes', Record)
  BY <1>2, <1>3, WithMap, WithoutMap DEF LogTypeOK, Archive
<1> QED
  BY <1>4, LogAssumption DEF LogTypeOK, Archive, AppendOp

LEMMA LinkType ==
    ASSUME LogTypeOK, NEW p \in Path, NEW target \in Path, Link(p, target)
    PROVE  LogTypeOK'
<1>1. OnlyLink(target).links \subseteq Path /\ OnlyLink(target).entities \subseteq Entity
  BY DEF OnlyLink
<1>2. IsMap(overlay', Record) /\ IsMap(writes', Record) /\ inStep' \in BOOLEAN /\ inert' \in BOOLEAN
  BY <1>1, EditHeadType DEF Link
<1>3. IsMap(edges', SUBSET Path)
  BY CarriedTypes, WithMap DEF LogTypeOK, Link
<1> QED
  BY <1>2, <1>3, LogAssumption DEF LogTypeOK, Link, EditHead, AppendOp

LEMMA OriginPath == ASSUME LogTypeOK, NEW p \in Path PROVE Origin(p) \in Path
BY DEF LogTypeOK, Origin, MovedInto

LEMMA UnlinkType ==
    ASSUME LogTypeOK, NEW p \in Path, NEW target \in Path, Unlink(p, target)
    PROVE  LogTypeOK'
<1>1. Nothing.links \subseteq Path /\ Nothing.entities \subseteq Entity
  BY DEF Nothing
<1>2. IsMap(overlay', Record) /\ IsMap(writes', Record) /\ inStep' \in BOOLEAN /\ inert' \in BOOLEAN
  BY <1>1, EditHeadType DEF Unlink
<1>3. IsMap(edges', SUBSET Path)
  BY CarriedTypes, WithMap DEF LogTypeOK, Unlink
<1> QED
  BY <1>2, <1>3, OriginPath, LogAssumption DEF LogTypeOK, Unlink, EditHead, AppendOp

LEMMA LabelType ==
    ASSUME LogTypeOK, NEW p \in Path, NEW e \in Entity, Label(p, e)
    PROVE  LogTypeOK'
<1>1. OnlyEntity(e).links \subseteq Path /\ OnlyEntity(e).entities \subseteq Entity
  BY DEF OnlyEntity
<1>2. IsMap(overlay', Record) /\ IsMap(writes', Record) /\ inStep' \in BOOLEAN /\ inert' \in BOOLEAN
  BY <1>1, EditHeadType DEF Label
<1>3. IsMap(labels', SUBSET Entity)
  BY CarriedTypes, WithMap DEF LogTypeOK, Label
<1> QED
  BY <1>2, <1>3, LogAssumption DEF LogTypeOK, Label, EditHead, AppendOp

LEMMA UnlabelType ==
    ASSUME LogTypeOK, NEW p \in Path, NEW e \in Entity, Unlabel(p, e)
    PROVE  LogTypeOK'
<1>1. Nothing.links \subseteq Path /\ Nothing.entities \subseteq Entity
  BY DEF Nothing
<1>2. IsMap(overlay', Record) /\ IsMap(writes', Record) /\ inStep' \in BOOLEAN /\ inert' \in BOOLEAN
  BY <1>1, EditHeadType DEF Unlabel
<1>3. IsMap(labels', SUBSET Entity)
  BY CarriedTypes, WithMap DEF LogTypeOK, Unlabel
<1> QED
  BY <1>2, <1>3, LogAssumption DEF LogTypeOK, Unlabel, EditHead, AppendOp

LEMMA MoveType ==
    ASSUME LogTypeOK, NEW p \in Path, NEW q \in Path, Move(p, q)
    PROVE  LogTypeOK'
<1>1. IsMap(edges', SUBSET Path) /\ IsMap(labels', SUBSET Entity)
  BY CarriedTypes, WithMap DEF LogTypeOK, Move
<1>2. File(p) \in Record
  BY FileRecord DEF LogTypeOK, Move, IsActiveIn, HasFile
<1>3. IsMap(writes', Record)
  BY <1>2, WithMap, WithoutMap DEF LogTypeOK, Move
<1>4. IsMap(overlay', Record) /\ inStep' \in BOOLEAN
  <2>1. CASE inStep /\ p \in DOMAIN overlay
    <3>1. overlay[p] \in Record
      BY <2>1 DEF LogTypeOK, IsMap
    <3> QED BY <2>1, <3>1, WithMap, WithoutMap DEF LogTypeOK, Move
  <2>2. CASE ~(inStep /\ p \in DOMAIN overlay)
    BY <2>2 DEF LogTypeOK, Move
  <2> QED BY <2>1, <2>2
<1> QED
  BY <1>1, <1>3, <1>4, LogAssumption DEF LogTypeOK, Move, AppendOp

\* The edges to repoint are finitely many, so that the cap can count them.
LEMMA MissingFinite ==
    ASSUME LogTypeOK
    PROVE  IsFiniteSet(Missing) /\ Cardinality(Missing) \in Nat
           /\ Missing \subseteq Path \X (Path \X Path)
<1>1. IsFiniteSet(Path \X (Path \X Path))
  BY LogAssumption, FS_Product
<1>2. Missing \subseteq Path \X (Path \X Path)
  BY DEF Missing, LogTypeOK, IsMap
<1> QED
  BY <1>1, <1>2, FS_Subset, FS_CardinalityType

LEMMA HeldPaths ==
    ASSUME LogTypeOK
    PROVE  /\ \A p \in Path : MovedTo(p) \in Path
           /\ \A links, h : links \subseteq Path => Repointed(links, h) \subseteq Path
<1>1. \A p \in Path : MovedTo(p) \in Path
  BY DEF MovedTo, MovedAway, LogTypeOK
<1> QED
  BY <1>1, MissingFinite DEF Repointed

\* A record is staged, or of the head, at the place of every repointed edge's holder.
LEMMA HeldStaged ==
    ASSUME LogInv, NEW h \in DOMAIN head, IsActiveIn(head, h), h \notin Archived
    PROVE  /\ MovedTo(h) \in DOMAIN writes \cup DOMAIN head
           /\ MovedTo(h) \in Path /\ ~IsArchivePath(MovedTo(h))
           /\ MovedTo(h) \in DOMAIN head => MovedTo(h) \notin MovedAway \cup Archived
<1>1. CASE h \in MovedAway
  <2>1. PICK m \in moves : m[1] = h /\ MovedTo(h) = m[2]
    BY <1>1 DEF MovedTo, MovedAway
  <2> QED
    BY <2>1 DEF LogInv, MovesPlaced, LogTypeOK
<1>2. CASE h \notin MovedAway
  BY <1>2 DEF MovedTo, LogInv, LogTypeOK, IsMap, IsActiveIn
<1> QED
  BY <1>1, <1>2

LEMMA RepointMap ==
    ASSUME LogInv, NEW tree, IsMap(tree, Record), NEW held \in SUBSET Path,
           held \subseteq DOMAIN tree \cup DOMAIN head
    PROVE  IsMap(Repoint(tree, held), Record)
<1> DEFINE R(p) == IF p \in DOMAIN tree THEN tree[p] ELSE head[p]
<1>1. \A p \in DOMAIN tree \cup held : R(p) \in Record /\ p \in Path
  BY DEF IsMap, LogInv, LogTypeOK
<1>2. \A p \in DOMAIN tree \cup held : [R(p) EXCEPT !.links = Repointed(@, Origin(p))] \in Record
  <2> SUFFICES ASSUME NEW p \in DOMAIN tree \cup held
               PROVE  [R(p) EXCEPT !.links = Repointed(@, Origin(p))] \in Record
    OBVIOUS
  <2>1. R(p) \in Record /\ R(p).links \subseteq Path
    BY <1>1 DEF Record
  <2>2. Repointed(R(p).links, Origin(p)) \subseteq Path
    BY <2>1, HeldPaths DEF LogInv
  <2> HIDE DEF R
  <2> QED
    BY <2>1, <2>2 DEF Record
<1>3. Repoint(tree, held) = [p \in DOMAIN tree \cup held |->
          IF p \in held THEN [R(p) EXCEPT !.links = Repointed(@, Origin(p))] ELSE R(p)]
  BY DEF Repoint
<1> HIDE DEF R
<1> QED
  BY <1>1, <1>2, <1>3 DEF IsMap

LEMMA HeldOfMissing ==
    ASSUME LogInv, NEW held, held = {MovedTo(e[1]) : e \in Missing}
    PROVE  /\ held \subseteq Path
           /\ held \subseteq DOMAIN writes \cup DOMAIN head
           /\ \A p \in held : /\ ~IsArchivePath(p)
                              /\ p \in DOMAIN head => p \notin MovedAway \cup Archived
<1> SUFFICES ASSUME NEW e \in Missing
             PROVE  /\ MovedTo(e[1]) \in Path \cap (DOMAIN writes \cup DOMAIN head)
                    /\ ~IsArchivePath(MovedTo(e[1]))
                    /\ MovedTo(e[1]) \in DOMAIN head => MovedTo(e[1]) \notin MovedAway \cup Archived
  OBVIOUS
<1>1. e[1] \in DOMAIN head /\ IsActiveIn(head, e[1]) /\ e[1] \notin Archived
  BY DEF Missing
<1> QED
  BY <1>1, HeldStaged

LEMMA CompleteType == ASSUME LogInv, Complete PROVE LogTypeOK'
<1> DEFINE held == {MovedTo(e[1]) : e \in Missing}
<1>0. LogTypeOK
  BY DEF LogInv
<1>1. held \subseteq Path /\ held \subseteq DOMAIN writes \cup DOMAIN head
  BY HeldOfMissing
<1>2. writes' = Repoint(writes, held)
  BY DEF Complete
<1>3. IsMap(writes', Record)
  BY <1>0, <1>1, <1>2, RepointMap DEF LogTypeOK
<1>4. IsMap(overlay', Record) /\ inStep' \in BOOLEAN
  <2>1. CASE inStep /\ held \subseteq DOMAIN overlay
    <3>1. overlay' = Repoint(overlay, held) /\ inStep' = inStep
      BY <2>1 DEF Complete
    <3> QED BY <1>0, <1>1, <2>1, <3>1, RepointMap DEF LogTypeOK
  <2>2. CASE ~(inStep /\ held \subseteq DOMAIN overlay)
    <3>1. overlay' = overlay /\ inStep' = FALSE
      BY <2>2 DEF Complete
    <3> QED BY <1>0, <3>1 DEF LogTypeOK
  <2> QED BY <2>1, <2>2
<1>5. IsMap(edges', SUBSET Path)
  <2>1. edges' = [p \in DOMAIN edges \cup held |->
                    IF p \in held THEN Repointed(EdgesOf(p), Origin(p)) ELSE edges[p]]
    BY DEF Complete
  <2>2. \A p \in held : Repointed(EdgesOf(p), Origin(p)) \in SUBSET Path
    BY <1>0, CarriedTypes, HeldPaths
  <2> HIDE DEF held
  <2> QED
    BY <1>0, <1>1, <2>1, <2>2 DEF LogTypeOK, IsMap
<1>6. count' \in 0..Cap
  BY <1>0, MissingFinite, LogAssumption DEF Complete, WithinCap, LogTypeOK
<1>7. unlinked' \subseteq Path \X Path
  BY <1>0, MissingFinite DEF Complete, LogTypeOK
<1> QED
  BY <1>0, <1>3, <1>4, <1>5, <1>6, <1>7 DEF Complete, LogTypeOK

LEMMA MarkedMap ==
    ASSUME LogInv
    PROVE  /\ IsMap(Marked, Record) /\ DOMAIN Marked = DOMAIN writes
           /\ \A p \in DOMAIN writes : /\ Marked[p].article = writes[p].article
                                       /\ Marked[p].entities = writes[p].entities
                                       /\ p \notin DOMAIN puts => Marked[p] = writes[p]
<1>1. \A p : Contradicted(p) \subseteq Path
  BY HeldPaths DEF LogInv, LogTypeOK, IsMap, Contradicted
<1>2. \A r \in Record, s \in SUBSET Path :
        /\ [r EXCEPT !.links = @ \cup s] \in Record
        /\ [r EXCEPT !.links = @ \cup s].article = r.article
        /\ [r EXCEPT !.links = @ \cup s].entities = r.entities
  BY DEF Record
<1>3. \A p \in DOMAIN writes : writes[p] \in Record /\ p \in Path
  BY DEF LogInv, LogTypeOK, IsMap
<1>4. DOMAIN Marked = DOMAIN writes
  BY DEF Marked
<1> SUFFICES ASSUME NEW p \in DOMAIN writes
             PROVE  /\ Marked[p] \in Record
                    /\ Marked[p].article = writes[p].article
                    /\ Marked[p].entities = writes[p].entities
                    /\ p \notin DOMAIN puts => Marked[p] = writes[p]
  BY <1>3, <1>4 DEF IsMap, Marked
<1>5. CASE p \in DOMAIN puts
  <2>1. Marked[p] = [writes[p] EXCEPT !.links = @ \cup Contradicted(p)]
    BY <1>5 DEF Marked
  <2> QED BY <1>1, <1>2, <1>3, <1>5, <2>1
<1>6. CASE p \notin DOMAIN puts
  BY <1>3, <1>6 DEF Marked
<1> QED
  BY <1>5, <1>6

LEMMA TreeMap == ASSUME LogInv PROVE IsMap(Tree, Record)
BY MarkedMap DEF LogInv, LogTypeOK, IsMap, Tree

LEMMA CommitType == ASSUME LogInv, Commit PROVE LogTypeOK'
<1>1. IsMap(head', Record) /\ IsMap(overlay', Record)
  BY TreeMap DEF Commit
<1>2. /\ IsMap(writes', Record) /\ IsMap(puts', Article)
      /\ IsMap(edges', SUBSET Path) /\ IsMap(labels', SUBSET Entity)
  BY NowhereMap DEF Commit
<1>3. inStep' \in BOOLEAN /\ inert' \in BOOLEAN
  BY DEF Commit
<1>4. count' \in 0..Cap /\ commits' \in 0..MaxCommits
  BY LogAssumption DEF Commit, LogInv, LogTypeOK
<1> QED
  BY <1>1, <1>2, <1>3, <1>4 DEF Commit, LogTypeOK

\* An edit writes a record where it is, and a slot only where the log put one.
LEMMA EditedWrites ==
    ASSUME LogInv, NEW p \in Path, NEW cut, NEW add, EditHead(p, cut, add)
    PROVE  /\ DOMAIN writes \subseteq DOMAIN writes'
           /\ \A q \in DOMAIN writes' : q = p \/ (q \in DOMAIN writes /\ writes'[q] = writes[q])
           /\ p \in DOMAIN writes' => HasFile(p) /\ writes'[p] = Edited(File(p), cut, add)
BY DEF EditHead, With, HasFile

LEMMA EditedPlace ==
    ASSUME LogInv, NEW p, IsLiveSource(p)
    PROVE  IsArchivePath(p) => p \in DOMAIN puts
BY DEF LogInv, MovesPlaced, IsLiveSource, IsActiveIn, MovedInto

LEMMA EditPlaced ==
    ASSUME LogInv, NEW p \in Path, NEW cut, NEW add, EditHead(p, cut, add),
           UNCHANGED head
    PROVE  MovesPlaced' /\ ArchivesPlaced'
<1>1. UNCHANGED <<removes, claimed, puts, archives, moves, putAgain>>
  BY DEF EditHead
<1>2. IsArchivePath(p) => p \in DOMAIN puts
  BY EditedPlace DEF EditHead
<1>3. DOMAIN writes \subseteq DOMAIN writes' /\ DOMAIN writes' \subseteq DOMAIN writes \cup {p}
  BY EditedWrites
<1> QED
  BY <1>1, <1>2, <1>3 DEF LogInv, MovesPlaced, ArchivesPlaced, ArchiveDestinations

LEMMA PutPlaced ==
    ASSUME LogInv, NEW p \in Path, NEW r, Put(p, r)
    PROVE  MovesPlaced' /\ ArchivesPlaced'
<1>1. (IsArchivePath(p) \/ p \notin DOMAIN head) /\ p \notin MovedInto
  BY DEF Put, IsActiveIn
<1> QED
  BY <1>1 DEF Put, AppendOp, With, LogInv, MovesPlaced, ArchivesPlaced,
              ArchiveDestinations, MovedInto

LEMMA ArchivePlaced ==
    ASSUME LogInv, NEW p \in Path, ~IsArchivePath(p), NEW slot \in Path, Archive(p, slot)
    PROVE  MovesPlaced' /\ ArchivesPlaced'
<1>1. slot \notin DOMAIN head /\ IsArchivePath(slot) /\ p \in DOMAIN puts \cup DOMAIN head
  BY DEF Archive, IsFirstFree, IsActiveIn
<1>2. DOMAIN writes' = (DOMAIN writes \ {p}) \cup {slot}
  BY DEF Archive, With, Without
<1>3. MovesPlaced'
  BY <1>1, <1>2 DEF Archive, AppendOp, LogInv, MovesPlaced
<1>4. ArchivesPlaced'
  <2>1. /\ UNCHANGED <<head, puts>> /\ archives' = archives \cup {<<p, slot>>}
        /\ removes' = removes \cup {p}
    BY DEF Archive, AppendOp
  <2>2. ArchiveDestinations' = ArchiveDestinations \cup {slot}
    <3>1. \A v : v \in archives' <=> v \in archives \/ v = <<p, slot>>
      BY <2>1
    <3>2. <<p, slot>>[2] = slot
      OBVIOUS
    <3> QED
      BY <3>1, <3>2, Zenon DEF ArchiveDestinations
  <2>3. ArchivesPlaced
    BY DEF LogInv
  <2>4. \A v \in archives' : /\ ~IsArchivePath(v[1]) /\ v[1] \in DOMAIN puts \cup DOMAIN head
                             /\ IsArchivePath(v[2]) /\ v[2] \notin DOMAIN head
                             /\ v[2] \in DOMAIN writes'
    BY <1>1, <1>2, <2>1, <2>3 DEF ArchivesPlaced
  <2>5. \A q \in DOMAIN writes' : IsArchivePath(q) => q \in ArchiveDestinations' \cup DOMAIN puts
    BY <1>2, <2>2, <2>3 DEF ArchivesPlaced
  <2> QED
    BY <2>1, <2>3, <2>4, <2>5 DEF ArchivesPlaced
<1> QED
  BY <1>3, <1>4

LEMMA MovePlaced ==
    ASSUME LogInv, NEW p \in Path, ~IsArchivePath(p), NEW q \in Path, ~IsArchivePath(q), Move(p, q)
    PROVE  MovesPlaced' /\ ArchivesPlaced'
<1>1. /\ p \in DOMAIN head /\ q \notin DOMAIN head /\ q # p
      /\ q \notin DOMAIN puts \cup MovedInto \cup ArchiveDestinations
  BY DEF Move, IsActiveIn
<1>2. DOMAIN writes' = (DOMAIN writes \ {p}) \cup {q}
  BY DEF Move, With, Without
<1>3. MovesPlaced'
  BY <1>1, <1>2 DEF Move, AppendOp, LogInv, MovesPlaced
<1>4. ArchivesPlaced'
  BY <1>1, <1>2 DEF Move, AppendOp, LogInv, ArchivesPlaced, ArchiveDestinations
<1> QED
  BY <1>3, <1>4

LEMMA RepointedRecords ==
    ASSUME LogInv, Complete
    PROVE  /\ DOMAIN writes \subseteq DOMAIN writes'
           /\ \A p \in DOMAIN writes' :
                LET r == IF p \in DOMAIN writes THEN writes[p] ELSE head[p]
                IN  /\ \/ p \in DOMAIN writes
                       \/ p \in DOMAIN head /\ p \notin Left /\ ~IsArchivePath(p)
                    /\ writes'[p].article = r.article /\ writes'[p].entities = r.entities
<1> DEFINE held == {MovedTo(e[1]) : e \in Missing}
           R(p) == IF p \in DOMAIN writes THEN writes[p] ELSE head[p]
<1>1. writes' = Repoint(writes, held)
  BY DEF Complete
<1>2. /\ held \subseteq DOMAIN writes \cup DOMAIN head
      /\ \A p \in held : /\ ~IsArchivePath(p)
                         /\ p \in DOMAIN head => p \notin MovedAway \cup Archived
  BY HeldOfMissing
<1>3. writes' = [p \in DOMAIN writes \cup held |->
          IF p \in held THEN [R(p) EXCEPT !.links = Repointed(@, Origin(p))] ELSE R(p)]
  BY <1>1 DEF Repoint
<1> HIDE DEF held
<1>4. DOMAIN writes' = DOMAIN writes \cup held
  BY <1>3
<1> SUFFICES ASSUME NEW p \in DOMAIN writes \cup held
             PROVE  /\ \/ p \in DOMAIN writes
                       \/ p \in DOMAIN head /\ p \notin Left /\ ~IsArchivePath(p)
                    /\ writes'[p].article = R(p).article /\ writes'[p].entities = R(p).entities
  BY <1>4
<1>5. R(p) \in Record
  BY <1>2 DEF LogInv, LogTypeOK, IsMap
<1>6. writes'[p] = IF p \in held THEN [R(p) EXCEPT !.links = Repointed(@, Origin(p))] ELSE R(p)
  BY <1>3
<1> HIDE DEF R
<1>7. /\ [R(p) EXCEPT !.links = Repointed(@, Origin(p))].article = R(p).article
      /\ [R(p) EXCEPT !.links = Repointed(@, Origin(p))].entities = R(p).entities
  BY <1>5 DEF Record
<1>8. writes'[p].article = R(p).article /\ writes'[p].entities = R(p).entities
  BY <1>6, <1>7
<1> QED
  BY <1>2, <1>8 DEF Left

LEMMA CompletePlaced == ASSUME LogInv, Complete PROVE MovesPlaced' /\ ArchivesPlaced'
<1>1. UNCHANGED <<head, puts, archives, moves, removes>>
  BY DEF Complete
<1> QED
  BY <1>1, RepointedRecords DEF LogInv, MovesPlaced, ArchivesPlaced, ArchiveDestinations

LEMMA CommitPlaced == ASSUME Commit PROVE MovesPlaced' /\ ArchivesPlaced'
BY DEF Commit, MovesPlaced, ArchivesPlaced, Nowhere

LEMMA InitLog == Init => LogInv
<1> SUFFICES ASSUME Init PROVE LogInv
  OBVIOUS
<1>1. IsMap(head, Record) /\ IsMap(overlay, Record)
  BY LogAssumption DEF Init
<1>2. /\ IsMap(writes, Record) /\ IsMap(puts, Article)
      /\ IsMap(edges, SUBSET Path) /\ IsMap(labels, SUBSET Entity)
  BY NowhereMap DEF Init
<1>3. inStep \in BOOLEAN /\ inert \in BOOLEAN
  BY DEF Init
<1>4. LogTypeOK
  BY <1>1, <1>2, <1>3, LogAssumption DEF Init, LogTypeOK
<1>5. MovesPlaced /\ ArchivesPlaced
  BY DEF Init, MovesPlaced, ArchivesPlaced, Nowhere
<1> QED
  BY <1>4, <1>5 DEF LogInv

LEMMA StepCases ==
    ASSUME LogTypeOK, Next
    PROVE  \/ \E p \in Path, r \in Record : Put(p, r)
           \/ \E p \in Path, slot \in Path : ~IsArchivePath(p) /\ Archive(p, slot)
           \/ \E p \in Path, target \in Path : Link(p, target)
           \/ \E p \in Path, target \in Path : Unlink(p, target)
           \/ \E p \in Path, e \in Entity : Label(p, e)
           \/ \E p \in Path, e \in Entity : Unlabel(p, e)
           \/ \E p \in Path, q \in Path : ~IsArchivePath(p) /\ ~IsArchivePath(q) /\ Move(p, q)
           \/ Complete
           \/ Commit
<1>1. NewRecord \subseteq Record
  BY DEF NewRecord, Record, LogTypeOK, IsMap
<1>2. \A n \in Name, g \in 1..MaxGeneration : [name |-> n, generation |-> g] \in Path
  BY LogAssumption DEF Path
<1>3. PutPath \subseteq Path
  BY LivePath, LogAssumption DEF PutPath
<1>4. ASSUME NEW n \in Name, NEW g \in 1..MaxGeneration,
             Archive(Live(n), [name |-> n, generation |-> g])
      PROVE  \E p \in Path, slot \in Path : ~IsArchivePath(p) /\ Archive(p, slot)
  BY <1>2, <1>4, LivePath
<1>5. ASSUME NEW n \in Name, NEW m \in Name, Move(Live(n), Live(m))
      PROVE  \E p \in Path, q \in Path : ~IsArchivePath(p) /\ ~IsArchivePath(q) /\ Move(p, q)
  BY <1>5, LivePath
<1> QED
  BY <1>1, <1>3, <1>4, <1>5 DEF Next

LEMMA LogStep == LogInv /\ [Next]_vars => LogInv'
<1> SUFFICES ASSUME LogInv, [Next]_vars PROVE LogInv'
  OBVIOUS
<1>0. CASE UNCHANGED vars
  BY <1>0 DEF vars, walk, staged, LogInv, LogTypeOK, MovesPlaced, ArchivesPlaced,
              ArchiveDestinations
<1>1. ASSUME NEW p \in Path, NEW r \in Record, Put(p, r) PROVE LogInv'
  BY <1>1, PutType, PutPlaced DEF LogInv
<1>2. ASSUME NEW p \in Path, NEW slot \in Path, ~IsArchivePath(p), Archive(p, slot) PROVE LogInv'
  BY <1>2, ArchiveType, ArchivePlaced DEF LogInv
<1>3. ASSUME NEW p \in Path, NEW target \in Path, Link(p, target) PROVE LogInv'
  BY <1>3, LinkType, EditPlaced DEF LogInv, Link, AppendOp
<1>4. ASSUME NEW p \in Path, NEW target \in Path, Unlink(p, target) PROVE LogInv'
  BY <1>4, UnlinkType, EditPlaced DEF LogInv, Unlink, AppendOp
<1>5. ASSUME NEW p \in Path, NEW e \in Entity, Label(p, e) PROVE LogInv'
  BY <1>5, LabelType, EditPlaced DEF LogInv, Label, AppendOp
<1>6. ASSUME NEW p \in Path, NEW e \in Entity, Unlabel(p, e) PROVE LogInv'
  BY <1>6, UnlabelType, EditPlaced DEF LogInv, Unlabel, AppendOp
<1>7. ASSUME NEW p \in Path, NEW q \in Path, ~IsArchivePath(p), ~IsArchivePath(q), Move(p, q)
      PROVE  LogInv'
  BY <1>7, MoveType, MovePlaced DEF LogInv
<1>8. CASE Complete
  BY <1>8, CompleteType, CompletePlaced DEF LogInv
<1>9. CASE Commit
  BY <1>9, CommitType, CommitPlaced DEF LogInv
<1>10. CASE Next
  <2>1. LogTypeOK
    BY DEF LogInv
  <2> QED
    BY <1>1, <1>2, <1>3, <1>4, <1>5, <1>6, <1>7, <1>8, <1>9, <1>10, <2>1, StepCases
<1> QED
  BY <1>0, <1>10

\* The state keeps its types, whatever ops join the log: no log grows over the cap, the pairs a
\* commit appends to it included.
THEOREM TypeCorrect == Spec => []LogTypeOK
<1>1. Init => LogInv
  BY InitLog
<1>2. LogInv /\ [Next]_vars => LogInv'
  BY LogStep
<1>3. LogInv => LogTypeOK
  BY DEF LogInv
<1> QED
  BY <1>1, <1>2, <1>3, PTL DEF Spec

\* What one step may do to history: only a commit changes the head, and of the slots the head holds
\* it writes only those the log put at.
LEMMA HistoryStep ==
    LogInv /\ [Next]_vars =>
        [\A p \in DOMAIN head :
            IsArchivePath(p) =>
                p \in DOMAIN head' /\ (p \in DOMAIN puts \/ head'[p] = head[p])]_vars
<1> SUFFICES ASSUME LogInv, Next, NEW p \in DOMAIN head, IsArchivePath(p)
             PROVE  p \in DOMAIN head' /\ (p \in DOMAIN puts \/ head'[p] = head[p])
  OBVIOUS
<1>1. CASE Commit
  <2>1. p \notin removes /\ (p \in DOMAIN puts \/ p \notin DOMAIN writes)
    BY DEF LogInv, ArchivesPlaced, ArchiveDestinations
  <2>2. head' = Tree /\ DOMAIN Marked = DOMAIN writes
    BY <1>1, MarkedMap DEF Commit
  <2> QED
    BY <2>1, <2>2 DEF Tree
<1>2. CASE UNCHANGED head
  BY <1>2
<1> QED
  BY <1>1, <1>2 DEF Next, Put, Archive, Link, Unlink, Label, Unlabel, Move, Complete, AppendOp

\* No commit takes an archived record away, and none writes over one but where its log put a record
\* at the slot, whatever ops the log holds.
THEOREM HistoryIsKept == Spec => HistoryKept
<1>1. Init => LogInv
  BY InitLog
<1>2. LogInv /\ [Next]_vars => LogInv'
  BY LogStep
<1>3. LogInv /\ [Next]_vars =>
        [\A p \in DOMAIN head :
            IsArchivePath(p) =>
                p \in DOMAIN head' /\ (p \in DOMAIN puts \/ head'[p] = head[p])]_vars
  BY HistoryStep
<1> QED
  BY <1>1, <1>2, <1>3, PTL DEF Spec, HistoryKept

-----------------------------------------------------------------------------
\* Generations.  An archive takes the lowest free one, so where the log puts at no slot of a name,
\* the generations the name will have are those of the head and those of the log's archives.

Taken == DOMAIN head \cup ArchiveDestinations

PutsNoSlot(n) == \A p \in DOMAIN puts : p.name = n => ~IsArchivePath(p)

\* The name's generations among some paths have no gap.
Gapless(paths, n) ==
    \A g \in 1..MaxGeneration : [name |-> n, generation |-> g] \in paths =>
        \A k \in 1..g : [name |-> n, generation |-> k] \in paths

\* The log's archives open no gap that the head has not, whatever it puts.
NoGaps == \A n \in Name : Gapless(DOMAIN head, n) => Gapless(Taken, n)

GapInv == LogInv /\ NoGaps

LEMMA GaplessTree == ASSUME NEW tree, NEW n PROVE NoGap(tree, n) <=> Gapless(DOMAIN tree, n)
<1>1. ASSUME NEW g \in 1..MaxGeneration
      PROVE  1..g \subseteq Slots(tree, n) <=>
               \A k \in 1..g : [name |-> n, generation |-> k] \in DOMAIN tree
  <2>1. 1..g \subseteq 1..MaxGeneration
    BY LogAssumption
  <2> QED
    BY <2>1 DEF Slots
<1>2. \A g : g \in Slots(tree, n) <=>
        g \in 1..MaxGeneration /\ [name |-> n, generation |-> g] \in DOMAIN tree
  BY DEF Slots
<1> QED
  BY <1>1, <1>2 DEF NoGap, Gapless

LEMMA ArchiveNoGaps ==
    ASSUME GapInv, NEW p, NEW slot \in Path, Archive(p, slot)
    PROVE  NoGaps'
<1>1. UNCHANGED head /\ archives' = archives \cup {<<p, slot>>}
  BY DEF Archive, AppendOp
<1>2. Taken' = Taken \cup {slot}
  <2>1. \A v : v \in archives' <=> v \in archives \/ v = <<p, slot>>
    BY <1>1
  <2>2. <<p, slot>>[2] = slot
    OBVIOUS
  <2>3. ArchiveDestinations' = ArchiveDestinations \cup {slot}
    BY <2>1, <2>2, Zenon DEF ArchiveDestinations
  <2> QED
    BY <1>1, <2>3 DEF Taken
<1>3. \A k \in 1..(slot.generation - 1) : [slot EXCEPT !.generation = k] \in Taken
  BY DEF Archive, IsFirstFree, Taken
<1>4. slot = [name |-> slot.name, generation |-> slot.generation] /\ slot.generation \in Nat
  BY LogAssumption DEF Path
<1>5. \A k \in 1..(slot.generation - 1) : [name |-> slot.name, generation |-> k] \in Taken
  BY <1>3, <1>4 DEF Path
<1> SUFFICES ASSUME NEW n \in Name, Gapless(DOMAIN head, n), NEW g \in 1..MaxGeneration,
                    [name |-> n, generation |-> g] \in Taken', NEW k \in 1..g
             PROVE  [name |-> n, generation |-> k] \in Taken'
  BY <1>1 DEF NoGaps, Gapless
<1>6. CASE [name |-> n, generation |-> g] \in Taken
  BY <1>2, <1>6 DEF GapInv, NoGaps, Gapless
<1>7. CASE [name |-> n, generation |-> g] = slot
  <2>1. slot.name = n /\ slot.generation = g
    BY <1>7
  <2>2. k = g \/ k \in 1..(slot.generation - 1)
    BY <1>4, <2>1, LogAssumption
  <2> QED
    BY <1>2, <1>5, <1>7, <2>1, <2>2
<1> QED
  BY <1>2, <1>6, <1>7

\* Over an empty log, the slots taken are the head's.
LEMMA FreshGaps == archives = {} => NoGaps
BY DEF NoGaps, Taken, ArchiveDestinations

LEMMA GapStep == GapInv /\ [Next]_vars => GapInv'
<1> SUFFICES ASSUME GapInv, [Next]_vars PROVE NoGaps'
  BY LogStep DEF GapInv
<1>0. ASSUME UNCHANGED <<head, archives>> PROVE NoGaps'
  <2>1. Taken' = Taken
    BY <1>0 DEF Taken, ArchiveDestinations
  <2> QED
    BY <1>0, <2>1 DEF GapInv, NoGaps, Gapless
<1>1. ASSUME NEW p \in Path, NEW slot \in Path, Archive(p, slot) PROVE NoGaps'
  BY <1>1, ArchiveNoGaps
<1>2. CASE Commit
  BY <1>2 DEF Commit, NoGaps, Gapless, Taken, ArchiveDestinations
<1>3. CASE Next
  <2>1. LogTypeOK
    BY DEF GapInv, LogInv
  <2>2. ASSUME NEW p, NEW cut, NEW add, EditHead(p, cut, add), AppendOp PROVE NoGaps'
    BY <2>2, <1>0 DEF EditHead, AppendOp
  <2>3. ASSUME NEW p, NEW x, Link(p, x) \/ Unlink(p, x) \/ Label(p, x) \/ Unlabel(p, x)
        PROVE  NoGaps'
    BY <2>2, <2>3 DEF Link, Unlink, Label, Unlabel
  <2>4. ASSUME NEW p, NEW x, Put(p, x) \/ Move(p, x) PROVE NoGaps'
    BY <2>4, <1>0 DEF Put, Move, AppendOp
  <2>5. ASSUME Complete PROVE NoGaps'
    BY <2>5, <1>0 DEF Complete
  <2> QED
    BY <1>1, <1>2, <1>3, <2>1, <2>3, <2>4, <2>5, StepCases
<1> QED
  BY <1>0, <1>3 DEF vars, walk

\* The generations of a name in the tree, where the log put at none of them.
LEMMA TreeSlots ==
    ASSUME LogInv, NEW n \in Name, PutsNoSlot(n), NEW g \in 1..MaxGeneration
    PROVE  [name |-> n, generation |-> g] \in DOMAIN Tree <=>
               [name |-> n, generation |-> g] \in Taken
<1> DEFINE slot == [name |-> n, generation |-> g]
<1>1. IsArchivePath(slot) /\ slot.name = n
  BY LogAssumption DEF IsArchivePath
<1>2. DOMAIN Tree = (DOMAIN head \ removes) \cup DOMAIN writes
  BY MarkedMap DEF Tree
<1>3. ArchiveDestinations \subseteq DOMAIN writes
  BY DEF LogInv, ArchivesPlaced, ArchiveDestinations
<1>4. slot \notin DOMAIN puts
  BY <1>1 DEF PutsNoSlot
<1>5. slot \notin removes /\ (slot \in DOMAIN writes => slot \in ArchiveDestinations)
  BY <1>1, <1>4 DEF LogInv, ArchivesPlaced
<1> HIDE DEF slot
<1>6. slot \in DOMAIN Tree <=> slot \in Taken
  BY <1>2, <1>3, <1>5 DEF Taken
<1> QED
  BY <1>6 DEF slot

\* What one step may do to the generations of a name: only a commit changes the head.
LEMMA NoGapStep ==
    GapInv /\ [Next]_vars =>
        [\A n \in Name :
            NoGap(head, n) /\ (\A p \in DOMAIN puts : p.name = n => ~IsArchivePath(p)) =>
                NoGap(head', n)]_vars
<1> SUFFICES ASSUME GapInv, Next, NEW n \in Name, NoGap(head, n), PutsNoSlot(n)
             PROVE  NoGap(head', n)
  BY DEF PutsNoSlot
<1>1. CASE Commit
  <2>1. Gapless(Taken, n)
    BY GaplessTree DEF GapInv, NoGaps
  <2>2. \A g \in 1..MaxGeneration :
          [name |-> n, generation |-> g] \in DOMAIN Tree <=>
              [name |-> n, generation |-> g] \in Taken
    BY TreeSlots DEF GapInv
  <2>3. \A g \in 1..MaxGeneration : \A k \in 1..g : k \in 1..MaxGeneration
    BY LogAssumption
  <2>4. Gapless(DOMAIN Tree, n)
    BY <2>1, <2>2, <2>3 DEF Gapless
  <2>5. head' = Tree
    BY <1>1 DEF Commit
  <2> QED
    BY <2>4, <2>5, GaplessTree
<1>2. CASE UNCHANGED head
  BY <1>2
<1> QED
  BY <1>1, <1>2 DEF Next, Put, Archive, Link, Unlink, Label, Unlabel, Move, Complete, AppendOp

\* A log that puts at no slot of a name opens no gap among the name's generations, whatever else
\* it holds: each archive takes the lowest generation that neither the head nor the log has taken.
THEOREM NoGapIsMade == Spec => NoGapMade
<1>1. Init => GapInv
  BY InitLog, FreshGaps DEF Init, GapInv
<1>2. GapInv /\ [Next]_vars => GapInv'
  BY GapStep
<1>3. GapInv /\ [Next]_vars =>
        [\A n \in Name :
            NoGap(head, n) /\ (\A p \in DOMAIN puts : p.name = n => ~IsArchivePath(p)) =>
                NoGap(head', n)]_vars
  BY NoGapStep
<1> QED
  BY <1>1, <1>2, <1>3, PTL DEF Spec, NoGapMade

-----------------------------------------------------------------------------
(***************************************************************************)
(* What a log that may land does to the store.  For a writer that does not *)
(* edit a path its own log archived, the records of the head are each kept *)
(* in one place (KeptInv); for one that puts nothing there either, a tidy  *)
(* store stays tidy (TidyInv).                                             *)
(***************************************************************************)
Vacated == archives \cup moves

\* No two archives or moves share a source, or share a place.
Distinct ==
    \A v, w \in Vacated : v[1] = w[1] \/ v[2] = w[2] => v = w

\* What an archive or a move took is staged where it went, if the log puts nothing there.
Arrived ==
    \A v \in Vacated :
        /\ v[2] \in DOMAIN writes
        /\ v[1] \in DOMAIN head /\ v[2] \notin DOMAIN puts =>
             writes[v[2]].article = head[v[1]].article

\* A record of the head is staged for removal when the log took it away, and if not stays itself,
\* unless it is archived and the log puts over it.
Settled ==
    \A p \in DOMAIN head :
        /\ p \in Left => p \in removes /\ p \notin DOMAIN writes
        /\ p \notin Left =>
             /\ p \notin removes
             /\ p \in DOMAIN writes =>
                  (IsArchivePath(p) /\ p \in DOMAIN puts) \/ writes[p].article = head[p].article

\* Only a put of the log fills a path it archived, and only by a writer that puts there.
Refilled ==
    /\ putAgain \subseteq DOMAIN puts
    /\ "put" \notin Reuse => putAgain = {}

KeptInv == LogInv /\ Distinct /\ Arrived /\ Settled /\ Refilled

LEMMA DestinationsOf == /\ \A v \in archives : v[1] \in Archived /\ v[2] \in ArchiveDestinations
                        /\ \A v \in moves : v[1] \in MovedAway /\ v[2] \in MovedInto
                        /\ \A v \in Vacated : v[1] \in Left
                        /\ \A p \in Left : \E v \in Vacated : v[1] = p
BY DEF Archived, ArchiveDestinations, MovedAway, MovedInto, Vacated, Left

\* The articles of files do not change where nothing else does.
LEMMA SameFiles ==
    ASSUME KeptInv, UNCHANGED <<head, puts, archives, moves, removes>>,
           DOMAIN writes \subseteq DOMAIN writes',
           \A p \in DOMAIN writes' :
             /\ p \in DOMAIN writes => writes'[p].article = writes[p].article
             /\ p \notin DOMAIN writes => p \notin Left
             /\ p \notin DOMAIN writes /\ p \in DOMAIN head => writes'[p].article = head[p].article
    PROVE  Distinct' /\ Arrived' /\ Settled'
<1>1. Vacated' = Vacated /\ Left' = Left
  BY DEF Vacated, Left, Archived, MovedAway
<1> QED
  BY <1>1 DEF KeptInv, Distinct, Arrived, Settled

LEMMA EditedArticle ==
    ASSUME LogInv, NEW p, HasFile(p), NEW cut, NEW add
    PROVE  Edited(File(p), cut, add).article = File(p).article
<1>1. File(p) \in Record
  BY FileRecord DEF LogInv, LogTypeOK
<1> HIDE DEF File
<1> QED
  BY <1>1 DEF Edited, Record

\* An archive path is never one the log took a record from.
LEMMA SlotsNotLeft == ASSUME LogInv, NEW p \in Left PROVE ~IsArchivePath(p)
BY DEF LogInv, MovesPlaced, ArchivesPlaced, Left, Archived, MovedAway

LEMMA EditKept ==
    ASSUME KeptInv, "edit" \notin Reuse, NEW p \in Path, NEW cut, NEW add,
           EditHead(p, cut, add), UNCHANGED head
    PROVE  Distinct' /\ Arrived' /\ Settled'
<1>1. UNCHANGED <<head, puts, archives, moves, removes>>
  BY DEF EditHead
<1>2. LogInv
  BY DEF KeptInv
<1>3. p \in DOMAIN head => p \notin Left
  <2>1. CASE IsArchivePath(p)
    BY <1>2, <2>1, SlotsNotLeft
  <2>2. CASE ~IsArchivePath(p)
    <3>1. p \in DOMAIN head => p \notin DOMAIN puts /\ p \notin MovedInto
      BY <1>2, <2>2 DEF LogInv, MovesPlaced, ArchivesPlaced, MovedInto
    <3>2. p \in DOMAIN head => p \notin Archived
      BY <3>1 DEF EditHead, MayEdit, KeptInv, Refilled
    <3> QED
      BY <3>1, <3>2 DEF EditHead, IsLiveSource, Left
  <2> QED
    BY <2>1, <2>2
<1>4. LogInv
  BY DEF KeptInv
<1>5. \A q \in DOMAIN writes' : q # p => q \in DOMAIN writes /\ writes'[q] = writes[q]
  BY <1>4, EditedWrites
<1>6. p \in DOMAIN writes' => HasFile(p) /\ writes'[p].article = File(p).article
  BY <1>4, EditedWrites, EditedArticle
<1>7. p \in DOMAIN writes' /\ p \notin DOMAIN writes => p \notin Left
  BY <1>3, <1>6 DEF HasFile
<1>8. DOMAIN writes \subseteq DOMAIN writes'
  BY <1>4, EditedWrites
<1>9. \A q \in DOMAIN writes' :
         /\ q \in DOMAIN writes => writes'[q].article = writes[q].article
         /\ q \notin DOMAIN writes => q \notin Left
         /\ q \notin DOMAIN writes /\ q \in DOMAIN head => writes'[q].article = head[q].article
  BY <1>5, <1>6, <1>7 DEF File
<1> QED
  BY <1>1, <1>8, <1>9, SameFiles

LEMMA CompleteKept == ASSUME KeptInv, Complete PROVE Distinct' /\ Arrived' /\ Settled'
<1>1. UNCHANGED <<head, puts, archives, moves, removes>>
  BY DEF Complete
<1>2. DOMAIN writes \subseteq DOMAIN writes' /\ LogInv
  BY RepointedRecords DEF KeptInv
<1>3. \A p \in DOMAIN writes' :
         /\ p \in DOMAIN writes => writes'[p].article = writes[p].article
         /\ p \notin DOMAIN writes => p \notin Left
         /\ p \notin DOMAIN writes /\ p \in DOMAIN head => writes'[p].article = head[p].article
  BY <1>2, RepointedRecords
<1> QED
  BY <1>1, <1>2, <1>3, SameFiles

LEMMA PutKept ==
    ASSUME KeptInv, NEW p \in Path, NEW r \in Record, Put(p, r)
    PROVE  Distinct' /\ Arrived' /\ Settled'
<1>1. /\ UNCHANGED <<head, archives, moves>> /\ removes' = removes \ {p}
      /\ writes' = With(writes, p, r) /\ puts' = With(puts, p, r.article)
      /\ IsArchivePath(p) \/ p \notin DOMAIN head
  BY DEF Put, AppendOp, IsActiveIn
<1>2. Vacated' = Vacated /\ Left' = Left
  BY <1>1 DEF Vacated, Left, Archived, MovedAway
<1>3. DOMAIN puts' = DOMAIN puts \cup {p}
  BY <1>1 DEF With
<1>4. /\ DOMAIN writes' = DOMAIN writes \cup {p}
      /\ \A q \in DOMAIN writes : q # p => writes'[q] = writes[q]
  BY <1>1 DEF With
<1>5. Distinct'
  BY <1>2 DEF KeptInv, Distinct
<1>6. Arrived'
  BY <1>1, <1>2, <1>3, <1>4 DEF KeptInv, Arrived
<1>7. p \in DOMAIN head => p \notin Left
  BY <1>1, SlotsNotLeft DEF KeptInv
<1>8. Settled'
  BY <1>1, <1>2, <1>3, <1>4, <1>7 DEF KeptInv, Settled
<1> QED
  BY <1>5, <1>6, <1>8

\* One more archive or move, of a path that had not left, to a place nothing took.
LEMMA OneMoreKept ==
    ASSUME KeptInv, NEW p, NEW q, UNCHANGED <<head, puts>>,
           Vacated' = Vacated \cup {<<p, q>>}, Left' = Left \cup {p},
           p \notin Left, p # q, q \notin DOMAIN head,
           \A v \in Vacated : v[2] # p /\ v[2] # q,
           DOMAIN writes' = (DOMAIN writes \ {p}) \cup {q},
           \A o \in DOMAIN writes : o # p /\ o # q => writes'[o] = writes[o],
           p \in DOMAIN head => writes'[q].article = head[p].article,
           removes' \ {q} = (removes \cup {p}) \ {q}
    PROVE  Distinct' /\ Arrived' /\ Settled'
<1>0. <<p, q>>[1] = p /\ <<p, q>>[2] = q
  OBVIOUS
<1>1. Distinct'
  <2>1. \A v \in Vacated : v[1] # p
    BY DestinationsOf
  <2> QED
    BY <1>0, <2>1 DEF KeptInv, Distinct
<1>2. Arrived'
  BY <1>0 DEF KeptInv, Arrived
<1>3. Settled'
  BY DEF KeptInv, Settled
<1> QED
  BY <1>1, <1>2, <1>3

\* Nothing stands where a record the log may still take away stands.
LEMMA SourceIsNoPlace ==
    ASSUME LogInv, NEW p, ~IsArchivePath(p), p \in DOMAIN puts \cup DOMAIN head
    PROVE  \A v \in Vacated : v[2] # p
BY DEF LogInv, MovesPlaced, ArchivesPlaced, Vacated

LEMMA FileOfSource ==
    ASSUME KeptInv, NEW p \in DOMAIN head, p \notin Left, ~IsArchivePath(p)
    PROVE  HasFile(p) /\ File(p).article = head[p].article
BY DEF KeptInv, Settled, HasFile, File

LEMMA ArchiveKept ==
    ASSUME KeptInv, NEW p \in Path, ~IsArchivePath(p), NEW slot \in Path, Archive(p, slot)
    PROVE  Distinct' /\ Arrived' /\ Settled'
<1>0. LogInv
  BY DEF KeptInv
<1>1. /\ UNCHANGED <<head, puts, moves>> /\ archives' = archives \cup {<<p, slot>>}
      /\ removes' = removes \cup {p} /\ ~HasLeft(p)
      /\ p \in DOMAIN puts \cup DOMAIN head
      /\ IsArchivePath(slot) /\ slot \notin DOMAIN head \cup ArchiveDestinations
  BY DEF Archive, AppendOp, IsActiveIn, IsFirstFree
<1>2. Vacated' = Vacated \cup {<<p, slot>>}
  BY <1>1 DEF Vacated
<1>3. Left' = Left \cup {p}
  <2>1. \A v : v \in archives' <=> v \in archives \/ v = <<p, slot>>
    BY <1>1
  <2>2. <<p, slot>>[1] = p
    OBVIOUS
  <2>3. Archived' = Archived \cup {p}
    BY <2>1, <2>2, Zenon DEF Archived
  <2>4. MovedAway' = MovedAway
    BY <1>1 DEF MovedAway
  <2> QED
    BY <2>3, <2>4 DEF Left
<1>4. p \notin Left
  BY <1>1 DEF HasLeft, Left
<1>5. \A v \in Vacated : v[2] # p /\ v[2] # slot
  <2>1. \A v \in Vacated : v[2] # p
    BY <1>0, <1>1, SourceIsNoPlace
  <2>2. \A v \in archives : v[2] # slot
    BY <1>1 DEF ArchiveDestinations
  <2>3. \A v \in moves : v[2] # slot
    BY <1>0, <1>1 DEF LogInv, MovesPlaced
  <2> QED
    BY <2>1, <2>2, <2>3 DEF Vacated
<1>6. /\ DOMAIN writes' = (DOMAIN writes \ {p}) \cup {slot}
      /\ \A o \in DOMAIN writes : o # p /\ o # slot => writes'[o] = writes[o]
      /\ HasFile(p) => writes'[slot] = File(p)
  BY DEF Archive, With, Without
<1>7. p \in DOMAIN head => writes'[slot].article = head[p].article
  BY <1>4, <1>6, FileOfSource
<1>8. p # slot
  BY <1>1
<1> QED
  BY <1>1, <1>2, <1>3, <1>4, <1>5, <1>6, <1>7, <1>8, OneMoreKept

LEMMA MoveKept ==
    ASSUME KeptInv, NEW p \in Path, ~IsArchivePath(p), NEW q \in Path, ~IsArchivePath(q), Move(p, q)
    PROVE  Distinct' /\ Arrived' /\ Settled'
<1>0. LogInv
  BY DEF KeptInv
<1>1. /\ UNCHANGED <<head, puts, archives>> /\ moves' = moves \cup {<<p, q>>}
      /\ removes' = (removes \cup {p}) \ {q} /\ ~HasLeft(p)
      /\ p \in DOMAIN head /\ q # p /\ q \notin DOMAIN head
      /\ q \notin MovedInto \cup ArchiveDestinations
  BY DEF Move, AppendOp, IsActiveIn
<1>2. Vacated' = Vacated \cup {<<p, q>>}
  BY <1>1 DEF Vacated
<1>3. Left' = Left \cup {p}
  <2>1. \A v : v \in moves' <=> v \in moves \/ v = <<p, q>>
    BY <1>1
  <2>2. <<p, q>>[1] = p
    OBVIOUS
  <2>3. MovedAway' = MovedAway \cup {p}
    BY <2>1, <2>2, Zenon DEF MovedAway
  <2>4. Archived' = Archived
    BY <1>1 DEF Archived
  <2> QED
    BY <2>3, <2>4 DEF Left
<1>4. p \notin Left
  BY <1>1 DEF HasLeft, Left
<1>5. \A v \in Vacated : v[2] # p /\ v[2] # q
  <2>1. \A v \in Vacated : v[2] # p
    BY <1>0, <1>1, SourceIsNoPlace
  <2>2. \A v \in Vacated : v[2] # q
    BY <1>1 DEF ArchiveDestinations, MovedInto, Vacated
  <2> QED
    BY <2>1, <2>2
<1>6. /\ DOMAIN writes' = (DOMAIN writes \ {p}) \cup {q}
      /\ \A o \in DOMAIN writes : o # p /\ o # q => writes'[o] = writes[o]
      /\ writes'[q] = File(p)
  BY DEF Move, With, Without
<1>7. writes'[q].article = head[p].article
  BY <1>1, <1>4, <1>6, FileOfSource
<1> QED
  BY <1>1, <1>2, <1>3, <1>4, <1>5, <1>6, <1>7, OneMoreKept

LEMMA FreshKept ==
    ASSUME archives = {}, moves = {}, writes = Nowhere, removes = {}
    PROVE  Distinct /\ Arrived /\ Settled
<1>1. Vacated = {} /\ Left = {}
  BY DEF Vacated, Left, Archived, MovedAway
<1>2. DOMAIN writes = {}
  BY DEF Nowhere
<1> QED
  BY <1>1, <1>2 DEF Distinct, Arrived, Settled

LEMMA CommitKept == ASSUME Commit PROVE Distinct' /\ Arrived' /\ Settled'
<1>1. archives' = {} /\ moves' = {} /\ writes' = Nowhere /\ removes' = {}
  BY DEF Commit
<1>2. Vacated' = {} /\ Left' = {}
  BY <1>1 DEF Vacated, Left, Archived, MovedAway
<1>3. DOMAIN writes' = {}
  BY <1>1 DEF Nowhere
<1> QED
  BY <1>1, <1>2, <1>3 DEF Distinct, Arrived, Settled

LEMMA InitKept == Init => KeptInv
BY InitLog, FreshKept DEF Init, KeptInv, Refilled

LEMMA RefilledStep == KeptInv /\ [Next]_vars => Refilled'
<1> SUFFICES ASSUME KeptInv, [Next]_vars PROVE Refilled'
  OBVIOUS
<1>0. ASSUME UNCHANGED <<puts, putAgain>> PROVE Refilled'
  BY <1>0 DEF KeptInv, Refilled
<1>1. ASSUME NEW p \in Path, NEW r \in Record, Put(p, r) PROVE Refilled'
  BY <1>1 DEF Put, MayPut, With, KeptInv, Refilled
<1>2. CASE Commit
  BY <1>2 DEF Commit, Refilled
<1>3. CASE Next
  <2>1. LogTypeOK
    BY DEF KeptInv, LogInv
  <2>2. ASSUME NEW p \in Path, NEW slot \in Path, Archive(p, slot) PROVE Refilled'
    BY <2>2, <1>0 DEF Archive
  <2>3. ASSUME NEW p, NEW cut, NEW add, EditHead(p, cut, add) PROVE Refilled'
    BY <2>3, <1>0 DEF EditHead
  <2>4. ASSUME NEW p, NEW q, Move(p, q) PROVE Refilled'
    BY <2>4, <1>0 DEF Move
  <2>5. ASSUME Complete PROVE Refilled'
    BY <2>5, <1>0 DEF Complete
  <2>6. ASSUME NEW p, NEW x, Link(p, x) \/ Unlink(p, x) \/ Label(p, x) \/ Unlabel(p, x)
        PROVE  Refilled'
    BY <2>6, <2>3 DEF Link, Unlink, Label, Unlabel
  <2> QED
    BY <1>1, <1>2, <1>3, <2>1, <2>2, <2>4, <2>5, <2>6, StepCases
<1> QED
  BY <1>0, <1>3 DEF vars, walk

LEMMA KeptStep == "edit" \notin Reuse /\ KeptInv /\ [Next]_vars => KeptInv'
<1> SUFFICES ASSUME "edit" \notin Reuse, KeptInv, [Next]_vars
             PROVE  Distinct' /\ Arrived' /\ Settled'
  BY LogStep, RefilledStep DEF KeptInv
<1>0. CASE UNCHANGED vars
  BY <1>0 DEF vars, walk, staged, KeptInv, Distinct, Arrived, Settled, Vacated, Left,
              Archived, MovedAway
<1>1. ASSUME NEW p \in Path, NEW r \in Record, Put(p, r)
      PROVE  Distinct' /\ Arrived' /\ Settled'
  BY <1>1, PutKept
<1>2. ASSUME NEW p \in Path, NEW slot \in Path, ~IsArchivePath(p), Archive(p, slot)
      PROVE  Distinct' /\ Arrived' /\ Settled'
  BY <1>2, ArchiveKept
<1>3. ASSUME NEW p \in Path, NEW target \in Path, Link(p, target)
      PROVE  Distinct' /\ Arrived' /\ Settled'
  BY <1>3, EditKept DEF Link, AppendOp
<1>4. ASSUME NEW p \in Path, NEW target \in Path, Unlink(p, target)
      PROVE  Distinct' /\ Arrived' /\ Settled'
  BY <1>4, EditKept DEF Unlink, AppendOp
<1>5. ASSUME NEW p \in Path, NEW e \in Entity, Label(p, e)
      PROVE  Distinct' /\ Arrived' /\ Settled'
  BY <1>5, EditKept DEF Label, AppendOp
<1>6. ASSUME NEW p \in Path, NEW e \in Entity, Unlabel(p, e)
      PROVE  Distinct' /\ Arrived' /\ Settled'
  BY <1>6, EditKept DEF Unlabel, AppendOp
<1>7. ASSUME NEW p \in Path, NEW q \in Path, ~IsArchivePath(p), ~IsArchivePath(q), Move(p, q)
      PROVE  Distinct' /\ Arrived' /\ Settled'
  BY <1>7, MoveKept
<1>8. CASE Complete
  BY <1>8, CompleteKept
<1>9. CASE Commit
  BY <1>9, CommitKept
<1>10. CASE Next
  <2>1. LogTypeOK
    BY DEF KeptInv, LogInv
  <2> QED
    BY <1>1, <1>2, <1>3, <1>4, <1>5, <1>6, <1>7, <1>8, <1>9, <1>10, <2>1, StepCases
<1> QED
  BY <1>0, <1>10

LEMMA TreeOfWrites ==
    ASSUME LogInv
    PROVE  /\ DOMAIN Tree = (DOMAIN head \ removes) \cup DOMAIN writes
           /\ \A p \in DOMAIN writes : Tree[p].article = writes[p].article
           /\ \A p \in DOMAIN Tree \ DOMAIN writes : Tree[p] = head[p]
BY MarkedMap DEF Tree

\* The invariant says where every record of the head is once the log has landed.
LEMMA KeptEverywhere == KeptInv => RecordsKept
<1> SUFFICES ASSUME KeptInv, NEW p \in DOMAIN head
             PROVE  /\ \A v \in archives \cup moves :
                         v[1] = p /\ v[2] \notin DOMAIN puts =>
                             v[2] \in DOMAIN Tree /\ Tree[v[2]].article = head[p].article
                    /\ \A v, w \in archives \cup moves : v[1] = p /\ w[1] = p => v = w
                    /\ p \in (Archived \cup MovedAway) \ DOMAIN puts => p \notin DOMAIN Tree
                    /\ p \notin Archived \cup MovedAway =>
                         /\ p \in DOMAIN Tree
                         /\ ~(IsArchivePath(p) /\ p \in DOMAIN puts) =>
                              Tree[p].article = head[p].article
  BY Zenon DEF RecordsKept
<1>0. LogInv
  BY DEF KeptInv
<1>1. \A v \in archives \cup moves :
        v[1] = p /\ v[2] \notin DOMAIN puts =>
            v[2] \in DOMAIN Tree /\ Tree[v[2]].article = head[p].article
  BY <1>0, TreeOfWrites DEF KeptInv, Arrived, Vacated
<1>2. \A v, w \in archives \cup moves : v[1] = p /\ w[1] = p => v = w
  BY DEF KeptInv, Distinct, Vacated
<1>3. p \in Left => p \notin DOMAIN Tree
  BY <1>0, TreeOfWrites DEF KeptInv, Settled
<1>4. p \notin Left => p \in DOMAIN Tree
  BY <1>0, TreeOfWrites DEF KeptInv, Settled
<1>5. p \notin Left /\ ~(IsArchivePath(p) /\ p \in DOMAIN puts) => Tree[p].article = head[p].article
  <2>1. CASE p \in DOMAIN writes
    BY <1>0, <2>1, TreeOfWrites DEF KeptInv, Settled
  <2>2. CASE p \notin DOMAIN writes
    BY <1>0, <1>4, <2>2, TreeOfWrites
  <2> QED
    BY <2>1, <2>2
<1> QED
  BY <1>1, <1>2, <1>3, <1>4, <1>5 DEF Left

\* For a writer that does not edit what its log archived, a log that may land leaves each
\* record of the head in one place, whole: where it was, or where the log took it, but for the
\* archived records the log puts over.
THEOREM RecordsAreKept == "edit" \notin Reuse => (Spec => []RecordsKept)
<1> SUFFICES ASSUME "edit" \notin Reuse PROVE Spec => []RecordsKept
  OBVIOUS
<1>1. Init => KeptInv
  BY InitKept
<1>2. KeptInv /\ [Next]_vars => KeptInv'
  BY KeptStep
<1>3. KeptInv => RecordsKept
  BY KeptEverywhere
<1> QED
  BY <1>1, <1>2, <1>3, PTL DEF Spec

-----------------------------------------------------------------------------
\* Tidy commits.  The refusals of the walk keep the log's claims apart from the head's, and the
\* labels it keeps of a path are those of the file staged there.

\* No two puts claim one article, and no live record of the head holds a claimed one.
Claims ==
    /\ \A p \in DOMAIN puts : puts[p] \in claimed
    /\ \A p, q \in DOMAIN puts : puts[p] = puts[q] => p = q
    /\ \A p \in DOMAIN head : IsActiveIn(head, p) => head[p].article \notin claimed

\* A live file staged is a put's, a move's, or an edit of the head's.
Staged ==
    \A p \in DOMAIN writes : ~IsArchivePath(p) =>
        /\ p \notin Archived
        /\ p \in DOMAIN puts \cup MovedInto \cup DOMAIN head
        /\ p \in DOMAIN puts => writes[p].article = puts[p]

\* The walk knows the entities of every live file, and only a move or an unlabel may have left one
\* below the bar.
Carried ==
    \A p \in DOMAIN head \cup DOMAIN writes :
        ~IsArchivePath(p) /\ p \notin Left =>
            /\ EntitiesOf(p) = File(p).entities
            /\ RequireAnchor /\ p \notin MovedInto \cup unlabeled => IsAnchored(p, EntitiesOf(p))

TidyInv == KeptInv /\ Tidy(head) /\ Claims /\ Staged /\ Carried

\* Only puts claim.
LEMMA SameClaims ==
    ASSUME TidyInv, UNCHANGED head
    PROVE  /\ Tidy(head)'
           /\ UNCHANGED <<puts, claimed>> => Claims'
BY DEF TidyInv, Claims, IsActiveIn

LEMMA PutTidy ==
    ASSUME TidyInv, Reuse = {}, NEW p \in Path, NEW r \in Record, Put(p, r)
    PROVE  (Tidy(head) /\ Claims /\ Staged /\ Carried)'
<1>1. /\ UNCHANGED <<head, archives, moves, unlabeled>> /\ writes' = With(writes, p, r)
      /\ puts' = With(puts, p, r.article) /\ claimed' = claimed \cup {r.article}
      /\ labels' = With(labels, p, r.entities)
      /\ p \notin MovedInto /\ p \notin Archived /\ r.article \notin claimed
      /\ \A q \in DOMAIN head : IsActiveIn(head, q) => head[q].article # r.article
      /\ RequireAnchor /\ ~IsArchivePath(p) => IsAnchored(p, r.entities)
  BY DEF Put, AppendOp, IsActiveIn, MayPut
<1>2. /\ Archived' = Archived /\ MovedInto' = MovedInto /\ Left' = Left
  BY <1>1 DEF Archived, MovedInto, MovedAway, Left
<1>3. /\ DOMAIN writes' = DOMAIN writes \cup {p} /\ writes'[p] = r
      /\ \A q \in DOMAIN writes : q # p => writes'[q] = writes[q]
  BY <1>1 DEF With
<1>4. /\ DOMAIN puts' = DOMAIN puts \cup {p} /\ puts'[p] = r.article
      /\ \A q \in DOMAIN puts : q # p => puts'[q] = puts[q]
  BY <1>1 DEF With
<1>5. /\ EntitiesOf(p)' = r.entities
      /\ \A q : q # p => EntitiesOf(q)' = EntitiesOf(q)
  BY <1>1 DEF With, EntitiesOf
<1>6. Claims'
  <2>1. \A q \in DOMAIN puts' : puts'[q] \in claimed'
    BY <1>1, <1>4 DEF TidyInv, Claims
  <2>2. \A o, q \in DOMAIN puts' : puts'[o] = puts'[q] => o = q
    BY <1>1, <1>4 DEF TidyInv, Claims
  <2>3. \A q \in DOMAIN head' : IsActiveIn(head', q) => head'[q].article \notin claimed'
    BY <1>1 DEF TidyInv, Claims, IsActiveIn
  <2> QED
    BY <2>1, <2>2, <2>3 DEF Claims
<1>7. Staged'
  BY <1>1, <1>2, <1>3, <1>4 DEF TidyInv, Staged
<1>8. Carried'
  <2> SUFFICES ASSUME NEW q \in DOMAIN head \cup DOMAIN writes', ~IsArchivePath(q), q \notin Left
               PROVE  /\ EntitiesOf(q)' = File(q)'.entities
                      /\ RequireAnchor /\ q \notin MovedInto \cup unlabeled =>
                           IsAnchored(q, EntitiesOf(q)')
    BY <1>1, <1>2 DEF Carried, IsAnchored
  <2>1. CASE q = p
    BY <1>1, <1>3, <1>5, <2>1 DEF File
  <2>2. CASE q # p
    BY <1>1, <1>3, <1>5, <2>2 DEF TidyInv, Carried, File
  <2> QED
    BY <2>1, <2>2
<1> QED
  BY <1>1, <1>6, <1>7, <1>8, SameClaims

LEMMA ArchiveTidy ==
    ASSUME TidyInv, NEW p \in Path, ~IsArchivePath(p), NEW slot \in Path, Archive(p, slot)
    PROVE  (Tidy(head) /\ Claims /\ Staged /\ Carried)'
<1>1. /\ UNCHANGED <<head, moves, puts, claimed, labels, unlabeled>>
      /\ archives' = archives \cup {<<p, slot>>} /\ IsArchivePath(slot)
  BY DEF Archive, AppendOp
<1>2. Archived' = Archived \cup {p} /\ MovedInto' = MovedInto /\ Left' = Left \cup {p}
  <2>1. \A v : v \in archives' <=> v \in archives \/ v = <<p, slot>>
    BY <1>1
  <2>2. <<p, slot>>[1] = p
    OBVIOUS
  <2>3. Archived' = Archived \cup {p}
    BY <2>1, <2>2, Zenon DEF Archived
  <2>4. MovedAway' = MovedAway /\ MovedInto' = MovedInto
    BY <1>1 DEF MovedAway, MovedInto
  <2> QED
    BY <2>3, <2>4 DEF Left
<1>3. /\ DOMAIN writes' = (DOMAIN writes \ {p}) \cup {slot}
      /\ \A o \in DOMAIN writes : o # p /\ o # slot => writes'[o] = writes[o]
  BY DEF Archive, With, Without
<1>4. Tidy(head)' /\ Claims'
  BY <1>1 DEF TidyInv, Claims, IsActiveIn
<1>5. Staged'
  BY <1>1, <1>2, <1>3 DEF TidyInv, Staged
<1>6. Carried'
  BY <1>1, <1>2, <1>3 DEF TidyInv, Carried, File, EntitiesOf, IsAnchored
<1> QED
  BY <1>4, <1>5, <1>6, ArchiveNoGaps

LEMMA MoveTidy ==
    ASSUME TidyInv, NEW p \in Path, ~IsArchivePath(p), NEW q \in Path, ~IsArchivePath(q), Move(p, q)
    PROVE  (Tidy(head) /\ Claims /\ Staged /\ Carried)'
<1>1. /\ UNCHANGED <<head, archives, puts, claimed, unlabeled>>
      /\ moves' = moves \cup {<<p, q>>} /\ labels' = With(labels, q, EntitiesOf(p))
      /\ p \in DOMAIN head /\ ~HasLeft(p) /\ q # p /\ q \notin DOMAIN head \cup DOMAIN puts
  BY DEF Move, AppendOp, IsActiveIn
<1>2. /\ Archived' = Archived /\ MovedInto' = MovedInto \cup {q} /\ Left' = Left \cup {p}
  <2>1. \A v : v \in moves' <=> v \in moves \/ v = <<p, q>>
    BY <1>1
  <2>2. <<p, q>>[1] = p /\ <<p, q>>[2] = q
    OBVIOUS
  <2>3. MovedAway' = MovedAway \cup {p}
    BY <2>1, <2>2, Zenon DEF MovedAway
  <2>4. MovedInto' = MovedInto \cup {q}
    BY <2>1, <2>2, Zenon DEF MovedInto
  <2>5. Archived' = Archived
    BY <1>1 DEF Archived
  <2> QED
    BY <2>3, <2>4, <2>5 DEF Left
<1>3. /\ DOMAIN writes' = (DOMAIN writes \ {p}) \cup {q} /\ writes'[q] = File(p)
      /\ \A o \in DOMAIN writes : o # p /\ o # q => writes'[o] = writes[o]
  BY DEF Move, With, Without
<1>4. EntitiesOf(q)' = EntitiesOf(p) /\ \A o : o # q => EntitiesOf(o)' = EntitiesOf(o)
  BY <1>1 DEF With, EntitiesOf
<1>5. Staged'
  <2>1. q \notin Archived
    BY <1>1 DEF TidyInv, KeptInv, LogInv, ArchivesPlaced, Archived
  <2> QED
    BY <1>1, <1>2, <1>3, <2>1 DEF TidyInv, Staged
<1>6. Carried'
  <2> SUFFICES ASSUME NEW o \in DOMAIN head \cup DOMAIN writes', ~IsArchivePath(o), o \notin Left'
               PROVE  /\ EntitiesOf(o)' = File(o)'.entities
                      /\ RequireAnchor /\ o \notin (MovedInto \cup unlabeled)' =>
                           IsAnchored(o, EntitiesOf(o)')
    BY <1>1 DEF Carried, IsAnchored
  <2>1. CASE o = q
    <3>1. p \notin Left
      BY <1>1 DEF HasLeft, Left
    <3>2. EntitiesOf(p) = File(p).entities
      BY <1>1, <3>1 DEF TidyInv, Carried
    <3> QED
      BY <1>2, <1>3, <1>4, <2>1, <3>2 DEF File
  <2>2. CASE o # q
    BY <1>1, <1>2, <1>3, <1>4, <2>2 DEF TidyInv, Carried, File
  <2> QED
    BY <2>1, <2>2
<1> QED
  BY <1>1, <1>5, <1>6, SameClaims

\* An edit changes the entities of one file as the walk does, and no article.
LEMMA EditTidy ==
    ASSUME TidyInv, Reuse = {}, NEW p \in Path, NEW cut, NEW add,
           EditHead(p, cut, add), UNCHANGED head,
           \A q : q # p => EntitiesOf(q)' = EntitiesOf(q),
           EntitiesOf(p)' = (EntitiesOf(p) \ cut.entities) \cup add.entities,
           unlabeled \subseteq unlabeled',
           cut.entities = {} \/ p \in unlabeled'
    PROVE  (Tidy(head) /\ Claims /\ Staged /\ Carried)'
<1>0. LogInv
  BY DEF TidyInv, KeptInv
<1>1. /\ UNCHANGED <<archives, moves, puts, claimed>> /\ p \notin Archived
  BY DEF EditHead, MayEdit, TidyInv, KeptInv, Refilled
<1>2. Archived' = Archived /\ MovedInto' = MovedInto /\ Left' = Left
  BY <1>1 DEF Archived, MovedInto, MovedAway, Left
<1>3. /\ DOMAIN writes \subseteq DOMAIN writes'
      /\ \A q \in DOMAIN writes' : q # p => q \in DOMAIN writes /\ writes'[q] = writes[q]
      /\ p \in DOMAIN writes' => HasFile(p) /\ writes'[p] = Edited(File(p), cut, add)
  BY <1>0, EditedWrites
<1>4. p \in DOMAIN writes' =>
        /\ writes'[p].article = File(p).article
        /\ writes'[p].entities = (File(p).entities \ cut.entities) \cup add.entities
  <2>1. HasFile(p) => File(p) \in Record
    BY <1>0, FileRecord DEF LogInv, LogTypeOK
  <2> HIDE DEF File
  <2> QED
    BY <1>3, <2>1 DEF Edited, Record
<1>5. HasFile(p) => p \in DOMAIN writes'
  BY DEF EditHead, With
<1>6. Staged'
  <2> SUFFICES ASSUME NEW q \in DOMAIN writes', ~IsArchivePath(q)
               PROVE  /\ q \notin Archived
                      /\ q \in DOMAIN puts \cup MovedInto \cup DOMAIN head
                      /\ q \in DOMAIN puts => writes'[q].article = puts[q]
    BY <1>1, <1>2 DEF Staged
  <2>1. CASE q # p
    BY <1>3, <2>1 DEF TidyInv, Staged
  <2>2. CASE q = p
    <3>1. CASE p \in DOMAIN writes
      BY <1>1, <1>4, <2>2, <3>1 DEF TidyInv, Staged, File
    <3>2. CASE p \notin DOMAIN writes
      <4>1. p \in DOMAIN head /\ p \notin DOMAIN puts
        BY <1>0, <1>3, <2>2, <3>2 DEF HasFile, LogInv, ArchivesPlaced
      <4> QED
        BY <1>1, <2>2, <4>1
    <3> QED
      BY <3>1, <3>2
  <2> QED
    BY <2>1, <2>2
<1>7. Carried'
  <2> SUFFICES ASSUME NEW q \in DOMAIN head \cup DOMAIN writes', ~IsArchivePath(q), q \notin Left
               PROVE  /\ EntitiesOf(q)' = File(q)'.entities
                      /\ RequireAnchor /\ q \notin MovedInto \cup unlabeled' =>
                           IsAnchored(q, EntitiesOf(q)')
    BY <1>2 DEF Carried, IsAnchored
  <2>1. CASE q # p
    <3>1. File(q)' = File(q) /\ q \in DOMAIN head \cup DOMAIN writes
      BY <1>3, <2>1 DEF File
    <3> QED
      BY <2>1, <3>1 DEF TidyInv, Carried
  <2>2. CASE q = p
    <3>1. HasFile(p)
      BY <1>3, <2>2 DEF HasFile
    <3>2. /\ EntitiesOf(p) = File(p).entities
          /\ RequireAnchor /\ p \notin MovedInto \cup unlabeled => IsAnchored(p, EntitiesOf(p))
      BY <2>2, <3>1 DEF TidyInv, Carried, HasFile
    <3>3. File(p)' = writes'[p]
      BY <1>5, <3>1 DEF File
    <3>4. EntitiesOf(p)' = File(p)'.entities
      BY <1>4, <1>5, <3>1, <3>2, <3>3
    <3>5. RequireAnchor /\ p \notin MovedInto \cup unlabeled' => IsAnchored(p, EntitiesOf(p)')
      BY <3>2 DEF IsAnchored
    <3> QED
      BY <2>2, <3>4, <3>5
  <2> QED
    BY <2>1, <2>2
<1> QED
  BY <1>1, <1>6, <1>7, SameClaims

LEMMA LinkTidy ==
    ASSUME TidyInv, Reuse = {}, NEW p \in Path, NEW target,
           Link(p, target) \/ Unlink(p, target)
    PROVE  (Tidy(head) /\ Claims /\ Staged /\ Carried)'
<1>1. UNCHANGED <<head, labels, unlabeled>>
  BY DEF Link, Unlink, AppendOp
<1>2. \A q : EntitiesOf(q)' = EntitiesOf(q)
  BY <1>1 DEF EntitiesOf
<1>3. Nothing.entities = {} /\ OnlyLink(target).entities = {}
  BY DEF Nothing, OnlyLink
<1>4. EditHead(p, Nothing, OnlyLink(target)) \/ EditHead(p, OnlyLink(target), Nothing)
  BY DEF Link, Unlink
<1> QED
  BY <1>1, <1>2, <1>3, <1>4, EditTidy

LEMMA LabelTidy ==
    ASSUME TidyInv, Reuse = {}, NEW p \in Path, NEW e,
           Label(p, e) \/ Unlabel(p, e)
    PROVE  (Tidy(head) /\ Claims /\ Staged /\ Carried)'
<1>1. Nothing.entities = {} /\ OnlyEntity(e).entities = {e}
  BY DEF Nothing, OnlyEntity
<1>2. CASE Label(p, e)
  <2>1. /\ UNCHANGED <<head, unlabeled>> /\ labels' = With(labels, p, EntitiesOf(p) \cup {e})
        /\ EditHead(p, Nothing, OnlyEntity(e))
    BY <1>2 DEF Label, AppendOp
  <2>2. EntitiesOf(p)' = EntitiesOf(p) \cup {e} /\ \A q : q # p => EntitiesOf(q)' = EntitiesOf(q)
    BY <2>1 DEF EntitiesOf, With
  <2> QED
    BY <1>1, <2>1, <2>2, EditTidy
<1>3. CASE Unlabel(p, e)
  <2>1. /\ UNCHANGED head /\ labels' = With(labels, p, EntitiesOf(p) \ {e})
        /\ unlabeled' = unlabeled \cup {p} /\ EditHead(p, OnlyEntity(e), Nothing)
    BY <1>3 DEF Unlabel, AppendOp
  <2>2. EntitiesOf(p)' = EntitiesOf(p) \ {e} /\ \A q : q # p => EntitiesOf(q)' = EntitiesOf(q)
    BY <2>1 DEF EntitiesOf, With
  <2> QED
    BY <1>1, <2>1, <2>2, EditTidy
<1> QED
  BY <1>2, <1>3

LEMMA CompleteTidy ==
    ASSUME TidyInv, Complete
    PROVE  (Tidy(head) /\ Claims /\ Staged /\ Carried)'
<1>0. LogInv
  BY DEF TidyInv, KeptInv
<1>1. UNCHANGED <<head, archives, moves, puts, claimed, labels, unlabeled>>
  BY DEF Complete
<1>2. Archived' = Archived /\ MovedInto' = MovedInto /\ Left' = Left
  BY <1>1 DEF Archived, MovedInto, MovedAway, Left
<1>3. \A p \in DOMAIN writes' :
        /\ p \in DOMAIN writes \/ (p \in DOMAIN head /\ p \notin Left /\ ~IsArchivePath(p))
        /\ writes'[p].article = File(p).article /\ writes'[p].entities = File(p).entities
  BY <1>0, RepointedRecords DEF File
<1>4. DOMAIN writes \subseteq DOMAIN writes'
  BY <1>0, RepointedRecords
<1>5. Staged'
  <2> SUFFICES ASSUME NEW q \in DOMAIN writes', ~IsArchivePath(q)
               PROVE  /\ q \notin Archived
                      /\ q \in DOMAIN puts \cup MovedInto \cup DOMAIN head
                      /\ q \in DOMAIN puts => writes'[q].article = puts[q]
    BY <1>1, <1>2 DEF Staged
  <2>1. CASE q \in DOMAIN writes
    BY <1>3, <2>1 DEF TidyInv, Staged, File
  <2>2. CASE q \notin DOMAIN writes
    BY <1>0, <1>3, <2>2 DEF Left, LogInv, ArchivesPlaced
  <2> QED
    BY <2>1, <2>2
<1>6. Carried'
  <2> SUFFICES ASSUME NEW q \in DOMAIN head \cup DOMAIN writes', ~IsArchivePath(q), q \notin Left
               PROVE  /\ EntitiesOf(q)' = File(q)'.entities
                      /\ RequireAnchor /\ q \notin MovedInto \cup unlabeled =>
                           IsAnchored(q, EntitiesOf(q)')
    BY <1>1, <1>2 DEF Carried, IsAnchored
  <2>1. EntitiesOf(q)' = EntitiesOf(q)
    BY <1>1 DEF EntitiesOf
  <2>2. q \in DOMAIN head \cup DOMAIN writes
    BY <1>3
  <2>3. File(q)'.entities = File(q).entities
    BY <1>1, <1>3, <1>4 DEF File
  <2> QED
    BY <2>1, <2>2, <2>3 DEF TidyInv, Carried
<1> QED
  BY <1>1, <1>5, <1>6, SameClaims

\* Where a live record of the tree the log lands comes from: a put, or one live record of the head.
LEMMA TreeSources ==
    ASSUME TidyInv, NEW p \in DOMAIN Tree, ~IsArchivePath(p)
    PROVE  /\ p \notin Left /\ p \in DOMAIN head \cup DOMAIN writes
           /\ Tree[p].entities = File(p).entities
           /\ \/ p \in DOMAIN puts /\ Tree[p].article = puts[p]
              \/ p \in DOMAIN head /\ Tree[p].article = head[p].article
              \/ \E m \in moves : m[2] = p /\ Tree[p].article = head[m[1]].article
<1>0. LogInv
  BY DEF TidyInv, KeptInv
<1>1. CASE p \in DOMAIN writes
  <2>1. Tree[p].article = writes[p].article /\ Tree[p].entities = writes[p].entities
    BY <1>0, <1>1, MarkedMap DEF Tree
  <2>2. p \notin Left
    <3>1. p \notin Archived
      BY <1>1 DEF TidyInv, Staged
    <3>2. p \notin MovedAway
      <4>1. p \in MovedAway => p \in DOMAIN head
        BY <1>0 DEF LogInv, MovesPlaced, MovedAway
      <4> QED
        BY <1>1, <4>1 DEF TidyInv, KeptInv, Settled, Left
    <3> QED
      BY <3>1, <3>2 DEF Left
  <2>3. CASE p \in DOMAIN puts
    BY <1>1, <2>1, <2>2, <2>3 DEF TidyInv, Staged, File
  <2>4. CASE p \in DOMAIN head
    BY <1>1, <2>1, <2>2, <2>4 DEF TidyInv, KeptInv, Settled, File
  <2>5. CASE p \in MovedInto
    <3>1. PICK m \in moves : m[2] = p
      BY <2>5 DEF MovedInto
    <3>2. m[1] \in DOMAIN head /\ m \in Vacated /\ m[2] \notin DOMAIN puts
      BY <1>0, <3>1 DEF LogInv, MovesPlaced, Vacated
    <3>3. writes[p].article = head[m[1]].article
      BY <3>1, <3>2 DEF TidyInv, KeptInv, Arrived
    <3> QED
      BY <1>1, <2>1, <2>2, <3>1, <3>3 DEF File
  <2> QED
    BY <1>1, <2>3, <2>4, <2>5 DEF TidyInv, Staged
<1>2. CASE p \notin DOMAIN writes
  <2>1. p \in DOMAIN head /\ p \notin removes /\ Tree[p] = head[p]
    BY <1>0, <1>2, TreeOfWrites
  <2>2. p \notin Left
    BY <2>1 DEF TidyInv, KeptInv, Settled
  <2> QED
    BY <1>2, <2>1, <2>2 DEF File
<1> QED
  BY <1>1, <1>2

LEMMA TreeTidy == ASSUME TidyInv, Accepted PROVE Tidy(Tree)
<1>0. LogInv
  BY DEF TidyInv, KeptInv
<1>2. ASSUME NEW p \in DOMAIN Tree, NEW q \in DOMAIN Tree, ~IsArchivePath(p), ~IsArchivePath(q),
             Tree[p].article = Tree[q].article
      PROVE  p = q
  <2> DEFINE FromPut(o) == o \in DOMAIN puts /\ Tree[o].article = puts[o]
             From(o, h) == /\ h \in DOMAIN head /\ ~IsArchivePath(h)
                           /\ Tree[o].article = head[h].article
                           /\ (o = h /\ h \notin Left) \/ (\E m \in moves : m[1] = h /\ m[2] = o)
  <2>1. ASSUME NEW o \in DOMAIN Tree, ~IsArchivePath(o)
        PROVE  FromPut(o) \/ \E h : From(o, h)
    <3>1. CASE o \in DOMAIN head /\ Tree[o].article = head[o].article
      <4>1. o \notin Left
        BY <2>1, TreeSources
      <4>2. From(o, o)
        BY <2>1, <3>1, <4>1
      <4> QED
        BY <4>2
    <3>2. CASE \E m \in moves : m[2] = o /\ Tree[o].article = head[m[1]].article
      <4>1. PICK m \in moves : m[2] = o /\ Tree[o].article = head[m[1]].article
        BY <3>2
      <4>2. From(o, m[1])
        BY <1>0, <4>1 DEF LogInv, MovesPlaced
      <4> QED
        BY <4>2
    <3> QED
      BY <2>1, <3>1, <3>2, TreeSources
  <2>2. ASSUME NEW o, NEW u, NEW h, FromPut(o), From(u, h), Tree[o].article = Tree[u].article
        PROVE  FALSE
    <3>1. puts[o] = head[h].article /\ puts[o] \in claimed /\ IsActiveIn(head, h)
      BY <2>2 DEF TidyInv, Claims, IsActiveIn
    <3> QED
      BY <2>2, <3>1 DEF TidyInv, Claims
  <2>3. ASSUME NEW h, NEW j, From(p, h), From(q, j)
        PROVE  p = q
    <3>1. head[h].article = head[j].article /\ IsActiveIn(head, h) /\ IsActiveIn(head, j)
      BY <1>2, <2>3 DEF IsActiveIn
    <3>2. Tidy(head)
      BY DEF TidyInv
    <3>3. h = j
      BY <2>3, <3>1, <3>2 DEF Tidy
    <3>4. \A m \in moves : m \in Vacated /\ m[1] \in Left
      BY DestinationsOf DEF Vacated
    <3> QED
      BY <2>3, <3>3, <3>4 DEF TidyInv, KeptInv, Distinct
  <2>4. FromPut(p) \/ \E h : From(p, h)
    BY <1>2, <2>1
  <2>5. FromPut(q) \/ \E h : From(q, h)
    BY <1>2, <2>1
  <2>6. FromPut(p) /\ FromPut(q) => p = q
    BY <1>2 DEF TidyInv, Claims
  <2> HIDE DEF FromPut, From
  <2> QED
    BY <1>2, <2>2, <2>3, <2>4, <2>5, <2>6
<1>3. ASSUME RequireAnchor, NEW p \in DOMAIN Tree, ~IsArchivePath(p)
      PROVE  IsAnchored(p, Tree[p].entities)
  <2>1. /\ p \notin Left /\ p \in DOMAIN head \cup DOMAIN writes
        /\ Tree[p].entities = File(p).entities
    BY <1>3, TreeSources
  <2>2. EntitiesOf(p) = Tree[p].entities
    BY <1>3, <2>1 DEF TidyInv, Carried
  <2>3. CASE p \in MovedInto \cup unlabeled
    <3>1. p \notin BelowBar
      BY DEF Accepted
    <3>2. p \notin Archived
      BY <2>1 DEF Left
    <3> QED
      BY <1>3, <2>2, <2>3, <3>1, <3>2 DEF BelowBar
  <2>4. CASE p \notin MovedInto \cup unlabeled
    BY <1>3, <2>1, <2>2, <2>4 DEF TidyInv, Carried
  <2> QED
    BY <2>3, <2>4
<1>4. \A p \in DOMAIN Tree : ~IsArchivePath(p) <=> IsActiveIn(Tree, p)
  BY DEF IsActiveIn
<1> QED
  BY <1>2, <1>3, <1>4 DEF Tidy

\* Over an empty log, a tidy head is all the invariant asks.
LEMMA FreshTidy ==
    ASSUME Tidy(head), writes = Nowhere, puts = Nowhere, labels = Nowhere, claimed = {}
    PROVE  Claims /\ Staged /\ Carried
<1>1. DOMAIN writes = {} /\ DOMAIN puts = {} /\ DOMAIN labels = {}
  BY DEF Nowhere
<1>2. Claims /\ Staged
  BY <1>1 DEF Claims, Staged
<1>3. Carried
  BY <1>1 DEF Carried, EntitiesOf, File, Tidy
<1> QED
  BY <1>2, <1>3

LEMMA CommitTidy ==
    ASSUME TidyInv, Commit
    PROVE  (Tidy(head) /\ Claims /\ Staged /\ Carried)'
<1>1. /\ head' = Tree /\ writes' = Nowhere /\ puts' = Nowhere
      /\ labels' = Nowhere /\ claimed' = {} /\ Accepted
  BY DEF Commit
<1>2. Tidy(Tree)
  BY <1>1, TreeTidy
<1>3. DOMAIN writes' = {} /\ DOMAIN puts' = {} /\ DOMAIN labels' = {}
  <2>1. DOMAIN Nowhere = {}
    BY DEF Nowhere
  <2> QED
    BY <1>1, <2>1
<1>4. Claims' /\ Staged'
  BY <1>1, <1>3 DEF Claims, Staged
<1>5. Carried'
  BY <1>1, <1>2, <1>3 DEF Carried, EntitiesOf, File, Tidy
<1> QED
  BY <1>1, <1>2, <1>4, <1>5

LEMMA TidyStep == Reuse = {} /\ TidyInv /\ [Next]_vars => TidyInv'
<1> SUFFICES ASSUME Reuse = {}, TidyInv, [Next]_vars
             PROVE  (Tidy(head) /\ Claims /\ Staged /\ Carried)'
  BY KeptStep DEF TidyInv
<1>0. CASE UNCHANGED vars
  <2>1. UNCHANGED <<head, archives, moves, puts, claimed, labels, unlabeled, writes>>
    BY <1>0 DEF vars, walk, staged
  <2>2. Staged' /\ Carried'
    BY <2>1 DEF TidyInv, Staged, Carried, Archived, MovedInto, MovedAway, Left, EntitiesOf, File,
                IsAnchored
  <2> QED
    BY <2>1, <2>2, SameClaims
<1>1. ASSUME NEW p \in Path, NEW r \in Record, Put(p, r)
      PROVE  (Tidy(head) /\ Claims /\ Staged /\ Carried)'
  BY <1>1, PutTidy
<1>2. ASSUME NEW p \in Path, NEW slot \in Path, ~IsArchivePath(p), Archive(p, slot)
      PROVE  (Tidy(head) /\ Claims /\ Staged /\ Carried)'
  BY <1>2, ArchiveTidy
<1>3. ASSUME NEW p \in Path, NEW target \in Path, Link(p, target) \/ Unlink(p, target)
      PROVE  (Tidy(head) /\ Claims /\ Staged /\ Carried)'
  BY <1>3, LinkTidy
<1>4. ASSUME NEW p \in Path, NEW e \in Entity, Label(p, e) \/ Unlabel(p, e)
      PROVE  (Tidy(head) /\ Claims /\ Staged /\ Carried)'
  BY <1>4, LabelTidy
<1>5. ASSUME NEW p \in Path, NEW q \in Path, ~IsArchivePath(p), ~IsArchivePath(q), Move(p, q)
      PROVE  (Tidy(head) /\ Claims /\ Staged /\ Carried)'
  BY <1>5, MoveTidy
<1>6. CASE Complete
  BY <1>6, CompleteTidy
<1>7. CASE Commit
  BY <1>7, CommitTidy
<1>8. CASE Next
  <2>1. LogTypeOK
    BY DEF TidyInv, KeptInv, LogInv
  <2> QED
    BY <1>1, <1>2, <1>3, <1>4, <1>5, <1>6, <1>7, <1>8, <2>1, StepCases
<1> QED
  BY <1>0, <1>8

LEMMA InitTidy == Init => TidyInv
<1> SUFFICES ASSUME Init PROVE TidyInv
  OBVIOUS
<1>1. Tidy(head)
  BY LogAssumption DEF Init
<1> QED
  BY <1>1, InitKept, FreshTidy DEF Init, TidyInv

\* For a writer that leaves alone the paths its log archived, any log that may land keeps the
\* store tidy: no article live at two paths, and every live record above the write bar.
THEOREM CommitsAreTidy == Reuse = {} => (Spec => []CommitsTidy)
<1> SUFFICES ASSUME Reuse = {} PROVE Spec => []CommitsTidy
  OBVIOUS
<1>1. Init => TidyInv
  BY InitTidy
<1>2. TidyInv /\ [Next]_vars => TidyInv'
  BY TidyStep
<1>3. TidyInv => CommitsTidy
  BY DEF TidyInv, CommitsTidy
<1> QED
  BY <1>1, <1>2, <1>3, PTL DEF Spec

-----------------------------------------------------------------------------
(***************************************************************************)
(* What the session saw and what its commit leaves.  The walk, the view    *)
(* and the staged files follow one log apart; for a writer that does not   *)
(* edit what its log archived they hold the same records (SeenInv), so a   *)
(* log that may land commits its session's view, and leaves no edge.       *)
(***************************************************************************)

\* The paths of the tree a commit would write.
StagedPaths == (DOMAIN head \ removes) \cup DOMAIN writes

\* What the log put is staged where it put it, unless it archived that and put nothing there since,
\* or archived into the slot.
Filed ==
    /\ putAgain \subseteq Archived
    /\ \A p \in DOMAIN puts :
         p \notin Archived \/ p \in putAgain =>
             p \in DOMAIN writes /\ (p \notin ArchiveDestinations => writes[p].article = puts[p])
    /\ \A p \in DOMAIN writes :
         ~IsArchivePath(p) => p \in DOMAIN puts \cup MovedInto \cup DOMAIN head
    /\ \A p \in DOMAIN writes : p \in Archived => p \in putAgain

\* The walk knows the links of every live file, and of no archived one the log did not put.
Linked ==
    /\ \A p \in DOMAIN edges : IsArchivePath(p) => p \in DOMAIN puts
    /\ \A p \in StagedPaths : ~IsArchivePath(p) =>
         p \in DOMAIN edges \cup DOMAIN head /\ EdgesOf(p) = File(p).links

\* The view's copy of an archived record has none of its links and entities.
SameRecord(p, r) ==
    IF IsArchivePath(p) /\ p \notin DOMAIN puts THEN r.article = File(p).article ELSE r = File(p)

\* No slot is both put at and archived into.
NoClash == DOMAIN puts \cap ArchiveDestinations = {}

\* While every op changed something, the view applied them all and holds the staged files.
Mirrored ==
    ~inert /\ NoClash =>
        /\ inStep
        /\ DOMAIN overlay = StagedPaths
        /\ \A p \in StagedPaths : SameRecord(p, overlay[p])

SeenInv == KeptInv /\ Filed /\ Linked /\ Mirrored

\* A record of the head that did not leave is staged, and so is one that moved.
LEMMA StagedOrMoved ==
    ASSUME KeptInv, NEW h \in DOMAIN head, h \notin Archived
    PROVE  /\ MovedTo(h) \in StagedPaths
           /\ h \notin MovedAway => MovedTo(h) = h
           /\ h \in MovedAway => \E m \in moves : m[1] = h /\ MovedTo(h) = m[2]
<1>1. CASE h \in MovedAway
  <2>1. PICK m \in moves : m[1] = h /\ MovedTo(h) = m[2]
    BY <1>1 DEF MovedTo, MovedAway
  <2>2. m[2] \in DOMAIN writes
    BY <2>1 DEF KeptInv, Arrived, Vacated
  <2> QED BY <1>1, <2>1, <2>2 DEF StagedPaths
<1>2. CASE h \notin MovedAway
  BY <1>2 DEF MovedTo, KeptInv, Settled, Left, StagedPaths
<1> QED BY <1>1, <1>2

\* A path a head op may edit is staged.
LEMMA SourceStaged ==
    ASSUME KeptInv, Filed, "edit" \notin Reuse, NEW p, MayEdit(p), IsLiveSource(p)
    PROVE  p \in StagedPaths /\ HasFile(p)
<1>1. CASE IsActiveIn(head, p) /\ p \notin MovedAway
  <2>1. p \in DOMAIN head /\ p \notin DOMAIN puts
    BY <1>1 DEF IsActiveIn, KeptInv, LogInv, ArchivesPlaced
  <2>2. p \notin Left
    BY <1>1, <2>1 DEF MayEdit, Left, KeptInv, Refilled
  <2> QED BY <2>1, <2>2 DEF KeptInv, Settled, StagedPaths, HasFile
<1>2. CASE p \in DOMAIN puts
  BY <1>2 DEF MayEdit, Filed, StagedPaths, HasFile
<1>3. CASE p \in MovedInto
  BY <1>3 DEF MovedInto, KeptInv, Arrived, Vacated, StagedPaths, HasFile
<1> QED BY <1>1, <1>2, <1>3 DEF IsLiveSource

\* What an unlink or an unlabel takes out of a file it changes, the file carried.
LEMMA CutsCarried ==
    ASSUME NEW r \in Record, NEW x
    PROVE  /\ Carries(r, Nothing)
           /\ Edited(r, OnlyLink(x), Nothing) # r => Carries(r, OnlyLink(x))
           /\ Edited(r, OnlyEntity(x), Nothing) # r => Carries(r, OnlyEntity(x))
<1>1. Carries(r, Nothing)
  BY DEF Carries, Nothing
<1>2. [r EXCEPT !.links = r.links, !.entities = r.entities] = r
  BY DEF Record
<1>3. (r.links \ {}) \cup {} = r.links /\ (r.entities \ {}) \cup {} = r.entities
  OBVIOUS
<1>4. ASSUME x \notin r.links PROVE Edited(r, OnlyLink(x), Nothing) = r
  <2>1. (r.links \ {x}) \cup {} = r.links
    BY <1>4
  <2>2. Edited(r, OnlyLink(x), Nothing) = [r EXCEPT !.links = r.links, !.entities = r.entities]
    BY <1>3, <2>1 DEF Edited, OnlyLink, Nothing
  <2> QED BY <1>2, <2>2
<1>5. ASSUME x \notin r.entities PROVE Edited(r, OnlyEntity(x), Nothing) = r
  <2>1. (r.entities \ {x}) \cup {} = r.entities
    BY <1>5
  <2>2. Edited(r, OnlyEntity(x), Nothing) = [r EXCEPT !.links = r.links, !.entities = r.entities]
    BY <1>3, <2>1 DEF Edited, OnlyEntity, Nothing
  <2> QED BY <1>2, <2>2
<1> QED BY <1>1, <1>4, <1>5 DEF Carries, OnlyLink, OnlyEntity

LEMMA EditSeen ==
    ASSUME SeenInv, "edit" \notin Reuse, NEW p \in Path, NEW cut, NEW add,
           EditHead(p, cut, add), UNCHANGED head,
           DOMAIN edges \subseteq DOMAIN edges', DOMAIN edges' \subseteq DOMAIN edges \cup {p},
           \A q : q # p => EdgesOf(q)' = EdgesOf(q),
           EdgesOf(p)' = (EdgesOf(p) \ cut.links) \cup add.links,
           ~IsArchivePath(p) => p \in DOMAIN edges \cup DOMAIN head \cup DOMAIN edges',
           ~inert' => Carries(File(p), cut)
    PROVE  Filed' /\ Linked' /\ Mirrored'
<1>0. LogInv /\ KeptInv
  BY DEF SeenInv, KeptInv
<1>1. /\ UNCHANGED <<archives, moves, puts, removes, putAgain>>
      /\ p \in StagedPaths /\ HasFile(p)
  BY SourceStaged DEF EditHead, SeenInv
<1>2. Archived' = Archived /\ MovedInto' = MovedInto /\ ArchiveDestinations' = ArchiveDestinations
  BY <1>1 DEF Archived, MovedInto, ArchiveDestinations
<1>3. /\ writes' = With(writes, p, Edited(File(p), cut, add))
      /\ inert' = (inert \/ (add.links = {} /\ Edited(File(p), cut, add) = File(p)))
  BY <1>1 DEF EditHead
<1>4. /\ DOMAIN writes' = DOMAIN writes \cup {p} /\ StagedPaths' = StagedPaths
      /\ \A q \in StagedPaths : q # p => File(q)' = File(q)
      /\ File(p)' = Edited(File(p), cut, add)
  BY <1>1, <1>3 DEF With, StagedPaths, File
<1>5. File(p) \in Record
  BY <1>0, <1>1, FileRecord DEF LogInv, LogTypeOK
<1>6. /\ Edited(File(p), cut, add).article = File(p).article
      /\ Edited(File(p), cut, add).links = (File(p).links \ cut.links) \cup add.links
  <2> HIDE DEF File
  <2> QED BY <1>5 DEF Edited, Record
<1>7. Filed'
  <2>1. /\ p \in Archived => p \in putAgain
        /\ p \in DOMAIN puts \cup MovedInto \cup DOMAIN head
    BY DEF EditHead, MayEdit, IsLiveSource, IsActiveIn
  <2>2. \A q \in DOMAIN writes' : writes'[q] = IF q = p THEN Edited(File(p), cut, add) ELSE writes[q]
    BY <1>3 DEF With
  <2>3. p \in DOMAIN puts /\ (p \notin Archived \/ p \in putAgain) /\ p \notin ArchiveDestinations
          => writes'[p].article = puts[p]
    BY <1>4, <1>6, <2>2 DEF SeenInv, Filed, File
  <2> QED BY <1>1, <1>2, <1>4, <2>1, <2>2, <2>3 DEF SeenInv, Filed
<1>8. Linked'
  <2>1. ~IsArchivePath(p) => EdgesOf(p)' = File(p)'.links
    BY <1>1, <1>4, <1>6 DEF SeenInv, Linked
  <2>2. IsArchivePath(p) => p \in DOMAIN puts
    BY <1>0, EditedPlace DEF EditHead
  <2> QED BY <1>1, <1>4, <2>1, <2>2 DEF SeenInv, Linked
<1>9. Mirrored'
  <2> SUFFICES ASSUME ~inert', NoClash'
               PROVE  /\ inStep' /\ DOMAIN overlay' = StagedPaths
                      /\ \A q \in StagedPaths : SameRecord(q, overlay[q])'
    BY <1>4 DEF Mirrored
  <2>1. ~inert /\ NoClash
    BY <1>1, <1>2, <1>3 DEF NoClash
  <2>2. inStep /\ DOMAIN overlay = StagedPaths /\ overlay[p] = File(p)
    <3>1. IsArchivePath(p) => p \in DOMAIN puts
      BY <1>0, EditedPlace DEF EditHead
    <3> QED BY <1>1, <2>1, <3>1 DEF SeenInv, Mirrored, SameRecord
  <2>3. overlay' = With(overlay, p, Edited(File(p), cut, add)) /\ inStep' = inStep
    BY <1>1, <2>2 DEF EditHead
  <2>4. \A q \in StagedPaths : q # p => SameRecord(q, overlay[q])'
    BY <1>1, <1>4, <2>1, <2>2, <2>3 DEF SeenInv, Mirrored, SameRecord, With
  <2> QED BY <1>1, <1>4, <1>6, <2>2, <2>3, <2>4 DEF SameRecord, With
<1> QED BY <1>7, <1>8, <1>9

LEMMA LinkSeen ==
    ASSUME SeenInv, "edit" \notin Reuse, NEW p \in Path, NEW x,
           Link(p, x) \/ Unlink(p, x) \/ Label(p, x) \/ Unlabel(p, x)
    PROVE  Filed' /\ Linked' /\ Mirrored'
<1>1. HasFile(p) => File(p) \in Record
  BY FileRecord DEF SeenInv, KeptInv, LogInv, LogTypeOK
<1>2. /\ HasFile(p)
      /\ p \in DOMAIN edges \cup DOMAIN head \/ p \notin StagedPaths \/ IsArchivePath(p)
  <2>1. MayEdit(p) /\ IsLiveSource(p)
    BY DEF Link, Unlink, Label, Unlabel, EditHead
  <2> QED BY <2>1, SourceStaged DEF SeenInv, Linked
<1>3. p \in StagedPaths
  BY SourceStaged DEF SeenInv, Link, Unlink, Label, Unlabel, EditHead
<1>4. /\ Nothing.links = {} /\ OnlyLink(x).links = {x} /\ OnlyEntity(x).links = {}
  BY DEF Nothing, OnlyLink, OnlyEntity
<1>5. CASE Link(p, x)
  <2>1. /\ UNCHANGED head /\ edges' = With(edges, p, EdgesOf(p) \cup {x})
        /\ EditHead(p, Nothing, OnlyLink(x))
    BY <1>5 DEF Link, AppendOp
  <2>2. /\ EdgesOf(p)' = EdgesOf(p) \cup {x} /\ \A q : q # p => EdgesOf(q)' = EdgesOf(q)
        /\ DOMAIN edges' = DOMAIN edges \cup {p}
    BY <2>1 DEF EdgesOf, With
  <2>3. Carries(File(p), Nothing)
    BY <1>1, <1>2, CutsCarried
  <2> QED BY <1>4, <2>1, <2>2, <2>3, EditSeen
<1>6. CASE Unlink(p, x)
  <2>1. /\ UNCHANGED head /\ edges' = With(edges, p, EdgesOf(p) \ {x})
        /\ EditHead(p, OnlyLink(x), Nothing)
    BY <1>6 DEF Unlink, AppendOp
  <2>2. /\ EdgesOf(p)' = EdgesOf(p) \ {x} /\ \A q : q # p => EdgesOf(q)' = EdgesOf(q)
        /\ DOMAIN edges' = DOMAIN edges \cup {p}
    BY <2>1 DEF EdgesOf, With
  <2>3. ~inert' => Edited(File(p), OnlyLink(x), Nothing) # File(p)
    BY <1>2, <1>4, <2>1 DEF EditHead
  <2>4. ~inert' => Carries(File(p), OnlyLink(x))
    BY <1>1, <1>2, <2>3, CutsCarried
  <2> QED BY <1>4, <2>1, <2>2, <2>4, EditSeen
<1>7. CASE Label(p, x) \/ Unlabel(p, x)
  <2>1. UNCHANGED <<head, edges>>
    BY <1>7 DEF Label, Unlabel, AppendOp
  <2>2. \A q : EdgesOf(q)' = EdgesOf(q)
    BY <2>1 DEF EdgesOf
  <2>3. EditHead(p, Nothing, OnlyEntity(x)) \/ EditHead(p, OnlyEntity(x), Nothing)
    BY <1>7 DEF Label, Unlabel
  <2>4. /\ Carries(File(p), Nothing)
        /\ EditHead(p, OnlyEntity(x), Nothing) /\ ~inert' => Carries(File(p), OnlyEntity(x))
    BY <1>1, <1>2, <1>4, CutsCarried DEF EditHead
  <2>5. ~IsArchivePath(p) => p \in DOMAIN edges \cup DOMAIN head
    BY <1>2, <1>3
  <2> QED BY <1>4, <2>1, <2>2, <2>3, <2>4, <2>5, EditSeen
<1> QED BY <1>5, <1>6, <1>7

LEMMA PutSeen ==
    ASSUME SeenInv, NEW p \in Path, NEW r \in Record, Put(p, r)
    PROVE  Filed' /\ Linked' /\ Mirrored'
<1>1. /\ UNCHANGED <<head, archives, moves, inStep, inert>> /\ removes' = removes \ {p}
      /\ writes' = With(writes, p, r) /\ overlay' = With(overlay, p, r)
      /\ puts' = With(puts, p, r.article) /\ edges' = With(edges, p, r.links)
      /\ putAgain' = IF p \in Archived THEN putAgain \cup {p} ELSE putAgain
  BY DEF Put, AppendOp, IsActiveIn
<1>2. Archived' = Archived /\ MovedInto' = MovedInto /\ ArchiveDestinations' = ArchiveDestinations
  BY <1>1 DEF Archived, MovedInto, ArchiveDestinations
<1>3. /\ StagedPaths' = StagedPaths \cup {p} /\ File(p)' = r
      /\ \A q : q # p => File(q)' = File(q)
  BY <1>1 DEF With, StagedPaths, File
<1>4. EdgesOf(p)' = r.links /\ \A q : q # p => EdgesOf(q)' = EdgesOf(q)
  BY <1>1 DEF EdgesOf, With
<1>5. Filed'
  BY <1>1, <1>2 DEF SeenInv, Filed, With
<1>6. Linked'
  BY <1>1, <1>3, <1>4 DEF SeenInv, Linked, With
<1>7. Mirrored'
  <2> SUFFICES ASSUME ~inert', NoClash'
               PROVE  /\ inStep' /\ DOMAIN overlay' = StagedPaths'
                      /\ \A q \in StagedPaths' : SameRecord(q, overlay[q])'
    BY DEF Mirrored
  <2>1. DOMAIN puts' = DOMAIN puts \cup {p}
    BY <1>1 DEF With
  <2>2. ~inert /\ NoClash
    BY <1>1, <1>2, <2>1 DEF NoClash
  <2>3. /\ inStep /\ DOMAIN overlay = StagedPaths
        /\ \A q \in StagedPaths : SameRecord(q, overlay[q])
    BY <2>2 DEF SeenInv, Mirrored
  <2> QED BY <1>1, <1>3, <2>1, <2>3 DEF SameRecord, With
<1> QED BY <1>5, <1>6, <1>7

LEMMA ArchiveSeen ==
    ASSUME SeenInv, NEW p \in Path, ~IsArchivePath(p), NEW slot \in Path, Archive(p, slot)
    PROVE  Filed' /\ Linked' /\ Mirrored'
<1>0. LogInv /\ KeptInv /\ Filed
  BY DEF SeenInv, KeptInv
<1>1. /\ UNCHANGED <<head, moves, puts, edges, putAgain, inStep, inert>>
      /\ archives' = archives \cup {<<p, slot>>}
      /\ removes' = removes \cup {p} /\ ~HasLeft(p)
      /\ p \in DOMAIN puts \cup DOMAIN head
      /\ IsArchivePath(slot) /\ slot \notin DOMAIN head \cup ArchiveDestinations
      /\ overlay' = With(Without(overlay, p), slot, Minted(SourceArticle(p)))
  BY DEF Archive, AppendOp, IsActiveIn, IsFirstFree
<1>2. /\ Archived' = Archived \cup {p} /\ MovedInto' = MovedInto
      /\ ArchiveDestinations' = ArchiveDestinations \cup {slot}
      /\ p \notin Archived /\ p \notin putAgain
  <2>1. \A v : v \in archives' <=> v \in archives \/ v = <<p, slot>>
    BY <1>1
  <2>2. <<p, slot>>[1] = p
    OBVIOUS
  <2>3. Archived' = Archived \cup {p}
    BY <2>1, <2>2, Zenon DEF Archived
  <2>4. <<p, slot>>[2] = slot
    OBVIOUS
  <2>5. ArchiveDestinations' = ArchiveDestinations \cup {slot}
    BY <2>1, <2>4, Zenon DEF ArchiveDestinations
  <2> QED BY <1>0, <1>1, <2>3, <2>5 DEF MovedInto, HasLeft, Filed
<1>3. HasFile(p) /\ File(p).article = SourceArticle(p)
  <2>1. CASE p \in DOMAIN puts
    <3>1. p \notin ArchiveDestinations
      BY <1>0 DEF LogInv, ArchivesPlaced, ArchiveDestinations
    <3> QED BY <1>0, <1>2, <2>1, <3>1 DEF Filed, HasFile, File, SourceArticle
  <2>2. CASE p \notin DOMAIN puts
    BY <1>0, <1>1, <2>2, FileOfSource DEF SourceArticle, HasLeft, Left
  <2> QED BY <2>1, <2>2
<1>4. writes' = With(Without(writes, p), slot, File(p))
  BY <1>3 DEF Archive
<1>5. /\ p # slot
      /\ DOMAIN writes' = (DOMAIN writes \ {p}) \cup {slot} /\ writes'[slot] = File(p)
      /\ \A q \in DOMAIN writes : q # p /\ q # slot => writes'[q] = writes[q]
  BY <1>0, <1>1, <1>4 DEF With, Without, LogInv, ArchivesPlaced
<1>6. /\ StagedPaths' = (StagedPaths \ {p}) \cup {slot} /\ File(slot)' = File(p)
      /\ \A q \in StagedPaths : q # p /\ q # slot => File(q)' = File(q)
  <2>1. StagedPaths' = (StagedPaths \ {p}) \cup {slot}
    BY <1>1, <1>5 DEF StagedPaths
  <2>2. File(slot)' = File(p)
    BY <1>5 DEF File
  <2>3. ASSUME NEW q \in StagedPaths, q # p, q # slot PROVE File(q)' = File(q)
    BY <1>1, <1>5, <2>3 DEF StagedPaths, File
  <2> QED BY <2>1, <2>2, <2>3
<1>7. Filed'
  <2>1. slot \notin Archived
    BY <1>0, <1>1 DEF LogInv, ArchivesPlaced, Archived
  <2>2. putAgain' \subseteq Archived'
    BY <1>0, <1>1, <1>2 DEF Filed
  <2>3. \A q \in DOMAIN puts' : q \notin Archived' \/ q \in putAgain' =>
          /\ q \in DOMAIN writes'
          /\ q \notin ArchiveDestinations' => writes'[q].article = puts'[q]
    BY <1>0, <1>1, <1>2, <1>5 DEF Filed
  <2>4. \A q \in DOMAIN writes' : ~IsArchivePath(q) =>
          q \in DOMAIN puts' \cup MovedInto' \cup DOMAIN head'
    BY <1>0, <1>1, <1>2, <1>5 DEF Filed
  <2>5. \A q \in DOMAIN writes' : q \in Archived' => q \in putAgain'
    BY <1>0, <1>1, <1>2, <1>5, <2>1 DEF Filed
  <2> QED BY <2>2, <2>3, <2>4, <2>5 DEF Filed
<1>8. Linked'
  BY <1>1, <1>6 DEF SeenInv, Linked, EdgesOf
<1>9. Mirrored'
  <2> SUFFICES ASSUME ~inert', NoClash'
               PROVE  /\ inStep' /\ DOMAIN overlay' = StagedPaths'
                      /\ \A q \in StagedPaths' : SameRecord(q, overlay[q])'
    BY DEF Mirrored
  <2>0. NoClash /\ slot \notin DOMAIN puts
    BY <1>1, <1>2 DEF NoClash
  <2>1. /\ inStep /\ DOMAIN overlay = StagedPaths
        /\ \A q \in StagedPaths : SameRecord(q, overlay[q])
    BY <1>1, <2>0 DEF SeenInv, Mirrored
  <2>2. /\ DOMAIN overlay' = (DOMAIN overlay \ {p}) \cup {slot}
        /\ overlay'[slot].article = SourceArticle(p)
        /\ \A q \in DOMAIN overlay : q # p /\ q # slot => overlay'[q] = overlay[q]
    BY <1>1 DEF With, Without, Minted
  <2> QED BY <1>1, <1>3, <1>6, <2>0, <2>1, <2>2 DEF SameRecord
<1> QED BY <1>7, <1>8, <1>9

LEMMA MoveSeen ==
    ASSUME SeenInv, NEW p \in Path, ~IsArchivePath(p), NEW q \in Path, ~IsArchivePath(q), Move(p, q)
    PROVE  Filed' /\ Linked' /\ Mirrored'
<1>0. LogInv /\ KeptInv /\ Filed
  BY DEF SeenInv, KeptInv
<1>1. /\ UNCHANGED <<head, archives, puts, putAgain, inert>> /\ moves' = moves \cup {<<p, q>>}
      /\ removes' = (removes \cup {p}) \ {q} /\ ~HasLeft(p)
      /\ p \in DOMAIN head /\ q # p /\ q \notin DOMAIN head \cup DOMAIN puts
      /\ q \notin MovedInto
      /\ edges' = With(edges, q, EdgesOf(p)) /\ writes' = With(Without(writes, p), q, File(p))
  BY DEF Move, AppendOp, IsActiveIn
<1>2. /\ Archived' = Archived /\ MovedInto' = MovedInto \cup {q} /\ p \notin DOMAIN puts
  <2>1. \A v : v \in moves' <=> v \in moves \/ v = <<p, q>>
    BY <1>1
  <2>2. <<p, q>>[2] = q
    OBVIOUS
  <2>3. MovedInto' = MovedInto \cup {q}
    BY <2>1, <2>2, Zenon DEF MovedInto
  <2> QED BY <1>0, <1>1, <2>3 DEF Archived, LogInv, ArchivesPlaced
<1>3. p \in StagedPaths /\ p \notin Left
  BY <1>0, <1>1 DEF HasLeft, Left, KeptInv, Settled, StagedPaths
<1>4. q \notin Archived
  BY <1>0, <1>1 DEF LogInv, ArchivesPlaced, Archived
<1>5. /\ DOMAIN writes' = (DOMAIN writes \ {p}) \cup {q} /\ writes'[q] = File(p)
      /\ \A o \in DOMAIN writes : o # p /\ o # q => writes'[o] = writes[o]
  BY <1>1 DEF With, Without
<1>6. /\ StagedPaths' = (StagedPaths \ {p}) \cup {q} /\ File(q)' = File(p)
      /\ \A o \in StagedPaths : o # p /\ o # q => File(o)' = File(o)
  BY <1>1, <1>5 DEF StagedPaths, File
<1>7. Filed'
  <2>1. ArchiveDestinations' = ArchiveDestinations
    BY <1>1 DEF ArchiveDestinations
  <2> QED BY <1>0, <1>1, <1>2, <1>4, <1>5, <2>1 DEF Filed
<1>8. Linked'
  <2>1. EdgesOf(q)' = EdgesOf(p) /\ \A o : o # q => EdgesOf(o)' = EdgesOf(o)
    BY <1>1 DEF EdgesOf, With
  <2>2. DOMAIN edges' = DOMAIN edges \cup {q}
    BY <1>1 DEF With
  <2> QED BY <1>1, <1>3, <1>6, <2>1, <2>2 DEF SeenInv, Linked
<1>9. Mirrored'
  <2> SUFFICES ASSUME ~inert', NoClash'
               PROVE  /\ inStep' /\ DOMAIN overlay' = StagedPaths'
                      /\ \A o \in StagedPaths' : SameRecord(o, overlay[o])'
    BY DEF Mirrored
  <2>0. NoClash
    BY <1>1 DEF NoClash, ArchiveDestinations
  <2>1. /\ inStep /\ DOMAIN overlay = StagedPaths
        /\ \A o \in StagedPaths : SameRecord(o, overlay[o])
    BY <1>1, <2>0 DEF SeenInv, Mirrored
  <2>2. inStep' /\ overlay' = With(Without(overlay, p), q, overlay[p])
    BY <1>3, <2>1 DEF Move
  <2>3. /\ DOMAIN overlay' = (DOMAIN overlay \ {p}) \cup {q} /\ overlay'[q] = overlay[p]
        /\ \A o \in DOMAIN overlay : o # p /\ o # q => overlay'[o] = overlay[o]
    BY <2>2 DEF With, Without
  <2> QED BY <1>1, <1>3, <1>6, <2>1, <2>2, <2>3 DEF SameRecord
<1> QED BY <1>7, <1>8, <1>9

LEMMA CompleteSeen == ASSUME SeenInv, Complete PROVE Filed' /\ Linked' /\ Mirrored'
<1> DEFINE held == {MovedTo(e[1]) : e \in Missing}
<1>0. LogInv /\ KeptInv /\ Filed
  BY DEF SeenInv, KeptInv
<1>1. /\ UNCHANGED <<head, archives, moves, puts, putAgain, removes, inert>>
      /\ writes' = Repoint(writes, held)
      /\ edges' = [p \in DOMAIN edges \cup held |->
                      IF p \in held THEN Repointed(EdgesOf(p), Origin(p)) ELSE edges[p]]
      /\ IF inStep /\ held \subseteq DOMAIN overlay
         THEN overlay' = Repoint(overlay, held) /\ UNCHANGED inStep
         ELSE inStep' = FALSE /\ UNCHANGED overlay
  BY DEF Complete
<1>2. held \subseteq StagedPaths
  <2>1. \A e \in Missing : e[1] \in DOMAIN head /\ e[1] \notin Archived
    BY DEF Missing
  <2> QED BY <1>0, <2>1, StagedOrMoved
<1>3. \A p \in held : ~IsArchivePath(p) /\ (p \in DOMAIN head => p \notin Archived)
  BY <1>0, HeldOfMissing
<1> HIDE DEF held
<1>4. Archived' = Archived /\ MovedInto' = MovedInto /\ ArchiveDestinations' = ArchiveDestinations
  BY <1>1 DEF Archived, MovedInto, ArchiveDestinations
<1>5. DOMAIN writes' = DOMAIN writes \cup held /\ StagedPaths' = StagedPaths
  BY <1>1, <1>2 DEF Repoint, StagedPaths
<1>6. \A p \in StagedPaths :
        File(p)' = IF p \in held THEN [File(p) EXCEPT !.links = Repointed(@, Origin(p))] ELSE File(p)
  BY <1>1, <1>5 DEF Repoint, File
<1>7. \A p \in StagedPaths : File(p) \in Record
  BY <1>0, FileRecord DEF LogInv, LogTypeOK, StagedPaths, HasFile
<1>8. Filed'
  <2>1. \A p \in DOMAIN writes : writes'[p].article = writes[p].article
    BY <1>0, RepointedRecords
  <2>2. \A p \in held \ DOMAIN writes : p \in DOMAIN head
    BY <1>2 DEF StagedPaths
  <2> QED BY <1>0, <1>1, <1>3, <1>4, <1>5, <2>1, <2>2 DEF Filed
<1>9. Linked'
  <2>1. \A p : EdgesOf(p)' = IF p \in held THEN Repointed(EdgesOf(p), Origin(p)) ELSE EdgesOf(p)
    BY <1>1 DEF EdgesOf
  <2>2. \A p \in held : File(p)'.links = Repointed(File(p).links, Origin(p))
    <3> SUFFICES ASSUME NEW p \in held PROVE File(p)'.links = Repointed(File(p).links, Origin(p))
      OBVIOUS
    <3>1. File(p) \in Record /\ File(p)' = [File(p) EXCEPT !.links = Repointed(@, Origin(p))]
      BY <1>2, <1>6, <1>7
    <3>2. \A l : \A r \in Record : [r EXCEPT !.links = l].links = l
      BY DEF Record
    <3> QED BY <3>1, <3>2
  <2>3. DOMAIN edges' = DOMAIN edges \cup held
    BY <1>1
  <2> QED BY <1>1, <1>2, <1>3, <1>5, <1>6, <2>1, <2>2, <2>3 DEF SeenInv, Linked
<1>10. Mirrored'
  <2> SUFFICES ASSUME ~inert', NoClash'
               PROVE  /\ inStep' /\ DOMAIN overlay' = StagedPaths
                      /\ \A p \in StagedPaths : SameRecord(p, overlay[p])'
    BY <1>5 DEF Mirrored
  <2>1. /\ inStep /\ DOMAIN overlay = StagedPaths
        /\ \A p \in StagedPaths : SameRecord(p, overlay[p])
    BY <1>1, <1>4 DEF SeenInv, Mirrored, NoClash
  <2>2. inStep' /\ overlay' = Repoint(overlay, held)
    BY <1>1, <1>2, <2>1
  <2>3. /\ DOMAIN overlay' = StagedPaths
        /\ \A p \in StagedPaths : overlay'[p] =
             IF p \in held THEN [overlay[p] EXCEPT !.links = Repointed(@, Origin(p))] ELSE overlay[p]
    BY <1>2, <2>1, <2>2 DEF Repoint
  <2> QED BY <1>1, <1>3, <1>6, <2>1, <2>2, <2>3 DEF SameRecord
<1> QED BY <1>8, <1>9, <1>10

LEMMA FreshSeen ==
    ASSUME archives = {}, moves = {}, writes = Nowhere, removes = {}, puts = Nowhere,
           edges = Nowhere, putAgain = {}, overlay = head, inStep = TRUE
    PROVE  Filed /\ Linked /\ Mirrored
<1>1. Archived = {} /\ MovedInto = {} /\ DOMAIN puts = {} /\ DOMAIN edges = {} /\ DOMAIN writes = {}
  BY DEF Archived, MovedInto, Nowhere
<1>2. StagedPaths = DOMAIN head /\ \A p \in DOMAIN head : File(p) = head[p] /\ EdgesOf(p) = head[p].links
  BY <1>1 DEF StagedPaths, File, EdgesOf
<1> QED BY <1>1, <1>2 DEF Filed, Linked, Mirrored, SameRecord

LEMMA SeenStep == "edit" \notin Reuse /\ SeenInv /\ [Next]_vars => SeenInv'
<1> SUFFICES ASSUME "edit" \notin Reuse, SeenInv, [Next]_vars PROVE Filed' /\ Linked' /\ Mirrored'
  BY KeptStep DEF SeenInv
<1>0. CASE UNCHANGED vars
  BY <1>0 DEF vars, walk, staged, SeenInv, Filed, Linked, Mirrored, SameRecord, StagedPaths,
              File, EdgesOf, Archived, MovedInto, ArchiveDestinations, NoClash
<1>1. CASE Commit
  <2>1. /\ archives' = {} /\ moves' = {} /\ writes' = Nowhere /\ removes' = {} /\ puts' = Nowhere
        /\ edges' = Nowhere /\ putAgain' = {} /\ overlay' = head' /\ inStep' = TRUE
    BY <1>1 DEF Commit
  <2>2. /\ Archived' = {} /\ MovedInto' = {} /\ DOMAIN puts' = {} /\ DOMAIN edges' = {}
        /\ DOMAIN writes' = {}
    BY <2>1 DEF Archived, MovedInto, Nowhere
  <2>3. /\ StagedPaths' = DOMAIN head'
        /\ \A p \in DOMAIN head' : File(p)' = head'[p] /\ EdgesOf(p)' = head'[p].links
    BY <2>1, <2>2 DEF StagedPaths, File, EdgesOf
  <2> QED BY <2>1, <2>2, <2>3 DEF Filed, Linked, Mirrored, SameRecord
<1>2. CASE Next
  <2>1. LogTypeOK
    BY DEF SeenInv, KeptInv, LogInv
  <2> QED
    BY <1>1, <1>2, <2>1, StepCases, PutSeen, ArchiveSeen, LinkSeen, MoveSeen, CompleteSeen
<1> QED BY <1>0, <1>2

LEMMA InitSeen == Init => SeenInv
BY InitKept, FreshSeen DEF Init, SeenInv

\* For a writer that does not edit what its log archived, a log that may land and archives into no
\* slot it puts at applies to its base without a failure, and the session's view holds the records
\* its commit writes: withOverlay and stage agree, whatever was put, archived, moved, edited and
\* repointed.
THEOREM ViewsAreStaged == "edit" \notin Reuse => (Spec => []OverlayIsStaged)
<1> SUFFICES ASSUME "edit" \notin Reuse PROVE Spec => []OverlayIsStaged
  OBVIOUS
<1>1. SeenInv => OverlayIsStaged
  <2> SUFFICES ASSUME SeenInv, Accepted, NoClash
               PROVE  /\ inStep /\ DOMAIN overlay = DOMAIN Tree
                      /\ \A p \in DOMAIN overlay :
                           LET r == IF p \in DOMAIN writes THEN writes[p] ELSE head[p]
                           IN  IF IsArchivePath(p) THEN overlay[p].article = r.article
                               ELSE overlay[p] = r
    BY DEF OverlayIsStaged, NoClash
  <2>1. DOMAIN Tree = StagedPaths
    BY TreeOfWrites DEF SeenInv, KeptInv, StagedPaths
  <2> QED BY <2>1 DEF SeenInv, Mirrored, SameRecord, File, Accepted
<1> QED BY <1>1, InitSeen, SeenStep, PTL DEF Spec

LEMMA NoEdges == ASSUME SeenInv PROVE NoEdgeLeftBehind
<1>0. LogInv /\ KeptInv /\ Filed /\ Linked
  BY DEF SeenInv, KeptInv
<1> SUFFICES ASSUME Accepted, NEW h \in DOMAIN Tree, NEW v \in archives \cup moves,
                    IsActiveIn(Tree, h), v[1] \in Tree[h].links, v[1] \notin DOMAIN Tree,
                    h \notin putAgain
             PROVE  v \in archives /\ ~CurateScope /\ h.name \in Curated
  BY DEF NoEdgeLeftBehind
<1>1. DOMAIN Tree = StagedPaths /\ ~IsArchivePath(h)
  BY <1>0, TreeOfWrites DEF StagedPaths, IsActiveIn
<1>2. h \notin Left
  <2>1. CASE h \in DOMAIN head
    BY <1>0, <1>1, <2>1 DEF KeptInv, Settled, StagedPaths
  <2>2. CASE h \notin DOMAIN head
    <3>1. h \in DOMAIN writes /\ h \notin MovedAway
      BY <1>0, <1>1, <2>2 DEF StagedPaths, LogInv, MovesPlaced, MovedAway
    <3> QED BY <1>0, <3>1 DEF Filed, Left
  <2> QED BY <2>1, <2>2
<1>3. Tree[h].links = File(h).links \/ Tree[h].links = File(h).links \cup Contradicted(h)
  <2>1. CASE h \in DOMAIN writes
    <3>1. writes[h] \in Record /\ Tree[h] = Marked[h] /\ File(h) = writes[h]
      BY <1>0, <2>1 DEF LogInv, LogTypeOK, IsMap, Tree, Marked, File
    <3>2. Marked[h] = IF h \in DOMAIN puts THEN [writes[h] EXCEPT !.links = @ \cup Contradicted(h)]
                      ELSE writes[h]
      BY <2>1 DEF Marked
    <3>3. \A l : \A r \in Record : [r EXCEPT !.links = @ \cup l].links = r.links \cup l
      BY DEF Record
    <3> QED BY <3>1, <3>2, <3>3
  <2>2. CASE h \notin DOMAIN writes
    BY <1>0, <2>2, TreeOfWrites DEF File
  <2> QED BY <2>1, <2>2
<1>4. v[1] \notin Contradicted(h)
  BY <1>0, <1>1, StagedOrMoved DEF Contradicted
<1>5. v[1] \in EdgesOf(h) /\ h \in DOMAIN edges \cup DOMAIN head
  BY <1>0, <1>1, <1>3, <1>4 DEF Linked
<1>6. ~StaleAt(h, v)
  <2>1. <<h, v>> \in (DOMAIN head \cup DOMAIN edges) \X (archives \cup moves)
    BY <1>5
  <2>2. <<h, v>> \notin StaleEdges
    BY DEF Accepted
  <2> QED BY <2>1, <2>2 DEF StaleEdges
<1>7. h \in DOMAIN edges \/ IsActiveIn(head, h)
  BY <1>1, <1>5 DEF IsActiveIn
<1>8. v \in moves => v[1] \notin DOMAIN puts \cup MovedInto
  BY <1>0 DEF LogInv, MovesPlaced, ArchivesPlaced, MovedInto
<1>9. v \in archives /\ IsReserved(h)
  BY <1>2, <1>5, <1>6, <1>7, <1>8 DEF StaleAt, Left
<1> QED BY <1>9 DEF IsReserved

\* For a writer that does not edit what its log archived, a log that may land leaves no live record
\* naming a path it emptied, but for what the curated ones name and a put where it archived: the
\* walk's edges are those of the staged files, and a contradiction names where a record is.
THEOREM EdgesFollow == "edit" \notin Reuse => (Spec => []NoEdgeLeftBehind)
<1> SUFFICES ASSUME "edit" \notin Reuse PROVE Spec => []NoEdgeLeftBehind
  OBVIOUS
<1>1. SeenInv => NoEdgeLeftBehind
  BY NoEdges
<1> QED BY <1>1, InitSeen, SeenStep, PTL DEF Spec

LEMMA OriginOf ==
    ASSUME LogInv, NEW p, p \in MovedInto
    PROVE  \E m \in moves : m[2] = p /\ Origin(p) = m[1]
BY DEF Origin, MovedInto

LEMMA Sufficient == ASSUME SeenInv, "put" \notin Reuse PROVE CompletionSuffices
<1>0. LogInv /\ KeptInv /\ Filed /\ Linked /\ putAgain = {}
  BY DEF SeenInv, KeptInv, Refilled
<1> SUFFICES ASSUME Missing = {}, NEW e \in StaleEdges,
                    Origin(e[1]) \in DOMAIN head, e[2][1] \in head[Origin(e[1])].links,
                    ~IsArchivePath(Origin(e[1])),
                    <<Origin(e[1]), e[2][1]>> \notin unlinked, ~IsReserved(Origin(e[1]))
             PROVE  FALSE
  BY DEF CompletionSuffices
<1>1. PICK p, v : e = <<p, v>> /\ p \in DOMAIN head \cup DOMAIN edges /\ v \in Vacated /\ StaleAt(p, v)
  BY DEF StaleEdges, Vacated
<1>2. IsActiveIn(head, Origin(p)) /\ Origin(p) \notin Archived
  <2>1. CASE p \in MovedInto
    <3>1. PICK m \in moves : m[2] = p /\ Origin(p) = m[1]
      BY <1>0, <2>1, OriginOf
    <3>2. ~IsArchivePath(m[1])
      BY <1>0 DEF LogInv, MovesPlaced
    <3>3. ASSUME NEW a \in archives, a[1] = m[1] PROVE FALSE
      <4>1. a = m
        BY <1>0, <3>3 DEF KeptInv, Distinct, Vacated
      <4> QED BY <1>0, <4>1 DEF LogInv, MovesPlaced, ArchivesPlaced
    <3> QED BY <1>1, <3>1, <3>2, <3>3 DEF IsActiveIn, Archived
  <2>2. CASE p \notin MovedInto
    <3>1. Origin(p) = p /\ p \notin Archived /\ p \in DOMAIN head
      BY <1>1, <2>2 DEF Origin, StaleAt
    <3>2. ~IsArchivePath(p)
      BY <1>1, <3>1
    <3> QED BY <3>1, <3>2 DEF IsActiveIn
  <2> QED BY <2>1, <2>2
<1>3. <<Origin(p), v>> \notin Missing
  OBVIOUS
<1>4. v[1] \notin (IF v \in moves THEN DOMAIN puts ELSE putAgain)
  BY <1>0, <1>1 DEF StaleAt
<1> QED BY <1>1, <1>2, <1>3, <1>4 DEF Missing, Vacated

\* For a writer that neither edits nor puts where its log archived, a log that lacks no repoint has
\* no dangling edge but those its own ops aimed there and those of records it may not write:
\* moves.ts, which asks the head's links, and validate.ts, which asks the batch's, agree.
THEOREM RepointsSuffice == Reuse = {} => (Spec => []CompletionSuffices)
<1> SUFFICES ASSUME Reuse = {} PROVE Spec => []CompletionSuffices
  OBVIOUS
<1>1. SeenInv => CompletionSuffices
  BY Sufficient
<1>2. SeenInv /\ [Next]_vars => SeenInv'
  BY SeenStep
<1> QED BY <1>1, <1>2, InitSeen, PTL DEF Spec
=============================================================================
