---------------------------- MODULE StoreProofs ----------------------------
(***************************************************************************)
(* What the v1 store and its index guarantee for any callers, corpora,     *)
(* calls and bounds, proved with TLAPS.  The types come first; then what   *)
(* the journal lets a compensation put back, whatever the plan (JournalInv *)
(* with Sound); what no call loses (KeptInv); what a pass leaves the index *)
(* holding (FreshInv); and, one call at a time, that no article is active  *)
(* twice (TurnInv with Settled and PlannedOnce).                           *)
(***************************************************************************)
EXTENDS Store, TLAPS, WellFoundedInduction

\* the types
Tree == UNION {[S -> File] : S \in SUBSET Path}
Rows == UNION {[S -> Art] : S \in SUBSET Path}
Readings == UNION {[S -> {<<>>} \cup {<<f>> : f \in File}] : S \in SUBSET Path}
Steps == ({"note", "add"} \X SUBSET Path) \cup ({"put"} \X Path \X File)
         \cup ({"move"} \X Path \X Path) \cup ({"stamp"} \X Path \X SUBSET Path) \cup {Commit}

(***************************************************************************)
(* What makes a plan safe to run from a working tree d with a journal that *)
(* holds J, after the steps E: each step touches noted paths only, a put   *)
(* writes over nothing but its own article, and a link into archive/ names *)
(* a file that is there by then.                                           *)
(***************************************************************************)
Touched(x) == CASE x[1] \in {"put", "stamp"} -> {x[2]}
                [] x[1] = "move" -> {x[2], x[3]}
                [] x[1] = "add" -> x[2]
                [] OTHER -> {}
Given(d, E, S) == \A q \in S : IsLive(q) \/ q \in DOMAIN d \/ \E e \in E : e[1] = "move" /\ e[3] = q

SoundStep(J, d, E, x) ==
    /\ \A p \in Touched(x) : p \in J \/ \E e \in E : e[1] = "note" /\ p \in e[2]
    /\ x[1] = "put" =>
         /\ \A e \in E : e[1] = "put" /\ e[2] = x[2] => e[3].art = x[3].art
         /\ \A e \in E : e[1] = "move" => e[3] # x[2]
         /\ x[2] \in DOMAIN d /\ d[x[2]].art # x[3].art => \E e \in E : e[1] = "move" /\ e[2] = x[2]
         /\ Given(d, E, x[3].links)
    /\ x[1] = "stamp" => Given(d, E, x[3])
    /\ x[1] = "move" => IsLive(x[2]) /\ ~IsLive(x[3])

Sound(J, d, E, s) == \A n \in DOMAIN s : SoundStep(J, d, E \cup {s[m] : m \in 1..(n - 1)}, s[n])

(***************************************************************************)
(* ... and what makes it whole: each path it writes it stages later, and   *)
(* nothing comes after the commit.                                         *)
(***************************************************************************)
Wrote(x) == CASE x[1] \in {"put", "stamp"} -> {x[2]}
              [] x[1] = "move" -> {x[3]}
              [] OTHER -> {}
Caught(p, s, n) == \E m \in n..Len(s) : s[m][1] = "add" /\ p \in s[m][2]
Settled(s) == \A n \in DOMAIN s : /\ s[n][1] = "commit" => n = Len(s)
                                 /\ \A p \in Wrote(s[n]) : Caught(p, s, n)
Closing(s) == \A n \in DOMAIN s : s[n][1] # "commit" /\ \A p \in Wrote(s[n]) : Caught(p, s, n)

\* Under the lock the journal reads as the call found the tree, nothing else has changed, and what is
\* left of the plan is safe; after the reset git's index holds what the call found, or HEAD's.
Journal(c) == DOMAIN call[c].journal
JournalInv ==
    "late" \notin slips =>
        \A c \in Caller : lock = c =>
            /\ begun.tip = Tip
            /\ \A p \in Journal(c) : call[c].journal[p] = At(begun.disk, p)
            /\ \A p \in Path \ Journal(c) : At(disk, p) = At(begun.disk, p)
            /\ call[c].phase \in {"running", "reset"} =>
                 \A p \in Path \ Journal(c) : At(staged, p) = At(begun.staged, p)
            /\ call[c].phase = "rewrite" =>
                 \A p \in Path : At(staged, p) \in {At(begun.staged, p), At(Tip, p)}
            /\ call[c].phase = "running" => Sound(Journal(c), disk, {}, call[c].steps)

\* what a tree holds is on d, and what it names in archive/ too
Backed(t, d) == ArtsOf(t) \subseteq ArtsOf(d) /\ ArchiveLinks(t) \subseteq DOMAIN d
\* d holds what every commit of history did, and backs the last
Kept(history, d) ==
    /\ \A n \in DOMAIN history : ArtsOf(history[n]) \subseteq ArtsOf(d)
    /\ Backed(history[Len(history)], d)
\* Each of these trees is on disk, and names in archive/ only what is there: those of now, and those a
\* compensation would put back.
KeptInv ==
    "late" \notin slips =>
        /\ Kept(commits, disk) /\ Backed(staged, disk) /\ Backed(disk, disk)
        /\ lock # None => /\ Kept(commits, begun.disk)
                          /\ Backed(begun.staged, begun.disk) /\ Backed(begun.disk, begun.disk)

\* The index holds the commit at its watermark, unless a pass is between its rows and its watermark;
\* a pass then holds the commit it read.
FreshInv ==
    slips \cap {"overlap", "unmarked", "dirty"} = {} =>
        /\ \A c, d \in Busy : c = d
        /\ mark \notin {None, 0} /\ (\A c \in Caller : call[c].phase # "mark") =>
             rows = ArtOf(commits[mark])
        /\ \A c \in Caller :
             /\ call[c].phase = "mark" => rows = ArtOf(commits[call[c].head])
             /\ call[c].phase = "load" => rows = <<>> /\ mark = 0
             /\ call[c].phase \in {"status", "apply"} => call[c].base = mark
             /\ call[c].phase = "apply" => call[c].dirty = <<>>

\* the articles a path has or is about to have
IsAt(t, p, a) == p \in DOMAIN t /\ t[p].art = a
IsPut(p, a, s) == \E n \in DOMAIN s : s[n][1] = "put" /\ s[n][2] = p /\ s[n][3].art = a
Planned(p, a) ==
    \/ IsAt(disk, p, a) \/ IsAt(staged, p, a)
    \/ \E c \in Caller : call[c].phase = "running" /\ IsPut(p, a, call[c].steps)
PlannedOnce ==
    \A p, q \in Live, a \in Art : Planned(p, a) /\ (Planned(q, a) \/ IsAt(Tip, q, a)) => p = q
\* the paths the plan still has to stage
Stages(c) ==
    call[c].phase = "running" =>
        /\ Settled(call[c].steps)
        /\ \A p \in Path : At(disk, p) # At(staged, p) => Caught(p, call[c].steps, 1)
\* a record of new never has the article a record at another path of old has
Apart(old, new) == \A q \in DOMAIN old, p \in DOMAIN new :
                      IsLive(p) /\ IsLive(q) /\ old[q].art = new[p].art => p = q
\* a pass that runs alone reads HEAD, and nothing at HEAD clashes with what it finds indexed
InTurn(c) ==
    /\ call[c].phase \in {"reindex", "state", "status", "apply", "truncate"} =>
         mark # 0 /\ (mark # None => Apart(commits[mark], Tip))
    /\ call[c].phase \in {"state", "status", "apply", "load", "mark"} => call[c].head = Len(commits)
\* the index is HEAD's, whether or not a pass has marked it
Indexed == rows = ArtOf(Tip) /\ mark \in {None, Len(commits)}
\* With one call at a time, HEAD is what the last call left, indexed before the next begins, and what
\* its holder plans is planned for one path only.
TurnInv ==
    slips = {} =>
        /\ OneEach(Tip)
        /\ mark = None => rows = <<>>
        /\ lock = None => staged = Tip /\ disk = Tip
        /\ lock # None => begun.staged = Tip /\ begun.disk = Tip /\ PlannedOnce
        /\ Busy = {} \/ lock # None => Indexed
        /\ \A c \in Caller : Stages(c) /\ InTurn(c)

-----------------------------------------------------------------------------
(***************************************************************************)
(* Trees and readings.                                                     *)
(***************************************************************************)
LEMMA TreeIs == ASSUME NEW t PROVE t \in Tree <=> IsTree(t)
  BY DEF Tree, IsTree

LEMMA NoPaths == /\ <<>> \in Readings /\ <<>> \in Rows /\ <<>> \in Tree
                 /\ DOMAIN <<>> = {}
<1>1. <<>> \in [{} -> Art] /\ <<>> \in [{} -> File] /\ <<>> \in [{} -> {<<>>} \cup {<<f>> : f \in File}]
  OBVIOUS
<1>. QED BY <1>1 DEF Readings, Rows, Tree

LEMMA AtIs == ASSUME NEW t, NEW p
              PROVE  /\ p \in DOMAIN t <=> At(t, p) # <<>>
                     /\ p \in DOMAIN t => At(t, p) = <<t[p]>> /\ At(t, p)[1] = t[p]
                     /\ p \notin DOMAIN t => At(t, p) = <<>>
  BY DEF At

\* Two trees that read the same everywhere are the same.
LEMMA SameTree == ASSUME NEW t \in Tree, NEW u \in Tree, \A p \in Path : At(t, p) = At(u, p)
                  PROVE  t = u
<1>1. IsTree(t) /\ IsTree(u)
  BY TreeIs
<1>2. DOMAIN t = DOMAIN u
  BY <1>1, AtIs DEF IsTree
<1>3. \A p \in DOMAIN t : t[p] = u[p]
  BY <1>1, <1>2, AtIs DEF IsTree
<1>. QED BY <1>1, <1>2, <1>3 DEF IsTree

LEMMA HoldingIs == ASSUME NEW t \in Tree, NEW p \in Path, NEW f \in File
                   PROVE  /\ Holding(t, p, f) \in Tree
                          /\ DOMAIN Holding(t, p, f) = DOMAIN t \cup {p}
  BY TreeIs DEF Holding, IsTree

LEMMA AtHolding == ASSUME NEW t \in Tree, NEW p \in Path, NEW f \in File
                   PROVE  \A q : At(Holding(t, p, f), q) = IF q = p THEN <<f>> ELSE At(t, q)
  BY TreeIs DEF Holding, IsTree, At

LEMMA WithoutIs == ASSUME NEW t \in Tree, NEW S
                   PROVE  /\ Without(t, S) \in Tree
                          /\ DOMAIN Without(t, S) = DOMAIN t \ S
                          /\ \A q \in DOMAIN t \ S : Without(t, S)[q] = t[q]
  BY TreeIs DEF Without, IsTree

LEMMA AtWithout == ASSUME NEW t \in Tree, NEW S
                   PROVE  \A q : At(Without(t, S), q) = IF q \in S THEN <<>> ELSE At(t, q)
  BY TreeIs DEF Without, IsTree, At

LEMMA ReadingIs == ASSUME NEW t \in Tree, NEW S \in SUBSET Path
                   PROVE  /\ Reading(t, S) \in Readings /\ DOMAIN Reading(t, S) = S
                          /\ \A p \in S : Reading(t, S)[p] = At(t, p)
<1>1. \A p \in S : At(t, p) \in {<<>>} \cup {<<f>> : f \in File}
  BY TreeIs DEF IsTree, At
<1>2. Reading(t, S) \in [S -> {<<>>} \cup {<<f>> : f \in File}]
  BY <1>1 DEF Reading
<1>. QED BY <1>2 DEF Readings, Reading

LEMMA PutBackIs == ASSUME NEW t \in Tree, NEW was \in Readings
                   PROVE  /\ PutBack(t, was) \in Tree
                          /\ \A q : At(PutBack(t, was), q) = IF q \in DOMAIN was THEN was[q] ELSE At(t, q)
<1>1. /\ IsTree(t) /\ DOMAIN was \subseteq Path
      /\ \A q \in DOMAIN was : was[q] = <<>> \/ \E f \in File : was[q] = <<f>>
  BY TreeIs DEF Readings
<1>2. \A q \in DOMAIN was : was[q] # <<>> => was[q][1] \in File /\ was[q] = <<was[q][1]>>
  BY <1>1
<1>3. IsTree(PutBack(t, was))
  BY <1>1, <1>2 DEF IsTree, PutBack
<1>4. ASSUME NEW q PROVE At(PutBack(t, was), q) = IF q \in DOMAIN was THEN was[q] ELSE At(t, q)
  BY <1>1, <1>2 DEF IsTree, PutBack, At
<1>. QED BY <1>3, <1>4, TreeIs

-----------------------------------------------------------------------------
(***************************************************************************)
(* Steps and plans.                                                        *)
(***************************************************************************)
LEMMA StepIs == ASSUME NEW x \in Steps
                PROVE  /\ x[1] \in {"note", "add", "put", "move", "stamp", "commit"}
                       /\ x[1] \in {"note", "add"} => x[2] \in SUBSET Path
                       /\ x[1] = "put" => x[2] \in Path /\ x[3] \in File
                       /\ x[1] = "move" => x[2] \in Path /\ x[3] \in Path
                       /\ x[1] = "stamp" => x[2] \in Path /\ x[3] \in SUBSET Path
  BY DEF Steps, Commit

LEMMA NoteIs == ASSUME NEW S \in SUBSET Path
                PROVE  Note(S) \in Steps /\ Note(S)[1] = "note" /\ Note(S)[2] = S
  BY DEF Steps, Note

LEMMA AddIs == ASSUME NEW S \in SUBSET Path
               PROVE  Add(S) \in Steps /\ Add(S)[1] = "add" /\ Add(S)[2] = S
  BY DEF Steps, Add

LEMMA PutIs == ASSUME NEW p \in Path, NEW f \in File
               PROVE  /\ Put(p, f) \in Steps /\ Put(p, f)[1] = "put"
                      /\ Put(p, f)[2] = p /\ Put(p, f)[3] = f
  BY DEF Steps, Put

LEMMA MoveIs == ASSUME NEW p \in Path, NEW q \in Path
                PROVE  /\ Move(p, q) \in Steps /\ Move(p, q)[1] = "move"
                       /\ Move(p, q)[2] = p /\ Move(p, q)[3] = q
  BY DEF Steps, Move

LEMMA StampIs == ASSUME NEW p \in Path, NEW S \in SUBSET Path
                 PROVE  /\ Stamp(p, S) \in Steps /\ Stamp(p, S)[1] = "stamp"
                        /\ Stamp(p, S)[2] = p /\ Stamp(p, S)[3] = S
  BY DEF Steps, Stamp

LEMMA CommitIs == Commit \in Steps /\ Commit[1] = "commit"
  BY DEF Steps, Commit

StepsOf(s) == {s[m] : m \in DOMAIN s}

LEMMA StepsOfIs ==
    ASSUME NEW s \in Seq(Steps), NEW t \in Seq(Steps)
    PROVE  /\ s \o t \in Seq(Steps) /\ StepsOf(s \o t) = StepsOf(s) \cup StepsOf(t)
           /\ StepsOf(s) \subseteq Steps
<1>1. /\ s \o t \in Seq(Steps) /\ DOMAIN (s \o t) = 1..(Len(s) + Len(t))
      /\ DOMAIN s = 1..Len(s) /\ DOMAIN t = 1..Len(t) /\ Len(s) \in Nat /\ Len(t) \in Nat
      /\ \A n \in DOMAIN s : (s \o t)[n] = s[n]
      /\ \A n \in DOMAIN t : (s \o t)[Len(s) + n] = t[n]
  OBVIOUS
<1>2. ASSUME NEW n \in DOMAIN (s \o t) PROVE (s \o t)[n] \in StepsOf(s) \cup StepsOf(t)
  <2>1. CASE n \in DOMAIN s
    BY <1>1, <2>1 DEF StepsOf
  <2>2. CASE n \notin DOMAIN s
    <3>1. n - Len(s) \in DOMAIN t /\ (s \o t)[n] = t[n - Len(s)]
      BY <1>1, <2>2
    <3>. QED BY <3>1 DEF StepsOf
  <2>. QED BY <2>1, <2>2
<1>3. ASSUME NEW n \in DOMAIN s PROVE s[n] \in StepsOf(s \o t)
  BY <1>1 DEF StepsOf
<1>4. ASSUME NEW n \in DOMAIN t PROVE t[n] \in StepsOf(s \o t)
  <2>1. Len(s) + n \in DOMAIN (s \o t)
    BY <1>1
  <2>. QED BY <1>1, <2>1 DEF StepsOf
<1>. QED BY <1>1, <1>2, <1>3, <1>4 DEF StepsOf

LEMMA Tuples1 == ASSUME NEW x \in Steps PROVE <<x>> \in Seq(Steps) /\ StepsOf(<<x>>) = {x}
<1>1. <<x>> \in Seq(Steps) /\ DOMAIN <<x>> = {1}
  OBVIOUS
<1>. QED BY <1>1 DEF StepsOf

LEMMA Tuples2 == ASSUME NEW x \in Steps, NEW y \in Steps
                 PROVE  <<x, y>> \in Seq(Steps) /\ StepsOf(<<x, y>>) = {x, y}
<1>1. <<x, y>> \in Seq(Steps) /\ DOMAIN <<x, y>> = {1, 2}
  OBVIOUS
<1>. QED BY <1>1 DEF StepsOf

LEMMA Tuples3 == ASSUME NEW x \in Steps, NEW y \in Steps, NEW z \in Steps
                 PROVE  <<x, y, z>> \in Seq(Steps) /\ StepsOf(<<x, y, z>>) = {x, y, z}
<1>1. <<x, y, z>> \in Seq(Steps) /\ DOMAIN <<x, y, z>> = {1, 2, 3}
  OBVIOUS
<1>. QED BY <1>1 DEF StepsOf

LEMMA SoundOne == ASSUME NEW J, NEW d, NEW E, NEW x \in Steps, SoundStep(J, d, E, x)
                  PROVE  Sound(J, d, E, <<x>>)
<1>1. DOMAIN <<x>> = {1} /\ <<x>>[1] = x /\ {<<x>>[m] : m \in 1..(1 - 1)} = {}
  OBVIOUS
<1>. QED BY <1>1 DEF Sound

LEMMA SoundTwo == ASSUME NEW J, NEW d, NEW E, NEW x \in Steps, NEW y \in Steps,
                         SoundStep(J, d, E, x), SoundStep(J, d, E \cup {x}, y)
                  PROVE  Sound(J, d, E, <<x, y>>)
<1>. DEFINE s == <<x, y>>
<1>1. /\ DOMAIN s = {1, 2} /\ s[1] = x /\ s[2] = y
      /\ 1..(1 - 1) = {} /\ 1..(2 - 1) = {1}
  OBVIOUS
<1>2. E \cup {s[m] : m \in 1..(1 - 1)} = E /\ E \cup {s[m] : m \in 1..(2 - 1)} = E \cup {x}
  BY <1>1
<1>3. ASSUME NEW n \in DOMAIN s PROVE SoundStep(J, d, E \cup {s[m] : m \in 1..(n - 1)}, s[n])
  <2>1. CASE n = 1
    BY <1>1, <1>2, <2>1
  <2>2. CASE n = 2
    BY <1>1, <1>2, <2>2
  <2>. QED BY <1>1, <2>1, <2>2
<1>. QED BY <1>3 DEF Sound

LEMMA SoundThree == ASSUME NEW J, NEW d, NEW E, NEW x \in Steps, NEW y \in Steps, NEW z \in Steps,
                           SoundStep(J, d, E, x), SoundStep(J, d, E \cup {x}, y),
                           SoundStep(J, d, E \cup {x, y}, z)
                    PROVE  Sound(J, d, E, <<x, y, z>>)
<1>. DEFINE s == <<x, y, z>>
<1>1. /\ DOMAIN s = {1, 2, 3} /\ s[1] = x /\ s[2] = y /\ s[3] = z
      /\ 1..(1 - 1) = {} /\ 1..(2 - 1) = {1} /\ 1..(3 - 1) = {1, 2}
  OBVIOUS
<1>2. /\ E \cup {s[m] : m \in 1..(1 - 1)} = E /\ E \cup {s[m] : m \in 1..(2 - 1)} = E \cup {x}
      /\ E \cup {s[m] : m \in 1..(3 - 1)} = E \cup {x, y}
  BY <1>1
<1>3. ASSUME NEW n \in DOMAIN s PROVE SoundStep(J, d, E \cup {s[m] : m \in 1..(n - 1)}, s[n])
  <2>1. CASE n = 1
    BY <1>1, <1>2, <2>1
  <2>2. CASE n = 2
    BY <1>1, <1>2, <2>2
  <2>3. CASE n = 3
    BY <1>1, <1>2, <2>3
  <2>. QED BY <1>1, <2>1, <2>2, <2>3
<1>. QED BY <1>3 DEF Sound

LEMMA SoundJoin ==
    ASSUME NEW J, NEW d, NEW E, NEW s \in Seq(Steps), NEW t \in Seq(Steps),
           Sound(J, d, E, s), Sound(J, d, E \cup StepsOf(s), t)
    PROVE  Sound(J, d, E, s \o t)
<1>1. /\ DOMAIN (s \o t) = 1..(Len(s) + Len(t))
      /\ DOMAIN s = 1..Len(s) /\ DOMAIN t = 1..Len(t) /\ Len(s) \in Nat /\ Len(t) \in Nat
      /\ \A n \in DOMAIN s : (s \o t)[n] = s[n]
      /\ \A n \in DOMAIN t : (s \o t)[Len(s) + n] = t[n]
  OBVIOUS
<1>. DEFINE st == s \o t
<1>2. ASSUME NEW n \in DOMAIN st
      PROVE  SoundStep(J, d, E \cup {st[m] : m \in 1..(n - 1)}, st[n])
  <2>1. CASE n \in DOMAIN s
    <3>1. {st[m] : m \in 1..(n - 1)} = {s[m] : m \in 1..(n - 1)} /\ st[n] = s[n]
      BY <1>1, <2>1
    <3>. QED BY <2>1, <3>1 DEF Sound
  <2>2. CASE n \notin DOMAIN s
    <3>. DEFINE k == n - Len(s)
    <3>1. k \in DOMAIN t /\ st[n] = t[k] /\ k \in Int /\ n = Len(s) + k
      BY <1>1, <2>2
    <3>2. {st[m] : m \in 1..(n - 1)} = StepsOf(s) \cup {t[m] : m \in 1..(k - 1)}
      <4>1. ASSUME NEW m \in 1..(n - 1)
            PROVE  st[m] \in StepsOf(s) \cup {t[i] : i \in 1..(k - 1)}
        <5>1. CASE m \in DOMAIN s
          BY <1>1, <5>1 DEF StepsOf
        <5>2. CASE m \notin DOMAIN s
          <6>1. m - Len(s) \in 1..(k - 1) /\ st[m] = t[m - Len(s)]
            BY <1>1, <3>1, <5>2
          <6>. QED BY <6>1
        <5>. QED BY <5>1, <5>2
      <4>2. ASSUME NEW m \in DOMAIN s PROVE m \in 1..(n - 1) /\ st[m] = s[m]
        BY <1>1, <3>1
      <4>3. ASSUME NEW m \in 1..(k - 1) PROVE Len(s) + m \in 1..(n - 1) /\ st[Len(s) + m] = t[m]
        BY <1>1, <3>1
      <4>4. ASSUME NEW e \in StepsOf(s) \cup {t[i] : i \in 1..(k - 1)}
            PROVE  \E m \in 1..(n - 1) : e = st[m]
        <5>1. CASE e \in StepsOf(s)
          BY <4>2, <5>1 DEF StepsOf
        <5>2. CASE e \in {t[i] : i \in 1..(k - 1)}
          BY <4>3, <5>2
        <5>. QED BY <5>1, <5>2
      <4>. HIDE DEF st, k
      <4>. QED BY <4>1, <4>4
    <3>3. SoundStep(J, d, (E \cup StepsOf(s)) \cup {t[m] : m \in 1..(k - 1)}, t[k])
      BY <3>1 DEF Sound
    <3>4. (E \cup StepsOf(s)) \cup {t[m] : m \in 1..(k - 1)} = E \cup {st[m] : m \in 1..(n - 1)}
      BY <3>2
    <3>. QED BY <3>1, <3>3, <3>4
  <2>. QED BY <2>1, <2>2
<1>. QED BY <1>2 DEF Sound

\* Doing the first step of a sound plan leaves a sound plan, where the step passes.
LEMMA SoundTail ==
    ASSUME NEW J, NEW d, NEW K, NEW u, NEW s \in Seq(Steps), s # <<>>, Sound(J, d, {}, s),
           \A E \in SUBSET Steps, x \in Steps :
              SoundStep(J, d, {s[1]} \cup E, x) => SoundStep(K, u, E, x)
    PROVE  Sound(K, u, {}, Tail(s))
<1>. DEFINE t == Tail(s)
<1>1. /\ t \in Seq(Steps) /\ Len(t) = Len(s) - 1 /\ Len(s) \in Nat \ {0}
      /\ DOMAIN t = 1..Len(t) /\ DOMAIN s = 1..Len(s)
      /\ \A n \in DOMAIN t : t[n] = s[n + 1] /\ t[n] \in Steps
  OBVIOUS
<1>. HIDE DEF t
<1>2. ASSUME NEW n \in DOMAIN t
      PROVE  SoundStep(K, u, {} \cup {t[m] : m \in 1..(n - 1)}, t[n])
  <2>1. n + 1 \in DOMAIN s /\ t[n] = s[n + 1] /\ (n + 1) - 1 = n /\ n \in Nat
    BY <1>1
  <2>2. {s[m] : m \in 1..n} = {s[1]} \cup {t[m] : m \in 1..(n - 1)}
    <3>1. ASSUME NEW m \in 1..n PROVE s[m] \in {s[1]} \cup {t[i] : i \in 1..(n - 1)}
      <4>1. CASE m # 1
        <5>1. m - 1 \in 1..(n - 1) /\ m - 1 \in DOMAIN t /\ (m - 1) + 1 = m
          BY <1>1, <2>1, <4>1
        <5>2. t[m - 1] = s[(m - 1) + 1]
          BY <1>1, <5>1, Zenon
        <5>3. s[m] = t[m - 1]
          BY <5>1, <5>2, Zenon
        <5>. QED BY <5>1, <5>3, Zenon
      <4>. QED BY <4>1
    <3>2. 1 \in 1..n
      BY <1>1
    <3>3. ASSUME NEW m \in 1..(n - 1) PROVE m + 1 \in 1..n /\ t[m] = s[m + 1]
      <4>1. m + 1 \in 1..n /\ m \in DOMAIN t
        BY <1>1, <2>1
      <4>. QED BY <1>1, <4>1, Zenon
    <3>. QED BY <3>1, <3>2, <3>3
  <2>3. {t[m] : m \in 1..(n - 1)} \in SUBSET Steps
    BY <1>1
  <2>4. SoundStep(J, d, {s[1]} \cup {t[m] : m \in 1..(n - 1)}, t[n])
    <3>1. SoundStep(J, d, {} \cup {s[m] : m \in 1..((n + 1) - 1)}, s[n + 1])
      BY <2>1 DEF Sound
    <3>. QED BY <2>1, <2>2, <3>1
  <2>5. SoundStep(K, u, {t[m] : m \in 1..(n - 1)}, t[n])
    BY <1>1, <2>3, <2>4
  <2>. QED BY <2>5
<1>. QED BY <1>2 DEF Sound, t

\* What is sound after a step is sound once the step is done.
LEMMA NotePasses ==
    ASSUME NEW J, NEW d, NEW S \in SUBSET Path, NEW E \in SUBSET Steps, NEW x \in Steps,
           SoundStep(J, d, {Note(S)} \cup E, x)
    PROVE  SoundStep(J \cup S, d, E, x)
<1>1. \A e \in {Note(S)} \cup E : e[1] \in {"put", "move"} => e \in E
  BY NoteIs
<1>2. \A e \in {Note(S)} \cup E : e[1] = "note" => e \in E \/ e[2] = S
  BY NoteIs
<1>3. \A T : Given(d, {Note(S)} \cup E, T) => Given(d, E, T)
  BY <1>1 DEF Given
<1>. QED BY <1>1, <1>2, <1>3 DEF SoundStep

LEMMA AddPasses ==
    ASSUME NEW J, NEW d, NEW S \in SUBSET Path, NEW E \in SUBSET Steps, NEW x \in Steps,
           SoundStep(J, d, {Add(S)} \cup E, x)
    PROVE  SoundStep(J, d, E, x)
<1>1. \A e \in {Add(S)} \cup E : e[1] \in {"put", "move", "note"} => e \in E
  BY AddIs
<1>2. \A T : Given(d, {Add(S)} \cup E, T) => Given(d, E, T)
  BY <1>1 DEF Given
<1>. QED BY <1>1, <1>2 DEF SoundStep

LEMMA StampPasses ==
    ASSUME NEW J, NEW d, NEW u, NEW p \in Path, NEW S \in SUBSET Path, NEW E \in SUBSET Steps,
           NEW x \in Steps, SoundStep(J, d, {Stamp(p, S)} \cup E, x),
           DOMAIN u = DOMAIN d, \A q \in DOMAIN d : u[q].art = d[q].art
    PROVE  SoundStep(J, u, E, x)
<1>1. \A e \in {Stamp(p, S)} \cup E : e[1] \in {"put", "move", "note"} => e \in E
  BY StampIs
<1>2. \A T : Given(d, {Stamp(p, S)} \cup E, T) => Given(u, E, T)
  BY <1>1 DEF Given
<1>. QED BY <1>1, <1>2 DEF SoundStep

LEMMA PutPasses ==
    ASSUME NEW J, NEW d \in Tree, NEW p \in Path, NEW f \in File, NEW E \in SUBSET Steps,
           NEW x \in Steps, SoundStep(J, d, {Put(p, f)} \cup E, x)
    PROVE  SoundStep(J, Holding(d, p, f), E, x)
<1>. DEFINE u == Holding(d, p, f)
<1>1. /\ \A e \in {Put(p, f)} \cup E : e[1] \in {"move", "note"} => e \in E
      /\ Put(p, f)[1] = "put" /\ Put(p, f)[2] = p /\ Put(p, f)[3] = f
  BY PutIs
<1>2. DOMAIN u = DOMAIN d \cup {p} /\ \A q \in DOMAIN d \cup {p} : u[q] = IF q = p THEN f ELSE d[q]
  BY DEF Holding
<1>. HIDE DEF u
<1>3. \A T : Given(d, {Put(p, f)} \cup E, T) => Given(u, E, T)
  BY <1>1, <1>2 DEF Given
<1>4. ASSUME x[1] = "put", x[2] \in DOMAIN u, u[x[2]].art # x[3].art
      PROVE  \E e \in E : e[1] = "move" /\ e[2] = x[2]
  <2>1. x[2] # p
    BY <1>1, <1>2, <1>4 DEF SoundStep
  <2>2. x[2] \in DOMAIN d /\ u[x[2]] = d[x[2]]
    BY <1>2, <1>4, <2>1
  <2>. QED BY <1>1, <1>4, <2>2 DEF SoundStep
<1>5. \A q \in Touched(x) : q \in J \/ \E e \in E : e[1] = "note" /\ q \in e[2]
  BY <1>1 DEF SoundStep
<1>. QED BY <1>3, <1>4, <1>5 DEF SoundStep, u

LEMMA MovePasses ==
    ASSUME NEW J, NEW d \in Tree, NEW p \in Path, NEW q \in Path, NEW E \in SUBSET Steps,
           NEW x \in Steps, SoundStep(J, d, {Move(p, q)} \cup E, x),
           IsLive(p), ~IsLive(q), p \in DOMAIN d, q \notin DOMAIN d
    PROVE  SoundStep(J, Holding(Without(d, {p}), q, d[p]), E, x)
<1>. DEFINE u == Holding(Without(d, {p}), q, d[p])
<1>1. /\ \A e \in {Move(p, q)} \cup E : e[1] \in {"put", "note"} => e \in E
      /\ Move(p, q)[1] = "move" /\ Move(p, q)[2] = p /\ Move(p, q)[3] = q
  BY MoveIs
<1>2. /\ DOMAIN u = (DOMAIN d \ {p}) \cup {q} /\ \A r \in DOMAIN d \ {p} : u[r] = d[r]
  BY DEF Holding, Without
<1>. HIDE DEF u
<1>3. ASSUME NEW T, Given(d, {Move(p, q)} \cup E, T) PROVE Given(u, E, T)
  BY <1>1, <1>2, <1>3 DEF Given
<1>4. ASSUME x[1] = "put", x[2] \in DOMAIN u, u[x[2]].art # x[3].art
      PROVE  \E e \in E : e[1] = "move" /\ e[2] = x[2]
  <2>1. x[2] # q
    BY <1>1, <1>4 DEF SoundStep
  <2>2. x[2] \in DOMAIN d /\ u[x[2]] = d[x[2]] /\ x[2] # p
    BY <1>2, <1>4, <2>1
  <2>. QED BY <1>1, <1>4, <2>2 DEF SoundStep
<1>5. \A r \in Touched(x) : r \in J \/ \E e \in E : e[1] = "note" /\ r \in e[2]
  BY <1>1 DEF SoundStep
<1>. QED BY <1>1, <1>3, <1>4, <1>5 DEF SoundStep, u

-----------------------------------------------------------------------------
(***************************************************************************)
(* What an operation decides: free paths, free slots, plans.               *)
(***************************************************************************)
LEMMA LeastNat == ASSUME NEW T \in SUBSET Nat, T # {} PROVE \E x \in T : \A y \in T : x <= y
<1>. DEFINE R == OpToRel(<, Nat)
<1>1. \A x, y \in Nat : y < x => <<y, x>> \in R
  BY DEF OpToRel
<1>2. IsWellFoundedOn(R, Nat)
  BY NatLessThanWellFounded
<1>. HIDE DEF R
<1>3. \E x \in T : \A y \in T : ~ (<<y, x>> \in R)
  BY <1>2, WFMin
<1>4. \A x, y \in T : ~ (<<y, x>> \in R) => x <= y
  <2>1. \A x, y \in T : x \in Nat /\ y \in Nat
    OBVIOUS
  <2>. QED BY <1>1, <2>1
<1>. QED BY <1>3, <1>4

LEMMA PathIs == ASSUME NEW p \in Path
                PROVE  /\ p.title \in Title /\ p.title \in Nat /\ p.ordinal \in Nat /\ p.generation \in Nat
                       /\ p = [title |-> p.title, ordinal |-> p.ordinal, generation |-> p.generation]
                       /\ p # None
<1>1. MaxOrdinal \in Nat /\ MaxGeneration \in Nat /\ Title \subseteq Nat
  BY StoreAssumption
<1>2. p # None
  BY SeedsAssumption
<1>3. /\ p.title \in Title /\ p.ordinal \in 1..MaxOrdinal /\ p.generation \in 0..MaxGeneration
      /\ p = [title |-> p.title, ordinal |-> p.ordinal, generation |-> p.generation]
  BY DEF Path
<1>. QED BY <1>1, <1>2, <1>3

\* Among the paths of one title, or the slots of one path, there is a first.
LEMMA FirstOrdinal ==
    ASSUME NEW S \in SUBSET Live, S # {}, NEW t, \A p \in S : p.title = t
    PROVE  First(S) \in S
<1>1. \A p \in S : /\ p \in Path /\ p.generation = 0 /\ p.title = t /\ p.ordinal \in Nat /\ IsLive(p)
                   /\ p = [title |-> t, ordinal |-> p.ordinal, generation |-> 0]
  BY PathIs DEF Live, IsLive
<1>. DEFINE T == {p.ordinal : p \in S}
<1>2. T \in SUBSET Nat /\ T # {}
  BY <1>1
<1>3. PICK n \in T : \A m \in T : n <= m
  <2>. HIDE DEF T
  <2>. QED BY <1>2, LeastNat
<1>4. PICK p \in S : p.ordinal = n
  OBVIOUS
<1>5. ASSUME NEW q \in S \ {p} PROVE Before(p, q)
  <2>1. p.ordinal < q.ordinal
    <3>1. q.ordinal \in T /\ n <= q.ordinal
      BY <1>3
    <3>2. q.ordinal # p.ordinal
      BY <1>1, <1>4
    <3>. QED BY <1>1, <1>4, <3>1, <3>2
  <2>2. /\ <<1, 0, p.title, p.ordinal>>[4] < <<1, 0, q.title, q.ordinal>>[4]
        /\ \A j \in 1..(4 - 1) : <<1, 0, p.title, p.ordinal>>[j] = <<1, 0, q.title, q.ordinal>>[j]
    BY <1>1, <2>1
  <2>. QED BY <1>1, <2>2 DEF Before
<1>. QED BY <1>4, <1>5 DEF First

LEMMA FirstSlot ==
    ASSUME NEW S \in SUBSET (Path \ Live), S # {}, NEW t, NEW o,
           \A p \in S : p.title = t /\ p.ordinal = o
    PROVE  First(S) \in S
<1>1. \A p \in S : /\ p \in Path /\ p.title = t /\ p.ordinal = o /\ p.generation \in Nat /\ ~IsLive(p)
                   /\ p = [title |-> t, ordinal |-> o, generation |-> p.generation]
  BY PathIs DEF Live
<1>. DEFINE T == {p.generation : p \in S}
<1>2. T \in SUBSET Nat /\ T # {}
  BY <1>1
<1>3. PICK n \in T : \A m \in T : n <= m
  <2>. HIDE DEF T
  <2>. QED BY <1>2, LeastNat
<1>4. PICK p \in S : p.generation = n
  OBVIOUS
<1>5. ASSUME NEW q \in S \ {p} PROVE Before(p, q)
  <2>1. p.generation < q.generation
    <3>1. q.generation \in T /\ n <= q.generation
      BY <1>3
    <3>2. q.generation # p.generation
      BY <1>1, <1>4
    <3>. QED BY <1>1, <1>4, <3>1, <3>2
  <2>2. /\ <<0, p.generation, p.title, p.ordinal>>[2] < <<0, q.generation, q.title, q.ordinal>>[2]
        /\ \A j \in 1..(2 - 1) :
             <<0, p.generation, p.title, p.ordinal>>[j] = <<0, q.generation, q.title, q.ordinal>>[j]
    BY <1>1, <2>1
  <2>. QED BY <1>1, <2>2 DEF Before
<1>. QED BY <1>4, <1>5 DEF First

LEMMA FreePathIs ==
    ASSUME NEW i \in Input, NEW claimed, NEW vacating, FreePath(i, claimed, vacating) # None
    PROVE  /\ FreePath(i, claimed, vacating) \in Live
           /\ FreePath(i, claimed, vacating) \notin claimed
           /\ FreePath(i, claimed, vacating) \in DOMAIN disk => FreePath(i, claimed, vacating) = vacating
<1>. DEFINE named == [title |-> i.title, ordinal |-> 1, generation |-> 0]
            free == {p \in Live : p.title = i.title} \ (claimed \cup DOMAIN disk)
            f == FreePath(i, claimed, vacating)
<1>1. i.named \in BOOLEAN /\ i.title \in Title
  BY DEF Input
<1>2. CASE i.named
  <2>1. f = named /\ named \notin claimed /\ (named = vacating \/ named \notin DOMAIN disk)
    BY <1>1, <1>2 DEF FreePath
  <2>2. named \in Live
    BY <1>1, StoreAssumption DEF Live, IsLive, Path
  <2>. QED BY <2>1, <2>2
<1>3. CASE ~i.named
  <2>1. f = First(free) /\ free # {}
    BY <1>1, <1>3 DEF FreePath
  <2>2. First(free) \in free
    BY <2>1, FirstOrdinal
  <2>. QED BY <2>1, <2>2
<1>. QED BY <1>1, <1>2, <1>3

LEMMA SlotIs ==
    ASSUME NEW p, NEW taken, ArchiveSlot(p, taken) # None
    PROVE  /\ ArchiveSlot(p, taken) \in Path /\ ~IsLive(ArchiveSlot(p, taken))
           /\ ArchiveSlot(p, taken) \notin DOMAIN disk /\ ArchiveSlot(p, taken) \notin taken
<1>. DEFINE free == {q \in Path \ Live : q.title = p.title /\ q.ordinal = p.ordinal} \ (DOMAIN disk \cup taken)
<1>1. free # {} /\ ArchiveSlot(p, taken) = First(free)
  BY DEF ArchiveSlot
<1>2. First(free) \in free
  BY <1>1, FirstSlot
<1>. QED BY <1>1, <1>2 DEF Live

LEMMA AppendIs == ASSUME NEW s \in Seq(Steps)
                  PROVE  /\ Append(s, Commit) \in Seq(Steps) /\ Append(s, Commit) # <<>>
                         /\ Append(s, Commit) = s \o <<Commit>>
                         /\ Append(s, Commit)[Len(Append(s, Commit))] = Commit
                         /\ StepsOf(Append(s, Commit)) = StepsOf(s) \cup {Commit}
<1>1. Commit \in Steps
  BY CommitIs
<1>2. /\ Append(s, Commit) \in Seq(Steps) /\ Append(s, Commit) # <<>>
      /\ Append(s, Commit)[Len(Append(s, Commit))] = Commit
  BY <1>1
<1>3. Append(s, Commit) = s \o <<Commit>>
  OBVIOUS
<1>4. <<Commit>> \in Seq(Steps) /\ StepsOf(<<Commit>>) = {Commit}
  BY <1>1, Tuples1
<1>5. StepsOf(s \o <<Commit>>) = StepsOf(s) \cup {Commit}
  BY <1>4, StepsOfIs
<1>. QED BY <1>2, <1>3, <1>5, Zenon

Noticed(E, p) == \E e \in E : e[1] = "note" /\ p \in e[2]

LEMMA NoteSound == ASSUME NEW J, NEW d, NEW E, NEW S \in SUBSET Path
                   PROVE  SoundStep(J, d, E, Note(S))
  BY NoteIs DEF SoundStep, Touched

LEMMA CommitSound == ASSUME NEW J, NEW d, NEW E PROVE SoundStep(J, d, E, Commit)
  BY CommitIs DEF SoundStep, Touched

LEMMA AddSound == ASSUME NEW J, NEW d, NEW E, NEW S \in SUBSET Path, \A p \in S : Noticed(E, p)
                  PROVE  SoundStep(J, d, E, Add(S))
  BY AddIs DEF SoundStep, Touched, Noticed

LEMMA StampSound == ASSUME NEW J, NEW d, NEW E, NEW p \in Path, NEW S \in SUBSET Path,
                           Noticed(E, p), Given(d, E, S)
                    PROVE  SoundStep(J, d, E, Stamp(p, S))
  BY StampIs DEF SoundStep, Touched, Noticed

LEMMA MoveSound == ASSUME NEW J, NEW d, NEW E, NEW p \in Path, NEW q \in Path,
                          Noticed(E, p), Noticed(E, q), IsLive(p), ~IsLive(q)
                   PROVE  SoundStep(J, d, E, Move(p, q))
  BY MoveIs DEF SoundStep, Touched, Noticed

LEMMA PutSound ==
    ASSUME NEW J, NEW d, NEW E, NEW p \in Path, NEW f \in File, Noticed(E, p), Given(d, E, f.links),
           \A e \in E : e[1] = "put" /\ e[2] = p => e[3].art = f.art,
           \A e \in E : e[1] = "move" => e[3] # p,
           p \in DOMAIN d /\ d[p].art # f.art => \E e \in E : e[1] = "move" /\ e[2] = p
    PROVE  SoundStep(J, d, E, Put(p, f))
  BY PutIs DEF SoundStep, Touched, Noticed

LEMMA ClosingTwo ==
    ASSUME NEW x \in Steps, NEW S \in SUBSET Path, x[1] # "commit", Wrote(x) \subseteq S
    PROVE  Closing(<<x, Add(S)>>)
<1>. DEFINE a == Add(S)
            s == <<x, a>>
<1>1. a \in Steps /\ a[1] = "add" /\ a[2] = S /\ Wrote(a) = {}
  BY AddIs DEF Wrote
<1>. HIDE DEF a
<1>2. DOMAIN s = 1..2 /\ Len(s) = 2 /\ s[1] = x /\ s[2] = a
  OBVIOUS
<1>. HIDE DEF s
<1>3. ASSUME NEW n \in DOMAIN s, NEW p \in S PROVE Caught(p, s, n)
  BY <1>1, <1>2 DEF Caught
<1>4. \A n \in DOMAIN s : s[n] = x \/ s[n] = a
  BY <1>2
<1>5. Closing(s)
  BY <1>1, <1>3, <1>4 DEF Closing
<1>. QED BY <1>5 DEF s, a

LEMMA ClosingThree ==
    ASSUME NEW x \in Steps, NEW y \in Steps, NEW S \in SUBSET Path, x[1] # "commit", y[1] # "commit",
           Wrote(x) \subseteq S, Wrote(y) \subseteq S
    PROVE  Closing(<<x, y, Add(S)>>)
<1>. DEFINE a == Add(S)
            s == <<x, y, a>>
<1>1. a \in Steps /\ a[1] = "add" /\ a[2] = S /\ Wrote(a) = {}
  BY AddIs DEF Wrote
<1>. HIDE DEF a
<1>2. DOMAIN s = 1..3 /\ Len(s) = 3 /\ s[1] = x /\ s[2] = y /\ s[3] = a
  OBVIOUS
<1>. HIDE DEF s
<1>3. ASSUME NEW n \in DOMAIN s, NEW p \in S PROVE Caught(p, s, n)
  BY <1>1, <1>2 DEF Caught
<1>4. \A n \in DOMAIN s : s[n] = x \/ s[n] = y \/ s[n] = a
  BY <1>2
<1>5. Closing(s)
  BY <1>1, <1>3, <1>4 DEF Closing
<1>. QED BY <1>5 DEF s, a

LEMMA ClosingNote == ASSUME NEW S \in SUBSET Path PROVE Closing(<<Note(S)>>)
<1>. DEFINE x == Note(S)
<1>1. x[1] = "note" /\ Wrote(x) = {}
  BY NoteIs DEF Wrote
<1>. HIDE DEF x
<1>2. \A n \in DOMAIN <<x>> : <<x>>[n] = x
  OBVIOUS
<1>3. Closing(<<x>>)
  BY <1>1, <1>2 DEF Closing
<1>. QED BY <1>3 DEF x

LEMMA JoinIs ==
    ASSUME NEW s \in Seq(Steps), NEW t \in Seq(Steps)
    PROVE  /\ DOMAIN (s \o t) = 1..(Len(s) + Len(t)) /\ Len(s \o t) = Len(s) + Len(t)
           /\ DOMAIN s = 1..Len(s) /\ DOMAIN t = 1..Len(t) /\ Len(s) \in Nat /\ Len(t) \in Nat
           /\ \A n \in DOMAIN s : (s \o t)[n] = s[n]
           /\ \A n \in DOMAIN t : (s \o t)[Len(s) + n] = t[n]
  OBVIOUS

LEMMA ClosingJoin ==
    ASSUME NEW s \in Seq(Steps), NEW t \in Seq(Steps), Closing(s), Closing(t)
    PROVE  Closing(s \o t)
<1>. DEFINE u == s \o t
<1>1. /\ DOMAIN u = 1..(Len(s) + Len(t)) /\ Len(u) = Len(s) + Len(t)
      /\ DOMAIN s = 1..Len(s) /\ DOMAIN t = 1..Len(t) /\ Len(s) \in Nat /\ Len(t) \in Nat
      /\ \A n \in DOMAIN s : u[n] = s[n]
      /\ \A n \in DOMAIN t : u[Len(s) + n] = t[n]
  BY JoinIs
<1>. HIDE DEF u
<1>2. ASSUME NEW n \in DOMAIN s, NEW p \in Wrote(s[n]) PROVE Caught(p, u, n)
  <2>1. PICK m \in n..Len(s) : s[m][1] = "add" /\ p \in s[m][2]
    BY <1>2 DEF Closing, Caught
  <2>2. m \in DOMAIN s /\ m \in n..Len(u) /\ u[m] = s[m]
    BY <1>1, <2>1
  <2>. QED BY <2>1, <2>2 DEF Caught
<1>3. ASSUME NEW n \in DOMAIN t, NEW p \in Wrote(t[n]) PROVE Caught(p, u, Len(s) + n)
  <2>1. PICK m \in n..Len(t) : t[m][1] = "add" /\ p \in t[m][2]
    BY <1>3 DEF Closing, Caught
  <2>2. m \in DOMAIN t /\ Len(s) + m \in (Len(s) + n)..Len(u)
    BY <1>1, <2>1
  <2>3. u[Len(s) + m] = t[m]
    BY <1>1, <2>2, Zenon
  <2>. QED BY <2>1, <2>2, <2>3 DEF Caught
<1>4. ASSUME NEW n \in DOMAIN u PROVE u[n][1] # "commit" /\ \A p \in Wrote(u[n]) : Caught(p, u, n)
  <2>1. CASE n \in DOMAIN s
    BY <1>1, <1>2, <2>1 DEF Closing
  <2>2. CASE n \notin DOMAIN s
    <3>1. n - Len(s) \in DOMAIN t /\ Len(s) + (n - Len(s)) = n
      BY <1>1, <2>2
    <3>2. u[n] = t[n - Len(s)]
      BY <1>1, <3>1
    <3>. QED BY <1>3, <3>1, <3>2 DEF Closing
  <2>. QED BY <2>1, <2>2
<1>. QED BY <1>4 DEF Closing, u

\* A plan whose writes are all staged by its last step.
LEMMA ClosingWith ==
    ASSUME NEW s \in Seq(Steps), NEW S \in SUBSET Path,
           \A x \in StepsOf(s) : x[1] # "commit" /\ Wrote(x) \subseteq S
    PROVE  Closing(s \o <<Add(S)>>)
<1>. DEFINE a == Add(S)
            t == <<a>>
            u == s \o t
<1>1. a \in Steps /\ a[1] = "add" /\ a[2] = S /\ Wrote(a) = {}
  BY AddIs DEF Wrote
<1>. HIDE DEF a
<1>2. t \in Seq(Steps) /\ Len(t) = 1 /\ t[1] = a
  BY <1>1
<1>. HIDE DEF t
<1>3. /\ DOMAIN u = 1..(Len(s) + 1) /\ Len(u) = Len(s) + 1 /\ DOMAIN s = 1..Len(s) /\ Len(s) \in Nat
      /\ \A n \in DOMAIN s : u[n] = s[n]
      /\ u[Len(s) + 1] = a
  BY <1>2, JoinIs
<1>. HIDE DEF u
<1>4. ASSUME NEW n \in DOMAIN u, NEW p \in S PROVE Caught(p, u, n)
  BY <1>1, <1>3 DEF Caught
<1>5. \A n \in DOMAIN u : u[n] = a \/ u[n] \in StepsOf(s)
  <2>1. ASSUME NEW n \in DOMAIN u PROVE u[n] = a \/ u[n] \in StepsOf(s)
    <3>1. CASE n \in DOMAIN s
      BY <1>3, <3>1 DEF StepsOf
    <3>2. CASE n \notin DOMAIN s
      <4>1. n = Len(s) + 1
        BY <1>3, <3>2
      <4>. QED BY <1>3, <4>1
    <3>. QED BY <3>1, <3>2
  <2>. QED BY <2>1
<1>6. Closing(u)
  BY <1>1, <1>4, <1>5 DEF Closing
<1>. QED BY <1>6 DEF u, t, a

LEMMA ClosingCommit == ASSUME NEW s \in Seq(Steps), Closing(s) PROVE Settled(Append(s, Commit))
<1>. DEFINE u == Append(s, Commit)
<1>1. /\ DOMAIN u = 1..(Len(s) + 1) /\ Len(u) = Len(s) + 1 /\ DOMAIN s = 1..Len(s) /\ Len(s) \in Nat
      /\ \A n \in DOMAIN s : u[n] = s[n]
      /\ u[Len(s) + 1] = Commit
  OBVIOUS
<1>. HIDE DEF u
<1>2. Wrote(Commit) = {}
  BY CommitIs DEF Wrote
<1>3. ASSUME NEW n \in DOMAIN s, NEW p \in Wrote(s[n]) PROVE Caught(p, u, n)
  <2>1. PICK m \in n..Len(s) : s[m][1] = "add" /\ p \in s[m][2]
    BY <1>3 DEF Closing, Caught
  <2>2. m \in DOMAIN s /\ m \in n..Len(u) /\ u[m] = s[m]
    BY <1>1, <2>1
  <2>. QED BY <2>1, <2>2 DEF Caught
<1>4. ASSUME NEW n \in DOMAIN u
      PROVE  /\ u[n][1] = "commit" => n = Len(u)
             /\ \A p \in Wrote(u[n]) : Caught(p, u, n)
  <2>1. CASE n \in DOMAIN s
    BY <1>1, <1>3, <2>1 DEF Closing
  <2>2. CASE n \notin DOMAIN s
    <3>1. n = Len(s) + 1
      BY <1>1, <2>2
    <3>. QED BY <1>1, <1>2, <3>1
  <2>. QED BY <2>1, <2>2
<1>5. Settled(u)
  BY <1>4 DEF Settled
<1>. QED BY <1>5 DEF u

LEMMA ClosingWriting ==
    ASSUME NEW p \in Path, NEW f \in File, NEW S \in SUBSET Path
    PROVE  Closing(<<Put(p, f), Add({p})>>) /\ Closing(<<Note(S), Put(p, f), Add({p})>>)
<1>1. Put(p, f) \in Steps /\ Put(p, f)[1] = "put" /\ Wrote(Put(p, f)) = {p} /\ {p} \in SUBSET Path
  BY PutIs DEF Wrote
<1>2. Note(S) \in Steps /\ Note(S)[1] = "note" /\ Wrote(Note(S)) = {}
  BY NoteIs DEF Wrote
<1>3. Wrote(Put(p, f)) \subseteq {p} /\ Wrote(Note(S)) \subseteq {p} /\ Put(p, f)[1] # "commit"
      /\ Note(S)[1] # "commit"
  BY <1>1, <1>2
<1>. QED BY <1>1, <1>2, <1>3, ClosingTwo, ClosingThree

\* What an operation sets out to do: to write what the index does not hold, in one path, or a file's own
\* article again.
PutsFit(kind, s) ==
    kind # "correct" =>
        \A x \in StepsOf(s) : x[1] = "put" =>
            \/ x[2] \in DOMAIN disk /\ disk[x[2]].art = x[3].art
            \/ /\ ~IsDeduped(x[3].art)
               /\ \A y \in StepsOf(s) : y[1] = "put" /\ y[3].art = x[3].art => y[2] = x[2]
Enters(c, kind, s) ==
    /\ s \in Seq(Steps)
    /\ MayEnter(c, kind) /\ Runs(c, kind, s)
    /\ Backed(disk, disk) => Sound({}, disk, {}, s)
    /\ Closing(s) /\ PutsFit(kind, s)

LEMMA NewIs == ASSUME NEW a \in Art, NEW S \in SUBSET Path
               PROVE  New(a, S) \in File /\ New(a, S).art = a /\ New(a, S).links = S
  BY DEF New, File

LEMMA WriteEnters == ASSUME NEW c \in Caller, WriteMemory(c) PROVE \E kind, s : Enters(c, kind, s)
<1>1. PICK i \in Input : LET p == FreePath(i, {}, None)
                         IN  /\ ~IsDeduped(i.art) /\ p # None
                             /\ Runs(c, "write", <<Note({p}), Put(p, New(i.art, {})), Add({p})>>)
  BY DEF WriteMemory
<1>. DEFINE p == FreePath(i, {}, None)
            f == New(i.art, {})
            s == <<Note({p}), Put(p, f), Add({p})>>
<1>2. p \in Path /\ p \notin DOMAIN disk /\ p # None
  BY <1>1, FreePathIs, PathIs DEF Live
<1>3. f \in File /\ f.art = i.art /\ f.links = {}
  BY NewIs DEF Input
<1>4. MayEnter(c, "write") /\ Runs(c, "write", s) /\ ~IsDeduped(f.art)
  BY <1>1, <1>3 DEF WriteMemory
<1>. HIDE DEF p, f
<1>5. Note({p}) \in Steps /\ Put(p, f) \in Steps /\ Add({p}) \in Steps
  BY <1>2, <1>3, NoteIs, PutIs, AddIs
<1>6. s \in Seq(Steps) /\ StepsOf(s) = {Note({p}), Put(p, f), Add({p})}
  BY <1>5, Tuples3
<1>7. Sound({}, disk, {}, s)
  <2>1. SoundStep({}, disk, {}, Note({p}))
    BY <1>2, NoteSound
  <2>2. SoundStep({}, disk, {} \cup {Note({p})}, Put(p, f))
    <3>1. Noticed({} \cup {Note({p})}, p) /\ Given(disk, {} \cup {Note({p})}, f.links)
      BY <1>2, <1>3, NoteIs DEF Noticed, Given
    <3>2. \A e \in {} \cup {Note({p})} : e[1] = "note"
      BY <1>2, NoteIs
    <3>. QED BY <1>2, <1>3, <3>1, <3>2, PutSound
  <2>3. SoundStep({}, disk, {} \cup {Note({p}), Put(p, f)}, Add({p}))
    <3>1. Noticed({} \cup {Note({p}), Put(p, f)}, p)
      BY <1>2, NoteIs DEF Noticed
    <3>. QED BY <1>2, <3>1, AddSound
  <2>. QED BY <1>5, <2>1, <2>2, <2>3, SoundThree
<1>10. Closing(s)
  <2>1. {p} \in SUBSET Path
    BY <1>2
  <2>. QED BY <1>2, <1>3, <2>1, ClosingWriting
<1>8. PutsFit("write", s)
  <2>1. \A x \in StepsOf(s) : x[1] = "put" => x = Put(p, f)
    BY <1>2, <1>6, NoteIs, AddIs
  <2>. QED BY <1>2, <1>3, <1>4, <2>1, PutIs DEF PutsFit
<1>. HIDE DEF s
<1>9. Enters(c, "write", s)
  BY <1>4, <1>6, <1>7, <1>8, <1>10 DEF Enters
<1>. QED BY <1>9

\* The three ways a plan is put together: an archive staged, a file written and staged, both.
LEMMA ArchiveIs ==
    ASSUME NEW p \in Live, NEW slot \in Path, NEW S \in SUBSET Path
    PROVE  /\ StageArchive(p, slot, S) \in Seq(Steps)
           /\ StepsOf(StageArchive(p, slot, S)) = {Move(p, slot), Stamp(slot, S), Add({slot})}
<1>. DEFINE m == Move(p, slot)
            t == Stamp(slot, S)
            a == Add({slot})
<1>1. m \in Steps /\ t \in Steps /\ a \in Steps
  BY MoveIs, StampIs, AddIs DEF Live
<1>. HIDE DEF m, t, a
<1>2. <<m, t, a>> \in Seq(Steps) /\ StepsOf(<<m, t, a>>) = {m, t, a}
  BY <1>1, Tuples3
<1>. QED BY <1>2 DEF StageArchive, m, t, a

LEMMA ArchiveSound ==
    ASSUME NEW J, NEW d, NEW E, NEW p \in Live, NEW slot \in Path, ~IsLive(slot), NEW S \in SUBSET Path,
           Noticed(E, p), Noticed(E, slot), Given(d, E, S)
    PROVE  Sound(J, d, E, StageArchive(p, slot, S))
<1>. DEFINE m == Move(p, slot)
            t == Stamp(slot, S)
            a == Add({slot})
<1>1. p \in Path /\ IsLive(p) /\ {slot} \in SUBSET Path
  BY DEF Live
<1>2. m \in Steps /\ t \in Steps /\ a \in Steps
  BY <1>1, MoveIs, StampIs, AddIs
<1>3. SoundStep(J, d, E, m)
  BY <1>1, MoveSound
<1>4. SoundStep(J, d, E \cup {m}, t)
  <2>1. Noticed(E \cup {m}, slot) /\ Given(d, E \cup {m}, S)
    BY DEF Noticed, Given
  <2>. QED BY <2>1, StampSound
<1>5. SoundStep(J, d, E \cup {m, t}, a)
  <2>1. \A q \in {slot} : Noticed(E \cup {m, t}, q)
    BY DEF Noticed
  <2>. QED BY <1>1, <2>1, AddSound
<1>. HIDE DEF m, t, a
<1>6. Sound(J, d, E, <<m, t, a>>)
  BY <1>2, <1>3, <1>4, <1>5, SoundThree
<1>. QED BY <1>6 DEF StageArchive, m, t, a

LEMMA WritingSound ==
    ASSUME NEW J, NEW d, NEW E, NEW p \in Path, NEW f \in File, Noticed(E, p), Given(d, E, f.links),
           \A e \in E : e[1] = "put" /\ e[2] = p => e[3].art = f.art,
           \A e \in E : e[1] = "move" => e[3] # p,
           p \in DOMAIN d /\ d[p].art # f.art => \E e \in E : e[1] = "move" /\ e[2] = p
    PROVE  /\ <<Put(p, f), Add({p})>> \in Seq(Steps)
           /\ StepsOf(<<Put(p, f), Add({p})>>) = {Put(p, f), Add({p})}
           /\ Sound(J, d, E, <<Put(p, f), Add({p})>>)
<1>. DEFINE x == Put(p, f)
            a == Add({p})
<1>1. x \in Steps /\ a \in Steps
  BY PutIs, AddIs
<1>2. SoundStep(J, d, E, x)
  BY PutSound
<1>3. SoundStep(J, d, E \cup {x}, a)
  <2>1. \A q \in {p} : Noticed(E \cup {x}, q)
    BY DEF Noticed
  <2>. QED BY <2>1, AddSound
<1>. HIDE DEF x, a
<1>4. Sound(J, d, E, <<x, a>>)
  BY <1>1, <1>2, <1>3, SoundTwo
<1>5. <<x, a>> \in Seq(Steps) /\ StepsOf(<<x, a>>) = {x, a}
  BY <1>1, Tuples2
<1>. QED BY <1>4, <1>5 DEF x, a

LEMMA ReplacingIs ==
    ASSUME NEW p \in Live, NEW slot \in Path, NEW q \in Path, NEW f \in File
    PROVE  /\ Replacing(p, slot, q, f) \in Seq(Steps)
           /\ StepsOf(Replacing(p, slot, q, f)) =
                {Note({p, slot, q}), Move(p, slot), Stamp(slot, {q}), Add({slot}), Put(q, f), Add({q})}
<1>. DEFINE N == {p, slot, q}
            S == {q}
            n == Note(N)
            s == StageArchive(p, slot, S)
            w == <<Put(q, f), Add({q})>>
<1>0. N \in SUBSET Path /\ S \in SUBSET Path
  BY DEF Live
<1>1. n \in Steps /\ Move(p, slot) \in Steps /\ Stamp(slot, S) \in Steps /\ Add({slot}) \in Steps
      /\ Put(q, f) \in Steps /\ Add({q}) \in Steps
  BY <1>0, NoteIs, MoveIs, StampIs, AddIs, PutIs DEF Live
<1>2. <<n>> \in Seq(Steps) /\ StepsOf(<<n>>) = {n}
  BY <1>1, Tuples1
<1>3. s \in Seq(Steps) /\ StepsOf(s) = {Move(p, slot), Stamp(slot, S), Add({slot})}
  BY <1>1, Tuples3 DEF StageArchive
<1>4. w \in Seq(Steps) /\ StepsOf(w) = {Put(q, f), Add({q})}
  BY <1>1, Tuples2
<1>. HIDE DEF n, s, w
<1>5. (<<n>> \o s) \in Seq(Steps) /\ StepsOf(<<n>> \o s) = StepsOf(<<n>>) \cup StepsOf(s)
  BY <1>2, <1>3, StepsOfIs
<1>6. ((<<n>> \o s) \o w) \in Seq(Steps) /\ StepsOf((<<n>> \o s) \o w) = StepsOf(<<n>> \o s) \cup StepsOf(w)
  BY <1>4, <1>5, StepsOfIs
<1>7. Replacing(p, slot, q, f) = (<<n>> \o s) \o w
  BY DEF Replacing, n, s, w
<1>8. StepsOf((<<n>> \o s) \o w) = {n} \cup {Move(p, slot), Stamp(slot, S), Add({slot})} \cup {Put(q, f), Add({q})}
  BY <1>2, <1>3, <1>4, <1>5, <1>6
<1>. QED BY <1>6, <1>7, <1>8 DEF n

LEMMA ReplacingSound ==
    ASSUME NEW d, NEW E \in SUBSET Steps, NEW p \in Live, NEW slot \in Path, ~IsLive(slot),
           NEW q \in Path, NEW f \in File, Given(d, E, {q}), Given(d, E \cup {Move(p, slot)}, f.links),
           \A e \in E : e[1] = "put" /\ e[2] = q => e[3].art = f.art,
           \A e \in E : e[1] = "move" => e[3] # q, q # slot,
           q \in DOMAIN d /\ d[q].art # f.art => q = p
    PROVE  Sound({}, d, E, Replacing(p, slot, q, f))
<1>. DEFINE N == {p, slot, q}
            S == {q}
            n == Note(N)
            m == Move(p, slot)
            s == StageArchive(p, slot, S)
            w == <<Put(q, f), Add({q})>>
            E1 == E \cup {n}
            E2 == E1 \cup {m, Stamp(slot, S), Add({slot})}
<1>0. N \in SUBSET Path /\ S \in SUBSET Path
  BY DEF Live
<1>1. n \in Steps /\ p \in Path /\ n[1] = "note" /\ n[2] = N /\ m[1] = "move" /\ m[2] = p /\ m[3] = slot
  BY <1>0, NoteIs, MoveIs DEF Live
<1>2. Noticed(E1, p) /\ Noticed(E1, slot) /\ Noticed(E2, q)
  BY <1>1 DEF Noticed
<1>3. Given(d, E1, S) /\ Given(d, E2, f.links)
  BY DEF Given
<1>4. \A e \in E2 \ E : e = m \/ e[1] \in {"note", "stamp", "add"}
  <2>1. Stamp(slot, S)[1] = "stamp" /\ Add({slot})[1] = "add"
    BY StampIs, AddIs
  <2>2. \A e \in E2 \ E : e \in {n, m, Stamp(slot, S), Add({slot})}
    OBVIOUS
  <2>. QED BY <1>1, <2>1, <2>2
<1>5. <<n>> \in Seq(Steps) /\ StepsOf(<<n>>) = {n} /\ Sound({}, d, E, <<n>>)
  <2>1. SoundStep({}, d, E, n)
    BY <1>0, NoteSound
  <2>. QED BY <1>1, <2>1, Tuples1, SoundOne
<1>6. /\ s \in Seq(Steps) /\ StepsOf(s) = {m, Stamp(slot, S), Add({slot})}
      /\ Sound({}, d, E1, s)
  <2>. HIDE DEF E1, S
  <2>1. s \in Seq(Steps) /\ StepsOf(s) = {m, Stamp(slot, S), Add({slot})}
    BY <1>0, ArchiveIs
  <2>2. Sound({}, d, E1, s)
    BY <1>0, <1>2, <1>3, ArchiveSound
  <2>. QED BY <2>1, <2>2
<1>7. w \in Seq(Steps) /\ Sound({}, d, E2, w)
  <2>1. \A e \in E2 : e[1] = "put" /\ e[2] = q => e[3].art = f.art
    BY <1>1, <1>4
  <2>2. \A e \in E2 : e[1] = "move" => e[3] # q
    BY <1>1, <1>4
  <2>3. q \in DOMAIN d /\ d[q].art # f.art => \E e \in E2 : e[1] = "move" /\ e[2] = q
    BY <1>1
  <2>. HIDE DEF E2
  <2>. QED BY <1>2, <1>3, <2>1, <2>2, <2>3, WritingSound
<1>. HIDE DEF n, s, w
<1>8. (<<n>> \o s) \in Seq(Steps) /\ Sound({}, d, E, <<n>> \o s)
      /\ StepsOf(<<n>> \o s) = {n} \cup StepsOf(s)
  BY <1>5, <1>6, SoundJoin, StepsOfIs
<1>9. E \cup StepsOf(<<n>> \o s) = E2
  BY <1>6, <1>8
<1>10. Sound({}, d, E, (<<n>> \o s) \o w)
  BY <1>7, <1>8, <1>9, SoundJoin
<1>. QED BY <1>10 DEF Replacing, n, s, w

LEMMA ClosingArchive ==
    ASSUME NEW p \in Live, NEW slot \in Path, NEW S \in SUBSET Path
    PROVE  Closing(StageArchive(p, slot, S))
<1>1. Move(p, slot) \in Steps /\ Stamp(slot, S) \in Steps /\ {slot} \in SUBSET Path
  BY MoveIs, StampIs DEF Live
<1>2. /\ Move(p, slot)[1] = "move" /\ Wrote(Move(p, slot)) = {slot}
      /\ Stamp(slot, S)[1] = "stamp" /\ Wrote(Stamp(slot, S)) = {slot}
  BY MoveIs, StampIs DEF Wrote, Live
<1>3. Closing(<<Move(p, slot), Stamp(slot, S), Add({slot})>>)
  BY <1>1, <1>2, ClosingThree
<1>. QED BY <1>3 DEF StageArchive

LEMMA ClosingReplacing ==
    ASSUME NEW p \in Live, NEW slot \in Path, NEW q \in Path, NEW f \in File
    PROVE  Closing(Replacing(p, slot, q, f))
<1>. DEFINE N == {p, slot, q}
            S == {q}
            n == Note(N)
            s == StageArchive(p, slot, S)
            w == <<Put(q, f), Add({q})>>
<1>0. N \in SUBSET Path /\ S \in SUBSET Path
  BY DEF Live
<1>1. <<n>> \in Seq(Steps) /\ Closing(<<n>>)
  BY <1>0, NoteIs, ClosingNote
<1>. HIDE DEF N
<1>2. s \in Seq(Steps) /\ Closing(s)
  <2>. HIDE DEF S
  <2>. QED BY <1>0, ArchiveIs, ClosingArchive
<1>3. w \in Seq(Steps) /\ Closing(w)
  <2>1. Put(q, f) \in Steps /\ Add({q}) \in Steps
    BY PutIs, AddIs
  <2>2. Closing(w)
    BY <1>0, ClosingWriting
  <2>. QED BY <2>1, <2>2
<1>. HIDE DEF n, s, w
<1>4. (<<n>> \o s) \in Seq(Steps) /\ Closing(<<n>> \o s)
  BY <1>1, <1>2, ClosingJoin, StepsOfIs
<1>5. Closing((<<n>> \o s) \o w)
  BY <1>3, <1>4, ClosingJoin
<1>. QED BY <1>5 DEF Replacing, n, s, w, N

Fits(acc) ==
    /\ acc \in [plan : Seq(Steps), claimed : SUBSET Live, arts : SUBSET Art, aborted : BOOLEAN]
    /\ Sound({}, disk, {}, acc.plan)
    /\ \A p \in acc.claimed : Noticed(StepsOf(acc.plan), p)
    /\ \A x \in StepsOf(acc.plan) :
         /\ x[1] \in {"note", "put"}
         /\ x[1] = "put" =>
              /\ x[2] \in acc.claimed /\ x[3].art \in acc.arts /\ ~IsDeduped(x[3].art)
              /\ \A y \in StepsOf(acc.plan) : y[1] = "put" /\ y[3].art = x[3].art => y[2] = x[2]

LEMMA NoneYetFits == Fits(NoneYet)
<1>1. <<>> \in Seq(Steps) /\ StepsOf(<<>>) = {} /\ Sound({}, disk, {}, <<>>)
  BY DEF StepsOf, Sound
<1>. QED BY <1>1 DEF Fits, NoneYet

LEMMA ValidatedFits ==
    ASSUME NEW acc, Fits(acc), NEW i \in Input, NEW continueOnError \in BOOLEAN
    PROVE  Fits(Validated(acc, i, continueOnError))
<1>. DEFINE p == FreePath(i, acc.claimed, None)
            f == New(i.art, {})
            E == StepsOf(acc.plan)
            w == <<Note({p}), Put(p, f)>>
            next == [acc EXCEPT !.plan = @ \o w, !.claimed = @ \cup {p}, !.arts = @ \cup {i.art}]
            held == i.art \in acc.arts \/ IsDeduped(i.art)
<1>1. i.art \in Art /\ f \in File /\ f.art = i.art /\ f.links = {}
  BY NewIs DEF Input
<1>2. CASE acc.aborted \/ held \/ p = None
  <2>1. \/ Validated(acc, i, continueOnError) = acc
        \/ Validated(acc, i, continueOnError) = [acc EXCEPT !.arts = @ \cup {i.art}]
        \/ Validated(acc, i, continueOnError) = [acc EXCEPT !.aborted = ~continueOnError]
    <3>. HIDE DEF p
    <3>. QED BY <1>2 DEF Validated, Fits, p
  <2>2. Fits([acc EXCEPT !.arts = @ \cup {i.art}]) /\ Fits([acc EXCEPT !.aborted = ~continueOnError])
    BY <1>1 DEF Fits
  <2>. QED BY <2>1, <2>2
<1>3. CASE ~(acc.aborted \/ held \/ p = None)
  <2>1. Validated(acc, i, continueOnError) = next
    <3>. HIDE DEF p
    <3>. QED BY <1>3 DEF Validated, Fits, p
  <2>2. p \in Live /\ p \in Path /\ p \notin acc.claimed /\ p \notin DOMAIN disk
    <3>1. p # None => p \in Live /\ p \notin acc.claimed /\ (p \in DOMAIN disk => p = None)
      BY FreePathIs
    <3>. QED BY <1>3, <3>1 DEF Live
  <2>. HIDE DEF p, f
  <2>3. Note({p}) \in Steps /\ Put(p, f) \in Steps
    BY <1>1, <2>2, NoteIs, PutIs
  <2>4. w \in Seq(Steps) /\ StepsOf(w) = {Note({p}), Put(p, f)}
    BY <2>3, Tuples2
  <2>5. Sound({}, disk, E, w)
    <3>1. SoundStep({}, disk, E, Note({p}))
      BY <2>2, NoteSound
    <3>2. SoundStep({}, disk, E \cup {Note({p})}, Put(p, f))
      <4>1. Noticed(E \cup {Note({p})}, p) /\ Given(disk, E \cup {Note({p})}, f.links)
        BY <1>1, <2>2, NoteIs DEF Noticed, Given
      <4>2. \A e \in E \cup {Note({p})} : e[1] # "move" /\ ~(e[1] = "put" /\ e[2] = p)
        BY <2>2, NoteIs DEF Fits
      <4>. QED BY <1>1, <2>2, <4>1, <4>2, PutSound
    <3>. QED BY <2>3, <3>1, <3>2, SoundTwo
  <2>. HIDE DEF w
  <2>6. /\ acc.plan \o w \in Seq(Steps) /\ Sound({}, disk, {}, acc.plan \o w)
        /\ StepsOf(acc.plan \o w) = E \cup {Note({p}), Put(p, f)}
    <3>1. {} \cup E = E
      OBVIOUS
    <3>2. acc.plan \in Seq(Steps) /\ Sound({}, disk, {}, acc.plan)
      BY DEF Fits
    <3>3. acc.plan \o w \in Seq(Steps) /\ StepsOf(acc.plan \o w) = E \cup StepsOf(w)
      BY <2>4, <3>2, StepsOfIs
    <3>4. Sound({}, disk, {}, acc.plan \o w)
      BY <2>4, <2>5, <3>1, <3>2, SoundJoin
    <3>. QED BY <2>4, <3>3, <3>4
  <2>7. /\ next.plan = acc.plan \o w /\ next.claimed = acc.claimed \cup {p}
        /\ next.arts = acc.arts \cup {i.art}
        /\ next \in [plan : Seq(Steps), claimed : SUBSET Live, arts : SUBSET Art, aborted : BOOLEAN]
    BY <1>1, <2>2, <2>6 DEF Fits
  <2>. HIDE DEF next
  <2>8. ASSUME NEW q \in next.claimed PROVE Noticed(StepsOf(next.plan), q)
    <3>1. StepsOf(next.plan) = E \cup {Note({p}), Put(p, f)} /\ q \in acc.claimed \cup {p}
      BY <2>6, <2>7, <2>8
    <3>2. CASE q \in acc.claimed
      <4>1. Noticed(E, q)
        BY <3>2 DEF Fits
      <4>. QED BY <3>1, <4>1 DEF Noticed
    <3>3. CASE q = p
      <4>1. Note({p})[1] = "note" /\ p \in Note({p})[2]
        BY <2>2, NoteIs
      <4>. QED BY <3>1, <3>3, <4>1 DEF Noticed
    <3>. QED BY <3>1, <3>2, <3>3
  <2>9. ASSUME NEW x \in StepsOf(next.plan)
        PROVE  /\ x[1] \in {"note", "put"}
               /\ x[1] = "put" =>
                    /\ x[2] \in next.claimed /\ x[3].art \in next.arts /\ ~IsDeduped(x[3].art)
                    /\ \A y \in StepsOf(next.plan) : y[1] = "put" /\ y[3].art = x[3].art => y[2] = x[2]
    <3>1. \A y \in StepsOf(next.plan) : y[1] = "put" => y \in E \/ y = Put(p, f)
      BY <2>2, <2>6, <2>7, NoteIs
    <3>2. \A y \in E : y[1] = "put" => y[3].art \in acc.arts
      BY DEF Fits
    <3>3. Put(p, f)[1] = "put" /\ Put(p, f)[2] = p /\ Put(p, f)[3] = f /\ f.art \notin acc.arts
          /\ ~IsDeduped(f.art) /\ Note({p})[1] = "note"
      BY <1>1, <1>3, <2>2, PutIs, NoteIs
    <3>. QED BY <1>1, <2>6, <2>7, <3>1, <3>2, <3>3 DEF Fits
  <2>10. Sound({}, disk, {}, next.plan)
    BY <2>6, <2>7
  <2>11. Fits(next)
    BY <2>7, <2>8, <2>9, <2>10 DEF Fits
  <2>. QED BY <2>1, <2>11
<1>. QED BY <1>2, <1>3

LEMMA BatchEnters == ASSUME NEW c \in Caller, WriteMemories(c) PROVE \E kind, s : Enters(c, kind, s)
<1>1. PICK i \in Input, j \in Input, continueOnError \in BOOLEAN :
          LET v == Validated(Validated(NoneYet, i, continueOnError), j, continueOnError)
          IN  ~v.aborted /\ v.plan # <<>> /\ Runs(c, "batch", v.plan \o <<Add(v.claimed)>>)
  BY DEF WriteMemories
<1>. DEFINE v == Validated(Validated(NoneYet, i, continueOnError), j, continueOnError)
            a == Add(v.claimed)
            s == v.plan \o <<a>>
<1>2. Fits(v)
  BY NoneYetFits, ValidatedFits
<1>3. MayEnter(c, "batch") /\ Runs(c, "batch", s)
  BY <1>1 DEF WriteMemories
<1>. HIDE DEF v
<1>4. v.claimed \in SUBSET Path /\ v.plan \in Seq(Steps)
  BY <1>2 DEF Fits, Live
<1>5. a \in Steps /\ a[1] = "add" /\ SoundStep({}, disk, StepsOf(v.plan), a)
  BY <1>2, <1>4, AddIs, AddSound DEF Fits
<1>. HIDE DEF a
<1>6. <<a>> \in Seq(Steps) /\ StepsOf(<<a>>) = {a} /\ Sound({}, disk, StepsOf(v.plan), <<a>>)
  BY <1>5, Tuples1, SoundOne
<1>7. s \in Seq(Steps) /\ StepsOf(s) = StepsOf(v.plan) \cup {a} /\ Sound({}, disk, {}, s)
  <2>1. {} \cup StepsOf(v.plan) = StepsOf(v.plan)
    OBVIOUS
  <2>. QED BY <1>2, <1>4, <1>6, <2>1, StepsOfIs, SoundJoin DEF Fits
<1>10. Closing(s)
  <2>1. \A x \in StepsOf(v.plan) : x[1] # "commit" /\ Wrote(x) \subseteq v.claimed
    BY <1>2 DEF Fits, Wrote
  <2>. QED BY <1>4, <2>1, ClosingWith DEF a
<1>8. PutsFit("batch", s)
  <2>1. \A x \in StepsOf(s) : x[1] = "put" => x \in StepsOf(v.plan)
    BY <1>5, <1>7
  <2>. QED BY <1>2, <1>7, <2>1 DEF PutsFit, Fits
<1>. HIDE DEF s
<1>9. Enters(c, "batch", s)
  BY <1>3, <1>7, <1>8, <1>10 DEF Enters
<1>. QED BY <1>9

LEMMA CorrectEnters == ASSUME NEW c \in Caller, CorrectMemory(c), disk \in Tree
                       PROVE  \E kind, s : Enters(c, kind, s)
<1>1. PICK i \in Input, target \in DOMAIN disk \cap Live :
          LET slot == ArchiveSlot(target, {})
              p == FreePath(i, {}, target)
          IN  /\ slot # None /\ p # None
              /\ Runs(c, "correct", Replacing(target, slot, p, New(i.art, {slot})))
  BY DEF CorrectMemory
<1>. DEFINE slot == ArchiveSlot(target, {})
            p == FreePath(i, {}, target)
            f == New(i.art, {slot})
            s == Replacing(target, slot, p, f)
<1>2. slot \in Path /\ ~IsLive(slot) /\ slot \notin DOMAIN disk
  BY <1>1, SlotIs
<1>3. p \in Live /\ (p \in DOMAIN disk => p = target)
  BY <1>1, FreePathIs
<1>4. f \in File /\ f.links = {slot}
  BY <1>2, NewIs DEF Input
<1>5. MayEnter(c, "correct") /\ Runs(c, "correct", s)
  BY <1>1 DEF CorrectMemory
<1>. HIDE DEF slot, p, f
<1>6. p \in Path /\ IsLive(p) /\ p # slot /\ target \in Live /\ target \in Path
  BY <1>2, <1>3 DEF Live
<1>7. Given(disk, {}, {p}) /\ Given(disk, {} \cup {Move(target, slot)}, f.links)
  BY <1>2, <1>4, <1>6, MoveIs DEF Given
<1>8. Sound({}, disk, {}, s)
  BY <1>2, <1>3, <1>4, <1>6, <1>7, ReplacingSound
<1>9. s \in Seq(Steps)
  BY <1>2, <1>4, <1>6, ReplacingIs
<1>10. PutsFit("correct", s)
  BY DEF PutsFit
<1>12. Closing(s)
  BY <1>2, <1>4, <1>6, ClosingReplacing
<1>. HIDE DEF s
<1>11. Enters(c, "correct", s)
  BY <1>5, <1>8, <1>9, <1>10, <1>12 DEF Enters
<1>. QED BY <1>11

LEMMA ArchiveEnters == ASSUME NEW c \in Caller, ArchiveMemory(c), disk \in Tree
                       PROVE  \E kind, s : Enters(c, kind, s)
<1>1. PICK p \in DOMAIN disk \cap Live :
          LET slot == ArchiveSlot(p, {})
          IN  slot # None /\ Runs(c, "archive", <<Note({p, slot})>> \o StageArchive(p, slot, {}))
  BY DEF ArchiveMemory
<1>. DEFINE slot == ArchiveSlot(p, {})
            n == Note({p, slot})
            w == StageArchive(p, slot, {})
            s == <<n>> \o w
<1>2. slot \in Path /\ ~IsLive(slot) /\ slot \notin DOMAIN disk
  BY <1>1, SlotIs
<1>3. MayEnter(c, "archive") /\ Runs(c, "archive", s)
  BY <1>1 DEF ArchiveMemory
<1>. HIDE DEF slot
<1>4. p \in Live /\ p \in Path /\ n \in Steps /\ n[1] = "note" /\ n[2] = {p, slot}
  BY <1>2, NoteIs DEF Live
<1>5. <<n>> \in Seq(Steps) /\ StepsOf(<<n>>) = {n} /\ Sound({}, disk, {}, <<n>>)
  <2>1. SoundStep({}, disk, {}, n)
    BY <1>2, <1>4, NoteSound
  <2>. QED BY <1>4, <2>1, Tuples1, SoundOne
<1>6. Noticed({n}, p) /\ Noticed({n}, slot) /\ Given(disk, {n}, {}) /\ {} \in SUBSET Path
  BY <1>4 DEF Noticed, Given
<1>. HIDE DEF n
<1>7. /\ w \in Seq(Steps) /\ Sound({}, disk, {n}, w)
      /\ StepsOf(w) = {Move(p, slot), Stamp(slot, {}), Add({slot})}
  <2>1. w \in Seq(Steps) /\ StepsOf(w) = {Move(p, slot), Stamp(slot, {}), Add({slot})}
    BY <1>2, <1>4, <1>6, ArchiveIs
  <2>2. Sound({}, disk, {n}, w)
    BY <1>2, <1>4, <1>6, ArchiveSound
  <2>. QED BY <2>1, <2>2
<1>. HIDE DEF w
<1>8. s \in Seq(Steps) /\ Sound({}, disk, {}, s) /\ StepsOf(s) = {n} \cup StepsOf(w)
  <2>1. {} \cup StepsOf(<<n>>) = {n}
    BY <1>5
  <2>. QED BY <1>5, <1>7, <2>1, SoundJoin, StepsOfIs
<1>11. Closing(s)
  <2>1. Closing(<<n>>)
    <3>1. {p, slot} \in SUBSET Path
      BY <1>2, <1>4
    <3>. QED BY <3>1, ClosingNote DEF n
  <2>2. Closing(w)
    BY <1>2, <1>4, <1>6, ClosingArchive DEF w
  <2>. QED BY <1>5, <1>7, <2>1, <2>2, ClosingJoin
<1>9. PutsFit("archive", s)
  <2>1. \A x \in StepsOf(s) : x[1] # "put"
    BY <1>2, <1>4, <1>7, <1>8, MoveIs, StampIs, AddIs
  <2>. QED BY <2>1 DEF PutsFit
<1>. HIDE DEF s
<1>10. Enters(c, "archive", s)
  BY <1>3, <1>8, <1>9, <1>11 DEF Enters
<1>. QED BY <1>10

LEMMA LinkEnters == ASSUME NEW c \in Caller, LinkMemories(c), disk \in Tree
                    PROVE  \E kind, s : Enters(c, kind, s)
<1>1. PICK src \in DOMAIN disk, dst \in DOMAIN disk :
          Runs(c, "link", <<Note({src}), Put(src, [disk[src] EXCEPT !.links = @ \cup {dst}]), Add({src})>>)
  BY DEF LinkMemories
<1>. DEFINE f == [disk[src] EXCEPT !.links = @ \cup {dst}]
            s == <<Note({src}), Put(src, f), Add({src})>>
<1>2. /\ src \in Path /\ dst \in Path /\ disk[src] \in File /\ {src} \in SUBSET Path
      /\ f \in File /\ f.art = disk[src].art /\ f.links = disk[src].links \cup {dst}
  BY TreeIs DEF IsTree, File
<1>3. MayEnter(c, "link") /\ Runs(c, "link", s)
  BY <1>1 DEF LinkMemories
<1>. HIDE DEF f
<1>4. Note({src}) \in Steps /\ Put(src, f) \in Steps /\ Add({src}) \in Steps
  BY <1>2, NoteIs, PutIs, AddIs
<1>5. s \in Seq(Steps) /\ StepsOf(s) = {Note({src}), Put(src, f), Add({src})}
  BY <1>4, Tuples3
<1>6. ASSUME Backed(disk, disk) PROVE Sound({}, disk, {}, s)
  <2>1. SoundStep({}, disk, {}, Note({src}))
    BY <1>2, NoteSound
  <2>2. SoundStep({}, disk, {} \cup {Note({src})}, Put(src, f))
    <3>1. Noticed({} \cup {Note({src})}, src)
      BY <1>2, NoteIs DEF Noticed
    <3>2. Given(disk, {} \cup {Note({src})}, f.links)
      <4>1. \A q \in disk[src].links : IsLive(q) \/ q \in DOMAIN disk
        BY <1>2, <1>6 DEF Backed, ArchiveLinks, Live, File
      <4>. QED BY <1>2, <4>1 DEF Given
    <3>3. \A e \in {} \cup {Note({src})} : e[1] = "note"
      BY <1>2, NoteIs
    <3>. QED BY <1>2, <3>1, <3>2, <3>3, PutSound
  <2>3. SoundStep({}, disk, {} \cup {Note({src}), Put(src, f)}, Add({src}))
    <3>1. Noticed({} \cup {Note({src}), Put(src, f)}, src)
      BY <1>2, NoteIs DEF Noticed
    <3>. QED BY <1>2, <3>1, AddSound
  <2>. QED BY <1>4, <2>1, <2>2, <2>3, SoundThree
<1>9. Closing(s)
  BY <1>2, ClosingWriting
<1>7. PutsFit("link", s)
  <2>1. \A x \in StepsOf(s) : x[1] = "put" => x = Put(src, f)
    BY <1>2, <1>5, NoteIs, AddIs
  <2>. QED BY <1>2, <2>1, PutIs DEF PutsFit
<1>. HIDE DEF s
<1>8. Enters(c, "link", s)
  BY <1>3, <1>5, <1>6, <1>7, <1>9 DEF Enters
<1>. QED BY <1>8

Linked(w, S) == [disk[w] EXCEPT !.links = @ \cup S]
Pair(w, p, slot, S) == Replacing(p, slot, w, Linked(w, S))

LEMMA LinkedIs == ASSUME NEW w \in DOMAIN disk, disk \in Tree, NEW S \in SUBSET Path
                  PROVE  /\ w \in Path /\ Linked(w, S) \in File /\ Linked(w, S).art = disk[w].art
                         /\ Linked(w, S).links = disk[w].links \cup S
  BY TreeIs DEF IsTree, File, Linked

LEMMA PairIs ==
    ASSUME NEW w \in DOMAIN disk, disk \in Tree, NEW p \in Live, NEW slot \in Path, NEW S \in SUBSET Path
    PROVE  /\ Pair(w, p, slot, S) \in Seq(Steps)
           /\ Move(p, slot) \in StepsOf(Pair(w, p, slot, S))
           /\ \A e \in StepsOf(Pair(w, p, slot, S)) :
                /\ e[1] = "put" => e[2] = w /\ e[3].art = disk[w].art
                /\ e[1] = "move" => e[3] = slot
<1>. DEFINE f == Linked(w, S)
            N == {p, slot, w}
<1>1. w \in Path /\ f \in File /\ f.art = disk[w].art /\ p \in Path
  BY LinkedIs DEF Live
<1>. HIDE DEF f
<1>2. N \in SUBSET Path /\ {w} \in SUBSET Path /\ {slot} \in SUBSET Path
  BY <1>1
<1>. HIDE DEF N
<1>3. /\ Replacing(p, slot, w, f) \in Seq(Steps)
      /\ StepsOf(Replacing(p, slot, w, f)) =
           {Note(N), Move(p, slot), Stamp(slot, {w}), Add({slot}), Put(w, f), Add({w})}
  BY <1>1, ReplacingIs DEF N
<1>4. /\ Note(N)[1] = "note" /\ Stamp(slot, {w})[1] = "stamp"
      /\ Add({slot})[1] = "add" /\ Add({w})[1] = "add"
      /\ Move(p, slot)[1] = "move" /\ Move(p, slot)[3] = slot
      /\ Put(w, f)[1] = "put" /\ Put(w, f)[2] = w /\ Put(w, f)[3] = f
  BY <1>1, <1>2, NoteIs, StampIs, AddIs, MoveIs, PutIs
<1>5. Pair(w, p, slot, S) = Replacing(p, slot, w, f)
  BY DEF Pair, f
<1>. QED BY <1>1, <1>3, <1>4, <1>5

LEMMA PairSound ==
    ASSUME NEW w \in DOMAIN disk, disk \in Tree, Backed(disk, disk), NEW E \in SUBSET Steps,
           NEW p \in Live, NEW slot \in Path, ~IsLive(slot), slot \notin DOMAIN disk,
           NEW S \in SUBSET Path,
           \A q \in S : q = slot \/ \E e \in E : e[1] = "move" /\ e[3] = q,
           \A e \in E : /\ e[1] = "put" => e[2] = w /\ e[3].art = disk[w].art
                        /\ e[1] = "move" => e[3] \notin DOMAIN disk
    PROVE  Sound({}, disk, E, Pair(w, p, slot, S))
<1>. DEFINE f == Linked(w, S)
<1>1. w \in Path /\ f \in File /\ f.art = disk[w].art /\ f.links = disk[w].links \cup S /\ p \in Path
  BY LinkedIs DEF Live
<1>. HIDE DEF f
<1>3. Given(disk, E, {w})
  BY DEF Given
<1>4. Given(disk, E \cup {Move(p, slot)}, f.links)
  <2>1. \A q \in disk[w].links : IsLive(q) \/ q \in DOMAIN disk
    BY TreeIs DEF IsTree, File, Backed, ArchiveLinks, Live
  <2>2. Move(p, slot)[1] = "move" /\ Move(p, slot)[3] = slot
    BY <1>1, MoveIs
  <2>. QED BY <1>1, <2>1, <2>2 DEF Given
<1>5. /\ \A e \in E : e[1] = "put" /\ e[2] = w => e[3].art = f.art
      /\ \A e \in E : e[1] = "move" => e[3] # w
      /\ w # slot
      /\ ~(w \in DOMAIN disk /\ disk[w].art # f.art)
  BY <1>1
<1>6. Sound({}, disk, E, Replacing(p, slot, w, f))
  BY <1>1, <1>3, <1>4, <1>5, ReplacingSound
<1>. QED BY <1>6 DEF Pair, f

LEMMA PairCloses ==
    ASSUME NEW w \in DOMAIN disk, disk \in Tree, NEW p \in Live, NEW slot \in Path, NEW S \in SUBSET Path
    PROVE  Closing(Pair(w, p, slot, S))
  BY LinkedIs, ClosingReplacing DEF Pair

LEMMA SupersedeIs ==
    ASSUME NEW c \in Caller, SupersedeMemories(c)
    PROVE  \E w \in DOMAIN disk, p, q \in DOMAIN disk \cap Live : \E a, b :
             /\ a = ArchiveSlot(p, {}) /\ a # None
             /\ \/ Runs(c, "supersede", Pair(w, p, a, {a}))
                \/ /\ b = ArchiveSlot(q, {a}) /\ b # None
                   /\ Runs(c, "supersede", Pair(w, p, a, {a}) \o Pair(w, q, b, {a, b}))
  BY DEF SupersedeMemories, Pair, Linked

LEMMA SupersedeEnters == ASSUME NEW c \in Caller, SupersedeMemories(c), disk \in Tree
                         PROVE  \E kind, s : Enters(c, kind, s)
<1>0. PICK w \in DOMAIN disk, p \in DOMAIN disk \cap Live, q \in DOMAIN disk \cap Live : \E a, b :
             /\ a = ArchiveSlot(p, {}) /\ a # None
             /\ \/ Runs(c, "supersede", Pair(w, p, a, {a}))
                \/ /\ b = ArchiveSlot(q, {a}) /\ b # None
                   /\ Runs(c, "supersede", Pair(w, p, a, {a}) \o Pair(w, q, b, {a, b}))
  BY SupersedeIs
<1>1. PICK a, b :
             /\ a = ArchiveSlot(p, {}) /\ a # None
             /\ \/ Runs(c, "supersede", Pair(w, p, a, {a}))
                \/ /\ b = ArchiveSlot(q, {a}) /\ b # None
                   /\ Runs(c, "supersede", Pair(w, p, a, {a}) \o Pair(w, q, b, {a, b}))
  BY <1>0
<1>2. MayEnter(c, "supersede") /\ p \in Live /\ q \in Live
  BY DEF SupersedeMemories
<1>3. a \in Path /\ ~IsLive(a) /\ a \notin DOMAIN disk
  BY <1>1, SlotIs
<1>. DEFINE s == Pair(w, p, a, {a})
<1>4. /\ s \in Seq(Steps) /\ Move(p, a) \in StepsOf(s)
      /\ \A e \in StepsOf(s) : /\ e[1] = "put" => e[2] = w /\ e[3].art = disk[w].art
                               /\ e[1] = "move" => e[3] = a
  <2>1. {a} \in SUBSET Path
    BY <1>3
  <2>. QED BY <1>2, <1>3, <2>1, PairIs
<1>8. Closing(s)
  <2>1. {a} \in SUBSET Path
    BY <1>3
  <2>. QED BY <1>2, <1>3, <2>1, PairCloses
<1>5. ASSUME Backed(disk, disk) PROVE Sound({}, disk, {}, s)
  <2>1. {a} \in SUBSET Path /\ {} \in SUBSET Steps
    BY <1>3
  <2>2. /\ \A r \in {a} : r = a \/ \E e \in {} : e[1] = "move" /\ e[3] = r
        /\ \A e \in {} : /\ e[1] = "put" => e[2] = w /\ e[3].art = disk[w].art
                         /\ e[1] = "move" => e[3] \notin DOMAIN disk
    OBVIOUS
  <2>. QED BY <1>2, <1>3, <1>5, <2>1, <2>2, PairSound
<1>. HIDE DEF s
<1>6. CASE Runs(c, "supersede", s)
  <2>1. PutsFit("supersede", s)
    BY <1>4 DEF PutsFit
  <2>2. Enters(c, "supersede", s)
    BY <1>2, <1>4, <1>5, <1>6, <1>8, <2>1 DEF Enters
  <2>. QED BY <2>2
<1>7. CASE b = ArchiveSlot(q, {a}) /\ b # None /\ Runs(c, "supersede", s \o Pair(w, q, b, {a, b}))
  <2>1. b \in Path /\ ~IsLive(b) /\ b \notin DOMAIN disk
    BY <1>7, SlotIs
  <2>. DEFINE t == Pair(w, q, b, {a, b})
  <2>2. {a, b} \in SUBSET Path /\ StepsOf(s) \in SUBSET Steps
    BY <1>3, <1>4, <2>1, StepsOfIs
  <2>3. /\ t \in Seq(Steps)
        /\ \A e \in StepsOf(t) : e[1] = "put" => e[2] = w /\ e[3].art = disk[w].art
    BY <1>2, <2>1, <2>2, PairIs
  <2>4. ASSUME Backed(disk, disk) PROVE Sound({}, disk, StepsOf(s), t)
    <3>1. Move(p, a)[1] = "move" /\ Move(p, a)[3] = a
      BY <1>2, <1>3, MoveIs DEF Live
    <3>2. \A r \in {a, b} : r = b \/ \E e \in StepsOf(s) : e[1] = "move" /\ e[3] = r
      BY <1>4, <3>1
    <3>3. \A e \in StepsOf(s) : /\ e[1] = "put" => e[2] = w /\ e[3].art = disk[w].art
                                /\ e[1] = "move" => e[3] \notin DOMAIN disk
      BY <1>3, <1>4
    <3>. QED BY <1>2, <2>1, <2>2, <2>4, <3>2, <3>3, PairSound
  <2>10. Closing(t)
    BY <1>2, <2>1, <2>2, PairCloses
  <2>. HIDE DEF t
  <2>11. Closing(s \o t)
    BY <1>4, <1>8, <2>3, <2>10, ClosingJoin
  <2>5. s \o t \in Seq(Steps) /\ StepsOf(s \o t) = StepsOf(s) \cup StepsOf(t)
    BY <1>4, <2>3, StepsOfIs
  <2>6. ASSUME Backed(disk, disk) PROVE Sound({}, disk, {}, s \o t)
    <3>1. {} \cup StepsOf(s) = StepsOf(s) /\ Sound({}, disk, {}, s) /\ Sound({}, disk, StepsOf(s), t)
      BY <1>5, <2>4, <2>6
    <3>. QED BY <1>4, <2>3, <3>1, SoundJoin
  <2>7. PutsFit("supersede", s \o t)
    BY <1>4, <2>3, <2>5 DEF PutsFit
  <2>8. Runs(c, "supersede", s \o t)
    BY <1>7 DEF t
  <2>9. Enters(c, "supersede", s \o t)
    BY <1>2, <2>5, <2>6, <2>7, <2>8, <2>11 DEF Enters
  <2>. QED BY <2>9
<1>. QED BY <1>1, <1>6, <1>7 DEF s

\* Whatever an operation decides to do, its plan is sound.
LEMMA OperationIs ==
    ASSUME NEW c \in Caller, Operation(c), disk \in Tree
    PROVE  Update(c) \/ Rebuild(c) \/ \E kind, s : Enters(c, kind, s)
  BY WriteEnters, BatchEnters, CorrectEnters, ArchiveEnters, SupersedeEnters, LinkEnters DEF Operation

-----------------------------------------------------------------------------
(***************************************************************************)
(* Entries and rows.                                                       *)
(***************************************************************************)
EntryRec == [gone : SUBSET Path, art : {<<>>} \cup {<<a>> : a \in Art}]
Entries == UNION {[S -> EntryRec] : S \in SUBSET Path}

LEMMA EntryIs == ASSUME NEW t \in Tree, NEW p \in Path, NEW sources \in SUBSET Path
                 PROVE  /\ Entry(p, t, sources) \in EntryRec
                        /\ p \in DOMAIN t => /\ Entry(p, t, sources).art = <<t[p].art>>
                                             /\ Entry(p, t, sources).gone = sources
                        /\ p \notin DOMAIN t => /\ Entry(p, t, sources).art = <<>>
                                                /\ Entry(p, t, sources).gone = sources \cup {p}
<1>1. p \in DOMAIN t => t[p].art \in Art
  BY TreeIs DEF IsTree, File
<1>. QED BY <1>1 DEF Entry, EntryRec

LEMMA RowsIs == ASSUME NEW r PROVE r \in Rows <=> DOMAIN r \subseteq Path /\ r \in [DOMAIN r -> Art]
  BY DEF Rows

LEMMA ArtOfIs == ASSUME NEW t \in Tree
                 PROVE  /\ ArtOf(t) \in Rows /\ DOMAIN ArtOf(t) = DOMAIN t
                        /\ \A p \in DOMAIN t : ArtOf(t)[p] = t[p].art
  BY TreeIs DEF ArtOf, Rows, IsTree, File

\* Two tables that read the same everywhere are the same.
LEMMA SameRows == ASSUME NEW r \in Rows, NEW s \in Rows, \A p \in Path : At(r, p) = At(s, p)
                  PROVE  r = s
<1>1. DOMAIN r \subseteq Path /\ r \in [DOMAIN r -> Art] /\ DOMAIN s \subseteq Path /\ s \in [DOMAIN s -> Art]
  BY RowsIs
<1>2. DOMAIN r = DOMAIN s
  BY <1>1, AtIs
<1>3. \A p \in DOMAIN r : r[p] = s[p]
  BY <1>1, <1>2, AtIs
<1>. QED BY <1>1, <1>2, <1>3

LEMMA EntriesAre == ASSUME NEW e \in Entries
                    PROVE  /\ DOMAIN e \subseteq Path
                           /\ \A p \in DOMAIN e : /\ e[p].gone \subseteq Path
                                                  /\ e[p].art = <<>> \/ \E a \in Art : e[p].art = <<a>>
  BY DEF Entries, EntryRec

LEMMA AfterIs ==
    ASSUME NEW r \in Rows, NEW e \in Entries, NEW S \in SUBSET DOMAIN e
    PROVE  /\ After(r, e, S) \in Rows
           /\ \A p : At(After(r, e, S), p) =
                       IF p \in Written(e, S) THEN e[p].art
                       ELSE IF p \in UNION {e[q].gone : q \in S} THEN <<>> ELSE At(r, p)
<1>. DEFINE gone == UNION {e[q].gone : q \in S}
            w == Written(e, S)
            u == After(r, e, S)
<1>1. DOMAIN r \subseteq Path /\ \A p \in DOMAIN r : r[p] \in Art
  BY RowsIs
<1>2. w \subseteq S /\ w \subseteq Path /\ \A p \in w : e[p].art[1] \in Art /\ e[p].art = <<e[p].art[1]>>
  BY EntriesAre DEF Written
<1>. HIDE DEF w, gone
<1>3. /\ DOMAIN u = (DOMAIN r \ gone) \cup w
      /\ \A p \in DOMAIN u : u[p] = IF p \in w THEN e[p].art[1] ELSE r[p]
  BY DEF After, w, gone
<1>4. u = [p \in (DOMAIN r \ gone) \cup w |-> IF p \in w THEN e[p].art[1] ELSE r[p]]
  BY DEF After, w, gone
<1>. HIDE DEF u
<1>5. u \in Rows
  <2>1. u \in [DOMAIN u -> Art]
    BY <1>1, <1>2, <1>3, <1>4
  <2>. QED BY <1>1, <1>2, <1>3, <2>1, RowsIs
<1>6. ASSUME NEW p PROVE At(u, p) = IF p \in w THEN e[p].art ELSE IF p \in gone THEN <<>> ELSE At(r, p)
  BY <1>2, <1>3 DEF At
<1>. QED BY <1>5, <1>6 DEF u, w, gone

LEMMA SourcesIs == ASSUME NEW old \in Tree, NEW new \in Tree, NEW p
                   PROVE  Sources(old, new, p) \in SUBSET Path
  BY TreeIs DEF Sources, IsTree

LEMMA DiffIs ==
    ASSUME NEW old \in Tree, NEW new \in Tree
    PROVE  /\ Diff(old, new) \in Entries
           /\ DOMAIN Diff(old, new) = Differ(old, new) \ Moved(old, new)
           /\ \A p \in DOMAIN Diff(old, new) : Diff(old, new)[p] = Entry(p, new, Sources(old, new, p))
<1>. DEFINE S == Differ(old, new) \ Moved(old, new)
<1>1. S \subseteq Path
  BY TreeIs DEF Differ, IsTree
<1>. DEFINE sources(p) == Sources(old, new, p)
<1>2. ASSUME NEW p \in S
      PROVE  Entry(p, new, sources(p)) \in EntryRec
  <2>1. p \in Path /\ sources(p) \in SUBSET Path
    BY <1>1, SourcesIs
  <2>. HIDE DEF S, sources
  <2>. QED BY <2>1, EntryIs
<1>. HIDE DEF S
<1>3. Diff(old, new) = [p \in S |-> Entry(p, new, Sources(old, new, p))]
  BY DEF Diff, S
<1>. QED BY <1>1, <1>2, <1>3 DEF Entries, S

LEMMA WholeIs ==
    ASSUME NEW t \in Tree, NEW S \in SUBSET Path
    PROVE  [p \in S |-> Entry(p, t, {})] \in Entries
<1>1. \A p \in S : Entry(p, t, {}) \in EntryRec
  BY EntryIs
<1>. QED BY <1>1 DEF Entries

-----------------------------------------------------------------------------
(***************************************************************************)
(* The types, with what a call's phase says of it.                         *)
(***************************************************************************)
Locked == {"running", "reset", "rewrite"}
CallRec == [phase : {"idle", "running", "reset", "rewrite", "reindex", "state", "status", "apply",
                     "truncate", "load", "mark"},
            steps : Seq(Steps), journal : Readings, head : Nat, base : Nat, dirty : Readings]

\* a call that is where r says, when it holds the lock or not and there are n commits
Proper(r, holds, n) ==
    /\ r \in CallRec
    /\ holds <=> r.phase \in Locked
    /\ r.phase = "running" => r.steps # <<>> /\ r.steps[Len(r.steps)] = Commit
    /\ r.phase \notin Locked => r.journal = <<>>
    /\ r.phase \in {"state", "status", "apply", "load", "mark"} => r.head \in 1..n
    /\ r.phase \in {"status", "apply"} => r.base \in 1..n

TreesOK ==
    /\ commits \in Seq(Tree) /\ commits # <<>> /\ staged \in Tree /\ disk \in Tree
    /\ lock # None => begun \in [tip : Tree, staged : Tree, disk : Tree]
IndexOK == rows \in Rows /\ mark \in 0..Len(commits) \cup {None}
TypeInv ==
    /\ TreesOK /\ IndexOK /\ lock \in Caller \cup {None}
    /\ call \in [Caller -> CallRec]
    /\ \A c \in Caller : Proper(call[c], lock = c, Len(commits))

LEMMA CommitsAre == ASSUME TreesOK
                    PROVE  /\ Len(commits) \in Nat \ {0} /\ DOMAIN commits = 1..Len(commits)
                           /\ Tip \in Tree /\ \A n \in 1..Len(commits) : commits[n] \in Tree
  BY DEF TreesOK, Tip

LEMMA IdleIs == ASSUME NEW n \in Nat
                PROVE  /\ Idle \in CallRec /\ Idle.phase = "idle" /\ Idle.journal = <<>>
                       /\ Proper(Idle, FALSE, n)
<1>1. Idle \in CallRec
  BY NoPaths DEF Idle, CallRec
<1>. QED BY <1>1 DEF Idle, Proper, Locked

LEMMA TypeStep ==
    ASSUME TypeInv, NEW c \in Caller, NEW r, call' = [call EXCEPT ![c] = r], TreesOK', IndexOK',
           Len(commits') >= Len(commits), lock' \in Caller \cup {None},
           \A d \in Caller \ {c} : lock' = d <=> lock = d,
           Proper(r, lock' = c, Len(commits'))
    PROVE  TypeInv'
<1>1. call' \in [Caller -> CallRec] /\ call'[c] = r /\ \A d \in Caller \ {c} : call'[d] = call[d]
  BY DEF TypeInv, Proper
<1>2. Len(commits) \in Nat /\ Len(commits') \in Nat
  BY DEF TypeInv, TreesOK
<1>3. ASSUME NEW d \in Caller PROVE Proper(call[d], lock = d, Len(commits))'
  <2>1. CASE d = c
    BY <1>1, <2>1
  <2>2. CASE d # c
    <3>1. Proper(call[d], lock = d, Len(commits)) /\ call'[d] = call[d] /\ (lock' = d <=> lock = d)
      BY <1>1, <2>2 DEF TypeInv
    <3>. QED BY <1>2, <3>1 DEF Proper
  <2>. QED BY <2>1, <2>2
<1>. QED BY <1>1, <1>3 DEF TypeInv

LEMMA CallerIs == ASSUME TypeInv, NEW c \in Caller
                  PROVE  /\ call[c] \in CallRec /\ Proper(call[c], lock = c, Len(commits))
                         /\ c # None /\ Len(commits) \in Nat \ {0}
                         /\ call[c].steps \in Seq(Steps) /\ call[c].journal \in Readings
                         /\ call[c].head \in Nat /\ call[c].base \in Nat /\ call[c].dirty \in Readings
  BY CommitsAre, SeedsAssumption DEF TypeInv, CallRec

\* The step a running caller is about to take.
LEMMA DoingIs ==
    ASSUME TypeInv, NEW c \in Caller, NEW do, Doing(c, do)
    PROVE  /\ call[c].phase = "running" /\ lock = c /\ call[c].steps # <<>>
           /\ call[c].steps[1] \in Steps /\ call[c].steps[1][1] = do
           /\ Tail(call[c].steps) \in Seq(Steps)
           /\ do # "commit" =>
                /\ Tail(call[c].steps) # <<>>
                /\ Tail(call[c].steps)[Len(Tail(call[c].steps))] = Commit
<1>. DEFINE s == call[c].steps
<1>1. /\ call[c].phase = "running" /\ lock = c /\ s # <<>> /\ s \in Seq(Steps)
      /\ s[Len(s)] = Commit /\ s[1][1] = do
  BY CallerIs DEF Doing, Proper, Locked
<1>. HIDE DEF s
<1>2. s[1] \in Steps /\ Tail(s) \in Seq(Steps)
  BY <1>1
<1>3. ASSUME do # "commit" PROVE Tail(s) # <<>> /\ Tail(s)[Len(Tail(s))] = Commit
  <2>1. Len(s) # 1
    BY <1>1, <1>3, CommitIs
  <2>2. /\ Len(s) \in Nat \ {0} /\ Len(Tail(s)) = Len(s) - 1
        /\ \A n \in 1..Len(Tail(s)) : Tail(s)[n] = s[n + 1]
    BY <1>1
  <2>3. Len(s) - 1 \in 1..Len(Tail(s)) /\ (Len(s) - 1) + 1 = Len(s)
    BY <2>1, <2>2
  <2>4. Tail(s)[Len(Tail(s))] = Commit
    BY <1>1, <2>2, <2>3
  <2>5. Len(Tail(s)) # 0 /\ Len(<<>>) = 0
    BY <2>2, <2>3
  <2>6. Tail(s) # <<>>
    BY <2>5
  <2>. QED BY <2>4, <2>6
<1>. QED BY <1>1, <1>2, <1>3 DEF s

\* A running caller goes on to its next step.
LEMMA TypeDoing ==
    ASSUME TypeInv, NEW c \in Caller, NEW do, Doing(c, do), do # "commit", NEW j \in Readings,
           call' = [call EXCEPT ![c].steps = Tail(@), ![c].journal = j],
           TreesOK', Frame, commits' = commits
    PROVE  TypeInv'
<1>. DEFINE r == [call[c] EXCEPT !.steps = Tail(@), !.journal = j]
<1>1. /\ call[c].phase = "running" /\ lock = c /\ Tail(call[c].steps) \in Seq(Steps)
      /\ Tail(call[c].steps) # <<>> /\ Tail(call[c].steps)[Len(Tail(call[c].steps))] = Commit
  BY DoingIs
<1>2. call[c] \in CallRec
  BY CallerIs
<1>3. /\ r \in CallRec /\ r.phase = "running" /\ r.steps = Tail(call[c].steps)
  BY <1>1, <1>2 DEF CallRec
<1>4. call' = [call EXCEPT ![c] = r]
  BY DEF TypeInv
<1>. HIDE DEF r
<1>5. Proper(r, lock' = c, Len(commits'))
  BY <1>1, <1>3 DEF Proper, Locked, Frame
<1>6. IndexOK' /\ lock' = lock /\ Len(commits') >= Len(commits) /\ lock' \in Caller \cup {None}
  BY CallerIs DEF TypeInv, IndexOK, Frame, index
<1>. QED BY <1>4, <1>5, <1>6, TypeStep

LEMMA SteppedIs ==
    ASSUME TypeInv, NEW c \in Caller, Stepped(c)
    PROVE  /\ call' = [call EXCEPT ![c].steps = Tail(@), ![c].journal = call[c].journal]
           /\ call'[c] = [call[c] EXCEPT !.steps = Tail(@)]
           /\ \A d \in Caller \ {c} : call'[d] = call[d]
<1>1. call \in [Caller -> CallRec]
  BY DEF TypeInv
<1>2. [call[c] EXCEPT !.steps = Tail(@), !.journal = call[c].journal] = [call[c] EXCEPT !.steps = Tail(@)]
  BY <1>1 DEF CallRec
<1>. QED BY <1>1, <1>2 DEF Stepped

Noted(j, t, S) ==
    LET fresh == S \ DOMAIN j
    IN  [p \in DOMAIN j \cup fresh |-> IF p \in fresh THEN At(t, p) ELSE j[p]]

LEMMA NotedIs ==
    ASSUME NEW j \in Readings, NEW t \in Tree, NEW S \in SUBSET Path
    PROVE  /\ Noted(j, t, S) \in Readings /\ DOMAIN Noted(j, t, S) = DOMAIN j \cup S
           /\ \A p \in DOMAIN j : Noted(j, t, S)[p] = j[p]
           /\ \A p \in S \ DOMAIN j : Noted(j, t, S)[p] = At(t, p)
<1>. DEFINE V == {<<>>} \cup {<<f>> : f \in File}
            u == Noted(j, t, S)
<1>1. DOMAIN j \subseteq Path /\ \A p \in DOMAIN j : j[p] \in V
  BY DEF Readings
<1>2. \A p : At(t, p) \in V
  BY TreeIs DEF IsTree, At
<1>. HIDE DEF V
<1>3. u \in [DOMAIN j \cup S -> V]
  BY <1>1, <1>2 DEF Noted
<1>. QED BY <1>1, <1>3 DEF Readings, Noted, V

LEMMA NoteStepIs ==
    ASSUME TypeInv, NEW c \in Caller, NoteStep(c)
    PROVE  /\ call[c].steps[1] \in Steps /\ call[c].steps[1][1] = "note"
           /\ call[c].steps[1][2] \in SUBSET Path
           /\ call' = [call EXCEPT ![c].steps = Tail(@),
                                   ![c].journal = Noted(call[c].journal, disk, call[c].steps[1][2])]
           /\ call'[c] = [call[c] EXCEPT !.steps = Tail(@),
                              !.journal = Noted(call[c].journal, disk, call[c].steps[1][2])]
           /\ \A d \in Caller \ {c} : call'[d] = call[d]
<1>1. Doing(c, "note")
  BY DEF NoteStep
<1>2. call[c].steps[1] \in Steps /\ call[c].steps[1][1] = "note"
  BY <1>1, DoingIs
<1>3. call[c].steps[1][2] \in SUBSET Path
  BY <1>2, StepIs
<1>4. call' = [call EXCEPT ![c].steps = Tail(@),
                           ![c].journal = Noted(call[c].journal, disk, call[c].steps[1][2])]
  BY DEF NoteStep, Noted
<1>5. c \in DOMAIN call /\ DOMAIN call = Caller
  BY DEF TypeInv
<1>. QED BY <1>2, <1>3, <1>4, <1>5

LEMMA StampedIs == ASSUME NEW t \in Tree, NEW p, NEW S \in SUBSET Path
                   PROVE  /\ [t EXCEPT ![p].links = @ \cup S] \in Tree
                          /\ DOMAIN [t EXCEPT ![p].links = @ \cup S] = DOMAIN t
                          /\ \A q \in DOMAIN t : q # p => [t EXCEPT ![p].links = @ \cup S][q] = t[q]
                          /\ p \in DOMAIN t =>
                               /\ [t EXCEPT ![p].links = @ \cup S][p].art = t[p].art
                               /\ [t EXCEPT ![p].links = @ \cup S][p].links = t[p].links \cup S
<1>. DEFINE u == [t EXCEPT ![p].links = @ \cup S]
<1>1. IsTree(t)
  BY TreeIs
<1>2. DOMAIN u = DOMAIN t /\ \A q \in DOMAIN t : q # p => u[q] = t[q]
  OBVIOUS
<1>3. ASSUME p \in DOMAIN t
      PROVE  u[p] \in File /\ u[p].art = t[p].art /\ u[p].links = t[p].links \cup S
  <2>1. t[p] \in File /\ u[p] = [t[p] EXCEPT !.links = @ \cup S]
    BY <1>1, <1>3 DEF IsTree
  <2>. HIDE DEF u
  <2>. QED BY <2>1 DEF File
<1>4. u = [q \in DOMAIN t |-> u[q]]
  OBVIOUS
<1>. HIDE DEF u
<1>5. \A q \in DOMAIN t : u[q] \in File
  BY <1>1, <1>2, <1>3 DEF IsTree
<1>6. IsTree(u)
  BY <1>1, <1>2, <1>4, <1>5 DEF IsTree
<1>. QED BY <1>2, <1>3, <1>6, TreeIs DEF u

\* The trees after a step.
LEMMA PutStepIs ==
    ASSUME TypeInv, NEW c \in Caller, PutStep(c)
    PROVE  \E p \in Path, f \in File :
             /\ call[c].steps[1] = Put(p, f) /\ disk' = Holding(disk, p, f) /\ disk' \in Tree
<1>1. Doing(c, "put") /\ disk' = Holding(disk, call[c].steps[1][2], call[c].steps[1][3])
  BY DEF PutStep
<1>2. call[c].steps[1] \in Steps /\ call[c].steps[1][1] = "put"
  BY <1>1, DoingIs
<1>3. PICK p \in Path, f \in File : call[c].steps[1] = Put(p, f)
  BY <1>2 DEF Steps, Put, Commit
<1>4. disk' = Holding(disk, p, f)
  BY <1>1, <1>3, PutIs
<1>. QED BY <1>3, <1>4, HoldingIs DEF TypeInv, TreesOK

LEMMA StampStepIs ==
    ASSUME TypeInv, NEW c \in Caller, StampStep(c)
    PROVE  \E p \in Path, S \in SUBSET Path :
             /\ call[c].steps[1] = Stamp(p, S) /\ disk' = [disk EXCEPT ![p].links = @ \cup S]
             /\ disk' \in Tree
<1>1. /\ Doing(c, "stamp")
      /\ disk' = [disk EXCEPT ![call[c].steps[1][2]].links = @ \cup call[c].steps[1][3]]
  BY DEF StampStep
<1>2. call[c].steps[1] \in Steps /\ call[c].steps[1][1] = "stamp"
  BY <1>1, DoingIs
<1>3. PICK p \in Path, S \in SUBSET Path : call[c].steps[1] = Stamp(p, S)
  BY <1>2 DEF Steps, Stamp, Commit
<1>4. disk' = [disk EXCEPT ![p].links = @ \cup S]
  <2>1. call[c].steps[1][2] = p /\ call[c].steps[1][3] = S
    BY <1>3, StampIs
  <2>. QED BY <1>1, <2>1, Zenon
<1>. QED BY <1>3, <1>4, StampedIs DEF TypeInv, TreesOK

LEMMA MoveStepIs ==
    ASSUME TypeInv, NEW c \in Caller, MoveStep(c)
    PROVE  \E p, q \in Path :
             /\ call[c].steps[1] = Move(p, q) /\ p \in DOMAIN staged /\ p \in DOMAIN disk /\ q \notin DOMAIN disk
             /\ disk[p] \in File /\ staged[p] \in File
             /\ disk' = Holding(Without(disk, {p}), q, disk[p]) /\ disk' \in Tree
             /\ staged' = Holding(Without(staged, {p}), q, staged[p]) /\ staged' \in Tree
<1>1. Doing(c, "move")
  BY DEF MoveStep
<1>2. call[c].steps[1] \in Steps /\ call[c].steps[1][1] = "move"
  BY <1>1, DoingIs
<1>3. PICK p \in Path, q \in Path : call[c].steps[1] = Move(p, q)
  BY <1>2 DEF Steps, Move, Commit
<1>4. /\ p \in DOMAIN staged /\ p \in DOMAIN disk /\ q \notin DOMAIN disk
      /\ disk' = Holding(Without(disk, {p}), q, disk[p])
      /\ staged' = Holding(Without(staged, {p}), q, staged[p])
  <2>1. call[c].steps[1][2] = p /\ call[c].steps[1][3] = q
    BY <1>3, MoveIs
  <2>. QED BY <2>1 DEF MoveStep, CanMove
<1>5. disk \in Tree /\ staged \in Tree /\ disk[p] \in File /\ staged[p] \in File
  BY <1>4, TreeIs DEF TypeInv, TreesOK, IsTree
<1>6. Without(disk, {p}) \in Tree /\ Without(staged, {p}) \in Tree
  BY <1>5, WithoutIs
<1>7. disk' \in Tree /\ staged' \in Tree
  BY <1>4, <1>5, <1>6, HoldingIs
<1>. QED BY <1>3, <1>4, <1>5, <1>7

LEMMA AddStepIs ==
    ASSUME TypeInv, NEW c \in Caller, AddStep(c)
    PROVE  \E S \in SUBSET Path :
             /\ call[c].steps[1] = Add(S) /\ staged' \in Tree
             /\ \A p : At(staged', p) = IF p \in S THEN At(disk, p) ELSE At(staged, p)
<1>1. Doing(c, "add") /\ staged' = PutBack(staged, Reading(disk, call[c].steps[1][2]))
  BY DEF AddStep
<1>2. call[c].steps[1] \in Steps /\ call[c].steps[1][1] = "add"
  BY <1>1, DoingIs
<1>3. PICK S \in SUBSET Path : call[c].steps[1] = Add(S)
  BY <1>2 DEF Steps, Add, Commit
<1>4. staged' = PutBack(staged, Reading(disk, S))
  BY <1>1, <1>3, AddIs
<1>5. disk \in Tree /\ staged \in Tree
  BY DEF TypeInv, TreesOK
<1>6. Reading(disk, S) \in Readings /\ DOMAIN Reading(disk, S) = S /\ \A p \in S : Reading(disk, S)[p] = At(disk, p)
  BY <1>5, ReadingIs
<1>7. staged' \in Tree /\ \A p : At(staged', p) = IF p \in S THEN At(disk, p) ELSE At(staged, p)
  BY <1>4, <1>5, <1>6, PutBackIs
<1>. QED BY <1>3, <1>7

\* The five steps of a plan that are not its commit.
LEMMA TypeSteps ==
    ASSUME TypeInv, NEW c \in Caller,
           NoteStep(c) \/ PutStep(c) \/ StampStep(c) \/ MoveStep(c) \/ AddStep(c)
    PROVE  TypeInv'
<1>1. \/ Doing(c, "note") \/ Doing(c, "put") \/ Doing(c, "stamp") \/ Doing(c, "move") \/ Doing(c, "add")
  BY DEF NoteStep, PutStep, StampStep, MoveStep, AddStep
<1>2. PICK do \in {"note", "put", "stamp", "move", "add"} : Doing(c, do)
  BY <1>1
<1>3. PICK j \in Readings : call' = [call EXCEPT ![c].steps = Tail(@), ![c].journal = j]
  <2>1. call[c].journal \in Readings /\ disk \in Tree
    BY CallerIs DEF TypeInv, TreesOK
  <2>2. CASE NoteStep(c)
    BY <2>1, <2>2, NoteStepIs, NotedIs
  <2>3. CASE Stepped(c)
    BY <2>1, <2>3, SteppedIs
  <2>. QED BY <2>2, <2>3 DEF PutStep, StampStep, MoveStep, AddStep
<1>4. Frame /\ commits' = commits /\ disk' \in Tree /\ staged' \in Tree
  <2>1. disk \in Tree /\ staged \in Tree
    BY DEF TypeInv, TreesOK
  <2>2. CASE NoteStep(c)
    BY <2>1, <2>2 DEF NoteStep, tree
  <2>3. CASE PutStep(c)
    BY <2>1, <2>3, PutStepIs DEF PutStep
  <2>4. CASE StampStep(c)
    BY <2>1, <2>4, StampStepIs DEF StampStep
  <2>5. CASE MoveStep(c)
    BY <2>5, MoveStepIs DEF MoveStep
  <2>6. CASE AddStep(c)
    BY <2>1, <2>6, AddStepIs DEF AddStep
  <2>. QED BY <2>2, <2>3, <2>4, <2>5, <2>6
<1>5. TreesOK'
  BY <1>4 DEF TypeInv, TreesOK, Frame
<1>. QED BY <1>2, <1>3, <1>4, <1>5, TypeDoing

LEMMA AppendedIs ==
    ASSUME NEW t \in Tree, commits \in Seq(Tree), commits # <<>>, commits' = Append(commits, t)
    PROVE  /\ commits' \in Seq(Tree) /\ commits' # <<>> /\ Tip' = t
           /\ Len(commits') = Len(commits) + 1 /\ Len(commits) \in Nat
           /\ \A n \in 1..Len(commits) : commits'[n] = commits[n]
           /\ commits'[Len(commits')] = t
  BY DEF Tip

LEMMA LandedIs ==
    ASSUME TypeInv, Landed
    PROVE  /\ commits' \in Seq(Tree) /\ commits' # <<>> /\ Tip' = staged
           /\ Len(commits') >= Len(commits)
           /\ \A n \in 1..Len(commits) : commits'[n] = commits[n]
           /\ \A n \in 1..Len(commits') : n \in 1..Len(commits) \/ (n = Len(commits') /\ commits'[n] = staged)
<1>1. commits \in Seq(Tree) /\ commits # <<>> /\ staged \in Tree
  BY DEF TypeInv, TreesOK
<1>2. CASE staged = Tip
  <2>1. commits' = commits /\ Len(commits) \in Nat
    BY <1>1, <1>2 DEF Landed
  <2>. QED BY <1>1, <1>2, <2>1 DEF Tip
<1>3. CASE staged # Tip
  <2>1. commits' = Append(commits, staged)
    BY <1>3 DEF Landed
  <2>. QED BY <1>1, <2>1, AppendedIs
<1>. QED BY <1>2, <1>3

LEMMA IndexStays == ASSUME TypeInv, UNCHANGED index, Len(commits') >= Len(commits), Len(commits') \in Nat
                    PROVE  IndexOK'
<1>1. rows' = rows /\ mark' = mark /\ Len(commits) \in Nat
  BY CommitsAre DEF index, TypeInv
<1>. QED BY <1>1 DEF TypeInv, IndexOK

LEMMA TreesStay == ASSUME TypeInv, UNCHANGED tree, lock' = lock, begun' = begun
                   PROVE  TreesOK' /\ Len(commits') = Len(commits) /\ Len(commits') \in Nat
<1>1. commits' = commits /\ staged' = staged /\ disk' = disk
  BY DEF tree
<1>. QED BY <1>1, CommitsAre DEF TypeInv, TreesOK

\* A call that ends: its caller is idle, and the lock is not its any more.
LEMMA TypeEnds ==
    ASSUME TypeInv, NEW c \in Caller, Ended(c), TreesOK', IndexOK', Len(commits') >= Len(commits),
           lock' = (IF lock = c THEN None ELSE lock)
    PROVE  TypeInv'
<1>1. call' = [call EXCEPT ![c] = Idle] /\ Len(commits') \in Nat
  BY DEF Ended, TreesOK
<1>2. lock' # c /\ lock' \in Caller \cup {None} /\ \A d \in Caller \ {c} : lock' = d <=> lock = d
  BY CallerIs DEF TypeInv
<1>3. Proper(Idle, lock' = c, Len(commits'))
  BY <1>1, <1>2, IdleIs DEF Proper
<1>. QED BY <1>1, <1>2, <1>3, TypeStep

LEMMA TypeCommit ==
    ASSUME TypeInv, NEW c \in Caller, CommitStep(c) PROVE TypeInv'
<1>. DEFINE r == [Idle EXCEPT !.phase = "reindex"]
<1>1. Doing(c, "commit") /\ Landed /\ lock' = None /\ call' = [call EXCEPT ![c] = r]
      /\ staged' = staged /\ disk' = disk /\ UNCHANGED index
  BY DEF CommitStep
<1>2. lock = c
  BY <1>1, DoingIs
<1>3. commits' \in Seq(Tree) /\ commits' # <<>> /\ Len(commits') >= Len(commits) /\ Len(commits') \in Nat
  BY <1>1, LandedIs
<1>4. TreesOK' /\ IndexOK'
  BY <1>1, <1>3, IndexStays DEF TypeInv, TreesOK
<1>5. r \in CallRec /\ r.phase = "reindex" /\ r.journal = <<>>
  <2>1. Idle \in CallRec /\ Idle.journal = <<>>
    BY CommitsAre, IdleIs DEF TypeInv
  <2>. QED BY <2>1 DEF CallRec
<1>. HIDE DEF r
<1>6. Proper(r, lock' = c, Len(commits')) /\ \A d \in Caller \ {c} : lock' = d <=> lock = d
  BY <1>1, <1>2, <1>5, CallerIs DEF Proper, Locked
<1>. QED BY <1>1, <1>3, <1>4, <1>6, TypeStep

\* A step of a call that holds the lock and keeps it, into its compensation.
LEMMA TypeFails ==
    ASSUME TypeInv, NEW c \in Caller, lock = c, lock' = lock, NEW ph \in {"reset", "rewrite"},
           call' = [call EXCEPT ![c].phase = ph], TreesOK', UNCHANGED index,
           Len(commits') >= Len(commits)
    PROVE  TypeInv'
<1>. DEFINE r == [call[c] EXCEPT !.phase = ph]
<1>1. call[c] \in CallRec /\ lock' \in Caller \cup {None} /\ Len(commits') \in Nat
  BY CallerIs DEF TypeInv, TreesOK
<1>2. r \in CallRec /\ r.phase = ph
  BY <1>1 DEF CallRec
<1>3. call' = [call EXCEPT ![c] = r]
  BY DEF TypeInv
<1>. HIDE DEF r
<1>4. Proper(r, lock' = c, Len(commits')) /\ IndexOK'
  BY <1>1, <1>2, IndexStays DEF Proper, Locked
<1>. QED BY <1>1, <1>3, <1>4, TypeStep

LEMMA PhaseLocked == ASSUME TypeInv, NEW c \in Caller
                     PROVE  lock = c <=> call[c].phase \in Locked
  BY CallerIs DEF Proper

LEMMA TypeStepFails ==
    ASSUME TypeInv, NEW c \in Caller, StepFails(c) \/ LateFailure(c)
    PROVE  TypeInv'
<1>1. lock = c /\ lock' = lock /\ call' = [call EXCEPT ![c].phase = "reset"] /\ UNCHANGED index
  BY PhaseLocked DEF StepFails, LateFailure, Frame, Locked, Doing
<1>2. TreesOK' /\ Len(commits') >= Len(commits)
  <2>1. CASE StepFails(c)
    <3>1. TreesOK' /\ Len(commits') = Len(commits) /\ Len(commits') \in Nat
      BY <2>1, TreesStay DEF StepFails, Frame
    <3>. QED BY <3>1
  <2>2. CASE LateFailure(c)
    <3>1. commits' \in Seq(Tree) /\ commits' # <<>> /\ Len(commits') >= Len(commits)
      BY <2>2, LandedIs DEF LateFailure
    <3>. QED BY <1>1, <2>2, <3>1 DEF LateFailure, TypeInv, TreesOK
  <2>. QED BY <2>1, <2>2
<1>. QED BY <1>1, <1>2, TypeFails

LEMMA ResetIs ==
    ASSUME TypeInv, NEW c \in Caller, Reset(c)
    PROVE  /\ staged' \in Tree
           /\ \A p : At(staged', p) = IF p \in Journal(c) THEN At(Tip, p) ELSE At(staged, p)
<1>1. call[c].journal \in Readings /\ Tip \in Tree /\ staged \in Tree
  BY CallerIs, CommitsAre DEF TypeInv, TreesOK
<1>2. Journal(c) \in SUBSET Path
  BY <1>1 DEF Journal, Readings
<1>3. staged' = PutBack(staged, Reading(Tip, Journal(c)))
  BY DEF Reset, Journal
<1>4. /\ Reading(Tip, Journal(c)) \in Readings /\ DOMAIN Reading(Tip, Journal(c)) = Journal(c)
      /\ \A p \in Journal(c) : Reading(Tip, Journal(c))[p] = At(Tip, p)
  BY <1>1, <1>2, ReadingIs
<1>. QED BY <1>1, <1>3, <1>4, PutBackIs

LEMMA TypeReset ==
    ASSUME TypeInv, NEW c \in Caller, Reset(c) PROVE TypeInv'
<1>1. lock = c /\ lock' = lock /\ call' = [call EXCEPT ![c].phase = "rewrite"] /\ UNCHANGED index
  BY PhaseLocked DEF Reset, Frame, Locked
<1>2. TreesOK' /\ Len(commits') >= Len(commits)
  <2>1. staged' \in Tree /\ commits' = commits /\ disk' = disk /\ lock' = lock /\ begun' = begun
    BY ResetIs DEF Reset, Frame
  <2>2. Len(commits) \in Nat
    BY CommitsAre DEF TypeInv
  <2>. QED BY <2>1, <2>2 DEF TypeInv, TreesOK
<1>. QED BY <1>1, <1>2, TypeFails

LEMMA RewriteIs ==
    ASSUME TypeInv, NEW c \in Caller, Rewrite(c)
    PROVE  /\ lock = c /\ disk' \in Tree
           /\ \A p : At(disk', p) = IF p \in Journal(c) THEN call[c].journal[p] ELSE At(disk, p)
<1>1. call[c].journal \in Readings /\ disk \in Tree /\ lock = c
  BY CallerIs, PhaseLocked DEF TypeInv, TreesOK, Rewrite, Locked
<1>. QED BY <1>1, PutBackIs DEF Rewrite, Journal

LEMMA TypeRewrite ==
    ASSUME TypeInv, NEW c \in Caller, Rewrite(c) \/ RestoreFails(c) PROVE TypeInv'
<1>1. lock = c /\ lock' = None /\ Ended(c) /\ UNCHANGED index /\ commits' = commits /\ staged' = staged
  BY PhaseLocked DEF Rewrite, RestoreFails, Locked, tree
<1>2. disk' \in Tree
  BY RewriteIs DEF RestoreFails, tree, TypeInv, TreesOK
<1>3. TreesOK' /\ Len(commits') >= Len(commits) /\ Len(commits') \in Nat
  BY <1>1, <1>2, CommitsAre DEF TypeInv, TreesOK
<1>4. IndexOK'
  BY <1>1, <1>3, IndexStays
<1>. QED BY <1>1, <1>3, <1>4, TypeEnds

LEMMA TypeKilled ==
    ASSUME TypeInv, NEW c \in Caller, Killed(c) PROVE TypeInv'
<1>1. /\ Ended(c) /\ lock' = (IF lock = c THEN None ELSE lock) /\ UNCHANGED index
      /\ commits' = commits /\ staged' = staged /\ disk' = disk
      /\ begun' = (IF lock = c THEN None ELSE begun)
  BY DEF Killed, tree
<1>2. TreesOK' /\ Len(commits') >= Len(commits) /\ Len(commits') \in Nat
  BY <1>1, CommitsAre DEF TypeInv, TreesOK
<1>3. IndexOK'
  BY <1>1, <1>2, IndexStays
<1>. QED BY <1>1, <1>2, <1>3, TypeEnds

\* A step of a call that holds no lock: a pass, or the start of one.
LEMMA TypePass ==
    ASSUME TypeInv, NEW c \in Caller, call[c].phase \notin Locked, NEW r \in CallRec,
           call' = [call EXCEPT ![c] = r], r.phase \notin Locked, r.journal = <<>>,
           r.phase \in {"state", "status", "apply", "load", "mark"} => r.head \in 1..Len(commits),
           r.phase \in {"status", "apply"} => r.base \in 1..Len(commits),
           UNCHANGED <<tree, lock, begun>>, IndexOK'
    PROVE  TypeInv'
<1>1. TreesOK' /\ Len(commits') = Len(commits) /\ Len(commits') \in Nat
  BY TreesStay
<1>2. lock # c /\ lock' = lock /\ lock' \in Caller \cup {None}
  BY PhaseLocked DEF TypeInv
<1>3. Proper(r, lock' = c, Len(commits'))
  BY <1>1, <1>2 DEF Proper, Locked
<1>4. Len(commits') >= Len(commits) /\ \A d \in Caller \ {c} : lock' = d <=> lock = d
  BY <1>1, <1>2
<1>. QED BY <1>1, <1>2, <1>3, <1>4, TypeStep, Zenon

LEMMA PassIs ==
    ASSUME TypeInv, NEW c \in Caller, call[c].phase \notin Locked
    PROVE  /\ call[c] \in CallRec /\ call[c].journal = <<>> /\ Len(commits) \in Nat \ {0}
           /\ call[c].phase \in {"state", "status", "apply", "load", "mark"} => call[c].head \in 1..Len(commits)
           /\ call[c].phase \in {"status", "apply"} => call[c].base \in 1..Len(commits)
           /\ UNCHANGED index /\ UNCHANGED tree => IndexOK'
<1>1. UNCHANGED index /\ UNCHANGED tree => IndexOK'
  BY DEF TypeInv, IndexOK, index, tree
<1>. QED BY <1>1, CallerIs DEF Proper

LEMMA ReadHeadIs ==
    ASSUME TypeInv, NEW c \in Caller, ReadHead(c)
    PROVE  /\ TypeInv'
           /\ call' = [call EXCEPT ![c] = [call[c] EXCEPT !.phase = "state", !.head = Len(commits)]]
<1>. DEFINE r == [call[c] EXCEPT !.phase = "state", !.head = Len(commits)]
<1>1. call' = [call EXCEPT ![c] = r]
  BY DEF ReadHead, TypeInv
<1>2. call[c].phase \notin Locked /\ UNCHANGED <<tree, lock, begun>> /\ UNCHANGED index
  BY DEF ReadHead, PassFrame, Locked
<1>3. r \in CallRec /\ r.phase = "state" /\ r.head = Len(commits) /\ r.journal = <<>>
  BY <1>2, PassIs DEF CallRec
<1>4. Len(commits) \in 1..Len(commits) /\ IndexOK'
  BY <1>2, PassIs
<1>. HIDE DEF r
<1>5. TypeInv'
  BY <1>1, <1>2, <1>3, <1>4, TypePass DEF Locked
<1>. QED BY <1>1, <1>5 DEF r

LEMMA ReadStateIs ==
    ASSUME TypeInv, NEW c \in Caller, ReadState(c)
    PROVE  /\ TypeInv'
           /\ \/ mark = None /\ call' = [call EXCEPT ![c] = [call[c] EXCEPT !.phase = "truncate"]]
              \/ mark = 0 /\ Ended(c)
              \/ /\ mark \in 1..Len(commits)
                 /\ call' = [call EXCEPT ![c] = [call[c] EXCEPT !.phase = "status", !.base = mark]]
<1>1. /\ call[c].phase = "state" /\ call[c].phase \notin Locked
      /\ UNCHANGED <<tree, lock, begun>> /\ UNCHANGED index
  BY DEF ReadState, PassFrame, Locked
<1>2. mark \in 0..Len(commits) \cup {None} /\ None \notin Nat /\ IndexOK'
  BY <1>1, PassIs, SeedsAssumption DEF TypeInv, IndexOK
<1>3. CASE mark = None
  <2>. DEFINE r == [call[c] EXCEPT !.phase = "truncate"]
  <2>1. call' = [call EXCEPT ![c] = r]
    <3>1. mark # 0
      <4>1. 0 \in Nat
        OBVIOUS
      <4>. QED BY <1>2, <1>3, <4>1
    <3>. QED BY <1>3, <3>1 DEF ReadState
  <2>2. r \in CallRec /\ r.phase = "truncate" /\ r.journal = <<>>
    BY <1>1, PassIs DEF CallRec
  <2>. HIDE DEF r
  <2>3. TypeInv'
    BY <1>1, <1>2, <2>1, <2>2, TypePass DEF Locked
  <2>. QED BY <1>3, <2>1, <2>3 DEF r
<1>4. CASE mark = 0
  <2>1. Ended(c)
    BY <1>2, <1>4 DEF ReadState, Ended
  <2>2. Idle \in CallRec /\ Idle.phase = "idle" /\ Idle.journal = <<>>
    BY CommitsAre, IdleIs DEF TypeInv
  <2>3. TypeInv'
    BY <1>1, <1>2, <2>1, <2>2, TypePass DEF Ended, Locked
  <2>. QED BY <1>4, <2>1, <2>3
<1>5. CASE mark # None /\ mark # 0
  <2>. DEFINE r == [call[c] EXCEPT !.phase = "status", !.base = mark]
  <2>1. call' = [call EXCEPT ![c] = r]
    BY <1>5 DEF ReadState
  <2>2. mark \in 1..Len(commits) /\ mark \in Nat
    BY <1>1, <1>2, <1>5, PassIs
  <2>3. /\ r \in CallRec /\ r.phase = "status" /\ r.journal = <<>> /\ r.base = mark
        /\ r.head \in 1..Len(commits)
    BY <1>1, <2>2, PassIs DEF CallRec
  <2>. HIDE DEF r
  <2>4. TypeInv'
    BY <1>1, <1>2, <2>1, <2>2, <2>3, TypePass DEF Locked
  <2>. QED BY <2>1, <2>2, <2>4 DEF r
<1>. QED BY <1>3, <1>4, <1>5

LEMMA ReadStatusIs ==
    ASSUME TypeInv, NEW c \in Caller, ReadStatus(c)
    PROVE  /\ TypeInv' /\ call[c].phase = "status"
           /\ Reading(disk, Dirty) \in Readings /\ DOMAIN Reading(disk, Dirty) = Dirty
           /\ call' = [call EXCEPT ![c] = [call[c] EXCEPT !.phase = "apply", !.dirty = Reading(disk, Dirty)]]
<1>. DEFINE d == Reading(disk, Dirty)
            r == [call[c] EXCEPT !.phase = "apply", !.dirty = d]
<1>1. /\ call[c].phase = "status" /\ call[c].phase \notin Locked
      /\ UNCHANGED <<tree, lock, begun>> /\ UNCHANGED index
      /\ call' = [call EXCEPT ![c] = r]
  BY DEF ReadStatus, Locked, TypeInv
<1>2. d \in Readings /\ DOMAIN d = Dirty
  <2>1. Tip \in Tree /\ staged \in Tree /\ disk \in Tree
    BY CommitsAre DEF TypeInv, TreesOK
  <2>2. Dirty \in SUBSET Path
    BY <2>1, TreeIs DEF Dirty, Differ, IsTree
  <2>. QED BY <2>1, <2>2, ReadingIs
<1>. HIDE DEF d
<1>3. /\ r \in CallRec /\ r.phase = "apply" /\ r.journal = <<>>
      /\ r.head \in 1..Len(commits) /\ r.base \in 1..Len(commits)
  BY <1>1, <1>2, PassIs DEF CallRec
<1>. HIDE DEF r
<1>4. TypeInv'
  BY <1>1, <1>3, PassIs, TypePass DEF Locked
<1>. QED BY <1>1, <1>2, <1>4 DEF d, r

OnDisk(read) == [p \in {q \in DOMAIN read : read[q] # <<>>} |-> read[p][1]]
Whole(t, S) == [p \in S |-> Entry(p, t, {})]

LEMMA OnDiskIs == ASSUME NEW read \in Readings
                  PROVE  OnDisk(read) \in Tree /\ DOMAIN read \in SUBSET Path
<1>1. DOMAIN read \subseteq Path /\ \A q \in DOMAIN read : read[q] = <<>> \/ \E f \in File : read[q] = <<f>>
  BY DEF Readings
<1>2. \A q \in DOMAIN read : read[q] # <<>> => read[q][1] \in File
  BY <1>1
<1>3. IsTree(OnDisk(read))
  BY <1>1, <1>2 DEF IsTree, OnDisk
<1>. QED BY <1>1, <1>3, TreeIs

\* What a pass does to the rows: all of it, or none and it ends.
LEMMA ApplyIs ==
    ASSUME TypeInv, NEW c \in Caller, Apply(c)
    PROVE  LET diff == Diff(commits[call[c].base], commits[call[c].head])
               dirty == Whole(OnDisk(call[c].dirty), DOMAIN call[c].dirty)
           IN  /\ TypeInv' /\ call[c].phase = "apply"
               /\ \/ /\ Accepts(rows, diff) /\ Accepts(AfterAll(rows, diff), dirty)
                     /\ rows' = AfterAll(AfterAll(rows, diff), dirty)
                     /\ call' = [call EXCEPT ![c] = [call[c] EXCEPT !.phase = "mark"]]
                  \/ /\ ~(Accepts(rows, diff) /\ Accepts(AfterAll(rows, diff), dirty))
                     /\ rows' = rows /\ Ended(c)
<1>. DEFINE diff == Diff(commits[call[c].base], commits[call[c].head])
            dirty == Whole(OnDisk(call[c].dirty), DOMAIN call[c].dirty)
            r == [call[c] EXCEPT !.phase = "mark"]
<1>1. /\ call[c].phase = "apply" /\ call[c].phase \notin Locked /\ mark' = mark
      /\ UNCHANGED <<tree, lock, begun>>
  BY DEF Apply, PassFrame, Locked
<1>2. \/ /\ Accepts(rows, diff) /\ Accepts(AfterAll(rows, diff), dirty)
         /\ rows' = AfterAll(AfterAll(rows, diff), dirty)
         /\ call' = [call EXCEPT ![c] = r]
      \/ /\ ~(Accepts(rows, diff) /\ Accepts(AfterAll(rows, diff), dirty))
         /\ rows' = rows /\ Ended(c)
  BY DEF Apply, TypeInv, Whole, OnDisk
<1>3. diff \in Entries /\ dirty \in Entries
  <2>1. commits[call[c].base] \in Tree /\ commits[call[c].head] \in Tree
    BY <1>1, PassIs, CommitsAre DEF TypeInv
  <2>2. OnDisk(call[c].dirty) \in Tree /\ DOMAIN call[c].dirty \in SUBSET Path
    BY CallerIs, OnDiskIs
  <2>. QED BY <2>1, <2>2, DiffIs, WholeIs DEF Whole
<1>. HIDE DEF diff, dirty
<1>4. rows \in Rows /\ rows' \in Rows
  <2>1. AfterAll(rows, diff) \in Rows /\ rows \in Rows
    BY <1>3, AfterIs DEF AfterAll, TypeInv, IndexOK
  <2>2. AfterAll(AfterAll(rows, diff), dirty) \in Rows
    BY <1>3, <2>1, AfterIs DEF AfterAll
  <2>. QED BY <1>2, <2>1, <2>2
<1>5. IndexOK'
  BY <1>1, <1>4 DEF TypeInv, IndexOK, tree
<1>6. r \in CallRec /\ r.phase = "mark" /\ r.journal = <<>> /\ r.head \in 1..Len(commits)
  BY <1>1, PassIs DEF CallRec
<1>. HIDE DEF r
<1>7. Idle \in CallRec /\ Idle.phase = "idle" /\ Idle.journal = <<>>
  BY CommitsAre, IdleIs DEF TypeInv
<1>8. TypeInv'
  BY <1>1, <1>2, <1>5, <1>6, <1>7, TypePass DEF Ended, Locked
<1>. QED BY <1>1, <1>2, <1>8 DEF diff, dirty, r

LEMMA TruncateIs ==
    ASSUME TypeInv, NEW c \in Caller, Truncate(c)
    PROVE  /\ TypeInv' /\ call[c].phase = "truncate" /\ rows' = <<>> /\ mark' = 0
           /\ call' = [call EXCEPT ![c] = [call[c] EXCEPT !.phase = "load", !.head = Len(commits)]]
<1>. DEFINE r == [call[c] EXCEPT !.phase = "load", !.head = Len(commits)]
<1>1. /\ call' = [call EXCEPT ![c] = r] /\ call[c].phase = "truncate" /\ call[c].phase \notin Locked
      /\ UNCHANGED <<tree, lock, begun>> /\ rows' = <<>> /\ mark' = 0
  BY DEF Truncate, PassFrame, Locked, TypeInv
<1>2. r \in CallRec /\ r.phase = "load" /\ r.head = Len(commits) /\ r.journal = <<>>
  BY <1>1, PassIs DEF CallRec
<1>3. Len(commits) \in 1..Len(commits) /\ IndexOK'
  BY <1>1, PassIs, NoPaths DEF IndexOK, tree
<1>. HIDE DEF r
<1>4. TypeInv'
  BY <1>1, <1>2, <1>3, TypePass DEF Locked
<1>. QED BY <1>1, <1>4 DEF r

LEMMA LoadIs ==
    ASSUME TypeInv, NEW c \in Caller, Load(c)
    PROVE  LET t == commits[call[c].head]
           IN  /\ TypeInv' /\ call[c].phase = "load" /\ mark' = mark
               /\ \/ /\ Accepts(rows, Whole(t, DOMAIN t)) /\ rows' = AfterAll(rows, Whole(t, DOMAIN t))
                     /\ call' = [call EXCEPT ![c] = [call[c] EXCEPT !.phase = "mark"]]
                  \/ /\ ~Accepts(rows, Whole(t, DOMAIN t))
                     /\ rows' = rows /\ Ended(c)
<1>. DEFINE t == commits[call[c].head]
            e == Whole(t, DOMAIN t)
            r == [call[c] EXCEPT !.phase = "mark"]
<1>1. /\ call[c].phase = "load" /\ call[c].phase \notin Locked /\ mark' = mark
      /\ UNCHANGED <<tree, lock, begun>>
  BY DEF Load, PassFrame, Locked
<1>2. \/ Accepts(rows, e) /\ rows' = AfterAll(rows, e) /\ call' = [call EXCEPT ![c] = r]
      \/ ~Accepts(rows, e) /\ rows' = rows /\ Ended(c)
  BY DEF Load, TypeInv, Whole
<1>3. e \in Entries
  <2>1. t \in Tree /\ DOMAIN t \in SUBSET Path
    BY <1>1, PassIs, CommitsAre, TreeIs DEF TypeInv, IsTree
  <2>. QED BY <2>1, WholeIs DEF Whole
<1>. HIDE DEF e
<1>4. IndexOK'
  BY <1>1, <1>2, <1>3, AfterIs DEF AfterAll, TypeInv, IndexOK, tree
<1>5. r \in CallRec /\ r.phase = "mark" /\ r.journal = <<>> /\ r.head \in 1..Len(commits)
  BY <1>1, PassIs DEF CallRec
<1>. HIDE DEF r
<1>6. Idle \in CallRec /\ Idle.phase = "idle" /\ Idle.journal = <<>>
  BY CommitsAre, IdleIs DEF TypeInv
<1>7. TypeInv'
  BY <1>1, <1>2, <1>4, <1>5, <1>6, TypePass DEF Ended, Locked
<1>. QED BY <1>1, <1>2, <1>7 DEF e, r

LEMMA WriteStateIs ==
    ASSUME TypeInv, NEW c \in Caller, WriteState(c)
    PROVE  TypeInv' /\ call[c].phase = "mark" /\ mark' = call[c].head /\ rows' = rows /\ Ended(c)
<1>1. /\ call[c].phase = "mark" /\ call[c].phase \notin Locked /\ mark' = call[c].head /\ rows' = rows
      /\ UNCHANGED <<tree, lock, begun>> /\ Ended(c)
  BY DEF WriteState, PassFrame, Locked
<1>2. IndexOK'
  BY <1>1, PassIs DEF TypeInv, IndexOK, tree
<1>3. Idle \in CallRec /\ Idle.phase = "idle" /\ Idle.journal = <<>>
  BY CommitsAre, IdleIs DEF TypeInv
<1>4. TypeInv'
  BY <1>1, <1>2, <1>3, TypePass DEF Ended, Locked
<1>. QED BY <1>1, <1>4

\* What a session commit lands: one new record, or one archive.
Creation(S, t) == \E p \in Live \ DOMAIN Tip, a \in Art :
                     ~IsActive(Tip, a) /\ S = {p} /\ t = Holding(Tip, p, New(a, {}))
Archival(S, t) == \E p \in DOMAIN Tip \cap Live, q \in Path \ (Live \cup DOMAIN Tip) :
                     S = {p, q} /\ t = Holding(Without(Tip, {p}), q, Tip[p])

LEMMA SessionIs ==
    ASSUME TypeInv, SessionCommit
    PROVE  \E S \in SUBSET Path, t \in Tree :
             /\ Creation(S, t) \/ Archival(S, t)
             /\ S \cap Dirty = {} /\ commits' = Append(commits, t)
             /\ staged' \in Tree /\ disk' \in Tree
             /\ \A p : At(staged', p) = IF p \in S THEN At(t, p) ELSE At(staged, p)
             /\ \A p : At(disk', p) = IF p \in S THEN At(t, p) ELSE At(disk, p)
             /\ \A p \in Path \ S : At(t, p) = At(Tip, p)
<1>1. Tip \in Tree /\ staged \in Tree /\ disk \in Tree /\ IsTree(Tip)
  BY CommitsAre, TreeIs DEF TypeInv, TreesOK
<1>2. PICK S, t : Lands(S, t) /\ (Creation(S, t) \/ Archival(S, t))
  <2>1. CASE \E p \in Live \ DOMAIN Tip, a \in Art :
               ~IsActive(Tip, a) /\ Lands({p}, Holding(Tip, p, New(a, {})))
    BY <2>1 DEF Creation
  <2>2. CASE \E p \in DOMAIN Tip \cap Live : \E q \in Path \ (Live \cup DOMAIN Tip) :
               /\ q.title = p.title /\ q.ordinal = p.ordinal
               /\ Lands({p, q}, Holding(Without(Tip, {p}), q, Tip[p]))
    BY <2>2 DEF Archival
  <2>. QED BY <2>1, <2>2 DEF SessionCommit
<1>3. S \in SUBSET Path /\ t \in Tree /\ \A p \in Path \ S : At(t, p) = At(Tip, p)
  <2>1. CASE Creation(S, t)
    <3>1. PICK p \in Live, a \in Art : S = {p} /\ t = Holding(Tip, p, New(a, {}))
      BY <2>1 DEF Creation
    <3>. DEFINE f == New(a, {})
    <3>2. p \in Path /\ f \in File
      BY NewIs DEF Live
    <3>. HIDE DEF f
    <3>3. Holding(Tip, p, f) \in Tree
      BY <1>1, <3>2, HoldingIs
    <3>4. \A r : At(Holding(Tip, p, f), r) = IF r = p THEN <<f>> ELSE At(Tip, r)
      BY <1>1, <3>2, AtHolding
    <3>. QED BY <3>1, <3>2, <3>3, <3>4 DEF f
  <2>2. CASE Archival(S, t)
    <3>1. PICK p \in DOMAIN Tip \cap Live, q \in Path :
              S = {p, q} /\ t = Holding(Without(Tip, {p}), q, Tip[p])
      BY <2>2 DEF Archival
    <3>2. p \in Path /\ Tip[p] \in File /\ Without(Tip, {p}) \in Tree
      <4>1. p \in Path /\ p \in DOMAIN Tip
        BY DEF Live
      <4>. QED BY <1>1, <4>1, WithoutIs DEF IsTree
    <3>3. t \in Tree
      BY <3>1, <3>2, HoldingIs
    <3>5. \A r : At(t, r) = IF r = q THEN <<Tip[p]>> ELSE At(Without(Tip, {p}), r)
      BY <3>1, <3>2, AtHolding
    <3>4. \A r : r # p => At(Without(Tip, {p}), r) = At(Tip, r)
      BY <1>1, AtWithout
    <3>. QED BY <3>1, <3>2, <3>3, <3>4, <3>5
  <2>. QED BY <1>2, <2>1, <2>2
<1>4. /\ Reading(t, S) \in Readings /\ DOMAIN Reading(t, S) = S
      /\ \A p \in S : Reading(t, S)[p] = At(t, p)
  BY <1>3, ReadingIs
<1>5. /\ S \cap Dirty = {} /\ commits' = Append(commits, t)
      /\ staged' = PutBack(staged, Reading(t, S)) /\ disk' = PutBack(disk, Reading(t, S))
  BY <1>2 DEF Lands
<1>6. staged' \in Tree /\ \A p : At(staged', p) = IF p \in S THEN At(t, p) ELSE At(staged, p)
  BY <1>1, <1>4, <1>5, PutBackIs
<1>7. disk' \in Tree /\ \A p : At(disk', p) = IF p \in S THEN At(t, p) ELSE At(disk, p)
  BY <1>1, <1>4, <1>5, PutBackIs
<1>. QED BY <1>2, <1>3, <1>5, <1>6, <1>7

LEMMA TypeSession == ASSUME TypeInv, SessionCommit PROVE TypeInv'
<1>1. PICK t \in Tree : commits' = Append(commits, t) /\ staged' \in Tree /\ disk' \in Tree
  BY SessionIs
<1>2. lock = None /\ lock' = lock /\ call' = call /\ UNCHANGED index
  BY DEF SessionCommit
<1>3. commits' \in Seq(Tree) /\ commits' # <<>> /\ Len(commits') = Len(commits) + 1 /\ Len(commits) \in Nat
  BY <1>1, AppendedIs DEF TypeInv, TreesOK
<1>4. TreesOK' /\ IndexOK'
  <2>1. TreesOK'
    BY <1>1, <1>2, <1>3 DEF TreesOK
  <2>2. IndexOK'
    BY <1>2, <1>3, IndexStays
  <2>. QED BY <2>1, <2>2
<1>5. ASSUME NEW c \in Caller PROVE Proper(call[c], lock = c, Len(commits))'
  <2>1. Proper(call[c], lock = c, Len(commits))
    BY DEF TypeInv
  <2>. QED BY <1>2, <1>3, <2>1 DEF Proper
<1>. QED BY <1>2, <1>4, <1>5 DEF TypeInv

LEMMA EntersIs ==
    ASSUME TypeInv, NEW c \in Caller, NEW kind, NEW s, Enters(c, kind, s)
    PROVE  /\ TypeInv'
           /\ lock = None /\ lock' = c /\ call[c].phase = "idle" /\ call[c].journal = <<>>
           /\ begun' = [tip |-> Tip, staged |-> staged, disk |-> disk]
           /\ UNCHANGED tree /\ UNCHANGED index
           /\ s \in Seq(Steps) /\ Append(s, Commit) \in Seq(Steps)
           /\ call' = [call EXCEPT ![c] = [call[c] EXCEPT !.phase = "running", !.steps = Append(s, Commit)]]
<1>. DEFINE w == Append(s, Commit)
            r == [call[c] EXCEPT !.phase = "running", !.steps = w]
<1>1. /\ lock = None /\ lock' = c /\ call[c].phase = "idle"
      /\ begun' = [tip |-> Tip, staged |-> staged, disk |-> disk]
      /\ UNCHANGED tree /\ UNCHANGED index /\ s \in Seq(Steps)
      /\ call' = [call EXCEPT ![c] = r]
  BY DEF Enters, MayEnter, May, Runs, TypeInv
<1>2. w \in Seq(Steps) /\ w # <<>> /\ w[Len(w)] = Commit
  BY <1>1, AppendIs
<1>. HIDE DEF w
<1>3. call[c] \in CallRec /\ call[c].journal = <<>> /\ Len(commits) \in Nat
  BY <1>1, PassIs DEF Locked
<1>4. r \in CallRec /\ r.phase = "running" /\ r.steps = w
  BY <1>2, <1>3 DEF CallRec
<1>. HIDE DEF r
<1>5. Len(commits') >= Len(commits)
  BY <1>1, <1>3 DEF tree
<1>6. Proper(r, lock' = c, Len(commits'))
  BY <1>1, <1>2, <1>4 DEF Proper, Locked
<1>7. TreesOK' /\ IndexOK'
  <2>1. IndexOK'
    BY <1>1, <1>3, <1>5, IndexStays DEF tree
  <2>2. Tip \in Tree /\ commits' = commits /\ staged' = staged /\ disk' = disk
    BY <1>1, CommitsAre DEF TypeInv, tree
  <2>. QED BY <1>1, <2>1, <2>2 DEF TypeInv, TreesOK
<1>8. lock' \in Caller \cup {None} /\ \A d \in Caller \ {c} : lock' = d <=> lock = d
  BY <1>1, CallerIs
<1>9. TypeInv'
  BY <1>1, <1>5, <1>6, <1>7, <1>8, TypeStep
<1>. QED BY <1>1, <1>2, <1>3, <1>9 DEF r, w

LEMMA RequestIs ==
    ASSUME TypeInv, NEW c \in Caller, Update(c) \/ Rebuild(c)
    PROVE  /\ TypeInv' /\ UNCHANGED <<tree, index, lock, begun>>
           /\ call[c].phase = "idle"
           /\ call' = [call EXCEPT ![c] = [call[c] EXCEPT !.phase = IF Update(c) THEN "reindex" ELSE "truncate"]]
<1>. DEFINE ph == IF Update(c) THEN "reindex" ELSE "truncate"
            r == [call[c] EXCEPT !.phase = ph]
<1>1. /\ UNCHANGED <<tree, index, lock, begun>> /\ call[c].phase = "idle"
      /\ call' = [call EXCEPT ![c] = r] /\ ph \in {"reindex", "truncate"}
  BY DEF Update, Rebuild, Starts, May, TypeInv
<1>. HIDE DEF ph
<1>2. r \in CallRec /\ r.phase = ph /\ r.journal = <<>> /\ IndexOK'
  BY <1>1, PassIs DEF CallRec, Locked
<1>. HIDE DEF r
<1>3. TypeInv'
  BY <1>1, <1>2, TypePass DEF Locked
<1>. QED BY <1>1, <1>3 DEF r, ph

LEMMA TypeNext == TypeInv /\ [Next]_vars => TypeInv'
<1>. SUFFICES ASSUME TypeInv, [Next]_vars PROVE TypeInv'
  OBVIOUS
<1>1. ASSUME NEW c \in Caller, Operation(c) PROVE TypeInv'
  <2>1. disk \in Tree
    BY DEF TypeInv, TreesOK
  <2>. QED BY <1>1, <2>1, OperationIs, EntersIs, RequestIs
<1>2. ASSUME NEW c \in Caller, Step(c) PROVE TypeInv'
  BY <1>2, TypeSteps, TypeCommit, TypeStepFails, TypeReset, TypeRewrite, ReadHeadIs, ReadStateIs,
     ReadStatusIs, ApplyIs, TruncateIs, LoadIs, WriteStateIs DEF Step
<1>3. CASE UNCHANGED vars
  BY <1>3 DEF vars, TypeInv, TreesOK, IndexOK, Proper
<1>. QED BY <1>1, <1>2, <1>3, TypeKilled, TypeSession DEF Next

LEMMA TypeInit == Init => TypeInv
<1>. SUFFICES ASSUME Init PROVE TypeInv
  OBVIOUS
<1>1. PICK t \in Seeds : /\ commits = <<t>> /\ staged = t /\ disk = t
                         /\ \/ rows = <<>> /\ mark = None
                            \/ rows = ArtOf(t) /\ mark = 1
  BY DEF Init
<1>2. t \in Tree /\ ArtOf(t) \in Rows
  BY SeedsAssumption, TreeIs, ArtOfIs
<1>3. commits \in Seq(Tree) /\ commits # <<>> /\ Len(commits) = 1
  BY <1>1, <1>2
<1>4. lock = None /\ call = [c \in Caller |-> Idle]
  BY DEF Init
<1>5. TreesOK /\ IndexOK
  <2>1. TreesOK
    BY <1>1, <1>2, <1>3, <1>4 DEF TreesOK
  <2>2. IndexOK
    BY <1>1, <1>2, <1>3, NoPaths DEF IndexOK
  <2>. QED BY <2>1, <2>2
<1>6. Idle \in CallRec /\ \A c \in Caller : lock # c /\ call[c] = Idle /\ Proper(Idle, lock = c, Len(commits))
  <2>1. \A c \in Caller : c # None
    BY SeedsAssumption
  <2>2. Idle \in CallRec /\ Proper(Idle, FALSE, Len(commits))
    BY <1>3, IdleIs
  <2>. QED BY <1>4, <2>1, <2>2 DEF Proper
<1>7. call \in [Caller -> CallRec] /\ \A c \in Caller : Proper(call[c], lock = c, Len(commits))
  BY <1>4, <1>6
<1>. QED BY <1>4, <1>5, <1>7 DEF TypeInv

\* Every variable has its type, and every call what its phase needs: steps that end in the commit, a HEAD
\* and a watermark that exist, no journal outside the lock.
THEOREM TypesHold == Spec => []TypeInv
<1>. QED BY TypeInit, TypeNext, PTL DEF Spec

\* The trees, the index and the lock have their types, and the lock is held exactly by a call that runs
\* its steps or its compensation (store.ts, `exclusive`).
THEOREM StoreTypes == Spec => []StoreTypeOK
<1>1. TypeInv => StoreTypeOK
  <2>. SUFFICES ASSUME TypeInv PROVE StoreTypeOK
    OBVIOUS
  <2>1. \A n \in DOMAIN commits : IsTree(commits[n])
    BY CommitsAre, TreeIs DEF TypeInv
  <2>2. IsTree(staged) /\ IsTree(disk) /\ DOMAIN rows \subseteq Path /\ \A p \in DOMAIN rows : rows[p] \in Art
    BY TreeIs, RowsIs DEF TypeInv, TreesOK, IndexOK
  <2>3. Len(commits) >= 1
    BY CommitsAre DEF TypeInv
  <2>. QED BY <2>1, <2>2, <2>3, PhaseLocked DEF StoreTypeOK, TypeInv, IndexOK, Locked
<1>. QED BY <1>1, TypesHold, PTL

-----------------------------------------------------------------------------
(***************************************************************************)
(* The journal, and what the compensation finds there.                     *)
(***************************************************************************)
LEMMA SlipsStay == ASSUME [Next]_vars PROVE slips \subseteq slips'
<1>1. ASSUME NEW c \in Caller, Operation(c) PROVE slips \subseteq slips'
  BY <1>1 DEF Operation, WriteMemory, WriteMemories, CorrectMemory, ArchiveMemory, SupersedeMemories,
              LinkMemories, Update, Rebuild, Runs, Starts
<1>2. ASSUME NEW c \in Caller, Step(c) PROVE slips \subseteq slips'
  BY <1>2 DEF Step, NoteStep, PutStep, StampStep, MoveStep, AddStep, CommitStep, StepFails, LateFailure,
              Reset, Rewrite, RestoreFails, ReadHead, ReadState, ReadStatus, Apply, Truncate, Load,
              WriteState, Frame, PassFrame
<1>3. CASE UNCHANGED vars
  BY <1>3 DEF vars
<1>. QED BY <1>1, <1>2, <1>3 DEF Next, Killed, SessionCommit

\* Nobody holds the lock any more: the journal of the one who did is gone.
LEMMA JournalFree == ASSUME lock' = None PROVE JournalInv'
  BY SeedsAssumption DEF JournalInv

\* Whoever holds the lock is left alone.
LEMMA JournalAlone ==
    ASSUME JournalInv, UNCHANGED <<tree, lock, begun>>, slips \subseteq slips',
           \A d \in Caller : lock = d => call'[d] = call[d]
    PROVE  JournalInv'
<1>1. commits' = commits /\ staged' = staged /\ disk' = disk /\ lock' = lock /\ begun' = begun
  BY DEF tree
<1>2. Tip' = Tip
  BY <1>1 DEF Tip
<1>3. SUFFICES ASSUME "late" \notin slips, NEW d \in Caller, lock = d, call'[d] = call[d]
               PROVE  LET c == d
                      IN  /\ begun.tip = Tip
                          /\ \A p \in Journal(c) : call[c].journal[p] = At(begun.disk, p)
                          /\ \A p \in Path \ Journal(c) : At(disk, p) = At(begun.disk, p)
                          /\ call[c].phase \in {"running", "reset"} =>
                               \A p \in Path \ Journal(c) : At(staged, p) = At(begun.staged, p)
                          /\ call[c].phase = "rewrite" =>
                               \A p \in Path : At(staged, p) \in {At(begun.staged, p), At(Tip, p)}
                          /\ call[c].phase = "running" => Sound(Journal(c), disk, {}, call[c].steps)
  BY <1>1, <1>2 DEF JournalInv, Journal
<1>. QED BY <1>3 DEF JournalInv

LEMMA JournalEnters ==
    ASSUME TypeInv, KeptInv, NEW c \in Caller, NEW kind, NEW s, Enters(c, kind, s), slips \subseteq slips'
    PROVE  JournalInv'
<1>1. /\ lock' = c /\ call[c].journal = <<>> /\ s \in Seq(Steps)
      /\ begun' = [tip |-> Tip, staged |-> staged, disk |-> disk]
      /\ commits' = commits /\ staged' = staged /\ disk' = disk
      /\ call' = [call EXCEPT ![c] = [call[c] EXCEPT !.phase = "running", !.steps = Append(s, Commit)]]
  BY EntersIs DEF tree
<1>2. call[c] \in CallRec /\ c \in DOMAIN call
  BY CallerIs DEF TypeInv
<1>3. /\ call'[c].phase = "running" /\ call'[c].steps = Append(s, Commit) /\ call'[c].journal = <<>>
      /\ \A d \in Caller : lock' = d => d = c
  BY <1>1, <1>2 DEF CallRec
<1>4. Journal(c)' = {} /\ Tip' = Tip
  BY <1>1, <1>3, NoPaths DEF Journal, Tip
<1>5. ASSUME "late" \notin slips PROVE Sound({}, disk, {}, Append(s, Commit))
  <2>1. Sound({}, disk, {}, s)
    BY <1>5 DEF KeptInv, Enters
  <2>2. SoundStep({}, disk, {} \cup StepsOf(s), Commit) /\ Commit \in Steps
    BY CommitIs, CommitSound
  <2>3. <<Commit>> \in Seq(Steps) /\ Sound({}, disk, {} \cup StepsOf(s), <<Commit>>)
    BY <2>2, SoundOne, Tuples1
  <2>4. Sound({}, disk, {}, s \o <<Commit>>)
    BY <1>1, <2>1, <2>3, SoundJoin
  <2>. QED BY <1>1, <2>4, AppendIs
<1>. QED BY <1>1, <1>3, <1>4, <1>5 DEF JournalInv

\* The holder's next step is sound, and what follows is sound after it.
LEMMA NextSound ==
    ASSUME TypeInv, JournalInv, "late" \notin slips, NEW c \in Caller, NEW do, Doing(c, do)
    PROVE  /\ SoundStep(Journal(c), disk, {}, call[c].steps[1])
           /\ \A p \in Touched(call[c].steps[1]) : p \in Journal(c)
           /\ \A K, u : (\A E \in SUBSET Steps, x \in Steps :
                            SoundStep(Journal(c), disk, {call[c].steps[1]} \cup E, x) => SoundStep(K, u, E, x))
                        => Sound(K, u, {}, Tail(call[c].steps))
<1>. DEFINE s == call[c].steps
            J == Journal(c)
<1>1. Sound(J, disk, {}, s) /\ s \in Seq(Steps) /\ s # <<>>
  BY DoingIs, CallerIs DEF JournalInv
<1>. HIDE DEF s, J
<1>2. SoundStep(J, disk, {}, s[1])
  <2>1. 1 \in DOMAIN s /\ {s[m] : m \in 1..(1 - 1)} = {}
    BY <1>1
  <2>2. SoundStep(J, disk, {} \cup {s[m] : m \in 1..(1 - 1)}, s[1])
    BY <1>1, <2>1 DEF Sound
  <2>. QED BY <2>1, <2>2
<1>3. \A p \in Touched(s[1]) : p \in J
  BY <1>2 DEF SoundStep
<1>4. ASSUME NEW K, NEW u,
             \A E \in SUBSET Steps, x \in Steps : SoundStep(J, disk, {s[1]} \cup E, x) => SoundStep(K, u, E, x)
      PROVE  Sound(K, u, {}, Tail(s))
  BY <1>1, <1>4, SoundTail
<1>. QED BY <1>2, <1>3, <1>4 DEF s, J

\* The holder has taken a step that touches what it has noted.
LEMMA JournalGoes ==
    ASSUME TypeInv, JournalInv, NEW c \in Caller, NEW do, Doing(c, do), Stepped(c),
           slips \subseteq slips', lock' = lock, begun' = begun, commits' = commits,
           "late" \notin slips =>
             /\ \A p \in Path \ Journal(c) : At(disk', p) = At(disk, p) /\ At(staged', p) = At(staged, p)
             /\ Sound(Journal(c), disk', {}, Tail(call[c].steps))
    PROVE  JournalInv'
<1>1. lock = c /\ call[c].phase = "running" /\ \A d \in Caller : lock' = d => d = c
  BY DoingIs
<1>2. /\ call'[c].phase = "running" /\ call'[c].journal = call[c].journal
      /\ call'[c].steps = Tail(call[c].steps)
  <2>1. call'[c] = [call[c] EXCEPT !.steps = Tail(@)]
    BY SteppedIs
  <2>2. call[c] \in CallRec
    BY CallerIs
  <2>. QED BY <1>1, <2>1, <2>2 DEF CallRec
<1>3. Journal(c)' = Journal(c) /\ Tip' = Tip
  BY <1>2 DEF Journal, Tip
<1>4. ASSUME "late" \notin slips
      PROVE  /\ begun.tip = Tip
             /\ \A p \in Journal(c) : call[c].journal[p] = At(begun.disk, p)
             /\ \A p \in Path \ Journal(c) : At(disk', p) = At(begun.disk, p)
             /\ \A p \in Path \ Journal(c) : At(staged', p) = At(begun.staged, p)
             /\ Sound(Journal(c), disk', {}, Tail(call[c].steps))
  BY <1>1, <1>4 DEF JournalInv
<1>. QED BY <1>1, <1>2, <1>3, <1>4 DEF JournalInv

LEMMA JournalNote == ASSUME TypeInv, JournalInv, NEW c \in Caller, NoteStep(c) PROVE JournalInv'
<1>. DEFINE S == call[c].steps[1][2]
            j == call[c].journal
            k == Noted(j, disk, S)
<1>1. /\ Doing(c, "note") /\ lock' = lock /\ begun' = begun /\ slips' = slips
      /\ commits' = commits /\ staged' = staged /\ disk' = disk
  BY DEF NoteStep, Frame, tree
<1>2. lock = c /\ call[c].phase = "running" /\ \A d \in Caller : lock' = d => d = c
  BY <1>1, DoingIs
<1>3. call[c] \in CallRec /\ j \in Readings /\ disk \in Tree
  BY CallerIs DEF TypeInv, TreesOK
<1>4. /\ S \in SUBSET Path /\ call[c].steps[1] \in Steps /\ call[c].steps[1][1] = "note"
      /\ call'[c] = [call[c] EXCEPT !.steps = Tail(@), !.journal = k]
  BY NoteStepIs
<1>5. /\ k \in Readings /\ DOMAIN k = DOMAIN j \cup S /\ \A p \in DOMAIN j : k[p] = j[p]
      /\ \A p \in S \ DOMAIN j : k[p] = At(disk, p)
  <2>1. S \in SUBSET Path
    BY <1>4
  <2>. HIDE DEF S, j
  <2>. QED BY <1>3, <2>1, NotedIs
<1>6. call[c].steps[1] = Note(S)
  BY <1>4 DEF Steps, Note, Commit
<1>. HIDE DEF k, S
<1>7. /\ call'[c].phase = "running" /\ call'[c].journal = k /\ call'[c].steps = Tail(call[c].steps)
  BY <1>2, <1>3, <1>4 DEF CallRec
<1>8. Journal(c)' = Journal(c) \cup S /\ Tip' = Tip /\ Journal(c) = DOMAIN j
  BY <1>1, <1>5, <1>7 DEF Journal, Tip
<1>9. ASSUME "late" \notin slips PROVE Sound(Journal(c) \cup S, disk, {}, Tail(call[c].steps))
  <2>1. \A E \in SUBSET Steps, x \in Steps :
           SoundStep(Journal(c), disk, {Note(S)} \cup E, x) => SoundStep(Journal(c) \cup S, disk, E, x)
    BY <1>4, NotePasses
  <2>. QED BY <1>1, <1>6, <1>9, <2>1, NextSound
<1>10. ASSUME "late" \notin slips
       PROVE  /\ begun.tip = Tip
              /\ \A p \in DOMAIN k : k[p] = At(begun.disk, p)
              /\ \A p \in Path \ DOMAIN k : At(disk, p) = At(begun.disk, p)
              /\ \A p \in Path \ DOMAIN k : At(staged, p) = At(begun.staged, p)
  <2>1. /\ begun.tip = Tip
        /\ \A p \in DOMAIN j : j[p] = At(begun.disk, p)
        /\ \A p \in Path \ DOMAIN j : At(disk, p) = At(begun.disk, p)
        /\ \A p \in Path \ DOMAIN j : At(staged, p) = At(begun.staged, p)
    BY <1>2, <1>10 DEF JournalInv, Journal
  <2>. QED BY <1>4, <1>5, <2>1
<1>. QED BY <1>1, <1>2, <1>5, <1>7, <1>8, <1>9, <1>10 DEF JournalInv

LEMMA JournalPut == ASSUME TypeInv, JournalInv, NEW c \in Caller, PutStep(c) PROVE JournalInv'
<1>1. /\ Doing(c, "put") /\ Stepped(c) /\ lock' = lock /\ begun' = begun /\ slips' = slips
      /\ commits' = commits /\ staged' = staged
  BY DEF PutStep, Frame
<1>2. PICK p \in Path, f \in File : call[c].steps[1] = Put(p, f) /\ disk' = Holding(disk, p, f)
  BY PutStepIs
<1>3. disk \in Tree
  BY DEF TypeInv, TreesOK
<1>4. ASSUME "late" \notin slips PROVE Sound(Journal(c), disk', {}, Tail(call[c].steps))
  <2>1. \A E \in SUBSET Steps, x \in Steps :
           SoundStep(Journal(c), disk, {Put(p, f)} \cup E, x) => SoundStep(Journal(c), disk', E, x)
    BY <1>2, <1>3, PutPasses
  <2>. QED BY <1>1, <1>2, <1>4, <2>1, NextSound
<1>5. ASSUME "late" \notin slips PROVE \A q \in Path \ Journal(c) : At(disk', q) = At(disk, q)
  <2>1. p \in Journal(c)
    BY <1>1, <1>2, <1>5, NextSound, PutIs DEF Touched
  <2>. QED BY <1>2, <1>3, <2>1, AtHolding
<1>. QED BY <1>1, <1>4, <1>5, JournalGoes

LEMMA JournalStamp == ASSUME TypeInv, JournalInv, NEW c \in Caller, StampStep(c) PROVE JournalInv'
<1>1. /\ Doing(c, "stamp") /\ Stepped(c) /\ lock' = lock /\ begun' = begun /\ slips' = slips
      /\ commits' = commits /\ staged' = staged
  BY DEF StampStep, Frame
<1>2. PICK p \in Path, S \in SUBSET Path :
          call[c].steps[1] = Stamp(p, S) /\ disk' = [disk EXCEPT ![p].links = @ \cup S]
  BY StampStepIs
<1>3. /\ DOMAIN disk' = DOMAIN disk /\ \A q \in DOMAIN disk : q # p => disk'[q] = disk[q]
      /\ \A q \in DOMAIN disk : disk'[q].art = disk[q].art
  <2>1. disk \in Tree
    BY DEF TypeInv, TreesOK
  <2>. QED BY <1>2, <2>1, StampedIs
<1>4. ASSUME "late" \notin slips PROVE Sound(Journal(c), disk', {}, Tail(call[c].steps))
  <2>1. \A E \in SUBSET Steps, x \in Steps :
           SoundStep(Journal(c), disk, {Stamp(p, S)} \cup E, x) => SoundStep(Journal(c), disk', E, x)
    BY <1>3, StampPasses
  <2>. QED BY <1>1, <1>2, <1>4, <2>1, NextSound
<1>5. ASSUME "late" \notin slips PROVE \A q \in Path \ Journal(c) : At(disk', q) = At(disk, q)
  <2>1. p \in Journal(c)
    BY <1>1, <1>2, <1>5, NextSound, StampIs DEF Touched
  <2>. QED BY <1>3, <2>1 DEF At
<1>. QED BY <1>1, <1>4, <1>5, JournalGoes

LEMMA AtMoved ==
    ASSUME NEW t \in Tree, NEW p \in Path, NEW q \in Path, p \in DOMAIN t
    PROVE  \A r : At(Holding(Without(t, {p}), q, t[p]), r) =
                    IF r = q THEN <<t[p]>> ELSE IF r = p THEN <<>> ELSE At(t, r)
<1>1. t[p] \in File /\ Without(t, {p}) \in Tree
  <2>1. t[p] \in File
    BY TreeIs DEF IsTree
  <2>2. Without(t, {p}) \in Tree
    BY WithoutIs
  <2>. QED BY <2>1, <2>2
<1>2. \A r : At(Holding(Without(t, {p}), q, t[p]), r) = IF r = q THEN <<t[p]>> ELSE At(Without(t, {p}), r)
  BY <1>1, AtHolding
<1>3. \A r : At(Without(t, {p}), r) = IF r \in {p} THEN <<>> ELSE At(t, r)
  BY AtWithout
<1>. QED BY <1>2, <1>3

LEMMA JournalMove == ASSUME TypeInv, JournalInv, NEW c \in Caller, MoveStep(c) PROVE JournalInv'
<1>1. /\ Doing(c, "move") /\ Stepped(c) /\ lock' = lock /\ begun' = begun /\ slips' = slips
      /\ commits' = commits
  BY DEF MoveStep, Frame
<1>2. PICK p \in Path, q \in Path :
         /\ call[c].steps[1] = Move(p, q) /\ p \in DOMAIN staged /\ p \in DOMAIN disk /\ q \notin DOMAIN disk
         /\ disk' = Holding(Without(disk, {p}), q, disk[p])
         /\ staged' = Holding(Without(staged, {p}), q, staged[p])
  BY MoveStepIs
<1>3. disk \in Tree /\ staged \in Tree
  BY DEF TypeInv, TreesOK
<1>4. ASSUME "late" \notin slips
      PROVE  Sound(Journal(c), disk', {}, Tail(call[c].steps)) /\ p \in Journal(c) /\ q \in Journal(c)
  <2>1. SoundStep(Journal(c), disk, {}, Move(p, q)) /\ \A r \in Touched(Move(p, q)) : r \in Journal(c)
    BY <1>1, <1>2, <1>4, NextSound
  <2>2. IsLive(p) /\ ~IsLive(q)
    BY <2>1, MoveIs DEF SoundStep
  <2>3. \A E \in SUBSET Steps, x \in Steps :
           SoundStep(Journal(c), disk, {Move(p, q)} \cup E, x) => SoundStep(Journal(c), disk', E, x)
    BY <1>2, <1>3, <2>2, MovePasses
  <2>4. Sound(Journal(c), disk', {}, Tail(call[c].steps))
    BY <1>1, <1>2, <1>4, <2>3, NextSound
  <2>5. p \in Touched(Move(p, q)) /\ q \in Touched(Move(p, q))
    BY MoveIs DEF Touched
  <2>. QED BY <2>1, <2>4, <2>5
<1>5. ASSUME "late" \notin slips
      PROVE  \A r \in Path \ Journal(c) : At(disk', r) = At(disk, r) /\ At(staged', r) = At(staged, r)
  <2>1. \A r : At(disk', r) = IF r = q THEN <<disk[p]>> ELSE IF r = p THEN <<>> ELSE At(disk, r)
    BY <1>2, <1>3, AtMoved
  <2>2. \A r : At(staged', r) = IF r = q THEN <<staged[p]>> ELSE IF r = p THEN <<>> ELSE At(staged, r)
    BY <1>2, <1>3, AtMoved
  <2>. QED BY <1>4, <1>5, <2>1, <2>2
<1>. QED BY <1>1, <1>4, <1>5, JournalGoes

LEMMA JournalAdd == ASSUME TypeInv, JournalInv, NEW c \in Caller, AddStep(c) PROVE JournalInv'
<1>1. /\ Doing(c, "add") /\ Stepped(c) /\ lock' = lock /\ begun' = begun /\ slips' = slips
      /\ commits' = commits /\ disk' = disk
  BY DEF AddStep, Frame
<1>2. PICK S \in SUBSET Path :
         /\ call[c].steps[1] = Add(S)
         /\ \A p : At(staged', p) = IF p \in S THEN At(disk, p) ELSE At(staged, p)
  BY AddStepIs
<1>3. ASSUME "late" \notin slips PROVE Sound(Journal(c), disk', {}, Tail(call[c].steps))
  <2>1. \A E \in SUBSET Steps, x \in Steps :
           SoundStep(Journal(c), disk, {Add(S)} \cup E, x) => SoundStep(Journal(c), disk', E, x)
    BY <1>1, AddPasses
  <2>. QED BY <1>1, <1>2, <1>3, <2>1, NextSound
<1>4. ASSUME "late" \notin slips PROVE \A q \in Path \ Journal(c) : At(staged', q) = At(staged, q)
  <2>1. \A p \in S : p \in Journal(c)
    BY <1>1, <1>2, <1>4, NextSound, AddIs DEF Touched
  <2>. QED BY <1>2, <2>1
<1>. QED BY <1>1, <1>3, <1>4, JournalGoes

LEMMA JournalFails == ASSUME TypeInv, JournalInv, NEW c \in Caller, StepFails(c) PROVE JournalInv'
<1>1. /\ lock = c /\ call[c].phase = "running" /\ lock' = lock /\ begun' = begun /\ slips' = slips
      /\ commits' = commits /\ staged' = staged /\ disk' = disk
      /\ call' = [call EXCEPT ![c].phase = "reset"]
  BY PhaseLocked DEF StepFails, Frame, tree, Locked
<1>2. call[c] \in CallRec /\ c \in DOMAIN call
  BY CallerIs DEF TypeInv
<1>3. call'[c].phase = "reset" /\ call'[c].journal = call[c].journal /\ Journal(c)' = Journal(c) /\ Tip' = Tip
  BY <1>1, <1>2 DEF CallRec, Journal, Tip
<1>. QED BY <1>1, <1>3 DEF JournalInv

LEMMA JournalReset == ASSUME TypeInv, JournalInv, NEW c \in Caller, Reset(c) PROVE JournalInv'
<1>1. /\ lock = c /\ call[c].phase = "reset" /\ lock' = lock /\ begun' = begun /\ slips' = slips
      /\ commits' = commits /\ disk' = disk
      /\ call' = [call EXCEPT ![c].phase = "rewrite"]
  BY PhaseLocked DEF Reset, Frame, Locked
<1>2. call[c] \in CallRec /\ c \in DOMAIN call
  BY CallerIs DEF TypeInv
<1>3. call'[c].phase = "rewrite" /\ call'[c].journal = call[c].journal /\ Journal(c)' = Journal(c) /\ Tip' = Tip
  BY <1>1, <1>2 DEF CallRec, Journal, Tip
<1>4. \A p : At(staged', p) = IF p \in Journal(c) THEN At(Tip, p) ELSE At(staged, p)
  BY ResetIs
<1>. QED BY <1>1, <1>3, <1>4 DEF JournalInv

-----------------------------------------------------------------------------
(***************************************************************************)
(* What is kept.                                                           *)
(***************************************************************************)
\* d holds the article of f, and what f names in archive/
Holds(d, f) == f.art \in ArtsOf(d) /\ \A q \in f.links : IsLive(q) \/ q \in DOMAIN d

LEMMA BackedIs == ASSUME NEW t \in Tree, NEW d
                  PROVE  Backed(t, d) <=> \A p \in DOMAIN t : Holds(d, t[p])
<1>1. \A p \in DOMAIN t : t[p].links \subseteq Path
  BY TreeIs DEF IsTree, File
<1>2. ArtsOf(t) \subseteq ArtsOf(d) <=> \A p \in DOMAIN t : t[p].art \in ArtsOf(d)
  BY DEF ArtsOf
<1>3. ArchiveLinks(t) \subseteq DOMAIN d <=> \A p \in DOMAIN t : \A q \in t[p].links : IsLive(q) \/ q \in DOMAIN d
  BY <1>1 DEF ArchiveLinks, Live
<1>. QED BY <1>2, <1>3 DEF Backed, Holds

\* d' holds whatever d does
Covers(u, d) == ArtsOf(d) \subseteq ArtsOf(u) /\ DOMAIN d \ Live \subseteq DOMAIN u

LEMMA CoversHolds == ASSUME NEW d, NEW u, Covers(u, d), NEW f \in File, Holds(d, f) PROVE Holds(u, f)
  BY DEF Covers, Holds, Live, File

LEMMA CoversBacked == ASSUME NEW d, NEW u, Covers(u, d), NEW t \in Tree, Backed(t, d) PROVE Backed(t, u)
<1>1. \A p \in DOMAIN t : t[p] \in File /\ Holds(d, t[p])
  BY BackedIs, TreeIs DEF IsTree
<1>2. \A p \in DOMAIN t : Holds(u, t[p])
  BY <1>1, CoversHolds
<1>. QED BY <1>2, BackedIs

\* A tree whose files are all files of trees that are backed, or held for themselves, is backed.
LEMMA MixedBacked ==
    ASSUME NEW t \in Tree, NEW u \in Tree, NEW v \in Tree, NEW d, Backed(t, d), Backed(u, d),
           \A p : At(v, p) \in {<<>>, At(t, p), At(u, p)} \/ \E f \in File : At(v, p) = <<f>> /\ Holds(d, f)
    PROVE  Backed(v, d)
<1>1. ASSUME NEW p \in DOMAIN v PROVE Holds(d, v[p])
  <2>1. At(v, p) = <<v[p]>> /\ At(v, p) # <<>>
    BY AtIs
  <2>2. CASE At(v, p) = At(t, p)
    <3>1. p \in DOMAIN t /\ At(t, p) = <<t[p]>>
      BY <2>1, <2>2, AtIs
    <3>2. v[p] = t[p]
      BY <2>1, <2>2, <3>1
    <3>. QED BY <3>1, <3>2, BackedIs
  <2>3. CASE At(v, p) = At(u, p)
    <3>1. p \in DOMAIN u /\ At(u, p) = <<u[p]>>
      BY <2>1, <2>3, AtIs
    <3>2. v[p] = u[p]
      BY <2>1, <2>3, <3>1
    <3>. QED BY <3>1, <3>2, BackedIs
  <2>4. ASSUME NEW f \in File, At(v, p) = <<f>>, Holds(d, f) PROVE Holds(d, v[p])
    <3>1. v[p] = f
      BY <2>1, <2>4
    <3>. QED BY <2>4, <3>1
  <2>. QED BY <2>1, <2>2, <2>3, <2>4
<1>. QED BY <1>1, BackedIs

\* Where the files of d are still files of u, unless live, u covers d.
LEMMA CoversIs ==
    ASSUME NEW d \in Tree, NEW u \in Tree,
           \A p \in DOMAIN d : d[p].art \in ArtsOf(u) /\ (~IsLive(p) => p \in DOMAIN u)
    PROVE  Covers(u, d)
<1>1. DOMAIN d \subseteq Path
  BY TreeIs DEF IsTree
<1>. QED BY <1>1 DEF Covers, ArtsOf, Live

LEMMA SelfCovers == ASSUME NEW d PROVE Covers(d, d)
  BY DEF Covers

LEMMA KeptCovered ==
    ASSUME NEW d, NEW u, Covers(u, d), Kept(commits, d), TreesOK
    PROVE  Kept(commits, u)
<1>1. Tip \in Tree /\ Backed(Tip, d)
  BY CommitsAre DEF Tip, Kept
<1>2. Backed(Tip, u)
  BY <1>1, CoversBacked
<1>. QED BY <1>2 DEF Kept, Covers, Tip

\* The holder goes on, and commits nothing.
LEMMA KeptGoes ==
    ASSUME TypeInv, KeptInv, lock' = lock, begun' = begun, commits' = commits, slips \subseteq slips',
           "late" \notin slips => /\ Covers(disk', disk)
                                  /\ Backed(staged', disk') /\ Backed(disk', disk')
    PROVE  KeptInv'
<1>1. ASSUME "late" \notin slips PROVE Kept(commits, disk')
  <2>1. Kept(commits, disk) /\ TreesOK /\ Covers(disk', disk)
    BY <1>1 DEF KeptInv, TypeInv
  <2>. QED BY <2>1, KeptCovered
<1>. QED BY <1>1 DEF KeptInv

LEMMA KeptPut == ASSUME TypeInv, JournalInv, KeptInv, NEW c \in Caller, PutStep(c) PROVE KeptInv'
<1>1. /\ Doing(c, "put") /\ lock' = lock /\ begun' = begun /\ slips' = slips
      /\ commits' = commits /\ staged' = staged
  BY DEF PutStep, Frame
<1>2. PICK p \in Path, f \in File :
          call[c].steps[1] = Put(p, f) /\ disk' = Holding(disk, p, f) /\ disk' \in Tree
  BY PutStepIs
<1>3. disk \in Tree /\ staged \in Tree
  BY DEF TypeInv, TreesOK
<1>4. DOMAIN disk' = DOMAIN disk \cup {p} /\ disk'[p] = f /\ \A q \in DOMAIN disk \ {p} : disk'[q] = disk[q]
  BY <1>2 DEF Holding
<1>5. SUFFICES ASSUME "late" \notin slips
               PROVE  Covers(disk', disk) /\ Backed(staged', disk') /\ Backed(disk', disk')
  BY <1>1, KeptGoes
<1>6. /\ p \in DOMAIN disk => disk[p].art = f.art
      /\ \A q \in f.links : IsLive(q) \/ q \in DOMAIN disk
  <2>1. SoundStep(Journal(c), disk, {}, Put(p, f))
    BY <1>1, <1>2, <1>5, NextSound
  <2>. QED BY <2>1, PutIs DEF SoundStep, Given
<1>7. Covers(disk', disk)
  <2>1. \A q \in DOMAIN disk : disk[q].art \in ArtsOf(disk') /\ q \in DOMAIN disk'
    BY <1>4, <1>6 DEF ArtsOf
  <2>. QED BY <1>2, <1>3, <2>1, CoversIs
<1>8. Backed(staged, disk') /\ Backed(disk, disk')
  BY <1>3, <1>5, <1>7, CoversBacked DEF KeptInv
<1>9. Backed(disk', disk')
  <2>1. Holds(disk', f)
    BY <1>4, <1>6 DEF Holds, ArtsOf
  <2>2. \A q : At(disk', q) = IF q = p THEN <<f>> ELSE At(disk, q)
    BY <1>2, <1>3, AtHolding
  <2>3. \A q : At(disk', q) \in {<<>>, At(disk, q), At(disk, q)}
               \/ \E g \in File : At(disk', q) = <<g>> /\ Holds(disk', g)
    BY <2>1, <2>2
  <2>. QED BY <1>2, <1>3, <1>8, <2>3, MixedBacked
<1>. QED BY <1>1, <1>7, <1>8, <1>9

LEMMA KeptStamp == ASSUME TypeInv, JournalInv, KeptInv, NEW c \in Caller, StampStep(c) PROVE KeptInv'
<1>1. /\ Doing(c, "stamp") /\ lock' = lock /\ begun' = begun /\ slips' = slips
      /\ commits' = commits /\ staged' = staged
  BY DEF StampStep, Frame
<1>2. PICK p \in Path, S \in SUBSET Path :
          /\ call[c].steps[1] = Stamp(p, S) /\ disk' = [disk EXCEPT ![p].links = @ \cup S]
          /\ disk' \in Tree
  BY StampStepIs
<1>3. disk \in Tree /\ staged \in Tree
  BY DEF TypeInv, TreesOK
<1>4. /\ DOMAIN disk' = DOMAIN disk /\ \A q \in DOMAIN disk \ {p} : disk'[q] = disk[q]
      /\ p \in DOMAIN disk => disk'[p].art = disk[p].art /\ disk'[p].links = disk[p].links \cup S
  BY <1>2, <1>3, StampedIs
<1>5. SUFFICES ASSUME "late" \notin slips
               PROVE  Covers(disk', disk) /\ Backed(staged', disk') /\ Backed(disk', disk')
  BY <1>1, KeptGoes
<1>6. \A q \in S : IsLive(q) \/ q \in DOMAIN disk
  <2>1. SoundStep(Journal(c), disk, {}, Stamp(p, S))
    BY <1>1, <1>2, <1>5, NextSound
  <2>. QED BY <2>1, StampIs DEF SoundStep, Given
<1>7. Covers(disk', disk)
  <2>1. \A q \in DOMAIN disk : disk[q].art \in ArtsOf(disk') /\ q \in DOMAIN disk'
    BY <1>4 DEF ArtsOf
  <2>. QED BY <1>2, <1>3, <2>1, CoversIs
<1>8. Backed(staged, disk') /\ Backed(disk, disk')
  BY <1>3, <1>5, <1>7, CoversBacked DEF KeptInv
<1>9. \A q \in DOMAIN disk : Holds(disk', disk[q])
  BY <1>3, <1>8, BackedIs
<1>10. \A q \in DOMAIN disk' : Holds(disk', disk'[q])
  BY <1>4, <1>6, <1>9 DEF Holds
<1>. QED BY <1>1, <1>2, <1>7, <1>8, <1>10, BackedIs

\* Moving a file to a slot in archive/ loses nothing.
LEMMA MovedCovers ==
    ASSUME NEW d \in Tree, NEW p \in Live, NEW q \in Path, p \in DOMAIN d, q \notin DOMAIN d, NEW u \in Tree,
           \A r : At(u, r) = IF r = q THEN <<d[p]>> ELSE IF r = p THEN <<>> ELSE At(d, r)
    PROVE  Covers(u, d)
<1>1. q \in DOMAIN u /\ u[q] = d[p] /\ p # q /\ IsLive(p)
  <2>1. At(u, q) = <<d[p]>> /\ At(u, q) # <<>>
    OBVIOUS
  <2>2. q \in DOMAIN u /\ At(u, q) = <<u[q]>>
    BY <2>1, AtIs
  <2>. QED BY <2>1, <2>2 DEF Live
<1>2. ASSUME NEW r \in DOMAIN d \ {p} PROVE r \in DOMAIN u /\ u[r] = d[r]
  <2>1. At(u, r) = At(d, r) /\ At(d, r) = <<d[r]>> /\ At(d, r) # <<>>
    BY AtIs
  <2>2. r \in DOMAIN u /\ At(u, r) = <<u[r]>>
    BY <2>1, AtIs
  <2>. QED BY <2>1, <2>2
<1>3. \A r \in DOMAIN d : d[r].art \in ArtsOf(u) /\ (~IsLive(r) => r \in DOMAIN u)
  BY <1>1, <1>2 DEF ArtsOf
<1>. QED BY <1>3, CoversIs

\* ... and what was moved is backed by what covers it.
LEMMA MovedBacked ==
    ASSUME NEW d, NEW t \in Tree, NEW u \in Tree, NEW p, NEW q, p \in DOMAIN t, Backed(t, d),
           \A r : At(u, r) = IF r = q THEN <<t[p]>> ELSE IF r = p THEN <<>> ELSE At(t, r)
    PROVE  Backed(u, d)
<1>1. t[p] \in File /\ Holds(d, t[p])
  BY BackedIs, TreeIs DEF IsTree
<1>2. \A r : At(u, r) \in {<<>>, At(t, r), At(t, r)} \/ \E f \in File : At(u, r) = <<f>> /\ Holds(d, f)
  BY <1>1
<1>. QED BY <1>2, MixedBacked

LEMMA KeptMove == ASSUME TypeInv, JournalInv, KeptInv, NEW c \in Caller, MoveStep(c) PROVE KeptInv'
<1>1. /\ Doing(c, "move") /\ lock' = lock /\ begun' = begun /\ slips' = slips /\ commits' = commits
  BY DEF MoveStep, Frame
<1>2. PICK p \in Path, q \in Path :
         /\ call[c].steps[1] = Move(p, q) /\ p \in DOMAIN staged /\ p \in DOMAIN disk /\ q \notin DOMAIN disk
         /\ disk' = Holding(Without(disk, {p}), q, disk[p]) /\ disk' \in Tree
         /\ staged' = Holding(Without(staged, {p}), q, staged[p]) /\ staged' \in Tree
  BY MoveStepIs
<1>3. disk \in Tree /\ staged \in Tree
  BY DEF TypeInv, TreesOK
<1>4. \A r : At(disk', r) = IF r = q THEN <<disk[p]>> ELSE IF r = p THEN <<>> ELSE At(disk, r)
  BY <1>2, <1>3, AtMoved
<1>5. \A r : At(staged', r) = IF r = q THEN <<staged[p]>> ELSE IF r = p THEN <<>> ELSE At(staged, r)
  BY <1>2, <1>3, AtMoved
<1>6. SUFFICES ASSUME "late" \notin slips
               PROVE  Covers(disk', disk) /\ Backed(staged', disk') /\ Backed(disk', disk')
  BY <1>1, KeptGoes
<1>7. p \in Live
  <2>1. SoundStep(Journal(c), disk, {}, Move(p, q))
    BY <1>1, <1>2, <1>6, NextSound
  <2>. QED BY <2>1, MoveIs DEF SoundStep, Live
<1>8. Covers(disk', disk)
  <2>1. disk \in Tree /\ disk' \in Tree /\ p \in DOMAIN disk /\ q \notin DOMAIN disk
    BY <1>2, <1>3
  <2>. QED BY <1>4, <1>7, <2>1, MovedCovers
<1>9. Backed(staged, disk') /\ Backed(disk, disk')
  BY <1>3, <1>6, <1>8, CoversBacked DEF KeptInv
<1>10. Backed(disk', disk')
  BY <1>2, <1>3, <1>4, <1>9, MovedBacked
<1>11. Backed(staged', disk')
  BY <1>2, <1>3, <1>5, <1>9, MovedBacked
<1>. QED BY <1>8, <1>10, <1>11

LEMMA KeptAdd == ASSUME TypeInv, KeptInv, NEW c \in Caller, AddStep(c) \/ Reset(c) PROVE KeptInv'
<1>1. /\ lock' = lock /\ begun' = begun /\ slips' = slips /\ commits' = commits /\ disk' = disk
  BY DEF AddStep, Reset, Frame
<1>2. disk \in Tree /\ staged \in Tree /\ Tip \in Tree
  BY CommitsAre DEF TypeInv, TreesOK
<1>3. PICK t \in {disk, Tip} : staged' \in Tree /\ \A p : At(staged', p) \in {At(t, p), At(staged, p)}
  <2>1. CASE AddStep(c)
    BY <2>1, AddStepIs
  <2>2. CASE Reset(c)
    BY <2>2, ResetIs
  <2>. QED BY <2>1, <2>2
<1>4. ASSUME "late" \notin slips
      PROVE  Covers(disk', disk) /\ Backed(staged', disk') /\ Backed(disk', disk')
  <2>1. Backed(disk, disk) /\ Backed(staged, disk) /\ Backed(t, disk)
    BY <1>4 DEF KeptInv, Kept, Tip
  <2>2. \A p : At(staged', p) \in {<<>>, At(t, p), At(staged, p)}
    BY <1>3
  <2>3. Backed(staged', disk)
    BY <1>2, <1>3, <2>1, <2>2, MixedBacked
  <2>. QED BY <1>1, <2>1, <2>3, SelfCovers
<1>. QED BY <1>1, <1>4, KeptGoes

\* What a compensation leaves is what the operation found.
LEMMA RestoredIs ==
    ASSUME TypeInv, JournalInv, "late" \notin slips, NEW c \in Caller, Rewrite(c)
    PROVE  /\ lock = c /\ begun \in [tip : Tree, staged : Tree, disk : Tree]
           /\ disk' = begun.disk /\ Tip' = begun.tip /\ commits' = commits /\ staged' = staged
           /\ \A p \in Path : At(staged, p) \in {At(begun.staged, p), At(Tip, p)}
<1>1. /\ lock = c /\ disk' \in Tree /\ call[c].phase = "rewrite" /\ commits' = commits /\ staged' = staged
      /\ \A p : At(disk', p) = IF p \in Journal(c) THEN call[c].journal[p] ELSE At(disk, p)
  BY RewriteIs DEF Rewrite
<1>2. c # None /\ begun \in [tip : Tree, staged : Tree, disk : Tree] /\ begun.disk \in Tree
  BY <1>1, CallerIs DEF TypeInv, TreesOK
<1>3. /\ begun.tip = Tip
      /\ \A p \in Journal(c) : call[c].journal[p] = At(begun.disk, p)
      /\ \A p \in Path \ Journal(c) : At(disk, p) = At(begun.disk, p)
      /\ \A p \in Path : At(staged, p) \in {At(begun.staged, p), At(Tip, p)}
  BY <1>1 DEF JournalInv
<1>4. disk' = begun.disk
  <2>1. \A p \in Path : At(disk', p) = At(begun.disk, p)
    BY <1>1, <1>3
  <2>. QED BY <1>1, <1>2, <2>1, SameTree
<1>5. Tip' = begun.tip
  BY <1>1, <1>3 DEF Tip
<1>. QED BY <1>1, <1>2, <1>3, <1>4, <1>5

LEMMA KeptRewrite == ASSUME TypeInv, JournalInv, KeptInv, NEW c \in Caller, Rewrite(c) PROVE KeptInv'
<1>1. lock' = None /\ slips' = slips
  BY DEF Rewrite
<1>2. SUFFICES ASSUME "late" \notin slips
               PROVE  Kept(commits', disk') /\ Backed(staged', disk') /\ Backed(disk', disk')
  BY <1>1 DEF KeptInv
<1>3. /\ lock = c /\ lock # None /\ begun.staged \in Tree /\ disk' = begun.disk /\ commits' = commits
      /\ staged' = staged /\ \A p \in Path : At(staged, p) \in {At(begun.staged, p), At(Tip, p)}
  BY <1>2, RestoredIs, CallerIs
<1>4. Kept(commits, begun.disk) /\ Backed(begun.staged, begun.disk) /\ Backed(begun.disk, begun.disk)
  BY <1>2, <1>3 DEF KeptInv
<1>5. Backed(staged, begun.disk)
  <2>1. Tip \in Tree /\ staged \in Tree /\ Backed(Tip, begun.disk)
    BY <1>4, CommitsAre DEF TypeInv, TreesOK, Kept, Tip
  <2>2. \A p : At(staged, p) \in {<<>>, At(begun.staged, p), At(Tip, p)}
    <3>1. \A p : p \notin Path => At(staged, p) = <<>>
      BY <2>1, TreeIs DEF At, IsTree
    <3>. QED BY <1>3, <3>1
  <2>. QED BY <1>3, <1>4, <2>1, <2>2, MixedBacked
<1>. QED BY <1>3, <1>4, <1>5

LEMMA KeptCommit == ASSUME TypeInv, KeptInv, NEW c \in Caller, CommitStep(c) PROVE KeptInv'
<1>1. lock' = None /\ slips' = slips /\ staged' = staged /\ disk' = disk /\ Landed
  BY DEF CommitStep
<1>2. SUFFICES ASSUME "late" \notin slips
               PROVE  Kept(commits', disk) /\ Backed(staged, disk) /\ Backed(disk, disk)
  BY <1>1 DEF KeptInv
<1>3. Kept(commits, disk) /\ Backed(staged, disk) /\ Backed(disk, disk)
  BY <1>2 DEF KeptInv
<1>4. /\ Tip' = staged /\ commits' \in Seq(Tree)
      /\ \A n \in 1..Len(commits) : commits'[n] = commits[n]
      /\ \A n \in 1..Len(commits') : n \in 1..Len(commits) \/ (n = Len(commits') /\ commits'[n] = staged)
  BY <1>1, LandedIs
<1>5. DOMAIN commits' = 1..Len(commits') /\ DOMAIN commits = 1..Len(commits) /\ commits'[Len(commits')] = staged
  BY <1>4, CommitsAre DEF TypeInv, Tip
<1>6. Kept(commits', disk)
  BY <1>3, <1>4, <1>5 DEF Kept, Backed
<1>. QED BY <1>3, <1>6

\* The trees stay, and the lock with them or nobody's.
LEMMA KeptStays ==
    ASSUME KeptInv, UNCHANGED tree, slips \subseteq slips',
           lock' = None \/ (lock' = lock /\ begun' = begun)
           \/ begun' = [tip |-> Tip, staged |-> staged, disk |-> disk]
    PROVE  KeptInv'
<1>1. commits' = commits /\ staged' = staged /\ disk' = disk
  BY DEF tree
<1>. QED BY <1>1 DEF KeptInv

LEMMA CleanIs ==
    ASSUME TypeInv, NEW p, p \notin Dirty
    PROVE  At(Tip, p) = At(staged, p) /\ At(staged, p) = At(disk, p)
  BY DEF Dirty, Differ, At

\* A session's commit adds a record, or moves one to archive/, in all three trees.
LEMMA KeptSession == ASSUME TypeInv, KeptInv, SessionCommit PROVE KeptInv'
<1>1. lock' = None /\ slips \subseteq slips'
  BY DEF SessionCommit
<1>2. SUFFICES ASSUME "late" \notin slips
               PROVE  Kept(commits', disk') /\ Backed(staged', disk') /\ Backed(disk', disk')
  BY <1>1 DEF KeptInv
<1>3. Kept(commits, disk) /\ Backed(staged, disk) /\ Backed(disk, disk) /\ Backed(Tip, disk)
  BY <1>2 DEF KeptInv, Kept, Tip
<1>4. PICK S \in SUBSET Path, t \in Tree :
             /\ Creation(S, t) \/ Archival(S, t)
             /\ S \cap Dirty = {} /\ commits' = Append(commits, t)
             /\ staged' \in Tree /\ disk' \in Tree
             /\ \A p : At(staged', p) = IF p \in S THEN At(t, p) ELSE At(staged, p)
             /\ \A p : At(disk', p) = IF p \in S THEN At(t, p) ELSE At(disk, p)
  BY SessionIs
<1>5. Tip \in Tree /\ staged \in Tree /\ disk \in Tree
  BY CommitsAre DEF TypeInv, TreesOK
<1>6. \A p \in S : At(Tip, p) = At(staged, p) /\ At(staged, p) = At(disk, p)
  BY <1>4, CleanIs
<1>7. Covers(disk', disk) /\ Backed(t, disk') /\ Backed(staged', disk') /\ Backed(disk', disk')
  <2>1. ASSUME NEW p \in Live \ DOMAIN Tip, NEW a \in Art, S = {p}, t = Holding(Tip, p, New(a, {}))
        PROVE  Covers(disk', disk) /\ Backed(t, disk') /\ Backed(staged', disk') /\ Backed(disk', disk')
    <3>. DEFINE f == New(a, {})
    <3>1. p \in Path /\ f \in File /\ f.links = {}
      BY NewIs DEF Live
    <3>. HIDE DEF f
    <3>2. \A q : At(t, q) = IF q = p THEN <<f>> ELSE At(Tip, q)
      BY <1>5, <2>1, <3>1, AtHolding DEF f
    <3>3. At(disk, p) = <<>>
      BY <1>6, <2>1, AtIs
    <3>4. /\ \A q : At(disk', q) = IF q = p THEN <<f>> ELSE At(disk, q)
          /\ \A q : At(staged', q) = IF q = p THEN <<f>> ELSE At(staged, q)
      BY <1>4, <2>1, <3>2
    <3>5. p \notin DOMAIN disk /\ p \in DOMAIN disk' /\ disk'[p] = f
      <4>1. At(disk', p) = <<f>> /\ At(disk', p) # <<>>
        BY <3>4
      <4>. QED BY <3>3, <4>1, AtIs
    <3>6. ASSUME NEW q \in DOMAIN disk PROVE q \in DOMAIN disk' /\ disk'[q] = disk[q]
      <4>1. At(disk', q) = <<disk[q]>> /\ At(disk', q) # <<>>
        BY <3>4, <3>5, AtIs
      <4>. QED BY <4>1, AtIs
    <3>7. Covers(disk', disk) /\ Holds(disk', f)
      <4>1. \A q \in DOMAIN disk : disk[q].art \in ArtsOf(disk') /\ q \in DOMAIN disk'
        BY <3>6 DEF ArtsOf
      <4>2. Covers(disk', disk)
        BY <1>4, <1>5, <4>1, CoversIs
      <4>. QED BY <3>1, <3>5, <4>2 DEF Holds, ArtsOf
    <3>8. Backed(Tip, disk') /\ Backed(staged, disk') /\ Backed(disk, disk')
      BY <1>3, <1>5, <3>7, CoversBacked
    <3>9. ASSUME NEW u \in Tree, NEW v \in Tree, Backed(u, disk'),
                 \A q : At(v, q) = IF q = p THEN <<f>> ELSE At(u, q)
          PROVE  Backed(v, disk')
      <4>1. \A q : At(v, q) \in {<<>>, At(u, q), At(u, q)}
                   \/ \E g \in File : At(v, q) = <<g>> /\ Holds(disk', g)
        BY <3>1, <3>7, <3>9
      <4>. QED BY <3>9, <4>1, MixedBacked
    <3>. QED BY <1>4, <1>5, <3>2, <3>4, <3>7, <3>8, <3>9
  <2>2. ASSUME NEW p \in DOMAIN Tip \cap Live, NEW q \in Path \ (Live \cup DOMAIN Tip),
               S = {p, q}, t = Holding(Without(Tip, {p}), q, Tip[p])
        PROVE  Covers(disk', disk) /\ Backed(t, disk') /\ Backed(staged', disk') /\ Backed(disk', disk')
    <3>1. p \in Path /\ p \in DOMAIN Tip /\ q \in Path /\ q \notin DOMAIN Tip /\ p \in Live
      BY DEF Live
    <3>2. \A r : At(t, r) = IF r = q THEN <<Tip[p]>> ELSE IF r = p THEN <<>> ELSE At(Tip, r)
      BY <1>5, <2>2, <3>1, AtMoved
    <3>3. /\ At(Tip, p) = <<Tip[p]>> /\ At(Tip, q) = <<>>
          /\ At(staged, p) = <<Tip[p]>> /\ At(disk, p) = <<Tip[p]>> /\ At(disk, q) = <<>>
      BY <1>6, <2>2, <3>1, AtIs
    <3>4. /\ p \in DOMAIN disk /\ disk[p] = Tip[p] /\ p \in DOMAIN staged /\ staged[p] = Tip[p]
          /\ q \notin DOMAIN disk
      <4>1. p \in DOMAIN disk /\ p \in DOMAIN staged /\ q \notin DOMAIN disk
        BY <3>3, AtIs
      <4>2. At(disk, p) = <<disk[p]>> /\ At(staged, p) = <<staged[p]>>
        BY <4>1, AtIs
      <4>. QED BY <3>3, <4>1, <4>2
    <3>5. /\ \A r : At(disk', r) = IF r = q THEN <<disk[p]>> ELSE IF r = p THEN <<>> ELSE At(disk, r)
          /\ \A r : At(staged', r) = IF r = q THEN <<staged[p]>> ELSE IF r = p THEN <<>> ELSE At(staged, r)
      BY <1>4, <2>2, <3>2, <3>4
    <3>6. Covers(disk', disk)
      BY <1>4, <1>5, <3>1, <3>4, <3>5, MovedCovers
    <3>7. Backed(Tip, disk') /\ Backed(staged, disk') /\ Backed(disk, disk')
      BY <1>3, <1>5, <3>6, CoversBacked
    <3>8. Backed(disk', disk')
      BY <1>4, <1>5, <3>4, <3>5, <3>7, MovedBacked
    <3>9. Backed(staged', disk')
      BY <1>4, <1>5, <3>4, <3>5, <3>7, MovedBacked
    <3>10. Backed(t, disk')
      BY <1>5, <3>1, <3>2, <3>7, MovedBacked
    <3>. QED BY <3>6, <3>8, <3>9, <3>10
  <2>. QED BY <1>4, <2>1, <2>2 DEF Creation, Archival
<1>8. Kept(commits', disk')
  <2>1. Kept(commits, disk')
    BY <1>3, <1>7, KeptCovered DEF TypeInv
  <2>2. /\ DOMAIN commits' = 1..(Len(commits) + 1) /\ Len(commits') = Len(commits) + 1 /\ Len(commits) \in Nat
        /\ commits'[Len(commits')] = t /\ DOMAIN commits = 1..Len(commits)
        /\ \A n \in DOMAIN commits : commits'[n] = commits[n]
    BY <1>4 DEF TypeInv, TreesOK
  <2>3. \A n \in DOMAIN commits' : n \in DOMAIN commits \/ n = Len(commits')
    BY <2>2
  <2>. QED BY <1>7, <2>1, <2>2, <2>3 DEF Kept, Backed
<1>. QED BY <1>7, <1>8

\* A step of a pass, or the start of one, touches neither the trees nor the lock.
PassStep(c) ==
    \/ Update(c) \/ Rebuild(c) \/ ReadHead(c) \/ ReadState(c) \/ ReadStatus(c) \/ Apply(c)
    \/ Truncate(c) \/ Load(c) \/ WriteState(c)

LEMMA PassAlone ==
    ASSUME TypeInv, NEW c \in Caller, PassStep(c)
    PROVE  /\ UNCHANGED <<tree, lock, begun>> /\ slips \subseteq slips'
           /\ \A d \in Caller : lock = d => call'[d] = call[d]
<1>1. call[c].phase \notin Locked /\ UNCHANGED <<tree, lock, begun>> /\ slips \subseteq slips'
  BY DEF PassStep, Update, Rebuild, ReadHead, ReadState, ReadStatus, Apply, Truncate, Load, WriteState,
         Starts, May, PassFrame, Locked
<1>2. lock # c
  BY <1>1, PhaseLocked
<1>3. \A d \in Caller \ {c} : call'[d] = call[d]
  BY DEF PassStep, Update, Rebuild, ReadHead, ReadState, ReadStatus, Apply, Truncate, Load, WriteState,
         Ended, TypeInv
<1>. QED BY <1>1, <1>2, <1>3

StoreInv == TypeInv /\ JournalInv /\ KeptInv

LEMMA StoreInit == Init => StoreInv
<1>. SUFFICES ASSUME Init PROVE StoreInv
  OBVIOUS
<1>1. PICK t \in Seeds : commits = <<t>> /\ staged = t /\ disk = t /\ lock = None
  BY DEF Init
<1>2. Backed(t, t)
  BY SeedsAssumption DEF Backed
<1>3. Kept(commits, t)
  <2>1. DOMAIN commits = {1} /\ commits[1] = t /\ Len(commits) = 1
    BY <1>1
  <2>. QED BY <1>2, <2>1 DEF Kept
<1>4. KeptInv
  BY <1>1, <1>2, <1>3 DEF KeptInv
<1>5. JournalInv
  BY <1>1, SeedsAssumption DEF JournalInv
<1>. QED BY <1>4, <1>5, TypeInit DEF StoreInv

LEMMA JournalNext == ASSUME StoreInv, [Next]_vars PROVE JournalInv'
<1>1. TypeInv /\ JournalInv /\ KeptInv /\ slips \subseteq slips'
  BY SlipsStay DEF StoreInv
<1>2. ASSUME NEW c \in Caller, Operation(c) PROVE JournalInv'
  <2>1. CASE Update(c) \/ Rebuild(c)
    BY <1>1, <2>1, PassAlone, JournalAlone DEF PassStep
  <2>2. ASSUME NEW kind, NEW s, Enters(c, kind, s) PROVE JournalInv'
    BY <1>1, <2>2, JournalEnters
  <2>3. disk \in Tree
    BY <1>1 DEF TypeInv, TreesOK
  <2>. QED BY <1>2, <2>1, <2>2, <2>3, OperationIs
<1>3. ASSUME NEW c \in Caller, Step(c) PROVE JournalInv'
  <2>1. CASE NoteStep(c) \/ PutStep(c) \/ StampStep(c) \/ MoveStep(c) \/ AddStep(c) \/ StepFails(c) \/ Reset(c)
    BY <1>1, <2>1, JournalNote, JournalPut, JournalStamp, JournalMove, JournalAdd, JournalFails, JournalReset
  <2>2. CASE CommitStep(c) \/ Rewrite(c) \/ RestoreFails(c)
    BY <2>2, JournalFree DEF CommitStep, Rewrite, RestoreFails
  <2>3. CASE LateFailure(c)
    BY <2>3 DEF LateFailure, JournalInv
  <2>4. CASE PassStep(c)
    BY <1>1, <2>4, PassAlone, JournalAlone
  <2>. QED BY <1>3, <2>1, <2>2, <2>3, <2>4 DEF Step, PassStep
<1>4. ASSUME NEW c \in Caller, Killed(c) PROVE JournalInv'
  <2>1. CASE lock = c
    BY <1>4, <2>1, JournalFree DEF Killed
  <2>2. CASE lock # c
    <3>1. UNCHANGED <<tree, lock, begun>> /\ \A d \in Caller \ {c} : call'[d] = call[d]
      BY <1>1, <1>4, <2>2 DEF Killed, Ended, TypeInv
    <3>. QED BY <1>1, <2>2, <3>1, JournalAlone
  <2>. QED BY <2>1, <2>2
<1>5. CASE SessionCommit
  BY <1>5, JournalFree DEF SessionCommit
<1>6. CASE UNCHANGED vars
  BY <1>1, <1>6, JournalAlone DEF vars, tree
<1>. QED BY <1>2, <1>3, <1>4, <1>5, <1>6 DEF Next

LEMMA KeptNext == ASSUME StoreInv, [Next]_vars PROVE KeptInv'
<1>1. TypeInv /\ JournalInv /\ KeptInv /\ slips \subseteq slips'
  BY SlipsStay DEF StoreInv
<1>2. ASSUME NEW c \in Caller, Operation(c) PROVE KeptInv'
  <2>1. CASE Update(c) \/ Rebuild(c)
    BY <1>1, <2>1, PassAlone, KeptStays DEF PassStep
  <2>2. ASSUME NEW kind, NEW s, Enters(c, kind, s) PROVE KeptInv'
    BY <1>1, <2>2, EntersIs, KeptStays
  <2>3. disk \in Tree
    BY <1>1 DEF TypeInv, TreesOK
  <2>. QED BY <1>2, <2>1, <2>2, <2>3, OperationIs
<1>3. ASSUME NEW c \in Caller, Step(c) PROVE KeptInv'
  <2>1. CASE PutStep(c) \/ StampStep(c) \/ MoveStep(c) \/ AddStep(c) \/ Reset(c) \/ Rewrite(c) \/ CommitStep(c)
    BY <1>1, <2>1, KeptPut, KeptStamp, KeptMove, KeptAdd, KeptRewrite, KeptCommit
  <2>2. CASE NoteStep(c) \/ StepFails(c) \/ RestoreFails(c)
    BY <1>1, <2>2, KeptStays DEF NoteStep, StepFails, RestoreFails, Frame
  <2>3. CASE LateFailure(c)
    BY <2>3 DEF LateFailure, KeptInv
  <2>4. CASE PassStep(c)
    BY <1>1, <2>4, PassAlone, KeptStays
  <2>. QED BY <1>3, <2>1, <2>2, <2>3, <2>4 DEF Step, PassStep
<1>4. ASSUME NEW c \in Caller, Killed(c) PROVE KeptInv'
  <2>1. UNCHANGED tree /\ (lock' = None \/ (lock' = lock /\ begun' = begun))
    BY <1>4 DEF Killed
  <2>. QED BY <1>1, <2>1, KeptStays
<1>5. CASE SessionCommit
  BY <1>1, <1>5, KeptSession
<1>6. CASE UNCHANGED vars
  BY <1>1, <1>6, KeptStays DEF vars, tree
<1>. QED BY <1>2, <1>3, <1>4, <1>5, <1>6 DEF Next

LEMMA StoreNext == StoreInv /\ [Next]_vars => StoreInv'
  BY TypeNext, JournalNext, KeptNext DEF StoreInv

LEMMA StoreHolds == Spec => []StoreInv
<1>. QED BY StoreInit, StoreNext, PTL DEF Spec

\* A compensation (store.ts, `restore`) leaves the tree, HEAD and git's index as its operation found them,
\* whichever step failed and whatever the passes of others did meanwhile.
THEOREM FailureIsUndone == Spec => FailedChangesNothing
<1>1. StoreInv /\ [Next]_vars =>
        [\A c \in Caller : Rewrite(c) /\ "late" \notin slips =>
            /\ disk' = begun.disk
            /\ Tip' = begun.tip
            /\ \A p \in Path : At(staged', p) \in {At(begun.staged, p), At(Tip, p)}]_vars
  <2>. SUFFICES ASSUME StoreInv, NEW c \in Caller, Rewrite(c), "late" \notin slips
                PROVE  /\ disk' = begun.disk
                       /\ Tip' = begun.tip
                       /\ \A p \in Path : At(staged', p) \in {At(begun.staged, p), At(Tip, p)}
    OBVIOUS
  <2>1. /\ disk' = begun.disk /\ Tip' = begun.tip /\ staged' = staged
        /\ \A p \in Path : At(staged, p) \in {At(begun.staged, p), At(Tip, p)}
    BY RestoredIs DEF StoreInv
  <2>. QED BY <2>1
<1>. QED BY <1>1, StoreHolds, PTL DEF Spec, FailedChangesNothing

\* No operation, compensation, kill or session commit removes an article for good: each that was ever
\* at HEAD is at HEAD or on disk (store.ts: nothing is deleted, only archived).
THEOREM NothingIsRemoved == Spec => []NothingRemoved
<1>1. StoreInv => NothingRemoved
  BY DEF StoreInv, KeptInv, Kept, NothingRemoved
<1>. QED BY <1>1, StoreHolds, PTL

\* A link of HEAD into archive/ names a file that is there, as correctMemory and supersedeMemories link
\* to a slot only in the plan that fills it.
THEOREM ArchiveLinksHold == Spec => []ArchiveLinksResolve
<1>1. StoreInv => ArchiveLinksResolve
  BY DEF StoreInv, KeptInv, Kept, Backed, ArchiveLinksResolve, Tip
<1>. QED BY <1>1, StoreHolds, PTL

-----------------------------------------------------------------------------
(***************************************************************************)
(* The passes: what they leave the index holding.                          *)
(***************************************************************************)
LEMMA WholeGives ==
    ASSUME NEW t \in Tree PROVE AfterAll(<<>>, Whole(t, DOMAIN t)) = ArtOf(t)
<1>. DEFINE e == Whole(t, DOMAIN t)
            u == AfterAll(<<>>, e)
<1>1. DOMAIN t \in SUBSET Path /\ <<>> \in Rows /\ DOMAIN <<>> = {}
  BY TreeIs, NoPaths DEF IsTree
<1>2. e \in Entries /\ DOMAIN e = DOMAIN t
  BY <1>1, WholeIs DEF Whole
<1>3. \A p \in DOMAIN t : e[p].art = <<t[p].art>> /\ e[p].gone = {}
  <2>1. \A p \in DOMAIN t : p \in Path /\ e[p] = Entry(p, t, {}) /\ {} \in SUBSET Path
    BY <1>1 DEF Whole
  <2>. HIDE DEF e
  <2>. QED BY <2>1, EntryIs
<1>. HIDE DEF e
<1>4. Written(e, DOMAIN e) = DOMAIN t
  <2>1. \A p \in DOMAIN t : e[p].art # <<>>
    BY <1>3
  <2>. QED BY <1>2, <2>1 DEF Written
<1>5. /\ u \in Rows
      /\ \A p : At(u, p) = IF p \in Written(e, DOMAIN e) THEN e[p].art
                           ELSE IF p \in UNION {e[q].gone : q \in DOMAIN e} THEN <<>> ELSE At(<<>>, p)
  BY <1>1, <1>2, AfterIs DEF AfterAll
<1>. HIDE DEF u
<1>6. ASSUME NEW p \in Path PROVE At(u, p) = At(ArtOf(t), p)
  <2>1. CASE p \in DOMAIN t
    BY <1>3, <1>4, <1>5, <2>1, ArtOfIs, AtIs
  <2>2. CASE p \notin DOMAIN t
    BY <1>1, <1>4, <1>5, <2>2, ArtOfIs, AtIs
  <2>. QED BY <2>1, <2>2
<1>. QED BY <1>5, <1>6, ArtOfIs, SameRows DEF u, e

LEMMA NoEntries ==
    ASSUME NEW r \in Rows, NEW e \in Entries, DOMAIN e = {} PROVE AfterAll(r, e) = r
<1>1. /\ AfterAll(r, e) \in Rows
      /\ \A p : At(AfterAll(r, e), p) =
                  IF p \in Written(e, DOMAIN e) THEN e[p].art
                  ELSE IF p \in UNION {e[q].gone : q \in DOMAIN e} THEN <<>> ELSE At(r, p)
  BY AfterIs DEF AfterAll
<1>2. Written(e, DOMAIN e) = {} /\ UNION {e[q].gone : q \in DOMAIN e} = {}
  BY DEF Written
<1>3. \A p \in Path : At(AfterAll(r, e), p) = At(r, p)
  BY <1>1, <1>2
<1>. QED BY <1>1, <1>3, SameRows

\* What the diff between two trees leaves unread, they agree on; a renamed path is taken away by the
\* entry of the path it was renamed to.
LEMMA DiffReads ==
    ASSUME NEW old \in Tree, NEW new \in Tree
    PROVE  /\ \A p \in Moved(old, new) : /\ p \in DOMAIN old \ DOMAIN new
                                         /\ \E q \in DOMAIN Diff(old, new) : p \in Sources(old, new, q)
           /\ \A p \in Path : p \notin DOMAIN Diff(old, new) =>
                 p \in Moved(old, new) \/ At(old, p) = At(new, p)
           /\ \A q : Sources(old, new, q) \subseteq Moved(old, new)
<1>1. DOMAIN Diff(old, new) = Differ(old, new) \ Moved(old, new)
  BY DiffIs
<1>2. \A q : Sources(old, new, q) \subseteq DOMAIN old \ DOMAIN new
  BY DEF Sources
<1>3. \A p \in Moved(old, new) : p \in DOMAIN old \ DOMAIN new
  BY <1>2 DEF Moved
<1>4. ASSUME NEW p \in Moved(old, new) PROVE \E q \in DOMAIN Diff(old, new) : p \in Sources(old, new, q)
  <2>1. PICK q \in DOMAIN new : p \in Sources(old, new, q)
    BY DEF Moved
  <2>2. q \in DOMAIN new \ DOMAIN old
    BY <2>1 DEF Sources
  <2>3. At(old, q) # At(new, q)
    BY <2>2, AtIs
  <2>4. q \in Differ(old, new) /\ q \notin Moved(old, new)
    BY <1>3, <2>2, <2>3 DEF Differ
  <2>. QED BY <1>1, <2>1, <2>4
<1>5. ASSUME NEW p \in Path, p \notin DOMAIN Diff(old, new), p \notin Moved(old, new)
      PROVE  At(old, p) = At(new, p)
  <2>1. p \notin Differ(old, new)
    BY <1>1, <1>5
  <2>2. CASE p \in DOMAIN old \cup DOMAIN new
    BY <2>1, <2>2 DEF Differ
  <2>3. CASE p \notin DOMAIN old \cup DOMAIN new
    BY <2>3, AtIs
  <2>. QED BY <2>2, <2>3
<1>6. ASSUME NEW q PROVE Sources(old, new, q) \subseteq Moved(old, new)
  <2>1. CASE q \in DOMAIN new
    BY <2>1 DEF Moved
  <2>2. CASE q \notin DOMAIN new
    BY <2>2 DEF Sources
  <2>. QED BY <2>1, <2>2
<1>. QED BY <1>3, <1>4, <1>5, <1>6

\* A pass over the diff between two commits takes the rows of the one to the rows of the other.
LEMMA DiffGives ==
    ASSUME NEW old \in Tree, NEW new \in Tree
    PROVE  AfterAll(ArtOf(old), Diff(old, new)) = ArtOf(new)
<1>. DEFINE e == Diff(old, new)
            u == AfterAll(ArtOf(old), e)
            gone == UNION {e[q].gone : q \in DOMAIN e}
<1>1. /\ e \in Entries /\ DOMAIN e \subseteq Path /\ ArtOf(old) \in Rows /\ ArtOf(new) \in Rows
      /\ DOMAIN old \subseteq Path
  BY DiffIs, EntriesAre, ArtOfIs, TreeIs DEF IsTree
<1>2. \A p \in DOMAIN e : e[p] = Entry(p, new, Sources(old, new, p))
  BY DiffIs
<1>3. \A p \in DOMAIN e : p \in Path /\ Sources(old, new, p) \in SUBSET Path
  BY <1>1, SourcesIs
<1>4. /\ \A p \in Moved(old, new) : p \in DOMAIN old \ DOMAIN new
      /\ \A p \in Moved(old, new) : \E q \in DOMAIN e : p \in Sources(old, new, q)
      /\ \A p \in Path : p \notin DOMAIN e => p \in Moved(old, new) \/ At(old, p) = At(new, p)
      /\ \A q : Sources(old, new, q) \subseteq Moved(old, new)
  BY DiffReads
<1>. HIDE DEF e
<1>5. \A p \in DOMAIN e :
         /\ p \in DOMAIN new => e[p].art = <<new[p].art>> /\ e[p].gone = Sources(old, new, p)
         /\ p \notin DOMAIN new => e[p].art = <<>> /\ e[p].gone = Sources(old, new, p) \cup {p}
  BY <1>2, <1>3, EntryIs
<1>6. Written(e, DOMAIN e) = DOMAIN e \cap DOMAIN new
  BY <1>5 DEF Written
<1>7. /\ u \in Rows
      /\ \A p : At(u, p) = IF p \in Written(e, DOMAIN e) THEN e[p].art
                           ELSE IF p \in gone THEN <<>> ELSE At(ArtOf(old), p)
  BY <1>1, AfterIs DEF AfterAll
<1>8. \A p : p \in gone <=> \E q \in DOMAIN e : p \in Sources(old, new, q) \/ (p = q /\ q \notin DOMAIN new)
  BY <1>5
<1>. HIDE DEF u, gone
<1>9. ASSUME NEW p \in Path PROVE At(u, p) = At(ArtOf(new), p)
  <2>1. CASE p \in DOMAIN new /\ p \in DOMAIN e
    <3>1. At(u, p) = <<new[p].art>>
      BY <1>5, <1>6, <1>7, <2>1
    <3>. QED BY <2>1, <3>1, ArtOfIs, AtIs
  <2>2. CASE p \in DOMAIN new /\ p \notin DOMAIN e
    <3>1. p \notin Moved(old, new) /\ At(old, p) = At(new, p)
      BY <1>4, <2>2
    <3>2. p \notin gone
      BY <1>4, <1>8, <2>2, <3>1
    <3>3. p \in DOMAIN old /\ old[p] = new[p]
      BY <2>2, <3>1, AtIs
    <3>4. At(u, p) = At(ArtOf(old), p)
      BY <1>6, <1>7, <2>2, <3>2
    <3>. QED BY <2>2, <3>3, <3>4, ArtOfIs, AtIs
  <2>3. CASE p \notin DOMAIN new
    <3>1. At(ArtOf(new), p) = <<>>
      BY <2>3, ArtOfIs, AtIs
    <3>2. CASE p \in Moved(old, new) \/ p \in DOMAIN e
      <4>1. p \in gone
        BY <1>4, <1>8, <2>3, <3>2
      <4>. QED BY <1>6, <1>7, <2>3, <3>1, <4>1
    <3>3. CASE p \notin Moved(old, new) /\ p \notin DOMAIN e
      <4>1. At(old, p) = At(new, p) /\ At(new, p) = <<>>
        BY <1>4, <2>3, <3>3, AtIs
      <4>2. p \notin DOMAIN old /\ At(ArtOf(old), p) = <<>>
        BY <4>1, ArtOfIs, AtIs
      <4>. QED BY <1>7, <1>6, <2>3, <3>1, <4>2
    <3>. QED BY <3>2, <3>3
  <2>. QED BY <2>1, <2>2, <2>3
<1>. QED BY <1>1, <1>7, <1>9, SameRows DEF u, e

InPass == {"status", "apply", "load", "mark"}
Sure(s) == s \cap {"overlap", "unmarked", "dirty"} = {}

\* A step that is no pass's leaves the index as right as it was, unless it cuts a pass off.
LEMMA FreshStays ==
    ASSUME TypeInv, FreshInv, UNCHANGED index, slips \subseteq slips',
           \A n \in 1..Len(commits) : commits'[n] = commits[n],
           \A d \in Caller : call'[d] = call[d] \/ call'[d].phase \notin InPass,
           \A d \in Caller : call[d].phase = "mark" => call'[d].phase = "mark" \/ "unmarked" \in slips',
           \A d \in Caller : call[d].phase = "idle" /\ call'[d].phase # "idle" =>
               "overlap" \in slips' \/ \A b \in Caller : b # d => call'[b].phase = "idle"
    PROVE  FreshInv'
<1>. SUFFICES ASSUME Sure(slips')
              PROVE  /\ \A c, d \in Busy' : c = d
                     /\ mark' \notin {None, 0} /\ (\A c \in Caller : call'[c].phase # "mark") =>
                          rows' = ArtOf(commits'[mark'])
                     /\ \A c \in Caller :
                          /\ call'[c].phase = "mark" => rows' = ArtOf(commits'[call'[c].head])
                          /\ call'[c].phase = "load" => rows' = <<>> /\ mark' = 0
                          /\ call'[c].phase \in {"status", "apply"} => call'[c].base = mark'
                          /\ call'[c].phase = "apply" => call'[c].dirty = <<>>
  BY DEF FreshInv, Sure
<1>1. Sure(slips) /\ rows' = rows /\ mark' = mark
  BY DEF Sure, index
<1>2. /\ \A c, d \in Busy : c = d
      /\ mark \notin {None, 0} /\ (\A c \in Caller : call[c].phase # "mark") => rows = ArtOf(commits[mark])
      /\ \A c \in Caller :
           /\ call[c].phase = "mark" => rows = ArtOf(commits[call[c].head])
           /\ call[c].phase = "load" => rows = <<>> /\ mark = 0
           /\ call[c].phase \in {"status", "apply"} => call[c].base = mark
           /\ call[c].phase = "apply" => call[c].dirty = <<>>
  BY <1>1 DEF FreshInv, Sure
<1>3. \A c, d \in Busy' : c = d
  <2>. SUFFICES ASSUME NEW c \in Caller, NEW d \in Caller, call'[c].phase # "idle", call'[d].phase # "idle"
                PROVE  c = d
    BY DEF Busy
  <2>1. "overlap" \notin slips'
    BY DEF Sure
  <2>2. CASE call[c].phase # "idle" /\ call[d].phase # "idle"
    BY <1>2, <2>2 DEF Busy
  <2>. QED BY <2>1, <2>2
<1>4. ASSUME mark \notin {None, 0}, \A c \in Caller : call'[c].phase # "mark"
      PROVE  rows = ArtOf(commits'[mark])
  <2>1. \A c \in Caller : call[c].phase # "mark"
    BY <1>4 DEF Sure
  <2>2. mark \in 1..Len(commits)
    BY <1>4, CommitsAre DEF TypeInv, IndexOK
  <2>. QED BY <1>2, <1>4, <2>1, <2>2
<1>5. ASSUME NEW c \in Caller
      PROVE  /\ call'[c].phase = "mark" => rows = ArtOf(commits'[call'[c].head])
             /\ call'[c].phase = "load" => rows = <<>> /\ mark = 0
             /\ call'[c].phase \in {"status", "apply"} => call'[c].base = mark
             /\ call'[c].phase = "apply" => call'[c].dirty = <<>>
  <2>1. CASE call'[c].phase \notin InPass
    BY <2>1 DEF InPass
  <2>2. CASE call'[c] = call[c]
    <3>1. call[c].phase = "mark" => call[c].head \in 1..Len(commits)
      BY CallerIs DEF Proper
    <3>. QED BY <1>2, <2>2, <3>1
  <2>. QED BY <2>1, <2>2
<1>. QED BY <1>1, <1>3, <1>4, <1>5

\* A step of the pass: everybody else is idle.
LEMMA FreshGoes ==
    ASSUME TypeInv, FreshInv, NEW c \in Caller, call[c].phase # "idle", NEW r \in CallRec,
           call' = [call EXCEPT ![c] = r], commits' = commits, slips \subseteq slips',
           Sure(slips') =>
             /\ mark' \notin {None, 0} /\ r.phase # "mark" => rows' = ArtOf(commits[mark'])
             /\ r.phase = "mark" => rows' = ArtOf(commits[r.head])
             /\ r.phase = "load" => rows' = <<>> /\ mark' = 0
             /\ r.phase \in {"status", "apply"} => r.base = mark'
             /\ r.phase = "apply" => r.dirty = <<>>
    PROVE  FreshInv'
<1>. SUFFICES ASSUME Sure(slips')
              PROVE  /\ \A b, d \in Busy' : b = d
                     /\ mark' \notin {None, 0} /\ (\A d \in Caller : call'[d].phase # "mark") =>
                          rows' = ArtOf(commits'[mark'])
                     /\ \A d \in Caller :
                          /\ call'[d].phase = "mark" => rows' = ArtOf(commits'[call'[d].head])
                          /\ call'[d].phase = "load" => rows' = <<>> /\ mark' = 0
                          /\ call'[d].phase \in {"status", "apply"} => call'[d].base = mark'
                          /\ call'[d].phase = "apply" => call'[d].dirty = <<>>
  BY DEF FreshInv, Sure
<1>1. \A d \in Caller \ {c} : call[d].phase = "idle"
  BY DEF FreshInv, Sure, Busy
<1>2. call'[c] = r /\ \A d \in Caller \ {c} : call'[d].phase = "idle"
  BY <1>1 DEF TypeInv
<1>3. \A b, d \in Busy' : b = d
  BY <1>2 DEF Busy
<1>4. ASSUME NEW d \in Caller, d # c
      PROVE  call'[d].phase \notin {"mark", "load", "status", "apply"}
  BY <1>2, <1>4
<1>. QED BY <1>2, <1>3, <1>4

\* A call that starts, or one that holds the lock and is no pass yet.
LEMMA FreshQuiet ==
    ASSUME TypeInv, FreshInv, NEW c \in Caller, UNCHANGED index, slips \subseteq slips',
           \A n \in 1..Len(commits) : commits'[n] = commits[n],
           \A d \in Caller \ {c} : call'[d] = call[d],
           call'[c].phase \notin InPass,
           call[c].phase = "mark" => "unmarked" \in slips',
           call[c].phase = "idle" => Busy = {} \/ "overlap" \in slips'
    PROVE  FreshInv'
<1>1. \A d \in Caller : call'[d] = call[d] \/ call'[d].phase \notin InPass
  OBVIOUS
<1>2. \A d \in Caller : call[d].phase = "mark" => call'[d].phase = "mark" \/ "unmarked" \in slips'
  OBVIOUS
<1>3. ASSUME NEW d \in Caller, call[d].phase = "idle", call'[d].phase # "idle"
      PROVE  "overlap" \in slips' \/ \A b \in Caller : b # d => call'[b].phase = "idle"
  <2>1. d = c
    BY <1>3
  <2>2. CASE Busy = {}
    BY <2>1, <2>2 DEF Busy
  <2>. QED BY <1>3, <2>1, <2>2
<1>. QED BY <1>1, <1>2, <1>3, FreshStays

LEMMA StartsIs == ASSUME NEW c, NEW kind, Starts(c, kind)
                  PROVE  slips \subseteq slips' /\ (Busy = {} \/ "overlap" \in slips')
  BY DEF Starts

LEMMA FreshOperation ==
    ASSUME TypeInv, FreshInv, NEW c \in Caller, Operation(c)
    PROVE  FreshInv'
<1>1. disk \in Tree /\ call[c] \in CallRec /\ call \in [Caller -> CallRec]
  BY CallerIs DEF TypeInv, TreesOK
<1>2. ASSUME NEW kind, NEW s, Enters(c, kind, s) PROVE FreshInv'
  <2>1. /\ UNCHANGED tree /\ UNCHANGED index /\ call[c].phase = "idle"
        /\ call' = [call EXCEPT ![c] = [call[c] EXCEPT !.phase = "running", !.steps = Append(s, Commit)]]
    BY <1>2, EntersIs
  <2>2. slips \subseteq slips' /\ (Busy = {} \/ "overlap" \in slips')
    BY <1>2, StartsIs DEF Enters, Runs
  <2>3. call'[c].phase = "running" /\ \A d \in Caller \ {c} : call'[d] = call[d]
    BY <1>1, <2>1 DEF CallRec
  <2>. QED BY <2>1, <2>2, <2>3, FreshQuiet DEF tree, InPass
<1>3. CASE Update(c) \/ Rebuild(c)
  <2>1. /\ UNCHANGED tree /\ UNCHANGED index /\ call[c].phase = "idle"
        /\ call' = [call EXCEPT ![c] = [call[c] EXCEPT !.phase = IF Update(c) THEN "reindex" ELSE "truncate"]]
    BY <1>3, RequestIs
  <2>2. slips \subseteq slips' /\ (Busy = {} \/ "overlap" \in slips')
    BY <1>3, StartsIs DEF Update, Rebuild
  <2>3. call'[c].phase \in {"reindex", "truncate"} /\ \A d \in Caller \ {c} : call'[d] = call[d]
    BY <1>1, <2>1 DEF CallRec
  <2>. QED BY <2>1, <2>2, <2>3, FreshQuiet DEF tree, InPass
<1>. QED BY <1>1, <1>2, <1>3, OperationIs

\* A step under the lock is no pass's.
LEMMA FreshLocked ==
    ASSUME TypeInv, FreshInv, NEW c \in Caller,
           \/ NoteStep(c) \/ PutStep(c) \/ StampStep(c) \/ MoveStep(c) \/ AddStep(c) \/ CommitStep(c)
           \/ StepFails(c) \/ LateFailure(c) \/ Reset(c) \/ Rewrite(c) \/ RestoreFails(c)
    PROVE  FreshInv'
<1>1. call[c] \in CallRec /\ call \in [Caller -> CallRec] /\ Idle \in CallRec /\ Idle.phase = "idle"
  BY CallerIs, IdleIs DEF TypeInv
<1>2. call[c].phase \in Locked /\ UNCHANGED index /\ slips \subseteq slips'
  BY DEF NoteStep, PutStep, StampStep, MoveStep, AddStep, CommitStep, StepFails, LateFailure, Reset, Rewrite,
         RestoreFails, Frame, Doing, Locked
<1>3. \A n \in 1..Len(commits) : commits'[n] = commits[n]
  <2>1. CASE CommitStep(c) \/ LateFailure(c)
    BY <2>1, LandedIs DEF CommitStep, LateFailure
  <2>2. CASE ~(CommitStep(c) \/ LateFailure(c))
    BY <2>2 DEF NoteStep, PutStep, StampStep, MoveStep, AddStep, StepFails, Reset, Rewrite, RestoreFails, tree
  <2>. QED BY <2>1, <2>2
<1>4. call'[c].phase \in Locked \cup {"idle", "reindex"} /\ \A d \in Caller \ {c} : call'[d] = call[d]
  <2>1. CASE NoteStep(c)
    <3>. DEFINE j == Noted(call[c].journal, disk, call[c].steps[1][2])
    <3>1. call' = [call EXCEPT ![c].steps = Tail(@), ![c].journal = j]
      BY <2>1, NoteStepIs
    <3>. HIDE DEF j
    <3>. QED BY <1>1, <1>2, <3>1 DEF CallRec
  <2>2. CASE PutStep(c) \/ StampStep(c) \/ MoveStep(c) \/ AddStep(c)
    <3>1. call' = [call EXCEPT ![c].steps = Tail(@)]
      BY <2>2 DEF PutStep, StampStep, MoveStep, AddStep, Stepped
    <3>. QED BY <1>1, <1>2, <3>1 DEF CallRec
  <2>3. CASE CommitStep(c)
    <3>1. call' = [call EXCEPT ![c] = [Idle EXCEPT !.phase = "reindex"]]
      BY <2>3 DEF CommitStep
    <3>. QED BY <1>1, <3>1 DEF CallRec
  <2>4. CASE StepFails(c) \/ LateFailure(c) \/ Reset(c)
    <3>1. PICK ph \in {"reset", "rewrite"} : call' = [call EXCEPT ![c].phase = ph]
      BY <2>4 DEF StepFails, LateFailure, Reset
    <3>. QED BY <1>1, <3>1 DEF CallRec, Locked
  <2>5. CASE Rewrite(c) \/ RestoreFails(c)
    <3>1. call' = [call EXCEPT ![c] = Idle]
      BY <2>5 DEF Rewrite, RestoreFails, Ended
    <3>. QED BY <1>1, <3>1
  <2>. QED BY <2>1, <2>2, <2>3, <2>4, <2>5
<1>. QED BY <1>2, <1>3, <1>4, FreshQuiet DEF Locked, InPass

LEMMA FreshPass ==
    ASSUME TypeInv, FreshInv, NEW c \in Caller,
           ReadHead(c) \/ ReadState(c) \/ ReadStatus(c) \/ Apply(c) \/ Truncate(c) \/ Load(c) \/ WriteState(c)
    PROVE  FreshInv'
<1>1. /\ call[c] \in CallRec /\ Idle \in CallRec /\ Idle.phase = "idle" /\ call[c].phase \notin Locked \cup {"idle"}
      /\ commits' = commits /\ slips \subseteq slips'
  BY CallerIs, IdleIs
  DEF ReadHead, ReadState, ReadStatus, Apply, Truncate, Load, WriteState, PassFrame, tree, Locked
<1>2. /\ call[c].phase \in {"state", "status", "apply", "load", "mark"} => call[c].head \in 1..Len(commits)
      /\ call[c].phase \in {"status", "apply"} => call[c].base \in 1..Len(commits)
      /\ None \notin Nat /\ Len(commits) \in Nat
  BY <1>1, PassIs, SeedsAssumption
<1>3. ASSUME Sure(slips)
      PROVE  /\ mark \notin {None, 0} /\ call[c].phase # "mark" => rows = ArtOf(commits[mark])
             /\ call[c].phase = "mark" => rows = ArtOf(commits[call[c].head])
             /\ call[c].phase = "load" => rows = <<>> /\ mark = 0
             /\ call[c].phase \in {"status", "apply"} => call[c].base = mark
             /\ call[c].phase = "apply" => call[c].dirty = <<>>
  <2>1. \A d \in Caller \ {c} : call[d].phase # "mark"
    BY <1>1, <1>3 DEF FreshInv, Sure, Busy
  <2>. QED BY <1>3, <2>1 DEF FreshInv, Sure
<1>4. \A n \in 1..Len(commits) : commits[n] \in Tree
  BY CommitsAre DEF TypeInv
<1>5. CASE ReadHead(c)
  <2>. DEFINE r == [call[c] EXCEPT !.phase = "state", !.head = Len(commits)]
  <2>1. call' = [call EXCEPT ![c] = r] /\ UNCHANGED index /\ call[c].phase = "reindex"
    BY <1>5, ReadHeadIs DEF ReadHead
  <2>2. r \in CallRec /\ r.phase = "state"
    BY <1>1, <1>2 DEF CallRec
  <2>. HIDE DEF r
  <2>. QED BY <1>1, <1>3, <2>1, <2>2, FreshGoes DEF index, Sure
<1>6. CASE ReadState(c)
  <2>1. UNCHANGED index /\ call[c].phase = "state"
    BY <1>6 DEF ReadState
  <2>2. CASE mark = None /\ call' = [call EXCEPT ![c] = [call[c] EXCEPT !.phase = "truncate"]]
    <3>. DEFINE r == [call[c] EXCEPT !.phase = "truncate"]
    <3>1. r \in CallRec /\ r.phase = "truncate"
      BY <1>1 DEF CallRec
    <3>. HIDE DEF r
    <3>. QED BY <1>1, <1>3, <2>1, <2>2, <3>1, FreshGoes DEF index, r
  <2>3. CASE Ended(c)
    BY <1>1, <1>3, <2>1, <2>3, FreshGoes DEF index, Ended, Sure
  <2>4. CASE /\ mark \in 1..Len(commits)
             /\ call' = [call EXCEPT ![c] = [call[c] EXCEPT !.phase = "status", !.base = mark]]
    <3>. DEFINE r == [call[c] EXCEPT !.phase = "status", !.base = mark]
    <3>1. r \in CallRec /\ r.phase = "status" /\ r.base = mark
      <4>1. mark \in Nat
        BY <2>4
      <4>. QED BY <1>1, <4>1 DEF CallRec
    <3>2. call' = [call EXCEPT ![c] = r]
      BY <2>4
    <3>. HIDE DEF r
    <3>. QED BY <1>1, <1>3, <2>1, <3>1, <3>2, FreshGoes DEF index, Sure
  <2>. QED BY <1>6, <2>2, <2>3, <2>4, ReadStateIs
<1>7. CASE ReadStatus(c)
  <2>. DEFINE d == Reading(disk, Dirty)
              r == [call[c] EXCEPT !.phase = "apply", !.dirty = d]
  <2>1. /\ call' = [call EXCEPT ![c] = r] /\ UNCHANGED index /\ call[c].phase = "status"
        /\ slips' = slips \cup (IF Dirty = {} THEN {} ELSE {"dirty"})
        /\ d \in Readings
    BY <1>7, ReadStatusIs DEF ReadStatus
  <2>2. Dirty = {} => d = <<>>
    BY DEF Reading
  <2>. HIDE DEF d
  <2>3. r \in CallRec /\ r.phase = "apply" /\ r.base = call[c].base /\ r.dirty = d
    BY <1>1, <2>1 DEF CallRec
  <2>. HIDE DEF r
  <2>4. Sure(slips') => Dirty = {} /\ Sure(slips)
    BY <2>1 DEF Sure
  <2>. QED BY <1>1, <1>3, <2>1, <2>2, <2>3, <2>4, FreshGoes DEF index
<1>8. CASE Apply(c)
  <2>. DEFINE old == commits[call[c].base]
              new == commits[call[c].head]
              diff == Diff(old, new)
              dirty == Whole(OnDisk(call[c].dirty), DOMAIN call[c].dirty)
              r == [call[c] EXCEPT !.phase = "mark"]
  <2>1. call[c].phase = "apply" /\ mark' = mark
    BY <1>8 DEF Apply
  <2>2. \/ rows' = AfterAll(AfterAll(rows, diff), dirty) /\ call' = [call EXCEPT ![c] = r]
        \/ rows' = rows /\ call' = [call EXCEPT ![c] = Idle]
    BY <1>8, ApplyIs DEF Ended
  <2>3. old \in Tree /\ new \in Tree /\ diff \in Entries
    BY <1>2, <1>4, <2>1, DiffIs
  <2>4. r \in CallRec /\ r.phase = "mark" /\ r.head = call[c].head
    BY <1>1 DEF CallRec
  <2>5. ASSUME Sure(slips) PROVE AfterAll(AfterAll(rows, diff), dirty) = ArtOf(new)
    <3>1. /\ call[c].base = mark /\ call[c].dirty = <<>> /\ mark \in 1..Len(commits)
      BY <1>2, <1>3, <2>1, <2>5
    <3>2. mark \in Nat /\ mark # 0
      BY <3>1
    <3>3. rows = ArtOf(old)
      BY <1>2, <1>3, <2>1, <2>5, <3>1, <3>2
    <3>4. AfterAll(rows, diff) = ArtOf(new) /\ ArtOf(new) \in Rows
      BY <2>3, <3>3, DiffGives, ArtOfIs
    <3>5. dirty \in Entries /\ DOMAIN dirty = {}
      <4>1. OnDisk(call[c].dirty) \in Tree /\ DOMAIN call[c].dirty = {}
        BY <3>1, NoPaths, OnDiskIs
      <4>2. {} \in SUBSET Path
        OBVIOUS
      <4>. QED BY <4>1, <4>2, WholeIs DEF Whole
    <3>. HIDE DEF dirty, diff
    <3>. QED BY <3>4, <3>5, NoEntries
  <2>. HIDE DEF diff, dirty, r
  <2>6. CASE rows' = AfterAll(AfterAll(rows, diff), dirty) /\ call' = [call EXCEPT ![c] = r]
    <3>1. Sure(slips') => rows' = ArtOf(commits[r.head])
      BY <1>1, <2>4, <2>5, <2>6 DEF Sure
    <3>. QED BY <1>1, <2>4, <2>6, <3>1, FreshGoes
  <2>7. CASE rows' = rows /\ call' = [call EXCEPT ![c] = Idle]
    BY <1>1, <1>3, <2>1, <2>7, FreshGoes DEF Sure
  <2>. QED BY <2>2, <2>6, <2>7
<1>9. CASE Truncate(c)
  <2>. DEFINE r == [call[c] EXCEPT !.phase = "load", !.head = Len(commits)]
  <2>1. call' = [call EXCEPT ![c] = r] /\ rows' = <<>> /\ mark' = 0
    BY <1>9, TruncateIs
  <2>2. r \in CallRec /\ r.phase = "load"
    BY <1>1, <1>2 DEF CallRec
  <2>. HIDE DEF r
  <2>. QED BY <1>1, <2>1, <2>2, FreshGoes
<1>10. CASE Load(c)
  <2>. DEFINE t == commits[call[c].head]
              r == [call[c] EXCEPT !.phase = "mark"]
  <2>1. /\ call[c].phase = "load" /\ mark' = mark
        /\ \/ rows' = AfterAll(rows, Whole(t, DOMAIN t)) /\ call' = [call EXCEPT ![c] = r]
           \/ rows' = rows /\ call' = [call EXCEPT ![c] = Idle]
    BY <1>10, LoadIs DEF Ended
  <2>2. r \in CallRec /\ r.phase = "mark" /\ r.head = call[c].head
    BY <1>1 DEF CallRec
  <2>3. t \in Tree
    BY <1>2, <1>4, <2>1
  <2>. HIDE DEF r
  <2>4. CASE rows' = AfterAll(rows, Whole(t, DOMAIN t)) /\ call' = [call EXCEPT ![c] = r]
    <3>1. Sure(slips') => rows' = ArtOf(commits[r.head])
      <4>. SUFFICES ASSUME Sure(slips) PROVE rows' = ArtOf(t)
        BY <1>1, <2>2 DEF Sure
      <4>1. rows = <<>>
        BY <1>3, <2>1
      <4>. QED BY <2>3, <2>4, <4>1, WholeGives
    <3>. QED BY <1>1, <2>2, <2>4, <3>1, FreshGoes
  <2>5. CASE rows' = rows /\ call' = [call EXCEPT ![c] = Idle]
    BY <1>1, <1>3, <2>1, <2>5, FreshGoes DEF Sure
  <2>. QED BY <2>1, <2>4, <2>5
<1>11. CASE WriteState(c)
  <2>1. call[c].phase = "mark" /\ mark' = call[c].head /\ rows' = rows /\ call' = [call EXCEPT ![c] = Idle]
    BY <1>11, WriteStateIs DEF Ended
  <2>. QED BY <1>1, <1>3, <2>1, FreshGoes DEF Sure
<1>. QED BY <1>5, <1>6, <1>7, <1>8, <1>9, <1>10, <1>11

LEMMA FreshNext == ASSUME TypeInv, FreshInv, [Next]_vars PROVE FreshInv'
<1>1. ASSUME NEW c \in Caller, Operation(c) PROVE FreshInv'
  BY <1>1, FreshOperation
<1>2. ASSUME NEW c \in Caller, Step(c) PROVE FreshInv'
  BY <1>2, FreshLocked, FreshPass DEF Step
<1>3. ASSUME NEW c \in Caller, Killed(c) PROVE FreshInv'
  <2>1. /\ call' = [call EXCEPT ![c] = Idle] /\ UNCHANGED index /\ commits' = commits
        /\ slips \subseteq slips' /\ call[c].phase # "idle"
        /\ call[c].phase = "mark" => "unmarked" \in slips'
    BY <1>3 DEF Killed, Ended, tree
  <2>2. call'[c].phase = "idle" /\ \A d \in Caller \ {c} : call'[d] = call[d]
    BY <2>1, CallerIs, IdleIs DEF TypeInv
  <2>. QED BY <2>1, <2>2, FreshQuiet DEF InPass
<1>4. CASE SessionCommit
  <2>1. PICK t \in Tree : commits' = Append(commits, t)
    BY <1>4, SessionIs
  <2>2. call' = call /\ UNCHANGED index /\ slips \subseteq slips'
    BY <1>4 DEF SessionCommit
  <2>3. \A n \in 1..Len(commits) : commits'[n] = commits[n]
    BY <2>1, AppendedIs DEF TypeInv, TreesOK
  <2>. QED BY <2>2, <2>3, FreshStays
<1>5. CASE UNCHANGED vars
  BY <1>5, FreshStays DEF vars, index
<1>. QED BY <1>1, <1>2, <1>3, <1>4, <1>5 DEF Next

LEMMA FreshInit == Init => FreshInv
<1>. SUFFICES ASSUME Init PROVE FreshInv
  OBVIOUS
<1>1. PICK t \in Seeds : /\ commits = <<t>>
                         /\ mark = None \/ (rows = ArtOf(t) /\ mark = 1)
  BY DEF Init
<1>2. \A c \in Caller : call[c] = Idle /\ Idle.phase = "idle"
  BY IdleIs DEF Init
<1>3. Busy = {} /\ \A c \in Caller : call[c].phase \notin {"mark", "load", "status", "apply"}
  BY <1>2 DEF Busy
<1>4. mark \notin {None, 0} => rows = ArtOf(commits[mark])
  BY <1>1
<1>. QED BY <1>3, <1>4 DEF FreshInv

\* The rows an incremental pass leaves (indexer.ts, `update`) are those a rebuild would have written.
THEOREM FreshAgreesWithRebuild == Spec => []FreshAgrees
<1>1. TypeInv /\ FreshInv => FreshAgrees
  <2>. SUFFICES ASSUME TypeInv, FreshInv, mark = Len(commits), Busy = {},
                       slips \cap {"overlap", "unmarked", "dirty"} = {}
                PROVE  rows = ArtOf(Tip)
    BY DEF FreshAgrees
  <2>1. Len(commits) \in Nat \ {0} /\ None \notin Nat
    BY CommitsAre, SeedsAssumption DEF TypeInv
  <2>2. \A c \in Caller : call[c].phase # "mark"
    BY DEF Busy
  <2>. QED BY <2>1, <2>2 DEF FreshInv, Tip
<1>2. TypeInv /\ FreshInv /\ [Next]_vars => FreshInv'
  BY FreshNext
<1>. QED BY <1>1, <1>2, FreshInit, TypesHold, PTL DEF Spec

-----------------------------------------------------------------------------
(***************************************************************************)
(* One call at a time: an article is active once.                          *)
(***************************************************************************)
LEMMA TailIs ==
    ASSUME NEW s \in Seq(Steps), s # <<>>
    PROVE  /\ Tail(s) \in Seq(Steps) /\ Len(Tail(s)) = Len(s) - 1 /\ Len(s) \in Nat \ {0}
           /\ DOMAIN Tail(s) = 1..Len(Tail(s)) /\ DOMAIN s = 1..Len(s)
           /\ \A n \in DOMAIN Tail(s) : Tail(s)[n] = s[n + 1] /\ n + 1 \in DOMAIN s
  OBVIOUS

LEMMA CaughtTail ==
    ASSUME NEW s \in Seq(Steps), s # <<>>, NEW p, NEW n \in DOMAIN s, Caught(p, s, n),
           n = 1 => ~(s[1][1] = "add" /\ p \in s[1][2])
    PROVE  Caught(p, Tail(s), IF n = 1 THEN 1 ELSE n - 1)
<1>. DEFINE t == Tail(s)
<1>1. /\ Len(t) = Len(s) - 1 /\ Len(s) \in Nat \ {0} /\ DOMAIN t = 1..Len(t) /\ DOMAIN s = 1..Len(s)
      /\ \A m \in DOMAIN t : t[m] = s[m + 1]
  BY TailIs
<1>. HIDE DEF t
<1>2. PICK m \in n..Len(s) : s[m][1] = "add" /\ p \in s[m][2]
  BY DEF Caught
<1>3. m # 1
  BY <1>1, <1>2
<1>4. m - 1 \in DOMAIN t /\ m - 1 \in (IF n = 1 THEN 1 ELSE n - 1)..Len(t) /\ (m - 1) + 1 = m
  BY <1>1, <1>2, <1>3
<1>5. t[m - 1] = s[m]
  BY <1>1, <1>4
<1>. QED BY <1>2, <1>4, <1>5 DEF Caught, t

LEMMA SettledTail ==
    ASSUME NEW s \in Seq(Steps), s # <<>>, Settled(s) PROVE Settled(Tail(s))
<1>. DEFINE t == Tail(s)
<1>1. /\ Len(t) = Len(s) - 1 /\ Len(s) \in Nat \ {0} /\ DOMAIN t = 1..Len(t) /\ DOMAIN s = 1..Len(s)
      /\ \A m \in DOMAIN t : t[m] = s[m + 1] /\ m + 1 \in DOMAIN s
  BY TailIs
<1>2. ASSUME NEW n \in DOMAIN t
      PROVE  /\ t[n][1] = "commit" => n = Len(t)
             /\ \A p \in Wrote(t[n]) : Caught(p, t, n)
  <2>1. /\ n + 1 \in DOMAIN s /\ t[n] = s[n + 1] /\ n + 1 # 1 /\ (n + 1) - 1 = n
    BY <1>1
  <2>2. s[n + 1][1] = "commit" => n + 1 = Len(s)
    BY <2>1 DEF Settled
  <2>3. ASSUME NEW p \in Wrote(s[n + 1]) PROVE Caught(p, t, n)
    <3>1. Caught(p, s, n + 1)
      BY <2>1, <2>3 DEF Settled
    <3>2. Caught(p, t, IF n + 1 = 1 THEN 1 ELSE (n + 1) - 1)
      BY <2>1, <3>1, CaughtTail
    <3>. QED BY <2>1, <3>2
  <2>. QED BY <1>1, <2>1, <2>2, <2>3
<1>. HIDE DEF t
<1>3. Settled(t)
  BY <1>2 DEF Settled
<1>. QED BY <1>3 DEF t

\* The holder's plan after a step: what the step wrote is staged later, as what differed before.
LEMMA StagesNext ==
    ASSUME TypeInv, NEW c \in Caller, Stages(c), NEW do, Doing(c, do),
           call'[c].phase = "running", call'[c].steps = Tail(call[c].steps),
           \A p \in Path : At(disk', p) # At(staged', p) =>
               /\ At(disk, p) # At(staged, p) \/ p \in Wrote(call[c].steps[1])
               /\ do = "add" => p \notin call[c].steps[1][2]
    PROVE  Stages(c)'
<1>. DEFINE s == call[c].steps
<1>1. call[c].phase = "running" /\ s \in Seq(Steps) /\ s # <<>> /\ s[1][1] = do
  BY DoingIs, CallerIs
<1>2. Settled(s) /\ \A p \in Path : At(disk, p) # At(staged, p) => Caught(p, s, 1)
  BY <1>1 DEF Stages
<1>3. 1 \in DOMAIN s
  BY <1>1, TailIs
<1>4. ASSUME NEW p \in Path, At(disk', p) # At(staged', p) PROVE Caught(p, Tail(s), 1)
  <2>1. Caught(p, s, 1)
    <3>1. CASE p \in Wrote(s[1])
      BY <1>2, <1>3, <3>1 DEF Settled
    <3>. QED BY <1>2, <1>4, <3>1
  <2>2. ~(s[1][1] = "add" /\ p \in s[1][2])
    BY <1>1, <1>4
  <2>3. Caught(p, Tail(s), IF 1 = 1 THEN 1 ELSE 1 - 1)
    BY <1>1, <1>3, <2>1, <2>2, CaughtTail
  <2>. QED BY <2>3
<1>5. Settled(Tail(s))
  BY <1>1, <1>2, SettledTail
<1>. QED BY <1>4, <1>5 DEF Stages

LEMMA IsAtIs == ASSUME NEW t, NEW p, NEW a
                PROVE  IsAt(t, p, a) <=> At(t, p) # <<>> /\ At(t, p)[1].art = a
  BY DEF IsAt, At

\* What is planned after a step was planned before.
LEMMA PlannedNext ==
    ASSUME TypeInv, NEW c \in Caller, NEW do, Doing(c, do), NEW p, NEW a,
           call'[c].steps = Tail(call[c].steps), \A d \in Caller \ {c} : call'[d] = call[d],
           IsAt(disk', p, a) \/ IsAt(staged', p, a) => Planned(p, a)
    PROVE  Planned(p, a)' => Planned(p, a)
<1>. DEFINE s == call[c].steps
<1>1. call[c].phase = "running" /\ s \in Seq(Steps) /\ s # <<>>
  BY DoingIs, CallerIs
<1>2. ASSUME IsPut(p, a, Tail(s)) PROVE Planned(p, a)
  <2>1. PICK n \in DOMAIN Tail(s) : Tail(s)[n][1] = "put" /\ Tail(s)[n][2] = p /\ Tail(s)[n][3].art = a
    BY <1>2 DEF IsPut
  <2>2. Tail(s)[n] = s[n + 1] /\ n + 1 \in DOMAIN s
    BY <1>1, TailIs
  <2>. QED BY <1>1, <2>1, <2>2 DEF Planned, IsPut
<1>3. ASSUME NEW d \in Caller, call'[d].phase = "running", IsPut(p, a, call'[d].steps) PROVE Planned(p, a)
  <2>1. CASE d = c
    BY <1>2, <1>3, <2>1
  <2>2. CASE d # c
    BY <1>3, <2>2 DEF Planned
  <2>. QED BY <2>1, <2>2
<1>. QED BY <1>3 DEF Planned

\* The holder goes on.
LEMMA TurnHolder ==
    ASSUME TypeInv, TurnInv, NEW c \in Caller, lock = c, lock' = c, slips' = slips,
           commits' = commits, begun' = begun, UNCHANGED index,
           \A d \in Caller \ {c} : call'[d] = call[d], call'[c].phase \in Locked,
           slips = {} =>
             /\ \A p \in Live, a \in Art : Planned(p, a)' => Planned(p, a) \/ IsAt(Tip, p, a)
             /\ Stages(c)'
    PROVE  TurnInv'
<1>. SUFFICES ASSUME slips = {}
              PROVE  /\ OneEach(Tip')
                     /\ mark' = None => rows' = <<>>
                     /\ begun'.staged = Tip' /\ begun'.disk = Tip' /\ PlannedOnce'
                     /\ Indexed'
                     /\ \A d \in Caller : Stages(d)' /\ InTurn(d)'
  <2>1. lock' # None
    BY CallerIs
  <2>. QED BY <2>1 DEF TurnInv
<1>1. Tip' = Tip /\ rows' = rows /\ mark' = mark /\ c # None
  BY CallerIs DEF Tip, index
<1>2. /\ OneEach(Tip) /\ (mark = None => rows = <<>>) /\ begun.staged = Tip /\ begun.disk = Tip
      /\ PlannedOnce /\ Indexed /\ \A d \in Caller : Stages(d) /\ InTurn(d)
  BY <1>1 DEF TurnInv
<1>3. PlannedOnce'
  <2>. SUFFICES ASSUME NEW p \in Live, NEW q \in Live, NEW a \in Art,
                       Planned(p, a)', Planned(q, a)' \/ IsAt(Tip, q, a)
                PROVE  p = q
    BY <1>1 DEF PlannedOnce, IsAt
  <2>1. Planned(p, a) \/ IsAt(Tip, p, a)
    OBVIOUS
  <2>2. Planned(q, a) \/ IsAt(Tip, q, a)
    OBVIOUS
  <2>3. IsAt(Tip, p, a) /\ IsAt(Tip, q, a) => p = q
    BY <1>2 DEF OneEach, IsAt, Live
  <2>. QED BY <1>2, <2>1, <2>2, <2>3 DEF PlannedOnce
<1>4. ASSUME NEW d \in Caller PROVE Stages(d)' /\ InTurn(d)'
  <2>1. CASE d = c
    BY <2>1 DEF InTurn, Locked
  <2>2. CASE d # c
    <3>1. call'[d] = call[d] /\ InTurn(d) /\ call[d].phase # "running"
      BY <1>2, <2>2, PhaseLocked DEF Locked
    <3>. QED BY <1>1, <3>1 DEF Stages, InTurn
  <2>. QED BY <2>1, <2>2
<1>. QED BY <1>1, <1>2, <1>3, <1>4 DEF Indexed

\* A step of the plan, the commit aside.
LEMMA TurnGoes ==
    ASSUME TypeInv, TurnInv, NEW c \in Caller, NEW do, do # "commit", Doing(c, do), Frame, commits' = commits,
           call'[c].phase = "running", call'[c].steps = Tail(call[c].steps),
           \A d \in Caller \ {c} : call'[d] = call[d],
           slips = {} =>
             /\ \A p \in Live, a \in Art : IsAt(disk', p, a) \/ IsAt(staged', p, a) => Planned(p, a)
             /\ \A p \in Path : At(disk', p) # At(staged', p) =>
                  /\ At(disk, p) # At(staged, p) \/ p \in Wrote(call[c].steps[1])
                  /\ do = "add" => p \notin call[c].steps[1][2]
    PROVE  TurnInv'
<1>1. lock = c /\ lock' = c /\ slips' = slips /\ begun' = begun /\ UNCHANGED index
  BY DoingIs DEF Frame
<1>2. ASSUME slips = {}
      PROVE  /\ \A p \in Live, a \in Art : Planned(p, a)' => Planned(p, a) \/ IsAt(Tip, p, a)
             /\ Stages(c)'
  <2>1. Stages(c)
    BY <1>2 DEF TurnInv
  <2>2. Stages(c)'
    BY <1>2, <2>1, StagesNext
  <2>3. ASSUME NEW p \in Live, NEW a \in Art PROVE Planned(p, a)' => Planned(p, a)
    BY <1>2, PlannedNext
  <2>. QED BY <2>2, <2>3
<1>. QED BY <1>1, <1>2, TurnHolder DEF Locked

LEMMA TurnSteps ==
    ASSUME TypeInv, JournalInv, TurnInv, NEW c \in Caller,
           NoteStep(c) \/ PutStep(c) \/ StampStep(c) \/ MoveStep(c) \/ AddStep(c)
    PROVE  TurnInv'
<1>1. disk \in Tree /\ staged \in Tree /\ call[c] \in CallRec /\ call \in [Caller -> CallRec]
  BY CallerIs DEF TypeInv, TreesOK
<1>2. ASSUME Stepped(c), NEW do, Doing(c, do)
      PROVE  /\ call'[c].phase = "running" /\ call'[c].steps = Tail(call[c].steps)
             /\ \A d \in Caller \ {c} : call'[d] = call[d]
  <2>1. call'[c] = [call[c] EXCEPT !.steps = Tail(@)] /\ \A d \in Caller \ {c} : call'[d] = call[d]
    BY <1>2, SteppedIs
  <2>2. call[c].phase = "running"
    BY <1>2, DoingIs
  <2>. QED BY <1>1, <2>1, <2>2 DEF CallRec
<1>3. CASE NoteStep(c)
  <2>1. /\ Doing(c, "note") /\ Frame /\ commits' = commits /\ staged' = staged /\ disk' = disk
    BY <1>3 DEF NoteStep, tree
  <2>2. /\ call'[c].phase = "running" /\ call'[c].steps = Tail(call[c].steps)
        /\ \A d \in Caller \ {c} : call'[d] = call[d]
    <3>. DEFINE j == Noted(call[c].journal, disk, call[c].steps[1][2])
    <3>1. call' = [call EXCEPT ![c].steps = Tail(@), ![c].journal = j] /\ call[c].phase = "running"
      BY <1>3, <2>1, NoteStepIs, DoingIs
    <3>. HIDE DEF j
    <3>. QED BY <1>1, <3>1 DEF CallRec
  <2>3. \A p \in Live, a \in Art : IsAt(disk', p, a) \/ IsAt(staged', p, a) => Planned(p, a)
    BY <2>1 DEF Planned
  <2>4. "note" # "commit" /\ "note" # "add"
    OBVIOUS
  <2>. QED BY <2>1, <2>2, <2>3, <2>4, TurnGoes
<1>4. CASE PutStep(c)
  <2>1. Doing(c, "put") /\ Stepped(c) /\ Frame /\ commits' = commits /\ staged' = staged
    BY <1>4 DEF PutStep
  <2>2. PICK q \in Path, f \in File : call[c].steps[1] = Put(q, f) /\ disk' = Holding(disk, q, f)
    BY <1>4, PutStepIs
  <2>3. \A p : At(disk', p) = IF p = q THEN <<f>> ELSE At(disk, p)
    BY <1>1, <2>2, AtHolding
  <2>4. call[c].steps[1][1] = "put" /\ call[c].steps[1][2] = q /\ call[c].steps[1][3] = f
        /\ q \in Wrote(call[c].steps[1])
    BY <2>2, PutIs DEF Wrote
  <2>5. ASSUME NEW p \in Live, NEW a \in Art, IsAt(disk', p, a) \/ IsAt(staged', p, a) PROVE Planned(p, a)
    <3>1. CASE IsAt(disk', p, a) /\ p = q
      <4>1. f.art = a
        BY <2>3, <3>1, IsAtIs
      <4>2. 1 \in DOMAIN call[c].steps /\ call[c].phase = "running"
        BY <2>1, DoingIs, CallerIs, TailIs
      <4>. QED BY <2>4, <3>1, <4>1, <4>2 DEF Planned, IsPut
    <3>2. CASE IsAt(disk', p, a) /\ p # q
      <4>1. IsAt(disk, p, a)
        BY <2>3, <3>2, IsAtIs
      <4>. QED BY <4>1 DEF Planned
    <3>. QED BY <2>1, <2>5, <3>1, <3>2 DEF Planned
  <2>6. \A p \in Path : At(disk', p) # At(staged', p) => At(disk, p) # At(staged, p) \/ p \in Wrote(call[c].steps[1])
    BY <2>1, <2>3, <2>4
  <2>7. "put" # "commit" /\ "put" # "add"
    OBVIOUS
  <2>. QED BY <1>2, <2>1, <2>5, <2>6, <2>7, TurnGoes
<1>5. CASE StampStep(c)
  <2>1. Doing(c, "stamp") /\ Stepped(c) /\ Frame /\ commits' = commits /\ staged' = staged
    BY <1>5 DEF StampStep
  <2>2. PICK q \in Path, S \in SUBSET Path :
            call[c].steps[1] = Stamp(q, S) /\ disk' = [disk EXCEPT ![q].links = @ \cup S]
    BY <1>5, StampStepIs
  <2>3. /\ DOMAIN disk' = DOMAIN disk /\ \A p \in DOMAIN disk \ {q} : disk'[p] = disk[p]
        /\ q \in DOMAIN disk => disk'[q].art = disk[q].art
    BY <1>1, <2>2, StampedIs
  <2>4. q \in Wrote(call[c].steps[1])
    BY <2>2, StampIs DEF Wrote
  <2>5. \A p \in Live, a \in Art : IsAt(disk', p, a) \/ IsAt(staged', p, a) => Planned(p, a)
    BY <2>1, <2>3 DEF Planned, IsAt
  <2>6. \A p \in Path : At(disk', p) # At(staged', p) => At(disk, p) # At(staged, p) \/ p \in Wrote(call[c].steps[1])
    BY <2>1, <2>3, <2>4 DEF At
  <2>7. "stamp" # "commit" /\ "stamp" # "add"
    OBVIOUS
  <2>. QED BY <1>2, <2>1, <2>5, <2>6, <2>7, TurnGoes
<1>6. CASE MoveStep(c)
  <2>1. Doing(c, "move") /\ Stepped(c) /\ Frame /\ commits' = commits
    BY <1>6 DEF MoveStep
  <2>2. PICK p \in Path, q \in Path :
           /\ call[c].steps[1] = Move(p, q) /\ p \in DOMAIN staged /\ p \in DOMAIN disk /\ q \notin DOMAIN disk
           /\ disk' = Holding(Without(disk, {p}), q, disk[p])
           /\ staged' = Holding(Without(staged, {p}), q, staged[p])
    BY <1>6, MoveStepIs
  <2>3. \A r : At(disk', r) = IF r = q THEN <<disk[p]>> ELSE IF r = p THEN <<>> ELSE At(disk, r)
    BY <1>1, <2>2, AtMoved
  <2>4. \A r : At(staged', r) = IF r = q THEN <<staged[p]>> ELSE IF r = p THEN <<>> ELSE At(staged, r)
    BY <1>1, <2>2, AtMoved
  <2>5. q \in Wrote(call[c].steps[1])
    BY <2>2, MoveIs DEF Wrote
  <2>6. ASSUME slips = {}, NEW r \in Live, NEW a \in Art, IsAt(disk', r, a) \/ IsAt(staged', r, a)
        PROVE  Planned(r, a)
    <3>1. SoundStep(Journal(c), disk, {}, Move(p, q))
      BY <2>1, <2>2, <2>6, NextSound
    <3>2. r # q
      BY <3>1, MoveIs DEF SoundStep, Live
    <3>3. At(disk', r) \in {<<>>, At(disk, r)} /\ At(staged', r) \in {<<>>, At(staged, r)}
      BY <2>3, <2>4, <3>2
    <3>4. IsAt(disk, r, a) \/ IsAt(staged, r, a)
      BY <2>6, <3>3, IsAtIs
    <3>. QED BY <3>4 DEF Planned
  <2>7. \A r \in Path : At(disk', r) # At(staged', r) => At(disk, r) # At(staged, r) \/ r \in Wrote(call[c].steps[1])
    BY <2>3, <2>4, <2>5
  <2>8. "move" # "commit" /\ "move" # "add"
    OBVIOUS
  <2>. QED BY <1>2, <2>1, <2>6, <2>7, <2>8, TurnGoes
<1>7. CASE AddStep(c)
  <2>1. Doing(c, "add") /\ Stepped(c) /\ Frame /\ commits' = commits /\ disk' = disk
    BY <1>7 DEF AddStep
  <2>2. PICK S \in SUBSET Path :
           /\ call[c].steps[1] = Add(S)
           /\ \A p : At(staged', p) = IF p \in S THEN At(disk, p) ELSE At(staged, p)
    BY <1>7, AddStepIs
  <2>3. call[c].steps[1][2] = S
    BY <2>2, AddIs
  <2>4. ASSUME NEW p \in Live, NEW a \in Art, IsAt(disk', p, a) \/ IsAt(staged', p, a) PROVE Planned(p, a)
    <3>1. IsAt(disk, p, a) \/ IsAt(staged, p, a)
      BY <2>1, <2>2, <2>4, IsAtIs
    <3>. QED BY <3>1 DEF Planned
  <2>5. \A p \in Path : At(disk', p) # At(staged', p) => At(disk, p) # At(staged, p) /\ p \notin call[c].steps[1][2]
    BY <2>1, <2>2, <2>3
  <2>6. "add" # "commit"
    OBVIOUS
  <2>. QED BY <1>2, <2>1, <2>4, <2>5, <2>6, TurnGoes
<1>. QED BY <1>3, <1>4, <1>5, <1>6, <1>7

LEMMA TurnFails ==
    ASSUME TypeInv, TurnInv, NEW c \in Caller, StepFails(c) \/ Reset(c) PROVE TurnInv'
<1>1. PICK ph \in {"reset", "rewrite"} : call' = [call EXCEPT ![c].phase = ph]
  BY DEF StepFails, Reset
<1>2. /\ lock = c /\ Frame /\ commits' = commits /\ disk' = disk /\ call[c] \in CallRec
      /\ call \in [Caller -> CallRec]
  BY PhaseLocked, CallerIs DEF StepFails, Reset, Locked, tree, TypeInv
<1>3. call'[c].phase = ph /\ \A d \in Caller \ {c} : call'[d] = call[d]
  BY <1>1, <1>2 DEF CallRec
<1>4. \A p : At(staged', p) \in {At(staged, p), At(Tip, p)}
  <2>1. CASE StepFails(c)
    BY <2>1 DEF StepFails, tree
  <2>. QED BY <2>1, ResetIs
<1>5. ASSUME NEW p \in Live, NEW a \in Art, Planned(p, a)' PROVE Planned(p, a) \/ IsAt(Tip, p, a)
  <2>1. CASE IsAt(disk', p, a)
    BY <1>2, <2>1 DEF Planned
  <2>2. CASE IsAt(staged', p, a)
    <3>1. IsAt(staged, p, a) \/ IsAt(Tip, p, a)
      BY <1>4, <2>2, IsAtIs
    <3>. QED BY <3>1 DEF Planned
  <2>3. ASSUME NEW d \in Caller, call'[d].phase = "running", IsPut(p, a, call'[d].steps) PROVE Planned(p, a)
    <3>1. d # c /\ call'[d] = call[d]
      BY <1>3, <2>3
    <3>. QED BY <2>3, <3>1 DEF Planned
  <2>. QED BY <1>5, <2>1, <2>2, <2>3 DEF Planned
<1>6. Stages(c)' /\ call'[c].phase \in Locked
  BY <1>3 DEF Stages, Locked
<1>. QED BY <1>2, <1>3, <1>5, <1>6, TurnHolder DEF Frame

\* While one call runs, nobody else does anything.
LEMMA AloneIs ==
    ASSUME TypeInv, FreshInv, slips = {}, NEW c \in Caller, call[c].phase # "idle"
    PROVE  \A d \in Caller \ {c} : call[d].phase = "idle" /\ lock # d
  BY PhaseLocked DEF FreshInv, Busy, Locked

LEMMA TurnIdle ==
    ASSUME NEW d \in Caller, call'[d].phase = "idle"
    PROVE  Stages(d)' /\ InTurn(d)'
  BY DEF Stages, InTurn

LEMMA TurnRewrite ==
    ASSUME TypeInv, JournalInv, FreshInv, TurnInv, NEW c \in Caller, Rewrite(c) PROVE TurnInv'
<1>1. /\ slips' = slips /\ lock' = None /\ call' = [call EXCEPT ![c] = Idle] /\ UNCHANGED index
      /\ call[c].phase = "rewrite" /\ lock = c
  BY PhaseLocked DEF Rewrite, Ended, Locked
<1>2. SUFFICES ASSUME slips = {} PROVE TurnInv'
  BY <1>1 DEF TurnInv
<1>3. \A d \in Caller : call'[d].phase = "idle"
  <2>1. \A d \in Caller \ {c} : call[d].phase = "idle"
    BY <1>1, <1>2, AloneIs
  <2>. QED BY <1>1, <2>1, IdleIs DEF TypeInv
<1>4. c # None
  BY CallerIs
<1>5. /\ OneEach(Tip) /\ (mark = None => rows = <<>>) /\ begun.staged = Tip /\ begun.disk = Tip /\ Indexed
  BY <1>1, <1>2, <1>4 DEF TurnInv
<1>6. /\ disk' = begun.disk /\ Tip' = Tip /\ commits' = commits /\ staged' = staged
      /\ \A p \in Path : At(staged, p) \in {At(begun.staged, p), At(Tip, p)}
  <2>1. "late" \notin slips
    BY <1>2
  <2>. QED BY <2>1, RestoredIs DEF Tip
<1>7. staged = Tip
  <2>1. staged \in Tree /\ Tip \in Tree
    BY CommitsAre DEF TypeInv, TreesOK
  <2>2. \A p \in Path : At(staged, p) = At(Tip, p)
    BY <1>5, <1>6
  <2>. QED BY <2>1, <2>2, SameTree
<1>. QED BY <1>1, <1>3, <1>5, <1>6, <1>7, TurnIdle DEF TurnInv, Indexed, index

LEMMA TurnCommit ==
    ASSUME TypeInv, FreshInv, TurnInv, NEW c \in Caller, CommitStep(c) PROVE TurnInv'
<1>. DEFINE s == call[c].steps
<1>1. /\ Doing(c, "commit") /\ Landed /\ slips' = slips /\ lock' = None /\ staged' = staged /\ disk' = disk
      /\ call' = [call EXCEPT ![c] = [Idle EXCEPT !.phase = "reindex"]] /\ UNCHANGED index
  BY DEF CommitStep
<1>2. lock = c /\ call[c].phase = "running" /\ s \in Seq(Steps) /\ s # <<>> /\ s[1][1] = "commit" /\ c # None
  BY <1>1, DoingIs, CallerIs
<1>3. SUFFICES ASSUME slips = {} PROVE TurnInv'
  BY <1>1 DEF TurnInv
<1>4. /\ OneEach(Tip) /\ (mark = None => rows = <<>>) /\ PlannedOnce /\ Indexed /\ Stages(c)
  BY <1>2, <1>3 DEF TurnInv
<1>5. staged \in Tree /\ disk \in Tree /\ Len(commits) \in Nat \ {0} /\ None \notin Nat
  BY CommitsAre, SeedsAssumption DEF TypeInv, TreesOK
<1>6. disk = staged
  <2>1. 1 \in DOMAIN s /\ Len(s) \in Nat
    BY <1>2, TailIs
  <2>2. Len(s) = 1
    BY <1>2, <1>4, <2>1 DEF Stages, Settled
  <2>3. \A p : ~Caught(p, s, 1)
    BY <1>2, <2>2 DEF Caught
  <2>4. \A p \in Path : At(disk, p) = At(staged, p)
    BY <1>2, <1>4, <2>3 DEF Stages
  <2>. QED BY <1>5, <2>4, SameTree
<1>7. Tip' = staged /\ \A n \in 1..Len(commits) : commits'[n] = commits[n]
  BY <1>1, LandedIs
<1>8. /\ call'[c].phase = "reindex" /\ call'[c] \in CallRec
      /\ \A d \in Caller \ {c} : call'[d].phase = "idle"
  <2>1. \A d \in Caller \ {c} : call[d].phase = "idle"
    BY <1>2, <1>3, AloneIs
  <2>2. Idle \in CallRec
    BY <1>5, IdleIs
  <2>. QED BY <1>1, <2>1, <2>2 DEF TypeInv, CallRec
<1>9. \A p \in DOMAIN staged : IsLive(p) => p \in Live /\ staged[p].art \in Art /\ Planned(p, staged[p].art)
  <2>1. \A p \in DOMAIN staged : p \in Path /\ staged[p] \in File
    BY <1>5, TreeIs DEF IsTree
  <2>. QED BY <2>1 DEF Live, File, Planned, IsAt
<1>10. OneEach(staged)
  BY <1>4, <1>9 DEF OneEach, PlannedOnce
<1>11. Apart(Tip, staged)
  <2>1. \A q \in DOMAIN Tip : IsLive(q) => q \in Live /\ IsAt(Tip, q, Tip[q].art)
    BY CommitsAre, TreeIs DEF TypeInv, IsTree, Live, IsAt
  <2>. QED BY <1>4, <1>9, <2>1 DEF Apart, PlannedOnce
<1>12. InTurn(c)' /\ Stages(c)'
  <2>1. mark' = mark /\ mark # 0 /\ (mark # None => mark = Len(commits))
    BY <1>1, <1>4, <1>5 DEF Indexed, index
  <2>2. mark # None => commits'[mark] = Tip
    BY <1>5, <1>7, <2>1 DEF Tip
  <2>3. mark' # None => Apart(commits'[mark'], Tip')
    BY <1>7, <1>11, <2>1, <2>2
  <2>4. mark' # 0
    BY <2>1
  <2>. QED BY <1>8, <2>3, <2>4 DEF InTurn, Stages
<1>13. c \in Busy' /\ UNCHANGED index /\ \A d \in Caller : Stages(d)' /\ InTurn(d)'
  BY <1>1, <1>8, <1>12, TurnIdle DEF Busy
<1>. QED BY <1>1, <1>4, <1>6, <1>7, <1>10, <1>13 DEF TurnInv, index

LEMMA QuietStarts ==
    ASSUME TypeInv, TurnInv, NEW c \in Caller, NEW kind, Starts(c, kind), slips' = {}
    PROVE  /\ Busy = {} /\ slips = {} /\ kind # "correct" /\ lock = None /\ staged = Tip /\ disk = Tip
           /\ OneEach(Tip) /\ (mark = None => rows = <<>>) /\ Indexed
           /\ \A d \in Caller : call[d].phase = "idle"
<1>1. Busy = {} /\ slips = {} /\ kind # "correct"
  BY DEF Starts
<1>2. \A d \in Caller : call[d].phase = "idle"
  BY <1>1 DEF Busy
<1>3. lock = None
  BY <1>2, PhaseLocked DEF TypeInv, Locked
<1>. QED BY <1>1, <1>2, <1>3 DEF TurnInv

LEMMA TurnEnters ==
    ASSUME TypeInv, TurnInv, NEW c \in Caller, NEW kind, NEW s, Enters(c, kind, s) PROVE TurnInv'
<1>. DEFINE w == Append(s, Commit)
<1>1. /\ lock' = c /\ begun' = [tip |-> Tip, staged |-> staged, disk |-> disk]
      /\ UNCHANGED tree /\ UNCHANGED index /\ s \in Seq(Steps) /\ w \in Seq(Steps)
      /\ call' = [call EXCEPT ![c] = [call[c] EXCEPT !.phase = "running", !.steps = w]]
  BY EntersIs
<1>2. Closing(s) /\ PutsFit(kind, s) /\ Starts(c, kind) /\ c # None
  BY CallerIs DEF Enters, Runs
<1>3. SUFFICES ASSUME slips' = {} PROVE TurnInv'
  BY DEF TurnInv
<1>4. /\ Busy = {} /\ slips = {} /\ kind # "correct" /\ lock = None /\ staged = Tip /\ disk = Tip
      /\ OneEach(Tip) /\ (mark = None => rows = <<>>) /\ Indexed
      /\ \A d \in Caller : call[d].phase = "idle"
  BY <1>2, <1>3, QuietStarts
<1>5. commits' = commits /\ Tip' = Tip /\ staged' = staged /\ disk' = disk
  BY <1>1 DEF tree, Tip
<1>6. /\ call'[c].phase = "running" /\ call'[c].steps = w
      /\ \A d \in Caller \ {c} : call'[d].phase = "idle"
  <2>. HIDE DEF w
  <2>1. call[c] \in CallRec /\ call \in [Caller -> CallRec]
    BY CallerIs DEF TypeInv
  <2>. QED BY <1>1, <1>4, <2>1 DEF CallRec
<1>7. Settled(w) /\ StepsOf(w) = StepsOf(s) \cup {Commit}
  BY <1>1, <1>2, ClosingCommit, AppendIs
<1>. HIDE DEF w
<1>8. ASSUME NEW p, NEW a, IsPut(p, a, w)
      PROVE  \E x \in StepsOf(s) : x[1] = "put" /\ x[2] = p /\ x[3].art = a
  <2>1. PICK n \in DOMAIN w : w[n][1] = "put" /\ w[n][2] = p /\ w[n][3].art = a
    BY <1>8 DEF IsPut
  <2>2. w[n] \in StepsOf(w) /\ w[n] # Commit
    BY <2>1, CommitIs DEF StepsOf
  <2>. QED BY <1>7, <2>1, <2>2
<1>9. ASSUME NEW p \in Live, NEW a \in Art, Planned(p, a)'
      PROVE  \/ IsAt(Tip, p, a)
             \/ /\ ~IsDeduped(a)
                /\ \A y \in StepsOf(s) : y[1] = "put" /\ y[3].art = a => y[2] = p
  <2>1. IsAt(Tip, p, a) \/ IsPut(p, a, w)
    BY <1>4, <1>5, <1>6, <1>9 DEF Planned
  <2>2. CASE IsPut(p, a, w)
    <3>1. PICK x \in StepsOf(s) : x[1] = "put" /\ x[2] = p /\ x[3].art = a
      BY <1>8, <2>2
    <3>. QED BY <1>2, <1>4, <3>1 DEF PutsFit, IsAt
  <2>. QED BY <2>1, <2>2
<1>10. ASSUME NEW q \in Live, NEW a \in Art, IsAt(Tip, q, a) PROVE IsDeduped(a)
  <2>1. DOMAIN rows = DOMAIN Tip /\ \A r \in DOMAIN Tip : rows[r] = Tip[r].art
    BY <1>4, CommitsAre, ArtOfIs DEF Indexed, TypeInv
  <2>. QED BY <1>10, <2>1 DEF IsDeduped, IsAt, Live
<1>11. ASSUME NEW p \in Live, NEW q \in Live, NEW a \in Art,
              Planned(p, a)', Planned(q, a)' \/ IsAt(Tip, q, a)
       PROVE  p = q
  <2>1. CASE IsAt(Tip, p, a)
    <3>1. IsAt(Tip, q, a)
      BY <1>9, <1>10, <1>11, <2>1
    <3>. QED BY <1>4, <2>1, <3>1 DEF OneEach, IsAt, Live
  <2>2. CASE ~IsAt(Tip, p, a)
    <3>1. ~IsDeduped(a) /\ \A y \in StepsOf(s) : y[1] = "put" /\ y[3].art = a => y[2] = p
      BY <1>9, <1>11, <2>2
    <3>2. ~IsAt(Tip, q, a) /\ Planned(q, a)'
      BY <1>10, <1>11, <3>1
    <3>3. IsPut(q, a, w)
      BY <1>4, <1>5, <1>6, <3>2 DEF Planned
    <3>. QED BY <1>8, <3>1, <3>3
  <2>. QED BY <2>1, <2>2
<1>12. PlannedOnce'
  BY <1>5, <1>11 DEF PlannedOnce, IsAt
<1>13. Stages(c)' /\ InTurn(c)'
  BY <1>4, <1>5, <1>6, <1>7 DEF Stages, InTurn
<1>14. begun'.staged = Tip' /\ begun'.disk = Tip' /\ Indexed' /\ OneEach(Tip') /\ (mark' = None => rows' = <<>>)
  BY <1>1, <1>4, <1>5 DEF Indexed, index
<1>15. \A d \in Caller : Stages(d)' /\ InTurn(d)'
  BY <1>6, <1>13, TurnIdle
<1>16. lock' # None
  BY <1>1, <1>2
<1>. QED BY <1>12, <1>14, <1>15, <1>16 DEF TurnInv

LEMMA TurnRequest ==
    ASSUME TypeInv, TurnInv, NEW c \in Caller, Update(c) \/ Rebuild(c) PROVE TurnInv'
<1>1. /\ UNCHANGED <<tree, index, lock, begun>>
      /\ call' = [call EXCEPT ![c] = [call[c] EXCEPT !.phase = IF Update(c) THEN "reindex" ELSE "truncate"]]
  BY RequestIs
<1>2. \E kind : Starts(c, kind)
  BY DEF Update, Rebuild
<1>3. SUFFICES ASSUME slips' = {} PROVE TurnInv'
  BY DEF TurnInv
<1>4. /\ lock = None /\ staged = Tip /\ disk = Tip /\ OneEach(Tip) /\ (mark = None => rows = <<>>) /\ Indexed
      /\ \A d \in Caller : call[d].phase = "idle"
  BY <1>2, <1>3, QuietStarts
<1>5. commits' = commits /\ Tip' = Tip /\ staged' = staged /\ disk' = disk /\ lock' = lock
  BY <1>1 DEF tree, Tip
<1>6. call'[c].phase \in {"reindex", "truncate"} /\ \A d \in Caller \ {c} : call'[d].phase = "idle"
  <2>1. call[c] \in CallRec /\ call \in [Caller -> CallRec]
    BY CallerIs DEF TypeInv
  <2>. QED BY <1>1, <1>4, <2>1 DEF CallRec
<1>7. mark' = mark /\ rows' = rows /\ mark # 0 /\ (mark # None => commits[mark] = Tip)
  <2>1. Len(commits) \in Nat \ {0} /\ None \notin Nat
    BY CommitsAre, SeedsAssumption DEF TypeInv
  <2>. QED BY <1>1, <1>4, <2>1 DEF Indexed, index, Tip
<1>8. InTurn(c)' /\ Stages(c)'
  <2>1. Apart(Tip, Tip)
    BY <1>4 DEF OneEach, Apart
  <2>. QED BY <1>5, <1>6, <1>7, <2>1 DEF InTurn, Stages
<1>9. \A d \in Caller : Stages(d)' /\ InTurn(d)'
  BY <1>6, <1>8, TurnIdle
<1>. QED BY <1>4, <1>5, <1>7, <1>9 DEF TurnInv, Indexed

\* An index takes a pass in which no two live paths have one article, neither two entries nor an entry
\* and a row.
LEMMA AcceptsIs ==
    ASSUME NEW r \in Rows, NEW e \in Entries,
           \A p \in Written(e, DOMAIN e), q \in Path :
               IsLive(p) /\ IsLive(q) /\ (At(r, q) = e[p].art \/ (q \in DOMAIN e /\ e[q].art = e[p].art)) => p = q
    PROVE  Accepts(r, e)
<1>. SUFFICES ASSUME NEW p \in Written(e, DOMAIN e), NEW S, S = {q \in DOMAIN e : Before(q, p)}
              PROVE  ~Clashes(Without(After(r, e, S), e[p].gone), p, e[p].art[1])
  BY DEF Accepts
<1>. DEFINE u == After(r, e, S)
            v == Without(u, e[p].gone)
<1>1. S \in SUBSET DOMAIN e
  OBVIOUS
<1>2. /\ u \in Rows
      /\ \A q : At(u, q) = IF q \in Written(e, S) THEN e[q].art
                           ELSE IF q \in UNION {e[x].gone : x \in S} THEN <<>> ELSE At(r, q)
  BY <1>1, AfterIs
<1>. HIDE DEF u
<1>3. p \in DOMAIN e /\ e[p].art = <<e[p].art[1]>>
  BY EntriesAre DEF Written
<1>4. DOMAIN v \subseteq DOMAIN u /\ \A q \in DOMAIN v : v[q] = u[q]
  BY DEF Without
<1>. HIDE DEF v
<1>5. SUFFICES ASSUME IsLive(p), NEW q \in DOMAIN v, IsLive(q), v[q] = e[p].art[1] PROVE q = p
  BY DEF Clashes, u, v
<1>6. q \in Path /\ At(u, q) = e[p].art
  <2>1. q \in DOMAIN u /\ u[q] = e[p].art[1]
    BY <1>4, <1>5
  <2>2. DOMAIN u \subseteq Path
    BY <1>2, RowsIs
  <2>. QED BY <1>3, <2>1, <2>2 DEF At
<1>7. At(r, q) = e[p].art \/ (q \in DOMAIN e /\ e[q].art = e[p].art)
  <2>1. CASE q \in Written(e, S)
    BY <1>2, <1>6, <2>1 DEF Written
  <2>2. CASE q \notin Written(e, S)
    <3>1. e[p].art # <<>>
      BY DEF Written
    <3>. QED BY <1>2, <1>6, <2>2, <3>1
  <2>. QED BY <2>1, <2>2
<1>. QED BY <1>5, <1>6, <1>7

LEMMA AcceptsNone == ASSUME NEW r \in Rows, NEW e \in Entries, DOMAIN e = {} PROVE Accepts(r, e)
  BY DEF Accepts, Written

LEMMA AcceptsWhole ==
    ASSUME NEW t \in Tree, OneEach(t) PROVE Accepts(<<>>, Whole(t, DOMAIN t))
<1>. DEFINE e == Whole(t, DOMAIN t)
<1>1. DOMAIN t \in SUBSET Path /\ <<>> \in Rows /\ DOMAIN <<>> = {}
  BY TreeIs, NoPaths DEF IsTree
<1>2. e \in Entries /\ DOMAIN e = DOMAIN t
  BY <1>1, WholeIs DEF Whole
<1>3. \A p \in DOMAIN t : e[p].art = <<t[p].art>>
  <2>1. \A p \in DOMAIN t : p \in Path /\ e[p] = Entry(p, t, {}) /\ {} \in SUBSET Path
    BY <1>1 DEF Whole
  <2>. HIDE DEF e
  <2>. QED BY <2>1, EntryIs
<1>. HIDE DEF e
<1>4. ASSUME NEW p \in Written(e, DOMAIN e), NEW q \in Path, IsLive(p), IsLive(q),
             At(<<>>, q) = e[p].art \/ (q \in DOMAIN e /\ e[q].art = e[p].art)
      PROVE  p = q
  <2>1. p \in DOMAIN t /\ e[p].art = <<t[p].art>>
    BY <1>2, <1>3 DEF Written
  <2>2. q \in DOMAIN t /\ t[q].art = t[p].art
    BY <1>1, <1>2, <1>3, <1>4, <2>1 DEF At
  <2>. QED BY <1>4, <2>1, <2>2 DEF OneEach
<1>5. Accepts(<<>>, e)
  BY <1>1, <1>2, <1>4, AcceptsIs
<1>. QED BY <1>5 DEF e

LEMMA AcceptsDiff ==
    ASSUME NEW old \in Tree, NEW new \in Tree, OneEach(new), Apart(old, new)
    PROVE  Accepts(ArtOf(old), Diff(old, new))
<1>. DEFINE e == Diff(old, new)
            r == ArtOf(old)
<1>1. /\ e \in Entries /\ DOMAIN e \subseteq Path
      /\ r \in Rows /\ DOMAIN r = DOMAIN old /\ \A p \in DOMAIN old : r[p] = old[p].art
  BY DiffIs, EntriesAre, ArtOfIs
<1>2. /\ \A p \in DOMAIN e : e[p] = Entry(p, new, Sources(old, new, p))
      /\ \A p \in DOMAIN e : p \in Path /\ Sources(old, new, p) \in SUBSET Path
  <2>1. \A p \in DOMAIN e : e[p] = Entry(p, new, Sources(old, new, p))
    BY DiffIs
  <2>2. \A p \in DOMAIN e : p \in Path /\ Sources(old, new, p) \in SUBSET Path
    BY <1>1, SourcesIs
  <2>. QED BY <2>1, <2>2
<1>. HIDE DEF e, r
<1>3. \A p \in DOMAIN e : /\ p \in DOMAIN new => e[p].art = <<new[p].art>>
                          /\ p \notin DOMAIN new => e[p].art = <<>>
  BY <1>2, EntryIs
<1>4. ASSUME NEW p \in Written(e, DOMAIN e), NEW q \in Path, IsLive(p), IsLive(q),
             At(r, q) = e[p].art \/ (q \in DOMAIN e /\ e[q].art = e[p].art)
      PROVE  p = q
  <2>1. p \in DOMAIN new /\ e[p].art = <<new[p].art>>
    BY <1>3 DEF Written
  <2>2. CASE At(r, q) = e[p].art
    <3>1. q \in DOMAIN old /\ old[q].art = new[p].art
      BY <1>1, <2>1, <2>2 DEF At
    <3>. QED BY <1>4, <2>1, <3>1 DEF Apart
  <2>3. CASE q \in DOMAIN e /\ e[q].art = e[p].art
    <3>1. q \in DOMAIN new /\ new[q].art = new[p].art
      <4>1. e[q].art # <<>> /\ q \in DOMAIN e
        BY <2>1, <2>3
      <4>2. q \in DOMAIN new /\ e[q].art = <<new[q].art>>
        BY <1>3, <4>1
      <4>. QED BY <2>1, <2>3, <4>2
    <3>. QED BY <1>4, <2>1, <3>1 DEF OneEach
  <2>. QED BY <1>4, <2>2, <2>3
<1>5. Accepts(r, e)
  BY <1>1, <1>4, AcceptsIs
<1>. QED BY <1>5 DEF e, r

\* A step of a pass that runs alone.
LEMMA TurnPassing ==
    ASSUME TypeInv, FreshInv, TurnInv, NEW c \in Caller, call[c].phase \notin Locked \cup {"idle"}, NEW r,
           call' = [call EXCEPT ![c] = r], r.phase \notin Locked,
           UNCHANGED <<tree, lock, begun>>, slips \subseteq slips',
           slips' = {} =>
             /\ mark' = None => rows' = <<>>
             /\ r.phase = "idle" => rows' = ArtOf(Tip) /\ mark' \in {None, Len(commits)}
             /\ r.phase \in {"reindex", "state", "status", "apply", "truncate"} =>
                  mark' # 0 /\ (mark' # None => Apart(commits[mark'], Tip))
             /\ r.phase \in {"state", "status", "apply", "load", "mark"} => r.head = Len(commits)
    PROVE  TurnInv'
<1>. SUFFICES ASSUME slips' = {} PROVE TurnInv'
  BY DEF TurnInv
<1>1. slips = {} /\ commits' = commits /\ Tip' = Tip /\ staged' = staged /\ disk' = disk /\ lock' = lock
  BY DEF tree, Tip
<1>2. lock = None
  <2>1. \A d \in Caller \ {c} : lock # d
    BY <1>1, AloneIs
  <2>2. lock # c
    BY PhaseLocked
  <2>. QED BY <2>1, <2>2 DEF TypeInv
<1>3. OneEach(Tip) /\ staged = Tip /\ disk = Tip
  BY <1>1, <1>2 DEF TurnInv
<1>4. call'[c] = r /\ \A d \in Caller \ {c} : call'[d].phase = "idle"
  <2>1. \A d \in Caller \ {c} : call[d].phase = "idle"
    BY <1>1, AloneIs
  <2>. QED BY <2>1 DEF TypeInv
<1>5. \A d \in Caller : Stages(d)' /\ InTurn(d)'
  <2>1. Stages(c)'
    BY <1>4 DEF Stages, Locked
  <2>2. InTurn(c)'
    BY <1>1, <1>4 DEF InTurn
  <2>. QED BY <1>4, <2>1, <2>2, TurnIdle
<1>6. Busy' = {} => Indexed'
  <2>1. Busy' = {} => r.phase = "idle"
    BY <1>4 DEF Busy
  <2>. QED BY <1>1, <2>1 DEF Indexed
<1>7. mark' = None => rows' = <<>>
  OBVIOUS
<1>. QED BY <1>1, <1>2, <1>3, <1>5, <1>6, <1>7 DEF TurnInv

LEMMA TurnPass ==
    ASSUME TypeInv, FreshInv, TurnInv, NEW c \in Caller,
           ReadHead(c) \/ ReadState(c) \/ ReadStatus(c) \/ Apply(c) \/ Truncate(c) \/ Load(c) \/ WriteState(c)
    PROVE  TurnInv'
<1>1. /\ call[c] \in CallRec /\ Idle.phase = "idle" /\ call[c].phase \notin Locked \cup {"idle"}
      /\ UNCHANGED <<tree, lock, begun>> /\ slips \subseteq slips'
  BY CallerIs, IdleIs
  DEF ReadHead, ReadState, ReadStatus, Apply, Truncate, Load, WriteState, PassFrame, Locked
<1>2. /\ call[c].phase \in {"status", "apply"} => call[c].base \in 1..Len(commits)
      /\ None \notin Nat /\ Len(commits) \in Nat \ {0} /\ 0 \in Nat
  BY <1>1, PassIs, SeedsAssumption
<1>3. ASSUME slips' = {}
      PROVE  /\ slips = {} /\ OneEach(Tip) /\ (mark = None => rows = <<>>)
             /\ call[c].phase \in {"reindex", "state", "status", "apply", "truncate"} =>
                  mark # 0 /\ (mark # None => Apart(commits[mark], Tip))
             /\ call[c].phase \in {"state", "status", "apply", "load", "mark"} => call[c].head = Len(commits)
  <2>1. slips = {}
    BY <1>1, <1>3
  <2>. QED BY <2>1 DEF TurnInv, InTurn
<1>4. ASSUME slips' = {}
      PROVE  /\ mark \notin {None, 0} /\ call[c].phase # "mark" => rows = ArtOf(commits[mark])
             /\ call[c].phase = "mark" => rows = ArtOf(commits[call[c].head])
             /\ call[c].phase = "load" => rows = <<>> /\ mark = 0
             /\ call[c].phase \in {"status", "apply"} => call[c].base = mark
             /\ call[c].phase = "apply" => call[c].dirty = <<>>
  <2>1. slips = {} /\ call[c].phase # "idle"
    BY <1>1, <1>4
  <2>2. \A d \in Caller \ {c} : call[d].phase # "mark"
    BY <2>1, AloneIs
  <2>. QED BY <2>1, <2>2 DEF FreshInv
<1>5. Tip \in Tree /\ \A n \in 1..Len(commits) : commits[n] \in Tree
  BY CommitsAre DEF TypeInv
<1>6. CASE ReadHead(c)
  <2>. DEFINE r == [call[c] EXCEPT !.phase = "state", !.head = Len(commits)]
  <2>1. call' = [call EXCEPT ![c] = r] /\ UNCHANGED index /\ call[c].phase = "reindex"
    BY <1>6, ReadHeadIs DEF ReadHead
  <2>2. r.phase = "state" /\ r.head = Len(commits)
    BY <1>1 DEF CallRec
  <2>. HIDE DEF r
  <2>. QED BY <1>1, <1>3, <2>1, <2>2, TurnPassing DEF index, Locked
<1>7. CASE ReadState(c)
  <2>1. UNCHANGED index /\ call[c].phase = "state"
    BY <1>7 DEF ReadState
  <2>2. CASE mark = None /\ call' = [call EXCEPT ![c] = [call[c] EXCEPT !.phase = "truncate"]]
    <3>. DEFINE r == [call[c] EXCEPT !.phase = "truncate"]
    <3>1. r.phase = "truncate"
      BY <1>1 DEF CallRec
    <3>2. call' = [call EXCEPT ![c] = r]
      BY <2>2
    <3>. HIDE DEF r
    <3>. QED BY <1>1, <1>3, <2>1, <3>1, <3>2, TurnPassing DEF index, Locked
  <2>3. CASE mark = 0 /\ Ended(c)
    <3>1. slips' # {}
      BY <1>3, <2>1, <2>3
    <3>. QED BY <3>1 DEF TurnInv
  <2>4. CASE /\ mark \in 1..Len(commits)
             /\ call' = [call EXCEPT ![c] = [call[c] EXCEPT !.phase = "status", !.base = mark]]
    <3>. DEFINE r == [call[c] EXCEPT !.phase = "status", !.base = mark]
    <3>1. r.phase = "status" /\ r.head = call[c].head
      BY <1>1 DEF CallRec
    <3>2. call' = [call EXCEPT ![c] = r]
      BY <2>4
    <3>. HIDE DEF r
    <3>. QED BY <1>1, <1>3, <2>1, <3>1, <3>2, TurnPassing DEF index, Locked
  <2>. QED BY <1>7, <2>2, <2>3, <2>4, ReadStateIs
<1>8. CASE ReadStatus(c)
  <2>. DEFINE d == Reading(disk, Dirty)
              r == [call[c] EXCEPT !.phase = "apply", !.dirty = d]
  <2>1. call' = [call EXCEPT ![c] = r] /\ UNCHANGED index /\ call[c].phase = "status"
    BY <1>8, ReadStatusIs DEF ReadStatus
  <2>. HIDE DEF d
  <2>2. r.phase = "apply" /\ r.head = call[c].head
    BY <1>1 DEF CallRec
  <2>. HIDE DEF r
  <2>. QED BY <1>1, <1>3, <2>1, <2>2, TurnPassing DEF index, Locked
<1>9. CASE Apply(c)
  <2>. DEFINE old == commits[call[c].base]
              new == commits[call[c].head]
              diff == Diff(old, new)
              dirty == Whole(OnDisk(call[c].dirty), DOMAIN call[c].dirty)
              r == [call[c] EXCEPT !.phase = "mark"]
  <2>1. call[c].phase = "apply" /\ mark' = mark
    BY <1>9 DEF Apply
  <2>2. \/ call' = [call EXCEPT ![c] = r]
        \/ ~(Accepts(rows, diff) /\ Accepts(AfterAll(rows, diff), dirty))
    BY <1>9, ApplyIs
  <2>3. r.phase = "mark" /\ r.head = call[c].head
    BY <1>1 DEF CallRec
  <2>4. ASSUME slips' = {}
        PROVE  mark # None /\ Accepts(rows, diff) /\ Accepts(AfterAll(rows, diff), dirty)
    <3>1. /\ call[c].base = mark /\ call[c].dirty = <<>> /\ mark \in 1..Len(commits)
          /\ call[c].head = Len(commits)
      BY <1>2, <1>3, <1>4, <2>1, <2>4
    <3>2. mark \in Nat /\ mark # 0 /\ mark # None
      BY <1>2, <3>1
    <3>3. new = Tip /\ old \in Tree /\ new \in Tree
      BY <1>5, <3>1 DEF Tip
    <3>4. rows = ArtOf(old)
      BY <1>4, <2>1, <2>4, <3>1, <3>2
    <3>5. OneEach(new) /\ Apart(old, new)
      BY <1>3, <2>1, <2>4, <3>1, <3>2, <3>3
    <3>6. Accepts(rows, diff) /\ AfterAll(rows, diff) \in Rows
      <4>1. Accepts(ArtOf(old), diff) /\ AfterAll(ArtOf(old), diff) = ArtOf(new) /\ ArtOf(new) \in Rows
        <5>. HIDE DEF old, new
        <5>. QED BY <3>3, <3>5, AcceptsDiff, DiffGives, ArtOfIs
      <4>. QED BY <3>4, <4>1
    <3>7. dirty \in Entries /\ DOMAIN dirty = {}
      <4>1. OnDisk(call[c].dirty) \in Tree /\ DOMAIN call[c].dirty = {}
        BY <3>1, NoPaths, OnDiskIs
      <4>2. {} \in SUBSET Path
        OBVIOUS
      <4>. QED BY <4>1, <4>2, WholeIs DEF Whole
    <3>. HIDE DEF dirty, diff
    <3>. QED BY <3>2, <3>6, <3>7, AcceptsNone
  <2>. HIDE DEF diff, dirty, r
  <2>5. SUFFICES ASSUME slips' = {} PROVE TurnInv'
    BY DEF TurnInv
  <2>6. call' = [call EXCEPT ![c] = r] /\ mark' # None
    BY <2>1, <2>2, <2>4, <2>5
  <2>. QED BY <1>1, <1>3, <2>1, <2>3, <2>6, TurnPassing DEF Locked
<1>10. CASE Truncate(c)
  <2>. DEFINE r == [call[c] EXCEPT !.phase = "load", !.head = Len(commits)]
  <2>1. call' = [call EXCEPT ![c] = r] /\ mark' = 0
    BY <1>10, TruncateIs
  <2>2. r.phase = "load" /\ r.head = Len(commits)
    BY <1>1 DEF CallRec
  <2>3. mark' # None
    BY <1>2, <2>1
  <2>. HIDE DEF r
  <2>. QED BY <1>1, <2>1, <2>2, <2>3, TurnPassing DEF Locked
<1>11. CASE Load(c)
  <2>. DEFINE t == commits[call[c].head]
              r == [call[c] EXCEPT !.phase = "mark"]
  <2>1. /\ call[c].phase = "load" /\ mark' = mark
        /\ call' = [call EXCEPT ![c] = r] \/ ~Accepts(rows, Whole(t, DOMAIN t))
    BY <1>11, LoadIs
  <2>2. r.phase = "mark" /\ r.head = call[c].head
    BY <1>1 DEF CallRec
  <2>. HIDE DEF r
  <2>3. SUFFICES ASSUME slips' = {} PROVE TurnInv'
    BY DEF TurnInv
  <2>4. rows = <<>> /\ mark = 0 /\ call[c].head = Len(commits)
    BY <1>3, <1>4, <2>1, <2>3
  <2>5. Accepts(rows, Whole(t, DOMAIN t))
    <3>1. t = Tip /\ OneEach(Tip)
      BY <1>3, <2>3, <2>4 DEF Tip
    <3>. QED BY <1>5, <2>4, <3>1, AcceptsWhole
  <2>6. call' = [call EXCEPT ![c] = r] /\ mark' # None
    BY <1>2, <2>1, <2>4, <2>5
  <2>. QED BY <1>1, <1>3, <2>1, <2>2, <2>6, TurnPassing DEF Locked
<1>12. CASE WriteState(c)
  <2>1. call[c].phase = "mark" /\ mark' = call[c].head /\ rows' = rows /\ call' = [call EXCEPT ![c] = Idle]
    BY <1>12, WriteStateIs DEF Ended
  <2>2. ASSUME slips' = {} PROVE rows' = ArtOf(Tip) /\ mark' = Len(commits) /\ mark' # None
    <3>1. call[c].head = Len(commits) /\ rows = ArtOf(commits[call[c].head])
      BY <1>3, <1>4, <2>1, <2>2
    <3>2. Len(commits) # None
      BY <1>2
    <3>. QED BY <2>1, <3>1, <3>2 DEF Tip
  <2>3. Idle.phase \notin Locked
    BY <1>1 DEF Locked
  <2>. QED BY <1>1, <2>1, <2>2, <2>3, TurnPassing
<1>. QED BY <1>6, <1>7, <1>8, <1>9, <1>10, <1>11, <1>12

LEMMA TurnNext == ASSUME StoreInv, FreshInv, TurnInv, [Next]_vars PROVE TurnInv'
<1>1. TypeInv /\ JournalInv
  BY DEF StoreInv
<1>2. ASSUME NEW c \in Caller, Operation(c) PROVE TurnInv'
  <2>1. CASE Update(c) \/ Rebuild(c)
    BY <1>1, <2>1, TurnRequest
  <2>2. ASSUME NEW kind, NEW s, Enters(c, kind, s) PROVE TurnInv'
    BY <1>1, <2>2, TurnEnters
  <2>3. disk \in Tree
    BY <1>1 DEF TypeInv, TreesOK
  <2>. QED BY <1>2, <2>1, <2>2, <2>3, OperationIs
<1>3. ASSUME NEW c \in Caller, Step(c) PROVE TurnInv'
  <2>1. CASE NoteStep(c) \/ PutStep(c) \/ StampStep(c) \/ MoveStep(c) \/ AddStep(c)
    BY <1>1, <2>1, TurnSteps
  <2>2. CASE StepFails(c) \/ Reset(c)
    BY <1>1, <2>2, TurnFails
  <2>3. CASE CommitStep(c)
    BY <1>1, <2>3, TurnCommit
  <2>4. CASE Rewrite(c)
    BY <1>1, <2>4, TurnRewrite
  <2>5. CASE LateFailure(c) \/ RestoreFails(c)
    BY <2>5 DEF LateFailure, RestoreFails, TurnInv
  <2>6. CASE ReadHead(c) \/ ReadState(c) \/ ReadStatus(c) \/ Apply(c) \/ Truncate(c) \/ Load(c) \/ WriteState(c)
    BY <1>1, <2>6, TurnPass
  <2>. QED BY <1>3, <2>1, <2>2, <2>3, <2>4, <2>5, <2>6 DEF Step
<1>4. ASSUME NEW c \in Caller, Killed(c) PROVE TurnInv'
  BY <1>4 DEF Killed, TurnInv
<1>5. CASE SessionCommit
  BY <1>5 DEF SessionCommit, TurnInv
<1>6. CASE UNCHANGED vars
  BY <1>6 DEF vars, TurnInv, PlannedOnce, Planned, Stages, InTurn, Indexed, Busy, Tip, tree, index
<1>. QED BY <1>2, <1>3, <1>4, <1>5, <1>6 DEF Next

LEMMA TurnInit == Init => TurnInv
<1>. SUFFICES ASSUME Init PROVE TurnInv
  OBVIOUS
<1>1. PICK t \in Seeds :
         /\ commits = <<t>> /\ staged = t /\ disk = t /\ lock = None
         /\ \/ rows = <<>> /\ mark = None /\ slips = (IF t = <<>> THEN {} ELSE {"unindexed"})
            \/ OneEach(t) /\ rows = ArtOf(t) /\ mark = 1 /\ slips = {}
  BY DEF Init
<1>2. Len(commits) = 1 /\ Tip = t
  BY <1>1 DEF Tip
<1>3. SUFFICES ASSUME slips = {} PROVE TurnInv
  BY DEF TurnInv
<1>4. OneEach(t) /\ (mark = None => rows = <<>>) /\ Indexed
  <2>1. CASE t = <<>> /\ rows = <<>> /\ mark = None
    <3>1. OneEach(<<>>) /\ ArtOf(<<>>) = <<>>
      BY DEF OneEach, ArtOf
    <3>. QED BY <1>2, <2>1, <3>1 DEF Indexed
  <2>2. CASE OneEach(t) /\ rows = ArtOf(t) /\ mark = 1
    BY <1>2, <2>2, SeedsAssumption DEF Indexed
  <2>. QED BY <1>1, <1>3, <2>1, <2>2
<1>5. \A c \in Caller : call[c].phase = "idle"
  BY IdleIs DEF Init
<1>6. \A c \in Caller : Stages(c) /\ InTurn(c)
  BY <1>5 DEF Stages, InTurn
<1>. QED BY <1>1, <1>2, <1>4, <1>6 DEF TurnInv

\* One call at a time, with the index there, HEAD never holds an article in two live files, and so every
\* pass over it is accepted (store.ts, `activePathForHash`; files_content_hash_active).
THEOREM ActiveOnceHolds == Spec => []ActiveOnceInTurn
<1>1. TurnInv => ActiveOnceInTurn
  BY DEF TurnInv, ActiveOnceInTurn, ActiveOnce
<1>2. TypeInv /\ FreshInv /\ [Next]_vars => FreshInv'
  BY FreshNext
<1>3. StoreInv /\ FreshInv /\ TurnInv /\ [Next]_vars => TurnInv'
  BY TurnNext
<1>4. StoreInv => TypeInv
  BY DEF StoreInv
<1>. QED BY <1>1, <1>2, <1>3, <1>4, FreshInit, TurnInit, StoreHolds, PTL DEF Spec
=============================================================================
