-------------------------- MODULE HeadServerProofs --------------------------
(***************************************************************************)
(* What HeadServer guarantees for any servers, sessions, calls and bounds, *)
(* and under every failure of `Env`, proved with TLAPS: first what lands,  *)
(* then what a server answers and holds.                                   *)
(***************************************************************************)
EXTENDS HeadServer, TLAPS

Commit == [by : Session \cup {None}, call : Calls \cup {None}, base : Nat, facts : SUBSET Fact]
Log == [base : Nat, ops : SUBSET Fact, pending : Nat \cup {None}]
CallRec ==
    [kind : CallKinds \cup {None}, s : Session \cup {None},
     user : {"unborn", "waiting", "failed", "answered", "outdated", "refused", "rebase-needed",
             "rebased", "committed"},
     at : Server \cup {None, "local"},
     phase : {"none", "queued", "resume", "fresh", "save", "judge", "drop", "final", "follow"},
     copy : Log, version : Nat, sha : Nat, rounds : Nat, asked : Nat]
ServerRec == [phase : {"down", "loaded", "unlink", "claimed", "up"}, held : Nat,
              gate : Calls \cup {None}, advance : Calls \cup Server \cup {None}]
LookRec == [phase : {"none", "read", "compare", "wait", "build"}, seen : Nat]

\* What the first n commits of a history hold.
TreeOf(h, n) == UNION {h[m].facts : m \in 1..n}

\* g is h, or h and what was committed since.
Extends(h, g) ==
    /\ h \in Seq(Commit) /\ g \in Seq(Commit)
    /\ 1 <= Len(h) /\ Len(h) <= Len(g) /\ \A n \in 1..Len(h) : g[n] = h[n]

\* A log, a call, a server and a look-up name only commits that were made; what a `pending`
\* stands beside is in its tree; and a call judges over its own base.
LogFits(l, h) ==
    /\ l \in Log /\ l.base <= Len(h)
    /\ l.pending # None => l.pending \in 1..Len(h) /\ l.ops \subseteq TreeOf(h, l.pending)
CallFits(c, h) ==
    /\ c \in CallRec /\ LogFits(c.copy, h)
    /\ c.version <= Len(h) /\ c.sha <= Len(h) /\ c.asked <= Len(h)
    /\ c.phase \in {"judge", "drop"} => c.version = c.copy.base
    /\ c.at # None => c.s \in Session /\ c.kind \in CallKinds
ServerFits(v, h) == v \in ServerRec /\ v.held <= Len(h)
LookFits(l, h) == l \in LookRec /\ l.seen <= Len(h)

Fit ==
    /\ history \in Seq(Commit) /\ 1 <= Tip
    /\ log \in [Session -> Log] /\ \A s \in Session : LogFits(log[s], history)
    /\ call \in [Calls -> CallRec] /\ \A k \in Calls : CallFits(call[k], history)
    /\ server \in [Server -> ServerRec] /\ \A w \in Server : ServerFits(server[w], history)
    /\ look \in [Calls \cup Server -> LookRec]
    /\ \A r \in Calls \cup Server : LookFits(look[r], history)
    /\ slock \in [Session -> Calls \cup {None}]
    /\ socket \in Server \cup {None, "stale"}
    /\ events \in Nat /\ put \in [Session -> SUBSET Fact]

-----------------------------------------------------------------------------
(* Histories only grow, and what fits one fits those that extend it. *)

LEMMA TreeIs == ASSUME NEW n PROVE Tree(n) = TreeOf(history, n)
  BY DEF Tree, TreeOf

LEMMA TreeGrows == ASSUME NEW h, NEW g, Extends(h, g), NEW m \in Nat, NEW n \in Nat, m <= n, n <= Len(g)
                   PROVE  /\ TreeOf(g, m) \subseteq TreeOf(g, n)
                          /\ m <= Len(h) => TreeOf(h, m) = TreeOf(g, m)
<1>1. 1..m \subseteq 1..n
  OBVIOUS
<1>2. TreeOf(g, m) \subseteq TreeOf(g, n)
  BY <1>1 DEF TreeOf
<1>3. ASSUME m <= Len(h) PROVE TreeOf(h, m) = TreeOf(g, m)
  <2>1. Len(h) \in Nat
    BY DEF Extends
  <2>2. \A i \in 1..m : i \in 1..Len(h) /\ h[i] = g[i]
    BY <1>3, <2>1 DEF Extends
  <2>. QED BY <2>2 DEF TreeOf
<1>. QED BY <1>2, <1>3

LEMMA SameExtends == ASSUME NEW h \in Seq(Commit), 1 <= Len(h) PROVE Extends(h, h)
  BY DEF Extends

LEMMA AppendExtends == ASSUME NEW h \in Seq(Commit), 1 <= Len(h), NEW c \in Commit
                       PROVE  /\ Extends(h, Append(h, c))
                              /\ Len(Append(h, c)) = Len(h) + 1
                              /\ Append(h, c)[Len(h) + 1] = c
                              /\ c.facts \subseteq TreeOf(Append(h, c), Len(h) + 1)
<1>1. /\ Append(h, c) \in Seq(Commit) /\ Len(Append(h, c)) = Len(h) + 1
      /\ Append(h, c)[Len(h) + 1] = c /\ \A n \in 1..Len(h) : Append(h, c)[n] = h[n]
  OBVIOUS
<1>2. Len(h) \in Nat
  OBVIOUS
<1>3. Len(h) + 1 \in 1..(Len(h) + 1)
  BY <1>2
<1>4. c.facts \subseteq TreeOf(Append(h, c), Len(h) + 1)
  BY <1>1, <1>3 DEF TreeOf
<1>. QED BY <1>1, <1>2, <1>4 DEF Extends

LEMMA StillFits == ASSUME NEW h, NEW g, Extends(h, g)
                   PROVE  /\ \A l : LogFits(l, h) => LogFits(l, g)
                          /\ \A c : CallFits(c, h) => CallFits(c, g)
                          /\ \A v : ServerFits(v, h) => ServerFits(v, g)
                          /\ \A l : LookFits(l, h) => LookFits(l, g)
<1>1. Len(h) \in Nat /\ Len(g) \in Nat /\ Len(h) <= Len(g)
  BY DEF Extends
<1>2. ASSUME NEW l, LogFits(l, h) PROVE LogFits(l, g)
  <2>1. CASE l.pending = None
    BY <1>1, <1>2, <2>1 DEF LogFits, Log
  <2>2. CASE l.pending # None
    <3>1. l.pending \in Nat /\ l.pending <= Len(h)
      BY <1>1, <1>2, <2>2 DEF LogFits
    <3>2. TreeOf(h, l.pending) = TreeOf(g, l.pending)
      BY <1>1, <3>1, TreeGrows
    <3>. QED BY <1>1, <1>2, <2>2, <3>1, <3>2 DEF LogFits, Log
  <2>. QED BY <2>1, <2>2
<1>3. ASSUME NEW c, CallFits(c, h) PROVE CallFits(c, g)
  BY <1>1, <1>2, <1>3 DEF CallFits, CallRec
<1>. QED BY <1>1, <1>2, <1>3 DEF ServerFits, LookFits, ServerRec, LookRec

-----------------------------------------------------------------------------
(* What a step has to show of the records it writes. *)

LogKept == log' \in [Session -> Log]
           /\ \A s \in Session : log'[s] = log[s] \/ LogFits(log'[s], history')
CallKept == call' \in [Calls -> CallRec]
            /\ \A k \in Calls : call'[k] = call[k] \/ CallFits(call'[k], history')
ServerKept == server' \in [Server -> ServerRec]
              /\ \A w \in Server : server'[w] = server[w] \/ ServerFits(server'[w], history')
LookKept == look' \in [Calls \cup Server -> LookRec]
            /\ \A r \in Calls \cup Server : look'[r] = look[r] \/ LookFits(look'[r], history')
Kept == /\ Extends(history, history') /\ LogKept /\ CallKept /\ ServerKept /\ LookKept
        /\ slock' \in [Session -> Calls \cup {None}]
        /\ socket' \in Server \cup {None, "stale"}
        /\ events' \in Nat /\ put' \in [Session -> SUBSET Fact]

LEMMA KeptFit == ASSUME Fit, Kept PROVE Fit'
<1>1. history' \in Seq(Commit) /\ 1 <= Tip'
  <2>1. Len(history) \in Nat /\ Len(history') \in Nat
    BY DEF Kept, Extends
  <2>. QED BY <2>1 DEF Kept, Extends, Tip
<1>2. \A s \in Session : LogFits(log'[s], history')
  BY StillFits DEF Fit, Kept, LogKept
<1>3. \A k \in Calls : CallFits(call'[k], history')
  BY StillFits DEF Fit, Kept, CallKept
<1>4. \A w \in Server : ServerFits(server'[w], history')
  BY StillFits DEF Fit, Kept, ServerKept
<1>5. \A r \in Calls \cup Server : LookFits(look'[r], history')
  BY StillFits DEF Fit, Kept, LookKept
<1>. QED BY <1>1, <1>2, <1>3, <1>4, <1>5 DEF Fit, Kept, LogKept, CallKept, ServerKept, LookKept

LEMMA Unchanged == ASSUME Fit
                   PROVE  /\ UNCHANGED history => Extends(history, history')
                          /\ UNCHANGED log => LogKept
                          /\ UNCHANGED call => CallKept
                          /\ UNCHANGED server => ServerKept
                          /\ UNCHANGED look => LookKept
                          /\ UNCHANGED slock => slock' \in [Session -> Calls \cup {None}]
                          /\ UNCHANGED socket => socket' \in Server \cup {None, "stale"}
                          /\ UNCHANGED events => events' \in Nat
                          /\ UNCHANGED put => put' \in [Session -> SUBSET Fact]
<1>1. Extends(history, history)
  BY SameExtends DEF Fit, Tip
<1>. QED BY <1>1 DEF Fit, LogKept, CallKept, ServerKept, LookKept

LEMMA InitFit == Init => Fit
<1>. SUFFICES ASSUME Init PROVE Fit
  OBVIOUS
<1>0. /\ MaxCalls \in Nat /\ None \notin Calls
  BY HeadAssumption DEF Calls
<1>. DEFINE first == [by |-> None, call |-> None, base |-> 0, facts |-> {}]
<1>1. first \in Commit /\ history = <<first>>
  BY DEF Commit, Init
<1>. HIDE DEF first
<1>2. history \in Seq(Commit) /\ Len(history) = 1
  BY <1>1
<1>3. EmptyLog \in Log /\ LogFits(EmptyLog, history)
  BY <1>2 DEF EmptyLog, Log, LogFits
<1>4. \A s \in Session : log[s] \in Log /\ LogFits(log[s], history)
  BY <1>2, <1>3 DEF Init, Log, LogFits, EmptyLog
<1>5. Unborn \in CallRec /\ CallFits(Unborn, history)
  BY <1>2, <1>3 DEF Unborn, CallRec, CallFits
<1>6. Down \in ServerRec /\ ServerFits(Down, history)
  BY <1>2 DEF Down, ServerRec, ServerFits
<1>7. NotLooking \in LookRec /\ LookFits(NotLooking, history)
  BY <1>2 DEF NotLooking, LookRec, LookFits
<1>8. /\ log \in [Session -> Log] /\ call \in [Calls -> CallRec] /\ server \in [Server -> ServerRec]
      /\ look \in [Calls \cup Server -> LookRec]
  BY <1>4, <1>5, <1>6, <1>7 DEF Init
<1>9. /\ \A k \in Calls : CallFits(call[k], history)
      /\ \A w \in Server : ServerFits(server[w], history)
      /\ \A r \in Calls \cup Server : LookFits(look[r], history)
  BY <1>5, <1>6, <1>7, Zenon DEF Init
<1>10. /\ slock \in [Session -> Calls \cup {None}] /\ socket \in Server \cup {None, "stale"}
       /\ events \in Nat /\ put \in [Session -> SUBSET Fact]
  BY DEF Init
<1>. QED BY <1>2, <1>4, <1>8, <1>9, <1>10 DEF Fit, Tip

LEMMA CallSet == ASSUME Fit, NEW k \in Calls, NEW c, CallFits(c, history'), call' = [call EXCEPT ![k] = c]
                 PROVE  CallKept
  BY DEF Fit, CallKept, CallFits

LEMMA LogSet == ASSUME Fit, NEW s \in Session, NEW l, LogFits(l, history'), log' = [log EXCEPT ![s] = l]
                PROVE  LogKept
  BY DEF Fit, LogKept, LogFits

LEMMA ServerSet == ASSUME Fit, NEW w \in Server, NEW v, ServerFits(v, history'),
                          server' = [server EXCEPT ![w] = v]
                   PROVE  ServerKept
  BY DEF Fit, ServerKept, ServerFits

LEMMA LookSet == ASSUME Fit, NEW r \in Calls \cup Server, NEW l, LookFits(l, history'),
                        look' = [look EXCEPT ![r] = l]
                 PROVE  LookKept
  BY DEF Fit, LookKept, LookFits

Outcome == {"answered", "outdated", "failed", "refused", "rebase-needed", "rebased", "committed"}

LEMMA EndedFits == ASSUME Fit, Extends(history, history'), NEW k \in Calls, NEW o \in Outcome
                   PROVE  CallFits(Ended(k, o), history')
<1>1. Len(history') \in Nat /\ 1 <= Len(history')
  <2>1. Len(history) \in Nat /\ Len(history') \in Nat
    BY DEF Extends
  <2>. QED BY <2>1 DEF Extends
<1>2. call[k].user \in {"unborn", "waiting", "failed", "answered", "outdated", "refused",
                        "rebase-needed", "rebased", "committed"}
  BY DEF Fit, CallRec
<1>3. LogFits(EmptyLog, history')
  BY <1>1, HeadAssumption DEF LogFits, EmptyLog, Log
<1>. DEFINE u == IF call[k].user = "waiting" THEN o ELSE call[k].user
<1>4. u \in {"unborn", "waiting", "failed", "answered", "outdated", "refused",
             "rebase-needed", "rebased", "committed"}
  BY <1>2 DEF Outcome
<1>5. Ended(k, o) = [kind |-> None, s |-> None, user |-> u, at |-> None, phase |-> "none",
                     copy |-> EmptyLog, version |-> 0, sha |-> 0, rounds |-> 0, asked |-> 0]
  BY DEF Ended, Unborn
<1>. HIDE DEF u
<1>6. EmptyLog \in Log
  BY <1>3 DEF LogFits
<1>. QED BY <1>1, <1>3, <1>4, <1>5, <1>6 DEF CallFits, CallRec

LEMMA AnsweredIs == ASSUME NEW k, NEW v
                    PROVE  Answered(k, v) = Ended(k, "answered") \/ Answered(k, v) = Ended(k, "outdated")
  BY DEF Answered

LEMMA BrokenIs == ASSUME NEW k
                  PROVE  \E o \in {"answered", "outdated", "failed"} : Broken(k) = Ended(k, o)
  BY DEF Broken, Answered

LEMMA ReleasedKept == ASSUME Fit, UNCHANGED history, NEW k \in Calls, server' = Released(k)
                      PROVE  ServerKept
<1>1. \A w \in Server : server[w] \in ServerRec /\ server[w].held <= Len(history)
  BY DEF Fit, ServerFits
<1>2. \A w \in Server : Released(k)[w] \in ServerRec /\ Released(k)[w].held = server[w].held
  BY <1>1 DEF Released, ServerRec
<1>. QED BY <1>1, <1>2 DEF ServerKept, ServerFits, Released

LEMMA AnswerKept == ASSUME Fit, UNCHANGED history, NEW k \in Calls, NEW o \in Outcome, Answer(k, o)
                    PROVE  CallKept /\ ServerKept
<1>1. CallKept
  BY EndedFits, CallSet, Unchanged DEF Answer
<1>. QED BY <1>1, ReleasedKept DEF Answer

LEMMA SmallFits == ASSUME Fit, Extends(history, history')
                   PROVE  /\ LogFits(EmptyLog, history') /\ CallFits(Unborn, history')
                          /\ ServerFits(Down, history') /\ LookFits(NotLooking, history')
<1>1. Len(history') \in Nat /\ 1 <= Len(history')
  <2>1. Len(history) \in Nat /\ Len(history') \in Nat
    BY DEF Extends
  <2>. QED BY <2>1 DEF Extends
<1>2. LogFits(EmptyLog, history') /\ EmptyLog \in Log
  BY <1>1, HeadAssumption DEF LogFits, EmptyLog, Log
<1>3. CallFits(Unborn, history')
  BY <1>1, <1>2 DEF CallFits, CallRec, Unborn
<1>. QED BY <1>1, <1>2, <1>3 DEF ServerFits, LookFits, Down, NotLooking, ServerRec, LookRec

LEMMA TipIs == ASSUME Fit PROVE Tip \in Nat /\ 1 <= Tip /\ Tip = Len(history)
  BY DEF Fit, Tip

(***************************************************************************)
(* The records a step may write at a server.                               *)
(***************************************************************************)
LEMMA KeptLife == ASSUME Fit, NEW w \in Server, Load(w) \/ Claim(w) \/ Unlink(w) \/ Bind(w)
                  PROVE  Kept
<1>1. UNCHANGED <<history, log, slock, call, look, put>>
  BY DEF Load, Claim, Unlink, Bind
<1>2. events' \in Nat /\ socket' \in Server \cup {None, "stale"}
  BY DEF Load, Claim, Unlink, Bind, Fit
<1>3. server[w] \in ServerRec /\ server[w].held <= Tip /\ Tip \in Nat
  BY TipIs DEF Fit, ServerFits
<1>4. PICK v \in ServerRec : v.held <= Tip /\ server' = [server EXCEPT ![w] = v]
  <2>1. CASE Load(w)
    <3>1. [Down EXCEPT !.phase = "loaded", !.held = Tip] \in ServerRec
      BY <1>3 DEF Down, ServerRec
    <3>2. [Down EXCEPT !.phase = "loaded", !.held = Tip].held <= Tip
      BY <1>3 DEF Down
    <3>. QED BY <2>1, <3>1, <3>2, Zenon DEF Load
  <2>2. CASE Claim(w)
    <3>1. Down \in ServerRec /\ Down.held <= Tip
      BY <1>3 DEF Down, ServerRec
    <3>2. \A p \in {"claimed", "unlink"} : /\ [server[w] EXCEPT !.phase = p] \in ServerRec
                                          /\ [server[w] EXCEPT !.phase = p].held <= Tip
      BY <1>3 DEF ServerRec
    <3>. QED BY <2>2, <3>1, <3>2 DEF Claim
  <2>3. CASE Unlink(w)
    <3>1. [server[w] EXCEPT !.phase = "claimed"] \in ServerRec
      BY <1>3 DEF ServerRec
    <3>. QED BY <1>3, <2>3, <3>1 DEF Unlink, Fit, ServerRec
  <2>4. CASE Bind(w)
    <3>1. Down \in ServerRec /\ Down.held <= Tip
      BY <1>3 DEF Down, ServerRec
    <3>2. [server[w] EXCEPT !.phase = "up"] \in ServerRec
      BY <1>3 DEF ServerRec
    <3>. QED BY <1>3, <2>4, <3>1, <3>2 DEF Bind, Fit, ServerRec
  <2>. QED BY <2>1, <2>2, <2>3, <2>4
<1>5. ServerKept
  BY <1>1, <1>4, ServerSet DEF ServerFits, Tip
<1>. QED BY <1>1, <1>2, <1>5, Unchanged DEF Kept

LEMMA KeptGone == ASSUME Fit, NEW w \in Server, Stop(w) \/ Kill(w) PROVE Kept
<1>1. /\ UNCHANGED <<history, log, slock, events, put>>
      /\ call' = Dropped(w) /\ look' = Silent(w) /\ server' = [server EXCEPT ![w] = Down]
  BY DEF Stop, Kill
<1>2. socket' \in Server \cup {None, "stale"}
  BY DEF Stop, Kill, Fit
<1>3. Extends(history, history')
  BY <1>1, Unchanged
<1>4. \A k \in Calls : CallFits(Broken(k), history')
  BY <1>3, BrokenIs, EndedFits DEF Outcome
<1>5. CallKept
  BY <1>1, <1>4 DEF Dropped, CallKept, CallFits, Fit
<1>6. LookKept
  BY <1>1, <1>3, SmallFits DEF Silent, LookKept, LookFits, Fit
<1>7. ServerKept
  BY <1>1, <1>3, SmallFits, ServerSet
<1>. QED BY <1>1, <1>2, <1>3, <1>5, <1>6, <1>7, Unchanged DEF Kept

(***************************************************************************)
(* ... of a call that asks, waits or is turned away.                       *)
(***************************************************************************)
LEMMA KeptAsk == ASSUME Fit, NEW k \in Calls, NEW kind \in Kinds, NEW s \in Session, Ask(k, kind, s)
                 PROVE  Kept
<1>1. UNCHANGED <<history, log, slock, socket, server, events, put>>
  BY DEF Ask
<1>2. Extends(history, history')
  BY <1>1, Unchanged
<1>3. PICK at \in ({socket} \cap Server) \cup {"local"},
           p \in {"resume", "fresh", "queued"}, n \in {Tip, 0} :
        call' = [call EXCEPT ![k] = [Unborn EXCEPT !.kind = kind, !.s = s, !.user = "waiting",
                                     !.at = at, !.asked = n, !.phase = p]]
  BY DEF Ask
<1>. DEFINE c == [Unborn EXCEPT !.kind = kind, !.s = s, !.user = "waiting",
                                !.at = at, !.asked = n, !.phase = p]
<1>4. CallFits(c, history')
  <2>1. kind \in CallKinds /\ n \in Nat /\ n <= Len(history')
    BY <1>1, TipIs, HeadAssumption
  <2>2. CallFits(Unborn, history') /\ Unborn \in CallRec
    BY <1>2, SmallFits DEF CallFits
  <2>3. c \in CallRec
    BY <2>1, <2>2 DEF CallRec, Unborn
  <2>. QED BY <2>1, <2>2, <2>3 DEF CallFits, Unborn
<1>. HIDE DEF c
<1>5. CallKept
  BY <1>3, <1>4, CallSet DEF c
<1>6. LookKept
  <2>1. PICK q \in {"read", "none"} : look' = [look EXCEPT ![k].phase = q]
    BY DEF Ask
  <2>2. look' = [look EXCEPT ![k] = [look[k] EXCEPT !.phase = q]]
    BY <2>1
  <2>3. LookFits([look[k] EXCEPT !.phase = q], history')
    BY <1>1 DEF Fit, LookFits, LookRec
  <2>. QED BY <2>2, <2>3, LookSet
<1>. QED BY <1>1, <1>2, <1>5, <1>6, Unchanged DEF Kept

\* A call whose version, log and base stay, in another phase.
LEMMA MovedFits == ASSUME Fit, UNCHANGED history, NEW k \in Calls,
                          NEW p \in {"resume", "fresh", "save", "follow"}
                   PROVE  CallFits([call[k] EXCEPT !.phase = p], history')
  BY ZenonT(60) DEF Fit, CallFits, CallRec

LEMMA LocalFits == ASSUME Fit, UNCHANGED history, NEW k \in Calls, call[k].at # None
                   PROVE  CallFits([call[k] EXCEPT !.at = "local", !.phase = "resume"], history')
  BY ZenonT(60) DEF Fit, CallFits, CallRec

LEMMA DeclinedFits == ASSUME Fit, UNCHANGED history, NEW k \in Calls, InServer(k)
                      PROVE  CallFits(Declined(k), history')
<1>1. call[k].at # None
  BY HeadAssumption DEF InServer
<1>2. Extends(history, history') /\ "failed" \in Outcome
  BY Unchanged DEF Outcome
<1>. QED BY <1>1, <1>2, LocalFits, EndedFits DEF Declined

LEMMA LookKeptAt == ASSUME Fit, UNCHANGED history, NEW r \in Calls \cup Server,
                           look' = [look EXCEPT ![r] = NotLooking]
                    PROVE  LookKept
  BY SmallFits, Unchanged, LookSet

LEMMA KeptWait == ASSUME Fit, NEW k \in Calls,
                         \/ Deadline(k) \/ DeadlineOfLookup(k) \/ Abandon(k) \/ TakePermit(k)
                         \/ Busy(k) \/ Decline(k)
                  PROVE  Kept
<1>1. UNCHANGED <<history, log, slock, socket, events, put>>
  BY DEF Deadline, DeadlineOfLookup, Abandon, TakePermit, Busy, Decline
<1>2. Extends(history, history')
  BY <1>1, Unchanged
<1>3. CASE Deadline(k)
  <2>1. CallFits(Lost(call[k]), history')
    BY <1>1, ZenonT(60) DEF Fit, CallFits, CallRec, Lost
  <2>2. CallKept
    BY <1>3, <2>1, CallSet DEF Deadline
  <2>. QED BY <1>1, <1>2, <1>3, <2>2, Unchanged DEF Deadline, Kept
<1>4. CASE DeadlineOfLookup(k)
  <2>1. CallFits(Broken(k), history')
    BY <1>2, BrokenIs, EndedFits DEF Outcome
  <2>2. CallKept /\ LookKept
    BY <1>1, <1>4, <2>1, CallSet, LookKeptAt DEF DeadlineOfLookup
  <2>. QED BY <1>1, <1>2, <1>4, <2>2, Unchanged DEF DeadlineOfLookup, Kept
<1>5. CASE Abandon(k)
  <2>1. CallFits(Ended(k, "failed"), history')
    BY <1>2, EndedFits DEF Outcome
  <2>2. CallKept
    BY <1>5, <2>1, CallSet DEF Abandon
  <2>. QED BY <1>1, <1>2, <1>5, <2>2, Unchanged DEF Abandon, Kept
<1>6. CASE TakePermit(k)
  <2>1. CallFits([call[k] EXCEPT !.phase = "resume"], history')
    BY <1>1, MovedFits
  <2>2. call' = [call EXCEPT ![k] = [call[k] EXCEPT !.phase = "resume"]]
    BY <1>6 DEF TakePermit
  <2>3. call[k].at \in Server
    BY <1>6 DEF TakePermit, InServer
  <2>4. ServerFits([server[call[k].at] EXCEPT !.gate = k], history')
    BY <1>1, <2>3 DEF Fit, ServerFits, ServerRec
  <2>5. server' = [server EXCEPT ![call[k].at] = [server[call[k].at] EXCEPT !.gate = k]]
    BY <1>6 DEF TakePermit
  <2>6. CallKept /\ ServerKept
    BY <2>1, <2>2, <2>3, <2>4, <2>5, CallSet, ServerSet
  <2>. QED BY <1>1, <1>2, <1>6, <2>6, Unchanged DEF TakePermit, Kept
<1>7. CASE Busy(k)
  <2>1. CallKept
    BY <1>1, <1>7, DeclinedFits, CallSet DEF Busy
  <2>. QED BY <1>1, <1>2, <1>7, <2>1, Unchanged DEF Busy, Kept
<1>8. CASE Decline(k)
  <2>1. CallKept /\ ServerKept /\ LookKept
    BY <1>1, <1>8, DeclinedFits, CallSet, ReleasedKept, LookKeptAt DEF Decline
  <2>. QED BY <1>1, <1>2, <1>8, <2>1, Unchanged DEF Decline, Kept
<1>. QED BY <1>3, <1>4, <1>5, <1>6, <1>7, <1>8

(***************************************************************************)
(* ... of one that follows the ref.                                        *)
(***************************************************************************)
\* A call with its version set to v, in the phase that follows.
LEMMA VersionFits == ASSUME NEW h, NEW c, CallFits(c, h), NEW v \in Nat, v <= Len(h),
                            NEW p \in {"save", "judge"}, p = "judge" => v = c.copy.base
                     PROVE  CallFits([c EXCEPT !.version = v, !.phase = p], h)
<1>. DEFINE d == [c EXCEPT !.version = v, !.phase = p]
<1>1. c \in CallRec
  BY DEF CallFits
<1>2. /\ d \in CallRec /\ d.copy = c.copy /\ d.version = v /\ d.phase = p /\ d.sha = c.sha
      /\ d.asked = c.asked /\ d.at = c.at /\ d.s = c.s /\ d.kind = c.kind
  BY <1>1 DEF CallRec
<1>. HIDE DEF d
<1>3. CallFits(d, h)
  BY <1>2 DEF CallFits
<1>. QED BY <1>3 DEF d

LEMMA ArriveKept == ASSUME Fit, UNCHANGED history, NEW r \in Calls \cup Server,
                           NEW v \in Nat, v <= Tip, Arrive(r, v)
                    PROVE  CallKept /\ LookKept
<1>1. LookKept
  BY LookKeptAt DEF Arrive
<1>2. ASSUME UNCHANGED call PROVE CallKept
  BY <1>2, Unchanged
<1>3. ASSUME r \in Calls,
             NEW c, c \in {Answered(r, v), [call[r] EXCEPT !.version = v, !.phase = "save"],
                           [call[r] EXCEPT !.version = call[r].copy.base, !.phase = "judge"]},
             call' = [call EXCEPT ![r] = c]
      PROVE  CallKept
  <2>1. CallFits(Answered(r, v), history')
    BY <1>3, Unchanged, AnsweredIs, EndedFits DEF Outcome
  <2>2. CallFits([call[r] EXCEPT !.version = v, !.phase = "save"], history')
    <3>1. v <= Len(history') /\ CallFits(call[r], history')
      BY <1>3, TipIs, SMTT(30) DEF Fit
    <3>. QED BY <3>1, VersionFits
  <2>3. CallFits([call[r] EXCEPT !.version = call[r].copy.base, !.phase = "judge"], history')
    <3>1. CallFits(call[r], history')
      BY <1>3 DEF Fit
    <3>2. call[r].copy.base \in Nat /\ call[r].copy.base <= Len(history')
      BY <3>1 DEF CallFits, LogFits, Log
    <3>. QED BY <3>1, <3>2, VersionFits
  <2>. QED BY <1>3, <2>1, <2>2, <2>3, CallSet
<1>4. \/ UNCHANGED call
      \/ /\ r \in Calls
         /\ \E c \in {Answered(r, v), [call[r] EXCEPT !.version = v, !.phase = "save"],
                     [call[r] EXCEPT !.version = call[r].copy.base, !.phase = "judge"]} :
               call' = [call EXCEPT ![r] = c]
  BY DEF Arrive
<1>. QED BY <1>1, <1>2, <1>3, <1>4

LEMMA KeptFresh == ASSUME Fit, NEW r \in Calls \cup Server, Fresh(r) \/ (r \in Server /\ Poll(r))
                   PROVE  Kept
<1>1. UNCHANGED <<history, log, slock, socket, events, put>>
  BY DEF Fresh, ReadRef, Compare, Enter, Advance, Poll
<1>2. Extends(history, history') /\ Tip \in Nat
  BY <1>1, Unchanged, TipIs
<1>3. look[r].seen \in Nat /\ look[r].seen <= Tip
  BY TipIs DEF Fit, LookFits, LookRec
<1>4. \A p \in {"compare", "wait", "build"}, n \in {0, Tip} : LookFits([phase |-> p, seen |-> n], history')
  BY <1>1, <1>2, TipIs DEF LookFits, LookRec
<1>5. CASE ReadRef(r) \/ (r \in Server /\ Poll(r))
  <2>1. LookKept
    BY <1>4, <1>5, LookSet DEF ReadRef, Poll
  <2>. QED BY <1>1, <1>2, <1>5, <2>1, Unchanged DEF ReadRef, Poll, Kept
<1>6. CASE Compare(r)
  <2>1. CallKept /\ LookKept
    <3>1. CASE look[r].seen = Held(r)
      BY <1>1, <1>3, <1>6, <3>1, ArriveKept DEF Compare
    <3>2. CASE look[r].seen # Held(r)
      BY <1>1, <1>4, <1>6, <3>2, LookSet, Unchanged DEF Compare
    <3>. QED BY <3>1, <3>2
  <2>. QED BY <1>1, <1>2, <1>6, <2>1, Unchanged DEF Compare, Kept
<1>7. CASE Enter(r)
  <2>1. CallKept /\ LookKept /\ ServerKept
    <3>1. CASE Tip = Held(r)
      BY <1>1, <1>2, <1>7, <3>1, ArriveKept, Unchanged DEF Enter
    <3>2. CASE Tip # Held(r)
      <4>1. CallKept /\ LookKept
        BY <1>1, <1>4, <1>7, <3>2, LookSet, Unchanged DEF Enter
      <4>2. ASSUME At(r) \in Server PROVE ServerKept
        <5>1. ServerFits([server[At(r)] EXCEPT !.advance = r], history')
          BY <1>1, <4>2 DEF Fit, ServerFits, ServerRec
        <5>2. server' = [server EXCEPT ![At(r)] = [server[At(r)] EXCEPT !.advance = r]]
          BY <1>7, <3>2 DEF Enter
        <5>. QED BY <4>2, <5>1, <5>2, ServerSet
      <4>3. ASSUME At(r) \notin Server PROVE ServerKept
        BY <1>7, <3>2, <4>3, Unchanged DEF Enter, Fit
      <4>. QED BY <4>1, <4>2, <4>3
    <3>. QED BY <3>1, <3>2
  <2>. QED BY <1>1, <1>2, <1>7, <2>1, Unchanged DEF Kept
<1>8. CASE Advance(r)
  <2>1. CallKept /\ LookKept
    BY <1>1, <1>3, <1>8, ArriveKept DEF Advance
  <2>2. ASSUME At(r) \in Server PROVE ServerKept
    <3>1. ServerFits([server[At(r)] EXCEPT !.held = look[r].seen, !.advance = None], history')
      BY <1>1, <1>3, <2>2, TipIs DEF Fit, ServerFits, ServerRec
    <3>2. server' = [server EXCEPT ![At(r)] =
                       [server[At(r)] EXCEPT !.held = look[r].seen, !.advance = None]]
      BY <1>8, <2>2 DEF Advance, Fit
    <3>. QED BY <2>2, <3>1, <3>2, ServerSet
  <2>3. ASSUME At(r) \notin Server PROVE ServerKept
    BY <1>8, <2>3, Unchanged DEF Advance, Fit
  <2>. QED BY <1>1, <1>2, <2>1, <2>2, <2>3, Unchanged DEF Kept
<1>. QED BY <1>5, <1>6, <1>7, <1>8 DEF Fresh

(***************************************************************************)
(* ... and of one that commits or rebases.                                 *)
(***************************************************************************)
LEMMA Working_ == ASSUME Fit, NEW k \in Calls, call[k].at # None
                  PROVE  /\ call[k].s \in Session /\ call[k].kind \in CallKinds
                         /\ call[k].copy \in Log /\ LogFits(call[k].copy, history)
                         /\ log[call[k].s] \in Log /\ LogFits(log[call[k].s], history)
                         /\ call[k].version \in Nat /\ call[k].version <= Tip
                         /\ call[k].sha \in Nat /\ call[k].sha <= Tip
  BY TipIs DEF Fit, CallFits, CallRec, LogFits

LEMMA KeptResume == ASSUME Fit, NEW k \in Calls, Resume(k) PROVE Kept
<1>1. UNCHANGED <<history, log, slock, socket, server, events, put>> /\ call[k].at # None
  BY DEF Resume, Working
<1>2. Extends(history, history') /\ Tip \in Nat
  BY <1>1, Unchanged, TipIs
<1>. DEFINE c == [call[k] EXCEPT !.copy = log[call[k].s]]
<1>3. /\ CallFits([c EXCEPT !.phase = "fresh"], history')
      /\ CallFits([c EXCEPT !.phase = "save", !.version = Tip], history')
      /\ CallFits([c EXCEPT !.phase = "judge", !.version = c.copy.base], history')
  <2>1. /\ c \in CallRec /\ c.copy = log[call[k].s] /\ LogFits(c.copy, history)
        /\ c.sha <= Len(history) /\ c.asked <= Len(history) /\ c.s \in Session
        /\ c.kind \in CallKinds /\ c.version <= Len(history)
    BY <1>1, Working_, TipIs, ZenonT(60) DEF Fit, CallFits, CallRec
  <2>2. c.copy.base \in Nat /\ c.copy.base <= Len(history)
    BY <2>1 DEF LogFits, Log
  <2>. HIDE DEF c
  <2>3. CallFits([c EXCEPT !.phase = "fresh"], history')
    BY <1>1, <2>1 DEF CallFits, CallRec
  <2>4. CallFits([c EXCEPT !.phase = "save", !.version = Tip], history')
    <3>2. [c EXCEPT !.phase = "save", !.version = Tip] = [[c EXCEPT !.phase = "save"] EXCEPT !.version = Tip, !.phase = "save"]
      BY <2>1 DEF CallRec
    <3>3. CallFits([c EXCEPT !.phase = "save"], history')
      BY <1>1, <2>1 DEF CallFits, CallRec
    <3>4. Tip <= Len(history')
      BY <1>1, <1>2, TipIs
    <3>. QED BY <1>2, <3>2, <3>3, <3>4, VersionFits
  <2>5. CallFits([c EXCEPT !.phase = "judge", !.version = c.copy.base], history')
    BY <1>1, <2>1, <2>2 DEF CallFits, CallRec
  <2>. QED BY <2>3, <2>4, <2>5
<1>4. CallFits(Answered(k, Tip), history')
  BY <1>2, AnsweredIs, EndedFits DEF Outcome
<1>5. \E d \in {[c EXCEPT !.phase = "fresh"], [c EXCEPT !.phase = "save", !.version = Tip],
               [c EXCEPT !.phase = "judge", !.version = c.copy.base], Answered(k, Tip)} :
         call' = [call EXCEPT ![k] = d]
  BY DEF Resume
<1>. HIDE DEF c
<1>6. CallKept
  BY <1>3, <1>4, <1>5, CallSet
<1>7. LookKept
  <2>1. PICK q \in {"read", "none"} : look' = [look EXCEPT ![k].phase = q]
    BY DEF Resume
  <2>2. look' = [look EXCEPT ![k] = [look[k] EXCEPT !.phase = q]]
    BY <2>1
  <2>3. LookFits([look[k] EXCEPT !.phase = q], history')
    BY <1>1 DEF Fit, LookFits, LookRec
  <2>. QED BY <2>2, <2>3, LookSet
<1>. QED BY <1>1, <1>2, <1>6, <1>7, Unchanged DEF Kept

LEMMA RebasedFits == ASSUME Fit, UNCHANGED history, NEW k \in Calls, call[k].at # None
                     PROVE  /\ LogFits([call[k].copy EXCEPT !.base = call[k].version], history')
                            /\ CallFits([call[k] EXCEPT !.phase = "judge", !.copy.base = call[k].version],
                                        history')
<1>. DEFINE c == call[k]  l == [c.copy EXCEPT !.base = c.version]
            d == [c EXCEPT !.phase = "judge", !.copy = l]
<1>1. /\ c \in CallRec /\ LogFits(c.copy, history') /\ c.copy \in Log
      /\ c.version \in Nat /\ c.version <= Len(history') /\ CallFits(c, history')
  BY Working_, TipIs DEF Fit
<1>2. /\ l \in Log /\ l.base = c.version /\ l.ops = c.copy.ops /\ l.pending = c.copy.pending
  BY <1>1 DEF Log
<1>. HIDE DEF l
<1>3. LogFits(l, history')
  BY <1>1, <1>2 DEF LogFits
<1>4. /\ d \in CallRec /\ d.copy = l /\ d.version = c.version /\ d.phase = "judge" /\ d.sha = c.sha
      /\ d.asked = c.asked /\ d.at = c.at /\ d.s = c.s /\ d.kind = c.kind
  BY <1>1, <1>2 DEF CallRec
<1>5. d = [c EXCEPT !.phase = "judge", !.copy.base = c.version]
  BY <1>1 DEF l, CallRec, Log
<1>. HIDE DEF d
<1>6. CallFits(d, history')
  BY <1>1, <1>2, <1>3, <1>4 DEF CallFits
<1>. QED BY <1>3, <1>5, <1>6 DEF l

LEMMA KeptSave == ASSUME Fit, NEW k \in Calls, Save(k) PROVE Kept
<1>1. /\ UNCHANGED <<history, slock, socket, look, events, put>> /\ call[k].at # None
  BY DEF Save, Working
<1>2. Extends(history, history') /\ call[k].s \in Session
  BY <1>1, Unchanged, Working_
<1>3. {"rebase-needed", "failed", "rebased"} \subseteq Outcome
  BY DEF Outcome
<1>4. CASE UNCHANGED log /\ \E o \in {"rebase-needed", "failed"} : Answer(k, o)
  BY <1>1, <1>2, <1>3, <1>4, AnswerKept, Unchanged DEF Kept
<1>5. CASE ~(UNCHANGED log /\ \E o \in {"rebase-needed", "failed"} : Answer(k, o))
  <2>1. log' = [log EXCEPT ![call[k].s] = [call[k].copy EXCEPT !.base = call[k].version]]
    BY <1>5 DEF Save
  <2>2. LogKept
    BY <1>1, <1>2, <2>1, RebasedFits, LogSet
  <2>3. \/ Answer(k, "rebased")
        \/ /\ call' = [call EXCEPT ![k].phase = "judge", ![k].copy.base = call[k].version]
           /\ UNCHANGED server
    BY <1>5 DEF Save
  <2>4. ASSUME call' = [call EXCEPT ![k].phase = "judge", ![k].copy.base = call[k].version]
        PROVE  CallKept
    <3>1. call' = [call EXCEPT ![k] = [call[k] EXCEPT !.phase = "judge", !.copy.base = call[k].version]]
      BY <2>4 DEF Fit
    <3>. QED BY <1>1, <3>1, RebasedFits, CallSet
  <2>5. CallKept /\ ServerKept
    BY <1>1, <1>3, <2>3, <2>4, AnswerKept, Unchanged
  <2>. QED BY <1>1, <1>2, <2>2, <2>5, Unchanged DEF Kept
<1>. QED BY <1>4, <1>5

LEMMA LandingFits == ASSUME Fit, Extends(history, history'), NEW k \in Calls, call[k].at # None,
                            NEW p \in {"final", "follow"}, NEW n \in Nat, n <= Len(history')
                     PROVE  CallFits(Landing(k, p, n), history')
<1>. DEFINE c == Landing(k, p, n)
<1>1. /\ call[k] \in CallRec /\ call[k].asked <= Len(history) /\ call[k].s \in Session
      /\ call[k].kind \in CallKinds /\ LogFits(EmptyLog, history') /\ Len(history) <= Len(history')
      /\ Len(history) \in Nat /\ Len(history') \in Nat /\ EmptyLog \in Log
  BY SmallFits DEF Fit, CallFits, Extends, LogFits
<1>2. /\ c \in CallRec /\ c.copy = EmptyLog /\ c.version = 0 /\ c.phase = p /\ c.sha = n
      /\ c.asked = call[k].asked /\ c.at = call[k].at /\ c.s = call[k].s /\ c.kind = call[k].kind
  BY <1>1 DEF CallRec, Landing
<1>. HIDE DEF c
<1>3. c.asked \in Nat
  BY <1>2 DEF CallRec
<1>4. CallFits(c, history')
  BY <1>1, <1>2, <1>3 DEF CallFits
<1>. QED BY <1>4 DEF c

\* The log a landed commit leaves.
LEMMA ClearedFits == ASSUME Fit, UNCHANGED history, NEW n \in Nat, n <= Tip
                     PROVE  LogFits([base |-> n, ops |-> {}, pending |-> None], history')
  BY TipIs DEF LogFits, Log

LEMMA RoundFits == ASSUME NEW h, NEW c, CallFits(c, h)
                   PROVE  CallFits([c EXCEPT !.phase = "resume", !.rounds = c.rounds + 1], h)
<1>. DEFINE n == c.rounds + 1  d == [c EXCEPT !.phase = "resume", !.rounds = n]
<1>1. c \in CallRec /\ n \in Nat
  BY DEF CallFits, CallRec
<1>. HIDE DEF n
<1>2. /\ d \in CallRec /\ d.copy = c.copy /\ d.version = c.version /\ d.phase = "resume"
      /\ d.sha = c.sha /\ d.asked = c.asked /\ d.at = c.at /\ d.s = c.s /\ d.kind = c.kind
  BY <1>1 DEF CallRec
<1>. HIDE DEF d
<1>3. CallFits(d, h)
  BY <1>2 DEF CallFits
<1>. QED BY <1>3 DEF d, n

LEMMA KeptJudge == ASSUME Fit, NEW k \in Calls,
                          NothingToLand(k) \/ LogMoved(k) \/ Recover(k) \/ Refuse(k) \/ Behind(k)
                   PROVE  Kept
<1>1. /\ UNCHANGED <<history, slock, socket, look, events, put>> /\ call[k].at # None
  BY DEF NothingToLand, LogMoved, Recover, Refuse, Behind, Working, Refusable
<1>2. Extends(history, history') /\ call[k].s \in Session
  BY <1>1, Unchanged, Working_
<1>3. {"rebase-needed", "failed", "refused", "committed"} \subseteq Outcome
  BY DEF Outcome
<1>4. CASE NothingToLand(k) \/ LogMoved(k)
  BY <1>1, <1>2, <1>3, <1>4, AnswerKept, Unchanged DEF Kept, NothingToLand, LogMoved
<1>5. CASE Recover(k)
  <2>1. call[k].copy.pending \in Nat /\ call[k].copy.pending <= Tip
    BY <1>1, <1>5, Working_, TipIs DEF Recover, LogFits
  <2>2. LogKept
    BY <1>1, <1>2, <1>5, <2>1, ClearedFits, LogSet DEF Recover
  <2>3. CallFits(Landing(k, "follow", call[k].copy.pending), history')
    BY <1>1, <1>2, <2>1, LandingFits, TipIs
  <2>4. \/ /\ call' = [call EXCEPT ![k] = Landing(k, "follow", call[k].copy.pending)]
           /\ UNCHANGED server
        \/ Answer(k, "committed")
    BY <1>5 DEF Recover
  <2>5. CallKept /\ ServerKept
    BY <1>1, <1>3, <2>3, <2>4, AnswerKept, CallSet, Unchanged
  <2>. QED BY <1>1, <1>2, <2>2, <2>5, Unchanged DEF Kept
<1>6. CASE Refuse(k)
  <2>1. UNCHANGED log /\ (Goto(k, "drop") \/ Answer(k, "refused")) /\ call[k].phase = "judge"
    BY <1>6 DEF Refuse, Refusable, Working
  <2>2. ASSUME Goto(k, "drop") PROVE CallKept /\ ServerKept
    <3>1. call' = [call EXCEPT ![k] = [call[k] EXCEPT !.phase = "drop"]] /\ UNCHANGED server
      BY <2>2 DEF Goto
    <3>2. CallFits([call[k] EXCEPT !.phase = "drop"], history')
      BY <1>1, <2>1, ZenonT(60) DEF Fit, CallFits, CallRec
    <3>. QED BY <3>1, <3>2, CallSet, Unchanged
  <2>3. CallKept /\ ServerKept
    BY <1>1, <1>3, <2>1, <2>2, AnswerKept
  <2>. QED BY <1>1, <1>2, <2>1, <2>3, Unchanged DEF Kept
<1>7. CASE Behind(k)
  <2>1. \/ /\ call' = [call EXCEPT ![k].phase = "resume", ![k].rounds = call[k].rounds + 1]
           /\ UNCHANGED server
        \/ Answer(k, "rebase-needed")
    BY <1>7 DEF Behind
  <2>2. ASSUME call' = [call EXCEPT ![k].phase = "resume", ![k].rounds = call[k].rounds + 1] PROVE CallKept
    <3>1. call' = [call EXCEPT ![k] = [call[k] EXCEPT !.phase = "resume", !.rounds = call[k].rounds + 1]]
      BY <2>2 DEF Fit
    <3>2. CallFits([call[k] EXCEPT !.phase = "resume", !.rounds = call[k].rounds + 1], history')
      BY <1>1, RoundFits DEF Fit
    <3>. QED BY <3>1, <3>2, CallSet
  <2>3. ASSUME Answer(k, "rebase-needed") PROVE CallKept /\ ServerKept
    BY <1>1, <1>3, <2>3, AnswerKept
  <2>4. ASSUME ~Answer(k, "rebase-needed") PROVE CallKept /\ ServerKept
    <3>1. UNCHANGED server /\ CallKept
      BY <2>1, <2>2, <2>4, Zenon
    <3>. QED BY <3>1, Unchanged
  <2>5. UNCHANGED log
    BY <1>7 DEF Behind
  <2>6. CallKept /\ ServerKept
    BY <2>3, <2>4
  <2>. QED BY <1>1, <1>2, <2>5, <2>6, Unchanged DEF Kept
<1>. QED BY <1>4, <1>5, <1>6, <1>7

LEMMA KeptDrop == ASSUME Fit, NEW k \in Calls, Drop(k) PROVE Kept
<1>. DEFINE kept == call[k].copy.ops \ Duplicates(k)
            l == [call[k].copy EXCEPT !.ops = kept]
            d == [call[k] EXCEPT !.phase = "judge", !.copy = l]
<1>1. /\ UNCHANGED <<history, slock, socket, look, events, put>> /\ call[k].at # None
      /\ call[k].phase = "drop"
  BY DEF Drop, Working
<1>2. Extends(history, history') /\ call[k].s \in Session
  BY <1>1, Unchanged, Working_
<1>3. {"failed", "refused"} \subseteq Outcome
  BY DEF Outcome
<1>4. LogFits(l, history') /\ l \in Log /\ l.base = call[k].copy.base
  BY <1>1, Working_ DEF LogFits, Log
<1>5. CallFits(d, history')
  <2>1. call[k] \in CallRec /\ CallFits(call[k], history')
    BY <1>1 DEF Fit
  <2>2. /\ d \in CallRec /\ d.copy = l /\ d.version = call[k].version /\ d.phase = "judge"
        /\ d.sha = call[k].sha /\ d.asked = call[k].asked /\ d.at = call[k].at
        /\ d.s = call[k].s /\ d.kind = call[k].kind
    BY <1>4, <2>1 DEF CallRec
  <2>. HIDE DEF d, l
  <2>. QED BY <1>1, <1>4, <2>1, <2>2 DEF CallFits
<1>6. [call EXCEPT ![k].phase = "judge", ![k].copy.ops = kept] = [call EXCEPT ![k] = d]
  BY <1>1, ZenonT(60) DEF Fit, CallRec, Log
<1>7. \/ UNCHANGED log /\ Answer(k, "failed")
      \/ /\ log' = [log EXCEPT ![call[k].s] = l]
         /\ \/ Answer(k, "refused")
            \/ call' = [call EXCEPT ![k] = d] /\ UNCHANGED server
  BY <1>6 DEF Drop
<1>. HIDE DEF d, l
<1>8. LogKept
  BY <1>2, <1>4, <1>7, LogSet, Unchanged
<1>9. CASE Answer(k, "failed") \/ Answer(k, "refused")
  BY <1>1, <1>2, <1>3, <1>8, <1>9, AnswerKept, Unchanged DEF Kept
<1>10. CASE call' = [call EXCEPT ![k] = d] /\ UNCHANGED server
  <2>1. CallKept
    BY <1>5, <1>10, CallSet
  <2>. QED BY <1>1, <1>2, <1>8, <1>10, <2>1, Unchanged DEF Kept
<1>. QED BY <1>7, <1>9, <1>10

LEMMA KeptLand == ASSUME Fit, NEW k \in Calls, Land(k) PROVE Kept
<1>. DEFINE c == [by |-> call[k].s, call |-> k, base |-> call[k].copy.base, facts |-> call[k].copy.ops]
            l == [call[k].copy EXCEPT !.pending = Tip + 1]
<1>1. /\ UNCHANGED <<socket, server, look, events, put>> /\ call[k].at # None
      /\ history' = Append(history, c) /\ log' = [log EXCEPT ![call[k].s] = l]
      /\ slock' = [slock EXCEPT ![call[k].s] = k]
      /\ call' = [call EXCEPT ![k] = Landing(k, "final", Tip + 1)]
  BY DEF Land, Refusable, Working
<1>2. /\ call[k].s \in Session /\ call[k].copy \in Log /\ LogFits(call[k].copy, history)
      /\ Tip \in Nat /\ 1 <= Tip /\ Tip = Len(history) /\ history \in Seq(Commit)
  BY <1>1, Working_, TipIs DEF Fit
<1>3. c \in Commit /\ c.facts = call[k].copy.ops
  BY <1>2 DEF Commit, Log
<1>. HIDE DEF c
<1>4. /\ Extends(history, history') /\ Len(history') = Tip + 1
      /\ call[k].copy.ops \subseteq TreeOf(history', Tip + 1)
  BY <1>1, <1>2, <1>3, AppendExtends
<1>5. l \in Log /\ l.base = call[k].copy.base /\ l.ops = call[k].copy.ops /\ l.pending = Tip + 1
  BY <1>2 DEF Log
<1>. HIDE DEF l
<1>6. LogFits(l, history')
  <2>1. call[k].copy.base \in Nat /\ call[k].copy.base <= Tip /\ Tip + 1 \in 1..(Tip + 1)
    BY <1>2 DEF LogFits, Log
  <2>. QED BY <1>2, <1>4, <1>5, <2>1 DEF LogFits
<1>7. LogKept
  BY <1>1, <1>2, <1>6, LogSet
<1>8. CallKept
  <2>1. Tip + 1 \in Nat /\ Tip + 1 <= Len(history')
    BY <1>2, <1>4
  <2>2. CallFits(Landing(k, "final", Tip + 1), history')
    BY <1>1, <1>4, <2>1, LandingFits
  <2>. QED BY <1>1, <2>2, CallSet
<1>9. slock' \in [Session -> Calls \cup {None}]
  BY <1>1 DEF Fit
<1>. QED BY <1>1, <1>4, <1>7, <1>8, <1>9, Unchanged DEF Kept

LEMMA KeptFinal == ASSUME Fit, NEW k \in Calls, Final(k) PROVE Kept
<1>1. UNCHANGED <<history, socket, look, events, put>> /\ call[k].at # None
  BY DEF Final, Working
<1>2. /\ Extends(history, history') /\ call[k].s \in Session
      /\ call[k].sha \in Nat /\ call[k].sha <= Tip
  BY <1>1, Unchanged, Working_
<1>3. LogKept
  <2>1. log' = [log EXCEPT ![call[k].s] = [base |-> call[k].sha, ops |-> {}, pending |-> None]]
    BY DEF Final
  <2>. QED BY <1>1, <1>2, <2>1, ClearedFits, LogSet
<1>4. slock' \in [Session -> Calls \cup {None}]
  BY DEF Final, Fit
<1>5. CASE InServer(k)
  <2>1. call' = [call EXCEPT ![k] = [call[k] EXCEPT !.phase = "follow"]] /\ UNCHANGED server
    BY <1>5 DEF Final, Goto
  <2>2. CallKept
    BY <1>1, <2>1, MovedFits, CallSet
  <2>. QED BY <1>1, <1>2, <1>3, <1>4, <2>1, <2>2, Unchanged DEF Kept
<1>6. CASE ~InServer(k)
  <2>1. Answer(k, "committed") /\ "committed" \in Outcome
    BY <1>6 DEF Final, Outcome
  <2>. QED BY <1>1, <1>2, <1>3, <1>4, <2>1, AnswerKept, Unchanged DEF Kept
<1>. QED BY <1>5, <1>6

LEMMA KeptFollow == ASSUME Fit, NEW k \in Calls, Follow(k) PROVE Kept
<1>1. /\ UNCHANGED <<history, log, slock, socket, look, events, put>> /\ call[k].at # None
      /\ call' = [call EXCEPT ![k] = Ended(k, "committed")]
      /\ \/ server' = Released(k)
         \/ server' = [Released(k) EXCEPT ![call[k].at].held = call[k].sha]
  BY DEF Follow, Working
<1>2. /\ Extends(history, history') /\ call[k].sha \in Nat /\ call[k].sha <= Tip
      /\ "committed" \in Outcome
  BY <1>1, Unchanged, Working_ DEF Outcome
<1>3. CallKept
  BY <1>1, <1>2, EndedFits, CallSet
<1>4. CASE server' = Released(k)
  BY <1>1, <1>2, <1>3, <1>4, ReleasedKept, Unchanged DEF Kept
<1>5. CASE server' = [Released(k) EXCEPT ![call[k].at].held = call[k].sha]
  <2>1. \A w \in Server : Released(k)[w] \in ServerRec /\ Released(k)[w].held <= Tip
    BY TipIs DEF Fit, ServerFits, Released, ServerRec
  <2>. DEFINE w == call[k].at  v == [Released(k)[w] EXCEPT !.held = call[k].sha]
  <2>2. server' = [Released(k) EXCEPT ![w] = v]
    BY <1>5 DEF Released
  <2>3. ASSUME w \in Server PROVE v \in ServerRec /\ v.held <= Tip
    BY <1>2, <2>1, <2>3 DEF ServerRec
  <2>. HIDE DEF v
  <2>4. \A u \in Server : server'[u] \in ServerRec /\ server'[u].held <= Tip
    BY <2>1, <2>2, <2>3 DEF Released
  <2>5. server' \in [Server -> ServerRec]
    BY <2>2, <2>4 DEF Released
  <2>6. ServerKept
    BY <1>1, <2>4, <2>5, TipIs DEF ServerKept, ServerFits
  <2>. QED BY <1>1, <1>2, <1>3, <2>6, Unchanged DEF Kept
<1>. QED BY <1>1, <1>4, <1>5

LEMMA KeptFails == ASSUME Fit, NEW k \in Calls, Fails(k) \/ KillLocal(k) PROVE Kept
<1>1. UNCHANGED <<history, log, socket, events, put>>
  BY DEF Fails, KillLocal
<1>2. Extends(history, history')
  BY <1>1, Unchanged
<1>3. \E o \in {"committed", "rebase-needed", "failed"} : Answer(k, o)
  BY DEF Fails, KillLocal
<1>4. CallKept /\ ServerKept
  BY <1>1, <1>3, AnswerKept DEF Outcome
<1>5. slock' \in [Session -> Calls \cup {None}]
  BY DEF Fails, KillLocal, Fit
<1>6. LookKept
  BY <1>1, LookKeptAt, Unchanged DEF Fails, KillLocal
<1>. QED BY <1>1, <1>2, <1>4, <1>5, <1>6, Unchanged DEF Kept

LEMMA KeptReclaim == ASSUME Fit, NEW s \in Session, Reclaim(s) PROVE Kept
<1>1. UNCHANGED <<history, log, socket, server, call, look, events, put>>
  BY DEF Reclaim
<1>2. slock' \in [Session -> Calls \cup {None}]
  BY DEF Reclaim, Fit
<1>. QED BY <1>1, <1>2, Unchanged DEF Kept

LEMMA KeptPut == ASSUME Fit, NEW s \in Session, NEW f \in Fact, Put(s, f) PROVE Kept
<1>1. UNCHANGED <<history, slock, socket, server, call, look>>
  BY DEF Put
<1>2. events' \in Nat /\ put' \in [Session -> SUBSET Fact]
  BY DEF Put, Fit
<1>3. log[s] \in Log /\ LogFits(log[s], history) /\ Len(history) \in Nat
  BY TipIs DEF Fit
<1>. DEFINE l == IF log[s].pending = None THEN [log[s] EXCEPT !.ops = log[s].ops \cup {f}]
                 ELSE [base |-> log[s].pending, ops |-> {f}, pending |-> None]
<1>4. log' = [log EXCEPT ![s] = l]
  <2>1. log \in [Session -> Log]
    BY DEF Fit
  <2>2. CASE log[s].pending = None
    BY <2>1, <2>2 DEF Put
  <2>3. CASE log[s].pending # None
    BY <2>1, <2>3 DEF Put
  <2>. QED BY <2>2, <2>3
<1>5. LogFits(l, history')
  <2>1. CASE log[s].pending = None
    <3>1. /\ l \in Log /\ l.base = log[s].base /\ l.pending = None
      BY <1>3, <1>4, <2>1 DEF Log
    <3>. QED BY <1>1, <1>3, <3>1 DEF LogFits
  <2>2. CASE log[s].pending # None
    <3>1. log[s].pending \in Nat /\ log[s].pending <= Len(history)
      BY <1>3, <2>2 DEF LogFits
    <3>2. l \in Log /\ l.base = log[s].pending /\ l.pending = None
      BY <1>4, <2>2, <3>1 DEF Log
    <3>. QED BY <1>1, <3>1, <3>2 DEF LogFits
  <2>. QED BY <2>1, <2>2
<1>. HIDE DEF l
<1>6. LogKept
  BY <1>4, <1>5, LogSet
<1>. QED BY <1>1, <1>2, <1>6, Unchanged DEF Kept

LEMMA KeptOther == ASSUME Fit, NEW f \in Fact, Other(f) PROVE Kept
<1>1. UNCHANGED <<log, slock, socket, server, call, look, put>> /\ events' \in Nat
  BY DEF Other, Fit
<1>. DEFINE c == [by |-> None, call |-> None, base |-> Tip, facts |-> {f}]
<1>2. c \in Commit /\ history' = Append(history, c)
  BY TipIs DEF Commit, Other
<1>. HIDE DEF c
<1>3. Extends(history, history')
  BY <1>2, AppendExtends DEF Fit, Tip
<1>. QED BY <1>1, <1>3, Unchanged DEF Kept

LEMMA StepKept == ASSUME Fit, Next PROVE Kept
<1>1. CASE \E w \in Server : Load(w) \/ Claim(w) \/ Unlink(w) \/ Bind(w) \/ Stop(w) \/ Kill(w) \/ Poll(w)
  BY <1>1, KeptLife, KeptGone, KeptFresh
<1>2. CASE \E k \in Calls, kind \in Kinds, s \in Session : Ask(k, kind, s)
  BY <1>2, KeptAsk
<1>3. CASE \E k \in Calls : Deadline(k) \/ DeadlineOfLookup(k) \/ Abandon(k) \/ Decline(k)
  BY <1>3, KeptWait
<1>4. CASE \E k \in Calls : Work(k)
  <2>1. PICK k \in Calls : Work(k)
    BY <1>4
  <2>. QED BY <2>1, KeptWait, KeptResume, KeptSave, KeptJudge, KeptDrop, KeptLand, KeptFinal,
              KeptFollow DEF Work
<1>5. CASE \E k \in Calls : Fails(k) \/ KillLocal(k)
  BY <1>5, KeptFails
<1>6. CASE \E r \in Calls \cup Server : Fresh(r)
  BY <1>6, KeptFresh
<1>7. CASE \E s \in Session : Reclaim(s) \/ \E f \in Fact : Put(s, f)
  BY <1>7, KeptReclaim, KeptPut
<1>8. CASE \E f \in Fact : Other(f)
  BY <1>8, KeptOther
<1>. QED BY <1>1, <1>2, <1>3, <1>4, <1>5, <1>6, <1>7, <1>8 DEF Next

\* Every reachable state fits.
LEMMA SpecFit == Spec => []Fit
<1>1. Fit /\ [Next]_vars => Fit'
  <2>. SUFFICES ASSUME Fit, [Next]_vars PROVE Fit'
    OBVIOUS
  <2>1. CASE Next
    BY <2>1, StepKept, KeptFit
  <2>2. CASE UNCHANGED vars
    BY <2>2, KeptFit, Unchanged DEF vars, Kept
  <2>. QED BY <2>1, <2>2
<1>. QED BY <1>1, InitFit, PTL DEF Spec

-----------------------------------------------------------------------------
(* What lands, and what is kept. *)

LEMMA HistoryStep == ASSUME Fit, [Next]_vars
                     PROVE  UNCHANGED history \/ (\E k \in Calls : Land(k)) \/ \E f \in Fact : Other(f)
  BY ZenonT(60) DEF Next, vars, Load, Claim, Unlink, Bind, Stop, Kill, Poll, Ask, Deadline, DeadlineOfLookup,
         Abandon, Decline, Work, TakePermit, Busy, Resume, Save, NothingToLand, LogMoved, Recover,
         Refuse, Drop, Behind, Final, Follow, Fails, KillLocal, Fresh, ReadRef, Compare, Enter,
         Advance, Reclaim, Put

LEMMA OnceKept == ASSUME Fit, LandsOnce, [Next]_vars PROVE LandsOnce'
<1>1. Tip \in Nat /\ Tip = Len(history) /\ history \in Seq(Commit) /\ 1 <= Tip
  BY TipIs DEF Fit
<1>. DEFINE Once(h, n) == h[n].by # None => h[n].base = n - 1 /\ h[n].facts \cap TreeOf(h, n - 1) = {}
<1>2. \A n \in 1..Tip : Once(history, n)
  BY TreeIs DEF LandsOnce
<1>3. CASE UNCHANGED history
  BY <1>3, <1>1 DEF LandsOnce, Tip, Tree
<1>4. ASSUME NEW c \in Commit, history' = Append(history, c),
             c.by # None => c.base = Tip /\ c.facts \cap TreeOf(history, Tip) = {}
      PROVE  LandsOnce'
  <2>1. Extends(history, history') /\ Len(history') = Tip + 1 /\ history'[Tip + 1] = c
    BY <1>1, <1>4, AppendExtends
  <2>2. \A m \in 0..Tip : TreeOf(history', m) = TreeOf(history, m)
    BY <1>1, <2>1, TreeGrows
  <2>3. Once(history', Tip + 1)
    BY <1>1, <1>4, <2>1, <2>2
  <2>4. ASSUME NEW n \in 1..Tip PROVE Once(history', n)
    <3>1. history'[n] = history[n] /\ n - 1 \in 0..Tip
      BY <1>1, <2>1 DEF Extends
    <3>2. Once(history, n)
      BY <1>2
    <3>. QED BY <2>2, <3>1, <3>2
  <2>5. \A n \in 1..(Tip + 1) : Once(history', n)
    BY <1>1, <2>3, <2>4
  <2>. QED BY <2>1, <2>5 DEF LandsOnce, Tip, Tree, TreeOf
<1>5. CASE \E k \in Calls : Land(k)
  <2>1. PICK k \in Calls : Land(k)
    BY <1>5
  <2>. DEFINE c == [by |-> call[k].s, call |-> k, base |-> call[k].copy.base, facts |-> call[k].copy.ops]
  <2>2. /\ history' = Append(history, c) /\ call[k].at # None /\ call[k].phase = "judge"
        /\ Tip = call[k].version /\ call[k].copy.ops \cap Tree(call[k].version) = {}
    BY <2>1 DEF Land, Refusable, Working, Duplicates
  <2>3. call[k].version = call[k].copy.base
    BY <2>2 DEF Fit, CallFits
  <2>4. c \in Commit
    BY <2>2, Working_ DEF Commit, Log
  <2>5. c.base = Tip /\ c.facts \cap TreeOf(history, Tip) = {}
    BY <2>2, <2>3, TreeIs
  <2>. HIDE DEF c
  <2>. QED BY <1>4, <2>2, <2>4, <2>5
<1>6. CASE \E f \in Fact : Other(f)
  <2>1. PICK f \in Fact : Other(f)
    BY <1>6
  <2>. DEFINE c == [by |-> None, call |-> None, base |-> Tip, facts |-> {f}]
  <2>2. history' = Append(history, c) /\ c \in Commit /\ c.by = None
    BY <1>1, <2>1 DEF Other, Commit
  <2>. HIDE DEF c
  <2>. QED BY <1>4, <2>2
<1>. QED BY <1>3, <1>5, <1>6, HistoryStep

\* A session's commit is on the base its log names and repeats nothing the ref has: no
\* server judges a log against a version that is not its own (head-server.ts), and no
\* retry, here or by a client that lost its answer, lands an op twice.
THEOREM CommitsLandOnce == Spec => []LandsOnce
<1>1. Init => LandsOnce
  BY DEF Init, LandsOnce, Tip
<1>2. Fit /\ LandsOnce /\ [Next]_vars => LandsOnce'
  BY OnceKept
<1>. QED BY <1>1, <1>2, SpecFit, PTL DEF Spec

\* A call whose commit is on the ref and whose log still holds the ops.
Finishing(k) == call[k].at # None /\ call[k].phase = "final"
\* The log is its own until it is cleared, and its ops are on the ref.
Owned == \A k \in Calls : Finishing(k) =>
            slock[call[k].s] = k /\ log[call[k].s].ops \subseteq TreeOf(history, Tip)

\* A call that finishes after a step did so before it.
Stays(k) == Finishing(k)' => Finishing(k) /\ call'[k].s = call[k].s
\* No op of a session's log, or put in it, is lost in a step.
Keeps(s) ==
    /\ log[s].ops \subseteq log'[s].ops \cup TreeOf(history, Tip)
    /\ put'[s] \subseteq put[s] \cup log'[s].ops

LEMMA NoneStays == ASSUME Fit, UNCHANGED call PROVE \A j \in Calls : Stays(j)
  BY DEF Stays, Finishing

LEMMA OneStays == ASSUME Fit, NEW k \in Calls, NEW c, call' = [call EXCEPT ![k] = c], c.phase # "final"
                  PROVE  \A j \in Calls : Stays(j)
  BY DEF Stays, Finishing, Fit

LEMMA EndedPhase == ASSUME NEW k, NEW o, NEW v
                    PROVE  /\ Ended(k, o).phase = "none" /\ Broken(k).phase = "none"
                           /\ Answered(k, v).phase = "none"
  BY DEF Ended, Unborn, Broken, Answered

LEMMA DeclinedPhase == ASSUME Fit, NEW k \in Calls PROVE Declined(k).phase \in {"none", "resume"}
<1>1. call[k] \in CallRec
  BY DEF Fit
<1>. QED BY <1>1, EndedPhase DEF Declined, CallRec

LEMMA AnswerStays == ASSUME Fit, NEW k \in Calls, NEW o, Answer(k, o) PROVE \A j \in Calls : Stays(j)
  BY EndedPhase, OneStays DEF Answer

LEMMA PhaseIs == ASSUME NEW c \in CallRec, NEW p, NEW v
                 PROVE  /\ [c EXCEPT !.phase = p].phase = p
                        /\ [c EXCEPT !.version = v, !.phase = p].phase = p
                        /\ [c EXCEPT !.phase = p, !.version = v].phase = p
  BY DEF CallRec

LEMMA WaitStays == ASSUME Fit, NEW k \in Calls,
                          \/ \E kind \in Kinds, s \in Session : Ask(k, kind, s)
                          \/ Deadline(k) \/ DeadlineOfLookup(k) \/ Abandon(k) \/ Decline(k)
                          \/ TakePermit(k) \/ Busy(k)
                   PROVE  \A j \in Calls : Stays(j)
<1>1. call[k] \in CallRec /\ call \in [Calls -> CallRec]
  BY DEF Fit
<1>2. ASSUME NEW kind \in Kinds, NEW s \in Session, Ask(k, kind, s) PROVE \A j \in Calls : Stays(j)
  <2>1. PICK at \in ({socket} \cap Server) \cup {"local"},
             p \in {"resume", "fresh", "queued"}, n \in {Tip, 0} :
          call' = [call EXCEPT ![k] = [Unborn EXCEPT !.kind = kind, !.s = s, !.user = "waiting",
                                       !.at = at, !.asked = n, !.phase = p]]
    BY <1>2 DEF Ask
  <2>. DEFINE c == [Unborn EXCEPT !.kind = kind, !.s = s, !.user = "waiting",
                                  !.at = at, !.asked = n, !.phase = p]
  <2>2. c.phase # "final"
    BY DEF Unborn
  <2>. HIDE DEF c
  <2>. QED BY <2>1, <2>2, OneStays DEF c
<1>3. CASE Deadline(k)
  <2>1. Lost(call[k]).phase = call[k].phase /\ Lost(call[k]).at = call[k].at /\ Lost(call[k]).s = call[k].s
    BY <1>1 DEF Lost, CallRec
  <2>. QED BY <1>1, <1>3, <2>1 DEF Deadline, Stays, Finishing
<1>4. CASE DeadlineOfLookup(k) \/ Abandon(k)
  BY <1>4, EndedPhase, OneStays DEF DeadlineOfLookup, Abandon
<1>5. CASE Decline(k) \/ Busy(k)
  BY <1>5, DeclinedPhase, OneStays DEF Decline, Busy
<1>6. CASE TakePermit(k)
  <2>1. call' = [call EXCEPT ![k] = [call[k] EXCEPT !.phase = "resume"]]
    BY <1>6 DEF TakePermit
  <2>2. [call[k] EXCEPT !.phase = "resume"].phase # "final"
    BY <1>1, PhaseIs
  <2>. QED BY <2>1, <2>2, OneStays
<1>. QED BY <1>2, <1>3, <1>4, <1>5, <1>6

LEMMA FreshStays == ASSUME Fit, NEW r \in Calls \cup Server, Fresh(r) PROVE \A j \in Calls : Stays(j)
<1>1. ASSUME NEW v, Arrive(r, v) PROVE \A j \in Calls : Stays(j)
  <2>1. ASSUME r \in Calls,
               NEW c, c \in {Answered(r, v), [call[r] EXCEPT !.version = v, !.phase = "save"],
                             [call[r] EXCEPT !.version = call[r].copy.base, !.phase = "judge"]},
               call' = [call EXCEPT ![r] = c]
        PROVE  \A j \in Calls : Stays(j)
    <3>1. call[r] \in CallRec
      BY <2>1 DEF Fit
    <3>2. /\ Answered(r, v).phase # "final"
          /\ [call[r] EXCEPT !.version = v, !.phase = "save"].phase # "final"
          /\ [call[r] EXCEPT !.version = call[r].copy.base, !.phase = "judge"].phase # "final"
      BY <3>1, EndedPhase, PhaseIs
    <3>. QED BY <2>1, <3>2, OneStays
  <2>2. \/ UNCHANGED call
        \/ /\ r \in Calls
           /\ \E c \in {Answered(r, v), [call[r] EXCEPT !.version = v, !.phase = "save"],
                       [call[r] EXCEPT !.version = call[r].copy.base, !.phase = "judge"]} :
                 call' = [call EXCEPT ![r] = c]
    BY <1>1 DEF Arrive
  <2>. QED BY <2>1, <2>2, NoneStays
<1>. QED BY <1>1, NoneStays DEF Fresh, ReadRef, Compare, Enter, Advance

LEMMA WorkStays == ASSUME Fit, NEW k \in Calls,
                          \/ Resume(k) \/ NothingToLand(k) \/ LogMoved(k) \/ Refuse(k) \/ Behind(k)
                          \/ Follow(k) \/ Fails(k) \/ KillLocal(k) \/ Save(k) \/ Recover(k) \/ Drop(k)
                          \/ Final(k)
                   PROVE  \A j \in Calls : Stays(j)
<1>1. call[k] \in CallRec /\ call \in [Calls -> CallRec]
  BY DEF Fit
<1>2. ASSUME NEW p, p # "final", Goto(k, p) PROVE \A j \in Calls : Stays(j)
  <2>1. call' = [call EXCEPT ![k] = [call[k] EXCEPT !.phase = p]]
    BY <1>2 DEF Goto
  <2>2. [call[k] EXCEPT !.phase = p].phase # "final"
    BY <1>1, <1>2, PhaseIs
  <2>. QED BY <2>1, <2>2, OneStays
<1>3. CASE Resume(k)
  <2>. DEFINE c == [call[k] EXCEPT !.copy = log[call[k].s]]
  <2>1. \E d \in {[c EXCEPT !.phase = "fresh"], [c EXCEPT !.phase = "save", !.version = Tip],
                 [c EXCEPT !.phase = "judge", !.version = c.copy.base], Answered(k, Tip)} :
           call' = [call EXCEPT ![k] = d]
    BY <1>3 DEF Resume
  <2>2. /\ [c EXCEPT !.phase = "fresh"].phase # "final"
        /\ [c EXCEPT !.phase = "save", !.version = Tip].phase # "final"
        /\ [c EXCEPT !.phase = "judge", !.version = c.copy.base].phase # "final"
        /\ Answered(k, Tip).phase # "final"
    <3>1. c \in CallRec
      <4>1. log[call[k].s] \in Log
        BY <1>3, Working_ DEF Resume, Working
      <4>. QED BY <1>1, <4>1 DEF CallRec
    <3>. HIDE DEF c
    <3>. QED BY <3>1, EndedPhase, PhaseIs
  <2>. HIDE DEF c
  <2>. QED BY <2>1, <2>2, OneStays
<1>4. CASE \E o : Answer(k, o)
  BY <1>4, AnswerStays
<1>5. CASE Behind(k)
  <2>1. \/ \E o : Answer(k, o)
        \/ call' = [call EXCEPT ![k] = [call[k] EXCEPT !.phase = "resume", !.rounds = call[k].rounds + 1]]
    BY <1>1, <1>5 DEF Behind
  <2>2. [call[k] EXCEPT !.phase = "resume", !.rounds = call[k].rounds + 1].phase # "final"
    BY <1>1 DEF CallRec
  <2>. QED BY <1>4, <2>1, <2>2, OneStays
<1>6. CASE Save(k)
  <2>1. \/ \E o : Answer(k, o)
        \/ call' = [call EXCEPT ![k] = [call[k] EXCEPT !.phase = "judge", !.copy.base = call[k].version]]
    BY <1>1, <1>6 DEF Save
  <2>2. [call[k] EXCEPT !.phase = "judge", !.copy.base = call[k].version].phase # "final"
    BY <1>1 DEF CallRec
  <2>. QED BY <1>4, <2>1, <2>2, OneStays
<1>7. CASE Recover(k)
  <2>1. \/ \E o : Answer(k, o)
        \/ call' = [call EXCEPT ![k] = Landing(k, "follow", call[k].copy.pending)]
    BY <1>7 DEF Recover
  <2>2. Landing(k, "follow", call[k].copy.pending).phase # "final"
    BY <1>1 DEF CallRec, Landing
  <2>. QED BY <1>4, <2>1, <2>2, OneStays
<1>8. CASE Drop(k)
  <2>. DEFINE kept == call[k].copy.ops \ Duplicates(k)
  <2>1. \/ \E o : Answer(k, o)
        \/ call' = [call EXCEPT ![k] = [call[k] EXCEPT !.phase = "judge", !.copy.ops = kept]]
    BY <1>1, <1>8 DEF Drop
  <2>2. [call[k] EXCEPT !.phase = "judge", !.copy.ops = kept].phase # "final"
    BY <1>1 DEF CallRec
  <2>. QED BY <1>4, <2>1, <2>2, OneStays
<1>9. CASE Final(k)
  BY <1>2, <1>4, <1>9 DEF Final
<1>10. CASE Refuse(k)
  BY <1>2, <1>4, <1>10 DEF Refuse
<1>11. CASE Follow(k)
  BY <1>11, EndedPhase, OneStays DEF Follow
<1>12. CASE NothingToLand(k) \/ LogMoved(k) \/ Fails(k) \/ KillLocal(k)
  BY <1>4, <1>12 DEF NothingToLand, LogMoved, Fails, KillLocal
<1>. QED BY <1>3, <1>5, <1>6, <1>7, <1>8, <1>9, <1>10, <1>11, <1>12

LEMMA ServerStays == ASSUME Fit, NEW w \in Server,
                            Load(w) \/ Claim(w) \/ Unlink(w) \/ Bind(w) \/ Stop(w) \/ Kill(w) \/ Poll(w)
                     PROVE  \A j \in Calls : Stays(j)
<1>1. CASE Stop(w) \/ Kill(w)
  <2>1. \A j \in Calls : call'[j] \in {call[j], Broken(j)}
    BY <1>1 DEF Stop, Kill, Dropped
  <2>. QED BY <2>1, EndedPhase DEF Stays, Finishing
<1>. QED BY <1>1, NoneStays DEF Load, Claim, Unlink, Bind, Poll

LEMMA StaysStep == ASSUME Fit, [Next]_vars
                   PROVE  (\A j \in Calls : Stays(j)) \/ \E k \in Calls : Land(k)
<1>1. CASE \E w \in Server : Load(w) \/ Claim(w) \/ Unlink(w) \/ Bind(w) \/ Stop(w) \/ Kill(w) \/ Poll(w)
  BY <1>1, ServerStays
<1>2. CASE \E k \in Calls : \/ \E kind \in Kinds, s \in Session : Ask(k, kind, s)
                           \/ Deadline(k) \/ DeadlineOfLookup(k) \/ Abandon(k) \/ Decline(k)
  BY <1>2, WaitStays
<1>3. CASE \E k \in Calls : Work(k) \/ Fails(k) \/ KillLocal(k)
  <2>1. PICK k \in Calls : Work(k) \/ Fails(k) \/ KillLocal(k)
    BY <1>3
  <2>2. CASE Land(k)
    BY <2>2
  <2>3. CASE TakePermit(k) \/ Busy(k)
    BY <2>3, WaitStays
  <2>4. CASE ~(TakePermit(k) \/ Busy(k) \/ Land(k))
    BY <2>1, <2>4, WorkStays DEF Work
  <2>. QED BY <2>2, <2>3, <2>4
<1>4. CASE \E r \in Calls \cup Server : Fresh(r)
  BY <1>4, FreshStays
<1>5. CASE \/ \E s \in Session : Reclaim(s) \/ \E f \in Fact : Put(s, f)
           \/ \E f \in Fact : Other(f)
           \/ UNCHANGED vars
  BY <1>5, NoneStays DEF Reclaim, Put, Other, vars
<1>. QED BY <1>1, <1>2, <1>3, <1>4, <1>5 DEF Next

LEMMA LogStep == ASSUME Fit, [Next]_vars
                 PROVE  \/ UNCHANGED <<log, slock, put>>
                        \/ \E k \in Calls : \/ Save(k) \/ Recover(k) \/ Drop(k) \/ Land(k)
                                           \/ Final(k) \/ Fails(k)
                        \/ \E s \in Session : Reclaim(s) \/ \E f \in Fact : Put(s, f)
<1>1. CASE \E w \in Server : Load(w) \/ Claim(w) \/ Unlink(w) \/ Bind(w) \/ Stop(w) \/ Kill(w) \/ Poll(w)
  BY <1>1 DEF Load, Claim, Unlink, Bind, Stop, Kill, Poll
<1>2. CASE \E k \in Calls : \/ \E kind \in Kinds, s \in Session : Ask(k, kind, s)
                           \/ Deadline(k) \/ DeadlineOfLookup(k) \/ Abandon(k) \/ Decline(k)
                           \/ Fails(k) \/ KillLocal(k)
  BY <1>2 DEF Ask, Deadline, DeadlineOfLookup, Abandon, Decline, KillLocal
<1>3. CASE \E k \in Calls : Work(k)
  BY <1>3 DEF Work, TakePermit, Busy, Resume, NothingToLand, LogMoved, Refuse, Behind, Follow
<1>4. CASE \E r \in Calls \cup Server : Fresh(r)
  BY <1>4 DEF Fresh, ReadRef, Compare, Enter, Advance
<1>5. CASE (\E f \in Fact : Other(f)) \/ UNCHANGED vars
  BY <1>5 DEF Other, vars
<1>. QED BY <1>1, <1>2, <1>3, <1>4, <1>5 DEF Next

\* The log of one session, written by a call for which it is what it read.
LEMMA WriteStep ==
    ASSUME Fit, NEW k \in Calls, Save(k) \/ Recover(k) \/ Drop(k) \/ Land(k)
    PROVE  /\ UNCHANGED put /\ call[k].s \in Session
           /\ \/ UNCHANGED <<log, slock>>
              \/ /\ slock[call[k].s] = None
                 /\ log[call[k].s].ops \subseteq log'[call[k].s].ops \cup TreeOf(history, Tip)
                 /\ \A s \in Session \ {call[k].s} : log'[s] = log[s] /\ slock'[s] = slock[s]
<1>1. UNCHANGED put /\ call[k].at # None
  BY DEF Save, Recover, Drop, Land, Refusable, Working
<1>2. /\ call[k].s \in Session /\ call[k].copy \in Log /\ LogFits(call[k].copy, history)
      /\ call[k].version \in Nat /\ call[k].version <= Tip /\ log \in [Session -> Log]
      /\ slock \in [Session -> Calls \cup {None}]
  BY <1>1, Working_ DEF Fit
<1>3. /\ Tip \in Nat /\ Tip = Len(history) /\ Extends(history, history)
  BY TipIs, SameExtends DEF Fit
<1>4. \A n \in Nat : n <= Tip => TreeOf(history, n) \subseteq TreeOf(history, Tip)
  BY <1>3, TreeGrows
<1>5. ASSUME NEW l \in Log, log' = [log EXCEPT ![call[k].s] = l], Unmoved(k),
             call[k].copy.ops \subseteq l.ops \cup TreeOf(history, Tip),
             \A s \in Session \ {call[k].s} : slock'[s] = slock[s]
      PROVE  /\ slock[call[k].s] = None
             /\ log[call[k].s].ops \subseteq log'[call[k].s].ops \cup TreeOf(history, Tip)
             /\ \A s \in Session \ {call[k].s} : log'[s] = log[s] /\ slock'[s] = slock[s]
  BY <1>2, <1>5 DEF Unmoved
<1>6. CASE Save(k)
  <2>. DEFINE l == [call[k].copy EXCEPT !.base = call[k].version]
  <2>1. UNCHANGED slock /\ (UNCHANGED log \/ (Unmoved(k) /\ log' = [log EXCEPT ![call[k].s] = l]))
    BY <1>6 DEF Save
  <2>2. l \in Log /\ l.ops = call[k].copy.ops
    BY <1>2 DEF Log
  <2>. HIDE DEF l
  <2>. QED BY <1>1, <1>2, <1>5, <2>1, <2>2
<1>7. CASE Recover(k)
  <2>. DEFINE l == [base |-> call[k].copy.pending, ops |-> {}, pending |-> None]
  <2>1. /\ UNCHANGED slock /\ Unmoved(k) /\ log' = [log EXCEPT ![call[k].s] = l]
        /\ call[k].copy.pending # None
    BY <1>7 DEF Recover, Refusable
  <2>2. call[k].copy.pending \in Nat /\ call[k].copy.pending <= Tip
    BY <1>2, <1>3, <2>1 DEF LogFits
  <2>3. call[k].copy.ops \subseteq TreeOf(history, Tip)
    BY <1>2, <1>4, <2>1, <2>2 DEF LogFits
  <2>4. l \in Log
    BY <2>2 DEF Log
  <2>. HIDE DEF l
  <2>. QED BY <1>1, <1>2, <1>5, <2>1, <2>3, <2>4
<1>8. CASE Drop(k)
  <2>. DEFINE l == [call[k].copy EXCEPT !.ops = call[k].copy.ops \ Duplicates(k)]
  <2>1. UNCHANGED slock /\ Unmoved(k) /\ (UNCHANGED log \/ log' = [log EXCEPT ![call[k].s] = l])
    BY <1>8 DEF Drop
  <2>2. l \in Log /\ l.ops = call[k].copy.ops \ Duplicates(k)
    BY <1>2 DEF Log
  <2>3. Duplicates(k) \subseteq TreeOf(history, Tip)
    BY <1>2, <1>4, TreeIs DEF Duplicates
  <2>. HIDE DEF l
  <2>. QED BY <1>1, <1>2, <1>5, <2>1, <2>2, <2>3
<1>9. CASE Land(k)
  <2>. DEFINE l == [call[k].copy EXCEPT !.pending = Tip + 1]
  <2>1. /\ Unmoved(k) /\ log' = [log EXCEPT ![call[k].s] = l]
        /\ slock' = [slock EXCEPT ![call[k].s] = k]
    BY <1>9 DEF Land, Refusable
  <2>2. l \in Log /\ l.ops = call[k].copy.ops
    <3>1. call[k].copy \in Log /\ Tip + 1 \in Nat
      BY <1>2, <1>3
    <3>. QED BY <3>1 DEF Log
  <2>3. \A s \in Session \ {call[k].s} : slock'[s] = slock[s]
    BY <1>2, <2>1
  <2>. HIDE DEF l
  <2>. QED BY <1>1, <1>2, <1>5, <2>1, <2>2, <2>3
<1>. QED BY <1>6, <1>7, <1>8, <1>9

LEMMA OwnedKept == ASSUME Fit, Owned, [Next]_vars PROVE Owned'
<1>. SUFFICES ASSUME NEW j \in Calls, Finishing(j)'
              PROVE  slock'[call'[j].s] = j /\ log'[call'[j].s].ops \subseteq TreeOf(history', Tip')
  BY DEF Owned
<1>0. /\ Fit' /\ Extends(history, history') /\ None \notin Calls
      /\ Tip \in Nat /\ Tip' \in Nat /\ Tip <= Tip' /\ Tip' = Len(history') /\ Tip = Len(history)
  <2>1. Kept
    BY StepKept, Unchanged DEF vars, Kept
  <2>2. Fit'
    BY <2>1, KeptFit
  <2>3. None \notin Calls
    BY HeadAssumption DEF Calls
  <2>. QED BY <2>1, <2>2, <2>3, TipIs DEF Kept, Extends, Fit, Tip
<1>1. TreeOf(history, Tip) \subseteq TreeOf(history', Tip')
  <2>1. TreeOf(history, Tip) = TreeOf(history', Tip)
    BY <1>0, TreeGrows
  <2>2. TreeOf(history', Tip) \subseteq TreeOf(history', Tip')
    BY <1>0, TreeGrows
  <2>. QED BY <2>1, <2>2
<1>2. CASE \E k \in Calls : Land(k)
  <2>1. PICK k \in Calls : Land(k)
    BY <1>2
  <2>2. /\ call' = [call EXCEPT ![k] = Landing(k, "final", Tip + 1)] /\ slock[call[k].s] = None
        /\ slock' = [slock EXCEPT ![call[k].s] = k] /\ call[k].at # None
        /\ log' = [log EXCEPT ![call[k].s] = [call[k].copy EXCEPT !.pending = Tip + 1]]
    BY <2>1 DEF Land, Refusable, Unmoved, Working
  <2>3. call[k].s \in Session /\ call \in [Calls -> CallRec] /\ slock \in [Session -> Calls \cup {None}]
        /\ log \in [Session -> Log] /\ call[k].copy \in Log
    BY <2>2, Working_ DEF Fit
  <2>4. CASE j = k
    <3>1. Landing(k, "final", Tip + 1).s = call[k].s
      BY <2>3 DEF Landing, CallRec
    <3>2. call'[j].s = call[k].s
      BY <2>2, <2>3, <2>4, <3>1
    <3>3. log'[call[k].s].pending = Tip + 1 /\ log'[call[k].s] \in Log
      BY <1>0, <2>2, <2>3 DEF Log, Fit
    <3>4. LogFits(log'[call[k].s], history')
      BY <1>0, <2>3 DEF Fit
    <3>5. Tip' = Tip + 1
      BY <1>0, <2>1 DEF Land, Fit, Tip
    <3>6. Tip + 1 # None
      BY <1>0, HeadAssumption
    <3>. QED BY <2>2, <2>3, <2>4, <3>2, <3>3, <3>4, <3>5, <3>6 DEF LogFits
  <2>5. CASE j # k
    <3>1. call'[j] = call[j] /\ Finishing(j)
      BY <2>2, <2>3, <2>5 DEF Finishing
    <3>2. slock[call[j].s] = j /\ log[call[j].s].ops \subseteq TreeOf(history, Tip) /\ call[j].s \in Session
      BY <3>1, Working_ DEF Owned, Finishing
    <3>3. call[j].s # call[k].s
      BY <1>0, <2>2, <3>2
    <3>. QED BY <1>1, <2>2, <2>3, <3>1, <3>2, <3>3
  <2>. QED BY <2>4, <2>5
<1>3. CASE ~\E k \in Calls : Land(k)
  <2>. DEFINE s == call[j].s
  <2>1. Finishing(j) /\ call'[j].s = s
    BY <1>3, StaysStep DEF Stays
  <2>2. slock[s] = j /\ log[s].ops \subseteq TreeOf(history, Tip) /\ s \in Session
    BY <2>1, Working_ DEF Owned, Finishing
  <2>3. slock'[s] = j /\ log'[s] = log[s]
    <3>1. CASE UNCHANGED <<log, slock, put>>
      BY <2>2, <3>1
    <3>2. ASSUME NEW k \in Calls, Save(k) \/ Recover(k) \/ Drop(k)
          PROVE  slock'[s] = j /\ log'[s] = log[s]
      BY <1>0, <2>2, <3>2, WriteStep
    <3>3. ASSUME NEW k \in Calls, Final(k) PROVE slock'[s] = j /\ log'[s] = log[s]
      <4>1. /\ Finishing(k)
            /\ log' = [log EXCEPT ![call[k].s] = [base |-> call[k].sha, ops |-> {}, pending |-> None]]
            /\ slock' = [slock EXCEPT ![call[k].s] = None]
        BY <3>3 DEF Final, Working, Finishing
      <4>2. ~Finishing(k)'
        <5>1. CASE Goto(k, "follow")
          BY <5>1 DEF Goto, Finishing, Fit, CallRec
        <5>2. CASE Answer(k, "committed")
          BY <5>2, EndedPhase DEF Answer, Finishing, Fit
        <5>. QED BY <3>3, <5>1, <5>2 DEF Final
      <4>3. slock[call[k].s] = k /\ j # k
        BY <4>1, <4>2 DEF Owned
      <4>4. call[k].s # s
        BY <2>2, <4>3
      <4>. QED BY <2>2, <4>1, <4>4 DEF Fit
    <3>4. ASSUME NEW k \in Calls, Fails(k) PROVE slock'[s] = j /\ log'[s] = log[s]
      <4>1. /\ UNCHANGED log /\ slock' = [t \in Session |-> IF slock[t] = k THEN None ELSE slock[t]]
            /\ \E o \in {"committed", "rebase-needed", "failed"} : Answer(k, o)
        <5>1. UNCHANGED log /\ slock' = [t \in Session |-> IF slock[t] = k THEN None ELSE slock[t]]
          BY <3>4 DEF Fails
        <5>2. \E o \in {"committed", "rebase-needed", "failed"} : Answer(k, o)
          <6>1. CASE call[k].phase = "follow"
            BY <3>4, <6>1 DEF Fails
          <6>2. CASE call[k].phase # "follow" /\ call[k].phase \in {"resume", "fresh", "save"} /\ call[k].rounds > 0
            BY <3>4, <6>2 DEF Fails
          <6>3. CASE call[k].phase # "follow" /\ ~(call[k].phase \in {"resume", "fresh", "save"} /\ call[k].rounds > 0)
            BY <3>4, <6>3 DEF Fails
          <6>. QED BY <6>1, <6>2, <6>3
        <5>. QED BY <5>1, <5>2
      <4>2. j # k
        BY <4>1, EndedPhase DEF Answer, Finishing, Fit
      <4>. QED BY <2>2, <4>1, <4>2
    <3>5. ASSUME NEW t \in Session, Reclaim(t) PROVE slock'[s] = j /\ log'[s] = log[s]
      BY <2>1, <2>2, <3>5 DEF Reclaim, Finishing, Fit
    <3>6. ASSUME NEW t \in Session, NEW f \in Fact, Put(t, f) PROVE slock'[s] = j /\ log'[s] = log[s]
      BY <1>0, <2>2, <3>6 DEF Put, Fit
    <3>. QED BY <1>3, LogStep, <3>1, <3>2, <3>3, <3>4, <3>5, <3>6
  <2>. QED BY <1>1, <2>1, <2>2, <2>3
<1>. QED BY <1>2, <1>3

LEMMA KeepsStep == ASSUME Fit, Owned, [Next]_vars, NEW s \in Session PROVE Keeps(s)
<1>1. CASE UNCHANGED <<log, slock, put>>
  BY <1>1 DEF Keeps
<1>2. ASSUME NEW k \in Calls, Save(k) \/ Recover(k) \/ Drop(k) \/ Land(k) PROVE Keeps(s)
  BY <1>2, WriteStep DEF Keeps
<1>3. ASSUME NEW k \in Calls, Final(k) PROVE Keeps(s)
  <2>1. Finishing(k) /\ UNCHANGED put /\ call[k].s \in Session
    BY <1>3, Working_ DEF Final, Working, Finishing
  <2>2. log[call[k].s].ops \subseteq TreeOf(history, Tip)
    BY <2>1 DEF Owned
  <2>3. s # call[k].s => log'[s] = log[s]
    BY <1>3, <2>1 DEF Final, Fit
  <2>. QED BY <2>1, <2>2, <2>3 DEF Keeps
<1>4. ASSUME NEW k \in Calls, Fails(k) PROVE Keeps(s)
  BY <1>4 DEF Fails, Keeps
<1>5. ASSUME NEW t \in Session, Reclaim(t) PROVE Keeps(s)
  BY <1>5 DEF Reclaim, Keeps
<1>6. ASSUME NEW t \in Session, NEW f \in Fact, Put(t, f) PROVE Keeps(s)
  <2>. DEFINE l == IF log[t].pending = None THEN [log[t] EXCEPT !.ops = log[t].ops \cup {f}]
                   ELSE [base |-> log[t].pending, ops |-> {f}, pending |-> None]
  <2>0. log \in [Session -> Log] /\ put \in [Session -> SUBSET Fact] /\ LogFits(log[t], history)
    BY DEF Fit
  <2>1. log' = [log EXCEPT ![t] = l] /\ put' = [put EXCEPT ![t] = put[t] \cup {f}]
    <3>1. CASE log[t].pending = None
      BY <1>6, <2>0, <3>1 DEF Put
    <3>2. CASE log[t].pending # None
      BY <1>6, <2>0, <3>2 DEF Put
    <3>. QED BY <3>1, <3>2
  <2>2. f \in l.ops /\ log[t].ops \subseteq l.ops \cup TreeOf(history, Tip)
    <3>1. CASE log[t].pending = None
      BY <2>0, <3>1 DEF Log
    <3>2. CASE log[t].pending # None
      <4>1. log[t].pending \in Nat /\ log[t].pending <= Tip /\ Tip \in Nat /\ Extends(history, history)
        BY <2>0, <3>2, TipIs, SameExtends DEF LogFits, Fit
      <4>2. TreeOf(history, log[t].pending) \subseteq TreeOf(history, Tip)
        BY <4>1, TreeGrows, TipIs
      <4>. QED BY <2>0, <3>2, <4>2 DEF LogFits
    <3>. QED BY <3>1, <3>2
  <2>. HIDE DEF l
  <2>3. CASE s = t
    BY <2>0, <2>1, <2>2, <2>3 DEF Keeps
  <2>4. CASE s # t
    BY <2>0, <2>1, <2>4 DEF Keeps
  <2>. QED BY <2>3, <2>4
<1>. QED BY LogStep, <1>1, <1>2, <1>3, <1>4, <1>5, <1>6

\* Every op put in a session is in its log or on the ref, whichever of a server, its client
\* and a local call lands it, fails or is killed in between: a commit clears only what it
\* landed (commit.ts, head-server.ts).
THEOREM NothingPutIsLost == Spec => []OpsKept
<1>1. Init => Owned /\ OpsKept
  BY DEF Init, Owned, Finishing, Unborn, OpsKept, EmptyLog
<1>2. Fit /\ Owned /\ OpsKept /\ [Next]_vars => Owned' /\ OpsKept'
  <2>. SUFFICES ASSUME Fit, Owned, OpsKept, [Next]_vars PROVE Owned' /\ OpsKept'
    OBVIOUS
  <2>1. Owned'
    BY OwnedKept
  <2>2. Tree(Tip) \subseteq Tree(Tip)'
    <3>1. Kept
      BY StepKept, Unchanged DEF vars, Kept
    <3>2. Extends(history, history') /\ Tip \in Nat /\ Tip = Len(history) /\ Fit'
      BY <3>1, TipIs, KeptFit DEF Kept
    <3>3. Tip' \in Nat /\ Tip' = Len(history') /\ Tip <= Tip'
      BY <3>2 DEF Extends, Tip, Fit
    <3>4. TreeOf(history, Tip) = TreeOf(history', Tip) /\ TreeOf(history', Tip) \subseteq TreeOf(history', Tip')
      BY <3>2, <3>3, TreeGrows
    <3>. QED BY <3>4, TreeIs DEF Tree, TreeOf
  <2>3. \A s \in Session : Keeps(s)
    BY KeepsStep
  <2>4. \A s \in Session : put'[s] \subseteq log'[s].ops \cup Tree(Tip)'
    BY <2>2, <2>3, TreeIs DEF OpsKept, Keeps
  <2>. QED BY <2>1, <2>4 DEF OpsKept
<1>. QED BY <1>1, <1>2, SpecFit, PTL DEF Spec

-----------------------------------------------------------------------------
(* The ledger: its state, and what its steps may do to it. *)

Facts == [r \in {"main"} |-> Tree(Tip)]
OpenOf(l) == IF l.pending = None THEN l.ops ELSE {}
Open == [s \in Session |-> OpenOf(log[s])]

Simulated == [Ledger!Next]_(Ledger!vars)

LEMMA InitSimulated == Init => Ledger!Init
<1>. SUFFICES ASSUME Init PROVE Ledger!Init
  OBVIOUS
<1>1. Tree(Tip) = {}
  BY DEF Init, Tree, Tip
<1>2. Open \in [Session -> SUBSET Fact]
  BY DEF Init, Open, OpenOf, EmptyLog
<1>. QED BY <1>1, <1>2 DEF Ledger!Init, Open, OpenOf

LEMMA LedgerStutters == ASSUME UNCHANGED <<history, log>> PROVE Simulated
  BY DEF Simulated, Ledger!vars, Tree, Tip

\* What the ledger lets happen to the open ops of one session.
LEMMA LedgerMoves ==
    ASSUME NEW s \in Session, UNCHANGED history, NEW X, Open' = [Open EXCEPT ![s] = X],
           \/ \E f \in Fact : X = Open[s] \cup {f}
           \/ \E F \in SUBSET (Open[s] \cap Tree(Tip)) : X = Open[s] \ F
           \/ \E F \in SUBSET Tree(Tip) : X = Open[s] \cup F
    PROVE  Simulated
<1>0. UNCHANGED Facts /\ Facts["main"] = Tree(Tip) /\ UNION {Facts[r] : r \in {"main"}} = Tree(Tip)
  BY DEF Facts, Tree, Tip
<1>1. ASSUME NEW f \in Fact, X = Open[s] \cup {f} PROVE Ledger!Put(s)
  BY <1>0, <1>1 DEF Ledger!Put, Facts, Open, OpenOf
<1>2. ASSUME NEW F \in SUBSET (Open[s] \cap Tree(Tip)), X = Open[s] \ F PROVE Ledger!Drop(s)
  BY <1>0, <1>2 DEF Ledger!Drop, Facts, Open, OpenOf
<1>3. ASSUME NEW F \in SUBSET Tree(Tip), X = Open[s] \cup F PROVE Ledger!Reopen(s)
  BY <1>0, <1>3 DEF Ledger!Reopen, Facts, Open, OpenOf
<1>. QED BY <1>1, <1>2, <1>3 DEF Simulated, Ledger!Next

LEMMA UpToTip ==
    ASSUME Fit PROVE \A n \in 1..Len(history) : TreeOf(history, n) \subseteq TreeOf(history, Tip)
<1>1. Tip \in Nat /\ Tip = Len(history) /\ Extends(history, history)
  BY TipIs, SameExtends DEF Fit
<1>2. ASSUME NEW n \in 1..Len(history) PROVE TreeOf(history, n) \subseteq TreeOf(history, Tip)
  <2>1. n \in Nat /\ n <= Tip
    BY <1>1
  <2>. QED BY <1>1, <2>1, TreeGrows
<1>. QED BY <1>2

\* One log is rewritten, and gives up only ops that are on the ref: those are dropped, and
\* ops that were on it and lose their `pending` are open again.
LEMMA RewriteMoves ==
    ASSUME Fit, Fit', UNCHANGED history, NEW s \in Session,
           \A t \in Session \ {s} : log'[t] = log[t],
           log'[s].ops \subseteq log[s].ops,
           log[s].ops \subseteq log'[s].ops \cup TreeOf(history, Tip)
    PROVE  Simulated
<1>1. /\ LogFits(log[s], history) /\ LogFits(log'[s], history)
      /\ log \in [Session -> Log] /\ log' \in [Session -> Log]
  BY DEF Fit
<1>2. \A n \in 1..Len(history) : TreeOf(history, n) \subseteq TreeOf(history, Tip)
  BY UpToTip
<1>3. /\ log[s].pending # None => log[s].ops \subseteq Tree(Tip)
      /\ log'[s].pending # None => log'[s].ops \subseteq Tree(Tip)
      /\ log[s].ops \subseteq log'[s].ops \cup Tree(Tip)
  BY <1>1, <1>2, TreeIs DEF LogFits
<1>. DEFINE X == OpenOf(log'[s])
<1>4. Open' = [Open EXCEPT ![s] = X]
  BY DEF Open
<1>5. Open[s] = OpenOf(log[s])
  BY DEF Open
<1>6. CASE log[s].pending = None
  <2>1. Open[s] = log[s].ops /\ X \subseteq log[s].ops /\ log[s].ops \ X \subseteq Tree(Tip)
    BY <1>3, <1>5, <1>6 DEF OpenOf
  <2>2. X = Open[s] \ (log[s].ops \ X) /\ log[s].ops \ X \in SUBSET (Open[s] \cap Tree(Tip))
    BY <2>1
  <2>. HIDE DEF X
  <2>. QED BY <1>4, <2>2, LedgerMoves
<1>7. CASE log[s].pending # None
  <2>1. X = Open[s] \cup X /\ X \in SUBSET Tree(Tip)
    BY <1>3, <1>5, <1>7 DEF OpenOf
  <2>. HIDE DEF X
  <2>. QED BY <1>4, <2>1, LedgerMoves
<1>. QED BY <1>6, <1>7

\* A commit that saves, settles or drops writes no op its log did not hold.
LEMMA NoneAdded ==
    ASSUME Fit, NEW k \in Calls, Save(k) \/ Recover(k) \/ Drop(k)
    PROVE  log'[call[k].s].ops \subseteq log[call[k].s].ops
<1>1. call[k].s \in Session /\ log \in [Session -> Log] /\ call[k].copy \in Log
  BY Working_ DEF Save, Recover, Drop, Refusable, Working, Fit
<1>2. CASE Save(k)
  <2>. DEFINE l == [call[k].copy EXCEPT !.base = call[k].version]
  <2>1. UNCHANGED log \/ (Unmoved(k) /\ log' = [log EXCEPT ![call[k].s] = l])
    BY <1>2 DEF Save
  <2>2. l.ops = call[k].copy.ops
    BY <1>1 DEF Log
  <2>. HIDE DEF l
  <2>. QED BY <1>1, <2>1, <2>2 DEF Unmoved
<1>3. CASE Recover(k)
  BY <1>1, <1>3 DEF Recover
<1>4. CASE Drop(k)
  <2>. DEFINE l == [call[k].copy EXCEPT !.ops = call[k].copy.ops \ Duplicates(k)]
  <2>1. Unmoved(k) /\ (UNCHANGED log \/ log' = [log EXCEPT ![call[k].s] = l])
    BY <1>4 DEF Drop
  <2>2. l.ops \subseteq call[k].copy.ops
    BY <1>1 DEF Log
  <2>. HIDE DEF l
  <2>. QED BY <1>1, <2>1, <2>2 DEF Unmoved
<1>. QED BY <1>2, <1>3, <1>4

LEMMA CallSimulated ==
    ASSUME Fit, Fit', Owned, NEW k \in Calls, Save(k) \/ Recover(k) \/ Drop(k) \/ Final(k)
    PROVE  Simulated
<1>0. UNCHANGED history /\ call[k].s \in Session
  BY Working_ DEF Save, Recover, Drop, Final, Refusable, Working, Fit
<1>1. CASE Save(k) \/ Recover(k) \/ Drop(k)
  <2>1. CASE UNCHANGED log
    BY <1>0, <2>1, LedgerStutters
  <2>2. CASE ~UNCHANGED log
    BY <1>0, <1>1, <2>2, WriteStep, NoneAdded, RewriteMoves
  <2>. QED BY <2>1, <2>2
<1>2. CASE Final(k)
  <2>1. Finishing(k) /\ log[call[k].s].ops \subseteq TreeOf(history, Tip)
    BY <1>2 DEF Final, Working, Finishing, Owned
  <2>2. log'[call[k].s].ops = {} /\ \A t \in Session \ {call[k].s} : log'[t] = log[t]
    BY <1>0, <1>2 DEF Final, Fit
  <2>. QED BY <1>0, <2>1, <2>2, RewriteMoves
<1>. QED BY <1>1, <1>2

LEMMA PutSimulated ==
    ASSUME Fit, NEW s \in Session, NEW f \in Fact, Put(s, f)
    PROVE  Simulated
<1>. DEFINE X == Open[s] \cup {f}
<1>1. UNCHANGED history /\ log \in [Session -> Log]
  BY DEF Put, Fit
<1>2. Open[s] = OpenOf(log[s])
  BY DEF Open
<1>3. OpenOf(log'[s]) = X /\ \A t \in Session \ {s} : log'[t] = log[t]
  <2>1. CASE log[s].pending = None
    <3>1. log' = [log EXCEPT ![s] = [log[s] EXCEPT !.ops = log[s].ops \cup {f}]]
      BY <2>1 DEF Put
    <3>. QED BY <1>1, <1>2, <2>1, <3>1 DEF OpenOf, Log
  <2>2. CASE log[s].pending # None
    <3>1. log' = [log EXCEPT ![s] = [base |-> log[s].pending, ops |-> {f}, pending |-> None]]
      BY <2>2 DEF Put
    <3>. QED BY <1>1, <1>2, <2>2, <3>1 DEF OpenOf
  <2>. QED BY <2>1, <2>2
<1>4. Open' = [Open EXCEPT ![s] = X]
  BY <1>3 DEF Open
<1>. HIDE DEF X
<1>. QED BY <1>1, <1>4, LedgerMoves DEF X

\* A commit adds its facts to the tree.
LEMMA TreeAdds ==
    ASSUME Fit, NEW c, history' = Append(history, c)
    PROVE  Tree(Tip)' = Tree(Tip) \cup c.facts
<1>1. Tip \in Nat /\ Tip' = Tip + 1 /\ \A n \in 1..Tip : history'[n] = history[n]
  BY DEF Fit, Tip
<1>2. history'[Tip + 1] = c
  BY DEF Fit, Tip
<1>3. 1..(Tip + 1) = (1..Tip) \cup {Tip + 1}
  BY <1>1
<1>4. Tree(Tip)' = UNION {history'[m].facts : m \in 1..(Tip + 1)}
  BY <1>1 DEF Tree
<1>5. \A m \in 1..Tip : history'[m].facts = history[m].facts
  BY <1>1
<1>6. \A f : f \in Tree(Tip)' <=> f \in Tree(Tip) \/ f \in c.facts
  BY <1>2, <1>3, <1>4, <1>5 DEF Tree
<1>. QED BY <1>6

\* The landing: all open ops at once, over a branch that lacks them.
LEMMA LandSimulated == ASSUME Fit, NEW k \in Calls, Land(k) PROVE Simulated
<1>. DEFINE ops == call[k].copy.ops
<1>0. call[k].s \in Session
  BY Working_ DEF Land, Refusable, Working
<1>. PICK s \in Session : s = call[k].s
  BY <1>0
<1>1. /\ call[k].copy.pending = None /\ ops # {} /\ ops \cap Tree(Tip) = {} /\ log[s].ops = ops
      /\ call[k].at # None
  BY DEF Land, Refusable, Working, Nothing, Duplicates, Unmoved
<1>2. /\ log \in [Session -> Log] /\ call[k].copy \in Log
      /\ LogFits(log[s], history)
  BY <1>1, Working_ DEF Fit
<1>3. \A n \in 1..Len(history) : TreeOf(history, n) \subseteq TreeOf(history, Tip)
  BY UpToTip
<1>4. log[s].pending = None
  BY <1>1, <1>2, <1>3, TreeIs DEF LogFits
<1>5. Open[s] = ops
  BY <1>1, <1>2, <1>4 DEF Open, OpenOf
<1>6. Tree(Tip)' = Tree(Tip) \cup ops
  <2>. DEFINE c == [by |-> s, call |-> k, base |-> call[k].copy.base, facts |-> ops]
  <2>1. history' = Append(history, c) /\ c.facts = ops
    BY DEF Land
  <2>. HIDE DEF c
  <2>. QED BY <2>1, TreeAdds
<1>7. Open' = [Open EXCEPT ![s] = {}]
  <2>. DEFINE l == [call[k].copy EXCEPT !.pending = Tip + 1]
  <2>1. log' = [log EXCEPT ![s] = l]
    BY DEF Land
  <2>2. Tip + 1 # None
    BY TipIs, HeadAssumption
  <2>3. OpenOf(l) = {}
    BY <1>2, <2>2 DEF OpenOf, Log
  <2>. HIDE DEF l
  <2>. QED BY <1>2, <2>1, <2>3 DEF Open
<1>8. Facts' = [Facts EXCEPT !["main"] = Facts["main"] \cup {} \cup Open[s]]
  BY <1>5, <1>6 DEF Facts
<1>9. Facts["main"] = Tree(Tip)
  BY DEF Facts
<1>. HIDE DEF ops
<1>10. Open[s] # {} /\ Open[s] \cap (Facts["main"] \cup {}) = {}
  BY <1>1, <1>5, <1>9
<1>11. {} \in SUBSET (IF Facts["main"] = {} THEN Facts["main"] ELSE {})
  OBVIOUS
<1>12. Ledger!Land(s)
  BY <1>7, <1>8, <1>10, <1>11 DEF Ledger!Land, Facts, Open, OpenOf
<1>. QED BY <1>12 DEF Simulated, Ledger!Next

LEMMA OtherSimulated == ASSUME Fit, NEW f \in Fact, Other(f) PROVE Simulated
<1>1. Tree(Tip)' = Tree(Tip) \cup {f} /\ UNCHANGED log
  <2>. DEFINE c == [by |-> None, call |-> None, base |-> Tip, facts |-> {f}]
  <2>1. history' = Append(history, c) /\ c.facts = {f} /\ UNCHANGED log
    BY DEF Other
  <2>. HIDE DEF c
  <2>. QED BY <2>1, TreeAdds
<1>2. Facts' = [Facts EXCEPT !["main"] = Facts["main"] \cup {f}] /\ UNCHANGED Open
  BY <1>1 DEF Facts, Open
<1>3. Ledger!Other
  BY <1>2 DEF Ledger!Other, Facts, Open, OpenOf
<1>. QED BY <1>3 DEF Simulated, Ledger!Next

LEMMA StepSimulated == ASSUME Fit, Owned, [Next]_vars PROVE Simulated
<1>1. Fit'
  BY StepKept, Unchanged, KeptFit DEF vars, Kept
<1>2. CASE \E k \in Calls : Land(k)
  BY <1>2, LandSimulated
<1>3. CASE \E f \in Fact : Other(f)
  BY <1>3, OtherSimulated
<1>4. CASE UNCHANGED history /\ ~\E k \in Calls : Land(k)
  <2>1. CASE UNCHANGED log
    BY <1>4, <2>1, LedgerStutters
  <2>2. CASE \E k \in Calls : Save(k) \/ Recover(k) \/ Drop(k) \/ Final(k)
    BY <1>1, <2>2, CallSimulated
  <2>3. CASE \E s \in Session, f \in Fact : Put(s, f)
    BY <2>3, PutSimulated
  <2>4. (\E k \in Calls : Fails(k)) \/ (\E s \in Session : Reclaim(s)) => UNCHANGED log
    BY DEF Fails, Reclaim
  <2>. QED BY <1>4, <2>1, <2>2, <2>3, <2>4, LogStep
<1>. QED BY <1>2, <1>3, <1>4, HistoryStep

\* Servers, their clients and local calls together do to the ref and the logs what the ledger
\* of the commit path allows, as SessionCommit does: what a server lands reaches the ref all at once and
\* once, however often it is asked, and nothing but ops on the ref is given up (v2.ts,
\* head-server.ts).
THEOREM ServersImplementLedger == Spec => ImplementsLedger
<1>1. Init => Fit /\ Owned
  BY InitFit DEF Init, Owned, Finishing, Unborn
<1>2. Fit /\ Owned /\ [Next]_vars => Fit' /\ Owned'
  <2>. SUFFICES ASSUME Fit, Owned, [Next]_vars PROVE Fit' /\ Owned'
    OBVIOUS
  <2>1. Fit'
    BY StepKept, Unchanged, KeptFit DEF vars, Kept
  <2>. QED BY <2>1, OwnedKept
<1>3. Fit /\ Owned /\ [Next]_vars => Simulated
  BY StepSimulated
<1>. QED BY <1>1, <1>2, <1>3, InitSimulated, PTL DEF Spec, ImplementsLedger, Ledger!Spec, Simulated

-----------------------------------------------------------------------------
(* What each action does to the call it is of. *)

Only(k) == \A j \in Calls \ {k} : call'[j] = call[j]
Ends(k, o) == call'[k] = Ended(k, o) /\ Only(k)
Moves(k, p) ==
    /\ call'[k].kind = call[k].kind /\ call'[k].user = call[k].user /\ call'[k].at = call[k].at
    /\ call'[k].asked = call[k].asked /\ call'[k].phase = p /\ Only(k)
GoesLocal(k) ==
    /\ call'[k].kind = call[k].kind /\ call'[k].user = call[k].user /\ call'[k].at = "local"
    /\ call'[k].asked = call[k].asked /\ call'[k].phase = "resume" /\ Only(k)
    /\ call[k].user = "waiting"

LEMMA SetMoves == ASSUME Fit, NEW k \in Calls, NEW c, call' = [call EXCEPT ![k] = c],
                         c.kind = call[k].kind, c.user = call[k].user, c.at = call[k].at,
                         c.asked = call[k].asked
                  PROVE  Moves(k, c.phase)
  BY DEF Moves, Only, Fit

LEMMA SetEnds == ASSUME Fit, NEW k \in Calls, NEW o, call' = [call EXCEPT ![k] = Ended(k, o)]
                 PROVE  Ends(k, o)
  BY DEF Ends, Only, Fit

LEMMA DeclinedDoes == ASSUME Fit, NEW k \in Calls, call' = [call EXCEPT ![k] = Declined(k)]
                      PROVE  GoesLocal(k) \/ Ends(k, "failed")
<1>1. call[k] \in CallRec
  BY DEF Fit
<1>. DEFINE c == [call[k] EXCEPT !.at = "local", !.phase = "resume"]
<1>2. CASE call[k].user = "waiting"
  <2>1. call' = [call EXCEPT ![k] = c]
    BY <1>2 DEF Declined
  <2>2. /\ c.kind = call[k].kind /\ c.user = call[k].user /\ c.at = "local"
        /\ c.asked = call[k].asked /\ c.phase = "resume"
    BY <1>1 DEF CallRec
  <2>. HIDE DEF c
  <2>. QED BY <1>2, <2>1, <2>2 DEF GoesLocal, Only, Fit
<1>3. CASE call[k].user # "waiting"
  BY <1>3, SetEnds DEF Declined
<1>. QED BY <1>2, <1>3

LEMMA AnsweredDoes == ASSUME Fit, NEW k \in Calls, NEW v, call' = [call EXCEPT ![k] = Answered(k, v)]
                      PROVE  Ends(k, IF v >= call[k].asked THEN "answered" ELSE "outdated")
  BY SetEnds DEF Answered

LEMMA WaitDoes == ASSUME Fit, NEW k \in Calls
                  PROVE  /\ TakePermit(k) => Moves(k, "resume")
                         /\ Busy(k) \/ Decline(k) => GoesLocal(k) \/ Ends(k, "failed")
                         /\ Abandon(k) => Ends(k, "failed")
                         /\ DeadlineOfLookup(k) =>
                              Ends(k, IF Tip >= call[k].asked THEN "answered" ELSE "outdated")
                         /\ Deadline(k) => /\ call'[k].kind = call[k].kind /\ call'[k].at = call[k].at
                                           /\ call'[k].asked = call[k].asked /\ call'[k].phase = call[k].phase
                                           /\ call'[k].user = "failed" /\ Only(k)
<1>1. call[k] \in CallRec /\ call \in [Calls -> CallRec]
  BY DEF Fit
<1>2. ASSUME TakePermit(k) PROVE Moves(k, "resume")
  <2>. DEFINE c == [call[k] EXCEPT !.phase = "resume"]
  <2>1. call' = [call EXCEPT ![k] = c]
    BY <1>2 DEF TakePermit
  <2>2. /\ c.kind = call[k].kind /\ c.user = call[k].user /\ c.at = call[k].at
        /\ c.asked = call[k].asked /\ c.phase = "resume"
    BY <1>1 DEF CallRec
  <2>. HIDE DEF c
  <2>. QED BY <2>1, <2>2, SetMoves
<1>3. ASSUME Busy(k) \/ Decline(k) PROVE GoesLocal(k) \/ Ends(k, "failed")
  BY <1>3, DeclinedDoes DEF Busy, Decline
<1>4. ASSUME Abandon(k) PROVE Ends(k, "failed")
  BY <1>4, SetEnds DEF Abandon
<1>5. ASSUME DeadlineOfLookup(k)
      PROVE  Ends(k, IF Tip >= call[k].asked THEN "answered" ELSE "outdated")
  BY <1>5, AnsweredDoes DEF DeadlineOfLookup, Broken
<1>6. ASSUME Deadline(k)
      PROVE  /\ call'[k].kind = call[k].kind /\ call'[k].at = call[k].at
             /\ call'[k].asked = call[k].asked /\ call'[k].phase = call[k].phase
             /\ call'[k].user = "failed" /\ Only(k)
  <2>1. /\ Lost(call[k]).kind = call[k].kind /\ Lost(call[k]).at = call[k].at
        /\ Lost(call[k]).asked = call[k].asked /\ Lost(call[k]).phase = call[k].phase
        /\ Lost(call[k]).user = "failed"
    BY <1>1 DEF Lost, CallRec
  <2>. QED BY <1>1, <1>6, <2>1 DEF Deadline, Only
<1>. QED BY <1>2, <1>3, <1>4, <1>5, <1>6

LEMMA ArriveDoes == ASSUME Fit, NEW r \in Calls, NEW v, Arrive(r, v)
                    PROVE  \/ UNCHANGED call /\ r \in Server
                           \/ /\ call[r].kind = "search"
                              /\ Ends(r, IF v >= call[r].asked THEN "answered" ELSE "outdated")
                           \/ call[r].kind # "search" /\ (Moves(r, "save") \/ Moves(r, "judge"))
<1>1. call[r] \in CallRec
  BY DEF Fit
<1>. DEFINE c == [call[r] EXCEPT !.version = v, !.phase = "save"]
            d == [call[r] EXCEPT !.version = call[r].copy.base, !.phase = "judge"]
<1>2. /\ c.kind = call[r].kind /\ c.user = call[r].user /\ c.at = call[r].at
      /\ c.asked = call[r].asked /\ c.phase = "save"
      /\ d.kind = call[r].kind /\ d.user = call[r].user /\ d.at = call[r].at
      /\ d.asked = call[r].asked /\ d.phase = "judge"
  BY <1>1 DEF CallRec
<1>3. \/ UNCHANGED call /\ r \in Server
      \/ call[r].kind = "search" /\ call' = [call EXCEPT ![r] = Answered(r, v)]
      \/ call[r].kind # "search" /\ call' = [call EXCEPT ![r] = c]
      \/ call[r].kind # "search" /\ call' = [call EXCEPT ![r] = d]
  <2>1. CASE call[r].kind = "search"
    BY <2>1 DEF Arrive
  <2>2. CASE call[r].kind # "search" /\ (call[r].kind = "rebase" \/ call[r].rounds > 0)
    BY <2>2, Zenon DEF Arrive
  <2>3. CASE call[r].kind # "search" /\ ~(call[r].kind = "rebase" \/ call[r].rounds > 0)
    BY <2>3, Zenon DEF Arrive
  <2>. QED BY <2>1, <2>2, <2>3
<1>. HIDE DEF c, d
<1>4. ASSUME call' = [call EXCEPT ![r] = c] PROVE Moves(r, "save")
  BY <1>2, <1>4, SetMoves
<1>5. ASSUME call' = [call EXCEPT ![r] = d] PROVE Moves(r, "judge")
  BY <1>2, <1>5, SetMoves
<1>. QED BY <1>3, <1>4, <1>5, AnsweredDoes

LEMMA WorkDoes ==
    ASSUME Fit, NEW k \in Calls
    PROVE  /\ Resume(k) => \/ InServer(k) /\ Moves(k, "fresh")
                           \/ /\ ~InServer(k) /\ call[k].kind = "search"
                              /\ Ends(k, IF Tip >= call[k].asked THEN "answered" ELSE "outdated")
                           \/ /\ ~InServer(k) /\ call[k].kind # "search"
                              /\ Moves(k, "save") \/ Moves(k, "judge")
           /\ Save(k) => Moves(k, "judge") \/ \E o \in {"rebase-needed", "failed", "rebased"} : Ends(k, o)
           /\ NothingToLand(k) \/ LogMoved(k) => \E o \in {"refused", "failed"} : Ends(k, o)
           /\ Recover(k) => Moves(k, "follow") \/ Ends(k, "committed")
           /\ Refuse(k) => Moves(k, "drop") \/ Ends(k, "refused")
           /\ Drop(k) => Moves(k, "judge") \/ \E o \in {"refused", "failed"} : Ends(k, o)
           /\ Behind(k) => Moves(k, "resume") \/ Ends(k, "rebase-needed")
           /\ Land(k) => Moves(k, "final")
           /\ Final(k) => Moves(k, "follow") \/ Ends(k, "committed")
           /\ Follow(k) => Ends(k, "committed")
<1>1. call[k] \in CallRec /\ call \in [Calls -> CallRec]
  BY DEF Fit
<1>2. ASSUME NEW p, Goto(k, p) PROVE Moves(k, p)
  <2>. DEFINE c == [call[k] EXCEPT !.phase = p]
  <2>1. call' = [call EXCEPT ![k] = c]
    BY <1>2 DEF Goto
  <2>2. /\ c.kind = call[k].kind /\ c.user = call[k].user /\ c.at = call[k].at
        /\ c.asked = call[k].asked /\ c.phase = p
    BY <1>1 DEF CallRec
  <2>. HIDE DEF c
  <2>. QED BY <2>1, <2>2, SetMoves
<1>3. ASSUME NEW o, Answer(k, o) PROVE Ends(k, o)
  BY <1>3, SetEnds DEF Answer
<1>4. ASSUME Resume(k)
      PROVE  \/ InServer(k) /\ Moves(k, "fresh")
             \/ /\ ~InServer(k) /\ call[k].kind = "search"
                /\ Ends(k, IF Tip >= call[k].asked THEN "answered" ELSE "outdated")
             \/ /\ ~InServer(k) /\ call[k].kind # "search"
                /\ Moves(k, "save") \/ Moves(k, "judge")
  <2>. DEFINE b == [call[k] EXCEPT !.copy = log[call[k].s]]
              c == [b EXCEPT !.phase = "fresh"]
              d == [b EXCEPT !.phase = "save", !.version = Tip]
              e == [b EXCEPT !.phase = "judge", !.version = b.copy.base]
  <2>1. /\ b \in CallRec /\ b.kind = call[k].kind /\ b.user = call[k].user /\ b.at = call[k].at
        /\ b.asked = call[k].asked
    <3>1. log[call[k].s] \in Log
      BY <1>4, Working_ DEF Resume, Working
    <3>. QED BY <1>1, <3>1 DEF CallRec
  <2>2. \/ InServer(k) /\ call' = [call EXCEPT ![k] = c]
        \/ ~InServer(k) /\ call[k].kind = "search" /\ call' = [call EXCEPT ![k] = Answered(k, Tip)]
        \/ ~InServer(k) /\ call[k].kind # "search" /\ call' = [call EXCEPT ![k] = d]
        \/ ~InServer(k) /\ call[k].kind # "search" /\ call' = [call EXCEPT ![k] = e]
    <3>. HIDE DEF c, d, e, b
    <3>. QED BY <1>4, <2>1 DEF Resume, b, c, d, e
  <2>. HIDE DEF b
  <2>3. /\ c.kind = b.kind /\ c.user = b.user /\ c.at = b.at /\ c.asked = b.asked /\ c.phase = "fresh"
        /\ d.kind = b.kind /\ d.user = b.user /\ d.at = b.at /\ d.asked = b.asked /\ d.phase = "save"
        /\ e.kind = b.kind /\ e.user = b.user /\ e.at = b.at /\ e.asked = b.asked /\ e.phase = "judge"
    BY <2>1 DEF CallRec
  <2>. HIDE DEF c, d, e
  <2>4. ASSUME call' = [call EXCEPT ![k] = c] PROVE Moves(k, "fresh")
    BY <2>1, <2>3, <2>4, SetMoves
  <2>5. ASSUME call' = [call EXCEPT ![k] = d] PROVE Moves(k, "save")
    BY <2>1, <2>3, <2>5, SetMoves
  <2>6. ASSUME call' = [call EXCEPT ![k] = e] PROVE Moves(k, "judge")
    BY <2>1, <2>3, <2>6, SetMoves
  <2>. QED BY <2>2, <2>4, <2>5, <2>6, AnsweredDoes
<1>5. ASSUME NEW n, call' = [call EXCEPT ![k] = [call[k] EXCEPT !.phase = "judge", !.copy.base = n]]
      PROVE  Moves(k, "judge")
  <2>. DEFINE c == [call[k] EXCEPT !.phase = "judge", !.copy.base = n]
  <2>1. /\ c.kind = call[k].kind /\ c.user = call[k].user /\ c.at = call[k].at
        /\ c.asked = call[k].asked /\ c.phase = "judge"
    BY <1>1 DEF CallRec
  <2>. HIDE DEF c
  <2>. QED BY <1>5, <2>1, SetMoves DEF c
<1>6. ASSUME NEW n, call' = [call EXCEPT ![k] = [call[k] EXCEPT !.phase = "judge", !.copy.ops = n]]
      PROVE  Moves(k, "judge")
  <2>. DEFINE c == [call[k] EXCEPT !.phase = "judge", !.copy.ops = n]
  <2>1. /\ c.kind = call[k].kind /\ c.user = call[k].user /\ c.at = call[k].at
        /\ c.asked = call[k].asked /\ c.phase = "judge"
    BY <1>1 DEF CallRec
  <2>. HIDE DEF c
  <2>. QED BY <1>6, <2>1, SetMoves DEF c
<1>7. ASSUME NEW n, call' = [call EXCEPT ![k] = [call[k] EXCEPT !.phase = "resume", !.rounds = n]]
      PROVE  Moves(k, "resume")
  <2>. DEFINE c == [call[k] EXCEPT !.phase = "resume", !.rounds = n]
  <2>1. /\ c.kind = call[k].kind /\ c.user = call[k].user /\ c.at = call[k].at
        /\ c.asked = call[k].asked /\ c.phase = "resume"
    BY <1>1 DEF CallRec
  <2>. HIDE DEF c
  <2>. QED BY <1>7, <2>1, SetMoves DEF c
<1>8. ASSUME NEW p, NEW n, call' = [call EXCEPT ![k] = Landing(k, p, n)] PROVE Moves(k, p)
  <2>. DEFINE c == Landing(k, p, n)
  <2>1. /\ c.kind = call[k].kind /\ c.user = call[k].user /\ c.at = call[k].at
        /\ c.asked = call[k].asked /\ c.phase = p
    BY <1>1 DEF CallRec, Landing
  <2>. HIDE DEF c
  <2>. QED BY <1>8, <2>1, SetMoves DEF c
<1>9. Save(k) => Moves(k, "judge") \/ \E o \in {"rebase-needed", "failed", "rebased"} : Ends(k, o)
  <2>1. ASSUME Save(k)
        PROVE  \/ call' = [call EXCEPT ![k] = [call[k] EXCEPT !.phase = "judge", !.copy.base = call[k].version]]
               \/ Answer(k, "rebase-needed") \/ Answer(k, "failed") \/ Answer(k, "rebased")
    BY <1>1, <2>1 DEF Save
  <2>. QED BY <1>3, <1>5, <2>1
<1>10. Drop(k) => Moves(k, "judge") \/ \E o \in {"refused", "failed"} : Ends(k, o)
  <2>1. ASSUME Drop(k)
        PROVE  \/ \E n : call' = [call EXCEPT ![k] = [call[k] EXCEPT !.phase = "judge", !.copy.ops = n]]
               \/ Answer(k, "refused") \/ Answer(k, "failed")
    BY <1>1, <2>1 DEF Drop
  <2>. QED BY <1>3, <1>6, <2>1
<1>11. Behind(k) => Moves(k, "resume") \/ Ends(k, "rebase-needed")
  <2>1. ASSUME Behind(k)
        PROVE  \/ call' = [call EXCEPT ![k] = [call[k] EXCEPT !.phase = "resume", !.rounds = call[k].rounds + 1]]
               \/ Answer(k, "rebase-needed")
    BY <1>1, <2>1 DEF Behind
  <2>. QED BY <1>3, <1>7, <2>1
<1>12. Recover(k) => Moves(k, "follow") \/ Ends(k, "committed")
  BY <1>3, <1>8 DEF Recover
<1>13. Land(k) => Moves(k, "final")
  BY <1>8 DEF Land
<1>14. (Refuse(k) => Moves(k, "drop") \/ Ends(k, "refused"))
       /\ (Final(k) => Moves(k, "follow") \/ Ends(k, "committed"))
  BY <1>2, <1>3 DEF Refuse, Final
<1>15. (NothingToLand(k) \/ LogMoved(k) => \E o \in {"refused", "failed"} : Ends(k, o))
       /\ (Follow(k) => Ends(k, "committed"))
  BY <1>3, SetEnds DEF NothingToLand, LogMoved, Follow
<1>. QED BY <1>4, <1>9, <1>10, <1>11, <1>12, <1>13, <1>14, <1>15

-----------------------------------------------------------------------------
(* An answer is never older than its question. *)

\* What a lookup has seen of the ref it saw after it was asked.
Seen(k) == call[k].kind = "search" /\ look[k].phase \in {"compare", "build"} => call[k].asked <= look[k].seen
AskedInv == \A k \in Calls : Seen(k) /\ call[k].user # "outdated"

\* A look-up that compares or builds has just read the ref, or stands where it stood.
LEMMA LookSees == ASSUME Fit, [Next]_vars, NEW r \in Calls \cup Server
                  PROVE  look'[r].phase \in {"compare", "build"} => look'[r] = look[r] \/ look'[r].seen = Tip
<1>1. look \in [Calls \cup Server -> LookRec]
  BY DEF Fit
<1>2. ASSUME NEW u \in Calls \cup Server, NEW l, look' = [look EXCEPT ![u] = l],
             l.phase \in {"compare", "build"} => l.seen = Tip
      PROVE  look'[r].phase \in {"compare", "build"} => look'[r] = look[r] \/ look'[r].seen = Tip
  BY <1>1, <1>2
<1>3. ASSUME NEW u \in Calls, NEW p \in {"read", "none"}, look' = [look EXCEPT ![u].phase = p]
      PROVE  look'[r].phase \in {"compare", "build"} => look'[r] = look[r]
  <2>1. look' = [look EXCEPT ![u] = [look[u] EXCEPT !.phase = p]]
    BY <1>3
  <2>2. [look[u] EXCEPT !.phase = p].phase = p
    BY <1>1 DEF LookRec
  <2>. QED BY <1>1, <2>1, <2>2
<1>4. CASE UNCHANGED look
  BY <1>4
<1>5. NotLooking.phase = "none"
  BY DEF NotLooking
<1>6. CASE \E w \in Server : Load(w) \/ Claim(w) \/ Unlink(w) \/ Bind(w) \/ Stop(w) \/ Kill(w) \/ Poll(w)
  <2>1. ASSUME NEW w \in Server, Stop(w) \/ Kill(w) PROVE look'[r] \in {look[r], NotLooking}
    BY <2>1 DEF Stop, Kill, Silent
  <2>2. ASSUME NEW w \in Server, Poll(w) PROVE look' = [look EXCEPT ![w] = [phase |-> "compare", seen |-> Tip]]
    BY <2>2 DEF Poll
  <2>. QED BY <1>2, <1>4, <1>5, <1>6, <2>1, <2>2 DEF Load, Claim, Unlink, Bind
<1>7. CASE \E k \in Calls : \/ \E kind \in Kinds, s \in Session : Ask(k, kind, s)
                           \/ Deadline(k) \/ DeadlineOfLookup(k) \/ Abandon(k) \/ Decline(k)
                           \/ Work(k) \/ Fails(k) \/ KillLocal(k)
  <2>1. PICK k \in Calls : \/ \E kind \in Kinds, s \in Session : Ask(k, kind, s)
                           \/ Deadline(k) \/ DeadlineOfLookup(k) \/ Abandon(k) \/ Decline(k)
                           \/ Work(k) \/ Fails(k) \/ KillLocal(k)
    BY <1>7
  <2>2. \/ UNCHANGED look
        \/ \E p \in {"read", "none"} : look' = [look EXCEPT ![k].phase = p]
        \/ look' = [look EXCEPT ![k] = NotLooking]
    BY <2>1, ZenonT(60) DEF Ask, Deadline, DeadlineOfLookup, Abandon, Decline, Work, TakePermit, Busy, Resume, Save,
                NothingToLand, LogMoved, Recover, Refuse, Drop, Behind, Land, Final, Follow, Fails, KillLocal
  <2>. QED BY <1>2, <1>3, <1>5, <2>2
<1>8. CASE \E u \in Calls \cup Server : Fresh(u)
  <2>1. PICK u \in Calls \cup Server : Fresh(u)
    BY <1>8
  <2>2. \/ look' = [look EXCEPT ![u] = NotLooking]
        \/ \E p \in {"compare", "build"} : look' = [look EXCEPT ![u] = [phase |-> p, seen |-> Tip]]
        \/ look' = [look EXCEPT ![u] = [phase |-> "wait", seen |-> 0]]
    BY <2>1 DEF Fresh, ReadRef, Compare, Enter, Advance, Arrive
  <2>. QED BY <1>2, <1>5, <2>2
<1>9. CASE \/ \E s \in Session : Reclaim(s) \/ \E f \in Fact : Put(s, f)
           \/ \E f \in Fact : Other(f)
           \/ UNCHANGED vars
  BY <1>4, <1>9 DEF Reclaim, Put, Other, vars
<1>. QED BY <1>6, <1>7, <1>8, <1>9 DEF Next

\* What a step does to any call: nothing; the asking; the end of what is done for it; or a
\* move to another phase, with what was asked as it was.
Ending(k, o) == call'[k] = Ended(k, o)
Kept_(k) == /\ call'[k].kind = call[k].kind /\ call'[k].asked = call[k].asked
            /\ call'[k].user \in {call[k].user, "failed"}
Asking(k) == \E kind \in Kinds, s \in Session : Ask(k, kind, s)

LEMMA CallDoes ==
    ASSUME Fit, AskedInv, [Next]_vars, NEW j \in Calls
    PROVE  Asking(j) \/ Kept_(j) \/ \E o \in Outcome \ {"outdated"} : Ending(j, o)
<1>1. call \in [Calls -> CallRec] /\ \A k \in Calls : call[k].asked <= Tip /\ call[k].asked \in Nat
  BY TipIs DEF Fit, CallFits, CallRec
<1>2. Tip \in Nat
  BY TipIs
<1>. DEFINE Does(k) == Asking(k) \/ Kept_(k) \/ \E o \in Outcome \ {"outdated"} : Ending(k, o)
<1>. SUFFICES Does(j)
  OBVIOUS
<1>3. ASSUME call'[j] = call[j] PROVE Does(j)
  BY <1>3 DEF Kept_
<1>4. ASSUME NEW k \in Calls, Only(k), Does(k) PROVE Does(j)
  BY <1>3, <1>4 DEF Only
<1>5. ASSUME NEW k \in Calls, NEW p, Moves(k, p) PROVE Does(j)
  BY <1>4, <1>5 DEF Moves, Kept_
<1>6. ASSUME NEW k \in Calls, NEW o \in Outcome \ {"outdated"}, Ends(k, o) PROVE Does(j)
  BY <1>4, <1>6 DEF Ends, Ending
<1>7. ASSUME NEW k \in Calls, GoesLocal(k) PROVE Does(j)
  BY <1>4, <1>7 DEF GoesLocal, Kept_
<1>8. ASSUME NEW k \in Calls, NEW v \in Nat, call[k].asked <= v,
             Ends(k, IF v >= call[k].asked THEN "answered" ELSE "outdated")
      PROVE  Does(j)
  <2>1. v >= call[k].asked
    BY <1>1, <1>8
  <2>. QED BY <1>6, <1>8, <2>1 DEF Outcome
<1>9. ASSUME NEW r \in Calls \cup Server, NEW v \in Nat, Arrive(r, v),
             r \in Calls /\ call[r].kind = "search" => call[r].asked <= v
      PROVE  Does(j)
  <2>1. CASE r \in Calls
    BY <1>3, <1>5, <1>8, <1>9, <2>1, ArriveDoes
  <2>2. CASE r \notin Calls
    BY <1>3, <1>9, <2>2 DEF Arrive
  <2>. QED BY <2>1, <2>2
<1>. HIDE DEF Does
<1>10. CASE \E w \in Server : Load(w) \/ Claim(w) \/ Unlink(w) \/ Bind(w) \/ Stop(w) \/ Kill(w) \/ Poll(w)
  <2>1. ASSUME NEW w \in Server, Stop(w) \/ Kill(w) PROVE Does(j)
    <3>1. call'[j] \in {call[j], Broken(j)}
      BY <2>1 DEF Stop, Kill, Dropped
    <3>2. Broken(j) \in {Ended(j, "answered"), Ended(j, "failed")}
      BY <1>1, <1>2 DEF Broken, Answered
    <3>. QED BY <1>3, <3>1, <3>2 DEF Does, Ending, Outcome
  <2>. QED BY <1>3, <1>10, <2>1 DEF Load, Claim, Unlink, Bind, Poll
<1>11. CASE \E k \in Calls : \/ Asking(k)
                            \/ Deadline(k) \/ DeadlineOfLookup(k) \/ Abandon(k) \/ Decline(k)
                            \/ TakePermit(k) \/ Busy(k)
  <2>1. PICK k \in Calls : \/ Asking(k)
                           \/ Deadline(k) \/ DeadlineOfLookup(k) \/ Abandon(k) \/ Decline(k)
                           \/ TakePermit(k) \/ Busy(k)
    BY <1>11
  <2>2. CASE Asking(k)
    <3>1. Only(k)
      BY <1>1, <2>2 DEF Asking, Ask, Only
    <3>. QED BY <1>4, <2>2, <3>1 DEF Does
  <2>3. CASE Deadline(k)
    <3>1. Only(k) /\ Kept_(k)
      BY <2>3, WaitDoes DEF Kept_
    <3>. QED BY <1>4, <3>1 DEF Does
  <2>4. CASE DeadlineOfLookup(k)
    BY <1>1, <1>2, <1>8, <2>4, WaitDoes
  <2>5. CASE Abandon(k) \/ Decline(k) \/ Busy(k)
    BY <1>6, <1>7, <2>5, WaitDoes DEF Outcome
  <2>6. CASE TakePermit(k)
    BY <1>5, <2>6, WaitDoes
  <2>. QED BY <2>1, <2>2, <2>3, <2>4, <2>5, <2>6
<1>12. CASE \E k \in Calls : \/ Work(k) /\ ~TakePermit(k) /\ ~Busy(k)
                            \/ Fails(k) \/ KillLocal(k)
  <2>1. PICK k \in Calls : \/ Work(k) /\ ~TakePermit(k) /\ ~Busy(k)
                           \/ Fails(k) \/ KillLocal(k)
    BY <1>12
  <2>2. CASE Fails(k) \/ KillLocal(k)
    <3>1. \E o \in {"committed", "rebase-needed", "failed"} : Answer(k, o)
      BY <2>2 DEF Fails, KillLocal
    <3>2. \E o \in {"committed", "rebase-needed", "failed"} : Ends(k, o)
      BY <3>1, SetEnds DEF Answer
    <3>. QED BY <1>6, <3>2 DEF Outcome
  <2>3. CASE Resume(k)
    BY <1>1, <1>2, <1>5, <1>8, <2>3, WorkDoes
  <2>4. CASE Work(k) /\ ~TakePermit(k) /\ ~Busy(k) /\ ~Resume(k)
    <3>1. \/ \E p : Moves(k, p)
          \/ \E o \in {"rebase-needed", "failed", "rebased", "refused", "committed"} : Ends(k, o)
      BY <2>4, WorkDoes DEF Work
    <3>. QED BY <1>5, <1>6, <3>1 DEF Outcome
  <2>. QED BY <2>1, <2>2, <2>3, <2>4
<1>13. CASE \E r \in Calls \cup Server : Fresh(r)
  <2>1. PICK r \in Calls \cup Server : Fresh(r)
    BY <1>13
  <2>2. look[r].seen \in Nat
    BY DEF Fit, LookRec
  <2>3. CASE UNCHANGED call
    BY <1>3, <2>3
  <2>4. CASE Compare(r) /\ look[r].seen = Held(r) /\ Arrive(r, Held(r))
    <3>1. r \in Calls /\ call[r].kind = "search" => call[r].asked <= look[r].seen
      BY <2>4 DEF Compare, AskedInv, Seen
    <3>. QED BY <1>9, <2>2, <2>4, <3>1
  <2>5. CASE Enter(r) /\ Tip = Held(r) /\ Arrive(r, Held(r))
    BY <1>1, <1>2, <1>9, <2>5
  <2>6. CASE Advance(r)
    <3>1. r \in Calls /\ call[r].kind = "search" => call[r].asked <= look[r].seen
      BY <2>6 DEF Advance, AskedInv, Seen
    <3>. QED BY <1>9, <2>2, <2>6, <3>1 DEF Advance
  <2>. QED BY <2>1, <2>3, <2>4, <2>5, <2>6 DEF Fresh, ReadRef, Compare, Enter
<1>14. CASE \/ \E s \in Session : Reclaim(s) \/ \E f \in Fact : Put(s, f)
            \/ \E f \in Fact : Other(f)
            \/ UNCHANGED vars
  BY <1>3, <1>14 DEF Reclaim, Put, Other, vars
<1>. QED BY <1>10, <1>11, <1>12, <1>13, <1>14 DEF Next, Asking

LEMMA AskedKept == ASSUME Fit, AskedInv, [Next]_vars PROVE AskedInv'
<1>. SUFFICES ASSUME NEW k \in Calls PROVE Seen(k)' /\ call'[k].user # "outdated"
  BY DEF AskedInv
<1>1. /\ call[k].asked \in Nat /\ call[k].asked <= Tip /\ Tip \in Nat /\ look[k].seen \in Nat
      /\ call[k].user # "outdated" /\ call \in [Calls -> CallRec] /\ look \in [Calls \cup Server -> LookRec]
  BY TipIs DEF Fit, CallFits, CallRec, LookRec, AskedInv
<1>2. CASE Asking(k)
  <2>1. PICK kind \in Kinds, s \in Session : Ask(k, kind, s)
    BY <1>2 DEF Asking
  <2>2. call'[k].user = "waiting"
    <3>1. PICK at \in ({socket} \cap Server) \cup {"local"},
               p \in {"resume", "fresh", "queued"}, n \in {Tip, 0} :
            call' = [call EXCEPT ![k] = [Unborn EXCEPT !.kind = kind, !.s = s, !.user = "waiting",
                                         !.at = at, !.asked = n, !.phase = p]]
      BY <2>1 DEF Ask
    <3>. QED BY <1>1, <3>1 DEF Unborn
  <2>3. look'[k].phase \in {"read", "none"}
    BY <1>1, <2>1 DEF Ask, LookRec
  <2>. QED BY <2>2, <2>3 DEF Seen
<1>3. CASE Kept_(k)
  <2>1. look'[k].phase \in {"compare", "build"} => look'[k] = look[k] \/ look'[k].seen = Tip
    BY LookSees
  <2>. QED BY <1>1, <1>3, <2>1 DEF Kept_, Seen, AskedInv
<1>4. ASSUME NEW o \in Outcome \ {"outdated"}, Ending(k, o) PROVE Seen(k)' /\ call'[k].user # "outdated"
  <2>1. /\ call'[k].kind = None
        /\ call'[k].user \in {o, call[k].user}
    BY <1>4 DEF Ending, Ended, Unborn
  <2>2. call'[k].user # "outdated"
    BY <1>1, <2>1
  <2>3. None # "search"
    BY HeadAssumption DEF CallKinds
  <2>. QED BY <2>1, <2>2, <2>3 DEF Seen
<1>. QED BY <1>2, <1>3, <1>4, CallDoes

\* A lookup is never answered with a version older than the ref was when it was asked,
\* whether its server answers, is killed and the client looks again, or nobody listened:
\* `fresh` reads the ref after the request and never before it.
THEOREM AnswersAreFresh == Spec => []NeverOlder
<1>1. Init => AskedInv
  BY DEF Init, AskedInv, Seen, NotLooking, Unborn
<1>2. Fit /\ AskedInv /\ [Next]_vars => AskedInv'
  BY AskedKept
<1>3. AskedInv => NeverOlder
  BY DEF AskedInv, NeverOlder
<1>. QED BY <1>1, <1>2, <1>3, SpecFit, PTL DEF Spec

-----------------------------------------------------------------------------
(* An answer that says nothing landed is true, and stays true. *)

Landed(k) == \E n \in 1..Tip : history[n].call = k
Refusals == {"refused", "rebase-needed", "rebased"}

\* What a call was told, against what its commit did: a call whose commit is on the ref is in
\* its last two phases or told so; one that works on has told nothing; a lookup commits
\* nothing; and only a call in `fresh` at a server reads the ref there.
TrueOf(k) ==
    /\ call[k].user \in Refusals => call[k].at = None /\ ~Landed(k)
    /\ Landed(k) => \/ call[k].at # None /\ call[k].phase \in {"final", "follow"}
                    \/ call[k].at = None /\ call[k].user \in {"committed", "failed"}
    /\ call[k].at # None => call[k].user \in {"waiting", "failed"}
    /\ call[k].kind = "search" => call[k].phase \in {"none", "fresh", "resume"}
    /\ look[k].phase # "none" => call[k].at \in Server /\ call[k].phase = "fresh"
Honest == \A k \in Calls : TrueOf(k)

LEMMA SameTrue == ASSUME Honest, NEW k \in Calls, call'[k] = call[k], look'[k] = look[k],
                         Landed(k)' => Landed(k)
                  PROVE  TrueOf(k)'
  BY DEF Honest, TrueOf

LEMMA EndedTrue == ASSUME Fit, Honest, NEW k \in Calls, NEW o \in Outcome, call'[k] = Ended(k, o),
                          call[k].at # None, look'[k].phase = "none", UNCHANGED history,
                          Landed(k) => o \in {"committed", "failed"}
                   PROVE  TrueOf(k)'
<1>1. /\ call'[k].kind = None /\ call'[k].at = None /\ call'[k].phase = "none"
      /\ call'[k].user = IF call[k].user = "waiting" THEN o ELSE call[k].user
  BY DEF Ended, Unborn
<1>2. Landed(k)' = Landed(k)
  BY DEF Landed, Tip
<1>3. call[k].user \in {"waiting", "failed"}
  BY DEF Honest, TrueOf
<1>4. None # "search"
  BY HeadAssumption DEF CallKinds
<1>. QED BY <1>1, <1>2, <1>3, <1>4 DEF TrueOf, Refusals, Outcome

LEMMA EndsTrue == ASSUME Fit, Honest, NEW k \in Calls, NEW o \in Outcome, Ends(k, o),
                         call[k].at # None, look'[k].phase = "none", UNCHANGED history,
                         Landed(k) => o \in {"committed", "failed"}
                  PROVE  TrueOf(k)'
  BY EndedTrue DEF Ends

LEMMA MovesTrue == ASSUME Fit, Honest, NEW k \in Calls, NEW p, Moves(k, p), call[k].at # None,
                          Landed(k)' => p \in {"final", "follow"},
                          call[k].kind = "search" => p \in {"fresh", "resume"},
                          look'[k].phase # "none" => call[k].at \in Server /\ p = "fresh"
                   PROVE  TrueOf(k)'
<1>1. call[k].user \in {"waiting", "failed"}
  BY DEF Honest, TrueOf
<1>. QED BY <1>1 DEF TrueOf, Moves, Refusals

LEMMA LocalTrue == ASSUME Fit, Honest, NEW k \in Calls, GoesLocal(k), ~Landed(k), UNCHANGED history,
                          look'[k].phase = "none"
                   PROVE  TrueOf(k)'
<1>1. "local" # None
  BY HeadAssumption
<1>2. ~Landed(k)'
  BY DEF Landed, Tip
<1>. QED BY <1>1, <1>2 DEF TrueOf, GoesLocal, Refusals

\* What is done for one call leaves the others as they were.
Alone(k) == /\ Only(k) /\ \A j \in Calls \ {k} : look'[j] = look[j] /\ (Landed(j)' => Landed(j))
            /\ TrueOf(k)'
LEMMA AloneTrue == ASSUME Honest, NEW k \in Calls, Alone(k) PROVE Honest'
<1>. SUFFICES ASSUME NEW j \in Calls PROVE TrueOf(j)'
  BY DEF Honest
<1>1. CASE j = k
  BY <1>1 DEF Alone
<1>2. CASE j # k
  BY <1>2, SameTrue DEF Alone, Only
<1>. QED BY <1>1, <1>2

LEMMA QuietAlone == ASSUME Fit, NEW k \in Calls, NEW l, UNCHANGED history, Only(k), TrueOf(k)',
                           look' = look \/ look' = [look EXCEPT ![k] = l]
                    PROVE  Alone(k)
<1>1. \A j \in Calls \ {k} : look'[j] = look[j]
  BY DEF Fit
<1>2. \A j \in Calls : Landed(j)' => Landed(j)
  BY DEF Landed, Tip
<1>. QED BY <1>1, <1>2 DEF Alone

LEMMA AtServer == ASSUME NEW k \in Calls, InServer(k)
                  PROVE  call[k].at # None /\ call[k].at # "local" /\ call[k].at \in Server
  BY HeadAssumption DEF InServer

LEMMA WaitTrue == ASSUME Fit, Honest, NEW k \in Calls,
                         \/ Deadline(k) \/ DeadlineOfLookup(k) \/ Abandon(k) \/ Decline(k)
                         \/ TakePermit(k) \/ Busy(k)
                  PROVE  Alone(k)
<1>1. TrueOf(k) /\ call[k] \in CallRec /\ look \in [Calls \cup Server -> LookRec]
  BY DEF Honest, Fit
<1>2. InServer(k) /\ UNCHANGED history
  BY DEF Deadline, DeadlineOfLookup, Abandon, Decline, TakePermit, Busy
<1>3. call[k].at # None /\ call[k].at \in Server
  BY <1>2, AtServer
<1>4. NotLooking.phase = "none"
  BY DEF NotLooking
<1>5. CASE Deadline(k)
  <2>1. /\ call'[k].kind = call[k].kind /\ call'[k].at = call[k].at
        /\ call'[k].phase = call[k].phase /\ call'[k].user = "failed" /\ Only(k)
    BY <1>5, WaitDoes
  <2>2. look' = look /\ (Landed(k)' => Landed(k))
    BY <1>2, <1>5 DEF Deadline, Landed, Tip
  <2>3. TrueOf(k)'
    BY <1>1, <1>3, <2>1, <2>2 DEF TrueOf, Refusals
  <2>. QED BY <1>2, <2>1, <2>2, <2>3, QuietAlone
<1>6. CASE DeadlineOfLookup(k)
  <2>1. \E o \in Outcome : Ends(k, o)
    BY <1>6, WaitDoes DEF Outcome
  <2>2. ~Landed(k) /\ look' = [look EXCEPT ![k] = NotLooking]
    BY <1>1, <1>3, <1>6 DEF DeadlineOfLookup, TrueOf
  <2>3. TrueOf(k)'
    BY <1>1, <1>2, <1>3, <1>4, <2>1, <2>2, EndsTrue
  <2>. QED BY <1>2, <2>1, <2>2, <2>3, QuietAlone DEF Ends
<1>7. CASE Abandon(k) \/ Busy(k)
  <2>1. GoesLocal(k) \/ Ends(k, "failed")
    BY <1>7, WaitDoes
  <2>2. ~Landed(k) /\ look' = look /\ look[k].phase = "none"
    BY <1>1, <1>3, <1>7 DEF Abandon, Busy, TrueOf
  <2>3. TrueOf(k)'
    BY <1>2, <1>3, <2>1, <2>2, EndsTrue, LocalTrue DEF Outcome
  <2>. QED BY <1>2, <2>1, <2>2, <2>3, QuietAlone DEF Ends, GoesLocal
<1>8. CASE Decline(k)
  <2>1. GoesLocal(k) \/ Ends(k, "failed")
    BY <1>8, WaitDoes
  <2>2. ~Landed(k) /\ look' = [look EXCEPT ![k] = NotLooking]
    BY <1>1, <1>3, <1>8 DEF Decline, TrueOf
  <2>3. TrueOf(k)'
    BY <1>1, <1>2, <1>3, <1>4, <2>1, <2>2, EndsTrue, LocalTrue DEF Outcome
  <2>. QED BY <1>2, <2>1, <2>2, <2>3, QuietAlone DEF Ends, GoesLocal
<1>9. CASE TakePermit(k)
  <2>1. Moves(k, "resume")
    BY <1>9, WaitDoes
  <2>2. look' = look /\ look[k].phase = "none" /\ ~Landed(k)'
    BY <1>1, <1>2, <1>3, <1>9 DEF TakePermit, TrueOf, Landed, Tip
  <2>3. TrueOf(k)'
    BY <1>3, <2>1, <2>2, MovesTrue
  <2>. QED BY <1>2, <2>1, <2>2, <2>3, QuietAlone DEF Moves
<1>. QED BY <1>5, <1>6, <1>7, <1>8, <1>9

LEMMA WorkTrue == ASSUME Fit, Honest, NEW k \in Calls, Work(k) PROVE Alone(k)
<1>1. TrueOf(k) /\ call[k] \in CallRec /\ look \in [Calls \cup Server -> LookRec]
  BY DEF Honest, Fit
<1>2. CASE TakePermit(k) \/ Busy(k)
  BY <1>2, WaitTrue
<1>3. CASE Resume(k)
  <2>1. call[k].at # None /\ call[k].phase = "resume" /\ UNCHANGED history
    BY <1>3 DEF Resume, Working
  <2>2. ~Landed(k) /\ ~Landed(k)'
    BY <1>1, <2>1 DEF TrueOf, Landed, Tip
  <2>. DEFINE l == [look[k] EXCEPT !.phase = IF InServer(k) THEN "read" ELSE "none"]
  <2>3. look' = [look EXCEPT ![k] = l] /\ l.phase = IF InServer(k) THEN "read" ELSE "none"
    BY <1>1, <1>3 DEF Resume, LookRec
  <2>. HIDE DEF l
  <2>4. look'[k].phase = IF InServer(k) THEN "read" ELSE "none"
    BY <1>1, <2>3
  <2>5. CASE InServer(k) /\ Moves(k, "fresh")
    <3>1. TrueOf(k)'
      BY <2>1, <2>2, <2>5, AtServer, MovesTrue
    <3>. QED BY <2>1, <2>3, <2>5, <3>1, QuietAlone DEF Moves
  <2>6. CASE ~InServer(k) /\ \E o \in {"answered", "outdated"} : Ends(k, o)
    <3>1. TrueOf(k)'
      BY <2>1, <2>2, <2>4, <2>6, EndsTrue DEF Outcome
    <3>. QED BY <2>1, <2>3, <2>6, <3>1, QuietAlone DEF Ends
  <2>7. CASE ~InServer(k) /\ call[k].kind # "search" /\ \E p : Moves(k, p)
    <3>1. PICK p : Moves(k, p)
      BY <2>7
    <3>2. TrueOf(k)'
      BY <2>1, <2>2, <2>4, <2>7, <3>1, MovesTrue
    <3>. QED BY <2>1, <2>3, <3>1, <3>2, QuietAlone DEF Moves
  <2>. QED BY <1>3, <2>5, <2>6, <2>7, WorkDoes
<1>4. CASE Land(k)
  <2>1. call[k].at # None /\ call[k].phase = "judge" /\ look' = look /\ Moves(k, "final")
    BY <1>4, WorkDoes DEF Land, Refusable, Working
  <2>2. look'[k].phase = "none" /\ call[k].kind # "search"
    BY <1>1, <2>1 DEF TrueOf
  <2>3. TrueOf(k)'
    BY <2>1, <2>2, MovesTrue
  <2>4. ASSUME NEW j \in Calls \ {k}, Landed(j)' PROVE Landed(j)
    <3>1. PICK n \in 1..Len(history') : history'[n].call = j
      BY <2>4 DEF Landed, Tip
    <3>. DEFINE c == [by |-> call[k].s, call |-> k, base |-> call[k].copy.base, facts |-> call[k].copy.ops]
    <3>2. history' = Append(history, c) /\ c.call = k
      BY <1>4 DEF Land
    <3>. HIDE DEF c
    <3>3. history \in Seq(Commit)
      BY DEF Fit
    <3>. QED BY <3>1, <3>2, <3>3 DEF Landed, Tip
  <2>. QED BY <2>1, <2>3, <2>4 DEF Alone, Moves
<1>5. CASE Final(k) \/ Follow(k)
  <2>1. call[k].at # None /\ look' = look /\ UNCHANGED history /\ look[k].phase = "none"
        /\ call[k].kind # "search"
    BY <1>1, <1>5 DEF Final, Follow, Working, TrueOf
  <2>2. Moves(k, "follow") \/ Ends(k, "committed")
    BY <1>5, WorkDoes
  <2>3. TrueOf(k)'
    BY <2>1, <2>2, MovesTrue, EndsTrue DEF Outcome
  <2>. QED BY <2>1, <2>2, <2>3, QuietAlone DEF Moves, Ends
<1>6. CASE \/ Save(k) \/ NothingToLand(k) \/ LogMoved(k) \/ Recover(k) \/ Refuse(k)
           \/ Drop(k) \/ Behind(k)
  <2>1. /\ call[k].at # None /\ call[k].phase \in {"save", "judge", "drop"}
        /\ look' = look /\ UNCHANGED history
    BY <1>6 DEF Save, NothingToLand, LogMoved, Recover, Refuse, Drop, Behind, Refusable, Working
  <2>2. look[k].phase = "none" /\ call[k].kind # "search" /\ ~Landed(k) /\ ~Landed(k)'
    BY <1>1, <2>1 DEF TrueOf, Landed, Tip
  <2>3. (\E p : Moves(k, p)) \/ \E o \in Outcome : Ends(k, o)
    BY <1>6, WorkDoes DEF Outcome
  <2>4. TrueOf(k)'
    BY <2>1, <2>2, <2>3, MovesTrue, EndsTrue
  <2>. QED BY <2>1, <2>3, <2>4, QuietAlone DEF Moves, Ends
<1>. QED BY <1>2, <1>3, <1>4, <1>5, <1>6 DEF Work

LEMMA FailTrue == ASSUME Fit, Honest, NEW k \in Calls, Fails(k) \/ KillLocal(k) PROVE Alone(k)
<1>1. TrueOf(k) /\ look \in [Calls \cup Server -> LookRec]
  BY DEF Honest, Fit
<1>2. CASE Fails(k)
  <2>1. call[k].at # None /\ UNCHANGED history /\ look' = [look EXCEPT ![k] = NotLooking]
    BY <1>2 DEF Fails
  <2>2. \E o \in {"committed", "rebase-needed", "failed"} :
           Ends(k, o) /\ (Landed(k) => o # "rebase-needed")
    <3>1. \E o \in {"committed", "rebase-needed", "failed"} :
             /\ call' = [call EXCEPT ![k] = Ended(k, o)]
             /\ o = "rebase-needed" => call[k].phase \in {"resume", "fresh", "save"}
      BY <1>2 DEF Fails, Answer
    <3>2. Landed(k) => call[k].phase \in {"final", "follow"}
      BY <1>1, <2>1 DEF TrueOf
    <3>. QED BY <3>1, <3>2, SetEnds
  <2>3. look'[k].phase = "none"
    BY <1>1, <2>1 DEF NotLooking
  <2>4. TrueOf(k)'
    BY <2>1, <2>2, <2>3, EndsTrue DEF Outcome
  <2>. QED BY <2>1, <2>2, <2>4, QuietAlone DEF Ends
<1>3. CASE KillLocal(k)
  <2>1. call[k].at = "local" /\ UNCHANGED history /\ look' = look /\ Ends(k, "failed")
    BY <1>3, SetEnds DEF KillLocal, Answer
  <2>2. call[k].at # None /\ look[k].phase = "none"
    BY <1>1, <2>1, HeadAssumption DEF TrueOf
  <2>3. TrueOf(k)'
    BY <2>1, <2>2, EndsTrue DEF Outcome
  <2>. QED BY <2>1, <2>3, QuietAlone DEF Ends
<1>. QED BY <1>2, <1>3

LEMMA AskTrue == ASSUME Fit, Honest, NEW k \in Calls, Asking(k) PROVE Alone(k)
<1>1. PICK kind \in Kinds, s \in Session : Ask(k, kind, s)
  BY DEF Asking
<1>2. TrueOf(k) /\ call \in [Calls -> CallRec] /\ look \in [Calls \cup Server -> LookRec]
  BY DEF Honest, Fit
<1>3. ~Landed(k)' /\ UNCHANGED history
  BY <1>1, <1>2 DEF Ask, Starting, TrueOf, Landed, Tip
<1>4. PICK at \in ({socket} \cap Server) \cup {"local"} :
         call' = [call EXCEPT ![k] = [Unborn EXCEPT
            !.kind = kind, !.s = s, !.user = "waiting", !.at = at,
            !.asked = IF kind = "search" THEN Tip ELSE 0,
            !.phase = CASE at = "local" -> "resume"
                        [] at # "local" /\ kind = "search" -> "fresh"
                        [] OTHER -> "queued"]]
  BY <1>1, Zenon DEF Ask
<1>5. at # "local" => at \in Server
  BY <1>4
<1>6. /\ Only(k) /\ call'[k].user = "waiting" /\ call'[k].kind = kind /\ call'[k].at = at
      /\ call'[k].phase \in {"resume", "fresh", "queued"}
      /\ kind = "search" => call'[k].phase \in {"resume", "fresh"}
      /\ call'[k].phase = "fresh" => at \in Server
  BY <1>2, <1>4, <1>5 DEF Only, Unborn
<1>. DEFINE l == [look[k] EXCEPT !.phase = IF call'[k].phase = "fresh" THEN "read" ELSE "none"]
<1>7. look' = [look EXCEPT ![k] = l] /\ look'[k].phase = IF call'[k].phase = "fresh" THEN "read" ELSE "none"
  BY <1>1, <1>2 DEF Ask, LookRec
<1>. HIDE DEF l
<1>8. TrueOf(k)'
  BY <1>3, <1>6, <1>7 DEF TrueOf, Refusals
<1>. QED BY <1>3, <1>6, <1>7, <1>8, QuietAlone

LEMMA FreshTrue == ASSUME Fit, Honest, NEW r \in Calls \cup Server, Fresh(r) PROVE Honest'
<1>1. look \in [Calls \cup Server -> LookRec] /\ UNCHANGED history
  BY DEF Fit, Fresh, ReadRef, Compare, Enter, Advance
<1>2. /\ look[r].phase # "none"
      /\ \E l : look' = [look EXCEPT ![r] = l]
      /\ UNCHANGED call \/ (look' = [look EXCEPT ![r] = NotLooking] /\ \E v : Arrive(r, v))
  BY DEF Fresh, ReadRef, Compare, Enter, Advance, Arrive
<1>3. PICK l : look' = [look EXCEPT ![r] = l]
  BY <1>2
<1>4. CASE UNCHANGED call
  <2>. SUFFICES ASSUME NEW j \in Calls PROVE TrueOf(j)'
    BY DEF Honest
  <2>1. Landed(j)' = Landed(j) /\ TrueOf(j)
    BY <1>1 DEF Landed, Tip, Honest
  <2>2. look'[j].phase = "none" \/ look[j].phase # "none" \/ look'[j] = look[j]
    BY <1>1, <1>2, <1>3
  <2>. QED BY <1>4, <2>1, <2>2 DEF TrueOf
<1>5. ASSUME r \in Calls, look' = [look EXCEPT ![r] = NotLooking], NEW v, Arrive(r, v)
      PROVE  Honest'
  <2>1. /\ call[r].at # None /\ ~Landed(r) /\ ~Landed(r)'
    BY <1>1, <1>2, <1>5, HeadAssumption DEF Honest, TrueOf, Landed, Tip
  <2>2. look'[r].phase = "none"
    BY <1>1, <1>5 DEF NotLooking
  <2>3. (call[r].kind # "search" /\ \E p : Moves(r, p)) \/ (\E o \in Outcome : Ends(r, o)) \/ UNCHANGED call
    BY <1>5, ArriveDoes DEF Outcome
  <2>4. CASE ~UNCHANGED call
    <3>1. TrueOf(r)'
      BY <1>1, <1>5, <2>1, <2>2, <2>3, <2>4, MovesTrue, EndsTrue
    <3>2. Alone(r)
      BY <1>1, <1>3, <1>5, <2>3, <2>4, <3>1, QuietAlone DEF Moves, Ends
    <3>. QED BY <1>5, <3>2, AloneTrue
  <2>. QED BY <1>4, <2>4
<1>6. ASSUME r \notin Calls, NEW v, Arrive(r, v) PROVE UNCHANGED call
  BY <1>6 DEF Arrive
<1>. QED BY <1>2, <1>4, <1>5, <1>6

LEMMA GoneTrue == ASSUME Fit, Honest, NEW w \in Server, Stop(w) \/ Kill(w) PROVE Honest'
<1>. SUFFICES ASSUME NEW j \in Calls PROVE TrueOf(j)'
  BY DEF Honest
<1>1. call' = Dropped(w) /\ look' = Silent(w) /\ UNCHANGED history
  BY DEF Stop, Kill
<1>2. j # w
  BY HeadAssumption DEF Calls
<1>3. TrueOf(j)
  BY DEF Honest
<1>4. CASE call[j].at = w
  <2>1. call'[j] = Broken(j) /\ look'[j].phase = "none"
    BY <1>1, <1>4 DEF Dropped, Silent, NotLooking
  <2>2. call[j].at # None
    BY <1>4, HeadAssumption
  <2>3. call[j].kind = "search" => ~Landed(j)
    BY <1>3, <2>2 DEF TrueOf
  <2>4. \E o \in Outcome : call'[j] = Ended(j, o) /\ (Landed(j) => o \in {"committed", "failed"})
    BY <2>1, <2>3 DEF Broken, Answered, Outcome
  <2>. QED BY <1>1, <2>1, <2>2, <2>4, EndedTrue
<1>5. CASE call[j].at # w
  <2>1. call'[j] = call[j] /\ look'[j] = look[j] /\ Landed(j)' = Landed(j)
    BY <1>1, <1>2, <1>5 DEF Dropped, Silent, Landed, Tip
  <2>. QED BY <2>1, SameTrue
<1>. QED BY <1>4, <1>5

LEMMA HonestKept == ASSUME Fit, Honest, [Next]_vars PROVE Honest'
<1>1. ASSUME UNCHANGED call, \A j \in Calls : look'[j] = look[j] /\ (Landed(j)' => Landed(j)) PROVE Honest'
  BY <1>1, SameTrue DEF Honest
<1>2. CASE \E w \in Server : Stop(w) \/ Kill(w)
  BY <1>2, GoneTrue
<1>3. CASE \E w \in Server : Load(w) \/ Claim(w) \/ Unlink(w) \/ Bind(w) \/ Poll(w)
  <2>1. PICK w \in Server : Load(w) \/ Claim(w) \/ Unlink(w) \/ Bind(w) \/ Poll(w)
    BY <1>3
  <2>2. w \notin Calls
    BY HeadAssumption DEF Calls
  <2>3. UNCHANGED <<history, call>> /\ (look' = look \/ \E l : look' = [look EXCEPT ![w] = l])
    BY <2>1 DEF Load, Claim, Unlink, Bind, Poll
  <2>4. \A j \in Calls : look'[j] = look[j]
    BY <2>2, <2>3 DEF Fit
  <2>. QED BY <1>1, <2>3, <2>4 DEF Landed, Tip
<1>4. CASE \E k \in Calls : \/ Asking(k)
                           \/ Deadline(k) \/ DeadlineOfLookup(k) \/ Abandon(k) \/ Decline(k)
                           \/ Work(k) \/ Fails(k) \/ KillLocal(k)
  BY <1>4, AloneTrue, AskTrue, WaitTrue, WorkTrue, FailTrue
<1>5. CASE \E r \in Calls \cup Server : Fresh(r)
  BY <1>5, FreshTrue
<1>6. CASE (\E s \in Session : Reclaim(s) \/ \E f \in Fact : Put(s, f)) \/ UNCHANGED vars
  BY <1>1, <1>6 DEF Reclaim, Put, vars, Landed, Tip
<1>7. CASE \E f \in Fact : Other(f)
  <2>1. PICK f \in Fact : Other(f)
    BY <1>7
  <2>. DEFINE c == [by |-> None, call |-> None, base |-> Tip, facts |-> {f}]
  <2>2. history' = Append(history, c) /\ c.call = None /\ UNCHANGED <<call, look>>
    BY <2>1 DEF Other
  <2>. HIDE DEF c
  <2>3. ASSUME NEW j \in Calls, Landed(j)' PROVE Landed(j)
    <3>1. PICK n \in 1..Len(history') : history'[n].call = j
      BY <2>3 DEF Landed, Tip
    <3>2. j # None
      BY HeadAssumption DEF Calls
    <3>3. history \in Seq(Commit)
      BY DEF Fit
    <3>. QED BY <2>2, <3>1, <3>2, <3>3 DEF Landed, Tip
  <2>. QED BY <1>1, <2>2, <2>3
<1>. QED BY <1>2, <1>3, <1>4, <1>5, <1>6, <1>7 DEF Next, Asking

\* A call told `refused`, `rebase-needed` or `rebased` landed nothing, and nothing done for it
\* lands later, whichever process works for it, stops, fails or is given up on: those answers
\* are given by the work itself as it ends, and no deadline or broken connection gives them.
THEOREM AnswersAreHonest == Spec => []HonestAnswer
<1>1. Init => Honest
  <2>1. None # "search" /\ (\A k \in Calls : k # None)
    BY HeadAssumption DEF Calls, CallKinds
  <2>2. ASSUME Init, NEW k \in Calls PROVE ~Landed(k)
    BY <2>1, <2>2 DEF Init, Landed, Tip
  <2>. QED BY <2>1, <2>2 DEF Init, Honest, TrueOf, Unborn, NotLooking, Refusals
<1>2. Fit /\ Honest /\ [Next]_vars => Honest'
  BY HonestKept
<1>3. Honest => HonestAnswer
  BY DEF Honest, TrueOf, HonestAnswer, Landed, Refusals
<1>. QED BY <1>1, <1>2, <1>3, SpecFit, PTL DEF Spec

-----------------------------------------------------------------------------
(* A permit is held by work in hand, and a version only moves forward. *)

\* Whoever asks, or looks, does so at a server that is up; a permit to commit is held by a
\* commit or rebase at that server that waits no more, one to advance by a look-up there that
\* builds; and one that builds holds it, over a version not past what it has seen.
Alive ==
    /\ socket \in Server => server[socket].phase = "up"
    /\ \A k \in Calls : call[k].at \in Server => server[call[k].at].phase = "up"
    /\ \A w \in Server : look[w].phase # "none" => server[w].phase = "up"
HoldsGate(k, w) == call[k].at = w /\ call[k].phase # "queued" /\ call[k].kind # "search"
Held_(w) ==
    /\ server[w].gate # None => HoldsGate(server[w].gate, w)
    /\ server[w].advance # None =>
         look[server[w].advance].phase = "build" /\ At(server[w].advance) = w
Built(r) == look[r].phase = "build" => server[At(r)].advance = r /\ Held(r) <= look[r].seen
PermitInv == Alive /\ (\A w \in Server : Held_(w)) /\ \A r \in Calls \cup Server : Built(r)

LEMMA Apart == /\ Calls \cap Server = {} /\ None \notin Calls \cup Server
               /\ "local" \notin Server /\ None # "search"
  BY HeadAssumption DEF Calls, CallKinds

LEMMA Steady == ASSUME PermitInv, UNCHANGED <<server, look, socket>>,
                       \A k \in Calls : /\ call'[k].at = call[k].at /\ call'[k].phase = call[k].phase
                                        /\ call'[k].kind = call[k].kind,
                       Fit
                PROVE  PermitInv'
<1>1. \A w \in Server : server[w].gate \in Calls \cup {None} /\ server[w].advance \in Calls \cup Server \cup {None}
  BY DEF Fit, ServerRec
<1>2. \A r \in Calls \cup Server : At(r)' = At(r)
  BY DEF At
<1>3. Alive'
  BY DEF Alive, PermitInv
<1>4. ASSUME NEW w \in Server PROVE Held_(w)'
  <2>1. Held_(w)
    BY DEF PermitInv
  <2>. QED BY <1>1, <1>2, <2>1 DEF Held_, HoldsGate
<1>5. ASSUME NEW r \in Calls \cup Server PROVE Built(r)'
  BY <1>2 DEF PermitInv, Built, Held
<1>. QED BY <1>3, <1>4, <1>5 DEF PermitInv

\* What one call, or one poll, may do to the permits.
Careful(r) ==
    /\ \A j \in Calls \ {r} : call'[j] = call[j]
    /\ \A u \in (Calls \cup Server) \ {r} : look'[u] = look[u]
    /\ look'[r].phase # "build"
    /\ r \in Calls /\ call'[r].at \in Server => server[call'[r].at].phase = "up"
    /\ r \in Server /\ look'[r].phase # "none" => server[r].phase = "up"
    /\ \A w \in Server :
         /\ server'[w].phase = server[w].phase
         /\ server'[w].held = server[w].held \/ server[w].advance \in {None, r}
         /\ server[w].advance # r => server'[w].advance = server[w].advance
         /\ server'[w].advance # r
         /\ server[w].advance = r => server'[w].advance = None
         /\ server'[w].gate \in {server[w].gate, None, r}
         /\ server'[w].gate = r => HoldsGate(r, w)'
LEMMA CarefulKeeps == ASSUME Fit, Honest, PermitInv, NEW r \in Calls \cup Server, Careful(r), UNCHANGED socket
                      PROVE  PermitInv'
<1>1. \A w \in Server : server[w].gate \in Calls \cup {None} /\ server[w].advance \in Calls \cup Server \cup {None}
  BY DEF Fit, ServerRec
<1>2. \A u \in (Calls \cup Server) \ {r} : At(u)' = At(u)
  BY DEF At, Careful
<1>3. Alive'
  BY DEF Alive, PermitInv, Careful
<1>4. ASSUME NEW w \in Server PROVE Held_(w)'
  <2>1. Held_(w)
    BY DEF PermitInv
  <2>2. ASSUME NEW k, server'[w].gate = k, k # None PROVE HoldsGate(k, w)'
    <3>1. CASE k = r
      BY <2>2, <3>1 DEF Careful
    <3>2. CASE k # r
      <4>1. server[w].gate = k /\ k \in Calls \ {r}
        BY <1>1, <2>2, <3>2 DEF Careful
      <4>. QED BY <2>1, <2>2, <4>1 DEF Careful, Held_, HoldsGate
    <3>. QED BY <3>1, <3>2
  <2>3. ASSUME NEW u, server'[w].advance = u, u # None PROVE look'[u].phase = "build" /\ At(u)' = w
    <3>1. server[w].advance = u /\ u \in (Calls \cup Server) \ {r}
      BY <1>1, <2>3 DEF Careful
    <3>2. look[u].phase = "build" /\ At(u) = w
      BY <2>1, <2>3, <3>1 DEF Held_
    <3>. QED BY <1>2, <3>1, <3>2 DEF Careful
  <2>. QED BY <2>2, <2>3 DEF Held_, HoldsGate, At
<1>5. ASSUME NEW u \in Calls \cup Server PROVE Built(u)'
  <2>1. CASE u = r
    BY <2>1 DEF Careful, Built
  <2>2. CASE u # r /\ look[u].phase = "build"
    <3>1. At(u) \in Server /\ server[At(u)].advance = u /\ Held(u) <= look[u].seen
      BY <2>2, Apart DEF PermitInv, Built, Honest, TrueOf, At
    <3>2. server'[At(u)].advance = u /\ server'[At(u)].held = server[At(u)].held
      BY <2>2, <3>1, Apart DEF Careful
    <3>. QED BY <1>2, <2>2, <3>1, <3>2 DEF Careful, Built, Held
  <2>3. CASE u # r /\ look[u].phase # "build"
    BY <2>3 DEF Careful, Built
  <2>. QED BY <2>1, <2>2, <2>3
<1>. QED BY <1>3, <1>4, <1>5 DEF PermitInv

\* The permits of k are given up; no other thing of a server changes, but a version that
\* nobody advances may move forward.
Releases(k) ==
    \A w \in Server :
       /\ server'[w].phase = server[w].phase
       /\ \/ server'[w].held = server[w].held
          \/ server[w].advance = None /\ server'[w].held >= server[w].held
       /\ server'[w].gate = IF server[w].gate = k THEN None ELSE server[w].gate
       /\ server'[w].advance = IF server[w].advance = k THEN None ELSE server[w].advance

LEMMA ReleasedIs == ASSUME Fit, NEW k \in Calls, NEW w \in Server
                    PROVE  /\ Released(k)[w].phase = server[w].phase /\ Released(k)[w].held = server[w].held
                           /\ Released(k)[w].gate = IF server[w].gate = k THEN None ELSE server[w].gate
                           /\ Released(k)[w].advance = IF server[w].advance = k THEN None ELSE server[w].advance
                           /\ Released(k)[w] \in ServerRec /\ Released(k) \in [Server -> ServerRec]
<1>1. \A u \in Server : server[u] \in ServerRec
  BY DEF Fit
<1>. QED BY <1>1 DEF Released, ServerRec

LEMMA AnswerReleases == ASSUME Fit, NEW k \in Calls, server' = Released(k) PROVE Releases(k)
  BY ReleasedIs DEF Releases

LEMMA FollowReleases == ASSUME Fit, NEW k \in Calls, Follow(k) PROVE Releases(k)
<1>1. CASE server' = Released(k)
  BY <1>1, AnswerReleases
<1>2. CASE server' # Released(k)
  <2>. DEFINE a == call[k].at  v == [Released(k)[a] EXCEPT !.held = call[k].sha]
  <2>1. /\ server' = [Released(k) EXCEPT ![a] = v] /\ Tip = call[k].sha /\ server[a].advance = None
    BY <1>2 DEF Follow
  <2>. SUFFICES ASSUME NEW w \in Server
                PROVE  /\ server'[w].phase = server[w].phase
                       /\ \/ server'[w].held = server[w].held
                          \/ server[w].advance = None /\ server'[w].held >= server[w].held
                       /\ server'[w].gate = IF server[w].gate = k THEN None ELSE server[w].gate
                       /\ server'[w].advance = IF server[w].advance = k THEN None ELSE server[w].advance
    BY DEF Releases
  <2>2. CASE w = a
    <3>1. server'[w] = v
      BY <2>1, <2>2, ReleasedIs
    <3>2. /\ v.phase = Released(k)[a].phase /\ v.gate = Released(k)[a].gate
          /\ v.advance = Released(k)[a].advance /\ v.held = call[k].sha
      BY <2>2, ReleasedIs DEF ServerRec
    <3>. HIDE DEF v
    <3>3. server[w].held <= Tip /\ server[w].held \in Nat /\ Tip \in Nat
      BY TipIs DEF Fit, ServerFits, ServerRec
    <3>. QED BY <2>1, <2>2, <3>1, <3>2, <3>3, ReleasedIs
  <2>3. CASE w # a
    <3>1. server'[w] = Released(k)[w]
      BY <2>1, <2>3, ReleasedIs
    <3>. QED BY <3>1, ReleasedIs
  <2>. QED BY <2>2, <2>3
<1>. QED BY <1>1, <1>2

LEMMA ReleasedCareful ==
    ASSUME Fit, Honest, PermitInv, NEW k \in Calls, Only(k), Releases(k),
           \A u \in (Calls \cup Server) \ {k} : look'[u] = look[u], look'[k].phase # "build",
           call'[k].at \in Server => call'[k].at = call[k].at
    PROVE  Careful(k)
<1>1. k # None /\ k \notin Server
  BY Apart
<1>2. call'[k].at \in Server => server[call'[k].at].phase = "up"
  BY DEF PermitInv, Alive
<1>. QED BY <1>1, <1>2 DEF Careful, Only, Releases

LEMMA CalmCareful ==
    ASSUME Fit, Honest, PermitInv, NEW k \in Calls, Only(k), UNCHANGED server,
           \A u \in (Calls \cup Server) \ {k} : look'[u] = look[u],
           look[k].phase # "build", look'[k].phase # "build",
           call'[k].at \in Server => server[call'[k].at].phase = "up",
           \A w \in Server : server[w].gate = k => HoldsGate(k, w)'
    PROVE  Careful(k)
<1>1. \A w \in Server : server[w].advance # k
  BY Apart DEF PermitInv, Held_
<1>2. k \notin Server
  BY Apart
<1>. QED BY <1>1, <1>2 DEF Careful, Only

LEMMA MovesCareful ==
    ASSUME Fit, Honest, PermitInv, NEW k \in Calls, NEW p, Moves(k, p), p # "queued", UNCHANGED server,
           \A u \in (Calls \cup Server) \ {k} : look'[u] = look[u],
           look[k].phase # "build", look'[k].phase # "build"
    PROVE  Careful(k)
<1>1. \A w \in Server : server[w].gate = k => HoldsGate(k, w)'
  BY Apart DEF PermitInv, Held_, HoldsGate, Moves
<1>2. call'[k].at \in Server => server[call'[k].at].phase = "up"
  BY DEF PermitInv, Alive, Moves
<1>. QED BY <1>1, <1>2, CalmCareful DEF Moves

LEMMA EndsCareful ==
    ASSUME Fit, Honest, PermitInv, NEW k \in Calls, NEW o, Ends(k, o) \/ GoesLocal(k),
           call[k].phase = "queued" \/ call[k].kind = "search", UNCHANGED server,
           \A u \in (Calls \cup Server) \ {k} : look'[u] = look[u],
           look[k].phase # "build", look'[k].phase # "build"
    PROVE  Careful(k)
<1>1. \A w \in Server : server[w].gate # k
  BY Apart DEF PermitInv, Held_, HoldsGate
<1>2. call'[k].at \notin Server /\ Only(k)
  BY Apart DEF Ends, GoesLocal, Ended, Unborn
<1>. QED BY <1>1, <1>2, CalmCareful

LEMMA AnswerCareful ==
    ASSUME Fit, Honest, PermitInv, NEW k \in Calls, NEW o, Answer(k, o),
           \A u \in (Calls \cup Server) \ {k} : look'[u] = look[u], look'[k].phase # "build"
    PROVE  Careful(k)
<1>1. Ends(k, o) /\ server' = Released(k)
  BY SetEnds DEF Answer
<1>2. call'[k].at \notin Server
  BY <1>1, Apart DEF Ends, Ended, Unborn
<1>3. Releases(k)
  BY <1>1, AnswerReleases
<1>. QED BY <1>1, <1>2, <1>3, ReleasedCareful DEF Ends

LEMMA WaitCareful == ASSUME Fit, Honest, PermitInv, NEW k \in Calls,
                            \/ DeadlineOfLookup(k) \/ Abandon(k) \/ Decline(k)
                            \/ TakePermit(k) \/ Busy(k)
                     PROVE  Careful(k) /\ UNCHANGED socket
<1>1. look \in [Calls \cup Server -> LookRec] /\ TrueOf(k) /\ UNCHANGED socket
  BY DEF Fit, Honest, DeadlineOfLookup, Abandon, Decline, TakePermit, Busy
<1>2. NotLooking.phase = "none"
  BY DEF NotLooking
<1>3. CASE DeadlineOfLookup(k)
  <2>1. /\ look' = [look EXCEPT ![k] = NotLooking] /\ UNCHANGED server
        /\ call[k].kind = "search" /\ look[k].phase # "build"
    BY <1>3 DEF DeadlineOfLookup
  <2>2. \E o : Ends(k, o)
    BY <1>3, WaitDoes
  <2>. QED BY <1>1, <1>2, <2>1, <2>2, EndsCareful
<1>4. CASE Abandon(k) \/ Busy(k)
  <2>1. look' = look /\ UNCHANGED server /\ call[k].phase = "queued"
    BY <1>4 DEF Abandon, Busy
  <2>2. Ends(k, "failed") \/ GoesLocal(k)
    BY <1>4, WaitDoes
  <2>3. look[k].phase = "none"
    BY <1>1, <2>1 DEF TrueOf
  <2>. QED BY <1>1, <2>1, <2>2, <2>3, EndsCareful
<1>5. CASE Decline(k)
  <2>1. look' = [look EXCEPT ![k] = NotLooking] /\ server' = Released(k)
    BY <1>5 DEF Decline
  <2>2. call'[k].at \notin Server /\ Only(k)
    <3>1. (\E o : Ends(k, o)) \/ GoesLocal(k)
      BY <1>5, WaitDoes
    <3>. QED BY <3>1, Apart DEF Ends, GoesLocal, Ended, Unborn
  <2>3. Releases(k)
    BY <2>1, AnswerReleases
  <2>4. look'[k].phase # "build" /\ \A u \in (Calls \cup Server) \ {k} : look'[u] = look[u]
    BY <1>1, <1>2, <2>1
  <2>. QED BY <1>1, <2>2, <2>3, <2>4, ReleasedCareful
<1>6. CASE TakePermit(k)
  <2>. DEFINE a == call[k].at
  <2>1. /\ a \in Server /\ server[a].gate = None /\ server' = [server EXCEPT ![a].gate = k]
        /\ look' = look /\ call[k].phase = "queued" /\ Moves(k, "resume")
    BY <1>6, WaitDoes DEF TakePermit, InServer
  <2>. HIDE DEF a
  <2>2. look[k].phase = "none" /\ call[k].kind # "search"
    BY <1>1, <2>1 DEF TrueOf
  <2>3. \A w \in Server : server[w].advance # k
    BY <2>2, Apart DEF PermitInv, Held_
  <2>4. \A w \in Server : /\ server'[w].phase = server[w].phase /\ server'[w].held = server[w].held
                          /\ server'[w].advance = server[w].advance
                          /\ server'[w].gate = IF w = a THEN k ELSE server[w].gate
    BY <2>1 DEF Fit, ServerRec
  <2>5. \A w \in Server : server'[w].gate = k => w = a
    <3>1. \A w \in Server : server[w].gate # k
      BY <2>1, Apart DEF PermitInv, Held_, HoldsGate
    <3>. QED BY <2>4, <3>1
  <2>6. \A w \in Server : w = a => HoldsGate(k, w)'
    BY <2>1, <2>2 DEF HoldsGate, Moves, a
  <2>7. call'[k].at = a /\ server[a].phase = "up"
    BY <2>1 DEF Moves, PermitInv, Alive, a
  <2>8. \A w \in Server : server'[w].gate = k => HoldsGate(k, w)'
    BY <2>5, <2>6
  <2>9. Only(k) /\ look'[k].phase # "build"
    BY <2>1, <2>2 DEF Moves
  <2>10. k \notin Server /\ \A u \in (Calls \cup Server) \ {k} : look'[u] = look[u]
    BY <2>1, Apart
  <2>. HIDE DEF a
  <2>. QED BY <1>1, <2>3, <2>4, <2>7, <2>8, <2>9, <2>10 DEF Careful, Only
<1>. QED BY <1>1, <1>3, <1>4, <1>5, <1>6

LEMMA WorkCareful == ASSUME Fit, Honest, PermitInv, NEW k \in Calls, Work(k)
                     PROVE  Careful(k) /\ UNCHANGED socket
<1>1. look \in [Calls \cup Server -> LookRec] /\ TrueOf(k)
  BY DEF Fit, Honest
<1>2. CASE TakePermit(k) \/ Busy(k)
  BY <1>2, WaitCareful
<1>3. CASE Resume(k)
  <2>1. /\ call[k].phase = "resume" /\ UNCHANGED <<server, socket>>
        /\ look' = [look EXCEPT ![k].phase = IF InServer(k) THEN "read" ELSE "none"]
    BY <1>3 DEF Resume, Working
  <2>. DEFINE l == [look[k] EXCEPT !.phase = IF InServer(k) THEN "read" ELSE "none"]
  <2>2. look' = [look EXCEPT ![k] = l] /\ l.phase # "build"
    BY <1>1, <2>1 DEF LookRec
  <2>. HIDE DEF l
  <2>3. /\ look[k].phase # "build" /\ look'[k].phase # "build"
        /\ \A u \in (Calls \cup Server) \ {k} : look'[u] = look[u]
    BY <1>1, <2>1, <2>2 DEF TrueOf
  <2>4. \/ \E p : p # "queued" /\ Moves(k, p)
        \/ call[k].kind = "search" /\ \E o : Ends(k, o)
    BY <1>3, WorkDoes
  <2>. QED BY <2>1, <2>3, <2>4, MovesCareful, EndsCareful
<1>4. CASE Follow(k)
  <2>1. look' = look /\ UNCHANGED socket /\ call[k].phase = "follow" /\ Ends(k, "committed")
    BY <1>4, WorkDoes DEF Follow, Working
  <2>2. look[k].phase = "none"
    BY <1>1, <2>1 DEF TrueOf
  <2>3. call'[k].at \notin Server /\ Only(k)
    BY <2>1, Apart DEF Ends, Ended, Unborn
  <2>4. Releases(k)
    BY <1>4, FollowReleases
  <2>. QED BY <2>1, <2>2, <2>3, <2>4, ReleasedCareful
<1>5. CASE \/ Save(k) \/ NothingToLand(k) \/ LogMoved(k) \/ Recover(k) \/ Refuse(k)
           \/ Drop(k) \/ Behind(k) \/ Land(k) \/ Final(k)
  <2>1. /\ call[k].phase \in {"save", "judge", "drop", "final"}
        /\ look' = look /\ UNCHANGED socket
    BY <1>5 DEF Save, NothingToLand, LogMoved, Recover, Refuse, Drop, Behind, Land, Final, Refusable, Working
  <2>2. look[k].phase = "none"
    BY <1>1, <2>1 DEF TrueOf
  <2>3. (\E o : Answer(k, o)) \/ (UNCHANGED server /\ call'[k].phase # "none")
    <3>1. call[k] \in CallRec /\ call \in [Calls -> CallRec]
      BY DEF Fit
    <3>2. CASE Save(k)
      <4>. DEFINE c == [call[k] EXCEPT !.phase = "judge", !.copy.base = call[k].version]
      <4>1. (\E o : Answer(k, o)) \/ (UNCHANGED server /\ call' = [call EXCEPT ![k] = c])
        BY <3>2 DEF Save
      <4>2. c.phase = "judge"
        BY <3>1 DEF CallRec
      <4>. HIDE DEF c
      <4>. QED BY <3>1, <4>1, <4>2
    <3>3. CASE NothingToLand(k) \/ LogMoved(k)
      BY <3>3 DEF NothingToLand, LogMoved
    <3>4. CASE Recover(k)
      <4>. DEFINE c == Landing(k, "follow", call[k].copy.pending)
      <4>1. (\E o : Answer(k, o)) \/ (UNCHANGED server /\ call' = [call EXCEPT ![k] = c])
        BY <3>4 DEF Recover
      <4>2. c.phase = "follow"
        BY <3>1 DEF CallRec, Landing
      <4>. HIDE DEF c
      <4>. QED BY <3>1, <4>1, <4>2
    <3>5. CASE Refuse(k) \/ Final(k)
      BY <3>1, <3>5 DEF Refuse, Final, Goto, CallRec
    <3>6. CASE Drop(k)
      <4>. DEFINE c == [call[k] EXCEPT !.phase = "judge", !.copy.ops = call[k].copy.ops \ Duplicates(k)]
      <4>1. (\E o : Answer(k, o)) \/ (UNCHANGED server /\ call' = [call EXCEPT ![k] = c])
        BY <3>6 DEF Drop
      <4>2. c.phase = "judge"
        BY <3>1 DEF CallRec
      <4>. HIDE DEF c
      <4>. QED BY <3>1, <4>1, <4>2
    <3>7. CASE Behind(k)
      BY <3>1, <3>7 DEF Behind, CallRec
    <3>8. CASE Land(k)
      BY <3>1, <3>8 DEF Land, Landing
    <3>. QED BY <1>5, <3>2, <3>3, <3>4, <3>5, <3>6, <3>7, <3>8
  <2>4. ASSUME UNCHANGED server, call'[k].phase # "none" PROVE \E p : p # "queued" /\ Moves(k, p)
    <3>1. \A o : ~Ends(k, o)
      BY <2>4 DEF Ends, Ended, Unborn
    <3>. QED BY <1>5, <3>1, WorkDoes
  <2>. QED BY <2>1, <2>2, <2>3, <2>4, MovesCareful, AnswerCareful
<1>. QED BY <1>2, <1>3, <1>4, <1>5 DEF Work

LEMMA FailCareful == ASSUME Fit, Honest, PermitInv, NEW k \in Calls, Fails(k) \/ KillLocal(k)
                     PROVE  Careful(k) /\ UNCHANGED socket
<1>1. look \in [Calls \cup Server -> LookRec] /\ TrueOf(k)
  BY DEF Fit, Honest
<1>2. (\E o : Answer(k, o)) /\ UNCHANGED socket
  BY DEF Fails, KillLocal
<1>3. CASE Fails(k)
  <2>1. look' = [look EXCEPT ![k] = NotLooking] /\ NotLooking.phase = "none"
    BY <1>3 DEF Fails, NotLooking
  <2>. QED BY <1>1, <1>2, <2>1, AnswerCareful
<1>4. CASE KillLocal(k)
  <2>1. look' = look /\ look[k].phase = "none"
    BY <1>1, <1>4, Apart DEF KillLocal, TrueOf
  <2>. QED BY <1>2, <2>1, AnswerCareful
<1>. QED BY <1>3, <1>4

LEMMA AskCareful == ASSUME Fit, Honest, PermitInv, NEW k \in Calls, Asking(k)
                    PROVE  Careful(k) /\ UNCHANGED socket
<1>1. PICK kind \in Kinds, s \in Session : Ask(k, kind, s)
  BY DEF Asking
<1>2. TrueOf(k) /\ call \in [Calls -> CallRec] /\ look \in [Calls \cup Server -> LookRec]
  BY DEF Honest, Fit
<1>3. call[k].at \notin Server /\ look[k].phase = "none"
  BY <1>1, <1>2, Apart DEF Ask, Starting, TrueOf
<1>4. /\ Only(k) /\ UNCHANGED <<server, socket>>
      /\ call'[k].at \in ({socket} \cap Server) \cup {"local"}
  BY <1>1, <1>2 DEF Ask, Only, Unborn
<1>. DEFINE l == [look[k] EXCEPT !.phase = IF call'[k].phase = "fresh" THEN "read" ELSE "none"]
<1>5. look' = [look EXCEPT ![k] = l] /\ l.phase # "build"
  BY <1>1, <1>2 DEF Ask, LookRec
<1>. HIDE DEF l
<1>6. look'[k].phase # "build" /\ \A u \in (Calls \cup Server) \ {k} : look'[u] = look[u]
  BY <1>2, <1>5
<1>7. call'[k].at \in Server => server[call'[k].at].phase = "up"
  BY <1>4, Apart DEF PermitInv, Alive
<1>8. ASSUME NEW w \in Server PROVE server[w].gate # k
  <2>1. Held_(w) /\ k # None
    BY Apart DEF PermitInv
  <2>. QED BY <1>3, <2>1 DEF Held_, HoldsGate
<1>. QED BY <1>3, <1>4, <1>6, <1>7, <1>8, CalmCareful

LEMMA ArriveCalls == ASSUME Fit, Honest, PermitInv, NEW r \in Calls \cup Server, NEW v, Arrive(r, v)
                     PROVE  /\ \A j \in Calls \ {r} : call'[j] = call[j]
                            /\ \A u \in (Calls \cup Server) \ {r} : look'[u] = look[u]
                            /\ look'[r].phase = "none"
                            /\ r \in Calls /\ call'[r].at \in Server => server[call'[r].at].phase = "up"
                            /\ \A w \in Server : server[w].gate = r => HoldsGate(r, w)'
<1>1. look \in [Calls \cup Server -> LookRec] /\ look' = [look EXCEPT ![r] = NotLooking]
  BY DEF Fit, Arrive
<1>2. \/ UNCHANGED call
      \/ r \in Calls /\ call[r].kind = "search" /\ \E o : Ends(r, o)
      \/ r \in Calls /\ \E p : p # "queued" /\ Moves(r, p)
  <2>1. CASE r \in Calls
    BY <2>1, ArriveDoes
  <2>2. CASE r \notin Calls
    BY <2>2 DEF Arrive
  <2>. QED BY <2>1, <2>2
<1>3. \A w \in Server : server[w].gate = r => r \in Calls /\ HoldsGate(r, w)
  <2>1. \A w \in Server : server[w].gate \in Calls \cup {None}
    BY DEF Fit, ServerRec
  <2>. QED BY <2>1, Apart DEF PermitInv, Held_
<1>4. r \in Calls /\ call[r].at \in Server => server[call[r].at].phase = "up"
  BY DEF PermitInv, Alive
<1>5. look'[r].phase = "none" /\ \A u \in (Calls \cup Server) \ {r} : look'[u] = look[u]
  BY <1>1 DEF NotLooking
<1>6. CASE UNCHANGED call
  BY <1>3, <1>4, <1>5, <1>6 DEF HoldsGate
<1>7. CASE r \in Calls /\ call[r].kind = "search" /\ \E o : Ends(r, o)
  <2>1. call'[r].at \notin Server /\ Only(r)
    BY <1>7, Apart DEF Ends, Ended, Unborn
  <2>2. \A w \in Server : server[w].gate # r
    BY <1>3, <1>7 DEF HoldsGate
  <2>. QED BY <1>5, <2>1, <2>2 DEF Only
<1>8. CASE r \in Calls /\ \E p : p # "queued" /\ Moves(r, p)
  BY <1>3, <1>4, <1>5, <1>8 DEF HoldsGate, Moves, Only
<1>. QED BY <1>2, <1>6, <1>7, <1>8

LEMMA LooksAt == ASSUME Honest, PermitInv, NEW r \in Calls \cup Server, look[r].phase # "none"
                 PROVE  At(r) \in Server /\ (r \in Server => server[r].phase = "up")
  BY Apart DEF Honest, TrueOf, PermitInv, Alive, At

LEMMA StillCareful == ASSUME Fit, Honest, PermitInv, NEW r \in Calls \cup Server, UNCHANGED server,
                             look[r].phase # "build", look'[r].phase # "build",
                             r \in Server /\ look'[r].phase # "none" => server[r].phase = "up",
                             \A j \in Calls \ {r} : call'[j] = call[j],
                             \A u \in (Calls \cup Server) \ {r} : look'[u] = look[u],
                             r \in Calls /\ call'[r].at \in Server => server[call'[r].at].phase = "up",
                             \A w \in Server : server[w].gate = r => HoldsGate(r, w)'
                      PROVE  Careful(r)
<1>1. \A w \in Server : server[w].advance # r
  BY Apart DEF PermitInv, Held_
<1>. QED BY <1>1 DEF Careful

LEMMA SameCallCareful == ASSUME Fit, Honest, PermitInv, NEW r \in Calls \cup Server,
                                UNCHANGED <<server, call>>,
                                look[r].phase # "build", look'[r].phase # "build",
                                r \in Server /\ look'[r].phase # "none" => server[r].phase = "up",
                                \A u \in (Calls \cup Server) \ {r} : look'[u] = look[u]
                         PROVE  Careful(r)
<1>1. \A w \in Server : server[w].gate = r => HoldsGate(r, w)'
  BY Apart DEF PermitInv, Held_, HoldsGate
<1>2. r \in Calls /\ call'[r].at \in Server => server[call'[r].at].phase = "up"
  BY DEF PermitInv, Alive
<1>. QED BY <1>1, <1>2, StillCareful

\* One that starts to build holds the permit to advance, over the commit it has just read.
LEMMA BuildsPermits ==
    ASSUME Fit, Honest, PermitInv, NEW r \in Calls \cup Server, NEW a \in Server, a = At(r),
           look[r].phase = "wait", server[a].advance = None, UNCHANGED <<call, socket>>,
           server' = [server EXCEPT ![a].advance = r],
           look' = [look EXCEPT ![r] = [phase |-> "build", seen |-> Tip]]
    PROVE  PermitInv'
<1>1. /\ server \in [Server -> ServerRec] /\ look \in [Calls \cup Server -> LookRec]
      /\ \A w \in Server : server[w].held \in Nat /\ server[w].held <= Tip
                          /\ server[w].gate \in Calls \cup {None}
                          /\ server[w].advance \in Calls \cup Server \cup {None}
  BY TipIs DEF Fit, ServerFits, ServerRec
<1>2. \A w \in Server : /\ server'[w].phase = server[w].phase /\ server'[w].held = server[w].held
                        /\ server'[w].gate = server[w].gate
                        /\ server'[w].advance = IF w = a THEN r ELSE server[w].advance
  BY <1>1 DEF ServerRec
<1>3. /\ look'[r].phase = "build" /\ look'[r].seen = Tip
      /\ \A u \in (Calls \cup Server) \ {r} : look'[u] = look[u]
  BY <1>1
<1>4. \A u \in Calls \cup Server : At(u)' = At(u)
  BY DEF At
<1>5. r \in Server => server[r].phase = "up"
  BY LooksAt
<1>6. Alive'
  BY <1>2, <1>3, <1>5 DEF PermitInv, Alive
<1>7. ASSUME NEW w \in Server PROVE Held_(w)'
  <2>1. Held_(w)
    BY DEF PermitInv
  <2>2. ASSUME NEW k, server'[w].gate = k, k # None PROVE HoldsGate(k, w)'
    BY <1>2, <2>1, <2>2 DEF Held_, HoldsGate
  <2>3. ASSUME NEW u, server'[w].advance = u, u # None PROVE look'[u].phase = "build" /\ At(u)' = w
    <3>1. CASE w = a
      BY <1>2, <1>3, <1>4, <2>3, <3>1
    <3>2. CASE w # a
      <4>1. server[w].advance = u /\ u \in Calls \cup Server
        BY <1>1, <1>2, <2>3, <3>2
      <4>2. look[u].phase = "build" /\ At(u) = w
        BY <2>1, <2>3, <4>1 DEF Held_
      <4>. QED BY <1>3, <1>4, <4>1, <4>2
    <3>. QED BY <3>1, <3>2
  <2>. QED BY <2>2, <2>3 DEF Held_, HoldsGate, At
<1>8. ASSUME NEW u \in Calls \cup Server PROVE Built(u)'
  <2>1. CASE u = r
    <3>1. server'[a].advance = r /\ server'[a].held <= look'[r].seen
      BY <1>1, <1>2, <1>3
    <3>2. At(r)' = a
      BY <1>4
    <3>. QED BY <2>1, <3>1, <3>2 DEF Built, Held
  <2>2. CASE u # r /\ look[u].phase = "build"
    <3>1. At(u) \in Server /\ server[At(u)].advance = u /\ Held(u) <= look[u].seen
      BY <2>2, LooksAt DEF PermitInv, Built
    <3>2. At(u) # a
      BY <3>1, Apart
    <3>. QED BY <1>2, <1>3, <1>4, <2>2, <3>1, <3>2 DEF Built, Held
  <2>3. CASE u # r /\ look[u].phase # "build"
    BY <1>3, <2>3 DEF Built
  <2>. QED BY <2>1, <2>2, <2>3
<1>. QED BY <1>6, <1>7, <1>8 DEF PermitInv

\* What the end of a build does to the servers.
LEMMA AdvanceDoes ==
    ASSUME Fit, Honest, PermitInv, NEW r \in Calls \cup Server, Advance(r), NEW w \in Server
    PROVE  /\ server'[w].phase = server[w].phase /\ server'[w].gate = server[w].gate
           /\ \/ /\ server'[w].held = look[r].seen /\ server[w].held <= look[r].seen
                 /\ server[w].advance = r /\ server'[w].advance = None
              \/ server'[w] = server[w] /\ server[w].advance # r
<1>. DEFINE a == At(r)  v == [server[a] EXCEPT !.held = look[r].seen, !.advance = None]
<1>1. a \in Server /\ server[a].advance = r /\ server[a].held <= look[r].seen
  BY LooksAt DEF Advance, PermitInv, Built, Held
<1>2. server' = [server EXCEPT ![a] = v]
  BY DEF Advance
<1>3. /\ v.phase = server[a].phase /\ v.gate = server[a].gate
      /\ v.held = look[r].seen /\ v.advance = None
  BY <1>1 DEF Fit, ServerRec
<1>4. \A u \in Server : u # a => server[u].advance # r
  BY Apart DEF PermitInv, Held_
<1>. HIDE DEF v
<1>5. server \in [Server -> ServerRec]
  BY DEF Fit
<1>. QED BY <1>1, <1>2, <1>3, <1>4, <1>5

LEMMA FreshPermits == ASSUME Fit, Honest, PermitInv, NEW r \in Calls \cup Server, Fresh(r)
                      PROVE  PermitInv'
<1>1. look \in [Calls \cup Server -> LookRec] /\ UNCHANGED socket
  BY DEF Fit, Fresh, ReadRef, Compare, Enter, Advance
<1>2. ASSUME NEW l, l.phase # "build", look' = [look EXCEPT ![r] = l], UNCHANGED <<server, call>>,
             look[r].phase \in {"read", "compare"}
      PROVE  PermitInv'
  <2>1. look'[r].phase # "build" /\ \A u \in (Calls \cup Server) \ {r} : look'[u] = look[u]
    BY <1>1, <1>2
  <2>. QED BY <1>1, <1>2, <2>1, LooksAt, SameCallCareful, CarefulKeeps
<1>3. ASSUME NEW v, Arrive(r, v), UNCHANGED server, look[r].phase # "build" PROVE PermitInv'
  <2>1. Careful(r)
    BY <1>3, ArriveCalls, StillCareful
  <2>. QED BY <1>1, <2>1, CarefulKeeps
<1>4. CASE ReadRef(r)
  BY <1>2, <1>4 DEF ReadRef
<1>5. CASE Compare(r)
  BY <1>2, <1>3, <1>5 DEF Compare
<1>6. CASE Enter(r)
  <2>1. At(r) \in Server /\ look[r].phase = "wait" /\ server[At(r)].advance = None
    BY <1>6, LooksAt DEF Enter
  <2>. QED BY <1>1, <1>3, <1>6, <2>1, BuildsPermits DEF Enter
<1>7. CASE Advance(r)
  <2>1. Arrive(r, look[r].seen)
    BY <1>7 DEF Advance
  <2>2. Careful(r)
    <3>1. /\ \A j \in Calls \ {r} : call'[j] = call[j]
          /\ \A u \in (Calls \cup Server) \ {r} : look'[u] = look[u]
          /\ look'[r].phase = "none"
          /\ r \in Calls /\ call'[r].at \in Server => server[call'[r].at].phase = "up"
          /\ \A w \in Server : server[w].gate = r => HoldsGate(r, w)'
      BY <2>1, ArriveCalls
    <3>2. ASSUME NEW w \in Server
          PROVE  /\ server'[w].phase = server[w].phase /\ server'[w].gate = server[w].gate
                 /\ server'[w].held = server[w].held \/ server[w].advance = r
                 /\ server[w].advance # r => server'[w].advance = server[w].advance
                 /\ server[w].advance = r => server'[w].advance = None
      <4>1. \/ server[w].advance = r /\ server'[w].advance = None
            \/ server'[w] = server[w] /\ server[w].advance # r
        BY <1>7, AdvanceDoes
      <4>2. server'[w].phase = server[w].phase /\ server'[w].gate = server[w].gate
        BY <1>7, AdvanceDoes
      <4>. QED BY <4>1, <4>2
    <3>3. r # None
      BY Apart
    <3>4. ASSUME NEW w \in Server
          PROVE  /\ server'[w].phase = server[w].phase
                 /\ server'[w].held = server[w].held \/ server[w].advance \in {None, r}
                 /\ server[w].advance # r => server'[w].advance = server[w].advance
                 /\ server'[w].advance # r
                 /\ server[w].advance = r => server'[w].advance = None
                 /\ server'[w].gate \in {server[w].gate, None, r}
      BY <3>2, <3>3
    <3>5. ASSUME NEW w \in Server, server'[w].gate = r PROVE HoldsGate(r, w)'
      BY <3>1, <3>2, <3>5
    <3>. QED BY <3>1, <3>4, <3>5 DEF Careful
  <2>. QED BY <1>1, <2>2, CarefulKeeps
<1>. QED BY <1>4, <1>5, <1>6, <1>7 DEF Fresh

\* A server that is not up serves nobody, whatever becomes of it.
LEMMA LifePermits ==
    ASSUME Fit, Honest, PermitInv, NEW w \in Server, server[w].phase # "up", UNCHANGED <<call, look>>,
           NEW v, server' = [server EXCEPT ![w] = v], v.gate \in {server[w].gate, None},
           v.advance \in {server[w].advance, None},
           socket' \in {socket, None} \/ (socket' = w /\ v.phase = "up")
    PROVE  PermitInv'
<1>1. /\ server'[w] = v /\ \A u \in Server \ {w} : server'[u] = server[u]
      /\ \A u \in Server : /\ server[u].gate \in Calls \cup {None}
                          /\ server[u].advance \in Calls \cup Server \cup {None}
  BY DEF Fit, ServerRec
<1>2. /\ socket # w /\ look[w].phase = "none" /\ (\A k \in Calls : call[k].at # w)
      /\ socket \in Server => server[socket].phase = "up"
  BY DEF PermitInv, Alive, Fit, LookRec
<1>3. \A u \in Calls \cup Server : At(u)' = At(u)
  BY DEF At
<1>4. Alive'
  BY <1>1, <1>2, Apart DEF PermitInv, Alive
<1>5. v.gate = None /\ v.advance = None
  <2>1. Held_(w)
    BY DEF PermitInv
  <2>2. server[w].gate = None
    BY <1>1, <1>2, <2>1 DEF Held_, HoldsGate
  <2>3. ASSUME server[w].advance # None PROVE FALSE
    <3>. DEFINE u == server[w].advance
    <3>1. look[u].phase = "build" /\ At(u) = w /\ u \in Calls \cup Server
      BY <1>1, <2>1, <2>3 DEF Held_
    <3>. QED BY <1>2, <3>1 DEF At
  <2>. QED BY <2>2, <2>3
<1>6. ASSUME NEW u \in Server PROVE Held_(u)'
  <2>1. CASE u = w
    BY <1>1, <1>5, <2>1 DEF Held_
  <2>2. CASE u # w
    <3>1. server'[u] = server[u] /\ Held_(u)
      BY <1>1, <2>2 DEF PermitInv
    <3>. QED BY <1>1, <1>3, <3>1 DEF Held_, HoldsGate, At
  <2>. QED BY <2>1, <2>2
<1>7. ASSUME NEW u \in Calls \cup Server PROVE Built(u)'
  <2>1. CASE look[u].phase = "build"
    <3>1. At(u) \in Server /\ At(u) # w
      BY <1>2, <2>1, LooksAt DEF At
    <3>. QED BY <1>1, <1>3, <2>1, <3>1 DEF PermitInv, Built, Held
  <2>. QED BY <2>1 DEF Built
<1>. QED BY <1>4, <1>6, <1>7 DEF PermitInv

LEMMA LifeDoes == ASSUME Fit, Honest, PermitInv, NEW w \in Server,
                         Load(w) \/ Claim(w) \/ Unlink(w) \/ Bind(w)
                  PROVE  PermitInv'
<1>1. server[w] \in ServerRec /\ server[w].phase # "up" /\ UNCHANGED <<call, look>>
  BY DEF Fit, Load, Claim, Unlink, Bind
<1>2. \E v : /\ server' = [server EXCEPT ![w] = v] /\ v.gate \in {server[w].gate, None}
             /\ v.advance \in {server[w].advance, None}
             /\ socket' \in {socket, None} \/ (socket' = w /\ v.phase = "up")
  <2>1. Down.gate = None /\ Down.advance = None
    BY DEF Down
  <2>2. CASE Load(w)
    <3>. DEFINE v == [Down EXCEPT !.phase = "loaded", !.held = Tip]
    <3>1. v.gate = None /\ v.advance = None
      BY DEF Down
    <3>2. server' = [server EXCEPT ![w] = v] /\ socket' = socket
      BY <2>2 DEF Load
    <3>. HIDE DEF v
    <3>. QED BY <3>1, <3>2
  <2>3. ASSUME NEW p, server' = [server EXCEPT ![w] = [server[w] EXCEPT !.phase = p]],
               socket' \in {socket, None} \/ (socket' = w /\ p = "up")
        PROVE  \E v : /\ server' = [server EXCEPT ![w] = v] /\ v.gate \in {server[w].gate, None}
                      /\ v.advance \in {server[w].advance, None}
                      /\ socket' \in {socket, None} \/ (socket' = w /\ v.phase = "up")
    <3>. DEFINE v == [server[w] EXCEPT !.phase = p]
    <3>1. v.gate = server[w].gate /\ v.advance = server[w].advance /\ v.phase = p
      BY <1>1 DEF ServerRec
    <3>2. server' = [server EXCEPT ![w] = v]
      BY <2>3
    <3>. HIDE DEF v
    <3>. QED BY <2>3, <3>1, <3>2
  <2>4. CASE Claim(w)
    <3>1. CASE socket \in Server
      BY <2>1, <2>4, <3>1 DEF Claim
    <3>2. CASE socket \notin Server
      BY <2>3, <2>4, <3>2 DEF Claim
    <3>. QED BY <3>1, <3>2
  <2>5. CASE Unlink(w)
    BY <2>3, <2>5 DEF Unlink
  <2>6. CASE Bind(w)
    <3>1. CASE socket = None
      BY <2>3, <2>6, <3>1 DEF Bind
    <3>2. CASE socket # None
      BY <2>1, <2>6, <3>2 DEF Bind
    <3>. QED BY <3>1, <3>2
  <2>. QED BY <2>2, <2>4, <2>5, <2>6
<1>. QED BY <1>1, <1>2, LifePermits

\* A server that stops, or is killed, takes its callers' permits along with its own.
LEMMA GonePermits == ASSUME Fit, Honest, PermitInv, NEW w \in Server, Stop(w) \/ Kill(w)
                     PROVE  PermitInv'
<1>1. /\ call' = Dropped(w) /\ look' = Silent(w) /\ server' = [server EXCEPT ![w] = Down]
      /\ socket' \in {None, "stale"} \/ (socket' = socket /\ socket # w)
  BY DEF Stop, Kill
<1>2. /\ server'[w] = Down /\ \A u \in Server \ {w} : server'[u] = server[u]
      /\ \A u \in Server : /\ server[u].gate \in Calls \cup {None}
                          /\ server[u].advance \in Calls \cup Server \cup {None}
  BY <1>1 DEF Fit, ServerRec
<1>3. ASSUME NEW k \in Calls
      PROVE  /\ call[k].at = w => call'[k].at = None /\ look'[k].phase = "none"
             /\ call[k].at # w => call'[k] = call[k] /\ look'[k] = look[k]
  <2>1. Broken(k).at = None
    BY DEF Broken, Answered, Ended, Unborn
  <2>2. k # w
    BY Apart
  <2>. QED BY <1>1, <2>1, <2>2 DEF Dropped, Silent, NotLooking
<1>4. look'[w].phase = "none" /\ \A u \in Server \ {w} : look'[u] = look[u]
  BY <1>1, Apart DEF Silent, NotLooking
<1>5. "stale" \notin Server /\ Down.gate = None /\ Down.advance = None
  BY HeadAssumption DEF Down
<1>6. Alive'
  <2>1. socket' \in Server => server'[socket'].phase = "up"
    BY <1>1, <1>2, <1>5, Apart DEF PermitInv, Alive
  <2>2. ASSUME NEW k \in Calls, call'[k].at \in Server PROVE server'[call'[k].at].phase = "up"
    BY <1>2, <1>3, <2>2, Apart DEF PermitInv, Alive
  <2>3. ASSUME NEW u \in Server, look'[u].phase # "none" PROVE server'[u].phase = "up"
    BY <1>2, <1>4, <2>3 DEF PermitInv, Alive
  <2>. QED BY <2>1, <2>2, <2>3 DEF Alive
\* Who is at another server stands where it stood.
<1>7. ASSUME NEW u \in Calls \cup Server, At(u) # w
      PROVE  At(u)' = At(u) /\ look'[u] = look[u] /\ (u \in Calls => call'[u] = call[u])
  BY <1>3, <1>4, <1>7, Apart DEF At
<1>8. ASSUME NEW x \in Server PROVE Held_(x)'
  <2>1. CASE x = w
    BY <1>2, <1>5, <2>1 DEF Held_
  <2>2. CASE x # w
    <3>1. server'[x] = server[x] /\ Held_(x)
      BY <1>2, <2>2 DEF PermitInv
    <3>2. ASSUME NEW k, server'[x].gate = k, k # None PROVE HoldsGate(k, x)'
      BY <1>2, <1>3, <2>2, <3>1, <3>2 DEF Held_, HoldsGate
    <3>3. ASSUME NEW u, server'[x].advance = u, u # None PROVE look'[u].phase = "build" /\ At(u)' = x
      <4>1. u \in Calls \cup Server /\ look[u].phase = "build" /\ At(u) = x
        BY <1>2, <3>1, <3>3 DEF Held_
      <4>. QED BY <1>7, <2>2, <4>1
    <3>. QED BY <3>2, <3>3 DEF Held_, HoldsGate, At
  <2>. QED BY <2>1, <2>2
<1>9. ASSUME NEW u \in Calls \cup Server PROVE Built(u)'
  <2>1. CASE At(u) = w
    <3>1. look'[u].phase = "none"
      BY <1>3, <1>4, <2>1, Apart DEF At
    <3>. QED BY <3>1 DEF Built
  <2>2. CASE At(u) # w /\ look[u].phase = "build"
    <3>1. At(u) \in Server
      BY <2>2, LooksAt
    <3>. QED BY <1>2, <1>7, <2>2, <3>1 DEF PermitInv, Built, Held
  <2>3. CASE At(u) # w /\ look[u].phase # "build"
    BY <1>7, <2>3 DEF Built
  <2>. QED BY <2>1, <2>2, <2>3
<1>. QED BY <1>6, <1>8, <1>9 DEF PermitInv

LEMMA PermitKept == ASSUME Fit, Honest, PermitInv, [Next]_vars PROVE PermitInv'
<1>1. CASE \E w \in Server : Load(w) \/ Claim(w) \/ Unlink(w) \/ Bind(w)
  BY <1>1, LifeDoes
<1>2. CASE \E w \in Server : Stop(w) \/ Kill(w)
  BY <1>2, GonePermits
<1>3. CASE \E w \in Server : Poll(w)
  <2>1. PICK w \in Server : Poll(w)
    BY <1>3
  <2>2. /\ look \in [Calls \cup Server -> LookRec] /\ UNCHANGED <<server, call, socket>>
        /\ look' = [look EXCEPT ![w] = [phase |-> "compare", seen |-> Tip]]
        /\ look[w].phase = "none" /\ server[w].phase = "up"
    BY <2>1 DEF Fit, Poll
  <2>3. Careful(w)
    BY <2>2, SameCallCareful
  <2>. QED BY <2>2, <2>3, CarefulKeeps
<1>4. CASE \E k \in Calls : Deadline(k)
  <2>1. PICK k \in Calls : Deadline(k)
    BY <1>4
  <2>2. /\ call'[k].kind = call[k].kind /\ call'[k].at = call[k].at
        /\ call'[k].phase = call[k].phase /\ Only(k)
    BY <2>1, WaitDoes
  <2>3. UNCHANGED <<server, look, socket>>
    BY <2>1 DEF Deadline
  <2>. QED BY <2>2, <2>3, Steady DEF Only
<1>5. CASE \E k \in Calls : \/ Asking(k)
                           \/ DeadlineOfLookup(k) \/ Abandon(k) \/ Decline(k)
                           \/ Work(k) \/ Fails(k) \/ KillLocal(k)
  BY <1>5, CarefulKeeps, AskCareful, WaitCareful, WorkCareful, FailCareful
<1>6. CASE \E r \in Calls \cup Server : Fresh(r)
  BY <1>6, FreshPermits
<1>7. CASE \/ \E s \in Session : Reclaim(s) \/ \E f \in Fact : Put(s, f)
           \/ \E f \in Fact : Other(f)
           \/ UNCHANGED vars
  <2>1. UNCHANGED <<server, look, socket, call>>
    BY <1>7 DEF Reclaim, Put, Other, vars
  <2>. QED BY <2>1, Steady
<1>. QED BY <1>1, <1>2, <1>3, <1>4, <1>5, <1>6, <1>7 DEF Next, Asking

LEMMA SpecPermits == Spec => [](Fit /\ Honest /\ PermitInv)
<1>1. Init => Honest /\ PermitInv
  <2>1. None # "search" /\ (\A k \in Calls : k # None) /\ None \notin Server
    BY HeadAssumption DEF Calls, CallKinds
  <2>2. ASSUME Init, NEW k \in Calls PROVE ~Landed(k)
    BY <2>1, <2>2 DEF Init, Landed, Tip
  <2>3. Init => Honest
    BY <2>1, <2>2 DEF Init, Honest, TrueOf, Unborn, NotLooking, Refusals
  <2>. QED BY <2>1, <2>3 DEF Init, PermitInv, Alive, Held_, Built, Unborn, NotLooking, Down
<1>2. Fit /\ Honest /\ PermitInv /\ [Next]_vars => Honest' /\ PermitInv'
  BY HonestKept, PermitKept
<1>. QED BY <1>1, <1>2, SpecFit, PTL DEF Spec

\* The variables keep their types; and a permit to commit, or to advance the version, is
\* always held by work in hand at that server, through every refusal, failure, missed
\* deadline and stop: `withPermits` gives back what it took on each way out.
THEOREM HeadTypesHold == Spec => []HeadTypeOK
<1>1. ASSUME Fit, PermitInv PROVE HeadTypeOK
  <2>1. Tip \in Nat /\ Tip = Len(history) /\ history \in Seq(Commit)
    BY <1>1, TipIs DEF Fit
  <2>2. \A n \in 1..Tip : history[n].by \in Session \cup {None} /\ history[n].facts \subseteq Fact
    <3>. SUFFICES ASSUME NEW n \in 1..Tip
                  PROVE  history[n].by \in Session \cup {None} /\ history[n].facts \subseteq Fact
      OBVIOUS
    <3>1. history[n] \in Commit
      BY <2>1
    <3>. QED BY <3>1 DEF Commit
  <2>3. server \in [Server -> [phase : {"down", "loaded", "unlink", "claimed", "up"}, held : 0..Tip,
                              gate : Calls \cup {None}, advance : Calls \cup Server \cup {None}]]
    <3>1. server \in [Server -> ServerRec] /\ \A w \in Server : server[w].held <= Tip
      BY <1>1, <2>1 DEF Fit, ServerFits
    <3>2. ASSUME NEW w \in Server
          PROVE  server[w] \in [phase : {"down", "loaded", "unlink", "claimed", "up"}, held : 0..Tip,
                                gate : Calls \cup {None}, advance : Calls \cup Server \cup {None}]
      <4>1. server[w] \in ServerRec /\ server[w].held <= Tip
        BY <3>1
      <4>. QED BY <2>1, <4>1 DEF ServerRec
    <3>. QED BY <3>1, <3>2
  <2>4. \A k \in Calls : call[k].version \in 0..Tip /\ call[k].at \in Server \cup {None, "local"}
    BY <1>1, <2>1 DEF Fit, CallFits, CallRec
  <2>5. PermitsReturn
    BY <1>1 DEF PermitInv, Held_, HoldsGate, PermitsReturn
  <2>. QED BY <1>1, <2>2, <2>3, <2>4, <2>5 DEF HeadTypeOK, Fit, Log
<1>. QED BY <1>1, SpecPermits, PTL

LEMMA HeldMoves == ASSUME Fit, Honest, PermitInv, [Next]_vars, NEW w \in Server
                   PROVE  server'[w].held >= server[w].held \/ server'[w].phase = "down"
<1>1. /\ server[w].held \in Nat /\ server[w].held <= Tip /\ Tip \in Nat
      /\ server \in [Server -> ServerRec]
  BY TipIs DEF Fit, ServerFits, ServerRec
<1>2. CASE server'[w].held = server[w].held
  BY <1>1, <1>2
<1>3. ASSUME NEW a, NEW p, server' = [server EXCEPT ![a] = [server[a] EXCEPT !.phase = p]] PROVE server'[w].held = server[w].held
  BY <1>1, <1>3 DEF ServerRec
<1>4. CASE \E u \in Server : Load(u) \/ Claim(u) \/ Unlink(u) \/ Bind(u) \/ Stop(u) \/ Kill(u) \/ Poll(u)
  <2>1. PICK u \in Server : Load(u) \/ Claim(u) \/ Unlink(u) \/ Bind(u) \/ Stop(u) \/ Kill(u) \/ Poll(u)
    BY <1>4
  <2>2. CASE Load(u)
    BY <1>1, <2>2 DEF Load, Down
  <2>3. CASE Stop(u) \/ Kill(u) \/ Poll(u)
    BY <1>1, <2>3 DEF Stop, Kill, Poll, Down
  <2>4. CASE Claim(u)
    <3>1. CASE socket \in Server
      BY <1>1, <2>4, <3>1 DEF Claim, Down
    <3>2. CASE socket \notin Server
      BY <1>2, <1>3, <2>4, <3>2 DEF Claim
    <3>. QED BY <3>1, <3>2
  <2>5. CASE Unlink(u)
    BY <1>2, <1>3, <2>5 DEF Unlink
  <2>6. CASE Bind(u)
    <3>1. CASE socket = None
      BY <1>2, <1>3, <2>6, <3>1 DEF Bind
    <3>2. CASE socket # None
      BY <1>1, <2>6, <3>2 DEF Bind, Down
    <3>. QED BY <3>1, <3>2
  <2>. QED BY <2>1, <2>2, <2>3, <2>4, <2>5, <2>6
<1>5. ASSUME NEW k \in Calls, Releases(k) PROVE server'[w].held >= server[w].held
  BY <1>1, <1>5 DEF Releases
<1>6. CASE \E k \in Calls : \/ \E kind \in Kinds, s \in Session : Ask(k, kind, s)
                           \/ Deadline(k) \/ DeadlineOfLookup(k) \/ Abandon(k) \/ Decline(k)
                           \/ Work(k) \/ Fails(k) \/ KillLocal(k)
  <2>1. PICK k \in Calls : \/ \E kind \in Kinds, s \in Session : Ask(k, kind, s)
                           \/ Deadline(k) \/ DeadlineOfLookup(k) \/ Abandon(k) \/ Decline(k)
                           \/ Work(k) \/ Fails(k) \/ KillLocal(k)
    BY <1>6
  <2>2. \/ UNCHANGED server \/ server' = Released(k) \/ TakePermit(k) \/ Follow(k)
    BY <2>1, ZenonT(60) DEF Ask, Deadline, DeadlineOfLookup, Abandon, Decline, Work, Busy, Resume, Save,
                NothingToLand, LogMoved, Recover, Refuse, Drop, Behind, Land, Final, Fails, KillLocal,
                Answer, Goto
  <2>3. CASE TakePermit(k)
    BY <1>1, <2>3 DEF TakePermit, ServerRec
  <2>. QED BY <1>1, <1>2, <1>5, <2>2, <2>3, AnswerReleases, FollowReleases
<1>7. CASE \E r \in Calls \cup Server : Fresh(r)
  <2>1. PICK r \in Calls \cup Server : Fresh(r)
    BY <1>7
  <2>2. CASE ReadRef(r) \/ Compare(r)
    BY <1>2, <2>2 DEF ReadRef, Compare
  <2>3. CASE Enter(r)
    BY <1>1, <2>3 DEF Enter, ServerRec
  <2>4. CASE Advance(r)
    BY <1>1, <2>4, AdvanceDoes
  <2>. QED BY <2>1, <2>2, <2>3, <2>4 DEF Fresh
<1>8. CASE \/ \E s \in Session : Reclaim(s) \/ \E f \in Fact : Put(s, f)
           \/ \E f \in Fact : Other(f)
           \/ UNCHANGED vars
  BY <1>2, <1>8 DEF Reclaim, Put, Other, vars
<1>. QED BY <1>4, <1>6, <1>7, <1>8 DEF Next

\* A server's version never moves back while it is up: `fresh` advances to what it read under
\* the permit, no landing moves the version while one builds, and a landing whose commit is
\* no longer the tip leaves the version alone.
THEOREM HeldMovesForward == Spec => HeldForward
<1>1. Fit /\ Honest /\ PermitInv /\ [Next]_vars
        => [\A w \in Server : server'[w].held >= server[w].held \/ server'[w].phase = "down"]_vars
  BY HeldMoves
<1>. QED BY <1>1, SpecPermits, PTL DEF Spec, HeldForward
=============================================================================
