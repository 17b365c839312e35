----------------------------- MODULE HeadServer -----------------------------
(***************************************************************************)
(* The head server of a store (apps/cli/src/head-server.ts): a process     *)
(* that holds one version of its ref in memory, follows the ref, answers   *)
(* lookups over it and lands session commits one at a time; its client     *)
(* (head-client.ts), and the calls of the CLI that ask it and fall back to *)
(* doing the work themselves (v2.ts).                                      *)
(*                                                                         *)
(* Servers, their clients, processes that ask nobody and writers of other  *)
(* kinds share the ref and the session logs.  A commit of commitSession is *)
(* two steps here, to the moved ref and to the cleared log, for the rest   *)
(* of it is SessionCommit's subject; a version is the commit it was built  *)
(* from.                                                                   *)
(***************************************************************************)
EXTENDS Naturals, Sequences

CONSTANTS
    Server,      \* `head serve` processes
    Session,     \* sessions that land on the ref the servers follow
    Fact,        \* memory files
    Kinds,       \* the calls that are made
    Env,         \* what else happens: "kill", "fault", "decline", "other"
    MaxCalls,    \* bound: calls
    MaxCommits,  \* bound: commits on the ref
    MaxEvents,   \* bound: servers started, ops put and commits of other writers, together
    MaxRounds,   \* COMMIT_REBASE_ROUNDS: 3 in the code
    None

CallKinds == {"commit", "drop", "rebase", "search"}

ASSUME HeadAssumption ==
    /\ {MaxCalls, MaxCommits, MaxEvents, MaxRounds} \subseteq Nat \ {0}
    /\ Kinds \subseteq CallKinds
    /\ Env \subseteq {"kill", "fault", "decline", "other"}
    /\ (Server \cup Session) \cap (Nat \cup {None, "local", "stale"}) = {}
    /\ None \notin Nat \cup {"local", "stale"} \cup CallKinds

VARIABLES
    history,   \* the commits of the ref, the tip last
    log,       \* .memhtml/sessions/<id>.json
    slock,     \* the call that holds a session's lock
    socket,    \* .memhtml/head.sock: the server listening on it, or "stale"
    server,    \* each server: its phase, the version it holds, its permits
    call,      \* each call: what its process waits for, and what is done for it
    look,      \* where each call, and each server's poll, is in `fresh`
    events,    \* bound: what MaxEvents counts
    put        \* history: the ops ever put in a session

vars == <<history, log, slock, socket, server, call, look, events, put>>

Calls == 1..MaxCalls
Tip == Len(history)
Tree(n) == UNION {history[m].facts : m \in 1..n}

EmptyLog == [base |-> 1, ops |-> {}, pending |-> None]
Down == [phase |-> "down", held |-> 0, gate |-> None, advance |-> None]
Unborn == [kind |-> None, s |-> None, user |-> "unborn", at |-> None, phase |-> "none",
           copy |-> EmptyLog, version |-> 0, sha |-> 0, rounds |-> 0, asked |-> 0]
NotLooking == [phase |-> "none", seen |-> 0]

Init ==
    /\ history = <<[by |-> None, call |-> None, base |-> 0, facts |-> {}]>>
    /\ put \in [Session -> SUBSET Fact]
    /\ log = [s \in Session |-> [EmptyLog EXCEPT !.ops = put[s]]]
    /\ slock = [s \in Session |-> None]
    /\ socket = None /\ events = 0
    /\ server = [w \in Server |-> Down]
    /\ call = [k \in Calls |-> Unborn]
    /\ look = [r \in Calls \cup Server |-> NotLooking]

(***************************************************************************)
(* A server's life: load the tip, make sure no other one listens, bind.    *)
(***************************************************************************)
InServer(k) == call[k].at \in Server
Load(w) ==
    /\ server[w].phase = "down" /\ events < MaxEvents
    /\ server' = [server EXCEPT ![w] = [Down EXCEPT !.phase = "loaded", !.held = Tip]]
    /\ events' = events + 1
    /\ UNCHANGED <<history, log, slock, socket, call, look, put>>

\* claimSocket: a live server refuses this one; a socket nobody listens on is removed.
Claim(w) ==
    /\ server[w].phase = "loaded"
    /\ server' = [server EXCEPT ![w] =
         IF socket \in Server THEN Down
         ELSE [@ EXCEPT !.phase = IF socket = None THEN "claimed" ELSE "unlink"]]
    /\ UNCHANGED <<history, log, slock, socket, call, look, events, put>>

\* The file removed is whatever is there by now.
Unlink(w) ==
    /\ server[w].phase = "unlink"
    /\ socket' = None
    /\ server' = [server EXCEPT ![w].phase = "claimed"]
    /\ UNCHANGED <<history, log, slock, call, look, events, put>>

\* A path already bound fails the bind, and the finalizer removes the file all the same.
Bind(w) ==
    /\ server[w].phase = "claimed"
    /\ IF socket = None
       THEN socket' = w /\ server' = [server EXCEPT ![w].phase = "up"]
       ELSE socket' = None /\ server' = [server EXCEPT ![w] = Down]
    /\ UNCHANGED <<history, log, slock, call, look, events, put>>

\* A call nothing is done for any more keeps what its process was told.
Ended(k, outcome) ==
    [Unborn EXCEPT !.user = IF call[k].user = "waiting" THEN outcome ELSE call[k].user]
Answered(k, v) == Ended(k, IF v >= call[k].asked THEN "answered" ELSE "outdated")

\* What a client learns when its connection breaks: a lookup is done again
\* locally, a commit or rebase fails (`lost`).
Broken(k) == IF call[k].kind = "search" THEN Answered(k, Tip) ELSE Ended(k, "failed")
Dropped(w) == [k \in Calls |-> IF call[k].at = w THEN Broken(k) ELSE call[k]]
Silent(w) == [r \in Calls \cup Server |->
                IF r = w \/ (r \in Calls /\ call[r].at = w) THEN NotLooking ELSE look[r]]

\* SIGTERM: the listener closes, a commit that runs is waited for, the socket goes last.
Stop(w) ==
    /\ server[w].phase = "up" /\ server[w].gate = None
    /\ server' = [server EXCEPT ![w] = Down] /\ socket' = None
    /\ call' = Dropped(w) /\ look' = Silent(w)
    /\ UNCHANGED <<history, log, slock, events, put>>

Kill(w) ==
    /\ "kill" \in Env /\ server[w].phase # "down"
    /\ server' = [server EXCEPT ![w] = Down]
    /\ socket' = IF socket = w THEN "stale" ELSE socket
    /\ call' = Dropped(w) /\ look' = Silent(w)
    /\ UNCHANGED <<history, log, slock, events, put>>

(***************************************************************************)
(* A call of the CLI.  It asks the server unless nobody listens or it was  *)
(* told not to; what a call does itself is done `at` "local".              *)
(***************************************************************************)
Starting(k) == call[k].user = "unborn" /\ \A j \in 1..(k - 1) : call[j].user # "unborn"

Ask(k, kind, s) ==
    /\ Starting(k)
    /\ \E at \in ({socket} \cap Server) \cup {"local"} :
         call' = [call EXCEPT ![k] = [Unborn EXCEPT
            !.kind = kind, !.s = s, !.user = "waiting", !.at = at,
            !.asked = IF kind = "search" THEN Tip ELSE 0,
            !.phase = CASE at = "local" -> "resume"
                        [] at # "local" /\ kind = "search" -> "fresh"
                        [] OTHER -> "queued"]]
    /\ look' = [look EXCEPT ![k].phase = IF call'[k].phase = "fresh" THEN "read" ELSE "none"]
    /\ UNCHANGED <<history, log, slock, socket, server, events, put>>

\* The answer's deadline passes; what the server does for the call goes on.
LostIsBehind(c) ==   \* mutant: no answer is taken for the answer that nothing landed
    [c EXCEPT !.user = "rebase-needed"]
Lost(c) == [c EXCEPT !.user = "failed"]
Deadline(k) ==
    /\ InServer(k) /\ call[k].user = "waiting" /\ call[k].kind # "search"
    /\ call' = [call EXCEPT ![k] = Lost(@)]
    /\ UNCHANGED <<history, log, slock, socket, server, look, events, put>>

DeadlineOfLookup(k) ==
    /\ InServer(k) /\ call[k].kind = "search" /\ look[k].phase # "build"
    /\ call' = [call EXCEPT ![k] = Broken(k)]
    /\ look' = [look EXCEPT ![k] = NotLooking]
    /\ UNCHANGED <<history, log, slock, socket, server, events, put>>

\* A request whose client is gone may be interrupted while it waits for the permit.
Abandon(k) ==
    /\ InServer(k) /\ call[k].phase = "queued" /\ call[k].user # "waiting"
    /\ call' = [call EXCEPT ![k] = Ended(k, "failed")]
    /\ UNCHANGED <<history, log, slock, socket, server, look, events, put>>

Declined(k) ==
    IF call[k].user = "waiting" THEN [call[k] EXCEPT !.at = "local", !.phase = "resume"]
    ELSE Ended(k, "failed")
GateReleased(k) ==   \* mutant: a failure leaves the permit to advance taken
    [w \in Server |-> [server[w] EXCEPT !.gate = IF @ = k THEN None ELSE @]]
Released(k) ==   \* the permits k holds
    [w \in Server |-> [server[w] EXCEPT !.gate = IF @ = k THEN None ELSE @,
                                        !.advance = IF @ = k THEN None ELSE @]]
Answer(k, outcome) == call' = [call EXCEPT ![k] = Ended(k, outcome)] /\ server' = Released(k)
Goto(k, phase) == call' = [call EXCEPT ![k].phase = phase] /\ UNCHANGED server

\* oneCommitAtATime, and its wait running out.
TakePermit(k) ==
    /\ InServer(k) /\ call[k].phase = "queued"
    /\ server[call[k].at].gate = None
    /\ server' = [server EXCEPT ![call[k].at].gate = k]
    /\ call' = [call EXCEPT ![k].phase = "resume"]
    /\ UNCHANGED <<history, log, slock, socket, look, events, put>>
Busy(k) ==
    /\ InServer(k) /\ call[k].phase = "queued"
    /\ server[call[k].at].gate # None
    /\ call' = [call EXCEPT ![k] = Declined(k)]
    /\ UNCHANGED <<history, log, slock, socket, server, look, events, put>>

\* other-ref, session-unreadable, base-unservable: nothing was written yet.
Decline(k) ==
    /\ "decline" \in Env
    /\ InServer(k) /\ call[k].kind # "search"
    /\ call[k].phase \in {"resume", "fresh"} /\ call[k].rounds = 0
    /\ call' = [call EXCEPT ![k] = Declined(k)] /\ server' = Released(k)
    /\ look' = [look EXCEPT ![k] = NotLooking]
    /\ UNCHANGED <<history, log, slock, socket, events, put>>

(***************************************************************************)
(* `fresh`: read the ref; when it is elsewhere, advance under a permit of  *)
(* its own, reading the ref again.  A lookup, a commit, a rebase and the   *)
(* poll all pass through it.                                               *)
(***************************************************************************)
At(r) == IF r \in Server THEN r ELSE call[r].at
Held(r) == server[At(r)].held

ArriveAnyBase(r, v) ==   \* mutant: a commit is judged over the version held, whatever its base
    /\ look' = [look EXCEPT ![r] = NotLooking]
    /\ \/ r \in Server /\ UNCHANGED call
       \/ /\ r \in Calls
          /\ LET c == call[r]
             IN  call' = [call EXCEPT ![r] =
                   CASE c.kind = "search" -> Answered(r, v)
                     [] c.kind # "search" /\ (c.kind = "rebase" \/ c.rounds > 0) ->
                          [c EXCEPT !.version = v, !.phase = "save"]
                     [] OTHER -> [c EXCEPT !.version = v, !.phase = "judge"]]
\* What r goes on to with version v in hand.
Arrive(r, v) ==
    /\ look' = [look EXCEPT ![r] = NotLooking]
    /\ \/ r \in Server /\ UNCHANGED call
       \/ /\ r \in Calls
          /\ LET c == call[r]
             IN  call' = [call EXCEPT ![r] =
                   CASE c.kind = "search" -> Answered(r, v)
                     [] c.kind # "search" /\ (c.kind = "rebase" \/ c.rounds > 0) ->
                          [c EXCEPT !.version = v, !.phase = "save"]
                     [] OTHER -> [c EXCEPT !.version = c.copy.base, !.phase = "judge"]]

ReadRef(r) ==
    /\ look[r].phase = "read"
    /\ look' = [look EXCEPT ![r] = [phase |-> "compare", seen |-> Tip]]
    /\ UNCHANGED <<history, log, slock, socket, server, call, events, put>>

CompareNothing(r) ==   \* mutant: the version held answers, and the poll is left to advance it
    /\ look[r].phase = "compare"
    /\ IF look[r].seen = Held(r) \/ r \in Calls THEN Arrive(r, Held(r))
       ELSE look' = [look EXCEPT ![r] = [phase |-> "wait", seen |-> 0]] /\ UNCHANGED call
    /\ UNCHANGED <<history, log, slock, socket, server, events, put>>
Compare(r) ==
    /\ look[r].phase = "compare"
    /\ IF look[r].seen = Held(r) THEN Arrive(r, Held(r))
       ELSE look' = [look EXCEPT ![r] = [phase |-> "wait", seen |-> 0]] /\ UNCHANGED call
    /\ UNCHANGED <<history, log, slock, socket, server, events, put>>

Enter(r) ==
    /\ look[r].phase = "wait" /\ server[At(r)].advance = None
    /\ IF Tip = Held(r) THEN Arrive(r, Held(r)) /\ UNCHANGED server
       ELSE /\ server' = [server EXCEPT ![At(r)].advance = r]
            /\ look' = [look EXCEPT ![r] = [phase |-> "build", seen |-> Tip]]
            /\ UNCHANGED call
    /\ UNCHANGED <<history, log, slock, socket, events, put>>

Advance(r) ==
    /\ look[r].phase = "build"
    /\ server' = [server EXCEPT ![At(r)].held = look[r].seen, ![At(r)].advance = None]
    /\ Arrive(r, look[r].seen)
    /\ UNCHANGED <<history, log, slock, socket, events, put>>

\* The poll loop; one that finds the ref where it was changes nothing.
Poll(w) ==
    /\ server[w].phase = "up" /\ look[w].phase = "none" /\ Tip # server[w].held
    /\ look' = [look EXCEPT ![w] = [phase |-> "compare", seen |-> Tip]]
    /\ UNCHANGED <<history, log, slock, socket, server, call, events, put>>

(***************************************************************************)
(* The work of a commit or rebase, at a server under its permit or local.  *)
(***************************************************************************)
Working(k, phase) == call[k].at # None /\ call[k].phase = phase
Unmoved(k) == slock[call[k].s] = None /\ log[call[k].s].ops = call[k].copy.ops

\* resumeSession, then the version: the server's `fresh`, or a local load.
Resume(k) ==
    /\ Working(k, "resume")
    /\ LET c == [call[k] EXCEPT !.copy = log[call[k].s]]
       IN  call' = [call EXCEPT ![k] =
             CASE InServer(k) -> [c EXCEPT !.phase = "fresh"]
               [] ~InServer(k) /\ c.kind = "search" ->
                    Answered(k, Tip)
               [] ~InServer(k) /\ c.kind = "rebase" ->
                    [c EXCEPT !.phase = "save", !.version = Tip]
               [] OTHER -> [c EXCEPT !.phase = "judge", !.version = c.copy.base]]
    /\ look' = [look EXCEPT ![k].phase = IF InServer(k) THEN "read" ELSE "none"]
    /\ UNCHANGED <<history, log, slock, socket, server, events, put>>

\* rebaseOver: the base moves to the version in hand.  A round that cannot be
\* rebased ends with the outcome in hand.
SaveOver(k) ==   \* mutant: the log is saved over whatever it holds now
    /\ Working(k, "save")
    /\ log' = [log EXCEPT ![call[k].s] = [call[k].copy EXCEPT !.base = call[k].version]]
    /\ IF call[k].kind = "rebase" THEN Answer(k, "rebased")
       ELSE call' = [call EXCEPT ![k].phase = "judge", ![k].copy.base = call[k].version]
            /\ UNCHANGED server
    /\ UNCHANGED <<history, slock, socket, look, events, put>>
Save(k) ==
    /\ Working(k, "save")
    /\ IF ~Unmoved(k)
       THEN /\ Answer(k, IF call[k].rounds > 0 THEN "rebase-needed" ELSE "failed")
            /\ UNCHANGED log
       ELSE /\ log' = [log EXCEPT ![call[k].s] = [call[k].copy EXCEPT !.base = call[k].version]]
            /\ IF call[k].kind = "rebase" THEN Answer(k, "rebased")
               ELSE call' = [call EXCEPT ![k].phase = "judge", ![k].copy.base = call[k].version]
                    /\ UNCHANGED server
    /\ UNCHANGED <<history, slock, socket, look, events, put>>

Duplicates(k) == call[k].copy.ops \cap Tree(call[k].version)
Nothing(k) == call[k].copy.ops = {} /\ call[k].copy.pending = None
Refusable(k) == Working(k, "judge") /\ ~Nothing(k) /\ Unmoved(k)

\* A commit that is on the ref: what is left to do needs only its name.
Landing(k, phase, sha) ==
    [call[k] EXCEPT !.phase = phase, !.sha = sha, !.copy = EmptyLog, !.version = 0, !.rounds = 0]

\* commitOverHead of an empty log, and the two ways a log is not this caller's.
NothingToLand(k) ==
    /\ Working(k, "judge") /\ Nothing(k)
    /\ Answer(k, "refused")
    /\ UNCHANGED <<history, log, slock, socket, look, events, put>>
LogMoved(k) ==
    /\ call[k].phase \in {"judge", "drop"} /\ call[k].at # None /\ ~Nothing(k) /\ ~Unmoved(k)
    /\ Answer(k, "failed")
    /\ UNCHANGED <<history, log, slock, socket, look, events, put>>

\* A commit an earlier call landed and did not clear is settled and answered.
Recover(k) ==
    /\ Refusable(k) /\ call[k].copy.pending # None
    /\ log' = [log EXCEPT ![call[k].s] =
                 [base |-> call[k].copy.pending, ops |-> {}, pending |-> None]]
    /\ IF InServer(k)
       THEN /\ call' = [call EXCEPT ![k] = Landing(k, "follow", call[k].copy.pending)]
            /\ UNCHANGED server
       ELSE Answer(k, "committed")
    /\ UNCHANGED <<history, slock, socket, look, events, put>>

Refuse(k) ==
    /\ Refusable(k) /\ call[k].copy.pending = None /\ Duplicates(k) # {}
    /\ IF call[k].kind = "drop" THEN Goto(k, "drop") ELSE Answer(k, "refused")
    /\ UNCHANGED <<history, log, slock, socket, look, events, put>>

\* --drop-refused: replaceOps, then the commit of what is left.
Drop(k) ==
    /\ Working(k, "drop") /\ Unmoved(k)
    /\ LET kept == call[k].copy.ops \ Duplicates(k)
       IN  IF log[call[k].s].pending # None
           THEN Answer(k, "failed") /\ UNCHANGED log
           ELSE /\ log' = [log EXCEPT ![call[k].s] = [call[k].copy EXCEPT !.ops = kept]]
                /\ IF kept = {} THEN Answer(k, "refused")
                   ELSE /\ call' = [call EXCEPT ![k].phase = "judge", ![k].copy.ops = kept]
                        /\ UNCHANGED server
    /\ UNCHANGED <<history, slock, socket, look, events, put>>

\* The ref is past the version judged: the answer, or another round at the server.
Behind(k) ==
    /\ Refusable(k) /\ call[k].copy.pending = None /\ Duplicates(k) = {} /\ Tip # call[k].version
    /\ IF InServer(k) /\ call[k].kind = "drop" /\ call[k].rounds < MaxRounds
       THEN /\ call' = [call EXCEPT ![k].phase = "resume", ![k].rounds = call[k].rounds + 1]
            /\ UNCHANGED server
       ELSE Answer(k, "rebase-needed")
    /\ UNCHANGED <<history, log, slock, socket, look, events, put>>

\* The commit is on the ref; its log still holds the ops, beside `pending`.
Land(k) ==
    /\ Refusable(k) /\ call[k].copy.pending = None /\ Duplicates(k) = {} /\ Tip = call[k].version
    /\ Tip < MaxCommits
    /\ history' = Append(history, [by |-> call[k].s, call |-> k, base |-> call[k].copy.base,
                                   facts |-> call[k].copy.ops])
    /\ log' = [log EXCEPT ![call[k].s] = [call[k].copy EXCEPT !.pending = Tip + 1]]
    /\ slock' = [slock EXCEPT ![call[k].s] = k]
    /\ call' = [call EXCEPT ![k] = Landing(k, "final", Tip + 1)]
    /\ UNCHANGED <<socket, server, look, events, put>>

Final(k) ==
    /\ Working(k, "final")
    /\ log' = [log EXCEPT ![call[k].s] = [base |-> call[k].sha, ops |-> {}, pending |-> None]]
    /\ slock' = [slock EXCEPT ![call[k].s] = None]
    /\ IF InServer(k) THEN Goto(k, "follow") ELSE Answer(k, "committed")
    /\ UNCHANGED <<history, socket, look, events, put>>

\* `landed`: the held version moves to the commit if the ref is still there.
FollowAnyway(k) ==   \* mutant: the ref is not read again
    /\ Working(k, "follow") /\ server[call[k].at].advance = None
    /\ call' = [call EXCEPT ![k] = Ended(k, "committed")]
    /\ server' = [Released(k) EXCEPT ![call[k].at].held = call[k].sha]
    /\ UNCHANGED <<history, log, slock, socket, look, events, put>>
Follow(k) ==
    /\ Working(k, "follow") /\ server[call[k].at].advance = None
    /\ call' = [call EXCEPT ![k] = Ended(k, "committed")]
    /\ server' = IF Tip = call[k].sha
                 THEN [Released(k) EXCEPT ![call[k].at].held = call[k].sha] ELSE Released(k)
    /\ UNCHANGED <<history, log, slock, socket, look, events, put>>

(***************************************************************************)
(* Failures and other writers.                                             *)
(***************************************************************************)
\* A git or storage failure at a server: a 500 the client does not retry.  A
\* commit that moved the ref and whose version was not built still answers.
Fails(k) ==
    /\ "fault" \in Env /\ call[k].at # None /\ call[k].kind # "search"
    /\ \/ call[k].phase \in {"resume", "save", "judge", "drop", "final", "follow"}
       \/ call[k].phase = "fresh" /\ call[k].rounds > 0    \* in the first round a Decline
    /\ Answer(k, CASE call[k].phase = "follow" -> "committed"
                   [] call[k].phase \in {"resume", "fresh", "save"} /\ call[k].rounds > 0 ->
                        "rebase-needed"
                   [] OTHER -> "failed")
    /\ slock' = [s \in Session |-> IF slock[s] = k THEN None ELSE slock[s]]
    /\ look' = [look EXCEPT ![k] = NotLooking]
    /\ UNCHANGED <<history, log, socket, events, put>>

KillLocal(k) ==
    /\ "kill" \in Env /\ call[k].at = "local"
    /\ Answer(k, "failed")
    /\ UNCHANGED <<history, log, slock, socket, look, events, put>>

\* A session lock whose holder is dead is stale.
Reclaim(s) ==
    /\ slock[s] # None /\ call[slock[s]].at = None
    /\ slock' = [slock EXCEPT ![s] = None]
    /\ UNCHANGED <<history, log, socket, server, call, look, events, put>>

PutOver(s, f) ==   \* mutant: a put over `pending` does not settle it
    /\ events < MaxEvents /\ events' = events + 1
    /\ slock[s] = None /\ f \notin put[s]
    /\ log' = [log EXCEPT ![s] = [@ EXCEPT !.ops = @ \cup {f}, !.pending = None]]
    /\ put' = [put EXCEPT ![s] = @ \cup {f}]
    /\ UNCHANGED <<history, slock, socket, server, call, look>>
\* `session put`, always in the client; over `pending` it settles first.
Put(s, f) ==
    /\ events < MaxEvents /\ events' = events + 1
    /\ slock[s] = None /\ f \notin put[s]
    /\ log' = [log EXCEPT ![s] =
         IF log[s].pending = None THEN [log[s] EXCEPT !.ops = log[s].ops \cup {f}]
         ELSE [base |-> log[s].pending, ops |-> {f}, pending |-> None]]
    /\ put' = [put EXCEPT ![s] = @ \cup {f}]
    /\ UNCHANGED <<history, slock, socket, server, call, look>>

\* A v1 write, a curator's landing, a person's commit.
Other(f) ==
    /\ events < MaxEvents /\ events' = events + 1
    /\ "other" \in Env /\ Tip < MaxCommits /\ f \notin Tree(Tip)
    /\ history' = Append(history, [by |-> None, call |-> None, base |-> Tip, facts |-> {f}])
    /\ UNCHANGED <<log, slock, socket, server, call, look, put>>

Work(k) == \/ TakePermit(k) \/ Busy(k) \/ Resume(k) \/ Save(k)
           \/ NothingToLand(k) \/ LogMoved(k) \/ Recover(k) \/ Refuse(k) \/ Drop(k) \/ Behind(k)
           \/ Land(k) \/ Final(k) \/ Follow(k)
Fresh(r) == ReadRef(r) \/ Compare(r) \/ Enter(r) \/ Advance(r)

Next ==
    \/ \E w \in Server : Load(w) \/ Claim(w) \/ Unlink(w) \/ Bind(w) \/ Stop(w) \/ Kill(w) \/ Poll(w)
    \/ \E k \in Calls : \/ \E kind \in Kinds, s \in Session : Ask(k, kind, s)
                        \/ Deadline(k) \/ DeadlineOfLookup(k) \/ Abandon(k) \/ Decline(k)
                        \/ Work(k) \/ Fails(k) \/ KillLocal(k)
    \/ \E r \in Calls \cup Server : Fresh(r)
    \/ \E s \in Session : Reclaim(s) \/ \E f \in Fact : Put(s, f)
    \/ \E f \in Fact : Other(f)

Spec == Init /\ [][Next]_vars

-----------------------------------------------------------------------------
\* A permit is held by work in hand: no failure, refusal or stop leaves one taken,
\* which would keep every later commit, or the version itself, waiting for ever.
PermitsReturn ==
    \A w \in Server :
        /\ server[w].gate # None => call[server[w].gate].at = w
        /\ server[w].advance # None => look[server[w].advance].phase = "build"

\* The variables have their types, and the permits their holders.
HeadTypeOK ==
    /\ \A n \in 1..Tip : history[n].by \in Session \cup {None} /\ history[n].facts \subseteq Fact
    /\ log \in [Session -> [base : Nat, ops : SUBSET Fact, pending : Nat \cup {None}]]
    /\ slock \in [Session -> Calls \cup {None}]
    /\ socket \in Server \cup {None, "stale"}
    /\ server \in [Server -> [phase : {"down", "loaded", "unlink", "claimed", "up"}, held : 0..Tip,
                              gate : Calls \cup {None}, advance : Calls \cup Server \cup {None}]]
    /\ \A k \in Calls : call[k].version \in 0..Tip /\ call[k].at \in Server \cup {None, "local"}
    /\ put \in [Session -> SUBSET Fact]
    /\ PermitsReturn

\* A session's commit lands on the base its log names, with facts the ref lacked:
\* no server judges a log against a version that is not the session's own, and no
\* retry lands an op twice.
LandsOnce ==
    \A n \in 1..Tip : history[n].by # None =>
        history[n].base = n - 1 /\ history[n].facts \cap Tree(n - 1) = {}

\* A call that ends any other way than `committed` or a failure landed nothing, and
\* nothing done for it will land later: a client that lost its answer does not know,
\* and is not told it does.
HonestAnswer ==
    \A k \in Calls : call[k].user \in {"refused", "rebase-needed", "rebased"} =>
        call[k].at = None /\ \A n \in 1..Tip : history[n].call # k

\* An answer is never older than the ref at the moment of the request.
NeverOlder == \A k \in Calls : call[k].user # "outdated"

\* Every op put in a session is in its log or on the ref.
OpsKept == \A s \in Session : put[s] \subseteq log[s].ops \cup Tree(Tip)

\* The ref is the ledger's one branch; the ops of a log are open until its `pending`,
\* which names only commits on the ref, stands beside them.
Ledger == INSTANCE SessionLedger WITH
    Ref <- {"main"}, Main <- "main", RefOf <- [s \in Session |-> "main"],
    Restarts <- FALSE, Given <- Fact,
    branch <- [r \in {"main"} |-> Tree(Tip)],
    open   <- [s \in Session |-> IF log[s].pending = None THEN log[s].ops ELSE {}]

\* Whoever lands a session's ops, a server, its client or a local call, and whatever
\* of them ends, fails or is killed, they land as the ledger of the commit path says:
\* all at once and once, over a branch that lacks them; only ops on the ref are given up.
ImplementsLedger == Ledger!Spec

\* A server's version only moves forward.
HeldForward ==
    [][\A w \in Server : server'[w].held >= server[w].held \/ server'[w].phase = "down"]_vars
=============================================================================
