---------------------------- MODULE SessionLedger ----------------------------
(***************************************************************************)
(* What the session commit path promises, with no locks, logs, checkouts   *)
(* or crashes in it: a session holds open ops, and they reach its branch   *)
(* all at once, once, as facts the branch did not hold.  Nothing but a     *)
(* forced start gives up an op no branch holds.  SessionCommit implements  *)
(* this specification, and so does HeadServer.                             *)
(***************************************************************************)
CONSTANTS
    Session, Fact, Ref, Main, RefOf,
    Restarts,  \* whether sessions are started over
    Given      \* the ops a session may begin with

VARIABLES
    branch,   \* the facts each ref holds
    open      \* the ops of each session that have not landed

vars == <<branch, open>>

Init == /\ branch = [r \in Ref |-> {}]
        /\ open \in [Session -> SUBSET Given]

Put(s) == /\ \E f \in Fact : open' = [open EXCEPT ![s] = @ \cup {f}]
          /\ UNCHANGED branch

\* All open ops land in one step, over a branch that holds none of them.  A
\* branch born by this landing starts from what the checked-out branch holds or
\* held (`inherited`).
Land(s) ==
    LET r == RefOf[s]
    IN  /\ open[s] # {}
        /\ \E inherited \in SUBSET (IF branch[r] = {} THEN branch[Main] ELSE {}) :
             /\ open[s] \cap (branch[r] \cup inherited) = {}
             /\ branch' = [branch EXCEPT ![r] = @ \cup inherited \cup open[s]]
        /\ open' = [open EXCEPT ![s] = {}]

\* --drop-refused gives up only ops some branch already holds.
Drop(s) == /\ \E F \in SUBSET (open[s] \cap UNION {branch[r] : r \in Ref}) :
                open' = [open EXCEPT ![s] = @ \ F]
           /\ UNCHANGED branch

\* A writer that read its log before they landed may put ops that landed back in it:
\* they stay where they are, and no second landing takes them.
Reopen(s) == /\ \E F \in SUBSET branch[RefOf[s]] : open' = [open EXCEPT ![s] = @ \cup F]
             /\ UNCHANGED branch

\* session start --force gives up the session's ops.
Discard(s) == /\ Restarts
              /\ open' = [open EXCEPT ![s] = {}]
              /\ UNCHANGED branch

\* Another writer adds facts to the checked-out branch.
Other == /\ \E F \in SUBSET Fact : branch' = [branch EXCEPT ![Main] = @ \cup F]
         /\ UNCHANGED open

Next == \/ \E s \in Session : Put(s) \/ Land(s) \/ Drop(s) \/ Reopen(s) \/ Discard(s)
        \/ Other

Spec == Init /\ [][Next]_vars
=============================================================================
