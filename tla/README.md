# A TLA+ verification of memhtml

memhtml keeps an agent's memories as HTML files in a git repository. Several processes write to one
repository at once: CLI calls, a resident head server, curator agents, v1 store writers and the people
who own the checkout. This directory models the parts of the program that decide what those writers
may do to each other, checks them with TLC on small instances and proves the properties that matter
most with TLAPS.

Paths below are relative to `src/`. `PROJECT.json` names, for every definition of every module, the
lines it translates.

## 1. The system

| Part | State | Operations | Interacts with |
| --- | --- | --- | --- |
| Session log (`packages/session/src/session.ts`) | one JSON log per session (`base`, `ops`, `pending`), one lock file per session | start, resume, append, rebase, replace, prune | commit path, every CLI call that writes |
| Commit path (`packages/session/src/{commit,settle,plumbing}.ts`) | none of its own; git objects and refs, the index, the working tree, the log's `pending` | validate, build, record, land, settle | session log, checkout lock, git |
| Op log algebra (`packages/session/src/{validate,moves}.ts`, `packages/head/src/overlay.ts`) | none (pure) | validate, stage, overlay, repoint, drop | commit path, head server |
| Checkout lock (`packages/contracts/src/checkout-lock.ts`) | `.memhtml/checkout.lock` and its mtime | take, wait, refresh, reclaim, release, re-enter | commit path, v1 store, curate merge |
| v1 store (`packages/store/src/store.ts`) | files, the git index, a journal of first-seen bytes | write, correct, supersede, archive, merge, batch, each with its compensation | checkout lock, git |
| Head server and client (`apps/cli/src/head-*.ts`) | the version in memory, the commit permit, the queue, the socket | serve search, commit and rebase; follow the ref; fall back | commit path, snapshots |
| Snapshots (`packages/snapshot`, `apps/cli/src/head-cache.ts`) | cache files by commit | save, load, prune | head server |
| Session exec (`apps/cli/src/{session-exec,exec-pool,mount}.ts`) | a pool of sandboxed mounts | acquire, run, harvest, evict | session log |
| Curator (`apps/cli/src/{curate-run,curate-collapse,publish,replay}.ts`) | the curate ref, sessions on it | run, merge (fast-forward, replay, rebase), collapse, publish | commit path, checkout lock |
| Index (`packages/index`, `packages/traces`) | SQLite state plane, watermarks | index a commit, embed, scan traces, reinforce | git, LLM client |
| Domain, HTML, paths (`packages/{domain,html,contracts}`) | none (pure) | merge, retention, decay, parsing, slugs | all |
| Integrations (`packages/integrations`) | the receipt file, agents' configuration files | install, uninstall, doctor | file system |
| CLI and MCP (`apps/cli`, `apps/mcp`) | none | argument parsing, payloads, the head-server attempt | all of the above |

What is hard here is that correctness is spread over files no transaction covers. A session commit
touches four things in order: the log (`pending`), the shared index and working tree, the ref, and
the log again. The process may be killed between any two, another process may write any of them, and
two kinds of lock (one refused at once, one waited for, both reclaimed when their holder looks dead)
are all that separates them. `PROJECT.json` lists under "hazards" each place where that bites.

What makes each part correct:

- **Session log**: no answered op is lost; no writer overwrites ops it did not read.
- **Commit path**: ops land at once, exactly once, over the version they were judged against; a call
  that does not answer `committed` landed nothing; a kill at any instant leaves a log that the next
  call settles; the checkout is never left with a staged deletion of a committed file.
- **Op log algebra**: validation over a fresh version equals validation of the rebased log; dropping
  a refused op drops what depends on it and nothing else.
- **Checkout lock**: at most one live holder that refreshes in time; a waiter is never stuck.
- **v1 store**: an operation that fails leaves the files and the index as it found them.
- **Head server**: a commit answered or lost is landed at most once; a served version is one the ref had.
- **Curator**: a merge reaches main through one compare-and-swap and keeps every disjoint change.
- **Index**: every commit is indexed before the watermark passes it, after any kill.

## 2. Modules and plan

Written, in this order:

1. `SessionLedger`: the abstract specification of the commit path. Open ops of a session reach a
   branch all at once, over a branch that holds none of them. `SessionCommit` implements it, and so does `HeadServer`.
2. `SessionCommit`: the commit path with its locks, logs, git and the checkout, and its properties.
3. `MCSession`: constants for TLC. `session_*.cfg`: the runs.
4. `SessionCommitProofs` (what holds with every lock lost, and what rests on the locks), `SessionCommitRefines` (that it
   implements `SessionLedger`) and `SessionCommitAlone` (what holds while the calls on a session come one at a time):
   theorems about `SessionCommit` for every value of the constants.
5. `CheckoutLock` (with `MCCheckoutLock`, `CheckoutLockProofs`): the checkout lock with its clock and the
   store's permit before it. `SessionCommit` has the lock as one variable, `clock`, held by at most one
   process unless `stall`; that is what `MutualExclusion` says of the lock itself unless a holder overstays.
6. `OverlayLog` (with `MCOverlayLog`, `OverlayLogProofs`): what the ops of one log mean to
   the validator, to the session's view and to the tree a commit writes, and the repoints a commit adds.
   `SessionCommit` takes an op to be a fact added to a tree; this module is what stands behind that.

7. `Store` (with `MCStore`, `StoreProofs`): the v1 store's multi-file writes with their journal and compensation, and the
   SQLite index that answers their dedupe question: its incremental pass, its watermark and its rebuild.
8. `HeadServer` (with `MCHeadServer`, `HeadServerProofs`): head servers on one socket, how they follow the ref,
   the commits they land one at a time, and the client that may lose their answer or do the work itself.
   A commit there is two steps, to the moved ref and to the cleared log; `SessionCommit` is what stands behind it, and both
   implement one `SessionLedger`.
9. `CurateMerge` (with `MCCurateMerge`, `CurateMergeProofs`): landing a curate ref on its target by fast-forward or replay, beside
   curators that commit to the one and writers that move the other.

10. `HeadIndex` (with `MCHeadIndex`): the indexes of a version, and the ways to one: loaded from a tree, advanced
    from its parent, read from a snapshot.

Planned, most important first:

11. `Drops`: `afterDroppedVacates` over `OverlayLog`'s operators, and a log rebased onto another head.
12. `ExecPool`, `Receipt`, the trace watermark, embeddings and reinforcement, and the implicit
    session's two first uses.

Every safety property a passing run checks is also a theorem. Theorems left: `HeadIndex`'s, under the conditions in which its versions agree with a load (its run shows where they do not), and
the planned modules'.

## 3. How SessionCommit corresponds to the code

**Data.** A memory file is one model value (`Fact`): its path and bytes together. A git tree, the
index and the working tree are each the set of facts they hold, and an op is the fact a `put` adds;
the ops of a log are a set. `DirtyAt` is `git status --porcelain` at paths; `MoveCheckout` is
`git read-tree -m -u`, with its refusal when a path it must touch holds uncommitted work. `commits` is
the object database, in creation order; a commit has its ancestry, parent, tree, and, as history, the ops
it was built from and the session that built it.

**Processes.** A `Proc` is a CLI process (or one request of the head server) that runs one call at a
time; `pc` stands between two awaits of the code, and `job` is what it holds in memory: `copy` is the
log it read, `built` the commit it settles or lands, `expected` the value its compare-and-swap will
demand. Each action is the code between two awaits that other processes can tell apart:

| Code | Actions |
| --- | --- |
| `resumeSession`, then the CLI's tip lookup | `Read`, `Onto` |
| `withSessionLock`, `requireLogUnmoved` | `TakeSession`, `Refuse` |
| `startSession --force`, `rebaseSession`/`saveSession`, `appendOps` | `Start`, `Rebase`, `Put`, `PutSettled` |
| `settlePending` | `StartSettle`, `Settle`, `Rollback` |
| `commitSession` steps 0 to 5 | `Recover`, `ForgetPending`, `SkipRecovery`, `Invalid`, `RebaseNeeded`, `Build` |
| `landOnRef` | `Land`, `LandTimeout`, `Sync`, `Swap`, `SwapFails`, `AfterFailure`, `Unsync` |
| `commitSession` after it | `Clear`, `Final` |
| `replaceOps` with `--drop-refused` | `Replace`, `RefuseReplace` |
| one v1 write | `V1Stage`, `V1Commit`, `V1Compensate` |

Releasing a lock is part of the action that ends the critical section, as the `finally` is in the code.
`Build` joins the git objects it writes and the log write that records them: an object nothing refers
to is invisible, so no other process can tell them apart, and a kill between the two is the same as
a kill before the action.

**Environment** (`Env` chooses which failures a run has):

| Kind | Meaning |
| --- | --- |
| `crash` | a process is killed anywhere; its lock files stay |
| `stall` | a live holder is so slow that its lock is judged stale |
| `git` | a git command fails as a process; `update-ref` may have moved the ref first |
| `io` | a write of a log fails |
| `timeout` | the wait for the checkout lock runs out |
| `gc` | an unreferenced pending commit has been pruned |
| `user` | a person edits, stages and commits without any lock |
| `blind` | the question after a failed `update-ref` fails too |

Time is not modelled here (it is in `CheckoutLock`): a lock may be reclaimed when its holder is dead, or, under `stall`, at any time.

**The refinement.** `branch` of the ledger is the tree each ref names; `open` is a session's log, or
nothing when the log's `pending` is already on the ref (those ops are landed; the log just does not say
so yet). So the landing is the single step of `Swap` (or of a `SwapFails` that moved the ref), and the
log's later clearing is a stutter whether it is done by the same process or by the next call's recovery.
`Recover` and `Final` drop ops the branch holds; a writer that puts back a log of before the landing (finding 4) is a
`Reopen`: those ops are open again though the branch has them, and no second landing takes them. `Replace` is a `Drop`, a v1 commit
or a person's is `Other`, and `Discard` is possible only where the calls include a forced start (`Restarts`).

### CheckoutLock

A `Fiber` is a call that changes the shared index: a store write, which queues for its process's permit
(`line`) and then takes the lock, or a caller that takes the lock itself (a session commit, `publish`,
`state`, `doctor`, `init`). `owner` and `age` are the lock directory: whose mtime it has and how old that is;
`held` are the fibers whose release is registered, `lost` those whose `onCompromised` has fired.

| Code | Actions |
| --- | --- |
| `exclusive`: `withPermit(withCheckoutLock(...))` | `Call`, `Permit` |
| `attempt` under `Effect.retry` with `pauses` | `Attempt` = `Take`, `Pause` or `Refuse` |
| an interrupt between attempts, a failure other than `ELOCKED` | `GiveUp` |
| `held.has(target)`: `git.commit` inside a store write | `Nest`, `Return` |
| the release on every exit | `Exit` |
| proper-lockfile's timer (external) | `Refresh` |
| time, an event loop that stalls, a kill and the next process | `Tick`, `Stall`, `Resume`, `Crash` |

A tick waits for every running process's due attempts and refreshes, so only a stalled process is ever
late. The code's numbers (10 s stale, 2 s refresh, 15 s wait, pauses of 10 ms doubling to 250 ms) enter by
their order, `Update < Stale < Wait`; a pause is anything up to the longest. The library is not under
`src/`: its judging an old mtime and replacing the directory is one step here, and its release removes the
directory without asking whose it is, unless it has noticed the compromise itself. So
once a holder has overstayed, its exit may free another's lock: every exclusion property is conditional on
nobody having overstayed (`late`).

### OverlayLog

A path is a name and an archive generation: `Live(n)` is where a record lives, generation `g > 0` is
`archive/<YYYY>[.<g>]/...`. A record is its article (its content hash), the paths its links name and its
entities. Three functions of the code walk a log from its first op to its last, each with maps of its own:

| Code | Variables | Judged when |
| --- | --- | --- |
| `validateOps`: may the log land? | `claimed`, `puts`, `edges`, `labels`, `unlabeled`, `archives`, `moves`, `aims` | per op: the action's guards; after the walk: `Accepted` |
| `withOverlay`: what the session sees | `overlay`, `inStep` | `inStep` is FALSE once it has failed on an op |
| `stage`: what the commit writes | `writes`, `removes`, `inert` | `inert` is its refusal of an op that changed nothing |
| `repointsByVacate`: what an archive or a move leaves | `unlinked`, `putAgain` | `Missing` |

An action (`Put`, `Archive`, `Link`, `Unlink`, `Label`, `Unlabel`, `Move`) is one op joining the log: one step
of all of them, so that where two of them keep their own copy of one thing the copies can disagree. The walk
stops at its first bad op, hence a log is followed only while it has none. `Complete` is `missingRepoints`
appended to the log, or nothing where the cap has no room; `Commit` is steps 1 to 4 of `commitOverHead` for a
complete, accepted log, contradictions marked (`Marked`), and the next log starts from its tree.

`Reuse` says what a writer does at a path its own log archived. The session's view holds nothing there, so
`putPathFor` may give it to a put (`"put"`); an edit there is by a caller that did not look (`"edit"`). The walk
takes the path for archived in both cases, which is where finding 1 and the third observation of section 5 come from.
`ArchivePut` are the archive paths a writer puts at. `putPathFor` (`v2.ts:324`) returns an explicit path as it is, and an exec that
changes a file under `archive/` is harvested as a put at its slot (`session-exec.ts:378`); `validateOps` refuses neither.
What such a put may do to history is the fourth observation of section 5; the properties say exactly where it is excepted.
`CurateScope` is the scope `curate`, which may write the curated names; `RequireAnchor` is the store's write bar.

### Store

A `Path` is a title, a collision suffix and an archive generation (0 is live); a file is its article and the paths
its links name. `disk` is the working tree, `staged` git's index, the last of `commits` HEAD; `rows` is what the
SQLite index holds for a path and `mark` its `head_sha`. An operation decides everything first, inside
`exclusive`, and its plan is the list of `steps` it then runs: note in the journal, write, stamp (`setMeta` over what
the file holds by then), move, add, commit. `correctMemory` and each pair of `supersedeMemories` are one `Replacing`: a file goes
to its archive slot and another is written that links to it.

| Code | Actions |
| --- | --- |
| `writeMemory`, `writeMemories`, `correctMemory`, `archiveMemory`, `supersedeMemories`, `linkMemories`: the dedupe question, `freePathFor`, the archive slots, the plan | `WriteMemory`, `WriteMemories`, `CorrectMemory`, `ArchiveMemory`, `SupersedeMemories`, `LinkMemories` |
| the journal, `writeFile`, the stamps of an archive, `git mv`, `git add`, `git commit` | `NoteStep`, `PutStep`, `StampStep`, `MoveStep`, `AddStep`, `CommitStep` |
| a step that fails, or fails after the commit landed | `StepFails`, `LateFailure` |
| the compensation: unstage, then put back the first readings; its own failure | `Reset`, `Rewrite`, `RestoreFails` |
| `Indexer.update`, run by every write and by `index` under no lock | `Update`, `ReadHead`, `ReadState`, `ReadStatus`, `Apply`, `WriteState` |
| the rebuild | `Rebuild`, `Truncate`, `Load`, `WriteState` |
| a kill; a session commit, which runs no pass | `Killed`, `SessionCommit` |

What a pass writes is a function from paths to entries (`Diff`, `Entry`): the rows an entry takes away and the one it may put. `Accepts`
says that `files_content_hash_active` lets every entry in, in git's order; `After` is what the rows then are.
A pass's row writes are one step; the code applies them in batches of `WRITE_BATCH_SIZE`. `slips` is history: what
happened that is known to leave the index behind or ahead, so that each property can say what it does without.

### HeadServer

A `Server` is a `head serve` process; `server[w].held` is the commit its version was built from. A call of
the CLI is an index (`Calls`), because what a server does for it goes on after its client is gone: `user` is
what the client knows, `at` where the work is done (a server, `"local"`, or nowhere any more), `phase` where it
stands. `look` is `fresh`, through which a lookup, a commit, a rebase and the poll all pass: read the ref,
compare, wait for the permit to advance, read the ref again, build.

| Code | Actions |
| --- | --- |
| `head serve`: load, `claimSocket`, bind, SIGTERM | `Load`, `Claim`, `Unlink`, `Bind`, `Stop` |
| `fresh` and the poll loop | `ReadRef`, `Compare`, `Enter`, `Advance`, `Poll` |
| `head-client`: the request, its deadline, a broken connection, the fallback | `Ask`, `Deadline`, `DeadlineOfLookup`, `Abandon` |
| `oneCommitAtATime`, its wait, `declined` | `TakePermit`, `Busy`, `Decline` |
| `serveCommit`, `serveRebase`, the local commit and its `--drop-refused` rounds | `Resume`, `Save`, `NothingToLand`, `LogMoved`, `Recover`, `Refuse`, `Drop`, `Behind`, `Land`, `Final` |
| `landed`: the held version moves to the commit | `Follow` |
| failures, kills, a stale session lock, writers of other kinds | `Fails`, `Kill`, `KillLocal`, `Reclaim`, `Put`, `Other` |

`Bind` removes the socket file when the path is already bound: the finalizer of the losing listener runs all the
same. `asked` is the tip when a lookup was sent; `Answered` compares it with the version that answers.

**The refinement.** The ref is the ledger's one branch; a log's ops are open unless a `pending` stands beside them, for that names only commits on
the ref here. A session may begin with ops (`Given`), and no call here is a forced start.

### CurateMerge

`into` is the branch everybody writes to, `cur` the curate ref, both places in `commits`; a commit has its parent,
its ancestry (`past`, itself included) and its tree. A memory file is live or archived in a tree, and `odd` holds
what
only a person's edit can make: an article changed in place, which `reconstructOps` rejects. A twin at an archive slot that pairs with no
vanished file is no archive for it but a put at the slot (`copy`).

| Code | Actions |
| --- | --- |
| `curateMerge` reads the curate ref, then `into` and the merge base | `ReadRef`, `ReadInto` |
| `reconstructOps` and the log of session `merge-<sha>`; validation and the gate | `AppendAndJudge`, `Gate` |
| the fast-forward; `landReplay` with its bounded rebases; the curate ref's move | `Forward`, `Replay`, `Follow` |
| `land` of `curate-run.ts` and `landOps` of `curate-collapse.ts` | `Curate`, `CurateLands` |
| a person's edit on the curate ref; any other writer of `into` | `Hand`, `Other` |
| a git call, a load or a write of the log that fails, a kill | `Fails`, and the second outcome of every `Moves` |

One attempt of `commitSession` is one step here: `SessionCommit` has its inside. A step that moves a ref may still end in a
failure (`Moves`): `update-ref` failed as a process after it had moved the ref, the write that empties the log failed, or
the process was killed. `moved` is history: the refs a merge has moved.

### HeadIndex

A path is a number, its place in the order git lists paths; each live path has one archive slot, which sorts before
every live path. A file is its article and its links, or does not parse. `branch` is the trees of the ref, `held` the
version a process holds, `snapshots` the cache files, newest first. Of `Indexes`, `holder` is `byContentHash`;
`active` stands for the indexes of live records only (frame keys, the lexical index), `inbound` for those of all
records (inbound links, entities), each a relation of keys and paths.

| Code | Definitions |
| --- | --- |
| `removeRecord`, `insertRecord` | `RemoveRecord`, `InsertRecord` |
| `loadHead`, `versionFromRecords`, `advanceHead` | `LoadHead`, `VersionFromRecords`, `AdvanceHead` |
| `loadVersion`: its own snapshot, an ancestor's advanced, git | `LoadVersion` |
| the commits of a session, of the store, of a person | `Put`, `Write`, `Correct`, `Archive`, `Edit` |
| a server's advance; a process that starts; `writeHeadSnapshot` and the pruning; a file that cannot be read | `Follow`, `Start`, `WriteSnapshot`, `LoseSnapshot` |

## 4. Runs

| Run | Instance | What it shows |
| --- | --- | --- |
| `session_core` | 2 processes, 1 session, a v1 writer, 2 facts, 3 commits, 1 kill; git, io, gc and timeout failures | no answered put is lost (`NoOpLost`), `pending` names exactly the log's ops, a call that clears its intent landed nothing, no staged deletion; the commit path implements `SessionLedger`, so no branch loses a file (`BranchKeepsFacts`, which is proved) |
| `session_own_duplicate` | 2 processes, 1 session, 1 fact, 2 commits, 1 kill | **violation**, finding 4 |
| `session_solo` | 1 process, 3 sessions, two on the checkout's ref (interchangeable) and one on an unborn ref, 2 commits, 2 kills, io, timeout, no v1 | types; what is staged is named by some `pending`; landed ops stay in a log only beside the `pending` that names them |
| `session_unlocked` | 2 processes whose locks are lost while they live, 1 session, 1 fact, a kill, timeouts and a user; `FairSpec` | the compare-and-swap alone keeps refs advancing; every call ends |
| `overlay_log` | logs of up to 4 ops, repoints included, over 2 heads with 4 names, one of them curated, one anchored; an article archived before, rivals, the write bar, puts at paths the log archived and at one archive slot, held in one head and free in the other; 1 commit | a log that may land keeps every record in one place, leaves no dangling edge, commits what its session saw; a completed log lacks no repoint; only a put at a slot writes over it, and no archive leaves a gap |
| `overlay_edit_archived` | as `overlay_log`, edits at paths the log archived instead of puts there | **violation**, finding 1 |
| `checkout_lock` | 2 store writes in one process, a session commit in another; 2 stalls, 1 kill; `FairSpec` | two are never inside unless one overstayed, and two of one process not even then; a refused writer met a living holder; no exit strands the lock; every call ends |
| `store_index` | 2 callers, 1 title, 2 articles, 3 suffixes, 1 archive generation, 2 calls over an empty corpus or one of one or two records, indexed or not; failing steps, late failures, kills, session commits | a failed call leaves what it found (`FailedChangesNothing`), nothing held is ever removed (`NothingRemoved`), an index whose mark is HEAD holds what a rebuild would (`FreshAgrees`), links into the archive resolve, one live record per article where the calls took turns |
| `store_twin` | 1 caller, 2 suffixes, 3 calls of write and correct, nothing failing | **violation**, finding 2 |
| `head_server` | 2 servers, 1 session, 2 facts, 2 calls, 3 commits, 2 events (server starts, puts and others' commits together), 1 round; kill, fault, decline, other | a session's commit is on its own base and repeats nothing; a client is never told that what landed did not; no answer is older than its question; no op is lost; versions only advance; permits return; `ImplementsLedger` |
| `curate_merge` | 2 curators, 2 merges, 2 facts, 5 commits, 2 attempts; a failure or a kill at any step, a person's edit | no commit of either branch is lost, a replay is a three-way merge of what it read, a merge answers what it did and the curate ref never gets ahead of `into` (`AnswersWhatItMoved`) |
| `head_index` | 2 live paths and their slots, 3 articles, 5 trees, snapshots | **violation**, finding 3 |

**Bounds.** `MaxCommits` bounds commit objects: with 3, a session commit lands, another writer lands
on top of it, and a third is built over both, the longest chain a settle has to distinguish (pending is
the tip, an ancestor of it, or on no ref). `MaxCrashes` of 1 or 2 kills a process and then the one that
recovers from it. Each (session, fact) pair is put once (`tried`), so two facts give one op that lands
and one that is appended meanwhile. Two processes suffice for a read of a stale log, the v1 writer is
the third actor. Deadlock checking is off in the session runs: the bounds make every one stop. For the
lock, `Update` = 1, `Stale` = 2, `Wait` = 4 and pauses of 1 or 2 are the smallest values in the code's order
that leave room for a holder to die in the middle of a wait; clocks are capped just past the largest time
a comparison tells apart. Two stalls let a holder be compromised and the one that replaced it too. For the
op log, `Cap` = 4 is the shortest log in which a vacate, the two ops of its repoint and one op more that
disturbs them meet, and it is the code's cap at work as well: a log of three ops with an edge to repoint does not fit.
Two generations let a slot be taken by the head or by the log; a new record has at most one link
(`MaxEdges`), since edges are judged one by one. The two heads are a record cited by two others (one
curated) that was archived before and put again, and two records that nothing cites, with two articles free to put. The slot
writers put at is the one the first head holds: a put there writes over history, and in the other head it takes the
slot before or after an archive wants it. A log that
cannot take another op really stops, so deadlock is not checked there. For the store, two articles under one title
give every outcome of the dedupe question (held by a live record, by an archived one, by the record
that is corrected) and make suffixes and slots collide; two calls overlap in every pair of operations, each with the
index pass of the other under way. For the head server, two servers race for the socket and a restart meets a
stale one; two calls are a lookup or a rebase under way while the other lands, or a retry after a lost answer; with
three commits the ref moves past the base of a session twice; two events are two servers, a server and its restart, or a
server and one put or foreign commit. Two merges and two curators give the merge that
loses its compare-and-swap to the other and the curate ref that moves under a replay; five commits are the base, one
commit of each branch, and the two that the merges land. The calls are bounded in all three, so they stop, and
deadlock is not checked.

**Fairness.** `FairSpec` gives each process weak fairness of its own next step: the operating system
runs a process that is not killed. That is enough because neither lock blocks: the session lock is
refused at once and the wait for the checkout lock ends with a timeout, so a step is always enabled
(`EveryCallEnds` excepts the states where the commit bound itself stops `Build`). No fairness is
assumed of kills, reclaims, respawns, v1 writers or users.

`CheckoutLock`'s `FairSpec`: a running event loop gets to its due timers and to the permit it was given, each
effect ends (a git command returns), a stalled loop runs again, and time passes (strong fairness of `Tick`,
which every due timer disables for a moment; without it infinitely many calls could happen in no time).
Nobody has to call, give up or re-enter.

The specifications of `OverlayLog`, `Store`, `HeadServer`, `CurateMerge` and `HeadIndex` assume no fairness: what they promise is safety.
That a server's version reaches the ref, or an index pass its watermark, depends on a poll that is given no
commit to race and on git answering; neither is claimed.

## 5. Findings

1. **A log may edit a record it has archived** (`overlay_edit_archived`). `isLiveSource` (`validate.ts:269`)
   asks the head and the moves, and not the batch's archives. A log that archives a record and then links
   or labels its old path passes; `stage` finds no staged file there, edits the head's, and step 4 takes the
   removes before the writes, so the record is live again beside its archived copy. `validate.ts:268` says an
   editable path is "live in the head and still there" and `validate.ts:254` that "the record moves". It takes
   an exec that archives and then a put with a label on the same path in one session: the put is validated
   against the base alone (`v2.ts`, `preparePuts`). `withOverlay` refuses the log, so that session's next
   view fails.
2. **A correction may make a twin that no index can hold** (`store_twin`). `correctMemory` (`store.ts:1087`) hashes
   the corrected article and never asks `dedupeLookup`, as the writes do. Corrected to the article of another
   live record it lands, and `files_content_hash_active` (`index/migrations/0008_tasks.sql:126`) then refuses
   the row: the incremental pass, every later one and every rebuild fail until a person removes one. `README.md:207`
   says the unique index "makes a duplicate write impossible to index, so the write returns the existing path".
3. **A version that is advanced may forget a live article** (`head_index`). `advanceHead` (`version.ts:190`) removes the
   paths that are gone first, but a path whose file changed only when it is inserted again, in path order. If record
   `b` gives up article Y and a record that sorts before it takes Y within one range (a correction of `b` in place, then a write
   of Y), the new record finds Y held by the old `b` and is not its holder (`indexes.ts:103`), and inserting the new `b` then releases
   Y (`indexes.ts:71`). Nothing holds Y, where a load of the same commit finds it; `version.ts:109` says the two "agree node
   for node". The validator asks that index (`validate.ts:304`), so a put of Y lands a second live record, with finding 2's
   consequence. No record of the corpus is a twin on the way there. The tests compare the records and the lexical index of the two
   versions (`head/tests/head.test.ts:268`).

4. **A session may refuse its own landed ops** (`session_own_duplicate`). `saveSession` (`session.ts:471`) writes the session it was
   handed whole, and `requireLogUnmoved` compares only the ops. A rebase that read the log before a commit recorded its `pending`
   finds the ops equal once that commit's process is gone, and writes the log back without it. If the commit had moved the ref, the
   next commit refuses its own ops as duplicates, where `session.ts:54-56` says that "the next commit checks whether it reached the ref
   and answers `committed` for it instead of refusing the same ops as duplicates of themselves". No op is lost or lands twice: they are on the ref, and the ledger calls
   this `Reopen`. A commit does the same (`commit.ts:562`) after two kills: it read the log beside the `pending` of a first, killed commit, a second
   one settled that, landed its own and was killed, and settling the first again clears the `pending` of the second. The attempt to prove a
   ledger without `Reopen` found this; TLC confirms it.

Met while modelling, without a run of their own:

- **A forced start discards a half-landed commit.** `startSession` (`session.ts:316`) with `force` writes a new log
  without settling the old one's `pending`. If that commit was killed after its `read-tree`, its files stay staged and no
  log names them. `StagedIsNamed` fails with `"start"` in `Calls`; `session_solo` leaves it out.
- **An index pass may be overtaken.** Passes run under no lock (`operations.ts:272`). A pass killed between its rows and
  its watermark, overlapping passes, and one that reads a dirty tree leave rows the next diff does not visit
  (`design.md:157` admits the first). `slips` records them, and `FreshAgrees` is asked where none happened.
- **What is put where the log archived is not judged.** The walk keeps a path in `archived` to its end. A session that
  puts a record, archives it and puts another of the same title gets the same path again, and the second record is exempt from
  what is judged after the walk: it may land below the write bar (`validate.ts:569`) and may name a path the log emptied
  (`validate.ts:525`). `overlay_log` includes such puts; `NoEdgeLeftBehind` excepts their edges, and `CommitsTidy` is
  proved for writers without them.
- **A put at an archive path is accepted, and it may write over history.** `validateOps` asks of a put whether its path is live
  (`validate.ts:307`) and nothing else of it ("a put under archive/ passes every put check", `validate.ts:330`). An explicit path and
  an exec's changed file are such puts. On a slot the head holds, the put replaces the archived record, where `v2.ts:310-313` says the
  validator answers `claim-edit` or `duplicate` and `validate.ts:340` calls the slot "an earlier archiving's history". On a slot the log itself archived into, it
  replaces the record the log moved there. Past a free generation it leaves the gap `validate.ts:341` speaks of, and an archive into a slot the log put at keeps
  the put's links for the walk and the archived record's file for the tree. `HistoryKept`, `RecordsKept`, `NoGapMade` and `OverlayIsStaged` each except
  that case and nothing more; without it TLC refutes each, `NoGapMade` where writers put at the slot
  of the second generation and the others in `overlay_log` as it is.
- **A failure after a store commit landed undoes it on disk.** The commit is made and a later step of it fails
  (`rev-parse`, an interrupt): the compensation restores the files of before (`store.ts:1037`), under a HEAD that has
  the new ones. `LateFailure` is it; the properties are asked where none happened.
- **A second merge of a landed curate ref lands again.** Once `into` has moved on, the curate ref, which the first
  merge moved to its landed commit, no longer descends from it; the re-run rebuilds an empty log, which neither `curateMerge`
  nor `commitSession` refuses, and lands an empty commit. `docs/design.md:918` and `v2.ts:1878` say a rerun answers
  `moved: false`.
- **A merge that fails may have landed.** `v2.ts:1850` says that a call that fails leaves the repository as it found it. Once the replay has
  landed, the write that empties its log (`commit.ts`), or the curate ref's `update-ref` as a process (`v2.ts:2068`), may
  still fail the call, with `into` moved and the ref where it was; `update-ref` of a fast-forward may fail after it moved the ref. "A
  failed merge moved nothing" is violated in this model. `AnswersWhatItMoved` says what does hold: a failure has
  moved nothing or landed whole and once. Run again, the merge rebuilds the same ops: they are refused as duplicates, land empty, or, where
  somebody archived what the first one put, put it back.
- **A gate that judges a replay scores the curate ref's tip**, not the commit that is replayed; and a merge that
  lost its race to another leaves a curate ref whose delta holds ops that landed, refused later as duplicates, though
  `v2.ts` calls that tip "a fresh curation to judge on its own".
- **A server that fails to bind removes the socket file of the one that won** (`Bind`), and a claim that found a stale
  socket removes whatever is there by then; the second is admitted by `docs/design.md:766`. Calls then do the
  work themselves, so no property fails.

## 6. Proofs

Eight modules prove, for all values of the constants that satisfy `SessionAssumption` (any
number of sessions, processes, v1 writers, facts and refs, any bounds, every `Env`); for the lock,
`LockAssumption` (any fibers in any processes, any times with `Update < Stale < Wait`); for the op log,
`LogAssumption` (any names, articles, entities and rivals, either scope, with or without the write bar, any
cap, any tidy head, any archive paths put at); for the store, `StoreAssumption` and `SeedsAssumption` (any callers, titles, articles, calls and bounds, every
`Env`, any corpora whose links into `archive/` resolve); for the head server, `HeadAssumption` (any servers, sessions, facts and bounds, every `Env`); for the
merges, `MergeAssumption` (any facts, curators, merges, commits and attempts, every `Env`):

| Theorem | Module | Statement |
| --- | --- | --- |
| `TypeCorrect` | `SessionCommitProofs` | `Spec => []TypeOK` |
| `PendingIsTheLog` | `SessionCommitProofs` | `Spec => []PendingHoldsOps` |
| `RefsAdvance` | `SessionCommitProofs` | `Spec => RefsOnlyAdvance` |
| `UncommittedStaysOff` | `SessionCommitProofs` | `Spec => []UncommittedNotLanded` |
| `NoPutIsLost` | `SessionCommitProofs` | `"stall" \notin Env` implies `Spec => []NoOpLost` |
| `NothingStagedAway` | `SessionCommitProofs` | `{"stall", "user", "blind"} \cap Env = {}` implies `Spec => []NoStagedDeletion` |
| `BranchesKeepFacts` | `SessionCommitProofs` | `{"stall", "user", "blind"} \cap Env = {}` implies `Spec => BranchKeepsFacts` |
| `CommitPathImplementsLedger` | `SessionCommitRefines` | `{"stall", "user", "blind"} \cap Env = {}` implies `Spec => ImplementsLedger` |
| `LandedOpsAreNamed` | `SessionCommitAlone` | `"stall" \notin Env` implies `Spec /\ []Unshared => []LandedOpsNamed` |
| `OwnOpsNotRefused` | `SessionCommitAlone` | `"stall" \notin Env` implies `Spec /\ []Unshared => []NotItsOwnDuplicate` |
| `StagedIsAccountedFor` | `SessionCommitAlone` | `Orderly` implies `Spec /\ []Unshared => []StagedIsNamed` |
| `OneProcessIsNamed` | `SessionCommitAlone` | `Orderly` and one process imply `Spec => [](LandedOpsNamed /\ StagedIsNamed)` |
| `LockTypes` | `CheckoutLockProofs` | `Spec => []LockTypeOK` |
| `NeverTwoInside` | `CheckoutLockProofs` | `Spec => []MutualExclusion` |
| `WaitOutlastsTheDead` | `CheckoutLockProofs` | `Spec => []RefusedOnlyByTheLiving` |
| `ExitsRelease` | `CheckoutLockProofs` | `Spec => []NoStrandedLock` |
| `TypeCorrect` | `OverlayLogProofs` | `Spec => []LogTypeOK` |
| `HistoryIsKept` | `OverlayLogProofs` | `Spec => HistoryKept` |
| `NoGapIsMade` | `OverlayLogProofs` | `Spec => NoGapMade` |
| `RecordsAreKept` | `OverlayLogProofs` | `"edit" \notin Reuse` implies `Spec => []RecordsKept` |
| `CommitsAreTidy` | `OverlayLogProofs` | `Reuse = {}` implies `Spec => []CommitsTidy` |
| `ViewsAreStaged` | `OverlayLogProofs` | `"edit" \notin Reuse` implies `Spec => []OverlayIsStaged` |
| `EdgesFollow` | `OverlayLogProofs` | `"edit" \notin Reuse` implies `Spec => []NoEdgeLeftBehind` |
| `RepointsSuffice` | `OverlayLogProofs` | `Reuse = {}` implies `Spec => []CompletionSuffices` |
| `StoreTypes` | `StoreProofs` | `Spec => []StoreTypeOK` |
| `FailureIsUndone` | `StoreProofs` | `Spec => FailedChangesNothing` |
| `NothingIsRemoved` | `StoreProofs` | `Spec => []NothingRemoved` |
| `ArchiveLinksHold` | `StoreProofs` | `Spec => []ArchiveLinksResolve` |
| `FreshAgreesWithRebuild` | `StoreProofs` | `Spec => []FreshAgrees` |
| `ActiveOnceHolds` | `StoreProofs` | `Spec => []ActiveOnceInTurn` |
| `CommitsLandOnce` | `HeadServerProofs` | `Spec => []LandsOnce` |
| `NothingPutIsLost` | `HeadServerProofs` | `Spec => []OpsKept` |
| `AnswersAreFresh` | `HeadServerProofs` | `Spec => []NeverOlder` |
| `AnswersAreHonest` | `HeadServerProofs` | `Spec => []HonestAnswer` |
| `HeadTypesHold` | `HeadServerProofs` | `Spec => []HeadTypeOK` |
| `HeldMovesForward` | `HeadServerProofs` | `Spec => HeldForward` |
| `ServersImplementLedger` | `HeadServerProofs` | `Spec => ImplementsLedger` |
| `TypeCorrect` | `CurateMergeProofs` | `Spec => []MergeTypeOK` |
| `NoCommitLost` | `CurateMergeProofs` | `Spec => []NothingLost` |
| `ReplayMerges` | `CurateMergeProofs` | `Spec => []ThreeWay` |
| `AnswersTellWhatMoved` | `CurateMergeProofs` | `Spec => []AnswersWhatItMoved` |

`Unshared`: no two processes are in a call on the same session. `Orderly`: `Env` is within crash, io and timeout, there is
no v1 writer and no forced start. The last theorem's hypotheses are those of `session_solo`.

Those about sessions rest on eight inductive invariants, each over those before:

- `Typed`: the types, plus what `pc` says of `job` (`JobTyped`): a process in a call has a session, one
  that settles or lands has a commit. `TypeOK` alone is not inductive, since `Final` writes `built` as a
  log's base and it must not be `None` there.
- `Fit`: only commits that were made are named anywhere (`CommitFits`, the refs, `LogFits`, `JobFits`); a
  commit's ancestry is closed; a log's `pending` was built from its ops, and so is the copy of
  it a process carries around (otherwise a rebase could write back one that was not); a commit
  about to land descends from the value its swap expects. No conjunct mentions a lock: the
  theorems of `SessionCommitProofs` hold with every lock lost (`stall`), which is the point of the compare-and-swap.
- `Owned`: a process that holds the session lock is who the lock names, knows the log's ops, and its commit
  was built from them. This is where the locks matter: preserving it against other processes (`OthersOwn`) uses
  `Footprint`, that a process writes its own session's log and lock, and only while it holds that lock
  or nobody does; preserving it against reclaims uses `"stall" \notin Env`.
- `Private`: the commit a process is landing, or is about to give up, is `Apart`: no ref, base or other process names it and no
  commit descends from it. It takes no lock to see: a log names it as `pending`, but whoever settles that finds it on no ref.
- `Shared`: who is in the checkout's critical section is who its lock names (`Holds`); the branch is inside it where it was
  when the commit was judged (`Ahead`); a `pending` and the commits in hand have nothing but their ops over the base (`Adds`, `Sound`), so a
  rollback takes out of the index only what the branch lacks. `NoStagedDeletion` alone is not inductive because
  it does not say what `git read-tree` moves from; a commit that landed meanwhile is why `blind` is excluded.
- `Refining`, for the refinement: `Monotone`, a commit's tree holds its ancestors' trees, so what landed stays on the branch; `Rooted`, a
  log's base was a tip of the session's ref, or of the checked-out one, which is what a branch born by a landing inherits; `Away`, a session's commit is on
  the session's ref or on no ref, nor under any later commit; `AllNamed`, while a commit lands its session's log names it as `pending`, and
  a put that rolls one back knows it is on no ref. The last two make `open` a function of the log that no other process's step changes:
  a log is emptied by `Swap` in the ledger exactly when its `pending` reaches the ref.
- `Alone`, over `Owned`, `NoOpLost` and `Away`, while sessions are `Unshared`: a process in a call knows its session's log, its ops and its
  `pending`, at every step (`Knows`), not only where it holds the lock. Neither property is inductive alone: `LandedOpsNamed`
  fails once a process writes back a `pending` it read before somebody else's landing, which is finding 4; and that no commit refuses
  its session's own ops needs that a put's op is new to the log and to every commit of the session (`Tried`). `Unshared` is a hypothesis about
  behaviours and not about the constants: any number of processes may work on any number of sessions, or on one in turn, and only two overlapping calls
  on one session leave it. With `NotItsOwnDuplicate` false in `session_own_duplicate`, that race is then its only cause.
- `Calm`, over `Refining` and `Alone`, where `Orderly`: between the calls' steps the working tree is the index, and everything staged that
  the branch lacks is of a session whose log names the commit that staged it, or of a process whose call still does (`Quiet`). A rollback takes out
  what its commit put in and nothing of the others, because it moves from that commit's tree.

Those about the lock rest on `LockInv` and `Turns`. `MutualExclusion` is not inductive because it does not say
whether a holder's directory can be found stale; `OneAge` does: unless somebody overstayed, the holder's
directory is its own and exactly as old as its last refresh. `RefusedOnlyByTheLiving` needs `Outwaited`: a
directory nobody living holds has aged at least as long as any waiter that met nobody has waited,
so with `Wait > Stale` it is taken before the budget is spent. None of it excludes anybody once a holder overstayed; that two store
writes of one process are not both inside even then rests on the permit (`Turns`): nobody stands twice in a line, whoever is past the permit is at
the head of it, and an end takes out that writer's place and no other (`Leaving`, a lemma about `RemoveFirst`).

Those about the op log rest on five, the last two each over `KeptInv`, because the properties speak of the tree a
commit would write and not of how the log came to it:

- `LogInv`: the types, and where moves and archives may go (`MovesPlaced`, `ArchivesPlaced`): a move goes to a
  live path that held nothing, an archive to a slot the head does not hold, only an archive or a put writes
  a slot and nothing removes one. `HistoryKept` follows, for every writer.
- `GapInv`: the slots of the head and of the log's archives (`Taken`) have no gap where the head's have none (`NoGaps`). The
  tree has exactly those where the log puts at no slot of the name, which is `NoGapMade`.
- `KeptInv`: no two vacates share a source or a place (`Distinct`), what one took is staged where it went unless the log puts there
  (`Arrived`), and a record of the head is staged for removal exactly when the log took it (`Settled`), and as itself otherwise unless a put is at its slot.
  `Settled` is what an edit of an archived path breaks, hence `"edit" \notin Reuse`; a path filled again holds a
  put of the log (`Refilled`), and the head never held it, so those edits do no harm.
- `TidyInv`: the head is tidy, a staged live article is claimed by the log or is its record's own (`Claims`, `Staged`), and staged entities are the
  ones the walk judges (`Carried`), so the write bar asked of the one holds of the other.
- `SeenInv`: what the log put is staged where it put it (`Filed`), the walk's links of a live staged file are the file's (`Linked`), and
  while no op was inert and no slot was both put at and archived into (`NoClash`) the view has applied every op and holds the staged records (`Mirrored`). An op the view would fail on is one that
  leaves its file unchanged, and that log is refused. `RepointsSuffice` excludes puts at archived paths because TLC refutes it with them: where
  the head has a link to a path that holds nothing, and the log puts there, archives that and puts again, `moves.ts` makes no repoint and `validateOps` asks for one.

Those about the store are every property its run checks. An operation enters with a plan (`Enters`), and everything about its
steps follows from what holds of any plan a call makes; five invariants say it:

- `TypeInv`: the types, and what a call's phase gives it (`Proper`): a running plan ends in its commit, the journal is empty outside the lock.
- `JournalInv`: under the lock, the journal reads as `begun`, the history variable for what the call found, and paths outside it are
  untouched. `FailedChangesNothing` is not inductive because a step must not reach past the journal: what is left of the plan is
  `Sound`, each path noted before it is touched, a put over nothing but its own article or what the plan moved away, a
  link into `archive/` after the move that fills it. Freeness is judged on disk, so this needs `freePathFor` and `archiveSlotOf` to
  be asked under the lock, and nothing about the other callers.
- `KeptInv`: every article that was ever at HEAD is on disk, and every tree names in `archive/` only what is there, for the trees of
  now and for those a compensation would put back (`begun`): else a failure could undo what `NothingRemoved` rests on. An article at HEAD
  is kept by the disk alone, which is more than the property asks.
- `FreshInv`: rows and watermark agree, phase by phase; `DiffGives` and `WholeGives` are the facts about passes it rests on, that a diff's entries take the
  rows of one tree to those of the other, renames included, and that a rebuild's give those of its tree.
- `TurnInv`, for one call at a time: HEAD, git's index and the disk agree between calls; the index is HEAD's whenever a call may
  ask it; what the holder plans is planned for one path (`PlannedOnce`) and everything it wrote is staged by its commit (`Settled`, `Stages`), so
  that nothing of it waits on disk for a later one; and while a pass runs, no article moved between two live paths (`Apart`), so
  `Accepts` holds and no pass is refused. `ActiveOnce` alone is not inductive: it says nothing of what is staged, of the index or of the plan.

Those about the head server are every property its run checks, over these:

- `Fit`: records name only commits that were made; what a log's `pending` stands beside is in that commit's tree; a call
  judges over its own base.
- `Owned`: a call whose commit is on the ref while the log still holds its ops holds the log's lock. `LandsOnce` needs it:
  nobody else can land those ops meanwhile, whichever of server and client does the work.
- `AskedInv`: what a lookup has read of the ref is not older than its question, so neither is the version it waits for.
- `Honest`: a call whose commit is on the ref is in its last two phases or has told `committed` or `failed`; one at work has told
  nothing. A client that turns away knows no more than that, so it may not say that nothing moved.
- `PermitInv`: whoever looks or works at a server is there while that server is up, a permit's holder is at work, and a builder
  holds the permit to advance, over a version no newer than what it saw. `HeldForward` needs the last: what a builder
  puts in place is then no older than what it replaces.

That they implement the ledger needs `Fit` and `Owned` only. A log's rewriting (`Save`, `Recover`, `Drop`, `Final`) adds no op and gives up only
ops on the ref (`RewriteMoves`), so it is a `Drop` of the ledger, or a `Reopen` where it puts back a log of before the landing; the
one step that adds open ops to the ref is `Land`, whose log has no `pending` since its ops are not on the ref.

Those about the merges rest on `IInv`, one invariant of seven parts:

- `Typed` and `History`: a commit is made over one commit, so what two commits descend from has a newest one, their merge base
  (`Greatest`, `BaseIsLast`), and what was archived on the way stays archived.
- `Calls`: what a merge in a phase knows of the refs it read, which makes a landed swap one over that value.
- `Current`: the ops of a merge that replays are the difference of the curate ref's tip and the merge base it has with the base they are
  judged over. A rebase keeps that, because while `into` has not reached the tip nothing that moves it changes that merge base (`ForkStays`).
- `AllTold`: what each merge has moved, phase by phase, and that its one commit, if it made one, is the one it names (`Told`). `AnswersWhatItMoved`
  alone is not inductive: it says nothing of a merge between its landing and its answer.
- `NoneLost` and `ThreeWay`, which is then one fact about sets (`DeltaMerges`): ops that were accepted over a tree make the three-way merge of it.

The bounds `MaxCommits`, `MaxCrashes`, `MaxAttempts`, `MaxOrdinal`, `MaxGeneration`, `MaxEdges`, `Cap`, `MaxCalls`, `MaxEvents` and `MaxRounds` are arbitrary naturals there, so the results hold for
histories of every length.

Only model-checked: liveness and `ENABLED`, which are out of the prover's reach (`EveryCallEnds`, `EveryWaitEnds`), and `HeadIndex`, whose
one run shows a violation. `LandedOpsNamed`, `StagedIsNamed` and `NotItsOwnDuplicate` are proved for sessions whose calls do not
overlap; where two processes race on one session the code breaks the first and the last (finding 4).

## 7. Not modelled, and why

- In `SessionCommit`, ops other than `put` and the order of ops in a log: they matter to what a tree becomes
  (`OverlayLog`), not to when it may be written.
- In `OverlayLog`, frame keys, link relations, aliases of a path and the file format: none changes which
  record is where. The year of an archive is one year. An op the walk refuses ends the log; what `--drop-refused`
  does after that (`afterDroppedVacates`), and a log rebased onto another head, are planned (`Drops`).
- The commit of an empty log without `pending`: it answers without writing anything (a guard of `Read`).
- A missing log and the implicit creation of a session: every session has a log here, so a `start`
  is the forced one.
- Retries on git's own `index.lock`.
- Within `V1Stage` the file write and `git add` are one step: both happen under the checkout lock, and a
  v1 kill between them leaves an untracked file, which is a user's edit to everyone else.
- In `Store`: `mergeBranch` (called by tests only, as `supersedeMemories` is), tasks and their rules, the classes of a
  link's endpoints, explicit paths and the refusal of unusable ones. In its index: chunks, edges, embeddings,
  reinforcement and traces, which hang on a file's row and follow it.
- In `HeadServer`: the versions of other commits it keeps for a while (`VERSIONS_KEPT`), its vectors and their backfill, the gates and the
  requests of exec and embed, and a failing `update-ref` (it is in `SessionCommit`). `serveRebase` reads the ref once before `fresh`; its
  answer is judged over what `fresh` finds.
- In `CurateMerge`: the repoints and contradiction marks of a replay (`OverlayLog`'s), the refusal
  over a dirty checkout (`MoveCheckout` of `SessionCommit`), snapshots, and what a curator's model, its inbox and its clustering
  propose: any op may be. `publish` regenerates listings and commits them under the checkout lock, a v1 write to everyone else.
- In `HeadIndex`: archive generations, labels apart from links, what a record says beyond its article, and git or a disk that fails. Its
  snapshots are on one branch, so every other one is an ancestor of the tip.
- Sessions and dropped files that are pruned by age; session exec, whose ops enter by `appendOps`; the implicit session: planned.
- Retrieval, ranking and search (`index/src/retrieval.ts`, `head/src/search.ts`), the domain rules and the quality gate: pure functions of
  floating-point scores, without state. The HTML parser, its editors and the slugs: strings.
- The traces' watermark and the integrations' receipt: separate small state machines, planned. The LLM client, evaluation,
  telemetry and the docs site share no state with what is modelled.
- Formatting, payloads and argument parsing.
