# Cocomerge in TLA+

Cocomerge (the package and command are still called `cocodex`) lets several
developers, each with a Codex agent, work on one Git repository at the same
time. Each developer has a *session*: a branch and a managed worktree. A local
daemon publishes the work of the sessions to `main`, one session at a time.
This directory holds TLA+ models of the part of that system that decides what
is on which branch, the TLC configurations that check them, and TLAPS proofs.

Paths below are relative to `src/src/cocodex/` unless they start with `src/`.

## 1. The system

### 1.1 Components

| Component | State it keeps | Operations | What makes it correct |
|---|---|---|---|
| Sync requests (`daemon.py`) | none of its own between requests; what a request has read so far | `ready_to_integrate`, `fusion_done`, and below them catch-up, direct publish, Git merge, semantic task, `publish_candidate` | one session at a time moves main, forward; lock and row agree; no work is dropped; an answer is true |
| Startup recovery (`daemon.py`) | the lock and rows it read at the start | `recover_incomplete_sessions`, `_normalize_session_after_startup` | from whatever an interrupted daemon left to a state in which every task can be finished or is undone, without losing work; it ends |
| State store (`state.py`) | SQLite: `sessions` (state, active_task, last_seen_main, runtime columns), `locks`, `metadata`, `events`, `queue` | `transition_session`, `update_last_seen_main`, `set_lock`, `claim_integration_task`, `claim_session_deletion`, `delete_session_record`, `register_session`, `update_session_runtime`, `touch_session_heartbeat`, `mark_session_disconnected` | each call is one transaction; lock owner and lock task are set together |
| Git operations (`git.py`) | branches, worktrees, refs below `refs/cocodex/` | `current_head`, `merge_base_is_ancestor`, `commit`, `merge_commit`, `reset_hard`, `fast_forward_ref`, `create_backup_ref`, pushes | main never goes back |
| Semantic tasks (`tasks.py`) | files `.cocodex/tasks/<task>.md` and `<task>.validation.md` | `create_task_id`, `write_task_file`, `validate_task_report` | a task somebody was given can be completed |
| Session agent (`agent.py`) | the developer's process, a heartbeat thread, a control socket | `freeze`, `start_fusion`, heartbeat, shutdown | a prompt is given once the task is ready |
| Join (`session.py`) | worktrees, a row | `ensure_session_worktree`, `register_with_daemon`, `_recover_rejoinable_task` | never contradicts what the daemon does at the same time |
| Delete (`delete.py`) | rows in state `deleting`, `refs/stash`, refs below `refs/cocodex/deleted/` | look, claim, back up, stash, remove the worktree and branch, delete the row, give the claim back | no work is lost; a session is whole or says that it is not; it can be finished when it was interrupted |
| Socket transport (`transport.py`) | a Unix socket and perhaps a pointer file, one handler thread | `prepare_socket_path`, `_listening_socket`, accept, handle, answer, `_unlink_binding` | one request at a time; the server that serves is the one clients reach; leftovers of a dead one do not keep the next from starting |
| Command line (`cli.py`) and remote (`git.py`) | refs of the remote | dispatch, output; `force_push_session_refs` after a sync, `try_sync_deleted_session_refs` after a deletion | the remote catches up with main and gets every backup |
| Membership loop (`daemon.py`) | runtime columns of rows, `last_observed_main` | register, heartbeat, shutdown, `detect_disconnected_sessions`, `detect_external_main_update` | a live agent does not stay disconnected, a dead one does not stay connected, what is recorded of main settles |
| Main guard (`guard.py`) | Git hooks | install, decide | nobody but Cocodex writes main by accident |
| Configuration, protocol, status, failures | none | parse, format | - |

### 1.2 How they interact

`cocodex sync` is a client: it reads `active_task` of its row and sends
`ready_to_integrate` (no task) or `fusion_done` (with the task) to the daemon's
socket. The daemon's socket thread serves one connection after the other and
runs the whole request in it. The request reads and writes the database, runs
Git commands in the session's worktree and in the repository root, writes task
files, and sends `freeze` and `start_fusion` to the agent of the session, on the
agent's control socket, with a timeout of 5 seconds. The agent pastes a prompt
into Codex, which later commits a candidate and writes a validation report.

Nothing stops anybody else meanwhile. The developer and Codex edit and commit
in the worktree; an operator can commit on main; `cocodex join` and `cocodex
delete` are processes of their own that write the same database; the daemon can
be killed at any point and started again, and it can be started twice. A
starting daemon first runs its recovery and only then tries to listen.

`cocodex join` makes worktree and row, starts the agent (which listens on a
control socket and sends a heartbeat every two seconds) and registers it with
the daemon. Registrations, heartbeats, goodbyes and sync requests queue at the
same socket and are taken by the same thread. Beside it the daemon's main loop
marks sessions disconnected that have not been heard of for 30 seconds, and
compares main with the main it saw last. `cocodex delete` decides by what all
of them have written to the row. After a sync the client itself, not the
daemon, pushes to the remote.

### 1.3 What is hard

* Every request is a chain of 5 to 20 durable effects (Git commands, database
  transactions, files) with no transaction around them: the daemon may die
  between any two, and any of them may fail.
* What a request has read (head, main, row, lock) is used after others could
  change it.
* Recovery decides from one look at the lock and the rows; join from another.
* Failures are undone by several effects, which may be interrupted themselves.
* The lock is held from the start of a semantic task until its candidate is
  published, across requests and restarts: everybody else waits for it.
* Messages outlive the clients that sent them; the two threads of the daemon
  and several processes write one row without looking again.
* `refs/stash`, the socket path and the refs of the remote are shared, and
  nobody owns them.

The hazards are listed one by one, at their lines, in `PROJECT.json`.

## 2. The modules

```
GitCommits      commits and ancestry
   |
SyncState       durable state, elementary writes          (state.py, git.py, tasks.py)
   |
SyncRequest     the handler thread on one request         (daemon.py)
   |
SyncRecovery    startup recovery, crash, second daemon, join   (daemon.py, session.py)
   |
SyncDaemon      Init, the environment, Next, properties ---- refines ---> SerialMain
   |        \            \
   |         \            SyncTypeProofs --- SyncSerialProofs --- SyncTaskProofs
   |          \                                         |            SyncWorkProofs  (TLAPS)
   |           MCSyncDaemon, MCStartup                  |                       (TLC)
   |                                                    |
SessionDelete   deletion and joining beside requests --- SessionDeleteProofs    (TLAPS)
                                          (delete.py, session.py, state.py)

DaemonLoop      agents, their messages, the two threads of the daemon --- DaemonLoopProofs
                                          (agent.py, daemon.py, state.py, transport.py)
SocketPath      taking and leaving a socket path (transport.py) --- SocketProofs   (TLAPS)
RemoteSync      pushes after syncs and deletions (git.py, cli.py) --- RemoteProofs (TLAPS)
```

`SyncDaemon` composes requests, recovery, crashes and the joining of a session
that has a task; `SessionDelete` composes the same requests and boot with
deletion and the joining of new sessions. `DaemonLoop`, `SocketPath` and
`RemoteSync` have states of their own: they share with the rest only that a
request keeps the handler busy, moves main and ends, or that a session has been
deleted locally, and each says so in one or two actions.

**GitCommits.** The daemon never looks into a commit: it compares hashes, asks
for ancestry and makes commits. A commit is the set of the atoms of work in its
history (an edit, Codex's candidate for a task, a Git merge, an external
commit). `IsAncestor` is inclusion. A Git merge that is not "already up to
date" adds an atom of its own, since `merge_commit` uses `--no-ff`: the merge is
a commit different from both of its parents.

**SyncState.** The variables: `main`; `head` and `dirty` (uncommitted tracked
changes) of each session; snapshot, base and backup refs; task files and
reports; `row` (state and active task) and `lastSeen` of the `sessions` table;
`lock`; `up` (the daemon serves requests). Three more are not durable: `req`,
`rec` and `joining`, the local variables of the request, recovery and join
under way. `used` counts what the environment has used of the bounds. The
operators `TransitionSession`, `UpdateLastSeenMain`, `ReleaseLockIfOwned`,
`ResetHard`, `CommitAll` and `RestoreTaskSnapshotIfPossible` are the functions of
those names.

**SyncRequest.** The handler thread. A step ends where the code has made one
durable effect. `req.pc` is the place in the code, `req.mode` the way the request
publishes:

| Steps | Code |
|---|---|
| `ReadyToIntegrate` | admission in `handle_session_message`, `_normalize_unknown_baseline` |
| `CatchUp...`, `CaughtUp` | `_sync_clean_session_to_main` |
| `Direct...` | `publish_without_fusion_if_current` (`DirectFails` is its `except`, `DirectUnlock` its `finally`) |
| `ForwardMain`, `ForceMain`, `ForwardRefused` | `fast_forward_ref` on main, in all three modes |
| `PublishedClean`, `PublishedSeen`, `PublishedRelease` | row, `last_seen_main` and lock after main has moved |
| `ClaimIntegrationTask` ... `PromptDelivered` | `start_integration_now`, `prepare_locked_sync`, `snapshot_session_work`, `publish_with_git_merge_if_clean` |
| `StartFails`, `AbortRestore`, `AbortUnlock`, `AbortClean` | the `except` of `start_integration_now` |
| `FusionDone`, `NormalizeActiveTask` | `_normalize_active_task_for_sync` |
| `CheckCandidate` ... `Preflight` | `publish_candidate` |

Reads between two effects belong to the second one, unless the code uses the
value after a later effect: then it is kept in `req` (`latest`, `cand`) and is
as stale as in the code. `req.asked` is a history variable for
`AckedWorkPublished`.

**SyncRecovery.** `StartRecovery` keeps the lock and the rows as read; each
session that needs it is then treated by one of `AdoptLockTask`, `ClearIdleRow`,
`ResumeTask`, `BackUpTask` or `BackupFails`, and after `BackUpTask` by three more
effects. `Boot` starts it after the daemon has stopped; `SecondDaemon` starts it
beside a daemon that is running (`run_daemon` recovers before
`prepare_socket_path` finds the socket in use). In `Crash` the daemon that serves
dies, alone or together with one that recovers beside it, or one that recovers dies:
what their handler or their recovery was doing is forgotten, and nothing else. A
second daemon that is left goes on recovering and then serves. `JoinRead`, `JoinCheck` and `JoinWrite` are the three database
accesses of `prepare_join_startup_notice` and `_recover_rejoinable_task`.

**SyncDaemon.** The initial states, developers and Codex (`Edit`, `CommitWork`,
`CommitCandidate`, `WriteReport`), other writers of main (`ExternalMain`), `Next`,
the fairness, and the properties.

**SerialMain.** What the system promises about its branches and nothing else:
one session at a time owns the integration; only the owner moves main, forward,
and to a commit that its own branch contains; a session's branch moves without
moving any other. `SyncDaemon` implements it with `owner <- lock.owner`.

**SessionDelete.** `DeleteStart` is everything `delete_session` looks at before
its claim; `DeleteClaim` and `DeleteRefused` are `claim_session_deletion`; then
one action per effect, up to `DeleteRecord`. `DeleteFails` is the `except` of
`delete_session`: it gives the row its state back unless the flag
`mutation_started` is set, which happens one effect late (delete.py:108-109).
`del[d].old` and `del[d].tree` are what the process read at the start, and are as
stale as in the code. `JoinWorktree`, `JoinRow` and `JoinRegister` are
`create_worktree`, the rest of `ensure_session_worktree` and the registration, each
in a state that a deletion may have changed since. Requests are those of
`SyncRequest`; where their next command would run in a worktree that is gone, or
write a row that is gone, `HinderedStep` takes the exceptional way through the
same handlers. `overlap` is a history variable: it remembers what has met a
deletion past its claim - a request or a join of its session, a recovery that had
listed the session, another deletion of it that had read the row before it was
marked. `late` is another one: developers and requests work in a worktree as long as
it is there, whoever is about to delete it, and `late` remembers what was committed
behind the backup of the head and what was edited behind the stash.

**DaemonLoop.** Agents are processes with identifiers that grow; a message carries
what the code sends (only a registration carries the pid). `Join` makes the row and
binds the control socket, `Registers` sends the registration later; a killed daemon,
a deletion, or goodbyes of an earlier agent come between. The heartbeat thread may
send once more behind the goodbye of its agent (`SaysGoodbye`). `Take` reads the row
and decides, the `Write...` actions are the UPDATEs that follow. `LoopLists` keeps
the list of `detect_disconnected_sessions`, `LoopMarks` writes by it;
`LoopReadsObserved`, `LoopReadsMain` and `LoopRecords` are the three accesses of
`detect_external_main_update`. `Ages` lets 30 seconds pass for a session, only
while nothing would have been written for it in that time. `DeleteLooks`,
`DeleteClaims` and `DeleteEnds` are a deletion as far as it reads and writes
`connected` and `pid`.

**SocketPath.** One action for each system call that looks at, removes, binds or
writes a file, for servers that are started by themselves, killed anywhere and
started again. The daemon and the agents' control sockets use the same code. A
path that is too long for a socket address holds a pointer file, and each
process computes the socket it points to from its own temporary directory:
`bindPath`.

**RemoteSync.** A push reads the local refs, connects and is told those of the
remote, and has its refs updated one by one, each only if it is still what it
was. (`--force` skips the check of ancestry, not this one.) A ref that was up to date
is not sent, and cannot be refused. `raced` is a history
variable of a push: another one has updated the remote's main since this one read
the local refs. A deletion pushes its backups, lists the branch and removes it,
and warns of what failed.

**MCSyncDaemon** adds the symmetry of session names. **MCStartup** runs recovery
alone, from whatever may have been left.

## 3. The checks

### 3.1 Properties

* `TypeOK`.
* `LockTaskConsistent`: between requests the lock and the rows tell the same
  story. `docs/DEV.md:223` asks for it.
* `LastSeenReflected`: `last_seen_main` is in main and in the session's branch. If
  it were not, the next direct publish would revert what others published.
* `ActiveTaskRecoverable`: a task that a row names has its file and both refs.
* `FusingOnMain`: a worktree in which Codex merges contains the whole of main.
* `NoWorkLost`: an edit or a candidate stays in some worktree, on main, or below
  a snapshot or backup ref.
* `AckedWorkPublished`: "published" and "already synced" are true of all the work
  the worktree held when the request arrived.
* `MainForward`: main never goes back.
* `SerialInv`, `SerialMainSpec`: the inductive invariant of section 4, and the
  refinement.
* `TaskHoldsLock`: no two sessions are ever at work at once: between requests,
  whoever has a task holds the lock for it, and nobody else has one.
* `RequestsFinish`, `LockReturned`, `DaemonComesUp`: liveness.

Of deletion:

* `LockHolderPresent`: the holder of the lock has its row and its worktree,
  although `claim_integration_task` and the direct publish write a row without a
  look at its `deleting` mark.
* `SessionsWhole`: a row that is not marked has its worktree and branch, wherever
  a deletion failed or was killed.
* `DeletedWorkKept`: what was committed or written in a session stays on main, in
  a branch, a worktree, the stash, or under a ref - but for what is `late`, which
  nothing in the code keeps.
* `DeletionCompletes`: a marked session does not stay so, if it is deleted again.

Of membership:

* `PidMovesForward`: the pid in a row is never replaced by that of an agent that
  bound its control socket earlier, however late a registration is sent or handled.
* `LiveAgentsConnected`: an agent that goes on running is connected again and
  again, whatever late goodbye, late sweep or long sync marked it disconnected.
* `DeadAgentsNoticed`: a session without an agent does not stay connected.
* `ObservedSettles`: what is recorded of main ends up as main, although two
  threads write it.

Of sockets:

* `OneReachable`: the server that serves is the one that clients reach, and the
  only one, unless starts and stops meet.
* `RefusedOnlyByAnother`: no leftover refuses a start, but for a half-written
  pointer file.

Of the remote:

* `BackOnlyWhenOvertaken`: the remote's main goes back only by a push that another
  one overtook.
* `RemoteCatchesUp`, `BackupsReachRemote`: if syncs go on to succeed, the remote
  ends up with the local main and every backup.
* `CleanedUp`: a deletion without a warning has left its backup at the remote, and
  no branch, unless the session was synced or joined beside it.

### 3.2 Passing runs

| Run | What happens in it | Checked |
|---|---|---|
| `Core` | requests of two sessions, every failure and refusal, an external commit, rows of an earlier version (idle states it had, no `last_seen_main`), developers and Codex at work in the worktree being synced | `TypeOK`, `LastSeenReflected`, `LockTaskConsistent` |
| `Progress` | requests, developers and Codex, under fairness | `FusingOnMain`, `RequestsFinish`, `LockReturned` |
| `Restart` | the daemon dies twice, also while it recovers; an external commit | `LastSeenReflected`, `TaskHoldsLock`, `ActiveTaskRecoverable`, `NoWorkLost`, `AckedWorkPublished` |
| `Serial` | a crash, a join, a failing backup, rows of an earlier version, worktrees touched; main is not checked out, so it is moved by two commands | `SerialInv`, `SerialMainSpec`, `MainForward` |
| `SecondDaemon` | a second daemon, a crash, a join and a failing backup | `NoWorkLost` |
| `Startup` | recovery from 2 rows in any state, with or without tasks, a lock for the row's task or another, task files, refs and unfinished work there or not; one crash | `LockTaskConsistent`, `DaemonComesUp`, `NoWorkLost` |
| `Delete` | one session: a deletion that may fail, be killed or be repeated, a request of the session, a developer who works on until the worktree is gone, an external commit, a join, an agent that comes and goes; also a session without a row | `DeleteTypeOK`, `LockHolderPresent`, `SessionsWhole`, `DeletedWorkKept`, `DeletionCompletes` |
| `Loop` | two agents of one session one after the other or one beside the goodbye of the other; a backlog of two; a stop of the daemon or a deletion; syncs that publish, commits from outside | `TypeOK`, `PidMovesForward`, `LiveAgentsConnected`, `DeadAgentsNoticed`, `ObservedSettles` |
| `Remote` | two sessions, two pushes at once that fail, race and overtake each other, a deletion, a join after it | `TypeOK`, `CleanedUp`, `BackOnlyWhenOvertaken`, `RemoteCatchesUp`, `BackupsReachRemote` |
| `Socket` | three servers, all with the path itself or all with a pointer file and either of two temporary directories, killed and started without bound | `TypeOK`, `OneReachable`, `RefusedOnlyByAnother` |

The state spaces have between 45 000 and 1.4 million distinct states, and paths of
up to 88 steps.

What a run leaves out, it leaves out because the property is false with it, and
section 3.5 says how: `LockTaskConsistent` without crashes and joins (from
`Startup` on, without a failing backup), `NoWorkLost` and `AckedWorkPublished` with
developers who leave a worktree alone while it is synced, `LastSeenReflected`
without a join, `FusingOnMain` without crashes, `MainForward`
with nobody else on main, `SerialMainSpec` with one daemon and nobody else on main,
`DeletedWorkKept` with one deletion at a time, and not of what is `late`.

`MainForward` is checked where main is moved by two commands: the candidate is
compared with main (git.py:104) and main is forced to it (git.py:109) in two steps,
between which requests, a join, a crash and a restart can come. With main checked
out `git merge --ff-only` does both at once.

### 3.3 Bounds

Two sessions: the lock is held by one or the other, and main moves under a
session because the other one published. `MaxTasks` identifiers: a request takes
at most two (a direct publish that yields, then a task), and is only accepted
while two are left; 3 or 4 give two or three requests that start something, and
`fusion_done`, catch-up and refused requests take none and are not bounded.
`MaxEdits`: two edits let both sessions have work, which
is what makes a task necessary; three let one session have work before and after
its snapshot. One external commit moves main between any check and its use. Two
crashes let the daemon die while it recovers from the first one. One second
daemon, one join and one failing backup suffice for the case that each of them
is there for. All the bounds are conjuncts of guards and are checked by `Usage`
in `TypeOK`.

`Delete` has one session and one deletion: a session's worktree, branch, row and
agent concern no other session, and what two deletions share, the stash, is the
question of `StashRace`. What two deletions do to the row and the worktree is left to
the theorems of section 4 that are for any number of them (`Delete.cfg` with
`Deleters = {d1, d2}` and the invariants alone passes too). `MaxEdits` 1 is an edit
before the backups or behind them, and either may be committed before or behind; the
theorem is for any number of both together. `MaxDeleteFails` 1 and
unbounded repetition give a failed deletion and those that clean up after it. In `Loop`, a backlog of 2 is full when
a heartbeat waits behind a sync, and also lets a registration and a goodbye wait
together; two processes are the one that is late and the one that matters;
`MaxIncidents` 1 allows a restart or a deletion, and the combination of the two
adds no writer of a row that is not there with one. `MaxCommits` 2 is a
publication between two reads of main, and a commit after. In `Remote`, one
publication is enough for an old and a new main, and one deletion for a backup
that a sync carries; `Socket` has no bound: its state space is finite, and three
servers are a stale one, its successor and a competitor.

`CHECK_DEADLOCK FALSE`: a system without requests rests, and so does the model
once the bounds are used up. `Progress` and `Startup` show that it does not rest
in the middle of a request or of a recovery. `Socket` and `Remote` check for deadlock.

### 3.4 Fairness

`FairSpec`: the handler thread and a recovery go on while they can
(`WF(HandlerStep)`, `WF(RecoveryStep)`). Both are threads of straight-line code
whose waits have timeouts, so this is what the scheduler gives.

`DiligentSpec`, for `LockReturned`, adds what the lock depends on and no code can
enforce: whoever has a task commits, makes a candidate, writes a report and asks
for publication again and again (`WF`), and Git and the main worktree do not
object forever (`SF` of `CheckCandidate`, of a `Preflight` that goes on, and of
`ForwardMain`). The strong fairness is needed because a request can be refused at
each of these places and be repeated. Without diligence the lock stays taken as
long as Codex likes, as the documentation says.

`DaemonComesUp` assumes that a daemon which is down is started and not kept from
running (`WF(~up /\ (Boot \/ RecoveryStep))`), and lets it die on the way.

`FairDeleteSpec`, for `DeletionCompletes`: the request under way and the deletion
under way go on. Whoever finds a session marked closes its agent and runs
`cocodex delete` again, as the failure texts ask (delete.py:225-229). This is
needed: a deletion that was killed is finished by nobody else, and a row that is
marked while an agent runs (because a retried deletion gave back the state it had
read, which was `deleting`) refuses deletion until the agent is closed.

`DaemonLoop!FairSpec`: the two threads of the daemon run, agents send heartbeats,
time passes. Nothing makes an agent register again, a client retry or a stopped
daemon start; the properties say `<>[]up` where they need it.

`RemoteSync` has no fairness: a network promises nothing. Its two liveness
properties have their premise in the formula, `[]<><<Succeeds>>`: pushes of syncs
succeed again and again.

### 3.5 Violations

Each of these two runs checks a sentence of the documentation that the code does
not keep. The quotations are in `PROJECT.json`, under `findings`.

| Run | What TLC shows |
|---|---|
| `CrashLeaksLock` | a direct publish takes the lock (daemon.py:477) and writes its row (daemon.py:492) in two transactions; if the daemon dies in between, recovery skips the clean row and no restart releases the lock |
| `StashRace` | two deletions push their stashes before either reads `refs/stash` (delete.py:379): both refs are made for the second stash, both drop what is on top, and the uncommitted work of the first session is under no ref |

TLC shows more of them when a run of section 3.2 is given other constants. The
constants below are those that are not 0; sessions are `{alice, bob}`,
`MainCheckedOut` and `QuietDeveloper` are TRUE and `LegacyRows` is FALSE unless
said otherwise, the specification is `SyncDaemon!Spec`, and there is no deadlock
check.

| Property, constants | What TLC shows |
|---|---|
| `LastSeenReflected`, MaxTasks 4, MaxEdits 2, MaxCrashes 1, MaxJoins 1 | join checks the lock and then writes the row it read earlier (session.py:281): a task that was published meanwhile comes back to the row, without a lock; after a restart, recovery resets the worktree to the old snapshot, which lacks the main that `last_seen_main` names |
| `FusingOnMain`, MaxTasks 4, MaxEdits 2, MaxCrashes 1 | a failed start restores the worktree first and releases the lock second (daemon.py:774-775); a restart in between resumes the task in a worktree without main, whose candidates are all refused |
| `NoWorkLost`, MaxTasks 4, MaxEdits 3, QuietDeveloper FALSE | the agent acknowledges `freeze` and freezes nothing: an edit after the snapshot is reset away (daemon.py:647, 614) |
| `AckedWorkPublished`, MaxTasks 3, MaxEdits 2, QuietDeveloper FALSE | the direct publish reads the head before it looks for uncommitted changes: a commit in between is answered "already synced" and is not on main |
| `SerialMainSpec`, MaxTasks 3, MaxEdits 2, MaxSecond 1 | a second `cocodex daemon` recovers, and gives away the lock of a request that goes on, before it finds the socket in use |

Three smaller ones. With `MainCheckedOut = FALSE` and
`MaxExternal = 1`, `MainForward` is false: `ensure_fast_forward` and `branch -f`
(git.py:104, 109) are two commands, and a commit on main in between is dropped.
With `MaxJoins = 1` alone, `LockTaskConsistent` is false (the first half of
the first row above). And a session with a task is not always `fusing` between
requests, as `src/docs/DEV.md:405` has it: refusals after the checks have begun
leave the row `verifying` or `publishing` (daemon.py:932-940), which the next
request and the next restart repair.

Each assumption of a theorem of section 4 that a constant is 0, or a switch TRUE, is
one of these refutations, most of them in a few seconds with MaxTasks 4 and MaxEdits 2:

| Property | Refuted with any of |
|---|---|
| `SerialInv` | MaxSecond 1; MainCheckedOut FALSE, MaxExternal 1 |
| `SerialMainSpec` | MaxSecond 1; MaxExternal 1 |
| `MainForward` | MainCheckedOut FALSE, MaxExternal 1 |
| `TaskHoldsLock` | MaxSecond 1; MaxJoins 1; MaxBackupFails 1, MaxCrashes 1 |
| `LockTaskConsistent` | MaxSecond 1; MaxJoins 1; MaxCrashes 1 |
| `ActiveTaskRecoverable` | MaxBackupFails 1, MaxCrashes 1; MaxSecond 1, MaxCrashes 1 |
| `FusingOnMain` | MaxSecond 1; MaxJoins 1; MaxCrashes 1; MaxExternal 1 |
| `NoWorkLost` | QuietDeveloper FALSE, MaxEdits 3 |
| `AckedWorkPublished` | MaxSecond 1; QuietDeveloper FALSE |
| `LastSeenReflected` | MaxSecond 1; MaxJoins 1, MaxCrashes 1 |

The failing backup is worth a word. A direct publish holds the lock for a task that never
has a file. If the daemon dies in it, the recovery cannot resume that task and backs the
worktree up to clear it; if the backup fails, the recovery leaves the session `fusing` on
a task without file or refs (daemon.py:326-340), until a later start can back it up.
A second daemon can leave the same behind: it lists the rows, a request of the first takes a task, the first
dies, and the second, which has not seen that task, finds the socket free and serves.

What the newer modules leave out of their properties, or exclude by `overlap`, `late`,
`crowded`, `raced` and `beside`, is false for these reasons:

* Nothing keeps a developer or Codex out of a worktree that is being deleted. The
  deletion looks at it once: the backup of the head is made from what was read
  before (delete.py:101-105), and there is one look for uncommitted changes and one
  stash (delete.py:107-108). What is committed behind the former goes with the branch,
  what is edited behind the latter with `git worktree remove --force`
  (delete.py:127). So `DeletedWorkKept` without `\ late` is false, in `Delete` as it is.
* A deletion refuses a session whose process lives (`README.md:239`,
  `docs/DEV.md:425`, in `src/`) when it looks at it (delete.py:288-296). Its claim looks at
  `connected` alone (state.py:343): an agent that registered in between and was
  marked disconnected again, by its own goodbye or by a late sweep, is alive when
  its worktree is removed.
* A deletion that fails after `git stash push` and before its ref is made counts as
  one that has changed nothing (delete.py:108-109): the row gets its state back,
  the worktree has been emptied, the work is in the stash.
* A request that comes between the looks and the end of a deletion writes over the
  mark (state.py:376, daemon.py:492), and a deletion that gives its claim back
  writes over the row of a task. A join between the two keeps its row and loses its
  worktree, or makes a row that the deletion then removes.
* Two deletions of one session: the first reads the row, the second marks it and
  removes the worktree, the first finds it gone, fails, and gives the row the
  unmarked state it had read (delete.py:150).
* A daemon that starts lists the rows with a state of an earlier version, and
  writes `clean` to each (daemon.py:284-301): a deletion that has claimed such a row
  meanwhile loses its mark, and if it is then killed, the row says that a session is
  whole whose worktree is gone.
* A session is registered with the main of that moment, and its branch made from
  the main of an earlier one (session.py:41, 73).
* A registration that is handled late makes the row of a deleted session again.
* A row that is deleted between the sweep's list and its mark ends the main loop
  and with it the daemon (daemon.py:204, `ValueError`).
* An agent that joined while the daemon was down is connected by its heartbeats
  and has no pid: a deletion takes its row for a stale one.
* The watch of main may report a publication of the daemon's own as external.
* Two servers that start at once: the one whose `bind` fails removes the socket of
  the other (transport.py:121); one between `bind` and `listen` refuses connections
  and loses its socket (transport.py:169). One that stops with a pointer file removes
  the pointer of its successor (transport.py:221). A pointer file that was opened and
  not written when the process was killed refuses every later start
  (transport.py:234) until somebody removes it.
* A push that read the local main and was overtaken by a newer one takes the
  remote's main back, until the next sync.

## 4. The proofs

The four modules about `SyncDaemon` (`SyncTypeProofs`, `SyncSerialProofs`,
`SyncTaskProofs`, `SyncWorkProofs`) and `SessionDelete` (`SessionDeleteProofs`), each of
which builds on the one before, are for any set of sessions and any value of the bounds, from `ConstantsAssumption` (bounds
are natural numbers, `NoSession` is no session, switches are Booleans). Some theorems
assume that a bound is 0: that the daemon does not crash, that nobody joins, and so
on. They assume no more than they need: for each of these assumptions section 3.5
names the constants with which TLC refutes the property without it.

**`TypeCorrect`** (`SyncTypeProofs`): `Spec => [](TypeOK /\ Shape)`. `TypeOK` alone
is not inductive: a step that updates the row of `req.cur`, or names a new task,
needs to know that a request under way has a session, has a task once it has
taken one, and has not more identifiers to take than are left. `Shape` says so,
and the like for a recovery. One lemma for each elementary operation, one for
each process, one case for each action.

**`SerialInvariant`** (`SyncSerialProofs`): `[]SerialInv`, if `MaxSecond = 0`, and main
is checked out in the repository root or nobody else moves it
(`MainCheckedOut \/ MaxExternal = 0`). Four parts need each other: `RequestsAlone`
(requests and recoveries never run side by side) is why nobody else writes the lock,
so `HandlerHoldsLock` (between taking the lock and giving it back, the handler holds
it for the session and task it works on) is kept by recoveries and by join;
`CandidateIsOwn` (the candidate under way is in the session's branch) holds
because nothing shortens the branch meanwhile, and `ForcedForward` (where main is
forced, it is forced forward) because nobody can move a main that is checked out
between the check and the move.

**`ImplementsSerialMain`**: `Spec => SerialMainSpec`, if `MaxSecond = 0` and
`MaxExternal = 0`. Initial states map to initial states. A step that takes
the lock is `Acquire`, one that gives it back is `Release`, one that moves main
is `Publish` (by `HandlerHoldsLock`, `CandidateIsOwn`, and the check or
`ForcedForward`), one that moves a session's branch is `Move`, and all others
stutter. The assumptions cannot be dropped: see the second daemon of section 3.5; and
an external commit is a move of main without an owner.

**`MainMovesForward`**: `Spec => MainForward`, if main is checked out in the
repository root or nobody else moves it - whatever crashes, joins and second
daemons there are. It only needs `ForcedForward`, which is inductive by itself
together with the shape of requests.

**Between requests** (`SyncTaskProofs`). Four properties speak of moments at which
nothing is under way. None is inductive: each needs what holds at every step of a
request, of a recovery, and of the other sessions meanwhile.

| Theorem | Property | Assumes 0 | Inductive with |
|---|---|---|---|
| `TasksHoldTheLock` | `TaskHoldsLock` | `MaxSecond`, `MaxJoins`, `MaxBackupFails` | `TaskInv`: what task the row of the request's session has at each step, and under which lock; that the rows and the lock a recovery has read are still as it read them, for the sessions still to do; that those it has done hold the lock for their task or have none |
| `LockAndRowsAgree` | `LockTaskConsistent` | `MaxSecond`, `MaxJoins`, `MaxCrashes` | `LockInv`: a lock is for the task in its owner's row, or is the request's own; without a crash a starting daemon finds neither lock nor task |
| `TasksAreRecoverable` | `ActiveTaskRecoverable` | `MaxBackupFails`, and `MaxSecond` or `MaxCrashes` | `FilesInv`: a task file is written after both refs of its task; a row's task has its file, unless a request has yet to write it, or a recovery has yet to look at the row; and a join writes back no task without a file. It says nothing of the lock, so joins do no harm, nor do crashes of the only daemon, nor a second daemon that does not outlive the first (`NextFiles`) |
| `TasksAreOnMain` | `FusingOnMain` | `MaxSecond`, `MaxJoins`, `MaxCrashes`, `MaxExternal` | `LockInv` and `MainInv`: what a request that holds the lock has read as main is main (by `TasksHoldTheLock` nobody else publishes), and the head given to Codex contains it |

**What becomes of work** (`SyncWorkProofs`).

*`WorkIsNotLost`*: `Spec => NoWorkLost`, if developers leave a worktree alone while it
is synced - with any number of crashes, joins, second daemons, failing backups and
commits on main by others. Nothing but main, the branches and the refs can lose work.
Main can lose something, if it is not checked out: what others commit between the check
and `branch -f` (section 3.5). `FirmMain` is the part of main that stays; it only grows
(`NextFirm`), and only commits of others are outside (`ForcedKeepsWork`). A worktree
is only reset when `SavedWorktrees` has it: what people and Codex wrote in it is on
main or below a snapshot or backup ref. `WorkInv` says at which steps of a request and
of a recovery that is so. It does not depend on the lock, which is why a second
daemon does no harm here.

*`AcknowledgedWorkIsPublished`*: `Spec => AckedWorkPublished`, with one daemon besides.
`AskedInv` follows the work that the worktree held when the request arrived through
the candidate, the snapshot or main, step by step.

*`SeenMainIsReflected`*: `Spec => []LastSeenReflected`, with one daemon, whoever else
moves main, and either without joins or without crashes (with both TLC refutes it):
what a session has seen is in `FirmMain` (`SeenStays`). The branch of a session goes
back in two places only, the undoing of a failed start and the recovery of a task that
cannot be resumed, both to the snapshot of the task, which has to contain the
`last_seen_main` of the session. There is an invariant for each case.
Without joins, `SeenInv` says it of each session and task that anybody could still
restore: by its row, the lock, the request, or what a recovery has read. For this a
task identifier must belong to one session and must not have been used before
(`IsTaskOf`, `TaskIds`, which is proved first, for any behaviour). A join breaks that,
as it can bring back a task that was published long ago. Without crashes it need not
hold: a recovery runs once, before any task is given (`RestoresNothing`), and the
request undoes only the task it has given the session itself (`MergeCovers`), so the
tasks that rows name do not matter. That is `CalmInv`.

**`LoopTypesCorrect`, `PidsMoveForward`** (`DaemonLoopProofs`) need no assumption but those on
the constants. `TypeOK` types every variable (`StateTypes`) and says what the handler thread,
the main loop and a deletion carry from one step to the next (`LoopShape`): a registration at
hand or in the queue names a process, and neither thread is about to record a main that has
never been. Neither part is inductive without the other. The order of the pids in rows
(`PidMovesForward`, an action property) needs that of the registrations at hand and in
the queue, in the order in which they wait, and that of the agents: `PidOrder`. As an agent
registers some time after it has started, its parts are that agents start in the order of
their pids (`StartInOrder`), that one which has not registered yet is the last of its session
(`LastStarts`), and that rows (`RowOrder`) and registrations (`QueueOrder`) name agents
that have started, in this order.

**`DeleteTypesCorrect`, `SessionsStayWhole`, `LockHoldersArePresent`, `DeletedWorkIsKept`**
(`SessionDeleteProofs`) are for any sessions, any number of failures and joins, rows of
earlier versions and, but for the last one, any number of deletions at a time; here too no bound is assumed to be 0, as
`SessionDelete` has neither crashes nor second daemons. The request steps are those of
`SyncRequest`, of which only what they write is needed: the row of their own session,
and never the mark (`WritesOwnRow`).

*Wholeness.* `SessionsWhole` is kept by what follows it through a deletion:
while nothing of what `overlap` remembers has happened, a deletion past its claim finds
the mark (`MarkedUnderWay`); one that would give an unmarked row back has the session
whole before it, until it admits to have mutated something (`GivesBackWhole`, which is
where the late `mutation_started` does no harm: stashing removes neither worktree nor
branch); a join that will make a row has made the worktree (`AddingWhole`); and what a
request or a recovery writes a row over is not marked (`RequestsUnmarked`,
`RecoversUnmarked`). That proof is where the two cases of section 3.5 about a second
deletion and a booting daemon came from: without them in `overlap` the invariant is
not kept.

*The holder of the lock.* `claim_integration_task` overwrites the mark, so the mark is no
argument here. What is: a session that is `Needed` - its agent is known, its row or the lock
says that it is on a task - is there, and no deletion of it is past the claim
(`NeededAreThere`). A deletion cannot claim a needed session, as its claim looks at the
lock, the task and `connected`; a request makes its session needed only by a step that
has found the agent known and the worktree there, and gives up otherwise; in between
(`Busy`) its row and lock are not counted.

*The work of a deleted session.* `DeletedWorkIsKept` assumes a developer who leaves a
worktree alone while it is synced, and one deletion at a time: `StashRace` refutes the
property with two. What requests, developers and writers of main keep is the argument of
`WorkIsNotLost` again (`TaskIds`, `WorkInv`); a request that finds its worktree or row gone
(`Hindered`) keeps it too, which is a lemma of its own. What a deletion keeps is `KeepInv`:
what it is about to drop from the stash has a ref (`StashSaved`), a worktree that is about
to go has nothing uncommitted, and a branch that is about to go has nothing but what is
under a ref or on main (`DeletionSaves`), in both cases but for what is `late`. That lasts
from one effect of a deletion to the next because whoever else reaches into the worktree
leaves something `late` and nothing else (`RememberedLate`): requests and developers behind
the backups, while a join reaches into none that has a branch. Nothing assumes that
developers stop working on a session that is being deleted. Where nothing is, nothing may be lost when a join makes it anew
(`HomesEmpty`).

**`SocketTypes`, `ServerReachable`, `StaleFilesDoNotRefuse`** (`SocketProofs`) are for any
set of servers and of temporary directories, from `SocketAssumption` (the paths and
the two special values are different things). `OneReachable` is not inductive: it
needs, as long as `crowded` is FALSE, that at most one server is in the way of
others at any time (`OneInTheWay`), that nobody listens beside one that is past its
look (`OneTakesThePath`), that nothing appears at the path between the look and
`bind` (`NobodyFaster`), and that whoever listens owns the files it will be reached
by (`OwnFiles`). Leftovers of killed servers
are allowed everywhere else. `RefusedOnlyByAnother` follows for each action that
refuses: a probe that is answered is answered by a server that listens, a `bind`
that fails found a file that only another start can have made.

**`RemoteTypes`, `DeletionCleansUp`, `GoesBackOnlyWhenOvertaken`** (`RemoteProofs`)
are for any sessions, any number of pushes at once and any bounds, from
`RemoteAssumption` (an absent branch is no commit; the bounds are naturals). The
invariant is `IInv`: a push under way has what its steps need (`PushShape`); a push
that nobody has overtaken has read a main no older than the remote's (`InOrder`),
which makes `BackOnlyWhenOvertaken` a matter of the one action that updates main;
the session of a deletion has no local branch and no push under way unless the
deletion says so (`Alone`), without which a push could bring the branch back after
its removal; and what the deletion has not warned of is done (`Done`).

Only model-checked: the liveness properties (`RequestsFinish`, `LockReturned`, `DaemonComesUp`,
`DeletionCompletes`, `LiveAgentsConnected`, `DeadAgentsNoticed`,
`ObservedSettles`, `RemoteCatchesUp`, `BackupsReachRemote`), which are out of reach of the
installed provers, as everything is that depends on `ENABLED`, and induction over data.
Every other invariant and action property of the runs is a theorem. No module declares
a recursive operator.

## 5. Abstractions

* A Git command and a database transaction are atomic. The read of the lock in
  `claim_integration_task` precedes its transaction: what can come in between is
  a claim of a deletion, which does not write the lock; so it makes no difference
  which of the two comes first. A crash inside a Git command (a leftover
  `MERGE_HEAD`) is not modelled.
* `register_session` and the `update_session_runtime` that follows it are one step.
* In `SessionDelete` the stash, the refs below `refs/cocodex/deleted/` and the
  branches are the work they hold. Ignored files, unfinished Git operations,
  branches that are checked out elsewhere and an unexpected layout refuse a
  deletion before its claim and are left out. Recovery after a crash is composed
  with requests in `SyncDaemon`, not with deletion.
* The look for uncommitted changes and `git stash push` are one step of a deletion.
* A daemon reads the lock and the rows of its recovery in one step (`StartRecovery`). The
  code reads one after the other (daemon.py:209-210). Nothing but requests and
  recoveries writes the lock, so this differs only for a second daemon beside
  one that serves.
* In `DaemonLoop` one agent of a session holds the control socket at a time. What the
  socket excludes, and what it does not when two starts meet or temporary directories
  differ, is the subject of `SocketPath`.
* In `DaemonLoop` a client that finds no daemon or a full backlog is not heard (a
  heartbeat that times out in the queue is still handled, as in the code). The
  times, 0.5, 2, 30 and 120 seconds, are nondeterministic. A request that a client
  has given up goes on, which is why no model has clients that wait for a sync.
* In `SocketPath` a full backlog ends a start as an answer would: the probe's
  `BlockingIOError` is not one of those that count as refused (transport.py:180-183).
  `git push` and the remote in `RemoteSync` are external, as `git` is everywhere.
* Commands that may fail for reasons outside the model (conflicts, `diff
  --check`, hooks, a dirty main worktree, unsafe Git state, an agent that is not
  connected, refuses or answers late) fail nondeterministically, with what the
  code then does. Reads are assumed to succeed, and so are database writes.
* `dirty` is uncommitted work that `git reset --hard` discards. Untracked files
  survive a reset and are not modelled.
* A request that is refused before its first effect is a stuttering step, unless
  it has normalised the row or the baseline on the way. The client reads
  `active_task` and a request for another task is refused without effect.
* `sync --force` discards changes in the main worktree, which is no part of the
  model; it makes `Preflight` and the like more likely to succeed.
* A `start_fusion` that the agent has carried out but whose answer is lost is
  `StartFails` at `"prompt"`; Codex may act on the prompt only while the row
  still has the task.
* Backup refs only accumulate; their names, unique up to the second, do not
  collide.
* Sessions are recovered in any order, where the code takes them by name.
* Task files and reports exist or not; Codex does not remove them. `MCStartup`
  has states in which somebody has.

Not modelled: the legacy queue (pruned at every start, never filled), events,
comparison of agent versions (a mismatch refuses a request or a registration like
any other refusal), collisions of backup refs made in the same second, the guard
hooks (two shell conditions on an environment variable; `ExternalMain` stands for a
main that is written all the same), configuration, protocol encoding, status and
failure texts.

## 6. Plan

What section 2 calls modelled is modelled, and every invariant and action property
of the runs is a theorem. Liveness stays with TLC (section 4).

One specification was considered and left out: an abstract membership, connected
exactly while some agent's last word was not a goodbye. The code does not keep it at
any single moment, only in the end, and that is `LiveAgentsConnected` and
`DeadAgentsNoticed`.
