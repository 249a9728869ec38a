------------------------------ MODULE SyncState ------------------------------
(***************************************************************************)
(* The state that a Cocodex project keeps, and the elementary writes to it *)
(* (state.py, git.py, tasks.py).  Everything here except req and rec is    *)
(* durable: Git refs and worktrees, files below .cocodex/, and the SQLite  *)
(* database that the daemon and the command-line processes share.          *)
(***************************************************************************)
EXTENDS GitCommits, FiniteSets

CONSTANTS
    Sessions,        \* names of the developer sessions
    NoSession,       \* no owner, no current session
    MaxTasks,        \* bound: task identifiers ever created
    MaxEdits,        \* bound: changes developers make
    MaxExternal,     \* bound: commits made on main outside Cocodex
    MaxCrashes,      \* bound: times the daemon process dies
    MaxSecond,       \* bound: times a second daemon is started
    MaxJoins,        \* bound: `cocodex join` runs that read a task row
    MaxBackupFails,  \* bound: backups Git refuses to make
    QuietDeveloper,  \* a developer leaves a worktree alone while it is synced
    MainCheckedOut,  \* the repository root has the main branch checked out
    LegacyRows       \* the database may come from an earlier version

ASSUME ConstantsAssumption ==
    /\ NoSession \notin Sessions
    /\ {MaxTasks, MaxEdits, MaxExternal, MaxCrashes, MaxSecond, MaxJoins,
         MaxBackupFails} \subseteq Nat
    /\ {QuietDeveloper, MainCheckedOut, LegacyRows} \subseteq BOOLEAN

VARIABLES
    main,         \* head of the main branch
    head,         \* head of each session's branch and worktree
    dirty,        \* atoms of uncommitted work in each session's worktree
    snapshotRef,  \* refs/cocodex/snapshots/<task>
    baseRef,      \* refs/cocodex/bases/<task>
    backups,      \* commits kept by refs/cocodex/backups/...
    taskFiles,    \* tasks whose file .cocodex/tasks/<task>.md exists
    reports,      \* tasks whose validation report exists and is filled in
    row,          \* sessions table: state and active_task
    lastSeen,     \* sessions table: last_seen_main
    lock,         \* locks table: the integration lock
    up,           \* the daemon serves requests
    req,          \* the request the daemon's handler thread is working on
    rec,          \* a startup recovery in progress
    joining,      \* a `cocodex join` process in progress
    used          \* what the environment has used of its bounds

gitVars  == <<main, head, dirty>>
refVars  == <<snapshotRef, baseRef, backups>>
fileVars == <<taskFiles, reports>>
dbVars   == <<row, lastSeen, lock>>
vars == <<main, head, dirty, snapshotRef, baseRef, backups, taskFiles, reports,
          row, lastSeen, lock, up, req, rec, joining, used>>

-----------------------------------------------------------------------------

Task == 1 .. MaxTasks
NoTask == 0
MaybeTask == Task \cup {NoTask}
MaybeSession == Sessions \cup {NoSession}

READY_TO_INTEGRATE_STATES == {"clean", "dirty"}
ACTIVE_INTEGRATION_STATES == {"frozen", "snapshot", "fusing", "verifying", "publishing"}
LEGACY_IDLE_STATES == {"blocked", "recovery_required", "queued"}
LEGACY_RECOVERY_STATES == LEGACY_IDLE_STATES \cup ACTIVE_INTEGRATION_STATES
SessionState == READY_TO_INTEGRATE_STATES \cup LEGACY_RECOVERY_STATES \cup {"deleting"}

Row == [state : SessionState, task : MaybeTask]
NoLock == [owner |-> NoSession, task |-> NoTask]
Lock == {NoLock} \cup [owner : Sessions, task : Task]
LockOf(s, t) == [owner |-> s, task |-> t]

\* Everything in the worktree of s, committed or not.
Work(s) == CommitOf(head[s], dirty[s])

\* transition_session: one UPDATE of state and active_task, whatever they were.
TransitionSession(s, state, task) ==
    row' = [row EXCEPT ![s] = [state |-> state, task |-> task]]

\* update_last_seen_main
UpdateLastSeenMain(s, commit) == lastSeen' = [lastSeen EXCEPT ![s] = commit]

\* reset_hard: the branch and the worktree are at commit, tracked changes gone.
ResetHard(s, commit) ==
    /\ head' = [head EXCEPT ![s] = commit]
    /\ dirty' = [dirty EXCEPT ![s] = {}]

\* add_all and commit in the worktree of s.
CommitAll(s) ==
    /\ head' = [head EXCEPT ![s] = Work(s)]
    /\ dirty' = [dirty EXCEPT ![s] = {}]

\* _restore_task_snapshot_if_possible: no snapshot ref, or a reset that fails,
\* leaves the worktree as it is, and nobody is told.
RestoreTaskSnapshotIfPossible(s, task) ==
    \/ /\ snapshotRef[task] # NoCommit
       /\ ResetHard(s, snapshotRef[task])
    \/ UNCHANGED <<head, dirty>>

\* Mutant: the owner is cleared, the task of the lock is forgotten there.
ReleaseLockIfOwned_KeepsTask(s, task) ==
    lock' = IF lock = LockOf(s, task) THEN [lock EXCEPT !.owner = NoSession] ELSE lock

\* _release_lock_if_owned
ReleaseLockIfOwned(s, task) ==
    lock' = IF lock = LockOf(s, task) THEN NoLock ELSE lock
=============================================================================
