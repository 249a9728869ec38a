---------------------------- MODULE SyncRecovery ----------------------------
(***************************************************************************)
(* Startup recovery of incomplete tasks (recover_incomplete_sessions,      *)
(* daemon.py), which every starting daemon runs before it tries to listen, *)
(* and the same repair done by `cocodex join` (session.py) in a process of *)
(* its own.  Both decide from rows and a lock they read earlier and then   *)
(* write the row whatever it has become.                                   *)
(***************************************************************************)
EXTENDS SyncRequest

NotRecovering == [pc |-> "off", todo |-> {}, cur |-> NoSession, lock |-> NoLock,
                  rows |-> [s \in Sessions |-> [state |-> "clean", task |-> NoTask]]]

Recovery == [pc : {"off", "scan", "restore", "unlock", "clean"}, todo : SUBSET Sessions,
             cur : MaybeSession, lock : Lock, rows : [Sessions -> Row]]

NotJoining == [pc |-> "off", cur |-> NoSession, task |-> NoTask]

Joining == [pc : {"off", "check", "write"}, cur : MaybeSession, task : MaybeTask]

Scanning == rec.pc = "scan"
GotoRecovery(pc) == rec' = [rec EXCEPT !.pc = pc]

\* Mutant: the session is looked at again and again.
NextSession_Again(s) == rec' = [rec EXCEPT !.pc = "scan", !.cur = NoSession]

\* One session of the scan is done.
NextSession(s) ==
    rec' = [rec EXCEPT !.pc = "scan", !.todo = @ \ {s}, !.cur = NoSession]

-----------------------------------------------------------------------------

\* Mutant: the daemon listens before its recovery is over.
StartRecovery_Listens ==
    /\ rec = NotRecovering
    /\ rec' = [rec EXCEPT !.pc = "scan", !.lock = lock, !.rows = row,
                          !.todo = {s \in Sessions : row[s].state \in LEGACY_RECOVERY_STATES}]
    /\ up' = TRUE
    /\ UNCHANGED <<gitVars, refVars, fileVars, dbVars, req, joining>>

\* The lock and the rows are read once; sessions at rest are skipped.
StartRecovery ==
    /\ rec = NotRecovering
    /\ rec' = [rec EXCEPT !.pc = "scan", !.lock = lock, !.rows = row,
                          !.todo = {s \in Sessions : \/ row[s].state \in LEGACY_RECOVERY_STATES
                                                     \/ row[s].task # NoTask}]
    /\ UNCHANGED <<gitVars, refVars, fileVars, dbVars, up, req, joining>>

\* `cocodex daemon` after the daemon has stopped.
Boot == ~up /\ StartRecovery /\ UNCHANGED used

\* `cocodex daemon` beside a daemon that is running: it finds the socket in
\* use and exits, but only after its recovery.  If the first has died by then it serves.
SecondDaemon ==
    /\ up /\ used.seconds < MaxSecond
    /\ used' = [used EXCEPT !.seconds = @ + 1]
    /\ StartRecovery

OwnsLock(s) == rec.lock.owner = s

\* Mutant: the row alone says what to recover, not the lock.
TaskToRecover_OfRow(s) == rec.rows[s].task

TaskToRecover(s) == IF OwnsLock(s) THEN rec.lock.task ELSE rec.rows[s].task

\* The lock names another task than the row, and that task can be resumed.
TaskMismatch(s) ==
    /\ OwnsLock(s)
    /\ rec.rows[s].task \notin {NoTask, rec.lock.task}
    /\ rec.lock.task \in taskFiles

\* Mutant: a task is resumed without its file.
Resumable_WithoutFile(s) == OwnsLock(s) /\ TaskToRecover(s) # NoTask

\* Mutant: a task is resumed whoever holds the lock.
Resumable_WithoutLock(s) == TaskToRecover(s) # NoTask /\ TaskToRecover(s) \in taskFiles

Resumable(s) == OwnsLock(s) /\ TaskToRecover(s) # NoTask /\ TaskToRecover(s) \in taskFiles

\* Mutant: only what is committed is backed up.
CreateBackupRef_HeadOnly(s) == backups' = backups \cup {head[s]}

\* create_backup_ref: a stash commit of the whole worktree, which is left as is.
CreateBackupRef(s) == backups' = backups \cup {Work(s)}

AdoptLockTask(s) ==
    /\ Scanning /\ s \in rec.todo
    /\ TaskMismatch(s)
    /\ CreateBackupRef(s)
    /\ TransitionSession(s, "fusing", rec.lock.task)
    /\ NextSession(s)
    /\ UNCHANGED <<gitVars, snapshotRef, baseRef, fileVars, lastSeen, lock, up, req, joining, used>>

ClearIdleRow(s) ==
    /\ Scanning /\ s \in rec.todo
    /\ TaskToRecover(s) = NoTask
    /\ TransitionSession(s, "clean", NoTask)
    /\ NextSession(s)
    /\ UNCHANGED <<gitVars, refVars, fileVars, lastSeen, lock, up, req, joining, used>>

ResumeTask(s) ==
    /\ Scanning /\ s \in rec.todo
    /\ ~TaskMismatch(s) /\ Resumable(s)
    /\ TransitionSession(s, "fusing", TaskToRecover(s))
    /\ NextSession(s)
    /\ UNCHANGED <<gitVars, refVars, fileVars, lastSeen, lock, up, req, joining, used>>

\* Mutant: the worktree is restored without a backup.
BackUpTask_Skipped(s) ==
    /\ Scanning /\ s \in rec.todo
    /\ ~Resumable(s) /\ TaskToRecover(s) # NoTask
    /\ rec' = [rec EXCEPT !.pc = "restore", !.cur = s]
    /\ UNCHANGED <<gitVars, refVars, fileVars, dbVars, up, req, joining, used>>

BackUpTask(s) ==
    /\ Scanning /\ s \in rec.todo
    /\ ~Resumable(s) /\ TaskToRecover(s) # NoTask
    /\ CreateBackupRef(s)
    /\ rec' = [rec EXCEPT !.pc = "restore", !.cur = s]
    /\ UNCHANGED <<gitVars, snapshotRef, baseRef, fileVars, dbVars, up, req, joining, used>>

\* Mutant: after a failed backup the worktree is restored all the same.
BackupFails_GoesOn(s) ==
    /\ Scanning /\ s \in rec.todo
    /\ used.backupFails < MaxBackupFails
    /\ used' = [used EXCEPT !.backupFails = @ + 1]
    /\ ~Resumable(s) /\ TaskToRecover(s) # NoTask
    /\ rec' = [rec EXCEPT !.pc = "restore", !.cur = s]
    /\ UNCHANGED <<gitVars, refVars, fileVars, dbVars, up, req, joining>>

\* The backup fails: the task stays, as the row (or, without a mismatch, the
\* lock) has it.
BackupFails(s) ==
    /\ Scanning /\ s \in rec.todo
    /\ used.backupFails < MaxBackupFails
    /\ used' = [used EXCEPT !.backupFails = @ + 1]
    /\ \/ TaskMismatch(s) /\ TransitionSession(s, "fusing", rec.rows[s].task)
       \/ /\ ~Resumable(s) /\ TaskToRecover(s) # NoTask
          /\ TransitionSession(s, "fusing", TaskToRecover(s))
    /\ NextSession(s)
    /\ UNCHANGED <<gitVars, refVars, fileVars, lastSeen, lock, up, req, joining>>

RecoverRestore ==
    /\ rec.pc = "restore"
    /\ RestoreTaskSnapshotIfPossible(rec.cur, TaskToRecover(rec.cur))
    /\ GotoRecovery("unlock")
    /\ UNCHANGED <<main, refVars, fileVars, dbVars, up, req, joining, used>>

\* set_lock to nobody, without another look at who holds it.
RecoverUnlock ==
    /\ rec.pc = "unlock"
    /\ lock' = IF OwnsLock(rec.cur) THEN NoLock ELSE lock
    /\ GotoRecovery("clean")
    /\ UNCHANGED <<gitVars, refVars, fileVars, row, lastSeen, up, req, joining, used>>

RecoverClean ==
    /\ rec.pc = "clean"
    /\ TransitionSession(rec.cur, "clean", NoTask)
    /\ NextSession(rec.cur)
    /\ UNCHANGED <<gitVars, refVars, fileVars, lastSeen, lock, up, req, joining, used>>

\* The recovery is over and the daemon listens (a second one exits beside one that serves).
RecoveryDone ==
    /\ Scanning /\ rec.todo = {}
    /\ rec' = NotRecovering
    /\ up' = TRUE
    /\ UNCHANGED <<gitVars, refVars, fileVars, dbVars, req, joining, used>>

RecoveryStep ==
    \/ \E s \in Sessions : \/ AdoptLockTask(s) \/ ClearIdleRow(s) \/ ResumeTask(s)
                           \/ BackUpTask(s) \/ BackupFails(s)
    \/ RecoverRestore \/ RecoverUnlock \/ RecoverClean \/ RecoveryDone

\* A daemon dies between two durable effects (Ctrl-C, power): the one that serves, with
\* or without one that recovers beside it, or one that recovers.  What its handler or
\* its recovery was doing is forgotten; a second daemon that is left will serve.
Crash ==
    /\ used.crashes < MaxCrashes
    /\ used' = [used EXCEPT !.crashes = @ + 1]
    /\ \/ up /\ up' = FALSE /\ req' = Idle /\ rec' \in {rec, NotRecovering}
       \/ rec # NotRecovering /\ rec' = NotRecovering /\ UNCHANGED <<up, req>>
    /\ UNCHANGED <<gitVars, refVars, fileVars, dbVars, joining>>

-----------------------------------------------------------------------------
(* `cocodex join`: prepare_join_startup_notice, _recover_rejoinable_task.  *)

\* The row is read; only these rows can lead to a write.
JoinRead(s) ==
    /\ joining = NotJoining /\ used.joins < MaxJoins
    /\ \/ row[s].task # NoTask /\ row[s].state \in LEGACY_RECOVERY_STATES \ {"queued", "fusing"}
       \/ row[s].task = NoTask /\ row[s].state = "queued"
    /\ joining' = [pc |-> IF row[s].task = NoTask THEN "write" ELSE "check",
                   cur |-> s, task |-> row[s].task]
    /\ used' = [used EXCEPT !.joins = @ + 1]
    /\ UNCHANGED <<gitVars, refVars, fileVars, dbVars, up, req, rec>>

\* The task of the row can be resumed if the lock and its file are there.
JoinCheck ==
    /\ joining.pc = "check"
    /\ joining' = IF lock = LockOf(joining.cur, joining.task) /\ joining.task \in taskFiles
                    THEN [joining EXCEPT !.pc = "write"]
                    ELSE NotJoining
    /\ UNCHANGED <<gitVars, refVars, fileVars, dbVars, up, req, rec, used>>

\* The row is written as if nothing had happened since it was read.
JoinWrite ==
    /\ joining.pc = "write"
    /\ TransitionSession(joining.cur,
                         IF joining.task = NoTask THEN "clean" ELSE "fusing",
                         joining.task)
    /\ joining' = NotJoining
    /\ UNCHANGED <<gitVars, refVars, fileVars, lastSeen, lock, up, req, rec, used>>

JoinStep == (\E s \in Sessions : JoinRead(s)) \/ JoinCheck \/ JoinWrite
=============================================================================
