--------------------------- MODULE SyncWorkProofs ---------------------------
(***************************************************************************)
(* What becomes of the work of a session: LastSeenReflected, NoWorkLost    *)
(* and AckedWorkPublished.  Worktrees are reset by requests and recoveries *)
(* to a commit that was read, or to the snapshot of a task; the invariants *)
(* say what is known, at each step, of that commit and of that snapshot.   *)
(***************************************************************************)
EXTENDS SyncTaskProofs

\* Task t is, or was when somebody read it, a task of session s.
IsTaskOf(t, s) ==
    \/ row[s].task = t
    \/ lock.owner = s /\ lock.task = t
    \/ req.cur = s /\ req.task = t
    \/ rec.rows[s].task = t
    \/ rec.lock.owner = s /\ rec.lock.task = t
    \/ joining.cur = s /\ joining.task = t

\* A task identifier belongs to one session, and is not used before it is given.
TaskIds ==
    /\ \A t \in Task : \A s \in Sessions : IsTaskOf(t, s) => t <= used.tasks
    /\ \A t \in Task : \A s, r \in Sessions : IsTaskOf(t, s) /\ IsTaskOf(t, r) => s = r
    /\ \A t \in Task : used.tasks < t => snapshotRef[t] = NoCommit

\* The part of main that stays, also when a request forces the ref of main: what
\* others have committed since it looked is dropped.
FirmMain == IF req.pc = "force" THEN main \cap req.cand ELSE main

\* The main that a request has read is in main; so, once it is published, is
\* its candidate.
LatestPublished ==
    /\ IsAncestor(req.latest, FirmMain)
    /\ req.pc = "caught" => IsAncestor(req.latest, head[req.cur])
    /\ req.pc \in {"published", "seen"} =>
           IsAncestor(req.cand, main) /\ IsAncestor(req.cand, head[req.cur])

\* Whoever a request is for, or has a task, knows a main.
MainKnown ==
    \A s \in Sessions :
        req.cur = s \/ (\E t \in Task : IsTaskOf(t, s)) => lastSeen[s] # NoCommit

\* The sessions and tasks for which undoing the task, if there is anything to go
\* back to, brings back a worktree that has the main the session knows.
Covered ==
    {st \in Sessions \X Task :
        snapshotRef[st[2]] = NoCommit \/ IsAncestor(lastSeen[st[1]], snapshotRef[st[2]])}

Unsettled(s) == row[s].state \in LEGACY_RECOVERY_STATES \/ row[s].task # NoTask

\* That is so of every task in a row, and of the task of the lock if a recovery
\* would look at its owner,
RowsCover ==
    \A s \in Sessions :
        /\ row[s].task # NoTask => <<s, row[s].task>> \in Covered
        /\ lock.owner = s /\ Unsettled(s) => <<s, lock.task>> \in Covered

\* of the task of a request; what it resets the worktree to has that main, too;
\* and a request that writes last_seen_main leaves nothing to undo,
RequestCovers ==
    /\ req.pc \notin {"idle", "catchup", "caught", "direct", "start", "release"}
           => <<req.cur, req.task>> \in Covered
    /\ req.pc = "snapRef" => IsAncestor(lastSeen[req.cur], req.cand)
    /\ req.pc \in {"snapRef", "baseRef", "mergeBegin", "merge", "validate", "fallback", "reset"}
           => IsAncestor(lastSeen[req.cur], req.latest)
    /\ req.pc \in {"catchup", "caught", "seen"} => ~Unsettled(req.cur)

\* and of the tasks that a recovery has yet to look at.
RecoveryCovers ==
    rec.pc # "off" =>
        /\ lock \in {rec.lock, NoLock}
        /\ rec.pc # "scan" => rec.cur \in rec.todo
        /\ \A s \in rec.todo :
               /\ rec.rows[s].task # NoTask => <<s, rec.rows[s].task>> \in Covered
               /\ rec.lock.owner = s => <<s, rec.lock.task>> \in Covered

SeenStays == \A s \in Sessions : lastSeen[s] # NoCommit => IsAncestor(lastSeen[s], FirmMain)

SeenInv ==
    /\ LastSeenReflected /\ SeenStays /\ LatestPublished /\ MainKnown
    /\ RowsCover /\ RequestCovers /\ RecoveryCovers
    /\ joining = NotJoining

\* If the daemon does not crash, rows need not cover anything: no recovery finds a
\* task, and a request undoes none but what it has given the session itself.
Merging ==
    \/ req.pc \in StartTry \cup {"fuse", "merge", "validate", "restore", "mergeUnlock"}
    \/ req.pc = "forward" /\ req.mode = "merge"

MergeCovers ==
    /\ Merging => <<req.cur, req.task>> \in Covered
    /\ req.pc = "snapRef" => IsAncestor(lastSeen[req.cur], req.cand)
    /\ req.pc \in {"snapRef", "baseRef", "mergeBegin", "merge", "validate", "fallback", "reset"}
           => IsAncestor(lastSeen[req.cur], req.latest)

RestoresNothing ==
    /\ rec.pc \in {"off", "scan"}
    /\ ~up => /\ lock = NoLock /\ joining.task = NoTask
              /\ \A s \in Sessions : row[s].task = NoTask
    /\ rec.pc = "scan" => rec.lock = NoLock /\ \A s \in Sessions : rec.rows[s].task = NoTask

SeenCore == LastSeenReflected /\ SeenStays /\ LatestPublished /\ MainKnown /\ MergeCovers
CalmInv == SeenCore /\ ModeInv /\ RestoresNothing

\* What is on main, or under a backup or snapshot ref, and what of it people
\* and Codex wrote.
Saved == main \cup (UNION backups) \cup (UNION {snapshotRef[t] : t \in Task})
Authored == {"edit", "candidate"} \X Nat

SavedWorktrees == {s \in Sessions : Work(s) \cap Authored \subseteq Saved}

\* Before a worktree is reset, all that was written there is saved.
SavedByRequest ==
    /\ IsAncestor(req.latest, FirmMain)
    /\ req.pc \in {"freeze", "prepare", "snapshot", "snapRef"} => snapshotRef[req.task] = NoCommit
    /\ req.pc = "snapRef" => Work(req.cur) \cap Authored \subseteq Saved \cup req.cand
    /\ req.pc \in {"baseRef", "mergeBegin", "merge", "validate", "fallback", "reset", "writeTask",
                   "fuse", "prompt", "mergeUnlock"}
          => req.cur \in SavedWorktrees
    /\ req.pc = "forward" /\ req.mode = "merge" => req.cur \in SavedWorktrees
    /\ req.pc = "restore" => snapshotRef[req.task] = NoCommit \/ req.cur \in SavedWorktrees

SavedByRecovery == rec.pc = "restore" => rec.cur \in SavedWorktrees

\* Only commits of others are dropped when main is forced.
ForcedKeepsWork == req.pc = "force" => main \cap Authored \subseteq req.cand

WorkInv == SavedByRequest /\ SavedByRecovery /\ ForcedKeepsWork

\* Where the work that a request was asked to publish is.
AskedIsThere ==
    /\ req.pc \in {"direct", "yield", "start", "freeze", "prepare", "snapshot"}
          => IsAncestor(req.asked, Work(req.cur))
    /\ req.pc = "catchup" => IsAncestor(req.asked, head[req.cur])
    /\ req.pc = "caught" => IsAncestor(req.asked, req.latest)
    /\ req.pc \in {"recheck", "commit"} => IsAncestor(req.asked, req.cand \cup dirty[req.cur])
    /\ req.pc \in {"compare", "forward", "force", "snapRef", "check", "verify", "preflight"}
          => IsAncestor(req.asked, req.cand)
    /\ req.pc \in {"baseRef", "mergeBegin", "merge", "validate"}
          => IsAncestor(req.asked, snapshotRef[req.task])
    /\ req.pc \in {"published", "seen", "release"} => IsAncestor(req.asked, main)

AskedInv == IsAncestor(req.latest, FirmMain) /\ AskedIsThere

-----------------------------------------------------------------------------
(* Task identifiers.                                                       *)

\* What a step may do to the tasks of sessions: give the session of the request
\* a new one, and take a snapshot for a task that somebody has.
IdsMove ==
    /\ used'.tasks \in {used.tasks, used.tasks + 1}
    /\ \A t \in Task : \A s \in Sessions :
           IsTaskOf(t, s)' => \/ IsTaskOf(t, s)
                              \/ s = req.cur /\ t = used.tasks + 1 /\ t = used'.tasks
    /\ \A t \in Task :
           snapshotRef'[t] # NoCommit =>
               snapshotRef[t] # NoCommit \/ \E s \in Sessions : IsTaskOf(t, s)

\* A step of the handler.
LEMMA HandlerIds ==
    ASSUME TypeOK, Shape, HandlerStep
    PROVE  IdsMove
<1> USE DEF IdsMove, IsTaskOf, ReleaseLockIfOwned
<1>a. /\ req \in Request /\ row \in [Sessions -> Row] /\ main \in Commit
      /\ used.tasks \in Nat /\ used \in Usage
      /\ UNCHANGED <<rec, joining>>
  BY ConstantsAssumption DEF TypeOK, Usage, HandlerStep, envVars, CatchUpNothing,
     CatchUpFastForward, CaughtUp, DirectLock, DirectDecline, DirectRecheck, DirectCommit,
     DirectCompare, DirectFails, DirectUnlock, ForwardMain, ForceMain, ForwardRefused,
     PublishedClean, PublishedSeen, PublishedRelease, ClaimIntegrationTask, StartRefused,
     FreezeAcknowledged, PrepareLockedSync, Snapshot, SnapshotRef, BaseRef, MergeBegin, GitMerge,
     ValidateMerge, MergeUnlock, ResetToLatest, WriteTaskFile, Fusing, PromptDelivered,
     StartFails, AbortRestore, AbortUnlock, AbortClean, NormalizeActiveTask, CheckCandidate,
     CheckRefuses, VerifyReport, VerifyWithoutReport, Preflight
<1>b. req.pc # "idle" => /\ req.cur \in Sessions
                        /\ head[req.cur] \in Commit /\ Work(req.cur) \in Commit
  BY WorkType DEF TypeOK, Shape
<1>c. /\ req.pc \notin {"idle", "catchup", "caught", "direct", "start"} => req.task \in Task
      /\ NoTask \notin Task
  BY DEF Shape, Task, NoTask
<1>d. NoSession \notin Sessions
  BY ConstantsAssumption
<1>e. snapshotRef \in [Task -> MaybeCommit]
  BY DEF TypeOK
<1>1. CASE CatchUpNothing
  BY <1>1, <1>a, <1>b, <1>c, <1>d, <1>e, FinishType DEF CatchUpNothing, At, cur, refVars,
     fileVars, TransitionSession, LockOf, NoLock, dbVars, SettleRow
<1>2. CASE CatchUpFastForward
  BY <1>2, <1>a, <1>b, <1>c, <1>d, <1>e, GotoWithLatestType, FinishType DEF CatchUpFastForward,
     At, cur, Pc, DirectTry, StartTry, refVars, fileVars, dbVars, TransitionSession, LockOf,
     NoLock
<1>3. CASE CaughtUp
  BY <1>3, <1>a, <1>b, <1>c, <1>d, <1>e, FinishType DEF CaughtUp, At, cur, refVars, fileVars,
     TransitionSession, LockOf, NoLock, dbVars, SettleRow
<1>4. CASE DirectLock
  BY <1>4, <1>a, <1>b, <1>c, <1>d, <1>e DEF DirectLock, At, cur, task, Request, LockOf, refVars,
     fileVars, TransitionSession, NoLock, dbVars, NewTask, Usage
<1>5. CASE DirectDecline
  BY <1>5, <1>a, <1>b, <1>c, <1>d, <1>e, GotoType, FinishType DEF DirectDecline, At, Pc,
     DirectTry, StartTry, refVars, fileVars, dbVars, TransitionSession, LockOf, NoLock
<1>6. CASE DirectRecheck
  BY <1>6, <1>a, <1>b, <1>c, <1>d, <1>e, GotoWithLatestType, GotoType DEF DirectRecheck, At,
     cur, task, Pc, DirectTry, StartTry, refVars, fileVars, TransitionSession, LockOf, NoLock,
     dbVars
<1>7. CASE DirectCommit
  BY <1>7, <1>a, <1>b, <1>c, <1>d, <1>e, GotoWithCandidateType, GotoType DEF DirectCommit, At,
     cur, Pc, DirectTry, StartTry, CommitAll, refVars, fileVars, dbVars, TransitionSession,
     LockOf, NoLock
<1>8. CASE DirectCompare
  BY <1>8, <1>a, <1>b, <1>c, <1>d, <1>e, GotoType DEF DirectCompare, At, cur, Pc, DirectTry,
     StartTry, refVars, fileVars, TransitionSession, LockOf, NoLock, dbVars
<1>9. CASE DirectFails
  BY <1>9, <1>a, <1>b, <1>c, <1>d, <1>e, GotoType DEF DirectFails, At, cur, Pc, DirectTry,
     StartTry, refVars, fileVars, TransitionSession, LockOf, NoLock, dbVars
<1>10. CASE DirectUnlock
  BY <1>10, <1>a, <1>b, <1>c, <1>d, <1>e, GotoType, FinishType DEF DirectUnlock, At, cur, task,
     Pc, DirectTry, StartTry, ReleaseLockIfOwned, refVars, fileVars, TransitionSession, LockOf,
     NoLock, dbVars
<1>11. CASE ForwardMain
  BY <1>11, <1>a, <1>b, <1>c, <1>d, <1>e, GotoType DEF ForwardMain, At, Pc, DirectTry, StartTry,
     refVars, fileVars, dbVars, TransitionSession, LockOf, NoLock
<1>12. CASE ForceMain
  BY <1>12, <1>a, <1>b, <1>c, <1>d, <1>e, GotoType DEF ForceMain, At, Pc, DirectTry, StartTry,
     refVars, fileVars, dbVars, TransitionSession, LockOf, NoLock
<1>13. CASE ForwardRefused
  BY <1>13, <1>a, <1>b, <1>c, <1>d, <1>e, GotoType, FinishType DEF ForwardRefused, At, cur,
     task, Pc, DirectTry, StartTry, refVars, fileVars, TransitionSession, LockOf, NoLock, dbVars
<1>14. CASE PublishedClean
  BY <1>14, <1>a, <1>b, <1>c, <1>d, <1>e, GotoType DEF PublishedClean, At, cur, Pc, DirectTry,
     StartTry, refVars, fileVars, TransitionSession, LockOf, NoLock, dbVars
<1>15. CASE PublishedSeen
  BY <1>15, <1>a, <1>b, <1>c, <1>d, <1>e, GotoType DEF PublishedSeen, At, cur, Pc, DirectTry,
     StartTry, refVars, fileVars, TransitionSession, LockOf, NoLock, dbVars
<1>16. CASE PublishedRelease
  BY <1>16, <1>a, <1>b, <1>c, <1>d, <1>e, FinishType DEF PublishedRelease, At, cur, task,
     ReleaseLockIfOwned, refVars, fileVars, TransitionSession, LockOf, NoLock, dbVars
<1>17. CASE ClaimIntegrationTask
  BY <1>17, <1>a, <1>b, <1>c, <1>d, <1>e DEF ClaimIntegrationTask, At, cur, task, Request,
     LockOf, refVars, fileVars, TransitionSession, NoLock, dbVars, NewTask, Usage
<1>18. CASE StartRefused
  BY <1>18, <1>a, <1>b, <1>c, <1>d, <1>e, FinishType DEF StartRefused, At, refVars, fileVars,
     dbVars, TransitionSession, LockOf, NoLock
<1>19. CASE FreezeAcknowledged
  BY <1>19, <1>a, <1>b, <1>c, <1>d, <1>e, GotoType DEF FreezeAcknowledged, At, cur, task, Pc,
     DirectTry, StartTry, refVars, fileVars, TransitionSession, LockOf, NoLock, dbVars
<1>20. CASE PrepareLockedSync
  BY <1>20, <1>a, <1>b, <1>c, <1>d, <1>e, GotoType DEF PrepareLockedSync, At, cur, task, Pc,
     DirectTry, StartTry, refVars, fileVars, TransitionSession, LockOf, NoLock, dbVars
<1>21. CASE Snapshot
  BY <1>21, <1>a, <1>b, <1>c, <1>d, <1>e DEF Snapshot, At, cur, Request, CommitAll, refVars,
     fileVars, dbVars, TransitionSession, LockOf, NoLock
<1>22. CASE SnapshotRef
  BY <1>22, <1>a, <1>b, <1>c, <1>d, <1>e, GotoType DEF SnapshotRef, At, task, Pc, DirectTry,
     StartTry, fileVars, dbVars, TransitionSession, LockOf, NoLock, refVars
<1>23. CASE BaseRef
  BY <1>23, <1>a, <1>b, <1>c, <1>d, <1>e, GotoType DEF BaseRef, At, task, Pc, DirectTry,
     StartTry, fileVars, dbVars, TransitionSession, LockOf, NoLock, refVars
<1>24. CASE MergeBegin
  BY <1>24, <1>a, <1>b, <1>c, <1>d, <1>e, GotoType DEF MergeBegin, At, cur, task, Pc, DirectTry,
     StartTry, refVars, fileVars, TransitionSession, LockOf, NoLock, dbVars
<1>25. CASE GitMerge
  BY <1>25, <1>a, <1>b, <1>c, <1>d, <1>e, GotoType DEF GitMerge, At, cur, task, Pc, DirectTry,
     StartTry, refVars, fileVars, dbVars, TransitionSession, LockOf, NoLock
<1>26. CASE ValidateMerge
  BY <1>26, <1>a, <1>b, <1>c, <1>d, <1>e, GotoWithCandidateType, GotoType DEF ValidateMerge, At,
     cur, task, Pc, DirectTry, StartTry, refVars, fileVars, dbVars, TransitionSession, LockOf,
     NoLock
<1>27. CASE MergeUnlock
  BY <1>27, <1>a, <1>b, <1>c, <1>d, <1>e, GotoType DEF MergeUnlock, At, cur, task, Pc,
     DirectTry, StartTry, ReleaseLockIfOwned, refVars, fileVars, TransitionSession, LockOf,
     NoLock, dbVars
<1>28. CASE ResetToLatest
  BY <1>28, <1>a, <1>b, <1>c, <1>d, <1>e, GotoType DEF ResetToLatest, At, cur, Pc, DirectTry,
     StartTry, refVars, fileVars, dbVars, TransitionSession, LockOf, NoLock
<1>29. CASE WriteTaskFile
  BY <1>29, <1>a, <1>b, <1>c, <1>d, <1>e, GotoType DEF WriteTaskFile, At, task, Pc, DirectTry,
     StartTry, refVars, dbVars, TransitionSession, LockOf, NoLock
<1>30. CASE Fusing
  BY <1>30, <1>a, <1>b, <1>c, <1>d, <1>e, GotoType DEF Fusing, At, cur, task, Pc, DirectTry,
     StartTry, refVars, fileVars, TransitionSession, LockOf, NoLock, dbVars
<1>31. CASE PromptDelivered
  BY <1>31, <1>a, <1>b, <1>c, <1>d, <1>e, FinishType DEF PromptDelivered, At, refVars, fileVars,
     dbVars, TransitionSession, LockOf, NoLock
<1>32. CASE StartFails
  BY <1>32, <1>a, <1>b, <1>c, <1>d, <1>e, GotoType DEF StartFails, At, Pc, DirectTry, StartTry,
     refVars, fileVars, dbVars, TransitionSession, LockOf, NoLock
<1>33. CASE AbortRestore
  BY <1>33, <1>a, <1>b, <1>c, <1>d, <1>e, GotoType DEF AbortRestore, At, cur, task, Pc,
     DirectTry, StartTry, refVars, fileVars, dbVars, TransitionSession, LockOf, NoLock
<1>34. CASE AbortUnlock
  BY <1>34, <1>a, <1>b, <1>c, <1>d, <1>e, GotoType DEF AbortUnlock, At, cur, task, Pc,
     DirectTry, StartTry, ReleaseLockIfOwned, refVars, fileVars, TransitionSession, LockOf,
     NoLock, dbVars
<1>35. CASE AbortClean
  BY <1>35, <1>a, <1>b, <1>c, <1>d, <1>e, FinishType DEF AbortClean, At, cur, refVars, fileVars,
     TransitionSession, LockOf, NoLock, dbVars
<1>36. CASE NormalizeActiveTask
  BY <1>36, <1>a, <1>b, <1>c, <1>d, <1>e DEF NormalizeActiveTask, At, cur, task, Request,
     refVars, fileVars, TransitionSession, LockOf, NoLock, dbVars
<1>37. CASE CheckCandidate
  BY <1>37, <1>a, <1>b, <1>c, <1>d, <1>e, GotoType DEF CheckCandidate, At, cur, task, Pc,
     DirectTry, StartTry, refVars, fileVars, TransitionSession, LockOf, NoLock, dbVars
<1>38. CASE CheckRefuses
  BY <1>38, <1>a, <1>b, <1>c, <1>d, <1>e, FinishType DEF CheckRefuses, At, cur, task, refVars,
     fileVars, TransitionSession, LockOf, NoLock, dbVars
<1>39. CASE VerifyReport
  BY <1>39, <1>a, <1>b, <1>c, <1>d, <1>e, GotoType, FinishType DEF VerifyReport, At, cur, task,
     Pc, DirectTry, StartTry, refVars, fileVars, TransitionSession, LockOf, NoLock, dbVars
<1>40. CASE VerifyWithoutReport
  BY <1>40, <1>a, <1>b, <1>c, <1>d, <1>e, FinishType DEF VerifyWithoutReport, At, cur, task,
     refVars, fileVars, TransitionSession, LockOf, NoLock, dbVars
<1>41. CASE Preflight
  BY <1>41, <1>a, <1>b, <1>c, <1>d, <1>e, GotoType, FinishType DEF Preflight, At, Pc, DirectTry,
     StartTry, refVars, fileVars, dbVars, TransitionSession, LockOf, NoLock
<1> QED
  BY <1>1, <1>2, <1>3, <1>4, <1>5, <1>6, <1>7, <1>8, <1>9, <1>10, <1>11, <1>12, <1>13, <1>14,
     <1>15, <1>16, <1>17, <1>18, <1>19, <1>20, <1>21, <1>22, <1>23, <1>24, <1>25, <1>26, <1>27,
     <1>28, <1>29, <1>30, <1>31, <1>32, <1>33, <1>34, <1>35, <1>36, <1>37, <1>38, <1>39, <1>40,
     <1>41 DEF HandlerStep

\* A step of the recovery moves tasks between the lock and the row of a session.
LEMMA RecoveryIds ==
    ASSUME TypeOK, Shape, RecoveryStep
    PROVE  IdsMove
<1> USE DEF IdsMove, IsTaskOf
<1>a. /\ rec \in Recovery /\ row \in [Sessions -> Row] /\ used.tasks \in Nat /\ used \in Usage
      /\ NoTask \notin Task /\ NoSession \notin Sessions
  BY ConstantsAssumption DEF TypeOK, Usage, Task, NoTask
<1>b. /\ UNCHANGED <<req, joining, snapshotRef>> /\ used'.tasks = used.tasks
      /\ lock' \in {lock, NoLock} /\ NoLock.owner = NoSession
  BY <1>a DEF RecoveryStep, AdoptLockTask, ClearIdleRow, ResumeTask, BackUpTask, BackupFails,
     RecoverRestore, RecoverUnlock, RecoverClean, RecoveryDone, refVars, dbVars, Usage, NoLock
<1>c. rec' = NotRecovering \/ (rec'.rows = rec.rows /\ rec'.lock = rec.lock)
  <2>1. ASSUME NEW s \in Sessions,
               \/ AdoptLockTask(s) \/ ClearIdleRow(s) \/ ResumeTask(s)
               \/ BackUpTask(s) \/ BackupFails(s)
        PROVE  rec'.rows = rec.rows /\ rec'.lock = rec.lock
    BY <1>a, <2>1 DEF AdoptLockTask, ClearIdleRow, ResumeTask, BackUpTask, BackupFails,
       NextSession, Recovery
  <2>2. CASE RecoverRestore \/ RecoverUnlock \/ RecoverClean
    BY <1>a, <2>2 DEF RecoverRestore, RecoverUnlock, RecoverClean, NextSession, GotoRecovery,
       Recovery
  <2>3. CASE RecoveryDone
    BY <2>3 DEF RecoveryDone
  <2> QED
    BY <2>1, <2>2, <2>3 DEF RecoveryStep
<1>d. \A s \in Sessions : \/ row'[s].task \in {row[s].task, NoTask, rec.rows[s].task}
                          \/ row'[s].task = rec.lock.task /\ rec.lock.owner = s
  <2>1. ASSUME NEW s \in Sessions, AdoptLockTask(s) \/ ResumeTask(s) \/ BackupFails(s)
        PROVE  \E st, t : /\ row' = [row EXCEPT ![s] = [state |-> st, task |-> t]]
                          /\ \/ t = rec.rows[s].task
                             \/ t = rec.lock.task /\ rec.lock.owner = s
    BY <2>1 DEF AdoptLockTask, ResumeTask, BackupFails, TransitionSession, TaskMismatch,
       TaskToRecover, OwnsLock
  <2>2. ASSUME NEW s \in Sessions, ClearIdleRow(s) \/ (RecoverClean /\ s = rec.cur)
        PROVE  row' = [row EXCEPT ![s] = [state |-> "clean", task |-> NoTask]]
    BY <2>2 DEF ClearIdleRow, RecoverClean, TransitionSession
  <2>3. CASE RecoverRestore \/ RecoverUnlock \/ RecoveryDone \/ \E s \in Sessions : BackUpTask(s)
    <3>1. UNCHANGED row
      BY <2>3 DEF RecoverRestore, RecoverUnlock, RecoveryDone, BackUpTask, dbVars
    <3> QED
      BY <3>1
  <2>4. CASE RecoverClean
    <3>1. rec.cur \in Sessions
      BY <2>4 DEF RecoverClean, Shape
    <3> QED
      BY <1>a, <2>2, <2>4, <3>1
  <2> QED
    BY <1>a, <2>1, <2>2, <2>3, <2>4 DEF RecoveryStep
<1> QED
  BY <1>a, <1>b, <1>c, <1>d DEF NotRecovering

\* Every step, whatever daemons, joins and crashes there are.
LEMMA NextIds ==
    ASSUME TypeOK, Shape, [Next]_vars
    PROVE  IdsMove
<1> USE DEF IdsMove, IsTaskOf
<1>a. /\ used.tasks \in Nat /\ used \in Usage /\ row \in [Sessions -> Row]
      /\ NoTask \notin Task /\ NoSession \notin Sessions
  BY ConstantsAssumption DEF TypeOK, Usage, Task, NoTask
<1>1. CASE UNCHANGED vars
  BY <1>1 DEF vars
<1>2. CASE HandlerStep \/ RecoveryStep
  BY <1>2, HandlerIds, RecoveryIds
<1>3. CASE Boot \/ SecondDaemon
  <2>1. /\ rec'.rows = row /\ rec'.lock = lock /\ used'.tasks = used.tasks
        /\ UNCHANGED <<row, lock, req, joining, snapshotRef>>
    BY <1>3, <1>a DEF Boot, SecondDaemon, StartRecovery, NotRecovering, Usage, refVars, dbVars
  <2> QED
    BY <1>a, <2>1
<1>4. CASE Crash
  BY <1>4, <1>a DEF Crash, Idle, NotRecovering, NoLock, Usage, refVars, dbVars
<1>5. CASE JoinStep
  <2>1. UNCHANGED <<lock, req, rec, snapshotRef>> /\ used'.tasks = used.tasks
    BY <1>5, <1>a DEF JoinStep, JoinRead, JoinCheck, JoinWrite, Usage, refVars, dbVars
  <2>2. ASSUME NEW s \in Sessions, JoinRead(s)
        PROVE  UNCHANGED row /\ joining'.cur = s /\ joining'.task = row[s].task
    BY <2>2 DEF JoinRead, dbVars
  <2>3. JoinCheck => /\ UNCHANGED row
                     /\ joining' = NotJoining \/ (joining'.cur = joining.cur /\ joining'.task = joining.task)
    BY DEF JoinCheck, dbVars, TypeOK, Joining
  <2>4. JoinWrite => /\ joining' = NotJoining
                     /\ \A s \in Sessions : s # joining.cur => row'[s].task = row[s].task
                     /\ \A s \in Sessions : s = joining.cur => row'[s].task = joining.task
    BY <1>a DEF JoinWrite, TransitionSession
  <2> QED
    BY <1>5, <1>a, <2>1, <2>2, <2>3, <2>4 DEF JoinStep, NotJoining
<1>6. ASSUME NEW s \in Sessions, ReadyToIntegrate(s) PROVE IdsMove
  <2>1. /\ UNCHANGED <<lock, rec, joining, snapshotRef, used>>
        /\ \A r \in Sessions : row'[r].task = row[r].task
        /\ req'.task = NoTask \/ req' = req
    BY <1>6 DEF ReadyToIntegrate, envVars, refVars, TypeOK, Row, Idle
  <2> QED
    BY <1>a, <2>1
<1>7. ASSUME NEW s \in Sessions, FusionDone(s) PROVE IdsMove
  <2>1. /\ UNCHANGED <<row, rec, joining, snapshotRef, used>> /\ lock' = LockOf(s, row[s].task)
        /\ req'.cur = s /\ req'.task = row[s].task
    BY <1>7 DEF FusionDone, envVars, refVars, Idle
  <2> QED
    BY <1>a, <2>1, LockOfFacts
<1>8. ASSUME NEW s \in Sessions, DeveloperStep(s) PROVE IdsMove
  BY <1>8, <1>a DEF DeveloperStep, Edit, CommitWork, CommitCandidate, WriteReport, Usage,
     refVars, dbVars
<1>9. CASE ExternalMain
  BY <1>9, <1>a DEF ExternalMain, Usage, refVars, dbVars
<1> QED
  BY <1>1, <1>2, <1>3, <1>4, <1>5, <1>6, <1>7, <1>8, <1>9 DEF Next

\* So identifiers stay with one session, and those to come are unused.
LEMMA NextTaskIds ==
    ASSUME TypeOK, Shape, TaskIds, [Next]_vars
    PROVE  TaskIds'
<1>1. IdsMove
  BY NextIds
<1>2. used.tasks \in Nat
  BY DEF TypeOK, Usage
<1>3. Task \subseteq Nat
  BY ConstantsAssumption DEF Task
<1> QED
  BY <1>1, <1>2, <1>3 DEF TaskIds, IdsMove

\* Initially nobody has a task.
LEMMA IdsInitially == Init => TaskIds
<1> SUFFICES ASSUME Init PROVE TaskIds
  OBVIOUS
<1>1. \A s \in Sessions : row[s].task = NoTask
  BY DEF Init, InitialRow
<1>2. NoTask \notin Task /\ NoSession \notin Sessions
  BY ConstantsAssumption DEF NoTask, Task
<1>3. \A t \in Task : snapshotRef[t] = NoCommit
  BY DEF Init
<1>4. \A t \in Task : \A s \in Sessions : ~IsTaskOf(t, s)
  BY <1>1, <1>2 DEF Init, IsTaskOf, Idle, NotRecovering, NotJoining, NoLock
<1> QED
  BY <1>3, <1>4 DEF TaskIds

-----------------------------------------------------------------------------
(* What stays of main.                                                     *)

\* Most of the time all of main stays.
LEMMA FirmIsMain ==
    /\ FirmMain \subseteq main /\ (req.pc # "force" => FirmMain = main)
    /\ FirmMain' \subseteq main' /\ (req'.pc # "force" => FirmMain' = main')
BY DEF FirmMain

\* A step of the handler.
LEMMA HandlerFirm ==
    ASSUME TypeOK, HandlerStep
    PROVE  /\ IsAncestor(FirmMain, FirmMain')
           /\ ForcedKeepsWork => ForcedKeepsWork'
<1> USE DEF FirmMain, ForcedKeepsWork, IsAncestor
<1>a. req \in Request
  BY DEF TypeOK
<1>1. CASE ForwardMain
  BY <1>a, <1>1, GotoType DEF ForwardMain, Pc
<1>2. CASE ForceMain
  BY <1>a, <1>2, GotoType DEF ForceMain, At, Pc
<1>3. CASE CatchUpNothing \/ CatchUpFastForward \/ CaughtUp
  <2>1. UNCHANGED main /\ req'.pc # "force"
    <3>1. CASE CatchUpFastForward
      <4>1. UNCHANGED main /\ (GotoWithLatest("caught", main) \/ Finish)
        BY <3>1 DEF CatchUpFastForward
      <4>2. GotoWithLatest("caught", main) => req'.pc = "caught"
        BY <1>a, GotoPc
      <4> QED
        BY <4>1, <4>2 DEF Finish, Idle
    <3>2. CASE CatchUpNothing \/ CaughtUp
      BY <3>2 DEF CatchUpNothing, CaughtUp, Finish, Idle, gitVars
    <3> QED
      BY <1>3, <3>1, <3>2
  <2> QED
    BY <2>1
<1>4. CASE DirectLock
  BY <1>a, <1>4 DEF DirectLock, Request, gitVars
<1>5. CASE DirectDecline
  BY <1>a, <1>5, GotoPc DEF DirectDecline, Finish, Idle, gitVars
<1>6. CASE DirectRecheck
  BY <1>a, <1>6, GotoPc DEF DirectRecheck, gitVars
<1>7. CASE DirectCommit
  BY <1>a, <1>7, GotoPc DEF DirectCommit
<1>8. CASE DirectCompare \/ DirectFails \/ DirectUnlock
  BY <1>a, <1>8, GotoPc DEF DirectCompare, DirectFails, DirectUnlock, Finish, Idle, gitVars
<1>9. CASE ForwardRefused \/ PublishedClean \/ PublishedSeen \/ PublishedRelease
  BY <1>a, <1>9, GotoPc DEF ForwardRefused, PublishedClean, PublishedSeen, PublishedRelease,
     Finish, Idle, gitVars
<1>10. CASE ClaimIntegrationTask
  BY <1>a, <1>10 DEF ClaimIntegrationTask, Request, gitVars
<1>11. CASE StartRefused \/ FreezeAcknowledged \/ PrepareLockedSync
  BY <1>a, <1>11, GotoPc DEF StartRefused, FreezeAcknowledged, PrepareLockedSync, Finish,
     Idle, gitVars
<1>12. CASE Snapshot \/ SnapshotRef \/ BaseRef \/ MergeBegin
  BY <1>a, <1>12, GotoPc DEF Snapshot, SnapshotRef, BaseRef, MergeBegin, Request, gitVars
<1>13. CASE GitMerge \/ ValidateMerge \/ MergeUnlock \/ ResetToLatest
  BY <1>a, <1>13, GotoPc DEF GitMerge, ValidateMerge, MergeUnlock, ResetToLatest, gitVars
<1>14. CASE WriteTaskFile \/ Fusing \/ PromptDelivered \/ StartFails
  BY <1>a, <1>14, GotoPc DEF WriteTaskFile, Fusing, PromptDelivered, StartFails, Finish,
     Idle, gitVars
<1>15. CASE AbortRestore \/ AbortUnlock \/ AbortClean
  BY <1>a, <1>15, GotoPc DEF AbortRestore, AbortUnlock, AbortClean, Finish, Idle, gitVars
<1>16. CASE NormalizeActiveTask
  BY <1>a, <1>16 DEF NormalizeActiveTask, Request, gitVars
<1>17. CASE CheckCandidate \/ CheckRefuses \/ VerifyReport
  BY <1>a, <1>17, GotoPc DEF CheckCandidate, CheckRefuses, VerifyReport, Finish, Idle,
     gitVars
<1>18. CASE VerifyWithoutReport \/ Preflight
  BY <1>a, <1>18, GotoPc DEF VerifyWithoutReport, Preflight, Finish, Idle, gitVars
<1> QED
  BY <1>1, <1>2, <1>3, <1>4, <1>5, <1>6, <1>7, <1>8, <1>9, <1>10, <1>11, <1>12, <1>13,
     <1>14, <1>15, <1>16, <1>17, <1>18 DEF HandlerStep

\* Every step.
LEMMA NextFirm ==
    ASSUME TypeOK, [Next]_vars
    PROVE  /\ IsAncestor(FirmMain, FirmMain')
           /\ ForcedKeepsWork => ForcedKeepsWork' /\ main \cap Authored \subseteq main'
<1> DEFINE Firm == /\ IsAncestor(FirmMain, FirmMain')
                   /\ ForcedKeepsWork => ForcedKeepsWork'
<1>1. ASSUME UNCHANGED main, UNCHANGED req \/ req'.pc # "force" PROVE Firm
  BY <1>1 DEF FirmMain, ForcedKeepsWork, IsAncestor
<1>2. ASSUME HandlerStep PROVE Firm
  BY <1>2, HandlerFirm
<1>3. ASSUME UNCHANGED vars \/ RecoveryStep \/ Boot \/ SecondDaemon \/ JoinStep PROVE Firm
  BY <1>1, <1>3 DEF vars, RecoveryStep, AdoptLockTask, ClearIdleRow, ResumeTask, BackUpTask,
     BackupFails, RecoverRestore, RecoverUnlock, RecoverClean, RecoveryDone, gitVars, Boot,
     SecondDaemon, StartRecovery, JoinStep, JoinRead, JoinCheck, JoinWrite
<1>4. ASSUME Crash PROVE Firm
  BY <1>1, <1>4 DEF Crash, Idle, gitVars
<1>5. ASSUME NEW s \in Sessions, ReadyToIntegrate(s) \/ FusionDone(s) PROVE Firm
  BY <1>1, <1>5 DEF ReadyToIntegrate, FusionDone, Idle, gitVars
<1>6. ASSUME NEW s \in Sessions, DeveloperStep(s) PROVE Firm
  BY <1>1, <1>6 DEF DeveloperStep, Edit, CommitWork, CommitCandidate, WriteReport, gitVars
<1>7. ASSUME ExternalMain PROVE Firm
  <2>1. UNCHANGED req /\ main' = main \cup {<<"external", used.external + 1>>}
    BY <1>7 DEF ExternalMain
  <2>2. <<"external", used.external + 1>> \notin Authored
    BY DEF Authored
  <2> QED
    BY <2>1, <2>2 DEF FirmMain, ForcedKeepsWork, IsAncestor
<1>8. Firm
  BY <1>2, <1>3, <1>4, <1>5, <1>6, <1>7 DEF Next
<1>9. ForcedKeepsWork => main \cap Authored \subseteq FirmMain
  BY DEF ForcedKeepsWork, FirmMain
<1> QED
  BY <1>8, <1>9, FirmIsMain DEF IsAncestor

-----------------------------------------------------------------------------
(* No work is lost.                                                        *)

\* Backups stay, and a snapshot ref is written at one step of a request.
LEMMA RefsStay ==
    ASSUME [Next]_vars
    PROVE  /\ backups \subseteq backups'
           /\ snapshotRef' = snapshotRef \/ SnapshotRef
BY DEF Next, vars, refVars, Boot, SecondDaemon, StartRecovery, Crash, JoinStep, JoinRead,
   JoinCheck, JoinWrite, ReadyToIntegrate, FusionDone, DeveloperStep, Edit, CommitWork,
   CommitCandidate, WriteReport, ExternalMain, RecoveryStep, AdoptLockTask, ClearIdleRow,
   ResumeTask, BackUpTask, BackupFails, RecoverRestore, RecoverUnlock, RecoverClean,
   RecoveryDone, CreateBackupRef, HandlerStep, CatchUpNothing, CatchUpFastForward, CaughtUp,
   DirectLock, DirectDecline, DirectRecheck, DirectCommit, DirectCompare, DirectFails,
   DirectUnlock, ForwardMain, ForceMain, ForwardRefused, PublishedClean, PublishedSeen,
   PublishedRelease, ClaimIntegrationTask, StartRefused, FreezeAcknowledged, PrepareLockedSync,
   Snapshot, SnapshotRef, BaseRef, MergeBegin, GitMerge, ValidateMerge, MergeUnlock,
   ResetToLatest, WriteTaskFile, Fusing, PromptDelivered, StartFails, AbortRestore, AbortUnlock,
   AbortClean, NormalizeActiveTask, CheckCandidate, CheckRefuses, VerifyReport,
   VerifyWithoutReport, Preflight

\* What is saved, one atom at a time.
LEMMA SavedAtoms ==
    \A a : a \in Saved <=> \/ a \in main
                           \/ \E b \in backups : a \in b
                           \/ \E t \in Task : a \in snapshotRef[t]
<1> SUFFICES ASSUME NEW a
             PROVE  a \in Saved <=> \/ a \in main
                                    \/ \E b \in backups : a \in b
                                    \/ \E t \in Task : a \in snapshotRef[t]
  OBVIOUS
<1> DEFINE B == UNION backups
           C == UNION {snapshotRef[t] : t \in Task}
<1>1. a \in B <=> \E b \in backups : a \in b
  OBVIOUS
<1>2. a \in C <=> \E t \in Task : a \in snapshotRef[t]
  OBVIOUS
<1>3. Saved = main \cup B \cup C
  BY DEF Saved
<1> HIDE DEF B, C
<1> QED
  BY <1>1, <1>2, <1>3

\* The same, of the next state.
LEMMA SavedAtomsNext ==
    \A a : a \in Saved' <=> \/ a \in main'
                            \/ \E b \in backups' : a \in b
                            \/ \E t \in Task : a \in snapshotRef'[t]
<1> SUFFICES ASSUME NEW a
             PROVE  a \in Saved' <=> \/ a \in main'
                                     \/ \E b \in backups' : a \in b
                                     \/ \E t \in Task : a \in snapshotRef'[t]
  OBVIOUS
<1> DEFINE B == UNION backups'
           C == UNION {snapshotRef'[t] : t \in Task}
<1>1. a \in B <=> \E b \in backups' : a \in b
  OBVIOUS
<1>2. a \in C <=> \E t \in Task : a \in snapshotRef'[t]
  OBVIOUS
<1>3. Saved' = main' \cup B \cup C
  BY DEF Saved
<1> HIDE DEF B, C
<1> QED
  BY <1>1, <1>2, <1>3

\* What is saved stays saved.
LEMMA SavedStays ==
    ASSUME TypeOK, Shape, WorkInv, [Next]_vars
    PROVE  Saved \cap Authored \subseteq Saved'
<1> SUFFICES ASSUME NEW a \in Authored, a \in Saved
             PROVE  a \in Saved'
  OBVIOUS
<1>1. \/ a \in main' \/ \E b \in backups' : a \in b
      \/ \E t \in Task : a \in snapshotRef[t]
  BY SavedAtoms, RefsStay, NextFirm DEF WorkInv
<1>2. ASSUME NEW t \in Task, a \in snapshotRef[t]
      PROVE  a \in snapshotRef'[t]
  <2>1. a \notin NoCommit
    BY DEF Authored, NoCommit
  <2>2. CASE SnapshotRef
    <3>1. /\ req.pc = "snapRef" /\ snapshotRef \in [Task -> MaybeCommit]
          /\ snapshotRef' = [snapshotRef EXCEPT ![req.task] = req.cand]
          /\ snapshotRef[req.task] = NoCommit
      BY <2>2 DEF SnapshotRef, At, task, TypeOK, WorkInv, SavedByRequest
    <3>2. t # req.task
      BY <1>2, <2>1, <3>1
    <3> QED
      BY <1>2, <3>1, <3>2
  <2> QED
    BY <1>2, <2>2, RefsStay
<1> QED
  BY <1>1, <1>2, SavedAtomsNext

\* A worktree is reset.
Resetting(s) ==
    \/ req.cur = s /\ req.pc \in {"fallback", "reset"}
    \/ req.cur = s /\ req.pc = "restore" /\ snapshotRef[req.task] # NoCommit
    \/ rec.cur = s /\ rec.pc = "restore"

\* What a step may do to a worktree: leave or commit what is there; add to it,
\* by a developer or Codex at a time when it is theirs; merge main into it; or
\* reset it, to something saved.
WorkMove(s) ==
    \/ Work(s)' = Work(s)
    \/ Work(s) \subseteq Work(s)' /\ s \notin {req.cur, rec.cur}
    \/ Work(s) \subseteq Work(s)' /\ Work(s)' \cap Authored \subseteq Work(s) \cup main
    \/ Work(s)' \subseteq Saved /\ Resetting(s)

\* A step of the handler.
LEMMA HandlerWork ==
    ASSUME TypeOK, Shape, WorkInv, HandlerStep, NEW s \in Sessions
    PROVE  WorkMove(s)
<1> USE DEF WorkMove, Work, CommitOf
<1>a. head \in [Sessions -> Commit] /\ dirty \in [Sessions -> Commit]
  BY DEF TypeOK
<1>b. main \subseteq Saved /\ \A t \in Task : snapshotRef[t] \subseteq Saved
  BY SavedAtoms
<1>c. req.latest \subseteq main
  BY FirmIsMain DEF WorkInv, SavedByRequest, IsAncestor
<1>1. CASE CatchUpFastForward
  BY <1>1, <1>a DEF CatchUpFastForward, IsAncestor
<1>2. CASE DirectCommit \/ Snapshot
  BY <1>2, <1>a DEF DirectCommit, Snapshot, CommitAll
<1>3. CASE GitMerge
  <2>1. <<"merge", task>> \notin Authored
    BY DEF Authored
  <2> QED
    BY <1>3, <1>a, <1>c, <2>1 DEF GitMerge, MergeOf
<1>4. CASE ResetToLatest
  <2>1. /\ req.pc \in {"fallback", "reset"}
        /\ head' = [head EXCEPT ![req.cur] = req.latest] /\ dirty' = [dirty EXCEPT ![req.cur] = {}]
    BY <1>4 DEF ResetToLatest, ResetHard, At, cur
  <2>2. CASE s = req.cur
    <3>1. Work(s)' = req.latest
      BY <2>1, <2>2, <1>a
    <3> QED
      BY <2>1, <2>2, <3>1, <1>b, <1>c DEF Resetting
  <2>3. CASE s # req.cur
    BY <2>1, <2>3, <1>a
  <2> QED
    BY <2>2, <2>3
<1>5. CASE AbortRestore
  <2>1. /\ req.pc = "restore" /\ req.task \in Task
        /\ \/ UNCHANGED <<head, dirty>>
           \/ /\ snapshotRef[req.task] # NoCommit
              /\ head' = [head EXCEPT ![req.cur] = snapshotRef[req.task]]
              /\ dirty' = [dirty EXCEPT ![req.cur] = {}]
    BY <1>5 DEF AbortRestore, RestoreTaskSnapshotIfPossible, ResetHard, At, cur, task, Shape
  <2>2. CASE s = req.cur /\ ~UNCHANGED <<head, dirty>>
    <3>1. Work(s)' = snapshotRef[req.task]
      BY <2>1, <2>2, <1>a
    <3> QED
      BY <2>1, <2>2, <3>1, <1>b DEF Resetting
  <2>3. CASE s # req.cur \/ UNCHANGED <<head, dirty>>
    BY <2>1, <2>3, <1>a
  <2> QED
    BY <2>2, <2>3
<1>6. CASE CatchUpNothing \/ CaughtUp \/ DirectLock \/ DirectDecline \/ DirectRecheck \/
           DirectCompare \/ DirectFails \/ DirectUnlock \/ ForwardMain \/ ForceMain \/
           ForwardRefused \/ PublishedClean \/ PublishedSeen \/ PublishedRelease \/
           ClaimIntegrationTask \/ StartRefused \/ FreezeAcknowledged \/ PrepareLockedSync \/
           SnapshotRef \/ BaseRef \/ MergeBegin \/ ValidateMerge \/ MergeUnlock \/ WriteTaskFile
           \/ Fusing \/ PromptDelivered \/ StartFails \/ AbortUnlock \/ AbortClean \/
           NormalizeActiveTask \/ CheckCandidate \/ CheckRefuses \/ VerifyReport \/
           VerifyWithoutReport \/ Preflight
  <2>1. UNCHANGED <<head, dirty>>
    BY <1>6 DEF gitVars, CatchUpNothing, CaughtUp, DirectLock, DirectDecline, DirectRecheck,
       DirectCompare, DirectFails, DirectUnlock, ForwardMain, ForceMain, ForwardRefused,
       PublishedClean, PublishedSeen, PublishedRelease, ClaimIntegrationTask, StartRefused,
       FreezeAcknowledged, PrepareLockedSync, SnapshotRef, BaseRef, MergeBegin, ValidateMerge,
       MergeUnlock, WriteTaskFile, Fusing, PromptDelivered, StartFails, AbortUnlock, AbortClean,
       NormalizeActiveTask, CheckCandidate, CheckRefuses, VerifyReport, VerifyWithoutReport,
       Preflight
  <2> QED
    BY <2>1
<1> QED
  BY <1>1, <1>2, <1>3, <1>4, <1>5, <1>6 DEF HandlerStep

\* Every step, if developers leave a worktree alone while it is synced.
LEMMA NextWork ==
    ASSUME QuietDeveloper, TypeOK, Shape, WorkInv, [Next]_vars, NEW s \in Sessions
    PROVE  WorkMove(s)
<1>1. CASE HandlerStep
  BY <1>1, HandlerWork
<1>2. CASE RecoverRestore
  <2>1. rec.pc = "restore" /\ TaskToRecover(rec.cur) \in Task
    BY <1>2 DEF RecoverRestore, Shape
  <2>2. \A t \in Task : snapshotRef[t] \subseteq Saved
    BY SavedAtoms
  <2> QED
    BY <1>2, <2>1, <2>2 DEF RecoverRestore, RestoreTaskSnapshotIfPossible, ResetHard, TypeOK,
       WorkMove, Work, CommitOf, Resetting
<1>3. ASSUME NEW r \in Sessions, DeveloperStep(r) PROVE WorkMove(s)
  <2>1. r \notin {req.cur, rec.cur}
    BY <1>3 DEF DeveloperStep, Edit, CommitWork, CommitCandidate, WriteReport, MayTouch
  <2>2. \A q \in Sessions : q # r => UNCHANGED <<head[q], dirty[q]>>
    BY <1>3 DEF DeveloperStep, Edit, CommitWork, CommitCandidate, WriteReport, CommitAll,
       gitVars, TypeOK
  <2>3. Work(r) \subseteq Work(r)'
    BY <1>3 DEF DeveloperStep, Edit, CommitWork, CommitCandidate, WriteReport, CommitAll,
       gitVars, TypeOK, Work, CommitOf
  <2> QED
    BY <2>1, <2>2, <2>3 DEF WorkMove, Work, CommitOf
<1>4. ASSUME UNCHANGED <<head, dirty>> PROVE WorkMove(s)
  BY <1>4 DEF WorkMove, Work, CommitOf
<1>5. \/ UNCHANGED <<head, dirty>> \/ HandlerStep \/ RecoverRestore
      \/ \E r \in Sessions : DeveloperStep(r)
  BY DEF Next, vars, gitVars, Boot, SecondDaemon, StartRecovery, Crash, JoinStep, JoinRead,
     JoinCheck, JoinWrite, ReadyToIntegrate, FusionDone, ExternalMain, RecoveryStep,
     AdoptLockTask, ClearIdleRow, ResumeTask, BackUpTask, BackupFails, RecoverUnlock,
     RecoverClean, RecoveryDone
<1> QED
  BY <1>1, <1>2, <1>3, <1>4, <1>5

\* What is saved of a worktree that is worked on stays saved.
LEMMA SavedAgain ==
    ASSUME QuietDeveloper, TypeOK, Shape, WorkInv, [Next]_vars,
           NEW s \in {req.cur, rec.cur}
    PROVE  s \in SavedWorktrees => s \in SavedWorktrees'
<1> SUFFICES ASSUME s \in SavedWorktrees PROVE s \in SavedWorktrees'
  OBVIOUS
<1>1. s \in Sessions /\ Work(s) \cap Authored \subseteq Saved
  BY DEF SavedWorktrees
<1>2. main \subseteq Saved
  BY SavedAtoms
<1>3. Work(s)' \cap Authored \subseteq Saved
  BY <1>1, <1>2, NextWork DEF WorkMove
<1> QED
  BY <1>1, <1>3, SavedStays DEF SavedWorktrees

\* A step of the handler.
LEMMA HandlerWorkInv ==
    ASSUME QuietDeveloper, TypeOK, Shape, ModeInv, TaskIds, WorkInv, HandlerStep
    PROVE  SavedByRequest'
<1> USE DEF SavedByRequest
<1>a. /\ req \in Request /\ SavedByRequest
      /\ req.pc \in StartTry \cup {"merge", "validate"} => req.mode = "merge"
      /\ req.pc \in {"recheck", "commit", "compare"} => req.mode = "direct"
      /\ req.pc \in {"verify", "preflight"} => req.mode = "fused"
      /\ [Next]_vars
  BY DEF TypeOK, WorkInv, ModeInv, Next
<1>b. /\ req.cur \in SavedWorktrees => req.cur \in SavedWorktrees'
      /\ IsAncestor(req.latest, FirmMain') /\ IsAncestor(Root, FirmMain') /\ main' \in Commit
  BY <1>a, SavedAgain, NextType, NextFirm DEF IsAncestor, Root, TypeOK
<1>c. req.pc # "idle" => /\ req.cur \in Sessions
                        /\ head[req.cur] \in Commit /\ Work(req.cur) \in Commit
  BY WorkType DEF TypeOK, Shape
<1>d. req.pc = "start" => snapshotRef[used.tasks + 1] = NoCommit
  BY ConstantsAssumption DEF TypeOK, Usage, Shape, TaskIds, Task
<1>e. main \in Commit /\ (req.pc # "force" => IsAncestor(main, FirmMain'))
  BY <1>a, NextFirm, FirmIsMain DEF TypeOK
<1>1. CASE CatchUpNothing
  BY <1>1, <1>a, <1>b, <1>c, <1>d, <1>e, FinishType DEF CatchUpNothing, At, envVars, cur,
     gitVars, refVars, fileVars, StartTry
<1>2. CASE CatchUpFastForward
  BY <1>2, <1>a, <1>b, <1>c, <1>d, <1>e, GotoWithLatestType, FinishType DEF CatchUpFastForward,
     At, envVars, cur, Pc, DirectTry, StartTry, refVars, fileVars, gitVars
<1>3. CASE CaughtUp
  BY <1>3, <1>a, <1>b, <1>c, <1>d, <1>e, FinishType DEF CaughtUp, At, envVars, cur, gitVars,
     refVars, fileVars, StartTry
<1>4. CASE DirectLock
  BY <1>4, <1>a, <1>b, <1>c, <1>d, <1>e DEF DirectLock, At, envVars, cur, task, Request,
     gitVars, refVars, fileVars, StartTry
<1>5. CASE DirectDecline
  BY <1>5, <1>a, <1>b, <1>c, <1>d, <1>e, GotoType, FinishType DEF DirectDecline, At, envVars,
     Pc, DirectTry, StartTry, gitVars, refVars, fileVars
<1>6. CASE DirectRecheck
  BY <1>6, <1>a, <1>b, <1>c, <1>d, <1>e, GotoWithLatestType, GotoType DEF DirectRecheck, At,
     envVars, cur, task, Pc, DirectTry, StartTry, gitVars, refVars, fileVars
<1>7. CASE DirectCommit
  BY <1>7, <1>a, <1>b, <1>c, <1>d, <1>e, GotoWithCandidateType, GotoType DEF DirectCommit, At,
     envVars, cur, Pc, DirectTry, StartTry, CommitAll, refVars, fileVars, gitVars
<1>8. CASE DirectCompare
  BY <1>8, <1>a, <1>b, <1>c, <1>d, <1>e, GotoType DEF DirectCompare, At, envVars, cur, Pc,
     DirectTry, StartTry, gitVars, refVars, fileVars
<1>9. CASE DirectFails
  BY <1>9, <1>a, <1>b, <1>c, <1>d, <1>e, GotoType DEF DirectFails, At, envVars, cur, Pc,
     DirectTry, StartTry, gitVars, refVars, fileVars
<1>10. CASE DirectUnlock
  BY <1>10, <1>a, <1>b, <1>c, <1>d, <1>e, GotoType, FinishType DEF DirectUnlock, At, envVars,
     cur, task, Pc, DirectTry, StartTry, ReleaseLockIfOwned, gitVars, refVars, fileVars
<1>11. CASE ForwardMain
  BY <1>11, <1>a, <1>b, <1>c, <1>d, <1>e, GotoType DEF ForwardMain, At, envVars, Pc, DirectTry,
     StartTry, refVars, fileVars, gitVars
<1>12. CASE ForceMain
  BY <1>12, <1>a, <1>b, <1>c, <1>d, <1>e, GotoType DEF ForceMain, At, envVars, Pc, DirectTry,
     StartTry, refVars, fileVars, gitVars
<1>13. CASE ForwardRefused
  BY <1>13, <1>a, <1>b, <1>c, <1>d, <1>e, GotoType, FinishType DEF ForwardRefused, At, envVars,
     cur, task, Pc, DirectTry, StartTry, gitVars, refVars, fileVars
<1>14. CASE PublishedClean
  BY <1>14, <1>a, <1>b, <1>c, <1>d, <1>e, GotoType DEF PublishedClean, At, envVars, cur, Pc,
     DirectTry, StartTry, gitVars, refVars, fileVars
<1>15. CASE PublishedSeen
  BY <1>15, <1>a, <1>b, <1>c, <1>d, <1>e, GotoType DEF PublishedSeen, At, envVars, cur, Pc,
     DirectTry, StartTry, gitVars, refVars, fileVars
<1>16. CASE PublishedRelease
  BY <1>16, <1>a, <1>b, <1>c, <1>d, <1>e, FinishType DEF PublishedRelease, At, envVars, cur,
     task, ReleaseLockIfOwned, gitVars, refVars, fileVars, StartTry
<1>17. CASE ClaimIntegrationTask
  BY <1>17, <1>a, <1>b, <1>c, <1>d, <1>e DEF ClaimIntegrationTask, At, envVars, cur, task,
     Request, gitVars, refVars, fileVars, StartTry
<1>18. CASE StartRefused
  BY <1>18, <1>a, <1>b, <1>c, <1>d, <1>e, FinishType DEF StartRefused, At, envVars, gitVars,
     refVars, fileVars, StartTry
<1>19. CASE FreezeAcknowledged
  BY <1>19, <1>a, <1>b, <1>c, <1>d, <1>e, GotoType DEF FreezeAcknowledged, At, envVars, cur,
     task, Pc, DirectTry, StartTry, gitVars, refVars, fileVars
<1>20. CASE PrepareLockedSync
  BY <1>20, <1>a, <1>b, <1>c, <1>d, <1>e, GotoType DEF PrepareLockedSync, At, envVars, cur,
     task, Pc, DirectTry, StartTry, gitVars, refVars, fileVars
<1>21. CASE Snapshot
  <2>1. /\ req'.pc = "snapRef" /\ req'.cur = req.cur /\ req'.latest = main
        /\ req'.cand = Work(req.cur) /\ req'.task = req.task /\ UNCHANGED snapshotRef
        /\ req.pc = "snapshot" /\ main' = main
        /\ head' = [head EXCEPT ![req.cur] = Work(req.cur)]
        /\ dirty' = [dirty EXCEPT ![req.cur] = {}]
    BY <1>21, <1>a, <1>c DEF Snapshot, CommitAll, At, cur, Request, refVars
  <2>2. Work(req.cur)' = req'.cand
    BY <2>1, <1>c DEF TypeOK, Work, CommitOf
  <2> QED
    BY <2>1, <2>2, <1>a, <1>b, <1>c, <1>e DEF IsAncestor
<1>22. CASE SnapshotRef
  <2>1. /\ req.pc = "snapRef" /\ req'.pc = "baseRef" /\ req'.cur = req.cur
        /\ req'.latest = req.latest /\ UNCHANGED <<head, dirty>>
        /\ snapshotRef' = [snapshotRef EXCEPT ![req.task] = req.cand] /\ req.task \in Task
    BY <1>22, <1>a, GotoType DEF SnapshotRef, At, task, Pc, StartTry, gitVars, Shape
  <2>2. Work(req.cur) \cap Authored \subseteq Saved'
    <3>1. snapshotRef'[req.task] = req.cand
      BY <2>1 DEF TypeOK
    <3>2. req.cand \subseteq Saved'
      BY <2>1, <3>1, SavedAtomsNext
    <3> QED
      BY <2>1, <3>2, <1>a, SavedStays
  <2>3. req'.cur \in SavedWorktrees'
    BY <2>1, <2>2, <1>c DEF SavedWorktrees, Work, CommitOf
  <2> QED
    BY <2>1, <2>3, <1>b
<1>23. CASE BaseRef
  BY <1>23, <1>a, <1>b, <1>c, <1>d, <1>e, GotoType DEF BaseRef, At, envVars, task, Pc,
     DirectTry, StartTry, gitVars, fileVars, refVars
<1>24. CASE MergeBegin
  BY <1>24, <1>a, <1>b, <1>c, <1>d, <1>e, GotoType DEF MergeBegin, At, envVars, cur, task, Pc,
     DirectTry, StartTry, gitVars, refVars, fileVars
<1>25. CASE GitMerge
  BY <1>25, <1>a, <1>b, <1>c, <1>d, <1>e, GotoType DEF GitMerge, At, envVars, cur, task, Pc,
     DirectTry, StartTry, refVars, fileVars, gitVars
<1>26. CASE ValidateMerge
  BY <1>26, <1>a, <1>b, <1>c, <1>d, <1>e, GotoWithCandidateType, GotoType DEF ValidateMerge, At,
     envVars, cur, task, Pc, DirectTry, StartTry, gitVars, refVars, fileVars
<1>27. CASE MergeUnlock
  BY <1>27, <1>a, <1>b, <1>c, <1>d, <1>e, GotoType DEF MergeUnlock, At, envVars, cur, task, Pc,
     DirectTry, StartTry, ReleaseLockIfOwned, gitVars, refVars, fileVars
<1>28. CASE ResetToLatest
  BY <1>28, <1>a, <1>b, <1>c, <1>d, <1>e, GotoType DEF ResetToLatest, At, envVars, cur, Pc,
     DirectTry, StartTry, refVars, fileVars, gitVars
<1>29. CASE WriteTaskFile
  BY <1>29, <1>a, <1>b, <1>c, <1>d, <1>e, GotoType DEF WriteTaskFile, At, envVars, task, Pc,
     DirectTry, StartTry, gitVars, refVars
<1>30. CASE Fusing
  BY <1>30, <1>a, <1>b, <1>c, <1>d, <1>e, GotoType DEF Fusing, At, envVars, cur, task, Pc,
     DirectTry, StartTry, gitVars, refVars, fileVars
<1>31. CASE PromptDelivered
  BY <1>31, <1>a, <1>b, <1>c, <1>d, <1>e, FinishType DEF PromptDelivered, At, envVars, gitVars,
     refVars, fileVars, StartTry
<1>32. CASE StartFails
  BY <1>32, <1>a, <1>b, <1>c, <1>d, <1>e, GotoType DEF StartFails, At, envVars, Pc, DirectTry,
     StartTry, gitVars, refVars, fileVars
<1>33. CASE AbortRestore
  BY <1>33, <1>a, <1>b, <1>c, <1>d, <1>e, GotoType DEF AbortRestore, At, envVars, cur, task, Pc,
     DirectTry, StartTry, refVars, fileVars, gitVars
<1>34. CASE AbortUnlock
  BY <1>34, <1>a, <1>b, <1>c, <1>d, <1>e, GotoType DEF AbortUnlock, At, envVars, cur, task, Pc,
     DirectTry, StartTry, ReleaseLockIfOwned, gitVars, refVars, fileVars
<1>35. CASE AbortClean
  BY <1>35, <1>a, <1>b, <1>c, <1>d, <1>e, FinishType DEF AbortClean, At, envVars, cur, gitVars,
     refVars, fileVars, StartTry
<1>36. CASE NormalizeActiveTask
  BY <1>36, <1>a, <1>b, <1>c, <1>d, <1>e DEF NormalizeActiveTask, At, envVars, cur, task,
     Request, gitVars, refVars, fileVars, StartTry
<1>37. CASE CheckCandidate
  BY <1>37, <1>a, <1>b, <1>c, <1>d, <1>e, GotoType DEF CheckCandidate, At, envVars, cur, task,
     Pc, DirectTry, StartTry, gitVars, refVars, fileVars
<1>38. CASE CheckRefuses
  BY <1>38, <1>a, <1>b, <1>c, <1>d, <1>e, FinishType DEF CheckRefuses, At, envVars, cur, task,
     gitVars, refVars, fileVars, StartTry
<1>39. CASE VerifyReport
  BY <1>39, <1>a, <1>b, <1>c, <1>d, <1>e, GotoType, FinishType DEF VerifyReport, At, envVars,
     cur, task, Pc, DirectTry, StartTry, gitVars, refVars, fileVars
<1>40. CASE VerifyWithoutReport
  BY <1>40, <1>a, <1>b, <1>c, <1>d, <1>e, FinishType DEF VerifyWithoutReport, At, envVars, cur,
     task, gitVars, refVars, fileVars, StartTry
<1>41. CASE Preflight
  BY <1>41, <1>a, <1>b, <1>c, <1>d, <1>e, GotoType, FinishType DEF Preflight, At, envVars, Pc,
     DirectTry, StartTry, gitVars, refVars, fileVars
<1> QED
  BY <1>1, <1>2, <1>3, <1>4, <1>5, <1>6, <1>7, <1>8, <1>9, <1>10, <1>11, <1>12, <1>13, <1>14,
     <1>15, <1>16, <1>17, <1>18, <1>19, <1>20, <1>21, <1>22, <1>23, <1>24, <1>25, <1>26, <1>27,
     <1>28, <1>29, <1>30, <1>31, <1>32, <1>33, <1>34, <1>35, <1>36, <1>37, <1>38, <1>39, <1>40,
     <1>41 DEF HandlerStep

\* Every step.
LEMMA NextWorkInv ==
    ASSUME QuietDeveloper, TypeOK, Shape, ModeInv, TaskIds, WorkInv, [Next]_vars
    PROVE  WorkInv'
<1>a. req \in Request /\ rec \in Recovery
  BY DEF TypeOK
<1>1. ASSUME UNCHANGED req, UNCHANGED snapshotRef PROVE SavedByRequest'
  <2>1. req.cur \in SavedWorktrees => req.cur \in SavedWorktrees'
    BY SavedAgain
  <2>2. req.pc = "snapRef" => Work(req.cur)' \cap Authored \subseteq Saved' \cup req'.cand
    <3>1. SUFFICES ASSUME req.pc = "snapRef"
                   PROVE  Work(req.cur)' \cap Authored \subseteq Saved' \cup req'.cand
      OBVIOUS
    <3>2. /\ req.cur \in Sessions /\ main \subseteq Saved
          /\ Work(req.cur) \cap Authored \subseteq Saved \cup req.cand
      BY <3>1, SavedAtoms DEF Shape, WorkInv, SavedByRequest
    <3>3. ASSUME NEW s \in Sessions, s = req.cur
          PROVE  Work(s)' \cap Authored \subseteq Saved \cup req.cand
      BY <3>1, <3>2, <3>3, NextWork DEF WorkMove
    <3> QED
      BY <1>1, <3>2, <3>3, SavedStays
  <2> QED
    BY <1>1, <2>1, <2>2, NextFirm DEF WorkInv, SavedByRequest, IsAncestor
<1>b. ForcedKeepsWork'
  BY NextFirm DEF WorkInv
<1>2. ASSUME UNCHANGED rec \/ rec'.pc # "restore" PROVE SavedByRecovery'
  BY <1>2, SavedAgain DEF WorkInv, SavedByRecovery
<1>3. CASE HandlerStep
  <2>1. UNCHANGED rec
    BY <1>3 DEF HandlerStep, envVars, CatchUpNothing, CatchUpFastForward, CaughtUp, DirectLock,
       DirectDecline, DirectRecheck, DirectCommit, DirectCompare, DirectFails, DirectUnlock,
       ForwardMain, ForceMain, ForwardRefused, PublishedClean, PublishedSeen, PublishedRelease,
       ClaimIntegrationTask, StartRefused, FreezeAcknowledged, PrepareLockedSync, Snapshot,
       SnapshotRef, BaseRef, MergeBegin, GitMerge, ValidateMerge, MergeUnlock, ResetToLatest,
       WriteTaskFile, Fusing, PromptDelivered, StartFails, AbortRestore, AbortUnlock, AbortClean,
       NormalizeActiveTask, CheckCandidate, CheckRefuses, VerifyReport, VerifyWithoutReport,
       Preflight
  <2> QED
    BY <2>1, <1>b, <1>2, <1>3, HandlerWorkInv DEF WorkInv
<1>4. ASSUME NEW s \in Sessions, BackUpTask(s) PROVE WorkInv'
  <2>1. /\ UNCHANGED <<req, snapshotRef, head, dirty>>
        /\ backups' = backups \cup {Work(s)} /\ rec'.cur = s
    BY <1>4, <1>a DEF BackUpTask, CreateBackupRef, gitVars, Recovery
  <2>2. Work(s) \subseteq Saved'
    BY <2>1, SavedAtomsNext
  <2>3. s \in SavedWorktrees'
    BY <2>1, <2>2 DEF SavedWorktrees, Work, CommitOf
  <2> QED
    BY <2>1, <2>3, <1>b, <1>1 DEF WorkInv, SavedByRecovery
<1>5. ASSUME UNCHANGED <<req, snapshotRef>>, UNCHANGED rec \/ rec'.pc # "restore" PROVE WorkInv'
  BY <1>b, <1>1, <1>2, <1>5 DEF WorkInv
<1>6. CASE \/ UNCHANGED vars \/ Boot \/ SecondDaemon \/ JoinStep \/ ExternalMain
           \/ \E s \in Sessions : \/ DeveloperStep(s) \/ AdoptLockTask(s) \/ ClearIdleRow(s)
                                  \/ ResumeTask(s) \/ BackupFails(s)
           \/ RecoverRestore \/ RecoverUnlock \/ RecoverClean \/ RecoveryDone
  <2>1. UNCHANGED <<req, snapshotRef>>
    BY <1>6 DEF vars, refVars, Boot, SecondDaemon, StartRecovery, JoinStep, JoinRead, JoinCheck,
       JoinWrite, ExternalMain, DeveloperStep, Edit, CommitWork, CommitCandidate, WriteReport,
       AdoptLockTask, ClearIdleRow, ResumeTask, BackupFails, RecoverRestore, RecoverUnlock,
       RecoverClean, RecoveryDone
  <2>2. CASE \/ UNCHANGED vars \/ JoinStep \/ ExternalMain
             \/ \E s \in Sessions : DeveloperStep(s)
    <3>1. UNCHANGED rec
      BY <2>2 DEF vars, JoinStep, JoinRead, JoinCheck, JoinWrite, ExternalMain, DeveloperStep,
         Edit, CommitWork, CommitCandidate, WriteReport
    <3> QED
      BY <2>1, <3>1, <1>5
  <2>3. CASE Boot \/ SecondDaemon \/ RecoveryDone
    <3>1. Boot \/ SecondDaemon => rec'.pc # "restore"
      BY <1>a DEF Boot, SecondDaemon, StartRecovery, Recovery
    <3>2. RecoveryDone => rec'.pc # "restore"
      BY DEF RecoveryDone, NotRecovering
    <3> QED
      BY <2>1, <2>3, <3>1, <3>2, <1>5
  <2>4. CASE \/ RecoverRestore \/ RecoverUnlock \/ RecoverClean
             \/ \E s \in Sessions : AdoptLockTask(s) \/ ClearIdleRow(s) \/ ResumeTask(s) \/ BackupFails(s)
    <3>1. rec'.pc # "restore"
      BY <2>4, <1>a DEF AdoptLockTask, ClearIdleRow, ResumeTask, BackupFails, RecoverRestore,
         RecoverUnlock, RecoverClean, NextSession, GotoRecovery, Recovery
    <3> QED
      BY <2>1, <3>1, <1>5
  <2> QED
    BY <1>6, <2>2, <2>3, <2>4
<1>7. CASE Crash
  <2>1. /\ req' \in {req, Idle} /\ UNCHANGED snapshotRef
        /\ UNCHANGED rec \/ rec'.pc # "restore"
    BY <1>7 DEF Crash, NotRecovering, refVars
  <2>2. CASE req' = Idle
    <3>1. SavedByRequest'
      BY <2>2 DEF Idle, SavedByRequest, IsAncestor, Root
    <3> QED
      BY <1>b, <1>2, <2>1, <3>1 DEF WorkInv
  <2> QED
    BY <2>1, <2>2, <1>5
<1>8. ASSUME NEW s \in Sessions, ReadyToIntegrate(s) \/ FusionDone(s) PROVE WorkInv'
  <2>1. UNCHANGED <<snapshotRef, rec>>
    BY <1>8 DEF ReadyToIntegrate, FusionDone, refVars, envVars
  <2>2. UNCHANGED req \/ (req'.latest = Root /\ req'.pc \in {"direct", "catchup", "normalize"})
    BY <1>8 DEF ReadyToIntegrate, FusionDone, Idle
  <2>3. req'.latest = Root /\ req'.pc \in {"direct", "catchup", "normalize"} => SavedByRequest'
    BY DEF SavedByRequest, IsAncestor, Root
  <2> QED
    BY <2>1, <2>2, <2>3, <1>b, <1>1, <1>2 DEF WorkInv
<1> QED
  BY <1>3, <1>4, <1>6, <1>7, <1>8 DEF Next, RecoveryStep

\* Initially nothing is under way.
LEMMA WorkInitially == Init => WorkInv
BY DEF Init, Idle, NotRecovering, WorkInv, SavedByRequest, SavedByRecovery, ForcedKeepsWork,
   IsAncestor, Root

\* What is kept, one atom at a time.
LEMMA KeptAtoms ==
    \A a : a \in Kept <=> a \in Saved \/ \E s \in Sessions : a \in Work(s)
<1> SUFFICES ASSUME NEW a
             PROVE  a \in Kept <=> a \in Saved \/ \E s \in Sessions : a \in Work(s)
  OBVIOUS
<1> DEFINE A == UNION {Work(s) : s \in Sessions}
           B == UNION backups
           C == UNION {snapshotRef[t] : t \in Task}
<1>1. a \in A <=> \E s \in Sessions : a \in Work(s)
  OBVIOUS
<1>2. Kept = main \cup A \cup B \cup C /\ Saved = main \cup B \cup C
  BY DEF Kept, Saved
<1> HIDE DEF A, B, C
<1> QED
  BY <1>1, <1>2

\* The same, of the next state.
LEMMA KeptAtomsNext ==
    \A a : a \in Kept' <=> a \in Saved' \/ \E s \in Sessions : a \in Work(s)'
<1> SUFFICES ASSUME NEW a
             PROVE  a \in Kept' <=> a \in Saved' \/ \E s \in Sessions : a \in Work(s)'
  OBVIOUS
<1> DEFINE A == UNION {Work(s)' : s \in Sessions}
           B == UNION backups'
           C == UNION {snapshotRef'[t] : t \in Task}
<1>1. a \in A <=> \E s \in Sessions : a \in Work(s)'
  OBVIOUS
<1>2. Kept' = main' \cup A \cup B \cup C /\ Saved' = main' \cup B \cup C
  BY DEF Kept, Saved
<1> HIDE DEF A, B, C
<1> QED
  BY <1>1, <1>2

\* No step drops work.
LEMMA NextKept ==
    ASSUME QuietDeveloper, TypeOK, Shape, WorkInv, [Next]_vars
    PROVE  WorkKept \subseteq WorkKept'
<1> SUFFICES ASSUME NEW a \in Authored, a \in Kept PROVE a \in Kept'
  BY DEF WorkKept, Authored
<1>1. a \in Saved => a \in Kept'
  BY SavedStays, KeptAtomsNext
<1>2. ASSUME NEW s \in Sessions, a \in Work(s), a \notin Saved PROVE a \in Kept'
  <2>1. ~(Resetting(s) /\ s \in SavedWorktrees)
    BY <1>2 DEF SavedWorktrees
  <2>2. Resetting(s) => s \in SavedWorktrees
    BY DEF Resetting, WorkInv, SavedByRequest, SavedByRecovery
  <2>3. a \in Work(s)'
    BY <1>2, <2>1, <2>2, NextWork DEF WorkMove
  <2> QED
    BY <2>3, KeptAtomsNext
<1> QED
  BY <1>1, <1>2, KeptAtoms

\* The property NoWorkLost: as long as developers leave a worktree alone while
\* it is synced, nothing that a developer or Codex wrote is dropped, however
\* often the daemon dies, whatever is started beside it, whoever else moves
\* main, and whichever backups fail.
THEOREM WorkIsNotLost ==
    ASSUME QuietDeveloper
    PROVE  Spec => NoWorkLost
<1> DEFINE Inv == TypeOK /\ Shape /\ ModeInv /\ TaskIds /\ WorkInv
<1>1. Init => Inv
  BY InitType, ModeInitially, IdsInitially, WorkInitially
<1>2. Inv /\ [Next]_vars => Inv' /\ [WorkKept \subseteq WorkKept']_vars
  BY NextType, NextMode, NextTaskIds, NextWorkInv, NextKept
<1> QED
  BY <1>1, <1>2, PTL DEF Spec, NoWorkLost

-----------------------------------------------------------------------------
(* What is acknowledged is on main.                                        *)

\* A step of the handler.
LEMMA HandlerAsked ==
    ASSUME TypeOK, Shape, HoldInv, AskedInv, HandlerStep
    PROVE  AskedInv'
<1> USE DEF AskedInv, AskedIsThere, Work, CommitOf, IsAncestor
<1>a. /\ req \in Request /\ main \in Commit /\ main' \in Commit /\ AskedInv
      /\ head \in [Sessions -> Commit] /\ dirty \in [Sessions -> Commit]
      /\ snapshotRef \in [Task -> MaybeCommit]
  BY NextType DEF TypeOK, Next
<1>b. /\ req.latest \subseteq FirmMain' /\ Root \subseteq FirmMain'
      /\ req.pc # "force" => FirmMain = main /\ main \subseteq FirmMain'
      /\ FirmMain' \subseteq main'
  BY <1>a, NextFirm, FirmIsMain DEF Root, Next
<1>c. req.pc # "idle" => /\ req.cur \in Sessions
                        /\ head[req.cur] \in Commit /\ Work(req.cur) \in Commit
  BY WorkType DEF TypeOK, Shape
<1>d. /\ req.pc \notin {"idle", "catchup", "caught", "direct", "start"} => req.task \in Task
      /\ req.pc \in {"recheck", "commit", "compare", "forward", "force", "check", "verify", "preflight"}
           => req.cand \subseteq head[req.cur]
  BY DEF Shape, HoldInv, CandidateIsOwn
<1>1. CASE CatchUpNothing
  BY <1>1, <1>a, <1>b, <1>c, <1>d, FinishType DEF CatchUpNothing, At, envVars, cur, gitVars,
     refVars, fileVars, StartTry
<1>2. CASE CatchUpFastForward
  BY <1>2, <1>a, <1>b, <1>c, <1>d, GotoWithLatestType, FinishType DEF CatchUpFastForward, At,
     envVars, cur, Pc, DirectTry, StartTry, refVars, fileVars, gitVars
<1>3. CASE CaughtUp
  BY <1>3, <1>a, <1>b, <1>c, <1>d, FinishType DEF CaughtUp, At, envVars, cur, gitVars, refVars,
     fileVars, StartTry
<1>4. CASE DirectLock
  BY <1>4, <1>a, <1>b, <1>c, <1>d DEF DirectLock, At, envVars, cur, task, Request, gitVars,
     refVars, fileVars, StartTry
<1>5. CASE DirectDecline
  BY <1>5, <1>a, <1>b, <1>c, <1>d, GotoType, FinishType DEF DirectDecline, At, envVars, Pc,
     DirectTry, StartTry, gitVars, refVars, fileVars
<1>6. CASE DirectRecheck
  BY <1>6, <1>a, <1>b, <1>c, <1>d, GotoWithLatestType, GotoType DEF DirectRecheck, At, envVars,
     cur, task, Pc, DirectTry, StartTry, gitVars, refVars, fileVars
<1>7. CASE DirectCommit
  BY <1>7, <1>a, <1>b, <1>c, <1>d, GotoWithCandidateType, GotoType DEF DirectCommit, At,
     envVars, cur, Pc, DirectTry, StartTry, CommitAll, refVars, fileVars, gitVars
<1>8. CASE DirectCompare
  BY <1>8, <1>a, <1>b, <1>c, <1>d, GotoType DEF DirectCompare, At, envVars, cur, Pc, DirectTry,
     StartTry, gitVars, refVars, fileVars
<1>9. CASE DirectFails
  BY <1>9, <1>a, <1>b, <1>c, <1>d, GotoType DEF DirectFails, At, envVars, cur, Pc, DirectTry,
     StartTry, gitVars, refVars, fileVars
<1>10. CASE DirectUnlock
  BY <1>10, <1>a, <1>b, <1>c, <1>d, GotoType, FinishType DEF DirectUnlock, At, envVars, cur,
     task, Pc, DirectTry, StartTry, ReleaseLockIfOwned, gitVars, refVars, fileVars
<1>11. CASE ForwardMain
  BY <1>11, <1>a, <1>b, <1>c, <1>d, GotoType DEF ForwardMain, At, envVars, Pc, DirectTry,
     StartTry, refVars, fileVars, gitVars
<1>12. CASE ForceMain
  BY <1>12, <1>a, <1>b, <1>c, <1>d, GotoType DEF ForceMain, At, envVars, Pc, DirectTry,
     StartTry, refVars, fileVars, gitVars
<1>13. CASE ForwardRefused
  BY <1>13, <1>a, <1>b, <1>c, <1>d, GotoType, FinishType DEF ForwardRefused, At, envVars, cur,
     task, Pc, DirectTry, StartTry, gitVars, refVars, fileVars
<1>14. CASE PublishedClean
  BY <1>14, <1>a, <1>b, <1>c, <1>d, GotoType DEF PublishedClean, At, envVars, cur, Pc,
     DirectTry, StartTry, gitVars, refVars, fileVars
<1>15. CASE PublishedSeen
  BY <1>15, <1>a, <1>b, <1>c, <1>d, GotoType DEF PublishedSeen, At, envVars, cur, Pc, DirectTry,
     StartTry, gitVars, refVars, fileVars
<1>16. CASE PublishedRelease
  BY <1>16, <1>a, <1>b, <1>c, <1>d, FinishType DEF PublishedRelease, At, envVars, cur, task,
     ReleaseLockIfOwned, gitVars, refVars, fileVars, StartTry
<1>17. CASE ClaimIntegrationTask
  BY <1>17, <1>a, <1>b, <1>c, <1>d DEF ClaimIntegrationTask, At, envVars, cur, task, Request,
     gitVars, refVars, fileVars, StartTry
<1>18. CASE StartRefused
  BY <1>18, <1>a, <1>b, <1>c, <1>d, FinishType DEF StartRefused, At, envVars, gitVars, refVars,
     fileVars, StartTry
<1>19. CASE FreezeAcknowledged
  BY <1>19, <1>a, <1>b, <1>c, <1>d, GotoType DEF FreezeAcknowledged, At, envVars, cur, task, Pc,
     DirectTry, StartTry, gitVars, refVars, fileVars
<1>20. CASE PrepareLockedSync
  BY <1>20, <1>a, <1>b, <1>c, <1>d, GotoType DEF PrepareLockedSync, At, envVars, cur, task, Pc,
     DirectTry, StartTry, gitVars, refVars, fileVars
<1>21. CASE Snapshot
  BY <1>21, <1>a, <1>b, <1>c, <1>d DEF Snapshot, At, envVars, cur, Request, CommitAll, refVars,
     fileVars, StartTry, gitVars
<1>22. CASE SnapshotRef
  BY <1>22, <1>a, <1>b, <1>c, <1>d, GotoType DEF SnapshotRef, At, envVars, task, Pc, DirectTry,
     StartTry, gitVars, fileVars, refVars
<1>23. CASE BaseRef
  BY <1>23, <1>a, <1>b, <1>c, <1>d, GotoType DEF BaseRef, At, envVars, task, Pc, DirectTry,
     StartTry, gitVars, fileVars, refVars
<1>24. CASE MergeBegin
  BY <1>24, <1>a, <1>b, <1>c, <1>d, GotoType DEF MergeBegin, At, envVars, cur, task, Pc,
     DirectTry, StartTry, gitVars, refVars, fileVars
<1>25. CASE GitMerge
  BY <1>25, <1>a, <1>b, <1>c, <1>d, GotoType DEF GitMerge, At, envVars, cur, task, Pc,
     DirectTry, StartTry, refVars, fileVars, gitVars
<1>26. CASE ValidateMerge
  BY <1>26, <1>a, <1>b, <1>c, <1>d, GotoWithCandidateType, GotoType DEF ValidateMerge, At,
     envVars, cur, task, Pc, DirectTry, StartTry, gitVars, refVars, fileVars
<1>27. CASE MergeUnlock
  BY <1>27, <1>a, <1>b, <1>c, <1>d, GotoType DEF MergeUnlock, At, envVars, cur, task, Pc,
     DirectTry, StartTry, ReleaseLockIfOwned, gitVars, refVars, fileVars
<1>28. CASE ResetToLatest
  BY <1>28, <1>a, <1>b, <1>c, <1>d, GotoType DEF ResetToLatest, At, envVars, cur, Pc, DirectTry,
     StartTry, refVars, fileVars, gitVars
<1>29. CASE WriteTaskFile
  BY <1>29, <1>a, <1>b, <1>c, <1>d, GotoType DEF WriteTaskFile, At, envVars, task, Pc,
     DirectTry, StartTry, gitVars, refVars
<1>30. CASE Fusing
  BY <1>30, <1>a, <1>b, <1>c, <1>d, GotoType DEF Fusing, At, envVars, cur, task, Pc, DirectTry,
     StartTry, gitVars, refVars, fileVars
<1>31. CASE PromptDelivered
  BY <1>31, <1>a, <1>b, <1>c, <1>d, FinishType DEF PromptDelivered, At, envVars, gitVars,
     refVars, fileVars, StartTry
<1>32. CASE StartFails
  BY <1>32, <1>a, <1>b, <1>c, <1>d, GotoType DEF StartFails, At, envVars, Pc, DirectTry,
     StartTry, gitVars, refVars, fileVars
<1>33. CASE AbortRestore
  BY <1>33, <1>a, <1>b, <1>c, <1>d, GotoType DEF AbortRestore, At, envVars, cur, task, Pc,
     DirectTry, StartTry, refVars, fileVars, gitVars
<1>34. CASE AbortUnlock
  BY <1>34, <1>a, <1>b, <1>c, <1>d, GotoType DEF AbortUnlock, At, envVars, cur, task, Pc,
     DirectTry, StartTry, ReleaseLockIfOwned, gitVars, refVars, fileVars
<1>35. CASE AbortClean
  BY <1>35, <1>a, <1>b, <1>c, <1>d, FinishType DEF AbortClean, At, envVars, cur, gitVars,
     refVars, fileVars, StartTry
<1>36. CASE NormalizeActiveTask
  BY <1>36, <1>a, <1>b, <1>c, <1>d DEF NormalizeActiveTask, At, envVars, cur, task, Request,
     gitVars, refVars, fileVars, StartTry
<1>37. CASE CheckCandidate
  BY <1>37, <1>a, <1>b, <1>c, <1>d, GotoType DEF CheckCandidate, At, envVars, cur, task, Pc,
     DirectTry, StartTry, gitVars, refVars, fileVars
<1>38. CASE CheckRefuses
  BY <1>38, <1>a, <1>b, <1>c, <1>d, FinishType DEF CheckRefuses, At, envVars, cur, task,
     gitVars, refVars, fileVars, StartTry
<1>39. CASE VerifyReport
  BY <1>39, <1>a, <1>b, <1>c, <1>d, GotoType, FinishType DEF VerifyReport, At, envVars, cur,
     task, Pc, DirectTry, StartTry, gitVars, refVars, fileVars
<1>40. CASE VerifyWithoutReport
  BY <1>40, <1>a, <1>b, <1>c, <1>d, FinishType DEF VerifyWithoutReport, At, envVars, cur, task,
     gitVars, refVars, fileVars, StartTry
<1>41. CASE Preflight
  BY <1>41, <1>a, <1>b, <1>c, <1>d, GotoType, FinishType DEF Preflight, At, envVars, Pc,
     DirectTry, StartTry, gitVars, refVars, fileVars
<1> QED
  BY <1>1, <1>2, <1>3, <1>4, <1>5, <1>6, <1>7, <1>8, <1>9, <1>10, <1>11, <1>12, <1>13, <1>14,
     <1>15, <1>16, <1>17, <1>18, <1>19, <1>20, <1>21, <1>22, <1>23, <1>24, <1>25, <1>26, <1>27,
     <1>28, <1>29, <1>30, <1>31, <1>32, <1>33, <1>34, <1>35, <1>36, <1>37, <1>38, <1>39, <1>40,
     <1>41 DEF HandlerStep

\* Every step, as long as requests and recoveries do not meet.
LEMMA NextAsked ==
    ASSUME QuietDeveloper, TypeOK, Shape, HoldInv, AskedInv, [Next]_vars
    PROVE  AskedInv'
<1>1. CASE HandlerStep
  BY <1>1, HandlerAsked
<1>2. ASSUME UNCHANGED <<req, snapshotRef>>,
             req.pc # "idle" => UNCHANGED <<head[req.cur], dirty[req.cur]>>
      PROVE  AskedInv'
  <2>1. req.pc # "force" => main \subseteq main'
    BY NextFirm, FirmIsMain DEF IsAncestor
  <2> QED
    BY <1>2, <2>1, NextFirm DEF AskedInv, AskedIsThere, Work, CommitOf, IsAncestor
<1>3. CASE \/ UNCHANGED vars \/ Boot \/ SecondDaemon \/ JoinStep \/ ExternalMain \/ RecoveryStep
           \/ \E s \in Sessions : DeveloperStep(s)
  <2>1. UNCHANGED <<req, snapshotRef>>
    BY <1>3 DEF vars, refVars, Boot, SecondDaemon, StartRecovery, JoinStep, JoinRead, JoinCheck,
       JoinWrite, ExternalMain, DeveloperStep, Edit, CommitWork, CommitCandidate, WriteReport,
       RecoveryStep, AdoptLockTask, ClearIdleRow, ResumeTask, BackUpTask, BackupFails,
       RecoverRestore, RecoverUnlock, RecoverClean, RecoveryDone
  <2>2. ASSUME req.pc # "idle" PROVE UNCHANGED <<head[req.cur], dirty[req.cur]>>
    <3>1. req.cur \in Sessions /\ rec.pc = "off"
      BY <2>2 DEF Shape, HoldInv, RequestsAlone
    <3>2. CASE \/ UNCHANGED vars \/ Boot \/ SecondDaemon \/ JoinStep \/ ExternalMain \/ RecoveryStep
      BY <3>1, <3>2 DEF vars, gitVars, Boot, SecondDaemon, StartRecovery, JoinStep, JoinRead,
         JoinCheck, JoinWrite, ExternalMain, RecoveryStep, AdoptLockTask, ClearIdleRow,
         ResumeTask, BackUpTask, BackupFails, RecoverRestore, RecoverUnlock, RecoverClean,
         RecoveryDone, Scanning
    <3>3. CASE \E s \in Sessions : DeveloperStep(s)
      <4>1. PICK s \in Sessions : DeveloperStep(s)
        BY <3>3
      <4>2. s # req.cur \/ UNCHANGED <<head, dirty>>
        BY <4>1 DEF DeveloperStep, Edit, CommitWork, CommitCandidate, WriteReport, MayTouch
      <4>3. \A r \in Sessions : r # s => UNCHANGED <<head[r], dirty[r]>>
        BY <4>1 DEF DeveloperStep, Edit, CommitWork, CommitCandidate, WriteReport, CommitAll,
           gitVars, TypeOK
      <4> QED
        BY <2>1, <3>1, <4>2, <4>3
    <3> QED
      BY <1>3, <3>2, <3>3
  <2> QED
    BY <2>1, <2>2, <1>2
<1>4. CASE Crash
  <2>1. req' \in {req, Idle} /\ UNCHANGED <<head, dirty, snapshotRef>>
    BY <1>4 DEF Crash, gitVars, refVars
  <2>2. CASE req' = Idle
    BY <2>2 DEF Idle, AskedInv, AskedIsThere, IsAncestor, Root
  <2> QED
    BY <2>1, <2>2, <1>2
<1>5. ASSUME NEW s \in Sessions, ReadyToIntegrate(s) PROVE AskedInv'
  <2>1. \/ UNCHANGED req
        \/ /\ req'.latest = Root /\ req'.cur = s /\ req'.asked = Work(s)
           /\ \/ req'.pc = "direct"
              \/ req'.pc = "catchup" /\ dirty[s] = {}
    BY <1>5 DEF ReadyToIntegrate, Idle
  <2>2. UNCHANGED <<head, dirty, snapshotRef>>
    BY <1>5 DEF ReadyToIntegrate, gitVars, refVars
  <2>3. CASE UNCHANGED req
    BY <2>2, <2>3, <1>2
  <2>4. CASE ~UNCHANGED req
    BY <2>1, <2>2, <2>4 DEF AskedInv, AskedIsThere, Work, CommitOf, IsAncestor, Root
  <2> QED
    BY <2>3, <2>4
<1>6. ASSUME NEW s \in Sessions, FusionDone(s) PROVE AskedInv'
  BY <1>6 DEF FusionDone, Idle, AskedInv, AskedIsThere, IsAncestor, Root
<1> QED
  BY <1>1, <1>3, <1>4, <1>5, <1>6 DEF Next

\* The property AckedWorkPublished: as long as no second daemon is started and
\* developers leave a worktree alone while it is synced, whoever else moves main.
THEOREM AcknowledgedWorkIsPublished ==
    ASSUME QuietDeveloper, MaxSecond = 0
    PROVE  Spec => AckedWorkPublished
<1> DEFINE Inv == TypeOK /\ Shape /\ HoldInv /\ AskedInv
<1>1. Init => Inv
  BY InitType, TaskInitially DEF Init, Idle, AskedInv, AskedIsThere, IsAncestor, Root
<1>2. Inv /\ [Next]_vars
        => Inv' /\ [Answers /\ req' = Idle /\ up' => IsAncestor(req.asked, main)]_vars
  <2> SUFFICES ASSUME Inv, [Next]_vars
               PROVE  Inv' /\ (Answers => IsAncestor(req.asked, main))
    OBVIOUS
  <2>1. Answers => IsAncestor(req.asked, main)
    BY FirmIsMain DEF Answers, AskedInv, AskedIsThere, IsAncestor
  <2> QED
    BY <2>1, NextType, NextHolds, NextAsked
<1> QED
  BY <1>1, <1>2, PTL DEF Spec, AckedWorkPublished

-----------------------------------------------------------------------------
(* The main that a session has seen.                                       *)

\* Developers and Codex only add to a branch.
LEMMA HeadsGrow ==
    ASSUME TypeOK, NEW s \in Sessions, DeveloperStep(s), NEW r \in Sessions
    PROVE  IsAncestor(head[r], head'[r])
BY DEF TypeOK, DeveloperStep, Edit, CommitWork, CommitCandidate, WriteReport, CommitAll, gitVars,
   Work, CommitOf, IsAncestor

\* The handler works for one session until it is done.
LEMMA HandlerCur ==
    ASSUME TypeOK, Shape, HandlerStep
    PROVE  req'.cur \in {req.cur, NoSession}
<1>a. req \in Request /\ main \in Commit
  BY DEF TypeOK
<1>b. req.pc # "idle" => head[req.cur] \in Commit /\ Work(req.cur) \in Commit
  BY WorkType DEF TypeOK, Shape
<1>1. CASE CatchUpNothing
  BY <1>1, <1>a, <1>b, FinishType DEF CatchUpNothing, At, envVars, cur, gitVars, refVars,
     fileVars, StartTry
<1>2. CASE CatchUpFastForward
  BY <1>2, <1>a, <1>b, GotoWithLatestType, FinishType DEF CatchUpFastForward, At, envVars, cur,
     Pc, DirectTry, StartTry, refVars, fileVars
<1>3. CASE CaughtUp
  BY <1>3, <1>a, <1>b, FinishType DEF CaughtUp, At, envVars, cur, gitVars, refVars, fileVars,
     StartTry
<1>4. CASE DirectLock
  BY <1>4, <1>a, <1>b DEF DirectLock, At, envVars, cur, task, Request, gitVars, refVars,
     fileVars, StartTry
<1>5. CASE DirectDecline
  BY <1>5, <1>a, <1>b, GotoType, FinishType DEF DirectDecline, At, envVars, Pc, DirectTry,
     StartTry, gitVars, refVars, fileVars
<1>6. CASE DirectRecheck
  BY <1>6, <1>a, <1>b, GotoWithLatestType, GotoType DEF DirectRecheck, At, envVars, cur, task,
     Pc, DirectTry, StartTry, gitVars, refVars, fileVars
<1>7. CASE DirectCommit
  BY <1>7, <1>a, <1>b, GotoWithCandidateType, GotoType DEF DirectCommit, At, envVars, cur, Pc,
     DirectTry, StartTry, CommitAll, refVars, fileVars
<1>8. CASE DirectCompare
  BY <1>8, <1>a, <1>b, GotoType DEF DirectCompare, At, envVars, cur, Pc, DirectTry, StartTry,
     gitVars, refVars, fileVars
<1>9. CASE DirectFails
  BY <1>9, <1>a, <1>b, GotoType DEF DirectFails, At, envVars, cur, Pc, DirectTry, StartTry,
     gitVars, refVars, fileVars
<1>10. CASE DirectUnlock
  BY <1>10, <1>a, <1>b, GotoType, FinishType DEF DirectUnlock, At, envVars, cur, task, Pc,
     DirectTry, StartTry, ReleaseLockIfOwned, gitVars, refVars, fileVars
<1>11. CASE ForwardMain
  BY <1>11, <1>a, <1>b, GotoType DEF ForwardMain, At, envVars, Pc, DirectTry, StartTry, refVars,
     fileVars
<1>12. CASE ForceMain
  BY <1>12, <1>a, <1>b, GotoType DEF ForceMain, At, envVars, Pc, DirectTry, StartTry, refVars,
     fileVars
<1>13. CASE ForwardRefused
  BY <1>13, <1>a, <1>b, GotoType, FinishType DEF ForwardRefused, At, envVars, cur, task, Pc,
     DirectTry, StartTry, gitVars, refVars, fileVars
<1>14. CASE PublishedClean
  BY <1>14, <1>a, <1>b, GotoType DEF PublishedClean, At, envVars, cur, Pc, DirectTry, StartTry,
     gitVars, refVars, fileVars
<1>15. CASE PublishedSeen
  BY <1>15, <1>a, <1>b, GotoType DEF PublishedSeen, At, envVars, cur, Pc, DirectTry, StartTry,
     gitVars, refVars, fileVars
<1>16. CASE PublishedRelease
  BY <1>16, <1>a, <1>b, FinishType DEF PublishedRelease, At, envVars, cur, task,
     ReleaseLockIfOwned, gitVars, refVars, fileVars, StartTry
<1>17. CASE ClaimIntegrationTask
  BY <1>17, <1>a, <1>b DEF ClaimIntegrationTask, At, envVars, cur, task, Request, gitVars,
     refVars, fileVars, StartTry
<1>18. CASE StartRefused
  BY <1>18, <1>a, <1>b, FinishType DEF StartRefused, At, envVars, gitVars, refVars, fileVars,
     StartTry
<1>19. CASE FreezeAcknowledged
  BY <1>19, <1>a, <1>b, GotoType DEF FreezeAcknowledged, At, envVars, cur, task, Pc, DirectTry,
     StartTry, gitVars, refVars, fileVars
<1>20. CASE PrepareLockedSync
  BY <1>20, <1>a, <1>b, GotoType DEF PrepareLockedSync, At, envVars, cur, task, Pc, DirectTry,
     StartTry, gitVars, refVars, fileVars
<1>21. CASE Snapshot
  BY <1>21, <1>a, <1>b DEF Snapshot, At, envVars, cur, Request, CommitAll, refVars, fileVars,
     StartTry
<1>22. CASE SnapshotRef
  BY <1>22, <1>a, <1>b, GotoType DEF SnapshotRef, At, envVars, task, Pc, DirectTry, StartTry,
     gitVars, fileVars
<1>23. CASE BaseRef
  BY <1>23, <1>a, <1>b, GotoType DEF BaseRef, At, envVars, task, Pc, DirectTry, StartTry,
     gitVars, fileVars
<1>24. CASE MergeBegin
  BY <1>24, <1>a, <1>b, GotoType DEF MergeBegin, At, envVars, cur, task, Pc, DirectTry,
     StartTry, gitVars, refVars, fileVars
<1>25. CASE GitMerge
  BY <1>25, <1>a, <1>b, GotoType DEF GitMerge, At, envVars, cur, task, Pc, DirectTry, StartTry,
     refVars, fileVars
<1>26. CASE ValidateMerge
  BY <1>26, <1>a, <1>b, GotoWithCandidateType, GotoType DEF ValidateMerge, At, envVars, cur,
     task, Pc, DirectTry, StartTry, gitVars, refVars, fileVars
<1>27. CASE MergeUnlock
  BY <1>27, <1>a, <1>b, GotoType DEF MergeUnlock, At, envVars, cur, task, Pc, DirectTry,
     StartTry, ReleaseLockIfOwned, gitVars, refVars, fileVars
<1>28. CASE ResetToLatest
  BY <1>28, <1>a, <1>b, GotoType DEF ResetToLatest, At, envVars, cur, Pc, DirectTry, StartTry,
     refVars, fileVars
<1>29. CASE WriteTaskFile
  BY <1>29, <1>a, <1>b, GotoType DEF WriteTaskFile, At, envVars, task, Pc, DirectTry, StartTry,
     gitVars, refVars
<1>30. CASE Fusing
  BY <1>30, <1>a, <1>b, GotoType DEF Fusing, At, envVars, cur, task, Pc, DirectTry, StartTry,
     gitVars, refVars, fileVars
<1>31. CASE PromptDelivered
  BY <1>31, <1>a, <1>b, FinishType DEF PromptDelivered, At, envVars, gitVars, refVars, fileVars,
     StartTry
<1>32. CASE StartFails
  BY <1>32, <1>a, <1>b, GotoType DEF StartFails, At, envVars, Pc, DirectTry, StartTry, gitVars,
     refVars, fileVars
<1>33. CASE AbortRestore
  BY <1>33, <1>a, <1>b, GotoType DEF AbortRestore, At, envVars, cur, task, Pc, DirectTry,
     StartTry, refVars, fileVars
<1>34. CASE AbortUnlock
  BY <1>34, <1>a, <1>b, GotoType DEF AbortUnlock, At, envVars, cur, task, Pc, DirectTry,
     StartTry, ReleaseLockIfOwned, gitVars, refVars, fileVars
<1>35. CASE AbortClean
  BY <1>35, <1>a, <1>b, FinishType DEF AbortClean, At, envVars, cur, gitVars, refVars, fileVars,
     StartTry
<1>36. CASE NormalizeActiveTask
  BY <1>36, <1>a, <1>b DEF NormalizeActiveTask, At, envVars, cur, task, Request, gitVars,
     refVars, fileVars, StartTry
<1>37. CASE CheckCandidate
  BY <1>37, <1>a, <1>b, GotoType DEF CheckCandidate, At, envVars, cur, task, Pc, DirectTry,
     StartTry, gitVars, refVars, fileVars
<1>38. CASE CheckRefuses
  BY <1>38, <1>a, <1>b, FinishType DEF CheckRefuses, At, envVars, cur, task, gitVars, refVars,
     fileVars, StartTry
<1>39. CASE VerifyReport
  BY <1>39, <1>a, <1>b, GotoType, FinishType DEF VerifyReport, At, envVars, cur, task, Pc,
     DirectTry, StartTry, gitVars, refVars, fileVars
<1>40. CASE VerifyWithoutReport
  BY <1>40, <1>a, <1>b, FinishType DEF VerifyWithoutReport, At, envVars, cur, task, gitVars,
     refVars, fileVars, StartTry
<1>41. CASE Preflight
  BY <1>41, <1>a, <1>b, GotoType, FinishType DEF Preflight, At, envVars, Pc, DirectTry,
     StartTry, gitVars, refVars, fileVars
<1> QED
  BY <1>1, <1>2, <1>3, <1>4, <1>5, <1>6, <1>7, <1>8, <1>9, <1>10, <1>11, <1>12, <1>13, <1>14,
     <1>15, <1>16, <1>17, <1>18, <1>19, <1>20, <1>21, <1>22, <1>23, <1>24, <1>25, <1>26, <1>27,
     <1>28, <1>29, <1>30, <1>31, <1>32, <1>33, <1>34, <1>35, <1>36, <1>37, <1>38, <1>39, <1>40,
     <1>41 DEF HandlerStep

\* A step of the handler: what it has read, or published, is in main.
LEMMA HandlerLatest ==
    ASSUME TypeOK, Shape, HoldInv, LatestPublished, HandlerStep
    PROVE  LatestPublished'
<1> USE DEF LatestPublished, IsAncestor
<1>a. /\ req \in Request /\ main \in Commit /\ main' \in Commit /\ LatestPublished
      /\ head \in [Sessions -> Commit]
  BY NextType DEF TypeOK, Next
<1>b. /\ req.latest \subseteq FirmMain' /\ Root \subseteq FirmMain'
      /\ req.pc # "force" => FirmMain = main /\ main \subseteq FirmMain'
      /\ FirmMain' \subseteq main'
  BY <1>a, NextFirm, FirmIsMain DEF Root, Next
<1>c. req.pc # "idle" => /\ req.cur \in Sessions
                        /\ head[req.cur] \in Commit /\ Work(req.cur) \in Commit
  BY WorkType DEF TypeOK, Shape
<1>d. req.pc \in {"recheck", "commit", "compare", "forward", "force", "check", "verify", "preflight"}
        => req.cand \subseteq head[req.cur]
  BY DEF HoldInv, CandidateIsOwn
<1>1. CASE CatchUpNothing
  BY <1>1, <1>a, <1>b, <1>c, <1>d, FinishType DEF CatchUpNothing, At, envVars, cur, gitVars,
     refVars, fileVars, StartTry
<1>2. CASE CatchUpFastForward
  BY <1>2, <1>a, <1>b, <1>c, <1>d, GotoWithLatestType, FinishType DEF CatchUpFastForward, At,
     envVars, cur, Pc, DirectTry, StartTry, refVars, fileVars, gitVars
<1>3. CASE CaughtUp
  BY <1>3, <1>a, <1>b, <1>c, <1>d, FinishType DEF CaughtUp, At, envVars, cur, gitVars, refVars,
     fileVars, StartTry
<1>4. CASE DirectLock
  BY <1>4, <1>a, <1>b, <1>c, <1>d DEF DirectLock, At, envVars, cur, task, Request, gitVars,
     refVars, fileVars, StartTry
<1>5. CASE DirectDecline
  BY <1>5, <1>a, <1>b, <1>c, <1>d, GotoType, FinishType DEF DirectDecline, At, envVars, Pc,
     DirectTry, StartTry, gitVars, refVars, fileVars
<1>6. CASE DirectRecheck
  BY <1>6, <1>a, <1>b, <1>c, <1>d, GotoWithLatestType, GotoType DEF DirectRecheck, At, envVars,
     cur, task, Pc, DirectTry, StartTry, gitVars, refVars, fileVars
<1>7. CASE DirectCommit
  BY <1>7, <1>a, <1>b, <1>c, <1>d, GotoWithCandidateType, GotoType DEF DirectCommit, At,
     envVars, cur, Pc, DirectTry, StartTry, CommitAll, refVars, fileVars, gitVars
<1>8. CASE DirectCompare
  BY <1>8, <1>a, <1>b, <1>c, <1>d, GotoType DEF DirectCompare, At, envVars, cur, Pc, DirectTry,
     StartTry, gitVars, refVars, fileVars
<1>9. CASE DirectFails
  BY <1>9, <1>a, <1>b, <1>c, <1>d, GotoType DEF DirectFails, At, envVars, cur, Pc, DirectTry,
     StartTry, gitVars, refVars, fileVars
<1>10. CASE DirectUnlock
  BY <1>10, <1>a, <1>b, <1>c, <1>d, GotoType, FinishType DEF DirectUnlock, At, envVars, cur,
     task, Pc, DirectTry, StartTry, ReleaseLockIfOwned, gitVars, refVars, fileVars
<1>11. CASE ForwardMain
  BY <1>11, <1>a, <1>b, <1>c, <1>d, GotoType DEF ForwardMain, At, envVars, Pc, DirectTry,
     StartTry, refVars, fileVars, gitVars
<1>12. CASE ForceMain
  BY <1>12, <1>a, <1>b, <1>c, <1>d, GotoType DEF ForceMain, At, envVars, Pc, DirectTry,
     StartTry, refVars, fileVars, gitVars
<1>13. CASE ForwardRefused
  BY <1>13, <1>a, <1>b, <1>c, <1>d, GotoType, FinishType DEF ForwardRefused, At, envVars, cur,
     task, Pc, DirectTry, StartTry, gitVars, refVars, fileVars
<1>14. CASE PublishedClean
  BY <1>14, <1>a, <1>b, <1>c, <1>d, GotoType DEF PublishedClean, At, envVars, cur, Pc,
     DirectTry, StartTry, gitVars, refVars, fileVars
<1>15. CASE PublishedSeen
  BY <1>15, <1>a, <1>b, <1>c, <1>d, GotoType DEF PublishedSeen, At, envVars, cur, Pc, DirectTry,
     StartTry, gitVars, refVars, fileVars
<1>16. CASE PublishedRelease
  BY <1>16, <1>a, <1>b, <1>c, <1>d, FinishType DEF PublishedRelease, At, envVars, cur, task,
     ReleaseLockIfOwned, gitVars, refVars, fileVars, StartTry
<1>17. CASE ClaimIntegrationTask
  BY <1>17, <1>a, <1>b, <1>c, <1>d DEF ClaimIntegrationTask, At, envVars, cur, task, Request,
     gitVars, refVars, fileVars, StartTry
<1>18. CASE StartRefused
  BY <1>18, <1>a, <1>b, <1>c, <1>d, FinishType DEF StartRefused, At, envVars, gitVars, refVars,
     fileVars, StartTry
<1>19. CASE FreezeAcknowledged
  BY <1>19, <1>a, <1>b, <1>c, <1>d, GotoType DEF FreezeAcknowledged, At, envVars, cur, task, Pc,
     DirectTry, StartTry, gitVars, refVars, fileVars
<1>20. CASE PrepareLockedSync
  BY <1>20, <1>a, <1>b, <1>c, <1>d, GotoType DEF PrepareLockedSync, At, envVars, cur, task, Pc,
     DirectTry, StartTry, gitVars, refVars, fileVars
<1>21. CASE Snapshot
  BY <1>21, <1>a, <1>b, <1>c, <1>d DEF Snapshot, At, envVars, cur, Request, CommitAll, refVars,
     fileVars, StartTry, gitVars
<1>22. CASE SnapshotRef
  BY <1>22, <1>a, <1>b, <1>c, <1>d, GotoType DEF SnapshotRef, At, envVars, task, Pc, DirectTry,
     StartTry, gitVars, fileVars
<1>23. CASE BaseRef
  BY <1>23, <1>a, <1>b, <1>c, <1>d, GotoType DEF BaseRef, At, envVars, task, Pc, DirectTry,
     StartTry, gitVars, fileVars
<1>24. CASE MergeBegin
  BY <1>24, <1>a, <1>b, <1>c, <1>d, GotoType DEF MergeBegin, At, envVars, cur, task, Pc,
     DirectTry, StartTry, gitVars, refVars, fileVars
<1>25. CASE GitMerge
  BY <1>25, <1>a, <1>b, <1>c, <1>d, GotoType DEF GitMerge, At, envVars, cur, task, Pc,
     DirectTry, StartTry, refVars, fileVars, gitVars
<1>26. CASE ValidateMerge
  BY <1>26, <1>a, <1>b, <1>c, <1>d, GotoWithCandidateType, GotoType DEF ValidateMerge, At,
     envVars, cur, task, Pc, DirectTry, StartTry, gitVars, refVars, fileVars
<1>27. CASE MergeUnlock
  BY <1>27, <1>a, <1>b, <1>c, <1>d, GotoType DEF MergeUnlock, At, envVars, cur, task, Pc,
     DirectTry, StartTry, ReleaseLockIfOwned, gitVars, refVars, fileVars
<1>28. CASE ResetToLatest
  BY <1>28, <1>a, <1>b, <1>c, <1>d, GotoType DEF ResetToLatest, At, envVars, cur, Pc, DirectTry,
     StartTry, refVars, fileVars, gitVars
<1>29. CASE WriteTaskFile
  BY <1>29, <1>a, <1>b, <1>c, <1>d, GotoType DEF WriteTaskFile, At, envVars, task, Pc,
     DirectTry, StartTry, gitVars, refVars
<1>30. CASE Fusing
  BY <1>30, <1>a, <1>b, <1>c, <1>d, GotoType DEF Fusing, At, envVars, cur, task, Pc, DirectTry,
     StartTry, gitVars, refVars, fileVars
<1>31. CASE PromptDelivered
  BY <1>31, <1>a, <1>b, <1>c, <1>d, FinishType DEF PromptDelivered, At, envVars, gitVars,
     refVars, fileVars, StartTry
<1>32. CASE StartFails
  BY <1>32, <1>a, <1>b, <1>c, <1>d, GotoType DEF StartFails, At, envVars, Pc, DirectTry,
     StartTry, gitVars, refVars, fileVars
<1>33. CASE AbortRestore
  BY <1>33, <1>a, <1>b, <1>c, <1>d, GotoType DEF AbortRestore, At, envVars, cur, task, Pc,
     DirectTry, StartTry, refVars, fileVars, gitVars
<1>34. CASE AbortUnlock
  BY <1>34, <1>a, <1>b, <1>c, <1>d, GotoType DEF AbortUnlock, At, envVars, cur, task, Pc,
     DirectTry, StartTry, ReleaseLockIfOwned, gitVars, refVars, fileVars
<1>35. CASE AbortClean
  BY <1>35, <1>a, <1>b, <1>c, <1>d, FinishType DEF AbortClean, At, envVars, cur, gitVars,
     refVars, fileVars, StartTry
<1>36. CASE NormalizeActiveTask
  BY <1>36, <1>a, <1>b, <1>c, <1>d DEF NormalizeActiveTask, At, envVars, cur, task, Request,
     gitVars, refVars, fileVars, StartTry
<1>37. CASE CheckCandidate
  BY <1>37, <1>a, <1>b, <1>c, <1>d, GotoType DEF CheckCandidate, At, envVars, cur, task, Pc,
     DirectTry, StartTry, gitVars, refVars, fileVars
<1>38. CASE CheckRefuses
  BY <1>38, <1>a, <1>b, <1>c, <1>d, FinishType DEF CheckRefuses, At, envVars, cur, task,
     gitVars, refVars, fileVars, StartTry
<1>39. CASE VerifyReport
  BY <1>39, <1>a, <1>b, <1>c, <1>d, GotoType, FinishType DEF VerifyReport, At, envVars, cur,
     task, Pc, DirectTry, StartTry, gitVars, refVars, fileVars
<1>40. CASE VerifyWithoutReport
  BY <1>40, <1>a, <1>b, <1>c, <1>d, FinishType DEF VerifyWithoutReport, At, envVars, cur, task,
     gitVars, refVars, fileVars, StartTry
<1>41. CASE Preflight
  BY <1>41, <1>a, <1>b, <1>c, <1>d, GotoType, FinishType DEF Preflight, At, envVars, Pc,
     DirectTry, StartTry, gitVars, refVars, fileVars
<1> QED
  BY <1>1, <1>2, <1>3, <1>4, <1>5, <1>6, <1>7, <1>8, <1>9, <1>10, <1>11, <1>12, <1>13, <1>14,
     <1>15, <1>16, <1>17, <1>18, <1>19, <1>20, <1>21, <1>22, <1>23, <1>24, <1>25, <1>26, <1>27,
     <1>28, <1>29, <1>30, <1>31, <1>32, <1>33, <1>34, <1>35, <1>36, <1>37, <1>38, <1>39, <1>40,
     <1>41 DEF HandlerStep

\* Every step, as long as requests and recoveries do not meet: heads only grow
\* meanwhile.
LEMMA NextLatest ==
    ASSUME TypeOK, Shape, HoldInv, LatestPublished, [Next]_vars
    PROVE  LatestPublished'
<1>1. CASE HandlerStep
  BY <1>1, HandlerLatest
<1>2. ASSUME UNCHANGED req, req.pc # "idle" => IsAncestor(head[req.cur], head'[req.cur])
      PROVE  LatestPublished'
  <2>1. req.pc # "force" => main \subseteq main'
    BY NextFirm, FirmIsMain DEF IsAncestor
  <2> QED
    BY <1>2, <2>1, NextFirm DEF LatestPublished, IsAncestor
<1>3. CASE \/ UNCHANGED vars \/ Boot \/ SecondDaemon \/ JoinStep \/ ExternalMain \/ RecoveryStep
  <2>1. UNCHANGED req
    BY <1>3 DEF vars, Boot, SecondDaemon, StartRecovery, JoinStep, JoinRead, JoinCheck, JoinWrite,
       ExternalMain, RecoveryStep, AdoptLockTask, ClearIdleRow, ResumeTask, BackUpTask,
       BackupFails, RecoverRestore, RecoverUnlock, RecoverClean, RecoveryDone
  <2>2. req.pc # "idle" => UNCHANGED head
    BY <1>3 DEF HoldInv, RequestsAlone, vars, gitVars, Boot, SecondDaemon, StartRecovery, JoinStep,
       JoinRead, JoinCheck, JoinWrite, ExternalMain, RecoveryStep, AdoptLockTask, ClearIdleRow,
       ResumeTask, BackUpTask, BackupFails, RecoverRestore, RecoverUnlock, RecoverClean,
       RecoveryDone, Scanning
  <2> QED
    BY <2>1, <2>2, <1>2 DEF IsAncestor
<1>4. ASSUME NEW s \in Sessions, DeveloperStep(s) PROVE LatestPublished'
  <2>1. UNCHANGED req
    BY <1>4 DEF DeveloperStep, Edit, CommitWork, CommitCandidate, WriteReport
  <2>2. \A r \in Sessions : IsAncestor(head[r], head'[r])
    BY <1>4, HeadsGrow
  <2> QED
    BY <2>1, <2>2, <1>2 DEF Shape
<1>5. CASE Crash
  <2>1. req' \in {req, Idle} /\ UNCHANGED head
    BY <1>5 DEF Crash, gitVars
  <2>2. CASE req' = Idle
    BY <2>2 DEF Idle, LatestPublished, IsAncestor, Root
  <2> QED
    BY <2>1, <2>2, <1>2 DEF IsAncestor
<1>6. ASSUME NEW s \in Sessions, ReadyToIntegrate(s) \/ FusionDone(s) PROVE LatestPublished'
  <2>1. UNCHANGED <<head, main>>
    BY <1>6 DEF ReadyToIntegrate, FusionDone, gitVars
  <2>2. UNCHANGED req \/ (req'.latest = Root /\ req'.pc \in {"direct", "catchup", "normalize"})
    BY <1>6 DEF ReadyToIntegrate, FusionDone, Idle
  <2>3. req'.latest = Root /\ req'.pc \in {"direct", "catchup", "normalize"} => LatestPublished'
    BY DEF LatestPublished, IsAncestor, Root
  <2>4. CASE UNCHANGED req
    BY <2>1, <2>4, <1>2 DEF IsAncestor
  <2> QED
    BY <2>2, <2>3, <2>4
<1> QED
  BY <1>1, <1>3, <1>4, <1>5, <1>6 DEF Next

\* Where last_seen_main is written.
LEMMA SeenMoves ==
    ASSUME [Next]_vars
    PROVE  \/ UNCHANGED lastSeen
           \/ CatchUpNothing \/ CaughtUp \/ PublishedSeen
           \/ \E s \in Sessions : ReadyToIntegrate(s)
BY DEF Next, vars, dbVars, Boot, SecondDaemon, StartRecovery, Crash, JoinStep, JoinRead,
   JoinCheck, JoinWrite, FusionDone, DeveloperStep, Edit, CommitWork,
   CommitCandidate, WriteReport, ExternalMain, RecoveryStep, AdoptLockTask, ClearIdleRow,
   ResumeTask, BackUpTask, BackupFails, RecoverRestore, RecoverUnlock, RecoverClean,
   RecoveryDone, HandlerStep, CatchUpFastForward, DirectLock, DirectDecline, DirectRecheck,
   DirectCommit, DirectCompare, DirectFails, DirectUnlock, ForwardMain, ForceMain, ForwardRefused,
   PublishedClean, PublishedRelease, ClaimIntegrationTask, StartRefused, FreezeAcknowledged,
   PrepareLockedSync, Snapshot, SnapshotRef, BaseRef, MergeBegin, GitMerge, ValidateMerge,
   MergeUnlock, ResetToLatest, WriteTaskFile, Fusing, PromptDelivered, StartFails, AbortRestore,
   AbortUnlock, AbortClean, NormalizeActiveTask, CheckCandidate, CheckRefuses, VerifyReport,
   VerifyWithoutReport, Preflight

\* Where a request is taken.
LEMMA CurMoves ==
    ASSUME TypeOK, Shape, [Next]_vars
    PROVE  \/ req'.cur \in {req.cur, NoSession}
           \/ \E s \in Sessions : ReadyToIntegrate(s) \/ FusionDone(s)
<1>1. HandlerStep => req'.cur \in {req.cur, NoSession}
  BY HandlerCur
<1>2. ASSUME \/ UNCHANGED vars \/ Boot \/ SecondDaemon \/ JoinStep \/ ExternalMain \/ RecoveryStep
             \/ \E s \in Sessions : DeveloperStep(s)
      PROVE  UNCHANGED req
  BY <1>2 DEF vars, Boot, SecondDaemon, StartRecovery, JoinStep, JoinRead, JoinCheck, JoinWrite,
     ExternalMain, DeveloperStep, Edit, CommitWork, CommitCandidate, WriteReport, RecoveryStep,
     AdoptLockTask, ClearIdleRow, ResumeTask, BackUpTask, BackupFails, RecoverRestore,
     RecoverUnlock, RecoverClean, RecoveryDone
<1>3. Crash => req'.cur \in {req.cur, NoSession}
  BY DEF Crash, Idle
<1> QED
  BY <1>1, <1>2, <1>3 DEF Next

\* Whoever a request is for, or has a task, goes on knowing a main.
LEMMA NextKnown ==
    ASSUME TypeOK, Shape, MainKnown, [Next]_vars
    PROVE  MainKnown'
<1>a. /\ req \in Request /\ main \in Commit /\ lastSeen \in [Sessions -> MaybeCommit]
      /\ row \in [Sessions -> Row]
  BY DEF TypeOK
<1>1. ASSUME NEW s \in Sessions, lastSeen[s] # NoCommit PROVE lastSeen'[s] # NoCommit
  <2>1. CASE CatchUpNothing
    BY <1>1, <2>1, <1>a, NoCommitIsNone DEF CatchUpNothing, UpdateLastSeenMain
  <2>2. CASE CaughtUp \/ PublishedSeen
    BY <1>1, <2>2, <1>a, RequestFields, NoCommitIsNone DEF CaughtUp, PublishedSeen,
       UpdateLastSeenMain
  <2>3. ASSUME NEW r \in Sessions, ReadyToIntegrate(r) PROVE lastSeen'[s] # NoCommit
    BY <1>1, <2>3, <1>a DEF ReadyToIntegrate, UpdateLastSeenMain, Baseline
  <2> QED
    BY <1>1, <2>1, <2>2, <2>3, SeenMoves
<1>2. ASSUME NEW s \in Sessions, req'.cur = s, req.cur # s PROVE lastSeen'[s] # NoCommit
  <2>1. s # NoSession
    BY ConstantsAssumption
  <2>2. ASSUME NEW r \in Sessions, ReadyToIntegrate(r) PROVE lastSeen'[s] # NoCommit
    <3>1. r = s /\ Baseline(r) # NoCommit /\ lastSeen' = [lastSeen EXCEPT ![r] = Baseline(r)]
      BY <1>2, <2>2 DEF ReadyToIntegrate, UpdateLastSeenMain, Idle
    <3> QED
      BY <3>1, <1>a
  <2>3. ASSUME NEW r \in Sessions, FusionDone(r) PROVE lastSeen'[s] # NoCommit
    <3>1. r = s /\ row[s].task # NoTask /\ UNCHANGED lastSeen
      BY <1>2, <2>3 DEF FusionDone, Idle
    <3>2. row[s].task \in Task
      BY <3>1, <1>a DEF Row, MaybeTask
    <3> QED
      BY <3>1, <3>2 DEF MainKnown, IsTaskOf
  <2> QED
    BY <1>2, <2>1, <2>2, <2>3, CurMoves
<1>3. ASSUME NEW s \in Sessions, NEW t \in Task, IsTaskOf(t, s)'
      PROVE  req.cur = s \/ IsTaskOf(t, s)
  BY <1>3, NextIds DEF IdsMove
<1> QED
  BY <1>1, <1>2, <1>3 DEF MainKnown

\* Tasks that are not there yet are covered.
LEMMA NewTaskCovered ==
    ASSUME TypeOK, Shape, TaskIds, req.pc \in {"direct", "start"}
    PROVE  used.tasks + 1 \in Task /\ \A s \in Sessions : <<s, used.tasks + 1>> \in Covered
<1>a. used.tasks \in 0 .. MaxTasks
  BY DEF TypeOK, Usage
<1>b. used.tasks + 1 <= MaxTasks
  BY <1>a, ConstantsAssumption DEF Shape
<1>1. used.tasks + 1 \in Task /\ used.tasks < used.tasks + 1
  BY <1>a, <1>b, ConstantsAssumption DEF Task
<1>2. snapshotRef[used.tasks + 1] = NoCommit
  BY <1>1 DEF TaskIds
<1> QED
  BY <1>1, <1>2 DEF Covered

\* The handler changes what a session has seen only where it adopts a main for it.
LEMMA HandlerKeepsSeen ==
    ASSUME TypeOK, HandlerStep, NEW s \in Sessions,
           s = req.cur => req.pc \notin {"catchup", "caught", "seen"}
    PROVE  lastSeen'[s] = lastSeen[s]
<1>a. lastSeen \in [Sessions -> MaybeCommit]
  BY DEF TypeOK
<1>1. UNCHANGED lastSeen \/ CatchUpNothing \/ CaughtUp \/ PublishedSeen
  BY DEF HandlerStep, dbVars, CatchUpFastForward, DirectLock, DirectDecline, DirectRecheck,
     DirectCommit, DirectCompare, DirectFails, DirectUnlock, ForwardMain, ForceMain,
     ForwardRefused, PublishedClean, PublishedRelease, ClaimIntegrationTask, StartRefused,
     FreezeAcknowledged, PrepareLockedSync, Snapshot, SnapshotRef, BaseRef, MergeBegin,
     GitMerge, ValidateMerge, MergeUnlock, ResetToLatest, WriteTaskFile, Fusing,
     PromptDelivered, StartFails, AbortRestore, AbortUnlock, AbortClean, NormalizeActiveTask,
     CheckCandidate, CheckRefuses, VerifyReport, VerifyWithoutReport, Preflight
<1>2. CatchUpNothing \/ CaughtUp \/ PublishedSeen
         => /\ req.pc \in {"catchup", "caught", "seen"}
            /\ \A r \in Sessions : r # req.cur => lastSeen'[r] = lastSeen[r]
  BY <1>a DEF CatchUpNothing, CaughtUp, PublishedSeen, UpdateLastSeenMain, At, cur
<1> QED
  BY <1>1, <1>2

\* What the handler leaves of what is covered.
LEMMA HandlerCovered ==
    ASSUME TypeOK, Shape, HoldInv, HandlerStep,
           req.pc = "snapRef" => IsAncestor(lastSeen[req.cur], req.cand),
           NEW s \in Sessions, NEW t \in Task, <<s, t>> \in Covered,
           s = req.cur => req.pc \notin {"catchup", "caught", "seen"},
           s # req.cur /\ req.pc = "snapRef" => t # req.task
    PROVE  <<s, t>> \in Covered'
<1>a. snapshotRef \in [Task -> MaybeCommit] /\ lastSeen \in [Sessions -> MaybeCommit]
  BY DEF TypeOK
<1>1. lastSeen'[s] = lastSeen[s]
  BY HandlerKeepsSeen
<1>2. snapshotRef[t] = NoCommit \/ IsAncestor(lastSeen[s], snapshotRef[t])
  BY DEF Covered
<1>3. CASE UNCHANGED snapshotRef
  BY <1>1, <1>2, <1>3 DEF Covered
<1>4. CASE SnapshotRef
  <2>1. req.pc = "snapRef" /\ snapshotRef' = [snapshotRef EXCEPT ![req.task] = req.cand]
    BY <1>4 DEF SnapshotRef, At, task
  <2>2. CASE t = req.task
    BY <1>1, <1>a, <2>1, <2>2 DEF Covered
  <2>3. CASE t # req.task
    BY <1>1, <1>2, <1>a, <2>1, <2>3 DEF Covered
  <2> QED
    BY <2>2, <2>3
<1> QED
  BY <1>3, <1>4, RefsStay DEF Next

\* What the handler may do to a branch.
LEMMA HandlerHead ==
    ASSUME TypeOK, Shape, HandlerStep, NEW s \in Sessions
    PROVE  \/ IsAncestor(head[s], head'[s])
           \/ /\ s = req.cur /\ req.pc \in {"fallback", "reset"}
              /\ head'[s] = req.latest
           \/ /\ s = req.cur /\ req.pc = "restore" /\ req.task \in Task
              /\ snapshotRef[req.task] # NoCommit /\ head'[s] = snapshotRef[req.task]
<1> USE DEF IsAncestor
<1>a. head \in [Sessions -> Commit] /\ dirty \in [Sessions -> Commit]
  BY DEF TypeOK
<1>1. CASE CatchUpFastForward
  BY <1>1, <1>a DEF CatchUpFastForward
<1>2. CASE DirectCommit \/ Snapshot
  BY <1>2, <1>a DEF DirectCommit, Snapshot, CommitAll, Work, CommitOf
<1>3. CASE GitMerge
  BY <1>3, <1>a DEF GitMerge, MergeOf
<1>4. CASE ResetToLatest
  BY <1>4, <1>a DEF ResetToLatest, ResetHard, At, cur
<1>5. CASE AbortRestore
  BY <1>5, <1>a DEF AbortRestore, RestoreTaskSnapshotIfPossible, ResetHard, At, cur, task, Shape
<1>6. CASE CatchUpNothing \/ CaughtUp \/ DirectLock \/ DirectDecline \/ DirectRecheck \/
           DirectCompare \/ DirectFails \/ DirectUnlock \/ ForwardMain \/ ForceMain \/
           ForwardRefused \/ PublishedClean \/ PublishedSeen \/ PublishedRelease \/
           ClaimIntegrationTask \/ StartRefused \/ FreezeAcknowledged \/ PrepareLockedSync \/
           SnapshotRef \/ BaseRef \/ MergeBegin \/ ValidateMerge \/ MergeUnlock \/ WriteTaskFile
           \/ Fusing \/ PromptDelivered \/ StartFails \/ AbortUnlock \/ AbortClean \/
           NormalizeActiveTask \/ CheckCandidate \/ CheckRefuses \/ VerifyReport \/
           VerifyWithoutReport \/ Preflight
  <2>1. UNCHANGED head
    BY <1>6 DEF gitVars, CatchUpNothing, CaughtUp, DirectLock, DirectDecline, DirectRecheck,
       DirectCompare, DirectFails, DirectUnlock, ForwardMain, ForceMain, ForwardRefused,
       PublishedClean, PublishedSeen, PublishedRelease, ClaimIntegrationTask, StartRefused,
       FreezeAcknowledged, PrepareLockedSync, SnapshotRef, BaseRef, MergeBegin, ValidateMerge,
       MergeUnlock, WriteTaskFile, Fusing, PromptDelivered, StartFails, AbortUnlock, AbortClean,
       NormalizeActiveTask, CheckCandidate, CheckRefuses, VerifyReport, VerifyWithoutReport,
       Preflight
  <2> QED
    BY <2>1
<1> QED
  BY <1>1, <1>2, <1>3, <1>4, <1>5, <1>6 DEF HandlerStep

\* The main that a session knows stays in main.
LEMMA NextSeenStays ==
    ASSUME TypeOK, Shape, LastSeenReflected, SeenStays, LatestPublished, [Next]_vars
    PROVE  SeenStays'
<1> USE DEF IsAncestor
<1>a. /\ SeenStays /\ lastSeen \in [Sessions -> MaybeCommit]
      /\ FirmMain \subseteq FirmMain'
      /\ req.pc # "force" => FirmMain = main
  BY NextFirm, FirmIsMain DEF TypeOK
<1>1. CASE UNCHANGED lastSeen
  BY <1>1, <1>a DEF SeenStays
<1>2. ASSUME NEW s \in Sessions, NEW c, lastSeen' = [lastSeen EXCEPT ![s] = c],
             c # NoCommit => c \subseteq FirmMain
      PROVE  SeenStays'
  BY <1>2, <1>a DEF SeenStays
<1>3. CASE CatchUpNothing
  <2>1. req.pc = "catchup" /\ req.cur \in Sessions
    BY <1>3 DEF CatchUpNothing, At, Shape
  <2> QED
    BY <1>1, <1>2, <1>3, <1>a, <2>1 DEF CatchUpNothing, UpdateLastSeenMain, cur
<1>4. CASE CaughtUp
  <2>1. req.pc = "caught" /\ req.cur \in Sessions /\ req.latest \subseteq FirmMain
    BY <1>4 DEF CaughtUp, At, Shape, LatestPublished
  <2> QED
    BY <1>2, <1>4, <2>1 DEF CaughtUp, UpdateLastSeenMain, cur
<1>5. CASE PublishedSeen
  <2>1. req.pc = "seen" /\ req.cur \in Sessions /\ req.cand \subseteq main
    BY <1>5 DEF PublishedSeen, At, Shape, LatestPublished
  <2> QED
    BY <1>2, <1>5, <1>a, <2>1 DEF PublishedSeen, UpdateLastSeenMain, cur
<1>6. ASSUME NEW s \in Sessions, ReadyToIntegrate(s) PROVE SeenStays'
  <2>1. req.pc = "idle" /\ lastSeen' = [lastSeen EXCEPT ![s] = Baseline(s)]
    BY <1>6 DEF ReadyToIntegrate, UpdateLastSeenMain, At
  <2>2. Baseline(s) # NoCommit => Baseline(s) \subseteq FirmMain
    BY <2>1, <1>a DEF Baseline, SeenStays
  <2> QED
    BY <1>2, <2>1, <2>2
<1> QED
  BY <1>1, <1>3, <1>4, <1>5, <1>6, SeenMoves

\* What is covered of a request is more than it needs.
LEMMA SeenCoreHolds == SeenInv => SeenCore
BY DEF SeenInv, SeenCore, RequestCovers, MergeCovers, Merging, StartTry

\* The handler keeps the promise of last_seen_main.
LEMMA HandlerSeen ==
    ASSUME TypeOK, Shape, HoldInv, SeenCore, SeenStays', HandlerStep
    PROVE  LastSeenReflected'
<1>a. /\ req \in Request /\ req.cur \in Sessions /\ req.pc # "idle"
      /\ head \in [Sessions -> Commit] /\ lastSeen \in [Sessions -> MaybeCommit]
  BY HandlerBusy DEF TypeOK, Shape
<1>b. lastSeen[req.cur] # NoCommit
  BY <1>a DEF SeenCore, MainKnown
<1>1. CASE CatchUpNothing
  BY <1>1, <1>a DEF CatchUpNothing, UpdateLastSeenMain, cur, gitVars, SeenCore, LastSeenReflected,
     IsAncestor
<1>2. CASE CaughtUp
  BY <1>2, <1>a, FirmIsMain DEF CaughtUp, UpdateLastSeenMain, At, cur, gitVars, SeenCore,
     LastSeenReflected, LatestPublished, IsAncestor
<1>3. CASE PublishedSeen
  BY <1>3, <1>a DEF PublishedSeen, UpdateLastSeenMain, At, cur, gitVars, SeenCore,
     LastSeenReflected, LatestPublished, IsAncestor
<1>4. CASE UNCHANGED lastSeen
  <2>1. ASSUME NEW s \in Sessions, lastSeen[s] # NoCommit
        PROVE  IsAncestor(lastSeen[s], main') /\ IsAncestor(lastSeen[s], head'[s])
    <3>1. IsAncestor(lastSeen[s], main') /\ IsAncestor(lastSeen[s], head[s])
      BY <1>4, <2>1, FirmIsMain DEF SeenCore, LastSeenReflected, SeenStays, IsAncestor
    <3>2. s = req.cur /\ req.pc \in {"fallback", "reset"} => IsAncestor(lastSeen[s], req.latest)
      BY DEF SeenCore, MergeCovers, Merging, StartTry
    <3>3. s = req.cur /\ req.pc = "restore" /\ snapshotRef[req.task] # NoCommit
             => IsAncestor(lastSeen[s], snapshotRef[req.task])
      BY DEF SeenCore, MergeCovers, Merging, StartTry, Covered
    <3> QED
      BY <3>1, <3>2, <3>3, HandlerHead DEF IsAncestor
  <2> QED
    BY <1>4, <2>1 DEF LastSeenReflected
<1> QED
  BY <1>1, <1>2, <1>3, <1>4 DEF HandlerStep, dbVars, CatchUpFastForward, DirectLock,
     DirectDecline, DirectRecheck, DirectCommit, DirectCompare, DirectFails, DirectUnlock,
     ForwardMain, ForceMain, ForwardRefused, PublishedClean, PublishedRelease,
     ClaimIntegrationTask, StartRefused, FreezeAcknowledged, PrepareLockedSync, Snapshot,
     SnapshotRef, BaseRef, MergeBegin, GitMerge, ValidateMerge, MergeUnlock, ResetToLatest,
     WriteTaskFile, Fusing, PromptDelivered, StartFails, AbortRestore, AbortUnlock, AbortClean,
     NormalizeActiveTask, CheckCandidate, CheckRefuses, VerifyReport, VerifyWithoutReport,
     Preflight

\* The handler keeps tasks covered.
LEMMA HandlerRows ==
    ASSUME TypeOK, Shape, HoldInv, TaskIds, SeenInv, HandlerStep
    PROVE  RowsCover' /\ RequestCovers'
<1> USE DEF RowsCover, RequestCovers, Unsettled, ReleaseLockIfOwned
<1>a. /\ req \in Request /\ row \in [Sessions -> Row] /\ main \in Commit /\ lock \in Lock
      /\ used.tasks \in Nat /\ used \in Usage /\ RowsCover /\ RequestCovers
      /\ lastSeen \in [Sessions -> MaybeCommit]
  BY ConstantsAssumption DEF TypeOK, Usage, SeenInv
<1>b. \A s \in Sessions : \A t \in Task :
          /\ <<s, t>> \in Covered
          /\ s = req.cur => req.pc \notin {"catchup", "caught", "seen"}
          /\ s # req.cur /\ req.pc = "snapRef" => t # req.task
          => <<s, t>> \in Covered'
  BY HandlerCovered DEF SeenInv
<1>c. /\ req.pc # "idle" /\ req.cur \in Sessions
      /\ head[req.cur] \in Commit /\ Work(req.cur) \in Commit
  BY HandlerBusy, WorkType DEF TypeOK, Shape
<1>d. /\ req.pc \notin {"catchup", "caught", "direct", "start"} => req.task \in Task
      /\ req.pc \notin NotHolding => lock.owner = req.cur /\ lock.task = req.task
      /\ lock.owner \in Sessions => lock.task \in Task
      /\ \A s \in Sessions : row[s].task # NoTask => row[s].task \in Task
      /\ NoTask \notin Task /\ NoSession \notin Sessions /\ "clean" \notin LEGACY_RECOVERY_STATES
      /\ NoLock.owner = NoSession
  BY <1>a, <1>c, LockOfFacts, ConstantsAssumption DEF Shape, HoldInv, HandlerHoldsLock, Lock,
     NoLock, Row,
     MaybeTask, NoTask, Task, LEGACY_RECOVERY_STATES, LEGACY_IDLE_STATES, ACTIVE_INTEGRATION_STATES
<1>e. req.pc \in {"direct", "start"}
         => used.tasks + 1 \in Task /\ \A s \in Sessions : <<s, used.tasks + 1>> \in Covered
  BY NewTaskCovered
<1>f. req.pc = "snapRef" => \A s \in Sessions : s # req.cur => row[s].task # req.task
  BY <1>c, <1>d DEF TaskIds, IsTaskOf
<1>g. IsAncestor(lastSeen[req.cur], main) /\ IsAncestor(lastSeen[req.cur], Work(req.cur))
  BY <1>c DEF SeenInv, MainKnown, LastSeenReflected, IsAncestor, Work, CommitOf
<1>1. CASE CatchUpNothing
  <2>1. req.pc \in {"catchup", "caught"} /\ req'.pc = "idle" /\ UNCHANGED lock
    BY <1>1, FinishType DEF CatchUpNothing, At
  <2>2. \A s \in Sessions : \/ row'[s] = row[s]
                            \/ s = req.cur /\ row'[s] = [state |-> "clean", task |-> NoTask]
    BY <1>1, <1>a DEF CatchUpNothing, SettleRow, TransitionSession, cur
  <2>3. \A s \in Sessions : s = req.cur => ~Unsettled(s)
    BY <2>1, <1>a
  <2>4. \A s \in Sessions :
            s = req.cur => row'[s].task = NoTask /\ row'[s].state \notin LEGACY_RECOVERY_STATES
    BY <2>2, <2>3, <1>d
  <2>5. \A s \in Sessions : s # req.cur => row'[s] = row[s]
    BY <2>2
  <2> QED
    BY <2>1, <2>4, <2>5, <1>a, <1>b, <1>d
<1>2. CASE CatchUpFastForward
  BY <1>2, <1>a, <1>b, <1>c, <1>d, <1>e, <1>f, <1>g, LockOfFacts, GotoWithLatestType, FinishType
     DEF CatchUpFastForward, At, envVars, cur, Pc, DirectTry, StartTry, refVars, fileVars,
     dbVars, TransitionSession, NotHolding, UpdateLastSeenMain
<1>3. CASE CaughtUp
  <2>1. req.pc \in {"catchup", "caught"} /\ req'.pc = "idle" /\ UNCHANGED lock
    BY <1>3, FinishType DEF CaughtUp, At
  <2>2. \A s \in Sessions : \/ row'[s] = row[s]
                            \/ s = req.cur /\ row'[s] = [state |-> "clean", task |-> NoTask]
    BY <1>3, <1>a DEF CaughtUp, SettleRow, TransitionSession, cur
  <2>3. \A s \in Sessions : s = req.cur => ~Unsettled(s)
    BY <2>1, <1>a
  <2>4. \A s \in Sessions :
            s = req.cur => row'[s].task = NoTask /\ row'[s].state \notin LEGACY_RECOVERY_STATES
    BY <2>2, <2>3, <1>d
  <2>5. \A s \in Sessions : s # req.cur => row'[s] = row[s]
    BY <2>2
  <2> QED
    BY <2>1, <2>4, <2>5, <1>a, <1>b, <1>d
<1>4. CASE DirectLock
  BY <1>4, <1>a, <1>b, <1>c, <1>d, <1>e, <1>f, <1>g, LockOfFacts DEF DirectLock, At, envVars,
     cur, task, Request, LockOf, gitVars, refVars, fileVars, StartTry, DirectTry,
     TransitionSession, NotHolding, dbVars, UpdateLastSeenMain
<1>5. CASE DirectDecline
  BY <1>5, <1>a, <1>b, <1>c, <1>d, <1>e, <1>f, <1>g, LockOfFacts, GotoType, FinishType DEF
     DirectDecline, At, envVars, Pc, DirectTry, StartTry, gitVars, refVars, fileVars, dbVars,
     TransitionSession, NotHolding, UpdateLastSeenMain
<1>6. CASE DirectRecheck
  BY <1>6, <1>a, <1>b, <1>c, <1>d, <1>e, <1>f, <1>g, LockOfFacts, GotoWithLatestType, GotoType
     DEF DirectRecheck, At, envVars, cur, task, Pc, DirectTry, StartTry, gitVars, refVars,
     fileVars, TransitionSession, NotHolding, dbVars, UpdateLastSeenMain
<1>7. CASE DirectCommit
  BY <1>7, <1>a, <1>b, <1>c, <1>d, <1>e, <1>f, <1>g, LockOfFacts, GotoWithCandidateType,
     GotoType DEF DirectCommit, At, envVars, cur, Pc, DirectTry, StartTry, CommitAll, refVars,
     fileVars, dbVars, TransitionSession, NotHolding, UpdateLastSeenMain
<1>8. CASE DirectCompare
  BY <1>8, <1>a, <1>b, <1>c, <1>d, <1>e, <1>f, <1>g, LockOfFacts, GotoType DEF DirectCompare,
     At, envVars, cur, Pc, DirectTry, StartTry, gitVars, refVars, fileVars, TransitionSession,
     NotHolding, dbVars, UpdateLastSeenMain
<1>9. CASE DirectFails
  BY <1>9, <1>a, <1>b, <1>c, <1>d, <1>e, <1>f, <1>g, LockOfFacts, GotoType DEF DirectFails, At,
     envVars, cur, Pc, DirectTry, StartTry, gitVars, refVars, fileVars, TransitionSession,
     NotHolding, dbVars, UpdateLastSeenMain
<1>10. CASE DirectUnlock
  <2>1. /\ UNCHANGED <<row, lastSeen>> /\ lock' \in {lock, NoLock}
        /\ req.pc \in {"yield", "unlock"} /\ req'.pc \in {"idle", "start"}
    BY <1>10, <1>a, GotoType, FinishType DEF DirectUnlock, At, cur, task, Pc, StartTry
  <2> QED
    BY <2>1, <1>a, <1>b, <1>c, <1>d
<1>11. CASE ForwardMain
  BY <1>11, <1>a, <1>b, <1>c, <1>d, <1>e, <1>f, <1>g, LockOfFacts, GotoType DEF ForwardMain, At,
     envVars, Pc, DirectTry, StartTry, refVars, fileVars, dbVars, TransitionSession, NotHolding,
     UpdateLastSeenMain
<1>12. CASE ForceMain
  BY <1>12, <1>a, <1>b, <1>c, <1>d, <1>e, <1>f, <1>g, LockOfFacts, GotoType DEF ForceMain, At,
     envVars, Pc, DirectTry, StartTry, refVars, fileVars, dbVars, TransitionSession, NotHolding,
     UpdateLastSeenMain
<1>13. CASE ForwardRefused
  BY <1>13, <1>a, <1>b, <1>c, <1>d, <1>e, <1>f, <1>g, LockOfFacts, GotoType, FinishType DEF
     ForwardRefused, At, envVars, cur, task, Pc, DirectTry, StartTry, gitVars, refVars,
     fileVars, TransitionSession, NotHolding, dbVars, UpdateLastSeenMain
<1>14. CASE PublishedClean
  BY <1>14, <1>a, <1>b, <1>c, <1>d, <1>e, <1>f, <1>g, LockOfFacts, GotoType DEF PublishedClean,
     At, envVars, cur, Pc, DirectTry, StartTry, gitVars, refVars, fileVars, TransitionSession,
     NotHolding, dbVars, UpdateLastSeenMain
<1>15. CASE PublishedSeen
  BY <1>15, <1>a, <1>b, <1>c, <1>d, <1>e, <1>f, <1>g, LockOfFacts, GotoType DEF PublishedSeen,
     At, envVars, cur, Pc, DirectTry, StartTry, gitVars, refVars, fileVars, TransitionSession,
     NotHolding, dbVars, UpdateLastSeenMain
<1>16. CASE PublishedRelease
  BY <1>16, <1>a, <1>b, <1>c, <1>d, <1>e, <1>f, <1>g, LockOfFacts, FinishType DEF
     PublishedRelease, At, envVars, cur, task, ReleaseLockIfOwned, gitVars, refVars, fileVars,
     StartTry, DirectTry, TransitionSession, NotHolding, dbVars, UpdateLastSeenMain
<1>17. CASE ClaimIntegrationTask
  <2>1. /\ req.pc = "start" /\ req'.pc = "freeze" /\ req'.cur = req.cur
        /\ req'.task = used.tasks + 1
        /\ lock = NoLock /\ lock' = LockOf(req.cur, used.tasks + 1)
        /\ row' = [row EXCEPT ![req.cur] = [state |-> "queued", task |-> used.tasks + 1]]
    BY <1>17, <1>a DEF ClaimIntegrationTask, At, cur, Request, TransitionSession
  <2>2. \A s \in Sessions : /\ s # req.cur => row'[s] = row[s]
                            /\ s = req.cur => row'[s].task = used.tasks + 1
    BY <2>1, <1>a
  <2>3. lock'.owner = req.cur /\ lock'.task = used.tasks + 1
    BY <2>1, <1>c, LockOfFacts
  <2> QED
    BY <2>1, <2>2, <2>3, <1>a, <1>b, <1>c, <1>d, <1>e
<1>18. CASE StartRefused
  BY <1>18, <1>a, <1>b, <1>c, <1>d, <1>e, <1>f, <1>g, LockOfFacts, FinishType DEF StartRefused,
     At, envVars, gitVars, refVars, fileVars, dbVars, StartTry, DirectTry, TransitionSession,
     NotHolding, UpdateLastSeenMain
<1>19. CASE FreezeAcknowledged
  BY <1>19, <1>a, <1>b, <1>c, <1>d, <1>e, <1>f, <1>g, LockOfFacts, GotoType DEF
     FreezeAcknowledged, At, envVars, cur, task, Pc, DirectTry, StartTry, gitVars, refVars,
     fileVars, TransitionSession, NotHolding, dbVars, UpdateLastSeenMain
<1>20. CASE PrepareLockedSync
  BY <1>20, <1>a, <1>b, <1>c, <1>d, <1>e, <1>f, <1>g, LockOfFacts, GotoType DEF
     PrepareLockedSync, At, envVars, cur, task, Pc, DirectTry, StartTry, gitVars, refVars,
     fileVars, TransitionSession, NotHolding, dbVars, UpdateLastSeenMain
<1>21. CASE Snapshot
  BY <1>21, <1>a, <1>b, <1>c, <1>d, <1>e, <1>f, <1>g, LockOfFacts DEF Snapshot, At, envVars,
     cur, Request, CommitAll, refVars, fileVars, dbVars, StartTry, DirectTry, TransitionSession,
     NotHolding, UpdateLastSeenMain
<1>22. CASE SnapshotRef
  BY <1>22, <1>a, <1>b, <1>c, <1>d, <1>e, <1>f, <1>g, LockOfFacts, GotoType DEF SnapshotRef, At,
     envVars, task, Pc, DirectTry, StartTry, gitVars, fileVars, dbVars, TransitionSession,
     NotHolding, UpdateLastSeenMain
<1>23. CASE BaseRef
  BY <1>23, <1>a, <1>b, <1>c, <1>d, <1>e, <1>f, <1>g, LockOfFacts, GotoType DEF BaseRef, At,
     envVars, task, Pc, DirectTry, StartTry, gitVars, fileVars, dbVars, TransitionSession,
     NotHolding, UpdateLastSeenMain
<1>24. CASE MergeBegin
  BY <1>24, <1>a, <1>b, <1>c, <1>d, <1>e, <1>f, <1>g, LockOfFacts, GotoType DEF MergeBegin, At,
     envVars, cur, task, Pc, DirectTry, StartTry, gitVars, refVars, fileVars, TransitionSession,
     NotHolding, dbVars, UpdateLastSeenMain
<1>25. CASE GitMerge
  BY <1>25, <1>a, <1>b, <1>c, <1>d, <1>e, <1>f, <1>g, LockOfFacts, GotoType DEF GitMerge, At,
     envVars, cur, task, Pc, DirectTry, StartTry, refVars, fileVars, dbVars, TransitionSession,
     NotHolding, UpdateLastSeenMain
<1>26. CASE ValidateMerge
  <2>1. CASE Goto("fallback")
    BY <1>26, <2>1, <1>a, <1>b, <1>c, <1>d, <1>e, <1>f, <1>g, LockOfFacts, GotoType DEF
       ValidateMerge, At, envVars, Pc, DirectTry, StartTry, gitVars, refVars, fileVars, dbVars,
       TransitionSession, NotHolding, UpdateLastSeenMain
  <2>2. CASE GotoWithCandidate("forward", head[cur])
    BY <1>26, <2>2, <1>a, <1>b, <1>c, <1>d, <1>e, <1>f, <1>g, LockOfFacts,
       GotoWithCandidateType DEF ValidateMerge, At, envVars, cur, Pc, DirectTry, StartTry,
       gitVars, refVars, fileVars, dbVars, TransitionSession, NotHolding, UpdateLastSeenMain
  <2> QED
    BY <1>26, <2>1, <2>2 DEF ValidateMerge
<1>27. CASE MergeUnlock
  <2>1. /\ UNCHANGED <<row, lastSeen>> /\ lock' \in {lock, NoLock}
        /\ req.pc = "mergeUnlock" /\ req'.pc = "restore" /\ req'.cur = req.cur /\ req'.task = req.task
    BY <1>27, <1>a, GotoType, FinishType DEF MergeUnlock, At, cur, task, Pc, StartTry
  <2> QED
    BY <2>1, <1>a, <1>b, <1>c, <1>d
<1>28. CASE ResetToLatest
  BY <1>28, <1>a, <1>b, <1>c, <1>d, <1>e, <1>f, <1>g, LockOfFacts, GotoType DEF ResetToLatest,
     At, envVars, cur, Pc, DirectTry, StartTry, refVars, fileVars, dbVars, TransitionSession,
     NotHolding, UpdateLastSeenMain
<1>29. CASE WriteTaskFile
  BY <1>29, <1>a, <1>b, <1>c, <1>d, <1>e, <1>f, <1>g, LockOfFacts, GotoType DEF WriteTaskFile,
     At, envVars, task, Pc, DirectTry, StartTry, gitVars, refVars, dbVars, TransitionSession,
     NotHolding, UpdateLastSeenMain
<1>30. CASE Fusing
  BY <1>30, <1>a, <1>b, <1>c, <1>d, <1>e, <1>f, <1>g, LockOfFacts, GotoType DEF Fusing, At,
     envVars, cur, task, Pc, DirectTry, StartTry, gitVars, refVars, fileVars, TransitionSession,
     NotHolding, dbVars, UpdateLastSeenMain
<1>31. CASE PromptDelivered
  BY <1>31, <1>a, <1>b, <1>c, <1>d, <1>e, <1>f, <1>g, LockOfFacts, FinishType DEF
     PromptDelivered, At, envVars, gitVars, refVars, fileVars, dbVars, StartTry, DirectTry,
     TransitionSession, NotHolding, UpdateLastSeenMain
<1>32. CASE StartFails
  BY <1>32, <1>a, <1>b, <1>c, <1>d, <1>e, <1>f, <1>g, LockOfFacts, GotoType DEF StartFails, At,
     envVars, Pc, DirectTry, StartTry, gitVars, refVars, fileVars, dbVars, TransitionSession,
     NotHolding, UpdateLastSeenMain
<1>33. CASE AbortRestore
  BY <1>33, <1>a, <1>b, <1>c, <1>d, <1>e, <1>f, <1>g, LockOfFacts, GotoType DEF AbortRestore,
     At, envVars, cur, task, Pc, DirectTry, StartTry, refVars, fileVars, dbVars,
     TransitionSession, NotHolding, UpdateLastSeenMain
<1>34. CASE AbortUnlock
  <2>1. /\ UNCHANGED <<row, lastSeen>> /\ lock' \in {lock, NoLock}
        /\ req.pc = "abortUnlock" /\ req'.pc = "abortClean"
        /\ req'.cur = req.cur /\ req'.task = req.task
    BY <1>34, <1>a, GotoType, FinishType DEF AbortUnlock, At, cur, task, Pc, StartTry
  <2> QED
    BY <2>1, <1>a, <1>b, <1>c, <1>d
<1>35. CASE AbortClean
  BY <1>35, <1>a, <1>b, <1>c, <1>d, <1>e, <1>f, <1>g, LockOfFacts, FinishType DEF AbortClean,
     At, envVars, cur, gitVars, refVars, fileVars, StartTry, DirectTry, TransitionSession,
     NotHolding, dbVars, UpdateLastSeenMain
<1>36. CASE NormalizeActiveTask
  BY <1>36, <1>a, <1>b, <1>c, <1>d, <1>e, <1>f, <1>g, LockOfFacts DEF NormalizeActiveTask, At,
     envVars, cur, task, Request, gitVars, refVars, fileVars, StartTry, DirectTry,
     TransitionSession, NotHolding, dbVars, UpdateLastSeenMain
<1>37. CASE CheckCandidate
  BY <1>37, <1>a, <1>b, <1>c, <1>d, <1>e, <1>f, <1>g, LockOfFacts, GotoType DEF CheckCandidate,
     At, envVars, cur, task, Pc, DirectTry, StartTry, gitVars, refVars, fileVars,
     TransitionSession, NotHolding, dbVars, UpdateLastSeenMain
<1>38. CASE CheckRefuses
  BY <1>38, <1>a, <1>b, <1>c, <1>d, <1>e, <1>f, <1>g, LockOfFacts, FinishType DEF CheckRefuses,
     At, envVars, cur, task, gitVars, refVars, fileVars, StartTry, DirectTry, TransitionSession,
     NotHolding, dbVars, UpdateLastSeenMain
<1>39. CASE VerifyReport
  BY <1>39, <1>a, <1>b, <1>c, <1>d, <1>e, <1>f, <1>g, LockOfFacts, GotoType, FinishType DEF
     VerifyReport, At, envVars, cur, task, Pc, DirectTry, StartTry, gitVars, refVars, fileVars,
     TransitionSession, NotHolding, dbVars, UpdateLastSeenMain
<1>40. CASE VerifyWithoutReport
  BY <1>40, <1>a, <1>b, <1>c, <1>d, <1>e, <1>f, <1>g, LockOfFacts, FinishType DEF
     VerifyWithoutReport, At, envVars, cur, task, gitVars, refVars, fileVars, StartTry,
     DirectTry, TransitionSession, NotHolding, dbVars, UpdateLastSeenMain
<1>41. CASE Preflight
  BY <1>41, <1>a, <1>b, <1>c, <1>d, <1>e, <1>f, <1>g, LockOfFacts, GotoType, FinishType DEF
     Preflight, At, envVars, Pc, DirectTry, StartTry, gitVars, refVars, fileVars, dbVars,
     TransitionSession, NotHolding, UpdateLastSeenMain
<1> QED
  BY <1>1, <1>2, <1>3, <1>4, <1>5, <1>6, <1>7, <1>8, <1>9, <1>10, <1>11, <1>12, <1>13, <1>14,
     <1>15, <1>16, <1>17, <1>18, <1>19, <1>20, <1>21, <1>22, <1>23, <1>24, <1>25, <1>26, <1>27,
     <1>28, <1>29, <1>30, <1>31, <1>32, <1>33, <1>34, <1>35, <1>36, <1>37, <1>38, <1>39, <1>40,
     <1>41 DEF HandlerStep

\* What is covered depends on what sessions know, and on the snapshots.
LEMMA CoveredSame ==
    ASSUME UNCHANGED <<lastSeen, snapshotRef>>
    PROVE  Covered' = Covered
BY DEF Covered

\* A recovery puts back only tasks that it has read.
LEMMA RecoveryRows ==
    ASSUME TypeOK, Shape, RecoveryCovers, RecoveryStep, NEW s \in Sessions
    PROVE  \/ row'[s] = row[s]
           \/ /\ s \in rec.todo
              /\ \/ row'[s].task \in {NoTask, rec.rows[s].task}
                 \/ row'[s].task = rec.lock.task /\ rec.lock.owner = s
<1>a. row \in [Sessions -> Row]
  BY DEF TypeOK
<1>1. ASSUME NEW r \in Sessions, AdoptLockTask(r) \/ ResumeTask(r) \/ BackupFails(r) \/
ClearIdleRow(r)
      PROVE  \E st, k : /\ row' = [row EXCEPT ![r] = [state |-> st, task |-> k]]
                        /\ r \in rec.todo
                        /\ \/ k \in {NoTask, rec.rows[r].task}
                           \/ k = rec.lock.task /\ rec.lock.owner = r
  BY <1>1 DEF AdoptLockTask, ResumeTask, BackupFails, ClearIdleRow, TransitionSession,
     TaskMismatch, TaskToRecover, OwnsLock
<1>2. CASE RecoverClean
  <2>1. row' = [row EXCEPT ![rec.cur] = [state |-> "clean", task |-> NoTask]] /\ rec.cur \in rec.todo
    BY <1>2 DEF RecoverClean, TransitionSession, RecoveryCovers
  <2> QED
    BY <1>a, <2>1
<1>3. CASE RecoverRestore \/ RecoverUnlock \/ RecoveryDone \/ \E r \in Sessions : BackUpTask(r)
  BY <1>3 DEF RecoverRestore, RecoverUnlock, RecoveryDone, BackUpTask, dbVars
<1> QED
  BY <1>a, <1>1, <1>2, <1>3 DEF RecoveryStep

\* A recovery goes through the sessions it has found.
LEMMA RecoveryTodo ==
    ASSUME TypeOK, Shape, RecoveryCovers, RecoveryStep
    PROVE  \/ rec' = NotRecovering
           \/ /\ rec'.rows = rec.rows /\ rec'.lock = rec.lock /\ rec'.todo \subseteq rec.todo
              /\ rec'.pc # "scan" => rec'.cur \in rec'.todo
<1>a. rec \in Recovery
  BY DEF TypeOK
<1> DEFINE On == /\ rec'.rows = rec.rows /\ rec'.lock = rec.lock /\ rec'.todo \subseteq rec.todo
                 /\ rec'.pc # "scan" => rec'.cur \in rec'.todo
<1>1. ASSUME NEW s \in Sessions, AdoptLockTask(s) \/ ClearIdleRow(s) \/ ResumeTask(s) \/
BackupFails(s)
      PROVE  On
  <2>1. rec' = [rec EXCEPT !.pc = "scan", !.todo = @ \ {s}, !.cur = NoSession]
    BY <1>1 DEF AdoptLockTask, ClearIdleRow, ResumeTask, BackupFails, NextSession
  <2> QED
    BY <1>a, <2>1 DEF Recovery
<1>2. ASSUME NEW s \in Sessions, BackUpTask(s)
      PROVE  On
  <2>1. rec' = [rec EXCEPT !.pc = "restore", !.cur = s] /\ s \in rec.todo
    BY <1>2 DEF BackUpTask
  <2> QED
    BY <1>a, <2>1 DEF Recovery
<1>3. CASE RecoverRestore \/ RecoverUnlock
  BY <1>3, <1>a DEF RecoverRestore, RecoverUnlock, GotoRecovery, Recovery, RecoveryCovers
<1>4. CASE RecoverClean
  BY <1>4, <1>a DEF RecoverClean, NextSession, Recovery
<1>5. CASE RecoveryDone
  BY <1>5 DEF RecoveryDone
<1> QED
  BY <1>1, <1>2, <1>3, <1>4, <1>5 DEF RecoveryStep

\* A step of a recovery.
LEMMA RecoverySeen ==
    ASSUME TypeOK, Shape, HoldInv, SeenInv, RecoveryStep
    PROVE  LastSeenReflected' /\ RowsCover' /\ RequestCovers' /\ RecoveryCovers'
<1>a. /\ rec \in Recovery /\ lock \in Lock /\ row \in [Sessions -> Row]
      /\ head \in [Sessions -> Commit]
      /\ NoTask \notin Task /\ NoLock.owner = NoSession /\ NoSession \notin Sessions
  BY ConstantsAssumption DEF TypeOK, Task, NoTask, NoLock
<1>b. /\ UNCHANGED <<lastSeen, snapshotRef, main, req, joining>>
      /\ rec.pc # "off" /\ (lock' = lock \/ lock' = NoLock)
  BY DEF RecoveryStep, AdoptLockTask, ClearIdleRow, ResumeTask, BackUpTask, BackupFails,
     RecoverRestore, RecoverUnlock, RecoverClean, RecoveryDone, Scanning, refVars, gitVars, dbVars
<1>c. Covered' = Covered /\ req.pc = "idle"
  BY <1>b, CoveredSame DEF HoldInv, RequestsAlone
<1>d. /\ lock \in {rec.lock, NoLock}
      /\ \A s \in rec.todo :
             /\ rec.rows[s].task # NoTask => <<s, rec.rows[s].task>> \in Covered
             /\ rec.lock.owner = s => <<s, rec.lock.task>> \in Covered
  BY <1>b DEF SeenInv, RecoveryCovers
<1>1. LastSeenReflected'
  <2>1. CASE UNCHANGED head
    BY <2>1, <1>b DEF SeenInv, LastSeenReflected
  <2>2. CASE RecoverRestore
    <3> DEFINE t == TaskToRecover(rec.cur)
    <3>1. /\ rec.cur \in rec.todo /\ rec.cur \in Sessions /\ t \in Task
          /\ \/ UNCHANGED head
             \/ snapshotRef[t] # NoCommit /\ head' = [head EXCEPT ![rec.cur] = snapshotRef[t]]
      BY <2>2 DEF RecoverRestore, RestoreTaskSnapshotIfPossible, ResetHard, SeenInv,
         RecoveryCovers, Shape
    <3>2. <<rec.cur, t>> \in Covered
      BY <1>a, <1>d, <3>1 DEF TaskToRecover, OwnsLock
    <3> HIDE DEF t
    <3>3. snapshotRef[t] = NoCommit \/ IsAncestor(lastSeen[rec.cur], snapshotRef[t])
      BY <3>2 DEF Covered
    <3>4. ASSUME NEW s \in Sessions, lastSeen[s] # NoCommit
          PROVE  IsAncestor(lastSeen[s], main) /\ IsAncestor(lastSeen[s], head'[s])
      <4>1. IsAncestor(lastSeen[s], main) /\ IsAncestor(lastSeen[s], head[s])
        BY <3>4 DEF SeenInv, LastSeenReflected
      <4> QED
        BY <4>1, <3>1, <3>3, <1>a
    <3> QED
      BY <3>4, <1>b DEF LastSeenReflected
  <2> QED
    BY <2>1, <2>2 DEF RecoveryStep, AdoptLockTask, ClearIdleRow, ResumeTask, BackUpTask,
       BackupFails, RecoverUnlock, RecoverClean, RecoveryDone, gitVars
<1>2. RowsCover'
  <2> SUFFICES ASSUME NEW s \in Sessions
               PROVE  /\ row'[s].task # NoTask => <<s, row'[s].task>> \in Covered
                      /\ lock'.owner = s /\ Unsettled(s)' => <<s, lock'.task>> \in Covered
    BY <1>c DEF RowsCover
  <2>1. CASE row'[s] = row[s]
    BY <1>a, <1>b, <2>1 DEF SeenInv, RowsCover, Unsettled
  <2>2. CASE row'[s] # row[s]
    <3>1. /\ s \in rec.todo
          /\ \/ row'[s].task \in {NoTask, rec.rows[s].task}
             \/ row'[s].task = rec.lock.task /\ rec.lock.owner = s
      BY <2>2, RecoveryRows DEF SeenInv
    <3>2. row'[s].task # NoTask => <<s, row'[s].task>> \in Covered
      BY <1>d, <3>1
    <3>3. lock'.owner = s => lock' = rec.lock
      BY <1>a, <1>b, <1>d
    <3> QED
      BY <1>d, <3>1, <3>2, <3>3
  <2> QED
    BY <2>1, <2>2
<1>3. RequestCovers'
  BY <1>b, <1>c DEF RequestCovers
<1>4. RecoveryCovers'
  <2>1. CASE rec' = NotRecovering
    BY <2>1 DEF RecoveryCovers, NotRecovering
  <2>2. CASE rec' # NotRecovering
    BY <2>2, <1>b, <1>c, <1>d, RecoveryTodo DEF RecoveryCovers, SeenInv
  <2> QED
    BY <2>1, <2>2
<1> QED
  BY <1>1, <1>2, <1>3, <1>4

\* A baseline is adopted only for a session that knows no main, and it is in main and
\* in the branch.
LEMMA BaselineSeen ==
    ASSUME TypeOK, LastSeenReflected, NEW s \in Sessions, ReadyToIntegrate(s)
    PROVE  LastSeenReflected'
<1>1. /\ UNCHANGED <<main, head>> /\ lastSeen \in [Sessions -> MaybeCommit]
      /\ lastSeen' = [lastSeen EXCEPT ![s] = Baseline(s)]
  BY DEF ReadyToIntegrate, UpdateLastSeenMain, gitVars, TypeOK
<1> QED
  BY <1>1 DEF LastSeenReflected, Baseline, IsAncestor

\* A session that asks for a publication: a baseline is adopted only for a
\* session that knows none, which therefore has no task.
LEMMA ReadySeen ==
    ASSUME TypeOK, Shape, HoldInv, SeenInv, NEW s \in Sessions, ReadyToIntegrate(s)
    PROVE  LastSeenReflected' /\ RowsCover' /\ RequestCovers' /\ RecoveryCovers'
<1>a. /\ row \in [Sessions -> Row] /\ lastSeen \in [Sessions -> MaybeCommit] /\ lock \in Lock
      /\ \A r \in Sessions : row[r].task # NoTask => row[r].task \in Task
      /\ lock.owner \in Sessions => lock.task \in Task
  BY ConstantsAssumption DEF TypeOK, Row, MaybeTask, Lock, NoLock
<1>b. /\ UNCHANGED <<main, head, snapshotRef, lock, rec>> /\ up /\ req.pc = "idle"
      /\ lastSeen' = [lastSeen EXCEPT ![s] = Baseline(s)]
      /\ \A r \in Sessions : /\ r # s => row'[r] = row[r]
                             /\ row'[r].task = row[r].task
                             /\ Unsettled(r)' => Unsettled(r)
  BY <1>a DEF ReadyToIntegrate, UpdateLastSeenMain, gitVars, refVars, envVars, At, Row, Unsettled,
     LEGACY_RECOVERY_STATES, LEGACY_IDLE_STATES, ACTIVE_INTEGRATION_STATES
<1>c. rec.pc = "off"
  BY <1>b DEF HoldInv, RequestsAlone
<1>1. LastSeenReflected'
  BY BaselineSeen DEF SeenInv
<1>2. ASSUME NEW r \in Sessions, NEW t \in Task, IsTaskOf(t, r), <<r, t>> \in Covered
      PROVE  <<r, t>> \in Covered'
  <2>1. lastSeen'[r] = lastSeen[r]
    BY <1>a, <1>b, <1>2 DEF SeenInv, MainKnown, Baseline
  <2> QED
    BY <2>1, <1>b, <1>2 DEF Covered
<1>3. RowsCover'
  BY <1>a, <1>b, <1>2 DEF SeenInv, RowsCover, IsTaskOf
<1>4. RequestCovers'
  <2>1. CASE UNCHANGED req
    BY <2>1, <1>b DEF RequestCovers
  <2>2. CASE ~UNCHANGED req
    <3>0. PICK st : /\ row' = [row EXCEPT ![s].state = st]
                    /\ st \in READY_TO_INTEGRATE_STATES /\ row[s].task = NoTask
                    /\ req'.pc \in {"direct", "catchup"} /\ req'.cur = s
      BY <2>2 DEF ReadyToIntegrate, Idle
    <3>1. /\ req'.pc \in {"direct", "catchup"} /\ req'.cur = s /\ row[s].task = NoTask
          /\ row'[s].state \in READY_TO_INTEGRATE_STATES
      BY <3>0, <1>a DEF Row
    <3>2. ~Unsettled(s)'
      BY <3>1, <1>b DEF Unsettled, READY_TO_INTEGRATE_STATES, LEGACY_RECOVERY_STATES,
         LEGACY_IDLE_STATES, ACTIVE_INTEGRATION_STATES
    <3> QED
      BY <3>1, <3>2 DEF RequestCovers, Unsettled
  <2> QED
    BY <2>1, <2>2
<1>5. RecoveryCovers'
  BY <1>b, <1>c DEF RecoveryCovers
<1> QED
  BY <1>1, <1>3, <1>4, <1>5

\* Every step, as long as there is one daemon and no `cocodex join` writes.
LEMMA NextSeen ==
    ASSUME MaxSecond = 0, MaxJoins = 0, TypeOK, Shape, HoldInv, TaskIds, SeenInv, [Next]_vars
    PROVE  SeenInv'
<1>a. /\ req \in Request /\ rec \in Recovery /\ row \in [Sessions -> Row] /\ lock \in Lock
      /\ SeenInv
  BY DEF TypeOK
<1>b. LatestPublished' /\ MainKnown' /\ SeenStays'
  BY NextLatest, NextKnown, NextSeenStays DEF SeenInv
<1>c. ~SecondDaemon /\ ~JoinStep /\ joining' = joining
  <2>1. ~SecondDaemon /\ ~JoinStep
    BY DEF SecondDaemon, JoinStep, JoinRead, JoinCheck, JoinWrite, TypeOK, Usage, SeenInv,
       NotJoining
  <2> QED
    BY <2>1 DEF Next, vars, Boot, StartRecovery, Crash, ReadyToIntegrate, FusionDone, DeveloperStep,
       Edit, CommitWork, CommitCandidate, WriteReport, ExternalMain, envVars, RecoveryStep,
       AdoptLockTask, ClearIdleRow, ResumeTask, BackUpTask, BackupFails, RecoverRestore,
       RecoverUnlock, RecoverClean, RecoveryDone, HandlerStep, CatchUpNothing, CatchUpFastForward,
       CaughtUp, DirectLock, DirectDecline, DirectRecheck, DirectCommit, DirectCompare,
       DirectFails, DirectUnlock, ForwardMain, ForceMain, ForwardRefused, PublishedClean,
       PublishedSeen, PublishedRelease, ClaimIntegrationTask, StartRefused, FreezeAcknowledged,
       PrepareLockedSync, Snapshot, SnapshotRef, BaseRef, MergeBegin, GitMerge, ValidateMerge,
       MergeUnlock, ResetToLatest, WriteTaskFile, Fusing, PromptDelivered, StartFails,
       AbortRestore, AbortUnlock, AbortClean, NormalizeActiveTask, CheckCandidate, CheckRefuses,
       VerifyReport, VerifyWithoutReport, Preflight
<1>1. CASE HandlerStep
  <2>1. UNCHANGED rec /\ rec.pc = "off"
    BY <1>1, HandlerBusy
  <2>2. LastSeenReflected' /\ RowsCover' /\ RequestCovers'
    BY <1>1, <1>b, HandlerSeen, HandlerRows, SeenCoreHolds
  <2> QED
    BY <1>b, <1>c, <2>1, <2>2 DEF SeenInv, RecoveryCovers
<1>2. CASE RecoveryStep
  BY <1>2, <1>b, <1>c, RecoverySeen DEF SeenInv
<1>3. ASSUME NEW s \in Sessions, ReadyToIntegrate(s) PROVE SeenInv'
  BY <1>3, <1>b, <1>c, ReadySeen DEF SeenInv
<1>4. ASSUME UNCHANGED <<lastSeen, snapshotRef, row, lock>>,
             \A s \in Sessions : IsAncestor(head[s], head'[s])
      PROVE  LastSeenReflected' /\ RowsCover' /\ Covered' = Covered
  <2>1. \A s \in Sessions : lastSeen'[s] # NoCommit => IsAncestor(lastSeen'[s], main')
    BY <1>b, FirmIsMain DEF SeenStays, IsAncestor
  <2> QED
    BY <1>4, <2>1, CoveredSame DEF SeenInv, LastSeenReflected, RowsCover, Unsettled, IsAncestor
<1>5. CASE UNCHANGED vars \/ ExternalMain \/ \E s \in Sessions : DeveloperStep(s)
  <2>1. UNCHANGED <<lastSeen, snapshotRef, row, lock, req, rec>>
    BY <1>5 DEF vars, ExternalMain, DeveloperStep, Edit, CommitWork, CommitCandidate, WriteReport,
       refVars, dbVars
  <2>2. \A s \in Sessions : IsAncestor(head[s], head'[s])
    BY <1>5, HeadsGrow DEF vars, ExternalMain, IsAncestor
  <2> QED
    BY <1>4, <1>b, <1>c, <2>1, <2>2 DEF SeenInv, RequestCovers, RecoveryCovers, Unsettled
<1>6. CASE Boot
  <2>1. /\ UNCHANGED <<lastSeen, snapshotRef, row, lock, req, head>>
        /\ rec'.pc = "scan" /\ rec'.lock = lock /\ rec'.rows = row
        /\ rec'.todo = {s \in Sessions : Unsettled(s)}
    BY <1>6, <1>a DEF Boot, StartRecovery, gitVars, refVars, dbVars, Recovery, Unsettled
  <2>2. LastSeenReflected' /\ RowsCover' /\ Covered' = Covered
    BY <1>4, <2>1 DEF IsAncestor
  <2>3. RequestCovers'
    BY <2>1, <2>2 DEF SeenInv, RequestCovers, Unsettled
  <2>4. RecoveryCovers'
    BY <2>1, <2>2 DEF SeenInv, RowsCover, RecoveryCovers
  <2> QED
    BY <1>b, <1>c, <2>2, <2>3, <2>4 DEF SeenInv
<1>7. CASE Crash
  <2>1. /\ UNCHANGED <<lastSeen, snapshotRef, row, lock, head>>
        /\ rec'.pc = "off" /\ req' \in {req, Idle}
    BY <1>7 DEF Crash, NotRecovering, HoldInv, RequestsAlone, gitVars, refVars, dbVars
  <2>2. LastSeenReflected' /\ RowsCover' /\ Covered' = Covered
    BY <1>4, <2>1 DEF IsAncestor
  <2>3. CASE req' = req
    <3>1. RequestCovers'
      BY <2>1, <2>2, <2>3 DEF SeenInv, RequestCovers, Unsettled
    <3> QED
      BY <1>b, <1>c, <2>1, <2>2, <3>1 DEF SeenInv, RecoveryCovers
  <2>4. CASE req' = Idle
    <3>1. RequestCovers'
      BY <2>4 DEF RequestCovers, Idle
    <3> QED
      BY <1>b, <1>c, <2>1, <2>2, <3>1 DEF SeenInv, RecoveryCovers
  <2> QED
    BY <2>1, <2>3, <2>4
<1>8. ASSUME NEW s \in Sessions, FusionDone(s) PROVE SeenInv'
  <2>1. /\ UNCHANGED <<lastSeen, snapshotRef, row, head, main, rec>> /\ up
        /\ row[s].task # NoTask /\ lock' = LockOf(s, row[s].task)
        /\ req'.pc = "normalize" /\ req'.cur = s /\ req'.task = row[s].task
    BY <1>8 DEF FusionDone, Idle, gitVars, refVars, envVars
  <2>2. rec.pc = "off" /\ Covered' = Covered
    BY <2>1, CoveredSame DEF HoldInv, RequestsAlone
  <2>3. <<s, row[s].task>> \in Covered
    BY <2>1 DEF SeenInv, RowsCover
  <2>4. LastSeenReflected' /\ RecoveryCovers'
    BY <2>1, <2>2 DEF SeenInv, LastSeenReflected, RecoveryCovers
  <2>5. lock'.owner = s /\ lock'.task = row[s].task
    BY <2>1, LockOfFacts
  <2>6. RowsCover'
    BY <2>1, <2>2, <2>3, <2>5 DEF SeenInv, RowsCover
  <2>7. RequestCovers'
    BY <2>1, <2>2, <2>3 DEF RequestCovers
  <2> QED
    BY <1>b, <1>c, <2>4, <2>6, <2>7 DEF SeenInv
<1> QED
  BY <1>1, <1>2, <1>3, <1>5, <1>6, <1>7, <1>8, <1>c DEF Next

\* Initially whoever knows a main knows the root commit.
LEMMA SeenInitially == Init => SeenInv
<1> SUFFICES ASSUME Init PROVE SeenInv
  OBVIOUS
<1>1. \A s \in Sessions : row[s].task = NoTask
  BY DEF Init, InitialRow
<1>2. NoTask \notin Task /\ NoSession \notin Sessions
  BY ConstantsAssumption DEF NoTask, Task
<1>3. LastSeenReflected /\ SeenStays /\ LatestPublished
  BY DEF Init, Idle, LastSeenReflected, SeenStays, LatestPublished, FirmMain, IsAncestor, Root
<1>4. MainKnown
  BY <1>1, <1>2 DEF Init, MainKnown, IsTaskOf, Idle, NotRecovering, NotJoining, NoLock
<1>5. RowsCover
  BY <1>1, <1>2 DEF Init, RowsCover, NoLock
<1>6. RequestCovers /\ RecoveryCovers
  BY DEF Init, RequestCovers, RecoveryCovers, Idle, NotRecovering
<1> QED
  BY <1>3, <1>4, <1>5, <1>6 DEF SeenInv, Init

\* A request that merges has been merging, for the same task, or takes a new one.
LEMMA MergingStarts ==
    ASSUME TypeOK, Shape, ModeInv, HandlerStep, Merging'
    PROVE  /\ req'.cur = req.cur
           /\ \/ Merging /\ req'.task = req.task
              \/ req.pc = "start" /\ req'.task = used.tasks + 1
           /\ \/ req.pc = "snapshot" /\ Snapshot
              \/ /\ req'.latest = req.latest
                 /\ req'.pc # "snapRef"
                 /\ req'.pc \in {"baseRef", "mergeBegin", "merge", "validate", "fallback", "reset"}
                       => req.pc \in {"snapRef", "baseRef", "mergeBegin", "merge", "validate",
                                      "fallback", "reset"}
<1> USE DEF ModeInv, Merging, StartTry
<1>a. req \in Request /\ main \in Commit
  BY DEF TypeOK
<1>b. req.pc # "idle" => head[req.cur] \in Commit /\ Work(req.cur) \in Commit
  BY WorkType DEF TypeOK, Shape
<1>1. CASE CatchUpNothing
  BY <1>1, <1>a, <1>b, FinishType DEF CatchUpNothing, At, cur
<1>2. CASE CatchUpFastForward
  BY <1>2, <1>a, <1>b, GotoWithLatestType, FinishType DEF CatchUpFastForward, At, cur, Pc,
     DirectTry, StartTry
<1>3. CASE CaughtUp
  BY <1>3, <1>a, <1>b, FinishType DEF CaughtUp, At, cur
<1>4. CASE DirectLock
  BY <1>4, <1>a, <1>b DEF DirectLock, At, cur, task, Request
<1>5. CASE DirectDecline
  BY <1>5, <1>a, <1>b, GotoType, FinishType DEF DirectDecline, At, Pc, DirectTry, StartTry
<1>6. CASE DirectRecheck
  BY <1>6, <1>a, <1>b, GotoWithLatestType, GotoType DEF DirectRecheck, At, cur, task, Pc,
     DirectTry, StartTry
<1>7. CASE DirectCommit
  BY <1>7, <1>a, <1>b, GotoWithCandidateType, GotoType DEF DirectCommit, At, cur, Pc, DirectTry,
     StartTry
<1>8. CASE DirectCompare
  BY <1>8, <1>a, <1>b, GotoType DEF DirectCompare, At, cur, Pc, DirectTry, StartTry
<1>9. CASE DirectFails
  BY <1>9, <1>a, <1>b, GotoType DEF DirectFails, At, cur, Pc, DirectTry, StartTry
<1>10. CASE DirectUnlock
  BY <1>10, <1>a, <1>b, GotoType, FinishType DEF DirectUnlock, At, cur, task, Pc, DirectTry,
     StartTry
<1>11. CASE ForwardMain
  BY <1>11, <1>a, <1>b, GotoType DEF ForwardMain, At, Pc, DirectTry, StartTry
<1>12. CASE ForceMain
  BY <1>12, <1>a, <1>b, GotoType DEF ForceMain, At, Pc, DirectTry, StartTry
<1>13. CASE ForwardRefused
  BY <1>13, <1>a, <1>b, GotoType, FinishType DEF ForwardRefused, At, cur, task, Pc, DirectTry,
     StartTry
<1>14. CASE PublishedClean
  BY <1>14, <1>a, <1>b, GotoType DEF PublishedClean, At, cur, Pc, DirectTry, StartTry
<1>15. CASE PublishedSeen
  BY <1>15, <1>a, <1>b, GotoType DEF PublishedSeen, At, cur, Pc, DirectTry, StartTry
<1>16. CASE PublishedRelease
  BY <1>16, <1>a, <1>b, FinishType DEF PublishedRelease, At, cur, task
<1>17. CASE ClaimIntegrationTask
  BY <1>17, <1>a, <1>b DEF ClaimIntegrationTask, At, cur, task, Request
<1>18. CASE StartRefused
  BY <1>18, <1>a, <1>b, FinishType DEF StartRefused, At
<1>19. CASE FreezeAcknowledged
  BY <1>19, <1>a, <1>b, GotoType DEF FreezeAcknowledged, At, cur, task, Pc, DirectTry, StartTry
<1>20. CASE PrepareLockedSync
  BY <1>20, <1>a, <1>b, GotoType DEF PrepareLockedSync, At, cur, task, Pc, DirectTry, StartTry
<1>21. CASE Snapshot
  BY <1>21, <1>a, <1>b DEF Snapshot, At, cur, Request
<1>22. CASE SnapshotRef
  BY <1>22, <1>a, <1>b, GotoType DEF SnapshotRef, At, task, Pc, DirectTry, StartTry
<1>23. CASE BaseRef
  BY <1>23, <1>a, <1>b, GotoType DEF BaseRef, At, task, Pc, DirectTry, StartTry
<1>24. CASE MergeBegin
  BY <1>24, <1>a, <1>b, GotoType DEF MergeBegin, At, cur, task, Pc, DirectTry, StartTry
<1>25. CASE GitMerge
  BY <1>25, <1>a, <1>b, GotoType DEF GitMerge, At, cur, task, Pc, DirectTry, StartTry
<1>26. CASE ValidateMerge
  BY <1>26, <1>a, <1>b, GotoWithCandidateType, GotoType DEF ValidateMerge, At, cur, task, Pc,
     DirectTry, StartTry
<1>27. CASE MergeUnlock
  BY <1>27, <1>a, <1>b, GotoType DEF MergeUnlock, At, cur, task, Pc, DirectTry, StartTry
<1>28. CASE ResetToLatest
  BY <1>28, <1>a, <1>b, GotoType DEF ResetToLatest, At, cur, Pc, DirectTry, StartTry
<1>29. CASE WriteTaskFile
  BY <1>29, <1>a, <1>b, GotoType DEF WriteTaskFile, At, task, Pc, DirectTry, StartTry
<1>30. CASE Fusing
  BY <1>30, <1>a, <1>b, GotoType DEF Fusing, At, cur, task, Pc, DirectTry, StartTry
<1>31. CASE PromptDelivered
  BY <1>31, <1>a, <1>b, FinishType DEF PromptDelivered, At
<1>32. CASE StartFails
  BY <1>32, <1>a, <1>b, GotoType DEF StartFails, At, Pc, DirectTry, StartTry
<1>33. CASE AbortRestore
  BY <1>33, <1>a, <1>b, GotoType DEF AbortRestore, At, cur, task, Pc, DirectTry, StartTry
<1>34. CASE AbortUnlock
  BY <1>34, <1>a, <1>b, GotoType DEF AbortUnlock, At, cur, task, Pc, DirectTry, StartTry
<1>35. CASE AbortClean
  BY <1>35, <1>a, <1>b, FinishType DEF AbortClean, At, cur
<1>36. CASE NormalizeActiveTask
  BY <1>36, <1>a, <1>b DEF NormalizeActiveTask, At, cur, task, Request
<1>37. CASE CheckCandidate
  BY <1>37, <1>a, <1>b, GotoType DEF CheckCandidate, At, cur, task, Pc, DirectTry, StartTry
<1>38. CASE CheckRefuses
  BY <1>38, <1>a, <1>b, FinishType DEF CheckRefuses, At, cur, task
<1>39. CASE VerifyReport
  BY <1>39, <1>a, <1>b, GotoType, FinishType DEF VerifyReport, At, cur, task, Pc, DirectTry,
     StartTry
<1>40. CASE VerifyWithoutReport
  BY <1>40, <1>a, <1>b, FinishType DEF VerifyWithoutReport, At, cur, task
<1>41. CASE Preflight
  BY <1>41, <1>a, <1>b, GotoType, FinishType DEF Preflight, At, Pc, DirectTry, StartTry
<1> QED
  BY <1>1, <1>2, <1>3, <1>4, <1>5, <1>6, <1>7, <1>8, <1>9, <1>10, <1>11, <1>12, <1>13, <1>14,
     <1>15, <1>16, <1>17, <1>18, <1>19, <1>20, <1>21, <1>22, <1>23, <1>24, <1>25, <1>26, <1>27,
     <1>28, <1>29, <1>30, <1>31, <1>32, <1>33, <1>34, <1>35, <1>36, <1>37, <1>38, <1>39, <1>40,
     <1>41 DEF HandlerStep

\* What a request will need to undo its task stays covered.
LEMMA HandlerMerges ==
    ASSUME TypeOK, Shape, HoldInv, ModeInv, TaskIds, SeenCore, HandlerStep
    PROVE  MergeCovers'
<1>a. /\ req \in Request /\ req.pc # "idle" /\ req.cur \in Sessions
      /\ req.pc \notin {"catchup", "caught", "direct", "start"} => req.task \in Task
  BY HandlerBusy DEF TypeOK, Shape
<1>1. CASE ~Merging'
  BY <1>1 DEF MergeCovers, Merging, StartTry
<1>2. CASE Merging'
  <2>1. /\ req'.cur = req.cur
        /\ \/ Merging /\ req'.task = req.task
           \/ req.pc = "start" /\ req'.task = used.tasks + 1
        /\ \/ req.pc = "snapshot" /\ Snapshot
           \/ /\ req'.latest = req.latest
              /\ req'.pc # "snapRef"
              /\ req'.pc \in {"baseRef", "mergeBegin", "merge", "validate", "fallback", "reset"}
                    => req.pc \in {"snapRef", "baseRef", "mergeBegin", "merge", "validate",
                                   "fallback", "reset"}
    BY <1>2, MergingStarts
  <2>2. req.pc \notin {"catchup", "caught", "seen"}
    BY <2>1 DEF Merging, StartTry
  <2>3. <<req.cur, req'.task>> \in Covered /\ req'.task \in Task
    BY <1>a, <2>1, NewTaskCovered DEF SeenCore, MergeCovers, Merging, StartTry
  <2>4. <<req.cur, req'.task>> \in Covered'
    BY <1>a, <2>2, <2>3, HandlerCovered DEF SeenCore, MergeCovers
  <2>5. lastSeen'[req.cur] = lastSeen[req.cur]
    BY <1>a, <2>2, HandlerKeepsSeen
  <2>6. CASE Snapshot
    <3>1. /\ req'.latest = main /\ req'.cand = Work(req.cur)
      BY <1>a, <2>6 DEF Snapshot, cur, Request
    <3>2. IsAncestor(lastSeen[req.cur], main) /\ IsAncestor(lastSeen[req.cur], Work(req.cur))
      BY <1>a DEF SeenCore, MainKnown, LastSeenReflected, IsAncestor, Work, CommitOf
    <3> QED
      BY <2>1, <2>4, <2>5, <3>1, <3>2 DEF MergeCovers
  <2>7. CASE ~Snapshot
    BY <2>1, <2>4, <2>5, <2>7 DEF SeenCore, MergeCovers
  <2> QED
    BY <2>6, <2>7
<1> QED
  BY <1>1, <1>2

\* Where no task is to be restored, a recovery only clears rows that have none.
LEMMA RecoveryClears ==
    ASSUME TypeOK, RestoresNothing, RecoveryStep
    PROVE  RecoveryDone \/ \E s \in Sessions : ClearIdleRow(s)
<1>1. rec.pc = "scan"
  BY DEF RecoveryStep, AdoptLockTask, ClearIdleRow, ResumeTask, BackUpTask, BackupFails,
     RecoverRestore, RecoverUnlock, RecoverClean, RecoveryDone, Scanning, RestoresNothing
<1>2. \A s \in Sessions : ~OwnsLock(s) /\ TaskToRecover(s) = NoTask
  BY <1>1, ConstantsAssumption DEF OwnsLock, TaskToRecover, RestoresNothing, NoLock
<1> QED
  BY <1>1, <1>2 DEF RecoveryStep, AdoptLockTask, ResumeTask, BackUpTask, BackupFails,
     TaskMismatch, Resumable, RecoverRestore, RecoverUnlock, RecoverClean

\* As long as the daemon does not crash, no recovery finds a task to restore: a
\* join can only read one while the daemon runs.
LEMMA NextRestoresNothing ==
    ASSUME MaxSecond = 0, MaxCrashes = 0, TypeOK, Shape, HoldInv, RestoresNothing, [Next]_vars
    PROVE  RestoresNothing'
<1>a. /\ row \in [Sessions -> Row] /\ rec \in Recovery /\ joining \in Joining
      /\ used.crashes = 0 /\ used.seconds = 0
  BY DEF TypeOK, Usage
<1>b. /\ ~up => /\ lock = NoLock /\ joining.task = NoTask
                /\ \A s \in Sessions : row[s].task = NoTask
      /\ rec.pc # "off" => ~up
  BY DEF RestoresNothing, HoldInv, RequestsAlone
<1>1. CASE HandlerStep
  <2>1. up /\ UNCHANGED <<up, rec>> /\ rec.pc = "off"
    BY <1>1, HandlerBusy
  <2> QED
    BY <2>1 DEF RestoresNothing
<1>2. CASE RecoveryDone
  BY <1>2 DEF RecoveryDone, NotRecovering, RestoresNothing
<1>3. ASSUME NEW s \in Sessions, ClearIdleRow(s) PROVE RestoresNothing'
  <2>1. /\ UNCHANGED <<lock, up, joining>> /\ rec.pc = "scan"
        /\ row' = [row EXCEPT ![s] = [state |-> "clean", task |-> NoTask]]
        /\ rec' = [rec EXCEPT !.pc = "scan", !.todo = @ \ {s}, !.cur = NoSession]
    BY <1>3 DEF ClearIdleRow, Scanning, TransitionSession, NextSession
  <2>2. rec'.pc = "scan" /\ rec'.lock = rec.lock /\ rec'.rows = rec.rows
    BY <1>a, <2>1 DEF Recovery
  <2>3. \A r \in Sessions : row'[r].task \in {row[r].task, NoTask}
    BY <1>a, <2>1
  <2> QED
    BY <2>1, <2>2, <2>3 DEF RestoresNothing
<1>4. CASE Boot
  BY <1>4, <1>a, <1>b DEF Boot, StartRecovery, dbVars, Recovery, RestoresNothing
<1>5. CASE JoinStep
  <2>1. UNCHANGED <<lock, up, rec>>
    BY <1>5 DEF JoinStep, JoinRead, JoinCheck, JoinWrite, dbVars
  <2>2. ASSUME ~up PROVE joining'.task = NoTask /\ \A s \in Sessions : row'[s].task = NoTask
    <3>1. CASE \E s \in Sessions : JoinRead(s)
      BY <1>b, <2>2, <3>1 DEF JoinRead, dbVars
    <3>2. CASE JoinCheck
      BY <1>a, <1>b, <2>2, <3>2 DEF JoinCheck, NotJoining, dbVars, Joining
    <3>3. CASE JoinWrite
      BY <1>a, <1>b, <2>2, <3>3 DEF JoinWrite, NotJoining, TransitionSession
    <3> QED
      BY <1>5, <3>1, <3>2, <3>3 DEF JoinStep
  <2> QED
    BY <2>1, <2>2 DEF RestoresNothing
<1>6. ASSUME NEW s \in Sessions, ReadyToIntegrate(s) \/ FusionDone(s) PROVE RestoresNothing'
  BY <1>6 DEF ReadyToIntegrate, FusionDone, envVars, RestoresNothing
<1>7. CASE UNCHANGED vars \/ ExternalMain \/ \E s \in Sessions : DeveloperStep(s)
  BY <1>7 DEF vars, ExternalMain, DeveloperStep, Edit, CommitWork, CommitCandidate, WriteReport,
     dbVars, RestoresNothing
<1>8. ~SecondDaemon /\ ~Crash
  BY <1>a DEF SecondDaemon, Crash
<1> QED
  BY <1>1, <1>2, <1>3, <1>4, <1>5, <1>6, <1>7, <1>8, RecoveryClears DEF Next

\* Every step, as long as the daemon does not crash, whatever joins write.
LEMMA NextCalm ==
    ASSUME MaxSecond = 0, MaxCrashes = 0, TypeOK, Shape, HoldInv, TaskIds, CalmInv, [Next]_vars
    PROVE  CalmInv'
<1>a. SeenCore /\ ModeInv /\ RestoresNothing
  BY DEF CalmInv
<1>b. /\ LatestPublished' /\ MainKnown' /\ SeenStays' /\ ModeInv' /\ RestoresNothing'
  BY <1>a, NextLatest, NextKnown, NextSeenStays, NextMode, NextRestoresNothing DEF SeenCore
<1> SUFFICES LastSeenReflected' /\ MergeCovers'
  BY <1>b DEF CalmInv, SeenCore
<1>1. CASE HandlerStep
  BY <1>1, <1>a, <1>b, HandlerSeen, HandlerMerges
<1>2. ASSUME NEW s \in Sessions, ReadyToIntegrate(s) PROVE LastSeenReflected' /\ MergeCovers'
  <2>1. LastSeenReflected'
    BY <1>2, <1>a, BaselineSeen DEF SeenCore
  <2>2. UNCHANGED req \/ req'.pc \in {"direct", "catchup"}
    BY <1>2 DEF ReadyToIntegrate, Idle
  <2>3. req.pc = "idle"
    BY <1>2 DEF ReadyToIntegrate, At
  <2> QED
    BY <2>1, <2>2, <2>3 DEF MergeCovers, Merging, StartTry
<1>3. ASSUME NEW s \in Sessions, FusionDone(s) PROVE LastSeenReflected' /\ MergeCovers'
  BY <1>3, <1>a DEF FusionDone, Idle, gitVars, SeenCore, LastSeenReflected, MergeCovers, Merging,
     StartTry
<1>4. CASE UNCHANGED vars \/ ExternalMain \/ Boot \/ JoinStep \/ RecoveryStep
           \/ \E s \in Sessions : DeveloperStep(s)
  <2>1. UNCHANGED <<lastSeen, snapshotRef, req>> /\ \A s \in Sessions : IsAncestor(head[s], head'[s])
    <3>1. CASE RecoveryStep
      BY <1>a, <3>1, RecoveryClears DEF RecoveryDone, ClearIdleRow, gitVars, refVars, dbVars,
         IsAncestor
    <3>2. CASE Boot \/ JoinStep
      BY <3>2 DEF Boot, StartRecovery, JoinStep, JoinRead, JoinCheck, JoinWrite, gitVars, refVars,
         dbVars, IsAncestor
    <3>3. CASE UNCHANGED vars \/ ExternalMain \/ \E s \in Sessions : DeveloperStep(s)
      BY <3>3, HeadsGrow DEF vars, ExternalMain, DeveloperStep, Edit, CommitWork, CommitCandidate,
         WriteReport, refVars, dbVars, IsAncestor
    <3> QED
      BY <1>4, <3>1, <3>2, <3>3
  <2>2. Covered' = Covered
    BY <2>1, CoveredSame
  <2>3. \A s \in Sessions : lastSeen'[s] # NoCommit => IsAncestor(lastSeen'[s], main')
    BY <1>b, FirmIsMain DEF SeenStays, IsAncestor
  <2> QED
    BY <1>a, <2>1, <2>2, <2>3 DEF SeenCore, LastSeenReflected, MergeCovers, Merging, IsAncestor
<1>5. ~SecondDaemon /\ ~Crash
  BY DEF SecondDaemon, Crash, TypeOK, Usage
<1> QED
  BY <1>1, <1>2, <1>3, <1>4, <1>5 DEF Next

\* Initially whoever knows a main knows the root commit, and there is no task.
LEMMA CalmInitially == Init => CalmInv
<1> SUFFICES ASSUME Init PROVE CalmInv
  OBVIOUS
<1>1. SeenCore /\ ModeInv
  BY SeenInitially, SeenCoreHolds, ModeInitially
<1>2. RestoresNothing
  BY DEF Init, InitialRow, NotRecovering, NotJoining, RestoresNothing
<1> QED
  BY <1>1, <1>2 DEF CalmInv

\* Without joins, however often the daemon dies.
LEMMA SeenWithoutJoins ==
    ASSUME MaxSecond = 0, MaxJoins = 0
    PROVE  Spec => []LastSeenReflected
<1> DEFINE Inv == TypeOK /\ Shape /\ HoldInv /\ TaskIds /\ SeenInv
<1>1. Init => Inv
  BY InitType, TaskInitially, IdsInitially, SeenInitially
<1>2. Inv /\ [Next]_vars => Inv'
  BY NextType, NextHolds, NextTaskIds, NextSeen
<1>3. Inv => LastSeenReflected
  BY DEF SeenInv
<1> QED
  BY <1>1, <1>2, <1>3, PTL DEF Spec

\* Without crashes, whatever joins write.
LEMMA SeenWithoutCrashes ==
    ASSUME MaxSecond = 0, MaxCrashes = 0
    PROVE  Spec => []LastSeenReflected
<1> DEFINE Inv == TypeOK /\ Shape /\ HoldInv /\ TaskIds /\ CalmInv
<1>1. Init => Inv
  BY InitType, TaskInitially, IdsInitially, CalmInitially
<1>2. Inv /\ [Next]_vars => Inv'
  BY NextType, NextHolds, NextTaskIds, NextCalm
<1>3. Inv => LastSeenReflected
  BY DEF CalmInv, SeenCore
<1> QED
  BY <1>1, <1>2, <1>3, PTL DEF Spec

\* The invariant LastSeenReflected, whoever else moves main, and whichever backups
\* fail: as long as no second daemon is started, and either no `cocodex join` writes
\* a row or the daemon does not crash.
THEOREM SeenMainIsReflected ==
    ASSUME MaxSecond = 0, MaxJoins = 0 \/ MaxCrashes = 0
    PROVE  Spec => []LastSeenReflected
<1>1. CASE MaxJoins = 0
  BY <1>1, SeenWithoutJoins
<1>2. CASE MaxCrashes = 0
  BY <1>2, SeenWithoutCrashes
<1> QED
  BY <1>1, <1>2

=============================================================================
