--------------------------- MODULE SyncTaskProofs ---------------------------
(***************************************************************************)
(* Between requests, the rows, the integration lock, the task files, the   *)
(* refs and main tell the same story: TaskHoldsLock, LockTaskConsistent,   *)
(* ActiveTaskRecoverable and FusingOnMain.  Each says something of moments *)
(* at which nothing is under way; the invariants behind them say what      *)
(* holds meanwhile, at each step of a request (TaskOfRequest ...), for the *)
(* sessions it does not work for (OthersHold ...), and in a recovery for   *)
(* the sessions it is done with, and those still to do (RecoveryHolds ...).*)
(***************************************************************************)
EXTENDS SyncSerialProofs

\* No request is under way for anybody, and no `cocodex join`.
IdleForNobody == (req.pc = "idle" => req.cur = NoSession) /\ joining = NotJoining

\* What the row of the session says, at each step of its request.
BeforeTask == {"catchup", "caught", "direct", "recheck", "yield", "unlock", "seen", "release",
               "start", "mergeUnlock"}
Undoing == {"restore", "abortUnlock", "abortClean"}

TaskOfRequest ==
    /\ req.pc \in BeforeTask => row[req.cur].task = NoTask
    /\ req.pc \in Undoing => row[req.cur].task \in {NoTask, req.task}
    /\ req.pc \notin BeforeTask \cup Undoing \cup {"idle"} => row[req.cur].task = req.task

\* The other sessions' tasks hold the lock; so, in a recovery, do the tasks of
\* the sessions it is done with.
OthersHold ==
    up => \A s \in Sessions :
             s # req.cur /\ row[s].task # NoTask => lock = LockOf(s, row[s].task)

RecoveryHolds ==
    rec.pc # "off" =>
        \A s \in Sessions \ rec.todo : row[s].task # NoTask => lock = LockOf(s, row[s].task)

\* What a recovery has read is still so, for the sessions it has yet to do.
RecoveryKnows ==
    rec.pc # "off" =>
        /\ \A s \in rec.todo : rec.rows[s] = row[s]
        /\ \/ lock = rec.lock
           \/ /\ lock = NoLock
              /\ rec.lock.owner \in rec.todo => rec.pc = "clean" /\ rec.cur = rec.lock.owner
        /\ rec.pc # "scan" => rec.cur \in rec.todo

TaskInv == IdleForNobody /\ TaskOfRequest /\ OthersHold /\ RecoveryHolds /\ RecoveryKnows

\* The lock names the task of the session that holds it; with no crash the
\* daemon never finds a task when it starts.
LockOfRequest ==
    /\ req.pc \in {"catchup", "caught", "direct", "start", "abortClean"} => lock.owner # req.cur
    /\ req.pc \in {"restore", "abortUnlock"} => lock \in {LockOf(req.cur, req.task), NoLock}

OwnerHasTask ==
    up => \A s \in Sessions \ {req.cur} : lock.owner = s => row[s].task = lock.task

NothingToRecover ==
    ~up => /\ lock = NoLock /\ rec.lock = NoLock
           /\ \A s \in Sessions : row[s].task = NoTask /\ rec.rows[s].task = NoTask

LockInv == LockOfRequest /\ OwnerHasTask /\ NothingToRecover

\* How a request publishes can be told from its step.
ModeInv ==
    /\ req.pc \in {"recheck", "commit", "compare"} => req.mode = "direct"
    /\ req.pc \in StartTry \cup {"fuse", "merge", "validate"} => req.mode = "merge"
    /\ req.pc \in {"normalize", "check", "verify", "preflight"} => req.mode = "fused"

\* A task file is written after the refs of the task, and nobody gets on with
\* a task that has none.
WithFile ==
    \/ req.pc \in {"fuse", "prompt", "normalize", "check", "verify", "preflight"}
    \/ req.pc = "forward" /\ req.mode = "fused"

FilesHaveRefs == \A t \in taskFiles : snapshotRef[t] # NoCommit /\ baseRef[t] # NoCommit

FilesOfRequest ==
    /\ req.pc \in {"baseRef", "mergeBegin", "merge", "validate", "fallback", "reset", "writeTask"}
          => snapshotRef[req.task] # NoCommit
    /\ req.pc \in {"mergeBegin", "merge", "validate", "fallback", "reset", "writeTask"}
          => baseRef[req.task] # NoCommit
    /\ WithFile => req.task \in taskFiles

\* Whatever task a session has, has its file: but for the task of a request that
\* has not written it yet, and for what a recovery has yet to look at.  Nor does
\* `cocodex join` bring back a task without a file.
RowsHaveFiles ==
    \A s \in Sessions :
        row[s].task # NoTask =>
            \/ row[s].task \in taskFiles
            \/ /\ s = req.cur /\ row[s].task = req.task
               /\ req.pc \notin BeforeTask \cup {"idle"} /\ ~WithFile
            \/ ~up /\ (rec.pc = "off" \/ s \in rec.todo)

JoinsHaveFiles == joining.pc = "write" => joining.task \in taskFiles \cup {NoTask}

FilesInv == FilesHaveRefs /\ FilesOfRequest /\ RowsHaveFiles /\ JoinsHaveFiles

\* The worktree given to Codex has main, and main does not move while a
\* session has a task.
MainOfRequest ==
    /\ req.pc \in {"snapRef", "baseRef", "mergeBegin", "merge", "validate", "fallback", "reset",
                   "writeTask", "fuse", "prompt"}
          => req.latest = main
    /\ WithFile \/ req.pc = "writeTask" => IsAncestor(main, head[req.cur])

OthersHaveMain ==
    up => \A s \in Sessions :
             s # req.cur /\ row[s].task # NoTask => IsAncestor(main, head[s])

MainInv == MainOfRequest /\ OthersHaveMain

-----------------------------------------------------------------------------
(* Tasks and the lock.                                                     *)

\* A lock that is held is not free, and is held for one session and task.
LEMMA LockOfFacts ==
    ASSUME NEW s \in Sessions, NEW t
    PROVE  /\ LockOf(s, t) # NoLock
           /\ LockOf(s, t).owner = s /\ LockOf(s, t).task = t
           /\ \A r, u : LockOf(s, t) = LockOf(r, u) => s = r /\ t = u
BY ConstantsAssumption DEF LockOf, NoLock

\* The handler is at work, and what is not the handler's stays as it is.
LEMMA HandlerAlone ==
    ASSUME HandlerStep
    PROVE  req.pc # "idle" /\ UNCHANGED <<up, rec, joining>>
BY DEF At, envVars, DirectTry, StartTry, HandlerStep, CatchUpNothing,
   CatchUpFastForward, CaughtUp, DirectLock, DirectDecline, DirectRecheck, DirectCommit,
   DirectCompare, DirectFails, DirectUnlock, ForwardMain, ForceMain, ForwardRefused,
   PublishedClean, PublishedSeen, PublishedRelease, ClaimIntegrationTask, StartRefused,
   FreezeAcknowledged, PrepareLockedSync, Snapshot, SnapshotRef, BaseRef, MergeBegin, GitMerge,
   ValidateMerge, MergeUnlock, ResetToLatest, WriteTaskFile, Fusing, PromptDelivered, StartFails,
   AbortRestore, AbortUnlock, AbortClean, NormalizeActiveTask, CheckCandidate, CheckRefuses,
   VerifyReport, VerifyWithoutReport, Preflight

\* Meanwhile the daemon is up, and no recovery is running.
LEMMA HandlerBusy ==
    ASSUME HoldInv, HandlerStep
    PROVE  req.pc # "idle" /\ up /\ rec.pc = "off" /\ UNCHANGED <<up, rec, joining>>
BY HandlerAlone DEF HoldInv, RequestsAlone

\* A step of the handler.
LEMMA HandlerTask ==
    ASSUME TypeOK, Shape, HoldInv, TaskInv, HandlerStep
    PROVE  TaskInv'
<1> USE DEF TaskInv, IdleForNobody, TaskOfRequest, OthersHold, BeforeTask, Undoing
<1>a. req \in Request /\ req.cur \in Sessions /\ up /\ row \in [Sessions -> Row]
      /\ main \in Commit /\ head[req.cur] \in Commit /\ Work(req.cur) \in Commit
      /\ rec.pc = "off" /\ UNCHANGED <<up, rec, joining>>
  BY HandlerBusy, WorkType DEF TypeOK, Shape
<1>b. req.pc \notin NotHolding => lock = LockOf(req.cur, req.task)
  BY DEF HoldInv, HandlerHoldsLock
<1>c. \A s \in Sessions : \A t : /\ LockOf(s, t) # NoLock
                            /\ \A r, u : LockOf(s, t) = LockOf(r, u) => s = r /\ t = u
  BY LockOfFacts
<1>d. RecoveryHolds' /\ RecoveryKnows'
  BY <1>a DEF RecoveryHolds, RecoveryKnows
<1>1. CASE CatchUpNothing
  BY <1>1, <1>a, <1>b, <1>c, <1>d, FinishType DEF CatchUpNothing, At, envVars, cur, gitVars,
     refVars, fileVars, NotHolding, TransitionSession, SettleRow
<1>2. CASE CatchUpFastForward
  BY <1>2, <1>a, <1>b, <1>c, <1>d, GotoWithLatestType, FinishType DEF CatchUpFastForward, At,
     envVars, cur, Pc, DirectTry, StartTry, refVars, fileVars, dbVars, NotHolding,
     TransitionSession
<1>3. CASE CaughtUp
  BY <1>3, <1>a, <1>b, <1>c, <1>d, FinishType DEF CaughtUp, At, envVars, cur, gitVars, refVars,
     fileVars, NotHolding, TransitionSession, SettleRow
<1>4. CASE DirectLock
  BY <1>4, <1>a, <1>b, <1>c, <1>d DEF DirectLock, At, envVars, cur, task, Request, gitVars,
     refVars, fileVars, NotHolding, TransitionSession, DirectPossible
<1>5. CASE DirectDecline
  BY <1>5, <1>a, <1>b, <1>c, <1>d, GotoType, FinishType DEF DirectDecline, At, envVars, Pc,
     DirectTry, StartTry, gitVars, refVars, fileVars, dbVars, NotHolding, TransitionSession
<1>6. CASE DirectRecheck
  BY <1>6, <1>a, <1>b, <1>c, <1>d, GotoWithLatestType, GotoType DEF DirectRecheck, At, envVars,
     cur, task, Pc, DirectTry, StartTry, gitVars, refVars, fileVars, NotHolding,
     TransitionSession
<1>7. CASE DirectCommit
  BY <1>7, <1>a, <1>b, <1>c, <1>d, GotoWithCandidateType, GotoType DEF DirectCommit, At,
     envVars, cur, Pc, DirectTry, StartTry, CommitAll, refVars, fileVars, dbVars, NotHolding,
     TransitionSession
<1>8. CASE DirectCompare
  BY <1>8, <1>a, <1>b, <1>c, <1>d, GotoType DEF DirectCompare, At, envVars, cur, Pc, DirectTry,
     StartTry, gitVars, refVars, fileVars, NotHolding, TransitionSession
<1>9. CASE DirectFails
  BY <1>9, <1>a, <1>b, <1>c, <1>d, GotoType DEF DirectFails, At, envVars, cur, Pc, DirectTry,
     StartTry, gitVars, refVars, fileVars, NotHolding, TransitionSession
<1>10. CASE DirectUnlock
  BY <1>10, <1>a, <1>b, <1>c, <1>d, GotoType, FinishType DEF DirectUnlock, At, envVars, cur,
     task, Pc, DirectTry, StartTry, ReleaseLockIfOwned, gitVars, refVars, fileVars, NotHolding,
     TransitionSession
<1>11. CASE ForwardMain
  BY <1>11, <1>a, <1>b, <1>c, <1>d, GotoType DEF ForwardMain, At, envVars, Pc, DirectTry,
     StartTry, refVars, fileVars, dbVars, NotHolding, TransitionSession
<1>12. CASE ForceMain
  BY <1>12, <1>a, <1>b, <1>c, <1>d, GotoType DEF ForceMain, At, envVars, Pc, DirectTry,
     StartTry, refVars, fileVars, dbVars, NotHolding, TransitionSession
<1>13. CASE ForwardRefused
  BY <1>13, <1>a, <1>b, <1>c, <1>d, GotoType, FinishType DEF ForwardRefused, At, envVars, cur,
     task, Pc, DirectTry, StartTry, gitVars, refVars, fileVars, NotHolding, TransitionSession
<1>14. CASE PublishedClean
  BY <1>14, <1>a, <1>b, <1>c, <1>d, GotoType DEF PublishedClean, At, envVars, cur, Pc,
     DirectTry, StartTry, gitVars, refVars, fileVars, NotHolding, TransitionSession
<1>15. CASE PublishedSeen
  BY <1>15, <1>a, <1>b, <1>c, <1>d, GotoType DEF PublishedSeen, At, envVars, cur, Pc, DirectTry,
     StartTry, gitVars, refVars, fileVars, NotHolding, TransitionSession
<1>16. CASE PublishedRelease
  BY <1>16, <1>a, <1>b, <1>c, <1>d, FinishType DEF PublishedRelease, At, envVars, cur, task,
     ReleaseLockIfOwned, gitVars, refVars, fileVars, NotHolding, TransitionSession
<1>17. CASE ClaimIntegrationTask
  BY <1>17, <1>a, <1>b, <1>c, <1>d DEF ClaimIntegrationTask, At, envVars, cur, task, Request,
     gitVars, refVars, fileVars, NotHolding, TransitionSession
<1>18. CASE StartRefused
  BY <1>18, <1>a, <1>b, <1>c, <1>d, FinishType DEF StartRefused, At, envVars, gitVars, refVars,
     fileVars, dbVars, NotHolding, TransitionSession
<1>19. CASE FreezeAcknowledged
  BY <1>19, <1>a, <1>b, <1>c, <1>d, GotoType DEF FreezeAcknowledged, At, envVars, cur, task, Pc,
     DirectTry, StartTry, gitVars, refVars, fileVars, NotHolding, TransitionSession
<1>20. CASE PrepareLockedSync
  BY <1>20, <1>a, <1>b, <1>c, <1>d, GotoType DEF PrepareLockedSync, At, envVars, cur, task, Pc,
     DirectTry, StartTry, gitVars, refVars, fileVars, NotHolding, TransitionSession
<1>21. CASE Snapshot
  BY <1>21, <1>a, <1>b, <1>c, <1>d DEF Snapshot, At, envVars, cur, Request, CommitAll, refVars,
     fileVars, dbVars, NotHolding, TransitionSession
<1>22. CASE SnapshotRef
  BY <1>22, <1>a, <1>b, <1>c, <1>d, GotoType DEF SnapshotRef, At, envVars, task, Pc, DirectTry,
     StartTry, gitVars, fileVars, dbVars, NotHolding, TransitionSession
<1>23. CASE BaseRef
  BY <1>23, <1>a, <1>b, <1>c, <1>d, GotoType DEF BaseRef, At, envVars, task, Pc, DirectTry,
     StartTry, gitVars, fileVars, dbVars, NotHolding, TransitionSession
<1>24. CASE MergeBegin
  BY <1>24, <1>a, <1>b, <1>c, <1>d, GotoType DEF MergeBegin, At, envVars, cur, task, Pc,
     DirectTry, StartTry, gitVars, refVars, fileVars, NotHolding, TransitionSession
<1>25. CASE GitMerge
  BY <1>25, <1>a, <1>b, <1>c, <1>d, GotoType DEF GitMerge, At, envVars, cur, task, Pc,
     DirectTry, StartTry, refVars, fileVars, dbVars, NotHolding, TransitionSession
<1>26. CASE ValidateMerge
  BY <1>26, <1>a, <1>b, <1>c, <1>d, GotoWithCandidateType, GotoType DEF ValidateMerge, At,
     envVars, cur, task, Pc, DirectTry, StartTry, gitVars, refVars, fileVars, dbVars,
     NotHolding, TransitionSession
<1>27. CASE MergeUnlock
  BY <1>27, <1>a, <1>b, <1>c, <1>d, GotoType DEF MergeUnlock, At, envVars, cur, task, Pc,
     DirectTry, StartTry, ReleaseLockIfOwned, gitVars, refVars, fileVars, NotHolding,
     TransitionSession
<1>28. CASE ResetToLatest
  BY <1>28, <1>a, <1>b, <1>c, <1>d, GotoType DEF ResetToLatest, At, envVars, cur, Pc, DirectTry,
     StartTry, refVars, fileVars, dbVars, NotHolding, TransitionSession
<1>29. CASE WriteTaskFile
  BY <1>29, <1>a, <1>b, <1>c, <1>d, GotoType DEF WriteTaskFile, At, envVars, task, Pc,
     DirectTry, StartTry, gitVars, refVars, dbVars, NotHolding, TransitionSession
<1>30. CASE Fusing
  BY <1>30, <1>a, <1>b, <1>c, <1>d, GotoType DEF Fusing, At, envVars, cur, task, Pc, DirectTry,
     StartTry, gitVars, refVars, fileVars, NotHolding, TransitionSession
<1>31. CASE PromptDelivered
  BY <1>31, <1>a, <1>b, <1>c, <1>d, FinishType DEF PromptDelivered, At, envVars, gitVars,
     refVars, fileVars, dbVars, NotHolding, TransitionSession
<1>32. CASE StartFails
  BY <1>32, <1>a, <1>b, <1>c, <1>d, GotoType DEF StartFails, At, envVars, Pc, DirectTry,
     StartTry, gitVars, refVars, fileVars, dbVars, NotHolding, TransitionSession
<1>33. CASE AbortRestore
  BY <1>33, <1>a, <1>b, <1>c, <1>d, GotoType DEF AbortRestore, At, envVars, cur, task, Pc,
     DirectTry, StartTry, refVars, fileVars, dbVars, NotHolding, TransitionSession
<1>34. CASE AbortUnlock
  BY <1>34, <1>a, <1>b, <1>c, <1>d, GotoType DEF AbortUnlock, At, envVars, cur, task, Pc,
     DirectTry, StartTry, ReleaseLockIfOwned, gitVars, refVars, fileVars, NotHolding,
     TransitionSession
<1>35. CASE AbortClean
  BY <1>35, <1>a, <1>b, <1>c, <1>d, FinishType DEF AbortClean, At, envVars, cur, gitVars,
     refVars, fileVars, NotHolding, TransitionSession
<1>36. CASE NormalizeActiveTask
  BY <1>36, <1>a, <1>b, <1>c, <1>d DEF NormalizeActiveTask, At, envVars, cur, task, Request,
     gitVars, refVars, fileVars, NotHolding, TransitionSession
<1>37. CASE CheckCandidate
  BY <1>37, <1>a, <1>b, <1>c, <1>d, GotoType DEF CheckCandidate, At, envVars, cur, task, Pc,
     DirectTry, StartTry, gitVars, refVars, fileVars, NotHolding, TransitionSession
<1>38. CASE CheckRefuses
  BY <1>38, <1>a, <1>b, <1>c, <1>d, FinishType DEF CheckRefuses, At, envVars, cur, task,
     gitVars, refVars, fileVars, NotHolding, TransitionSession
<1>39. CASE VerifyReport
  BY <1>39, <1>a, <1>b, <1>c, <1>d, GotoType, FinishType DEF VerifyReport, At, envVars, cur,
     task, Pc, DirectTry, StartTry, gitVars, refVars, fileVars, NotHolding, TransitionSession
<1>40. CASE VerifyWithoutReport
  BY <1>40, <1>a, <1>b, <1>c, <1>d, FinishType DEF VerifyWithoutReport, At, envVars, cur, task,
     gitVars, refVars, fileVars, NotHolding, TransitionSession
<1>41. CASE Preflight
  BY <1>41, <1>a, <1>b, <1>c, <1>d, GotoType, FinishType DEF Preflight, At, envVars, Pc,
     DirectTry, StartTry, gitVars, refVars, fileVars, dbVars, NotHolding, TransitionSession
<1> QED
  BY <1>1, <1>2, <1>3, <1>4, <1>5, <1>6, <1>7, <1>8, <1>9, <1>10, <1>11, <1>12, <1>13, <1>14,
     <1>15, <1>16, <1>17, <1>18, <1>19, <1>20, <1>21, <1>22, <1>23, <1>24, <1>25, <1>26, <1>27,
     <1>28, <1>29, <1>30, <1>31, <1>32, <1>33, <1>34, <1>35, <1>36, <1>37, <1>38, <1>39, <1>40,
     <1>41 DEF HandlerStep

\* A step of the recovery.
LEMMA RecoveryTask ==
    ASSUME TypeOK, Shape, HoldInv, TaskInv, RecoveryStep,
           \A s \in Sessions : ~BackupFails(s)
    PROVE  TaskInv'
<1> USE DEF TaskInv, RecoveryHolds, RecoveryKnows
<1>a. rec \in Recovery /\ row \in [Sessions -> Row] /\ lock \in Lock /\ taskFiles \subseteq Task
  BY DEF TypeOK
<1>b. /\ rec.pc # "off" /\ ~up /\ req.pc = "idle"
      /\ UNCHANGED <<req, joining>> /\ (RecoveryDone \/ UNCHANGED up)
  BY DEF HoldInv, RequestsAlone, RecoveryStep, AdoptLockTask, ClearIdleRow, ResumeTask,
     BackUpTask, BackupFails, RecoverRestore, RecoverUnlock, RecoverClean, RecoveryDone, Scanning
<1>c. IdleForNobody' /\ TaskOfRequest'
  BY <1>b DEF IdleForNobody, TaskOfRequest, BeforeTask, Undoing
<1>d. \A s \in Sessions : \A t : LockOf(s, t) # NoLock /\ LockOf(s, t).owner = s
  BY LockOfFacts
<1>e. \A s \in Sessions : rec.lock.owner = s => rec.lock = LockOf(s, rec.lock.task)
  BY <1>a, ConstantsAssumption DEF Recovery, Lock, NoLock, LockOf
<1>f. rec.todo \subseteq Sessions
  BY <1>a DEF Recovery
<1>1. ASSUME NEW s \in Sessions, AdoptLockTask(s) \/ ResumeTask(s) PROVE TaskInv'
  <2>1. rec.pc = "scan" /\ s \in rec.todo /\ rec.lock.owner = s /\ UNCHANGED <<lock, up>>
    BY <1>1 DEF AdoptLockTask, ResumeTask, Scanning, TaskMismatch, Resumable, OwnsLock, dbVars
  <2>2. lock = LockOf(s, rec.lock.task)
    BY <1>e, <2>1
  <2>3. row' = [row EXCEPT ![s] = [state |-> "fusing", task |-> rec.lock.task]]
    BY <1>1, <2>1 DEF AdoptLockTask, ResumeTask, TransitionSession, TaskToRecover, OwnsLock
  <2>4. rec' = [rec EXCEPT !.pc = "scan", !.todo = @ \ {s}, !.cur = NoSession]
    BY <1>1 DEF AdoptLockTask, ResumeTask, NextSession
  <2>5. rec'.pc = "scan" /\ rec'.todo = rec.todo \ {s} /\ rec'.lock = rec.lock
        /\ rec'.rows = rec.rows
    BY <1>a, <2>4 DEF Recovery
  <2>6. RecoveryHolds' /\ RecoveryKnows'
    BY <1>a, <1>b, <1>f, <2>1, <2>2, <2>3, <2>5
  <2> QED
    BY <1>b, <1>c, <2>1, <2>6 DEF OthersHold
<1>2. ASSUME NEW s \in Sessions, ClearIdleRow(s) PROVE TaskInv'
  <2>1. rec.pc = "scan" /\ s \in rec.todo /\ UNCHANGED <<lock, up>>
        /\ row' = [row EXCEPT ![s] = [state |-> "clean", task |-> NoTask]]
    BY <1>2 DEF ClearIdleRow, Scanning, TransitionSession
  <2>2. rec'.pc = "scan" /\ rec'.todo = rec.todo \ {s} /\ rec'.lock = rec.lock
        /\ rec'.rows = rec.rows
    BY <1>2, <1>a DEF ClearIdleRow, NextSession, Recovery
  <2>3. RecoveryHolds' /\ RecoveryKnows'
    BY <1>a, <1>b, <1>f, <2>1, <2>2
  <2> QED
    BY <1>b, <1>c, <2>1, <2>3 DEF OthersHold
<1>3. ASSUME NEW s \in Sessions, BackUpTask(s) PROVE TaskInv'
  <2>1. rec.pc = "scan" /\ s \in rec.todo /\ UNCHANGED <<row, lock, up>>
    BY <1>3 DEF BackUpTask, Scanning, dbVars
  <2>2. rec'.pc = "restore" /\ rec'.cur = s /\ rec'.todo = rec.todo /\ rec'.lock = rec.lock
        /\ rec'.rows = rec.rows
    BY <1>3, <1>a DEF BackUpTask, Recovery
  <2>3. RecoveryHolds' /\ RecoveryKnows'
    BY <1>a, <1>b, <1>f, <2>1, <2>2
  <2> QED
    BY <1>b, <1>c, <2>1, <2>3 DEF OthersHold
<1>4. CASE RecoverRestore
  <2>1. rec.pc = "restore" /\ UNCHANGED <<row, lock, up>>
    BY <1>4 DEF RecoverRestore, dbVars
  <2>2. rec'.pc = "unlock" /\ rec'.cur = rec.cur /\ rec'.todo = rec.todo /\ rec'.lock = rec.lock
        /\ rec'.rows = rec.rows
    BY <1>4, <1>a DEF RecoverRestore, GotoRecovery, Recovery
  <2>3. RecoveryHolds' /\ RecoveryKnows'
    BY <1>a, <1>b, <1>f, <2>1, <2>2
  <2> QED
    BY <1>b, <1>c, <2>1, <2>3 DEF OthersHold
<1>5. CASE RecoverUnlock
  <2>1. rec.pc = "unlock" /\ lock' = (IF rec.lock.owner = rec.cur THEN NoLock ELSE lock)
        /\ UNCHANGED <<row, up>>
    BY <1>5 DEF RecoverUnlock, OwnsLock
  <2>2. rec'.pc = "clean" /\ rec'.cur = rec.cur /\ rec'.todo = rec.todo /\ rec'.lock = rec.lock
        /\ rec'.rows = rec.rows
    BY <1>5, <1>a DEF RecoverUnlock, GotoRecovery, Recovery
  <2>3. RecoveryHolds' /\ RecoveryKnows'
    BY <1>a, <1>b, <1>d, <1>f, <2>1, <2>2
  <2> QED
    BY <1>b, <1>c, <2>1, <2>3 DEF OthersHold
<1>6. CASE RecoverClean
  <2>1. rec.pc = "clean" /\ rec.cur \in rec.todo /\ UNCHANGED <<lock, up>>
        /\ row' = [row EXCEPT ![rec.cur] = [state |-> "clean", task |-> NoTask]]
    BY <1>6 DEF RecoverClean, TransitionSession
  <2>2. rec'.pc = "scan" /\ rec'.todo = rec.todo \ {rec.cur} /\ rec'.lock = rec.lock
        /\ rec'.rows = rec.rows
    BY <1>6, <1>a DEF RecoverClean, NextSession, Recovery
  <2>3. RecoveryHolds' /\ RecoveryKnows'
    BY <1>a, <1>b, <1>f, <2>1, <2>2
  <2> QED
    BY <1>b, <1>c, <2>1, <2>3 DEF OthersHold
<1>7. CASE RecoveryDone
  BY <1>b, <1>c, <1>7 DEF RecoveryDone, OthersHold, Scanning, NotRecovering, dbVars
<1> QED
  BY <1>1, <1>2, <1>3, <1>4, <1>5, <1>6, <1>7 DEF RecoveryStep

\* With one daemon, no `cocodex join`, and backups that are made, every step.
LEMMA NextTask ==
    ASSUME MaxSecond = 0, MaxJoins = 0, \A s \in Sessions : ~BackupFails(s),
           TypeOK, Shape, HoldInv, TaskInv, [Next]_vars
    PROVE  TaskInv'
<1> USE DEF TaskInv
<1>1. CASE UNCHANGED vars
  BY <1>1 DEF vars, IdleForNobody, TaskOfRequest, OthersHold, RecoveryHolds, RecoveryKnows
<1>2. CASE HandlerStep
  BY <1>2, HandlerTask
<1>3. CASE RecoveryStep
  BY <1>3, RecoveryTask
<1>4. CASE Boot
  <2>1. /\ ~up /\ UNCHANGED <<row, lock, up, req, joining>>
        /\ rec' = [rec EXCEPT !.pc = "scan", !.lock = lock, !.rows = row,
                             !.todo = {s \in Sessions : \/ row[s].state \in LEGACY_RECOVERY_STATES
                                                        \/ row[s].task # NoTask}]
    BY <1>4 DEF Boot, StartRecovery, dbVars
  <2>2. rec'.pc = "scan" /\ rec'.lock = lock /\ rec'.rows = row /\ rec'.todo \subseteq Sessions
        /\ \A s \in Sessions : row[s].task # NoTask => s \in rec'.todo
    BY <2>1 DEF TypeOK, Recovery
  <2> QED
    BY <2>1, <2>2 DEF IdleForNobody, TaskOfRequest, OthersHold, RecoveryHolds, RecoveryKnows
<1>5. CASE SecondDaemon
  BY <1>5 DEF SecondDaemon, TypeOK, Usage
<1>6. CASE Crash
  BY <1>6 DEF Crash, Idle, NotRecovering, dbVars, IdleForNobody, TaskOfRequest, BeforeTask,
     Undoing, OthersHold, RecoveryHolds, RecoveryKnows
<1>7. CASE JoinStep
  BY <1>7 DEF JoinStep, JoinRead, JoinCheck, JoinWrite, IdleForNobody, NotJoining, TypeOK,
     Usage
<1>8. ASSUME NEW s \in Sessions, ReadyToIntegrate(s) PROVE TaskInv'
  <2>1. /\ up /\ req.pc = "idle" /\ UNCHANGED <<lock, up, rec, joining>>
        /\ \A r \in Sessions : row'[r].task = row[r].task
    BY <1>8 DEF ReadyToIntegrate, At, envVars, TypeOK, Row
  <2>2. \/ req' = req
        \/ /\ req'.pc \in {"direct", "catchup"} /\ req'.cur = s
           /\ row[s].task = NoTask
    BY <1>8 DEF ReadyToIntegrate, Idle
  <2>3. rec.pc = "off"
    BY <2>1 DEF HoldInv, RequestsAlone
  <2>4. RecoveryHolds' /\ RecoveryKnows'
    BY <2>1, <2>3 DEF RecoveryHolds, RecoveryKnows
  <2>5. IdleForNobody' /\ TaskOfRequest'
    BY <2>1, <2>2 DEF IdleForNobody, TaskOfRequest, BeforeTask, Undoing
  <2>6. OthersHold'
    <3>1. \A r \in Sessions : row[r].task # NoTask => lock = LockOf(r, row[r].task)
      BY <2>1, ConstantsAssumption DEF OthersHold, IdleForNobody
    <3> QED
      BY <2>1, <3>1 DEF OthersHold
  <2> QED
    BY <2>4, <2>5, <2>6
<1>9. ASSUME NEW s \in Sessions, FusionDone(s) PROVE TaskInv'
  <2>1. /\ up /\ req.pc = "idle" /\ UNCHANGED <<row, up, rec, joining>>
        /\ lock \in {NoLock, LockOf(s, row[s].task)}
        /\ req'.pc = "normalize" /\ req'.cur = s /\ req'.task = row[s].task
    BY <1>9 DEF FusionDone, At, envVars, Idle
  <2>2. \A r \in Sessions : r # s => row[r].task = NoTask
    BY <2>1, LockOfFacts, ConstantsAssumption DEF OthersHold, IdleForNobody
  <2>3. rec.pc = "off"
    BY <2>1 DEF HoldInv, RequestsAlone
  <2> QED
    BY <2>1, <2>2, <2>3 DEF IdleForNobody, TaskOfRequest, BeforeTask, Undoing, OthersHold,
       RecoveryHolds, RecoveryKnows
<1>10. ASSUME NEW s \in Sessions, DeveloperStep(s) PROVE TaskInv'
  BY <1>10 DEF DeveloperStep, Edit, CommitWork, CommitCandidate, WriteReport, dbVars,
     IdleForNobody, TaskOfRequest, OthersHold, RecoveryHolds, RecoveryKnows
<1>11. CASE ExternalMain
  BY <1>11 DEF ExternalMain, dbVars, IdleForNobody, TaskOfRequest, OthersHold,
     RecoveryHolds, RecoveryKnows
<1> QED
  BY <1>1, <1>2, <1>3, <1>4, <1>5, <1>6, <1>7, <1>8, <1>9, <1>10, <1>11 DEF Next

\* Initially nobody has a task.
LEMMA TaskInitially == Init => TaskInv /\ HoldInv
BY DEF Init, Idle, NotRecovering, TaskInv, IdleForNobody, TaskOfRequest, BeforeTask, Undoing,
   OthersHold, RecoveryHolds, RecoveryKnows, HoldInv, RequestsAlone, HandlerHoldsLock,
   NotHolding, CandidateIsOwn

\* The invariant says what TaskHoldsLock says of the moments between requests.
LEMMA TaskInvHolds == TypeOK /\ TaskInv => TaskHoldsLock
BY ConstantsAssumption DEF TaskInv, OthersHold, TaskHoldsLock, Quiescent, Idle

\* The property TaskHoldsLock, for any number of sessions and crashes and any
\* writers of main: with one daemon, no `cocodex join`, and backups that are
\* made, whoever has a task between requests holds the lock for it.
THEOREM TasksHoldTheLock ==
    ASSUME MaxSecond = 0, MaxJoins = 0, MaxBackupFails = 0
    PROVE  Spec => []TaskHoldsLock
<1>1. TypeOK => \A s \in Sessions : ~BackupFails(s)
  BY DEF BackupFails, TypeOK, Usage
<1>2. TypeOK /\ Shape /\ HoldInv /\ TaskInv /\ [Next]_vars => (HoldInv /\ TaskInv)'
  BY <1>1, NextHolds, NextTask
<1> QED
  BY <1>2, TaskInitially, TaskInvHolds, TypeCorrect, PTL DEF Spec

-----------------------------------------------------------------------------
(* Without a crash, whoever holds the lock has its task.                   *)

\* A step of the handler.
LEMMA HandlerLock ==
    ASSUME TypeOK, Shape, HoldInv, TaskInv, LockInv, HandlerStep
    PROVE  LockInv'
<1> USE DEF LockInv, LockOfRequest, OwnerHasTask, ReleaseLockIfOwned
<1>a. req \in Request /\ req.cur \in Sessions /\ up /\ row \in [Sessions -> Row]
      /\ main \in Commit /\ head[req.cur] \in Commit /\ Work(req.cur) \in Commit
      /\ rec.pc = "off" /\ UNCHANGED <<up, rec, joining>>
  BY HandlerBusy, WorkType DEF TypeOK, Shape
<1>b. /\ req.pc \notin NotHolding => lock = LockOf(req.cur, req.task)
      /\ req.pc \notin BeforeTask \cup Undoing \cup {"idle"} => row[req.cur].task = req.task
  BY DEF HoldInv, HandlerHoldsLock, TaskInv, TaskOfRequest
<1>c. \A s \in Sessions : \A t : LockOf(s, t).owner = s /\ LockOf(s, t).task = t
  BY LockOfFacts
<1>d. NoLock.owner \notin Sessions
  BY ConstantsAssumption DEF NoLock
<1>e. NothingToRecover'
  BY <1>a DEF NothingToRecover
<1>1. CASE CatchUpNothing
  BY <1>1, <1>a, <1>b, <1>c, <1>d, <1>e, FinishType DEF CatchUpNothing, At, envVars, cur,
     gitVars, refVars, fileVars, NotHolding, BeforeTask, Undoing, TransitionSession, SettleRow
<1>2. CASE CatchUpFastForward
  BY <1>2, <1>a, <1>b, <1>c, <1>d, <1>e, GotoWithLatestType, FinishType DEF CatchUpFastForward,
     At, envVars, cur, Pc, DirectTry, StartTry, refVars, fileVars, dbVars, NotHolding,
     BeforeTask, Undoing, TransitionSession
<1>3. CASE CaughtUp
  BY <1>3, <1>a, <1>b, <1>c, <1>d, <1>e, FinishType DEF CaughtUp, At, envVars, cur, gitVars,
     refVars, fileVars, NotHolding, BeforeTask, Undoing, TransitionSession, SettleRow
<1>4. CASE DirectLock
  BY <1>4, <1>a, <1>b, <1>c, <1>d, <1>e DEF DirectLock, At, envVars, cur, task, Request,
     gitVars, refVars, fileVars, NotHolding, BeforeTask, Undoing, TransitionSession,
     DirectPossible
<1>5. CASE DirectDecline
  BY <1>5, <1>a, <1>b, <1>c, <1>d, <1>e, GotoType, FinishType DEF DirectDecline, At, envVars,
     Pc, DirectTry, StartTry, gitVars, refVars, fileVars, dbVars, NotHolding, BeforeTask,
     Undoing, TransitionSession
<1>6. CASE DirectRecheck
  BY <1>6, <1>a, <1>b, <1>c, <1>d, <1>e, GotoWithLatestType, GotoType DEF DirectRecheck, At,
     envVars, cur, task, Pc, DirectTry, StartTry, gitVars, refVars, fileVars, NotHolding,
     BeforeTask, Undoing, TransitionSession
<1>7. CASE DirectCommit
  BY <1>7, <1>a, <1>b, <1>c, <1>d, <1>e, GotoWithCandidateType, GotoType DEF DirectCommit, At,
     envVars, cur, Pc, DirectTry, StartTry, CommitAll, refVars, fileVars, dbVars, NotHolding,
     BeforeTask, Undoing, TransitionSession
<1>8. CASE DirectCompare
  BY <1>8, <1>a, <1>b, <1>c, <1>d, <1>e, GotoType DEF DirectCompare, At, envVars, cur, Pc,
     DirectTry, StartTry, gitVars, refVars, fileVars, NotHolding, BeforeTask, Undoing,
     TransitionSession
<1>9. CASE DirectFails
  BY <1>9, <1>a, <1>b, <1>c, <1>d, <1>e, GotoType DEF DirectFails, At, envVars, cur, Pc,
     DirectTry, StartTry, gitVars, refVars, fileVars, NotHolding, BeforeTask, Undoing,
     TransitionSession
<1>10. CASE DirectUnlock
  BY <1>10, <1>a, <1>b, <1>c, <1>d, <1>e, GotoType, FinishType DEF DirectUnlock, At, envVars,
     cur, task, Pc, DirectTry, StartTry, ReleaseLockIfOwned, gitVars, refVars, fileVars,
     NotHolding, BeforeTask, Undoing, TransitionSession
<1>11. CASE ForwardMain
  BY <1>11, <1>a, <1>b, <1>c, <1>d, <1>e, GotoType DEF ForwardMain, At, envVars, Pc, DirectTry,
     StartTry, refVars, fileVars, dbVars, NotHolding, BeforeTask, Undoing, TransitionSession
<1>12. CASE ForceMain
  BY <1>12, <1>a, <1>b, <1>c, <1>d, <1>e, GotoType DEF ForceMain, At, envVars, Pc, DirectTry,
     StartTry, refVars, fileVars, dbVars, NotHolding, BeforeTask, Undoing, TransitionSession
<1>13. CASE ForwardRefused
  BY <1>13, <1>a, <1>b, <1>c, <1>d, <1>e, GotoType, FinishType DEF ForwardRefused, At, envVars,
     cur, task, Pc, DirectTry, StartTry, gitVars, refVars, fileVars, NotHolding, BeforeTask,
     Undoing, TransitionSession
<1>14. CASE PublishedClean
  BY <1>14, <1>a, <1>b, <1>c, <1>d, <1>e, GotoType DEF PublishedClean, At, envVars, cur, Pc,
     DirectTry, StartTry, gitVars, refVars, fileVars, NotHolding, BeforeTask, Undoing,
     TransitionSession
<1>15. CASE PublishedSeen
  BY <1>15, <1>a, <1>b, <1>c, <1>d, <1>e, GotoType DEF PublishedSeen, At, envVars, cur, Pc,
     DirectTry, StartTry, gitVars, refVars, fileVars, NotHolding, BeforeTask, Undoing,
     TransitionSession
<1>16. CASE PublishedRelease
  BY <1>16, <1>a, <1>b, <1>c, <1>d, <1>e, FinishType DEF PublishedRelease, At, envVars, cur,
     task, ReleaseLockIfOwned, gitVars, refVars, fileVars, NotHolding, BeforeTask, Undoing,
     TransitionSession
<1>17. CASE ClaimIntegrationTask
  BY <1>17, <1>a, <1>b, <1>c, <1>d, <1>e DEF ClaimIntegrationTask, At, envVars, cur, task,
     Request, gitVars, refVars, fileVars, NotHolding, BeforeTask, Undoing, TransitionSession
<1>18. CASE StartRefused
  BY <1>18, <1>a, <1>b, <1>c, <1>d, <1>e, FinishType DEF StartRefused, At, envVars, gitVars,
     refVars, fileVars, dbVars, NotHolding, BeforeTask, Undoing, TransitionSession
<1>19. CASE FreezeAcknowledged
  BY <1>19, <1>a, <1>b, <1>c, <1>d, <1>e, GotoType DEF FreezeAcknowledged, At, envVars, cur,
     task, Pc, DirectTry, StartTry, gitVars, refVars, fileVars, NotHolding, BeforeTask, Undoing,
     TransitionSession
<1>20. CASE PrepareLockedSync
  BY <1>20, <1>a, <1>b, <1>c, <1>d, <1>e, GotoType DEF PrepareLockedSync, At, envVars, cur,
     task, Pc, DirectTry, StartTry, gitVars, refVars, fileVars, NotHolding, BeforeTask, Undoing,
     TransitionSession
<1>21. CASE Snapshot
  BY <1>21, <1>a, <1>b, <1>c, <1>d, <1>e DEF Snapshot, At, envVars, cur, Request, CommitAll,
     refVars, fileVars, dbVars, NotHolding, BeforeTask, Undoing, TransitionSession
<1>22. CASE SnapshotRef
  BY <1>22, <1>a, <1>b, <1>c, <1>d, <1>e, GotoType DEF SnapshotRef, At, envVars, task, Pc,
     DirectTry, StartTry, gitVars, fileVars, dbVars, NotHolding, BeforeTask, Undoing,
     TransitionSession
<1>23. CASE BaseRef
  BY <1>23, <1>a, <1>b, <1>c, <1>d, <1>e, GotoType DEF BaseRef, At, envVars, task, Pc,
     DirectTry, StartTry, gitVars, fileVars, dbVars, NotHolding, BeforeTask, Undoing,
     TransitionSession
<1>24. CASE MergeBegin
  BY <1>24, <1>a, <1>b, <1>c, <1>d, <1>e, GotoType DEF MergeBegin, At, envVars, cur, task, Pc,
     DirectTry, StartTry, gitVars, refVars, fileVars, NotHolding, BeforeTask, Undoing,
     TransitionSession
<1>25. CASE GitMerge
  BY <1>25, <1>a, <1>b, <1>c, <1>d, <1>e, GotoType DEF GitMerge, At, envVars, cur, task, Pc,
     DirectTry, StartTry, refVars, fileVars, dbVars, NotHolding, BeforeTask, Undoing,
     TransitionSession
<1>26. CASE ValidateMerge
  BY <1>26, <1>a, <1>b, <1>c, <1>d, <1>e, GotoWithCandidateType, GotoType DEF ValidateMerge, At,
     envVars, cur, task, Pc, DirectTry, StartTry, gitVars, refVars, fileVars, dbVars,
     NotHolding, BeforeTask, Undoing, TransitionSession
<1>27. CASE MergeUnlock
  BY <1>27, <1>a, <1>b, <1>c, <1>d, <1>e, GotoType DEF MergeUnlock, At, envVars, cur, task, Pc,
     DirectTry, StartTry, ReleaseLockIfOwned, gitVars, refVars, fileVars, NotHolding,
     BeforeTask, Undoing, TransitionSession
<1>28. CASE ResetToLatest
  BY <1>28, <1>a, <1>b, <1>c, <1>d, <1>e, GotoType DEF ResetToLatest, At, envVars, cur, Pc,
     DirectTry, StartTry, refVars, fileVars, dbVars, NotHolding, BeforeTask, Undoing,
     TransitionSession
<1>29. CASE WriteTaskFile
  BY <1>29, <1>a, <1>b, <1>c, <1>d, <1>e, GotoType DEF WriteTaskFile, At, envVars, task, Pc,
     DirectTry, StartTry, gitVars, refVars, dbVars, NotHolding, BeforeTask, Undoing,
     TransitionSession
<1>30. CASE Fusing
  BY <1>30, <1>a, <1>b, <1>c, <1>d, <1>e, GotoType DEF Fusing, At, envVars, cur, task, Pc,
     DirectTry, StartTry, gitVars, refVars, fileVars, NotHolding, BeforeTask, Undoing,
     TransitionSession
<1>31. CASE PromptDelivered
  BY <1>31, <1>a, <1>b, <1>c, <1>d, <1>e, FinishType DEF PromptDelivered, At, envVars, gitVars,
     refVars, fileVars, dbVars, NotHolding, BeforeTask, Undoing, TransitionSession
<1>32. CASE StartFails
  BY <1>32, <1>a, <1>b, <1>c, <1>d, <1>e, GotoType DEF StartFails, At, envVars, Pc, DirectTry,
     StartTry, gitVars, refVars, fileVars, dbVars, NotHolding, BeforeTask, Undoing,
     TransitionSession
<1>33. CASE AbortRestore
  BY <1>33, <1>a, <1>b, <1>c, <1>d, <1>e, GotoType DEF AbortRestore, At, envVars, cur, task, Pc,
     DirectTry, StartTry, refVars, fileVars, dbVars, NotHolding, BeforeTask, Undoing,
     TransitionSession
<1>34. CASE AbortUnlock
  BY <1>34, <1>a, <1>b, <1>c, <1>d, <1>e, GotoType DEF AbortUnlock, At, envVars, cur, task, Pc,
     DirectTry, StartTry, ReleaseLockIfOwned, gitVars, refVars, fileVars, NotHolding,
     BeforeTask, Undoing, TransitionSession
<1>35. CASE AbortClean
  BY <1>35, <1>a, <1>b, <1>c, <1>d, <1>e, FinishType DEF AbortClean, At, envVars, cur, gitVars,
     refVars, fileVars, NotHolding, BeforeTask, Undoing, TransitionSession
<1>36. CASE NormalizeActiveTask
  BY <1>36, <1>a, <1>b, <1>c, <1>d, <1>e DEF NormalizeActiveTask, At, envVars, cur, task,
     Request, gitVars, refVars, fileVars, NotHolding, BeforeTask, Undoing, TransitionSession
<1>37. CASE CheckCandidate
  BY <1>37, <1>a, <1>b, <1>c, <1>d, <1>e, GotoType DEF CheckCandidate, At, envVars, cur, task,
     Pc, DirectTry, StartTry, gitVars, refVars, fileVars, NotHolding, BeforeTask, Undoing,
     TransitionSession
<1>38. CASE CheckRefuses
  BY <1>38, <1>a, <1>b, <1>c, <1>d, <1>e, FinishType DEF CheckRefuses, At, envVars, cur, task,
     gitVars, refVars, fileVars, NotHolding, BeforeTask, Undoing, TransitionSession
<1>39. CASE VerifyReport
  BY <1>39, <1>a, <1>b, <1>c, <1>d, <1>e, GotoType, FinishType DEF VerifyReport, At, envVars,
     cur, task, Pc, DirectTry, StartTry, gitVars, refVars, fileVars, NotHolding, BeforeTask,
     Undoing, TransitionSession
<1>40. CASE VerifyWithoutReport
  BY <1>40, <1>a, <1>b, <1>c, <1>d, <1>e, FinishType DEF VerifyWithoutReport, At, envVars, cur,
     task, gitVars, refVars, fileVars, NotHolding, BeforeTask, Undoing, TransitionSession
<1>41. CASE Preflight
  BY <1>41, <1>a, <1>b, <1>c, <1>d, <1>e, GotoType, FinishType DEF Preflight, At, envVars, Pc,
     DirectTry, StartTry, gitVars, refVars, fileVars, dbVars, NotHolding, BeforeTask, Undoing,
     TransitionSession
<1> QED
  BY <1>1, <1>2, <1>3, <1>4, <1>5, <1>6, <1>7, <1>8, <1>9, <1>10, <1>11, <1>12, <1>13, <1>14,
     <1>15, <1>16, <1>17, <1>18, <1>19, <1>20, <1>21, <1>22, <1>23, <1>24, <1>25, <1>26, <1>27,
     <1>28, <1>29, <1>30, <1>31, <1>32, <1>33, <1>34, <1>35, <1>36, <1>37, <1>38, <1>39, <1>40,
     <1>41 DEF HandlerStep

\* A step of the recovery, if there is nothing to recover.
LEMMA RecoveryLock ==
    ASSUME TypeOK, Shape, HoldInv, LockInv, RecoveryStep
    PROVE  LockInv'
<1>a. rec \in Recovery /\ row \in [Sessions -> Row] /\ rec.todo \subseteq Sessions
  BY DEF TypeOK, Recovery
<1>b. /\ rec.pc # "off" /\ ~up /\ req.pc = "idle"
      /\ UNCHANGED <<req, joining>> /\ (RecoveryDone \/ UNCHANGED up)
  BY DEF HoldInv, RequestsAlone, RecoveryStep, AdoptLockTask, ClearIdleRow, ResumeTask,
     BackUpTask, BackupFails, RecoverRestore, RecoverUnlock, RecoverClean, RecoveryDone, Scanning
<1>c. /\ lock = NoLock /\ rec.lock = NoLock
      /\ \A s \in Sessions : /\ row[s].task = NoTask /\ rec.rows[s].task = NoTask
                            /\ ~OwnsLock(s) /\ TaskToRecover(s) = NoTask
  BY <1>b, ConstantsAssumption DEF LockInv, NothingToRecover, OwnsLock, TaskToRecover, NoLock
<1>d. NoTask \notin Task /\ NoLock.owner \notin Sessions
  BY ConstantsAssumption DEF NoTask, Task, NoLock
<1>e. LockOfRequest'
  BY <1>b DEF LockOfRequest
<1>1. ASSUME NEW s \in Sessions, ClearIdleRow(s) PROVE LockInv'
  <2>1. UNCHANGED <<lock, up>> /\ \A r \in Sessions : row'[r].task = NoTask
    BY <1>1, <1>a, <1>c DEF ClearIdleRow, TransitionSession
  <2>2. rec'.lock = rec.lock /\ rec'.rows = rec.rows
    BY <1>1, <1>a DEF ClearIdleRow, NextSession, Recovery
  <2> QED
    BY <1>b, <1>c, <1>d, <1>e, <2>1, <2>2 DEF LockInv, OwnerHasTask, NothingToRecover
<1>2. CASE RecoveryDone
  BY <1>2, <1>c, <1>d, <1>e DEF RecoveryDone, dbVars, LockInv, OwnerHasTask, NothingToRecover
<1>3. ASSUME NEW s \in Sessions,
             AdoptLockTask(s) \/ ResumeTask(s) \/ BackUpTask(s) \/ BackupFails(s)
      PROVE  FALSE
  BY <1>3, <1>c DEF AdoptLockTask, ResumeTask, BackUpTask, BackupFails, TaskMismatch, Resumable
<1>4. CASE RecoverRestore \/ RecoverUnlock \/ RecoverClean
  BY <1>4, <1>c, <1>d DEF RecoverRestore, RecoverUnlock, RecoverClean, Shape
<1> QED
  BY <1>1, <1>2, <1>3, <1>4 DEF RecoveryStep

\* Every step, as long as the daemon does not die.
LEMMA NextLock ==
    ASSUME MaxSecond = 0, MaxJoins = 0, MaxCrashes = 0,
           TypeOK, Shape, HoldInv, TaskInv, LockInv, [Next]_vars
    PROVE  LockInv'
<1> USE DEF LockInv
<1>1. CASE UNCHANGED vars
  BY <1>1 DEF vars, LockOfRequest, OwnerHasTask, NothingToRecover
<1>2. CASE HandlerStep
  BY <1>2, HandlerLock
<1>3. CASE RecoveryStep
  BY <1>3, RecoveryLock
<1>4. CASE Boot
  <2>1. /\ ~up /\ UNCHANGED <<row, lock, up, req, joining>>
        /\ rec' = [rec EXCEPT !.pc = "scan", !.lock = lock, !.rows = row,
                             !.todo = {s \in Sessions : \/ row[s].state \in LEGACY_RECOVERY_STATES
                                                        \/ row[s].task # NoTask}]
    BY <1>4 DEF Boot, StartRecovery, dbVars
  <2>2. rec'.lock = lock /\ rec'.rows = row
    BY <2>1 DEF TypeOK, Recovery
  <2> QED
    BY <2>1, <2>2 DEF LockOfRequest, OwnerHasTask, NothingToRecover
<1>5. CASE SecondDaemon \/ Crash
  BY <1>5 DEF SecondDaemon, Crash, TypeOK, Usage
<1>6. CASE JoinStep
  BY <1>6 DEF JoinStep, JoinRead, JoinCheck, JoinWrite, TaskInv, IdleForNobody, NotJoining,
     TypeOK, Usage
<1>7. ASSUME NEW s \in Sessions, ReadyToIntegrate(s) PROVE LockInv'
  <2>1. /\ up /\ req.pc = "idle" /\ req.cur = NoSession /\ UNCHANGED <<lock, up, rec, joining>>
        /\ \A r \in Sessions : row'[r].task = row[r].task
    BY <1>7 DEF ReadyToIntegrate, At, envVars, TypeOK, Row, TaskInv, IdleForNobody
  <2>2. \/ req' = req
        \/ /\ req'.pc \in {"direct", "catchup"} /\ req'.cur = s
           /\ row[s].task = NoTask /\ lock.owner \in {NoSession, s}
    BY <1>7 DEF ReadyToIntegrate, Idle
  <2>3. lock \in Lock /\ NoTask \notin Task
    BY DEF TypeOK, Task, NoTask
  <2>4. \A r \in Sessions : lock.owner = r => row[r].task = lock.task /\ lock.task # NoTask
    BY <2>1, <2>3, ConstantsAssumption DEF OwnerHasTask, Lock, NoLock
  <2>5. row[s].task = NoTask => lock.owner # s
    BY <2>4
  <2>6. OwnerHasTask' /\ NothingToRecover'
    BY <2>1, <2>4 DEF OwnerHasTask, NothingToRecover
  <2> QED
    BY <2>1, <2>2, <2>5, <2>6 DEF LockOfRequest
<1>8. ASSUME NEW s \in Sessions, FusionDone(s) PROVE LockInv'
  <2>1. /\ up /\ UNCHANGED <<row, up, rec, joining>>
        /\ lock' = LockOf(s, row[s].task) /\ req'.pc = "normalize" /\ req'.cur = s
    BY <1>8 DEF FusionDone, envVars, Idle
  <2> QED
    BY <2>1, LockOfFacts DEF LockOfRequest, OwnerHasTask, NothingToRecover
<1>9. ASSUME NEW s \in Sessions, DeveloperStep(s) PROVE LockInv'
  BY <1>9 DEF DeveloperStep, Edit, CommitWork, CommitCandidate, WriteReport, dbVars,
     LockOfRequest, OwnerHasTask, NothingToRecover
<1>10. CASE ExternalMain
  BY <1>10 DEF ExternalMain, dbVars, LockOfRequest, OwnerHasTask, NothingToRecover
<1> QED
  BY <1>1, <1>2, <1>3, <1>4, <1>5, <1>6, <1>7, <1>8, <1>9, <1>10 DEF Next

\* Initially there is nothing to recover.
LEMMA LockInitially == Init => LockInv
<1> SUFFICES ASSUME Init PROVE LockInv
  OBVIOUS
<1>1. ~up /\ lock = NoLock /\ req.pc = "idle"
      /\ rec = NotRecovering
  BY DEF Init, Idle
<1>2. \A s \in Sessions : row[s].task = NoTask
  BY DEF Init, InitialRow
<1> QED
  BY <1>1, <1>2 DEF LockInv, LockOfRequest, OwnerHasTask, NothingToRecover, NotRecovering

\* With nothing to recover no backup can fail.
LEMMA NothingToBackUp ==
    ASSUME HoldInv, LockInv
    PROVE  \A s \in Sessions : ~BackupFails(s)
BY ConstantsAssumption DEF HoldInv, RequestsAlone, LockInv, NothingToRecover, BackupFails,
   Scanning, TaskMismatch, OwnsLock, TaskToRecover, NoLock

\* Together the invariants say what LockTaskConsistent says between requests.
LEMMA LockInvConsistent == TypeOK /\ TaskInv /\ LockInv => LockTaskConsistent
<1> SUFFICES ASSUME TypeOK, TaskInv, LockInv, Quiescent, NEW s \in Sessions
             PROVE  IF lock.owner = s THEN row[s] = [state |-> row[s].state, task |-> lock.task]
                                      ELSE row[s].task = NoTask
  BY DEF LockTaskConsistent
<1>1. up /\ req.cur = NoSession /\ req.cur # s /\ row[s] \in Row
  BY ConstantsAssumption DEF Quiescent, Idle, TypeOK
<1>2. row[s] = [state |-> row[s].state, task |-> row[s].task]
  BY <1>1 DEF Row
<1>3. lock.owner = s => row[s].task = lock.task
  BY <1>1 DEF LockInv, OwnerHasTask
<1>4. lock.owner # s => row[s].task = NoTask
  BY <1>1, LockOfFacts DEF TaskInv, OthersHold
<1> QED
  BY <1>2, <1>3, <1>4

\* The property LockTaskConsistent: with one daemon that does not die and no
\* `cocodex join`, whatever requests fail, the lock and the rows name the same
\* session and task between requests, or none.
THEOREM LockAndRowsAgree ==
    ASSUME MaxSecond = 0, MaxJoins = 0, MaxCrashes = 0
    PROVE  Spec => []LockTaskConsistent
<1>1. TypeOK /\ Shape /\ HoldInv /\ TaskInv /\ LockInv /\ [Next]_vars
        => (HoldInv /\ TaskInv /\ LockInv)'
  BY NothingToBackUp, NextHolds, NextTask, NextLock
<1> QED
  BY <1>1, TaskInitially, LockInitially, LockInvConsistent, TypeCorrect, PTL DEF Spec

-----------------------------------------------------------------------------
(* How a request publishes.                                                *)

\* A step of the handler goes on in its mode.
LEMMA HandlerMode ==
    ASSUME TypeOK, Shape, ModeInv, HandlerStep
    PROVE  ModeInv'
<1> USE DEF ModeInv, StartTry
<1>a. req \in Request /\ main \in Commit
  BY DEF TypeOK
<1>b. req.pc # "idle" => head[req.cur] \in Commit /\ Work(req.cur) \in Commit
  BY WorkType DEF TypeOK, Shape
<1>1. CASE CatchUpNothing
  BY <1>1, <1>a, <1>b, FinishType DEF CatchUpNothing, At, cur
<1>2. CASE CatchUpFastForward
  BY <1>2, <1>a, <1>b, GotoWithLatestType, FinishType DEF CatchUpFastForward, At, cur, Pc,
     DirectTry, StartTry
<1>3. CASE CaughtUp
  BY <1>3, <1>a, <1>b, FinishType DEF CaughtUp, At, cur
<1>4. CASE DirectLock
  BY <1>4, <1>a, <1>b DEF DirectLock, At, cur, task, Request
<1>5. CASE DirectDecline
  BY <1>5, <1>a, <1>b, GotoType, FinishType DEF DirectDecline, At, Pc, DirectTry, StartTry
<1>6. CASE DirectRecheck
  BY <1>6, <1>a, <1>b, GotoWithLatestType, GotoType DEF DirectRecheck, At, cur, task, Pc,
     DirectTry, StartTry
<1>7. CASE DirectCommit
  BY <1>7, <1>a, <1>b, GotoWithCandidateType, GotoType DEF DirectCommit, At, cur, Pc, DirectTry,
     StartTry
<1>8. CASE DirectCompare
  BY <1>8, <1>a, <1>b, GotoType DEF DirectCompare, At, cur, Pc, DirectTry, StartTry
<1>9. CASE DirectFails
  BY <1>9, <1>a, <1>b, GotoType DEF DirectFails, At, cur, Pc, DirectTry, StartTry
<1>10. CASE DirectUnlock
  BY <1>10, <1>a, <1>b, GotoType, FinishType DEF DirectUnlock, At, cur, task, Pc, DirectTry,
     StartTry
<1>11. CASE ForwardMain
  BY <1>11, <1>a, <1>b, GotoType DEF ForwardMain, At, Pc, DirectTry, StartTry
<1>12. CASE ForceMain
  BY <1>12, <1>a, <1>b, GotoType DEF ForceMain, At, Pc, DirectTry, StartTry
<1>13. CASE ForwardRefused
  BY <1>13, <1>a, <1>b, GotoType, FinishType DEF ForwardRefused, At, cur, task, Pc, DirectTry,
     StartTry
<1>14. CASE PublishedClean
  BY <1>14, <1>a, <1>b, GotoType DEF PublishedClean, At, cur, Pc, DirectTry, StartTry
<1>15. CASE PublishedSeen
  BY <1>15, <1>a, <1>b, GotoType DEF PublishedSeen, At, cur, Pc, DirectTry, StartTry
<1>16. CASE PublishedRelease
  BY <1>16, <1>a, <1>b, FinishType DEF PublishedRelease, At, cur, task
<1>17. CASE ClaimIntegrationTask
  BY <1>17, <1>a, <1>b DEF ClaimIntegrationTask, At, cur, task, Request
<1>18. CASE StartRefused
  BY <1>18, <1>a, <1>b, FinishType DEF StartRefused, At
<1>19. CASE FreezeAcknowledged
  BY <1>19, <1>a, <1>b, GotoType DEF FreezeAcknowledged, At, cur, task, Pc, DirectTry, StartTry
<1>20. CASE PrepareLockedSync
  BY <1>20, <1>a, <1>b, GotoType DEF PrepareLockedSync, At, cur, task, Pc, DirectTry, StartTry
<1>21. CASE Snapshot
  BY <1>21, <1>a, <1>b DEF Snapshot, At, cur, Request
<1>22. CASE SnapshotRef
  BY <1>22, <1>a, <1>b, GotoType DEF SnapshotRef, At, task, Pc, DirectTry, StartTry
<1>23. CASE BaseRef
  BY <1>23, <1>a, <1>b, GotoType DEF BaseRef, At, task, Pc, DirectTry, StartTry
<1>24. CASE MergeBegin
  BY <1>24, <1>a, <1>b, GotoType DEF MergeBegin, At, cur, task, Pc, DirectTry, StartTry
<1>25. CASE GitMerge
  BY <1>25, <1>a, <1>b, GotoType DEF GitMerge, At, cur, task, Pc, DirectTry, StartTry
<1>26. CASE ValidateMerge
  BY <1>26, <1>a, <1>b, GotoWithCandidateType, GotoType DEF ValidateMerge, At, cur, task, Pc,
     DirectTry, StartTry
<1>27. CASE MergeUnlock
  BY <1>27, <1>a, <1>b, GotoType DEF MergeUnlock, At, cur, task, Pc, DirectTry, StartTry
<1>28. CASE ResetToLatest
  BY <1>28, <1>a, <1>b, GotoType DEF ResetToLatest, At, cur, Pc, DirectTry, StartTry
<1>29. CASE WriteTaskFile
  BY <1>29, <1>a, <1>b, GotoType DEF WriteTaskFile, At, task, Pc, DirectTry, StartTry
<1>30. CASE Fusing
  BY <1>30, <1>a, <1>b, GotoType DEF Fusing, At, cur, task, Pc, DirectTry, StartTry
<1>31. CASE PromptDelivered
  BY <1>31, <1>a, <1>b, FinishType DEF PromptDelivered, At
<1>32. CASE StartFails
  BY <1>32, <1>a, <1>b, GotoType DEF StartFails, At, Pc, DirectTry, StartTry
<1>33. CASE AbortRestore
  BY <1>33, <1>a, <1>b, GotoType DEF AbortRestore, At, cur, task, Pc, DirectTry, StartTry
<1>34. CASE AbortUnlock
  BY <1>34, <1>a, <1>b, GotoType DEF AbortUnlock, At, cur, task, Pc, DirectTry, StartTry
<1>35. CASE AbortClean
  BY <1>35, <1>a, <1>b, FinishType DEF AbortClean, At, cur
<1>36. CASE NormalizeActiveTask
  BY <1>36, <1>a, <1>b DEF NormalizeActiveTask, At, cur, task, Request
<1>37. CASE CheckCandidate
  BY <1>37, <1>a, <1>b, GotoType DEF CheckCandidate, At, cur, task, Pc, DirectTry, StartTry
<1>38. CASE CheckRefuses
  BY <1>38, <1>a, <1>b, FinishType DEF CheckRefuses, At, cur, task
<1>39. CASE VerifyReport
  BY <1>39, <1>a, <1>b, GotoType, FinishType DEF VerifyReport, At, cur, task, Pc, DirectTry,
     StartTry
<1>40. CASE VerifyWithoutReport
  BY <1>40, <1>a, <1>b, FinishType DEF VerifyWithoutReport, At, cur, task
<1>41. CASE Preflight
  BY <1>41, <1>a, <1>b, GotoType, FinishType DEF Preflight, At, Pc, DirectTry, StartTry
<1> QED
  BY <1>1, <1>2, <1>3, <1>4, <1>5, <1>6, <1>7, <1>8, <1>9, <1>10, <1>11, <1>12, <1>13, <1>14,
     <1>15, <1>16, <1>17, <1>18, <1>19, <1>20, <1>21, <1>22, <1>23, <1>24, <1>25, <1>26, <1>27,
     <1>28, <1>29, <1>30, <1>31, <1>32, <1>33, <1>34, <1>35, <1>36, <1>37, <1>38, <1>39, <1>40,
     <1>41 DEF HandlerStep

\* So does every step.
LEMMA NextMode ==
    ASSUME TypeOK, Shape, ModeInv, [Next]_vars
    PROVE  ModeInv'
<1>1. CASE HandlerStep
  BY <1>1, HandlerMode
<1>2. CASE UNCHANGED vars \/ RecoveryStep \/ Boot \/ SecondDaemon \/ JoinStep \/ ExternalMain
           \/ \E s \in Sessions : DeveloperStep(s)
  <2>1. UNCHANGED req
    BY <1>2 DEF vars, RecoveryStep, AdoptLockTask, ClearIdleRow, ResumeTask, BackUpTask,
       BackupFails, RecoverRestore, RecoverUnlock, RecoverClean, RecoveryDone, Boot,
       SecondDaemon, StartRecovery, JoinStep, JoinRead, JoinCheck, JoinWrite, ExternalMain,
       DeveloperStep, Edit, CommitWork, CommitCandidate, WriteReport
  <2> QED
    BY <2>1 DEF ModeInv
<1>3. CASE Crash
  BY <1>3 DEF Crash, Idle, ModeInv, StartTry
<1>4. ASSUME NEW s \in Sessions, ReadyToIntegrate(s) PROVE ModeInv'
  BY <1>4 DEF ReadyToIntegrate, Idle, ModeInv, StartTry
<1>5. ASSUME NEW s \in Sessions, FusionDone(s) PROVE ModeInv'
  BY <1>5 DEF FusionDone, Idle, ModeInv, StartTry
<1> QED
  BY <1>1, <1>2, <1>3, <1>4, <1>5 DEF Next

\* Initially there is no request.
LEMMA ModeInitially == Init => ModeInv
BY DEF Init, Idle, ModeInv, StartTry

-----------------------------------------------------------------------------
(* A task that is under way can be finished or undone.                     *)

\* "none" is no kind of work.
LEMMA NoCommitIsNone == NoCommit \notin Commit
BY DEF NoCommit, Commit, Atom

\* A step of the handler.
LEMMA HandlerFiles ==
    ASSUME TypeOK, Shape, ModeInv, FilesInv, HandlerStep
    PROVE  FilesInv'
<1> USE DEF FilesInv, ModeInv, FilesHaveRefs, FilesOfRequest, RowsHaveFiles, JoinsHaveFiles,
            WithFile
<1>a. req \in Request /\ req.cur \in Sessions /\ row \in [Sessions -> Row]
      /\ main \in Commit /\ head[req.cur] \in Commit /\ Work(req.cur) \in Commit
      /\ req.cand \in Commit /\ req.latest \in Commit /\ NoCommit \notin Commit
      /\ UNCHANGED <<up, rec, joining>>
  BY HandlerAlone, WorkType, RequestFields, NoCommitIsNone DEF TypeOK, Shape
<1>b. req.pc \notin {"idle", "catchup", "caught", "direct", "start"} => req.task \in Task
  BY DEF Shape
<1>c. snapshotRef \in [Task -> MaybeCommit] /\ baseRef \in [Task -> MaybeCommit]
      /\ taskFiles \subseteq Task
  BY DEF TypeOK
<1>1. CASE CatchUpNothing
  BY <1>1, <1>a, <1>b, <1>c, FinishType DEF CatchUpNothing, At, envVars, cur, gitVars,
     refVars, fileVars, BeforeTask, Undoing, TransitionSession, StartTry, SettleRow
<1>2. CASE CatchUpFastForward
  BY <1>2, <1>a, <1>b, <1>c, GotoWithLatestType, FinishType DEF CatchUpFastForward, At,
     envVars, cur, Pc, DirectTry, StartTry, refVars, fileVars, dbVars, BeforeTask, Undoing,
     TransitionSession
<1>3. CASE CaughtUp
  BY <1>3, <1>a, <1>b, <1>c, FinishType DEF CaughtUp, At, envVars, cur, gitVars, refVars,
     fileVars, BeforeTask, Undoing, TransitionSession, StartTry, SettleRow
<1>4. CASE DirectLock
  BY <1>4, <1>a, <1>b, <1>c DEF DirectLock, At, envVars, cur, task, Request, gitVars,
     refVars, fileVars, BeforeTask, Undoing, TransitionSession, StartTry
<1>5. CASE DirectDecline
  BY <1>5, <1>a, <1>b, <1>c, GotoType, FinishType DEF DirectDecline, At, envVars, Pc,
     DirectTry, StartTry, gitVars, refVars, fileVars, dbVars, BeforeTask, Undoing,
     TransitionSession
<1>6. CASE DirectRecheck
  BY <1>6, <1>a, <1>b, <1>c, GotoWithLatestType, GotoType DEF DirectRecheck, At, envVars,
     cur, task, Pc, DirectTry, StartTry, gitVars, refVars, fileVars, BeforeTask, Undoing,
     TransitionSession
<1>7. CASE DirectCommit
  BY <1>7, <1>a, <1>b, <1>c, GotoWithCandidateType, GotoType DEF DirectCommit, At,
     envVars, cur, Pc, DirectTry, StartTry, CommitAll, refVars, fileVars, dbVars, BeforeTask,
     Undoing, TransitionSession
<1>8. CASE DirectCompare
  BY <1>8, <1>a, <1>b, <1>c, GotoType DEF DirectCompare, At, envVars, cur, Pc, DirectTry,
     StartTry, gitVars, refVars, fileVars, BeforeTask, Undoing, TransitionSession
<1>9. CASE DirectFails
  BY <1>9, <1>a, <1>b, <1>c, GotoType DEF DirectFails, At, envVars, cur, Pc, DirectTry,
     StartTry, gitVars, refVars, fileVars, BeforeTask, Undoing, TransitionSession
<1>10. CASE DirectUnlock
  BY <1>10, <1>a, <1>b, <1>c, GotoType, FinishType DEF DirectUnlock, At, envVars, cur,
     task, Pc, DirectTry, StartTry, ReleaseLockIfOwned, gitVars, refVars, fileVars, BeforeTask,
     Undoing, TransitionSession
<1>11. CASE ForwardMain
  BY <1>11, <1>a, <1>b, <1>c, GotoType DEF ForwardMain, At, envVars, Pc, DirectTry,
     StartTry, refVars, fileVars, dbVars, BeforeTask, Undoing, TransitionSession
<1>12. CASE ForceMain
  BY <1>12, <1>a, <1>b, <1>c, GotoType DEF ForceMain, At, envVars, Pc, DirectTry,
     StartTry, refVars, fileVars, dbVars, BeforeTask, Undoing, TransitionSession
<1>13. CASE ForwardRefused
  BY <1>13, <1>a, <1>b, <1>c, GotoType, FinishType DEF ForwardRefused, At, envVars, cur,
     task, Pc, DirectTry, StartTry, gitVars, refVars, fileVars, BeforeTask, Undoing,
     TransitionSession
<1>14. CASE PublishedClean
  BY <1>14, <1>a, <1>b, <1>c, GotoType DEF PublishedClean, At, envVars, cur, Pc,
     DirectTry, StartTry, gitVars, refVars, fileVars, BeforeTask, Undoing, TransitionSession
<1>15. CASE PublishedSeen
  BY <1>15, <1>a, <1>b, <1>c, GotoType DEF PublishedSeen, At, envVars, cur, Pc, DirectTry,
     StartTry, gitVars, refVars, fileVars, BeforeTask, Undoing, TransitionSession
<1>16. CASE PublishedRelease
  BY <1>16, <1>a, <1>b, <1>c, FinishType DEF PublishedRelease, At, envVars, cur, task,
     ReleaseLockIfOwned, gitVars, refVars, fileVars, BeforeTask, Undoing, TransitionSession,
     StartTry
<1>17. CASE ClaimIntegrationTask
  BY <1>17, <1>a, <1>b, <1>c DEF ClaimIntegrationTask, At, envVars, cur, task, Request,
     gitVars, refVars, fileVars, BeforeTask, Undoing, TransitionSession, StartTry
<1>18. CASE StartRefused
  BY <1>18, <1>a, <1>b, <1>c, FinishType DEF StartRefused, At, envVars, gitVars, refVars,
     fileVars, dbVars, BeforeTask, Undoing, TransitionSession, StartTry
<1>19. CASE FreezeAcknowledged
  BY <1>19, <1>a, <1>b, <1>c, GotoType DEF FreezeAcknowledged, At, envVars, cur, task, Pc,
     DirectTry, StartTry, gitVars, refVars, fileVars, BeforeTask, Undoing, TransitionSession
<1>20. CASE PrepareLockedSync
  BY <1>20, <1>a, <1>b, <1>c, GotoType DEF PrepareLockedSync, At, envVars, cur, task, Pc,
     DirectTry, StartTry, gitVars, refVars, fileVars, BeforeTask, Undoing, TransitionSession
<1>21. CASE Snapshot
  BY <1>21, <1>a, <1>b, <1>c DEF Snapshot, At, envVars, cur, Request, CommitAll, refVars,
     fileVars, dbVars, BeforeTask, Undoing, TransitionSession, StartTry
<1>22. CASE SnapshotRef
  BY <1>22, <1>a, <1>b, <1>c, GotoType DEF SnapshotRef, At, envVars, task, Pc, DirectTry,
     StartTry, gitVars, fileVars, dbVars, BeforeTask, Undoing, TransitionSession
<1>23. CASE BaseRef
  BY <1>23, <1>a, <1>b, <1>c, GotoType DEF BaseRef, At, envVars, task, Pc, DirectTry,
     StartTry, gitVars, fileVars, dbVars, BeforeTask, Undoing, TransitionSession
<1>24. CASE MergeBegin
  BY <1>24, <1>a, <1>b, <1>c, GotoType DEF MergeBegin, At, envVars, cur, task, Pc,
     DirectTry, StartTry, gitVars, refVars, fileVars, BeforeTask, Undoing, TransitionSession
<1>25. CASE GitMerge
  BY <1>25, <1>a, <1>b, <1>c, GotoType DEF GitMerge, At, envVars, cur, task, Pc,
     DirectTry, StartTry, refVars, fileVars, dbVars, BeforeTask, Undoing, TransitionSession
<1>26. CASE ValidateMerge
  BY <1>26, <1>a, <1>b, <1>c, GotoWithCandidateType, GotoType DEF ValidateMerge, At,
     envVars, cur, task, Pc, DirectTry, StartTry, gitVars, refVars, fileVars, dbVars,
     BeforeTask, Undoing, TransitionSession
<1>27. CASE MergeUnlock
  BY <1>27, <1>a, <1>b, <1>c, GotoType DEF MergeUnlock, At, envVars, cur, task, Pc,
     DirectTry, StartTry, ReleaseLockIfOwned, gitVars, refVars, fileVars, BeforeTask, Undoing,
     TransitionSession
<1>28. CASE ResetToLatest
  BY <1>28, <1>a, <1>b, <1>c, GotoType DEF ResetToLatest, At, envVars, cur, Pc, DirectTry,
     StartTry, refVars, fileVars, dbVars, BeforeTask, Undoing, TransitionSession
<1>29. CASE WriteTaskFile
  BY <1>29, <1>a, <1>b, <1>c, GotoType DEF WriteTaskFile, At, envVars, task, Pc,
     DirectTry, StartTry, gitVars, refVars, dbVars, BeforeTask, Undoing, TransitionSession
<1>30. CASE Fusing
  BY <1>30, <1>a, <1>b, <1>c, GotoType DEF Fusing, At, envVars, cur, task, Pc, DirectTry,
     StartTry, gitVars, refVars, fileVars, BeforeTask, Undoing, TransitionSession
<1>31. CASE PromptDelivered
  BY <1>31, <1>a, <1>b, <1>c, FinishType DEF PromptDelivered, At, envVars, gitVars,
     refVars, fileVars, dbVars, BeforeTask, Undoing, TransitionSession, StartTry
<1>32. CASE StartFails
  BY <1>32, <1>a, <1>b, <1>c, GotoType DEF StartFails, At, envVars, Pc, DirectTry,
     StartTry, gitVars, refVars, fileVars, dbVars, BeforeTask, Undoing, TransitionSession
<1>33. CASE AbortRestore
  BY <1>33, <1>a, <1>b, <1>c, GotoType DEF AbortRestore, At, envVars, cur, task, Pc,
     DirectTry, StartTry, refVars, fileVars, dbVars, BeforeTask, Undoing, TransitionSession
<1>34. CASE AbortUnlock
  BY <1>34, <1>a, <1>b, <1>c, GotoType DEF AbortUnlock, At, envVars, cur, task, Pc,
     DirectTry, StartTry, ReleaseLockIfOwned, gitVars, refVars, fileVars, BeforeTask, Undoing,
     TransitionSession
<1>35. CASE AbortClean
  BY <1>35, <1>a, <1>b, <1>c, FinishType DEF AbortClean, At, envVars, cur, gitVars,
     refVars, fileVars, BeforeTask, Undoing, TransitionSession, StartTry
<1>36. CASE NormalizeActiveTask
  BY <1>36, <1>a, <1>b, <1>c DEF NormalizeActiveTask, At, envVars, cur, task, Request,
     gitVars, refVars, fileVars, BeforeTask, Undoing, TransitionSession, StartTry
<1>37. CASE CheckCandidate
  BY <1>37, <1>a, <1>b, <1>c, GotoType DEF CheckCandidate, At, envVars, cur, task, Pc,
     DirectTry, StartTry, gitVars, refVars, fileVars, BeforeTask, Undoing, TransitionSession
<1>38. CASE CheckRefuses
  BY <1>38, <1>a, <1>b, <1>c, FinishType DEF CheckRefuses, At, envVars, cur, task,
     gitVars, refVars, fileVars, BeforeTask, Undoing, TransitionSession, StartTry
<1>39. CASE VerifyReport
  BY <1>39, <1>a, <1>b, <1>c, GotoType, FinishType DEF VerifyReport, At, envVars, cur,
     task, Pc, DirectTry, StartTry, gitVars, refVars, fileVars, BeforeTask, Undoing,
     TransitionSession
<1>40. CASE VerifyWithoutReport
  BY <1>40, <1>a, <1>b, <1>c, FinishType DEF VerifyWithoutReport, At, envVars, cur, task,
     gitVars, refVars, fileVars, BeforeTask, Undoing, TransitionSession, StartTry
<1>41. CASE Preflight
  BY <1>41, <1>a, <1>b, <1>c, GotoType, FinishType DEF Preflight, At, envVars, Pc,
     DirectTry, StartTry, gitVars, refVars, fileVars, dbVars, BeforeTask, Undoing,
     TransitionSession
<1> QED
  BY <1>1, <1>2, <1>3, <1>4, <1>5, <1>6, <1>7, <1>8, <1>9, <1>10, <1>11, <1>12, <1>13, <1>14,
     <1>15, <1>16, <1>17, <1>18, <1>19, <1>20, <1>21, <1>22, <1>23, <1>24, <1>25, <1>26, <1>27,
     <1>28, <1>29, <1>30, <1>31, <1>32, <1>33, <1>34, <1>35, <1>36, <1>37, <1>38, <1>39, <1>40,
     <1>41 DEF HandlerStep

\* A step of the recovery resumes a task with its file.
LEMMA RecoveryFiles ==
    ASSUME TypeOK, FilesInv, RecoveryStep, \A s \in Sessions : ~BackupFails(s)
    PROVE  FilesInv'
<1> USE DEF FilesInv
<1>a. rec \in Recovery /\ row \in [Sessions -> Row] /\ rec.todo \subseteq Sessions
  BY DEF TypeOK, Recovery
<1>b. /\ rec.pc # "off"
      /\ UNCHANGED <<req, joining, snapshotRef, baseRef, taskFiles>>
  BY DEF RecoveryStep, AdoptLockTask, ClearIdleRow, ResumeTask, BackUpTask, BackupFails,
     RecoverRestore, RecoverUnlock, RecoverClean, RecoveryDone, Scanning, refVars, fileVars
<1>c. FilesHaveRefs' /\ FilesOfRequest' /\ JoinsHaveFiles' /\ (WithFile' <=> WithFile)
  BY <1>b DEF FilesHaveRefs, FilesOfRequest, JoinsHaveFiles, WithFile, StartTry
<1>1. ASSUME NEW s \in Sessions, AdoptLockTask(s) \/ ResumeTask(s) \/ ClearIdleRow(s)
      PROVE  FilesInv'
  <2>1. rec'.todo = rec.todo \ {s} /\ UNCHANGED up
    BY <1>1, <1>a DEF AdoptLockTask, ResumeTask, ClearIdleRow, NextSession, Recovery
  <2>2. \E st, t : row' = [row EXCEPT ![s] = [state |-> st, task |-> t]] /\ t \in taskFiles \cup {NoTask}
    BY <1>1 DEF AdoptLockTask, ResumeTask, ClearIdleRow, TransitionSession, TaskMismatch, Resumable
  <2> QED
    BY <1>a, <1>b, <1>c, <2>1, <2>2 DEF RowsHaveFiles
<1>2. ASSUME NEW s \in Sessions, BackUpTask(s) PROVE FilesInv'
  <2>1. rec'.todo = rec.todo /\ UNCHANGED <<row, up>>
    BY <1>2, <1>a DEF BackUpTask, Recovery, dbVars
  <2> QED
    BY <1>b, <1>c, <2>1 DEF RowsHaveFiles
<1>3. CASE RecoverRestore \/ RecoverUnlock
  <2>1. rec'.todo = rec.todo /\ UNCHANGED <<row, up>>
    BY <1>3, <1>a DEF RecoverRestore, RecoverUnlock, GotoRecovery, Recovery, dbVars
  <2> QED
    BY <1>b, <1>c, <2>1 DEF RowsHaveFiles
<1>4. CASE RecoverClean
  <2>1. rec'.todo = rec.todo \ {rec.cur} /\ UNCHANGED up
        /\ row' = [row EXCEPT ![rec.cur] = [state |-> "clean", task |-> NoTask]]
    BY <1>4, <1>a DEF RecoverClean, NextSession, Recovery, TransitionSession
  <2> QED
    BY <1>a, <1>b, <1>c, <2>1 DEF RowsHaveFiles
<1>5. CASE RecoveryDone
  BY <1>b, <1>c, <1>5 DEF RecoveryDone, RowsHaveFiles, Scanning, NotRecovering, dbVars
<1> QED
  BY <1>1, <1>2, <1>3, <1>4, <1>5 DEF RecoveryStep

\* Every step, with backups that are made, when no recovery outlives the daemon
\* that has been writing rows since it read them.
LEMMA NextFiles ==
    ASSUME \A s \in Sessions : ~BackupFails(s), Crash => rec'.pc = "off",
           TypeOK, Shape, ModeInv, FilesInv, [Next]_vars
    PROVE  FilesInv'
<1> USE DEF FilesInv, FilesHaveRefs, FilesOfRequest, WithFile, RowsHaveFiles, JoinsHaveFiles
<1>1. CASE UNCHANGED vars
  BY <1>1 DEF vars
<1>2. CASE HandlerStep
  BY <1>2, HandlerFiles
<1>3. CASE RecoveryStep
  BY <1>3, RecoveryFiles
<1>4. CASE Boot \/ SecondDaemon
  <2>1. /\ UNCHANGED <<row, snapshotRef, baseRef, taskFiles, up, req, joining>>
        /\ rec' = [rec EXCEPT !.pc = "scan", !.lock = lock, !.rows = row,
                             !.todo = {s \in Sessions : \/ row[s].state \in LEGACY_RECOVERY_STATES
                                                        \/ row[s].task # NoTask}]
    BY <1>4 DEF Boot, SecondDaemon, StartRecovery, dbVars, refVars, fileVars
  <2>2. \A s \in Sessions : row[s].task # NoTask => s \in rec'.todo
    BY <2>1 DEF TypeOK, Recovery
  <2> QED
    BY <2>1, <2>2
<1>5. CASE Crash
  <2>1. rec'.pc = "off" /\ UNCHANGED <<row, snapshotRef, baseRef, taskFiles, joining>>
    BY <1>5 DEF Crash, dbVars, refVars, fileVars
  <2>2. CASE req' = Idle /\ ~up'
    BY <2>1, <2>2 DEF Idle, StartTry
  <2>3. CASE UNCHANGED <<up, req>>
    BY <2>1, <2>3
  <2> QED
    BY <1>5, <2>2, <2>3 DEF Crash
<1>6. CASE JoinStep
  <2>1. /\ UNCHANGED <<snapshotRef, baseRef, taskFiles, up, req, rec>>
        /\ joining \in Joining /\ row \in [Sessions -> Row]
    BY <1>6 DEF JoinStep, JoinRead, JoinCheck, JoinWrite, refVars, fileVars, TypeOK
  <2>2. CASE (\E s \in Sessions : JoinRead(s)) \/ JoinCheck
    BY <2>1, <2>2 DEF JoinRead, JoinCheck, NotJoining, dbVars, Joining
  <2>3. CASE JoinWrite
    BY <2>1, <2>3 DEF JoinWrite, NotJoining, TransitionSession
  <2> QED
    BY <1>6, <2>2, <2>3 DEF JoinStep
<1>7. ASSUME NEW s \in Sessions, ReadyToIntegrate(s) \/ FusionDone(s) PROVE FilesInv'
  <2>1. /\ up /\ req.pc = "idle"
        /\ UNCHANGED <<snapshotRef, baseRef, taskFiles, up, rec, joining>>
        /\ \A r \in Sessions : row'[r].task = row[r].task
    BY <1>7 DEF ReadyToIntegrate, FusionDone, At, envVars, refVars, fileVars, TypeOK, Row
  <2>2. \/ req' = req
        \/ req'.pc \in {"direct", "catchup"}
        \/ /\ req'.pc = "normalize" /\ req'.mode = "fused"
           /\ req'.task = row[s].task /\ row[s].task # NoTask
    BY <1>7 DEF ReadyToIntegrate, FusionDone, Idle
  <2>3. \A r \in Sessions : row[r].task # NoTask => row[r].task \in taskFiles
    BY <2>1
  <2> QED
    BY <2>1, <2>2, <2>3 DEF StartTry
<1>8. ASSUME NEW s \in Sessions, DeveloperStep(s) PROVE FilesInv'
  BY <1>8 DEF DeveloperStep, Edit, CommitWork, CommitCandidate, WriteReport, dbVars, refVars,
     fileVars
<1>9. CASE ExternalMain
  BY <1>9 DEF ExternalMain, dbVars, refVars, fileVars
<1> QED
  BY <1>1, <1>2, <1>3, <1>4, <1>5, <1>6, <1>7, <1>8, <1>9 DEF Next

\* Initially there are no task files, and nobody has a task.
LEMMA FilesInitially == Init => FilesInv
BY DEF Init, Idle, NotRecovering, NotJoining, FilesInv, FilesHaveRefs, FilesOfRequest, WithFile,
   RowsHaveFiles, JoinsHaveFiles

\* The property ActiveTaskRecoverable, for any number of `cocodex join` and
\* writers of main, and of crashes or of daemons started beside the first, but not
\* of both: as long as backups are made, a task that a session has between
\* requests has its file and its refs.  With both it is false: a second daemon that
\* read the rows before a request took its task serves once the first has died, and
\* leaves the task without a file.
THEOREM TasksAreRecoverable ==
    ASSUME MaxBackupFails = 0, MaxSecond = 0 \/ MaxCrashes = 0
    PROVE  Spec => []ActiveTaskRecoverable
<1>1. TypeOK => \A s \in Sessions : ~BackupFails(s)
  BY DEF BackupFails, TypeOK, Usage
<1>2. FilesInv => ActiveTaskRecoverable
  BY DEF FilesInv, FilesHaveRefs, RowsHaveFiles, ActiveTaskRecoverable, Quiescent, Idle
<1>3. CASE MaxSecond = 0
  <2>1. TypeOK /\ HoldInv /\ Crash => rec'.pc = "off"
    BY DEF HoldInv, RequestsAlone, Crash, NotRecovering
  <2>2. TypeOK /\ Shape /\ HoldInv /\ ModeInv /\ FilesInv /\ [Next]_vars
          => (HoldInv /\ ModeInv /\ FilesInv)'
    BY <1>1, <1>3, <2>1, NextHolds, NextMode, NextFiles
  <2> QED
    BY <1>2, <2>2, TaskInitially, ModeInitially, FilesInitially, TypeCorrect, PTL DEF Spec
<1>4. CASE MaxCrashes = 0
  <2>1. TypeOK => ~Crash
    BY <1>4 DEF Crash, TypeOK, Usage
  <2>2. TypeOK /\ Shape /\ ModeInv /\ FilesInv /\ [Next]_vars => (ModeInv /\ FilesInv)'
    BY <1>1, <2>1, NextMode, NextFiles
  <2> QED
    BY <1>2, <2>2, ModeInitially, FilesInitially, TypeCorrect, PTL DEF Spec
<1> QED
  BY <1>3, <1>4

-----------------------------------------------------------------------------
(* Codex works on top of main.                                             *)

\* A step of the handler.
LEMMA HandlerMain ==
    ASSUME TypeOK, Shape, HoldInv, TaskInv, ModeInv, MainInv, HandlerStep
    PROVE  MainInv'
<1> USE DEF ModeInv, MainInv, MainOfRequest, OthersHaveMain, WithFile
<1>a. req \in Request /\ req.cur \in Sessions /\ up /\ row \in [Sessions -> Row]
      /\ main \in Commit /\ head[req.cur] \in Commit /\ Work(req.cur) \in Commit
      /\ req.cand \in Commit /\ req.latest \in Commit /\ head \in [Sessions -> Commit]
      /\ rec.pc = "off" /\ UNCHANGED <<up, rec, joining>>
  BY HandlerBusy, WorkType, RequestFields DEF TypeOK, Shape
<1>b. req.pc \notin NotHolding => \A s \in Sessions : s # req.cur => row[s].task = NoTask
  BY <1>a, LockOfFacts DEF HoldInv, HandlerHoldsLock, TaskInv, OthersHold
<1>c. /\ req.pc \in BeforeTask => row[req.cur].task = NoTask
      /\ req.pc \notin BeforeTask \cup Undoing \cup {"idle"} => row[req.cur].task = req.task
  BY DEF TaskInv, TaskOfRequest
<1>d. IsAncestor(head[req.cur], Work(req.cur))
  BY DEF Work, CommitOf, IsAncestor
<1>1. CASE CatchUpNothing
  BY <1>1, <1>a, <1>b, <1>c, <1>d, FinishType DEF CatchUpNothing, At, envVars, cur, gitVars,
     refVars, fileVars, NotHolding, BeforeTask, Undoing, TransitionSession, StartTry,
     IsAncestor, SettleRow
<1>2. CASE CatchUpFastForward
  BY <1>2, <1>a, <1>b, <1>c, <1>d, GotoWithLatestType, FinishType DEF CatchUpFastForward, At,
     envVars, cur, Pc, DirectTry, StartTry, refVars, fileVars, dbVars, NotHolding, BeforeTask,
     Undoing, TransitionSession, IsAncestor
<1>3. CASE CaughtUp
  BY <1>3, <1>a, <1>b, <1>c, <1>d, FinishType DEF CaughtUp, At, envVars, cur, gitVars, refVars,
     fileVars, NotHolding, BeforeTask, Undoing, TransitionSession, StartTry, IsAncestor,
     SettleRow
<1>4. CASE DirectLock
  BY <1>4, <1>a, <1>b, <1>c, <1>d DEF DirectLock, At, envVars, cur, task, Request, gitVars,
     refVars, fileVars, NotHolding, BeforeTask, Undoing, TransitionSession, StartTry, IsAncestor
<1>5. CASE DirectDecline
  BY <1>5, <1>a, <1>b, <1>c, <1>d, GotoType, FinishType DEF DirectDecline, At, envVars, Pc,
     DirectTry, StartTry, gitVars, refVars, fileVars, dbVars, NotHolding, BeforeTask, Undoing,
     TransitionSession, IsAncestor
<1>6. CASE DirectRecheck
  BY <1>6, <1>a, <1>b, <1>c, <1>d, GotoWithLatestType, GotoType DEF DirectRecheck, At, envVars,
     cur, task, Pc, DirectTry, StartTry, gitVars, refVars, fileVars, NotHolding, BeforeTask,
     Undoing, TransitionSession, IsAncestor
<1>7. CASE DirectCommit
  BY <1>7, <1>a, <1>b, <1>c, <1>d, GotoWithCandidateType, GotoType DEF DirectCommit, At,
     envVars, cur, Pc, DirectTry, StartTry, CommitAll, refVars, fileVars, dbVars, NotHolding,
     BeforeTask, Undoing, TransitionSession, IsAncestor
<1>8. CASE DirectCompare
  BY <1>8, <1>a, <1>b, <1>c, <1>d, GotoType DEF DirectCompare, At, envVars, cur, Pc, DirectTry,
     StartTry, gitVars, refVars, fileVars, NotHolding, BeforeTask, Undoing, TransitionSession,
     IsAncestor
<1>9. CASE DirectFails
  BY <1>9, <1>a, <1>b, <1>c, <1>d, GotoType DEF DirectFails, At, envVars, cur, Pc, DirectTry,
     StartTry, gitVars, refVars, fileVars, NotHolding, BeforeTask, Undoing, TransitionSession,
     IsAncestor
<1>10. CASE DirectUnlock
  BY <1>10, <1>a, <1>b, <1>c, <1>d, GotoType, FinishType DEF DirectUnlock, At, envVars, cur,
     task, Pc, DirectTry, StartTry, ReleaseLockIfOwned, gitVars, refVars, fileVars, NotHolding,
     BeforeTask, Undoing, TransitionSession, IsAncestor
<1>11. CASE ForwardMain
  BY <1>11, <1>a, <1>b, <1>c, <1>d, GotoType DEF ForwardMain, At, envVars, Pc, DirectTry,
     StartTry, refVars, fileVars, dbVars, NotHolding, BeforeTask, Undoing, TransitionSession,
     IsAncestor
<1>12. CASE ForceMain
  BY <1>12, <1>a, <1>b, <1>c, <1>d, GotoType DEF ForceMain, At, envVars, Pc, DirectTry,
     StartTry, refVars, fileVars, dbVars, NotHolding, BeforeTask, Undoing, TransitionSession,
     IsAncestor
<1>13. CASE ForwardRefused
  BY <1>13, <1>a, <1>b, <1>c, <1>d, GotoType, FinishType DEF ForwardRefused, At, envVars, cur,
     task, Pc, DirectTry, StartTry, gitVars, refVars, fileVars, NotHolding, BeforeTask, Undoing,
     TransitionSession, IsAncestor
<1>14. CASE PublishedClean
  BY <1>14, <1>a, <1>b, <1>c, <1>d, GotoType DEF PublishedClean, At, envVars, cur, Pc,
     DirectTry, StartTry, gitVars, refVars, fileVars, NotHolding, BeforeTask, Undoing,
     TransitionSession, IsAncestor
<1>15. CASE PublishedSeen
  BY <1>15, <1>a, <1>b, <1>c, <1>d, GotoType DEF PublishedSeen, At, envVars, cur, Pc, DirectTry,
     StartTry, gitVars, refVars, fileVars, NotHolding, BeforeTask, Undoing, TransitionSession,
     IsAncestor
<1>16. CASE PublishedRelease
  BY <1>16, <1>a, <1>b, <1>c, <1>d, FinishType DEF PublishedRelease, At, envVars, cur, task,
     ReleaseLockIfOwned, gitVars, refVars, fileVars, NotHolding, BeforeTask, Undoing,
     TransitionSession, StartTry, IsAncestor
<1>17. CASE ClaimIntegrationTask
  BY <1>17, <1>a, <1>b, <1>c, <1>d DEF ClaimIntegrationTask, At, envVars, cur, task, Request,
     gitVars, refVars, fileVars, NotHolding, BeforeTask, Undoing, TransitionSession, StartTry,
     IsAncestor
<1>18. CASE StartRefused
  BY <1>18, <1>a, <1>b, <1>c, <1>d, FinishType DEF StartRefused, At, envVars, gitVars, refVars,
     fileVars, dbVars, NotHolding, BeforeTask, Undoing, TransitionSession, StartTry, IsAncestor
<1>19. CASE FreezeAcknowledged
  BY <1>19, <1>a, <1>b, <1>c, <1>d, GotoType DEF FreezeAcknowledged, At, envVars, cur, task, Pc,
     DirectTry, StartTry, gitVars, refVars, fileVars, NotHolding, BeforeTask, Undoing,
     TransitionSession, IsAncestor
<1>20. CASE PrepareLockedSync
  BY <1>20, <1>a, <1>b, <1>c, <1>d, GotoType DEF PrepareLockedSync, At, envVars, cur, task, Pc,
     DirectTry, StartTry, gitVars, refVars, fileVars, NotHolding, BeforeTask, Undoing,
     TransitionSession, IsAncestor
<1>21. CASE Snapshot
  BY <1>21, <1>a, <1>b, <1>c, <1>d DEF Snapshot, At, envVars, cur, Request, CommitAll, refVars,
     fileVars, dbVars, NotHolding, BeforeTask, Undoing, TransitionSession, StartTry, IsAncestor
<1>22. CASE SnapshotRef
  BY <1>22, <1>a, <1>b, <1>c, <1>d, GotoType DEF SnapshotRef, At, envVars, task, Pc, DirectTry,
     StartTry, gitVars, fileVars, dbVars, NotHolding, BeforeTask, Undoing, TransitionSession,
     IsAncestor
<1>23. CASE BaseRef
  BY <1>23, <1>a, <1>b, <1>c, <1>d, GotoType DEF BaseRef, At, envVars, task, Pc, DirectTry,
     StartTry, gitVars, fileVars, dbVars, NotHolding, BeforeTask, Undoing, TransitionSession,
     IsAncestor
<1>24. CASE MergeBegin
  BY <1>24, <1>a, <1>b, <1>c, <1>d, GotoType DEF MergeBegin, At, envVars, cur, task, Pc,
     DirectTry, StartTry, gitVars, refVars, fileVars, NotHolding, BeforeTask, Undoing,
     TransitionSession, IsAncestor
<1>25. CASE GitMerge
  BY <1>25, <1>a, <1>b, <1>c, <1>d, GotoType DEF GitMerge, At, envVars, cur, task, Pc,
     DirectTry, StartTry, refVars, fileVars, dbVars, NotHolding, BeforeTask, Undoing,
     TransitionSession, IsAncestor, MergeOf
<1>26. CASE ValidateMerge
  BY <1>26, <1>a, <1>b, <1>c, <1>d, GotoWithCandidateType, GotoType DEF ValidateMerge, At,
     envVars, cur, task, Pc, DirectTry, StartTry, gitVars, refVars, fileVars, dbVars,
     NotHolding, BeforeTask, Undoing, TransitionSession, IsAncestor
<1>27. CASE MergeUnlock
  BY <1>27, <1>a, <1>b, <1>c, <1>d, GotoType DEF MergeUnlock, At, envVars, cur, task, Pc,
     DirectTry, StartTry, ReleaseLockIfOwned, gitVars, refVars, fileVars, NotHolding,
     BeforeTask, Undoing, TransitionSession, IsAncestor
<1>28. CASE ResetToLatest
  BY <1>28, <1>a, <1>b, <1>c, <1>d, GotoType DEF ResetToLatest, At, envVars, cur, Pc, DirectTry,
     StartTry, refVars, fileVars, dbVars, NotHolding, BeforeTask, Undoing, TransitionSession,
     IsAncestor, ResetHard
<1>29. CASE WriteTaskFile
  BY <1>29, <1>a, <1>b, <1>c, <1>d, GotoType DEF WriteTaskFile, At, envVars, task, Pc,
     DirectTry, StartTry, gitVars, refVars, dbVars, NotHolding, BeforeTask, Undoing,
     TransitionSession, IsAncestor
<1>30. CASE Fusing
  BY <1>30, <1>a, <1>b, <1>c, <1>d, GotoType DEF Fusing, At, envVars, cur, task, Pc, DirectTry,
     StartTry, gitVars, refVars, fileVars, NotHolding, BeforeTask, Undoing, TransitionSession,
     IsAncestor
<1>31. CASE PromptDelivered
  BY <1>31, <1>a, <1>b, <1>c, <1>d, FinishType DEF PromptDelivered, At, envVars, gitVars,
     refVars, fileVars, dbVars, NotHolding, BeforeTask, Undoing, TransitionSession, StartTry,
     IsAncestor
<1>32. CASE StartFails
  BY <1>32, <1>a, <1>b, <1>c, <1>d, GotoType DEF StartFails, At, envVars, Pc, DirectTry,
     StartTry, gitVars, refVars, fileVars, dbVars, NotHolding, BeforeTask, Undoing,
     TransitionSession, IsAncestor
<1>33. CASE AbortRestore
  BY <1>33, <1>a, <1>b, <1>c, <1>d, GotoType DEF AbortRestore, At, envVars, cur, task, Pc,
     DirectTry, StartTry, refVars, fileVars, dbVars, NotHolding, BeforeTask, Undoing,
     TransitionSession, IsAncestor, RestoreTaskSnapshotIfPossible, ResetHard
<1>34. CASE AbortUnlock
  BY <1>34, <1>a, <1>b, <1>c, <1>d, GotoType DEF AbortUnlock, At, envVars, cur, task, Pc,
     DirectTry, StartTry, ReleaseLockIfOwned, gitVars, refVars, fileVars, NotHolding,
     BeforeTask, Undoing, TransitionSession, IsAncestor
<1>35. CASE AbortClean
  BY <1>35, <1>a, <1>b, <1>c, <1>d, FinishType DEF AbortClean, At, envVars, cur, gitVars,
     refVars, fileVars, NotHolding, BeforeTask, Undoing, TransitionSession, StartTry, IsAncestor
<1>36. CASE NormalizeActiveTask
  BY <1>36, <1>a, <1>b, <1>c, <1>d DEF NormalizeActiveTask, At, envVars, cur, task, Request,
     gitVars, refVars, fileVars, NotHolding, BeforeTask, Undoing, TransitionSession, StartTry,
     IsAncestor
<1>37. CASE CheckCandidate
  BY <1>37, <1>a, <1>b, <1>c, <1>d, GotoType DEF CheckCandidate, At, envVars, cur, task, Pc,
     DirectTry, StartTry, gitVars, refVars, fileVars, NotHolding, BeforeTask, Undoing,
     TransitionSession, IsAncestor
<1>38. CASE CheckRefuses
  BY <1>38, <1>a, <1>b, <1>c, <1>d, FinishType DEF CheckRefuses, At, envVars, cur, task,
     gitVars, refVars, fileVars, NotHolding, BeforeTask, Undoing, TransitionSession, StartTry,
     IsAncestor
<1>39. CASE VerifyReport
  BY <1>39, <1>a, <1>b, <1>c, <1>d, GotoType, FinishType DEF VerifyReport, At, envVars, cur,
     task, Pc, DirectTry, StartTry, gitVars, refVars, fileVars, NotHolding, BeforeTask, Undoing,
     TransitionSession, IsAncestor
<1>40. CASE VerifyWithoutReport
  BY <1>40, <1>a, <1>b, <1>c, <1>d, FinishType DEF VerifyWithoutReport, At, envVars, cur, task,
     gitVars, refVars, fileVars, NotHolding, BeforeTask, Undoing, TransitionSession, StartTry,
     IsAncestor
<1>41. CASE Preflight
  BY <1>41, <1>a, <1>b, <1>c, <1>d, GotoType, FinishType DEF Preflight, At, envVars, Pc,
     DirectTry, StartTry, gitVars, refVars, fileVars, dbVars, NotHolding, BeforeTask, Undoing,
     TransitionSession, IsAncestor
<1> QED
  BY <1>1, <1>2, <1>3, <1>4, <1>5, <1>6, <1>7, <1>8, <1>9, <1>10, <1>11, <1>12, <1>13, <1>14,
     <1>15, <1>16, <1>17, <1>18, <1>19, <1>20, <1>21, <1>22, <1>23, <1>24, <1>25, <1>26, <1>27,
     <1>28, <1>29, <1>30, <1>31, <1>32, <1>33, <1>34, <1>35, <1>36, <1>37, <1>38, <1>39, <1>40,
     <1>41 DEF HandlerStep

\* Every step, as long as only Cocodex moves main and the daemon does not die.
LEMMA NextMain ==
    ASSUME MaxSecond = 0, MaxJoins = 0, MaxCrashes = 0, MaxExternal = 0,
           TypeOK, Shape, HoldInv, TaskInv, LockInv, ModeInv, MainInv, [Next]_vars
    PROVE  MainInv'
<1> USE DEF MainInv
<1>1. CASE UNCHANGED vars
  BY <1>1 DEF vars, MainOfRequest, WithFile, OthersHaveMain
<1>2. CASE HandlerStep
  BY <1>2, HandlerMain
<1>3. CASE RecoveryStep
  <2>1. /\ rec.pc # "off" /\ ~up /\ req.pc = "idle"
        /\ UNCHANGED <<req, main>> /\ (RecoveryDone \/ UNCHANGED up)
    BY <1>3 DEF HoldInv, RequestsAlone, RecoveryStep, AdoptLockTask, ClearIdleRow, ResumeTask,
       BackUpTask, BackupFails, RecoverRestore, RecoverUnlock, RecoverClean, RecoveryDone,
       Scanning, gitVars
  <2>2. RecoveryDone => UNCHANGED row
    BY DEF RecoveryDone, dbVars
  <2>3. MainOfRequest'
    BY <2>1 DEF MainOfRequest, WithFile, StartTry
  <2> QED
    BY <2>1, <2>2, <2>3 DEF LockInv, NothingToRecover, OthersHaveMain
<1>4. CASE Boot
  BY <1>4 DEF Boot, StartRecovery, gitVars, dbVars, MainOfRequest, WithFile,
     OthersHaveMain
<1>5. CASE SecondDaemon \/ Crash \/ ExternalMain
  BY <1>5 DEF SecondDaemon, Crash, ExternalMain, TypeOK, Usage
<1>6. CASE JoinStep
  BY <1>6 DEF JoinStep, JoinRead, JoinCheck, JoinWrite, TaskInv, IdleForNobody, NotJoining,
     TypeOK, Usage
<1>7. ASSUME NEW s \in Sessions, ReadyToIntegrate(s) \/ FusionDone(s) PROVE MainInv'
  <2>1. /\ up /\ req.pc = "idle" /\ req.cur = NoSession /\ UNCHANGED <<main, head, up>>
        /\ \A r \in Sessions : row'[r].task = row[r].task
    BY <1>7 DEF ReadyToIntegrate, FusionDone, At, envVars, gitVars, TypeOK, Row, TaskInv,
       IdleForNobody
  <2>2. \/ req' = req
        \/ req'.pc \in {"direct", "catchup"}
        \/ /\ req'.pc = "normalize" /\ req'.mode = "fused" /\ req'.cur = s
           /\ row[s].task # NoTask
    BY <1>7 DEF ReadyToIntegrate, FusionDone, Idle
  <2>3. \A r \in Sessions : row[r].task # NoTask => IsAncestor(main, head[r])
    BY <2>1, ConstantsAssumption DEF OthersHaveMain
  <2> QED
    BY <2>1, <2>2, <2>3 DEF MainOfRequest, WithFile, StartTry, OthersHaveMain
<1>8. ASSUME NEW s \in Sessions, DeveloperStep(s) PROVE MainInv'
  <2>1. UNCHANGED <<main, req, up>> /\ \A r \in Sessions : row'[r].task = row[r].task
    BY <1>8 DEF DeveloperStep, Edit, CommitWork, CommitCandidate, WriteReport, gitVars, dbVars
  <2>2. \A r \in Sessions : IsAncestor(head[r], head'[r])
    <3>1. CASE Edit(s) \/ WriteReport(s)
      BY <3>1 DEF Edit, WriteReport, gitVars, IsAncestor
    <3>2. CASE CommitWork(s) \/ CommitCandidate(s)
      BY <3>2 DEF TypeOK, CommitWork, CommitCandidate, CommitAll, Work, CommitOf, IsAncestor
    <3> QED
      BY <1>8, <3>1, <3>2 DEF DeveloperStep
  <2>3. req.pc # "idle" => req.cur \in Sessions
    BY DEF Shape
  <2> QED
    BY <2>1, <2>2, <2>3 DEF MainOfRequest, WithFile, OthersHaveMain, IsAncestor
<1> QED
  BY <1>1, <1>2, <1>3, <1>4, <1>5, <1>6, <1>7, <1>8 DEF Next

\* Initially nobody has a task.
LEMMA MainInitially == Init => MainInv
BY DEF Init, Idle, MainInv, MainOfRequest, WithFile, OthersHaveMain, StartTry

\* The property FusingOnMain: with one daemon that does not die, no `cocodex
\* join`, and main left to Cocodex, a session that works on a task between
\* requests has the whole of main, whatever the others publish meanwhile.
THEOREM TasksAreOnMain ==
    ASSUME MaxSecond = 0, MaxJoins = 0, MaxCrashes = 0, MaxExternal = 0
    PROVE  Spec => []FusingOnMain
<1>1. TypeOK /\ Shape /\ HoldInv /\ TaskInv /\ LockInv /\ ModeInv
      /\ MainInv /\ [Next]_vars
        => (HoldInv /\ TaskInv /\ LockInv /\ ModeInv /\ MainInv)'
  BY NothingToBackUp, NextHolds, NextTask, NextLock, NextMode, NextMain
<1>2. TypeOK /\ LockInv /\ MainInv => FusingOnMain
  <2> SUFFICES ASSUME TypeOK, LockInv, MainInv, Quiescent, NEW s \in Sessions, lock.owner = s
               PROVE  IsAncestor(main, head[s])
    BY DEF FusingOnMain
  <2>1. up /\ req.cur = NoSession /\ s # req.cur
    BY ConstantsAssumption DEF Quiescent, Idle
  <2>2. row[s].task = lock.task /\ lock.task # NoTask
    BY <2>1, ConstantsAssumption DEF LockInv, OwnerHasTask, TypeOK, Lock, NoLock, Task, NoTask
  <2> QED
    BY <2>1, <2>2 DEF MainInv, OthersHaveMain
<1> QED
  BY <1>1, <1>2, TaskInitially, LockInitially, ModeInitially, MainInitially, TypeCorrect, PTL DEF
     Spec
=============================================================================
