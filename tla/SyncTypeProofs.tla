--------------------------- MODULE SyncTypeProofs ---------------------------
(***************************************************************************)
(* SyncDaemon keeps its types: THEOREM TypeCorrect.  TypeOK alone is not   *)
(* inductive: a step that writes refs/cocodex/snapshots/<task> needs to    *)
(* know that the request is on a task, a step that resets a worktree that  *)
(* it is for a session, and a step that takes a task identifier that one   *)
(* is left.  Shape says so, and the two are proved together.               *)
(***************************************************************************)
EXTENDS SyncDaemon, TLAPS

(* The elementary writes and the moves of a request.                       *)

\* A row that is written is a row.
LEMMA TransitionType ==
    ASSUME row \in [Sessions -> Row], NEW s, NEW st \in SessionState, NEW t \in MaybeTask,
           TransitionSession(s, st, t)
    PROVE  row' \in [Sessions -> Row]
BY DEF TransitionSession, Row

\* Whether or not the lock is released, it is a lock.
LEMMA ReleaseType ==
    ASSUME lock \in Lock, NEW s, NEW t, ReleaseLockIfOwned(s, t)
    PROVE  lock' \in Lock
BY DEF ReleaseLockIfOwned, Lock

\* last_seen_main is written with a commit, or left unknown.
LEMMA UpdateLastSeenMainType ==
    ASSUME lastSeen \in [Sessions -> MaybeCommit], NEW s, NEW c \in MaybeCommit,
           UpdateLastSeenMain(s, c)
    PROVE  lastSeen' \in [Sessions -> MaybeCommit]
BY DEF UpdateLastSeenMain

\* What is in a worktree is a commit, or could be committed.
LEMMA WorkType ==
    ASSUME head \in [Sessions -> Commit], dirty \in [Sessions -> Commit], NEW s \in Sessions
    PROVE  Work(s) \in Commit
BY DEF Work, CommitOf, Commit

\* Committing a worktree leaves commits and changes where they belong.
LEMMA CommitAllType ==
    ASSUME head \in [Sessions -> Commit], dirty \in [Sessions -> Commit], NEW s \in Sessions,
           CommitAll(s)
    PROVE  head' \in [Sessions -> Commit] /\ dirty' \in [Sessions -> Commit]
BY WorkType DEF CommitAll, Commit

\* So does resetting it to a commit.
LEMMA ResetHardType ==
    ASSUME head \in [Sessions -> Commit], dirty \in [Sessions -> Commit], NEW s,
           NEW c \in Commit, ResetHard(s, c)
    PROVE  head' \in [Sessions -> Commit] /\ dirty' \in [Sessions -> Commit]
BY DEF ResetHard, Commit

\* So does restoring the snapshot of a task, with or without a snapshot.
LEMMA RestoreType ==
    ASSUME head \in [Sessions -> Commit], dirty \in [Sessions -> Commit],
           snapshotRef \in [Task -> MaybeCommit], NEW s, NEW t \in Task,
           RestoreTaskSnapshotIfPossible(s, t)
    PROVE  head' \in [Sessions -> Commit] /\ dirty' \in [Sessions -> Commit]
BY ResetHardType DEF RestoreTaskSnapshotIfPossible, MaybeCommit

\* No request is a request.
LEMMA IdleType == Idle \in Request
BY DEF Idle, Request, Pc, MaybeSession, MaybeTask, NoTask, Commit, Root

\* A handler that goes on keeps the session, task and commits of its request.
LEMMA GotoType ==
    ASSUME req \in Request, NEW pc \in Pc, Goto(pc)
    PROVE  /\ req' \in Request
           /\ req'.pc = pc
           /\ req'.cur = req.cur /\ req'.task = req.task /\ req'.mode = req.mode
           /\ req'.cand = req.cand /\ req'.latest = req.latest /\ req'.asked = req.asked
BY DEF Goto, Request

\* ... or replaces the main it has read,
LEMMA GotoWithLatestType ==
    ASSUME req \in Request, NEW pc \in Pc, NEW c \in Commit, GotoWithLatest(pc, c)
    PROVE  /\ req' \in Request
           /\ req'.pc = pc /\ req'.latest = c
           /\ req'.cur = req.cur /\ req'.task = req.task /\ req'.mode = req.mode
           /\ req'.cand = req.cand /\ req'.asked = req.asked
BY DEF GotoWithLatest, Request

\* ... or the candidate it carries.
LEMMA GotoWithCandidateType ==
    ASSUME req \in Request, NEW pc \in Pc, NEW c \in Commit, GotoWithCandidate(pc, c)
    PROVE  /\ req' \in Request
           /\ req'.pc = pc /\ req'.cand = c
           /\ req'.cur = req.cur /\ req'.task = req.task /\ req'.mode = req.mode
           /\ req'.latest = req.latest /\ req'.asked = req.asked
BY DEF GotoWithCandidate, Request

\* A handler that is done works for nobody.
LEMMA FinishType ==
    ASSUME Finish
    PROVE  /\ req' \in Request
           /\ req'.pc = "idle" /\ req'.cur = NoSession /\ req'.task = NoTask
           /\ req'.latest = Root /\ req'.cand = Root /\ req'.asked = Root
BY IdleType DEF Finish, Idle

\* A new task identifier is one within the bound.
LEMMA NewTaskType ==
    ASSUME used \in Usage, used.tasks + 1 <= MaxTasks, NewTask
    PROVE  used' \in Usage /\ used'.tasks = used.tasks + 1 /\ used'.tasks \in Task
BY ConstantsAssumption DEF NewTask, Usage, Task

\* The commits of a request are commits.
LEMMA RequestFields ==
    ASSUME req \in Request
    PROVE  /\ req.cand \in Commit /\ req.cand \in MaybeCommit
           /\ req.latest \in Commit /\ req.latest \in MaybeCommit
BY DEF Request, MaybeCommit

\* A merge commit is a commit.
LEMMA MergeOfType ==
    ASSUME NEW c \in Commit, NEW d \in Commit, NEW t \in Task
    PROVE  MergeOf(c, d, t) \in Commit
BY DEF MergeOf, Commit, Atom, Task

-----------------------------------------------------------------------------
(* The handler.                                                            *)

\* A step of the handler keeps its request in shape: for a session, on a task,
\* with task identifiers left.
LEMMA HandlerShape ==
    ASSUME TypeOK, Shape, HandlerStep
    PROVE  Shape'
<1> USE DEF Shape, TaskToRecover, OwnsLock
<1>a. req \in Request /\ used \in Usage /\ used.tasks \in Nat /\ MaxTasks \in Nat
      /\ main \in Commit
  BY ConstantsAssumption DEF TypeOK, Usage
<1>b. req.cur \in Sessions => head[req.cur] \in Commit /\ Work(req.cur) \in Commit
  BY WorkType DEF TypeOK
<1>1. CASE CatchUpNothing
  BY <1>a, <1>1, FinishType DEF CatchUpNothing, At, envVars
<1>2. CASE CatchUpFastForward
  BY <1>a, <1>2, GotoWithLatestType, GotoType, FinishType DEF CatchUpFastForward, At,
     envVars, Pc, DirectTry, StartTry
<1>3. CASE CaughtUp
  BY <1>a, <1>3, FinishType DEF CaughtUp, At, envVars
<1>4. CASE DirectLock
  BY <1>a, <1>4, NewTaskType, ConstantsAssumption DEF DirectLock, At, envVars, Request, Usage
<1>5. CASE DirectDecline
  BY <1>a, <1>5, GotoType, FinishType DEF DirectDecline, At, envVars, Pc, DirectTry, StartTry
<1>6. CASE DirectRecheck
  BY <1>a, <1>6, GotoWithLatestType, GotoType DEF DirectRecheck, At, envVars, Pc, DirectTry,
     StartTry
<1>7. CASE DirectCommit
  BY <1>a, <1>7, <1>b, GotoWithCandidateType, GotoType DEF DirectCommit, At, envVars, cur,
     Pc, DirectTry, StartTry
<1>8. CASE DirectCompare
  BY <1>a, <1>8, GotoType DEF DirectCompare, At, envVars, Pc, DirectTry, StartTry
<1>9. CASE DirectFails
  BY <1>a, <1>9, GotoType DEF DirectFails, At, envVars, Pc, DirectTry, StartTry
<1>10. CASE DirectUnlock
  BY <1>a, <1>10, GotoType, FinishType DEF DirectUnlock, At, envVars, Pc, DirectTry, StartTry
<1>11. CASE ForwardMain
  BY <1>a, <1>11, GotoType DEF ForwardMain, At, envVars, Pc, DirectTry, StartTry
<1>12. CASE ForceMain
  BY <1>a, <1>12, GotoType DEF ForceMain, At, envVars, Pc, DirectTry, StartTry
<1>13. CASE ForwardRefused
  BY <1>a, <1>13, GotoType, FinishType DEF ForwardRefused, At, envVars, Pc, DirectTry, StartTry
<1>14. CASE PublishedClean
  BY <1>a, <1>14, GotoType DEF PublishedClean, At, envVars, Pc, DirectTry, StartTry
<1>15. CASE PublishedSeen
  BY <1>a, <1>15, GotoType DEF PublishedSeen, At, envVars, Pc, DirectTry, StartTry
<1>16. CASE PublishedRelease
  BY <1>a, <1>16, FinishType DEF PublishedRelease, At, envVars
<1>17. CASE ClaimIntegrationTask
  BY <1>a, <1>17, NewTaskType, ConstantsAssumption DEF ClaimIntegrationTask, At, envVars,
     Request, Usage
<1>18. CASE StartRefused
  BY <1>a, <1>18, FinishType DEF StartRefused, At, envVars
<1>19. CASE FreezeAcknowledged
  BY <1>a, <1>19, GotoType DEF FreezeAcknowledged, At, envVars, Pc, DirectTry, StartTry
<1>20. CASE PrepareLockedSync
  BY <1>a, <1>20, GotoType DEF PrepareLockedSync, At, envVars, Pc, DirectTry, StartTry
<1>21. CASE Snapshot
  BY <1>a, <1>21, <1>b DEF Snapshot, At, envVars, Request
<1>22. CASE SnapshotRef
  BY <1>a, <1>22, GotoType DEF SnapshotRef, At, envVars, Pc, DirectTry, StartTry
<1>23. CASE BaseRef
  BY <1>a, <1>23, GotoType DEF BaseRef, At, envVars, Pc, DirectTry, StartTry
<1>24. CASE MergeBegin
  BY <1>a, <1>24, GotoType DEF MergeBegin, At, envVars, Pc, DirectTry, StartTry
<1>25. CASE GitMerge
  BY <1>a, <1>25, GotoType DEF GitMerge, At, envVars, Pc, DirectTry, StartTry
<1>26. CASE ValidateMerge
  BY <1>a, <1>26, <1>b, GotoWithCandidateType, GotoType DEF ValidateMerge, At, envVars, cur,
     Pc, DirectTry, StartTry
<1>27. CASE MergeUnlock
  BY <1>a, <1>27, GotoType DEF MergeUnlock, At, envVars, Pc, DirectTry, StartTry
<1>28. CASE ResetToLatest
  BY <1>a, <1>28, GotoType DEF ResetToLatest, At, envVars, Pc, DirectTry, StartTry
<1>29. CASE WriteTaskFile
  BY <1>a, <1>29, GotoType DEF WriteTaskFile, At, envVars, Pc, DirectTry, StartTry
<1>30. CASE Fusing
  BY <1>a, <1>30, GotoType DEF Fusing, At, envVars, Pc, DirectTry, StartTry
<1>31. CASE PromptDelivered
  BY <1>a, <1>31, FinishType DEF PromptDelivered, At, envVars
<1>32. CASE StartFails
  BY <1>a, <1>32, GotoType DEF StartFails, At, envVars, Pc, DirectTry, StartTry
<1>33. CASE AbortRestore
  BY <1>a, <1>33, GotoType DEF AbortRestore, At, envVars, Pc, DirectTry, StartTry
<1>34. CASE AbortUnlock
  BY <1>a, <1>34, GotoType DEF AbortUnlock, At, envVars, Pc, DirectTry, StartTry
<1>35. CASE AbortClean
  BY <1>a, <1>35, FinishType DEF AbortClean, At, envVars
<1>36. CASE NormalizeActiveTask
  BY <1>a, <1>36 DEF NormalizeActiveTask, At, envVars, Request
<1>37. CASE CheckCandidate
  BY <1>a, <1>37, GotoType DEF CheckCandidate, At, envVars, Pc, DirectTry, StartTry
<1>38. CASE CheckRefuses
  BY <1>a, <1>38, FinishType DEF CheckRefuses, At, envVars
<1>39. CASE VerifyReport
  BY <1>a, <1>39, GotoType, FinishType DEF VerifyReport, At, envVars, Pc, DirectTry, StartTry
<1>40. CASE VerifyWithoutReport
  BY <1>a, <1>40, FinishType DEF VerifyWithoutReport, At, envVars
<1>41. CASE Preflight
  BY <1>a, <1>41, GotoType, FinishType DEF Preflight, At, envVars, Pc, DirectTry, StartTry
<1> QED
  BY <1>1, <1>2, <1>3, <1>4, <1>5, <1>6, <1>7, <1>8, <1>9, <1>10, <1>11, <1>12, <1>13,
     <1>14, <1>15, <1>16, <1>17, <1>18, <1>19, <1>20, <1>21, <1>22, <1>23, <1>24, <1>25,
     <1>26, <1>27, <1>28, <1>29, <1>30, <1>31, <1>32, <1>33, <1>34, <1>35, <1>36, <1>37,
     <1>38, <1>39, <1>40, <1>41 DEF HandlerStep

\* A step of the handler keeps the types.
LEMMA HandlerType ==
    ASSUME TypeOK, Shape, HandlerStep
    PROVE  TypeOK'
<1> USE DEF TypeOK, Shape
<1>a. req \in Request /\ (req.cur \in Sessions => head[req.cur] \in Commit)
  OBVIOUS
<1>b. req.pc # "idle" => /\ req.cur \in Sessions
                        /\ head[req.cur] \in Commit
                        /\ Work(req.cur) \in Commit
  BY WorkType
<1>1. CASE CatchUpNothing
  BY <1>1, <1>b, TransitionType, UpdateLastSeenMainType, RequestFields, FinishType DEF
     CatchUpNothing, At, cur, SettleRow, SessionState, READY_TO_INTEGRATE_STATES,
     LEGACY_RECOVERY_STATES, ACTIVE_INTEGRATION_STATES, LEGACY_IDLE_STATES, MaybeTask, NoTask,
     MaybeCommit, gitVars, refVars, fileVars, envVars
<1>2. CASE CatchUpFastForward
  BY <1>2, <1>b, GotoWithLatestType, FinishType DEF CatchUpFastForward, At, cur, Pc, DirectTry,
     StartTry, refVars, fileVars, dbVars, envVars
<1>3. CASE CaughtUp
  BY <1>3, <1>b, TransitionType, UpdateLastSeenMainType, RequestFields, FinishType DEF
     CaughtUp, At, cur, SettleRow, SessionState, READY_TO_INTEGRATE_STATES,
     LEGACY_RECOVERY_STATES, ACTIVE_INTEGRATION_STATES, LEGACY_IDLE_STATES, MaybeTask, NoTask,
     MaybeCommit, gitVars, refVars, fileVars, envVars
<1>4. CASE DirectLock
  <2>0. used.tasks \in 0 .. MaxTasks
    BY DEF Usage
  <2>1. used.tasks + 1 <= MaxTasks /\ used.tasks + 1 \in Task
    BY <1>4, <2>0, ConstantsAssumption DEF DirectLock, At, Task
  <2>2. used' \in Usage
    BY <1>4, <2>1, NewTaskType DEF DirectLock
  <2>3. lock' \in Lock
    BY <1>4, <2>1 DEF DirectLock, At, LockOf, Lock, cur
  <2>4. req' \in Request
    BY <1>4, <1>b, <2>1 DEF DirectLock, At, cur, Request, Pc, MaybeTask
  <2> QED
    BY <1>4, <2>2, <2>3, <2>4 DEF DirectLock, gitVars, refVars, fileVars, envVars
<1>5. CASE DirectDecline
  BY <1>5, GotoType, FinishType DEF DirectDecline, At, Pc, DirectTry, StartTry, gitVars,
     refVars, fileVars, dbVars, envVars
<1>6. CASE DirectRecheck
  <2>1. req' \in Request
    BY <1>6, GotoType, GotoWithLatestType DEF DirectRecheck, Pc, DirectTry
  <2>2. row' \in [Sessions -> Row]
    BY <1>6, TransitionType DEF DirectRecheck, At, task, SessionState,
       READY_TO_INTEGRATE_STATES, LEGACY_RECOVERY_STATES, ACTIVE_INTEGRATION_STATES,
       LEGACY_IDLE_STATES, MaybeTask, NoTask
  <2> QED
    BY <1>6, <2>1, <2>2 DEF DirectRecheck, gitVars, refVars, fileVars, envVars
<1>7. CASE DirectCommit
  <2>1. req' \in Request
    BY <1>7, <1>b, GotoType, GotoWithCandidateType DEF DirectCommit, At, cur, Pc, DirectTry
  <2>2. head' \in [Sessions -> Commit] /\ dirty' \in [Sessions -> Commit]
    BY <1>7, CommitAllType DEF DirectCommit, At, cur
  <2> QED
    BY <1>7, <2>1, <2>2 DEF DirectCommit, refVars, fileVars, dbVars, envVars
<1>8. CASE DirectCompare
  BY <1>8, <1>b, TransitionType, RequestFields, GotoType DEF DirectCompare, At, cur,
     SessionState, READY_TO_INTEGRATE_STATES, LEGACY_RECOVERY_STATES,
     ACTIVE_INTEGRATION_STATES, LEGACY_IDLE_STATES, MaybeTask, NoTask, Pc, DirectTry, StartTry,
     gitVars, refVars, fileVars, envVars
<1>9. CASE DirectFails
  BY <1>9, <1>b, TransitionType, GotoType DEF DirectFails, At, cur, SessionState,
     READY_TO_INTEGRATE_STATES, LEGACY_RECOVERY_STATES, ACTIVE_INTEGRATION_STATES,
     LEGACY_IDLE_STATES, MaybeTask, NoTask, Pc, DirectTry, StartTry, gitVars, refVars,
     fileVars, envVars
<1>10. CASE DirectUnlock
  BY <1>10, <1>b, ReleaseType, GotoType, FinishType DEF DirectUnlock, At, cur, task, Pc,
     DirectTry, StartTry, gitVars, refVars, fileVars, envVars
<1>11. CASE ForwardMain
  BY <1>11, RequestFields, GotoType DEF ForwardMain, At, Pc, DirectTry, StartTry, refVars,
     fileVars, dbVars, envVars
<1>12. CASE ForceMain
  BY <1>12, RequestFields, GotoType DEF ForceMain, At, Pc, DirectTry, StartTry, refVars,
     fileVars, dbVars, envVars
<1>13. CASE ForwardRefused
  BY <1>13, <1>b, TransitionType, GotoType, FinishType DEF ForwardRefused, At, cur, task,
     SessionState, READY_TO_INTEGRATE_STATES, LEGACY_RECOVERY_STATES,
     ACTIVE_INTEGRATION_STATES, LEGACY_IDLE_STATES, MaybeTask, NoTask, Pc, DirectTry, StartTry,
     gitVars, refVars, fileVars, envVars
<1>14. CASE PublishedClean
  BY <1>14, <1>b, TransitionType, GotoType DEF PublishedClean, At, cur, SessionState,
     READY_TO_INTEGRATE_STATES, LEGACY_RECOVERY_STATES, ACTIVE_INTEGRATION_STATES,
     LEGACY_IDLE_STATES, MaybeTask, NoTask, Pc, DirectTry, StartTry, gitVars, refVars,
     fileVars, envVars
<1>15. CASE PublishedSeen
  BY <1>15, <1>b, UpdateLastSeenMainType, RequestFields, GotoType DEF PublishedSeen, At, cur,
     MaybeCommit, Pc, DirectTry, StartTry, gitVars, refVars, fileVars, envVars
<1>16. CASE PublishedRelease
  BY <1>16, <1>b, ReleaseType, FinishType DEF PublishedRelease, At, cur, task, gitVars,
     refVars, fileVars, envVars
<1>17. CASE ClaimIntegrationTask
  <2>0. used.tasks \in 0 .. MaxTasks
    BY DEF Usage
  <2>1. used.tasks + 1 <= MaxTasks /\ used.tasks + 1 \in Task
    BY <1>17, <2>0, ConstantsAssumption DEF ClaimIntegrationTask, At, Task
  <2>2. used' \in Usage
    BY <1>17, <2>1, NewTaskType DEF ClaimIntegrationTask
  <2>3. lock' \in Lock
    BY <1>17, <2>1 DEF ClaimIntegrationTask, At, LockOf, Lock, cur
  <2>4. req' \in Request
    BY <1>17, <2>1 DEF ClaimIntegrationTask, Request, Pc, StartTry, MaybeTask
  <2>5. row' \in [Sessions -> Row]
    BY <1>17, <2>1, TransitionType DEF ClaimIntegrationTask, SessionState,
       LEGACY_RECOVERY_STATES, LEGACY_IDLE_STATES, MaybeTask
  <2> QED
    BY <1>17, <2>2, <2>3, <2>4, <2>5 DEF ClaimIntegrationTask, gitVars, refVars, fileVars,
       envVars
<1>18. CASE StartRefused
  BY <1>18, FinishType DEF StartRefused, At, gitVars, refVars, fileVars, dbVars, envVars
<1>19. CASE FreezeAcknowledged
  BY <1>19, <1>b, TransitionType, GotoType DEF FreezeAcknowledged, At, cur, task, SessionState,
     READY_TO_INTEGRATE_STATES, LEGACY_RECOVERY_STATES, ACTIVE_INTEGRATION_STATES,
     LEGACY_IDLE_STATES, MaybeTask, NoTask, Pc, DirectTry, StartTry, gitVars, refVars,
     fileVars, envVars
<1>20. CASE PrepareLockedSync
  BY <1>20, <1>b, TransitionType, GotoType DEF PrepareLockedSync, At, cur, task, SessionState,
     READY_TO_INTEGRATE_STATES, LEGACY_RECOVERY_STATES, ACTIVE_INTEGRATION_STATES,
     LEGACY_IDLE_STATES, MaybeTask, NoTask, Pc, DirectTry, StartTry, gitVars, refVars,
     fileVars, envVars
<1>21. CASE Snapshot
  <2>1. req' \in Request
    BY <1>21, <1>b DEF Snapshot, At, cur, Request, Pc, StartTry
  <2>2. head' \in [Sessions -> Commit] /\ dirty' \in [Sessions -> Commit]
    BY <1>21, CommitAllType DEF Snapshot, At, cur
  <2> QED
    BY <1>21, <2>1, <2>2 DEF Snapshot, refVars, fileVars, dbVars, envVars
<1>22. CASE SnapshotRef
  BY <1>22, RequestFields, GotoType DEF SnapshotRef, At, task, Pc, DirectTry, StartTry,
     gitVars, fileVars, dbVars, envVars
<1>23. CASE BaseRef
  BY <1>23, RequestFields, GotoType DEF BaseRef, At, task, Pc, DirectTry, StartTry, gitVars,
     fileVars, dbVars, envVars
<1>24. CASE MergeBegin
  BY <1>24, <1>b, TransitionType, GotoType DEF MergeBegin, At, cur, task, SessionState,
     READY_TO_INTEGRATE_STATES, LEGACY_RECOVERY_STATES, ACTIVE_INTEGRATION_STATES,
     LEGACY_IDLE_STATES, MaybeTask, NoTask, Pc, DirectTry, StartTry, gitVars, refVars,
     fileVars, envVars
<1>25. CASE GitMerge
  <2>1. At("merge") => MergeOf(head[cur], req.latest, task) \in Commit
    BY <1>b, MergeOfType, RequestFields DEF At, cur, task
  <2>2. head' \in [Sessions -> Commit]
    BY <1>25, <2>1 DEF GitMerge
  <2>3. req' \in Request
    BY <1>25, GotoType DEF GitMerge, Pc, StartTry
  <2> QED
    BY <1>25, <2>2, <2>3 DEF GitMerge, refVars, fileVars, dbVars, envVars
<1>26. CASE ValidateMerge
  BY <1>26, <1>b, RequestFields, GotoWithCandidateType, GotoType DEF ValidateMerge, At, cur,
     task, Pc, DirectTry, StartTry, gitVars, refVars, fileVars, dbVars, envVars
<1>27. CASE MergeUnlock
  BY <1>27, <1>b, ReleaseType, GotoType DEF MergeUnlock, At, cur, task, Pc, DirectTry,
     StartTry, gitVars, refVars, fileVars, envVars
<1>28. CASE ResetToLatest
  <2>1. req' \in Request
    BY <1>28, GotoType DEF ResetToLatest, Pc, StartTry
  <2>2. head' \in [Sessions -> Commit] /\ dirty' \in [Sessions -> Commit]
    BY <1>28, RequestFields, ResetHardType DEF ResetToLatest
  <2> QED
    BY <1>28, <2>1, <2>2 DEF ResetToLatest, refVars, fileVars, dbVars, envVars
<1>29. CASE WriteTaskFile
  BY <1>29, GotoType DEF WriteTaskFile, At, task, Pc, DirectTry, StartTry, gitVars, refVars,
     dbVars, envVars
<1>30. CASE Fusing
  BY <1>30, <1>b, TransitionType, GotoType DEF Fusing, At, cur, task, SessionState,
     READY_TO_INTEGRATE_STATES, LEGACY_RECOVERY_STATES, ACTIVE_INTEGRATION_STATES,
     LEGACY_IDLE_STATES, MaybeTask, NoTask, Pc, DirectTry, StartTry, gitVars, refVars,
     fileVars, envVars
<1>31. CASE PromptDelivered
  BY <1>31, FinishType DEF PromptDelivered, At, gitVars, refVars, fileVars, dbVars, envVars
<1>32. CASE StartFails
  BY <1>32, GotoType DEF StartFails, Pc, DirectTry, StartTry, gitVars, refVars, fileVars,
     dbVars, envVars
<1>33. CASE AbortRestore
  BY <1>33, <1>b, RestoreType, GotoType DEF AbortRestore, At, cur, task, Pc, DirectTry,
     StartTry, refVars, fileVars, dbVars, envVars
<1>34. CASE AbortUnlock
  BY <1>34, <1>b, ReleaseType, GotoType DEF AbortUnlock, At, cur, task, Pc, DirectTry,
     StartTry, gitVars, refVars, fileVars, envVars
<1>35. CASE AbortClean
  BY <1>35, <1>b, TransitionType, FinishType DEF AbortClean, At, cur, SessionState,
     READY_TO_INTEGRATE_STATES, LEGACY_RECOVERY_STATES, ACTIVE_INTEGRATION_STATES,
     LEGACY_IDLE_STATES, MaybeTask, NoTask, gitVars, refVars, fileVars, envVars
<1>36. CASE NormalizeActiveTask
  BY <1>36, <1>b, TransitionType DEF NormalizeActiveTask, At, cur, task, SessionState,
     READY_TO_INTEGRATE_STATES, LEGACY_RECOVERY_STATES, ACTIVE_INTEGRATION_STATES,
     LEGACY_IDLE_STATES, MaybeTask, NoTask, Request, Pc, gitVars, refVars, fileVars, envVars
<1>37. CASE CheckCandidate
  BY <1>37, <1>b, TransitionType, RequestFields, GotoType DEF CheckCandidate, At, cur, task,
     SessionState, READY_TO_INTEGRATE_STATES, LEGACY_RECOVERY_STATES,
     ACTIVE_INTEGRATION_STATES, LEGACY_IDLE_STATES, MaybeTask, NoTask, Pc, DirectTry, StartTry,
     gitVars, refVars, fileVars, envVars
<1>38. CASE CheckRefuses
  BY <1>38, <1>b, TransitionType, RequestFields, FinishType DEF CheckRefuses, At, cur, task,
     SessionState, READY_TO_INTEGRATE_STATES, LEGACY_RECOVERY_STATES,
     ACTIVE_INTEGRATION_STATES, LEGACY_IDLE_STATES, MaybeTask, NoTask, gitVars, refVars,
     fileVars, envVars
<1>39. CASE VerifyReport
  BY <1>39, <1>b, TransitionType, RequestFields, GotoType, FinishType DEF VerifyReport, At,
     cur, task, SessionState, READY_TO_INTEGRATE_STATES, LEGACY_RECOVERY_STATES,
     ACTIVE_INTEGRATION_STATES, LEGACY_IDLE_STATES, MaybeTask, NoTask, Pc, DirectTry, StartTry,
     gitVars, refVars, fileVars, envVars
<1>40. CASE VerifyWithoutReport
  BY <1>40, <1>b, TransitionType, FinishType DEF VerifyWithoutReport, At, cur, task,
     SessionState, READY_TO_INTEGRATE_STATES, LEGACY_RECOVERY_STATES,
     ACTIVE_INTEGRATION_STATES, LEGACY_IDLE_STATES, MaybeTask, NoTask, gitVars, refVars,
     fileVars, envVars
<1>41. CASE Preflight
  BY <1>41, GotoType, FinishType DEF Preflight, At, Pc, DirectTry, StartTry, gitVars, refVars,
     fileVars, dbVars, envVars
<1> QED BY <1>1, <1>2, <1>3, <1>4, <1>5, <1>6, <1>7, <1>8, <1>9, <1>10, <1>11, <1>12, <1>13,
     <1>14, <1>15, <1>16, <1>17, <1>18, <1>19, <1>20, <1>21, <1>22, <1>23, <1>24, <1>25, <1>26,
     <1>27, <1>28, <1>29, <1>30, <1>31, <1>32, <1>33, <1>34, <1>35, <1>36, <1>37, <1>38, <1>39,
     <1>40, <1>41 DEF HandlerStep

-----------------------------------------------------------------------------
(* The steps outside the handler.                                          *)

\* A request is admitted, or its session's old row is tidied up.
LEMMA ReadyToIntegrateType ==
    ASSUME TypeOK, Shape, NEW s \in Sessions, ReadyToIntegrate(s)
    PROVE  TypeOK' /\ Shape'
<1> USE DEF TypeOK, Shape
<1>1. Baseline(s) \in MaybeCommit
  BY DEF Baseline, MaybeCommit
<1>2. lastSeen' \in [Sessions -> MaybeCommit]
  BY <1>1, UpdateLastSeenMainType DEF ReadyToIntegrate
<1>3. row' \in [Sessions -> Row]
  BY DEF ReadyToIntegrate, Row, SessionState, READY_TO_INTEGRATE_STATES
<1>4. Work(s) \in Commit
  BY WorkType
<1>5. /\ req' \in Request
      /\ req'.pc \in {"idle", "direct", "catchup"}
      /\ req'.pc # "idle" => req'.cur \in Sessions
  <2>1. CASE req' = req
    BY <2>1 DEF ReadyToIntegrate, At
  <2>2. ASSUME NEW pc \in {"direct", "catchup"},
               req' = [Idle EXCEPT !.pc = pc, !.cur = s, !.asked = Work(s)]
        PROVE  req' \in Request /\ req'.pc = pc /\ req'.cur = s
    BY <1>4, <2>2, IdleType DEF Idle, Request, Pc, MaybeSession
  <2> QED
    BY <2>1, <2>2 DEF ReadyToIntegrate
<1>6. used' = used /\ rec' = rec /\ used.tasks + 2 <= MaxTasks
  BY DEF ReadyToIntegrate, envVars
<1>7. TypeOK'
  BY <1>2, <1>3, <1>5 DEF ReadyToIntegrate, gitVars, refVars, fileVars, envVars
<1>8. Shape'
  BY <1>5, <1>6 DEF TaskToRecover, OwnsLock
<1> QED BY <1>7, <1>8

\* Codex's candidate is asked to be published.
LEMMA FusionDoneType ==
    ASSUME TypeOK, Shape, NEW s \in Sessions, FusionDone(s)
    PROVE  TypeOK' /\ Shape'
<1> USE DEF TypeOK, Shape
<1>1. row[s].task \in Task
  BY DEF FusionDone, Row, MaybeTask
<1>2. lock' \in Lock
  BY <1>1 DEF FusionDone, LockOf, Lock
<1>3. req' \in Request /\ req'.pc = "normalize" /\ req'.cur = s /\ req'.task = row[s].task
  BY <1>1, IdleType DEF FusionDone, Idle, Request, Pc, MaybeSession, MaybeTask
<1>4. TypeOK'
  BY <1>2, <1>3 DEF FusionDone, gitVars, refVars, fileVars, envVars
<1>5. Shape'
  BY <1>1, <1>3 DEF FusionDone, envVars, TaskToRecover, OwnsLock
<1> QED BY <1>4, <1>5

\* No recovery is a recovery.
LEMMA NotRecoveringType == NotRecovering \in Recovery
BY DEF NotRecovering, Recovery, MaybeSession, Lock, NoLock, Row, SessionState,
   READY_TO_INTEGRATE_STATES, MaybeTask, NoTask

\* A daemon starts its recovery, with or without another one beside it.
LEMMA BootType ==
    ASSUME TypeOK, Shape, Boot \/ SecondDaemon
    PROVE  TypeOK' /\ Shape'
<1> USE DEF TypeOK, Shape
<1>1. /\ StartRecovery
      /\ UNCHANGED <<gitVars, refVars, fileVars, dbVars, up, req, joining>>
      /\ used' \in Usage /\ used'.tasks = used.tasks
  BY ConstantsAssumption DEF Boot, SecondDaemon, StartRecovery, Usage
<1>2. rec' \in Recovery /\ rec'.pc = "scan"
  BY <1>1 DEF StartRecovery, Recovery, NotRecovering, MaybeSession
<1> QED
  BY <1>1, <1>2 DEF gitVars, refVars, fileVars, dbVars

\* A backup is a commit.
LEMMA CreateBackupRefType ==
    ASSUME TypeOK, NEW s \in Sessions, CreateBackupRef(s)
    PROVE  backups' \subseteq Commit
BY WorkType DEF TypeOK, CreateBackupRef

\* A recovery that goes on to the next session is at its scan.
LEMMA NextSessionType ==
    ASSUME rec \in Recovery, NEW s, NextSession(s)
    PROVE  rec' \in Recovery /\ rec'.pc = "scan"
BY DEF NextSession, Recovery, MaybeSession

\* A recovery finds a task, or none.
LEMMA TaskToRecoverType ==
    ASSUME rec \in Recovery, NEW s \in Sessions
    PROVE  TaskToRecover(s) \in MaybeTask
BY DEF TaskToRecover, Recovery, Lock, NoLock, Row, MaybeTask

\* A step of the recovery.
LEMMA RecoveryType ==
    ASSUME TypeOK, Shape, RecoveryStep
    PROVE  TypeOK' /\ Shape'
<1> USE DEF TypeOK, Shape
<1>1. ASSUME NEW s \in Sessions, AdoptLockTask(s) PROVE TypeOK' /\ Shape'
  <2>1. rec.lock.task \in MaybeTask
    BY DEF Recovery, Lock, NoLock, MaybeTask
  <2>2. row' \in [Sessions -> Row]
    BY <1>1, <2>1, TransitionType DEF AdoptLockTask, SessionState, LEGACY_RECOVERY_STATES,
       ACTIVE_INTEGRATION_STATES
  <2>3. rec' \in Recovery /\ rec'.pc = "scan" /\ backups' \subseteq Commit
    BY <1>1, NextSessionType, CreateBackupRefType DEF AdoptLockTask
  <2> QED
    BY <1>1, <2>2, <2>3 DEF AdoptLockTask, gitVars, fileVars
<1>2. ASSUME NEW s \in Sessions, ClearIdleRow(s) PROVE TypeOK' /\ Shape'
  <2>1. row' \in [Sessions -> Row]
    BY <1>2, TransitionType DEF ClearIdleRow, SessionState, READY_TO_INTEGRATE_STATES,
       MaybeTask
  <2>2. rec' \in Recovery /\ rec'.pc = "scan"
    BY <1>2, NextSessionType DEF ClearIdleRow
  <2> QED
    BY <1>2, <2>1, <2>2 DEF ClearIdleRow, gitVars, refVars, fileVars
<1>3. ASSUME NEW s \in Sessions, ResumeTask(s) PROVE TypeOK' /\ Shape'
  <2>1. row' \in [Sessions -> Row]
    BY <1>3, TransitionType, TaskToRecoverType DEF ResumeTask, SessionState,
       LEGACY_RECOVERY_STATES, ACTIVE_INTEGRATION_STATES
  <2>2. rec' \in Recovery /\ rec'.pc = "scan"
    BY <1>3, NextSessionType DEF ResumeTask
  <2> QED
    BY <1>3, <2>1, <2>2 DEF ResumeTask, gitVars, refVars, fileVars
<1>4. ASSUME NEW s \in Sessions, BackUpTask(s) PROVE TypeOK' /\ Shape'
  <2>1. TaskToRecover(s) \in Task
    BY <1>4, TaskToRecoverType DEF BackUpTask, MaybeTask
  <2>2. rec' = [rec EXCEPT !.pc = "restore", !.cur = s]
    BY <1>4 DEF BackUpTask
  <2>3. rec' \in Recovery /\ rec'.cur = s /\ rec'.lock = rec.lock /\ rec'.rows = rec.rows
    BY <2>2 DEF Recovery, MaybeSession
  <2>4. rec'.cur \in Sessions /\ TaskToRecover(rec.cur)' \in Task
    BY <2>1, <2>3 DEF TaskToRecover, OwnsLock
  <2>5. backups' \subseteq Commit
    BY <1>4, CreateBackupRefType DEF BackUpTask
  <2> QED
    BY <1>4, <2>3, <2>4, <2>5 DEF BackUpTask, gitVars, fileVars, dbVars
<1>5. ASSUME NEW s \in Sessions, BackupFails(s) PROVE TypeOK' /\ Shape'
  <2>1. rec.rows[s].task \in MaybeTask
    BY DEF Recovery, Row
  <2>2. row' \in [Sessions -> Row]
    BY <1>5, <2>1, TransitionType, TaskToRecoverType DEF BackupFails, SessionState,
       LEGACY_RECOVERY_STATES, ACTIVE_INTEGRATION_STATES
  <2>3. rec' \in Recovery /\ rec'.pc = "scan"
    BY <1>5, NextSessionType DEF BackupFails
  <2>4. used' \in Usage /\ used'.tasks = used.tasks
    BY <1>5, ConstantsAssumption DEF BackupFails, Usage
  <2> QED
    BY <1>5, <2>2, <2>3, <2>4 DEF BackupFails, gitVars, refVars, fileVars
<1>6. CASE RecoverRestore
  <2>1. head' \in [Sessions -> Commit] /\ dirty' \in [Sessions -> Commit]
    BY <1>6, RestoreType DEF RecoverRestore
  <2>2. rec' \in Recovery /\ rec'.cur = rec.cur /\ rec'.lock = rec.lock /\ rec'.rows = rec.rows
    BY <1>6 DEF RecoverRestore, GotoRecovery, Recovery
  <2> QED
    BY <1>6, <2>1, <2>2 DEF RecoverRestore, refVars, fileVars, dbVars, TaskToRecover, OwnsLock
<1>7. CASE RecoverUnlock
  <2>1. lock' \in Lock
    BY <1>7 DEF RecoverUnlock, Lock
  <2>2. rec' \in Recovery /\ rec'.cur = rec.cur /\ rec'.lock = rec.lock /\ rec'.rows = rec.rows
    BY <1>7 DEF RecoverUnlock, GotoRecovery, Recovery
  <2> QED
    BY <1>7, <2>1, <2>2 DEF RecoverUnlock, gitVars, refVars, fileVars, TaskToRecover, OwnsLock
<1>8. CASE RecoverClean
  <2>1. row' \in [Sessions -> Row]
    BY <1>8, TransitionType DEF RecoverClean, SessionState, READY_TO_INTEGRATE_STATES,
       MaybeTask
  <2>2. rec' \in Recovery /\ rec'.pc = "scan"
    BY <1>8, NextSessionType DEF RecoverClean
  <2> QED
    BY <1>8, <2>1, <2>2 DEF RecoverClean, gitVars, refVars, fileVars
<1>9. CASE RecoveryDone
  BY <1>9, NotRecoveringType DEF RecoveryDone, NotRecovering, gitVars, refVars, fileVars,
     dbVars
<1> QED
  BY <1>1, <1>2, <1>3, <1>4, <1>5, <1>6, <1>7, <1>8, <1>9 DEF RecoveryStep

\* The daemon dies.
LEMMA CrashType ==
    ASSUME TypeOK, Shape, Crash
    PROVE  TypeOK' /\ Shape'
<1>1. used' \in Usage /\ used'.tasks = used.tasks
  BY ConstantsAssumption DEF Crash, Usage, TypeOK
<1>2. req' \in {req, Idle} /\ rec' \in {rec, NotRecovering} /\ up' \in BOOLEAN
  BY DEF Crash, TypeOK
<1>3. req' \in Request /\ rec' \in Recovery
  BY <1>2, IdleType, NotRecoveringType DEF TypeOK
<1>4. UNCHANGED <<gitVars, refVars, fileVars, dbVars, joining>>
  BY DEF Crash
<1>5. TypeOK'
  BY <1>1, <1>2, <1>3, <1>4 DEF TypeOK, gitVars, refVars, fileVars, dbVars
<1>6. /\ req'.pc # "idle" => req' = req
      /\ rec'.pc # "off" => rec' = rec
  BY <1>2 DEF Idle, NotRecovering
<1>7. \A s \in Sessions : rec' = rec => TaskToRecover(s)' = TaskToRecover(s)
  BY <1>4 DEF TaskToRecover, OwnsLock, gitVars, dbVars
<1> QED
  BY <1>1, <1>2, <1>5, <1>6, <1>7 DEF Shape, Idle, NotRecovering

\* `cocodex join`, the developers, and other writers of main.
LEMMA JoinType ==
    ASSUME TypeOK, Shape, JoinStep
    PROVE  TypeOK' /\ Shape'
<1> USE DEF TypeOK, Shape
<1>1. NotJoining \in Joining
  BY DEF NotJoining, Joining, MaybeSession, MaybeTask
<1>2. ASSUME NEW s \in Sessions, JoinRead(s) PROVE TypeOK' /\ Shape'
  <2>1. used' \in Usage /\ used'.tasks = used.tasks
    BY <1>2, ConstantsAssumption DEF JoinRead, Usage
  <2>2. joining' \in Joining
    BY <1>2 DEF JoinRead, Joining, MaybeSession, Row
  <2> QED
    BY <1>2, <2>1, <2>2 DEF JoinRead, gitVars, refVars, fileVars, dbVars, TaskToRecover,
       OwnsLock
<1>3. CASE JoinCheck
  <2>1. joining' \in Joining
    BY <1>1, <1>3 DEF JoinCheck, Joining
  <2> QED
    BY <1>3, <2>1 DEF JoinCheck, gitVars, refVars, fileVars, dbVars, TaskToRecover, OwnsLock
<1>4. CASE JoinWrite
  <2>1. row' \in [Sessions -> Row]
    BY <1>4, TransitionType DEF JoinWrite, Joining, SessionState, READY_TO_INTEGRATE_STATES,
       LEGACY_RECOVERY_STATES, ACTIVE_INTEGRATION_STATES
  <2> QED
    BY <1>1, <1>4, <2>1 DEF JoinWrite, gitVars, refVars, fileVars, TaskToRecover, OwnsLock
<1> QED
  BY <1>2, <1>3, <1>4 DEF JoinStep

\* Developers, Codex, and other writers of main.
LEMMA EnvironmentType ==
    ASSUME TypeOK, Shape, (\E s \in Sessions : DeveloperStep(s)) \/ ExternalMain
    PROVE  TypeOK' /\ Shape'
<1> USE DEF TypeOK, Shape
<1>1. ASSUME NEW s \in Sessions, Edit(s) PROVE TypeOK' /\ Shape'
  <2>1. used' \in Usage /\ used'.tasks = used.tasks
    BY <1>1, ConstantsAssumption DEF Edit, Usage
  <2>2. <<"edit", used.edits + 1>> \in Atom
    BY ConstantsAssumption DEF Usage, Atom
  <2>3. dirty' \in [Sessions -> Commit]
    BY <1>1, <2>2 DEF Edit, Commit
  <2> QED
    BY <1>1, <2>1, <2>3 DEF Edit, refVars, fileVars, dbVars, TaskToRecover, OwnsLock
<1>2. ASSUME NEW s \in Sessions, CommitWork(s) PROVE TypeOK' /\ Shape'
  <2>1. head' \in [Sessions -> Commit] /\ dirty' \in [Sessions -> Commit]
    BY <1>2, CommitAllType DEF CommitWork
  <2> QED
    BY <1>2, <2>1 DEF CommitWork, refVars, fileVars, dbVars, TaskToRecover, OwnsLock
<1>3. ASSUME NEW s \in Sessions, CommitCandidate(s) PROVE TypeOK' /\ Shape'
  <2>1. row[s].task \in Task
    BY <1>3 DEF CommitCandidate, HasPrompt
  <2>2. <<"candidate", row[s].task>> \in Atom
    BY <2>1 DEF Atom, Task
  <2>3. Work(s) \cup {<<"candidate", row[s].task>>} \in Commit /\ {} \in Commit
    BY <2>2, WorkType DEF Commit
  <2>4. head' \in [Sessions -> Commit] /\ dirty' \in [Sessions -> Commit]
    BY <1>3, <2>3 DEF CommitCandidate
  <2> QED
    BY <1>3, <2>4 DEF CommitCandidate, refVars, fileVars, dbVars, TaskToRecover, OwnsLock
<1>4. ASSUME NEW s \in Sessions, WriteReport(s) PROVE TypeOK' /\ Shape'
  BY <1>4 DEF WriteReport, HasPrompt, gitVars, refVars, dbVars, TaskToRecover, OwnsLock
<1>5. CASE ExternalMain
  <2>1. used' \in Usage /\ used'.tasks = used.tasks
    BY <1>5, ConstantsAssumption DEF ExternalMain, Usage
  <2>2. <<"external", used.external + 1>> \in Atom
    BY ConstantsAssumption DEF Usage, Atom
  <2>3. main' \in Commit
    BY <1>5, <2>2 DEF ExternalMain, Commit
  <2> QED
    BY <1>5, <2>1, <2>3 DEF ExternalMain, refVars, fileVars, dbVars, TaskToRecover, OwnsLock
<1> QED
  BY <1>1, <1>2, <1>3, <1>4, <1>5 DEF DeveloperStep

-----------------------------------------------------------------------------

\* Initially the types and the shape hold.
LEMMA InitType == Init => TypeOK /\ Shape
<1> SUFFICES ASSUME Init PROVE TypeOK /\ Shape
  OBVIOUS
<1>1. InitialRow \subseteq Row
  BY DEF InitialRow, Row, SessionState, LEGACY_RECOVERY_STATES, MaybeTask
<1>2. [state |-> "clean", task |-> NoTask] \in Row
  BY DEF Row, SessionState, READY_TO_INTEGRATE_STATES, MaybeTask
<1>3. row \in [Sessions -> Row]
  BY <1>1, <1>2 DEF Init
<1>4. Root \in Commit /\ {Root, NoCommit} \subseteq MaybeCommit
  BY DEF Root, Commit, MaybeCommit
<1>5. lastSeen \in [Sessions -> MaybeCommit]
  BY <1>4 DEF Init
<1>6. used \in Usage
  BY ConstantsAssumption DEF Init, Usage
<1>7. NotJoining \in Joining /\ NoLock \in Lock
  BY DEF NotJoining, Joining, MaybeSession, MaybeTask, Lock
<1>8. req.pc = "idle" /\ rec.pc = "off"
  BY DEF Init, Idle, NotRecovering
<1>9. {} \in Commit /\ NoCommit \in MaybeCommit
  BY DEF Commit, MaybeCommit
<1>10. TypeOK
  BY <1>3, <1>4, <1>5, <1>6, <1>7, <1>9, IdleType, NotRecoveringType DEF Init, TypeOK
<1> QED
  BY <1>8, <1>10 DEF Shape

\* They are inductive.
LEMMA NextType ==
    ASSUME TypeOK, Shape, [Next]_vars
    PROVE  TypeOK' /\ Shape'
<1>1. CASE UNCHANGED vars
  BY <1>1 DEF vars, TypeOK, Shape, TaskToRecover, OwnsLock
<1>2. CASE Next
  BY <1>2, HandlerType, HandlerShape, RecoveryType, BootType, CrashType, JoinType,
     ReadyToIntegrateType, FusionDoneType, EnvironmentType DEF Next
<1> QED
  BY <1>1, <1>2

\* Type correctness, with the shape of requests and recoveries it rests on.
THEOREM TypeCorrect == Spec => [](TypeOK /\ Shape)
<1>1. Init => TypeOK /\ Shape
  BY InitType
<1>2. TypeOK /\ Shape /\ [Next]_vars => (TypeOK /\ Shape)'
  BY NextType
<1> QED
  BY <1>1, <1>2, PTL DEF Spec
=============================================================================
