-------------------------- MODULE SyncSerialProofs --------------------------
(***************************************************************************)
(* Main is serial.  The argument: requests and recoveries never run side   *)
(* by side (RequestsAlone), so between taking the lock and giving it back  *)
(* the handler is the only one that can touch it (HandlerHoldsLock); its   *)
(* candidate stays in the session's branch, which only grows while the     *)
(* candidate is under way (CandidateIsOwn); and what has been checked when *)
(* main is forced still holds (ForcedForward).  Each publication is then a *)
(* Publish step of SerialMain by the owner of the lock.                    *)
(*                                                                         *)
(* A second daemon (MaxSecond > 0) can take the lock away, and where main  *)
(* is not checked out, somebody else on main (MaxExternal > 0) can come    *)
(* between the check and the move: section 3.5 of the README.              *)
(***************************************************************************)
EXTENDS SyncTypeProofs

\* The parts of SerialInv that do not depend on who else moves main.
HoldInv == RequestsAlone /\ HandlerHoldsLock /\ CandidateIsOwn

\* A step of the handler keeps the lock it holds and the candidate it carries.
LEMMA HandlerHolds ==
    ASSUME TypeOK, Shape, HoldInv, HandlerStep
    PROVE  HoldInv'
<1> USE DEF HoldInv, RequestsAlone, HandlerHoldsLock, NotHolding, CandidateIsOwn
<1>a. req \in Request /\ req.cand \in Commit /\ req.latest \in Commit /\ main \in Commit
  BY RequestFields DEF TypeOK
<1>b. req.pc # "idle" => /\ req.cur \in Sessions
                        /\ head[req.cur] \in Commit
                        /\ Work(req.cur) \in Commit
                        /\ IsAncestor(head[req.cur], Work(req.cur))
  BY WorkType DEF TypeOK, Shape, Work, CommitOf, IsAncestor
<1>c. head \in [Sessions -> Commit]
  BY DEF TypeOK
<1>1. CASE CatchUpNothing
  BY <1>a, <1>1, FinishType, <1>b, <1>c DEF CatchUpNothing, At, envVars, cur, IsAncestor,
     gitVars, refVars, fileVars
<1>2. CASE CatchUpFastForward
  BY <1>a, <1>2, GotoWithLatestType, FinishType, <1>b, <1>c DEF CatchUpFastForward, At,
     envVars, cur, Pc, DirectTry, StartTry, IsAncestor, refVars, fileVars, dbVars
<1>3. CASE CaughtUp
  BY <1>a, <1>3, FinishType DEF CaughtUp, At, envVars, cur, gitVars, refVars, fileVars
<1>4. CASE DirectLock
  BY <1>a, <1>4, <1>b, <1>c DEF DirectLock, At, envVars, cur, task, Request, IsAncestor,
     LockOf, gitVars, refVars, fileVars
<1>5. CASE DirectDecline
  BY <1>a, <1>5, GotoType, FinishType DEF DirectDecline, At, envVars, Pc, DirectTry,
     StartTry, gitVars, refVars, fileVars, dbVars
<1>6. CASE DirectRecheck
  BY <1>a, <1>6, GotoWithLatestType, GotoType DEF DirectRecheck, At, envVars, cur, task, Pc,
     DirectTry, StartTry, gitVars, refVars, fileVars
<1>7. CASE DirectCommit
  BY <1>a, <1>7, GotoWithCandidateType, GotoType, <1>b, <1>c DEF DirectCommit, At, envVars,
     cur, Pc, DirectTry, StartTry, IsAncestor, CommitAll, refVars, fileVars, dbVars
<1>8. CASE DirectCompare
  BY <1>a, <1>8, GotoType DEF DirectCompare, At, envVars, cur, Pc, DirectTry, StartTry,
     gitVars, refVars, fileVars
<1>9. CASE DirectFails
  BY <1>a, <1>9, GotoType DEF DirectFails, At, envVars, cur, Pc, DirectTry, StartTry,
     gitVars, refVars, fileVars
<1>10. CASE DirectUnlock
  BY <1>a, <1>10, GotoType, FinishType DEF DirectUnlock, At, envVars, cur, task, Pc,
     DirectTry, StartTry, ReleaseLockIfOwned, gitVars, refVars, fileVars
<1>11. CASE ForwardMain
  BY <1>a, <1>11, GotoType DEF ForwardMain, At, envVars, Pc, DirectTry, StartTry, refVars,
     fileVars, dbVars
<1>12. CASE ForceMain
  BY <1>a, <1>12, GotoType DEF ForceMain, At, envVars, Pc, DirectTry, StartTry, refVars,
     fileVars, dbVars
<1>13. CASE ForwardRefused
  BY <1>a, <1>13, GotoType, FinishType DEF ForwardRefused, At, envVars, cur, task, Pc,
     DirectTry, StartTry, gitVars, refVars, fileVars
<1>14. CASE PublishedClean
  BY <1>a, <1>14, GotoType DEF PublishedClean, At, envVars, cur, Pc, DirectTry, StartTry,
     gitVars, refVars, fileVars
<1>15. CASE PublishedSeen
  BY <1>a, <1>15, GotoType DEF PublishedSeen, At, envVars, cur, Pc, DirectTry, StartTry,
     gitVars, refVars, fileVars
<1>16. CASE PublishedRelease
  BY <1>a, <1>16, FinishType DEF PublishedRelease, At, envVars, cur, task,
     ReleaseLockIfOwned, gitVars, refVars, fileVars
<1>17. CASE ClaimIntegrationTask
  BY <1>a, <1>17 DEF ClaimIntegrationTask, At, envVars, cur, task, Request, LockOf, gitVars,
     refVars, fileVars
<1>18. CASE StartRefused
  BY <1>a, <1>18, FinishType DEF StartRefused, At, envVars, gitVars, refVars, fileVars,
     dbVars
<1>19. CASE FreezeAcknowledged
  BY <1>a, <1>19, GotoType DEF FreezeAcknowledged, At, envVars, cur, task, Pc, DirectTry,
     StartTry, gitVars, refVars, fileVars
<1>20. CASE PrepareLockedSync
  BY <1>a, <1>20, GotoType DEF PrepareLockedSync, At, envVars, cur, task, Pc, DirectTry,
     StartTry, gitVars, refVars, fileVars
<1>21. CASE Snapshot
  BY <1>a, <1>21, <1>b, <1>c DEF Snapshot, At, envVars, cur, Request, IsAncestor, CommitAll,
     refVars, fileVars, dbVars
<1>22. CASE SnapshotRef
  BY <1>a, <1>22, GotoType DEF SnapshotRef, At, envVars, task, Pc, DirectTry, StartTry,
     gitVars, fileVars, dbVars
<1>23. CASE BaseRef
  BY <1>a, <1>23, GotoType DEF BaseRef, At, envVars, task, Pc, DirectTry, StartTry, gitVars,
     fileVars, dbVars
<1>24. CASE MergeBegin
  BY <1>a, <1>24, GotoType DEF MergeBegin, At, envVars, cur, task, Pc, DirectTry, StartTry,
     gitVars, refVars, fileVars
<1>25. CASE GitMerge
  BY <1>a, <1>25, GotoType, <1>b, <1>c DEF GitMerge, At, envVars, cur, task, Pc, DirectTry,
     StartTry, IsAncestor, refVars, fileVars, dbVars
<1>26. CASE ValidateMerge
  BY <1>a, <1>26, GotoWithCandidateType, GotoType, <1>b, <1>c DEF ValidateMerge, At,
     envVars, cur, task, Pc, DirectTry, StartTry, IsAncestor, gitVars, refVars, fileVars,
     dbVars
<1>27. CASE MergeUnlock
  BY <1>a, <1>27, GotoType DEF MergeUnlock, At, envVars, cur, task, Pc, DirectTry, StartTry,
     ReleaseLockIfOwned, gitVars, refVars, fileVars
<1>28. CASE ResetToLatest
  BY <1>a, <1>28, GotoType, <1>b, <1>c DEF ResetToLatest, At, envVars, cur, Pc, DirectTry,
     StartTry, IsAncestor, refVars, fileVars, dbVars
<1>29. CASE WriteTaskFile
  BY <1>a, <1>29, GotoType DEF WriteTaskFile, At, envVars, task, Pc, DirectTry, StartTry,
     gitVars, refVars, dbVars
<1>30. CASE Fusing
  BY <1>a, <1>30, GotoType DEF Fusing, At, envVars, cur, task, Pc, DirectTry, StartTry,
     gitVars, refVars, fileVars
<1>31. CASE PromptDelivered
  BY <1>a, <1>31, FinishType DEF PromptDelivered, At, envVars, gitVars, refVars, fileVars,
     dbVars
<1>32. CASE StartFails
  BY <1>a, <1>32, GotoType DEF StartFails, At, envVars, Pc, DirectTry, StartTry, gitVars,
     refVars, fileVars, dbVars
<1>33. CASE AbortRestore
  BY <1>a, <1>33, GotoType, <1>b, <1>c DEF AbortRestore, At, envVars, cur, task, Pc,
     DirectTry, StartTry, IsAncestor, refVars, fileVars, dbVars
<1>34. CASE AbortUnlock
  BY <1>a, <1>34, GotoType DEF AbortUnlock, At, envVars, cur, task, Pc, DirectTry, StartTry,
     ReleaseLockIfOwned, gitVars, refVars, fileVars
<1>35. CASE AbortClean
  BY <1>a, <1>35, FinishType DEF AbortClean, At, envVars, cur, gitVars, refVars, fileVars
<1>36. CASE NormalizeActiveTask
  BY <1>a, <1>36, <1>b, <1>c DEF NormalizeActiveTask, At, envVars, cur, task, Request,
     IsAncestor, gitVars, refVars, fileVars
<1>37. CASE CheckCandidate
  BY <1>a, <1>37, GotoType, <1>b, <1>c DEF CheckCandidate, At, envVars, cur, task, Pc,
     DirectTry, StartTry, IsAncestor, gitVars, refVars, fileVars
<1>38. CASE CheckRefuses
  BY <1>a, <1>38, FinishType, <1>b, <1>c DEF CheckRefuses, At, envVars, cur, task,
     IsAncestor, gitVars, refVars, fileVars
<1>39. CASE VerifyReport
  BY <1>a, <1>39, GotoType, FinishType, <1>b, <1>c DEF VerifyReport, At, envVars, cur, task,
     Pc, DirectTry, StartTry, IsAncestor, gitVars, refVars, fileVars
<1>40. CASE VerifyWithoutReport
  BY <1>a, <1>40, FinishType DEF VerifyWithoutReport, At, envVars, cur, task, gitVars,
     refVars, fileVars
<1>41. CASE Preflight
  BY <1>a, <1>41, GotoType, FinishType DEF Preflight, At, envVars, Pc, DirectTry, StartTry,
     gitVars, refVars, fileVars, dbVars
<1> QED
  BY <1>1, <1>2, <1>3, <1>4, <1>5, <1>6, <1>7, <1>8, <1>9, <1>10, <1>11, <1>12, <1>13,
     <1>14, <1>15, <1>16, <1>17, <1>18, <1>19, <1>20, <1>21, <1>22, <1>23, <1>24, <1>25,
     <1>26, <1>27, <1>28, <1>29, <1>30, <1>31, <1>32, <1>33, <1>34, <1>35, <1>36, <1>37,
     <1>38, <1>39, <1>40, <1>41 DEF HandlerStep

-----------------------------------------------------------------------------
(* The steps outside the handler.                                          *)

\* What happens while a request is being worked on, apart from its handler,
\* leaves the lock, the request and main alone, and branches only grow.
LEMMA BesideHolds ==
    ASSUME TypeOK, Shape, HoldInv,
           JoinStep \/ (\E s \in Sessions : DeveloperStep(s))
    PROVE  HoldInv'
<1> USE DEF HoldInv, RequestsAlone, HandlerHoldsLock, NotHolding, CandidateIsOwn
<1>1. UNCHANGED <<main, lock, req, rec, up>>
  BY DEF JoinStep, JoinRead, JoinCheck, JoinWrite, DeveloperStep, Edit, CommitWork,
         CommitCandidate, WriteReport, gitVars, dbVars
<1>2. \A s \in Sessions : IsAncestor(head[s], head'[s])
  <2>1. CASE JoinStep
    BY <2>1 DEF JoinStep, JoinRead, JoinCheck, JoinWrite, gitVars, IsAncestor
  <2>2. ASSUME NEW s \in Sessions, Edit(s) \/ WriteReport(s)
        PROVE  head' = head
    BY <2>2 DEF Edit, WriteReport, gitVars
  <2>3. ASSUME NEW s \in Sessions, CommitWork(s) \/ CommitCandidate(s)
        PROVE  \A r \in Sessions : IsAncestor(head[r], head'[r])
    BY <2>3 DEF TypeOK, CommitWork, CommitCandidate, CommitAll, Work, CommitOf, IsAncestor
  <2> QED
    BY <2>1, <2>2, <2>3 DEF DeveloperStep, IsAncestor
<1>3. req.pc # "idle" => req.cur \in Sessions
  BY DEF Shape
<1> QED
  BY <1>1, <1>2, <1>3 DEF IsAncestor

\* With one daemon at a time, so does every step.
LEMMA NextHolds ==
    ASSUME MaxSecond = 0, TypeOK, Shape, HoldInv, [Next]_vars
    PROVE  HoldInv'
<1> USE DEF HoldInv, RequestsAlone, HandlerHoldsLock, NotHolding, CandidateIsOwn
<1>1. CASE UNCHANGED vars
  BY <1>1 DEF vars
<1>2. CASE HandlerStep
  BY <1>2, HandlerHolds
<1>3. CASE RecoveryStep
  <2>1. rec.pc # "off"
    BY <1>3 DEF RecoveryStep, AdoptLockTask, ClearIdleRow, ResumeTask, BackUpTask, BackupFails,
       RecoverRestore, RecoverUnlock, RecoverClean, RecoveryDone, Scanning
  <2>2. req.pc = "idle" /\ ~up
    BY <2>1
  <2>3. UNCHANGED req /\ (RecoveryDone \/ UNCHANGED up)
    BY <1>3 DEF RecoveryStep, AdoptLockTask, ClearIdleRow, ResumeTask, BackUpTask,
       BackupFails, RecoverRestore, RecoverUnlock, RecoverClean, RecoveryDone
  <2>4. RecoveryDone => rec'.pc = "off"
    BY DEF RecoveryDone, NotRecovering
  <2> QED
    BY <2>2, <2>3, <2>4
<1>4. CASE Boot
  BY <1>4 DEF Boot, StartRecovery, gitVars, dbVars
<1>5. CASE SecondDaemon
  BY <1>5 DEF SecondDaemon, TypeOK, Usage
<1>6. CASE Crash
  <2>1. req' \in {req, Idle} /\ rec' \in {rec, NotRecovering} /\ UNCHANGED <<lock, head>>
    BY <1>6 DEF Crash, dbVars, gitVars
  <2>2. Idle.pc = "idle" /\ NotRecovering.pc = "off"
    BY DEF Idle, NotRecovering
  <2>3. RequestsAlone'
    BY <1>6, <2>2 DEF Crash
  <2> QED
    BY <2>1, <2>2, <2>3
<1>7. CASE JoinStep \/ \E s \in Sessions : DeveloperStep(s)
  BY <1>7, BesideHolds
<1>8. ASSUME NEW s \in Sessions, ReadyToIntegrate(s) PROVE HoldInv'
  <2>1. req'.pc \in {"idle", "direct", "catchup"}
    BY <1>8 DEF ReadyToIntegrate, At, Idle
  <2> QED
    BY <1>8, <2>1 DEF ReadyToIntegrate, envVars
<1>9. ASSUME NEW s \in Sessions, FusionDone(s) PROVE HoldInv'
  BY <1>9 DEF FusionDone, Idle, envVars
<1>10. CASE ExternalMain
  BY <1>10 DEF ExternalMain, dbVars
<1> QED
  BY <1>1, <1>2, <1>3, <1>4, <1>5, <1>6, <1>7, <1>8, <1>9, <1>10 DEF Next

-----------------------------------------------------------------------------
(* Main never goes back.                                                   *)

\* Wherever a step of the handler goes, it says so.
LEMMA GotoPc ==
    ASSUME req \in Request, NEW pc
    PROVE  /\ Goto(pc) => req'.pc = pc
           /\ \A c : GotoWithLatest(pc, c) => req'.pc = pc
           /\ \A c : GotoWithCandidate(pc, c) => req'.pc = pc
BY DEF Goto, GotoWithLatest, GotoWithCandidate, Request

\* A step of the handler moves main forward.
LEMMA HandlerForced ==
    ASSUME TypeOK, ForcedForward, HandlerStep
    PROVE  ForcedForward' /\ IsAncestor(main, main')
<1> USE DEF ForcedForward
<1>a. req \in Request /\ IsAncestor(main, main)
  BY DEF TypeOK, IsAncestor
<1>1. CASE ForwardMain
  BY <1>a, <1>1, GotoType DEF ForwardMain, Pc
<1>2. CASE ForceMain
  BY <1>a, <1>2, GotoType DEF ForceMain, At, Pc
<1>3. CASE CatchUpNothing \/ CatchUpFastForward \/ CaughtUp
  BY <1>a, <1>3, GotoPc DEF CatchUpNothing, CatchUpFastForward, CaughtUp, Finish, Idle,
     gitVars
<1>4. CASE DirectLock
  BY <1>a, <1>4 DEF DirectLock, Request, gitVars
<1>5. CASE DirectDecline
  BY <1>a, <1>5, GotoPc DEF DirectDecline, Finish, Idle, gitVars
<1>6. CASE DirectRecheck
  BY <1>a, <1>6, GotoPc DEF DirectRecheck, gitVars
<1>7. CASE DirectCommit
  BY <1>a, <1>7, GotoPc DEF DirectCommit
<1>8. CASE DirectCompare \/ DirectFails \/ DirectUnlock
  BY <1>a, <1>8, GotoPc DEF DirectCompare, DirectFails, DirectUnlock, Finish, Idle, gitVars
<1>9. CASE ForwardRefused \/ PublishedClean \/ PublishedSeen \/ PublishedRelease
  BY <1>a, <1>9, GotoPc DEF ForwardRefused, PublishedClean, PublishedSeen, PublishedRelease,
     Finish, Idle, gitVars
<1>10. CASE ClaimIntegrationTask
  BY <1>a, <1>10 DEF ClaimIntegrationTask, Request, gitVars
<1>11. CASE StartRefused \/ FreezeAcknowledged \/ PrepareLockedSync
  BY <1>a, <1>11, GotoPc DEF StartRefused, FreezeAcknowledged, PrepareLockedSync, Finish,
     Idle, gitVars
<1>12. CASE Snapshot \/ SnapshotRef \/ BaseRef \/ MergeBegin
  BY <1>a, <1>12, GotoPc DEF Snapshot, SnapshotRef, BaseRef, MergeBegin, Request, gitVars
<1>13. CASE GitMerge \/ ValidateMerge \/ MergeUnlock \/ ResetToLatest
  BY <1>a, <1>13, GotoPc DEF GitMerge, ValidateMerge, MergeUnlock, ResetToLatest, gitVars
<1>14. CASE WriteTaskFile \/ Fusing \/ PromptDelivered \/ StartFails
  BY <1>a, <1>14, GotoPc DEF WriteTaskFile, Fusing, PromptDelivered, StartFails, Finish,
     Idle, gitVars
<1>15. CASE AbortRestore \/ AbortUnlock \/ AbortClean
  BY <1>a, <1>15, GotoPc DEF AbortRestore, AbortUnlock, AbortClean, Finish, Idle, gitVars
<1>16. CASE NormalizeActiveTask
  BY <1>a, <1>16 DEF NormalizeActiveTask, Request, gitVars
<1>17. CASE CheckCandidate \/ CheckRefuses \/ VerifyReport
  BY <1>a, <1>17, GotoPc DEF CheckCandidate, CheckRefuses, VerifyReport, Finish, Idle,
     gitVars
<1>18. CASE VerifyWithoutReport \/ Preflight
  BY <1>a, <1>18, GotoPc DEF VerifyWithoutReport, Preflight, Finish, Idle, gitVars
<1> QED
  BY <1>1, <1>2, <1>3, <1>4, <1>5, <1>6, <1>7, <1>8, <1>9, <1>10, <1>11, <1>12, <1>13,
     <1>14, <1>15, <1>16, <1>17, <1>18 DEF HandlerStep

\* With main checked out in the repository root nobody forces it; without,
\* nobody else moves it between the check and the move.
LEMMA NextForced ==
    ASSUME MainCheckedOut \/ MaxExternal = 0, TypeOK, Shape, ForcedForward, [Next]_vars
    PROVE  ForcedForward' /\ IsAncestor(main, main')
<1> USE DEF ForcedForward
<1>1. CASE UNCHANGED vars
  BY <1>1 DEF vars, IsAncestor
<1>2. CASE HandlerStep
  BY <1>2, HandlerForced
<1>3. CASE RecoveryStep
  BY <1>3 DEF RecoveryStep, AdoptLockTask, ClearIdleRow, ResumeTask, BackUpTask, BackupFails,
     RecoverRestore, RecoverUnlock, RecoverClean, RecoveryDone, gitVars, IsAncestor
<1>4. CASE Boot \/ SecondDaemon \/ JoinStep
  BY <1>4 DEF Boot, SecondDaemon, StartRecovery, JoinStep, JoinRead, JoinCheck, JoinWrite,
     gitVars, IsAncestor
<1>5. CASE Crash
  BY <1>5 DEF Crash, Idle, gitVars, IsAncestor
<1>6. ASSUME NEW s \in Sessions, ReadyToIntegrate(s) \/ FusionDone(s)
      PROVE  ForcedForward' /\ IsAncestor(main, main')
  <2>1. req'.pc # "force" /\ UNCHANGED main
    BY <1>6 DEF ReadyToIntegrate, FusionDone, At, Idle, gitVars
  <2> QED
    BY <2>1 DEF IsAncestor
<1>7. ASSUME NEW s \in Sessions, DeveloperStep(s)
      PROVE  ForcedForward' /\ IsAncestor(main, main')
  BY <1>7 DEF DeveloperStep, Edit, CommitWork, CommitCandidate, WriteReport, gitVars,
     IsAncestor
<1>8. CASE ExternalMain
  BY <1>8 DEF ExternalMain, TypeOK, Usage, IsAncestor
<1> QED
  BY <1>1, <1>2, <1>3, <1>4, <1>5, <1>6, <1>7, <1>8 DEF Next

\* The property MainForward, for any number of sessions, crashes and daemons.
THEOREM MainMovesForward ==
    ASSUME MainCheckedOut \/ MaxExternal = 0
    PROVE  Spec => MainForward
<1>1. Init => ForcedForward
  BY DEF Init, Idle, ForcedForward
<1>2. TypeOK /\ Shape /\ ForcedForward /\ [Next]_vars
        => ForcedForward' /\ [IsAncestor(main, main')]_vars
  BY NextForced
<1> QED
  BY <1>1, <1>2, TypeCorrect, PTL DEF Spec, MainForward

-----------------------------------------------------------------------------
(* Main is serial.                                                         *)

\* As long as no second daemon is started, and main is checked out or left to
\* Cocodex, requests and recoveries do not meet, the handler holds the lock it
\* works under, and main is only ever forced forward.
THEOREM SerialInvariant ==
    ASSUME MaxSecond = 0, MainCheckedOut \/ MaxExternal = 0
    PROVE  Spec => []SerialInv
<1>1. Init => SerialInv
  BY DEF Init, Idle, NotRecovering, SerialInv, RequestsAlone, HandlerHoldsLock, NotHolding,
         CandidateIsOwn, ForcedForward
<1>2. TypeOK /\ Shape /\ SerialInv /\ [Next]_vars => SerialInv'
  BY NextHolds, NextForced DEF SerialInv, HoldInv
<1> QED
  BY <1>1, <1>2, TypeCorrect, PTL DEF Spec

-----------------------------------------------------------------------------
(* Refinement of SerialMain.                                               *)

\* The daemon moves one branch.
LEMMA MoveRefines ==
    ASSUME TypeOK, NEW s \in Sessions, NEW c, head' = [head EXCEPT ![s] = c],
           UNCHANGED <<main, lock>>
    PROVE  Abstract!Next
<1>1. head' = [head EXCEPT ![s] = head'[s]]
  BY DEF TypeOK
<1> QED
  BY <1>1 DEF Abstract!Next, Abstract!Move

\* A lock that is released is released, or was not held.
LEMMA ReleaseRefines ==
    ASSUME NEW s \in Sessions, NEW t, ReleaseLockIfOwned(s, t), UNCHANGED <<main, head>>
    PROVE  Abstract!Next \/ UNCHANGED <<main, head, lock.owner>>
BY ConstantsAssumption
   DEF ReleaseLockIfOwned, LockOf, NoLock, Abstract!Next, Abstract!Release

\* Main moves forward to a commit of the owner.
LEMMA PublishRefines ==
    ASSUME TypeOK, NEW s \in Sessions, lock.owner = s,
           IsAncestor(main, main'), IsAncestor(main', head[s]), UNCHANGED <<head, lock>>
    PROVE  Abstract!Next
BY DEF Abstract!Next, Abstract!Publish, IsAncestor, Abstract!IsAncestor

\* A step of the handler is a step of SerialMain, or none.
LEMMA HandlerRefines ==
    ASSUME TypeOK, Shape, SerialInv, HandlerStep
    PROVE  Abstract!Next \/ UNCHANGED <<main, head, lock.owner>>
<1> USE DEF Abstract!Next
<1>a. req.pc # "idle" => req.cur \in Sessions
  BY DEF Shape
<1>b. NoSession \notin Sessions
  BY ConstantsAssumption
<1>c. IsAncestor(main, main)
  BY DEF IsAncestor
<1>1. CASE CatchUpNothing \/ CaughtUp \/ DirectDecline \/ DirectRecheck \/ DirectCompare \/
           DirectFails \/ ForwardRefused \/ PublishedClean \/ PublishedSeen \/
           StartRefused \/ FreezeAcknowledged \/ PrepareLockedSync \/
           SnapshotRef \/ BaseRef \/ MergeBegin \/ ValidateMerge \/
           WriteTaskFile \/ Fusing \/ PromptDelivered \/ StartFails \/
           AbortClean \/ NormalizeActiveTask \/ CheckCandidate \/ CheckRefuses
           \/ VerifyReport \/ VerifyWithoutReport \/ Preflight
  BY <1>1 DEF CatchUpNothing, CaughtUp, DirectDecline, DirectRecheck, DirectCompare,
     DirectFails, ForwardRefused, PublishedClean, PublishedSeen, StartRefused,
     FreezeAcknowledged, PrepareLockedSync, SnapshotRef, BaseRef, MergeBegin, ValidateMerge,
     WriteTaskFile, Fusing, PromptDelivered, StartFails, AbortClean, NormalizeActiveTask,
     CheckCandidate, CheckRefuses, VerifyReport, VerifyWithoutReport, Preflight, gitVars,
     dbVars
<1>2. CASE CatchUpFastForward
  BY <1>2, <1>a, MoveRefines DEF CatchUpFastForward, At, cur, dbVars
<1>3. CASE DirectLock
  BY <1>3, <1>a, <1>b DEF DirectLock, At, cur, LockOf, NoLock, DirectPossible,
     Abstract!Acquire, gitVars
<1>4. CASE DirectCommit
  BY <1>4, <1>a, MoveRefines DEF DirectCommit, At, cur, CommitAll, dbVars
<1>5. CASE DirectUnlock
  BY <1>5, <1>a, ReleaseRefines DEF DirectUnlock, At, cur, gitVars
<1>6. CASE ForwardMain
  BY <1>6, <1>a, <1>c, PublishRefines DEF ForwardMain, At, SerialInv, HandlerHoldsLock,
     NotHolding, CandidateIsOwn, ForcedForward, LockOf, dbVars
<1>7. CASE ForceMain
  BY <1>7, <1>a, <1>c, PublishRefines DEF ForceMain, At, SerialInv, HandlerHoldsLock,
     NotHolding, CandidateIsOwn, ForcedForward, LockOf, dbVars
<1>8. CASE PublishedRelease
  BY <1>8, <1>a, ReleaseRefines DEF PublishedRelease, At, cur, gitVars
<1>9. CASE ClaimIntegrationTask
  BY <1>9, <1>a, <1>b DEF ClaimIntegrationTask, At, cur, LockOf, NoLock, DirectPossible,
     Abstract!Acquire, gitVars
<1>10. CASE Snapshot
  BY <1>10, <1>a, MoveRefines DEF Snapshot, At, cur, CommitAll, dbVars
<1>11. CASE GitMerge
  BY <1>11, <1>a, MoveRefines DEF GitMerge, At, cur, dbVars
<1>12. CASE MergeUnlock
  BY <1>12, <1>a, ReleaseRefines DEF MergeUnlock, At, cur, gitVars
<1>13. CASE ResetToLatest
  BY <1>13, <1>a, MoveRefines DEF ResetToLatest, At, cur, ResetHard, dbVars
<1>14. CASE AbortRestore
  BY <1>14, <1>a, MoveRefines DEF AbortRestore, At, cur, RestoreTaskSnapshotIfPossible,
     ResetHard, dbVars
<1>15. CASE AbortUnlock
  BY <1>15, <1>a, ReleaseRefines DEF AbortUnlock, At, cur, gitVars
<1> QED
  BY <1>1, <1>2, <1>3, <1>4, <1>5, <1>6, <1>7, <1>8, <1>9, <1>10, <1>11, <1>12, <1>13,
     <1>14, <1>15 DEF HandlerStep

\* So is a step of the recovery: it moves one branch, or takes the lock away.
LEMMA RecoveryRefines ==
    ASSUME TypeOK, Shape, RecoveryStep
    PROVE  Abstract!Next \/ UNCHANGED <<main, head, lock.owner>>
<1>1. CASE RecoverRestore
  BY <1>1, MoveRefines DEF RecoverRestore, Shape, RestoreTaskSnapshotIfPossible, ResetHard,
     dbVars
<1>2. CASE RecoverUnlock
  BY <1>2, ConstantsAssumption
     DEF RecoverUnlock, gitVars, NoLock, TypeOK, Lock, Abstract!Next, Abstract!Release
<1>3. CASE RecoverClean \/ RecoveryDone
  BY <1>3 DEF RecoverClean, RecoveryDone, gitVars, dbVars
<1>4. ASSUME NEW s \in Sessions,
             \/ AdoptLockTask(s) \/ ClearIdleRow(s) \/ ResumeTask(s)
             \/ BackUpTask(s) \/ BackupFails(s)
      PROVE  UNCHANGED <<main, head, lock.owner>>
  BY <1>4 DEF AdoptLockTask, ClearIdleRow, ResumeTask, BackUpTask, BackupFails, gitVars, dbVars
<1> QED
  BY <1>1, <1>2, <1>3, <1>4 DEF RecoveryStep

\* So is every step.
LEMMA NextRefines ==
    ASSUME MaxExternal = 0, TypeOK, Shape, SerialInv, [Next]_vars
    PROVE  Abstract!Next \/ UNCHANGED <<main, head, lock.owner>>
<1>1. CASE UNCHANGED vars
  BY <1>1 DEF vars
<1>2. CASE HandlerStep \/ RecoveryStep
  BY <1>2, HandlerRefines, RecoveryRefines
<1>3. CASE Boot \/ SecondDaemon \/ Crash \/ JoinStep
  BY <1>3 DEF Boot, SecondDaemon, StartRecovery, Crash, JoinStep, JoinRead, JoinCheck,
     JoinWrite,
     gitVars, dbVars
<1>4. ASSUME NEW s \in Sessions, ReadyToIntegrate(s)
      PROVE  UNCHANGED <<main, head, lock.owner>>
  BY <1>4 DEF ReadyToIntegrate, gitVars
<1>5. ASSUME NEW s \in Sessions, FusionDone(s)
      PROVE  Abstract!Next \/ UNCHANGED <<main, head, lock.owner>>
  BY <1>5 DEF FusionDone, gitVars, LockOf, NoLock, Abstract!Next, Abstract!Acquire
<1>6. ASSUME NEW s \in Sessions, DeveloperStep(s)
      PROVE  Abstract!Next \/ UNCHANGED <<main, head, lock.owner>>
  <2>1. CASE Edit(s) \/ WriteReport(s)
    BY <2>1 DEF Edit, WriteReport, gitVars, dbVars
  <2>2. CASE CommitWork(s) \/ CommitCandidate(s)
    BY <2>2, MoveRefines DEF CommitWork, CommitCandidate, CommitAll, dbVars
  <2> QED
    BY <1>6, <2>1, <2>2 DEF DeveloperStep
<1>7. CASE ExternalMain
  BY <1>7 DEF ExternalMain, TypeOK, Usage
<1> QED
  BY <1>1, <1>2, <1>3, <1>4, <1>5, <1>6, <1>7 DEF Next

\* One session at a time owns the integration, and only the owner moves main,
\* forward, to a commit of its own branch.
THEOREM ImplementsSerialMain ==
    ASSUME MaxSecond = 0, MaxExternal = 0
    PROVE  Spec => SerialMainSpec
<1>1. Init => Abstract!Init
  BY DEF Init, NoLock, Root, Abstract!Init, Abstract!Root
<1>2. TypeOK /\ Shape /\ SerialInv /\ [Next]_vars
        => [Abstract!Next]_<<main, head, lock.owner>>
  BY NextRefines
<1> QED
  BY <1>1, <1>2, TypeCorrect, SerialInvariant, PTL DEF Spec, SerialMainSpec, Abstract!Spec
=============================================================================
