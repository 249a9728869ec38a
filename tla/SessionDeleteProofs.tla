------------------------- MODULE SessionDeleteProofs -------------------------
(***************************************************************************)
(* Proofs about SessionDelete, for any number of sessions, of deletions at *)
(* a time and of failures.  A session is whole or says that it is not      *)
(* because what a deletion may give back, and what a join will register,   *)
(* is whole, and because whoever writes a row finds it unmarked.  The last *)
(* section, where nothing is lost with a session, has one deletion at a    *)
(* time, and takes what requests keep from SyncWorkProofs.                 *)
(***************************************************************************)
EXTENDS SessionDelete, SyncWorkProofs, SequenceTheorems

\* A deletion and a join under way have a session, a deletion that has not
\* claimed its row yet will do so, and an agent that is being added is not known
\* yet.
DeleteShape ==
    /\ \A d \in Deleters : /\ del[d].pc # "off" => del[d].cur \in Sessions
                           /\ del[d].pc = "claim" => del[d].claimed
    /\ adding.pc # "off" => adding.cur \in Sessions \ known
    /\ req.pc = "idle" => req.cur = NoSession

DeleteTypes == DeleteTypeOK /\ Shape /\ DeleteShape

-----------------------------------------------------------------------------
(* Types.                                                                  *)

\* What every process leaves alone keeps its shape.
LEMMA SameShape ==
    ASSUME Shape, UNCHANGED <<req, rec, used>>
    PROVE  Shape'
BY DEF Shape, TaskToRecover, OwnsLock

\* A deletion that goes on is about the same session.
LEMMA GotoDeleteType ==
    ASSUME del \in [Deleters -> Deletion], NEW d \in Deleters, NEW pc \in DeletionPc,
           GotoDelete(d, pc) \/ GotoMutated(d, pc)
    PROVE  /\ del' \in [Deleters -> Deletion]
           /\ del'[d].pc = pc
           /\ \A e \in Deleters : /\ del'[e].cur = del[e].cur /\ del'[e].old = del[e].old
                                  /\ del'[e].claimed = del[e].claimed /\ del'[e].tree = del[e].tree
                                  /\ e # d => del'[e] = del[e]
                                  /\ GotoDelete(d, pc) => del'[e].mutated = del[e].mutated
           /\ GotoMutated(d, pc) => del'[d].mutated
<1>1. CASE GotoDelete(d, pc)
  <2> DEFINE r == [del[d] EXCEPT !.pc = pc]
  <2>1. r \in Deletion /\ del' = [del EXCEPT ![d] = r]
    BY <1>1 DEF GotoDelete, Deletion
  <2>2. /\ r.pc = pc /\ r.cur = del[d].cur /\ r.old = del[d].old /\ r.claimed = del[d].claimed
        /\ r.tree = del[d].tree /\ r.mutated = del[d].mutated
    BY DEF Deletion
  <2>3. GotoMutated(d, pc) => del'[d].mutated
    BY <1>1 DEF GotoMutated, Deletion
  <2> HIDE DEF r
  <2> QED
    BY <2>1, <2>2, <2>3
<1>2. CASE GotoMutated(d, pc)
  <2> DEFINE r == [del[d] EXCEPT !.pc = pc, !.mutated = TRUE]
  <2>1. r \in Deletion /\ del' = [del EXCEPT ![d] = r]
    BY <1>2 DEF GotoMutated, Deletion
  <2>2. /\ r.pc = pc /\ r.cur = del[d].cur /\ r.old = del[d].old /\ r.claimed = del[d].claimed
        /\ r.tree = del[d].tree /\ r.mutated
    BY DEF Deletion
  <2>3. GotoDelete(d, pc) => del'[d].mutated = del[d].mutated
    BY DEF GotoDelete, Deletion
  <2> HIDE DEF r
  <2> QED
    BY <2>1, <2>2, <2>3
<1> QED
  BY <1>1, <1>2

\* A deletion that has ended is none.
LEMMA NotDeletingType ==
    ASSUME del \in [Deleters -> Deletion], NEW d \in Deleters,
           del' = [del EXCEPT ![d] = NotDeleting]
    PROVE  /\ del' \in [Deleters -> Deletion]
           /\ del'[d].pc = "off"
           /\ \A e \in Deleters : e # d => del'[e] = del[e]
BY DEF NotDeleting, Deletion, DeletionPc, MaybeSession, SessionState, READY_TO_INTEGRATE_STATES

\* The states that these processes write.
LEMMA CleanStates ==
    /\ {"clean", "deleting", "fusing"} \subseteq SessionState
    /\ NoTask \in MaybeTask /\ Root \in Commit /\ Root \in MaybeCommit
BY DEF SessionState, READY_TO_INTEGRATE_STATES, LEGACY_RECOVERY_STATES, ACTIVE_INTEGRATION_STATES,
   MaybeTask, Root, Commit, MaybeCommit

\* The history variables have their types: overlaps, and what may be in a worktree.
LEMMA RememberedType ==
    ASSUME overlap \subseteq {"request", "join", "recovery", "deletion"}, late \in Commit,
           head' \in [Sessions -> Commit], dirty' \in [Sessions -> Commit], Remembered
    PROVE  /\ overlap' \subseteq {"request", "join", "recovery", "deletion"}
           /\ late' \in Commit
<1>1. overlap' \subseteq {"request", "join", "recovery", "deletion"}
  BY DEF Overlaps, Remembered
<1>2. ASSUME NEW s \in Sessions PROVE WrittenLate(s) \subseteq head'[s] \cup dirty'[s]
  BY DEF WrittenLate
<1>3. ASSUME NEW s \in Sessions PROVE WrittenLate(s) \subseteq Atom
  BY <1>2 DEF Commit
<1>4. UNION {WrittenLate(s) : s \in Sessions} \subseteq Atom
  BY <1>3
<1>5. late' \in Commit
  BY <1>4 DEF Remembered, Commit
<1> QED
  BY <1>1, <1>5

\* The parts of DeleteTypeOK that a process of this module may write, beside
\* those of TypeOK.
OwnTypes ==
    /\ {registered, worktrees, branches, agents} \subseteq SUBSET Sessions
    /\ known \subseteq registered \cap agents
    /\ stash \in Seq(Commit)
    /\ deletedRefs \in Commit
    /\ del \in [Deleters -> Deletion]
    /\ adding \in Adding
    /\ mishaps \in [fails : 0 .. MaxDeleteFails, rejoins : 0 .. MaxRejoins]

\* Requests, recovery and developers write none of them.
LEMMA SameOwnTypes ==
    ASSUME OwnTypes, UNCHANGED deleteVars
    PROVE  OwnTypes'
BY DEF OwnTypes, deleteVars, sessionVars, keptVars

\* A step of a request that finds something gone.
LEMMA HinderedType ==
    ASSUME TypeOK, Shape, HinderedStep
    PROVE  TypeOK' /\ Shape'
<1> USE DEF TypeOK, Shape
<1>a. req.pc # "idle" /\ req.cur \in Sessions
  BY DEF HinderedStep, Hindered, NeedsWorktree, NeedsRow, At
<1>b. UNCHANGED <<rec, used>> => \A s : TaskToRecover(s)' = TaskToRecover(s)
  BY DEF TaskToRecover, OwnsLock
<1>c. used.tasks \in Nat /\ MaxTasks \in Nat
  BY ConstantsAssumption DEF Usage
<1>1. CASE DirectFails \/ StartFails \/ VerifyWithoutReport
  BY <1>1, HandlerType, HandlerShape DEF HandlerStep
<1>2. CASE HinderedDirect
  <2>1. {"start", "idle"} \subseteq Pc
    BY DEF Pc
  <2>2. req' \in Request /\ req'.cur \in MaybeSession
        /\ (req'.pc = "idle" \/ (req'.pc = "start" /\ req'.cur = req.cur))
    BY <1>2, <2>1, GotoType, FinishType DEF HinderedDirect, Request
  <2> QED
    BY <1>2, <1>a, <1>b, <1>c, <2>2 DEF HinderedDirect, At, gitVars, refVars, fileVars, dbVars, envVars
<1>3. CASE HinderedEnds
  <2>1. {"fallback", "abortUnlock"} \subseteq Pc
    BY DEF Pc, StartTry
  <2>2. /\ req' \in Request
        /\ \/ req'.pc = "idle"
           \/ /\ req'.pc \in {"fallback", "abortUnlock"} /\ req.pc \in {"merge", "validate", "restore"}
              /\ req'.cur = req.cur /\ req'.task = req.task
    BY <1>3, <2>1, GotoType, FinishType DEF HinderedEnds, At
  <2> QED
    BY <1>3, <1>a, <1>b, <1>c, <2>2 DEF HinderedEnds, gitVars, refVars, fileVars, dbVars, envVars
<1>4. CASE HinderedTask
  <2>1. req.task \in MaybeTask /\ row' \in [Sessions -> Row]
    BY <1>4, CleanStates, TransitionType DEF HinderedTask, Request, task, cur
  <2> QED
    BY <1>4, <1>b, <2>1, FinishType DEF HinderedTask, gitVars, refVars, fileVars, envVars
<1> QED
  BY <1>1, <1>2, <1>3, <1>4 DEF HinderedStep

\* What a step of a request, hindered or not, leaves of the request under way: the session,
\* or nothing; and of the rows: all but that of its session, which it never marks
\* for deletion.
RequestGoesOn ==
    /\ req.pc # "idle"
    /\ \/ req'.pc = "idle" /\ req'.cur = NoSession
       \/ req'.pc # "idle" /\ req'.cur = req.cur
    /\ UNCHANGED envVars

WritesOwnRow ==
    \A s \in Sessions : row'[s] # row[s] => s = req.cur /\ row'[s].state # "deleting"

\* What TransitionSession writes, and what it leaves.
LEMMA TransitionWrites ==
    ASSUME row \in [Sessions -> Row], NEW s \in Sessions, NEW st, NEW t, TransitionSession(s, st, t)
    PROVE  /\ row'[s].state = st /\ row'[s].task = t
           /\ \A o \in Sessions : o # s => row'[o] = row[o]
BY DEF TransitionSession

\* A step of the handler that finds what it needs, action by action.
LEMMA HandlerWrites ==
    ASSUME TypeOK, Shape, HandlerStep
    PROVE  RequestGoesOn /\ WritesOwnRow
<1> USE DEF RequestGoesOn, WritesOwnRow
<1>a. /\ req \in Request /\ row \in [Sessions -> Row]
      /\ req.pc # "idle" => req.cur \in Sessions
      /\ main \in Commit
      /\ req.pc # "idle" => head[req.cur] \in Commit /\ Work(req.cur) \in Commit
  BY WorkType DEF TypeOK, Shape
<1>1. CASE CatchUpNothing
  BY <1>1, <1>a, FinishType, TransitionWrites DEF CatchUpNothing, At, envVars, cur, SettleRow
<1>2. CASE CatchUpFastForward
  BY <1>2, <1>a, GotoWithLatestType, FinishType DEF CatchUpFastForward, At, envVars, cur, Pc,
     DirectTry, StartTry, dbVars
<1>3. CASE CaughtUp
  BY <1>3, <1>a, FinishType, TransitionWrites DEF CaughtUp, At, envVars, cur, SettleRow
<1>4. CASE DirectLock
  BY <1>4, <1>a, TransitionWrites DEF DirectLock, At, envVars, cur, Request
<1>5. CASE DirectDecline
  BY <1>5, <1>a, GotoType, FinishType DEF DirectDecline, At, envVars, Pc, DirectTry, StartTry,
     dbVars
<1>6. CASE DirectRecheck
  BY <1>6, <1>a, GotoWithLatestType, GotoType, TransitionWrites DEF DirectRecheck, At, envVars,
     cur, Pc, DirectTry, StartTry
<1>7. CASE DirectCommit
  BY <1>7, <1>a, GotoWithCandidateType, GotoType DEF DirectCommit, At, envVars, cur, Pc,
     DirectTry, StartTry, dbVars
<1>8. CASE DirectCompare
  BY <1>8, <1>a, GotoType, TransitionWrites DEF DirectCompare, At, envVars, cur, Pc, DirectTry,
     StartTry
<1>9. CASE DirectFails
  BY <1>9, <1>a, GotoType, TransitionWrites DEF DirectFails, At, envVars, cur, Pc, DirectTry,
     StartTry
<1>10. CASE DirectUnlock
  BY <1>10, <1>a, GotoType, FinishType, TransitionWrites DEF DirectUnlock, At, envVars, cur, Pc,
     DirectTry, StartTry
<1>11. CASE ForwardMain
  BY <1>11, <1>a, GotoType DEF ForwardMain, At, envVars, Pc, DirectTry, StartTry, dbVars
<1>12. CASE ForceMain
  BY <1>12, <1>a, GotoType DEF ForceMain, At, envVars, Pc, DirectTry, StartTry, dbVars
<1>13. CASE ForwardRefused
  BY <1>13, <1>a, GotoType, FinishType, TransitionWrites DEF ForwardRefused, At, envVars, cur,
     Pc, DirectTry, StartTry
<1>14. CASE PublishedClean
  BY <1>14, <1>a, GotoType, TransitionWrites DEF PublishedClean, At, envVars, cur, Pc,
     DirectTry, StartTry
<1>15. CASE PublishedSeen
  BY <1>15, <1>a, GotoType, TransitionWrites DEF PublishedSeen, At, envVars, cur, Pc, DirectTry,
     StartTry
<1>16. CASE PublishedRelease
  BY <1>16, <1>a, FinishType, TransitionWrites DEF PublishedRelease, At, envVars, cur
<1>17. CASE ClaimIntegrationTask
  BY <1>17, <1>a, TransitionWrites DEF ClaimIntegrationTask, At, envVars, cur, Request
<1>18. CASE StartRefused
  BY <1>18, <1>a, FinishType DEF StartRefused, At, envVars, dbVars
<1>19. CASE FreezeAcknowledged
  BY <1>19, <1>a, GotoType, TransitionWrites DEF FreezeAcknowledged, At, envVars, cur, Pc,
     DirectTry, StartTry
<1>20. CASE PrepareLockedSync
  BY <1>20, <1>a, GotoType, TransitionWrites DEF PrepareLockedSync, At, envVars, cur, Pc,
     DirectTry, StartTry
<1>21. CASE Snapshot
  BY <1>21, <1>a DEF Snapshot, At, envVars, cur, Request, dbVars
<1>22. CASE SnapshotRef
  BY <1>22, <1>a, GotoType DEF SnapshotRef, At, envVars, Pc, DirectTry, StartTry, dbVars
<1>23. CASE BaseRef
  BY <1>23, <1>a, GotoType DEF BaseRef, At, envVars, Pc, DirectTry, StartTry, dbVars
<1>24. CASE MergeBegin
  BY <1>24, <1>a, GotoType, TransitionWrites DEF MergeBegin, At, envVars, cur, Pc, DirectTry,
     StartTry
<1>25. CASE GitMerge
  BY <1>25, <1>a, GotoType DEF GitMerge, At, envVars, cur, Pc, DirectTry, StartTry, dbVars
<1>26. CASE ValidateMerge
  BY <1>26, <1>a, GotoWithCandidateType, GotoType DEF ValidateMerge, At, envVars, cur, Pc,
     DirectTry, StartTry, dbVars
<1>27. CASE MergeUnlock
  BY <1>27, <1>a, GotoType, TransitionWrites DEF MergeUnlock, At, envVars, cur, Pc, DirectTry,
     StartTry
<1>28. CASE ResetToLatest
  BY <1>28, <1>a, GotoType DEF ResetToLatest, At, envVars, cur, Pc, DirectTry, StartTry, dbVars
<1>29. CASE WriteTaskFile
  BY <1>29, <1>a, GotoType DEF WriteTaskFile, At, envVars, Pc, DirectTry, StartTry, dbVars
<1>30. CASE Fusing
  BY <1>30, <1>a, GotoType, TransitionWrites DEF Fusing, At, envVars, cur, Pc, DirectTry,
     StartTry
<1>31. CASE PromptDelivered
  BY <1>31, <1>a, FinishType DEF PromptDelivered, At, envVars, dbVars
<1>32. CASE StartFails
  BY <1>32, <1>a, GotoType DEF StartFails, At, envVars, Pc, DirectTry, StartTry, dbVars
<1>33. CASE AbortRestore
  BY <1>33, <1>a, GotoType DEF AbortRestore, At, envVars, cur, Pc, DirectTry, StartTry, dbVars
<1>34. CASE AbortUnlock
  BY <1>34, <1>a, GotoType, TransitionWrites DEF AbortUnlock, At, envVars, cur, Pc, DirectTry,
     StartTry
<1>35. CASE AbortClean
  BY <1>35, <1>a, FinishType, TransitionWrites DEF AbortClean, At, envVars, cur
<1>36. CASE NormalizeActiveTask
  BY <1>36, <1>a, TransitionWrites DEF NormalizeActiveTask, At, envVars, cur, Request
<1>37. CASE CheckCandidate
  BY <1>37, <1>a, GotoType, TransitionWrites DEF CheckCandidate, At, envVars, cur, Pc,
     DirectTry, StartTry
<1>38. CASE CheckRefuses
  BY <1>38, <1>a, FinishType, TransitionWrites DEF CheckRefuses, At, envVars, cur
<1>39. CASE VerifyReport
  BY <1>39, <1>a, GotoType, FinishType, TransitionWrites DEF VerifyReport, At, envVars, cur, Pc,
     DirectTry, StartTry
<1>40. CASE VerifyWithoutReport
  BY <1>40, <1>a, FinishType, TransitionWrites DEF VerifyWithoutReport, At, envVars, cur
<1>41. CASE Preflight
  BY <1>41, <1>a, GotoType, FinishType DEF Preflight, At, envVars, Pc, DirectTry, StartTry,
     dbVars
<1> QED
  BY <1>1, <1>2, <1>3, <1>4, <1>5, <1>6, <1>7, <1>8, <1>9, <1>10, <1>11, <1>12, <1>13, <1>14,
     <1>15, <1>16, <1>17, <1>18, <1>19, <1>20, <1>21, <1>22, <1>23, <1>24, <1>25, <1>26, <1>27,
     <1>28, <1>29, <1>30, <1>31, <1>32, <1>33, <1>34, <1>35, <1>36, <1>37, <1>38, <1>39, <1>40,
     <1>41 DEF HandlerStep

\* A step that finds something gone.
LEMMA HinderedWrites ==
    ASSUME TypeOK, Shape, HinderedStep
    PROVE  RequestGoesOn /\ WritesOwnRow
<1> USE DEF RequestGoesOn, WritesOwnRow
<1>a. /\ req \in Request /\ row \in [Sessions -> Row]
      /\ req.pc # "idle" /\ req.cur \in Sessions
      /\ {"start", "fallback", "abortUnlock"} \subseteq Pc
  BY DEF TypeOK, Shape, HinderedStep, Hindered, NeedsWorktree, NeedsRow, At, Pc, StartTry
<1>1. CASE DirectFails \/ StartFails \/ VerifyWithoutReport
  BY <1>1, HandlerWrites DEF HandlerStep
<1>2. CASE HinderedDirect
  BY <1>2, <1>a, GotoType, FinishType DEF HinderedDirect, dbVars, envVars
<1>3. CASE HinderedEnds
  BY <1>3, <1>a, GotoType, FinishType DEF HinderedEnds, dbVars, envVars
<1>4. CASE HinderedTask
  BY <1>4, <1>a, FinishType, TransitionWrites DEF HinderedTask, cur, envVars
<1> QED
  BY <1>1, <1>2, <1>3, <1>4 DEF HinderedStep

-----------------------------------------------------------------------------
(* Types of deletions and joins.                                           *)

\* They write branches, worktrees and rows, and nothing else that TypeOK is about.
LEMMA CoreType ==
    ASSUME TypeOK, Shape, UNCHANGED <<main, refVars, fileVars, lock, envVars, req, used>>,
           head' \in [Sessions -> Commit], dirty' \in [Sessions -> Commit],
           row' \in [Sessions -> Row], lastSeen' \in [Sessions -> MaybeCommit]
    PROVE  TypeOK' /\ Shape'
BY SameShape DEF TypeOK, refVars, fileVars, envVars

\* A step that writes none of the variables of SyncDaemon.
LEMMA SameCore ==
    ASSUME TypeOK, Shape, UNCHANGED vars
    PROVE  TypeOK' /\ Shape'
BY SameShape DEF TypeOK, vars

\* A deletion that starts, and one that claims its row or does not.
LEMMA BeginType ==
    ASSUME DeleteTypes, NEW d \in Deleters,
           \/ \E s \in Sessions : DeleteStart(d, s)
           \/ DeleteClaim(d) \/ DeleteRefused(d)
    PROVE  TypeOK' /\ Shape' /\ OwnTypes' /\ DeleteShape'
<1> USE DEF DeleteTypes, DeleteTypeOK, OwnTypes, DeleteShape
<1>a. row \in [Sessions -> Row] /\ del \in [Deleters -> Deletion]
  BY DEF TypeOK
<1>1. ASSUME NEW s \in Sessions, DeleteStart(d, s) PROVE TypeOK' /\ Shape' /\ OwnTypes' /\ DeleteShape'
  <2> DEFINE r == [pc |-> IF s \in registered THEN "claim" ELSE "head", cur |-> s,
                   claimed |-> s \in registered, old |-> row[s].state,
                   tree |-> s \in worktrees, mutated |-> FALSE]
  <2>1. row[s].state \in SessionState
    BY <1>a DEF Row
  <2> DEFINE there == s \in registered
  <2> DEFINE tree == s \in worktrees
  <2>b. there \in BOOLEAN /\ tree \in BOOLEAN
    OBVIOUS
  <2>c. r = [pc |-> IF there THEN "claim" ELSE "head", cur |-> s, claimed |-> there,
             old |-> row[s].state, tree |-> tree, mutated |-> FALSE]
    OBVIOUS
  <2> HIDE DEF r, there, tree
  <2>2. r \in Deletion /\ r.cur \in Sessions /\ (r.pc = "claim" => r.claimed)
    BY <2>1, <2>b, <2>c DEF Deletion, DeletionPc, MaybeSession
  <2>3. del' = [del EXCEPT ![d] = r]
    BY <1>1 DEF DeleteStart, r
  <2>4. TypeOK' /\ Shape'
    BY <1>1, SameCore DEF DeleteStart
  <2> QED
    BY <1>1, <2>2, <2>3, <2>4 DEF DeleteStart, sessionVars, keptVars, vars
<1>2. CASE DeleteClaim(d)
  <2>1. del[d].cur \in Sessions /\ row' \in [Sessions -> Row]
    BY <1>2, <1>a, CleanStates, TransitionType DEF DeleteClaim, DeletingAt
  <2>2. TypeOK' /\ Shape'
    BY <1>2, <2>1, CoreType DEF DeleteClaim, gitVars, TypeOK
  <2>3. "head" \in DeletionPc
    BY DEF DeletionPc
  <2> QED
    BY <1>2, <2>1, <2>2, <2>3, GotoDeleteType DEF DeleteClaim, sessionVars, keptVars
<1>3. CASE DeleteRefused(d)
  <2>1. TypeOK' /\ Shape'
    BY <1>3, SameCore DEF DeleteRefused
  <2> QED
    BY <1>3, <2>1, NotDeletingType DEF DeleteRefused, sessionVars, keptVars, vars
<1> QED
  BY <1>1, <1>2, <1>3

\* A worktree that is emptied, or not.
LEMMA EmptiedType ==
    ASSUME dirty \in [Sessions -> Commit], NEW s \in Sessions,
           dirty' = [dirty EXCEPT ![s] = {}] \/ dirty' = dirty
    PROVE  dirty' \in [Sessions -> Commit]
BY DEF Commit

\* The effects of a deletion.
LEMMA EffectType ==
    ASSUME DeleteTypes, NEW d \in Deleters,
           \/ DeleteBackUpHead(d) \/ DeleteStash(d) \/ DeleteStashRef(d) \/ DeleteStashDrop(d)
           \/ DeleteWorktree(d) \/ DeleteBranch(d) \/ DeleteRecord(d)
    PROVE  TypeOK' /\ Shape' /\ OwnTypes' /\ DeleteShape'
<1> USE DEF DeleteTypes, DeleteTypeOK, OwnTypes, DeleteShape
<1> DEFINE s == del[d].cur
<1>a. /\ row \in [Sessions -> Row] /\ head \in [Sessions -> Commit] /\ dirty \in [Sessions -> Commit]
      /\ lastSeen \in [Sessions -> MaybeCommit] /\ {} \in Commit
  BY DEF TypeOK, Commit
<1>b. /\ s \in Sessions /\ Work(s) \in Commit /\ head[s] \in Commit
      /\ {"stash", "ref", "drop", "remove", "branch", "record"} \subseteq DeletionPc
  BY <1>a, WorkType DEF DeletingAt, DeleteBackUpHead, DeleteStash, DeleteStashRef, DeleteStashDrop,
     DeleteWorktree, DeleteBranch, DeleteRecord, DeletionPc
<1>c. \A c, e \in Commit : c \cup e \in Commit
  BY DEF Commit
<1>1. CASE DeleteBackUpHead(d)
  <2>1. TypeOK' /\ Shape'
    BY <1>1, SameCore DEF DeleteBackUpHead
  <2>2. deletedRefs' \in Commit
    BY <1>1, <1>b, <1>c DEF DeleteBackUpHead
  <2> QED
    BY <1>1, <1>b, <2>1, <2>2, GotoDeleteType DEF DeleteBackUpHead, sessionVars, vars
<1>2. CASE DeleteStash(d)
  <2>1. dirty' \in [Sessions -> Commit] /\ stash' \in Seq(Commit)
    <3>1. <<Work(s)>> \in Seq(Commit)
      BY <1>b
    <3>2. <<Work(s)>> \o stash \in Seq(Commit)
      BY <3>1, ConcatProperties
    <3>3. stash' \in {<<Work(s)>> \o stash, stash}
      BY <1>2 DEF DeleteStash
    <3>4. dirty' = [dirty EXCEPT ![s] = {}] \/ dirty' = dirty
      BY <1>2 DEF DeleteStash
    <3>5. dirty' \in [Sessions -> Commit]
      BY <1>a, <1>b, <3>4, EmptiedType
    <3> HIDE DEF s
    <3>6. stash' \in Seq(Commit)
      BY <3>2, <3>3
    <3> QED
      BY <3>5, <3>6
  <2>2. TypeOK' /\ Shape'
    BY <1>2, <1>a, <2>1, CoreType DEF DeleteStash, dbVars
  <2> QED
    BY <1>2, <1>b, <2>1, <2>2, GotoDeleteType DEF DeleteStash, sessionVars
<1>3. CASE DeleteStashRef(d)
  <2>1. TypeOK' /\ Shape'
    BY <1>3, SameCore DEF DeleteStashRef
  <2>2. deletedRefs' \in Commit
    BY <1>3, <1>c, HeadTailProperties DEF DeleteStashRef
  <2> QED
    BY <1>3, <1>b, <2>1, <2>2, GotoDeleteType DEF DeleteStashRef, sessionVars, vars
<1>4. CASE DeleteStashDrop(d)
  <2>1. TypeOK' /\ Shape'
    BY <1>4, SameCore DEF DeleteStashDrop
  <2>2. stash' \in Seq(Commit)
    BY <1>4, HeadTailProperties DEF DeleteStashDrop
  <2> QED
    BY <1>4, <1>b, <2>1, <2>2, GotoDeleteType DEF DeleteStashDrop, sessionVars, vars
<1>5. CASE DeleteWorktree(d)
  <2>1. dirty' \in [Sessions -> Commit] /\ worktrees' \in SUBSET Sessions
    <3>1. dirty' = [dirty EXCEPT ![s] = {}] \/ dirty' = dirty
      BY <1>5 DEF DeleteWorktree
    <3>2. worktrees' \in SUBSET Sessions
      BY <1>5 DEF DeleteWorktree
    <3> QED
      BY <1>a, <1>b, <3>1, <3>2, EmptiedType
  <2>2. TypeOK' /\ Shape'
    BY <1>5, <1>a, <2>1, CoreType DEF DeleteWorktree, dbVars
  <2> QED
    BY <1>5, <1>b, <2>1, <2>2, GotoDeleteType DEF DeleteWorktree, keptVars
<1>6. CASE DeleteBranch(d)
  <2>1. head' \in [Sessions -> Commit] /\ branches' \in SUBSET Sessions
    BY <1>6, <1>a, <1>b, CleanStates DEF DeleteBranch
  <2>2. TypeOK' /\ Shape'
    BY <1>6, <1>a, <2>1, CoreType DEF DeleteBranch, dbVars
  <2> QED
    BY <1>6, <1>b, <2>1, <2>2, GotoDeleteType DEF DeleteBranch, keptVars
<1>7. CASE DeleteRecord(d)
  <2>1. row' \in [Sessions -> Row] /\ lastSeen' \in [Sessions -> MaybeCommit]
    BY <1>7, <1>a, CleanStates, TransitionType, UpdateLastSeenMainType DEF DeleteRecord
  <2>2. TypeOK' /\ Shape'
    BY <1>7, <1>a, <2>1, CoreType DEF DeleteRecord, gitVars
  <2>3. /\ del' \in [Deleters -> Deletion] /\ del'[d].pc = "off"
        /\ \A e \in Deleters : e # d => del'[e] = del[e]
    BY <1>7, NotDeletingType DEF DeleteRecord
  <2>4. OwnTypes'
    BY <1>7, <2>3 DEF DeleteRecord, keptVars
  <2> QED
    BY <1>7, <2>2, <2>3, <2>4 DEF DeleteRecord
<1> QED
  BY <1>1, <1>2, <1>3, <1>4, <1>5, <1>6, <1>7

\* The ends of a deletion before its time.
LEMMA EndType ==
    ASSUME DeleteTypes, NEW d \in Deleters, DeleteFails(d) \/ DeleteDies(d)
    PROVE  TypeOK' /\ Shape' /\ OwnTypes' /\ DeleteShape'
<1> USE DEF DeleteTypes, DeleteTypeOK, OwnTypes, DeleteShape
<1>a. row \in [Sessions -> Row] /\ del \in [Deleters -> Deletion]
  BY DEF TypeOK
<1>b. Mishap => mishaps' \in [fails : 0 .. MaxDeleteFails, rejoins : 0 .. MaxRejoins]
  BY DeleteAssumption DEF Mishap
<1>1. CASE DeleteFails(d)
  <2>1. del[d].cur \in Sessions /\ del[d].old \in SessionState
    BY <1>1, <1>a DEF DeleteFails, Deletion
  <2>2. row' \in [Sessions -> Row]
    BY <1>1, <1>a, <2>1, CleanStates, TransitionType DEF DeleteFails
  <2>3. TypeOK' /\ Shape'
    BY <1>1, <2>2, CoreType DEF DeleteFails, gitVars, TypeOK
  <2> QED
    BY <1>1, <1>b, <2>3, NotDeletingType DEF DeleteFails, sessionVars, keptVars
<1>2. CASE DeleteDies(d)
  <2>1. TypeOK' /\ Shape'
    BY <1>2, SameCore DEF DeleteDies
  <2> QED
    BY <1>2, <1>b, <2>1, NotDeletingType DEF DeleteDies, sessionVars, keptVars, vars
<1> QED
  BY <1>1, <1>2

\* The steps of a join, and an agent that stops.
LEMMA AddType ==
    ASSUME DeleteTypes, AddStep \/ \E s \in Sessions : AgentStops(s)
    PROVE  TypeOK' /\ Shape' /\ OwnTypes' /\ DeleteShape'
<1> USE DEF DeleteTypes, DeleteTypeOK, OwnTypes, DeleteShape
<1>a. /\ row \in [Sessions -> Row] /\ head \in [Sessions -> Commit] /\ dirty \in [Sessions -> Commit]
      /\ lastSeen \in [Sessions -> MaybeCommit] /\ main \in Commit /\ main \in MaybeCommit
      /\ adding.pc \in {"off", "row", "register"}
  BY DEF TypeOK, MaybeCommit, Adding
<1>b. NotAdding \in Adding /\ NotAdding.pc = "off"
  BY DEF NotAdding, Adding, MaybeSession
<1>c. ASSUME NEW s \in Sessions, InsertRow(s)
      PROVE  /\ row' \in [Sessions -> Row] /\ lastSeen' \in [Sessions -> MaybeCommit]
             /\ registered' = registered \cup {s}
  BY <1>a, <1>c, CleanStates, TransitionType, UpdateLastSeenMainType DEF InsertRow
<1>1. ASSUME NEW s \in Sessions, JoinWorktree(s)
      PROVE  TypeOK' /\ Shape' /\ OwnTypes' /\ DeleteShape'
  <2>1. head' \in [Sessions -> Commit]
    BY <1>1, <1>a DEF JoinWorktree
  <2>2. TypeOK' /\ Shape'
    BY <1>1, <1>a, <2>1, CoreType DEF JoinWorktree, dbVars
  <2>3. mishaps' \in [fails : 0 .. MaxDeleteFails, rejoins : 0 .. MaxRejoins]
    BY <1>1, DeleteAssumption DEF JoinWorktree
  <2>4. adding' \in Adding /\ adding'.cur \in Sessions \ known'
    BY <1>1 DEF JoinWorktree, Adding, MaybeSession
  <2> QED
    BY <1>1, <2>2, <2>3, <2>4 DEF JoinWorktree, keptVars
<1>2. CASE JoinRow
  <2>1. adding.cur \in Sessions \ known
    BY <1>2 DEF JoinRow
  <2>2. /\ row' \in [Sessions -> Row] /\ lastSeen' \in [Sessions -> MaybeCommit]
        /\ registered' \in SUBSET Sessions /\ registered \subseteq registered'
    BY <1>2, <1>a, <1>c, <2>1 DEF JoinRow
  <2>3. TypeOK' /\ Shape'
    BY <1>2, <1>a, <2>2, CoreType DEF JoinRow, gitVars
  <2>4. /\ agents' \in SUBSET Sessions /\ agents \subseteq agents'
        /\ UNCHANGED <<worktrees, branches, known, keptVars, del, mishaps, req>>
    BY <1>2, <2>1 DEF JoinRow
  <2>5. adding' \in Adding /\ (adding'.pc # "off" => adding'.cur = adding.cur)
    BY <1>2, <1>b DEF JoinRow, Adding
  <2> QED
    BY <2>1, <2>2, <2>3, <2>4, <2>5 DEF keptVars
<1>3. CASE JoinRegister
  <2>1. adding.cur \in Sessions \ known
    BY <1>3 DEF JoinRegister
  <2>2. /\ row' \in [Sessions -> Row] /\ lastSeen' \in [Sessions -> MaybeCommit]
        /\ registered' \in SUBSET Sessions /\ agents' \in SUBSET Sessions
        /\ known' \subseteq registered' \cap agents'
    BY <1>3, <1>a, <1>c, <2>1 DEF JoinRegister, Connected
  <2>3. TypeOK' /\ Shape'
    BY <1>3, <1>a, <2>2, CoreType DEF JoinRegister, gitVars
  <2> QED
    BY <1>3, <1>b, <2>2, <2>3 DEF JoinRegister, keptVars
<1>4. CASE JoinUnheard
  <2>1. TypeOK' /\ Shape'
    BY <1>4, SameCore DEF JoinUnheard
  <2> QED
    BY <1>4, <1>b, <2>1 DEF JoinUnheard, sessionVars, keptVars, vars
<1>5. ASSUME NEW s \in Sessions, AgentStops(s)
      PROVE  TypeOK' /\ Shape' /\ OwnTypes' /\ DeleteShape'
  <2>1. TypeOK' /\ Shape'
    BY <1>5, SameCore DEF AgentStops
  <2> QED
    BY <1>5, <2>1 DEF AgentStops, keptVars, vars
<1> QED
  BY <1>1, <1>2, <1>3, <1>4, <1>5 DEF AddStep

\* Requests, startup recovery, developers and others on main.
LEMMA DaemonType ==
    ASSUME DeleteTypes,
           \/ RequestStep \/ DaemonStarts \/ MainMoves
           \/ \E s \in Sessions : Arrival(s) \/ DeveloperWorks(s)
    PROVE  TypeOK' /\ Shape' /\ OwnTypes' /\ DeleteShape'
<1> USE DEF DeleteTypes, DeleteTypeOK
<1>a. UNCHANGED deleteVars
  BY DEF RequestStep, DaemonStarts, MainMoves, Arrival, DeveloperWorks
<1>b. OwnTypes'
  BY <1>a, SameOwnTypes DEF OwnTypes
<1>c. TypeOK' /\ Shape'
  BY HandlerType, HandlerShape, HinderedType, BootType, RecoveryType, EnvironmentType,
     ReadyToIntegrateType, FusionDoneType
     DEF RequestStep, DaemonStarts, MainMoves, Arrival, DeveloperWorks
<1>d. UNCHANGED <<del, adding, known>>
  BY <1>a DEF deleteVars, sessionVars
<1>e. req'.pc = "idle" => req'.cur = NoSession
  <2>1. CASE RequestStep
    BY <2>1, HandlerWrites, HinderedWrites DEF RequestStep, RequestGoesOn
  <2>2. ASSUME NEW s \in Sessions, Arrival(s) PROVE req'.pc = "idle" => req'.cur = NoSession
    BY <2>2 DEF Arrival, ReadyToIntegrate, FusionDone, Idle, DeleteShape
  <2>3. CASE DaemonStarts \/ MainMoves \/ \E s \in Sessions : DeveloperWorks(s)
    <3>1. UNCHANGED req
      BY <2>3 DEF DaemonStarts, MainMoves, DeveloperWorks, Boot, StartRecovery, RecoveryStep,
         AdoptLockTask, ClearIdleRow, ResumeTask, BackUpTask, BackupFails, RecoverRestore,
         RecoverUnlock, RecoverClean, RecoveryDone, ExternalMain, DeveloperStep, Edit, CommitWork,
         CommitCandidate, WriteReport
    <3> QED
      BY <3>1 DEF DeleteShape
  <2> QED
    BY <2>1, <2>2, <2>3
<1> QED
  BY <1>b, <1>c, <1>d, <1>e DEF DeleteShape

\* Every step keeps the types and the shapes.
LEMMA DeleteNextTypes ==
    ASSUME DeleteTypes, [DeleteNext]_allVars
    PROVE  DeleteTypes'
<1>1. CASE DeleteNext
  <2>1. TypeOK' /\ Shape' /\ OwnTypes' /\ DeleteShape'
    BY <1>1, BeginType, EffectType, EndType, AddType, DaemonType DEF DeleteNext, DeleteStep
  <2>2. overlap' \subseteq {"request", "join", "recovery", "deletion"} /\ late' \in Commit
    BY <1>1, <2>1, RememberedType DEF DeleteTypes, DeleteTypeOK, TypeOK, DeleteNext
  <2> QED
    BY <2>1, <2>2 DEF DeleteTypes, DeleteTypeOK, OwnTypes
<1>2. CASE UNCHANGED allVars
  <2>1. TypeOK' /\ Shape'
    BY <1>2, SameCore DEF allVars, DeleteTypes, DeleteTypeOK
  <2> QED
    BY <1>2, <2>1 DEF allVars, vars, deleteVars, sessionVars, keptVars, DeleteTypes, DeleteTypeOK,
       DeleteShape
<1> QED
  BY <1>1, <1>2

\* They hold at the start.
LEMMA DeleteInitTypes == DeleteInit => DeleteTypes
<1> SUFFICES ASSUME DeleteInit PROVE DeleteTypes
  OBVIOUS
<1>1. TypeOK /\ Shape
  BY InitType DEF DeleteInit
<1>2. NotDeleting \in Deletion /\ NotDeleting.pc = "off" /\ NotAdding \in Adding /\ NotAdding.pc = "off"
  BY DEF NotDeleting, Deletion, DeletionPc, MaybeSession, SessionState, READY_TO_INTEGRATE_STATES,
     NotAdding, Adding
<1>3. req.pc = "idle" /\ req.cur = NoSession
  BY DEF DeleteInit, Init, Idle
<1>4. mishaps \in [fails : 0 .. MaxDeleteFails, rejoins : 0 .. MaxRejoins]
  BY DeleteAssumption DEF DeleteInit
<1>5. Root \in Commit /\ stash \in Seq(Commit) /\ late \in Commit
  BY CleanStates DEF DeleteInit, Root
<1> QED
  BY <1>1, <1>2, <1>3, <1>4, <1>5 DEF DeleteInit, DeleteTypes, DeleteTypeOK, DeleteShape

\* Every variable keeps its type: an agent that a row names is there, and has a
\* row; a deletion and a join are about a session.
THEOREM DeleteTypesCorrect == DeleteSpec => []DeleteTypeOK
<1>1. DeleteInit => DeleteTypes
  BY DeleteInitTypes
<1>2. DeleteTypes /\ [DeleteNext]_allVars => DeleteTypes'
  BY DeleteNextTypes
<1>3. DeleteTypes => DeleteTypeOK
  BY DEF DeleteTypes
<1> QED
  BY <1>1, <1>2, <1>3, PTL DEF DeleteSpec

-----------------------------------------------------------------------------
(* A session is whole, or says that it is not.                             *)

Whole == worktrees \cap branches

\* Nothing that the history variable remembers happens now.
NoneBeside ==
    /\ ~UnderWay(req.cur) /\ ~UnderWay(adding.cur)
    /\ \A s \in rec.todo : ~UnderWay(s)
    /\ \A d, e \in Deleters : d # e /\ ReadUnmarked(d) => ~PastClaim(e, del[d].cur)

\* A row without the mark belongs to a whole session, unless a deletion is past
\* its claim; a deletion past its claim finds the mark.
UnmarkedWhole ==
    \A s \in registered : row[s].state # "deleting" /\ ~UnderWay(s) => s \in Whole

MarkedUnderWay ==
    \A d \in Deleters, s \in registered : PastClaim(d, s) => row[s].state = "deleting"

\* A deletion that would give back an unmarked row has the row and the whole
\* session before it, until it says that it has mutated something.
GivesBackWhole ==
    \A d \in Deleters : ReadUnmarked(d) =>
        /\ del[d].tree
        /\ del[d].pc = "claim" => del[d].cur \in registered /\ row[del[d].cur].state # "deleting"
        /\ del[d].pc \in {"branch", "record"} => del[d].mutated
        /\ ~del[d].mutated => del[d].cur \in Whole

\* So have a join that will make a row, a request and a recovery.
AddingWhole == adding.pc # "off" => adding.cur \in Whole
RequestsUnmarked == req.pc # "idle" => row[req.cur].state # "deleting"
RecoversUnmarked == \A s \in rec.todo : row[s].state # "deleting"

MarksTrue ==
    /\ UnmarkedWhole /\ MarkedUnderWay /\ GivesBackWhole
    /\ AddingWhole /\ RequestsUnmarked /\ RecoversUnmarked

\* Whatever meets: a row with the mark has no task, a recovery works on what it has listed.
MarkedAtRest == \A s \in Sessions : row[s].state = "deleting" => row[s].task = NoTask
RecoveryListed == rec.pc \in {"restore", "unlock", "clean"} => rec.cur \in rec.todo

WholeInv ==
    /\ MarkedAtRest /\ RecoveryListed
    /\ overlap = {} => NoneBeside /\ MarksTrue

\* When the history remembers nothing, nothing of the kind happens now.
LEMMA OverlapsKnown ==
    ASSUME overlap' = overlap \cup Overlaps', overlap' = {}
    PROVE  overlap = {} /\ NoneBeside'
BY DEF Overlaps, NoneBeside

\* Requests, recoveries and developers, which write rows that are not marked and
\* mark none.
LEMMA UnmarkedWrites ==
    ASSUME DeleteTypes, MarksTrue, UNCHANGED deleteVars,
           \A s \in Sessions : row'[s] # row[s] =>
              row[s].state # "deleting" /\ row'[s].state # "deleting"
    PROVE  UnmarkedWhole' /\ MarkedUnderWay' /\ GivesBackWhole' /\ AddingWhole'
<1> USE DEF MarksTrue, deleteVars, sessionVars, Whole
<1>a. registered \subseteq Sessions /\ \A d \in Deleters : ReadUnmarked(d) => del[d].cur \in Sessions
  BY DEF DeleteTypes, DeleteTypeOK, DeleteShape, ReadUnmarked
<1>1. UnmarkedWhole'
  BY <1>a DEF UnmarkedWhole, UnderWay, PastClaim
<1>2. MarkedUnderWay'
  BY <1>a DEF MarkedUnderWay, PastClaim
<1>3. GivesBackWhole'
  BY <1>a DEF GivesBackWhole, ReadUnmarked
<1>4. AddingWhole'
  BY DEF AddingWhole
<1> QED
  BY <1>1, <1>2, <1>3, <1>4

\* A row that a step of recovery writes is one it has listed, and gets no mark.
LEMMA RecoveryWrites ==
    ASSUME TypeOK, Shape, RecoveryListed, RecoveryStep
    PROVE  /\ \A s \in Sessions : row'[s] # row[s] => s \in rec.todo /\ row'[s].state # "deleting"
           /\ \A s \in Sessions : row'[s] # row[s] /\ row'[s].state = "deleting" => row'[s].task = NoTask
           /\ rec'.todo \subseteq rec.todo
           /\ RecoveryListed'
           /\ UNCHANGED req
<1> USE DEF RecoveryListed
<1>a. row \in [Sessions -> Row] /\ rec \in Recovery
  BY DEF TypeOK
<1>b. ASSUME NEW s, NextSession(s) PROVE rec'.todo \subseteq rec.todo /\ rec'.pc = "scan"
  BY <1>a, <1>b DEF NextSession, Recovery
<1>1. ASSUME NEW s \in Sessions, AdoptLockTask(s) \/ ClearIdleRow(s) \/ ResumeTask(s) \/ BackupFails(s)
      PROVE  /\ \A o \in Sessions : row'[o] # row[o] => o \in rec.todo /\ row'[o].state # "deleting"
             /\ rec'.todo \subseteq rec.todo /\ rec'.pc = "scan" /\ UNCHANGED req
  BY <1>a, <1>b, <1>1, TransitionWrites DEF AdoptLockTask, ClearIdleRow, ResumeTask, BackupFails
<1>2. ASSUME NEW s \in Sessions, BackUpTask(s)
      PROVE  /\ UNCHANGED row /\ rec'.todo = rec.todo /\ rec'.cur \in rec'.todo /\ UNCHANGED req
  BY <1>a, <1>2 DEF BackUpTask, Recovery, dbVars
<1>3. CASE RecoverRestore \/ RecoverUnlock
  <2>1. UNCHANGED <<row, req>> /\ rec'.todo = rec.todo /\ rec'.cur = rec.cur
    BY <1>a, <1>3 DEF RecoverRestore, RecoverUnlock, GotoRecovery, Recovery, dbVars
  <2>2. rec.cur \in rec.todo
    BY <1>3 DEF RecoverRestore, RecoverUnlock
  <2> QED
    BY <2>1, <2>2
<1>4. CASE RecoverClean
  <2>1. rec.cur \in Sessions /\ rec.cur \in rec.todo /\ UNCHANGED req
    BY <1>4 DEF RecoverClean, Shape
  <2>2. \A o \in Sessions : row'[o] # row[o] => o \in rec.todo /\ row'[o].state # "deleting"
    BY <1>a, <1>4, <2>1, TransitionWrites DEF RecoverClean
  <2>3. rec'.todo \subseteq rec.todo /\ rec'.pc = "scan"
    BY <1>4, <1>b DEF RecoverClean
  <2> QED
    BY <2>1, <2>2, <2>3
<1>5. CASE RecoveryDone
  BY <1>5 DEF RecoveryDone, NotRecovering, dbVars
<1> QED
  BY <1>1, <1>2, <1>3, <1>4, <1>5 DEF RecoveryStep

\* What the daemon does keeps the marks true.
LEMMA DaemonMarks ==
    ASSUME DeleteTypes, MarkedAtRest, RecoveryListed,
           \/ RequestStep \/ DaemonStarts \/ MainMoves
           \/ \E s \in Sessions : Arrival(s) \/ DeveloperWorks(s)
    PROVE  /\ MarkedAtRest' /\ RecoveryListed'
           /\ NoneBeside /\ MarksTrue => MarksTrue'
<1>a. /\ TypeOK /\ Shape /\ UNCHANGED deleteVars /\ row \in [Sessions -> Row]
      /\ req.pc # "idle" => req.cur \in Sessions
      /\ req.pc = "idle" => req.cur = NoSession
      /\ rec.todo \subseteq Sessions
  BY DEF DeleteTypes, DeleteTypeOK, RequestStep, DaemonStarts, MainMoves, Arrival, DeveloperWorks,
     TypeOK, Shape, DeleteShape, Recovery
<1> USE DEF MarkedAtRest, RequestsUnmarked, RecoversUnmarked
<1>1. CASE RequestStep
  <2>1. RequestGoesOn /\ WritesOwnRow
    BY <1>1, <1>a, HandlerWrites, HinderedWrites DEF RequestStep
  <2>2. UNCHANGED rec /\ req.pc # "idle"
    BY <2>1 DEF RequestGoesOn, envVars
  <2>3. MarkedAtRest' /\ RecoveryListed'
    BY <2>1, <2>2 DEF WritesOwnRow, RecoveryListed
  <2>4. ASSUME NoneBeside, MarksTrue PROVE MarksTrue'
    <3>1. \A s \in Sessions : row'[s] # row[s] => row[s].state # "deleting" /\ row'[s].state # "deleting"
      BY <2>1, <2>2, <2>4 DEF WritesOwnRow, MarksTrue
    <3>2. RequestsUnmarked'
      BY <1>a, <2>1, <2>2, <2>4, <3>1 DEF RequestGoesOn, MarksTrue
    <3>3. RecoversUnmarked'
      BY <1>a, <2>2, <2>4, <3>1 DEF MarksTrue
    <3> QED
      BY <1>a, <2>4, <3>1, <3>2, <3>3, UnmarkedWrites DEF MarksTrue
  <2> QED
    BY <2>3, <2>4
<1>2. CASE DaemonStarts
  <2>1. CASE RecoveryStep
    <3>1. MarkedAtRest' /\ RecoveryListed'
      BY <1>a, <2>1, RecoveryWrites
    <3>2. ASSUME NoneBeside, MarksTrue PROVE MarksTrue'
      <4>1. \A s \in Sessions : row'[s] # row[s] => row[s].state # "deleting" /\ row'[s].state # "deleting"
        BY <1>a, <2>1, <3>2, RecoveryWrites DEF MarksTrue
      <4>2. RequestsUnmarked' /\ RecoversUnmarked'
        BY <1>a, <2>1, <3>2, <4>1, RecoveryWrites DEF MarksTrue
      <4> QED
        BY <1>a, <3>2, <4>1, <4>2, UnmarkedWrites DEF MarksTrue
    <3> QED
      BY <3>1, <3>2
  <2>2. CASE Boot
    <3>1. /\ UNCHANGED <<row, req>> /\ rec'.pc = "scan"
          /\ rec'.todo = {s \in Sessions : \/ row[s].state \in LEGACY_RECOVERY_STATES
                                           \/ row[s].task # NoTask}
      BY <2>2 DEF Boot, StartRecovery, NotRecovering, dbVars
    <3>2. "deleting" \notin LEGACY_RECOVERY_STATES
      BY DEF LEGACY_RECOVERY_STATES, LEGACY_IDLE_STATES, ACTIVE_INTEGRATION_STATES
    <3>3. MarkedAtRest' /\ RecoveryListed' /\ RecoversUnmarked'
      BY <3>1, <3>2 DEF RecoveryListed
    <3> QED
      BY <1>a, <3>1, <3>3, UnmarkedWrites DEF MarksTrue
  <2> QED
    BY <1>2, <2>1, <2>2 DEF DaemonStarts
<1>3. CASE MainMoves \/ \E s \in Sessions : DeveloperWorks(s)
  <2>1. UNCHANGED <<row, req, rec>>
    BY <1>3 DEF MainMoves, DeveloperWorks, ExternalMain, DeveloperStep, Edit, CommitWork,
       CommitCandidate, WriteReport, dbVars
  <2> QED
    BY <1>a, <2>1, UnmarkedWrites DEF MarksTrue, RecoveryListed
<1>4. ASSUME NEW s \in Sessions, Arrival(s)
      PROVE  /\ MarkedAtRest' /\ RecoveryListed'
             /\ NoneBeside /\ MarksTrue => MarksTrue'
  <2>1. /\ UNCHANGED rec
        /\ \A o \in Sessions : row'[o] # row[o] => row[o].state # "deleting" /\ row'[o].state # "deleting"
        /\ req' = req \/ (req'.pc # "idle" /\ req'.cur = s /\ row'[s].state # "deleting")
    <3>1. CASE ReadyToIntegrate(s)
      <4> DEFINE st == IF row[s].state \in LEGACY_IDLE_STATES /\ row[s].task = NoTask
                         THEN "clean" ELSE row[s].state
      <4> DEFINE r == [row[s] EXCEPT !.state = st]
      <4>1. UNCHANGED rec /\ row' = [row EXCEPT ![s] = r]
        BY <3>1 DEF ReadyToIntegrate, envVars
      <4>2. r.state = st /\ (st = row[s].state => r = row[s])
        BY <1>a DEF Row
      <4>3. st # row[s].state => row[s].state # "deleting" /\ st # "deleting"
        BY DEF LEGACY_IDLE_STATES
      <4>4. req' = req \/ (req'.pc # "idle" /\ req'.cur = s /\ st \in READY_TO_INTEGRATE_STATES)
        BY <3>1 DEF ReadyToIntegrate, Idle
      <4>5. "deleting" \notin READY_TO_INTEGRATE_STATES
        BY DEF READY_TO_INTEGRATE_STATES
      <4> HIDE DEF r, st
      <4> QED
        BY <1>a, <4>1, <4>2, <4>3, <4>4, <4>5
    <3>2. CASE FusionDone(s)
      BY <3>2 DEF FusionDone, Idle, envVars
    <3> QED
      BY <1>4, <3>1, <3>2 DEF Arrival
  <2>2. MarkedAtRest' /\ RecoveryListed'
    BY <2>1 DEF RecoveryListed
  <2>3. ASSUME MarksTrue PROVE MarksTrue'
    <3>1. RequestsUnmarked' /\ RecoversUnmarked'
      BY <1>a, <2>1, <2>3 DEF MarksTrue
    <3> QED
      BY <1>a, <2>1, <2>3, <3>1, UnmarkedWrites DEF MarksTrue
  <2> QED
    BY <2>2, <2>3
<1> QED
  BY <1>1, <1>2, <1>3, <1>4

\* A deletion that looks at a session, claims its row, or does not.
LEMMA BeginMarks ==
    ASSUME DeleteTypes, MarkedAtRest, RecoveryListed, NEW d \in Deleters,
           \/ \E s \in Sessions : DeleteStart(d, s)
           \/ DeleteClaim(d) \/ DeleteRefused(d)
    PROVE  /\ MarkedAtRest' /\ RecoveryListed'
           /\ NoneBeside /\ MarksTrue /\ NoneBeside' => MarksTrue'
<1>a. /\ row \in [Sessions -> Row] /\ del \in [Deleters -> Deletion] /\ registered \subseteq Sessions
      /\ \A e \in Deleters : del[e].pc # "off" => del[e].cur \in Sessions
      /\ req.pc # "idle" => req.cur \in Sessions
      /\ rec.todo \subseteq Sessions
  BY DEF DeleteTypes, DeleteTypeOK, TypeOK, DeleteShape, Shape, Recovery
<1> USE DEF MarkedAtRest, RecoveryListed, Whole
<1>1. ASSUME NEW s \in Sessions, DeleteStart(d, s)
      PROVE  /\ MarkedAtRest' /\ RecoveryListed'
             /\ NoneBeside /\ MarksTrue /\ NoneBeside' => MarksTrue'
  <2>1. /\ UNCHANGED <<row, req, rec, registered, worktrees, branches, adding>>
        /\ del[d].pc = "off" /\ del'[d].cur = s /\ del'[d].old = row[s].state
        /\ del'[d].pc = (IF s \in registered THEN "claim" ELSE "head")
        /\ del'[d].claimed <=> s \in registered
        /\ del'[d].tree <=> s \in worktrees
        /\ ~del'[d].mutated
        /\ \A e \in Deleters : e # d => del'[e] = del[e]
    BY <1>1, <1>a DEF DeleteStart, vars, sessionVars, DeletingAt
  <2>2. ASSUME NoneBeside, MarksTrue, NoneBeside' PROVE MarksTrue'
    <3> USE <2>2 DEF MarksTrue
    <3>1. \A t : UnderWay(t) => UnderWay(t)'
      BY <2>1 DEF UnderWay, PastClaim
    <3>2. UnmarkedWhole'
      BY <2>1, <3>1 DEF UnmarkedWhole
    <3>3. MarkedUnderWay'
      BY <2>1 DEF MarkedUnderWay, PastClaim
    <3>4. ASSUME NEW e \in Deleters, ReadUnmarked(e)'
          PROVE  /\ del'[e].tree
                 /\ del'[e].pc = "claim" => /\ del'[e].cur \in registered
                                            /\ row[del'[e].cur].state # "deleting"
                 /\ del'[e].pc \in {"branch", "record"} => del'[e].mutated
                 /\ ~del'[e].mutated => del'[e].cur \in Whole
      <4>1. CASE e # d
        BY <2>1, <3>4, <4>1 DEF GivesBackWhole, ReadUnmarked
      <4>2. CASE e = d
        <5>1. s \in registered /\ row[s].state # "deleting"
          BY <2>1, <3>4, <4>2 DEF ReadUnmarked
        <5>2. ~UnderWay(s)
          BY <2>1, <3>4, <4>2 DEF NoneBeside, UnderWay, PastClaim, ReadUnmarked
        <5>3. s \in Whole
          BY <5>1, <5>2 DEF UnmarkedWhole
        <5> QED
          BY <2>1, <4>2, <5>1, <5>3
      <4> QED
        BY <4>1, <4>2
    <3>5. GivesBackWhole'
      BY <2>1, <3>4 DEF GivesBackWhole
    <3> QED
      BY <2>1, <3>2, <3>3, <3>5 DEF AddingWhole, RequestsUnmarked, RecoversUnmarked
  <2> QED
    BY <2>1, <2>2
<1>2. CASE DeleteClaim(d)
  <2> DEFINE s == del[d].cur
  <2>1. /\ UNCHANGED <<req, rec, registered, worktrees, branches, adding>>
        /\ s \in Sessions /\ del[d].pc = "claim"
        /\ del'[d].pc = "head"
        /\ \A e \in Deleters : /\ del'[e].cur = del[e].cur /\ del'[e].old = del[e].old
                               /\ del'[e].claimed = del[e].claimed /\ del'[e].tree = del[e].tree
                               /\ del'[e].mutated = del[e].mutated
                               /\ e # d => del'[e] = del[e]
    BY <1>2, <1>a, GotoDeleteType DEF DeleteClaim, sessionVars, envVars, DeletingAt, DeletionPc
  <2>2. /\ s \in registered => row'[s].state = "deleting" /\ row'[s].task = NoTask
        /\ \A o \in Sessions : o # s => row'[o] = row[o]
        /\ s \notin registered => row' = row
    BY <1>2, <1>a, <2>1, TransitionWrites DEF DeleteClaim
  <2> HIDE DEF s
  <2>3. ASSUME NoneBeside, MarksTrue, NoneBeside' PROVE MarksTrue'
    <3> USE <2>3 DEF MarksTrue
    <3>0. del'[d].pc \notin {"off", "claim"} /\ del'[d].cur = s
      BY <2>1 DEF s
    <3>1. \A t : UnderWay(t) => UnderWay(t)'
      BY <2>1 DEF UnderWay, PastClaim
    <3>2. UnmarkedWhole'
      BY <1>a, <2>1, <2>2, <3>1 DEF UnmarkedWhole
    <3>3. MarkedUnderWay'
      <4>1. ASSUME NEW e \in Deleters, NEW t \in registered, PastClaim(e, t)'
            PROVE  row'[t].state = "deleting"
        <5>1. CASE e = d
          BY <1>a, <2>1, <2>2, <4>1, <5>1 DEF PastClaim, s
        <5>2. CASE e # d
          BY <1>a, <2>1, <2>2, <4>1, <5>2 DEF PastClaim, MarkedUnderWay
        <5> QED
          BY <5>1, <5>2
      <4> QED
        BY <2>1, <4>1 DEF MarkedUnderWay
    <3>4. ASSUME NEW e \in Deleters, ReadUnmarked(e)'
          PROVE  /\ del'[e].tree
                 /\ del'[e].pc = "claim" => /\ del'[e].cur \in registered
                                            /\ row'[del'[e].cur].state # "deleting"
                 /\ del'[e].pc \in {"branch", "record"} => del'[e].mutated
                 /\ ~del'[e].mutated => del'[e].cur \in Whole
      <4>1. CASE e # d
        <5>1. del[e].cur # s
          BY <2>1, <3>0, <3>4, <4>1 DEF NoneBeside, PastClaim
        <5> QED
          BY <1>a, <2>1, <2>2, <3>4, <4>1, <5>1 DEF GivesBackWhole, ReadUnmarked
      <4>2. CASE e = d
        BY <2>1, <3>4, <4>2 DEF GivesBackWhole, ReadUnmarked
      <4> QED
        BY <4>1, <4>2
    <3>5. GivesBackWhole'
      BY <2>1, <3>4 DEF GivesBackWhole
    <3>6. req.cur # s /\ s \notin rec.todo
      BY <2>1, <3>0 DEF NoneBeside, UnderWay, PastClaim
    <3>7. RequestsUnmarked' /\ RecoversUnmarked'
      BY <1>a, <2>1, <2>2, <3>6 DEF RequestsUnmarked, RecoversUnmarked
    <3> QED
      BY <2>1, <3>2, <3>3, <3>5, <3>7 DEF AddingWhole
  <2>4. MarkedAtRest' /\ RecoveryListed'
    BY <2>1, <2>2
  <2> QED
    BY <2>3, <2>4
<1>3. CASE DeleteRefused(d)
  <2>1. /\ UNCHANGED <<row, req, rec, registered, worktrees, branches, adding>>
        /\ del[d].pc = "claim" /\ del'[d].pc = "off"
        /\ \A e \in Deleters : e # d => del'[e] = del[e]
    BY <1>3, <1>a, NotDeletingType DEF DeleteRefused, vars, sessionVars, DeletingAt
  <2>2. \A t : UnderWay(t) <=> UnderWay(t)'
    BY <2>1 DEF UnderWay, PastClaim
  <2>3. ASSUME MarksTrue PROVE MarksTrue'
    <3> USE <2>3 DEF MarksTrue
    <3>1. UnmarkedWhole' /\ MarkedUnderWay'
      BY <2>1, <2>2 DEF UnmarkedWhole, MarkedUnderWay, PastClaim
    <3>2. GivesBackWhole'
      BY <2>1 DEF GivesBackWhole, ReadUnmarked
    <3> QED
      BY <2>1, <3>1, <3>2 DEF AddingWhole, RequestsUnmarked, RecoversUnmarked
  <2> QED
    BY <2>1, <2>3
<1> QED
  BY <1>1, <1>2, <1>3

\* A deletion past its claim goes on: it stays past its claim, and what it would
\* give back stays whole.
LEMMA AdvanceMarks ==
    ASSUME DeleteTypes, MarkedAtRest, RecoveryListed, NEW d \in Deleters,
           UNCHANGED <<row, req, rec, registered, adding>>,
           del[d].pc \notin {"off", "claim"}, del'[d].pc \notin {"off", "claim"},
           del[d].mutated => del'[d].mutated,
           del'[d].pc \in {"branch", "record"} =>
              del'[d].mutated \/ ~del[d].tree \/ del[d].pc = "branch",
           \A e \in Deleters : /\ del'[e].cur = del[e].cur /\ del'[e].old = del[e].old
                               /\ del'[e].claimed = del[e].claimed /\ del'[e].tree = del[e].tree
                               /\ e # d => del'[e] = del[e],
           \A s \in Sessions \ {del[d].cur} : s \in Whole => s \in Whole',
           del'[d].mutated \/ ~del[d].tree \/ del[d].pc = "branch" \/ UNCHANGED Whole
    PROVE  /\ MarkedAtRest' /\ RecoveryListed'
           /\ NoneBeside /\ MarksTrue => MarksTrue'
<1>a. /\ \A e \in Deleters : del[e].pc # "off" => del[e].cur \in Sessions
      /\ registered \subseteq Sessions
      /\ adding.pc # "off" => adding.cur \in Sessions
  BY DEF DeleteTypes, DeleteTypeOK, DeleteShape
<1>1. MarkedAtRest' /\ RecoveryListed'
  BY DEF MarkedAtRest, RecoveryListed
<1>2. ASSUME NoneBeside, MarksTrue PROVE MarksTrue'
  <2> USE <1>2 DEF MarksTrue
  <2>1. \A t : UnderWay(t) <=> UnderWay(t)'
    BY DEF UnderWay, PastClaim
  <2>2. UnderWay(del[d].cur)
    BY DEF UnderWay, PastClaim
  <2>3. UnmarkedWhole'
    BY <1>a, <2>1, <2>2 DEF UnmarkedWhole
  <2>4. MarkedUnderWay'
    BY DEF MarkedUnderWay, PastClaim
  <2>5. ASSUME NEW e \in Deleters, ReadUnmarked(e)'
        PROVE  /\ del'[e].tree
               /\ del'[e].pc = "claim" => /\ del'[e].cur \in registered
                                          /\ row[del'[e].cur].state # "deleting"
               /\ del'[e].pc \in {"branch", "record"} => del'[e].mutated
               /\ ~del'[e].mutated => del'[e].cur \in Whole'
    <3>1. CASE e = d
      <4>1. ReadUnmarked(d)
        BY <2>5, <3>1 DEF ReadUnmarked
      <4>2. del[d].tree /\ (del[d].pc = "branch" => del[d].mutated)
        BY <4>1 DEF GivesBackWhole
      <4> QED
        BY <3>1, <4>1, <4>2 DEF GivesBackWhole
    <3>2. CASE e # d
      <4>1. ReadUnmarked(e) /\ del'[e] = del[e]
        BY <2>5, <3>2 DEF ReadUnmarked
      <4>2. del[e].cur # del[d].cur
        BY <3>2, <4>1 DEF NoneBeside, PastClaim
      <4> QED
        BY <1>a, <4>1, <4>2 DEF GivesBackWhole, ReadUnmarked
    <3> QED
      BY <3>1, <3>2
  <2>6. GivesBackWhole'
    BY <2>5 DEF GivesBackWhole
  <2>7. AddingWhole'
    <3>1. adding.cur # del[d].cur
      BY <2>2 DEF NoneBeside
    <3> QED
      BY <1>a, <3>1 DEF AddingWhole
  <2> QED
    BY <2>3, <2>4, <2>6, <2>7 DEF RequestsUnmarked, RecoversUnmarked
<1> QED
  BY <1>1, <1>2

\* The effects of a deletion past its claim, each as a case of AdvanceMarks.
LEMMA EffectMarks ==
    ASSUME DeleteTypes, MarkedAtRest, RecoveryListed, NEW d \in Deleters,
           \/ DeleteBackUpHead(d) \/ DeleteStash(d) \/ DeleteStashRef(d) \/ DeleteStashDrop(d)
           \/ DeleteWorktree(d) \/ DeleteBranch(d)
    PROVE  /\ MarkedAtRest' /\ RecoveryListed'
           /\ NoneBeside /\ MarksTrue => MarksTrue'
<1>a. /\ del \in [Deleters -> Deletion]
      /\ {"stash", "ref", "drop", "remove", "branch", "record"} \subseteq DeletionPc
  BY DEF DeleteTypes, DeleteTypeOK, DeletionPc
<1>1. CASE DeleteBackUpHead(d)
  BY <1>1, <1>a, GotoDeleteType, AdvanceMarks DEF DeleteBackUpHead, DeletingAt, vars, sessionVars, Whole
<1>2. CASE DeleteStash(d)
  BY <1>2, <1>a, GotoDeleteType, AdvanceMarks DEF DeleteStash, DeletingAt, dbVars, envVars,
     sessionVars, Whole
<1>3. CASE DeleteStashRef(d)
  BY <1>3, <1>a, GotoDeleteType, AdvanceMarks DEF DeleteStashRef, DeletingAt, vars, sessionVars, Whole
<1>4. CASE DeleteStashDrop(d)
  BY <1>4, <1>a, GotoDeleteType, AdvanceMarks DEF DeleteStashDrop, DeletingAt, vars, sessionVars, Whole
<1>5. CASE DeleteWorktree(d)
  <2>1. /\ del[d].pc = "remove" /\ UNCHANGED <<row, req, rec, registered, branches, adding>>
        /\ \/ worktrees' = worktrees \ {del[d].cur} /\ GotoMutated(d, "branch")
           \/ ~del[d].tree /\ UNCHANGED worktrees /\ GotoDelete(d, "branch")
    BY <1>5 DEF DeleteWorktree, DeletingAt, dbVars, envVars
  <2> QED
    BY <1>a, <2>1, GotoDeleteType, AdvanceMarks DEF Whole
<1>6. CASE DeleteBranch(d)
  <2>1. /\ del[d].pc = "branch" /\ UNCHANGED <<row, req, rec, registered, worktrees, adding>>
        /\ branches' = branches \ {del[d].cur} /\ GotoDelete(d, "record")
    BY <1>6 DEF DeleteBranch, DeletingAt, dbVars, envVars
  <2> QED
    BY <1>a, <2>1, GotoDeleteType, AdvanceMarks DEF Whole
<1> QED
  BY <1>1, <1>2, <1>3, <1>4, <1>5, <1>6

\* A deletion ends: it has deleted the row, has given it back, or leaves it as it is.
LEMMA EndMarks ==
    ASSUME DeleteTypes, MarkedAtRest, RecoveryListed, NEW d \in Deleters,
           DeleteRecord(d) \/ DeleteFails(d) \/ DeleteDies(d)
    PROVE  /\ MarkedAtRest' /\ RecoveryListed'
           /\ NoneBeside /\ MarksTrue => MarksTrue'
<1> DEFINE s == del[d].cur
<1>a. /\ row \in [Sessions -> Row] /\ del \in [Deleters -> Deletion] /\ registered \subseteq Sessions
      /\ \A e \in Deleters : del[e].pc # "off" => del[e].cur \in Sessions
      /\ req.pc # "idle" => req.cur \in Sessions
      /\ rec.todo \subseteq Sessions
  BY DEF DeleteTypes, DeleteTypeOK, TypeOK, DeleteShape, Shape, Recovery
<1>b. /\ del[d].pc # "off" /\ s \in Sessions /\ del'[d].pc = "off"
      /\ \A e \in Deleters : e # d => del'[e] = del[e]
      /\ UNCHANGED <<req, rec, worktrees, branches, adding>>
  BY <1>a, NotDeletingType DEF DeleteRecord, DeleteFails, DeleteDies, DeletingAt, vars, sessionVars,
     envVars
<1>c. /\ \A o \in Sessions : o # s => row'[o] = row[o]
      /\ registered' \subseteq registered /\ registered \ {s} \subseteq registered'
      /\ \/ UNCHANGED row /\ registered' = registered
         \/ /\ row'[s].task = NoTask /\ del[d].pc \notin {"off", "claim"}
            /\ \/ s \notin registered' /\ row'[s].state = "clean"
               \/ del[d].claimed /\ ~del[d].mutated /\ row'[s].state = del[d].old
                  /\ registered' = registered
  <2>1. CASE DeleteRecord(d)
    BY <1>a, <1>b, <2>1, TransitionWrites DEF DeleteRecord, DeletingAt
  <2>2. CASE DeleteFails(d)
    BY <1>a, <1>b, <2>2, TransitionWrites DEF DeleteFails, sessionVars
  <2>3. CASE DeleteDies(d)
    BY <2>3 DEF DeleteDies, vars, sessionVars
  <2> QED
    BY <2>1, <2>2, <2>3
<1> HIDE DEF s
<1>1. MarkedAtRest' /\ RecoveryListed'
  BY <1>b, <1>c DEF MarkedAtRest, RecoveryListed
<1>2. ASSUME NoneBeside, MarksTrue PROVE MarksTrue'
  <2> USE <1>2 DEF MarksTrue
  <2>1. del[d].pc \notin {"off", "claim"} =>
           /\ req.cur # s /\ adding.cur # s /\ s \notin rec.todo
           /\ \A e \in Deleters : e # d /\ ReadUnmarked(e) => del[e].cur # s
    BY DEF NoneBeside, UnderWay, PastClaim, s
  <2>2. ASSUME row'[s].state # "deleting", s \in registered',
               row # row' \/ del[d].pc \notin {"off", "claim"}
        PROVE  s \in Whole
    <3>1. del[d].pc \notin {"off", "claim"} /\ s \in registered
      BY <1>c, <2>2
    <3>2. row[s].state = "deleting"
      BY <3>1 DEF MarkedUnderWay, PastClaim, s
    <3>3. ReadUnmarked(d) /\ ~del[d].mutated
      BY <1>b, <1>c, <2>2, <3>2 DEF ReadUnmarked
    <3> QED
      BY <3>3 DEF GivesBackWhole, s
  <2>3. UnmarkedWhole'
    <3>1. ASSUME NEW t \in registered', row'[t].state # "deleting", ~UnderWay(t)' PROVE t \in Whole'
      <4>1. CASE t = s /\ (row # row' \/ del[d].pc \notin {"off", "claim"})
        BY <1>b, <2>2, <3>1, <4>1 DEF Whole
      <4>2. CASE ~(t = s /\ (row # row' \/ del[d].pc \notin {"off", "claim"}))
        <5>1. row'[t] = row[t] /\ t \in registered
          BY <1>a, <1>c, <3>1, <4>2
        <5>2. ~UnderWay(t)
          BY <1>b, <3>1, <4>2 DEF UnderWay, PastClaim, s
        <5> QED
          BY <1>b, <3>1, <5>1, <5>2 DEF UnmarkedWhole, Whole
      <4> QED
        BY <4>1, <4>2
    <3> QED
      BY <3>1 DEF UnmarkedWhole
  <2>4. MarkedUnderWay'
    <3>1. ASSUME NEW e \in Deleters, NEW t \in registered', PastClaim(e, t)'
          PROVE  row'[t].state = "deleting"
      <4>1. e # d /\ del'[e] = del[e] /\ PastClaim(e, t) /\ t \in registered
        BY <1>b, <1>c, <3>1 DEF PastClaim
      <4>2. row[t].state = "deleting"
        BY <4>1 DEF MarkedUnderWay
      <4>3. CASE row' = row
        BY <4>2, <4>3
      <4>4. CASE t # s
        BY <1>a, <1>c, <4>1, <4>2, <4>4
      <4>5. CASE row' # row /\ t = s
        <5>1. del[d].claimed /\ row'[s].state = del[d].old /\ del[d].pc # "off"
          BY <1>b, <1>c, <3>1, <4>5
        <5>2. ~ReadUnmarked(d)
          BY <4>1, <4>5 DEF NoneBeside, s
        <5> QED
          BY <4>5, <5>1, <5>2 DEF ReadUnmarked
      <4> QED
        BY <4>3, <4>4, <4>5
    <3> QED
      BY <3>1 DEF MarkedUnderWay
  <2>5. GivesBackWhole'
    <3>1. ASSUME NEW e \in Deleters, ReadUnmarked(e)'
          PROVE  /\ e # d /\ ReadUnmarked(e) /\ del'[e] = del[e]
                 /\ row'[del[e].cur] = row[del[e].cur]
                 /\ del[e].cur \in registered => del[e].cur \in registered'
      <4>1. e # d /\ ReadUnmarked(e) /\ del'[e] = del[e]
        BY <1>b, <3>1 DEF ReadUnmarked
      <4>2. del[e].cur \in Sessions
        BY <1>a, <4>1 DEF ReadUnmarked
      <4> QED
        BY <1>a, <1>c, <2>1, <4>1, <4>2
    <3> QED
      BY <1>b, <3>1 DEF GivesBackWhole, Whole
  <2>6. AddingWhole'
    BY <1>b DEF AddingWhole, Whole
  <2>7. RequestsUnmarked' /\ RecoversUnmarked'
    BY <1>a, <1>b, <1>c, <2>1 DEF RequestsUnmarked, RecoversUnmarked
  <2> QED
    BY <2>3, <2>4, <2>5, <2>6, <2>7
<1> QED
  BY <1>1, <1>2


\* What a join and an agent that stops do to worktrees, branches and rows: they
\* only add, and a row only for the session that is being added.
AddsOnly ==
    /\ UNCHANGED <<req, rec, del>>
    /\ worktrees \subseteq worktrees' /\ branches \subseteq branches'
    /\ adding'.pc # "off" => \/ adding.pc # "off" /\ adding'.cur = adding.cur
                             \/ adding'.cur \in worktrees' \cap branches'
    /\ \/ UNCHANGED <<row, registered>>
       \/ /\ adding.pc # "off" /\ adding.cur \notin registered
          /\ registered' = registered \cup {adding.cur}
          /\ row'[adding.cur].state = "clean" /\ row'[adding.cur].task = NoTask
          /\ \A o \in Sessions : o # adding.cur => row'[o] = row[o]

\* Each step of a join is such a step.
LEMMA JoinsAdd ==
    ASSUME DeleteTypes, AddStep \/ \E s \in Sessions : AgentStops(s)
    PROVE  AddsOnly
<1> USE DEF AddsOnly
<1>a. /\ row \in [Sessions -> Row]
      /\ adding.pc # "off" => adding.cur \in Sessions
      /\ adding \in Adding /\ NotAdding.pc = "off"
  BY DEF DeleteTypes, DeleteTypeOK, TypeOK, DeleteShape, NotAdding
<1>b. ASSUME NEW s \in Sessions, InsertRow(s)
      PROVE  /\ registered' = registered \cup {s}
             /\ row'[s].state = "clean" /\ row'[s].task = NoTask
             /\ \A o \in Sessions : o # s => row'[o] = row[o]
  BY <1>a, <1>b, TransitionWrites DEF InsertRow
<1>1. ASSUME NEW s \in Sessions, JoinWorktree(s) PROVE AddsOnly
  BY <1>1 DEF JoinWorktree, dbVars, envVars
<1>2. CASE JoinRow
  <2>1. /\ UNCHANGED <<req, rec, del, worktrees, branches>> /\ adding.pc # "off"
        /\ IF adding.cur \in registered THEN UNCHANGED <<registered, row>> ELSE InsertRow(adding.cur)
    BY <1>2 DEF JoinRow, envVars
  <2>2. adding'.pc # "off" => adding'.cur = adding.cur
    BY <1>2, <1>a DEF JoinRow, Adding
  <2> QED
    BY <1>a, <1>b, <2>1, <2>2
<1>3. CASE JoinRegister
  <2>1. /\ UNCHANGED <<req, rec, del, worktrees, branches>> /\ adding.pc # "off"
        /\ adding'.pc = "off"
        /\ IF adding.cur \in registered THEN UNCHANGED <<registered, row>> ELSE InsertRow(adding.cur)
    BY <1>3, <1>a DEF JoinRegister, envVars
  <2> QED
    BY <1>a, <1>b, <2>1
<1>4. CASE JoinUnheard \/ \E s \in Sessions : AgentStops(s)
  BY <1>4, <1>a DEF JoinUnheard, AgentStops, vars, sessionVars
<1> QED
  BY <1>1, <1>2, <1>3, <1>4 DEF AddStep

\* Such a step keeps the marks true.
LEMMA AddMarks ==
    ASSUME DeleteTypes, MarkedAtRest, RecoveryListed, AddsOnly
    PROVE  /\ MarkedAtRest' /\ RecoveryListed'
           /\ NoneBeside /\ MarksTrue => MarksTrue'
<1> USE DEF AddsOnly
<1>a. /\ registered \subseteq Sessions
      /\ \A d \in Deleters : del[d].pc # "off" => del[d].cur \in Sessions
      /\ req.pc # "idle" => req.cur \in Sessions
      /\ rec.todo \subseteq Sessions
      /\ adding.pc # "off" => adding.cur \in Sessions
  BY DEF DeleteTypes, DeleteTypeOK, TypeOK, DeleteShape, Shape, Recovery
<1>b. /\ Whole \subseteq Whole'
      /\ adding'.pc # "off" => \/ adding.pc # "off" /\ adding'.cur = adding.cur
                               \/ adding'.cur \in Whole'
  BY DEF Whole
<1>1. MarkedAtRest' /\ RecoveryListed'
  BY <1>a DEF MarkedAtRest, RecoveryListed
<1>2. ASSUME NoneBeside, MarksTrue PROVE MarksTrue'
  <2> USE <1>2 DEF MarksTrue
  <2>1. \A t : UnderWay(t) <=> UnderWay(t)'
    BY DEF UnderWay, PastClaim
  <2>2. ~UnderWay(adding.cur) /\ (adding.pc # "off" => adding.cur \in Whole)
    BY DEF NoneBeside, AddingWhole
  <2>3. UnmarkedWhole'
    BY <1>a, <1>b, <2>1, <2>2 DEF UnmarkedWhole
  <2>4. MarkedUnderWay'
    BY <1>a, <2>2 DEF MarkedUnderWay, UnderWay, PastClaim
  <2>5. GivesBackWhole'
    BY <1>a, <1>b DEF GivesBackWhole, ReadUnmarked
  <2>6. AddingWhole'
    BY <1>b, <2>2 DEF AddingWhole
  <2>7. RequestsUnmarked' /\ RecoversUnmarked'
    BY <1>a DEF RequestsUnmarked, RecoversUnmarked
  <2> QED
    BY <2>3, <2>4, <2>5, <2>6, <2>7
<1> QED
  BY <1>1, <1>2

\* Every step keeps the invariant.
LEMMA DeleteNextWhole ==
    ASSUME DeleteTypes, WholeInv, [DeleteNext]_allVars
    PROVE  WholeInv'
<1> USE DEF WholeInv
<1>1. CASE DeleteNext
  <2>1. /\ MarkedAtRest' /\ RecoveryListed'
        /\ NoneBeside /\ MarksTrue /\ NoneBeside' => MarksTrue'
    BY <1>1, DaemonMarks, BeginMarks, EffectMarks, EndMarks, JoinsAdd, AddMarks
       DEF DeleteNext, DeleteStep
  <2>2. overlap' = {} => overlap = {} /\ NoneBeside'
    BY <1>1, OverlapsKnown DEF DeleteNext, Remembered
  <2> QED
    BY <2>1, <2>2
<1>2. CASE UNCHANGED allVars
  BY <1>2 DEF allVars, vars, deleteVars, sessionVars, keptVars, MarkedAtRest, RecoveryListed,
     NoneBeside, UnderWay, PastClaim, ReadUnmarked, MarksTrue, UnmarkedWhole, MarkedUnderWay,
     GivesBackWhole, AddingWhole, RequestsUnmarked, RecoversUnmarked, Whole
<1> QED
  BY <1>1, <1>2

\* It holds at the start.
LEMMA DeleteInitWhole == DeleteInit => WholeInv
<1> SUFFICES ASSUME DeleteInit PROVE WholeInv
  OBVIOUS
<1>1. /\ \A d \in Deleters : del[d].pc = "off"
      /\ adding.pc = "off" /\ req.pc = "idle" /\ rec.pc = "off" /\ rec.todo = {}
      /\ worktrees = Sessions /\ branches = Sessions /\ registered \subseteq Sessions
  BY DEF DeleteInit, Init, NotDeleting, NotAdding, Idle, NotRecovering
<1>2. \A s \in Sessions : row[s].state # "deleting"
  BY DEF DeleteInit, Init, InitialRow, READY_TO_INTEGRATE_STATES, LEGACY_IDLE_STATES
<1> QED
  BY <1>1, <1>2 DEF WholeInv, MarkedAtRest, RecoveryListed, NoneBeside, UnderWay, PastClaim,
     ReadUnmarked, MarksTrue, UnmarkedWhole, MarkedUnderWay, GivesBackWhole, AddingWhole,
     RequestsUnmarked, RecoversUnmarked, Whole

\* It implies what is to be shown.
LEMMA WholeInvHolds == DeleteTypes /\ WholeInv => SessionsWhole
<1> SUFFICES ASSUME DeleteTypes, WholeInv, overlap = {}, NEW s \in registered,
                    row[s].state # "deleting", ~BeingDeleted(s)
             PROVE  s \in worktrees \cap branches
  BY DEF SessionsWhole
<1>1. ~UnderWay(s)
  BY DEF BeingDeleted, UnderWay, PastClaim
<1> QED
  BY <1>1 DEF WholeInv, MarksTrue, UnmarkedWhole, Whole

\* When no deletion is under way, a row that is not marked "deleting" has its
\* worktree and its branch, whatever fails and wherever deletions are killed -
\* unless a deletion past its claim met a request, a recovery, a join or a
\* deletion of the same session that had read the row before it was marked.
THEOREM SessionsStayWhole == DeleteSpec => []SessionsWhole
<1>1. DeleteInit => DeleteTypes /\ WholeInv
  BY DeleteInitTypes, DeleteInitWhole
<1>2. DeleteTypes /\ WholeInv /\ [DeleteNext]_allVars => (DeleteTypes /\ WholeInv)'
  BY DeleteNextTypes, DeleteNextWhole
<1>3. DeleteTypes /\ WholeInv => SessionsWhole
  BY WholeInvHolds
<1> QED
  BY <1>1, <1>2, <1>3, PTL DEF DeleteSpec

-----------------------------------------------------------------------------
(* Whoever holds the lock between requests is there.                       *)

\* Here the daemon does not die: it recovers once, from rows without a task,
\* before it serves requests.
RecoveryAtRest ==
    /\ req.pc # "idle" => up
    /\ rec.pc \in {"off", "scan"} /\ (rec.pc = "scan" => ~up)
    /\ ~up => lock = NoLock /\ \A s \in Sessions : row[s].task = NoTask
    /\ rec.pc = "scan" => rec.lock = NoLock /\ \A s \in Sessions : rec.rows[s].task = NoTask

\* The lock and the row of the request under way: it holds the lock for its task
\* from the step that takes it to the one that gives it back, and nobody has it
\* at the end of an attempt that is undone; a row is at rest once it is settled.
HoldsAndSettles ==
    /\ HandlerHoldsLock
    /\ req.pc \in {"restore", "abortUnlock"} => lock \in {NoLock, LockOf(req.cur, req.task)}
    /\ req.pc = "abortClean" => lock = NoLock
    /\ req.pc \in {"yield", "unlock", "seen", "release"} => row[req.cur].task = NoTask

\* A request that publishes or starts a task for s has not got to its end: what
\* it writes for s is not settled.
Busy(s) == /\ req.cur = s /\ req.mode # "fused"
           /\ req.pc \notin {"idle", "catchup", "caught", "direct", "start"}

\* A session that its row or the lock says to be on a task, or whose agent is
\* known, is there, and no deletion of it is past its claim.
There(s) == s \in registered \cap worktrees /\ ~UnderWay(s)
OnTask(s) == ~Busy(s) /\ s \in registered /\ row[s].task # NoTask
Holds(s) == ~Busy(s) /\ lock.owner = s

Needed(s) == s \in known \/ OnTask(s) \/ Holds(s)

NeededAreThere ==
    /\ ~UnderWay(adding.cur)
    /\ adding.pc # "off" => adding.cur \in worktrees
    /\ \A s \in Sessions : Needed(s) => There(s)

HolderInv ==
    /\ RecoveryAtRest /\ HoldsAndSettles /\ ModeInv
    /\ "join" \notin overlap => NeededAreThere

\* A step of the handler keeps the lock until it gives it back, and settles the row
\* before.
LEMMA HandlerSettles ==
    ASSUME TypeOK, Shape, HoldsAndSettles, HandlerStep
    PROVE  HoldsAndSettles'
<1> USE DEF HoldsAndSettles, HandlerHoldsLock, NotHolding
<1>a. /\ req \in Request /\ row \in [Sessions -> Row] /\ lock \in Lock
      /\ req.pc # "idle" => req.cur \in Sessions
      /\ main \in Commit
      /\ req.pc # "idle" => head[req.cur] \in Commit /\ Work(req.cur) \in Commit
  BY WorkType DEF TypeOK, Shape
<1>1. CASE CatchUpNothing
  BY <1>1, <1>a, FinishType, TransitionWrites DEF CatchUpNothing, At, cur, SettleRow, LockOf
<1>2. CASE CatchUpFastForward
  BY <1>2, <1>a, GotoWithLatestType, FinishType DEF CatchUpFastForward, At, cur, Pc, DirectTry,
     StartTry, dbVars, LockOf
<1>3. CASE CaughtUp
  BY <1>3, <1>a, FinishType, TransitionWrites DEF CaughtUp, At, cur, SettleRow, LockOf
<1>4. CASE DirectLock
  BY <1>4, <1>a, TransitionWrites DEF DirectLock, At, cur, task, Request, LockOf
<1>5. CASE DirectDecline
  BY <1>5, <1>a, GotoType, FinishType DEF DirectDecline, At, Pc, DirectTry, StartTry, dbVars,
     LockOf
<1>6. CASE DirectRecheck
  BY <1>6, <1>a, GotoWithLatestType, GotoType, TransitionWrites DEF DirectRecheck, At, cur,
     task, Pc, DirectTry, StartTry, LockOf
<1>7. CASE DirectCommit
  BY <1>7, <1>a, GotoWithCandidateType, GotoType DEF DirectCommit, At, cur, Pc, DirectTry,
     StartTry, dbVars, LockOf
<1>8. CASE DirectCompare
  BY <1>8, <1>a, GotoType, TransitionWrites DEF DirectCompare, At, cur, Pc, DirectTry, StartTry,
     LockOf
<1>9. CASE DirectFails
  BY <1>9, <1>a, GotoType, TransitionWrites DEF DirectFails, At, cur, Pc, DirectTry, StartTry,
     LockOf
<1>10. CASE DirectUnlock
  BY <1>10, <1>a, GotoType, FinishType, TransitionWrites DEF DirectUnlock, At, cur, task, Pc,
     DirectTry, StartTry, ReleaseLockIfOwned, LockOf
<1>11. CASE ForwardMain
  BY <1>11, <1>a, GotoType DEF ForwardMain, At, Pc, DirectTry, StartTry, dbVars, LockOf
<1>12. CASE ForceMain
  BY <1>12, <1>a, GotoType DEF ForceMain, At, Pc, DirectTry, StartTry, dbVars, LockOf
<1>13. CASE ForwardRefused
  BY <1>13, <1>a, GotoType, FinishType, TransitionWrites DEF ForwardRefused, At, cur, task, Pc,
     DirectTry, StartTry, LockOf
<1>14. CASE PublishedClean
  BY <1>14, <1>a, GotoType, TransitionWrites DEF PublishedClean, At, cur, Pc, DirectTry,
     StartTry, LockOf
<1>15. CASE PublishedSeen
  BY <1>15, <1>a, GotoType, TransitionWrites DEF PublishedSeen, At, cur, Pc, DirectTry,
     StartTry, LockOf
<1>16. CASE PublishedRelease
  BY <1>16, <1>a, FinishType, TransitionWrites DEF PublishedRelease, At, cur, task,
     ReleaseLockIfOwned, LockOf
<1>17. CASE ClaimIntegrationTask
  BY <1>17, <1>a, TransitionWrites DEF ClaimIntegrationTask, At, cur, task, Request, LockOf
<1>18. CASE StartRefused
  BY <1>18, <1>a, FinishType DEF StartRefused, At, dbVars, LockOf
<1>19. CASE FreezeAcknowledged
  BY <1>19, <1>a, GotoType, TransitionWrites DEF FreezeAcknowledged, At, cur, task, Pc,
     DirectTry, StartTry, LockOf
<1>20. CASE PrepareLockedSync
  BY <1>20, <1>a, GotoType, TransitionWrites DEF PrepareLockedSync, At, cur, task, Pc,
     DirectTry, StartTry, LockOf
<1>21. CASE Snapshot
  BY <1>21, <1>a DEF Snapshot, At, cur, Request, dbVars, LockOf
<1>22. CASE SnapshotRef
  BY <1>22, <1>a, GotoType DEF SnapshotRef, At, task, Pc, DirectTry, StartTry, dbVars, LockOf
<1>23. CASE BaseRef
  BY <1>23, <1>a, GotoType DEF BaseRef, At, task, Pc, DirectTry, StartTry, dbVars, LockOf
<1>24. CASE MergeBegin
  BY <1>24, <1>a, GotoType, TransitionWrites DEF MergeBegin, At, cur, task, Pc, DirectTry,
     StartTry, LockOf
<1>25. CASE GitMerge
  BY <1>25, <1>a, GotoType DEF GitMerge, At, cur, task, Pc, DirectTry, StartTry, dbVars, LockOf
<1>26. CASE ValidateMerge
  BY <1>26, <1>a, GotoWithCandidateType, GotoType DEF ValidateMerge, At, cur, task, Pc,
     DirectTry, StartTry, dbVars, LockOf
<1>27. CASE MergeUnlock
  BY <1>27, <1>a, GotoType, TransitionWrites DEF MergeUnlock, At, cur, task, Pc, DirectTry,
     StartTry, ReleaseLockIfOwned, LockOf
<1>28. CASE ResetToLatest
  BY <1>28, <1>a, GotoType DEF ResetToLatest, At, cur, Pc, DirectTry, StartTry, dbVars, LockOf
<1>29. CASE WriteTaskFile
  BY <1>29, <1>a, GotoType DEF WriteTaskFile, At, task, Pc, DirectTry, StartTry, dbVars, LockOf
<1>30. CASE Fusing
  BY <1>30, <1>a, GotoType, TransitionWrites DEF Fusing, At, cur, task, Pc, DirectTry, StartTry,
     LockOf
<1>31. CASE PromptDelivered
  BY <1>31, <1>a, FinishType DEF PromptDelivered, At, dbVars, LockOf
<1>32. CASE StartFails
  BY <1>32, <1>a, GotoType DEF StartFails, At, Pc, DirectTry, StartTry, dbVars, LockOf
<1>33. CASE AbortRestore
  BY <1>33, <1>a, GotoType DEF AbortRestore, At, cur, task, Pc, DirectTry, StartTry, dbVars,
     LockOf
<1>34. CASE AbortUnlock
  BY <1>34, <1>a, GotoType, TransitionWrites DEF AbortUnlock, At, cur, task, Pc, DirectTry,
     StartTry, ReleaseLockIfOwned, LockOf
<1>35. CASE AbortClean
  BY <1>35, <1>a, FinishType, TransitionWrites DEF AbortClean, At, cur, LockOf
<1>36. CASE NormalizeActiveTask
  BY <1>36, <1>a, TransitionWrites DEF NormalizeActiveTask, At, cur, task, Request, LockOf
<1>37. CASE CheckCandidate
  BY <1>37, <1>a, GotoType, TransitionWrites DEF CheckCandidate, At, cur, task, Pc, DirectTry,
     StartTry, LockOf
<1>38. CASE CheckRefuses
  BY <1>38, <1>a, FinishType, TransitionWrites DEF CheckRefuses, At, cur, task, LockOf
<1>39. CASE VerifyReport
  BY <1>39, <1>a, GotoType, FinishType, TransitionWrites DEF VerifyReport, At, cur, task, Pc,
     DirectTry, StartTry, LockOf
<1>40. CASE VerifyWithoutReport
  BY <1>40, <1>a, FinishType, TransitionWrites DEF VerifyWithoutReport, At, cur, task, LockOf
<1>41. CASE Preflight
  BY <1>41, <1>a, GotoType, FinishType DEF Preflight, At, Pc, DirectTry, StartTry, dbVars,
     LockOf
<1> QED
  BY <1>1, <1>2, <1>3, <1>4, <1>5, <1>6, <1>7, <1>8, <1>9, <1>10, <1>11, <1>12, <1>13, <1>14,
     <1>15, <1>16, <1>17, <1>18, <1>19, <1>20, <1>21, <1>22, <1>23, <1>24, <1>25, <1>26, <1>27,
     <1>28, <1>29, <1>30, <1>31, <1>32, <1>33, <1>34, <1>35, <1>36, <1>37, <1>38, <1>39, <1>40,
     <1>41 DEF HandlerStep

\* A step of the handler puts no session on a task, and gives no session the lock,
\* that was not needed before.  The prompt is given to an agent that is known.
LEMMA HandlerNeeds ==
    ASSUME TypeOK, Shape, HoldsAndSettles, ModeInv, HandlerStep,
           UNCHANGED <<registered, known>>,
           req.pc = "prompt" /\ req'.pc = "idle" => req.cur \in known,
           NEW s \in Sessions, Needed(s)'
    PROVE  Needed(s)
<1> USE DEF HoldsAndSettles, HandlerHoldsLock, NotHolding, ModeInv, Needed, OnTask, Holds, Busy
<1>a. /\ req \in Request /\ row \in [Sessions -> Row] /\ lock \in Lock
      /\ req.pc # "idle" => req.cur \in Sessions
      /\ main \in Commit
      /\ req.pc # "idle" => head[req.cur] \in Commit /\ Work(req.cur) \in Commit
  BY WorkType DEF TypeOK, Shape
<1>b. NoLock.owner # s
  BY ConstantsAssumption DEF NoLock
<1>1. CASE CatchUpNothing
  BY <1>1, <1>a, <1>b, FinishType, TransitionWrites DEF CatchUpNothing, At, cur, SettleRow,
     LockOf
<1>2. CASE CatchUpFastForward
  BY <1>2, <1>a, <1>b, GotoWithLatestType, FinishType DEF CatchUpFastForward, At, cur, Pc,
     DirectTry, StartTry, dbVars, LockOf
<1>3. CASE CaughtUp
  BY <1>3, <1>a, <1>b, FinishType, TransitionWrites DEF CaughtUp, At, cur, SettleRow, LockOf
<1>4. CASE DirectLock
  BY <1>4, <1>a, <1>b, TransitionWrites DEF DirectLock, At, cur, task, Request, LockOf
<1>5. CASE DirectDecline
  BY <1>5, <1>a, <1>b, GotoType, FinishType DEF DirectDecline, At, Pc, DirectTry, StartTry,
     dbVars, LockOf
<1>6. CASE DirectRecheck
  BY <1>6, <1>a, <1>b, GotoWithLatestType, GotoType, TransitionWrites DEF DirectRecheck, At,
     cur, task, Pc, DirectTry, StartTry, LockOf
<1>7. CASE DirectCommit
  BY <1>7, <1>a, <1>b, GotoWithCandidateType, GotoType DEF DirectCommit, At, cur, Pc, DirectTry,
     StartTry, dbVars, LockOf
<1>8. CASE DirectCompare
  BY <1>8, <1>a, <1>b, GotoType, TransitionWrites DEF DirectCompare, At, cur, Pc, DirectTry,
     StartTry, LockOf
<1>9. CASE DirectFails
  BY <1>9, <1>a, <1>b, GotoType, TransitionWrites DEF DirectFails, At, cur, Pc, DirectTry,
     StartTry, LockOf
<1>10. CASE DirectUnlock
  BY <1>10, <1>a, <1>b, GotoType, FinishType, TransitionWrites DEF DirectUnlock, At, cur, task,
     Pc, DirectTry, StartTry, ReleaseLockIfOwned, LockOf
<1>11. CASE ForwardMain
  BY <1>11, <1>a, <1>b, GotoType DEF ForwardMain, At, Pc, DirectTry, StartTry, dbVars, LockOf
<1>12. CASE ForceMain
  BY <1>12, <1>a, <1>b, GotoType DEF ForceMain, At, Pc, DirectTry, StartTry, dbVars, LockOf
<1>13. CASE ForwardRefused
  BY <1>13, <1>a, <1>b, GotoType, FinishType, TransitionWrites DEF ForwardRefused, At, cur,
     task, Pc, DirectTry, StartTry, LockOf
<1>14. CASE PublishedClean
  BY <1>14, <1>a, <1>b, GotoType, TransitionWrites DEF PublishedClean, At, cur, Pc, DirectTry,
     StartTry, LockOf
<1>15. CASE PublishedSeen
  BY <1>15, <1>a, <1>b, GotoType, TransitionWrites DEF PublishedSeen, At, cur, Pc, DirectTry,
     StartTry, LockOf
<1>16. CASE PublishedRelease
  BY <1>16, <1>a, <1>b, FinishType, TransitionWrites DEF PublishedRelease, At, cur, task,
     ReleaseLockIfOwned, LockOf
<1>17. CASE ClaimIntegrationTask
  BY <1>17, <1>a, <1>b, TransitionWrites DEF ClaimIntegrationTask, At, cur, task, Request,
     LockOf
<1>18. CASE StartRefused
  BY <1>18, <1>a, <1>b, FinishType DEF StartRefused, At, dbVars, LockOf
<1>19. CASE FreezeAcknowledged
  BY <1>19, <1>a, <1>b, GotoType, TransitionWrites DEF FreezeAcknowledged, At, cur, task, Pc,
     DirectTry, StartTry, LockOf
<1>20. CASE PrepareLockedSync
  BY <1>20, <1>a, <1>b, GotoType, TransitionWrites DEF PrepareLockedSync, At, cur, task, Pc,
     DirectTry, StartTry, LockOf
<1>21. CASE Snapshot
  BY <1>21, <1>a, <1>b DEF Snapshot, At, cur, Request, dbVars, LockOf
<1>22. CASE SnapshotRef
  BY <1>22, <1>a, <1>b, GotoType DEF SnapshotRef, At, task, Pc, DirectTry, StartTry, dbVars,
     LockOf
<1>23. CASE BaseRef
  BY <1>23, <1>a, <1>b, GotoType DEF BaseRef, At, task, Pc, DirectTry, StartTry, dbVars, LockOf
<1>24. CASE MergeBegin
  BY <1>24, <1>a, <1>b, GotoType, TransitionWrites DEF MergeBegin, At, cur, task, Pc, DirectTry,
     StartTry, LockOf
<1>25. CASE GitMerge
  BY <1>25, <1>a, <1>b, GotoType DEF GitMerge, At, cur, task, Pc, DirectTry, StartTry, dbVars,
     LockOf
<1>26. CASE ValidateMerge
  BY <1>26, <1>a, <1>b, GotoWithCandidateType, GotoType DEF ValidateMerge, At, cur, task, Pc,
     DirectTry, StartTry, dbVars, LockOf
<1>27. CASE MergeUnlock
  BY <1>27, <1>a, <1>b, GotoType, TransitionWrites DEF MergeUnlock, At, cur, task, Pc,
     DirectTry, StartTry, ReleaseLockIfOwned, LockOf
<1>28. CASE ResetToLatest
  BY <1>28, <1>a, <1>b, GotoType DEF ResetToLatest, At, cur, Pc, DirectTry, StartTry, dbVars,
     LockOf
<1>29. CASE WriteTaskFile
  BY <1>29, <1>a, <1>b, GotoType DEF WriteTaskFile, At, task, Pc, DirectTry, StartTry, dbVars,
     LockOf
<1>30. CASE Fusing
  BY <1>30, <1>a, <1>b, GotoType, TransitionWrites DEF Fusing, At, cur, task, Pc, DirectTry,
     StartTry, LockOf
<1>31. CASE PromptDelivered
  BY <1>31, <1>a, <1>b, FinishType DEF PromptDelivered, At, dbVars, LockOf
<1>32. CASE StartFails
  BY <1>32, <1>a, <1>b, GotoType DEF StartFails, At, Pc, DirectTry, StartTry, dbVars, LockOf
<1>33. CASE AbortRestore
  BY <1>33, <1>a, <1>b, GotoType DEF AbortRestore, At, cur, task, Pc, DirectTry, StartTry,
     dbVars, LockOf
<1>34. CASE AbortUnlock
  BY <1>34, <1>a, <1>b, GotoType, TransitionWrites DEF AbortUnlock, At, cur, task, Pc,
     DirectTry, StartTry, ReleaseLockIfOwned, LockOf
<1>35. CASE AbortClean
  BY <1>35, <1>a, <1>b, FinishType, TransitionWrites DEF AbortClean, At, cur, LockOf
<1>36. CASE NormalizeActiveTask
  BY <1>36, <1>a, <1>b, TransitionWrites DEF NormalizeActiveTask, At, cur, task, Request, LockOf
<1>37. CASE CheckCandidate
  BY <1>37, <1>a, <1>b, GotoType, TransitionWrites DEF CheckCandidate, At, cur, task, Pc,
     DirectTry, StartTry, LockOf
<1>38. CASE CheckRefuses
  BY <1>38, <1>a, <1>b, FinishType, TransitionWrites DEF CheckRefuses, At, cur, task, LockOf
<1>39. CASE VerifyReport
  BY <1>39, <1>a, <1>b, GotoType, FinishType, TransitionWrites DEF VerifyReport, At, cur, task,
     Pc, DirectTry, StartTry, LockOf
<1>40. CASE VerifyWithoutReport
  BY <1>40, <1>a, <1>b, FinishType, TransitionWrites DEF VerifyWithoutReport, At, cur, task,
     LockOf
<1>41. CASE Preflight
  BY <1>41, <1>a, <1>b, GotoType, FinishType DEF Preflight, At, Pc, DirectTry, StartTry, dbVars,
     LockOf
<1> QED
  BY <1>1, <1>2, <1>3, <1>4, <1>5, <1>6, <1>7, <1>8, <1>9, <1>10, <1>11, <1>12, <1>13, <1>14,
     <1>15, <1>16, <1>17, <1>18, <1>19, <1>20, <1>21, <1>22, <1>23, <1>24, <1>25, <1>26, <1>27,
     <1>28, <1>29, <1>30, <1>31, <1>32, <1>33, <1>34, <1>35, <1>36, <1>37, <1>38, <1>39, <1>40,
     <1>41 DEF HandlerStep

\* A step that finds something gone does neither.
LEMMA HinderedSettles ==
    ASSUME TypeOK, Shape, HoldsAndSettles, ModeInv, HinderedStep
    PROVE  /\ HoldsAndSettles' /\ ModeInv'
           /\ UNCHANGED <<registered, known>> => \A s \in Sessions : Needed(s)' => Needed(s)
<1> USE DEF HoldsAndSettles, HandlerHoldsLock, NotHolding, ModeInv
<1>a. /\ req \in Request /\ row \in [Sessions -> Row] /\ lock \in Lock
      /\ req.cur \in Sessions /\ req.task \in MaybeTask
      /\ {"start", "fallback", "abortUnlock"} \subseteq Pc
  BY DEF TypeOK, Shape, HinderedStep, Hindered, NeedsWorktree, NeedsRow, At, Pc, StartTry, Request
<1>1. CASE DirectFails \/ StartFails \/ VerifyWithoutReport
  <2>1. HandlerStep
    BY <1>1 DEF HandlerStep
  <2>2. ~(req.pc = "prompt" /\ req'.pc = "idle")
    <3>1. {"unlock", "restore"} \subseteq Pc
      BY DEF Pc
    <3>2. CASE DirectFails
      BY <3>2, <3>1, <1>a, GotoType DEF DirectFails
    <3>3. CASE StartFails
      BY <3>3, <3>1, <1>a, GotoType DEF StartFails
    <3>4. CASE VerifyWithoutReport
      BY <3>4 DEF VerifyWithoutReport, At
    <3> QED
      BY <1>1, <3>2, <3>3, <3>4
  <2>3. HoldsAndSettles' /\ ModeInv'
    BY <2>1, HandlerSettles, HandlerMode
  <2>4. ASSUME UNCHANGED <<registered, known>>, NEW s \in Sessions, Needed(s)' PROVE Needed(s)
    BY <2>1, <2>2, <2>4, HandlerNeeds
  <2> QED
    BY <2>3, <2>4
<1>2. CASE HinderedDirect
  <2>1. /\ req.pc = "direct" /\ UNCHANGED <<row, lock>>
        /\ \/ req'.pc = "start" /\ req'.cur = req.cur
           \/ req'.pc = "idle" /\ req'.cur = NoSession
    BY <1>2, <1>a, GotoType, FinishType DEF HinderedDirect, At, dbVars
  <2> QED
    BY <2>1 DEF StartTry, Needed, OnTask, Holds, Busy
<1>3. CASE HinderedEnds
  <2>1. /\ UNCHANGED <<row, lock>>
        /\ \/ req.pc \in {"catchup", "start", "verify"} /\ req'.pc = "idle" /\ req'.cur = NoSession
           \/ /\ \/ req.pc \in {"merge", "validate"} /\ req'.pc = "fallback"
                 \/ req.pc = "restore" /\ req'.pc = "abortUnlock"
              /\ req'.cur = req.cur /\ req'.task = req.task /\ req'.mode = req.mode
    BY <1>3, <1>a, GotoType, FinishType DEF HinderedEnds, At, dbVars
  <2> QED
    BY <2>1 DEF StartTry, Needed, OnTask, Holds, Busy
<1>4. CASE HinderedTask
  <2>1. /\ req.pc \in {"normalize", "check"} /\ req'.pc = "idle" /\ req'.cur = NoSession
        /\ UNCHANGED lock /\ \A o \in Sessions : o # req.cur => row'[o] = row[o]
    BY <1>4, <1>a, FinishType, TransitionWrites DEF HinderedTask, cur
  <2> QED
    BY <2>1, <1>a DEF StartTry, Needed, OnTask, Holds, Busy, LockOf
<1> QED
  BY <1>1, <1>2, <1>3, <1>4 DEF HinderedStep

\* A process that leaves request and lock alone, and gives no row a task, leaves
\* the request what it holds, and makes no session needed but one whose agent
\* it makes known.
LEMMA OutsideSettles ==
    ASSUME DeleteTypes, HoldsAndSettles, ModeInv, UNCHANGED <<req, lock>>,
           \A t \in Sessions : row'[t].task \in {row[t].task, NoTask},
           \A t \in registered' \ registered : row'[t].task = NoTask
    PROVE  /\ HoldsAndSettles' /\ ModeInv'
           /\ \A s \in Sessions : Needed(s)' => Needed(s) \/ s \in known' \ known
<1>a. req.pc # "idle" => req.cur \in Sessions
  BY DEF DeleteTypes, Shape
<1>1. HoldsAndSettles' /\ ModeInv'
  BY <1>a DEF HoldsAndSettles, HandlerHoldsLock, NotHolding, ModeInv
<1>2. \A s \in Sessions : Busy(s)' <=> Busy(s)
  BY DEF Busy
<1>3. \A s \in Sessions : Needed(s)' => Needed(s) \/ s \in known' \ known
  BY <1>2 DEF Needed, OnTask, Holds
<1> QED
  BY <1>1, <1>3

\* Requests.
LEMMA RequestNeeds ==
    ASSUME DeleteTypes, RecoveryAtRest, HoldsAndSettles, ModeInv, RequestStep
    PROVE  /\ RecoveryAtRest' /\ HoldsAndSettles' /\ ModeInv'
           /\ \A s \in Sessions : Needed(s)' => Needed(s)
<1>a. /\ TypeOK /\ Shape /\ UNCHANGED <<registered, known>>
  BY DEF DeleteTypes, DeleteTypeOK, RequestStep, deleteVars, sessionVars
<1>1. RecoveryAtRest'
  <2>1. RequestGoesOn
    BY <1>a, HandlerWrites, HinderedWrites DEF RequestStep
  <2> QED
    BY <2>1 DEF RequestGoesOn, RecoveryAtRest, envVars
<1>2. CASE Hindered
  BY <1>a, <1>1, <1>2, HinderedSettles DEF RequestStep
<1>3. CASE ~Hindered
  <2>1. req.pc = "prompt" => req.cur \in known
    BY <1>3 DEF Hindered, At, cur
  <2>2. \A s \in Sessions : Needed(s)' => Needed(s)
    BY <1>a, <1>3, <2>1, HandlerNeeds DEF RequestStep
  <2> QED
    BY <1>a, <1>1, <1>3, <2>2, HandlerSettles, HandlerMode DEF RequestStep
<1> QED
  BY <1>2, <1>3

\* The daemon starts, developers work, a request arrives.
LEMMA ArrivalNeeds ==
    ASSUME DeleteTypes, RecoveryAtRest, HoldsAndSettles, ModeInv,
           DaemonStarts \/ MainMoves \/ \E s \in Sessions : Arrival(s) \/ DeveloperWorks(s)
    PROVE  /\ RecoveryAtRest' /\ HoldsAndSettles' /\ ModeInv'
           /\ \A s \in Sessions : Needed(s)' => Needed(s)
<1>a. /\ TypeOK /\ Shape /\ UNCHANGED deleteVars
      /\ UNCHANGED <<registered, known>> /\ row \in [Sessions -> Row] /\ rec \in Recovery
      /\ registered \subseteq Sessions
  BY DEF DeleteTypes, DeleteTypeOK, DaemonStarts, MainMoves, Arrival, DeveloperWorks, deleteVars,
     sessionVars, TypeOK
<1>1. CASE RecoveryStep
  <2>1. rec.pc = "scan"
    BY <1>1 DEF RecoveryStep, AdoptLockTask, ClearIdleRow, ResumeTask, BackUpTask, BackupFails,
       RecoverRestore, RecoverUnlock, RecoverClean, RecoveryDone, Scanning, RecoveryAtRest
  <2>2. \A s \in Sessions : ~OwnsLock(s) /\ TaskToRecover(s) = NoTask
    BY <2>1, ConstantsAssumption DEF OwnsLock, TaskToRecover, RecoveryAtRest, NoLock
  <2>3. ~up /\ req.pc = "idle" /\ lock = NoLock
    BY <2>1 DEF RecoveryAtRest
  <2>4. \/ RecoveryDone
        \/ \E s \in Sessions : ClearIdleRow(s)
    BY <1>1, <2>1, <2>2 DEF RecoveryStep, AdoptLockTask, ResumeTask, BackUpTask, BackupFails,
       TaskMismatch, Resumable, RecoverRestore, RecoverUnlock, RecoverClean
  <2>5. CASE RecoveryDone
    <3>1. UNCHANGED <<row, req, lock>> /\ rec'.pc = "off" /\ up'
      BY <2>5 DEF RecoveryDone, NotRecovering, dbVars
    <3>2. RecoveryAtRest'
      BY <3>1 DEF RecoveryAtRest
    <3> QED
      BY <1>a, <3>1, <3>2, OutsideSettles
  <2>6. ASSUME NEW s \in Sessions, ClearIdleRow(s)
        PROVE  /\ RecoveryAtRest' /\ HoldsAndSettles' /\ ModeInv'
               /\ \A t \in Sessions : Needed(t)' => Needed(t)
    <3>1. /\ UNCHANGED <<req, lock, up>> /\ rec'.pc = "scan" /\ rec'.lock = rec.lock
          /\ rec'.rows = rec.rows
      BY <1>a, <2>6 DEF ClearIdleRow, NextSession, Recovery
    <3>2. \A t \in Sessions : row'[t].task \in {row[t].task, NoTask}
      BY <1>a, <2>6, TransitionWrites DEF ClearIdleRow
    <3>3. RecoveryAtRest'
      BY <2>1, <2>3, <3>1, <3>2 DEF RecoveryAtRest
    <3> QED
      BY <1>a, <3>1, <3>2, <3>3, OutsideSettles
  <2> QED
    BY <2>4, <2>5, <2>6
<1>2. CASE Boot
  <2>1. /\ UNCHANGED <<row, req, lock, up>> /\ ~up /\ rec'.pc = "scan"
        /\ rec'.lock = lock /\ rec'.rows = row
    BY <1>2 DEF Boot, StartRecovery, NotRecovering, dbVars
  <2>2. RecoveryAtRest'
    BY <2>1 DEF RecoveryAtRest
  <2> QED
    BY <1>a, <2>1, <2>2, OutsideSettles
<1>3. CASE MainMoves \/ \E s \in Sessions : DeveloperWorks(s)
  <2>1. UNCHANGED <<row, req, rec, lock, up>>
    BY <1>3 DEF MainMoves, DeveloperWorks, ExternalMain, DeveloperStep, Edit, CommitWork,
       CommitCandidate, WriteReport, dbVars
  <2>2. RecoveryAtRest'
    BY <2>1 DEF RecoveryAtRest
  <2> QED
    BY <1>a, <2>1, <2>2, OutsideSettles
<1>4. ASSUME NEW s \in Sessions, Arrival(s), ReadyToIntegrate(s)
      PROVE  /\ RecoveryAtRest' /\ HoldsAndSettles' /\ ModeInv'
             /\ \A t \in Sessions : Needed(t)' => Needed(t)
  <2>1. /\ up /\ req.pc = "idle" /\ UNCHANGED <<lock, up, rec>>
        /\ req' = req \/ req'.pc \in {"direct", "catchup"}
    BY <1>4 DEF ReadyToIntegrate, At, envVars, Idle
  <2>2. \A t \in Sessions : row'[t].task = row[t].task
    BY <1>4, <1>a DEF ReadyToIntegrate, Row
  <2>3. RecoveryAtRest' /\ HoldsAndSettles' /\ ModeInv'
    BY <2>1, <2>2 DEF RecoveryAtRest, HoldsAndSettles, HandlerHoldsLock, NotHolding, ModeInv, StartTry
  <2>4. \A t \in Sessions : Needed(t)' => Needed(t)
    BY <1>a, <2>1, <2>2 DEF Needed, OnTask, Holds, Busy
  <2> QED
    BY <2>3, <2>4
<1>5. ASSUME NEW s \in Sessions, Arrival(s), FusionDone(s)
      PROVE  /\ RecoveryAtRest' /\ HoldsAndSettles' /\ ModeInv'
             /\ \A t \in Sessions : Needed(t)' => Needed(t)
  <2>1. /\ up /\ req.pc = "idle" /\ UNCHANGED <<row, up, rec>> /\ s \in registered
        /\ row[s].task # NoTask /\ lock' = LockOf(s, row[s].task)
        /\ req'.pc = "normalize" /\ req'.mode = "fused" /\ req'.cur = s /\ req'.task = row[s].task
    BY <1>5 DEF Arrival, FusionDone, At, envVars, Idle
  <2>2. RecoveryAtRest' /\ HoldsAndSettles' /\ ModeInv'
    BY <2>1 DEF RecoveryAtRest, HoldsAndSettles, HandlerHoldsLock, NotHolding, ModeInv, StartTry
  <2>3. OnTask(s) /\ lock'.owner = s
    BY <2>1 DEF OnTask, Busy, LockOf
  <2>4. \A t \in Sessions : Needed(t)' => Needed(t)
    BY <1>a, <2>1, <2>3 DEF Needed, OnTask, Holds, Busy
  <2> QED
    BY <2>2, <2>4
<1> QED
  BY <1>1, <1>2, <1>3, <1>4, <1>5 DEF DaemonStarts, Arrival

\* A deletion that takes worktrees and rows from one session only, and from it
\* only when nothing needs it, leaves the needed ones there.
TakesFrom(s) ==
    /\ UNCHANGED <<req, rec, lock, up, adding>>
    /\ known' \subseteq known /\ registered' \subseteq registered
    /\ \A t \in Sessions : row'[t].task \in {row[t].task, NoTask}
    /\ \A o \in Sessions : o # s /\ There(o) => There(o)'
    /\ There(s) /\ Needed(s)' => There(s)'
    /\ \/ worktrees' = worktrees
       \/ worktrees' = worktrees \ {s} /\ UnderWay(s)'

\* After such a step, what is needed is there as before.
LEMMA TakesFromOne ==
    ASSUME DeleteTypes, RecoveryAtRest, HoldsAndSettles, ModeInv, NEW s \in Sessions, TakesFrom(s)
    PROVE  /\ RecoveryAtRest' /\ HoldsAndSettles' /\ ModeInv'
           /\ NeededAreThere /\ ~UnderWay(adding.cur)' => NeededAreThere'
<1> USE DEF TakesFrom
<1>1. /\ HoldsAndSettles' /\ ModeInv'
      /\ \A o \in Sessions : Needed(o)' => Needed(o)
  BY OutsideSettles
<1>2. RecoveryAtRest'
  BY DEF RecoveryAtRest
<1>3. ASSUME NeededAreThere, ~UnderWay(adding.cur)' PROVE NeededAreThere'
  <2>1. ASSUME NEW o \in Sessions, Needed(o)' PROVE There(o)'
    <3>1. There(o)
      BY <1>1, <1>3, <2>1 DEF NeededAreThere
    <3> QED
      BY <2>1, <3>1
  <2>2. adding.pc # "off" => adding.cur \in worktrees'
    <3>1. adding.pc # "off" => adding.cur \in worktrees
      BY <1>3 DEF NeededAreThere
    <3>2. CASE worktrees' = worktrees
      BY <3>1, <3>2
    <3>3. CASE worktrees' = worktrees \ {s} /\ UnderWay(s)'
      <4>1. adding.cur # s
        BY <1>3, <3>3 DEF UnderWay, PastClaim
      <4> QED
        BY <3>1, <3>3, <4>1
    <3> QED
      BY <3>2, <3>3
  <2> QED
    BY <1>3, <2>1, <2>2 DEF NeededAreThere
<1> QED
  BY <1>1, <1>2, <1>3

\* A deletion looks at a session, claims its row, or does not: it claims nothing
\* that is needed.
LEMMA BeginNeeds ==
    ASSUME DeleteTypes, RecoveryAtRest, HoldsAndSettles, ModeInv, NEW d \in Deleters,
           \/ \E s \in Sessions : DeleteStart(d, s)
           \/ DeleteClaim(d) \/ DeleteRefused(d)
    PROVE  /\ RecoveryAtRest' /\ HoldsAndSettles' /\ ModeInv'
           /\ NeededAreThere /\ ~UnderWay(adding.cur)' => NeededAreThere'
<1>a. /\ row \in [Sessions -> Row] /\ del \in [Deleters -> Deletion] /\ registered \subseteq Sessions
      /\ \A e \in Deleters : del[e].pc # "off" => del[e].cur \in Sessions
  BY DEF DeleteTypes, DeleteTypeOK, TypeOK, DeleteShape
<1>1. ASSUME NEW s \in Sessions, DeleteStart(d, s)
      PROVE  /\ RecoveryAtRest' /\ HoldsAndSettles' /\ ModeInv'
             /\ NeededAreThere /\ ~UnderWay(adding.cur)' => NeededAreThere'
  <2>1. /\ UNCHANGED <<row, req, rec, lock, up, registered, known, worktrees, adding>>
        /\ del'[d].cur = s
        /\ del'[d].pc = (IF s \in registered THEN "claim" ELSE "head")
        /\ \A e \in Deleters : e # d => del'[e] = del[e]
    BY <1>1, <1>a DEF DeleteStart, vars, dbVars, envVars, sessionVars, DeletingAt
  <2>2. \A o \in Sessions : There(o) => There(o)'
    BY <2>1 DEF There, UnderWay, PastClaim
  <2>3. TakesFrom(s)
    BY <2>1, <2>2 DEF TakesFrom
  <2> QED
    BY <2>3, TakesFromOne
<1>2. CASE DeleteClaim(d)
  <2>0. PICK s \in Sessions : s = del[d].cur
    BY <1>2, <1>a DEF DeleteClaim, DeletingAt
  <2>1. /\ UNCHANGED <<req, rec, lock, up, registered, known, worktrees, adding>>
        /\ \A e \in Deleters : del'[e].cur = del[e].cur /\ (e # d => del'[e] = del[e])
    BY <1>2, <1>a, GotoDeleteType DEF DeleteClaim, sessionVars, envVars, DeletingAt, DeletionPc
  <2>2. /\ s \in registered => row'[s].task = NoTask /\ s \notin known /\ lock.owner # s
        /\ \A o \in Sessions : o # s => row'[o] = row[o]
        /\ s \notin registered => row' = row
    BY <1>2, <1>a, <2>0, <2>1, TransitionWrites DEF DeleteClaim
  <2>3. \A o \in Sessions : o # s /\ There(o) => There(o)'
    BY <2>0, <2>1 DEF There, UnderWay, PastClaim
  <2>4. ~(There(s) /\ Needed(s)')
    BY <2>1, <2>2 DEF There, Needed, OnTask, Holds
  <2>5. \A t \in Sessions : row'[t].task \in {row[t].task, NoTask}
    BY <2>2
  <2>6. TakesFrom(s)
    BY <2>1, <2>3, <2>4, <2>5 DEF TakesFrom
  <2> QED
    BY <2>6, TakesFromOne
<1>3. CASE DeleteRefused(d)
  <2>1. /\ UNCHANGED <<row, req, rec, lock, up, registered, known, worktrees, adding>>
        /\ del'[d].pc = "off"
        /\ \A e \in Deleters : e # d => del'[e] = del[e]
    BY <1>3, <1>a, NotDeletingType
       DEF DeleteRefused, vars, dbVars, envVars, sessionVars, DeletingAt
  <2>2. \A o \in Sessions : There(o) => There(o)'
    BY <2>1 DEF There, UnderWay, PastClaim
  <2>3. PICK s \in Sessions : s = del[d].cur
    BY <1>3, <1>a DEF DeleteRefused, DeletingAt
  <2>4. TakesFrom(s)
    BY <2>1, <2>2 DEF TakesFrom
  <2> QED
    BY <2>4, TakesFromOne
<1> QED
  BY <1>1, <1>2, <1>3

\* A deletion past its claim goes on: its session is not needed.
LEMMA EffectNeeds ==
    ASSUME DeleteTypes, RecoveryAtRest, HoldsAndSettles, ModeInv, NEW d \in Deleters,
           \/ DeleteBackUpHead(d) \/ DeleteStash(d) \/ DeleteStashRef(d) \/ DeleteStashDrop(d)
           \/ DeleteWorktree(d) \/ DeleteBranch(d)
    PROVE  /\ RecoveryAtRest' /\ HoldsAndSettles' /\ ModeInv'
           /\ NeededAreThere /\ ~UnderWay(adding.cur)' => NeededAreThere'
<1>a. /\ del \in [Deleters -> Deletion]
      /\ {"stash", "ref", "drop", "remove", "branch", "record"} \subseteq DeletionPc
      /\ \A e \in Deleters : del[e].pc # "off" => del[e].cur \in Sessions
  BY DEF DeleteTypes, DeleteTypeOK, DeleteShape, DeletionPc
<1>b. /\ del[d].pc \notin {"off", "claim"}
      /\ \E pc \in DeletionPc \ {"off", "claim"} : GotoDelete(d, pc) \/ GotoMutated(d, pc)
      /\ UNCHANGED <<row, req, rec, lock, up, registered, known, adding>>
      /\ worktrees' \in {worktrees, worktrees \ {del[d].cur}}
  BY <1>a DEF DeleteBackUpHead, DeleteStash, DeleteStashRef, DeleteStashDrop, DeleteWorktree,
     DeleteBranch, DeletingAt, vars, dbVars, envVars, sessionVars
<1>1. PICK pc \in DeletionPc \ {"off", "claim"} : GotoDelete(d, pc) \/ GotoMutated(d, pc)
  BY <1>b
<1>0. PICK s \in Sessions : s = del[d].cur
  BY <1>a, <1>b
<1>2. /\ del'[d].pc \notin {"off", "claim"} /\ del'[d].cur = s
      /\ \A e \in Deleters : e # d => del'[e] = del[e]
  BY <1>0, <1>a, <1>b, <1>1, GotoDeleteType
<1>3. UnderWay(s) /\ UnderWay(s)'
  BY <1>0, <1>b, <1>2 DEF UnderWay, PastClaim
<1>4. \A o \in Sessions : o # s /\ There(o) => There(o)'
  BY <1>0, <1>b, <1>2 DEF There, UnderWay, PastClaim
<1>5. ~There(s)
  BY <1>3 DEF There
<1>6. TakesFrom(s)
  BY <1>0, <1>b, <1>3, <1>4, <1>5 DEF TakesFrom
<1> QED
  BY <1>6, TakesFromOne

\* A deletion ends.
LEMMA EndNeeds ==
    ASSUME DeleteTypes, RecoveryAtRest, HoldsAndSettles, ModeInv, NEW d \in Deleters,
           DeleteRecord(d) \/ DeleteFails(d) \/ DeleteDies(d)
    PROVE  /\ RecoveryAtRest' /\ HoldsAndSettles' /\ ModeInv'
           /\ NeededAreThere /\ ~UnderWay(adding.cur)' => NeededAreThere'
<1>a. /\ row \in [Sessions -> Row] /\ del \in [Deleters -> Deletion] /\ registered \subseteq Sessions
      /\ \A e \in Deleters : del[e].pc # "off" => del[e].cur \in Sessions
  BY DEF DeleteTypes, DeleteTypeOK, TypeOK, DeleteShape
<1>0. PICK s \in Sessions : s = del[d].cur
  BY <1>a DEF DeleteRecord, DeleteFails, DeleteDies, DeletingAt
<1>b. /\ del[d].pc # "off" /\ del'[d].pc = "off"
      /\ \A e \in Deleters : e # d => del'[e] = del[e]
      /\ UNCHANGED <<req, rec, lock, up, worktrees, adding>>
  BY <1>a, NotDeletingType DEF DeleteRecord, DeleteFails, DeleteDies, DeletingAt, vars, dbVars,
     sessionVars, envVars
<1>c. /\ \A t \in Sessions : row'[t].task \in {row[t].task, NoTask}
      /\ known' \subseteq known /\ registered' \subseteq registered
      /\ registered \ {s} \subseteq registered'
      /\ registered' = registered \/ del[d].pc \notin {"off", "claim"}
  <2>1. CASE DeleteRecord(d)
    BY <1>0, <1>a, <1>b, <2>1, TransitionWrites DEF DeleteRecord, DeletingAt
  <2>2. CASE DeleteFails(d)
    BY <1>0, <1>a, <1>b, <2>2, TransitionWrites DEF DeleteFails, sessionVars
  <2>3. CASE DeleteDies(d)
    BY <2>3 DEF DeleteDies, vars, dbVars, sessionVars
  <2> QED
    BY <2>1, <2>2, <2>3
<1>1. \A o \in Sessions : There(o) => There(o)'
  <2>1. There(s) => UNCHANGED registered
    BY <1>0, <1>c DEF There, UnderWay, PastClaim
  <2> QED
    BY <1>b, <1>c, <2>1 DEF There, UnderWay, PastClaim
<1>2. TakesFrom(s)
  BY <1>b, <1>c, <1>1 DEF TakesFrom
<1> QED
  BY <1>2, TakesFromOne

\* A join makes known whom it has found there; an agent that stops is not needed
\* any more.
LEMMA AddNeeds ==
    ASSUME DeleteTypes, RecoveryAtRest, HoldsAndSettles, ModeInv,
           AddStep \/ \E s \in Sessions : AgentStops(s)
    PROVE  /\ RecoveryAtRest' /\ HoldsAndSettles' /\ ModeInv'
           /\ NeededAreThere /\ ~UnderWay(adding.cur)' => NeededAreThere'
<1>a. /\ row \in [Sessions -> Row] /\ registered \subseteq Sessions
      /\ adding.pc # "off" => adding.cur \in Sessions
  BY DEF DeleteTypes, DeleteTypeOK, TypeOK, DeleteShape
<1>b. /\ UNCHANGED <<req, rec, del>>
      /\ worktrees \subseteq worktrees' /\ registered \subseteq registered'
      /\ adding'.pc # "off" => \/ adding.pc # "off" /\ adding'.cur = adding.cur
                               \/ adding'.cur \in worktrees'
      /\ \A t \in Sessions : row'[t].task \in {row[t].task, NoTask}
      /\ \A t \in registered' \ registered : row'[t].task = NoTask
  BY <1>a, JoinsAdd DEF AddsOnly
<1>c. /\ UNCHANGED <<lock, up>>
      /\ \/ known' \subseteq known
         \/ /\ adding.pc # "off" /\ adding.cur \in registered'
            /\ known' \subseteq known \cup {adding.cur}
  <2>1. CASE JoinRegister
    BY <2>1 DEF JoinRegister, InsertRow, Connected, envVars
  <2>2. CASE JoinRow
    BY <2>2 DEF JoinRow, envVars
  <2>3. CASE JoinUnheard \/ \E s \in Sessions : JoinWorktree(s) \/ AgentStops(s)
    BY <2>3 DEF JoinWorktree, JoinUnheard, AgentStops, vars, dbVars, envVars, sessionVars
  <2> QED
    BY <2>1, <2>2, <2>3 DEF AddStep
<1>1. /\ HoldsAndSettles' /\ ModeInv'
      /\ \A t \in Sessions : Needed(t)' => Needed(t) \/ t \in known' \ known
  BY <1>b, <1>c, OutsideSettles
<1>2. RecoveryAtRest'
  BY <1>b, <1>c DEF RecoveryAtRest
<1>3. ASSUME NeededAreThere, ~UnderWay(adding.cur)' PROVE NeededAreThere'
  <2>1. \A t \in Sessions : UnderWay(t)' <=> UnderWay(t)
    BY <1>b DEF UnderWay, PastClaim
  <2>2. ASSUME NEW t \in Sessions, Needed(t)' PROVE There(t)'
    <3>1. CASE Needed(t)
      BY <1>3, <1>b, <2>1, <3>1 DEF NeededAreThere, There
    <3>2. CASE t \in known' \ known
      <4>1. t = adding.cur /\ adding.pc # "off" /\ t \in registered'
        BY <1>c, <3>2
      <4> QED
        BY <1>3, <1>b, <2>1, <4>1 DEF NeededAreThere, There
    <3> QED
      BY <1>1, <2>2, <3>1, <3>2
  <2>3. adding'.pc # "off" => adding'.cur \in worktrees'
    BY <1>3, <1>b DEF NeededAreThere
  <2> QED
    BY <1>3, <2>2, <2>3 DEF NeededAreThere
<1> QED
  BY <1>1, <1>2, <1>3

\* What is needed stays there through requests, and whatever else leaves sessions alone.
LEMMA NeedsKept ==
    ASSUME NeededAreThere, UNCHANGED deleteVars, \A s \in Sessions : Needed(s)' => Needed(s)
    PROVE  NeededAreThere'
BY DEF NeededAreThere, There, UnderWay, PastClaim, deleteVars, sessionVars

\* Every step keeps the invariant.
LEMMA DeleteNextHolders ==
    ASSUME DeleteTypes, HolderInv, [DeleteNext]_allVars
    PROVE  HolderInv'
<1>a. RecoveryAtRest /\ HoldsAndSettles /\ ModeInv
  BY DEF HolderInv
<1>1. CASE DeleteNext
  <2>1. "join" \notin overlap' => "join" \notin overlap /\ ~UnderWay(adding.cur)'
    BY <1>1 DEF DeleteNext, Remembered, Overlaps
  <2>2. CASE RequestStep
    <3>1. NeededAreThere => NeededAreThere'
      BY <1>a, <2>2, RequestNeeds, NeedsKept DEF RequestStep
    <3> QED
      BY <1>a, <2>1, <2>2, <3>1, RequestNeeds DEF HolderInv
  <2>3. CASE DaemonStarts \/ MainMoves \/ \E s \in Sessions : Arrival(s) \/ DeveloperWorks(s)
    <3>1. UNCHANGED deleteVars
      BY <2>3 DEF DaemonStarts, MainMoves, Arrival, DeveloperWorks
    <3>2. NeededAreThere => NeededAreThere'
      BY <1>a, <2>3, <3>1, ArrivalNeeds, NeedsKept
    <3> QED
      BY <1>a, <2>1, <2>3, <3>2, ArrivalNeeds DEF HolderInv
  <2>4. CASE AddStep \/ \E s \in Sessions : AgentStops(s)
    BY <1>a, <2>1, <2>4, AddNeeds DEF HolderInv
  <2>5. ASSUME NEW d \in Deleters,
               (\E s \in Sessions : DeleteStart(d, s)) \/ DeleteStep(d) \/ DeleteFails(d) \/ DeleteDies(d)
        PROVE  HolderInv'
    BY <1>a, <2>1, <2>5, BeginNeeds, EffectNeeds, EndNeeds DEF HolderInv, DeleteStep
  <2> QED
    BY <1>1, <2>2, <2>3, <2>4, <2>5 DEF DeleteNext
<1>2. CASE UNCHANGED allVars
  BY <1>2 DEF allVars, vars, dbVars, envVars, deleteVars, sessionVars, HolderInv, RecoveryAtRest,
     HoldsAndSettles, HandlerHoldsLock, NotHolding, ModeInv, NeededAreThere, Needed, OnTask, Holds,
     Busy, There, UnderWay, PastClaim
<1> QED
  BY <1>1, <1>2

\* It holds at the start.
LEMMA DeleteInitHolders == DeleteInit => HolderInv
<1> SUFFICES ASSUME DeleteInit PROVE HolderInv
  OBVIOUS
<1>1. /\ \A d \in Deleters : del[d].pc = "off"
      /\ adding.pc = "off" /\ req.pc = "idle" /\ rec.pc = "off" /\ lock = NoLock /\ ~up
      /\ worktrees = Sessions /\ registered \subseteq Sessions /\ known = registered
      /\ \A s \in Sessions : row[s].task = NoTask
  BY DEF DeleteInit, Init, InitialRow, NotDeleting, NotAdding, Idle, NotRecovering
<1>2. \A s \in Sessions : lock.owner # s
  BY <1>1, ConstantsAssumption DEF NoLock
<1> QED
  BY <1>1, <1>2 DEF HolderInv, RecoveryAtRest, HoldsAndSettles, HandlerHoldsLock, NotHolding, ModeInv,
     StartTry, NeededAreThere, Needed, OnTask, Holds, There, UnderWay, PastClaim

\* It implies what is to be shown: between requests nobody is busy, so that the
\* holder of the lock is needed.
LEMMA HolderInvHolds == DeleteTypes /\ HolderInv => LockHolderPresent
<1> SUFFICES ASSUME DeleteTypes, HolderInv, Quiescent, lock # NoLock, "join" \notin overlap
             PROVE  lock.owner \in registered \cap worktrees
  BY DEF LockHolderPresent
<1>1. req.pc = "idle" /\ lock.owner \in Sessions
  BY DEF Quiescent, Idle, DeleteTypes, DeleteTypeOK, TypeOK, Lock
<1>2. Needed(lock.owner)
  BY <1>1 DEF Needed, Holds, Busy
<1> QED
  BY <1>1, <1>2 DEF HolderInv, NeededAreThere, There

\* Between requests, the session that holds the integration lock has its row and
\* its worktree, whatever deletions are started, fail or are killed beside the
\* request that took the lock - unless a join met a deletion past its claim.
THEOREM LockHoldersArePresent == DeleteSpec => []LockHolderPresent
<1>1. DeleteInit => DeleteTypes /\ HolderInv
  BY DeleteInitTypes, DeleteInitHolders
<1>2. DeleteTypes /\ HolderInv /\ [DeleteNext]_allVars => (DeleteTypes /\ HolderInv)'
  BY DeleteNextTypes, DeleteNextHolders
<1>3. DeleteTypes /\ HolderInv => LockHolderPresent
  BY HolderInvHolds
<1> QED
  BY <1>1, <1>2, <1>3, PTL DEF DeleteSpec
-----------------------------------------------------------------------------
(* Nothing is lost with a session.                                         *)

\* There is nothing in a worktree or on a branch that is not there.
HomesEmpty ==
    /\ worktrees \subseteq branches
    /\ \A s \in Sessions : /\ s \notin worktrees => dirty[s] = {}
                           /\ s \notin branches => head[s] = Root

\* What a deletion is about to drop from the stash has a ref of its own.
StashSaved ==
    \A d \in Deleters : del[d].pc = "drop" /\ stash # <<>> => Head(stash) \subseteq deletedRefs

\* The worktree of this deletion has gone, or is about to: when it is there and not
\* its own to remove, Git will not let it have the branch.
TreeGoes(d) == (del[d].tree /\ del[d].pc # "branch") \/ del[d].cur \notin worktrees

\* A worktree that is about to go has nothing uncommitted but what came late; what is
\* on a branch that is about to go is below a ref, on main, or late.
DeletionSaves ==
    \A d \in Deleters :
        /\ del[d].tree /\ del[d].pc \in {"ref", "drop", "remove"}
              => dirty[del[d].cur] \subseteq late
        /\ del[d].pc \in {"stash", "ref", "drop", "remove", "branch"} /\ TreeGoes(d)
              => head[del[d].cur] \cap Authored \subseteq deletedRefs \cup main \cup late

\* Requests lose nothing, as in WorkInv.
KeepInv == TaskIds /\ WorkInv /\ HomesEmpty /\ StashSaved /\ DeletionSaves

\* Beside what WorkKept counts: the refs of deletions, and the stash.
HeldAside(a) == a \in deletedRefs \/ \E i \in DOMAIN stash : a \in stash[i]

\* What a step has to keep.
KeepsAll ==
    /\ TaskIds' /\ WorkInv' /\ HomesEmpty' /\ StashSaved'
    /\ DeletionSaves => DeletionSaves' /\ KeptWhenDeleted \ late \subseteq KeptWhenDeleted'

\* While a deletion is under way, what was late stays so, and what comes into a
\* worktree behind it is.
LEMMA RememberedLate ==
    ASSUME Remembered, NEW d \in Deleters, del'[d].pc # "off"
    PROVE  /\ late \subseteq late'
           /\ \A s \in Sessions : WrittenLate(s) \subseteq late'
<1>1. late' = late \cup UNION {WrittenLate(s) : s \in Sessions}
  BY DEF Remembered
<1> QED
  BY <1>1

\* What is kept, one atom at a time.
LEMMA KeptAside ==
    \A a : a \in KeptWhenDeleted <=> a \in Authored /\ (a \in Kept \/ HeldAside(a))
<1> SUFFICES ASSUME NEW a
             PROVE  a \in KeptWhenDeleted <=> a \in Authored /\ (a \in Kept \/ HeldAside(a))
  OBVIOUS
<1> DEFINE A == UNION {stash[i] : i \in DOMAIN stash}
<1>1. a \in A <=> \E i \in DOMAIN stash : a \in stash[i]
  OBVIOUS
<1>2. KeptWhenDeleted = (Kept \cap Authored) \cup ((deletedRefs \cup A) \cap Authored)
  BY DEF KeptWhenDeleted, WorkKept, Authored
<1> HIDE DEF A
<1> QED
  BY <1>1, <1>2 DEF HeldAside

\* The same, of the next state.
LEMMA KeptAsideNext ==
    \A a : a \in KeptWhenDeleted' <=> a \in Authored /\ (a \in Kept' \/ HeldAside(a)')
<1> SUFFICES ASSUME NEW a
             PROVE  a \in KeptWhenDeleted' <=> a \in Authored /\ (a \in Kept' \/ HeldAside(a)')
  OBVIOUS
<1> DEFINE A == UNION {stash'[i] : i \in DOMAIN stash'}
<1>1. a \in A <=> \E i \in DOMAIN stash' : a \in stash'[i]
  OBVIOUS
<1>2. KeptWhenDeleted' = (Kept' \cap Authored) \cup ((deletedRefs' \cup A) \cap Authored)
  BY DEF KeptWhenDeleted, WorkKept, Authored
<1> HIDE DEF A
<1> QED
  BY <1>1, <1>2 DEF HeldAside

\* Deletions, joins and agents leave main, refs and requests alone, give no tasks, and
\* bring nothing into a worktree but what is on main.
Outside ==
    /\ UNCHANGED <<main, refVars, lock, req, rec, joining, used>>
    /\ \A t \in Sessions : row'[t].task \in {row[t].task, NoTask}
    /\ \A t \in Sessions : Work(t)' \cap Authored \subseteq Work(t) \cup main

LEMMA OutsideKeeps ==
    ASSUME Shape, TaskIds, WorkInv, Outside
    PROVE  /\ TaskIds' /\ WorkInv'
           /\ (\A a \in Authored \ late : (\E s \in Sessions : a \in Work(s)) \/ HeldAside(a)
                  => a \in main \/ (\E s \in Sessions : a \in Work(s)') \/ HeldAside(a)')
              => KeptWhenDeleted \ late \subseteq KeptWhenDeleted'
<1> USE DEF Outside
<1>1. TaskIds'
  <2>1. NoTask \notin Task
    BY ConstantsAssumption DEF NoTask, Task
  <2>2. \A t \in Task : \A s \in Sessions : IsTaskOf(t, s)' => IsTaskOf(t, s)
    BY <2>1 DEF IsTaskOf
  <2>3. UNCHANGED <<snapshotRef, used>>
    BY DEF refVars
  <2> QED
    BY <2>2, <2>3 DEF TaskIds
<1>2. Saved' = Saved /\ main \subseteq Saved
  BY SavedAtoms DEF Saved, refVars
<1>3. SavedWorktrees \subseteq SavedWorktrees'
  BY <1>2 DEF SavedWorktrees
<1>4. req.pc = "snapRef" => Work(req.cur)' \cap Authored \subseteq Saved \cup req.cand
  <2>1. req.pc = "snapRef" => /\ req.cur \in Sessions
                             /\ Work(req.cur) \cap Authored \subseteq Saved \cup req.cand
    BY DEF Shape, WorkInv, SavedByRequest
  <2>2. \A t \in Sessions : t = req.cur => Work(req.cur)' \cap Authored \subseteq Work(t) \cup main
    OBVIOUS
  <2> QED
    BY <2>1, <2>2, <1>2
<1>5. WorkInv'
  <2>1. FirmMain' = FirmMain
    BY DEF FirmMain
  <2>2. SavedByRequest'
    BY <1>2, <1>3, <1>4, <2>1 DEF WorkInv, SavedByRequest, refVars
  <2>3. SavedByRecovery' /\ ForcedKeepsWork'
    BY <1>3 DEF WorkInv, SavedByRecovery, ForcedKeepsWork
  <2> QED
    BY <2>2, <2>3 DEF WorkInv
<1>6. ASSUME \A a \in Authored \ late : (\E s \in Sessions : a \in Work(s)) \/ HeldAside(a)
                => a \in main \/ (\E s \in Sessions : a \in Work(s)') \/ HeldAside(a)'
      PROVE  KeptWhenDeleted \ late \subseteq KeptWhenDeleted'
  BY <1>2, <1>6, KeptAside, KeptAsideNext, KeptAtoms, KeptAtomsNext
<1> QED
  BY <1>1, <1>5, <1>6

\* What a deletion leaves alone when it looks, claims or ends.
TakesNothing(d) ==
    /\ UNCHANGED <<main, head, dirty, refVars, lock, req, rec, joining, used, stash, deletedRefs,
                   worktrees, branches>>
    /\ del'[d].pc \in {"off", "claim", "head"}
    /\ \A e \in Deleters : e # d => del'[e] = del[e]
    /\ \A t \in Sessions : row'[t].task \in {row[t].task, NoTask}

\* A deletion looks, claims or ends: it takes nothing away.
LEMMA MarginKeeps ==
    ASSUME DeleteTypes, TaskIds, WorkInv, HomesEmpty, StashSaved, Remembered, NEW d \in Deleters,
           \/ \E s \in Sessions : DeleteStart(d, s)
           \/ DeleteClaim(d) \/ DeleteRefused(d)
           \/ DeleteRecord(d) \/ DeleteFails(d) \/ DeleteDies(d)
    PROVE  KeepsAll
<1>a. /\ row \in [Sessions -> Row] /\ del \in [Deleters -> Deletion] /\ registered \subseteq Sessions
      /\ \A e \in Deleters : del[e].pc # "off" => del[e].cur \in Sessions
      /\ Shape /\ {"claim", "head"} \subseteq DeletionPc
  BY DEF DeleteTypes, DeleteTypeOK, TypeOK, DeleteShape, DeletionPc
<1>1. TakesNothing(d)
  <2> USE DEF TakesNothing
  <2>1. ASSUME NEW s \in Sessions, DeleteStart(d, s) PROVE TakesNothing(d)
    BY <1>a, <2>1 DEF DeleteStart, vars, sessionVars, keptVars, refVars
  <2>2. CASE DeleteClaim(d)
    BY <1>a, <2>2, GotoDeleteType, TransitionWrites DEF DeleteClaim, DeletingAt, gitVars, envVars,
       sessionVars, keptVars
  <2>3. CASE DeleteRefused(d) \/ DeleteDies(d)
    BY <1>a, <2>3, NotDeletingType DEF DeleteRefused, DeleteDies, vars, sessionVars, keptVars, refVars
  <2>4. CASE DeleteRecord(d)
    <3>1. PICK s \in Sessions : s = del[d].cur
      BY <1>a, <2>4 DEF DeleteRecord, DeletingAt
    <3>2. \A t \in Sessions : row'[t].task \in {row[t].task, NoTask}
      BY <1>a, <2>4, <3>1, TransitionWrites DEF DeleteRecord
    <3> QED
      BY <1>a, <2>4, <3>2, NotDeletingType DEF DeleteRecord, gitVars, envVars, keptVars
  <2>5. CASE DeleteFails(d)
    <3>1. PICK s \in Sessions : s = del[d].cur
      BY <1>a, <2>5 DEF DeleteFails
    <3>2. \A t \in Sessions : row'[t].task \in {row[t].task, NoTask}
      BY <1>a, <2>5, <3>1, TransitionWrites DEF DeleteFails
    <3> QED
      BY <1>a, <2>5, <3>2, NotDeletingType DEF DeleteFails, gitVars, envVars, sessionVars, keptVars
  <2> QED
    BY <2>1, <2>2, <2>3, <2>4, <2>5
<1>2. HomesEmpty' /\ StashSaved'
  BY <1>1 DEF TakesNothing, HomesEmpty, StashSaved
<1>3. DeletionSaves => DeletionSaves'
  BY <1>1, RememberedLate DEF TakesNothing, DeletionSaves, TreeGoes
<1>4. Outside
  BY <1>1 DEF TakesNothing, Outside, Work
<1>5. \A a : /\ \A s \in Sessions : a \in Work(s) <=> a \in Work(s)'
             /\ HeldAside(a) <=> HeldAside(a)'
  BY <1>1 DEF TakesNothing, Work, HeldAside
<1> QED
  BY <1>a, <1>2, <1>3, <1>4, <1>5, OutsideKeeps DEF KeepsAll

\* An effect of a deletion, if no other is under way: what it takes away is kept
\* already.
LEMMA EffectKeeps ==
    ASSUME DeleteTypes, TaskIds, WorkInv, HomesEmpty, StashSaved, Remembered, NEW d \in Deleters,
           \A e \in Deleters : e = d,
           \/ DeleteBackUpHead(d) \/ DeleteStash(d) \/ DeleteStashRef(d) \/ DeleteStashDrop(d)
           \/ DeleteWorktree(d) \/ DeleteBranch(d)
    PROVE  KeepsAll
<1>a. /\ del \in [Deleters -> Deletion] /\ head \in [Sessions -> Commit]
      /\ dirty \in [Sessions -> Commit] /\ stash \in Seq(Commit)
      /\ worktrees \subseteq Sessions /\ branches \subseteq Sessions
      /\ Shape /\ {"stash", "ref", "drop", "remove", "branch", "record"} \subseteq DeletionPc
  BY DEF DeleteTypes, DeleteTypeOK, TypeOK, DeletionPc
<1>b. PICK s \in Sessions : s = del[d].cur
  BY DEF DeleteTypes, DeleteShape, DeleteBackUpHead, DeleteStash, DeleteStashRef, DeleteStashDrop,
     DeleteWorktree, DeleteBranch, DeletingAt
<1>d. del'[d].pc # "off" => late \subseteq late'
  BY RememberedLate
<1>c. /\ UNCHANGED <<main, refVars, lock, row, req, rec, joining, used>>
      /\ del'[d].cur = s /\ del'[d].tree = del[d].tree
      /\ \A r \in Sessions : r # s => UNCHANGED <<head[r], dirty[r]>>
  BY <1>a, <1>b, GotoDeleteType DEF DeleteBackUpHead, DeleteStash, DeleteStashRef, DeleteStashDrop,
     DeleteWorktree, DeleteBranch, vars, dbVars, envVars, refVars
<1>1. CASE DeleteBackUpHead(d)
  <2>1. /\ del'[d].pc = "stash" /\ UNCHANGED <<main, head, dirty, stash, worktrees, branches>>
        /\ deletedRefs \subseteq deletedRefs'
        /\ s \in branches => head[s] \subseteq deletedRefs'
    BY <1>a, <1>b, <1>1, GotoDeleteType DEF DeleteBackUpHead, vars, sessionVars
  <2>2. HomesEmpty' /\ StashSaved'
    BY <2>1 DEF HomesEmpty, StashSaved
  <2>3. DeletionSaves'
    BY <1>b, <1>c, <2>1 DEF DeletionSaves, TreeGoes, HomesEmpty, Root
  <2>4. Outside
    BY <1>c, <2>1 DEF Outside, Work
  <2>5. \A a : /\ \A r \in Sessions : a \in Work(r) <=> a \in Work(r)'
               /\ HeldAside(a) => HeldAside(a)'
    BY <2>1 DEF Work, HeldAside
  <2> QED
    BY <1>a, <2>2, <2>3, <2>4, <2>5, OutsideKeeps DEF KeepsAll
<1>2. CASE DeleteStash(d)
  <2>1. /\ UNCHANGED <<main, head, deletedRefs, worktrees, branches>>
        /\ \/ /\ del'[d].pc = "ref" /\ dirty' = [dirty EXCEPT ![s] = {}]
              /\ stash' = <<Work(s)>> \o stash
           \/ /\ del'[d].pc = "remove" /\ (del[d].tree => dirty[s] = {})
              /\ UNCHANGED <<stash, dirty>>
        /\ del[d].pc = "stash"
    BY <1>a, <1>b, <1>2, GotoDeleteType DEF DeleteStash, DeletingAt, sessionVars
  <2>2. dirty'[s] = {} \/ (dirty' = dirty /\ (del[d].tree => dirty[s] = {}))
    BY <1>a, <2>1
  <2>3. HomesEmpty' /\ StashSaved'
    BY <1>c, <2>1, <2>2 DEF HomesEmpty, StashSaved
  <2>4. DeletionSaves => DeletionSaves'
    BY <1>b, <1>c, <1>d, <2>1, <2>2 DEF DeletionSaves, TreeGoes
  <2>5. \A r \in Sessions : Work(r)' \subseteq Work(r)
    BY <1>c, <2>1, <2>2 DEF Work, CommitOf
  <2>6. Outside
    BY <1>c, <2>5 DEF Outside
  <2>7. ASSUME NEW a, (\E r \in Sessions : a \in Work(r)) \/ HeldAside(a)
        PROVE  (\E r \in Sessions : a \in Work(r)') \/ HeldAside(a)'
    <3>1. CASE UNCHANGED <<stash, dirty>>
      BY <2>1, <2>7, <3>1 DEF Work, HeldAside
    <3>2. CASE stash' = <<Work(s)>> \o stash
      <4>1. Work(s) \in Commit
        BY <1>a DEF Work, CommitOf, Commit
      <4>2. <<Work(s)>> \in Seq(Commit) /\ Len(<<Work(s)>>) = 1 /\ <<Work(s)>>[1] = Work(s)
        BY <4>1
      <4>3. /\ DOMAIN stash' = 1 .. Len(stash) + 1 /\ DOMAIN stash = 1 .. Len(stash)
            /\ stash'[1] = Work(s) /\ \A i \in DOMAIN stash : stash'[i + 1] = stash[i]
        BY <1>a, <3>2, <4>2, ConcatProperties, LenProperties
      <4>4. HeldAside(a) => HeldAside(a)'
        BY <2>1, <1>a, <4>3, LenProperties DEF HeldAside
      <4>5. a \in Work(s) => HeldAside(a)'
        BY <1>a, <4>3, LenProperties DEF HeldAside
      <4>6. \A r \in Sessions : r # s => Work(r)' = Work(r)
        BY <1>c DEF Work
      <4> QED
        BY <2>7, <4>4, <4>5, <4>6
    <3> QED
      BY <2>1, <3>1, <3>2
  <2> QED
    BY <1>a, <2>3, <2>4, <2>6, <2>7, OutsideKeeps DEF KeepsAll
<1>3. CASE DeleteStashRef(d)
  <2>1. /\ UNCHANGED <<main, head, dirty, stash, worktrees, branches>>
        /\ del[d].pc = "ref" /\ del'[d].pc = "drop"
        /\ deletedRefs' = deletedRefs \cup Head(stash)
    BY <1>a, <1>b, <1>3, GotoDeleteType DEF DeleteStashRef, DeletingAt, vars, sessionVars
  <2>2. HomesEmpty' /\ StashSaved'
    BY <2>1 DEF HomesEmpty, StashSaved
  <2>3. DeletionSaves => DeletionSaves'
    BY <1>b, <1>c, <1>d, <2>1 DEF DeletionSaves, TreeGoes
  <2>4. Outside
    BY <1>c, <2>1 DEF Outside, Work
  <2>5. \A a : /\ \A r \in Sessions : a \in Work(r) <=> a \in Work(r)'
               /\ HeldAside(a) => HeldAside(a)'
    BY <2>1 DEF Work, HeldAside
  <2> QED
    BY <1>a, <2>2, <2>3, <2>4, <2>5, OutsideKeeps DEF KeepsAll
<1>4. CASE DeleteStashDrop(d)
  <2>1. /\ UNCHANGED <<main, head, dirty, deletedRefs, worktrees, branches>>
        /\ del[d].pc = "drop" /\ del'[d].pc = "remove"
        /\ stash' = IF stash = <<>> THEN stash ELSE Tail(stash)
    BY <1>a, <1>b, <1>4, GotoDeleteType DEF DeleteStashDrop, DeletingAt, vars, sessionVars
  <2>2. HomesEmpty' /\ StashSaved'
    BY <2>1 DEF HomesEmpty, StashSaved
  <2>3. DeletionSaves => DeletionSaves'
    BY <1>b, <1>c, <1>d, <2>1 DEF DeletionSaves, TreeGoes
  <2>4. Outside
    BY <1>c, <2>1 DEF Outside, Work
  <2>5. ASSUME NEW a, HeldAside(a) PROVE HeldAside(a)'
    <3>1. CASE stash = <<>> \/ a \in deletedRefs
      BY <2>1, <2>5, <3>1 DEF HeldAside
    <3>2. CASE stash # <<>> /\ a \notin deletedRefs
      <4>1. PICK i \in DOMAIN stash : a \in stash[i]
        BY <2>5, <3>2 DEF HeldAside
      <4>2. Head(stash) \subseteq deletedRefs
        BY <2>1, <3>2 DEF StashSaved
      <4>3. /\ DOMAIN stash = 1 .. Len(stash) /\ Len(stash) \in Nat
            /\ Tail(stash) \in Seq(Commit) /\ Len(Tail(stash)) = Len(stash) - 1
            /\ Head(stash) = stash[1]
            /\ \A j \in 1 .. Len(Tail(stash)) : Tail(stash)[j] = stash[j + 1]
        BY <1>a, <3>2, HeadTailProperties, LenProperties
      <4>4. DOMAIN Tail(stash) = 1 .. Len(stash) - 1
        BY <4>3, LenProperties
      <4>5. i # 1
        BY <3>2, <4>1, <4>2, <4>3
      <4>6. i - 1 \in DOMAIN Tail(stash) /\ Tail(stash)[i - 1] = stash[i]
        BY <4>1, <4>3, <4>4, <4>5
      <4> QED
        BY <2>1, <3>2, <4>1, <4>6 DEF HeldAside
    <3> QED
      BY <3>1, <3>2
  <2>6. \A a : \A r \in Sessions : a \in Work(r) <=> a \in Work(r)'
    BY <2>1 DEF Work
  <2> QED
    BY <1>a, <2>2, <2>3, <2>4, <2>5, <2>6, OutsideKeeps DEF KeepsAll
<1>5. CASE DeleteWorktree(d)
  <2>1. /\ UNCHANGED <<main, head, stash, deletedRefs, branches>>
        /\ del[d].pc = "remove" /\ del'[d].pc = "branch"
        /\ \/ del[d].tree /\ worktrees' = worktrees \ {s} /\ dirty' = [dirty EXCEPT ![s] = {}]
           \/ UNCHANGED <<worktrees, dirty>>
    BY <1>a, <1>b, <1>5, GotoDeleteType DEF DeleteWorktree, DeletingAt, keptVars
  <2>2. dirty'[s] \subseteq dirty[s] /\ (s \notin worktrees' => dirty'[s] = {})
    BY <1>a, <2>1 DEF HomesEmpty
  <2>3. HomesEmpty' /\ StashSaved'
    BY <1>c, <2>1, <2>2 DEF HomesEmpty, StashSaved
  <2>4. DeletionSaves => DeletionSaves'
    BY <1>b, <1>c, <1>d, <2>1 DEF DeletionSaves, TreeGoes
  <2>5. Outside
    BY <1>c, <2>1, <2>2 DEF Outside, Work, CommitOf
  <2>6. ASSUME DeletionSaves PROVE KeptWhenDeleted \ late \subseteq KeptWhenDeleted'
    <3>1. dirty[s] \subseteq dirty'[s] \cup late
      BY <1>a, <1>b, <2>1, <2>6 DEF DeletionSaves
    <3>2. \A r \in Sessions : Work(r) \subseteq Work(r)' \cup late
      BY <1>c, <2>1, <3>1 DEF Work, CommitOf
    <3>3. \A a : HeldAside(a) => HeldAside(a)'
      BY <2>1 DEF HeldAside
    <3> QED
      BY <1>a, <2>5, <3>2, <3>3, OutsideKeeps
  <2>7. TaskIds' /\ WorkInv'
    BY <1>a, <2>5, OutsideKeeps
  <2> QED
    BY <2>3, <2>4, <2>6, <2>7 DEF KeepsAll
<1>6. CASE DeleteBranch(d)
  <2>1. /\ UNCHANGED <<main, dirty, stash, deletedRefs, worktrees>>
        /\ del[d].pc = "branch" /\ del'[d].pc = "record"
        /\ branches' = branches \ {s} /\ (s \in branches => s \notin worktrees)
        /\ head' = (IF s \in branches THEN [head EXCEPT ![s] = Root] ELSE head)
    BY <1>a, <1>b, <1>6, GotoDeleteType DEF DeleteBranch, DeletingAt, keptVars
  <2>2. head'[s] = Root
    BY <1>a, <2>1 DEF HomesEmpty
  <2>3. HomesEmpty' /\ StashSaved'
    BY <1>a, <1>c, <2>1, <2>2 DEF HomesEmpty, StashSaved
  <2>4. DeletionSaves'
    BY <2>1 DEF DeletionSaves
  <2>5. Outside
    BY <1>c, <2>1, <2>2 DEF Outside, Work, CommitOf, Root
  <2>6. ASSUME DeletionSaves, NEW a \in Authored \ late, NEW r \in Sessions, a \in Work(r)
        PROVE  a \in main \/ a \in Work(r)' \/ HeldAside(a)'
    <3>1. CASE r = s /\ a \in head[s]
      BY <1>b, <2>1, <2>6, <3>1 DEF DeletionSaves, TreeGoes, HomesEmpty, HeldAside, Root
    <3>2. CASE r # s \/ a \in dirty[r]
      BY <1>c, <2>1, <2>6, <3>2 DEF Work, CommitOf
    <3> QED
      BY <2>6, <3>1, <3>2 DEF Work, CommitOf
  <2>7. \A a : HeldAside(a) => HeldAside(a)'
    BY <2>1 DEF HeldAside
  <2> QED
    BY <1>a, <2>3, <2>4, <2>5, <2>6, <2>7, OutsideKeeps DEF KeepsAll
<1> QED
  BY <1>1, <1>2, <1>3, <1>4, <1>5, <1>6

\* A join makes worktrees and branches at main, where there are none; agents that
\* start or stop leave them alone.
LEMMA AddKeeps ==
    ASSUME DeleteTypes, TaskIds, WorkInv, HomesEmpty, StashSaved, Remembered,
           AddStep \/ \E s \in Sessions : AgentStops(s)
    PROVE  KeepsAll
<1>a. /\ head \in [Sessions -> Commit] /\ row \in [Sessions -> Row]
      /\ registered \subseteq Sessions /\ Shape
      /\ \A d \in Deleters : del[d].pc # "off" => del[d].cur \in Sessions
      /\ adding.pc # "off" => adding.cur \in Sessions
  BY DEF DeleteTypes, DeleteTypeOK, DeleteShape, TypeOK
<1>b. /\ UNCHANGED <<main, dirty, refVars, lock, req, rec, joining, used, stash, deletedRefs, del>>
      /\ \/ UNCHANGED <<head, worktrees, branches>>
         \/ \E s \in Sessions :
               /\ worktrees' = worktrees \cup {s} /\ branches' = branches \cup {s}
               /\ head' = (IF s \in branches THEN head ELSE [head EXCEPT ![s] = main])
  <2>1. CASE JoinRow \/ JoinRegister
    BY <2>1 DEF JoinRow, JoinRegister, gitVars, envVars, keptVars
  <2>2. CASE JoinUnheard \/ \E s \in Sessions : AgentStops(s)
    BY <2>2 DEF JoinUnheard, AgentStops, vars, refVars, sessionVars, keptVars
  <2>3. CASE \E s \in Sessions : JoinWorktree(s)
    BY <2>3 DEF JoinWorktree, dbVars, envVars, keptVars
  <2> QED
    BY <2>1, <2>2, <2>3 DEF AddStep
<1>1. \A t \in Sessions : row'[t].task \in {row[t].task, NoTask}
  BY <1>a, JoinsAdd DEF AddsOnly
<1>2. \A r \in Sessions : \/ head'[r] = head[r]
                          \/ head[r] = Root /\ head'[r] = main /\ r \in worktrees' \cap branches'
  BY <1>a, <1>b DEF HomesEmpty
<1>3. worktrees \subseteq worktrees' /\ branches \subseteq branches' /\ worktrees' \subseteq branches'
  BY <1>b DEF HomesEmpty
<1>4. HomesEmpty'
  BY <1>b, <1>2, <1>3 DEF HomesEmpty
<1>5. StashSaved'
  BY <1>b DEF StashSaved
<1>6. DeletionSaves => DeletionSaves'
  <2>1. \A r \in Sessions : \A a \in Authored :
            a \in head'[r] => a \in head[r] \/ a \in main'
    BY <1>b, <1>2
  <2>2. ASSUME DeletionSaves, NEW d \in Deleters
        PROVE  /\ del'[d].tree /\ del'[d].pc \in {"ref", "drop", "remove"}
                     => dirty'[del'[d].cur] \subseteq late'
               /\ del'[d].pc \in {"stash", "ref", "drop", "remove", "branch"} /\ TreeGoes(d)'
                     => head'[del'[d].cur] \cap Authored \subseteq deletedRefs' \cup main' \cup late'
    <3>1. del'[d].pc # "off" => late \subseteq late'
      BY RememberedLate
    <3>2. TreeGoes(d)' => TreeGoes(d)
      BY <1>b, <1>3 DEF TreeGoes
    <3> QED
      BY <1>a, <1>b, <2>1, <2>2, <3>1, <3>2 DEF DeletionSaves
  <2> QED
    BY <2>2 DEF DeletionSaves
<1>7. \A r \in Sessions : Work(r) \subseteq Work(r)' /\ Work(r)' \subseteq Work(r) \cup main
  BY <1>b, <1>2 DEF Work, CommitOf, Root
<1>8. Outside
  BY <1>b, <1>1, <1>7 DEF Outside
<1>9. \A a : HeldAside(a) => HeldAside(a)'
  BY <1>b DEF HeldAside
<1> QED
  BY <1>a, <1>4, <1>5, <1>6, <1>7, <1>8, <1>9, OutsideKeeps DEF KeepsAll

\* The handler reaches into a worktree at a few steps, and into that of its session.
LEMMA HandlerTouches ==
    ASSUME TypeOK, Shape, HandlerStep, NEW s \in Sessions, ~UNCHANGED <<head[s], dirty[s]>>
    PROVE  s = req.cur /\ req.pc \in NeedsWorktree
<1>a. head \in [Sessions -> Commit] /\ dirty \in [Sessions -> Commit]
  BY DEF TypeOK
<1>1. \/ CatchUpFastForward \/ DirectCommit \/ Snapshot \/ GitMerge \/ ResetToLatest \/ AbortRestore
      \/ UNCHANGED <<head, dirty>>
  BY DEF HandlerStep, CatchUpNothing, CaughtUp, DirectLock, DirectDecline, DirectRecheck,
     DirectCompare, DirectFails, DirectUnlock, ForwardMain, ForceMain, ForwardRefused, PublishedClean,
     PublishedSeen, PublishedRelease, ClaimIntegrationTask, StartRefused, FreezeAcknowledged,
     PrepareLockedSync, SnapshotRef, BaseRef, MergeBegin, ValidateMerge, MergeUnlock, WriteTaskFile,
     Fusing, PromptDelivered, StartFails, AbortUnlock, AbortClean, NormalizeActiveTask,
     CheckCandidate, CheckRefuses, VerifyReport, VerifyWithoutReport, Preflight, gitVars
<1>2. CASE CatchUpFastForward \/ DirectCommit \/ GitMerge
  BY <1>a, <1>2 DEF CatchUpFastForward, DirectCommit, GitMerge, CommitAll, At, NeedsWorktree, cur
<1>3. CASE Snapshot \/ ResetToLatest \/ AbortRestore
  BY <1>a, <1>3 DEF Snapshot, ResetToLatest, AbortRestore, CommitAll, ResetHard,
     RestoreTaskSnapshotIfPossible, At, NeedsWorktree, cur
<1>4. CASE UNCHANGED <<head, dirty>>
  BY <1>4
<1> QED
  BY <1>1, <1>2, <1>3, <1>4

\* A request that does not find what it needs touches nothing.
LEMMA HinderedKeeps ==
    ASSUME DeleteTypes, TaskIds, WorkInv, UNCHANGED deleteVars,
           HinderedDirect \/ HinderedEnds \/ HinderedTask
    PROVE  /\ TaskIds' /\ WorkInv' /\ KeptWhenDeleted \subseteq KeptWhenDeleted'
           /\ UNCHANGED <<head, dirty, main>>
<1>a. /\ row \in [Sessions -> Row] /\ req \in Request /\ main \in Commit
      /\ req.pc # "idle" => req.cur \in Sessions
      /\ req.pc \in {"normalize", "check", "merge", "validate", "restore"} => req.task \in Task
  BY DEF DeleteTypes, DeleteTypeOK, TypeOK, Shape
<1>b. /\ UNCHANGED <<gitVars, refVars, lock, rec, joining, used>>
      /\ \/ /\ req'.cur = req.cur /\ req'.task = req.task /\ req'.latest = req.latest
            /\ \/ req.pc = "direct" /\ req'.pc = "start"
               \/ req.pc \in {"merge", "validate"} /\ req'.pc = "fallback"
               \/ req.pc = "restore" /\ req'.pc = "abortUnlock"
         \/ req'.pc = "idle" /\ req'.cur = NoSession /\ req'.latest = Root
      /\ \A s \in Sessions : \/ row'[s].task = row[s].task
                             \/ s = req.cur /\ row'[s].task = req.task
  <2>1. CASE HinderedDirect
    <3>1. Goto("start") \/ Finish
      BY <2>1 DEF HinderedDirect
    <3>2. req.pc = "direct" /\ UNCHANGED <<gitVars, refVars, row, lock, rec, joining, used>>
      BY <2>1 DEF HinderedDirect, At, dbVars, envVars
    <3>3. Goto("start") => /\ req'.pc = "start" /\ req'.cur = req.cur /\ req'.task = req.task
                           /\ req'.latest = req.latest
      BY <1>a DEF Goto, Request
    <3> QED
      BY <3>1, <3>2, <3>3 DEF Finish, Idle
  <2>2. CASE HinderedEnds
    <3>1. \/ Finish
          \/ req.pc \in {"merge", "validate"} /\ Goto("fallback")
          \/ req.pc = "restore" /\ Goto("abortUnlock")
      BY <2>2 DEF HinderedEnds, At
    <3>2. UNCHANGED <<gitVars, refVars, row, lock, rec, joining, used>>
      BY <2>2 DEF HinderedEnds, dbVars, envVars
    <3>3. ASSUME NEW pc, Goto(pc)
          PROVE  req'.pc = pc /\ req'.cur = req.cur /\ req'.task = req.task /\ req'.latest = req.latest
      BY <1>a, <3>3 DEF Goto, Request
    <3> QED
      BY <3>1, <3>2, <3>3 DEF Finish, Idle
  <2>3. CASE HinderedTask
    BY <1>a, <2>3, FinishType, TransitionWrites DEF HinderedTask, envVars, Finish, Idle, cur, task
  <2> QED
    BY <2>1, <2>2, <2>3
<1>1. TaskIds'
  <2>1. NoTask \notin Task /\ NoSession \notin Sessions
    BY ConstantsAssumption DEF NoTask, Task
  <2>2. \A t \in Task : \A s \in Sessions : IsTaskOf(t, s)' => IsTaskOf(t, s)
    BY <1>b, <2>1 DEF IsTaskOf
  <2>3. UNCHANGED <<snapshotRef, used>>
    BY <1>b DEF refVars
  <2> QED
    BY <2>2, <2>3 DEF TaskIds
<1>2. Saved' = Saved /\ SavedWorktrees' = SavedWorktrees
  BY <1>b DEF Saved, SavedWorktrees, Work, gitVars, refVars
<1>3. WorkInv'
  <2>1. FirmMain' = main /\ FirmMain \subseteq main /\ req'.pc # "force"
    BY <1>b DEF FirmMain, gitVars
  <2>2. SavedByRequest'
    BY <1>b, <1>2, <2>1 DEF WorkInv, SavedByRequest, IsAncestor, Root
  <2>3. SavedByRecovery' /\ ForcedKeepsWork'
    BY <1>b, <1>2, <2>1 DEF WorkInv, SavedByRecovery, ForcedKeepsWork
  <2> QED
    BY <2>2, <2>3 DEF WorkInv
<1>4. KeptWhenDeleted \subseteq KeptWhenDeleted'
  BY <1>b DEF deleteVars, keptVars, KeptWhenDeleted, WorkKept, Kept, Work, gitVars, refVars
<1> QED
  BY <1>b, <1>1, <1>3, <1>4 DEF gitVars

\* Requests, developers, the daemon that starts, whoever else moves main.
BesideDeletion ==
    \/ RequestStep \/ DaemonStarts \/ MainMoves
    \/ \E s \in Sessions : Arrival(s) \/ DeveloperWorks(s)

\* They work in worktrees that are there.
LEMMA BesideTouches ==
    ASSUME DeleteTypes, RecoveryAtRest, BesideDeletion, NEW s \in Sessions,
           ~UNCHANGED <<head[s], dirty[s]>>
    PROVE  s \in worktrees
<1>a. /\ TypeOK /\ Shape /\ head \in [Sessions -> Commit] /\ dirty \in [Sessions -> Commit]
  BY DEF DeleteTypes, DeleteTypeOK, TypeOK
<1>1. CASE RequestStep
  <2>1. ~Hindered
    BY <1>1 DEF RequestStep, HinderedStep, DirectFails, StartFails, VerifyWithoutReport,
       HinderedDirect, HinderedEnds, HinderedTask, gitVars
  <2>2. s = req.cur /\ req.pc \in NeedsWorktree
    BY <1>a, <1>1, <2>1, HandlerTouches DEF RequestStep
  <2> QED
    BY <2>1, <2>2 DEF Hindered, cur
<1>2. CASE DaemonStarts
  <2>1. rec.pc \in {"off", "scan"}
    BY DEF RecoveryAtRest
  <2>2. UNCHANGED <<head, dirty>>
    BY <1>2, <2>1 DEF DaemonStarts, Boot, StartRecovery, RecoveryStep, AdoptLockTask, ClearIdleRow,
       ResumeTask, BackUpTask, BackupFails, RecoverRestore, RecoverUnlock, RecoverClean, RecoveryDone,
       gitVars
  <2> QED
    BY <2>2
<1>3. CASE MainMoves \/ \E r \in Sessions : Arrival(r)
  BY <1>3 DEF MainMoves, ExternalMain, Arrival, ReadyToIntegrate, FusionDone, gitVars
<1>4. ASSUME NEW r \in Sessions, DeveloperWorks(r)
      PROVE  s \in worktrees
  <2>1. r \in worktrees
    BY <1>4 DEF DeveloperWorks
  <2>2. r = s
    BY <1>a, <1>4 DEF DeveloperWorks, DeveloperStep, Edit, CommitWork, CommitCandidate, WriteReport,
       CommitAll, gitVars
  <2> QED
    BY <2>1, <2>2
<1> QED
  BY <1>1, <1>2, <1>3, <1>4 DEF BesideDeletion

\* They lose nothing, and take nothing from what a deletion has put aside.
LEMMA BesideKeeps ==
    ASSUME QuietDeveloper, DeleteTypes, RecoveryAtRest, ModeInv, TaskIds, WorkInv, HomesEmpty,
           StashSaved, Remembered, BesideDeletion
    PROVE  KeepsAll
<1>a. /\ TypeOK /\ Shape /\ UNCHANGED deleteVars
      /\ UNCHANGED <<stash, deletedRefs, worktrees, branches, del>>
      /\ \A d \in Deleters : del[d].pc # "off" => del[d].cur \in Sessions
  BY DEF DeleteTypes, DeleteTypeOK, DeleteShape, BesideDeletion, RequestStep, DaemonStarts, MainMoves,
     Arrival, DeveloperWorks, deleteVars, sessionVars, keptVars
<1>1. /\ TaskIds' /\ WorkInv' /\ KeptWhenDeleted \subseteq KeptWhenDeleted'
      /\ main \cap Authored \subseteq main'
  <2>1. CASE HinderedDirect \/ HinderedEnds \/ HinderedTask
    BY <1>a, <2>1, HinderedKeeps
  <2>2. CASE Next
    <3>1. TaskIds' /\ WorkInv' /\ WorkKept \subseteq WorkKept' /\ main \cap Authored \subseteq main'
      BY <1>a, <2>2, NextTaskIds, NextWorkInv, NextKept, NextFirm DEF WorkInv
    <3>2. KeptWhenDeleted \subseteq KeptWhenDeleted'
      BY <1>a, <3>1 DEF KeptWhenDeleted
    <3> QED
      BY <3>1, <3>2
  <2>3. Next \/ HinderedDirect \/ HinderedEnds \/ HinderedTask
    BY DEF BesideDeletion, RequestStep, HinderedStep, DaemonStarts, MainMoves, Arrival, DeveloperWorks,
       Next, HandlerStep
  <2> QED
    BY <2>1, <2>2, <2>3
<1>2. HomesEmpty'
  BY <1>a, BesideTouches DEF HomesEmpty
<1>3. StashSaved'
  BY <1>a DEF StashSaved
<1>4. ASSUME DeletionSaves, NEW d \in Deleters, del[d].pc # "off"
      PROVE  /\ del[d].tree /\ del[d].pc \in {"ref", "drop", "remove"}
                   => dirty'[del[d].cur] \subseteq late'
             /\ del[d].pc \in {"stash", "ref", "drop", "remove", "branch"} /\ TreeGoes(d)
                   => head'[del[d].cur] \cap Authored \subseteq deletedRefs \cup main' \cup late'
  <2>1. PICK s \in Sessions : s = del[d].cur
    BY <1>a, <1>4
  <2>2. late \subseteq late' /\ WrittenLate(s) \subseteq late'
    BY <1>a, <1>4, RememberedLate
  <2>3. CASE UNCHANGED <<head[s], dirty[s]>>
    BY <1>1, <1>4, <2>1, <2>2, <2>3 DEF DeletionSaves
  <2>4. CASE del[d].pc \in {"stash", "ref", "drop", "remove"} /\ del[d].tree
    <3>1. head'[s] \ head[s] \subseteq late'
      BY <2>1, <2>2, <2>4 DEF WrittenLate, Behind
    <3>2. del[d].pc # "stash" => dirty'[s] \ dirty[s] \subseteq late'
      BY <2>1, <2>2, <2>4 DEF WrittenLate, Behind
    <3>3. head[s] \cap Authored \subseteq deletedRefs \cup main \cup late
      BY <1>4, <2>1, <2>4 DEF DeletionSaves, TreeGoes
    <3>4. del[d].pc # "stash" => dirty[s] \subseteq late
      BY <1>4, <2>1, <2>4 DEF DeletionSaves
    <3> QED
      BY <1>1, <2>1, <2>2, <3>1, <3>2, <3>3, <3>4
  <2>5. CASE ~UNCHANGED <<head[s], dirty[s]>>
             /\ (del[d].pc = "branch" \/ ~del[d].tree)
    <3>1. s \in worktrees
      BY <2>5, BesideTouches
    <3>2. ~TreeGoes(d)
      BY <2>1, <2>5, <3>1 DEF TreeGoes
    <3> QED
      BY <2>5, <3>2
  <2> QED
    BY <2>3, <2>4, <2>5
<1>5. ASSUME DeletionSaves PROVE DeletionSaves'
  <2>1. \A d \in Deleters : TreeGoes(d)' <=> TreeGoes(d)
    BY <1>a DEF TreeGoes
  <2> QED
    BY <1>a, <1>4, <1>5, <2>1 DEF DeletionSaves
<1> QED
  BY <1>1, <1>2, <1>3, <1>5 DEF KeepsAll

\* Every step, as long as there is one deletion at a time.
LEMMA DeleteNextKeeps ==
    ASSUME QuietDeveloper, \A d, e \in Deleters : d = e, DeleteTypes, HolderInv, KeepInv,
           [DeleteNext]_allVars
    PROVE  /\ KeepInv'
           /\ KeptWhenDeleted \ late \subseteq KeptWhenDeleted'
<1>a. RecoveryAtRest /\ ModeInv /\ TaskIds /\ WorkInv /\ HomesEmpty /\ StashSaved
  BY DEF HolderInv, KeepInv
<1>1. CASE DeleteNext
  <2>1. KeepsAll
    <3> Remembered
      BY <1>1 DEF DeleteNext
    <3>1. CASE BesideDeletion
      BY <1>a, <3>1, BesideKeeps
    <3>2. CASE AddStep \/ \E s \in Sessions : AgentStops(s)
      BY <1>a, <3>2, AddKeeps
    <3>3. ASSUME NEW d \in Deleters,
                 \/ \E s \in Sessions : DeleteStart(d, s)
                 \/ DeleteStep(d) \/ DeleteFails(d) \/ DeleteDies(d)
          PROVE  KeepsAll
      BY <1>a, <3>3, MarginKeeps, EffectKeeps DEF DeleteStep
    <3> QED
      BY <1>1, <3>1, <3>2, <3>3 DEF DeleteNext, BesideDeletion
  <2> QED
    BY <2>1 DEF KeepsAll, KeepInv
<1>2. CASE UNCHANGED allVars
  <2>1. [Next]_vars /\ TypeOK /\ Shape
    BY <1>2 DEF allVars, DeleteTypes, DeleteTypeOK
  <2>2. TaskIds' /\ WorkInv'
    BY <1>a, <2>1, NextTaskIds, NextWorkInv
  <2>3. /\ HomesEmpty' /\ StashSaved'
        /\ DeletionSaves'
        /\ KeptWhenDeleted \subseteq KeptWhenDeleted'
    BY <1>a, <1>2 DEF allVars, vars, deleteVars, sessionVars, keptVars, HomesEmpty, StashSaved,
       KeepInv, DeletionSaves, TreeGoes, KeptWhenDeleted, WorkKept, Kept, Work
  <2> QED
    BY <1>2, <2>2, <2>3 DEF KeepInv, allVars
<1> QED
  BY <1>1, <1>2

\* At the start there is nothing to keep.
LEMMA DeleteInitKeeps == DeleteInit => KeepInv
<1> SUFFICES ASSUME DeleteInit PROVE KeepInv
  OBVIOUS
<1>1. TaskIds /\ WorkInv
  BY IdsInitially, WorkInitially DEF DeleteInit
<1>2. /\ \A d \in Deleters : del[d].pc = "off"
      /\ worktrees = Sessions /\ branches = Sessions
  BY DEF DeleteInit, NotDeleting
<1> QED
  BY <1>1, <1>2 DEF KeepInv, HomesEmpty, StashSaved, DeletionSaves

\* The property DeletedWorkKept: as long as developers leave a worktree alone while
\* it is synced, and there is one deletion at a time, what was committed or written
\* in a session is somewhere when the session is gone, wherever the deletion fails
\* or is killed, and whatever joins, requests, developers and writers of main do
\* beside it.  Excepted is, as the property says, what gets into the worktree behind
\* the backups of the deletion.  With two deletions at a time it does not hold: the
\* run StashRace.
THEOREM DeletedWorkIsKept ==
    ASSUME QuietDeveloper, \A d, e \in Deleters : d = e
    PROVE  DeleteSpec => DeletedWorkKept
<1> DEFINE Inv == DeleteTypes /\ HolderInv /\ KeepInv
<1>1. DeleteInit => Inv
  BY DeleteInitTypes, DeleteInitHolders, DeleteInitKeeps
<1>2. Inv /\ [DeleteNext]_allVars => Inv'
  BY DeleteNextTypes, DeleteNextHolders, DeleteNextKeeps
<1>3. Inv /\ [DeleteNext]_allVars
          => [KeptWhenDeleted \ late \subseteq KeptWhenDeleted']_allVars
  BY DeleteNextKeeps
<1> HIDE DEF Inv
<1> QED
  BY <1>1, <1>2, <1>3, PTL DEF DeleteSpec, DeletedWorkKept
=============================================================================
