----------------------------- MODULE SyncRequest -----------------------------
(***************************************************************************)
(* The daemon's handler thread working on one `cocodex sync` request       *)
(* (daemon.py).  Requests are served one at a time.  A step of the model   *)
(* ends where the code has made one durable effect, a Git command or one   *)
(* database transaction: developers, joins, crashes and writers of main    *)
(* interleave there.  What the code has read before the effect is kept in  *)
(* req, and is as stale as it is in the code.                              *)
(*                                                                         *)
(* req.pc names the next step, req.mode the way the request publishes:     *)
(* "direct", "merge" (a clean Git merge) or "fused" (Codex's candidate).   *)
(***************************************************************************)
EXTENDS SyncState

Idle == [pc |-> "idle", mode |-> "none", cur |-> NoSession, task |-> NoTask,
         latest |-> Root, cand |-> Root, asked |-> Root]

\* The steps whose failures reach the `except` of the direct publish, and of
\* start_integration_now.
DirectTry == {"commit", "compare", "forward"}
StartTry == {"freeze", "prepare", "snapshot", "snapRef", "baseRef", "mergeBegin",
             "fallback", "reset", "writeTask", "prompt"}

Pc == {"idle", "catchup", "caught", "direct", "recheck", "yield", "unlock", "seen",
       "published", "release", "force", "start", "fuse", "merge", "validate",
       "mergeUnlock", "restore", "abortUnlock", "abortClean", "normalize", "check",
       "verify", "preflight"} \cup DirectTry \cup StartTry

Request == [pc : Pc, mode : {"none", "direct", "merge", "fused"}, cur : MaybeSession,
            task : MaybeTask, latest : Commit, cand : Commit, asked : Commit]

At(pc) == req.pc = pc
Goto(pc) == req' = [req EXCEPT !.pc = pc]
GotoWithLatest(pc, commit) == req' = [req EXCEPT !.pc = pc, !.latest = commit]
GotoWithCandidate(pc, commit) == req' = [req EXCEPT !.pc = pc, !.cand = commit]
Finish == req' = Idle

cur == req.cur
task == req.task
HeldByTask == lock = LockOf(cur, task)

NewTask == used' = [used EXCEPT !.tasks = @ + 1]
envVars == <<up, rec, joining>>

-----------------------------------------------------------------------------
(* Admission: ready_to_integrate.                                          *)

\* Mutant: an unknown baseline is taken to be main.
Baseline_AlwaysMain(s) == IF lastSeen[s] # NoCommit THEN lastSeen[s] ELSE main

\* _normalize_unknown_baseline: NoCommit when the branch has diverged.
Baseline(s) ==
    IF lastSeen[s] # NoCommit THEN lastSeen[s]
    ELSE IF IsAncestor(main, head[s]) THEN main
    ELSE IF IsAncestor(head[s], main) THEN head[s]
    ELSE NoCommit

\* A row without a task in a state of an earlier version is cleared first; it
\* stays cleared, and an adopted baseline stays adopted, if the request is
\* then refused.
ReadyToIntegrate(s) ==
    LET cleared == row[s].state \in LEGACY_IDLE_STATES /\ row[s].task = NoTask
        state == IF cleared THEN "clean" ELSE row[s].state
        admitted == /\ Baseline(s) # NoCommit
                    /\ state \in READY_TO_INTEGRATE_STATES
                    /\ row[s].task = NoTask
                    /\ lock.owner \in {NoSession, s}
        changed == dirty[s] # {} \/ head[s] # Baseline(s)
    IN  /\ up /\ At("idle")
        /\ used.tasks + 2 <= MaxTasks
        /\ row' = [row EXCEPT ![s].state = state]
        /\ UpdateLastSeenMain(s, Baseline(s))
        /\ IF admitted
             THEN req' = [Idle EXCEPT !.pc = IF changed THEN "direct" ELSE "catchup",
                                      !.cur = s, !.asked = Work(s)]
             ELSE UNCHANGED req
        /\ UNCHANGED <<gitVars, refVars, fileVars, lock, envVars, used>>

-----------------------------------------------------------------------------
(* A session with nothing to publish: _sync_clean_session_to_main.         *)

\* A session without changes is written only if it was not "clean".
SettleRow(s) ==
    IF row[s].state = "dirty" THEN TransitionSession(s, "clean", NoTask) ELSE UNCHANGED row

\* Nothing to do: the worktree is at main, or a commit made since the session
\* was found unchanged sends it away ("no changes to sync").
CatchUpNothing ==
    /\ At("catchup")
    /\ \/ head[cur] = main /\ UpdateLastSeenMain(cur, main)
       \/ head[cur] # main /\ head[cur] # lastSeen[cur] /\ UNCHANGED lastSeen
    /\ SettleRow(cur)
    /\ Finish
    /\ UNCHANGED <<gitVars, refVars, fileVars, lock, envVars, used>>

\* The worktree is behind: merge --ff-only in the worktree, or it fails.
CatchUpFastForward ==
    /\ At("catchup")
    /\ head[cur] # main /\ head[cur] = lastSeen[cur]
    /\ \/ /\ IsAncestor(head[cur], main)
          /\ head' = [head EXCEPT ![cur] = main]
          /\ GotoWithLatest("caught", main)
       \/ Finish /\ UNCHANGED head
    /\ UNCHANGED <<main, dirty, refVars, fileVars, dbVars, envVars, used>>

CaughtUp ==
    /\ At("caught")
    /\ UpdateLastSeenMain(cur, req.latest)
    /\ SettleRow(cur)
    /\ Finish
    /\ UNCHANGED <<gitVars, refVars, fileVars, lock, envVars, used>>

-----------------------------------------------------------------------------
(* publish_without_fusion_if_current: main is where the session last saw   *)
(* it, so the session's work can be published as it stands.                *)

DirectPossible ==
    lock = NoLock /\ main = lastSeen[cur] /\ IsAncestor(main, head[cur])

\* The candidate of a session with nothing uncommitted is the head read here.
DirectLock ==
    /\ At("direct") /\ DirectPossible
    /\ NewTask
    /\ lock' = LockOf(cur, used.tasks + 1)
    /\ req' = [req EXCEPT !.pc = "recheck", !.mode = "direct",
                          !.task = used.tasks + 1, !.cand = head[cur]]
    /\ UNCHANGED <<gitVars, refVars, fileVars, row, lastSeen, envVars>>

\* Not current, or unsafe Git state or a dirty main worktree.
DirectDecline ==
    /\ At("direct")
    /\ \/ ~DirectPossible /\ Goto("start")
       \/ DirectPossible /\ Finish
    /\ UNCHANGED <<gitVars, refVars, fileVars, dbVars, envVars, used>>

DirectRecheck ==
    /\ At("recheck")
    /\ IF main = lastSeen[cur]
         THEN /\ TransitionSession(cur, "publishing", task)
              /\ GotoWithLatest("commit", main)
         ELSE /\ TransitionSession(cur, "clean", NoTask)
              /\ Goto("yield")
    /\ UNCHANGED <<gitVars, refVars, fileVars, lastSeen, lock, envVars, used>>

\* Mutant: the candidate stays the head read before the commit.
DirectCommit_OldHead ==
    /\ At("commit")
    /\ IF dirty[cur] # {} THEN CommitAll(cur) ELSE UNCHANGED <<head, dirty>>
    /\ Goto("compare")
    /\ UNCHANGED <<main, refVars, fileVars, dbVars, envVars, used>>

DirectCommit ==
    /\ At("commit")
    /\ IF dirty[cur] # {}
         THEN /\ CommitAll(cur)
              /\ GotoWithCandidate("compare", Work(cur))
         ELSE /\ UNCHANGED <<head, dirty>>
              /\ Goto("compare")
    /\ UNCHANGED <<main, refVars, fileVars, dbVars, envVars, used>>

\* Nothing new, main moved, or go ahead.
DirectCompare ==
    /\ At("compare")
    /\ \/ /\ req.cand = req.latest
          /\ TransitionSession(cur, "clean", NoTask)
          /\ Goto("seen")
       \/ /\ req.cand # req.latest
          /\ main # req.latest \/ ~IsAncestor(main, req.cand)
          /\ TransitionSession(cur, "clean", NoTask)
          /\ Goto("yield")
       \/ /\ req.cand # req.latest
          /\ main = req.latest /\ IsAncestor(main, req.cand)
          /\ UNCHANGED row
          /\ Goto("forward")
    /\ UNCHANGED <<gitVars, refVars, fileVars, lastSeen, lock, envVars, used>>

\* Any failure: the session is clean again, `finally` releases the lock.
DirectFails ==
    /\ req.pc \in DirectTry
    /\ req.mode = "direct"
    /\ TransitionSession(cur, "clean", NoTask)
    /\ Goto("unlock")
    /\ UNCHANGED <<gitVars, refVars, fileVars, lastSeen, lock, envVars, used>>

\* `finally`, when main had moved (go on to a task) and after a failure.
DirectUnlock ==
    /\ \/ At("yield") /\ Goto("start")
       \/ At("unlock") /\ Finish
    /\ ReleaseLockIfOwned(cur, task)
    /\ UNCHANGED <<gitVars, refVars, fileVars, row, lastSeen, envVars, used>>

-----------------------------------------------------------------------------
(* Publishing, common to the three modes: fast_forward_ref on main, then   *)
(* one transaction each for the row, last_seen_main and the lock.          *)

\* Mutant: branch -f moves main without the check before it.
ForwardMain_Unchecked ==
    /\ At("forward")
    /\ Goto("force")
    /\ UNCHANGED <<main, head, dirty, refVars, fileVars, dbVars, envVars, used>>

\* In the checked-out branch, merge --ff-only checks and moves at once.
\* Otherwise the check comes first and branch -f moves the ref later.
ForwardMain ==
    /\ At("forward")
    /\ IsAncestor(main, req.cand)
    /\ IF MainCheckedOut THEN main' = req.cand /\ Goto("published")
                         ELSE UNCHANGED main /\ Goto("force")
    /\ UNCHANGED <<head, dirty, refVars, fileVars, dbVars, envVars, used>>

ForceMain ==
    /\ At("force")
    /\ main' = req.cand
    /\ Goto("published")
    /\ UNCHANGED <<head, dirty, refVars, fileVars, dbVars, envVars, used>>

\* Git refuses: main is not an ancestor, or its worktree is in the way.  (For
\* a direct publish this is DirectFails.)
ForwardRefused ==
    /\ At("forward")
    /\ \/ /\ req.mode = "merge"
          /\ TransitionSession(cur, "clean", NoTask)
          /\ Goto("mergeUnlock")
       \/ /\ req.mode = "fused"
          /\ TransitionSession(cur, "fusing", task)
          /\ Finish
    /\ UNCHANGED <<gitVars, refVars, fileVars, lastSeen, lock, envVars, used>>

PublishedClean ==
    /\ At("published")
    /\ TransitionSession(cur, "clean", NoTask)
    /\ Goto("seen")
    /\ UNCHANGED <<gitVars, refVars, fileVars, lastSeen, lock, envVars, used>>

\* Mutant: main is read again, after the candidate was published.
PublishedSeen_ReadsMain ==
    /\ At("seen")
    /\ UpdateLastSeenMain(cur, main)
    /\ Goto("release")
    /\ UNCHANGED <<gitVars, refVars, fileVars, row, lock, envVars, used>>

PublishedSeen ==
    /\ At("seen")
    /\ UpdateLastSeenMain(cur, req.cand)
    /\ Goto("release")
    /\ UNCHANGED <<gitVars, refVars, fileVars, row, lock, envVars, used>>

PublishedRelease ==
    /\ At("release")
    /\ ReleaseLockIfOwned(cur, task)
    /\ Finish
    /\ UNCHANGED <<gitVars, refVars, fileVars, row, lastSeen, envVars, used>>

-----------------------------------------------------------------------------
(* start_integration_now: main has moved, so the session's work has to be  *)
(* merged with it, by Git if it can and by Codex otherwise.                *)

\* claim_integration_task: the lock and the row in one transaction.
ClaimIntegrationTask ==
    /\ At("start")
    /\ lock = NoLock
    /\ NewTask
    /\ lock' = LockOf(cur, used.tasks + 1)
    /\ TransitionSession(cur, "queued", used.tasks + 1)
    /\ req' = [req EXCEPT !.pc = "freeze", !.mode = "merge", !.task = used.tasks + 1]
    /\ UNCHANGED <<gitVars, refVars, fileVars, lastSeen, envVars>>

\* No agent is connected for the session, or the lock is held.
StartRefused ==
    /\ At("start")
    /\ Finish
    /\ UNCHANGED <<gitVars, refVars, fileVars, dbVars, envVars, used>>

\* The agent acknowledges the freeze message; it freezes nothing.
FreezeAcknowledged ==
    /\ At("freeze")
    /\ TransitionSession(cur, "frozen", task)
    /\ Goto("prepare")
    /\ UNCHANGED <<gitVars, refVars, fileVars, lastSeen, lock, envVars, used>>

PrepareLockedSync ==
    /\ At("prepare")
    /\ HeldByTask
    /\ TransitionSession(cur, "snapshot", task)
    /\ Goto("snapshot")
    /\ UNCHANGED <<gitVars, refVars, fileVars, lastSeen, lock, envVars, used>>

\* snapshot_session_work; with nothing to snapshot it raises (StartFails).
Snapshot ==
    /\ At("snapshot")
    /\ dirty[cur] # {} \/ head[cur] # lastSeen[cur]
    /\ CommitAll(cur)
    /\ req' = [req EXCEPT !.pc = "snapRef", !.latest = main, !.cand = Work(cur)]
    /\ UNCHANGED <<main, refVars, fileVars, dbVars, envVars, used>>

SnapshotRef ==
    /\ At("snapRef")
    /\ snapshotRef' = [snapshotRef EXCEPT ![task] = req.cand]
    /\ Goto("baseRef")
    /\ UNCHANGED <<gitVars, baseRef, backups, fileVars, dbVars, envVars, used>>

BaseRef ==
    /\ At("baseRef")
    /\ baseRef' = [baseRef EXCEPT ![task] = req.latest]
    /\ Goto("mergeBegin")
    /\ UNCHANGED <<gitVars, snapshotRef, backups, fileVars, dbVars, envVars, used>>

MergeBegin ==
    /\ At("mergeBegin")
    /\ TransitionSession(cur, "publishing", task)
    /\ Goto("merge")
    /\ UNCHANGED <<gitVars, refVars, fileVars, lastSeen, lock, envVars, used>>

\* merge_commit in the session's worktree: it merges, or stops at a conflict.
GitMerge ==
    /\ At("merge")
    /\ \/ /\ head' = [head EXCEPT ![cur] = MergeOf(@, req.latest, task)]
          /\ Goto("validate")
       \/ Goto("fallback") /\ UNCHANGED head
    /\ UNCHANGED <<main, dirty, refVars, fileVars, dbVars, envVars, used>>

\* validate_git_merge_candidate; diff --check may always object.
ValidateMerge ==
    /\ At("validate")
    /\ \/ /\ dirty[cur] = {}
          /\ IsAncestor(req.latest, head[cur])
          /\ IsAncestor(snapshotRef[task], head[cur])
          /\ GotoWithCandidate("forward", head[cur])
       \/ Goto("fallback")
    /\ UNCHANGED <<gitVars, refVars, fileVars, dbVars, envVars, used>>

MergeUnlock ==
    /\ At("mergeUnlock")
    /\ ReleaseLockIfOwned(cur, task)
    /\ Goto("restore")
    /\ UNCHANGED <<gitVars, refVars, fileVars, row, lastSeen, envVars, used>>

\* Mutant: back to the main that the session last saw.
ResetToLatest_ToLastSeen ==
    /\ \/ At("fallback") /\ Goto("reset")
       \/ At("reset") /\ Goto("writeTask")
    /\ ResetHard(cur, lastSeen[cur])
    /\ UNCHANGED <<main, refVars, fileVars, dbVars, envVars, used>>

\* Back to latest main for Codex: once after the failed merge, once more in
\* prepare_locked_sync.
ResetToLatest ==
    /\ \/ At("fallback") /\ Goto("reset")
       \/ At("reset") /\ Goto("writeTask")
    /\ ResetHard(cur, req.latest)
    /\ UNCHANGED <<main, refVars, fileVars, dbVars, envVars, used>>

WriteTaskFile ==
    /\ At("writeTask")
    /\ taskFiles' = taskFiles \cup {task}
    /\ Goto("fuse")
    /\ UNCHANGED <<gitVars, refVars, reports, dbVars, envVars, used>>

Fusing ==
    /\ At("fuse")
    /\ TransitionSession(cur, "fusing", task)
    /\ Goto("prompt")
    /\ UNCHANGED <<gitVars, refVars, fileVars, lastSeen, lock, envVars, used>>

\* start_fusion: the agent put the task prompt into the Codex session.
PromptDelivered ==
    /\ At("prompt")
    /\ Finish
    /\ UNCHANGED <<gitVars, refVars, fileVars, dbVars, envVars, used>>

\* Any failure before that undoes the attempt, three effects one by one.
StartFails ==
    /\ req.pc \in StartTry
    /\ Goto("restore")
    /\ UNCHANGED <<gitVars, refVars, fileVars, dbVars, envVars, used>>

AbortRestore ==
    /\ At("restore")
    /\ RestoreTaskSnapshotIfPossible(cur, task)
    /\ Goto("abortUnlock")
    /\ UNCHANGED <<main, refVars, fileVars, dbVars, envVars, used>>

\* Mutant: a failed start keeps the lock.
AbortUnlock_Forgotten ==
    /\ At("abortUnlock")
    /\ Goto("abortClean")
    /\ UNCHANGED <<gitVars, refVars, fileVars, dbVars, envVars, used>>

AbortUnlock ==
    /\ At("abortUnlock")
    /\ ReleaseLockIfOwned(cur, task)
    /\ Goto("abortClean")
    /\ UNCHANGED <<gitVars, refVars, fileVars, row, lastSeen, envVars, used>>

AbortClean ==
    /\ At("abortClean")
    /\ TransitionSession(cur, "clean", NoTask)
    /\ Finish
    /\ UNCHANGED <<gitVars, refVars, fileVars, lastSeen, lock, envVars, used>>

-----------------------------------------------------------------------------
(* fusion_done: Codex finished the active task, publish its candidate.     *)

\* Mutant: the lock is taken from whoever holds it.
FusionDone_TakesLock(s) ==
    /\ up /\ At("idle")
    /\ row[s].task # NoTask
    /\ lock' = LockOf(s, row[s].task)
    /\ req' = [Idle EXCEPT !.pc = "normalize", !.mode = "fused", !.cur = s,
                           !.task = row[s].task]
    /\ UNCHANGED <<gitVars, refVars, fileVars, row, lastSeen, envVars, used>>

\* _normalize_active_task_for_sync takes a lock that nobody holds; a lock
\* held for anything else refuses the request.
FusionDone(s) ==
    /\ up /\ At("idle")
    /\ row[s].task # NoTask
    /\ lock \in {NoLock, LockOf(s, row[s].task)}
    /\ lock' = LockOf(s, row[s].task)
    /\ req' = [Idle EXCEPT !.pc = "normalize", !.mode = "fused", !.cur = s,
                           !.task = row[s].task]
    /\ UNCHANGED <<gitVars, refVars, fileVars, row, lastSeen, envVars, used>>

NormalizeActiveTask ==
    /\ At("normalize")
    /\ IF row[cur].state \in LEGACY_RECOVERY_STATES \ {"fusing"}
         THEN TransitionSession(cur, "fusing", task)
         ELSE UNCHANGED row
    /\ req' = [req EXCEPT !.pc = "check", !.cand = head[cur], !.asked = head[cur]]
    /\ UNCHANGED <<gitVars, refVars, fileVars, lastSeen, lock, envVars, used>>

\* publish_candidate: the checks before "verifying".
TaskHeld ==
    /\ row[cur].task = task
    /\ HeldByTask
    /\ row[cur].state \in {"fusing", "verifying", "publishing"}

TaskIntact ==
    /\ task \in taskFiles
    /\ snapshotRef[task] # NoCommit
    /\ baseRef[task] # NoCommit

CheckCandidate ==
    /\ At("check")
    /\ TaskHeld /\ TaskIntact
    /\ req.cand = head[cur]
    /\ req.cand # baseRef[task]
    /\ dirty[cur] = {}
    /\ TransitionSession(cur, "verifying", task)
    /\ Goto("verify")
    /\ UNCHANGED <<gitVars, refVars, fileVars, lastSeen, lock, envVars, used>>

\* Mutant: the request waits for the candidate to become acceptable.
CheckRefuses_Waits ==
    /\ At("check")
    /\ Goto("check")
    /\ UNCHANGED <<gitVars, refVars, fileVars, dbVars, envVars, used>>

\* A broken task or another head is written to the row; every other refusal
\* (and unsafe Git state, at any time) leaves the row alone.
CheckRefuses ==
    /\ At("check")
    /\ IF TaskHeld /\ ~(TaskIntact /\ req.cand = head[cur])
         THEN TransitionSession(cur, "fusing", task)
         ELSE UNCHANGED row
    /\ Finish
    /\ UNCHANGED <<gitVars, refVars, fileVars, lastSeen, lock, envVars, used>>

VerifyReport ==
    /\ At("verify")
    /\ task \in reports
    /\ \/ /\ head[cur] = req.cand /\ dirty[cur] = {}
          /\ TransitionSession(cur, "publishing", task)
          /\ Goto("preflight")
       \/ /\ ~(head[cur] = req.cand /\ dirty[cur] = {})
          /\ UNCHANGED row
          /\ Finish
    /\ UNCHANGED <<gitVars, refVars, fileVars, lastSeen, lock, envVars, used>>

VerifyWithoutReport ==
    /\ At("verify")
    /\ task \notin reports
    /\ TransitionSession(cur, "fusing", task)
    /\ Finish
    /\ UNCHANGED <<gitVars, refVars, fileVars, lastSeen, lock, envVars, used>>

\* _assert_main_publishable: the main worktree is ready, or the request ends.
Preflight ==
    /\ At("preflight")
    /\ Goto("forward") \/ Finish
    /\ UNCHANGED <<gitVars, refVars, fileVars, dbVars, envVars, used>>

-----------------------------------------------------------------------------

HandlerStep ==
    \/ CatchUpNothing \/ CatchUpFastForward \/ CaughtUp
    \/ DirectLock \/ DirectDecline \/ DirectRecheck \/ DirectCommit \/ DirectCompare
    \/ DirectFails \/ DirectUnlock
    \/ ForwardMain \/ ForceMain \/ ForwardRefused
    \/ PublishedClean \/ PublishedSeen \/ PublishedRelease
    \/ ClaimIntegrationTask \/ StartRefused \/ FreezeAcknowledged \/ PrepareLockedSync
    \/ Snapshot \/ SnapshotRef \/ BaseRef \/ MergeBegin \/ GitMerge \/ ValidateMerge
    \/ MergeUnlock \/ ResetToLatest \/ WriteTaskFile \/ Fusing \/ PromptDelivered
    \/ StartFails \/ AbortRestore \/ AbortUnlock \/ AbortClean
    \/ NormalizeActiveTask \/ CheckCandidate \/ CheckRefuses
    \/ VerifyReport \/ VerifyWithoutReport \/ Preflight
=============================================================================
