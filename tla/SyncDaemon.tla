----------------------------- MODULE SyncDaemon -----------------------------
(***************************************************************************)
(* The core of Cocodex: a daemon that publishes the work of several        *)
(* developer sessions to main, one at a time, together with everything     *)
(* that runs beside it: developers and Codex in the worktrees, other       *)
(* writers of main, `cocodex join`, crashes and restarts.                  *)
(***************************************************************************)
EXTENDS SyncRecovery

InitialRow ==
    [state : READY_TO_INTEGRATE_STATES \cup LEGACY_IDLE_STATES, task : {NoTask}]

\* A project before the daemon is started.  Sessions registered by this
\* version are clean and know main; an earlier one left other idle states and
\* no last_seen_main.
Init ==
    /\ main = Root
    /\ head = [s \in Sessions |-> Root]
    /\ dirty = [s \in Sessions |-> {}]
    /\ snapshotRef = [t \in Task |-> NoCommit]
    /\ baseRef = [t \in Task |-> NoCommit]
    /\ backups = {}
    /\ taskFiles = {}
    /\ reports = {}
    /\ row \in IF LegacyRows
                 THEN [Sessions -> InitialRow]
                 ELSE {[s \in Sessions |-> [state |-> "clean", task |-> NoTask]]}
    /\ lastSeen \in [Sessions -> IF LegacyRows THEN {Root, NoCommit} ELSE {Root}]
    /\ lock = NoLock
    /\ up = FALSE
    /\ req = Idle
    /\ rec = NotRecovering
    /\ joining = NotJoining
    /\ used = [tasks |-> 0, edits |-> 0, external |-> 0, crashes |-> 0,
               seconds |-> 0, joins |-> 0, backupFails |-> 0]

-----------------------------------------------------------------------------
(* Developers and Codex, in their worktrees.                               *)

\* QuietDeveloper: nobody touches a worktree that the daemon is working on.
MayTouch(s) == QuietDeveloper => s \notin {req.cur, rec.cur}

Edit(s) ==
    /\ MayTouch(s) /\ used.edits < MaxEdits
    /\ used' = [used EXCEPT !.edits = @ + 1]
    /\ dirty' = [dirty EXCEPT ![s] = @ \cup {<<"edit", used.edits + 1>>}]
    /\ UNCHANGED <<main, head, refVars, fileVars, dbVars, up, req, rec, joining>>

CommitWork(s) ==
    /\ MayTouch(s) /\ dirty[s] # {}
    /\ CommitAll(s)
    /\ UNCHANGED <<main, refVars, fileVars, dbVars, up, req, rec, joining, used>>

\* Codex works on a task once the request that started it has given it the
\* prompt: it commits the merged code, and writes the validation report.
HasPrompt(s) == row[s].task \in taskFiles /\ ~(req.cur = s /\ req.mode = "merge")

CommitCandidate(s) ==
    /\ MayTouch(s) /\ HasPrompt(s)
    /\ <<"candidate", row[s].task>> \notin head[s]
    /\ head' = [head EXCEPT ![s] = Work(s) \cup {<<"candidate", row[s].task>>}]
    /\ dirty' = [dirty EXCEPT ![s] = {}]
    /\ UNCHANGED <<main, refVars, fileVars, dbVars, up, req, rec, joining, used>>

WriteReport(s) ==
    /\ MayTouch(s) /\ HasPrompt(s)
    /\ reports' = reports \cup {row[s].task}
    /\ UNCHANGED <<gitVars, refVars, taskFiles, dbVars, up, req, rec, joining, used>>

DeveloperStep(s) == Edit(s) \/ CommitWork(s) \/ CommitCandidate(s) \/ WriteReport(s)

\* Somebody else commits on main (an operator, a pull).
ExternalMain ==
    /\ used.external < MaxExternal
    /\ used' = [used EXCEPT !.external = @ + 1]
    /\ main' = main \cup {<<"external", used.external + 1>>}
    /\ UNCHANGED <<head, dirty, refVars, fileVars, dbVars, up, req, rec, joining>>

-----------------------------------------------------------------------------

Next ==
    \/ HandlerStep
    \/ RecoveryStep
    \/ Boot \/ SecondDaemon \/ Crash
    \/ JoinStep
    \/ \E s \in Sessions : \/ ReadyToIntegrate(s) \/ FusionDone(s) \/ DeveloperStep(s)
    \/ ExternalMain

Spec == Init /\ [][Next]_vars

\* The handler thread and a recovery do not stop halfway; the rest of the
\* system owes nobody a step.
FairSpec == Spec /\ WF_vars(HandlerStep) /\ WF_vars(RecoveryStep)

\* Beyond that: whoever has a task works on it until it is done, asking for
\* publication again and again, and Git does not object forever.
DiligentSpec ==
    /\ FairSpec
    /\ \A s \in Sessions : /\ WF_vars(CommitWork(s)) /\ WF_vars(CommitCandidate(s))
                          /\ WF_vars(WriteReport(s)) /\ WF_vars(FusionDone(s))
    /\ SF_vars(CheckCandidate) /\ SF_vars(Preflight /\ Goto("forward"))
    /\ SF_vars(ForwardMain)

-----------------------------------------------------------------------------
(* Properties.                                                             *)

\* Every variable has its type.
Usage == [tasks : 0 .. MaxTasks, edits : 0 .. MaxEdits, external : 0 .. MaxExternal,
          crashes : 0 .. MaxCrashes, seconds : 0 .. MaxSecond, joins : 0 .. MaxJoins,
          backupFails : 0 .. MaxBackupFails]

TypeOK ==
    /\ main \in Commit
    /\ head \in [Sessions -> Commit]
    /\ dirty \in [Sessions -> Commit]
    /\ snapshotRef \in [Task -> MaybeCommit]
    /\ baseRef \in [Task -> MaybeCommit]
    /\ backups \subseteq Commit
    /\ taskFiles \subseteq Task
    /\ reports \subseteq Task
    /\ row \in [Sessions -> Row]
    /\ lastSeen \in [Sessions -> MaybeCommit]
    /\ lock \in Lock
    /\ up \in BOOLEAN
    /\ req \in Request
    /\ rec \in Recovery
    /\ joining \in Joining
    /\ used \in Usage

\* A request works for a session, within its share of the task identifiers,
\* on a task once it has taken one; a recovery restores a task of a session.
Shape ==
    /\ req.pc # "idle" => req.cur \in Sessions
    /\ req.pc \notin {"idle", "catchup", "caught", "direct", "start"} => req.task \in Task
    /\ req.pc = "direct" => used.tasks + 2 <= MaxTasks
    /\ req.pc \in {"recheck", "commit", "compare", "yield", "start"} => used.tasks + 1 <= MaxTasks
    /\ rec.pc \in {"restore", "unlock", "clean"} =>
          rec.cur \in Sessions /\ TaskToRecover(rec.cur) \in Task

\* The daemon is between requests and no recovery is running.
Quiescent == up /\ req = Idle /\ rec = NotRecovering

\* What a developer wrote, or Codex committed, stays in some worktree, on main,
\* or under a snapshot or backup ref: no sync, failure, crash or recovery drops
\* it.
Kept == main \cup (UNION {Work(s) : s \in Sessions}) \cup (UNION backups)
        \cup (UNION {snapshotRef[t] : t \in Task})

WorkKept == Kept \cap ({"edit", "candidate"} \X Nat)

NoWorkLost == [][WorkKept \subseteq WorkKept']_vars

\* last_seen_main is a promise about two branches: the session has that main
\* in its own history (or it would publish a direct candidate that reverts
\* it), and main still has it.
LastSeenReflected ==
    \A s \in Sessions :
        lastSeen[s] # NoCommit =>
            IsAncestor(lastSeen[s], main) /\ IsAncestor(lastSeen[s], head[s])

\* Between requests the lock and the rows tell the same story: either nobody
\* holds the lock and no session has a task, or the lock names exactly the
\* only session that has one, and its task.
LockTaskConsistent ==
    Quiescent =>
        \A s \in Sessions :
            IF lock.owner = s THEN row[s] = [state |-> row[s].state, task |-> lock.task]
                              ELSE row[s].task = NoTask

\* Between requests, whoever was given a task holds the lock for it, also after
\* a request that failed or a recovery: no two sessions are at work at once.
TaskHoldsLock ==
    Quiescent =>
        \A s \in Sessions : row[s].task # NoTask => lock = LockOf(s, row[s].task)

\* Between requests, a session working on a task has in its worktree the
\* whole of main, so that its candidate can be published.
FusingOnMain ==
    Quiescent =>
        \A s \in Sessions :
            lock.owner = s /\ row[s].state = "fusing" => IsAncestor(main, head[s])

\* Between requests, a task a session is given can be finished or undone: its
\* file is there for Codex, and the refs for the integrity check.
ActiveTaskRecoverable ==
    Quiescent =>
        \A s \in Sessions :
            row[s].task # NoTask =>
                /\ row[s].task \in taskFiles
                /\ snapshotRef[row[s].task] # NoCommit
                /\ baseRef[row[s].task] # NoCommit

\* A request that answers "published" or "already synced" has on main all the
\* work its worktree held when the request arrived.
Answers == \/ req.pc \in {"release", "caught"}
           \/ req.pc = "catchup" /\ head[req.cur] = main

AckedWorkPublished ==
    [][Answers /\ req' = Idle /\ up' => IsAncestor(req.asked, main)]_vars

\* Main never goes back, whatever happens between the check that the candidate
\* has it and the branch -f that moves it: the lock keeps other candidates away,
\* a crash leaves the move undone.
MainForward == [][IsAncestor(main, main')]_vars

\* What makes main serial.  A request and a recovery never run side by side;
\* between taking the lock and giving it back the handler holds it for the
\* session and task it works on; the candidate it carries is part of the
\* session's branch; and where the ref of main is moved without another look,
\* it is moved forward.
RequestsAlone == (req.pc # "idle" => up) /\ (rec.pc # "off" => ~up)

NotHolding == {"idle", "catchup", "caught", "direct", "start",
               "restore", "abortUnlock", "abortClean"}

HandlerHoldsLock == req.pc \notin NotHolding => lock = LockOf(req.cur, req.task)

CandidateIsOwn ==
    req.pc \in {"recheck", "commit", "compare", "forward", "force", "check", "verify", "preflight"}
        => IsAncestor(req.cand, head[req.cur])

ForcedForward == req.pc = "force" => ~MainCheckedOut /\ IsAncestor(main, req.cand)

SerialInv == RequestsAlone /\ HandlerHoldsLock /\ CandidateIsOwn /\ ForcedForward

\* The daemon implements the abstract serial main branch.
Abstract == INSTANCE SerialMain WITH owner <- lock.owner
SerialMainSpec == Abstract!Spec

\* Every request is answered.
RequestsFinish == (req # Idle) ~> (req = Idle)

\* Whoever takes the integration lock gives it back.
LockReturned == (lock # NoLock) ~> (lock = NoLock)
=============================================================================
