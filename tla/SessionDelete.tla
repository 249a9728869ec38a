---------------------------- MODULE SessionDelete ----------------------------
(***************************************************************************)
(* `cocodex delete` (delete.py) and `cocodex join` creating a session      *)
(* (session.py), two kinds of processes of their own, beside the daemon    *)
(* and its requests.  Sessions come and go here: a request may find the    *)
(* worktree, the row or the agent of its session gone.                     *)
(*                                                                         *)
(* The row of a session that is not registered is kept in a canonical      *)
(* state: what the daemon writes to it is an UPDATE without an effect.     *)
(* Recovery after a crash and the task recovery of join are composed with  *)
(* requests in SyncDaemon, not with deletion here.                         *)
(***************************************************************************)
EXTENDS SyncDaemon, Sequences

CONSTANTS
    Deleters,        \* `cocodex delete` processes that may run at a time
    MaxDeleteFails,  \* bound: deletions that fail or are killed
    MaxRejoins       \* bound: `cocodex join` processes started

ASSUME DeleteAssumption == {MaxDeleteFails, MaxRejoins} \subseteq Nat

VARIABLES
    registered,   \* sessions that have a row
    worktrees,    \* sessions whose worktree exists
    branches,     \* sessions whose branch exists
    stash,        \* refs/stash, one stack for all worktrees of the repository
    deletedRefs,  \* the work kept by refs/cocodex/deleted/..., never removed
    agents,       \* sessions with a running agent
    known,        \* sessions whose row has that agent connected, with its pid
    del,          \* the deletions in progress
    adding,       \* the `cocodex join` in progress
    mishaps,      \* what was used of the bounds of this module
    overlap,      \* history: what has run beside a deletion past its claim
    late          \* history: what was written in a worktree behind the backups
                  \* of a deletion that is under way

sessionVars == <<registered, worktrees, branches, agents, known>>
keptVars == <<stash, deletedRefs>>
deleteVars == <<sessionVars, keptVars, del, adding, mishaps>>
allVars == <<vars, deleteVars, overlap, late>>

NotDeleting == [pc |-> "off", cur |-> NoSession, claimed |-> FALSE, old |-> "clean",
                tree |-> FALSE, mutated |-> FALSE]

DeletionPc == {"off", "claim", "head", "stash", "ref", "drop", "remove", "branch", "record"}

Deletion == [pc : DeletionPc, cur : MaybeSession, claimed : BOOLEAN, old : SessionState,
             tree : BOOLEAN, mutated : BOOLEAN]

NotAdding == [pc |-> "off", cur |-> NoSession]

Adding == [pc : {"off", "row", "register"}, cur : MaybeSession]

DeletingAt(d, pc) == del[d].pc = pc
GotoDelete(d, pc) == del' = [del EXCEPT ![d].pc = pc]
GotoMutated(d, pc) == del' = [del EXCEPT ![d].pc = pc, ![d].mutated = TRUE]
BeingDeleted(s) == \E d \in Deleters : del[d].pc # "off" /\ del[d].cur = s

-----------------------------------------------------------------------------
(* delete_session.                                                         *)

\* Mutant: a session that is being deleted is refused.
MayDelete_Once(s) ==
    /\ s \in registered \cup worktrees \cup branches
    /\ lock.owner # s
    /\ s \in registered =>
          row[s].task = NoTask /\ s \notin known /\ row[s].state # "deleting"

\* Something is there to delete, and neither a sync nor a connected agent in
\* the way.  A row whose agent is dead is marked disconnected by the look.
MayDelete(s) ==
    /\ s \in registered \cup worktrees \cup branches
    /\ lock.owner # s
    /\ s \in registered => row[s].task = NoTask /\ s \notin known

\* The row, the lock and the worktree are looked at.
DeleteStart(d, s) ==
    /\ DeletingAt(d, "off")
    /\ MayDelete(s)
    /\ del' = [del EXCEPT ![d] =
                 [pc |-> IF s \in registered THEN "claim" ELSE "head", cur |-> s,
                  claimed |-> s \in registered, old |-> row[s].state,
                  tree |-> s \in worktrees, mutated |-> FALSE]]
    /\ UNCHANGED <<vars, sessionVars, keptVars, adding, mishaps>>

\* Mutant: the claim does not look at the lock and the task again.
DeleteClaim_Unchecked(d) ==
    LET s == del[d].cur IN
    /\ DeletingAt(d, "claim")
    /\ IF s \in registered THEN TransitionSession(s, "deleting", NoTask) ELSE UNCHANGED row
    /\ GotoDelete(d, "head")
    /\ UNCHANGED <<gitVars, refVars, fileVars, lastSeen, lock, envVars, req, used>>
    /\ UNCHANGED <<sessionVars, keptVars, adding, mishaps>>

\* claim_session_deletion: one transaction.  A row that has gone meanwhile is
\* no obstacle.
DeleteClaim(d) ==
    LET s == del[d].cur IN
    /\ DeletingAt(d, "claim")
    /\ IF s \in registered
         THEN /\ lock.owner # s /\ row[s].task = NoTask /\ s \notin known
              /\ TransitionSession(s, "deleting", NoTask)
         ELSE UNCHANGED row
    /\ GotoDelete(d, "head")
    /\ UNCHANGED <<gitVars, refVars, fileVars, lastSeen, lock, envVars, req, used>>
    /\ UNCHANGED <<sessionVars, keptVars, adding, mishaps>>

\* A heartbeat of an agent that is not known makes the row connected again.
DeleteRefused(d) ==
    LET s == del[d].cur IN
    /\ DeletingAt(d, "claim")
    /\ s \in registered
    /\ \/ lock.owner = s \/ row[s].task # NoTask \/ s \in known
       \/ up /\ s \in agents /\ row[s].state # "deleting"
    /\ del' = [del EXCEPT ![d] = NotDeleting]
    /\ UNCHANGED <<vars, sessionVars, keptVars, adding, mishaps>>

DeleteBackUpHead(d) ==
    LET s == del[d].cur IN
    /\ DeletingAt(d, "head")
    /\ deletedRefs' = IF s \in branches THEN deletedRefs \cup head[s] ELSE deletedRefs
    /\ GotoDelete(d, "stash")
    /\ UNCHANGED <<vars, sessionVars, stash, adding, mishaps>>

\* _stash_dirty_backup: git stash push --include-untracked, in the worktree.
DeleteStash(d) ==
    LET s == del[d].cur IN
    /\ DeletingAt(d, "stash")
    /\ del[d].tree => s \in worktrees
    /\ IF del[d].tree /\ dirty[s] # {}
         THEN /\ stash' = <<Work(s)>> \o stash
              /\ dirty' = [dirty EXCEPT ![s] = {}]
              /\ GotoDelete(d, "ref")
         ELSE /\ UNCHANGED <<stash, dirty>>
              /\ GotoDelete(d, "remove")
    /\ UNCHANGED <<main, head, refVars, fileVars, dbVars, envVars, req, used>>
    /\ UNCHANGED <<sessionVars, deletedRefs, adding, mishaps>>

\* Mutant: the stash is dropped without a ref of its own.
DeleteStashRef_Forgotten(d) ==
    /\ DeletingAt(d, "ref")
    /\ stash # <<>>
    /\ GotoDelete(d, "drop")
    /\ UNCHANGED <<vars, sessionVars, keptVars, adding, mishaps>>

\* The ref is made for whatever is on top of the stack now.
DeleteStashRef(d) ==
    /\ DeletingAt(d, "ref")
    /\ stash # <<>>
    /\ deletedRefs' = deletedRefs \cup Head(stash)
    /\ GotoDelete(d, "drop")
    /\ UNCHANGED <<vars, sessionVars, stash, adding, mishaps>>

\* git stash drop stash@{0}, whatever that is now; failures are ignored.
DeleteStashDrop(d) ==
    /\ DeletingAt(d, "drop")
    /\ stash' = IF stash = <<>> THEN stash ELSE Tail(stash)
    /\ GotoMutated(d, "remove")
    /\ UNCHANGED <<vars, sessionVars, deletedRefs, adding, mishaps>>

\* git worktree remove --force: whatever is uncommitted in it goes with it.
DeleteWorktree(d) ==
    LET s == del[d].cur IN
    /\ DeletingAt(d, "remove")
    /\ IF del[d].tree
         THEN /\ s \in worktrees
              /\ worktrees' = worktrees \ {s}
              /\ dirty' = [dirty EXCEPT ![s] = {}]
              /\ GotoMutated(d, "branch")
         ELSE /\ UNCHANGED <<worktrees, dirty>>
              /\ GotoDelete(d, "branch")
    /\ UNCHANGED <<main, head, refVars, fileVars, dbVars, envVars, req, used>>
    /\ UNCHANGED <<registered, branches, agents, known, keptVars, adding, mishaps>>

\* git branch -D, which Git refuses for a branch that a worktree has checked out.
DeleteBranch(d) ==
    LET s == del[d].cur IN
    /\ DeletingAt(d, "branch")
    /\ s \in branches => s \notin worktrees
    /\ branches' = branches \ {s}
    /\ head' = IF s \in branches THEN [head EXCEPT ![s] = Root] ELSE head
    /\ GotoDelete(d, "record")
    /\ UNCHANGED <<main, dirty, refVars, fileVars, dbVars, envVars, req, used>>
    /\ UNCHANGED <<registered, worktrees, agents, known, keptVars, adding, mishaps>>

\* delete_session_record, whatever the row says now.
DeleteRecord(d) ==
    LET s == del[d].cur IN
    /\ DeletingAt(d, "record")
    /\ registered' = registered \ {s}
    /\ known' = known \ {s}
    /\ TransitionSession(s, "clean", NoTask)
    /\ UpdateLastSeenMain(s, Root)
    /\ del' = [del EXCEPT ![d] = NotDeleting]
    /\ UNCHANGED <<gitVars, refVars, fileVars, lock, envVars, req, used>>
    /\ UNCHANGED <<worktrees, branches, agents, keptVars, adding, mishaps>>

Mishap == mishaps.fails < MaxDeleteFails /\ mishaps' = [mishaps EXCEPT !.fails = @ + 1]

\* Mutant: the claim is given back whatever was done.
DeleteFails_Restores(d) ==
    LET s == del[d].cur IN
    /\ del[d].pc \in {"head", "stash", "ref", "remove", "branch", "record"}
    /\ Mishap
    /\ IF del[d].claimed /\ s \in registered
         THEN TransitionSession(s, del[d].old, NoTask)
         ELSE UNCHANGED row
    /\ del' = [del EXCEPT ![d] = NotDeleting]
    /\ UNCHANGED <<gitVars, refVars, fileVars, lastSeen, lock, envVars, req, used>>
    /\ UNCHANGED <<sessionVars, keptVars, adding>>

\* What a second deletion or a join has done meanwhile makes the next step fail:
\* the worktree has gone, the stash is empty, the branch is checked out again.
Blocked(d) ==
    LET s == del[d].cur IN
    \/ del[d].pc \in {"stash", "remove"} /\ del[d].tree /\ s \notin worktrees
    \/ DeletingAt(d, "ref") /\ stash = <<>>
    \/ DeletingAt(d, "branch") /\ s \in branches \cap worktrees

\* A command or a file write fails.  Before anything was mutated, as far as the
\* process knows, the row gets back the state it was read with.
DeleteFails(d) ==
    LET s == del[d].cur IN
    /\ del[d].pc \in {"head", "stash", "ref", "remove", "branch", "record"}
    /\ \/ Mishap
       \/ Blocked(d) /\ UNCHANGED mishaps
    /\ IF del[d].claimed /\ ~del[d].mutated /\ s \in registered
         THEN TransitionSession(s, del[d].old, NoTask)
         ELSE UNCHANGED row
    /\ del' = [del EXCEPT ![d] = NotDeleting]
    /\ UNCHANGED <<gitVars, refVars, fileVars, lastSeen, lock, envVars, req, used>>
    /\ UNCHANGED <<sessionVars, keptVars, adding>>

\* The process is killed.
DeleteDies(d) ==
    /\ del[d].pc # "off"
    /\ Mishap
    /\ del' = [del EXCEPT ![d] = NotDeleting]
    /\ UNCHANGED <<vars, sessionVars, keptVars, adding>>

\* A deletion goes on, or is stopped by what another process has done.
DeleteStep(d) ==
    /\ ~DeletingAt(d, "off")
    /\ \/ DeleteClaim(d) \/ DeleteRefused(d) \/ DeleteBackUpHead(d) \/ DeleteStash(d)
       \/ DeleteStashRef(d) \/ DeleteStashDrop(d) \/ DeleteWorktree(d) \/ DeleteBranch(d)
       \/ DeleteRecord(d)
       \/ Blocked(d) /\ DeleteFails(d)

-----------------------------------------------------------------------------
(* `cocodex join`: the worktree, the row, the agent, its registration.     *)

\* create_worktree: what is there is taken as it is.
JoinWorktree(s) ==
    /\ adding = NotAdding /\ s \notin agents
    /\ mishaps.rejoins < MaxRejoins
    /\ mishaps' = [mishaps EXCEPT !.rejoins = @ + 1]
    /\ adding' = [pc |-> "row", cur |-> s]
    /\ worktrees' = worktrees \cup {s}
    /\ branches' = branches \cup {s}
    /\ head' = IF s \in branches THEN head ELSE [head EXCEPT ![s] = main]
    /\ UNCHANGED <<main, dirty, refVars, fileVars, dbVars, envVars, req, used>>
    /\ UNCHANGED <<registered, agents, known, keptVars, del>>

\* A row for a new session: it is taken to know main as it is now.
InsertRow(s) ==
    /\ registered' = registered \cup {s}
    /\ TransitionSession(s, "clean", NoTask)
    /\ UpdateLastSeenMain(s, main)

\* The rest of ensure_session_worktree: the row is looked up, or made, and the
\* agent started; a session that is being deleted is left alone.
JoinRow ==
    LET s == adding.cur
        refused == s \in registered /\ row[s].state = "deleting"
    IN  /\ adding.pc = "row"
        /\ IF s \in registered THEN UNCHANGED <<registered, row, lastSeen>> ELSE InsertRow(s)
        /\ agents' = IF refused THEN agents ELSE agents \cup {s}
        /\ adding' = IF refused THEN NotAdding ELSE [adding EXCEPT !.pc = "register"]
        /\ UNCHANGED <<gitVars, refVars, fileVars, lock, envVars, req, used>>
        /\ UNCHANGED <<worktrees, branches, known, keptVars, del, mishaps>>

\* Mutant: the agent may be dead by now.
Connected_Anyway(s) == known \cup {s}

\* update_session_runtime, with the pid of the agent.
Connected(s) == known \cup ({s} \cap agents)

\* The daemon gets to the registration, perhaps when join has stopped waiting
\* for the answer; an agent that is refused and hears of it exits.  A row that
\* has gone is made again.
JoinRegister ==
    LET s == adding.cur IN
    /\ adding.pc = "register"
    /\ up /\ req = Idle
    /\ adding' = NotAdding
    /\ IF s \in registered /\ row[s].state = "deleting"
         THEN /\ agents' \in {agents, agents \ {s}}
              /\ UNCHANGED <<registered, known, row, lastSeen>>
         ELSE /\ known' = Connected(s)
              /\ IF s \in registered THEN UNCHANGED <<registered, row, lastSeen>>
                                     ELSE InsertRow(s)
              /\ UNCHANGED agents
    /\ UNCHANGED <<gitVars, refVars, fileVars, lock, envVars, req, used>>
    /\ UNCHANGED <<worktrees, branches, keptVars, del, mishaps>>

\* No daemon listens: the agent runs without being known.
JoinUnheard ==
    /\ adding.pc = "register"
    /\ ~up
    /\ adding' = NotAdding
    /\ UNCHANGED <<vars, sessionVars, keptVars, del, mishaps>>

AgentStops(s) ==
    /\ s \in agents
    /\ agents' = agents \ {s}
    /\ known' = known \ {s}
    /\ UNCHANGED <<vars, registered, worktrees, branches, keptVars, del, adding, mishaps>>

AddStep == (\E s \in Sessions : JoinWorktree(s)) \/ JoinRow \/ JoinRegister \/ JoinUnheard

-----------------------------------------------------------------------------
(* A request whose session is being deleted.                               *)

NeedsWorktree == {"catchup", "direct", "commit", "prepare", "snapshot", "snapRef", "baseRef",
                  "merge", "validate", "fallback", "restore", "reset", "normalize", "check",
                  "verify"}
NeedsRow == {"start", "prepare", "prompt", "check"}

\* The next step runs Git in a worktree, reads a row or calls an agent that is
\* not there.  The socket to freeze is the one read when the request arrived,
\* the one for the prompt is read again.
Hindered ==
    \/ req.pc \in NeedsWorktree /\ cur \notin worktrees
    \/ req.pc \in NeedsRow /\ cur \notin registered
    \/ At("freeze") /\ cur \notin agents
    \/ At("prompt") /\ cur \notin known

\* The direct publish gives up before it looks at the worktree, or fails there.
HinderedDirect ==
    /\ At("direct")
    /\ IF lock # NoLock \/ main # lastSeen[cur] THEN Goto("start") ELSE Finish
    /\ UNCHANGED <<gitVars, refVars, fileVars, dbVars, envVars, used>>

\* The exception ends the request, or it only ends this attempt.
HinderedEnds ==
    /\ \/ req.pc \in {"catchup", "start"} /\ Finish
       \/ At("verify") /\ task \in reports /\ Finish
       \/ req.pc \in {"merge", "validate"} /\ Goto("fallback")
       \/ At("restore") /\ Goto("abortUnlock")
    /\ UNCHANGED <<gitVars, refVars, fileVars, dbVars, envVars, used>>

\* A task without its worktree goes back to "fusing", if it is still there.
HinderedTask ==
    /\ req.pc \in {"normalize", "check"}
    /\ IF \/ At("normalize") /\ row[cur].state \in LEGACY_RECOVERY_STATES
          \/ At("check") /\ cur \in registered /\ TaskHeld
         THEN TransitionSession(cur, "fusing", task)
         ELSE UNCHANGED row
    /\ Finish
    /\ UNCHANGED <<gitVars, refVars, fileVars, lastSeen, lock, envVars, used>>

HinderedStep ==
    /\ Hindered
    /\ \/ DirectFails \/ StartFails \/ VerifyWithoutReport
       \/ HinderedDirect \/ HinderedEnds \/ HinderedTask

RequestStep ==
    /\ req # Idle
    /\ UNCHANGED deleteVars
    /\ IF Hindered THEN HinderedStep ELSE HandlerStep

-----------------------------------------------------------------------------
(* The whole.                                                              *)

\* Sessions with a row have a running agent; the others are what a join left
\* that was killed when it had made the worktree.
DeleteInit ==
    /\ Init
    /\ registered \in SUBSET Sessions
    /\ \A s \in Sessions \ registered :
          row[s] = [state |-> "clean", task |-> NoTask] /\ lastSeen[s] = Root
    /\ worktrees = Sessions /\ branches = Sessions
    /\ agents = registered /\ known = registered
    /\ stash = <<>> /\ deletedRefs = Root
    /\ del = [d \in Deleters |-> NotDeleting]
    /\ adding = NotAdding
    /\ mishaps = [fails |-> 0, rejoins |-> 0]
    /\ overlap = {} /\ late = {}

\* Requests are for sessions with a row; a new one needs the worktree at once.
Arrival(s) ==
    /\ s \in registered
    /\ \/ s \in worktrees /\ ReadyToIntegrate(s)
       \/ FusionDone(s)
    /\ UNCHANGED deleteVars

\* Developers work where there is a worktree, whoever is about to delete it.
DeveloperWorks(s) ==
    /\ s \in worktrees
    /\ DeveloperStep(s)
    /\ UNCHANGED deleteVars

DaemonStarts == (Boot \/ RecoveryStep) /\ UNCHANGED deleteVars

MainMoves == ExternalMain /\ UNCHANGED deleteVars

\* The deletion of s is past its claim.
PastClaim(d, s) == del[d].pc \notin {"off", "claim"} /\ del[d].cur = s
UnderWay(s) == \E d \in Deleters : PastClaim(d, s)

\* It has read the row before any deletion had marked it, and gives that back.
ReadUnmarked(d) == del[d].pc # "off" /\ del[d].claimed /\ del[d].old # "deleting"

\* What runs beside a deletion of the same session that is past its claim.
Overlaps ==
    {what \in {"request", "join", "recovery", "deletion"} :
        \/ what = "request" /\ UnderWay(req.cur)
        \/ what = "join" /\ UnderWay(adding.cur)
        \/ what = "recovery" /\ \E s \in rec.todo : UnderWay(s)
        \/ what = "deletion" /\ \E d, e \in Deleters :
              d # e /\ ReadUnmarked(d) /\ PastClaim(e, del[d].cur)}

\* A deletion that has the worktree to remove is at one of these steps with s.
Behind(s, pcs) == \E d \in Deleters : del[d].cur = s /\ del[d].tree /\ del[d].pc \in pcs

\* What a step commits in the worktree of s when the head has been put aside, and
\* what it leaves there uncommitted when the rest has been.
WrittenLate(s) ==
    (IF Behind(s, {"stash", "ref", "drop", "remove"}) THEN head'[s] \ head[s] ELSE {})
    \cup (IF Behind(s, {"ref", "drop", "remove"}) THEN dirty'[s] \ dirty[s] ELSE {})

\* The history variables.  When no deletion is under way nothing is late any more.
Remembered ==
    /\ overlap' = overlap \cup Overlaps'
    /\ late' = IF \E d \in Deleters : del'[d].pc # "off"
                  THEN late \cup UNION {WrittenLate(s) : s \in Sessions}
                  ELSE {}

DeleteNext ==
    /\ \/ RequestStep \/ DaemonStarts \/ MainMoves \/ AddStep
       \/ \E s \in Sessions : \/ Arrival(s) \/ DeveloperWorks(s) \/ AgentStops(s)
                              \/ \E d \in Deleters : DeleteStart(d, s)
       \/ \E d \in Deleters : DeleteStep(d) \/ DeleteFails(d) \/ DeleteDies(d)
    /\ Remembered

DeleteSpec == DeleteInit /\ [][DeleteNext]_allVars

\* The handler and a deletion go on while they can.  Whoever finds a session
\* marked for deletion closes its agent and runs `cocodex delete` again.
Recorded(A) == A /\ Remembered

Marked(s) == s \in registered /\ row[s].state = "deleting"

FairDeleteSpec ==
    /\ DeleteSpec
    /\ WF_allVars(Recorded(RequestStep))
    /\ \A d \in Deleters : WF_allVars(Recorded(DeleteStep(d)))
    /\ \A s \in Sessions :
          /\ WF_allVars(Recorded(Marked(s) /\ AgentStops(s)))
          /\ WF_allVars(Recorded(Marked(s) /\ \E d \in Deleters : DeleteStart(d, s)))

-----------------------------------------------------------------------------
(* Properties.                                                             *)

\* Every variable has its type.
DeleteTypeOK ==
    /\ TypeOK
    /\ {registered, worktrees, branches, agents} \subseteq SUBSET Sessions
    /\ known \subseteq registered \cap agents
    /\ stash \in Seq(Commit)
    /\ deletedRefs \in Commit
    /\ del \in [Deleters -> Deletion]
    /\ adding \in Adding
    /\ mishaps \in [fails : 0 .. MaxDeleteFails, rejoins : 0 .. MaxRejoins]
    /\ overlap \subseteq {"request", "join", "recovery", "deletion"}
    /\ late \in Commit

\* Between requests, whoever holds the integration lock is a session that can
\* finish its task: its row and its worktree are there.  A deletion that comes
\* between the admission of a request and the claim of its task (which writes
\* the row without a look at its state) does not leave a lock behind.  Left out
\* is what follows a join of the session beside a deletion past its claim: the
\* deletion then takes worktree and row from a session that has a task again.
LockHolderPresent ==
    Quiescent /\ lock # NoLock /\ "join" \notin overlap
        => lock.owner \in registered \cap worktrees

\* When no deletion is under way, a row that is not marked "deleting" has its
\* worktree and its branch: whatever fails, and wherever a deletion is killed,
\* a session is whole or says that it is not.  Left out is what follows when
\* something else meets a deletion past its claim: a request, or a recovery,
\* which write over the mark; a join, which makes a row for a worktree that is
\* about to go; another deletion that had read the row before it was marked,
\* and may give that back.
SessionsWhole ==
    overlap = {} =>
        \A s \in registered :
            row[s].state # "deleting" /\ ~BeingDeleted(s) => s \in worktrees \cap branches

\* What was committed or written in a session is somewhere when the session is
\* gone: on main, in a worktree or a branch, in the stash, under a ref, whatever
\* requests, joins and failures meet the deletion.  One thing is lost, because the
\* deletion looks once and nothing keeps developers and requests away: what is
\* committed in the worktree when its head has been put aside, even if it was
\* written before, and what is edited there when the rest has been, goes with
\* `git worktree remove --force` and `git branch -D`.  All else that was there, and
\* all that a deletion which did not get so far has left, is kept.
KeptWhenDeleted ==
    WorkKept \cup ((deletedRefs \cup UNION {stash[i] : i \in DOMAIN stash})
                   \cap ({"edit", "candidate"} \X Nat))

DeletedWorkKept ==
    [][KeptWhenDeleted \ late \subseteq KeptWhenDeleted']_allVars

\* A session that is marked for deletion does not stay so.
DeletionCompletes ==
    \A s \in Sessions : Marked(s) ~> ~Marked(s)
=============================================================================
