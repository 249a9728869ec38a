------------------------------ MODULE RemoteSync ------------------------------
(***************************************************************************)
(* The copy that clients keep at a remote.  After a sync has succeeded the  *)
(* client force-pushes main and its branch, and then Cocodex's refs;        *)
(* `cocodex delete` pushes its backups and removes the branch (cli.py,      *)
(* git.py).  Nobody orders these pushes: clients of several sessions, and   *)
(* several of one, work side by side.  Git is external: a push reads the    *)
(* local refs, connects and is told the refs of the remote, and then asks   *)
(* for one update after the other, which the remote refuses if the ref has  *)
(* changed since.  A push that has timed out may still be carried out.      *)
(*                                                                         *)
(* A commit of main is its number, a branch the last main it was given, a   *)
(* backup the number of the deletion.                                      *)
(***************************************************************************)
EXTENDS Naturals

CONSTANTS
    Sessions,
    Pushers,    \* pushes there can be at once
    Absent,
    MaxMain,    \* bound: publications
    MaxDeletes  \* bound: deletions

ASSUME RemoteAssumption == Absent \notin Nat /\ MaxMain \in Nat /\ MaxDeletes \in Nat

VARIABLES
    local,   \* the refs of the repository: main, the branches, Cocodex's refs
    remote,  \* those of the remote
    push,    \* the pushes of syncs under way
    del      \* the deletion under way, once it is done locally

remoteVars == <<local, remote, push, del>>

Main == 0 .. MaxMain
Branch == Main \cup {Absent}
Refs == [main : Main, branch : [Sessions -> Branch], backups : SUBSET (1 .. MaxDeletes)]
Idle == [pc |-> "off"]
NoDeletion == [pc |-> "off"]

Ends(p) == push' = [push EXCEPT ![p] = Idle]
Pushing(s) == \E p \in Pushers : push[p] # Idle /\ push[p].session = s

-----------------------------------------------------------------------------
(* `cocodex sync`                                                          *)

\* The daemon has answered: with changes published, or main merely merged.
Sync(p, s) ==
    /\ push[p] = Idle /\ local.branch[s] # Absent
    /\ \E m \in {local.main, local.main + 1} \cap Main :
          local' = [local EXCEPT !.main = m, !.branch[s] = m]
    /\ push' = [push EXCEPT ![p] = [pc |-> "answered", session |-> s]]
    /\ UNCHANGED <<remote, del>>

\* Mutant: what the session has seen of main is pushed.
ReadLocal_Seen(p) ==
    LET s == push[p].session IN
    /\ push[p].pc = "answered"
    /\ push' = [push EXCEPT ![p] = [pc |-> "read", session |-> s, raced |-> FALSE,
                                    main |-> local.branch[s], branch |-> local.branch[s]]]
    /\ local.branch[s] # Absent
    /\ UNCHANGED <<local, remote, del>>

\* force_push_session_refs; a branch that has been deleted is an error.
ReadLocal(p) ==
    LET s == push[p].session IN
    /\ push[p].pc = "answered"
    /\ IF local.branch[s] = Absent
         THEN Ends(p)
         ELSE push' = [push EXCEPT ![p] = [pc |-> "read", session |-> s, raced |-> FALSE,
                                           main |-> local.main, branch |-> local.branch[s]]]
    /\ UNCHANGED <<local, remote, del>>

\* Mutant: a session whose branch is at the remote has nothing to push.
Connect_IfBehind(p) ==
    LET s == push[p].session IN
    /\ push[p].pc = "read"
    /\ push' = [push EXCEPT ![p] =
                  IF remote.branch[s] = @.branch
                    THEN [pc |-> "refs", session |-> s]
                    ELSE [pc |-> "main", session |-> s, raced |-> @.raced, main |-> @.main,
                          branch |-> @.branch, oldMain |-> remote.main,
                          oldBranch |-> remote.branch[s]]]
    /\ UNCHANGED <<local, remote, del>>

Connect(p) ==
    /\ push[p].pc = "read"
    /\ push' = [push EXCEPT ![p] = [pc |-> "main", session |-> @.session, raced |-> @.raced,
                                    main |-> @.main, branch |-> @.branch,
                                    oldMain |-> remote.main,
                                    oldBranch |-> remote.branch[@.session]]]
    /\ UNCHANGED <<local, remote, del>>

\* Who else has read main, and not updated it, may have read an older one.
Raced(q) == push[q].pc \in {"read", "main"}

\* A ref that was up to date is not sent, and cannot be refused.
UpdateMain(p) ==
    /\ push[p].pc = "main"
    /\ LET current == push[p].main = push[p].oldMain
           moves == ~current /\ remote.main = push[p].oldMain IN
       /\ remote' = IF moves THEN [remote EXCEPT !.main = push[p].main] ELSE remote
       /\ push' = [q \in Pushers |->
                     IF q = p THEN [pc |-> IF current \/ moves THEN "branch" ELSE "branchAndFail",
                                    session |-> push[p].session, branch |-> push[p].branch,
                                    oldBranch |-> push[p].oldBranch]
                     ELSE IF moves /\ Raced(q) THEN [push[q] EXCEPT !.raced = TRUE]
                     ELSE push[q]]
    /\ UNCHANGED <<local, del>>

\* The updates of one push do not depend on each other, its result does.
UpdateBranch(p) ==
    LET s == push[p].session
        current == push[p].branch = push[p].oldBranch
        moves == ~current /\ remote.branch[s] = push[p].oldBranch IN
    /\ push[p].pc \in {"branch", "branchAndFail"}
    /\ remote' = IF moves THEN [remote EXCEPT !.branch[s] = push[p].branch] ELSE remote
    /\ IF (current \/ moves) /\ push[p].pc = "branch"
         THEN push' = [push EXCEPT ![p] = [pc |-> "refs", session |-> s]]
         ELSE Ends(p)
    /\ UNCHANGED <<local, del>>

\* Mutant: the session's own refs only, which are none of a deletion's.
ReadRefs_Own(p) ==
    /\ push[p].pc = "refs"
    /\ push' = [push EXCEPT ![p] = [pc |-> "send", session |-> @.session, backups |-> {}]]
    /\ UNCHANGED <<local, remote, del>>

\* The second push, of all there is under refs/cocodex; tried only after the first
\* has succeeded.
ReadRefs(p) ==
    /\ push[p].pc = "refs"
    /\ push' = [push EXCEPT ![p] = [pc |-> "send", session |-> @.session,
                                    backups |-> local.backups]]
    /\ UNCHANGED <<local, remote, del>>

SyncSucceeds(p) ==
    /\ push[p].pc = "send"
    /\ remote' = [remote EXCEPT !.backups = @ \cup push[p].backups]
    /\ Ends(p)
    /\ UNCHANGED <<local, del>>

\* No network, or thirty seconds over.
PushFails(p) ==
    /\ push[p].pc \notin {"off", "answered", "refs"}
    /\ Ends(p)
    /\ UNCHANGED <<local, remote, del>>

SyncStep(p) == \/ \E s \in Sessions : Sync(p, s)
               \/ ReadLocal(p) \/ Connect(p) \/ UpdateMain(p) \/ UpdateBranch(p)
               \/ ReadRefs(p) \/ SyncSucceeds(p) \/ PushFails(p)

-----------------------------------------------------------------------------
(* try_sync_deleted_session_refs                                           *)

\* Mutant: the backup ref is gone again before it is pushed.
DeletedLocally_Dropped(s) ==
    /\ del.pc = "off"
    /\ local.branch[s] # Absent
    /\ local' = [local EXCEPT !.branch[s] = Absent]
    /\ \E d \in (1 .. MaxDeletes) \ local.backups :
          del' = [pc |-> "backups", session |-> s, backup |-> d, warned |-> FALSE,
                  beside |-> Pushing(s)]
    /\ UNCHANGED <<remote, push>>

\* SessionDelete says what happens until then.  A backup has a name of its own.
DeletedLocally(s) ==
    /\ del.pc = "off"
    /\ local.branch[s] # Absent
    /\ \E d \in (1 .. MaxDeletes) \ local.backups :
          /\ local' = [local EXCEPT !.branch[s] = Absent, !.backups = @ \cup {d}]
          /\ del' = [pc |-> "backups", session |-> s, backup |-> d, warned |-> FALSE,
                     beside |-> Pushing(s)]
    /\ UNCHANGED <<remote, push>>

\* Mutant: a failure is noted only if there is nothing left to do.
PushBackups_Quietly ==
    /\ del.pc = "backups"
    /\ del' = [del EXCEPT !.pc = "list"]
    /\ \/ remote' = [remote EXCEPT !.backups = @ \cup {del.backup}]
       \/ UNCHANGED remote
    /\ UNCHANGED <<local, push>>

\* A failure is noted, and the branch is looked for all the same.
PushBackups ==
    /\ del.pc = "backups"
    /\ \/ remote' = [remote EXCEPT !.backups = @ \cup {del.backup}]
          /\ del' = [del EXCEPT !.pc = "list"]
       \/ del' = [del EXCEPT !.pc = "list", !.warned = TRUE]
          /\ UNCHANGED remote
    /\ UNCHANGED <<local, push>>

ListRemote ==
    /\ del.pc = "list"
    /\ \/ del' = [del EXCEPT !.pc = IF remote.branch[del.session] = Absent THEN "done"
                                                                           ELSE "remove"]
       \/ del' = [del EXCEPT !.pc = "done", !.warned = TRUE]
    /\ UNCHANGED <<local, remote, push>>

\* To remove a branch that is not there is an error too.
RemoveBranch ==
    /\ del.pc = "remove"
    /\ \/ /\ remote.branch[del.session] # Absent
          /\ remote' = [remote EXCEPT !.branch[del.session] = Absent]
          /\ del' = [del EXCEPT !.pc = "done"]
       \/ UNCHANGED remote /\ del' = [del EXCEPT !.pc = "done", !.warned = TRUE]
    /\ UNCHANGED <<local, push>>

DeleteEnds ==
    /\ del.pc = "done"
    /\ del' = NoDeletion
    /\ UNCHANGED <<local, remote, push>>

\* `cocodex join` branches from main once more; nothing tells a deletion that is
\* still at the remote.
Rejoin(s) ==
    /\ local.branch[s] = Absent
    /\ local' = [local EXCEPT !.branch[s] = local.main]
    /\ del' = IF del.pc # "off" /\ del.session = s THEN [del EXCEPT !.beside = TRUE] ELSE del
    /\ UNCHANGED <<remote, push>>

DeleteStep == \/ \E s \in Sessions : DeletedLocally(s) \/ Rejoin(s)
              \/ PushBackups \/ ListRemote \/ RemoveBranch \/ DeleteEnds

-----------------------------------------------------------------------------

Init ==
    /\ local = [main |-> 0, branch |-> [s \in Sessions |-> 0], backups |-> {}]
    /\ remote = [main |-> 0, branch |-> [s \in Sessions |-> Absent], backups |-> {}]
    /\ push = [p \in Pushers |-> Idle]
    /\ del = NoDeletion

Next == DeleteStep \/ \E p \in Pushers : SyncStep(p)

Spec == Init /\ [][Next]_remoteVars

-----------------------------------------------------------------------------
(* Properties.                                                             *)

\* Refs have their types; the remote has nothing that was not there locally.
TypeOK ==
    /\ local \in Refs /\ remote \in Refs
    /\ remote.main <= local.main /\ remote.backups \subseteq local.backups
    /\ del = NoDeletion \/ del \in [pc : {"backups", "list", "remove", "done"},
                                    session : Sessions, backup : 1 .. MaxDeletes,
                                    warned : BOOLEAN, beside : BOOLEAN]

\* The remote's main goes back only by a push that another one overtook.
BackOnlyWhenOvertaken ==
    [][remote'.main < remote.main =>
         \E p \in Pushers : push[p].pc = "main" /\ push[p].raced]_remoteVars

Succeeds == \E p \in Pushers : SyncSucceeds(p)

\* If syncs go on to succeed, whatever pushes have done to each other, the
\* remote's main ends up as the local one, which does not change for ever.
RemoteCatchesUp ==
    []<><<Succeeds>>_remoteVars => <>[](remote.main = local.main)

\* Every backup of a deletion gets to the remote with the syncs of others, also
\* when the deletion itself could not push it.
BackupsReachRemote ==
    []<><<Succeeds>>_remoteVars => <>[](remote.backups = local.backups)

\* A deletion without a warning has left its backup at the remote, and no branch,
\* unless the session was synced or joined beside it.
CleanedUp ==
    del.pc = "done" /\ ~del.warned /\ ~del.beside =>
        /\ del.backup \in remote.backups
        /\ remote.branch[del.session] = Absent
=============================================================================
