----------------------------- MODULE MCStartup -----------------------------
(***************************************************************************)
(* Startup recovery alone, from what an interrupted or older daemon, or an *)
(* operator who removed a task file, may have left: two sessions whose     *)
(* rows hold any state, each with no task or a task of its own; a lock     *)
(* held by a session with a task, for its task or another; task files,     *)
(* refs and unfinished work there or not.  The daemon may die again while  *)
(* it recovers.  Nothing is requested before it is up, and then it is all  *)
(* over.                                                                   *)
(***************************************************************************)
EXTENDS SyncDaemon, TLC

CONSTANTS alice, bob

\* Recovery tells "queued" from the other states that need it and those from
\* the states at rest, and no more: one or two of each stand for the rest.
LeftoverRow(t) ==
    [state : {"queued", "snapshot", "fusing"}, task : {NoTask, t}]
    \cup [state : {"clean"}, task : {NoTask}]

StartupInit ==
    /\ main = Root
    /\ head \in {alice :> h @@ bob :> Root :
                   h \in {Root, {<<"candidate", 1>>}}}
    /\ dirty \in {alice :> d @@ bob :> {} : d \in {{}, {<<"edit", 2>>}}}
    /\ snapshotRef \in {<<c, NoCommit, NoCommit>> : c \in {NoCommit, {<<"edit", 1>>}}}
    /\ baseRef = [t \in Task |-> IF snapshotRef[t] = NoCommit THEN NoCommit ELSE Root]
    /\ backups = {}
    /\ taskFiles \in SUBSET Task
    /\ reports = {}
    /\ row \in {alice :> a @@ bob :> b : a \in LeftoverRow(1), b \in LeftoverRow(2)}
    /\ lastSeen = [s \in Sessions |-> Root]
    /\ lock \in {NoLock} \cup
                {LockOf(s, t) : s \in {r \in Sessions : row[r].task # NoTask}, t \in {1, 2, 3}}
    /\ up = FALSE
    /\ req = Idle
    /\ rec = NotRecovering
    /\ joining = NotJoining
    /\ used = [tasks |-> 3, edits |-> 2, external |-> 0, crashes |-> 0,
               seconds |-> 0, joins |-> 0, backupFails |-> 0]

StartupNext == ~up /\ (Boot \/ RecoveryStep \/ Crash)

StartupSpec ==
    StartupInit /\ [][StartupNext]_vars /\ WF_vars(~up /\ (Boot \/ RecoveryStep))

\* However often the daemon is interrupted, it gets through its recovery.
DaemonComesUp == <>up
=============================================================================
