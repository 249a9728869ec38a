------------------------------ MODULE DaemonLoop ------------------------------
(***************************************************************************)
(* Who is there: the agents of `cocodex join` (agent.py), the messages they *)
(* send to the daemon, the handler thread that takes them one by one, and   *)
(* the main loop beside it (run_daemon, daemon.py), which marks sessions    *)
(* disconnected that have not been heard of, and looks at main.  `cocodex   *)
(* delete` relies on what all of them have written to the row.             *)
(*                                                                         *)
(* A message stays queued when its sender has stopped waiting for the       *)
(* answer.  An UPDATE is a step of its own: what it was decided on may have *)
(* changed.  Integrations are what SyncRequest describes; here one only     *)
(* keeps the handler busy and may publish.                                 *)
(***************************************************************************)
EXTENDS Naturals, SequencesExt

CONSTANTS
    Sessions,
    Process,      \* process identifiers of agents, 1 .. n in the order they bind
    Backlog,      \* messages that wait; a client that finds more is not heard
    MaxIncidents, \* bound: times the daemon is stopped or `cocodex delete` runs
    MaxCommits    \* bound: commits on main

ASSUME LoopAssumption ==
    /\ 0 \notin Process /\ Process \subseteq Nat
    /\ {Backlog, MaxIncidents, MaxCommits} \subseteq Nat

VARIABLES
    row,       \* sessions table: does the row exist, is it marked for deletion; pid, connected
    stale,     \* sessions whose last heartbeat is older than the timeout
    agent,     \* the processes: their session and what they do
    up,        \* the daemon serves requests
    inbox,     \* messages the handler has not taken
    handling,  \* the message it has taken and decided on
    loop,      \* where the main loop is, and what it has read
    del,       \* the deletion in progress
    main,      \* commits made on main
    observed,  \* metadata: last_observed_main
    incidents  \* how many there were

loopVars == <<row, stale, agent, up, inbox, handling, loop, del, main, observed, incidents>>

NoPid == 0
MaybePid == Process \cup {NoPid}
Row == [there : BOOLEAN, deleting : BOOLEAN, connected : BOOLEAN, pid : MaybePid]
NoRow == [there |-> FALSE, deleting |-> FALSE, connected |-> FALSE, pid |-> NoPid]

\* Only a registration says which process sends it.
Message == [type : {"register", "heartbeat", "shutdown", "sync"}, session : Sessions,
            pid : MaybePid]
Nothing == [pc |-> "off"]
Taken(pc, m) == [pc |-> pc, message |-> m]

\* The control socket is the agent's until it begins to stop; then the process
\* lives on until it has told the daemon.
Serving == {"starting", "registering", "running"}
Agent == [session : Sessions, state : Serving \cup {"none", "stopping", "gone"}]
Alive(p) == p \in Process /\ agent[p].state \in Serving \cup {"stopping"}
HasAgent(s) == \E p \in Process : agent[p].session = s /\ agent[p].state \in Serving

-----------------------------------------------------------------------------
(* Agents and the messages of clients.                                     *)

\* A client connects, if there is a daemon and room in its backlog.
Queued(q, m) == IF up /\ Len(q) < Backlog THEN Append(q, m) ELSE q
Send(m) == inbox' = Queued(inbox, m)

Heard == up /\ Len(inbox) < Backlog

Becomes(p, state) == agent' = [agent EXCEPT ![p].state = state]

\* `cocodex join`: a row if there is none, and the agent's control socket, which
\* one process of a session has at a time.
Join(p, s) ==
    /\ agent[p].state = "none"
    /\ \A q \in Process : q < p => agent[q].state # "none"
    /\ ~HasAgent(s)
    /\ ~row[s].deleting
    /\ row' = [row EXCEPT ![s].there = TRUE]
    /\ agent' = [agent EXCEPT ![p] = [session |-> s, state |-> "starting"]]
    /\ UNCHANGED <<stale, up, inbox, handling, loop, del, main, observed, incidents>>

\* Its registration, which is not sent again.
Registers(p) ==
    /\ agent[p].state = "starting"
    /\ Becomes(p, IF Heard THEN "registering" ELSE "running")
    /\ Send([type |-> "register", session |-> agent[p].session, pid |-> p])
    /\ UNCHANGED <<row, stale, up, handling, loop, del, main, observed, incidents>>

\* The answer is late, or the daemon has gone: the agent runs all the same.
StopsWaiting(p) ==
    /\ agent[p].state = "registering"
    /\ Becomes(p, "running")
    /\ UNCHANGED <<row, stale, up, inbox, handling, loop, del, main, observed, incidents>>

HeartbeatOf(p) == [type |-> "heartbeat", session |-> agent[p].session, pid |-> NoPid]

\* Every two seconds; a heartbeat sent while one is queued adds nothing.
Heartbeat(p) ==
    /\ agent[p].state = "running"
    /\ Heard
    /\ \A i \in DOMAIN inbox : inbox[i] # HeartbeatOf(p)
    /\ Send(HeartbeatOf(p))
    /\ UNCHANGED <<row, stale, agent, up, handling, loop, del, main, observed, incidents>>

\* Codex has ended: the agent stops, then says so.
AgentStops(p) ==
    /\ agent[p].state = "running"
    /\ Becomes(p, "stopping")
    /\ UNCHANGED <<row, stale, up, inbox, handling, loop, del, main, observed, incidents>>

\* The heartbeat thread may have found it not stopped yet, and send a last heartbeat
\* behind the goodbye.
SaysGoodbye(p) ==
    LET goodbye == Queued(inbox, [type |-> "shutdown", session |-> agent[p].session,
                                  pid |-> NoPid])
    IN  /\ agent[p].state = "stopping"
        /\ Becomes(p, "gone")
        /\ inbox' \in {goodbye, Queued(goodbye, HeartbeatOf(p))}
        /\ UNCHANGED <<row, stale, up, handling, loop, del, main, observed, incidents>>

AgentKilled(p) ==
    /\ Alive(p)
    /\ Becomes(p, "gone")
    /\ UNCHANGED <<row, stale, up, inbox, handling, loop, del, main, observed, incidents>>

\* `cocodex sync`
AsksForSync(s) ==
    /\ row[s].there /\ Heard
    /\ \A i \in DOMAIN inbox : inbox[i].type # "sync"
    /\ handling.pc # "sync"
    /\ Send([type |-> "sync", session |-> s, pid |-> NoPid])
    /\ UNCHANGED <<row, stale, agent, up, handling, loop, del, main, observed, incidents>>

AgentStep(p) == \/ \E s \in Sessions : Join(p, s)
                \/ Registers(p) \/ StopsWaiting(p) \/ Heartbeat(p) \/ AgentStops(p)
                \/ SaysGoodbye(p) \/ AgentKilled(p)
-----------------------------------------------------------------------------
(* The handler thread.                                                     *)

Free == up /\ handling = Nothing

\* The message is read against the row as it is now.
Refused(m) ==
    \/ m.type \in {"heartbeat", "shutdown"} /\ ~row[m.session].there
    \/ m.type \in {"register", "heartbeat"} /\ row[m.session].deleting

\* An agent that still waits for the answer to its registration.
Answer(m, state) ==
    agent' = IF m.type = "register" /\ agent[m.pid].state = "registering"
               THEN [agent EXCEPT ![m.pid].state = state]
               ELSE agent

\* Mutant: every connection has a thread of its own.
NextMessage_Any == DOMAIN inbox

\* Connections are accepted in the order they were made, by one thread.
NextMessage == {1}

Take ==
    /\ Free /\ inbox # <<>>
    /\ \E i \in NextMessage : LET m == inbox[i] IN
          /\ inbox' = RemoveAt(inbox, i)
          /\ IF Refused(m)
               THEN Answer(m, "gone") /\ UNCHANGED handling
               ELSE /\ handling' = Taken(IF m.type = "register" /\ ~row[m.session].there
                                           THEN "insert" ELSE m.type, m)
                    /\ UNCHANGED agent
    /\ UNCHANGED <<row, stale, up, loop, del, main, observed, incidents>>

Runtime(s, pid) ==
    /\ row' = [row EXCEPT ![s].pid = pid, ![s].connected = TRUE]
    /\ stale' = stale \ {s}

\* register_session, which writes over a row that has come meanwhile, and
\* update_session_runtime, which fails if the row has gone.
WriteRegister ==
    LET m == handling.message IN
    /\ handling.pc \in {"insert", "register"}
    /\ handling' = Nothing
    /\ \/ /\ handling.pc = "insert"
          /\ row' = [row EXCEPT ![m.session] = [there |-> TRUE, deleting |-> FALSE,
                                               connected |-> TRUE, pid |-> m.pid]]
          /\ stale' = stale \ {m.session}
          /\ Answer(m, "running")
       \/ /\ handling.pc = "register" /\ row[m.session].there
          /\ Runtime(m.session, m.pid)
          /\ Answer(m, "running")
       \/ /\ handling.pc = "register" /\ ~row[m.session].there
          /\ Answer(m, "gone")
          /\ UNCHANGED <<row, stale>>
    /\ UNCHANGED <<up, inbox, loop, del, main, observed, incidents>>

\* Mutant: only a session that is connected is kept so.
WriteHeartbeat_Connected ==
    LET s == handling.message.session IN
    /\ handling.pc = "heartbeat"
    /\ handling' = Nothing
    /\ IF row[s].there /\ row[s].connected THEN Runtime(s, row[s].pid)
                                          ELSE UNCHANGED <<row, stale>>
    /\ UNCHANGED <<agent, up, inbox, loop, del, main, observed, incidents>>

\* Mutant: the row is written whether it is there or not.
WriteHeartbeat_Always ==
    /\ handling.pc = "heartbeat"
    /\ handling' = Nothing
    /\ Runtime(handling.message.session, row[handling.message.session].pid)
    /\ UNCHANGED <<agent, up, inbox, loop, del, main, observed, incidents>>

\* touch_session_heartbeat: the pid is left as it is, also when there is none.
WriteHeartbeat ==
    LET s == handling.message.session IN
    /\ handling.pc = "heartbeat"
    /\ handling' = Nothing
    /\ IF row[s].there THEN Runtime(s, row[s].pid) ELSE UNCHANGED <<row, stale>>
    /\ UNCHANGED <<agent, up, inbox, loop, del, main, observed, incidents>>

MarkDisconnected(s) == row' = [row EXCEPT ![s].connected = FALSE]

\* Whoever of the session's agents has stopped.
WriteShutdown ==
    LET s == handling.message.session IN
    /\ handling.pc = "shutdown"
    /\ handling' = Nothing
    /\ IF row[s].there THEN MarkDisconnected(s) ELSE UNCHANGED row
    /\ UNCHANGED <<stale, agent, up, inbox, loop, del, main, observed, incidents>>

\* A sync that publishes moves main, and then records what it published.
SyncPublishes ==
    /\ handling.pc = "sync"
    /\ main < MaxCommits
    /\ main' = main + 1
    /\ handling' = [pc |-> "published", cand |-> main + 1]
    /\ UNCHANGED <<row, stale, agent, up, inbox, loop, del, observed, incidents>>

SyncRecords ==
    /\ handling.pc = "published"
    /\ observed' = handling.cand
    /\ handling' = Nothing
    /\ UNCHANGED <<row, stale, agent, up, inbox, loop, del, main, incidents>>

SyncEnds ==
    /\ handling.pc = "sync"
    /\ handling' = Nothing
    /\ UNCHANGED <<row, stale, agent, up, inbox, loop, del, main, observed, incidents>>

HandlerStep ==
    \/ Take \/ WriteRegister \/ WriteHeartbeat \/ WriteShutdown
    \/ SyncPublishes \/ SyncRecords \/ SyncEnds

-----------------------------------------------------------------------------
(* The main loop, and the end of the daemon.                               *)

LoopStart == [pc |-> "list", todo |-> {}, seen |-> 0, current |-> 0]

Down ==
    /\ up' = FALSE
    /\ inbox' = <<>>
    /\ handling' = Nothing
    /\ loop' = LoopStart

DaemonStarts ==
    /\ ~up
    /\ up' = TRUE
    /\ UNCHANGED <<row, stale, agent, inbox, handling, loop, del, main, observed, incidents>>

DaemonStops ==
    /\ up /\ incidents < MaxIncidents
    /\ incidents' = incidents + 1
    /\ Down
    /\ UNCHANGED <<row, stale, agent, del, main, observed>>

\* Thirty seconds pass without a heartbeat: nobody sends one, or the daemon is
\* down, or its handler works on a sync all the time.
Ages(s) ==
    /\ row[s].connected /\ s \notin stale
    /\ ~HasAgent(s) \/ ~up \/ handling.pc \in {"sync", "published"}
    /\ stale' = stale \cup {s}
    /\ UNCHANGED <<row, agent, up, inbox, handling, loop, del, main, observed, incidents>>

\* Mutant: a session without a pid is not looked at.
Overdue_WithPid == {s \in stale : row[s].connected /\ row[s].pid # NoPid}

\* detect_disconnected_sessions lists the rows once.
Overdue == {s \in stale : row[s].connected}

LoopLists ==
    /\ up /\ loop.pc = "list"
    /\ loop' = [loop EXCEPT !.pc = "mark", !.todo = Overdue]
    /\ UNCHANGED <<row, stale, agent, up, inbox, handling, del, main, observed, incidents>>

\* A session that has been heard of since is marked all the same; for one that
\* has been deleted since, mark_session_disconnected raises, and the loop and
\* the daemon with it come to an end.
LoopMarks(s) ==
    /\ loop.pc = "mark" /\ s \in loop.todo
    /\ IF row[s].there
         THEN /\ MarkDisconnected(s)
              /\ loop' = [loop EXCEPT !.todo = @ \ {s}]
              /\ UNCHANGED <<up, inbox, handling>>
         ELSE Down /\ UNCHANGED row
    /\ UNCHANGED <<stale, agent, del, main, observed, incidents>>

\* detect_external_main_update, a read, a read and a write.
LoopReadsObserved ==
    /\ loop.pc = "mark" /\ loop.todo = {}
    /\ loop' = [loop EXCEPT !.pc = "head", !.seen = observed]
    /\ UNCHANGED <<row, stale, agent, up, inbox, handling, del, main, observed, incidents>>

LoopReadsMain ==
    /\ loop.pc = "head"
    /\ loop' = IF loop.seen = main THEN LoopStart
                                   ELSE [loop EXCEPT !.pc = "record", !.current = main]
    /\ UNCHANGED <<row, stale, agent, up, inbox, handling, del, main, observed, incidents>>

\* Mutant: the event is recorded, and nothing else.
LoopRecords_EventOnly ==
    /\ loop.pc = "record"
    /\ loop' = LoopStart
    /\ UNCHANGED <<row, stale, agent, up, inbox, handling, del, main, observed, incidents>>

LoopRecords ==
    /\ loop.pc = "record"
    /\ observed' = loop.current
    /\ loop' = LoopStart
    /\ UNCHANGED <<row, stale, agent, up, inbox, handling, del, main, incidents>>

LoopStep == \/ LoopLists \/ \E s \in Sessions : LoopMarks(s)
            \/ LoopReadsObserved \/ LoopReadsMain \/ LoopRecords

\* An operator commits on main.
ExternalMain ==
    /\ main < MaxCommits
    /\ main' = main + 1
    /\ UNCHANGED <<row, stale, agent, up, inbox, handling, loop, del, observed, incidents>>

-----------------------------------------------------------------------------
(* `cocodex delete`, as far as it depends on who is there.                 *)

\* _refresh_stale_runtime and _refuse_unsafe_delete: a process that lives is
\* respected, a row that is connected without one is corrected.
DeleteLooks(s) ==
    /\ del.pc = "off" /\ incidents < MaxIncidents
    /\ incidents' = incidents + 1
    /\ row[s].there /\ ~Alive(row[s].pid)
    /\ MarkDisconnected(s)
    /\ del' = [pc |-> "claim", session |-> s]
    /\ UNCHANGED <<stale, agent, up, inbox, handling, loop, main, observed>>

\* claim_session_deletion looks at connected again, not at the pid.
DeleteClaims ==
    LET s == del.session IN
    /\ del.pc = "claim"
    /\ IF row[s].connected
         THEN del' = Nothing /\ UNCHANGED <<row, stale>>
         ELSE /\ del' = [del EXCEPT !.pc = "remove"]
              /\ row' = IF row[s].there THEN [row EXCEPT ![s].deleting = TRUE, ![s].pid = NoPid]
                                        ELSE row
              /\ stale' = stale \ {s}
    /\ UNCHANGED <<agent, up, inbox, handling, loop, main, observed, incidents>>

\* The row goes, or gets its state back after a failure, or stays as it is
\* because the process was killed or failed too late.
DeleteEnds ==
    /\ del.pc = "remove"
    /\ del' = Nothing
    /\ \/ row' = [row EXCEPT ![del.session] = NoRow]
       \/ row' = [row EXCEPT ![del.session].deleting = FALSE]
       \/ UNCHANGED row
    /\ UNCHANGED <<stale, agent, up, inbox, handling, loop, main, observed, incidents>>

DeleteStep == (\E s \in Sessions : DeleteLooks(s)) \/ DeleteClaims \/ DeleteEnds

-----------------------------------------------------------------------------

Init ==
    /\ row = [s \in Sessions |-> NoRow]
    /\ stale = {}
    /\ agent \in [Process -> [session : Sessions, state : {"none"}]]
    /\ up = FALSE
    /\ inbox = <<>>
    /\ handling = Nothing
    /\ loop = LoopStart
    /\ del = Nothing
    /\ main = 0 /\ observed = 0
    /\ incidents = 0

Next ==
    \/ \E p \in Process : AgentStep(p)
    \/ HandlerStep \/ LoopStep \/ DeleteStep
    \/ DaemonStarts \/ DaemonStops
    \/ \E s \in Sessions : AsksForSync(s) \/ Ages(s)
    \/ ExternalMain

Spec == Init /\ [][Next]_loopVars

\* The two threads of the daemon run, agents send their heartbeats, and time
\* passes.
FairSpec ==
    /\ Spec
    /\ WF_loopVars(HandlerStep) /\ WF_loopVars(LoopStep)
    /\ \A p \in Process : WF_loopVars(Heartbeat(p))
    /\ \A s \in Sessions : WF_loopVars(Ages(s))

-----------------------------------------------------------------------------
(* Properties.                                                             *)

\* What is written and what waits: only a row that exists says anything, and the
\* daemon that is down has no messages.
StateTypes ==
    /\ row \in [Sessions -> Row]
    /\ stale \subseteq Sessions
    /\ agent \in [Process -> Agent]
    /\ up \in BOOLEAN
    /\ inbox \in Seq(Message) /\ Len(inbox) <= Backlog
    /\ main \in 0 .. MaxCommits /\ observed \in 0 .. main
    /\ incidents \in 0 .. MaxIncidents
    /\ \A s \in Sessions : ~row[s].there => row[s] = NoRow
    /\ ~up => inbox = <<>> /\ handling = Nothing

\* A message that has been taken, and what a publication has left to record.
Handling == {Nothing}
            \cup [pc : {"insert", "register", "heartbeat", "shutdown", "sync"}, message : Message]
            \cup [pc : {"published"}, cand : Nat]

Looping == [pc : {"list", "mark", "head", "record"}, todo : SUBSET Sessions,
            seen : Nat, current : Nat]

Deleting == {Nothing} \cup [pc : {"claim", "remove"}, session : Sessions]

\* What the handler thread, the main loop and a deletion carry from one step to the
\* next: a registration names a process, and nobody records a main that has not been.
LoopShape ==
    /\ \A i \in DOMAIN inbox : inbox[i].type = "register" => inbox[i].pid \in Process
    /\ handling \in Handling
    /\ handling.pc \in {"insert", "register"} =>
          handling.message.type = "register" /\ handling.message.pid \in Process
    /\ handling.pc = "published" => handling.cand <= main
    /\ loop \in Looping /\ loop.current <= main
    /\ del \in Deleting

\* Every variable has its type, and the threads have what their steps need.
TypeOK == StateTypes /\ LoopShape

\* The pid in a row is never replaced by that of an agent that started before:
\* registrations may be answered late, and be handled when their agent is gone,
\* but not out of order.
PidMovesForward ==
    [][\A s \in Sessions :
          row[s].pid # NoPid /\ row'[s].pid # NoPid => row[s].pid <= row'[s].pid]_loopVars

\* An agent that goes on running is connected again and again, whatever late
\* goodbye, late sweep or long sync has marked it disconnected.
Working(s) == /\ up /\ row[s].there /\ ~row[s].deleting
              /\ \E p \in Process : agent[p].session = s /\ agent[p].state = "running"

LiveAgentsConnected ==
    \A s \in Sessions : <>[]Working(s) => []<>row[s].connected

\* A session without an agent does not stay connected.
DeadAgentsNoticed ==
    \A s \in Sessions : <>[](up /\ ~HasAgent(s)) => <>[]~row[s].connected

\* The main loop ends up with the main there is, whatever it and a publication
\* have written over each other.
ObservedSettles == <>[]up => <>[](observed = main)
=============================================================================
