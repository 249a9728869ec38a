--------------------------- MODULE DaemonLoopProofs ---------------------------
(***************************************************************************)
(* The theorems about DaemonLoop: what the handler thread and the main      *)
(* loop of the daemon keep of the rows, and in which order the pids of a    *)
(* session come into its row.                                              *)
(*                                                                         *)
(* Types alone are not inductive: what is written comes from a message, a   *)
(* list or a main that was read earlier (LoopShape).  Nor is the order of   *)
(* the pids in the rows: registrations are sent and handled late, so the    *)
(* agents that start, the registrations that wait and the one at hand are   *)
(* part of it (PidOrder).                                                  *)
(***************************************************************************)
EXTENDS DaemonLoop, SequenceTheorems, TLAPS

\* Rows that say nothing, unless they are there (a part of StateTypes).
RowsMean(r) == r \in [Sessions -> Row] /\ \A s \in Sessions : ~r[s].there => r[s] = NoRow

\* The processes that have started, those of one session, and the handler that has
\* taken a registration.
Started == {p \in Process : agent[p].state # "none"}
StartedIn(s) == {p \in Started : agent[p].session = s}
Registering == handling.pc \in {"insert", "register"}
Registration(i) == inbox[i].type = "register"

\* Agents start in the order of their pids, and the agent that has not registered yet
\* is the last one of its session.
StartInOrder == \A p, q \in Process : q < p /\ p \in Started => q \in Started

LastStarts ==
    \A p \in Process : agent[p].state = "starting" =>
        \A q \in StartedIn(agent[p].session) : q <= p

\* The pids of a session, in its row, in the registration at hand and in those
\* that wait, are of its agents that have started, in this order.
RowOrder ==
    /\ \A s \in Sessions : row[s].pid # NoPid => row[s].pid \in StartedIn(s)
    /\ Registering => /\ handling.message.pid \in StartedIn(handling.message.session)
                      /\ row[handling.message.session].pid <= handling.message.pid

QueueOrder ==
    \A i \in DOMAIN inbox :
        Registration(i) =>
            /\ inbox[i].pid \in StartedIn(inbox[i].session)
            /\ row[inbox[i].session].pid <= inbox[i].pid
            /\ Registering /\ handling.message.session = inbox[i].session
                  => handling.message.pid <= inbox[i].pid
            /\ \A j \in DOMAIN inbox :
                  Registration(j) /\ j < i /\ inbox[j].session = inbox[i].session
                      => inbox[j].pid <= inbox[i].pid

PidOrder == StartInOrder /\ LastStarts /\ RowOrder /\ QueueOrder

\* Taking the first message leaves the rest in order.
LEMMA TakeFirst ==
    ASSUME NEW S, NEW q \in Seq(S), q # <<>>
    PROVE  /\ RemoveAt(q, 1) \in Seq(S)
           /\ Len(RemoveAt(q, 1)) = Len(q) - 1
           /\ \A i \in 1 .. Len(q) - 1 : RemoveAt(q, 1)[i] = q[i + 1]
<1>1. Len(q) \in Nat \ {0}
  BY EmptySeq
<1>2. /\ SubSeq(q, 1, 0) \in Seq(S) /\ Len(SubSeq(q, 1, 0)) = 0
  BY SubSeqProperties
<1>3. \A i \in 2 .. Len(q) : q[i] \in S
  BY <1>1, ElementOfSeq
<1>4. /\ SubSeq(q, 2, Len(q)) \in Seq(S)
      /\ Len(SubSeq(q, 2, Len(q))) = Len(q) - 1
      /\ \A i \in 1 .. Len(q) - 1 : SubSeq(q, 2, Len(q))[i] = q[i + 1]
  <2>1. /\ SubSeq(q, 2, Len(q)) \in Seq(S)
        /\ Len(SubSeq(q, 2, Len(q))) = IF 2 <= Len(q) THEN Len(q) - 2 + 1 ELSE 0
        /\ \A i \in 1 .. Len(q) - 2 + 1 : SubSeq(q, 2, Len(q))[i] = q[2 + i - 1]
    BY <1>1, <1>3, SubSeqProperties
  <2> DEFINE n == Len(q)
  <2>0. n \in Nat /\ n >= 1
    BY <1>1
  <2>2. n - 2 + 1 = n - 1 /\ (~(2 <= n) => n - 1 = 0)
    <3> HIDE DEF n
    <3> QED BY <2>0
  <2>3. ASSUME NEW i \in 1 .. Len(q) - 1 PROVE SubSeq(q, 2, Len(q))[i] = q[i + 1]
    <3>1. 2 + i - 1 = i + 1
      OBVIOUS
    <3> QED
      BY <2>1, <2>2, <3>1
  <2> QED
    BY <2>1, <2>2, <2>3
<1>5. RemoveAt(q, 1) = SubSeq(q, 1, 0) \o SubSeq(q, 2, Len(q))
  BY DEF RemoveAt
<1> DEFINE none == SubSeq(q, 1, 0)
           rest == SubSeq(q, 2, Len(q))
<1>6. /\ none \o rest \in Seq(S)
      /\ Len(none \o rest) = Len(none) + Len(rest)
      /\ \A i \in 1 .. Len(none) + Len(rest) :
            (none \o rest)[i] = IF i <= Len(none) THEN none[i] ELSE rest[i - Len(none)]
  <2> HIDE DEF none, rest
  <2> QED BY <1>2, <1>4, ConcatProperties DEF none, rest
<1> HIDE DEF none, rest
<1>7. /\ Len(none) = 0 /\ Len(rest) = Len(q) - 1
      /\ \A i \in 1 .. Len(q) - 1 : rest[i] = q[i + 1]
      /\ RemoveAt(q, 1) = none \o rest
  BY <1>2, <1>4, <1>5 DEF none, rest
<1> QED
  BY <1>1, <1>6, <1>7


\* What a client sends is queued behind the rest, or not at all.
LEMMA QueuedLast ==
    ASSUME NEW q \in Seq(Message), NEW m \in Message
    PROVE  \/ Queued(q, m) = q
           \/ /\ up /\ Len(q) < Backlog
              /\ Queued(q, m) \in Seq(Message) /\ Len(Queued(q, m)) = Len(q) + 1
              /\ DOMAIN Queued(q, m) = 1 .. Len(q) + 1
              /\ \A i \in DOMAIN q : i \in DOMAIN Queued(q, m) /\ Queued(q, m)[i] = q[i]
              /\ Queued(q, m)[Len(q) + 1] = m
              /\ \A i \in DOMAIN Queued(q, m) : i \in DOMAIN q \/ i = Len(q) + 1
<1>1. CASE ~(up /\ Len(q) < Backlog)
  BY <1>1 DEF Queued
<1>2. CASE up /\ Len(q) < Backlog
  <2>1. Queued(q, m) = Append(q, m)
    BY <1>2 DEF Queued
  <2>2. /\ Queued(q, m) \in Seq(Message) /\ Len(Queued(q, m)) = Len(q) + 1
        /\ \A i \in 1 .. Len(q) : Queued(q, m)[i] = q[i]
        /\ Queued(q, m)[Len(q) + 1] = m
    BY <2>1, AppendProperties
  <2>3. /\ Len(q) \in Nat /\ DOMAIN q = 1 .. Len(q)
        /\ DOMAIN Queued(q, m) = 1 .. Len(Queued(q, m))
    BY <2>2, LenProperties
  <2> QED
    BY <1>2, <2>2, <2>3
<1> QED
  BY <1>1, <1>2

\* Messages that may wait: registrations name a process.
Waiting(q) == /\ q \in Seq(Message) /\ Len(q) <= Backlog
              /\ \A i \in DOMAIN q : q[i].type = "register" => q[i].pid \in Process
              /\ ~up => q = <<>>

LEMMA QueuedWaits ==
    ASSUME NEW q, Waiting(q), NEW m \in Message, m.type = "register" => m.pid \in Process
    PROVE  Waiting(Queued(q, m))
<1>1. CASE Queued(q, m) = q
  BY <1>1
<1>2. CASE /\ up /\ Len(q) < Backlog
           /\ Queued(q, m) \in Seq(Message) /\ Len(Queued(q, m)) = Len(q) + 1
           /\ \A i \in DOMAIN q : i \in DOMAIN Queued(q, m) /\ Queued(q, m)[i] = q[i]
           /\ Queued(q, m)[Len(q) + 1] = m
           /\ \A i \in DOMAIN Queued(q, m) : i \in DOMAIN q \/ i = Len(q) + 1
  <2>1. Len(q) \in Nat
    BY LenProperties DEF Waiting
  <2>2. Len(Queued(q, m)) <= Backlog
    BY <1>2, <2>1, LoopAssumption
  <2>3. ASSUME NEW i \in DOMAIN Queued(q, m), Queued(q, m)[i].type = "register"
        PROVE  Queued(q, m)[i].pid \in Process
    BY <1>2, <2>3 DEF Waiting
  <2> QED
    BY <1>2, <2>2, <2>3 DEF Waiting
<1> QED
  BY <1>1, <1>2, QueuedLast DEF Waiting

\* An agent that does something else is still an agent.
LEMMA BecomesAgent ==
    ASSUME TypeOK, NEW p \in Process, Becomes(p, "gone") \/ Becomes(p, "running")
                                        \/ Becomes(p, "registering") \/ Becomes(p, "stopping")
    PROVE  agent' \in [Process -> Agent]
BY DEF Becomes, TypeOK, StateTypes, Agent, Serving

\* What agents and clients do keeps the types.
LEMMA ClientTypes ==
    ASSUME TypeOK
    PROVE  /\ \A p \in Process : AgentStep(p) => TypeOK'
           /\ \A s \in Sessions : AsksForSync(s) => TypeOK'
<1> USE DEF TypeOK
<1>1. Waiting(inbox) /\ \A p \in Process : agent[p].session \in Sessions
  BY DEF Waiting, StateTypes, LoopShape, Agent
<1>2. ASSUME Waiting(inbox'), agent' \in [Process -> Agent],
             UNCHANGED <<row, stale, up, handling, loop, del, main, observed, incidents>>
      PROVE  TypeOK'
  BY <1>2 DEF Waiting, StateTypes, LoopShape
<1>3. ASSUME NEW p \in Process, NEW s \in Sessions, Join(p, s) PROVE TypeOK'
  <2>1. row' \in [Sessions -> Row] /\ \A t \in Sessions : ~row'[t].there => row'[t] = NoRow
    BY <1>3 DEF Join, StateTypes, Row
  <2>2. agent' \in [Process -> Agent]
    BY <1>3 DEF Join, StateTypes, Agent, Serving
  <2> QED
    BY <1>3, <2>1, <2>2 DEF Join, StateTypes, LoopShape
<1>4. ASSUME NEW p \in Process, Registers(p) PROVE TypeOK'
  <2> DEFINE m == [type |-> "register", session |-> agent[p].session, pid |-> p]
  <2>1. m \in Message /\ m.pid \in Process
    BY <1>1 DEF Message, MaybePid
  <2>2. Waiting(inbox') /\ agent' \in [Process -> Agent]
    <3>1. agent' \in [Process -> Agent]
      BY <1>4, BecomesAgent DEF Registers
    <3>2. inbox' = Queued(inbox, m) /\ up' = up
      BY <1>4 DEF Registers, Send
    <3>3. Waiting(Queued(inbox, m))
      BY <1>1, <2>1, QueuedWaits
    <3> HIDE DEF m
    <3> QED
      BY <3>1, <3>2, <3>3
  <2> QED
    BY <1>2, <1>4, <2>2 DEF Registers
<1>5. ASSUME NEW p \in Process, StopsWaiting(p) PROVE TypeOK'
  <2>1. agent' \in [Process -> Agent]
    BY <1>5, BecomesAgent DEF StopsWaiting
  <2> QED
    BY <1>5, <2>1 DEF StopsWaiting, StateTypes, LoopShape
<1>6. ASSUME NEW p \in Process PROVE HeartbeatOf(p) \in Message /\ HeartbeatOf(p).type # "register"
  BY <1>1 DEF HeartbeatOf, Message, MaybePid
<1>7. ASSUME NEW p \in Process, Heartbeat(p) PROVE TypeOK'
  <2>1. Waiting(inbox')
    BY <1>1, <1>6, <1>7, QueuedWaits DEF Heartbeat, Send
  <2> QED
    BY <1>2, <1>7, <2>1 DEF Heartbeat, StateTypes
<1>8. ASSUME NEW p \in Process, AgentStops(p) PROVE TypeOK'
  <2>1. agent' \in [Process -> Agent]
    BY <1>8, BecomesAgent DEF AgentStops
  <2> QED
    BY <1>8, <2>1 DEF AgentStops, StateTypes, LoopShape
<1>9. ASSUME NEW p \in Process, SaysGoodbye(p) PROVE TypeOK'
  <2> DEFINE m == [type |-> "shutdown", session |-> agent[p].session, pid |-> NoPid]
  <2>1. m \in Message /\ m.type # "register"
    BY <1>1 DEF Message, MaybePid
  <2>2. Waiting(Queued(inbox, m)) /\ Waiting(Queued(Queued(inbox, m), HeartbeatOf(p)))
    BY <1>1, <1>6, <2>1, QueuedWaits
  <2>3. agent' \in [Process -> Agent]
    BY <1>9, BecomesAgent DEF SaysGoodbye
  <2> QED
    BY <1>2, <1>9, <2>2, <2>3 DEF SaysGoodbye
<1>10. ASSUME NEW p \in Process, AgentKilled(p) PROVE TypeOK'
  <2>1. agent' \in [Process -> Agent]
    BY <1>10, BecomesAgent DEF AgentKilled
  <2> QED
    BY <1>10, <2>1 DEF AgentKilled, StateTypes, LoopShape
<1>11. ASSUME NEW s \in Sessions, AsksForSync(s) PROVE TypeOK'
  <2> DEFINE m == [type |-> "sync", session |-> s, pid |-> NoPid]
  <2>1. m \in Message /\ m.type # "register"
    BY DEF Message, MaybePid
  <2>2. Waiting(inbox')
    BY <1>1, <1>11, <2>1, QueuedWaits DEF AsksForSync, Send
  <2> QED
    BY <1>2, <1>11, <2>2 DEF AsksForSync, StateTypes
<1> QED
  BY <1>3, <1>4, <1>5, <1>7, <1>8, <1>9, <1>10, <1>11 DEF AgentStep

\* The message the handler takes is the first one.
LEMMA TakeTypes ==
    ASSUME TypeOK, Take
    PROVE  TypeOK'
<1> USE DEF TypeOK
<1> DEFINE m == inbox[1]
<1>1. /\ Len(inbox) \in Nat \ {0} /\ DOMAIN inbox = 1 .. Len(inbox)
      /\ m \in Message /\ (m.type = "register" => m.pid \in Process)
  <2>1. Len(inbox) \in Nat \ {0} /\ DOMAIN inbox = 1 .. Len(inbox)
    BY EmptySeq, LenProperties DEF Take, StateTypes
  <2>2. 1 \in 1 .. Len(inbox)
    BY <2>1
  <2> QED
    BY <2>1, <2>2, ElementOfSeq DEF LoopShape, StateTypes
<1>2. /\ inbox' = RemoveAt(inbox, 1)
      /\ IF Refused(m)
           THEN Answer(m, "gone") /\ UNCHANGED handling
           ELSE /\ handling' = Taken(IF m.type = "register" /\ ~row[m.session].there
                                       THEN "insert" ELSE m.type, m)
                /\ UNCHANGED agent
  BY DEF Take, NextMessage
<1>3. /\ inbox' \in Seq(Message) /\ Len(inbox') <= Backlog
      /\ \A i \in DOMAIN inbox' : inbox'[i].type = "register" => inbox'[i].pid \in Process
  <2>1. /\ inbox' \in Seq(Message) /\ Len(inbox') = Len(inbox) - 1
        /\ \A i \in 1 .. Len(inbox) - 1 : inbox'[i] = inbox[i + 1]
    BY <1>2, TakeFirst DEF Take, StateTypes
  <2>2. DOMAIN inbox' = 1 .. Len(inbox) - 1
    BY <2>1, LenProperties
  <2>3. \A i \in 1 .. Len(inbox) - 1 : i + 1 \in DOMAIN inbox
    BY <1>1
  <2>4. Len(inbox') <= Backlog
    BY <1>1, <2>1, LoopAssumption DEF StateTypes
  <2> QED
    BY <2>1, <2>2, <2>3, <2>4 DEF LoopShape
<1>4. agent' \in [Process -> Agent]
  BY <1>2 DEF Answer, StateTypes, Agent
<1>5. /\ handling' \in Handling
      /\ handling'.pc \in {"insert", "register"} =>
            handling'.message.type = "register" /\ handling'.message.pid \in Process
      /\ handling'.pc # "published"
  <2>1. CASE Refused(m)
    BY <1>2, <2>1 DEF Take, Free, Nothing, Handling
  <2>2. CASE ~Refused(m)
    <3>1. handling' = [pc |-> IF m.type = "register" /\ ~row[m.session].there
                                THEN "insert" ELSE m.type, message |-> m]
      BY <1>2, <2>2 DEF Taken
    <3> QED
      BY <1>1, <3>1 DEF Message, Handling
  <2> QED
    BY <2>1, <2>2
<1> QED
  BY <1>3, <1>4, <1>5 DEF Take, Free, StateTypes, LoopShape


\* A row that is there, or NoRow, may be written.
LEMMA WriteRow ==
    ASSUME RowsMean(row), NEW s \in Sessions, NEW r \in Row, r.there \/ r = NoRow
    PROVE  RowsMean([row EXCEPT ![s] = r])
BY DEF RowsMean

\* The writes of the daemon to a row that is there.
LEMMA RuntimeRow ==
    ASSUME RowsMean(row), NEW s \in Sessions, row[s].there, NEW p \in MaybePid, Runtime(s, p)
    PROVE  RowsMean(row')
<1> DEFINE r == [row[s] EXCEPT !.pid = p, !.connected = TRUE]
<1>1. r \in Row /\ r.there
  BY DEF RowsMean, Row
<1>2. row' = [row EXCEPT ![s] = r]
  BY DEF Runtime, RowsMean
<1> QED
  BY <1>1, <1>2, WriteRow

\* A row that is marked disconnected keeps its pid and its meaning.
LEMMA DisconnectedRow ==
    ASSUME RowsMean(row), NEW s \in Sessions, row[s].there, MarkDisconnected(s)
    PROVE  RowsMean(row')
<1> DEFINE r == [row[s] EXCEPT !.connected = FALSE]
<1>1. r \in Row /\ r.there
  BY DEF RowsMean, Row
<1>2. row' = [row EXCEPT ![s] = r]
  BY DEF MarkDisconnected, RowsMean
<1> QED
  BY <1>1, <1>2, WriteRow

\* An agent that is answered is in another state.
LEMMA AnsweredAgent ==
    ASSUME NEW S, NEW A \in [Process -> [session : Sessions, state : S]],
           NEW p \in Process, NEW state \in S
    PROVE  [A EXCEPT ![p].state = state] \in [Process -> [session : Sessions, state : S]]
OBVIOUS

\* What the handler writes for a message keeps the types.
LEMMA HandlerTypes ==
    ASSUME TypeOK, HandlerStep
    PROVE  TypeOK'
<1> USE DEF TypeOK
<1>1. CASE WriteRegister
  <2> DEFINE m == handling.message
  <2>1. m \in Message /\ m.type = "register" /\ m.pid \in Process /\ m.session \in Sessions
    BY <1>1 DEF WriteRegister, LoopShape, Handling, Nothing, Message
  <2>0. RowsMean(row) /\ m.pid \in MaybePid
    BY <2>1 DEF RowsMean, StateTypes, MaybePid
  <2>2. RowsMean(row') /\ stale' \subseteq Sessions
    <3> DEFINE r == [there |-> TRUE, deleting |-> FALSE, connected |-> TRUE, pid |-> m.pid]
    <3>1. r \in Row /\ r.there
      BY <2>0 DEF Row
    <3>2. CASE row' = [row EXCEPT ![m.session] = r] /\ stale' = stale \ {m.session}
      BY <2>0, <2>1, <3>1, <3>2, WriteRow DEF StateTypes
    <3>3. CASE row[m.session].there /\ Runtime(m.session, m.pid)
      BY <2>0, <2>1, <3>3, RuntimeRow DEF Runtime, StateTypes
    <3> QED
      BY <1>1, <2>0, <3>2, <3>3 DEF WriteRegister, StateTypes
  <2>3. agent' \in [Process -> Agent]
    <3>1. \/ agent' = agent
          \/ agent' = [agent EXCEPT ![m.pid].state = "running"]
          \/ agent' = [agent EXCEPT ![m.pid].state = "gone"]
      BY <1>1 DEF WriteRegister, Answer
    <3> DEFINE S == Serving \cup {"none", "stopping", "gone"}
    <3>2. agent \in [Process -> [session : Sessions, state : S]] /\ {"running", "gone"} \subseteq S
      BY DEF StateTypes, Agent, Serving
    <3> HIDE DEF m, S
    <3>3. agent' \in [Process -> [session : Sessions, state : S]]
      BY <2>1, <3>1, <3>2, AnsweredAgent
    <3> QED
      BY <3>3 DEF S, Agent
  <2> QED
    BY <1>1, <2>2, <2>3 DEF WriteRegister, RowsMean, StateTypes, LoopShape, Handling, Nothing
<1>2. CASE WriteHeartbeat
  <2> DEFINE s == handling.message.session
  <2>1. s \in Sessions
    BY <1>2 DEF WriteHeartbeat, LoopShape, Handling, Nothing, Message
  <2>0. RowsMean(row) /\ row[s].pid \in MaybePid
    BY <2>1 DEF RowsMean, StateTypes, Row
  <2>2. RowsMean(row') /\ stale' \subseteq Sessions
    <3>1. CASE row[s].there
      BY <1>2, <2>0, <2>1, <3>1, RuntimeRow DEF WriteHeartbeat, Runtime, StateTypes
    <3> QED
      BY <1>2, <2>0, <3>1 DEF WriteHeartbeat, StateTypes
  <2> QED
    BY <1>2, <2>2 DEF WriteHeartbeat, RowsMean, StateTypes, LoopShape, Handling, Nothing
<1>3. CASE WriteShutdown
  <2> DEFINE s == handling.message.session
  <2>1. s \in Sessions
    BY <1>3 DEF WriteShutdown, LoopShape, Handling, Nothing, Message
  <2>0. RowsMean(row)
    BY DEF RowsMean, StateTypes
  <2>2. RowsMean(row')
    <3>1. CASE row[s].there
      BY <1>3, <2>0, <2>1, <3>1, DisconnectedRow DEF WriteShutdown
    <3> QED
      BY <1>3, <2>0, <3>1 DEF WriteShutdown
  <2> QED
    BY <1>3, <2>2 DEF WriteShutdown, RowsMean, StateTypes, LoopShape, Handling, Nothing
<1>4. CASE SyncPublishes
  <2>1. main \in Nat /\ main' = main + 1 /\ main' \in 0 .. MaxCommits /\ observed \in 0 .. main'
    BY <1>4, LoopAssumption DEF SyncPublishes, StateTypes
  <2>2. /\ handling' \in Handling /\ handling'.pc = "published" /\ handling'.cand = main'
        /\ up
    BY <1>4, <2>1 DEF SyncPublishes, Handling, StateTypes, Nothing
  <2>3. loop.current <= main'
    BY <2>1 DEF LoopShape, Looping
  <2> QED
    BY <1>4, <2>1, <2>2, <2>3 DEF SyncPublishes, StateTypes, LoopShape
<1>5. CASE SyncRecords
  <2>1. handling.cand \in Nat /\ handling.cand <= main /\ main \in Nat
    BY <1>5, LoopAssumption DEF SyncRecords, LoopShape, Handling, Nothing, StateTypes
  <2> QED
    BY <1>5, <2>1 DEF SyncRecords, StateTypes, LoopShape, Handling, Nothing
<1>6. CASE SyncEnds
  BY <1>6 DEF SyncEnds, StateTypes, LoopShape, Handling, Nothing
<1> QED
  BY <1>1, <1>2, <1>3, <1>4, <1>5, <1>6, TakeTypes DEF HandlerStep

\* A daemon that goes down leaves nothing behind of its own.
LEMMA DownTypes ==
    ASSUME TypeOK, Down, incidents' \in 0 .. MaxIncidents,
           UNCHANGED <<row, stale, agent, del, main, observed>>
    PROVE  TypeOK'
<1>1. /\ inbox' \in Seq(Message) /\ Len(inbox') <= Backlog /\ DOMAIN inbox' = {}
  BY EmptySeq, LoopAssumption DEF Down
<1>2. loop' \in Looping /\ loop'.current = 0
  BY DEF Down, LoopStart, Looping
<1>3. main \in Nat
  BY LoopAssumption DEF TypeOK, StateTypes
<1>4. handling' \in Handling /\ handling'.pc = "off"
  BY DEF Down, Handling, Nothing
<1>5. StateTypes'
  BY <1>1, <1>4 DEF Down, TypeOK, StateTypes
<1>6. LoopShape'
  BY <1>1, <1>2, <1>3, <1>4 DEF TypeOK, LoopShape
<1> QED
  BY <1>5, <1>6 DEF TypeOK

\* What the main loop does keeps the types.
LEMMA LoopTypes ==
    ASSUME TypeOK, LoopStep
    PROVE  TypeOK'
<1> USE DEF TypeOK
<1>1. CASE LoopLists
  BY <1>1 DEF LoopLists, Overdue, StateTypes, LoopShape, Looping
<1>2. ASSUME NEW s \in Sessions, LoopMarks(s) PROVE TypeOK'
  <2>1. CASE row[s].there
    <3>1. RowsMean(row')
      BY <1>2, <2>1, DisconnectedRow DEF LoopMarks, RowsMean, StateTypes
    <3>2. loop' \in Looping /\ loop'.current = loop.current
      BY <1>2, <2>1 DEF LoopMarks, LoopShape, Looping
    <3> QED
      BY <1>2, <2>1, <3>1, <3>2 DEF LoopMarks, RowsMean, StateTypes, LoopShape
  <2>2. CASE ~row[s].there
    BY <1>2, <2>2, DownTypes DEF LoopMarks, StateTypes
  <2> QED
    BY <2>1, <2>2
<1>3. CASE LoopReadsObserved
  <2>1. observed \in Nat
    BY LoopAssumption DEF StateTypes
  <2> QED
    BY <1>3, <2>1 DEF LoopReadsObserved, StateTypes, LoopShape, Looping
<1>4. CASE LoopReadsMain
  <2>1. main \in Nat
    BY LoopAssumption DEF StateTypes
  <2>2. loop' \in Looping /\ loop'.current <= main
    <3>1. CASE loop.seen = main
      BY <1>4, <2>1, <3>1 DEF LoopReadsMain, LoopStart, Looping
    <3>2. CASE loop.seen # main
      <4>1. loop' = [loop EXCEPT !.pc = "record", !.current = main]
        BY <1>4, <3>2 DEF LoopReadsMain
      <4>2. loop \in Looping
        BY DEF LoopShape
      <4>3. loop' \in Looping /\ loop'.current = main
        BY <2>1, <4>1, <4>2 DEF Looping
      <4> QED
        BY <2>1, <4>3
    <3> QED
      BY <3>1, <3>2
  <2> QED
    BY <1>4, <2>2 DEF LoopReadsMain, StateTypes, LoopShape
<1>5. CASE LoopRecords
  <2>1. main \in Nat /\ loop.current \in 0 .. main
    BY LoopAssumption DEF StateTypes, LoopShape, Looping
  <2>2. loop' \in Looping /\ loop'.current <= main
    BY <1>5, <2>1 DEF LoopRecords, LoopStart, Looping
  <2> QED
    BY <1>5, <2>1, <2>2 DEF LoopRecords, StateTypes, LoopShape
<1> QED
  BY <1>1, <1>2, <1>3, <1>4, <1>5 DEF LoopStep

\* What a deletion does keeps the types.
LEMMA DeleteTypes ==
    ASSUME TypeOK, DeleteStep
    PROVE  TypeOK'
<1> USE DEF TypeOK
<1>1. ASSUME NEW s \in Sessions, DeleteLooks(s) PROVE TypeOK'
  <2>1. /\ row' \in [Sessions -> Row]
        /\ \A t \in Sessions : ~row'[t].there => row'[t] = NoRow
    BY <1>1, DisconnectedRow DEF DeleteLooks, StateTypes, RowsMean
  <2>2. del' \in Deleting
    BY <1>1 DEF DeleteLooks, Deleting
  <2>3. incidents' \in 0 .. MaxIncidents
    BY <1>1, LoopAssumption DEF DeleteLooks, StateTypes
  <2> QED
    BY <1>1, <2>1, <2>2, <2>3 DEF DeleteLooks, StateTypes, LoopShape
<1>2. CASE DeleteClaims
  <2>1. del.session \in Sessions
    BY <1>2 DEF DeleteClaims, LoopShape, Deleting, Nothing
  <2>2. RowsMean(row') /\ stale' \subseteq Sessions
    <3> DEFINE s == del.session
               r == [row[s] EXCEPT !.deleting = TRUE, !.pid = NoPid]
    <3>1. RowsMean(row)
      BY DEF RowsMean, StateTypes
    <3>2. row[s].there => r \in Row /\ r.there
      BY <2>1, <3>1 DEF RowsMean, Row, MaybePid
    <3>3. \/ row' = row
          \/ row[s].there /\ row' = [row EXCEPT ![s] = r]
      BY <1>2 DEF DeleteClaims
    <3>4. stale' \subseteq Sessions
      BY <1>2 DEF DeleteClaims, StateTypes
    <3> QED
      BY <2>1, <3>1, <3>2, <3>3, <3>4, WriteRow
  <2>3. del' \in Deleting
    BY <1>2, <2>1 DEF DeleteClaims, Deleting, LoopShape, Nothing
  <2> QED
    BY <1>2, <2>2, <2>3 DEF DeleteClaims, RowsMean, StateTypes, LoopShape
<1>3. CASE DeleteEnds
  <2>1. del.session \in Sessions
    BY <1>3 DEF DeleteEnds, LoopShape, Deleting, Nothing
  <2>2. NoRow \in Row
    BY DEF NoRow, Row, MaybePid
  <2>3. /\ row' \in [Sessions -> Row]
        /\ \A t \in Sessions : ~row'[t].there => row'[t] = NoRow
    <3>1. CASE row' = [row EXCEPT ![del.session] = NoRow]
      BY <2>1, <2>2, <3>1 DEF StateTypes
    <3>2. CASE row' = [row EXCEPT ![del.session].deleting = FALSE]
      <4> DEFINE r == [row[del.session] EXCEPT !.deleting = FALSE]
      <4>0. row[del.session] \in Row
        BY <2>1 DEF StateTypes
      <4>1. r \in Row /\ (r.there \/ r = NoRow)
        <5>1. CASE row[del.session].there
          BY <4>0, <5>1 DEF Row
        <5>2. CASE ~row[del.session].there
          <6>1. row[del.session] = NoRow
            BY <2>1, <5>2 DEF StateTypes
          <6>2. row[del.session].deleting = FALSE
            BY <6>1 DEF NoRow
          <6>3. r = row[del.session]
            BY <4>0, <6>2 DEF Row
          <6> QED
            BY <4>0, <6>1, <6>3
        <5> QED
          BY <5>1, <5>2
      <4>2. row' = [row EXCEPT ![del.session] = r]
        BY <2>1, <3>2 DEF StateTypes
      <4> QED
        BY <2>1, <4>1, <4>2, WriteRow DEF RowsMean, StateTypes
    <3> QED
      BY <1>3, <3>1, <3>2 DEF DeleteEnds, StateTypes
  <2> QED
    BY <1>3, <2>3 DEF DeleteEnds, StateTypes, LoopShape, Deleting
<1> QED
  BY <1>1, <1>2, <1>3 DEF DeleteStep

\* The types hold at first,
LEMMA InitTypes == Init => TypeOK
<1> SUFFICES ASSUME Init PROVE TypeOK
  OBVIOUS
<1>1. row \in [Sessions -> Row] /\ \A s \in Sessions : row[s] = NoRow
  BY DEF Init, Row, NoRow, MaybePid
<1>2. inbox \in Seq(Message) /\ Len(inbox) <= Backlog /\ DOMAIN inbox = {}
  BY EmptySeq, LoopAssumption DEF Init
<1>3. main \in 0 .. MaxCommits /\ observed \in 0 .. main
  BY LoopAssumption DEF Init
<1>4. loop \in Looping /\ loop.current = 0 /\ main = 0
  BY DEF Init, LoopStart, Looping
<1>5. handling \in Handling /\ handling.pc = "off" /\ del \in Deleting
  BY DEF Init, Handling, Deleting, Nothing
<1>6. agent \in [Process -> Agent] /\ incidents \in 0 .. MaxIncidents
  BY LoopAssumption DEF Init, Agent
<1>7. StateTypes
  BY <1>1, <1>2, <1>3, <1>6 DEF Init, StateTypes
<1>8. LoopShape
  BY <1>2, <1>4, <1>5 DEF LoopShape
<1> QED
  BY <1>7, <1>8 DEF TypeOK

\* ... and every step keeps them.
LEMMA NextTypes ==
    ASSUME TypeOK, [Next]_loopVars
    PROVE  TypeOK'
<1>1. CASE DaemonStarts
  BY <1>1 DEF DaemonStarts, TypeOK, StateTypes, LoopShape
<1>2. CASE DaemonStops
  <2>1. incidents' \in 0 .. MaxIncidents
    BY <1>2, LoopAssumption DEF DaemonStops, TypeOK, StateTypes
  <2> QED
    BY <1>2, <2>1, DownTypes DEF DaemonStops
<1>3. ASSUME NEW s \in Sessions, Ages(s) PROVE TypeOK'
  BY <1>3 DEF Ages, TypeOK, StateTypes, LoopShape
<1>4. CASE ExternalMain
  <2>1. main \in Nat /\ main' = main + 1 /\ main' \in 0 .. MaxCommits /\ observed \in 0 .. main'
    BY <1>4, LoopAssumption DEF ExternalMain, TypeOK, StateTypes
  <2>2. loop.current <= main' /\ (handling.pc = "published" => handling.cand <= main')
    BY <2>1 DEF TypeOK, LoopShape, Looping, Handling, Nothing
  <2> QED
    BY <1>4, <2>1, <2>2 DEF ExternalMain, TypeOK, StateTypes, LoopShape
<1>5. CASE UNCHANGED loopVars
  BY <1>5 DEF loopVars, TypeOK, StateTypes, LoopShape
<1> QED
  BY <1>1, <1>2, <1>3, <1>4, <1>5, ClientTypes, HandlerTypes, LoopTypes, DeleteTypes DEF Next


-----------------------------------------------------------------------------
(* The order of the pids.                                                  *)

\* What a step may do to the pids that rows have: PidMovesForward.
Forward ==
    \A s \in Sessions :
        row[s].pid # NoPid /\ row'[s].pid # NoPid => row[s].pid <= row'[s].pid

\* Pids are numbers.
LEMMA PidTypes ==
    ASSUME TypeOK
    PROVE  /\ \A s \in Sessions : row[s].pid \in Nat
           /\ \A s \in Sessions : row[s].pid # NoPid => row[s].pid \in Process
           /\ \A i \in DOMAIN inbox : inbox[i] \in Message
           /\ \A i \in DOMAIN inbox : Registration(i) =>
                 inbox[i].session \in Sessions /\ inbox[i].pid \in Process /\ inbox[i].pid \in Nat
           /\ Registering => /\ handling.message.session \in Sessions
                             /\ handling.message.pid \in Process /\ handling.message.pid \in Nat
           /\ DOMAIN inbox = 1 .. Len(inbox) /\ Len(inbox) \in Nat
<1>1. MaybePid \subseteq Nat
  BY LoopAssumption DEF MaybePid, NoPid
<1>2. \A s \in Sessions : row[s].pid \in MaybePid
  BY DEF TypeOK, StateTypes, Row
<1>3. DOMAIN inbox = 1 .. Len(inbox) /\ Len(inbox) \in Nat
  BY LenProperties DEF TypeOK, StateTypes
<1>4. \A i \in DOMAIN inbox : inbox[i] \in Message
  BY <1>3, ElementOfSeq DEF TypeOK, StateTypes
<1>5. Registering => handling.message \in Message
  BY DEF Registering, TypeOK, LoopShape, Handling, Nothing
<1>6. Registering => handling.message.session \in Sessions /\ handling.message.pid \in Process
  BY <1>5 DEF Registering, TypeOK, LoopShape, Message
<1>7. ASSUME NEW i \in DOMAIN inbox, Registration(i)
      PROVE  inbox[i].session \in Sessions /\ inbox[i].pid \in Process
  BY <1>4, <1>7 DEF Registration, TypeOK, LoopShape, Message
<1> QED
  BY <1>1, <1>2, <1>3, <1>4, <1>6, <1>7, LoopAssumption DEF MaybePid

\* A step that starts nobody, and after which nobody starts who did not before.
AgentsKept ==
    /\ Started' = Started /\ \A s \in Sessions : StartedIn(s)' = StartedIn(s)
    /\ \A p \in Process : agent'[p].state = "starting" =>
          agent[p].state = "starting" /\ agent'[p].session = agent[p].session

LEMMA SameAgents == UNCHANGED agent => AgentsKept
BY DEF AgentsKept, Started, StartedIn

\* Such a step, which neither sends, takes nor writes a registration.
LEMMA OrderKept ==
    ASSUME TypeOK, PidOrder, AgentsKept,
           \A s \in Sessions : row'[s].pid \in {row[s].pid, NoPid},
           \A i \in DOMAIN inbox' : inbox'[i].type = "register" =>
                 i \in DOMAIN inbox /\ inbox'[i] = inbox[i],
           Registering' => Registering /\ handling' = handling
    PROVE  PidOrder' /\ Forward
<1>1. \A s \in Sessions : \A n \in Nat : row[s].pid <= n => row'[s].pid <= n
  BY PidTypes DEF NoPid
<1>2. Forward
  BY PidTypes DEF Forward
<1>3. StartInOrder' /\ LastStarts'
  <2>1. StartInOrder'
    BY DEF AgentsKept, PidOrder, StartInOrder
  <2>2. ASSUME NEW p \in Process, agent'[p].state = "starting",
               NEW q \in StartedIn(agent[p].session)'
        PROVE  q <= p
    BY <2>2 DEF AgentsKept, PidOrder, LastStarts, TypeOK, StateTypes, Agent
  <2> QED
    BY <2>1, <2>2 DEF LastStarts, AgentsKept
<1>4. RowOrder'
  <2>1. ASSUME NEW s \in Sessions, row'[s].pid # NoPid PROVE row'[s].pid \in StartedIn(s)'
    BY <2>1 DEF AgentsKept, PidOrder, RowOrder
  <2>2. ASSUME Registering'
        PROVE  /\ handling'.message.pid \in StartedIn(handling.message.session)'
               /\ row'[handling'.message.session].pid <= handling'.message.pid
    BY <1>1, <2>2, PidTypes DEF AgentsKept, PidOrder, RowOrder
  <2> QED
    BY <2>1, <2>2 DEF RowOrder
<1>5. QueueOrder'
  <2> SUFFICES ASSUME NEW i \in DOMAIN inbox', Registration(i)'
               PROVE  /\ inbox'[i].pid \in StartedIn(inbox[i].session)'
                      /\ row'[inbox'[i].session].pid <= inbox'[i].pid
                      /\ Registering' /\ handling'.message.session = inbox'[i].session
                            => handling'.message.pid <= inbox'[i].pid
                      /\ \A j \in DOMAIN inbox' :
                            Registration(j)' /\ j < i /\ inbox'[j].session = inbox'[i].session
                                => inbox'[j].pid <= inbox'[i].pid
    BY DEF QueueOrder
  <2>1. Registration(i) /\ i \in DOMAIN inbox /\ inbox'[i] = inbox[i]
    BY DEF Registration
  <2>2. inbox[i].session \in Sessions /\ inbox[i].pid \in Nat
    BY <2>1, PidTypes
  <2>3. inbox'[i].pid \in StartedIn(inbox[i].session)'
    BY <2>1, <2>2 DEF AgentsKept, PidOrder, QueueOrder
  <2>4. row'[inbox[i].session].pid <= inbox[i].pid
    BY <1>1, <2>1, <2>2 DEF PidOrder, QueueOrder
  <2>5. Registering' /\ handling'.message.session = inbox[i].session
           => handling'.message.pid <= inbox[i].pid
    BY <2>1 DEF PidOrder, QueueOrder
  <2>6. ASSUME NEW j \in DOMAIN inbox', Registration(j)', j < i,
               inbox'[j].session = inbox'[i].session
        PROVE  inbox'[j].pid <= inbox'[i].pid
    <3>1. Registration(j) /\ j \in DOMAIN inbox /\ inbox'[j] = inbox[j]
      BY <2>6 DEF Registration
    <3> QED
      BY <2>1, <2>6, <3>1 DEF PidOrder, QueueOrder
  <2> QED
    BY <2>1, <2>3, <2>4, <2>5, <2>6
<1> QED
  BY <1>2, <1>3, <1>4, <1>5 DEF PidOrder

\* Queueing something else than a registration leaves the registrations as they are.
LEMMA OtherQueued ==
    ASSUME NEW q \in Seq(Message), NEW m \in Message, m.type # "register"
    PROVE  /\ Queued(q, m) \in Seq(Message)
           /\ \A i \in DOMAIN Queued(q, m) : Queued(q, m)[i].type = "register" =>
                 i \in DOMAIN q /\ Queued(q, m)[i] = q[i]
BY QueuedLast

\* Other messages than registrations do not matter.
LEMMA OtherMessage ==
    ASSUME TypeOK, PidOrder, NEW m \in Message, Send(m), m.type # "register",
           UNCHANGED <<agent, row, handling>>
    PROVE  PidOrder' /\ Forward
<1>1. \A i \in DOMAIN inbox' : inbox'[i].type = "register" =>
          i \in DOMAIN inbox /\ inbox'[i] = inbox[i]
  BY OtherQueued DEF Send, TypeOK, StateTypes
<1>2. Registering' => Registering /\ handling' = handling
  BY DEF Registering
<1> QED
  BY <1>1, <1>2, OrderKept, SameAgents

\* The agents that do something else have started before.
LEMMA StartedBefore ==
    ASSUME TypeOK, NEW p \in Process, agent[p].state # "none", NEW state,
           state \notin {"none", "starting"}, Becomes(p, state)
    PROVE  AgentsKept
BY DEF AgentsKept, Started, StartedIn, Becomes, TypeOK, StateTypes, Agent

\* The agent that starts is the last one.
LEMMA JoinOrder ==
    ASSUME TypeOK, PidOrder, NEW p \in Process, NEW s \in Sessions, Join(p, s)
    PROVE  PidOrder' /\ Forward
<1>1. agent' = [agent EXCEPT ![p] = [session |-> s, state |-> "starting"]]
  BY DEF Join
<1>2. /\ Started' = Started \cup {p} /\ p \notin Started
      /\ StartedIn(s)' = StartedIn(s) \cup {p}
      /\ \A t \in Sessions : t # s => StartedIn(t)' = StartedIn(t)
  BY <1>1 DEF Join, Started, StartedIn, TypeOK, StateTypes
<1>3. \A q \in Started : q <= p
  <2> SUFFICES ASSUME NEW q \in Started, ~(q <= p) PROVE FALSE
    OBVIOUS
  <2>1. p \in Process /\ q \in Process /\ p \in Nat /\ q \in Nat /\ p < q
    BY LoopAssumption DEF Started
  <2> QED
    BY <1>2, <2>1 DEF PidOrder, StartInOrder
<1>4. \A t \in Sessions : row'[t].pid = row[t].pid
  BY DEF Join, TypeOK, StateTypes, Row
<1>5. UNCHANGED <<inbox, handling>>
  BY DEF Join
<1>6. Forward
  BY <1>4, PidTypes DEF Forward
<1>7. StartInOrder'
  <2> SUFFICES ASSUME NEW q \in Process, NEW r \in Process, r < q, q \in Started'
               PROVE  r \in Started'
    BY DEF StartInOrder
  <2>1. CASE q \in Started
    BY <1>2, <2>1 DEF PidOrder, StartInOrder
  <2>2. CASE q = p
    BY <1>2, <2>2 DEF Join, Started
  <2> QED
    BY <1>2, <2>1, <2>2
<1>8. LastStarts'
  <2> SUFFICES ASSUME NEW q \in Process, agent'[q].state = "starting",
                      NEW r \in StartedIn(agent[q].session)'
               PROVE  r <= q
    BY DEF LastStarts
  <2>1. p \in Nat
    BY LoopAssumption
  <2>2. CASE q = p
    BY <1>2, <1>3, <2>1, <2>2 DEF StartedIn
  <2>3. CASE q # p
    <3>1. agent'[q] = agent[q] /\ agent[q].session \in Sessions
      BY <1>1, <2>3 DEF TypeOK, StateTypes, Agent
    <3>2. agent[q].session # s
      BY <3>1 DEF Join, HasAgent, Serving
    <3> QED
      BY <1>2, <3>1, <3>2 DEF PidOrder, LastStarts
  <2> QED
    BY <2>2, <2>3
<1>9. \A t \in Sessions : StartedIn(t) \subseteq StartedIn(t)'
  BY <1>2
<1>10. RowOrder'
  <2>1. ASSUME NEW t \in Sessions, row'[t].pid # NoPid PROVE row'[t].pid \in StartedIn(t)'
    BY <1>4, <1>9, <2>1 DEF PidOrder, RowOrder
  <2>2. ASSUME Registering'
        PROVE  /\ handling'.message.pid \in StartedIn(handling.message.session)'
               /\ row'[handling'.message.session].pid <= handling'.message.pid
    <3>1. Registering /\ handling.message.session \in Sessions
      BY <1>5, <2>2, PidTypes DEF Registering
    <3> QED
      BY <1>4, <1>5, <1>9, <3>1 DEF PidOrder, RowOrder
  <2> QED
    BY <2>1, <2>2 DEF RowOrder
<1>11. QueueOrder'
  <2> SUFFICES ASSUME NEW i \in DOMAIN inbox, Registration(i)
               PROVE  /\ inbox[i].pid \in StartedIn(inbox[i].session)'
                      /\ row'[inbox[i].session].pid <= inbox[i].pid
                      /\ Registering' /\ handling'.message.session = inbox[i].session
                            => handling'.message.pid <= inbox[i].pid
                      /\ \A j \in DOMAIN inbox :
                            Registration(j) /\ j < i /\ inbox[j].session = inbox[i].session
                                => inbox[j].pid <= inbox[i].pid
    BY <1>5 DEF QueueOrder, Registration
  <2>1. inbox[i].session \in Sessions
    BY PidTypes
  <2> QED
    BY <1>4, <1>5, <1>9, <2>1 DEF PidOrder, QueueOrder, Registering
<1> QED
  BY <1>6, <1>7, <1>8, <1>10, <1>11 DEF PidOrder

\* The agent that registers is the last one of its session, and so is its registration.
LEMMA RegistersOrder ==
    ASSUME TypeOK, PidOrder, NEW p \in Process, Registers(p)
    PROVE  PidOrder' /\ Forward
<1> DEFINE s == agent[p].session
           m == [type |-> "register", session |-> s, pid |-> p]
<1>1. s \in Sessions /\ p \in Nat /\ m \in Message
  BY LoopAssumption DEF TypeOK, StateTypes, Agent, Message, MaybePid
<1>2. /\ \A q \in StartedIn(s) : q <= p
      /\ p \in StartedIn(s)
  BY DEF Registers, PidOrder, LastStarts, StartedIn, Started
<1>3. AgentsKept
  BY StartedBefore DEF Registers
<1>4. UNCHANGED <<row, handling>> /\ inbox' = Queued(inbox, m)
  BY DEF Registers, Send
<1>5. CASE inbox' = inbox
  <2>1. Registering' => Registering /\ handling' = handling
    BY <1>4 DEF Registering
  <2> QED
    BY <1>3, <1>4, <1>5, <2>1, OrderKept
<1>6. CASE /\ DOMAIN inbox' = 1 .. Len(inbox) + 1
           /\ \A i \in DOMAIN inbox : i \in DOMAIN inbox' /\ inbox'[i] = inbox[i]
           /\ inbox'[Len(inbox) + 1] = m
  <2>1. DOMAIN inbox = 1 .. Len(inbox) /\ Len(inbox) \in Nat
    BY PidTypes
  <2>2. row[s].pid <= p
    BY <1>1, <1>2, PidTypes DEF PidOrder, RowOrder, NoPid
  <2>3. Registering /\ handling.message.session = s => handling.message.pid <= p
    BY <1>2 DEF PidOrder, RowOrder
  <2>4. \A i \in DOMAIN inbox : Registration(i) /\ inbox[i].session = s => inbox[i].pid <= p
    BY <1>2 DEF PidOrder, QueueOrder
  <2>5. Forward
    BY <1>4, PidTypes DEF Forward
  <2>6. StartInOrder' /\ LastStarts' /\ RowOrder'
    <3>1. StartInOrder'
      BY <1>3 DEF AgentsKept, PidOrder, StartInOrder
    <3>2. ASSUME NEW q \in Process, agent'[q].state = "starting",
                 NEW r \in StartedIn(agent[q].session)'
          PROVE  r <= q
      BY <1>3, <3>2 DEF AgentsKept, PidOrder, LastStarts, TypeOK, StateTypes, Agent
    <3>3. \A t \in Sessions : row'[t].pid # NoPid => row'[t].pid \in StartedIn(t)'
      BY <1>3, <1>4 DEF AgentsKept, PidOrder, RowOrder
    <3>4. ASSUME Registering'
          PROVE  /\ handling'.message.pid \in StartedIn(handling.message.session)'
                 /\ row'[handling'.message.session].pid <= handling'.message.pid
      BY <1>3, <1>4, <3>4, PidTypes DEF AgentsKept, PidOrder, RowOrder, Registering
    <3> QED
      BY <3>1, <3>2, <3>3, <3>4 DEF LastStarts, RowOrder
  <2>7. QueueOrder'
    <3> SUFFICES ASSUME NEW i \in DOMAIN inbox', Registration(i)'
                 PROVE  /\ inbox'[i].pid \in StartedIn(inbox[i].session)'
                        /\ row'[inbox'[i].session].pid <= inbox'[i].pid
                        /\ Registering' /\ handling'.message.session = inbox'[i].session
                              => handling'.message.pid <= inbox'[i].pid
                        /\ \A j \in DOMAIN inbox' :
                              Registration(j)' /\ j < i /\ inbox'[j].session = inbox'[i].session
                                  => inbox'[j].pid <= inbox'[i].pid
      BY DEF QueueOrder
    <3>1. CASE i \in DOMAIN inbox
      <4>1. inbox'[i] = inbox[i] /\ Registration(i) /\ inbox[i].session \in Sessions
        BY <1>6, <3>1, PidTypes DEF Registration
      <4>2. ASSUME NEW j \in DOMAIN inbox', Registration(j)', j < i,
                   inbox'[j].session = inbox'[i].session
            PROVE  inbox'[j].pid <= inbox'[i].pid
        <5>1. j \in DOMAIN inbox
          BY <1>6, <2>1, <3>1, <4>2
        <5>2. inbox'[j] = inbox[j] /\ Registration(j)
          BY <1>6, <4>2, <5>1 DEF Registration
        <5> QED
          BY <3>1, <4>1, <4>2, <5>1, <5>2 DEF PidOrder, QueueOrder
      <4>3. inbox'[i].pid \in StartedIn(inbox[i].session)'
        BY <1>3, <3>1, <4>1 DEF AgentsKept, PidOrder, QueueOrder
      <4>4. /\ row'[inbox'[i].session].pid <= inbox'[i].pid
            /\ Registering' /\ handling'.message.session = inbox'[i].session
                  => handling'.message.pid <= inbox'[i].pid
        BY <1>4, <3>1, <4>1 DEF PidOrder, QueueOrder, Registering
      <4> QED
        BY <4>2, <4>3, <4>4
    <3>2. CASE i = Len(inbox) + 1
      <4>1. inbox'[i].pid = p /\ inbox'[i].session = s
        BY <1>6, <3>2
      <4>2. ASSUME NEW j \in DOMAIN inbox', Registration(j)', j < i, inbox'[j].session = s
            PROVE  inbox'[j].pid <= p
        <5>1. j \in DOMAIN inbox
          BY <1>6, <2>1, <3>2, <4>2
        <5>2. inbox'[j] = inbox[j] /\ Registration(j)
          BY <1>6, <4>2, <5>1 DEF Registration
        <5> QED
          BY <2>4, <4>2, <5>1, <5>2
      <4>3. inbox'[i].pid \in StartedIn(inbox[i].session)'
        BY <1>1, <1>2, <1>3, <4>1 DEF AgentsKept
      <4>4. Registering' /\ handling'.message.session = s => handling'.message.pid <= p
        BY <1>4, <2>3 DEF Registering
      <4>5. row'[s].pid <= p
        BY <1>4, <2>2
      <4> HIDE DEF s, m
      <4> QED
        BY <4>1, <4>2, <4>3, <4>4, <4>5
    <3> QED
      BY <1>6, <2>1, <3>1, <3>2
  <2> QED
    BY <2>5, <2>6, <2>7 DEF PidOrder
<1> QED
  BY <1>1, <1>4, <1>5, <1>6, QueuedLast DEF TypeOK, StateTypes

\* The message that is taken is the one that waited longest.
LEMMA TakeOrder ==
    ASSUME TypeOK, PidOrder, Take
    PROVE  PidOrder' /\ Forward
<1> DEFINE m == inbox[1]
<1>1. DOMAIN inbox = 1 .. Len(inbox) /\ Len(inbox) \in Nat \ {0} /\ 1 \in DOMAIN inbox
  BY EmptySeq, LenProperties DEF Take, TypeOK, StateTypes
<1>2. /\ inbox' = RemoveAt(inbox, 1)
      /\ IF Refused(m)
           THEN Answer(m, "gone") /\ UNCHANGED handling
           ELSE /\ handling' = Taken(IF m.type = "register" /\ ~row[m.session].there
                                       THEN "insert" ELSE m.type, m)
                /\ UNCHANGED agent
  BY DEF Take, NextMessage
<1>3. /\ DOMAIN inbox' = 1 .. Len(inbox) - 1
      /\ \A i \in DOMAIN inbox' : i + 1 \in DOMAIN inbox /\ inbox'[i] = inbox[i + 1]
  <2>1. /\ inbox' \in Seq(Message) /\ Len(inbox') = Len(inbox) - 1
        /\ \A i \in 1 .. Len(inbox) - 1 : inbox'[i] = inbox[i + 1]
    BY <1>2, TakeFirst DEF Take, TypeOK, StateTypes
  <2>2. DOMAIN inbox' = 1 .. Len(inbox) - 1
    BY <2>1, LenProperties
  <2> QED
    BY <1>1, <2>1, <2>2
<1>4. AgentsKept
  <2>1. \/ agent' = agent
        \/ agent[m.pid].state = "registering" /\ agent' = [agent EXCEPT ![m.pid].state = "gone"]
    BY <1>2 DEF Answer
  <2>2. agent \in [Process -> Agent]
    BY DEF TypeOK, StateTypes
  <2> HIDE DEF m
  <2> QED
    BY <2>1, <2>2 DEF AgentsKept, Started, StartedIn, Agent
<1>5. Registering' => m.type = "register" /\ handling'.message = m
  <2>1. CASE Refused(m)
    BY <1>2, <2>1 DEF Registering, Take, Free, Nothing
  <2>2. CASE ~Refused(m)
    BY <1>1, <1>2, <2>2, PidTypes DEF Registering, Taken, Message
  <2> QED
    BY <2>1, <2>2
<1>6. row' = row /\ Forward
  BY PidTypes DEF Take, Forward
<1>7. StartInOrder' /\ LastStarts'
  <2>1. \A p \in Process : agent[p].session \in Sessions
    BY DEF TypeOK, StateTypes, Agent
  <2> QED
    BY <1>4, <2>1 DEF AgentsKept, PidOrder, StartInOrder, LastStarts, StartedIn, Started
<1>8. RowOrder'
  <2>1. ASSUME NEW s \in Sessions, row'[s].pid # NoPid PROVE row'[s].pid \in StartedIn(s)'
    BY <1>4, <1>6, <2>1 DEF AgentsKept, PidOrder, RowOrder
  <2>2. ASSUME Registering'
        PROVE  /\ handling'.message.pid \in StartedIn(handling.message.session)'
               /\ row'[handling'.message.session].pid <= handling'.message.pid
    <3>1. handling'.message = m /\ Registration(1) /\ m.session \in Sessions
      BY <1>1, <1>5, <2>2, PidTypes DEF Registration
    <3>2. m.pid \in StartedIn(m.session) /\ row[m.session].pid <= m.pid
      BY <1>1, <3>1 DEF PidOrder, QueueOrder
    <3>3. m.pid \in StartedIn(handling.message.session)'
      BY <1>4, <3>1, <3>2 DEF AgentsKept
    <3> QED
      BY <1>6, <3>1, <3>2, <3>3
  <2> QED
    BY <2>1, <2>2 DEF RowOrder
<1>9. QueueOrder'
  <2> SUFFICES ASSUME NEW i \in DOMAIN inbox', Registration(i)'
               PROVE  /\ inbox'[i].pid \in StartedIn(inbox[i].session)'
                      /\ row'[inbox'[i].session].pid <= inbox'[i].pid
                      /\ Registering' /\ handling'.message.session = inbox'[i].session
                            => handling'.message.pid <= inbox'[i].pid
                      /\ \A j \in DOMAIN inbox' :
                            Registration(j)' /\ j < i /\ inbox'[j].session = inbox'[i].session
                                => inbox'[j].pid <= inbox'[i].pid
    BY DEF QueueOrder
  <2>1. /\ i + 1 \in DOMAIN inbox /\ inbox'[i] = inbox[i + 1] /\ Registration(i + 1) /\ i \in Nat
        /\ inbox[i + 1].session \in Sessions
    BY <1>1, <1>3, PidTypes DEF Registration
  <2>0. inbox'[i].pid \in StartedIn(inbox[i].session)'
    BY <1>4, <2>1 DEF AgentsKept, PidOrder, QueueOrder
  <2>2. Registering' /\ handling'.message.session = inbox'[i].session
            => handling'.message.pid <= inbox'[i].pid
    <3> SUFFICES ASSUME Registering', m.session = inbox[i + 1].session
                 PROVE  m.pid <= inbox[i + 1].pid
      BY <1>5, <2>1
    <3>1. Registration(1) /\ 1 < i + 1
      BY <1>1, <1>3, <1>5 DEF Registration
    <3> QED
      BY <1>1, <2>1, <3>1 DEF PidOrder, QueueOrder
  <2>3. ASSUME NEW j \in DOMAIN inbox', Registration(j)', j < i,
               inbox'[j].session = inbox'[i].session
        PROVE  inbox'[j].pid <= inbox'[i].pid
    <3>1. /\ j + 1 \in DOMAIN inbox /\ inbox'[j] = inbox[j + 1] /\ Registration(j + 1)
          /\ j + 1 < i + 1
      BY <1>1, <1>3, <2>3 DEF Registration
    <3> QED
      BY <2>1, <2>3, <3>1 DEF PidOrder, QueueOrder
  <2> QED
    BY <1>6, <2>0, <2>1, <2>2, <2>3 DEF PidOrder, QueueOrder
<1> QED
  BY <1>6, <1>7, <1>8, <1>9 DEF PidOrder

\* What is written is not older than what was there.
LEMMA RegisterOrder ==
    ASSUME TypeOK, PidOrder, WriteRegister
    PROVE  PidOrder' /\ Forward
<1> DEFINE m == handling.message
<1>1. /\ Registering /\ m.session \in Sessions /\ m.pid \in Process /\ m.pid \in Nat
      /\ m.pid \in StartedIn(m.session) /\ row[m.session].pid <= m.pid
  BY PidTypes DEF WriteRegister, Registering, PidOrder, RowOrder
<1>2. AgentsKept
  <2>1. \/ agent' = agent
        \/ /\ agent[m.pid].state = "registering"
           /\ \E state \in {"running", "gone"} : agent' = [agent EXCEPT ![m.pid].state = state]
    BY DEF WriteRegister, Answer
  <2>2. agent \in [Process -> Agent] /\ m.pid \in Process
    BY <1>1 DEF TypeOK, StateTypes
  <2> HIDE DEF m
  <2> QED
    BY <2>1, <2>2 DEF AgentsKept, Started, StartedIn, Agent
<1>3. ~Registering' /\ inbox' = inbox
  BY DEF WriteRegister, Registering, Nothing
<1>4. /\ \A s \in Sessions : s # m.session => row'[s].pid = row[s].pid
      /\ row'[m.session].pid \in {m.pid, row[m.session].pid}
  BY <1>1 DEF WriteRegister, Runtime, TypeOK, StateTypes, Row
<1>5. Forward
  BY <1>1, <1>4, PidTypes DEF Forward
<1>6. StartInOrder' /\ LastStarts'
  <2>1. \A p \in Process : agent[p].session \in Sessions
    BY DEF TypeOK, StateTypes, Agent
  <2> QED
    BY <1>2, <2>1 DEF AgentsKept, PidOrder, StartInOrder, LastStarts, StartedIn, Started
<1>7. RowOrder'
  <2>1. ASSUME NEW s \in Sessions, row'[s].pid # NoPid PROVE row'[s].pid \in StartedIn(s)'
    BY <1>1, <1>2, <1>4, <2>1 DEF AgentsKept, PidOrder, RowOrder
  <2> QED
    BY <1>3, <2>1 DEF RowOrder
<1>8. QueueOrder'
  <2> SUFFICES ASSUME NEW i \in DOMAIN inbox, Registration(i)
               PROVE  /\ inbox[i].pid \in StartedIn(inbox[i].session)'
                      /\ row'[inbox[i].session].pid <= inbox[i].pid
                      /\ \A j \in DOMAIN inbox :
                            Registration(j) /\ j < i /\ inbox[j].session = inbox[i].session
                                => inbox[j].pid <= inbox[i].pid
    BY <1>3 DEF QueueOrder, Registration
  <2>1. inbox[i].session \in Sessions
    BY PidTypes
  <2>2. row'[inbox[i].session].pid <= inbox[i].pid
    BY <1>1, <1>4, <2>1 DEF PidOrder, QueueOrder
  <2>3. inbox[i].pid \in StartedIn(inbox[i].session)'
    BY <1>2, <1>3, <2>1 DEF AgentsKept, PidOrder, QueueOrder
  <2> QED
    BY <2>2, <2>3 DEF PidOrder, QueueOrder
<1> QED
  BY <1>5, <1>6, <1>7, <1>8 DEF PidOrder

\* The pids are in order at first, and after every step.
LEMMA NextOrder ==
    ASSUME TypeOK, PidOrder, [Next]_loopVars
    PROVE  PidOrder' /\ [Forward]_loopVars
<1> USE DEF TypeOK
<1>1. ASSUME AgentsKept, UNCHANGED <<row, inbox, handling>> PROVE PidOrder' /\ Forward
  <2>1. Registering' => Registering /\ handling' = handling
    BY <1>1 DEF Registering
  <2> QED
    BY <1>1, <2>1, OrderKept
<1>2. ASSUME AgentsKept, UNCHANGED inbox,
             handling' = handling \/ handling'.pc \in {"off", "published"},
             \A s \in Sessions : row'[s].pid \in {row[s].pid, NoPid}
      PROVE  PidOrder' /\ Forward
  <2>1. Registering' => Registering /\ handling' = handling
    BY <1>2 DEF Registering
  <2> QED
    BY <1>2, <2>1, OrderKept
<1>3. ASSUME Down, UNCHANGED <<row, agent>> PROVE PidOrder' /\ Forward
  <2>1. ~Registering' /\ DOMAIN inbox' = {}
    BY <1>3, EmptySeq, LenProperties DEF Down, Registering, Nothing
  <2> QED
    BY <1>3, <2>1, OrderKept, SameAgents
<1>4. ASSUME NEW p \in Process, AgentStep(p) PROVE PidOrder' /\ Forward
  <2>0. HeartbeatOf(p) \in Message /\ HeartbeatOf(p).type # "register"
    BY DEF HeartbeatOf, Message, MaybePid, StateTypes, Agent
  <2>1. CASE StopsWaiting(p)
    BY <1>1, <2>1, StartedBefore DEF StopsWaiting
  <2>2. CASE Heartbeat(p)
    BY <2>0, <2>2, OtherMessage DEF Heartbeat
  <2>3. CASE AgentStops(p)
    BY <1>1, <2>3, StartedBefore DEF AgentStops
  <2>4. CASE SaysGoodbye(p)
    <3> DEFINE m == [type |-> "shutdown", session |-> agent[p].session, pid |-> NoPid]
    <3>1. m \in Message /\ m.type # "register" /\ inbox \in Seq(Message)
      BY DEF Message, MaybePid, StateTypes, Agent
    <3>2. AgentsKept
      BY <2>4, StartedBefore DEF SaysGoodbye
    <3>3. /\ Queued(inbox, m) \in Seq(Message)
          /\ \A i \in DOMAIN Queued(inbox, m) : Queued(inbox, m)[i].type = "register" =>
                i \in DOMAIN inbox /\ Queued(inbox, m)[i] = inbox[i]
      BY <3>1, OtherQueued
    <3>4. inbox' = Queued(inbox, m) \/ inbox' = Queued(Queued(inbox, m), HeartbeatOf(p))
      BY <2>4 DEF SaysGoodbye
    <3> HIDE DEF m
    <3>5. \A i \in DOMAIN Queued(Queued(inbox, m), HeartbeatOf(p)) :
             Queued(Queued(inbox, m), HeartbeatOf(p))[i].type = "register" =>
                /\ i \in DOMAIN Queued(inbox, m)
                /\ Queued(Queued(inbox, m), HeartbeatOf(p))[i] = Queued(inbox, m)[i]
      BY <2>0, <3>3, OtherQueued
    <3>6. \A i \in DOMAIN inbox' : inbox'[i].type = "register" =>
              i \in DOMAIN inbox /\ inbox'[i] = inbox[i]
      BY <3>3, <3>4, <3>5
    <3>7. UNCHANGED <<row, handling>>
      BY <2>4 DEF SaysGoodbye
    <3>8. Registering' => Registering /\ handling' = handling
      BY <3>7 DEF Registering
    <3> QED
      BY <3>2, <3>6, <3>7, <3>8, OrderKept
  <2>5. CASE AgentKilled(p)
    BY <1>1, <2>5, StartedBefore DEF AgentKilled, Alive, Serving
  <2> QED
    BY <1>4, <2>1, <2>2, <2>3, <2>4, <2>5, JoinOrder, RegistersOrder
       DEF AgentStep
<1>5. CASE HandlerStep
  <2>1. CASE WriteHeartbeat
    <3>1. handling.message.session \in Sessions
      BY <2>1 DEF WriteHeartbeat, LoopShape, Handling, Nothing, Message
    <3>2. \A s \in Sessions : row'[s].pid = row[s].pid
      BY <2>1, <3>1 DEF WriteHeartbeat, Runtime, StateTypes, Row
    <3> QED
      BY <1>2, <2>1, <3>2, SameAgents DEF WriteHeartbeat, Nothing
  <2>2. CASE WriteShutdown
    <3>1. \A s \in Sessions : row'[s].pid = row[s].pid
      BY <2>2 DEF WriteShutdown, MarkDisconnected, StateTypes, Row
    <3> QED
      BY <1>2, <2>2, <3>1, SameAgents DEF WriteShutdown, Nothing
  <2>3. CASE SyncPublishes
    BY <1>2, <2>3, SameAgents DEF SyncPublishes
  <2>4. CASE SyncRecords
    BY <1>2, <2>4, SameAgents DEF SyncRecords, Nothing
  <2>5. CASE SyncEnds
    BY <1>2, <2>5, SameAgents DEF SyncEnds, Nothing
  <2> QED
    BY <1>5, <2>1, <2>2, <2>3, <2>4, <2>5, TakeOrder, RegisterOrder DEF HandlerStep
<1>6. CASE LoopStep
  <2>1. ASSUME NEW s \in Sessions, LoopMarks(s) PROVE PidOrder' /\ Forward
    <3>1. CASE row[s].there
      <4>1. \A t \in Sessions : row'[t].pid = row[t].pid
        BY <2>1, <3>1 DEF LoopMarks, MarkDisconnected, StateTypes, Row
      <4> QED
        BY <1>2, <2>1, <3>1, <4>1, SameAgents DEF LoopMarks
    <3>2. CASE ~row[s].there
      BY <1>3, <2>1, <3>2 DEF LoopMarks
    <3> QED
      BY <3>1, <3>2
  <2> QED
    BY <1>1, <1>6, <2>1
      , SameAgents DEF LoopStep, LoopLists, LoopReadsObserved, LoopReadsMain, LoopRecords
<1>7. CASE DeleteStep
  <2>1. ASSUME NEW s \in Sessions, DeleteLooks(s) PROVE PidOrder' /\ Forward
    <3>1. \A t \in Sessions : row'[t].pid = row[t].pid
      BY <2>1 DEF DeleteLooks, MarkDisconnected, StateTypes, Row
    <3> QED
      BY <1>2, <2>1, <3>1, SameAgents DEF DeleteLooks
  <2>2. CASE DeleteClaims
    <3>1. \A t \in Sessions : row'[t].pid \in {row[t].pid, NoPid}
      BY <2>2 DEF DeleteClaims, StateTypes, Row
    <3> QED
      BY <1>2, <2>2, <3>1, SameAgents DEF DeleteClaims
  <2>3. CASE DeleteEnds
    <3>1. \A t \in Sessions : row'[t].pid \in {row[t].pid, NoPid}
      BY <2>3 DEF DeleteEnds, NoRow, StateTypes, Row
    <3> QED
      BY <1>2, <2>3, <3>1, SameAgents DEF DeleteEnds
  <2> QED
    BY <1>7, <2>1, <2>2, <2>3 DEF DeleteStep
<1>8. CASE DaemonStarts
  BY <1>1, <1>8, SameAgents DEF DaemonStarts
<1>9. CASE DaemonStops
  BY <1>3, <1>9 DEF DaemonStops
<1>10. ASSUME NEW s \in Sessions, AsksForSync(s) \/ Ages(s) PROVE PidOrder' /\ Forward
  <2> DEFINE m == [type |-> "sync", session |-> s, pid |-> NoPid]
  <2>1. m \in Message /\ m.type # "register"
    BY DEF Message, MaybePid
  <2>2. CASE AsksForSync(s)
    BY <2>1, <2>2, OtherMessage, SameAgents DEF AsksForSync
  <2>3. CASE Ages(s)
    BY <1>1, <2>3, SameAgents DEF Ages
  <2> QED
    BY <1>10, <2>2, <2>3
<1>11. CASE ExternalMain
  BY <1>1, <1>11, SameAgents DEF ExternalMain
<1>12. CASE UNCHANGED loopVars
  BY <1>1, <1>12, SameAgents DEF loopVars
<1> QED
  BY <1>4, <1>5, <1>6, <1>7, <1>8, <1>9, <1>10, <1>11, <1>12 DEF Next

\* Nobody has started, and no row has a pid.
LEMMA InitOrder == Init => PidOrder
<1> SUFFICES ASSUME Init PROVE PidOrder
  OBVIOUS
<1>1. /\ Started = {} /\ ~Registering /\ DOMAIN inbox = {}
      /\ \A p \in Process : agent[p].state # "starting"
  BY EmptySeq, LenProperties DEF Init, Started, Registering, Nothing
<1>2. \A s \in Sessions : row[s].pid = NoPid
  BY DEF Init, NoRow
<1> QED
  BY <1>1, <1>2 DEF PidOrder, StartInOrder, LastStarts, RowOrder, QueueOrder

-----------------------------------------------------------------------------

\* Every variable keeps its type, only a row that exists says anything, a daemon that is
\* down has no messages, and the handler, the main loop and a deletion carry what their
\* next step needs: sessions and processes there are, and mains that have been.
THEOREM LoopTypesCorrect == Spec => []TypeOK
<1>1. Init => TypeOK
  BY InitTypes
<1>2. TypeOK /\ [Next]_loopVars => TypeOK'
  BY NextTypes
<1> QED
  BY <1>1, <1>2, PTL DEF Spec

\* The pid in a row is never replaced by that of an agent that started before.
THEOREM PidsMoveForward == Spec => PidMovesForward
<1>1. Init => TypeOK /\ PidOrder
  BY InitTypes, InitOrder
<1>2. TypeOK /\ PidOrder /\ [Next]_loopVars => (TypeOK /\ PidOrder)' /\ [Forward]_loopVars
  BY NextTypes, NextOrder
<1> QED
  BY <1>1, <1>2, PTL DEF Spec, PidMovesForward, Forward
=============================================================================
