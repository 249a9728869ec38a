------------------------------ MODULE SocketPath ------------------------------
(***************************************************************************)
(* How a daemon, or a session's agent, comes to listen at its socket path   *)
(* and leaves it (transport.py).  Two may be started for one path; each may *)
(* be killed anywhere.  A file is looked at, and then removed, bound or     *)
(* written by a later system call.                                         *)
(*                                                                         *)
(* A path too long for AF_UNIX holds a pointer file instead; the socket is  *)
(* then in the temporary directory of the process, which need not be the    *)
(* same for every process.                                                 *)
(***************************************************************************)
CONSTANTS
    Servers,     \* processes that may serve the path
    Configured,  \* the path
    Runtime,     \* where a pointer may lead: one per temporary directory
    None, Partial

ASSUME SocketAssumption ==
    /\ Configured \notin Runtime
    /\ None \notin Servers
    /\ {None, Partial} \cap (Runtime \cup {Configured}) = {} /\ None # Partial

VARIABLES
    bindPath,  \* where each server binds: the configured path, or one it points to
    sock,      \* the server whose socket a path holds, alive or not
    pointer,   \* what the pointer file says; Partial: opened, and not written
    aim,       \* the socket a server has found through the pointer file
    pc,        \* what each server does next
    crowded    \* a server started, or stopped, while another was about to take the path

sockVars == <<bindPath, sock, pointer, aim, pc, crowded>>

Step == {"off", "refused", "readPointer", "unpoint", "unaim", "look", "unlink", "bind", "listen",
         "publish", "write", "serving", "closing", "closingPointer", "giveUp", "giveUpPointer"}
PointerStep == {"readPointer", "unpoint", "unaim", "publish", "write", "closingPointer",
                "giveUpPointer"}

Path == Runtime \cup {Configured}
UsesPointer(s) == bindPath[s] # Configured

\* A server that listens accepts, even before its thread has been started.
Listening(s) == pc[s] \in {"publish", "write", "serving", "closing", "closingPointer"}
Starting(s) == pc[s] \in {"readPointer", "unpoint", "unaim", "look", "unlink", "bind",
                          "listen", "publish", "write"}
GivingUp(s) == pc[s] \in {"giveUp", "giveUpPointer"}
Closing(s) == pc[s] \in {"closing", "closingPointer"}

\* Mutant: what is left of a server that died counts as one that runs.
Accepts_Present(p) == sock[p] # None

\* _socket_accepts_connections.  A backlog that is full makes the probe raise,
\* which ends the start just as an answer would.
Accepts(p) == sock[p] # None /\ Listening(sock[p])

\* send_message finds the server by the configured path.
Reaches(s) == IF UsesPointer(s) THEN pointer = bindPath[s] /\ sock[bindPath[s]] = s
                                ELSE sock[Configured] = s

Goes(s, step) == pc' = [pc EXCEPT ![s] = step]
Unlink(p) == sock' = [sock EXCEPT ![p] = None]

\* With a pointer file a server that leaves removes two files one after the
\* other, and may find the second to be another's.
InTheWay(s) == Starting(s) \/ GivingUp(s) \/ (UsesPointer(s) /\ Closing(s))
Crowds(s) == crowded' = (crowded \/ \E t \in Servers \ {s} : InTheWay(t))

-----------------------------------------------------------------------------
(* prepare_socket_path                                                     *)

Start(s) ==
    /\ pc[s] \in {"off", "refused"}
    /\ Goes(s, IF UsesPointer(s) THEN "readPointer" ELSE "look")
    /\ Crowds(s)
    /\ UNCHANGED <<bindPath, sock, pointer, aim>>

\* A pointer file that was opened and never written is taken for a stranger's.
ReadPointer(s) ==
    /\ pc[s] = "readPointer"
    /\ \/ pointer = None /\ Goes(s, "look") /\ UNCHANGED aim
       \/ pointer = Partial /\ Goes(s, "refused") /\ UNCHANGED aim
       \/ /\ pointer \in Path
          /\ IF Accepts(pointer)
               THEN Goes(s, "refused") /\ UNCHANGED aim
               ELSE Goes(s, "unpoint") /\ aim' = [aim EXCEPT ![s] = pointer]
    /\ UNCHANGED <<bindPath, sock, pointer, crowded>>

UnlinkPointer(s) ==
    /\ pc[s] = "unpoint"
    /\ pointer' = None
    /\ Goes(s, "unaim")
    /\ UNCHANGED <<bindPath, sock, aim, crowded>>

UnlinkPointed(s) ==
    /\ pc[s] = "unaim"
    /\ Unlink(aim[s])
    /\ aim' = [aim EXCEPT ![s] = None]
    /\ Goes(s, "look")
    /\ UNCHANGED <<bindPath, pointer, crowded>>

\* Mutant: a socket that is there is taken over without a probe.
LookAtSocket_Blindly(s) ==
    /\ pc[s] = "look"
    /\ Goes(s, IF sock[bindPath[s]] = None THEN "bind" ELSE "unlink")
    /\ UNCHANGED <<bindPath, sock, pointer, aim, crowded>>

LookAtSocket(s) ==
    /\ pc[s] = "look"
    /\ Goes(s, IF sock[bindPath[s]] = None THEN "bind"
               ELSE IF Accepts(bindPath[s]) THEN "refused" ELSE "unlink")
    /\ UNCHANGED <<bindPath, sock, pointer, aim, crowded>>

UnlinkStale(s) ==
    /\ pc[s] = "unlink"
    /\ Unlink(bindPath[s])
    /\ Goes(s, "bind")
    /\ UNCHANGED <<bindPath, pointer, aim, crowded>>

Prepare(s) == ReadPointer(s) \/ UnlinkPointer(s) \/ UnlinkPointed(s) \/ LookAtSocket(s)
              \/ UnlinkStale(s)

-----------------------------------------------------------------------------
(* _listening_socket, and what it does when it fails                       *)

\* The path is taken if another was faster.
Bind(s) ==
    /\ pc[s] = "bind"
    /\ IF sock[bindPath[s]] = None
         THEN sock' = [sock EXCEPT ![bindPath[s]] = s] /\ Goes(s, "listen")
         ELSE Goes(s, "giveUp") /\ UNCHANGED sock
    /\ UNCHANGED <<bindPath, pointer, aim, crowded>>

Listen(s) ==
    /\ pc[s] = "listen"
    /\ Goes(s, IF UsesPointer(s) THEN "publish" ELSE "serving")
    /\ UNCHANGED <<bindPath, sock, pointer, aim, crowded>>

\* Mutant: the pointer file names itself.
WritePointer_Self(s) ==
    /\ pc[s] = "write"
    /\ pointer' = Configured
    /\ Goes(s, "serving")
    /\ UNCHANGED <<bindPath, sock, aim, crowded>>

\* _publish_binding opens the file for writing, and writes.
OpenPointer(s) ==
    /\ pc[s] = "publish"
    /\ pointer' = Partial
    /\ Goes(s, "write")
    /\ UNCHANGED <<bindPath, sock, aim, crowded>>

WritePointer(s) ==
    /\ pc[s] = "write"
    /\ pointer' = bindPath[s]
    /\ Goes(s, "serving")
    /\ UNCHANGED <<bindPath, sock, aim, crowded>>

\* _unlink_binding removes what is there, whosever it is.
GiveUp(s) ==
    \/ /\ pc[s] = "giveUp"
       /\ Unlink(bindPath[s])
       /\ Goes(s, IF UsesPointer(s) THEN "giveUpPointer" ELSE "refused")
       /\ UNCHANGED <<bindPath, pointer, aim, crowded>>
    \/ /\ pc[s] = "giveUpPointer"
       /\ pointer' = None
       /\ Goes(s, "refused")
       /\ UNCHANGED <<bindPath, sock, aim, crowded>>

-----------------------------------------------------------------------------
(* _serve_forever ends, the socket still open while its files go           *)

Stop(s) ==
    /\ pc[s] = "serving"
    /\ Goes(s, "closing")
    /\ IF UsesPointer(s) THEN Crowds(s) ELSE UNCHANGED crowded
    /\ UNCHANGED <<bindPath, sock, pointer, aim>>

Close(s) ==
    \/ /\ pc[s] = "closing"
       /\ Unlink(bindPath[s])
       /\ Goes(s, IF UsesPointer(s) THEN "closingPointer" ELSE "off")
       /\ UNCHANGED <<bindPath, pointer, aim, crowded>>
    \/ /\ pc[s] = "closingPointer"
       /\ pointer' = None
       /\ Goes(s, "off")
       /\ UNCHANGED <<bindPath, sock, aim, crowded>>

\* The process is killed: its files stay.
Die(s) ==
    /\ Goes(s, "off")
    /\ pc[s] \notin {"off", "refused"}
    /\ aim' = [aim EXCEPT ![s] = None]
    /\ UNCHANGED <<bindPath, sock, pointer, crowded>>

-----------------------------------------------------------------------------

Init ==
    /\ bindPath \in [Servers -> {Configured}] \cup [Servers -> Runtime]
    /\ sock = [p \in Path |-> None]
    /\ pointer = None
    /\ aim = [s \in Servers |-> None]
    /\ pc = [s \in Servers |-> "off"]
    /\ crowded = FALSE

ServerStep(s) == \/ Start(s) \/ Prepare(s)
                 \/ Bind(s) \/ Listen(s) \/ OpenPointer(s) \/ WritePointer(s) \/ GiveUp(s)
                 \/ Stop(s) \/ Close(s) \/ Die(s)

Next == \E s \in Servers : ServerStep(s)

Spec == Init /\ [][Next]_sockVars

-----------------------------------------------------------------------------
(* Properties.                                                             *)

\* Every variable has its type, and who uses a pointer uses no other way.
TypeOK ==
    /\ bindPath \in [Servers -> {Configured}] \cup [Servers -> Runtime]
    /\ sock \in [Path -> Servers \cup {None}]
    /\ pointer \in Runtime \cup {None, Partial}
    /\ aim \in [Servers -> Runtime \cup {None}]
    /\ crowded \in BOOLEAN
    /\ pc \in [Servers -> Step]
    /\ \A s \in Servers :
          /\ pc[s] \in PointerStep => UsesPointer(s)
          /\ pc[s] \in {"unpoint", "unaim"} => aim[s] \in Runtime

\* Unless starts and stops meet, whatever was left by servers that were killed,
\* the server that serves is the one that clients reach, and it is the only one.
\* (When they meet, a start that fails removes the other's socket, one between
\* bind and listen is taken for dead, and one that stops removes the pointer file
\* of its successor.)
OneReachable ==
    ~crowded => \A s \in Servers : pc[s] = "serving" =>
                    /\ Reaches(s)
                    /\ \A t \in Servers \ {s} : pc[t] # "serving"

\* Nothing that a killed server has left keeps the next one from starting, but
\* for a pointer file that it had opened and not written.
RefusedOnlyByAnother ==
    [][\A s \in Servers :
          pc[s] # "refused" /\ pc'[s] = "refused" =>
              \/ crowded \/ pointer = Partial
              \/ \E t \in Servers \ {s} : Listening(t)]_sockVars
=============================================================================
