----------------------------- MODULE SocketProofs -----------------------------
(***************************************************************************)
(* The theorems about SocketPath.  A server that wants the path looks for   *)
(* another and acts on what it saw some system calls later.  The invariant  *)
(* says what remains true in between, as long as no two servers are in the  *)
(* way of each other: past its look, nobody else listens.                  *)
(***************************************************************************)
EXTENDS SocketPath, TLAPS

\* It has looked, and found nobody.
Past(s) == \/ pc[s] \in {"unpoint", "unaim", "unlink", "bind", "listen"}
           \/ pc[s] = "look" /\ UsesPointer(s)

OneInTheWay == \A s, t \in Servers : s # t /\ InTheWay(s) => ~InTheWay(t)

OneTakesThePath == \A s, t \in Servers : s # t /\ (Past(s) \/ Listening(s)) => ~Listening(t)

OwnFiles ==
    \A s \in Servers :
       /\ pc[s] \in {"listen", "publish", "write", "serving", "closing"} => sock[bindPath[s]] = s
       /\ pc[s] \in {"serving", "closing", "closingPointer"} /\ UsesPointer(s)
            => pointer = bindPath[s]

NobodyFaster == \A s \in Servers : /\ pc[s] = "bind" => sock[bindPath[s]] = None
                                   /\ ~GivingUp(s)

Calm == OneInTheWay /\ OneTakesThePath /\ OwnFiles /\ NobodyFaster

IInv == TypeOK /\ (~crowded => Calm)

\* Every variable keeps its type, whoever does what: _listening_socket and
\* _serve_forever.
LEMMA TypeStep == TypeOK /\ [Next]_sockVars => TypeOK'
<1> SUFFICES ASSUME TypeOK, [Next]_sockVars
             PROVE  TypeOK'
    OBVIOUS
<1> USE SocketAssumption DEF TypeOK, Step, PointerStep, Path, Goes, Unlink, Crowds, UsesPointer
<1>1. ASSUME NEW s \in Servers, Start(s) PROVE TypeOK'
    BY <1>1 DEF Start
<1>2. ASSUME NEW s \in Servers, ReadPointer(s) PROVE TypeOK'
    BY <1>2 DEF ReadPointer
<1>3. ASSUME NEW s \in Servers, UnlinkPointer(s) PROVE TypeOK'
    BY <1>3 DEF UnlinkPointer
<1>4. ASSUME NEW s \in Servers, UnlinkPointed(s) PROVE TypeOK'
    BY <1>4 DEF UnlinkPointed
<1>5. ASSUME NEW s \in Servers, LookAtSocket(s) PROVE TypeOK'
    BY <1>5 DEF LookAtSocket
<1>6. ASSUME NEW s \in Servers, UnlinkStale(s) PROVE TypeOK'
    BY <1>6 DEF UnlinkStale
<1>7. ASSUME NEW s \in Servers, Bind(s) PROVE TypeOK'
    BY <1>7 DEF Bind
<1>8. ASSUME NEW s \in Servers, Listen(s) \/ OpenPointer(s) \/ WritePointer(s) PROVE TypeOK'
    BY <1>8 DEF Listen, OpenPointer, WritePointer
<1>9. ASSUME NEW s \in Servers, GiveUp(s) PROVE TypeOK'
    BY <1>9 DEF GiveUp
<1>10. ASSUME NEW s \in Servers, Stop(s) \/ Close(s) PROVE TypeOK'
    <2>1. CASE Stop(s)
      BY <2>1 DEF Stop
    <2>2. CASE Close(s)
      BY <2>2 DEF Close
    <2> QED
      BY <1>10, <2>1, <2>2
<1>11. ASSUME NEW s \in Servers, Die(s) PROVE TypeOK'
    BY <1>11 DEF Die
<1>12. ASSUME UNCHANGED sockVars PROVE TypeOK'
    BY <1>12 DEF sockVars
<1> QED
    BY <1>1, <1>2, <1>3, <1>4, <1>5, <1>6, <1>7, <1>8, <1>9, <1>10, <1>11, <1>12
       DEF Next, ServerStep, Prepare

-----------------------------------------------------------------------------
(* No two servers get in each other's way before `crowded` says so.        *)

\* What `crowded` is for: who finds somebody in the way sets it.
LEMMA NobodyInTheWay ==
    ASSUME NEW s \in Servers, Crowds(s), ~crowded'
    PROVE  \A t \in Servers \ {s} : ~InTheWay(t)
BY Zenon DEF Crowds

\* A step that brings s into the way finds nobody there, or sets crowded: start,
\* and, with a pointer file, stop.
LEMMA WayStep ==
    ASSUME TypeOK, Calm, Next, ~crowded'
    PROVE  OneInTheWay'
<1> USE DEF TypeOK, Calm, OneInTheWay, InTheWay, Starting, GivingUp, Closing, UsesPointer, Goes
<1>1. PICK s \in Servers : ServerStep(s)
    BY DEF Next
<1>2. CASE Start(s)
    BY <1>2, NobodyInTheWay DEF Start
<1>3. CASE Prepare(s)
    BY <1>3 DEF Prepare, ReadPointer, UnlinkPointer, UnlinkPointed, LookAtSocket, UnlinkStale
<1>4. CASE Bind(s) \/ Listen(s) \/ OpenPointer(s) \/ WritePointer(s)
    BY <1>4 DEF Bind, Listen, OpenPointer, WritePointer
<1>5. CASE GiveUp(s) \/ Close(s) \/ Die(s)
    BY <1>5 DEF GiveUp, Close, Die
<1>6. CASE Stop(s)
    BY <1>6, NobodyInTheWay DEF Stop
<1> QED
    BY <1>1, <1>2, <1>3, <1>4, <1>5, <1>6 DEF ServerStep

\* What a look tells: nobody listens whose files one does not find.
LEMMA FoundByLook ==
    ASSUME TypeOK, Calm, NEW s \in Servers, NEW t \in Servers, s # t, Listening(t),
           InTheWay(s)
    PROVE  /\ sock[bindPath[t]] = t
           /\ Accepts(bindPath[t])
           /\ UsesPointer(s) => pointer = bindPath[t]
           /\ ~UsesPointer(s) => bindPath[t] = bindPath[s]
<1>1. ~InTheWay(t)
    BY DEF Calm, OneInTheWay
<1>2. pc[t] = "serving" \/ (pc[t] = "closing" /\ ~UsesPointer(t))
    BY <1>1 DEF InTheWay, Starting, Closing, Listening, TypeOK, PointerStep
<1>3. /\ UsesPointer(s) = UsesPointer(t)
      /\ ~UsesPointer(s) => bindPath[t] = bindPath[s]
    BY SocketAssumption DEF TypeOK, UsesPointer
<1>4. sock[bindPath[t]] = t
    BY <1>2 DEF Calm, OwnFiles
<1>5. Accepts(bindPath[t])
    BY <1>4, SocketAssumption DEF Accepts
<1>6. UsesPointer(t) => pointer = bindPath[t]
    BY <1>2 DEF Calm, OwnFiles
<1> QED
    BY <1>3, <1>4, <1>5, <1>6

\* Nobody else listens from the look until the end.
LEMMA TakeStep ==
    ASSUME TypeOK, Calm, Next
    PROVE  OneTakesThePath'
<1> USE DEF Past, Listening, Goes, UsesPointer
<1>1. PICK s \in Servers : ServerStep(s)
    BY DEF Next
<1>2. /\ \A t \in Servers \ {s} : pc'[t] = pc[t]
      /\ bindPath' = bindPath
      /\ pc[s] \in Step /\ pc' = [pc EXCEPT ![s] = pc'[s]] /\ pc \in [Servers -> Step]
    BY <1>1 DEF TypeOK, ServerStep, Prepare, Start, ReadPointer, UnlinkPointer, UnlinkPointed,
                LookAtSocket, UnlinkStale, Bind, Listen, OpenPointer, WritePointer, GiveUp, Stop,
                Close, Die
<1>3. ASSUME Past(s)' \/ Listening(s)', NEW t \in Servers, t # s PROVE ~Listening(t)
  <2>1. CASE Past(s) \/ Listening(s)
      BY <2>1, <1>3 DEF Calm, OneTakesThePath
  <2>2. CASE ~Past(s) /\ ~Listening(s)
    <3>1. ReadPointer(s) \/ LookAtSocket(s)
        BY <1>1, <1>3, <2>2
           DEF TypeOK, ServerStep, Prepare, Start, ReadPointer, UnlinkPointer, UnlinkPointed,
               LookAtSocket, UnlinkStale, Bind, Listen, OpenPointer, WritePointer, GiveUp, Stop,
               Close, Die, PointerStep
    <3>2. InTheWay(s)
        BY <3>1 DEF ReadPointer, LookAtSocket, InTheWay, Starting
    <3>3. SUFFICES ASSUME Listening(t) PROVE FALSE
        OBVIOUS
    <3>4. /\ sock[bindPath[t]] = t
          /\ Accepts(bindPath[t])
          /\ UsesPointer(s) => pointer = bindPath[t]
          /\ ~UsesPointer(s) => bindPath[t] = bindPath[s]
        BY <1>3, <3>2, <3>3, FoundByLook
    <3>5. CASE ReadPointer(s)
      <4>1. UsesPointer(s) /\ pc'[s] \in {"look", "unpoint", "refused"}
          BY <3>5 DEF ReadPointer, TypeOK, PointerStep
      <4>2. pc'[s] # "refused"
          BY <1>3, <1>2
      <4>3. bindPath[t] # None /\ bindPath[t] # Partial
          BY SocketAssumption DEF TypeOK
      <4> QED
          BY <3>4, <3>5, <4>1, <4>2, <4>3 DEF ReadPointer, TypeOK
    <3>6. CASE LookAtSocket(s)
      <4>1. ~UsesPointer(s)
          BY <2>2, <3>6 DEF LookAtSocket
      <4>2. sock[bindPath[s]] # None /\ Accepts(bindPath[s])
          BY <3>4, <4>1, SocketAssumption
      <4>3. pc'[s] = "refused"
          BY <3>6, <4>2 DEF LookAtSocket, TypeOK
      <4> QED
          BY <1>3, <4>3
    <3> QED
        BY <3>1, <3>5, <3>6
  <2> QED
      BY <2>1, <2>2
<1>4. ASSUME Listening(s)', NEW t \in Servers, t # s, Past(t) \/ Listening(t) PROVE FALSE
  <2>1. ~Listening(t)
      BY <1>3, <1>4
  <2>2. ~Listening(s)
      BY <1>4 DEF Calm, OneTakesThePath
  <2>3. pc[s] = "listen"
      BY <1>1, <1>4, <2>2
         DEF TypeOK, ServerStep, Prepare, Start, ReadPointer, UnlinkPointer, UnlinkPointed,
             LookAtSocket, UnlinkStale, Bind, Listen, OpenPointer, WritePointer, GiveUp, Stop,
             Close, Die
  <2>4. InTheWay(s) /\ InTheWay(t)
      BY <1>4, <2>1, <2>3 DEF InTheWay, Starting
  <2> QED
      BY <1>4, <2>4 DEF Calm, OneInTheWay
<1>5. \A t \in Servers \ {s} : (Past(t)' <=> Past(t)) /\ (Listening(t)' <=> Listening(t))
    BY <1>2
<1>6. ASSUME NEW r \in Servers, NEW t \in Servers, r # t, Past(r)' \/ Listening(r)'
      PROVE  ~Listening(t)'
  <2>1. CASE r = s
      BY <1>3, <1>5, <1>6, <2>1
  <2>2. CASE t = s
      BY <1>4, <1>5, <1>6, <2>2
  <2>3. CASE r # s /\ t # s
      BY <1>5, <1>6, <2>3 DEF Calm, OneTakesThePath
  <2> QED
      BY <2>1, <2>2, <2>3
<1> QED
    BY <1>6 DEF OneTakesThePath

\* Each has its files as long as it listens, and finds its path free to bind.
LEMMA FilesStep ==
    ASSUME TypeOK, Calm, Next
    PROVE  OwnFiles' /\ NobodyFaster'
<1> DEFINE Own(t) ==
       /\ pc[t] \in {"listen", "publish", "write", "serving", "closing"} => sock[bindPath[t]] = t
       /\ pc[t] \in {"serving", "closing", "closingPointer"} /\ UsesPointer(t)
            => pointer = bindPath[t]
       /\ pc[t] = "bind" => sock[bindPath[t]] = None
       /\ ~GivingUp(t)
<1>1. PICK s \in Servers : ServerStep(s)
    BY DEF Next
<1>2. SUFFICES ASSUME NEW t \in Servers PROVE Own(t)'
    BY DEF OwnFiles, NobodyFaster
<1>3. Own(t) /\ Own(s)
    BY DEF Calm, OwnFiles, NobodyFaster
<1>4. /\ pc \in [Servers -> Step] /\ bindPath \in [Servers -> Path]
      /\ sock \in [Path -> Servers \cup {None}]
      /\ pc[s] \in PointerStep => UsesPointer(s)
    BY SocketAssumption DEF TypeOK, Path
<1>5. t # s =>
        /\ pc[s] \in {"unpoint", "unaim", "unlink", "bind", "publish", "write", "closing",
                      "closingPointer"} => ~Listening(t)
        /\ pc[s] = "closing" => pc[t] # "listen"
    BY DEF Calm, OneTakesThePath, Past, Listening
<1>6. t # s /\ Starting(s) => ~Starting(t)
    BY DEF Calm, OneInTheWay, InTheWay
<1> HIDE DEF Own
<1>7. CASE Start(s) \/ Die(s) \/ Stop(s)
    BY <1>3, <1>4, <1>7 DEF Own, Start, Die, Stop, Goes, UsesPointer, GivingUp
<1>8. CASE ReadPointer(s)
    BY <1>3, <1>4, <1>8 DEF Own, ReadPointer, Goes, UsesPointer, GivingUp
<1>9. CASE UnlinkPointer(s)
    BY <1>3, <1>4, <1>5, <1>9 DEF Own, UnlinkPointer, Goes, UsesPointer, GivingUp, Listening
<1>10. CASE UnlinkPointed(s)
    BY <1>3, <1>4, <1>5, <1>6, <1>10
       DEF Own, UnlinkPointed, Goes, Unlink, UsesPointer, GivingUp, Listening, Starting
<1>11. CASE LookAtSocket(s)
    BY <1>3, <1>4, <1>11 DEF Own, LookAtSocket, Goes, UsesPointer, GivingUp
<1>12. CASE UnlinkStale(s)
    BY <1>3, <1>4, <1>5, <1>6, <1>12
       DEF Own, UnlinkStale, Goes, Unlink, UsesPointer, GivingUp, Listening, Starting
<1>13. CASE Bind(s)
    BY <1>3, <1>4, <1>5, <1>6, <1>13, SocketAssumption
       DEF Own, Bind, Goes, UsesPointer, GivingUp, Listening, Starting
<1>14. CASE Listen(s)
    BY <1>3, <1>4, <1>14 DEF Own, Listen, Goes, UsesPointer, GivingUp
<1>15. CASE OpenPointer(s) \/ WritePointer(s)
    BY <1>3, <1>4, <1>5, <1>15
       DEF Own, OpenPointer, WritePointer, Goes, UsesPointer, GivingUp, Listening
<1>16. CASE GiveUp(s)
    BY <1>3, <1>16 DEF Own, GiveUp, GivingUp
<1>17. CASE Close(s)
    BY <1>3, <1>4, <1>5, <1>17
       DEF Own, Close, Goes, Unlink, UsesPointer, GivingUp, Listening
<1> QED
    BY <1>1, <1>7, <1>8, <1>9, <1>10, <1>11, <1>12, <1>13, <1>14, <1>15, <1>16, <1>17
       DEF ServerStep, Prepare

-----------------------------------------------------------------------------
(* The invariant, and what follows.                                        *)

\* The invariant holds at the start.
LEMMA InitInvariant == Init => IInv
<1> SUFFICES ASSUME Init PROVE IInv
    OBVIOUS
<1>1. TypeOK
    BY SocketAssumption DEF Init, TypeOK, Step, PointerStep, Path
<1>2. Calm
    BY DEF Init, Calm, OneInTheWay, OneTakesThePath, OwnFiles, NobodyFaster, InTheWay, Starting,
           GivingUp, Closing, Past, Listening
<1> QED
    BY <1>1, <1>2 DEF IInv

\* Who was crowded stays so.
LEMMA CrowdedStays == TypeOK /\ [Next]_sockVars /\ crowded => crowded'
<1>1. ASSUME NEW s \in Servers, Crowds(s), crowded PROVE crowded'
    BY <1>1, Zenon DEF Crowds
<1> QED
    BY <1>1
       DEF Next, ServerStep, Prepare, Start, ReadPointer, UnlinkPointer, UnlinkPointed,
           LookAtSocket, UnlinkStale, Bind, Listen, OpenPointer, WritePointer, GiveUp, Stop,
           Close, Die, sockVars

\* Every step keeps it.
LEMMA StepInvariant == IInv /\ [Next]_sockVars => IInv'
<1> SUFFICES ASSUME IInv, [Next]_sockVars PROVE IInv'
    OBVIOUS
<1>1. TypeOK /\ TypeOK'
    BY TypeStep DEF IInv
<1>2. CASE UNCHANGED sockVars
    BY <1>1, <1>2
       DEF IInv, sockVars, Calm, OneInTheWay, OneTakesThePath, OwnFiles, NobodyFaster, InTheWay,
           Starting, GivingUp, Closing, Past, Listening, UsesPointer
<1>3. CASE Next /\ ~crowded'
  <2>1. Calm
      BY <1>1, <1>3, CrowdedStays DEF IInv
  <2>2. Calm'
      BY <1>1, <1>3, <2>1, WayStep, TakeStep, FilesStep DEF Calm
  <2> QED
      BY <1>1, <2>2 DEF IInv
<1>4. CASE crowded'
    BY <1>1, <1>4 DEF IInv
<1> QED
    BY <1>2, <1>3, <1>4

\* Every variable of the socket protocol has its type (transport.py).
THEOREM SocketTypes == Spec => []TypeOK
<1>1. Init => TypeOK
    BY InitInvariant DEF IInv
<1> QED
    BY <1>1, TypeStep, PTL DEF Spec

\* For any number of servers and temporary directories: as long as starts and
\* stops do not meet, the server that serves is the one clients reach
\* (_listening_socket, resolve_socket_path).
THEOREM ServerReachable == Spec => []OneReachable
<1>1. IInv => OneReachable
    BY DEF IInv, Calm, OneReachable, OwnFiles, OneTakesThePath, Listening, Reaches, UsesPointer
<1> QED
    BY <1>1, InitInvariant, StepInvariant, PTL DEF Spec

\* A start is refused by a server that listens, or by a pointer file that was
\* left half written, and by nothing else (_unlink_stale_pointer,
\* _unlink_stale_socket).
THEOREM StaleFilesDoNotRefuse == Spec => RefusedOnlyByAnother
<1> DEFINE Reason(s) == \/ crowded \/ pointer = Partial
                        \/ \E t \in Servers \ {s} : Listening(t)
<1>1. ASSUME IInv, [Next]_sockVars, NEW s \in Servers, pc[s] # "refused", pc'[s] = "refused"
      PROVE  Reason(s)
  <2>1. SUFFICES ASSUME ~crowded PROVE Reason(s)
      OBVIOUS
  <2>2. TypeOK /\ ~GivingUp(s)
      BY <1>1, <2>1 DEF IInv, Calm, NobodyFaster
  <2>3. PICK r \in Servers : ServerStep(r)
      BY <1>1 DEF Next, sockVars
  <2>4. ReadPointer(s) \/ LookAtSocket(s)
      BY <1>1, <2>2, <2>3
         DEF TypeOK, GivingUp, Goes, ServerStep, Prepare, Start, ReadPointer, UnlinkPointer,
             UnlinkPointed, LookAtSocket, UnlinkStale, Bind, Listen, OpenPointer, WritePointer,
             GiveUp, Stop, Close, Die
  <2>5. CASE ReadPointer(s)
      BY <1>1, <2>2, <2>5, SocketAssumption
         DEF ReadPointer, Goes, TypeOK, Accepts, Listening, Path
  <2>6. CASE LookAtSocket(s)
      BY <1>1, <2>2, <2>6, SocketAssumption
         DEF LookAtSocket, Goes, TypeOK, Accepts, Listening, Path
  <2> QED
      BY <2>4, <2>5, <2>6
<1>2. IInv /\ [Next]_sockVars =>
        [\A s \in Servers : pc[s] # "refused" /\ pc'[s] = "refused" => Reason(s)]_sockVars
    BY <1>1
<1> QED
    BY <1>2, InitInvariant, StepInvariant, PTL DEF Spec, RefusedOnlyByAnother
=============================================================================
