----------------------------- MODULE RemoteProofs -----------------------------
(***************************************************************************)
(* The theorems about RemoteSync: what a push and a deletion know of the    *)
(* remote when they are done with it.                                      *)
(***************************************************************************)
EXTENDS RemoteSync, TLAPS

Push == {Idle}
        \cup [pc : {"answered", "refs"}, session : Sessions]
        \cup [pc : {"read"}, session : Sessions, raced : BOOLEAN, main : Main, branch : Branch]
        \cup [pc : {"main"}, session : Sessions, raced : BOOLEAN, main : Main, branch : Branch,
              oldMain : Main, oldBranch : Branch]
        \cup [pc : {"branch", "branchAndFail"}, session : Sessions, branch : Branch,
              oldBranch : Branch]
        \cup [pc : {"send"}, session : Sessions, backups : SUBSET (1 .. MaxDeletes)]

\* A push under way has what its steps need, and nothing that is not there locally.
PushShape ==
    /\ push \in [Pushers -> Push]
    /\ \A p \in Pushers : /\ Raced(p) => push[p].main <= local.main
                          /\ push[p].pc = "send" => push[p].backups \subseteq local.backups
    /\ del.pc # "off" => del.backup \in local.backups

\* A push that nobody overtook has read a main no older than the remote's.
InOrder == \A p \in Pushers : Raced(p) /\ ~push[p].raced => remote.main <= push[p].main

\* Nobody but the deletion has to do with its session, unless it says so.
Alone == del.pc # "off" /\ ~del.beside =>
            /\ local.branch[del.session] = Absent
            /\ ~Pushing(del.session)

\* What the deletion has not warned of has been done.
Done ==
    /\ del.pc \in {"list", "remove", "done"} /\ ~del.warned => del.backup \in remote.backups
    /\ del.pc = "done" /\ ~del.warned /\ ~del.beside => remote.branch[del.session] = Absent

TInv == TypeOK /\ PushShape

IInv == TInv /\ InOrder /\ Alone /\ Done

-----------------------------------------------------------------------------
(* What an update of one ref leaves of the others.                         *)

\* main,
LEMMA SetMain ==
    ASSUME NEW r \in Refs, NEW m \in Main
    PROVE  /\ [r EXCEPT !.main = m] \in Refs
           /\ [r EXCEPT !.main = m].main = m
           /\ [r EXCEPT !.main = m].branch = r.branch
           /\ [r EXCEPT !.main = m].backups = r.backups
BY DEF Refs

\* a branch,
LEMMA SetBranch ==
    ASSUME NEW r \in Refs, NEW s \in Sessions, NEW b \in Branch
    PROVE  /\ [r EXCEPT !.branch[s] = b] \in Refs
           /\ [r EXCEPT !.branch[s] = b].main = r.main
           /\ [r EXCEPT !.branch[s] = b].branch = [r.branch EXCEPT ![s] = b]
           /\ [r EXCEPT !.branch[s] = b].backups = r.backups
BY DEF Refs

\* the backups.
LEMMA SetBackups ==
    ASSUME NEW r \in Refs, NEW B \in SUBSET (1 .. MaxDeletes)
    PROVE  /\ [r EXCEPT !.backups = B] \in Refs
           /\ [r EXCEPT !.backups = B].main = r.main
           /\ [r EXCEPT !.backups = B].branch = r.branch
           /\ [r EXCEPT !.backups = B].backups = B
BY DEF Refs

-----------------------------------------------------------------------------
\* What a push under way holds, by what it does next.
LEMMA PushParts ==
    ASSUME TInv, NEW p \in Pushers
    PROVE  /\ push[p] \in Push
           /\ push[p].pc # "off" => push[p].session \in Sessions
           /\ Raced(p) => /\ push[p].raced \in BOOLEAN
                          /\ push[p].main \in Main /\ push[p].branch \in Branch
           /\ push[p].pc = "main" => push[p].oldMain \in Main /\ push[p].oldBranch \in Branch
           /\ push[p].pc \in {"branch", "branchAndFail"} =>
                 push[p].branch \in Branch /\ push[p].oldBranch \in Branch
           /\ push[p].pc = "send" => push[p].backups \in SUBSET (1 .. MaxDeletes)
BY DEF TInv, PushShape, Push, Idle, Raced

Deletion == [pc : {"backups", "list", "remove", "done"}, session : Sessions,
             backup : 1 .. MaxDeletes, warned : BOOLEAN, beside : BOOLEAN]

\* The deletion under way is one of a session, with a backup that exists locally.
LEMMA DeletionParts ==
    ASSUME TInv, del.pc # "off"
    PROVE  /\ del \in Deletion /\ del.session \in Sessions
           /\ del.backup \in 1 .. MaxDeletes /\ del.backup \in local.backups
BY DEF TInv, TypeOK, PushShape, Deletion, NoDeletion

\* The parts of a set of refs have their types.
LEMMA RefsParts ==
    ASSUME NEW r \in Refs
    PROVE  /\ r.main \in Main /\ r.branch \in [Sessions -> Branch]
           /\ r.backups \in SUBSET (1 .. MaxDeletes)
BY DEF Refs

\* A push keeps its shape, and the types, if its record has.
LEMMA PushKept ==
    ASSUME TInv, NEW p \in Pushers, NEW v \in Push,
           push' = [push EXCEPT ![p] = v],
           v.pc \in {"read", "main"} => v.main <= local.main,
           v.pc = "send" => v.backups \subseteq local.backups,
           UNCHANGED <<local, del>>,
           remote' \in Refs, remote'.main <= local.main, remote'.backups \subseteq local.backups
    PROVE  TInv'
BY DEF TInv, TypeOK, PushShape, Raced

\* Every step of a sync's push and of a deletion keeps the types.
LEMMA TypeStep == TInv /\ [Next]_remoteVars => TInv'
<1> SUFFICES ASSUME TInv, [Next]_remoteVars
             PROVE  TInv'
    OBVIOUS
<1> USE RemoteAssumption
<1>0. /\ local \in Refs /\ remote \in Refs /\ remote.main <= local.main
      /\ remote.backups \subseteq local.backups
    BY DEF TInv, TypeOK
<1>a. local.main \in Main /\ remote.main \in Main /\ Main \subseteq Branch /\ Main \subseteq Nat
    BY <1>0, RefsParts DEF Main, Branch
<1>b. \A s \in Sessions : local.branch[s] \in Branch /\ remote.branch[s] \in Branch
    BY <1>0, RefsParts
<1>d. local.main \in Nat /\ remote.main \in Nat
    BY <1>a
<1>c. Idle \in Push /\ Idle.pc = "off"
    BY DEF Push, Idle
<1>1. ASSUME NEW p \in Pushers, NEW s \in Sessions, Sync(p, s) PROVE TInv'
    <2> DEFINE v == [pc |-> "answered", session |-> s]
               r(m) == [local EXCEPT !.main = m]
    <2>1. PICK m \in {local.main, local.main + 1} \cap Main :
                 local' = [r(m) EXCEPT !.branch[s] = m]
        BY <1>1 DEF Sync
    <2>2. m \in Main /\ m \in Branch /\ (m = local.main \/ m = local.main + 1)
        BY <2>1, <1>a
    <2>3. /\ r(m) \in Refs /\ r(m).main = m /\ r(m).backups = local.backups
          /\ local' = [r(m) EXCEPT !.branch[s] = m]
        BY <2>1, <2>2, <1>0, SetMain
    <2> HIDE DEF r
    <2>10. /\ local' \in Refs /\ local'.main = m /\ local'.backups = local.backups
        BY <2>2, <2>3, SetBranch
    <2>4. local'.main >= local.main
        BY <2>2, <2>10, <1>d
    <2>5. v \in Push /\ ~(v.pc \in {"read", "main", "send"})
        BY DEF Push
    <2>6. push' = [push EXCEPT ![p] = v] /\ UNCHANGED <<remote, del>>
        BY <1>1 DEF Sync
    <2>7. TypeOK'
        BY <2>10, <2>4, <2>6, <1>0, <1>a DEF TInv, TypeOK, Main
    <2>8. \A q \in Pushers : Raced(q)' => Raced(q) /\ push'[q] = push[q]
        BY <2>5, <2>6 DEF TInv, PushShape, Raced
    <2>9. \A q \in Pushers : Raced(q) => push[q].main \in Main
        BY PushParts
    <2> QED
        BY <2>10, <2>4, <2>5, <2>6, <2>7, <2>8, <2>9, <1>a DEF TInv, PushShape, Main
<1>2. ASSUME NEW p \in Pushers, ReadLocal(p) PROVE TInv'
    <2> DEFINE v == [pc |-> "read", session |-> push[p].session, raced |-> FALSE,
                     main |-> local.main, branch |-> local.branch[push[p].session]]
    <2>1. push[p].session \in Sessions
        BY <1>2, PushParts DEF ReadLocal
    <2>2. v \in Push
        BY <2>1, <1>a, <1>b DEF Push
    <2>3. v.main <= local.main /\ v.pc = "read"
        BY <1>d
    <2>4. UNCHANGED <<local, remote, del>>
        BY <1>2 DEF ReadLocal
    <2>5. push' = [push EXCEPT ![p] = Idle] \/ push' = [push EXCEPT ![p] = v]
        BY <1>2 DEF ReadLocal, Ends
    <2> HIDE DEF v
    <2> QED
        BY <2>2, <2>3, <2>4, <2>5, <1>0, <1>c, PushKept
<1>3. ASSUME NEW p \in Pushers, Connect(p) PROVE TInv'
    <2> DEFINE v == [pc |-> "main", session |-> push[p].session, raced |-> push[p].raced,
                     main |-> push[p].main, branch |-> push[p].branch,
                     oldMain |-> remote.main, oldBranch |-> remote.branch[push[p].session]]
    <2>1. Raced(p) /\ push[p].session \in Sessions
        BY <1>3, PushParts DEF Connect, Raced
    <2>2. v \in Push
        BY <2>1, <1>a, <1>b, PushParts DEF Push
    <2>3. v.main <= local.main /\ v.pc = "main"
        BY <2>1 DEF TInv, PushShape
    <2>4. push' = [push EXCEPT ![p] = v] /\ UNCHANGED <<local, remote, del>>
        BY <1>3 DEF Connect, TInv, PushShape
    <2> HIDE DEF v
    <2> QED
        BY <2>2, <2>3, <2>4, <1>0, PushKept
<1>4. ASSUME NEW p \in Pushers, UpdateMain(p) PROVE TInv'
    <2> DEFINE current == push[p].main = push[p].oldMain
               moves == ~current /\ remote.main = push[p].oldMain
               v == [pc |-> IF current \/ moves THEN "branch" ELSE "branchAndFail",
                     session |-> push[p].session, branch |-> push[p].branch,
                     oldBranch |-> push[p].oldBranch]
    <2>1. /\ Raced(p) /\ push[p].session \in Sessions /\ push[p].main \in Main
          /\ push[p].main <= local.main
        BY <1>4, PushParts DEF UpdateMain, Raced, TInv, PushShape
    <2>2. v \in Push /\ v.pc \in {"branch", "branchAndFail"}
        BY <1>4, <2>1, PushParts DEF UpdateMain, Push
    <2>3. remote' = [remote EXCEPT !.main = push[p].main] \/ remote' = remote
        BY <1>4 DEF UpdateMain
    <2>4. /\ remote' \in Refs /\ remote'.main <= local.main
          /\ remote'.backups \subseteq local.backups
        <3>1. /\ [remote EXCEPT !.main = push[p].main] \in Refs
              /\ [remote EXCEPT !.main = push[p].main].main = push[p].main
              /\ [remote EXCEPT !.main = push[p].main].backups = remote.backups
            BY <2>1, <1>0, SetMain
        <3> QED
            BY <2>1, <2>3, <3>1, <1>0
    <2>5. ASSUME NEW q \in Pushers
          PROVE  \/ q = p /\ push'[q] = v
                 \/ Raced(q) /\ push'[q] = [push[q] EXCEPT !.raced = TRUE]
                 \/ push'[q] = push[q]
        BY <1>4 DEF UpdateMain
    <2>6. ASSUME NEW q \in Pushers, Raced(q)
          PROVE  /\ [push[q] EXCEPT !.raced = TRUE] \in Push
                 /\ [push[q] EXCEPT !.raced = TRUE].main = push[q].main
                 /\ [push[q] EXCEPT !.raced = TRUE].pc = push[q].pc
        BY <2>6, PushParts DEF Push, Idle, Raced
    <2>7. UNCHANGED <<local, del>> /\ DOMAIN push' = Pushers
        BY <1>4 DEF UpdateMain
    <2>8. push' \in [Pushers -> Push]
        <3>1. push' = [q \in Pushers |-> push'[q]]
            BY <1>4 DEF UpdateMain
        <3> QED
            BY <3>1, <2>2, <2>5, <2>6 DEF TInv, PushShape
    <2>9. \A q \in Pushers : /\ Raced(q)' => Raced(q) /\ push'[q].main = push[q].main
                             /\ push'[q].pc = "send" => push'[q] = push[q]
        BY <2>2, <2>5, <2>6 DEF Raced
    <2> QED
        BY <2>4, <2>7, <2>8, <2>9 DEF TInv, TypeOK, PushShape
<1>5. ASSUME NEW p \in Pushers, UpdateBranch(p) PROVE TInv'
    <2> DEFINE v == [pc |-> "refs", session |-> push[p].session]
    <2>1. push[p].session \in Sessions /\ push[p].branch \in Branch
        BY <1>5, PushParts DEF UpdateBranch
    <2>2. v \in Push /\ v.pc = "refs"
        BY <2>1 DEF Push
    <2>3. \/ remote' = [remote EXCEPT !.branch[push[p].session] = push[p].branch]
          \/ remote' = remote
        BY <1>5 DEF UpdateBranch
    <2>4. /\ remote' \in Refs /\ remote'.main <= local.main
          /\ remote'.backups \subseteq local.backups
        <3> DEFINE r == [remote EXCEPT !.branch[push[p].session] = push[p].branch]
        <3>1. r \in Refs /\ r.main = remote.main /\ r.backups = remote.backups
            BY <2>1, <1>0, SetBranch
        <3> QED
            BY <2>3, <3>1, <1>0
    <2>5. /\ push' = [push EXCEPT ![p] = v] \/ push' = [push EXCEPT ![p] = Idle]
          /\ UNCHANGED <<local, del>>
        BY <1>5 DEF UpdateBranch, Ends
    <2> HIDE DEF v
    <2> QED
        BY <2>2, <2>4, <2>5, <1>c, PushKept
<1>6. ASSUME NEW p \in Pushers, ReadRefs(p) PROVE TInv'
    <2> DEFINE v == [pc |-> "send", session |-> push[p].session, backups |-> local.backups]
    <2>1. push[p].session \in Sessions
        BY <1>6, PushParts DEF ReadRefs
    <2>2. v \in Push /\ v.pc = "send" /\ v.backups = local.backups
        BY <2>1, <1>0, RefsParts DEF Push
    <2>3. push' = [push EXCEPT ![p] = v] /\ UNCHANGED <<local, remote, del>>
        BY <1>6 DEF ReadRefs, TInv, PushShape
    <2> HIDE DEF v
    <2> QED
        BY <2>2, <2>3, <1>0, PushKept
<1>7. ASSUME NEW p \in Pushers, SyncSucceeds(p) PROVE TInv'
    <2>1. push[p].backups \subseteq local.backups
        BY <1>7 DEF SyncSucceeds, TInv, PushShape
    <2>2. remote.backups \cup push[p].backups \in SUBSET (1 .. MaxDeletes)
        BY <2>1, <1>0, RefsParts
    <2>3. remote' = [remote EXCEPT !.backups = remote.backups \cup push[p].backups]
        BY <1>7 DEF SyncSucceeds
    <2>4. /\ remote' \in Refs /\ remote'.main <= local.main
          /\ remote'.backups \subseteq local.backups
        BY <2>1, <2>2, <2>3, <1>0, SetBackups
    <2>5. push' = [push EXCEPT ![p] = Idle] /\ UNCHANGED <<local, del>>
        BY <1>7 DEF SyncSucceeds, Ends
    <2> QED
        BY <2>4, <2>5, <1>c, PushKept
<1>8. ASSUME NEW p \in Pushers, PushFails(p) PROVE TInv'
    <2>1. push' = [push EXCEPT ![p] = Idle] /\ UNCHANGED <<local, remote, del>>
        BY <1>8 DEF PushFails, Ends
    <2> QED
        BY <2>1, <1>0, <1>c, PushKept
<1>9. ASSUME NEW s \in Sessions, DeletedLocally(s) PROVE TInv'
    <2>1. PICK d \in (1 .. MaxDeletes) \ local.backups :
             /\ local' = [[local EXCEPT !.branch[s] = Absent]
                              EXCEPT !.backups = local.backups \cup {d}]
             /\ del' = [pc |-> "backups", session |-> s, backup |-> d, warned |-> FALSE,
                        beside |-> Pushing(s)]
        BY <1>9 DEF DeletedLocally
    <2>2. Absent \in Branch /\ local.backups \cup {d} \in SUBSET (1 .. MaxDeletes)
        BY <1>0, RefsParts DEF Branch
    <2>3. /\ [local EXCEPT !.branch[s] = Absent] \in Refs
          /\ [local EXCEPT !.branch[s] = Absent].main = local.main
        BY <2>2, <1>0, SetBranch
    <2>4. local' \in Refs /\ local'.main = local.main /\ local'.backups = local.backups \cup {d}
        BY <2>1, <2>2, <2>3, SetBackups
    <2>5. Pushing(s) \in BOOLEAN
        BY DEF Pushing
    <2>6. del' \in Deletion /\ del'.backup = d
        BY <2>1, <2>5 DEF Deletion
    <2>7. UNCHANGED <<remote, push>>
        BY <1>9 DEF DeletedLocally
    <2> QED
        BY <2>4, <2>6, <2>7, <1>0 DEF TInv, TypeOK, PushShape, Raced, Deletion
<1>10. ASSUME NEW s \in Sessions, Rejoin(s) PROVE TInv'
    <2>1. local' \in Refs /\ local'.main = local.main /\ local'.backups = local.backups
        BY <1>10, <1>0, <1>a, SetBranch DEF Rejoin
    <2>2. del' = del \/ (del.pc # "off" /\ del' = [del EXCEPT !.beside = TRUE])
        BY <1>10 DEF Rejoin
    <2>3. del.pc # "off" => /\ [del EXCEPT !.beside = TRUE] \in Deletion
                            /\ [del EXCEPT !.beside = TRUE].backup = del.backup
        BY DeletionParts DEF Deletion
    <2>4. UNCHANGED <<remote, push>>
        BY <1>10 DEF Rejoin
    <2> QED
        BY <2>1, <2>2, <2>3, <2>4, DeletionParts
           DEF TInv, TypeOK, PushShape, Raced, Deletion
<1>11. ASSUME PushBackups PROVE TInv'
    <2>1. del.pc # "off"
        BY <1>11 DEF PushBackups
    <2>2. remote.backups \cup {del.backup} \in SUBSET (1 .. MaxDeletes)
        BY <2>1, <1>0, RefsParts, DeletionParts
    <2>3. remote' \in Refs /\ remote'.main = remote.main
          /\ remote'.backups \subseteq local.backups
        <3> DEFINE r == [remote EXCEPT !.backups = remote.backups \cup {del.backup}]
        <3>1. /\ r \in Refs /\ r.main = remote.main
              /\ r.backups = remote.backups \cup {del.backup}
            BY <2>2, <1>0, SetBackups
        <3>2. remote' = r \/ remote' = remote
            BY <1>11 DEF PushBackups
        <3> HIDE DEF r
        <3> QED
            BY <2>1, <3>1, <3>2, <1>0, DeletionParts
    <2>4. del' \in Deletion /\ del'.backup = del.backup
        BY <1>11, <2>1, DeletionParts DEF PushBackups, Deletion
    <2>5. UNCHANGED <<local, push>>
        BY <1>11 DEF PushBackups
    <2> QED
        BY <2>1, <2>3, <2>4, <2>5, <1>0, DeletionParts
           DEF TInv, TypeOK, PushShape, Raced, Deletion
<1>12. ASSUME ListRemote PROVE TInv'
    <2>1. del.pc # "off"
        BY <1>12 DEF ListRemote
    <2>2. del' \in Deletion /\ del'.backup = del.backup
        BY <1>12, <2>1, DeletionParts DEF ListRemote, Deletion
    <2>3. UNCHANGED <<local, remote, push>>
        BY <1>12 DEF ListRemote
    <2> QED
        BY <2>1, <2>2, <2>3, <1>0, DeletionParts DEF TInv, TypeOK, PushShape, Raced, Deletion
<1>13. ASSUME RemoveBranch PROVE TInv'
    <2>1. del.pc # "off" /\ Absent \in Branch
        BY <1>13 DEF RemoveBranch, Branch
    <2>2. /\ remote' \in Refs /\ remote'.main = remote.main
          /\ remote'.backups = remote.backups
        <3> DEFINE r == [remote EXCEPT !.branch[del.session] = Absent]
        <3>1. r \in Refs /\ r.main = remote.main /\ r.backups = remote.backups
            BY <2>1, <1>0, SetBranch, DeletionParts
        <3>2. remote' = r \/ remote' = remote
            BY <1>13 DEF RemoveBranch
        <3> HIDE DEF r
        <3> QED
            BY <3>1, <3>2, <1>0
    <2>3. del' \in Deletion /\ del'.backup = del.backup
        BY <1>13, <2>1, DeletionParts DEF RemoveBranch, Deletion
    <2>4. UNCHANGED <<local, push>>
        BY <1>13 DEF RemoveBranch
    <2> QED
        BY <2>1, <2>2, <2>3, <2>4, <1>0, DeletionParts
           DEF TInv, TypeOK, PushShape, Raced, Deletion
<1>14. ASSUME DeleteEnds PROVE TInv'
    BY <1>14 DEF DeleteEnds, NoDeletion, TInv, TypeOK, PushShape, Raced
<1>15. ASSUME UNCHANGED remoteVars PROVE TInv'
    BY <1>15 DEF remoteVars, TInv, TypeOK, PushShape, Raced
<1> QED
    BY <1>1, <1>2, <1>3, <1>4, <1>5, <1>6, <1>7, <1>8, <1>9, <1>10, <1>11, <1>12, <1>13, <1>14,
       <1>15 DEF Next, DeleteStep, SyncStep

-----------------------------------------------------------------------------
(* The remote's main.                                                      *)

\* A push that moves on to the record v leaves the others in order.
LEMMA OrderKept ==
    ASSUME TInv, InOrder, NEW p \in Pushers, NEW v, push' = [push EXCEPT ![p] = v],
           v.pc \in {"read", "main"} /\ ~v.raced => remote.main <= v.main,
           remote'.main = remote.main
    PROVE  InOrder'
BY DEF TInv, PushShape, InOrder, Raced

\* Every step keeps the order of what pushes have read.
LEMMA OrderStep == TInv /\ InOrder /\ [Next]_remoteVars => InOrder'
<1> SUFFICES ASSUME TInv, InOrder, [Next]_remoteVars
             PROVE  InOrder'
    OBVIOUS
<1>0. /\ remote \in Refs /\ remote.main <= local.main
      /\ push \in [Pushers -> Push]
    BY DEF TInv, TypeOK, PushShape
<1>c. Idle.pc = "off"
    BY DEF Idle
<1>1. ASSUME NEW p \in Pushers, NEW s \in Sessions, Sync(p, s) PROVE InOrder'
    <2> DEFINE v == [pc |-> "answered", session |-> s]
    <2>1. push' = [push EXCEPT ![p] = v] /\ remote' = remote /\ v.pc = "answered"
        BY <1>1 DEF Sync
    <2> HIDE DEF v
    <2> QED
        BY <2>1, OrderKept
<1>2. ASSUME NEW p \in Pushers, ReadLocal(p) PROVE InOrder'
    <2> DEFINE v == [pc |-> "read", session |-> push[p].session, raced |-> FALSE,
                     main |-> local.main, branch |-> local.branch[push[p].session]]
    <2>1. push' = [push EXCEPT ![p] = Idle] \/ push' = [push EXCEPT ![p] = v]
        BY <1>2 DEF ReadLocal, Ends
    <2>2. remote' = remote /\ remote.main <= v.main
        BY <1>2, <1>0 DEF ReadLocal
    <2> HIDE DEF v
    <2> QED
        BY <2>1, <2>2, <1>c, OrderKept
<1>3. ASSUME NEW p \in Pushers, Connect(p) PROVE InOrder'
    <2> DEFINE v == [pc |-> "main", session |-> push[p].session, raced |-> push[p].raced,
                     main |-> push[p].main, branch |-> push[p].branch,
                     oldMain |-> remote.main, oldBranch |-> remote.branch[push[p].session]]
    <2>1. push' = [push EXCEPT ![p] = v] /\ remote' = remote
        BY <1>3, <1>0 DEF Connect
    <2>2. ~v.raced => remote.main <= v.main
        BY <1>3 DEF Connect, InOrder, Raced
    <2> HIDE DEF v
    <2> QED
        BY <2>1, <2>2, OrderKept
<1>4. ASSUME NEW p \in Pushers, UpdateMain(p) PROVE InOrder'
    <2> SUFFICES ASSUME NEW q \in Pushers, Raced(q)', ~push'[q].raced
                 PROVE  remote'.main <= push'[q].main
        BY DEF InOrder
    <2> DEFINE moves == push[p].main # push[p].oldMain /\ remote.main = push[p].oldMain
    <2>1. q # p
        BY <1>4 DEF UpdateMain, Raced
    <2>2. push'[q] = IF moves /\ Raced(q) THEN [push[q] EXCEPT !.raced = TRUE] ELSE push[q]
        BY <1>4, <2>1 DEF UpdateMain
    <2>3. Raced(q) => [push[q] EXCEPT !.raced = TRUE].raced = TRUE
        BY <1>0 DEF Raced, Push, Idle
    <2>4. ~moves /\ push'[q] = push[q] /\ Raced(q)
        BY <2>2, <2>3 DEF Raced
    <2>5. remote' = remote
        BY <1>4, <2>4 DEF UpdateMain
    <2> QED
        BY <2>4, <2>5 DEF InOrder
<1>5. ASSUME NEW p \in Pushers, UpdateBranch(p) PROVE InOrder'
    <2> DEFINE v == [pc |-> "refs", session |-> push[p].session]
               r == [remote EXCEPT !.branch[push[p].session] = push[p].branch]
    <2>1. /\ push' = [push EXCEPT ![p] = v] \/ push' = [push EXCEPT ![p] = Idle]
          /\ remote' = r \/ remote' = remote
          /\ v.pc = "refs"
        BY <1>5 DEF UpdateBranch, Ends
    <2>2. r.main = remote.main
        BY <1>5, <1>0, SetBranch, PushParts DEF UpdateBranch
    <2> HIDE DEF v, r
    <2> QED
        BY <2>1, <2>2, <1>c, OrderKept
<1>6. ASSUME NEW p \in Pushers, ReadRefs(p) PROVE InOrder'
    <2> DEFINE v == [pc |-> "send", session |-> push[p].session, backups |-> local.backups]
    <2>1. push' = [push EXCEPT ![p] = v] /\ remote' = remote /\ v.pc = "send"
        BY <1>6, <1>0 DEF ReadRefs
    <2> HIDE DEF v
    <2> QED
        BY <2>1, OrderKept
<1>7. ASSUME NEW p \in Pushers, SyncSucceeds(p) \/ PushFails(p) PROVE InOrder'
    <2>1. push' = [push EXCEPT ![p] = Idle]
        BY <1>7 DEF SyncSucceeds, PushFails, Ends
    <2>2. remote'.main = remote.main
        BY <1>7, <1>0 DEF SyncSucceeds, PushFails, Refs
    <2> QED
        BY <2>1, <2>2, <1>c, OrderKept
<1>8. ASSUME NEW s \in Sessions, DeletedLocally(s) \/ Rejoin(s) PROVE InOrder'
    BY <1>8 DEF DeletedLocally, Rejoin, InOrder, Raced
<1>9. ASSUME PushBackups \/ ListRemote \/ RemoveBranch \/ DeleteEnds PROVE InOrder'
    <2>1. push' = push
        BY <1>9 DEF PushBackups, ListRemote, RemoveBranch, DeleteEnds
    <2>2. remote'.main = remote.main
        BY <1>9, <1>0 DEF PushBackups, ListRemote, RemoveBranch, DeleteEnds, Refs
    <2> QED
        BY <2>1, <2>2 DEF InOrder, Raced
<1>10. ASSUME UNCHANGED remoteVars PROVE InOrder'
    BY <1>10 DEF remoteVars, InOrder, Raced
<1> QED
    BY <1>1, <1>2, <1>3, <1>4, <1>5, <1>6, <1>7, <1>8, <1>9, <1>10
       DEF Next, DeleteStep, SyncStep

-----------------------------------------------------------------------------
(* The deletion.                                                           *)

\* After a step of a push other than its first, only what was under way is.
PushesEnd ==
    \A q \in Pushers :
       push'[q] # Idle => push[q] # Idle /\ push'[q].session = push[q].session

\* The steps of a push other than its first end it or go on with it.
LEMMA OnlyEnds ==
    ASSUME TInv, NEW p \in Pushers,
           \/ ReadLocal(p) \/ Connect(p) \/ UpdateMain(p) \/ UpdateBranch(p)
           \/ ReadRefs(p) \/ SyncSucceeds(p) \/ PushFails(p)
    PROVE  PushesEnd /\ UNCHANGED <<local, del>>
<1>0. push \in [Pushers -> Push]
    BY DEF TInv, PushShape
<1>1. ASSUME NEW v, push' = [push EXCEPT ![p] = v], push[p].pc # "off",
             v = Idle \/ v.session = push[p].session
      PROVE  PushesEnd
    BY <1>0, <1>1 DEF PushesEnd, Idle
<1>2. CASE ReadLocal(p)
    BY <1>1, <1>2 DEF ReadLocal, Ends
<1>3. CASE Connect(p)
    BY <1>0, <1>1, <1>3 DEF Connect
<1>4. CASE UpdateMain(p)
    <2> SUFFICES ASSUME NEW q \in Pushers, push'[q] # Idle
                 PROVE  push[q] # Idle /\ push'[q].session = push[q].session
        BY <1>4 DEF PushesEnd, UpdateMain
    <2>1. CASE q = p
        BY <1>4, <2>1 DEF UpdateMain, Idle
    <2>2. CASE q # p /\ push'[q] = push[q]
        BY <2>2
    <2>3. CASE q # p /\ Raced(q) /\ push'[q] = [push[q] EXCEPT !.raced = TRUE]
        BY <1>0, <2>3 DEF Raced, Push, Idle
    <2> QED
        BY <1>4, <2>1, <2>2, <2>3 DEF UpdateMain
<1>5. CASE UpdateBranch(p)
    BY <1>1, <1>5 DEF UpdateBranch, Ends
<1>6. CASE ReadRefs(p)
    BY <1>0, <1>1, <1>6 DEF ReadRefs
<1>7. CASE SyncSucceeds(p) \/ PushFails(p)
    BY <1>1, <1>7 DEF SyncSucceeds, PushFails, Ends
<1> QED
    BY <1>2, <1>3, <1>4, <1>5, <1>6, <1>7

\* Every step leaves the session of the deletion alone.
LEMMA AloneStep == TInv /\ Alone /\ [Next]_remoteVars => Alone'
<1> SUFFICES ASSUME TInv, Alone, [Next]_remoteVars
             PROVE  Alone'
    OBVIOUS
<1>0. /\ local \in Refs /\ local.branch \in [Sessions -> Branch]
      /\ local.main \in Main /\ Main \subseteq Branch
      /\ push \in [Pushers -> Push]
    BY RefsParts DEF TInv, TypeOK, PushShape, Branch
<1>1. ASSUME NEW p \in Pushers, NEW s \in Sessions, Sync(p, s) PROVE Alone'
    <2>1. del' = del /\ local.branch[s] # Absent
        BY <1>1 DEF Sync
    <2> SUFFICES ASSUME del.pc # "off", ~del.beside
                 PROVE  local'.branch[del.session] = Absent /\ ~Pushing(del.session)'
        BY <2>1 DEF Alone
    <2>2. del.session # s /\ local.branch[del.session] = Absent /\ ~Pushing(del.session)
        BY <2>1 DEF Alone
    <2>3. local'.branch[del.session] = local.branch[del.session]
        BY <1>1, <1>0, <2>2, DeletionParts, <2>1 DEF Sync, Refs
    <2>4. push' = [push EXCEPT ![p] = [pc |-> "answered", session |-> s]]
        BY <1>1 DEF Sync
    <2>5. ~Pushing(del.session)'
        BY <1>0, <2>1, <2>2, <2>4 DEF Pushing
    <2> QED
        BY <2>1, <2>2, <2>3, <2>5
<1>2. ASSUME NEW p \in Pushers,
             \/ ReadLocal(p) \/ Connect(p) \/ UpdateMain(p) \/ UpdateBranch(p)
             \/ ReadRefs(p) \/ SyncSucceeds(p) \/ PushFails(p) PROVE Alone'
    <2>1. PushesEnd /\ UNCHANGED <<local, del>>
        BY <1>2, OnlyEnds
    <2> QED
        BY <2>1 DEF PushesEnd, Alone, Pushing
<1>3. ASSUME NEW s \in Sessions, DeletedLocally(s) PROVE Alone'
    <2>1. PICK d \in (1 .. MaxDeletes) \ local.backups :
             /\ local' = [[local EXCEPT !.branch[s] = Absent]
                              EXCEPT !.backups = local.backups \cup {d}]
             /\ del' = [pc |-> "backups", session |-> s, backup |-> d, warned |-> FALSE,
                        beside |-> Pushing(s)]
        BY <1>3 DEF DeletedLocally
    <2>2. del'.session = s /\ del'.beside = Pushing(s) /\ push' = push
        BY <1>3, <2>1 DEF DeletedLocally
    <2>3. local'.branch[s] = Absent
        BY <1>0, <2>1 DEF Refs
    <2> QED
        BY <2>2, <2>3 DEF Alone, Pushing
<1>4. ASSUME NEW s \in Sessions, Rejoin(s) PROVE Alone'
    <2> SUFFICES ASSUME del'.pc # "off", ~del'.beside
                 PROVE  Alone'
        BY DEF Alone
    <2>1. del' = del /\ del.session # s
        BY <1>4, DeletionParts DEF Rejoin, Deletion
    <2>2. local'.branch[del.session] = local.branch[del.session] /\ push' = push
        BY <1>0, <1>4, <2>1, DeletionParts DEF Rejoin, Refs
    <2> QED
        BY <2>1, <2>2 DEF Alone, Pushing
<1>5. ASSUME PushBackups \/ ListRemote \/ RemoveBranch PROVE Alone'
    <2>1. /\ UNCHANGED <<local, push>>
          /\ del.pc # "off"
        BY <1>5 DEF PushBackups, ListRemote, RemoveBranch
    <2>2. del'.session = del.session /\ del'.beside = del.beside
        BY <1>5, <2>1, DeletionParts DEF PushBackups, ListRemote, RemoveBranch, Deletion
    <2> QED
        BY <2>1, <2>2 DEF Alone, Pushing
<1>6. ASSUME DeleteEnds PROVE Alone'
    BY <1>6 DEF DeleteEnds, NoDeletion, Alone
<1>7. ASSUME UNCHANGED remoteVars PROVE Alone'
    BY <1>7 DEF remoteVars, Alone, Pushing
<1> QED
    BY <1>1, <1>2, <1>3, <1>4, <1>5, <1>6, <1>7 DEF Next, DeleteStep, SyncStep

\* Every step keeps what the deletion has done, or warns of it.
LEMMA DoneStep == TInv /\ Alone /\ Done /\ [Next]_remoteVars => Done'
<1> SUFFICES ASSUME TInv, Alone, Done, [Next]_remoteVars
             PROVE  Done'
    OBVIOUS
<1>0. remote \in Refs /\ remote.branch \in [Sessions -> Branch] /\ push \in [Pushers -> Push]
    BY RefsParts DEF TInv, TypeOK, PushShape
<1>1. ASSUME UNCHANGED del, remote.backups \subseteq remote'.backups,
             del.pc = "done" /\ ~del.beside =>
                 remote'.branch[del.session] = remote.branch[del.session]
      PROVE  Done'
    BY <1>1 DEF Done
<1>2. ASSUME NEW p \in Pushers, SyncStep(p), ~UpdateBranch(p) PROVE Done'
    <2>1. del' = del
        BY <1>2, OnlyEnds DEF SyncStep, Sync
    <2>2. remote.backups \subseteq remote'.backups /\ remote'.branch = remote.branch
        BY <1>2, <1>0 DEF SyncStep, Sync, ReadLocal, Connect, UpdateMain, ReadRefs,
                          SyncSucceeds, PushFails, Refs
    <2> QED
        BY <1>1, <2>1, <2>2
<1>3. ASSUME NEW p \in Pushers, UpdateBranch(p) PROVE Done'
    <2>1. push[p] # Idle /\ push[p].session \in Sessions
        BY <1>3, PushParts DEF UpdateBranch, Idle
    <2>2. del.pc = "done" /\ ~del.beside => push[p].session # del.session
        BY <2>1 DEF Alone, Pushing
    <2> DEFINE r == [remote EXCEPT !.branch[push[p].session] = push[p].branch]
    <2>3. (remote' = r \/ remote' = remote) /\ del' = del
        BY <1>3 DEF UpdateBranch
    <2>4. /\ r.backups = remote.backups
          /\ r.branch = [remote.branch EXCEPT ![push[p].session] = push[p].branch]
        BY <1>0, <1>3, <2>1, SetBranch, PushParts DEF UpdateBranch
    <2>5. del.pc = "done" => del.session \in Sessions
        BY DeletionParts
    <2> HIDE DEF r
    <2>6. del.pc = "done" /\ ~del.beside =>
             remote'.branch[del.session] = remote.branch[del.session]
        BY <1>0, <2>2, <2>3, <2>4, <2>5
    <2> QED
        BY <1>1, <2>3, <2>4, <2>6
<1>4. ASSUME NEW s \in Sessions, DeletedLocally(s) PROVE Done'
    BY <1>4 DEF DeletedLocally, Done
<1>5. ASSUME NEW s \in Sessions, Rejoin(s) PROVE Done'
    <2>1. /\ remote' = remote
          /\ del' = del \/ (del.pc # "off" /\ del' = [del EXCEPT !.beside = TRUE])
        BY <1>5 DEF Rejoin
    <2> QED
        BY <2>1, DeletionParts DEF Done, Deletion
<1>6. ASSUME PushBackups PROVE Done'
    <2>1. del.pc = "backups" /\ del \in Deletion
        BY <1>6, DeletionParts DEF PushBackups
    <2>2. del'.pc = "list" /\ del'.backup = del.backup
        BY <1>6, <2>1 DEF PushBackups, Deletion
    <2>3. ~del'.warned => del.backup \in remote'.backups
        <3> DEFINE r == [remote EXCEPT !.backups = remote.backups \cup {del.backup}]
        <3>1. r.backups = remote.backups \cup {del.backup}
            BY <1>0, <2>1 DEF Refs
        <3>2. remote' = r \/ del' = [del EXCEPT !.pc = "list", !.warned = TRUE]
            BY <1>6 DEF PushBackups
        <3> HIDE DEF r
        <3> QED
            BY <2>1, <3>1, <3>2 DEF Deletion
    <2> QED
        BY <2>2, <2>3 DEF Done
<1>7. ASSUME ListRemote PROVE Done'
    BY <1>7, DeletionParts DEF ListRemote, Done, Deletion
<1>8. ASSUME RemoveBranch PROVE Done'
    <2>1. del.pc = "remove" /\ del \in Deletion /\ del.session \in Sessions
        BY <1>8, DeletionParts DEF RemoveBranch
    <2> DEFINE r == [remote EXCEPT !.branch[del.session] = Absent]
    <2>2. /\ r.backups = remote.backups
          /\ r.branch = [remote.branch EXCEPT ![del.session] = Absent]
        BY <1>0, <2>1, SetBranch DEF Branch
    <2>3. r.branch[del.session] = Absent
        BY <1>0, <2>1, <2>2
    <2>4. /\ del'.backup = del.backup /\ del'.session = del.session
          /\ ~del'.warned => ~del.warned /\ remote' = r
          /\ remote' = r \/ remote' = remote
        BY <1>8, <2>1 DEF RemoveBranch, Deletion
    <2> HIDE DEF r
    <2> QED
        BY <2>1, <2>2, <2>3, <2>4 DEF Done
<1>9. CASE DeleteEnds
    BY <1>9 DEF DeleteEnds, NoDeletion, Done
<1>10. CASE UNCHANGED remoteVars
    BY <1>10 DEF remoteVars, Done
<1> QED
    BY <1>2, <1>3, <1>4, <1>5, <1>6, <1>7, <1>8, <1>9, <1>10 DEF Next, DeleteStep, SyncStep

-----------------------------------------------------------------------------
(* The theorems.                                                           *)

\* The invariant holds at the start.
LEMMA Initially == Init => IInv
<1> SUFFICES ASSUME Init PROVE IInv
    OBVIOUS
<1>1. TypeOK
    BY RemoteAssumption DEF Init, TypeOK, Refs, Main, Branch, NoDeletion
<1>2. PushShape
    BY DEF Init, PushShape, Push, Idle, NoDeletion, Raced
<1>3. InOrder /\ Alone /\ Done
    BY DEF Init, InOrder, Alone, Done, Raced, Idle, NoDeletion
<1> QED
    BY <1>1, <1>2, <1>3 DEF IInv, TInv

\* It is inductive.
LEMMA Always == Spec => []IInv
<1>1. IInv /\ [Next]_remoteVars => IInv'
    BY TypeStep, OrderStep, AloneStep, DoneStep DEF IInv
<1> QED
    BY <1>1, Initially, PTL DEF Spec

\* The refs of the repository and of its remote keep their types, and the remote has
\* nothing that was not there locally: force_push_session_refs,
\* try_sync_deleted_session_refs.
THEOREM RemoteTypes == Spec => []TypeOK
<1>1. IInv => TypeOK
    BY DEF IInv, TInv
<1> QED
    BY <1>1, Always, PTL

\* A deletion that warns of nothing has left its backup at the remote, and no
\* branch, unless the session was synced or joined beside it.
THEOREM DeletionCleansUp == Spec => []CleanedUp
<1>1. IInv => CleanedUp
    BY DEF IInv, Done, CleanedUp
<1> QED
    BY <1>1, Always, PTL

\* The remote's main goes back only by a push that another one overtook between
\* its read of the local refs and its update, however many there are.
THEOREM GoesBackOnlyWhenOvertaken == Spec => BackOnlyWhenOvertaken
<1> DEFINE A == remote'.main < remote.main =>
                   \E p \in Pushers : push[p].pc = "main" /\ push[p].raced
<1>1. IInv /\ [Next]_remoteVars => [A]_remoteVars
    <2> SUFFICES ASSUME IInv, Next, remote'.main < remote.main
                 PROVE  \E p \in Pushers : push[p].pc = "main" /\ push[p].raced
        OBVIOUS
    <2>0. remote \in Refs /\ remote.main \in Nat
        BY RefsParts, RemoteAssumption DEF IInv, TInv, TypeOK, Main
    <2>1. remote'.main # remote.main
        BY <2>0
    <2>2. PICK p \in Pushers : UpdateMain(p)
        <3>1. ASSUME NEW p \in Pushers, UpdateBranch(p) PROVE remote'.main = remote.main
            <4> DEFINE r == [remote EXCEPT !.branch[push[p].session] = push[p].branch]
            <4>1. r.main = remote.main
                BY <3>1, <2>0, SetBranch, PushParts DEF IInv, UpdateBranch
            <4>2. remote' = r \/ remote' = remote
                BY <3>1 DEF UpdateBranch
            <4> QED
                BY <4>1, <4>2
        <3>2. ASSUME NEW p \in Pushers, SyncSucceeds(p) PROVE remote'.main = remote.main
            BY <3>2, <2>0 DEF SyncSucceeds, Refs
        <3>3. ASSUME PushBackups \/ RemoveBranch PROVE remote'.main = remote.main
            BY <3>3, <2>0 DEF PushBackups, RemoveBranch, Refs
        <3> QED
            BY <2>1, <3>1, <3>2, <3>3
               DEF Next, DeleteStep, SyncStep, Sync, ReadLocal, Connect, ReadRefs, PushFails,
                   DeletedLocally, Rejoin, ListRemote, DeleteEnds
    <2>3. push[p].pc = "main" /\ Raced(p)
        BY <2>2 DEF UpdateMain, Raced
    <2>4. push[p].main \in Nat /\ push[p].raced \in BOOLEAN
        BY <2>3, PushParts, RemoteAssumption DEF IInv, Main
    <2>5. remote'.main = push[p].main
        BY <2>0, <2>1, <2>2 DEF UpdateMain, Refs
    <2> QED
        BY <2>0, <2>3, <2>4, <2>5 DEF IInv, InOrder
<1> QED
    BY <1>1, Always, PTL DEF Spec, BackOnlyWhenOvertaken
=============================================================================
