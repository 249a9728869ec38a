------------------------------ MODULE SerialMain ------------------------------
(***************************************************************************)
(* What Cocodex promises about its branches, and nothing else: one session *)
(* at a time owns the integration; only the owner moves main, forward, and *)
(* to a commit of its own branch; and whatever moves a session's branch    *)
(* moves no other branch.                                                  *)
(***************************************************************************)
EXTENDS GitCommits

CONSTANTS Sessions, NoSession

VARIABLES
    main,   \* head of the main branch
    head,   \* head of each session's branch
    owner   \* the session that owns the integration, or NoSession

Init ==
    /\ main = Root
    /\ head = [s \in Sessions |-> Root]
    /\ owner = NoSession

Acquire(s) ==
    /\ owner = NoSession
    /\ owner' = s
    /\ UNCHANGED <<main, head>>

Publish(s) ==
    /\ owner = s
    /\ IsAncestor(main, main') /\ IsAncestor(main', head[s])
    /\ UNCHANGED <<head, owner>>

Release ==
    /\ owner # NoSession
    /\ owner' = NoSession
    /\ UNCHANGED <<main, head>>

\* The session's developer commits, or Cocodex moves the branch for it.
Move(s) ==
    /\ head' = [head EXCEPT ![s] = head'[s]]
    /\ UNCHANGED <<main, owner>>

Next == Release \/ \E s \in Sessions : Acquire(s) \/ Publish(s) \/ Move(s)

Spec == Init /\ [][Next]_<<main, head, owner>>
=============================================================================
