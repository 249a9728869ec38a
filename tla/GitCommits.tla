----------------------------- MODULE GitCommits -----------------------------
(***************************************************************************)
(* Commits as Cocodex sees them through git.py.  The daemon never looks    *)
(* into a commit: it compares hashes, asks whether one commit is an        *)
(* ancestor of another, and makes new commits.  A commit is therefore      *)
(* represented by its history: the set of the atoms of work it contains.   *)
(* An atom is added by the commit that introduced it and is in every       *)
(* descendant; equal hashes are equal sets.  The root commit is {}.        *)
(*                                                                         *)
(* Atoms: <<"edit", n>>       the n-th change a developer made,            *)
(*        <<"candidate", t>>  what Codex committed for semantic task t,    *)
(*        <<"merge", t>>      the merge commit Git made for task t,        *)
(*        <<"external", n>>   a commit on main made outside Cocodex.       *)
(***************************************************************************)
EXTENDS Naturals

Atom == {"edit", "candidate", "merge", "external"} \X Nat

Commit == SUBSET Atom

Root == {}

\* "No commit": a NULL last_seen_main, or a ref that does not exist.
NoCommit == {<<"none", 0>>}

MaybeCommit == Commit \cup {NoCommit}

\* merge_base_is_ancestor(ancestor, descendant)
IsAncestor(ancestor, descendant) == ancestor \subseteq descendant

\* commit(): the content of the worktree, head and uncommitted changes alike.
CommitOf(head, dirty) == head \cup dirty

\* merge_commit(), when Git merges without a conflict: "already up to date"
\* makes no commit, anything else makes a merge commit even where a
\* fast-forward would do (--no-ff).
MergeOf(head, other, task) ==
    IF IsAncestor(other, head) THEN head
                               ELSE head \cup other \cup {<<"merge", task>>}

=============================================================================
