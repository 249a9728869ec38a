---------------------------- MODULE MCSyncDaemon ----------------------------
(***************************************************************************)
(* Small instances of SyncDaemon for TLC.  Sessions are interchangeable.   *)
(***************************************************************************)
EXTENDS SyncDaemon, TLC

Symmetry == Permutations(Sessions)
=============================================================================
