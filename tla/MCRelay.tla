------------------------------ MODULE MCRelay ------------------------------
(***************************************************************************)
(* Instances of Relay for TLC.  Stream ids are interchangeable, and so are *)
(* watch sessions; the two push sessions are not (one is local).  The      *)
(* symmetries are used by the runs that check safety only.                 *)
(***************************************************************************)
EXTENDS RelayDirectory, TLC

TableSymmetry == Permutations(StreamIds)
WatchSymmetry == Permutations(Watchers)

=============================================================================
