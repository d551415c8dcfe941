--------------------------- MODULE MCSnapshotStore ---------------------------
(* SnapshotStore for TLC: two days and a bit, with a short retention. *)
EXTENDS SnapshotStore
=============================================================================
