---------------------------- MODULE MCSnapshots ----------------------------
(* Two readers of the shared list beside the work of the process.          *)
EXTENDS Snapshots

Spec == SnapshotSpec
=============================================================================
