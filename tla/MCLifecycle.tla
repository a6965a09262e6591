---------------------------- MODULE MCLifecycle ----------------------------
(***************************************************************************)
(* Two operations at a time on one title with two files.  The second marker *)
(* lets the title be deleted and added again, so that requests, links and  *)
(* torrents of its former life are still about; one lease renewal and one  *)
(* stream at a time.                                                       *)
(***************************************************************************)
EXTENDS Lifecycle, TLC

CONSTANTS t1, t2, f1, f2

Symmetry == Permutations({t1, t2}) \cup Permutations({f1, f2})
=============================================================================
