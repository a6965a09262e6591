------------------------------ MODULE MCSlots ------------------------------
(***************************************************************************)
(* Two titles of one file each and a single slot: requests for it race, are *)
(* refused or stored for later, and are admitted when a deletion or the    *)
(* end of a download frees it.                                             *)
(***************************************************************************)
EXTENDS Lifecycle, TLC

CONSTANTS t1, t2, h1, h2

Symmetry == Permutations({t1, t2}) \cup Permutations({h1, h2})
=============================================================================
