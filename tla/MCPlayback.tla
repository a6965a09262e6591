----------------------------- MODULE MCPlayback -----------------------------
(***************************************************************************)
(* Instances of Playback for TLC.  Requests meet only in the count of      *)
(* playback/active.ts, so that one of them is enough for the others.       *)
(***************************************************************************)
EXTENDS Playback, TLC

CONSTANT r1

\* Nothing, the last two bytes, beyond the end.
MCHeader == {NoRange,
             [first |-> Blank, last |-> 2],
             [first |-> FileSize, last |-> FileSize + 1]}
=============================================================================
