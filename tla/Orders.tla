------------------------------- MODULE Orders -------------------------------
(***************************************************************************)
(* What the sorts and filters of the lists do, for Listing and Search.     *)
(***************************************************************************)
EXTENDS Naturals, Sequences, FiniteSets

\* The elements of a set in their order; before[x]: those that come before x.
InOrder(before) == [k \in 1..Cardinality(DOMAIN before) |->
                      CHOOSE x \in DOMAIN before : Cardinality(before[x]) = k - 1]

\* What a list has at some of its places.
Those(list, places) ==
  LET order == InOrder([i \in places |-> {j \in places : j < i}])
  IN  [k \in DOMAIN order |-> list[order[k]]]
=============================================================================
