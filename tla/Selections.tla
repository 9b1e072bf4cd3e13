----------------------------- MODULE Selections ------------------------------
(***************************************************************************)
(* What the tools do with a list when they keep some of its elements: an   *)
(* append to a new list for each that is kept.                             *)
(***************************************************************************)
EXTENDS Naturals, Sequences, FiniteSets

\* The elements at some places of a sequence, in their order.
Selected(s, places) ==
    [j \in 1..Cardinality(places) |->
        s[CHOOSE k \in places : Cardinality(places \cap 1..k) = j]]

=============================================================================
