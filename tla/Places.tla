---------------------------------- MODULE Places ----------------------------------
(***************************************************************************)
(* Sorted and filtered lists by the places of their elements: the place of *)
(* an element is the number of those before it.  Several programs sort     *)
(* lists or take parts of sorted ones; a definition without recursion can  *)
(* be reasoned about.                                                      *)
(***************************************************************************)
EXTENDS Integers, Sequences, FiniteSets

\* the elements of a set in order, given those below each of them
InPlaces(S, below) ==
    [k \in 1..Cardinality(S) |-> CHOOSE x \in S : Cardinality(below[x]) = k - 1]

\* the elements of a list at these positions, in the order of the list
Picked(list, positions) ==
    LET at == InPlaces(positions, [i \in positions |-> {j \in positions : j < i}])
    IN  [k \in 1..Cardinality(positions) |-> list[at[k]]]

\* the last n elements of a list, or all of a shorter one
LastOf(list, n) ==
    SubSeq(list, IF Len(list) > n THEN Len(list) - n + 1 ELSE 1, Len(list))

===================================================================================
