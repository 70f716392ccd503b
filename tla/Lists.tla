-------------------------------- MODULE Lists --------------------------------
(***************************************************************************)
(* The part of a list that is in a set, in the list's order: what the code *)
(* builds with a loop and append.  Select(list, S) is SelectSeq(list,      *)
(* LAMBDA x : x \in S), in a form that proofs can expand.                   *)
(***************************************************************************)
EXTENDS Integers, SequencesExt

PlacesIn(list, S) == {n \in DOMAIN list : list[n] \in S}

\* The k-th of a set of places.
UpTo(P, n) == P \cap 1..n
Nth(P, k)  == CHOOSE n \in P : Cardinality(UpTo(P, n)) = k

Select(list, S) ==
    LET P == PlacesIn(list, S) IN [k \in 1..Cardinality(P) |-> list[Nth(P, k)]]

=============================================================================
