------------------------- MODULE MCApartmentVariable -------------------------
(* Two threads in the multithreaded apartment, one in an apartment of its own, *)
(* two variables.                                                              *)
EXTENDS ApartmentVariable, TLC
CONSTANTS m1, m2, s1, mta, sta
HomeOf == [t \in {m1, m2, s1} |-> IF t = s1 THEN sta ELSE mta]
Symmetry == Permutations({m1, m2}) \cup Permutations(Vars)
=============================================================================
