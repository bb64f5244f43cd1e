----------------------------- MODULE MCActivity -----------------------------
(* Three places for objects: two shares of the activity and a local object.   *)
EXTENDS Activity, TLC
Symmetry == Permutations(Threads) \cup Permutations(Objects)
=============================================================================
