------------------------------ MODULE MCSilver ------------------------------
(***************************************************************************)
(* Instances of Silver for TLC. Keys, values and sessions are alike.       *)
(***************************************************************************)
EXTENDS Silver, TLC

Symmetry == Permutations(Keys) \cup Permutations(Values) \cup Permutations(Sessions)
=============================================================================
