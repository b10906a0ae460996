---------------------------- MODULE MCGenerator -----------------------------
(***************************************************************************)
(* Instances of Generator for TLC. Generators are alike.                   *)
(***************************************************************************)
EXTENDS Generator, TLC

Symmetry == Permutations(Generators)
=============================================================================
