--------------------------- MODULE MCTwoConsumers ---------------------------
(***************************************************************************)
(* Instances of TwoConsumers for TLC: rows of one table, some of which     *)
(* break the contract.                                                     *)
(***************************************************************************)
EXTENDS TwoConsumers

OneTable == [kind : {"row"}, tables : {{1}}, valid : BOOLEAN]
=============================================================================
