---------------------------- MODULE MCGoldRates -----------------------------
(***************************************************************************)
(* Instances of GoldRates for TLC: a calendar.                             *)
(***************************************************************************)
EXTENDS GoldRates

TwoDayMonths == [d \in Days |-> (d + 1) \div 2]
=============================================================================
