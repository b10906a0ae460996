--------------------------- MODULE MCFxExtractor ----------------------------
(***************************************************************************)
(* Instances of FxExtractor for TLC: a calendar.                           *)
(***************************************************************************)
EXTENDS FxExtractor

TwoDayMonths == [d \in Days |-> (d + 1) \div 2]
=============================================================================
