---------------------------- MODULE MCLakeBuild -----------------------------
(***************************************************************************)
(* Instances of LakeBuild for TLC: rows of two tables.                     *)
(***************************************************************************)
EXTENDS LakeBuild

Row(t) == [kind |-> "row", tables |-> {t}, valid |-> TRUE]

\* A TRUNCATE of both tables stands for any change of both.
Both == {[kind |-> "truncate", tables |-> {1, 2}, valid |-> TRUE]}

TwoTables == {Row(1), Row(2)}
=============================================================================
