--------------------------- MODULE MCCdcConsumer ----------------------------
(***************************************************************************)
(* Instances of CdcConsumer for TLC: what the source changes in each run.  *)
(***************************************************************************)
EXTENDS CdcConsumer

Row(t)       == [kind |-> "row", tables |-> {t}, valid |-> TRUE]
BadRow(t)    == [kind |-> "row", tables |-> {t}, valid |-> FALSE]
Truncate(ts) == [kind |-> "truncate", tables |-> ts, valid |-> TRUE]

\* A TRUNCATE of both tables, and a row that breaks the contract.
Violations == {Row(1), BadRow(1), Truncate({1, 2})}
=============================================================================
