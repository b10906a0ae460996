--------------------------- MODULE MCContractGate ---------------------------
(***************************************************************************)
(* Instances of ContractGate for TLC: a table of payments that takes every *)
(* kind of shape, and a table of refunds that no one has contracted yet.   *)
(***************************************************************************)
EXTENDS ContractGate

Col(type, key) == [type |-> type, key |-> key]

Base    == [id |-> Col("int8", TRUE), status |-> Col("text", FALSE)]
Retyped == [id |-> Col("int8", TRUE), status |-> Col("varchar", FALSE)]
Slim    == [id |-> Col("int8", TRUE)]

\* Base under REPLICA IDENTITY FULL.
Full    == [id |-> Col("int8", TRUE), status |-> Col("text", TRUE)]

\* A key of an enum type.
Enum    == [id |-> Col("mood", TRUE)]

\* As wide as Slim, and another.
Text    == [id |-> Col("text", TRUE)]

TwoTables   == [payments |-> {Base, Retyped, Slim, Full, Enum}, refunds |-> {Text}]
AtFirst     == [payments |-> Slim, refunds |-> Text]

OneTable    == [payments |-> {Base, Retyped}]
OneAtFirst  == [payments |-> Base]
=============================================================================
