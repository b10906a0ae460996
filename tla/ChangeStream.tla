---------------------------- MODULE ChangeStream ----------------------------
(***************************************************************************)
(* What the replication slot streams: the committed transactions of the    *)
(* source, as the messages pgoutput makes of them (Begin, one message per  *)
(* change, Commit), and the bronze records those messages become.          *)
(*                                                                         *)
(*   - An LSN is a position in the WAL. Each change has its own, and the   *)
(*     changes of concurrent transactions interleave: a transaction that   *)
(*     commits later may hold a lower LSN than one that committed before.  *)
(*   - The stream carries whole transactions, in commit order, each with   *)
(*     its changes in LSN order. A transaction is identified by the LSN    *)
(*     that ends it, which is the wal_end of its Commit message and the    *)
(*     only kind of position the consumer ever confirms.                   *)
(*   - A change is a row change of one table or a TRUNCATE of several.     *)
(*     Its values are left out, but for the verdict of the contract that   *)
(*     the consumer validates them with: the change is valid or it is not. *)
(***************************************************************************)
EXTENDS Integers, FiniteSets

CONSTANTS
  Tables,      \* published tables, each the rank of its name in sorted order
  Dates,       \* commit dates, the partitions of the bronze layer
  Bodies,      \* what the source may change: members of Body
  MaxLsn       \* length of the WAL (bound)

Lsns == 1 .. MaxLsn

Body ==
  [kind : {"row", "truncate"}, tables : (SUBSET Tables) \ {{}}, valid : BOOLEAN]

ASSUME TablesAssumption == Tables \subseteq Nat
ASSUME DatesAssumption == Dates \subseteq Nat
ASSUME BodiesAssumption ==
  Bodies \subseteq {b \in Body : b.kind = "row" => \E t \in Tables : b.tables = {t}}
ASSUME MaxLsnAssumption == MaxLsn \in Nat

\* A transaction: the LSN that ends it, its commit date, and its changes, a
\* function from the LSNs of the changes to what they are.
Transaction ==
  [commit : Lsns, date : Dates, changes : UNION {[S -> Bodies] : S \in SUBSET Lsns}]

\* PendingRecord, and of its payload the identity of the transaction (xid).
Record == [lsn : Lsns, table : Tables, date : Dates, xid : Lsns]

RecordsAt(t, l) ==
  {[lsn |-> l, table |-> b, date |-> t.date, xid |-> t.commit] : b \in t.changes[l].tables}

RecordsOf(t) == UNION {RecordsAt(t, l) : l \in DOMAIN t.changes}

\* The source commits t after the transactions of T: WAL is append-only and a
\* position holds one thing. No change of t precedes the position `from`.
Extends(t, T, from) ==
  /\ DOMAIN t.changes # {}
  /\ \A l \in DOMAIN t.changes : from < l /\ l < t.commit
  /\ from < t.commit
  /\ \A u \in T :
        /\ u.commit < t.commit
        /\ u.commit \notin DOMAIN t.changes
        /\ DOMAIN u.changes \cap DOMAIN t.changes = {}

\* The transaction the stream carries after position p.
IsNext(t, T, p) ==
  /\ t \in T
  /\ t.commit > p
  /\ \A u \in T : u.commit > p => t.commit <= u.commit

\* The next change of t after LSN l, and the end of its changes.
IsNextChange(m, t, l) ==
  /\ m \in DOMAIN t.changes
  /\ m > l
  /\ \A n \in DOMAIN t.changes : n > l => m <= n

NoChangeAfter(t, l) == \A n \in DOMAIN t.changes : n <= l
=============================================================================
