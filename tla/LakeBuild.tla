----------------------------- MODULE LakeBuild ------------------------------
(***************************************************************************)
(* The transform run (orchestration/airflow/dags/bronze_to_gold.py) beside *)
(* the consumer that feeds bronze: silver is overwritten one table after   *)
(* another (main of transform/spark/bronze_to_silver.py), then dbt builds  *)
(* gold from all of it. No lock is held, so each table is read at a moment *)
(* of its own, and a run that fails leaves what it had written.            *)
(*                                                                         *)
(* Of a table of silver or gold the model keeps the records it was made    *)
(* from (module Silver says what is made of them). Airflow starts the next *)
(* run once the last one has ended, failed or not (max_active_runs=1).     *)
(* Left out: builds started by hand, which may overlap one of Airflow's.   *)
(***************************************************************************)
EXTENDS CdcConsumer

CONSTANT Payments   \* the table that fct_payment is made from

VARIABLES
  stage,      \* what the run is doing
  unread,     \* tables the run has yet to read
  silver,     \* the records each table of silver was made from
  gold,       \* ... and those that the gold of it was made from
  floor,      \* what the slot had on disk when the run started
  gold_floor  \* ... when the last run that succeeded did

build == <<stage, unread, silver, gold, floor, gold_floor>>

lake_vars == <<vars, build>>

Stages == {"idle", "silver", "gold"}

LakeTypeOK ==
  /\ stage \in Stages
  /\ unread \subseteq Tables
  /\ silver \in [Tables -> SUBSET Record]
  /\ gold \in [Tables -> SUBSET Record]
  /\ floor \in {NoSlot} \cup 0 .. MaxLsn
  /\ gold_floor \in {NoSlot} \cup 0 .. MaxLsn

Empty == [b \in Tables |-> {}]

LakeInit ==
  /\ Init
  /\ stage = "idle" /\ unread = {}
  /\ silver = Empty /\ gold = Empty
  /\ floor = NoSlot /\ gold_floor = NoSlot

-----------------------------------------------------------------------------
(* The run.                                                                *)

StartBuild ==
  /\ stage = "idle"
  /\ stage' = "silver"
  /\ unread' = Tables
  /\ floor' = persisted
  /\ UNCHANGED <<vars, silver, gold, gold_floor>>

\* The records under the directory of table b.
BronzeOf(b) == UNION {f.recs : f \in {g \in bronze : g.name.table = b}}

\* Table b is the next one in the order of CONTRACTS' names.
IsNextTable(b) == b \in unread /\ \A c \in unread : b <= c

Advance(b) ==
  /\ unread' = unread \ {b}
  /\ stage' = IF unread = {b} THEN "gold" ELSE "silver"

\* There is no bronze of the table: what silver has of it stays. (The code looks for
\* the directory: one that holds staging files only fails the run, as SilverFails may.)
SkipTable ==
  /\ stage = "silver"
  /\ \E b \in unread : IsNextTable(b) /\ BronzeOf(b) = {} /\ Advance(b)
  /\ UNCHANGED <<vars, silver, gold, floor, gold_floor>>

BuildNewTable ==   \* a bug: a table that silver has is not built again
  /\ stage = "silver"
  /\ \E b \in unread :
       /\ IsNextTable(b) /\ BronzeOf(b) # {}
       /\ silver' = [silver EXCEPT ![b] = IF @ = {} THEN BronzeOf(b) ELSE @]
       /\ Advance(b)
  /\ UNCHANGED <<vars, gold, floor, gold_floor>>

\* build_silver of the table, and its overwrite. The files are read at one moment here,
\* where Spark runs several jobs over those it listed at first.
BuildTable ==
  /\ stage = "silver"
  /\ \E b \in unread :
       /\ IsNextTable(b) /\ BronzeOf(b) # {}
       /\ silver' = [silver EXCEPT ![b] = BronzeOf(b)]
       /\ Advance(b)
  /\ UNCHANGED <<vars, gold, floor, gold_floor>>

\* dbt has rebuilt the tables of B.
Rebuild(B) == gold' = [b \in Tables |-> IF b \in B THEN silver[b] ELSE gold[b]]

InSilver == {b \in Tables : silver[b] # {}}

\* fct_payment is built after the dimensions, if they all are.
PartOfGold == {B \in SUBSET InSilver : Payments \in B => B = Tables}

BuildGold ==
  /\ stage = "gold" /\ InSilver = Tables
  /\ Rebuild(Tables)
  /\ gold_floor' = floor
  /\ stage' = "idle"
  /\ UNCHANGED <<vars, unread, silver, floor>>

\* dbt fails on a source that has no files, and skips what depends on it.
BuildGoldInPart ==
  /\ stage = "gold" /\ InSilver # Tables
  /\ \E B \in PartOfGold : Rebuild(B)
  /\ stage' = "idle"
  /\ UNCHANGED <<vars, unread, silver, floor, gold_floor>>

SilverFailsAndGoldRuns ==   \* a bug: gold runs after a silver that failed
  /\ stage = "silver"
  /\ \/ UNCHANGED silver
     \/ \E b \in unread : IsNextTable(b) /\ silver' = [silver EXCEPT ![b] = {}]
  /\ stage' = "gold"
  /\ unread' = {}
  /\ UNCHANGED <<vars, gold, floor, gold_floor>>

\* Silver refuses a table (SilverError), or dies while it overwrites one, whose
\* files are gone by then; tables before it are rebuilt already, and gold is not run.
SilverFails ==
  /\ stage = "silver"
  /\ \/ UNCHANGED silver
     \/ \E b \in unread : IsNextTable(b) /\ silver' = [silver EXCEPT ![b] = {}]
  /\ stage' = "idle"
  /\ unread' = {}
  /\ UNCHANGED <<vars, gold, floor, gold_floor>>

GoldFailsForGood ==   \* a bug: a run that failed holds back the next ones
  /\ stage = "gold"
  /\ \E B \in PartOfGold : Rebuild(B)
  /\ stage' = "failed"
  /\ UNCHANGED <<vars, unread, silver, floor, gold_floor>>

\* dbt dies, or a test fails, after some tables.
GoldFails ==
  /\ stage = "gold"
  /\ \E B \in PartOfGold : Rebuild(B)
  /\ stage' = "idle"
  /\ UNCHANGED <<vars, unread, silver, floor, gold_floor>>

BuildFails == SilverFails \/ GoldFails

Build ==
  \/ StartBuild \/ SkipTable \/ BuildTable \/ BuildGold \/ BuildGoldInPart \/ BuildFails

LakeNext == (Next /\ UNCHANGED build) \/ Build

LakeSpec == LakeInit /\ [][LakeNext]_lake_vars

\* The consumer's fairness, and: Airflow keeps starting runs, and a run proceeds
\* until it ends.
LakeFairness ==
  /\ Fairness
  /\ WF_lake_vars(StartBuild) /\ WF_lake_vars(SkipTable) /\ WF_lake_vars(BuildTable)
  /\ WF_lake_vars(BuildGold) /\ WF_lake_vars(BuildGoldInPart)

LakeFairSpec == LakeSpec /\ LakeFairness

-----------------------------------------------------------------------------
(* Properties.                                                             *)

\* Whatever the slot had on disk when a successful run started is in gold, and
\* stays there: not a later run that fails halfway, nor the replay that follows a
\* fall of the slot and overwrites files between two reads of a run, takes it back.
GoldHoldsThePersisted ==
  \A t \in Captured :
    t.commit <= gold_floor => \A r \in RecordsOf(t) : r \in gold[r.table]

RecordsFor(b, t) == {r \in RecordsOf(t) : r.table = b}

IsValid(t) == \A l \in DOMAIN t.changes : t.changes[l].valid

WholeIn(T) ==
  \A b \in Tables : \A r \in T[b] :
    \E t \in Captured :
      IsValid(t) /\ r \in RecordsFor(b, t) /\ RecordsFor(b, t) \subseteq T[b]

\* What a table of gold holds of a transaction is all that the transaction has of the
\* table, and nothing of a transaction that the gate refuses is in it: at whatever moment
\* the table is read, of files that the consumer replaces, and into whatever batches
\* replays put the transaction (docs/adr/0010:19, no transaction is split between files).
\* The instances have no change that is refused: that clause is for the proof.
GoldIsWhole == WholeIn(gold)

\* A transaction is never lost between bronze and gold for good: while the consumer
\* runs, and once runs no longer fail, each captured transaction reaches gold, if
\* every table has had a change.
InGold(c) == \A t \in Captured : t.commit = c => \A r \in RecordsOf(t) : r \in gold[r.table]

IsCaptured(c) == \E t \in Captured : t.commit = c

EveryTableChanged == \A b \in Tables : \E t \in Captured : \E r \in RecordsOf(t) : r.table = b

EventuallyInGold ==
  <>[](pc # "stopped") /\ <>[][~ BuildFails]_lake_vars =>
    \A c \in Lsns : (IsCaptured(c) /\ EveryTableChanged) ~> InGold(c)

-----------------------------------------------------------------------------
(* The inductive invariant: beside the consumer's own, each table that this *)
(* run has read holds what was on disk when it started, and so does gold,   *)
(* and each table of either holds whole transactions.                       *)

\* The records T holds of the tables in B include all up to position c.
HoldsUpTo(T, B, c) ==
  \A t \in Captured : t.commit <= c =>
    \A r \in RecordsOf(t) : r.table \in B => r \in T[r.table]

Read == IF stage = "gold" THEN Tables ELSE IF stage = "silver" THEN Tables \ unread ELSE {}

FloorsOK ==
  /\ gold_floor <= floor /\ floor <= persisted
  /\ stage = "gold" => unread = {}

LakeInv ==
  /\ IInv /\ LakeTypeOK /\ FloorsOK
  /\ HoldsUpTo(silver, Read, floor)
  /\ HoldsUpTo(gold, Tables, gold_floor)
  /\ WholeIn(silver) /\ WholeIn(gold)
=============================================================================
