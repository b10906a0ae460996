---------------------------- MODULE ContractGate ----------------------------
(***************************************************************************)
(* The data contracts on the way in: the pgoutput decoder and its cache of *)
(* relations (ingestion/cdc/pgoutput.py), the validation of every relation *)
(* and change (contracts/validation.py), and what becomes of a consumer    *)
(* that meets a change it must refuse, while the source alters its tables  *)
(* and someone deploys contracts or gives a backlog up.                    *)
(*                                                                         *)
(* Transactions are left out: CdcConsumer has them, with the outcome of    *)
(* the validation as a flag of the change. Here each change stands alone   *)
(* in the WAL, with the shape its table had when it was written, which is  *)
(* the shape pgoutput streams it with however late that is.                *)
(*                                                                         *)
(* A value is "fit" or "unfit" for the contract's field, "null", or        *)
(* "unchanged": an out-of-line value an UPDATE did not touch, which the    *)
(* stream does not carry.                                                  *)
(***************************************************************************)
EXTENDS Integers, Sequences, FiniteSets

CONSTANTS
  Tables,       \* tables of the publication
  ShapesOf,     \* shapes each may take: functions from columns to Column
  UserTypes,    \* types that are not built in (enums, domains)
  Keys,         \* primary key columns, in every shape
  Values,       \* what the source may store: a subset of {"fit", "unfit", "null"}
  InitialShape, \* shape of each table at first
  Uncontracted, \* tables published before anyone wrote a contract
  MaxWal,       \* changes of the source (bound)
  MaxDdl        \* ALTERs and deploys (bound)

Column == [type : STRING, key : BOOLEAN]

Shapes == UNION {ShapesOf[t] : t \in Tables}

KeyColumns(s) == {c \in DOMAIN s : s[c].key}

HasUserType(s) == \E c \in DOMAIN s : s[c].type \in UserTypes

\* What a contract may say: oid_for knows built-in types only, and every contract of
\* contracts/tables.py names the primary key, and it alone, as the key.
Declarable(s) == KeyColumns(s) = Keys /\ ~ HasUserType(s)

ASSUME KeysAssumption == Keys # {}
ASSUME ShapesAssumption ==
  \A s \in Shapes :
    s \in [DOMAIN s -> Column] /\ Keys \subseteq DOMAIN s /\ \A c \in Keys : s[c].key
ASSUME InitialAssumption ==
  /\ \A t \in Tables : InitialShape[t] \in ShapesOf[t]
  /\ Uncontracted \subseteq Tables
  /\ \A t \in Tables \ Uncontracted : Declarable(InitialShape[t])
ASSUME ValuesAssumption == Values \subseteq {"fit", "unfit", "null"} /\ "fit" \in Values
ASSUME BoundsAssumption == MaxWal \in Nat /\ MaxDdl \in Nat

VARIABLES
  shape,      \* the tables of the source as they are now
  wal,        \* changes, in WAL order
  confirmed,  \* changes the slot will not send again
  ddl,        \* ALTERs and deploys so far (bound)
  contract,   \* CONTRACTS of the deployed code
  pc,         \* "down", "running", "violation" (exit code 2) or "error" (traceback)
  pos,        \* changes read in this session, after those confirmed at its start
  announced,  \* shapes the walsender has sent a Relation message for
  relations,  \* Decoder._relations
  pending,    \* records of the open batch
  bronze      \* records written

vars == <<shape, wal, confirmed, ddl, contract, pc, pos, announced, relations, pending,
          bronze>>
outside == <<shape, wal, ddl, contract>>

NoShape == <<>>    \* no relation known, no contract written

NoTuple == <<>>

\* The old tuple of an UPDATE or DELETE: the replica identity columns, with null
\* for the others. Under REPLICA IDENTITY FULL every column is a key of the shape.
OldTuples(s) ==
  {[c \in DOMAIN s |-> IF c \in DOMAIN k THEN k[c] ELSE "null"] :
     k \in {f \in [KeyColumns(s) -> Values] : \A c \in Keys : f[c] # "null"}}

\* Key columns are neither null nor stored out of line.
NewTuples(s, others) ==
  {n \in [DOMAIN s -> Values \cup others] : \A c \in Keys : n[c] \in Values \ {"null"}}

Changes(t, s) ==
  [table : {t}, shape : {s}, action : {"insert"}, old : {NoTuple}, new : NewTuples(s, {})]
    \cup
  [table : {t}, shape : {s}, action : {"update"}, old : {NoTuple} \cup OldTuples(s),
   new : NewTuples(s, {"unchanged"})]
    \cup
  [table : {t}, shape : {s}, action : {"delete"}, old : OldTuples(s), new : {NoTuple}]
    \cup
  [table : {t}, shape : {s}, action : {"truncate"}, old : {NoTuple}, new : {NoTuple}]

Change == UNION {Changes(t, s) : t \in Tables, s \in Shapes}

\* A record of the change at WAL index i, decoded as relation and accepted under
\* a contract.
Rec(i, relation, agreed) == [at |-> i, relation |-> relation, contract |-> agreed]

TypeOK ==
  /\ shape \in [Tables -> Shapes]
  /\ wal \in Seq(Change) /\ Len(wal) <= MaxWal
  /\ confirmed \in 0 .. Len(wal) /\ pos \in 0 .. Len(wal)
  /\ ddl \in 0 .. MaxDdl
  /\ contract \in [Tables -> Shapes \cup {NoShape}]
  /\ pc \in {"down", "running", "violation", "error"}
  /\ announced \in [Tables -> Shapes \cup {NoShape}]
  /\ relations \in [Tables -> Shapes \cup {NoShape}]
  /\ \A r \in pending \cup bronze :
       r.at \in DOMAIN wal /\ r.relation \in Shapes /\ r.contract \in Shapes

Init ==
  /\ shape = [t \in Tables |-> InitialShape[t]]
  /\ wal = <<>> /\ confirmed = 0 /\ ddl = 0
  /\ contract = [t \in Tables |-> IF t \in Uncontracted THEN NoShape ELSE InitialShape[t]]
  /\ pc = "down" /\ pos = 0
  /\ announced = [t \in Tables |-> NoShape]
  /\ relations = [t \in Tables |-> NoShape]
  /\ pending = {} /\ bronze = {}

-----------------------------------------------------------------------------
(* The source and its operator.                                            *)

SourceChange ==
  /\ Len(wal) < MaxWal
  /\ \E t \in Tables : \E e \in Changes(t, shape[t]) : wal' = Append(wal, e)
  /\ UNCHANGED <<shape, confirmed, ddl, contract, pc, pos, announced, relations, pending,
                 bronze>>

AlterTable ==
  /\ ddl < MaxDdl
  /\ ddl' = ddl + 1
  /\ \E t \in Tables : \E s \in ShapesOf[t] :
       s # shape[t] /\ shape' = [shape EXCEPT ![t] = s]
  /\ UNCHANGED <<wal, confirmed, contract, pc, pos, announced, relations, pending, bronze>>

\* Contracts are code: a new one is in force when the consumer starts again.
DeployContract ==
  /\ pc # "running"
  /\ ddl < MaxDdl
  /\ ddl' = ddl + 1
  /\ \E t \in Tables : \E s \in ShapesOf[t] :
       s # contract[t] /\ Declarable(s) /\ contract' = [contract EXCEPT ![t] = s]
  /\ UNCHANGED <<shape, wal, confirmed, pc, pos, announced, relations, pending, bronze>>

\* pg_replication_slot_advance beyond the backlog, by hand.
DiscardBacklog ==
  /\ pc \in {"violation", "error"}
  /\ confirmed' = Len(wal)
  /\ UNCHANGED <<shape, wal, ddl, contract, pc, pos, announced, relations, pending, bronze>>

-----------------------------------------------------------------------------
(* Validation.                                                             *)

RelationValidOfAnyKey(relation, agreed) ==   \* a bug: key membership is not compared
  /\ agreed # NoShape
  /\ DOMAIN relation = DOMAIN agreed
  /\ \A c \in DOMAIN agreed : relation[c].type = agreed[c].type

\* validate_relation: the columns, their types and their key membership.
RelationValid(relation, agreed) ==
  /\ agreed # NoShape
  /\ DOMAIN relation = DOMAIN agreed
  /\ \A c \in DOMAIN agreed :
       relation[c].type = agreed[c].type /\ relation[c].key = agreed[c].key

\* _read_tuple: a column that did not change leaves no value.
Decoded(tuple) == [c \in {d \in DOMAIN tuple : tuple[d] # "unchanged"} |-> tuple[c]]

\* The tuple that identifies the row, and is validated.
TupleOf(e) == IF e.action = "delete" THEN Decoded(e.old) ELSE Decoded(e.new)

WholeTuple(e, agreed) == DOMAIN TupleOf(e)   \* a bug: nulls of a DELETE are validated

\* validate_change: an insert against the whole model, with no field missing and
\* none to spare; an update by the fields it carries; a delete by its key alone.
Checkable(e, agreed) ==
  IF e.action = "delete" THEN DOMAIN TupleOf(e) \cap KeyColumns(agreed)
                         ELSE DOMAIN TupleOf(e)

ChangeValidOfNewOnly(e, agreed) ==   \* a bug: a DELETE, which has no new tuple, is refused
  /\ e.action # "delete"
  /\ e.action = "insert" => DOMAIN TupleOf(e) = DOMAIN agreed
  /\ \A c \in Checkable(e, agreed) : TupleOf(e)[c] = "fit"

ChangeValid(e, agreed) ==
  /\ e.action = "insert" => DOMAIN TupleOf(e) = DOMAIN agreed
  /\ \A c \in Checkable(e, agreed) : TupleOf(e)[c] = "fit"

\* A TRUNCATE validates the relation it was decoded with and has no tuple.
Acceptable(e, relation, agreed) ==
  IF e.action = "truncate" THEN RelationValid(relation, agreed) ELSE ChangeValid(e, agreed)

\* What of a change ends in a traceback and not in a verdict: a relation that was never
\* announced, a tuple of another width, a value without a field in the contract
\* (or without a contract at all) and, in a record that is otherwise accepted, a
\* key that the tuple lacks.
WidthDiffers(e, relation) == Cardinality(DOMAIN e.shape) # Cardinality(DOMAIN relation)

FieldMissing(e, agreed) ==
  \/ agreed = NoShape
  \/ e.action # "insert" /\ ~ (Checkable(e, agreed) \subseteq DOMAIN agreed)

KeyMissing(e, relation) == ~ (KeyColumns(relation) \subseteq DOMAIN TupleOf(e))

FailsIn(e, relation, agreed) ==
  \/ relation = NoShape
  \/ /\ e.action # "truncate"
     /\ \/ WidthDiffers(e, relation)
        \/ FieldMissing(e, agreed)
        \/ ChangeValid(e, agreed) /\ KeyMissing(e, relation)

-----------------------------------------------------------------------------
(* The consumer.                                                           *)

\* A session starts at the slot's position, with an empty decoder.
StartSession ==
  /\ pc # "running"
  /\ pc' = "running"
  /\ pos' = confirmed
  /\ announced' = [t \in Tables |-> NoShape]
  /\ relations' = [t \in Tables |-> NoShape]
  /\ pending' = {}
  /\ UNCHANGED <<outside, confirmed, bronze>>

Next1 == wal[pos + 1]

\* The process ends; its batch is neither written nor confirmed.
Exit(how) ==
  /\ pc' = how
  /\ pending' = {}
  /\ UNCHANGED <<outside, confirmed, pos, bronze>>

\* The walsender announces a relation before the first change of it in a session,
\* and again when its shape is another.
RelationIsDue ==
  /\ pc = "running"
  /\ pos < Len(wal)
  /\ announced[Next1.table] # Next1.shape

\* It sends a Type message first for each column of a type that is not built in,
\* which the decoder does not support: a ProtocolError, whatever the contract says.
RefuseType ==
  /\ RelationIsDue
  /\ HasUserType(Next1.shape)
  /\ Exit("error")
  /\ UNCHANGED <<announced, relations>>

RelationComesOnce ==   \* a bug: a relation that is known is not replaced
  /\ RelationIsDue /\ ~ HasUserType(Next1.shape)
  /\ announced' = [announced EXCEPT ![Next1.table] = Next1.shape]
  /\ relations' = [relations EXCEPT ![Next1.table] =
                      IF @ = NoShape THEN Next1.shape ELSE @]

RelationComesForAll ==   \* a bug: the cache is not kept by table, and the first one stays
  /\ RelationIsDue /\ ~ HasUserType(Next1.shape)
  /\ announced' = [announced EXCEPT ![Next1.table] = Next1.shape]
  /\ relations' = [t \in Tables |-> IF relations[t] = NoShape THEN Next1.shape
                                                             ELSE relations[t]]

RelationComes ==
  /\ RelationIsDue /\ ~ HasUserType(Next1.shape)
  /\ announced' = [announced EXCEPT ![Next1.table] = Next1.shape]
  /\ relations' = [relations EXCEPT ![Next1.table] = Next1.shape]

ReadRelation ==
  /\ RelationComes
  /\ RelationValid(Next1.shape, contract[Next1.table])
  /\ UNCHANGED <<outside, confirmed, pc, pos, pending, bronze>>

RejectRelation ==
  /\ RelationComes
  /\ ~ RelationValid(Next1.shape, contract[Next1.table])
  /\ Exit("violation")

ChangeComes ==
  /\ pc = "running"
  /\ pos < Len(wal)
  /\ announced[Next1.table] = Next1.shape
  /\ UNCHANGED <<announced, relations>>

Fails == FailsIn(Next1, relations[Next1.table], contract[Next1.table])

Accepted == Acceptable(Next1, relations[Next1.table], contract[Next1.table])

ReadChange ==
  /\ ChangeComes
  /\ ~ Fails /\ Accepted
  /\ pending' = pending \cup {Rec(pos + 1, relations[Next1.table], contract[Next1.table])}
  /\ pos' = pos + 1
  /\ UNCHANGED <<outside, confirmed, pc, bronze>>

\* A ContractViolation is caught by main, any other exception is not.
RefuseChange ==
  /\ ChangeComes
  /\ ~ (~ Fails /\ Accepted)
  /\ Exit(IF Fails THEN "error" ELSE "violation")

WriteBatch ==
  /\ pc = "running"
  /\ pending # {}
  /\ bronze' = bronze \cup pending
  /\ pending' = {}
  /\ UNCHANGED <<outside, pos, announced, relations>>

FlushAhead ==   \* a bug: the change about to be read is confirmed too
  /\ WriteBatch
  /\ confirmed' = IF pos < Len(wal) THEN pos + 1 ELSE pos
  /\ pc' = pc

\* The batch is written, then confirmed; the process may die in between.
Flush == WriteBatch /\ confirmed' = pos /\ pc' = pc

DieBeforeFeedback == WriteBatch /\ pc' = "down" /\ UNCHANGED confirmed

Stop ==
  /\ pc = "running"
  /\ Exit("down")
  /\ UNCHANGED <<announced, relations>>

Consumer ==
  \/ StartSession \/ RefuseType \/ ReadRelation \/ RejectRelation
  \/ ReadChange \/ RefuseChange \/ Flush \/ DieBeforeFeedback \/ Stop

Next == SourceChange \/ AlterTable \/ DeployContract \/ DiscardBacklog \/ Consumer

Spec == Init /\ [][Next]_vars

\* Someone starts the consumer again whenever it ends, and it runs.
Fairness ==
  /\ WF_vars(StartSession) /\ WF_vars(RefuseType) /\ WF_vars(ReadRelation)
  /\ WF_vars(RejectRelation) /\ WF_vars(ReadChange) /\ WF_vars(RefuseChange)
  /\ WF_vars(Flush)

FairSpec == Spec /\ Fairness

-----------------------------------------------------------------------------
(* Properties.                                                             *)

\* What a contract asks of a change, said of the table and the row and not of
\* the message: the table has the agreed shape, and all the new row brings, or
\* the key of a deleted row, is fit.
Conforms(e, agreed) ==
  /\ e.shape = agreed
  /\ e.action \in {"insert", "update"} =>
       \A c \in DOMAIN e.shape : e.new[c] \in {"fit", "unchanged"}
  /\ e.action = "delete" => \A c \in KeyColumns(agreed) : e.old[c] = "fit"

\* Every change is decoded with the shape its table had when the change was
\* written, across ALTERs, restarts and replays: the session's cache of relations
\* is never stale.
DecodedAsWritten == \A r \in pending \cup bronze : r.relation = wal[r.at].shape

\* The validation is exact: what the consumer exits on breaks the contract, and
\* what it goes past conforms to it. In particular the nulls of a DELETE's key
\* tuple and the values an UPDATE leaves out are no violation.
GateIsExact ==
  [][pc = "running" =>
       /\ pc' = "violation" => ~ Conforms(Next1, contract[Next1.table])
       /\ pos' # pos => Conforms(Next1, contract[Next1.table])]_vars

\* Whatever a session replays, the decoder, the validation and the record builder raise
\* nothing but a contract violation, with one exception: at a table that has a column of
\* a type that is not built in. Any other shape that the decoder or the builder could not
\* handle is refused by the contract first.
OnlyUserTypesRaise == pc = "error" => pos < Len(wal) /\ HasUserType(Next1.shape)

\* The slot passes a change only when bronze has it, or by hand after the consumer has
\* ended on a violation or a traceback: no change is skipped to get it going again.
NothingIsSkipped ==
  [][\A i \in confirmed + 1 .. confirmed' :
       pc \in {"violation", "error"} \/ \E r \in bronze' : r.at = i]_vars

\* A backlog that conforms to the contracts in force is drained, whatever was
\* refused before: deploying the right contract or discarding the backlog frees
\* a consumer, as long as it is started again and does not die each time.
BacklogConforms ==
  \A i \in confirmed + 1 .. Len(wal) : Conforms(wal[i], contract[wal[i].table])

ConformingBacklogDrains ==
  <>[](pc # "down") /\ <>[]BacklogConforms => []<>(confirmed = Len(wal))

\* docs/running.md:171-172 of a contract violation: "the changes still in flight
\* are replayed once the contract and the source agree again".
AgreementResumesIngestion ==
  <>[](pc # "down") /\ <>[](shape = contract) => []<>(confirmed = Len(wal))

-----------------------------------------------------------------------------
(* The inductive invariant behind them. In a session, the cache holds what *)
(* was announced, and all of it satisfies the contracts: they are code, so *)
(* a table that is accepted has one shape in the session.                  *)

CacheOK ==
  /\ relations = announced
  /\ pc = "running" =>
       \A t \in Tables :
         announced[t] # NoShape => RelationValid(announced[t], contract[t])

KeysAgree == \A t \in Tables : contract[t] # NoShape => KeyColumns(contract[t]) = Keys

\* What was read since the last confirmation is pending.
BacklogOK ==
  pc = "running" =>
    /\ confirmed <= pos
    /\ \A i \in confirmed + 1 .. pos : \E r \in pending : r.at = i

IInv ==
  TypeOK /\ CacheOK /\ KeysAgree /\ BacklogOK /\ DecodedAsWritten /\ OnlyUserTypesRaise
=============================================================================
