------------------------- MODULE ContractGateProofs -------------------------
(***************************************************************************)
(* Proofs about ContractGate, for any tables, shapes and values and any    *)
(* number of changes and deploys.                                          *)
(***************************************************************************)
EXTENDS ContractGate, TLAPS

-----------------------------------------------------------------------------
(* Shapes, changes and verdicts.                                           *)

\* A shape has columns, so it is not the empty one.
LEMMA ShapeParts ==
  ASSUME NEW s \in Shapes
  PROVE  /\ s # NoShape
         /\ s \in [DOMAIN s -> Column]
         /\ Keys \subseteq KeyColumns(s) /\ KeyColumns(s) \subseteq DOMAIN s
<1>1. s \in [DOMAIN s -> Column] /\ Keys \subseteq DOMAIN s /\ \A c \in Keys : s[c].key
  BY ShapesAssumption
<1>2. DOMAIN NoShape = {}
  BY DEF NoShape
<1>3. s # NoShape
  BY <1>1, <1>2, KeysAssumption
<1> QED
  BY <1>1, <1>3 DEF KeyColumns

\* Two shapes that agree column by column are one.
LEMMA ValidIsEqual ==
  ASSUME NEW s \in Shapes, NEW a \in Shapes \cup {NoShape}
  PROVE  RelationValid(s, a) <=> s = a
<1>1. ASSUME RelationValid(s, a) PROVE s = a
  <2>1. a \in Shapes /\ DOMAIN s = DOMAIN a
    BY <1>1 DEF RelationValid
  <2>2. s \in [DOMAIN s -> Column] /\ a \in [DOMAIN s -> Column]
    BY <2>1, ShapeParts
  <2>3. \A c \in DOMAIN s : s[c] = a[c]
    BY <1>1, <2>1, <2>2 DEF RelationValid, Column
  <2> QED
    BY <2>2, <2>3
<1>2. ASSUME s = a PROVE RelationValid(s, a)
  BY <1>2, ShapeParts DEF RelationValid
<1> QED
  BY <1>1, <1>2

\* The parts of a change.
LEMMA ChangeParts ==
  ASSUME NEW e \in Change
  PROVE  /\ e.table \in Tables /\ e.shape \in Shapes
         /\ e.action \in {"insert", "update", "delete", "truncate"}
         /\ e.action = "insert" => e.new \in NewTuples(e.shape, {})
         /\ e.action = "update" => e.new \in NewTuples(e.shape, {"unchanged"})
         /\ e.action = "delete" => e.old \in OldTuples(e.shape)
BY DEF Change, Changes

\* A shape that a table may take.
LEMMA ShapeOfTable ==
  ASSUME NEW t \in Tables, NEW s \in ShapesOf[t]
  PROVE  s \in Shapes
BY DEF Shapes

\* The tuple that is validated: every column of an INSERT, the columns that an
\* UPDATE carries, and every column of a DELETE's old tuple.
LEMMA TupleParts ==
  ASSUME NEW e \in Change, e.action # "truncate"
  PROVE  /\ DOMAIN TupleOf(e) \subseteq DOMAIN e.shape
         /\ Keys \subseteq DOMAIN TupleOf(e)
         /\ e.action \in {"insert", "delete"} => DOMAIN TupleOf(e) = DOMAIN e.shape
         /\ e.action \in {"insert", "update"} =>
              \A c \in DOMAIN e.shape :
                IF c \in DOMAIN TupleOf(e) THEN TupleOf(e)[c] = e.new[c]
                                           ELSE e.new[c] = "unchanged"
         /\ e.action = "delete" => \A c \in DOMAIN e.shape : TupleOf(e)[c] = e.old[c]
<1>0. "unchanged" \notin Values
  BY ValuesAssumption
<1>1. e.shape \in Shapes /\ Keys \subseteq DOMAIN e.shape
  BY ChangeParts, ShapeParts
<1>2. CASE e.action \in {"insert", "update"}
  <2>1. /\ DOMAIN e.new = DOMAIN e.shape
        /\ \A c \in Keys : e.new[c] # "unchanged"
        /\ e.action = "insert" => \A c \in DOMAIN e.shape : e.new[c] # "unchanged"
    BY <1>0, <1>1, <1>2, ChangeParts DEF NewTuples
  <2>2. TupleOf(e) = Decoded(e.new)
    BY <1>2 DEF TupleOf
  <2> QED
    BY <1>1, <1>2, <2>1, <2>2 DEF Decoded
<1>3. CASE e.action = "delete"
  <2>1. PICK k \in [KeyColumns(e.shape) -> Values] :
          e.old = [c \in DOMAIN e.shape |-> IF c \in DOMAIN k THEN k[c] ELSE "null"]
    BY <1>3, ChangeParts DEF OldTuples
  <2>2. \A c \in DOMAIN e.shape : e.old[c] # "unchanged"
    BY <1>0, <2>1
  <2>3. TupleOf(e) = Decoded(e.old) /\ DOMAIN e.old = DOMAIN e.shape
    BY <1>3, <2>1 DEF TupleOf
  <2> QED
    BY <1>1, <1>3, <2>2, <2>3 DEF Decoded
<1> QED
  BY <1>2, <1>3, ChangeParts

\* When the relation satisfies the contract, the verdict on a change of it is
\* exact.
LEMMA VerdictIsExact ==
  ASSUME NEW e \in Change
  PROVE  Acceptable(e, e.shape, e.shape) <=> Conforms(e, e.shape)
<1>1. e.shape \in Shapes /\ KeyColumns(e.shape) \subseteq DOMAIN e.shape
  BY ChangeParts, ShapeParts
<1>2. CASE e.action = "truncate"
  BY <1>1, <1>2, ValidIsEqual DEF Acceptable, Conforms
<1>3. CASE e.action \in {"insert", "update"}
  <2>1. Acceptable(e, e.shape, e.shape) <=> \A c \in DOMAIN TupleOf(e) : TupleOf(e)[c] = "fit"
    BY <1>3, TupleParts DEF Acceptable, ChangeValid, Checkable
  <2>2. Conforms(e, e.shape) <=> \A c \in DOMAIN e.shape : e.new[c] \in {"fit", "unchanged"}
    BY <1>3 DEF Conforms
  <2>3. \A c \in DOMAIN TupleOf(e) : TupleOf(e)[c] = e.new[c] /\ e.new[c] # "unchanged"
    BY <1>3 DEF TupleOf, Decoded
  <2> QED
    BY <1>3, <2>1, <2>2, <2>3, TupleParts
<1>4. CASE e.action = "delete"
  BY <1>1, <1>4, TupleParts DEF Acceptable, ChangeValid, Checkable, Conforms
<1> QED
  BY <1>2, <1>3, <1>4, ChangeParts

\* ... and nothing raises on the way to it.
LEMMA NothingRaises ==
  ASSUME NEW e \in Change, KeyColumns(e.shape) = Keys
  PROVE  ~ FailsIn(e, e.shape, e.shape)
<1>1. e.shape # NoShape
  BY ChangeParts, ShapeParts
<1>2. ASSUME e.action # "truncate"
      PROVE  ~ FieldMissing(e, e.shape) /\ ~ KeyMissing(e, e.shape)
  BY <1>1, <1>2, TupleParts DEF FieldMissing, KeyMissing, Checkable
<1> QED
  BY <1>1, <1>2 DEF FailsIn, WidthDiffers

-----------------------------------------------------------------------------
(* The inductive invariant.                                                *)

\* The numbers that index the WAL, and the change that comes next.
LEMMA Positions ==
  ASSUME TypeOK
  PROVE  /\ Len(wal) \in Nat /\ confirmed \in Nat /\ pos \in Nat /\ ddl \in Nat
         /\ DOMAIN wal = 1 .. Len(wal)
         /\ pos < Len(wal) => pos + 1 \in DOMAIN wal /\ Next1 \in Change
BY DEF TypeOK, Next1

\* The invariant holds before anything happens.
LEMMA InitInvariant == Init => IInv
<1> SUFFICES ASSUME Init PROVE IInv
  OBVIOUS
<1>1. TypeOK
  <2>1. <<>> \in Seq(Change) /\ Len(<<>>) = 0
    OBVIOUS
  <2> QED
    BY <2>1, InitialAssumption, ShapeOfTable, BoundsAssumption DEF Init, TypeOK
<1>2. KeysAgree
  BY InitialAssumption DEF Init, KeysAgree, Declarable
<1>3. CacheOK /\ BacklogOK /\ DecodedAsWritten /\ OnlyUserTypesRaise
  BY DEF Init, CacheOK, BacklogOK, DecodedAsWritten, OnlyUserTypesRaise, Next1
<1> QED
  BY <1>1, <1>2, <1>3 DEF IInv

\* A change of the source is appended: what the WAL held stays where it was.
LEMMA SourceChangeInvariant == IInv /\ SourceChange => IInv'
<1> SUFFICES ASSUME IInv, SourceChange PROVE IInv'
  OBVIOUS
<1>1. PICK t \in Tables, e \in Change : wal' = Append(wal, e)
  <2>1. PICK t \in Tables : \E e \in Changes(t, shape[t]) : wal' = Append(wal, e)
    BY DEF SourceChange
  <2>2. shape[t] \in Shapes
    BY DEF IInv, TypeOK
  <2>3. Changes(t, shape[t]) \subseteq Change
    BY <2>2 DEF Change
  <2> QED
    BY <2>1, <2>3
<1>2. UNCHANGED <<shape, confirmed, ddl, contract, pc, pos, announced, relations, pending,
                  bronze>>
  BY DEF SourceChange
<1>3. /\ wal' \in Seq(Change) /\ Len(wal') = Len(wal) + 1 /\ DOMAIN wal' = 1 .. Len(wal')
      /\ \A i \in DOMAIN wal : i \in DOMAIN wal' /\ wal'[i] = wal[i]
  BY <1>1, Positions DEF IInv, TypeOK
<1>4. TypeOK'
  BY <1>2, <1>3, Positions, BoundsAssumption DEF IInv, TypeOK, SourceChange
<1>5. CacheOK' /\ KeysAgree' /\ BacklogOK'
  BY <1>2 DEF IInv, CacheOK, KeysAgree, BacklogOK, RelationValid
<1>6. DecodedAsWritten'
  BY <1>2, <1>3 DEF IInv, TypeOK, DecodedAsWritten
<1>7. OnlyUserTypesRaise'
  BY <1>2, <1>3, Positions DEF IInv, OnlyUserTypesRaise, Next1
<1> QED
  BY <1>4, <1>5, <1>6, <1>7 DEF IInv

\* The table changes; what was written and what is agreed do not.
LEMMA AlterTableInvariant == IInv /\ AlterTable => IInv'
<1> SUFFICES ASSUME IInv, AlterTable PROVE IInv'
  OBVIOUS
<1>1. UNCHANGED <<wal, confirmed, contract, pc, pos, announced, relations, pending, bronze>>
  BY DEF AlterTable
<1>2. TypeOK'
  BY <1>1, ShapeOfTable, BoundsAssumption DEF IInv, TypeOK, AlterTable
<1> QED
  BY <1>1, <1>2 DEF IInv, CacheOK, KeysAgree, BacklogOK, DecodedAsWritten,
     OnlyUserTypesRaise, Next1, RelationValid

\* A contract is deployed between two sessions, with the same key.
LEMMA DeployContractInvariant == IInv /\ DeployContract => IInv'
<1> SUFFICES ASSUME IInv, DeployContract PROVE IInv'
  OBVIOUS
<1>1. /\ UNCHANGED <<shape, wal, confirmed, pc, pos, announced, relations, pending, bronze>>
      /\ pc # "running"
  BY DEF DeployContract
<1>2. TypeOK'
  BY <1>1, ShapeOfTable, BoundsAssumption DEF IInv, TypeOK, DeployContract
<1>3. KeysAgree'
  BY DEF IInv, TypeOK, KeysAgree, DeployContract, Declarable
<1> QED
  BY <1>1, <1>2, <1>3 DEF IInv, CacheOK, BacklogOK, DecodedAsWritten, OnlyUserTypesRaise, Next1

\* The slot is advanced by hand, or a session starts.
LEMMA RestartInvariant == IInv /\ (DiscardBacklog \/ StartSession) => IInv'
<1>1. ASSUME IInv, DiscardBacklog PROVE IInv'
  BY <1>1, Positions
     DEF DiscardBacklog, IInv, TypeOK, CacheOK, KeysAgree, BacklogOK, DecodedAsWritten,
         OnlyUserTypesRaise, Next1
<1>2. ASSUME IInv, StartSession PROVE IInv'
  <2>1. TypeOK'
    BY <1>2 DEF StartSession, outside, IInv, TypeOK
  <2> QED
    BY <1>2, <2>1, Positions
       DEF StartSession, outside, IInv, TypeOK, CacheOK, KeysAgree, BacklogOK,
           DecodedAsWritten, OnlyUserTypesRaise, Next1
<1> QED
  BY <1>1, <1>2

\* A Relation message is cached; the session goes on only if it satisfies the
\* contract.
LEMMA RelationInvariant == IInv /\ (ReadRelation \/ RejectRelation) => IInv'
<1> SUFFICES ASSUME IInv, ReadRelation \/ RejectRelation PROVE IInv'
  OBVIOUS
<1>1. /\ Next1 \in Change /\ Next1.table \in Tables /\ Next1.shape \in Shapes
      /\ announced' = [announced EXCEPT ![Next1.table] = Next1.shape]
      /\ relations' = [relations EXCEPT ![Next1.table] = Next1.shape]
      /\ UNCHANGED <<shape, wal, ddl, contract, confirmed, pos, bronze>>
      /\ pending' \subseteq pending
      /\ pc = "running"
  BY Positions, ChangeParts
     DEF IInv, ReadRelation, RejectRelation, RelationComes, RelationIsDue, Exit, outside
<1>2. /\ pc' = "running" /\ pending' = pending
           /\ RelationValid(Next1.shape, contract[Next1.table])
      \/ pc' = "violation"
  BY <1>1 DEF ReadRelation, RejectRelation, Exit
<1>3. TypeOK'
  BY <1>1, <1>2 DEF IInv, TypeOK
<1>4. CacheOK'
  BY <1>1, <1>2 DEF IInv, TypeOK, CacheOK, RelationValid
<1>5. KeysAgree' /\ BacklogOK' /\ DecodedAsWritten' /\ OnlyUserTypesRaise'
  BY <1>1, <1>2 DEF IInv, KeysAgree, BacklogOK, DecodedAsWritten, OnlyUserTypesRaise, Next1
<1> QED
  BY <1>3, <1>4, <1>5 DEF IInv

\* What the consumer knows when it reads a change: the relation in its cache is
\* the one the change was written with, and it is the contract's.
LEMMA CacheIsCurrent ==
  ASSUME IInv, ChangeComes
  PROVE  /\ Next1 \in Change /\ pos + 1 \in DOMAIN wal
         /\ relations[Next1.table] = Next1.shape
         /\ contract[Next1.table] = Next1.shape
         /\ KeyColumns(Next1.shape) = Keys
<1>1. /\ Next1 \in Change /\ pos + 1 \in DOMAIN wal
      /\ Next1.table \in Tables /\ Next1.shape \in Shapes
  BY Positions, ChangeParts DEF IInv, ChangeComes
<1>2. relations[Next1.table] = Next1.shape /\ Next1.shape # NoShape
  BY <1>1, ShapeParts DEF IInv, CacheOK, ChangeComes
<1>3. contract[Next1.table] = Next1.shape
  BY <1>1, <1>2, ValidIsEqual DEF IInv, TypeOK, CacheOK, ChangeComes
<1> QED
  BY <1>1, <1>2, <1>3 DEF IInv, KeysAgree

\* So no change fails.
LEMMA ChangesDoNotFail == ASSUME IInv, ChangeComes PROVE ~ Fails
BY CacheIsCurrent, NothingRaises DEF Fails

\* A change is read: it is pending, decoded as it was written.
LEMMA ReadChangeInvariant == IInv /\ ReadChange => IInv'
<1> SUFFICES ASSUME IInv, ReadChange PROVE IInv'
  OBVIOUS
<1>1. /\ UNCHANGED <<shape, wal, ddl, contract, announced, relations, confirmed, pc, bronze>>
      /\ pos' = pos + 1
      /\ pending' = pending \cup {Rec(pos + 1, Next1.shape, Next1.shape)}
      /\ pos + 1 \in DOMAIN wal /\ Next1.shape \in Shapes
  BY CacheIsCurrent, ChangeParts DEF ReadChange, ChangeComes, outside
<1>2. Rec(pos + 1, Next1.shape, Next1.shape) =
        [at |-> pos + 1, relation |-> Next1.shape, contract |-> Next1.shape]
  BY DEF Rec
<1>3. TypeOK'
  BY <1>1, <1>2, Positions DEF IInv, TypeOK
<1>4. CacheOK' /\ KeysAgree' /\ OnlyUserTypesRaise'
  <2>1. pc' = "running"
    BY <1>1 DEF ReadChange, ChangeComes
  <2> QED
    BY <1>1, <2>1 DEF IInv, CacheOK, KeysAgree, OnlyUserTypesRaise, Next1, RelationValid
<1>5. BacklogOK'
  BY <1>1, <1>2, Positions DEF IInv, BacklogOK
<1>6. DecodedAsWritten'
  BY <1>1, <1>2 DEF IInv, DecodedAsWritten, Next1
<1> QED
  BY <1>3, <1>4, <1>5, <1>6 DEF IInv

\* The process ends, for a change it refuses or a type it does not know, or otherwise.
LEMMA ExitInvariant == IInv /\ (RefuseType \/ RefuseChange \/ Stop) => IInv'
<1> SUFFICES ASSUME IInv, RefuseType \/ RefuseChange \/ Stop PROVE IInv'
  OBVIOUS
<1>1. /\ UNCHANGED <<shape, wal, ddl, contract, announced, relations, confirmed, pos, bronze>>
      /\ pending' = {} /\ pc' \in {"down", "violation", "error"}
  BY DEF RefuseType, RefuseChange, ChangeComes, Stop, Exit, outside
<1>2. OnlyUserTypesRaise'
  <2>1. CASE RefuseType
    BY <1>1, <2>1 DEF RefuseType, RelationIsDue, OnlyUserTypesRaise, Next1
  <2>2. CASE RefuseChange \/ Stop
    <3>1. pc' # "error"
      BY <2>2, ChangesDoNotFail DEF RefuseChange, Stop, Exit
    <3> QED
      BY <3>1 DEF OnlyUserTypesRaise, Next1
  <2> QED
    BY <2>1, <2>2
<1> QED
  BY <1>1, <1>2 DEF IInv, TypeOK, CacheOK, KeysAgree, BacklogOK, DecodedAsWritten

\* The batch is written, and confirmed if the process lives to do it.
LEMMA WriteInvariant == IInv /\ (Flush \/ DieBeforeFeedback) => IInv'
<1> SUFFICES ASSUME IInv, Flush \/ DieBeforeFeedback PROVE IInv'
  OBVIOUS
<1>1. /\ UNCHANGED <<shape, wal, ddl, contract, announced, relations, pos>>
      /\ pending' = {} /\ bronze' = bronze \cup pending /\ pc = "running"
      /\ (confirmed' = pos /\ pc' = pc) \/ (confirmed' = confirmed /\ pc' = "down")
  BY DEF Flush, DieBeforeFeedback, WriteBatch, outside
<1>2. TypeOK'
  BY <1>1 DEF IInv, TypeOK
<1>3. BacklogOK'
  BY <1>1, Positions DEF IInv, BacklogOK
<1> QED
  BY <1>1, <1>2, <1>3 DEF IInv, CacheOK, KeysAgree, DecodedAsWritten, OnlyUserTypesRaise, Next1,
     RelationValid

\* Every step preserves the invariant.
LEMMA StepInvariant == IInv /\ [Next]_vars => IInv'
<1>1. ASSUME IInv, UNCHANGED vars PROVE IInv'
  BY <1>1 DEF vars, IInv, TypeOK, CacheOK, KeysAgree, BacklogOK, DecodedAsWritten,
              OnlyUserTypesRaise, Next1, RelationValid
<1> QED
  BY <1>1, SourceChangeInvariant, AlterTableInvariant, DeployContractInvariant,
     RestartInvariant, RelationInvariant, ReadChangeInvariant, ExitInvariant, WriteInvariant
     DEF Next, Consumer

-----------------------------------------------------------------------------
(* What follows.                                                           *)

\* The invariant holds in every behaviour.
THEOREM Invariance == Spec => []IInv
<1>1. Init => IInv
  BY InitInvariant
<1>2. IInv /\ [Next]_vars => IInv'
  BY StepInvariant
<1> QED
  BY <1>1, <1>2, PTL DEF Spec

\* The variables have their types, whatever the source, the operator and the consumer do.
THEOREM TypeCorrectness == Spec => []TypeOK
<1>1. IInv => TypeOK
  BY DEF IInv
<1> QED
  BY <1>1, Invariance, PTL

\* Every record in memory and in bronze was decoded with the shape its table had
\* when the change was written (Decoder._relations is never stale).
THEOREM FreshCache == Spec => []DecodedAsWritten
<1>1. IInv => DecodedAsWritten
  BY DEF IInv
<1> QED
  BY <1>1, Invariance, PTL

\* No change of a published table makes the decoder, the validation or the record
\* builder raise anything but a contract violation, except that pgoutput announces a
\* column of a type that is not built in with a message the decoder does not support.
THEOREM OnlyVerdictsButForUserTypes == Spec => []OnlyUserTypesRaise
<1>1. IInv => OnlyUserTypesRaise
  BY DEF IInv
<1> QED
  BY <1>1, Invariance, PTL

\* The consumer goes past a change exactly when it conforms to the contract.
THEOREM ExactGate == Spec => GateIsExact
<1>1. IInv /\ [Next]_vars =>
        [pc = "running" =>
           /\ pc' = "violation" => ~ Conforms(Next1, contract[Next1.table])
           /\ pos' # pos => Conforms(Next1, contract[Next1.table])]_vars
  <2> SUFFICES ASSUME IInv, Next, pc = "running"
               PROVE  /\ pc' = "violation" => ~ Conforms(Next1, contract[Next1.table])
                      /\ pos' # pos => Conforms(Next1, contract[Next1.table])
    OBVIOUS
  <2>1. CASE ReadChange
    <3>1. ChangeComes /\ Accepted /\ pc' = pc
      BY <2>1 DEF ReadChange
    <3> QED
      BY <3>1, CacheIsCurrent, VerdictIsExact DEF Accepted
  <2>2. CASE RefuseChange
    <3>1. ChangeComes /\ ~ Accepted /\ pos' = pos
      BY <2>2, ChangesDoNotFail DEF RefuseChange, Exit
    <3> QED
      BY <3>1, CacheIsCurrent, VerdictIsExact DEF Accepted
  <2>3. CASE RejectRelation
    <3>1. /\ ~ RelationValid(Next1.shape, contract[Next1.table]) /\ pos' = pos
          /\ Next1.shape \in Shapes /\ Next1.table \in Tables
      BY <2>3, Positions, ChangeParts
         DEF RejectRelation, RelationComes, RelationIsDue, Exit, IInv
    <3> QED
      BY <3>1, ValidIsEqual DEF Conforms, IInv, TypeOK
  <2>4. CASE \/ SourceChange \/ AlterTable \/ RefuseType \/ ReadRelation
             \/ Flush \/ DieBeforeFeedback \/ Stop
    <3>1. pos' = pos /\ pc' # "violation"
      BY <2>4 DEF SourceChange, AlterTable, RefuseType, ReadRelation, Flush,
           DieBeforeFeedback, WriteBatch, Stop, Exit
    <3> QED
      BY <3>1
  <2> QED
    BY <2>1, <2>2, <2>3, <2>4 DEF Next, Consumer, DeployContract, DiscardBacklog, StartSession
<1> QED
  BY <1>1, Invariance, PTL DEF Spec, GateIsExact

\* The slot moves only over changes that bronze holds, or by hand after the consumer has
\* ended on a violation or a traceback.
THEOREM NoSkip == Spec => NothingIsSkipped
<1>1. IInv /\ [Next]_vars =>
        [\A i \in confirmed + 1 .. confirmed' :
           pc \in {"violation", "error"} \/ \E r \in bronze' : r.at = i]_vars
  <2> SUFFICES ASSUME IInv, Next, pc \notin {"violation", "error"},
                      NEW i \in confirmed + 1 .. confirmed'
               PROVE  \E r \in bronze' : r.at = i
    OBVIOUS
  <2>1. CASE Flush
    BY <2>1 DEF Flush, WriteBatch, IInv, BacklogOK
  <2>2. CASE UNCHANGED confirmed
    BY <2>2, Positions DEF IInv
  <2> QED
    BY <2>1, <2>2 DEF Next, Consumer, SourceChange, AlterTable, DeployContract,
         DiscardBacklog, StartSession, RefuseType, ReadRelation, RejectRelation, ReadChange,
         RefuseChange, DieBeforeFeedback, WriteBatch, Stop, Exit
<1> QED
  BY <1>1, Invariance, PTL DEF Spec, NothingIsSkipped
=============================================================================
