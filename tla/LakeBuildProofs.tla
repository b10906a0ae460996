-------------------------- MODULE LakeBuildProofs ---------------------------
(***************************************************************************)
(* Proofs about LakeBuild, for any tables, WAL and batch size: what the    *)
(* slot had on disk when a run started is in the gold the run builds. They *)
(* rest on the invariant of the consumer, proved in CdcConsumerProofs.     *)
(***************************************************************************)
EXTENDS LakeBuild, CdcConsumerProofs

-----------------------------------------------------------------------------
(* What the consumer and the source may do beside a run.                   *)

\* The slot on disk only moves forward.
LEMMA PersistedGrows == IInv /\ [Next]_vars => persisted <= persisted'
<1> SUFFICES ASSUME IInv, [Next]_vars PROVE persisted <= persisted'
  OBVIOUS
<1>1. /\ persisted \in Int /\ confirmed \in Int /\ persisted <= confirmed
      /\ created = NoSlot => persisted = NoSlot
  BY MaxLsnAssumption DEF IInv, TypeOK, SlotOK, NoSlot
<1>2. CASE PersistSlot
  BY <1>1, <1>2 DEF PersistSlot
<1>3. CASE Start
  BY <1>1, <1>3, MaxLsnAssumption DEF Start, EnsureSlot, NoSlot
<1>4. CASE UNCHANGED persisted
  BY <1>1, <1>4
<1>5. PersistSlot \/ Start \/ UNCHANGED persisted
  BY DEF Next, Source, Consumer, CommitTransaction, ReceiveFeedback, RestartPostgres,
         Disconnect, ReadBegin, ReadRowChange, ReadTruncate, AppendRecords, RejectChange,
         Stop, ReadCommit, IdleFlush, IdleExit, StageGroup, ReplaceFile, ConfirmBatch,
         SessionLost, Crash, vars, source
<1> QED
  BY <1>2, <1>3, <1>4, <1>5

\* A transaction that is captured by a step lies beyond what was on disk.
LEMMA NewIsBeyondPersisted ==
  ASSUME IInv, [Next]_vars, NEW t \in Captured', t \notin Captured
  PROVE  persisted < t.commit
<1>1. CASE CommitTransaction
  <2>1. PICK u : Extends(u, committed, created) /\ committed' = committed \cup {u}
    BY <1>1 DEF CommitTransaction
  <2>2. created' = created
    BY <1>1 DEF CommitTransaction
  <2>3. t = u
    BY <2>1, <2>2 DEF Captured
  <2> QED
    BY <2>1, <2>3, BoundaryIsPast DEF IInv, SlotOK
<1>2. CASE Start
  <2>1. committed' = committed
    BY <1>2 DEF Start
  <2>2. CASE created # NoSlot
    BY <1>2, <2>1, <2>2 DEF Start, EnsureSlot, Captured
  <2>3. CASE created = NoSlot
    <3>1. \A u \in committed : u.commit <= created'
      BY <1>2, <2>3 DEF Start, EnsureSlot, EndOfWal
    <3>2. t.commit \in Int /\ created' \in Int
      BY <1>2, <2>1, <2>3, MaxLsnAssumption
         DEF Start, EnsureSlot, Captured, IInv, TypeOK, Transaction, Lsns
    <3> QED
      BY <2>1, <3>1, <3>2 DEF Captured
  <2> QED
    BY <2>2, <2>3
<1>3. CASE UNCHANGED <<committed, created>>
  BY <1>3 DEF Captured
<1>4. CommitTransaction \/ Start \/ UNCHANGED <<committed, created>>
  BY DEF Next, Source, Consumer, PersistSlot, ReceiveFeedback, RestartPostgres,
         Disconnect, ReadBegin, ReadRowChange, ReadTruncate, AppendRecords, RejectChange,
         Stop, ReadCommit, IdleFlush, IdleExit, StageGroup, ReplaceFile, ConfirmBatch,
         SessionLost, Crash, vars, source
<1> QED
  BY <1>1, <1>2, <1>3, <1>4

\* So what a table holds up to a position that was on disk, it still holds.
LEMMA HoldingStays ==
  ASSUME IInv, [Next]_vars, NEW T, NEW B, NEW c \in Int, c <= persisted, HoldsUpTo(T, B, c)
  PROVE  \A t \in Captured' : t.commit <= c =>
           \A r \in RecordsOf(t) : r.table \in B => r \in T[r.table]
<1> SUFFICES ASSUME NEW t \in Captured', t.commit <= c, NEW r \in RecordsOf(t), r.table \in B
             PROVE  r \in T[r.table]
  OBVIOUS
<1>1. persisted \in Int
  BY MaxLsnAssumption DEF IInv, TypeOK, NoSlot
<1>2. IInv'
  BY StepInvariant
<1>3. t.commit \in Int
  BY <1>2, MaxLsnAssumption DEF IInv, TypeOK, Captured, Transaction, Lsns
<1>4. t \in Captured
  BY <1>1, <1>3, NewIsBeyondPersisted
<1> QED
  BY <1>4 DEF HoldsUpTo

\* The bronze of a table has all of the table that was on disk.
LEMMA BronzeHolds ==
  ASSUME IInv, NEW t \in Captured, t.commit <= persisted, NEW r \in RecordsOf(t)
  PROVE  r \in BronzeOf(r.table)
<1>1. PICK f \in bronze : r \in f.recs
  BY DEF IInv, DurableOK, SealedUpTo, InFileFrom
<1>2. f.name.table = r.table
  BY <1>1 DEF IInv, FilesOK
<1> QED
  BY <1>1, <1>2 DEF BronzeOf

\* What is captured stays so.
LEMMA CapturedGrows == IInv /\ [Next]_vars => Captured \subseteq Captured'
<1> SUFFICES ASSUME IInv, [Next]_vars PROVE Captured \subseteq Captured'
  OBVIOUS
<1>1. CASE CommitTransaction
  BY <1>1 DEF CommitTransaction, Captured
<1>2. CASE Start
  BY <1>2 DEF Start, EnsureSlot, Captured
<1>3. CASE UNCHANGED <<committed, created>>
  BY <1>3 DEF Captured
<1>4. CommitTransaction \/ Start \/ UNCHANGED <<committed, created>>
  BY DEF Next, Source, Consumer, PersistSlot, ReceiveFeedback, RestartPostgres,
         Disconnect, ReadBegin, ReadRowChange, ReadTruncate, AppendRecords, RejectChange,
         Stop, ReadCommit, IdleFlush, IdleExit, StageGroup, ReplaceFile, ConfirmBatch,
         SessionLost, Crash, vars, source
<1> QED
  BY <1>1, <1>2, <1>3, <1>4

\* So what is whole of a table stays whole, as a transaction does not change.
LEMMA WholenessStays ==
  ASSUME Captured \subseteq Captured', NEW T, WholeIn(T)
  PROVE  \A b \in Tables : \A r \in T[b] :
           \E t \in Captured' :
             IsValid(t) /\ r \in RecordsFor(b, t) /\ RecordsFor(b, t) \subseteq T[b]
BY DEF WholeIn

\* The bronze of a table is whole, as each of its files is.
LEMMA BronzeIsWhole ==
  ASSUME IInv, NEW b \in Tables, NEW r \in BronzeOf(b)
  PROVE  \E t \in Captured :
           IsValid(t) /\ r \in RecordsFor(b, t) /\ RecordsFor(b, t) \subseteq BronzeOf(b)
<1>1. PICK f \in bronze : f.name.table = b /\ r \in f.recs
  BY DEF BronzeOf
<1>2. PICK t \in Captured : r \in RecordsOf(t) /\ IsValid(t)
  BY <1>1 DEF IInv, FilesOK, IsValid
<1>3. r.table = b /\ r.date = f.name.date
  BY <1>1 DEF IInv, FilesOK
<1>4. t \in committed
  BY DEF Captured
<1>5. \A q \in RecordsOf(t) : q.date = t.date
  BY DEF RecordsOf, RecordsAt
<1>6. RecordsFor(b, t) \subseteq f.recs
  <2>1. LET own == {q \in RecordsOf(t) : q.table = f.name.table /\ q.date = f.name.date}
        IN  own \cap f.recs # {} => own \subseteq f.recs
    BY <1>4 DEF IInv, TransactionsAreWhole
  <2>2. RecordsFor(b, t) \subseteq
          {q \in RecordsOf(t) : q.table = f.name.table /\ q.date = f.name.date}
    BY <1>1, <1>2, <1>3, <1>5 DEF RecordsFor
  <2> QED
    BY <1>1, <1>2, <1>3, <2>1, <2>2
<1> QED
  BY <1>1, <1>2, <1>3, <1>6 DEF RecordsFor, BronzeOf

-----------------------------------------------------------------------------
(* The inductive invariant.                                                *)

\* It holds at first.
LEMMA LakeInitInvariant == LakeInit => LakeInv
<1> SUFFICES ASSUME LakeInit PROVE LakeInv
  OBVIOUS
<1>1. IInv
  BY InitInvariant DEF LakeInit
<1>2. Captured = {}
  BY DEF LakeInit, Init, Captured
<1>3. LakeTypeOK /\ FloorsOK
  BY DEF LakeInit, Init, LakeTypeOK, Stages, Empty, FloorsOK, NoSlot
<1>4. WholeIn(silver) /\ WholeIn(gold)
  BY DEF LakeInit, Empty, WholeIn
<1> QED
  BY <1>1, <1>2, <1>3, <1>4 DEF LakeInv, HoldsUpTo

\* Positions, as numbers.
LEMMA FloorsAreNumbers ==
  ASSUME LakeInv
  PROVE  /\ persisted \in Int /\ floor \in Int /\ gold_floor \in Int
         /\ gold_floor <= floor /\ floor <= persisted /\ gold_floor <= persisted
<1>1. /\ persisted \in Int /\ floor \in Int /\ gold_floor \in Int
      /\ gold_floor <= floor /\ floor <= persisted
  BY MaxLsnAssumption DEF LakeInv, IInv, TypeOK, LakeTypeOK, FloorsOK, NoSlot
<1> QED
  BY <1>1

\* A step of the consumer or of the source changes nothing that a run has read.
LEMMA BesideTheRun ==
  ASSUME LakeInv, [Next]_vars, UNCHANGED build
  PROVE  LakeInv'
<1>1. IInv'
  BY StepInvariant DEF LakeInv
<1>2. LakeTypeOK'
  BY DEF LakeInv, LakeTypeOK, build
<1>3. FloorsOK'
  <2>1. persisted <= persisted' /\ persisted' \in Int
    BY <1>1, PersistedGrows, MaxLsnAssumption DEF LakeInv, IInv, TypeOK, NoSlot
  <2> QED
    BY <2>1, FloorsAreNumbers DEF LakeInv, FloorsOK, build
<1>4. HoldsUpTo(silver, Read, floor)'
  <2>1. \A t \in Captured' : t.commit <= floor =>
          \A r \in RecordsOf(t) : r.table \in Read => r \in silver[r.table]
    BY HoldingStays, FloorsAreNumbers DEF LakeInv
  <2> QED
    BY <2>1 DEF HoldsUpTo, Read, build
<1>5. HoldsUpTo(gold, Tables, gold_floor)'
  <2>1. \A t \in Captured' : t.commit <= gold_floor =>
          \A r \in RecordsOf(t) : r.table \in Tables => r \in gold[r.table]
    BY HoldingStays, FloorsAreNumbers DEF LakeInv
  <2> QED
    BY <2>1 DEF HoldsUpTo, build
<1>6. (WholeIn(silver) /\ WholeIn(gold))'
  <2>1. Captured \subseteq Captured'
    BY CapturedGrows DEF LakeInv
  <2>2. \A b \in Tables : \A r \in silver[b] :
          \E t \in Captured' :
            IsValid(t) /\ r \in RecordsFor(b, t) /\ RecordsFor(b, t) \subseteq silver[b]
    BY <2>1, WholenessStays DEF LakeInv
  <2>3. \A b \in Tables : \A r \in gold[b] :
          \E t \in Captured' :
            IsValid(t) /\ r \in RecordsFor(b, t) /\ RecordsFor(b, t) \subseteq gold[b]
    BY <2>1, WholenessStays DEF LakeInv
  <2> QED
    BY <2>2, <2>3 DEF WholeIn, build
<1> QED
  BY <1>1, <1>2, <1>3, <1>4, <1>5, <1>6 DEF LakeInv

\* What a run does leaves the consumer, the source and bronze alone.
LEMMA AroundTheConsumer ==
  ASSUME LakeInv, UNCHANGED vars
  PROVE  IInv' /\ Captured' = Captured /\ persisted' = persisted
<1>1. IInv'
  BY StutterInvariant DEF LakeInv
<1> QED
  BY <1>1 DEF vars, Captured

\* A run starts from nothing read.
LEMMA StartBuildInvariant == LakeInv /\ StartBuild => LakeInv'
<1> SUFFICES ASSUME LakeInv, StartBuild PROVE LakeInv'
  OBVIOUS
<1>1. IInv' /\ Captured' = Captured /\ persisted' = persisted
  BY AroundTheConsumer DEF StartBuild
<1>2. LakeTypeOK'
  BY DEF StartBuild, LakeInv, LakeTypeOK, IInv, TypeOK, Stages
<1>3. FloorsOK'
  BY <1>1, FloorsAreNumbers DEF StartBuild, FloorsOK
<1>4. Read' = {}
  BY DEF StartBuild, Read
<1>5. HoldsUpTo(silver, Read, floor)' /\ HoldsUpTo(gold, Tables, gold_floor)'
  BY <1>1, <1>4 DEF StartBuild, LakeInv, HoldsUpTo
<1>6. (WholeIn(silver) /\ WholeIn(gold))'
  BY <1>1 DEF StartBuild, LakeInv, WholeIn
<1> QED
  BY <1>1, <1>2, <1>3, <1>5, <1>6 DEF LakeInv

\* The tables read after b are those read before, and b.
LEMMA AdvanceReads ==
  ASSUME LakeInv, stage = "silver", NEW b \in unread, Advance(b)
  PROVE  /\ Read' = Read \cup {b}
         /\ stage' \in Stages /\ unread' \subseteq Tables
         /\ stage' = "gold" => unread' = {}
BY DEF LakeInv, LakeTypeOK, Advance, Read, Stages

\* A table is read: silver has what bronze has of it. If there is none, nothing of
\* it was on disk.
LEMMA ReadTableInvariant ==
  ASSUME LakeInv, stage = "silver", NEW b \in unread, Advance(b),
         UNCHANGED <<vars, gold, floor, gold_floor>>,
         silver' = [silver EXCEPT ![b] = BronzeOf(b)] \/ (BronzeOf(b) = {} /\ UNCHANGED silver)
  PROVE  LakeInv'
<1>1. IInv' /\ Captured' = Captured /\ persisted' = persisted
  BY AroundTheConsumer
<1>2. /\ Read' = Read \cup {b}
      /\ stage' \in Stages /\ unread' \subseteq Tables
      /\ stage' = "gold" => unread' = {}
  BY AdvanceReads
<1>3. BronzeOf(b) \subseteq Record
  BY DEF LakeInv, IInv, TypeOK, File, BronzeOf
<1>4. LakeTypeOK'
  BY <1>2, <1>3 DEF LakeInv, LakeTypeOK
<1>5. FloorsOK'
  BY <1>1, <1>2 DEF LakeInv, FloorsOK
<1>6. HoldsUpTo(silver, Read, floor)'
  <2> SUFFICES ASSUME NEW t \in Captured, t.commit <= floor,
                      NEW r \in RecordsOf(t), r.table \in Read \cup {b}
               PROVE  r \in silver'[r.table]
    BY <1>1, <1>2 DEF HoldsUpTo
  <2>1. b \in Tables /\ silver \in [Tables -> SUBSET Record]
    BY DEF LakeInv, LakeTypeOK
  <2>2. CASE r.table = b
    <3>1. t.commit \in Int
      BY MaxLsnAssumption DEF LakeInv, IInv, TypeOK, Captured, Transaction, Lsns
    <3>2. t.commit <= persisted
      BY <3>1, FloorsAreNumbers
    <3>3. r \in BronzeOf(b)
      BY <2>2, <3>2, BronzeHolds DEF LakeInv
    <3> QED
      BY <2>1, <2>2, <3>3
  <2>3. CASE r.table # b
    <3>1. r \in silver[r.table] /\ r.table \in Tables
      BY <2>3 DEF LakeInv, HoldsUpTo, Read
    <3> QED
      BY <2>1, <2>3, <3>1
  <2> QED
    BY <2>2, <2>3
<1>7. HoldsUpTo(gold, Tables, gold_floor)'
  BY <1>1 DEF LakeInv, HoldsUpTo
<1>8. (WholeIn(silver) /\ WholeIn(gold))'
  <2>1. b \in Tables /\ silver \in [Tables -> SUBSET Record]
    BY DEF LakeInv, LakeTypeOK
  <2>2. ASSUME NEW c \in Tables, NEW r \in silver'[c]
        PROVE  \E t \in Captured :
                 IsValid(t) /\ r \in RecordsFor(c, t) /\ RecordsFor(c, t) \subseteq silver'[c]
    <3>1. CASE silver'[c] = silver[c]
      BY <2>2, <3>1 DEF LakeInv, WholeIn
    <3>2. CASE c = b /\ silver'[c] = BronzeOf(b)
      BY <2>1, <2>2, <3>2, BronzeIsWhole DEF LakeInv
    <3> QED
      BY <2>1, <3>1, <3>2
  <2> QED
    BY <1>1, <2>2 DEF LakeInv, WholeIn
<1> QED
  BY <1>1, <1>4, <1>5, <1>6, <1>7, <1>8 DEF LakeInv

\* Gold is rebuilt from a silver that holds more than it: all of it or a part.
LEMMA RebuildInvariant ==
  ASSUME LakeInv, stage = "gold", NEW B, Rebuild(B),
         stage' = "idle", UNCHANGED <<vars, unread, silver, floor>>,
         (B = Tables /\ gold_floor' = floor) \/ UNCHANGED gold_floor
  PROVE  LakeInv'
<1>1. IInv' /\ Captured' = Captured /\ persisted' = persisted
  BY AroundTheConsumer
<1>2. LakeTypeOK'
  BY DEF LakeInv, LakeTypeOK, Rebuild, Stages
<1>3. FloorsOK'
  BY <1>1, FloorsAreNumbers DEF LakeInv, FloorsOK
<1>4. HoldsUpTo(silver, Read, floor)'
  BY DEF HoldsUpTo, Read
<1>5. HoldsUpTo(gold, Tables, gold_floor)'
  <2> SUFFICES ASSUME NEW t \in Captured, t.commit <= gold_floor',
                      NEW r \in RecordsOf(t), r.table \in Tables
               PROVE  r \in gold'[r.table]
    BY <1>1 DEF HoldsUpTo
  <2>1. t.commit \in Int
    BY MaxLsnAssumption DEF LakeInv, IInv, TypeOK, Captured, Transaction, Lsns
  <2>2. r \in silver[r.table]
    BY <2>1, FloorsAreNumbers DEF LakeInv, HoldsUpTo, Read
  <2>3. r.table \notin B => r \in gold[r.table]
    BY DEF LakeInv, HoldsUpTo
  <2> QED
    BY <2>2, <2>3 DEF Rebuild
<1>6. (WholeIn(silver) /\ WholeIn(gold))'
  BY <1>1 DEF LakeInv, WholeIn, Rebuild
<1> QED
  BY <1>1, <1>2, <1>3, <1>4, <1>5, <1>6 DEF LakeInv

\* A silver that fails leaves a run of which nothing counts.
LEMMA SilverFailsInvariant == LakeInv /\ SilverFails => LakeInv'
<1> SUFFICES ASSUME LakeInv, SilverFails PROVE LakeInv'
  OBVIOUS
<1>1. IInv' /\ Captured' = Captured /\ persisted' = persisted
  BY AroundTheConsumer DEF SilverFails
<1>2. silver' \in [Tables -> SUBSET Record]
  BY DEF LakeInv, LakeTypeOK, SilverFails
<1>3. LakeTypeOK' /\ FloorsOK'
  BY <1>1, <1>2 DEF LakeInv, LakeTypeOK, FloorsOK, SilverFails, Stages
<1>4. HoldsUpTo(silver, Read, floor)' /\ HoldsUpTo(gold, Tables, gold_floor)'
  BY <1>1 DEF LakeInv, HoldsUpTo, Read, SilverFails
<1>5. (WholeIn(silver) /\ WholeIn(gold))'
  <2>1. \A b \in Tables : silver'[b] \in {silver[b], {}}
    BY DEF LakeInv, LakeTypeOK, SilverFails
  <2> QED
    BY <1>1, <2>1 DEF LakeInv, WholeIn, SilverFails
<1> QED
  BY <1>1, <1>3, <1>4, <1>5 DEF LakeInv

\* Every step of a run, of the consumer and of the source preserves the invariant.
LEMMA LakeStepInvariant == LakeInv /\ [LakeNext]_lake_vars => LakeInv'
<1> SUFFICES ASSUME LakeInv, [LakeNext]_lake_vars PROVE LakeInv'
  OBVIOUS
<1>1. CASE (Next /\ UNCHANGED build) \/ UNCHANGED lake_vars
  BY <1>1, BesideTheRun DEF lake_vars
<1>2. CASE StartBuild
  BY <1>2, StartBuildInvariant
<1>3. CASE SkipTable
  BY <1>3, ReadTableInvariant DEF SkipTable, IsNextTable
<1>4. CASE BuildTable
  BY <1>4, ReadTableInvariant DEF BuildTable, IsNextTable
<1>5. CASE BuildGold
  BY <1>5, RebuildInvariant DEF BuildGold
<1>6. CASE BuildGoldInPart
  BY <1>6, RebuildInvariant DEF BuildGoldInPart
<1>7. CASE SilverFails
  BY <1>7, SilverFailsInvariant
<1>8. CASE GoldFails
  BY <1>8, RebuildInvariant DEF GoldFails
<1> QED
  BY <1>1, <1>2, <1>3, <1>4, <1>5, <1>6, <1>7, <1>8 DEF LakeNext, Build, BuildFails

-----------------------------------------------------------------------------
(* What follows.                                                           *)

\* The inductive invariant holds in every behaviour of the consumer, the source, the
\* disk and the runs.
THEOREM LakeInvariance == LakeSpec => []LakeInv
<1>1. LakeInit => LakeInv
  BY LakeInitInvariant
<1>2. LakeInv /\ [LakeNext]_lake_vars => LakeInv'
  BY LakeStepInvariant
<1> QED
  BY <1>1, <1>2, PTL DEF LakeSpec

\* What the slot had on disk when a successful run started is in gold from then on,
\* though the tables are read one after another, with no lock against the consumer,
\* and runs may fail anywhere.
THEOREM GoldCompleteness == LakeSpec => []GoldHoldsThePersisted
<1>1. LakeInv => GoldHoldsThePersisted
  <2> SUFFICES ASSUME LakeInv, NEW t \in Captured, t.commit <= gold_floor,
                      NEW r \in RecordsOf(t)
               PROVE  r \in gold[r.table]
    BY DEF GoldHoldsThePersisted
  <2>1. r \in Record
    BY RecordsByChange DEF LakeInv, IInv, TypeOK, Captured
  <2> QED
    BY <2>1 DEF LakeInv, HoldsUpTo, Record
<1> QED
  BY <1>1, LakeInvariance, PTL

\* At whatever moments tables are read, what a table of gold holds of a transaction is
\* all the transaction has of it, and nothing in gold is of a transaction with a change
\* that breaks its contract.
THEOREM GoldWholeness == LakeSpec => []GoldIsWhole
<1>1. LakeInv => GoldIsWhole
  BY DEF LakeInv, GoldIsWhole
<1> QED
  BY <1>1, LakeInvariance, PTL

\* The consumer beside transform runs behaves as the consumer alone, so that what is
\* proved of it holds here: no run writes what the consumer reads.
THEOREM ConsumerAlone == LakeSpec => Spec
<1>1. LakeInit => Init
  BY DEF LakeInit
<1>2. [LakeNext]_lake_vars => [Next]_vars
  BY DEF LakeNext, Build, BuildFails, StartBuild, SkipTable, BuildTable, BuildGold,
         BuildGoldInPart, SilverFails, GoldFails, lake_vars
<1> QED
  BY <1>1, <1>2, PTL DEF LakeSpec, Spec
=============================================================================
