-------------------------- MODULE CdcConsumerProofs -------------------------
(***************************************************************************)
(* Proofs about CdcConsumer, for any tables, dates, WAL and batch size:    *)
(* its invariant and what follows from it, the refinement of AtLeastOnce,  *)
(* and what of the invariant survives beside a second process.             *)
(***************************************************************************)
EXTENDS CdcConsumer, TLAPS

-----------------------------------------------------------------------------
(* Transactions and their records.                                         *)

\* The parts of a transaction.
LEMMA TransactionParts ==
  ASSUME NEW t \in Transaction
  PROVE  /\ t.commit \in Lsns /\ t.date \in Dates
         /\ DOMAIN t.changes \subseteq Lsns
         /\ \A l \in DOMAIN t.changes :
              /\ t.changes[l] \in Bodies
              /\ t.changes[l].tables \subseteq Tables
              /\ t.changes[l].tables # {}
<1>1. PICK S \in SUBSET Lsns : t.changes \in [S -> Bodies]
  BY DEF Transaction
<1>2. \A b \in Bodies : b.tables \subseteq Tables /\ b.tables # {}
  BY BodiesAssumption DEF Body
<1> QED
  BY <1>1, <1>2 DEF Transaction

\* A record of a transaction: its LSN is that of one of the changes, and it
\* carries the identity and the date of the transaction.
LEMMA RecordParts ==
  ASSUME NEW t \in Transaction, NEW l \in DOMAIN t.changes, NEW r \in RecordsAt(t, l)
  PROVE  /\ r \in Record /\ r \in RecordsOf(t)
         /\ r.lsn = l /\ r.xid = t.commit /\ r.date = t.date
<1>1. PICK b \in t.changes[l].tables :
        r = [lsn |-> l, table |-> b, date |-> t.date, xid |-> t.commit]
  BY DEF RecordsAt
<1>2. b \in Tables /\ l \in Lsns /\ t.commit \in Lsns /\ t.date \in Dates
  BY TransactionParts
<1>3. r \in Record
  BY <1>1, <1>2 DEF Record
<1>4. r \in RecordsOf(t)
  BY DEF RecordsOf
<1> QED
  BY <1>1, <1>3, <1>4

\* The records of a transaction are those of its changes.
LEMMA RecordsByChange ==
  ASSUME NEW t \in Transaction, NEW r \in RecordsOf(t)
  PROVE  /\ r \in Record
         /\ r.lsn \in DOMAIN t.changes
         /\ r \in RecordsAt(t, r.lsn)
         /\ r.xid = t.commit /\ r.date = t.date
<1>1. PICK l \in DOMAIN t.changes : r \in RecordsAt(t, l)
  BY DEF RecordsOf
<1> QED
  BY <1>1, RecordParts

\* Each change leaves a record.
LEMMA ChangesLeaveRecords ==
  ASSUME NEW t \in Transaction, NEW l \in DOMAIN t.changes
  PROVE  RecordsAt(t, l) # {}
BY TransactionParts DEF RecordsAt

\* Records of different transactions of one WAL differ in their LSN.
LEMMA LsnNamesTransaction ==
  ASSUME committed \subseteq Transaction, WalOK,
         NEW t \in committed, NEW u \in committed,
         NEW r \in RecordsOf(t), NEW q \in RecordsOf(u), r.lsn = q.lsn
  PROVE  t = u
<1>1. r.lsn \in DOMAIN t.changes /\ q.lsn \in DOMAIN u.changes
  BY RecordsByChange
<1> QED
  BY <1>1 DEF WalOK

-----------------------------------------------------------------------------
(* Type correctness.                                                       *)

\* The positions a variable may hold besides those of the WAL.
LEMMA LsnRange == Lsns \subseteq 0 .. MaxLsn /\ 0 \in 0 .. MaxLsn
BY MaxLsnAssumption DEF Lsns

\* Nothing is read, written or confirmed at first, and that has its type.
LEMMA InitType == Init => TypeOK
BY LsnRange DEF Init, TypeOK, None, PC

\* A process that ends leaves every variable in its type.
LEMMA StopType == TypeOK /\ Stop => TypeOK'
BY LsnRange DEF TypeOK, Stop, disk, None, PC

\* So do the source and the slot.
LEMMA SourceType == TypeOK /\ Source => TypeOK'
<1> USE DEF batch, disk
<1>1. TypeOK /\ CommitTransaction => TypeOK'
  <2> SUFFICES ASSUME TypeOK, CommitTransaction PROVE TypeOK'
    OBVIOUS
  <2>1. PICK c \in Lsns, d \in Dates, S \in SUBSET Lsns :
          \E changes \in [S -> Bodies] :
            committed' = committed \cup {[commit |-> c, date |-> d, changes |-> changes]}
    BY DEF CommitTransaction
  <2>2. committed' \subseteq Transaction
    BY <2>1 DEF TypeOK, Transaction
  <2> QED
    BY <2>2 DEF TypeOK, CommitTransaction
<1>2. TypeOK /\ ReceiveFeedback => TypeOK'
  BY MaxLsnAssumption DEF TypeOK, ReceiveFeedback, None
<1>3. TypeOK /\ PersistSlot => TypeOK'
  BY DEF TypeOK, PersistSlot
<1>4. TypeOK /\ RestartPostgres => TypeOK'
  BY LsnRange DEF TypeOK, RestartPostgres, None
<1>5. TypeOK /\ Disconnect => TypeOK'
  BY DEF TypeOK, Disconnect
<1> QED
  BY <1>1, <1>2, <1>3, <1>4, <1>5 DEF Source

\* The records of a change keep the batch in its type.
LEMMA AppendType ==
  ASSUME TypeOK, NEW t \in committed, NEW l \in Lsns, NextMessage(t, l), AppendRecords(t, l)
  PROVE  TypeOK'
<1>1. RecordsAt(t, l) \subseteq Record
  BY RecordParts DEF NextMessage, IsNextChange, TypeOK
<1>2. pending' \subseteq Record /\ at' \in 0 .. MaxLsn
  BY <1>1, LsnRange DEF AppendRecords, TypeOK
<1> QED
  BY <1>2 DEF AppendRecords, TypeOK, source, disk

\* The groups a batch is cut into are pairs of a table and a date.
LEMMA FlushGroups == TypeOK => {<<r.table, r.date>> : r \in pending} \subseteq Group
BY DEF TypeOK, Record, Group

\* The names a group may be given are names.
LEMMA NamesAreNames ==
  ASSUME TypeOK, NEW g \in todo
  PROVE  NamesFor(g) \subseteq Name /\ RecordsIn(g) \subseteq Record
<1>1. g[1] \in Tables /\ g[2] \in Dates
  BY DEF TypeOK, Group
<1>2. RecordsIn(g) \subseteq Record
  BY DEF RecordsIn, TypeOK
<1>3. {r.lsn : r \in RecordsIn(g)} \subseteq Lsns
  BY <1>2 DEF Record
<1> QED
  BY <1>1, <1>2, <1>3 DEF NamesFor, Name

\* Every step of the consumer keeps the types; the place of the slot makes the
\* position a session starts at an LSN.
LEMMA ConsumerType ==
  TypeOK /\ IsBoundary(confirmed) /\ IsBoundary(persisted) /\ Consumer => TypeOK'
<1> SUFFICES ASSUME TypeOK, IsBoundary(confirmed), IsBoundary(persisted), Consumer
             PROVE  TypeOK'
  OBVIOUS
<1> USE LsnRange
<1>1. CASE Start
  <2>1. /\ created' \in 0 .. MaxLsn
        /\ confirmed' \in 0 .. MaxLsn
        /\ persisted' \in 0 .. MaxLsn
    <3>1. CASE created # NoSlot
      <4>1. confirmed # NoSlot /\ persisted # NoSlot
        BY <3>1 DEF IsBoundary, Captured, NoSlot, TypeOK, Transaction, Lsns
      <4> QED
        BY <1>1, <3>1, <4>1 DEF Start, DiscardStaleStaging, EnsureSlot, TypeOK
    <3>2. CASE created = NoSlot
      BY <1>1, <3>2 DEF Start, DiscardStaleStaging, EnsureSlot
    <3> QED
      BY <3>1, <3>2
  <2> QED
    BY <1>1, <2>1 DEF Start, DiscardStaleStaging, TypeOK, batch, None, PC
<1>2. CASE ReadBegin
  <2>1. transaction' \in 0 .. MaxLsn /\ at' \in 0 .. MaxLsn
    BY <1>2, TransactionParts DEF ReadBegin, TypeOK
  <2> QED
    BY <1>2, <2>1 DEF ReadBegin, TypeOK, source, disk
<1>3. CASE ReadRowChange
  BY <1>3, AppendType DEF ReadRowChange
<1>4. CASE ReadTruncate
  BY <1>4, AppendType DEF ReadTruncate
<1>5. CASE ReadCommit
  <2>1. position' \in 0 .. MaxLsn /\ confirm_lsn' \in 0 .. MaxLsn
    BY <1>5, TransactionParts DEF ReadCommit, TypeOK
  <2>2. pc' \in PC /\ todo' \subseteq Group
    BY <1>5, FlushGroups DEF ReadCommit, BeginFlush, TypeOK, PC
  <2> QED
    BY <1>5, <2>1, <2>2 DEF ReadCommit, TypeOK, disk, None
<1>6. CASE IdleFlush
  BY <1>6, FlushGroups DEF IdleFlush, BeginFlush, TypeOK, PC, source, disk
<1>7. CASE StageGroup
  <2>1. staging' \subseteq Name
    BY <1>7, NamesAreNames DEF StageGroup, TypeOK
  <2> QED
    BY <1>7, <2>1 DEF StageGroup, TypeOK, PC, source, batch
<1>8. CASE ReplaceFile
  <2>1. PICK g \in todo : \E n \in NamesFor(g) \cap staging :
          /\ staging' = staging \ {n}
          /\ bronze' = {f \in bronze : f.name # n}
                         \cup {[name |-> n, recs |-> RecordsIn(g)]}
          /\ todo' = todo \ {g}
          /\ pc' = IF todo = {g} THEN "confirming" ELSE "staging"
    BY <1>8 DEF ReplaceFile
  <2>2. staging' \subseteq Name /\ bronze' \subseteq File /\ todo' \subseteq Group
    BY <2>1, NamesAreNames DEF TypeOK, File
  <2>3. pc' \in PC
    BY <2>1 DEF PC
  <2> QED
    BY <1>8, <2>2, <2>3 DEF ReplaceFile, TypeOK, source
<1>9. CASE ConfirmBatch
  BY <1>9 DEF ConfirmBatch, TypeOK, PC, disk
<1>10. CASE RejectChange \/ IdleExit \/ SessionLost \/ Crash
  BY <1>10, StopType DEF RejectChange, IdleExit, SessionLost, Crash
<1> QED
  BY <1>1, <1>2, <1>3, <1>4, <1>5, <1>6, <1>7, <1>8, <1>9, <1>10 DEF Consumer

-----------------------------------------------------------------------------
(* The inductive invariant.                                                *)

\* A boundary of the stream lies before whatever commits next.
LEMMA BoundaryIsPast ==
  ASSUME NEW t, Extends(t, committed, created), NEW c, IsBoundary(c)
  PROVE  c < t.commit
BY DEF Extends, IsBoundary, Captured

\* A record in a file that starts in Q is in a file that starts in a larger set.
LEMMA InFileFromMonotone ==
  ASSUME NEW Q, NEW R, Q \subseteq R, NEW r, InFileFrom(r, Q)
  PROVE  InFileFrom(r, R)
BY DEF InFileFrom

\* Nothing is below the first position of the WAL.
LEMMA SealedUpToNone == TypeOK => SealedUpTo(None)
BY DEF TypeOK, SealedUpTo, Captured, Transaction, Lsns, None

\* The invariant holds at first.
LEMMA InitInvariant == Init => IInv
<1> SUFFICES ASSUME Init PROVE IInv
  OBVIOUS
<1>1. TypeOK
  BY InitType
<1>2. WalOK /\ SlotOK /\ SessionOK
  BY DEF Init, WalOK, SlotOK, SessionOK, Flushing, IsBoundary, Captured, NoSlot, None
<1>3. PendingOK /\ BatchOK /\ FilesOK /\ TransactionsAreWhole /\ FlushOK
  BY DEF Init, PendingOK, BatchOK, FilesOK, TransactionsAreWhole, FlushOK, Flushing
<1>4. DurableOK
  BY DEF Init, DurableOK, SealedUpTo, Captured
<1> QED
  BY <1>1, <1>2, <1>3, <1>4 DEF IInv

\* A new transaction is beyond all that was read, written or confirmed.
LEMMA CommitTransactionInvariant == IInv /\ CommitTransaction => IInv'
<1> SUFFICES ASSUME IInv, CommitTransaction PROVE IInv'
  OBVIOUS
<1>1. TypeOK'
  BY SourceType DEF IInv, Source
<1>2. PICK t : Extends(t, committed, created) /\ committed' = committed \cup {t}
  BY DEF CommitTransaction
<1>3. t \in Transaction /\ \A u \in committed' : u \in Transaction
  BY <1>1, <1>2 DEF TypeOK
<1>4. \A u \in committed : u.commit < t.commit /\ u # t
  BY <1>2, <1>3 DEF Extends, Transaction, Lsns
<1>5. /\ UNCHANGED <<created, confirmed, persisted, position, connected, feedback>>
      /\ UNCHANGED <<pc, transaction, at, pending, confirm_lsn, gauge, todo, bronze>>
  BY DEF CommitTransaction, batch, disk
<1>6. Captured \subseteq Captured' /\ Captured' \subseteq Captured \cup {t}
  BY <1>2, <1>5 DEF Captured
<1>7. \A c : IsBoundary(c) => IsBoundary(c)'
  BY <1>5, <1>6 DEF IsBoundary
<1>8. /\ confirmed < t.commit /\ persisted < t.commit
      /\ feedback < t.commit /\ gauge < t.commit
      /\ pc # "stopped" => position < t.commit
  <2>1. 0 < t.commit
    BY <1>3 DEF Transaction, Lsns
  <2>2. IsBoundary(confirmed) /\ IsBoundary(persisted)
    BY DEF IInv, SlotOK
  <2>3. feedback = None \/ IsBoundary(feedback)
    BY DEF IInv, SlotOK
  <2>4. gauge = None \/ IsBoundary(gauge)
    BY DEF IInv, SessionOK
  <2>5. pc # "stopped" => IsBoundary(position)
    BY DEF IInv, SessionOK
  <2> QED
    BY <1>2, <2>1, <2>2, <2>3, <2>4, <2>5, BoundaryIsPast DEF None
<1>9. WalOK'
  BY <1>2, <1>3, <1>4 DEF IInv, WalOK, Extends, Transaction, Lsns
<1>10. SlotOK'
  BY <1>5, <1>7 DEF IInv, SlotOK
<1>11. SessionOK'
  <2>1. ASSUME transaction # None
        PROVE  \E u \in committed' :
                 u.commit = transaction /\ IsNext(u, committed', position)
    <3>1. PICK u \in committed : u.commit = transaction /\ IsNext(u, committed, position)
      BY <2>1 DEF IInv, SessionOK
    <3> QED
      BY <1>2, <1>3, <1>4, <3>1 DEF IsNext, Transaction, Lsns
  <2> QED
    BY <1>5, <1>7, <2>1 DEF IInv, SessionOK, Flushing
<1>12. PendingOK'
  BY <1>5, <1>6 DEF IInv, PendingOK
<1>13. BatchOK'
  <2>1. t.commit # transaction
    BY <1>3, <1>4 DEF IInv, SessionOK, None, Transaction, Lsns
  <2>2. t.commit <= position => pending = {}
    BY <1>3, <1>8 DEF IInv, SessionOK, TypeOK, Transaction, Lsns
  <2>3. pc # "stopped" => ~ (t.commit <= position)
    BY <1>3, <1>8 DEF IInv, TypeOK, Transaction, Lsns
  <2>4. \A u \in committed' : u.commit <= position =>
           RecordsOf(u) \cap pending = {} \/ RecordsOf(u) \subseteq pending
    BY <1>2, <2>2 DEF IInv, BatchOK
  <2>5. \A u \in committed' : \A l \in DOMAIN u.changes :
           u.commit = transaction /\ l <= at => RecordsAt(u, l) \subseteq pending
    BY <1>2, <2>1 DEF IInv, BatchOK
  <2>6. pc # "stopped" /\ connected =>
          \A u \in Captured' :
            confirmed < u.commit /\ gauge < u.commit /\ u.commit <= position =>
              RecordsOf(u) \subseteq pending
    BY <1>6, <2>3 DEF IInv, BatchOK
  <2> QED
    BY <1>5, <2>4, <2>5, <2>6 DEF BatchOK
<1>14. FilesOK'
  BY <1>5, <1>6 DEF IInv, FilesOK
<1>15. TransactionsAreWhole'
  <2>1. ASSUME NEW f \in bronze, NEW r \in f.recs PROVE r \notin RecordsOf(t)
    <3>1. PICK u \in committed : r \in RecordsOf(u)
      BY <2>1 DEF IInv, FilesOK, Captured
    <3> QED
      BY <1>2, <1>3, <1>4, <3>1, RecordsByChange DEF Transaction, Lsns
  <2> QED
    BY <1>2, <1>5, <2>1 DEF IInv, TransactionsAreWhole
<1>16. DurableOK'
  <2>1. ASSUME NEW c, c < t.commit, c \in Int, SealedUpTo(c)
        PROVE  \A u \in Captured' :
                 u.commit <= c => \A r \in RecordsOf(u) : InFileFrom(r, UpTo(c))
    BY <1>3, <1>6, <2>1 DEF SealedUpTo, Transaction, Lsns
  <2>2. confirmed \in Int /\ persisted \in Int /\ feedback \in Int /\ gauge \in Int
    BY MaxLsnAssumption DEF IInv, TypeOK, NoSlot
  <2> QED
    BY <1>5, <1>8, <2>1, <2>2 DEF IInv, DurableOK, SealedUpTo, InFileFrom
<1>17. FlushOK'
  BY <1>5 DEF IInv, FlushOK, Flushing, InFileFrom
<1> QED
  BY <1>1, <1>9, <1>10, <1>11, <1>12, <1>13, <1>14, <1>15, <1>16, <1>17 DEF IInv

\* The walsender moves the slot to a position that was sealed when it was sent.
LEMMA ReceiveFeedbackInvariant == IInv /\ ReceiveFeedback => IInv'
<1> SUFFICES ASSUME IInv, ReceiveFeedback PROVE IInv'
  OBVIOUS
<1>1. TypeOK'
  BY SourceType DEF IInv, Source
<1>2. /\ confirmed' = feedback /\ feedback' = None /\ feedback # None
      /\ UNCHANGED <<committed, created, persisted, position, connected>>
      /\ UNCHANGED <<pc, transaction, at, pending, confirm_lsn, gauge, todo, bronze>>
  BY DEF ReceiveFeedback, batch, disk
<1>3. Captured' = Captured /\ \A c : IsBoundary(c)' <=> IsBoundary(c)
  BY <1>2 DEF Captured, IsBoundary
<1>4. /\ confirmed \in Int /\ persisted \in Int /\ feedback \in Int
      /\ gauge \in Int /\ position \in Int
  BY MaxLsnAssumption DEF IInv, TypeOK, NoSlot
<1>5. \A t \in committed : t.commit \in Int
  BY TransactionParts DEF IInv, TypeOK, Lsns
<1>6. SlotOK'
  BY <1>2, <1>3, <1>4 DEF IInv, SlotOK
<1>7. SessionOK'
  BY <1>1, <1>2, <1>3, <1>4 DEF IInv, SessionOK, Flushing, TypeOK, None
<1>8. PendingOK'
  <2>1. pending # {} => feedback <= gauge
    BY DEF IInv, SessionOK
  <2> QED
    BY <1>2, <1>3, <1>4, <1>5, <2>1 DEF IInv, PendingOK, Captured
<1>9. WalOK' /\ FilesOK' /\ TransactionsAreWhole' /\ FlushOK'
  BY <1>2, <1>3 DEF IInv, WalOK, FilesOK, TransactionsAreWhole, FlushOK, Flushing, InFileFrom
<1>10. BatchOK'
  <2>1. \A t \in Captured : feedback < t.commit => confirmed < t.commit
    BY <1>2, <1>4, <1>5 DEF IInv, SlotOK, Captured
  <2> QED
    BY <1>2, <1>3, <2>1 DEF IInv, BatchOK
<1>11. DurableOK'
  <2>1. SealedUpTo(None)
    BY SealedUpToNone DEF IInv
  <2> QED
    BY <1>2, <1>3, <2>1 DEF IInv, DurableOK, SealedUpTo, InFileFrom
<1> QED
  BY <1>1, <1>6, <1>7, <1>8, <1>9, <1>10, <1>11 DEF IInv

\* PersistSlot, RestartPostgres and Disconnect leave the WAL, the process and the
\* files alone; the confirmed position stays or falls back to the persisted one.
LEMMA SlotFallsBackInvariant ==
  ASSUME IInv, PersistSlot \/ RestartPostgres \/ Disconnect
  PROVE  IInv'
<1>1. TypeOK'
  BY SourceType DEF IInv, Source
<1>2. /\ UNCHANGED <<committed, created, position>>
      /\ UNCHANGED <<pc, transaction, at, pending, confirm_lsn, gauge, todo, bronze>>
      /\ confirmed' \in {confirmed, persisted} /\ persisted' \in {confirmed, persisted}
      /\ confirmed' = confirmed \/ (persisted' = persisted /\ feedback' = None /\ ~ connected')
      /\ feedback' \in {feedback, None}
      /\ connected' => connected
      /\ created = NoSlot => UNCHANGED feedback
  BY DEF PersistSlot, RestartPostgres, Disconnect, batch, disk
<1>3. Captured' = Captured /\ \A c : IsBoundary(c)' <=> IsBoundary(c)
  BY <1>2 DEF Captured, IsBoundary
<1>4. /\ confirmed \in Int /\ persisted \in Int /\ feedback \in Int
      /\ gauge \in Int /\ position \in Int /\ 0 <= gauge
  BY MaxLsnAssumption DEF IInv, TypeOK, NoSlot
<1>5. \A t \in committed : t.commit \in Int
  BY TransactionParts DEF IInv, TypeOK, Lsns
<1>6. SlotOK'
  BY <1>2, <1>3, <1>4 DEF IInv, SlotOK
<1>7. SessionOK'
  <2>1. pc # "stopped" => confirmed' <= position /\ feedback' <= gauge
    BY <1>2, <1>4 DEF IInv, SessionOK, SlotOK, None
  <2> QED
    BY <1>2, <1>3, <2>1 DEF IInv, SessionOK, Flushing
<1>8. PendingOK'
  <2>1. \A t \in Captured : confirmed < t.commit => confirmed' < t.commit
    BY <1>2, <1>4, <1>5 DEF IInv, SlotOK, Captured
  <2> QED
    BY <1>2, <1>3, <2>1 DEF IInv, PendingOK
<1>9. WalOK' /\ FilesOK' /\ TransactionsAreWhole' /\ FlushOK'
  BY <1>2, <1>3 DEF IInv, WalOK, FilesOK, TransactionsAreWhole, FlushOK, Flushing, InFileFrom
<1>10. BatchOK'
  BY <1>2, <1>3 DEF IInv, BatchOK
<1>11. DurableOK'
  <2>1. SealedUpTo(None)
    BY SealedUpToNone DEF IInv
  <2> QED
    BY <1>2, <1>3, <2>1 DEF IInv, DurableOK, SealedUpTo, InFileFrom
<1> QED
  BY <1>1, <1>6, <1>7, <1>8, <1>9, <1>10, <1>11 DEF IInv

\* However the process ends, it takes nothing but its memory with it.
LEMMA StopInvariant ==
  ASSUME IInv, Stop
  PROVE  IInv'
<1>1. TypeOK'
  BY StopType DEF IInv
<1>2. /\ UNCHANGED <<committed, created, confirmed, persisted, position, feedback, bronze>>
      /\ pc' = "stopped" /\ transaction' = None /\ pending' = {} /\ confirm_lsn' = None
      /\ gauge' = None /\ todo' = {}
  BY DEF Stop, disk, None
<1>3. Captured' = Captured /\ \A c : IsBoundary(c)' <=> IsBoundary(c)
  BY <1>2 DEF Captured, IsBoundary
<1>4. WalOK' /\ FilesOK' /\ TransactionsAreWhole'
  BY <1>2, <1>3 DEF IInv, WalOK, FilesOK, TransactionsAreWhole
<1>5. SlotOK'
  BY <1>2, <1>3 DEF IInv, SlotOK
<1>6. SessionOK' /\ PendingOK' /\ FlushOK'
  BY <1>2 DEF SessionOK, PendingOK, FlushOK, Flushing
<1>7. BatchOK'
  <2>1. \A t \in committed : t.commit # None
    BY TransactionParts DEF IInv, TypeOK, Lsns, None
  <2> QED
    BY <1>2, <2>1 DEF BatchOK
<1>8. DurableOK'
  <2>1. SealedUpTo(None)
    BY SealedUpToNone DEF IInv
  <2> QED
    BY <1>2, <1>3, <2>1 DEF IInv, DurableOK, SealedUpTo, InFileFrom
<1> QED
  BY <1>1, <1>4, <1>5, <1>6, <1>7, <1>8 DEF IInv

\* A session starts with an empty batch at the confirmed position.
LEMMA StartInvariant == IInv /\ Start => IInv'
<1> SUFFICES ASSUME IInv, Start PROVE IInv'
  OBVIOUS
<1>1. TypeOK'
  BY ConsumerType DEF IInv, SlotOK, Consumer
<1>2. /\ UNCHANGED <<committed, transaction, at, pending, confirm_lsn, gauge, todo, bronze>>
      /\ pc = "stopped" /\ pc' = "reading"
      /\ position' = confirmed' /\ feedback' = None
      /\ EnsureSlot
  BY DEF Start, DiscardStaleStaging, batch
<1>3. /\ transaction = None /\ pending = {} /\ gauge = None /\ confirm_lsn = None
      /\ todo = {}
  BY <1>2 DEF IInv, SessionOK, Flushing
<1>4. CASE created # NoSlot /\ UNCHANGED <<created, confirmed, persisted>>
  <2>1. Captured' = Captured /\ \A c : IsBoundary(c)' <=> IsBoundary(c)
    BY <1>2, <1>4 DEF Captured, IsBoundary
  <2>2. WalOK' /\ FilesOK' /\ TransactionsAreWhole'
    BY <1>2, <2>1 DEF IInv, WalOK, FilesOK, TransactionsAreWhole
  <2>3. SlotOK'
    BY <1>2, <1>4, <2>1 DEF IInv, SlotOK
  <2>4. SessionOK'
    <3>1. confirmed' \in Nat
      <4>1. confirmed # NoSlot
        BY <1>4 DEF IInv, SlotOK, IsBoundary, Captured, NoSlot, TypeOK, Transaction, Lsns
      <4> QED
        BY <1>4, <4>1, MaxLsnAssumption DEF IInv, TypeOK
    <3>2. IsBoundary(position)'
      BY <1>2, <1>4, <2>1 DEF IInv, SlotOK, IsBoundary
    <3> QED
      BY <1>2, <1>3, <3>1, <3>2 DEF SessionOK, Flushing, None
  <2>5. PendingOK' /\ FlushOK'
    BY <1>2, <1>3 DEF PendingOK, FlushOK
  <2>6. BatchOK'
    BY <1>1, <1>2, <1>3, <1>4, <2>1 DEF IInv, BatchOK, TypeOK, Captured, Transaction, Lsns, None
  <2>7. DurableOK'
    <3>1. SealedUpTo(None)
      BY SealedUpToNone DEF IInv
    <3> QED
      BY <1>2, <1>4, <2>1, <3>1 DEF IInv, DurableOK, SealedUpTo, InFileFrom
  <2> QED
    BY <1>1, <2>2, <2>3, <2>4, <2>5, <2>6, <2>7 DEF IInv
<1>5. CASE created = NoSlot
  <2>1. PICK c \in 0 .. MaxLsn :
          EndOfWal(c) /\ created' = c /\ confirmed' = c /\ persisted' = c
    BY <1>2, <1>5 DEF EnsureSlot
  <2>2. Captured = {} /\ Captured' = {}
    BY <1>1, <1>2, <1>5, <2>1 DEF Captured, EndOfWal, TypeOK, Transaction, Lsns
  <2>3. IsBoundary(confirmed)' /\ IsBoundary(persisted)' /\ IsBoundary(position)'
    BY <1>2, <2>1 DEF IsBoundary
  <2>4. WalOK' /\ TransactionsAreWhole'
    BY <1>2 DEF IInv, WalOK, TransactionsAreWhole
  <2>5. FilesOK'
    BY <1>2, <2>2 DEF IInv, FilesOK
  <2>6. SlotOK'
    BY <1>2, <2>1, <2>3 DEF SlotOK, NoSlot
  <2>7. SessionOK'
    BY <1>2, <1>3, <2>1, <2>3 DEF SessionOK, Flushing, None
  <2>8. PendingOK' /\ FlushOK' /\ DurableOK'
    BY <1>2, <1>3, <2>2 DEF PendingOK, FlushOK, DurableOK, SealedUpTo
  <2>9. BatchOK'
    BY <1>1, <1>2, <1>3, <2>2 DEF BatchOK, TypeOK, Transaction, Lsns, None
  <2> QED
    BY <1>1, <2>4, <2>5, <2>6, <2>7, <2>8, <2>9 DEF IInv
<1> QED
  BY <1>2, <1>4, <1>5 DEF EnsureSlot

\* Positions of a running process are numbers in order, and transactions are too.
LEMMA Positions ==
  ASSUME IInv
  PROVE  /\ confirmed \in Int /\ persisted \in Int /\ created \in Int
         /\ feedback \in Nat /\ gauge \in Nat /\ position \in Nat /\ at \in Nat
         /\ confirm_lsn \in Nat /\ transaction \in Nat
         /\ \A t \in committed :
              t \in Transaction /\ t.commit \in Nat \ {0} /\ DOMAIN t.changes \subseteq Nat \ {0}
         /\ \A r \in pending : r.lsn \in Nat
BY TransactionParts, MaxLsnAssumption DEF IInv, TypeOK, NoSlot, Lsns, Record

\* Begin: the transaction is the next one after the session's position.
LEMMA ReadBeginInvariant == IInv /\ ReadBegin => IInv'
<1> SUFFICES ASSUME IInv, ReadBegin PROVE IInv'
  OBVIOUS
<1>1. TypeOK'
  BY ConsumerType DEF IInv, SlotOK, Consumer
<1>2. PICK t \in committed : IsNext(t, committed, position) /\ transaction' = t.commit
  BY DEF ReadBegin
<1>3. /\ UNCHANGED <<committed, created, confirmed, persisted, position, connected, feedback>>
      /\ UNCHANGED <<pc, pending, confirm_lsn, gauge, todo, bronze>>
      /\ transaction = None /\ at' = 0 /\ pc = "reading"
  BY DEF ReadBegin, Reading, source, disk
<1>4. Captured' = Captured /\ \A c : IsBoundary(c)' <=> IsBoundary(c)
  BY <1>3 DEF Captured, IsBoundary
<1>5. WalOK' /\ FilesOK' /\ TransactionsAreWhole' /\ SlotOK'
  BY <1>3, <1>4 DEF IInv, WalOK, FilesOK, TransactionsAreWhole, SlotOK
<1>6. SessionOK'
  BY <1>2, <1>3, <1>4, Positions DEF IInv, SessionOK, Flushing, None
<1>7. PendingOK'
  BY <1>3, <1>4, Positions DEF IInv, PendingOK, Captured, None
<1>8. BatchOK'
  BY <1>3, <1>4, Positions DEF IInv, BatchOK
<1>9. DurableOK' /\ FlushOK'
  BY <1>3, <1>4 DEF IInv, DurableOK, SealedUpTo, InFileFrom, FlushOK, Flushing
<1> QED
  BY <1>1, <1>5, <1>6, <1>7, <1>8, <1>9 DEF IInv

\* The transaction being read is the next one of the stream, so it is captured
\* and lies after all that was confirmed.
LEMMA CurrentTransaction ==
  ASSUME IInv, NEW t \in committed, t.commit = transaction
  PROVE  /\ IsNext(t, committed, position) /\ t \in Captured
         /\ confirmed < t.commit /\ gauge < t.commit /\ position < t.commit
         /\ pc # "stopped" /\ transaction # None
<1>1. transaction # None
  BY Positions DEF None
<1>2. PICK u \in committed : u.commit = transaction /\ IsNext(u, committed, position)
  BY <1>1 DEF IInv, SessionOK
<1>3. u = t
  BY <1>2 DEF IInv, WalOK
<1>4. pc # "stopped"
  BY <1>1 DEF IInv, SessionOK
<1>5. position < t.commit
  BY <1>2, <1>3, Positions DEF IsNext
<1>6. IsBoundary(position) /\ confirmed <= position /\ gauge <= position
  BY <1>4 DEF IInv, SessionOK
<1>7. t \in Captured
  <2>1. created # NoSlot
    BY <1>4 DEF IInv, SlotOK
  <2>2. created <= position
    BY <1>6, Positions DEF IsBoundary, Captured
  <2> QED
    BY <1>5, <2>1, <2>2, Positions DEF Captured
<1> QED
  BY <1>1, <1>2, <1>3, <1>4, <1>5, <1>6, <1>7, Positions

\* A change: its records join the batch, and the batch is whole up to it.
LEMMA AppendInvariant ==
  ASSUME IInv, pc = "reading", NEW t \in committed, NEW l \in Lsns,
         NextMessage(t, l), t.changes[l].valid, AppendRecords(t, l)
  PROVE  IInv'
<1>1. TypeOK'
  BY AppendType DEF IInv
<1>2. /\ UNCHANGED <<committed, created, confirmed, persisted, position, connected, feedback>>
      /\ UNCHANGED <<pc, transaction, confirm_lsn, gauge, todo, bronze>>
      /\ pending' = pending \cup RecordsAt(t, l) /\ at' = l
  BY DEF AppendRecords, source, disk
<1>3. Captured' = Captured /\ \A c : IsBoundary(c)' <=> IsBoundary(c)
  BY <1>2 DEF Captured, IsBoundary
<1>4. /\ t.commit = transaction /\ l \in DOMAIN t.changes /\ at < l
      /\ \A n \in DOMAIN t.changes : n > at => l <= n
  BY Positions DEF NextMessage, IsNextChange
<1>5. /\ t \in Captured /\ transaction # None
      /\ confirmed < t.commit /\ gauge < t.commit /\ position < t.commit
  BY <1>4, CurrentTransaction
<1>6. WalOK' /\ FilesOK' /\ TransactionsAreWhole' /\ SlotOK'
  BY <1>2, <1>3 DEF IInv, WalOK, FilesOK, TransactionsAreWhole, SlotOK
<1>7. SessionOK'
  BY <1>2, <1>3, <1>5 DEF IInv, SessionOK, Flushing
<1>8. PendingOK'
  <2>1. ASSUME NEW r \in RecordsAt(t, l)
        PROVE  r \in RecordsOf(t) /\ r.lsn = l
    BY <1>4, RecordParts, Positions
  <2>2. ASSUME NEW r \in pending
        PROVE  \E u \in Captured :
                 /\ r \in RecordsOf(u) /\ u.changes[r.lsn].valid
                 /\ confirmed < u.commit /\ gauge < u.commit
                 /\ u.commit <= position \/ (u.commit = transaction /\ r.lsn <= l)
    BY <1>4, Positions DEF IInv, PendingOK
  <2>3. ASSUME NEW r \in RecordsAt(t, l)
        PROVE  \E u \in Captured :
                 /\ r \in RecordsOf(u) /\ u.changes[r.lsn].valid
                 /\ confirmed < u.commit /\ gauge < u.commit
                 /\ u.commit <= position \/ (u.commit = transaction /\ r.lsn <= l)
    BY <1>4, <1>5, <2>1, Positions
  <2> QED
    BY <1>2, <1>3, <2>2, <2>3 DEF PendingOK
<1>9. BatchOK'
  <2>1. ASSUME NEW u \in committed, NEW n \in DOMAIN u.changes,
               u.commit = transaction, n <= l
        PROVE  RecordsAt(u, n) \subseteq pending \cup RecordsAt(t, l)
    <3>1. u = t
      BY <1>4, <2>1 DEF IInv, WalOK
    <3>2. n <= at \/ n = l
      BY <1>4, <2>1, <3>1, Positions
    <3> QED
      BY <1>4, <2>1, <3>1, <3>2 DEF IInv, BatchOK
  <2>2. ASSUME NEW u \in committed, u.commit <= position
        PROVE  RecordsOf(u) \cap RecordsAt(t, l) = {}
    <3>1. u.commit # t.commit
      BY <1>5, <2>2, Positions
    <3> QED
      BY <1>4, <3>1, RecordParts, RecordsByChange, Positions
  <2>3. \A u \in committed : u.commit <= position =>
          RecordsOf(u) \cap pending' = {} \/ RecordsOf(u) \subseteq pending'
    BY <1>2, <2>2 DEF IInv, BatchOK
  <2> QED
    BY <1>2, <1>3, <2>1, <2>3 DEF IInv, BatchOK
<1>10. DurableOK' /\ FlushOK'
  BY <1>2, <1>3 DEF IInv, DurableOK, SealedUpTo, InFileFrom, FlushOK, Flushing
<1> QED
  BY <1>1, <1>6, <1>7, <1>8, <1>9, <1>10 DEF IInv

\* Commit: the transaction is whole in the batch, and the boundary moves to it.
LEMMA ReadCommitInvariant == IInv /\ ReadCommit => IInv'
<1> SUFFICES ASSUME IInv, ReadCommit PROVE IInv'
  OBVIOUS
<1>1. TypeOK'
  BY ConsumerType DEF IInv, SlotOK, Consumer
<1>2. PICK t \in committed :
        t.commit = transaction /\ NoChangeAfter(t, at)
          /\ position' = t.commit /\ confirm_lsn' = t.commit
  BY DEF ReadCommit
<1>3. /\ UNCHANGED <<committed, created, confirmed, persisted, connected, feedback>>
      /\ UNCHANGED <<pending, gauge, bronze>>
      /\ transaction' = None /\ at' = 0 /\ pc = "reading"
      /\ \/ pc' = "staging" /\ todo' = {<<r.table, r.date>> : r \in pending}
         \/ pc' = "reading" /\ todo' = todo
  BY DEF ReadCommit, Reading, BeginFlush, disk
<1>4. Captured' = Captured /\ \A c : IsBoundary(c)' <=> IsBoundary(c)
  BY <1>3 DEF Captured, IsBoundary
<1>5. /\ IsNext(t, committed, position) /\ t \in Captured
      /\ confirmed < t.commit /\ gauge < t.commit /\ position < t.commit
  BY <1>2, CurrentTransaction
<1>6. WalOK' /\ FilesOK' /\ TransactionsAreWhole'
  BY <1>3, <1>4 DEF IInv, WalOK, FilesOK, TransactionsAreWhole
<1>7. SlotOK'
  BY <1>3, <1>4 DEF IInv, SlotOK
<1>8. SessionOK'
  <2>1. IsBoundary(position)'
    BY <1>2, <1>5, <1>4 DEF IsBoundary
  <2> QED
    BY <1>2, <1>3, <1>4, <1>5, <2>1, Positions DEF IInv, SessionOK, Flushing, None
<1>9. PendingOK'
  BY <1>2, <1>3, <1>4, <1>5, Positions DEF IInv, PendingOK, Captured
<1>10. RecordsOf(t) \subseteq pending
  <2>1. ASSUME NEW r \in RecordsOf(t) PROVE r \in pending
    BY <1>2, RecordsByChange, Positions DEF NoChangeAfter, IInv, BatchOK
  <2> QED
    BY <2>1
<1>11. ASSUME NEW u \in committed, u.commit <= t.commit
       PROVE  u.commit <= position \/ u = t
  BY <1>5, <1>11, Positions DEF IsNext, IInv, WalOK
<1>12. BatchOK'
  <2>1. \A u \in committed : u.commit # None
    BY Positions DEF None
  <2>2. \A u \in committed : u.commit <= t.commit =>
          RecordsOf(u) \cap pending = {} \/ RecordsOf(u) \subseteq pending
    BY <1>10, <1>11 DEF IInv, BatchOK
  <2>3. pc # "stopped" /\ connected =>
        \A u \in Captured :
          confirmed < u.commit /\ gauge < u.commit /\ u.commit <= t.commit =>
            RecordsOf(u) \subseteq pending
    BY <1>10, <1>11 DEF IInv, BatchOK, Captured
  <2> QED
    BY <1>2, <1>3, <1>4, <2>1, <2>2, <2>3 DEF BatchOK
<1>13. DurableOK'
  BY <1>3, <1>4 DEF IInv, DurableOK, SealedUpTo, InFileFrom
<1>14. FlushOK'
  BY <1>3 DEF FlushOK, Flushing
<1> QED
  BY <1>1, <1>6, <1>7, <1>8, <1>9, <1>12, <1>13, <1>14 DEF IInv

\* An idle flush begins at the last boundary.
LEMMA IdleFlushInvariant == IInv /\ IdleFlush => IInv'
<1> SUFFICES ASSUME IInv, IdleFlush PROVE IInv'
  OBVIOUS
<1>1. TypeOK'
  BY ConsumerType DEF IInv, SlotOK, Consumer
<1>2. /\ UNCHANGED <<committed, created, confirmed, persisted, position, connected, feedback>>
      /\ UNCHANGED <<transaction, at, pending, confirm_lsn, gauge, bronze>>
      /\ transaction = None /\ pending # {} /\ pc = "reading"
      /\ pc' = "staging" /\ todo' = {<<r.table, r.date>> : r \in pending}
  BY DEF IdleFlush, Reading, BeginFlush, source, disk
<1>3. Captured' = Captured /\ \A c : IsBoundary(c)' <=> IsBoundary(c)
  BY <1>2 DEF Captured, IsBoundary
<1>4. WalOK' /\ FilesOK' /\ TransactionsAreWhole' /\ SlotOK'
  BY <1>2, <1>3 DEF IInv, WalOK, FilesOK, TransactionsAreWhole, SlotOK
<1>5. SessionOK'
  BY <1>2, <1>3 DEF IInv, SessionOK, Flushing
<1>6. PendingOK' /\ BatchOK'
  BY <1>2, <1>3 DEF IInv, PendingOK, BatchOK
<1>7. DurableOK'
  BY <1>2, <1>3 DEF IInv, DurableOK, SealedUpTo, InFileFrom
<1>8. FlushOK'
  BY <1>2 DEF FlushOK, Flushing
<1> QED
  BY <1>1, <1>4, <1>5, <1>6, <1>7, <1>8 DEF IInv

\* A staging file is invisible to the readers.
LEMMA StageGroupInvariant == IInv /\ StageGroup => IInv'
<1> SUFFICES ASSUME IInv, StageGroup PROVE IInv'
  OBVIOUS
<1>1. TypeOK'
  BY ConsumerType DEF IInv, SlotOK, Consumer
<1>2. /\ UNCHANGED <<committed, created, confirmed, persisted, position, connected, feedback>>
      /\ UNCHANGED <<transaction, at, pending, confirm_lsn, gauge, todo, bronze>>
      /\ pc = "staging" /\ pc' = "replacing"
  BY DEF StageGroup, source, batch
<1>3. Captured' = Captured /\ \A c : IsBoundary(c)' <=> IsBoundary(c)
  BY <1>2 DEF Captured, IsBoundary
<1>4. WalOK' /\ FilesOK' /\ TransactionsAreWhole' /\ SlotOK'
  BY <1>2, <1>3 DEF IInv, WalOK, FilesOK, TransactionsAreWhole, SlotOK
<1>5. SessionOK'
  BY <1>2, <1>3 DEF IInv, SessionOK, Flushing
<1>6. PendingOK' /\ BatchOK'
  BY <1>2, <1>3 DEF IInv, PendingOK, BatchOK
<1>7. DurableOK' /\ FlushOK'
  BY <1>2, <1>3 DEF IInv, DurableOK, SealedUpTo, InFileFrom, FlushOK, Flushing
<1> QED
  BY <1>1, <1>4, <1>5, <1>6, <1>7 DEF IInv

\* While a batch is written its records are those of transactions read whole,
\* later than everything confirmed, and free of changes the contract rejects.
LEMMA BatchIsComplete ==
  ASSUME IInv, Flushing, NEW r \in pending
  PROVE  \E t \in Captured :
           /\ r \in RecordsOf(t) /\ RecordsOf(t) \subseteq pending
           /\ confirmed < t.commit /\ gauge < t.commit /\ t.commit <= position
           /\ \A l \in DOMAIN t.changes : t.changes[l].valid
<1>1. PICK t \in Captured :
        /\ r \in RecordsOf(t)
        /\ confirmed < t.commit /\ gauge < t.commit
        /\ t.commit <= position \/ t.commit = transaction
  BY DEF IInv, PendingOK
<1>2. t \in committed
  BY DEF Captured
<1>3. t.commit <= position
  BY <1>1, <1>2, Positions DEF IInv, SessionOK, None
<1>4. RecordsOf(t) \subseteq pending
  BY <1>1, <1>2, <1>3 DEF IInv, BatchOK
<1>5. ASSUME NEW l \in DOMAIN t.changes PROVE t.changes[l].valid
  <2>1. PICK q \in RecordsAt(t, l) : q \in RecordsOf(t) /\ q.lsn = l
    BY <1>2, ChangesLeaveRecords, RecordParts, Positions
  <2>2. PICK u \in Captured : q \in RecordsOf(u) /\ u.changes[q.lsn].valid
    BY <1>4, <2>1 DEF IInv, PendingOK
  <2>3. u = t
    BY <1>2, <2>1, <2>2, LsnNamesTransaction DEF IInv, Captured, TypeOK
  <2> QED
    BY <2>1, <2>2, <2>3
<1> QED
  BY <1>1, <1>3, <1>4, <1>5

\* A file a batch writes replaces no file that begins with a confirmed record: the
\* two would share their first record, and a batch holds only later transactions.
LEMMA ConfirmedFilesStay ==
  ASSUME IInv, Flushing, NEW g \in todo, NEW n \in NamesFor(g),
         NEW f \in bronze, f.name = n,
         NEW c \in Int, NEW q \in f.recs, q.lsn = f.name.lo, q.xid <= c
  PROVE  confirmed < c /\ gauge < c
<1>1. PICK r \in RecordsIn(g) : r.lsn = n.lo
  BY DEF NamesFor, IsNameOf
<1>2. r \in pending
  BY DEF RecordsIn
<1>3. PICK t \in Captured : r \in RecordsOf(t) /\ confirmed < t.commit /\ gauge < t.commit
  BY <1>2, BatchIsComplete
<1>4. PICK u \in Captured : q \in RecordsOf(u)
  BY DEF IInv, FilesOK
<1>5. t = u
  BY <1>1, <1>3, <1>4, LsnNamesTransaction DEF IInv, Captured, TypeOK
<1>6. q.xid = t.commit
  BY <1>4, <1>5, RecordsByChange, Positions DEF Captured
<1> QED
  BY <1>3, <1>6, Positions DEF Captured

\* os.replace: the file that appears holds whole transactions, and one that it
\* overwrites was not needed for any sealed position.
LEMMA ReplaceFileInvariant == IInv /\ ReplaceFile => IInv'
<1> SUFFICES ASSUME IInv, ReplaceFile PROVE IInv'
  OBVIOUS
<1>1. TypeOK'
  BY ConsumerType DEF IInv, SlotOK, Consumer
<1>0. PICK g \in todo : \E n \in NamesFor(g) :
        /\ bronze' = {f \in bronze : f.name # n}
                       \cup {[name |-> n, recs |-> RecordsIn(g)]}
        /\ todo' = todo \ {g}
        /\ pc' = IF todo = {g} THEN "confirming" ELSE "staging"
  BY DEF ReplaceFile
<1>2. PICK n \in NamesFor(g) :
        /\ bronze' = {f \in bronze : f.name # n}
                       \cup {[name |-> n, recs |-> RecordsIn(g)]}
        /\ todo' = todo \ {g}
        /\ pc' = IF todo = {g} THEN "confirming" ELSE "staging"
  BY <1>0
<1>3. /\ UNCHANGED <<committed, created, confirmed, persisted, position, connected, feedback>>
      /\ UNCHANGED <<transaction, at, pending, confirm_lsn, gauge>>
      /\ pc = "replacing" /\ Flushing /\ Flushing'
  BY <1>2 DEF ReplaceFile, source, Flushing
<1>4. Captured' = Captured /\ \A c : IsBoundary(c)' <=> IsBoundary(c)
  BY <1>3 DEF Captured, IsBoundary
<1> DEFINE new == [name |-> n, recs |-> RecordsIn(g)]
<1>5. /\ new \in bronze' /\ new.name = n /\ new.recs = RecordsIn(g)
      /\ RecordsIn(g) \subseteq pending
      /\ n.table = g[1] /\ n.date = g[2]
      /\ \E q \in RecordsIn(g) : q.lsn = n.lo
      /\ g = <<g[1], g[2]>>
  BY <1>2 DEF RecordsIn, NamesFor, IsNameOf, IInv, TypeOK, Group
<1>6. \A f \in bronze' : f \in bronze \/ f = new
  BY <1>2
<1>7. WalOK'
  BY <1>3 DEF IInv, WalOK
<1>8. SlotOK'
  BY <1>3, <1>4 DEF IInv, SlotOK
<1>9. SessionOK'
  <2>1. pc' = "confirming" => todo' = {}
    BY <1>2
  <2> QED
    BY <1>3, <1>4, <2>1 DEF IInv, SessionOK, Flushing
<1>10. PendingOK' /\ BatchOK'
  BY <1>3, <1>4 DEF IInv, PendingOK, BatchOK, Flushing
<1>11. FilesOK'
  <2>1. ASSUME NEW r \in RecordsIn(g)
        PROVE  /\ r.table = n.table /\ r.date = n.date
               /\ \E t \in Captured :
                    r \in RecordsOf(t) /\ \A l \in DOMAIN t.changes : t.changes[l].valid
    BY <1>3, <1>5, <2>1, BatchIsComplete DEF RecordsIn
  <2> QED
    BY <1>4, <1>5, <1>6, <2>1 DEF IInv, FilesOK
<1>12. TransactionsAreWhole'
  <2>1. ASSUME NEW t \in committed, NEW r \in RecordsOf(t), r \in RecordsIn(g)
        PROVE  \A q \in RecordsOf(t) : q.table = n.table /\ q.date = n.date => q \in RecordsIn(g)
    <3>1. PICK u \in Captured : r \in RecordsOf(u) /\ RecordsOf(u) \subseteq pending
      BY <1>3, <1>5, <2>1, BatchIsComplete
    <3>2. u = t
      BY <2>1, <3>1, LsnNamesTransaction DEF IInv, Captured, TypeOK
    <3> QED
      BY <1>5, <3>1, <3>2 DEF RecordsIn
  <2>2. ASSUME NEW f \in bronze', NEW t \in committed
        PROVE  LET own == {r \in RecordsOf(t) : r.table = f.name.table /\ r.date = f.name.date}
               IN  own \cap f.recs # {} => own \subseteq f.recs
    <3>1. CASE f \in bronze
      BY <2>2, <3>1 DEF IInv, TransactionsAreWhole
    <3>2. CASE f = new
      BY <1>5, <2>1, <3>2
    <3> QED
      BY <1>6, <2>2, <3>1, <3>2
  <2> QED
    BY <1>3, <2>2 DEF TransactionsAreWhole
<1>13. DurableOK'
  <2>1. ASSUME NEW c \in Int, c <= confirmed \/ c <= gauge, SealedUpTo(c)
        PROVE  SealedUpTo(c)'
    <3>1. ASSUME NEW t \in Captured, t.commit <= c, NEW r \in RecordsOf(t)
          PROVE  \E f \in bronze' :
                   r \in f.recs /\ \E q \in f.recs : q.lsn = f.name.lo /\ q \in UpTo(c)
      <4>1. PICK f \in bronze :
              r \in f.recs /\ \E q \in f.recs : q.lsn = f.name.lo /\ q \in UpTo(c)
        BY <2>1, <3>1 DEF SealedUpTo, InFileFrom
      <4>2. f.name # n
        BY <1>3, <2>1, <4>1, ConfirmedFilesStay, Positions DEF UpTo
      <4> QED
        BY <1>2, <4>1, <4>2
    <3>2. \A t \in Captured' :
            t.commit <= c => \A r \in RecordsOf(t) :
              \E f \in bronze' :
                r \in f.recs /\ \E q \in f.recs : q.lsn = f.name.lo /\ q \in UpTo(c)
      BY <1>4, <3>1
    <3> QED
      BY <3>2 DEF SealedUpTo, InFileFrom, UpTo
  <2>2. persisted <= confirmed /\ feedback <= gauge
    BY <1>3 DEF IInv, SlotOK, SessionOK, Flushing
  <2>3. SealedUpTo(confirmed)' /\ SealedUpTo(persisted)' /\ SealedUpTo(feedback)'
          /\ SealedUpTo(gauge)'
    <3>1. /\ SealedUpTo(confirmed) /\ SealedUpTo(persisted) /\ SealedUpTo(feedback)
          /\ SealedUpTo(gauge)
      BY DEF IInv, DurableOK
    <3> QED
      BY <1>3, <2>1, <2>2, <3>1, Positions DEF SealedUpTo, InFileFrom, UpTo
  <2> QED
    BY <2>3 DEF DurableOK
<1>14. FlushOK'
  <2>1. ASSUME NEW r \in pending, <<r.table, r.date>> \notin todo'
        PROVE  \E f \in bronze' :
                 r \in f.recs /\ \E q \in f.recs : q.lsn = f.name.lo /\ q \in pending
    <3>1. CASE <<r.table, r.date>> = g
      <4>1. r \in RecordsIn(g)
        BY <3>1 DEF RecordsIn
      <4> QED
        BY <1>5, <4>1
    <3>2. CASE <<r.table, r.date>> # g
      <4>1. PICK f \in bronze :
              r \in f.recs /\ \E q \in f.recs : q.lsn = f.name.lo /\ q \in pending
        BY <1>2, <1>3, <2>1, <3>2 DEF IInv, FlushOK, InFileFrom
      <4>2. r.table = f.name.table /\ r.date = f.name.date
        BY <4>1 DEF IInv, FilesOK
      <4>3. f.name # n
        BY <1>5, <3>2, <4>2
      <4> QED
        BY <1>2, <4>1, <4>3
    <3> QED
      BY <3>1, <3>2
  <2> QED
    BY <1>3, <2>1 DEF FlushOK, InFileFrom
<1> QED
  BY <1>1, <1>7, <1>8, <1>9, <1>10, <1>11, <1>12, <1>13, <1>14 DEF IInv

\* The boundary is sent when every group of the batch is in a file: it is sealed.
LEMMA ConfirmBatchInvariant == IInv /\ ConfirmBatch => IInv'
<1> SUFFICES ASSUME IInv, ConfirmBatch PROVE IInv'
  OBVIOUS
<1>1. TypeOK'
  BY ConsumerType DEF IInv, SlotOK, Consumer
<1>2. /\ UNCHANGED <<committed, created, confirmed, persisted, position, connected>>
      /\ UNCHANGED <<transaction, at, confirm_lsn, todo, bronze>>
      /\ feedback' = confirm_lsn /\ gauge' = confirm_lsn /\ pending' = {}
      /\ pc = "confirming" /\ pc' = "reading" /\ connected
  BY DEF ConfirmBatch, disk
<1>3. Captured' = Captured /\ \A c : IsBoundary(c)' <=> IsBoundary(c)
  BY <1>2 DEF Captured, IsBoundary
<1>4. /\ confirm_lsn = position /\ transaction = None /\ todo = {}
      /\ confirmed <= position /\ IsBoundary(position) /\ gauge <= position
      /\ created # NoSlot /\ confirm_lsn # None
  BY <1>2 DEF IInv, SessionOK, SlotOK, Flushing, None
<1>5. WalOK' /\ FilesOK' /\ TransactionsAreWhole'
  BY <1>2, <1>3 DEF IInv, WalOK, FilesOK, TransactionsAreWhole
<1>6. SlotOK'
  BY <1>2, <1>3, <1>4 DEF IInv, SlotOK
<1>7. SessionOK'
  BY <1>2, <1>3, <1>4, Positions DEF IInv, SessionOK, Flushing
<1>8. PendingOK' /\ FlushOK'
  BY <1>2 DEF PendingOK, FlushOK, Flushing
<1>9. BatchOK'
  <2>1. \A t \in committed : t.commit # None
    BY Positions DEF None
  <2> QED
    BY <1>2, <1>3, <1>4, <2>1, Positions DEF BatchOK, Captured
<1>10. SealedUpTo(position)
  <2>1. ASSUME NEW t \in Captured, t.commit <= position, NEW r \in RecordsOf(t)
        PROVE  InFileFrom(r, UpTo(position))
    <3>1. CASE t.commit <= confirmed
      <4>1. UpTo(confirmed) \subseteq UpTo(position)
        BY <1>4, Positions DEF UpTo, Record, Lsns
      <4> QED
        BY <2>1, <3>1, <4>1, InFileFromMonotone DEF IInv, DurableOK, SealedUpTo
    <3>2. CASE t.commit <= gauge
      <4>1. UpTo(gauge) \subseteq UpTo(position)
        BY <1>4, Positions DEF UpTo, Record, Lsns
      <4> QED
        BY <2>1, <3>2, <4>1, InFileFromMonotone DEF IInv, DurableOK, SealedUpTo
    <3>3. CASE confirmed < t.commit /\ gauge < t.commit
      <4>1. r \in pending
        BY <1>2, <2>1, <3>3 DEF IInv, BatchOK
      <4>2. InFileFrom(r, pending)
        BY <1>2, <1>4, <4>1 DEF IInv, FlushOK, Flushing
      <4>3. pending \subseteq UpTo(position)
        <5>1. ASSUME NEW q \in pending PROVE q \in UpTo(position)
          <6>1. PICK u \in Captured : q \in RecordsOf(u) /\ u.commit <= position
            BY <1>2, BatchIsComplete DEF Flushing
          <6> QED
            BY <6>1, RecordsByChange, Positions DEF UpTo, Captured
        <5> QED
          BY <5>1
      <4> QED
        BY <4>2, <4>3, InFileFromMonotone
    <3> QED
      BY <3>1, <3>2, <3>3, Positions DEF Captured
  <2> QED
    BY <2>1 DEF SealedUpTo
<1>11. DurableOK'
  BY <1>2, <1>3, <1>4, <1>10 DEF IInv, DurableOK, SealedUpTo, InFileFrom
<1> QED
  BY <1>1, <1>5, <1>6, <1>7, <1>8, <1>9, <1>11 DEF IInv

\* A step that changes nothing.
LEMMA StutterInvariant == IInv /\ UNCHANGED vars => IInv'
<1> SUFFICES ASSUME IInv, UNCHANGED vars PROVE IInv'
  OBVIOUS
<1>1. TypeOK' /\ WalOK' /\ SlotOK'
  BY DEF IInv, TypeOK, WalOK, SlotOK, IsBoundary, Captured, vars
<1>2. SessionOK' /\ PendingOK' /\ BatchOK'
  BY DEF IInv, SessionOK, PendingOK, BatchOK, Flushing, IsBoundary, Captured, vars
<1>3. FilesOK' /\ TransactionsAreWhole' /\ DurableOK' /\ FlushOK'
  BY DEF IInv, FilesOK, TransactionsAreWhole, DurableOK, SealedUpTo, InFileFrom, FlushOK,
         Flushing, Captured, vars
<1> QED
  BY <1>1, <1>2, <1>3 DEF IInv

\* Every step of the consumer and of the source preserves the invariant.
LEMMA StepInvariant == IInv /\ [Next]_vars => IInv'
<1> SUFFICES ASSUME IInv, [Next]_vars PROVE IInv'
  OBVIOUS
<1>1. CASE CommitTransaction
  BY <1>1, CommitTransactionInvariant
<1>2. CASE ReceiveFeedback
  BY <1>2, ReceiveFeedbackInvariant
<1>3. CASE PersistSlot \/ RestartPostgres \/ Disconnect
  BY <1>3, SlotFallsBackInvariant
<1>4. CASE Start
  BY <1>4, StartInvariant
<1>5. CASE ReadBegin
  BY <1>5, ReadBeginInvariant
<1>6. CASE ReadRowChange
  BY <1>6, AppendInvariant DEF ReadRowChange, Reading
<1>7. CASE ReadTruncate
  BY <1>7, AppendInvariant DEF ReadTruncate, Reading
<1>8. CASE ReadCommit
  BY <1>8, ReadCommitInvariant
<1>9. CASE IdleFlush
  BY <1>9, IdleFlushInvariant
<1>10. CASE StageGroup
  BY <1>10, StageGroupInvariant
<1>11. CASE ReplaceFile
  BY <1>11, ReplaceFileInvariant
<1>12. CASE ConfirmBatch
  BY <1>12, ConfirmBatchInvariant
<1>13. CASE RejectChange \/ IdleExit \/ SessionLost \/ Crash
  BY <1>13, StopInvariant DEF RejectChange, IdleExit, SessionLost, Crash
<1>14. CASE UNCHANGED vars
  BY <1>14, StutterInvariant
<1> QED
  BY <1>1, <1>2, <1>3, <1>4, <1>5, <1>6, <1>7, <1>8, <1>9, <1>10, <1>11, <1>12, <1>13, <1>14
     DEF Next, Source, Consumer

-----------------------------------------------------------------------------
(* What follows for the consumer.                                          *)

\* The inductive invariant holds in every behaviour of the consumer, the source
\* and the disk.
THEOREM Invariance == Spec => []IInv
<1>1. Init => IInv
  BY InitInvariant
<1>2. IInv /\ [Next]_vars => IInv'
  BY StepInvariant
<1> QED
  BY <1>1, <1>2, PTL DEF Spec

\* Every variable keeps its type.
THEOREM TypeCorrectness == Spec => []TypeOK
<1>1. IInv => TypeOK
  BY DEF IInv
<1> QED
  BY <1>1, Invariance, PTL

\* No record of a transaction that the slot has confirmed is missing from the
\* bronze layer, through crashes, replays over other batch boundaries and falls
\* of the slot (_flush writes before it confirms; os.replace may overwrite).
THEOREM Durability == Spec => []ConfirmedIsDurable
<1>1. IInv => ConfirmedIsDurable
  BY DEF IInv, DurableOK, SealedUpTo, InFileFrom, ConfirmedIsDurable, InBronze
<1> QED
  BY <1>1, Invariance, PTL

\* What the gauge cdc_confirmed_lsn reports is in the bronze layer.
THEOREM GaugeDurability == Spec => []GaugeIsDurable
<1>1. IInv => GaugeIsDurable
  BY DEF IInv, DurableOK, SealedUpTo, InFileFrom, GaugeIsDurable, InBronze
<1> QED
  BY <1>1, Invariance, PTL

\* No file holds part of what a transaction did to its table and date.
THEOREM WholeTransactions == Spec => []TransactionsAreWhole
<1>1. IInv => TransactionsAreWhole
  BY DEF IInv
<1> QED
  BY <1>1, Invariance, PTL

\* The files hold records of valid transactions only: what is in them up to a position
\* was accepted.
LEMMA SealedIsAccepted ==
  ASSUME TypeOK, WalOK, FilesOK, NEW c, SealedUpTo(c)
  PROVE  AcceptedUpTo(c)
<1> SUFFICES ASSUME NEW t \in Captured, t.commit <= c, NEW l \in DOMAIN t.changes
             PROVE  t.changes[l].valid
  BY DEF AcceptedUpTo
<1>1. t \in committed /\ t \in Transaction
  BY DEF Captured, TypeOK
<1>2. PICK r \in RecordsAt(t, l) : r \in RecordsOf(t)
  BY <1>1, ChangesLeaveRecords, RecordParts
<1>3. PICK f \in bronze : r \in f.recs
  BY <1>2 DEF SealedUpTo, InFileFrom
<1>4. PICK u \in Captured :
        r \in RecordsOf(u) /\ \A m \in DOMAIN u.changes : u.changes[m].valid
  BY <1>3 DEF FilesOK
<1>5. u = t
  BY <1>1, <1>2, <1>4, LsnNamesTransaction DEF Captured, TypeOK
<1> QED
  BY <1>4, <1>5

\* Where the slot has passed accepted changes only, and the files hold no other, a
\* violation holds the slot.
LEMMA AcceptedHolds ==
  ASSUME TypeOK, WalOK, FilesOK, AcceptedUpTo(confirmed)
  PROVE  ViolationHoldsTheSlot
<1> SUFFICES ASSUME NEW t \in Captured, NEW l \in DOMAIN t.changes, ~ t.changes[l].valid
             PROVE  confirmed < t.commit /\ \A r \in RecordsOf(t) : ~ InBronze(r)
  BY DEF ViolationHoldsTheSlot
<1>1. confirmed \in Int /\ t.commit \in Int
  BY TransactionParts, MaxLsnAssumption DEF TypeOK, Captured, NoSlot, Lsns
<1>2. confirmed < t.commit
  BY <1>1 DEF AcceptedUpTo
<1>3. ASSUME NEW r \in RecordsOf(t), InBronze(r) PROVE FALSE
  <2>1. PICK u \in Captured :
          r \in RecordsOf(u) /\ \A m \in DOMAIN u.changes : u.changes[m].valid
    BY <1>3 DEF FilesOK, InBronze
  <2>2. u = t
    BY <1>3, <2>1, LsnNamesTransaction DEF Captured, TypeOK
  <2> QED
    BY <2>1, <2>2
<1> QED
  BY <1>2, <1>3

\* A transaction with a change that breaks its contract leaves nothing in bronze
\* and the slot does not pass it.
THEOREM ViolationsHold == Spec => []ViolationHoldsTheSlot
<1>1. IInv => ViolationHoldsTheSlot
  BY SealedIsAccepted, AcceptedHolds DEF IInv, DurableOK
<1> QED
  BY <1>1, Invariance, PTL

\* Only ends of transactions are ever confirmed.
THEOREM BoundariesOnly == Spec => []ConfirmsAtBoundaries
<1>1. IInv => ConfirmsAtBoundaries
  BY DEF IInv, SlotOK, SessionOK, ConfirmsAtBoundaries, Flushing
<1> QED
  BY <1>1, Invariance, PTL

\* A record leaves the bronze layer only with a file that os.replace overwrites,
\* and only while the slot has still to send it again.
THEOREM OnlyUnconfirmedLost == Spec => LostRecordsReturn
<1>1. IInv /\ [Next]_vars =>
        [\A f \in bronze : \A r \in f.recs :
           (~ \E g \in bronze' : r \in g.recs) => r.xid > confirmed]_vars
  <2> SUFFICES ASSUME IInv, Next, NEW f \in bronze, NEW r \in f.recs,
                      ~ \E g \in bronze' : r \in g.recs, ~ (r.xid > confirmed)
               PROVE  FALSE
    BY DEF vars
  <2>1. bronze' # bronze
    OBVIOUS
  <2>2. ReplaceFile
    BY <2>1 DEF Next, Source, Consumer, CommitTransaction, ReceiveFeedback, PersistSlot,
         RestartPostgres, Disconnect, Start, ReadBegin, ReadRowChange, ReadTruncate,
         AppendRecords, RejectChange, ReadCommit, IdleFlush, IdleExit, StageGroup,
         ConfirmBatch, SessionLost, Crash, Stop, disk
  <2>8. PICK g \in todo : \E n \in NamesFor(g) :
          bronze' = {h \in bronze : h.name # n} \cup {[name |-> n, recs |-> RecordsIn(g)]}
    BY <2>2 DEF ReplaceFile
  <2>3. PICK n \in NamesFor(g) :
          bronze' = {h \in bronze : h.name # n} \cup {[name |-> n, recs |-> RecordsIn(g)]}
    BY <2>8
  <2>4. PICK t \in Captured : r \in RecordsOf(t)
    BY DEF IInv, FilesOK
  <2>5. r.xid = t.commit /\ t.commit <= confirmed
    BY <2>4, RecordsByChange, Positions DEF Captured
  <2>6. PICK h \in bronze :
          r \in h.recs /\ \E q \in h.recs : q.lsn = h.name.lo /\ q \in UpTo(confirmed)
    BY <2>4, <2>5 DEF IInv, DurableOK, SealedUpTo, InFileFrom
  <2>7. h.name # n
    BY <2>2, <2>6, ConfirmedFilesStay, Positions DEF UpTo, ReplaceFile, Flushing
  <2> QED
    BY <2>3, <2>6, <2>7
<1> QED
  BY <1>1, Invariance, PTL DEF Spec, LostRecordsReturn

-----------------------------------------------------------------------------
(* The refinement: every step is a step of AtLeastOnce, or changes nothing *)
(* that it sees, under the refinement mapping of CdcConsumer!Delivery.     *)

Lake == UNION {f.recs : f \in bronze}

\* What the mapping leaves of the state.
Seen == <<committed, created, confirmed, bronze>>

\* Both specifications take records and commits from ChangeStream.
LEMMA SameStream ==
  /\ \A t : Delivery!RecordsOf(t) = RecordsOf(t)
  /\ \A t, T, c : Delivery!Extends(t, T, c) <=> Extends(t, T, c)
BY DEF Delivery!RecordsOf, Delivery!RecordsAt, RecordsOf, RecordsAt, Delivery!Extends,
       Extends

\* The captured transactions of the two specifications are the same.
LEMMA CapturedAgrees ==
  ASSUME IInv
  PROVE  Delivery!Captured = Captured
BY DEF IInv, TypeOK, Delivery!Captured, Captured, NoSlot

\* Up to a sealed position the lake is complete.
LEMMA SealedIsComplete ==
  ASSUME IInv, NEW c, SealedUpTo(c)
  PROVE  Delivery!CompleteUpTo(c, Lake)
BY CapturedAgrees, SameStream DEF Delivery!CompleteUpTo, SealedUpTo, InFileFrom, Lake

\* The initial states map to initial states.
LEMMA InitDelivers == Init => Delivery!Init
BY DEF Init, Delivery!Init, NoSlot

\* A Commit of the source is one of the abstract source.
LEMMA CommitDelivers == IInv /\ CommitTransaction => Delivery!Commit
<1> SUFFICES ASSUME IInv, CommitTransaction PROVE Delivery!Commit
  OBVIOUS
<1>1. /\ \E t \in committed' :
           Extends(t, committed, created) /\ committed' = committed \cup {t}
      /\ UNCHANGED <<created, confirmed, bronze>>
  BY DEF CommitTransaction, disk
<1> QED
  BY <1>1, SameStream DEF Delivery!Commit

\* The first start of the consumer attaches it to the stream; the others are
\* invisible.
LEMMA StartDelivers == IInv /\ Start => Delivery!Attach \/ UNCHANGED Seen
<1> SUFFICES ASSUME IInv, Start PROVE Delivery!Attach \/ UNCHANGED Seen
  OBVIOUS
<1>1. UNCHANGED <<committed, bronze>>
  BY DEF Start, DiscardStaleStaging
<1>2. CASE UNCHANGED <<created, confirmed>>
  BY <1>1, <1>2 DEF Seen
<1>3. CASE /\ created = NoSlot
           /\ \E c \in 0 .. MaxLsn :
                EndOfWal(c) /\ created' = c /\ confirmed' = c
  BY <1>1, <1>3 DEF Delivery!Attach, EndOfWal, NoSlot
<1> QED
  BY <1>2, <1>3 DEF Start, DiscardStaleStaging, EnsureSlot

\* The slot moves, forward or back, to a position the lake is complete up to.
LEMMA AcknowledgeDelivers ==
  ASSUME IInv, NEW c, IsBoundary(c), SealedUpTo(c), confirmed' = c,
         UNCHANGED <<committed, created, bronze>>
  PROVE  Delivery!Acknowledge
<1>1. c = created \/ \E t \in Delivery!Captured : c = t.commit
  BY CapturedAgrees DEF IsBoundary
<1>2. Delivery!CompleteUpTo(c, Lake)
  BY SealedIsComplete
<1> QED
  BY <1>1, <1>2 DEF Delivery!Acknowledge, Lake

\* A file that appears, in place of another or not, leaves the lake complete.
LEMMA ReplaceFileDelivers == IInv /\ ReplaceFile => Delivery!Ingest
<1> SUFFICES ASSUME IInv, ReplaceFile PROVE Delivery!Ingest
  OBVIOUS
<1>1. UNCHANGED <<committed, created, confirmed>>
  BY DEF ReplaceFile, source
<1>2. IInv'
  BY ReplaceFileInvariant
<1>3. Lake' \subseteq UNION {Delivery!RecordsOf(t) : t \in Delivery!Captured}
  BY <1>1, <1>2, CapturedAgrees, SameStream DEF IInv, FilesOK, Lake, Captured
<1>4. SealedUpTo(confirmed)'
  BY <1>2 DEF IInv, DurableOK
<1>5. Delivery!CompleteUpTo(confirmed, Lake')
  BY <1>1, <1>4, CapturedAgrees, SameStream
     DEF Delivery!CompleteUpTo, SealedUpTo, InFileFrom, Lake, Captured
<1> QED
  BY <1>1, <1>3, <1>5 DEF Delivery!Ingest, Lake

\* The other actions move nothing that the mapping sees.
LEMMA OthersAreInvisible ==
  PersistSlot \/ Disconnect \/ (Consumer /\ ~ Start /\ ~ ReplaceFile) => UNCHANGED Seen
BY DEF Seen, PersistSlot, Disconnect, Consumer, ReadBegin, ReadRowChange, ReadTruncate,
       AppendRecords, RejectChange, ReadCommit, IdleFlush, IdleExit, StageGroup,
       ConfirmBatch, SessionLost, Crash, Stop, source, disk

\* Every step of the consumer and its surroundings is a step of the abstract
\* specification, or none.
LEMMA StepDelivers == IInv /\ [Next]_vars => [Delivery!Next]_(Delivery!vars)
<1> SUFFICES ASSUME IInv, [Next]_vars PROVE Delivery!Next \/ UNCHANGED Seen
  BY DEF Delivery!vars, Seen
<1>1. CASE CommitTransaction
  BY <1>1, CommitDelivers DEF Delivery!Next
<1>2. CASE ReceiveFeedback
  <2>1. IsBoundary(feedback) /\ SealedUpTo(feedback)
    BY <1>2 DEF IInv, SlotOK, DurableOK, ReceiveFeedback
  <2> QED
    BY <1>2, <2>1, AcknowledgeDelivers DEF ReceiveFeedback, disk, Delivery!Next
<1>3. CASE RestartPostgres
  <2>1. IsBoundary(persisted) /\ SealedUpTo(persisted)
    BY DEF IInv, SlotOK, DurableOK
  <2> QED
    BY <1>3, <2>1, AcknowledgeDelivers DEF RestartPostgres, disk, Delivery!Next
<1>4. CASE Start
  BY <1>4, StartDelivers DEF Delivery!Next
<1>5. CASE ReplaceFile
  BY <1>5, ReplaceFileDelivers DEF Delivery!Next
<1>6. CASE PersistSlot \/ Disconnect \/ (Consumer /\ ~ Start /\ ~ ReplaceFile)
  BY <1>6, OthersAreInvisible
<1>7. CASE UNCHANGED vars
  BY <1>7 DEF vars, Seen
<1> QED
  BY <1>1, <1>2, <1>3, <1>4, <1>5, <1>6, <1>7 DEF Next, Source

\* The consumer implements at-least-once delivery: whatever crashes, replays and
\* falls of the slot do, readers of the bronze files find every change up to the
\* acknowledged position and nothing that was not committed.
THEOREM AtLeastOnceDelivery == Spec => DeliversAtLeastOnce
<1>1. Init => Delivery!Init
  BY InitDelivers
<1>2. IInv /\ [Next]_vars => [Delivery!Next]_(Delivery!vars)
  BY StepDelivers
<1> QED
  BY <1>1, <1>2, Invariance, PTL DEF Spec, DeliversAtLeastOnce, Delivery!Spec

-----------------------------------------------------------------------------
(* What is left of the invariant beside a second process: StoreOK of what  *)
(* the processes share, MemoryOK of what each one has.                     *)

\* Positions, as numbers, of a process and a slot that are well typed.
LEMMA TypedPositions ==
  ASSUME TypeOK
  PROVE  /\ confirmed \in Int /\ persisted \in Int /\ created \in Int
         /\ feedback \in Nat /\ position \in Nat /\ at \in Nat
         /\ confirm_lsn \in Nat /\ transaction \in Nat
         /\ \A t \in committed :
              t \in Transaction /\ t.commit \in Nat \ {0} /\ DOMAIN t.changes \subseteq Nat \ {0}
         /\ \A r \in pending : r.lsn \in Nat
BY TransactionParts, MaxLsnAssumption DEF TypeOK, NoSlot, Lsns, Record

\* A slot that is there has a place in the stream.
LEMMA BoundaryOfSlot ==
  ASSUME TypeOK, NEW c \in Nat, IsBoundary(c)
  PROVE  created # NoSlot
BY DEF IsBoundary, Captured, NoSlot

\* While no transaction commits and the slot stays, so does what is said of the stream.
LEMMA StreamStays ==
  ASSUME UNCHANGED <<committed, created>>
  PROVE  /\ Captured' = Captured
         /\ \A c : IsBoundary(c)' <=> IsBoundary(c)
         /\ \A c : AcceptedUpTo(c)' <=> AcceptedUpTo(c)
BY DEF Captured, IsBoundary, AcceptedUpTo

\* The store and an idle process make the invariant of the consumer.
LEMMA RestingInvariant ==
  ASSUME TypeOK, StoreOK, Resting,
         persisted <= confirmed, SealedUpTo(confirmed), SealedUpTo(persisted)
  PROVE  IInv
<1>1. WalOK /\ FilesOK /\ TransactionsAreWhole /\ SlotOK
  BY DEF StoreOK, Resting, SlotOK
<1>2. SessionOK /\ PendingOK /\ FlushOK
  BY DEF Resting, SessionOK, PendingOK, FlushOK, Flushing
<1>3. BatchOK
  <2>1. \A t \in committed : t.commit # None
    BY TypedPositions DEF None
  <2> QED
    BY <2>1 DEF Resting, BatchOK
<1>4. DurableOK
  BY SealedUpToNone DEF Resting, DurableOK
<1> QED
  BY <1>1, <1>2, <1>3, <1>4 DEF IInv

\* ... and conversely, it says of the store what does not depend on the process.
LEMMA InvariantOfStore ==
  ASSUME IInv
  PROVE  /\ TypeOK /\ StoreOK /\ persisted <= confirmed
         /\ SealedUpTo(confirmed) /\ SealedUpTo(persisted)
BY SealedIsAccepted DEF IInv, StoreOK, SlotOK, DurableOK

\* Staging files may disappear.
LEMMA StagingInvariant ==
  ASSUME IInv, staging' = {},
         UNCHANGED <<source, pc, batch, bronze>>
  PROVE  IInv'
<1>1. TypeOK' /\ WalOK' /\ SlotOK'
  BY DEF IInv, TypeOK, WalOK, SlotOK, IsBoundary, Captured, source, batch
<1>2. SessionOK' /\ PendingOK' /\ BatchOK'
  BY DEF IInv, SessionOK, PendingOK, BatchOK, Flushing, IsBoundary, Captured, source, batch
<1>3. FilesOK' /\ TransactionsAreWhole' /\ DurableOK' /\ FlushOK'
  BY DEF IInv, FilesOK, TransactionsAreWhole, DurableOK, SealedUpTo, InFileFrom, FlushOK,
         Flushing, Captured, source, batch
<1> QED
  BY <1>1, <1>2, <1>3 DEF IInv

\* A step of others: the files and the slot may move, the stream may not.
LEMMA OthersMemory ==
  ASSUME TypeOK, MemoryOK,
         UNCHANGED <<committed, position, pc, transaction, at, pending, confirm_lsn>>,
         feedback' \in {feedback, None}, created' = created \/ created = NoSlot,
         connected' => connected /\ confirmed' = confirmed
  PROVE  MemoryOK'
<1>1. CASE created' = created
  <2>1. /\ Captured' = Captured
        /\ \A c : IsBoundary(c)' <=> IsBoundary(c)
        /\ \A c : AcceptedUpTo(c)' <=> AcceptedUpTo(c)
    BY <1>1, StreamStays
  <2> QED
    BY <1>1, <2>1, TypedPositions DEF MemoryOK, Flushing, None
<1>2. CASE created = NoSlot
  <2>1. pc = "stopped" /\ Captured = {} /\ feedback = None
    BY <1>2, BoundaryOfSlot, TypedPositions DEF MemoryOK, Captured
  <2>2. pending = {} /\ transaction = None /\ ~ connected
    BY <2>1 DEF MemoryOK
  <2>3. \A t \in committed : t.commit # None
    BY TypedPositions DEF None
  <2> QED
    BY <2>1, <2>2, <2>3 DEF MemoryOK, Flushing
<1> QED
  BY <1>1, <1>2

\* A step that leaves the stream, the slot and the files alone leaves the store so.
LEMMA SameStore ==
  ASSUME StoreOK, UNCHANGED <<committed, created, bronze>>,
         \/ confirmed' \in {confirmed, persisted}
         \/ IsBoundary(confirmed') /\ AcceptedUpTo(confirmed'),
         persisted' \in {confirmed, persisted},
         created = NoSlot => UNCHANGED <<confirmed, persisted>> \/ confirmed' = persisted
  PROVE  StoreOK'
<1>1. /\ Captured' = Captured
      /\ \A c : IsBoundary(c)' <=> IsBoundary(c)
      /\ \A c : AcceptedUpTo(c)' <=> AcceptedUpTo(c)
  BY StreamStays
<1>2. WalOK' /\ FilesOK' /\ TransactionsAreWhole'
  BY <1>1 DEF StoreOK, WalOK, FilesOK, TransactionsAreWhole
<1>3. /\ IsBoundary(confirmed)' /\ IsBoundary(persisted)'
      /\ AcceptedUpTo(confirmed)' /\ AcceptedUpTo(persisted)'
  BY <1>1 DEF StoreOK
<1>4. created' = NoSlot => confirmed' = NoSlot /\ persisted' = NoSlot
  BY DEF StoreOK
<1> QED
  BY <1>2, <1>3, <1>4 DEF StoreOK

\* A transaction that commits lies beyond what any process has read and any file holds.
LEMMA CommitBeside == BesideOK /\ CommitTransaction => BesideOK'
<1> SUFFICES ASSUME BesideOK, CommitTransaction PROVE BesideOK'
  OBVIOUS
<1>1. TypeOK'
  BY SourceType DEF BesideOK, Source
<1>2. PICK t : Extends(t, committed, created) /\ committed' = committed \cup {t}
  BY DEF CommitTransaction
<1>3. t \in Transaction /\ t.commit \in Nat \ {0}
  BY <1>1, <1>2, TypedPositions DEF TypeOK, Transaction, Lsns
<1>4. \A u \in committed : u.commit < t.commit /\ u # t
  BY <1>2, <1>3 DEF Extends, BesideOK, TypeOK, Transaction, Lsns
<1>5. /\ UNCHANGED <<created, confirmed, persisted, position, connected, feedback>>
      /\ UNCHANGED <<pc, transaction, at, pending, confirm_lsn, gauge, todo, bronze>>
  BY DEF CommitTransaction, batch, disk
<1>6. Captured \subseteq Captured' /\ Captured' \subseteq Captured \cup {t}
  BY <1>2, <1>5 DEF Captured
<1>7. \A c : IsBoundary(c) => IsBoundary(c)'
  BY <1>5, <1>6 DEF IsBoundary
<1>8. ASSUME NEW c, IsBoundary(c), AcceptedUpTo(c)
      PROVE  AcceptedUpTo(c)'
  <2>1. ~ (t.commit <= c)
    BY <1>2, <1>3, <1>8, BoundaryIsPast, TypedPositions
       DEF BesideOK, IsBoundary, Captured
  <2> QED
    BY <1>6, <1>8, <2>1 DEF AcceptedUpTo
<1>9. StoreOK'
  <2>1. WalOK'
    BY <1>2, <1>3, <1>4 DEF BesideOK, StoreOK, WalOK, Extends, TypeOK, Transaction, Lsns
  <2>2. FilesOK'
    BY <1>5, <1>6 DEF BesideOK, StoreOK, FilesOK
  <2>3. ASSUME NEW f \in bronze, NEW r \in f.recs PROVE r \notin RecordsOf(t)
    <3>1. PICK u \in committed : r \in RecordsOf(u)
      BY <2>3 DEF BesideOK, StoreOK, FilesOK, Captured
    <3>2. u \in Transaction /\ u.commit # t.commit
      BY <1>3, <1>4, TypedPositions DEF BesideOK
    <3> QED
      BY <1>3, <3>1, <3>2, RecordsByChange
  <2>4. TransactionsAreWhole'
    BY <1>2, <1>5, <2>3 DEF BesideOK, StoreOK, TransactionsAreWhole
  <2> QED
    BY <1>5, <1>7, <1>8, <2>1, <2>2, <2>4 DEF BesideOK, StoreOK
<1>10. MemoryOK'
  <2>1. pc # "stopped" => position < t.commit
    BY <1>2, BoundaryIsPast DEF BesideOK, MemoryOK
  <2>2. ~ (t.commit <= position /\ pending # {})
    BY <1>3, <2>1, TypedPositions DEF BesideOK, MemoryOK
  <2>3. ASSUME transaction # None
        PROVE  \E u \in committed' :
                 u.commit = transaction /\ IsNext(u, committed', position)
    <3>1. PICK u \in committed : u.commit = transaction /\ IsNext(u, committed, position)
      BY <2>3 DEF BesideOK, MemoryOK
    <3> QED
      BY <1>2, <1>3, <1>4, <3>1, TypedPositions DEF IsNext, BesideOK
  <2>4. t.commit # transaction
    BY <1>3, <1>4, TypedPositions DEF BesideOK, MemoryOK, None
  <2>5. \A u \in committed' : \A l \in DOMAIN u.changes :
          u.commit = transaction /\ l <= at => RecordsAt(u, l) \subseteq pending
    BY <1>2, <2>4 DEF BesideOK, MemoryOK
  <2>6. \A u \in committed' : u.commit <= position =>
          RecordsOf(u) \cap pending = {} \/ RecordsOf(u) \subseteq pending
    BY <1>2, <2>2 DEF BesideOK, MemoryOK
  <2>7. \A r \in pending : \E u \in Captured' :
          /\ r \in RecordsOf(u) /\ u.changes[r.lsn].valid
          /\ u.commit <= position \/ (u.commit = transaction /\ r.lsn <= at)
    BY <1>6 DEF BesideOK, MemoryOK
  <2> QED
    BY <1>5, <1>7, <1>8, <2>3, <2>5, <2>6, <2>7 DEF BesideOK, MemoryOK, Flushing
<1> QED
  BY <1>1, <1>9, <1>10 DEF BesideOK

\* The slot moves to what was sent, or back to what was saved.
LEMMA SlotBeside ==
  ASSUME BesideOK, ReceiveFeedback \/ PersistSlot \/ RestartPostgres \/ Disconnect
  PROVE  BesideOK'
<1>1. TypeOK'
  BY SourceType DEF BesideOK, Source
<1>2. /\ UNCHANGED <<committed, created, position>>
      /\ UNCHANGED <<pc, transaction, at, pending, confirm_lsn, gauge, todo, bronze>>
      /\ confirmed' \in {confirmed, persisted} \/ (feedback # None /\ confirmed' = feedback)
      /\ persisted' \in {confirmed, persisted}
      /\ feedback' \in {feedback, None}
      /\ connected' => connected /\ confirmed' \in {confirmed, feedback}
      /\ created = NoSlot => feedback # None \/ UNCHANGED confirmed
  BY DEF ReceiveFeedback, PersistSlot, RestartPostgres, Disconnect, batch, disk
<1>3. /\ Captured' = Captured
      /\ \A c : IsBoundary(c)' <=> IsBoundary(c)
      /\ \A c : AcceptedUpTo(c)' <=> AcceptedUpTo(c)
  BY <1>2, StreamStays
<1>4. feedback # None =>
        IsBoundary(feedback) /\ AcceptedUpTo(feedback) /\ created # NoSlot
  BY BoundaryOfSlot, TypedPositions DEF BesideOK, MemoryOK
<1>5. StoreOK'
  BY <1>2, <1>4, SameStore DEF BesideOK, StoreOK
<1>6. MemoryOK'
  BY <1>2, <1>3, <1>4, TypedPositions DEF BesideOK, MemoryOK, Flushing, None
<1> QED
  BY <1>1, <1>5, <1>6 DEF BesideOK

\* However a process ends, its batch is gone and the store stays.
LEMMA StopBeside == BesideOK /\ Stop => BesideOK'
<1> SUFFICES ASSUME BesideOK, Stop PROVE BesideOK'
  OBVIOUS
<1>1. TypeOK'
  BY StopType DEF BesideOK
<1>2. /\ UNCHANGED <<committed, created, confirmed, persisted, position, feedback, bronze>>
      /\ pc' = "stopped" /\ ~ connected'
      /\ transaction' = None /\ pending' = {} /\ confirm_lsn' = None
  BY DEF Stop, disk
<1>3. /\ Captured' = Captured
      /\ \A c : IsBoundary(c)' <=> IsBoundary(c)
      /\ \A c : AcceptedUpTo(c)' <=> AcceptedUpTo(c)
  BY <1>2, StreamStays
<1>4. StoreOK'
  BY <1>2, SameStore DEF BesideOK
<1>5. \A t \in committed : t.commit # None
  BY TypedPositions DEF BesideOK, None
<1>6. MemoryOK'
  BY <1>2, <1>3, <1>5 DEF BesideOK, MemoryOK, Flushing
<1> QED
  BY <1>1, <1>4, <1>6 DEF BesideOK

\* A session starts with an empty batch at the slot's position.
LEMMA StartBeside == BesideOK /\ Start => BesideOK'
<1> SUFFICES ASSUME BesideOK, Start PROVE BesideOK'
  OBVIOUS
<1>1. TypeOK'
  BY ConsumerType DEF BesideOK, StoreOK, Consumer
<1>2. /\ UNCHANGED <<committed, transaction, at, pending, confirm_lsn, gauge, todo, bronze>>
      /\ pc = "stopped" /\ pc' = "reading"
      /\ position' = confirmed' /\ feedback' = None
      /\ EnsureSlot
  BY DEF Start, DiscardStaleStaging, batch
<1>3. transaction = None /\ pending = {} /\ confirm_lsn = None
  BY <1>2 DEF BesideOK, MemoryOK
<1>4. position' \in Nat /\ \A t \in committed : t.commit # None
  BY <1>1, <1>2, TypedPositions DEF BesideOK, TypeOK, None
<1>5. CASE created # NoSlot /\ UNCHANGED <<created, confirmed, persisted>>
  <2>1. /\ Captured' = Captured
        /\ \A c : IsBoundary(c)' <=> IsBoundary(c)
        /\ \A c : AcceptedUpTo(c)' <=> AcceptedUpTo(c)
    BY <1>2, <1>5, StreamStays
  <2>2. StoreOK'
    BY <1>2, <1>5, SameStore DEF BesideOK
  <2>3. MemoryOK'
    BY <1>2, <1>3, <1>4, <1>5, <2>1 DEF BesideOK, StoreOK, MemoryOK, Flushing, None
  <2> QED
    BY <1>1, <2>2, <2>3 DEF BesideOK
<1>6. CASE created = NoSlot
  <2>1. PICK c \in 0 .. MaxLsn :
          EndOfWal(c) /\ created' = c /\ confirmed' = c /\ persisted' = c
    BY <1>2, <1>6 DEF EnsureSlot
  <2>2. Captured = {}
    BY <1>6 DEF Captured
  <2>3. IsBoundary(confirmed)' /\ IsBoundary(persisted)' /\ IsBoundary(position)'
    BY <1>2, <2>1 DEF IsBoundary
  <2>4. created' # NoSlot
    BY <2>1 DEF NoSlot
  <2>5. Captured' = {}
    BY <1>2, <2>1, TypedPositions DEF EndOfWal, Captured, BesideOK
  <2>6. AcceptedUpTo(confirmed)' /\ AcceptedUpTo(persisted)' /\ AcceptedUpTo(position)'
    BY <2>5 DEF AcceptedUpTo
  <2>7. StoreOK'
    BY <1>2, <2>2, <2>3, <2>4, <2>6
       DEF BesideOK, StoreOK, WalOK, FilesOK, TransactionsAreWhole
  <2>8. MemoryOK'
    BY <1>2, <1>3, <1>4, <2>3, <2>4, <2>6 DEF MemoryOK, Flushing, None
  <2> QED
    BY <1>1, <2>7, <2>8 DEF BesideOK
<1> QED
  BY <1>2, <1>5, <1>6 DEF EnsureSlot

\* The transaction being read is captured, and all before it is read.
LEMMA CurrentBeside ==
  ASSUME BesideOK, NEW t \in committed, t.commit = transaction
  PROVE  /\ IsNext(t, committed, position) /\ t \in Captured
         /\ position < t.commit /\ pc # "stopped" /\ transaction # None
<1>1. transaction # None /\ pc # "stopped"
  BY TypedPositions DEF BesideOK, MemoryOK, None
<1>2. PICK u \in committed : u.commit = transaction /\ IsNext(u, committed, position)
  BY <1>1 DEF BesideOK, MemoryOK
<1>3. u = t
  BY <1>2 DEF BesideOK, StoreOK, WalOK
<1>4. position < t.commit
  BY <1>2, <1>3, TypedPositions DEF IsNext, BesideOK
<1>5. created # NoSlot /\ IsBoundary(position)
  BY <1>1 DEF BesideOK, MemoryOK
<1>6. created <= position
  BY <1>5, TypedPositions DEF IsBoundary, Captured, BesideOK
<1> QED
  BY <1>1, <1>2, <1>3, <1>4, <1>5, <1>6, TypedPositions DEF Captured, BesideOK

\* Begin.
LEMMA ReadBeginBeside == BesideOK /\ ReadBegin => BesideOK'
<1> SUFFICES ASSUME BesideOK, ReadBegin PROVE BesideOK'
  OBVIOUS
<1>1. TypeOK'
  BY ConsumerType DEF BesideOK, StoreOK, Consumer
<1>2. PICK t \in committed : IsNext(t, committed, position) /\ transaction' = t.commit
  BY DEF ReadBegin
<1>3. /\ UNCHANGED <<committed, created, confirmed, persisted, position, connected, feedback>>
      /\ UNCHANGED <<pc, pending, confirm_lsn, gauge, todo, bronze>>
      /\ transaction = None /\ at' = 0 /\ pc = "reading"
  BY DEF ReadBegin, Reading, source, disk
<1>4. /\ Captured' = Captured
      /\ \A c : IsBoundary(c)' <=> IsBoundary(c)
      /\ \A c : AcceptedUpTo(c)' <=> AcceptedUpTo(c)
  BY <1>3, StreamStays
<1>5. StoreOK'
  BY <1>3, SameStore DEF BesideOK
<1>6. MemoryOK'
  <2>1. \A r \in pending : \E u \in Captured :
          r \in RecordsOf(u) /\ u.changes[r.lsn].valid /\ u.commit <= position
    BY <1>3, TypedPositions DEF BesideOK, MemoryOK, Captured, None
  <2>2. \A u \in committed : \A l \in DOMAIN u.changes : ~ (l <= 0)
    BY TypedPositions DEF BesideOK
  <2> QED
    BY <1>2, <1>3, <1>4, <2>1, <2>2 DEF BesideOK, MemoryOK, Flushing
<1> QED
  BY <1>1, <1>5, <1>6 DEF BesideOK

\* A change: its records join the batch.
LEMMA AppendBeside ==
  ASSUME BesideOK, pc = "reading", NEW t \in committed, NEW l \in Lsns,
         NextMessage(t, l), t.changes[l].valid, AppendRecords(t, l)
  PROVE  BesideOK'
<1>1. TypeOK'
  BY AppendType DEF BesideOK
<1>2. /\ UNCHANGED <<committed, created, confirmed, persisted, position, connected, feedback>>
      /\ UNCHANGED <<pc, transaction, confirm_lsn, gauge, todo, bronze>>
      /\ pending' = pending \cup RecordsAt(t, l) /\ at' = l
  BY DEF AppendRecords, source, disk
<1>3. /\ Captured' = Captured
      /\ \A c : IsBoundary(c)' <=> IsBoundary(c)
      /\ \A c : AcceptedUpTo(c)' <=> AcceptedUpTo(c)
  BY <1>2, StreamStays
<1>4. /\ t.commit = transaction /\ l \in DOMAIN t.changes /\ at < l
      /\ \A n \in DOMAIN t.changes : n > at => l <= n
  BY TypedPositions DEF NextMessage, IsNextChange, BesideOK
<1>5. t \in Captured /\ position < t.commit
  BY <1>4, CurrentBeside
<1>6. StoreOK'
  BY <1>2, SameStore DEF BesideOK
<1>7. ASSUME NEW r \in pending'
      PROVE  \E u \in Captured :
               /\ r \in RecordsOf(u) /\ u.changes[r.lsn].valid
               /\ u.commit <= position \/ (u.commit = transaction /\ r.lsn <= l)
  <2>1. CASE r \in pending
    BY <1>4, <2>1, TypedPositions DEF BesideOK, MemoryOK
  <2>2. CASE r \in RecordsAt(t, l)
    <3>1. r \in RecordsOf(t) /\ r.lsn = l
      BY <1>4, <2>2, RecordParts, TypedPositions DEF BesideOK
    <3> QED
      BY <1>4, <1>5, <3>1, TypedPositions DEF BesideOK
  <2> QED
    BY <1>2, <2>1, <2>2
<1>8. ASSUME NEW u \in committed, NEW n \in DOMAIN u.changes,
             u.commit = transaction, n <= l
      PROVE  RecordsAt(u, n) \subseteq pending'
  <2>1. u = t
    BY <1>4, <1>8 DEF BesideOK, StoreOK, WalOK
  <2>2. n <= at \/ n = l
    BY <1>4, <1>8, <2>1, TypedPositions DEF BesideOK
  <2> QED
    BY <1>2, <1>4, <1>8, <2>1, <2>2 DEF BesideOK, MemoryOK
<1>9. ASSUME NEW u \in committed, u.commit <= position
      PROVE  RecordsOf(u) \cap pending' = {} \/ RecordsOf(u) \subseteq pending'
  <2>1. u.commit # t.commit
    BY <1>5, <1>9, TypedPositions DEF BesideOK
  <2>2. RecordsOf(u) \cap RecordsAt(t, l) = {}
    BY <1>4, <2>1, RecordParts, RecordsByChange, TypedPositions DEF BesideOK
  <2> QED
    BY <1>2, <1>9, <2>2 DEF BesideOK, MemoryOK
<1>10. MemoryOK'
  BY <1>2, <1>3, <1>7, <1>8, <1>9 DEF BesideOK, MemoryOK, Flushing
<1> QED
  BY <1>1, <1>6, <1>10 DEF BesideOK

\* Commit: the transaction is whole in the batch.
LEMMA ReadCommitBeside == BesideOK /\ ReadCommit => BesideOK'
<1> SUFFICES ASSUME BesideOK, ReadCommit PROVE BesideOK'
  OBVIOUS
<1>1. TypeOK'
  BY ConsumerType DEF BesideOK, StoreOK, Consumer
<1>2. PICK t \in committed :
        t.commit = transaction /\ NoChangeAfter(t, at)
          /\ position' = t.commit /\ confirm_lsn' = t.commit
  BY DEF ReadCommit
<1>3. /\ UNCHANGED <<committed, created, confirmed, persisted, connected, feedback>>
      /\ UNCHANGED <<pending, gauge, bronze>>
      /\ transaction' = None /\ pc = "reading" /\ pc' \in {"reading", "staging"}
  BY DEF ReadCommit, Reading, BeginFlush, disk
<1>4. /\ Captured' = Captured
      /\ \A c : IsBoundary(c)' <=> IsBoundary(c)
      /\ \A c : AcceptedUpTo(c)' <=> AcceptedUpTo(c)
  BY <1>3, StreamStays
<1>5. IsNext(t, committed, position) /\ t \in Captured /\ position < t.commit
  BY <1>2, CurrentBeside
<1>6. StoreOK'
  BY <1>3, SameStore DEF BesideOK
<1>7. RecordsOf(t) \subseteq pending
  <2>1. ASSUME NEW r \in RecordsOf(t) PROVE r \in pending
    BY <1>2, RecordsByChange, TypedPositions DEF NoChangeAfter, BesideOK, MemoryOK
  <2> QED
    BY <2>1
<1>8. ASSUME NEW u \in committed, u.commit <= t.commit
      PROVE  RecordsOf(u) \cap pending = {} \/ RecordsOf(u) \subseteq pending
  <2>1. u.commit <= position \/ u = t
    BY <1>5, <1>8, TypedPositions DEF IsNext, BesideOK, StoreOK, WalOK
  <2> QED
    BY <1>7, <2>1 DEF BesideOK, MemoryOK
<1>9. \A r \in pending : \E u \in Captured :
        r \in RecordsOf(u) /\ u.changes[r.lsn].valid /\ u.commit <= t.commit
  BY <1>2, <1>5, TypedPositions DEF BesideOK, MemoryOK, Captured
<1>10. IsBoundary(position)' /\ created # NoSlot /\ \A u \in committed : u.commit # None
  BY <1>2, <1>4, <1>5, TypedPositions DEF IsBoundary, Captured, BesideOK, None
<1>11. connected => confirmed <= t.commit /\ feedback <= t.commit
  BY <1>2, <1>5, TypedPositions DEF BesideOK, MemoryOK
<1>12. AcceptedUpTo(position)'
  <2>1. ASSUME NEW u \in Captured, u.commit <= t.commit, NEW l \in DOMAIN u.changes
        PROVE  u.changes[l].valid
    <3>1. u \in committed /\ u \in Transaction
      BY TypedPositions DEF Captured, BesideOK
    <3>2. CASE u.commit <= position
      BY <1>3, <2>1, <3>2 DEF AcceptedUpTo, BesideOK, MemoryOK
    <3>3. CASE u = t
      <4>1. PICK q \in RecordsAt(t, l) : q \in RecordsOf(t) /\ q.lsn = l
        BY <2>1, <3>1, <3>3, ChangesLeaveRecords, RecordParts
      <4>2. PICK v \in Captured : q \in RecordsOf(v) /\ v.changes[q.lsn].valid
        BY <1>7, <4>1 DEF BesideOK, MemoryOK
      <4>3. v = t
        BY <1>5, <4>1, <4>2, LsnNamesTransaction
           DEF BesideOK, StoreOK, Captured, TypeOK
      <4> QED
        BY <3>3, <4>1, <4>2, <4>3
    <3> QED
      BY <1>5, <2>1, <3>1, <3>2, <3>3, TypedPositions
         DEF IsNext, BesideOK, StoreOK, WalOK
  <2> QED
    BY <1>2, <1>4, <2>1 DEF AcceptedUpTo
<1>13. MemoryOK'
  BY <1>2, <1>3, <1>4, <1>8, <1>9, <1>10, <1>11, <1>12 DEF BesideOK, MemoryOK, Flushing
<1> QED
  BY <1>1, <1>6, <1>13 DEF BesideOK

\* A flush begins, a group is staged, the batch is confirmed: the stream and the files
\* stay, and what is sent is the position.
LEMMA FlushBeside ==
  ASSUME BesideOK, IdleFlush \/ StageGroup \/ ConfirmBatch
  PROVE  BesideOK'
<1>1. TypeOK'
  BY ConsumerType DEF BesideOK, StoreOK, Consumer
<1>2. /\ UNCHANGED <<committed, created, confirmed, persisted, position, connected>>
      /\ UNCHANGED <<transaction, at, confirm_lsn, bronze>>
      /\ feedback' \in {feedback, confirm_lsn}
      /\ pending' = pending \/ (pending' = {} /\ transaction = None)
      /\ pc # "stopped" /\ pc' # "stopped"
      /\ transaction = None
  BY DEF IdleFlush, Reading, BeginFlush, StageGroup, ConfirmBatch, source, batch, disk,
         BesideOK, MemoryOK, Flushing
<1>3. /\ Captured' = Captured
      /\ \A c : IsBoundary(c)' <=> IsBoundary(c)
      /\ \A c : AcceptedUpTo(c)' <=> AcceptedUpTo(c)
  BY <1>2, StreamStays
<1>4. StoreOK'
  BY <1>2, SameStore DEF BesideOK
<1>5. feedback' # None => IsBoundary(feedback') /\ AcceptedUpTo(feedback')
  BY <1>2 DEF BesideOK, MemoryOK
<1>6. connected => confirmed <= position /\ feedback' <= position
  BY <1>2, TypedPositions DEF BesideOK, MemoryOK, None
<1>7. \A t \in committed : t.commit # None
  BY TypedPositions DEF BesideOK, None
<1>8. /\ \A r \in pending' : \E t \in Captured :
           /\ r \in RecordsOf(t) /\ t.changes[r.lsn].valid
           /\ t.commit <= position \/ (t.commit = transaction /\ r.lsn <= at)
      /\ \A t \in committed : t.commit <= position =>
           RecordsOf(t) \cap pending' = {} \/ RecordsOf(t) \subseteq pending'
  BY <1>2 DEF BesideOK, MemoryOK
<1>9. MemoryOK'
  BY <1>2, <1>3, <1>5, <1>6, <1>7, <1>8 DEF BesideOK, MemoryOK
<1> QED
  BY <1>1, <1>4, <1>9 DEF BesideOK

\* While a batch is written its records are those of transactions read whole, without
\* a change that the contract rejects.
LEMMA BatchIsWhole ==
  ASSUME BesideOK, Flushing, NEW r \in pending
  PROVE  \E t \in Captured :
           /\ r \in RecordsOf(t) /\ RecordsOf(t) \subseteq pending
           /\ \A l \in DOMAIN t.changes : t.changes[l].valid
<1>1. PICK t \in Captured :
        r \in RecordsOf(t) /\ (t.commit <= position \/ t.commit = transaction)
  BY DEF BesideOK, MemoryOK
<1>2. t \in committed
  BY DEF Captured
<1>3. t.commit <= position
  BY <1>1, <1>2, TypedPositions DEF BesideOK, MemoryOK, None
<1>4. RecordsOf(t) \subseteq pending
  BY <1>1, <1>2, <1>3 DEF BesideOK, MemoryOK
<1>5. ASSUME NEW l \in DOMAIN t.changes PROVE t.changes[l].valid
  <2>1. PICK q \in RecordsAt(t, l) : q \in RecordsOf(t) /\ q.lsn = l
    BY <1>2, ChangesLeaveRecords, RecordParts, TypedPositions DEF BesideOK
  <2>2. PICK u \in Captured : q \in RecordsOf(u) /\ u.changes[q.lsn].valid
    BY <1>4, <2>1 DEF BesideOK, MemoryOK
  <2>3. u = t
    BY <1>2, <2>1, <2>2, LsnNamesTransaction DEF BesideOK, StoreOK, Captured, TypeOK
  <2> QED
    BY <2>1, <2>2, <2>3
<1> QED
  BY <1>1, <1>4, <1>5

\* os.replace: whatever file it overwrites, the one that appears is whole.
LEMMA ReplaceFileBeside == BesideOK /\ ReplaceFile => BesideOK'
<1> SUFFICES ASSUME BesideOK, ReplaceFile PROVE BesideOK'
  OBVIOUS
<1>1. TypeOK'
  BY ConsumerType DEF BesideOK, StoreOK, Consumer
<1>2. PICK g \in todo : \E n \in NamesFor(g) :
        bronze' = {f \in bronze : f.name # n} \cup {[name |-> n, recs |-> RecordsIn(g)]}
  BY DEF ReplaceFile
<1>3. PICK n \in NamesFor(g) :
        bronze' = {f \in bronze : f.name # n} \cup {[name |-> n, recs |-> RecordsIn(g)]}
  BY <1>2
<1>4. /\ UNCHANGED <<committed, created, confirmed, persisted, position, connected, feedback>>
      /\ UNCHANGED <<transaction, at, pending, confirm_lsn, gauge>>
      /\ pc = "replacing" /\ Flushing /\ pc' # "stopped"
  BY DEF ReplaceFile, source, Flushing
<1>5. /\ Captured' = Captured
      /\ \A c : IsBoundary(c)' <=> IsBoundary(c)
      /\ \A c : AcceptedUpTo(c)' <=> AcceptedUpTo(c)
  BY <1>4, StreamStays
<1> DEFINE new == [name |-> n, recs |-> RecordsIn(g)]
<1>6. /\ RecordsIn(g) \subseteq pending
      /\ n.table = g[1] /\ n.date = g[2]
      /\ \A r \in pending : r \in RecordsIn(g) <=> r.table = n.table /\ r.date = n.date
  BY DEF RecordsIn, NamesFor, IsNameOf
<1>7. \A f \in bronze' : f \in bronze \/ f = new
  BY <1>3
<1>8. FilesOK'
  <2>1. ASSUME NEW r \in RecordsIn(g)
        PROVE  /\ r.table = n.table /\ r.date = n.date
               /\ \E t \in Captured :
                    r \in RecordsOf(t) /\ \A l \in DOMAIN t.changes : t.changes[l].valid
    BY <1>4, <1>6, <2>1, BatchIsWhole
  <2> QED
    BY <1>5, <1>7, <2>1 DEF BesideOK, StoreOK, FilesOK
<1>9. TransactionsAreWhole'
  <2>1. ASSUME NEW t \in committed, NEW r \in RecordsOf(t), r \in RecordsIn(g)
        PROVE  \A q \in RecordsOf(t) : q.table = n.table /\ q.date = n.date => q \in RecordsIn(g)
    <3>1. PICK u \in Captured : r \in RecordsOf(u) /\ RecordsOf(u) \subseteq pending
      BY <1>4, <1>6, <2>1, BatchIsWhole
    <3>2. u = t
      BY <2>1, <3>1, LsnNamesTransaction DEF BesideOK, StoreOK, Captured, TypeOK
    <3> QED
      BY <1>6, <3>1, <3>2
  <2>2. ASSUME NEW f \in bronze', NEW t \in committed
        PROVE  LET own == {r \in RecordsOf(t) : r.table = f.name.table /\ r.date = f.name.date}
               IN  own \cap f.recs # {} => own \subseteq f.recs
    <3>1. CASE f \in bronze
      BY <2>2, <3>1 DEF BesideOK, StoreOK, TransactionsAreWhole
    <3>2. CASE f = new
      BY <2>1, <3>2
    <3> QED
      BY <1>7, <2>2, <3>1, <3>2
  <2> QED
    BY <1>4, <2>2 DEF TransactionsAreWhole
<1>10. StoreOK'
  BY <1>4, <1>5, <1>8, <1>9 DEF BesideOK, StoreOK, WalOK
<1>11. MemoryOK'
  BY <1>4, <1>5 DEF BesideOK, MemoryOK, Flushing
<1> QED
  BY <1>1, <1>10, <1>11 DEF BesideOK

\* Every step of a process and of the source.
LEMMA StepBeside == BesideOK /\ Next => BesideOK'
<1> SUFFICES ASSUME BesideOK, Next PROVE BesideOK'
  OBVIOUS
<1>1. CASE CommitTransaction
  BY <1>1, CommitBeside
<1>2. CASE ReceiveFeedback \/ PersistSlot \/ RestartPostgres \/ Disconnect
  BY <1>2, SlotBeside
<1>3. CASE Start
  BY <1>3, StartBeside
<1>4. CASE ReadBegin
  BY <1>4, ReadBeginBeside
<1>5. CASE ReadRowChange \/ ReadTruncate
  BY <1>5, AppendBeside DEF ReadRowChange, ReadTruncate, Reading
<1>6. CASE ReadCommit
  BY <1>6, ReadCommitBeside
<1>7. CASE IdleFlush \/ StageGroup \/ ConfirmBatch
  BY <1>7, FlushBeside
<1>8. CASE ReplaceFile
  BY <1>8, ReplaceFileBeside
<1>9. CASE RejectChange \/ IdleExit \/ SessionLost \/ Crash
  BY <1>9, StopBeside DEF RejectChange, IdleExit, SessionLost, Crash
<1> QED
  BY <1>1, <1>2, <1>3, <1>4, <1>5, <1>6, <1>7, <1>8, <1>9 DEF Next, Source, Consumer

\* The store and a process at first.
LEMMA InitBeside == Init => BesideOK
<1>1. Init => StoreOK
  BY DEF Init, StoreOK, WalOK, IsBoundary, AcceptedUpTo, Captured, FilesOK,
         TransactionsAreWhole, NoSlot
<1>2. Init => MemoryOK
  BY DEF Init, MemoryOK, Flushing, None
<1> QED
  BY <1>1, <1>2, InitType DEF BesideOK

\* A process at work moves neither the stream nor the slot, and sends feedback only
\* over a session that is alive.
LEMMA WorkFrame ==
  Consumer /\ pc # "stopped" =>
    /\ UNCHANGED <<committed, created, confirmed, persisted>>
    /\ connected' => connected
    /\ feedback' = feedback \/ connected
BY DEF Consumer, Start, ReadBegin, ReadRowChange, ReadTruncate, AppendRecords, RejectChange,
       ReadCommit, IdleFlush, IdleExit, StageGroup, ReplaceFile, ConfirmBatch, SessionLost,
       Crash, Stop, source, disk, batch
=============================================================================
