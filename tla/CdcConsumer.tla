---------------------------- MODULE CdcConsumer -----------------------------
(***************************************************************************)
(* The CDC consumer (ingestion/cdc/consumer.py) and the bronze writer it   *)
(* drives (ingestion/cdc/bronze.py), with the replication slot it reads    *)
(* from and confirms to.                                                   *)
(*                                                                         *)
(* The consumer gathers records in memory, closes a batch only at a        *)
(* transaction boundary, writes one file per (table, commit date) through  *)
(* a .tmp file and os.replace, and only then confirms the boundary to the  *)
(* slot. A file is named by the first and last LSN it holds, so a replay   *)
(* may replace a file that is already there. The process may die between   *)
(* any two steps; the source may restart and forget a confirmation it had  *)
(* not persisted; the connection may drop, and a feedback message with it. *)
(*                                                                         *)
(* Left out: the time a batch has been open (a batch may be closed by time *)
(* at any Commit), keepalives, the second consumer that may start by       *)
(* mistake, and the loss of a rename when the host itself fails.           *)
(***************************************************************************)
EXTENDS ChangeStream

CONSTANTS
  BatchMaxRecords,  \* CDC_BATCH_MAX_RECORDS
  IdleTimeout,      \* whether CDC_IDLE_TIMEOUT is positive
  MaxTransactions,  \* transactions the source commits (bound)
  MaxChanges        \* changes of one transaction (bound)

ASSUME BatchAssumption == BatchMaxRecords \in Nat \ {0}
ASSUME IdleAssumption == IdleTimeout \in BOOLEAN
ASSUME BoundsAssumption == MaxTransactions \in Nat /\ MaxChanges \in Nat

VARIABLES
  (* the source, outside this repository *)
  committed,     \* transactions in the WAL
  created,       \* WAL position at which the slot was created, or NoSlot
  confirmed,     \* confirmed_flush_lsn of the slot
  persisted,     \* the value of confirmed that survives a restart of Postgres
  position,      \* end of the last transaction streamed in this session
  connected,     \* the session is alive
  feedback,      \* position sent with send_feedback and not yet processed, or None
  (* the consumer's process *)
  pc,
  transaction,   \* the transaction whose Begin was read, or None
  at,            \* LSN of its last change that was read
  pending,       \* records of the open batch
  confirm_lsn,   \* wal_end of the last Commit read, or None
  gauge,         \* Telemetry._confirmed_lsn
  todo,          \* groups of the batch not written yet
  (* the disk *)
  staging,       \* names of the .parquet.tmp files
  bronze         \* the .parquet files

source == <<committed, created, confirmed, persisted, position, connected, feedback>>
batch  == <<transaction, at, pending, confirm_lsn, gauge, todo>>
disk   == <<staging, bronze>>
vars   == <<committed, created, confirmed, persisted, position, connected, feedback,
            pc, transaction, at, pending, confirm_lsn, gauge, todo, staging, bronze>>

None   == 0     \* no LSN: positions start at 1
NoSlot == -1

Group == Tables \X Dates
Name  == [table : Tables, date : Dates, lo : Lsns, hi : Lsns]
File  == [name : Name, recs : SUBSET Record]

\* Where the process is: not running, in the read loop, about to write the
\* next group of the batch, about to rename its staging file, or about to
\* confirm the batch.
PC == {"stopped", "reading", "staging", "replacing", "confirming"}

TypeOK ==
  /\ committed \subseteq Transaction
  /\ created \in {NoSlot} \cup 0 .. MaxLsn
  /\ confirmed \in {NoSlot} \cup 0 .. MaxLsn
  /\ persisted \in {NoSlot} \cup 0 .. MaxLsn
  /\ position \in 0 .. MaxLsn
  /\ connected \in BOOLEAN
  /\ feedback \in 0 .. MaxLsn
  /\ pc \in PC
  /\ transaction \in 0 .. MaxLsn
  /\ at \in 0 .. MaxLsn
  /\ pending \subseteq Record
  /\ confirm_lsn \in 0 .. MaxLsn
  /\ gauge \in 0 .. MaxLsn
  /\ todo \subseteq Group
  /\ staging \subseteq Name
  /\ bronze \subseteq File

Init ==
  /\ committed = {}
  /\ created = NoSlot /\ confirmed = NoSlot /\ persisted = NoSlot
  /\ position = 0 /\ connected = FALSE /\ feedback = None
  /\ pc = "stopped"
  /\ transaction = None /\ at = 0 /\ pending = {} /\ confirm_lsn = None
  /\ gauge = 0 /\ todo = {}
  /\ staging = {} /\ bronze = {}

-----------------------------------------------------------------------------
(* The source.                                                             *)

\* A transaction commits. Its changes took any free positions of the WAL: those
\* below an earlier commit were written by a session concurrent with it. The
\* creation of a slot waits for the transactions that are running, so no change
\* of a later commit precedes it.
CommitTransaction ==
  /\ Cardinality(committed) < MaxTransactions
  /\ \E c \in Lsns, d \in Dates, S \in SUBSET Lsns :
       /\ Cardinality(S) <= MaxChanges
       /\ \E changes \in [S -> Bodies] :
            LET t == [commit |-> c, date |-> d, changes |-> changes]
            IN  /\ Extends(t, committed, created)
                /\ committed' = committed \cup {t}
  /\ UNCHANGED <<created, confirmed, persisted, position, connected, feedback>>
  /\ UNCHANGED <<pc, batch, disk>>

\* The walsender processes a standby status update.
ReceiveFeedback ==
  /\ feedback # None
  /\ confirmed' = feedback
  /\ feedback' = None
  /\ UNCHANGED <<committed, created, persisted, position, connected>>
  /\ UNCHANGED <<pc, batch, disk>>

\* A checkpoint writes the slot to disk.
PersistSlot ==
  /\ persisted # confirmed
  /\ persisted' = confirmed
  /\ UNCHANGED <<committed, created, confirmed, position, connected, feedback>>
  /\ UNCHANGED <<pc, batch, disk>>

\* Postgres stops at once and recovers: the slot is what was persisted of it.
RestartPostgres ==
  /\ created # NoSlot
  /\ confirmed' = persisted
  /\ connected' = FALSE
  /\ feedback' = None
  /\ UNCHANGED <<committed, created, persisted, position>>
  /\ UNCHANGED <<pc, batch, disk>>

\* The connection drops. What was sent may still be processed.
Disconnect ==
  /\ connected
  /\ connected' = FALSE
  /\ UNCHANGED <<committed, created, confirmed, persisted, position, feedback>>
  /\ UNCHANGED <<pc, batch, disk>>

-----------------------------------------------------------------------------
(* The consumer.                                                           *)

\* The process is gone, and with it all it held in memory. What it had sent
\* may still be processed; what it had staged stays on the disk.
Stop ==
  /\ pc' = "stopped"
  /\ connected' = FALSE
  /\ transaction' = None /\ at' = 0 /\ pending' = {} /\ confirm_lsn' = None
  /\ gauge' = 0 /\ todo' = {}
  /\ UNCHANGED <<committed, created, confirmed, persisted, position, feedback, disk>>

\* main: discard the stale staging files, find or create the slot, open the
\* session. Postgres streams from the confirmed position. The slot is free only
\* once the walsender of the last session is gone: its feedback is processed by
\* then or never.
EndOfWal(c) ==
  /\ c = 0 \/ \E t \in committed : t.commit = c
  /\ \A t \in committed : t.commit <= c

EnsureSlot ==
  \/ created # NoSlot /\ UNCHANGED <<created, confirmed, persisted>>
  \/ /\ created = NoSlot
     /\ \E c \in 0 .. MaxLsn :
          /\ EndOfWal(c)
          /\ created' = c /\ confirmed' = c /\ persisted' = c

DiscardStaleStaging == staging' = {}

Start ==
  /\ pc = "stopped"
  /\ DiscardStaleStaging
  /\ EnsureSlot
  /\ pc' = "reading"
  /\ position' = confirmed'
  /\ connected' = TRUE
  /\ feedback' = None
  /\ UNCHANGED <<committed, batch, bronze>>

\* The read loop. Messages that had arrived when the connection dropped are
\* still read; how many had is not modelled.
Reading == pc = "reading"

ReadBegin ==
  /\ Reading
  /\ transaction = None
  /\ \E t \in committed : IsNext(t, committed, position) /\ transaction' = t.commit
  /\ at' = 0
  /\ UNCHANGED <<source, pc, pending, confirm_lsn, gauge, todo, disk>>

\* The change message that comes next in the transaction being read.
NextMessage(t, l) ==
  /\ t \in committed
  /\ t.commit = transaction
  /\ IsNextChange(l, t, at)

AppendAndReport(t, l) ==   \* a bug: the gauge follows what is read
  /\ pending' = pending \cup RecordsAt(t, l)
  /\ at' = l
  /\ gauge' = l
  /\ UNCHANGED <<source, pc, transaction, confirm_lsn, todo, disk>>

AppendRecords(t, l) ==
  /\ pending' = pending \cup RecordsAt(t, l)
  /\ at' = l
  /\ UNCHANGED <<source, pc, transaction, confirm_lsn, gauge, todo, disk>>

ReadRowChange ==
  /\ Reading
  /\ \E t \in committed, l \in Lsns :
       /\ NextMessage(t, l)
       /\ t.changes[l].kind = "row" /\ t.changes[l].valid
       /\ AppendRecords(t, l)

\* One record for each table of the TRUNCATE, all with the LSN of the message.
ReadTruncate ==
  /\ Reading
  /\ \E t \in committed, l \in Lsns :
       /\ NextMessage(t, l)
       /\ t.changes[l].kind = "truncate" /\ t.changes[l].valid
       /\ AppendRecords(t, l)

SkipChange ==   \* a bug: a change that breaks the contract is passed over
  /\ Reading
  /\ \E t \in committed, l \in Lsns :
       /\ NextMessage(t, l)
       /\ ~ t.changes[l].valid
       /\ at' = l
  /\ UNCHANGED <<source, pc, transaction, pending, confirm_lsn, gauge, todo, disk>>

\* ContractViolation: the process exits with status 2. Records already pending
\* are neither written nor confirmed.
RejectChange ==
  /\ Reading
  /\ \E t \in committed, l \in Lsns : NextMessage(t, l) /\ ~ t.changes[l].valid
  /\ Stop

\* _flush begins: the records are grouped by table and partition.
BeginFlush ==
  /\ pc' = "staging"
  /\ todo' = {<<r.table, r.date>> : r \in pending}

\* _batch_is_full, by the count; by the time it has been open, which is not
\* modelled, any batch may be full.
BatchIsFull == Cardinality(pending) >= BatchMaxRecords

ReadCommit ==
  /\ Reading
  /\ \E t \in committed :
       /\ t.commit = transaction
       /\ NoChangeAfter(t, at)
       /\ position' = t.commit
       /\ confirm_lsn' = t.commit
  /\ transaction' = None
  /\ at' = 0
  /\ \/ pending # {} /\ BeginFlush
     \/ ~ (pending # {} /\ BatchIsFull) /\ UNCHANGED <<pc, todo>>
  /\ UNCHANGED <<committed, created, confirmed, persisted, connected, feedback>>
  /\ UNCHANGED <<pending, gauge, disk>>

IdleFlushInTransaction ==   \* a bug: an open transaction is flushed too
  /\ Reading
  /\ pending # {}
  /\ confirm_lsn # None
  /\ BeginFlush
  /\ UNCHANGED <<source, transaction, at, pending, confirm_lsn, gauge, disk>>

IdleFlushWhenFull ==   \* a bug: only a full batch is flushed
  /\ Reading
  /\ Cardinality(pending) >= BatchMaxRecords
  /\ transaction = None
  /\ BeginFlush
  /\ UNCHANGED <<source, transaction, at, pending, confirm_lsn, gauge, disk>>

\* read_message returned None: nothing has arrived.
IdleFlush ==
  /\ Reading
  /\ pending # {}
  /\ transaction = None
  /\ BeginFlush
  /\ UNCHANGED <<source, transaction, at, pending, confirm_lsn, gauge, disk>>

\* ... and nothing arrived for CDC_IDLE_TIMEOUT: the consumer ends, once it has
\* flushed what it could.
IdleExit ==
  /\ Reading
  /\ IdleTimeout
  /\ ~ (pending # {} /\ transaction = None)
  /\ Stop

\* The groups are written in the sorted order of (table, partition).
IsFirst(g, G) ==
  /\ g \in G
  /\ \A h \in G : g[1] < h[1] \/ (g[1] = h[1] /\ g[2] <= h[2])

RecordsIn(g) == {r \in pending : r.table = g[1] /\ r.date = g[2]}

\* The name of the file that holds the records R of group g.
IsNameOf(n, g, R) ==
  /\ n.table = g[1] /\ n.date = g[2]
  /\ \E r \in R : r.lsn = n.lo
  /\ \E r \in R : r.lsn = n.hi
  /\ \A r \in R : n.lo <= r.lsn /\ r.lsn <= n.hi

NamesByCount(g) ==   \* a bug: part-<number of records>
  {[table |-> g[1], date |-> g[2], lo |-> 1, hi |-> Cardinality(RecordsIn(g))]}

NamesFor(g) ==
  {n \in [table : {g[1]}, date : {g[2]},
          lo : {r.lsn : r \in RecordsIn(g)}, hi : {r.lsn : r \in RecordsIn(g)}] :
     IsNameOf(n, g, RecordsIn(g))}

StageAndConfirm ==   \* a bug: feedback once the data is synced, before os.replace
  /\ pc = "staging"
  /\ connected
  /\ \E g \in todo :
       /\ IsFirst(g, todo)
       /\ \E n \in NamesFor(g) : staging' = staging \cup {n}
  /\ pc' = "replacing"
  /\ feedback' = confirm_lsn
  /\ UNCHANGED <<committed, created, confirmed, persisted, position, connected>>
  /\ UNCHANGED <<batch, bronze>>

\* The staging file is opened, written and synced.
StageGroup ==
  /\ pc = "staging"
  /\ \E g \in todo :
       /\ IsFirst(g, todo)
       /\ \E n \in NamesFor(g) : staging' = staging \cup {n}
  /\ pc' = "replacing"
  /\ UNCHANGED <<source, batch, bronze>>

ReplaceFirstFile ==   \* a bug: the batch is done when its first group is
  /\ pc = "replacing"
  /\ \E g \in todo :
       /\ IsFirst(g, todo)
       /\ \E n \in NamesFor(g) \cap staging :
            /\ staging' = staging \ {n}
            /\ bronze' = {f \in bronze : f.name # n}
                           \cup {[name |-> n, recs |-> RecordsIn(g)]}
  /\ todo' = {}
  /\ pc' = "confirming"
  /\ UNCHANGED <<source, transaction, at, pending, confirm_lsn, gauge>>

\* os.replace: the file appears, in place of one with its name if there is one.
ReplaceFile ==
  /\ pc = "replacing"
  /\ \E g \in todo :
       /\ IsFirst(g, todo)
       /\ \E n \in NamesFor(g) \cap staging :
            /\ staging' = staging \ {n}
            /\ bronze' = {f \in bronze : f.name # n}
                           \cup {[name |-> n, recs |-> RecordsIn(g)]}
       /\ todo' = todo \ {g}
       /\ pc' = IF todo = {g} THEN "confirming" ELSE "staging"
  /\ UNCHANGED <<source, transaction, at, pending, confirm_lsn, gauge>>

ConfirmLastRecord ==   \* a bug: the last record's LSN is confirmed, not the Commit's
  /\ pc = "confirming"
  /\ connected
  /\ \E r \in pending : (\A q \in pending : q.lsn <= r.lsn) /\ feedback' = r.lsn
  /\ gauge' = confirm_lsn
  /\ pending' = {}
  /\ pc' = "reading"
  /\ UNCHANGED <<committed, created, confirmed, persisted, position, connected>>
  /\ UNCHANGED <<transaction, at, confirm_lsn, todo, disk>>

ConfirmAndKeep ==   \* a bug: `pending = []` is forgotten
  /\ pc = "confirming"
  /\ connected
  /\ feedback' = confirm_lsn
  /\ gauge' = confirm_lsn
  /\ pc' = "reading"
  /\ UNCHANGED <<committed, created, confirmed, persisted, position, connected>>
  /\ UNCHANGED <<transaction, at, pending, confirm_lsn, todo, disk>>

\* send_feedback with force, the telemetry, and the batch is forgotten.
ConfirmBatch ==
  /\ pc = "confirming"
  /\ connected
  /\ feedback' = confirm_lsn
  /\ gauge' = confirm_lsn
  /\ pending' = {}
  /\ pc' = "reading"
  /\ UNCHANGED <<committed, created, confirmed, persisted, position, connected>>
  /\ UNCHANGED <<transaction, at, confirm_lsn, todo, disk>>

\* read_message or send_feedback raises on a dead connection.
SessionLost ==
  /\ pc \in {"reading", "confirming"}
  /\ ~ connected
  /\ Stop

\* kill -9 at any moment; os._exit(17) of CDC_FAIL_BEFORE_FEEDBACK is the case
\* pc = "confirming".
Crash ==
  /\ pc # "stopped"
  /\ Stop

Source == CommitTransaction \/ ReceiveFeedback \/ PersistSlot \/ RestartPostgres \/ Disconnect

Consumer ==
  \/ Start \/ ReadBegin \/ ReadRowChange \/ ReadTruncate \/ RejectChange \/ ReadCommit
  \/ IdleFlush \/ IdleExit \/ StageGroup \/ ReplaceFile \/ ConfirmBatch
  \/ SessionLost \/ Crash

Next == Source \/ Consumer

Spec == Init /\ [][Next]_vars

\* The steps a running process takes by itself, and the walsender's processing of
\* what it receives. Nothing restarts a consumer that stopped (restart: "no").
Fairness ==
  /\ WF_vars(ReceiveFeedback)
  /\ WF_vars(ReadBegin) /\ WF_vars(ReadRowChange) /\ WF_vars(ReadTruncate)
  /\ WF_vars(RejectChange) /\ WF_vars(ReadCommit) /\ WF_vars(IdleFlush)
  /\ WF_vars(StageGroup) /\ WF_vars(ReplaceFile) /\ WF_vars(ConfirmBatch)
  /\ WF_vars(SessionLost)

FairSpec == Spec /\ Fairness

-----------------------------------------------------------------------------
(* Properties.                                                             *)

InBronze(r) == \E f \in bronze : r \in f.recs

\* The transactions the slot has to deliver.
Captured == {t \in committed : created # NoSlot /\ created < t.commit}

\* Whatever position the slot has confirmed, every record of every transaction
\* up to it is in the bronze layer: what Postgres will not send again is never
\* lost, though a replay may replace files and the slot may fall back.
ConfirmedIsDurable ==
  \A t \in Captured : t.commit <= confirmed => \A r \in RecordsOf(t) : InBronze(r)

\* The gauge cdc_confirmed_lsn never reports a position whose transactions are
\* not all in the bronze layer, whatever became of the feedback message.
GaugeIsDurable ==
  \A t \in Captured : t.commit <= gauge => \A r \in RecordsOf(t) : InBronze(r)

\* A transaction is never cut between two files: of the records a transaction
\* has in a (table, commit date), a file holds all or none, however the batches
\* of a replay fell.
TransactionsAreWhole ==
  \A f \in bronze, t \in committed :
    LET own == {r \in RecordsOf(t) : r.table = f.name.table /\ r.date = f.name.date}
    IN  own \cap f.recs # {} => own \subseteq f.recs

\* A transaction with a change the contract rejects leaves nothing in bronze, not
\* even its valid changes, and the slot stays before it: it is neither skipped
\* nor confirmed (exit code 2, until someone intervenes).
ViolationHoldsTheSlot ==
  \A t \in Captured :
    (\E l \in DOMAIN t.changes : ~ t.changes[l].valid) =>
      /\ confirmed < t.commit
      /\ \A r \in RecordsOf(t) : ~ InBronze(r)

\* The only positions ever sent to the slot are ends of transactions (or the
\* position it was created at), so no restart begins inside a transaction, and
\* a batch is never confirmed beyond the last Commit that was read.
IsBoundary(c) == c = created \/ \E t \in Captured : t.commit = c

ConfirmsAtBoundaries ==
  /\ IsBoundary(confirmed)
  /\ feedback # None => IsBoundary(feedback)
  /\ pc \in {"staging", "replacing", "confirming"} =>
       confirm_lsn = position /\ IsBoundary(confirm_lsn)

\* What a file replaces is always unconfirmed: a record that goes away with the
\* file that held it belongs to a transaction the slot will send again.
LostRecordsReturn ==
  [][\A f \in bronze : \A r \in f.recs :
       (~ \E g \in bronze' : r \in g.recs) => r.xid > confirmed]_vars

\* While the consumer runs, the confirmation reaches every committed transaction:
\* no batch waits for ever.
EventuallyConfirmed ==
  <>[](pc # "stopped") =>
    \A c \in Lsns : (\E t \in Captured : t.commit = c) ~> confirmed >= c

\* The consumer implements at-least-once delivery: the lake is what the bronze
\* files hold between them, the acknowledged position is the slot's.
Delivery == INSTANCE AtLeastOnce WITH
  from <- created, acked <- confirmed, lake <- UNION {f.recs : f \in bronze}

DeliversAtLeastOnce == Delivery!Spec

-----------------------------------------------------------------------------
(* The inductive invariant behind ConfirmedIsDurable. That the confirmed   *)
(* records are in some file is not inductive: a replay could replace that  *)
(* file. It cannot, because the first record of the file belongs to a      *)
(* confirmed transaction too, and a batch of this session holds only later *)
(* transactions: no file written from it starts with the same LSN.         *)

Flushing == pc \in {"staging", "replacing", "confirming"}

\* The WAL holds one thing at each position.
WalOK ==
  \A t, u \in committed :
    /\ DOMAIN t.changes # {}
    /\ \A l \in DOMAIN t.changes : l < t.commit
    /\ t # u => t.commit # u.commit /\ DOMAIN t.changes \cap DOMAIN u.changes = {}

\* The slot's positions are ordered, and each is a boundary of the stream.
SlotOK ==
  /\ created = NoSlot => confirmed = NoSlot /\ persisted = NoSlot /\ feedback = None
                          /\ pc = "stopped"
  /\ IsBoundary(confirmed) /\ IsBoundary(persisted)
  /\ persisted <= confirmed
  /\ feedback # None => IsBoundary(feedback) /\ confirmed <= feedback

\* What the process holds, against the position of the session it reads.
SessionOK ==
  /\ pc = "stopped" =>
       transaction = None /\ pending = {} /\ gauge = None /\ confirm_lsn = None
  /\ pc # "stopped" =>
       /\ IsBoundary(position)
       /\ confirmed <= position /\ feedback <= gauge /\ gauge <= position
       /\ confirm_lsn \in {None, position}
       /\ gauge # None => IsBoundary(gauge)
  /\ transaction # None =>
       \E t \in committed : t.commit = transaction /\ IsNext(t, committed, position)
  /\ pending # {} /\ transaction = None => confirm_lsn # None
  /\ ~ Flushing => todo = {}
  /\ pc = "confirming" => todo = {}
  /\ Flushing => transaction = None /\ confirm_lsn # None

\* A pending record belongs to a transaction after all that was confirmed, read
\* whole or up to the change just read.
PendingOK ==
  \A r \in pending : \E t \in Captured :
    /\ r \in RecordsOf(t)
    /\ t.changes[r.lsn].valid
    /\ confirmed < t.commit /\ gauge < t.commit
    /\ t.commit <= position \/ (t.commit = transaction /\ r.lsn <= at)

\* ... and the batch holds all of it.
BatchOK ==
  /\ \A t \in committed : \A l \in DOMAIN t.changes :
       t.commit = transaction /\ l <= at => RecordsAt(t, l) \subseteq pending
  /\ \A t \in committed : t.commit <= position =>
       RecordsOf(t) \cap pending = {} \/ RecordsOf(t) \subseteq pending
  /\ pc # "stopped" /\ connected =>
       \A t \in Captured :
         confirmed < t.commit /\ gauge < t.commit /\ t.commit <= position =>
           RecordsOf(t) \subseteq pending

\* A file holds records of valid transactions and of the group it is named for.
FilesOK ==
  \A f \in bronze : \A r \in f.recs :
    /\ r.table = f.name.table /\ r.date = f.name.date
    /\ \E t \in Captured :
         r \in RecordsOf(t) /\ \A l \in DOMAIN t.changes : t.changes[l].valid

\* Record r is in a file that begins with a record of the set Q.
InFileFrom(r, Q) ==
  \E f \in bronze : r \in f.recs /\ \E q \in f.recs : q.lsn = f.name.lo /\ q \in Q

UpTo(c) == {q \in Record : q.xid <= c}

SealedUpTo(c) ==
  \A t \in Captured :
    t.commit <= c => \A r \in RecordsOf(t) : InFileFrom(r, UpTo(c))

DurableOK ==
  SealedUpTo(confirmed) /\ SealedUpTo(persisted) /\ SealedUpTo(feedback) /\ SealedUpTo(gauge)

\* The groups of the batch that are written are in files of the batch.
FlushOK ==
  Flushing => \A r \in pending : <<r.table, r.date>> \in todo \/ InFileFrom(r, pending)

IInv ==
  /\ TypeOK /\ WalOK /\ SlotOK /\ SessionOK /\ PendingOK /\ BatchOK /\ FilesOK
  /\ TransactionsAreWhole /\ DurableOK /\ FlushOK

-----------------------------------------------------------------------------
(* What is left of it beside a second process (module TwoConsumers), which *)
(* moves the slot and writes files too.                                    *)

\* No change up to position c breaks its contract.
AcceptedUpTo(c) ==
  \A t \in Captured : t.commit <= c => \A l \in DOMAIN t.changes : t.changes[l].valid

\* The WAL, the slot and the files, whoever wrote them.
StoreOK ==
  /\ WalOK
  /\ created = NoSlot => confirmed = NoSlot /\ persisted = NoSlot
  /\ IsBoundary(confirmed) /\ IsBoundary(persisted)
  /\ AcceptedUpTo(confirmed) /\ AcceptedUpTo(persisted)
  /\ FilesOK /\ TransactionsAreWhole

\* The session and the batch of a process, which may have been cut off from Postgres
\* long ago: the batch is what was read of the stream, in whole transactions but for
\* the one that is being read, and only a connected process bounds the slot.
MemoryOK ==
  /\ pc = "stopped" =>
       transaction = None /\ pending = {} /\ confirm_lsn = None /\ ~ connected
  /\ pc # "stopped" =>
       /\ created # NoSlot /\ IsBoundary(position) /\ AcceptedUpTo(position)
       /\ confirm_lsn \in {None, position}
  /\ connected => confirmed <= position /\ feedback <= position
  /\ feedback # None => IsBoundary(feedback) /\ AcceptedUpTo(feedback)
  /\ transaction # None =>
       \E t \in committed : t.commit = transaction /\ IsNext(t, committed, position)
  /\ Flushing => transaction = None
  /\ \A r \in pending : \E t \in Captured :
       /\ r \in RecordsOf(t) /\ t.changes[r.lsn].valid
       /\ t.commit <= position \/ (t.commit = transaction /\ r.lsn <= at)
  /\ \A t \in committed : \A l \in DOMAIN t.changes :
       t.commit = transaction /\ l <= at => RecordsAt(t, l) \subseteq pending
  /\ \A t \in committed : t.commit <= position =>
       RecordsOf(t) \cap pending = {} \/ RecordsOf(t) \subseteq pending

BesideOK == TypeOK /\ StoreOK /\ MemoryOK

\* A process that is not running, and of which Postgres has nothing either.
Resting ==
  /\ pc = "stopped" /\ connected = FALSE /\ feedback = None
  /\ transaction = None /\ pending = {} /\ confirm_lsn = None /\ gauge = None /\ todo = {}
=============================================================================
