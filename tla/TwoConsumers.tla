---------------------------- MODULE TwoConsumers ----------------------------
(***************************************************************************)
(* Two processes of the CDC consumer over one slot and one bronze          *)
(* directory: a second one started by mistake, or started because the      *)
(* first was cut off from Postgres and had not ended yet. Postgres gives   *)
(* the slot to one session at a time; nothing guards the directory.        *)
(*                                                                         *)
(* Each process is an instance of CdcConsumer with variables of its own;   *)
(* the WAL, the slot and the disk are shared. (The instances are of        *)
(* CdcConsumerProofs, which adds to CdcConsumer only its theorems: they    *)
(* hold of each process then.) Left out: two processes that write to one   *)
(* staging file at the same time.                                          *)
(***************************************************************************)
EXTENDS ChangeStream

CONSTANTS
  BatchMaxRecords, IdleTimeout, MaxTransactions, MaxChanges,   \* as in CdcConsumer
  Takeover   \* whether a process may be started while one that was cut off still runs

ASSUME BatchAssumption == BatchMaxRecords \in Nat \ {0}
ASSUME IdleAssumption == IdleTimeout \in BOOLEAN
ASSUME BoundsAssumption == MaxTransactions \in Nat /\ MaxChanges \in Nat
ASSUME TakeoverAssumption == Takeover \in BOOLEAN

VARIABLES
  committed, created, confirmed, persisted, staging, bronze,
  position1, connected1, feedback1, pc1, transaction1, at1, pending1, confirm_lsn1,
  gauge1, todo1,
  position2, connected2, feedback2, pc2, transaction2, at2, pending2, confirm_lsn2,
  gauge2, todo2

One == INSTANCE CdcConsumerProofs WITH
  position <- position1, connected <- connected1, feedback <- feedback1, pc <- pc1,
  transaction <- transaction1, at <- at1, pending <- pending1,
  confirm_lsn <- confirm_lsn1, gauge <- gauge1, todo <- todo1

Two == INSTANCE CdcConsumerProofs WITH
  position <- position2, connected <- connected2, feedback <- feedback2, pc <- pc2,
  transaction <- transaction2, at <- at2, pending <- pending2,
  confirm_lsn <- confirm_lsn2, gauge <- gauge2, todo <- todo2

memory1  == <<position1, pc1, transaction1, at1, pending1, confirm_lsn1, gauge1, todo1>>
memory2  == <<position2, pc2, transaction2, at2, pending2, confirm_lsn2, gauge2, todo2>>
session1 == <<connected1, feedback1>>
session2 == <<connected2, feedback2>>
slot     == <<created, confirmed, persisted>>

vars == <<committed, slot, staging, bronze, memory1, session1, memory2, session2>>

Init == One!Init /\ Two!Init

-----------------------------------------------------------------------------
(* Start and end of the processes.                                         *)

StartWhenNotReading1 ==   \* a bug: the slot is given to a second session
  /\ Takeover \/ pc2 = "stopped"
  /\ One!Start
  /\ UNCHANGED <<memory2, session2>>

\* A process starts once the session of the other is gone from Postgres, and what it
\* sent with it.
Start1 ==
  /\ ~ connected2 /\ (Takeover \/ pc2 = "stopped")
  /\ One!Start
  /\ feedback2' = One!None
  /\ UNCHANGED <<memory2, connected2>>

Start2 ==
  /\ ~ connected1 /\ (Takeover \/ pc1 = "stopped")
  /\ Two!Start
  /\ feedback1' = Two!None
  /\ UNCHANGED <<memory1, connected1>>

\* ... or it fails, as the slot is active, after it has discarded staging files.
Refuse ==
  /\ (pc1 = "stopped" /\ connected2) \/ (pc2 = "stopped" /\ connected1)
  /\ One!DiscardStaleStaging
  /\ UNCHANGED <<committed, slot, bronze, memory1, session1, memory2, session2>>

\* os.replace finds no staging file: the process ends with a traceback.
ReplaceRaises1 ==
  /\ pc1 = "replacing"
  /\ \E g \in todo1 : One!IsFirst(g, todo1) /\ One!NamesFor(g) \cap staging = {}
  /\ One!Stop
  /\ UNCHANGED <<memory2, session2>>

ReplaceRaises2 ==
  /\ pc2 = "replacing"
  /\ \E g \in todo2 : Two!IsFirst(g, todo2) /\ Two!NamesFor(g) \cap staging = {}
  /\ Two!Stop
  /\ UNCHANGED <<memory1, session1>>

Work1 == pc1 # "stopped" /\ One!Consumer /\ UNCHANGED <<memory2, session2>>
Work2 == pc2 # "stopped" /\ Two!Consumer /\ UNCHANGED <<memory1, session1>>

-----------------------------------------------------------------------------
(* The source.                                                             *)

Source1 ==
  /\ One!CommitTransaction \/ One!ReceiveFeedback \/ One!PersistSlot \/ One!Disconnect
  /\ UNCHANGED <<memory2, session2>>

Source2 ==
  /\ Two!ReceiveFeedback \/ Two!Disconnect
  /\ UNCHANGED <<memory1, session1>>

RestartPostgres ==
  /\ One!RestartPostgres
  /\ connected2' = FALSE /\ feedback2' = One!None
  /\ UNCHANGED memory2

Next ==
  \/ Start1 \/ Start2 \/ Refuse \/ ReplaceRaises1 \/ ReplaceRaises2 \/ Work1 \/ Work2
  \/ Source1 \/ Source2 \/ RestartPostgres

Spec == Init /\ [][Next]_vars

-----------------------------------------------------------------------------
(* Properties.                                                             *)

\* What the slot has confirmed is in bronze, and no transaction is cut: a process
\* that is started beside another one and refused harms nothing but the batch whose
\* staging file it deletes. (README.md:22 and docs/adr/0008: the slot resumes from
\* the last confirmed position, and nothing is lost.)
ConfirmedIsDurable   == One!ConfirmedIsDurable
TransactionsAreWhole == One!TransactionsAreWhole

\* A refused change holds the slot for both: neither writes anything of its transaction
\* nor confirms it (consumer.py:319, exit status 2), whoever had read it before.
ViolationHoldsTheSlot == One!ViolationHoldsTheSlot

\* No process confirms what another has only in memory: the confirmed position never
\* passes what the one that reads has read.
ConfirmedWasRead ==
  /\ connected1 => confirmed <= position1
  /\ connected2 => confirmed <= position2

Delivery == INSTANCE AtLeastOnce WITH
  from <- created, acked <- confirmed, lake <- UNION {f.recs : f \in bronze}

\* Where one works at a time, the two deliver at least once, as one does: the slot and
\* the directory go through the steps of AtLeastOnce (docs/adr/0008).
DeliversAtLeastOnce == Delivery!Spec

-----------------------------------------------------------------------------
(* The inductive invariants.                                               *)

\* One session at a time, and what an earlier one sent is gone by then.
SessionsExclude ==
  /\ ~ (connected1 /\ connected2)
  /\ connected1 => feedback2 = One!None
  /\ connected2 => feedback1 = One!None

\* What a process keeps whatever another one does to the slot and the directory: holds
\* with takeovers too.
BesideInv == One!BesideOK /\ Two!BesideOK /\ SessionsExclude

\* Without takeovers: one process works, and all that holds of a process alone holds
\* of it, while the other one rests.
AloneInv ==
  /\ One!TypeOK /\ Two!TypeOK
  /\ (One!IInv /\ Two!Resting) \/ (Two!IInv /\ One!Resting)

SharedInv == BesideInv /\ (~ Takeover => AloneInv)
=============================================================================
