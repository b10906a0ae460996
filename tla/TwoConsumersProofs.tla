-------------------------- MODULE TwoConsumersProofs -------------------------
(***************************************************************************)
(* Proofs about TwoConsumers, for any tables, dates, WAL and batch size:   *)
(* what two processes over one slot and one directory keep whether or not  *)
(* one may take over from the other, and all that one process keeps when   *)
(* none may. They rest on the lemmas of CdcConsumerProofs about each one.  *)
(***************************************************************************)
EXTENDS TwoConsumers, TLAPS

-----------------------------------------------------------------------------
(* What is proved of each process, with the constants of this module.      *)

\* What holds at first.
LEMMA InitOfEach ==
  /\ One!Init => One!IInv /\ One!BesideOK
  /\ Two!Init => Two!IInv /\ Two!BesideOK
BY One!InitInvariant, One!InitBeside, Two!InitInvariant, Two!InitBeside,
   TablesAssumption, DatesAssumption, BodiesAssumption, MaxLsnAssumption,
   BatchAssumption, IdleAssumption, BoundsAssumption
   DEF Body, One!Body, Two!Body

\* What the steps of the process and of the source keep.
LEMMA StepOfEach ==
  /\ One!BesideOK /\ One!Next => One!BesideOK'
  /\ Two!BesideOK /\ Two!Next => Two!BesideOK'
  /\ One!IInv /\ One!Next => One!IInv'
  /\ Two!IInv /\ Two!Next => Two!IInv'
BY One!StepInvariant, One!StepBeside, Two!StepInvariant, Two!StepBeside,
   TablesAssumption, DatesAssumption, BodiesAssumption, MaxLsnAssumption,
   BatchAssumption, IdleAssumption, BoundsAssumption
   DEF Body, One!Body, Two!Body

\* ... and a step that changes nothing.
LEMMA StutterOfEach ==
  UNCHANGED vars => (One!IInv => One!IInv') /\ (Two!IInv => Two!IInv')
BY One!StutterInvariant, Two!StutterInvariant,
   TablesAssumption, DatesAssumption, BodiesAssumption, MaxLsnAssumption,
   BatchAssumption, IdleAssumption, BoundsAssumption
   DEF Body, One!Body, Two!Body, One!vars, Two!vars, vars, slot, memory1, session1,
       memory2, session2

\* What its memory keeps while others move the slot and the files.
LEMMA OthersOfEach ==
  /\ /\ One!TypeOK /\ One!MemoryOK /\ UNCHANGED <<committed, memory1>>
     /\ feedback1' \in {feedback1, One!None}
     /\ created' = created \/ created = One!NoSlot
     /\ connected1' => connected1 /\ confirmed' = confirmed
     => One!MemoryOK'
  /\ /\ Two!TypeOK /\ Two!MemoryOK /\ UNCHANGED <<committed, memory2>>
     /\ feedback2' \in {feedback2, Two!None}
     /\ created' = created \/ created = Two!NoSlot
     /\ connected2' => connected2 /\ confirmed' = confirmed
     => Two!MemoryOK'
BY One!OthersMemory, Two!OthersMemory,
   TablesAssumption, DatesAssumption, BodiesAssumption, MaxLsnAssumption,
   BatchAssumption, IdleAssumption, BoundsAssumption
   DEF Body, One!Body, Two!Body, memory1, memory2

\* What its steps leave alone.
LEMMA FrameOfEach ==
  /\ One!Consumer /\ pc1 # "stopped" =>
       /\ UNCHANGED <<committed, created, confirmed, persisted>>
       /\ connected1' => connected1
       /\ feedback1' = feedback1 \/ connected1
  /\ Two!Consumer /\ pc2 # "stopped" =>
       /\ UNCHANGED <<committed, created, confirmed, persisted>>
       /\ connected2' => connected2
       /\ feedback2' = feedback2 \/ connected2
BY One!WorkFrame, Two!WorkFrame,
   TablesAssumption, DatesAssumption, BodiesAssumption, MaxLsnAssumption,
   BatchAssumption, IdleAssumption, BoundsAssumption
   DEF Body, One!Body, Two!Body

\* How its invariant and the state of the store make each other.
LEMMA StoreOfEach ==
  /\ One!IInv =>
       /\ One!TypeOK /\ One!StoreOK /\ persisted <= confirmed
       /\ One!SealedUpTo(confirmed) /\ One!SealedUpTo(persisted)
  /\ Two!IInv =>
       /\ Two!TypeOK /\ Two!StoreOK /\ persisted <= confirmed
       /\ Two!SealedUpTo(confirmed) /\ Two!SealedUpTo(persisted)
  /\ One!TypeOK /\ One!StoreOK /\ One!Resting /\ persisted <= confirmed
       /\ One!SealedUpTo(confirmed) /\ One!SealedUpTo(persisted) => One!IInv
  /\ Two!TypeOK /\ Two!StoreOK /\ Two!Resting /\ persisted <= confirmed
       /\ Two!SealedUpTo(confirmed) /\ Two!SealedUpTo(persisted) => Two!IInv
BY One!InvariantOfStore, Two!InvariantOfStore, One!RestingInvariant, Two!RestingInvariant,
   TablesAssumption, DatesAssumption, BodiesAssumption, MaxLsnAssumption,
   BatchAssumption, IdleAssumption, BoundsAssumption
   DEF Body, One!Body, Two!Body

\* What a store of accepted changes shows.
LEMMA AcceptedOfEach ==
  One!TypeOK /\ One!WalOK /\ One!FilesOK /\ One!AcceptedUpTo(confirmed)
    => One!ViolationHoldsTheSlot
BY One!AcceptedHolds,
   TablesAssumption, DatesAssumption, BodiesAssumption, MaxLsnAssumption,
   BatchAssumption, IdleAssumption, BoundsAssumption
   DEF Body, One!Body

\* Its invariant does not depend on staging files.
LEMMA StagingOfEach ==
  /\ staging' = {}
  /\ UNCHANGED <<committed, slot, bronze, memory1, session1, memory2, session2>>
  =>
  /\ One!IInv => One!IInv'
  /\ Two!IInv => Two!IInv'
BY One!StagingInvariant, Two!StagingInvariant,
   TablesAssumption, DatesAssumption, BodiesAssumption, MaxLsnAssumption,
   BatchAssumption, IdleAssumption, BoundsAssumption
   DEF Body, One!Body, Two!Body, One!source, One!batch, Two!source, Two!batch,
       slot, memory1, session1, memory2, session2

-----------------------------------------------------------------------------
(* What the two share.                                                     *)

\* What is said of the store means the same to both.
LEMMA SharedStore ==
  /\ One!StoreOK <=> Two!StoreOK
  /\ One!StoreOK' <=> Two!StoreOK'
  /\ \A c : One!SealedUpTo(c) <=> Two!SealedUpTo(c)
BY DEF One!StoreOK, One!WalOK, One!IsBoundary, One!AcceptedUpTo, One!FilesOK,
       One!TransactionsAreWhole, One!Captured, One!RecordsOf, One!RecordsAt, One!NoSlot,
       One!SealedUpTo, One!InFileFrom, One!UpTo, One!Record, One!Lsns,
       Two!StoreOK, Two!WalOK, Two!IsBoundary, Two!AcceptedUpTo, Two!FilesOK,
       Two!TransactionsAreWhole, Two!Captured, Two!RecordsOf, Two!RecordsAt, Two!NoSlot,
       Two!SealedUpTo, Two!InFileFrom, Two!UpTo, Two!Record, Two!Lsns

\* A transaction that commits does so for both.
LEMMA SharedCommit ==
  One!CommitTransaction /\ UNCHANGED <<memory2, session2>> => Two!CommitTransaction
BY DEF One!CommitTransaction, One!Lsns, One!Extends, One!batch, One!disk,
       One!Cardinality, One!IsFiniteSet, Two!CommitTransaction, Two!Lsns, Two!Extends,
       Two!batch, Two!disk, Two!Cardinality, Two!IsFiniteSet, memory2, session2

\* ... a checkpoint saves the slot of both ...
LEMMA SharedPersist ==
  One!PersistSlot /\ UNCHANGED <<memory2, session2>> => Two!PersistSlot
BY DEF One!PersistSlot, One!batch, One!disk, Two!PersistSlot, Two!batch, Two!disk,
       memory2, session2

\* ... and Postgres restarts for both.
LEMMA SharedRestart ==
  One!RestartPostgres /\ connected2' = FALSE /\ feedback2' = One!None /\ UNCHANGED memory2
    => Two!RestartPostgres
BY DEF One!RestartPostgres, One!batch, One!disk, One!None, One!NoSlot,
       Two!RestartPostgres, Two!batch, Two!disk, Two!None, Two!NoSlot, memory2

\* The variables of a process that does nothing keep their types.
LEMMA SharedTypes ==
  /\ Two!TypeOK /\ One!TypeOK' /\ UNCHANGED memory2 /\ connected2' \in BOOLEAN
       /\ feedback2' \in {feedback2, Two!None} => Two!TypeOK'
  /\ One!TypeOK /\ Two!TypeOK' /\ UNCHANGED memory1 /\ connected1' \in BOOLEAN
       /\ feedback1' \in {feedback1, One!None} => One!TypeOK'
<1>1. 0 \in 0 .. MaxLsn
  BY MaxLsnAssumption
<1> QED
  BY <1>1
     DEF One!TypeOK, One!PC, One!Group, One!Name, One!File, One!Record, One!Transaction,
         One!Lsns, One!NoSlot, One!None, Two!TypeOK, Two!PC, Two!Group, Two!Name, Two!File,
         Two!Record, Two!Transaction, Two!Lsns, Two!NoSlot, Two!None, memory1, memory2

-----------------------------------------------------------------------------
(* Whether or not there are takeovers.                                     *)

\* The other process, beside one that works: only the store moves.
LEMMA OtherBesideOne ==
  ASSUME BesideInv, One!BesideOK', UNCHANGED <<committed, memory2>>,
         feedback2' \in {feedback2, Two!None}, connected2' \in BOOLEAN,
         created' = created \/ created = Two!NoSlot,
         connected2' => connected2 /\ confirmed' = confirmed
  PROVE  Two!BesideOK'
<1>1. Two!TypeOK'
  BY SharedTypes DEF BesideInv, One!BesideOK, Two!BesideOK
<1>2. Two!StoreOK'
  BY SharedStore DEF One!BesideOK
<1>3. Two!MemoryOK'
  BY OthersOfEach DEF BesideInv, Two!BesideOK
<1> QED
  BY <1>1, <1>2, <1>3 DEF Two!BesideOK

\* The same of the first process, beside the second one.
LEMMA OtherBesideTwo ==
  ASSUME BesideInv, Two!BesideOK', UNCHANGED <<committed, memory1>>,
         feedback1' \in {feedback1, One!None}, connected1' \in BOOLEAN,
         created' = created \/ created = One!NoSlot,
         connected1' => connected1 /\ confirmed' = confirmed
  PROVE  One!BesideOK'
<1>1. One!TypeOK'
  BY SharedTypes DEF BesideInv, One!BesideOK, Two!BesideOK
<1>2. One!StoreOK'
  BY SharedStore DEF Two!BesideOK
<1>3. One!MemoryOK'
  BY OthersOfEach DEF BesideInv, One!BesideOK
<1> QED
  BY <1>1, <1>2, <1>3 DEF One!BesideOK

\* A start, once no session is left but its own.
LEMMA StartBesideInv == BesideInv /\ (Start1 \/ Start2) => BesideInv'
<1> USE DEF One!None, Two!None, One!NoSlot, Two!NoSlot
<1>1. ASSUME BesideInv, Start1 PROVE BesideInv'
  <2>1. One!BesideOK'
    BY <1>1, StepOfEach DEF BesideInv, Start1, One!Next, One!Consumer
  <2>2. /\ UNCHANGED <<committed, memory2, connected2>> /\ ~ connected2
        /\ feedback2' = Two!None
        /\ created' = created \/ created = Two!NoSlot
    BY <1>1 DEF Start1, One!Start, One!EnsureSlot
  <2>3. connected2 \in BOOLEAN
    BY <1>1 DEF BesideInv, Two!BesideOK, Two!TypeOK
  <2>4. Two!BesideOK'
    BY <1>1, <2>1, <2>2, <2>3, OtherBesideOne
  <2> QED
    BY <2>1, <2>2, <2>4 DEF BesideInv, SessionsExclude
<1>2. ASSUME BesideInv, Start2 PROVE BesideInv'
  <2>1. Two!BesideOK'
    BY <1>2, StepOfEach DEF BesideInv, Start2, Two!Next, Two!Consumer
  <2>2. /\ UNCHANGED <<committed, memory1, connected1>> /\ ~ connected1
        /\ feedback1' = One!None
        /\ created' = created \/ created = One!NoSlot
    BY <1>2 DEF Start2, Two!Start, Two!EnsureSlot
  <2>3. connected1 \in BOOLEAN
    BY <1>2 DEF BesideInv, One!BesideOK, One!TypeOK
  <2>4. One!BesideOK'
    BY <1>2, <2>1, <2>2, <2>3, OtherBesideTwo
  <2> QED
    BY <2>1, <2>2, <2>4 DEF BesideInv, SessionsExclude
<1> QED
  BY <1>1, <1>2

\* A start that is refused.
LEMMA RefuseBesideInv == BesideInv /\ Refuse => BesideInv'
<1> SUFFICES ASSUME BesideInv, Refuse PROVE BesideInv'
  OBVIOUS
<1>1. /\ staging' = {}
      /\ UNCHANGED <<committed, slot, bronze, memory1, session1, memory2, session2>>
  BY DEF Refuse, One!DiscardStaleStaging
<1>2. One!TypeOK' /\ One!StoreOK' /\ One!MemoryOK'
  BY <1>1 DEF BesideInv, One!BesideOK, One!TypeOK, One!StoreOK, One!WalOK, One!IsBoundary,
         One!AcceptedUpTo, One!FilesOK, One!TransactionsAreWhole, One!Captured,
         One!MemoryOK, One!Flushing, slot, memory1, session1
<1>3. Two!TypeOK' /\ Two!StoreOK' /\ Two!MemoryOK'
  BY <1>1 DEF BesideInv, Two!BesideOK, Two!TypeOK, Two!StoreOK, Two!WalOK, Two!IsBoundary,
         Two!AcceptedUpTo, Two!FilesOK, Two!TransactionsAreWhole, Two!Captured,
         Two!MemoryOK, Two!Flushing, slot, memory2, session2
<1> QED
  BY <1>1, <1>2, <1>3
     DEF BesideInv, One!BesideOK, Two!BesideOK, SessionsExclude, session1, session2

\* A process at work, or stopped by an os.replace that finds no staging file.
LEMMA WorkBesideInv ==
  BesideInv /\ (Work1 \/ Work2 \/ ReplaceRaises1 \/ ReplaceRaises2) => BesideInv'
<1>1. ASSUME BesideInv, Work1 \/ ReplaceRaises1 PROVE BesideInv'
  <2>1. One!Consumer /\ pc1 # "stopped" /\ UNCHANGED <<memory2, session2>>
    BY <1>1 DEF Work1, ReplaceRaises1, One!Consumer, One!Crash
  <2>2. One!BesideOK'
    BY <1>1, <2>1, StepOfEach DEF BesideInv, One!Next
  <2>3. /\ UNCHANGED <<committed, created, confirmed>>
        /\ connected1' => connected1
        /\ feedback1' = feedback1 \/ connected1
    BY <2>1, FrameOfEach
  <2>4. connected2 \in BOOLEAN
    BY <1>1 DEF BesideInv, Two!BesideOK, Two!TypeOK
  <2>5. Two!BesideOK'
    BY <1>1, <2>1, <2>2, <2>3, <2>4, OtherBesideOne DEF session2
  <2> QED
    BY <1>1, <2>1, <2>2, <2>3, <2>5 DEF BesideInv, SessionsExclude, session2
<1>2. ASSUME BesideInv, Work2 \/ ReplaceRaises2 PROVE BesideInv'
  <2>1. Two!Consumer /\ pc2 # "stopped" /\ UNCHANGED <<memory1, session1>>
    BY <1>2 DEF Work2, ReplaceRaises2, Two!Consumer, Two!Crash
  <2>2. Two!BesideOK'
    BY <1>2, <2>1, StepOfEach DEF BesideInv, Two!Next
  <2>3. /\ UNCHANGED <<committed, created, confirmed>>
        /\ connected2' => connected2
        /\ feedback2' = feedback2 \/ connected2
    BY <2>1, FrameOfEach
  <2>4. connected1 \in BOOLEAN
    BY <1>2 DEF BesideInv, One!BesideOK, One!TypeOK
  <2>5. One!BesideOK'
    BY <1>2, <2>1, <2>2, <2>3, <2>4, OtherBesideTwo DEF session1
  <2> QED
    BY <1>2, <2>1, <2>2, <2>3, <2>5 DEF BesideInv, SessionsExclude, session1
<1> QED
  BY <1>1, <1>2

\* The source: commits and restarts are for both, a session for one.
LEMMA SourceBesideInv == BesideInv /\ (Source1 \/ Source2 \/ RestartPostgres) => BesideInv'
<1> SUFFICES ASSUME BesideInv PROVE Source1 \/ Source2 \/ RestartPostgres => BesideInv'
  OBVIOUS
<1>0. connected1 \in BOOLEAN /\ connected2 \in BOOLEAN
  BY DEF BesideInv, One!BesideOK, One!TypeOK, Two!BesideOK, Two!TypeOK
<1>1. ASSUME One!CommitTransaction, UNCHANGED <<memory2, session2>> PROVE BesideInv'
  <2>1. Two!CommitTransaction
    BY <1>1, SharedCommit
  <2>2. One!BesideOK' /\ Two!BesideOK'
    BY <1>1, <2>1, StepOfEach DEF BesideInv, One!Next, One!Source, Two!Next, Two!Source
  <2> QED
    BY <1>1, <2>2 DEF BesideInv, SessionsExclude, One!CommitTransaction, session2
<1>2. ASSUME One!ReceiveFeedback \/ One!PersistSlot \/ One!Disconnect,
             UNCHANGED <<memory2, session2>>
      PROVE  BesideInv'
  <2>1. One!BesideOK'
    BY <1>2, StepOfEach DEF BesideInv, One!Next, One!Source
  <2>2. /\ UNCHANGED <<committed, created>>
        /\ connected1' => connected1
        /\ feedback1' \in {feedback1, One!None}
        /\ confirmed' = confirmed \/ feedback1 # One!None
    BY <1>2 DEF One!ReceiveFeedback, One!PersistSlot, One!Disconnect
  <2>3. Two!BesideOK'
    BY <1>0, <1>2, <2>1, <2>2, OtherBesideOne DEF BesideInv, SessionsExclude, session2
  <2> QED
    BY <1>2, <2>1, <2>2, <2>3 DEF BesideInv, SessionsExclude, session2
<1>3. CASE Source2
  <2>1. Two!BesideOK'
    BY <1>3, StepOfEach DEF BesideInv, Source2, Two!Next, Two!Source
  <2>2. /\ UNCHANGED <<committed, created, memory1, session1>>
        /\ connected2' => connected2
        /\ feedback2' \in {feedback2, Two!None}
        /\ confirmed' = confirmed \/ feedback2 # Two!None
    BY <1>3 DEF Source2, Two!ReceiveFeedback, Two!Disconnect
  <2>3. One!BesideOK'
    BY <1>0, <2>1, <2>2, OtherBesideTwo
       DEF BesideInv, SessionsExclude, session1, One!None, Two!None
  <2> QED
    BY <2>1, <2>2, <2>3 DEF BesideInv, SessionsExclude, session1, One!None, Two!None
<1>4. CASE RestartPostgres
  <2>1. One!BesideOK' /\ Two!BesideOK'
    BY <1>4, StepOfEach, SharedRestart
       DEF BesideInv, RestartPostgres, One!Next, One!Source, Two!Next, Two!Source
  <2>2. ~ connected1' /\ ~ connected2'
    BY <1>4 DEF RestartPostgres, One!RestartPostgres
  <2> QED
    BY <2>1, <2>2 DEF BesideInv, SessionsExclude
<1> QED
  BY <1>1, <1>2, <1>3, <1>4 DEF Source1

\* Nothing happens.
LEMMA StutterBesideInv == BesideInv /\ UNCHANGED vars => BesideInv'
<1> SUFFICES ASSUME BesideInv, UNCHANGED vars PROVE BesideInv'
  OBVIOUS
<1> USE DEF vars, slot, memory1, session1, memory2, session2
<1>1. One!TypeOK' /\ One!StoreOK' /\ One!MemoryOK'
  BY DEF BesideInv, One!BesideOK, One!TypeOK, One!StoreOK, One!WalOK, One!IsBoundary,
         One!AcceptedUpTo, One!FilesOK, One!TransactionsAreWhole, One!Captured,
         One!MemoryOK, One!Flushing
<1>2. Two!TypeOK' /\ Two!StoreOK' /\ Two!MemoryOK'
  BY DEF BesideInv, Two!BesideOK, Two!TypeOK, Two!StoreOK, Two!WalOK, Two!IsBoundary,
         Two!AcceptedUpTo, Two!FilesOK, Two!TransactionsAreWhole, Two!Captured,
         Two!MemoryOK, Two!Flushing
<1> QED
  BY <1>1, <1>2 DEF BesideInv, One!BesideOK, Two!BesideOK, SessionsExclude

-----------------------------------------------------------------------------
(* Without takeovers.                                                      *)

\* A process that has stopped, its session gone and its feedback with it, rests.
LEMMA StoppedRests ==
  /\ One!IInv /\ pc1 = "stopped" /\ connected1' = FALSE /\ feedback1' = One!None
       /\ UNCHANGED memory1 => One!Resting'
  /\ Two!IInv /\ pc2 = "stopped" /\ connected2' = FALSE /\ feedback2' = Two!None
       /\ UNCHANGED memory2 => Two!Resting'
BY DEF One!IInv, One!SessionOK, One!Flushing, One!Resting, One!None,
       Two!IInv, Two!SessionOK, Two!Flushing, Two!Resting, Two!None, memory1, memory2

\* What rests stays at rest until it is started.
LEMMA RestStays ==
  /\ One!Resting /\ UNCHANGED memory1 /\ connected1' = FALSE /\ feedback1' = One!None
       => One!Resting'
  /\ Two!Resting /\ UNCHANGED memory2 /\ connected2' = FALSE /\ feedback2' = Two!None
       => Two!Resting'
BY DEF One!Resting, Two!Resting, memory1, memory2

\* While one process works, the other one can only be started, and that when the first
\* has stopped: then it begins with all that the first has left.
LEMMA FirstWorks ==
  ASSUME ~ Takeover, One!TypeOK, Two!TypeOK, One!IInv, Two!Resting, [Next]_vars
  PROVE  AloneInv'
<1>1. pc2 = "stopped" /\ connected2 = FALSE /\ feedback2 = Two!None
  BY DEF Two!Resting
<1>2. ASSUME One!Next, UNCHANGED memory2, connected2' = FALSE, feedback2' = Two!None
      PROVE  AloneInv'
  <2>1. One!IInv'
    BY <1>2, StepOfEach
  <2>2. Two!Resting'
    BY <1>2, RestStays
  <2>3. One!TypeOK' /\ Two!TypeOK'
    BY <1>1, <1>2, <2>1, SharedTypes DEF One!IInv, Two!Resting
  <2> QED
    BY <2>1, <2>2, <2>3 DEF AloneInv
<1>3. CASE Start1
  BY <1>1, <1>2, <1>3 DEF Start1, One!Next, One!Consumer, One!None, Two!None
<1>4. CASE Start2
  <2>1. Two!IInv
    BY StoreOfEach, SharedStore
  <2>2. Two!IInv'
    BY <1>4, <2>1, StepOfEach DEF Start2, Two!Next, Two!Consumer
  <2>3. connected1' = FALSE /\ feedback1' = One!None /\ UNCHANGED memory1
    BY <1>4 DEF Start2, One!TypeOK, One!None, Two!None
  <2>4. One!Resting'
    BY <1>4, <2>3, StoppedRests DEF Start2
  <2>5. One!TypeOK' /\ Two!TypeOK'
    BY <2>2, <2>3, SharedTypes DEF Two!IInv
  <2> QED
    BY <2>2, <2>4, <2>5 DEF AloneInv
<1>5. CASE Refuse
  <2>1. One!IInv'
    BY <1>5, StagingOfEach DEF Refuse, One!DiscardStaleStaging
  <2>2. Two!Resting'
    BY <1>1, <1>5, RestStays DEF Refuse, session2
  <2>3. One!TypeOK' /\ Two!TypeOK'
    BY <1>1, <1>5, <2>1, SharedTypes DEF One!IInv, Refuse, session2
  <2> QED
    BY <2>1, <2>2, <2>3 DEF AloneInv
<1>6. CASE Work1 \/ ReplaceRaises1
  BY <1>1, <1>2, <1>6 DEF Work1, ReplaceRaises1, One!Next, One!Consumer, One!Crash, session2
<1>7. CASE Work2 \/ ReplaceRaises2
  BY <1>1, <1>7 DEF Work2, ReplaceRaises2
<1>8. CASE Source1
  BY <1>1, <1>2, <1>8 DEF Source1, One!Next, One!Source, session2
<1>9. CASE Source2
  BY <1>1, <1>9 DEF Source2, Two!ReceiveFeedback, Two!Disconnect
<1>10. CASE RestartPostgres
  BY <1>2, <1>10 DEF RestartPostgres, One!Next, One!Source, One!None, Two!None
<1>11. CASE UNCHANGED vars
  <2>1. One!IInv'
    BY <1>11, StutterOfEach
  <2>2. Two!Resting'
    BY <1>1, <1>11, RestStays DEF vars, session2
  <2>3. One!TypeOK' /\ Two!TypeOK'
    BY <1>1, <1>11, <2>1, SharedTypes DEF One!IInv, vars, session2
  <2> QED
    BY <2>1, <2>2, <2>3 DEF AloneInv
<1> QED
  BY <1>3, <1>4, <1>5, <1>6, <1>7, <1>8, <1>9, <1>10, <1>11 DEF Next

\* The same of the second process.
LEMMA SecondWorks ==
  ASSUME ~ Takeover, One!TypeOK, Two!TypeOK, Two!IInv, One!Resting, [Next]_vars
  PROVE  AloneInv'
<1>1. pc1 = "stopped" /\ connected1 = FALSE /\ feedback1 = One!None
  BY DEF One!Resting
<1>2. ASSUME Two!Next, UNCHANGED memory1, connected1' = FALSE, feedback1' = One!None
      PROVE  AloneInv'
  <2>1. Two!IInv'
    BY <1>2, StepOfEach
  <2>2. One!Resting'
    BY <1>2, RestStays
  <2>3. One!TypeOK' /\ Two!TypeOK'
    BY <1>1, <1>2, <2>1, SharedTypes DEF Two!IInv, One!Resting
  <2> QED
    BY <2>1, <2>2, <2>3 DEF AloneInv
<1>3. CASE Start2
  BY <1>1, <1>2, <1>3 DEF Start2, Two!Next, Two!Consumer, One!None, Two!None
<1>4. CASE Start1
  <2>1. One!IInv
    BY StoreOfEach, SharedStore
  <2>2. One!IInv'
    BY <1>4, <2>1, StepOfEach DEF Start1, One!Next, One!Consumer
  <2>3. connected2' = FALSE /\ feedback2' = Two!None /\ UNCHANGED memory2
    BY <1>4 DEF Start1, Two!TypeOK, One!None, Two!None
  <2>4. Two!Resting'
    BY <1>4, <2>3, StoppedRests DEF Start1
  <2>5. One!TypeOK' /\ Two!TypeOK'
    BY <2>2, <2>3, SharedTypes DEF One!IInv
  <2> QED
    BY <2>2, <2>4, <2>5 DEF AloneInv
<1>5. CASE Refuse
  <2>1. Two!IInv'
    BY <1>5, StagingOfEach DEF Refuse, One!DiscardStaleStaging
  <2>2. One!Resting'
    BY <1>1, <1>5, RestStays DEF Refuse, session1
  <2>3. One!TypeOK' /\ Two!TypeOK'
    BY <1>1, <1>5, <2>1, SharedTypes DEF Two!IInv, Refuse, session1
  <2> QED
    BY <2>1, <2>2, <2>3 DEF AloneInv
<1>6. CASE Work2 \/ ReplaceRaises2
  BY <1>1, <1>2, <1>6 DEF Work2, ReplaceRaises2, Two!Next, Two!Consumer, Two!Crash, session1
<1>7. CASE Work1 \/ ReplaceRaises1
  BY <1>1, <1>7 DEF Work1, ReplaceRaises1
<1>8. CASE Source1
  <2>1. UNCHANGED <<memory1, session1>> /\ (Two!CommitTransaction \/ Two!PersistSlot)
    BY <1>1, <1>8, SharedCommit, SharedPersist
       DEF Source1, One!CommitTransaction, One!ReceiveFeedback, One!PersistSlot,
           One!Disconnect, One!batch, memory1, session1
  <2> QED
    BY <1>1, <1>2, <2>1 DEF Two!Next, Two!Source, session1
<1>9. CASE Source2
  BY <1>1, <1>2, <1>9 DEF Source2, Two!Next, Two!Source, session1
<1>10. CASE RestartPostgres
  <2>1. Two!RestartPostgres
    BY <1>10, SharedRestart DEF RestartPostgres
  <2>2. connected1' = FALSE /\ feedback1' = One!None /\ UNCHANGED memory1
    BY <1>10 DEF RestartPostgres, One!RestartPostgres, One!batch, memory1
  <2> QED
    BY <1>2, <2>1, <2>2 DEF Two!Next, Two!Source
<1>11. CASE UNCHANGED vars
  <2>1. Two!IInv'
    BY <1>11, StutterOfEach
  <2>2. One!Resting'
    BY <1>1, <1>11, RestStays DEF vars, session1
  <2>3. One!TypeOK' /\ Two!TypeOK'
    BY <1>1, <1>11, <2>1, SharedTypes DEF Two!IInv, vars, session1
  <2> QED
    BY <2>1, <2>2, <2>3 DEF AloneInv
<1> QED
  BY <1>3, <1>4, <1>5, <1>6, <1>7, <1>8, <1>9, <1>10, <1>11 DEF Next

\* At first nothing runs.
LEMMA InitAlone == Init => AloneInv
BY InitOfEach
   DEF Init, AloneInv, One!IInv, Two!Init, Two!Resting, Two!None, Two!BesideOK

\* Every step is one of a process alone, of the source beside it, or moves nothing that
\* readers and Postgres keep.
LEMMA StepAlone ==
  ASSUME ~ Takeover, AloneInv, [Next]_vars
  PROVE  \/ One!IInv /\ One!Next
         \/ Two!IInv /\ Two!Next
         \/ UNCHANGED <<committed, slot, bronze>>
<1>1. CASE Start1
  <2>1. One!IInv
    BY <1>1, StoreOfEach, SharedStore DEF AloneInv, Start1
  <2> QED
    BY <1>1, <2>1 DEF Start1, One!Next, One!Consumer
<1>2. CASE Start2
  <2>1. Two!IInv
    BY <1>2, StoreOfEach, SharedStore DEF AloneInv, Start2
  <2> QED
    BY <1>2, <2>1 DEF Start2, Two!Next, Two!Consumer
<1>3. CASE Refuse \/ UNCHANGED vars
  BY <1>3 DEF Refuse, vars
<1>4. CASE Work1 \/ ReplaceRaises1
  BY <1>4 DEF AloneInv, One!Resting, Work1, ReplaceRaises1, One!Next, One!Consumer, One!Crash
<1>5. CASE Work2 \/ ReplaceRaises2
  BY <1>5 DEF AloneInv, Two!Resting, Work2, ReplaceRaises2, Two!Next, Two!Consumer, Two!Crash
<1>6. CASE Source1
  <2>1. One!Next
    BY <1>6 DEF Source1, One!Next, One!Source
  <2>2. CASE One!Resting /\ Two!IInv
    <3>1. Two!CommitTransaction \/ Two!PersistSlot
      BY <1>6, <2>2, SharedCommit, SharedPersist
         DEF Source1, One!Resting, One!ReceiveFeedback, One!Disconnect
    <3> QED
      BY <2>2, <3>1 DEF Two!Next, Two!Source
  <2> QED
    BY <2>1, <2>2 DEF AloneInv
<1>7. CASE Source2
  BY <1>7 DEF AloneInv, Source2, Two!Resting, Two!ReceiveFeedback, Two!Disconnect,
       Two!Next, Two!Source
<1>8. CASE RestartPostgres
  BY <1>8, SharedRestart
     DEF AloneInv, RestartPostgres, One!Next, One!Source, Two!Next, Two!Source
<1> QED
  BY <1>1, <1>2, <1>3, <1>4, <1>5, <1>6, <1>7, <1>8 DEF Next

\* What a process alone does is delivery.
LEMMA DeliveryOfEach ==
  /\ One!Init => One!Delivery!Init
  /\ One!IInv /\ One!Next => [One!Delivery!Next]_(One!Delivery!vars)
  /\ Two!IInv /\ Two!Next => [Two!Delivery!Next]_(Two!Delivery!vars)
BY One!InitDelivers, One!StepDelivers, Two!StepDelivers,
   TablesAssumption, DatesAssumption, BodiesAssumption, MaxLsnAssumption,
   BatchAssumption, IdleAssumption, BoundsAssumption
   DEF Body, One!Body, Two!Body

\* ... and delivery by one of them is delivery by both.
LEMMA SharedDelivery ==
  /\ [One!Delivery!Next]_(One!Delivery!vars) => [Delivery!Next]_(Delivery!vars)
  /\ [Two!Delivery!Next]_(Two!Delivery!vars) => [Delivery!Next]_(Delivery!vars)
BY DEF One!Delivery!Next, One!Delivery!vars, Two!Delivery!Next, Two!Delivery!vars,
       Delivery!Next, Delivery!vars,
       One!Delivery!Commit, One!Delivery!Attach, One!Delivery!Ingest,
       One!Delivery!Acknowledge, One!Delivery!CompleteUpTo, One!Delivery!Captured,
       One!Delivery!RecordsOf, One!Delivery!RecordsAt, One!Delivery!Extends,
       Two!Delivery!Commit, Two!Delivery!Attach, Two!Delivery!Ingest,
       Two!Delivery!Acknowledge, Two!Delivery!CompleteUpTo, Two!Delivery!Captured,
       Two!Delivery!RecordsOf, Two!Delivery!RecordsAt, Two!Delivery!Extends,
       Delivery!Commit, Delivery!Attach, Delivery!Ingest, Delivery!Acknowledge,
       Delivery!CompleteUpTo, Delivery!Captured, Delivery!RecordsOf, Delivery!RecordsAt,
       Delivery!Extends

-----------------------------------------------------------------------------
(* Theorems.                                                               *)

\* The inductive invariant. Whether or not a process may be started while one that was cut
\* off still runs: the WAL, the slot and the files stay well formed, no bronze file holds
\* a part of a transaction, each process holds only what the WAL sent it and confirms no more
\* than it has read (consumer.py:188-306, bronze.py:46-78), and Postgres gives the slot to
\* one session. Without takeovers, one process works and all that is proved of a process
\* alone (CdcConsumer!IInv) holds of it, while the other one has nothing in memory, no
\* session and no feedback under way: a start that is refused disturbs staging files only.
THEOREM Invariance == Spec => []SharedInv
<1>1. Init => SharedInv
  BY InitOfEach, InitAlone
     DEF Init, BesideInv, SessionsExclude, SharedInv, One!Init, Two!Init
<1>2. BesideInv /\ [Next]_vars => BesideInv'
  BY StartBesideInv, RefuseBesideInv, WorkBesideInv, SourceBesideInv, StutterBesideInv
     DEF Next
<1>3. ~ Takeover /\ AloneInv /\ [Next]_vars => AloneInv'
  BY FirstWorks, SecondWorks DEF AloneInv
<1>4. SharedInv /\ [Next]_vars => SharedInv'
  BY <1>2, <1>3 DEF SharedInv
<1> QED
  BY <1>1, <1>4, PTL DEF Spec

\* With two processes too, no bronze file holds a part of a transaction
\* (bronze.py:54-78: os.replace of a file that is synced first), takeovers or not.
THEOREM WholeTransactions == Spec => []TransactionsAreWhole
<1>1. SharedInv => TransactionsAreWhole
  BY DEF SharedInv, BesideInv, One!BesideOK, One!StoreOK, TransactionsAreWhole
<1> QED
  BY <1>1, Invariance, PTL

\* With two processes too, a transaction with a change that breaks its contract leaves
\* nothing in bronze and the slot does not pass it (consumer.py:319), takeovers or not.
THEOREM ViolationsHold == Spec => []ViolationHoldsTheSlot
<1>1. SharedInv => ViolationHoldsTheSlot
  BY AcceptedOfEach
     DEF SharedInv, BesideInv, One!BesideOK, One!StoreOK, ViolationHoldsTheSlot
<1> QED
  BY <1>1, Invariance, PTL

\* With two processes too, the confirmed position never passes what the process that has
\* the session has read (consumer.py:188-251), takeovers or not.
THEOREM NothingUnreadConfirmed == Spec => []ConfirmedWasRead
<1>1. SharedInv => ConfirmedWasRead
  BY DEF SharedInv, BesideInv, One!BesideOK, Two!BesideOK, One!MemoryOK, Two!MemoryOK,
         ConfirmedWasRead
<1> QED
  BY <1>1, Invariance, PTL

\* Without takeovers, every captured transaction up to the confirmed position is in bronze
\* whole (consumer.py:189-199: the feedback is sent after the files are renamed). The run
\* two_takeover shows that the assumption is needed.
THEOREM Durability ==
  ASSUME ~ Takeover
  PROVE  Spec => []ConfirmedIsDurable
<1>1. SharedInv => ConfirmedIsDurable
  <2>1. One!IInv => ConfirmedIsDurable
    BY DEF One!IInv, One!DurableOK, One!SealedUpTo, One!InFileFrom, ConfirmedIsDurable,
           One!ConfirmedIsDurable, One!InBronze
  <2>2. Two!IInv => One!SealedUpTo(confirmed)
    BY StoreOfEach, SharedStore
  <2> QED
    BY <2>1, <2>2
       DEF SharedInv, AloneInv, One!SealedUpTo, One!InFileFrom, ConfirmedIsDurable,
           One!ConfirmedIsDurable, One!InBronze
<1> QED
  BY <1>1, Invariance, PTL

\* Without takeovers, two processes implement AtLeastOnce: no step loses a committed
\* transaction that the slot counts as delivered (docs/adr/0008).
THEOREM AtLeastOnceDelivery ==
  ASSUME ~ Takeover
  PROVE  Spec => DeliversAtLeastOnce
<1>1. Init => Delivery!Init
  BY DEF Init, One!Init, One!NoSlot, Delivery!Init
<1>2. SharedInv /\ [Next]_vars => [Delivery!Next]_(Delivery!vars)
  <2> SUFFICES ASSUME AloneInv, [Next]_vars PROVE [Delivery!Next]_(Delivery!vars)
    BY DEF SharedInv
  <2>1. CASE UNCHANGED <<committed, slot, bronze>>
    BY <2>1 DEF Delivery!vars, slot
  <2> QED
    BY <2>1, StepAlone, DeliveryOfEach, SharedDelivery
<1> QED
  BY <1>1, <1>2, Invariance, PTL DEF Spec, DeliversAtLeastOnce, Delivery!Spec
=============================================================================
