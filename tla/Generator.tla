----------------------------- MODULE Generator ------------------------------
(***************************************************************************)
(* The synthetic load (generator/synthetic_load.py) and what of it the     *)
(* replication slot carries. A slot only carries changes made after it     *)
(* exists, and the consumer takes no initial snapshot: a customer reaches  *)
(* bronze if something changes it later. So each generator, when it        *)
(* starts, touches all customers there are.                                *)
(*                                                                         *)
(* Several generators may run (the service, and `make seed`), each may be  *)
(* stopped at any moment, and the consumer that creates the slot starts    *)
(* when it does: compose.yaml has both wait for the database only, so that *)
(* a generator may touch its customers before there is a slot. One table   *)
(* stands for customers and merchants, which are treated alike. Left out:  *)
(* updates of payments, and that the first payment of a generator has the  *)
(* time of the SELECTs before it.                                          *)
(***************************************************************************)
EXTENDS Integers, FiniteSets

CONSTANTS
  Generators,
  Ids,        \* what the identity column may hand out (bound)
  Target,     \* GEN_CUSTOMERS
  MaxTime     \* transactions (bound)

ASSUME BoundsAssumption == Ids \subseteq Nat /\ Target \in Nat /\ MaxTime \in Nat \ {0}

VARIABLES
  clock,       \* time: the number of transactions begun
  slot,        \* when the slot was created: 0 if it was not
  updated_at,  \* of each row of customers
  pc,          \* where each generator is
  now,         \* the time its transaction began
  fresh,       \* rows its transaction has inserted
  touched,     \* rows its transaction has updated
  customers,   \* the customers it knows
  announced,   \* customers of which the slot carries a change
  paid,        \* customers of the payments that the slot carries
  caught_up    \* (history) a generator begun after the slot has committed its UPDATE

vars ==
  <<clock, slot, updated_at, pc, now, fresh, touched, customers, announced, paid, caught_up>>

Rows == DOMAIN updated_at

TypeOK ==
  /\ clock \in 1 .. MaxTime /\ slot \in 0 .. MaxTime
  /\ Rows \subseteq Ids /\ updated_at \in [Rows -> 0 .. MaxTime]
  /\ pc \in [Generators -> {"off", "insert", "touch", "commit", "select", "running"}]
  /\ now \in [Generators -> 0 .. MaxTime]
  /\ fresh \in [Generators -> SUBSET Ids] /\ touched \in [Generators -> SUBSET Ids]
  /\ customers \in [Generators -> SUBSET Ids]
  /\ announced \subseteq Ids /\ paid \subseteq Ids /\ caught_up \in BOOLEAN

\* The table may hold customers of an earlier generator.
Init ==
  /\ clock = 1 /\ slot = 0
  /\ \E R \in SUBSET Ids : updated_at = [c \in R |-> 0]
  /\ pc = [g \in Generators |-> "off"] /\ now = [g \in Generators |-> 0]
  /\ fresh = [g \in Generators |-> {}] /\ touched = [g \in Generators |-> {}]
  /\ customers = [g \in Generators |-> {}]
  /\ announced = {} /\ paid = {} /\ caught_up = FALSE

\* PostgreSQL creates a slot once the transactions that have written have ended.
CreateSlot ==
  /\ slot = 0
  /\ \A g \in Generators : fresh[g] = {} /\ touched[g] = {}
  /\ slot' = clock
  /\ UNCHANGED <<clock, updated_at, pc, now, fresh, touched, customers, announced, paid,
                 caught_up>>

-----------------------------------------------------------------------------
(* ensure_dimensions: one transaction, then the list of customers.         *)

Begin(g) ==
  /\ pc[g] = "off" /\ clock < MaxTime
  /\ clock' = clock + 1
  /\ now' = [now EXCEPT ![g] = clock]
  /\ pc' = [pc EXCEPT ![g] = "insert"]
  /\ UNCHANGED <<slot, updated_at, fresh, touched, customers, announced, paid, caught_up>>

\* SELECT count(*), and the rows that are missing; ids are handed out once.
InsertMissing(g) ==
  /\ pc[g] = "insert"
  /\ \E N \in SUBSET (Ids \ (Rows \cup UNION {fresh[h] : h \in Generators})) :
       /\ Cardinality(N) = IF Cardinality(Rows) < Target THEN Target - Cardinality(Rows) ELSE 0
       /\ fresh' = [fresh EXCEPT ![g] = N]
  /\ pc' = [pc EXCEPT ![g] = "touch"]
  /\ UNCHANGED <<clock, slot, updated_at, now, touched, customers, announced, paid, caught_up>>

\* Rows that no other transaction has locked.
Unlocked(g, R) == \A h \in Generators \ {g} : R \cap touched[h] = {}

TouchStale(g) ==   \* a bug: rows of the last moment are spared
  /\ pc[g] = "touch"
  /\ LET R == {c \in Rows : updated_at[c] + 1 < now[g]}
     IN  Unlocked(g, R) /\ touched' = [touched EXCEPT ![g] = R]
  /\ pc' = [pc EXCEPT ![g] = "commit"]
  /\ UNCHANGED <<clock, slot, updated_at, now, fresh, customers, announced, paid, caught_up>>

TouchNothing(g) ==   \* a bug: the rows that are there are left alone
  /\ pc[g] = "touch"
  /\ pc' = [pc EXCEPT ![g] = "commit"]
  /\ UNCHANGED <<clock, slot, updated_at, now, fresh, touched, customers, announced, paid,
                 caught_up>>

\* UPDATE ... WHERE updated_at < now(), over the rows committed by then.
Touch(g) ==
  /\ pc[g] = "touch"
  /\ LET R == {c \in Rows : updated_at[c] < now[g]}
     IN  Unlocked(g, R) /\ touched' = [touched EXCEPT ![g] = R]
  /\ pc' = [pc EXCEPT ![g] = "commit"]
  /\ UNCHANGED <<clock, slot, updated_at, now, fresh, customers, announced, paid, caught_up>>

Streamed(S) == IF slot > 0 THEN S ELSE {}

\* Generator g began after the slot was created.
Late(g) == slot > 0 /\ slot <= now[g]

CommitBeforeTouch(g) ==   \* a bug: the commit comes before the UPDATEs, which are lost
  /\ pc[g] = "commit"
  /\ updated_at' = [c \in Rows \cup fresh[g] |->
                      IF c \in fresh[g] THEN now[g] ELSE updated_at[c]]
  /\ announced' = announced \cup Streamed(fresh[g])
  /\ fresh' = [fresh EXCEPT ![g] = {}] /\ touched' = [touched EXCEPT ![g] = {}]
  /\ pc' = [pc EXCEPT ![g] = "select"]
  /\ caught_up' = (caught_up \/ Late(g))
  /\ UNCHANGED <<clock, slot, now, customers, paid>>

Commit(g) ==
  /\ pc[g] = "commit"
  /\ updated_at' = [c \in Rows \cup fresh[g] |->
                      IF c \in fresh[g] \cup touched[g] THEN now[g] ELSE updated_at[c]]
  /\ announced' = announced \cup Streamed(fresh[g] \cup touched[g])
  /\ fresh' = [fresh EXCEPT ![g] = {}] /\ touched' = [touched EXCEPT ![g] = {}]
  /\ pc' = [pc EXCEPT ![g] = "select"]
  /\ caught_up' = (caught_up \/ Late(g))
  /\ UNCHANGED <<clock, slot, now, customers, paid>>

\* SELECT customer_id FROM customers: all that are committed, whoever did.
Select(g) ==
  /\ pc[g] = "select"
  /\ customers' = [customers EXCEPT ![g] = Rows]
  /\ pc' = [pc EXCEPT ![g] = "running"]
  /\ UNCHANGED <<clock, slot, updated_at, now, fresh, touched, announced, paid, caught_up>>

-----------------------------------------------------------------------------
(* run: one transaction for each payment.                                  *)

\* A payment of customer c, and perhaps an update of a customer.
Pay(g) ==
  /\ pc[g] = "running" /\ clock < MaxTime
  /\ clock' = clock + 1
  /\ \E c \in customers[g] : paid' = paid \cup Streamed({c})
  /\ \/ UNCHANGED <<updated_at, announced>>
     \/ \E d \in customers[g] :
          /\ Unlocked(g, {d})
          /\ updated_at' = [updated_at EXCEPT ![d] = clock]
          /\ announced' = announced \cup Streamed({d})
  /\ UNCHANGED <<slot, pc, now, fresh, touched, customers, caught_up>>

\* The process ends; an open transaction is rolled back.
Stop(g) ==
  /\ pc[g] # "off"
  /\ pc' = [pc EXCEPT ![g] = "off"]
  /\ fresh' = [fresh EXCEPT ![g] = {}] /\ touched' = [touched EXCEPT ![g] = {}]
  /\ customers' = [customers EXCEPT ![g] = {}]
  /\ UNCHANGED <<clock, slot, updated_at, now, announced, paid, caught_up>>

Next ==
  \/ CreateSlot
  \/ \E g \in Generators :
       Begin(g) \/ InsertMissing(g) \/ Touch(g) \/ Commit(g) \/ Select(g) \/ Pay(g) \/ Stop(g)

Spec == Init /\ [][Next]_vars

-----------------------------------------------------------------------------
(* Properties.                                                             *)

\* Once a generator that began after the slot has committed its UPDATE, no payment is
\* streamed whose customer gold could never find, whichever generator makes it: also
\* one that touched its customers too early, and of a customer that another inserts
\* or has locked meanwhile.
PaymentsFollowTheTouch == [][caught_up => paid' \ paid \subseteq announced']_vars

\* ... and whatever any generator chooses from has been announced, though each lists
\* customers that others inserted and it has not touched.
ListsAreAnnounced == caught_up => \A g \in Generators : customers[g] \subseteq announced

\* No payment is streamed before its customer. README.md:131 says of a row inserted
\* before the consumer started: "here the synthetic generator touches its own
\* dimensions instead". A generator touches them once, and that may be before the slot.
PaymentsAreAnnounced == paid \subseteq announced
-----------------------------------------------------------------------------
(* The inductive invariant: a row that is not announced has not been       *)
(* changed since the slot exists, so every generator that began after it   *)
(* and gets to its UPDATE finds the row.                                   *)

\* A generator that began after the slot announces all there is when it commits.
Covers(g) == Late(g) /\ pc[g] = "commit" => Rows \subseteq announced \cup touched[g]

IInv ==
  /\ TypeOK /\ slot <= clock
  /\ \A g \in Generators :
       /\ now[g] < clock
       /\ customers[g] \subseteq Rows /\ touched[g] \subseteq Rows
       /\ Covers(g)
  /\ \A c \in Rows :
       updated_at[c] < clock /\ (0 < slot /\ slot <= updated_at[c] => c \in announced)
  /\ caught_up => slot > 0 /\ Rows \subseteq announced
=============================================================================
