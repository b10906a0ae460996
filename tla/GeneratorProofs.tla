-------------------------- MODULE GeneratorProofs ---------------------------
(***************************************************************************)
(* Proofs about Generator, for any number of generators and customers,     *)
(* whenever the slot is created.                                           *)
(***************************************************************************)
EXTENDS Generator, TLAPS

\* The invariant holds at first: the customers there are have not been changed.
LEMMA InitInvariant == Init => IInv
<1> SUFFICES ASSUME Init PROVE IInv
  OBVIOUS
<1>1. PICK R \in SUBSET Ids : updated_at = [c \in R |-> 0]
  BY DEF Init
<1>2. Rows = R
  BY <1>1 DEF Rows
<1>3. TypeOK
  <2>1. clock \in 1 .. MaxTime /\ 0 \in 0 .. MaxTime
    BY BoundsAssumption DEF Init
  <2>2. updated_at \in [Rows -> 0 .. MaxTime]
    BY <1>1, <1>2, <2>1
  <2> QED
    BY <1>2, <2>1, <2>2 DEF Init, TypeOK
<1>4. \A c \in Rows : updated_at[c] = 0
  BY <1>1, <1>2
<1> QED
  BY <1>3, <1>4 DEF Init, IInv, Covers, Late

\* The next tick of the clock.
LEMMA Ticks ==
  ASSUME TypeOK, clock < MaxTime
  PROVE  clock \in 0 .. MaxTime /\ clock + 1 \in 1 .. MaxTime /\ clock > 0
BY BoundsAssumption DEF TypeOK

\* Times are numbers.
LEMMA TimesAreNumbers ==
  ASSUME TypeOK
  PROVE  /\ clock \in Nat /\ slot \in Nat
         /\ \A g \in Generators : now[g] \in Nat
         /\ \A c \in Rows : updated_at[c] \in Nat
BY DEF TypeOK

\* All that was begun and written so far is older than the slot that is created now.
LEMMA CreateSlotInvariant ==
  ASSUME IInv, CreateSlot
  PROVE  IInv'
<1>1. /\ slot = 0 /\ slot' = clock
      /\ UNCHANGED <<clock, updated_at, pc, now, fresh, touched, customers, announced, paid,
                     caught_up>>
      /\ UNCHANGED Rows
  BY DEF CreateSlot, Rows
<1>2. TypeOK'
  BY <1>1 DEF IInv, TypeOK
<1>3. slot' <= clock' /\ ~ caught_up
  BY <1>1, TimesAreNumbers DEF IInv
<1>4. \A g \in Generators : now'[g] < clock' /\ ~ Late(g)'
  BY <1>1, TimesAreNumbers DEF IInv, Late
<1>5. \A c \in Rows : updated_at[c] < clock /\ ~ (slot' <= updated_at[c])
  BY <1>1, TimesAreNumbers DEF IInv
<1> QED
  BY <1>1, <1>2, <1>3, <1>4, <1>5 DEF IInv, Covers

\* A generator begins.
LEMMA BeginInvariant ==
  ASSUME IInv, NEW g \in Generators, Begin(g)
  PROVE  IInv'
<1>1. TypeOK'
  BY Ticks DEF IInv, Begin, TypeOK, Rows
<1>2. UNCHANGED Rows /\ clock' = clock + 1 /\ clock \in Nat /\ slot \in Nat
  BY TimesAreNumbers DEF IInv, Begin, Rows
<1>3. /\ now'[g] = clock
      /\ \A h \in Generators \ {g} : now'[h] = now[h] /\ pc'[h] = pc[h]
  BY DEF IInv, Begin, TypeOK
<1>4. pc'[g] = "insert"
  BY DEF IInv, Begin, TypeOK
<1>5. \A h \in Generators : now'[h] < clock'
  BY <1>2, <1>3, TimesAreNumbers DEF IInv
<1>6. \A h \in Generators : Covers(h)'
  BY <1>2, <1>3, <1>4 DEF IInv, Begin, Covers, Late
<1>7. \A c \in Rows : updated_at[c] < clock'
  BY <1>2, TimesAreNumbers DEF IInv
<1> QED
  BY <1>1, <1>2, <1>5, <1>6, <1>7 DEF IInv, Begin

\* It inserts what is missing, which no one sees yet.
LEMMA InsertMissingInvariant ==
  ASSUME IInv, NEW g \in Generators, InsertMissing(g)
  PROVE  IInv'
<1>1. TypeOK'
  BY DEF IInv, InsertMissing, TypeOK, Rows
<1>2. UNCHANGED Rows
  BY DEF InsertMissing, Rows
<1>3. /\ pc'[g] = "touch" /\ pc[g] = "insert"
      /\ \A h \in Generators \ {g} : pc'[h] = pc[h]
  BY DEF IInv, InsertMissing, TypeOK
<1> QED
  BY <1>1, <1>2, <1>3 DEF IInv, InsertMissing, Covers, Late

\* It touches the rows that are older than its transaction. If that began after the
\* slot, any row that is not announced is one of them.
LEMMA TouchInvariant ==
  ASSUME IInv, NEW g \in Generators, Touch(g)
  PROVE  IInv'
<1> DEFINE R == {c \in Rows : updated_at[c] < now[g]}
<1>1. /\ touched' = [touched EXCEPT ![g] = R]
      /\ pc[g] = "touch" /\ pc' = [pc EXCEPT ![g] = "commit"]
      /\ UNCHANGED <<clock, slot, updated_at, now, fresh, customers, announced, paid,
                     caught_up>>
  BY DEF Touch
<1>2. R \subseteq Ids
  BY DEF IInv, TypeOK
<1>3. TypeOK'
  BY <1>1, <1>2 DEF IInv, TypeOK, Rows
<1>4. UNCHANGED Rows
  BY <1>1 DEF Rows
<1>5. Late(g) => Rows \subseteq announced \cup R
  <2> SUFFICES ASSUME Late(g), NEW c \in Rows, c \notin R PROVE c \in announced
    OBVIOUS
  <2>1. slot > 0 /\ slot <= now[g] /\ now[g] <= updated_at[c]
    BY TimesAreNumbers DEF IInv, Late
  <2>2. 0 < slot /\ slot <= updated_at[c]
    BY <2>1, TimesAreNumbers DEF IInv
  <2> QED
    BY <2>2 DEF IInv
<1>6. /\ pc'[g] = "commit" /\ touched'[g] = R
      /\ \A h \in Generators \ {g} : pc'[h] = pc[h] /\ touched'[h] = touched[h]
  BY <1>1 DEF IInv, TypeOK
<1>7. R \subseteq Rows
  OBVIOUS
<1> HIDE DEF R
<1>8. \A h \in Generators : Covers(h)'
  BY <1>1, <1>4, <1>5, <1>6 DEF IInv, Covers, Late
<1> QED
  BY <1>1, <1>3, <1>4, <1>6, <1>7, <1>8 DEF IInv

\* It commits, and all there is has been announced if it began after the slot. What
\* another has inserted and committed meanwhile, that one has announced itself.
LEMMA CommitInvariant ==
  ASSUME IInv, NEW g \in Generators, Commit(g)
  PROVE  IInv'
<1> DEFINE C == fresh[g] \cup touched[g]
<1>1. /\ pc[g] = "commit" /\ pc' = [pc EXCEPT ![g] = "select"]
      /\ updated_at' = [c \in Rows \cup fresh[g] |-> IF c \in C THEN now[g] ELSE updated_at[c]]
      /\ announced' = announced \cup Streamed(C)
      /\ fresh' = [fresh EXCEPT ![g] = {}] /\ touched' = [touched EXCEPT ![g] = {}]
      /\ caught_up' = (caught_up \/ Late(g))
      /\ UNCHANGED <<clock, slot, now, customers, paid>>
  BY DEF Commit
<1>2. now[g] \in 0 .. MaxTime
  BY DEF IInv, TypeOK
<1>3. slot > 0 => Streamed(C) = C
  BY DEF Streamed
<1>4. Rows' = Rows \cup fresh[g]
  BY <1>1 DEF Rows
<1>5. C \subseteq Ids /\ Rows \subseteq Ids /\ Streamed(C) \subseteq C
  BY DEF IInv, TypeOK, Streamed
<1>6. TypeOK'
  <2>1. updated_at' \in [Rows' -> 0 .. MaxTime]
    BY <1>1, <1>2, <1>4 DEF IInv, TypeOK
  <2>2. announced' \subseteq Ids /\ Rows' \subseteq Ids /\ caught_up' \in BOOLEAN
    BY <1>1, <1>4, <1>5 DEF IInv, TypeOK
  <2> QED
    BY <1>1, <2>1, <2>2 DEF IInv, TypeOK
<1>7. /\ pc'[g] = "select" /\ touched'[g] = {}
      /\ \A h \in Generators \ {g} : pc'[h] = pc[h] /\ touched'[h] = touched[h]
  BY <1>1 DEF IInv, TypeOK
<1>8. announced \subseteq announced' /\ (slot > 0 => C \subseteq announced')
  BY <1>1, <1>3
<1>9. \A c \in Rows' :
        /\ updated_at'[c] < clock
        /\ 0 < slot /\ slot <= updated_at'[c] => c \in announced'
  <2> SUFFICES ASSUME NEW c \in Rows'
               PROVE  /\ updated_at'[c] < clock
                      /\ 0 < slot /\ slot <= updated_at'[c] => c \in announced'
    OBVIOUS
  <2>1. CASE c \in C
    BY <1>1, <1>4, <1>8, <2>1 DEF IInv
  <2>2. CASE c \notin C
    BY <1>1, <1>4, <1>8, <2>2 DEF IInv
  <2> QED
    BY <2>1, <2>2
<1>10. \A h \in Generators : Covers(h)'
  <2> SUFFICES ASSUME NEW h \in Generators \ {g}, Late(h), pc[h] = "commit"
               PROVE  Rows' \subseteq announced' \cup touched[h]
    BY <1>1, <1>7 DEF Covers, Late
  <2>1. slot > 0 /\ fresh[g] \subseteq announced'
    BY <1>8 DEF Late
  <2>2. Rows \subseteq announced \cup touched[h]
    BY DEF IInv, Covers
  <2> QED
    BY <1>4, <1>8, <2>1, <2>2
<1>11. caught_up' => slot > 0 /\ Rows' \subseteq announced'
  <2>1. CASE caught_up
    BY <1>4, <1>8, <2>1 DEF IInv
  <2>2. CASE Late(g)
    BY <1>1, <1>4, <1>8, <2>2 DEF IInv, Covers, Late
  <2> QED
    BY <1>1, <2>1, <2>2
<1> HIDE DEF C
<1>12. \A h \in Generators :
         now'[h] < clock' /\ customers'[h] \subseteq Rows' /\ touched'[h] \subseteq Rows'
  BY <1>1, <1>4, <1>7 DEF IInv
<1> QED
  BY <1>1, <1>6, <1>9, <1>10, <1>11, <1>12 DEF IInv

\* It takes the list of all there is.
LEMMA SelectInvariant ==
  ASSUME IInv, NEW g \in Generators, Select(g)
  PROVE  IInv'
<1>1. TypeOK'
  BY DEF IInv, Select, TypeOK, Rows
<1>2. UNCHANGED Rows
  BY DEF Select, Rows
<1>3. /\ pc'[g] = "running" /\ customers'[g] = Rows
      /\ \A h \in Generators \ {g} : pc'[h] = pc[h] /\ customers'[h] = customers[h]
  BY DEF IInv, Select, TypeOK
<1> QED
  BY <1>1, <1>2, <1>3 DEF IInv, Select, Covers, Late

\* It makes a payment of a customer on its list, and perhaps changes one, which is
\* announced if there is a slot.
LEMMA PayInvariant ==
  ASSUME IInv, NEW g \in Generators, Pay(g)
  PROVE  IInv'
<1>1. /\ customers[g] \subseteq Rows /\ Rows \subseteq Ids
      /\ clock \in 0 .. MaxTime /\ clock + 1 \in 1 .. MaxTime /\ clock' = clock + 1
  BY Ticks DEF IInv, Pay, TypeOK
<1>2. paid' \subseteq Ids
  BY <1>1 DEF Pay, IInv, TypeOK, Streamed
<1>3. /\ UNCHANGED <<Rows, slot, pc, now, fresh, touched, customers, caught_up>>
      /\ announced \subseteq announced' /\ announced' \subseteq Ids
      /\ updated_at' \in [Rows -> 0 .. MaxTime]
      /\ \A c \in Rows : \/ updated_at'[c] = updated_at[c]
                         \/ updated_at'[c] = clock /\ (slot > 0 => c \in announced')
  <2>1. CASE UNCHANGED <<updated_at, announced>>
    BY <2>1 DEF IInv, TypeOK, Rows, Pay
  <2>2. CASE \E d \in customers[g] :
               /\ updated_at' = [updated_at EXCEPT ![d] = clock]
               /\ announced' = announced \cup Streamed({d})
    BY <1>1, <2>2 DEF IInv, TypeOK, Rows, Streamed, Pay
  <2> QED
    BY <2>1, <2>2 DEF Pay
<1>4. TypeOK'
  BY <1>1, <1>2, <1>3 DEF IInv, TypeOK
<1>5. slot' <= clock' /\ \A h \in Generators : now'[h] < clock'
  BY <1>1, <1>3, TimesAreNumbers DEF IInv
<1>6. \A c \in Rows' :
        updated_at'[c] < clock' /\ (0 < slot' /\ slot' <= updated_at'[c] => c \in announced')
  BY <1>1, <1>3, TimesAreNumbers DEF IInv
<1> QED
  BY <1>3, <1>4, <1>5, <1>6 DEF IInv, Covers, Late

\* It ends.
LEMMA StopInvariant ==
  ASSUME IInv, NEW g \in Generators, Stop(g)
  PROVE  IInv'
<1>1. TypeOK' /\ UNCHANGED Rows
  BY DEF IInv, Stop, TypeOK, Rows
<1>2. /\ pc'[g] = "off" /\ touched'[g] = {} /\ customers'[g] = {}
      /\ \A h \in Generators \ {g} :
           pc'[h] = pc[h] /\ touched'[h] = touched[h] /\ customers'[h] = customers[h]
  BY DEF IInv, Stop, TypeOK
<1> QED
  BY <1>1, <1>2 DEF IInv, Stop, Covers, Late

\* Every step preserves the invariant.
LEMMA StepInvariant == IInv /\ [Next]_vars => IInv'
<1> SUFFICES ASSUME IInv, [Next]_vars PROVE IInv'
  OBVIOUS
<1>1. CASE CreateSlot
  BY <1>1, CreateSlotInvariant
<1>2. CASE \E g \in Generators : Begin(g)
  BY <1>2, BeginInvariant
<1>3. CASE \E g \in Generators : InsertMissing(g)
  BY <1>3, InsertMissingInvariant
<1>4. CASE \E g \in Generators : Touch(g)
  BY <1>4, TouchInvariant
<1>5. CASE \E g \in Generators : Commit(g)
  BY <1>5, CommitInvariant
<1>6. CASE \E g \in Generators : Select(g)
  BY <1>6, SelectInvariant
<1>7. CASE \E g \in Generators : Pay(g)
  BY <1>7, PayInvariant
<1>8. CASE \E g \in Generators : Stop(g)
  BY <1>8, StopInvariant
<1>9. CASE UNCHANGED vars
  BY <1>9 DEF vars, IInv, TypeOK, Rows, Covers, Late
<1> QED
  BY <1>1, <1>2, <1>3, <1>4, <1>5, <1>6, <1>7, <1>8, <1>9 DEF Next

\* The inductive invariant holds, whether generators start before the slot or after.
THEOREM Invariance == Spec => []IInv
BY InitInvariant, StepInvariant, PTL DEF Spec

\* Once a generator that began after the slot has committed its UPDATE, no payment is
\* streamed without its customer, whoever makes it (ensure_dimensions touches all
\* there are, and whoever inserts one announces it).
THEOREM NoPaymentUnannounced == Spec => PaymentsFollowTheTouch
<1>1. IInv /\ IInv' /\ [Next]_vars => [caught_up => paid' \ paid \subseteq announced']_vars
  <2> SUFFICES ASSUME IInv, IInv', Next, caught_up
               PROVE  paid' \ paid \subseteq announced'
    BY DEF vars
  <2>1. CASE \E g \in Generators : Pay(g)
    <3>1. PICK g \in Generators : Pay(g)
      BY <2>1
    <3>2. paid' \ paid \subseteq customers[g] /\ UNCHANGED <<customers, caught_up>>
      BY <3>1 DEF Pay, Streamed
    <3> QED
      BY <3>2 DEF IInv
  <2>2. CASE ~ \E g \in Generators : Pay(g)
    <3>1. paid' = paid
      BY <2>2 DEF Next, CreateSlot, Begin, InsertMissing, Touch, Commit, Select, Stop
    <3> QED
      BY <3>1
  <2> QED
    BY <2>1, <2>2
<1> QED
  BY <1>1, Invariance, PTL DEF Spec, PaymentsFollowTheTouch

\* ... and every generator knows only customers that are announced.
THEOREM NoListUnannounced == Spec => []ListsAreAnnounced
<1>1. IInv => ListsAreAnnounced
  BY DEF IInv, ListsAreAnnounced
<1> QED
  BY <1>1, Invariance, PTL
=============================================================================
