---------------------------- MODULE SilverProofs ----------------------------
(***************************************************************************)
(* Proofs about Silver, for any keys, values, sessions and bounds.         *)
(***************************************************************************)
EXTENDS Silver, WellFoundedInduction, TLAPS

-----------------------------------------------------------------------------
(* The invariant.                                                          *)

LEMMA InitOrder == Init => OrderInv
BY BoundsAssumption
   DEF Init, OrderInv, TypeOK, ChangesOK, OneChangeAtEachLsn, LocksOK, LsnOrderIsCommitOrder,
       Times, Changes

\* A session writes at the end of the WAL, and conflicts with no other.
LEMMA WriteOrder ==
  ASSUME OrderInv, NEW s \in Sessions, NEW c, Write(s, c), c.action = "truncate" => c.key = Null
  PROVE  OrderInv'
<1> USE DEF OrderInv
<1>1. /\ c \in Change /\ c.lsn = lsn + 1 /\ c.time = 0
      /\ lsn < MaxLsn /\ lsn' = lsn + 1 /\ lsn \in Nat
      /\ \A t \in Sessions \ {s} : \A d \in open[t] : ~ Conflict(c, d)
      /\ UNCHANGED <<initial, commits, log, copies>>
  BY DEF Write, TypeOK
<1>2. open' \in [Sessions -> SUBSET Change]
  BY <1>1 DEF Write, TypeOK
<1>3. \A t \in Sessions : open'[t] = IF t = s THEN open[s] \cup {c} ELSE open[t]
  BY DEF Write, TypeOK
<1>4. \A t \in Sessions : \A d \in open'[t] : (d = c /\ t = s) \/ d \in open[t]
  BY <1>3
<1>5. \A t \in Sessions : \A d \in open[t] : d.lsn \in Nat /\ d.lsn <= lsn /\ d.time = 0
  BY DEF ChangesOK, TypeOK, Change, Times
<1>6. \A d \in log : d.lsn \in Nat /\ d.lsn <= lsn
  BY DEF ChangesOK, TypeOK, Change, Times
<1>7. TypeOK'
  BY <1>1, <1>2, BoundsAssumption DEF TypeOK
<1>8. ChangesOK'
  <2>1. \A d \in log : d.lsn <= lsn' /\ 0 < d.time /\ d.time <= commits
    BY <1>1, <1>6 DEF ChangesOK
  <2>2. \A t \in Sessions : \A d \in open'[t] : d.lsn <= lsn' /\ d.time = 0
    BY <1>1, <1>4, <1>5
  <2>3. \A d \in Changes' : d.action = "truncate" => d.key = Null
    BY <1>1, <1>4 DEF ChangesOK, Changes
  <2> QED
    BY <1>1, <2>1, <2>2, <2>3 DEF ChangesOK
<1>9. OneChangeAtEachLsn'
  <2>1. ASSUME NEW t \in Sessions, NEW u \in Sessions, NEW d \in open'[t], NEW e \in open'[u],
               d.lsn = e.lsn
        PROVE  t = u /\ d = e
    <3>1. d = c <=> e = c
      BY <1>1, <1>4, <1>5, <2>1
    <3> QED
      BY <1>1, <1>4, <1>5, <2>1, <3>1 DEF OneChangeAtEachLsn
  <2>2. ASSUME NEW t \in Sessions, NEW d \in log, NEW e \in open'[t] PROVE d.lsn # e.lsn
    BY <1>1, <1>4, <1>6 DEF OneChangeAtEachLsn
  <2> QED
    BY <1>1, <2>1, <2>2 DEF OneChangeAtEachLsn
<1>10. LocksOK'
  <2>1. ASSUME NEW t \in Sessions, NEW u \in Sessions, NEW d \in open'[t], NEW e \in open'[u],
               Conflict(d, e)
        PROVE  t = u
    <3>1. Conflict(e, d)
      BY <2>1 DEF Conflict
    <3>2. CASE d \in open[t] /\ e \in open[u]
      BY <3>2, <2>1 DEF LocksOK
    <3>3. CASE d = c /\ t = s
      BY <3>3, <1>1, <1>4, <2>1
    <3>4. CASE e = c /\ u = s
      BY <3>4, <1>1, <1>4, <3>1
    <3> QED
      BY <1>4, <3>2, <3>3, <3>4
  <2>2. ASSUME NEW t \in Sessions, NEW d \in log, NEW e \in open'[t], Conflict(d, e)
        PROVE  d.lsn < e.lsn
    BY <1>1, <1>4, <1>6, <2>2 DEF LocksOK
  <2> QED
    BY <1>1, <2>1, <2>2 DEF LocksOK
<1>11. LsnOrderIsCommitOrder'
  BY <1>1 DEF LsnOrderIsCommitOrder
<1> QED
  BY <1>7, <1>8, <1>9, <1>10, <1>11

\* What commits comes after all that conflicts with it.
LEMMA CommitOrder ==
  ASSUME OrderInv, NEW s \in Sessions, Commit(s)
  PROVE  OrderInv'
<1> USE DEF OrderInv
<1> DEFINE At(c) == [c EXCEPT !.time = commits + 1]
<1>1. /\ commits \in Nat /\ commits < MaxLsn /\ commits' = commits + 1
      /\ log' = log \cup {At(c) : c \in open[s]}
      /\ UNCHANGED <<initial, lsn, copies>>
  BY DEF Commit, TypeOK
<1>2. /\ open' \in [Sessions -> SUBSET Change]
      /\ \A t \in Sessions : open'[t] = IF t = s THEN {} ELSE open[t]
  BY DEF Commit, TypeOK
<1>3. ASSUME NEW c \in open[s]
      PROVE  /\ At(c) \in Change /\ At(c).time = commits + 1
             /\ At(c).lsn = c.lsn /\ At(c).key = c.key /\ At(c).action = c.action
             /\ At(c).after = c.after /\ At(c).image = c.image
  <2>1. c \in Change
    BY DEF TypeOK
  <2>2. commits + 1 \in 0 .. MaxLsn
    BY <1>1, BoundsAssumption
  <2> QED
    BY <2>1, <2>2 DEF Change
<1>4. \A d \in log' : d \in log \/ \E c \in open[s] : d = At(c)
  BY <1>1
<1>5. TypeOK'
  BY <1>1, <1>2, <1>3, <1>4, BoundsAssumption DEF TypeOK
<1> HIDE DEF At
<1>6. \A d \in log : d.lsn \in Nat /\ d.time \in Nat /\ 0 < d.time /\ d.time <= commits
  BY DEF ChangesOK, TypeOK, Change, Times
<1>7. ChangesOK'
  <2>1. ASSUME NEW d \in log'
        PROVE  d.lsn <= lsn /\ 0 < d.time /\ d.time <= commits + 1
    BY <1>1, <1>3, <1>4, <1>6 DEF ChangesOK
  <2>2. \A d \in Changes' : d.action = "truncate" => d.key = Null
    BY <1>2, <1>3, <1>4 DEF ChangesOK, Changes
  <2> QED
    BY <1>1, <1>2, <2>1, <2>2 DEF ChangesOK
<1>8. OneChangeAtEachLsn'
  <2>1. ASSUME NEW c \in log', NEW d \in log', c.lsn = d.lsn PROVE c = d
    BY <1>3, <1>4, <2>1 DEF OneChangeAtEachLsn
  <2>2. ASSUME NEW t \in Sessions, NEW c \in log', NEW d \in open'[t] PROVE c.lsn # d.lsn
    BY <1>2, <1>3, <1>4 DEF OneChangeAtEachLsn
  <2> QED
    BY <1>1, <1>2, <2>1, <2>2 DEF OneChangeAtEachLsn
<1>9. LocksOK'
  <2>1. ASSUME NEW t \in Sessions, NEW c \in log', NEW d \in open'[t], Conflict(c, d)
        PROVE  c.lsn < d.lsn
    <3>1. CASE c \in log
      BY <1>2, <2>1, <3>1 DEF LocksOK
    <3>2. CASE \E e \in open[s] : c = At(e)
      <4>1. PICK e \in open[s] : c = At(e)
        BY <3>2
      <4>2. Conflict(e, d)
        BY <1>3, <2>1, <4>1 DEF Conflict, Touches
      <4> QED
        BY <1>2, <4>2 DEF LocksOK
    <3> QED
      BY <1>4, <3>1, <3>2
  <2> QED
    BY <1>1, <1>2, <2>1 DEF LocksOK
<1>10. LsnOrderIsCommitOrder'
  <2>1. ASSUME NEW c \in log', NEW d \in log', Conflict(c, d), c.lsn < d.lsn
        PROVE  c.time <= d.time
    <3>1. CASE c \in log /\ d \in log
      BY <2>1, <3>1 DEF LsnOrderIsCommitOrder
    <3>2. CASE \E e \in open[s] : d = At(e)
      BY <1>1, <1>3, <1>4, <1>6, <3>2
    <3>3. CASE d \in log /\ \E e \in open[s] : c = At(e)
      <4>1. PICK e \in open[s] : c = At(e)
        BY <3>3
      <4>2. Conflict(d, e)
        BY <1>3, <2>1, <4>1 DEF Conflict, Touches
      <4>3. d.lsn < e.lsn /\ e.lsn = c.lsn /\ e \in Change
        BY <1>3, <3>3, <4>1, <4>2 DEF LocksOK, TypeOK
      <4> QED
        BY <1>6, <2>1, <3>3, <4>3 DEF Change, Times
    <3> QED
      BY <1>4, <3>1, <3>2, <3>3
  <2> QED
    BY <2>1 DEF LsnOrderIsCommitOrder
<1> QED
  BY <1>5, <1>7, <1>8, <1>9, <1>10

LEMMA RedeliverOrder ==
  ASSUME OrderInv, Redeliver
  PROVE  OrderInv'
<1>1. copies' \in [Times -> 1 .. MaxCopies]
  BY BoundsAssumption DEF Redeliver, OrderInv, TypeOK, Times
<1> QED
  BY <1>1 DEF Redeliver, OrderInv, TypeOK, ChangesOK, Changes, OneChangeAtEachLsn, LocksOK,
         LsnOrderIsCommitOrder

LEMMA StepOrder == OrderInv /\ [Next]_vars => OrderInv'
<1> SUFFICES ASSUME OrderInv, [Next]_vars PROVE OrderInv'
  OBVIOUS
<1>1. ASSUME NEW s \in Sessions, Insert(s) \/ Update(s) \/ Delete(s) \/ Truncate(s)
      PROVE  OrderInv'
  <2>1. ASSUME NEW c, Write(s, c), c.action = "truncate" => c.key = Null PROVE OrderInv'
    BY <2>1, WriteOrder
  <2>2. \A a, k, x, i : RowChange(a, k, x, i).action = a /\ RowChange(a, k, x, i).key = k
    BY DEF RowChange
  <2>3. CASE Insert(s)
    BY <2>1, <2>2, <2>3 DEF Insert
  <2>4. CASE Update(s)
    BY <2>1, <2>2, <2>4 DEF Update
  <2>5. CASE Delete(s)
    BY <2>1, <2>2, <2>5 DEF Delete
  <2>6. CASE Truncate(s)
    BY <2>1, <2>2, <2>6 DEF Truncate
  <2> QED
    BY <1>1, <2>3, <2>4, <2>5, <2>6
<1>2. CASE UNCHANGED vars
  BY <1>2 DEF vars, OrderInv, TypeOK, ChangesOK, Changes, OneChangeAtEachLsn, LocksOK,
         LsnOrderIsCommitOrder
<1> QED
  BY <1>1, <1>2, CommitOrder, RedeliverOrder DEF Next

\* LSN order is commit order among changes that conflict (the window of
\* cleaned_history may order by lsn_numeric): for any number of rows and sessions.
THEOREM OrderOfTheLog == Spec => []LsnOrderIsCommitOrder
<1>1. OrderInv => LsnOrderIsCommitOrder
  BY DEF OrderInv
<1> QED
  BY <1>1, InitOrder, StepOrder, PTL DEF Spec

-----------------------------------------------------------------------------
(* Least and greatest numbers.                                             *)

LEMMA Least ==
  ASSUME NEW S \in SUBSET Nat, S # {}
  PROVE  \E m \in S : \A n \in S : m <= n
<1>1. IsWellFoundedOn(OpToRel(<, Nat), Nat)
  BY NatLessThanWellFounded
<1>2. \E m \in S : \A n \in S : ~ (<<n, m>> \in OpToRel(<, Nat))
  BY <1>1, WFMin
<1>3. \A n, m \in Nat : n < m => <<n, m>> \in OpToRel(<, Nat)
  BY DEF OpToRel
<1>4. \E m \in S : \A n \in S : ~ (n < m)
  BY <1>2, <1>3, Zenon
<1> QED
  BY <1>4

LEMMA Greatest ==
  ASSUME NEW S \in SUBSET Nat, S # {}, NEW bound \in Nat, \A n \in S : n <= bound
  PROVE  \E m \in S : \A n \in S : n <= m
<1> DEFINE Gaps == {bound - n : n \in S}
<1>1. Gaps \in SUBSET Nat /\ Gaps # {}
  <2>1. \A n \in S : bound - n \in Nat
    OBVIOUS
  <2>2. Gaps # {}
    OBVIOUS
  <2> QED
    BY <2>1, <2>2
<1>2. PICK g \in Gaps : \A h \in Gaps : g <= h
  BY <1>1, Least
<1>3. PICK m \in S : g = bound - m
  BY <1>2
<1>4. \A n \in S : bound - m <= bound - n
  BY <1>2, <1>3
<1> QED
  BY <1>4

\* Of the rows of a nonempty set, one has the first LSN and one has the last.
LEMMA FirstAndLastRow ==
  ASSUME NEW S, S # {}, \A r \in S : r.change \in Change
  PROVE  /\ \E r \in S : \A q \in S : r.change.lsn <= q.change.lsn
         /\ \E r \in S : \A q \in S : q.change.lsn <= r.change.lsn
<1> DEFINE Positions == {r.change.lsn : r \in S}
<1>1. /\ Positions \in SUBSET Nat /\ Positions # {}
      /\ MaxLsn \in Nat /\ \A n \in Positions : n <= MaxLsn
  BY BoundsAssumption DEF Change, Times
<1>2. /\ \E m \in Positions : \A n \in Positions : m <= n
      /\ \E m \in Positions : \A n \in Positions : n <= m
  BY <1>1, Least, Greatest
<1> QED
  BY <1>2

\* ... and so of the changes of a nonempty set.
LEMMA LastChange ==
  ASSUME NEW C, C # {}, \A c \in C : c \in Change
  PROVE  \E c \in C : \A d \in C : d.lsn <= c.lsn
<1> DEFINE Positions == {c.lsn : c \in C}
<1>1. /\ Positions \in SUBSET Nat /\ Positions # {}
      /\ MaxLsn \in Nat /\ \A n \in Positions : n <= MaxLsn
  BY BoundsAssumption DEF Change, Times
<1>2. \E m \in Positions : \A n \in Positions : n <= m
  BY <1>1, Greatest
<1> QED
  BY <1>2

-----------------------------------------------------------------------------
(* What the changes of a row carry.                                        *)

LEMMA ChangesAreChanges ==
  ASSUME OrderInv
  PROVE  \A c \in Changes : c \in Change /\ c.lsn \in Nat /\ c.lsn <= lsn /\ lsn \in Nat
BY DEF OrderInv, TypeOK, ChangesOK, Changes, Change, Times

\* A change at the end of the WAL carries the value of its row, or the row keeps the
\* value that the last change of it left.
LEMMA WriteHistory ==
  ASSUME IInv, NEW s \in Sessions, NEW c, Write(s, c), ShapeOK(c),
         c.after # Null => c.after = c.image,
         c.image # Null /\ c.after = Null => c.image = RowNow(c.key)
  PROVE  (\A d \in Changes' : ShapeOK(d)) /\ CarriedOK'
<1>1. OrderInv /\ CarriedOK /\ \A d \in Changes : ShapeOK(d)
  BY DEF IInv
<1>2. Changes' = Changes \cup {c} /\ c.lsn = lsn + 1
  <2>1. \A t \in Sessions : open'[t] = IF t = s THEN open[s] \cup {c} ELSE open[t]
    BY <1>1 DEF Write, OrderInv, TypeOK
  <2>2. UNION {open'[t] : t \in Sessions} = (UNION {open[t] : t \in Sessions}) \cup {c}
    BY <2>1
  <2> QED
    BY <2>2 DEF Write, Changes
<1>3. \A d \in Changes : d \in Change /\ d.lsn \in Nat /\ d.lsn < c.lsn /\ c.lsn \in Nat
  BY <1>1, <1>2, ChangesAreChanges
<1>4. \A d \in Changes' : ShapeOK(d)
  BY <1>1, <1>2
<1>5. SUFFICES ASSUME NEW x \in Changes', NEW d \in Changes', x.image # Null,
                      LastToCarry(Changes', x, d)
               PROVE  d.after = x.image
  BY <1>4 DEF CarriedOK, LastToCarry
<1>6. CASE x \in Changes
  <2>1. d \in Changes
    BY <1>2, <1>3, <1>5, <1>6 DEF LastToCarry
  <2>2. LastToCarry(Changes, x, d)
    BY <1>2, <1>5, <2>1 DEF LastToCarry
  <2> QED
    BY <1>1, <1>5, <1>6, <2>1, <2>2 DEF CarriedOK
<1>7. CASE x = c /\ c.after # Null
  <2>1. c.lsn <= d.lsn
    BY <1>2, <1>3, <1>5, <1>7 DEF LastToCarry
  <2>2. d = c
    BY <1>2, <1>3, <2>1
  <2> QED
    BY <1>7, <2>2
<1>8. CASE x = c /\ c.after = Null
  <2> DEFINE touching == {e \in Changes : Touches(e, c.key)}
  <2>1. d \in Changes /\ d \in touching /\ d.key = c.key
    BY <1>2, <1>5, <1>8 DEF LastToCarry, Touches
  <2>2. \E e \in touching : \A f \in touching : f.lsn <= e.lsn
    BY <1>3, <2>1, LastChange
  <2>3. PICK t \in touching : (\A f \in touching : f.lsn <= t.lsn) /\ RowNow(c.key) = t.image
    <3> DEFINE t == CHOOSE e \in touching : \A f \in touching : f.lsn <= e.lsn
    <3>1. t \in touching /\ \A f \in touching : f.lsn <= t.lsn
      BY <2>2
    <3>2. RowNow(c.key) = t.image
      BY <2>1 DEF RowNow
    <3> QED
      BY <3>1, <3>2
  <2>4. t.image # Null /\ t.image = c.image
    BY <1>5, <1>8, <2>3
  <2>5. t \in Changes /\ t.key = c.key
    BY <1>1, <2>3, <2>4 DEF ShapeOK, Touches
  <2>6. LastToCarry(Changes, t, d)
    BY <1>2, <1>3, <1>5, <1>8, <2>1, <2>3, <2>5 DEF LastToCarry
  <2> QED
    BY <1>1, <1>8, <2>1, <2>4, <2>5, <2>6 DEF CarriedOK
<1> QED
  BY <1>2, <1>5, <1>6, <1>7, <1>8

\* A commit changes the times of changes only.
LEMMA CommitHistory ==
  ASSUME IInv, NEW s \in Sessions, Commit(s)
  PROVE  (\A d \in Changes' : ShapeOK(d)) /\ CarriedOK'
<1> DEFINE At(c) == [c EXCEPT !.time = commits + 1]
           Alike(c, d) == /\ c.lsn = d.lsn /\ c.key = d.key /\ c.action = d.action
                          /\ c.after = d.after /\ c.image = d.image
<1>1. OrderInv /\ CarriedOK /\ \A d \in Changes : ShapeOK(d)
  BY DEF IInv
<1>2. /\ log' = log \cup {At(c) : c \in open[s]}
      /\ \A t \in Sessions : open'[t] = IF t = s THEN {} ELSE open[t]
  BY <1>1 DEF Commit, OrderInv, TypeOK
<1>3. ASSUME NEW c \in open[s] PROVE Alike(At(c), c)
  <2>1. c \in Change
    BY <1>1 DEF OrderInv, TypeOK
  <2> QED
    BY <2>1 DEF Change
<1> HIDE DEF At
<1>4. \A d \in Changes' : \E c \in Changes : Alike(d, c)
  BY <1>2, <1>3 DEF Changes
<1>5. \A c \in Changes : \E d \in Changes' : Alike(d, c)
  BY <1>2, <1>3 DEF Changes
<1>6. \A d \in Changes' : ShapeOK(d)
  BY <1>1, <1>4 DEF ShapeOK
<1>7. ASSUME NEW x \in Changes', NEW d \in Changes', x.image # Null, LastToCarry(Changes', x, d)
      PROVE  d.after = x.image
  <2>1. PICK y \in Changes, e \in Changes : Alike(x, y) /\ Alike(d, e)
    BY <1>4
  <2>2. LastToCarry(Changes, y, e)
    BY <1>5, <1>7, <2>1 DEF LastToCarry
  <2> QED
    BY <1>1, <1>7, <2>1, <2>2 DEF CarriedOK
<1> QED
  BY <1>6, <1>7 DEF CarriedOK, LastToCarry

LEMMA StepInvariant == IInv /\ [Next]_vars => IInv'
<1> SUFFICES ASSUME IInv, [Next]_vars
             PROVE  (\A d \in Changes' : ShapeOK(d)) /\ CarriedOK'
  BY StepOrder DEF IInv
<1>1. ASSUME NEW s \in Sessions, Insert(s) \/ Update(s) \/ Delete(s) \/ Truncate(s)
      PROVE  (\A d \in Changes' : ShapeOK(d)) /\ CarriedOK'
  <2>1. \A a, k, x, i : /\ RowChange(a, k, x, i).action = a /\ RowChange(a, k, x, i).key = k
                        /\ RowChange(a, k, x, i).after = x /\ RowChange(a, k, x, i).image = i
    BY DEF RowChange
  <2>2. PICK c : /\ Write(s, c) /\ ShapeOK(c)
                 /\ c.after # Null => c.after = c.image
                 /\ c.image # Null /\ c.after = Null => c.image = RowNow(c.key)
    <3>1. CASE Insert(s)
      BY <2>1, <3>1, NullAssumption DEF Insert, ShapeOK
    <3>2. CASE Update(s)
      BY <2>1, <3>2, NullAssumption DEF Update, ShapeOK
    <3>3. CASE Delete(s)
      BY <2>1, <3>3, NullAssumption DEF Delete, ShapeOK
    <3>4. CASE Truncate(s)
      BY <2>1, <3>4 DEF Truncate, ShapeOK
    <3> QED
      BY <1>1, <3>1, <3>2, <3>3, <3>4
  <2> QED
    BY <2>2, WriteHistory
<1>2. CASE UNCHANGED <<log, open>>
  BY <1>2 DEF IInv, Changes, CarriedOK, LastToCarry
<1> QED
  BY <1>1, <1>2, CommitHistory DEF Next, Redeliver, vars

\* What silver relies on of the source, and the numbering of its transactions.
THEOREM Invariance == Spec => []IInv
<1>1. Init => IInv
  BY InitOrder DEF Init, IInv, Changes, CarriedOK, LastToCarry
<1> QED
  BY <1>1, StepInvariant, PTL DEF Spec

-----------------------------------------------------------------------------
(* The versions of a customer.                                             *)

\* A row of silver is a row change of the log.
LEMMA RowsAreChanges ==
  ASSUME OrderInv, NEW p, NEW r \in SilverRows(p)
  PROVE  r.change \in log \ Truncates /\ r.change \in Change
<1>1. PICK c \in log \ Truncates :
        \E j \in 1 .. copies[c.time] : r = SilverRow(c, j, c \in Latest(c.key) /\ p[c.key] = j)
  BY DEF SilverRows
<1> QED
  BY <1>1 DEF SilverRow, OrderInv, TypeOK

\* The key carried to a row of silver is the key of its change, or there is none.
LEMMA IdOfARow ==
  ASSUME NEW p, NEW r \in SilverRows(p)
  PROVE  /\ r.id = CarriedKey(r.change)
         /\ r.id \in Keys => /\ r.id = r.change.key
                             /\ \E c \in RowChanges(r.id) : c.action # "delete"
<1>1. r.id = CarriedKey(r.change)
  BY DEF SilverRows, SilverRow
<1> QED
  BY <1>1, NullAssumption DEF CarriedKey

LEMMA IdOfAnImage ==
  ASSUME OrderInv, NEW k, NEW c \in RowChanges(k), c.action # "delete"
  PROVE  CarriedKey(c) = k
<1>1. c.key = k /\ c.lsn <= c.lsn
  BY DEF RowChanges, OrderInv, TypeOK, Change, Times
<1> QED
  BY <1>1 DEF CarriedKey

\* A change of a key has at least one row in silver.
LEMMA ChangesHaveRows ==
  ASSUME OrderInv, NEW p, NEW k \in Keys, NEW c \in RowChanges(k)
  PROVE  \E r \in SilverRows(p) : r.change = c
<1>1. c \in log \ Truncates
  BY NullAssumption DEF RowChanges, Truncates, OrderInv, ChangesOK, Changes
<1>2. c.time \in Times
  BY <1>1, BoundsAssumption DEF OrderInv, TypeOK, ChangesOK, Change, Times
<1>3. 1 \in 1 .. copies[c.time]
  BY <1>2, BoundsAssumption DEF OrderInv, TypeOK
<1> DEFINE row == SilverRow(c, 1, c \in Latest(c.key) /\ p[c.key] = 1)
<1>4. row \in SilverRows(p)
  BY <1>1, <1>3 DEF SilverRows
<1>5. row.change = c
  BY DEF SilverRow
<1> QED
  BY <1>4, <1>5

\* The last change of a customer in a transaction is a version.
LEMMA LastOfItsTransaction ==
  ASSUME OrderInv, NEW p, NEW D \in StgCustomers(p), NEW k \in Keys, NEW c \in RowChanges(k),
         CarriedKey(c) = k
  PROVE  \E q \in D : q.id = k /\ q.change.time = c.time /\ c.lsn <= q.change.lsn
<1>1. PICK r \in SilverRows(p) : r.change = c
  BY ChangesHaveRows
<1> DEFINE Same == {q \in SilverRows(p) : SameTransaction(r, q)}
<1>2. r \in Same /\ r.id = k
  BY <1>1, IdOfARow DEF SameTransaction
<1>3. PICK m \in Same : \A q \in Same : q.change.lsn <= m.change.lsn
  BY <1>2, RowsAreChanges, FirstAndLastRow
<1>4. m \in LastInTransaction(SilverRows(p))
  BY <1>3 DEF LastInTransaction, SameTransaction
<1>5. PICK q \in D : q.change = m.change
  BY <1>4 DEF StgCustomers, Distinct
<1>6. q \in SilverRows(p) /\ m \in SilverRows(p)
  BY <1>4 DEF StgCustomers, Distinct, LastInTransaction
<1>7. q.id = m.id
  BY <1>5, <1>6, IdOfARow
<1> QED
  BY <1>1, <1>2, <1>3, <1>5, <1>7 DEF SameTransaction

\* What stg_customers holds: rows of silver, one for each customer and transaction at
\* most, and at least one for a customer that was inserted or updated.
LEMMA VersionsOfACustomer ==
  ASSUME OrderInv, NEW p, NEW D \in StgCustomers(p)
  PROVE  /\ \A r \in D :
              r \in SilverRows(p) /\ r.change \in log \ Truncates /\ r.change \in Change
         /\ \A r, q \in D : r.change.lsn = q.change.lsn => r = q
         /\ \A r, q \in D : Earlier(r, q) /\ r.id \in Keys => r.change.time < q.change.time
         /\ \A k \in Keys :
              (\E c \in RowChanges(k) : c.action # "delete") => \E r \in D : r.id = k
<1> DEFINE V == LastInTransaction(SilverRows(p))
<1>1. /\ D \subseteq V
      /\ \A r, q \in D : r.change = q.change => r = q
      /\ \A r \in V : \E q \in D : q.change = r.change
  BY DEF StgCustomers, Distinct
<1>2. V \subseteq SilverRows(p)
  BY DEF LastInTransaction
<1>3. \A r \in D : r \in SilverRows(p) /\ r.change \in log \ Truncates /\ r.change \in Change
  BY <1>1, <1>2, RowsAreChanges
<1>4. \A r, q \in D : r.change.lsn = q.change.lsn => r = q
  BY <1>1, <1>3 DEF OrderInv, OneChangeAtEachLsn
<1>5. ASSUME NEW r \in D, NEW q \in D, Earlier(r, q), r.id \in Keys
      PROVE  r.change.time < q.change.time
  <2>1. r.change.key = q.change.key
    BY <1>3, <1>5, IdOfARow DEF Earlier
  <2>2. Conflict(r.change, q.change) /\ r.change.lsn < q.change.lsn
    BY <1>5, <2>1 DEF Earlier, Conflict, Touches
  <2>3. r.change.time <= q.change.time
    BY <1>3, <2>2 DEF OrderInv, LsnOrderIsCommitOrder
  <2>4. r.change.time # q.change.time
    <3>1. SUFFICES ASSUME SameTransaction(r, q) PROVE FALSE
      BY <1>5 DEF SameTransaction, Earlier
    <3>2. q.change.lsn <= r.change.lsn
      BY <1>1, <1>2, <3>1 DEF LastInTransaction
    <3> QED
      BY <1>3, <2>2, <3>2 DEF Change, Times
  <2> QED
    BY <1>3, <2>3, <2>4 DEF Change
<1>6. ASSUME NEW k \in Keys, NEW c \in RowChanges(k), c.action # "delete"
      PROVE  \E r \in D : r.id = k
  BY <1>6, IdOfAnImage, LastOfItsTransaction
<1> QED
  BY <1>3, <1>4, <1>5, <1>6

\* A version ends before any later version of the customer begins: the next one by LSN
\* is the next one by commit.
LEMMA EndsBeforeTheNext ==
  ASSUME OrderInv, NEW p, NEW D \in StgCustomers(p), NEW n \in Nat,
         NEW r \in D, NEW q \in D, r.id \in Keys, Earlier(r, q), ValidAt(D, r, n)
  PROVE  n < q.change.time
<1> DEFINE Following == {v \in D : Earlier(r, v)}
<1>1. \A v \in D : v.change \in Change /\ v.change.lsn \in Nat /\ v.change.time \in Nat
  BY VersionsOfACustomer DEF Change, Times
<1>2. PICK v \in Following : \A w \in Following : v.change.lsn <= w.change.lsn
  BY <1>1, FirstAndLastRow
<1>3. v \in NextVersion(D, r)
  BY <1>2 DEF NextVersion
<1>4. n < v.change.time
  BY <1>3 DEF ValidAt
<1>5. v = q \/ Earlier(v, q)
  <2>1. v.change.lsn <= q.change.lsn /\ v.id = q.id
    BY <1>2 DEF Earlier
  <2>2. v.change.lsn = q.change.lsn => v = q
    BY VersionsOfACustomer
  <2> QED
    BY <1>1, <2>1, <2>2 DEF Earlier
<1>6. v.id \in Keys
  BY <1>2 DEF Earlier
<1> QED
  BY <1>1, <1>4, <1>5, <1>6, VersionsOfACustomer

\* At a time, the valid version is the last one committed by then, or the first
\* there is if none was.
LEMMA SomeVersionIsValid ==
  ASSUME OrderInv, NEW p, NEW D \in StgCustomers(p), NEW n \in 0 .. commits, NEW k \in Keys,
         \E c \in RowChanges(k) : c.action # "delete"
  PROVE  \E r \in D : r.id = k /\ ValidAt(D, r, n)
<1> DEFINE V == {r \in D : r.id = k}
           W == {r \in V : r.change.time <= n}
<1>1. V # {} /\ \A r \in V : r.change \in Change
  BY VersionsOfACustomer
<1>2. n \in Nat /\ \A r \in V : r.change.lsn \in Nat /\ r.change.time \in Nat
  BY <1>1 DEF Change, Times, OrderInv, TypeOK
<1>3. CASE W = {}
  <2>1. PICK r \in V : \A q \in V : r.change.lsn <= q.change.lsn
    BY <1>1, FirstAndLastRow
  <2>2. \A q \in D : ~ Earlier(q, r)
    BY <1>2, <2>1 DEF Earlier
  <2>3. \A q \in D : Earlier(r, q) => n < q.change.time
    BY <1>2, <1>3 DEF Earlier
  <2> QED
    BY <2>2, <2>3 DEF ValidAt, NextVersion
<1>4. CASE W # {}
  <2>1. PICK r \in W : \A q \in W : q.change.lsn <= r.change.lsn
    BY <1>1, <1>4, FirstAndLastRow
  <2>2. \A q \in D : Earlier(r, q) => n < q.change.time
    BY <1>2, <2>1 DEF Earlier
  <2> QED
    BY <2>1, <2>2 DEF ValidAt, NextVersion
<1> QED
  BY <1>3, <1>4

\* One version is valid and no other is: what comes after it begins later, and what
\* came before it ended by when it began.
LEMMA OneVersionIsValid ==
  ASSUME OrderInv, NEW p, NEW D \in StgCustomers(p), NEW n \in 0 .. commits, NEW k \in Keys,
         NEW r \in D, NEW q \in D, r.id = k, q.id = k,
         ValidAt(D, r, n), ValidAt(D, q, n)
  PROVE  r = q
<1>1. /\ r.change \in Change /\ q.change \in Change
      /\ r.change.lsn = q.change.lsn => r = q
  BY VersionsOfACustomer
<1>2. n \in Nat /\ r.change.lsn \in Nat /\ q.change.lsn \in Nat
      /\ r.change.time \in Nat /\ q.change.time \in Nat
  BY <1>1 DEF Change, Times, OrderInv, TypeOK
<1>3. ~ Earlier(r, q)
  <2>1. Earlier(r, q) => n < q.change.time
    BY <1>2, EndsBeforeTheNext
  <2>2. Earlier(r, q) => q.change.time <= n
    BY DEF ValidAt
  <2> QED
    BY <1>2, <2>1, <2>2
<1>4. ~ Earlier(q, r)
  <2>1. Earlier(q, r) => n < r.change.time
    BY <1>2, EndsBeforeTheNext
  <2>2. Earlier(q, r) => r.change.time <= n
    BY DEF ValidAt
  <2> QED
    BY <1>2, <2>1, <2>2
<1> QED
  BY <1>1, <1>2, <1>3, <1>4 DEF Earlier

\* The intervals of dim_customer neither overlap nor leave a gap for a customer that
\* was inserted or updated since the slot exists, whatever is written, by however many
\* sessions, and whichever copies are taken; one that was only deleted has no version.
THEOREM IntervalsPartitionTime == Spec => []OneVersionAtATime
<1>1. OrderInv => OneVersionAtATime
  <2> SUFFICES ASSUME OrderInv, NEW p \in CurrentCopies, NEW D \in StgCustomers(p),
                      NEW n \in 0 .. commits, NEW k \in Keys
               PROVE  IF \E c \in RowChanges(k) : c.action # "delete"
                      THEN \E r \in D : \A q \in D : q.id = k /\ ValidAt(D, q, n) <=> q = r
                      ELSE \A q \in D : q.id # k
    BY DEF OneVersionAtATime
  <2>1. CASE \E c \in RowChanges(k) : c.action # "delete"
    <3>1. PICK r \in D : r.id = k /\ ValidAt(D, r, n)
      BY <2>1, SomeVersionIsValid
    <3>2. \A q \in D : q.id = k /\ ValidAt(D, q, n) <=> q = r
      BY <3>1, OneVersionIsValid
    <3> QED
      BY <2>1, <3>2
  <2>2. CASE ~ \E c \in RowChanges(k) : c.action # "delete"
    <3>1. \A q \in D : q \in SilverRows(p)
      BY VersionsOfACustomer
    <3>2. \A q \in D : q.id # k
      BY <2>2, <3>1, IdOfARow
    <3> QED
      BY <2>2, <3>2
  <2> QED
    BY <2>1, <2>2
<1> QED
  BY <1>1, InitOrder, StepOrder, PTL DEF Spec
-----------------------------------------------------------------------------
(* What silver and gold show, and the table of the source.                 *)

\* The changes that row k had seen when its nth commit was made.
Seen(k, n) == {c \in log : c.time <= n /\ Touches(c, k)}

\* The last change of a row in LSN order is the last in commit order: the row of the
\* source after a commit is what that change left.
LEMMA RowOfLastChange ==
  ASSUME OrderInv, NEW k, NEW n, NEW m \in Seen(k, n),
         \A d \in Seen(k, n) : d.lsn <= m.lsn
  PROVE  SourceRow(k, n) = m.image
<1> DEFINE seen == Seen(k, n)
           IsLast(c) == \A d \in seen \ {c} : CommitsBefore(d, c)
<1>1. \A c \in seen : c \in log /\ c.lsn \in Nat /\ c.time \in Nat /\ Touches(c, k)
  BY DEF Seen, OrderInv, TypeOK, Change, Times
<1>2. IsLast(m)
  <2> SUFFICES ASSUME NEW d \in seen \ {m} PROVE CommitsBefore(d, m)
    OBVIOUS
  <2>1. d.lsn < m.lsn
    <3>1. d.lsn # m.lsn
      BY <1>1 DEF OrderInv, OneChangeAtEachLsn
    <3> QED
      BY <1>1, <3>1
  <2>2. Conflict(d, m)
    BY <1>1 DEF Conflict, Touches
  <2>3. d.time <= m.time
    BY <1>1, <2>1, <2>2 DEF OrderInv, LsnOrderIsCommitOrder
  <2> QED
    BY <1>1, <2>1, <2>3 DEF CommitsBefore
<1>3. ASSUME NEW c \in seen, IsLast(c) PROVE c = m
  <2> SUFFICES ASSUME c # m PROVE FALSE
    OBVIOUS
  <2>1. CommitsBefore(c, m) /\ CommitsBefore(m, c)
    BY <1>2, <1>3
  <2> QED
    BY <1>1, <2>1 DEF CommitsBefore
<1>4. SourceRow(k, n) = (CHOOSE c \in seen : IsLast(c)).image
  BY DEF SourceRow, Seen
<1> QED
  BY <1>2, <1>3, <1>4

\* What silver carries to a change that leaves a row is the value of that row.
LEMMA CarriedIsTheRow ==
  ASSUME IInv, NEW c \in log, c.key \in Keys, c.image # Null
  PROVE  \/ Carried(c) = c.image
         \/ Carried(c) = Null /\ \A d \in RowChanges(c.key) : d.lsn <= c.lsn => d.after = Null
<1> DEFINE carrying == {d \in RowChanges(c.key) : d.lsn <= c.lsn /\ d.after # Null}
           known == LastOf(carrying)
<1>1. OrderInv /\ CarriedOK /\ log \subseteq Changes
  BY DEF IInv, Changes
<1>2. \A d \in log : d \in Change /\ d.lsn \in Nat
  BY <1>1 DEF OrderInv, TypeOK, Change, Times
<1>3. CASE known = {}
  <2>1. carrying = {}
    BY <1>2, <1>3, LastChange DEF LastOf, RowChanges
  <2>2. Carried(c) = Null
    BY <1>3 DEF Carried
  <2> QED
    BY <2>1, <2>2
<1>4. CASE known # {}
  <2>1. PICK d \in known : Carried(c) = d.after
    BY <1>4 DEF Carried
  <2>2. /\ d \in log /\ d.key = c.key /\ d.lsn <= c.lsn /\ d.after # Null
        /\ \A e \in log : e.key = c.key /\ e.lsn <= c.lsn /\ e.after # Null => e.lsn <= d.lsn
    BY <2>1 DEF LastOf, RowChanges
  <2>3. \A e \in Changes \ log : e.key = c.key => c.lsn < e.lsn
    BY <1>1 DEF Changes, OrderInv, LocksOK, Conflict, Touches
  <2>4. \A e \in Changes : e.lsn \in Nat
    BY <1>1, ChangesAreChanges
  <2>5. LastToCarry(Changes, c, d)
    BY <1>1, <1>2, <2>2, <2>3, <2>4 DEF LastToCarry
  <2> QED
    BY <1>1, <2>1, <2>2, <2>5 DEF CarriedOK
<1> QED
  BY <1>3, <1>4

\* No row is current but the chosen copy of the last change of its key, which gold
\* knows by its key unless it is a DELETE that no other change came before.
LEMMA OneCurrentRow ==
  ASSUME OrderInv, NEW p \in CurrentCopies, NEW k \in Keys, NEW l \in Latest(k)
  PROVE  /\ \A r \in CurrentRows(p, k) : r = SilverRow(l, p[k], TRUE)
         /\ l.action # "delete" => SilverRow(l, p[k], TRUE) \in CurrentRows(p, k)
<1>1. l \in log \ Truncates /\ l.key = k /\ l \in RowChanges(k)
  BY NullAssumption DEF Latest, LastOf, RowChanges, Truncates, OrderInv, ChangesOK, Changes
<1>2. \A c \in Latest(k) : c = l
  BY DEF Latest, LastOf, RowChanges, OrderInv, OneChangeAtEachLsn, TypeOK, Change, Times
<1>3. p[k] \in 1 .. copies[l.time]
  <2>1. p[k] \in 1 .. MaxCopies /\ p[k] <= copies[l.time]
    BY DEF CurrentCopies
  <2>2. l.time \in Times
    BY <1>1, BoundsAssumption DEF OrderInv, TypeOK, ChangesOK, Change, Times
  <2>3. copies[l.time] \in Nat
    BY <2>2 DEF OrderInv, TypeOK
  <2> QED
    BY <2>1, <2>3, BoundsAssumption
<1> DEFINE Row(c, j) == SilverRow(c, j, c \in Latest(c.key) /\ p[c.key] = j)
<1>4. \A c, j : /\ Row(c, j).change = c
                /\ Row(c, j).is_current <=> c \in Latest(c.key) /\ p[c.key] = j
  BY DEF SilverRow
<1>5. Row(l, p[k]) = SilverRow(l, p[k], TRUE)
  <2>1. (l \in Latest(l.key) /\ p[l.key] = p[k]) = TRUE
    BY <1>1
  <2> QED
    BY <2>1
<1>6. Row(l, p[k]) \in SilverRows(p)
  BY <1>1, <1>3 DEF SilverRows
<1>7. l.action # "delete" => Row(l, p[k]) \in CurrentRows(p, k)
  <2>1. Row(l, p[k]).id = CarriedKey(l)
    BY DEF SilverRow
  <2> QED
    BY <1>1, <1>4, <1>6, <2>1, IdOfAnImage DEF CurrentRows
<1>8. ASSUME NEW r \in CurrentRows(p, k) PROVE r = Row(l, p[k])
  <2>1. r \in SilverRows(p) /\ r.is_current /\ r.change.key = k
    BY <1>8, IdOfARow DEF CurrentRows
  <2>2. PICK c \in log \ Truncates : \E j \in 1 .. copies[c.time] : r = Row(c, j)
    BY <2>1 DEF SilverRows
  <2>3. PICK j \in 1 .. copies[c.time] : r = Row(c, j)
    BY <2>2
  <2> HIDE DEF Row
  <2>4. c.key = k
    BY <1>4, <2>1, <2>3
  <2>5. Row(c, j).is_current
    BY <2>1, <2>3
  <2>6. c \in Latest(k) /\ j = p[k]
    BY <1>4, <2>4, <2>5
  <2> QED
    BY <1>2, <2>3, <2>6
<1> QED
  BY <1>5, <1>7, <1>8

\* What gold takes for the rows there are is the table of the source: for any number
\* of rows, sessions, changes and copies.
THEOREM CurrentRowsOfTheSource == Spec => []CurrentRowsAreTheSource
<1>1. IInv => CurrentRowsAreTheSource
  <2> SUFFICES ASSUME IInv, NEW p \in CurrentCopies, NEW k \in Keys, RowChanges(k) # {}
               PROVE  IF SourceRow(k, commits) = Null
                      THEN LiveRows(p, k) = {}
                      ELSE \E r \in LiveRows(p, k) :
                             LiveRows(p, k) = {r} /\ Shows(r, SourceRow(k, commits))
    BY DEF CurrentRowsAreTheSource
  <2>1. /\ OrderInv
        /\ \A c \in log : ShapeOK(c) /\ c \in Change /\ c.lsn \in Nat /\ c.time <= commits
    BY DEF IInv, OrderInv, TypeOK, ChangesOK, Changes, Change, Times
  <2> DEFINE seen == Seen(k, commits)
  <2>2. PICK l \in RowChanges(k) : \A d \in RowChanges(k) : d.lsn <= l.lsn
    BY <2>1, LastChange DEF RowChanges
  <2>3. l \in Latest(k) /\ l \in log /\ l.key = k /\ l \in seen /\ l.action # "truncate"
    BY <2>1, <2>2, NullAssumption DEF Latest, LastOf, RowChanges, Seen, Touches, ShapeOK
  <2>4. PICK m \in seen : \A d \in seen : d.lsn <= m.lsn
    BY <2>1, <2>3, LastChange DEF Seen
  <2>5. SourceRow(k, commits) = m.image
    BY <2>1, <2>4, RowOfLastChange
  <2>6. m \in log /\ Touches(m, k)
    BY <2>4 DEF Seen
  <2> DEFINE row == SilverRow(l, p[k], TRUE)
  <2>7. /\ row.change = l /\ row.value = Carried(l)
        /\ row.is_deleted <=> l.action = "delete" \/ \E t \in Truncates : l.lsn < t.lsn
    BY DEF SilverRow, IsTruncated
  <2>8. /\ \A r \in CurrentRows(p, k) : r = row
        /\ l.action # "delete" => row \in CurrentRows(p, k)
    BY <2>1, <2>3, OneCurrentRow
  <2>9. CASE m.image = Null
    <3>1. row.is_deleted
      <4>1. CASE m.action = "truncate"
        <5>1. m # l /\ l.lsn <= m.lsn
          BY <2>3, <2>4, <4>1
        <5>2. l.lsn < m.lsn
          BY <2>1, <2>3, <2>6, <5>1 DEF OrderInv, OneChangeAtEachLsn
        <5> QED
          BY <2>6, <2>7, <4>1, <5>2 DEF Truncates
      <4>2. CASE m.action = "delete"
        <5>1. m.key = k
          BY <2>6, <4>2 DEF Touches
        <5>2. m.lsn = l.lsn
          BY <2>1, <2>2, <2>3, <2>4, <2>6, <5>1 DEF RowChanges
        <5>3. m = l
          BY <2>1, <2>3, <2>6, <5>2 DEF OrderInv, OneChangeAtEachLsn
        <5> QED
          BY <2>7, <4>2, <5>3
      <4> QED
        BY <2>1, <2>6, <2>9, <4>1, <4>2 DEF ShapeOK
    <3>2. LiveRows(p, k) = {}
      BY <2>8, <3>1 DEF LiveRows
    <3> QED
      BY <2>5, <2>9, <3>2
  <2>10. CASE m.image # Null
    <3>1. m.action # "delete" /\ m.action # "truncate" /\ m.key = k
      BY <2>1, <2>6, <2>10 DEF ShapeOK, Touches
    <3>2. m.lsn = l.lsn
      BY <2>1, <2>2, <2>3, <2>4, <2>6, <3>1 DEF RowChanges
    <3>3. m = l
      BY <2>1, <2>3, <2>6, <3>2 DEF OrderInv, OneChangeAtEachLsn
    <3>4. \A t \in Truncates : t \in log /\ t \in seen
      BY <2>1 DEF Truncates, Seen, Touches
    <3>5. \A t \in Truncates : ~ (l.lsn < t.lsn)
      BY <2>1, <2>3, <2>4, <3>3, <3>4
    <3>6. ~ row.is_deleted
      BY <2>7, <3>1, <3>3, <3>5
    <3>7. LiveRows(p, k) = {row}
      BY <2>8, <3>1, <3>3, <3>6 DEF LiveRows
    <3>8. \/ Carried(l) = l.image
          \/ Carried(l) = Null /\ \A d \in RowChanges(l.key) : d.lsn <= l.lsn => d.after = Null
      BY <2>3, <2>10, <3>3, CarriedIsTheRow
    <3>9. Shows(row, m.image)
      BY <2>7, <3>3, <3>8 DEF Shows
    <3> QED
      BY <2>5, <2>10, <3>7, <3>9
  <2> QED
    BY <2>9, <2>10
<1> QED
  BY <1>1, Invariance, PTL

\* The version of a customer that is valid at a time is the customer of that time.
THEOREM VersionsOfTheSource == Spec => []VersionsAreTheSource
<1>1. IInv => VersionsAreTheSource
  <2> SUFFICES ASSUME IInv, NEW p \in CurrentCopies, NEW D \in StgCustomers(p), NEW r \in D,
                      NEW n \in 1 .. commits, r.id \in Keys, r.change.time <= n,
                      ValidAt(D, r, n), SourceRow(r.id, n) # Null
               PROVE  Shows(r, SourceRow(r.id, n))
    BY DEF VersionsAreTheSource
  <2>1. /\ OrderInv /\ n \in Nat
        /\ \A c \in log : ShapeOK(c) /\ c \in Change /\ c.lsn \in Nat /\ c.time \in Nat
    BY DEF IInv, OrderInv, TypeOK, ChangesOK, Changes, Change, Times
  <2> DEFINE k == r.id
             seen == Seen(k, n)
  <2>2. r.change \in log \ Truncates /\ k = r.change.key /\ r.value = Carried(r.change)
    <3>1. r \in SilverRows(p)
      BY DEF StgCustomers, Distinct, LastInTransaction
    <3>2. r.change \in log \ Truncates /\ r.change \in Change
      BY <2>1, <3>1, RowsAreChanges
    <3>3. k = r.change.key
      BY <3>1, IdOfARow
    <3>4. r.value = Carried(r.change)
      BY <3>1 DEF SilverRows, SilverRow
    <3> QED
      BY <3>2, <3>3, <3>4
  <2>3. r.change \in seen
    BY <2>2 DEF Seen, Touches
  <2>4. PICK m \in seen : \A d \in seen : d.lsn <= m.lsn
    BY <2>1, <2>3, LastChange DEF Seen
  <2>5. SourceRow(k, n) = m.image
    BY <2>1, <2>4, RowOfLastChange
  <2>6. m \in log /\ m.time <= n /\ m.key = k /\ m.action # "truncate"
    BY <2>1, <2>4, <2>5 DEF Seen, Touches, ShapeOK
  <2>7. m = r.change
    <3> SUFFICES ASSUME m # r.change PROVE FALSE
      OBVIOUS
    <3>1. r.change.lsn < m.lsn
      BY <2>1, <2>2, <2>3, <2>4, <2>6 DEF OrderInv, OneChangeAtEachLsn
    <3>2. PICK q \in D : q.id = k /\ q.change.time = m.time /\ m.lsn <= q.change.lsn
      <4>1. m \in RowChanges(k) /\ m.action # "delete"
        BY <2>1, <2>5, <2>6 DEF RowChanges, ShapeOK
      <4> QED
        BY <2>1, <4>1, IdOfAnImage, LastOfItsTransaction
    <3>3. q.change \in Change
      BY <2>1, VersionsOfACustomer
    <3>4. Earlier(r, q)
      BY <2>1, <2>2, <2>6, <3>1, <3>2, <3>3 DEF Earlier, Change, Times
    <3>5. n < q.change.time
      BY <2>1, <3>4, EndsBeforeTheNext
    <3> QED
      BY <2>1, <2>6, <3>2, <3>5
  <2>8. \/ Carried(m) = m.image
        \/ Carried(m) = Null /\ \A d \in RowChanges(m.key) : d.lsn <= m.lsn => d.after = Null
    BY <2>2, <2>5, <2>6, CarriedIsTheRow
  <2> QED
    BY <2>2, <2>5, <2>7, <2>8 DEF Shows
<1> QED
  BY <1>1, Invariance, PTL
=============================================================================
