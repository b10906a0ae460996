------------------------------- MODULE Silver -------------------------------
(***************************************************************************)
(* What the lake makes of one table: the history that silver cleans of the *)
(* change log in bronze (transform/spark/bronze_to_silver.py), and the     *)
(* rows and versions that gold takes from it (stg_payments, stg_customers, *)
(* dim_customer), against the table of the source.                         *)
(*                                                                         *)
(* The source is where the order comes from: sessions write rows of the    *)
(* table under PostgreSQL's locks and commit in any order, so LSN order    *)
(* and commit order differ, while silver and gold order by LSN and date by *)
(* commit. Silver and gold are functions of what bronze holds, but for the *)
(* rows of equal rank that a window may take either of: those are choices. *)
(*                                                                         *)
(* Each state is a moment at which bronze holds what is committed, some of *)
(* it more than once (a replay). One column stands for all that are not    *)
(* the key. Left out: masking and typing, which change each value by       *)
(* itself; rollbacks, which stream nothing; updates of the key itself (an  *)
(* identity column), which the silver job does not follow.                 *)
(***************************************************************************)
EXTENDS Integers, FiniteSets

CONSTANTS
  Keys, Values,
  Null,       \* no value, no row, or no key
  Sessions,   \* concurrent transactions of the source
  MaxLsn,     \* changes made (bound)
  MaxCopies   \* times a transaction is written to bronze (bound)

ASSUME NullAssumption == Null \notin Keys /\ Null \notin Values
ASSUME BoundsAssumption == MaxLsn \in Nat /\ MaxCopies \in Nat \ {0}

VARIABLES
  initial,  \* the table when the slot was created
  lsn,      \* the end of the WAL
  open,     \* the changes of each session's open transaction
  commits,  \* number of commits: the clock of commit times
  log,      \* the changes committed since the slot was created
  copies    \* how often bronze holds each transaction

vars == <<initial, lsn, open, commits, log, copies>>

Times == 1 .. MaxLsn

\* A change of the table. `after` is the value in its record: none for a DELETE,
\* and none for an unchanged out-of-line value. `image` is the value the row has
\* after it. Transactions are known by the time of their commit, 0 while open.
Change ==
  [lsn : Times, time : 0 .. MaxLsn, action : {"insert", "update", "delete", "truncate"},
   key : Keys \cup {Null}, after : Values \cup {Null}, image : Values \cup {Null}]

TypeOK ==
  /\ initial \in [Keys -> Values \cup {Null}]
  /\ lsn \in 0 .. MaxLsn
  /\ open \in [Sessions -> SUBSET Change]
  /\ commits \in 0 .. MaxLsn
  /\ log \subseteq Change
  /\ copies \in [Times -> 1 .. MaxCopies]

Init ==
  /\ initial \in [Keys -> Values \cup {Null}]
  /\ lsn = 0 /\ open = [s \in Sessions |-> {}]
  /\ commits = 0 /\ log = {}
  /\ copies = [t \in Times |-> 1]

-----------------------------------------------------------------------------
(* The source.                                                             *)

\* A TRUNCATE touches every row.
Touches(c, k) == c.key = k \/ c.action = "truncate"

Conflict(c, d) == Touches(c, d.key) \/ Touches(d, c.key)

\* The changes made, committed or not.
Changes == log \cup UNION {open[s] : s \in Sessions}

\* The row of key k, as the one session that may change it sees it.
RowNow(k) ==
  LET touching == {c \in Changes : Touches(c, k)}
  IN  IF touching = {}
      THEN initial[k]
      ELSE (CHOOSE c \in touching : \A d \in touching : d.lsn <= c.lsn).image

WriteWithoutLocks(s, c) ==   \* a bug: rows are written that another session holds
  /\ c \in Change
  /\ lsn < MaxLsn /\ c.lsn = lsn + 1 /\ c.time = 0
  /\ lsn' = lsn + 1
  /\ open' = [open EXCEPT ![s] = @ \cup {c}]
  /\ UNCHANGED <<initial, commits, log, copies>>

\* Session s makes change c at the end of the WAL, once no other holds a lock on it.
Write(s, c) ==
  /\ c \in Change
  /\ lsn < MaxLsn /\ c.lsn = lsn + 1 /\ c.time = 0
  /\ \A t \in Sessions \ {s} : \A d \in open[t] : ~ Conflict(c, d)
  /\ lsn' = lsn + 1
  /\ open' = [open EXCEPT ![s] = @ \cup {c}]
  /\ UNCHANGED <<initial, commits, log, copies>>

RowChange(action, k, after, image) ==
  [lsn |-> lsn + 1, time |-> 0, action |-> action, key |-> k, after |-> after,
   image |-> image]

Insert(s) ==
  \E k \in Keys, v \in Values :
    RowNow(k) = Null /\ Write(s, RowChange("insert", k, v, v))

\* An UPDATE that leaves an out-of-line value as it is carries no value of it.
Update(s) ==
  \E k \in Keys :
    /\ RowNow(k) # Null
    /\ \/ \E v \in Values : Write(s, RowChange("update", k, v, v))
       \/ Write(s, RowChange("update", k, Null, RowNow(k)))

Delete(s) ==
  \E k \in Keys : RowNow(k) # Null /\ Write(s, RowChange("delete", k, Null, Null))

Truncate(s) == Write(s, RowChange("truncate", Null, Null, Null))

\* The transaction of s commits, and reaches bronze. There are no more commits than
\* changes.
Commit(s) ==
  /\ open[s] # {} /\ commits < MaxLsn
  /\ commits' = commits + 1
  /\ log' = log \cup {[c EXCEPT !.time = commits + 1] : c \in open[s]}
  /\ open' = [open EXCEPT ![s] = {}]
  /\ UNCHANGED <<initial, lsn, copies>>

\* A replay writes a transaction to another file.
Redeliver ==
  /\ \E t \in 1 .. commits :
       /\ copies[t] < MaxCopies
       /\ copies' = [copies EXCEPT ![t] = @ + 1]
  /\ UNCHANGED <<initial, lsn, open, commits, log>>

Next ==
  \/ \E s \in Sessions : Insert(s) \/ Update(s) \/ Delete(s) \/ Truncate(s) \/ Commit(s)
  \/ Redeliver

Spec == Init /\ [][Next]_vars

-----------------------------------------------------------------------------
(* Silver: build_silver.                                                   *)

RowChanges(k) == {c \in log : c.key = k}

Truncates == {c \in log : c.action = "truncate"}

FirstOf(C) == {c \in C : \A d \in C : c.lsn <= d.lsn}
LastOf(C)  == {c \in C : \A d \in C : d.lsn <= c.lsn}

CarriedInTransaction(c) ==   \* a bug: only from changes of the same transaction
  LET known == LastOf({d \in RowChanges(c.key) :
                         d.lsn <= c.lsn /\ d.time = c.time /\ d.after # Null})
  IN  IF known = {} THEN Null ELSE (CHOOSE d \in known : TRUE).after

\* The last value the key had up to change c (last, ignorenulls).
Carried(c) ==
  LET known == LastOf({d \in RowChanges(c.key) : d.lsn <= c.lsn /\ d.after # Null})
  IN  IF known = {} THEN Null ELSE (CHOOSE d \in known : TRUE).after

LatestByCommit(k) ==   \* a bug: the window is ordered by commit_time
  {c \in RowChanges(k) : \A d \in RowChanges(k) : d.time <= c.time}

\* The change that row_number() ranks first.
Latest(k) == LastOf(RowChanges(k))

\* Which copy of its latest change is the current row of a key: any.
CurrentCopies ==
  {p \in [Keys -> 1 .. MaxCopies] : \A k \in Keys : \A c \in Latest(k) : p[k] <= copies[c.time]}

TruncatedFromThen(c, current) ==   \* a bug: <= where the TRUNCATE and all after it count
  current /\ \E t \in Truncates : t.time <= c.time

\* apply_truncates: a current row before the last TRUNCATE.
IsTruncated(c, current) == current /\ \E t \in Truncates : c.lsn < t.lsn

\* The key column among the values carried forward: every INSERT and UPDATE carries
\* it, and a DELETE has it from them, if there was one. build_silver drops key_*, so
\* this is all that gold knows a row by.
CarriedKey(c) ==
  IF \E d \in RowChanges(c.key) : d.lsn <= c.lsn /\ d.action # "delete" THEN c.key ELSE Null

SilverRow(c, j, current) ==
  [change |-> c, copy |-> j, id |-> CarriedKey(c), value |-> Carried(c),
   is_current |-> current,
   is_deleted |-> c.action = "delete" \/ IsTruncated(c, current)]

\* The rows of silver, when p[k] is the copy that is current.
SilverRows(p) ==
  UNION {{SilverRow(c, j, c \in Latest(c.key) /\ p[c.key] = j) : j \in 1 .. copies[c.time]} :
           c \in log \ Truncates}

-----------------------------------------------------------------------------
(* Gold.                                                                   *)

\* stg_payments and stg_merchants, of key k; fct_payment leaves the deleted out
\* (dim_merchant does not).
CurrentRows(p, k) == {r \in SilverRows(p) : r.is_current /\ r.id = k}

LiveRows(p, k) == {r \in CurrentRows(p, k) : ~ r.is_deleted}

SameTransaction(r, q) == r.id = q.id /\ r.change.time = q.change.time

\* stg_customers: the last change of a customer_id in each transaction; the rows that
\* have none are partitioned together. Of its copies, row_number() takes one.
LastInTransaction(S) ==
  {r \in S : \A q \in S : SameTransaction(r, q) => q.change.lsn <= r.change.lsn}

Distinct(S) ==
  {D \in SUBSET S :
     /\ \A r, q \in D : r.change = q.change => r = q
     /\ \A r \in S : \E q \in D : q.change = r.change}

StgCustomers(p) == Distinct(LastInTransaction(SilverRows(p)))

Earlier(r, q) == r.id = q.id /\ r.change.lsn < q.change.lsn

\* lead() over customer_id, by LSN: the one version after r, if there is one.
NextVersion(D, r) ==
  {q \in D : Earlier(r, q) /\ \A v \in D : Earlier(r, v) => q.change.lsn <= v.change.lsn}

ValidFromItsCommit(D, r, n) ==   \* a bug: the first version does not open in 1900
  /\ r.change.time <= n
  /\ \A q \in NextVersion(D, r) : n < q.change.time

\* dim_customer: the version r of D is valid at time n, from its commit to the
\* commit of the next version; the first one from 1900.
ValidAt(D, r, n) ==
  /\ (\E q \in D : Earlier(q, r)) => r.change.time <= n
  /\ \A q \in NextVersion(D, r) : n < q.change.time

-----------------------------------------------------------------------------
(* Properties.                                                             *)

CommitsBefore(c, d) == c.time < d.time \/ (c.time = d.time /\ c.lsn < d.lsn)

\* The row of key k in the source after its nth commit: a reference for silver and
\* gold that does not order by LSN.
SourceRow(k, n) ==
  LET seen == {c \in log : c.time <= n /\ Touches(c, k)}
  IN  IF seen = {}
      THEN initial[k]
      ELSE (CHOOSE c \in seen : \A d \in seen \ {c} : CommitsBefore(d, c)).image

\* A value that silver shows for a row that has value v: v itself, unless no change
\* of the key up to then has carried any (the row is older than the slot).
Shows(r, v) ==
  \/ r.value = v
  \/ /\ r.value = Null
     /\ \A c \in RowChanges(r.change.key) : c.lsn <= r.change.lsn => c.after = Null

\* Changes that may not be made at once reach the source's table in LSN order: two
\* changes of a row, or a change and a TRUNCATE. It is what lets silver choose the
\* current row by LSN although transactions do not commit in LSN order.
LsnOrderIsCommitOrder ==
  \A c, d \in log : Conflict(c, d) /\ c.lsn < d.lsn => c.time <= d.time

\* What gold takes for the payments there are is what the source's table holds: one
\* row for each row that was changed since the slot exists, with its value, and none
\* for a row that was deleted or truncated, whatever copies a replay left and
\* whichever copy is current.
CurrentRowsAreTheSource ==
  \A p \in CurrentCopies, k \in Keys :
    RowChanges(k) # {} =>
      IF SourceRow(k, commits) = Null
      THEN LiveRows(p, k) = {}
      ELSE \E r \in LiveRows(p, k) :
             LiveRows(p, k) = {r} /\ Shows(r, SourceRow(k, commits))

\* At every time exactly one version is valid of a customer that was inserted or
\* updated since the slot exists, so that fct_payment finds one and has no payment
\* twice: the intervals of dim_customer neither overlap nor leave a gap, though each
\* ends at the commit of the next version by LSN. A customer that was only deleted
\* has no version: its row has no customer_id.
OneVersionAtATime ==
  \A p \in CurrentCopies : \A D \in StgCustomers(p) : \A n \in 0 .. commits, k \in Keys :
    IF \E c \in RowChanges(k) : c.action # "delete"
    THEN \E r \in D : \A q \in D : q.id = k /\ ValidAt(D, q, n) <=> q = r
    ELSE \A q \in D : q.id # k

\* ... and it is the customer as it was in the source at that time, if it was there
\* and had been changed since the slot exists.
VersionsAreTheSource ==
  \A p \in CurrentCopies : \A D \in StgCustomers(p) : \A r \in D, n \in 1 .. commits :
    /\ r.id \in Keys /\ r.change.time <= n /\ ValidAt(D, r, n)
    /\ SourceRow(r.id, n) # Null
    => Shows(r, SourceRow(r.id, n))
-----------------------------------------------------------------------------
(* The inductive invariant. LsnOrderIsCommitOrder holds because a session  *)
(* that holds a lock writes after all that was committed under it; what    *)
(* silver carries forward is right because an UPDATE that leaves a value   *)
(* out leaves the row as the change before it in LSN order did.            *)

ChangesOK ==
  /\ \A c \in log : c.lsn <= lsn /\ 0 < c.time /\ c.time <= commits
  /\ \A s \in Sessions : \A c \in open[s] : c.lsn <= lsn /\ c.time = 0
  /\ \A c \in Changes : c.action = "truncate" => c.key = Null

\* The WAL holds one change at each position.
OneChangeAtEachLsn ==
  /\ \A c, d \in log : c.lsn = d.lsn => c = d
  /\ \A s, t \in Sessions : \A c \in open[s], d \in open[t] :
       c.lsn = d.lsn => s = t /\ c = d
  /\ \A s \in Sessions : \A c \in log, d \in open[s] : c.lsn # d.lsn

LocksOK ==
  /\ \A s, t \in Sessions : \A c \in open[s], d \in open[t] : Conflict(c, d) => s = t
  /\ \A s \in Sessions : \A c \in log, d \in open[s] : Conflict(c, d) => c.lsn < d.lsn

OrderInv ==
  /\ TypeOK /\ ChangesOK /\ OneChangeAtEachLsn /\ LocksOK
  /\ LsnOrderIsCommitOrder

\* Which changes leave a row.
ShapeOK(c) ==
  /\ c.action = "truncate" <=> c.key = Null
  /\ c.action \in {"truncate", "delete"} <=> c.image = Null

\* d is the last of the changes in C up to c that carries a value of c's row.
LastToCarry(C, c, d) ==
  /\ d \in C /\ d.key = c.key /\ d.lsn <= c.lsn /\ d.after # Null
  /\ \A e \in C : e.key = c.key /\ e.lsn <= c.lsn /\ e.after # Null => e.lsn <= d.lsn

CarriedOK ==
  \A c, d \in Changes : c.image # Null /\ LastToCarry(Changes, c, d) => d.after = c.image

IInv == OrderInv /\ (\A c \in Changes : ShapeOK(c)) /\ CarriedOK
=============================================================================
