# A TLA+ model of payments-cdc-observability

This directory holds a formal model of the pipeline in this repository: TLA+ modules
translated from its source, TLC configurations that check them on small instances, and
proofs that TLAPS checks for every instance. It follows a payment from the synthetic load
through the replication slot, the consumer and the bronze files to silver and gold, and an
exchange rate from the central bank to the facts.

    tlc -workers 2 -config consumer_groups.cfg MCCdcConsumer     # a run
    tlapm CdcConsumerProofs.tla                                  # the proofs of a module

## 1. Inventory

### Components

| Component | Source | State it keeps | Operations |
|---|---|---|---|
| Replication slot (Postgres, external) | `compose.yaml`, `db/init/`, used by `ingestion/cdc/consumer.py` | WAL, `confirmed_flush_lsn` (in memory and as last saved) | commit, stream from the confirmed position, process feedback, save the slot, crash and recover |
| CDC consumer | `ingestion/cdc/consumer.py` | the open transaction, pending records, position to confirm, gauge; nothing on disk (ADR 0008) | start, read a message, append a record, close a batch at a Commit or when idle, flush, confirm, exit on idle, on a contract violation, on a lost connection |
| pgoutput decoder | `ingestion/cdc/pgoutput.py` | relations announced in this session | decode Begin, Commit, Relation, Insert, Update, Delete, Truncate |
| Data contracts | `contracts/` | `CONTRACTS` (code) | `validate_relation`, `validate_change` |
| Bronze writer | `ingestion/cdc/bronze.py` | `.parquet.tmp` and `.parquet` files | discard stale staging files, group by table and commit date, write and sync a staging file, `os.replace` |
| FX extractor | `ingestion/batch/bcb_fx.py` | one file per currency and month; the watermark is the latest quote in them | windows of a month, fetch, rewrite the month, resume |
| Silver builder | `transform/spark/bronze_to_silver.py` | silver tables, overwritten by each build | one source instance, carry values forward, current row, TRUNCATE, mask |
| Gold marts | `transform/dbt/` | DuckDB tables, rebuilt | SCD2 of customers from the change log, facts joined to the version and rate of their day |
| Orchestration | `orchestration/airflow/dags/` | Airflow's runs | silver then gold every 15 minutes; FX per trading day, backfills |
| Observability | `observability/` | metrics, alert rules | export counters and the gauge; evaluate two rules |
| Generator | `generator/synthetic_load.py` | the customers and merchants it lists at its start, last 50 payments | create missing dimensions, touch all of them, insert and update rows |
| Deployment, chaos, scripts | `compose.yaml`, `Makefile`, `chaos/`, `scripts/` | none | start services, inject faults |

### How they interact

The consumer holds one streaming session on the slot. Postgres sends whole transactions in
commit order, from the slot's position; the consumer appends records to a batch in memory,
flushes the batch into one file per (table, commit date) and then sends the end of the last
Commit it has read as feedback, upon which Postgres forgets what lies before. Everything the
consumer knows is in the slot and in the files, so a restart is a start. Silver reads the
bronze files at any time, with no lock; gold reads silver and the FX files.

### What is hard, and what makes each part correct

| Component | Hard behaviours | Correct when |
|---|---|---|
| Consumer, writer, slot | death between any two steps of a flush; lost, late or forgotten feedback; a replay that falls into other batches and on names of existing files; LSNs of concurrent transactions that interleave; an idle source | what is confirmed is in the files; a transaction is never cut; only boundaries are confirmed; what is overwritten will come again; batches do not wait for ever |
| Decoder, contracts | ALTERs while changes are in flight, replays of old shapes, tuples that leave values out, tables without a contract, a refused change that stays first in the slot | each change is decoded as it was written, judged exactly as the contract says, never skipped, and fails in a traceback for user-defined types only |
| FX extractor | runs for days of a month in any order, a crash between months, an incomplete month behind the watermark | a resumed run loses no quote and leaves no hole; a run that is given its days holds them when it ends |
| Silver | copies left by replays, LSN order against commit order, TRUNCATE, deletes, values an UPDATE left out, a build while files appear | the current rows are the rows of the source at some position |
| Gold | several changes of a key in a transaction, intervals by commit time ordered by LSN, missing rates | intervals of a customer partition time; one row per payment |
| Orchestration | a build across several tables while the consumer writes | a later build sees what an earlier one did |
| Generator | a slot that is created before or after it starts, two generators at once | once one that began after the slot has touched the customers, no payment is streamed whose customer is not |
| Observability | a gauge that restarts, alerts on a series that is absent | an alert fires when its condition holds |

The full list of hazards, each at its line and with the properties that cover it, is in
`PROJECT.json`.

## 2. Plan

In the order in which they were written, most important behaviour first.

1. **Ingestion** (done): `ChangeStream`, `CdcConsumer`, `AtLeastOnce`, `ContractGate`, with
   `CdcConsumerProofs` and `ContractGateProofs`.
2. **Exchange rates** (done): `FxExtractor`, and `GoldRates`, which runs gold's test and join
   of the rates beside it.
3. **Silver and the versions of gold** (done): `Silver`.
4. **The lake as a whole** (done): `LakeBuild`, which composes `CdcConsumer` with the runs that
   read bronze table after table.
5. **What surrounds ingestion** (done): `TwoConsumers`, two processes over one directory, with
   `TwoConsumersProofs`; `Generator`, the load and what of it the slot carries.

Each of 2 to 5 has its module of proofs too. Left: the alert rules (section 7 says why they
come last).

## 3. The modules

### ChangeStream

What the slot streams. An LSN is a position in the WAL; every change has its own, and
changes of concurrent transactions interleave, so a transaction that commits later may hold
lower LSNs than one that committed before. A transaction is a record of its commit position
(the `wal_end` of its Commit message), its commit date and a function from LSNs to changes.
A change is a row change or a TRUNCATE of several tables; of its content only the verdict of
the contract is kept. `RecordsAt` is `build_record` and `build_truncate_record`: one record
per table of the change. `Extends`, `IsNext`, `IsNextChange` state what Postgres does and are
external.

### CdcConsumer

The process, the writer and the slot.

| Variables | In the code |
|---|---|
| `committed`, `created`, `confirmed`, `persisted`, `position`, `connected`, `feedback` | Postgres: WAL, the slot and its saved copy, the session, feedback in flight |
| `transaction`, `pending`, `confirm_lsn` | the locals of `run` |
| `at` | where the stream is within the transaction |
| `gauge` | `Telemetry._confirmed_lsn` |
| `pc`, `todo` | where `_flush` is: which groups of `BronzeWriter.write` are left, and whether the next one is about to be staged, replaced, or the batch confirmed |
| `staging`, `bronze` | `.parquet.tmp` and `.parquet` files; a file is its name and the set of its records |

| Actions | In the code |
|---|---|
| `Start` | `main`: `discard_stale_staging`, `ensure_slot`, `start_replication` |
| `ReadBegin`, `ReadRowChange`, `ReadTruncate`, `ReadCommit` | the branches of the loop of `run`; `ReadCommit` closes the batch if it is full |
| `RejectChange` | `ContractViolation`: exit status 2, from a Relation message or a change |
| `IdleFlush`, `IdleExit` | the branch of `read_message() is None` |
| `StageGroup`, `ReplaceFile` | `_write_group` up to `fsync`, then `os.replace`; once for each group |
| `ConfirmBatch` | `send_feedback`, `telemetry.record`, `pending = []` |
| `SessionLost`, `Crash` | an exception of the connection; `kill -9` and `CDC_FAIL_BEFORE_FEEDBACK` |
| `CommitTransaction`, `ReceiveFeedback`, `PersistSlot`, `RestartPostgres`, `Disconnect` | Postgres and the network |

Choices: `BATCH_MAX_SECONDS` may have passed at any Commit or not. `read_message` may return
nothing at any time, so an idle flush is possible in the middle of a burst (the code closes a
batch then, though ADR 0010 speaks of 500 records or 5 seconds). Feedback sent before a
process died may still be processed, until the next session starts: the slot is not free
before the old walsender is gone. Messages that had arrived when a connection dropped are
still read. A Postgres crash takes the slot back to what was saved of it.

### AtLeastOnce

What readers of bronze may rely on, in four actions: the lake holds only changes of committed
transactions, all of those up to the acknowledged position, and that position only moves to
where this holds. `CdcConsumer!Delivery` maps the acknowledged position to the slot's and the
lake to the union of the files.

### ContractGate

The decoder's cache, the validation, and what becomes of a consumer that refuses. Here a
change stands alone in the WAL (transactions are in `CdcConsumer`) with the shape its table
had when it was written, and values are fit, unfit, null, or left out. `FailsIn` gathers what
would end in a traceback once a relation is known: a relation never announced, a tuple of
another width, a value without an adapter, a key that the tuple lacks. `RefuseType` is what does
end in one: for a table with a column of a user-defined type pgoutput sends a Type message before
the Relation, which `Decoder.decode` does not support (`ProtocolError`, `pgoutput.py:172`).
Which shapes a table may take is given by table (`ShapesOf`), and which of their types are not
built in by `UserTypes`. The operator may deploy a contract (of built-in types, with the primary
key, and it alone, as the key, as all of `contracts/tables.py`) and may advance the slot by hand
after a violation or a traceback (ADR 0018).

### FxExtractor

The exchange rates. Days and months are numbers; a quote is a series and a day.

| Variables | In the code |
|---|---|
| `today`, `published` | the central bank and the calendar, external |
| `held` | the `observations.parquet` files, one for each series and month |
| `override`, `end` | `FX_START_DATE` (or none) and `FX_END_DATE` (or today), read by `main` |
| `pc`, `todo`, `series`, `cursor`, `records` | the loops of `main` and `extract`, and what was fetched |

| Actions | In the code |
|---|---|
| `StartRun` | the head of `main`; an end in the future is refused |
| `BeginSeries` | `resume_from`, or the given start; "already current" when it is after the end |
| `Fetch` | `fetch_range` of a window of `month_windows`, and `to_observations`; nothing is written for an empty one |
| `WriteMonth` | `write_month`: the file of the month is replaced |
| `EndSeries`, `EndRun`, `Fail` | the ends of the loops; an exception or a death, which leaves the series that follow |
| `Publish`, `NextDay`, `RemoveMonth` | the world; `chaos/fx_gap.py` |

A run is given any days or none: none is `make fx`, one day as both is `fx_daily`, and others
are backfills. The history variable `dated` says that some run so far was given its days;
what the code promises of its watermark is said of behaviours before that.

### GoldRates

Extends `FxExtractor` with gold: payments arrive (`Pay`), the test `fx_covers_the_payments`
reads the files (`TestRates`), and `fct_payment` joins them later (`BuildFact`), while the
extractor goes on. Silver is not built during gold, and a month is removed by hand only
before gold is built, as `make chaos-fx` does.

### Silver

One table: the source with its locks (`Insert`, `Update`, `Delete`, `Truncate`, `Commit`, by
several sessions), and what silver and gold make of the log that bronze holds, which are
operators and not steps: silver and gold are rebuilt whole and keep no state of their own.

| Operators | In the code |
|---|---|
| `Carried`, `Latest`, `CurrentCopies` | `cleaned_history`: `last(ignorenulls)` over the history of a key, and `row_number()`, which takes any of the copies of the latest change |
| `CarriedKey` | the key column of a row of silver, which is carried forward like the others: a DELETE that no other change of its key came before has none |
| `IsTruncated`, `SilverRow`, `SilverRows` | `apply_truncates` and `build_silver`, which drops the key of the change |
| `LiveRows` | `stg_payments` and `stg_merchants`, and `not is_deleted` of `fct_payment` |
| `StgCustomers` | `stg_customers`: the last change of a `customer_id` in each transaction, one copy; rows without one are a partition of their own |
| `NextVersion`, `ValidAt` | `dim_customer`: `lead()`, `valid_from`, `valid_to` |

`SourceRow` is the reference: it replays the log in commit order and uses no LSN across
transactions. A change keeps both what its record carries (`after`, none for an unchanged
out-of-line value) and what the row is after it (`image`).

### LakeBuild

Extends `CdcConsumer` with the runs of `bronze_to_gold`: `StartBuild`, then for each table
in the order of its name `BuildTable` (or `SkipTable`, without bronze), then `BuildGold`. A
run may fail at any point: `SilverFails` leaves the tables it has overwritten and perhaps one
whose files are deleted and not written again; `GoldFails` and `BuildGoldInPart` leave some
tables of gold rebuilt, `fct_payment` only when all that it refers to are. Each table of
silver and gold is the set of records it was made from.

### TwoConsumers

Two instances of `CdcConsumer` (taken through `CdcConsumerProofs`, so that what is proved of
one process can be cited of each), which share the WAL, the slot and the disk and have a session
and a memory each. `Start1` and `Start2` need the other one's session to be gone from
Postgres, `Refuse` is a start that does not find it gone, after `discard_stale_staging`;
`ReplaceRaises1` and `ReplaceRaises2` are an `os.replace` without its staging file. With
`Takeover` a process may be started while one that lost its session has not noticed.

### Generator

`ensure_dimensions` in its statements (`Begin`, `InsertMissing`, `Touch`, `Commit`, `Select`),
since other generators run between them, and `run` in its transactions (`Pay`). `announced` and
`paid` are what the slot carries: nothing, before `CreateSlot`, which waits for transactions that
have written. The condition `updated_at < now()` compares with the begin of the transaction.
Generators do not wait for the slot (`compose.yaml` has them wait for the database). `Late(g)`
says that g began after the slot, and the history variable `caught_up` that such a one has
committed its `UPDATE`.

### Operators named as bugs

Definitions marked `\* a bug:` stand beside the ones they vary (a guard dropped, a reset
forgotten, an order swapped). No specification uses them. They are the mutants of
`PROJECT.json`: with one in the place of the original, the property listed with it fails,
which shows that the property watches that part of the code.

## 4. The runs

| Run | Instance | Shows |
|---|---|---|
| `consumer_groups` | two tables, two dates, TRUNCATE of both, rows that break the contract, WAL of 6, 2 transactions of up to 2 changes, batch of 2; 1 863 036 states | durability, honest gauge, whole transactions, boundaries, violations that hold the slot, only unconfirmed records are overwritten, refinement of `AtLeastOnce`; also the inductive invariant of the proofs, of which the types are a part |
| `gate` | a table of five shapes (of only a key, plain, retyped, REPLICA IDENTITY FULL, a key of an enum type) and one without a contract at first; fit and unfit values, 2 changes, 2 ALTERs or deploys; 1 212 430 states | each change is decoded as it was written, exact verdicts, no traceback but for user-defined types, nothing skipped, a missing contract is a verdict, a conforming backlog drains; also the inductive invariant of the proofs |
| `gate_agreement` | one table, two shapes, 2 changes | **fails**: agreement of source and contract resumes ingestion (`running.md:171`) |
| `gold_rates` | two series, three days in months of two, gap of 1, 2 payments, runs of any days; 6 730 863 states | before the first dated run, the watermark can be trusted, no run loses a quote, a run that ends has all, facts miss published rates in the last days only; whatever the runs, a dated one that ends holds its days and a rewrite drops only days after its end; also the inductive invariants of the extractor and of gold |
| `fx_backfill` | one series, four days, runs for any days | **fails**: a rerun changes no observation (`running.md:100`) |
| `silver_source` | two keys, two sessions, 3 changes, any transaction twice; 47 220 states up to symmetry | the current rows are the source's table whichever copy is taken; one version at each time, and the right one; also the inductive invariant of the proofs |
| `lake_build` | two tables, WAL of 5, 2 transactions of up to 2 changes of both tables, batch of 2; 2 123 305 states | gold keeps what the slot had on disk when a good run started, and of a transaction all or nothing of what it did to a table; also the inductive invariant of the proofs |
| `lake_liveness` | two tables, WAL of 4, 2 transactions of one change, batch of 2; 215 420 states | every transaction gets confirmed, and reaches gold |
| `two_refused` | one table, rows that break the contract, WAL of 5, 2 transactions, batch of 3; 120 520 states | a second process that is refused loses nothing that is confirmed, cuts no transaction and passes no violation; the two refine `AtLeastOnce`; also the inductive invariants of the proofs |
| `two_takeover` | as above, with a takeover | **fails**: what is confirmed is in bronze (`README.md:22`, ADR 0010:78) |
| `generator_announced` | two generators, four ids, target of 2, 6 transactions, the slot created at any time; 3 585 004 states up to symmetry | once a generator begun after the slot has touched the customers, no payment of any is without its customer, and all that any lists is announced; also the inductive invariant of the proofs |
| `generator_unannounced` | two generators, three ids, target of 2, 5 transactions | **fails**: no payment without its customer (`README.md:131`) |

The bounds are enough for the cases that matter. With a WAL of 6, two transactions can
interleave so that the second spans the first (LSNs 1 and 4 around 2, commits 3 and 5), which
is what makes a replay fall on an existing name, and a batch can be confirmed, overwritten in
part and replayed behind it. A batch of 2 is filled by one transaction or by two, and one
change leaves it waiting for the idle flush. Two tables and two dates give up to four groups in
a batch, and a TRUNCATE of both gives records with one LSN in two files. In the gate, two
changes with two ALTERs or deploys give an old and a new shape in one backlog, or changes of two
tables of which one is retyped, contracted or both. For
rates, two months let one be incomplete while the next is held, two series let one be ahead of
the other when a run dies, and a gap of 1 lies within a month and across two. In silver, three
changes of two sessions over two keys give a transaction that spans another, a TRUNCATE between
two changes of one transaction, and an UPDATE that carries no value after one that carries it;
a copy of each transaction gives every choice of the windows. In the lake, a change of both
tables in one transaction is what separate reads can tear, and two transactions let a replay
overwrite a file between two reads. `lake_build` uses a TRUNCATE of both tables for any change
of both, as only the records count there. Two generators, with rows of an earlier one, insert
too many, lock each other's rows, and list rows that only the other has touched. Constants that
only bound the model: `MaxLsn`, `MaxTransactions`, `MaxChanges`, `MaxWal`, `MaxDdl`, `LastDay`,
`MaxPayments`, `MaxCopies`, `Ids`, `MaxTime`. Deadlock is not checked where the model ends at
its bounds: all changes made (`Silver`), all time passed and every generator stopped
(`Generator`).

The runs marked **fails** check a sentence of the documentation that the code does not keep.
The counterexamples:

- *Agreement.* A column is retyped, a row is written, the column is typed back. The row is
  streamed with the shape of its time, and each start of the consumer is refused by it. The
  table of the repository's README (line 29) and ADR 0018 describe this, and call it deliberate;
  it is `running.md` that says otherwise.
- *Takeover.* A has LSNs 1 and 3, B, which commits later, LSN 2. The first process has read A and
  is about to write file 1-3 when its session drops. The second reads A and B, writes 1-3 with
  both and confirms them; then the first one writes 1-3 with A alone. The slot never sends B's
  record again.
- *Backfill.* Days 1 and 2 of a month are held; a run with end 1 rewrites the month with day 1
  alone. `DropsOnlyAfterEnd` bounds the loss, and the next run without dates repairs it if the
  month is still the watermark's.
- *Announcement.* A generator inserts and touches its customers and commits; the consumer creates
  the slot; the generator makes a payment, which is streamed, and its customer is not.

Other places where a sentence says more than the code does. The properties above are
stated so that they hold in spite of them; no run is kept for each:

- A file name may change what it holds, when a replay has other batch boundaries (ADR 0010:57):
  only records that are not confirmed are overwritten (`LostRecordsReturn`).
- The gauge is 0 from a start of the consumer to its first flush (`consumer.py:177`).
- A month that a dated run left in part stays so once the watermark is in a later month (ADR
  0014:23); `NoHoles` speaks of runs without dates.
- A payment without a rate is converted at 1 (`schema.yml:113`); `MissesOnlyTheTail` says of
  which days.
- Copies of a replayed change stay in silver (ADR 0016:14), and after a TRUNCATE one copy of a
  customer's last change is deleted and the other is not, of which `stg_customers` takes either
  (`README.md:30`). The current rows and the intervals do not depend on it.
- A run may read the customers before, and the payments after, a batch that holds both
  (`schema.yml:78`): the payment is in gold without its customer until the next run.
- A process that starts while another writes deletes the staging file of the live one (ADR
  0010:25), whose batch is then read again.
- A change of a column's type at the source is a verdict (`README.md`, the table of failures)
  for built-in types; a column of an enum or a domain ends the consumer with a traceback
  (`RefuseType`), which `OnlyUserTypesRaise` says is the only way to one.
- The DELETE of a customer that was not changed since the slot exists is a row of `dim_customer`
  without `customer_id` (`schema.yml:16` tests `not_null`). `OneVersionAtATime` says that it is
  no version of any customer; the others have exactly one at each time.

## 5. Fairness

`CdcConsumer!Fairness` is weak fairness of each step a running process takes by itself (reads,
flushes, exits on a lost session) and of the walsender's processing of feedback. Crashes,
disconnections and commits have none, and neither has `Start`: the service has
`restart: "no"`, so `EventuallyConfirmed` speaks of behaviours in which the consumer runs from
some point on. `ContractGate!Fairness` adds weak fairness of `StartSession`: an operator (or a
scheduler) starts the consumer again. Its liveness property excludes a consumer that keeps
dying.

The exchange rates have none. Runs without dates are started by hand, and `fx_daily` gives each
of its runs a day, after which no later one goes back to what an earlier month lacks: that every
quote is eventually held is no promise of this code. What is said of a run is said of its end.

`LakeBuild!LakeFairness` adds to the consumer's fairness weak fairness of each step of a run
and of `StartBuild`: Airflow starts a run every 15 minutes whether or not the one before
succeeded. `EventuallyInGold` excludes runs that fail for ever and a consumer that stays down,
and speaks of transactions once every table has had a change, since dbt builds nothing from a
table without files.

## 6. Proofs

The proofs hold for any set of tables and dates, any WAL length, any batch size and number of
transactions, from the assumptions named in `ChangeStream`, `CdcConsumer` and `TwoConsumers`
(tables and dates are numbers, the rank of their names; a row change has one table; bounds are
naturals), in `ContractGate` (shapes are functions to columns and contain the key, which is
not empty; a table that is contracted at first has a shape that a contract may declare), in
`FxExtractor` (months do not decrease with days; series are numbers, the rank of their place),
in `Silver` (no key and no value is `Null`) and in `Generator` (ids are numbers). Theorems
that need `Takeover` false assume it in their statement; `dated` and `caught_up` are
histories, and stand in the properties. The type invariant of each component is a conjunct of
its inductive invariant.

**Ingestion** (`CdcConsumerProofs`). The safety properties follow from one inductive invariant,
`IInv`. `ConfirmedIsDurable` alone is not inductive: nothing in it keeps a replay from
overwriting the file that holds a confirmed record. The strengthening says where a confirmed
record is: in a file whose *first* record belongs to a transaction up to the confirmed position
too (`SealedUpTo`). A batch holds only records of transactions after the confirmed position
(`PendingOK`), so no file written from it begins with the same LSN, and none can overwrite that
file (`ConfirmedFilesStay`). The same is kept for the saved position of the slot, for feedback
in flight and for the gauge, because the slot may yet move to each of the first two. The rest
says that the batch holds all of each transaction between the last confirmation and the
session's position (`BatchOK`), that files hold records of valid transactions only (`FilesOK`),
and that during a flush each pending record is in a group still to write or in a file of this
batch (`FlushOK`). One lemma per action shows that a step preserves it; `consumer_groups`
checks it with TLC. The refinement of `AtLeastOnce` takes each step, under the mapping, to the
abstract step or to none: `Ingest` is an `os.replace` that may also take unacknowledged records
away.

**Two processes** (`TwoConsumersProofs`). Beside another process that moves the slot and writes
files, a process keeps only a part of `IInv`: `BesideOK`. `StoreOK` says of what is shared that
files hold whole, accepted transactions and that the positions of the slot are boundaries with
no violation up to them; `MemoryOK` says of a process that its batch is what the WAL sent it, in
whole transactions. Each is kept by the steps of the process (the lemmas `...Beside` of
`CdcConsumerProofs`) and by those of the other (`OthersMemory`), with takeovers too. That
no violation is passed cannot come from the files here, as it does for one process, since a
confirmed record may be gone from them (the run `two_takeover`): `AcceptedUpTo` says it of the
positions themselves, from the position that is read to the one that is sent, processed and
saved. What is lost with a takeover is where confirmed records are (`SealedUpTo`). Without
takeovers, all of it holds of one process at a time: `AloneInv` says that one satisfies `IInv`
and that the other rests, and a start hands the store over (`InvariantOfStore`,
`RestingInvariant`). From it come durability and the refinement. The theorems that need
no assumption on `Takeover` were also checked by TLC with takeovers, on the instance of
`two_refused` (989 639 states), for which no run is kept.

**The gate** (`ContractGateProofs`). The invariant says that the cache of relations is what
the walsender announced, and that in a running session every announced relation satisfies its
contract (`CacheOK`). Since a contract is code and does not change in a session, a table that
is accepted has one shape as long as the session lasts: the relation a change is decoded with
is the contract's and the change's own (`CacheIsCurrent`). From that, `NothingRaises` and
`VerdictIsExact` speak of one shape only, and follow from what pgoutput puts into each kind of
tuple (`TupleParts`). A contract declares built-in types only, so no table with a user-defined
type is ever accepted, and a session that meets a change of one ends at its Type message, before
anything is known of it.

**Exchange rates** (`FxExtractorProofs`, `GoldRatesProofs`). `NoHoles` is not inductive: a
rewrite could open a hole if what was fetched left out a day before one that is held. The
strengthening says that what was fetched is all of the month up to the end of the run, with
what was held (`FetchedOK`), and that the months and series behind the run are complete
(`ProgressOK`). What a run did before it failed is then enough for the next one to begin at the
watermark. Of runs that are given days, `DatedOK` says that the months behind the run are held
up to its end, whatever was held before it; so such a run, once it ends, holds its months
(`DatedRunsComplete`): what it lacks lies before them or at the last day. For gold, what the
test found is kept until the join, because payments wait and the files only grow while no run
was given its days (`GoldInv`).

**Silver** (`SilverProofs`). `LsnOrderIsCommitOrder` follows from the locks: a session that
holds a lock writes after all that was committed under it (`LocksOK`). It gives the order of
the versions of a customer: the next one by LSN is the next one by commit, so that a version,
which `lead()` ends at the former, ends before any later one begins (`EndsBeforeTheNext`), and
the intervals partition time. It makes the last
change of a row in LSN order the last in commit order (`RowOfLastChange`). `CarriedOK` says
that the last value a record carried for a row is its value: an UPDATE that carries none
leaves the row as the change before it did, and that change, as the row is there, is no DELETE
and no TRUNCATE. Both together give `CurrentRowsOfTheSource` and `VersionsOfTheSource`, for any
number of copies and any choice between them. A row is known by the key it carries
(`IdOfARow`): the key of its change, or none, for a DELETE that nothing came before.

**The lake** (`LakeBuildProofs`). Everything up to the position that was on disk in the slot when
a run started is in each table the run has read (`HoldsUpTo`), because the saved position only
grows, what is confirmed is in the files at each moment (`ConfirmedIsDurable`, from
`CdcConsumerProofs`, whose step lemma is cited), and the saved position is confirmed. Gold
inherits it from silver when a run ends well, and a run that fails rebuilds tables of gold
only from tables of silver that the run had all read. A table is read at one moment, from
files that hold whole, accepted transactions (`TransactionsAreWhole` and `FilesOK` of the
consumer), and captured transactions stay so: that is why silver and gold hold all or nothing of
what a transaction did to a table (`WholeIn`), though not of a transaction in several tables.

**The generator** (`GeneratorProofs`). A row that is not announced has not been changed since the
slot exists: its `updated_at` is before the slot. So the `UPDATE` of a generator that began after
the slot finds the row or waits for its lock, and between `Touch` and `Commit` what it has touched
and what is announced are all rows (`Covers`). From its commit on all rows are announced, since
rows that others insert are announced by their commit: and so are the lists and payments of all
generators, those included that began before the slot.

| Theorem | States |
|---|---|
| `CdcConsumerProofs!Invariance` | `Spec => []IInv` |
| `Durability`, `GaugeDurability`, `WholeTransactions`, `ViolationsHold`, `BoundariesOnly` | the invariants of the runs of the consumer |
| `OnlyUnconfirmedLost` | the action property `LostRecordsReturn` |
| `AtLeastOnceDelivery` | `Spec => Delivery!Spec`, the refinement |
| `TwoConsumersProofs!Invariance` | `Spec => []SharedInv`, with takeovers or without |
| `WholeTransactions`, `ViolationsHold`, `NothingUnreadConfirmed` | whole transactions, violations that hold the slot, nothing confirmed that was not read: with takeovers too |
| `Durability`, `AtLeastOnceDelivery` | durability and the refinement, for two processes without takeovers |
| `ContractGateProofs!Invariance`, `FreshCache`, `OnlyVerdictsButForUserTypes` | the invariants of the gate: `IInv`, `DecodedAsWritten`, `OnlyUserTypesRaise` |
| `ExactGate`, `NoSkip` | its action properties `GateIsExact`, `NothingIsSkipped` |
| `FxExtractorProofs!Invariance`, `NothingBehindTheWatermark` | the invariants of the extractor |
| `RewritesKeepTheWindow`, `OnlyDatedRunsDrop`, `ResumedRunsComplete` | its action properties `DropsOnlyAfterEnd`, `ResumedRunsKeepQuotes`, `RunsComplete` |
| `DatedRunsHoldTheirWindow` | the action property `DatedRunsComplete` |
| `GoldRatesProofs!GoldInvariance`, `FactsMissOnlyTheTail`, `ExtractorAlone` | `GoldInv`; `MissesOnlyTheTail`; gold's specification implements the extractor's |
| `SilverProofs!Invariance`, `OrderOfTheLog` | `IInv`, `LsnOrderIsCommitOrder` |
| `CurrentRowsOfTheSource`, `IntervalsPartitionTime`, `VersionsOfTheSource` | what silver and gold show is the source |
| `LakeBuildProofs!LakeInvariance`, `GoldCompleteness`, `GoldWholeness` | `LakeInv`, `GoldHoldsThePersisted`, `GoldIsWhole` |
| `ConsumerAlone` | `LakeSpec => Spec`: what is proved of the consumer holds in the lake |
| `GeneratorProofs!Invariance`, `NoPaymentUnannounced`, `NoListUnannounced` | `IInv`, the action property `PaymentsFollowTheTouch`, and `ListsAreAnnounced`, whenever the slot is created |

Only model-checked: liveness (`EventuallyConfirmed`, `ConformingBacklogDrains`,
`EventuallyInGold`). Liveness under fairness and ENABLED are beyond the
prover, as are induction over data and RECURSIVE operators; none of the modules declares one.
Every invariant and every action property of a passing run is proved.

## 7. Not modelled

- The alert rules: Grafana evaluates them over windows of minutes, and what they promise is
  a matter of those times and thresholds, not of an order of steps. Deployment, chaos and
  other scripts are configuration and I/O.
- The byte layout of pgoutput messages, the Pydantic types of single fields, the columns of
  the Parquet schema, masking and casts in silver, the dimensions of gold that are
  projections (dates, currencies, merchants): data whose detail no property above depends on.
- A host that loses power after `os.replace` (the directory is not synced, ADR 0010:68); two
  processes that write one staging file at once (two consumers, two extractors); builds by hand
  beside Airflow's: recorded as hazards.
- Changes of a key, which are identity columns; bronze of two database instances, which silver
  refuses (among `SilverFails`).
- Keepalives, and WAL retention.
