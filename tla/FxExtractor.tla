---------------------------- MODULE FxExtractor -----------------------------
(***************************************************************************)
(* The exchange rate extractor (ingestion/batch/bcb_fx.py), which keeps    *)
(* one file of quotes for each currency and month and no other state.      *)
(*                                                                         *)
(* A run takes the series in order and, for each, the months from its      *)
(* start to its end: it fetches what is published of the month up to the   *)
(* end of the run, and replaces the file of the month by it. A resumed run *)
(* (make fx) starts at the month of the latest quote that is held and ends *)
(* today; a dated run (fx_daily, a backfill) is given its days.            *)
(*                                                                         *)
(* External: the central bank publishes the quote of a day on that day, or *)
(* never (a holiday), and does not correct it.                             *)
(*                                                                         *)
(* Left out: the staging file of a month, which no reader takes for the    *)
(* month's file and every run writes anew; two extractors at work at once. *)
(***************************************************************************)
EXTENDS Integers, FiniteSets

CONSTANTS
  Series,        \* FX_SERIES, each the rank of its place in the tuple
  LastDay,       \* days are 1 .. LastDay (bound)
  MonthOf,       \* the month of each day
  DefaultStart   \* FX_DEFAULT_START

Days == 1 .. LastDay

ASSUME SeriesAssumption == Series \subseteq Nat
ASSUME LastDayAssumption == LastDay \in Nat \ {0}
ASSUME MonthAssumption ==
  /\ MonthOf \in [Days -> Nat]
  /\ \A d, e \in Days : d <= e => MonthOf[d] <= MonthOf[e]
ASSUME DefaultStartAssumption == DefaultStart \in Days

VARIABLES
  today,
  published,  \* the quotes the central bank has
  held,       \* the quotes in the observations.parquet files
  pc,         \* where the run is
  override,   \* FX_START_DATE, or None
  end,        \* the last day the run asks for
  todo,       \* series the run has not come to
  series,     \* the series it is at
  cursor,     \* the month it is at
  records,    \* what it fetched of that month
  dated       \* history: a run was given FX_START_DATE or FX_END_DATE

vars == <<today, published, held, pc, override, end, todo, series, cursor, records, dated>>

run == <<override, end, todo, series, cursor, records>>

None == 0

\* Between runs; at the head of the loop over series, at the head of the loop over
\* months, or about to replace a file by what was fetched.
PC == {"idle", "series", "window", "write"}

Quote == Series \X Days

Months == Nat

TypeOK ==
  /\ today \in Days
  /\ published \subseteq Quote
  /\ held \subseteq Quote
  /\ pc \in PC
  /\ override \in {None} \cup Days
  /\ end \in Days
  /\ todo \subseteq Series
  /\ pc \in {"window", "write"} => series \in Series
  /\ cursor \in Months
  /\ records \subseteq Quote
  /\ dated \in BOOLEAN

Init ==
  /\ today = 1
  /\ published = {} /\ held = {}
  /\ pc = "idle" /\ override = None /\ end = 1 /\ todo = {}
  /\ series = None /\ cursor = 0 /\ records = {} /\ dated = FALSE

-----------------------------------------------------------------------------
(* The world.                                                              *)

Publish ==
  /\ \E s \in Series :
       /\ <<s, today>> \notin published
       /\ published' = published \cup {<<s, today>>}
  /\ UNCHANGED <<today, held, pc, run, dated>>

NextDay ==
  /\ today < LastDay
  /\ today' = today + 1
  /\ UNCHANGED <<published, held, pc, run, dated>>

-----------------------------------------------------------------------------
(* The files.                                                              *)

\* What the file of month m of series s holds.
FileOf(s, m) == {q \in held : q[1] = s /\ MonthOf[q[2]] = m}

DaysHeld(s) == {d \in Days : <<s, d>> \in held}

IsLatest(d, D) == d \in D /\ \A e \in D : e <= d

IsFirstOfMonth(d) == \A e \in Days : MonthOf[e] = MonthOf[d] => d <= e

WatermarkOfAnySeries(s) ==   \* a bug: the watermark of the whole directory
  {d \in UNION {DaysHeld(z) : z \in Series} : IsLatest(d, UNION {DaysHeld(z) : z \in Series})}

\* The latest day held, if there is one.
Watermark(s) == {d \in DaysHeld(s) : IsLatest(d, DaysHeld(s))}

ResumeAfter(s) ==   \* a bug: a run resumes at the month after the watermark's
  IF Watermark(s) = {}
  THEN {DefaultStart}
  ELSE {d \in Days : IsFirstOfMonth(d) /\ \E w \in Watermark(s) : MonthOf[d] = MonthOf[w] + 1}

\* The first day of the watermark's month.
ResumeFrom(s) ==
  IF Watermark(s) = {}
  THEN {DefaultStart}
  ELSE {d \in Days : IsFirstOfMonth(d) /\ \E w \in Watermark(s) : MonthOf[d] = MonthOf[w]}

-----------------------------------------------------------------------------
(* A run.                                                                  *)

\* main: a run is given its days, or ends today. An end in the future is refused.
\* fx_daily gives one day as both.
StartRun ==
  /\ pc = "idle"
  /\ override' \in {None} \cup Days
  /\ end' \in 1 .. today
  /\ dated' = (dated \/ override' # None \/ end' # today)
  /\ todo' = Series
  /\ pc' = "series"
  /\ UNCHANGED <<today, published, held, series, cursor, records>>

StartsOf(s) == IF override = None THEN ResumeFrom(s) ELSE {override}

IsFirstSeries(s) == s \in todo /\ \A z \in todo : s <= z

\* The next series. One whose start is after the end "is already current".
BeginSeries ==
  /\ pc = "series"
  /\ \E s \in todo : \E start \in StartsOf(s) :
       /\ IsFirstSeries(s)
       /\ todo' = todo \ {s}
       /\ series' = s
       /\ cursor' = MonthOf[start]
       /\ pc' = IF start > end THEN "series" ELSE "window"
  /\ UNCHANGED <<today, published, held, override, end, records, dated>>

InRun == pc = "window" /\ cursor <= MonthOf[end]

WindowOfTheRun ==   \* a bug: the month is not asked for from its first day
  {q \in published : q[1] = series /\ MonthOf[q[2]] = cursor /\ override <= q[2] /\ q[2] <= end}

\* The days of a window: the whole month, cut at the end of the run.
Window ==
  {q \in published : q[1] = series /\ MonthOf[q[2]] = cursor /\ q[2] <= end}

\* fetch_range and to_observations. 404 is a window without quotes, which writes
\* nothing.
Fetch ==
  /\ InRun
  /\ records' = Window
  /\ IF Window = {}
     THEN cursor' = cursor + 1 /\ pc' = pc
     ELSE pc' = "write" /\ cursor' = cursor
  /\ UNCHANGED <<today, published, held, override, end, todo, series, dated>>

WriteNewestOnly ==   \* a bug: the month's file is replaced by its newest quote
  /\ pc = "write"
  /\ held' = (held \ FileOf(series, cursor))
               \cup {q \in records : \A p \in records : p[2] <= q[2]}
  /\ cursor' = cursor + 1
  /\ records' = {}
  /\ pc' = "window"
  /\ UNCHANGED <<today, published, override, end, todo, series, dated>>

\* write_month: os.replace puts the new file in the place of the old one.
WriteMonth ==
  /\ pc = "write"
  /\ held' = (held \ FileOf(series, cursor)) \cup records
  /\ cursor' = cursor + 1
  /\ records' = {}
  /\ pc' = "window"
  /\ UNCHANGED <<today, published, override, end, todo, series, dated>>

EndSeriesEarly ==   \* a bug: the month of the last day is left out
  /\ pc = "window"
  /\ cursor >= MonthOf[end]
  /\ pc' = "series"
  /\ UNCHANGED <<today, published, held, run, dated>>

\* The months of the series are done.
EndSeries ==
  /\ pc = "window"
  /\ cursor > MonthOf[end]
  /\ pc' = "series"
  /\ UNCHANGED <<today, published, held, run, dated>>

\* The process is gone, and with it all it held in memory.
Exit ==
  /\ pc' = "idle"
  /\ override' = None /\ end' = 1 /\ todo' = {}
  /\ series' = None /\ cursor' = 0 /\ records' = {}
  /\ UNCHANGED <<today, published, held, dated>>

EndRunAfterOne ==   \* a bug: the run returns after its first series
  /\ pc = "series"
  /\ todo # Series
  /\ Exit

EndRun ==
  /\ pc = "series"
  /\ todo = {}
  /\ Exit

\* The request fails, the answer breaks the contract, or the process dies: nothing
\* catches it, and the series that were to follow are not fetched either.
Fail ==
  /\ pc # "idle"
  /\ ~ (pc = "series" /\ todo = {})
  /\ Exit

\* chaos/fx_gap.py: the last month of a currency is deleted, by hand and between
\* runs.
RemoveMonth ==
  /\ pc = "idle"
  /\ \E s \in Series, w \in Days :
       /\ w \in Watermark(s)
       /\ held' = held \ FileOf(s, MonthOf[w])
  /\ UNCHANGED <<today, published, pc, run, dated>>

Run == StartRun \/ BeginSeries \/ Fetch \/ WriteMonth \/ EndSeries \/ EndRun

Next == Publish \/ NextDay \/ Run \/ Fail \/ RemoveMonth

Spec == Init /\ [][Next]_vars

-----------------------------------------------------------------------------
(* Properties.                                                             *)

\* Whatever days runs are given, rewriting a month drops no quote of a day up to the end
\* of the run: what a rewrite drops lies after it, so only a run that was given an earlier
\* end can drop anything at all.
DropsOnlyAfterEnd ==
  [][\A q \in held \ held' : RemoveMonth \/ q[2] > end]_vars

\* A quote that is held stays held whatever runs follow, fail or are repeated.
\* docs/running.md:100 of the files: "The whole month is rewritten on every run, so
\* resuming and backfilling are the same operation and running it twice changes no
\* observation." Only chaos/fx_gap.py removes quotes.
RerunsKeepQuotes == [][RemoveMonth \/ held \subseteq held']_vars

\* ... which is so while all runs are resumed ones (make fx).
ResumedRunsKeepQuotes == [][RemoveMonth \/ dated \/ held \subseteq held']_vars

\* While all runs are resumed ones, what a series holds has no hole since the default
\* start: the watermark may be trusted to say that every quote before it is held, though
\* a run may die between two months or two series and a month may be removed. It is what
\* lets a run begin at the watermark's month and no earlier.
\* docs/adr/0014-bcb-fx-extractor.md:23 of the watermark: a partial month is always
\* redone in full.
NoHoles ==
  ~ dated =>
    \A s \in Series, d, e \in Days :
      /\ <<s, d>> \in published /\ DefaultStart <= d
      /\ d < e /\ <<s, e>> \in held
      => <<s, d>> \in held

\* A resumed run that ends normally has all that was published before its last day, if
\* the runs before it were resumed too, wherever they failed.
RunsComplete ==
  [][EndRun /\ ~ dated => \A s \in Series, d \in Days :
       <<s, d>> \in published /\ DefaultStart <= d /\ d < end => <<s, d>> \in held]_vars

\* A run that was given its days and ends normally has all that was published in the
\* months of those days, before the last of them, whatever runs there were before it,
\* and whatever holes they left: docs/running.md:104: "Set FX_START_DATE and FX_END_DATE
\* to extract an explicit window instead."
DatedRunsComplete ==
  [][EndRun /\ override # None /\ override <= end =>
       \A s \in Series, d \in Days :
         <<s, d>> \in published /\ MonthOf[override] <= MonthOf[d] /\ d < end
           => <<s, d>> \in held]_vars

-----------------------------------------------------------------------------
(* The inductive invariant. NoHoles is not inductive: what a run has still *)
(* to write decides whether a rewrite opens a hole.                        *)

WorldOK ==
  /\ held \subseteq published
  /\ \A q \in published : q[2] <= today

\* All that series s has before month m is held, up to the end of the run.
CompleteBefore(s, m) ==
  \A d \in Days :
    <<s, d>> \in published /\ DefaultStart <= d /\ d < end /\ MonthOf[d] < m
      => <<s, d>> \in held

Complete(s) ==
  \A d \in Days :
    <<s, d>> \in published /\ DefaultStart <= d /\ d < end => <<s, d>> \in held

InSeries == pc \in {"window", "write"}

\* What was fetched is the month as it is in the files, and as it was published.
FetchedOK ==
  pc = "write" =>
    /\ cursor <= MonthOf[end]
    /\ records \subseteq published
    /\ \A q \in records : q[1] = series /\ MonthOf[q[2]] = cursor /\ q[2] <= end
    /\ \A q \in published :
         q[1] = series /\ MonthOf[q[2]] = cursor /\ q[2] <= end /\ (q[2] < end \/ q \in held)
           => q \in records

\* Of a run that was given no days: the months and the series behind it are done.
ProgressOK ==
  ~ dated =>
    /\ NoHoles
    /\ override = None
    /\ pc # "idle" => \A q \in held : q[2] <= end
    /\ InSeries => CompleteBefore(series, cursor)
    /\ pc # "idle" =>
         \A s \in Series : s \in todo \/ (InSeries /\ s = series) \/ Complete(s)

\* Of a run that was given its days: what it asks for of series s, before month m, is held.
WindowHeld(s, m) ==
  \A d \in Days :
    <<s, d>> \in published /\ MonthOf[override] <= MonthOf[d] /\ d < end /\ MonthOf[d] < m
      => <<s, d>> \in held

DatedOK ==
  pc # "idle" /\ override # None /\ override <= end =>
    /\ InSeries => WindowHeld(series, cursor)
    /\ \A s \in Series :
         s \in todo \/ (InSeries /\ s = series) \/ WindowHeld(s, MonthOf[end] + 1)

IInv ==
  /\ TypeOK /\ WorldOK /\ FetchedOK /\ ProgressOK /\ DatedOK
  /\ pc # "idle" => end <= today
=============================================================================
