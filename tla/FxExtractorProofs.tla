------------------------- MODULE FxExtractorProofs --------------------------
(***************************************************************************)
(* Proofs about FxExtractor, for any series, calendar and default start.   *)
(***************************************************************************)
EXTENDS FxExtractor, TLAPS

-----------------------------------------------------------------------------
(* Days, months and windows.                                               *)

\* Days are numbers, months are, and an earlier month has earlier days.
LEMMA Calendar ==
  ASSUME NEW d \in Days, NEW e \in Days
  PROVE  /\ d \in Nat /\ d # None /\ MonthOf[d] \in Nat
         /\ d <= e => MonthOf[d] <= MonthOf[e]
         /\ MonthOf[d] < MonthOf[e] => d < e
<1>1. d \in Int /\ e \in Int /\ d >= 1
  BY LastDayAssumption DEF Days
<1>2. MonthOf[d] \in Nat /\ MonthOf[e] \in Nat
  BY MonthAssumption
<1>3. /\ d <= e => MonthOf[d] <= MonthOf[e]
      /\ e <= d => MonthOf[e] <= MonthOf[d]
  BY MonthAssumption
<1> QED
  BY <1>1, <1>2, <1>3 DEF None

\* A resumed run starts a series at the default start, or at the first day of the
\* month of the latest day the series holds.
LEMMA WhereRunsResume ==
  ASSUME NEW s \in Series, NEW start \in ResumeFrom(s)
  PROVE  /\ start \in Days
         /\ \/ start = DefaultStart
            \/ \E w \in Watermark(s) : MonthOf[start] = MonthOf[w] /\ start <= w
<1>1. CASE Watermark(s) = {}
  BY <1>1, DefaultStartAssumption DEF ResumeFrom
<1>2. CASE Watermark(s) # {}
  <2>1. PICK w \in Watermark(s) : MonthOf[start] = MonthOf[w]
    BY <1>2 DEF ResumeFrom
  <2>2. start \in Days /\ IsFirstOfMonth(start)
    BY <1>2 DEF ResumeFrom
  <2>3. w \in Days
    BY <2>1 DEF Watermark, IsLatest, DaysHeld
  <2>4. start <= w
    BY <2>1, <2>2, <2>3 DEF IsFirstOfMonth
  <2> QED
    BY <2>1, <2>2, <2>4
<1> QED
  BY <1>1, <1>2

\* A quote is the pair of its parts.
LEMMA QuoteParts ==
  ASSUME NEW q \in Quote
  PROVE  q = <<q[1], q[2]>> /\ q[1] \in Series /\ q[2] \in Days
BY DEF Quote

-----------------------------------------------------------------------------
(* The invariant holds at the start.                                       *)

LEMMA InitInvariant == Init => IInv
<1> SUFFICES ASSUME Init PROVE IInv
  OBVIOUS
<1>1. 1 \in Days
  BY LastDayAssumption DEF Days
<1> QED
  BY <1>1 DEF Init, IInv, TypeOK, WorldOK, FetchedOK, ProgressOK, DatedOK, NoHoles,
       InSeries, PC, Months

-----------------------------------------------------------------------------
(* Each step preserves it.                                                 *)

\* A quote of today is later than any held quote, and no run asks for less than all
\* the days before today.
LEMMA PublishStep == IInv /\ Publish => IInv'
<1> SUFFICES ASSUME IInv, Publish PROVE IInv'
  OBVIOUS
<1>1. PICK s \in Series : published' = published \cup {<<s, today>>}
  BY DEF Publish
<1>2. UNCHANGED <<today, held, pc, override, end, todo, series, cursor, records, dated>>
  BY DEF Publish, run
<1>3. TypeOK'
  BY <1>1, <1>2 DEF IInv, TypeOK, Quote
<1>4. today \in Days /\ today \in Int /\ end \in Days /\ end \in Int
  BY Calendar DEF IInv, TypeOK
<1>5. WorldOK'
  BY <1>1, <1>2, <1>4 DEF IInv, WorldOK
<1>6. FetchedOK'
  <2> SUFFICES ASSUME pc = "write"
               PROVE  FetchedOK'
    BY <1>2 DEF FetchedOK
  <2>1. end <= today
    BY DEF IInv
  <2>2. <<s, today>>[2] = today
    OBVIOUS
  <2>3. <<s, today>> \in published \/ <<s, today>> \notin held
    BY DEF IInv, WorldOK
  <2> QED
    BY <1>1, <1>2, <1>4, <2>1, <2>2, <2>3 DEF IInv, FetchedOK
<1>7. ASSUME ~ dated
      PROVE  NoHoles'
  <2> SUFFICES ASSUME NEW z \in Series, NEW d \in Days, NEW e \in Days,
                      <<z, d>> \in published', DefaultStart <= d, d < e, <<z, e>> \in held
               PROVE  <<z, d>> \in held
    BY <1>2 DEF NoHoles
  <2>1. <<z, e>> \in published /\ e <= today
    BY DEF IInv, WorldOK
  <2>2. d # today
    BY <2>1, <1>4, Calendar
  <2>3. <<z, d>> \in published
    BY <1>1, <2>2
  <2> QED
    BY <2>3, <1>7 DEF IInv, ProgressOK, NoHoles
<1>8. ASSUME pc # "idle", NEW z \in Series, NEW d \in Days, <<z, d>> \in published', d < end
      PROVE  <<z, d>> \in published
  <2>1. end <= today
    BY <1>8 DEF IInv
  <2>2. d # today
    BY <1>8, <1>4, <2>1, Calendar
  <2> QED
    BY <1>1, <1>8, <2>2
<1>9. ProgressOK'
  <2> SUFFICES ASSUME ~ dated
               PROVE  ProgressOK'
    BY <1>2 DEF ProgressOK
  <2>1. InSeries => CompleteBefore(series, cursor)'
    <3> SUFFICES ASSUME InSeries, NEW d \in Days, <<series, d>> \in published',
                        DefaultStart <= d, d < end, MonthOf[d] < cursor
                 PROVE  <<series, d>> \in held
      BY <1>2 DEF CompleteBefore
    <3>1. pc # "idle" /\ series \in Series
      BY DEF InSeries, IInv, TypeOK
    <3>2. <<series, d>> \in published
      BY <1>8, <3>1
    <3> QED
      BY <3>2 DEF IInv, ProgressOK, CompleteBefore
  <2>2. ASSUME pc # "idle", NEW z \in Series
        PROVE  z \in todo \/ (InSeries /\ z = series) \/ Complete(z)'
    <3> SUFFICES ASSUME Complete(z)
                 PROVE  Complete(z)'
      BY <2>2 DEF IInv, ProgressOK
    <3> QED
      BY <1>2, <1>8, <2>2 DEF Complete
  <2> QED
    BY <1>2, <1>7, <2>1, <2>2 DEF ProgressOK, IInv, InSeries
<1>10. DatedOK'
  <2> SUFFICES ASSUME pc # "idle", override # None, override <= end
               PROVE  DatedOK'
    BY <1>2 DEF DatedOK
  <2>1. InSeries => series \in Series
    BY DEF InSeries, IInv, TypeOK
  <2>2. InSeries => WindowHeld(series, cursor)'
    BY <1>2, <1>8, <2>1 DEF IInv, DatedOK, WindowHeld
  <2>3. ASSUME NEW z \in Series
        PROVE  z \in todo \/ (InSeries /\ z = series) \/ WindowHeld(z, MonthOf[end] + 1)'
    <3> SUFFICES ASSUME WindowHeld(z, MonthOf[end] + 1)
                 PROVE  WindowHeld(z, MonthOf[end] + 1)'
      BY DEF IInv, DatedOK
    <3> QED
      BY <1>2, <1>8 DEF WindowHeld
  <2> QED
    BY <1>2, <2>2, <2>3 DEF DatedOK, InSeries, WindowHeld
<1> QED
  BY <1>2, <1>3, <1>5, <1>6, <1>9, <1>10 DEF IInv

LEMMA NextDayStep == IInv /\ NextDay => IInv'
<1> SUFFICES ASSUME IInv, NextDay PROVE IInv'
  OBVIOUS
<1>1. UNCHANGED <<published, held, pc, override, end, todo, series, cursor, records, dated>>
  BY DEF NextDay, run
<1>2. today \in Int /\ today' = today + 1 /\ today' \in Days
  BY LastDayAssumption DEF NextDay, IInv, TypeOK, Days
<1>3. TypeOK'
  BY <1>1, <1>2 DEF IInv, TypeOK
<1>4. WorldOK'
  <2>1. ASSUME NEW q \in published
        PROVE  q[2] <= today'
    <3>1. q[2] \in Days /\ q[2] \in Int /\ q[2] <= today
      BY QuoteParts, Calendar DEF IInv, TypeOK, WorldOK
    <3> QED
      BY <1>2, <3>1
  <2> QED
    BY <1>1, <2>1 DEF IInv, WorldOK
<1>5. FetchedOK' /\ ProgressOK' /\ DatedOK'
  BY <1>1 DEF IInv, FetchedOK, ProgressOK, NoHoles, CompleteBefore, Complete, DatedOK,
       WindowHeld, InSeries
<1>6. pc # "idle" => end <= today'
  BY <1>2, Calendar DEF IInv, TypeOK
<1> QED
  BY <1>1, <1>3, <1>4, <1>5, <1>6 DEF IInv

\* A run that is given no days ends today, and holds no quote of a later day.
LEMMA StartRunStep == IInv /\ StartRun => IInv'
<1> SUFFICES ASSUME IInv, StartRun PROVE IInv'
  OBVIOUS
<1>1. UNCHANGED <<today, published, held, series, cursor, records>> /\ pc' = "series"
  BY DEF StartRun
<1>2. end' \in Days /\ end' <= today
  BY LastDayAssumption DEF StartRun, IInv, TypeOK, Days
<1>3. TypeOK'
  BY <1>1, <1>2 DEF StartRun, IInv, TypeOK, PC
<1>4. WorldOK' /\ FetchedOK'
  BY <1>1 DEF IInv, WorldOK, FetchedOK
<1>5. ProgressOK'
  BY <1>1 DEF StartRun, IInv, WorldOK, ProgressOK, NoHoles, InSeries
<1>6. DatedOK'
  BY <1>1 DEF StartRun, DatedOK, InSeries
<1> QED
  BY <1>1, <1>2, <1>3, <1>4, <1>5, <1>6 DEF IInv

\* The months before the watermark's are complete, as nothing before a held quote
\* is missing.
LEMMA BeginSeriesStep == IInv /\ BeginSeries => IInv'
<1> SUFFICES ASSUME IInv, BeginSeries PROVE IInv'
  OBVIOUS
<1>1. UNCHANGED <<today, published, held, override, end, records, dated>> /\ pc = "series"
  BY DEF BeginSeries
<1>2. PICK s \in todo : \E start \in StartsOf(s) :
        /\ todo' = todo \ {s} /\ series' = s /\ cursor' = MonthOf[start]
        /\ pc' = IF start > end THEN "series" ELSE "window"
  BY DEF BeginSeries
<1>3. PICK start \in StartsOf(s) :
        /\ todo' = todo \ {s} /\ series' = s /\ cursor' = MonthOf[start]
        /\ pc' = IF start > end THEN "series" ELSE "window"
  BY <1>2
<1>4. s \in Series /\ start \in Days /\ end \in Days
  BY WhereRunsResume DEF IInv, TypeOK, StartsOf
<1>5. TypeOK'
  BY <1>1, <1>3, <1>4, MonthAssumption DEF IInv, TypeOK, PC, Months
<1>6. WorldOK' /\ FetchedOK'
  BY <1>1, <1>3 DEF IInv, WorldOK, FetchedOK
<1>7. ProgressOK'
  <2> SUFFICES ASSUME ~ dated
               PROVE  ProgressOK'
    BY <1>1 DEF ProgressOK
  <2>1. start \in ResumeFrom(s)
    BY DEF IInv, ProgressOK, StartsOf
  <2>2. ASSUME NEW w \in Watermark(s)
        PROVE  w \in Days /\ <<s, w>> \in held /\ w <= end
    <3>1. w \in Days /\ <<s, w>> \in held
      BY <2>2 DEF Watermark, IsLatest, DaysHeld
    <3>2. <<s, w>>[2] <= end
      BY <1>1, <3>1 DEF IInv, ProgressOK
    <3> QED
      BY <3>1, <3>2
  <2>3. ASSUME NEW d \in Days, <<s, d>> \in published, DefaultStart <= d,
               MonthOf[d] < MonthOf[start]
        PROVE  <<s, d>> \in held
    <3>1. CASE start = DefaultStart
      BY <2>3, <3>1, <1>4, Calendar
    <3>2. CASE \E w \in Watermark(s) : MonthOf[start] = MonthOf[w] /\ start <= w
      <4>1. PICK w \in Watermark(s) : MonthOf[start] = MonthOf[w]
        BY <3>2
      <4>2. w \in Days /\ <<s, w>> \in held /\ d < w
        BY <2>2, <2>3, <4>1, Calendar
      <4> QED
        BY <2>3, <4>2, <1>4 DEF IInv, ProgressOK, NoHoles
    <3> QED
      BY <2>1, <3>1, <3>2, <1>4, WhereRunsResume
  <2>4. CompleteBefore(s, MonthOf[start])
    BY <2>3 DEF CompleteBefore
  <2>5. start > end => Complete(s)
    <3> SUFFICES ASSUME start > end, NEW d \in Days, <<s, d>> \in published,
                        DefaultStart <= d, d < end
                 PROVE  <<s, d>> \in held
      BY DEF Complete
    <3>1. ASSUME NEW w \in Watermark(s), start <= w
          PROVE  FALSE
      <4>1. w \in Days /\ w <= end
        BY <2>2
      <4>2. start \in Int /\ end \in Int /\ w \in Int
        BY <4>1, <1>4, Calendar
      <4> QED
        BY <3>1, <4>1, <4>2
    <3>2. start = DefaultStart
      BY <2>1, <3>1, <1>4, WhereRunsResume
    <3> QED
      BY <3>2, <1>4, Calendar
  <2>6. pc' # "idle" => \A q \in held' : q[2] <= end'
    BY <1>1 DEF IInv, ProgressOK
  <2>7. InSeries' => CompleteBefore(series, cursor)'
    BY <1>1, <1>3, <2>4 DEF CompleteBefore
  <2>8. ASSUME NEW z \in Series
        PROVE  (z \in todo \/ (InSeries /\ z = series) \/ Complete(z))'
    <3>1. CASE z = s
      BY <1>1, <1>3, <2>5, <3>1 DEF InSeries, Complete
    <3>2. CASE z # s
      BY <1>1, <1>3, <3>2 DEF IInv, ProgressOK, InSeries, Complete
    <3> QED
      BY <3>1, <3>2
  <2> QED
    BY <1>1, <2>6, <2>7, <2>8 DEF ProgressOK, IInv, NoHoles
<1>8. DatedOK'
  <2> SUFFICES ASSUME override # None, override <= end
               PROVE  DatedOK'
    BY <1>1 DEF DatedOK
  <2>1. start = override /\ override \in Days
    BY DEF IInv, TypeOK, StartsOf
  <2>2. pc' = "window" /\ cursor' = MonthOf[override] /\ series' = s
    BY <1>3, <1>4, <2>1, Calendar
  <2>3. WindowHeld(s, MonthOf[override])
    BY <2>1, Calendar DEF WindowHeld
  <2>4. WindowHeld(series, cursor)'
    BY <1>1, <2>2, <2>3 DEF WindowHeld
  <2>5. ASSUME NEW z \in Series, z # s
        PROVE  (z \in todo \/ WindowHeld(z, MonthOf[end] + 1))'
    BY <1>1, <1>3, <2>5 DEF IInv, DatedOK, InSeries, WindowHeld
  <2> QED
    BY <1>1, <2>2, <2>4, <2>5 DEF DatedOK, InSeries
<1> QED
  BY <1>1, <1>3, <1>5, <1>6, <1>7, <1>8 DEF IInv

\* What is fetched includes every quote of the month that is held up to the end of
\* the run; a window without quotes leaves nothing to hold.
LEMMA FetchStep == IInv /\ Fetch => IInv'
<1> SUFFICES ASSUME IInv, Fetch PROVE IInv'
  OBVIOUS
<1>1. /\ UNCHANGED <<today, published, held, override, end, todo, series, dated>>
      /\ pc = "window" /\ cursor <= MonthOf[end] /\ records' = Window
  BY DEF Fetch, InRun
<1>2. \/ Window = {} /\ cursor' = cursor + 1 /\ pc' = "window"
      \/ Window # {} /\ cursor' = cursor /\ pc' = "write"
  BY <1>1 DEF Fetch
<1>3. cursor \in Nat /\ cursor' \in Nat /\ series \in Series /\ end \in Days
  BY <1>1, <1>2 DEF IInv, TypeOK, Months
<1>4. Window \subseteq published /\ published \subseteq Quote
  BY DEF Window, IInv, TypeOK
<1>5. TypeOK'
  BY <1>1, <1>2, <1>3, <1>4 DEF IInv, TypeOK, PC, Months
<1>6. WorldOK'
  BY <1>1 DEF IInv, WorldOK
<1>7. FetchedOK'
  BY <1>1, <1>2, <1>4 DEF FetchedOK, Window
<1>8. ProgressOK'
  <2> SUFFICES ASSUME ~ dated
               PROVE  ProgressOK'
    BY <1>1 DEF ProgressOK
  <2>1. CompleteBefore(series, cursor)
    BY <1>1 DEF IInv, ProgressOK, InSeries
  <2>2. CompleteBefore(series, cursor)'
    <3> SUFFICES ASSUME NEW d \in Days, <<series, d>> \in published, DefaultStart <= d,
                        d < end, MonthOf[d] < cursor'
                 PROVE  <<series, d>> \in held
      BY <1>1 DEF CompleteBefore
    <3>1. MonthOf[d] \in Int /\ d \in Int /\ end \in Int
      BY <1>3, Calendar
    <3>2. MonthOf[d] # cursor \/ cursor' = cursor
      <4> SUFFICES ASSUME MonthOf[d] = cursor
                   PROVE  <<series, d>> \in Window
        BY <1>2
      <4> QED
        BY <3>1 DEF Window
    <3>3. MonthOf[d] < cursor
      BY <1>2, <1>3, <3>1, <3>2
    <3> QED
      BY <2>1, <3>3 DEF CompleteBefore
  <2>3. InSeries /\ InSeries'
    BY <1>1, <1>2 DEF InSeries
  <2> QED
    BY <1>1, <2>2, <2>3 DEF IInv, ProgressOK, NoHoles, Complete
<1>9. DatedOK'
  <2> SUFFICES ASSUME override # None, override <= end
               PROVE  DatedOK'
    BY <1>1 DEF DatedOK
  <2>1. WindowHeld(series, cursor) /\ pc # "idle" /\ InSeries
    BY <1>1 DEF IInv, DatedOK, InSeries
  <2>2. WindowHeld(series, cursor)'
    <3> SUFFICES ASSUME NEW d \in Days, <<series, d>> \in published,
                        MonthOf[override] <= MonthOf[d], d < end, MonthOf[d] < cursor'
                 PROVE  <<series, d>> \in held
      BY <1>1 DEF WindowHeld
    <3>1. MonthOf[d] \in Int /\ d \in Int /\ end \in Int
      BY <1>3, Calendar
    <3>2. MonthOf[d] # cursor \/ cursor' = cursor
      <4> SUFFICES ASSUME MonthOf[d] = cursor
                   PROVE  <<series, d>> \in Window
        BY <1>2
      <4> QED
        BY <3>1 DEF Window
    <3>3. MonthOf[d] < cursor
      BY <1>2, <1>3, <3>1, <3>2
    <3> QED
      BY <2>1, <3>3 DEF WindowHeld
  <2>3. \A z \in Series :
          z \in todo \/ z = series \/ WindowHeld(z, MonthOf[end] + 1)
    BY <2>1 DEF IInv, DatedOK
  <2>4. InSeries'
    BY <1>2 DEF InSeries
  <2> QED
    BY <1>1, <2>2, <2>3, <2>4 DEF DatedOK, WindowHeld
<1> QED
  BY <1>1, <1>5, <1>6, <1>7, <1>8, <1>9 DEF IInv

\* What the files hold after a month is written.
LEMMA AfterWrite ==
  ASSUME IInv, WriteMonth, NEW q \in Quote
  PROVE  /\ q \in held' => q \in published
         /\ q \in held' => q \in records \/ (q \in held /\ ~ (q[1] = series /\ MonthOf[q[2]] = cursor))
         /\ q \in records => q \in held' /\ q[1] = series /\ MonthOf[q[2]] = cursor /\ q[2] <= end
         /\ q \in held /\ q[2] <= end => q \in held'
         /\ q \in published /\ q[1] = series /\ MonthOf[q[2]] = cursor /\ q[2] < end => q \in held'
<1>1. pc = "write" /\ held' = (held \ FileOf(series, cursor)) \cup records
  BY DEF WriteMonth
<1>2. held \subseteq published
  BY DEF IInv, WorldOK
<1>3. /\ records \subseteq published
      /\ \A r \in records : r[1] = series /\ MonthOf[r[2]] = cursor /\ r[2] <= end
      /\ \A r \in published :
           r[1] = series /\ MonthOf[r[2]] = cursor /\ r[2] <= end /\ (r[2] < end \/ r \in held)
             => r \in records
  BY <1>1 DEF IInv, FetchedOK
<1>4. q[2] \in Int /\ end \in Int
  BY QuoteParts, Calendar DEF IInv, TypeOK
<1>5. q \in FileOf(series, cursor) <=> q \in held /\ q[1] = series /\ MonthOf[q[2]] = cursor
  BY DEF FileOf
<1> QED
  BY <1>1, <1>2, <1>3, <1>4, <1>5

\* The rewritten month has all it had up to the end of the run, and the months before
\* it are complete: no hole opens.
LEMMA WriteMonthStep == IInv /\ WriteMonth => IInv'
<1> SUFFICES ASSUME IInv, WriteMonth PROVE IInv'
  OBVIOUS
<1>1. /\ UNCHANGED <<today, published, override, end, todo, series, dated>>
      /\ pc = "write" /\ pc' = "window" /\ cursor' = cursor + 1 /\ records' = {}
  BY DEF WriteMonth
<1>2. cursor \in Nat /\ series \in Series /\ end \in Days /\ end \in Int
  BY <1>1, Calendar DEF IInv, TypeOK, Months
<1>3. held' \subseteq published /\ published \subseteq Quote
  <2>1. published \subseteq Quote /\ held' \subseteq Quote
    BY DEF IInv, TypeOK, WriteMonth
  <2> QED
    BY <2>1, AfterWrite
<1>4. TypeOK'
  BY <1>1, <1>2, <1>3 DEF IInv, TypeOK, PC, Months
<1>5. WorldOK' /\ FetchedOK'
  BY <1>1, <1>3 DEF IInv, WorldOK, FetchedOK
<1>6. ProgressOK'
  <2> SUFFICES ASSUME ~ dated
               PROVE  ProgressOK'
    BY <1>1 DEF ProgressOK
  <2>1. /\ NoHoles /\ override = None /\ \A q \in held : q[2] <= end
        /\ CompleteBefore(series, cursor)
    BY <1>1 DEF IInv, ProgressOK, InSeries
  <2>2. held \subseteq held'
    BY <1>3, <2>1, AfterWrite DEF IInv, WorldOK
  <2>3. \A q \in held' : q[2] <= end
    BY <1>3, <2>1, AfterWrite
  <2>4. NoHoles'
    <3> SUFFICES ASSUME NEW s \in Series, NEW d \in Days, NEW e \in Days,
                        <<s, d>> \in published, DefaultStart <= d, d < e, <<s, e>> \in held'
                 PROVE  <<s, d>> \in held'
      BY <1>1 DEF NoHoles
    <3>1. d \in Int /\ e \in Int /\ MonthOf[d] \in Int /\ MonthOf[d] <= MonthOf[e]
      BY Calendar
    <3>2. d < end
      BY <2>3, <3>1, <1>2
    <3>3. CASE <<s, e>> \in held
      BY <3>3, <2>1, <2>2 DEF NoHoles
    <3>4. CASE <<s, e>> \notin held
      <4>1. s = series /\ MonthOf[e] = cursor
        BY <3>4, <1>3, AfterWrite
      <4>2. CASE MonthOf[d] = cursor
        BY <4>1, <4>2, <3>2, <1>3, AfterWrite
      <4>3. CASE MonthOf[d] < cursor
        BY <4>1, <4>3, <3>2, <2>1, <2>2 DEF CompleteBefore
      <4> QED
        BY <4>1, <4>2, <4>3, <3>1, <1>2
    <3> QED
      BY <3>3, <3>4
  <2>5. CompleteBefore(series, cursor)'
    <3> SUFFICES ASSUME NEW d \in Days, <<series, d>> \in published, DefaultStart <= d,
                        d < end, MonthOf[d] < cursor + 1
                 PROVE  <<series, d>> \in held'
      BY <1>1 DEF CompleteBefore
    <3>1. MonthOf[d] \in Int /\ d \in Int
      BY Calendar
    <3>2. CASE MonthOf[d] = cursor
      BY <3>2, <1>3, AfterWrite
    <3>3. CASE MonthOf[d] < cursor
      BY <3>3, <2>1, <2>2 DEF CompleteBefore
    <3> QED
      BY <3>1, <3>2, <3>3, <1>2
  <2>6. InSeries /\ InSeries' /\ pc # "idle"
    BY <1>1 DEF InSeries
  <2>7. \A z \in Series : (z \in todo \/ (InSeries /\ z = series) \/ Complete(z))'
    BY <1>1, <2>2, <2>6 DEF IInv, ProgressOK, Complete
  <2> QED
    BY <1>1, <2>1, <2>3, <2>4, <2>5, <2>7 DEF ProgressOK
<1>7. DatedOK'
  <2> SUFFICES ASSUME override # None, override <= end
               PROVE  DatedOK'
    BY <1>1 DEF DatedOK
  <2>1. WindowHeld(series, cursor) /\ pc # "idle" /\ InSeries /\ InSeries'
    BY <1>1 DEF IInv, DatedOK, InSeries
  <2>2. ASSUME NEW z \in Series, NEW d \in Days, <<z, d>> \in held, d < end
        PROVE  <<z, d>> \in held'
    <3>1. <<z, d>> \in Quote /\ d <= end
      BY <2>2, <1>2, Calendar DEF Quote
    <3> QED
      BY <2>2, <3>1, AfterWrite
  <2>3. WindowHeld(series, cursor)'
    <3> SUFFICES ASSUME NEW d \in Days, <<series, d>> \in published,
                        MonthOf[override] <= MonthOf[d], d < end, MonthOf[d] < cursor + 1
                 PROVE  <<series, d>> \in held'
      BY <1>1 DEF WindowHeld
    <3>1. MonthOf[d] \in Int /\ d \in Int
      BY Calendar
    <3>2. CASE MonthOf[d] = cursor
      BY <3>2, <1>3, AfterWrite
    <3>3. CASE MonthOf[d] < cursor
      BY <1>2, <2>1, <2>2, <3>3 DEF WindowHeld
    <3> QED
      BY <3>1, <3>2, <3>3, <1>2
  <2>4. \A z \in Series :
          z \in todo \/ z = series \/ WindowHeld(z, MonthOf[end] + 1)
    BY <2>1 DEF IInv, DatedOK
  <2>5. ASSUME NEW z \in Series, WindowHeld(z, MonthOf[end] + 1)
        PROVE  WindowHeld(z, MonthOf[end] + 1)'
    BY <1>1, <2>2, <2>5 DEF WindowHeld
  <2> QED
    BY <1>1, <2>1, <2>3, <2>4, <2>5 DEF DatedOK
<1> QED
  BY <1>1, <1>4, <1>5, <1>6, <1>7 DEF IInv

\* When the months are done, so is the series: no day before the end of the run is
\* in a later month than the end.
LEMMA EndSeriesStep == IInv /\ EndSeries => IInv'
<1> SUFFICES ASSUME IInv, EndSeries PROVE IInv'
  OBVIOUS
<1>1. /\ UNCHANGED <<today, published, held, override, end, todo, series, cursor, records,
                      dated>>
      /\ pc = "window" /\ pc' = "series" /\ cursor > MonthOf[end]
  BY DEF EndSeries, run
<1>2. TypeOK' /\ WorldOK' /\ FetchedOK'
  BY <1>1 DEF IInv, TypeOK, WorldOK, FetchedOK, PC
<1>3. ProgressOK'
  <2> SUFFICES ASSUME ~ dated
               PROVE  ProgressOK'
    BY <1>1 DEF ProgressOK
  <2>1. Complete(series)
    <3> SUFFICES ASSUME NEW d \in Days, <<series, d>> \in published, DefaultStart <= d, d < end
                 PROVE  <<series, d>> \in held
      BY DEF Complete
    <3>1. MonthOf[d] < cursor
      <4>1. end \in Days /\ cursor \in Int /\ d \in Int
        BY Calendar DEF IInv, TypeOK, Months
      <4> QED
        BY <1>1, <4>1, Calendar
    <3>2. CompleteBefore(series, cursor)
      BY <1>1 DEF IInv, ProgressOK, InSeries
    <3> QED
      BY <3>1, <3>2 DEF CompleteBefore
  <2> QED
    BY <1>1, <2>1 DEF IInv, ProgressOK, NoHoles, Complete, InSeries
<1>4. DatedOK'
  <2> SUFFICES ASSUME override # None, override <= end
               PROVE  DatedOK'
    BY <1>1 DEF DatedOK
  <2>1. WindowHeld(series, cursor) /\ pc # "idle" /\ InSeries /\ ~ InSeries'
    BY <1>1 DEF IInv, DatedOK, InSeries
  <2>2. WindowHeld(series, MonthOf[end] + 1)
    <3>1. end \in Days /\ cursor \in Int /\ MonthOf[end] \in Int
      BY Calendar DEF IInv, TypeOK, Months
    <3>2. \A d \in Days : MonthOf[d] \in Int
      BY Calendar
    <3>3. \A d \in Days : MonthOf[d] < MonthOf[end] + 1 => MonthOf[d] < cursor
      BY <1>1, <3>1, <3>2
    <3> QED
      BY <2>1, <3>3 DEF WindowHeld
  <2> QED
    BY <1>1, <2>1, <2>2 DEF IInv, DatedOK, WindowHeld
<1> QED
  BY <1>1, <1>2, <1>3, <1>4 DEF IInv

LEMMA ExitStep == IInv /\ Exit => IInv'
<1> SUFFICES ASSUME IInv, Exit PROVE IInv'
  OBVIOUS
<1>1. 1 \in Days
  BY LastDayAssumption DEF Days
<1> QED
  BY <1>1 DEF Exit, IInv, TypeOK, WorldOK, FetchedOK, ProgressOK, DatedOK, NoHoles,
       InSeries, PC, Months

\* The month that is removed is the last one held, so nothing before what remains
\* goes with it.
LEMMA RemoveMonthStep == IInv /\ RemoveMonth => IInv'
<1> SUFFICES ASSUME IInv, RemoveMonth PROVE IInv'
  OBVIOUS
<1>1. UNCHANGED <<today, published, pc, override, end, todo, series, cursor, records, dated>>
      /\ pc = "idle"
  BY DEF RemoveMonth, run
<1>6. PICK s \in Series : \E w \in Watermark(s) : held' = held \ FileOf(s, MonthOf[w])
  BY DEF RemoveMonth
<1>2. PICK w \in Watermark(s) : held' = held \ FileOf(s, MonthOf[w])
  BY <1>6
<1>3. TypeOK' /\ WorldOK' /\ FetchedOK'
  BY <1>1, <1>2 DEF IInv, TypeOK, WorldOK, FetchedOK
<1>4. ASSUME ~ dated
      PROVE  NoHoles'
  <2> SUFFICES ASSUME NEW z \in Series, NEW d \in Days, NEW e \in Days,
                      <<z, d>> \in published, DefaultStart <= d, d < e, <<z, e>> \in held'
               PROVE  <<z, d>> \in held'
    BY <1>1 DEF NoHoles
  <2>1. <<z, e>> \in held /\ <<z, d>> \in held
    BY <1>2, <1>4 DEF IInv, ProgressOK, NoHoles
  <2>2. CASE z = s
    <3>1. w \in Days /\ e <= w
      BY <2>1, <2>2 DEF Watermark, IsLatest, DaysHeld
    <3>2. MonthOf[e] # MonthOf[w]
      BY <1>2, <2>1, <2>2 DEF FileOf
    <3>3. MonthOf[e] <= MonthOf[w] /\ MonthOf[d] <= MonthOf[e]
      BY <3>1, Calendar
    <3>4. MonthOf[d] # MonthOf[w]
      BY <3>1, <3>2, <3>3, MonthAssumption
    <3> QED
      BY <1>2, <2>1, <3>4 DEF FileOf
  <2>3. CASE z # s
    BY <1>2, <2>1, <2>3 DEF FileOf
  <2> QED
    BY <2>2, <2>3
<1>5. ProgressOK'
  BY <1>1, <1>4 DEF IInv, ProgressOK, InSeries
<1>7. DatedOK'
  BY <1>1 DEF DatedOK
<1> QED
  BY <1>1, <1>3, <1>5, <1>7 DEF IInv

LEMMA StepInvariant == IInv /\ [Next]_vars => IInv'
<1> SUFFICES ASSUME IInv, [Next]_vars PROVE IInv'
  OBVIOUS
<1>1. CASE UNCHANGED vars
  BY <1>1 DEF vars, IInv, TypeOK, WorldOK, FetchedOK, ProgressOK, NoHoles, CompleteBefore,
       Complete, DatedOK, WindowHeld, InSeries
<1>2. CASE Publish \/ NextDay
  BY <1>2, PublishStep, NextDayStep
<1>3. CASE Run
  BY <1>3, StartRunStep, BeginSeriesStep, FetchStep, WriteMonthStep, EndSeriesStep, ExitStep
     DEF Run, EndRun
<1>4. CASE Fail \/ RemoveMonth
  BY <1>4, ExitStep, RemoveMonthStep DEF Fail
<1> QED
  BY <1>1, <1>2, <1>3, <1>4 DEF Next

-----------------------------------------------------------------------------
(* Theorems.                                                               *)

\* The inductive invariant, with the type of every variable.
THEOREM Invariance == Spec => []IInv
<1> QED
  BY InitInvariant, StepInvariant, PTL DEF Spec

\* The variables have their types, whatever runs there are.
THEOREM TypeCorrectness == Spec => []TypeOK
<1>1. IInv => TypeOK
  BY DEF IInv
<1> QED
  BY <1>1, Invariance, PTL

\* While no run was given its days, no quote before one that is held is missing: the
\* watermark (bcb_fx.py:60-80, resume_from) can be trusted.
THEOREM NothingBehindTheWatermark == Spec => []NoHoles
<1>1. IInv => NoHoles
  BY DEF IInv, ProgressOK, NoHoles
<1> QED
  BY <1>1, Invariance, PTL

\* A rewrite drops quotes of days after the end of its run only, whatever days the
\* runs were given.
THEOREM RewritesKeepTheWindow == Spec => DropsOnlyAfterEnd
<1>1. IInv /\ [Next]_vars => [\A q \in held \ held' : RemoveMonth \/ q[2] > end]_vars
  <2> SUFFICES ASSUME IInv, Next, NEW q \in held \ held', ~ RemoveMonth, ~ (q[2] > end)
               PROVE  FALSE
    BY DEF vars
  <2>1. WriteMonth
    BY DEF Next, Run, Publish, NextDay, StartRun, BeginSeries, Fetch, EndSeries, EndRun, Fail,
         Exit
  <2>2. q \in Quote /\ q[2] \in Int /\ end \in Int
    BY QuoteParts, Calendar DEF IInv, TypeOK
  <2> QED
    BY <2>1, <2>2, AfterWrite
<1> QED
  BY <1>1, Invariance, PTL DEF Spec, DropsOnlyAfterEnd

\* That a run was given its days is not forgotten.
LEMMA DatedForGood ==
  ASSUME [Next]_vars, ~ dated'
  PROVE  ~ dated
BY DEF Next, Run, Publish, NextDay, StartRun, BeginSeries, Fetch, WriteMonth, EndSeries,
   EndRun, Fail, Exit, RemoveMonth, vars

\* While no run was given its days, only the removal of a month takes a quote away.
LEMMA HeldGrows ==
  ASSUME IInv, [Next]_vars, ~ dated, ~ RemoveMonth
  PROVE  held \subseteq held'
<1> SUFFICES ASSUME NEW q \in held, q \notin held'
             PROVE  FALSE
  OBVIOUS
<1>1. WriteMonth
  BY DEF Next, Run, Publish, NextDay, StartRun, BeginSeries, Fetch, EndSeries, EndRun, Fail,
       Exit, vars
<1>2. q[2] <= end /\ q \in Quote
  BY <1>1 DEF WriteMonth, IInv, ProgressOK, TypeOK
<1> QED
  BY <1>1, <1>2, AfterWrite

\* While no run was given its days, no run loses a quote (write_month replaces a month by
\* all that it had and more).
THEOREM OnlyDatedRunsDrop == Spec => ResumedRunsKeepQuotes
<1>1. IInv /\ [Next]_vars => [RemoveMonth \/ dated \/ held \subseteq held']_vars
  BY HeldGrows
<1> QED
  BY <1>1, Invariance, PTL DEF Spec, ResumedRunsKeepQuotes

\* ... and a run that ends has fetched all there was.
THEOREM ResumedRunsComplete == Spec => RunsComplete
<1>1. IInv /\ [Next]_vars =>
        [EndRun /\ ~ dated => \A s \in Series, d \in Days :
           <<s, d>> \in published /\ DefaultStart <= d /\ d < end => <<s, d>> \in held]_vars
  <2> SUFFICES ASSUME IInv, EndRun, ~ dated, NEW s \in Series, NEW d \in Days,
                      <<s, d>> \in published, DefaultStart <= d, d < end
               PROVE  <<s, d>> \in held
    OBVIOUS
  <2>1. Complete(s)
    BY DEF EndRun, IInv, ProgressOK, InSeries
  <2> QED
    BY <2>1 DEF Complete
<1> QED
  BY <1>1, Invariance, PTL DEF Spec, RunsComplete

\* A run that was given its days and ends has all that was published of the months of
\* those days before the last one, whatever runs of any kind there were before it: a
\* backfill repairs what it is given (bcb_fx.py:153-205).
THEOREM DatedRunsHoldTheirWindow == Spec => DatedRunsComplete
<1>1. IInv /\ [Next]_vars =>
        [EndRun /\ override # None /\ override <= end =>
           \A s \in Series, d \in Days :
             <<s, d>> \in published /\ MonthOf[override] <= MonthOf[d] /\ d < end
               => <<s, d>> \in held]_vars
  <2> SUFFICES ASSUME IInv, EndRun, override # None, override <= end,
                      NEW s \in Series, NEW d \in Days, <<s, d>> \in published,
                      MonthOf[override] <= MonthOf[d], d < end
               PROVE  <<s, d>> \in held
    OBVIOUS
  <2>1. WindowHeld(s, MonthOf[end] + 1)
    BY DEF EndRun, IInv, DatedOK, InSeries
  <2>2. MonthOf[d] < MonthOf[end] + 1
    <3>1. end \in Days /\ end \in Int /\ d \in Int
      BY Calendar DEF IInv, TypeOK
    <3>2. MonthOf[d] <= MonthOf[end] /\ MonthOf[d] \in Int /\ MonthOf[end] \in Int
      BY <3>1, Calendar
    <3> QED
      BY <3>2
  <2> QED
    BY <2>1, <2>2 DEF WindowHeld
<1> QED
  BY <1>1, Invariance, PTL DEF Spec, DatedRunsComplete
=============================================================================
