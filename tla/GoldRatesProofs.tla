-------------------------- MODULE GoldRatesProofs ---------------------------
(***************************************************************************)
(* Proofs about GoldRates: what the extractor keeps is what makes the test *)
(* of the tail enough.                                                     *)
(***************************************************************************)
EXTENDS GoldRates, FxExtractorProofs

\* A step of gold is a step of the extractor or none of its concern.
LEMMA GoldStepOfExtractor == [GoldNext]_<<vars, goldVars>> => [Next]_vars
BY DEF GoldNext, Extract, Pay, TestRates, BuildFact, vars

\* What covers the payments goes on to cover them when more is held.
LEMMA TailStaysCovered ==
  ASSUME NoMissingTail, held \subseteq held', payments' = payments
  PROVE  NoMissingTail'
BY DEF NoMissingTail, DaysHeld

LEMMA GoldStepInvariant == GoldInv /\ [GoldNext]_<<vars, goldVars>> => GoldInv'
<1> SUFFICES ASSUME GoldInv, [GoldNext]_<<vars, goldVars>>
             PROVE  GoldInv'
  OBVIOUS
<1>1. IInv'
  BY GoldStepOfExtractor, StepInvariant DEF GoldInv
<1>2. GoldTypeOK'
  <2>1. CASE Pay
    <3>1. PICK c \in Series, d \in 1 .. today : payments' = payments \cup {<<c, d>>}
      BY <2>1 DEF Pay
    <3>2. d \in Days
      BY LastDayAssumption DEF Days, GoldInv, IInv, TypeOK
    <3> QED
      BY <2>1, <3>1, <3>2 DEF Pay, GoldInv, GoldTypeOK, Quote
  <2>2. CASE BuildFact
    <3>1. \A p \in payments : p[1] \in Series /\ p[2] \in Days /\ RateOf(p) \in {"published", "one"}
      BY QuoteParts DEF GoldInv, GoldTypeOK, RateOf
    <3> QED
      BY <2>2, <3>1 DEF BuildFact, GoldInv, GoldTypeOK, Row
  <2> QED
    BY <2>1, <2>2 DEF GoldNext, Extract, TestRates, GoldInv, GoldTypeOK, goldVars
<1>3. ASSUME ~ dated', build' = "tested"
      PROVE  NoMissingTail'
  <2>0. ~ dated
    BY <1>3, GoldStepOfExtractor, DatedForGood
  <2>1. CASE TestRates
    BY <2>1 DEF TestRates, NoMissingTail, DaysHeld, vars
  <2>2. CASE build = "tested" /\ ~ TestRates
    <3>1. payments' = payments
      BY <1>3, <2>2 DEF GoldNext, Extract, Pay, BuildFact, goldVars
    <3>2. held \subseteq held'
      <4>1. CASE Extract
        BY <2>0, <2>2, <4>1, HeldGrows DEF Extract, GoldInv
      <4>2. CASE ~ Extract
        BY <2>2, <4>2 DEF GoldNext, Pay, BuildFact, vars
      <4> QED
        BY <4>1, <4>2
    <3> QED
      BY <2>0, <2>2, <3>1, <3>2, TailStaysCovered DEF GoldInv
  <2> QED
    BY <1>3, <2>1, <2>2 DEF GoldNext, Extract, Pay, BuildFact, goldVars
<1> QED
  BY <1>1, <1>2, <1>3 DEF GoldInv

\* The inductive invariant of gold: what fx_covers_the_payments.sql found of silver and
\* the rates still holds when the facts are built, as silver stays and the files only grow.
THEOREM GoldInvariance == GoldSpec => []GoldInv
<1>1. GoldInit => GoldInv
  BY InitInvariant DEF GoldInit, GoldInv, GoldTypeOK
<1> QED
  BY <1>1, GoldStepInvariant, PTL DEF GoldSpec

\* The extractor within gold behaves as the extractor alone.
THEOREM ExtractorAlone == GoldSpec => Spec
<1>1. GoldInit => Init
  BY DEF GoldInit
<1> QED
  BY <1>1, GoldStepOfExtractor, PTL DEF GoldSpec, Spec

\* While all runs resume from the watermark, a fact table that was built misses no
\* published rate but of the last days before the newest payment (fct_payment.sql joins
\* what fx_covers_the_payments.sql tested before).
THEOREM FactsMissOnlyTheTail == GoldSpec => MissesOnlyTheTail
<1>1. GoldInv /\ [GoldNext]_<<vars, goldVars>> =>
        [BuildFact /\ ~ dated =>
           \A r \in fact', q \in payments :
             /\ r.rate = "one" /\ <<r.currency, r.day>> \in published /\ DefaultStart <= r.day
             /\ q[1] = r.currency
             => q[2] - r.day < MaxGap]_<<vars, goldVars>>
  <2> SUFFICES ASSUME GoldInv, BuildFact, ~ dated, NEW r \in fact', NEW q \in payments,
                      r.rate = "one", <<r.currency, r.day>> \in published,
                      DefaultStart <= r.day, q[1] = r.currency
               PROVE  q[2] - r.day < MaxGap
    OBVIOUS
  <2> PICK p \in payments : r = [currency |-> p[1], day |-> p[2], rate |-> RateOf(p)]
    BY DEF BuildFact
  <2>0. r.currency = p[1] /\ r.day = p[2] /\ p \notin held
    BY DEF RateOf
  <2>1. NoMissingTail /\ p \in Quote /\ q \in Quote
    BY DEF BuildFact, GoldInv, GoldTypeOK
  <2>2. PICK d \in DaysHeld(p[1]) : q[2] - d <= MaxGap
    BY <2>0, <2>1 DEF NoMissingTail
  <2>3. d \in Days /\ <<p[1], d>> \in held
    BY DEF DaysHeld
  <2>4. p = <<p[1], p[2]>> /\ p[1] \in Series /\ p[2] \in Days /\ q[2] \in Days
    BY <2>1, QuoteParts
  <2>5. p[2] \in Int /\ q[2] \in Int /\ d \in Int
    BY <2>3, <2>4, Calendar
  <2>6. ~ (p[2] < d)
    BY <2>0, <2>3, <2>4 DEF GoldInv, IInv, ProgressOK, NoHoles
  <2>7. p[2] # d
    BY <2>0, <2>3, <2>4
  <2> QED
    BY <2>0, <2>2, <2>5, <2>6, <2>7, GapAssumption
<1> QED
  BY <1>1, GoldInvariance, PTL DEF GoldSpec, MissesOnlyTheTail
=============================================================================
