----------------------------- MODULE GoldRates ------------------------------
(***************************************************************************)
(* The exchange rates in gold: `dbt build` over the files of FxExtractor,  *)
(* while the extractor goes on. It runs a test on its sources first        *)
(* (tests/fx_covers_the_payments.sql) and then, if that passes, builds     *)
(* fct_payment, which joins each payment to the rate of its day. Both read *)
(* the files through a view (stg_fx_rates), each at its own time.          *)
(*                                                                         *)
(* Payments are those of foreign currencies, not deleted, that silver      *)
(* holds; their amounts are left out.                                      *)
(***************************************************************************)
EXTENDS FxExtractor

CONSTANTS
  MaxGap,       \* fx_max_gap_days
  MaxPayments   \* payments made (bound)

ASSUME GapAssumption == MaxGap \in Nat /\ MaxPayments \in Nat

VARIABLES
  payments,  \* the currencies and days of the payments in silver
  build,     \* whether the test has passed and fct_payment is still to be built
  fact       \* the rows of fct_payment

goldVars == <<payments, build, fact>>

Row == [currency : Series, day : Days, rate : {"published", "one"}]

GoldTypeOK == payments \subseteq Quote /\ build \in {"idle", "tested"} /\ fact \subseteq Row

GoldInit == Init /\ payments = {} /\ build = "idle" /\ fact = {}

PayDuringBuild ==   \* a bug: silver may be built while gold is
  /\ Cardinality(payments) < MaxPayments
  /\ \E c \in Series, d \in 1 .. today : payments' = payments \cup {<<c, d>>}
  /\ UNCHANGED <<vars, build, fact>>

\* A payment is made today, or one made before arrives late, and reaches silver.
\* Silver is built before gold, not while it is.
Pay ==
  /\ build = "idle"
  /\ Cardinality(payments) < MaxPayments
  /\ \E c \in Series, d \in 1 .. today : payments' = payments \cup {<<c, d>>}
  /\ UNCHANGED <<vars, build, fact>>

IsNextHeld(d, e, c) ==
  d \in DaysHeld(c) /\ e \in DaysHeld(c) /\ d < e /\ \A x \in DaysHeld(c) : x <= d \/ e <= x

NoInteriorGap == \A c \in Series, d, e \in Days : IsNextHeld(d, e, c) => e - d <= MaxGap

NoQuoteAtAll ==   \* a bug: a currency is left out if it has a quote
  \A c \in {p[1] : p \in payments} : DaysHeld(c) # {}

\* The newest quote of each currency that is paid in is not much older than its
\* newest payment.
NoMissingTail ==
  \A c \in {p[1] : p \in payments} :
    \E d \in DaysHeld(c) : \A p \in payments : p[1] = c => p[2] - d <= MaxGap

\* fx_covers_the_payments passes. If it does not, what depends on its sources is
\* skipped, and fct_payment stays as it was.
TestRates ==
  /\ build = "idle"
  /\ NoInteriorGap /\ NoMissingTail
  /\ build' = "tested"
  /\ UNCHANGED <<vars, payments, fact>>

\* fct_payment: coalesce(rate_brl, 1) over a left join.
RateOf(p) == IF p \in held THEN "published" ELSE "one"

BuildFact ==
  /\ build = "tested"
  /\ fact' = {[currency |-> p[1], day |-> p[2], rate |-> RateOf(p)] : p \in payments}
  /\ build' = "idle"
  /\ UNCHANGED <<vars, payments>>

\* The extractor, at any time; a month is removed by hand before gold is rebuilt.
Extract ==
  /\ Next
  /\ RemoveMonth => build = "idle"
  /\ UNCHANGED goldVars

GoldNext == Extract \/ Pay \/ TestRates \/ BuildFact

GoldSpec == GoldInit /\ [][GoldNext]_<<vars, goldVars>>

-----------------------------------------------------------------------------
(* Properties.                                                             *)

\* While all runs of the extractor are resumed ones, a fact table that was built has
\* converted at 1, of the payments whose rate the central bank has published, only those
\* of the last days before the newest payment of their currency: a month that is missing
\* from the files, or that the extractor has not come to, does not reach the facts.
MissesOnlyTheTail ==
  [][BuildFact /\ ~ dated =>
       \A r \in fact', q \in payments :
         /\ r.rate = "one" /\ <<r.currency, r.day>> \in published /\ DefaultStart <= r.day
         /\ q[1] = r.currency
         => q[2] - r.day < MaxGap]_<<vars, goldVars>>

-----------------------------------------------------------------------------
(* The inductive invariant: what the test found still holds when the facts *)
(* are built, as silver stays and the files only grow.                     *)

GoldInv ==
  /\ IInv /\ GoldTypeOK
  /\ ~ dated /\ build = "tested" => NoMissingTail
=============================================================================
