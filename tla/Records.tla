-------------------------------- MODULE Records ---------------------------------
(***************************************************************************)
(* What is kept of what the program measured and decided: the price series,    *)
(* the past days' cache, the decision log, the totals of a recorded run and     *)
(* the efficiency window.  They share nothing, so a behaviour runs one of       *)
(* them, `which`, and leaves the variables of the others at their start.       *)
(***************************************************************************)
EXTENDS Integers, Sequences

CONSTANTS
  Components,        \* what runs: these five and whatever else a run takes in
  None, Torn,
  DayStart, HistoryDays, BackfillDays, PriceLevels, PriceRows,
  DayLength, Settle, Retention, Capacity, Requests, PastDaysNow, MaxFailures,
  LogCapacity, Commands, Pages, MaxDecisions, MaxFetches,
  RunDayLength, MaxGap, RunGrids, RunFlows, MaxDischarge, Feed, DynamicFee, FixedPrice, FixedCredit,
  RunNow, RunRows, RunSteps,
  Window, RteNow, RteSteps, MaxCrashes

VARIABLES
  which,
  priceNow, priceRows, priceLost, phase, covered, todo, today, fetch, points, latest, short,
  pastNow, queued, pastRows, cache, request, failures,
  recorded, dropped, running, log, lastDecision, prices, folded, page,
  runNow, runSteps, written, battery, previous, days, span,
  rteNow, offset, rteSteps, up, started, samples, last, file, rteStepped, crashes

PriceSeries ==
  INSTANCE Prices WITH
    Levels <- PriceLevels, MaxRows <- PriceRows,
    now <- priceNow, rows <- priceRows, lost <- priceLost, request <- fetch
PastDays  == INSTANCE PastDays WITH MaxNow <- PastDaysNow, now <- pastNow, rows <- pastRows
Dashboard == INSTANCE Dashboard WITH lost <- dropped
Analyze ==
  INSTANCE Analyze WITH
    DayLength <- RunDayLength, Grids <- RunGrids, Flows <- RunFlows, Prices <- Feed,
    MaxNow <- RunNow, MaxRows <- RunRows, MaxSteps <- RunSteps, now <- runNow, steps <- runSteps
Rte ==
  INSTANCE Rte WITH
    MaxNow <- RteNow, MaxSteps <- RteSteps, now <- rteNow, steps <- rteSteps, stepped <- rteStepped

\* The past days' constants: a cache that holds something, days that have a length.
ASSUME PastDaysAssumption ==
  /\ DayLength \in Nat \ {0} /\ Settle \in Nat /\ Capacity \in Nat \ {0}
  /\ PastDaysNow \in Nat /\ MaxFailures \in Nat

\* The prices': a calendar whose days have hours, with room for the days shown and
\* fetched; no request is taken for none.
ASSUME PricesAssumption ==
  /\ DayStart \in Seq(Nat) /\ DayStart[1] = 0
  /\ \A i, j \in 1 .. Len(DayStart) : i < j => DayStart[i] < DayStart[j]
  /\ HistoryDays \in Nat /\ BackfillDays \in Nat
  /\ HistoryDays + BackfillDays + 1 < Len(DayStart)
  /\ None \notin [from : Int, until : Int]

\* The efficiency's constants: no poll is taken for none.
ASSUME RteAssumption ==
  /\ Window \in Nat /\ RteNow \in Nat /\ RteSteps \in Nat /\ MaxCrashes \in Nat
  /\ None \notin [at : Int, unix : Int]

\* The dashboard's: a log that holds a row.
ASSUME DashboardAssumption == LogCapacity \in Nat \ {0} /\ MaxDecisions \in Nat /\ MaxFetches \in Nat

\* The analysis's: readings and tariffs are whole numbers of either sign, and the feed
\* gave a price, or no costs are worked out at all.
ASSUME AnalyzeAssumption ==
  /\ RunDayLength \in Nat \ {0} /\ MaxGap \in Nat
  /\ RunGrids \subseteq Int /\ RunFlows \subseteq Int
  /\ MaxDischarge \in Int /\ DynamicFee \in Int /\ FixedPrice \in Int /\ FixedCredit \in Int
  /\ Feed \in [0 .. RunDayLength - 1 -> Int \cup {None}]
  /\ \E h \in DOMAIN Feed : Feed[h] # None
  /\ None \notin Int /\ None \notin [at : Int, grid : Int, flow : Int \cup {None}]
  /\ RunNow \in Nat /\ RunRows \in Nat /\ RunSteps \in Nat

priceVars     == <<priceNow, priceRows, priceLost, phase, covered, todo, today, fetch, points, latest, short>>
pastVars      == <<pastNow, queued, pastRows, cache, request, failures>>
dashboardVars == <<recorded, dropped, running, log, lastDecision, prices, folded, page>>
runVars       == <<runNow, runSteps, written, battery, previous, days, span>>
rteVars       == <<rteNow, offset, rteSteps, up, started, samples, last, file, rteStepped, crashes>>

vars == <<which, priceVars, pastVars, dashboardVars, runVars, rteVars>>

Init ==
  /\ which \in Components
  /\ PriceSeries!Init /\ PastDays!Init /\ Dashboard!Init /\ Analyze!Init /\ Rte!Init

Next ==
  \/ /\ which = "prices" /\ PriceSeries!Next
     /\ UNCHANGED <<which, pastVars, dashboardVars, runVars, rteVars>>
  \/ /\ which = "past days" /\ PastDays!Next
     /\ UNCHANGED <<which, priceVars, dashboardVars, runVars, rteVars>>
  \/ /\ which = "dashboard" /\ Dashboard!Next
     /\ UNCHANGED <<which, priceVars, pastVars, runVars, rteVars>>
  \/ /\ which = "analysis" /\ Analyze!Next
     /\ UNCHANGED <<which, priceVars, pastVars, dashboardVars, rteVars>>
  \/ /\ which = "efficiency" /\ Rte!Next
     /\ UNCHANGED <<which, priceVars, pastVars, dashboardVars, runVars>>

Spec == Init /\ [][Next]_vars

-----------------------------------------------------------------------------
(* Properties: stated and explained in the modules.                           *)

\* prices/mod.rs: no price is lost to a restart or out of date, and no past day half
\* priced.
PricesKept == PriceSeries!PricesKept

\* past_days.rs: no cached day lacks a row of its journal or outlives the days it
\* was drawn against.
CacheFresh == PastDays!CacheFresh

\* web/state.rs, sse.rs: one row for each run of a command, over restarts, and a page
\* that is up to date shows it.
LogKept == Dashboard!LogKept

\* analyze.rs: each moment once, unstored export known, both contracts alike.
TotalsFair == Analyze!TotalsFair

\* rte.rs: no moment counted twice over restarts, none older than the window.
WindowKept == Rte!WindowKept
=================================================================================
