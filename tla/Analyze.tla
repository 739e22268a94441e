------------------------------- MODULE Analyze ---------------------------------
(***************************************************************************)
(* The offline integration of a recorded run into daily energy and its cost    *)
(* under two contracts: one fold over the rows, in the order they were          *)
(* written, by the time a clock that may be set stamped them with.              *)
(*                                                                          *)
(* Energies are twice what they are, so that a trapezoid's is whole.  A load is *)
(* import where positive and export where negative; so is the battery's flow a  *)
(* discharge and a charge.                                                   *)
(***************************************************************************)
EXTENDS Integers, FiniteSets, FiniteSetsExt

CONSTANTS
  None,
  DayLength, MaxGap,                \* MAX_SAMPLE_GAP
  Grids, Flows, MaxDischarge,       \* what the meter and the battery report
  Prices,                           \* the price of an hour by the feed, None in a gap
  DynamicFee, FixedPrice, FixedCredit,   \* what the contracts add, ask and give back
  MaxNow, MaxRows, MaxSteps         \* what is explored

VARIABLES
  now, steps,          \* the clock the rows are stamped by, and how often it was set
  written,             \* how many rows there are
  battery, previous,   \* the fold's: the last flow, the last meter sample
  days,                \* the totals of each day seen
  span                 \* how long the run has gone on since its first reading

vars == <<now, steps, written, battery, previous, days, span>>

Day(at) == at \div DayLength

Fields == {"covered", "import", "export", "unstored", "charged", "discharged", "aboveCap",
           "priced", "unpriced", "dynamicImport", "dynamicExport", "fixedImport", "fixedExport"}
Zero == [f \in Fields |-> 0]

TypeOK ==
  /\ now \in 0 .. MaxNow /\ steps \in 0 .. MaxSteps /\ written \in 0 .. MaxRows
  /\ battery \in Flows \cup {None}
  /\ previous \in {None} \cup [at : 0 .. MaxNow, grid : Grids, flow : Flows \cup {None}]
  /\ \A d \in DOMAIN days : DOMAIN days[d] = Fields /\ \A f \in Fields : days[d][f] \in Int
  /\ span \in Nat

Init ==
  /\ now = 0 /\ steps = 0 /\ written = 0
  /\ battery = None /\ previous = None /\ days = <<>> /\ span = 0

-----------------------------------------------------------------------------
(* What a sample says; with no battery polled yet, nothing of a battery.     *)

Positive(w) == IF w > 0 THEN w ELSE 0
Import(s) == Positive(s.grid)
Export(s) == Positive(-s.grid)
Charging(s) == IF s.flow = None THEN 0 ELSE Positive(-s.flow)
Discharging(s) == IF s.flow = None THEN 0 ELSE Positive(s.flow)

\* Mutant: a battery nobody has polled is an idle one.
UnstoredByDefault(s) == IF Charging(s) > 0 THEN 0 ELSE Export(s)
\* What went to the grid while the battery took nothing.
Unstored(s) == IF s.flow = None \/ Charging(s) > 0 THEN 0 ELSE Export(s)

AboveCap(s) == IF s.flow = None THEN 0 ELSE Positive(s.grid + s.flow - MaxDischarge)

Trapezoid(before, after, dt) == (before + after) * dt

\* Mutant: a span that runs backwards counts as one that runs forwards.
SpanEitherWay(s, t) ==
  LET dt == IF t >= s THEN t - s ELSE s - t IN IF dt <= MaxGap THEN dt ELSE None
\* `span_within`: none across a gap, and none backwards.
Span(s, t) == IF t - s \in 0 .. MaxGap THEN t - s ELSE None

Billed(energy, price, fee) == IF price = None THEN 0 ELSE energy * (price + fee)
\* Mutant: the fixed contract is billed for what has no price as well.
FixedAlways(energy, price, rate) == energy * rate
\* Only the time with a price is costed, under either contract.
Fixed(energy, price, rate) == IF price = None THEN 0 ELSE energy * rate

\* `accumulate`, for the day the span starts in and at the price of its start.
Accumulated(total, s, t, dt) ==
  LET import == Trapezoid(Import(s), Import(t), dt)
      export == Trapezoid(Export(s), Export(t), dt)
      price == Prices[s.at % DayLength]
      known == price # None
  IN [covered |-> total.covered + dt,
      import |-> total.import + import,
      export |-> total.export + export,
      unstored |-> total.unstored + Trapezoid(Unstored(s), Unstored(t), dt),
      charged |-> total.charged + Trapezoid(Charging(s), Charging(t), dt),
      discharged |-> total.discharged + Trapezoid(Discharging(s), Discharging(t), dt),
      aboveCap |-> total.aboveCap + Trapezoid(AboveCap(s), AboveCap(t), dt),
      priced |-> total.priced + IF known THEN dt ELSE 0,
      unpriced |-> total.unpriced + IF known THEN 0 ELSE dt,
      dynamicImport |-> total.dynamicImport + Billed(import, price, DynamicFee),
      dynamicExport |-> total.dynamicExport + Billed(export, price, 0),
      fixedImport |-> total.fixedImport + Fixed(import, price, FixedPrice),
      fixedExport |-> total.fixedExport + Fixed(export, price, FixedCredit)]

\* Entered on sight, so that a day of gaps still shows.
Entered(day) == [d \in DOMAIN days \cup {day} |-> IF d \in DOMAIN days THEN days[d] ELSE Zero]

Counted(s, t) ==
  LET seen == Entered(Day(t.at))
  IN IF s = None \/ Span(s.at, t.at) = None THEN seen
     ELSE [seen EXCEPT ![Day(s.at)] = Accumulated(@, s, t, Span(s.at, t.at))]

-----------------------------------------------------------------------------

MeterRow ==
  /\ written < MaxRows /\ written' = written + 1
  /\ \E g \in Grids :
       LET sample == [at |-> now, grid |-> g, flow |-> battery]
       IN days' = Counted(previous, sample) /\ previous' = sample
  /\ UNCHANGED <<now, steps, battery, span>>

BatteryRow ==
  /\ written < MaxRows /\ written' = written + 1
  /\ battery' \in Flows
  /\ UNCHANGED <<now, steps, previous, days, span>>

Passes ==
  /\ now < MaxNow /\ now' = now + 1
  /\ span' = IF previous = None THEN 0 ELSE span + 1
  /\ UNCHANGED <<steps, written, battery, previous, days>>

\* The recording host's clock is set back.
StepsBack ==
  /\ steps < MaxSteps /\ steps' = steps + 1
  /\ now' \in {now - 1, now - 2} \cap Nat
  /\ UNCHANGED <<written, battery, previous, days, span>>

Next == MeterRow \/ BatteryRow \/ Passes \/ StepsBack

Spec == Init /\ [][Next]_vars

-----------------------------------------------------------------------------
(* Properties.                                                               *)

Over(f) == FoldSet(LAMBDA d, sum : sum + days[d][f], 0, DOMAIN days)

\* No moment of the run is integrated twice, not where the clock was set back and
\* the same times came again.
NothingTwice == Over("covered") <= span

\* Unstored export is export the battery is known not to have taken: with nothing
\* polled yet there is none, and no day shows more of it than it exported.
UnstoredIsKnown ==
  /\ \A d \in DOMAIN days : days[d].unstored <= days[d].export
  /\ battery = None => Over("unstored") = 0

\* The two contracts are compared over the same energy: of what a day took in there
\* is one part that the fixed contract bills at its rate and the dynamic one at prices
\* the feed gave, whatever hours had none, and so of what it gave back.
SameEnergyBilled ==
  LET known == {Prices[h] : h \in DOMAIN Prices} \ {None}
  IN \A d \in DOMAIN days :
       LET t == days[d]
       IN /\ \E bought \in 0 .. t.import :
               /\ t.fixedImport = bought * FixedPrice
               /\ bought * (Min(known) + DynamicFee) <= t.dynamicImport
               /\ t.dynamicImport <= bought * (Max(known) + DynamicFee)
          /\ \E sold \in 0 .. t.export :
               /\ t.fixedExport = sold * FixedCredit
               /\ sold * Min(known) <= t.dynamicExport
               /\ t.dynamicExport <= sold * Max(known)
          /\ t.priced + t.unpriced = t.covered

\* A day's totals: each moment once, nothing assumed, and both contracts alike.
TotalsFair == TypeOK /\ NothingTwice /\ UnstoredIsKnown /\ SameEnergyBilled
=============================================================================
