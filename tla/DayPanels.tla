------------------------------- MODULE DayPanels -------------------------------
(***************************************************************************)
(* Two panels of the dashboard over the same quarters of an hour: the solar     *)
(* forecast beside what was measured, and the energy flows, each drawn over a    *)
(* local day of its real length. The clock goes on, the loop folds meter         *)
(* readings, and a fetch replaces the forecast; a view is an operator of that.   *)
(*                                                                          *)
(* Time is in quarters from a midnight. A level is a multiple of what every       *)
(* mean divides by.                                                           *)
(***************************************************************************)
EXTENDS Integers, FiniteSets, FiniteSetsExt

CONSTANTS
  None,
  DayStart,                    \* the midnights, one more than there are days
  SlotSpan, HourSpan,          \* SOLAR_SLOT and HOUR, in quarters
  QuarterRing,                 \* INTERVAL_RING
  ScaleStep, AxisSteps,        \* SCALE_STEP, and MAX_STEPS
  Readings, Forecasts,         \* the readings and the fetches that are explored
  LastQuarter, MaxReadings

VARIABLES
  quarter,                     \* now
  measured,                    \* the quarters read in: how often, and what they add up to
  newest,                      \* the latest quarter read in
  forecast                     \* the cached points

vars == <<quarter, measured, newest, forecast>>

Days     == 1 .. Cardinality(DOMAIN DayStart) - 1
Quarters == 0 .. LastQuarter
Nothing  == [count |-> 0, solar |-> 0, grid |-> 0]

TypeOK ==
  /\ quarter \in Quarters /\ newest \in Quarters \cup {None}
  /\ DOMAIN measured = Quarters
  /\ \A q \in Quarters : measured[q].count \in 0 .. MaxReadings /\ measured[q].solar >= 0
  /\ forecast \in Forecasts

Init ==
  /\ quarter = 0 /\ newest = None
  /\ measured = [q \in Quarters |-> Nothing]
  /\ forecast \in Forecasts

-----------------------------------------------------------------------------
(* plot.rs, intervals.rs: the slots of a day, and the mean of what was read.   *)

Starts(day, span) ==
  {DayStart[day] + k * span : k \in 0 .. (DayStart[day + 1] - DayStart[day]) \div span - 1}

Today == Max({day \in Days : DayStart[day] <= quarter})

Mean(sum, count) == IF count = 0 THEN None ELSE sum \div count

Total(Value(_), S) == MapThenSumSet(Value, S)

MeanOver(Value(_), S) == Mean(Total(Value, S), Cardinality(S))

\* Mutant: a ring of a 24-hour day, where the longest has 25.
BucketShort(q) == IF newest # None /\ q \in newest - QuarterRing + 2 .. newest THEN measured[q] ELSE Nothing
Bucket(q) == IF newest # None /\ q \in newest - QuarterRing + 1 .. newest THEN measured[q] ELSE Nothing

-----------------------------------------------------------------------------
(* solar_day.rs                                                              *)

\* `bucketed`. Mutant: a point before the day divides into its first slot.
PointsTruncated(day, start) ==
  {p \in forecast : /\ p.at < start + SlotSpan
                    /\ p.at > (IF start = DayStart[day] THEN start - SlotSpan ELSE start - 1)}
Points(day, start) == {p \in forecast : p.at \in start .. start + SlotSpan - 1}

Expected(day, start) == MeanOver(LAMBDA p : p.estimate, Points(day, start))

\* `actual_over`: pooled over the readings of the slot's quarters. Tomorrow has none.
Actual(day, start) ==
  LET read == start .. start + SlotSpan - 1
  IN IF day # Today THEN None
     ELSE Mean(Total(LAMBDA q : Bucket(q).solar, read), Total(LAMBDA q : Bucket(q).count, read))

Power(level) == IF level = None THEN 0 ELSE level

\* Mutant: a tomorrow with any forecast at all is shown.
WholeAny(day) == \E start \in Starts(day, SlotSpan) : Expected(day, start) # None
Whole(day) == \A start \in Starts(day, SlotSpan) : Expected(day, start) # None

-----------------------------------------------------------------------------
(* solar.rs, day_nav.rs                                                      *)

Latest  == IF Today + 1 \in Days /\ Whole(Today + 1) THEN Today + 1 ELSE Today
Waiting == \A start \in Starts(Today, SlotSpan) : Expected(Today, start) = None

\* Mutant: a link is followed wherever it leads.
ResolveAny(asked) == IF asked = None THEN Today ELSE asked
Resolve(asked) ==
  IF asked = None THEN Today ELSE IF asked < Today THEN Today ELSE IF asked > Latest THEN Latest ELSE asked

\* The days the steps beside a shown day lead to.
Nav(shown) == {d \in {shown - 1, shown + 1} : d \in Today .. Latest}

Current == Max({start \in Starts(Today, SlotSpan) : start <= quarter})

\* How much of a slot is over, and how much is to come. Mutant: the slot in progress
\* is all still to come.
AheadWhole(start) == IF start < Current THEN 0 ELSE SlotSpan
AheadOf(start) ==
  IF start < Current THEN 0 ELSE IF start = Current THEN SlotSpan - (quarter - Current) ELSE SlotSpan
Elapsed(start) == IF start < Current THEN SlotSpan ELSE quarter - Current

\* `today_stats`: So far, against the forecast of the same slots, and Still expected.
Stats ==
  LET slots == Starts(Today, SlotSpan)
      read  == {start \in slots : start <= Current /\ Actual(Today, start) # None}
  IN [actual   |-> Total(LAMBDA start : Actual(Today, start) * Elapsed(start), read),
      forecast |-> Total(LAMBDA start : Power(Expected(Today, start)) * Elapsed(start), read),
      expected |-> Total(LAMBDA start : Power(Expected(Today, start)) * AheadOf(start), slots)]

\* `peak_stat`: the first of the day's busiest slots, None on a day without sun.
Peak(day) ==
  LET high == Max({Power(Expected(day, start)) : start \in Starts(day, SlotSpan)})
  IN IF high = 0 THEN None ELSE Min({s \in Starts(day, SlotSpan) : Power(Expected(day, s)) = high})

CeilDiv(a, b) == (a + b - 1) \div b

\* Every figure a day of the solar panel draws.
Drawn(day) ==
  UNION {{Expected(day, start), Actual(day, start)} : start \in Starts(day, SlotSpan)} \ {None}

\* `scale_top`. Mutant: fitted to the day that is shown.
ScaleTopOf(shown) == ScaleStep * Max({1, CeilDiv(Max({0} \cup Drawn(shown)), ScaleStep)})
ScaleTop(shown) ==
  ScaleStep * Max({1, CeilDiv(Max({0} \cup UNION {Drawn(day) : day \in Today .. Latest}), ScaleStep)})

\* `actual_path`: a point for each slot that is over and was measured.
Line ==
  {<<start, Actual(Today, start)>> :
     start \in {s \in Starts(Today, SlotSpan) : s + SlotSpan <= quarter /\ Actual(Today, s) # None}}

-----------------------------------------------------------------------------
(* flows.rs                                                                  *)

\* `completed_on`, `quarter_slots`: a quarter of today that is over.
Quarter(q) == IF q < quarter THEN Mean(Bucket(q).grid, Bucket(q).count) ELSE None

QuartersOf(start) == {q \in start .. start + HourSpan - 1 : Quarter(q) # None}

\* `hour_slots`, `merged`. Mutant: an hour is drawn from its first quarter on.
HourEager(start) == MeanOver(Quarter, QuartersOf(start))
Hour(start) == IF start + HourSpan <= quarter THEN MeanOver(Quarter, QuartersOf(start)) ELSE None

FlowBars ==
  ({<<q, "quarter", Quarter(q)>> : q \in Starts(Today, 1)}
     \cup {<<h, "hour", Hour(h)>> : h \in Starts(Today, HourSpan)})
  \ ({<<q, "quarter", None>> : q \in Starts(Today, 1)}
       \cup {<<h, "hour", None>> : h \in Starts(Today, HourSpan)})

\* The steps of `power_step` on either side of zero. Mutant: whole steps are enough.
StepsWhole(step, extent) == extent \div step
Steps(step, extent) == CeilDiv(extent, step)

\* `FlowScale::fitting`: the finest step that keeps the axis short. The code doubles
\* on for ever; four steps reach past every level explored.
FlowScale ==
  LET flows == {0} \cup ({Quarter(q) : q \in Starts(Today, 1)} \ {None})
      above(step) == Max({1, Steps(step, Max(flows))})
      below(step) == Steps(step, -Min(flows))
      step == Min({s \in {ScaleStep, 2 * ScaleStep, 4 * ScaleStep, 8 * ScaleStep} :
                     above(s) + below(s) <= AxisSteps})
  IN [top |-> step * above(step), bottom |-> -step * below(step), step |-> step]

-----------------------------------------------------------------------------

Count == Total(LAMBDA q : measured[q].count, Quarters)

\* The quarter a reading is counted in: the loop's, which the panels are drawn at.
\* Mutant: that of the sample.
IndexOfSample(sampled) == sampled
Index(sampled) == quarter

\* `IntervalHistory::record` of a meter event.
MeterTick ==
  /\ Count < MaxReadings
  /\ \E r \in Readings, sampled \in {quarter - 1, quarter} \cap Quarters :
       measured' = [measured EXCEPT ![Index(sampled)] =
                      [count |-> @.count + 1, solar |-> @.solar + r.solar, grid |-> @.grid + r.grid]]
  /\ newest' = quarter
  /\ UNCHANGED <<quarter, forecast>>

QuarterPasses ==
  /\ quarter < LastQuarter
  /\ quarter' = quarter + 1
  /\ UNCHANGED <<measured, newest, forecast>>

\* The poller's fetch takes the place of the series.
Fetches ==
  /\ forecast' \in Forecasts \ {forecast}
  /\ UNCHANGED <<quarter, measured, newest>>

Next == MeterTick \/ QuarterPasses \/ Fetches

Spec == Init /\ [][Next]_vars

-----------------------------------------------------------------------------
(* Properties.                                                               *)

\* So far and Still expected split at the moment it is, whatever was measured and
\* however long the day: a quarter of a forecast counts in exactly one of them, but
\* for what is over of a slot nobody measured, which counts in neither.
SplitsAtNow ==
  LET slot(q) == Max({s \in Starts(Today, SlotSpan) : s <= q})
      level(q) == Power(Expected(Today, slot(q)))
      over == {q \in Starts(Today, 1) : q < quarter}
  IN ~Waiting =>
       /\ Stats.forecast = Total(level, {q \in over : Actual(Today, slot(q)) # None})
       /\ Stats.expected = Total(level, Starts(Today, 1) \ over)

\* Each point of a fetch, misaligned ones and those about midnight included, is
\* averaged into one slot of the day it falls in and no other.
PointsOnce ==
  \A p \in forecast :
    Cardinality({slot \in UNION {{d} \X Starts(d, SlotSpan) : d \in Days} : p \in Points(slot[1], slot[2])}) = 1

\* Whatever link is followed and whenever it was made, the panel shows today, or a
\* tomorrow without a gap in it, and every step it offers leads to the day it names.
LinksLand ==
  \A asked \in Days \cup {None} :
    LET shown == Resolve(asked) IN
      /\ shown # Today => \A s \in Starts(shown, SlotSpan) : Expected(shown, s) # None
      /\ shown \in {Today, Today + 1}
      /\ \A d \in Nav(shown) : Resolve(d) = d /\ shown \in Nav(d)

\* Stepping between today and tomorrow does not rescale the bars, and none is
\* higher than the scale.
OneScale ==
  \A shown \in Today .. Latest :
    /\ ScaleTop(shown) = ScaleTop(Today)
    /\ \A level \in Drawn(shown) : level <= ScaleTop(shown)
    /\ Peak(shown) # None => \A s \in Starts(shown, SlotSpan) :
                               Power(Expected(shown, s)) <= Expected(shown, Peak(shown))

\* The ring still has every quarter of today, to the last of the longest day.
TodayInRing ==
  newest # None => \A q \in Starts(Today, 1) : q <= newest => Bucket(q) = measured[q]

\* Hour and quarter bars are all within one axis, fitted to the quarters, that has
\* zero on it and no more steps than it may.
BarsFit ==
  /\ \A bar \in FlowBars : bar[3] \in FlowScale.bottom .. FlowScale.top
  /\ FlowScale.top - FlowScale.bottom <= AxisSteps * FlowScale.step
  /\ \A h \in Starts(Today, HourSpan) : Hour(h) # None =>
       \E p, q \in QuartersOf(h) : Quarter(p) <= Hour(h) /\ Hour(h) <= Quarter(q)

\* What is drawn of a slot that is over stays as it is for the rest of the day, as
\* readings come in and time goes on, however late a sample reaches the loop: "its
\* measurement is whole".
DrawnStays ==
  [][(measured' # measured \/ quarter' # quarter) /\ Today' = Today
       => Line \subseteq Line' /\ FlowBars \subseteq FlowBars']_vars

\* What the day panels show.
DayShown ==
  TypeOK /\ SplitsAtNow /\ PointsOnce /\ LinksLand /\ OneScale /\ TodayInRing /\ BarsFit
================================================================================
