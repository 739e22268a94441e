----------------------------- MODULE VirtualBattery -----------------------------
(***************************************************************************)
(* The simulated battery of simulation.rs: a ramp that is a function of       *)
(* absolute time, and a store that integrates it.  A battery is a record and   *)
(* every operation takes the instant it happens at.                            *)
(*                                                                          *)
(* A flow is discharging above zero and charging below, as on the meter.  The   *)
(* energy of a ramp over a span is a whole number of 1/(2 Rate) units of flow   *)
(* and time, which is how the exact arithmetic of the code is kept in integers: *)
(* what the rounding of its floats may add is not modelled.                     *)
(***************************************************************************)
EXTENDS Integers

CONSTANTS
  Rate,                      \* SLEW_RATE: how far the flow moves per clock unit
  MaxCharge, MaxDischarge,   \* the rated caps of the spec
  Capacity,                  \* what the packs hold together
  ChargeGain, DischargeCost  \* what one unit charged lands, and one discharged takes

Batteries ==
  [stored : Int, power : Int, origin : Int, started : Int, target : Int, last : Int,
   standby : BOOLEAN]

Most(x, y)  == IF x > y THEN x ELSE y
Least(x, y) == IF x < y THEN x ELSE y
Within(x, lo, hi) == Most(lo, Least(x, hi))
Size(x) == Most(x, -x)

\* The quotient to the nearest whole number, halves away from zero.
Rounded(n, d) == IF n < 0 THEN -((-2 * n + d) \div (2 * d)) ELSE (2 * n + d) \div (2 * d)

New(stored, at) ==
  [stored |-> stored, power |-> 0, origin |-> 0, started |-> at, target |-> 0, last |-> at,
   standby |-> FALSE]

\* The flow at an instant: the origin closed toward the target, and held there.
FlowAt(b, at) ==
  LET travelled == Rate * Most(0, at - b.started)
  IN b.origin + Within(b.target - b.origin, -travelled, travelled)

-----------------------------------------------------------------------------
(* The energy of a span.                                                     *)

\* The part of a flow to one side of zero over a ramp from `first` to `then` and
\* a hold there for `held` of the ramp's own steps: the area under a straight
\* line is the difference of two squares.
Area(first, then, held) == Size(then * then - first * first) + 2 * held * then

\* Mutant: one trapezoid over the whole span, whatever the ramp does in it.
MovedStraight(b, from, to) ==
  LET energy == Rate * (to - from) * (FlowAt(b, from) + FlowAt(b, to))
  IN [charged |-> Most(0, -energy), discharged |-> Most(0, energy)]

\* Charge and discharge apart, as a span that reverses has both.
Moved(b, from, to) ==
  LET first == FlowAt(b, from)
      then  == FlowAt(b, to)
      held  == Rate * (to - from) - Size(then - first)
  IN [charged    |-> Area(Most(0, -first), Most(0, -then), held),
      discharged |-> Area(Most(0, first), Most(0, then), held)]

\* Charging loses heat before it lands; discharging takes more than it delivers.
SettledAt(before, moved) ==
  before + ChargeGain * moved.charged - DischargeCost * moved.discharged

\* The flow that would have moved only what landed over a span of `dt`.
AchievedFlow(landed, dt) ==
  Rounded(-landed, (IF landed > 0 THEN ChargeGain ELSE DischargeCost) * 2 * Rate * dt)

\* Mutant: a clamped pack reports the ramp, not what it could take.
PowerRamped(b, after, at) == FlowAt(b, at)

Power(b, after, at) ==
  IF after \in 0 .. Capacity THEN FlowAt(b, at)
  ELSE AchievedFlow(Within(after, 0, Capacity) - b.stored, at - b.last)

\* Mutant: the store takes whatever the span moved.
AdvancedUncut(b, at) ==
  LET after == SettledAt(b.stored, Moved(b, b.last, at))
  IN IF at <= b.last THEN b
     ELSE [b EXCEPT !.power = FlowAt(b, at), !.stored = after, !.last = at]

\* `advance_to`: every read and every command goes through it first.
Advanced(b, at) ==
  LET after == SettledAt(b.stored, Moved(b, b.last, at))
  IN IF at <= b.last THEN b
     ELSE [b EXCEPT !.power = Power(b, after, at),
                    !.stored = Within(after, 0, Capacity), !.last = at]

\* Whether a clamp bites on the way to an instant.
Bitten(b, at) == at > b.last /\ SettledAt(b.stored, Moved(b, b.last, at)) \notin 0 .. Capacity

-----------------------------------------------------------------------------
(* Commands and readings.                                                    *)

CommandedFlow(mode, watts) ==
  CASE mode = "Charge"    -> -Within(watts, 0, MaxCharge)
    [] mode = "Discharge" -> Within(watts, 0, MaxDischarge)
    [] OTHER              -> 0

\* `apply_at`: the span just ended belongs to the target that was in force for it.
Applied(b, at, mode, watts) ==
  [Advanced(b, at) EXCEPT !.standby = (mode = "Standby"), !.origin = FlowAt(b, at),
                          !.started = at, !.target = CommandedFlow(mode, watts)]

Percent(b) == IF Capacity = 0 THEN 0 ELSE Within(Rounded(100 * b.stored, Capacity), 0, 100)

\* What `reading_at` makes of an advanced battery.
ReadingOf(b) ==
  [soc |-> Percent(b), current_power |-> b.power, soc_limit_reached |-> Percent(b) >= 100]
=============================================================================
