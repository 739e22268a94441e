------------------------------ MODULE Controller ------------------------------
(***************************************************************************)
(* The decision maker: `Controller` of controller.rs, fed the world a tick  *)
(* folded and the wall clock that tick captured.  One step is one whole     *)
(* call of `decide`: target mode, car guard, velocity-form power law and    *)
(* the guards over it.                                                      *)
(*                                                                          *)
(* Time is the wall clock, as in the code, so a step of it may be negative. *)
(* Watts are small integers; SOC, solar and calibration are the booleans    *)
(* the decision draws from them.                                            *)
(***************************************************************************)
EXTENDS Integers

CONSTANTS
  None,                     \* the Option the code leaves empty
  ClockSteps,               \* how far the wall clock may move between two calls
  Worlds,                   \* the worlds a call may be asked to decide on
  CarDraws,                 \* whether a charger reading is at or above the threshold
  DayLength,                \* clock units per local day
  MinModeDuration, MinDecisionInterval, IdleTimeout, MinIdleBeforeDischarge,
  ChargeMargin, DischargeMargin, ChargeDeadband, DischargeDeadband,
  Gain, SlewLimit,          \* Gain in percent
  ChargeStart, DischargeStart,
  CycleWarn,                \* 0 disables the daily cycle limit
  ChargerMaxAge             \* the blind window a charger reading is valid for

Active == {"Charge", "Discharge"}
Modes  == Active \cup {"Idle", "Standby"}

RampFactor == 75

ASSUME OptionAssumption == None \notin Int /\ None \notin Modes
(* What one call of `decide` reads of the world, the charger apart.         *)
WorldType ==
  [grid : Int,                 \* the meter's total: import > 0, export < 0
   flow : Int,                 \* the battery's report: discharging > 0, charging < 0
   max_charge_power : Nat, max_discharge_power : Nat,
   accepts_charge : BOOLEAN,   \* soc < max_soc(weekday) and not soc_limit_reached
   above_floor    : BOOLEAN,   \* soc > min_soc
   solar_blocks   : BOOLEAN,   \* solar at or above its discharge-block threshold
   overridden     : BOOLEAN]   \* soc_calibrating or fault

ASSUME InputAssumption ==
  /\ ClockSteps \subseteq Int
  /\ Worlds \subseteq WorldType
  /\ CarDraws \subseteq BOOLEAN
ASSUME TuningAssumption ==
  /\ DayLength \in Nat \ {0}
  /\ MinModeDuration \in Nat
  /\ MinDecisionInterval \in Nat
  /\ IdleTimeout \in Nat
  /\ MinIdleBeforeDischarge \in Nat
  /\ ChargerMaxAge \in Nat
  /\ CycleWarn \in Nat
ASSUME PowerAssumption ==
  /\ ChargeMargin \in Nat /\ DischargeMargin \in Nat
  /\ ChargeDeadband \in Nat /\ DischargeDeadband \in Nat
  /\ Gain \in 0..200
  /\ SlewLimit \in Nat
  /\ ChargeStart \in Int /\ DischargeStart \in Int

VARIABLES
  now,                         \* the wall clock
  charger,                     \* the world's last charger reading, None before one
  \* ControllerState
  last_mode, last_active_mode, last_mode_change, last_decision, last_idle_start,
  daily_transitions, daily_cooldown_suppressions, last_cycle_reset_day,
  ramp_pending, commanded_power,
  decision,                    \* what the last call returned, and what it was sized against
  \* history, read by the properties only
  charged_at,                  \* stamp of the last Charge decision
  starts,                      \* charge and discharge tenures opened today
  eased                        \* a positive power has been wanted in this tenure

control == <<last_mode, last_active_mode, last_mode_change, last_idle_start,
             daily_transitions, daily_cooldown_suppressions,
             last_cycle_reset_day, ramp_pending, commanded_power>>
history == <<charged_at, starts, eased>>
vars == <<now, charger, control, last_decision, decision, history>>

Decisions ==
  [mode : Modes, power : Nat, at : Int, cap : Nat, observed : Nat]

TypeOK ==
  /\ now \in Int
  /\ charger \in [drawing : BOOLEAN, at : Int] \cup {None}
  /\ last_mode \in Modes
  /\ last_active_mode \in Active \cup {None}
  /\ last_mode_change \in Int
  /\ last_decision \in Int
  /\ last_idle_start \in Int \cup {None}
  /\ daily_transitions \in Nat
  /\ daily_cooldown_suppressions \in Nat
  /\ last_cycle_reset_day \in Int
  /\ ramp_pending \in BOOLEAN
  /\ commanded_power \in Nat
  /\ decision \in Decisions
  /\ charged_at \in Int \cup {None}
  /\ starts \in Nat
  /\ eased \in BOOLEAN

Day(t) == t \div DayLength

Decided(mode, power, at, cap, observed) ==
  [mode |-> mode, power |-> power, at |-> at, cap |-> cap, observed |-> observed]

Init ==
  /\ now = 0
  /\ charger = None
  /\ last_mode = "Idle"
  /\ last_active_mode = None
  /\ last_mode_change = now - MinModeDuration
  /\ last_decision = now - MinDecisionInterval
  /\ last_idle_start = now
  /\ daily_transitions = 0
  /\ daily_cooldown_suppressions = 0
  /\ last_cycle_reset_day = Day(now)
  /\ ramp_pending = FALSE
  /\ commanded_power = 0
  /\ decision = Decided("Idle", 0, last_decision, 0, 0)
  /\ charged_at = None
  /\ starts = 0
  /\ eased = FALSE

-----------------------------------------------------------------------------
(* The target mode.                                                          *)

Underlying(w) == w.grid + w.flow

CarCharging(at) ==
  /\ charger # None
  /\ charger.drawing
  /\ at - charger.at <= ChargerMaxAge

ChargeThreshold == IF last_mode = "Charge" THEN 0 ELSE ChargeStart
DischargeThreshold == IF last_mode = "Discharge" THEN 0 ELSE DischargeStart

DischargeWanted(w) == w.above_floor /\ Underlying(w) > DischargeThreshold

\* Mutant: the rest is owed only straight after charging.
RestOnlyFromCharge(at) ==
  \/ last_mode # "Charge"
  \/ last_idle_start # None /\ at - last_idle_start >= MinIdleBeforeDischarge

IdleLongEnough(at) ==
  \/ last_mode = "Discharge"
  \/ last_active_mode # "Charge"
  \/ last_idle_start # None /\ at - last_idle_start >= MinIdleBeforeDischarge

ChargeWanted(w) == w.accepts_charge /\ Underlying(w) < ChargeThreshold

TargetMode(w, at) ==
  IF ChargeWanted(w) THEN "Charge"
  ELSE IF IdleLongEnough(at) /\ ~w.solar_blocks /\ DischargeWanted(w) THEN "Discharge"
  ELSE "Idle"

\* Mutant: the car guard is asked only to start a discharge.
HeldForCarOnStart(w, at) ==
  /\ TargetMode(w, at) # "Charge"
  /\ last_mode # "Discharge"
  /\ DischargeWanted(w)
  /\ CarCharging(at)

HeldForCar(w, at) ==
  /\ TargetMode(w, at) # "Charge"
  /\ DischargeWanted(w)
  /\ CarCharging(at)

Target(w, at) == IF HeldForCar(w, at) THEN "Idle" ELSE TargetMode(w, at)

-----------------------------------------------------------------------------
(* The power law, in velocity form.                                          *)

Clamp(x, lo, hi) == IF x < lo THEN lo ELSE IF x > hi THEN hi ELSE x
Abs(x) == IF x < 0 THEN -x ELSE x
Positive(x) == IF x > 0 THEN x ELSE 0

Deadbanded(raw, width) == IF Abs(raw) < width THEN 0 ELSE raw

\* Percent of an error, rounded half away from zero.
Gained(e) == IF e >= 0 THEN (Gain * e + 50) \div 100
                       ELSE -((50 - Gain * e) \div 100)

ClampStep(x, anchor) == Clamp(x, anchor - SlewLimit, anchor + SlewLimit)

\* Mutant: no rail against what the device achieves.
SteppedUnrailed(error, observed) ==
  ClampStep(commanded_power + Gained(error), commanded_power)

Stepped(error, observed) ==
  ClampStep(ClampStep(commanded_power + Gained(error), commanded_power), observed)

Error(mode, w) ==
  IF mode = "Charge" THEN Deadbanded(-w.grid - ChargeMargin, ChargeDeadband)
                     ELSE Deadbanded(w.grid - DischargeMargin, DischargeDeadband)
Observed(mode, w) == IF mode = "Charge" THEN Positive(-w.flow) ELSE Positive(w.flow)
Cap(mode, w) == IF mode = "Charge" THEN w.max_charge_power ELSE w.max_discharge_power

\* Mutant: only the cap is clamped to.
TargetPowerUncut(mode, w) ==
  LET power == Stepped(Error(mode, w), Observed(mode, w))
  IN IF mode \notin Active THEN 0 ELSE IF power > Cap(mode, w) THEN Cap(mode, w) ELSE power

TargetPower(mode, w) ==
  IF mode \in Active
  THEN Clamp(Stepped(Error(mode, w), Observed(mode, w)), 0, Cap(mode, w))
  ELSE 0

Ramped(power) == (power * RampFactor) \div 100

-----------------------------------------------------------------------------
(* The guards over the target, and what each of them leaves behind.          *)

\* Midnight clears the daily counters before any guard reads them.
Today(count, at) == IF Day(at) # last_cycle_reset_day THEN 0 ELSE count

\* Mutant: one transition over the limit.
LimitPassed(at) == CycleWarn > 0 /\ Today(daily_transitions, at) > CycleWarn

LimitReached(at) == CycleWarn > 0 /\ Today(daily_transitions, at) >= CycleWarn

\* Mutant: one direction only.
OpposingOneWay(prev, next) == prev = "Charge" /\ next = "Discharge"

Opposing(prev, next) == {prev, next} = Active

Suppressed(mode, at) ==
  Opposing(last_mode, mode) /\ at - last_mode_change < MinModeDuration

IdledOut(at) == last_idle_start' # None /\ at - last_idle_start' >= IdleTimeout

\* Mutant: entering any mode starts the idle clock.
EnterModeIdling(mode, at, idle_start) ==
  /\ last_mode' = mode
  /\ last_mode_change' = at
  /\ last_idle_start' = at

\* Enters `mode` at `at`: the bookkeeping every mode change shares.
EnterMode(mode, at, idle_start) ==
  /\ last_mode' = mode
  /\ last_mode_change' = at
  /\ last_idle_start' = idle_start

KeepMode == UNCHANGED <<last_mode, last_mode_change, last_idle_start>>

\* The daily counters after this call, `moved` transitions and `held` suppressions on.
Count(at, moved, held) ==
  /\ daily_transitions' = Today(daily_transitions, at) + moved
  /\ daily_cooldown_suppressions' = Today(daily_cooldown_suppressions, at) + held
  /\ last_cycle_reset_day' = Day(at)

\* The history the properties read, after a call that returned `decision'`.
Remember(target, at) ==
  LET opens == last_mode' # last_mode
  IN /\ charged_at' = IF decision'.mode = "Charge" THEN at ELSE charged_at
     /\ starts' = (IF Day(at) # Day(last_decision) THEN 0 ELSE starts)
                    + (IF opens /\ last_mode' \in Active THEN 1 ELSE 0)
     /\ eased' = (target > 0 \/ (eased /\ ~opens))

Returns(mode, target, power, cap, observed, at) ==
  /\ decision' = Decided(mode, power, at, cap, observed)
  /\ last_decision' = at
  /\ Remember(target, at)

-----------------------------------------------------------------------------
(* `decide`, one action per way out of it.  `at` is the tick's wall clock.   *)

\* The interval has not elapsed, or the wall clock stepped behind the last call.
TooSoon(at) ==
  /\ at - last_decision < MinDecisionInterval
  /\ UNCHANGED <<control, last_decision, decision, history>>

\* Calibration or a device fault: idle, past every guard.
Override(w, at) ==
  /\ at - last_decision >= MinDecisionInterval
  /\ w.overridden
  /\ IF last_mode # "Idle"
     THEN EnterMode("Idle", at, at) /\ ramp_pending' = FALSE
     ELSE KeepMode /\ UNCHANGED ramp_pending
  /\ UNCHANGED <<last_active_mode, daily_transitions, daily_cooldown_suppressions,
                 last_cycle_reset_day, commanded_power>>
  /\ Returns("Idle", 0, 0, 0, 0, at)

Guarded(w, at) ==
  /\ at - last_decision >= MinDecisionInterval
  /\ ~w.overridden

\* The daily cycle limit: standby until midnight.
LimitCycles(w, at) ==
  /\ Guarded(w, at)
  /\ LimitReached(at)
  /\ IF last_mode # "Standby"
     THEN EnterMode("Standby", at, None) /\ ramp_pending' = FALSE
     ELSE KeepMode /\ UNCHANGED ramp_pending
  /\ Count(at, 0, 0)
  /\ commanded_power' = 0
  /\ UNCHANGED last_active_mode
  /\ Returns("Standby", 0, 0, 0, 0, at)

\* Cooldown: a charge<->discharge toggle that comes too early idles instead,
\* and leaves the mode it was suppressed in place.
CoolDown(w, at) ==
  /\ Guarded(w, at)
  /\ ~LimitReached(at)
  /\ Suppressed(Target(w, at), at)
  /\ Count(at, 0, 1)
  /\ last_idle_start' = at
  /\ commanded_power' = 0
  /\ UNCHANGED <<last_mode, last_active_mode, last_mode_change, ramp_pending>>
  /\ Returns("Idle", 0, 0, 0, 0, at)

\* Mutant: the first decision of a tenure spends the ramp whatever its power.
PendingNever(pending, ramps) == FALSE

\* A ramp owed stays owed until a positive setpoint spends it.
Pending(pending, ramps) == pending /\ ~ramps

Command(w, at) ==
  LET mode   == Target(w, at)
      power  == TargetPower(mode, w)
      moves  == mode # last_mode
      ramps  == power > 0 /\ IF moves THEN mode \in Active ELSE ramp_pending
      sent   == IF ramps THEN Ramped(power) ELSE power
  IN /\ Guarded(w, at)
     /\ ~LimitReached(at)
     /\ ~Suppressed(mode, at)
     /\ Count(at, IF moves THEN 1 ELSE 0, 0)
     /\ IF moves
        THEN /\ EnterMode(mode, at, IF mode = "Idle" THEN at ELSE None)
             /\ last_active_mode' = IF mode \in Active THEN mode ELSE last_active_mode
             /\ ramp_pending' = Pending(mode \in Active, ramps)
        ELSE /\ KeepMode
             /\ ramp_pending' = Pending(ramp_pending, ramps)
             /\ UNCHANGED last_active_mode
     /\ commanded_power' = sent
     /\ Returns(IF mode = "Idle" /\ IdledOut(at) THEN "Standby" ELSE mode, power, sent,
                IF mode \in Active THEN Cap(mode, w) ELSE 0,
                IF mode \in Active THEN Observed(mode, w) ELSE 0, at)

\* A meter event: the wall clock has moved by `d` since the last one.
Meter(w, d) ==
  /\ now' = now + d
  /\ UNCHANGED charger
  /\ \/ TooSoon(now')
     \/ Override(w, now')
     \/ LimitCycles(w, now')
     \/ CoolDown(w, now')
     \/ Command(w, now')

\* A charger reading folded into the world, stamped with its own sample clock.
ObserveCharger(drawing) ==
  /\ charger' = [drawing |-> drawing, at |-> now]
  /\ UNCHANGED <<now, control, last_decision, decision, history>>

Next ==
  \/ \E d \in ClockSteps, w \in Worlds : Meter(w, d)
  \/ \E drawing \in CarDraws : ObserveCharger(drawing)

Spec == Init /\ [][Next]_vars

-----------------------------------------------------------------------------
(* Properties.                                                               *)

\* Charging is followed by discharging only after MinIdleBeforeDischarge on the
\* decisions' own clock, through every override, cooldown, cycle-limit standby
\* and clock step in between (`idle_long_enough`, `last_idle_start`).
RestBeforeDischarge ==
  decision.mode = "Discharge" /\ charged_at # None
    => decision.at - charged_at >= MinIdleBeforeDischarge

\* No more charge and discharge tenures open in a local day than the cycle
\* limit allows, whatever the order of midnight, overrides and clock steps.
CycleBudget == CycleWarn > 0 => starts <= CycleWarn

\* The first positive setpoint of a tenure is ramped, even when the call that
\* entered the mode was capped to zero (`ramp_pending`); one watt, which the ramp
\* truncates to nothing, has spent it.
FirstSetpointRamped ==
  [][decision' # decision /\ decision'.power > 0 /\ (last_mode' # last_mode \/ ~eased)
       => 100 * decision'.power <= RampFactor * decision'.cap]_vars

\* A setpoint stays inside the cap the device reports and never runs ahead of
\* what it achieves by more than the slew limit (the anti-windup rail of `step`).
NoWindup ==
  /\ decision.power <= decision.cap
  /\ decision.power <= decision.observed + SlewLimit

\* Discharge turns straight into charge only after MinModeDuration in the mode,
\* and charge never turns straight into discharge.
ReversalsSpaced ==
  [][/\ decision.mode = "Discharge" /\ decision'.mode = "Charge"
          => decision'.at - last_mode_change >= MinModeDuration
     /\ decision.mode = "Charge" => decision'.mode # "Discharge"]_vars

\* A decision never discharges into a car that a valid reading shows drawing.
CarHeld ==
  [][decision' # decision /\ decision'.mode = "Discharge"
       => ~CarCharging(decision'.at)]_vars

\* The strengthening that makes the three invariants above inductive: which
\* tenure the last decision belongs to, when the idle before a discharge began,
\* and which day the counters count.
TenureInv ==
  /\ decision.at = last_decision
  /\ decision.mode \in Active => last_mode = decision.mode
  /\ last_mode \in Active => last_active_mode = last_mode
  /\ last_mode = "Charge" => last_idle_start = None

RestInv ==
  charged_at # None =>
    /\ charged_at <= last_decision
    /\ last_active_mode # None
    /\ last_active_mode = "Charge" /\ last_idle_start # None
         => last_idle_start >= charged_at
    /\ last_active_mode = "Discharge"
         => last_decision - charged_at >= MinIdleBeforeDischarge

BudgetInv ==
  /\ starts <= daily_transitions
  /\ CycleWarn > 0 => daily_transitions <= CycleWarn
  /\ starts > 0 => Day(last_decision) = last_cycle_reset_day

InductiveInv == TypeOK /\ TenureInv /\ RestInv /\ BudgetInv /\ NoWindup
=============================================================================
