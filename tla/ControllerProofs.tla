--------------------------- MODULE ControllerProofs ---------------------------
(***************************************************************************)
(* Proofs about Controller, for every tuning, every world and every wall     *)
(* clock, whichever way it steps; and about ClosedLoop, the same controller   *)
(* against the simulated battery, for every plant, tick, load and latency.   *)
(***************************************************************************)
EXTENDS ClosedLoop, TLAPS

-----------------------------------------------------------------------------
(* The operators a decision is computed with.                                *)

\* A clamped step stays within the slew limit of its anchor.
LEMMA ClampStepBounds ==
  ASSUME NEW x \in Int, NEW anchor \in Int
  PROVE  /\ ClampStep(x, anchor) \in Int
         /\ ClampStep(x, anchor) <= anchor + SlewLimit
BY PowerAssumption DEF ClampStep, Clamp

\* The gained error is a whole number of watts.
LEMMA GainedInt == ASSUME NEW e \in Int PROVE Gained(e) \in Int
BY PowerAssumption DEF Gained

\* What a world contributes to the power law, for an active mode.
LEMMA WorldTerms ==
  ASSUME NEW w \in WorldType, NEW mode \in Active
  PROVE  /\ Error(mode, w) \in Int
         /\ Observed(mode, w) \in Nat
         /\ Cap(mode, w) \in Nat
BY PowerAssumption DEF WorldType, Error, Observed, Cap, Deadbanded, Abs, Positive, Active

\* A target power is a setpoint the device accepts and the slew limit rails.
LEMMA TargetPowerBounds ==
  ASSUME NEW w \in WorldType, NEW mode \in Active, commanded_power \in Nat
  PROVE  /\ TargetPower(mode, w) \in Nat
         /\ TargetPower(mode, w) <= Cap(mode, w)
         /\ TargetPower(mode, w) <= Observed(mode, w) + SlewLimit
<1> DEFINE inner == ClampStep(commanded_power + Gained(Error(mode, w)), commanded_power)
           stepped == ClampStep(inner, Observed(mode, w))
<1>1. Error(mode, w) \in Int /\ Observed(mode, w) \in Nat /\ Cap(mode, w) \in Nat
  BY WorldTerms
<1>2. Gained(Error(mode, w)) \in Int
  BY <1>1, GainedInt
<1>3. inner \in Int
  BY <1>2, ClampStepBounds
<1>4. stepped \in Int /\ stepped <= Observed(mode, w) + SlewLimit
  BY <1>1, <1>3, ClampStepBounds
<1>5. TargetPower(mode, w) = Clamp(stepped, 0, Cap(mode, w))
  BY DEF TargetPower, Stepped
<1> HIDE DEF stepped
<1> QED
  BY <1>1, <1>4, <1>5, PowerAssumption DEF Clamp

\* Ramping shortens a setpoint.
LEMMA RampedBounds ==
  ASSUME NEW power \in Nat
  PROVE  Ramped(power) \in Nat /\ Ramped(power) <= power
BY DEF Ramped, RampFactor

\* A day is a whole number.
LEMMA DayInt == ASSUME NEW t \in Int PROVE Day(t) \in Int
BY TuningAssumption DEF Day

\* What `target` can ask for.
LEMMA TargetModes ==
  ASSUME NEW w \in WorldType, NEW at \in Int
  PROVE  Target(w, at) \in Active \cup {"Idle"}
BY DEF Target, TargetMode, Active

-----------------------------------------------------------------------------
(* Type correctness.                                                         *)

\* A controller just built has its types (`from_session`).
LEMMA TypeInit == Init => TypeOK
<1> SUFFICES ASSUME Init PROVE TypeOK
  OBVIOUS
<1>1. now \in Int /\ last_mode_change \in Int /\ last_decision \in Int
  BY TuningAssumption DEF Init
<1>2. last_cycle_reset_day \in Int
  BY <1>1, DayInt DEF Init
<1>3. decision \in Decisions
  BY <1>1 DEF Init, Decided, Decisions, Modes
<1> QED
  BY <1>1, <1>2, <1>3 DEF Init, TypeOK, Modes

\* The daily counters stay counters, whichever day they are read on.
LEMMA CountType ==
  ASSUME TypeOK, NEW at \in Int, NEW moved \in Nat, NEW held \in Nat,
         Count(at, moved, held)
  PROVE  /\ daily_transitions' \in Nat
         /\ daily_cooldown_suppressions' \in Nat
         /\ last_cycle_reset_day' \in Int
BY DayInt DEF TypeOK, Count, Today

\* What every call that returns a decision writes beside the controller's state.
LEMMA ReturnsType ==
  ASSUME TypeOK, NEW at \in Int, NEW mode \in Modes, NEW target \in Nat,
         NEW power \in Nat, NEW cap \in Nat, NEW observed \in Nat,
         Returns(mode, target, power, cap, observed, at)
  PROVE  /\ last_decision' \in Int
         /\ decision' \in Decisions
         /\ charged_at' \in Int \cup {None}
         /\ starts' \in Nat
         /\ eased' \in BOOLEAN
<1>1. last_decision' = at
  BY DEF Returns
<1>2. decision' \in Decisions
  BY DEF Returns, Decided, Decisions
<1>3. charged_at' \in Int \cup {None}
  BY DEF TypeOK, Returns, Remember
<1>4. starts' \in Nat
  BY DEF TypeOK, Returns, Remember
<1>5. eased' \in BOOLEAN
  BY DEF TypeOK, Returns, Remember
<1> QED BY <1>1, <1>2, <1>3, <1>4, <1>5

\* Whatever the world a call of `decide` is asked about, every variable keeps its type.
LEMMA MeterType ==
  ASSUME TypeOK, NEW d \in Int, NEW w \in WorldType, Meter(w, d)
  PROVE  TypeOK'
<1>1. now' \in Int /\ charger' = charger
  BY DEF Meter, TypeOK
<1>2. CASE TooSoon(now')
  BY <1>1, <1>2 DEF TypeOK, TooSoon, control, history
<1>3. CASE Override(w, now')
  <2>1. Returns("Idle", 0, 0, 0, 0, now')
    BY <1>3 DEF Override
  <2>2. /\ last_decision' \in Int /\ decision' \in Decisions
        /\ charged_at' \in Int \cup {None} /\ starts' \in Nat /\ eased' \in BOOLEAN
    BY <1>1, <2>1, ReturnsType DEF Modes
  <2> QED
    BY <1>1, <1>3, <2>2 DEF TypeOK, Override, EnterMode, KeepMode, Modes
<1>4. CASE LimitCycles(w, now')
  <2>1. Returns("Standby", 0, 0, 0, 0, now') /\ Count(now', 0, 0)
    BY <1>4 DEF LimitCycles
  <2>2. /\ last_decision' \in Int /\ decision' \in Decisions
        /\ charged_at' \in Int \cup {None} /\ starts' \in Nat /\ eased' \in BOOLEAN
    BY <1>1, <2>1, ReturnsType DEF Modes
  <2>3. /\ daily_transitions' \in Nat /\ daily_cooldown_suppressions' \in Nat
        /\ last_cycle_reset_day' \in Int
    BY <1>1, <2>1, CountType
  <2> QED
    BY <1>1, <1>4, <2>2, <2>3 DEF TypeOK, LimitCycles, EnterMode, KeepMode, Modes
<1>5. CASE CoolDown(w, now')
  <2>1. Returns("Idle", 0, 0, 0, 0, now') /\ Count(now', 0, 1)
    BY <1>5 DEF CoolDown
  <2>2. /\ last_decision' \in Int /\ decision' \in Decisions
        /\ charged_at' \in Int \cup {None} /\ starts' \in Nat /\ eased' \in BOOLEAN
    BY <1>1, <2>1, ReturnsType DEF Modes
  <2>3. /\ daily_transitions' \in Nat /\ daily_cooldown_suppressions' \in Nat
        /\ last_cycle_reset_day' \in Int
    BY <1>1, <2>1, CountType
  <2> QED
    BY <1>1, <1>5, <2>2, <2>3 DEF TypeOK, CoolDown
<1>6. CASE Command(w, now')
  <2> DEFINE mode   == Target(w, now')
             power  == TargetPower(mode, w)
             moves  == mode # last_mode
             ramps  == power > 0 /\ IF moves THEN mode \in Active ELSE ramp_pending
             sent   == IF ramps THEN Ramped(power) ELSE power
             mode_out == IF mode = "Idle" /\ IdledOut(now') THEN "Standby" ELSE mode
             cap    == IF mode \in Active THEN Cap(mode, w) ELSE 0
             seen   == IF mode \in Active THEN Observed(mode, w) ELSE 0
  <2>1. mode \in Active \cup {"Idle"}
    BY <1>1, TargetModes
  <2>2. power \in Nat
    <3>1. CASE mode \in Active
      BY <3>1, TargetPowerBounds DEF TypeOK
    <3>2. CASE mode \notin Active
      BY <3>2 DEF TargetPower
    <3> QED BY <3>1, <3>2
  <2>3. cap \in Nat /\ seen \in Nat
    BY WorldTerms
  <2>4. sent \in Nat
    BY <2>2, RampedBounds
  <2>5. mode_out \in Modes
    BY <2>1 DEF Modes
  <2>6. Returns(mode_out, power, sent, cap, seen, now')
        /\ Count(now', IF moves THEN 1 ELSE 0, 0)
    BY <1>6 DEF Command
  <2>7. /\ last_decision' \in Int /\ decision' \in Decisions
        /\ charged_at' \in Int \cup {None} /\ starts' \in Nat /\ eased' \in BOOLEAN
    <3> HIDE DEF mode_out, power, sent, cap, seen
    <3> QED BY <1>1, <2>2, <2>3, <2>4, <2>5, <2>6, ReturnsType
  <2>8. /\ daily_transitions' \in Nat /\ daily_cooldown_suppressions' \in Nat
        /\ last_cycle_reset_day' \in Int
    <3>1. (IF moves THEN 1 ELSE 0) \in Nat
      OBVIOUS
    <3> QED BY <1>1, <2>6, <3>1, CountType
  <2>9. /\ commanded_power' = sent
        /\ last_mode' = mode \/ last_mode' = last_mode
        /\ last_mode_change' \in {now', last_mode_change}
        /\ last_idle_start' \in {now', None, last_idle_start}
        /\ (mode \in Active /\ last_active_mode' = mode) \/ last_active_mode' = last_active_mode
        /\ ramp_pending' \in BOOLEAN
    BY <1>6 DEF Command, EnterMode, KeepMode, Pending
  <2> HIDE DEF mode, sent
  <2> QED
    BY <1>1, <2>1, <2>4, <2>7, <2>8, <2>9 DEF TypeOK, Modes
<1> QED
  BY <1>2, <1>3, <1>4, <1>5, <1>6 DEF Meter

\* No call of `decide` and no charger reading takes a variable out of its type.
LEMMA TypeStep == TypeOK /\ [Next]_vars => TypeOK'
<1> SUFFICES ASSUME TypeOK, [Next]_vars PROVE TypeOK'
  OBVIOUS
<1>1. CASE UNCHANGED vars
  BY <1>1 DEF TypeOK, vars, control, history
<1>2. ASSUME NEW drawing \in CarDraws, ObserveCharger(drawing) PROVE TypeOK'
  BY <1>2, InputAssumption DEF TypeOK, ObserveCharger, control, history
<1>3. ASSUME NEW d \in ClockSteps, NEW w \in Worlds, Meter(w, d) PROVE TypeOK'
  BY <1>3, MeterType, InputAssumption
<1> QED
  BY <1>1, <1>2, <1>3 DEF Next

\* Every variable of the controller keeps its type.
THEOREM TypeCorrect == Spec => []TypeOK
<1>1. Init => TypeOK
  BY TypeInit
<1>2. TypeOK /\ [Next]_vars => TypeOK'
  BY TypeStep
<1> QED BY <1>1, <1>2, PTL DEF Spec

-----------------------------------------------------------------------------
(* The inductive invariant.                                                  *)

\* The part every call that returns a decision shares: the stamps.
LEMMA Stamped ==
  ASSUME NEW mode, NEW target, NEW power, NEW cap, NEW observed, NEW at,
         Returns(mode, target, power, cap, observed, at)
  PROVE  /\ last_decision' = at
         /\ decision'.at = at /\ decision'.mode = mode
         /\ decision'.power = power /\ decision'.cap = cap
         /\ decision'.observed = observed
         /\ charged_at' = IF mode = "Charge" THEN at ELSE charged_at
BY DEF Returns, Decided, Remember

\* A controller just built satisfies the strengthened invariant.
LEMMA InvInit == Init => InductiveInv
<1> SUFFICES ASSUME Init PROVE InductiveInv
  OBVIOUS
<1>1. TypeOK
  BY TypeInit
<1>2. TenureInv
  BY DEF Init, Decided, TenureInv, Active
<1>3. RestInv
  BY DEF Init, RestInv
<1>4. BudgetInv
  BY TuningAssumption DEF Init, BudgetInv
<1>5. NoWindup
  BY PowerAssumption DEF Init, Decided, NoWindup
<1> QED BY <1>1, <1>2, <1>3, <1>4, <1>5 DEF InductiveInv

\* A mode in cooldown is Discharge: charge cannot be followed by a call that
\* wants discharge, for the idle it needs has not begun.
LEMMA NoDischargeFromCharge ==
  ASSUME InductiveInv, NEW w \in WorldType, NEW at \in Int, last_mode = "Charge"
  PROVE  Target(w, at) # "Discharge"
BY DEF InductiveInv, TenureInv, Target, TargetMode, IdleLongEnough, Active

\* A call of `decide` leaves the last mode, its idle clock and the decision agreeing.
LEMMA TenureStep ==
  ASSUME InductiveInv, NEW w \in WorldType, NEW at \in Int,
         \/ Override(w, at) \/ LimitCycles(w, at) \/ CoolDown(w, at) \/ Command(w, at)
  PROVE  TenureInv'
<1>1. CASE Override(w, at)
  <2>1. decision'.at = at /\ last_decision' = at /\ decision'.mode = "Idle"
    BY <1>1, Stamped DEF Override
  <2>2. last_mode' = "Idle"
    BY <1>1 DEF Override, EnterMode, KeepMode
  <2> QED BY <2>1, <2>2 DEF TenureInv, Active
<1>2. CASE LimitCycles(w, at)
  <2>1. decision'.at = at /\ last_decision' = at /\ decision'.mode = "Standby"
    BY <1>2, Stamped DEF LimitCycles
  <2>2. last_mode' = "Standby"
    BY <1>2 DEF LimitCycles, EnterMode, KeepMode
  <2> QED BY <2>1, <2>2 DEF TenureInv, Active
<1>3. CASE CoolDown(w, at)
  <2>1. decision'.at = at /\ last_decision' = at /\ decision'.mode = "Idle"
    BY <1>3, Stamped DEF CoolDown
  <2>2. last_mode' = last_mode /\ last_active_mode' = last_active_mode
    BY <1>3 DEF CoolDown
  <2>3. last_mode # "Charge"
    BY <1>3, NoDischargeFromCharge DEF CoolDown, Suppressed, Opposing, Active
  <2> QED BY <2>1, <2>2, <2>3 DEF TenureInv, InductiveInv, Active
<1>4. CASE Command(w, at)
  <2> DEFINE mode == Target(w, at)
  <2>1. PICK target, sent, cap, seen :
          Returns(IF mode = "Idle" /\ IdledOut(at) THEN "Standby" ELSE mode,
                  target, sent, cap, seen, at)
    BY <1>4 DEF Command
  <2>2. /\ decision'.at = at /\ last_decision' = at
        /\ decision'.mode = IF mode = "Idle" /\ IdledOut(at) THEN "Standby" ELSE mode
    BY <2>1, Stamped
  <2>3. mode \in Active \cup {"Idle"}
    BY TargetModes
  <2>4. last_mode' = mode
    BY <1>4 DEF Command, EnterMode, KeepMode
  <2>5. mode \in Active => last_active_mode' = mode
    BY <1>4 DEF Command, KeepMode, InductiveInv, TenureInv
  <2>6. mode = "Charge" => last_idle_start' = None
    BY <1>4 DEF Command, EnterMode, KeepMode, InductiveInv, TenureInv
  <2> HIDE DEF mode
  <2> QED BY <2>2, <2>3, <2>4, <2>5, <2>6 DEF TenureInv, Active
<1> QED BY <1>1, <1>2, <1>3, <1>4

\* A decision is never stamped before the one it follows.
LEMMA StampsAdvance ==
  ASSUME TypeOK, NEW at \in Int, at - last_decision >= MinDecisionInterval
  PROVE  last_decision <= at
BY TuningAssumption DEF TypeOK

\* A call of `decide` keeps the idle owed after a charge accounted for.
LEMMA RestStep ==
  ASSUME InductiveInv, NEW w \in WorldType, NEW at \in Int,
         \/ Override(w, at) \/ LimitCycles(w, at) \/ CoolDown(w, at) \/ Command(w, at)
  PROVE  RestInv'
<1>1. TypeOK /\ RestInv /\ TenureInv
  BY DEF InductiveInv
<1>2. last_decision <= at
  BY <1>1, StampsAdvance DEF Override, LimitCycles, CoolDown, Command, Guarded
<1>3. ASSUME charged_at' = charged_at, last_decision' = at,
             last_active_mode' = last_active_mode,
             last_idle_start' \in {last_idle_start, at, None}
      PROVE  RestInv'
  <2> SUFFICES ASSUME charged_at # None
               PROVE  /\ charged_at <= at
                      /\ last_active_mode # None
                      /\ last_active_mode = "Charge" /\ last_idle_start' # None
                           => last_idle_start' >= charged_at
                      /\ last_active_mode = "Discharge"
                           => at - charged_at >= MinIdleBeforeDischarge
    BY <1>3 DEF RestInv
  <2>1. /\ charged_at \in Int /\ last_decision \in Int /\ MinIdleBeforeDischarge \in Int
        /\ last_idle_start # None => last_idle_start \in Int
    BY <1>1, TuningAssumption DEF TypeOK
  <2>2. charged_at <= at
    BY <1>1, <1>2, <2>1 DEF RestInv
  <2>3. last_active_mode # None
    BY <1>1 DEF RestInv
  <2>4. ASSUME last_active_mode = "Charge", last_idle_start' # None
        PROVE  last_idle_start' >= charged_at
    BY <1>1, <1>3, <2>1, <2>2, <2>4 DEF RestInv
  <2>5. ASSUME last_active_mode = "Discharge"
        PROVE  at - charged_at >= MinIdleBeforeDischarge
    BY <1>1, <1>2, <2>1, <2>5 DEF RestInv
  <2> QED BY <2>2, <2>3, <2>4, <2>5
<1>4. CASE Override(w, at)
  <2>1. charged_at' = charged_at /\ last_decision' = at
    BY <1>4, Stamped DEF Override
  <2> QED BY <1>3, <1>4, <2>1 DEF Override, EnterMode, KeepMode
<1>5. CASE LimitCycles(w, at)
  <2>1. charged_at' = charged_at /\ last_decision' = at
    BY <1>5, Stamped DEF LimitCycles
  <2> QED BY <1>3, <1>5, <2>1 DEF LimitCycles, EnterMode, KeepMode
<1>6. CASE CoolDown(w, at)
  <2>1. charged_at' = charged_at /\ last_decision' = at
    BY <1>6, Stamped DEF CoolDown
  <2> QED BY <1>3, <1>6, <2>1 DEF CoolDown
<1>7. CASE Command(w, at)
  <2> DEFINE mode == Target(w, at)
             out  == IF mode = "Idle" /\ IdledOut(at) THEN "Standby" ELSE mode
  <2>1. PICK target, sent, cap, seen : Returns(out, target, sent, cap, seen, at)
    BY <1>7 DEF Command
  <2>2. /\ last_decision' = at
        /\ charged_at' = IF out = "Charge" THEN at ELSE charged_at
    BY <2>1, Stamped
  <2>3. mode \in {"Charge", "Discharge", "Idle"}
    BY TargetModes DEF Active
  <2>4. CASE mode = "Charge"
    <3>1. charged_at' = at
      BY <2>2, <2>4
    <3>2. last_active_mode' = "Charge"
      BY <1>1, <1>7, <2>4 DEF Command, KeepMode, TenureInv, Active
    <3>3. last_idle_start' = None
      BY <1>1, <1>7, <2>4 DEF Command, EnterMode, KeepMode, TenureInv, Active
    <3> QED BY <2>2, <3>1, <3>2, <3>3, OptionAssumption DEF RestInv, Modes, Active
  <2>5. CASE mode = "Idle"
    <3>1. charged_at' = charged_at
      BY <2>2, <2>5
    <3>2. last_active_mode' = last_active_mode
          /\ last_idle_start' \in {last_idle_start, at, None}
      BY <1>7, <2>5 DEF Command, EnterMode, KeepMode, Active
    <3> QED BY <1>3, <2>2, <3>1, <3>2
  <2>6. CASE mode = "Discharge" /\ mode = last_mode
    <3>1. charged_at' = charged_at
      BY <2>2, <2>6
    <3>2. last_active_mode' = last_active_mode /\ last_idle_start' = last_idle_start
      BY <1>7, <2>6 DEF Command, KeepMode
    <3> QED BY <1>3, <2>2, <3>1, <3>2
  <2>7. CASE mode = "Discharge" /\ mode # last_mode
    <3>1. charged_at' = charged_at
      BY <2>2, <2>7
    <3>2. last_active_mode' = "Discharge"
      BY <1>7, <2>7 DEF Command, Active
    <3>3. IdleLongEnough(at)
      BY <2>7 DEF Target, TargetMode
    <3>4. charged_at # None => at - charged_at >= MinIdleBeforeDischarge
      <4> HIDE DEF mode, out
      <4> SUFFICES ASSUME charged_at # None
                   PROVE  at - charged_at >= MinIdleBeforeDischarge
        OBVIOUS
      <4>1. /\ charged_at \in Int /\ last_decision \in Int
            /\ MinIdleBeforeDischarge \in Int
            /\ last_idle_start # None => last_idle_start \in Int
        BY <1>1, TuningAssumption DEF TypeOK
      <4>2. CASE last_active_mode = "Charge"
        <5>1. last_idle_start # None /\ at - last_idle_start >= MinIdleBeforeDischarge
          BY <2>7, <3>3, <4>2 DEF IdleLongEnough
        <5>2. last_idle_start >= charged_at
          BY <1>1, <4>2, <5>1 DEF RestInv
        <5> QED BY <4>1, <5>1, <5>2
      <4>3. CASE last_active_mode = "Discharge"
        <5>1. last_decision - charged_at >= MinIdleBeforeDischarge
          BY <1>1, <4>3 DEF RestInv
        <5> QED BY <1>2, <4>1, <5>1
      <4>4. last_active_mode \in {"Charge", "Discharge"}
        BY <1>1 DEF RestInv, TypeOK, Active
      <4> QED BY <4>2, <4>3, <4>4
    <3>5. charged_at # None => charged_at <= at
      BY <1>1, <1>2 DEF RestInv, TypeOK
    <3> QED BY <2>2, <3>1, <3>2, <3>4, <3>5, OptionAssumption DEF RestInv, Modes, Active
  <2> QED BY <2>3, <2>4, <2>5, <2>6, <2>7
<1> QED BY <1>4, <1>5, <1>6, <1>7

\* The tenures opened today, after a call that may have opened one more.
LEMMA StartsAfter ==
  ASSUME NEW mode, NEW target, NEW power, NEW cap, NEW observed, NEW at,
         Returns(mode, target, power, cap, observed, at)
  PROVE  starts' = (IF Day(at) # Day(last_decision) THEN 0 ELSE starts)
                     + (IF last_mode' # last_mode /\ last_mode' \in Active THEN 1 ELSE 0)
BY DEF Returns, Remember

\* A call of `decide` keeps the tenures opened today under the transitions counted.
LEMMA BudgetStep ==
  ASSUME InductiveInv, NEW w \in WorldType, NEW at \in Int,
         \/ Override(w, at) \/ LimitCycles(w, at) \/ CoolDown(w, at) \/ Command(w, at)
  PROVE  BudgetInv'
<1> DEFINE kept == IF Day(at) # Day(last_decision) THEN 0 ELSE starts
<1>1. /\ starts \in Nat /\ daily_transitions \in Nat /\ CycleWarn \in Nat
      /\ starts <= daily_transitions
      /\ CycleWarn > 0 => daily_transitions <= CycleWarn
      /\ starts > 0 => Day(last_decision) = last_cycle_reset_day
  BY TuningAssumption DEF InductiveInv, BudgetInv, TypeOK
\* What the midnight reset leaves is never less than what is counted here.
<1>2. /\ kept \in Nat /\ Today(daily_transitions, at) \in Nat
      /\ kept <= Today(daily_transitions, at)
      /\ CycleWarn > 0 => Today(daily_transitions, at) <= CycleWarn
  BY <1>1 DEF Today
<1>3. ASSUME NEW moved \in {0, 1}, \E held : Count(at, moved, held),
             starts' \in {kept, kept + moved}, last_decision' = at,
             moved = 1 => ~LimitReached(at)
      PROVE  BudgetInv'
  <2>1. daily_transitions' = Today(daily_transitions, at) + moved
        /\ last_cycle_reset_day' = Day(at)
    BY <1>3 DEF Count
  <2>2. starts' <= daily_transitions'
    BY <1>2, <1>3, <2>1
  <2>3. CycleWarn > 0 => daily_transitions' <= CycleWarn
    BY <1>1, <1>2, <1>3, <2>1 DEF LimitReached
  <2> QED BY <1>3, <2>1, <2>2, <2>3 DEF BudgetInv
<1>4. CASE Override(w, at)
  <2>1. Returns("Idle", 0, 0, 0, 0, at)
    BY <1>4 DEF Override
  <2>2. last_mode' = "Idle"
    BY <1>4 DEF Override, EnterMode, KeepMode
  <2>3. starts' = kept /\ last_decision' = at
    BY <1>2, <2>1, <2>2, StartsAfter, Stamped DEF Active
  <2>4. daily_transitions' = daily_transitions
        /\ last_cycle_reset_day' = last_cycle_reset_day
    BY <1>4 DEF Override
  <2>5. starts' > 0 => Day(at) = Day(last_decision) /\ starts' = starts
    BY <2>3
  <2> QED BY <1>1, <2>3, <2>4, <2>5 DEF BudgetInv
<1>5. CASE LimitCycles(w, at)
  <2>1. Returns("Standby", 0, 0, 0, 0, at) /\ Count(at, 0, 0)
    BY <1>5 DEF LimitCycles
  <2>2. last_mode' = "Standby"
    BY <1>5 DEF LimitCycles, EnterMode, KeepMode
  <2>3. starts' = kept /\ last_decision' = at
    BY <1>2, <2>1, <2>2, StartsAfter, Stamped DEF Active
  <2> QED BY <1>3, <2>1, <2>3
<1>6. CASE CoolDown(w, at)
  <2>1. Returns("Idle", 0, 0, 0, 0, at) /\ Count(at, 0, 1) /\ last_mode' = last_mode
    BY <1>6 DEF CoolDown
  <2>2. starts' = kept /\ last_decision' = at
    BY <1>2, <2>1, StartsAfter, Stamped
  <2> QED BY <1>3, <2>1, <2>2
<1>7. CASE Command(w, at)
  <2> DEFINE mode  == Target(w, at)
             moved == IF mode # last_mode THEN 1 ELSE 0
  <2>1. \E out, target, sent, cap, seen : Returns(out, target, sent, cap, seen, at)
    BY <1>7 DEF Command
  <2>2. Count(at, moved, 0) /\ ~LimitReached(at)
    BY <1>7 DEF Command
  <2>3. last_mode' = mode
    BY <1>7 DEF Command, EnterMode, KeepMode
  <2>4. starts' = kept + (IF last_mode' # last_mode /\ last_mode' \in Active THEN 1 ELSE 0)
        /\ last_decision' = at
    BY <2>1, StartsAfter, Stamped
  <2>5. moved \in {0, 1} /\ starts' \in {kept, kept + moved}
    BY <1>2, <2>3, <2>4
  <2> QED BY <1>3, <2>2, <2>4, <2>5
<1> QED BY <1>4, <1>5, <1>6, <1>7

\* What a call of `decide` returns is within the cap and the rail.
LEMMA WindupStep ==
  ASSUME InductiveInv, NEW w \in WorldType, NEW at \in Int,
         \/ Override(w, at) \/ LimitCycles(w, at) \/ CoolDown(w, at) \/ Command(w, at)
  PROVE  NoWindup'
<1>1. ASSUME NEW mode, Returns(mode, 0, 0, 0, 0, at)
      PROVE  NoWindup'
  BY <1>1, Stamped, PowerAssumption DEF NoWindup
<1>2. CASE Override(w, at)
  BY <1>1, <1>2 DEF Override
<1>3. CASE LimitCycles(w, at)
  BY <1>1, <1>3 DEF LimitCycles
<1>4. CASE CoolDown(w, at)
  BY <1>1, <1>4 DEF CoolDown
<1>5. CASE Command(w, at)
  <2> DEFINE mode  == Target(w, at)
             power == TargetPower(mode, w)
             cap   == IF mode \in Active THEN Cap(mode, w) ELSE 0
             seen  == IF mode \in Active THEN Observed(mode, w) ELSE 0
  <2>1. PICK out, sent : Returns(out, power, sent, cap, seen, at) /\ sent \in {power, Ramped(power)}
    BY <1>5 DEF Command
  <2>2. power \in Nat /\ power <= cap /\ power <= seen + SlewLimit
    <3>1. CASE mode \in Active
      BY <3>1, TargetPowerBounds DEF InductiveInv, TypeOK
    <3>2. CASE mode \notin Active
      BY <3>2, PowerAssumption DEF TargetPower
    <3> QED BY <3>1, <3>2
  <2>3. cap \in Nat /\ seen \in Nat
    BY WorldTerms
  <2>4. sent \in Nat /\ sent <= power
    BY <2>1, <2>2, RampedBounds
  <2>5. decision'.power = sent /\ decision'.cap = cap /\ decision'.observed = seen
    BY <2>1, Stamped
  <2> HIDE DEF power, cap, seen
  <2> QED BY <2>2, <2>3, <2>4, <2>5, PowerAssumption DEF NoWindup
<1> QED BY <1>2, <1>3, <1>4, <1>5

\* What the strengthened invariant says of what a call leaves behind.
LEMMA InvKept ==
  ASSUME InductiveInv, UNCHANGED <<control, last_decision, decision, history>>
  PROVE  TenureInv' /\ RestInv' /\ BudgetInv' /\ NoWindup'
BY DEF InductiveInv, TenureInv, RestInv, BudgetInv, NoWindup, control, history

\* The strengthened invariant is inductive, whatever world a call is asked about.
LEMMA MeterInv ==
  ASSUME InductiveInv, NEW d \in Int, NEW w \in WorldType, Meter(w, d)
  PROVE  InductiveInv'
<1>1. TypeOK'
  BY MeterType DEF InductiveInv
<1>2. now' \in Int
  BY DEF Meter, InductiveInv, TypeOK
<1>3. CASE TooSoon(now')
  BY <1>1, <1>3, InvKept DEF InductiveInv, TooSoon
<1>4. CASE \/ Override(w, now') \/ LimitCycles(w, now')
           \/ CoolDown(w, now') \/ Command(w, now')
  BY <1>1, <1>2, <1>4, TenureStep, RestStep, BudgetStep, WindupStep DEF InductiveInv
<1> QED BY <1>3, <1>4 DEF Meter

LEMMA InvStep == InductiveInv /\ [Next]_vars => InductiveInv'
<1> SUFFICES ASSUME InductiveInv, [Next]_vars PROVE InductiveInv'
  OBVIOUS
<1>1. TypeOK'
  BY TypeStep DEF InductiveInv
<1>2. CASE UNCHANGED vars
  BY <1>1, <1>2, InvKept DEF InductiveInv, vars
<1>3. ASSUME NEW drawing \in CarDraws, ObserveCharger(drawing) PROVE InductiveInv'
  BY <1>1, <1>3, InvKept DEF InductiveInv, ObserveCharger
<1>4. ASSUME NEW d \in ClockSteps, NEW w \in Worlds, Meter(w, d) PROVE InductiveInv'
  BY <1>4, MeterInv, InputAssumption
<1> QED BY <1>2, <1>3, <1>4 DEF Next

\* The strengthened invariant holds in every reachable state.
THEOREM Inductive == Spec => []InductiveInv
<1>1. Init => InductiveInv
  BY InvInit
<1>2. InductiveInv /\ [Next]_vars => InductiveInv'
  BY InvStep
<1> QED BY <1>1, <1>2, PTL DEF Spec

-----------------------------------------------------------------------------
(* The properties.                                                           *)

\* What the strengthened invariant says of the last decision and of the day.
LEMMA InvKeeps == InductiveInv => RestBeforeDischarge /\ CycleBudget /\ NoWindup
<1> SUFFICES ASSUME InductiveInv PROVE RestBeforeDischarge /\ CycleBudget /\ NoWindup
  OBVIOUS
<1>1. RestBeforeDischarge
  BY DEF InductiveInv, TenureInv, RestInv, RestBeforeDischarge, Active
<1>2. CycleBudget
  <2> SUFFICES ASSUME CycleWarn > 0 PROVE starts <= CycleWarn
    BY DEF CycleBudget
  <2>1. starts \in Nat /\ daily_transitions \in Nat /\ CycleWarn \in Nat
    BY TuningAssumption DEF InductiveInv, TypeOK
  <2>2. starts <= daily_transitions /\ daily_transitions <= CycleWarn
    BY DEF InductiveInv, BudgetInv
  <2> QED BY <2>1, <2>2
<1>3. NoWindup
  BY DEF InductiveInv
<1> QED BY <1>1, <1>2, <1>3

\* A discharge waits out the idle after the last charge, for every tuning and
\* every sequence of worlds and clock steps.
THEOREM RestIsKept == Spec => []RestBeforeDischarge
<1> QED BY InvKeeps, Inductive, PTL

\* The day's charge and discharge tenures never exceed the cycle limit.
THEOREM BudgetIsKept == Spec => []CycleBudget
<1> QED BY InvKeeps, Inductive, PTL

\* A setpoint respects the reported cap and the anti-windup rail.
THEOREM RailsHold == Spec => []NoWindup
<1> QED BY InvKeeps, Inductive, PTL

\* A call of `decide` reverses only a discharge that has lasted.
LEMMA ReversalStep ==
  ASSUME InductiveInv, NEW w \in WorldType, NEW at \in Int,
         \/ Override(w, at) \/ LimitCycles(w, at) \/ CoolDown(w, at) \/ Command(w, at)
  PROVE  /\ decision.mode = "Discharge" /\ decision'.mode = "Charge"
              => decision'.at - last_mode_change >= MinModeDuration
         /\ decision.mode = "Charge" => decision'.mode # "Discharge"
<1>1. decision.mode \in Active => last_mode = decision.mode
  BY DEF InductiveInv, TenureInv
<1>2. CASE Override(w, at)
  <2>1. decision'.mode = "Idle"
    BY <1>2, Stamped DEF Override
  <2> QED BY <2>1
<1>3. CASE LimitCycles(w, at)
  <2>1. decision'.mode = "Standby"
    BY <1>3, Stamped DEF LimitCycles
  <2> QED BY <2>1
<1>4. CASE CoolDown(w, at)
  <2>1. decision'.mode = "Idle"
    BY <1>4, Stamped DEF CoolDown
  <2> QED BY <2>1
<1>5. CASE Command(w, at)
  <2> DEFINE mode == Target(w, at)
  <2>1. PICK target, sent, cap, seen :
          Returns(IF mode = "Idle" /\ IdledOut(at) THEN "Standby" ELSE mode,
                  target, sent, cap, seen, at)
    BY <1>5 DEF Command
  <2>2. /\ decision'.at = at
        /\ decision'.mode = IF mode = "Idle" /\ IdledOut(at) THEN "Standby" ELSE mode
    BY <2>1, Stamped
  <2>3. ~Suppressed(mode, at)
    BY <1>5 DEF Command
  <2>4. ASSUME decision.mode = "Discharge", decision'.mode = "Charge"
        PROVE  decision'.at - last_mode_change >= MinModeDuration
    <3>1. last_mode = "Discharge" /\ mode = "Charge"
      BY <1>1, <2>2, <2>4 DEF Active
    <3>2. ~(at - last_mode_change < MinModeDuration)
      BY <2>3, <3>1 DEF Suppressed, Opposing, Active
    <3>3. last_mode_change \in Int /\ MinModeDuration \in Int
      BY TuningAssumption DEF InductiveInv, TypeOK
    <3> QED BY <2>2, <3>2, <3>3
  <2>5. ASSUME decision.mode = "Charge" PROVE decision'.mode # "Discharge"
    BY <1>1, <2>2, <2>5, NoDischargeFromCharge DEF Active
  <2> QED BY <2>4, <2>5
<1> QED BY <1>2, <1>3, <1>4, <1>5

\* Charge never turns straight into discharge, and discharge turns into charge
\* only after MinModeDuration.
THEOREM ReversalsAreSpaced == Spec => ReversalsSpaced
<1> DEFINE A == /\ decision.mode = "Discharge" /\ decision'.mode = "Charge"
                     => decision'.at - last_mode_change >= MinModeDuration
                /\ decision.mode = "Charge" => decision'.mode # "Discharge"
<1>1. InductiveInv /\ [Next]_vars => [A]_vars
  <2> SUFFICES ASSUME InductiveInv, [Next]_vars PROVE [A]_vars
    OBVIOUS
  <2>1. CASE UNCHANGED decision
    BY <2>1
  <2>2. ASSUME NEW drawing \in CarDraws, ObserveCharger(drawing) PROVE A
    BY <2>1, <2>2 DEF ObserveCharger
  <2>3. ASSUME NEW d \in ClockSteps, NEW w \in Worlds, Meter(w, d) PROVE A
    <3>1. now' \in Int /\ w \in WorldType
      BY <2>3, InputAssumption DEF Meter, InductiveInv, TypeOK
    <3>2. CASE TooSoon(now')
      BY <2>1, <3>2 DEF TooSoon
    <3>3. CASE \/ Override(w, now') \/ LimitCycles(w, now')
               \/ CoolDown(w, now') \/ Command(w, now')
      BY <3>1, <3>3, ReversalStep
    <3> QED BY <2>3, <3>2, <3>3 DEF Meter
  <2> QED BY <2>2, <2>3 DEF Next
<1>2. Spec => []InductiveInv
  BY Inductive
<1> QED BY <1>1, <1>2, PTL DEF Spec, ReversalsSpaced
-----------------------------------------------------------------------------
(* What a discharge and a first setpoint are decided under.                   *)

\* Only the last way out of `decide` returns an active mode or a positive power.
LEMMA OnlyCommandActs ==
  ASSUME InductiveInv, [Next]_vars, decision' # decision,
         decision'.mode = "Discharge" \/ decision'.power > 0
  PROVE  \E w \in WorldType : Command(w, now')
<1>1. ASSUME NEW drawing \in CarDraws PROVE ~ObserveCharger(drawing)
  BY DEF ObserveCharger
<1>2. PICK d \in ClockSteps, w \in Worlds : Meter(w, d)
  BY <1>1 DEF Next, vars
<1>3. now' \in Int /\ w \in WorldType
  BY <1>2, InputAssumption DEF Meter, InductiveInv, TypeOK
<1>4. ~TooSoon(now')
  BY DEF TooSoon
<1>5. ~Override(w, now')
  BY <1>3, Stamped DEF Override
<1>6. ~LimitCycles(w, now')
  BY <1>3, Stamped DEF LimitCycles
<1>7. ~CoolDown(w, now')
  BY <1>3, Stamped DEF CoolDown
<1> QED
  BY <1>2, <1>3, <1>4, <1>5, <1>6, <1>7 DEF Meter

\* Whatever the tuning and however its readings arrive, a car that a valid reading
\* shows drawing is never discharged into.
THEOREM CarIsHeld == Spec => CarHeld
<1> DEFINE A == decision' # decision /\ decision'.mode = "Discharge" => ~CarCharging(decision'.at)
<1>1. InductiveInv /\ [Next]_vars => [A]_vars
  <2> SUFFICES ASSUME InductiveInv, [Next]_vars, decision' # decision, decision'.mode = "Discharge"
               PROVE  ~CarCharging(decision'.at)
    OBVIOUS
  <2>1. PICK w \in WorldType : Command(w, now')
    BY OnlyCommandActs
  <2>2. decision'.at = now' /\ Target(w, now') = "Discharge"
    BY <2>1, Stamped DEF Command
  <2>3. ~HeldForCar(w, now') /\ TargetMode(w, now') = "Discharge"
    BY <2>2 DEF Target
  <2>4. DischargeWanted(w)
    BY <2>3 DEF TargetMode
  <2> QED
    BY <2>2, <2>3, <2>4 DEF HeldForCar
<1> QED BY <1>1, Inductive, PTL DEF Spec, CarHeld

\* A tenure that no power has been wanted in still owes its ramp.
RampOwed == last_mode \in Active /\ ~eased => ramp_pending

\* Every call keeps it.
LEMMA RampStep == InductiveInv /\ RampOwed /\ [Next]_vars => RampOwed'
<1> SUFFICES ASSUME InductiveInv, RampOwed, [Next]_vars PROVE RampOwed'
  OBVIOUS
<1>1. CASE UNCHANGED vars
  BY <1>1 DEF vars, control, history, RampOwed
<1>2. ASSUME NEW drawing \in CarDraws, ObserveCharger(drawing) PROVE RampOwed'
  BY <1>2 DEF ObserveCharger, control, history, RampOwed
<1>3. ASSUME NEW d \in ClockSteps, NEW w \in Worlds, Meter(w, d) PROVE RampOwed'
  <2>1. CASE TooSoon(now')
    BY <2>1 DEF TooSoon, control, history, RampOwed
  <2>2. CASE Override(w, now')
    BY <2>2 DEF Override, EnterMode, KeepMode, RampOwed, Active
  <2>3. CASE LimitCycles(w, now')
    BY <2>3 DEF LimitCycles, EnterMode, KeepMode, RampOwed, Active
  <2>4. CASE CoolDown(w, now')
    <3>1. UNCHANGED <<last_mode, ramp_pending>>
      BY <2>4 DEF CoolDown
    <3>2. eased' = (0 > 0 \/ (eased /\ ~(last_mode' # last_mode)))
      BY <2>4 DEF CoolDown, Returns, Remember
    <3>3. eased => eased'
      BY <3>1, <3>2
    <3> QED BY <3>1, <3>3 DEF RampOwed
  <2>5. CASE Command(w, now')
    <3> DEFINE mode  == Target(w, now')
               power == TargetPower(mode, w)
    <3>1. last_mode' = mode /\ (mode # last_mode => (eased' <=> power > 0))
                            /\ (mode = last_mode => (eased' <=> power > 0 \/ eased))
      BY <2>5 DEF Command, EnterMode, KeepMode, Returns, Remember
    <3>2. CASE power > 0
      BY <3>1, <3>2 DEF RampOwed
    <3>3. CASE ~(power > 0) /\ mode # last_mode
      <4>1. ramp_pending' <=> mode \in Active
        BY <2>5, <3>3 DEF Command, Pending
      <4> QED BY <3>1, <4>1 DEF RampOwed
    <3>4. CASE ~(power > 0) /\ mode = last_mode
      <4>1. ramp_pending' <=> ramp_pending
        BY <2>5, <3>4 DEF Command, Pending
      <4> QED BY <3>1, <3>4, <4>1 DEF RampOwed
    <3> QED BY <3>2, <3>3, <3>4
  <2> QED BY <1>3, <2>1, <2>2, <2>3, <2>4, <2>5 DEF Meter
<1> QED BY <1>1, <1>2, <1>3 DEF Next

\* Whatever the caps and the grid do between, the first positive setpoint of a tenure
\* is ramped.
THEOREM FirstSetpointIsRamped == Spec => FirstSetpointRamped
<1> DEFINE A == decision' # decision /\ decision'.power > 0 /\ (last_mode' # last_mode \/ ~eased)
                  => 100 * decision'.power <= RampFactor * decision'.cap
<1>1. Init => RampOwed
  BY DEF Init, RampOwed, Active
<1>2. Spec => []RampOwed
  BY <1>1, RampStep, Inductive, PTL DEF Spec
<1>3. InductiveInv /\ RampOwed /\ [Next]_vars => [A]_vars
  <2> SUFFICES ASSUME InductiveInv, RampOwed, [Next]_vars, decision' # decision, decision'.power > 0,
                      last_mode' # last_mode \/ ~eased
               PROVE  100 * decision'.power <= RampFactor * decision'.cap
    OBVIOUS
  <2>1. PICK w \in WorldType : Command(w, now')
    BY OnlyCommandActs
  <2> DEFINE mode  == Target(w, now')
             power == TargetPower(mode, w)
             ramps == power > 0 /\ IF mode # last_mode THEN mode \in Active ELSE ramp_pending
  <2>2. /\ last_mode' = mode
        /\ decision'.power = IF ramps THEN Ramped(power) ELSE power
        /\ decision'.cap = IF mode \in Active THEN Cap(mode, w) ELSE 0
    BY <2>1, Stamped DEF Command, EnterMode, KeepMode
  <2>3. mode \in Active
    <3>1. mode \notin Active => power = 0
      BY DEF TargetPower
    <3> QED BY <2>2, <3>1 DEF Ramped, RampFactor
  <2>4. power \in Nat /\ power <= Cap(mode, w) /\ Cap(mode, w) \in Nat
    BY <2>3, TargetPowerBounds, WorldTerms DEF InductiveInv, TypeOK
  <2>5. power > 0
    BY <2>2, <2>4 DEF Ramped, RampFactor
  <2>6. ramps
    BY <2>2, <2>3, <2>5 DEF RampOwed
  <2>7. decision'.power = Ramped(power) /\ decision'.cap = Cap(mode, w)
    BY <2>2, <2>3, <2>6
  <2> HIDE DEF power, mode
  <2>8. 100 * Ramped(power) <= 75 * power
    BY <2>4 DEF Ramped, RampFactor
  <2>9. Ramped(power) \in Int
    BY <2>4, RampedBounds
  <2> QED BY <2>4, <2>7, <2>8, <2>9 DEF RampFactor
<1> QED BY <1>2, <1>3, Inductive, PTL DEF Spec, FirstSetpointRamped

-----------------------------------------------------------------------------
(* The simulated plant: a flow that ramps, and what it moves.                 *)

\* The one between the other two, whichever way they go.
Between(x, y, z) == (x <= y /\ y <= z) \/ (z <= y /\ y <= x)

\* At an instant of the ramp the flow is on its way from what it was to the target, as
\* far as the rate takes it; and where it came less far, it arrived.
LEMMA FlowMoves ==
  ASSUME NEW b \in Plant!Batteries, NEW s \in Int, NEW t \in Int, s <= t
  PROVE  /\ Plant!FlowAt(b, s) \in Int /\ Plant!FlowAt(b, t) \in Int /\ Rate * (t - s) \in Nat
         /\ Plant!Size(Plant!FlowAt(b, t) - Plant!FlowAt(b, s)) <= Rate * (t - s)
         /\ Between(Plant!FlowAt(b, s), Plant!FlowAt(b, t), b.target)
         /\ b.started <= s /\ Plant!Size(Plant!FlowAt(b, t) - Plant!FlowAt(b, s)) < Rate * (t - s)
              => Plant!FlowAt(b, t) = b.target
<1>1. b.origin \in Int /\ b.target \in Int /\ b.started \in Int /\ Rate \in Nat
  BY PlantAssumption DEF Plant!Batteries
<1>2. PICK o \in Int, g \in Int : o = b.origin /\ g = b.target
  BY <1>1
<1>3. PICK x \in Nat, y \in Nat :
        /\ x = Plant!Most(0, s - b.started) /\ y = Plant!Most(0, t - b.started)
        /\ x <= y /\ y <= x + (t - s) /\ (b.started <= s => y = x + (t - s))
  BY <1>1 DEF Plant!Most
<1>4. PICK d \in Nat : d = t - s
  OBVIOUS
<1>5. PICK v \in Nat, w \in Nat, m \in Nat : v = Rate * x /\ w = Rate * y /\ m = Rate * d
  BY <1>1
<1>6. v <= w /\ w <= v + m /\ (b.started <= s => w = v + m)
  <2>1. \A i, j \in Nat : i <= j => Rate * i <= Rate * j
    BY <1>1
  <2>2. Rate * (x + d) = Rate * x + Rate * d
    BY <1>1
  <2>3. v <= w
    BY <1>3, <1>5, <2>1
  <2>4. w <= v + m
    BY <1>3, <1>4, <1>5, <2>1, <2>2
  <2>5. b.started <= s => w = v + m
    BY <1>3, <1>4, <1>5, <2>2
  <2> QED
    BY <2>3, <2>4, <2>5
<1>7. PICK f \in Int : f = Plant!FlowAt(b, s) /\ f = o + Plant!Within(g - o, -v, v)
  <2>1. Plant!FlowAt(b, s) = o + Plant!Within(g - o, -v, v)
    BY <1>2, <1>3, <1>5 DEF Plant!FlowAt
  <2>2. o + Plant!Within(g - o, -v, v) \in Int
    BY <1>2 DEF Plant!Within, Plant!Most, Plant!Least
  <2> QED
    BY <2>1, <2>2
<1>8. PICK h \in Int : h = Plant!FlowAt(b, t) /\ h = o + Plant!Within(g - o, -w, w)
  <2>1. Plant!FlowAt(b, t) = o + Plant!Within(g - o, -w, w)
    BY <1>2, <1>3, <1>5 DEF Plant!FlowAt
  <2>2. o + Plant!Within(g - o, -w, w) \in Int
    BY <1>2 DEF Plant!Within, Plant!Most, Plant!Least
  <2> QED
    BY <2>1, <2>2
<1>9. /\ Plant!Size(h - f) <= m /\ Between(f, h, g)
      /\ b.started <= s /\ Plant!Size(h - f) < m => h = g
  <2>1. CASE -v <= g - o /\ g - o <= v
    <3>1. f = g /\ h = g
      BY <1>6, <1>7, <1>8, <2>1 DEF Plant!Within, Plant!Most, Plant!Least
    <3> QED
      BY <3>1 DEF Plant!Size, Plant!Most, Between
  <2>2. CASE g - o > v
    <3>1. f = o + v /\ h = o + Plant!Least(g - o, w)
      BY <1>6, <1>7, <1>8, <2>2 DEF Plant!Within, Plant!Most, Plant!Least
    <3>2. f <= h /\ h <= g /\ (h = o + w \/ h = g) /\ h <= o + w
      BY <1>6, <2>2, <3>1 DEF Plant!Least
    <3>3. Plant!Size(h - f) = h - f
      BY <3>2 DEF Plant!Size, Plant!Most
    <3> QED
      BY <1>6, <3>1, <3>2, <3>3 DEF Between
  <2>3. CASE g - o < -v
    <3>1. f = o - v /\ h = o + Plant!Most(g - o, -w)
      BY <1>6, <1>7, <1>8, <2>3 DEF Plant!Within, Plant!Most, Plant!Least
    <3>2. h <= f /\ g <= h /\ (h = o - w \/ h = g) /\ o - w <= h
      BY <1>6, <2>3, <3>1 DEF Plant!Most
    <3>3. Plant!Size(h - f) = f - h
      BY <3>2 DEF Plant!Size, Plant!Most
    <3> QED
      BY <1>6, <3>1, <3>2, <3>3 DEF Between
  <2> QED
    BY <2>1, <2>2, <2>3
<1> QED
  BY <1>2, <1>4, <1>5, <1>7, <1>8, <1>9

\* No further than the rate takes it, read in whichever order.
LEMMA FlowNear ==
  ASSUME NEW b \in Plant!Batteries, NEW s \in Int, NEW t \in Int
  PROVE  /\ Plant!FlowAt(b, t) - Plant!FlowAt(b, s) <= Rate * Plant!Size(t - s)
         /\ Plant!FlowAt(b, s) - Plant!FlowAt(b, t) <= Rate * Plant!Size(t - s)
<1>1. CASE s <= t
  <2>1. Plant!Size(t - s) = t - s
    BY <1>1 DEF Plant!Size, Plant!Most
  <2>2. /\ Plant!FlowAt(b, s) \in Int /\ Plant!FlowAt(b, t) \in Int /\ Rate * (t - s) \in Nat
        /\ Plant!Size(Plant!FlowAt(b, t) - Plant!FlowAt(b, s)) <= Rate * (t - s)
    BY <1>1, FlowMoves
  <2> QED
    BY <2>1, <2>2 DEF Plant!Size, Plant!Most
<1>2. CASE t <= s
  <2>1. Plant!Size(t - s) = s - t
    BY <1>2 DEF Plant!Size, Plant!Most
  <2>2. /\ Plant!FlowAt(b, s) \in Int /\ Plant!FlowAt(b, t) \in Int /\ Rate * (s - t) \in Nat
        /\ Plant!Size(Plant!FlowAt(b, s) - Plant!FlowAt(b, t)) <= Rate * (s - t)
    BY <1>2, FlowMoves
  <2> QED
    BY <2>1, <2>2 DEF Plant!Size, Plant!Most
<1> QED
  BY <1>1, <1>2

LEMMA Squares ==
  ASSUME NEW a \in Nat, NEW c \in Nat, a <= c
  PROVE  a * a \in Nat /\ c * c \in Nat /\ a * a <= c * c
<1>1. a * a <= a * c
  OBVIOUS
<1>2. a * c <= c * c
  OBVIOUS
<1> QED
  BY <1>1, <1>2

\* A ramp cut in two covers the area of the whole.
LEMMA AreaAdds ==
  ASSUME NEW p \in Nat, NEW q \in Nat, NEW r \in Nat, Between(p, q, r),
         NEW h \in Nat, NEW k \in Nat, h = 0 \/ q = r
  PROVE  Plant!Area(p, r, h + k) = Plant!Area(p, q, h) + Plant!Area(q, r, k)
<1>1. PICK pp \in Nat, qq \in Nat, rr \in Nat : pp = p * p /\ qq = q * q /\ rr = r * r
  OBVIOUS
<1>2. Between(pp, qq, rr)
  BY <1>1, Squares DEF Between
<1>3. PICK hr \in Nat, kr \in Nat : hr = h * r /\ kr = k * r
  OBVIOUS
<1>4. 2 * h * q = 2 * hr /\ 2 * k * r = 2 * kr /\ 2 * (h + k) * r = 2 * hr + 2 * kr
  BY <1>3
<1>5. /\ Plant!Area(p, r, h + k) = Plant!Size(rr - pp) + (2 * hr + 2 * kr)
      /\ Plant!Area(p, q, h) = Plant!Size(qq - pp) + 2 * hr
      /\ Plant!Area(q, r, k) = Plant!Size(rr - qq) + 2 * kr
  BY <1>1, <1>4 DEF Plant!Area
<1>6. Plant!Size(rr - pp) = Plant!Size(qq - pp) + Plant!Size(rr - qq)
  BY <1>2 DEF Between, Plant!Size, Plant!Most
<1>7. Plant!Size(qq - pp) \in Int /\ Plant!Size(rr - qq) \in Int
  BY DEF Plant!Size, Plant!Most
<1> QED
  BY <1>5, <1>6, <1>7

\* The part of a ramp to one side of zero goes no further than the ramp, and the way the
\* ramp goes; so what it moves either way is a whole number that a read does not change.
Held(b, s, t) == Rate * (t - s) - Plant!Size(Plant!FlowAt(b, t) - Plant!FlowAt(b, s))
Charged(x)    == Plant!Most(0, -x)
Discharged(x) == Plant!Most(0, x)

LEMMA AreaInt ==
  ASSUME NEW p \in Nat, NEW q \in Nat, NEW h \in Nat
  PROVE  Plant!Area(p, q, h) \in Nat
<1>1. PICK pp \in Nat, qq \in Nat, hq \in Nat : pp = p * p /\ qq = q * q /\ hq = 2 * h * q
  OBVIOUS
<1>2. Plant!Area(p, q, h) = Plant!Size(qq - pp) + hq
  BY <1>1 DEF Plant!Area
<1> QED
  BY <1>2 DEF Plant!Size, Plant!Most

LEMMA MovedIs ==
  ASSUME NEW b \in Plant!Batteries, NEW s \in Int, NEW t \in Int, s <= t
  PROVE  LET f == Plant!FlowAt(b, s)
             h == Plant!FlowAt(b, t)
             moved == Plant!Moved(b, s, t)
         IN /\ Held(b, s, t) \in Nat
            /\ moved.charged = Plant!Area(Charged(f), Charged(h), Held(b, s, t))
            /\ moved.discharged = Plant!Area(Discharged(f), Discharged(h), Held(b, s, t))
            /\ moved.charged \in Nat /\ moved.discharged \in Nat
<1> DEFINE f == Plant!FlowAt(b, s)
           h == Plant!FlowAt(b, t)
           moved == Plant!Moved(b, s, t)
           held == Held(b, s, t)
<1>1. f \in Int /\ h \in Int /\ Rate * (t - s) \in Nat /\ Plant!Size(h - f) <= Rate * (t - s)
  BY FlowMoves
<1>2. Rate * (t - s) - Plant!Size(h - f) \in Nat
  BY <1>1 DEF Plant!Size, Plant!Most
<1>3. held \in Nat
  BY <1>2 DEF Held
<1>4. /\ moved.charged = Plant!Area(Charged(f), Charged(h), held)
      /\ moved.discharged = Plant!Area(Discharged(f), Discharged(h), held)
  BY DEF Plant!Moved, Held, Charged, Discharged
<1>5. \A x \in Int : Charged(x) \in Nat /\ Discharged(x) \in Nat
  BY DEF Charged, Discharged, Plant!Most
<1> HIDE DEF f, h, held, moved
<1>6. Charged(f) \in Nat /\ Charged(h) \in Nat /\ Discharged(f) \in Nat /\ Discharged(h) \in Nat
  BY <1>1, <1>5
<1> HIDE DEF Charged, Discharged
<1>7. /\ Plant!Area(Charged(f), Charged(h), held) \in Nat
      /\ Plant!Area(Discharged(f), Discharged(h), held) \in Nat
  BY <1>3, <1>6, AreaInt
<1> QED
  BY <1>3, <1>4, <1>7 DEF f, h, held, moved

LEMMA MovedAdds ==
  ASSUME NEW b \in Plant!Batteries, NEW r \in Int, NEW s \in Int, NEW t \in Int,
         b.started <= r, r <= s, s <= t
  PROVE  /\ Plant!Moved(b, r, t).charged = Plant!Moved(b, r, s).charged + Plant!Moved(b, s, t).charged
         /\ Plant!Moved(b, r, t).discharged
              = Plant!Moved(b, r, s).discharged + Plant!Moved(b, s, t).discharged
<1>1. PICK f \in Int, g \in Int, h \in Int, target \in Int :
        f = Plant!FlowAt(b, r) /\ g = Plant!FlowAt(b, s) /\ h = Plant!FlowAt(b, t) /\ target = b.target
  BY FlowMoves DEF Plant!Batteries
<1>2. PICK m \in Nat, n \in Nat : m = Rate * (s - r) /\ n = Rate * (t - s)
  BY FlowMoves
<1>3. Rate * (t - r) = m + n
  BY <1>2, PlantAssumption
<1>4. /\ Between(f, g, target) /\ Plant!Size(g - f) <= m /\ (Plant!Size(g - f) < m => g = target)
      /\ Between(g, h, target) /\ Plant!Size(h - g) <= n
  BY <1>1, <1>2, FlowMoves
<1>5. Between(f, g, h) /\ Plant!Size(h - f) = Plant!Size(g - f) + Plant!Size(h - g)
  BY <1>4 DEF Between, Plant!Size, Plant!Most
<1>6. PICK i \in Nat, k \in Nat : i = Held(b, r, s) /\ k = Held(b, s, t)
  BY MovedIs
<1>7. i = m - Plant!Size(g - f) /\ k = n - Plant!Size(h - g) /\ Plant!Size(g - f) \in Nat /\ Plant!Size(h - g) \in Nat
  BY <1>1, <1>2, <1>6 DEF Held, Plant!Size, Plant!Most
<1>8. Held(b, r, t) = i + k
  BY <1>1, <1>3, <1>5, <1>7 DEF Held
<1>9. i = 0 \/ g = h
  <2>1. i # 0 => g = target
    BY <1>4, <1>7
  <2>2. g = target => g = h
    BY <1>4 DEF Between
  <2> QED
    BY <2>1, <2>2
<1>10. /\ Charged(f) \in Nat /\ Charged(g) \in Nat /\ Charged(h) \in Nat
       /\ Between(Charged(f), Charged(g), Charged(h)) /\ (i = 0 \/ Charged(g) = Charged(h))
  BY <1>5, <1>9 DEF Between, Charged, Plant!Most
<1>11. /\ Discharged(f) \in Nat /\ Discharged(g) \in Nat /\ Discharged(h) \in Nat
       /\ Between(Discharged(f), Discharged(g), Discharged(h)) /\ (i = 0 \/ Discharged(g) = Discharged(h))
  BY <1>5, <1>9 DEF Between, Discharged, Plant!Most
<1>12. /\ Plant!Area(Charged(f), Charged(h), i + k)
            = Plant!Area(Charged(f), Charged(g), i) + Plant!Area(Charged(g), Charged(h), k)
       /\ Plant!Area(Discharged(f), Discharged(h), i + k)
            = Plant!Area(Discharged(f), Discharged(g), i) + Plant!Area(Discharged(g), Discharged(h), k)
  <2>1. \A p, q, z \in Nat : Between(p, q, z) /\ (i = 0 \/ q = z) =>
          Plant!Area(p, z, i + k) = Plant!Area(p, q, i) + Plant!Area(q, z, k)
    BY AreaAdds
  <2> HIDE DEF Between
  <2> QED
    BY <1>10, <1>11, <2>1
<1>13. r <= t
  OBVIOUS
<1>14. /\ Plant!Moved(b, r, t).charged = Plant!Area(Charged(f), Charged(h), i + k)
       /\ Plant!Moved(b, r, t).discharged = Plant!Area(Discharged(f), Discharged(h), i + k)
  BY <1>1, <1>8, <1>13, MovedIs
<1>15. /\ Plant!Moved(b, r, s).charged = Plant!Area(Charged(f), Charged(g), i)
       /\ Plant!Moved(b, r, s).discharged = Plant!Area(Discharged(f), Discharged(g), i)
       /\ Plant!Moved(b, s, t).charged = Plant!Area(Charged(g), Charged(h), k)
       /\ Plant!Moved(b, s, t).discharged = Plant!Area(Discharged(g), Discharged(h), k)
  BY <1>1, <1>6, MovedIs
<1> QED
  BY <1>12, <1>14, <1>15

\* What is in store after a span: what it holds after two, one by one.
StoredAt(b, until) == Plant!SettledAt(b.stored, Plant!Moved(b, b.last, until))

LEMMA SettledIs ==
  ASSUME NEW b \in Plant!Batteries, NEW s \in Int, NEW t \in Int, s <= t, NEW x \in Int
  PROVE  /\ Plant!SettledAt(x, Plant!Moved(b, s, t)) \in Int
         /\ Plant!SettledAt(x, Plant!Moved(b, s, t))
              = x + (ChargeGain * Plant!Moved(b, s, t).charged - DischargeCost * Plant!Moved(b, s, t).discharged)
<1>1. PICK c \in Nat, d \in Nat : c = Plant!Moved(b, s, t).charged /\ d = Plant!Moved(b, s, t).discharged
  BY MovedIs
<1>2. ChargeGain * c \in Int /\ DischargeCost * d \in Int
  BY PlantAssumption
<1> QED
  BY <1>1, <1>2 DEF Plant!SettledAt

LEMMA SettledAdds ==
  ASSUME NEW b \in Plant!Batteries, NEW r \in Int, NEW s \in Int, NEW t \in Int,
         b.started <= r, r <= s, s <= t, NEW x \in Int
  PROVE  Plant!SettledAt(Plant!SettledAt(x, Plant!Moved(b, r, s)), Plant!Moved(b, s, t))
           = Plant!SettledAt(x, Plant!Moved(b, r, t))
<1>1. PICK c \in Nat, d \in Nat, e \in Nat, f \in Nat :
        /\ c = Plant!Moved(b, r, s).charged /\ d = Plant!Moved(b, r, s).discharged
        /\ e = Plant!Moved(b, s, t).charged /\ f = Plant!Moved(b, s, t).discharged
  BY MovedIs
<1>2. Plant!Moved(b, r, t).charged = c + e /\ Plant!Moved(b, r, t).discharged = d + f
  BY <1>1, MovedAdds
<1>3. /\ ChargeGain * c \in Int /\ ChargeGain * e \in Int /\ ChargeGain * (c + e) = ChargeGain * c + ChargeGain * e
      /\ DischargeCost * d \in Int /\ DischargeCost * f \in Int
      /\ DischargeCost * (d + f) = DischargeCost * d + DischargeCost * f
  BY PlantAssumption
<1> QED
  BY <1>1, <1>2, <1>3 DEF Plant!SettledAt

-----------------------------------------------------------------------------
(* Advancing the plant and commanding it.                                     *)

SameRamp(a, b) ==
  a.origin = b.origin /\ a.started = b.started /\ a.target = b.target /\ a.standby = b.standby

LEMMA RampsAlike ==
  ASSUME NEW a, NEW b, SameRamp(a, b)
  PROVE  /\ \A t : Plant!FlowAt(a, t) = Plant!FlowAt(b, t)
         /\ \A s, t : Plant!Moved(a, s, t) = Plant!Moved(b, s, t)
<1>1. \A t : Plant!FlowAt(a, t) = Plant!FlowAt(b, t)
  BY DEF SameRamp, Plant!FlowAt
<1> QED
  BY <1>1 DEF Plant!Moved

\* A pack that was advanced: what a clamp lets land, and the flow that takes.
LEMMA RoundedInt ==
  ASSUME NEW n \in Int, NEW d \in Nat \ {0}
  PROVE  Plant!Rounded(n, d) \in Int
<1>1. 2 * d \in Nat \ {0} /\ -2 * n + d \in Int /\ 2 * n + d \in Int
  OBVIOUS
<1>2. (-2 * n + d) \div (2 * d) \in Int /\ (2 * n + d) \div (2 * d) \in Int
  BY <1>1
<1> QED
  BY <1>2 DEF Plant!Rounded

LEMMA AchievedInt ==
  ASSUME NEW landed \in Int, NEW dt \in Nat \ {0}
  PROVE  Plant!AchievedFlow(landed, dt) \in Int
<1>1. PICK c \in Nat \ {0} : c = IF landed > 0 THEN ChargeGain ELSE DischargeCost
  BY PlantAssumption
<1>2. c * 2 * Rate * dt \in Nat \ {0}
  <2>1. c * 2 \in Nat \ {0}
    OBVIOUS
  <2>2. \A m, n \in Nat \ {0} : m * n \in Nat \ {0}
    OBVIOUS
  <2> QED
    BY <2>1, <2>2, PlantAssumption
<1>3. -landed \in Int
  OBVIOUS
<1> QED
  BY <1>1, <1>2, <1>3, RoundedInt DEF Plant!AchievedFlow

\* Within what the pack takes, and on the ramp it is on.
Packed(b) == b \in Plant!Batteries /\ b.stored \in 0 .. Capacity /\ b.started <= b.last

LEMMA StoredInt ==
  ASSUME NEW b, Packed(b), NEW t \in Int, b.last <= t
  PROVE  StoredAt(b, t) \in Int
<1>1. b \in Plant!Batteries /\ b.last \in Int /\ b.stored \in Int
  BY DEF Packed, Plant!Batteries
<1> QED
  BY <1>1, SettledIs DEF StoredAt

LEMMA AdvancedIs ==
  ASSUME NEW b, Packed(b), NEW t \in Int, b.last < t
  PROVE  LET a == Plant!Advanced(b, t)
         IN /\ Packed(a) /\ SameRamp(a, b) /\ a.last = t
            /\ a.stored = Plant!Within(StoredAt(b, t), 0, Capacity)
            /\ a.power = Plant!Power(b, StoredAt(b, t), t)
            /\ StoredAt(b, t) \in 0 .. Capacity
                 => a.stored = StoredAt(b, t) /\ a.power = Plant!FlowAt(b, t)
<1> DEFINE a == Plant!Advanced(b, t)
<1>1. b \in Plant!Batteries /\ b.stored \in 0 .. Capacity /\ b.started <= b.last
      /\ b.last \in Int /\ b.started \in Int /\ Capacity \in Nat
  BY PlantAssumption DEF Packed, Plant!Batteries
<1>2. PICK after \in Int : after = StoredAt(b, t)
  BY <1>1, StoredInt
<1>3. a = [b EXCEPT !.power = Plant!Power(b, after, t), !.stored = Plant!Within(after, 0, Capacity), !.last = t]
  BY <1>1, <1>2 DEF Plant!Advanced, StoredAt
<1>4. Plant!Within(after, 0, Capacity) \in 0 .. Capacity
      /\ (after \in 0 .. Capacity => Plant!Within(after, 0, Capacity) = after)
  BY <1>1, <1>2 DEF Plant!Within, Plant!Most, Plant!Least
<1>5. Plant!Power(b, after, t) \in Int
  <2>1. CASE after \in 0 .. Capacity
    BY <1>1, <2>1, FlowMoves DEF Plant!Power
  <2>2. CASE after \notin 0 .. Capacity
    <3>1. Plant!Within(after, 0, Capacity) - b.stored \in Int /\ t - b.last \in Nat \ {0}
      BY <1>1, <1>4
    <3> QED
      BY <2>2, <3>1, AchievedInt DEF Plant!Power
  <2> QED
    BY <2>1, <2>2
<1>6. /\ a.power = Plant!Power(b, after, t) /\ a.stored = Plant!Within(after, 0, Capacity) /\ a.last = t
      /\ a.origin = b.origin /\ a.started = b.started /\ a.target = b.target /\ a.standby = b.standby
  BY <1>1, <1>3 DEF Plant!Batteries
<1>7. a \in Plant!Batteries
  <2>1. Plant!Within(after, 0, Capacity) \in Int
    BY <1>4
  <2> QED
    BY <1>1, <1>3, <1>5, <2>1 DEF Plant!Batteries
<1>8. after \in 0 .. Capacity => Plant!Power(b, after, t) = Plant!FlowAt(b, t)
  BY DEF Plant!Power
<1> HIDE DEF a
<1>9. Packed(a)
  <2>1. a.stored \in 0 .. Capacity
    BY <1>4, <1>6
  <2>2. a.started <= a.last
    BY <1>1, <1>6
  <2> QED
    BY <1>7, <2>1, <2>2 DEF Packed
<1>10. SameRamp(a, b)
  BY <1>6 DEF SameRamp
<1>11. after \in 0 .. Capacity => a.stored = after /\ a.power = Plant!FlowAt(b, t)
  BY <1>4, <1>6, <1>8
<1> QED
  BY <1>2, <1>6, <1>9, <1>10, <1>11 DEF a

\* Whenever it is advanced to.
LEMMA AdvancedPacked ==
  ASSUME NEW b, Packed(b), NEW t \in Int
  PROVE  LET a == Plant!Advanced(b, t)
         IN /\ Packed(a) /\ SameRamp(a, b) /\ b.last <= a.last
            /\ t <= b.last => a = b
            /\ b.last < t => a.last = t
<1>1. b.last \in Int
  BY DEF Packed, Plant!Batteries
<1>2. CASE b.last < t
  BY <1>1, <1>2, AdvancedIs
<1>3. CASE t <= b.last
  <2>1. Plant!Advanced(b, t) = b
    BY <1>3 DEF Plant!Advanced
  <2> QED
    BY <1>1, <1>3, <2>1 DEF SameRamp
<1> QED
  BY <1>1, <1>2, <1>3

\* A command: its flow starts where the ramp before it had come to.
LEMMA CommandedInt ==
  ASSUME NEW mode, NEW watts \in Nat
  PROVE  /\ Plant!CommandedFlow(mode, watts) \in -MaxCharge .. MaxDischarge
         /\ mode # "Discharge" => Plant!CommandedFlow(mode, watts) <= 0
<1>1. MaxCharge \in Nat /\ MaxDischarge \in Nat
  BY PlantAssumption
<1>2. Plant!Within(watts, 0, MaxCharge) \in 0 .. MaxCharge /\ Plant!Within(watts, 0, MaxDischarge) \in 0 .. MaxDischarge
  BY <1>1 DEF Plant!Within, Plant!Most, Plant!Least
<1> QED
  BY <1>1, <1>2 DEF Plant!CommandedFlow

LEMMA AppliedIs ==
  ASSUME NEW b, Packed(b), NEW t \in Int, b.last < t, NEW mode, NEW watts \in Nat
  PROVE  LET a == Plant!Advanced(b, t)
             c == Plant!Applied(b, t, mode, watts)
         IN /\ Packed(c) /\ c.last = t /\ c.started = t /\ c.stored = a.stored /\ c.power = a.power
            /\ c.origin = Plant!FlowAt(b, t) /\ Plant!FlowAt(c, t) = Plant!FlowAt(b, t)
            /\ c.target = Plant!CommandedFlow(mode, watts)
<1> DEFINE a == Plant!Advanced(b, t)
           c == Plant!Applied(b, t, mode, watts)
<1>1. PICK f \in Int, g \in Int : f = Plant!FlowAt(b, t) /\ g = Plant!CommandedFlow(mode, watts)
  <2>1. Plant!FlowAt(b, t) \in Int
    BY FlowMoves DEF Packed
  <2>2. Plant!CommandedFlow(mode, watts) \in Int
    BY CommandedInt
  <2> QED
    BY <2>1, <2>2
<1>2. c = [a EXCEPT !.standby = (mode = "Standby"), !.origin = f, !.started = t, !.target = g]
  BY <1>1 DEF Plant!Applied
<1>3. Packed(a) /\ a.last = t
  BY AdvancedIs
<1> HIDE DEF a, c
<1>4. c \in Plant!Batteries
  BY <1>2, <1>3 DEF Packed, Plant!Batteries
<1>5. /\ c.origin = f /\ c.started = t /\ c.target = g
      /\ c.last = t /\ c.stored = a.stored /\ c.power = a.power
  BY <1>2, <1>3 DEF Packed, Plant!Batteries
<1>6. Plant!FlowAt(c, t) = f
  <2>1. Plant!Most(0, t - t) = 0 /\ Rate * 0 = 0
    BY PlantAssumption DEF Plant!Most
  <2>2. f + Plant!Within(g - f, -0, 0) = f
    BY DEF Plant!Within, Plant!Most, Plant!Least
  <2> QED
    BY <1>5, <2>1, <2>2 DEF Plant!FlowAt
<1>7. Packed(c)
  BY <1>3, <1>4, <1>5 DEF Packed
<1> QED
  BY <1>1, <1>5, <1>6, <1>7 DEF a, c

-----------------------------------------------------------------------------
(* The same for every reader.                                                 *)

LEMMA StoredNow ==
  ASSUME NEW b, Packed(b)
  PROVE  StoredAt(b, b.last) = b.stored
<1>1. b \in Plant!Batteries /\ b.last \in Int /\ b.stored \in Int
  BY DEF Packed, Plant!Batteries
<1>2. PICK f \in Int, t \in Int : f = Plant!FlowAt(b, b.last) /\ t = b.last
  <2>1. b.last <= b.last
    BY <1>1
  <2> QED
    BY <1>1, <2>1, FlowMoves
<1>3. t - t = 0 /\ f - f = 0 /\ Rate * 0 = 0 /\ Plant!Size(0) = 0
  <2>1. t - t = 0 /\ f - f = 0
    OBVIOUS
  <2>2. \A r \in Nat : r * 0 = 0
    OBVIOUS
  <2>3. Plant!Size(0) = 0
    <3>1. \A x \in Int : x + x = 0 => x = 0
      OBVIOUS
    <3>2. -0 \in Int /\ -0 + -0 = 0
      OBVIOUS
    <3> QED
      BY <3>1, <3>2 DEF Plant!Size, Plant!Most
  <2> QED
    BY <2>1, <2>2, <2>3, PlantAssumption
<1>4. Held(b, t, t) = 0
  BY <1>2, <1>3 DEF Held
<1>5. \A p \in Nat : Plant!Area(p, p, 0) = 0
  <2> SUFFICES ASSUME NEW p \in Nat PROVE Plant!Area(p, p, 0) = 0
    OBVIOUS
  <2>1. p * p - p * p = 0 /\ 2 * 0 * p = 0
    OBVIOUS
  <2> QED
    BY <1>3, <2>1 DEF Plant!Area
<1>6. Charged(f) \in Nat /\ Discharged(f) \in Nat
  BY DEF Charged, Discharged, Plant!Most
<1>7. Plant!Moved(b, t, t).charged = 0 /\ Plant!Moved(b, t, t).discharged = 0
  <2>1. /\ Plant!Moved(b, t, t).charged = Plant!Area(Charged(f), Charged(f), Held(b, t, t))
        /\ Plant!Moved(b, t, t).discharged = Plant!Area(Discharged(f), Discharged(f), Held(b, t, t))
    BY <1>1, <1>2, MovedIs
  <2> QED
    BY <1>4, <1>5, <1>6, <2>1
<1>8. ChargeGain * 0 = 0 /\ DischargeCost * 0 = 0
  BY PlantAssumption
<1> QED
  BY <1>1, <1>2, <1>7, <1>8 DEF StoredAt, Plant!SettledAt

\* A pack that was read, beside the same pack that was not: no clamp has bitten.
Kept(u, b) ==
  /\ Packed(u) /\ Packed(b) /\ SameRamp(u, b) /\ u.last <= b.last
  /\ b.stored = StoredAt(u, b.last)
  /\ u.power = Plant!FlowAt(u, u.last) /\ b.power = Plant!FlowAt(b, b.last)

LEMMA StoredAlike ==
  ASSUME NEW u, NEW b, Kept(u, b), NEW t \in Int, b.last <= t
  PROVE  StoredAt(u, t) = StoredAt(b, t)
<1>1. /\ u \in Plant!Batteries /\ u.last \in Int /\ u.stored \in Int /\ u.started <= u.last
      /\ b.last \in Int /\ u.last <= b.last
  BY DEF Kept, Packed, Plant!Batteries
<1>2. b.stored = Plant!SettledAt(u.stored, Plant!Moved(u, u.last, b.last))
  BY DEF Kept, StoredAt
<1>3. Plant!Moved(b, b.last, t) = Plant!Moved(u, b.last, t)
  BY RampsAlike DEF Kept
<1>4. Plant!SettledAt(Plant!SettledAt(u.stored, Plant!Moved(u, u.last, b.last)), Plant!Moved(u, b.last, t))
        = Plant!SettledAt(u.stored, Plant!Moved(u, u.last, t))
  BY <1>1, SettledAdds
<1> QED
  BY <1>2, <1>3, <1>4 DEF StoredAt

LEMMA UnbittenStored ==
  ASSUME NEW b, NEW t, t > b.last, ~Plant!Bitten(b, t)
  PROVE  StoredAt(b, t) \in 0 .. Capacity
BY DEF Plant!Bitten, StoredAt

\* It can be read again.
LEMMA KeptAdvanced ==
  ASSUME NEW u, NEW b, Kept(u, b), NEW t \in Int, ~Plant!Bitten(b, t)
  PROVE  Kept(u, Plant!Advanced(b, t))
<1> DEFINE a == Plant!Advanced(b, t)
<1>1. Packed(u) /\ Packed(b) /\ SameRamp(u, b) /\ u.last \in Int /\ b.last \in Int /\ u.last <= b.last
  BY DEF Kept, Packed, Plant!Batteries
<1>2. CASE t <= b.last
  <2>1. a = b
    BY <1>1, <1>2, AdvancedPacked
  <2> QED
    BY <2>1
<1>3. CASE b.last < t
  <2>1. t > b.last
    BY <1>1, <1>3
  <2>2. StoredAt(b, t) \in 0 .. Capacity
    BY <2>1, UnbittenStored
  <2>3. Packed(a) /\ SameRamp(a, b) /\ a.last = t /\ a.stored = StoredAt(b, t) /\ a.power = Plant!FlowAt(b, t)
    BY <1>1, <1>3, <2>2, AdvancedIs
  <2>4. StoredAt(u, t) = StoredAt(b, t)
    BY <1>1, <1>3, StoredAlike
  <2> HIDE DEF a
  <2>5. SameRamp(u, a)
    BY <1>1, <2>3 DEF SameRamp
  <2>6. a.power = Plant!FlowAt(a, a.last)
    BY <2>3, RampsAlike
  <2>7. u.power = Plant!FlowAt(u, u.last)
    BY DEF Kept
  <2>8. u.last <= a.last
    BY <1>1, <1>3, <2>3
  <2>9. a.stored = StoredAt(u, a.last)
    BY <2>3, <2>4
  <2>10. Kept(u, a)
    BY <1>1, <2>3, <2>5, <2>6, <2>7, <2>8, <2>9 DEF Kept
  <2> QED
    BY <2>10 DEF a
<1> QED
  BY <1>1, <1>2, <1>3

LEMMA BatteriesAlike ==
  ASSUME NEW a \in Plant!Batteries, NEW b \in Plant!Batteries, SameRamp(a, b),
         a.stored = b.stored, a.power = b.power, a.last = b.last
  PROVE  a = b
<1>1. /\ a.origin = b.origin /\ a.started = b.started /\ a.target = b.target /\ a.standby = b.standby
  BY DEF SameRamp
<1> QED
  BY <1>1 DEF Plant!Batteries

\* Advanced to the same instant the two are one.
LEMMA KeptAlike ==
  ASSUME NEW u, NEW b, Kept(u, b), NEW t \in Int, b.last <= t, ~Plant!Bitten(b, t)
  PROVE  Plant!Advanced(u, t) = Plant!Advanced(b, t)
<1>1. Packed(u) /\ Packed(b) /\ SameRamp(u, b) /\ u.last \in Int /\ b.last \in Int /\ u.last <= b.last
  BY DEF Kept, Packed, Plant!Batteries
<1> DEFINE a == Plant!Advanced(b, t)
           c == Plant!Advanced(u, t)
<1>2. Kept(u, a) /\ a.last = t
  <2>1. CASE b.last < t
    BY <1>1, <2>1, AdvancedPacked, KeptAdvanced
  <2>2. CASE b.last = t
    BY <1>1, <2>2, AdvancedPacked, KeptAdvanced
  <2> QED
    BY <1>1, <2>1, <2>2
<1>3. Packed(a) /\ SameRamp(u, a) /\ a.stored = StoredAt(u, t) /\ a.power = Plant!FlowAt(a, t)
      /\ u.power = Plant!FlowAt(u, u.last)
  BY <1>2 DEF Kept
<1>4. a.stored \in 0 .. Capacity /\ a \in Plant!Batteries /\ u \in Plant!Batteries
  BY <1>1, <1>3 DEF Packed
<1>5. a.power = Plant!FlowAt(u, t)
  BY <1>3, RampsAlike
<1> HIDE DEF a
<1>6. CASE u.last = t
  <2>1. c = u
    BY <1>1, <1>6, AdvancedPacked
  <2>2. u.stored = a.stored
    BY <1>1, <1>3, <1>6, StoredNow
  <2>3. u.power = a.power
    BY <1>3, <1>5, <1>6
  <2>4. u = a
    BY <1>2, <1>3, <1>4, <1>6, <2>2, <2>3, BatteriesAlike
  <2> QED
    BY <2>1, <2>4 DEF a
<1>7. CASE u.last < t
  <2>1. StoredAt(u, t) \in 0 .. Capacity
    BY <1>3, <1>4
  <2>2. Packed(c) /\ SameRamp(c, u) /\ c.last = t /\ c.stored = StoredAt(u, t) /\ c.power = Plant!FlowAt(u, t)
    BY <1>1, <1>7, <2>1, AdvancedIs
  <2> HIDE DEF c
  <2>3. SameRamp(c, a)
    BY <1>3, <2>2 DEF SameRamp
  <2>4. c \in Plant!Batteries
    BY <2>2 DEF Packed
  <2>5. c = a
    BY <1>2, <1>3, <1>4, <1>5, <2>2, <2>3, <2>4, BatteriesAlike
  <2> QED
    BY <2>5 DEF a, c
<1>8. u.last = t \/ u.last < t
  BY <1>1
<1> QED
  BY <1>6, <1>7, <1>8

\* A command lands on both alike.
LEMMA KeptApplied ==
  ASSUME NEW u, NEW b, Kept(u, b), NEW t \in Int, b.last < t, ~Plant!Bitten(b, t),
         NEW mode, NEW watts \in Nat
  PROVE  /\ Plant!Applied(u, t, mode, watts) = Plant!Applied(b, t, mode, watts)
         /\ Kept(Plant!Applied(u, t, mode, watts), Plant!Applied(b, t, mode, watts))
<1>1. Packed(u) /\ Packed(b) /\ SameRamp(u, b) /\ b.last \in Int /\ t > b.last /\ b.last <= t
  BY DEF Kept, Packed, Plant!Batteries
<1>2. Plant!Advanced(u, t) = Plant!Advanced(b, t)
  BY <1>1, KeptAlike
<1>3. Plant!FlowAt(u, t) = Plant!FlowAt(b, t)
  BY <1>1, RampsAlike
<1>4. Plant!Applied(u, t, mode, watts) = Plant!Applied(b, t, mode, watts)
  BY <1>2, <1>3 DEF Plant!Applied
<1> DEFINE c == Plant!Applied(b, t, mode, watts)
<1>5. StoredAt(b, t) \in 0 .. Capacity
  BY <1>1, UnbittenStored
<1>6. Plant!Advanced(b, t).power = Plant!FlowAt(b, t)
  BY <1>1, <1>5, AdvancedIs
<1>7. Packed(c) /\ c.last = t /\ c.power = Plant!FlowAt(c, t)
  BY <1>1, <1>6, AppliedIs
<1> HIDE DEF c
<1>8. c.last \in Int
  BY <1>7
<1>9. Kept(c, c)
  BY <1>7, <1>8, StoredNow DEF Kept, SameRamp
<1> QED
  BY <1>4, <1>9 DEF c

-----------------------------------------------------------------------------
(* At rest at its ends.                                                       *)

LEMMA AreaZero ==
  ASSUME NEW p \in Nat, NEW q \in Nat, NEW h \in Nat, Plant!Area(p, q, h) = 0
  PROVE  p = q /\ (h = 0 \/ q = 0)
<1>1. PICK pp \in Nat, qq \in Nat, hq \in Nat : pp = p * p /\ qq = q * q /\ hq = h * q
  OBVIOUS
<1>2. 2 * h * q = 2 * hq
  BY <1>1
<1>3. Plant!Size(qq - pp) + 2 * hq = 0
  BY <1>1, <1>2 DEF Plant!Area
<1>4. qq = pp /\ hq = 0
  BY <1>3 DEF Plant!Size, Plant!Most
<1>5. \A m, n \in Nat : m < n => m * m < n * n
  <2> SUFFICES ASSUME NEW m \in Nat, NEW n \in Nat, m < n PROVE m * m < n * n
    OBVIOUS
  <2>1. m * m <= m * n
    OBVIOUS
  <2>2. m * n < n * n
    OBVIOUS
  <2> QED
    BY <2>1, <2>2
<1>6. p = q
  BY <1>1, <1>4, <1>5
<1>7. h = 0 \/ q = 0
  BY <1>1, <1>4
<1> QED
  BY <1>6, <1>7

LEMMA AchievedNone ==
  ASSUME NEW landed \in Int, landed = 0, NEW dt \in Nat \ {0}
  PROVE  Plant!AchievedFlow(landed, dt) = 0
<1>1. DischargeCost * 2 * Rate * dt \in Nat \ {0}
  <2>1. \A m, n \in Nat \ {0} : m * n \in Nat \ {0}
    OBVIOUS
  <2> QED
    BY <2>1, PlantAssumption
<1>2. \A d \in Nat \ {0} : d \div (2 * d) = 0
  <2> SUFFICES ASSUME NEW d \in Nat \ {0} PROVE d \div (2 * d) = 0
    OBVIOUS
  <2>1. PICK e \in Nat \ {0} : e = 2 * d /\ d < e
    OBVIOUS
  <2>2. d \div e = 0
    BY <2>1
  <2> QED
    BY <2>1, <2>2
<1>3. \A d \in Nat \ {0} : Plant!Rounded(0, d) = 0
  <2> SUFFICES ASSUME NEW d \in Nat \ {0} PROVE Plant!Rounded(0, d) = 0
    OBVIOUS
  <2>1. 2 * 0 + d = d
    OBVIOUS
  <2>2. Plant!Rounded(0, d) = (2 * 0 + d) \div (2 * d)
    BY DEF Plant!Rounded
  <2> QED
    BY <1>2, <2>1, <2>2
<1>4. -landed = 0 /\ ~(landed > 0)
  <2>1. \A x \in Int : x + x = 0 => -x = x
    OBVIOUS
  <2>2. landed + landed = 0
    OBVIOUS
  <2>3. -landed = landed
    BY <2>1, <2>2
  <2> QED
    BY <2>3
<1> QED
  BY <1>1, <1>3, <1>4 DEF Plant!AchievedFlow

\* Full and not drawn from until then, or empty and not charged.
Full(b, until)  == b.stored = Capacity /\ Plant!FlowAt(b, b.last) <= 0 /\ Plant!FlowAt(b, until) <= 0
Empty(b, until) == b.stored = 0 /\ 0 <= Plant!FlowAt(b, b.last) /\ 0 <= Plant!FlowAt(b, until)

\* Between two instants the flow is between what it is at them.
LEMMA FlowBetween ==
  ASSUME NEW b \in Plant!Batteries, NEW r \in Int, NEW s \in Int, NEW t \in Int, r <= s, s <= t
  PROVE  Between(Plant!FlowAt(b, r), Plant!FlowAt(b, s), Plant!FlowAt(b, t))
<1>1. PICK f \in Int, g \in Int, h \in Int, target \in Int :
        f = Plant!FlowAt(b, r) /\ g = Plant!FlowAt(b, s) /\ h = Plant!FlowAt(b, t) /\ target = b.target
  BY FlowMoves DEF Plant!Batteries
<1>2. Between(f, g, target) /\ Between(g, h, target)
  BY <1>1, FlowMoves
<1> QED
  BY <1>1, <1>2 DEF Between

LEMMA FullStays ==
  ASSUME NEW b, Packed(b), NEW until \in Int, Full(b, until), NEW t \in Int, b.last < t, t <= until
  PROVE  Full(Plant!Advanced(b, t), until) /\ Plant!Advanced(b, t).power >= 0
<1>1. b \in Plant!Batteries /\ b.last \in Int /\ b.stored = Capacity /\ Capacity \in Nat
  BY PlantAssumption DEF Packed, Full, Plant!Batteries
<1>2. PICK f \in Int, g \in Int : f = Plant!FlowAt(b, b.last) /\ g = Plant!FlowAt(b, t)
  BY <1>1, FlowMoves
<1>3. PICK last \in Int : last = b.last
  BY <1>1
<1>4. f <= 0 /\ g <= 0
  <2>1. PICK h \in Int : h = Plant!FlowAt(b, until)
    BY <1>1, FlowMoves
  <2>2. Between(f, g, h)
    BY <1>1, <1>2, <2>1, FlowBetween
  <2>3. f <= 0 /\ h <= 0
    BY <1>2, <2>1 DEF Full
  <2> QED
    BY <2>2, <2>3 DEF Between
<1>5. PICK held \in Nat, c \in Nat, d \in Nat :
        /\ held = Held(b, last, t) /\ c = Plant!Moved(b, last, t).charged /\ d = Plant!Moved(b, last, t).discharged
        /\ c = Plant!Area(Charged(f), Charged(g), held) /\ d = Plant!Area(Discharged(f), Discharged(g), held)
  BY <1>1, <1>2, <1>3, MovedIs
<1>6. d = 0
  <2>1. Discharged(f) = 0 /\ Discharged(g) = 0
    BY <1>4 DEF Discharged, Plant!Most
  <2>2. Plant!Area(0, 0, held) = 0
    <3>1. 2 * held * 0 = 0 /\ 0 * 0 - 0 * 0 = 0
      OBVIOUS
    <3> QED
      BY <3>1 DEF Plant!Area, Plant!Size, Plant!Most
  <2> QED
    BY <1>5, <2>1, <2>2
<1>7. PICK gain \in Nat : gain = ChargeGain * c /\ (gain = 0 => c = 0)
  BY PlantAssumption
<1>8. StoredAt(b, t) = Capacity + gain
  <2>1. DischargeCost * d = 0
    BY <1>6, PlantAssumption
  <2> QED
    BY <1>1, <1>3, <1>5, <1>7, <2>1 DEF StoredAt, Plant!SettledAt
<1>9. Plant!Within(Capacity + gain, 0, Capacity) = Capacity
  BY <1>1 DEF Plant!Within, Plant!Most, Plant!Least
<1>10. Plant!Power(b, Capacity + gain, t) >= 0
  <2>1. CASE gain = 0
    <3>1. Charged(f) = Charged(g) /\ (held = 0 \/ Charged(g) = 0)
      <4>1. Charged(f) \in Nat /\ Charged(g) \in Nat
        BY DEF Charged, Plant!Most
      <4>2. Plant!Area(Charged(f), Charged(g), held) = 0
        BY <1>5, <1>7, <2>1
      <4> HIDE DEF Charged
      <4> QED
        BY <4>1, <4>2, AreaZero
    <3>2. f = g
      BY <1>4, <3>1 DEF Charged, Plant!Most
    <3>3. held # 0
      <4>1. PICK dt \in Nat \ {0} : dt = t - last
        BY <1>3
      <4>2. Rate * dt \in Nat \ {0}
        BY PlantAssumption
      <4>3. held = Rate * dt - 0
        BY <1>2, <1>3, <1>5, <3>2, <4>1 DEF Held, Plant!Size, Plant!Most
      <4> QED
        BY <4>2, <4>3
    <3>4. g = 0
      BY <1>4, <3>1, <3>3 DEF Charged, Plant!Most
    <3>5. Capacity + gain \in 0 .. Capacity
      BY <1>1, <2>1
    <3> QED
      BY <1>2, <3>4, <3>5 DEF Plant!Power
  <2>2. CASE gain # 0
    <3>1. Capacity + gain \notin 0 .. Capacity /\ Capacity - b.stored = 0 /\ t - b.last \in Nat \ {0}
      BY <1>1, <2>2
    <3> QED
      BY <1>9, <3>1, AchievedNone DEF Plant!Power
  <2> QED
    BY <2>1, <2>2
<1>11. /\ SameRamp(Plant!Advanced(b, t), b) /\ Plant!Advanced(b, t).last = t
       /\ Plant!Advanced(b, t).stored = Capacity /\ Plant!Advanced(b, t).power >= 0
  BY <1>8, <1>9, <1>10, AdvancedIs
<1>12. Plant!FlowAt(Plant!Advanced(b, t), t) <= 0 /\ Plant!FlowAt(Plant!Advanced(b, t), until) <= 0
  BY <1>2, <1>4, <1>11, RampsAlike DEF Full
<1> QED
  BY <1>11, <1>12 DEF Full

LEMMA EmptyStays ==
  ASSUME NEW b, Packed(b), NEW until \in Int, Empty(b, until), NEW t \in Int, b.last < t, t <= until
  PROVE  Empty(Plant!Advanced(b, t), until) /\ Plant!Advanced(b, t).power <= 0
<1>1. b \in Plant!Batteries /\ b.last \in Int /\ b.stored = 0 /\ Capacity \in Nat
  BY PlantAssumption DEF Packed, Empty, Plant!Batteries
<1>2. PICK f \in Int, g \in Int : f = Plant!FlowAt(b, b.last) /\ g = Plant!FlowAt(b, t)
  BY <1>1, FlowMoves
<1>3. PICK last \in Int : last = b.last
  BY <1>1
<1>4. 0 <= f /\ 0 <= g
  <2>1. PICK h \in Int : h = Plant!FlowAt(b, until)
    BY <1>1, FlowMoves
  <2>2. Between(f, g, h)
    BY <1>1, <1>2, <2>1, FlowBetween
  <2>3. 0 <= f /\ 0 <= h
    BY <1>2, <2>1 DEF Empty
  <2> QED
    BY <2>2, <2>3 DEF Between
<1>5. PICK held \in Nat, c \in Nat, d \in Nat :
        /\ held = Held(b, last, t) /\ c = Plant!Moved(b, last, t).charged /\ d = Plant!Moved(b, last, t).discharged
        /\ c = Plant!Area(Charged(f), Charged(g), held) /\ d = Plant!Area(Discharged(f), Discharged(g), held)
  BY <1>1, <1>2, <1>3, MovedIs
<1>6. c = 0
  <2>1. Charged(f) = 0 /\ Charged(g) = 0
    BY <1>4 DEF Charged, Plant!Most
  <2>2. Plant!Area(0, 0, held) = 0
    <3>1. 2 * held * 0 = 0 /\ 0 * 0 - 0 * 0 = 0
      OBVIOUS
    <3> QED
      BY <3>1 DEF Plant!Area, Plant!Size, Plant!Most
  <2> QED
    BY <1>5, <2>1, <2>2
<1>7. PICK cost \in Nat : cost = DischargeCost * d /\ (cost = 0 => d = 0)
  BY PlantAssumption
<1>8. StoredAt(b, t) = -cost
  <2>1. ChargeGain * c = 0
    BY <1>6, PlantAssumption
  <2> QED
    BY <1>1, <1>3, <1>5, <1>7, <2>1 DEF StoredAt, Plant!SettledAt
<1>9. Plant!Within(-cost, 0, Capacity) = 0
  BY <1>1 DEF Plant!Within, Plant!Most, Plant!Least
<1>10. Plant!Power(b, -cost, t) <= 0
  <2>1. CASE cost = 0
    <3>1. Discharged(f) = Discharged(g) /\ (held = 0 \/ Discharged(g) = 0)
      <4>1. Discharged(f) \in Nat /\ Discharged(g) \in Nat
        BY DEF Discharged, Plant!Most
      <4>2. Plant!Area(Discharged(f), Discharged(g), held) = 0
        BY <1>5, <1>7, <2>1
      <4> HIDE DEF Discharged
      <4> QED
        BY <4>1, <4>2, AreaZero
    <3>2. f = g
      BY <1>4, <3>1 DEF Discharged, Plant!Most
    <3>3. held # 0
      <4>1. PICK dt \in Nat \ {0} : dt = t - last
        BY <1>3
      <4>2. Rate * dt \in Nat \ {0}
        BY PlantAssumption
      <4>3. held = Rate * dt - 0
        BY <1>2, <1>3, <1>5, <3>2, <4>1 DEF Held, Plant!Size, Plant!Most
      <4> QED
        BY <4>2, <4>3
    <3>4. g = 0
      BY <1>4, <3>1, <3>3 DEF Discharged, Plant!Most
    <3>5. -cost \in 0 .. Capacity
      BY <1>1, <2>1
    <3> QED
      BY <1>2, <3>4, <3>5 DEF Plant!Power
  <2>2. CASE cost # 0
    <3>1. -cost \notin 0 .. Capacity /\ 0 - b.stored = 0 /\ t - b.last \in Nat \ {0}
      BY <1>1, <2>2
    <3> QED
      BY <1>9, <3>1, AchievedNone DEF Plant!Power
  <2> QED
    BY <2>1, <2>2
<1>11. /\ SameRamp(Plant!Advanced(b, t), b) /\ Plant!Advanced(b, t).last = t
       /\ Plant!Advanced(b, t).stored = 0 /\ Plant!Advanced(b, t).power <= 0
  BY <1>8, <1>9, <1>10, AdvancedIs
<1>12. 0 <= Plant!FlowAt(Plant!Advanced(b, t), t) /\ 0 <= Plant!FlowAt(Plant!Advanced(b, t), until)
  BY <1>2, <1>4, <1>11, RampsAlike DEF Empty
<1> QED
  BY <1>11, <1>12 DEF Empty

-----------------------------------------------------------------------------
(* What a discharge takes.                                                    *)

Capped(b) == b.origin <= MaxDischarge /\ b.target <= MaxDischarge

LEMMA FlowCapped ==
  ASSUME NEW b \in Plant!Batteries, Capped(b), NEW t \in Int
  PROVE  Discharged(Plant!FlowAt(b, t)) \in 0 .. MaxDischarge
<1>1. PICK o \in Int, g \in Int, top \in Nat : o = b.origin /\ g = b.target /\ top = MaxDischarge
  BY PlantAssumption DEF Plant!Batteries
<1>2. o <= top /\ g <= top
  BY <1>1 DEF Capped
<1>3. PICK v \in Nat : v = Rate * Plant!Most(0, t - b.started)
  <2>1. Plant!Most(0, t - b.started) \in Nat
    BY DEF Plant!Batteries, Plant!Most
  <2> QED
    BY <2>1, PlantAssumption
<1>4. Plant!FlowAt(b, t) = o + Plant!Within(g - o, -v, v)
  BY <1>1, <1>3 DEF Plant!FlowAt
<1>5. o + Plant!Within(g - o, -v, v) \in Int /\ o + Plant!Within(g - o, -v, v) <= top
  BY <1>2 DEF Plant!Within, Plant!Most, Plant!Least
<1>6. PICK f \in Int : f = Plant!FlowAt(b, t) /\ f <= top
  BY <1>4, <1>5
<1> QED
  BY <1>1, <1>6 DEF Discharged, Plant!Most

\* A ramp under a top takes no more than the top would, held that long.
LEMMA AreaCapped ==
  ASSUME NEW top \in Nat, NEW p \in 0 .. top, NEW q \in 0 .. top, NEW h \in Nat, NEW m \in Nat,
         Plant!Size(q - p) + h <= m
  PROVE  Plant!Area(p, q, h) <= 2 * top * m
<1>1. PICK pp \in Nat, qq \in Nat, hq \in Nat : pp = p * p /\ qq = q * q /\ hq = h * q
  OBVIOUS
<1>2. PICK n \in Nat : n = Plant!Size(q - p)
  <2>1. \A d \in Int : Plant!Size(d) \in Nat
    BY DEF Plant!Size, Plant!Most
  <2>2. q - p \in Int
    OBVIOUS
  <2> QED
    BY <2>1, <2>2
<1>3. PICK tn \in Nat, th \in Nat, tm \in Nat : tn = top * n /\ th = top * h /\ tm = top * m
  OBVIOUS
<1>4. hq <= th
  <2>1. \A i, j, k \in Nat : i <= j => k * i <= k * j
    OBVIOUS
  <2>2. h * q <= h * top
    BY <2>1
  <2>3. h * top = top * h
    OBVIOUS
  <2> QED
    BY <1>1, <1>3, <2>2, <2>3
<1>5. tn + th <= tm
  <2>1. top * (n + h) = top * n + top * h
    OBVIOUS
  <2>2. n + h <= m
    BY <1>2
  <2>3. top * (n + h) <= top * m
    BY <2>2
  <2> QED
    BY <1>3, <2>1, <2>3
<1>6. Plant!Size(qq - pp) <= 2 * tn
  <2>1. \A x, y \in 0 .. top : x <= y => y * y - x * x <= 2 * (top * (y - x))
    <3> SUFFICES ASSUME NEW x \in 0 .. top, NEW y \in 0 .. top, x <= y
                 PROVE  y * y - x * x <= 2 * (top * (y - x))
      OBVIOUS
    <3>1. PICK d \in Nat : d = y - x
      OBVIOUS
    <3>2. y * y - x * x = d * y + d * x
      <4>1. y = x + d
        BY <3>1
      <4>2. (x + d) * (x + d) = x * (x + d) + d * (x + d)
        OBVIOUS
      <4>3. x * (x + d) = x * x + d * x
        OBVIOUS
      <4>4. y * y = x * x + d * x + d * y
        BY <4>1, <4>2, <4>3
      <4>5. x * x \in Int /\ d * x \in Int /\ d * y \in Int
        OBVIOUS
      <4> QED
        BY <4>4, <4>5
    <3>3. d * y <= d * top /\ d * x <= d * top
      OBVIOUS
    <3>4. d * y \in Int /\ d * x \in Int /\ d * top \in Int /\ d * top = top * d
      OBVIOUS
    <3> QED
      BY <3>1, <3>2, <3>3, <3>4
  <2>2. CASE p <= q
    <3>1. n = q - p
      BY <1>2, <2>2 DEF Plant!Size, Plant!Most
    <3>2. pp <= qq
      BY <1>1, <2>2, Squares
    <3>3. Plant!Size(qq - pp) = qq - pp
      BY <3>2 DEF Plant!Size, Plant!Most
    <3>4. qq - pp <= 2 * (top * (q - p))
      BY <1>1, <2>1, <2>2
    <3> QED
      BY <1>3, <3>1, <3>3, <3>4
  <2>3. CASE q <= p
    <3>1. n = p - q
      BY <1>2, <2>3 DEF Plant!Size, Plant!Most
    <3>2. qq <= pp
      BY <1>1, <2>3, Squares
    <3>3. Plant!Size(qq - pp) = pp - qq
      BY <3>2 DEF Plant!Size, Plant!Most
    <3>4. pp - qq <= 2 * (top * (p - q))
      BY <1>1, <2>1, <2>3
    <3> QED
      BY <1>3, <3>1, <3>3, <3>4
  <2> QED
    BY <2>2, <2>3
<1>7. Plant!Area(p, q, h) = Plant!Size(qq - pp) + 2 * hq
  <2>1. 2 * h * q = 2 * hq
    BY <1>1
  <2> QED
    BY <1>1, <2>1 DEF Plant!Area
<1>8. 2 * top * m = 2 * tm
  BY <1>3
<1>9. Plant!Size(qq - pp) \in Int
  BY DEF Plant!Size, Plant!Most
<1> QED
  BY <1>4, <1>5, <1>6, <1>7, <1>8, <1>9

\* What is still to come of a discharge that ramps down.
Tail(b) == DischargeCost * (Discharged(Plant!FlowAt(b, b.last)) * Discharged(Plant!FlowAt(b, b.last)))
RampDown == DischargeCost * MaxDischarge * MaxDischarge

LEMMA Scaled ==
  ASSUME NEW c \in Nat, NEW i \in Nat, NEW j \in Nat, i <= j
  PROVE  c * i \in Nat /\ c * j \in Nat /\ c * i <= c * j
OBVIOUS

LEMMA TailBounds ==
  ASSUME NEW b, Packed(b), Capped(b)
  PROVE  Tail(b) \in Nat /\ RampDown \in Nat /\ Tail(b) <= RampDown
<1>1. PICK p \in Nat, top \in Nat, cost \in Nat :
        p = Discharged(Plant!FlowAt(b, b.last)) /\ top = MaxDischarge /\ cost = DischargeCost /\ p <= top
  <2>1. b \in Plant!Batteries /\ b.last \in Int
    BY DEF Packed, Plant!Batteries
  <2>2. Discharged(Plant!FlowAt(b, b.last)) \in 0 .. MaxDischarge
    BY <2>1, FlowCapped
  <2> QED
    BY <2>2, PlantAssumption
<1>2. PICK pp \in Nat, tt \in Nat : pp = p * p /\ tt = top * top /\ pp <= tt
  BY <1>1, Squares
<1>3. cost * pp \in Nat /\ cost * tt \in Nat /\ cost * pp <= cost * tt
  BY <1>2, Scaled
<1>4. cost * top * top = cost * tt
  BY <1>2
<1> QED
  BY <1>1, <1>2, <1>3, <1>4 DEF Tail, RampDown

LEMMA DrainedInt ==
  ASSUME NEW s \in Nat, NEW t \in Nat
  PROVE  /\ DrainedIn(t) \in Nat /\ DrainedIn(s + t) = DrainedIn(s) + DrainedIn(t)
         /\ s <= t => DrainedIn(s) <= DrainedIn(t)
         /\ DrainedIn(t) = DischargeCost * (2 * MaxDischarge * (Rate * t))
<1>1. PICK unit \in Nat : unit = DischargeCost * 2 * Rate * MaxDischarge
  <2>1. \A m, n \in Nat : m * n \in Nat
    OBVIOUS
  <2> QED
    BY <2>1, PlantAssumption
<1>2. unit * t \in Nat /\ unit * (s + t) = unit * s + unit * t /\ (s <= t => unit * s <= unit * t)
  BY Scaled
<1>3. DrainedIn(t) = DischargeCost * (2 * MaxDischarge * (Rate * t))
  <2>1. PICK c \in Nat, r \in Nat, top \in Nat : c = DischargeCost /\ r = Rate /\ top = MaxDischarge
    BY PlantAssumption
  <2>2. c * 2 * r * top * t = c * (2 * top * (r * t))
    OBVIOUS
  <2> QED
    BY <2>1, <2>2 DEF DrainedIn
<1> QED
  BY <1>1, <1>2, <1>3 DEF DrainedIn

LEMMA Drained ==
  ASSUME NEW b, Packed(b), Capped(b), NEW t \in Int, b.last < t
  PROVE  LET a == Plant!Advanced(b, t)
         IN /\ Capped(a) /\ a.stored >= b.stored - DrainedIn(t - b.last)
            /\ b.target <= 0 => a.stored - Tail(a) >= b.stored - Tail(b)
<1> DEFINE a == Plant!Advanced(b, t)
<1>1. PICK f \in Int, g \in Int, target \in Int, last \in Int, dt \in Nat, top \in Nat, cost \in Nat,
           stored \in Int, cap \in Nat :
        /\ f = Plant!FlowAt(b, last) /\ g = Plant!FlowAt(b, t) /\ target = b.target /\ last = b.last
        /\ dt = t - last /\ top = MaxDischarge /\ cost = DischargeCost /\ stored = b.stored
        /\ cap = Capacity /\ stored <= cap
  <2>1. b \in Plant!Batteries /\ b.target \in Int /\ b.last \in Int /\ b.stored \in Int /\ b.stored <= Capacity
    BY PlantAssumption DEF Packed, Plant!Batteries
  <2>2. Plant!FlowAt(b, b.last) \in Int /\ Plant!FlowAt(b, t) \in Int
    BY <2>1, FlowMoves
  <2>3. t - b.last \in Nat
    BY <2>1
  <2> QED
    BY <2>1, <2>2, <2>3, PlantAssumption
<1>2. b \in Plant!Batteries /\ b.started <= last /\ last <= t
  BY <1>1 DEF Packed
<1>3. PICK p \in 0 .. top, q \in 0 .. top : p = Discharged(f) /\ q = Discharged(g)
  BY <1>1, <1>2, FlowCapped
<1>4. PICK held \in Nat, c \in Nat, d \in Nat :
        /\ held = Held(b, last, t) /\ c = Plant!Moved(b, last, t).charged
        /\ d = Plant!Moved(b, last, t).discharged /\ d = Plant!Area(p, q, held)
  BY <1>1, <1>2, <1>3, MovedIs
<1>5. PICK m \in Nat : m = Rate * dt /\ held = m - Plant!Size(g - f) /\ Plant!Size(g - f) <= m
                       /\ Between(f, g, target) /\ (Plant!Size(g - f) < m => g = target)
  BY <1>1, <1>2, <1>4, FlowMoves DEF Held
<1>6. PICK gain \in Nat, loss \in Nat : gain = ChargeGain * c /\ loss = cost * d
  BY <1>1, PlantAssumption
<1>7. StoredAt(b, t) = stored + gain - loss
  BY <1>1, <1>4, <1>6 DEF StoredAt, Plant!SettledAt
<1>8. a.stored >= stored - loss /\ (a.stored >= cap \/ a.stored >= stored + gain - loss) /\ a.stored \in Int
  <2>1. a.stored = Plant!Within(stored + gain - loss, 0, cap)
    BY <1>1, <1>7, AdvancedIs
  <2>2. PICK x \in Int : x = stored + gain - loss
    OBVIOUS
  <2>3. Plant!Within(x, 0, cap) \in Int /\ (Plant!Within(x, 0, cap) >= cap \/ Plant!Within(x, 0, cap) >= x)
    BY DEF Plant!Within, Plant!Most, Plant!Least
  <2> HIDE DEF a
  <2> QED
    BY <1>1, <2>1, <2>2, <2>3
<1>9. SameRamp(a, b) /\ a.last = t
  BY <1>1, AdvancedIs
<1> HIDE DEF a
<1>10. Capped(a)
  BY <1>9 DEF Capped, SameRamp
<1>11. loss <= DrainedIn(dt)
  <2>1. Plant!Size(q - p) + held <= m
    <3>1. Plant!Size(q - p) <= Plant!Size(g - f)
      BY <1>3 DEF Discharged, Plant!Size, Plant!Most
    <3>2. Plant!Size(q - p) \in Int /\ Plant!Size(g - f) \in Int
      BY DEF Plant!Size, Plant!Most
    <3> QED
      BY <1>5, <3>1, <3>2
  <2>2. PICK most \in Nat : most = 2 * top * m /\ d <= most
    <3>1. 2 * top * m \in Nat
      OBVIOUS
    <3>2. Plant!Area(p, q, held) <= 2 * top * m
      BY <2>1, AreaCapped
    <3> QED
      BY <1>4, <3>1, <3>2
  <2>3. cost * d <= cost * most
    BY <2>2
  <2>4. DrainedIn(dt) = cost * most
    BY <1>1, <1>5, <2>2, DrainedInt
  <2> QED
    BY <1>6, <2>3, <2>4
<1>12. DrainedIn(dt) \in Nat
  BY DrainedInt
<1>13. a.stored >= stored - DrainedIn(dt)
  BY <1>8, <1>11, <1>12
<1>14. ASSUME target <= 0 PROVE a.stored - Tail(a) >= stored - Tail(b)
  <2>1. q <= p /\ (held = 0 \/ q = 0)
    <3>1. q <= p
      BY <1>3, <1>5, <1>14 DEF Between, Discharged, Plant!Most
    <3>2. held # 0 => g = target
      BY <1>4, <1>5 DEF Plant!Size, Plant!Most
    <3>3. g = target => q = 0
      BY <1>3, <1>14 DEF Discharged, Plant!Most
    <3> QED
      BY <3>1, <3>2, <3>3
  <2>2. PICK pp \in Nat, qq \in Nat : pp = p * p /\ qq = q * q /\ qq <= pp
    <3>1. p \in Nat /\ q \in Nat
      OBVIOUS
    <3> QED
      BY <2>1, <3>1, Squares
  <2>3. d = pp - qq
    <3>1. 2 * held * q = 0
      BY <2>1
    <3>2. Plant!Size(qq - pp) = pp - qq
      BY <2>2 DEF Plant!Size, Plant!Most
    <3> QED
      BY <1>4, <2>2, <3>1, <3>2 DEF Plant!Area
  <2>4. PICK cp \in Nat, cq \in Nat : cp = cost * pp /\ cq = cost * qq /\ cq <= cp /\ loss = cp - cq
    <3>1. cost * pp \in Nat /\ cost * qq \in Nat /\ cost * qq <= cost * pp
      BY <2>2
    <3>2. cost * (pp - qq) = cost * pp - cost * qq
      OBVIOUS
    <3> QED
      BY <1>6, <2>3, <3>1, <3>2
  <2>5. Tail(b) = cp
    BY <1>1, <1>3, <2>2, <2>4 DEF Tail
  <2>6. Tail(a) = cq
    <3>1. Plant!FlowAt(a, a.last) = g
      BY <1>1, <1>9, RampsAlike
    <3> QED
      BY <1>1, <1>3, <2>2, <2>4, <3>1 DEF Tail
  <2> QED
    BY <1>1, <1>8, <2>4, <2>5, <2>6
<1> QED
  BY <1>1, <1>10, <1>13, <1>14 DEF a

-----------------------------------------------------------------------------
(* The loop: its inductive invariant.                                         *)

\* Above the floor, and what a pack may owe it: a blind window where a discharge is in
\* force, what it still ramps down where none is.
AboveFloor(x) == 200 * x >= (2 * MinSoc + 1) * Capacity
Owes(b, x) ==
  IF b.target > 0 THEN AboveFloor(b.stored + x)
  ELSE AboveFloor(b.stored - Tail(b) + x + BlindDrain)

\* What is left of an outage's rounds since the last command; and since the report of the
\* round before.
SinceCommand == IF missed < BlindRounds THEN missed * TickLength ELSE 0
SinceReport  == (missed + 1) * TickLength - lag.device

LoopShape ==
  /\ last_decision <= now /\ demand \in Int /\ lag \in Lags /\ missed \in 0 .. MaxMissed
  /\ report.current_power \in Int /\ bitten \in BOOLEAN
  /\ Packed(pack) /\ Packed(unread) /\ Capped(pack)
  /\ pack.last = now - SinceCommand /\ unread.last = pack.last
  /\ pack.target > 0 => missed < BlindRounds

\* Where no clamp has bitten, the pack that was read and the one that was not are one,
\* and its flow has moved no further from the report than the rate takes it.
AlikeInv ==
  ~bitten =>
    /\ Kept(unread, pack) /\ ~Plant!Bitten(pack, now)
    /\ report.current_power - Plant!FlowAt(pack, now) <= Rate * SinceReport
    /\ Plant!FlowAt(pack, now) - report.current_power <= Rate * SinceReport

\* The floor is owed the round's drain; a report one round old owes a blind window more,
\* unless it was above the floor.
FloorInv ==
  IF lag.rounds = 0 THEN Owes(pack, DrainedIn(TickLength))
  ELSE /\ report.soc > MinSoc => Owes(pack, DrainedIn(TickLength))
       /\ Owes(pack, DrainedIn(TickLength) + BlindDrain)

LoopInv == InductiveInv /\ LoopShape /\ AlikeInv /\ FloorInv

-----------------------------------------------------------------------------
(* What a pack has given a while later, and what a command leaves of it.      *)

\* `a` is the pack `b` after a time in which it was only read.
Follows(b, a, time) ==
  /\ Packed(a) /\ Capped(a) /\ SameRamp(a, b) /\ a.last = b.last + time
  /\ a.stored >= b.stored - DrainedIn(time)
  /\ b.target <= 0 => a.stored - Tail(a) >= b.stored - Tail(b)

LEMMA PackedInt ==
  ASSUME NEW b, Packed(b)
  PROVE  /\ b \in Plant!Batteries /\ b.last \in Int /\ b.stored \in Int /\ b.target \in Int /\ b.power \in Int
         /\ b.started \in Int /\ b.started <= b.last /\ b.stored \in 0 .. Capacity
BY DEF Packed, Plant!Batteries

LEMMA FollowsAdvanced ==
  ASSUME NEW b, Packed(b), Capped(b), NEW t \in Int, b.last <= t
  PROVE  Follows(b, Plant!Advanced(b, t), t - b.last)
<1> DEFINE a == Plant!Advanced(b, t)
<1>1. b.last \in Int /\ b.stored \in Int /\ Tail(b) \in Nat
  BY PackedInt, TailBounds
<1>2. CASE b.last < t
  <2>1. Packed(a) /\ SameRamp(a, b) /\ a.last = t
    BY <1>2, AdvancedIs
  <2>2. /\ Capped(a) /\ a.stored >= b.stored - DrainedIn(t - b.last)
        /\ b.target <= 0 => a.stored - Tail(a) >= b.stored - Tail(b)
    BY <1>2, Drained
  <2>3. b.last + (t - b.last) = t
    BY <1>1
  <2> HIDE DEF a
  <2>4. Follows(b, a, t - b.last)
    BY <2>1, <2>2, <2>3 DEF Follows
  <2> QED
    BY <2>4 DEF a
<1>3. CASE b.last = t
  <2>1. a = b
    BY <1>1, <1>3, AdvancedPacked
  <2>2. DrainedIn(0) \in Nat
    BY DrainedInt
  <2>3. t - b.last = 0 /\ b.last + 0 = b.last
    BY <1>1, <1>3
  <2>4. Follows(b, b, 0)
    BY <1>1, <2>2, <2>3 DEF Follows, SameRamp
  <2> QED
    BY <2>1, <2>3, <2>4
<1> QED
  BY <1>1, <1>2, <1>3

LEMMA FollowsOn ==
  ASSUME NEW b, NEW a, NEW c, NEW s \in Nat, NEW t \in Nat, Packed(b), Capped(b),
         Follows(b, a, s), Follows(a, c, t)
  PROVE  Follows(b, c, s + t)
<1>1. Packed(a) /\ Capped(a) /\ Packed(c) /\ Capped(c)
  BY DEF Follows
<1>2. /\ b.stored \in Int /\ a.stored \in Int /\ c.stored \in Int /\ b.last \in Int
      /\ Tail(b) \in Int /\ Tail(a) \in Int /\ Tail(c) \in Int
  BY <1>1, PackedInt, TailBounds
<1>3. DrainedIn(s) \in Nat /\ DrainedIn(t) \in Nat /\ DrainedIn(s + t) = DrainedIn(s) + DrainedIn(t)
  BY DrainedInt
<1>4. c.stored >= b.stored - DrainedIn(s + t)
  <2>1. a.stored >= b.stored - DrainedIn(s) /\ c.stored >= a.stored - DrainedIn(t)
    BY DEF Follows
  <2> QED
    BY <1>2, <1>3, <2>1
<1>5. ASSUME b.target <= 0 PROVE c.stored - Tail(c) >= b.stored - Tail(b)
  <2>1. a.target <= 0
    BY <1>5 DEF Follows, SameRamp
  <2>2. a.stored - Tail(a) >= b.stored - Tail(b) /\ c.stored - Tail(c) >= a.stored - Tail(a)
    BY <1>5, <2>1 DEF Follows
  <2> QED
    BY <1>2, <2>2
<1>6. SameRamp(c, b)
  BY DEF Follows, SameRamp
<1>7. c.last = b.last + (s + t)
  <2>1. a.last = b.last + s /\ c.last = a.last + t
    BY DEF Follows
  <2> QED
    BY <1>2, <2>1
<1> QED
  BY <1>1, <1>4, <1>5, <1>6, <1>7 DEF Follows

\* A command that is no discharge leaves a pack that owes no more than before it.
\* `c` is `a` under a new command.
Turned(a, c) ==
  /\ Packed(c) /\ Capped(c) /\ c.stored = a.stored /\ c.last = a.last /\ Tail(c) = Tail(a)

BlindTime == BlindRounds * TickLength

LEMMA BlindInt ==
  /\ BlindTime \in Nat /\ DrainedIn(BlindTime) \in Nat /\ RampDown \in Nat
  /\ BlindDrain = DrainedIn(BlindTime) + RampDown /\ BlindDrain \in Nat
<1>1. BlindTime \in Nat
  <2>1. \A m, n \in Nat : m * n \in Nat
    OBVIOUS
  <2> QED
    BY <2>1, LoopAssumption DEF BlindTime
<1>2. DrainedIn(BlindTime) \in Nat
  BY <1>1, DrainedInt
<1>3. RampDown \in Nat
  <2>1. \A m, n \in Nat : m * n \in Nat
    OBVIOUS
  <2> QED
    BY <2>1, PlantAssumption DEF RampDown
<1>4. BlindDrain = DrainedIn(BlindTime) + RampDown
  BY DEF BlindDrain, RampDown, BlindTime
<1> QED
  BY <1>1, <1>2, <1>3, <1>4

\* Above the floor is above it with more in store.
LEMMA AboveMore ==
  ASSUME NEW x \in Int, NEW y \in Int, x <= y, AboveFloor(x)
  PROVE  AboveFloor(y)
<1>1. PICK k \in Int : k = (2 * MinSoc + 1) * Capacity
  BY PlantAssumption
<1> QED
  BY <1>1 DEF AboveFloor

\* What was owed before a blind window is owed after it, when it ends without a discharge.
LEMMA OwesOn ==
  ASSUME NEW b, NEW a, NEW c, NEW time \in Nat, Packed(b), Capped(b), Follows(b, a, time), Turned(a, c),
         b.target > 0 => time <= BlindTime, c.target <= 0, NEW x \in Nat, Owes(b, x)
  PROVE  Owes(c, x)
<1>1. Packed(a) /\ Capped(a) /\ Packed(c) /\ Capped(c) /\ c.stored = a.stored /\ Tail(c) = Tail(a)
  BY DEF Follows, Turned
<1>2. /\ b.stored \in Int /\ c.stored \in Int /\ Tail(b) \in Nat /\ Tail(c) \in Nat /\ Tail(c) <= RampDown
      /\ b.target \in Int /\ c.target \in Int
  BY <1>1, PackedInt, TailBounds
<1>3. DrainedIn(time) \in Nat
  BY DrainedInt
<1>4. c.stored >= b.stored - DrainedIn(time) /\ (b.target <= 0 => c.stored - Tail(c) >= b.stored - Tail(b))
  BY <1>1 DEF Follows
<1>5. AboveFloor(c.stored - Tail(c) + x + BlindDrain)
  <2>1. CASE b.target > 0
    <3>1. AboveFloor(b.stored + x)
      BY <2>1 DEF Owes
    <3>2. DrainedIn(time) <= DrainedIn(BlindTime)
      BY <2>1, BlindInt, DrainedInt
    <3>3. b.stored + x <= c.stored - Tail(c) + x + BlindDrain
      BY <1>2, <1>3, <1>4, <3>2, BlindInt
    <3> QED
      BY <1>2, <3>1, <3>3, BlindInt, AboveMore
  <2>2. CASE b.target <= 0
    <3>1. AboveFloor(b.stored - Tail(b) + x + BlindDrain)
      BY <1>2, <2>2 DEF Owes
    <3>2. b.stored - Tail(b) + x + BlindDrain <= c.stored - Tail(c) + x + BlindDrain
      BY <1>2, <1>4, <2>2, BlindInt
    <3> QED
      BY <1>2, <3>1, <3>2, BlindInt, AboveMore
  <2> QED
    BY <1>2, <2>1, <2>2
<1> QED
  BY <1>2, <1>5 DEF Owes

\* Whatever the command after it, a blind window more.
LEMMA OwesMore ==
  ASSUME NEW b, NEW a, NEW c, NEW time \in Nat, Packed(b), Capped(b), Follows(b, a, time), Turned(a, c),
         b.target > 0 => time <= BlindTime, NEW x \in Nat, Owes(b, x)
  PROVE  Owes(c, x + BlindDrain)
<1>1. Packed(a) /\ Capped(a) /\ Packed(c) /\ Capped(c) /\ c.stored = a.stored /\ Tail(c) = Tail(a)
  BY DEF Follows, Turned
<1>2. /\ b.stored \in Int /\ c.stored \in Int /\ Tail(b) \in Nat /\ Tail(c) \in Nat
      /\ b.target \in Int /\ c.target \in Int
  BY <1>1, PackedInt, TailBounds
<1>3. CASE c.target <= 0
  <2>1. Owes(c, x)
    BY <1>3, OwesOn
  <2>2. AboveFloor(c.stored - Tail(c) + x + BlindDrain)
    BY <1>2, <1>3, <2>1 DEF Owes
  <2>3. AboveFloor(c.stored - Tail(c) + (x + BlindDrain) + BlindDrain)
    BY <1>2, <2>2, BlindInt, AboveMore
  <2> QED
    BY <1>2, <1>3, <2>3 DEF Owes
<1>4. CASE c.target > 0
  <2>1. c.stored >= b.stored - DrainedIn(time) /\ (b.target <= 0 => c.stored - Tail(c) >= b.stored - Tail(b))
    BY <1>1 DEF Follows
  <2>2. DrainedIn(time) \in Nat
    BY DrainedInt
  <2>3. AboveFloor(c.stored + (x + BlindDrain))
    <3>1. CASE b.target > 0
      <4>1. AboveFloor(b.stored + x)
        BY <3>1 DEF Owes
      <4>2. DrainedIn(time) <= DrainedIn(BlindTime)
        BY <3>1, BlindInt, DrainedInt
      <4>3. b.stored + x <= c.stored + (x + BlindDrain)
        BY <1>2, <2>1, <2>2, <4>2, BlindInt
      <4> QED
        BY <1>2, <4>1, <4>3, BlindInt, AboveMore
    <3>2. CASE b.target <= 0
      <4>1. AboveFloor(b.stored - Tail(b) + x + BlindDrain)
        BY <1>2, <3>2 DEF Owes
      <4>2. b.stored - Tail(b) + x + BlindDrain <= c.stored + (x + BlindDrain)
        BY <1>2, <2>1, <3>2, BlindInt
      <4> QED
        BY <1>2, <4>1, <4>2, BlindInt, AboveMore
    <3> QED
      BY <1>2, <3>1, <3>2
  <2> QED
    BY <1>4, <2>3 DEF Owes
<1> QED
  BY <1>2, <1>3, <1>4

\* A pack read above its floor owes nothing but the rest of its round.
LEMMA OwesFresh ==
  ASSUME NEW b, NEW a, NEW c, NEW time \in 0 .. TickLength, Packed(b), Capped(b), Follows(b, a, time), Turned(a, c),
         AboveFloor(b.stored)
  PROVE  Owes(c, DrainedIn(TickLength))
<1>1. Packed(a) /\ Capped(a) /\ Packed(c) /\ Capped(c) /\ c.stored = a.stored
  BY DEF Follows, Turned
<1>2. b.stored \in Int /\ c.stored \in Int /\ Tail(c) \in Nat /\ Tail(c) <= RampDown
  BY <1>1, PackedInt, TailBounds
<1>3. DrainedIn(time) \in Nat /\ DrainedIn(TickLength) \in Nat /\ DrainedIn(time) <= DrainedIn(TickLength)
  <2>1. time \in Nat /\ TickLength \in Nat /\ time <= TickLength
    BY LoopAssumption
  <2> QED
    BY <2>1, DrainedInt
<1>4. c.stored >= b.stored - DrainedIn(time)
  BY <1>1 DEF Follows
<1>5. AboveFloor(c.stored + DrainedIn(TickLength))
  <2>1. b.stored <= c.stored + DrainedIn(TickLength)
    BY <1>2, <1>3, <1>4
  <2> QED
    BY <1>2, <1>3, <2>1, AboveMore
<1>6. AboveFloor(c.stored - Tail(c) + DrainedIn(TickLength) + BlindDrain)
  <2>1. b.stored <= c.stored - Tail(c) + DrainedIn(TickLength) + BlindDrain
    BY <1>2, <1>3, <1>4, BlindInt
  <2> QED
    BY <1>2, <1>3, <2>1, BlindInt, AboveMore
<1> QED
  BY <1>5, <1>6 DEF Owes

-----------------------------------------------------------------------------
(* What a round reads and decides.                                            *)

\* A pack that reports more than its floor holds more.
LEMMA PercentAbove ==
  ASSUME NEW b, Packed(b)
  PROVE  /\ Plant!Percent(b) \in 0 .. 100
         /\ Plant!Percent(b) > MinSoc => AboveFloor(b.stored)
<1>1. PICK cap \in Nat, stored \in Nat, least \in 0 .. 100 : cap = Capacity /\ stored = b.stored /\ least = MinSoc
  <2>1. b.stored \in 0 .. Capacity /\ Capacity \in Nat /\ MinSoc \in 0 .. 100
    BY PackedInt, PlantAssumption
  <2> QED
    BY <2>1
<1>2. CASE cap = 0
  <2>1. Plant!Percent(b) = 0
    BY <1>1, <1>2 DEF Plant!Percent
  <2> QED
    BY <1>1, <2>1
<1>3. CASE cap # 0
  <2>1. PICK n \in Nat, d \in Nat \ {0} : n = 2 * (100 * stored) + cap /\ d = 2 * cap
    BY <1>3
  <2>2. PICK q \in Int : q = n \div d /\ q * d <= n
    <3>1. n \div d \in Int /\ (n \div d) * d <= n
      OBVIOUS
    <3> QED
      BY <3>1
  <2>3. Plant!Percent(b) = Plant!Within(q, 0, 100)
    <3>1. ~(100 * stored < 0)
      OBVIOUS
    <3>2. Plant!Rounded(100 * stored, cap) = q
      BY <2>1, <2>2, <3>1 DEF Plant!Rounded
    <3> QED
      BY <1>1, <1>3, <3>2 DEF Plant!Percent
  <2>4. Plant!Within(q, 0, 100) \in 0 .. 100 /\ (Plant!Within(q, 0, 100) > least => q > least)
    BY DEF Plant!Within, Plant!Most, Plant!Least
  <2>5. ASSUME q > least PROVE 200 * stored >= (2 * least + 1) * cap
    <3>1. (least + 1) * d <= q * d
      BY <2>5
    <3>2. (least + 1) * d = 2 * ((least + 1) * cap)
      BY <2>1
    <3>3. PICK lc \in Int : lc = least * cap
      OBVIOUS
    <3>4. (least + 1) * cap = lc + cap /\ (2 * least + 1) * cap = 2 * lc + cap
      BY <3>3
    <3>5. 2 * (lc + cap) <= 2 * (100 * stored) + cap
      <4>1. PICK qd \in Int : qd = q * d
        OBVIOUS
      <4> QED
        BY <2>1, <2>2, <3>1, <3>2, <3>4, <4>1
    <3> QED
      BY <3>4, <3>5
  <2> QED
    BY <1>1, <2>3, <2>4, <2>5 DEF AboveFloor
<1> QED
  BY <1>2, <1>3

\* When a round's sources are read.
At == now + TickLength
DeviceAt == now + lag.device
MeterAt  == now + lag.meter
FirstAt  == now + Plant!Least(lag.device, lag.meter)
BothAt   == now + Plant!Most(lag.device, lag.meter)

LEMMA RoundTimes ==
  ASSUME TypeOK, LoopShape
  PROVE  /\ now \in Int /\ At \in Int /\ DeviceAt \in Int /\ MeterAt \in Int /\ FirstAt \in Int /\ BothAt \in Int
         /\ pack.last \in Int /\ pack.last <= now /\ now <= FirstAt /\ FirstAt <= BothAt /\ BothAt < At
         /\ now <= DeviceAt /\ DeviceAt < At /\ now <= MeterAt /\ MeterAt < At
         /\ lag.device <= lag.meter => FirstAt = DeviceAt /\ BothAt = MeterAt
         /\ lag.meter <= lag.device => FirstAt = MeterAt /\ BothAt = DeviceAt
         /\ pack.target > 0 => At - pack.last <= BlindTime
         /\ missed + 1 = BlindRounds => At - pack.last = BlindTime
<1>1. /\ now \in Int /\ TickLength \in Nat \ {0} /\ BlindRounds \in Nat \ {0} /\ missed \in Nat
      /\ lag.device \in 0 .. TickLength - 1 /\ lag.meter \in 0 .. TickLength - 1
  BY LoopAssumption DEF TypeOK, LoopShape
<1>2. PICK d \in Nat, m \in Nat, tick \in Nat, blind \in Nat :
        d = lag.device /\ m = lag.meter /\ tick = TickLength /\ blind = BlindRounds /\ d < tick /\ m < tick
  BY <1>1
<1>3. PICK gone \in Nat : gone = missed * tick
  BY <1>1
<1>4. missed < blind => gone + tick <= blind * tick
  <2>1. (missed + 1) * tick = gone + tick
    BY <1>1, <1>3
  <2>2. missed < blind => (missed + 1) * tick <= blind * tick
    BY <1>1, Scaled
  <2> QED
    BY <2>1, <2>2
<1>5. pack.last = now - (IF missed < blind THEN gone ELSE 0)
  BY <1>2, <1>3 DEF LoopShape, SinceCommand
<1>6. BlindTime = blind * tick /\ BlindTime \in Nat
  BY <1>2, BlindInt DEF BlindTime
<1>7. pack.target > 0 => missed < blind
  BY <1>2 DEF LoopShape
<1>8. missed + 1 = blind => gone + tick = blind * tick
  BY <1>1, <1>3
<1>9. pack.target > 0 => At - pack.last <= BlindTime
  BY <1>1, <1>2, <1>4, <1>5, <1>6, <1>7 DEF At
<1>10. missed + 1 = BlindRounds => At - pack.last = BlindTime
  BY <1>1, <1>2, <1>5, <1>6, <1>8 DEF At
<1>11. /\ FirstAt = now + Plant!Least(d, m) /\ BothAt = now + Plant!Most(d, m)
       /\ DeviceAt = now + d /\ MeterAt = now + m /\ At = now + tick
  BY <1>2 DEF FirstAt, BothAt, DeviceAt, MeterAt, At
<1>12. Plant!Least(d, m) \in Nat /\ Plant!Most(d, m) \in Nat /\ Plant!Least(d, m) <= Plant!Most(d, m) /\ Plant!Most(d, m) < tick
       /\ (d <= m => Plant!Least(d, m) = d /\ Plant!Most(d, m) = m)
       /\ (m <= d => Plant!Least(d, m) = m /\ Plant!Most(d, m) = d)
  BY <1>2 DEF Plant!Least, Plant!Most
<1>13. pack.last \in Int /\ pack.last <= now
  BY <1>1, <1>5
<1> QED
  BY <1>1, <1>2, <1>9, <1>10, <1>11, <1>12, <1>13

\* The pack as each source finds it, and as the command finds it.
Reached == Plant!Advanced(BothRead, At)

LEMMA RoundReads ==
  ASSUME TypeOK, LoopShape
  PROVE  /\ FirstRead = Plant!Advanced(pack, FirstAt) /\ BothRead = Plant!Advanced(FirstRead, BothAt)
         /\ Follows(pack, FirstRead, FirstAt - pack.last) /\ FirstRead.last = FirstAt
         /\ Follows(FirstRead, BothRead, BothAt - FirstAt) /\ BothRead.last = BothAt
         /\ Follows(BothRead, Reached, At - BothAt) /\ Follows(pack, Reached, At - pack.last)
         /\ Packed(DeviceRead) /\ Capped(DeviceRead) /\ DeviceRead.last = DeviceAt
         /\ Follows(DeviceRead, Reached, At - DeviceAt)
         /\ Packed(MeterRead) /\ MeterRead.last = MeterAt
<1>1. FirstRead = Plant!Advanced(pack, FirstAt) /\ BothRead = Plant!Advanced(FirstRead, BothAt)
  BY DEF FirstRead, BothRead, FirstAt, BothAt
<1>2. Packed(pack) /\ Capped(pack)
  BY DEF LoopShape
<1>3. /\ pack.last \in Int /\ FirstAt \in Int /\ BothAt \in Int /\ At \in Int /\ DeviceAt \in Int /\ MeterAt \in Int
      /\ pack.last <= FirstAt /\ FirstAt <= BothAt /\ BothAt < At
  BY RoundTimes
<1>4. Follows(pack, FirstRead, FirstAt - pack.last)
  BY <1>1, <1>2, <1>3, FollowsAdvanced
<1>5. Packed(FirstRead) /\ Capped(FirstRead) /\ FirstRead.last = FirstAt
  BY <1>3, <1>4 DEF Follows
<1>6. Follows(FirstRead, BothRead, BothAt - FirstAt)
  BY <1>1, <1>3, <1>5, FollowsAdvanced
<1>7. Packed(BothRead) /\ Capped(BothRead) /\ BothRead.last = BothAt
  BY <1>3, <1>5, <1>6 DEF Follows
<1>8. Follows(BothRead, Reached, At - BothAt)
  BY <1>3, <1>7, FollowsAdvanced DEF Reached
<1>9. Follows(FirstRead, Reached, At - FirstAt)
  <2>1. BothAt - FirstAt \in Nat /\ At - BothAt \in Nat /\ (BothAt - FirstAt) + (At - BothAt) = At - FirstAt
    BY <1>3
  <2>2. Follows(FirstRead, Reached, (BothAt - FirstAt) + (At - BothAt))
    BY <1>5, <1>6, <1>8, <2>1, FollowsOn
  <2> QED
    BY <2>1, <2>2
<1>10. Follows(pack, Reached, At - pack.last)
  <2>1. FirstAt - pack.last \in Nat /\ At - FirstAt \in Nat /\ (FirstAt - pack.last) + (At - FirstAt) = At - pack.last
    BY <1>3
  <2>2. Follows(pack, Reached, (FirstAt - pack.last) + (At - FirstAt))
    BY <1>2, <1>4, <1>9, <2>1, FollowsOn
  <2> QED
    BY <2>1, <2>2
<1>11. lag.device \in Int /\ lag.meter \in Int
  BY LoopAssumption DEF LoopShape
<1>12. /\ lag.device <= lag.meter => FirstAt = DeviceAt /\ BothAt = MeterAt
       /\ lag.meter <= lag.device => FirstAt = MeterAt /\ BothAt = DeviceAt
  BY RoundTimes
<1>13. CASE lag.device <= lag.meter
  <2>1. DeviceRead = FirstRead /\ MeterRead \in {FirstRead, BothRead}
    BY <1>13 DEF DeviceRead, MeterRead
  <2>2. MeterRead.last = MeterAt
    BY <1>5, <1>7, <1>12, <1>13 DEF MeterRead
  <2> QED
    BY <1>1, <1>4, <1>5, <1>6, <1>7, <1>8, <1>9, <1>10, <1>12, <1>13, <2>1, <2>2
<1>14. CASE ~(lag.device <= lag.meter)
  <2>1. DeviceRead = BothRead /\ MeterRead = FirstRead /\ FirstAt = MeterAt /\ BothAt = DeviceAt
    BY <1>11, <1>12, <1>14 DEF DeviceRead, MeterRead
  <2> QED
    BY <1>1, <1>4, <1>5, <1>6, <1>7, <1>8, <1>10, <2>1
<1> QED
  BY <1>13, <1>14

\* A round's world is one the controller may be asked about.
LEMMA WorldIs ==
  ASSUME TypeOK, LoopShape, NEW reading, reading.current_power \in Int
  PROVE  World(reading) \in WorldType
<1>1. MeterRead.power \in Int /\ demand \in Int
  BY RoundReads, PackedInt DEF LoopShape
<1>2. Observation(MeterRead.power) \in Int
  BY <1>1 DEF Observation
<1>3. MaxCharge \in Nat /\ MaxDischarge \in Nat
  BY PlantAssumption
<1> QED
  BY <1>2, <1>3 DEF World, WorldType

Fresh == Plant!ReadingOf(DeviceRead)

LEMMA FreshIs ==
  ASSUME TypeOK, LoopShape
  PROVE  /\ Fresh.current_power = DeviceRead.power /\ Fresh.current_power \in Int
         /\ Fresh.soc \in 0 .. 100 /\ (Fresh.soc > MinSoc => AboveFloor(DeviceRead.stored))
         /\ Folded(Fresh).current_power \in Int
<1>1. Packed(DeviceRead) /\ DeviceRead.power \in Int
  BY RoundReads, PackedInt
<1>2. Fresh.current_power = DeviceRead.power /\ Fresh.soc = Plant!Percent(DeviceRead)
  BY DEF Fresh, Plant!ReadingOf
<1> QED
  BY <1>1, <1>2, PercentAbove DEF Folded, LoopShape

\* Every round decides, and discharges only on a report above the floor.
LEMMA RoundDecides ==
  ASSUME InductiveInv, LoopShape, Round
  PROVE  /\ InductiveInv' /\ now' = At /\ last_decision' = At
         /\ decision'.mode \in Modes /\ decision'.power \in Nat
         /\ decision'.mode = "Discharge" => Folded(Fresh).soc > MinSoc
         /\ last_mode' # last_mode /\ last_mode' \in Active
              => last_mode' = Target(World(Folded(Fresh)), At)
<1> DEFINE w == World(Folded(Fresh))
<1>1. TypeOK
  BY DEF InductiveInv
<1>2. w \in WorldType
  BY <1>1, FreshIs, WorldIs
<1>3. Meter(w, TickLength)
  BY DEF Round, Fresh
<1>4. now' = At /\ now \in Int /\ At \in Int /\ TickLength \in Int /\ now' = now + TickLength
  BY <1>1, <1>3, RoundTimes, LoopAssumption DEF Meter, At
<1>5. w.above_floor = (Folded(Fresh).soc > MinSoc)
  BY DEF World
<1> HIDE DEF w
<1>6. InductiveInv'
  BY <1>2, <1>3, <1>4, MeterInv
<1>7. decision'.mode \in Modes /\ decision'.power \in Nat
  BY <1>6 DEF InductiveInv, TypeOK, Decisions
<1>8. ~TooSoon(At)
  <2>1. last_decision \in Int /\ last_decision <= now /\ MinDecisionInterval \in Int /\ MinDecisionInterval <= TickLength
    BY <1>1, FloorAssumption, TuningAssumption DEF TypeOK, LoopShape
  <2>2. ~(At - last_decision < MinDecisionInterval)
    BY <1>4, <2>1
  <2> QED
    BY <2>2 DEF TooSoon
<1>9. CASE Override(w, At)
  <2>1. last_decision' = At /\ decision'.mode = "Idle" /\ last_mode' = "Idle"
    BY <1>9, Stamped DEF Override, EnterMode, KeepMode
  <2> QED
    BY <1>4, <1>6, <1>7, <2>1 DEF Active
<1>10. CASE LimitCycles(w, At)
  <2>1. last_decision' = At /\ decision'.mode = "Standby" /\ last_mode' = "Standby"
    BY <1>10, Stamped DEF LimitCycles, EnterMode, KeepMode
  <2> QED
    BY <1>4, <1>6, <1>7, <2>1 DEF Active
<1>11. CASE CoolDown(w, At)
  <2>1. last_decision' = At /\ decision'.mode = "Idle" /\ last_mode' = last_mode
    BY <1>11, Stamped DEF CoolDown
  <2> QED
    BY <1>4, <1>6, <1>7, <2>1
<1>12. CASE Command(w, At)
  <2> DEFINE mode == Target(w, At)
  <2>1. PICK target, sent, cap, seen :
          Returns(IF mode = "Idle" /\ IdledOut(At) THEN "Standby" ELSE mode, target, sent, cap, seen, At)
    BY <1>12 DEF Command
  <2>2. last_decision' = At /\ decision'.mode = IF mode = "Idle" /\ IdledOut(At) THEN "Standby" ELSE mode
    BY <2>1, Stamped
  <2>3. last_mode' = mode
    BY <1>12 DEF Command, EnterMode, KeepMode
  <2>4. mode = "Discharge" => w.above_floor
    BY DEF Target, TargetMode, DischargeWanted
  <2> HIDE DEF mode
  <2>5. decision'.mode = "Discharge" => Folded(Fresh).soc > MinSoc
    BY <1>5, <2>2, <2>4
  <2> QED
    BY <1>4, <1>6, <1>7, <2>2, <2>3, <2>5 DEF mode, w
<1> QED
  BY <1>3, <1>4, <1>8, <1>9, <1>10, <1>11, <1>12 DEF Meter

-----------------------------------------------------------------------------
(* The invariant is inductive.                                                *)

LEMMA CommandTurns ==
  ASSUME NEW b, Packed(b), Capped(b), NEW t \in Int, b.last < t, NEW mode, NEW watts \in Nat
  PROVE  LET c == Plant!Applied(b, t, mode, watts)
         IN /\ Turned(Plant!Advanced(b, t), c) /\ c.last = t
            /\ c.target \in Int /\ (c.target > 0 => mode = "Discharge")
            /\ Plant!FlowAt(c, t) = Plant!FlowAt(b, t)
            /\ c.power = Plant!Advanced(b, t).power
<1> DEFINE c == Plant!Applied(b, t, mode, watts)
           a == Plant!Advanced(b, t)
<1>1. /\ Packed(c) /\ c.last = t /\ c.stored = a.stored /\ c.power = a.power
      /\ c.origin = Plant!FlowAt(b, t) /\ Plant!FlowAt(c, t) = Plant!FlowAt(b, t)
      /\ c.target = Plant!CommandedFlow(mode, watts)
  BY AppliedIs
<1>2. SameRamp(a, b) /\ a.last = t /\ Packed(a)
  BY AdvancedIs
<1>3. /\ Plant!CommandedFlow(mode, watts) \in -MaxCharge .. MaxDischarge
      /\ mode # "Discharge" => Plant!CommandedFlow(mode, watts) <= 0
  BY CommandedInt
<1>4. b \in Plant!Batteries
  BY PackedInt
<1>5. Plant!FlowAt(b, t) \in Int /\ Discharged(Plant!FlowAt(b, t)) \in 0 .. MaxDischarge
  BY <1>4, FlowMoves, FlowCapped
<1> HIDE DEF a, c
<1>6. Capped(c)
  <2>1. c.target <= MaxDischarge
    BY <1>1, <1>3, PlantAssumption
  <2>2. c.origin <= MaxDischarge
    BY <1>1, <1>5, PlantAssumption DEF Discharged, Plant!Most
  <2> QED
    BY <2>1, <2>2 DEF Capped
<1>7. Tail(c) = Tail(a)
  <2>1. Plant!FlowAt(a, t) = Plant!FlowAt(b, t)
    BY <1>2, RampsAlike
  <2> QED
    BY <1>1, <1>2, <2>1 DEF Tail
<1>8. Turned(a, c)
  BY <1>1, <1>2, <1>6, <1>7 DEF Turned
<1>9. c.target \in Int /\ (c.target > 0 => mode = "Discharge")
  BY <1>1, <1>3, PlantAssumption
<1> QED
  BY <1>1, <1>8, <1>9 DEF a, c

\* What a round leaves of the pack.
LEMMA RoundLeaves ==
  ASSUME InductiveInv, LoopShape, Round
  PROVE  /\ pack' = Plant!Applied(BothRead, At, decision'.mode, decision'.power)
         /\ unread' = Plant!Applied(unread, At, decision'.mode, decision'.power)
         /\ now' = At /\ report' = Fresh /\ bitten' = Bites(BothRead, At) /\ missed' = 0
         /\ demand' = demand /\ lag' = lag
         /\ Turned(Reached, pack') /\ pack'.last = At
         /\ pack'.target > 0 => Folded(Fresh).soc > MinSoc
         /\ Plant!FlowAt(pack', At) = Plant!FlowAt(pack, At) /\ pack'.power = Reached.power
<1>1. /\ now' = At /\ last_decision' = At /\ decision'.power \in Nat
      /\ decision'.mode = "Discharge" => Folded(Fresh).soc > MinSoc
  BY RoundDecides
<1>2. /\ IF last_decision' = At THEN Commanded(BothRead, At, decision'.mode, decision'.power)
         ELSE pack' = BothRead /\ UNCHANGED unread
      /\ report' = Fresh /\ bitten' = Bites(BothRead, At) /\ missed' = 0 /\ demand' = demand /\ lag' = lag
  BY DEF Round, At, Fresh
<1>3. /\ pack' = Plant!Applied(BothRead, At, decision'.mode, decision'.power)
      /\ unread' = Plant!Applied(unread, At, decision'.mode, decision'.power)
  BY <1>1, <1>2 DEF Commanded
<1>4. TypeOK
  BY DEF InductiveInv
<1>5. Packed(BothRead) /\ Capped(BothRead) /\ At \in Int /\ BothRead.last < At
  BY <1>4, RoundReads, RoundTimes DEF Follows
<1>6. /\ Turned(Reached, pack') /\ pack'.last = At
      /\ pack'.target > 0 => Folded(Fresh).soc > MinSoc
      /\ Plant!FlowAt(pack', At) = Plant!FlowAt(BothRead, At) /\ pack'.power = Reached.power
  BY <1>1, <1>3, <1>5, CommandTurns DEF Reached
<1>7. Plant!FlowAt(BothRead, At) = Plant!FlowAt(pack, At)
  <2>1. SameRamp(FirstRead, pack) /\ SameRamp(BothRead, FirstRead)
    BY <1>4, RoundReads DEF Follows
  <2> QED
    BY <2>1, RampsAlike
<1> QED
  BY <1>1, <1>2, <1>3, <1>6, <1>7

LEMMA RoundShape ==
  ASSUME InductiveInv, LoopShape, Round
  PROVE  LoopShape'
<1>1. /\ unread' = Plant!Applied(unread, At, decision'.mode, decision'.power)
      /\ now' = At /\ report' = Fresh /\ bitten' = Bites(BothRead, At) /\ missed' = 0
      /\ demand' = demand /\ lag' = lag /\ Turned(Reached, pack') /\ pack'.last = At
  BY RoundLeaves
<1>2. last_decision' = At /\ decision'.power \in Nat /\ TypeOK
  BY RoundDecides DEF InductiveInv
<1>3. At \in Int /\ pack.last < At
  BY <1>2, RoundTimes
<1>4. Packed(unread') /\ unread'.last = At
  <2>1. Packed(unread) /\ unread.last < At
    BY <1>3 DEF LoopShape
  <2> QED
    BY <1>1, <1>2, <1>3, <2>1, AppliedIs
<1>5. SinceCommand' = 0
  <2>1. missed' < BlindRounds /\ 0 * TickLength = 0
    BY <1>1, LoopAssumption
  <2> QED
    BY <1>1, <2>1 DEF SinceCommand
<1>6. Packed(pack') /\ Capped(pack')
  BY <1>1 DEF Turned
<1>7. Fresh.current_power \in Int
  BY <1>2, FreshIs
<1>8. bitten' \in BOOLEAN
  BY <1>1 DEF Bites, LoopShape
<1>9. missed' \in 0 .. MaxMissed /\ missed' < BlindRounds
  BY <1>1, LoopAssumption
<1>10. demand' \in Int /\ lag' \in Lags
  BY <1>1 DEF LoopShape
<1>11. last_decision' <= now' /\ pack'.last = now' - SinceCommand'
  BY <1>1, <1>2, <1>3, <1>5
<1> QED
  BY <1>1, <1>4, <1>6, <1>7, <1>8, <1>9, <1>10, <1>11 DEF LoopShape

\* Where no clamp bites in a round, what each source reads is the ramp.
LEMMA ReadsAlike ==
  ASSUME TypeOK, LoopShape, AlikeInv, ~Bites(BothRead, At)
  PROVE  /\ Kept(unread, BothRead) /\ ~Plant!Bitten(BothRead, At)
         /\ DeviceRead.power = Plant!FlowAt(pack, DeviceAt) /\ MeterRead.power = Plant!FlowAt(pack, MeterAt)
<1>1. /\ FirstRead = Plant!Advanced(pack, FirstAt) /\ BothRead = Plant!Advanced(FirstRead, BothAt)
      /\ FirstRead.last = FirstAt /\ BothRead.last = BothAt
      /\ DeviceRead.last = DeviceAt /\ MeterRead.last = MeterAt
  BY RoundReads
<1>2. /\ ~bitten /\ ~Plant!Bitten(pack, FirstAt) /\ ~Plant!Bitten(FirstRead, BothAt) /\ ~Plant!Bitten(BothRead, At)
  BY <1>1 DEF Bites
<1>3. FirstAt \in Int /\ BothAt \in Int
  BY RoundTimes
<1>4. Kept(unread, FirstRead)
  BY <1>1, <1>2, <1>3, KeptAdvanced DEF AlikeInv
<1>5. Kept(unread, BothRead)
  BY <1>1, <1>2, <1>3, <1>4, KeptAdvanced
<1>6. SameRamp(FirstRead, pack) /\ SameRamp(BothRead, FirstRead)
  BY RoundReads DEF Follows
<1>7. /\ FirstRead.power = Plant!FlowAt(pack, FirstRead.last)
      /\ BothRead.power = Plant!FlowAt(pack, BothRead.last)
  BY <1>4, <1>5, <1>6, RampsAlike DEF Kept
<1>8. DeviceRead \in {FirstRead, BothRead} /\ MeterRead \in {FirstRead, BothRead}
  BY DEF DeviceRead, MeterRead
<1> QED
  BY <1>1, <1>2, <1>5, <1>7, <1>8

LEMMA RoundAlike ==
  ASSUME InductiveInv, LoopShape, AlikeInv, Round
  PROVE  AlikeInv'
<1> SUFFICES ASSUME ~bitten'
             PROVE  /\ Kept(unread, pack)' /\ ~Plant!Bitten(pack', now')
                    /\ report'.current_power - Plant!FlowAt(pack', now') <= Rate * SinceReport'
                    /\ Plant!FlowAt(pack', now') - report'.current_power <= Rate * SinceReport'
  BY DEF AlikeInv
<1>1. /\ pack' = Plant!Applied(BothRead, At, decision'.mode, decision'.power)
      /\ unread' = Plant!Applied(unread, At, decision'.mode, decision'.power)
      /\ now' = At /\ report' = Fresh /\ bitten' = Bites(BothRead, At) /\ missed' = 0 /\ lag' = lag
      /\ pack'.last = At /\ Plant!FlowAt(pack', At) = Plant!FlowAt(pack, At)
  BY RoundLeaves
<1>2. TypeOK /\ decision'.power \in Nat
  BY RoundDecides DEF InductiveInv
<1>3. Kept(unread, BothRead) /\ ~Plant!Bitten(BothRead, At) /\ DeviceRead.power = Plant!FlowAt(pack, DeviceAt)
  BY <1>1, <1>2, ReadsAlike
<1>4. At \in Int /\ DeviceAt \in Int /\ BothRead.last < At /\ BothAt \in Int /\ DeviceAt < At
  BY <1>2, RoundTimes, RoundReads
<1>5. Kept(unread, pack)'
  <2>1. Kept(Plant!Applied(unread, At, decision'.mode, decision'.power),
             Plant!Applied(BothRead, At, decision'.mode, decision'.power))
    BY <1>2, <1>3, <1>4, KeptApplied
  <2> QED
    BY <1>1, <2>1 DEF Kept, Packed, SameRamp, StoredAt
<1>6. ~Plant!Bitten(pack', now')
  BY <1>1, <1>4 DEF Plant!Bitten
<1>7. SinceReport' = TickLength - lag.device
  <2>1. (0 + 1) * TickLength = TickLength
    BY LoopAssumption
  <2> QED
    BY <1>1, <2>1 DEF SinceReport
<1>8. Plant!Size(At - DeviceAt) = TickLength - lag.device
  <2>1. lag.device \in Int /\ TickLength \in Int /\ now \in Int
    BY <1>2, LoopAssumption DEF LoopShape, TypeOK
  <2>2. At - DeviceAt = TickLength - lag.device /\ At - DeviceAt > 0
    BY <1>4, <2>1 DEF At, DeviceAt
  <2> QED
    BY <1>4, <2>1, <2>2 DEF Plant!Size, Plant!Most
<1>9. pack \in Plant!Batteries
  BY DEF LoopShape, Packed
<1>10. /\ Plant!FlowAt(pack, At) - Plant!FlowAt(pack, DeviceAt) <= Rate * Plant!Size(At - DeviceAt)
       /\ Plant!FlowAt(pack, DeviceAt) - Plant!FlowAt(pack, At) <= Rate * Plant!Size(At - DeviceAt)
  BY <1>4, <1>9, FlowNear
<1>11. report'.current_power = Plant!FlowAt(pack, DeviceAt)
  BY <1>1, <1>2, <1>3, FreshIs
<1> QED
  BY <1>1, <1>5, <1>6, <1>7, <1>8, <1>10, <1>11

LEMMA RoundFloor ==
  ASSUME InductiveInv, LoopShape, FloorInv, Round
  PROVE  FloorInv'
<1> DEFINE tick == DrainedIn(TickLength)
<1>1. /\ report' = Fresh /\ lag' = lag /\ Turned(Reached, pack')
      /\ pack'.target > 0 => Folded(Fresh).soc > MinSoc
  BY RoundLeaves
<1>2. TypeOK
  BY DEF InductiveInv
<1>3. tick \in Nat
  BY DrainedInt, LoopAssumption
<1>4. /\ Packed(pack) /\ Capped(pack) /\ Packed(DeviceRead) /\ Capped(DeviceRead) /\ Packed(pack') /\ pack'.target \in Int
      /\ Follows(pack, Reached, At - pack.last) /\ At - pack.last \in Nat
      /\ pack.target > 0 => At - pack.last <= BlindTime
  <2>1. Packed(pack')
    BY <1>1 DEF Turned
  <2>2. At \in Int /\ pack.last \in Int /\ pack.last < At /\ (pack.target > 0 => At - pack.last <= BlindTime)
    BY <1>2, RoundTimes
  <2> QED
    BY <1>2, <2>1, <2>2, RoundReads, PackedInt DEF LoopShape
<1>5. Follows(DeviceRead, Reached, At - DeviceAt) /\ At - DeviceAt \in 0 .. TickLength
  <2>1. At - DeviceAt \in 0 .. TickLength
    BY <1>2, RoundTimes, LoopAssumption DEF At, DeviceAt
  <2> QED
    BY <1>2, <2>1, RoundReads
<1> HIDE DEF tick
\* A reading above the floor, as the round's own.
<1>6. Fresh.soc > MinSoc => Owes(pack', tick)
  <2>1. Fresh.soc > MinSoc => AboveFloor(DeviceRead.stored)
    BY <1>2, FreshIs
  <2> QED
    BY <1>1, <1>4, <1>5, <2>1, OwesFresh DEF tick
<1>7. CASE lag.rounds = 0
  <2>1. Owes(pack, tick)
    BY <1>7 DEF FloorInv, tick
  <2>2. Folded(Fresh) = Fresh
    BY <1>7 DEF Folded
  <2>3. CASE pack'.target > 0
    BY <1>1, <1>6, <1>7, <2>2, <2>3 DEF FloorInv, tick
  <2>4. CASE pack'.target <= 0
    <3>1. Owes(pack', tick)
      BY <1>1, <1>3, <1>4, <2>1, <2>4, OwesOn
    <3> QED
      BY <1>1, <1>7, <3>1 DEF FloorInv, tick
  <2> QED
    BY <1>4, <2>3, <2>4
<1>8. CASE lag.rounds # 0
  <2>1. /\ report.soc > MinSoc => Owes(pack, tick)
        /\ Owes(pack, tick + BlindDrain)
    BY <1>8 DEF FloorInv, tick
  <2>2. Folded(Fresh) = report
    BY <1>8 DEF Folded
  <2>3. Owes(pack', tick + BlindDrain)
    <3>1. CASE pack'.target > 0
      BY <1>1, <1>3, <1>4, <2>1, <2>2, <3>1, OwesMore
    <3>2. CASE pack'.target <= 0
      <4>1. tick + BlindDrain \in Nat
        BY <1>3, BlindInt
      <4> QED
        BY <1>1, <1>4, <2>1, <3>2, <4>1, OwesOn
    <3> QED
      BY <1>4, <3>1, <3>2
  <2> QED
    BY <1>1, <1>6, <1>8, <2>3 DEF FloorInv, tick
<1> QED
  BY <1>7, <1>8

\* A missed round leaves the pack as it was, or stood down by the failsafe.
LEMMA MissedLeaves ==
  ASSUME InductiveInv, LoopShape, Missed
  PROVE  /\ now' = At /\ missed' = missed + 1 /\ missed < MaxMissed
         /\ bitten' = (bitten \/ Plant!Bitten(pack, At) \/ Plant!Bitten(unread, At))
         /\ UNCHANGED <<control, last_decision, decision, history, charger, demand, lag, report>>
         /\ \/ missed' < BlindRounds /\ pack' = pack /\ unread' = unread
            \/ /\ missed' >= BlindRounds
               /\ pack' = Plant!Applied(pack, At, "Idle", 0) /\ unread' = Plant!Applied(unread, At, "Idle", 0)
               /\ Follows(pack, Plant!Advanced(pack, At), At - pack.last)
               /\ Turned(Plant!Advanced(pack, At), pack') /\ pack'.last = At
               /\ pack'.target \in Int /\ pack'.target <= 0
               /\ Plant!FlowAt(pack', At) = Plant!FlowAt(pack, At)
<1>1. /\ now' = At /\ missed' = missed + 1 /\ missed < MaxMissed
      /\ UNCHANGED <<control, last_decision, decision, history, charger, demand, lag, report>>
  BY DEF Missed, At
<1>2. bitten' = (bitten \/ Plant!Bitten(pack, At) \/ Plant!Bitten(unread, At))
  BY <1>1 DEF Missed
<1>3. IF missed' >= BlindRounds THEN Commanded(pack, At, "Idle", 0) ELSE pack' = pack /\ UNCHANGED unread
  BY <1>1 DEF Missed, Failsafe
<1>4. missed' \in Int /\ BlindRounds \in Int
  BY <1>1, LoopAssumption DEF LoopShape
<1>5. CASE missed' < BlindRounds
  BY <1>1, <1>2, <1>3, <1>4, <1>5
<1>6. CASE missed' >= BlindRounds
  <2>1. pack' = Plant!Applied(pack, At, "Idle", 0) /\ unread' = Plant!Applied(unread, At, "Idle", 0)
    BY <1>3, <1>6 DEF Commanded
  <2>2. Packed(pack) /\ Capped(pack) /\ At \in Int /\ pack.last \in Int /\ pack.last < At
    BY RoundTimes DEF InductiveInv, LoopShape
  <2>3. Follows(pack, Plant!Advanced(pack, At), At - pack.last)
    BY <2>2, FollowsAdvanced
  <2>4. /\ Turned(Plant!Advanced(pack, At), pack') /\ pack'.last = At
        /\ pack'.target \in Int /\ ~(pack'.target > 0)
        /\ Plant!FlowAt(pack', At) = Plant!FlowAt(pack, At)
    BY <2>1, <2>2, CommandTurns
  <2> QED
    BY <1>1, <1>2, <1>6, <2>1, <2>3, <2>4
<1> QED
  BY <1>4, <1>5, <1>6

LEMMA MissedShape ==
  ASSUME InductiveInv, LoopShape, Missed
  PROVE  InductiveInv' /\ LoopShape'
<1>1. /\ now' = At /\ missed' = missed + 1 /\ missed < MaxMissed
      /\ bitten' = (bitten \/ Plant!Bitten(pack, At) \/ Plant!Bitten(unread, At))
      /\ UNCHANGED <<control, last_decision, decision, history, charger, demand, lag, report>>
  BY MissedLeaves
<1>2. TypeOK /\ At \in Int /\ now \in Int /\ now <= At /\ pack.last < At
  BY RoundTimes DEF InductiveInv
<1>3. InductiveInv'
  <2>1. TypeOK'
    BY <1>1, <1>2 DEF TypeOK, control, history
  <2> QED
    BY <1>1, <2>1, InvKept DEF InductiveInv
<1>4. PICK m \in Nat, tick \in Nat, blind \in Nat, most \in Nat :
        m = missed /\ tick = TickLength /\ blind = BlindRounds /\ most = MaxMissed /\ m < most
  BY <1>1, LoopAssumption DEF LoopShape
<1>5. missed' \in 0 .. MaxMissed
  BY <1>1, <1>4
<1>6. /\ last_decision' <= now' /\ demand' \in Int /\ lag' \in Lags
      /\ report'.current_power \in Int /\ bitten' \in BOOLEAN
  <2>1. last_decision \in Int /\ last_decision <= now
    BY <1>2 DEF TypeOK, LoopShape
  <2>2. bitten' \in BOOLEAN
    BY <1>1 DEF LoopShape
  <2> QED
    BY <1>1, <1>2, <2>1, <2>2 DEF LoopShape
<1>7. CASE missed' < BlindRounds /\ pack' = pack /\ unread' = unread
  <2>1. PICK gone \in Nat : gone = m * tick /\ (m + 1) * tick = gone + tick
    <3>1. m * tick \in Nat /\ (m + 1) * tick = m * tick + tick
      OBVIOUS
    <3> QED
      BY <3>1
  <2>2. pack.last = now - gone
    <3>1. missed < BlindRounds
      BY <1>1, <1>4, <1>7
    <3> QED
      BY <1>4, <2>1, <3>1 DEF LoopShape, SinceCommand
  <2>3. SinceCommand' = gone + tick
    BY <1>1, <1>4, <1>7, <2>1 DEF SinceCommand
  <2>4. pack'.last = now' - SinceCommand'
    BY <1>1, <1>2, <1>4, <1>7, <2>2, <2>3 DEF At
  <2>5. Packed(pack') /\ Packed(unread') /\ Capped(pack') /\ unread'.last = pack'.last
    BY <1>7 DEF LoopShape
  <2> QED
    BY <1>3, <1>5, <1>6, <1>7, <2>4, <2>5 DEF LoopShape
<1>8. CASE missed' >= BlindRounds /\ pack' = Plant!Applied(pack, At, "Idle", 0)
           /\ unread' = Plant!Applied(unread, At, "Idle", 0)
           /\ Turned(Plant!Advanced(pack, At), pack') /\ pack'.last = At /\ pack'.target \in Int /\ pack'.target <= 0
  <2>1. SinceCommand' = 0
    <3>1. ~(missed' < BlindRounds)
      BY <1>1, <1>4, <1>8
    <3> QED
      BY <3>1 DEF SinceCommand
  <2>2. pack'.last = now' - SinceCommand'
    BY <1>1, <1>2, <1>8, <2>1
  <2>3. Packed(unread') /\ unread'.last = At
    <3>1. Packed(unread) /\ unread.last < At
      BY <1>2 DEF LoopShape
    <3> QED
      BY <1>2, <1>8, <3>1, AppliedIs
  <2>4. Packed(pack') /\ Capped(pack')
    BY <1>8 DEF Turned
  <2>5. ~(pack'.target > 0)
    BY <1>8
  <2> QED
    BY <1>3, <1>5, <1>6, <1>8, <2>2, <2>3, <2>4, <2>5 DEF LoopShape
<1> QED
  BY <1>7, <1>8, MissedLeaves

LEMMA MissedAlike ==
  ASSUME InductiveInv, LoopShape, AlikeInv, Missed
  PROVE  AlikeInv'
<1> SUFFICES ASSUME ~bitten'
             PROVE  /\ Kept(unread, pack)' /\ ~Plant!Bitten(pack', now')
                    /\ report'.current_power - Plant!FlowAt(pack', now') <= Rate * SinceReport'
                    /\ Plant!FlowAt(pack', now') - report'.current_power <= Rate * SinceReport'
  BY DEF AlikeInv
<1>1. /\ now' = At /\ missed' = missed + 1
      /\ bitten' = (bitten \/ Plant!Bitten(pack, At) \/ Plant!Bitten(unread, At))
      /\ lag' = lag /\ report' = report
  BY MissedLeaves
<1>2. ~bitten /\ ~Plant!Bitten(pack, At) /\ Kept(unread, pack)
  BY <1>1 DEF AlikeInv
<1>3. TypeOK /\ At \in Int /\ now \in Int /\ pack.last < At /\ pack.last \in Int
  BY RoundTimes DEF InductiveInv
<1>4. Plant!FlowAt(pack', At) = Plant!FlowAt(pack, At) /\ Kept(unread, pack)' /\ ~Plant!Bitten(pack', At)
  <2>1. CASE pack' = pack /\ unread' = unread
    BY <1>2, <2>1 DEF Kept, Packed, SameRamp, StoredAt
  <2>2. CASE /\ pack' = Plant!Applied(pack, At, "Idle", 0) /\ unread' = Plant!Applied(unread, At, "Idle", 0)
             /\ pack'.last = At /\ Plant!FlowAt(pack', At) = Plant!FlowAt(pack, At)
    <3>1. Kept(Plant!Applied(unread, At, "Idle", 0), Plant!Applied(pack, At, "Idle", 0))
      BY <1>2, <1>3, KeptApplied
    <3>2. ~Plant!Bitten(pack', At)
      BY <1>3, <2>2 DEF Plant!Bitten
    <3> QED
      BY <2>2, <3>1, <3>2 DEF Kept, Packed, SameRamp, StoredAt
  <2> QED
    BY <2>1, <2>2, MissedLeaves
<1>5. PICK since \in Int, tick \in Nat, rate \in Nat :
        since = SinceReport /\ tick = TickLength /\ rate = Rate /\ SinceReport' = since + tick
  <2>1. missed \in Nat /\ TickLength \in Nat /\ lag.device \in Int
    BY LoopAssumption DEF LoopShape
  <2>2. PICK m \in Nat, tick \in Nat, device \in Int : m = missed /\ tick = TickLength /\ device = lag.device
    BY <2>1
  <2>3. (m + 1 + 1) * tick = (m + 1) * tick + tick /\ (m + 1) * tick \in Int
    OBVIOUS
  <2>4. SinceReport = (m + 1) * tick - device /\ SinceReport' = (m + 1 + 1) * tick - device
    BY <1>1, <2>2 DEF SinceReport
  <2> QED
    BY <2>2, <2>3, <2>4, PlantAssumption
<1>6. Rate * SinceReport' = rate * since + rate * tick /\ rate * since \in Int /\ rate * tick \in Int
  <2>1. rate * (since + tick) = rate * since + rate * tick
    OBVIOUS
  <2> QED
    BY <1>5, <2>1
<1>7. /\ Plant!FlowAt(pack, At) - Plant!FlowAt(pack, now) <= rate * tick
      /\ Plant!FlowAt(pack, now) - Plant!FlowAt(pack, At) <= rate * tick
      /\ Plant!FlowAt(pack, At) \in Int /\ Plant!FlowAt(pack, now) \in Int
  <2>1. Plant!Size(At - now) = tick
    BY <1>3, <1>5 DEF At, Plant!Size, Plant!Most
  <2>2. pack \in Plant!Batteries
    BY DEF LoopShape, Packed
  <2>3. now <= At
    BY <1>3, <1>5 DEF At
  <2> QED
    BY <1>3, <1>5, <2>1, <2>2, <2>3, FlowNear, FlowMoves
<1>8. PICK was \in Int : was = report.current_power
  BY DEF LoopShape
<1>9. was - Plant!FlowAt(pack, now) <= rate * since /\ Plant!FlowAt(pack, now) - was <= rate * since
  BY <1>2, <1>5, <1>8 DEF AlikeInv
<1>10. was - Plant!FlowAt(pack, At) <= rate * since + rate * tick /\ Plant!FlowAt(pack, At) - was <= rate * since + rate * tick
  BY <1>6, <1>7, <1>9
<1> QED
  BY <1>1, <1>4, <1>6, <1>8, <1>10

LEMMA MissedFloor ==
  ASSUME InductiveInv, LoopShape, FloorInv, Missed
  PROVE  FloorInv'
<1>1. report' = report /\ lag' = lag
  BY MissedLeaves
<1>2. ASSUME NEW x \in Nat, Owes(pack, x) PROVE Owes(pack', x)
  <2>1. CASE pack' = pack
    BY <1>2, <2>1 DEF Owes
  <2>2. CASE /\ missed' >= BlindRounds /\ Follows(pack, Plant!Advanced(pack, At), At - pack.last)
             /\ Turned(Plant!Advanced(pack, At), pack') /\ pack'.target <= 0
    <3>1. At \in Int /\ pack.last \in Int /\ pack.last < At /\ (pack.target > 0 => At - pack.last <= BlindTime)
      BY RoundTimes DEF InductiveInv
    <3>2. At - pack.last \in Nat
      BY <3>1
    <3>3. Packed(pack) /\ Capped(pack)
      BY DEF LoopShape
    <3> QED
      BY <1>2, <2>2, <3>1, <3>2, <3>3, OwesOn
  <2> QED
    BY <2>1, <2>2, MissedLeaves
<1>3. DrainedIn(TickLength) \in Nat /\ DrainedIn(TickLength) + BlindDrain \in Nat
  <2>1. DrainedIn(TickLength) \in Nat
    BY DrainedInt, LoopAssumption
  <2> QED
    BY <2>1, BlindInt
<1> QED
  BY <1>1, <1>2, <1>3 DEF FloorInv

\* A step that moves neither the clock nor the pack.
LEMMA LoopKept ==
  ASSUME LoopInv, UNCHANGED <<now, charger, control, last_decision, decision, history,
                              pack, lag, report, unread, bitten, missed>>,
         demand' \in Int
  PROVE  LoopInv'
<1>1. InductiveInv'
  <2>1. TypeOK'
    BY DEF LoopInv, InductiveInv, TypeOK, control, history
  <2> QED
    BY <2>1, InvKept DEF LoopInv, InductiveInv
<1>2. LoopShape'
  <2>1. SinceCommand' = SinceCommand
    BY DEF SinceCommand
  <2> QED
    BY <2>1 DEF LoopInv, LoopShape, Packed, Capped
<1>3. AlikeInv'
  <2>1. SinceReport' = SinceReport
    BY DEF SinceReport
  <2>2. Kept(unread, pack) => Kept(unread, pack)'
    BY DEF Kept, Packed, SameRamp, StoredAt
  <2> QED
    BY <2>1, <2>2 DEF LoopInv, AlikeInv
<1>4. FloorInv'
  BY DEF LoopInv, FloorInv, Owes, Tail
<1> QED
  BY <1>1, <1>2, <1>3, <1>4 DEF LoopInv

LEMMA LoopStep == LoopInv /\ [LoopNext]_<<vars, plant>> => LoopInv'
<1> SUFFICES ASSUME LoopInv, [LoopNext]_<<vars, plant>> PROVE LoopInv'
  OBVIOUS
<1>1. CASE Round
  <2>1. InductiveInv'
    BY <1>1, RoundDecides DEF LoopInv
  <2> QED
    BY <1>1, <2>1, RoundShape, RoundAlike, RoundFloor DEF LoopInv
<1>2. CASE Missed
  BY <1>2, MissedShape, MissedAlike, MissedFloor DEF LoopInv
<1>3. CASE Shift
  <2>1. demand' \in Int
    BY <1>3, LoopAssumption DEF Shift
  <2> QED
    BY <1>3, <2>1, LoopKept DEF Shift
<1>4. CASE UNCHANGED <<vars, plant>>
  <2>1. demand' \in Int
    BY <1>4 DEF plant, LoopInv, LoopShape
  <2> QED
    BY <1>4, <2>1, LoopKept DEF vars, plant
<1> QED
  BY <1>1, <1>2, <1>3, <1>4 DEF LoopNext

LEMMA LoopStarts == LoopInit => LoopInv
<1> SUFFICES ASSUME LoopInit PROVE LoopInv
  OBVIOUS
<1>1. InductiveInv /\ now = 0 /\ last_decision = 0 - MinDecisionInterval
  BY InvInit DEF LoopInit, Init
<1>2. PICK stored \in Stores : pack = Plant!New(stored, 0)
  BY <1>1 DEF LoopInit
<1>3. /\ unread = pack /\ report = Plant!ReadingOf(pack) /\ demand \in Int /\ lag \in Lags
      /\ missed = 0 /\ bitten = FALSE
  BY LoopAssumption DEF LoopInit
<1>4. /\ stored \in 0 .. Capacity /\ AboveFloor(stored)
  BY FloorAssumption DEF AboveFloor
<1>5. /\ pack.stored = stored /\ pack.power = 0 /\ pack.origin = 0 /\ pack.started = 0 /\ pack.target = 0 /\ pack.last = 0
      /\ pack \in Plant!Batteries
  <2>1. stored \in Int
    BY <1>4, PlantAssumption
  <2> QED
    BY <1>2, <2>1 DEF Plant!New, Plant!Batteries
<1>6. Packed(pack) /\ Capped(pack)
  BY <1>4, <1>5, PlantAssumption DEF Packed, Capped
<1>7. Plant!FlowAt(pack, 0) = 0
  <2>1. PICK v \in Nat : v = Rate * Plant!Most(0, 0 - 0)
    <3>1. Plant!Most(0, 0 - 0) \in Nat /\ \A r \in Nat, n \in Nat : r * n \in Nat
      BY DEF Plant!Most
    <3> QED
      BY <3>1, PlantAssumption
  <2>2. 0 + Plant!Within(0 - 0, -v, v) = 0
    BY DEF Plant!Within, Plant!Most, Plant!Least
  <2> QED
    BY <1>5, <2>1, <2>2 DEF Plant!FlowAt
<1>8. SinceCommand = 0
  <2>1. 0 * TickLength = 0 /\ 0 < BlindRounds
    BY LoopAssumption
  <2> QED
    BY <1>3, <2>1 DEF SinceCommand
<1>9. report.current_power = 0
  BY <1>3, <1>5 DEF Plant!ReadingOf
<1>10. LoopShape
  <2>1. last_decision <= now
    BY <1>1, TuningAssumption
  <2>2. pack.last = now - SinceCommand /\ ~(pack.target > 0)
    BY <1>1, <1>5, <1>8
  <2>3. missed \in 0 .. MaxMissed
    BY <1>3, LoopAssumption
  <2>4. Packed(unread) /\ unread.last = pack.last /\ report.current_power \in Int
    BY <1>3, <1>6, <1>9
  <2>5. bitten \in BOOLEAN
    BY <1>3
  <2> QED
    BY <1>3, <1>6, <2>1, <2>2, <2>3, <2>4, <2>5 DEF LoopShape
<1>11. AlikeInv
  <2>1. Kept(unread, pack)
    <3>1. StoredAt(pack, pack.last) = pack.stored
      BY <1>6, StoredNow
    <3> QED
      BY <1>3, <1>5, <1>6, <1>7, <3>1 DEF Kept, SameRamp
  <2>2. ~Plant!Bitten(pack, now)
    BY <1>1, <1>5 DEF Plant!Bitten
  <2>3. Rate * SinceReport \in Nat
    <3>1. PICK tick \in Nat, device \in Nat : tick = TickLength /\ device = lag.device /\ device < tick
      BY <1>3, LoopAssumption
    <3>2. SinceReport = (0 + 1) * tick - device
      BY <1>3, <3>1 DEF SinceReport
    <3>3. SinceReport \in Nat
      BY <3>1, <3>2
    <3>4. \A m, n \in Nat : m * n \in Nat
      OBVIOUS
    <3> QED
      BY <3>3, <3>4, PlantAssumption
  <2>4. report.current_power - Plant!FlowAt(pack, now) = 0 /\ Plant!FlowAt(pack, now) - report.current_power = 0
    BY <1>1, <1>7, <1>9
  <2> QED
    BY <2>1, <2>2, <2>3, <2>4 DEF AlikeInv
<1>12. FloorInv
  <2>1. Tail(pack) = 0
    <3>1. Discharged(0) = 0
      BY DEF Discharged, Plant!Most
    <3>2. 0 * 0 = 0 /\ DischargeCost * 0 = 0
      BY PlantAssumption
    <3> QED
      BY <1>5, <1>7, <3>1, <3>2 DEF Tail
  <2>2. ASSUME NEW x \in Nat PROVE Owes(pack, x)
    <3>1. stored \in Int /\ stored <= stored - 0 + x + BlindDrain
      BY <1>4, BlindInt, PlantAssumption
    <3>2. AboveFloor(stored - 0 + x + BlindDrain)
      BY <1>4, <3>1, BlindInt, AboveMore
    <3>3. ~(pack.target > 0)
      BY <1>5
    <3> QED
      BY <1>5, <2>1, <3>2, <3>3 DEF Owes
  <2>3. DrainedIn(TickLength) \in Nat /\ DrainedIn(TickLength) + BlindDrain \in Nat
    <3>1. DrainedIn(TickLength) \in Nat
      BY DrainedInt, LoopAssumption
    <3> QED
      BY <3>1, BlindInt
  <2> QED
    BY <2>2, <2>3 DEF FloorInv
<1> QED
  BY <1>1, <1>10, <1>11, <1>12 DEF LoopInv

\* Whatever the plant, the load and the outages, the controller keeps its invariant and the
\* loop its own.
THEOREM LoopIsInductive == LoopSpec => []LoopInv
<1> QED BY LoopStarts, LoopStep, PTL DEF LoopSpec

\* The controller's rest, its day's budget and its rails hold against the plant as they do
\* against every world.
THEOREM LoopKeepsController == LoopSpec => [](RestBeforeDischarge /\ CycleBudget /\ NoWindup)
<1>1. LoopInv => RestBeforeDischarge /\ CycleBudget /\ NoWindup
  <2> SUFFICES ASSUME LoopInv PROVE RestBeforeDischarge /\ CycleBudget /\ NoWindup
    OBVIOUS
  <2>1. InductiveInv
    BY DEF LoopInv
  <2>2. RestBeforeDischarge /\ CycleBudget /\ NoWindup
    BY <2>1, InvKeeps
  <2> QED
    BY <2>2
<1> QED BY <1>1, LoopIsInductive, PTL

-----------------------------------------------------------------------------
(* The loop: its properties.                                                  *)

LEMMA CadenceHolds == LoopInv => ReadCadence
<1> SUFFICES ASSUME LoopInv, ~bitten PROVE Plant!Advanced(pack, now) = Plant!Advanced(unread, now)
  BY DEF ReadCadence
<1>1. Kept(unread, pack) /\ ~Plant!Bitten(pack, now)
  BY DEF LoopInv, AlikeInv
<1>2. now \in Int /\ pack.last <= now
  BY RoundTimes DEF LoopInv, InductiveInv
<1> QED
  BY <1>1, <1>2, KeptAlike

LEMMA FloorHolds == LoopInv => FloorHeld
<1> SUFFICES ASSUME LoopInv PROVE FloorHeld
  OBVIOUS
<1> DEFINE a == Plant!Advanced(pack, now)
           time == now - pack.last
           tick == DrainedIn(TickLength)
<1>1. now \in Int /\ pack.last \in Int /\ pack.last <= now /\ At = now + TickLength /\ TickLength \in Nat
      /\ (pack.target > 0 => At - pack.last <= BlindTime) /\ BlindTime \in Nat
  BY RoundTimes, BlindInt, LoopAssumption DEF LoopInv, InductiveInv, At
<1>2. Packed(pack) /\ Capped(pack)
  BY DEF LoopInv, LoopShape
<1>3. time \in Nat /\ Follows(pack, a, time)
  BY <1>1, <1>2, FollowsAdvanced
<1>4. /\ pack.stored \in Int /\ a.stored \in Int /\ pack.target \in Int /\ Tail(pack) \in Nat /\ Tail(a) \in Nat
      /\ a.stored >= pack.stored - DrainedIn(time)
      /\ pack.target <= 0 => a.stored - Tail(a) >= pack.stored - Tail(pack)
  <2>1. Packed(a) /\ Capped(a)
    BY <1>3 DEF Follows
  <2>2. a.stored \in Int /\ Tail(a) \in Nat
    BY <2>1, PackedInt, TailBounds
  <2>3. pack.stored \in Int /\ pack.target \in Int /\ Tail(pack) \in Nat
    BY <1>2, PackedInt, TailBounds
  <2> QED
    BY <1>3, <2>2, <2>3 DEF Follows
<1>5. tick \in Nat /\ DrainedIn(time) \in Nat /\ BlindDrain \in Nat
  BY <1>1, <1>3, DrainedInt, BlindInt
<1> HIDE DEF a
<1>6. ASSUME NEW x \in Nat, Owes(pack, x) PROVE AboveFloor(a.stored + x + BlindDrain)
  <2>1. CASE pack.target > 0
    <3>1. AboveFloor(pack.stored + x)
      BY <1>6, <2>1 DEF Owes
    <3>2. time <= BlindTime
      BY <1>1, <2>1
    <3>3. DrainedIn(time) <= DrainedIn(BlindTime)
      BY <1>1, <1>3, <3>2, DrainedInt
    <3>4. pack.stored + x <= a.stored + x + BlindDrain
      BY <1>4, <1>5, <3>3, BlindInt
    <3> QED
      BY <1>4, <1>5, <3>1, <3>4, AboveMore
  <2>2. CASE pack.target <= 0
    <3>1. AboveFloor(pack.stored - Tail(pack) + x + BlindDrain)
      BY <1>4, <1>6, <2>2 DEF Owes
    <3>2. pack.stored - Tail(pack) + x + BlindDrain <= a.stored + x + BlindDrain
      BY <1>4, <1>5, <2>2
    <3> QED
      BY <1>4, <1>5, <3>1, <3>2, AboveMore
  <2> QED
    BY <1>4, <2>1, <2>2
<1>7. lag.rounds \in {0, 1}
  BY LoopAssumption DEF LoopInv, LoopShape
<1>8. AboveFloor(a.stored + tick + (1 + lag.rounds) * BlindDrain)
  <2>1. CASE lag.rounds = 0
    <3>1. Owes(pack, tick)
      BY <2>1 DEF LoopInv, FloorInv
    <3>2. AboveFloor(a.stored + tick + BlindDrain)
      BY <1>5, <1>6, <3>1
    <3>3. (1 + 0) * BlindDrain = BlindDrain
      BY <1>5
    <3> QED
      BY <2>1, <3>2, <3>3
  <2>2. CASE lag.rounds = 1
    <3>1. Owes(pack, tick + BlindDrain)
      BY <2>2 DEF LoopInv, FloorInv
    <3>2. tick + BlindDrain \in Nat
      BY <1>5
    <3>3. AboveFloor(a.stored + (tick + BlindDrain) + BlindDrain)
      BY <1>6, <3>1, <3>2
    <3>4. a.stored + (tick + BlindDrain) + BlindDrain = a.stored + tick + (1 + 1) * BlindDrain
      BY <1>4, <1>5
    <3> QED
      BY <2>2, <3>3, <3>4
  <2> QED
    BY <1>7, <2>1, <2>2
<1> QED
  BY <1>8 DEF AboveFloor, FloorHeld, a

\* A round or a missed one reads the pack some times and, at the last, commands it: at an
\* end of the pack every one of them finds it at rest.
LEMMA RailsStep ==
  ASSUME LoopInv, [LoopNext]_<<vars, plant>>, pack'.last > pack.last
  PROVE  /\ pack.stored = Capacity /\ (\A f \in Drawn(pack, pack'.last) : f <= 0) => pack'.power >= 0
         /\ pack.stored = 0 /\ (\A f \in Drawn(pack, pack'.last) : f >= 0) => pack'.power <= 0
<1>1. TypeOK /\ InductiveInv /\ LoopShape
  BY DEF LoopInv, InductiveInv
<1>2. /\ Packed(pack) /\ pack.last \in Int /\ FirstAt \in Int /\ BothAt \in Int /\ At \in Int
      /\ pack.last <= FirstAt /\ FirstAt <= BothAt /\ BothAt < At
  BY <1>1, RoundTimes DEF LoopShape
<1>3. Drawn(pack, At) = {Plant!FlowAt(pack, pack.last), Plant!FlowAt(pack, At)}
  BY DEF Drawn
<1>4. ASSUME pack.stored = Capacity /\ (\A f \in Drawn(pack, At) : f <= 0) PROVE Full(pack, At)
  BY <1>3, <1>4 DEF Full
<1>5. ASSUME pack.stored = 0 /\ (\A f \in Drawn(pack, At) : f >= 0) PROVE Empty(pack, At)
  <2>1. Plant!FlowAt(pack, pack.last) \in Int /\ Plant!FlowAt(pack, At) \in Int
    BY <1>2, FlowMoves, PackedInt
  <2>2. 0 <= Plant!FlowAt(pack, pack.last) /\ 0 <= Plant!FlowAt(pack, At)
    BY <1>3, <1>5, <2>1
  <2> QED
    BY <1>5, <2>2 DEF Empty
<1>6. CASE Round
  <2>1. pack'.last = At /\ pack'.power = Reached.power
    BY <1>1, <1>6, RoundLeaves
  <2>2. /\ FirstRead = Plant!Advanced(pack, FirstAt) /\ BothRead = Plant!Advanced(FirstRead, BothAt)
        /\ Packed(FirstRead) /\ FirstRead.last = FirstAt /\ Packed(BothRead) /\ BothRead.last = BothAt
    BY <1>1, RoundReads DEF Follows
  <2>3. ASSUME Full(pack, At) PROVE Reached.power >= 0
    <3>1. Full(FirstRead, At)
      <4>1. CASE pack.last < FirstAt
        BY <1>2, <2>2, <2>3, <4>1, FullStays
      <4>2. CASE pack.last = FirstAt
        BY <1>2, <2>2, <2>3, <4>2, AdvancedPacked
      <4> QED
        BY <1>2, <4>1, <4>2
    <3>2. Full(BothRead, At)
      <4>1. CASE FirstAt < BothAt
        BY <1>2, <2>2, <3>1, <4>1, FullStays
      <4>2. CASE FirstAt = BothAt
        BY <1>2, <2>2, <3>1, <4>2, AdvancedPacked
      <4> QED
        BY <1>2, <4>1, <4>2
    <3> QED
      BY <1>2, <2>2, <3>2, FullStays DEF Reached
  <2>4. ASSUME Empty(pack, At) PROVE Reached.power <= 0
    <3>1. Empty(FirstRead, At)
      <4>1. CASE pack.last < FirstAt
        BY <1>2, <2>2, <2>4, <4>1, EmptyStays
      <4>2. CASE pack.last = FirstAt
        BY <1>2, <2>2, <2>4, <4>2, AdvancedPacked
      <4> QED
        BY <1>2, <4>1, <4>2
    <3>2. Empty(BothRead, At)
      <4>1. CASE FirstAt < BothAt
        BY <1>2, <2>2, <3>1, <4>1, EmptyStays
      <4>2. CASE FirstAt = BothAt
        BY <1>2, <2>2, <3>1, <4>2, AdvancedPacked
      <4> QED
        BY <1>2, <4>1, <4>2
    <3> QED
      BY <1>2, <2>2, <3>2, EmptyStays DEF Reached
  <2> QED
    BY <1>4, <1>5, <2>1, <2>3, <2>4
<1>7. CASE Missed
  <2>1. pack' # pack
    BY <1>2
  <2>2. pack' = Plant!Applied(pack, At, "Idle", 0) /\ pack'.last = At
    BY <1>1, <1>7, <2>1, MissedLeaves
  <2>3. pack.last < At
    BY <1>2
  <2>4. pack'.power = Plant!Advanced(pack, At).power
    BY <1>2, <2>2, <2>3, AppliedIs
  <2>5. Full(pack, At) => Plant!Advanced(pack, At).power >= 0
    BY <1>2, <2>3, FullStays
  <2>6. Empty(pack, At) => Plant!Advanced(pack, At).power <= 0
    BY <1>2, <2>3, EmptyStays
  <2> QED
    BY <1>4, <1>5, <2>2, <2>4, <2>5, <2>6
<1>8. CASE pack' = pack
  BY <1>2, <1>8
<1> QED
  BY <1>6, <1>7, <1>8 DEF LoopNext, Shift, plant

\* Whatever the plant, its loads, latencies and outages: the floor is kept but for what the
\* blind windows take, a read changes nothing, and the ends of the pack are at rest.
THEOREM PlantIsSound == LoopSpec => PlantSound
<1>1. LoopInv => FloorHeld /\ ReadCadence
  BY CadenceHolds, FloorHolds
<1> DEFINE A == pack'.last > pack.last =>
                  /\ pack.stored = Capacity /\ (\A f \in Drawn(pack, pack'.last) : f <= 0) => pack'.power >= 0
                  /\ pack.stored = 0 /\ (\A f \in Drawn(pack, pack'.last) : f >= 0) => pack'.power <= 0
<1>2. LoopInv /\ [LoopNext]_<<vars, plant>> => [A]_<<vars, plant>>
  BY RailsStep
<1> QED
  BY <1>1, <1>2, LoopIsInductive, PTL DEF LoopSpec, PlantSound, RailsReportRest

\* What a round works out the demand to be is off by no more than the ramp between the
\* readings it is worked out from.
LEMMA ReadingsNear ==
  ASSUME LoopInv, Round, Skew = 0 \/ ~bitten'
  PROVE  /\ Folded(Fresh).current_power - MeterRead.power <= Rate * Skew
         /\ MeterRead.power - Folded(Fresh).current_power <= Rate * Skew
         /\ Folded(Fresh).current_power \in Int /\ MeterRead.power \in Int /\ Rate * Skew \in Int
<1>1. TypeOK /\ InductiveInv /\ LoopShape /\ AlikeInv
  BY DEF LoopInv, InductiveInv
<1>2. PICK rate \in Nat, tick \in Nat, device \in Nat, meter \in Nat, m \in Nat :
        /\ rate = Rate /\ tick = TickLength /\ device = lag.device /\ meter = lag.meter /\ m = missed
        /\ device < tick
  BY <1>1, LoopAssumption, PlantAssumption DEF LoopShape
<1>3. now \in Int /\ DeviceAt = now + device /\ MeterAt = now + meter /\ DeviceAt \in Int /\ MeterAt \in Int
  BY <1>1, <1>2 DEF TypeOK, DeviceAt, MeterAt
<1>4. pack \in Plant!Batteries
  BY <1>1 DEF LoopShape, Packed
<1>5. MeterRead.power \in Int /\ Folded(Fresh).current_power \in Int /\ Fresh.current_power = DeviceRead.power
  BY <1>1, RoundReads, PackedInt, FreshIs
<1>6. PICK skew \in Int : skew = Skew
  <2>1. Skew \in Int
    <3>1. Abs(device - meter) \in Int
      BY DEF Abs
    <3>2. (m + 1) * tick - device + meter \in Int
      OBVIOUS
    <3> QED
      BY <1>2, <3>1, <3>2 DEF Skew
  <2> QED
    BY <2>1
<1>7. rate * skew \in Int /\ rate * 0 = 0
  OBVIOUS
<1>8. ASSUME ~bitten' PROVE MeterRead.power = Plant!FlowAt(pack, MeterAt) /\ DeviceRead.power = Plant!FlowAt(pack, DeviceAt)
  BY <1>1, <1>8, RoundLeaves, ReadsAlike
<1>9. CASE lag.rounds = 0
  <2>1. Folded(Fresh).current_power = DeviceRead.power /\ skew = Abs(device - meter)
    BY <1>2, <1>5, <1>6, <1>9 DEF Folded, Skew
  <2>2. CASE skew = 0
    <3>1. device = meter
      BY <2>1, <2>2 DEF Abs
    <3>2. DeviceRead = MeterRead
      BY <1>2, <3>1 DEF DeviceRead, MeterRead
    <3>3. Folded(Fresh).current_power - MeterRead.power = 0 /\ MeterRead.power - Folded(Fresh).current_power = 0
      BY <1>5, <2>1, <3>2
    <3> QED
      BY <1>2, <1>5, <1>6, <1>7, <2>2, <3>3
  <2>3. CASE skew # 0
    <3>1. ~bitten'
      BY <1>6, <2>3
    <3>2. Plant!Size(DeviceAt - MeterAt) = skew
      BY <1>3, <2>1 DEF Abs, Plant!Size, Plant!Most
    <3>3. /\ Plant!FlowAt(pack, DeviceAt) - Plant!FlowAt(pack, MeterAt) <= Rate * Plant!Size(DeviceAt - MeterAt)
          /\ Plant!FlowAt(pack, MeterAt) - Plant!FlowAt(pack, DeviceAt) <= Rate * Plant!Size(DeviceAt - MeterAt)
      BY <1>3, <1>4, FlowNear
    <3> QED
      BY <1>2, <1>5, <1>6, <1>7, <1>8, <2>1, <3>1, <3>2, <3>3
  <2> QED
    BY <2>2, <2>3
<1>10. CASE lag.rounds # 0
  <2>1. Folded(Fresh) = report /\ skew = (m + 1) * tick - device + meter
    BY <1>2, <1>6, <1>10 DEF Folded, Skew
  <2>2. PICK since \in Nat : since = SinceReport /\ skew = since + meter /\ since # 0
    <3>1. PICK gone \in Nat : gone = m * tick /\ (m + 1) * tick = gone + tick
      <4>1. m * tick \in Nat /\ (m + 1) * tick = m * tick + tick
        OBVIOUS
      <4> QED
        BY <4>1
    <3>2. SinceReport = gone + tick - device
      BY <1>2, <3>1 DEF SinceReport
    <3>3. gone + tick - device \in Nat /\ gone + tick - device # 0
      BY <1>2, <3>1
    <3> QED
      BY <2>1, <3>1, <3>2, <3>3
  <2>3. ~bitten'
    BY <1>6, <2>2
  <2>4. ~bitten
    BY <1>1, <2>3, RoundLeaves DEF Bites
  <2>5. PICK was \in Int, f \in Int, g \in Int :
          was = report.current_power /\ f = Plant!FlowAt(pack, now) /\ g = Plant!FlowAt(pack, MeterAt)
    BY <1>1, <1>3, <1>4, FlowMoves DEF LoopShape
  <2>6. was - f <= rate * since /\ f - was <= rate * since
    BY <1>1, <1>2, <2>2, <2>4, <2>5 DEF AlikeInv
  <2>7. g - f <= rate * meter /\ f - g <= rate * meter
    <3>1. Plant!Size(MeterAt - now) = meter
      BY <1>3 DEF Plant!Size, Plant!Most
    <3> QED
      BY <1>2, <1>3, <1>4, <2>5, <3>1, FlowNear
  <2>8. rate * skew = rate * since + rate * meter /\ rate * since \in Int /\ rate * meter \in Int
    <3>1. rate * (since + meter) = rate * since + rate * meter
      OBVIOUS
    <3> QED
      BY <2>2, <3>1
  <2>9. was - g <= rate * skew /\ g - was <= rate * skew
    BY <2>6, <2>7, <2>8
  <2> QED
    BY <1>2, <1>5, <1>6, <1>7, <1>8, <2>1, <2>3, <2>5, <2>9
<1> QED
  BY <1>9, <1>10

LEMMA TenureOpens ==
  ASSUME LoopInv, [LoopNext]_<<vars, plant>>, last_mode' # last_mode, Skew = 0 \/ ~bitten'
  PROVE  /\ last_mode' = "Charge" => demand < ChargeStart + Rate * Skew
         /\ last_mode' = "Discharge" => demand > DischargeStart - Rate * Skew
<1>1. Round
  <2>1. last_mode' = last_mode \/ Round
    BY DEF LoopNext, Missed, Shift, control, vars, plant
  <2> QED
    BY <2>1
<1> DEFINE w == World(Folded(Fresh))
<1>2. last_mode' \in Active => last_mode' = Target(w, At)
  BY <1>1, RoundDecides DEF LoopInv
<1>3. PICK flow \in Int, read \in Int, slack \in Int, load \in Int :
        /\ flow = Folded(Fresh).current_power /\ read = MeterRead.power /\ slack = Rate * Skew /\ load = demand
        /\ flow - read <= slack /\ read - flow <= slack
  BY <1>1, ReadingsNear DEF LoopInv, LoopShape
<1>4. Underlying(w) = load - read + flow
  BY <1>3 DEF Underlying, World, Observation
<1>5. ChargeStart \in Int /\ DischargeStart \in Int
  BY PowerAssumption
<1> HIDE DEF w
<1>6. ASSUME last_mode' = "Charge" PROVE demand < ChargeStart + Rate * Skew
  <2>1. Target(w, At) = "Charge" /\ last_mode # "Charge"
    BY <1>2, <1>6 DEF Active
  <2>2. ChargeWanted(w)
    BY <2>1 DEF Target, TargetMode
  <2>3. load - read + flow < ChargeStart
    BY <1>4, <2>1, <2>2 DEF ChargeWanted, ChargeThreshold
  <2> QED
    BY <1>3, <1>5, <2>3
<1>7. ASSUME last_mode' = "Discharge" PROVE demand > DischargeStart - Rate * Skew
  <2>1. Target(w, At) = "Discharge" /\ last_mode # "Discharge"
    BY <1>2, <1>7 DEF Active
  <2>2. DischargeWanted(w)
    BY <2>1 DEF Target, TargetMode
  <2>3. load - read + flow > DischargeStart
    BY <1>4, <2>1, <2>2 DEF DischargeWanted, DischargeThreshold
  <2> QED
    BY <1>3, <1>5, <2>3
<1> QED
  BY <1>6, <1>7

\* Whatever ramps, latencies and outages a round's readings saw, a tenure opens where the
\* demand asks for one, but for what the battery ramps between the two.
THEOREM TenuresAreAsked == LoopSpec => TenuresFollowDemand
<1> DEFINE A == last_mode' # last_mode /\ (Skew = 0 \/ ~bitten') =>
                  /\ last_mode' = "Charge" => demand < ChargeStart + Rate * Skew
                  /\ last_mode' = "Discharge" => demand > DischargeStart - Rate * Skew
<1>1. LoopInv /\ [LoopNext]_<<vars, plant>> => [A]_<<vars, plant>>
  BY TenureOpens
<1> QED
  BY <1>1, LoopIsInductive, PTL DEF LoopSpec, TenuresFollowDemand

-----------------------------------------------------------------------------
(* The loop: what the battery reports.                                        *)

\* A quotient of no more than a top, rounded.
LEMMA RoundedCapped ==
  ASSUME NEW n \in Nat, NEW d \in Nat \ {0}, NEW top \in Nat, n <= top * d
  PROVE  Plant!Rounded(n, d) \in 0 .. top /\ Plant!Rounded(-n, d) \in -top .. 0
<1>1. PICK e \in Nat \ {0}, num \in Nat, td \in Nat : e = 2 * d /\ num = 2 * n + d /\ td = top * d /\ n <= td
  OBVIOUS
<1>2. PICK q \in Int : q = num \div e /\ q * e <= num /\ q >= 0
  <2>1. num \div e \in Int /\ (num \div e) * e <= num /\ num \div e >= 0
    BY <1>1
  <2> QED
    BY <2>1
<1>3. q <= top
  <2> SUFFICES ASSUME q >= top + 1 PROVE FALSE
    BY <1>2
  <2>1. (top + 1) * e <= q * e
    BY <1>1
  <2>2. (top + 1) * e = 2 * (top * d) + 2 * d
    <3>1. (top + 1) * e = top * e + e
      BY <1>1
    <3>2. top * e = 2 * (top * d)
      BY <1>1
    <3> QED
      BY <1>1, <3>1, <3>2
  <2>3. PICK qe \in Int : qe = q * e
    BY <1>1
  <2>4. 2 * td + 2 * d <= 2 * n + d
    BY <1>1, <1>2, <2>1, <2>2, <2>3
  <2> QED
    BY <1>1, <2>4
<1>4. Plant!Rounded(n, d) = q
  BY <1>1, <1>2 DEF Plant!Rounded
<1>5. IF n = 0 THEN Plant!Rounded(-n, d) = q ELSE Plant!Rounded(-n, d) = -q
  <2>1. CASE n = 0
    <3>1. -n + -n = 0 /\ -n \in Int
      BY <2>1
    <3>2. \A x \in Int : x + x = 0 => x = 0
      OBVIOUS
    <3>3. -n = n
      BY <2>1, <3>1, <3>2
    <3> QED
      BY <1>4, <2>1, <3>3
  <2>2. CASE n # 0
    <3>1. -n < 0 /\ -2 * (-n) + d = num
      BY <1>1, <2>2
    <3>2. Plant!Rounded(-n, d) = -(num \div e)
      BY <1>1, <3>1 DEF Plant!Rounded
    <3> QED
      BY <1>2, <2>2, <3>2
  <2> QED
    BY <2>1, <2>2
<1>6. ASSUME n = 0 PROVE q = 0
  <2>1. num = d /\ d < e
    BY <1>1, <1>6
  <2> QED
    BY <1>1, <1>2, <2>1
<1> QED
  BY <1>2, <1>3, <1>4, <1>5, <1>6

\* A pack on a ramp between the rated powers.
Rated == -MaxCharge .. MaxDischarge
Railed(b) == b.origin \in Rated /\ b.target \in Rated

LEMMA FlowRailed ==
  ASSUME NEW b \in Plant!Batteries, Railed(b), NEW t \in Int
  PROVE  /\ Plant!FlowAt(b, t) \in Rated
         /\ Charged(Plant!FlowAt(b, t)) \in 0 .. MaxCharge /\ Discharged(Plant!FlowAt(b, t)) \in 0 .. MaxDischarge
<1>1. PICK o \in Int, g \in Int, in \in Nat, out \in Nat :
        /\ o = b.origin /\ g = b.target /\ in = MaxCharge /\ out = MaxDischarge
        /\ -in <= o /\ o <= out /\ -in <= g /\ g <= out
  BY PlantAssumption DEF Railed, Rated
<1>2. PICK v \in Nat : v = Rate * Plant!Most(0, t - b.started)
  <2>1. Plant!Most(0, t - b.started) \in Nat
    BY DEF Plant!Batteries, Plant!Most
  <2> QED
    BY <2>1, PlantAssumption
<1>3. Plant!FlowAt(b, t) = o + Plant!Within(g - o, -v, v)
  BY <1>1, <1>2 DEF Plant!FlowAt
<1>4. PICK f \in Int : f = Plant!FlowAt(b, t) /\ -in <= f /\ f <= out
  <2>1. /\ o + Plant!Within(g - o, -v, v) \in Int
        /\ -in <= o + Plant!Within(g - o, -v, v) /\ o + Plant!Within(g - o, -v, v) <= out
    BY <1>1 DEF Plant!Within, Plant!Most, Plant!Least
  <2> QED
    BY <1>3, <2>1
<1> QED
  BY <1>1, <1>4 DEF Rated, Charged, Discharged, Plant!Most

\* What a clamp lets land took no more power than the ramp had.
LEMMA PowerRated ==
  ASSUME NEW b, Packed(b), Railed(b), NEW t \in Int, b.last < t
  PROVE  Plant!Advanced(b, t).power \in Rated
<1>1. b \in Plant!Batteries /\ b.last \in Int /\ b.stored \in 0 .. Capacity /\ b.started <= b.last
  BY PackedInt
<1>2. Plant!Advanced(b, t).power = Plant!Power(b, StoredAt(b, t), t)
  BY AdvancedIs
<1>3. PICK last \in Int, dt \in Nat \ {0}, rate \in Nat \ {0}, cap \in Nat, stored \in Nat,
           gain \in Nat \ {0}, cost \in Nat \ {0}, in \in Nat, out \in Nat :
        /\ last = b.last /\ dt = t - last /\ rate = Rate /\ cap = Capacity /\ stored = b.stored /\ stored <= cap
        /\ gain = ChargeGain /\ cost = DischargeCost /\ in = MaxCharge /\ out = MaxDischarge
  <2>1. t - b.last \in Nat \ {0} /\ b.stored \in Nat /\ b.stored <= Capacity
    BY <1>1, PlantAssumption
  <2> QED
    BY <1>1, <2>1, PlantAssumption
<1>4. PICK f \in Int, g \in Int : f = Plant!FlowAt(b, last) /\ g = Plant!FlowAt(b, t) /\ g \in Rated
  <2>1. Plant!FlowAt(b, last) \in Int /\ Plant!FlowAt(b, t) \in Int
    <3>1. last <= t
      BY <1>1, <1>3
    <3> QED
      BY <1>1, <1>3, <3>1, FlowMoves
  <2>2. Plant!FlowAt(b, t) \in Rated
    BY <1>1, FlowRailed
  <2> QED
    BY <2>1, <2>2
<1>5. /\ Charged(f) \in 0 .. in /\ Charged(g) \in 0 .. in
      /\ Discharged(f) \in 0 .. out /\ Discharged(g) \in 0 .. out
  BY <1>1, <1>3, <1>4, FlowRailed
<1>6. PICK p \in 0 .. in, q \in 0 .. in, r \in 0 .. out, s \in 0 .. out :
        p = Charged(f) /\ q = Charged(g) /\ r = Discharged(f) /\ s = Discharged(g)
  BY <1>5
<1>7. PICK held \in Nat, c \in Nat, d \in Nat :
        /\ held = Held(b, last, t) /\ c = Plant!Moved(b, last, t).charged /\ d = Plant!Moved(b, last, t).discharged
        /\ c = Plant!Area(p, q, held) /\ d = Plant!Area(r, s, held)
  BY <1>1, <1>3, <1>4, <1>6, MovedIs
<1>8. PICK m \in Nat \ {0} : m = rate * dt /\ held = m - Plant!Size(g - f) /\ Plant!Size(g - f) \in Nat
  <2>1. rate * dt \in Nat \ {0}
    OBVIOUS
  <2>2. Plant!Size(g - f) \in Nat
    BY DEF Plant!Size, Plant!Most
  <2> QED
    BY <1>3, <1>4, <1>7, <2>1, <2>2 DEF Held
<1>9. Plant!Size(q - p) + held <= m /\ Plant!Size(s - r) + held <= m
  <2>1. Plant!Size(q - p) <= Plant!Size(g - f) /\ Plant!Size(s - r) <= Plant!Size(g - f)
    BY <1>6 DEF Charged, Discharged, Plant!Size, Plant!Most
  <2>2. PICK x \in Int, y \in Int, z \in Nat :
          x = Plant!Size(q - p) /\ y = Plant!Size(s - r) /\ z = Plant!Size(g - f)
    <3>1. Plant!Size(q - p) \in Int /\ Plant!Size(s - r) \in Int
      BY DEF Plant!Size, Plant!Most
    <3>2. Plant!Size(g - f) \in Nat
      BY DEF Plant!Size, Plant!Most
    <3> QED
      BY <3>1, <3>2
  <2>3. held = m - z
    BY <1>8, <2>2
  <2>4. x <= z /\ y <= z
    BY <2>1, <2>2
  <2>5. x + held <= m /\ y + held <= m
    BY <2>3, <2>4
  <2> QED
    BY <2>2, <2>5
<1>10. c <= 2 * in * m /\ d <= 2 * out * m
  BY <1>7, <1>9, AreaCapped
<1>11. PICK after \in Int : after = StoredAt(b, t) /\ after = stored + gain * c - cost * d
  <2>1. StoredAt(b, t) = stored + gain * c - cost * d
    BY <1>3, <1>7 DEF StoredAt, Plant!SettledAt
  <2>2. stored + gain * c - cost * d \in Int
    OBVIOUS
  <2> QED
    BY <2>1, <2>2
\* The divisor of a direction, and the most that can land in it.
<1>12. ASSUME NEW k \in Nat \ {0}, NEW top \in Nat, NEW x \in Nat, x <= 2 * top * m
       PROVE  k * 2 * rate * dt \in Nat \ {0} /\ k * x <= top * (k * 2 * rate * dt)
  <2>1. PICK h \in Nat \ {0} : h = k * 2
    OBVIOUS
  <2>2. h * rate * dt = h * m
    BY <1>8
  <2>3. h * m \in Nat \ {0}
    BY <2>1, <1>8
  <2>4. k * x <= k * (2 * top * m)
    <3>1. 2 * top * m \in Nat
      OBVIOUS
    <3> QED
      BY <1>12, <3>1, Scaled
  <2>5. k * (2 * top * m) = top * (h * m)
    <3>1. PICK km \in Nat, tm \in Nat : km = k * m /\ tm = top * m
      OBVIOUS
    <3>2. h * m = 2 * km /\ 2 * top * m = 2 * tm
      BY <2>1, <3>1
    <3>3. k * (2 * tm) = 2 * (k * tm) /\ top * (2 * km) = 2 * (top * km)
      OBVIOUS
    <3>4. k * tm = top * km
      BY <3>1
    <3> QED
      BY <3>2, <3>3, <3>4
  <2> QED
    BY <2>1, <2>2, <2>3, <2>4, <2>5
<1>13. CASE after \in 0 .. cap
  BY <1>2, <1>3, <1>4, <1>11, <1>13 DEF Plant!Power
<1>14. CASE after > cap
  <2>1. PICK landed \in Nat : landed = cap - stored /\ landed <= gain * c
    <3>1. gain * c \in Nat /\ cost * d \in Nat
      OBVIOUS
    <3> QED
      BY <1>3, <1>11, <1>14, <3>1
  <2>2. Plant!Advanced(b, t).power = Plant!AchievedFlow(landed, dt)
    <3>1. Plant!Within(after, 0, cap) = cap
      BY <1>14 DEF Plant!Within, Plant!Most, Plant!Least
    <3> QED
      BY <1>2, <1>3, <1>11, <1>14, <2>1, <3>1 DEF Plant!Power
  <2>3. CASE landed = 0
    <3>1. Plant!AchievedFlow(landed, dt) = 0
      BY <2>3, AchievedNone
    <3> QED
      BY <1>3, <2>2, <3>1 DEF Rated
  <2>4. CASE landed > 0
    <3>1. PICK div \in Nat \ {0} : div = gain * 2 * rate * dt /\ gain * c <= in * div
      BY <1>10, <1>12
    <3>2. landed <= in * div
      <4>1. gain * c \in Int /\ in * div \in Int
        OBVIOUS
      <4> QED
        BY <2>1, <3>1, <4>1
    <3>3. Plant!AchievedFlow(landed, dt) = Plant!Rounded(-landed, div)
      BY <1>3, <2>4, <3>1 DEF Plant!AchievedFlow
    <3>4. Plant!Rounded(-landed, div) \in -in .. 0
      BY <3>2, RoundedCapped
    <3> QED
      BY <1>3, <2>2, <3>3, <3>4 DEF Rated
  <2> QED
    BY <2>3, <2>4
<1>15. CASE after < 0
  <2>1. stored <= cost * d
    <3>1. gain * c \in Nat /\ cost * d \in Nat
      OBVIOUS
    <3> QED
      BY <1>11, <1>15, <3>1
  <2>2. PICK landed \in Int : landed = 0 - stored /\ ~(landed > 0)
    OBVIOUS
  <2>3. Plant!Advanced(b, t).power = Plant!AchievedFlow(landed, dt)
    <3>1. Plant!Within(after, 0, cap) = 0
      BY <1>15 DEF Plant!Within, Plant!Most, Plant!Least
    <3>2. after \notin 0 .. cap
      BY <1>15
    <3> QED
      BY <1>2, <1>3, <1>11, <2>2, <3>1, <3>2 DEF Plant!Power
  <2>4. PICK div \in Nat \ {0} : div = cost * 2 * rate * dt /\ cost * d <= out * div
    BY <1>10, <1>12
  <2>5. stored <= out * div
    <3>1. cost * d \in Int /\ out * div \in Int
      OBVIOUS
    <3> QED
      BY <2>1, <2>4, <3>1
  <2>6. Plant!AchievedFlow(landed, dt) = Plant!Rounded(stored, div)
    <3>1. -landed = stored
      BY <2>2
    <3> QED
      BY <1>3, <2>2, <2>4, <3>1 DEF Plant!AchievedFlow
  <2>7. Plant!Rounded(stored, div) \in 0 .. out
    BY <2>5, RoundedCapped
  <2> QED
    BY <1>3, <2>3, <2>6, <2>7 DEF Rated
<1> QED
  BY <1>13, <1>14, <1>15

\* The pack's power, the report's charge and the rounds counted.
RangeInv ==
  /\ Railed(pack) /\ pack.power \in Rated
  /\ report.soc \in 0 .. 100 /\ calm \in 0 .. SettleRounds

LEMMA RangeStarts == LoopInit => RangeInv
<1> SUFFICES ASSUME LoopInit PROVE RangeInv
  OBVIOUS
<1>1. PICK stored \in Stores : pack = Plant!New(stored, now)
  BY DEF LoopInit
<1>2. pack.origin = 0 /\ pack.target = 0 /\ pack.power = 0
  BY <1>1 DEF Plant!New
<1>3. Packed(pack)
  BY LoopStarts DEF LoopInv, LoopShape
<1>4. report.soc = Plant!Percent(pack) /\ calm = 0
  BY DEF LoopInit, Plant!ReadingOf
<1>5. report.soc \in 0 .. 100
  BY <1>3, <1>4, PercentAbove
<1>6. 0 \in Rated /\ 0 \in 0 .. SettleRounds
  BY PlantAssumption, LoopAssumption DEF Rated
<1> QED
  BY <1>2, <1>4, <1>5, <1>6 DEF RangeInv, Railed

\* A command keeps a pack between the rated powers.
LEMMA AppliedRated ==
  ASSUME NEW b, Packed(b), Railed(b), NEW t \in Int, b.last < t, NEW mode, NEW watts \in Nat
  PROVE  Railed(Plant!Applied(b, t, mode, watts)) /\ Plant!Applied(b, t, mode, watts).power \in Rated
<1>1. b \in Plant!Batteries
  BY PackedInt
<1>2. Plant!FlowAt(b, t) \in Rated /\ Plant!CommandedFlow(mode, watts) \in Rated
  BY <1>1, FlowRailed, CommandedInt DEF Rated
<1>3. /\ Plant!Applied(b, t, mode, watts).origin = Plant!FlowAt(b, t)
      /\ Plant!Applied(b, t, mode, watts).target = Plant!CommandedFlow(mode, watts)
      /\ Plant!Applied(b, t, mode, watts).power = Plant!Advanced(b, t).power
  BY AppliedIs
<1> QED
  BY <1>2, <1>3, PowerRated DEF Railed

LEMMA RangeStep == LoopInv /\ RangeInv /\ [LoopNext]_<<vars, plant>> => RangeInv'
<1> SUFFICES ASSUME LoopInv, RangeInv, [LoopNext]_<<vars, plant>> PROVE RangeInv'
  OBVIOUS
<1>1. TypeOK /\ InductiveInv /\ LoopShape
  BY DEF LoopInv, InductiveInv
<1>2. SettleRounds \in Nat /\ calm \in 0 .. SettleRounds
  BY LoopAssumption DEF RangeInv
<1>3. CASE Round
  <2>1. Packed(BothRead) /\ BothRead.last < At /\ At \in Int
    BY <1>1, RoundReads, RoundTimes DEF Follows
  <2>2. Railed(BothRead)
    <3>1. SameRamp(FirstRead, pack) /\ SameRamp(BothRead, FirstRead)
      BY <1>1, RoundReads DEF Follows
    <3> QED
      BY <3>1 DEF SameRamp, Railed, RangeInv
  <2>3. pack' = Plant!Applied(BothRead, At, decision'.mode, decision'.power) /\ report' = Fresh
    BY <1>1, <1>3, RoundLeaves
  <2>4. decision'.power \in Nat
    BY <1>1, <1>3, RoundDecides
  <2>5. Railed(pack') /\ pack'.power \in Rated
    BY <2>1, <2>2, <2>3, <2>4, AppliedRated
  <2>6. report'.soc \in 0 .. 100
    BY <1>1, <2>3, FreshIs
  <2>7. calm' \in 0 .. SettleRounds
    <3>1. calm' = Plant!Least(calm + 1, SettleRounds)
      BY <1>3 DEF Round
    <3> QED
      BY <1>2, <3>1 DEF Plant!Least
  <2> QED
    BY <2>5, <2>6, <2>7 DEF RangeInv, Railed
<1>4. CASE Missed
  <2>1. report' = report /\ (pack' = pack \/ pack' = Plant!Applied(pack, At, "Idle", 0))
    BY <1>1, <1>4, MissedLeaves
  <2>2. Packed(pack) /\ pack.last < At /\ At \in Int
    BY <1>1, RoundTimes DEF LoopShape
  <2>3. Railed(pack') /\ pack'.power \in Rated
    <3>1. CASE pack' = pack
      BY <3>1 DEF RangeInv
    <3>2. CASE pack' = Plant!Applied(pack, At, "Idle", 0)
      BY <2>2, <3>2, AppliedRated DEF RangeInv
    <3> QED
      BY <2>1, <3>1, <3>2
  <2>4. calm' \in 0 .. SettleRounds
    <3>1. calm' = 0
      BY <1>4 DEF Missed
    <3> QED
      BY <1>2, <3>1
  <2> QED
    BY <2>1, <2>3, <2>4 DEF RangeInv, Railed
<1>5. CASE Shift
  <2>1. calm' = 0 /\ pack' = pack /\ report' = report
    BY <1>5 DEF Shift
  <2>2. calm' \in 0 .. SettleRounds
    BY <1>2, <2>1
  <2> QED
    BY <2>1, <2>2 DEF RangeInv, Railed
<1>6. CASE UNCHANGED <<vars, plant>>
  BY <1>6 DEF plant, RangeInv, Railed
<1> QED
  BY <1>3, <1>4, <1>5, <1>6 DEF LoopNext

\* The loop's variables keep their types: what the battery reports stays between its rated
\* powers, whichever end of the pack cuts it short.
THEOREM LoopTypeCorrect == LoopSpec => []LoopTypeOK
<1>1. LoopInv /\ RangeInv => LoopTypeOK
  <2> SUFFICES ASSUME LoopInv, RangeInv PROVE LoopTypeOK
    OBVIOUS
  <2>1. TypeOK /\ lag \in Lags /\ missed \in 0 .. MaxMissed
    BY DEF LoopInv, InductiveInv, LoopShape
  <2>2. pack \in Plant!Batteries /\ unread \in Plant!Batteries /\ pack.stored \in 0 .. Capacity
    BY PackedInt DEF LoopInv, LoopShape
  <2> QED
    BY <2>1, <2>2 DEF LoopTypeOK, RangeInv, Rated
<1> QED
  BY <1>1, RangeStarts, RangeStep, LoopIsInductive, PTL DEF LoopSpec
=============================================================================
