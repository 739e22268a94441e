------------------------------- MODULE ClosedLoop -------------------------------
(***************************************************************************)
(* The controller against the simulated battery and the synthetic house: what  *)
(* each round samples, what the decision makes of it and what the battery does  *)
(* with the command, over the scan cycle's tick.  scenario_tests.rs drives the  *)
(* same loop by hand for one sunny noon and one quiet night.                    *)
(*                                                                          *)
(* The samples of a round are taken after the command of the tick before it,    *)
(* each source as late in the round as its own latency puts it, so they see the *)
(* battery mid-ramp and not at one instant.                                     *)
(***************************************************************************)
EXTENDS Controller

CONSTANTS
  Rate, MaxCharge, MaxDischarge, Capacity, ChargeGain, DischargeCost,
  TickLength,         \* the scan period, in clock units
  Lags,               \* when in a round each source is read, and how stale the device's is
  Demands,            \* the house's load less its solar, the battery apart
  Stores,             \* what the battery may hold at the start
  MinSoc, MaxSoc,     \* percent
  BlindRounds,        \* rounds without a decision before the failsafe idles
  SettleRounds,       \* rounds the loop is given to answer a steady demand
  MaxDisturbed,       \* shifts of the demand and outages
  MaxMissed           \* rounds an outage may last

ASSUME LoopAssumption ==
  /\ TickLength \in Nat \ {0}
  /\ Lags \subseteq [device : 0 .. TickLength - 1, meter : 0 .. TickLength - 1, rounds : 0 .. 1]
  /\ BlindRounds \in Nat \ {0} /\ SettleRounds \in Nat
  /\ MaxMissed \in Nat /\ MaxDisturbed \in Nat
  /\ Demands \subseteq Int

ASSUME PlantAssumption ==
  /\ Rate \in Nat \ {0} /\ Capacity \in Nat
  /\ MaxCharge \in Nat /\ MaxDischarge \in Nat
  /\ ChargeGain \in Nat \ {0} /\ DischargeCost \in Nat \ {0}
  /\ MinSoc \in 0 .. 100 /\ MaxSoc \in 0 .. 100

\* A pack starts above its floor, and every round may decide: the interval between
\* two decisions, none as shipped, is no longer than a round.
ASSUME FloorAssumption ==
  /\ Stores \subseteq 0 .. Capacity
  /\ \A stored \in Stores : 200 * stored >= (2 * MinSoc + 1) * Capacity
  /\ MinDecisionInterval <= TickLength

Plant == INSTANCE VirtualBattery

VARIABLES
  pack,               \* the battery, read by every round
  demand,
  lag,
  report,             \* the device's reading of the round before
  \* history, read by the properties only
  unread,             \* the same battery under the same commands, never read
  bitten,             \* a clamp has bitten in either
  calm,               \* rounds since the demand moved or a round was missed
  missed,             \* rounds the outage that is on has lasted
  disturbed

plant == <<pack, demand, lag, report, unread, bitten, calm, missed, disturbed>>

LoopTypeOK ==
  /\ TypeOK
  /\ pack \in Plant!Batteries /\ unread \in Plant!Batteries
  /\ pack.stored \in 0 .. Capacity
  /\ pack.power \in -MaxCharge .. MaxDischarge
  /\ lag \in Lags
  /\ report.soc \in 0 .. 100
  /\ calm \in 0 .. SettleRounds
  /\ missed \in 0 .. MaxMissed

LoopInit ==
  /\ Init
  /\ \E stored \in Stores : pack = Plant!New(stored, now)
  /\ demand \in Demands
  /\ lag \in Lags
  /\ report = Plant!ReadingOf(pack)
  /\ unread = pack
  /\ bitten = FALSE
  /\ calm = 0
  /\ missed = 0
  /\ disturbed = 0

-----------------------------------------------------------------------------
(* What a round samples.                                                      *)

FirstRead == Plant!Advanced(pack, now + Plant!Least(lag.device, lag.meter))
BothRead  == Plant!Advanced(FirstRead, now + Plant!Most(lag.device, lag.meter))
DeviceRead == IF lag.device <= lag.meter THEN FirstRead ELSE BothRead
MeterRead  == IF lag.meter <= lag.device THEN FirstRead ELSE BothRead

\* Mutant: a meter that does not see the battery.
BlindMeter(flow) == demand

\* `observation`: the house's demand less what the battery gives.
Observation(flow) == demand - flow

\* What the world holds when the round's meter event is decided on.
World(reading) ==
  [grid |-> Observation(MeterRead.power), flow |-> reading.current_power,
   max_charge_power |-> MaxCharge, max_discharge_power |-> MaxDischarge,
   accepts_charge |-> reading.soc < MaxSoc /\ ~reading.soc_limit_reached,
   above_floor |-> reading.soc > MinSoc,
   solar_blocks |-> FALSE, overridden |-> FALSE]

\* Mutant: the tick decides before the round's own reading is folded.
FoldedBefore(fresh) == report

\* The device's reading a tick decides on: this round's, or the one before it.
Folded(fresh) == IF lag.rounds = 0 THEN fresh ELSE report

-----------------------------------------------------------------------------
(* The rounds.                                                                *)

\* The command lands on the battery that was read and on the one that was not.
Commanded(read, at, mode, power) ==
  /\ pack' = Plant!Applied(read, at, mode, power)
  /\ unread' = Plant!Applied(unread, at, mode, power)

Bites(read, at) ==
  \/ bitten
  \/ Plant!Bitten(pack, FirstRead.last) \/ Plant!Bitten(FirstRead, BothRead.last)
  \/ Plant!Bitten(read, at) \/ Plant!Bitten(unread, at)

\* A round: both sources answer, the tick decides and the command is applied.
Round ==
  LET at == now + TickLength
      fresh == Plant!ReadingOf(DeviceRead)
  IN /\ Meter(World(Folded(fresh)), TickLength)
     /\ IF last_decision' = at
        THEN Commanded(BothRead, at, decision'.mode, decision'.power)
        ELSE pack' = BothRead /\ UNCHANGED unread
     /\ report' = fresh
     /\ bitten' = Bites(BothRead, at)
     /\ calm' = Plant!Least(calm + 1, SettleRounds)
     /\ missed' = 0
     /\ UNCHANGED <<demand, lag, disturbed>>

\* Mutant: the failsafe never comes.
NoFailsafe(at) == pack' = pack /\ UNCHANGED unread

\* The failsafe stands the device down once the blind window has passed.
Failsafe(at) ==
  IF missed' >= BlindRounds THEN Commanded(pack, at, "Idle", 0)
  ELSE pack' = pack /\ UNCHANGED unread

\* No source answers: no decision, and the last command stays until the failsafe.
Missed ==
  /\ missed < MaxMissed
  /\ missed = 0 => disturbed < MaxDisturbed
  /\ now' = now + TickLength
  /\ missed' = missed + 1
  /\ disturbed' = IF missed = 0 THEN disturbed + 1 ELSE disturbed
  /\ Failsafe(now')
  /\ bitten' = (bitten \/ Plant!Bitten(pack, now') \/ Plant!Bitten(unread, now'))
  /\ calm' = 0
  /\ UNCHANGED <<charger, control, last_decision, decision, history, demand, lag, report>>

Shift ==
  /\ disturbed < MaxDisturbed
  /\ \E d \in Demands \ {demand} : demand' = d
  /\ disturbed' = disturbed + 1
  /\ calm' = 0
  /\ UNCHANGED <<now, charger, control, last_decision, decision, history,
                 pack, lag, report, unread, bitten, missed>>

LoopNext == Round \/ Missed \/ Shift

LoopSpec == LoopInit /\ [][LoopNext]_<<vars, plant>>

-----------------------------------------------------------------------------
(* Properties.                                                                *)

Flow == Plant!FlowAt(pack, now)

\* The power in force is the one its meter error asks for: within the deadband,
\* or against the end of its range the error pushes it to.
Balanced ==
  LET w == [World(report) EXCEPT !.grid = demand - Flow]
      error == Error(decision.mode, w)
  IN \/ error = 0
     \/ error > 0 /\ decision.power = Cap(decision.mode, w)
     \/ error < 0 /\ decision.power = 0

\* A steady demand is answered: given SettleRounds, the loop discharges into a
\* demand, charges from a surplus, and its power has settled where the meter's
\* error is inside the deadband, whatever ramps, ages and latencies the samples
\* on the way were read at.
Settles ==
  calm = SettleRounds =>
    /\ demand > DischargeStart /\ report.soc > MinSoc => decision.mode = "Discharge"
    /\ demand < ChargeStart /\ report.soc < MaxSoc => decision.mode = "Charge"
    /\ decision.mode \in Active => Balanced

\* How far apart the meter and the device's report a round decides on were read.
Skew == IF lag.rounds = 0 THEN Abs(lag.device - lag.meter)
                          ELSE (missed + 1) * TickLength - lag.device + lag.meter

\* A tenure opens where the demand asks for one, but for what the battery ramps
\* between the two readings the demand is worked out from: with none between, a load
\* is never charged from nor a surplus discharged into.
TenuresFollowDemand ==
  [][last_mode' # last_mode /\ (Skew = 0 \/ ~bitten') =>
       /\ last_mode' = "Charge" => demand < ChargeStart + Rate * Skew
       /\ last_mode' = "Discharge" => demand > DischargeStart - Rate * Skew]_<<vars, plant>>

\* What a discharge takes in a time, and what it takes ramping down; and both over a
\* blind window, by the end of which the failsafe idles.
DrainedIn(time) == DischargeCost * 2 * Rate * MaxDischarge * time
BlindDrain == DrainedIn(BlindRounds * TickLength) + DischargeCost * MaxDischarge * MaxDischarge

\* The pack is drained below its floor by no more than the rest of the round it was
\* read in and a blind window take; where the report is one round old, a decision on
\* it opens another window.
FloorHeld ==
  200 * (Plant!Advanced(pack, now).stored + DrainedIn(TickLength) + (1 + lag.rounds) * BlindDrain)
    >= (2 * MinSoc + 1) * Capacity

\* What the battery holds and reports does not depend on how often it was read,
\* as long as neither end of the pack was run into.
ReadCadence == ~bitten => Plant!Advanced(pack, now) = Plant!Advanced(unread, now)

\* A full pack that is not drawn from meanwhile reports no charge, and an empty one
\* that nothing goes into no discharge, whatever it was commanded.
Drawn(b, until) == {Plant!FlowAt(b, b.last), Plant!FlowAt(b, until)}

RailsReportRest ==
  [][pack'.last > pack.last =>
       /\ pack.stored = Capacity /\ (\A f \in Drawn(pack, pack'.last) : f <= 0) => pack'.power >= 0
       /\ pack.stored = 0 /\ (\A f \in Drawn(pack, pack'.last) : f >= 0) => pack'.power <= 0]_<<vars, plant>>

\* The loop on its simulated plant settles.
LoopSettles == LoopTypeOK /\ Settles

\* The plant keeps its floor, and its arithmetic: the same for every reader, and at
\* rest at its ends.
PlantSound == [](FloorHeld /\ ReadCadence) /\ RailsReportRest
=============================================================================
