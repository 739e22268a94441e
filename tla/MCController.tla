----------------------------- MODULE MCController -----------------------------
(* Small instances of Controller for TLC, bounded in wall-clock time.        *)
EXTENDS Controller

CONSTANT Horizon          \* the wall clock is explored up to here, either way

MCNoCar       == {}
MCCar         == BOOLEAN
MCStepOne     == {1}
MCStepsNTP    == {-2, 1, 3}
MCChargeStart == -2

\* Every mode the objective can want and every reason it may not be had, no
\* power: the guards alone.
House(grid) ==
  [grid |-> grid, flow |-> 0, max_charge_power |-> 0, max_discharge_power |-> 0,
   accepts_charge |-> TRUE, above_floor |-> TRUE,
   solar_blocks |-> FALSE, overridden |-> FALSE]

MCWorldsModes ==
  {House(grid) : grid \in {-3, -1, 0, 1, 3}} \cup
  {[House(-3) EXCEPT !.accepts_charge = FALSE], [House(3) EXCEPT !.above_floor = FALSE],
   [House(3) EXCEPT !.solar_blocks = TRUE], [House(0) EXCEPT !.overridden = TRUE]}

\* Every flow and cap against meter errors on both sides of the deadband.
MCWorldsPower ==
  [grid : {-15, -9, -3, 0, 3, 9, 15}, flow : {-12, -4, 0, 4, 12},
   max_charge_power : {0, 9}, max_discharge_power : {0, 6},
   accepts_charge : {TRUE}, above_floor : {TRUE},
   solar_blocks : {FALSE}, overridden : BOOLEAN]

WithinHorizon == now <= Horizon /\ now >= -Horizon
=============================================================================
