------------------------------ MODULE MCClosedLoop ------------------------------
(* A small instance of ClosedLoop, bounded in wall-clock time.  The unit of      *)
(* power is 100 W, so the caps and the slew rate are the ones the code ships.    *)
EXTENDS ClosedLoop

CONSTANT Horizon

MCNone_     == {}
MCChargeStart == -2
MCTick      == {3}
\* Both sources read at once, or either of them late.
MCLags      == [device : {0}, meter : {0, 2}, rounds : {0, 1}]
                 \cup [device : {2}, meter : {0}, rounds : {0, 1}]
MCDemands   == {-30, -10, -3, 0, 4, 12}

WithinHorizon == now <= Horizon
=============================================================================
