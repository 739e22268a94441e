----------------------------- MODULE MCCoordinator -----------------------------
(* Instances of Coordinator for TLC.                                          *)
EXTENDS Coordinator

CONSTANTS b1, b2, meter

OneBattery == <<b1>>
TwoBatteries == <<b1, b2>>
=============================================================================
