------------------------------- MODULE MCRetries -------------------------------
(***************************************************************************)
(* What is tried again by the wall clock, which steps: a fetch at its local    *)
(* time of day, and the charge ceiling of a device.  The two share nothing, so  *)
(* a behaviour runs one of them, `which`, and leaves the other at its start.   *)
(***************************************************************************)
EXTENDS AnchorPoller

CONSTANTS Socs, RetryAfter, CeilingUpsets, MaxDays

Forecasts == [sites |-> {"east", "west"}, attempts |-> 2, keeps |-> TRUE, persists |-> TRUE]
Prices    == [sites |-> {"feed"}, attempts |-> 3, keeps |-> FALSE, persists |-> FALSE]
BothPollers == {Forecasts, Prices}

\* A check in time, a host suspended past an anchor, DST or NTP taking it back.
Clockwork == {-3, 1, 4}

\* A device that never goes above 90 %.
Clamped == [value \in Socs |-> IF value > 90 THEN 90 ELSE value]

\* A tick is one unit; NTP takes the clock back or ahead.
Stepped == {-2, 1, 4}

ASSUME CeilingAssumption ==
  /\ 90 \in Socs /\ 100 \in Socs /\ None \notin Socs
  /\ RetryAfter \in Nat /\ CeilingUpsets \in Nat /\ MaxDays \in Nat

VARIABLES
  which,
  soc, sampled, held, reported, max, phase, quiet, last, jumped, ceilingUpsets, days

Ceiling ==
  INSTANCE Ceiling WITH
    ClockSteps <- Stepped, MaxUpsets <- CeilingUpsets, Clamps <- Clamped,
    pc <- phase, upsets <- ceilingUpsets

ceilingVars == <<soc, sampled, held, reported, max, phase, quiet, last, jumped, ceilingUpsets, days>>
bothVars    == <<which, vars, ceilingVars>>

BothInit ==
  /\ which \in {"poller", "ceiling"}
  /\ Init /\ Ceiling!Init
  /\ which = "poller"  => soc = 100 /\ max = 100
  /\ which = "ceiling" => poller = Prices /\ date = 0 /\ time = 0

BothNext ==
  \/ which = "poller"  /\ Next         /\ UNCHANGED <<which, ceilingVars>>
  \/ which = "ceiling" /\ Ceiling!Next /\ UNCHANGED <<which, vars>>

BothSafeSpec == BothInit /\ [][BothNext]_bothVars

\* The fairness of each module's LiveSpec, owed by the one that runs.
BothSpec ==
  /\ BothSafeSpec
  /\ WF_vars(which = "poller" /\ Check) /\ WF_vars(which = "poller" /\ Fetched)
  /\ WF_vars(which = "poller" /\ Settles) /\ WF_vars(which = "poller" /\ ClockMoves(1))
  /\ WF_ceilingVars(which = "ceiling" /\ Ceiling!Sync)
  /\ SF_ceilingVars(which = "ceiling" /\ Ceiling!WriteLands)
  /\ SF_ceilingVars(which = "ceiling" /\ Ceiling!Observe(1, soc))

-----------------------------------------------------------------------------
(* Properties: stated and explained in the modules.                           *)

\* schedule.rs, ceiling.rs: every anchor is settled within its day and stays so, and a
\* device is written to once a pause and never once a tick.
AttemptsKept == AnchorsSettled /\ [](Ceiling!TypeOK) /\ Ceiling!WritesSpaced

\* The last anchor is answered, day after day, and the device ends up holding the day's
\* ceiling.
AttemptsSucceed ==
  /\ which = "poller"  => ForecastArrives
  /\ which = "ceiling" => Ceiling!CeilingConverges
===============================================================================
