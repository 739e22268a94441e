----------------------------- MODULE ChargeProfile -----------------------------
(***************************************************************************)
(* The simulated charger: a car's daily routine as a function of the clock     *)
(* alone.  What it answers is set beside the routine itself, a car plugged in   *)
(* and out as the local clock passes the two times, and beside what was drawn.  *)
(*                                                                            *)
(* The local clock is the instant plus the zone's offset, which steps once:     *)
(* forward, and some local times never show, or back, and some show twice.     *)
(***************************************************************************)
EXTENDS Integers, FiniteSetsExt

CONSTANTS
  None,
  DayLength, MaxInstant,
  Changes,           \* instants at which an offset may change
  Shifts,            \* what it changes by
  LongestGap,
  PlugIns, Unplugs,  \* local times
  Draw,              \* in a unit of time
  Targets            \* what a session may take in all

VARIABLES
  plug_in, unplug, target, change, shift,   \* the profile and its time zone
  instant,
  routine,           \* when the car was plugged in, None while it is not
  drawn              \* since then, by adding up what was reported

profile == <<plug_in, unplug, target, change, shift>>
vars == <<profile, instant, routine, drawn>>

Instants == 0 .. MaxInstant

Local(i) == i + IF i >= change THEN shift ELSE 0
Time(i)  == Local(i) % DayLength
Date(i)  == Local(i) \div DayLength

\* The instants at which the clock shows a local time, over a wider range than is explored.
Shown(local) == {i \in -DayLength .. MaxInstant + DayLength : Local(i) = local}

\* Mutant: a local time that never shows is no instant.
InstantNamed(local) == IF Shown(local) = {} THEN None ELSE Min(Shown(local))

\* The earlier of two instants; for a local time in a gap, that of the first after it.
InstantOf(local) ==
  Min(Shown(Min({l \in local .. local + LongestGap : Shown(l) # {}})))

InWindow(time) ==
  IF plug_in <= unplug THEN plug_in <= time /\ time < unplug
                       ELSE plug_in <= time \/ time < unplug

\* Mutant: a session seen after midnight began today.
BeganToday(i) == Date(i)

\* The day it began: in a window over midnight, the day before.
Began(i) == IF Time(i) >= plug_in THEN Date(i) ELSE Date(i) - 1

Since(i) == IF InWindow(Time(i)) THEN InstantOf(Began(i) * DayLength + plug_in) ELSE None

Elapsed(i) == LET e == i - Since(i) IN IF e < 0 THEN 0 ELSE e

\* Mutant: the session reports more than the car took.
SessionUncapped(i) ==
  LET energy == Draw * Elapsed(i)
  IN [plugged |-> TRUE, power |-> IF energy >= target THEN 0 ELSE Draw, energy |-> energy]

Session(i) ==
  LET energy == Draw * Elapsed(i)
  IN IF energy >= target THEN [plugged |-> TRUE, power |-> 0, energy |-> target]
                         ELSE [plugged |-> TRUE, power |-> Draw, energy |-> energy]

Unplugged == [plugged |-> FALSE, power |-> 0, energy |-> 0]

At(i) == IF Since(i) = None THEN Unplugged ELSE Session(i)

TypeOK ==
  /\ instant \in Instants
  /\ At(instant) \in [plugged : BOOLEAN, power : {0, Draw}, energy : 0 .. target]
  /\ routine \in {None} \cup (-DayLength .. MaxInstant) /\ drawn \in Nat

\* Not before a first plug-in time is the routine known.
Init ==
  /\ plug_in \in PlugIns /\ unplug \in Unplugs \ {plug_in} /\ target \in Targets
  /\ change \in Changes /\ shift \in Shifts
  /\ instant = 0
  /\ routine = Since(0)
  /\ drawn = At(0).energy

\* The local clock shows `local` or jumps over it.
Reached(local, i) == Local(i - 1) < local /\ local <= Local(i)
ReachedTime(time, i) == \E date \in -1 .. MaxInstant \div DayLength + 1 : Reached(date * DayLength + time, i)

\* A car already there is not plugged in again; one taken out on the way is.
Passes ==
  /\ instant < MaxInstant
  /\ instant' = instant + 1
  /\ LET left == IF ReachedTime(unplug, instant') THEN None ELSE routine
     IN routine' = IF left = None /\ ReachedTime(plug_in, instant') /\ InWindow(Time(instant'))
                   THEN instant' ELSE left
  /\ drawn' = IF routine' = None \/ routine' # routine THEN 0 ELSE drawn + At(instant).power
  /\ UNCHANGED profile

Next == Passes
Spec == Init /\ [][Next]_vars

-----------------------------------------------------------------------------
(* Properties.                                                                *)

\* The local times the clock showed before it went back and shows again.
Repeating == shift < 0 /\ instant >= change /\ Local(instant) < Local(change - 1) + 1

\* charger/simulated.rs: over midnight and over a clock going forward, the session
\* is the one that began when the clock passed the plug-in time; the same car is
\* not plugged in anew.  Only while a clock gone back repeats itself may it differ.
SessionIsRoutine == ~Repeating => Since(instant) = routine

\* charger/simulated.rs: a session's energy is what its power adds up to, short of
\* the last unit of time, and never more than the car wanted.  A session that a
\* clock gone back shows as ended in its middle goes on with the time between
\* counted in.
EnergyIsDrawn ==
  (routine # None /\ ~(shift < 0 /\ routine < change /\ change <= instant)) =>
    LET energy == At(instant).energy IN energy <= drawn /\ drawn < energy + Draw

\* The simulated charger answers what a car on that routine would.
SessionKept == TypeOK /\ SessionIsRoutine /\ EnergyIsDrawn
=============================================================================
