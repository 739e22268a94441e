-------------------------------- MODULE MCTasks --------------------------------
(***************************************************************************)
(* The tasks beside the control loop, checked in one run: each of them shares  *)
(* nothing with the others but the publisher's queue, so a behaviour runs one   *)
(* of them, `which`, and leaves the variables of the others at their start.    *)
(***************************************************************************)
EXTENDS Integers, Sequences

CONSTANTS
  None,
  IdentitySpans, RequiredSpans, BestEffortSpans, Power, Draws, Threshold, BlindWindow, MaxClockSteps,
  Identifiers, MaxSnapshots, MaxReassigned, MaxExpired, MaxFailed,
  Static, Polled, QueueDepth, RequestDepth, MaxValues, MaxBreaks,
  DayLength, MaxInstant, Changes, LongestGap, PlugIns, Unplugs, Draw, Targets

MCIdentity == <<"serial">>
MCRequired == <<"state", "power">>
MCBestEffort == <<"phases", "total">>

\* The clock goes back in the night, forward, or neither.
MCShifts == {-2, 0, 2}

VARIABLES
  which,
  connection, stream, doing, span, reused, blocks, power, current, requested, timeouts, excuses, result,
  pending, age, world, silent, sensor, shown, draw, ended, clockSteps,
  call, leg, terms, loggedIn, identifier, latest, socShown, socResult, gets, logins, newestAtStart,
  session, assigned, delivered, snapshots, reassigned, expired, failed,
  queue, holding, requests, unacked, replay, link, retained, valueShown, announced, todo, accepted,
  value, phase, aborted, deliveryFailed, breaks,
  plug_in, unplug, target, change, shift, instant, routine, drawn

Charger    == INSTANCE Charger
CarBattery == INSTANCE CarBattery WITH shown <- socShown, result <- socResult
Mqtt       == INSTANCE Mqtt WITH shown <- valueShown, failed <- deliveryFailed
Profile    == INSTANCE ChargeProfile WITH Shifts <- MCShifts

\* What is read of a charger is a list of blocks, one at least for a decision; a car
\* may draw nothing; no connection is told from those there are.
ASSUME SpansAssumption ==
  /\ {IdentitySpans, RequiredSpans, BestEffortSpans} \subseteq Seq(Charger!Spans)
  /\ RequiredSpans # <<>>
ASSUME ChargerAssumption ==
  /\ 0 \in Draws /\ BlindWindow \in Nat /\ MaxClockSteps \in Nat
  /\ None \notin {"open", "closed"}
ASSUME CarBatteryAssumption ==
  /\ None \notin Identifiers
  /\ {MaxSnapshots, MaxReassigned, MaxExpired, MaxFailed} \subseteq Nat

\* The queues and what is explored have bounds; no message is told from those there are.
ASSUME MqttAssumption ==
  /\ {QueueDepth, RequestDepth, MaxValues, MaxBreaks} \subseteq Nat
  /\ None \notin Mqtt!Messages

chargerVars ==
  <<connection, stream, doing, span, reused, blocks, power, current, requested, timeouts, excuses, result,
    pending, age, world, silent, sensor, shown, draw, ended, clockSteps>>
carBatteryVars ==
  <<call, leg, terms, loggedIn, identifier, latest, socShown, socResult, gets, logins, newestAtStart,
    session, assigned, delivered, snapshots, reassigned, expired, failed>>
mqttVars ==
  <<queue, holding, requests, unacked, replay, link, retained, valueShown, announced, todo, accepted,
    value, phase, aborted, deliveryFailed, breaks>>
profileVars == <<plug_in, unplug, target, change, shift, instant, routine, drawn>>
vars == <<which, chargerVars, carBatteryVars, mqttVars, profileVars>>

Init ==
  /\ which \in {"charger", "car battery", "mqtt", "simulated charger"}
  /\ Charger!Init /\ CarBattery!Init /\ Mqtt!Init
  /\ IF which = "simulated charger"
     THEN Profile!Init
     ELSE /\ plug_in = 0 /\ unplug = 0 /\ target = 0 /\ change = 0 /\ shift = 0
          /\ instant = 0 /\ routine = None /\ drawn = 0
  /\ which # "charger" => draw = 0
  /\ which # "car battery" => assigned = "first"

Next ==
  \/ /\ which = "charger" /\ Charger!Next
     /\ UNCHANGED <<which, carBatteryVars, mqttVars, profileVars>>
  \/ /\ which = "car battery" /\ CarBattery!Next
     /\ UNCHANGED <<which, chargerVars, mqttVars, profileVars>>
  \/ /\ which = "mqtt" /\ Mqtt!Next
     /\ UNCHANGED <<which, chargerVars, carBatteryVars, profileVars>>
  \/ /\ which = "simulated charger" /\ Profile!Next
     /\ UNCHANGED <<which, chargerVars, carBatteryVars, mqttVars>>

\* The fairness of each module's LiveSpec, owed by the task that runs.
Fairness ==
  /\ WF_chargerVars(which = "charger" /\ Charger!Tick)
  /\ WF_carBatteryVars(which = "car battery" /\ CarBattery!Polls)
  /\ WF_carBatteryVars(which = "car battery" /\ CarBattery!Requests)
  /\ WF_mqttVars(which = "mqtt" /\ Mqtt!Receives)
  /\ WF_mqttVars(which = "mqtt" /\ Mqtt!HandsOver)
  /\ \A c \in Mqtt!Callers : /\ WF_mqttVars(which = "mqtt" /\ Mqtt!Offers(c))
                             /\ WF_mqttVars(which = "mqtt" /\ Mqtt!Inserts(c))
  /\ WF_mqttVars(which = "mqtt" /\ Mqtt!Polls)
  /\ SF_mqttVars(which = "mqtt" /\ Mqtt!Sends)
  /\ SF_mqttVars(which = "mqtt" /\ Mqtt!Hears)
  /\ SF_mqttVars(which = "mqtt" /\ Mqtt!Fails)
  /\ WF_mqttVars(which = "mqtt" /\ Mqtt!Drained)
  /\ WF_mqttVars(which = "mqtt" /\ Mqtt!Stops)

Spec == Init /\ [][Next]_vars /\ Fairness

-----------------------------------------------------------------------------
(* Properties: stated and explained in the modules.                           *)

\* vestel.rs: no late reply is taken for the answer to another request, one timeout
\* is waited out at most, and no reading is lost to an idle connection's end. run.rs:
\* once the charger is not heard no hold is shown.
ChargerSound == Charger!PollSound /\ Charger!NotOnUnseen

\* simulated.rs: midnight and a clock going forward start no session anew, and its
\* energy is what its power adds up to.
SessionKept == which = "simulated charger" => Profile!SessionKept

\* vw_portal.rs: a poll that reads shows the newest snapshot with data, and none can
\* hammer the portal.
CarSocSound == CarBattery!SocSound

\* run.rs: a charger whose sampler is gone holds nothing in the end. vw_portal.rs: the
\* polls catch up with what the portal has to show.
PollsRecover == Charger!EndedOpens /\ CarBattery!CatchesUp

\* announce.rs, publisher.rs, run.rs: a marked document is stored or on its way, no
\* older value follows a newer one, and a drain that ran to its end has handed
\* everything to the connection.
BrokerShown == Mqtt!BrokerShown

\* announce.rs, connection.rs: every document is stored again; shutdown ends with no
\* broker there.
BrokerServed == Mqtt!BrokerServed
===============================================================================
