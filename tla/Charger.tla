------------------------------- MODULE Charger --------------------------------
(***************************************************************************)
(* The EV charger: a Vestel read over one Modbus connection that the charger  *)
(* closes as it likes, the sampler's slot, the fold that hands a reading to    *)
(* the engine, and what Home Assistant and the dashboard show of the hold.     *)
(*                                                                          *)
(* Time is counted in rounds.  A block of registers is its first register;    *)
(* of a reading only the draw is kept.                                       *)
(***************************************************************************)
EXTENDS Integers, Sequences, FiniteSets, SequencesExt

CONSTANTS
  None,
  IdentitySpans, RequiredSpans, BestEffortSpans,   \* in the order they are read
  Power,                     \* the required block a decision reads
  Draws, Threshold,
  BlindWindow,
  MaxClockSteps              \* what is explored

Script == IdentitySpans \o RequiredSpans \o BestEffortSpans
Spans  == ToSet(Script)

VARIABLES
  connection,      \* None, "open", or "closed" by the charger
  stream,          \* replies on it that nobody waited for
  doing, span,     \* the poll: "idle", "connecting", or "reading" the span-th block
  reused,          \* the connection was open before the poll
  blocks, power,
  current,         \* the poll answers the round that is out
  requested,       \* a round was asked for that no poll has begun
  timeouts, excuses, result,     \* of the last poll, for the properties
  pending, age,    \* the slot: a sample, and the rounds since the last good one
  world,           \* the engine's last reading, and its age by the wall clock
  silent, sensor, shown,
  draw, ended, clockSteps

poll  == <<connection, stream, doing, span, reused, blocks, power, current, requested,
           timeouts, excuses, result>>
loop  == <<world, silent, sensor, shown>>
vars  == <<poll, pending, age, loop, draw, ended, clockSteps>>

\* Mutant: a reading once taken stays fresh.
FreshOnce(w) == TRUE
\* ChargerGuard::fresh, car_charging: a reading that is too old holds nothing.
Fresh(w) == w.age <= BlindWindow
Holds(w) == Threshold # 0 /\ w # None /\ Fresh(w) /\ w.draw >= Threshold
Standing(w) == IF w = None THEN None ELSE [fresh |-> Fresh(w), hold |-> Holds(w)]

PollType ==
  /\ connection \in {None, "open", "closed"}
  /\ doing \in {"idle", "connecting", "reading"} /\ span \in 0 .. Len(Script)
  /\ (doing = "reading") <=> (span # 0)
  /\ doing = "reading" => connection # None
  /\ reused \in BOOLEAN /\ current \in BOOLEAN /\ requested \in BOOLEAN /\ ended \in BOOLEAN

ReadingType ==
  /\ stream \in Seq(Spans)
  /\ blocks \subseteq [asked : Spans, answered : Spans] /\ power \in Draws /\ draw \in Draws
  /\ timeouts \in Nat /\ result \in {"none", "reading", "failed"}
  /\ excuses \subseteq {"timeout", "refused", "unreachable", "closed"}
  /\ pending \in {None} \cup [draw : Draws, current : BOOLEAN] /\ age \in 0 .. BlindWindow + 2

LoopType ==
  /\ world \in {None} \cup [draw : Draws, age : -MaxClockSteps .. BlindWindow + 1]
  /\ silent \in BOOLEAN /\ sensor \in {None, "on", "off"}
  /\ shown \in {None} \cup [fresh : BOOLEAN, hold : BOOLEAN]
  /\ clockSteps \in 0 .. MaxClockSteps

TypeOK == PollType /\ ReadingType /\ LoopType

Init ==
  /\ connection = None /\ stream = <<>> /\ doing = "idle" /\ span = 0
  /\ reused = FALSE /\ blocks = {} /\ power = 0 /\ current = FALSE /\ requested = TRUE
  /\ timeouts = 0 /\ excuses = {} /\ result = "none"
  /\ pending = None /\ age = 0
  /\ world = None /\ silent = FALSE /\ sensor = None /\ shown = None
  /\ draw \in Draws /\ ended = FALSE /\ clockSteps = 0

-----------------------------------------------------------------------------
(* vestel.rs                                                                 *)

FirstRequired == Len(IdentitySpans) + 1
Required(i)   == i \in FirstRequired .. Len(IdentitySpans) + Len(RequiredSpans)
BestEffort(i) == i > Len(IdentitySpans) + Len(RequiredSpans)

\* `sample_loop` takes up the newest round; `read_poll_spans` takes the connection.
Begins ==
  /\ doing = "idle" /\ requested /\ ~ended
  /\ requested' = FALSE /\ current' = TRUE
  /\ reused' = (connection # None)
  /\ IF reused' THEN doing' = "reading" /\ span' = FirstRequired
               ELSE doing' = "connecting" /\ span' = 0
  /\ blocks' = {} /\ timeouts' = 0 /\ excuses' = {} /\ result' = "none"
  /\ UNCHANGED <<connection, stream, power, pending, age, loop, draw, ended, clockSteps>>

Failed ==
  /\ doing' = "idle" /\ span' = 0
  /\ result' = "failed"
  /\ UNCHANGED <<pending, age>>

\* The reading reaches the slot, stamped with the round it was asked for.
Delivered(words) ==
  /\ doing' = "idle" /\ span' = 0
  /\ result' = "reading"
  /\ pending' = [draw |-> words, current |-> current] /\ age' = 0

NextBlock(words) ==
  IF span = Len(Script)
  THEN Delivered(words)
  ELSE span' = span + 1 /\ UNCHANGED <<doing, result, pending, age>>

Excused(why) == excuses' = excuses \cup {why}

Connects ==
  /\ doing = "connecting"
  /\ \/ /\ connection' = "open" /\ stream' = <<>>
        /\ doing' = "reading" /\ span' = 1
        /\ UNCHANGED <<timeouts, excuses, result, pending, age>>
     \/ \E late \in BOOLEAN :
          /\ timeouts' = timeouts + IF late THEN 1 ELSE 0
          /\ Excused("unreachable") /\ Failed
          /\ UNCHANGED <<connection, stream>>
  /\ UNCHANGED <<reused, blocks, power, current, requested, loop, draw, ended, clockSteps>>

\* The reply at the head of the stream is taken for the answer.
Answers ==
  /\ doing = "reading" /\ connection = "open"
  /\ LET replies == Append(stream, Script[span])
         asked == Script[span]
     IN /\ stream' = Tail(replies)
        /\ blocks' = blocks \cup {[asked |-> asked, answered |-> Head(replies)]}
        /\ power' = IF asked = Power THEN draw ELSE power
  /\ NextBlock(power')
  /\ UNCHANGED <<connection, reused, current, requested, timeouts, excuses, loop, draw, ended,
                 clockSteps>>

\* Mutant: any refusal costs the reading.
AnyDecisive(i) == i >= FirstRequired
Decisive(i) == Required(i)

\* A Modbus exception costs the reading only where a decision reads the block.
Refuses ==
  /\ doing = "reading" /\ connection = "open"
  /\ IF Required(span) THEN Excused("refused") ELSE UNCHANGED excuses
  /\ IF Decisive(span) THEN Failed ELSE NextBlock(power)
  /\ UNCHANGED <<connection, stream, reused, blocks, power, current, requested, timeouts, loop, draw,
                 ended, clockSteps>>

\* Mutants: a timeout leaves the connection; any break is tried again.
KeepsConnection(fault) == fault = "reset"
Broken(fault) == fault \in {"reset", "timeout"}
AnyAgain(fault) == reused
Again(fault) == reused /\ fault = "reset"

\* A read that broke off: the connection goes; a socket error on one that was
\* open before the poll is answered by a new one, once.
BreaksOff(fault) ==
  /\ IF Broken(fault)
     THEN connection' = None /\ stream' = <<>>
     ELSE stream' = Append(stream, Script[span]) /\ UNCHANGED connection
  /\ IF BestEffort(span)
     THEN Delivered(power) /\ UNCHANGED reused
     ELSE IF Again(fault)
     THEN /\ doing' = "connecting" /\ span' = 0 /\ reused' = FALSE
          /\ UNCHANGED <<result, pending, age>>
     ELSE Failed /\ UNCHANGED reused

\* The reply comes later, if ever.
TimesOut ==
  /\ doing = "reading"
  /\ timeouts' = timeouts + 1
  /\ IF BestEffort(span) THEN UNCHANGED excuses ELSE Excused("timeout")
  /\ BreaksOff("timeout")
  /\ UNCHANGED <<blocks, power, current, requested, loop, draw, ended, clockSteps>>

Resets ==
  /\ doing = "reading" /\ connection = "closed"
  /\ BreaksOff("reset")
  /\ UNCHANGED <<blocks, power, current, requested, timeouts, excuses, loop, draw, ended,
                 clockSteps>>

\* External: an EVC04 closes every connection after some twenty seconds.
Closes ==
  /\ connection = "open"
  /\ connection' = "closed"
  /\ IF doing = "reading" /\ ~reused /\ ~BestEffort(span) THEN Excused("closed") ELSE UNCHANGED excuses
  /\ UNCHANGED <<stream, doing, span, reused, blocks, power, current, requested, timeouts, result,
                 pending, age, loop, draw, ended, clockSteps>>

\* External: the car.
CarDraws ==
  /\ \E d \in Draws \ {draw} : draw' = d
  /\ UNCHANGED <<poll, pending, age, loop, ended, clockSteps>>

\* The adapter panics in a poll: the sampler's task is gone, the loop goes on.
Panics ==
  /\ ~ended /\ doing # "idle"
  /\ ended' = TRUE
  /\ connection' = None /\ stream' = <<>> /\ doing' = "idle" /\ span' = 0
  /\ UNCHANGED <<reused, blocks, power, current, requested, timeouts, excuses, result, pending, age,
                 loop, draw, clockSteps>>

-----------------------------------------------------------------------------
(* run.rs                                                                    *)

\* Mutant: an outage is reported once.
StaysSilent == silent
\* A reading ends the outage that was reported.
Answering == FALSE

Older(w) == IF w = None THEN None ELSE [w EXCEPT !.age = IF @ > BlindWindow THEN @ ELSE @ + 1]

\* `ChargerTick::fold`, and the next round is asked for.
Tick ==
  /\ LET down == age > BlindWindow
         read == ~down /\ pending # None /\ pending.current
         seen == IF read THEN [draw |-> pending.draw, age |-> 0] ELSE world
     IN /\ pending' = IF down THEN pending ELSE None
        /\ world' = Older(seen)
        /\ silent' = IF read THEN Answering ELSE silent \/ down
        /\ sensor' = IF read THEN IF Holds(seen) THEN "on" ELSE "off"
                     ELSE IF down /\ ~silent THEN "off"
                     ELSE sensor
        /\ shown' = IF read \/ Standing(seen) # shown THEN Standing(seen) ELSE shown
  /\ age' = IF age > BlindWindow + 1 THEN age ELSE age + 1
  /\ requested' = TRUE /\ current' = FALSE
  /\ UNCHANGED <<connection, stream, doing, span, reused, blocks, power, timeouts, excuses, result,
                 draw, ended, clockSteps>>

\* The wall clock is set back: the engine's reading is younger, the slot's is not.
ClockSteps ==
  /\ clockSteps < MaxClockSteps /\ world # None
  /\ clockSteps' = clockSteps + 1
  /\ world' = [world EXCEPT !.age = @ - 1]
  /\ UNCHANGED <<poll, pending, age, silent, sensor, shown, draw, ended>>

-----------------------------------------------------------------------------

Next ==
  \/ Begins \/ Connects \/ Answers \/ Refuses \/ TimesOut \/ Resets
  \/ Closes \/ CarDraws \/ Panics \/ Tick \/ ClockSteps

Spec == Init /\ [][Next]_vars

\* The loop's timer keeps ticking; of the charger nothing is assumed.
LiveSpec == Spec /\ WF_vars(Tick)

-----------------------------------------------------------------------------
(* Properties.                                                               *)

\* vestel.rs: no reply is taken for the answer to another request, however late
\* the ones before it were.
AnswersTheirOwn == \A b \in blocks : b.asked = b.answered

\* A poll waits out one timeout at most: a timeout is never tried again, and
\* what is tried again cost no wait.
OneTimeout == timeouts <= 1

\* The blocks a decision reads are lost only to a timeout, a refusal, a charger
\* that cannot be reached or one that closes the connection this poll opened: never
\* to one closed that was open before, nor to a block only the dashboard shows.
LossExcused == result = "failed" => excuses # {}

\* Once a tick has found the charger down, Home Assistant does not show a hold,
\* in a second outage as in the first.
NotOnUnseen == age > BlindWindow + 1 => sensor # "on"

\* When the charger's sampler is gone the guard opens and the sensor with it.
EndedOpens == ended ~> [](sensor # "on" /\ ~Holds(world))

\* What a poll reads: its own answers, in one timeout, and not lost for nothing.
PollSound == TypeOK /\ AnswersTheirOwn /\ OneTimeout /\ LossExcused
=============================================================================
