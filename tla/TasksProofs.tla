----------------------------- MODULE TasksProofs ------------------------------
(***************************************************************************)
(* Proofs about the tasks beside the control loop, whichever of them runs.    *)
(***************************************************************************)
EXTENDS MCTasks, FiniteSetTheorems, SequenceTheorems, TLAPS

-----------------------------------------------------------------------------
(* The charger's blocks.                                                      *)

\* A poll reads each list in turn, one block at least that a decision reads.
LEMMA ScriptFacts ==
  /\ Charger!Script \in Seq(Charger!Spans)
  /\ Len(Charger!Script) \in Nat
  /\ Charger!FirstRequired \in 1 .. Len(Charger!Script)
  /\ \A i \in 1 .. Len(Charger!Script) : Charger!Script[i] \in Charger!Spans
<1>1. /\ IdentitySpans \in Seq(Charger!Spans) /\ BestEffortSpans \in Seq(Charger!Spans)
      /\ RequiredSpans \in Seq(Charger!Spans) /\ Len(RequiredSpans) # 0
  BY SpansAssumption
<1>2. /\ Charger!Script \in Seq(Charger!Spans)
      /\ Len(Charger!Script) = Len(IdentitySpans) + Len(RequiredSpans) + Len(BestEffortSpans)
  BY <1>1 DEF Charger!Script
<1> QED
  BY <1>1, <1>2 DEF Charger!FirstRequired

-----------------------------------------------------------------------------
(* What a poll of the charger reads.                                          *)

\* No reply is left behind on the connection, a poll under way has waited out no
\* timeout, and one that lost its new connection is excused already.
Reads ==
  /\ stream = <<>>
  /\ timeouts <= 1 /\ (doing # "idle" => timeouts = 0)
  /\ Charger!AnswersTheirOwn
  /\ Charger!LossExcused
  /\ doing = "reading" /\ connection = "closed" /\ ~reused /\ ~Charger!BestEffort(span)
       => excuses # {}

\* What a charger that is not heard shows: the outage was reported, and no hold since.
Hushed ==
  /\ silent => sensor # "on"
  /\ age > BlindWindow + 1 => silent

\* The engine's reading is younger than it is only by what the clock was set back.
Backdated == world # None => world.age >= -clockSteps

ChargerInv == Charger!TypeOK /\ Backdated /\ Reads /\ Hushed

\* A sampler just started has read nothing.
LEMMA ChargerInitial == Charger!Init => ChargerInv
<1> SUFFICES ASSUME Charger!Init PROVE ChargerInv
  OBVIOUS
<1> USE ChargerAssumption, ScriptFacts DEF Charger!Init
<1>1. Charger!PollType
  <2>1. reused \in BOOLEAN /\ current \in BOOLEAN /\ requested \in BOOLEAN /\ ended \in BOOLEAN
    OBVIOUS
  <2>2. /\ connection = None /\ doing = "idle" /\ span = 0 /\ 0 \in 0 .. Len(Charger!Script)
    OBVIOUS
  <2> QED
    BY <2>1, <2>2 DEF Charger!PollType
<1>2. Charger!ReadingType
  BY DEF Charger!ReadingType
<1>3. Charger!LoopType /\ Backdated
  <2>1. world = None /\ sensor = None /\ shown = None /\ silent \in BOOLEAN
    OBVIOUS
  <2>2. clockSteps \in 0 .. MaxClockSteps
    OBVIOUS
  <2> QED
    BY <2>1, <2>2 DEF Charger!LoopType, Backdated
<1>4. Reads /\ Hushed
  BY DEF Reads, Hushed, Charger!AnswersTheirOwn, Charger!LossExcused
<1> QED
  BY <1>1, <1>2, <1>3, <1>4 DEF ChargerInv, Charger!TypeOK

\* Every step keeps the types of a poll.
LEMMA PollTyped ==
  ASSUME ChargerInv, [Charger!Next]_chargerVars PROVE Charger!PollType'
<1> USE ChargerAssumption, ScriptFacts DEF ChargerInv, Charger!poll, Charger!loop, Charger!TypeOK, Charger!PollType, Charger!FirstRequired, Charger!vars
<1>1. CASE Charger!Begins
  <2>1. /\ reused' = (connection # None) /\ current' = TRUE /\ requested' = FALSE
        /\ UNCHANGED <<connection, ended>>
    BY <1>1 DEF Charger!Begins
  <2>2. CASE connection = None
    <3>1. reused' = FALSE /\ doing' = "connecting" /\ span' = 0
      BY <1>1, <2>1, <2>2 DEF Charger!Begins
    <3> QED
      BY <2>1, <3>1
  <2>3. CASE connection # None
    <3>1. reused' = TRUE /\ doing' = "reading" /\ span' = Charger!FirstRequired
      BY <1>1, <2>1, <2>3 DEF Charger!Begins
    <3>2. span' \in 1 .. Len(Charger!Script)
      BY <3>1
    <3>3. reused' \in BOOLEAN /\ current' \in BOOLEAN /\ requested' \in BOOLEAN /\ ended' \in BOOLEAN
      BY <2>1, <3>1
    <3> QED
      BY <2>1, <2>3, <3>1, <3>2, <3>3
  <2> QED
    BY <2>2, <2>3
<1>2. CASE Charger!Connects
  BY <1>2 DEF Charger!Connects, Charger!Failed, Charger!Excused
<1>3. CASE Charger!Answers
  BY <1>3 DEF Charger!Answers, Charger!NextBlock, Charger!Delivered
<1>4. CASE Charger!Refuses
  BY <1>4 DEF Charger!Refuses, Charger!NextBlock, Charger!Delivered, Charger!Failed, Charger!Excused, Charger!Decisive, Charger!Required
<1>5. CASE Charger!TimesOut
  BY <1>5 DEF Charger!TimesOut, Charger!BreaksOff, Charger!Broken, Charger!Again, Charger!Delivered, Charger!Failed, Charger!Excused
<1>6. CASE Charger!Resets
  <2>1. /\ connection' = None /\ doing' \in {"idle", "connecting"} /\ span' = 0
        /\ UNCHANGED <<current, requested, ended>>
    BY <1>6 DEF Charger!Resets, Charger!BreaksOff, Charger!Broken, Charger!Delivered, Charger!Failed
  <2>2. reused' \in BOOLEAN
    BY <1>6 DEF Charger!Resets, Charger!BreaksOff
  <2> QED
    BY <2>1, <2>2
<1>7. CASE Charger!Closes
  BY <1>7 DEF Charger!Closes, Charger!Excused
<1>8. CASE Charger!CarDraws
  BY <1>8 DEF Charger!CarDraws
<1>9. CASE Charger!Panics
  BY <1>9 DEF Charger!Panics
<1>10. CASE Charger!Tick
  BY <1>10 DEF Charger!Tick, Charger!Older, Charger!Standing, Charger!Holds, Charger!Fresh, Charger!Answering
<1>11. CASE Charger!ClockSteps
  BY <1>11 DEF Charger!ClockSteps
<1>12. CASE UNCHANGED chargerVars
  BY <1>12 DEF chargerVars
<1> QED
  BY <1>1, <1>2, <1>3, <1>4, <1>5, <1>6, <1>7, <1>8, <1>9, <1>10, <1>11, <1>12 DEF Charger!Next

\* Every step keeps the types of what a poll reads.
LEMMA ReadingTyped ==
  ASSUME ChargerInv, [Charger!Next]_chargerVars PROVE Charger!ReadingType'
<1> USE ChargerAssumption, ScriptFacts DEF ChargerInv, Charger!poll, Charger!loop, Charger!TypeOK, Charger!PollType, Charger!ReadingType, Reads
<1>1. CASE Charger!Begins
  BY <1>1 DEF Charger!Begins
<1>2. CASE Charger!Connects
  <2>1. /\ stream' = <<>> /\ UNCHANGED <<blocks, power, draw, pending, age>>
    BY <1>2 DEF Charger!Connects, Charger!Failed
  <2>2. timeouts' \in Nat /\ result' \in {"none", "reading", "failed"}
    BY <1>2 DEF Charger!Connects, Charger!Failed
  <2>3. excuses' \subseteq {"timeout", "refused", "unreachable", "closed"}
    BY <1>2 DEF Charger!Connects, Charger!Excused
  <2> QED
    BY <2>1, <2>2, <2>3
<1>3. CASE Charger!Answers
  BY <1>3 DEF Charger!Answers, Charger!NextBlock, Charger!Delivered
<1>4. CASE Charger!Refuses
  <2>1. stream' = <<>> /\ UNCHANGED <<blocks, power, draw, timeouts>>
    BY <1>4 DEF Charger!Refuses
  <2>3. excuses' \subseteq {"timeout", "refused", "unreachable", "closed"}
    BY <1>4 DEF Charger!Refuses, Charger!Excused
  <2>4. /\ result' \in {"none", "reading", "failed"}
        /\ pending' \in {None} \cup [draw : Draws, current : BOOLEAN] /\ age' \in 0 .. BlindWindow + 2
    BY <1>4 DEF Charger!Refuses, Charger!NextBlock, Charger!Delivered, Charger!Failed
  <2> QED
    BY <2>1, <2>3, <2>4
<1>5. CASE Charger!TimesOut
  <2>1. stream' = <<>> /\ timeouts' \in Nat /\ UNCHANGED <<blocks, power, draw>>
    BY <1>5 DEF Charger!TimesOut, Charger!BreaksOff, Charger!Broken
  <2>3. excuses' \subseteq {"timeout", "refused", "unreachable", "closed"}
    BY <1>5 DEF Charger!TimesOut, Charger!Excused
  <2>4. /\ result' \in {"none", "reading", "failed"}
        /\ pending' \in {None} \cup [draw : Draws, current : BOOLEAN] /\ age' \in 0 .. BlindWindow + 2
    BY <1>5 DEF Charger!TimesOut, Charger!BreaksOff, Charger!Delivered, Charger!Failed
  <2> QED
    BY <2>1, <2>3, <2>4
<1>6. CASE Charger!Resets
  BY <1>6 DEF Charger!Resets, Charger!BreaksOff, Charger!Broken, Charger!Again, Charger!Delivered, Charger!Failed, Charger!Excused
<1>7. CASE Charger!Closes
  BY <1>7 DEF Charger!Closes, Charger!Excused
<1>8. CASE Charger!CarDraws
  BY <1>8 DEF Charger!CarDraws
<1>9. CASE Charger!Panics
  BY <1>9 DEF Charger!Panics
<1>10. CASE Charger!Tick
  BY <1>10 DEF Charger!Tick, Charger!Older, Charger!Standing, Charger!Holds, Charger!Fresh, Charger!Answering
<1>11. CASE Charger!ClockSteps
  BY <1>11 DEF Charger!ClockSteps
<1>12. CASE UNCHANGED chargerVars
  BY <1>12 DEF chargerVars
<1> QED
  BY <1>1, <1>2, <1>3, <1>4, <1>5, <1>6, <1>7, <1>8, <1>9, <1>10, <1>11, <1>12 DEF Charger!Next

\* Every step keeps the types of what the loop makes of it, and the reading's age to
\* what the clock was set back.
LEMMA LoopTyped ==
  ASSUME ChargerInv, [Charger!Next]_chargerVars PROVE (Charger!LoopType /\ Backdated)'
<1> USE ChargerAssumption, ScriptFacts DEF ChargerInv, Charger!poll, Charger!loop, Charger!TypeOK, Charger!LoopType, Backdated
<1>1. CASE Charger!Begins
  BY <1>1 DEF Charger!Begins
<1>2. CASE Charger!Connects
  BY <1>2 DEF Charger!Connects, Charger!Failed, Charger!Excused
<1>3. CASE Charger!Answers
  BY <1>3 DEF Charger!Answers, Charger!NextBlock, Charger!Delivered
<1>4. CASE Charger!Refuses
  BY <1>4 DEF Charger!Refuses, Charger!NextBlock, Charger!Delivered, Charger!Failed, Charger!Excused, Charger!Decisive, Charger!Required
<1>5. CASE Charger!TimesOut
  BY <1>5 DEF Charger!TimesOut, Charger!BreaksOff, Charger!Broken, Charger!Again, Charger!Delivered, Charger!Failed, Charger!Excused
<1>6. CASE Charger!Resets
  BY <1>6 DEF Charger!Resets, Charger!BreaksOff, Charger!Broken, Charger!Again, Charger!Delivered, Charger!Failed, Charger!Excused
<1>7. CASE Charger!Closes
  BY <1>7 DEF Charger!Closes, Charger!Excused
<1>8. CASE Charger!CarDraws
  BY <1>8 DEF Charger!CarDraws
<1>9. CASE Charger!Panics
  BY <1>9 DEF Charger!Panics
<1>10. CASE Charger!Tick
  <2> DEFINE down == age > BlindWindow
             read == ~down /\ pending # None /\ pending.current
             seen == IF read THEN [draw |-> pending.draw, age |-> 0] ELSE world
  <2>1. seen \in {None} \cup [draw : Draws, age : -MaxClockSteps .. BlindWindow + 1]
    <3>1. CASE read
      <4>1. pending # None /\ pending \in {None} \cup [draw : Draws, current : BOOLEAN]
        BY <3>1 DEF Charger!ReadingType
      <4> QED
        BY <3>1, <4>1, ChargerAssumption
    <3>2. CASE ~read
      BY <3>2
    <3> QED
      BY <3>1, <3>2
  <2>2. seen # None => seen.age >= -clockSteps
    OBVIOUS
  <2> HIDE DEF seen
  <2>3. /\ world' = IF seen = None THEN None
                    ELSE [seen EXCEPT !.age = IF seen.age > BlindWindow THEN seen.age ELSE seen.age + 1]
        /\ UNCHANGED clockSteps
    BY <1>10 DEF Charger!Tick, Charger!Older, seen
  <2>4. /\ world' \in {None} \cup [draw : Draws, age : -MaxClockSteps .. BlindWindow + 1]
        /\ world' # None => world'.age >= -clockSteps'
    <3>1. CASE seen = None
      BY <2>3, <3>1
    <3>2. CASE seen # None
      <4> DEFINE older == IF seen.age > BlindWindow THEN seen.age ELSE seen.age + 1
      <4>1. /\ seen \in [draw : Draws, age : -MaxClockSteps .. BlindWindow + 1]
            /\ seen.age \in -MaxClockSteps .. BlindWindow + 1
        BY <2>1, <3>2
      <4>2. older \in -MaxClockSteps .. BlindWindow + 1 /\ older >= -clockSteps
        BY <2>2, <3>2, <4>1
      <4> HIDE DEF older
      <4>3. world' = [seen EXCEPT !.age = older]
        BY <2>3, <3>2 DEF older
      <4> QED
        BY <2>3, <4>1, <4>2, <4>3
    <3> QED
      BY <3>1, <3>2
  <2>5. silent' \in BOOLEAN
    BY <1>10 DEF Charger!Tick, Charger!Answering
  <2>6. sensor' \in {None, "on", "off"}
    BY <1>10 DEF Charger!Tick
  <2>7. shown' \in {None} \cup [fresh : BOOLEAN, hold : BOOLEAN]
    <3>1. shown' = Charger!Standing(seen) \/ shown' = shown
      BY <1>10 DEF Charger!Tick, seen
    <3>2. Charger!Fresh(seen) \in BOOLEAN /\ Charger!Holds(seen) \in BOOLEAN
      BY DEF Charger!Fresh, Charger!Holds
    <3> QED
      BY <3>1, <3>2 DEF Charger!Standing
  <2> QED
    BY <2>3, <2>4, <2>5, <2>6, <2>7
<1>11. CASE Charger!ClockSteps
  <2>1. /\ world \in [draw : Draws, age : -MaxClockSteps .. BlindWindow + 1]
        /\ clockSteps' = clockSteps + 1 /\ clockSteps < MaxClockSteps
        /\ world' = [world EXCEPT !.age = world.age - 1]
        /\ UNCHANGED <<silent, sensor, shown>>
    BY <1>11 DEF Charger!ClockSteps
  <2>2. world.age - 1 \in -MaxClockSteps .. BlindWindow + 1 /\ world.age - 1 >= -clockSteps'
    BY <1>11, <2>1 DEF Charger!ClockSteps
  <2>3. world' \in [draw : Draws, age : -MaxClockSteps .. BlindWindow + 1] /\ world'.age >= -clockSteps'
    BY <2>1, <2>2
  <2> QED
    BY <2>1, <2>3
<1>12. CASE UNCHANGED chargerVars
  BY <1>12 DEF chargerVars
<1> QED
  BY <1>1, <1>2, <1>3, <1>4, <1>5, <1>6, <1>7, <1>8, <1>9, <1>10, <1>11, <1>12 DEF Charger!Next

\* Every step keeps what a poll reads its own.
LEMMA ChargerReads ==
  ASSUME ChargerInv, [Charger!Next]_chargerVars PROVE Reads'
<1> USE ChargerAssumption, ScriptFacts DEF ChargerInv, Charger!poll, Charger!loop, Charger!TypeOK, Charger!PollType, Charger!ReadingType, Reads, Charger!AnswersTheirOwn, Charger!LossExcused, Charger!BestEffort, Charger!Required, Charger!FirstRequired
<1>1. CASE Charger!Begins
  BY <1>1 DEF Charger!Begins
<1>2. CASE Charger!Connects
  <2>1. CASE doing' = "reading"
    BY <1>2, <2>1 DEF Charger!Connects, Charger!Failed
  <2>2. CASE doing' # "reading"
    <3>1. \E late \in BOOLEAN : timeouts' = timeouts + IF late THEN 1 ELSE 0
      BY <1>2, <2>2 DEF Charger!Connects
    <3>2. timeouts = 0 /\ timeouts' <= 1
      BY <1>2, <3>1 DEF Charger!Connects
    <3>3. doing' = "idle" /\ excuses' # {} /\ UNCHANGED <<stream, blocks>>
      BY <1>2, <2>2 DEF Charger!Connects, Charger!Failed, Charger!Excused
    <3> QED
      BY <3>2, <3>3
  <2> QED
    BY <2>1, <2>2
<1>3. CASE Charger!Answers
  BY <1>3 DEF Charger!Answers, Charger!NextBlock, Charger!Delivered
<1>4. CASE Charger!Refuses
  BY <1>4 DEF Charger!Refuses, Charger!NextBlock, Charger!Delivered, Charger!Failed, Charger!Excused, Charger!Decisive, Charger!Required
<1>5. CASE Charger!TimesOut
  <2>1. timeouts' = 1 /\ stream' = <<>> /\ doing' = "idle" /\ UNCHANGED blocks
    BY <1>5 DEF Charger!TimesOut, Charger!BreaksOff, Charger!Broken, Charger!Again, Charger!Delivered, Charger!Failed
  <2>2. result' = "failed" => excuses' # {}
    BY <1>5 DEF Charger!TimesOut, Charger!BreaksOff, Charger!Again, Charger!Delivered, Charger!Excused
  <2> QED
    BY <2>1, <2>2
<1>6. CASE Charger!Resets
  BY <1>6 DEF Charger!Resets, Charger!BreaksOff, Charger!Broken, Charger!Again, Charger!Delivered, Charger!Failed, Charger!Excused
<1>7. CASE Charger!Closes
  BY <1>7 DEF Charger!Closes, Charger!Excused
<1>8. CASE Charger!CarDraws
  BY <1>8 DEF Charger!CarDraws
<1>9. CASE Charger!Panics
  BY <1>9 DEF Charger!Panics
<1>10. CASE Charger!Tick
  BY <1>10 DEF Charger!Tick, Charger!Older, Charger!Standing, Charger!Holds, Charger!Fresh, Charger!Answering
<1>11. CASE Charger!ClockSteps
  BY <1>11 DEF Charger!ClockSteps
<1>12. CASE UNCHANGED chargerVars
  BY <1>12 DEF chargerVars
<1> QED
  BY <1>1, <1>2, <1>3, <1>4, <1>5, <1>6, <1>7, <1>8, <1>9, <1>10, <1>11, <1>12 DEF Charger!Next

\* Every step keeps the outage reported.
LEMMA ChargerHushed ==
  ASSUME ChargerInv, [Charger!Next]_chargerVars PROVE Hushed'
<1> USE ChargerAssumption, ScriptFacts DEF ChargerInv, Charger!poll, Charger!loop, Charger!TypeOK, Charger!ReadingType, Charger!LoopType, Hushed
<1>1. CASE Charger!Begins
  BY <1>1 DEF Charger!Begins
<1>2. CASE Charger!Connects
  BY <1>2 DEF Charger!Connects, Charger!Failed, Charger!Excused
<1>3. CASE Charger!Answers
  BY <1>3 DEF Charger!Answers, Charger!NextBlock, Charger!Delivered
<1>4. CASE Charger!Refuses
  BY <1>4 DEF Charger!Refuses, Charger!NextBlock, Charger!Delivered, Charger!Failed, Charger!Excused, Charger!Decisive, Charger!Required
<1>5. CASE Charger!TimesOut
  BY <1>5 DEF Charger!TimesOut, Charger!BreaksOff, Charger!Broken, Charger!Again, Charger!Delivered, Charger!Failed, Charger!Excused
<1>6. CASE Charger!Resets
  BY <1>6 DEF Charger!Resets, Charger!BreaksOff, Charger!Broken, Charger!Again, Charger!Delivered, Charger!Failed, Charger!Excused
<1>7. CASE Charger!Closes
  BY <1>7 DEF Charger!Closes, Charger!Excused
<1>8. CASE Charger!CarDraws
  BY <1>8 DEF Charger!CarDraws
<1>9. CASE Charger!Panics
  BY <1>9 DEF Charger!Panics
<1>10. CASE Charger!Tick
  <2>1. age > BlindWindow => silent'
    BY <1>10 DEF Charger!Tick
  <2>2. age' > BlindWindow + 1 => age > BlindWindow
    BY <1>10 DEF Charger!Tick
  <2>3. silent' => sensor' # "on"
    BY <1>10 DEF Charger!Tick, Charger!Answering
  <2> QED
    BY <2>1, <2>2, <2>3
<1>11. CASE Charger!ClockSteps
  BY <1>11 DEF Charger!ClockSteps
<1>12. CASE UNCHANGED chargerVars
  BY <1>12 DEF chargerVars
<1> QED
  BY <1>1, <1>2, <1>3, <1>4, <1>5, <1>6, <1>7, <1>8, <1>9, <1>10, <1>11, <1>12 DEF Charger!Next

-----------------------------------------------------------------------------
(* What the broker is shown.                                                  *)

\* The values on a line rise, above what was shown and to the last one made.
Rising(line, low, high) ==
  \A i \in DOMAIN line : ~Mqtt!IsDocument(line[i]) =>
    /\ low < line[i].value /\ line[i].value <= high
    /\ \A j \in 1 .. i - 1 : ~Mqtt!IsDocument(line[j]) => line[j].value < line[i].value

\* What is sent again is a document, never a value.
Again == unacked \in Seq([document : Mqtt!Documents]) /\ replay \in Seq([document : Mqtt!Documents])

InOrder == valueShown <= value /\ Rising(Mqtt!Line, valueShown, value)

\* A document that was accepted is on its way, or stored: on a connection that is up
\* whatever its announcement is about to mark, on one asleep what it queued since.
OnItsWay == Mqtt!DocumentsOf(replay) \cup Mqtt!DocumentsOf(Mqtt!Line)
Promised ==
  /\ link = "up" => \A d \in announced : d \in retained \cup OnItsWay
  /\ \A c \in Mqtt!Callers : accepted[c] # None =>
       /\ link \in {"up", "dead"} => ~accepted[c].asleep
       /\ link = "up" => accepted[c].document \in retained \cup OnItsWay
       /\ link = "asleep" /\ accepted[c].asleep => accepted[c].document \in OnItsWay

\* Once it has drained nothing is left to hand over, and the connection goes after that.
Drains ==
  /\ ~deliveryFailed
  /\ link = "gone" <=> phase = "stopped"
  /\ phase \in {"drained", "stopped"} /\ ~aborted => queue = <<>> /\ holding = None

MqttInv == Mqtt!TypeOK /\ Again /\ InOrder /\ Promised /\ Drains

\* A message is a document or a value, and is told by its one field.
LEMMA MessageFacts ==
  ASSUME NEW m \in Mqtt!Messages
  PROVE  /\ Mqtt!IsDocument(m) => m \in [document : Mqtt!Documents] /\ m.document \in Mqtt!Documents
         /\ ~Mqtt!IsDocument(m) => m \in [value : Mqtt!Values] /\ m.value \in Mqtt!Values
<1>1. \A r \in [document : Mqtt!Documents] : "document" \in DOMAIN r /\ r.document \in Mqtt!Documents
  OBVIOUS
<1>2. \A r \in [value : Mqtt!Values] : "document" \notin DOMAIN r /\ r.value \in Mqtt!Values
  OBVIOUS
<1> QED
  BY <1>1, <1>2 DEF Mqtt!Messages, Mqtt!IsDocument

\* The documents of a sequence are those of its messages.
LEMMA DocumentsMembers ==
  ASSUME NEW s, NEW d
  PROVE  d \in Mqtt!DocumentsOf(s) <=>
           \E i \in DOMAIN s : Mqtt!IsDocument(s[i]) /\ s[i].document = d
BY DEF Mqtt!DocumentsOf

\* Of two sequences, one after the other, the documents are those of both.
LEMMA DocumentsConcat ==
  ASSUME NEW S, NEW s \in Seq(S), NEW t \in Seq(S)
  PROVE  Mqtt!DocumentsOf(s \o t) = Mqtt!DocumentsOf(s) \cup Mqtt!DocumentsOf(t)
<1>1. /\ DOMAIN s = 1 .. Len(s) /\ Len(s) \in Nat /\ DOMAIN t = 1 .. Len(t) /\ Len(t) \in Nat
      /\ DOMAIN (s \o t) = 1 .. Len(s) + Len(t)
      /\ \A i \in 1 .. Len(s) + Len(t) : (s \o t)[i] = IF i <= Len(s) THEN s[i] ELSE t[i - Len(s)]
  BY ConcatProperties, LenProperties
<1>2. ASSUME NEW d \in Mqtt!DocumentsOf(s \o t)
      PROVE  d \in Mqtt!DocumentsOf(s) \cup Mqtt!DocumentsOf(t)
  <2>0. \E i \in DOMAIN (s \o t) : Mqtt!IsDocument((s \o t)[i]) /\ (s \o t)[i].document = d
    BY <1>2, DocumentsMembers
  <2>1. PICK i \in 1 .. Len(s) + Len(t) : Mqtt!IsDocument((s \o t)[i]) /\ (s \o t)[i].document = d
    BY <1>1, <2>0
  <2>2. CASE i <= Len(s)
    BY <1>1, <2>1, <2>2, DocumentsMembers
  <2>3. CASE ~(i <= Len(s))
    <3>1. i - Len(s) \in DOMAIN t /\ (s \o t)[i] = t[i - Len(s)]
      BY <1>1, <2>3
    <3> QED
      BY <2>1, <3>1, DocumentsMembers
  <2> QED
    BY <2>2, <2>3
<1>3. ASSUME NEW d \in Mqtt!DocumentsOf(s)
      PROVE  d \in Mqtt!DocumentsOf(s \o t)
  <2>1. PICK i \in 1 .. Len(s) : Mqtt!IsDocument(s[i]) /\ s[i].document = d
    BY <1>1, <1>3, DocumentsMembers
  <2>2. i \in DOMAIN (s \o t) /\ (s \o t)[i] = s[i]
    BY <1>1
  <2> QED
    BY <2>1, <2>2, DocumentsMembers
<1>4. ASSUME NEW d \in Mqtt!DocumentsOf(t)
      PROVE  d \in Mqtt!DocumentsOf(s \o t)
  <2>1. PICK i \in 1 .. Len(t) : Mqtt!IsDocument(t[i]) /\ t[i].document = d
    BY <1>1, <1>4, DocumentsMembers
  <2>2. i + Len(s) \in DOMAIN (s \o t) /\ (s \o t)[i + Len(s)] = t[i]
    BY <1>1
  <2> QED
    BY <2>1, <2>2, DocumentsMembers
<1> QED
  BY <1>2, <1>3, <1>4

\* The documents of a sequence with a message put at its end.
LEMMA DocumentsAppend ==
  ASSUME NEW s \in Seq(Mqtt!Messages), NEW m \in Mqtt!Messages
  PROVE  /\ Mqtt!DocumentsOf(s) \subseteq Mqtt!DocumentsOf(Append(s, m))
         /\ Mqtt!IsDocument(m) => m.document \in Mqtt!DocumentsOf(Append(s, m))
<1>1. DOMAIN s = 1 .. Len(s) /\ Len(s) \in Nat
  BY LenProperties
<1>2. /\ DOMAIN Append(s, m) = 1 .. Len(s) + 1 /\ Append(s, m)[Len(s) + 1] = m
      /\ \A i \in 1 .. Len(s) : Append(s, m)[i] = s[i]
  BY <1>1
<1>3. ASSUME NEW d \in Mqtt!DocumentsOf(s) PROVE d \in Mqtt!DocumentsOf(Append(s, m))
  <2>1. PICK i \in 1 .. Len(s) : Mqtt!IsDocument(s[i]) /\ s[i].document = d
    BY <1>1, <1>3, DocumentsMembers
  <2>2. i \in DOMAIN Append(s, m) /\ Append(s, m)[i] = s[i]
    BY <1>1, <1>2
  <2> QED
    BY <2>1, <2>2, DocumentsMembers
<1>4. ASSUME Mqtt!IsDocument(m) PROVE m.document \in Mqtt!DocumentsOf(Append(s, m))
  <2>1. Len(s) + 1 \in DOMAIN Append(s, m)
    BY <1>1, <1>2
  <2> QED
    BY <1>2, <1>4, <2>1, DocumentsMembers
<1> QED
  BY <1>3, <1>4

\* A document of a sequence is in its tail or at its head.
LEMMA DocumentsTail ==
  ASSUME NEW s \in Seq(Mqtt!Messages), s # <<>>, NEW d \in Mqtt!DocumentsOf(s)
  PROVE  \/ d \in Mqtt!DocumentsOf(Tail(s))
         \/ (Mqtt!IsDocument(Head(s)) /\ Head(s).document = d)
<1>1. DOMAIN s = 1 .. Len(s) /\ Len(s) \in Nat
  BY LenProperties
<1>2. PICK i \in 1 .. Len(s) : Mqtt!IsDocument(s[i]) /\ s[i].document = d
  BY <1>1, DocumentsMembers
<1>3. /\ DOMAIN Tail(s) = 1 .. Len(s) - 1 /\ Head(s) = s[1]
      /\ \A k \in 1 .. Len(s) - 1 : Tail(s)[k] = s[k + 1]
  BY <1>1
<1>4. CASE i = 1
  BY <1>2, <1>3, <1>4
<1>5. CASE i # 1
  <2>1. i - 1 \in DOMAIN Tail(s) /\ Tail(s)[i - 1] = s[i]
    BY <1>3, <1>5
  <2> QED
    BY <1>2, <2>1, DocumentsMembers
<1> QED
  BY <1>4, <1>5

\* A line stays rising when a document is put at its end, or the next value.
LEMMA RisingAppend ==
  ASSUME NEW s \in Seq(Mqtt!Messages), NEW low \in Nat, NEW high \in Nat, low <= high,
         Rising(s, low, high), NEW m \in Mqtt!Messages
  PROVE  /\ Mqtt!IsDocument(m) => Rising(Append(s, m), low, high)
         /\ ~Mqtt!IsDocument(m) /\ m.value = high + 1 => Rising(Append(s, m), low, high + 1)
<1>1. /\ DOMAIN s = 1 .. Len(s) /\ Len(s) \in Nat
      /\ DOMAIN Append(s, m) = 1 .. Len(s) + 1 /\ Append(s, m)[Len(s) + 1] = m
      /\ \A i \in 1 .. Len(s) : Append(s, m)[i] = s[i]
  BY LenProperties
<1>2. \A i \in 1 .. Len(s) : ~Mqtt!IsDocument(s[i]) => s[i].value \in Int
  BY ElementOfSeq, MessageFacts DEF Mqtt!Values
<1>3. \A i \in 1 .. Len(s) : ~Mqtt!IsDocument(s[i]) =>
        /\ low < s[i].value /\ s[i].value <= high /\ s[i].value < high + 1
        /\ \A j \in 1 .. i - 1 : ~Mqtt!IsDocument(s[j]) => s[j].value < s[i].value
  BY <1>1, <1>2 DEF Rising
<1>4. ASSUME NEW i \in 1 .. Len(s), ~Mqtt!IsDocument(Append(s, m)[i]), NEW top \in {high, high + 1}
      PROVE  /\ low < Append(s, m)[i].value /\ Append(s, m)[i].value <= top
             /\ \A j \in 1 .. i - 1 : ~Mqtt!IsDocument(Append(s, m)[j]) =>
                  Append(s, m)[j].value < Append(s, m)[i].value
  <2>1. Append(s, m)[i] = s[i] /\ \A j \in 1 .. i - 1 : Append(s, m)[j] = s[j]
    BY <1>1
  <2>2. low < s[i].value /\ s[i].value <= top
    BY <1>2, <1>3, <1>4, <2>1
  <2> QED
    BY <1>3, <1>4, <2>1, <2>2
<1>5. ASSUME ~Mqtt!IsDocument(m), m.value = high + 1
      PROVE  /\ low < m.value /\ m.value <= high + 1
             /\ \A j \in 1 .. Len(s) : ~Mqtt!IsDocument(Append(s, m)[j]) => Append(s, m)[j].value < m.value
  BY <1>1, <1>3, <1>5
<1>6. ASSUME Mqtt!IsDocument(m) PROVE Rising(Append(s, m), low, high)
  BY <1>1, <1>4, <1>6 DEF Rising
<1>7. ASSUME ~Mqtt!IsDocument(m), m.value = high + 1 PROVE Rising(Append(s, m), low, high + 1)
  <2>1. SUFFICES ASSUME NEW i \in 1 .. Len(s) + 1, ~Mqtt!IsDocument(Append(s, m)[i])
                 PROVE  /\ low < Append(s, m)[i].value /\ Append(s, m)[i].value <= high + 1
                        /\ \A j \in 1 .. i - 1 : ~Mqtt!IsDocument(Append(s, m)[j]) =>
                             Append(s, m)[j].value < Append(s, m)[i].value
    BY <1>1 DEF Rising
  <2>2. CASE i = Len(s) + 1
    <3>1. Append(s, m)[i] = m /\ i - 1 = Len(s)
      BY <1>1, <2>2
    <3> QED
      BY <1>5, <1>7, <3>1
  <2>3. CASE i # Len(s) + 1
    <3>1. i \in 1 .. Len(s)
      BY <1>1, <2>3
    <3> QED
      BY <1>4, <2>1, <3>1
  <2> QED
    BY <2>2, <2>3
<1> QED
  BY <1>6, <1>7

\* A line stays rising when its head goes, above the value that was there.
LEMMA RisingTail ==
  ASSUME NEW s \in Seq(Mqtt!Messages), s # <<>>, NEW low \in Nat, NEW high \in Nat, Rising(s, low, high)
  PROVE  /\ Rising(Tail(s), low, high)
         /\ ~Mqtt!IsDocument(Head(s)) => Rising(Tail(s), Head(s).value, high)
<1>1. /\ DOMAIN s = 1 .. Len(s) /\ Len(s) \in Nat \ {0}
      /\ DOMAIN Tail(s) = 1 .. Len(s) - 1 /\ Head(s) = s[1]
      /\ \A i \in 1 .. Len(s) - 1 : Tail(s)[i] = s[i + 1]
  BY LenProperties
<1>2. SUFFICES ASSUME NEW i \in 1 .. Len(s) - 1, ~Mqtt!IsDocument(Tail(s)[i])
               PROVE  /\ low < Tail(s)[i].value /\ Tail(s)[i].value <= high
                      /\ ~Mqtt!IsDocument(Head(s)) => Head(s).value < Tail(s)[i].value
                      /\ \A j \in 1 .. i - 1 : ~Mqtt!IsDocument(Tail(s)[j]) => Tail(s)[j].value < Tail(s)[i].value
  BY <1>1 DEF Rising
<1>3. /\ i + 1 \in DOMAIN s /\ Tail(s)[i] = s[i + 1] /\ 1 \in 1 .. (i + 1) - 1
      /\ \A j \in 1 .. i - 1 : Tail(s)[j] = s[j + 1] /\ j + 1 \in 1 .. (i + 1) - 1
  BY <1>1
<1>4. /\ low < s[i + 1].value /\ s[i + 1].value <= high
      /\ \A j \in 1 .. (i + 1) - 1 : ~Mqtt!IsDocument(s[j]) => s[j].value < s[i + 1].value
  BY <1>2, <1>3 DEF Rising
<1> QED
  BY <1>1, <1>3, <1>4

\* What is held and what is on the line are sequences of messages.
LEMMA LineTyped ==
  ASSUME Mqtt!TypeOK
  PROVE  Mqtt!Held \in Seq(Mqtt!Messages) /\ Mqtt!Line \in Seq(Mqtt!Messages)
<1>1. Mqtt!Held \in Seq(Mqtt!Messages)
  BY DEF Mqtt!TypeOK, Mqtt!PipeType, Mqtt!Held
<1>2. requests \in Seq(Mqtt!Messages) /\ queue \in Seq(Mqtt!Messages)
  BY DEF Mqtt!TypeOK, Mqtt!PipeType
<1> QED
  BY <1>1, <1>2, ConcatProperties DEF Mqtt!Line

\* What goes onto the socket is the head of what is sent again, or else of the requests.
LEMMA NextSent ==
  ASSUME Mqtt!TypeOK, replay \o requests # <<>>
  PROVE  LET m == Head(replay \o requests)
         IN /\ m \in Mqtt!Messages
            /\ replay # <<>> => m = Head(replay)
            /\ replay = <<>> => requests # <<>> /\ m = Head(requests)
<1>1. replay \in Seq(Mqtt!Messages) /\ requests \in Seq(Mqtt!Messages)
  BY DEF Mqtt!TypeOK, Mqtt!PipeType
<1>2. replay \o requests \in Seq(Mqtt!Messages)
  BY <1>1, ConcatProperties
<1>3. Head(replay \o requests) \in Mqtt!Messages
  BY <1>2, HeadTailProperties
<1>4. ASSUME replay # <<>> PROVE Head(replay \o requests) = Head(replay)
  <2>1. Len(replay) \in Nat \ {0} /\ (replay \o requests)[1] = replay[1]
    BY <1>1, <1>4
  <2> QED
    BY <1>1, <1>2, <2>1
<1>5. ASSUME replay = <<>> PROVE replay \o requests = requests
  BY <1>1, <1>5, ConcatEmptySeq
<1> QED
  BY <1>3, <1>4, <1>5

\* An announcement of a document and a value are messages.
LEMMA MadeMessages ==
  /\ \A d \in Mqtt!Documents : /\ [document |-> d] \in Mqtt!Messages
                               /\ Mqtt!IsDocument([document |-> d]) /\ [document |-> d].document = d
  /\ \A v \in Mqtt!Values : /\ [value |-> v] \in Mqtt!Messages
                            /\ ~Mqtt!IsDocument([value |-> v]) /\ [value |-> v].value = v
BY DEF Mqtt!Messages, Mqtt!IsDocument

\* Every step keeps the types of the pipe.
LEMMA PipeTyped ==
  ASSUME MqttInv, [Mqtt!Next]_mqttVars PROVE Mqtt!PipeType'
<1> USE MqttAssumption DEF MqttInv, Mqtt!pipe, Mqtt!calls, Mqtt!TypeOK, Mqtt!PipeType, Mqtt!CallsType, Mqtt!BrokerType
<1>1. CASE Mqtt!Receives
  BY <1>1 DEF Mqtt!Receives
<1>2. CASE Mqtt!HandsOver
  <2>1. holding \in Mqtt!Messages /\ holding' = None /\ UNCHANGED <<queue, unacked, replay>>
    BY <1>2 DEF Mqtt!HandsOver
  <2>2. \/ requests' = Append(requests, holding) /\ Len(requests) < RequestDepth
        \/ requests' = requests
    BY <1>2 DEF Mqtt!HandsOver
  <2>3. requests' \in Seq(Mqtt!Messages) /\ Len(requests') <= RequestDepth
    <3>1. requests \in Seq(Mqtt!Messages) /\ Len(requests) \in Nat /\ RequestDepth \in Nat /\ Len(requests) <= RequestDepth
      OBVIOUS
    <3>2. CASE requests' = requests
      BY <3>1, <3>2
    <3>3. CASE requests' = Append(requests, holding) /\ Len(requests) < RequestDepth
      <4>1. requests' \in Seq(Mqtt!Messages)
        BY <3>1, <3>3, <2>1
      <4>2. Len(requests') = Len(requests) + 1
        BY <3>1, <3>3, <2>1
      <4> QED
        BY <3>1, <3>3, <4>1, <4>2
    <3> QED
      BY <2>2, <3>2, <3>3
  <2> QED
    BY <2>1, <2>3
<1>3. CASE \E c \in Mqtt!Callers : Mqtt!Offers(c)
  <2>1. PICK c \in Mqtt!Callers, d \in Mqtt!Documents :
          /\ queue' = queue \/ (Len(queue) < QueueDepth /\ queue' = Append(queue, [document |-> d]))
          /\ UNCHANGED <<holding, requests, unacked, replay>>
    BY <1>3 DEF Mqtt!Offers, Mqtt!Publish, Mqtt!HasRoom
  <2>2. [document |-> d] \in Mqtt!Messages
    BY MadeMessages
  <2>3. queue' \in Seq(Mqtt!Messages) /\ Len(queue') <= QueueDepth
    <3>1. queue \in Seq(Mqtt!Messages) /\ Len(queue) \in Nat /\ QueueDepth \in Nat /\ Len(queue) <= QueueDepth
      OBVIOUS
    <3>2. CASE queue' = queue
      BY <3>1, <3>2
    <3>3. CASE queue' = Append(queue, [document |-> d]) /\ Len(queue) < QueueDepth
      <4>1. queue' \in Seq(Mqtt!Messages)
        BY <2>2, <3>1, <3>3
      <4>2. Len(queue') = Len(queue) + 1
        BY <3>1, <3>3
      <4> QED
        BY <3>1, <3>3, <4>1, <4>2
    <3> QED
      BY <2>1, <3>2, <3>3
  <2> QED
    BY <2>1, <2>3
<1>4. CASE \E c \in Mqtt!Callers : Mqtt!Inserts(c)
  BY <1>4 DEF Mqtt!Inserts
<1>5. CASE Mqtt!Polls
  <2>1. /\ \/ queue' = queue
           \/ value < MaxValues /\ Len(queue) < QueueDepth /\ queue' = Append(queue, [value |-> value + 1])
        /\ UNCHANGED <<holding, requests, unacked, replay>>
    BY <1>5 DEF Mqtt!Polls, Mqtt!Publish, Mqtt!HasRoom
  <2>2. value < MaxValues => [value |-> value + 1] \in Mqtt!Messages
    BY MadeMessages DEF Mqtt!Values
  <2>3. queue' \in Seq(Mqtt!Messages) /\ Len(queue') <= QueueDepth
    <3>1. queue \in Seq(Mqtt!Messages) /\ Len(queue) \in Nat /\ QueueDepth \in Nat /\ Len(queue) <= QueueDepth
      OBVIOUS
    <3>2. CASE queue' = queue
      BY <3>1, <3>2
    <3>3. CASE queue' = Append(queue, [value |-> value + 1]) /\ value < MaxValues /\ Len(queue) < QueueDepth
      <4>1. queue' \in Seq(Mqtt!Messages)
        BY <2>2, <3>1, <3>3
      <4>2. Len(queue') = Len(queue) + 1
        BY <3>1, <3>3
      <4> QED
        BY <3>1, <3>3, <4>1, <4>2
    <3> QED
      BY <2>1, <3>2, <3>3
  <2> QED
    BY <2>1, <2>3
<1>6. CASE Mqtt!Connects
  BY <1>6 DEF Mqtt!Connects, Mqtt!Reset
<1>7. CASE Mqtt!Sends
  <2>1. Head(replay \o requests) \in Mqtt!Messages /\ (replay = <<>> => requests # <<>>)
    BY <1>7, NextSent DEF Mqtt!Sends
  <2>2. unacked' = unacked \/ unacked' = Append(unacked, Head(replay \o requests))
    BY <1>7 DEF Mqtt!Sends
  <2>3. /\ \/ replay # <<>> /\ replay' = Tail(replay) /\ requests' = requests
           \/ replay = <<>> /\ requests' = Tail(requests) /\ replay' = replay
        /\ UNCHANGED <<queue, holding>>
    BY <1>7 DEF Mqtt!Sends
  <2>4. unacked' \in Seq(Mqtt!Messages)
    <3>1. CASE unacked' = unacked
      BY <3>1
    <3>2. CASE unacked' = Append(unacked, Head(replay \o requests))
      BY <2>1, <3>2
    <3> QED
      BY <2>2, <3>1, <3>2
  <2>5. replay' \in Seq(Mqtt!Messages) /\ requests' \in Seq(Mqtt!Messages) /\ Len(requests') <= RequestDepth
    <3>1. CASE replay # <<>>
      <4>1. replay' = Tail(replay) /\ requests' = requests
        BY <2>3, <3>1
      <4>2. Tail(replay) \in Seq(Mqtt!Messages)
        BY <3>1
      <4> QED
        BY <4>1, <4>2
    <3>2. CASE replay = <<>>
      <4>1. requests # <<>> /\ requests' = Tail(requests) /\ replay' = replay
        BY <2>1, <2>3, <3>2
      <4>2. Len(requests) \in Nat /\ Len(Tail(requests)) = Len(requests) - 1 /\ Tail(requests) \in Seq(Mqtt!Messages)
        BY <4>1, HeadTailProperties, LenProperties
      <4> QED
        BY <4>1, <4>2
    <3> QED
      BY <3>1, <3>2
  <2> QED
    BY <2>3, <2>4, <2>5
<1>8. CASE Mqtt!Hears
  BY <1>8 DEF Mqtt!Hears
<1>9. CASE Mqtt!Fails
  BY <1>9 DEF Mqtt!Fails
<1>10. CASE Mqtt!Breaks
  BY <1>10 DEF Mqtt!Breaks
<1>11. CASE Mqtt!Closes
  BY <1>11 DEF Mqtt!Closes
<1>12. CASE Mqtt!Drained
  BY <1>12 DEF Mqtt!Drained, Mqtt!Deadline
<1>13. CASE Mqtt!Stops
  BY <1>13 DEF Mqtt!Stops, Mqtt!StopsIn
<1>14. CASE UNCHANGED mqttVars
  BY <1>14 DEF mqttVars
<1> QED
  BY <1>1, <1>2, <1>3, <1>4, <1>5, <1>6, <1>7, <1>8, <1>9, <1>10, <1>11, <1>12, <1>13, <1>14 DEF Mqtt!Next

\* Every step keeps the types of the announcements.
LEMMA CallsTyped ==
  ASSUME MqttInv, [Mqtt!Next]_mqttVars PROVE Mqtt!CallsType'
<1> USE MqttAssumption, MessageFacts DEF MqttInv, Mqtt!pipe, Mqtt!calls, Mqtt!TypeOK, Mqtt!CallsType, Mqtt!Documents, Mqtt!Callers
<1>1. CASE Mqtt!Receives
  BY <1>1 DEF Mqtt!Receives
<1>2. CASE Mqtt!HandsOver
  BY <1>2 DEF Mqtt!HandsOver
<1>3. CASE \E c \in Mqtt!Callers : Mqtt!Offers(c)
  <2>0. PICK c \in Mqtt!Callers : Mqtt!Offers(c)
    BY <1>3
  <2>1. PICK d \in Mqtt!Documents :
          /\ todo' = [todo EXCEPT ![c] = @ \ {d}] /\ UNCHANGED announced
          /\ \/ accepted' = accepted
             \/ \E mark \in {None, [document |-> d, asleep |-> link = "asleep"]} :
                  accepted' = [accepted EXCEPT ![c] = mark]
    BY <2>0 DEF Mqtt!Offers, Mqtt!Marks
  <2>2. d \in Mqtt!Documents
    BY <2>1
  <2>3. [document |-> d, asleep |-> link = "asleep"] \in [document : Mqtt!Documents, asleep : BOOLEAN]
    BY <2>2
  <2>4. todo' \in [Mqtt!Callers -> SUBSET Mqtt!Documents]
    BY <2>1
  <2>5. accepted' \in [Mqtt!Callers -> {None} \cup [document : Mqtt!Documents, asleep : BOOLEAN]]
    BY <2>1, <2>3
  <2> QED
    BY <2>1, <2>4, <2>5
<1>4. CASE \E c \in Mqtt!Callers : Mqtt!Inserts(c)
  BY <1>4 DEF Mqtt!Inserts
<1>5. CASE Mqtt!Polls
  BY <1>5 DEF Mqtt!Polls, Mqtt!Publish, Mqtt!HasRoom
<1>6. CASE Mqtt!Connects
  BY <1>6 DEF Mqtt!Connects, Mqtt!Reset
<1>7. CASE Mqtt!Sends
  BY <1>7 DEF Mqtt!Sends, Mqtt!AtLeastOnce
<1>8. CASE Mqtt!Hears
  BY <1>8 DEF Mqtt!Hears
<1>9. CASE Mqtt!Fails
  BY <1>9 DEF Mqtt!Fails
<1>10. CASE Mqtt!Breaks
  BY <1>10 DEF Mqtt!Breaks
<1>11. CASE Mqtt!Closes
  BY <1>11 DEF Mqtt!Closes
<1>12. CASE Mqtt!Drained
  BY <1>12 DEF Mqtt!Drained, Mqtt!Deadline
<1>13. CASE Mqtt!Stops
  BY <1>13 DEF Mqtt!Stops, Mqtt!StopsIn
<1>14. CASE UNCHANGED mqttVars
  BY <1>14 DEF mqttVars
<1> QED
  BY <1>1, <1>2, <1>3, <1>4, <1>5, <1>6, <1>7, <1>8, <1>9, <1>10, <1>11, <1>12, <1>13, <1>14 DEF Mqtt!Next

\* Every step keeps the types of the connection and the broker.
LEMMA BrokerTyped ==
  ASSUME MqttInv, [Mqtt!Next]_mqttVars PROVE Mqtt!BrokerType'
<1> USE MqttAssumption, MessageFacts DEF MqttInv, Mqtt!pipe, Mqtt!calls, Mqtt!TypeOK, Mqtt!PipeType, Mqtt!BrokerType, Mqtt!Values
<1>1. CASE Mqtt!Receives
  BY <1>1 DEF Mqtt!Receives
<1>2. CASE Mqtt!HandsOver
  BY <1>2 DEF Mqtt!HandsOver
<1>3. CASE \E c \in Mqtt!Callers : Mqtt!Offers(c)
  BY <1>3 DEF Mqtt!Offers, Mqtt!Publish, Mqtt!HasRoom, Mqtt!Marks
<1>4. CASE \E c \in Mqtt!Callers : Mqtt!Inserts(c)
  BY <1>4 DEF Mqtt!Inserts
<1>5. CASE Mqtt!Polls
  BY <1>5 DEF Mqtt!Polls, Mqtt!Publish, Mqtt!HasRoom
<1>6. CASE Mqtt!Connects
  BY <1>6 DEF Mqtt!Connects, Mqtt!Reset
<1>7. CASE Mqtt!Sends
  <2> DEFINE m == Head(replay \o requests)
  <2>1. /\ m \in Mqtt!Messages
        /\ retained' = IF link = "up" /\ Mqtt!IsDocument(m) THEN retained \cup {m.document} ELSE retained
        /\ valueShown' = IF link = "up" /\ ~Mqtt!IsDocument(m) THEN m.value ELSE valueShown
        /\ UNCHANGED <<link, value, phase, aborted, deliveryFailed, breaks>>
    BY <1>7, NextSent DEF Mqtt!Sends
  <2> HIDE DEF m
  <2>2. retained' \subseteq Mqtt!Documents /\ valueShown' \in Mqtt!Values \cup {0}
    BY <2>1
  <2> QED
    BY <2>1, <2>2
<1>8. CASE Mqtt!Hears
  BY <1>8 DEF Mqtt!Hears
<1>9. CASE Mqtt!Fails
  BY <1>9 DEF Mqtt!Fails
<1>10. CASE Mqtt!Breaks
  BY <1>10 DEF Mqtt!Breaks
<1>11. CASE Mqtt!Closes
  BY <1>11 DEF Mqtt!Closes
<1>12. CASE Mqtt!Drained
  BY <1>12 DEF Mqtt!Drained, Mqtt!Deadline
<1>13. CASE Mqtt!Stops
  BY <1>13 DEF Mqtt!Stops, Mqtt!StopsIn
<1>14. CASE UNCHANGED mqttVars
  BY <1>14 DEF mqttVars
<1> QED
  BY <1>1, <1>2, <1>3, <1>4, <1>5, <1>6, <1>7, <1>8, <1>9, <1>10, <1>11, <1>12, <1>13, <1>14 DEF Mqtt!Next

\* Every step keeps values out of what is sent again.
LEMMA MqttAgain ==
  ASSUME MqttInv, [Mqtt!Next]_mqttVars PROVE Again'
<1> USE MqttAssumption, MessageFacts DEF MqttInv, Mqtt!pipe, Mqtt!calls, Mqtt!TypeOK, Mqtt!PipeType, Again
<1>1. CASE Mqtt!Receives
  BY <1>1 DEF Mqtt!Receives
<1>2. CASE Mqtt!HandsOver
  BY <1>2 DEF Mqtt!HandsOver
<1>3. CASE \E c \in Mqtt!Callers : Mqtt!Offers(c)
  BY <1>3 DEF Mqtt!Offers, Mqtt!Publish, Mqtt!HasRoom, Mqtt!Marks
<1>4. CASE \E c \in Mqtt!Callers : Mqtt!Inserts(c)
  BY <1>4 DEF Mqtt!Inserts
<1>5. CASE Mqtt!Polls
  BY <1>5 DEF Mqtt!Polls, Mqtt!Publish, Mqtt!HasRoom
<1>6. CASE Mqtt!Connects
  BY <1>6 DEF Mqtt!Connects, Mqtt!Reset
<1>7. CASE Mqtt!Sends
  <2>1. Head(replay \o requests) \in Mqtt!Messages /\ (replay = <<>> => requests # <<>>)
    BY <1>7, NextSent DEF Mqtt!Sends
  <2>2. \/ unacked' = unacked
        \/ /\ unacked' = Append(unacked, Head(replay \o requests))
           /\ Head(replay \o requests) \in [document : Mqtt!Documents]
    BY <1>7, <2>1, MessageFacts DEF Mqtt!Sends, Mqtt!AtLeastOnce
  <2>3. replay' = replay \/ (replay # <<>> /\ replay' = Tail(replay))
    BY <1>7 DEF Mqtt!Sends
  <2>4. unacked' \in Seq([document : Mqtt!Documents])
    <3>1. CASE unacked' = unacked
      BY <3>1
    <3>2. CASE unacked' # unacked
      <4>1. /\ unacked' = Append(unacked, Head(replay \o requests))
            /\ Head(replay \o requests) \in [document : Mqtt!Documents]
            /\ unacked \in Seq([document : Mqtt!Documents])
        BY <2>2, <3>2
      <4> QED
        BY <4>1, AppendProperties
    <3> QED
      BY <3>1, <3>2
  <2>5. replay' \in Seq([document : Mqtt!Documents])
    <3>1. Tail(replay) \in Seq([document : Mqtt!Documents]) \/ replay = <<>>
      OBVIOUS
    <3> QED
      BY <2>3, <3>1
  <2> QED
    BY <2>4, <2>5
<1>8. CASE Mqtt!Hears
  BY <1>8 DEF Mqtt!Hears
<1>9. CASE Mqtt!Fails
  BY <1>9 DEF Mqtt!Fails
<1>10. CASE Mqtt!Breaks
  BY <1>10 DEF Mqtt!Breaks
<1>11. CASE Mqtt!Closes
  BY <1>11 DEF Mqtt!Closes
<1>12. CASE Mqtt!Drained
  BY <1>12 DEF Mqtt!Drained, Mqtt!Deadline
<1>13. CASE Mqtt!Stops
  BY <1>13 DEF Mqtt!Stops, Mqtt!StopsIn
<1>14. CASE UNCHANGED mqttVars
  BY <1>14 DEF mqttVars
<1> QED
  BY <1>1, <1>2, <1>3, <1>4, <1>5, <1>6, <1>7, <1>8, <1>9, <1>10, <1>11, <1>12, <1>13, <1>14 DEF Mqtt!Next

\* Every step keeps the order of the end.
LEMMA MqttDrains ==
  ASSUME MqttInv, [Mqtt!Next]_mqttVars PROVE Drains'
<1> USE MqttAssumption, MessageFacts DEF MqttInv, Mqtt!pipe, Mqtt!calls, Mqtt!TypeOK, Mqtt!BrokerType, Drains
<1>1. CASE Mqtt!Receives
  BY <1>1 DEF Mqtt!Receives
<1>2. CASE Mqtt!HandsOver
  BY <1>2 DEF Mqtt!HandsOver
<1>3. CASE \E c \in Mqtt!Callers : Mqtt!Offers(c)
  BY <1>3 DEF Mqtt!Offers, Mqtt!Publish, Mqtt!HasRoom, Mqtt!Marks
<1>4. CASE \E c \in Mqtt!Callers : Mqtt!Inserts(c)
  BY <1>4 DEF Mqtt!Inserts
<1>5. CASE Mqtt!Polls
  BY <1>5 DEF Mqtt!Polls, Mqtt!Publish, Mqtt!HasRoom
<1>6. CASE Mqtt!Connects
  BY <1>6 DEF Mqtt!Connects, Mqtt!Reset
<1>7. CASE Mqtt!Sends
  BY <1>7 DEF Mqtt!Sends, Mqtt!AtLeastOnce
<1>8. CASE Mqtt!Hears
  BY <1>8 DEF Mqtt!Hears
<1>9. CASE Mqtt!Fails
  BY <1>9 DEF Mqtt!Fails
<1>10. CASE Mqtt!Breaks
  BY <1>10 DEF Mqtt!Breaks
<1>11. CASE Mqtt!Closes
  BY <1>11 DEF Mqtt!Closes
<1>12. CASE Mqtt!Drained
  BY <1>12 DEF Mqtt!Drained, Mqtt!Deadline
<1>13. CASE Mqtt!Stops
  BY <1>13 DEF Mqtt!Stops, Mqtt!StopsIn
<1>14. CASE UNCHANGED mqttVars
  BY <1>14 DEF mqttVars
<1> QED
  BY <1>1, <1>2, <1>3, <1>4, <1>5, <1>6, <1>7, <1>8, <1>9, <1>10, <1>11, <1>12, <1>13, <1>14 DEF Mqtt!Next

\* Sequences of messages put one after the other do not depend on the brackets.
LEMMA MessagesAssociate ==
  ASSUME NEW s \in Seq(Mqtt!Messages), NEW t \in Seq(Mqtt!Messages), NEW u \in Seq(Mqtt!Messages)
  PROVE  (s \o t) \o u = s \o (t \o u)
BY ConcatAssociative

\* What moves from the queue towards the connection keeps its place on the line.
LEMMA LineKept ==
  ASSUME MqttInv, Mqtt!Receives \/ Mqtt!HandsOver
  PROVE  Mqtt!Line' = Mqtt!Line
<1>1. /\ requests \in Seq(Mqtt!Messages) /\ queue \in Seq(Mqtt!Messages)
      /\ holding \in Mqtt!Messages \cup {None} /\ None \notin Mqtt!Messages
  BY MqttAssumption DEF MqttInv, Mqtt!TypeOK, Mqtt!PipeType
<1>2. CASE Mqtt!Receives
  <2>1. /\ holding = None /\ queue # <<>> /\ UNCHANGED requests
        /\ holding' = Head(queue) /\ queue' = Tail(queue)
    BY <1>2 DEF Mqtt!Receives
  <2>2. Head(queue) \in Mqtt!Messages /\ Tail(queue) \in Seq(Mqtt!Messages)
    BY <1>1, <2>1, HeadTailProperties
  <2>3. Mqtt!Held = <<>> /\ Mqtt!Held' = <<Head(queue)>>
    BY <1>1, <2>1, <2>2 DEF Mqtt!Held
  <2>4. (requests \o <<Head(queue)>>) \o Tail(queue) = requests \o (<<Head(queue)>> \o Tail(queue))
    BY <1>1, <2>2, ConcatAssociative
  <2>5. <<Head(queue)>> \o Tail(queue) = queue
    BY <1>1, <2>1
  <2>6. (requests \o <<>>) \o queue = requests \o queue
    BY <1>1, ConcatEmptySeq
  <2> QED
    BY <2>1, <2>3, <2>4, <2>5, <2>6 DEF Mqtt!Line
<1>3. CASE Mqtt!HandsOver
  <2>1. holding \in Mqtt!Messages /\ holding' = None /\ UNCHANGED queue
    BY <1>1, <1>3 DEF Mqtt!HandsOver
  <2>2. link # "gone"
    BY <1>3 DEF MqttInv, Drains, Mqtt!HandsOver
  <2>3. requests' = Append(requests, holding)
    BY <1>3, <2>2 DEF Mqtt!HandsOver
  <2>4. Mqtt!Held = <<holding>> /\ Mqtt!Held' = <<>>
    BY <1>1, <2>1 DEF Mqtt!Held
  <2>5. Append(requests, holding) = requests \o <<holding>> /\ Append(requests, holding) \in Seq(Mqtt!Messages)
    BY <1>1, <2>1, AppendIsConcat, AppendProperties
  <2>6. Append(requests, holding) \o <<>> = Append(requests, holding)
    BY <2>5, ConcatEmptySeq
  <2> QED
    BY <2>1, <2>3, <2>4, <2>5, <2>6 DEF Mqtt!Line
<1> QED
  BY <1>2, <1>3

\* What is queued goes to the end of the line.
LEMMA LineGrows ==
  ASSUME Mqtt!TypeOK, NEW m \in Mqtt!Messages, queue' = Append(queue, m), UNCHANGED <<requests, holding>>
  PROVE  Mqtt!Line' = Append(Mqtt!Line, m)
<1>1. /\ queue \in Seq(Mqtt!Messages) /\ Mqtt!Line \in Seq(Mqtt!Messages)
      /\ requests \o Mqtt!Held \in Seq(Mqtt!Messages)
  BY LineTyped, ConcatProperties DEF Mqtt!TypeOK, Mqtt!PipeType
<1>2. Mqtt!Held' = Mqtt!Held
  BY DEF Mqtt!Held
<1>3. Mqtt!Line' = (requests \o Mqtt!Held) \o Append(queue, m)
  BY <1>2 DEF Mqtt!Line
<1>4. Append(queue, m) = queue \o <<m>> /\ Append(Mqtt!Line, m) = Mqtt!Line \o <<m>> /\ <<m>> \in Seq(Mqtt!Messages)
  BY <1>1, AppendIsConcat
<1>5. ((requests \o Mqtt!Held) \o queue) \o <<m>> = (requests \o Mqtt!Held) \o (queue \o <<m>>)
  <2> DEFINE front == requests \o Mqtt!Held
             last == <<m>>
  <2>1. front \in Seq(Mqtt!Messages) /\ last \in Seq(Mqtt!Messages) /\ queue \in Seq(Mqtt!Messages)
    BY <1>1, <1>4
  <2> HIDE DEF front, last
  <2>2. (front \o queue) \o last = front \o (queue \o last)
    BY <2>1, MessagesAssociate
  <2> QED
    BY <2>2 DEF front, last
<1> QED
  BY <1>3, <1>4, <1>5 DEF Mqtt!Line

\* The head of a sequence followed by another is its own.
LEMMA HeadOfConcat ==
  ASSUME NEW S, NEW s \in Seq(S), NEW t \in Seq(S), s # <<>>
  PROVE  s \o t # <<>> /\ Head(s \o t) = Head(s) /\ Tail(s \o t) = Tail(s) \o t
<1>1. s \o t \in Seq(S) /\ Tail(s) \in Seq(S) /\ Len(s) \in Nat \ {0} /\ Len(t) \in Nat
  BY ConcatProperties, HeadTailProperties, EmptySeq
<1>2. Len(s \o t) = Len(s) + Len(t) /\ Len(Tail(s)) = Len(s) - 1
  BY <1>1
<1>3. s \o t # <<>> /\ Head(s \o t) = Head(s)
  BY <1>1, <1>2
<1>4. Tail(s \o t) \in Seq(S) /\ Tail(s) \o t \in Seq(S) /\ Len(Tail(s \o t)) = Len(Tail(s) \o t)
  BY <1>1, <1>2, <1>3, HeadTailProperties, ConcatProperties
<1>5. \A i \in 1 .. Len(Tail(s \o t)) : Tail(s \o t)[i] = (Tail(s) \o t)[i]
  BY <1>1, <1>2, <1>3
<1> QED
  BY <1>3, <1>4, <1>5, SeqEqual

\* What is sent of the requests was at the head of the line.
LEMMA LineShortens ==
  ASSUME Mqtt!TypeOK, requests # <<>>, requests' = Tail(requests), UNCHANGED <<holding, queue>>
  PROVE  Mqtt!Line # <<>> /\ Head(Mqtt!Line) = Head(requests) /\ Mqtt!Line' = Tail(Mqtt!Line)
<1>1. /\ queue \in Seq(Mqtt!Messages) /\ requests \in Seq(Mqtt!Messages) /\ Mqtt!Held \in Seq(Mqtt!Messages)
      /\ requests \o Mqtt!Held \in Seq(Mqtt!Messages)
  BY LineTyped, ConcatProperties DEF Mqtt!TypeOK, Mqtt!PipeType
<1>2. /\ requests \o Mqtt!Held # <<>> /\ Head(requests \o Mqtt!Held) = Head(requests)
      /\ Tail(requests \o Mqtt!Held) = Tail(requests) \o Mqtt!Held
  BY <1>1, HeadOfConcat
<1>3. /\ Mqtt!Line # <<>> /\ Head(Mqtt!Line) = Head(requests)
      /\ Tail(Mqtt!Line) = (Tail(requests) \o Mqtt!Held) \o queue
  BY <1>1, <1>2, HeadOfConcat DEF Mqtt!Line
<1>4. Mqtt!Held' = Mqtt!Held
  BY DEF Mqtt!Held
<1> QED
  BY <1>3, <1>4 DEF Mqtt!Line

\* The bounds between which the line's values rise.
LEMMA ValueFacts ==
  ASSUME Mqtt!TypeOK
  PROVE  valueShown \in Nat /\ value \in Nat
BY MqttAssumption DEF Mqtt!TypeOK, Mqtt!BrokerType, Mqtt!Values

\* A line that rises to a value rises to the next.
LEMMA RisingOn ==
  ASSUME NEW s \in Seq(Mqtt!Messages), NEW low \in Nat, NEW high \in Nat, Rising(s, low, high)
  PROVE  Rising(s, low, high + 1)
<1>1. \A i \in DOMAIN s : ~Mqtt!IsDocument(s[i]) => s[i].value \in Int
  BY ElementOfSeq, LenProperties, MessageFacts DEF Mqtt!Values
<1> QED
  BY <1>1 DEF Rising

\* Every step keeps the order of the values.
LEMMA MqttInOrder ==
  ASSUME MqttInv, [Mqtt!Next]_mqttVars PROVE InOrder'
<1> USE DEF MqttInv
<1>1. /\ valueShown \in Nat /\ value \in Nat /\ valueShown <= value
      /\ Mqtt!Line \in Seq(Mqtt!Messages) /\ Rising(Mqtt!Line, valueShown, value)
  BY ValueFacts, LineTyped DEF InOrder
<1>2. CASE Mqtt!Receives \/ Mqtt!HandsOver
  <2>1. UNCHANGED <<valueShown, value>>
    BY <1>2 DEF Mqtt!Receives, Mqtt!HandsOver
  <2> QED
    BY <1>1, <1>2, <2>1, LineKept DEF InOrder
<1>3. CASE \E c \in Mqtt!Callers : Mqtt!Offers(c)
  <2>1. PICK d \in Mqtt!Documents : queue' = queue \/ queue' = Append(queue, [document |-> d])
    BY <1>3 DEF Mqtt!Offers, Mqtt!Publish, Mqtt!TypeOK, Mqtt!CallsType
  <2>2. UNCHANGED <<valueShown, value, requests, holding>>
    BY <1>3 DEF Mqtt!Offers
  <2>3. CASE queue' = queue
    BY <1>1, <2>2, <2>3 DEF InOrder, Mqtt!Line, Mqtt!Held
  <2>4. CASE queue' = Append(queue, [document |-> d])
    <3>1. [document |-> d] \in Mqtt!Messages /\ Mqtt!IsDocument([document |-> d])
      BY MadeMessages
    <3>2. Mqtt!Line' = Append(Mqtt!Line, [document |-> d])
      BY <2>2, <2>4, <3>1, LineGrows
    <3>3. Rising(Append(Mqtt!Line, [document |-> d]), valueShown, value)
      BY <1>1, <3>1, RisingAppend
    <3> QED
      BY <1>1, <2>2, <3>2, <3>3 DEF InOrder
  <2> QED
    BY <2>1, <2>3, <2>4
<1>4. CASE Mqtt!Polls
  <2>1. UNCHANGED <<valueShown, requests, holding>>
    BY <1>4 DEF Mqtt!Polls
  <2>2. CASE value < MaxValues
    <3>1. /\ value' = value + 1
          /\ queue' = queue \/ queue' = Append(queue, [value |-> value + 1])
      BY <1>4, <2>2 DEF Mqtt!Polls, Mqtt!Publish
    <3>2. CASE queue' = queue
      <4>1. Mqtt!Line' = Mqtt!Line
        BY <2>1, <3>2 DEF Mqtt!Line, Mqtt!Held
      <4>2. Rising(Mqtt!Line, valueShown, value + 1)
        BY <1>1, RisingOn
      <4> QED
        BY <1>1, <2>1, <3>1, <4>1, <4>2 DEF InOrder
    <3>3. CASE queue' = Append(queue, [value |-> value + 1])
      <4>1. value + 1 \in Mqtt!Values
        BY <1>1, <2>2, MqttAssumption DEF Mqtt!Values
      <4>2. /\ [value |-> value + 1] \in Mqtt!Messages /\ ~Mqtt!IsDocument([value |-> value + 1])
            /\ [value |-> value + 1].value = value + 1
        BY <4>1, MadeMessages
      <4>3. Mqtt!Line' = Append(Mqtt!Line, [value |-> value + 1])
        BY <2>1, <3>3, <4>2, LineGrows
      <4>4. Rising(Append(Mqtt!Line, [value |-> value + 1]), valueShown, value + 1)
        BY <1>1, <4>2, RisingAppend
      <4> QED
        BY <1>1, <2>1, <3>1, <4>3, <4>4 DEF InOrder
    <3> QED
      BY <3>1, <3>2, <3>3
  <2>3. CASE ~(value < MaxValues)
    <3>1. UNCHANGED <<value, queue>>
      BY <1>4, <2>3 DEF Mqtt!Polls
    <3> QED
      BY <1>1, <2>1, <3>1 DEF InOrder, Mqtt!Line, Mqtt!Held
  <2> QED
    BY <2>2, <2>3
<1>5. CASE Mqtt!Sends
  <2> DEFINE m == Head(replay \o requests)
  <2>1. /\ replay \o requests # <<>> /\ UNCHANGED <<value, holding, queue>>
        /\ valueShown' = IF link = "up" /\ ~Mqtt!IsDocument(m) THEN m.value ELSE valueShown
    BY <1>5 DEF Mqtt!Sends
  <2>2. CASE replay # <<>>
    <3>1. m = Head(replay) /\ UNCHANGED requests
      BY <1>5, <2>1, <2>2, NextSent DEF Mqtt!Sends
    <3>2. m \in [document : Mqtt!Documents]
      BY <2>2, <3>1, HeadTailProperties DEF Again
    <3>3. Mqtt!IsDocument(m)
      BY <3>2 DEF Mqtt!IsDocument
    <3> QED
      BY <1>1, <2>1, <3>1, <3>3 DEF InOrder, Mqtt!Line, Mqtt!Held
  <2>3. CASE replay = <<>>
    <3>1. requests # <<>> /\ m = Head(requests) /\ requests' = Tail(requests)
      BY <1>5, <2>1, <2>3, NextSent DEF Mqtt!Sends
    <3>2. Mqtt!Line # <<>> /\ Head(Mqtt!Line) = m /\ Mqtt!Line' = Tail(Mqtt!Line)
      BY <2>1, <3>1, LineShortens
    <3>3. /\ Rising(Tail(Mqtt!Line), valueShown, value)
          /\ ~Mqtt!IsDocument(m) => Rising(Tail(Mqtt!Line), m.value, value)
      BY <1>1, <3>2, RisingTail
    <3>4. ~Mqtt!IsDocument(m) => m.value <= value
      <4>1. Len(Mqtt!Line) \in Nat \ {0} /\ DOMAIN Mqtt!Line = 1 .. Len(Mqtt!Line)
        BY <1>1, <3>2, EmptySeq, LenProperties
      <4>2. m = Mqtt!Line[1]
        <5>1. Head(Mqtt!Line) = Mqtt!Line[1]
          BY <1>1, <4>1
        <5> QED
          BY <3>2, <5>1
      <4>3. ~Mqtt!IsDocument(Mqtt!Line[1]) => Mqtt!Line[1].value <= value
        BY <1>1, <4>1 DEF Rising
      <4> QED
        BY <4>2, <4>3
    <3>5. valueShown' <= value /\ Rising(Tail(Mqtt!Line), valueShown', value)
      BY <1>1, <2>1, <3>3, <3>4
    <3> QED
      BY <2>1, <3>2, <3>5 DEF InOrder
  <2> QED
    BY <2>2, <2>3
<1>6. CASE \/ \E c \in Mqtt!Callers : Mqtt!Inserts(c)
           \/ Mqtt!Connects \/ Mqtt!Hears \/ Mqtt!Fails \/ Mqtt!Breaks
           \/ Mqtt!Closes \/ Mqtt!Drained \/ Mqtt!Stops
           \/ UNCHANGED mqttVars
  <2>1. UNCHANGED <<valueShown, value, requests, holding, queue>>
    BY <1>6 DEF Mqtt!Inserts, Mqtt!Connects, Mqtt!Hears, Mqtt!Fails, Mqtt!Breaks, Mqtt!Closes, Mqtt!Drained,
                Mqtt!Stops, Mqtt!pipe, mqttVars
  <2> QED
    BY <1>1, <2>1 DEF InOrder, Mqtt!Line, Mqtt!Held
<1> QED
  BY <1>2, <1>3, <1>4, <1>5, <1>6 DEF Mqtt!Next

\* What is on its way stays so while something is put behind it, and what goes onto
\* the socket of a connection that is up is stored.
LEMMA StaysOnItsWay ==
  ASSUME MqttInv
  PROVE  /\ Mqtt!Receives \/ Mqtt!HandsOver => OnItsWay' = OnItsWay
         /\ \A m \in Mqtt!Messages :
              queue' = Append(queue, m) /\ UNCHANGED <<requests, holding, replay>> =>
                OnItsWay \subseteq OnItsWay' /\ (Mqtt!IsDocument(m) => m.document \in OnItsWay')
         /\ UNCHANGED <<queue, requests, holding, replay>> => OnItsWay' = OnItsWay
         /\ Mqtt!Connects => OnItsWay \subseteq OnItsWay'
         /\ Mqtt!Sends /\ link = "up" => retained \cup OnItsWay \subseteq retained' \cup OnItsWay'
<1> USE DEF MqttInv
<1>1. Mqtt!Line \in Seq(Mqtt!Messages) /\ replay \in Seq(Mqtt!Messages) /\ unacked \in Seq(Mqtt!Messages)
  BY LineTyped DEF Mqtt!TypeOK, Mqtt!PipeType
<1>2. OnItsWay' = Mqtt!DocumentsOf(replay') \cup Mqtt!DocumentsOf(Mqtt!Line')
  BY DEF OnItsWay, Mqtt!DocumentsOf
<1>3. ASSUME Mqtt!Receives \/ Mqtt!HandsOver PROVE OnItsWay' = OnItsWay
  <2>1. UNCHANGED replay
    BY <1>3 DEF Mqtt!Receives, Mqtt!HandsOver
  <2> QED
    BY <1>2, <1>3, <2>1, LineKept DEF OnItsWay
<1>4. ASSUME NEW m \in Mqtt!Messages, queue' = Append(queue, m), UNCHANGED <<requests, holding, replay>>
      PROVE  OnItsWay \subseteq OnItsWay' /\ (Mqtt!IsDocument(m) => m.document \in OnItsWay')
  <2>1. Mqtt!Line' = Append(Mqtt!Line, m)
    BY <1>4, LineGrows
  <2>2. /\ Mqtt!DocumentsOf(Mqtt!Line) \subseteq Mqtt!DocumentsOf(Append(Mqtt!Line, m))
        /\ Mqtt!IsDocument(m) => m.document \in Mqtt!DocumentsOf(Append(Mqtt!Line, m))
    BY <1>1, DocumentsAppend
  <2> QED
    BY <1>2, <1>4, <2>1, <2>2 DEF OnItsWay
<1>5. ASSUME UNCHANGED <<queue, requests, holding, replay>> PROVE OnItsWay' = OnItsWay
  <2>1. Mqtt!Line' = Mqtt!Line
    BY <1>5 DEF Mqtt!Line, Mqtt!Held
  <2> QED
    BY <1>2, <1>5, <2>1 DEF OnItsWay
<1>6. ASSUME Mqtt!Connects PROVE OnItsWay \subseteq OnItsWay'
  <2>1. replay' = replay \o unacked /\ UNCHANGED <<queue, requests, holding>>
    BY <1>6 DEF Mqtt!Connects
  <2>2. Mqtt!Line' = Mqtt!Line
    BY <2>1 DEF Mqtt!Line, Mqtt!Held
  <2>3. Mqtt!DocumentsOf(replay \o unacked) = Mqtt!DocumentsOf(replay) \cup Mqtt!DocumentsOf(unacked)
    BY <1>1, DocumentsConcat
  <2> QED
    BY <1>2, <2>1, <2>2, <2>3 DEF OnItsWay
<1>7. ASSUME Mqtt!Sends, link = "up" PROVE retained \cup OnItsWay \subseteq retained' \cup OnItsWay'
  <2> DEFINE m == Head(replay \o requests)
  <2>1. /\ replay \o requests # <<>> /\ UNCHANGED <<holding, queue>>
        /\ retained' = IF Mqtt!IsDocument(m) THEN retained \cup {m.document} ELSE retained
    BY <1>7 DEF Mqtt!Sends
  <2>2. CASE replay # <<>>
    <3>1. m = Head(replay) /\ UNCHANGED requests /\ replay' = Tail(replay)
      BY <1>7, <2>1, <2>2, NextSent DEF Mqtt!Sends
    <3>2. Mqtt!Line' = Mqtt!Line
      BY <2>1, <3>1 DEF Mqtt!Line, Mqtt!Held
    <3>3. ASSUME NEW d \in Mqtt!DocumentsOf(replay)
          PROVE  d \in Mqtt!DocumentsOf(Tail(replay)) \/ (Mqtt!IsDocument(Head(replay)) /\ Head(replay).document = d)
      BY <1>1, <2>2, <3>3, DocumentsTail
    <3> QED
      BY <1>2, <2>1, <3>1, <3>2, <3>3 DEF OnItsWay
  <2>3. CASE replay = <<>>
    <3>1. requests # <<>> /\ m = Head(requests) /\ requests' = Tail(requests) /\ UNCHANGED replay
      BY <1>7, <2>1, <2>3, NextSent DEF Mqtt!Sends
    <3>2. Mqtt!Line # <<>> /\ Head(Mqtt!Line) = m /\ Mqtt!Line' = Tail(Mqtt!Line)
      BY <2>1, <3>1, LineShortens
    <3>3. ASSUME NEW d \in Mqtt!DocumentsOf(Mqtt!Line)
          PROVE  d \in Mqtt!DocumentsOf(Tail(Mqtt!Line)) \/ (Mqtt!IsDocument(Head(Mqtt!Line)) /\ Head(Mqtt!Line).document = d)
      BY <1>1, <3>2, <3>3, DocumentsTail
    <3> QED
      BY <1>2, <2>1, <3>1, <3>2, <3>3 DEF OnItsWay
  <2> QED
    BY <2>2, <2>3
<1> QED
  BY <1>3, <1>4, <1>5, <1>6, <1>7

\* Every step keeps what was accepted stored or on its way.
LEMMA MqttPromised ==
  ASSUME MqttInv, [Mqtt!Next]_mqttVars PROVE Promised'
<1> USE DEF MqttInv
<1>1. CASE Mqtt!Receives \/ Mqtt!HandsOver
  <2>1. UNCHANGED <<link, announced, retained, accepted>>
    BY <1>1 DEF Mqtt!Receives, Mqtt!HandsOver, Mqtt!calls
  <2>2. OnItsWay' = OnItsWay
    BY <1>1, StaysOnItsWay
  <2> QED
    BY <2>1, <2>2 DEF Promised
<1>2. CASE \E c \in Mqtt!Callers : Mqtt!Offers(c)
  <2>1. PICK c \in Mqtt!Callers : Mqtt!Offers(c)
    BY <1>2
  <2>2. PICK d \in Mqtt!Documents :
          \/ UNCHANGED <<queue, accepted>>
          \/ Mqtt!Publish([document |-> d]) /\ Mqtt!Marks(c, d)
    BY <2>1 DEF Mqtt!Offers, Mqtt!TypeOK, Mqtt!CallsType
  <2>3. UNCHANGED <<link, announced, retained, requests, holding, replay>>
    BY <2>1 DEF Mqtt!Offers
  <2>4. CASE UNCHANGED <<queue, accepted>>
    <3>1. OnItsWay' = OnItsWay
      BY <2>3, <2>4, StaysOnItsWay
    <3> QED
      BY <2>3, <2>4, <3>1 DEF Promised
  <2>5. CASE ~Mqtt!HasRoom /\ Mqtt!Publish([document |-> d]) /\ Mqtt!Marks(c, d)
    <3>1. UNCHANGED queue /\ accepted' = [accepted EXCEPT ![c] = None]
      BY <2>5 DEF Mqtt!Publish, Mqtt!Marks
    <3>2. OnItsWay' = OnItsWay
      BY <2>3, <3>1, StaysOnItsWay
    <3>3. \A e \in Mqtt!Callers : accepted'[e] = IF e = c THEN None ELSE accepted[e]
      BY <3>1 DEF Mqtt!TypeOK, Mqtt!CallsType
    <3> QED
      BY <2>3, <3>2, <3>3 DEF Promised
  <2>6. CASE Mqtt!HasRoom /\ Mqtt!Publish([document |-> d]) /\ Mqtt!Marks(c, d)
    <3> DEFINE mark == [document |-> d, asleep |-> link = "asleep"]
    <3>1. queue' = Append(queue, [document |-> d]) /\ accepted' = [accepted EXCEPT ![c] = mark]
      BY <2>6 DEF Mqtt!Publish, Mqtt!Marks
    <3>2. OnItsWay \subseteq OnItsWay' /\ d \in OnItsWay'
      BY <2>3, <3>1, MadeMessages, StaysOnItsWay
    <3>3. \A e \in Mqtt!Callers : accepted'[e] = IF e = c THEN mark ELSE accepted[e]
      BY <3>1 DEF Mqtt!TypeOK, Mqtt!CallsType
    <3>4. mark.document = d /\ (mark.asleep <=> link = "asleep")
      OBVIOUS
    <3> HIDE DEF mark
    <3>5. ASSUME NEW e \in Mqtt!Callers, accepted'[e] # None
          PROVE  /\ link' \in {"up", "dead"} => ~accepted'[e].asleep
                 /\ link' = "up" => accepted'[e].document \in retained' \cup OnItsWay'
                 /\ link' = "asleep" /\ accepted'[e].asleep => accepted'[e].document \in OnItsWay'
      <4>1. CASE e = c
        BY <2>3, <3>2, <3>3, <3>4, <4>1
      <4>2. CASE e # c
        BY <2>3, <3>2, <3>3, <3>5, <4>2 DEF Promised
      <4> QED
        BY <4>1, <4>2
    <3>6. link' = "up" => \A a \in announced' : a \in retained' \cup OnItsWay'
      BY <2>3, <3>2 DEF Promised
    <3> QED
      BY <3>5, <3>6 DEF Promised
  <2> QED
    BY <2>2, <2>4, <2>5, <2>6
<1>3. CASE \E c \in Mqtt!Callers : Mqtt!Inserts(c)
  <2>1. PICK c \in Mqtt!Callers : Mqtt!Inserts(c)
    BY <1>3
  <2>2. /\ accepted[c] # None /\ announced' = announced \cup {accepted[c].document}
        /\ accepted' = [accepted EXCEPT ![c] = None]
        /\ UNCHANGED <<link, retained, queue, requests, holding, replay>>
    BY <2>1 DEF Mqtt!Inserts, Mqtt!pipe
  <2>3. OnItsWay' = OnItsWay
    BY <2>2, StaysOnItsWay
  <2>4. \A e \in Mqtt!Callers : accepted'[e] = IF e = c THEN None ELSE accepted[e]
    BY <2>2 DEF Mqtt!TypeOK, Mqtt!CallsType
  <2> QED
    BY <2>2, <2>3, <2>4 DEF Promised
<1>4. CASE Mqtt!Polls
  <2>1. UNCHANGED <<link, announced, retained, accepted, requests, holding, replay>>
    BY <1>4 DEF Mqtt!Polls
  <2>2. OnItsWay \subseteq OnItsWay'
    <3>1. CASE queue' = queue
      BY <2>1, <3>1, StaysOnItsWay
    <3>2. CASE queue' # queue
      <4>1. value < MaxValues /\ queue' = Append(queue, [value |-> value + 1])
        BY <1>4, <3>2 DEF Mqtt!Polls, Mqtt!Publish
      <4>2. value + 1 \in Mqtt!Values
        BY <4>1, ValueFacts, MqttAssumption DEF Mqtt!Values
      <4> QED
        BY <2>1, <4>1, <4>2, MadeMessages, StaysOnItsWay
    <3> QED
      BY <3>1, <3>2
  <2> QED
    BY <2>1, <2>2 DEF Promised
<1>5. CASE Mqtt!Connects
  <2>1. /\ link = "asleep" /\ link' = "up" /\ announced' = {} /\ UNCHANGED retained
        /\ accepted["connection"] = None /\ (accepted["loop"] # None => accepted["loop"].asleep)
        /\ accepted' = [c \in Mqtt!Callers |->
                          IF accepted[c] = None THEN None ELSE [accepted[c] EXCEPT !.asleep = FALSE]]
    BY <1>5 DEF Mqtt!Connects, Mqtt!Reset, Mqtt!Polling, Mqtt!Idle
  <2>2. OnItsWay \subseteq OnItsWay'
    BY <1>5, StaysOnItsWay
  <2>3. ASSUME NEW c \in Mqtt!Callers, accepted'[c] # None
        PROVE  ~accepted'[c].asleep /\ accepted'[c].document \in OnItsWay'
    <3>1. accepted[c] # None /\ accepted[c].asleep
      BY <2>1, <2>3 DEF Mqtt!Callers
    <3>2. accepted[c] \in [document : Mqtt!Documents, asleep : BOOLEAN]
      BY <3>1 DEF Mqtt!TypeOK, Mqtt!CallsType
    <3>3. accepted'[c] = [accepted[c] EXCEPT !.asleep = FALSE]
      BY <2>1, <3>1
    <3>4. accepted'[c].document = accepted[c].document /\ accepted'[c].asleep = FALSE
      BY <3>2, <3>3
    <3>5. accepted[c].document \in OnItsWay
      BY <2>1, <3>1 DEF Promised
    <3> QED
      BY <2>2, <3>4, <3>5
  <2> QED
    BY <2>1, <2>3 DEF Promised
<1>6. CASE Mqtt!Sends
  <2>1. link \in {"up", "dead"} /\ UNCHANGED <<link, announced, accepted>>
    BY <1>6 DEF Mqtt!Sends
  <2>2. link = "up" => retained \cup OnItsWay \subseteq retained' \cup OnItsWay'
    BY <1>6, StaysOnItsWay
  <2> QED
    BY <2>1, <2>2 DEF Promised
<1>7. CASE Mqtt!Hears
  <2>1. UNCHANGED <<link, announced, retained, accepted, queue, requests, holding, replay>>
    BY <1>7 DEF Mqtt!Hears
  <2>2. OnItsWay' = OnItsWay
    BY <2>1, StaysOnItsWay
  <2> QED
    BY <2>1, <2>2 DEF Promised
<1>8. CASE Mqtt!Fails
  BY <1>8 DEF Promised, Mqtt!Fails, Mqtt!calls
<1>9. CASE Mqtt!Breaks
  BY <1>9 DEF Promised, Mqtt!Breaks, Mqtt!calls
<1>10. CASE Mqtt!Closes \/ Mqtt!Drained \/ UNCHANGED mqttVars
  <2>1. UNCHANGED <<link, announced, retained, accepted, queue, requests, holding, replay>>
    BY <1>10 DEF Mqtt!Closes, Mqtt!Drained, Mqtt!pipe, Mqtt!calls, mqttVars
  <2>2. OnItsWay' = OnItsWay
    BY <2>1, StaysOnItsWay
  <2> QED
    BY <2>1, <2>2 DEF Promised
<1>11. CASE Mqtt!Stops
  BY <1>11 DEF Promised, Mqtt!Stops, Mqtt!calls
<1> QED
  BY <1>1, <1>2, <1>3, <1>4, <1>5, <1>6, <1>7, <1>8, <1>9, <1>10, <1>11 DEF Mqtt!Next

\* Nothing is queued or accepted when the publisher starts.
LEMMA MqttInitial == Mqtt!Init => MqttInv
<1> SUFFICES ASSUME Mqtt!Init PROVE MqttInv
  OBVIOUS
<1> USE MqttAssumption DEF Mqtt!Init
<1>1. Mqtt!PipeType
  BY DEF Mqtt!PipeType
<1>2. Mqtt!CallsType
  BY DEF Mqtt!CallsType
<1>3. Mqtt!BrokerType
  <2>1. aborted \in BOOLEAN /\ deliveryFailed \in BOOLEAN
    OBVIOUS
  <2>2. 0 \in 0 .. MaxBreaks
    OBVIOUS
  <2> QED
    BY <2>1, <2>2 DEF Mqtt!BrokerType
<1>4. Again /\ Drains /\ Promised
  BY DEF Again, Drains, Promised
<1>5. InOrder
  <2>1. Mqtt!Line = <<>>
    BY DEF Mqtt!Line, Mqtt!Held
  <2> QED
    BY <2>1 DEF InOrder, Rising
<1> QED
  BY <1>1, <1>2, <1>3, <1>4, <1>5 DEF MqttInv, Mqtt!TypeOK

\* The line rises, and what is sent again before it holds no value.
LEMMA PipelineInOrder == MqttInv => Mqtt!ShownInOrder
<1> SUFFICES ASSUME MqttInv PROVE Mqtt!ShownInOrder
  OBVIOUS
<1>1. /\ Mqtt!Line \in Seq(Mqtt!Messages) /\ replay \in Seq(Mqtt!Messages)
      /\ replay \in Seq([document : Mqtt!Documents])
      /\ Rising(Mqtt!Line, valueShown, value)
  BY LineTyped DEF MqttInv, InOrder, Again, Mqtt!TypeOK, Mqtt!PipeType
<1>2. /\ DOMAIN Mqtt!Pipeline = 1 .. Len(replay) + Len(Mqtt!Line)
      /\ Len(replay) \in Nat /\ Len(Mqtt!Line) \in Nat /\ DOMAIN Mqtt!Line = 1 .. Len(Mqtt!Line)
      /\ \A i \in 1 .. Len(replay) + Len(Mqtt!Line) :
           Mqtt!Pipeline[i] = IF i <= Len(replay) THEN replay[i] ELSE Mqtt!Line[i - Len(replay)]
  <2>1. Mqtt!Pipeline \in Seq(Mqtt!Messages) /\ Len(Mqtt!Pipeline) = Len(replay) + Len(Mqtt!Line)
    BY <1>1, ConcatProperties DEF Mqtt!Pipeline
  <2> QED
    BY <1>1, <2>1, ConcatProperties, LenProperties DEF Mqtt!Pipeline
<1>3. \A i \in 1 .. Len(replay) : Mqtt!IsDocument(replay[i])
  <2>1. \A i \in 1 .. Len(replay) : replay[i] \in [document : Mqtt!Documents]
    BY <1>1, ElementOfSeq
  <2> QED
    BY <2>1 DEF Mqtt!IsDocument
<1>4. SUFFICES ASSUME NEW i \in 1 .. Len(replay) + Len(Mqtt!Line), ~Mqtt!IsDocument(Mqtt!Pipeline[i])
               PROVE  /\ valueShown < Mqtt!Pipeline[i].value
                      /\ \A j \in 1 .. i - 1 : ~Mqtt!IsDocument(Mqtt!Pipeline[j]) =>
                           Mqtt!Pipeline[j].value < Mqtt!Pipeline[i].value
  BY <1>2 DEF Mqtt!ShownInOrder
<1>5. i - Len(replay) \in 1 .. Len(Mqtt!Line) /\ Mqtt!Pipeline[i] = Mqtt!Line[i - Len(replay)]
  BY <1>2, <1>3, <1>4
<1>6. ASSUME NEW j \in 1 .. i - 1, ~Mqtt!IsDocument(Mqtt!Pipeline[j])
      PROVE  /\ j - Len(replay) \in 1 .. (i - Len(replay)) - 1
             /\ Mqtt!Pipeline[j] = Mqtt!Line[j - Len(replay)]
  <2>1. j \in 1 .. Len(replay) + Len(Mqtt!Line)
    BY <1>2
  <2>2. ~(j <= Len(replay))
    BY <1>2, <1>3, <1>6, <2>1
  <2> QED
    BY <1>2, <2>1, <2>2
<1>7. /\ valueShown < Mqtt!Line[i - Len(replay)].value
      /\ \A j \in 1 .. (i - Len(replay)) - 1 : ~Mqtt!IsDocument(Mqtt!Line[j]) =>
           Mqtt!Line[j].value < Mqtt!Line[i - Len(replay)].value
  BY <1>1, <1>2, <1>4, <1>5 DEF Rising
<1> QED
  BY <1>5, <1>6, <1>7

-----------------------------------------------------------------------------
(* The car's state of charge.                                                 *)

\* The GETs a poll has had answered when it comes to one, twice each at most.
Before(c) ==
  CASE c = "metadata" -> 0 [] c = "list" -> 2 [] c = "metadata_again" -> 4 [] c = "list_again" -> 6
    [] OTHER -> 8

\* A GET is refused once, which costs one login; only a poll's first one needs none.
Counted ==
  /\ gets <= 10 /\ logins <= gets + 1 /\ logins <= 6 /\ terms <= 1
  /\ call # "idle" /\ leg = "login"       => gets <= Before(call) /\ logins = 0
  /\ call # "idle" /\ leg = "get"         => gets <= Before(call) /\ 2 * logins <= Before(call) + 2
  /\ call # "idle" /\ leg = "login_again" =>
       gets <= Before(call) + 1 /\ 2 * logins <= Before(call) + 2 /\ logins <= gets
  /\ call # "idle" /\ leg = "get_again"   => gets <= Before(call) + 1 /\ 2 * logins <= Before(call) + 4

\* What is listed is listed of a data request. The newest when the poll began is still
\* there, or only newer ones are; the one downloaded has data in it and is no older.
Chosen ==
  /\ call \notin {"idle", "metadata"} => identifier # None
  /\ newestAtStart <= snapshots
  /\ \A e \in delivered : e.n <= snapshots
  /\ \A e, f \in delivered : e.n = f.n => e = f
  /\ call # "idle" /\ newestAtStart # 0 =>
       \/ \E e \in delivered : e.content /\ e.n >= newestAtStart
       \/ \A e \in delivered : e.n > newestAtStart
  /\ call = "download" =>
       /\ newestAtStart <= latest /\ latest <= snapshots
       /\ \A e \in delivered : e.n = latest => e.content

CarInv == CarBattery!TypeOK /\ Counted /\ Chosen

LEMMA NewestOf ==
  ASSUME NEW T \in SUBSET (1 .. MaxSnapshots), T # {}
  PROVE  CarBattery!Max(T) \in T /\ \A t \in T : t <= CarBattery!Max(T)
<1> DEFINE Smaller == {ss \in Nat \X Nat : ss[1] < ss[2]}
           Left    == {n \in Nat : MaxSnapshots - n \in T}
<1>1. IsWellFoundedOn(Smaller, Nat)
  BY NatLessThanWellFounded DEF OpToRel
<1>2. \A m, n \in Nat : m < n => <<m, n>> \in Smaller
  OBVIOUS
<1>3. MaxSnapshots \in Nat /\ \A t \in T : t \in Nat /\ t <= MaxSnapshots
  BY CarBatteryAssumption
<1>4. Left \in SUBSET Nat /\ \A t \in T : MaxSnapshots - t \in Left
  BY <1>3
<1> HIDE DEF Smaller
<1>5. PICK n \in Left : \A m \in Left : ~(<<m, n>> \in Smaller)
  <2>1. Left # {}
    BY <1>4
  <2> HIDE DEF Left
  <2> QED
    BY <1>1, <1>4, <2>1, WFMin
<1>6. \A m \in Left : n <= m
  <2> HIDE DEF Left
  <2>1. \A m \in Left : ~(m < n)
    BY <1>2, <1>4, <1>5
  <2> QED
    BY <1>4, <2>1
<1>7. MaxSnapshots - n \in T /\ \A t \in T : t <= MaxSnapshots - n
  BY <1>3, <1>4, <1>6
<1> QED
  BY <1>7 DEF CarBattery!Max

LEMMA CarTypes ==
  ASSUME CarBattery!TypeOK
  PROVE  /\ gets \in Nat /\ logins \in Nat /\ terms \in Nat
         /\ latest \in 0 .. MaxSnapshots /\ socShown \in 0 .. MaxSnapshots
         /\ newestAtStart \in 0 .. MaxSnapshots /\ snapshots \in 0 .. MaxSnapshots
         /\ loggedIn \in BOOLEAN /\ session \in BOOLEAN
         /\ {MaxSnapshots, MaxReassigned, MaxExpired, MaxFailed} \subseteq Nat
         /\ \A e \in delivered : e.n \in 1 .. MaxSnapshots /\ e.content \in BOOLEAN
         /\ \A e \in delivered : e = [n |-> e.n, content |-> e.content]
<1>1. gets \in Nat /\ logins \in Nat /\ terms \in Nat /\ loggedIn \in BOOLEAN /\ session \in BOOLEAN
  BY DEF CarBattery!TypeOK
<1>2. /\ latest \in 0 .. MaxSnapshots /\ socShown \in 0 .. MaxSnapshots
      /\ newestAtStart \in 0 .. MaxSnapshots /\ snapshots \in 0 .. MaxSnapshots
  BY DEF CarBattery!TypeOK
<1>3. \A e \in delivered : e \in CarBattery!Snapshots
  BY DEF CarBattery!TypeOK
<1> QED
  BY <1>1, <1>2, <1>3, CarBatteryAssumption DEF CarBattery!Snapshots

LEMMA CarCounts ==
  ASSUME CarBattery!TypeOK
  PROVE  /\ gets \in Nat /\ logins \in Nat /\ terms \in Nat
         /\ latest \in Nat /\ newestAtStart \in Nat /\ snapshots \in Nat
         /\ Before(call) \in 0 .. 8
<1>1. latest \in Nat /\ newestAtStart \in Nat /\ snapshots \in Nat
  BY CarTypes
<1>2. Before(call) \in 0 .. 8
  BY DEF Before
<1> QED
  BY <1>1, <1>2, CarTypes

LEMMA Befores ==
  /\ Before("metadata") = 0 /\ Before("list") = 2 /\ Before("metadata_again") = 4
  /\ Before("list_again") = 6 /\ Before("download") = 8
BY DEF Before

LEMMA UsableFacts ==
  ASSUME CarBattery!TypeOK, NEW T, T = {e.n : e \in {f \in delivered : f.content}}
  PROVE  /\ T \in SUBSET (1 .. MaxSnapshots)
         /\ CarBattery!Newest(T) \in 0 .. MaxSnapshots
         /\ CarBattery!Newest(T) # 0 => \E e \in delivered : e.content /\ e.n = CarBattery!Newest(T)
         /\ T # {} => /\ CarBattery!Newest(T) = CarBattery!Max(T)
                      /\ CarBattery!Max(T) \in 1 .. MaxSnapshots
                      /\ \E e \in delivered : e.content /\ e.n = CarBattery!Max(T)
                      /\ \A e \in delivered : e.content => e.n <= CarBattery!Max(T)
<1>1. T \in SUBSET (1 .. MaxSnapshots)
  BY CarTypes
<1>2. CASE T = {}
  BY <1>1, <1>2, CarBatteryAssumption DEF CarBattery!Newest
<1>3. CASE T # {}
  <2>1. CarBattery!Newest(T) = CarBattery!Max(T)
    BY <1>3 DEF CarBattery!Newest
  <2>2. CarBattery!Max(T) \in T /\ \A t \in T : t <= CarBattery!Max(T)
    BY <1>1, <1>3, NewestOf
  <2>3. CarBattery!Max(T) \in 1 .. MaxSnapshots
    BY <1>1, <2>2
  <2>4. \E e \in delivered : e.content /\ e.n = CarBattery!Max(T)
    BY <2>2
  <2>5. \A e \in delivered : e.content => e.n <= CarBattery!Max(T)
    BY <2>2
  <2>6. CarBattery!Newest(T) \in 0 .. MaxSnapshots
    BY <2>1, <2>3, CarBatteryAssumption
  <2> QED
    BY <1>1, <2>1, <2>3, <2>4, <2>5, <2>6
<1> QED
  BY <1>1, <1>2, <1>3

LEMMA CarInitial == CarBattery!Init => CarInv
<1> SUFFICES ASSUME CarBattery!Init PROVE CarInv
  OBVIOUS
<1> USE CarBatteryAssumption DEF CarBattery!Init
<1>1. CarBattery!TypeOK
  <2>1. {loggedIn, session} \subseteq BOOLEAN /\ delivered \subseteq CarBattery!Snapshots
    OBVIOUS
  <2>2. /\ {latest, socShown, newestAtStart, snapshots} \subseteq 0 .. MaxSnapshots
        /\ {gets, logins} \subseteq Nat /\ terms \in Nat
        /\ reassigned \in 0 .. MaxReassigned /\ expired \in 0 .. MaxExpired /\ failed \in 0 .. MaxFailed
    OBVIOUS
  <2> QED
    BY <2>1, <2>2 DEF CarBattery!TypeOK, CarBattery!Calls, CarBattery!Legs
<1>2. Counted
  BY DEF Counted
<1>3. Chosen
  BY DEF Chosen
<1> QED
  BY <1>1, <1>2, <1>3 DEF CarInv

LEMMA PollsKeeps ==
  ASSUME CarInv, CarBattery!Polls
  PROVE  CarInv'
<1> DEFINE T == {e.n : e \in {f \in delivered : f.content}}
<1>1. /\ call = "idle"
      /\ CarBattery!Calling(IF identifier = None THEN "metadata" ELSE "list")
      /\ gets' = 0 /\ logins' = 0 /\ latest' = 0 /\ socResult' = "none"
      /\ newestAtStart' = CarBattery!Newest(T)
      /\ UNCHANGED <<loggedIn, identifier, socShown, session, assigned, delivered, snapshots, reassigned,
                     expired, failed>>
  BY DEF CarBattery!Polls, CarBattery!portal
<1>2. CarBattery!TypeOK /\ Chosen
  BY DEF CarInv
<1>3. /\ T \in SUBSET (1 .. MaxSnapshots)
      /\ CarBattery!Newest(T) \in 0 .. MaxSnapshots
      /\ CarBattery!Newest(T) # 0 => \E e \in delivered : e.content /\ e.n = CarBattery!Newest(T)
  BY <1>2, UsableFacts
<1>4. call' \in {"metadata", "list"} /\ leg' = (IF loggedIn THEN "get" ELSE "login") /\ terms' = 0
  BY <1>1 DEF CarBattery!Calling
<1> HIDE DEF T
<1>5. CarBattery!TypeOK'
  <2>1. {latest', socShown', newestAtStart', snapshots'} \subseteq 0 .. MaxSnapshots
    BY <1>1, <1>2, <1>3, CarTypes
  <2>2. {gets', logins'} \subseteq Nat /\ terms' \in Nat
    BY <1>1, <1>4
  <2>3. leg' \in {"get", "get_again"} <=> loggedIn'
    BY <1>1, <1>2, <1>4, CarTypes
  <2> QED
    BY <1>1, <1>2, <1>4, <2>1, <2>2, <2>3 DEF CarBattery!TypeOK, CarBattery!Calls, CarBattery!Legs
<1>6. Counted'
  BY <1>1, <1>4 DEF Counted, Before
<1>7. Chosen'
  <2>1. newestAtStart' <= snapshots' /\ (call' = "list" => identifier' # None)
    BY <1>1, <1>2, <1>3, CarTypes DEF Chosen, CarBattery!Calling
  <2>2. newestAtStart' # 0 => \E e \in delivered : e.content /\ e.n >= newestAtStart'
    BY <1>1, <1>2, <1>3, CarTypes
  <2> QED
    BY <1>1, <1>2, <1>4, <2>1, <2>2 DEF Chosen
<1> QED
  BY <1>5, <1>6, <1>7 DEF CarInv

\* A poll that fails stands still.
LEMMA FailedKeeps ==
  ASSUME CarInv, call' = "idle", socResult' = "failed", UNCHANGED <<leg, terms, latest, socShown>>,
         gets' \in Nat, logins' \in Nat, gets' <= 10, logins' <= gets' + 1, logins' <= 6,
         loggedIn' \in BOOLEAN, failed' \in 0 .. MaxFailed,
         UNCHANGED <<identifier, newestAtStart, session, assigned, delivered, snapshots, reassigned, expired>>
  PROVE  CarInv'
<1>1. CarBattery!TypeOK /\ Counted /\ Chosen
  BY DEF CarInv
<1>2. CarBattery!TypeOK'
  <2>1. {loggedIn', session'} \subseteq BOOLEAN /\ {gets', logins'} \subseteq Nat
    BY <1>1, CarTypes
  <2> QED
    BY <1>1, <2>1 DEF CarBattery!TypeOK, CarBattery!Calls
<1>3. Counted'
  BY <1>1 DEF Counted
<1>4. Chosen'
  BY <1>1 DEF Chosen
<1> QED
  BY <1>2, <1>3, <1>4 DEF CarInv

\* A poll that stays at its GET.
LEMMA StaysKeeps ==
  ASSUME CarInv, call # "idle", leg' \in CarBattery!Legs, loggedIn' \in BOOLEAN, session' \in BOOLEAN,
         leg' \in {"get", "get_again"} <=> loggedIn', terms' \in Nat, gets' \in Nat, logins' \in Nat, Counted',
         UNCHANGED <<call, latest, socShown, socResult, identifier, newestAtStart, assigned, delivered,
                     snapshots, reassigned, expired, failed>>
  PROVE  CarInv'
<1>1. CarBattery!TypeOK /\ Chosen
  BY DEF CarInv
<1>2. CarBattery!TypeOK'
  <2>1. {loggedIn', session'} \subseteq BOOLEAN /\ {gets', logins'} \subseteq Nat
    OBVIOUS
  <2> QED
    BY <1>1, <2>1 DEF CarBattery!TypeOK
<1>3. Chosen'
  BY <1>1 DEF Chosen
<1> QED
  BY <1>2, <1>3 DEF CarInv

\* A GET that was answered is followed by the next.
LEMMA GoesOnKeeps ==
  ASSUME CarInv, NEW c \in {"metadata", "list", "metadata_again", "list_again"},
         NEW next \in {"list", "metadata_again", "list_again", "download"},
         CarBattery!Answered(c), CarBattery!Calling(next), Before(c) + 2 <= Before(next),
         identifier' \in Identifiers, latest' \in 0 .. MaxSnapshots,
         next = "download" =>
           /\ latest' # 0 /\ newestAtStart <= latest' /\ latest' <= snapshots
           /\ \A e \in delivered : e.n = latest' => e.content,
         UNCHANGED <<loggedIn, socShown, socResult, logins, newestAtStart, session, assigned, delivered,
                     snapshots, reassigned, expired, failed>>
  PROVE  CarInv'
<1>1. CarBattery!TypeOK /\ Counted /\ Chosen
  BY DEF CarInv
<1>2. call = c /\ call # "idle" /\ leg \in {"get", "get_again"} /\ gets' = gets + 1
  BY DEF CarBattery!Answered
<1>3. call' = next /\ leg' = "get" /\ terms' = 0
  BY <1>1, <1>2 DEF CarBattery!Calling, CarBattery!TypeOK
<1>4. gets \in Nat /\ logins \in Nat /\ Before(c) \in 0 .. 8 /\ Before(next) \in 0 .. 8
  <2>1. Before(next) \in 0 .. 8
    BY Befores
  <2> QED
    BY <1>1, <1>2, <2>1, CarCounts
<1>5. CarBattery!TypeOK'
  <2>1. {gets', logins'} \subseteq Nat /\ terms' \in Nat
    BY <1>2, <1>3, <1>4
  <2>2. {latest', socShown', newestAtStart', snapshots'} \subseteq 0 .. MaxSnapshots
    BY <1>1, CarTypes
  <2>3. identifier' # None
    BY CarBatteryAssumption
  <2> QED
    BY <1>1, <1>2, <1>3, <2>1, <2>2, <2>3 DEF CarBattery!TypeOK, CarBattery!Calls, CarBattery!Legs
<1>6. Counted'
  <2>1. gets <= Before(c) + 1 /\ 2 * logins <= Before(c) + 4 /\ logins <= gets + 1
    <3>1. \/ gets <= Before(c) /\ 2 * logins <= Before(c) + 2
          \/ gets <= Before(c) + 1 /\ 2 * logins <= Before(c) + 4
      BY <1>1, <1>2 DEF Counted
    <3> QED
      BY <1>1, <1>4, <3>1 DEF Counted
  <2>2. gets' <= Before(next) /\ 2 * logins <= Before(next) + 2
    BY <1>2, <1>4, <2>1
  <2> QED
    BY <1>2, <1>3, <1>4, <2>1, <2>2 DEF Counted
<1>7. Chosen'
  BY <1>1, <1>2, <1>3, CarBatteryAssumption DEF Chosen
<1> QED
  BY <1>5, <1>6, <1>7 DEF CarInv

\* A failure of the GET under way is within the poll's bounds.
LEMMA FailureCounts ==
  ASSUME CarInv, call # "idle"
  PROVE  /\ gets \in Nat /\ logins \in Nat /\ gets <= 10 /\ logins <= gets + 1 /\ logins <= 6
         /\ leg \in {"get", "get_again"} => gets + 1 <= 10 /\ logins <= gets + 2
<1>1. Counted /\ gets \in Nat /\ logins \in Nat /\ Before(call) \in 0 .. 8
  BY CarCounts DEF CarInv
<1>2. leg = "get" \/ leg = "get_again" => gets <= Before(call) + 1
  BY <1>1 DEF Counted
<1> QED
  BY <1>1, <1>2 DEF Counted

LEMMA ListingChooses ==
  ASSUME CarInv, NEW c \in {"list", "list_again"}, CarBattery!Answered(c),
         CarBattery!Chooses(CarBattery!Listing),
         UNCHANGED <<loggedIn, identifier, logins, newestAtStart, session, assigned, delivered, snapshots,
                     reassigned, expired, failed>>
  PROVE  CarInv'
<1> DEFINE T == CarBattery!Usable(CarBattery!Listing)
<1>1. CarBattery!TypeOK /\ Chosen /\ call = c /\ call # "idle" /\ leg \in {"get", "get_again"} /\ gets' = gets + 1
  BY DEF CarInv, CarBattery!Answered
<1>2. CASE T = {}
  <2>1. call' = "idle" /\ socResult' = "failed" /\ UNCHANGED <<leg, terms, latest, socShown>>
    BY <1>2 DEF CarBattery!Chooses, CarBattery!Fails
  <2>2. loggedIn' \in BOOLEAN /\ failed' \in 0 .. MaxFailed
    BY <1>1 DEF CarBattery!TypeOK
  <2> QED
    BY <1>1, <2>1, <2>2, FailedKeeps, FailureCounts
<1>3. CASE T # {}
  <2>1. latest' = CarBattery!Max(T) /\ CarBattery!Calling("download") /\ UNCHANGED <<socShown, socResult>>
    BY <1>3 DEF CarBattery!Chooses
  <2>2. CarBattery!Listing = delivered /\ identifier = assigned
    BY <1>3 DEF CarBattery!Listing, CarBattery!Usable
  <2>3. T = {e.n : e \in {f \in delivered : f.content}}
    BY <2>2 DEF CarBattery!Usable
  <2> HIDE DEF T
  <2>4. /\ latest' \in 1 .. MaxSnapshots
        /\ \E e \in delivered : e.content /\ e.n = latest'
        /\ \A e \in delivered : e.content => e.n <= latest'
    BY <1>1, <1>3, <2>1, <2>3, UsableFacts
  <2>5. /\ newestAtStart \in Nat /\ snapshots \in Nat /\ latest' \in Nat /\ \A e \in delivered : e.n \in Nat
    BY <1>1, <2>4, CarTypes
  <2>6. newestAtStart <= latest' /\ latest' <= snapshots /\ \A e \in delivered : e.n = latest' => e.content
    BY <1>1, <2>4, <2>5 DEF Chosen
  <2>7. /\ latest' # 0 /\ latest' \in 0 .. MaxSnapshots /\ identifier' \in Identifiers
        /\ Before(c) + 2 <= Before("download")
    BY <1>1, <2>2, <2>4, CarBatteryAssumption DEF CarBattery!TypeOK, Before
  <2> QED
    BY <2>1, <2>6, <2>7, GoesOnKeeps
<1> QED
  BY <1>2, <1>3

LEMMA LogsInKeeps ==
  ASSUME CarInv, CarBattery!LogsIn
  PROVE  CarInv'
<1>1. /\ call # "idle" /\ leg \in {"login", "login_again"}
      /\ UNCHANGED <<identifier, gets, newestAtStart, assigned, delivered, snapshots, reassigned, expired>>
  BY DEF CarBattery!LogsIn
<1>2. CarBattery!TypeOK /\ Counted
  BY DEF CarInv
<1> DEFINE before == Before(call)
<1>0. gets \in Nat /\ logins \in Nat /\ terms \in Nat /\ before \in 0 .. 8
  BY <1>2, CarCounts
<1>3. CASE /\ loggedIn' = TRUE /\ session' = TRUE /\ logins' = logins + 1
           /\ leg' = IF leg = "login" THEN "get" ELSE "get_again"
           /\ UNCHANGED <<call, terms, latest, socShown, socResult, failed>>
  <2>1. Counted'
    <3>1. call' = call /\ gets' = gets /\ logins' = logins + 1 /\ terms' = terms /\ Before(call)' = before
      BY <1>1, <1>3
    <3>2. CASE leg = "login"
      BY <1>0, <1>1, <1>2, <1>3, <3>1, <3>2 DEF Counted
    <3>3. CASE leg = "login_again"
      BY <1>0, <1>1, <1>2, <1>3, <3>1, <3>3 DEF Counted
    <3> QED
      BY <1>1, <3>2, <3>3
  <2>2. /\ leg' \in CarBattery!Legs /\ loggedIn' \in BOOLEAN /\ session' \in BOOLEAN
        /\ leg' \in {"get", "get_again"} <=> loggedIn'
    BY <1>1, <1>3 DEF CarBattery!Legs
  <2>3. terms' \in Nat /\ gets' \in Nat /\ logins' \in Nat
    BY <1>1, <1>2, <1>3, CarTypes
  <2> QED
    BY <1>1, <1>3, <2>1, <2>2, <2>3, StaysKeeps
<1>4. CASE /\ CarBattery!Accepts /\ terms' = terms + 1
           /\ UNCHANGED <<call, leg, loggedIn, session, logins, latest, socShown, socResult, failed>>
  <2>1. Counted'
    BY <1>1, <1>2, <1>4 DEF Counted, Before, CarBattery!Accepts
  <2>2. /\ leg' \in CarBattery!Legs /\ loggedIn' \in BOOLEAN /\ session' \in BOOLEAN
        /\ leg' \in {"get", "get_again"} <=> loggedIn'
    BY <1>1, <1>2, <1>4, CarTypes DEF CarBattery!TypeOK
  <2>3. terms' \in Nat /\ gets' \in Nat /\ logins' \in Nat
    BY <1>1, <1>2, <1>4, CarTypes
  <2> QED
    BY <1>1, <1>4, <2>1, <2>2, <2>3, StaysKeeps
<1>5. CASE /\ failed < MaxFailed /\ failed' = failed + 1 /\ CarBattery!Fails
           /\ UNCHANGED <<loggedIn, session, logins>>
  <2>1. loggedIn' \in BOOLEAN /\ failed' \in 0 .. MaxFailed
    <3>1. failed \in 0 .. MaxFailed /\ MaxFailed \in Nat /\ loggedIn \in BOOLEAN
      BY <1>2, CarTypes DEF CarBattery!TypeOK
    <3>2. failed' \in 0 .. MaxFailed
      BY <1>5, <3>1
    <3> QED
      BY <1>5, <3>1, <3>2
  <2> QED
    BY <1>1, <1>2, <1>5, <2>1, FailedKeeps, FailureCounts DEF CarBattery!Fails
<1> QED
  BY <1>3, <1>4, <1>5 DEF CarBattery!LogsIn

LEMMA RefusedKeeps ==
  ASSUME CarInv, CarBattery!Refused
  PROVE  CarInv'
<1>1. /\ call # "idle" /\ leg \in {"get", "get_again"} /\ gets' = gets + 1
      /\ UNCHANGED <<identifier, logins, newestAtStart, session, assigned, delivered, snapshots, reassigned,
                     expired, failed>>
  BY DEF CarBattery!Refused, CarBattery!portal
<1>2. CarBattery!TypeOK /\ Counted
  BY DEF CarInv
<1> DEFINE before == Before(call)
<1>0. gets \in Nat /\ logins \in Nat /\ terms \in Nat /\ before \in 0 .. 8
  BY <1>2, CarCounts
<1>3. CASE leg = "get"
  <2>1. loggedIn' = FALSE /\ leg' = "login_again" /\ terms' = 0 /\ UNCHANGED <<call, latest, socShown, socResult>>
    BY <1>3 DEF CarBattery!Refused
  <2>2. Counted'
    <3>1. call' = call /\ gets' = gets + 1 /\ logins' = logins /\ terms' = 0 /\ Before(call)' = before
      BY <1>1, <2>1
    <3>2. gets <= before /\ 2 * logins <= before + 2 /\ logins <= gets + 1
      BY <1>1, <1>2, <1>3 DEF Counted
    <3> QED
      BY <1>0, <1>1, <2>1, <3>1, <3>2 DEF Counted
  <2>3. /\ leg' \in CarBattery!Legs /\ loggedIn' \in BOOLEAN /\ session' \in BOOLEAN
        /\ leg' \in {"get", "get_again"} <=> loggedIn'
    BY <1>1, <1>2, <2>1, CarTypes DEF CarBattery!Legs
  <2>4. terms' \in Nat /\ gets' \in Nat /\ logins' \in Nat
    <3>1. terms' = 0 /\ gets' = gets + 1 /\ logins' = logins
      BY <1>1, <2>1
    <3> QED
      BY <1>0, <3>1
  <2> QED
    BY <1>1, <2>1, <2>2, <2>3, <2>4, StaysKeeps
<1>4. CASE leg # "get"
  <2>1. CarBattery!Fails /\ loggedIn' = loggedIn
    BY <1>4 DEF CarBattery!Refused
  <2>2. loggedIn' \in BOOLEAN /\ failed' \in 0 .. MaxFailed
    BY <1>1, <1>2, <2>1, CarTypes DEF CarBattery!TypeOK
  <2> QED
    BY <1>1, <1>2, <2>1, <2>2, FailedKeeps, FailureCounts DEF CarBattery!Fails
<1> QED
  BY <1>3, <1>4

LEMMA MetadataKeeps ==
  ASSUME CarInv, CarBattery!Metadata
  PROVE  CarInv'
<1>1. /\ CarBattery!Answered("metadata") /\ identifier' = assigned /\ CarBattery!Calling("list")
      /\ UNCHANGED <<loggedIn, latest, socShown, socResult, logins, newestAtStart, session, assigned,
                     delivered, snapshots, reassigned, expired, failed>>
  BY DEF CarBattery!Metadata, CarBattery!portal
<1>2. identifier' \in Identifiers /\ latest' \in 0 .. MaxSnapshots
  BY <1>1, CarTypes DEF CarInv, CarBattery!TypeOK
<1>3. Before("metadata") + 2 <= Before("list")
  BY DEF Before
<1> QED
  BY <1>1, <1>2, <1>3, GoesOnKeeps

LEMMA ListKeeps ==
  ASSUME CarInv, CarBattery!List
  PROVE  CarInv'
<1>1. /\ CarBattery!Answered("list")
      /\ UNCHANGED <<loggedIn, identifier, logins, newestAtStart, session, assigned, delivered, snapshots,
                     reassigned, expired, failed>>
  BY DEF CarBattery!List, CarBattery!portal
<1>2. CASE CarBattery!MaybeStale
  <2>1. CarBattery!Calling("metadata_again") /\ UNCHANGED <<latest, socShown, socResult>>
    BY <1>2 DEF CarBattery!List
  <2>2. identifier \in Identifiers /\ latest' \in 0 .. MaxSnapshots
    BY <1>1, <2>1, CarTypes DEF CarInv, Chosen, CarBattery!Answered, CarBattery!TypeOK
  <2>3. Before("list") + 2 <= Before("metadata_again")
    BY DEF Before
  <2> QED
    BY <1>1, <2>1, <2>2, <2>3, GoesOnKeeps
<1>3. CASE ~CarBattery!MaybeStale
  BY <1>1, <1>3, ListingChooses DEF CarBattery!List
<1> QED
  BY <1>2, <1>3

LEMMA MetadataAgainKeeps ==
  ASSUME CarInv, CarBattery!MetadataAgain
  PROVE  CarInv'
<1>1. /\ CarBattery!Answered("metadata_again")
      /\ UNCHANGED <<loggedIn, logins, newestAtStart, session, assigned, delivered, snapshots, reassigned,
                     expired, failed>>
  BY DEF CarBattery!MetadataAgain, CarBattery!portal
<1>2. CarBattery!TypeOK /\ call # "idle" /\ leg \in {"get", "get_again"} /\ gets' = gets + 1
  BY <1>1 DEF CarInv, CarBattery!Answered
<1>3. CASE assigned # identifier
  <2>1. identifier' = assigned /\ CarBattery!Calling("list_again") /\ UNCHANGED <<latest, socShown, socResult>>
    BY <1>3 DEF CarBattery!MetadataAgain
  <2>2. identifier' \in Identifiers /\ latest' \in 0 .. MaxSnapshots
    BY <1>2, <2>1, CarTypes DEF CarBattery!TypeOK
  <2>3. Before("metadata_again") + 2 <= Before("list_again")
    BY DEF Before
  <2> QED
    BY <1>1, <2>1, <2>2, <2>3, GoesOnKeeps
<1>4. CASE assigned = identifier
  <2>1. CarBattery!Fails /\ identifier' = identifier
    BY <1>4 DEF CarBattery!MetadataAgain
  <2>2. loggedIn' \in BOOLEAN /\ failed' \in 0 .. MaxFailed
    BY <1>1, <1>2, CarTypes DEF CarBattery!TypeOK
  <2> QED
    BY <1>1, <1>2, <2>1, <2>2, FailedKeeps, FailureCounts DEF CarBattery!Fails
<1> QED
  BY <1>3, <1>4

\* What is shown is what was chosen.
LEMMA DownloadsKeeps ==
  ASSUME CarInv, CarBattery!Downloads
  PROVE  /\ CarInv'
         /\ socShown' # socShown \/ socResult' = "reading" =>
              socShown' >= newestAtStart /\ \A e \in delivered : e.n = socShown' => e.content
<1>1. /\ CarBattery!Answered("download")
      /\ UNCHANGED <<loggedIn, identifier, logins, newestAtStart, session, assigned, delivered, snapshots,
                     reassigned, expired, failed>>
  BY DEF CarBattery!Downloads, CarBattery!portal
<1>2. /\ CarBattery!TypeOK /\ Counted /\ Chosen
      /\ call = "download" /\ call # "idle" /\ leg \in {"get", "get_again"} /\ gets' = gets + 1
  BY <1>1 DEF CarInv, CarBattery!Answered
<1>3. /\ gets \in Nat /\ logins \in Nat /\ gets + 1 <= 10 /\ logins <= gets + 2 /\ logins <= 6
      /\ latest \in 0 .. MaxSnapshots /\ newestAtStart \in 0 .. MaxSnapshots
  BY <1>2, FailureCounts, CarTypes
<1>4. CASE socShown' = latest /\ socResult' = "reading" /\ call' = "idle" /\ UNCHANGED <<leg, terms, latest>>
  <2>1. CarBattery!TypeOK'
    <3>1. {gets', logins'} \subseteq Nat
      BY <1>1, <1>2, <1>3
    <3>2. {latest', socShown', newestAtStart', snapshots'} \subseteq 0 .. MaxSnapshots
      BY <1>1, <1>2, <1>4, CarTypes
    <3> QED
      BY <1>1, <1>2, <1>4, <3>1, <3>2 DEF CarBattery!TypeOK, CarBattery!Calls
  <2>2. Counted'
    BY <1>1, <1>2, <1>3, <1>4 DEF Counted
  <2>3. Chosen'
    BY <1>1, <1>2, <1>4 DEF Chosen
  <2>4. socShown' >= newestAtStart /\ \A e \in delivered : e.n = socShown' => e.content
    BY <1>2, <1>3, <1>4 DEF Chosen
  <2> QED
    BY <2>1, <2>2, <2>3, <2>4 DEF CarInv
<1>5. CASE CarBattery!Fails
  <2>1. loggedIn' \in BOOLEAN /\ failed' \in 0 .. MaxFailed
    BY <1>1, <1>2, CarTypes DEF CarBattery!TypeOK
  <2>2. call' = "idle" /\ socResult' = "failed" /\ UNCHANGED <<leg, terms, latest, socShown>>
    BY <1>5 DEF CarBattery!Fails
  <2>3. CarInv'
    BY <1>1, <1>2, <1>3, <2>1, <2>2, FailedKeeps
  <2> QED
    BY <2>2, <2>3
<1> QED
  BY <1>4, <1>5 DEF CarBattery!Downloads

LEMMA BreaksKeeps ==
  ASSUME CarInv, CarBattery!Breaks
  PROVE  CarInv'
<1>1. /\ call # "idle" /\ failed < MaxFailed /\ failed' = failed + 1 /\ CarBattery!Fails
      /\ UNCHANGED <<loggedIn, identifier, gets, logins, newestAtStart, session, assigned, delivered,
                     snapshots, reassigned, expired>>
  BY DEF CarBattery!Breaks, CarBattery!counts, CarBattery!portal
<1>2. failed \in 0 .. MaxFailed /\ MaxFailed \in Nat /\ loggedIn \in BOOLEAN
  BY CarTypes DEF CarInv, CarBattery!TypeOK
<1>3. failed' \in 0 .. MaxFailed
  BY <1>1, <1>2
<1> QED
  BY <1>1, <1>2, <1>3, FailedKeeps, FailureCounts DEF CarBattery!Fails

\* The portal's own steps leave the poll where it is.
LEMMA DeliversKeeps ==
  ASSUME CarInv, CarBattery!Delivers
  PROVE  CarInv'
<1>1. /\ snapshots < MaxSnapshots /\ snapshots' = snapshots + 1
      /\ UNCHANGED <<call, leg, terms, loggedIn, identifier, latest, socShown, socResult, gets, logins,
                     newestAtStart, session, assigned, reassigned, expired, failed>>
  BY DEF CarBattery!Delivers, CarBattery!counts
<1>2. PICK content \in BOOLEAN : delivered' = delivered \cup {[n |-> snapshots', content |-> content]}
  BY DEF CarBattery!Delivers
<1> DEFINE new == [n |-> snapshots', content |-> content]
<1>3. CarBattery!TypeOK /\ Counted /\ Chosen
  BY DEF CarInv
<1>4. /\ snapshots \in Nat /\ snapshots' \in Nat /\ snapshots' \in 1 .. MaxSnapshots
      /\ newestAtStart \in Nat /\ latest \in Nat /\ \A e \in delivered : e.n \in Nat
  BY <1>1, <1>3, CarTypes
<1>5. new.n = snapshots' /\ new.content = content /\ delivered' = delivered \cup {new}
  BY <1>2
<1>6. CarBattery!TypeOK'
  <2>1. new \in CarBattery!Snapshots
    BY <1>4 DEF CarBattery!Snapshots
  <2>2. {latest', socShown', newestAtStart', snapshots'} \subseteq 0 .. MaxSnapshots
    BY <1>1, <1>3, <1>4, CarTypes
  <2> HIDE DEF new
  <2> QED
    BY <1>1, <1>3, <1>5, <2>1, <2>2 DEF CarBattery!TypeOK
<1>7. Counted'
  BY <1>1, <1>3 DEF Counted, Before
<1> HIDE DEF new
<1>8. Chosen'
  <2>1. newestAtStart' <= snapshots' /\ \A e \in delivered' : e.n <= snapshots'
    BY <1>1, <1>3, <1>4, <1>5 DEF Chosen
  <2>2. \A e, f \in delivered' : e.n = f.n => e = f
    BY <1>1, <1>3, <1>4, <1>5 DEF Chosen
  <2>3. call # "idle" /\ newestAtStart # 0 =>
          \/ \E e \in delivered' : e.content /\ e.n >= newestAtStart
          \/ \A e \in delivered' : e.n > newestAtStart
    BY <1>1, <1>3, <1>4, <1>5 DEF Chosen
  <2>4. call = "download" =>
          /\ newestAtStart <= latest /\ latest <= snapshots'
          /\ \A e \in delivered' : e.n = latest => e.content
    BY <1>1, <1>3, <1>4, <1>5 DEF Chosen
  <2> QED
    BY <1>1, <1>3, <2>1, <2>2, <2>3, <2>4 DEF Chosen
<1> QED
  BY <1>6, <1>7, <1>8 DEF CarInv

LEMMA PortalKeeps ==
  ASSUME CarInv, CarBattery!Reassigns \/ CarBattery!Expires \/ UNCHANGED carBatteryVars
  PROVE  CarInv'
<1>1. /\ UNCHANGED <<call, leg, terms, loggedIn, identifier, latest, socShown, socResult, gets, logins,
                     newestAtStart, snapshots, failed>>
      /\ delivered' \in {delivered, {}}
  BY DEF CarBattery!Reassigns, CarBattery!Expires, carBatteryVars, CarBattery!counts
<1>2. CarBattery!TypeOK /\ Counted /\ Chosen
  BY DEF CarInv
<1>3. assigned' \in Identifiers /\ session' \in BOOLEAN
  BY <1>2, CarTypes DEF CarBattery!Reassigns, CarBattery!Expires, carBatteryVars, CarBattery!TypeOK
<1>4. reassigned' \in 0 .. MaxReassigned /\ expired' \in 0 .. MaxExpired
  <2>1. /\ reassigned \in 0 .. MaxReassigned /\ expired \in 0 .. MaxExpired
        /\ MaxReassigned \in Nat /\ MaxExpired \in Nat
    BY <1>2, CarTypes DEF CarBattery!TypeOK
  <2> QED
    BY <2>1 DEF CarBattery!Reassigns, CarBattery!Expires, carBatteryVars
<1>5. CarBattery!TypeOK'
  <2>1. {loggedIn', session'} \subseteq BOOLEAN
    BY <1>1, <1>2, <1>3, CarTypes
  <2>2. delivered' \subseteq CarBattery!Snapshots
    BY <1>1, <1>2 DEF CarBattery!TypeOK
  <2> QED
    BY <1>1, <1>2, <1>3, <1>4, <2>1, <2>2 DEF CarBattery!TypeOK
<1>6. Counted'
  BY <1>1, <1>2 DEF Counted, Before
<1>7. Chosen'
  BY <1>1, <1>2 DEF Chosen
<1> QED
  BY <1>5, <1>6, <1>7 DEF CarInv

LEMMA CarStep ==
  ASSUME CarInv, [CarBattery!Next]_carBatteryVars
  PROVE  /\ CarInv'
         /\ (socResult # "reading" /\ socResult' = "reading") \/ socShown' # socShown =>
              socShown' >= newestAtStart /\ \A e \in delivered : e.n = socShown' => e.content
<1>1. CASE CarBattery!Downloads
  BY <1>1, DownloadsKeeps
<1>2. CASE CarBattery!Polls
  BY <1>2, PollsKeeps DEF CarBattery!Polls
<1>3. CASE CarBattery!LogsIn
  BY <1>3, LogsInKeeps DEF CarBattery!LogsIn, CarBattery!Fails
<1>4. CASE CarBattery!Refused
  BY <1>4, RefusedKeeps DEF CarBattery!Refused, CarBattery!Fails
<1>5. CASE CarBattery!Metadata
  BY <1>5, MetadataKeeps DEF CarBattery!Metadata
<1>6. CASE CarBattery!List
  BY <1>6, ListKeeps DEF CarBattery!List, CarBattery!Chooses, CarBattery!Fails
<1>7. CASE CarBattery!MetadataAgain
  BY <1>7, MetadataAgainKeeps DEF CarBattery!MetadataAgain, CarBattery!Fails
<1>8. CASE CarBattery!ListAgain
  <2>1. /\ CarBattery!Answered("list_again") /\ CarBattery!Chooses(CarBattery!Listing)
        /\ UNCHANGED <<loggedIn, identifier, logins, newestAtStart, session, assigned, delivered, snapshots,
                       reassigned, expired, failed>>
    BY <1>8 DEF CarBattery!ListAgain, CarBattery!portal
  <2> QED
    BY <2>1, ListingChooses DEF CarBattery!Chooses, CarBattery!Fails
<1>9. CASE CarBattery!Breaks
  BY <1>9, BreaksKeeps DEF CarBattery!Breaks, CarBattery!Fails
<1>10. CASE CarBattery!Delivers
  BY <1>10, DeliversKeeps DEF CarBattery!Delivers
<1>11. CASE CarBattery!Reassigns \/ CarBattery!Expires \/ UNCHANGED carBatteryVars
  BY <1>11, PortalKeeps DEF CarBattery!Reassigns, CarBattery!Expires, carBatteryVars
<1> QED
  BY <1>1, <1>2, <1>3, <1>4, <1>5, <1>6, <1>7, <1>8, <1>9, <1>10, <1>11
  DEF CarBattery!Next, CarBattery!Requests

-----------------------------------------------------------------------------
(* The theorems.                                                              *)

TasksInv == ChargerInv /\ CarInv /\ MqttInv

\* run.rs: what holds of the sampler, the car's poller and the publisher holds whichever task runs.
THEOREM Invariance == Spec => []TasksInv
<1>1. Init => TasksInv
  BY ChargerInitial, CarInitial, MqttInitial DEF Init, TasksInv
<1>2. TasksInv /\ [Next]_vars => TasksInv'
  <2> SUFFICES ASSUME TasksInv, [Next]_vars PROVE TasksInv'
    OBVIOUS
  <2>1. [Charger!Next]_chargerVars /\ [CarBattery!Next]_carBatteryVars /\ [Mqtt!Next]_mqttVars
    BY DEF Next, vars
  <2>2. ChargerInv'
    BY <2>1, PollTyped, ReadingTyped, LoopTyped, ChargerReads, ChargerHushed
    DEF TasksInv, ChargerInv, Charger!TypeOK
  <2>3. MqttInv'
    BY <2>1, PipeTyped, CallsTyped, BrokerTyped, MqttAgain, MqttInOrder, MqttPromised, MqttDrains
    DEF TasksInv, MqttInv, Mqtt!TypeOK
  <2>4. CarInv'
    BY <2>1, CarStep DEF TasksInv
  <2> QED
    BY <2>2, <2>3, <2>4 DEF TasksInv
<1> QED
  BY <1>1, <1>2, PTL DEF Spec

\* vestel.rs, run.rs: whatever lists of blocks are read and however the charger answers,
\* closes or keeps silent, no late reply is taken for another's answer, a poll waits out
\* one timeout at most, what a decision reads is lost only with an excuse, and a charger
\* not heard for longer than the window shows no hold, in every outage.
THEOREM ChargerIsSound == Spec => []ChargerSound
<1>1. TasksInv => Charger!PollSound
  BY DEF TasksInv, ChargerInv, Reads, Charger!PollSound, Charger!OneTimeout
<1>2. TasksInv => Charger!NotOnUnseen
  BY DEF TasksInv, ChargerInv, Hushed, Charger!NotOnUnseen
<1> QED
  BY <1>1, <1>2, Invariance, PTL DEF ChargerSound

\* vw_portal.rs: whenever the portal ends a session or replaces its data request, a poll
\* that reads shows a snapshot with data, no older than the newest when it began, for ten
\* requests and six logins at most.
THEOREM CarSocIsSound == Spec => CarSocSound
<1>1. TasksInv => CarBattery!TypeOK /\ CarBattery!PollBounded
  BY DEF TasksInv, CarInv, Counted, CarBattery!PollBounded
<1>2. TasksInv /\ [Next]_vars
        => [(socResult # "reading" /\ socResult' = "reading") \/ socShown' # socShown
              => /\ socShown' >= newestAtStart
                 /\ \A e \in delivered : e.n = socShown' => e.content]_(CarBattery!vars)
  <2>1. [Next]_vars => [CarBattery!Next]_carBatteryVars
    BY DEF Next, vars
  <2> QED
    BY <2>1, CarStep DEF TasksInv
<1> QED
  BY <1>1, <1>2, Invariance, PTL DEF Spec, CarSocSound, CarBattery!SocSound, CarBattery!ReadsNewest

\* announce.rs, publisher.rs, run.rs: however deep the queues are and whatever the
\* broker loses, a marked document is stored or on its way, no older value follows a
\* newer one, and a drain that ran to its end leaves nothing behind.
THEOREM BrokerIsShown == Spec => []BrokerShown
<1>1. MqttInv => Mqtt!AnnouncedIsPromised
  <2>1. MqttInv => Mqtt!DocumentsOf(Mqtt!Pipeline) = OnItsWay
    BY LineTyped, DocumentsConcat
    DEF MqttInv, Mqtt!Pipeline, OnItsWay, Mqtt!TypeOK, Mqtt!PipeType
  <2> QED
    BY <2>1 DEF MqttInv, Promised, Mqtt!AnnouncedIsPromised
<1>2. MqttInv => Mqtt!DrainedWhole
  BY DEF MqttInv, Drains, Mqtt!DrainedWhole
<1>3. TasksInv => BrokerShown
  BY <1>1, <1>2, PipelineInOrder DEF TasksInv, MqttInv, BrokerShown, Mqtt!BrokerShown
<1> QED
  BY <1>3, Invariance, PTL

===============================================================================
