--------------------------- MODULE CoordinatorProofs ---------------------------
(***************************************************************************)
(* Proofs about Coordinator, for every fleet, every period and window, and    *)
(* whichever sources fail or hang.                                          *)
(***************************************************************************)
EXTENDS Coordinator, FiniteSetTheorems, TLAPS

-----------------------------------------------------------------------------
(* The fleet, and the times a tick is made of.                               *)

\* The fleet is a finite set of batteries, no larger than the list that names them.
LEMMA FleetFacts ==
  /\ Len(Fleet) \in Nat \ {0}
  /\ IsFiniteSet(Devices)
  /\ Cardinality(Devices) <= Len(Fleet)
  /\ Primary \in Devices
  /\ Devices # {}
<1>1. /\ Len(Fleet) \in Nat \ {0}
      /\ DOMAIN Fleet = 1 .. Len(Fleet)
      /\ Primary \in Devices
  BY FleetAssumption DEF Primary, Devices, ToSet
<1>2. Fleet \in Surjection(1 .. Len(Fleet), Devices)
  BY <1>1, FleetAssumption DEF Surjection, Devices, ToSet
<1>3. IsFiniteSet(1 .. Len(Fleet)) /\ Cardinality(1 .. Len(Fleet)) = Len(Fleet)
  BY <1>1, FS_Interval
<1> QED
  BY <1>1, <1>2, <1>3, FS_Surjection

\* A request's timeout, a tick's body and the longest silence are whole spans of time.
LEMMA TimeFacts ==
  /\ Timeout \in Nat
  /\ Body \in Nat
  /\ MaxBlind \in Nat
  /\ MaxBlind >= Window + Period
  /\ MaxBlind >= Window + Body
<1>1. Timeout \in Nat
  BY TimeAssumption DEF Timeout, RequestTimeout
<1>2. Len(Fleet) * WriteTime \in Nat
  BY FleetFacts, TimeAssumption
<1>3. Body \in Nat
  BY <1>2, TimeAssumption DEF Body
<1> QED
  BY <1>1, <1>3, TimeAssumption DEF MaxBlind

\* Ages keep to their cap.
LEMMA Older1Type == ASSUME NEW age \in Ages PROVE Older1(age) \in Ages
BY TimeFacts DEF Ages, Older1

-----------------------------------------------------------------------------
(* Type correctness.                                                         *)

\* A process just started has its types.
LEMMA TypeInit == Init => TypeOK
<1> SUFFICES ASSUME Init PROVE TypeOK
  OBVIOUS
<1>1. 0 \in Ages /\ 0 \in 0 .. Timeout + 1
  BY TimeFacts DEF Ages
<1>2. /\ unseen \in [Sources -> BOOLEAN]
      /\ inflight \in [Sources -> Stamps] /\ pending \in [Sources -> Stamps]
      /\ running \in [Sources -> 0 .. Timeout + 1]
      /\ since \in [Sources -> Ages]
      /\ zeroed \in [Devices -> BOOLEAN]
  BY <1>1 DEF Init, Stamps
<1>3. tick_in \in 0 .. Period /\ writing \in 0 .. WriteTime + SyncTime /\ restarts \in 0 .. MaxRestarts
  BY TimeAssumption DEF Init
<1>4. held \in [Devices -> {"idle", "power"}] /\ asked \in Ages
  BY <1>1 DEF Init
<1> QED
  BY <1>2, <1>3, <1>4 DEF Init, TypeOK, Kinds

\* While directives are written there is one to write, and it is a command.
Acts == pc = "acting" => queue # {} /\ kind # "none"

\* No step leaves the loop writing with nothing to write.
LEMMA ActsStep == TypeOK /\ Acts /\ [Next]_vars => Acts'
<1> SUFFICES ASSUME TypeOK, Acts, [Next]_vars PROVE Acts'
  OBVIOUS
<1>1. CASE UNCHANGED vars
  BY <1>1 DEF Acts, vars, loop
<1>2. ASSUME NEW s \in Sources, Sampler(s) PROVE Acts'
  BY <1>2 DEF Acts, Sampler, Request, Deliver, Fail, loop
<1>3. CASE StandDown
  BY <1>3 DEF Acts, StandDown, Act
<1>4. ASSUME NEW what \in Kinds, Decide(what) PROVE Acts'
  BY <1>4 DEF Acts, Decide, Act, Kinds
<1>5. CASE Skip
  BY <1>5 DEF Acts, Skip, Act
<1>6. ASSUME NEW d \in Devices, Writing(d), Written(d) PROVE Acts'
  BY <1>6 DEF Acts, Writing, Written
<1>7. ASSUME NEW d \in Devices,
             Suppress(d) \/ Land(d) \/ Unsent(d) \/ \E landed \in BOOLEAN : Lose(d, landed)
      PROVE  Acts'
  BY <1>6, <1>7 DEF Suppress, Land, Unsent, Lose
<1>8. CASE FoldDevices \/ AskRound \/ Pass \/ Restart
  BY <1>8 DEF Acts, FoldDevices, AskRound, Pass, Restart
<1> QED
  BY <1>1, <1>2, <1>3, <1>4, <1>5, <1>7, <1>8 DEF Next, Tick

\* No sampler, no step of the loop, no restart and no passing of time takes a
\* variable out of its type.
LEMMA TypeStep == TypeOK /\ Acts /\ [Next]_vars => TypeOK'
<1> SUFFICES ASSUME TypeOK, Acts, [Next]_vars PROVE TypeOK'
  OBVIOUS
<1> USE TimeFacts, FleetFacts, TimeAssumption
<1>1. CASE UNCHANGED vars
  BY <1>1 DEF TypeOK, vars, sampling, slots, loop, device, history
<1>2. ASSUME NEW s \in Sources, Request(s) PROVE TypeOK'
  BY <1>2 DEF TypeOK, Request, slots, loop, device, history, Stamps
<1>3. ASSUME NEW s \in Sources, Deliver(s) PROVE TypeOK'
  BY <1>3 DEF TypeOK, Deliver, Answerable, loop, device, history, Stamps, Ages
<1>4. ASSUME NEW s \in Sources, Fail(s) PROVE TypeOK'
  BY <1>4 DEF TypeOK, Fail, slots, loop, device, history, Stamps
<1>5. CASE FoldDevices
  BY <1>5 DEF TypeOK, FoldDevices, FleetVerdict, Taken, Stamps, sampling, device, history
<1>6. CASE StandDown
  BY <1>6 DEF TypeOK, StandDown, TakeMeter, Act, Idled, Taken, Stamps, Kinds, sampling, device
<1>7. ASSUME NEW what \in Kinds, Decide(what) PROVE TypeOK'
  <2>1. queue' \subseteq Devices
    BY <1>7 DEF Decide, Act, Kinds
  <2>2. pc' \in {"syncing", "acting"} /\ kind' = what /\ writing' = 0
    BY <1>7 DEF Decide, Act
  <2>3. failed' = {} /\ down_first' = {} /\ latched' = FALSE
    BY <1>7 DEF Decide
  <2>4. pending' \in [Sources -> Stamps]
    BY <1>7 DEF TypeOK, Decide, TakeMeter, Taken, Stamps
  <2>5. UNCHANGED <<sampling, since, tick_in, fleet, silent, device, asked, restarts>>
    BY <1>7 DEF Decide, TakeMeter
  <2>6. /\ unseen' \in [Sources -> BOOLEAN] /\ inflight' \in [Sources -> Stamps]
        /\ running' \in [Sources -> 0 .. Timeout + 1] /\ since' \in [Sources -> Ages]
        /\ held' \in [Devices -> {"idle", "power"}] /\ zeroed' \in [Devices -> BOOLEAN]
        /\ tick_in' \in 0 .. Period /\ asked' \in Ages /\ restarts' \in 0 .. MaxRestarts
        /\ fleet' \in {"complete", "waiting", "silent"} /\ silent' \subseteq Devices
    BY <2>5 DEF TypeOK, sampling, device
  <2>7. writing' \in 0 .. WriteTime + SyncTime
    BY <2>2
  <2> QED
    BY <2>1, <2>2, <2>3, <2>4, <2>6, <2>7 DEF TypeOK
<1>8. CASE Skip
  BY <1>8 DEF TypeOK, Skip, TakeMeter, Act, Taken, Stamps, Kinds, sampling, device
<1>9. ASSUME NEW d \in Devices, Suppress(d) PROVE TypeOK'
  BY <1>9 DEF TypeOK, Suppress, Written, sampling, slots, device
<1>10. ASSUME NEW d \in Devices, Land(d) PROVE TypeOK'
  BY <1>10 DEF TypeOK, Acts, Land, Writing, Written, Kinds, sampling, slots
<1>11. ASSUME NEW d \in Devices, Unsent(d) PROVE TypeOK'
  BY <1>11 DEF TypeOK, Unsent, Written, sampling, slots, device
<1>12. ASSUME NEW d \in Devices, NEW landed \in BOOLEAN, Lose(d, landed) PROVE TypeOK'
  BY <1>12 DEF TypeOK, Acts, Lose, Writing, Written, Kinds, sampling, slots
<1>13. CASE AskRound
  BY <1>13 DEF TypeOK, AskRound, Older, Stamps, Ages, device
<1>14. CASE Pass
  <2>1. since' \in [Sources -> Ages] /\ asked' \in Ages
    BY <1>14, Older1Type DEF Pass, TypeOK
  <2>2. running' \in [Sources -> 0 .. Timeout + 1]
    <3>1. running' = [s \in Sources |-> IF inflight[s] # "no" /\ running[s] <= Timeout
                                       THEN running[s] + 1 ELSE running[s]]
      BY <1>14 DEF Pass
    <3>2. running \in [Sources -> 0 .. Timeout + 1]
      BY DEF TypeOK
    <3> QED
      BY <3>1, <3>2
  <2>3. writing' \in 0 .. WriteTime + SyncTime
    <3>1. \/ writing' = 0
          \/ writing' = writing + 1 /\ (writing < WriteTime \/ writing < SyncTime)
      BY <1>14 DEF Pass
    <3>2. writing \in Nat
      BY DEF TypeOK
    <3> QED
      BY <3>1, <3>2
  <2>4. tick_in' \in 0 .. Period
    <3>1. tick_in' = IF tick_in > 0 THEN tick_in - 1 ELSE 0
      BY <1>14 DEF Pass
    <3>2. tick_in \in 0 .. Period
      BY DEF TypeOK
    <3> QED
      BY <3>1, <3>2
  <2> QED
    BY <1>14, <2>1, <2>2, <2>3, <2>4 DEF TypeOK, Pass, device
<1>15. CASE Restart
  <2>1. held' \in [Devices -> {"idle", "power"}]
    BY <1>15 DEF TypeOK, Acts, Restart, Writing, Kinds
  <2>2. restarts' \in 0 .. MaxRestarts
    BY <1>15 DEF TypeOK, Restart
  <2>3. 0 \in Ages /\ 0 \in 0 .. Timeout + 1
    BY DEF Ages
  <2>4. /\ unseen' \in [Sources -> BOOLEAN]
        /\ inflight' \in [Sources -> Stamps] /\ pending' \in [Sources -> Stamps]
        /\ running' \in [Sources -> 0 .. Timeout + 1]
        /\ since' \in [Sources -> Ages]
        /\ zeroed' \in [Devices -> BOOLEAN]
    BY <1>15, <2>3 DEF Restart, Stamps
  <2>5. /\ pc' = "waiting" /\ tick_in' = Period
        /\ fleet' = "complete" /\ silent' = {} /\ queue' = {} /\ kind' = "none" /\ writing' = 0
        /\ latched' = FALSE /\ asked' = 0 /\ failed' = {} /\ down_first' = {}
    BY <1>15 DEF Restart
  <2>6. tick_in' \in 0 .. Period /\ writing' \in 0 .. WriteTime + SyncTime /\ asked' \in Ages
    BY <2>3, <2>5
  <2> QED
    BY <2>1, <2>2, <2>4, <2>5, <2>6 DEF TypeOK, Kinds
<1> QED
  BY <1>1, <1>2, <1>3, <1>4, <1>5, <1>6, <1>7, <1>8, <1>9, <1>10, <1>11, <1>12, <1>13, <1>14, <1>15
     DEF Next, Sampler, Tick

-----------------------------------------------------------------------------
(* The inductive invariant.                                                  *)

\* A battery an outage has nothing more to do with: idle, or its last write failed.
Quiet(d) == held[d] = "idle" \/ d \in failed

\* Through an outage, a tick under way included: what is written is idle, and a
\* battery is quiet unless its directive is still to be written.
Outage ==
  latched => /\ pc = "acting" => kind = "idle"
             /\ \A d \in Devices : Quiet(d) \/ (pc = "acting" /\ d \in queue)

\* A sample stamped with the round is no older than the round, and a complete
\* fleet was folded from such samples.
Rounds ==
  /\ \A s \in Sources : pending[s] = "current" => since[s] <= asked
  /\ pc = "folded" /\ fleet = "complete" => \A d \in Devices : since[d] <= asked

\* What the directives already written may have cost.
Spent(ds) == (Len(Fleet) - Cardinality(ds)) * WriteTime

\* How old the last answer of a source may be, by where the tick is.
Seen(s) ==
  /\ since[s] <= MaxBlind
  /\ pc # "folded" /\ tick_in > 0 => since[s] <= Window + Period - tick_in
  /\ pc = "acting"  => since[s] <= Window + Spent(queue) + writing
  /\ pc = "syncing" => since[s] <= Window + Len(Fleet) * WriteTime + writing

\* Where the tick is, and with no outage latched how old the answers may be.
Timed ==
  /\ pc = "folded"  => tick_in = Period /\ (fleet # "silent" => \A d \in Devices : ~Down(d))
  /\ pc = "acting"  => writing <= WriteTime
  /\ pc = "syncing" => writing <= SyncTime
  /\ ~latched => \A s \in Sources : Seen(s)

IInv == TypeOK /\ Acts /\ LedgerSound /\ Outage /\ Rounds /\ Timed

\* A process just started knows nothing, has heard everyone and has a period to go.
LEMMA InvInit == Init => IInv
<1> SUFFICES ASSUME Init PROVE IInv
  OBVIOUS
<1>1. TypeOK
  BY TypeInit
<1>2. Acts /\ LedgerSound /\ Outage
  BY DEF Init, Acts, LedgerSound, Outage
<1>3. Rounds
  BY DEF Init, Rounds
<1>4. Timed
  BY TimeFacts, TimeAssumption DEF Init, Timed, Seen
<1> QED
  BY <1>1, <1>2, <1>3, <1>4 DEF IInv

\* The ledger: what is forgotten is forgotten before it can be wrong.
LEMMA LedgerStep == TypeOK /\ LedgerSound /\ [Next]_vars => LedgerSound'
<1> SUFFICES ASSUME TypeOK, LedgerSound, [Next]_vars, NEW d \in Devices, zeroed'[d]
             PROVE  held'[d] = "idle"
  BY DEF LedgerSound
<1>1. CASE UNCHANGED device
  BY <1>1 DEF LedgerSound, device
<1>2. ASSUME NEW e \in Devices, Land(e) PROVE held'[d] = "idle"
  BY <1>2 DEF Land, LedgerSound, TypeOK
<1>3. ASSUME NEW e \in Devices, NEW landed \in BOOLEAN, Lose(e, landed) PROVE held'[d] = "idle"
  BY <1>3 DEF Lose, LedgerSound, TypeOK
<1>4. CASE Restart
  BY <1>4 DEF Restart
<1>5. [Next]_vars => \/ UNCHANGED device \/ Restart
                     \/ \E e \in Devices : Land(e) \/ \E landed \in BOOLEAN : Lose(e, landed)
  BY DEF Next, Tick, Sampler, Request, Deliver, Fail, FoldDevices, StandDown, TakeMeter, Decide,
         Skip, Suppress, Unsent, AskRound, Pass, vars
<1> QED
  BY <1>1, <1>2, <1>3, <1>4, <1>5

\* An outage: no step leaves a battery running behind its back.
LEMMA OutageStep == TypeOK /\ Acts /\ LedgerSound /\ Outage /\ [Next]_vars => Outage'
<1> SUFFICES ASSUME TypeOK, Acts, LedgerSound, Outage, [Next]_vars PROVE Outage'
  OBVIOUS
<1>1. CASE UNCHANGED vars
  BY <1>1 DEF Outage, Quiet, vars, loop, device, history
<1>2. ASSUME NEW s \in Sources, Sampler(s) PROVE Outage'
  BY <1>2 DEF Outage, Quiet, Sampler, Request, Deliver, Fail, loop, device, history
<1>3. CASE FoldDevices
  BY <1>3 DEF Outage, Quiet, FoldDevices, device, history
<1>4. CASE StandDown
  <2>1. pc = "folded" /\ kind' = "idle" /\ held' = held
    BY <1>4 DEF StandDown, TakeMeter, Act, device
  <2>2. CASE latched
    BY <1>4, <2>1, <2>2 DEF StandDown, Outage, Quiet
  <2>3. CASE ~latched
    BY <1>4, <2>1, <2>3, FleetFacts DEF StandDown, Idled, Act, Outage
  <2> QED
    BY <2>2, <2>3
<1>5. ASSUME NEW what \in Kinds, Decide(what) PROVE Outage'
  BY <1>5 DEF Decide, Outage
<1>6. CASE Skip
  BY <1>6 DEF Skip, TakeMeter, Act, Outage, Quiet, device
<1>7. ASSUME NEW d \in Devices, Writing(d), Written(d), latched,
             held'[d] = "idle" \/ d \in failed',
             \A e \in Devices \ {d} : held'[e] = held[e] /\ (e \in failed => e \in failed')
      PROVE  Outage'
  <2>1. pc = "acting" /\ d \in queue /\ queue' = queue \ {d} /\ kind' = kind /\ kind = "idle"
    BY <1>7 DEF Writing, Written, Outage
  <2>2. pc' = "acting" \/ queue' = {}
    BY <1>7, <2>1 DEF Written
  <2>3. ASSUME NEW e \in Devices PROVE Quiet(e)' \/ (pc' = "acting" /\ e \in queue')
    BY <1>7, <2>1, <2>2 DEF Outage, Quiet
  <2> QED
    BY <2>1, <2>3 DEF Outage
<1>8. ASSUME NEW d \in Devices, Written(d), ~latched PROVE Outage'
  BY <1>8 DEF Written, Outage
<1>9. ASSUME NEW d \in Devices, Suppress(d) PROVE Outage'
  <2>1. held[d] = "idle"
    BY <1>9 DEF Suppress, Satisfied, LedgerSound
  <2> QED
    BY <1>7, <1>8, <1>9, <2>1 DEF Suppress, device
<1>10. ASSUME NEW d \in Devices, Land(d) PROVE Outage'
  <2>1. CASE latched
    <3>1. kind = "idle"
      BY <1>10, <2>1 DEF Land, Writing, Outage
    <3> QED
      BY <1>7, <1>10, <2>1, <3>1 DEF Land, TypeOK
  <2> QED
    BY <1>8, <1>10, <2>1 DEF Land
<1>11. ASSUME NEW d \in Devices, NEW landed \in BOOLEAN, Lose(d, landed) PROVE Outage'
  BY <1>7, <1>8, <1>11 DEF Lose, TypeOK
<1>12. ASSUME NEW d \in Devices, Unsent(d) PROVE Outage'
  BY <1>7, <1>8, <1>12 DEF Unsent, device
<1>13. CASE AskRound
  BY <1>13 DEF AskRound, Outage, Quiet, device
<1>14. CASE Pass
  BY <1>14 DEF Pass, Outage, Quiet, device
<1>15. CASE Restart
  BY <1>15 DEF Restart, Outage
<1> QED
  BY <1>1, <1>2, <1>3, <1>4, <1>5, <1>6, <1>9, <1>10, <1>11, <1>12, <1>13, <1>14, <1>15 DEF Next, Tick

\* The stamps: what answers an older round is never taken for this one.
LEMMA RoundsStep == TypeOK /\ Rounds /\ [Next]_vars => Rounds'
<1> SUFFICES ASSUME TypeOK, Rounds, [Next]_vars PROVE Rounds'
  OBVIOUS
<1>1. ASSUME UNCHANGED <<since, asked, pc, fleet>>,
             \A s \in Sources : pending'[s] = "current" => pending[s] = "current"
      PROVE  Rounds'
  BY <1>1 DEF Rounds
<1>2. ASSUME NEW s \in Sources, Deliver(s) PROVE Rounds'
  BY <1>2 DEF Rounds, Deliver, TypeOK, Ages, loop, history
<1>3. CASE FoldDevices
  <2>1. \A s \in Sources : pending'[s] = "current" => pending[s] = "current"
    BY <1>3 DEF FoldDevices, Taken
  <2>2. fleet' = "complete" => \A d \in Devices : since[d] <= asked
    BY <1>3 DEF FoldDevices, FleetVerdict, IsFresh, Rounds, Sources
  <2> QED
    BY <1>3, <2>1, <2>2 DEF FoldDevices, Rounds, history
<1>4. CASE TakeMeter /\ pc' # "folded"
  <2>1. \A s \in Sources : pending'[s] = "current" => pending[s] = "current"
    BY <1>4 DEF TakeMeter, Taken
  <2> QED
    BY <1>4, <2>1 DEF TakeMeter, Rounds
<1>5. ASSUME NEW what \in Kinds, StandDown \/ Decide(what) \/ Skip PROVE Rounds'
  BY <1>4, <1>5 DEF StandDown, Decide, Skip, Act
<1>6. ASSUME NEW d \in Devices, Written(d) PROVE Rounds'
  BY <1>6 DEF Written, Rounds, slots
<1>7. CASE AskRound
  <2>1. \A s \in Sources : pending'[s] # "current"
    BY <1>7 DEF AskRound, Older
  <2> QED
    BY <1>7, <2>1 DEF AskRound, Rounds
<1>8. CASE Pass
  <2>1. pc # "folded" /\ pc' = pc /\ pending' = pending
    BY <1>8 DEF Pass
  <2>2. ASSUME NEW s \in Sources, since[s] <= asked PROVE since'[s] <= asked'
    <3>1. since'[s] = Older1(since[s]) /\ asked' = Older1(asked)
      BY <1>8 DEF Pass
    <3> QED
      BY <2>2, <3>1, TimeFacts DEF Older1, TypeOK, Ages
  <2> QED
    BY <2>1, <2>2 DEF Rounds
<1>9. CASE Restart
  BY <1>9 DEF Restart, Rounds
<1>10. ASSUME NEW s \in Sources, Request(s) \/ Fail(s) PROVE Rounds'
  BY <1>1, <1>10 DEF Request, Fail, slots, loop, history
<1>11. CASE UNCHANGED vars
  BY <1>1, <1>11 DEF vars, slots, loop, history
<1> QED
  BY <1>2, <1>3, <1>5, <1>6, <1>7, <1>8, <1>9, <1>10, <1>11
     DEF Next, Tick, Sampler, Suppress, Land, Lose, Unsent, Kinds

-----------------------------------------------------------------------------
(* The time a tick takes.                                                    *)

\* A write adds its longest time to what a tick may have spent, and the last one
\* leaves what all of them may take.
LEMMA SpentFacts ==
  ASSUME NEW ds \in SUBSET Devices
  PROVE  /\ Spent(ds) \in Nat
         /\ ds # {} => Spent(ds) + WriteTime <= Len(Fleet) * WriteTime
         /\ \A d \in ds : Spent(ds \ {d}) = Spent(ds) + WriteTime
<1>1. /\ IsFiniteSet(ds)
      /\ Cardinality(ds) \in Nat
      /\ Cardinality(ds) <= Len(Fleet)
      /\ Len(Fleet) \in Nat
  BY FleetFacts, FS_Subset, FS_CardinalityType
<1>2. \A m, w \in Nat : m * w \in Nat /\ (m + 1) * w = m * w + w
  OBVIOUS
<1>3. \A m, n, w \in Nat : m + 1 <= n => m * w + w <= n * w
  OBVIOUS
<1>4. Len(Fleet) - Cardinality(ds) \in Nat
  BY <1>1
<1>5. Spent(ds) \in Nat
  BY <1>2, <1>4, TimeAssumption DEF Spent
<1>6. ASSUME ds # {} PROVE Spent(ds) + WriteTime <= Len(Fleet) * WriteTime
  <2>1. Cardinality(ds) # 0
    BY <1>1, <1>6, FS_EmptySet
  <2>2. (Len(Fleet) - Cardinality(ds)) + 1 <= Len(Fleet)
    BY <1>1, <2>1
  <2> QED
    BY <1>1, <1>3, <1>4, <2>2, TimeAssumption DEF Spent
<1>7. ASSUME NEW d \in ds PROVE Spent(ds \ {d}) = Spent(ds) + WriteTime
  <2>1. Cardinality(ds \ {d}) = Cardinality(ds) - 1
    BY <1>1, FS_RemoveElement
  <2>2. Len(Fleet) - Cardinality(ds \ {d}) = (Len(Fleet) - Cardinality(ds)) + 1
    BY <1>1, <2>1
  <2> QED
    BY <1>2, <1>4, <2>2, TimeAssumption DEF Spent
<1> QED
  BY <1>5, <1>6, <1>7

\* A tick that finds no source Down has heard every one of them within the window.
LEMMA TakesOver ==
  ASSUME TypeOK, Timed, Decide("none") \/ Decide("idle") \/ Decide("power") \/ Skip
  PROVE  \A s \in Sources : since[s] <= Window
<1>1. pc = "folded" /\ fleet # "silent" /\ ~Down(Meter)
  BY DEF Decide, Skip, TakeMeter, IsFresh
<1> QED
  BY <1>1, TimeAssumption DEF Timed, Down, Sources, TypeOK, Ages

\* Time: while no outage is latched no answer is older than the window and the
\* tick that has not looked at it yet.
LEMMA TimedStep == TypeOK /\ Acts /\ Timed /\ [Next]_vars => Timed'
<1> SUFFICES ASSUME TypeOK, Acts, Timed, [Next]_vars PROVE Timed'
  OBVIOUS
<1> USE TimeFacts, TimeAssumption
<1>1. ASSUME UNCHANGED <<loop, slots>> PROVE Timed'
  BY <1>1 DEF Timed, Seen, Down, loop, slots
<1>2. ASSUME NEW s \in Sources, Request(s) \/ Fail(s) PROVE Timed'
  BY <1>1, <1>2 DEF Request, Fail
<1>3. ASSUME NEW s \in Sources, Deliver(s) PROVE Timed'
  <2>1. UNCHANGED loop /\ \A r \in Sources : since'[r] = IF r = s THEN 0 ELSE since[r]
    BY <1>3 DEF Deliver, TypeOK
  <2>2. Spent(queue) \in Nat /\ Len(Fleet) * WriteTime \in Nat /\ Devices \subseteq Sources
    BY SpentFacts, FleetFacts DEF TypeOK, Sources
  <2>4. Spent(queue)' = Spent(queue)
    BY <2>1 DEF Spent, loop
  <2>3. ASSUME NEW r \in Sources, Seen(r) PROVE Seen(r)'
    <3>1. CASE r = s
      <4>1. since'[r] = 0 /\ tick_in' = tick_in /\ writing' = writing /\ pc' = pc
        BY <2>1, <3>1 DEF loop
      <4>2. tick_in \in Nat /\ tick_in <= Period /\ writing \in Nat
        BY DEF TypeOK
      <4>3. 0 <= Window + Spent(queue) + writing /\ 0 <= Window + Len(Fleet) * WriteTime + writing
        BY <2>2, <4>2
      <4> QED
        BY <2>4, <4>1, <4>2, <4>3 DEF Seen
    <3>2. CASE r # s
      BY <2>1, <2>3, <2>4, <3>2 DEF Seen, loop
    <3> QED
      BY <3>1, <3>2
  <2> QED
    BY <2>1, <2>2, <2>3 DEF Timed, Down, loop
<1>4. CASE FoldDevices
  <2>1. /\ pc = "waiting" /\ pc' = "folded" /\ tick_in' = Period
        /\ since' = since /\ latched' = latched
    BY <1>4 DEF FoldDevices
  <2>2. fleet' # "silent" => \A d \in Devices : ~Down(d)
    BY <1>4 DEF FoldDevices, FleetVerdict
  <2> QED
    BY <2>1, <2>2 DEF Timed, Seen, Down
<1>5. CASE StandDown
  BY <1>5 DEF StandDown, Act, Timed
<1>6. ASSUME NEW what \in Kinds, Decide(what) \/ Skip PROVE Timed'
  <2>1. \A s \in Sources : since[s] <= Window
    BY <1>6, TakesOver DEF Kinds
  <2>2. /\ pc = "folded" /\ pc' \in {"acting", "syncing"} /\ writing' = 0
        /\ tick_in' = tick_in /\ since' = since
    BY <1>6 DEF Decide, Skip, TakeMeter, Act
  <2>3. queue' \subseteq Devices
    BY <1>6, FleetFacts DEF Decide, Skip, Act, Kinds
  <2>4. Spent(queue') \in Nat /\ Len(Fleet) * WriteTime \in Nat
    BY <2>3, SpentFacts, FleetFacts
  <2>5. tick_in = Period
    BY <2>2 DEF Timed
  <2>6. Spent(queue)' = Spent(queue')
    BY DEF Spent
  <2>7. ASSUME NEW s \in Sources PROVE Seen(s)'
    <3>1. since[s] \in Nat /\ since[s] <= Window /\ since'[s] = since[s]
      BY <2>1, <2>2 DEF TypeOK, Ages
    <3>2. since[s] <= MaxBlind /\ since[s] <= Window + Period - Period
      BY <3>1
    <3>3. since[s] <= Window + Spent(queue)' + 0 /\ since[s] <= Window + Len(Fleet) * WriteTime + 0
      BY <2>4, <2>6, <3>1
    <3> QED
      BY <2>2, <2>5, <3>1, <3>2, <3>3 DEF Seen
  <2> QED
    BY <2>2, <2>7 DEF Timed
<1>7. ASSUME NEW d \in Devices, Writing(d), Written(d) PROVE Timed'
  <2>1. /\ pc = "acting" /\ d \in queue /\ queue' = queue \ {d} /\ writing' = 0
        /\ pc' = IF queue = {d} THEN "syncing" ELSE "acting"
        /\ UNCHANGED <<since, tick_in, latched>>
    BY <1>7 DEF Writing, Written, slots
  <2>2. /\ Spent(queue) \in Nat
        /\ Spent(queue') = Spent(queue) + WriteTime
        /\ Spent(queue) + WriteTime <= Len(Fleet) * WriteTime
    BY <2>1, SpentFacts DEF TypeOK
  <2>3. ASSUME NEW s \in Sources, Seen(s) PROVE Seen(s)'
    <3>1. since[s] <= Window + Spent(queue) + WriteTime
      BY <2>1, <2>2, <2>3 DEF Timed, Seen, TypeOK, Ages
    <3>2. Spent(queue)' = Spent(queue') /\ Len(Fleet) * WriteTime \in Nat
      BY FleetFacts DEF Spent
    <3> QED
      BY <2>1, <2>2, <2>3, <3>1, <3>2 DEF Seen, TypeOK, Ages
  <2> QED
    BY <2>1, <2>3 DEF Timed
<1>8. CASE AskRound
  BY <1>8 DEF AskRound, Timed, Seen
<1>9. CASE Pass
  <2>1. /\ pc' = pc /\ fleet' = fleet /\ queue' = queue /\ latched' = latched
        /\ tick_in' = IF tick_in > 0 THEN tick_in - 1 ELSE 0
        /\ writing' = IF pc = "waiting" THEN 0 ELSE writing + 1
    BY <1>9 DEF Pass
  <2>2. \/ pc = "waiting" /\ tick_in > 0
        \/ pc = "acting"  /\ writing < WriteTime
        \/ pc = "syncing" /\ writing < SyncTime
    BY <1>9 DEF Pass
  <2>3. Spent(queue)' = Spent(queue) /\ Spent(queue) \in Nat /\ Len(Fleet) * WriteTime \in Nat
    BY <2>1, SpentFacts, FleetFacts DEF Spent, TypeOK
  <2>4. pc = "acting" => Spent(queue) + WriteTime <= Len(Fleet) * WriteTime
    BY SpentFacts DEF Acts, TypeOK
  <2>5. ASSUME NEW s \in Sources, Seen(s) PROVE Seen(s)'
    <3>1. since'[s] = since[s] + 1
      <4>1. since'[s] = Older1(since[s])
        BY <1>9 DEF Pass
      <4>2. since[s] \in Nat /\ since[s] <= MaxBlind
        BY <2>5 DEF Seen, TypeOK, Ages
      <4> QED
        BY <4>1, <4>2 DEF Older1
    <3>2. since[s] + 1 <= MaxBlind
      BY <2>2, <2>3, <2>4, <2>5 DEF Seen, Body, TypeOK, Ages
    <3> QED
      BY <2>1, <2>2, <2>3, <2>5, <3>1, <3>2 DEF Seen, TypeOK, Ages
  <2> QED
    BY <2>1, <2>2, <2>5 DEF Timed, TypeOK
<1>10. CASE Restart
  BY <1>10 DEF Restart, Timed, Seen
<1>11. CASE UNCHANGED vars
  BY <1>1, <1>11 DEF vars
<1> QED
  BY <1>2, <1>3, <1>4, <1>5, <1>6, <1>7, <1>8, <1>9, <1>10, <1>11
     DEF Next, Tick, Sampler, Suppress, Land, Lose, Unsent, Kinds

\* The inductive invariant is one.
LEMMA InvStep == IInv /\ [Next]_vars => IInv'
BY TypeStep, ActsStep, LedgerStep, OutageStep, RoundsStep, TimedStep DEF IInv

\* The inductive invariant holds throughout.
THEOREM Invariance == Spec => []IInv
BY InvInit, InvStep, PTL DEF Spec

-----------------------------------------------------------------------------
(* What it shows.                                                            *)

\* CONTROL-2, CONTROL-5: the types hold, what the ledger knows is true, and once a
\* tick of an outage is over the only batteries not idle are those whose last
\* write failed; for every fleet and whatever is lost, late or cut short.
THEOREM CommandsAreSound == Spec => []CommandsSound
<1>1. IInv => CommandsSound
  BY DEF IInv, CommandsSound, Outage, Quiet, OutageIdles
<1> QED
  BY <1>1, Invariance, PTL

\* No source goes unheard for longer than the window and one period, or one tick's
\* body when that is longer, without the loop standing the fleet down.
THEOREM BlindnessIsBounded == Spec => []BlindnessBounded
<1>1. IInv => BlindnessBounded
  BY TimeFacts DEF IInv, BlindnessBounded, Timed, Seen, TypeOK, Ages
<1> QED
  BY <1>1, Invariance, PTL

\* CONTROL-2: a decision reads no sample older than its round.
THEOREM DecisionsAreTogether == Spec => DecidedTogether
<1>1. ASSUME IInv, Next, Committing PROVE \A s \in Sources : since[s] <= asked
  <2>1. /\ pc = "folded" /\ pc' # "folded" /\ ~latched' /\ kind' # "none"
    BY <1>1 DEF Committing
  <2>2. PICK what \in Kinds : Decide(what)
    BY <1>1, <2>1 DEF Next, Tick, Sampler, Request, Deliver, Fail, FoldDevices, StandDown, Skip,
                      Act, Suppress, Land, Lose, Unsent, Writing, AskRound, Pass, Restart, loop
  <2> QED
    BY <1>1, <2>2 DEF Decide, TakeMeter, IsFresh, IInv, Rounds, Sources
<1>2. IInv /\ [Next]_vars => [Committing => \A s \in Sources : since[s] <= asked]_vars
  BY <1>1
<1> QED
  BY <1>2, Invariance, PTL DEF Spec, DecidedTogether

-----------------------------------------------------------------------------
(* The abstract failsafe.                                                    *)

\* A loop just started has looked at nothing.
LEMMA PromiseInit == Init => Promise!Init
BY DEF Init, Promise!Init, Promise!Commands

\* Every step of the loop is one the failsafe allows, or none of its business.
LEMMA PromiseStep == IInv /\ [Next]_vars => [Promise!Next]_(Promise!vars)
<1> SUFFICES ASSUME IInv, [Next]_vars PROVE [Promise!Next]_(Promise!vars)
  OBVIOUS
<1> DEFINE permit == IF pc \notin {"acting", "syncing"} \/ kind = "none" THEN "none"
                     ELSE IF latched THEN "idle" ELSE "any"
<1> USE DEF IInv, Promise!vars
<1>1. ASSUME permit' = permit, UNCHANGED <<latched, held, failed>>
      PROVE  UNCHANGED Promise!vars
  BY <1>1
<1>2. CASE UNCHANGED vars
  BY <1>1, <1>2 DEF vars, loop, device, history
<1>3. ASSUME NEW s \in Sources, Sampler(s) PROVE UNCHANGED Promise!vars
  BY <1>1, <1>3 DEF Sampler, Request, Deliver, Fail, loop, device, history
<1>4. CASE FoldDevices \/ Pass
  BY <1>1, <1>4 DEF FoldDevices, Pass, device, history
<1>5. CASE StandDown
  BY <1>5 DEF StandDown, TakeMeter, Act, device, Promise!Next, Promise!LooksSilent
<1>6. ASSUME NEW what \in Kinds, Decide(what) PROVE Promise!Next
  BY <1>6 DEF Decide, TakeMeter, Act, device, Promise!Next, Promise!LooksComplete
<1>7. CASE Skip
  BY <1>1, <1>7 DEF Skip, TakeMeter, Act, device
<1>8. ASSUME NEW d \in Devices, Writing(d), Written(d)
      PROVE  permit' = permit /\ latched' = latched /\ permit # "none" /\ Promise!Permitted(kind)
  BY <1>8 DEF Writing, Written, Acts, Outage, Promise!Permitted
<1>9. ASSUME NEW d \in Devices, Suppress(d) PROVE Promise!Next
  <2>1. kind = "idle" /\ held[d] = "idle" /\ held' = [held EXCEPT ![d] = "idle"]
    BY <1>9 DEF Suppress, Satisfied, LedgerSound, TypeOK, device
  <2>2. Promise!Write(d, "idle")
    BY <1>8, <1>9, <2>1 DEF Suppress, Promise!Write
  <2> QED
    BY <2>2 DEF Promise!Next, Promise!Commands
<1>10. ASSUME NEW d \in Devices, Land(d) PROVE Promise!Next
  <2>1. kind \in Promise!Commands
    BY <1>10 DEF Land, Writing, Acts, TypeOK, Kinds, Promise!Commands
  <2>2. Promise!Write(d, kind)
    BY <1>8, <1>10 DEF Land, Promise!Write
  <2> QED
    BY <2>1, <2>2 DEF Promise!Next
<1>11. ASSUME NEW d \in Devices, NEW landed \in BOOLEAN, Lose(d, landed) \/ Unsent(d)
       PROVE  Promise!Next
  <2>1. kind \in Promise!Commands
    BY <1>11 DEF Lose, Unsent, Writing, Acts, TypeOK, Kinds, Promise!Commands
  <2>2. Promise!Miss(d)
    BY <1>8, <1>11, <2>1 DEF Lose, Unsent, device, Promise!Miss
  <2> QED
    BY <2>2 DEF Promise!Next
<1>12. CASE AskRound
  <2>1. latched => \A d \in Devices : held[d] = "idle" \/ d \in failed
    BY <1>12 DEF AskRound, Outage, Quiet
  <2> QED
    BY <1>12, <2>1 DEF AskRound, device, Promise!Next, Promise!Ends
<1>13. CASE Restart
  <2>1. ASSUME NEW d \in Devices, Writing(d), held' = [held EXCEPT ![d] = kind]
        PROVE  /\ kind \in Promise!Commands
               /\ Promise!Permitted(kind)
    BY <2>1 DEF Writing, Acts, Outage, TypeOK, Kinds, Promise!Commands, Promise!Permitted
  <2> QED
    BY <1>13, <2>1 DEF Restart, Promise!Next, Promise!Restarts
<1> QED
  BY <1>2, <1>3, <1>4, <1>5, <1>6, <1>7, <1>9, <1>10, <1>11, <1>12, <1>13 DEF Next, Tick

\* The loop implements the abstract failsafe, step by step.
THEOREM ImplementsFailsafe == Spec => FailsafeKept
<1>1. IInv /\ [Next]_vars => [Promise!Next]_(Promise!vars)
  BY PromiseStep
<1> QED
  BY <1>1, PromiseInit, Invariance, PTL DEF Spec, FailsafeKept, Promise!Spec
====
