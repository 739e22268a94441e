---------------------------- MODULE ShutdownProofs ----------------------------
(***************************************************************************)
(* Proofs about Shutdown, for every set of samplers, every deadline and       *)
(* whichever tasks take their time.                                         *)
(***************************************************************************)
EXTENDS Shutdown, FiniteSetTheorems, TLAPS

-----------------------------------------------------------------------------
(* The inductive invariant.                                                  *)

AfterForecast  == {"prices", "publisher", "writer", "web", "car", "returned", "exited"}
AfterPrices    == AfterForecast \ {"prices"}
AfterPublisher == AfterPrices \ {"publisher"}

\* Who has been stopped by the time of each wait.
Stopped ==
  /\ at \notin {"looping", "ticking"} => told /\ "dashboard" \notin own
  /\ at \in AfterForecast  => "forecast" \notin alive
  /\ at \in AfterPrices    => alive \cap {"prices", "charger"} = {}
  /\ at \in AfterPublisher => alive \cap Sources = {} /\ "journal" \notin own

\* A wait lasts only for a task that is slow itself or, for the dashboard, for the
\* car battery's poll.
Prompted ==
  /\ at = "writer" /\ "writer" \in alive \ slow => waited = 0
  /\ at = "web" /\ {"web", "car"} \cap slow = {} => waited = 0

\* Until it has drained, the publisher has the connection, or the connection has
\* ended by itself.
Connected ==
  "publisher" \in alive /\ at \notin AfterPublisher => "connection" \in alive \cup ended

\* The waits behind it.
Behind == [looping |-> 0, ticking |-> 0, forecast |-> 0, prices |-> 1, publisher |-> 2,
           writer |-> 3, web |-> 4, car |-> 5, returned |-> 6, exited |-> 6]

\* No wait has taken longer than its deadline.
Clocked ==
  /\ elapsed <= Behind[at] * Deadline + waited
  /\ at \notin Waits => waited = 0

IInv == TypeOK /\ Stopped /\ Prompted /\ Connected /\ Clocked /\ JournalUnheld /\ TabsFreed

-----------------------------------------------------------------------------
(* The tasks and the waits.                                                  *)

\* What `run` waits for, one after the other.
LEMMA WaitFacts ==
  /\ Waits = {"forecast", "prices", "publisher", "writer", "web", "car"}
  /\ Then["forecast"] = "prices" /\ Then["prices"] = "publisher"
  /\ Then["publisher"] = "writer" /\ Then["writer"] = "web"
  /\ Then["web"] = "car" /\ Then["car"] = "returned"
BY DEF Waits, Then

\* There are six of them.
LEMMA WaitCount == Cardinality(Waits) = 6
<1> DEFINE w1 == {"forecast"}
           w2 == w1 \cup {"prices"}
           w3 == w2 \cup {"publisher"}
           w4 == w3 \cup {"writer"}
           w5 == w4 \cup {"web"}
           w6 == w5 \cup {"car"}
<1>1. IsFiniteSet(w1) /\ Cardinality(w1) = 1
  BY FS_Singleton
<1>2. IsFiniteSet(w2) /\ Cardinality(w2) = 2
  BY <1>1, FS_AddElement
<1>3. IsFiniteSet(w3) /\ Cardinality(w3) = 3
  BY <1>2, FS_AddElement
<1>4. IsFiniteSet(w4) /\ Cardinality(w4) = 4
  BY <1>3, FS_AddElement
<1>5. IsFiniteSet(w5) /\ Cardinality(w5) = 5
  BY <1>4, FS_AddElement
<1>6. IsFiniteSet(w6) /\ Cardinality(w6) = 6
  BY <1>5, FS_AddElement
<1>7. Waits = w6
  BY WaitFacts
<1> QED
  BY <1>6, <1>7

\* A wait moves one deadline on.
LEMMA BehindFacts ==
  /\ \A w \in Waits : Behind[w] \in 0 .. 5 /\ Behind[Then[w]] = Behind[w] + 1
  /\ Behind["looping"] = 0 /\ Behind["ticking"] = 0 /\ Behind["forecast"] = 0
  /\ Behind["returned"] = 6 /\ Behind["exited"] = 6
BY WaitFacts DEF Behind

\* Nothing stops the connection, the publisher or the writer by their own names.
LEMMA TaskFacts ==
  /\ MayBeSlow = {"forecast", "prices", "car", "publisher", "web", "writer"}
  /\ Sources \cap (MayBeSlow \cup {"charger"}) = {}
  /\ "connection" \in Sources
BY SamplerAssumption DEF MayBeSlow, Pollers, Sources

-----------------------------------------------------------------------------
(* The invariant.                                                            *)

\* A process just started runs its loop, with everything it was configured with.
LEMMA InvInit == Init => IInv
<1> SUFFICES ASSUME Init PROVE IInv
  OBVIOUS
<1>1. PICK mqtt, web, car \in BOOLEAN : alive = Started(mqtt, web, car)
  BY DEF Init
<1>2. alive \subseteq Tasks /\ ("publisher" \in alive => "connection" \in alive)
  BY <1>1, SamplerAssumption DEF Started, Tasks, Sources, Pollers
<1>3. TypeOK
  <2>1. slow \subseteq MayBeSlow /\ own \subseteq {"journal", "dashboard"}
    BY DEF Init
  <2>2. rows \in 0 .. MaxRows /\ waited \in 0 .. Deadline /\ elapsed \in Nat
    BY DeadlineAssumption DEF Init
  <2> QED
    BY <1>2, <2>1, <2>2 DEF Init, TypeOK
<1>4. Clocked
  BY BehindFacts, DeadlineAssumption DEF Init, Clocked
<1> QED
  BY <1>2, <1>3, <1>4
     DEF Init, IInv, Stopped, Prompted, Connected, JournalUnheld, TabsFreed,
         AfterForecast, AfterPrices, AfterPublisher

\* No step takes a variable out of its type.
LEMMA TypeStep == TypeOK /\ [Next]_vars => TypeOK'
<1> SUFFICES ASSUME TypeOK, [Next]_vars PROVE TypeOK'
  OBVIOUS
<1>1. CASE UNCHANGED vars
  BY <1>1 DEF TypeOK, vars
<1>2. CASE Signal \/ ChargerEnds \/ Ticks \/ Exits
  BY <1>2 DEF TypeOK, Signal, ChargerEnds, Ticks, Exits
<1>3. CASE Hands \/ Writes
  <2>1. rows' \in 0 .. MaxRows
    BY <1>3, DeadlineAssumption DEF TypeOK, Hands, Writes
  <2> QED
    BY <1>3, <2>1 DEF TypeOK, Hands, Writes
<1>4. CASE Browses
  BY <1>4 DEF TypeOK, Browses
<1>9. 0 \in 0 .. Deadline
  BY DeadlineAssumption
<1>10. CASE Leaves
  BY <1>9, <1>10, WaitFacts DEF TypeOK, Leaves, Left
<1>5. ASSUME NEW s \in Sources, SourceEnds(s) PROVE TypeOK'
  BY <1>5 DEF TypeOK, SourceEnds
<1>6. ASSUME NEW t \in Tasks, Ends(t) PROVE TypeOK'
  BY <1>6 DEF TypeOK, Ends
<1>7. CASE Proceeds
  <2>1. at' \in {"returned"} \cup Waits
    BY <1>7, WaitFacts DEF Proceeds
  <2>2. late' \subseteq MayBeSlow
    BY <1>7, WaitFacts, TaskFacts DEF Proceeds, TypeOK
  <2>3. alive' \subseteq alive /\ own' \subseteq own /\ waited' = 0
        /\ UNCHANGED <<slow, stopped, told, rows, tab, ended, elapsed>>
    BY <1>7 DEF Proceeds
  <2> QED
    BY <1>9, <2>1, <2>2, <2>3 DEF TypeOK
<1>8. CASE Passes
  BY <1>8, DeadlineAssumption DEF TypeOK, Passes, Patience
<1> QED
  BY <1>1, <1>2, <1>3, <1>4, <1>5, <1>6, <1>7, <1>8, <1>10 DEF Next

\* Who has been stopped stays so: no step starts a task.
LEMMA StoppedStep == TypeOK /\ Stopped /\ [Next]_vars => Stopped'
<1> SUFFICES ASSUME TypeOK, Stopped, [Next]_vars PROVE Stopped'
  OBVIOUS
<1> USE DEF AfterForecast, AfterPrices, AfterPublisher
<1>1. ASSUME at' = at, told' = told, own' \subseteq own, alive' \subseteq alive PROVE Stopped'
  BY <1>1 DEF Stopped
<1>2. CASE Proceeds
  <2>1. /\ at \in Waits /\ at' = Then[at] /\ told' = told
        /\ own' = own \ Dropped(at)
        /\ alive' \subseteq alive \ StopsAfter(at)
        /\ at # "writer" => at \notin alive'
    BY <1>2, WaitFacts DEF Proceeds, Aborts
  <2> QED
    BY <2>1, WaitFacts DEF Stopped, StopsAfter, Dropped
<1>3. CASE Leaves
  BY <1>3 DEF Leaves, Left, Stopped
<1>4. CASE Ticks \/ Exits
  BY <1>4 DEF Ticks, Exits, Stopped
<1>5. CASE UNCHANGED vars
  BY <1>1, <1>5 DEF vars
<1>6. CASE Signal \/ ChargerEnds \/ Hands \/ Writes \/ Browses \/ Passes
  BY <1>1, <1>6 DEF Signal, ChargerEnds, Hands, Writes, Browses, Passes
<1>7. ASSUME NEW s \in Sources, SourceEnds(s) PROVE Stopped'
  BY <1>1, <1>7 DEF SourceEnds
<1>8. ASSUME NEW t \in Tasks, Ends(t) PROVE Stopped'
  BY <1>1, <1>8 DEF Ends
<1> QED
  BY <1>2, <1>3, <1>4, <1>5, <1>6, <1>7, <1>8 DEF Next

\* The writer's senders are gone when its wait begins, and the dashboard's once the
\* car battery's poll is.
LEMMA PromptedStep == TypeOK /\ Stopped /\ Prompted /\ [Next]_vars => Prompted'
<1> SUFFICES ASSUME TypeOK, Stopped, Prompted, [Next]_vars PROVE Prompted'
  OBVIOUS
<1>1. ASSUME waited' = 0 PROVE Prompted'
  BY <1>1 DEF Prompted
<1>2. ASSUME UNCHANGED <<at, slow, waited>>, alive' \subseteq alive PROVE Prompted'
  BY <1>2 DEF Prompted
<1>3. CASE Passes
  <2>1. at' = at /\ slow' = slow /\ alive' = alive /\ at \in alive /\ \A t \in MayBeSlow : ~Prompt(t)
    BY <1>3 DEF Passes
  <2>2. ASSUME at = "writer", "writer" \notin slow PROVE FALSE
    <3>1. JournalSenders = {}
      BY <2>2 DEF JournalSenders, Holding, Stopped, Sources, AfterForecast, AfterPrices, AfterPublisher
    <3>2. Prompt("writer")
      BY <2>1, <2>2, <3>1 DEF Prompt, Closed
    <3> QED
      BY <2>1, <3>2, TaskFacts
  <2>3. ASSUME at = "web", {"web", "car"} \cap slow = {} PROVE FALSE
    <3>1. told /\ "dashboard" \notin own /\ {"forecast", "prices"} \cap alive = {}
      BY <2>3 DEF Stopped, AfterForecast, AfterPrices, AfterPublisher
    <3>2. "car" \notin alive
      <4>1. Released("car")
        BY <3>1, TaskFacts DEF Released, Pollers
      <4> QED
        BY <2>1, <2>3, <4>1, TaskFacts DEF Prompt, Closed
    <3>3. DashboardSenders = {}
      BY <3>1, <3>2 DEF DashboardSenders, Holding, Pollers
    <3>4. Released("web")
      BY <3>1, <3>3, SamplerAssumption DEF Released, Pollers
    <3> QED
      BY <2>1, <2>3, <3>4, TaskFacts DEF Prompt, Closed
  <2> QED
    BY <2>1, <2>2, <2>3 DEF Prompted
<1>4. CASE Leaves \/ Proceeds
  BY <1>1, <1>4 DEF Leaves, Proceeds
<1>5. CASE Ticks \/ Exits
  BY <1>5 DEF Ticks, Exits, Prompted
<1>6. CASE UNCHANGED vars
  BY <1>2, <1>6 DEF vars
<1>7. CASE Signal \/ ChargerEnds \/ Hands \/ Writes \/ Browses
  BY <1>2, <1>7 DEF Signal, ChargerEnds, Hands, Writes, Browses
<1>8. ASSUME NEW s \in Sources, SourceEnds(s) PROVE Prompted'
  BY <1>2, <1>8 DEF SourceEnds
<1>9. ASSUME NEW t \in Tasks, Ends(t) PROVE Prompted'
  BY <1>2, <1>9 DEF Ends
<1> QED
  BY <1>3, <1>4, <1>5, <1>6, <1>7, <1>8, <1>9 DEF Next

\* The connection goes by itself, or after the publisher.
LEMMA ConnectedStep == TypeOK /\ Connected /\ [Next]_vars => Connected'
<1> SUFFICES ASSUME TypeOK, Connected, [Next]_vars PROVE Connected'
  OBVIOUS
<1> USE DEF AfterForecast, AfterPrices, AfterPublisher
<1>1. ASSUME at \in AfterPublisher => at' \in AfterPublisher, alive' \subseteq alive, ended \subseteq ended',
             "connection" \in alive => "connection" \in alive' \cup ended'
      PROVE  Connected'
  BY <1>1 DEF Connected
<1>2. CASE Proceeds
  <2>1. CASE at = "publisher"
    BY <1>2, <2>1, WaitFacts DEF Proceeds, Connected
  <2>2. CASE at # "publisher"
    <3>1. at \in Waits /\ at' = Then[at] /\ ended' = ended /\ alive' \subseteq alive
      BY <1>2 DEF Proceeds
    <3>2. "connection" \in alive => "connection" \in alive'
      BY <1>2, <2>2, WaitFacts DEF Proceeds, Aborts, StopsAfter
    <3> QED
      BY <1>1, <3>1, <3>2, WaitFacts
  <2> QED
    BY <2>1, <2>2
<1>3. ASSUME NEW s \in Sources, SourceEnds(s) PROVE Connected'
  BY <1>1, <1>3 DEF SourceEnds
<1>4. ASSUME NEW t \in Tasks, Ends(t) PROVE Connected'
  <2>1. t # "connection"
    BY <1>4, SamplerAssumption DEF Ends, Released, Pollers
  <2> QED
    BY <1>1, <1>4, <2>1 DEF Ends
<1>5. CASE ChargerEnds
  BY <1>1, <1>5 DEF ChargerEnds
<1>6. CASE Signal \/ Hands \/ Writes \/ Browses \/ Passes \/ UNCHANGED vars
  BY <1>1, <1>6 DEF Signal, Hands, Writes, Browses, Passes, vars
<1>7. CASE Leaves \/ Ticks \/ Exits
  BY <1>1, <1>7 DEF Leaves, Ticks, Exits
<1> QED
  BY <1>2, <1>3, <1>4, <1>5, <1>6, <1>7 DEF Next

\* A wait that ends has lasted its deadline at most.
LEMMA ClockedStep == TypeOK /\ Clocked /\ [Next]_vars => Clocked'
<1> SUFFICES ASSUME TypeOK, Clocked, [Next]_vars PROVE Clocked'
  OBVIOUS
<1>1. ASSUME UNCHANGED <<at, waited, elapsed>> PROVE Clocked'
  BY <1>1 DEF Clocked
<1>2. CASE Proceeds
  <2>1. at \in Waits /\ at' = Then[at] /\ waited' = 0 /\ elapsed' = elapsed
    BY <1>2 DEF Proceeds
  <2>2. Behind[at] \in Nat /\ Behind[at'] = Behind[at] + 1
    BY <2>1, BehindFacts
  <2>3. Behind[at'] * Deadline = Behind[at] * Deadline + Deadline
    BY <2>2, DeadlineAssumption
  <2>4. Behind[at] * Deadline \in Nat
    BY <2>2, DeadlineAssumption
  <2>5. elapsed' <= Behind[at'] * Deadline
    BY <2>1, <2>3, <2>4, DeadlineAssumption DEF Clocked, TypeOK
  <2> QED
    BY <2>1, <2>5, <2>4, <2>3, DeadlineAssumption DEF Clocked
<1>3. CASE Passes
  <2>1. Behind[at] * Deadline \in Nat
    BY <1>3, BehindFacts, DeadlineAssumption DEF Passes
  <2> QED
    BY <1>3, <2>1 DEF Passes, Clocked, TypeOK
<1>4. CASE Ticks \/ Leaves
  BY <1>4, BehindFacts, WaitFacts, DeadlineAssumption DEF Ticks, Leaves, Clocked, TypeOK
<1>5. CASE Exits
  BY <1>5, BehindFacts, WaitFacts DEF Exits, Clocked
<1>6. CASE Signal \/ ChargerEnds \/ Hands \/ Writes \/ Browses \/ UNCHANGED vars
  BY <1>1, <1>6 DEF Signal, ChargerEnds, Hands, Writes, Browses, vars
<1>7. ASSUME NEW s \in Sources, SourceEnds(s) PROVE Clocked'
  BY <1>1, <1>7 DEF SourceEnds
<1>8. ASSUME NEW t \in Tasks, Ends(t) PROVE Clocked'
  BY <1>1, <1>8 DEF Ends
<1> QED
  BY <1>2, <1>3, <1>4, <1>5, <1>6, <1>7, <1>8 DEF Next

\* A wait is given up on only where it was due to a slow task.
LEMMA LateStep ==
  TypeOK /\ Prompted /\ JournalUnheld /\ TabsFreed /\ [Next]_vars => JournalUnheld' /\ TabsFreed'
<1> SUFFICES ASSUME TypeOK, Prompted, JournalUnheld, TabsFreed, [Next]_vars
             PROVE  JournalUnheld' /\ TabsFreed'
  OBVIOUS
<1>1. slow' = slow
  BY DEF Next, Signal, ChargerEnds, Hands, Writes, Browses, vars, SourceEnds, Ends, Passes,
         Proceeds, Leaves, Ticks, Exits
<1>2. late' = late \/ Proceeds
  BY DEF Next, Signal, ChargerEnds, Hands, Writes, Browses, vars, SourceEnds, Ends, Passes,
         Leaves, Ticks, Exits
<1>3. ASSUME Proceeds, late' # late
      PROVE  at \in alive /\ waited # 0 /\ late' = late \cup {at}
  BY <1>3, DeadlineAssumption DEF Proceeds, Patience
<1> QED
  BY <1>1, <1>2, <1>3 DEF Prompted, JournalUnheld, TabsFreed

\* The inductive invariant holds throughout.
THEOREM Invariance == Spec => []IInv
<1>1. IInv /\ [Next]_vars => IInv'
  BY TypeStep, StoppedStep, PromptedStep, ConnectedStep, ClockedStep, LateStep DEF IInv
<1> QED
  BY <1>1, InvInit, PTL DEF Spec

-----------------------------------------------------------------------------
(* What it shows.                                                            *)

\* shut_down: no wait is held by a task that should have been stopped before it, what
\* the publisher drains finds a connection, and `run` returns within one deadline
\* for each thing it waits for; whatever is configured and whatever is slow.
THEOREM NobodyIsHeld == Spec => []NobodyHeld
<1>1. ASSUME IInv PROVE DrainsConnected
  BY <1>1 DEF IInv, Connected, DrainsConnected, AfterForecast, AfterPrices, AfterPublisher
<1>2. ASSUME IInv PROVE StoppedInTime
  <2>1. Behind[at] \in 0 .. 6 /\ (at \in Waits => Behind[at] <= 5)
    BY <1>2, BehindFacts DEF IInv, TypeOK
  <2>2. Behind[at] * Deadline + waited <= 6 * Deadline
    BY <1>2, <2>1, DeadlineAssumption DEF IInv, TypeOK, Clocked
  <2> QED
    BY <1>2, <2>1, <2>2, WaitCount, DeadlineAssumption DEF IInv, TypeOK, Clocked, StoppedInTime
<1>3. IInv => NobodyHeld
  BY <1>1, <1>2 DEF IInv, NobodyHeld
<1> QED
  BY <1>3, Invariance, PTL
=============================================================================
