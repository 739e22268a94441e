------------------------------- MODULE Shutdown -------------------------------
(***************************************************************************)
(* The life of the process: the tasks `run` starts, what ends its loop, and    *)
(* the order in which it stops them.  The journal's writer ends once every      *)
(* sender to its queue is gone, a browser's stream once every sender of the     *)
(* dashboard's channel is, and what the publisher drains is refused once the   *)
(* connection is gone: each wait depends on who was stopped before it.        *)
(*                                                                          *)
(* A task is `slow` when it does not end in time of its own: a poll that is not *)
(* cancelled, a broker or a disk that takes nothing, a request being answered. *)
(***************************************************************************)
EXTENDS Integers, FiniteSets

CONSTANTS
  Samplers,          \* the meter's and each battery's
  Deadline,          \* DRAIN_DEADLINE
  MaxRows            \* rows waiting in the journal's queue

Sources  == Samplers \cup {"connection"}
Pollers  == {"forecast", "prices", "car"}
Tasks    == Sources \cup Pollers \cup {"charger", "publisher", "web", "writer"}
MayBeSlow == Pollers \cup {"publisher", "web", "writer"}

\* What `run` waits for, in this order.
Then == [forecast |-> "prices", prices |-> "publisher", publisher |-> "writer",
         writer |-> "web", web |-> "car", car |-> "returned"]
Waits == DOMAIN Then

ASSUME DeadlineAssumption == Deadline \in Nat \ {0} /\ MaxRows \in Nat
ASSUME SamplerAssumption ==
  Samplers \cap (Pollers \cup {"connection", "charger", "publisher", "web", "writer"}) = {}

VARIABLES
  at,                \* the loop: "looping", "ticking", the task waited for, "returned", "exited"
  alive, slow,       \* tasks that run; those that take their time to end
  stopped,           \* a signal came, and is latched
  told,              \* the stop channels fired and the round's sender is gone
  own,               \* `run`'s own handles: "journal", "dashboard"
  rows,              \* in the journal's queue
  tab,               \* a browser holds the dashboard's stream open
  ended,             \* sources that ended while the loop ran
  waited, late,      \* how long this wait has lasted; waits that passed the deadline
  elapsed            \* since the loop was left

vars == <<at, alive, slow, stopped, told, own, rows, tab, ended, waited, late, elapsed>>

TypeOK ==
  /\ at \in {"looping", "ticking", "returned", "exited"} \cup Waits
  /\ alive \subseteq Tasks /\ slow \subseteq MayBeSlow
  /\ stopped \in BOOLEAN /\ told \in BOOLEAN /\ tab \in BOOLEAN
  /\ own \subseteq {"journal", "dashboard"}
  /\ rows \in 0 .. MaxRows /\ ended \subseteq Sources /\ waited \in 0 .. Deadline
  /\ late \subseteq MayBeSlow /\ elapsed \in Nat

\* With no `[web]` no forecast and no price is fetched, whatever is configured.
Started(mqtt, web, car) ==
  Samplers \cup {"charger", "writer"}
    \cup (IF mqtt THEN {"connection", "publisher"} ELSE {})
    \cup (IF web THEN {"web", "forecast", "prices"} ELSE {})
    \cup (IF car THEN {"car"} ELSE {})

Init ==
  /\ at = "looping"
  /\ \E mqtt, web, car \in BOOLEAN : alive = Started(mqtt, web, car)
  /\ slow \in SUBSET (alive \cap MayBeSlow)
  /\ stopped = FALSE /\ told = FALSE
  /\ own = {"journal"} \cup (IF "web" \in alive THEN {"dashboard"} ELSE {})
  /\ rows = 0 /\ tab = FALSE /\ ended = {}
  /\ waited = 0 /\ late = {} /\ elapsed = 0

Holding(handle, tasks) == (own \cap {handle}) \cup (alive \cap tasks)

JournalSenders   == Holding("journal", Samplers \cup {"charger", "forecast", "prices"})
DashboardSenders == Holding("dashboard", Pollers)

-----------------------------------------------------------------------------
(* The loop.                                                                  *)

Signal ==
  /\ ~stopped
  /\ stopped' = TRUE
  /\ UNCHANGED <<at, alive, slow, told, own, rows, tab, ended, waited, late, elapsed>>

\* A source's task returned or panicked; the loop sees it at its next turn.
SourceEnds(s) ==
  /\ ~told /\ s \in alive \cap Sources
  /\ alive' = alive \ {s} /\ ended' = ended \cup {s}
  /\ UNCHANGED <<at, slow, stopped, told, own, rows, tab, waited, late, elapsed>>

\* The charger's sampler ended: the loop goes on without it.
ChargerEnds ==
  /\ at = "looping" /\ "charger" \in alive
  /\ alive' = alive \ {"charger"}
  /\ UNCHANGED <<at, slow, stopped, told, own, rows, tab, ended, waited, late, elapsed>>

\* A tick's body runs to its end before `select` looks at anything else.
Ticks ==
  /\ \/ at = "looping" /\ at' = "ticking"
     \/ at = "ticking" /\ at' = "looping"
  /\ UNCHANGED <<alive, slow, stopped, told, own, rows, tab, ended, waited, late, elapsed>>

\* Any holder of a sender hands a row over; with the queue full it is dropped.
Hands ==
  /\ \E s \in JournalSenders : s # "journal" \/ at = "ticking"
  /\ rows < MaxRows /\ rows' = rows + 1
  /\ UNCHANGED <<at, alive, slow, stopped, told, own, tab, ended, waited, late, elapsed>>

Browses ==
  /\ "web" \in alive /\ ~told
  /\ tab' = ~tab
  /\ UNCHANGED <<at, alive, slow, stopped, told, own, rows, ended, waited, late, elapsed>>

\* Mutant: the sender of `run` itself is kept to the end.
LeftKept == own
Left == own \ {"dashboard"}

\* The round's sender is dropped and the stop channels fire.
Leaves ==
  /\ at = "looping" /\ (stopped \/ ended # {})
  /\ at' = "forecast" /\ told' = TRUE /\ own' = Left /\ waited' = 0
  /\ UNCHANGED <<alive, slow, stopped, rows, tab, ended, late, elapsed>>

-----------------------------------------------------------------------------
(* The tasks, once told.                                                      *)

\* What each task waits for before it ends by itself.
Released(t) ==
  CASE t \in Samplers \cup {"charger"} -> told
    [] t \in Pollers   -> told
    [] t = "publisher" -> TRUE
    [] t = "writer"    -> JournalSenders = {} /\ rows = 0
    [] t = "web"       -> told /\ (tab => DashboardSenders = {})
    [] OTHER           -> FALSE

\* `close` drops the publisher's queue sender when its wait begins.
Closed(t) == t = "publisher" => at \in Waits \ {"forecast", "prices"}

Ends(t) ==
  /\ t \in alive /\ Released(t) /\ Closed(t)
  /\ alive' = alive \ {t}
  /\ UNCHANGED <<at, slow, stopped, told, own, rows, tab, ended, waited, late, elapsed>>

Writes ==
  /\ rows > 0 /\ "writer" \in alive
  /\ rows' = rows - 1
  /\ UNCHANGED <<at, alive, slow, stopped, told, own, tab, ended, waited, late, elapsed>>

-----------------------------------------------------------------------------
(* What `run` does once it has left the loop.                                 *)

\* Mutant: a poller that does not stop is left running.
AbortsNone(t) == {}
\* The writer is a thread, which nothing aborts: its handle is let go.
Aborts(t) == IF t = "writer" THEN {} ELSE {t}

\* Mutants: the charger's sampler is left to end; the sources are stopped with it.
StopsNoCharger(t) == IF t = "publisher" THEN Sources ELSE {}
StopsSourcesEarly(t) == IF t = "prices" THEN {"charger"} \cup Sources ELSE {}

\* The charger's sampler is stopped after the pollers, the sources once the
\* publisher has drained.
StopsAfter(t) ==
  CASE t = "prices"    -> {"charger"}
    [] t = "publisher" -> Sources
    [] OTHER           -> {}

\* `run`'s own sender goes with the sources.
Dropped(t) == IF t = "publisher" THEN {"journal"} ELSE {}

\* Mutant: the wait for the publisher has no deadline.
PatienceLong(t) == IF t = "publisher" THEN 2 * Deadline ELSE Deadline
Patience(t) == Deadline

Proceeds ==
  /\ at \in Waits
  /\ at' = Then[at]
  /\ \/ /\ at \notin alive
        /\ alive' = alive \ StopsAfter(at)
        /\ UNCHANGED late
     \/ /\ at \in alive /\ waited = Patience(at)
        /\ alive' = alive \ (Aborts(at) \cup StopsAfter(at))
        /\ late' = late \cup {at}
  /\ own' = own \ Dropped(at)
  /\ waited' = 0
  /\ UNCHANGED <<slow, stopped, told, rows, tab, ended, elapsed>>

\* The runtime waits for the writer's thread, deadline or not.
Exits ==
  /\ at = "returned" /\ "writer" \notin alive
  /\ at' = "exited"
  /\ UNCHANGED <<alive, slow, stopped, told, own, rows, tab, ended, waited, late, elapsed>>

\* Time passes while `run` waits, once every task that need not be slow has ended.
Prompt(t) ==
  /\ t \in alive \ slow /\ Closed(t)
  /\ Released(t) \/ (t = "writer" /\ JournalSenders = {})

Passes ==
  /\ at \in Waits \cap alive /\ waited < Patience(at)
  /\ \A t \in MayBeSlow : ~Prompt(t)
  /\ waited' = waited + 1 /\ elapsed' = elapsed + 1
  /\ UNCHANGED <<at, alive, slow, stopped, told, own, rows, tab, ended, late>>

Next ==
  \/ Signal \/ ChargerEnds \/ Ticks \/ Hands \/ Browses \/ Leaves
  \/ \E s \in Sources : SourceEnds(s)
  \/ \E t \in Tasks : Ends(t)
  \/ Writes \/ Proceeds \/ Exits \/ Passes

Spec == Init /\ [][Next]_vars

\* The tick's body ends, timers fire, a task that is not slow ends once nothing
\* keeps it, and the disk takes a row in the end.
LiveSpec ==
  /\ Spec
  /\ WF_vars(Ticks) /\ SF_vars(Leaves) /\ WF_vars(Proceeds) /\ WF_vars(Passes)
  /\ \A t \in MayBeSlow : WF_vars(t \notin slow /\ Ends(t))
  /\ WF_vars(Writes) /\ WF_vars(Ends("writer")) /\ WF_vars(Exits)

-----------------------------------------------------------------------------
(* Properties.                                                                *)

\* run.rs, shut_down: the journal's writer is waited for past its deadline only
\* when the disk is slow, never because a task still holds a sender.
JournalUnheld == "writer" \in late => "writer" \in slow

\* run: an open browser tab holds the dashboard to its deadline only while the car
\* battery's poll, which nothing cancels and which holds the channel, is in flight.
TabsFreed == "web" \in late => {"web", "car"} \cap slow # {}

\* shut_down: what the publisher still holds goes to a connection that runs, unless
\* it is the connection's end that stopped the process.
DrainsConnected ==
  at = "publisher" /\ "publisher" \in alive => "connection" \in alive \cup ended

\* DRAIN_DEADLINE: whatever is slow, `run` returns within its deadlines.
StoppedInTime == elapsed <= Cardinality(Waits) * Deadline

\* A signal, or a source that ends, ends the process with the journal on disk.
ProcessEnds == stopped \/ ended # {} ~> at = "exited" /\ rows = 0

\* The stop: no wait is held by a task that should have been stopped before it, and
\* none is longer than its deadline.
NobodyHeld == TypeOK /\ JournalUnheld /\ TabsFreed /\ DrainsConnected /\ StoppedInTime
=============================================================================
