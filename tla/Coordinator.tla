------------------------------ MODULE Coordinator ------------------------------
(***************************************************************************)
(* The scan cycle: one sampler task per source writing its slot, and the    *)
(* loop of run.rs that on every tick takes the slots, stands the fleet down  *)
(* or decides, writes to the devices one by one and asks for the next round. *)
(*                                                                          *)
(* Instants are kept as ages, so that the state stays finite: `since` is     *)
(* `now - last_good`, capped above everything it is compared with.  A stamp  *)
(* is only ever compared with the loop's round, and rounds only advance, so  *)
(* a stamp is "current" or "old".                                           *)
(***************************************************************************)
EXTENDS Integers, Sequences, SequencesExt

CONSTANTS
  Fleet,          \* the batteries' ids, in id order
  Meter,          \* the grid meter
  Period,         \* device.poll_interval_secs, the control tick
  Window,         \* [tuning] mqtt_timeout_secs, how long a source may be silent
  WriteTime,      \* the longest one directive holds the tick
  SyncTime,       \* the longest ceiling::sync holds it
  CanFail,        \* sources whose request may fail
  CanHang,        \* sources whose request may outlast its timeout and never return
  MaxRestarts     \* process restarts explored

Devices == ToSet(Fleet)
Sources == Devices \cup {Meter}
Primary == Head(Fleet)

\* Mutant: a request may run for the whole period.
RequestTimeoutWhole(period) == period

\* scan.rs: half the period, kept within 2 s and 5 s where that stays under it.
RequestTimeout(period) ==
  LET half == period \div 2
  IN IF 2 < period THEN (IF half < 2 THEN 2 ELSE IF half > 5 THEN 5 ELSE half)
                   ELSE half

Timeout == RequestTimeout(Period)

\* The longest a tick body can run, and the longest a source can be silent
\* before the tick that notices.
Body == Len(Fleet) * WriteTime + SyncTime
MaxBlind == Window + (IF Period > Body THEN Period ELSE Body)

ASSUME FleetAssumption == Fleet \in Seq(Devices) /\ Fleet # <<>> /\ Meter \notin Devices
ASSUME TimeAssumption ==
  /\ Period \in Nat \ {0}
  /\ Window \in Nat /\ Window >= 3 * Period     \* config.rs raises a shorter one
  /\ WriteTime \in Nat /\ SyncTime \in Nat
  /\ CanFail \subseteq Sources /\ CanHang \subseteq Sources
  /\ MaxRestarts \in Nat

VARIABLES
  \* the watch channel and the sampler tasks
  unseen,         \* the round changed since this sampler last looked
  inflight,       \* the round the request in flight answers, "no" when none is
  running,        \* how long it has run
  \* the slots
  pending,        \* the stamp of the sample waiting in the slot
  since,          \* the age of last_good
  \* the loop
  pc, tick_in, fleet, silent, queue, kind, writing,
  latched,        \* Engine::mqtt_timed_out
  \* the devices, and what the ledger of each client believes
  held, zeroed,
  \* history, read by the properties only
  asked,          \* the age of the round
  failed,         \* devices whose last write this outage failed
  down_first,     \* devices already Down on the outage's first tick
  restarts

sampling == <<unseen, inflight, running>>
slots    == <<pending, since>>
loop     == <<pc, tick_in, fleet, silent, queue, kind, writing, latched>>
device   == <<held, zeroed>>
history  == <<asked, failed, down_first, restarts>>
vars     == <<sampling, slots, loop, device, history>>

Stamps == {"no", "current", "old"}
Kinds  == {"none", "idle", "power"}
Ages   == 0 .. MaxBlind + 1

TypeOK ==
  /\ unseen \in [Sources -> BOOLEAN]
  /\ inflight \in [Sources -> Stamps]
  /\ running \in [Sources -> 0 .. Timeout + 1]
  /\ pending \in [Sources -> Stamps]
  /\ since \in [Sources -> Ages]
  /\ pc \in {"waiting", "folded", "acting", "syncing"}
  /\ tick_in \in 0 .. Period
  /\ fleet \in {"complete", "waiting", "silent"}
  /\ silent \subseteq Devices
  /\ queue \subseteq Devices
  /\ kind \in Kinds
  /\ writing \in 0 .. WriteTime + SyncTime
  /\ latched \in BOOLEAN
  /\ held \in [Devices -> {"idle", "power"}]
  /\ zeroed \in [Devices -> BOOLEAN]
  /\ asked \in Ages
  /\ failed \subseteq Devices
  /\ down_first \subseteq Devices
  /\ restarts \in 0 .. MaxRestarts

\* A process just started: slots opened, the first round asked for, the first
\* tick a period away, nothing known of what the devices hold.
Init ==
  /\ unseen = [s \in Sources |-> TRUE]
  /\ inflight = [s \in Sources |-> "no"]
  /\ running = [s \in Sources |-> 0]
  /\ pending = [s \in Sources |-> "no"]
  /\ since = [s \in Sources |-> 0]
  /\ pc = "waiting" /\ tick_in = Period
  /\ fleet = "complete" /\ silent = {} /\ queue = {} /\ kind = "none" /\ writing = 0
  /\ latched = FALSE
  /\ zeroed = [d \in Devices |-> FALSE]
  /\ asked = 0 /\ failed = {} /\ down_first = {}
  /\ held \in [Devices -> {"idle", "power"}]
  /\ restarts = 0

-----------------------------------------------------------------------------
(* The sampler tasks: `sample_loop`.                                         *)

Startable(s) == unseen[s] /\ inflight[s] = "no"

\* `changed()` fired: the round is read before the request goes out.
Request(s) ==
  /\ Startable(s)
  /\ unseen' = [unseen EXCEPT ![s] = FALSE]
  /\ inflight' = [inflight EXCEPT ![s] = "current"]
  /\ running' = [running EXCEPT ![s] = 0]
  /\ UNCHANGED <<slots, loop, device, history>>

Answerable(s) == inflight[s] # "no" /\ running[s] <= Timeout

\* A reading arrived: `Slot::deliver` stamps it with the round it answers.
Deliver(s) ==
  /\ Answerable(s)
  /\ pending' = [pending EXCEPT ![s] = inflight[s]]
  /\ since' = [since EXCEPT ![s] = 0]
  /\ inflight' = [inflight EXCEPT ![s] = "no"]
  /\ running' = [running EXCEPT ![s] = 0]
  /\ UNCHANGED <<unseen, loop, device, history>>

\* The request failed: `Slot::fail` moves nothing a tick decides on.
Fail(s) ==
  /\ s \in CanFail /\ Answerable(s)
  /\ inflight' = [inflight EXCEPT ![s] = "no"]
  /\ running' = [running EXCEPT ![s] = 0]
  /\ UNCHANGED <<unseen, slots, loop, device, history>>

-----------------------------------------------------------------------------
(* The loop.                                                                 *)

\* Mutant: one period late.
DownLate(s) == since[s] > Window + Period

Down(s) == since[s] > Window

\* `Slot::take`: a slot past the blind window keeps its sample, any other gives
\* it up whatever its stamp.
Taken(ss) == [s \in Sources |-> IF s \in ss /\ ~Down(s) THEN "no" ELSE pending[s]]

\* Mutant: any sample waiting in the slot will do.
IsFreshAnyRound(s) == ~Down(s) /\ pending[s] # "no"

IsFresh(s) == ~Down(s) /\ pending[s] = "current"

\* Silence outranks a missing sample, whichever device it is.
FleetVerdict ==
  IF \E d \in Devices : Down(d) THEN "silent"
  ELSE IF \A d \in Devices : IsFresh(d) THEN "complete" ELSE "waiting"

\* The tick fires and the devices' slots are folded.  `Delay`: the next tick is
\* a period after this one fires, however late that is.
FoldDevices ==
  /\ pc = "waiting" /\ tick_in = 0
  /\ pc' = "folded"
  /\ tick_in' = Period
  /\ silent' = {d \in Devices : Down(d)}
  /\ fleet' = FleetVerdict
  /\ pending' = Taken(Devices)
  /\ UNCHANGED <<sampling, since, queue, kind, writing, latched, device, history>>

\* Mutant: the meter is commanded too.
ActOnSources(what, ds) ==
  /\ kind' = what
  /\ queue' = IF ds = {} THEN {} ELSE ds \cup {Meter}
  /\ pc' = IF ds = {} THEN "syncing" ELSE "acting"
  /\ writing' = 0

\* Directives for `ds`; with none the body goes on to the ceilings.
Act(what, ds) ==
  /\ kind' = what
  /\ queue' = ds
  /\ pc' = IF ds = {} THEN "syncing" ELSE "acting"
  /\ writing' = 0

TakeMeter ==
  /\ pc = "folded"
  /\ pending' = Taken({Meter})
  /\ UNCHANGED <<sampling, since, tick_in, fleet, silent, device, asked, restarts>>

\* Mutants: silent batteries are never written to; the idle itself is latched,
\* not only its report.
IdledAnswering == Devices \ silent
IdledOnce == IF latched THEN {} ELSE Devices

\* The batteries an outage's tick writes to.
Idled == IF latched THEN Devices \ silent ELSE Devices

\* A source is Down: idle for every battery, but for a battery that is itself
\* Down only on the outage's first tick.
StandDown ==
  /\ TakeMeter
  /\ fleet = "silent" \/ Down(Meter)
  /\ latched' = TRUE
  /\ Act("idle", Idled)
  /\ failed' = IF latched THEN failed ELSE {}
  /\ down_first' = IF latched THEN down_first ELSE silent

\* Every source answered the round: what the controller makes of it is idle or
\* standby for the fleet, a setpoint for the primary, or no decision at all.
Decide(what) ==
  /\ TakeMeter
  /\ fleet = "complete" /\ IsFresh(Meter)
  /\ latched' = FALSE
  /\ Act(what, CASE what = "none" -> {} [] what = "idle" -> Devices
                 [] what = "power" -> {Primary})
  /\ failed' = {} /\ down_first' = {}

\* A round short of a sample decides nothing and holds the last command.
Skip ==
  /\ TakeMeter
  /\ fleet # "silent" /\ ~Down(Meter)
  /\ ~(fleet = "complete" /\ IsFresh(Meter))
  /\ Act("none", {})
  /\ UNCHANGED <<latched, failed, down_first>>

\* `needs_write`: only idle to a device known to hold both limits at zero is dropped.
Satisfied(d) == kind = "idle" /\ zeroed[d]

\* `actuate` goes through the directives in id order.
Before(d, e) == \E i, j \in DOMAIN Fleet : i <= j /\ Fleet[i] = d /\ Fleet[j] = e
Writing(d) == pc = "acting" /\ d \in queue /\ \A e \in queue : Before(d, e)

Written(d) ==
  /\ queue' = queue \ {d}
  /\ pc' = IF queue = {d} THEN "syncing" ELSE "acting"
  /\ writing' = 0
  /\ UNCHANGED <<sampling, slots, tick_in, fleet, silent, kind, latched,
                 asked, down_first, restarts>>

Suppress(d) ==
  /\ Writing(d) /\ Satisfied(d)
  /\ Written(d)
  /\ failed' = failed \ {d}
  /\ UNCHANGED device

Land(d) ==
  /\ Writing(d) /\ ~Satisfied(d)
  /\ Written(d)
  /\ held' = [held EXCEPT ![d] = kind]
  /\ zeroed' = [zeroed EXCEPT ![d] = kind = "idle"]
  /\ failed' = failed \ {d}

\* Mutant: what a failed write carried is kept.
LoseKept(d, landed) ==
  /\ Writing(d) /\ ~Satisfied(d)
  /\ Written(d)
  /\ held' = IF landed THEN [held EXCEPT ![d] = kind] ELSE held
  /\ failed' = failed \cup {d}
  /\ UNCHANGED zeroed

\* An error, or a timeout of a write that may have landed all the same: the
\* limits it carried are forgotten.
Lose(d, landed) ==
  /\ Writing(d) /\ ~Satisfied(d)
  /\ Written(d)
  /\ held' = IF landed THEN [held EXCEPT ![d] = kind] ELSE held
  /\ zeroed' = [zeroed EXCEPT ![d] = FALSE]
  /\ failed' = failed \cup {d}

\* A setpoint whose `smartMode` wake failed is never sent, and nothing is forgotten.
Unsent(d) ==
  /\ Writing(d) /\ kind = "power"
  /\ Written(d)
  /\ failed' = failed \cup {d}
  /\ UNCHANGED device

Older(stamps) == [s \in Sources |-> IF stamps[s] = "current" THEN "old" ELSE stamps[s]]

\* Mutant: the loop polls until no request is in flight before the next round.
AskRoundJoined ==
  /\ pc = "syncing"
  /\ IF \E s \in Sources : inflight[s] # "no"
     THEN UNCHANGED vars
     ELSE /\ pc' = "waiting"
          /\ writing' = 0
          /\ unseen' = [s \in Sources |-> TRUE]
          /\ pending' = [s \in Sources |-> "old"]
          /\ asked' = 0
          /\ UNCHANGED <<inflight, running, since, tick_in, fleet, silent, queue, kind,
                         latched, device, failed, down_first, restarts>>

\* Mutant: the next round goes out with writes still to be made.
AskRoundEarly ==
  /\ pc \in {"acting", "syncing"}
  /\ pc' = "waiting"
  /\ writing' = 0
  /\ unseen' = [s \in Sources |-> TRUE]
  /\ inflight' = Older(inflight)
  /\ pending' = Older(pending)
  /\ asked' = 0
  /\ UNCHANGED <<running, since, tick_in, fleet, silent, queue, kind, latched, device,
                 failed, down_first, restarts>>

\* After the ceilings: the next round goes out to every sampler.
AskRound ==
  /\ pc = "syncing"
  /\ pc' = "waiting"
  /\ writing' = 0
  /\ unseen' = [s \in Sources |-> TRUE]
  /\ inflight' = Older(inflight)
  /\ pending' = Older(pending)
  /\ asked' = 0
  /\ UNCHANGED <<running, since, tick_in, fleet, silent, queue, kind, latched, device,
                 failed, down_first, restarts>>

\* The process goes away at any point and is started again.  Nothing is written
\* on the way out, and a write in flight may land.
Restart ==
  /\ restarts < MaxRestarts
  /\ restarts' = restarts + 1
  /\ unseen' = [s \in Sources |-> TRUE]
  /\ inflight' = [s \in Sources |-> "no"]
  /\ running' = [s \in Sources |-> 0]
  /\ pending' = [s \in Sources |-> "no"]
  /\ since' = [s \in Sources |-> 0]
  /\ pc' = "waiting" /\ tick_in' = Period
  /\ fleet' = "complete" /\ silent' = {} /\ queue' = {} /\ kind' = "none" /\ writing' = 0
  /\ latched' = FALSE
  /\ zeroed' = [d \in Devices |-> FALSE]
  /\ asked' = 0 /\ failed' = {} /\ down_first' = {}
  /\ \/ UNCHANGED held
     \/ \E d \in Devices : Writing(d) /\ held' = [held EXCEPT ![d] = kind]

-----------------------------------------------------------------------------
(* Time.  It passes only where the code waits, and never past a timeout.     *)

Older1(age) == IF age > MaxBlind THEN age ELSE age + 1

Pass ==
  /\ CASE pc = "waiting" -> tick_in > 0
       [] pc = "acting"  -> (\E d \in queue : Writing(d) /\ ~Satisfied(d)) /\ writing < WriteTime
       [] pc = "syncing" -> writing < SyncTime
       [] OTHER          -> FALSE
  /\ \A s \in Sources : ~Startable(s)
  /\ \A s \in Sources \ CanHang : inflight[s] # "no" => running[s] < Timeout
  /\ tick_in' = IF tick_in > 0 THEN tick_in - 1 ELSE 0
  /\ writing' = IF pc = "waiting" THEN 0 ELSE writing + 1
  /\ running' = [s \in Sources |-> IF inflight[s] # "no" /\ running[s] <= Timeout
                                   THEN running[s] + 1 ELSE running[s]]
  /\ since' = [s \in Sources |-> Older1(since[s])]
  /\ asked' = Older1(asked)
  /\ UNCHANGED <<unseen, inflight, pending, pc, fleet, silent, queue, kind, latched,
                 device, failed, down_first, restarts>>

Sampler(s) == Request(s) \/ Deliver(s) \/ Fail(s)

Tick ==
  \/ FoldDevices
  \/ StandDown
  \/ \E what \in Kinds : Decide(what)
  \/ Skip
  \/ \E d \in Devices : Suppress(d) \/ Land(d) \/ Unsent(d) \/ \E landed \in BOOLEAN : Lose(d, landed)
  \/ AskRound

Next ==
  \/ \E s \in Sources : Sampler(s)
  \/ Tick
  \/ Pass
  \/ Restart

Spec == Init /\ [][Next]_vars

\* Timers fire, ready tasks run and a request that can time out does: what the
\* tokio runtime and the HTTP client give.  Nothing is assumed of CanHang.
Fairness ==
  /\ WF_vars(Pass)
  /\ WF_vars(Tick)
  /\ \A s \in Sources : WF_vars(Request(s))
  /\ \A s \in Sources \ CanHang : WF_vars(Deliver(s) \/ Fail(s))

LiveSpec == Spec /\ Fairness

\* Besides, a device written to again and again takes one of the writes.
Reachable(d) == SF_vars(Land(d))
ReachableSpec == LiveSpec /\ \A d \in Devices : Reachable(d)

-----------------------------------------------------------------------------
(* What it implements: a tick's directives are what the look permits.         *)

Promise ==
  INSTANCE Failsafe WITH
    permit   <- IF pc \notin {"acting", "syncing"} \/ kind = "none" THEN "none"
                ELSE IF latched THEN "idle" ELSE "any",
    standing <- latched,
    missed   <- failed

-----------------------------------------------------------------------------
(* Properties.                                                               *)

Committing == pc = "folded" /\ pc' # "folded" /\ ~latched' /\ kind' # "none"

\* CONTROL-2: whatever the order of answers, late ones included, a decision
\* reads only samples taken since its round was asked for, from every source.
DecidedTogether ==
  [][Committing => \A s \in Sources : since[s] <= asked]_vars

\* No source is silent past the window, and the length of the tick that was
\* running when it passed, without the loop standing the fleet down.
BlindnessBounded ==
  \A s \in Sources : since[s] > MaxBlind => latched

\* During an outage a battery still running is one whose last write failed:
\* neither the latch nor the skipped writes leave another one on its command.
OutageIdles ==
  latched /\ pc \in {"syncing", "waiting"} =>
    \A d \in Devices : held[d] = "idle" \/ d \in failed

\* What `needs_write` drops a write on is true, whatever was lost, landed
\* unacknowledged or was cut short by a restart.
LedgerSound ==
  \A d \in Devices : zeroed[d] => held[d] = "idle"

\* The loop implements the abstract failsafe: with a source silent only idle is
\* written, with one late nothing is, and no tick of an outage ends before every
\* battery is idle or its last write failed.
FailsafeKept == Promise!Spec

\* A tick is never held up for good by a source that hangs.
KeepsTicking == []<>(pc = "folded")

\* A battery the outage keeps writing to is idled, whatever the first writes
\* came to: the command is re-asserted every tick, only its report is latched.
OutageReasserted ==
  \A d \in Devices :
    (\E s \in Sources : <>[]Down(s)) /\ <>[]~Down(d) => <>[](held[d] = "idle")

\* Lateness heals: once requests neither fail nor hang, the answers that slow
\* writes made late never start a run of skipped rounds without end.
AllAnswer ==
  /\ <>[](\A s \in Sources : running[s] <= Timeout)
  /\ <>[][\A s \in Sources : ~Fail(s)]_vars

RoundsComplete ==
  AllAnswer => []<>(pc = "folded" /\ fleet = "complete" /\ IsFresh(Meter))

\* run.rs `stand_down`: "A device that goes `Down` later in the outage was idled
\* by the ticks it still answered on."
GoneDownWasIdled ==
  latched /\ pc \in {"syncing", "waiting"} =>
    \A d \in silent \ down_first : held[d] = "idle"

\* What the loop knows of each battery's command is true, and what an outage leaves
\* running is known to have failed: the parts the proof needs of one another.
CommandsSound == TypeOK /\ LedgerSound /\ OutageIdles

\* The loop lives: no source holds up a tick, and rounds get complete again.
LoopLives == KeepsTicking /\ RoundsComplete
=============================================================================
