# A TLA+ model of the Zendure controller

This directory holds TLA+ specifications of the home-battery controller in this
repository, TLC configurations that model-check them on small instances, and
proofs, checked by TLAPS, of what matters most about them for every value of the
constants. `PROJECT.json` is the index: components, runs, the mutant that shows each
property can fail, the source lines every definition stands for, the
disagreements found between code and documents, the hazards, and the theorems.

To check a run: `tlc -config ControllerModes.cfg MCController.tla`. To check the
proofs of a module: `tlapm ControllerProofs.tla`, and likewise the other `*Proofs.tla`.

## 1. The system

One process, a tokio runtime, and boxes on the local network. A loop (`run.rs`)
ticks every `poll_interval_secs`. On a tick it takes what the sampler tasks left in
their slots, decides one control mode and setpoint for the fleet, writes it to the
devices, brings the charge ceiling up to date and asks the samplers for the next
round. Around the loop, tasks of their own poll forecasts, prices, the car charger
and the car; others publish over MQTT, write the journal and serve the dashboard.

| component | source | state | operations | talks to |
|---|---|---|---|---|
| controller | `controller.rs`, `world.rs`, `units.rs` | mode, last active mode, stamps of the last change, decision and idle, daily counters and their day, pending ramp, commanded power | `decide_at`: too soon, override, target mode, car guard, power law, cycle limit, cooldown, ramp, idle timeout | called by the engine with a `World` and the tick's `Clock` |
| engine | `engine.rs` | world, controller, latched timeout | `step` on a meter reading, a device update, a timeout | called by the loop |
| coordinator loop | `run.rs` | the ticker, the engine, the ceilings, the round | fold the devices, verdict, decide or stand down or skip, actuate, ceilings, next round | takes the slots, writes to devices, sends the round |
| scan, samplers | `scan.rs` | a slot per source (pending sample and stamp, last good instant), the round on a watch channel | `sample_loop`, `deliver`, `fail`, `take` | the adapters; the loop |
| allocator, registry | `allocate.rs`, `registry.rs`, `command.rs` | none; the adapters | which device gets which command, in id order; write them one by one | the loop; the adapters |
| Zendure client | `zendure/` | the ledger: storage mode, last acMode, last input and output limits | `prepare`, `apply_command`, `write_power_caps`, `write_soc_set`, `parse_report` | the device, over HTTP; shared by the loop and the device's sampler |
| ceiling sync | `ceiling.rs` | per device: record of the last write, last reported ceiling | `observe`, `due`, `record`, `sync` | the loop; the client |
| charger guard, charger adapters | `charger/`, `controller.rs` | last reading and its stamp | poll, derive a state, hold the discharge | the engine |
| anchor schedule and pollers | `schedule.rs`, `fetch.rs`, `prediction/`, `prices/` | settled anchor, pending retry, the data file | poll, settle, retry, persist, load | the web APIs; dashboard, journal, publisher |
| journal | `journal/` | bounded queue, writer, sequence numbers, SQLite | record, write, prune, drain, read back | every event of the engine |
| replay, analysis | `replay.rs`, `analyze.rs` | none | re-run the decisions of a journal and align them | the journal |
| publisher, announcer | `mqtt/`, `announce.rs`, `publish.rs` | bounded queue, connection, announced ids | publish, announce once per connection | the broker |
| round-trip efficiency | `rte.rs` | rolling window, file | fold a report, persist | the sampler's reports |
| car battery poller | `car_battery/` | session and tokens | login, refresh, fetch | a web portal |
| meter sources | `source/` | none to speak of | one request, parse | samplers |
| dashboard | `web/` | a state cell, interval history | fold events, render, stream | watch channels |
| simulation | `simulation.rs`, `battery.rs`, `*/simulated.rs` | virtual battery | apply, step | stands in for the boxes |
| configuration | `config.rs`, `cli.rs`, `main.rs` | none | parse and validate one file | start-up |

### What is hard about it

- **Samplers and loop run concurrently.** A source answers a round while the tick of
  that round is still writing, or two ticks later. Nothing joins on the answers.
- **Silence is not an error.** A box that hangs makes no failure to count; the tick
  has to notice by age, while the requests time out on their own clock.
- **A lost answer to a write.** The device may hold the new value or the old one,
  and the guard that drops redundant writes must not believe either.
- **Others write to the device**: the vendor's app, its cloud, its own restart onto
  its flash values.
- **The wall clock moves.** Controller stamps are wall-clock instants: NTP may step
  them, midnight clears counters; sample ages, by contrast, are monotonic.
- **Many ways out of a mode.** Overrides, cooldown, cycle limit and idle timeout each
  return their own way and each leaves different bookkeeping behind, which later
  guards read.
- **Restarts** at any point, with a write in flight; nothing is written on the way out.
- **Bounded queues that drop**: the journal's and the publisher's callers never wait, so
  what is recorded and shown can lag, lose and still has to add up.
- **State read back**: dashboard, history, prices, efficiency and schedule are rebuilt from rows and
  files which a crash may have cut short and a stepped clock stamped out of order.
- **The stop**: a dozen tasks hold each other's channels; one wait in the wrong place costs its
  whole deadline, or the tail of the journal.

### What makes each part correct

- *controller*: a rest between charging and discharging; no more tenures a day than
  the cycle limit; reversals spaced; no discharge into a drawing car; no setpoint
  past the cap or the anti-windup rail; the first setpoint of a tenure ramped.
- *loop and samplers*: a decision reads one round of every source; silence past the
  window stands the fleet down; an outage idles every battery it can reach; ticks
  never stop; skipped rounds do not go on for ever once everything answers.
- *Zendure client*: a command reported as applied is what the device holds; the ledger
  knows or says it does not know; a setpoint does not wear the flash; the storage
  mode finds its way back.
- *ceiling*: one write per pause to a box that refuses; the day's ceiling is reached.
- *schedule*: each anchor is settled once, retried after a failure, across restarts.
- *journal*: every record is a row or is counted as lost; the numbers keep the order of the
  loop across sessions; a range with nothing missing replays to the commands issued.
- *publisher*: values are shown in the order they were accepted; an id counted as announced is
  with the broker or on its way there; each document arrives in the end.
- *efficiency*: each stretch of time is counted once and lies in the window, across restarts.
- *charger adapter*: a reading is made of replies to its own poll; a hold is lifted once the
  car is out of sight; the loss of a connection the charger closed is not an error.
- *car battery poller*: a poll ends, shows the newest snapshot with data, and catches up with a
  session that ended or a data request that was replaced.
- *history, prices, decision log, past days*: what a restart reads back is what the running
  process showed; what is cached is complete; what a page holds is the state.
- *analysis*: no energy counted twice; both contracts billed for the same energy.
- *virtual battery*: its arithmetic does not depend on who reads it or how often.
- *configuration*: of a file without warnings no value is dropped, defaulted or raised, and one is changed only
  where a type clamps it; nothing out of range is in effect; what is taken can be built; no single
  knob of a section that is not required keeps the daemon from starting.
- *shutdown*: each task is stopped before the ones that need it gone; the process ends.

## 2. Modules

Forty modules: one per component that keeps state, the abstract specification, the modules TLC runs, and the proofs.

| module | models | run |
|---|---|---|
| `Controller` | one call of `decide` per step, on any world of a set and after any step of the wall clock | `controller_*` |
| `Failsafe` | abstract: what the loop promises of the batteries | |
| `Coordinator` | samplers, slots, the tick, the writes of a directive and the device's side of them, restart, time; implements `Failsafe` | `coordinator_*` |
| `Zendure` | one client's ledger, its requests split where the network and another task can come between, reports, the app, restarts | `zendure` |
| `Ceiling` | one device's ceiling record and the tick that syncs it | `retries` |
| `AnchorPoller` | the anchor schedule, the forecast and price pollers on it, sites and state file, restarts | `retries` |
| `Journal` | the queue, the writer, the database over sessions, and what a range replays to | `journal` |
| `Shutdown` | the tasks `run` starts and the order in which it stops them | `shutdown` |
| `VirtualBattery` | the simulated battery as pure operators | `closed_loop` |
| `ClosedLoop` | `Controller` composed with `VirtualBattery` and the synthetic house | `closed_loop` |
| `Charger` | the Modbus connection, the sampler's slot, the fold and the sensor | `tasks` |
| `ChargeProfile` | the simulated charger as a function of the clock | `tasks` |
| `CarBattery` | the poller and the portal client, and the portal | `tasks` |
| `Mqtt` | queue, delivery, announcements, connection, drain, and the broker | `tasks` |
| `History` | the interval ring, live and seeded from the journal | `records` |
| `PackTrace` | the energy of each battery pack, on the ring of `History` | `records` |
| `Prices` | the price series: fetches, backfill, pruning, restore | `records` |
| `PricePanel` | tiers and blocks of a day's prices | `records` |
| `DayPanels` | the solar forecast and the flows of a local day, as they are drawn | `records` |
| `PastDays` | the cache of past days' charts | `records` |
| `Dashboard` | the decision log and the pages' streams | `records` |
| `Analyze` | the offline fold of a run into totals and costs | `records` |
| `Rte` | the round-trip efficiency window and its file | `records` |
| `Config` | the configuration file: refusals, warnings, what is built | `records` |
| `MCController`, `MCCoordinator`, `MCJournal`, `MCClosedLoop` | instances for TLC | |
| `Records` | `Prices`, `PastDays`, `Dashboard`, `Analyze` and `Rte` side by side, what `RecordsProofs` is about | |
| `MCTasks`, `MCRecords`, `MCRetries` | each runs several modules that share nothing, see below; `MCRecords` extends `Records` by five more | |
| `CoordinatorProofs`, `ZendureProofs`, `ShutdownProofs`, `JournalProofs` | theorems about the module of that name, and their lemmas | |
| `ControllerProofs` | theorems about `Controller` on its own, and about `ClosedLoop`, which extends it | |
| `TasksProofs`, `RecordsProofs`, `RetriesProofs` | theorems about `Charger`, `CarBattery` and `Mqtt`, about `PastDays`, `Rte`, `Prices`, `Dashboard` and `Analyze`, about `AnchorPoller` and `Ceiling`, as `MCTasks`, `Records`, `MCRetries` run them | |

Where components share nothing, one run checks several of them: `MCTasks`, `MCRecords` and `MCRetries` have a variable
`which`, chosen at the start, take the steps of the module it names and leave the variables of the others at their start.
The state space is the sum of theirs and never the product, and each property holds or fails as it would alone. Fairness
is owed by the module that runs, `which = "charger" /\ Charger!Tick` and the like. A step of `MCRecords` is a step of `Records` or leaves its variables
alone, so that what is proved of `Records` holds of the run.

### Controller

`Meter(w, d)` is one meter event: the wall clock moves by `d` (negative when NTP steps
it back) and exactly one way out of `decide_at` is taken. `TooSoon` is the interval's
early return; `Override` the calibration and fault idle of `force_idle`;
`LimitCycles`, `CoolDown` and `Command` the three ways out of `apply_guards_inner`, in
its order. Every variable of `ControllerState` is there under its name. A world is the
part `decide` reads: meter, battery flow, the two caps, and a boolean for each comparison
with SOC or solar. The controller draws nothing else from them, and in particular
keeps nothing of them from one call to the next, so every sequence of worlds is
possible and none is ruled out. The power law is integer arithmetic over small
watts with the code's rounding: `Gained` half away from zero, `Ramped` truncated.
`ObserveCharger` is a charger reading folded in between ticks, stamped when it was sampled.
History variables, read by properties only: when the last Charge was commanded, the tenures
opened today, whether a positive power was wanted in this tenure.

### Coordinator and Failsafe

The loop's program counter stops where the code awaits: `waiting` (the ticker), `folded`
(devices taken, before the meter's slot is), `acting` (a write under way), `syncing` (ceiling
writes). Samplers step at any of them. Time passes in `Pass`, only where the code waits
and never past a timeout of a source that honours it. Instants are ages: the rounds and
stamps that the code counts up are compared only with the current round, so a stamp is
`current`, `old` or absent, and the state stays finite with no bound on the number of rounds.

`FoldDevices`, then `StandDown`, `Decide` or `Skip`: the three arms of the match over the
fleet and the meter; `TakeMeter` is inside all three since it takes its slot whatever
the fleet said. `Act` queues the directives; `Land`, `Lose`, `Unsent` and `Suppress` are
the ways one of them ends. `AskRound` ends the body. What the controller decides is left open
here: idle or standby for the fleet, a setpoint for the primary, or nothing, each of which
`Controller` does from some state, so every interleaving of the loop with a decision is covered. A
setpoint is one value, `power`: a charge or discharge commanded at zero watts counts as one,
on which no property of the module depends.

`Failsafe` says what all of it is for in five actions over four variables: a look permits any command, none, or
idle only; a tick that stands down ends only once every battery is idle or its last write failed. `FailsafeKept` is the
refinement: `Promise` is `INSTANCE Failsafe` with `permit`, `standing`, `held` and `missed` read off the loop's state.

### Zendure

`apply_command` is not one step: it reads the tracked state (`Begin`), may wake the device
(`WakeLands`, `WakeAcked`, five seconds, `Settled`), posts (`PostLands`, `PostAcked`), and
records or forgets (`Record`, `Forget`). The device takes a request in one step and the client
hears of it in another, so a timeout after a landed write is one of the interleavings. The
sampler shares the ledger: `ReportTaken` is what the device held when it answered and
`ReportParsed` what that moves, however much later. The device itself is external:
`Meddles` is an app's write or a restart onto flash, at any point.

### Ceiling

`Observe` is a tick's fold of the report (of now, or of one poll ago: the race the comment in
`due` names), `Wrote` the write and its record, `DayTurns` the change of the day's maximum at midnight.
The wall-clock age of the record is capped at `RetryAfter`, above which it is compared with nothing.

### AnchorPoller

One module for both pollers, since both are `decide`, a fetch, and `mark_used` or `mark_failed`;
a `poller` is a record of what tells them apart (`PollerType`): the sites, the retries, whether answers are
kept between tries (`SolcastForecaster::kept`) and whether the schedule is saved. `Check` is the minute's
`poll_at` up to the await; `FetchOk`, `FetchRefused` and `FetchFailed` are the arms after it, each with the
settling and the save it makes. `FetchOk` stops short of settling because `set_forecast` saves once before
`mark_used` does, and a restart between the two finds the anchor unsettled. Every save may fail or
be cut short, which leaves no file that parses.
`decide` and `mark_failed` read the `now` of the check, taken before the fetch, and so does the model; the
`anchor.date != now.date` arm of `mark_failed` is therefore never taken and has no counterpart.
`ClockMoves` moves the local clock, by a minute, or by more or less for DST, NTP and a suspended host.
Dates go round in a cycle: one still remembered when its turn comes again is replaced by None, and with it the anchor, the retry or the saved schedule that is of it.

### Journal

The loop and the samplers make records (`Updates`, `Decides`, `StandsDown`, `Recorded`, `Captures`), which a bounded queue takes
or drops; the writer numbers and inserts them one at a time (`Writes`, which may fail, and prunes when a day has gone by);
`Starts` opens a session, or leaves the journal disabled, and finds the next number from both tables; `Exits` drains and
`Crashes(kept)` loses what the queue holds and, after a power cut, a suffix of the rows. An event and the decisions that answer
it are separate records. The engine is a small fold in which every input matters. A battery's sample is stamped when it was taken (`Sampled`), which
may be before the events already recorded, and never before the session, whose samplers it comes from. `Verifies(from, to)` is
`replay --verify`: the seed row, the frames, the pairing by number, the fold, the comparison (`SameLines`).

### Shutdown

`at` is where `run` stands: `looping`, `ticking`, or the task it waits for. A task holds senders (`Holding`) until it is stopped,
ends or is aborted, and `writer`, `web` and `publisher` end when nobody holds theirs. `slow` is the set of tasks that do
not end in time of their own; `Patience` is the wait each gets. A stop
begins with a signal or with a source that ends; the charger's sampler may end and the loop goes on without it.

### VirtualBattery and ClosedLoop

A battery is a record and the operators of `VirtualBattery` take the instant they are applied at, as the code's methods do: a
linear ramp as a function of absolute time, its exact integral, the floor and the ceiling, the loss either way. `ClosedLoop`
extends `Controller`: a `Round` reads the device and the meter where in the round their latencies put them, decides, and commands the
battery; `Missed` is a round without an answer, `Failsafe` what the loop does after enough of them, `Shift` a change of the
demand. The device's own report may be a round old. `unread` is the same battery under the same commands and never read;
`bitten` says that a clamp has cut either short.

### Charger, ChargeProfile, CarBattery, Mqtt

`Charger`: `Begins`, `Connects`, `Answers`, `Refuses`, `Broken`, `Again` and `TimesOut` are one poll over a script of spans, the
first required, the later best effort; `Closes` is the charger's doing, `Panics` the sampler's; `Tick` the fold, and the sensor it
leaves. Blocks are named by their first register and of a reading only the draw is kept.

`ChargeProfile`: `At(i)` is `ChargeProfile::at`, a function of the instant and the zone's offset, with the local times a change
skips or shows twice; the routine and the drawn energy are kept beside it as the simplest thing a car could do.

`CarBattery`: `call` is the GET under way and `leg` where it stands (log in, get, log in again, get again); `Polls`, `Accepts`, `LogsIn`,
`Refused`, `Metadata`, `List`, `Downloads` and their second tries are the client's; `Delivers`, `Reassigns`, `Expires` the portal's.

`Mqtt`: a message goes `queue`, `holding`, `requests`, the socket; `Offers` and `Inserts` are the two halves of `announce`, between
which the lock is free; `Connects` is a ConnAck with its reset; `Breaks` loses the connection, and the broker's store or not;
`Closes`, `Drained`, `Stops` the shutdown. Sensors are taken together by the document that announces them.

### History, PackTrace, Prices, PricePanel, DayPanels, PastDays, Dashboard, Analyze, Rte, Config

`History`: `Hears` folds a reading into the ring and journals it; `Restarts` seeds the ring from the rows, the kinds interleaved
by stamp as the code merges them. A bucket holds its readings' row numbers, not sums, so that a property can say which.

`PackTrace` extends `History`: `Observe` pairs a pack's report with its last one where `span_within` joins them, `Fold` is `record_packs`,
and the energy between two reports is the pair of their rows, so that a property can say whose it is and whether it was counted before. A
poll whose answer missed its round is captured and never folded (`UnheardTick`), so a seed may integrate more finely than the process did.

`Prices`: `Settles` merges an answer; `Backfills` walks the missing days; `Starts` reads the rows back. A row may never
have got to the journal (`lost`). `PricePanel`: `Tier`, `Cheapest`, `Priciest` and `Ahead` over the hours of a day, revised as it goes by.

`DayPanels`: `MeterTick`, `Fetches` and the clock change what the panels read; the views are operators of it, over slots counted from
midnight for the day's real length. `Points` buckets a fetch, `Actual` pools the readings of a slot, `Stats` splits the day at the moment
it is, `Whole` and `Resolve` say which day a link lands on, `FlowScale` fits one axis to both resolutions. Levels are multiples of
what every mean divides by, so that no property rests on rounding.

`PastDays`: `Asks`, `Looks`, `Reads`, `Keeps`, `Answers` are one request, with the cache's lock free in between; the journal
is written behind `now` by less than `SETTLE`.

`Dashboard`: `Decides` collapses a decision into the log; `Streams` sends a page the fragments that changed; `Starts` reads the log back.

`Analyze`: `MeterRow` and `BatteryRow` are the fold's two arms. `Rte`: `Polls`, `Saves`, `Crashes`, `Starts`; a file between truncation and its last byte is `Torn`.

`Config`: a file is a function from its paths to named values; `Edit` changes one key or table, `Start` reads it: `Refused`,
warned of (`Unknown`, `Mistyped`), taken and built. `Effect` is what a value that decodes comes to without a warning: one out of range of a
type that saturates (`Gain`, `Soc`, `Efficiency`, `RetentionDays`, `SolarPower`, the charger's current) becomes the bound it is past, and a
host loses the spaces around it. `Lost` is the car battery's poller at an interval of zero, which panics in a task of its own.

## 3. Runs

| run | instance | checks |
|---|---|---|
| `controller_modes` | nine worlds (five meter readings across every threshold, full, empty, sunny, overridden), clock steps -2, 1, 3, a day of 7, horizon 9 | `InductiveInv`, `RestBeforeDischarge`, `CycleBudget`, `ReversalsSpaced`, `CarHeld` |
| `controller_power` | meter errors and flows on both sides of each deadband, caps 0 and not, overrides | `NoWindup`, `FirstSetpointRamped` |
| `coordinator_safety` | two batteries and the meter, one that hangs, two that fail, lost writes, one restart | `CommandsSound`, `BlindnessBounded`, `DecidedTogether`, `FailsafeKept` |
| `coordinator_live` | one battery that may hang, a write that may take longer than two periods | `LoopLives`, `OutageReasserted` |
| `coordinator_gone_down` | one battery that may fail | refutes `GoneDownWasIdled`, section 6 |
| `zendure` | one setpoint besides zero, one interference of app or device, one process restart | `SettingsSound`, `FlashOnlyUnseen`, `StorageModeHeals` |
| `journal` | two devices, a queue of two, a day of 2, rows kept for 2, five records, one capture, one failure, one crash | `RecordsSound`, `CompleteVerifies` |
| `shutdown` | one sampler, with and without broker, dashboard and car, every set of slow tasks, one row, a deadline of 2 | `NobodyHeld`, `ProcessEnds` |
| `closed_loop` | the shipped caps and slew rate in units of 100 W, six demands, a pack near either end, both sources read at once or either 2 late of a round of 3, reports of this round or the last, one shift of the demand or outage of up to 4 rounds | `LoopSettles`, `PlantSound`, `TenuresFollowDemand` |
| `tasks` | charger: five blocks, one clock step; car: two identifiers, two snapshots, two expiries; MQTT: a document of each kind, a queue of two, one break; simulated car: a day of 8, a change of the clock at any of six instants | `ChargerSound`, `SessionKept`, `BrokerShown`, `CarSocSound`, `PollsRecover`, `BrokerServed` |
| `records` | history: a ring of three, four rows, one clock step; prices: one day of history and one of backfill, a day of one hour and one of two; panel: days of 4 and 5 slots, blocks of 2; packs: three reports of two packs, with a serial and without, one incomplete, a clock step of 3, a gap of 2; day panels: days of 8 and 4 quarters, five fetches, two readings; past days: two requests, a cache of one; log: five decisions, a log of two; totals: five rows, days of 3; efficiency: a window of 3, two crashes; config: two edits of each base | `PricesKept`, `CacheFresh`, `LogKept`, `TotalsFair`, `HistoryKept`, `PanelRight`, `WindowKept`, `FileKept` |
| `retries` | the forecast poller (two sites, two tries, saved) and the price poller (one feed, three), anchors at 0 and 1 of a day of 8, a retry after 2, one clock step (back 3 or on 4), one restart; a device that clamps above 90 %, two upsets, one midnight | `FetchesBounded`, `AttemptsKept`, `AttemptsSucceed` |

### Bounds, and why they are enough

- *Controller*: thresholds are hysteretic with two edges each, and the five meter readings fall one on either
  side and between them. The longest chain a property talks about is Charge, a way out, an idle
  shorter than the rest, and a demand, with a clock step or midnight anywhere in it: within 9
  units every one occurs, and the day of 7 puts a midnight on either side of it. The theorems lift the bound.
- *Power*: two decisions reach every anchor of `step` (entry, one slew later, both rails);
  the horizon of 5 decisions lets an override or an idle fall between.
- *Coordinator*: `Window = 3 * Period`, the least `config.rs` allows, so the failsafe is at its most
  eager. Two batteries are needed for one to be silent while the other is written to, and no more:
  devices share nothing but the queue. One battery is enough for the liveness run, which
  needs slow writes (`WriteTime` past two periods) rather than many devices. `RequestTimeout` is
  a function of the period with integer halves; 2 s and 5 s limits are kept.
- *Zendure*: the ledger compares limits for zero and for nothing else, so one non-zero value
  separates every case; the second interference could only repeat the first, since each clears what was known.
- *Ceiling*: three values give a target, a clamped one and another day's.
- *AnchorPoller*: two anchors give one that supersedes the other's retry and one whose retries run on
  towards midnight; the day is long enough for all retries of the last anchor to fit, or not, depending on
  when it is first fetched. One clock step suffices to miss an anchor, a midnight, or to come back over one.
- *Journal*: five records are a startup, two events and the decisions of one, with the queue of two full in between; the clock's one
  move of 3 is past a retention of 2 and turns a day of 2, so a prune takes what came before it, the running session excepted. One crash
  is enough for numbers to go on from what it left.
- *Shutdown*: a wait is held or it is not, whatever the number of rows or samplers behind it.
- *ClosedLoop*: the horizon of 105 units is 35 rounds: a disturbance in any of the first 16, and the 19 rounds the loop is given to answer
  it. With 18 `Settles` fails, for a surplus just past the charge threshold and a report a round old, so the bound is met and not only kept.
  A pack that starts near one end has room on the side of the other, so both also stand for one between. An outage of 4 is one
  round past the failsafe; two sources read equally late are read at once, as where neither is.
  What takes two outages is left to the theorems, which bound neither.
- *Mqtt*: two values and two documents fill a queue of two with either kind; one break meets every stage of an announcement.
- *Charger*: one identity block, two required and two of best effort: a required one that is first and one that is not, a best-effort
  one that is last and one that is not.
- *CarBattery*: two expiries end the session under a GET and again under its second try; one reassignment comes before or after the
  identifier is cached.
- *History*: a ring of three wraps with four rows, one an interval; the clock is set once, back or forward, and runs on from there to where it was.
- *PackTrace*: three rows are two reports and one between them, which is what a pair counted twice, or one of two packs, takes; the clock's
  one step exceeds the gap.
- *DayPanels*: a day the ring just holds and two shorter ones, slots of two quarters and hours of two slots, as in the code; two readings
  are two in one quarter, or in two of one slot; the fetches are none, today's, gaps on either day, points off the slots and about
  midnight.
- *Prices, PricePanel, PastDays*: days of different lengths are what the arithmetic of hours could get wrong, so each has two.
- *Rte, Analyze*: a window of three holds three samples, so pruning, a restart and a crash fall inside it; five rows of two kinds
  straddle a midnight and a gap.
- *Config*: two edits are what an incoherent pair of keys takes; the two bases are a deployment on real boxes
  and a laptop on simulated ones, and between them they have every table but `web`, which an edit adds.

### Fairness

`Coordinator!Fairness`: timers fire and ready tasks run (tokio), and a request that times out ends
(the HTTP client's timeout), except for sources in `CanHang`, of which nothing is assumed.
`ReachableSpec` adds strong fairness of a landed write per device for the one property that needs the
device to be reachable in the end. `Zendure!LiveSpec`: a request under way ends, polling
goes on, and of the reports asked for one with the mode in it gets through now and then.
`Ceiling!LiveSpec`: the loop ticks, a device that is written to again and again takes one, a poll reads it now and then.
`AnchorPoller!LiveSpec`: minutes pass, each is checked and a request ends, if only by its timeout; that it ever
succeeds is not assumed, but `ForecastArrives` is about what follows once it does (`Answering`).
`Charger!LiveSpec`: the loop ticks; of the charger, or its sampler, nothing is assumed.
`CarBattery!LiveSpec`: the poller's timer fires and a GET ends, one way or the other; that the portal has run out of ways to end a
session is the bound on them, and `CatchesUp` says what follows.
`Mqtt!LiveSpec`: the delivery task, the announcements and the drain run on (tokio); the eventloop's `select`, which takes one of
several ready branches at random, gets to each (strong fairness of `Sends`, `Hears`, `Fails`). That the broker comes back
is not assumed: `DocumentsArrive` is about a connection that is up for good.
`Shutdown!LiveSpec`: the tick's body ends, timers fire, a task not in `slow` ends once nothing keeps it, the disk takes a row in the
end; `Leaves` is strongly fair because ticks and signals share one `select`, which is not biased.
Each weakens "nothing is broken for ever", without which none of the liveness properties can hold.

`RoundsComplete` has its assumption inside it (`AllAnswer`): the claim is about what the loop
does once sources answer, with writes as slow as the instance allows, and not that they answer.

## 4. Properties

Each is stated in its module with the code it is about. A property of a run may be the conjunction of several that share
a run and a state space; the parts are named definitions of their own, with at least one mutant each that breaks the
conjunction through that part.

| property | parts |
|---|---|
| `InductiveInv` | the controller's types, `TenureInv`, `RestInv`, `BudgetInv` and the rail (section 5) |
| `CommandsSound` | types; `LedgerSound`: what the loop thinks a battery holds it holds; `OutageIdles`: in an outage a battery runs on power only if its write failed |
| `LoopLives` | `KeepsTicking`; `RoundsComplete`: rounds get complete again once sources answer |
| `SettingsSound` | types; `AppliedIsHeld`; `LedgerAgrees` |
| `RecordsSound` | types; `OrderKept`; `NoneUnaccounted`; `InputRecorded`; `TuningOnRecord` |
| `NobodyHeld` | types; `JournalUnheld`; `TabsFreed`; `DrainsConnected`; `StoppedInTime` |
| `FetchesBounded` | types, `DailyBudget`, `RetriesBounded` |
| `AttemptsKept`, `AttemptsSucceed` | `SettledByMidnight`, `SettledIsKept`, the ceiling's types, `WritesSpaced`; `ForecastArrives`, `CeilingConverges` |
| `LoopSettles`, `PlantSound` | types, `Settles`; `FloorHeld`, `ReadCadence`, `RailsReportRest` |
| `ChargerSound` | types, `AnswersTheirOwn`, `OneTimeout`, `LossExcused`, `NotOnUnseen` |
| `CarSocSound`, `PollsRecover` | types, `PollBounded`, `ReadsNewest`; the charger's `EndedOpens` and the car's `CatchesUp` |
| `BrokerShown`, `BrokerServed` | `AnnouncedIsPromised`, `ShownInOrder`, `DrainedWhole`; `StopEnds`, `DocumentsArrive` |
| `SessionKept` | `SessionIsRoutine`, `EnergyIsDrawn` |
| `HistoryKept` | `SeededIsLive`, `OwnInterval`, `NoneMixed`, `DropsOnce`; of the packs types, `EnergyOnce`, `SeedIntegrates`, `OwnPack`, `NoneInvented` |
| `PricesKept` | `RestartKeepsPrices`, `FreshestShown`, `PastIsWhole` |
| `PanelRight` | `TiersSplit`, `WindowsAhead`, `WindowsStay`; of the days types, `SplitsAtNow`, `PointsOnce`, `LinksLand`, `OneScale`, `TodayInRing`, `BarsFit`, `DrawnStays` |
| `CacheFresh`, `LogKept` | `NothingMissing`, `LinksAreCurrent`; `RunsAreRows`, `SeedIsSuffix`, `PageShowsState` |
| `TotalsFair`, `WindowKept` | `NothingTwice`, `UnstoredIsKnown`, `SameEnergyBilled`; `CountedOnce`, `WithinWindow` |
| `FileKept` | `CleanIsTaken`, `InRange`, `RoundsFitWindow`, `TakenIsBuilt`, `KnobsNeverRefuse` |

The ones that take the most steps to violate:

- `RestBeforeDischarge` relates the last Charge decision to a Discharge any number of calls later. The rest
  is measured by `last_idle_start`, which five different returns write or clear, and is owed after
  `last_active_mode`, which overrides do not touch. It survives a backward step because a call behind
  `last_decision` is refused.
- `CycleBudget` relates tenures (counted by the property's own day) to the code's counter, which
  midnight clears inside the guarded path only.
- `OutageIdles` relates what batteries hold to the failures seen this outage, across the latch that silences
  reports but must not silence commands. `GoneDownWasIdled` is what a comment adds to it, and fails.
- `BlindnessBounded` counts the body of the tick in, because a tick that is writing does not look.
- `FailsafeKept` is the whole loop, samplers, slow writes and restarts included, against the five actions of `Failsafe`.
- `AppliedIsHeld`, `LedgerAgrees` hold through any order of lost answers, with nobody else writing: the
  condition is in them, since the code does not promise more.
- `FlashOnlyUnseen`: the client cannot see a mode change between the last report and a write; within that limit no
  setpoint goes to flash.
- `DailyBudget` bounds what a site answers in a day by the anchors and the restarts: over supersession, catch-up,
  the retry of the other site, and saves that fail. It is the arithmetic behind the 10-request cap.
- `SettledByMidnight` is what "would drop it without a word" asks of `mark_failed`: with a check each minute, a day leaves
  no anchor open and no retry pending.
- `CompleteVerifies`: of any range of which nothing is missing, the replay commands what the daemon commanded. It rests on the
  numbers, on which record a row answers, and on the snapshot being the state the event left behind. A range selects by time and
  orders by number, so it asks that the clock was not set back in it (`Onward`): an event stamped before one that precedes it is a battery's late
  sample, which directs nothing itself, and no decision in the range comes after one stamped past the range's end.
- `DrainedWhole`: what the publisher held when it was closed reaches the client's channel, unless its deadline passed.
- `AnnouncedIsPromised`: an id counted as announced is retained, or its document is in the pipeline. A reset between an
  announcement's acceptance and its mark is what could break it.
- `SeededIsLive`: the ring a restart builds from rows is the ring the running process had, while the clock was not set; `DropsOnce`
  and `OwnInterval` are what is left of it when the clock was.
- `Settles`: from any demand, latency and sample age the meter comes to rest where the controller aims, within the rounds given.
- `FloorHeld`: a decision reads the charge up to a round late, an outage lets it run on, and a report one round old lets the decision
  after an outage discharge once more; together they owe the floor the rest of a round and one blind window, or two.
- `TenuresFollowDemand`: the demand is worked out from a meter and a report read at two instants, between which the battery ramps. What
  it ramps is all a tenure may be wrong by.
- `JournalUnheld`: the writer's wait passes its deadline only when the disk is slow. The sender that would break it is any one of
  the tasks `run` starts.

## 5. Proofs

Each proof module proves theorems about the specification its runs check, for every value of the constants and with
no bound on the horizon. The inductive invariants were model-checked on the instances before they were proved, `TaleInv` excepted, which
quantifies over every log.

| module | theorem | states |
|---|---|---|
| `ControllerProofs` | `TypeCorrect`, `Inductive` | `Spec => []TypeOK`, `Spec => []InductiveInv` |
| | `RestIsKept`, `BudgetIsKept`, `RailsHold` | `[]RestBeforeDischarge`, `[]CycleBudget`, `[]NoWindup` |
| | `ReversalsAreSpaced`, `CarIsHeld`, `FirstSetpointIsRamped` | the action properties `ReversalsSpaced`, `CarHeld`, `FirstSetpointRamped` |
| | `LoopIsInductive`, `LoopKeepsController`, `LoopTypeCorrect` | of `LoopSpec`: `[]LoopInv`; the controller's three invariants; `[]LoopTypeOK` |
| | `PlantIsSound`, `TenuresAreAsked` | of `LoopSpec`: `PlantSound`, `TenuresFollowDemand` |
| `CoordinatorProofs` | `Invariance` | `[]IInv` |
| | `CommandsAreSound`, `BlindnessIsBounded` | `[]CommandsSound`, `[]BlindnessBounded` |
| | `DecisionsAreTogether`, `ImplementsFailsafe` | `DecidedTogether`; the refinement `FailsafeKept` |
| `ZendureProofs` | `Invariance`, `SettingsAreSound`, `FlashIsOnlyUnseen` | `[]IInv`, `[]SettingsSound`, `FlashOnlyUnseen` |
| `ShutdownProofs` | `Invariance`, `NobodyIsHeld` | `[]IInv`, `[]NobodyHeld` |
| `TasksProofs` | `Invariance`, `ChargerIsSound`, `CarSocIsSound`, `BrokerIsShown` | `[]TasksInv`, `[]ChargerSound`, `CarSocSound`, `[]BrokerShown` |
| `RecordsProofs` | `PastInvariance`, `CacheIsFresh` | `[]PastInv`, `[]CacheFresh` |
| | `RteInvariance`, `WindowIsKept` | `[]RteInv`, `WindowKept` |
| | `PriceInvariance`, `PricesAreKept` | `[]PriceInv`, `[]PricesKept` |
| | `LogInvariance`, `LogIsKept` | `[]LogInv`, `[]LogKept` |
| | `AnalyzeInvariance`, `TotalsAreFair` | `[]AnalyzeInv`, `[]TotalsFair` |
| `JournalProofs` | `Invariance`, `RecordsAreSound` | `[]IInv`, `[]RecordsSound` |
| | `Telling`, `RangesVerify` | `[](IInv /\ TaleInv)`, `[]CompleteVerifies` |
| `RetriesProofs` | `PollerInvariance`, `FetchesAreBounded` | `[]IInv`, `[]FetchesBounded` |
| | `MidnightInvariance`, `AnchorsAreSettled` | `[](IInv /\ MidnightInv)`, `AnchorsSettled` |
| | `CeilingIsSpaced`, `AttemptsAreKept` | the ceiling's types and `WritesSpaced`; `AttemptsKept` |

The assumptions are the named `ASSUME`s of the modules, which TLC evaluates on the runs; there are no others.

### Controller

None of the three safety invariants is inductive: a state where `last_mode` is Idle and `last_idle_start` is long past
satisfies `RestBeforeDischarge` although the Charge was a moment ago. `InductiveInv` adds what the code keeps in step:

- `TenureInv`: a Charge or Discharge decision is of the mode in `last_mode`; an active `last_mode` is
  the last active one; while charging the idle clock is off. So leaving Charge has to set the
  idle clock anew, or leave it off, in which case the rest is not passed.
- `RestInv`: after any Charge, either the last active mode is Charge and the idle clock, if it runs, started no earlier
  than that Charge, or it is Discharge and the rest has been served.
- `BudgetInv`: the tenures of the day are at most the transitions counted, and those at most the limit; what makes it go
  through is that a day with a tenure in it is the day the counter was last reset on.

`CarHeld` and `FirstSetpointRamped` need the types only: they hold step by step, each of the ways out of `decide` for a reason of its
own, and the proofs say which. One step per way out. Assumed: natural durations, a gain between 0 and 200 %, a natural slew
limit, integer thresholds and worlds of the type `WorldType`; nothing of the order of thresholds.

### Closed loop

`LoopInv` is `InductiveInv`, which the failsafe and an outage keep as they command past the controller, and three parts:

- `LoopShape`: where each record is in time (the pack is as old as the outage's rounds since the last command, and no discharge is in
  force once the failsafe has idled it), and the shape of a battery between two commands.
- `AlikeInv`: while no clamp has bitten, the pack that is read and the one that is not are on one ramp and hold the same, and
  the report is within the rate of the flow for its age. `ReadCadence` alone says nothing of what the next command starts from.
- `FloorInv`: what is above the floor *now* does not hold off the next blind window. A pack in discharge owes the floor what that window
  takes, one that is not what is left of its ramp down, and a decision pays for either with the state of charge it read; where the
  report is a round old it may have been below the floor since, and a window more is owed unless it was above it.

The lemmas below them are about `VirtualBattery`: the ramp as a function of time composes (`FlowAt` at an instant is the same
from any instant before it), and so does its integral, where no clamp bites between them. `TenuresFollowDemand` is
then the arithmetic of a tick: a threshold's crossing is of the meter plus the report, and the two differ from the demand by what
the ramp does between them. The rounding of the state of charge and the power are the model's, in integers.

Assumed (`PlantAssumption`, `FloorAssumption`): a rate, natural powers, gain and cost; a pack that starts above its floor; and a least
interval between decisions no longer than the tick, so that every round decides. Shipped, it is zero. Nothing of how the powers, the rate, the
tick and the latencies compare.

Three properties changed with the attempt. The bound `FloorHeld` had was too small for two outages with a report one round
old, which the run's one disturbance does not reach; a pack that is full, drawn from and charged again within a read reports the charge, which
`RailsReportRest` has to leave out; and `TenuresFollowDemand` was about equal latencies and a settled demand only, where it is true at any.

### Coordinator

`IInv` is the types and five parts, since none of the run's properties is inductive:

- `Acts`: while directives are written there is one, and it is a command.
- `LedgerSound`, a part of the property, with the types.
- `Outage`: with the latch set, what is being written is idle and each battery is idle, failed, or still in the queue. `OutageIdles`
  speaks of the waits only; nothing else carries it over the writes.
- `Rounds`: a sample stamped with the current round is no older than the round, and a fleet folded as complete is made of such samples.
  `DecidedTogether` follows at the step that decides.
- `Timed`: how old the last answer of a source may be, by where the tick is: at the start of a tick no older than the window, in the
  middle of the writes older by the writes made so far (`Spent`), in the ceilings by all of them, and between ticks by what is left of the period.
  `BlindnessBounded` is the worst of these. That a tick which finds nobody past the window leaves nobody there before the next look is what makes it inductive.

`ImplementsFailsafe` maps the loop's state on `Failsafe`'s and goes through the actions: `FoldDevices`, `Skip`, `Decide` and
`StandDown` are its looks, a landed write its write, the end of the tick its end, and all others stutter; it rests on `Outage` and `LedgerSound`.
Assumed: `Fleet` a sequence of batteries, the meter none of them, a period, window and times that are natural with the order `config.rs` enforces.

### Zendure

`LedgerAgrees` is about the moments between two requests. In between, `Landed` says what a write that landed unacknowledged left in the device,
field by field for each kind of request; `Applied` carries the last command called applied over settings writes, which do not
disturb it; `Blank` says that a client being started knows nothing. `Unseen` is what `FlashOnlyUnseen` needs: wherever a setpoint
could go out with the device on flash, whether from the tracked mode, a report not yet parsed or a wake under way, the mode changed
after the last report. Assumed of the constants: limits natural with zero among them, `None` no value of theirs.

### Shutdown

Who is alive at each wait (`Stopped`), so that no sender is left when the writer or the dashboard is waited for; that a wait lasts only
for a task slow in itself (`Prompted`); the publisher's connection (`Connected`); and the clock: what has elapsed is at most a deadline
for each wait behind it and the present one (`Clocked`). `Deadline` is any positive number, the samplers any set of names that are not the tasks'.

### Charger, car battery and Mqtt

`TasksProofs` proves them for `MCTasks`, which runs one of four modules: a step is a step of the charger's module or leaves its variables alone, and
likewise of the car's poller and of the publisher's.

- `ChargerInv`: besides the types, `Reads` (no reply is left behind on the connection between two requests, since a timeout drops it; a poll under way has
  waited out none; one that lost the connection it opened itself is excused already), `Hushed` (once the outage has been reported no hold is shown, and it is
  reported before the age passes the window and a tick) and `Backdated` (the engine's reading is younger than it is only by what the clock was set back).
- `CarInv`: `Counted` says how many GETs are behind a poll at each of its five (`Before`, twice the GETs there are before it), and that a login is behind a
  refusal, but for the first; `Chosen` that as long as a poll lasts the newest snapshot it began with is still delivered, or the data request was replaced and
  only newer ones are, and that the one chosen from a listing has data, no namesake, and is no older.
- `MqttInv`: `Again` (only documents are sent again, never a value), `InOrder` (the values in the requests, held and queued rise, above the one shown and up
  to the last one made), `Promised` (an announced document is retained or on its way, and so is one accepted and not yet marked, unless a
  reset has come between) and `Drains`. Order is stated over positions of the line and not over a filtered sequence, about which nothing could be proved.

Assumed: lists of blocks are sequences, with one required block at least, a charger may draw nothing; queues of any natural depth.

### Journal

`RecordsSound` leaves out the way from a record to its row. `IInv` adds `Numbered` (the next number is past every one in the tables), `InLine` (the ids in the queue
rise, past those of every row), `Answered` (what a decision answers, be it a row, queued, or still to be handed over, is accounted for, a row, or
ahead of it in the queue) and `Unqueued` (no process or no session, nothing queued: a new session cannot lose what an old one left). `NoneUnaccounted` is used with
them: it is what makes ids bounded. A prune and a crash are the same argument, that rows go and each is put on account; a start rests on the greatest number of what
is left, which exists because the numbers are bounded (`MaxIsGreatest`, from `LeastNat`).

`RangesVerify` needs more than the state has: what the engine was when a record was made is in no variable, and a record that was lost is in no
table. `TaleInv` says that there is a *tale*, a log of all records made and the state the engine was in after each, such that

- `Tale`: an event moves the state by `Step`, from fresh if it is a process's first, and nothing else moves it; a decision `Answers` the last event before it, with the
  state that left, a command it directed, and the devices before its own behind it;
- `Whole`: an event since which nothing was lost has an answer, recorded or pending, for each device it directed, unless one was left out;
- `Pending`: the running engine is where the tale has come to, and the rows to be recorded answer its last event;
- `Held`: what is queued and what is written is as the tale has it.

One lemma for each action makes the tale go on (a crash fills it with records of nothing). `Apart` says that no two processes share a session. A range is then
folded along the tale: in a complete one all records from its first to any that decides are rows and the events among them frames (`CompleteRanged`,
where `Onward` is used), so the fold at each number is the tale's state at the last record up to it (`StateReplayed`, by the least number where it is not), and the rows paired
with an event are its answers, all of them and in the order of the devices (`IssuedLines`).

### Past days

`PastInv`: the cache holds whole views of settled days drawn against the days it is kept for (`CacheWhole`), a request that has read is about to
put such a view there (`ReadsWhole`), the writer is behind by less than `Settle` (`Behind`), and a request's clock has been (`Timely`). The cache is a
sequence with a position for each day, as in the code, and its lemmas say what `get` and `insert` do to it.

The library's induction theorems take an operator, which no installed prover can instantiate. Its well-founded relations do not: from them
come `LeastNat` (a non-empty set of numbers has a least one), `EveryNat` (a set with zero and each next number has them all) and `Recursion` (a
function defined step by step exists), in which the statement is a set. All that is said below of sequences and folds rests on these.

### Efficiency

`RteInv`: the samples held, and those of the file, are in the order of the process's clock and none overlaps the next (`HeldInOrder`, `SavedInOrder`); while
the clock was not set they are chained, each beginning where the one before it ends (`HeldChained`, `SavedChained`), and with no sample left the last poll is
older than the window. A restart moves every sample of the file by the same distance and drops some (`Restored`, a recursion over the sequence), so it keeps
both; what a save leaves in the file is as much behind as the last saved poll. `WithinWindow` is about the poll's step, which prunes.

### Prices

`PriceInv` adds to the property what the feed last said: unless a row is lost, the journal read in its order makes `latest`, and `latest` and the snapshot agree on
every hour from the start of the history on (`Held`). Reading one row more is inserting it (`DecodedFacts`, by induction over a fold that the library
defines on sets of indices), and a backfilled or merged answer keeps the agreement since the history only moves on
(`HorizonAdvances`). For the days back: what the journal covers is shown whole (`CoveredShown`), and a day not seen to is still to fetch or is
the one being fetched (`BackfillAhead`), until none is left. Assumed: a calendar of days that have hours, with room for the history and the backfill.

### Decision log

`LogInv` says of the log what makes it comparable with one read back. Whatever the journal dropped, neighbouring rows are of different commands and no row
begins after it ends (`Sound`). If it dropped nothing, decision n is the n-th on record, each row is *all* the decisions of its span and begins right after the row
before it (`Tight`), and the log goes back at least as far as the decisions a start reads (`Reaches`): a row holds one decision at least, so as many
rows as decisions are read reach further. The log a start reads has the same three (`SeedFacts`, by induction over the same library fold as
the prices). `Aligned` then compares two such logs from their ends: a row that has one before it begins where the command changed, so two rows that end
alike begin alike, down to the first row of the shorter log, which may be cut. Assumed: a log that holds a row.

### Totals of a run

`NothingTwice` compares a sum over the days with the length of the run, so `AnalyzeInv` says what is still to be counted: what the days cover and the
time since the last sample are together no more than the run has lasted. A clock set back makes that time negative, a span that runs backwards is not
counted, and the sample it comes from is the last one afterwards; so the same times coming again are counted once. The other parts are that each day's totals are
fair (`Fair`, which is `SameEnergyBilled` and the first half of `UnstoredIsKnown` of one day) and that while no battery was heard of neither the last sample nor any
day has one. `AccumulatedFacts` is the arithmetic of one span: a trapezoid of parts is no more than that of the wholes, and it is billed under both
contracts or under neither, so the part of a day's energy that was billed grows by the same trapezoid in both. `TotalChanges` says what one day's change does
to the sum: `FoldSet` takes the days in the order of a CHOOSE, and `AddsFacts` shows, by induction on the size of the set, that another order adds up to the same. Assumed: a day that has a length, readings and tariffs of either sign, and a feed that gave a price at least once, without which `analyze` works out no costs.

### Anchor pollers

`FetchesBounded` counts over days, and what it needs is a number that a fetch spends: `Due(slot)`, the anchors up to a slot. `Budget` says that a site has been
paid for the anchors up to the last fetched at most, that while its fetch or retry is open a site asked has not yet been paid for it, and that with no anchor the next one
to come is still to spend. It rests on `Prefixes` (with an anchor everything before it is settled, in memory and on file: a later anchor supersedes),
on `Tasked` (a retry pending is of the last anchor, of the day it was asked for on) and `Answerable` (an anchor of today has come, and
unless it is to be retried it is settled), with the counts of `Tried`. The last three hold until the clock is set back over a decision (`back`), as the property does.
Assumed: any calendar of three dates or more and any set of anchors in a day; moves of the clock short of a round of the dates by a day, without
which a date that is remembered cannot be told from its next turn, a matter of the model's cycle and not of the code; a poller with several sites keeps
their answers between tries, as both pollers do. Without the last, one site's failure would have the others paid again.

`AnchorsSettled` needs three more facts. `Swept`: from a check on until the clock moves, what is overdue is to be retried later the same day or is what is
being fetched, so that settling it leaves nothing overdue; at the last minute of a day no retry can be later, and nothing is overdue. `Filed`: unless the last
save failed, the file has what is settled, so a restart finds it. `OfToday`: an answer that comes after midnight settles yesterday's anchor on a day that has
nothing settled yet. That only the last minute of a day moves to the next is arithmetic on days and minutes (`SameDay`).

### Charge ceiling

`Recalled`: the record of the last write is of the last target and, while the clock did not step, as old as that write is. A process that starts again
knows of none. `Ticked`: a tick has passed since the last write whenever another is decided on. `AttemptsAreKept` puts both modules together: the run's steps are one's or the other's.
Assumed: a natural pause, and that 90 and 100 % are among the ceilings.

### Only model-checked

- Liveness, with fairness and ENABLED in it: `LoopLives`, `OutageReasserted`, `StorageModeHeals`, `ProcessEnds`, `BrokerServed`, and the liveness
  properties `AttemptsSucceed` and `PollsRecover`. Out of the prover's reach.
- What compares a whole sequence or sum with another: `HistoryKept`, `PanelRight`. Each needs an induction of its own over the rows, as those of section 5; `History`, `PackTrace` and `DayPanels` are also written
  with `SelectSeq` and sorts, of which the provers know nothing.
- `Settles`: that a loop with these gains, ages and latencies comes to rest within `SettleRounds` is a matter of their figures and
  not true of every choice; its types are proved (`LoopTypeCorrect`).
- `SessionKept`: true of the figures explored, not of every choice. A clock that goes back by more than the time between an unplugging
  and the next plug-in repeats both, and the routine's session is then the second, the profile's the first (TLC finds this with a change of
  4 in a day of 8). The code asks nothing of the two times, so a theorem would rest on an assumption it does not make.
- `FileKept`: a property of a finite table of keys, which TLC goes through whole.

## 6. Where the code and its documents disagree

`coordinator_gone_down` ends in a counterexample to a sentence quoted in `PROJECT.json`: a battery that fails its idle on an
outage's first ticks and goes Down afterwards is not written to again.

Noticed while modelling and not given a run:

- *controller*: the overrides idle the battery and leave `commanded_power` as it was, and a tenure opened from there integrates from
  it; the rail around the device's report comes after the rail around the last setpoint and can raise the setpoint by more than
  `slew_limit`; a target of 1 W is ramped to 0 W and spends the ramp, so that the first non-zero setpoint is not ramped (README.md:17).
- *loop*: after a slow write a stalled request is in flight when the next round goes out; two sources that fail in turn, neither
  ever Down, hold the last command without end.
- *Zendure client*: the device's report of its limits never reaches the guard that drops idles; `record_idle` forgets acMode although an
  idle leaves it untouched (a charge after an idle sends it again); the idle arm does not wake a device known to be
  in flash mode, although `ensure_ram_mode` is said to come before every command.
- *schedule*: a retry pending when the host sleeps past midnight is dropped at the rollover, the check being late and not the
  arithmetic of `mark_failed`; a clock stepped back across midnight starts that day over, the anchors settled on it forgotten.
- *journal*: the later ticks of an outage leave the Down devices out of the idle, which the replay of a `mqtt_timeout` does not, so
  `--verify` of an outage can diverge (README.md:522). A range whose clock was set back can leave out an event that one in it was decided after,
  and diverges too.
- *efficiency*: the file is written in place, so a crash in the middle of a write loses the window, which run.rs:502 says survives;
  one tracker is shared by all devices; the time a process was down, up to a day, is one trapezoid.
- *shutdown*: the comment in `shut_down` says stopping the connection first "would stall" the drain; a publisher whose connection
  is gone is refused at once, as a test in publisher.rs has it. An open tab with a car battery poll in flight holds the dashboard
  to its deadline, the poll not being cancelled and awaited only after it.
- *configuration*: `--check` "lets a deploy hook catch a typo before it ever reaches the running controller" (cli.rs:30), but passes
  `[car_battery] poll_interval_secs = 0`, and the interval it is given to panics on zero, in the poller's task (car_battery/mod.rs:117), and
  a value out of range of a saturating type, which `Gain` itself calls "far more likely a typo" (units.rs) and which is clamped without a
  word. `CleanIsTaken` excepts both, by name, and so says what a clean check is worth; a `min_soc` above `max_soc` is not looked at; the default window is raised, with a warning, when the tick is 20 s or more although nobody set it.
- *charge profile*: when the clock goes back, a session whose plug-in or unplug time lies in the repeated hour shows as
  unplugged, or resumed, in its middle; `SessionIsRoutine` excepts that hour.
- *packs*: a clock stepped forward by less than the gap is integrated over as if the pack had run on, which `NoneInvented` excepts.
- *flows*: a battery reading stamped with an interval that is over still changes its bar, which `DrawnStays`, about the meter's, does not
  reach; on a day that is longer or shorter by half an hour the hourly chart leaves out the last half hour.
- *prices*: the fetch time a restart shows counts backfilled rows, which the running process does not.

## 7. Not modelled, and the plan

Text and layout (templates, charts, discovery documents, argument parsing, reports), the parsing of each box's own documents, and SQL are
left out. Time zones are the data of chrono-tz; a model has a day of some length and at most one change of the offset.

- *Coordinator*: what the controller decides; building adapters.
- *Journal*: the UNIQUE index and a second process on the same file; the fallback of `session_row`. A power cut loses a suffix of the rows.
- *Mqtt*: sensors one by one; `NullPublisher`. The five seconds' sleep after a connection error is taken to outlast an announcement
  between acceptance and mark.
- *Prices*: a clock that is set; feeds of less than an hour; pruning of price rows in the journal.
- *PastDays*: a writer behind by more than `SETTLE`; a clock set back over midnight with no request in between.
- *Analyze*: the range of SOC, the phases, rounding. *Rte*: what is summed.
- *PackTrace*: what is integrated between two reports, the range of SOC and temperature; a report folded later than it was captured.
- *DayPanels*: the battery's and the house's flows, coordinates, labels; a clock that is set.
- *ClosedLoop*: float rounding. The house's demand is any value of a set and holds until it shifts; the car's draw is part of it. With
  latencies that do not match, or a report one round old, a ramp in flight can open a tenure that is spurious and closes again:
  `TenuresFollowDemand` bounds by how much.
- *Config*: edits reach representative keys of every table; the bounds of single figures are one value past them (`"beyond"`), and what
  they are is left to the assumptions of the modules that use them; an interval of so many seconds that three of them overflow; what `Debug` hides.
- *Shutdown*: a publisher, web server or poller that panics while the loop runs; a journal that was disabled at the start. A slow forecast or
  price poller may end at any time, which is more than the code lets it.

Of the hazards, three have no property, each with its reason in `PROJECT.json`: nothing in the code promises anything about them.
