------------------------------- MODULE Journal -------------------------------
(***************************************************************************)
(* The journal: what the loop and the samplers hand to a bounded queue, the  *)
(* writer thread that numbers it, the database over sessions, prunes and     *)
(* crashes, and what `export` and `replay --verify` make of it.              *)
(*                                                                          *)
(* The engine is a fold in which every input matters: a meter reading of 1   *)
(* toggles between a setpoint for the primary and an idle for the fleet.     *)
(***************************************************************************)
EXTENDS Integers, Sequences, FiniteSets, FiniteSetsExt, Functions

CONSTANTS
  None,
  Devices,       \* 1 .. n, the registry's order
  Readings,      \* what the meter says
  QueueDepth,
  Retention, DayLength,
  Steps,         \* how far the wall clock moves on
  MaxNow, MaxHanded, MaxCaptures, MaxFailures, MaxCrashes    \* what is explored

ASSUME JournalAssumption ==
  /\ Devices \subseteq Nat /\ IsFiniteSet(Devices) /\ Devices # {} /\ None \notin Devices
  /\ Readings \subseteq 0 .. 1
  /\ QueueDepth \in Nat \ {0} /\ Retention \in Nat \ {0} /\ DayLength \in Nat \ {0}
  /\ Steps \subseteq Int
  /\ {MaxNow, MaxHanded, MaxCaptures, MaxFailures, MaxCrashes} \subseteq Nat

VARIABLES
  now,
  engine, rows,          \* the fold; the decision rows of the write under way
  up,                    \* the process: "down", "running", "draining"
  queue,
  session, next_seq, last_prune,    \* the writer's, session None when the journal is disabled
  events, decisions, sessions,      \* the tables
  \* history, read by the properties only
  handed,                \* records made so far, each handed to the queue but those of a crash between
  lost,                  \* those that never became a row: dropped, failed, or in the queue of a crash
  pruned,                \* rows pruned
  startups,              \* the startup event of each session
  captures, failures, crashes

process  == <<engine, rows>>
writer   == <<session, next_seq, last_prune>>
database == <<events, decisions, sessions>>
vars     == <<now, process, up, queue, writer, database, handed, lost, pruned,
              startups, captures, failures, crashes>>

Times    == 0 .. MaxNow
States   == [seen : SUBSET Devices, mode : 0 .. 1, timed_out : BOOLEAN]
Commands == {"power", "idle"}

\* Event::KINDS: what a replay folds.
Kinds    == {"meter", "device_update", "mqtt_timeout"}
Events   == [kind : {"meter"}, reading : Readings] \cup [kind : {"device_update"}, device : Devices]
              \cup {[kind |-> "mqtt_timeout"]}
Captured == [kind |-> "raw"]
Decided  == [kind : {"decision"}, device : Devices \cup {None}, command : Commands \cup {None},
             state : States]

\* `id` counts what was handed over and `of` is the event a decision answers;
\* `whole` says that every device directed was written to.
Records  == [at : Times, what : Events \cup {Captured} \cup Decided, id : Nat, of : Nat, whole : BOOLEAN]
Rows     == [at : Times, what : Events \cup {Captured} \cup Decided, id : Nat, of : Nat, whole : BOOLEAN,
             seq : Nat \ {0}, session : Nat \ {0}]

Foldable == {r \in events : r.what.kind \in Kinds}
Everything == events \cup decisions

TypeOK ==
  /\ now \in Times
  /\ engine \in States /\ rows \subseteq Records /\ IsFiniteSet(rows)
  /\ up \in {"down", "running", "draining"}
  /\ queue \in Seq(Records) /\ Len(queue) <= QueueDepth
  /\ session \in Nat /\ next_seq \in Nat \ {0} /\ last_prune \in Nat
  /\ events \subseteq Rows /\ decisions \subseteq Rows
  /\ sessions \subseteq [id : Nat \ {0}, started : Times]
  /\ handed \in Nat /\ lost \subseteq 1 .. handed /\ pruned \subseteq 1 .. handed

-----------------------------------------------------------------------------
(* engine.rs, allocate.rs                                                    *)

Fresh == [seen |-> {}, mode |-> 0, timed_out |-> FALSE]

Broadcast(s) == [d \in s.seen |-> "idle"]

Allocated(s) == IF s.mode = 0 THEN Broadcast(s) ELSE [d \in {Min(s.seen)} |-> "power"]

\* One event folded: the state after it, and what it directs each device to.
Step(s, e) ==
  CASE e.kind = "device_update" ->
         [state |-> [s EXCEPT !.seen = @ \cup {e.device}], decides |-> FALSE, directs |-> <<>>]
    [] e.kind = "meter" ->
         LET next == [s EXCEPT !.timed_out = FALSE,
                               !.mode = IF s.seen = {} THEN @ ELSE (@ + e.reading) % 2]
         IN [state |-> next, decides |-> s.seen # {},
             directs |-> IF s.seen = {} THEN <<>> ELSE Allocated(next)]
    [] e.kind = "mqtt_timeout" ->
         [state |-> [s EXCEPT !.timed_out = TRUE], decides |-> TRUE, directs |-> Broadcast(s)]

-----------------------------------------------------------------------------
(* journal/mod.rs: the calling side                                          *)

Record(at, what, of) ==
  [at |-> at, what |-> what, id |-> handed + 1, of |-> of, whole |-> TRUE]

\* Mutant: the bound checked too late.
SendOneMore(record) ==
  /\ handed' = handed + 1
  /\ IF session # 0 /\ Len(queue) <= QueueDepth
     THEN queue' = Append(queue, record) /\ UNCHANGED lost
     ELSE lost' = lost \cup {record.id} /\ UNCHANGED queue

\* `send`: into the queue, or dropped when it is full; a disabled journal keeps none.
Send(record) ==
  /\ handed' = handed + 1
  /\ IF session # 0 /\ Len(queue) < QueueDepth
     THEN queue' = Append(queue, record) /\ UNCHANGED lost
     ELSE lost' = lost \cup {record.id} /\ UNCHANGED queue

\* `decision`: a row per device written to, or one with no device.
DecisionRows(event, state, written, whole) ==
  LET Row(d, c) == [at |-> event.at, id |-> 0, of |-> event.id, whole |-> whole,
                    what |-> [kind |-> "decision", device |-> d, command |-> c, state |-> state]]
  IN IF DOMAIN written = {} THEN {Row(None, None)}
     ELSE {Row(d, written[d]) : d \in DOMAIN written}

\* Mutant: an event that changes nothing is not recorded.
FoldsChanges(at, what, skipped) ==
  LET record == Record(at, what, 0)
      step == Step(engine, what)
      written == Restrict(step.directs, DOMAIN step.directs \ skipped)
  IN /\ up = "running" /\ rows = {} /\ handed < MaxHanded
     /\ IF step.state = engine THEN UNCHANGED <<queue, handed, lost>> ELSE Send(record)
     /\ engine' = step.state
     /\ rows' = IF step.decides
                THEN DecisionRows(record, step.state, written, written = step.directs) ELSE {}
     /\ UNCHANGED <<now, up, writer, database, pruned, startups, captures, failures, crashes>>

\* An event is recorded, then folded; what it decides is written to the
\* devices, `skipped` left out, and then recorded.
Folds(at, what, skipped) ==
  LET record == Record(at, what, 0)
      step == Step(engine, what)
      written == Restrict(step.directs, DOMAIN step.directs \ skipped)
  IN /\ up = "running" /\ rows = {} /\ handed < MaxHanded
     /\ Send(record)
     /\ engine' = step.state
     /\ rows' = IF step.decides
                THEN DecisionRows(record, step.state, written, written = step.directs) ELSE {}
     /\ UNCHANGED <<now, up, writer, database, pruned, startups, captures, failures, crashes>>

\* When a sample may have been taken: now or a while ago, and since the session began,
\* the samplers starting after it.
Sampled == {now} \cup {t \in {now - 1} \cap Times :
                        \A s \in sessions : s.id = session => s.started <= t}

\* A battery's sample, stamped when it was taken.
Updates == \E d \in Devices, at \in Sampled :
             Folds(at, [kind |-> "device_update", device |-> d], {})

Decides == \E r \in Readings : Folds(now, [kind |-> "meter", reading |-> r], {})

\* The failsafe: past an outage's first tick, a device that is Down is left out.
StandsDown ==
  \E down \in SUBSET engine.seen :
    /\ ~engine.timed_out => down = {}
    /\ Folds(now, [kind |-> "mqtt_timeout"], down)

\* The next decision row, by the order of the devices, the writes behind it over.
Recorded ==
  /\ up = "running" /\ handed < MaxHanded
  /\ \E r \in rows :
       /\ \A q \in rows \ {r} : r.what.device < q.what.device
       /\ Send([r EXCEPT !.id = handed + 1])
       /\ rows' = rows \ {r}
  /\ UNCHANGED <<now, engine, up, writer, database, pruned, startups, captures, failures, crashes>>

\* A sampler hands over the bytes of a response, whatever the loop is doing.
Captures ==
  /\ up = "running" /\ captures < MaxCaptures /\ handed < MaxHanded
  /\ captures' = captures + 1
  /\ Send(Record(now, Captured, 0))
  /\ UNCHANGED <<now, process, up, writer, database, pruned, startups, failures, crashes>>

-----------------------------------------------------------------------------
(* journal/mod.rs: the writer                                                *)

Today == now \div DayLength

\* The highest number in either table, and the next.
MaxSeq == Max({r.seq : r \in Everything} \cup {0})
\* Mutant: one table looked at.
NextSeqOfEvents == Max({r.seq : r \in events} \cup {0}) + 1
NextSeq == MaxSeq + 1

Old(at) == at < now - Retention
\* Mutant: the running session is not spared.
SparedNone(s, running) == FALSE
Spared(s, running) == s.id = running

Tables == {"events", "decisions", "sessions"}

\* What a prune gets through: all of them, or one fails.
Prunable == {Tables} \cup {Tables \ {t} : t \in Tables}

\* A table that cannot be pruned keeps its rows and the others go on.
Prune(tables, ev, de, se, running) ==
  /\ events' = IF "events" \in tables THEN {r \in ev : ~Old(r.at)} ELSE ev
  /\ decisions' = IF "decisions" \in tables THEN {r \in de : ~Old(r.at)} ELSE de
  /\ sessions' = IF "sessions" \in tables
                 THEN {s \in se : ~Old(s.started) \/ Spared(s, running)} ELSE se
  /\ pruned' = pruned \cup {r.id : r \in (ev \ events') \cup (de \ decisions')}

Inserted(row) ==
  <<IF row.what.kind = "decision" THEN events ELSE events \cup {row},
    IF row.what.kind = "decision" THEN decisions \cup {row} ELSE decisions>>

\* The oldest record gets the next number, whether its insert lands or not; the
\* first of a day prunes.
Writes(lands, tables) ==
  /\ up # "down" /\ queue # <<>>
  /\ queue' = Tail(queue) /\ next_seq' = next_seq + 1
  /\ failures' = IF lands THEN failures ELSE failures + 1
  /\ failures' <= MaxFailures
  /\ lost' = IF lands THEN lost ELSE lost \cup {Head(queue).id}
  /\ LET r == Head(queue)
         row == [at |-> r.at, what |-> r.what, id |-> r.id, of |-> r.of, whole |-> r.whole,
                 seq |-> next_seq, session |-> session]
         db == IF lands THEN Inserted(row) ELSE <<events, decisions>>
     IN IF Today # last_prune THEN Prune(tables, db[1], db[2], sessions, session)
        ELSE /\ tables = Tables
             /\ events' = db[1] /\ decisions' = db[2] /\ UNCHANGED <<sessions, pruned>>
  /\ last_prune' = Today
  /\ UNCHANGED <<now, process, up, session, handed, startups, captures, crashes>>

-----------------------------------------------------------------------------
(* The process.                                                              *)

\* `open`: a session in the database, or a journal that keeps nothing; then the
\* startup poll, the first event of every session.
Starts(opens, tables) ==
  /\ up = "down" /\ handed < MaxHanded
  /\ up' = "running" /\ rows' = {}
  /\ handed' = handed + 1 /\ startups' = startups \cup {handed'}
  /\ LET id == Max({s.id : s \in sessions} \cup {0}) + 1
         first == Min(Devices)
         startup == Record(now, [kind |-> "device_update", device |-> first], 0)
     IN /\ engine' = [Fresh EXCEPT !.seen = {first}]
        /\ IF opens
           THEN /\ session' = id /\ next_seq' = NextSeq /\ last_prune' = Today
                /\ Prune(tables, events, decisions, sessions \cup {[id |-> id, started |-> now]}, id)
                /\ queue' = <<startup>> /\ UNCHANGED lost
           ELSE /\ tables = Tables
                /\ session' = 0 /\ lost' = lost \cup {startup.id}
                /\ UNCHANGED <<next_seq, last_prune, database, pruned, queue>>
  /\ UNCHANGED <<now, captures, failures, crashes>>

\* Between two ticks the loop stops, every sender is dropped, and the writer is
\* waited for.
Stops ==
  /\ up = "running" /\ rows = {}
  /\ up' = "draining"
  /\ UNCHANGED <<now, process, queue, writer, database, handed, lost, pruned, startups, captures, failures, crashes>>

\* Mutant: the writer is not waited for.
ExitsUndrained ==
  /\ up = "draining"
  /\ up' = "down" /\ engine' = Fresh /\ queue' = <<>>
  /\ UNCHANGED <<now, rows, writer, database, handed, lost, pruned, startups, captures, failures, crashes>>

Exits ==
  /\ up = "draining" /\ queue = <<>>
  /\ up' = "down" /\ engine' = Fresh
  /\ UNCHANGED <<now, rows, queue, writer, database, handed, lost, pruned, startups, captures, failures, crashes>>

\* Killed: what is queued is gone.  A power cut takes the last rows too (synchronous NORMAL).
Crashes(kept) ==
  /\ up # "down" /\ crashes < MaxCrashes
  /\ crashes' = crashes + 1
  /\ up' = "down" /\ engine' = Fresh /\ rows' = {} /\ queue' = <<>>
  /\ events' = {r \in events : r.seq <= kept}
  /\ decisions' = {r \in decisions : r.seq <= kept}
  /\ handed' = handed + Cardinality(rows)
  /\ lost' = lost \cup {queue[i].id : i \in DOMAIN queue} \cup (handed + 1 .. handed')
                  \cup {r.id : r \in {r \in Everything : r.seq > kept}}
  /\ UNCHANGED <<now, writer, sessions, pruned, startups, captures, failures>>

ClockMoves(step) ==
  /\ now + step \in Times /\ now' = now + step
  /\ UNCHANGED <<process, up, queue, writer, database, handed, lost, pruned, startups, captures, failures, crashes>>

Init ==
  /\ now = 0
  /\ engine = Fresh /\ rows = {}
  /\ up = "down" /\ queue = <<>>
  /\ session = 0 /\ next_seq = 1 /\ last_prune = 0
  /\ events = {} /\ decisions = {} /\ sessions = {}
  /\ handed = 0 /\ lost = {} /\ pruned = {} /\ startups = {}
  /\ captures = 0 /\ failures = 0 /\ crashes = 0


Writer == \E lands \in BOOLEAN, tables \in Prunable : Writes(lands, tables)

Next ==
  \/ Updates \/ Decides \/ StandsDown \/ Recorded \/ Captures
  \/ Writer
  \/ \E opens \in BOOLEAN, tables \in Prunable : Starts(opens, tables)
  \/ Stops \/ Exits
  \/ \E kept \in 0 .. MaxSeq : Crashes(kept)
  \/ \E step \in Steps : ClockMoves(step)

Spec == Init /\ [][Next]_vars

-----------------------------------------------------------------------------
(* journal/read.rs                                                           *)

\* The decisions at or before `from`, and the last of them, whose snapshot is resumed from.
Seeds(from) == {r \in decisions : r.at <= from}
SeedRow(from) == CHOOSE r \in Seeds(from) : \A q \in Seeds(from) : q.seq <= r.seq

\* What `Anchor` and the end of the range select of a table.
Slice(table, from, to) ==
  {r \in table : r.at <= to /\ IF Seeds(from) = {} THEN r.at >= from ELSE r.seq > SeedRow(from).seq}

\* The newest row of the file, when an event, is left out: it may not have its decision yet.
Frames(from, to) == {e \in Slice(Foldable, from, to) : e.seq < MaxSeq}

\* Mutant: up to and with the next event's place in the other table's count.
PairedWithAll(frames, table, e) == {r \in table : r.seq > e.seq}

\* `pair`: the rows between an event and the next.
Paired(frames, table, e) ==
  {r \in table : r.seq > e.seq /\ \A f \in frames : f.seq > e.seq => r.seq < f.seq}

\* The commands of the rows paired with an event; a decision that commanded nothing has none.
Issued(from, to, e) ==
  {r \in Paired(Frames(from, to), Slice(decisions, from, to), e) : r.what.device # None}

-----------------------------------------------------------------------------
(* replay.rs                                                                 *)

\* The snapshot of the seed, or a controller starting fresh.
Seeded(from) == IF Seeds(from) = {} THEN Fresh ELSE SeedRow(from).what.state

\* The state after the frames up to each number.
Folded(from, to) ==
  LET state[n \in 0 .. MaxSeq] ==
        IF n = 0 THEN Seeded(from)
        ELSE LET here == {e \in Frames(from, to) : e.seq = n}
             IN IF here = {} THEN state[n - 1]
                             ELSE Step(state[n - 1], (CHOOSE e \in here : TRUE).what).state
  IN state

\* Recorded commands, by number, are line by line those of a step, by device.
SameLines(issued, directs) ==
  /\ {r.what.device : r \in issued} = DOMAIN directs
  /\ \A r \in issued : r.what.command = directs[r.what.device]
  /\ \A r, q \in issued : r.seq < q.seq => r.what.device < q.what.device

\* `--verify`
Verifies(from, to) ==
  \A e \in Frames(from, to) :
    SameLines(Issued(from, to, e), Step(Folded(from, to)[e.seq - 1], e.what).directs)

-----------------------------------------------------------------------------
(* Properties.                                                               *)

\* The numbers order both tables as their records were handed over, across
\* sessions, failed inserts, prunes and crashes.
OrderKept ==
  \A r, q \in Everything : r.seq < q.seq <=> r.id < q.id

InFlight == {r.of : r \in rows} \cup {queue[i].of : i \in DOMAIN queue}

\* The clock was not set back since: an event is stamped no earlier than those before it,
\* but for a sample taken a while ago, and that no earlier than its session.
Onward(first) ==
  \A r, e \in Foldable :
    first <= r.id /\ r.id < e.id /\ e.at < r.at => e.what.kind = "device_update" /\ r.id \notin startups

\* A range of one session, from whose start on nothing is missing and the clock ran
\* on, and of which nothing is under way.
Complete(from, to) ==
  LET frames == Frames(from, to)
      fresh == Seeds(from) = {}
      first == IF fresh THEN Min({e.id : e \in frames}) ELSE SeedRow(from).id
      kept == Slice(Everything, from, to) \cup (IF fresh THEN {} ELSE {SeedRow(from)})
  IN /\ frames # {}
     /\ \A n \in first .. handed : n \notin lost \cup pruned
     /\ Onward(first)
     /\ fresh => first \in startups
     /\ \A r, q \in kept : r.session = q.session
     /\ \A r \in kept : r.whole
     /\ {r.id : r \in kept} \cap InFlight = {}

\* Such a range, replayed from the snapshot it is anchored to, commands what the
\* daemon commanded: the rows of a decision are numbered after its event and
\* before the next, and their snapshot is the state that event left behind.
CompleteVerifies == \A from, to \in Times : Complete(from, to) => Verifies(from, to)

\* No decision outlives the input that caused it, but for a record lost or pruned.
InputRecorded ==
  \A r \in decisions : (\E e \in events : e.id = r.of /\ e.seq < r.seq) \/ r.of \in lost \cup pruned

\* Every record handed over is queued, or a row, or accounted for.
NoneUnaccounted ==
  1 .. handed = {queue[i].id : i \in DOMAIN queue} \cup {r.id : r \in Everything} \cup lost \cup pruned

\* The tuning the running process decides with stays on record beside its rows.
TuningOnRecord ==
  up # "down" /\ session # 0 => \E s \in sessions : s.id = session

\* The record: in order, none unaccounted for, no decision without its input and
\* no row without the tuning it was made with.
RecordsSound == TypeOK /\ OrderKept /\ NoneUnaccounted /\ InputRecorded /\ TuningOnRecord
=============================================================================
