------------------------------- MODULE PackTrace -------------------------------
(***************************************************************************)
(* What each battery pack took in and gave out per quarter of an hour: the       *)
(* energy between two reports of one pack, told apart by serial or by position,    *)
(* in the ring of `History`, live and as a restart reads it back.                *)
(*                                                                          *)
(* The energy between two reports is the pair of their rows.                     *)
(***************************************************************************)
EXTENDS History

CONSTANTS
  MaxFlowGap,          \* MAX_FLOW_GAP
  Reports              \* the reports that are explored

VARIABLES
  trace                \* each pack's last report of a flow, and the pairs so far

packVars == <<now, rows, history, heard, steps, stepped, trace>>

Packs == UNION {report.fitted : report \in Reports}
Keys ==
  ({"serial"} \X Packs) \cup ({"place"} \X (1 .. Max({Len(report.packs) : report \in Reports})))

Untraced == [last |-> [key \in Keys |-> None], spans |-> {}]

PackTypeOK ==
  /\ now \in 0 .. MaxNow /\ steps \in 0 .. MaxSteps
  /\ \A i \in DOMAIN rows : rows[i].at \in 0 .. MaxNow /\ rows[i].report \in Reports
  /\ \A key \in Keys : trace.last[key] = None \/ trace.last[key].row \in DOMAIN rows
  /\ \A s \in trace.spans : s.key \in Keys /\ s.from \in DOMAIN rows /\ s.to \in DOMAIN rows

PackInit == Init /\ trace = Untraced

-----------------------------------------------------------------------------
(* zendure/mod.rs, pack_intervals.rs                                         *)

\* Mutant: a report is taken for all the packs there are.
CompleteAny(report) == TRUE
\* `complete_packs`: as many packs as the box says it has, where it says so.
Complete(report) == report.counted => Len(report.packs) = Cardinality(report.fitted)

\* Mutant: a pack is told by its place in the report.
KeyOfPlace(report, i) == <<"place", i>>
\* `PackId`: the serial where there is one.
Key(report, i) ==
  IF report.packs[i].serial THEN <<"serial", report.packs[i].pack>> ELSE <<"place", i>>

\* Mutant: a pack's first report is the one all later ones integrate against.
FirstFlow(last, at, row) == IF last = None THEN [at |-> at, row |-> row] ELSE last
LastFlow(last, at, row) == [at |-> at, row |-> row]

\* Mutant: nothing is too far apart.
JoinedAny(last, at) == last # None
\* `span_within`: not across a silence, and not backwards.
Joined(last, at) == last # None /\ at - last.at \in 0 .. MaxFlowGap

\* `observe`, `integrate`: what a report adds to each pack with a flow in it.
Observe(t, row, r) ==
  LET flowing == {i \in DOMAIN r.report.packs : r.report.packs[i].flow}
      keys    == {Key(r.report, i) : i \in flowing}
  IN [last  |-> [key \in Keys |-> IF key \in keys THEN LastFlow(t.last[key], r.at, row) ELSE t.last[key]],
      spans |-> t.spans \cup {[key |-> key, from |-> t.last[key].row, to |-> row] :
                                key \in {k \in keys : Joined(t.last[k], r.at)}}]

\* `record_packs`, of a report that is complete: the trace moves on even where the
\* ring drops the reading.
Fold(state, row, r) ==
  IF Complete(r.report)
  THEN [history |-> Record(state.history, row, r), trace |-> Observe(state.trace, row, r)]
  ELSE state

\* Mutant: the captures of the rolling day only.
CapturesOfDay == SelectSeq(InRange({"packs"}), LAMBDA i : rows[i].at >= now - PerInterval * Rolling)
\* `seed_interval_history`: those of the ring.
Captures == InRange({"packs"})

SeededPacks ==
  FoldLeft(LAMBDA state, i : Fold(state, i, rows[i]), [history |-> Empty, trace |-> Untraced], Captures)

\* The pairs in the bucket of an interval.
Energy(state, index) ==
  {s \in state.trace.spans : s.to \in {sample.row : sample \in Samples(state.history, index)}}

Live == [history |-> history, trace |-> trace]

-----------------------------------------------------------------------------

Captured(report) ==
  /\ Len(rows) < MaxRows
  /\ rows' = Append(rows, [at |-> now, kind |-> "packs", report |-> report])

\* `poll_tick`
PackTick ==
  \E report \in Reports :
    LET folded == Fold(Live, Len(rows'), rows'[Len(rows')]) IN
      /\ Captured(report)
      /\ history' = folded.history /\ trace' = folded.trace
      /\ UNCHANGED <<now, heard, steps, stepped>>

\* A poll whose answer missed its round is captured and never folded.
UnheardTick ==
  /\ \E report \in Reports : Captured(report)
  /\ UNCHANGED <<now, history, heard, steps, stepped, trace>>

PackRestart ==
  /\ history' = SeededPacks.history /\ trace' = SeededPacks.trace
  /\ UNCHANGED <<now, rows, heard, steps, stepped>>

PackClock == (Passes \/ StepsClock) /\ UNCHANGED trace

PackNext == PackTick \/ UnheardTick \/ PackRestart \/ PackClock

PackSpec == PackInit /\ [][PackNext]_packVars

-----------------------------------------------------------------------------
(* Properties.                                                               *)

Counted(state) == UNION {Energy(state, b.index) : b \in Buckets(state.history)}

\* No energy is counted twice: of one pack, two pairs never overlap, over restarts,
\* missed rounds and steps of the clock.
EnergyOnce ==
  \A s, t \in Counted(Live) : s.key = t.key /\ s # t => s.to <= t.from \/ t.to <= s.from

\* A restart loses none of the rolling day's energy: where the running process had
\* two reports to integrate between, it has the same ones or finer, whatever polls
\* missed their round, unless the clock was set.
SeedIntegrates ==
  LET window == Index(now) - Rolling + 1 .. Index(now)
      Moments(state, key) ==
        UNION {s.from .. s.to - 1 : s \in {e \in Counted(state) : e.key = key}}
      recent(s) == Index(rows[s.to].at) \in window /\ rows[s.from].at >= now - Span
  IN steps = 0 => \A s \in Counted(Live) :
                    recent(s) => s.from .. s.to - 1 \subseteq Moments(SeededPacks, s.key)

\* Energy is of one pack: reports are paired only if it was the same pack that made
\* them, whatever the order it is listed in and however few report, or the packs
\* had no serial and one was added or removed.
OwnPack ==
  LET Reporter(row, key) ==
        rows[row].report.packs[CHOOSE i \in DOMAIN rows[row].report.packs : Key(rows[row].report, i) = key]
  IN \A s \in trace.spans :
       LET from == Reporter(s.from, s.key)  to == Reporter(s.to, s.key)
       IN \/ from.pack = to.pack
          \/ ~from.serial /\ ~to.serial /\ rows[s.from].report.fitted # rows[s.to].report.fitted

\* No pair spans a silence: between two reports of a pack that are integrated it went
\* unheard for no more than the gap, but for a clock that was set.
NoneInvented ==
  steps = 0 => \A s \in trace.spans : rows[s.to].at - rows[s.from].at <= MaxFlowGap

\* The figures of single packs.
PacksKept == PackTypeOK /\ EnergyOnce /\ SeedIntegrates /\ OwnPack /\ NoneInvented
================================================================================
