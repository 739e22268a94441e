-------------------------------- MODULE Ceiling --------------------------------
(***************************************************************************)
(* One device's charge ceiling (`socSet`) kept in step with the             *)
(* controller's max SOC for the day: `CeilingSync`, and the shell that on    *)
(* every tick folds in what a poll reported and writes when it is due.       *)
(*                                                                          *)
(* The wall-clock instant of the last write is kept as its age, capped at    *)
(* RetryAfter; a step of the clock moves it either way.                      *)
(***************************************************************************)
EXTENDS Integers

CONSTANTS
  None,
  Socs,           \* ceilings the days ask for, and values a device may hold
  RetryAfter,     \* the pause, in ticks
  ClockSteps,     \* how far the wall clock moves from one tick to the next
  MaxUpsets,      \* reversions, restarts and steps of the clock explored
  MaxDays,        \* changes of the day's max SOC explored
  Clamps          \* what the device makes of a ceiling it is sent

MinAge == -RetryAfter
Ages == MinAge .. RetryAfter

VARIABLES
  soc,            \* what the device holds
  sampled,        \* what it held when the last poll's report was prepared
  held,           \* [kind, target, age], the record of the last write
  reported,       \* what the device last said
  max,            \* the controller's max SOC for the day
  pc,
  quiet,          \* history: ticks since the last write of the same target
  last,           \* history: the target of the last write
  jumped,         \* history: the clock stepped since
  upsets, days

vars == <<soc, sampled, held, reported, max, pc, quiet, last, jumped, upsets, days>>

Unknown == [kind |-> "unknown", target |-> None, age |-> 0]
Records == {Unknown} \cup [kind : {"written", "failed"}, target : Socs, age : Ages]

TypeOK ==
  /\ soc \in Socs /\ sampled \in Socs /\ max \in Socs
  /\ held \in Records
  /\ reported \in Socs \cup {None}
  /\ pc \in {"poll", "sync"}
  /\ quiet \in 0 .. RetryAfter
  /\ last \in Socs \cup {None}
  /\ jumped \in BOOLEAN
  /\ upsets \in 0 .. MaxUpsets /\ days \in 0 .. MaxDays

Init ==
  /\ soc \in Socs /\ sampled = soc
  /\ held = Unknown /\ reported = None
  /\ max \in Socs
  /\ pc = "poll"
  /\ quiet = RetryAfter /\ last = None /\ jumped = FALSE
  /\ upsets = 0 /\ days = 0

Aged(age, step) ==
  IF age + step > RetryAfter THEN RetryAfter
  ELSE IF age + step < MinAge THEN MinAge ELSE age + step

\* Mutants: a report that disagrees is acted on at once; a failure is not retried.
DueAtOnce(target) ==
  CASE held.kind = "unknown" -> TRUE
    [] held.kind = "written" -> held.target # target \/ reported \notin {None, target}
    [] held.kind = "failed"  -> held.target # target \/ held.age >= RetryAfter
DueForgetsFailure(target) ==
  CASE held.kind = "unknown" -> TRUE
    [] held.kind = "written" -> \/ held.target # target
                                \/ reported \notin {None, target} /\ held.age >= RetryAfter
    [] held.kind = "failed"  -> held.target # target

\* `Ceiling::due`: always until something landed or failed, at once for a new
\* target, and after the pause for one that failed or that the device denies.
Due(target) ==
  CASE held.kind = "unknown" -> TRUE
    [] held.kind = "written" -> \/ held.target # target
                                \/ reported \notin {None, target} /\ held.age >= RetryAfter
    [] held.kind = "failed"  -> held.target # target \/ held.age >= RetryAfter

\* A tick begins: the clock has moved `step`, and the fold brings a report, of
\* what the device holds or of what it held a poll ago, or none.
Observe(step, report) ==
  /\ pc = "poll"
  /\ report \in {None, soc, sampled}
  /\ pc' = "sync"
  /\ reported' = IF report = None THEN reported ELSE report
  /\ sampled' = soc
  /\ held' = [held EXCEPT !.age = IF held.kind = "unknown" THEN 0 ELSE Aged(held.age, step)]
  /\ quiet' = Aged(quiet, 1)
  /\ jumped' = (jumped \/ step # 1)
  /\ upsets' = IF step = 1 THEN upsets ELSE upsets + 1
  /\ upsets' <= MaxUpsets
  /\ UNCHANGED <<soc, max, last, days>>

\* Mutant: a failure is recorded without the target it tried.
WroteNoTarget(kind) ==
  /\ pc = "sync" /\ Due(max)
  /\ pc' = "poll"
  /\ held' = [kind |-> kind, target |-> IF kind = "failed" THEN None ELSE max, age |-> 0]
  /\ quiet' = 0 /\ last' = max /\ jumped' = FALSE
  /\ UNCHANGED <<sampled, reported, max, upsets, days>>

Wrote(kind) ==
  /\ pc = "sync" /\ Due(max)
  /\ pc' = "poll"
  /\ held' = [kind |-> kind, target |-> max, age |-> 0]
  /\ quiet' = 0 /\ last' = max /\ jumped' = FALSE
  /\ UNCHANGED <<sampled, reported, max, upsets, days>>

WriteLands == Wrote("written") /\ soc' = Clamps[max]

\* An error, or an answer lost after the device took it.
WriteFails == Wrote("failed") /\ soc' \in {soc, Clamps[max]}

NotDue ==
  /\ pc = "sync" /\ ~Due(max)
  /\ pc' = "poll"
  /\ UNCHANGED <<soc, sampled, held, reported, max, quiet, last, jumped, upsets, days>>

\* Local midnight into or out of the balance day.
DayTurns(target) ==
  /\ pc = "poll" /\ days < MaxDays
  /\ target # max
  /\ max' = target
  /\ days' = days + 1
  /\ UNCHANGED <<soc, sampled, held, reported, pc, quiet, last, jumped, upsets>>

\* The pack restarts onto its flash value, or its app writes one.
Reverts(value) ==
  /\ upsets < MaxUpsets
  /\ upsets' = upsets + 1
  /\ soc' = value
  /\ UNCHANGED <<sampled, held, reported, max, pc, quiet, last, jumped, days>>

\* The process starts again: nothing is known of what the device holds.
Restart ==
  /\ upsets < MaxUpsets
  /\ upsets' = upsets + 1
  /\ held' = Unknown /\ reported' = None
  /\ pc' = "poll" /\ quiet' = RetryAfter /\ last' = None /\ jumped' = FALSE
  /\ UNCHANGED <<soc, sampled, max, days>>

Reports == Socs \cup {None}
Sync == WriteLands \/ WriteFails \/ NotDue

Next ==
  \/ \E step \in ClockSteps, report \in Reports : Observe(step, report)
  \/ Sync
  \/ \E value \in Socs : DayTurns(value) \/ Reverts(value)
  \/ Restart

Spec == Init /\ [][Next]_vars

\* The loop keeps ticking, the device takes a write it is sent again and again,
\* and now and then a poll reads what it holds.
LiveSpec ==
  /\ Spec
  /\ WF_vars(Sync) /\ SF_vars(WriteLands)
  /\ SF_vars(Observe(1, soc))

-----------------------------------------------------------------------------
(* Properties.                                                               *)

\* CONTROL-2: unless the clock steps, a device that refuses, clamps or denies a
\* ceiling is written to once a pause, never once a tick.
WritesSpaced ==
  [][pc = "sync" /\ quiet' = 0 /\ last = max /\ ~jumped => quiet >= RetryAfter]_vars

\* However the writes fail, the device goes back or the clock steps, it ends up
\* holding the day's ceiling, or what it makes of it.
CeilingConverges == <>[](soc \in {max, Clamps[max]})
=============================================================================
