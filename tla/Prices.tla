-------------------------------- MODULE Prices ---------------------------------
(***************************************************************************)
(* The electricity prices the dashboard shows: fetched a day ahead at the       *)
(* anchors AnchorPoller times, journalled, read back at a start, and filled in  *)
(* for the past days the journal does not price whole.                         *)
(*                                                                          *)
(* Time is local hours, and a day has as many as DayStart gives it.  A series   *)
(* maps the start of an hour to its price; both feeds price whole hours.        *)
(***************************************************************************)
EXTENDS Integers, Sequences, FiniteSets, Functions, SequencesExt, FiniteSetsExt

CONSTANTS
  None,
  DayStart,                    \* the hour each day starts at, by its number
  HistoryDays, BackfillDays,   \* PRICE_HISTORY_DAYS, backfill_days
  Levels,                      \* the prices there are
  MaxRows                      \* what is explored

VARIABLES
  now,
  rows, lost,        \* the journal's price rows, and whether one never got there
  phase,             \* "down", "first" anchor, "backfill", "polling"
  covered, todo,     \* the days the journal priced whole, those still to fetch
  today,             \* the day the backfill counts back from
  request,           \* the fetch under way
  points,            \* the snapshot's
  latest,            \* what the feed last said of each hour
  short              \* the days whose backfill failed or came short

vars == <<now, rows, lost, phase, covered, todo, today, request, points, latest, short>>

Days == 1 .. Len(DayStart) - 1
Hours == 0 .. DayStart[Len(DayStart)] - 1
Series == UNION {[hs -> Levels] : hs \in SUBSET Hours}
LocalDate(at) == CHOOSE d \in Days : DayStart[d] <= at /\ at < DayStart[d + 1]
HoursOf(day) == DayStart[day] .. DayStart[day + 1] - 1

IsSeries(s) == DOMAIN s \subseteq Hours /\ \A h \in DOMAIN s : s[h] \in Levels

TypeOK ==
  /\ now \in Hours /\ lost \in BOOLEAN
  /\ \A i \in DOMAIN rows : IsSeries(rows[i]) /\ rows[i] # <<>>
  /\ phase \in {"down", "first", "backfill", "polling"}
  /\ covered \subseteq Days /\ short \subseteq Days /\ today \in Days \cup {None}
  /\ todo \subseteq Days \ covered
  /\ request \in {None} \cup [from : Hours, until : 0 .. DayStart[Len(DayStart)]]
  /\ IsSeries(points) /\ IsSeries(latest)

\* No earlier than the history and the backfill have their days.
Init ==
  /\ now = DayStart[HistoryDays + Max({1, BackfillDays})] /\ rows = <<>> /\ lost = FALSE
  /\ phase = "down" /\ covered = {} /\ todo = {} /\ today = None /\ request = None
  /\ points = <<>> /\ latest = <<>> /\ short = {}

-----------------------------------------------------------------------------
(* mod.rs, series.rs                                                         *)

\* `insert`, point by point: the new value replaces the old.
Inserted(series, new) ==
  [h \in DOMAIN series \cup DOMAIN new |-> IF h \in DOMAIN new THEN new[h] ELSE series[h]]

\* `drop_ending_before`
Dropped(series, cutoff) == Restrict(series, {h \in DOMAIN series : h + 1 > cutoff})

HistoryStart(at) ==
  LET oldest == LocalDate(at) - HistoryDays
  IN IF oldest \in Days THEN DayStart[oldest] ELSE DayStart[LocalDate(at)]

\* Mutant: the first row to price an hour is kept.
DecodedFirst(recorded) == FoldRight(LAMBDA row, series : Inserted(series, row), recorded, <<>>)
Decoded(recorded) == FoldLeft(Inserted, <<>>, recorded)

FullyPriced(series, day) == HoursOf(day) \subseteq DOMAIN series

\* Mutant: a day with any price is covered.
CoveredInPart(series) == {d \in Days : HoursOf(d) \cap DOMAIN series # {}}
Covered(series) == {d \in Days : FullyPriced(series, d)}

\* `missing_days`
Missing(day, priced) == (day - BackfillDays .. day - 1) \cap (Days \ priced)

\* Mutant: only today's prices and later are restored.
RestoredFromToday(series) == Dropped(series, DayStart[LocalDate(now)])
Restored(series) == Dropped(series, HistoryStart(now))

Merged(new) == Dropped(Inserted(points, new), HistoryStart(now))

\* A past day, where it is still shown.
Backfilled(new) == Inserted(points, Dropped(new, HistoryStart(now)))

TodayAndTomorrow(day) == [from |-> DayStart[day], until |-> DayStart[day + 2]]

\* What the feed answers: it publishes hours in order, at one price or another,
\* and may send the hour past the end, which `within` drops.
Within(sent, r) == Restrict(sent, {h \in DOMAIN sent : r.from <= h /\ h < r.until})
Answers(r) == {Within([h \in {x \in Hours : r.from <= x /\ x < end} |-> price], r) :
                 end \in r.from .. r.until + 1, price \in Levels}

-----------------------------------------------------------------------------
(* `Poller::run`                                                             *)

Starts ==
  /\ phase = "down"
  /\ phase' = "first"
  \* A journal that cannot be read prices nothing.
  /\ \E recorded \in {rows, <<>>} :
       /\ covered' = Covered(Decoded(recorded))
       /\ points' = Restored(Decoded(recorded))
       /\ lost' = (lost \/ recorded # rows)
  /\ UNCHANGED <<now, rows, todo, today, request, latest, short>>

\* What `today` and `covered` ask for once the first anchor is dealt with.
Backfills ==
  IF phase = "first"
  THEN phase' = "backfill" /\ today' = LocalDate(now) /\ todo' = Missing(LocalDate(now), covered)
  ELSE UNCHANGED <<phase, today, todo>>

\* The schedule has an anchor or a retry due.
AsksAnchor ==
  /\ phase \in {"first", "polling"} /\ request = None /\ LocalDate(now) + 2 \in DOMAIN DayStart
  /\ request' = TodayAndTomorrow(LocalDate(now))
  /\ UNCHANGED <<now, rows, lost, phase, covered, todo, today, points, latest, short>>

NothingDue ==
  /\ phase = "first" /\ request = None
  /\ Backfills
  /\ UNCHANGED <<now, rows, lost, covered, request, points, latest, short>>

\* The oldest first.
AsksDay ==
  /\ phase = "backfill" /\ request = None /\ todo # {}
  /\ request' = [from |-> DayStart[Min(todo)], until |-> DayStart[Min(todo) + 1]]
  /\ todo' = todo \ {Min(todo)}
  /\ UNCHANGED <<now, rows, lost, phase, covered, today, points, latest, short>>

Shortfall(answer) ==
  IF phase = "backfill" /\ ~FullyPriced(answer, LocalDate(request.from)) THEN {LocalDate(request.from)} ELSE {}

\* An answer with prices is journalled, unless the journal's queue is full.
Answered ==
  /\ request # None /\ Len(rows) < MaxRows
  /\ \E answer \in Answers(request) \ {<<>>} :
       /\ \/ rows' = Append(rows, answer) /\ UNCHANGED lost
          \/ lost' = TRUE /\ UNCHANGED rows
       /\ points' = IF phase = "backfill" THEN Backfilled(answer) ELSE Merged(answer)
       /\ latest' = Inserted(latest, answer)
       /\ short' = short \cup Shortfall(answer)
  /\ request' = None
  /\ Backfills
  /\ UNCHANGED <<now, covered>>

\* A failed fetch, or an answer without prices.
Fails ==
  /\ request # None
  /\ short' = short \cup Shortfall(<<>>)
  /\ request' = None
  /\ Backfills
  /\ UNCHANGED <<now, rows, lost, covered, points, latest>>

Settles ==
  /\ phase = "backfill" /\ todo = {} /\ request = None
  /\ phase' = "polling"
  /\ UNCHANGED <<now, rows, lost, covered, todo, today, request, points, latest, short>>

\* Shut down or killed, the fetch under way dropped.
Stops ==
  /\ phase # "down"
  /\ phase' = "down" /\ request' = None
  /\ covered' = {} /\ todo' = {} /\ today' = None /\ short' = {}
  /\ UNCHANGED <<now, rows, lost, points, latest>>

Passes ==
  /\ now + 1 \in Hours
  /\ now' = now + 1
  /\ UNCHANGED <<rows, lost, phase, covered, todo, today, request, points, latest, short>>

Next ==
  \/ Starts \/ AsksAnchor \/ NothingDue \/ AsksDay \/ Answered \/ Fails \/ Settles \/ Stops \/ Passes

Spec == Init /\ [][Next]_vars

-----------------------------------------------------------------------------
(* Properties.                                                               *)

\* A restart changes no price the dashboard shows: what the journal reads back is
\* what the poller held, whatever was fetched, revised and backfilled in what order.
RestartKeepsPrices ==
  ~lost => Restored(Decoded(rows)) = Dropped(points, HistoryStart(now))

\* No hour the panel reaches shows a price the feed has since revised, not after a
\* backfill or a restart either.
FreshestShown ==
  ~lost => \A h \in DOMAIN points : h >= HistoryStart(now) => points[h] = latest[h]

\* Once the backfill is through, each day it was to see to is shown whole, unless
\* its own fetch came short: no stray hour on record makes a day pass for priced.
PastIsWhole ==
  phase = "polling" => \A d \in (today - BackfillDays .. today - 1) \cap Days :
    DayStart[d] >= HistoryStart(now) => d \in short \/ FullyPriced(points, d)

\* The prices held: none lost to a restart, none out of date, and the past whole.
PricesKept == TypeOK /\ RestartKeepsPrices /\ FreshestShown /\ PastIsWhole
=============================================================================
