----------------------------- MODULE AnchorPoller -----------------------------
(***************************************************************************)
(* A poller that fetches at local times of day: `AnchorSchedule`, the        *)
(* `poll_at` of the forecast and the price pollers, the sites one forecast    *)
(* is made of, and the state file that outlives a restart.                   *)
(*                                                                          *)
(* The clock is the local one, in minutes.  The code compares dates only for *)
(* equality and times of day only within a date, so the dates go round: one   *)
(* still remembered when its turn comes again is None, which equals no date.  *)
(***************************************************************************)
EXTENDS Integers, FiniteSets, FiniteSetsExt

CONSTANTS
  None,
  Dates, DayLength,     \* days before the dates go round, minutes in a day
  PollTimes,            \* [prediction] or [prices] poll_times
  Delay,                \* RETRY_POLICY.delay, in minutes
  Pollers,              \* the pollers explored, see PollerType
  Steps,                \* how far the local clock moves on from a check: 1, or DST, NTP, a suspended host
  MaxUpsets,            \* moves other than 1 explored
  MaxRestarts

PollerType ==
  [sites : SUBSET {"east", "west", "feed"},
   attempts : Nat,      \* RETRY_POLICY.attempts
   keeps : BOOLEAN,     \* the sites that answered are kept for the retry (solcast)
   persists : BOOLEAN]  \* the settled anchors are saved (forecasts)

ASSUME CalendarAssumption ==
  /\ Dates \in Nat /\ Dates > 2 /\ DayLength \in Nat \ {0}
  /\ PollTimes # {} /\ PollTimes \subseteq 0 .. DayLength - 1
  /\ Delay \in Nat \ {0}
  \* A move is short of a round of the dates, by a day at least.
  /\ 1 \in Steps /\ Steps \subseteq Int
  /\ \A step \in Steps : -step < (Dates - 1) * DayLength /\ step < (Dates - 1) * DayLength
  /\ MaxUpsets \in Nat /\ MaxRestarts \in Nat
ASSUME PollersAssumption ==
  /\ Pollers \subseteq PollerType
  /\ \A p \in Pollers : p.sites # {}
  \* What has several sites keeps their answers.
  /\ \A p \in Pollers : p.keeps \/ \E s \in p.sites : p.sites = {s}

VARIABLES
  poller,         \* which of Pollers this is, for good
  date, time,     \* the local clock
  \* AnchorSchedule
  settled_date, settled, pending,
  file,           \* what was last saved, None when missing or unreadable
  \* the poller's task
  pc, checked,
  now,            \* the time `poll_at` was given; its date is the anchor's
  anchor,         \* what was last asked for
  got,            \* `Kept`: the sites that answered for it
  \* history, read by the properties only
  paid,           \* answers received for anchors of `paid_date`
  paid_date,
  tries,          \* fetches begun for `anchor`
  late,           \* a minute went by without a check
  back,           \* the clock stepped back
  unsaved,        \* the file is behind what is settled
  upsets, restarts

clock    == <<date, time>>
schedule == <<settled_date, settled, pending>>
task     == <<pc, checked, now, anchor, got>>
upset    == <<late, back, upsets, restarts>>
history  == <<paid, paid_date, tries, unsaved, upset>>
vars     == <<poller, clock, schedule, file, task, history>>

Days    == 0 .. Dates - 1
Times   == 0 .. DayLength - 1
Anchors == [date : Days, slot : PollTimes]
Retries == [anchor : Anchors, attempt : Nat, due : Times]
Saved   == [date : Days \cup {None}, settled : SUBSET PollTimes]
Sites   == UNION {p.sites : p \in Pollers}

ASSUME NoneAssumption == None \notin Days \cup Times \cup Anchors \cup Retries \cup Saved

TypeOK ==
  /\ poller \in Pollers
  /\ date \in Days /\ time \in Times
  /\ settled_date \in Days \cup {None} /\ settled \subseteq PollTimes
  /\ pending \in Retries \cup {None}
  /\ file \in Saved \cup {None}
  /\ pc \in {"waiting", "fetching", "saving"}
  /\ checked \in BOOLEAN
  /\ now \in IF pc = "waiting" THEN {None} ELSE Times
  /\ anchor \in Anchors \cup {None} /\ got \subseteq poller.sites
  /\ paid \in [Sites -> Nat] /\ paid_date \in Days \cup {None} /\ tries \in Nat
  /\ late \in BOOLEAN /\ back \in BOOLEAN /\ unsaved \in BOOLEAN
  /\ upsets \in 0 .. MaxUpsets /\ restarts \in 0 .. MaxRestarts

Init ==
  /\ poller \in Pollers
  /\ date = 0 /\ time \in Times
  /\ settled_date = None /\ settled = {} /\ pending = None
  /\ file = None
  /\ pc = "waiting" /\ checked = FALSE /\ now = None /\ anchor = None /\ got = {}
  /\ paid = [s \in Sites |-> 0] /\ paid_date = 0 /\ tries = 0
  /\ late = FALSE /\ back = FALSE /\ unsaved = FALSE /\ upsets = 0 /\ restarts = 0

-----------------------------------------------------------------------------
(* schedule.rs                                                               *)

SettledOn(day) == IF settled_date = day THEN settled ELSE {}

\* Mutant: yesterday's anchors stay settled.
OverdueForGood(day, t) == {a \in PollTimes : a <= t} \ settled

Overdue(day, t) == {a \in PollTimes : a <= t} \ SettledOn(day)

\* The latest anchor of the day that is due and unsettled.
NextDue(day, t) ==
  IF Overdue(day, t) = {} THEN None ELSE [date |-> day, slot |-> Max(Overdue(day, t))]

Awaits(key) == pending # None /\ pending.anchor = key

\* `decide`: a newly due anchor supersedes a pending retry, and an anchor with a
\* retry pending waits for it.
Fetch(day, t) ==
  LET due == NextDue(day, t)
  IN IF due # None /\ ~Awaits(due) THEN due
     ELSE IF pending # None /\ pending.anchor.date = day /\ t >= pending.due
     THEN pending.anchor ELSE None

\* `mark_used`: the anchor and every earlier one of its day.
Settle ==
  /\ pending' = None
  /\ settled_date' = anchor.date
  /\ settled' = SettledOn(anchor.date) \cup {a \in PollTimes : a <= anchor.slot}

Attempt == IF Awaits(anchor) THEN pending.attempt + 1 ELSE 1

\* Mutants: a retry is armed for the next day too; one attempt too many.
RetriesPastMidnight == Attempt <= poller.attempts
RetriesOnceMore == Attempt <= poller.attempts + 1 /\ now + Delay < DayLength

\* There is an attempt left and its retry falls on this day.
WillRetry == Attempt <= poller.attempts /\ now + Delay < DayLength

\* A failed fetch is due again after the delay, or the anchor is given up on.
MarkFailed ==
  IF WillRetry
  THEN /\ pending' = [anchor |-> anchor, attempt |-> Attempt,
                      due |-> now + Delay]
       /\ UNCHANGED <<settled_date, settled>>
  ELSE Settle

-----------------------------------------------------------------------------
(* The poller's task.                                                        *)

\* `save`, in place: a failure leaves the old file, or a broken one.
Save ==
  IF ~poller.persists THEN UNCHANGED <<file, unsaved>>
  ELSE \/ /\ file' = [date |-> settled_date', settled |-> settled']
          /\ unsaved' = FALSE
       \/ /\ file' \in {file, None}
          /\ unsaved' = TRUE

\* Once a minute: the clock is read, and what is due is asked for.  A fetch for
\* another anchor than the last forgets what that one had got.
Check ==
  /\ pc = "waiting" /\ ~checked
  /\ checked' = TRUE
  /\ LET due == Fetch(date, time)
     IN IF due = None THEN UNCHANGED <<pc, now, anchor, got, tries, paid, paid_date>>
        ELSE /\ pc' = "fetching"
             /\ now' = time
             /\ anchor' = due
             /\ got' = IF due = anchor THEN got ELSE {}
             /\ tries' = IF due = anchor THEN tries + 1 ELSE 1
             /\ paid' = IF due.date = paid_date THEN paid ELSE [s \in Sites |-> 0]
             /\ paid_date' = due.date
  /\ UNCHANGED <<poller, clock, schedule, file, unsaved, upset>>

Asked == poller.sites \ got

\* Mutant: one site failing drops the other's answer.
KeepWhole(ok) == IF poller.keeps /\ ok = Asked THEN poller.sites ELSE {}

\* What is kept of the anchor's answers, `ok` the sites that answered now.
Keep(ok) == IF poller.keeps THEN got \cup ok ELSE {}

Answered(ok) ==
  /\ pc = "fetching" /\ ok \subseteq Asked
  /\ got' = Keep(ok)
  /\ paid' = [s \in Sites |-> IF s \in ok THEN paid[s] + 1 ELSE paid[s]]
  /\ UNCHANGED <<poller, clock, checked, anchor, paid_date, tries, upset>>

\* Every site answered: the points are merged and saved, the anchor not settled yet.
FetchOk ==
  /\ Answered(Asked)
  /\ pc' = "saving"
  /\ UNCHANGED <<now, schedule>>
  /\ Save

Settles ==
  /\ pc = "saving"
  /\ pc' = "waiting" /\ now' = None
  /\ Settle /\ Save
  /\ UNCHANGED <<poller, clock, checked, anchor, got, paid, paid_date, tries, upset>>

\* A request refused, an undecodable body or an empty one: a retry would not help.
FetchRefused(ok) ==
  /\ Answered(ok) /\ ok # Asked
  /\ pc' = "waiting" /\ now' = None
  /\ Settle /\ Save

\* Mutant: an anchor given up on is not saved.
KeepRecordUnsaved == UNCHANGED <<file, unsaved>>

\* An anchor given up on is settled, which is saved; a pending retry is not.
KeepRecord == IF WillRetry THEN UNCHANGED <<file, unsaved>> ELSE Save

FetchFailed(ok) ==
  /\ Answered(ok) /\ ok # Asked
  /\ pc' = "waiting" /\ now' = None
  /\ MarkFailed /\ KeepRecord

-----------------------------------------------------------------------------
(* The clock and the process.                                                *)

\* A date remembered from the last round, when its turn comes again.
Past(remembered) ==
  IF ~back' /\ date' # date /\ remembered = date' THEN None ELSE remembered

\* And what is remembered of such a date: an anchor's key is one of the last round's.
PastAnchor(key) == IF key # None /\ Past(key.date) = None THEN None ELSE key
PastRetry == IF pending # None /\ Past(pending.anchor.date) = None THEN None ELSE pending
PastFile  == IF file = None THEN None ELSE [file EXCEPT !.date = Past(@)]

Moves(step) ==
  LET then == (date * DayLength + time + step) % (Dates * DayLength)
  IN /\ date' = then \div DayLength /\ time' = then % DayLength
     /\ checked' = FALSE
     /\ back' = (back \/ step < 0)
     /\ upsets' = IF step \in {0, 1} THEN upsets ELSE upsets + 1
     /\ upsets' <= MaxUpsets

\* The local clock moves on.  A request outlasts one change of the minute at
\* most, and the check it kept from its minute is made right after.
ClockMoves(step) ==
  /\ \/ pc = "waiting" /\ checked
     \/ pc = "fetching" /\ checked
  /\ Moves(step)
  /\ late' = (late \/ step # 1)
  /\ settled_date' = Past(settled_date) /\ pending' = PastRetry /\ file' = PastFile
  /\ anchor' = PastAnchor(anchor) /\ paid_date' = Past(paid_date)
  /\ UNCHANGED <<poller, settled, pc, now, got, paid, tries, unsaved, restarts>>

\* Shut down or killed, a fetch in flight abandoned and a save cut short, and
\* started again `away` minutes later: the schedule picks up from the file.
Restart(torn, away) ==
  /\ restarts < MaxRestarts
  /\ restarts' = restarts + 1
  /\ torn => pc = "saving" /\ poller.persists
  /\ Moves(away)
  /\ late' = (late \/ away # 0)
  /\ file' = IF torn THEN None ELSE PastFile
  /\ unsaved' = (unsaved \/ torn)
  /\ settled_date' = IF file' = None THEN None ELSE file'.date
  /\ settled' = IF file' = None THEN {} ELSE file'.settled
  /\ pending' = None
  /\ pc' = "waiting" /\ now' = None /\ anchor' = None /\ got' = {} /\ tries' = 0
  /\ paid_date' = Past(paid_date)
  /\ UNCHANGED <<poller, paid>>

Fetched == FetchOk \/ \E ok \in SUBSET Sites : FetchRefused(ok) \/ FetchFailed(ok)

Next ==
  \/ Check \/ Fetched \/ Settles
  \/ \E step \in Steps : ClockMoves(step)
  \/ \E torn \in BOOLEAN, away \in Steps \cup {0} : Restart(torn, away)

Spec == Init /\ [][Next]_vars

\* Minutes pass, the check is made and every request ends, if only by its timeout.
LiveSpec ==
  /\ Spec
  /\ WF_vars(Check) /\ WF_vars(Fetched) /\ WF_vars(Settles) /\ WF_vars(ClockMoves(1))

-----------------------------------------------------------------------------
(* Properties.                                                               *)

\* However failures, retries, catch-ups and restarts fall, no site is paid for
\* more often in a day than there are anchors, but for the fetch each restart
\* may repeat (prediction/mod.rs: the 10-request cap).
DailyBudget ==
  ~back => \A s \in Sites : paid[s] <= Cardinality(PollTimes) + restarts

\* One anchor is asked for once, and once more per attempt.
RetriesBounded == ~back => tries <= 1 + poller.attempts

\* With a check every minute, a day ends with each of its anchors settled or in
\* flight: no failure and no supersession leaves one behind, and no retry is
\* left for the rollover to drop.
SettledByMidnight ==
  [][date' # date /\ pc = "waiting" /\ ~late' => SettledOn(date) = PollTimes]_vars

\* What was settled today stays so, through restarts too, unless the last save
\* failed or was cut short, or the clock went back.
SettledIsKept ==
  [][poller.persists /\ ~back' /\ ~unsaved' /\ date' = date
       => SettledOn(date) \subseteq SettledOn(date)']_vars

\* Once requests are answered, the last anchor of a day gets its forecast, day
\* after day.
Answering == <>[][~\E ok \in SUBSET Sites : FetchRefused(ok) \/ FetchFailed(ok)]_vars
ForecastArrives ==
  Answering => []<><<FetchOk /\ anchor.slot = Max(PollTimes)>>_vars

\* The requests of a day and of an anchor are bounded.
FetchesBounded == TypeOK /\ DailyBudget /\ RetriesBounded

\* An anchor is settled within its day and stays so.
AnchorsSettled == SettledByMidnight /\ SettledIsKept
=============================================================================
