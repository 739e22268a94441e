----------------------------- MODULE RetriesProofs -----------------------------
(***************************************************************************)
(* Proofs about what is tried again by the wall clock: the fetches of any     *)
(* poller, whatever its sites and times of day, however its clock moves.      *)
(***************************************************************************)
EXTENDS MCRetries, FiniteSetTheorems, TLAPS

-----------------------------------------------------------------------------
(* The anchors of a day.                                                      *)

\* The anchors up to a time of day, and how many they are.
UpTo(t) == {a \in PollTimes : a <= t}
Due(t)  == Cardinality(UpTo(t))

LEMMA Calendar ==
  /\ DayLength \in Nat /\ DayLength > 0 /\ Dates \in Nat /\ Dates > 2
  /\ PollTimes \in SUBSET Times
  /\ \A t \in Times : t \in Nat /\ t < DayLength
BY CalendarAssumption DEF Times

\* A set of times of day that is not empty has a last one.
LEMMA MaxIsLast ==
  ASSUME NEW T \in SUBSET Times, T # {}
  PROVE  Max(T) \in T /\ \A t \in T : t <= Max(T)
<1> DEFINE Below == {ss \in Nat \X Nat : ss[1] < ss[2]}
           Left  == {n \in Nat : DayLength - n \in T}
<1>1. IsWellFoundedOn(Below, Nat)
  BY NatLessThanWellFounded DEF OpToRel
<1>2. \A m, n \in Nat : m < n => <<m, n>> \in Below
  OBVIOUS
<1>3. DayLength \in Nat /\ \A t \in T : t \in Nat /\ t < DayLength
  BY Calendar
<1>4. Left \in SUBSET Nat /\ \A t \in T : DayLength - t \in Left
  BY <1>3
<1> HIDE DEF Below
<1>5. PICK n \in Left : \A m \in Left : ~(<<m, n>> \in Below)
  <2>1. Left # {}
    BY <1>4
  <2> HIDE DEF Left
  <2> QED
    BY <1>1, <1>4, <2>1, WFMin
<1>6. \A m \in Left : n <= m
  <2> HIDE DEF Left
  <2>1. \A m \in Left : ~(m < n)
    BY <1>2, <1>4, <1>5
  <2> QED
    BY <1>4, <2>1
<1>7. DayLength - n \in T /\ \A t \in T : t <= DayLength - n
  BY <1>3, <1>4, <1>6
<1> QED
  BY <1>7 DEF Max

LEMMA DueFacts ==
  /\ IsFiniteSet(PollTimes) /\ Cardinality(PollTimes) \in Nat
  /\ \A t : IsFiniteSet(UpTo(t)) /\ Due(t) \in Nat /\ Due(t) <= Cardinality(PollTimes)
<1>1. IsFiniteSet(PollTimes)
  <2>1. IsFiniteSet(0 .. DayLength - 1)
    BY Calendar, FS_Interval
  <2> QED
    BY <2>1, Calendar, FS_Subset DEF Times
<1>2. \A t : UpTo(t) \subseteq PollTimes
  BY DEF UpTo
<1> QED
  BY <1>1, <1>2, FS_Subset, FS_CardinalityType DEF Due

\* More are due later, and one more at least once another is.
LEMMA DueGrows ==
  ASSUME NEW s \in Times, NEW t \in Times, s <= t
  PROVE  Due(s) <= Due(t)
<1>1. UpTo(s) \subseteq UpTo(t)
  BY Calendar DEF UpTo
<1> QED
  BY <1>1, DueFacts, FS_Subset DEF Due

LEMMA AnotherDue ==
  ASSUME NEW s \in PollTimes, NEW t \in PollTimes, s < t
  PROVE  Due(s) + 1 <= Due(t)
<1>1. UpTo(s) \cup {t} \subseteq UpTo(t) /\ t \notin UpTo(s)
  BY Calendar DEF UpTo
<1>2. Cardinality(UpTo(s) \cup {t}) = Due(s) + 1
  BY <1>1, DueFacts, FS_AddElement DEF Due
<1> QED
  BY <1>1, <1>2, DueFacts, FS_Subset DEF Due

LEMMA OneDue == ASSUME NEW t \in PollTimes PROVE Due(t) >= 1
<1>1. t \in UpTo(t)
  BY Calendar DEF UpTo
<1> QED
  BY <1>1, DueFacts, FS_EmptySet DEF Due

-----------------------------------------------------------------------------
(* The clock.                                                                 *)

LEMMA Division ==
  ASSUME NEW x \in Int, NEW r \in Nat, r > 0
  PROVE  /\ x % r \in Nat /\ x % r < r
         /\ x \div r \in Int
         /\ x = r * (x \div r) + (x % r)
OBVIOUS

LEMMA Products ==
  ASSUME NEW a \in Nat, NEW b \in Nat, NEW c \in Nat
  PROVE  c * a \in Nat /\ (a <= b => c * a <= c * b)
OBVIOUS

\* A move short of a round of the dates by a day that ends on the day it began on is a
\* move within it.
LEMMA WithinTheDay ==
  ASSUME NEW day \in Int, NEW t \in Nat, NEW u \in Nat, NEW step \in Nat,
         NEW length \in Nat, NEW rest \in Nat, NEW rounds \in Int,
         t < length, u < length, step < rest,
         day + t + step = (rest + length) * rounds + (day + u)
  PROVE  t <= u
<1> DEFINE whole == (rest + length) * rounds
<1>1. whole \in Int /\ day + t + step = whole + (day + u)
  OBVIOUS
<1>2. whole = t + step - u
  <2> HIDE DEF whole
  <2>1. \A a, b, c, d, e \in Int : a + b + c = d + (a + e) => d = b + c - e
    OBVIOUS
  <2> QED
    BY <1>1, <2>1
<1>3. rounds = 0
  <2>1. whole < rest + length /\ -(rest + length) < whole
    BY <1>1, <1>2
  <2> QED
    BY <2>1
<1> QED
  BY <1>2, <1>3

\* A move that is no step back and ends on the same date ends no earlier.
LEMMA Moved ==
  ASSUME date \in Days, time \in Times, NEW step \in Steps \cup {0}, Moves(step)
  PROVE  /\ date' \in Days /\ time' \in Times
         /\ date' = date /\ step >= 0 => time' >= time
<1> DEFINE rest  == (Dates - 1) * DayLength
           round == Dates * DayLength
           day   == date * DayLength
           from  == day + time + step
           to    == from % round
<1>1. round \in Nat /\ round > 0 /\ rest \in Nat /\ round = rest + DayLength
  BY Calendar
<1>2. step \in Int /\ step < rest
  BY Calendar, CalendarAssumption
<1>3. date \in Nat /\ time \in Nat /\ time < DayLength /\ day \in Int /\ from \in Int
  BY <1>2, Calendar DEF Days, Times
<1>4. date' = to \div DayLength /\ time' = to % DayLength
  BY DEF Moves
<1> HIDE DEF round, rest
<1>5. to \in Nat /\ to < round /\ from = round * (from \div round) + to /\ from \div round \in Int
  BY <1>1, <1>3, Division
<1> HIDE DEF to
<1>6. /\ time' \in Nat /\ time' < DayLength /\ date' \in Nat
      /\ to = DayLength * date' + time'
  BY <1>4, <1>5, Calendar, Division
<1>7. date' < Dates
  <2> SUFFICES ASSUME Dates <= date' PROVE FALSE
    BY <1>6, Calendar
  <2>1. DayLength * date' \in Nat /\ DayLength * Dates <= DayLength * date'
    BY <1>6, Calendar, Products
  <2>2. DayLength * Dates = round
    BY Calendar DEF round
  <2> QED
    BY <1>1, <1>5, <1>6, <2>1, <2>2
<1>8. ASSUME date' = date, step >= 0
      PROVE  time <= time'
  <2>1. to = day + time'
    BY <1>3, <1>6, <1>8, Calendar
  <2>2. day + time + step = (rest + DayLength) * (from \div round) + (day + time')
    BY <1>1, <1>5, <2>1
  <2>3. step \in Nat
    BY <1>2, <1>8
  <2> HIDE DEF day, from
  <2> QED
    BY <1>1, <1>2, <1>3, <1>5, <1>6, <2>2, <2>3, Calendar, WithinTheDay
<1> QED
  BY <1>3, <1>6, <1>7, <1>8, Calendar DEF Days, Times

-----------------------------------------------------------------------------
(* The invariant.                                                             *)

\* With an anchor everything up to it is settled, in memory and in the file.
Prefix(slots) == \A a \in slots : UpTo(a) \subseteq slots
Prefixes == Prefix(settled) /\ (file # None => Prefix(file.settled))

\* The anchor a fetch is of is there, of the day it was asked for on; a retry that is
\* pending between fetches is of the last one.
Tasked ==
  /\ pc # "waiting" => anchor # None
  /\ pc = "fetching" /\ checked => anchor.date = date
  /\ anchor # None => anchor.date = paid_date
  /\ ~poller.keeps => got = {}
  /\ pc = "waiting" /\ pending # None => pending.anchor = anchor

\* The attempts that are counted are the fetches that were begun.
Tried ==
  /\ tries <= 1 + poller.attempts
  /\ pc = "waiting" /\ pending # None => tries = pending.attempt /\ tries <= poller.attempts
  /\ pc = "fetching" => tries = Attempt

\* An anchor of today has come, and between fetches it is to be retried or settled.
Answerable ==
  anchor # None /\ anchor.date = date =>
    /\ anchor.slot <= time
    /\ pc = "waiting" /\ pending = None => settled_date = date /\ anchor.slot \in settled

\* Whether the last anchor may still be fetched for.
Open == pc = "fetching" \/ (pc = "waiting" /\ pending # None)

\* A site is paid for each anchor up to the last once at most, and once more for each
\* restart; the last one of all is not paid for before it answers.
Budget ==
  /\ \A s \in Sites : paid[s] <= Cardinality(PollTimes) + restarts
  /\ anchor # None =>
       \A s \in Sites :
         /\ paid[s] <= Due(anchor.slot) + restarts
         /\ Open /\ s \in Asked => paid[s] + 1 <= Due(anchor.slot) + restarts
  /\ anchor = None /\ paid_date = date =>
       \A s \in Sites : paid[s] = 0 \/ paid[s] + 1 <= Due(time) + restarts

IInv == TypeOK /\ Prefixes /\ Tasked /\ (~back => Tried /\ Answerable /\ Budget)

-----------------------------------------------------------------------------
(* What the actions are made of.                                              *)

LEMMA Types ==
  ASSUME TypeOK
  PROVE  /\ poller \in Pollers /\ poller.attempts \in Nat /\ poller.sites \subseteq Sites
         /\ poller.keeps \/ \E s \in poller.sites : poller.sites = {s}
         /\ anchor # None => anchor \in Anchors /\ anchor.date \in Days /\ anchor.slot \in PollTimes
         /\ pending # None =>
              /\ pending \in Retries /\ pending.anchor \in Anchors
              /\ pending.attempt \in Nat /\ pending.due \in Times
         /\ \A s \in Sites : paid[s] \in Nat
         /\ tries \in Nat /\ restarts \in Nat
<1>1. poller \in Pollers /\ poller \in PollerType
  BY PollersAssumption DEF TypeOK
<1>2. poller.attempts \in Nat /\ poller.sites \subseteq Sites
  BY <1>1 DEF PollerType, Sites
<1>3. poller.keeps \/ \E s \in poller.sites : poller.sites = {s}
  BY <1>1, PollersAssumption
<1>4. anchor # None => anchor \in Anchors /\ anchor.date \in Days /\ anchor.slot \in PollTimes
  BY DEF TypeOK, Anchors
<1>5. pending # None =>
        /\ pending \in Retries /\ pending.anchor \in Anchors
        /\ pending.attempt \in Nat /\ pending.due \in Times
  BY DEF TypeOK, Retries
<1>6. (\A s \in Sites : paid[s] \in Nat) /\ tries \in Nat /\ restarts \in Nat
  BY CalendarAssumption DEF TypeOK
<1> QED
  BY <1>1, <1>2, <1>3, <1>4, <1>5, <1>6

\* An anchor that is settled is, with all before it.
LEMMA Settling ==
  ASSUME TypeOK, Prefixes, anchor # None, Settle
  PROVE  /\ pending' = None
         /\ settled_date' = anchor.date /\ settled_date' \in Days
         /\ settled' \subseteq PollTimes /\ anchor.slot \in settled' /\ Prefix(settled')
<1>1. anchor.date \in Days /\ anchor.slot \in PollTimes
  BY Types
<1>2. settled' = SettledOn(anchor.date) \cup UpTo(anchor.slot)
  BY DEF Settle, UpTo
<1>3. SettledOn(anchor.date) \subseteq PollTimes /\ Prefix(SettledOn(anchor.date))
  BY DEF SettledOn, TypeOK, Prefixes, Prefix
<1>4. anchor.slot \in UpTo(anchor.slot)
  BY <1>1, Calendar DEF UpTo
<1>5. Prefix(UpTo(anchor.slot))
  BY <1>1, Calendar DEF Prefix, UpTo
<1>6. Prefix(settled')
  BY <1>2, <1>3, <1>5 DEF Prefix
<1> QED
  BY <1>1, <1>2, <1>3, <1>4, <1>6 DEF Settle, UpTo

\* Whatever becomes of a save, the file is an older one, this one or none.
LEMMA Saving ==
  ASSUME TypeOK, Prefixes, Save, settled_date' \in Days \cup {None}, settled' \subseteq PollTimes,
         Prefix(settled')
  PROVE  /\ file' \in Saved \cup {None} /\ unsaved' \in BOOLEAN
         /\ file' # None => Prefix(file'.settled)
<1>1. [date |-> settled_date', settled |-> settled'] \in Saved
  BY DEF Saved
<1>2. file \in Saved \cup {None} /\ unsaved \in BOOLEAN /\ (file # None => Prefix(file.settled))
  BY DEF TypeOK, Prefixes
<1>3. CASE UNCHANGED <<file, unsaved>>
  BY <1>2, <1>3
<1>4. CASE file' = [date |-> settled_date', settled |-> settled'] /\ unsaved' = FALSE
  BY <1>1, <1>4
<1>5. CASE file' \in {file, None} /\ unsaved' = TRUE
  BY <1>2, <1>5
<1> QED
  BY <1>3, <1>4, <1>5 DEF Save

\* What is due is unsettled, and nothing that has come since is.
LEMMA NextDueFacts ==
  ASSUME TypeOK, NEW due, due = NextDue(date, time), due # None
  PROVE  /\ due \in Anchors /\ due.date = date
         /\ due.slot \in PollTimes /\ due.slot <= time /\ due.slot \notin SettledOn(date)
         /\ \A a \in PollTimes : a <= time /\ a > due.slot => a \in SettledOn(date)
<1>1. Overdue(date, time) \subseteq PollTimes /\ Overdue(date, time) # {}
  BY DEF NextDue, Overdue
<1>2. /\ Max(Overdue(date, time)) \in Overdue(date, time)
      /\ \A a \in Overdue(date, time) : a <= Max(Overdue(date, time))
  BY <1>1, Calendar, MaxIsLast
<1>3. due = [date |-> date, slot |-> Max(Overdue(date, time))]
  BY <1>1 DEF NextDue
<1>4. due \in Anchors /\ due.date = date /\ due.slot = Max(Overdue(date, time))
  BY <1>1, <1>2, <1>3 DEF Anchors, TypeOK
<1>5. \A a \in PollTimes : a <= time /\ a > due.slot => a \in SettledOn(date)
  <2> SUFFICES ASSUME NEW a \in PollTimes, a <= time, a > due.slot, a \notin SettledOn(date)
               PROVE  FALSE
    OBVIOUS
  <2>1. a \in Overdue(date, time)
    BY DEF Overdue
  <2>2. a \in Nat /\ due.slot \in Nat
    BY <1>1, <1>2, <1>4, Calendar
  <2> QED
    BY <1>2, <1>4, <2>1, <2>2
<1> QED
  BY <1>1, <1>2, <1>4, <1>5 DEF Overdue

\* What is asked for is due and not awaited, or the retry that is pending.
LEMMA FetchFacts ==
  ASSUME TypeOK, NEW due, due = Fetch(date, time), due # None
  PROVE  /\ due \in Anchors /\ due.date = date
         /\ \/ due = NextDue(date, time) /\ ~Awaits(due)
            \/ pending # None /\ due = pending.anchor
<1>1. CASE due = NextDue(date, time) /\ ~Awaits(due)
  BY <1>1, NextDueFacts
<1>2. CASE pending # None /\ pending.anchor.date = date /\ due = pending.anchor
  BY <1>2, Types
<1> QED
  BY <1>1, <1>2 DEF Fetch

LEMMA InitIInv == Init => IInv
<1> SUFFICES ASSUME Init PROVE IInv
  OBVIOUS
<1>1. 0 \in Days /\ 0 \in 0 .. MaxUpsets /\ 0 \in 0 .. MaxRestarts
  BY Calendar, CalendarAssumption DEF Days
<1>2. TypeOK
  <2>1. paid \in [Sites -> Nat] /\ tries \in Nat
    BY DEF Init
  <2>2. now \in {None} /\ got \subseteq poller.sites /\ settled \subseteq PollTimes
    BY DEF Init
  <2> QED
    BY <1>1, <2>1, <2>2 DEF Init, TypeOK
<1>3. Prefixes /\ Tasked
  BY NoneAssumption DEF Init, Prefixes, Prefix, Tasked
<1>4. Tried /\ Answerable /\ Budget
  BY <1>2, Types, DueFacts DEF Init, Tried, Answerable, Budget
<1> QED
  BY <1>2, <1>3, <1>4 DEF IInv

LEMMA StutterIInv == IInv /\ UNCHANGED vars => IInv'
BY DEF vars, clock, schedule, task, history, upset, IInv, TypeOK, Prefixes, Prefix, Tasked, Tried, Attempt,
       Awaits, Answerable, Budget, Open, Asked

-----------------------------------------------------------------------------
(* The check.                                                                 *)

LEMMA CheckKeeps ==
  ASSUME IInv, Check
  PROVE  IInv'
<1> DEFINE due == Fetch(date, time)
<1>1. /\ pc = "waiting" /\ checked' = TRUE
      /\ UNCHANGED <<poller, date, time, settled_date, settled, pending, file, unsaved, late, back, upsets,
                     restarts>>
  BY DEF Check, clock, schedule, upset
<1>2. CASE due = None
  <2>1. UNCHANGED <<pc, now, anchor, got, tries, paid, paid_date>>
    BY <1>2 DEF Check
  <2> QED
    BY <1>1, <2>1
    DEF IInv, TypeOK, Prefixes, Prefix, Tasked, Tried, Answerable, Budget, Open, Asked, Awaits, Attempt
<1>3. CASE due # None
  <2>1. /\ pc' = "fetching" /\ now' = time /\ anchor' = due
        /\ got' = IF due = anchor THEN got ELSE {}
        /\ tries' = IF due = anchor THEN tries + 1 ELSE 1
        /\ paid' = IF due.date = paid_date THEN paid ELSE [s \in Sites |-> 0]
        /\ paid_date' = due.date
    BY <1>3 DEF Check
  <2>2. /\ due \in Anchors /\ due.date = date
        /\ \/ due = NextDue(date, time) /\ ~Awaits(due)
           \/ pending # None /\ due = pending.anchor
    BY <1>3, FetchFacts DEF IInv
  <2>3. due \in Anchors /\ due.slot \in PollTimes /\ date \in Days
    BY <2>2 DEF Anchors, IInv, TypeOK
  <2> HIDE DEF due
  <2>4. TypeOK'
    <3>1. paid' \in [Sites -> Nat] /\ tries' \in Nat /\ got' \subseteq poller'.sites
      BY <1>1, <2>1 DEF IInv, TypeOK
    <3> QED
      BY <1>1, <2>1, <2>2, <2>3, <3>1 DEF IInv, TypeOK
  <2>5. Prefixes'
    BY <1>1 DEF IInv, Prefixes, Prefix
  <2>6. Tasked'
    BY <1>1, <1>3, <2>1, <2>2 DEF IInv, Tasked
  <2>7. ASSUME ~back'
        PROVE  Tried' /\ Answerable' /\ Budget'
    <3>1. Tried /\ Answerable /\ Budget /\ Tasked /\ TypeOK /\ Prefixes
      BY <1>1, <2>7 DEF IInv
    <3>2. CASE due = anchor
      \* The retry that is pending: an anchor that is not awaited is settled.
      <4>1. pending # None /\ pending.anchor = anchor
        <5>1. ASSUME due = NextDue(date, time), pending = None PROVE FALSE
          <6>1. settled_date = date /\ anchor.slot \in settled
            BY <1>1, <1>3, <2>2, <3>1, <3>2, <5>1 DEF Answerable
          <6>2. due.slot \notin SettledOn(date)
            BY <1>3, <3>1, <5>1, NextDueFacts
          <6> QED
            BY <3>2, <6>1, <6>2 DEF SettledOn
        <5> QED
          BY <1>1, <2>2, <3>1, <5>1 DEF Tasked
      <4>2. tries = pending.attempt /\ tries <= poller.attempts /\ pending.attempt \in Nat /\ poller.attempts \in Nat
        BY <1>1, <3>1, <4>1, Types DEF Tried
      <4>3. Tried'
        BY <1>1, <2>1, <3>2, <4>1, <4>2 DEF Tried, Attempt, Awaits
      <4>4. Answerable'
        BY <1>1, <2>1, <2>2, <3>1, <3>2 DEF Answerable
      <4>5. paid' = paid /\ anchor' = anchor /\ got' = got /\ Open /\ anchor # None
        BY <1>1, <1>3, <2>1, <2>2, <3>1, <3>2, <4>1 DEF Open, Tasked
      <4>6. Budget'
        BY <1>1, <3>1, <4>5 DEF Budget, Asked
      <4> QED
        BY <4>3, <4>4, <4>6
    <3>3. CASE due # anchor
      <4>1. due = NextDue(date, time) /\ ~Awaits(due)
        BY <1>1, <2>2, <3>1, <3>3 DEF Tasked
      <4>2. /\ due.slot <= time /\ due.slot \notin SettledOn(date)
            /\ \A a \in PollTimes : a <= time /\ a > due.slot => a \in SettledOn(date)
        BY <1>3, <3>1, <4>1, NextDueFacts
      <4>3. poller.attempts \in Nat /\ restarts \in Nat /\ \A s \in Sites : paid[s] \in Nat
        BY <3>1, Types
      <4>4. Tried'
        BY <1>1, <2>1, <3>3, <4>1, <4>3 DEF Tried, Attempt, Awaits
      <4>5. Answerable'
        BY <1>1, <2>1, <2>2, <4>2 DEF Answerable
      <4>6. Prefix(SettledOn(date))
        BY <3>1 DEF SettledOn, Prefixes, Prefix
      <4>7. due.slot \in Nat /\ time \in Nat /\ \A a \in PollTimes : a \in Nat
        BY <2>3, <3>1, Calendar DEF TypeOK
      <4>8. \A a \in PollTimes : a \in SettledOn(date) => a < due.slot
        BY <2>3, <4>2, <4>6, <4>7 DEF Prefix, UpTo
      <4>9. \A s \in Sites : paid'[s] + 1 <= Due(due.slot) + restarts /\ paid'[s] \in Nat
        <5>1. Due(due.slot) \in Nat /\ Due(due.slot) >= 1
          BY <2>3, DueFacts, OneDue
        <5>2. CASE paid_date # date
          BY <2>1, <2>2, <4>3, <5>1, <5>2
        <5>3. CASE paid_date = date /\ anchor = None
          <6>1. UpTo(due.slot) = UpTo(time)
            BY <4>2, <4>7, <4>8 DEF UpTo
          <6>2. Due(due.slot) = Due(time)
            BY <6>1 DEF Due
          <6> QED
            BY <2>1, <2>2, <3>1, <4>3, <5>1, <5>3, <6>2 DEF Budget
        <5>4. CASE paid_date = date /\ anchor # None
          <6>1. anchor.date = date /\ anchor.slot \in PollTimes /\ anchor.slot <= time
            BY <3>1, <5>4, Types DEF Tasked, Answerable
          <6>2. anchor.slot # due.slot
            BY <2>2, <3>1, <3>3, <5>4, <6>1 DEF TypeOK, Anchors
          <6>3. anchor.slot < due.slot
            BY <4>2, <4>7, <4>8, <6>1, <6>2
          <6>4. Due(anchor.slot) + 1 <= Due(due.slot) /\ Due(anchor.slot) \in Nat
            BY <2>3, <6>1, <6>3, AnotherDue, DueFacts
          <6> QED
            BY <2>1, <2>2, <3>1, <4>3, <5>1, <5>4, <6>4 DEF Budget
        <5> QED
          BY <5>2, <5>3, <5>4
      <4>10. Budget'
        <5>1. Due(due.slot) \in Nat /\ Due(due.slot) <= Cardinality(PollTimes) /\ Cardinality(PollTimes) \in Nat
          BY DueFacts
        <5> QED
          BY <1>1, <1>3, <2>1, <4>3, <4>9, <5>1 DEF Budget
      <4> QED
        BY <4>4, <4>5, <4>10
    <3> QED
      BY <3>2, <3>3
  <2> QED
    BY <2>4, <2>5, <2>6, <2>7 DEF IInv
<1> QED
  BY <1>2, <1>3

-----------------------------------------------------------------------------
(* The answers.                                                               *)

\* Whoever answers, no site is paid for this anchor twice, and what is still asked for
\* it was not paid for.
LEMMA AnswersArePaidOnce ==
  ASSUME IInv, NEW ok, Answered(ok), ~back,
         Open' => ok # Asked
  PROVE  Budget'
<1>1. /\ pc = "fetching" /\ ok \subseteq Asked
      /\ got' = Keep(ok)
      /\ paid' = [s \in Sites |-> IF s \in ok THEN paid[s] + 1 ELSE paid[s]]
      /\ UNCHANGED <<poller, date, time, anchor, paid_date, restarts>>
  BY DEF Answered, clock, upset
<1>2. Budget /\ Open /\ anchor # None /\ Tasked /\ TypeOK
  BY <1>1 DEF IInv, Open, Tasked
<1>3. /\ anchor.slot \in PollTimes /\ restarts \in Nat /\ \A s \in Sites : paid[s] \in Nat
      /\ Due(anchor.slot) \in Nat /\ Due(anchor.slot) <= Cardinality(PollTimes)
      /\ Cardinality(PollTimes) \in Nat
  BY <1>2, Types, DueFacts
<1>4. \A s \in Sites :
        /\ s \in ok => paid'[s] = paid[s] + 1 /\ paid[s] + 1 <= Due(anchor.slot) + restarts
        /\ s \notin ok => paid'[s] = paid[s] /\ paid[s] <= Due(anchor.slot) + restarts
  BY <1>1, <1>2 DEF Budget
<1>5. \A s \in Sites : paid'[s] <= Due(anchor.slot) + restarts /\ paid'[s] \in Nat
  BY <1>3, <1>4
<1>6. \A s \in Sites : paid'[s] <= Cardinality(PollTimes) + restarts
  BY <1>3, <1>5
<1>7. ASSUME Open', NEW s \in Sites, s \in Asked'
      PROVE  paid'[s] + 1 <= Due(anchor.slot) + restarts
  <2>1. s \in poller.sites /\ s \notin got' /\ ok # Asked
    BY <1>1, <1>7 DEF Asked
  <2>2. CASE poller.keeps
    <3>1. s \notin got /\ s \notin ok
      BY <1>1, <2>1, <2>2 DEF Keep
    <3> QED
      BY <1>2, <1>4, <2>1, <3>1 DEF Budget, Asked
  <2>3. CASE ~poller.keeps
    <3>1. got = {} /\ \E x : poller.sites = {x}
      BY <1>2, <2>3, Types DEF Tasked
    <3>2. ok = {}
      BY <1>1, <2>1, <3>1 DEF Asked
    <3> QED
      BY <1>2, <1>4, <2>1, <3>1, <3>2 DEF Budget, Asked
  <2> QED
    BY <2>2, <2>3
<1> QED
  BY <1>1, <1>2, <1>5, <1>6, <1>7 DEF Budget

\* What an answer leaves as it should be, whatever it does to the schedule.
LEMMA AnswerTypes ==
  ASSUME IInv, NEW ok, Answered(ok)
  PROVE  /\ got' \subseteq poller.sites /\ (~poller.keeps => got' = {})
         /\ paid' \in [Sites -> Nat]
         /\ anchor # None /\ anchor' = anchor /\ anchor.date = paid_date
         /\ UNCHANGED <<poller, date, time, checked, paid_date, tries, late, back, upsets, restarts>>
<1>1. pc = "fetching" /\ ok \subseteq Asked /\ anchor # None /\ anchor.date = paid_date
  BY DEF IInv, Tasked, Answered
<1>2. got' \subseteq poller.sites /\ (~poller.keeps => got' = {})
  BY <1>1 DEF Answered, Keep, Asked, IInv, TypeOK
<1>3. paid' \in [Sites -> Nat]
  BY DEF Answered, IInv, TypeOK
<1> QED
  BY <1>1, <1>2, <1>3 DEF Answered, clock, upset

LEMMA FetchOkKeeps ==
  ASSUME IInv, FetchOk
  PROVE  IInv'
<1>1. /\ Answered(Asked) /\ pc' = "saving"
      /\ UNCHANGED <<now, settled_date, settled, pending>> /\ Save /\ pc = "fetching"
  BY DEF FetchOk, schedule, Answered
<1>2. /\ file' \in Saved \cup {None} /\ unsaved' \in BOOLEAN
      /\ file' # None => Prefix(file'.settled)
  BY <1>1, Saving DEF IInv, TypeOK, Prefixes, Prefix
<1>3. TypeOK'
  BY <1>1, <1>2, AnswerTypes DEF IInv, TypeOK
<1>4. Prefixes' /\ Tasked'
  BY <1>1, <1>2, AnswerTypes DEF IInv, Prefixes, Prefix, Tasked
<1>5. ASSUME ~back' PROVE Tried' /\ Answerable' /\ Budget'
  <2>1. ~back
    BY <1>1, <1>5, AnswerTypes
  <2>2. Tried' /\ Answerable'
    BY <1>1, <2>1, AnswerTypes DEF IInv, Tried, Answerable
  <2>3. ~Open'
    BY <1>1 DEF Open
  <2> QED
    BY <1>1, <2>1, <2>2, <2>3, AnswersArePaidOnce
<1> QED
  BY <1>3, <1>4, <1>5 DEF IInv

LEMMA SettlesKeeps ==
  ASSUME IInv, Settles
  PROVE  IInv'
<1>1. /\ pc = "saving" /\ pc' = "waiting" /\ now' = None /\ Settle /\ Save
      /\ UNCHANGED <<poller, date, time, checked, anchor, got, paid, paid_date, tries, late, back, upsets,
                     restarts>>
  BY DEF Settles, clock, upset
<1>2. TypeOK /\ Prefixes /\ Tasked /\ anchor # None
  BY <1>1 DEF IInv, Tasked
<1>3. /\ pending' = None
      /\ settled_date' = anchor.date /\ settled_date' \in Days
      /\ settled' \subseteq PollTimes /\ anchor.slot \in settled' /\ Prefix(settled')
  BY <1>1, <1>2, Settling
<1>4. /\ file' \in Saved \cup {None} /\ unsaved' \in BOOLEAN
      /\ file' # None => Prefix(file'.settled)
  BY <1>1, <1>2, <1>3, Saving
<1>5. TypeOK'
  BY <1>1, <1>2, <1>3, <1>4 DEF TypeOK
<1>6. Prefixes' /\ Tasked'
  BY <1>1, <1>2, <1>3, <1>4 DEF Prefixes, Prefix, Tasked
<1>7. ASSUME ~back' PROVE Tried' /\ Answerable' /\ Budget'
  <2>1. Tried /\ Answerable /\ Budget
    BY <1>1, <1>7 DEF IInv
  <2>2. Tried' /\ Answerable'
    BY <1>1, <1>3, <2>1 DEF Tried, Answerable
  <2>3. Budget'
    BY <1>1, <1>2, <1>3, <2>1 DEF Budget, Open
  <2> QED
    BY <2>2, <2>3
<1> QED
  BY <1>5, <1>6, <1>7 DEF IInv

\* A fetch that did not get all: the anchor is settled, or to be retried.
LEMMA FetchEnds ==
  ASSUME IInv, NEW ok, Answered(ok), ok # Asked, pc' = "waiting", now' = None,
         \/ Settle /\ Save
         \/ /\ WillRetry /\ UNCHANGED <<settled_date, settled, file, unsaved>>
            /\ pending' = [anchor |-> anchor, attempt |-> Attempt, due |-> now + Delay]
  PROVE  IInv'
<1>1. pc = "fetching" /\ TypeOK /\ Prefixes /\ Tasked /\ anchor # None
  BY AnswerTypes DEF Answered, IInv
<1>2. poller.attempts \in Nat /\ Attempt \in Nat
  BY <1>1, Types DEF Attempt, Awaits
<1>3. CASE Settle /\ Save
  <2>1. /\ pending' = None
        /\ settled_date' = anchor.date /\ settled_date' \in Days
        /\ settled' \subseteq PollTimes /\ anchor.slot \in settled' /\ Prefix(settled')
    BY <1>1, <1>3, Settling
  <2>2. /\ file' \in Saved \cup {None} /\ unsaved' \in BOOLEAN
        /\ file' # None => Prefix(file'.settled)
    BY <1>1, <1>3, <2>1, Saving
  <2>3. TypeOK'
    BY <1>1, <2>1, <2>2, AnswerTypes DEF TypeOK
  <2>4. Prefixes' /\ Tasked'
    BY <1>1, <2>1, <2>2, AnswerTypes DEF Prefixes, Prefix, Tasked
  <2>5. ASSUME ~back' PROVE Tried' /\ Answerable' /\ Budget'
    <3>1. ~back /\ Tried /\ Answerable
      BY <2>5, AnswerTypes DEF IInv
    <3>2. Tried' /\ Answerable'
      BY <2>1, <3>1, AnswerTypes DEF Tried, Answerable
    <3> QED
      BY <3>1, <3>2, AnswersArePaidOnce
  <2> QED
    BY <2>3, <2>4, <2>5 DEF IInv
<1>4. CASE /\ WillRetry /\ UNCHANGED <<settled_date, settled, file, unsaved>>
           /\ pending' = [anchor |-> anchor, attempt |-> Attempt, due |-> now + Delay]
  <2>1. pending' \in Retries /\ pending'.anchor = anchor /\ pending'.attempt = Attempt
    <3>1. now \in Times /\ now + Delay < DayLength /\ anchor \in Anchors
      BY <1>1, <1>4, Types DEF TypeOK, WillRetry
    <3>2. now + Delay \in Times
      BY <3>1, Calendar, CalendarAssumption DEF Times
    <3> QED
      BY <1>2, <1>4, <3>1, <3>2 DEF Retries
  <2>2. pending' # None
    BY <2>1, NoneAssumption
  <2>3. TypeOK'
    BY <1>1, <1>4, <2>1, AnswerTypes DEF TypeOK
  <2>4. Prefixes' /\ Tasked'
    BY <1>1, <1>4, <2>1, AnswerTypes DEF Prefixes, Prefix, Tasked
  <2>5. ASSUME ~back' PROVE Tried' /\ Answerable' /\ Budget'
    <3>1. ~back /\ Tried /\ Answerable
      BY <2>5, AnswerTypes DEF IInv
    <3>2. Tried'
      BY <1>1, <1>4, <2>1, <3>1, AnswerTypes DEF Tried, WillRetry
    <3>3. Answerable'
      BY <2>2, <3>1, AnswerTypes DEF Answerable
    <3> QED
      BY <3>1, <3>2, <3>3, AnswersArePaidOnce
  <2> QED
    BY <2>3, <2>4, <2>5 DEF IInv
<1> QED
  BY <1>3, <1>4

LEMMA FetchRefusedKeeps ==
  ASSUME IInv, NEW ok, FetchRefused(ok)
  PROVE  IInv'
BY FetchEnds DEF FetchRefused

LEMMA FetchFailedKeeps ==
  ASSUME IInv, NEW ok, FetchFailed(ok)
  PROVE  IInv'
<1>1. Answered(ok) /\ ok # Asked /\ pc' = "waiting" /\ now' = None /\ MarkFailed /\ KeepRecord
  BY DEF FetchFailed
<1>2. CASE WillRetry
  BY <1>1, <1>2, FetchEnds DEF MarkFailed, KeepRecord
<1>3. CASE ~WillRetry
  BY <1>1, <1>3, FetchEnds DEF MarkFailed, KeepRecord
<1> QED
  BY <1>2, <1>3

-----------------------------------------------------------------------------
(* The clock and the process.                                                 *)

\* A date is forgotten when its turn comes again, and only then.
LEMMA Forgetting ==
  ASSUME NEW d
  PROVE  /\ Past(d) \in {d, None}
         /\ date' = date => Past(d) = d
         /\ d # date' => Past(d) = d
         /\ ~back' /\ date' # date /\ date' # None => Past(d) # date'
BY DEF Past

LEMMA FileForgets ==
  ASSUME TypeOK, Prefixes
  PROVE  PastFile \in Saved \cup {None} /\ (PastFile # None => Prefix(PastFile.settled))
<1>1. CASE file = None
  BY <1>1 DEF PastFile
<1>2. CASE file # None
  <2>1. file \in Saved /\ Prefix(file.settled)
    BY <1>2 DEF TypeOK, Prefixes
  <2>2. Past(file.date) \in Days \cup {None}
    BY <2>1, Forgetting DEF Saved
  <2>3. PastFile = [date |-> Past(file.date), settled |-> file.settled]
    BY <1>2, <2>1 DEF PastFile, Saved
  <2> QED
    BY <2>1, <2>2, <2>3 DEF Saved
<1> QED
  BY <1>1, <1>2

LEMMA ClockTypes ==
  ASSUME TypeOK, NEW step \in Steps \cup {0}, Moves(step)
  PROVE  /\ date' \in Days /\ time' \in Times /\ date' # None
         /\ date' = date /\ ~back' => time' \in Nat /\ time \in Nat /\ time <= time' /\ Due(time) <= Due(time')
         /\ back' \in BOOLEAN /\ (~back' => ~back) /\ checked' = FALSE
         /\ upsets' \in 0 .. MaxUpsets
<1>1. date' \in Days /\ time' \in Times /\ (date' = date /\ step >= 0 => time' >= time)
  BY Moved DEF TypeOK
<1>2. date' # None
  BY <1>1, NoneAssumption
<1>3. step \in Int /\ back' = (back \/ step < 0)
  BY CalendarAssumption DEF Moves
<1>4. date' = date /\ ~back' => time' \in Nat /\ time \in Nat /\ time <= time' /\ Due(time) <= Due(time')
  <2> SUFFICES ASSUME date' = date, ~back'
               PROVE  time' \in Nat /\ time \in Nat /\ time <= time' /\ Due(time) <= Due(time')
    OBVIOUS
  <2>1. time \in Times /\ time \in Nat /\ time' \in Nat
    BY <1>1, Calendar DEF TypeOK
  <2>2. ~(step < 0)
    BY <1>3, Zenon
  <2>3. step >= 0
    BY <1>3, <2>2
  <2>4. time <= time'
    BY <1>1, <2>1, <2>3
  <2> QED
    BY <1>1, <2>1, <2>4, DueGrows
<1>5. upsets' \in 0 .. MaxUpsets
  BY CalendarAssumption DEF Moves, TypeOK
<1> QED
  BY <1>1, <1>2, <1>3, <1>4, <1>5 DEF Moves, TypeOK

LEMMA ClockKeeps ==
  ASSUME IInv, NEW step \in Steps, ClockMoves(step)
  PROVE  IInv'
<1>1. /\ pc \in {"waiting", "fetching"} /\ checked /\ Moves(step)
      /\ settled_date' = Past(settled_date) /\ pending' = PastRetry /\ file' = PastFile
      /\ anchor' = PastAnchor(anchor) /\ paid_date' = Past(paid_date)
      /\ late' = (late \/ step # 1)
      /\ UNCHANGED <<poller, settled, pc, now, got, paid, tries, unsaved, restarts>>
  BY DEF ClockMoves
<1>2. TypeOK /\ Prefixes /\ Tasked
  BY DEF IInv
<1>3. /\ date' \in Days /\ time' \in Times /\ date' # None
      /\ date' = date /\ ~back' => time' \in Nat /\ time \in Nat /\ time <= time' /\ Due(time) <= Due(time')
      /\ back' \in BOOLEAN /\ (~back' => ~back) /\ checked' = FALSE
      /\ upsets' \in 0 .. MaxUpsets
  BY <1>1, <1>2, ClockTypes
\* What is forgotten is of the date that comes; a fetch under way is not of that one.
<1>4. /\ anchor' \in {anchor, None}
      /\ anchor' # None => anchor' = anchor /\ Past(anchor.date) = anchor.date
      /\ date' = date => anchor' = anchor
      /\ pc = "fetching" => anchor' = anchor /\ anchor # None
      /\ ~back' /\ anchor' # None /\ anchor.date = date' => date' = date
  BY <1>1, <1>2, <1>3, Forgetting, Types, NoneAssumption DEF PastAnchor, Tasked, TypeOK
<1>5. /\ pending' \in {pending, None}
      /\ date' = date => pending' = pending
      /\ pending # None /\ pending.anchor.date # date' => pending' = pending
      /\ pending' # None => Past(pending.anchor.date) # None
  BY <1>1, <1>2, <1>3, Forgetting, Types, NoneAssumption DEF PastRetry, Retries, Anchors
<1>6. TypeOK'
  <2>1. settled_date' \in Days \cup {None} /\ paid_date' \in Days \cup {None} /\ late' \in BOOLEAN
    BY <1>1, <1>2, Forgetting DEF TypeOK
  <2>2. file' \in Saved \cup {None}
    BY <1>1, <1>2, FileForgets
  <2> QED
    BY <1>1, <1>2, <1>3, <1>4, <1>5, <2>1, <2>2 DEF TypeOK
<1>7. Prefixes'
  BY <1>1, <1>2, FileForgets DEF Prefixes, Prefix, UpTo
<1>8. Tasked'
  <2>1. anchor' # None => anchor'.date = paid_date'
    BY <1>1, <1>2, <1>4 DEF Tasked
  <2>2. pc = "waiting" /\ pending' # None => pending'.anchor = anchor'
    BY <1>1, <1>2, <1>5, NoneAssumption, Types DEF Tasked, PastAnchor
  <2> QED
    BY <1>1, <1>2, <1>3, <1>4, <2>1, <2>2 DEF Tasked
<1>9. ASSUME ~back' PROVE Tried' /\ Answerable' /\ Budget'
  <2>1. Tried /\ Answerable /\ Budget
    BY <1>3, <1>9 DEF IInv
  <2>2. Tried'
    <3>1. CASE pc = "waiting"
      BY <1>1, <1>5, <2>1, <3>1 DEF Tried
    <3>2. CASE pc = "fetching"
      <4>1. anchor.date = date /\ anchor' = anchor
        BY <1>1, <1>2, <1>4, <3>2 DEF Tasked
      <4>2. Awaits(anchor)' <=> Awaits(anchor)
        BY <1>5, <4>1 DEF Awaits
      <4>3. Awaits(anchor) => pending' = pending
        BY <1>5, <4>1, <4>2 DEF Awaits
      <4>4. Attempt' = Attempt
        BY <4>2, <4>3 DEF Attempt
      <4> QED
        BY <1>1, <2>1, <3>2, <4>4 DEF Tried
    <3> QED
      BY <1>1, <3>1, <3>2
  <2>3. Answerable'
    <3> SUFFICES ASSUME anchor' # None, anchor'.date = date'
                 PROVE  /\ anchor'.slot <= time'
                        /\ pc = "waiting" /\ pending' = None
                             => settled_date' = date' /\ anchor'.slot \in settled'
      BY <1>1 DEF Answerable
    <3>1. anchor' = anchor /\ date' = date /\ pending' = pending /\ settled_date' = settled_date
      BY <1>1, <1>4, <1>5, <1>9, Forgetting
    <3>2. anchor.slot \in Nat
      BY <1>2, <3>1, Types, Calendar
    <3> QED
      BY <1>1, <1>3, <1>9, <2>1, <3>1, <3>2 DEF Answerable
  <2>4. Budget'
    <3>1. Open' => Open
      BY <1>1, <1>5 DEF Open
    <3>2. ASSUME anchor' = None, paid_date' = date'
          PROVE  \A s \in Sites : paid[s] = 0 \/ paid[s] + 1 <= Due(time') + restarts
      <4>1. date' = date /\ anchor = None /\ paid_date = date
        BY <1>1, <1>3, <1>4, <1>9, <3>2, Forgetting
      <4>2. Due(time) \in Nat /\ Due(time') \in Nat /\ Due(time) <= Due(time')
        BY <1>3, <1>9, <4>1, DueFacts
      <4>3. restarts \in Nat /\ \A s \in Sites : paid[s] \in Nat
        BY <1>2, Types
      <4>4. \A s \in Sites : paid[s] = 0 \/ paid[s] + 1 <= Due(time) + restarts
        BY <2>1, <4>1 DEF Budget
      <4> QED
        BY <4>2, <4>3, <4>4
    <3> QED
      BY <1>1, <1>4, <2>1, <3>1, <3>2 DEF Budget, Asked
  <2> QED
    BY <2>2, <2>3, <2>4
<1> QED
  BY <1>6, <1>7, <1>8, <1>9 DEF IInv

\* A restart forgets the fetch under way, which one more answer pays for.
LEMMA RestartKeeps ==
  ASSUME IInv, NEW torn \in BOOLEAN, NEW away \in Steps \cup {0}, Restart(torn, away)
  PROVE  IInv'
<1>1. /\ restarts < MaxRestarts /\ restarts' = restarts + 1 /\ Moves(away)
      /\ late' = (late \/ away # 0) /\ unsaved' = (unsaved \/ torn)
      /\ file' = IF torn THEN None ELSE PastFile
      /\ settled_date' = IF file' = None THEN None ELSE file'.date
      /\ settled' = IF file' = None THEN {} ELSE file'.settled
      /\ pending' = None /\ pc' = "waiting" /\ now' = None /\ anchor' = None /\ got' = {} /\ tries' = 0
      /\ paid_date' = Past(paid_date)
      /\ UNCHANGED <<poller, paid>>
  BY DEF Restart
<1>2. TypeOK /\ Prefixes /\ Tasked
  BY DEF IInv
<1>3. /\ date' \in Days /\ time' \in Times /\ date' # None
      /\ date' = date /\ ~back' => time' \in Nat /\ time \in Nat /\ time <= time' /\ Due(time) <= Due(time')
      /\ back' \in BOOLEAN /\ (~back' => ~back) /\ checked' = FALSE
      /\ upsets' \in 0 .. MaxUpsets
  BY <1>1, <1>2, ClockTypes
<1>4. file' \in Saved \cup {None} /\ (file' # None => Prefix(file'.settled))
  BY <1>1, <1>2, FileForgets
<1>5. settled_date' \in Days \cup {None} /\ settled' \subseteq PollTimes /\ Prefix(settled')
  BY <1>1, <1>4 DEF Saved, Prefix
<1>6. TypeOK'
  <2>1. paid_date' \in Days \cup {None} /\ late' \in BOOLEAN /\ unsaved' \in BOOLEAN
    BY <1>1, <1>2, Forgetting DEF TypeOK
  <2>2. restarts' \in 0 .. MaxRestarts
    BY <1>1, <1>2, CalendarAssumption DEF TypeOK
  <2> QED
    BY <1>1, <1>2, <1>3, <1>4, <1>5, <2>1, <2>2 DEF TypeOK
<1>7. Prefixes' /\ Tasked'
  BY <1>1, <1>4, <1>5 DEF Prefixes, Prefix, UpTo, Tasked
<1>8. ASSUME ~back' PROVE Tried' /\ Answerable' /\ Budget'
  <2>1. Tried /\ Answerable /\ Budget
    BY <1>3, <1>8 DEF IInv
  <2>2. /\ restarts \in Nat /\ poller.attempts \in Nat /\ \A s \in Sites : paid[s] \in Nat
        /\ Cardinality(PollTimes) \in Nat
    BY <1>2, Types, DueFacts
  <2>3. Tried' /\ Answerable'
    BY <1>1, <2>2 DEF Tried, Answerable
  <2>4. \A s \in Sites : paid[s] <= Cardinality(PollTimes) + restarts'
    BY <1>1, <2>1, <2>2 DEF Budget
  <2>5. ASSUME paid_date' = date', NEW s \in Sites
        PROVE  paid[s] = 0 \/ paid[s] + 1 <= Due(time') + restarts'
    <3>1. date' = date /\ paid_date = date
      BY <1>1, <1>3, <1>8, <2>5, Forgetting
    <3>2. Due(time) \in Nat /\ Due(time') \in Nat /\ Due(time) <= Due(time')
      BY <1>3, <1>8, <3>1, DueFacts
    <3>3. CASE anchor = None
      BY <1>1, <2>1, <2>2, <3>1, <3>2, <3>3 DEF Budget
    <3>4. CASE anchor # None
      <4>1. anchor.date = date /\ anchor.slot \in PollTimes /\ anchor.slot <= time
        BY <1>2, <2>1, <3>1, <3>4, Types DEF Tasked, Answerable
      <4>2. Due(anchor.slot) \in Nat /\ Due(anchor.slot) <= Due(time)
        BY <1>2, <4>1, Calendar, DueFacts, DueGrows DEF TypeOK
      <4>3. paid[s] <= Due(anchor.slot) + restarts
        BY <2>1, <3>4 DEF Budget
      <4> QED
        BY <1>1, <2>2, <3>2, <4>2, <4>3
    <3> QED
      BY <3>3, <3>4
  <2>6. Budget'
    BY <1>1, <2>4, <2>5 DEF Budget
  <2> QED
    BY <2>3, <2>6
<1> QED
  BY <1>6, <1>7, <1>8 DEF IInv

-----------------------------------------------------------------------------
(* The theorems.                                                              *)

\* Every step of the poller, the clock and the process keeps the invariant.
THEOREM PollerInvariance == Spec => []IInv
<1>1. IInv /\ [Next]_vars => IInv'
  <2> SUFFICES ASSUME IInv, [Next]_vars PROVE IInv'
    OBVIOUS
  <2>1. CASE Check
    BY <2>1, CheckKeeps
  <2>2. CASE Fetched
    BY <2>2, FetchOkKeeps, FetchRefusedKeeps, FetchFailedKeeps DEF Fetched
  <2>3. CASE Settles
    BY <2>3, SettlesKeeps
  <2>4. CASE \E step \in Steps : ClockMoves(step)
    BY <2>4, ClockKeeps
  <2>5. CASE \E torn \in BOOLEAN, away \in Steps \cup {0} : Restart(torn, away)
    BY <2>5, RestartKeeps
  <2>6. CASE UNCHANGED vars
    BY <2>6, StutterIInv
  <2> QED
    BY <2>1, <2>2, <2>3, <2>4, <2>5, <2>6 DEF Next
<1> QED
  BY <1>1, InitIInv, PTL DEF Spec

\* schedule.rs, prediction/mod.rs: unless the clock goes back, however failures, retries,
\* midnights, failed saves and restarts fall, no site is paid for more often in a day
\* than there are anchors and restarts, and no anchor is asked for more often than its
\* attempts allow.
THEOREM FetchesAreBounded == Spec => []FetchesBounded
<1>1. IInv => FetchesBounded
  BY DEF IInv, Tried, Budget, FetchesBounded, DailyBudget, RetriesBounded
<1> QED
  BY <1>1, PollerInvariance, PTL

-----------------------------------------------------------------------------
(* By midnight.                                                               *)

\* What a check leaves overdue is to be retried later today, or being fetched.
Swept ==
  checked =>
    IF pc = "waiting"
    THEN \/ Overdue(date, time) = {}
         \/ pending # None /\ pending.anchor = NextDue(date, time) /\ time < pending.due
    ELSE /\ now = time /\ anchor.date = date
         /\ Overdue(date, time) = {} \/ anchor = NextDue(date, time)

\* The file has what is settled, unless the last save failed.
Filed ==
  poller.persists /\ ~unsaved /\ settled_date # None =>
    file = [date |-> settled_date, settled |-> settled]

\* An answer that comes after midnight finds nothing settled yet on the new day.
OfToday == ~back /\ pc # "waiting" /\ settled_date = date => anchor.date = date

MidnightInv == Swept /\ Filed /\ OfToday

\* What was overdue is settled with the last anchor that was.
LEMMA SettlingClears ==
  ASSUME TypeOK, anchor # None, anchor.date = date, Settle, date' = date, time' = time,
         Overdue(date, time) = {} \/ anchor = NextDue(date, time)
  PROVE  Overdue(date, time)' = {}
<1>1. settled_date' = date /\ settled' = SettledOn(date) \cup UpTo(anchor.slot)
  BY DEF Settle, UpTo
<1>2. date \in Days /\ date # None
  BY NoneAssumption DEF TypeOK
<1>3. Overdue(date, time)' = {a \in PollTimes : a <= time} \ (SettledOn(date) \cup UpTo(anchor.slot))
  BY <1>1 DEF Overdue, SettledOn
<1>4. CASE Overdue(date, time) = {}
  BY <1>3, <1>4 DEF Overdue
<1>5. CASE anchor = NextDue(date, time)
  <2>1. anchor.slot \in PollTimes /\ \A a \in PollTimes : a <= time /\ a > anchor.slot => a \in SettledOn(date)
    BY <1>5, NextDueFacts
  <2>2. \A a \in PollTimes : a > anchor.slot \/ a \in UpTo(anchor.slot)
    BY <2>1, Calendar DEF UpTo
  <2> QED
    BY <1>3, <2>1, <2>2
<1> QED
  BY <1>4, <1>5

\* A save that worked has what is settled.
LEMMA SaveFiles ==
  ASSUME Save, poller' = poller
  PROVE  Filed'
BY DEF Save, Filed

LEMMA NextDueIsNone ==
  ASSUME TypeOK
  PROVE  Overdue(date, time) = {} <=> NextDue(date, time) = None
<1> SUFFICES ASSUME Overdue(date, time) # {} PROVE NextDue(date, time) # None
  BY DEF NextDue
<1>1. Max(Overdue(date, time)) \in PollTimes
  BY Calendar, MaxIsLast DEF Overdue
<1>2. [date |-> date, slot |-> Max(Overdue(date, time))] \in Anchors
  BY <1>1 DEF Anchors, TypeOK
<1> QED
  BY <1>2, NoneAssumption DEF NextDue

LEMMA MidnightInit == Init => MidnightInv
BY DEF Init, MidnightInv, Swept, Filed, OfToday

LEMMA MidnightStutters ==
  ASSUME MidnightInv, UNCHANGED vars
  PROVE  MidnightInv'
BY DEF vars, clock, schedule, task, history, upset, MidnightInv, Swept, Filed, OfToday, Overdue, NextDue,
       SettledOn

LEMMA MidnightCheck ==
  ASSUME IInv, MidnightInv, Check
  PROVE  MidnightInv'
<1> DEFINE due == Fetch(date, time)
           next == NextDue(date, time)
<1>1. /\ pc = "waiting" /\ checked' = TRUE /\ TypeOK
      /\ UNCHANGED <<poller, date, time, settled_date, settled, pending, file, unsaved, back>>
  BY DEF Check, clock, schedule, upset, IInv
<1>2. Filed'
  BY <1>1 DEF MidnightInv, Filed
<1>3. Overdue(date, time)' = Overdue(date, time) /\ NextDue(date, time)' = next
  BY <1>1 DEF Overdue, NextDue, SettledOn
<1>4. Overdue(date, time) = {} <=> next = None
  BY <1>1, NextDueIsNone
<1>5. next # None => next.date = date
  BY <1>1, NextDueFacts
<1>6. CASE due = None
  <2>1. pc' = "waiting"
    BY <1>1, <1>6 DEF Check
  <2>2. next = None \/ (pending # None /\ pending.anchor = next /\ time < pending.due)
    <3> SUFFICES ASSUME next # None PROVE pending # None /\ pending.anchor = next /\ time < pending.due
      OBVIOUS
    <3>1. Awaits(next) /\ ~(pending.anchor.date = date /\ time >= pending.due)
      BY <1>6 DEF Fetch, Awaits
    <3>2. pending # None /\ pending.anchor = next /\ pending.anchor.date = date
      BY <1>5, <3>1 DEF Awaits
    <3>3. time \in Nat /\ pending.due \in Nat
      BY <1>1, <3>2, Types, Calendar DEF TypeOK
    <3> QED
      BY <3>1, <3>2, <3>3
  <2>3. Swept'
    BY <1>1, <1>3, <1>4, <2>1, <2>2 DEF Swept
  <2> QED
    BY <1>2, <2>1, <2>3 DEF MidnightInv, OfToday
<1>7. CASE due # None
  <2>1. pc' = "fetching" /\ now' = time /\ anchor' = due
    BY <1>7 DEF Check
  <2>2. due.date = date
    BY <1>1, <1>7, FetchFacts
  <2>3. next = None \/ due = next
    BY <1>7 DEF Fetch, Awaits
  <2> HIDE DEF due
  <2>4. Swept'
    BY <1>1, <1>3, <1>4, <2>1, <2>2, <2>3 DEF Swept
  <2> QED
    BY <1>1, <1>2, <2>1, <2>2, <2>4 DEF MidnightInv, OfToday
<1> QED
  BY <1>6, <1>7

\* The last anchor is settled, and the day's others with it.
LEMMA MidnightSettles ==
  ASSUME IInv, MidnightInv, pc # "waiting", pc' = "waiting", Settle, Save,
         UNCHANGED <<poller, date, time, checked, anchor, back>>
  PROVE  MidnightInv'
<1>1. TypeOK /\ anchor # None
  BY DEF IInv, Tasked
<1>2. Filed'
  BY SaveFiles
<1>3. ASSUME checked PROVE Overdue(date, time)' = {}
  BY <1>1, <1>3, SettlingClears DEF MidnightInv, Swept
<1> QED
  BY <1>2, <1>3 DEF MidnightInv, Swept, OfToday

LEMMA MidnightRetries ==
  ASSUME IInv, MidnightInv, pc = "fetching", pc' = "waiting", WillRetry,
         pending' = [anchor |-> anchor, attempt |-> Attempt, due |-> now + Delay],
         UNCHANGED <<poller, date, time, checked, anchor, back, settled_date, settled, file, unsaved>>
  PROVE  MidnightInv'
<1>1. pending' # None
  <2>1. TypeOK /\ anchor # None /\ now \in Times /\ now + Delay < DayLength
    BY DEF IInv, Tasked, TypeOK, WillRetry
  <2>2. anchor \in Anchors /\ Attempt \in Nat
    BY <2>1, Types DEF Attempt, Awaits
  <2>3. now + Delay \in Times
    BY <2>1, Calendar, CalendarAssumption DEF Times
  <2> QED
    BY <2>2, <2>3, NoneAssumption DEF Retries
<1>2. Overdue(date, time)' = Overdue(date, time) /\ NextDue(date, time)' = NextDue(date, time)
  BY DEF Overdue, NextDue, SettledOn
<1>3. checked => time < now + Delay /\ (Overdue(date, time) = {} \/ anchor = NextDue(date, time))
  BY Calendar, CalendarAssumption DEF MidnightInv, Swept, IInv, TypeOK
<1>4. pending'.anchor = anchor /\ pending'.due = now + Delay
  OBVIOUS
<1> QED
  BY <1>1, <1>2, <1>3, <1>4 DEF MidnightInv, Swept, Filed, OfToday

LEMMA MidnightFetched ==
  ASSUME IInv, MidnightInv, Fetched
  PROVE  MidnightInv'
<1>1. CASE FetchOk
  <2>1. /\ pc = "fetching" /\ pc' = "saving" /\ Save
        /\ UNCHANGED <<poller, date, time, checked, anchor, back, now, settled_date, settled, pending>>
    BY <1>1 DEF FetchOk, Answered, clock, schedule, upset
  <2>2. Filed'
    BY <2>1, SaveFiles
  <2>3. Overdue(date, time)' = Overdue(date, time) /\ NextDue(date, time)' = NextDue(date, time)
    BY <2>1 DEF Overdue, NextDue, SettledOn
  <2> QED
    BY <2>1, <2>2, <2>3 DEF MidnightInv, Swept, OfToday
<1>2. ASSUME NEW ok, FetchRefused(ok) PROVE MidnightInv'
  <2>1. /\ pc = "fetching" /\ pc' = "waiting" /\ Settle /\ Save
        /\ UNCHANGED <<poller, date, time, checked, anchor, back>>
    BY <1>2 DEF FetchRefused, Answered, clock, upset
  <2> QED
    BY <2>1, MidnightSettles
<1>3. ASSUME NEW ok, FetchFailed(ok) PROVE MidnightInv'
  <2>1. /\ pc = "fetching" /\ pc' = "waiting" /\ MarkFailed /\ KeepRecord
        /\ UNCHANGED <<poller, date, time, checked, anchor, back>>
    BY <1>3 DEF FetchFailed, Answered, clock, upset
  <2>2. CASE WillRetry
    <3>1. /\ pending' = [anchor |-> anchor, attempt |-> Attempt, due |-> now + Delay]
          /\ UNCHANGED <<settled_date, settled, file, unsaved>>
      BY <2>1, <2>2 DEF MarkFailed, KeepRecord
    <3> QED
      BY <2>1, <2>2, <3>1, MidnightRetries
  <2>3. CASE ~WillRetry
    BY <2>1, <2>3, MidnightSettles DEF MarkFailed, KeepRecord
  <2> QED
    BY <2>2, <2>3
<1> QED
  BY <1>1, <1>2, <1>3 DEF Fetched

\* The file forgets a date when the schedule does.
LEMMA FiledForgets ==
  ASSUME TypeOK, Filed, poller.persists, ~unsaved, Past(settled_date) # None
  PROVE  PastFile = [date |-> Past(settled_date), settled |-> settled]
<1>1. settled_date # None
  BY DEF Past
<1>2. file = [date |-> settled_date, settled |-> settled] /\ file \in Saved
  BY <1>1 DEF Filed, TypeOK, Saved
<1>3. file # None
  BY <1>2, NoneAssumption
<1> QED
  BY <1>2, <1>3 DEF PastFile

LEMMA MidnightClock ==
  ASSUME IInv, MidnightInv, NEW step \in Steps, ClockMoves(step)
  PROVE  MidnightInv'
<1>1. /\ pc = "fetching" => checked
      /\ pc \in {"waiting", "fetching"}
      /\ Moves(step)
      /\ settled_date' = Past(settled_date) /\ file' = PastFile /\ anchor' = PastAnchor(anchor)
      /\ UNCHANGED <<poller, settled, pc, unsaved>>
  BY DEF ClockMoves
<1>2. TypeOK /\ Tasked
  BY DEF IInv
<1>3. checked' = FALSE /\ (~back' => ~back) /\ date' # None
  BY <1>1, <1>2, ClockTypes
<1>4. Filed'
  BY <1>1, <1>2, FiledForgets DEF MidnightInv, Filed
<1>5. OfToday'
  <2> SUFFICES ASSUME ~back', pc = "fetching", settled_date' = date' PROVE anchor'.date = date'
    BY <1>1 DEF OfToday
  <2>1. date' = date /\ settled_date = date
    BY <1>1, <1>3, Forgetting
  <2>2. anchor.date = date /\ anchor' = anchor
    BY <1>1, <1>2, <1>3, <2>1, Forgetting DEF Tasked, PastAnchor
  <2> QED
    BY <2>1, <2>2
<1> QED
  BY <1>3, <1>4, <1>5 DEF MidnightInv, Swept

LEMMA MidnightRestart ==
  ASSUME IInv, MidnightInv, NEW torn \in BOOLEAN, NEW away \in Steps \cup {0}, Restart(torn, away)
  PROVE  MidnightInv'
<1>1. /\ Moves(away) /\ pc' = "waiting" /\ poller' = poller
      /\ settled_date' = IF file' = None THEN None ELSE file'.date
      /\ settled' = IF file' = None THEN {} ELSE file'.settled
      /\ file' = IF torn THEN None ELSE PastFile
  BY DEF Restart
<1>2. checked' = FALSE
  BY <1>1 DEF Moves
<1>3. file' \in Saved \cup {None}
  BY <1>1, FileForgets DEF IInv
<1>4. file' # None => file' = [date |-> file'.date, settled |-> file'.settled]
  BY <1>3 DEF Saved
<1>5. Filed'
  BY <1>1, <1>4 DEF Filed
<1> QED
  BY <1>1, <1>2, <1>5 DEF MidnightInv, Swept, OfToday

\* Every step of the poller, the clock and the process keeps the second invariant too.
THEOREM MidnightInvariance == Spec => [](IInv /\ MidnightInv)
<1>1. IInv /\ MidnightInv /\ [Next]_vars => MidnightInv'
  <2> SUFFICES ASSUME IInv, MidnightInv, [Next]_vars PROVE MidnightInv'
    OBVIOUS
  <2>1. CASE Check
    BY <2>1, MidnightCheck
  <2>2. CASE Fetched
    BY <2>2, MidnightFetched
  <2>3. CASE Settles
    <3>1. /\ pc = "saving" /\ pc' = "waiting" /\ Settle /\ Save
          /\ UNCHANGED <<poller, date, time, checked, anchor, back>>
      BY <2>3 DEF Settles, clock, upset
    <3> QED
      BY <3>1, MidnightSettles
  <2>4. CASE \E step \in Steps : ClockMoves(step)
    BY <2>4, MidnightClock
  <2>5. CASE \E torn \in BOOLEAN, away \in Steps \cup {0} : Restart(torn, away)
    BY <2>5, MidnightRestart
  <2>6. CASE UNCHANGED vars
    BY <2>6, MidnightStutters
  <2> QED
    BY <2>1, <2>2, <2>3, <2>4, <2>5, <2>6 DEF Next
<1> QED
  BY <1>1, MidnightInit, PollerInvariance, PTL DEF Spec

LEMMA Quotient ==
  ASSUME NEW d \in Nat, NEW t \in Nat, NEW length \in Nat, t < length
  PROVE  (length * d + t) \div length = d
<1> DEFINE x == length * d + t
<1>1. length > 0 /\ x \in Int /\ length * d \in Nat
  BY Products
<1>2. x = length * (x \div length) + (x % length) /\ x % length \in Nat /\ x % length < length /\ x \div length \in Int
  BY <1>1, Division
<1> DEFINE q == x \div length
           r == x % length
<1> HIDE DEF q, r
<1>3. length * d + t = length * q + r /\ q \in Int /\ r \in Nat /\ r < length
  BY <1>2 DEF q, r
<1>4. length * (d - q) = r - t
  <2>1. \A a, b, c, e \in Int : a + b = c + e => a - c = e - b
    OBVIOUS
  <2>2. length * (d - q) = length * d - length * q /\ length * d \in Int /\ length * q \in Int
    BY <1>3
  <2> HIDE DEF x
  <2> QED
    BY <1>3, <2>1, <2>2
<1>5. d - q = 0
  <2> DEFINE k == d - q
  <2>1. k \in Int /\ length * k < length /\ -length < length * k
    BY <1>3, <1>4
  <2> HIDE DEF k
  <2>2. k <= 0 \/ length * k >= length
    BY <1>1, <2>1
  <2>3. k >= 0 \/ length * k <= -length
    BY <1>1, <2>1
  <2>4. k = 0
    BY <2>1, <2>2, <2>3
  <2> QED
    BY <2>4 DEF k
<1> QED
  BY <1>3, <1>5 DEF q

\* A move that stays within its day stays on its date.
LEMMA SameDay ==
  ASSUME date \in Days, time \in Times, NEW step \in Nat, time + step < DayLength, Moves(step)
  PROVE  date' = date
<1> DEFINE round == Dates * DayLength
           then  == DayLength * date + (time + step)
<1>1. date \in Nat /\ date <= Dates - 1 /\ time \in Nat
  BY Calendar DEF Days
<1>2. DayLength * date \in Nat /\ DayLength * date <= DayLength * (Dates - 1)
  BY <1>1, Calendar, Products
<1>3. DayLength * (Dates - 1) = round - DayLength
  BY Calendar
<1>4. then \in Nat /\ then < round /\ round \in Nat
  BY <1>1, <1>2, <1>3, Calendar
<1>5. then % round = then
  <2> HIDE DEF then, round
  <2> QED
    BY <1>4
<1>6. then = date * DayLength + time + step
  BY <1>1, Calendar
<1>7. date' = (then % round) \div DayLength
  BY <1>6 DEF Moves
<1>8. then \div DayLength = date
  <2>1. DayLength \in Nat /\ time + step \in Nat
    BY <1>1, Calendar
  <2> QED
    BY <1>1, <2>1, Quotient
<1> QED
  BY <1>5, <1>7, <1>8

\* A day that ends with a check every minute ends with nothing overdue.
LEMMA MidnightStep ==
  ASSUME IInv, MidnightInv, [Next]_vars, date' # date, pc = "waiting", ~late'
  PROVE  SettledOn(date) = PollTimes
<1>1. ClockMoves(1)
  <2>1. \/ \E step \in Steps : ClockMoves(step)
        \/ \E torn \in BOOLEAN, away \in Steps \cup {0} : Restart(torn, away)
    BY DEF Next, Check, Fetched, FetchOk, FetchRefused, FetchFailed, Answered, Settles, vars, clock
  <2>2. ASSUME NEW step \in Steps, ClockMoves(step) PROVE ClockMoves(1)
    BY <2>2 DEF ClockMoves
  <2>3. ASSUME NEW torn \in BOOLEAN, NEW away \in Steps \cup {0}, Restart(torn, away) PROVE FALSE
    <3>1. away = 0 /\ Moves(0)
      BY <2>3 DEF Restart
    <3>2. date \in Days /\ time \in Times
      BY DEF IInv, TypeOK
    <3> QED
      BY <3>1, <3>2, SameDay, Calendar
  <2> QED
    BY <2>1, <2>2, <2>3
<1>2. TypeOK /\ checked /\ Moves(1) /\ date \in Days /\ time \in Times
  BY <1>1 DEF ClockMoves, IInv, TypeOK
<1>3. time = DayLength - 1
  <2>1. ~(time + 1 < DayLength)
    BY <1>2, SameDay
  <2> QED
    BY <1>2, <2>1, Calendar
<1>4. Overdue(date, time) = {}
  <2> SUFFICES ASSUME pending # None, time < pending.due PROVE FALSE
    BY <1>2 DEF MidnightInv, Swept
  <2>1. pending.due \in Nat /\ pending.due < DayLength
    BY <1>2, Types, Calendar
  <2> QED
    BY <1>3, <2>1, Calendar
<1>5. \A a \in PollTimes : a <= time
  BY <1>3, Calendar
<1>6. SettledOn(date) \subseteq PollTimes
  BY <1>2 DEF SettledOn, TypeOK
<1> QED
  BY <1>4, <1>5, <1>6 DEF Overdue

\* What is settled is added to, picked up from the file or forgotten with its date.
LEMMA SettledStep ==
  ASSUME IInv, MidnightInv, [Next]_vars, poller.persists, ~back', ~unsaved', date' = date
  PROVE  SettledOn(date) \subseteq SettledOn(date)'
<1>1. TypeOK /\ date \in Days /\ date # None
  BY NoneAssumption DEF IInv, TypeOK
<1>2. CASE UNCHANGED <<date, settled_date, settled>>
  BY <1>2 DEF SettledOn
<1>3. ASSUME pc # "waiting", Settle, back' = back
      PROVE  SettledOn(date) \subseteq SettledOn(date)'
  <2>1. settled_date = date => anchor.date = date
    BY <1>3 DEF MidnightInv, OfToday
  <2> QED
    BY <1>3, <2>1 DEF Settle, SettledOn
<1>4. CASE Check \/ UNCHANGED vars
  BY <1>2, <1>4 DEF Check, vars, clock, schedule
<1>5. CASE Fetched
  <2>1. CASE FetchOk
    BY <1>2, <2>1 DEF FetchOk, Answered, clock, schedule
  <2>2. ASSUME NEW ok, FetchRefused(ok) \/ FetchFailed(ok)
        PROVE  SettledOn(date) \subseteq SettledOn(date)'
    <3>1. pc = "fetching" /\ back' = back /\ (Settle \/ UNCHANGED <<settled_date, settled>>)
      BY <2>2 DEF FetchRefused, FetchFailed, MarkFailed, Answered, upset
    <3> QED
      BY <1>2, <1>3, <3>1
  <2> QED
    BY <1>5, <2>1, <2>2 DEF Fetched
<1>6. CASE Settles
  BY <1>3, <1>6 DEF Settles, upset
<1>7. CASE \E step \in Steps : ClockMoves(step)
  BY <1>7, Forgetting DEF ClockMoves, SettledOn
<1>8. CASE \E torn \in BOOLEAN, away \in Steps \cup {0} : Restart(torn, away)
  <2> SUFFICES ASSUME settled_date = date PROVE settled \subseteq SettledOn(date)'
    BY DEF SettledOn
  <2>1. /\ ~unsaved /\ file' = PastFile
        /\ settled_date' = IF file' = None THEN None ELSE file'.date
        /\ settled' = IF file' = None THEN {} ELSE file'.settled
    BY <1>8 DEF Restart
  <2>2. Past(settled_date) = date
    BY Forgetting
  <2>3. file' = [date |-> date, settled |-> settled]
    BY <1>1, <2>1, <2>2, FiledForgets DEF MidnightInv
  <2>4. file' # None
    BY <1>1, <2>3, NoneAssumption DEF Saved, TypeOK
  <2> QED
    BY <2>1, <2>3, <2>4 DEF SettledOn
<1> QED
  BY <1>4, <1>5, <1>6, <1>7, <1>8 DEF Next

\* schedule.rs: with a check every minute no anchor is left unsettled at midnight but
\* the one in flight, and none is settled twice.
THEOREM AnchorsAreSettled == Spec => AnchorsSettled
<1>1. IInv /\ MidnightInv /\ [Next]_vars
        => [date' # date /\ pc = "waiting" /\ ~late' => SettledOn(date) = PollTimes]_vars
  BY MidnightStep
<1>2. IInv /\ MidnightInv /\ [Next]_vars
        => [poller.persists /\ ~back' /\ ~unsaved' /\ date' = date
              => SettledOn(date) \subseteq SettledOn(date)']_vars
  BY SettledStep
<1> QED
  BY <1>1, <1>2, MidnightInvariance, PTL DEF Spec, AnchorsSettled, SettledByMidnight, SettledIsKept

-----------------------------------------------------------------------------
(* The charge ceiling.                                                        *)

\* The record of the last write is of what was written last, and as old as that is
\* unless the clock stepped since.
Recalled ==
  /\ held.kind = "unknown" => last = None
  /\ held.kind # "unknown" => held.target = last
  /\ held.kind # "unknown" /\ ~jumped => held.age = quiet

\* No tick has no pause since the last write.
Ticked == phase = "sync" => quiet >= 1 \/ RetryAfter = 0

CeilingInv == Ceiling!TypeOK /\ Recalled /\ Ticked

LEMMA Aging ==
  ASSUME NEW age \in -RetryAfter .. RetryAfter, NEW step \in Int
  PROVE  Ceiling!Aged(age, step) \in -RetryAfter .. RetryAfter
BY CeilingAssumption DEF Ceiling!Aged, Ceiling!MinAge

LEMMA CeilingInit == Ceiling!Init => CeilingInv
<1> SUFFICES ASSUME Ceiling!Init PROVE CeilingInv
  OBVIOUS
<1>1. held.kind = "unknown" /\ held \in Ceiling!Records
  BY DEF Ceiling!Init, Ceiling!Unknown, Ceiling!Records
<1>2. soc \in Socs /\ max \in Socs /\ sampled \in Socs /\ phase = "poll" /\ last = None /\ reported = None
  BY DEF Ceiling!Init
<1>3. quiet \in 0 .. RetryAfter /\ ceilingUpsets \in 0 .. CeilingUpsets /\ days \in 0 .. MaxDays
  BY CeilingAssumption DEF Ceiling!Init
<1>4. jumped \in BOOLEAN
  BY DEF Ceiling!Init
<1> QED
  BY <1>1, <1>2, <1>3, <1>4 DEF CeilingInv, Ceiling!TypeOK, Recalled, Ticked

LEMMA ClampedSocs == \A value \in Socs : Clamped[value] \in Socs
BY CeilingAssumption DEF Clamped

LEMMA RecordFacts ==
  ASSUME Ceiling!TypeOK
  PROVE  \/ held = Ceiling!Unknown
         \/ /\ held.kind \in {"written", "failed"} /\ held.target \in Socs /\ held.age \in Ceiling!Ages
            /\ held = [kind |-> held.kind, target |-> held.target, age |-> held.age]
BY DEF Ceiling!TypeOK, Ceiling!Records

LEMMA ObserveKeeps ==
  ASSUME CeilingInv, NEW step \in Stepped, NEW report, Ceiling!Observe(step, report)
  PROVE  CeilingInv' /\ phase # "sync"
<1>1. /\ phase = "poll" /\ phase' = "sync" /\ report \in {None, soc, sampled}
      /\ reported' = IF report = None THEN reported ELSE report
      /\ sampled' = soc
      /\ held' = [held EXCEPT !.age = IF held.kind = "unknown" THEN 0 ELSE Ceiling!Aged(held.age, step)]
      /\ quiet' = Ceiling!Aged(quiet, 1)
      /\ jumped' = (jumped \/ step # 1)
      /\ ceilingUpsets' = IF step = 1 THEN ceilingUpsets ELSE ceilingUpsets + 1
      /\ ceilingUpsets' <= CeilingUpsets
      /\ UNCHANGED <<soc, max, last, days>>
  BY DEF Ceiling!Observe
<1>2. Ceiling!TypeOK /\ Recalled /\ step \in Int /\ RetryAfter \in Nat /\ quiet \in 0 .. RetryAfter
  BY CeilingAssumption DEF CeilingInv, Stepped, Ceiling!TypeOK
<1>3. quiet' \in 0 .. RetryAfter /\ (quiet' >= 1 \/ RetryAfter = 0)
  BY <1>1, <1>2 DEF Ceiling!Aged, Ceiling!MinAge
<1>4. held'.kind = held.kind /\ held'.target = held.target
  BY <1>1, <1>2, RecordFacts DEF Ceiling!Unknown
<1>5. held' \in Ceiling!Records
  <2>1. CASE held = Ceiling!Unknown
    BY <1>1, <2>1 DEF Ceiling!Unknown, Ceiling!Records
  <2>2. CASE held # Ceiling!Unknown
    <3>1. /\ held.kind \in {"written", "failed"} /\ held.target \in Socs /\ held.age \in Ceiling!Ages
          /\ held = [kind |-> held.kind, target |-> held.target, age |-> held.age]
      BY <1>2, <2>2, RecordFacts
    <3>2. Ceiling!Aged(held.age, step) \in Ceiling!Ages
      BY <1>2, <3>1, Aging DEF Ceiling!Ages, Ceiling!MinAge
    <3>3. held' = [kind |-> held.kind, target |-> held.target, age |-> Ceiling!Aged(held.age, step)]
      BY <1>1, <3>1
    <3> QED
      BY <3>1, <3>2, <3>3 DEF Ceiling!Records
  <2> QED
    BY <2>1, <2>2
<1>6. ASSUME held.kind # "unknown", ~jumped'
      PROVE  held'.age = quiet'
  <2>1. held.kind \in {"written", "failed"} /\ held = [kind |-> held.kind, target |-> held.target, age |-> held.age]
    BY <1>2, <1>6, RecordFacts DEF Ceiling!Unknown
  <2>2. held'.age = Ceiling!Aged(held.age, step)
    BY <1>1, <1>6, <2>1
  <2> QED
    BY <1>1, <1>2, <1>6, <2>2 DEF Recalled
<1>7. Ceiling!TypeOK'
  <2>1. ceilingUpsets' \in 0 .. CeilingUpsets /\ reported' \in Socs \cup {None} /\ jumped' \in BOOLEAN
    BY <1>1, <1>2, CeilingAssumption DEF Ceiling!TypeOK
  <2> QED
    BY <1>1, <1>2, <1>3, <1>5, <2>1 DEF Ceiling!TypeOK
<1> QED
  BY <1>1, <1>2, <1>3, <1>4, <1>6, <1>7 DEF CeilingInv, Recalled, Ticked

\* A write is of another target than the last, or comes a pause after it.
LEMMA WroteKeeps ==
  ASSUME CeilingInv, NEW kind \in {"written", "failed"}, Ceiling!Wrote(kind), soc' \in Socs
  PROVE  CeilingInv' /\ (last = max /\ ~jumped => quiet >= RetryAfter)
<1>1. /\ phase = "sync" /\ Ceiling!Due(max) /\ phase' = "poll"
      /\ held' = [kind |-> kind, target |-> max, age |-> 0]
      /\ quiet' = 0 /\ last' = max /\ jumped' = FALSE
      /\ UNCHANGED <<sampled, reported, max, ceilingUpsets, days>>
  BY DEF Ceiling!Wrote
<1>2. Ceiling!TypeOK /\ Recalled /\ max \in Socs /\ max # None /\ RetryAfter \in Nat
  BY CeilingAssumption DEF CeilingInv, Ceiling!TypeOK
<1>3. held' \in Ceiling!Records /\ held'.kind = kind /\ held'.target = max /\ held'.age = 0
  BY <1>1, <1>2 DEF Ceiling!Records, Ceiling!Ages, Ceiling!MinAge
<1>4. Ceiling!TypeOK'
  <2>1. quiet' \in 0 .. RetryAfter
    BY <1>1, <1>2
  <2>2. jumped' \in BOOLEAN
    BY <1>1
  <2> QED
    BY <1>1, <1>2, <1>3, <2>1, <2>2 DEF Ceiling!TypeOK
<1>5. CeilingInv'
  BY <1>1, <1>3, <1>4 DEF CeilingInv, Recalled, Ticked
<1>6. ASSUME last = max, ~jumped PROVE quiet >= RetryAfter
  <2>1. held.kind \in {"written", "failed"} /\ held.target = max /\ held.age = quiet
    BY <1>2, <1>6, RecordFacts DEF Recalled, Ceiling!Unknown
  <2> QED
    BY <1>1, <2>1 DEF Ceiling!Due
<1> QED
  BY <1>5, <1>6

LEMMA CeilingStep ==
  ASSUME CeilingInv, [Ceiling!Next]_ceilingVars
  PROVE  /\ CeilingInv'
         /\ phase = "sync" /\ quiet' = 0 /\ last = max /\ ~jumped => quiet >= RetryAfter
<1>1. /\ Ceiling!TypeOK /\ Recalled /\ Ticked
      /\ RetryAfter \in Nat /\ CeilingUpsets \in Nat /\ MaxDays \in Nat /\ quiet \in 0 .. RetryAfter
      /\ \A value \in Socs : Clamped[value] \in Socs
  BY CeilingAssumption, ClampedSocs DEF CeilingInv, Ceiling!TypeOK
<1>2. CASE UNCHANGED <<soc, sampled, held, reported, max, quiet, last, jumped, ceilingUpsets, days>>
             /\ (phase' = phase \/ phase' = "poll")
  BY <1>1, <1>2 DEF CeilingInv, Ceiling!TypeOK, Recalled, Ticked
<1>3. CASE \E step \in Stepped, report \in Ceiling!Reports : Ceiling!Observe(step, report)
  BY <1>3, ObserveKeeps
<1>4. CASE Ceiling!WriteLands
  <2>1. Ceiling!Wrote("written") /\ soc' \in Socs
    BY <1>1, <1>4 DEF Ceiling!WriteLands, Ceiling!TypeOK
  <2> QED
    BY <2>1, WroteKeeps
<1>5. CASE Ceiling!WriteFails
  <2>1. Ceiling!Wrote("failed") /\ soc' \in Socs
    BY <1>1, <1>5 DEF Ceiling!WriteFails, Ceiling!TypeOK
  <2> QED
    BY <2>1, WroteKeeps
<1>6. CASE Ceiling!NotDue
  BY <1>2, <1>6 DEF Ceiling!NotDue
<1>7. ASSUME NEW target \in Socs, Ceiling!DayTurns(target) PROVE CeilingInv' /\ phase = "poll"
  <2>1. /\ phase = "poll" /\ days < MaxDays /\ max' = target /\ days' = days + 1
        /\ UNCHANGED <<soc, sampled, held, reported, phase, quiet, last, jumped, ceilingUpsets>>
    BY <1>7 DEF Ceiling!DayTurns
  <2>2. days' \in 0 .. MaxDays
    BY <1>1, <2>1 DEF Ceiling!TypeOK
  <2> QED
    BY <1>1, <2>1, <2>2 DEF CeilingInv, Ceiling!TypeOK, Recalled, Ticked
<1>8. ASSUME NEW value \in Socs, Ceiling!Reverts(value) PROVE CeilingInv' /\ quiet' = quiet /\ phase' = phase
  <2>1. /\ ceilingUpsets < CeilingUpsets /\ ceilingUpsets' = ceilingUpsets + 1 /\ soc' = value
        /\ UNCHANGED <<sampled, held, reported, max, phase, quiet, last, jumped, days>>
    BY <1>8 DEF Ceiling!Reverts
  <2>2. ceilingUpsets' \in 0 .. CeilingUpsets
    BY <1>1, <2>1 DEF Ceiling!TypeOK
  <2> QED
    BY <1>1, <2>1, <2>2 DEF CeilingInv, Ceiling!TypeOK, Recalled, Ticked
<1>9. CASE Ceiling!Restart
  <2>1. /\ ceilingUpsets < CeilingUpsets /\ ceilingUpsets' = ceilingUpsets + 1
        /\ held' = Ceiling!Unknown /\ reported' = None
        /\ phase' = "poll" /\ quiet' = RetryAfter /\ last' = None /\ jumped' = FALSE
        /\ UNCHANGED <<soc, sampled, max, days>>
    BY <1>9 DEF Ceiling!Restart
  <2>2. /\ ceilingUpsets' \in 0 .. CeilingUpsets /\ quiet' \in 0 .. RetryAfter
        /\ held' \in Ceiling!Records /\ held'.kind = "unknown"
    BY <1>1, <2>1 DEF Ceiling!TypeOK, Ceiling!Records, Ceiling!Unknown
  <2>3. CeilingInv'
    BY <1>1, <2>1, <2>2 DEF CeilingInv, Ceiling!TypeOK, Recalled, Ticked
  <2> QED
    BY <1>1, <2>1, <2>3
<1>10. CASE UNCHANGED ceilingVars
  BY <1>2, <1>10 DEF ceilingVars
<1>11. ASSUME phase = "sync", quiet' = 0, quiet' = quiet PROVE quiet >= RetryAfter
  BY <1>1, <1>11 DEF Ticked
<1> QED
  BY <1>3, <1>4, <1>5, <1>6, <1>7, <1>8, <1>9, <1>10, <1>11 DEF Ceiling!Next, Ceiling!Sync

\* ceiling.rs: unless the clock steps, a device is written the same ceiling once a pause
\* at most, whether it takes it, clamps it, refuses it or denies it later.
THEOREM CeilingIsSpaced ==
  Ceiling!Init /\ [][Ceiling!Next]_ceilingVars => [](Ceiling!TypeOK) /\ Ceiling!WritesSpaced
<1>1. CeilingInv /\ [Ceiling!Next]_ceilingVars => CeilingInv'
  BY CeilingStep
<1>2. CeilingInv /\ [Ceiling!Next]_ceilingVars
        => [phase = "sync" /\ quiet' = 0 /\ last = max /\ ~jumped => quiet >= RetryAfter]_ceilingVars
  BY CeilingStep
<1>3. CeilingInv => Ceiling!TypeOK
  BY DEF CeilingInv
<1> QED
  BY <1>1, <1>2, <1>3, CeilingInit, PTL DEF Ceiling!WritesSpaced, ceilingVars, Ceiling!vars

\* Whichever of the two runs, its attempts are kept in bounds: the other stands still.
THEOREM AttemptsAreKept == BothSafeSpec => AttemptsKept
<1>1. BothInit => Init /\ Ceiling!Init
  BY DEF BothInit
<1>2. [BothNext]_bothVars => [Next]_vars /\ [Ceiling!Next]_ceilingVars
  BY DEF BothNext, bothVars
<1>3. BothSafeSpec => Spec /\ Ceiling!Init /\ [][Ceiling!Next]_ceilingVars
  BY <1>1, <1>2, PTL DEF BothSafeSpec, Spec
<1> QED
  BY <1>3, AnchorsAreSettled, CeilingIsSpaced, PTL DEF AttemptsKept
================================================================================
