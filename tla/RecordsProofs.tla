----------------------------- MODULE RecordsProofs -----------------------------
(***************************************************************************)
(* Proofs about what the journal and the state files are read into, whichever *)
(* of them runs.                                                             *)
(***************************************************************************)
EXTENDS Records, FiniteSetTheorems, SequenceTheorems, WellFoundedInduction, TLAPS

-----------------------------------------------------------------------------
(* Numbers: the least of a set, induction and recursion.                      *)

\* A set of numbers that is not empty has a least one.
LEMMA LeastNat ==
  ASSUME NEW T \in SUBSET Nat, T # {}
  PROVE  \E n \in T : \A m \in T : n <= m
<1> DEFINE Below == {ss \in Nat \X Nat : ss[1] < ss[2]}
<1>1. IsWellFoundedOn(Below, Nat)
  BY NatLessThanWellFounded DEF OpToRel
<1>2. \A m, n \in Nat : m < n => <<m, n>> \in Below
  OBVIOUS
<1> HIDE DEF Below
<1>3. PICK n \in T : \A m \in T : ~(<<m, n>> \in Below)
  BY <1>1, WFMin
<1>4. \A m \in T : ~(m < n)
  BY <1>2, <1>3
<1> QED
  BY <1>4

\* Induction, over a set and not a predicate.
LEMMA EveryNat ==
  ASSUME NEW T, 0 \in T, \A n \in Nat : n \in T => n + 1 \in T
  PROVE  \A n \in Nat : n \in T
<1> DEFINE Others == {n \in Nat : n \notin T}
<1> SUFFICES ASSUME Others # {} PROVE FALSE
  OBVIOUS
<1>1. PICK n \in Others : \A m \in Others : n <= m
  BY LeastNat
<1>2. n # 0 /\ n - 1 \in Nat /\ n - 1 \notin Others
  BY <1>1
<1> QED
  BY <1>1, <1>2

\* F goes on from base by step.
Iterates(F, n, base, step) == F[0] = base /\ \A i \in 1 .. n : F[i] = step[<<i, F[i - 1]>>]

\* A recursive definition over the first numbers defines a function.
LEMMA Recursion ==
  ASSUME NEW n \in Nat, NEW S, NEW base \in S, NEW step \in [(1 .. n) \X S -> S]
  PROVE  \E F \in [0 .. n -> S] : Iterates(F, n, base, step)
<1> DEFINE Good(F, k) == F[0] = base /\ \A i \in 1 .. k : F[i] = step[<<i, F[i - 1]>>]
           T == {k \in Nat : k <= n => \E F \in [0 .. k -> S] : Good(F, k)}
<1>1. 0 \in T
  <2>1. [i \in 0 .. 0 |-> base] \in [0 .. 0 -> S] /\ Good([i \in 0 .. 0 |-> base], 0)
    OBVIOUS
  <2> QED
    BY <2>1
<1>2. \A k \in Nat : k \in T => k + 1 \in T
  <2> SUFFICES ASSUME NEW k \in Nat, k \in T, k + 1 <= n
               PROVE  \E F \in [0 .. k + 1 -> S] : Good(F, k + 1)
    OBVIOUS
  <2>1. PICK F \in [0 .. k -> S] : Good(F, k)
    OBVIOUS
  <2> DEFINE G == [i \in 0 .. k + 1 |-> IF i = k + 1 THEN step[<<k + 1, F[k]>>] ELSE F[i]]
  <2>2. step[<<k + 1, F[k]>>] \in S
    <3>1. <<k + 1, F[k]>> \in (1 .. n) \X S
      OBVIOUS
    <3> QED
      BY <3>1
  <2>3. G \in [0 .. k + 1 -> S]
    BY <2>2
  <2>4. Good(G, k + 1)
    <3>1. \A i \in 0 .. k : G[i] = F[i]
      OBVIOUS
    <3>2. \A i \in 1 .. k : G[i] = step[<<i, G[i - 1]>>]
      BY <2>1, <3>1
    <3>3. k \in 0 .. k /\ k + 1 \in 0 .. k + 1
      OBVIOUS
    <3>4. G[k + 1] = step[<<k + 1, F[k]>>]
      BY <3>3
    <3> HIDE DEF G
    <3>5. G[0] = base /\ G[k] = F[k]
      BY <2>1, <3>1, <3>3
    <3> SUFFICES ASSUME NEW i \in 1 .. k + 1 PROVE G[i] = step[<<i, G[i - 1]>>]
      BY <3>5
    <3>6. CASE i \in 1 .. k
      BY <3>2, <3>6
    <3>7. CASE i = k + 1
      <4>1. i - 1 = k
        BY <3>7
      <4> QED
        BY <3>4, <3>5, <3>7, <4>1
    <3> QED
      BY <3>6, <3>7
  <2> QED
    BY <2>3, <2>4
<1> HIDE DEF T
<1>3. n \in T
  BY <1>1, <1>2, EveryNat
<1> QED
  BY <1>3 DEF T, Iterates
LEMMA MinIsLeast ==
  ASSUME NEW T \in SUBSET Nat, T # {}
  PROVE  PastDays!Min(T) \in T /\ \A m \in T : PastDays!Min(T) <= m
BY LeastNat DEF PastDays!Min

-----------------------------------------------------------------------------
(* The past days: the calendar.                                               *)

\* A row stamped once a day has ended is of a later one.
LEMMA EndOfDay ==
  ASSUME NEW day \in Nat, NEW at \in Nat
  PROVE  /\ PastDays!LocalDate(at) \in Nat
         /\ PastDays!End(day) \in Nat
         /\ PastDays!End(day) <= at => PastDays!LocalDate(at) # day
<1>1. DayLength \in Nat /\ DayLength > 0
  BY PastDaysAssumption
<1>2. at \div DayLength \in Nat /\ at < (at \div DayLength + 1) * DayLength
  BY <1>1
<1>3. (day + 1) * DayLength \in Nat
  BY <1>1
<1> QED
  BY <1>2, <1>3 DEF PastDays!LocalDate, PastDays!End

-----------------------------------------------------------------------------
(* The past days: the cache.                                                  *)

Distinct(entries) == \A i, j \in DOMAIN entries : entries[i].day = entries[j].day => i = j

\* Where a day is, if it is there.
LEMMA PositionFacts ==
  ASSUME NEW entries \in Seq(PastDays!Views), NEW day
  PROVE  \/ /\ PastDays!Position(entries, day) \in 1 .. Len(entries)
            /\ entries[PastDays!Position(entries, day)].day = day
         \/ /\ PastDays!Position(entries, day) = 0
            /\ \A i \in 1 .. Len(entries) : entries[i].day # day
<1> DEFINE Found == {i \in 1 .. Len(entries) : entries[i].day = day}
<1>1. PastDays!Position(entries, day) = IF Found # {} THEN PastDays!Min(Found) ELSE 0
  BY DEF PastDays!Position, PastDays!SelectInSeq
<1>2. Found \in SUBSET Nat
  OBVIOUS
<1>3. CASE Found # {}
  BY <1>1, <1>2, <1>3, MinIsLeast
<1>4. CASE Found = {}
  BY <1>1, <1>4
<1> QED
  BY <1>3, <1>4

\* The other entries are those of the other days.
LEMMA OthersFacts ==
  ASSUME NEW entries \in Seq(PastDays!Views), NEW day, Distinct(entries)
  PROVE  /\ PastDays!Others(entries, day) \in Seq(PastDays!Views)
         /\ Len(PastDays!Others(entries, day)) <= Len(entries)
         /\ PastDays!Position(entries, day) # 0
              => Len(PastDays!Others(entries, day)) = Len(entries) - 1
         /\ Distinct(PastDays!Others(entries, day))
         /\ \A i \in DOMAIN PastDays!Others(entries, day) :
              /\ PastDays!Others(entries, day)[i].day # day
              /\ \E j \in DOMAIN entries : PastDays!Others(entries, day)[i] = entries[j]
<1> DEFINE p == PastDays!Position(entries, day)
           rest == PastDays!RemoveAt(entries, p)
<1>1. CASE p = 0
  <2>1. ~\E i \in 1 .. Len(entries) : entries[i].day = day
    BY <1>1, PositionFacts
  <2>2. PastDays!Others(entries, day) = entries
    BY <2>1 DEF PastDays!Others, PastDays!RemoveFirstMatch
  <2> QED
    BY <1>1, <2>1, <2>2
<1>2. CASE p # 0
  <2>1. p \in 1 .. Len(entries) /\ entries[p].day = day
    BY <1>2, PositionFacts
  <2>2. PastDays!Others(entries, day) = rest
    BY <2>1 DEF PastDays!Others, PastDays!RemoveFirstMatch, PastDays!Position
  <2> HIDE DEF p
  <2>3. /\ rest \in Seq(PastDays!Views)
        /\ Len(rest) = Len(entries) - 1
        /\ \A i \in 1 .. Len(rest) : rest[i] = entries[IF i < p THEN i ELSE i + 1]
    <3> DEFINE before == SubSeq(entries, 1, p - 1)
               after  == SubSeq(entries, p + 1, Len(entries))
    <3>1. /\ before \in Seq(PastDays!Views) /\ Len(before) = p - 1
          /\ \A i \in 1 .. p - 1 : before[i] = entries[i]
      BY <2>1
    <3>2. /\ after \in Seq(PastDays!Views) /\ Len(after) = Len(entries) - p
          /\ \A i \in 1 .. Len(entries) - p : after[i] = entries[p + i]
      BY <2>1
    <3>3. rest = before \o after
      BY DEF PastDays!RemoveAt
    <3> HIDE DEF before, after, rest
    <3>4. /\ rest \in Seq(PastDays!Views) /\ Len(rest) = Len(before) + Len(after)
          /\ \A i \in 1 .. Len(rest) :
               rest[i] = IF i <= Len(before) THEN before[i] ELSE after[i - Len(before)]
      <4>1. before \in Seq(PastDays!Views) /\ after \in Seq(PastDays!Views)
        BY <3>1, <3>2
      <4> QED
        BY <3>3, <4>1, ConcatProperties
    <3>5. Len(entries) \in Nat /\ Len(rest) = Len(entries) - 1
      BY <2>1, <3>1, <3>2, <3>4
    <3>6. ASSUME NEW i \in 1 .. Len(rest)
          PROVE  rest[i] = entries[IF i < p THEN i ELSE i + 1]
      <4>1. CASE i < p
        BY <2>1, <3>1, <3>4, <3>5, <4>1
      <4>2. CASE i >= p
        <5>1. i - Len(before) \in 1 .. Len(entries) - p /\ p + (i - Len(before)) = i + 1
          BY <2>1, <3>1, <3>5, <4>2
        <5> QED
          BY <2>1, <3>1, <3>2, <3>4, <4>2, <5>1
      <4> QED
        BY <2>1, <4>1, <4>2
    <3> QED
      BY <3>4, <3>5, <3>6
  <2> HIDE DEF rest
  <2>4. ASSUME NEW i \in 1 .. Len(rest)
        PROVE  \E j \in 1 .. Len(entries) : j # p /\ rest[i] = entries[j]
    <3> DEFINE j == IF i < p THEN i ELSE i + 1
    <3>1. j \in 1 .. Len(entries) /\ j # p
      BY <2>1, <2>3
    <3> QED
      BY <2>3, <3>1
  <2>5. \A i \in 1 .. Len(rest) : rest[i].day # day
    BY <2>1, <2>4 DEF Distinct
  <2>6. Distinct(rest)
    <3> SUFFICES ASSUME NEW i \in 1 .. Len(rest), NEW j \in 1 .. Len(rest), rest[i].day = rest[j].day
                 PROVE  i = j
      BY <2>3 DEF Distinct
    <3> DEFINE from(k) == IF k < p THEN k ELSE k + 1
    <3>1. from(i) \in DOMAIN entries /\ from(j) \in DOMAIN entries
      BY <2>1, <2>3
    <3>2. entries[from(i)].day = entries[from(j)].day
      BY <2>3
    <3>3. from(i) = from(j)
      BY <3>1, <3>2 DEF Distinct
    <3> QED
      BY <2>1, <2>3, <3>3
  <2> QED
    BY <2>1, <2>2, <2>3, <2>4, <2>5, <2>6 DEF p
<1> QED
  BY <1>1, <1>2

-----------------------------------------------------------------------------
(* The past days: the invariant.                                              *)

\* The journal's writer is no further behind than a day is left to settle.
Behind == \A at \in queued : pastNow - at <= Settle

\* A request was made at a time that has been.
Timely ==
  \A r \in Requests : request[r].at \in {"asked", "looked"} => request[r].now <= pastNow

\* A view of a day that has settled, with every row the journal has or is owed of it.
Whole(view) ==
  /\ PastDays!Settled(view.day, pastNow)
  /\ PastDays!RowsOf(view.day, pastRows \cup queued) \subseteq view.rows

\* What is in the cache is whole and of the days the cache was last asked for.
CacheWhole ==
  \A i \in DOMAIN cache.entries :
    Whole(cache.entries[i]) /\ cache.entries[i].context = cache.renderedFor

\* What is about to be put in it is whole.
ReadsWhole == \A r \in Requests : request[r].at = "read" => Whole(request[r].view)

PastInv ==
  /\ PastDays!TypeOK
  /\ Behind /\ Timely /\ CacheWhole /\ ReadsWhole
  /\ PastDays!NothingMissing /\ PastDays!LinksAreCurrent

\* A request by how far it has come.
LEMMA RequestTypes ==
  ASSUME PastDays!TypeOK, NEW r \in Requests
  PROVE  /\ request[r].at = "asked" => request[r] \in PastDays!Asked
         /\ request[r].at = "looked" => request[r] \in PastDays!Looked
         /\ request[r].at = "read" => request[r] \in PastDays!Read
         /\ request[r].at = "answered" => request[r] \in PastDays!Answered
BY DEF PastDays!TypeOK, PastDays!Idling, PastDays!Asked, PastDays!Looked, PastDays!Read, PastDays!Answered

\* A request moves, and only that one.
LEMMA Moved ==
  ASSUME PastDays!TypeOK, NEW r \in Requests, NEW to, PastDays!Moves(r, to)
  PROVE  /\ request'[r] = to
         /\ \A s \in Requests \ {r} : request'[s] = request[s]
         /\ to \in PastDays!Idling \cup PastDays!Asked \cup PastDays!Looked \cup PastDays!Read
                     \cup PastDays!Answered
              => request' \in [Requests -> PastDays!Idling \cup PastDays!Asked \cup PastDays!Looked
                                             \cup PastDays!Read \cup PastDays!Answered]
BY DEF PastDays!TypeOK, PastDays!Moves

\* The days a request finds are days.
LEMMA OldestFacts == PastDays!TypeOK => PastDays!Oldest \in Nat \cup {None}
<1> SUFFICES ASSUME PastDays!TypeOK, pastRows # {} PROVE PastDays!Oldest \in Nat
  BY DEF PastDays!Oldest
<1>1. pastRows \in SUBSET Nat
  BY PastDaysAssumption DEF PastDays!TypeOK
<1> QED
  BY <1>1, MinIsLeast, EndOfDay DEF PastDays!Oldest

LEMMA RowsTyped == PastDays!TypeOK => \A day : PastDays!RowsOf(day, pastRows) \in SUBSET Nat
<1>1. PastDays!TypeOK => pastRows \in SUBSET Nat
  BY PastDaysAssumption DEF PastDays!TypeOK
<1> QED
  BY <1>1 DEF PastDays!RowsOf

LEMMA PastInit == PastDays!Init => PastInv
BY PastDaysAssumption
DEF PastDays!Init, PastInv, PastDays!TypeOK, PastDays!CacheType, PastDays!Idle, PastDays!Idling, Behind,
    Timely, CacheWhole, ReadsWhole, PastDays!NothingMissing, PastDays!LinksAreCurrent

LEMMA PastUnchanged == PastInv /\ UNCHANGED pastVars => PastInv'
BY DEF pastVars, PastInv, PastDays!TypeOK, PastDays!CacheType, Behind, Timely, CacheWhole, ReadsWhole, Whole,
       PastDays!Settled, PastDays!RowsOf, PastDays!NothingMissing, PastDays!LinksAreCurrent

-----------------------------------------------------------------------------
(* The past days: a request.                                                  *)

\* A step of one request that leaves the journal and the clock alone keeps what holds
\* of the others.
LEMMA OneRequest ==
  ASSUME PastInv, NEW r \in Requests, NEW to, PastDays!Moves(r, to),
         UNCHANGED <<pastNow, queued, pastRows>>, failures' \in 0 .. MaxFailures,
         PastDays!CacheType', CacheWhole',
         to \in PastDays!Idling \cup PastDays!Asked \cup PastDays!Looked \cup PastDays!Read
                  \cup PastDays!Answered,
         to.at \in {"asked", "looked"} => to.now <= pastNow,
         to.at = "read" => Whole(to.view),
         to.at = "answered" => to.has \subseteq to.view.rows /\ to.view.context = to.context
  PROVE  PastInv'
<1>1. PastDays!TypeOK'
  BY Moved DEF PastInv, PastDays!TypeOK
<1>2. /\ request'[r] = to
      /\ \A s \in Requests \ {r} : request'[s] = request[s]
  BY Moved DEF PastInv
<1>3. Behind' /\ Timely'
  BY <1>2 DEF PastInv, Behind, Timely
<1>4. \A view : Whole(view) => Whole(view)'
  BY DEF Whole, PastDays!Settled, PastDays!RowsOf
<1>5. ReadsWhole'
  BY <1>2, <1>4 DEF PastInv, ReadsWhole, Whole, PastDays!Settled, PastDays!RowsOf
<1>6. PastDays!NothingMissing' /\ PastDays!LinksAreCurrent'
  BY <1>2 DEF PastInv, PastDays!NothingMissing, PastDays!LinksAreCurrent
<1> QED
  BY <1>1, <1>3, <1>5, <1>6 DEF PastInv

\* The cache as it stands, unchanged or emptied for other days.
LEMMA ForFacts ==
  ASSUME PastInv, UNCHANGED <<pastNow, queued, pastRows>>, NEW context \in PastDays!Contexts
  PROVE  LET c == PastDays!For(context) IN
         /\ c \in [renderedFor : PastDays!Contexts \cup {None}, entries : Seq(PastDays!Views)]
         /\ c.renderedFor = context
         /\ Len(c.entries) <= Capacity /\ Distinct(c.entries)
         /\ \A i \in DOMAIN c.entries : Whole(c.entries[i]) /\ c.entries[i].context = context
<1>1. CASE cache.renderedFor = context
  BY <1>1 DEF PastInv, PastDays!TypeOK, PastDays!CacheType, PastDays!For, CacheWhole, Distinct
<1>2. CASE cache.renderedFor # context
  <2> PastDays!For(context) = [renderedFor |-> context, entries |-> <<>>]
    BY <1>2 DEF PastDays!For, PastDays!Emptied
  <2> QED
    BY PastDaysAssumption DEF Distinct
<1> QED
  BY <1>1, <1>2

\* A cache that holds whole views of the days it is for is as it should be.
LEMMA CacheSteps ==
  ASSUME PastInv, UNCHANGED <<pastNow, queued, pastRows>>, NEW context \in PastDays!Contexts,
         NEW entries \in Seq(PastDays!Views),
         cache' = [renderedFor |-> context, entries |-> entries],
         Len(entries) <= Capacity, Distinct(entries),
         \A i \in DOMAIN entries : Whole(entries[i]) /\ entries[i].context = context
  PROVE  PastDays!CacheType' /\ CacheWhole'
<1>1. PastDays!CacheType'
  BY DEF PastDays!CacheType, Distinct
<1>2. \A view : Whole(view) => Whole(view)'
  BY DEF Whole, PastDays!Settled, PastDays!RowsOf
<1> QED
  BY <1>1, <1>2 DEF CacheWhole, Whole, PastDays!Settled, PastDays!RowsOf

LEMMA AskKeepsPast ==
  ASSUME PastInv, NEW r \in Requests, PastDays!Asks(r)
  PROVE  PastInv'
<1>1. PICK day \in 0 .. PastDays!LocalDate(pastNow) - 1 :
        PastDays!Moves(r, [at |-> "asked", day |-> day, now |-> pastNow])
  BY DEF PastDays!Asks
<1>2. pastNow \in Nat /\ PastDays!LocalDate(pastNow) \in Nat
  BY EndOfDay, PastDaysAssumption DEF PastInv, PastDays!TypeOK
<1>3. PastDays!CacheType' /\ CacheWhole'
  BY DEF PastInv, PastDays!TypeOK, PastDays!CacheType, CacheWhole, PastDays!Asks, Whole, PastDays!Settled,
         PastDays!RowsOf
<1>4. [at |-> "asked", day |-> day, now |-> pastNow] \in PastDays!Asked
  BY <1>1, <1>2 DEF PastDays!Asked
<1> QED
  BY <1>1, <1>2, <1>3, <1>4, OneRequest DEF PastDays!Asks, PastInv, PastDays!TypeOK

LEMMA LookKeepsPast ==
  ASSUME PastInv, NEW r \in Requests, PastDays!Looks(r)
  PROVE  PastInv'
<1> DEFINE asked   == request[r]
           context == [today |-> PastDays!LocalDate(asked.now), earliest |-> PastDays!Oldest]
           c       == PastDays!For(context)
           at      == PastDays!Position(c.entries, asked.day)
           hit     == c.entries[at]
           looked  == [at |-> "looked", day |-> asked.day, now |-> asked.now, context |-> context]
           answer  == [at |-> "answered", view |-> hit, context |-> context,
                       has |-> PastDays!RowsOf(hit.day, pastRows)]
<1>1. asked \in PastDays!Asked /\ asked.now <= pastNow
  BY RequestTypes DEF PastInv, Timely, PastDays!Looks
<1>2. context \in PastDays!Contexts
  BY <1>1, EndOfDay, OldestFacts DEF PastInv, PastDays!Asked, PastDays!Contexts
<1>3. /\ UNCHANGED <<pastNow, queued, pastRows, failures>>
      /\ at # 0 => cache' = PastDays!Used(c, asked.day) /\ PastDays!Moves(r, answer)
      /\ at = 0 => cache' = c /\ PastDays!Moves(r, looked)
  BY DEF PastDays!Looks
<1> HIDE DEF context, c
<1>4. /\ c \in [renderedFor : PastDays!Contexts \cup {None}, entries : Seq(PastDays!Views)]
      /\ c.renderedFor = context
      /\ Len(c.entries) <= Capacity /\ Distinct(c.entries)
      /\ \A i \in DOMAIN c.entries : Whole(c.entries[i]) /\ c.entries[i].context = context
  BY <1>2, <1>3, ForFacts DEF c
<1>5. failures' \in 0 .. MaxFailures
  BY <1>3 DEF PastInv, PastDays!TypeOK
<1>6. CASE at = 0
  <2>1. c = [renderedFor |-> context, entries |-> c.entries]
    BY <1>4
  <2>2. PastDays!CacheType' /\ CacheWhole'
    BY <1>2, <1>3, <1>4, <1>6, <2>1, CacheSteps
  <2>3. looked \in PastDays!Looked
    BY <1>1, <1>2 DEF PastDays!Asked, PastDays!Looked
  <2> QED
    BY <1>1, <1>3, <1>5, <1>6, <2>2, <2>3, OneRequest
<1>7. CASE at # 0
  <2> DEFINE others == PastDays!Others(c.entries, asked.day)
             used   == Append(others, hit)
  <2>1. at \in DOMAIN c.entries /\ hit \in PastDays!Views /\ hit.day = asked.day
    BY <1>4, <1>7, PositionFacts
  <2>2. Whole(hit) /\ hit.context = context
    BY <1>4, <2>1
  <2>3. /\ others \in Seq(PastDays!Views) /\ Distinct(others)
        /\ Len(others) = Len(c.entries) - 1
        /\ \A i \in DOMAIN others :
             /\ others[i].day # asked.day
             /\ \E j \in DOMAIN c.entries : others[i] = c.entries[j]
    BY <1>4, <1>7, OthersFacts
  <2>4. cache' = [renderedFor |-> context, entries |-> used]
    BY <1>3, <1>4, <1>7 DEF PastDays!Used
  <2> HIDE DEF others, hit
  <2>5. /\ used \in Seq(PastDays!Views) /\ Len(used) = Len(others) + 1
        /\ \A i \in 1 .. Len(used) : used[i] = IF i <= Len(others) THEN others[i] ELSE hit
    BY <2>1, <2>3
  <2> HIDE DEF used
  <2>6. Distinct(used)
    <3> SUFFICES ASSUME NEW i \in 1 .. Len(used), NEW j \in 1 .. Len(used), used[i].day = used[j].day
                 PROVE  i = j
      BY <2>5 DEF Distinct
    <3>1. DOMAIN others = 1 .. Len(others) /\ Len(others) \in Nat
      BY <2>3
    <3>2. CASE i <= Len(others) /\ j <= Len(others)
      <4>1. i \in DOMAIN others /\ j \in DOMAIN others /\ others[i].day = others[j].day
        BY <2>5, <3>1, <3>2
      <4> QED
        BY <2>3, <4>1 DEF Distinct
    <3>3. \A k \in 1 .. Len(others) : others[k].day # hit.day
      BY <2>1, <2>3, <3>1
    <3> QED
      BY <2>5, <3>1, <3>2, <3>3
  <2>7. \A i \in DOMAIN used : Whole(used[i]) /\ used[i].context = context
    BY <1>4, <2>2, <2>3, <2>5
  <2>8. Len(used) <= Capacity
    BY <1>4, <2>3, <2>5
  <2>9. PastDays!CacheType' /\ CacheWhole'
    BY <1>2, <1>3, <2>4, <2>5, <2>6, <2>7, <2>8, CacheSteps
  <2>10. answer \in PastDays!Answered
    <3>1. answer.has \in SUBSET Nat
      BY RowsTyped DEF PastInv
    <3> QED
      BY <1>2, <2>1, <3>1 DEF PastDays!Answered
  <2>11. answer.has \subseteq answer.view.rows
    BY <2>2 DEF Whole, PastDays!RowsOf
  <2> QED
    BY <1>3, <1>5, <1>7, <2>2, <2>9, <2>10, <2>11, OneRequest
<1> QED
  BY <1>6, <1>7

LEMMA BlindLookKeepsPast ==
  ASSUME PastInv, NEW r \in Requests, PastDays!LooksBlind(r)
  PROVE  PastInv'
<1> DEFINE looked == [at |-> "looked", day |-> request[r].day, now |-> request[r].now, context |-> None]
<1>1. request[r] \in PastDays!Asked /\ request[r].now <= pastNow
  BY RequestTypes DEF PastInv, Timely, PastDays!LooksBlind
<1>2. /\ UNCHANGED <<pastNow, queued, pastRows, cache>> /\ PastDays!Moves(r, looked)
      /\ failures' \in 0 .. MaxFailures
  BY PastDaysAssumption DEF PastDays!LooksBlind, PastInv, PastDays!TypeOK
<1>3. PastDays!CacheType' /\ CacheWhole'
  BY <1>2 DEF PastInv, PastDays!TypeOK, PastDays!CacheType, CacheWhole, Whole, PastDays!Settled, PastDays!RowsOf
<1>4. looked \in PastDays!Looked
  BY <1>1 DEF PastDays!Asked, PastDays!Looked
<1> QED
  BY <1>1, <1>2, <1>3, <1>4, OneRequest

\* Once a day has settled, what the journal has of it is all it will have.
LEMMA ReadsAreWhole ==
  ASSUME PastInv, NEW day \in Nat, NEW at \in Nat, at <= pastNow, PastDays!Settled(day, at),
         NEW view, view.day = day, view.rows = PastDays!RowsOf(day, pastRows)
  PROVE  Whole(view)
<1>1. PastDays!End(day) \in Nat /\ pastNow \in Nat /\ Settle \in Nat
  BY EndOfDay, PastDaysAssumption DEF PastInv, PastDays!TypeOK
<1>2. PastDays!End(day) + Settle <= pastNow
  BY <1>1 DEF PastDays!Settled
<1>3. ASSUME NEW row \in queued PROVE PastDays!LocalDate(row) # day
  <2>1. row \in Nat /\ pastNow - row <= Settle
    BY <1>1 DEF PastInv, PastDays!TypeOK, Behind
  <2> QED
    BY <1>1, <1>2, <2>1, EndOfDay
<1> QED
  BY <1>2, <1>3 DEF Whole, PastDays!Settled, PastDays!RowsOf

LEMMA ReadKeepsPast ==
  ASSUME PastInv, NEW r \in Requests, PastDays!Reads(r)
  PROVE  PastInv'
<1> DEFINE looked  == request[r]
           known   == looked.context
           context == IF known # None THEN known
                      ELSE [today |-> PastDays!LocalDate(looked.now), earliest |-> looked.day]
           view    == [day |-> looked.day, rows |-> PastDays!RowsOf(looked.day, pastRows),
                       context |-> context]
           read    == [at |-> "read", view |-> view]
           answer  == [at |-> "answered", view |-> view, context |-> context, has |-> view.rows]
           keeps   == known # None /\ PastDays!Settled(looked.day, looked.now)
<1>1. looked \in PastDays!Looked /\ looked.now <= pastNow
  BY RequestTypes DEF PastInv, Timely, PastDays!Reads
<1>2. context \in PastDays!Contexts
  BY <1>1, EndOfDay DEF PastDays!Looked, PastDays!Contexts
<1>3. /\ UNCHANGED <<pastNow, queued, pastRows, cache, failures>>
      /\ keeps => PastDays!Moves(r, read)
      /\ ~keeps => PastDays!Moves(r, answer)
  BY DEF PastDays!Reads
<1> HIDE DEF context
<1>4. view.rows \in SUBSET Nat
  BY RowsTyped DEF PastInv
<1>5. view \in PastDays!Views
  BY <1>1, <1>2, <1>4 DEF PastDays!Looked, PastDays!Views
<1>6. /\ failures' \in 0 .. MaxFailures
      /\ PastDays!CacheType' /\ CacheWhole'
  BY <1>3 DEF PastInv, PastDays!TypeOK, PastDays!CacheType, CacheWhole, Whole, PastDays!Settled, PastDays!RowsOf
<1>7. CASE keeps
  <2>1. looked.day \in Nat /\ looked.now \in Nat
    BY <1>1 DEF PastDays!Looked
  <2>2. Whole(view)
    BY <1>1, <1>7, <2>1, ReadsAreWhole
  <2> HIDE DEF view
  <2>3. read \in PastDays!Read
    BY <1>5 DEF PastDays!Read
  <2> QED
    BY <1>3, <1>6, <1>7, <2>2, <2>3, OneRequest
<1>8. CASE ~keeps
  <2>1. view.context = context
    OBVIOUS
  <2> HIDE DEF view
  <2>2. answer \in PastDays!Answered
    BY <1>2, <1>4, <1>5 DEF PastDays!Answered
  <2> QED
    BY <1>3, <1>6, <1>8, <2>1, <2>2, OneRequest
<1> QED
  BY <1>7, <1>8

\* What is put away makes the day's entry, whatever else has been since it was read.
LEMMA KeepKeepsPast ==
  ASSUME PastInv, NEW r \in Requests, PastDays!Keeps(r)
  PROVE  PastInv'
<1> DEFINE view    == request[r].view
           context == view.context
           c       == PastDays!For(context)
           others  == PastDays!Others(c.entries, view.day)
           all     == Append(others, view)
           kept    == SubSeq(all, IF Len(all) > Capacity THEN 2 ELSE 1, Len(all))
           answer  == [at |-> "answered", view |-> view, context |-> context, has |-> view.rows]
<1>1. request[r] \in PastDays!Read /\ Whole(view)
  BY RequestTypes DEF PastInv, ReadsWhole, PastDays!Keeps
<1>2. view \in PastDays!Views /\ context \in PastDays!Contexts /\ view.rows \in SUBSET Nat
  BY <1>1 DEF PastDays!Read, PastDays!Views
<1>3. /\ UNCHANGED <<pastNow, queued, pastRows, failures>>
      /\ cache' = PastDays!Kept(c, view)
      /\ PastDays!Moves(r, answer)
  BY DEF PastDays!Keeps
<1> HIDE DEF view, c
<1>4. /\ c \in [renderedFor : PastDays!Contexts \cup {None}, entries : Seq(PastDays!Views)]
      /\ c.renderedFor = context
      /\ Len(c.entries) <= Capacity /\ Distinct(c.entries)
      /\ \A i \in DOMAIN c.entries : Whole(c.entries[i]) /\ c.entries[i].context = context
  BY <1>2, <1>3, ForFacts DEF c
<1>5. /\ others \in Seq(PastDays!Views) /\ Distinct(others)
      /\ Len(others) <= Len(c.entries)
      /\ \A i \in DOMAIN others :
           /\ others[i].day # view.day
           /\ \E j \in DOMAIN c.entries : others[i] = c.entries[j]
  BY <1>4, OthersFacts
<1>6. cache' = [renderedFor |-> context, entries |-> kept]
  BY <1>3, <1>4 DEF PastDays!Kept
<1> HIDE DEF others
<1>7. /\ all \in Seq(PastDays!Views) /\ Len(all) = Len(others) + 1
      /\ \A i \in 1 .. Len(all) : all[i] = IF i <= Len(others) THEN others[i] ELSE view
  BY <1>2, <1>5
<1> HIDE DEF all
<1>8. Distinct(all)
  <2> SUFFICES ASSUME NEW i \in 1 .. Len(all), NEW j \in 1 .. Len(all), all[i].day = all[j].day
               PROVE  i = j
    BY <1>7 DEF Distinct
  <2>1. DOMAIN others = 1 .. Len(others) /\ Len(others) \in Nat
    BY <1>5
  <2>2. CASE i <= Len(others) /\ j <= Len(others)
    <3>1. i \in DOMAIN others /\ j \in DOMAIN others /\ others[i].day = others[j].day
      BY <1>7, <2>1, <2>2
    <3> QED
      BY <1>5, <3>1 DEF Distinct
  <2>3. \A k \in 1 .. Len(others) : others[k].day # view.day
    BY <1>5, <2>1
  <2> QED
    BY <1>7, <2>1, <2>2, <2>3
<1>9. \A i \in DOMAIN all : Whole(all[i]) /\ all[i].context = context
  <2>1. DOMAIN others = 1 .. Len(others) /\ DOMAIN all = 1 .. Len(all) /\ Len(others) \in Nat
    BY <1>5, <1>7
  <2>2. \A i \in 1 .. Len(others) : Whole(others[i]) /\ others[i].context = context
    BY <1>4, <1>5, <2>1
  <2> QED
    BY <1>1, <1>7, <2>1, <2>2
<1> DEFINE from == IF Len(all) > Capacity THEN 2 ELSE 1
<1>10. /\ kept \in Seq(PastDays!Views) /\ Len(kept) = Len(all) - from + 1
       /\ \A i \in 1 .. Len(kept) : kept[i] = all[from + i - 1]
  <2>1. from \in 1 .. Len(all) /\ Len(all) \in Nat
    BY <1>5, <1>7, PastDaysAssumption
  <2>2. kept = SubSeq(all, from, Len(all))
    OBVIOUS
  <2> HIDE DEF from, kept
  <2> QED
    BY <1>7, <2>1, <2>2, SubSeqProperties
<1> HIDE DEF kept
<1>11. Len(kept) <= Capacity
  BY <1>4, <1>5, <1>7, <1>10, PastDaysAssumption
<1>12. \A i \in 1 .. Len(kept) : from + i - 1 \in DOMAIN all
  BY <1>7, <1>10, PastDaysAssumption
<1>13. Distinct(kept)
  <2> SUFFICES ASSUME NEW i \in 1 .. Len(kept), NEW j \in 1 .. Len(kept), kept[i].day = kept[j].day
               PROVE  i = j
    <3>1. DOMAIN kept = 1 .. Len(kept)
      BY <1>10
    <3> QED
      BY <3>1 DEF Distinct
  <2>1. all[from + i - 1].day = all[from + j - 1].day
    BY <1>10
  <2>2. from + i - 1 = from + j - 1
    BY <1>8, <1>12, <2>1 DEF Distinct
  <2> QED
    BY <1>10, <2>2
<1>14. \A i \in DOMAIN kept : Whole(kept[i]) /\ kept[i].context = context
  BY <1>9, <1>10, <1>12
<1>15. PastDays!CacheType' /\ CacheWhole'
  BY <1>2, <1>3, <1>6, <1>10, <1>11, <1>13, <1>14, CacheSteps
<1>16. failures' \in 0 .. MaxFailures
  BY <1>3 DEF PastInv, PastDays!TypeOK
<1>17. answer \in PastDays!Answered
  BY <1>2 DEF PastDays!Answered
<1> QED
  BY <1>3, <1>15, <1>16, <1>17, OneRequest

\* A request that is over, answered or not.
LEMMA EndKeepsPast ==
  ASSUME PastInv, NEW r \in Requests, PastDays!CannotRead(r) \/ PastDays!Answers(r)
  PROVE  PastInv'
<1>1. /\ UNCHANGED <<pastNow, queued, pastRows, cache>> /\ PastDays!Moves(r, PastDays!Idle)
      /\ failures' \in 0 .. MaxFailures
  BY PastDaysAssumption DEF PastDays!CannotRead, PastDays!Answers, PastInv, PastDays!TypeOK
<1>2. PastDays!CacheType' /\ CacheWhole'
  BY <1>1 DEF PastInv, PastDays!TypeOK, PastDays!CacheType, CacheWhole, Whole, PastDays!Settled, PastDays!RowsOf
<1> QED
  BY <1>1, <1>2, OneRequest DEF PastDays!Idle, PastDays!Idling

-----------------------------------------------------------------------------
(* The past days: the journal and the clock.                                  *)

\* What the live loop and the writer do leaves the requests and the cache alone: a day
\* that has settled gets no row any more.
LEMMA JournalKeepsPast ==
  ASSUME PastInv, UNCHANGED <<cache, request, failures>>,
         pastNow' \in pastNow .. PastDaysNow,
         queued' \subseteq 0 .. pastNow', pastRows' \subseteq 0 .. pastNow', Behind',
         \A row \in (pastRows' \cup queued') \ (pastRows \cup queued) : row = pastNow
  PROVE  PastInv'
<1>1. pastNow \in Nat /\ pastNow' \in Nat /\ Settle \in Nat
  BY PastDaysAssumption DEF PastInv, PastDays!TypeOK
<1>2. PastDays!TypeOK'
  BY <1>1, PastDaysAssumption DEF PastInv, PastDays!TypeOK, PastDays!CacheType
<1>3. ASSUME NEW view \in PastDays!Views, Whole(view)
      PROVE  Whole(view)'
  <2>1. view.day \in Nat
    BY DEF PastDays!Views
  <2>2. PastDays!End(view.day) \in Nat /\ PastDays!End(view.day) + Settle <= pastNow
    BY <1>3, <2>1, EndOfDay DEF Whole, PastDays!Settled
  <2>3. PastDays!LocalDate(pastNow) # view.day
    BY <1>1, <2>1, <2>2, EndOfDay
  <2>4. PastDays!RowsOf(view.day, pastRows' \cup queued') \subseteq view.rows
    BY <1>3, <2>3 DEF Whole, PastDays!RowsOf
  <2> QED
    BY <1>1, <2>2, <2>4 DEF Whole, PastDays!Settled, PastDays!RowsOf, PastDays!End
<1>4. Timely'
  <2>1. ASSUME NEW r \in Requests, request[r].at \in {"asked", "looked"}
        PROVE  request[r].now \in Nat /\ request[r].now <= pastNow
    BY <2>1, RequestTypes DEF PastInv, Timely, PastDays!Asked, PastDays!Looked
  <2> QED
    BY <1>1, <2>1 DEF Timely
<1>5. CacheWhole'
  BY <1>3 DEF PastInv, PastDays!TypeOK, PastDays!CacheType, CacheWhole
<1>6. ReadsWhole'
  <2>1. \A r \in Requests : request[r].at = "read" => request[r].view \in PastDays!Views
    BY RequestTypes DEF PastInv, PastDays!Read
  <2> QED
    BY <1>3, <2>1 DEF PastInv, ReadsWhole
<1>7. PastDays!NothingMissing' /\ PastDays!LinksAreCurrent'
  BY DEF PastInv, PastDays!NothingMissing, PastDays!LinksAreCurrent
<1> QED
  BY <1>2, <1>4, <1>5, <1>6, <1>7 DEF PastInv

LEMMA RecordKeepsPast ==
  ASSUME PastInv, PastDays!Records
  PROVE  PastInv'
<1>1. pastNow \in Nat /\ PastDaysNow \in Nat /\ pastNow <= PastDaysNow /\ Settle \in Nat
  BY PastDaysAssumption DEF PastInv, PastDays!TypeOK
<1>2. Behind'
  BY <1>1 DEF PastInv, Behind, PastDays!Records
<1> QED
  BY <1>1, <1>2, JournalKeepsPast DEF PastInv, PastDays!TypeOK, PastDays!Records

LEMMA WriteKeepsPast ==
  ASSUME PastInv, PastDays!Writes
  PROVE  PastInv'
<1>1. pastNow \in Nat /\ PastDaysNow \in Nat /\ pastNow <= PastDaysNow
  BY PastDaysAssumption DEF PastInv, PastDays!TypeOK
<1>2. queued \in SUBSET Nat /\ queued # {} /\ queued \subseteq 0 .. pastNow /\ pastRows \subseteq 0 .. pastNow
  BY <1>1 DEF PastInv, PastDays!TypeOK, PastDays!Writes
<1>3. PastDays!Min(queued) \in queued
  BY <1>2, MinIsLeast
<1>4. /\ queued' = queued \ {PastDays!Min(queued)}
      /\ pastRows' \subseteq pastRows \cup {PastDays!Min(queued)}
      /\ UNCHANGED <<pastNow, cache, request, failures>>
  BY DEF PastDays!Writes
<1>5. Behind'
  BY <1>4 DEF PastInv, Behind
<1>6. pastRows' \cup queued' \subseteq pastRows \cup queued
  BY <1>3, <1>4
<1>7. pastNow' = pastNow /\ pastNow \in pastNow .. PastDaysNow
  BY <1>1, <1>4
<1>8. queued' \subseteq 0 .. pastNow' /\ pastRows' \subseteq 0 .. pastNow'
  BY <1>2, <1>6, <1>7
<1> QED
  BY <1>4, <1>5, <1>6, <1>7, <1>8, JournalKeepsPast

LEMMA PassKeepsPast ==
  ASSUME PastInv, PastDays!Passes
  PROVE  PastInv'
<1>1. pastNow \in Nat /\ PastDaysNow \in Nat /\ pastNow < PastDaysNow /\ Settle \in Nat
  BY PastDaysAssumption DEF PastInv, PastDays!TypeOK, PastDays!Passes
<1>2. queued \subseteq 0 .. pastNow /\ pastRows \subseteq 0 .. pastNow
  BY DEF PastInv, PastDays!TypeOK
<1>3. /\ pastNow' = pastNow + 1 /\ UNCHANGED <<queued, pastRows, cache, request, failures>>
      /\ \A row \in queued : pastNow - row < Settle
  BY DEF PastDays!Passes
<1>4. Behind'
  BY <1>1, <1>2, <1>3 DEF Behind
<1> QED
  BY <1>1, <1>2, <1>3, <1>4, JournalKeepsPast

-----------------------------------------------------------------------------
(* The theorems.                                                              *)

\* Whichever reader of the records runs, the invariant of the past days is kept.
THEOREM PastInvariance == Spec => []PastInv
<1>1. Init => PastInv
  BY PastInit DEF Init
<1>2. PastInv /\ [Next]_vars => PastInv'
  <2> SUFFICES ASSUME PastInv, [Next]_vars PROVE PastInv'
    OBVIOUS
  <2>1. CASE PastDays!Next
    <3>1. \A r \in Requests :
            PastDays!Asks(r) \/ PastDays!Looks(r) \/ PastDays!LooksBlind(r) \/ PastDays!Reads(r)
              \/ PastDays!CannotRead(r) \/ PastDays!Keeps(r) \/ PastDays!Answers(r) => PastInv'
      BY AskKeepsPast, LookKeepsPast, BlindLookKeepsPast, ReadKeepsPast, EndKeepsPast, KeepKeepsPast
    <3>2. PastDays!Records \/ PastDays!Writes \/ PastDays!Passes => PastInv'
      BY RecordKeepsPast, WriteKeepsPast, PassKeepsPast
    <3> QED
      BY <2>1, <3>1, <3>2 DEF PastDays!Next
  <2>2. CASE UNCHANGED pastVars
    BY <2>2, PastUnchanged
  <2>3. PastDays!Next \/ UNCHANGED pastVars
    BY DEF Next, vars
  <2> QED
    BY <2>1, <2>2, <2>3
<1> QED
  BY <1>1, <1>2, PTL DEF Spec

\* past_days.rs: however requests interleave with the journal's writer, its pruning and
\* midnight, no answer lacks a row the journal has of its day, and its links are those
\* of the days its own request found.
THEOREM CacheIsFresh == Spec => []CacheFresh
<1>1. PastInv => CacheFresh
  BY DEF PastInv, CacheFresh, PastDays!CacheFresh
<1> QED
  BY <1>1, PastInvariance, PTL

-----------------------------------------------------------------------------
(* The efficiency window: what a file gives back.                             *)

Samples == [from : Int, at : Int, unix : Int]
Poll == [at : Int, unix : Int]

Back(x) ==
  [from |-> x.from + (rteNow - Rte!Age(x.unix)) - x.at, at |-> rteNow - Rte!Age(x.unix),
   unix |-> x.unix]
IsBack(x) == Rte!Age(x.unix) \in 0 .. Window

\* r holds those of the first k samples that are put back, in their order.
PutBack(r, s, k) ==
  \E place \in [1 .. Len(r) -> 1 .. k] :
    /\ \A i \in 1 .. Len(r) : IsBack(s[place[i]]) /\ r[i] = Back(s[place[i]])
    /\ \A i, j \in 1 .. Len(r) : i < j => place[i] < place[j]
    /\ \A p \in 1 .. k : IsBack(s[p]) => \E i \in 1 .. Len(r) : place[i] = p

LEMMA BackTypes ==
  ASSUME NEW x \in Samples, rteNow \in Int, offset \in Int
  PROVE  Back(x) \in Samples
BY DEF Samples, Back, Rte!Age, Rte!Wall

\* The recursion of Restored, and what it takes at each sample.
Takes(read, s) ==
  /\ read[0] = <<>>
  /\ \A i \in 1 .. Len(s) : read[i] = IF IsBack(s[i]) THEN Append(read[i - 1], Back(s[i])) ELSE read[i - 1]

LEMMA RestoredReads ==
  ASSUME NEW s \in Seq(Samples), rteNow \in Int, offset \in Int
  PROVE  \E read \in [0 .. Len(s) -> Seq(Samples)] : Takes(read, s) /\ Rte!Restored(s) = read[Len(s)]
<1> DEFINE Taken(i, r) == IF IsBack(s[i]) THEN Append(r, Back(s[i])) ELSE r
           Is(F) == F = [i \in 0 .. Len(s) |-> IF i = 0 THEN <<>> ELSE Taken(i, F[i - 1])]
           step == [p \in (1 .. Len(s)) \X Seq(Samples) |-> Taken(p[1], p[2])]
<1>1. Rte!Restored(s) = (CHOOSE F : Is(F))[Len(s)]
  BY DEF Rte!Restored, Back, IsBack
<1>2. \A i \in 1 .. Len(s), r \in Seq(Samples) : Taken(i, r) \in Seq(Samples)
  <2> SUFFICES ASSUME NEW i \in 1 .. Len(s), NEW r \in Seq(Samples) PROVE Taken(i, r) \in Seq(Samples)
    OBVIOUS
  <2>1. s[i] \in Samples
    OBVIOUS
  <2>2. Back(s[i]) \in Samples
    BY <2>1, BackTypes
  <2> QED
    BY <2>2
<1> HIDE DEF Taken
<1>3. step \in [(1 .. Len(s)) \X Seq(Samples) -> Seq(Samples)]
  BY <1>2
<1>4. \A i \in 1 .. Len(s), r \in Seq(Samples) : step[<<i, r>>] = Taken(i, r)
  OBVIOUS
<1> HIDE DEF step
<1>5. PICK F \in [0 .. Len(s) -> Seq(Samples)] :
        F[0] = <<>> /\ \A i \in 1 .. Len(s) : F[i] = step[<<i, F[i - 1]>>]
  <2>1. PICK n \in Nat : n = Len(s)
    OBVIOUS
  <2>2. PICK S : S = Seq(Samples)
    OBVIOUS
  <2>3. <<>> \in S /\ step \in [(1 .. n) \X S -> S]
    BY <1>3, <2>1, <2>2
  <2>4. \E F \in [0 .. n -> S] : Iterates(F, n, <<>>, step)
    BY <2>3, Recursion
  <2> QED
    BY <2>1, <2>2, <2>4 DEF Iterates
<1>6. Len(s) \in Nat /\ \A i \in 1 .. Len(s) : F[i - 1] \in Seq(Samples)
  <2>1. Len(s) \in Nat
    OBVIOUS
  <2>2. \A i \in 1 .. Len(s) : i - 1 \in 0 .. Len(s)
    BY <2>1
  <2>3. \A i \in 0 .. Len(s) : F[i] \in Seq(Samples)
    OBVIOUS
  <2> QED
    BY <2>1, <2>2, <2>3
<1>7. \A i \in 1 .. Len(s) : F[i] = Taken(i, F[i - 1])
  BY <1>4, <1>5, <1>6
<1>8. Is(F)
  BY <1>5, <1>6, <1>7
<1> DEFINE read == CHOOSE G : Is(G)
<1>9. Is(read)
  <2> HIDE DEF Is
  <2> QED
    BY <1>8
<1>10. read \in [0 .. Len(s) -> Seq(Samples)] /\ Takes(read, s)
  <2>1. \A G : Is(G) => G = F
    <3> SUFFICES ASSUME NEW G, Is(G) PROVE G = F
      OBVIOUS
    <3> DEFINE T == {k \in Nat : k <= Len(s) => G[k] = F[k]}
    <3>1. 0 \in T
      BY <1>5
    <3>2. \A k \in Nat : k \in T => k + 1 \in T
      BY <1>6, <1>7
    <3>3. \A k \in Nat : k \in T
      <4> HIDE DEF T
      <4> QED
        BY <3>1, <3>2, EveryNat
    <3>4. \A k \in 0 .. Len(s) : G[k] = F[k]
      BY <1>6, <3>3
    <3> QED
      BY <1>5, <3>4
  <2>2. read = F
    <3> HIDE DEF Is, read
    <3> QED
      BY <1>9, <2>1
  <2> HIDE DEF read
  <2> QED
    BY <1>5, <1>7, <2>2 DEF Takes, Taken
<1> QED
  BY <1>1, <1>10

LEMMA RestoredFacts ==
  ASSUME NEW s \in Seq(Samples), rteNow \in Int, offset \in Int
  PROVE  /\ Rte!Restored(s) \in Seq(Samples)
         /\ Len(Rte!Restored(s)) <= Len(s)
         /\ PutBack(Rte!Restored(s), s, Len(s))
<1>1. PICK read \in [0 .. Len(s) -> Seq(Samples)] : Takes(read, s) /\ Rte!Restored(s) = read[Len(s)]
  BY RestoredReads
<1> DEFINE Done(k) == Len(read[k]) <= k /\ PutBack(read[k], s, k)
           T == {k \in Nat : k <= Len(s) => Done(k)}
<1>2. 0 \in T
  <2>1. Len(<<>>) = 0 /\ <<>> \in [1 .. 0 -> 1 .. 0]
    OBVIOUS
  <2>2. PutBack(<<>>, s, 0)
    BY <2>1 DEF PutBack
  <2>3. read[0] = <<>>
    BY <1>1 DEF Takes
  <2> QED
    BY <2>1, <2>2, <2>3
<1>3. \A k \in Nat : k \in T => k + 1 \in T
  <2> SUFFICES ASSUME NEW k \in Nat, k + 1 <= Len(s), Done(k) PROVE Done(k + 1)
    OBVIOUS
  <2>1. k \in 0 .. Len(s) /\ k + 1 \in 1 .. Len(s)
    OBVIOUS
  <2>2. PICK r \in Seq(Samples) : r = read[k]
    BY <1>1, <2>1
  <2>3. PICK place \in [1 .. Len(r) -> 1 .. k] :
          /\ \A i \in 1 .. Len(r) : IsBack(s[place[i]]) /\ r[i] = Back(s[place[i]])
          /\ \A i, j \in 1 .. Len(r) : i < j => place[i] < place[j]
          /\ \A p \in 1 .. k : IsBack(s[p]) => \E i \in 1 .. Len(r) : place[i] = p
    BY <2>2 DEF PutBack
  <2>4. Len(r) \in Nat /\ Len(r) <= k
    BY <2>2
  <2>5. read[k + 1] = IF IsBack(s[k + 1]) THEN Append(r, Back(s[k + 1])) ELSE r
    BY <1>1, <2>1, <2>2 DEF Takes
  <2>6. Back(s[k + 1]) \in Samples
    BY <2>1, BackTypes
  <2>7. CASE ~IsBack(s[k + 1])
    <3>1. place \in [1 .. Len(r) -> 1 .. k + 1]
      BY <2>4
    <3>2. \A p \in 1 .. k + 1 : IsBack(s[p]) => \E i \in 1 .. Len(r) : place[i] = p
      BY <2>3, <2>7
    <3>3. PutBack(r, s, k + 1)
      BY <2>3, <3>1, <3>2 DEF PutBack
    <3> QED
      BY <2>4, <2>5, <2>7, <3>3
  <2>8. CASE IsBack(s[k + 1])
    <3>1. PICK q \in Seq(Samples) :
            /\ q = read[k + 1] /\ Len(q) = Len(r) + 1 /\ q[Len(r) + 1] = Back(s[k + 1])
            /\ \A i \in 1 .. Len(r) : q[i] = r[i]
      <4>1. read[k + 1] = Append(r, Back(s[k + 1]))
        BY <2>5, <2>8
      <4>2. \A b \in Samples :
              /\ Append(r, b) \in Seq(Samples) /\ Len(Append(r, b)) = Len(r) + 1
              /\ Append(r, b)[Len(r) + 1] = b /\ \A i \in 1 .. Len(r) : Append(r, b)[i] = r[i]
        BY AppendProperties
      <4> QED
        BY <2>6, <4>1, <4>2
    <3>2. PICK put \in [1 .. Len(q) -> 1 .. k + 1] :
            put[Len(r) + 1] = k + 1 /\ \A i \in 1 .. Len(r) : put[i] = place[i] /\ put[i] \in 1 .. k
      <4> DEFINE put == [i \in 1 .. Len(q) |-> IF i = Len(r) + 1 THEN k + 1 ELSE place[i]]
      <4>1. \A j \in 1 .. Len(r) : place[j] \in 1 .. k
        OBVIOUS
      <4>2. put \in [1 .. Len(q) -> 1 .. k + 1]
        <5> SUFFICES ASSUME NEW i \in 1 .. Len(q)
                     PROVE  (IF i = Len(r) + 1 THEN k + 1 ELSE place[i]) \in 1 .. k + 1
          OBVIOUS
        <5>1. i # Len(r) + 1 => i \in 1 .. Len(r)
          BY <2>4, <3>1
        <5>3. \A p \in 1 .. k : p \in 1 .. k + 1
          OBVIOUS
        <5>4. k + 1 \in 1 .. k + 1
          OBVIOUS
        <5>5. CASE i = Len(r) + 1
          BY <5>4, <5>5
        <5>6. CASE i # Len(r) + 1
          BY <4>1, <5>1, <5>3, <5>6
        <5> QED
          BY <5>5, <5>6
      <4>3. Len(r) + 1 \in 1 .. Len(q) /\ \A i \in 1 .. Len(r) : i \in 1 .. Len(q) /\ i # Len(r) + 1
        BY <2>4, <3>1
      <4> QED
        BY <4>1, <4>2, <4>3
    <3>3. \A i \in 1 .. Len(q) : i = Len(r) + 1 \/ i \in 1 .. Len(r)
      BY <2>4, <3>1
    <3>4. \A i \in 1 .. Len(q) : IsBack(s[put[i]]) /\ q[i] = Back(s[put[i]])
      <4> SUFFICES ASSUME NEW i \in 1 .. Len(q) PROVE IsBack(s[put[i]]) /\ q[i] = Back(s[put[i]])
        OBVIOUS
      <4>1. CASE i = Len(r) + 1
        BY <2>8, <3>1, <3>2, <4>1
      <4>2. CASE i \in 1 .. Len(r)
        BY <2>3, <3>1, <3>2, <4>2
      <4> QED
        BY <3>3, <4>1, <4>2
    <3>5. \A i, j \in 1 .. Len(q) : i < j => put[i] < put[j]
      <4> SUFFICES ASSUME NEW i \in 1 .. Len(q), NEW j \in 1 .. Len(q), i < j PROVE put[i] < put[j]
        OBVIOUS
      <4>1. i \in 1 .. Len(r)
        BY <2>4, <3>3
      <4>2. CASE j = Len(r) + 1
        BY <2>4, <3>2, <4>1, <4>2
      <4>3. CASE j \in 1 .. Len(r)
        BY <2>3, <3>2, <4>1, <4>3
      <4> QED
        BY <3>3, <4>2, <4>3
    <3>6. \A p \in 1 .. k + 1 : IsBack(s[p]) => \E i \in 1 .. Len(q) : put[i] = p
      <4> SUFFICES ASSUME NEW p \in 1 .. k + 1, IsBack(s[p]) PROVE \E i \in 1 .. Len(q) : put[i] = p
        OBVIOUS
      <4>1. Len(r) + 1 \in 1 .. Len(q) /\ \A i \in 1 .. Len(r) : i \in 1 .. Len(q)
        BY <2>4, <3>1
      <4>2. CASE p = k + 1
        BY <3>2, <4>1, <4>2
      <4>3. CASE p \in 1 .. k
        BY <2>3, <3>2, <4>1, <4>3
      <4> QED
        BY <4>2, <4>3
    <3>7. PutBack(q, s, k + 1)
      BY <3>2, <3>4, <3>5, <3>6 DEF PutBack
    <3> QED
      BY <2>4, <3>1, <3>7
  <2> QED
    BY <2>7, <2>8
<1>4. Len(s) \in T
  <2> HIDE DEF T
  <2> QED
    BY <1>2, <1>3, EveryNat
<1> QED
  BY <1>1, <1>4

-----------------------------------------------------------------------------
(* The efficiency window: the order of its samples.                           *)

\* Each sample covers some time, and none of what another covers.
InOrder(s) ==
  /\ \A i \in 1 .. Len(s) : s[i].from < s[i].at
  /\ \A i, j \in 1 .. Len(s) : i < j => s[i].at <= s[j].from
\* Nor is any time between them left out.
Chained(s) == \A i \in 2 .. Len(s) : s[i].from = s[i - 1].at
UpTo(s, at) == \A i \in 1 .. Len(s) : s[i].at <= at
EndsAt(s, at) == s # <<>> => s[Len(s)].at = at
\* Made by a wall clock that far ahead.
AheadBy(s, by) == \A i \in 1 .. Len(s) : s[i].unix = s[i].at + by

LEMMA SampleTypes ==
  ASSUME NEW s \in Seq(Samples)
  PROVE  Len(s) \in Nat /\ \A i \in 1 .. Len(s) : s[i].from \in Int /\ s[i].at \in Int /\ s[i].unix \in Int
<1>1. Len(s) \in Nat /\ \A i \in 1 .. Len(s) : s[i] \in Samples
  OBVIOUS
<1> QED
  BY <1>1 DEF Samples

\* What is pruned is a beginning, up to the first sample that is not too old.
LEMMA PrunedFacts ==
  ASSUME NEW s \in Seq(Samples), NEW cutoff \in Int
  PROVE  \E d \in 0 .. Len(s) :
           /\ Rte!Pruned(s, cutoff) = SubSeq(s, d + 1, Len(s))
           /\ \A i \in 1 .. d : s[i].at < cutoff
           /\ d < Len(s) => s[d + 1].at >= cutoff
<1> DEFINE kept == {i \in 1 .. Len(s) + 1 : \A j \in 1 .. i - 1 : s[j].at < cutoff}
           Ends(i) == i \notin 1 .. Len(s) \/ s[i].at >= cutoff
           first == CHOOSE i \in kept : Ends(i)
           T == {i \in 1 .. Len(s) + 1 : Ends(i)}
<1>1. Len(s) \in Nat /\ \A i \in 1 .. Len(s) : s[i].at \in Int
  BY SampleTypes
<1>2. PICK least \in T : \A i \in T : least <= i
  <2>1. T \in SUBSET Nat /\ Len(s) + 1 \in T
    BY <1>1
  <2> HIDE DEF T
  <2> QED
    BY <2>1, LeastNat
<1>3. least \in kept /\ Ends(least)
  <2>1. least \in 1 .. Len(s) + 1 /\ Ends(least)
    OBVIOUS
  <2>2. ASSUME NEW j \in 1 .. least - 1 PROVE s[j].at < cutoff
    <3>1. j \in 1 .. Len(s) /\ j < least
      BY <1>1, <2>1
    <3>2. j \notin T
      BY <1>2, <3>1
    <3> QED
      BY <1>1, <3>1, <3>2
  <2> HIDE DEF Ends, T
  <2> QED
    BY <2>1, <2>2
<1>4. first \in kept /\ Ends(first)
  <2> HIDE DEF kept, Ends
  <2> QED
    BY <1>3
<1>5. Rte!Pruned(s, cutoff) = SubSeq(s, first, Len(s))
  BY DEF Rte!Pruned
<1> HIDE DEF first
<1>6. first - 1 \in 0 .. Len(s) /\ first - 1 + 1 = first
  BY <1>1, <1>4
<1>7. \A i \in 1 .. first - 1 : s[i].at < cutoff
  BY <1>4
<1>8. first - 1 < Len(s) => s[first].at >= cutoff
  BY <1>1, <1>4
<1> QED
  BY <1>5, <1>6, <1>7, <1>8

LEMMA PrunedKeeps ==
  ASSUME NEW s \in Seq(Samples), NEW cutoff \in Int, NEW p, p = Rte!Pruned(s, cutoff)
  PROVE  /\ p \in Seq(Samples) /\ Len(p) <= Len(s)
         /\ InOrder(s) => InOrder(p) /\ \A i \in 1 .. Len(p) : p[i].at >= cutoff
         /\ Chained(s) => Chained(p)
         /\ \A at \in Int : /\ UpTo(s, at) => UpTo(p, at)
                            /\ AheadBy(s, at) => AheadBy(p, at)
                            /\ EndsAt(s, at) => EndsAt(p, at)
                            /\ UpTo(s, at) /\ at < cutoff => p = <<>>
<1>1. PICK d \in 0 .. Len(s) :
        /\ p = SubSeq(s, d + 1, Len(s))
        /\ \A i \in 1 .. d : s[i].at < cutoff
        /\ d < Len(s) => s[d + 1].at >= cutoff
  BY PrunedFacts
<1>2. Len(s) \in Nat /\ \A i \in 1 .. Len(s) : s[i].from \in Int /\ s[i].at \in Int /\ s[i].unix \in Int
  BY SampleTypes
<1>3. /\ p \in Seq(Samples) /\ Len(p) = Len(s) - d
      /\ \A i \in 1 .. Len(p) : d + i \in 1 .. Len(s) /\ p[i] = s[d + i]
  BY <1>1, <1>2, SubSeqProperties
<1>4. \A i \in 2 .. Len(p) : d + i \in 2 .. Len(s) /\ i - 1 \in 1 .. Len(p) /\ d + (i - 1) = (d + i) - 1
  BY <1>1, <1>2, <1>3
<1>5. Chained(s) => Chained(p)
  <2> SUFFICES ASSUME Chained(s), NEW i \in 2 .. Len(p) PROVE p[i].from = p[i - 1].at
    BY DEF Chained
  <2>1. PICK k \in 2 .. Len(s) : k = d + i /\ k - 1 = d + (i - 1) /\ i - 1 \in 1 .. Len(p) /\ i \in 1 .. Len(p)
    BY <1>3, <1>4
  <2>2. p[i] = s[k] /\ p[i - 1] = s[k - 1]
    BY <1>3, <2>1
  <2>3. s[k].from = s[k - 1].at
    BY DEF Chained
  <2> QED
    BY <2>2, <2>3
<1>6. InOrder(s) => InOrder(p)
  BY <1>1, <1>2, <1>3 DEF InOrder
<1>7. ASSUME InOrder(s), NEW i \in 1 .. Len(p) PROVE p[i].at >= cutoff
  <2>1. d < Len(s) /\ d + 1 \in 1 .. Len(s) /\ d + i \in 1 .. Len(s)
    <3>1. i \in 1 .. Len(s) - d
      BY <1>3
    <3> QED
      BY <1>1, <1>2, <3>1
  <2>2. s[d + i].at >= s[d + 1].at
    <3>1. CASE i = 1
      BY <1>2, <2>1, <3>1
    <3>2. CASE i > 1
      <4>1. s[d + 1].at <= s[d + i].from /\ s[d + i].from < s[d + i].at
        BY <1>1, <1>2, <1>7, <2>1, <3>2 DEF InOrder
      <4> QED
        BY <1>2, <2>1, <4>1
    <3> QED
      BY <3>1, <3>2
  <2> QED
    BY <1>1, <1>2, <1>3, <2>1, <2>2
<1>8. ASSUME NEW at \in Int
      PROVE  /\ UpTo(s, at) => UpTo(p, at)
             /\ AheadBy(s, at) => AheadBy(p, at)
             /\ EndsAt(s, at) => EndsAt(p, at)
             /\ UpTo(s, at) /\ at < cutoff => p = <<>>
  <2>1. UpTo(s, at) => UpTo(p, at)
    BY <1>3 DEF UpTo
  <2>2. AheadBy(s, at) => AheadBy(p, at)
    BY <1>3 DEF AheadBy
  <2>3. EndsAt(s, at) => EndsAt(p, at)
    <3> SUFFICES ASSUME EndsAt(s, at), p # <<>> PROVE p[Len(p)].at = at
      BY DEF EndsAt
    <3>1. Len(p) \in 1 .. Len(p) /\ d + Len(p) = Len(s) /\ s # <<>>
      BY <1>1, <1>2, <1>3
    <3> QED
      BY <1>3, <3>1 DEF EndsAt
  <2>4. ASSUME UpTo(s, at), at < cutoff PROVE p = <<>>
    <3>1. d < Len(s) => d + 1 \in 1 .. Len(s)
      BY <1>2
    <3>2. ~(d < Len(s))
      BY <1>1, <1>2, <2>4, <3>1 DEF UpTo
    <3>3. Len(p) = 0
      BY <1>2, <1>3, <3>2
    <3> QED
      BY <1>3, <3>3
  <2> QED
    BY <2>1, <2>2, <2>3, <2>4
<1>9. Len(p) <= Len(s)
  BY <1>1, <1>2, <1>3
<1> QED
  BY <1>3, <1>5, <1>6, <1>7, <1>8, <1>9

\* Put back by clocks that both went on, samples keep their distances.
LEMMA PutBackKeeps ==
  ASSUME NEW s \in Seq(Samples), NEW r \in Seq(Samples), PutBack(r, s, Len(s)),
         rteNow \in Int, offset \in Int, Window \in Nat, NEW by \in Int, AheadBy(s, by)
  PROVE  /\ AheadBy(r, offset) /\ UpTo(r, rteNow)
         /\ InOrder(s) => InOrder(r)
         /\ \A at \in Int : UpTo(s, at) => UpTo(r, at + by - offset)
         /\ by = offset /\ InOrder(s) /\ UpTo(s, rteNow) /\ Chained(s) => Chained(r)
         /\ \A at \in Int :
              by = offset /\ EndsAt(s, at) /\ rteNow - at \in 0 .. Window => EndsAt(r, at)
<1>1. PICK place \in [1 .. Len(r) -> 1 .. Len(s)] :
        /\ \A i \in 1 .. Len(r) : IsBack(s[place[i]]) /\ r[i] = Back(s[place[i]])
        /\ \A i, j \in 1 .. Len(r) : i < j => place[i] < place[j]
        /\ \A p \in 1 .. Len(s) : IsBack(s[p]) => \E i \in 1 .. Len(r) : place[i] = p
  BY DEF PutBack
<1>2. /\ Len(s) \in Nat /\ \A i \in 1 .. Len(s) : s[i].from \in Int /\ s[i].at \in Int /\ s[i].unix \in Int
      /\ Len(r) \in Nat /\ \A i \in 1 .. Len(r) : r[i].from \in Int /\ r[i].at \in Int /\ r[i].unix \in Int
  BY SampleTypes
<1>3. \A i \in 1 .. Len(r) : place[i] \in 1 .. Len(s)
  OBVIOUS
<1>4. \A i \in 1 .. Len(s) : IsBack(s[i]) <=> rteNow + offset - s[i].at - by \in 0 .. Window
  <2> SUFFICES ASSUME NEW i \in 1 .. Len(s)
               PROVE  IsBack(s[i]) <=> rteNow + offset - s[i].at - by \in 0 .. Window
    OBVIOUS
  <2>1. PICK at \in Int, unix \in Int : at = s[i].at /\ unix = s[i].unix /\ unix = at + by
    BY <1>2 DEF AheadBy
  <2>2. PICK age \in Int : age = rteNow + offset - unix
    OBVIOUS
  <2>3. age = rteNow + offset - at - by
    BY <2>1, <2>2
  <2>4. Rte!Age(s[i].unix) = age
    BY <2>1, <2>2 DEF Rte!Age, Rte!Wall
  <2>5. IsBack(s[i]) <=> age \in 0 .. Window
    BY <2>4 DEF IsBack
  <2>6. rteNow + offset - s[i].at - by = age
    BY <2>1, <2>3
  <2> QED
    BY <2>5, <2>6
<1>5. ASSUME NEW i \in 1 .. Len(r)
      PROVE  /\ r[i].from = s[place[i]].from + by - offset
             /\ r[i].at = s[place[i]].at + by - offset
             /\ r[i].unix = r[i].at + offset
             /\ r[i].at <= rteNow
  <2>1. PICK p \in 1 .. Len(s) : p = place[i]
    BY <1>3
  <2>2. s[p].from \in Int /\ s[p].at \in Int /\ s[p].unix \in Int /\ s[p].unix = s[p].at + by
    BY <1>2 DEF AheadBy
  <2>3. Rte!Age(s[p].unix) = rteNow + offset - s[p].unix
    BY <2>2 DEF Rte!Age, Rte!Wall
  <2>4. r[i] = Back(s[p]) /\ Rte!Age(s[p].unix) \in 0 .. Window
    BY <1>1, <2>1 DEF IsBack
  <2>5. /\ r[i].from = s[p].from + (rteNow - Rte!Age(s[p].unix)) - s[p].at
        /\ r[i].at = rteNow - Rte!Age(s[p].unix) /\ r[i].unix = s[p].unix
    BY <2>4 DEF Back
  <2>6. rteNow + offset - s[p].unix >= 0
    BY <2>2, <2>3, <2>4
  <2>7. /\ r[i].from = s[p].from + (rteNow - (rteNow + offset - s[p].unix)) - s[p].at
        /\ r[i].at = rteNow - (rteNow + offset - s[p].unix) /\ r[i].unix = s[p].unix
    BY <2>3, <2>5
  <2>8. /\ r[i].from = s[p].from + by - offset /\ r[i].at = s[p].at + by - offset
        /\ r[i].unix = r[i].at + offset /\ r[i].at <= rteNow
    <3>1. PICK from \in Int, at \in Int, unix \in Int :
            s[p].from = from /\ s[p].at = at /\ s[p].unix = unix /\ unix = at + by
      BY <2>2
    <3>2. /\ r[i].from = from + (rteNow - (rteNow + offset - unix)) - at
          /\ r[i].at = rteNow - (rteNow + offset - unix) /\ r[i].unix = unix
      BY <2>7, <3>1
    <3>3. rteNow + offset - unix >= 0
      BY <2>6, <3>1
    <3>4. from + (rteNow - (rteNow + offset - unix)) - at = from + by - offset
      BY <3>1
    <3>5. rteNow - (rteNow + offset - unix) = at + by - offset
      BY <3>1
    <3>6. unix = at + by - offset + offset /\ at + by - offset <= rteNow
      BY <3>1, <3>3
    <3> QED
      BY <3>1, <3>2, <3>4, <3>5, <3>6
  <2> QED
    BY <2>1, <2>8
<1>6. AheadBy(r, offset) /\ UpTo(r, rteNow)
  BY <1>5 DEF AheadBy, UpTo
<1>7. ASSUME InOrder(s) PROVE InOrder(r)
  <2>1. ASSUME NEW i \in 1 .. Len(r) PROVE r[i].from < r[i].at
    <3>1. s[place[i]].from < s[place[i]].at
      BY <1>3, <1>7 DEF InOrder
    <3>2. PICK at \in Int, from \in Int : at = s[place[i]].at /\ from = s[place[i]].from
      BY <1>2, <1>3
    <3>3. PICK v \in Int, w \in Int : v = at + by - offset /\ w = from + by - offset
      OBVIOUS
    <3>4. r[i].at = v /\ r[i].from = w
      BY <1>5, <3>2, <3>3
    <3>5. w < v
      BY <3>1, <3>2, <3>3
    <3> QED
      BY <3>4, <3>5
  <2>2. ASSUME NEW i \in 1 .. Len(r), NEW j \in 1 .. Len(r), i < j PROVE r[i].at <= r[j].from
    <3>1. s[place[i]].at <= s[place[j]].from
      BY <1>1, <1>3, <1>7, <2>2 DEF InOrder
    <3>2. PICK at \in Int, from \in Int : at = s[place[i]].at /\ from = s[place[j]].from
      BY <1>2, <1>3
    <3>3. PICK v \in Int, w \in Int : v = at + by - offset /\ w = from + by - offset
      OBVIOUS
    <3>4. r[i].at = v /\ r[j].from = w
      BY <1>5, <3>2, <3>3
    <3>5. at <= from
      BY <3>1, <3>2
    <3>6. v <= w
      BY <3>3, <3>5
    <3> QED
      BY <3>4, <3>6
  <2> QED
    BY <2>1, <2>2 DEF InOrder
<1>8. \A at \in Int : UpTo(s, at) => UpTo(r, at + by - offset)
  <2> SUFFICES ASSUME NEW at \in Int, UpTo(s, at), NEW i \in 1 .. Len(r)
               PROVE  r[i].at <= at + by - offset
    BY DEF UpTo
  <2>1. s[place[i]].at <= at
    BY <1>3 DEF UpTo
  <2>2. PICK was \in Int : was = s[place[i]].at
    BY <1>2, <1>3
  <2>3. r[i].at = was + by - offset
    BY <1>5, <2>2
  <2> QED
    BY <2>1, <2>2, <2>3
<1>9. ASSUME by = offset, InOrder(s), UpTo(s, rteNow), Chained(s) PROVE Chained(r)
  <2> SUFFICES ASSUME NEW i \in 2 .. Len(r) PROVE r[i].from = r[i - 1].at
    BY DEF Chained
  <2>1. i \in 1 .. Len(r) /\ i - 1 \in 1 .. Len(r) /\ i - 1 < i
    BY <1>2
  <2>2. PICK p \in 1 .. Len(s) : p = place[i]
    BY <1>3, <2>1
  <2>3. PICK q \in 1 .. Len(s) : q = place[i - 1]
    BY <1>3, <2>1
  <2>4. q < p
    BY <1>1, <2>1, <2>2, <2>3
  <2>5. ASSUME q # p - 1 PROVE FALSE
    <3>1. p - 1 \in 1 .. Len(s) /\ q < p - 1
      <4>1. PICK n \in Nat : n = Len(s)
        BY <1>2
      <4>2. p \in 1 .. n /\ q \in 1 .. n
        BY <4>1
      <4>3. q < p - 1 /\ p - 1 \in 1 .. n
        BY <2>4, <2>5, <4>2
      <4> QED
        BY <4>1, <4>3
    <3>2. s[q].at <= s[p - 1].from /\ s[p - 1].from < s[p - 1].at /\ s[p - 1].at <= rteNow
      <4>1. q \in 1 .. Len(s) /\ p - 1 \in 1 .. Len(s)
        BY <3>1
      <4>2. s[p - 1].at <= rteNow
        BY <1>9, <4>1 DEF UpTo
      <4>3. s[q].at <= s[p - 1].from /\ s[p - 1].from < s[p - 1].at
        BY <1>9, <3>1, <4>1 DEF InOrder
      <4> QED
        BY <4>2, <4>3
    <3>3. rteNow + offset - s[q].at - by \in 0 .. Window
      BY <1>1, <1>4, <2>1, <2>3
    <3>4. IsBack(s[p - 1])
      <4>1. PICK late \in Int, early \in Int, begun \in Int :
              late = s[p - 1].at /\ early = s[q].at /\ begun = s[p - 1].from
        BY <1>2, <3>1
      <4>2. early <= begun /\ begun < late /\ late <= rteNow
        BY <3>2, <4>1
      <4>3. rteNow + offset - early - by \in 0 .. Window /\ by = offset
        BY <1>9, <3>3, <4>1
      <4>4. rteNow + offset - early - by = rteNow - early
        BY <4>3
      <4>5. rteNow - early <= Window
        BY <4>3, <4>4
      <4>6. rteNow - late \in 0 .. Window
        BY <4>2, <4>5
      <4>7. rteNow + offset - late - by = rteNow - late
        BY <4>3
      <4>8. rteNow + offset - s[p - 1].at - by \in 0 .. Window
        BY <4>1, <4>6, <4>7
      <4> QED
        BY <1>4, <3>1, <4>8
    <3>5. PICK k \in 1 .. Len(r) : place[k] = p - 1
      BY <1>1, <3>1, <3>4
    <3>6. k < i
      <4>1. CASE k = i
        BY <2>2, <3>5, <4>1
      <4>2. CASE i < k
        <5>1. place[i] < place[k]
          BY <1>1, <2>1, <4>2
        <5> QED
          BY <2>2, <3>5, <5>1
      <4> QED
        BY <1>2, <2>1, <4>1, <4>2
    <3>7. i - 1 < k
      <4>1. CASE k = i - 1
        BY <2>3, <3>1, <3>5, <4>1
      <4>2. CASE k < i - 1
        <5>1. place[k] < place[i - 1]
          BY <1>1, <2>1, <4>2
        <5> QED
          BY <2>3, <3>1, <3>5, <5>1
      <4> QED
        BY <1>2, <2>1, <4>1, <4>2
    <3> QED
      BY <1>2, <3>6, <3>7
  <2>6. s[p].from = s[q].at
    <3>1. p \in 2 .. Len(s) /\ q = p - 1
      BY <1>2, <2>4, <2>5
    <3> QED
      BY <1>9, <3>1 DEF Chained
  <2>7. r[i].from = s[p].from + by - offset /\ r[i - 1].at = s[q].at + by - offset
    BY <1>5, <2>1, <2>2, <2>3
  <2> QED
    BY <2>6, <2>7
<1>10. ASSUME NEW at \in Int, by = offset, EndsAt(s, at), rteNow - at \in 0 .. Window PROVE EndsAt(r, at)
  <2> SUFFICES ASSUME r # <<>> PROVE r[Len(r)].at = at
    BY DEF EndsAt
  <2>1. Len(r) \in 1 .. Len(r) /\ place[Len(r)] \in 1 .. Len(s)
    BY <1>2, <1>3
  <2>2. s # <<>> /\ Len(s) \in 1 .. Len(s)
    BY <1>2, <2>1
  <2>3. s[Len(s)].at = at
    BY <1>10, <2>2 DEF EndsAt
  <2>4. IsBack(s[Len(s)])
    <3>1. rteNow + offset - s[Len(s)].at - by \in 0 .. Window
      BY <1>10, <2>3
    <3> QED
      BY <1>4, <2>2, <3>1
  <2>5. PICK k \in 1 .. Len(r) : place[k] = Len(s)
    BY <1>1, <2>2, <2>4
  <2>6. k = Len(r)
    <3> SUFFICES ASSUME k < Len(r) PROVE FALSE
      BY <1>2
    <3>1. place[k] < place[Len(r)]
      BY <1>1, <2>1
    <3> QED
      BY <1>2, <2>1, <2>5, <3>1
  <2> QED
    BY <1>2, <1>5, <1>10, <2>1, <2>3, <2>5, <2>6
<1> QED
  BY <1>6, <1>7, <1>8, <1>9, <1>10

LEMMA AppendKeeps ==
  ASSUME NEW s \in Seq(Samples), NEW x \in Samples, NEW t, t = Append(s, x)
  PROVE  /\ t \in Seq(Samples) /\ Len(t) = Len(s) + 1
         /\ InOrder(s) /\ x.from < x.at /\ UpTo(s, x.from) => InOrder(t)
         /\ Chained(s) /\ EndsAt(s, x.from) => Chained(t)
         /\ EndsAt(t, x.at)
         /\ \A at \in Int : UpTo(s, at) /\ x.at <= at => UpTo(t, at)
         /\ \A by \in Int : AheadBy(s, by) /\ x.unix = x.at + by => AheadBy(t, by)
<1>1. Len(s) \in Nat /\ \A i \in 1 .. Len(s) : s[i].from \in Int /\ s[i].at \in Int /\ s[i].unix \in Int
  BY SampleTypes
<1>2. /\ t \in Seq(Samples) /\ Len(t) = Len(s) + 1
      /\ t[Len(s) + 1] = x /\ \A i \in 1 .. Len(s) : t[i] = s[i]
  BY AppendProperties
<1>3. \A i \in 1 .. Len(t) : i \in 1 .. Len(s) \/ i = Len(s) + 1
  BY <1>1, <1>2
<1>4. x.from \in Int /\ x.at \in Int /\ x.unix \in Int
  BY DEF Samples
<1>5. ASSUME InOrder(s), x.from < x.at, UpTo(s, x.from) PROVE InOrder(t)
  <2>1. \A i \in 1 .. Len(t) : t[i].from < t[i].at
    BY <1>2, <1>3, <1>5 DEF InOrder
  <2>2. ASSUME NEW i \in 1 .. Len(t), NEW j \in 1 .. Len(t), i < j PROVE t[i].at <= t[j].from
    <3>1. i \in 1 .. Len(s)
      BY <1>1, <1>2, <2>2
    <3>2. CASE j = Len(s) + 1
      BY <1>2, <1>5, <3>1, <3>2 DEF UpTo
    <3>3. CASE j \in 1 .. Len(s)
      BY <1>2, <1>5, <2>2, <3>1, <3>3 DEF InOrder
    <3> QED
      BY <1>3, <3>2, <3>3
  <2> QED
    BY <2>1, <2>2 DEF InOrder
<1>6. ASSUME Chained(s), EndsAt(s, x.from) PROVE Chained(t)
  <2> SUFFICES ASSUME NEW i \in 2 .. Len(t) PROVE t[i].from = t[i - 1].at
    BY DEF Chained
  <2>1. i - 1 \in 1 .. Len(s)
    BY <1>1, <1>2
  <2>2. CASE i = Len(s) + 1
    <3>1. i - 1 = Len(s) /\ s # <<>>
      BY <1>1, <2>1, <2>2
    <3> QED
      BY <1>2, <1>6, <2>1, <2>2, <3>1 DEF EndsAt
  <2>3. CASE i \in 2 .. Len(s)
    <3>1. i \in 1 .. Len(s)
      BY <2>3
    <3> QED
      BY <1>2, <1>6, <2>1, <2>3, <3>1 DEF Chained
  <2> QED
    BY <1>1, <1>2, <2>2, <2>3
<1>7. EndsAt(t, x.at)
  BY <1>2 DEF EndsAt
<1>8. \A at \in Int : UpTo(s, at) /\ x.at <= at => UpTo(t, at)
  BY <1>2, <1>3 DEF UpTo
<1>9. \A by \in Int : AheadBy(s, by) /\ x.unix = x.at + by => AheadBy(t, by)
  BY <1>2, <1>3 DEF AheadBy
<1> QED
  BY <1>2, <1>5, <1>6, <1>7, <1>8, <1>9

-----------------------------------------------------------------------------
(* The efficiency window: the invariant.                                      *)

RteTypes ==
  /\ rteNow \in 0 .. RteNow /\ started \in 0 .. rteNow
  /\ offset \in Int /\ rteSteps \in 0 .. RteSteps /\ -2 * rteSteps <= offset /\ offset <= 2 * rteSteps
  /\ up \in {"running", "saving", "down"}
  /\ samples \in Seq(Samples) /\ last \in {None} \cup Poll
  /\ Rte!Readable => file.samples \in Seq(Samples) /\ file.last \in Poll /\ DOMAIN file = {"samples", "last"}
  /\ rteStepped \subseteq {"running", "down"} /\ crashes \in 0 .. MaxCrashes

\* A file is torn from the poll it is written after.
Saving == up = "saving" => file = Torn /\ last # None /\ last.at = rteNow

\* There is a sample for a moment at most, so one less before the next poll.
Few ==
  /\ Len(samples) <= rteNow /\ (Rte!Readable => Len(file.samples) <= rteNow)
  /\ up = "running" /\ started < rteNow /\ last # None /\ last.at < rteNow => Len(samples) < rteNow

\* Unless the clock was set under a running process: those held are in order and by
\* one clock, and so are those saved, by the clock they were saved with.
HeldInOrder ==
  /\ InOrder(samples) /\ UpTo(samples, rteNow)
  /\ last # None => UpTo(samples, last.at) /\ last.at <= rteNow
  /\ up # "down" => AheadBy(samples, offset) /\ (last # None => last.unix = last.at + offset)
SavedInOrder ==
  Rte!Readable =>
    InOrder(file.samples) /\ UpTo(file.samples, file.last.at)
      /\ AheadBy(file.samples, file.last.unix - file.last.at)

\* Unless it was set at all: no time is left out, up to the last poll, and where that
\* is too long ago to go on from, so are the samples.
HeldChained ==
  /\ offset = 0
  /\ Chained(samples) /\ (last # None => EndsAt(samples, last.at))
  /\ up # "down" /\ last = None => UpTo(samples, started - Window)
SavedChained ==
  Rte!Readable =>
    /\ Chained(file.samples) /\ EndsAt(file.samples, file.last.at)
    /\ file.last.unix = file.last.at /\ file.last.at <= rteNow

RteInv ==
  /\ RteTypes /\ Saving /\ Few
  /\ "running" \notin rteStepped => HeldInOrder /\ SavedInOrder
  /\ rteStepped = {} => HeldChained /\ SavedChained

LEMMA NoSamples ==
  /\ <<>> \in Seq(Samples) /\ Len(<<>>) = 0
  /\ InOrder(<<>>) /\ Chained(<<>>)
  /\ \A at \in Int : UpTo(<<>>, at) /\ AheadBy(<<>>, at) /\ EndsAt(<<>>, at)
BY DEF InOrder, Chained, UpTo, AheadBy, EndsAt

LEMMA RteInit == Rte!Init => RteInv
<1> SUFFICES ASSUME Rte!Init PROVE RteInv
  OBVIOUS
<1>1. RteTypes /\ Saving /\ Few
  BY NoSamples, RteAssumption DEF Rte!Init, RteTypes, Saving, Few, Rte!Readable
<1>2. HeldInOrder /\ SavedInOrder
  BY NoSamples DEF Rte!Init, HeldInOrder, SavedInOrder, Rte!Readable
<1>3. HeldChained /\ SavedChained
  <2>1. started - Window \in Int
    BY RteAssumption DEF Rte!Init
  <2> QED
    BY <2>1, NoSamples DEF Rte!Init, HeldChained, SavedChained, Rte!Readable
<1> QED
  BY <1>1, <1>2, <1>3 DEF RteInv

\* What a poll leaves, in order and within the window.
LEMMA PollFacts ==
  ASSUME RteInv, Rte!Polls
  PROVE  /\ samples' \in Seq(Samples) /\ Len(samples') <= rteNow
         /\ "running" \notin rteStepped =>
              /\ InOrder(samples') /\ UpTo(samples', rteNow) /\ AheadBy(samples', offset)
              /\ \A i \in 1 .. Len(samples') : samples'[i].at >= rteNow - Window
         /\ rteStepped = {} => Chained(samples') /\ EndsAt(samples', rteNow)
<1>1. /\ rteNow \in Int /\ offset \in Int /\ started \in Int /\ Window \in Nat /\ samples \in Seq(Samples)
      /\ last = None \/ (last # None /\ last \in Poll /\ last.at \in Int /\ last.unix \in Int)
      /\ Len(samples) \in Nat
  BY RteAssumption DEF RteInv, RteTypes, Poll
<1>2. up = "running" /\ started < rteNow /\ (last # None => last.at < rteNow) /\ rteNow - Window \in Int
  BY <1>1 DEF Rte!Polls
<1>3. CASE last = None
  <2>1. samples' = Rte!Pruned(samples, rteNow - Window)
    BY <1>3 DEF Rte!Polls
  <2>2. /\ samples' \in Seq(Samples) /\ Len(samples') <= Len(samples)
        /\ InOrder(samples) => InOrder(samples') /\ \A i \in 1 .. Len(samples') : samples'[i].at >= rteNow - Window
        /\ \A at \in Int : /\ UpTo(samples, at) => UpTo(samples', at)
                           /\ AheadBy(samples, at) => AheadBy(samples', at)
                           /\ UpTo(samples, at) /\ at < rteNow - Window => samples' = <<>>
    BY <1>1, <1>2, <2>1, PrunedKeeps
  <2>3. Len(samples') <= rteNow
    BY <1>1, <2>2 DEF RteInv, Few
  <2>4. ASSUME "running" \notin rteStepped
        PROVE  /\ InOrder(samples') /\ UpTo(samples', rteNow) /\ AheadBy(samples', offset)
               /\ \A i \in 1 .. Len(samples') : samples'[i].at >= rteNow - Window
    BY <1>1, <1>2, <2>2, <2>4 DEF RteInv, HeldInOrder
  <2>5. ASSUME rteStepped = {} PROVE Chained(samples') /\ EndsAt(samples', rteNow)
    <3>1. UpTo(samples, started - Window)
      BY <1>2, <1>3, <2>5 DEF RteInv, HeldChained
    <3>2. started - Window \in Int /\ started - Window < rteNow - Window
      BY <1>1, <1>2
    <3>3. samples' = <<>>
      BY <2>2, <3>1, <3>2
    <3> QED
      BY <1>1, <3>3, NoSamples
  <2> QED
    BY <2>2, <2>3, <2>4, <2>5
<1>4. CASE last # None
  <2> DEFINE x == [from |-> last.at, at |-> rteNow, unix |-> rteNow + offset]
             t == Append(samples, x)
  <2>1. x \in Samples /\ x.from = last.at /\ x.at = rteNow /\ x.unix = rteNow + offset
    BY <1>1, <1>4 DEF Samples
  <2>2. samples' = Rte!Pruned(t, rteNow - Window)
    BY <1>4 DEF Rte!Polls, Rte!Covering, Rte!Wall
  <2> HIDE DEF x
  <2>3. /\ t \in Seq(Samples) /\ Len(t) = Len(samples) + 1
        /\ InOrder(samples) /\ last.at < rteNow /\ UpTo(samples, last.at) => InOrder(t)
        /\ Chained(samples) /\ EndsAt(samples, last.at) => Chained(t)
        /\ EndsAt(t, rteNow)
        /\ UpTo(samples, rteNow) => UpTo(t, rteNow)
        /\ AheadBy(samples, offset) => AheadBy(t, offset)
    <3>1. PICK y \in Samples : y = x
      BY <2>1
    <3>2. PICK v : v = Append(samples, y)
      OBVIOUS
    <3>3. /\ v \in Seq(Samples) /\ Len(v) = Len(samples) + 1
          /\ InOrder(samples) /\ y.from < y.at /\ UpTo(samples, y.from) => InOrder(v)
          /\ Chained(samples) /\ EndsAt(samples, y.from) => Chained(v)
          /\ EndsAt(v, y.at)
          /\ \A at \in Int : UpTo(samples, at) /\ y.at <= at => UpTo(v, at)
          /\ \A by \in Int : AheadBy(samples, by) /\ y.unix = y.at + by => AheadBy(v, by)
      BY <1>1, <3>1, <3>2, AppendKeeps
    <3>4. y.from = last.at /\ y.at = rteNow /\ y.unix = rteNow + offset /\ v = t /\ rteNow <= rteNow
      BY <1>1, <2>1, <3>1, <3>2
    <3> QED
      BY <1>1, <3>3, <3>4
  <2> HIDE DEF t
  <2>4. /\ samples' \in Seq(Samples) /\ Len(samples') <= Len(t)
        /\ InOrder(t) => InOrder(samples') /\ \A i \in 1 .. Len(samples') : samples'[i].at >= rteNow - Window
        /\ Chained(t) => Chained(samples')
        /\ UpTo(t, rteNow) => UpTo(samples', rteNow)
        /\ AheadBy(t, offset) => AheadBy(samples', offset)
        /\ EndsAt(t, rteNow) => EndsAt(samples', rteNow)
    BY <1>1, <1>2, <2>2, <2>3, PrunedKeeps
  <2>5. Len(samples') <= rteNow
    <3>1. Len(samples) < rteNow
      BY <1>2, <1>4 DEF RteInv, Few
    <3>2. Len(samples') \in Nat
      BY <2>4
    <3> QED
      BY <1>1, <2>3, <2>4, <3>1, <3>2
  <2>6. ASSUME "running" \notin rteStepped
        PROVE  /\ InOrder(samples') /\ UpTo(samples', rteNow) /\ AheadBy(samples', offset)
               /\ \A i \in 1 .. Len(samples') : samples'[i].at >= rteNow - Window
    BY <1>2, <1>4, <2>3, <2>4, <2>6 DEF RteInv, HeldInOrder
  <2>7. ASSUME rteStepped = {} PROVE Chained(samples') /\ EndsAt(samples', rteNow)
    BY <1>4, <2>3, <2>4, <2>7 DEF RteInv, HeldChained
  <2> QED
    BY <2>4, <2>5, <2>6, <2>7
<1> QED
  BY <1>3, <1>4

LEMMA PollsKeep == RteInv /\ Rte!Polls => RteInv'
<1> SUFFICES ASSUME RteInv, Rte!Polls PROVE RteInv'
  OBVIOUS
<1>1. /\ UNCHANGED <<rteNow, offset, rteSteps, started, rteStepped, crashes>>
      /\ rteNow \in Int /\ offset \in Int
      /\ last' = [at |-> rteNow, unix |-> rteNow + offset]
      /\ (file' = Torn /\ up' = "saving") \/ UNCHANGED <<file, up>>
      /\ up = "running"
  BY DEF Rte!Polls, RteInv, RteTypes, Rte!Wall
<1>2. last' \in Poll /\ last' # None /\ last'.at = rteNow /\ last'.unix = rteNow + offset
  BY <1>1, RteAssumption DEF Poll
<1>3. Rte!Readable' => Rte!Readable /\ file' = file
  BY <1>1 DEF Rte!Readable
<1>4. up' \in {"running", "saving"} /\ (up' = "saving" => file' = Torn)
  BY <1>1
<1>5. RteTypes'
  BY <1>1, <1>2, <1>3, <1>4, PollFacts DEF RteTypes, RteInv
<1>6. Saving' /\ Few'
  BY <1>1, <1>2, <1>3, <1>4, PollFacts DEF Saving, Few, RteInv
<1>7. ASSUME "running" \notin rteStepped' PROVE HeldInOrder' /\ SavedInOrder'
  <2>1. HeldInOrder'
    BY <1>1, <1>2, <1>7, PollFacts DEF HeldInOrder
  <2>2. SavedInOrder'
    BY <1>1, <1>3, <1>7 DEF RteInv, SavedInOrder
  <2> QED
    BY <2>1, <2>2
<1>8. ASSUME rteStepped' = {} PROVE HeldChained' /\ SavedChained'
  <2>1. HeldChained'
    BY <1>1, <1>2, <1>8, PollFacts DEF RteInv, HeldChained
  <2>2. SavedChained'
    BY <1>1, <1>3, <1>8 DEF RteInv, SavedChained
  <2> QED
    BY <2>1, <2>2
<1> QED
  BY <1>5, <1>6, <1>7, <1>8 DEF RteInv

LEMMA SavesKeep == RteInv /\ Rte!Saves => RteInv'
<1> SUFFICES ASSUME RteInv, Rte!Saves PROVE RteInv'
  OBVIOUS
<1>1. /\ UNCHANGED <<rteNow, offset, rteSteps, started, samples, last, rteStepped, crashes>>
      /\ up = "saving" /\ up' = "running"
      /\ file' = [samples |-> samples, last |-> last] \/ file' = Torn
  BY DEF Rte!Saves, Rte!Saved
<1>2. /\ last \in Poll /\ last # None /\ last.at = rteNow /\ last.at \in Int /\ last.unix \in Int
      /\ rteNow \in Int /\ offset \in Int
  BY <1>1 DEF RteInv, RteTypes, Saving, Poll
<1>3. Rte!Readable' => file'.samples = samples /\ file'.last = last /\ DOMAIN file' = {"samples", "last"}
  BY <1>1 DEF Rte!Readable
<1>4. RteTypes'
  BY <1>1, <1>2, <1>3 DEF RteTypes, RteInv
<1>5. Saving' /\ Few'
  BY <1>1, <1>2, <1>3 DEF Saving, Few, RteInv
<1>6. ASSUME "running" \notin rteStepped' PROVE HeldInOrder' /\ SavedInOrder'
  <2>1. HeldInOrder
    BY <1>1, <1>6 DEF RteInv
  <2>2. HeldInOrder'
    BY <1>1, <2>1 DEF HeldInOrder
  <2>3. last.unix - last.at = offset
    BY <1>1, <1>2, <2>1 DEF HeldInOrder
  <2>4. SavedInOrder'
    BY <1>1, <1>2, <1>3, <2>1, <2>3 DEF SavedInOrder, HeldInOrder
  <2> QED
    BY <2>2, <2>4
<1>7. ASSUME rteStepped' = {} PROVE HeldChained' /\ SavedChained'
  <2>1. HeldChained /\ HeldInOrder
    BY <1>1, <1>7 DEF RteInv
  <2>2. HeldChained'
    BY <1>1, <2>1 DEF HeldChained
  <2>3. last.unix = last.at
    BY <1>1, <1>2, <2>1 DEF HeldInOrder, HeldChained
  <2>4. SavedChained'
    BY <1>1, <1>2, <1>3, <2>1, <2>3 DEF SavedChained, HeldChained
  <2> QED
    BY <2>2, <2>4
<1> QED
  BY <1>4, <1>5, <1>6, <1>7 DEF RteInv

\* Down, whether it stopped or was killed.
LEMMA DownKeeps == RteInv /\ (Rte!Stops \/ Rte!Crashes) => RteInv'
<1> SUFFICES ASSUME RteInv, Rte!Stops \/ Rte!Crashes PROVE RteInv'
  OBVIOUS
<1>1. /\ UNCHANGED <<rteNow, offset, rteSteps, started, samples, last, file, rteStepped>>
      /\ up' = "down" /\ crashes' \in 0 .. MaxCrashes /\ (Rte!Readable' <=> Rte!Readable)
  BY RteAssumption DEF Rte!Stops, Rte!Crashes, RteInv, RteTypes, Rte!Readable
<1>2. RteTypes' /\ Saving' /\ Few'
  BY <1>1 DEF RteInv, RteTypes, Saving, Few
<1>3. "running" \notin rteStepped' => HeldInOrder' /\ SavedInOrder'
  BY <1>1 DEF RteInv, HeldInOrder, SavedInOrder
<1>4. rteStepped' = {} => HeldChained' /\ SavedChained'
  BY <1>1 DEF RteInv, HeldChained, SavedChained
<1> QED
  BY <1>2, <1>3, <1>4 DEF RteInv

LEMMA PassesKeep == RteInv /\ Rte!Passes => RteInv'
<1> SUFFICES ASSUME RteInv, Rte!Passes PROVE RteInv'
  OBVIOUS
<1>1. /\ UNCHANGED <<offset, rteSteps, up, started, samples, last, file, rteStepped, crashes>>
      /\ rteNow' = rteNow + 1 /\ rteNow < RteNow /\ up # "saving" /\ (Rte!Readable' <=> Rte!Readable)
      /\ rteNow \in Int /\ samples \in Seq(Samples)
      /\ last # None => last.at \in Int
      /\ Rte!Readable => file.samples \in Seq(Samples) /\ file.last.at \in Int
  BY DEF Rte!Passes, RteInv, RteTypes, Rte!Readable, Poll
<1>2. RteTypes' /\ Saving'
  BY <1>1, RteAssumption DEF RteInv, RteTypes, Saving
<1>3. Few'
  <2>1. Len(samples) \in Nat /\ (Rte!Readable => Len(file.samples) \in Nat)
    BY <1>1
  <2> QED
    BY <1>1, <2>1 DEF RteInv, Few
<1>4. ASSUME "running" \notin rteStepped' PROVE HeldInOrder' /\ SavedInOrder'
  <2>1. HeldInOrder /\ SavedInOrder
    BY <1>1, <1>4 DEF RteInv
  <2>2. UpTo(samples, rteNow + 1)
    BY <1>1, <2>1, SampleTypes DEF HeldInOrder, UpTo
  <2> QED
    BY <1>1, <2>1, <2>2 DEF HeldInOrder, SavedInOrder
<1>5. ASSUME rteStepped' = {} PROVE HeldChained' /\ SavedChained'
  <2>1. HeldChained /\ SavedChained
    BY <1>1, <1>5 DEF RteInv
  <2> QED
    BY <1>1, <2>1 DEF HeldChained, SavedChained
<1> QED
  BY <1>2, <1>3, <1>4, <1>5 DEF RteInv

LEMMA StepsClockKeeps == RteInv /\ Rte!StepsClock => RteInv'
<1> SUFFICES ASSUME RteInv, Rte!StepsClock PROVE RteInv'
  OBVIOUS
<1>1. /\ UNCHANGED <<rteNow, up, started, samples, last, file, crashes>>
      /\ rteSteps < RteSteps /\ rteSteps' = rteSteps + 1
      /\ offset' \in {offset - 2, offset + 2}
      /\ rteStepped' = rteStepped \cup {IF up = "down" THEN "down" ELSE "running"}
      /\ (Rte!Readable' <=> Rte!Readable)
  <2>1. PICK by \in {-2, 2} : offset' = offset + by
    BY DEF Rte!StepsClock
  <2>2. offset' \in {offset - 2, offset + 2}
    BY <2>1 DEF RteInv, RteTypes
  <2> QED
    BY <2>2 DEF Rte!StepsClock, Rte!Readable
<1>2. RteTypes'
  <2>1. offset' \in Int /\ rteSteps' \in 0 .. RteSteps /\ -2 * rteSteps' <= offset' /\ offset' <= 2 * rteSteps'
    BY <1>1, RteAssumption DEF RteInv, RteTypes
  <2> QED
    BY <1>1, <2>1 DEF RteInv, RteTypes
<1>3. Saving' /\ Few'
  BY <1>1 DEF RteInv, Saving, Few
<1>4. ASSUME "running" \notin rteStepped' PROVE HeldInOrder' /\ SavedInOrder'
  <2>1. up = "down" /\ "running" \notin rteStepped
    BY <1>1, <1>4
  <2> QED
    BY <1>1, <2>1 DEF RteInv, HeldInOrder, SavedInOrder
<1>5. rteStepped' # {}
  BY <1>1
<1> QED
  BY <1>2, <1>3, <1>4, <1>5 DEF RteInv

\* A start that reads its file holds what the file says, by the clock it has now.
LEMMA StartsKeep == RteInv /\ Rte!Starts => RteInv'
<1> SUFFICES ASSUME RteInv, Rte!Starts PROVE RteInv'
  OBVIOUS
<1>1. /\ UNCHANGED <<rteNow, offset, rteSteps, file, rteStepped, crashes>>
      /\ up = "down" /\ up' = "running" /\ started' = rteNow
      /\ rteNow \in Int /\ offset \in Int /\ Window \in Nat /\ (Rte!Readable' <=> Rte!Readable)
  BY RteAssumption DEF Rte!Starts, RteInv, RteTypes, Rte!Readable
<1>2. CASE ~Rte!Readable
  <2>1. samples' = <<>> /\ last' = None
    BY <1>2 DEF Rte!Starts
  <2>2. RteTypes' /\ Saving' /\ Few'
    BY <1>1, <1>2, <2>1, NoSamples DEF RteInv, RteTypes, Saving, Few
  <2>3. HeldInOrder' /\ SavedInOrder' /\ SavedChained'
    BY <1>1, <1>2, <2>1, NoSamples DEF HeldInOrder, SavedInOrder, SavedChained
  <2>4. rteStepped' = {} => HeldChained'
    <3>1. rteNow - Window \in Int
      BY <1>1
    <3> QED
      BY <1>1, <2>1, <3>1, NoSamples DEF RteInv, HeldChained
  <2> QED
    BY <2>2, <2>3, <2>4 DEF RteInv
<1>3. CASE Rte!Readable
  <2>1. PICK s \in Seq(Samples), l \in Poll : s = file.samples /\ l = file.last
    BY <1>3 DEF RteInv, RteTypes
  <2>2. l # None /\ l.at \in Int /\ l.unix \in Int
    BY RteAssumption DEF Poll
  <2>3. samples' = Rte!Restored(s)
    BY <1>3, <2>1 DEF Rte!Starts
  <2>4. PICK r \in Seq(Samples) : r = samples' /\ Len(r) <= Len(s) /\ PutBack(r, s, Len(s))
    BY <1>1, <2>3, RestoredFacts
  <2>5. Rte!Age(l.unix) = rteNow + offset - l.unix
    BY <1>1, <2>2 DEF Rte!Age, Rte!Wall
  <2>6. \/ /\ last' = None /\ ~(rteNow + offset - l.unix \in 0 .. Window - 1)
        \/ /\ last' \in Poll /\ last' # None /\ rteNow + offset - l.unix \in 0 .. Window - 1
           /\ last'.at = rteNow - (rteNow + offset - l.unix) /\ last'.unix = l.unix
    <3>1. last' = IF rteNow + offset - l.unix \in 0 .. Window - 1
                  THEN [l EXCEPT !.at = rteNow - (rteNow + offset - l.unix)] ELSE None
      BY <1>3, <2>1, <2>2, <2>5 DEF Rte!Starts, Rte!LastThen
    <3>2. PICK m \in Poll : /\ m = [l EXCEPT !.at = rteNow - (rteNow + offset - l.unix)]
                            /\ m.at = rteNow - (rteNow + offset - l.unix) /\ m.unix = l.unix
      <4>1. PICK at \in Int : at = rteNow - (rteNow + offset - l.unix)
        BY <1>1, <2>2
      <4>2. [l EXCEPT !.at = at] \in Poll /\ [l EXCEPT !.at = at].at = at /\ [l EXCEPT !.at = at].unix = l.unix
        BY DEF Poll
      <4> QED
        BY <4>1, <4>2
    <3>3. m # None
      BY RteAssumption DEF Poll
    <3> QED
      BY <3>1, <3>2, <3>3
  <2>7. last' # None =>
          last'.at \in Int /\ last'.at = l.unix - offset /\ last'.at <= rteNow /\ last'.unix = last'.at + offset
    <3> SUFFICES ASSUME last' # None
                 PROVE  last'.at \in Int /\ last'.at = l.unix - offset /\ last'.at <= rteNow
                        /\ last'.unix = last'.at + offset
      OBVIOUS
    <3>1. rteNow \in Int /\ offset \in Int /\ l.unix \in Int
      BY <1>1, <2>2
    <3>2. PICK age \in Int : age = rteNow + offset - l.unix
      BY <3>1
    <3>3. age >= 0 /\ last'.at = rteNow - age /\ last'.unix = l.unix
      BY <2>6, <3>2
    <3>4. rteNow - age = l.unix - offset /\ rteNow - age <= rteNow /\ rteNow - age \in Int
      BY <3>1, <3>2, <3>3
    <3>5. l.unix = l.unix - offset + offset
      BY <3>1
    <3> QED
      BY <3>3, <3>4, <3>5
  <2>8. RteTypes' /\ Saving'
    BY <1>1, <2>4, <2>6 DEF RteInv, RteTypes, Saving
  <2>9. Few'
    <3>1. Len(r) \in Nat /\ Len(s) \in Nat /\ Len(s) <= rteNow
      BY <1>3, <2>1 DEF RteInv, Few
    <3> QED
      BY <1>1, <1>3, <2>1, <2>4, <3>1 DEF Few
  <2>10. ASSUME "running" \notin rteStepped
         PROVE  /\ InOrder(s) /\ UpTo(s, l.at) /\ AheadBy(s, l.unix - l.at)
                /\ AheadBy(r, offset) /\ UpTo(r, rteNow) /\ InOrder(r)
                /\ UpTo(r, l.unix - offset)
    <3>1. InOrder(s) /\ UpTo(s, l.at) /\ AheadBy(s, l.unix - l.at) /\ l.unix - l.at \in Int
      BY <1>3, <2>1, <2>2, <2>10 DEF RteInv, SavedInOrder
    <3>2. /\ AheadBy(r, offset) /\ UpTo(r, rteNow) /\ InOrder(r)
          /\ UpTo(r, l.at + (l.unix - l.at) - offset)
      BY <1>1, <2>2, <2>4, <3>1, PutBackKeeps
    <3>3. l.at + (l.unix - l.at) - offset = l.unix - offset
      BY <1>1, <2>2
    <3> QED
      BY <3>1, <3>2, <3>3
  <2>11. ASSUME "running" \notin rteStepped' PROVE HeldInOrder' /\ SavedInOrder'
    <3>1. HeldInOrder'
      BY <1>1, <2>4, <2>7, <2>10, <2>11 DEF HeldInOrder
    <3>2. SavedInOrder'
      BY <1>1, <2>11 DEF RteInv, SavedInOrder
    <3> QED
      BY <3>1, <3>2
  <2>12. ASSUME rteStepped' = {} PROVE HeldChained' /\ SavedChained'
    <3>1. HeldChained /\ SavedChained /\ "running" \notin rteStepped
      BY <1>1, <2>12 DEF RteInv
    <3>2. /\ offset = 0 /\ Chained(s) /\ EndsAt(s, l.at) /\ l.unix = l.at /\ l.at <= rteNow
          /\ l.unix - l.at = offset
      BY <1>3, <2>1, <2>2, <3>1 DEF HeldChained, SavedChained
    <3>3. UpTo(s, rteNow)
      BY <1>1, <2>2, <2>10, <3>1, <3>2, SampleTypes DEF UpTo
    <3>4. Chained(r) /\ (rteNow - l.at \in 0 .. Window => EndsAt(r, l.at)) /\ UpTo(r, l.at)
      <4>1. AheadBy(s, offset) /\ InOrder(s) /\ UpTo(r, l.unix - offset) /\ l.unix - offset = l.at
        BY <1>1, <2>2, <2>10, <3>1, <3>2
      <4> QED
        BY <1>1, <2>2, <2>4, <3>2, <3>3, <4>1, PutBackKeeps
    <3>5. last' # None => EndsAt(r, last'.at)
      <4>1. last' # None => last'.at = l.at /\ rteNow - l.at \in 0 .. Window
        <5>1. PICK at \in Int, wall \in Int : at = l.at /\ wall = l.unix
          BY <2>2
        <5>2. last' # None => last'.at = wall - offset /\ rteNow + offset - wall \in 0 .. Window - 1
          BY <2>6, <2>7, <5>1
        <5>3. wall = at /\ offset = 0
          BY <3>2, <5>1
        <5>4. rteNow + 0 - at \in 0 .. Window - 1 => rteNow - at \in 0 .. Window
          BY <1>1
        <5>5. at - 0 = at
          OBVIOUS
        <5> QED
          BY <5>1, <5>2, <5>3, <5>4, <5>5
      <4> QED
        BY <3>4, <4>1
    <3>6. last' = None => UpTo(r, rteNow - Window)
      <4>1. last' = None => l.at <= rteNow - Window
        BY <1>1, <2>2, <2>6, <3>2
      <4> QED
        BY <1>1, <2>2, <3>4, <4>1, SampleTypes DEF UpTo
    <3>7. HeldChained'
      BY <1>1, <2>4, <3>2, <3>4, <3>5, <3>6 DEF HeldChained
    <3>8. SavedChained'
      BY <1>1, <3>1 DEF SavedChained
    <3> QED
      BY <3>7, <3>8
  <2> QED
    BY <2>8, <2>9, <2>11, <2>12 DEF RteInv
<1> QED
  BY <1>2, <1>3

LEMMA RteUnchanged == RteInv /\ UNCHANGED rteVars => RteInv'
BY DEF rteVars, RteInv, RteTypes, Saving, Few, HeldInOrder, SavedInOrder, HeldChained, SavedChained,
       Rte!Readable

LEMMA RteStep == [Next]_vars => Rte!Next \/ UNCHANGED rteVars
BY DEF Next, vars

\* Whichever reader of the records runs, the invariant of the efficiency window is kept.
THEOREM RteInvariance == Spec => []RteInv
<1>1. Init => RteInv
  BY RteInit DEF Init
<1>2. RteInv /\ [Next]_vars => RteInv'
  BY RteStep, RteUnchanged, PollsKeep, SavesKeep, DownKeeps, StartsKeep, PassesKeep, StepsClockKeeps DEF Rte!Next
<1> QED
  BY <1>1, <1>2, PTL DEF Spec

\* rte.rs: over restarts, crashes in the middle of a write and a clock set while the
\* process is down, no moment is counted twice in the rolling window, none is left out
\* unless the clock was set, and a poll leaves none that is older than the window.
THEOREM WindowIsKept == Spec => WindowKept
<1>1. RteInv => Rte!TypeOK
  <2> SUFFICES ASSUME RteInv PROVE Rte!TypeOK
    OBVIOUS
  <2>1. offset \in -2 * RteSteps .. 2 * RteSteps /\ Len(samples) <= RteNow
    <3>1. Len(samples) \in Nat
      BY DEF RteInv, RteTypes
    <3> QED
      BY <3>1, RteAssumption DEF RteInv, RteTypes, Few
  <2> QED
    BY <2>1 DEF RteInv, RteTypes, Saving, Rte!TypeOK, Rte!Readable, Samples, Poll
<1>2. RteInv => Rte!CountedOnce
  <2> SUFFICES ASSUME RteInv, "running" \notin rteStepped
               PROVE  /\ \A i \in DOMAIN samples : i > 1 =>
                           IF rteStepped = {} THEN samples[i].from = samples[i - 1].at
                                              ELSE samples[i].from >= samples[i - 1].at
                      /\ samples # <<>> /\ last # None =>
                           IF rteStepped = {} THEN samples[Len(samples)].at = last.at
                                              ELSE samples[Len(samples)].at <= last.at
    BY DEF Rte!CountedOnce
  <2>1. DOMAIN samples = 1 .. Len(samples) /\ Len(samples) \in Nat
        /\ \A i \in 1 .. Len(samples) : samples[i].from \in Int /\ samples[i].at \in Int
    BY SampleTypes DEF RteInv, RteTypes
  <2>2. HeldInOrder /\ (rteStepped = {} => HeldChained)
    BY DEF RteInv
  <2>3. ASSUME NEW i \in DOMAIN samples, i > 1
        PROVE  IF rteStepped = {} THEN samples[i].from = samples[i - 1].at
                                  ELSE samples[i].from >= samples[i - 1].at
    <3>1. i - 1 \in 1 .. Len(samples) /\ i - 1 < i /\ i \in 2 .. Len(samples) /\ i \in 1 .. Len(samples)
      BY <2>1, <2>3
    <3>2. samples[i - 1].at <= samples[i].from
      BY <2>2, <3>1 DEF HeldInOrder, InOrder
    <3>3. rteStepped = {} => samples[i].from = samples[i - 1].at
      BY <2>2, <3>1 DEF HeldChained, Chained
    <3> QED
      BY <2>1, <3>1, <3>2, <3>3
  <2>4. ASSUME samples # <<>>, last # None
        PROVE  IF rteStepped = {} THEN samples[Len(samples)].at = last.at
                                  ELSE samples[Len(samples)].at <= last.at
    <3>1. Len(samples) \in 1 .. Len(samples)
      BY <2>1, <2>4 DEF RteInv, RteTypes
    <3>2. samples[Len(samples)].at <= last.at
      BY <2>2, <2>4, <3>1 DEF HeldInOrder, UpTo
    <3>3. rteStepped = {} => samples[Len(samples)].at = last.at
      BY <2>2, <2>4 DEF HeldChained, EndsAt
    <3> QED
      BY <3>2, <3>3
  <2> QED
    BY <2>3, <2>4
<1>3. RteInv /\ [Next]_vars =>
        [up = "running" /\ last' # last /\ "running" \notin rteStepped
           => \A i \in DOMAIN samples' : samples'[i].at >= rteNow - Window]_(Rte!vars)
  <2> SUFFICES ASSUME RteInv, [Next]_vars, up = "running", last' # last, "running" \notin rteStepped
               PROVE  \A i \in DOMAIN samples' : samples'[i].at >= rteNow - Window
    OBVIOUS
  <2>1. Rte!Polls
    BY RteStep DEF rteVars, Rte!Next, Rte!Saves, Rte!Stops, Rte!Crashes, Rte!Starts, Rte!Passes, Rte!StepsClock
  <2>2. samples' \in Seq(Samples) /\ \A i \in 1 .. Len(samples') : samples'[i].at >= rteNow - Window
    BY <2>1, PollFacts
  <2>3. DOMAIN samples' = 1 .. Len(samples')
    BY <2>2
  <2> QED
    BY <2>2, <2>3
<1> QED
  BY <1>1, <1>2, <1>3, RteInvariance, PTL DEF Spec, WindowKept, Rte!WindowKept, Rte!WithinWindow

-----------------------------------------------------------------------------
(* Folds from the left, which the library defines over the sets of indices.   *)

Largest(s) == CHOOSE x \in s : \A y \in s : x >= y

LEMMA LargestFacts ==
  ASSUME NEW n \in Nat, NEW s \in SUBSET (1 .. n), s # {}
  PROVE  Largest(s) \in s /\ \A y \in s : y <= Largest(s)
<1> DEFINE T == {n - x : x \in s}
<1>1. T \in SUBSET Nat /\ T # {}
  <2>1. \A x \in s : x \in 1 .. n
    OBVIOUS
  <2>2. \A x \in s : n - x \in Nat
    BY <2>1
  <2> QED
    BY <2>2
<1>2. PICK m \in T : \A k \in T : m <= k
  BY <1>1, LeastNat
<1>3. PICK x \in s : m = n - x
  OBVIOUS
<1>4. \A y \in s : x >= y
  <2> SUFFICES ASSUME NEW y \in s PROVE x >= y
    OBVIOUS
  <2>1. n - y \in T
    OBVIOUS
  <2>2. n - x <= n - y
    BY <1>2, <1>3, <2>1
  <2> QED
    BY <2>2
<1>5. Largest(s) \in s /\ \A y \in s : Largest(s) >= y
  BY <1>4 DEF Largest
<1>6. Largest(s) \in 1 .. n
  BY <1>5
<1> QED
  BY <1>5, <1>6

\* `over` folds the steps over every set of the first n indices.
FoldsOver(over, n, base, step) ==
  /\ over[{}] = base
  /\ \A s \in (SUBSET (1 .. n)) \ {{}} : over[s] = step[<<Largest(s), over[s \ {Largest(s)}]>>]

IsFold(over, n, S, base, step) == over \in [SUBSET (1 .. n) -> S] /\ FoldsOver(over, n, base, step)

LEMMA FoldExists ==
  ASSUME NEW n \in Nat, NEW S, NEW base \in S, NEW step \in [(1 .. n) \X S -> S]
  PROVE  \E over : IsFold(over, n, S, base, step)
<1> DEFINE T == {k \in Nat : k <= n => \E over : IsFold(over, k, S, base, step)}
<1>1. 0 \in T
  <2> DEFINE over == [s \in SUBSET (1 .. 0) |-> base]
  <2>1. over \in [SUBSET (1 .. 0) -> S] /\ SUBSET (1 .. 0) = {{}} /\ over[{}] = base
    OBVIOUS
  <2> QED
    BY <2>1 DEF FoldsOver, IsFold
<1>2. \A k \in Nat : k \in T => k + 1 \in T
  <2> SUFFICES ASSUME NEW k \in Nat, k \in T, k + 1 <= n
               PROVE  \E over : IsFold(over, k + 1, S, base, step)
    OBVIOUS
  <2>a. PICK before : IsFold(before, k, S, base, step)
    OBVIOUS
  <2>1. before \in [SUBSET (1 .. k) -> S] /\ FoldsOver(before, k, base, step)
    BY <2>a DEF IsFold
  <2> DEFINE over == [s \in SUBSET (1 .. k + 1) |->
                        IF k + 1 \in s THEN step[<<k + 1, before[s \ {k + 1}]>>] ELSE before[s]]
  <2>2. \A s \in SUBSET (1 .. k + 1) : s \ {k + 1} \in SUBSET (1 .. k) /\ (k + 1 \notin s => s \in SUBSET (1 .. k))
    OBVIOUS
  <2>3. \A v \in S : step[<<k + 1, v>>] \in S
    <3>1. \A v \in S : <<k + 1, v>> \in (1 .. n) \X S
      OBVIOUS
    <3> QED
      BY <3>1
  <2>4. over \in [SUBSET (1 .. k + 1) -> S]
    BY <2>1, <2>2, <2>3
  <2>5. \A s \in SUBSET (1 .. k) : s \in SUBSET (1 .. k + 1) /\ k + 1 \notin s
    OBVIOUS
  <2>6. \A s \in SUBSET (1 .. k) : over[s] = before[s]
    BY <2>5
  <2>7. \A s \in SUBSET (1 .. k + 1) : k + 1 \in s => over[s] = step[<<k + 1, before[s \ {k + 1}]>>]
    OBVIOUS
  <2> HIDE DEF over
  <2>8. over[{}] = base
    BY <2>1, <2>6 DEF FoldsOver
  <2>9. ASSUME NEW s \in (SUBSET (1 .. k + 1)) \ {{}}
        PROVE  over[s] = step[<<Largest(s), over[s \ {Largest(s)}]>>]
    <3>1. k + 1 \in Nat
      OBVIOUS
    <3>2. Largest(s) \in s /\ \A y \in s : y <= Largest(s)
      BY <2>9, <3>1, LargestFacts
    <3>3. CASE k + 1 \in s
      <4>0. Largest(s) \in 1 .. k + 1
        BY <3>2
      <4>1. Largest(s) = k + 1
        BY <3>2, <3>3, <4>0
      <4>2. over[s] = step[<<k + 1, before[s \ {k + 1}]>>]
        BY <2>7, <3>3
      <4>3. over[s \ {k + 1}] = before[s \ {k + 1}]
        BY <2>2, <2>6
      <4> QED
        BY <4>1, <4>2, <4>3
    <3>4. CASE k + 1 \notin s
      <4>1. s \in (SUBSET (1 .. k)) \ {{}} /\ s \ {Largest(s)} \in SUBSET (1 .. k)
        BY <2>2, <3>4
      <4> QED
        BY <2>1, <2>6, <4>1 DEF FoldsOver
    <3> QED
      BY <3>3, <3>4
  <2> QED
    BY <2>4, <2>8, <2>9 DEF FoldsOver, IsFold
<1> HIDE DEF T
<1>3. n \in T
  BY <1>1, <1>2, EveryNat
<1> QED
  BY <1>3 DEF T

\* Over the first indices a fold goes on from the one before.
LEMMA FoldAdvances ==
  ASSUME NEW n \in Nat, NEW base, NEW step, NEW over, FoldsOver(over, n, base, step)
  PROVE  \A k \in 1 .. n : over[1 .. k] = step[<<k, over[1 .. k - 1]>>]
<1> SUFFICES ASSUME NEW k \in 1 .. n PROVE over[1 .. k] = step[<<k, over[1 .. k - 1]>>]
  OBVIOUS
<1>1. 1 .. k \in (SUBSET (1 .. n)) \ {{}}
  OBVIOUS
<1>2. Largest(1 .. k) \in 1 .. k /\ \A y \in 1 .. k : y <= Largest(1 .. k)
  BY <1>1, LargestFacts
<1>3. Largest(1 .. k) = k
  BY <1>2
<1>4. (1 .. k) \ {k} = 1 .. k - 1
  OBVIOUS
<1> QED
  BY <1>1, <1>3, <1>4 DEF FoldsOver

-----------------------------------------------------------------------------
(* The prices: the series of a journal.                                       *)

Series == PriceSeries!Series

LEMMA InsertedTypes ==
  ASSUME NEW a \in Series, NEW b \in Series
  PROVE  PriceSeries!Inserted(a, b) \in Series
<1>1. PICK d \in SUBSET PriceSeries!Hours : a \in [d -> PriceLevels]
  BY DEF Series, PriceSeries!Series
<1>2. PICK e \in SUBSET PriceSeries!Hours : b \in [e -> PriceLevels]
  BY DEF Series, PriceSeries!Series
<1>3. PriceSeries!Inserted(a, b) \in [d \cup e -> PriceLevels]
  BY <1>1, <1>2 DEF PriceSeries!Inserted
<1> QED
  BY <1>3 DEF Series, PriceSeries!Series

\* `whole` is what each row in turn makes of those before it.
Decodes(whole, journal) ==
  /\ whole[0] = <<>>
  /\ \A k \in 1 .. Len(journal) : whole[k] = PriceSeries!Inserted(whole[k - 1], journal[k])

LEMMA NoPrices == <<>> \in Series
<1>1. <<>> \in [{} -> PriceLevels]
  OBVIOUS
<1> QED
  BY <1>1 DEF Series, PriceSeries!Series

LEMMA DecodedRuns ==
  ASSUME NEW journal \in Seq(Series)
  PROVE  \E whole : Decodes(whole, journal) /\ PriceSeries!Decoded(journal) = whole[Len(journal)]
<1> DEFINE n == Len(journal)
<1> DEFINE step == [x \in (1 .. n) \X Series |-> PriceSeries!Inserted(x[2], journal[x[1]])]
<1> DEFINE Fold(F) == F = [s \in SUBSET DOMAIN journal |->
                             IF s = {} THEN <<>>
                             ELSE PriceSeries!Inserted(F[s \ {Largest(s)}], journal[Largest(s)])]
<1>1. n \in Nat /\ DOMAIN journal = 1 .. n /\ \A i \in 1 .. n : journal[i] \in Series
  OBVIOUS
<1>2. step \in [(1 .. n) \X Series -> Series]
  <2>1. \A x \in (1 .. n) \X Series : PriceSeries!Inserted(x[2], journal[x[1]]) \in Series
    BY <1>1, InsertedTypes
  <2> QED
    BY <2>1
<1>3. PICK over : IsFold(over, n, Series, <<>>, step)
  <2> HIDE DEF step, n
  <2> QED
    BY <1>1, <1>2, NoPrices, FoldExists
<1>4. over \in [SUBSET (1 .. n) -> Series] /\ FoldsOver(over, n, <<>>, step)
  <2> HIDE DEF step, n
  <2> QED
    BY <1>3 DEF IsFold
<1>5. ASSUME NEW s \in (SUBSET (1 .. n)) \ {{}}
      PROVE  over[s] = PriceSeries!Inserted(over[s \ {Largest(s)}], journal[Largest(s)])
  <2>1. Largest(s) \in s /\ Largest(s) \in 1 .. n
    <3> HIDE DEF step, n
    <3>1. Largest(s) \in s
      BY <1>1, LargestFacts
    <3> QED
      BY <3>1
  <2>2. over[s \ {Largest(s)}] \in Series
    <3> HIDE DEF step, n
    <3>1. s \ {Largest(s)} \in SUBSET (1 .. n)
      BY <2>1
    <3> QED
      BY <1>4, <3>1
  <2>3. over[s] = step[<<Largest(s), over[s \ {Largest(s)}]>>]
    <3> HIDE DEF step, n
    <3> QED
      BY <1>4 DEF FoldsOver
  <2>4. <<Largest(s), over[s \ {Largest(s)}]>> \in (1 .. n) \X Series
    BY <2>1, <2>2
  <2> HIDE DEF n
  <2> QED
    BY <2>3, <2>4
<1>6. Fold(over)
  <2>1. over[{}] = <<>>
    BY <1>4 DEF FoldsOver
  <2> HIDE DEF step, n
  <2>2. over = [s \in SUBSET (1 .. n) |-> over[s]]
    BY <1>4
  <2>3. \A s \in SUBSET (1 .. n) :
          over[s] = IF s = {} THEN <<>>
                    ELSE PriceSeries!Inserted(over[s \ {Largest(s)}], journal[Largest(s)])
    BY <1>5, <2>1
  <2> QED
    BY <1>1, <2>2, <2>3
<1> DEFINE chosen == CHOOSE F : Fold(F)
<1>7. Fold(chosen)
  <2> HIDE DEF Fold
  <2> QED
    BY <1>6
<1>8. PriceSeries!Decoded(journal) = chosen[DOMAIN journal]
  BY DEF PriceSeries!Decoded, PriceSeries!FoldLeft, PriceSeries!MapThenFoldSet, PriceSeries!Max, Largest
<1> HIDE DEF chosen, step, n
<1>9. /\ chosen[{}] = <<>>
      /\ \A s \in (SUBSET (1 .. n)) \ {{}} :
           chosen[s] = PriceSeries!Inserted(chosen[s \ {Largest(s)}], journal[Largest(s)])
  <2>1. chosen[{}] = <<>>
    BY <1>7
  <2>2. ASSUME NEW s \in (SUBSET (1 .. n)) \ {{}}
        PROVE  chosen[s] = PriceSeries!Inserted(chosen[s \ {Largest(s)}], journal[Largest(s)])
    <3>1. s \in SUBSET DOMAIN journal /\ s # {}
      BY <1>1
    <3> QED
      BY <1>7, <3>1
  <2> QED
    BY <2>1, <2>2
<1>10. ASSUME NEW k \in 1 .. n
       PROVE  chosen[1 .. k] = PriceSeries!Inserted(chosen[1 .. k - 1], journal[k])
  <2>1. 1 .. k \in (SUBSET (1 .. n)) \ {{}}
    BY <1>1
  <2>2. Largest(1 .. k) \in 1 .. k /\ \A y \in 1 .. k : y <= Largest(1 .. k)
    BY <1>1, <2>1, LargestFacts
  <2>3. Largest(1 .. k) = k /\ (1 .. k) \ {k} = 1 .. k - 1
    BY <1>1, <2>2
  <2> QED
    BY <1>9, <2>1, <2>3
<1> DEFINE whole == [k \in Nat |-> chosen[1 .. k]]
<1>11. whole[0] = <<>>
  <2>1. 1 .. 0 = {}
    OBVIOUS
  <2> QED
    BY <1>9, <2>1
<1>12. \A k \in 1 .. n : whole[k] = PriceSeries!Inserted(whole[k - 1], journal[k])
  <2>1. \A k \in 1 .. n : k \in Nat /\ k - 1 \in Nat
    BY <1>1
  <2> QED
    BY <1>10, <2>1
<1>13. PriceSeries!Decoded(journal) = whole[n]
  BY <1>1, <1>8
<1> HIDE DEF whole
<1> QED
  BY <1>11, <1>12, <1>13 DEF Decodes, n

\* The journal is read in its order: nothing from nothing, and one row more is
\* inserted into what those before it make.
LEMMA DecodedFacts ==
  ASSUME NEW journal \in Seq(Series)
  PROVE  /\ PriceSeries!Decoded(journal) \in Series
         /\ journal = <<>> => PriceSeries!Decoded(journal) = <<>>
         /\ \A row \in Series :
              PriceSeries!Decoded(Append(journal, row))
                = PriceSeries!Inserted(PriceSeries!Decoded(journal), row)
<1> DEFINE n == Len(journal)
<1>1. n \in Nat /\ \A i \in 1 .. n : journal[i] \in Series
  OBVIOUS
<1>2. PICK whole : Decodes(whole, journal) /\ PriceSeries!Decoded(journal) = whole[n]
  BY DecodedRuns
<1>3. PriceSeries!Decoded(journal) \in Series
  <2> DEFINE T == {k \in Nat : k <= n => whole[k] \in Series}
  <2>1. 0 \in T
    BY <1>2, NoPrices DEF Decodes
  <2>2. \A k \in Nat : k \in T => k + 1 \in T
    <3> SUFFICES ASSUME NEW k \in Nat, k \in T, k + 1 <= n PROVE whole[k + 1] \in Series
      OBVIOUS
    <3>1. k + 1 \in 1 .. n /\ k + 1 - 1 = k /\ whole[k] \in Series
      BY <1>1
    <3>2. whole[k + 1] = PriceSeries!Inserted(whole[k], journal[k + 1])
      BY <1>2, <3>1 DEF Decodes
    <3> QED
      BY <1>1, <3>1, <3>2, InsertedTypes
  <2> HIDE DEF T
  <2>3. n \in T
    BY <1>1, <2>1, <2>2, EveryNat
  <2> QED
    BY <1>1, <1>2, <2>3 DEF T
<1>4. journal = <<>> => PriceSeries!Decoded(journal) = <<>>
  BY <1>2 DEF Decodes
<1>5. ASSUME NEW row \in Series
      PROVE  PriceSeries!Decoded(Append(journal, row))
               = PriceSeries!Inserted(PriceSeries!Decoded(journal), row)
  <2> DEFINE longer == Append(journal, row)
  <2>1. longer \in Seq(Series) /\ Len(longer) = n + 1 /\ longer[n + 1] = row
        /\ \A i \in 1 .. n : longer[i] = journal[i]
    OBVIOUS
  <2> HIDE DEF longer
  <2>2. PICK more : Decodes(more, longer) /\ PriceSeries!Decoded(longer) = more[Len(longer)]
    BY <2>1, DecodedRuns
  <2> DEFINE T == {k \in Nat : k <= n => more[k] = whole[k]}
  <2>3. 0 \in T
    BY <1>2, <2>2 DEF Decodes
  <2>4. \A k \in Nat : k \in T => k + 1 \in T
    <3> SUFFICES ASSUME NEW k \in Nat, k \in T, k + 1 <= n PROVE more[k + 1] = whole[k + 1]
      OBVIOUS
    <3>1. k + 1 \in 1 .. n /\ k + 1 \in 1 .. n + 1 /\ k + 1 - 1 = k /\ more[k] = whole[k]
      BY <1>1
    <3>2. whole[k + 1] = PriceSeries!Inserted(whole[k], journal[k + 1])
      BY <1>2, <3>1 DEF Decodes
    <3>3. more[k + 1] = PriceSeries!Inserted(more[k], longer[k + 1])
      BY <2>1, <2>2, <3>1 DEF Decodes
    <3> QED
      BY <2>1, <3>1, <3>2, <3>3
  <2> HIDE DEF T
  <2>5. n \in T
    BY <1>1, <2>3, <2>4, EveryNat
  <2>6. more[n] = whole[n]
    BY <1>1, <2>5 DEF T
  <2>7. n + 1 \in 1 .. n + 1 /\ n + 1 - 1 = n
    BY <1>1
  <2>8. more[n + 1] = PriceSeries!Inserted(more[n], longer[n + 1])
    BY <2>1, <2>2, <2>7 DEF Decodes
  <2>9. PriceSeries!Decoded(longer) = PriceSeries!Inserted(PriceSeries!Decoded(journal), row)
    BY <1>2, <2>1, <2>2, <2>6, <2>8
  <2> QED
    BY <2>9 DEF longer
<1> QED
  BY <1>3, <1>4, <1>5

-----------------------------------------------------------------------------
(* The prices: the days and the history.                                      *)

\* The calendar: its days start one after another.
LEMMA Calendar ==
  /\ Len(DayStart) \in Nat /\ Len(DayStart) > HistoryDays + BackfillDays + 1
  /\ \A i \in 1 .. Len(DayStart) : DayStart[i] \in Nat
  /\ \A i, j \in 1 .. Len(DayStart) : i < j => DayStart[i] < DayStart[j]
  /\ DayStart[1] = 0
  /\ PriceSeries!Days = 1 .. Len(DayStart) - 1
  /\ PriceSeries!Hours = 0 .. DayStart[Len(DayStart)] - 1
BY PricesAssumption DEF PriceSeries!Days, PriceSeries!Hours

LEMMA DayOfHour ==
  ASSUME NEW at \in PriceSeries!Hours
  PROVE  /\ PriceSeries!LocalDate(at) \in PriceSeries!Days
         /\ DayStart[PriceSeries!LocalDate(at)] <= at
         /\ at < DayStart[PriceSeries!LocalDate(at) + 1]
<1> DEFINE T == {d \in 1 .. Len(DayStart) : at < DayStart[d]}
<1>1. Len(DayStart) \in 1 .. Len(DayStart)
  BY Calendar, PricesAssumption
<1>2. at \in Nat /\ at < DayStart[Len(DayStart)]
  BY <1>1, Calendar
<1>3. T \in SUBSET Nat /\ T # {}
  BY <1>1, <1>2
<1>4. PICK e \in T : \A m \in T : e <= m
  <2> HIDE DEF T
  <2> QED
    BY <1>3, LeastNat
<1>5. e # 1
  BY <1>2, Calendar
<1>6. e \in 1 .. Len(DayStart) /\ at < DayStart[e]
  OBVIOUS
<1>7. e - 1 \in 1 .. Len(DayStart) - 1 /\ e - 1 + 1 = e /\ e - 1 < e /\ e - 1 \in 1 .. Len(DayStart)
  BY <1>5, <1>6, Calendar
<1>8. e - 1 \notin T
  BY <1>4, <1>6, <1>7
<1>9. DayStart[e - 1] <= at
  BY <1>2, <1>7, <1>8, Calendar
<1>10. \E d \in PriceSeries!Days : DayStart[d] <= at /\ at < DayStart[d + 1]
  BY <1>6, <1>7, <1>9, Calendar
<1> QED
  BY <1>10 DEF PriceSeries!LocalDate

\* A later hour is not of an earlier day, and an hour is of no other day.
LEMMA DaysInOrder ==
  ASSUME NEW at \in PriceSeries!Hours, NEW d \in PriceSeries!Days
  PROVE  /\ DayStart[d] <= at => d <= PriceSeries!LocalDate(at)
         /\ DayStart[d] = at => d = PriceSeries!LocalDate(at)
<1> DEFINE e == PriceSeries!LocalDate(at)
<1>1. e \in PriceSeries!Days /\ DayStart[e] <= at /\ at < DayStart[e + 1]
  BY DayOfHour
<1> HIDE DEF e
<1>2. e \in 1 .. Len(DayStart) /\ e + 1 \in 1 .. Len(DayStart) /\ d \in 1 .. Len(DayStart)
      /\ at \in Nat /\ DayStart[d] \in Nat /\ DayStart[e] \in Nat /\ DayStart[e + 1] \in Nat
  BY <1>1, Calendar
<1>3. DayStart[d] <= at => d <= e
  <2>1. e + 1 < d => DayStart[e + 1] < DayStart[d]
    BY <1>2, Calendar
  <2>2. e + 1 = d => DayStart[e + 1] = DayStart[d]
    OBVIOUS
  <2> QED
    BY <1>1, <1>2, <2>1, <2>2
<1>4. d < e => DayStart[d] < DayStart[e]
  BY <1>2, Calendar
<1> QED
  BY <1>1, <1>2, <1>3, <1>4 DEF e

LEMMA Horizon ==
  ASSUME NEW at \in PriceSeries!Hours, DayStart[HistoryDays + 1] <= at
  PROVE  /\ PriceSeries!LocalDate(at) - HistoryDays \in PriceSeries!Days
         /\ PriceSeries!HistoryStart(at) = DayStart[PriceSeries!LocalDate(at) - HistoryDays]
         /\ PriceSeries!HistoryStart(at) \in Nat /\ PriceSeries!HistoryStart(at) <= at
<1> DEFINE d == PriceSeries!LocalDate(at)
<1>1. HistoryDays \in Nat /\ HistoryDays + 1 \in PriceSeries!Days
  BY Calendar, PricesAssumption
<1>2. d \in PriceSeries!Days /\ HistoryDays + 1 <= d /\ DayStart[d] <= at
  BY <1>1, DayOfHour, DaysInOrder
<1>3. d - HistoryDays \in PriceSeries!Days
  <2> HIDE DEF d
  <2> QED
    BY <1>1, <1>2, Calendar
<1>4. PriceSeries!HistoryStart(at) = DayStart[d - HistoryDays]
  BY <1>3 DEF PriceSeries!HistoryStart
<1> HIDE DEF d
<1>5. d \in 1 .. Len(DayStart) /\ d - HistoryDays \in 1 .. Len(DayStart)
  BY <1>2, <1>3, Calendar
<1>6. d - HistoryDays < d \/ d - HistoryDays = d
  BY <1>1, <1>5
<1>7. DayStart[d - HistoryDays] <= DayStart[d]
  BY <1>5, <1>6, Calendar
<1> QED
  BY <1>2, <1>3, <1>4, <1>5, <1>7, Calendar DEF d

\* The history only moves on.
LEMMA HorizonAdvances ==
  ASSUME NEW at \in PriceSeries!Hours, NEW later \in PriceSeries!Hours,
         DayStart[HistoryDays + 1] <= at, at <= later
  PROVE  PriceSeries!HistoryStart(at) <= PriceSeries!HistoryStart(later)
<1> DEFINE d == PriceSeries!LocalDate(at)
           e == PriceSeries!LocalDate(later)
<1>1. HistoryDays + 1 \in 1 .. Len(DayStart) /\ HistoryDays \in Nat
  BY Calendar, PricesAssumption
<1>2. DayStart[HistoryDays + 1] \in Nat /\ at \in Nat /\ later \in Nat
  BY <1>1, Calendar
<1>3. DayStart[HistoryDays + 1] <= later
  BY <1>2
<1>4. d \in PriceSeries!Days /\ DayStart[d] <= at
  BY DayOfHour
<1>5. e \in PriceSeries!Days
  BY DayOfHour
<1>6. d \in 1 .. Len(DayStart) /\ e \in 1 .. Len(DayStart)
  <2> HIDE DEF d, e
  <2> QED
    BY <1>4, <1>5, Calendar
<1>7. DayStart[d] \in Nat
  BY <1>6, Calendar
<1>8. DayStart[d] <= later
  <2> HIDE DEF d
  <2> QED
    BY <1>2, <1>4, <1>7
<1>9. d <= e
  BY <1>4, <1>8, DaysInOrder
<1>10. PriceSeries!HistoryStart(at) = DayStart[d - HistoryDays] /\ d - HistoryDays \in PriceSeries!Days
  BY Horizon
<1>11. PriceSeries!HistoryStart(later) = DayStart[e - HistoryDays] /\ e - HistoryDays \in PriceSeries!Days
  BY <1>3, Horizon
<1> HIDE DEF d, e
<1>12. d - HistoryDays \in 1 .. Len(DayStart) /\ e - HistoryDays \in 1 .. Len(DayStart)
  BY <1>10, <1>11, Calendar
<1>13. d - HistoryDays < e - HistoryDays \/ d - HistoryDays = e - HistoryDays
  BY <1>1, <1>6, <1>9
<1>14. DayStart[d - HistoryDays] <= DayStart[e - HistoryDays]
  BY <1>12, <1>13, Calendar
<1> QED
  BY <1>10, <1>11, <1>14

\* What is kept of a series from an hour on.
LEMMA DroppedFacts ==
  ASSUME NEW s \in Series, NEW cutoff \in Nat
  PROVE  /\ PriceSeries!Dropped(s, cutoff) \in Series
         /\ DOMAIN PriceSeries!Dropped(s, cutoff) = {h \in DOMAIN s : h >= cutoff}
         /\ \A h \in DOMAIN PriceSeries!Dropped(s, cutoff) : PriceSeries!Dropped(s, cutoff)[h] = s[h]
<1>1. PICK hs \in SUBSET PriceSeries!Hours : s \in [hs -> PriceLevels]
  BY DEF Series, PriceSeries!Series
<1>2. \A h \in hs : h \in Int
  BY <1>1, Calendar
<1>3. {h \in DOMAIN s : h + 1 > cutoff} = {h \in DOMAIN s : h >= cutoff}
  BY <1>1, <1>2
<1> DEFINE kept == {h \in DOMAIN s : h >= cutoff}
<1>4. PriceSeries!Dropped(s, cutoff) = [h \in kept |-> s[h]]
  BY <1>3 DEF PriceSeries!Dropped, PriceSeries!Restrict
<1>5. kept \in SUBSET PriceSeries!Hours
  BY <1>1
<1>6. [h \in kept |-> s[h]] \in [kept -> PriceLevels]
  BY <1>1
<1>7. PriceSeries!Dropped(s, cutoff) \in Series
  BY <1>4, <1>5, <1>6 DEF Series, PriceSeries!Series
<1> QED
  BY <1>4, <1>7

LEMMA SeriesTypes ==
  ASSUME NEW s \in Series
  PROVE  PriceSeries!IsSeries(s) /\ s = [h \in DOMAIN s |-> s[h]]
BY DEF Series, PriceSeries!Series, PriceSeries!IsSeries

-----------------------------------------------------------------------------
(* The prices: what every step keeps.                                         *)

DayRequests == [from : PriceSeries!Hours, until : 0 .. DayStart[Len(DayStart)]]

PriceTypes ==
  /\ priceNow \in PriceSeries!Hours /\ priceLost \in BOOLEAN
  /\ priceRows \in Seq(Series \ {<<>>})
  /\ phase \in {"down", "first", "backfill", "polling"}
  /\ covered \in SUBSET PriceSeries!Days /\ short \in SUBSET PriceSeries!Days
  /\ todo \in SUBSET (PriceSeries!Days \ covered)
  /\ today \in PriceSeries!Days \cup {None}
  /\ fetch \in {None} \cup DayRequests
  /\ points \in Series /\ latest \in Series

\* The series price the same hours alike from an hour on.
AgreeFrom(one, other, from) ==
  \A h \in PriceSeries!Hours : h >= from =>
    (h \in DOMAIN one <=> h \in DOMAIN other) /\ (h \in DOMAIN one => one[h] = other[h])

\* The journal holds what the feed last said, and the snapshot that of the days shown.
Held ==
  /\ PriceSeries!Decoded(priceRows) = latest
  /\ AgreeFrom(points, latest, PriceSeries!HistoryStart(priceNow))

InReach(day) == DayStart[day] >= PriceSeries!HistoryStart(priceNow)
DaysBack == (today - BackfillDays .. today - 1) \cap PriceSeries!Days
CoveredShown == \A d \in covered : InReach(d) => PriceSeries!FullyPriced(points, d)
SeenTo(day) == day \in covered \/ day \in short \/ PriceSeries!FullyPriced(points, day)
Asked(day) == fetch # None /\ fetch.from = DayStart[day]

\* A day of the backfill that is not seen to is still to fetch, or is being fetched.
BackfillAhead == \A d \in DaysBack : InReach(d) => SeenTo(d) \/ d \in todo \/ Asked(d)
OneDayAsked == fetch # None => \E d \in PriceSeries!Days : fetch.from = DayStart[d]
BackfillDone == \A d \in DaysBack : InReach(d) => SeenTo(d)

PriceInv ==
  /\ PriceTypes
  /\ DayStart[HistoryDays + 1] <= priceNow
  /\ ~priceLost => Held
  /\ IF phase = "down" THEN todo = {} ELSE CoveredShown
  /\ phase = "backfill" => BackfillAhead /\ OneDayAsked
  /\ phase = "polling" => BackfillDone

\* What is held from an hour on is still held.
KeepsFrom(before, after, from) == \A h \in DOMAIN before : h >= from => h \in DOMAIN after

LEMMA SeriesHours ==
  ASSUME NEW s \in Series
  PROVE  /\ DOMAIN s \in SUBSET PriceSeries!Hours
         /\ \A h \in DOMAIN s : h \in Int
<1>1. DOMAIN s \in SUBSET PriceSeries!Hours
  BY DEF Series, PriceSeries!Series
<1> QED
  BY <1>1, Calendar

\* `both` has what `new` prices of it, and the rest of `old`.
PutOver(both, old, new) ==
  /\ DOMAIN both = DOMAIN old \cup DOMAIN new
  /\ \A h \in DOMAIN both : both[h] = IF h \in DOMAIN new THEN new[h] ELSE old[h]

LEMMA InsertedFacts ==
  ASSUME NEW a \in Series, NEW b \in Series
  PROVE  PriceSeries!Inserted(a, b) \in Series /\ PutOver(PriceSeries!Inserted(a, b), a, b)
BY InsertedTypes DEF PriceSeries!Inserted, PutOver

\* An answer merged: of the anchors, and of a day of the backfill.
LEMMA MergedFacts ==
  ASSUME NEW held \in Series, NEW answer \in Series, NEW from \in Nat
  PROVE  LET merged == PriceSeries!Dropped(PriceSeries!Inserted(held, answer), from)
             filled == PriceSeries!Inserted(held, PriceSeries!Dropped(answer, from))
         IN \A after \in {merged, filled} :
              /\ after \in Series
              /\ KeepsFrom(held, after, from) /\ KeepsFrom(answer, after, from)
              /\ \A said \in Series :
                   AgreeFrom(held, said, from) => AgreeFrom(after, PriceSeries!Inserted(said, answer), from)
<1> DEFINE all == PriceSeries!Inserted(held, answer)
           tail == PriceSeries!Dropped(answer, from)
           merged == PriceSeries!Dropped(all, from)
           filled == PriceSeries!Inserted(held, tail)
<1>1. all \in Series /\ PutOver(all, held, answer)
  BY InsertedFacts
<1>2. tail \in Series /\ DOMAIN tail = {h \in DOMAIN answer : h >= from}
      /\ \A h \in DOMAIN tail : tail[h] = answer[h]
  BY DroppedFacts
<1> HIDE DEF all, tail
<1>3. merged \in Series /\ DOMAIN merged = {h \in DOMAIN all : h >= from}
      /\ \A h \in DOMAIN merged : merged[h] = all[h]
  BY <1>1, DroppedFacts
<1>4. filled \in Series /\ PutOver(filled, held, tail)
  BY <1>2, InsertedFacts
<1> HIDE DEF merged, filled
<1>5. ASSUME NEW after \in {merged, filled}
      PROVE  /\ after \in Series
             /\ KeepsFrom(held, after, from) /\ KeepsFrom(answer, after, from)
             /\ \A said \in Series :
                  AgreeFrom(held, said, from) => AgreeFrom(after, PriceSeries!Inserted(said, answer), from)
  <2>1. after \in Series
    BY <1>3, <1>4
  <2>2. ASSUME NEW h, h >= from
        PROVE  /\ h \in DOMAIN after <=> h \in DOMAIN held \/ h \in DOMAIN answer
               /\ h \in DOMAIN after => after[h] = IF h \in DOMAIN answer THEN answer[h] ELSE held[h]
    <3>1. CASE after = merged
      BY <1>1, <1>3, <2>2, <3>1 DEF PutOver
    <3>2. CASE after = filled
      BY <1>2, <1>4, <2>2, <3>2 DEF PutOver
    <3> QED
      BY <3>1, <3>2
  <2>3. KeepsFrom(held, after, from) /\ KeepsFrom(answer, after, from)
    BY <2>2 DEF KeepsFrom
  <2>4. ASSUME NEW said \in Series, AgreeFrom(held, said, from)
        PROVE  AgreeFrom(after, PriceSeries!Inserted(said, answer), from)
    <3> DEFINE next == PriceSeries!Inserted(said, answer)
    <3>1. PutOver(next, said, answer)
      BY InsertedFacts
    <3> HIDE DEF next
    <3>2. ASSUME NEW h \in PriceSeries!Hours, h >= from
          PROVE  (h \in DOMAIN after <=> h \in DOMAIN next) /\ (h \in DOMAIN after => after[h] = next[h])
      <4>1. (h \in DOMAIN held <=> h \in DOMAIN said) /\ (h \in DOMAIN held => held[h] = said[h])
        BY <2>4, <3>2 DEF AgreeFrom
      <4> QED
        BY <2>2, <3>1, <3>2, <4>1 DEF PutOver
    <3>3. AgreeFrom(after, next, from)
      BY <3>2 DEF AgreeFrom
    <3> QED
      BY <3>3 DEF next
  <2> QED
    BY <2>1, <2>3, <2>4
<1> QED
  BY <1>5 DEF merged, filled, all, tail

LEMMA AnswerTypes ==
  ASSUME NEW r \in DayRequests, NEW answer \in PriceSeries!Answers(r)
  PROVE  answer \in Series
<1>1. PICK end \in r.from .. r.until + 1, price \in PriceLevels :
        answer = PriceSeries!Within([h \in {x \in PriceSeries!Hours : r.from <= x /\ x < end} |-> price], r)
  BY DEF PriceSeries!Answers
<1> DEFINE hs == {x \in PriceSeries!Hours : r.from <= x /\ x < end}
           sent == [h \in hs |-> price]
           kept == {h \in DOMAIN sent : r.from <= h /\ h < r.until}
<1>2. answer = [h \in kept |-> sent[h]]
  BY <1>1 DEF PriceSeries!Within, PriceSeries!Restrict
<1>3. kept \in SUBSET PriceSeries!Hours
  OBVIOUS
<1>4. [h \in kept |-> sent[h]] \in [kept -> PriceLevels]
  OBVIOUS
<1> HIDE DEF kept, sent
<1> QED
  BY <1>2, <1>3, <1>4 DEF Series, PriceSeries!Series

\* A day priced whole stays so where it is shown.
LEMMA StaysPriced ==
  ASSUME NEW before \in Series, NEW after, NEW from \in Nat, KeepsFrom(before, after, from),
         NEW d \in PriceSeries!Days, DayStart[d] >= from, PriceSeries!FullyPriced(before, d)
  PROVE  PriceSeries!FullyPriced(after, d)
<1>1. d \in 1 .. Len(DayStart) /\ d + 1 \in 1 .. Len(DayStart)
  BY Calendar
<1>2. DayStart[d] \in Nat /\ DayStart[d + 1] \in Nat
  BY <1>1, Calendar
<1>3. \A h \in PriceSeries!HoursOf(d) : h \in Int /\ h >= from
  BY <1>2 DEF PriceSeries!HoursOf
<1> QED
  BY <1>3 DEF PriceSeries!FullyPriced, KeepsFrom

LEMMA PriceTypesOK == PriceTypes => PriceSeries!TypeOK
<1> SUFFICES ASSUME PriceTypes PROVE PriceSeries!TypeOK
  OBVIOUS
<1>1. \A i \in DOMAIN priceRows : priceRows[i] \in Series /\ priceRows[i] # <<>>
  BY DEF PriceTypes
<1>2. \A i \in DOMAIN priceRows : PriceSeries!IsSeries(priceRows[i]) /\ priceRows[i] # <<>>
  BY <1>1, SeriesTypes
<1>3. PriceSeries!IsSeries(points) /\ PriceSeries!IsSeries(latest)
  BY SeriesTypes DEF PriceTypes
<1> QED
  BY <1>2, <1>3 DEF PriceTypes, PriceSeries!TypeOK, DayRequests

LEMMA PriceInit == PriceSeries!Init => PriceInv
<1> SUFFICES ASSUME PriceSeries!Init PROVE PriceInv
  OBVIOUS
<1> DEFINE ahead == PriceSeries!Max({1, BackfillDays})
<1>1. ahead \in {1, BackfillDays} /\ ahead >= 1
  <2>1. \E x \in {1, BackfillDays} : \A y \in {1, BackfillDays} : x >= y
    BY PricesAssumption
  <2> QED
    BY <2>1 DEF PriceSeries!Max
<1>2. HistoryDays \in Nat /\ BackfillDays \in Nat /\ ahead \in Nat
  BY <1>1, PricesAssumption
<1>3. priceNow = DayStart[HistoryDays + ahead]
  BY DEF PriceSeries!Init
<1> HIDE DEF ahead
<1>4. HistoryDays + 1 \in 1 .. Len(DayStart) /\ HistoryDays + ahead \in 1 .. Len(DayStart) - 1
      /\ Len(DayStart) \in 1 .. Len(DayStart)
      /\ HistoryDays + ahead \in 1 .. Len(DayStart)
      /\ HistoryDays + ahead < Len(DayStart)
  BY <1>1, <1>2, Calendar
<1>5. HistoryDays + 1 = HistoryDays + ahead \/ HistoryDays + 1 < HistoryDays + ahead
  BY <1>1, <1>2
<1>6. DayStart[HistoryDays + 1] <= DayStart[HistoryDays + ahead]
      /\ DayStart[HistoryDays + ahead] < DayStart[Len(DayStart)]
      /\ DayStart[HistoryDays + ahead] \in Nat
  BY <1>4, <1>5, Calendar
<1>7. priceNow \in PriceSeries!Hours /\ DayStart[HistoryDays + 1] <= priceNow
  BY <1>3, <1>4, <1>6, Calendar
<1>8. priceRows \in Seq(Series) /\ priceRows \in Seq(Series \ {<<>>})
  BY DEF PriceSeries!Init
<1>9. PriceSeries!Decoded(priceRows) = <<>>
  BY <1>8, DecodedFacts DEF PriceSeries!Init
<1> QED
  BY <1>7, <1>8, <1>9, NoPrices DEF PriceSeries!Init, PriceInv, PriceTypes, Held, AgreeFrom

LEMMA HistoryFacts ==
  PriceInv => PriceSeries!HistoryStart(priceNow) \in Nat /\ PriceSeries!LocalDate(priceNow) \in PriceSeries!Days
BY Horizon, DayOfHour DEF PriceInv, PriceTypes

\* A step that changes neither what is held nor what the journal covers.
LEMMA QuietKeeps ==
  ASSUME PriceInv, UNCHANGED <<priceNow, priceRows, priceLost, points, latest, covered>>
  PROVE  /\ DayStart[HistoryDays + 1] <= priceNow'
         /\ (~priceLost => Held)'
         /\ phase # "down" => CoveredShown'
BY DEF PriceInv, Held, CoveredShown, InReach

\* The first anchor dealt with, the days back that are not covered are to fetch.
LEMMA BackfillsFacts ==
  ASSUME PriceInv, PriceSeries!Backfills, UNCHANGED <<priceNow, covered>>
  PROVE  /\ phase = "first" => phase' = "backfill" /\ \A d \in DaysBack' : d \in covered \/ d \in todo'
         /\ phase # "first" => UNCHANGED <<phase, today, todo>>
         /\ todo' \in SUBSET (PriceSeries!Days \ covered) /\ today' \in PriceSeries!Days \cup {None}
<1>1. CASE phase = "first"
  <2>1. phase' = "backfill" /\ today' = PriceSeries!LocalDate(priceNow)
        /\ todo' = PriceSeries!Missing(PriceSeries!LocalDate(priceNow), covered)
    BY <1>1 DEF PriceSeries!Backfills
  <2>2. today' \in PriceSeries!Days /\ todo' = PriceSeries!Missing(today', covered)
    BY <2>1, HistoryFacts
  <2>3. todo' = DaysBack' \cap (PriceSeries!Days \ covered) /\ DaysBack' \in SUBSET PriceSeries!Days
    BY <2>2 DEF PriceSeries!Missing, DaysBack
  <2> HIDE DEF DaysBack
  <2> QED
    BY <1>1, <2>1, <2>2, <2>3
<1>2. CASE phase # "first"
  BY <1>2 DEF PriceSeries!Backfills, PriceInv, PriceTypes
<1> QED
  BY <1>1, <1>2

LEMMA RowsAreSeries == PriceTypes => priceRows \in Seq(Series)
<1> SUFFICES ASSUME PriceTypes PROVE priceRows \in Seq(Series)
  OBVIOUS
<1>1. priceRows \in [1 .. Len(priceRows) -> Series] /\ Len(priceRows) \in Nat
  BY DEF PriceTypes
<1> QED
  BY <1>1, SeqDef

LEMMA StartKeeps == PriceInv /\ PriceSeries!Starts => PriceInv'
<1> SUFFICES ASSUME PriceInv, PriceSeries!Starts PROVE PriceInv'
  OBVIOUS
<1> DEFINE from == PriceSeries!HistoryStart(priceNow)
<1>1. from \in Nat
  BY HistoryFacts
<1>2. PICK journal \in {priceRows, <<>>} :
        /\ covered' = PriceSeries!Covered(PriceSeries!Decoded(journal))
        /\ points' = PriceSeries!Restored(PriceSeries!Decoded(journal))
        /\ priceLost' = (priceLost \/ journal # priceRows)
  BY DEF PriceSeries!Starts
<1>3. phase' = "first" /\ UNCHANGED <<priceNow, priceRows, todo, today, fetch, latest, short>> /\ phase = "down"
  BY DEF PriceSeries!Starts
<1>4. journal \in Seq(Series)
  <2>1. <<>> \in Seq(Series) /\ priceRows \in Seq(Series)
    BY RowsAreSeries DEF PriceInv
  <2> QED
    BY <1>2, <2>1
<1> DEFINE whole == PriceSeries!Decoded(journal)
<1>5. whole \in Series
  BY <1>4, DecodedFacts
<1> HIDE DEF whole
<1>6. points' \in Series /\ DOMAIN points' = {h \in DOMAIN whole : h >= from}
      /\ \A h \in DOMAIN points' : points'[h] = whole[h]
  <2>1. points' = PriceSeries!Dropped(whole, from)
    BY <1>2 DEF PriceSeries!Restored, whole
  <2> HIDE DEF from
  <2> QED
    BY <1>1, <1>5, <2>1, DroppedFacts
<1>7. covered' \in SUBSET PriceSeries!Days
  BY <1>2 DEF PriceSeries!Covered
<1>8. PriceTypes'
  <2>1. todo = {}
    BY <1>3 DEF PriceInv
  <2>2. priceLost' \in BOOLEAN
    BY <1>2
  <2> QED
    BY <1>3, <1>6, <1>7, <2>1, <2>2 DEF PriceInv, PriceTypes
<1>9. CoveredShown'
  <2> SUFFICES ASSUME NEW d \in covered', DayStart[d] >= from
               PROVE  PriceSeries!FullyPriced(points', d)
    BY <1>3 DEF CoveredShown, InReach
  <2>1. d \in PriceSeries!Days /\ PriceSeries!FullyPriced(whole, d)
    BY <1>2, <1>7 DEF PriceSeries!Covered, whole
  <2> HIDE DEF from
  <2>2. KeepsFrom(whole, points', from)
    BY <1>6 DEF KeepsFrom
  <2> QED
    BY <1>1, <1>5, <2>1, <2>2, StaysPriced
<1>10. (~priceLost => Held)'
  <2> SUFFICES ASSUME ~priceLost' PROVE Held'
    OBVIOUS
  <2>1. ~priceLost /\ journal = priceRows /\ whole = latest
    BY <1>2 DEF PriceInv, Held, whole
  <2>2. PriceSeries!Decoded(priceRows)' = latest'
    BY <1>3, <2>1 DEF whole
  <2>3. AgreeFrom(points', latest', from)
    <3> HIDE DEF from
    <3> QED
      BY <1>3, <1>6, <2>1 DEF AgreeFrom
  <2> QED
    BY <1>3, <2>2, <2>3 DEF Held
<1> QED
  BY <1>3, <1>8, <1>9, <1>10 DEF PriceInv

LEMMA QuestionKeeps ==
  PriceInv /\ (PriceSeries!NothingDue \/ PriceSeries!AsksAnchor) => PriceInv'
<1>1. ASSUME PriceInv, PriceSeries!NothingDue PROVE PriceInv'
  <2>1. phase = "first" /\ fetch = None /\ PriceSeries!Backfills
        /\ UNCHANGED <<priceNow, priceRows, priceLost, covered, fetch, points, latest, short>>
    BY <1>1 DEF PriceSeries!NothingDue
  <2>2. phase' = "backfill" /\ (\A d \in DaysBack' : d \in covered \/ d \in todo')
        /\ todo' \in SUBSET (PriceSeries!Days \ covered) /\ today' \in PriceSeries!Days \cup {None}
    BY <1>1, <2>1, BackfillsFacts
  <2>3. PriceTypes'
    BY <1>1, <2>1, <2>2 DEF PriceInv, PriceTypes
  <2>4. BackfillAhead' /\ OneDayAsked'
    BY <2>1, <2>2 DEF BackfillAhead, OneDayAsked, SeenTo
  <2> QED
    BY <1>1, <2>1, <2>2, <2>3, <2>4, QuietKeeps DEF PriceInv
<1>2. ASSUME PriceInv, PriceSeries!AsksAnchor PROVE PriceInv'
  <2>1. /\ phase \in {"first", "polling"} /\ PriceSeries!LocalDate(priceNow) + 2 \in DOMAIN DayStart
        /\ fetch' = PriceSeries!TodayAndTomorrow(PriceSeries!LocalDate(priceNow))
        /\ UNCHANGED <<priceNow, priceRows, priceLost, phase, covered, todo, today, points, latest, short>>
    BY <1>2 DEF PriceSeries!AsksAnchor
  <2>2. fetch' \in DayRequests
    <3> DEFINE d == PriceSeries!LocalDate(priceNow)
    <3>1. d \in PriceSeries!Days /\ DayStart[d] <= priceNow /\ priceNow \in PriceSeries!Hours
      BY <1>2, DayOfHour DEF PriceInv, PriceTypes
    <3>2. fetch' = [from |-> DayStart[d], until |-> DayStart[d + 2]] /\ d + 2 \in DOMAIN DayStart
      BY <2>1 DEF PriceSeries!TodayAndTomorrow
    <3> HIDE DEF d
    <3>3. d \in 1 .. Len(DayStart) /\ d + 2 \in 1 .. Len(DayStart) /\ Len(DayStart) \in 1 .. Len(DayStart)
      <4>1. d + 2 \in 1 .. Len(DayStart)
        BY <3>2, PricesAssumption
      <4>2. Len(DayStart) \in Nat /\ d \in 1 .. Len(DayStart) - 1
        BY <3>1, Calendar
      <4> QED
        BY <4>1, <4>2
    <3>4. d + 2 = Len(DayStart) \/ d + 2 < Len(DayStart)
      BY <3>3
    <3>5. DayStart[d + 2] <= DayStart[Len(DayStart)] /\ DayStart[d] \in Nat /\ DayStart[d + 2] \in Nat
          /\ DayStart[Len(DayStart)] \in Nat
      BY <3>3, <3>4, Calendar
    <3> QED
      BY <3>1, <3>2, <3>5, Calendar DEF DayRequests
  <2>3. PriceTypes'
    BY <1>2, <2>1, <2>2 DEF PriceInv, PriceTypes
  <2>4. (phase = "polling" => BackfillDone)'
    BY <1>2, <2>1 DEF PriceInv, BackfillDone, DaysBack, InReach, SeenTo
  <2> QED
    BY <1>2, <2>1, <2>3, <2>4, QuietKeeps DEF PriceInv
<1> QED
  BY <1>1, <1>2

LEMMA AskDayKeeps == PriceInv /\ PriceSeries!AsksDay => PriceInv'
<1> SUFFICES ASSUME PriceInv, PriceSeries!AsksDay PROVE PriceInv'
  OBVIOUS
<1> DEFINE d == PriceSeries!Min(todo)
<1>1. /\ phase = "backfill" /\ fetch = None /\ todo # {}
      /\ fetch' = [from |-> DayStart[d], until |-> DayStart[d + 1]] /\ todo' = todo \ {d}
      /\ UNCHANGED <<priceNow, priceRows, priceLost, phase, covered, today, points, latest, short>>
  BY DEF PriceSeries!AsksDay
<1>2. d \in todo /\ d \in PriceSeries!Days
  <2>1. todo \in SUBSET Nat /\ todo \in SUBSET PriceSeries!Days
    BY Calendar DEF PriceInv, PriceTypes
  <2>2. PICK x \in todo : \A y \in todo : x <= y
    BY <1>1, <2>1, LeastNat
  <2>3. d \in todo
    BY <2>2 DEF PriceSeries!Min
  <2> QED
    BY <2>1, <2>3
<1> HIDE DEF d
<1>3. fetch' \in DayRequests
  <2>1. d \in 1 .. Len(DayStart) /\ d + 1 \in 1 .. Len(DayStart) /\ Len(DayStart) \in 1 .. Len(DayStart)
        /\ d < Len(DayStart)
    BY <1>2, Calendar, PricesAssumption
  <2>2. d + 1 = Len(DayStart) \/ d + 1 < Len(DayStart)
    BY <2>1
  <2>3. DayStart[d + 1] <= DayStart[Len(DayStart)] /\ DayStart[d] < DayStart[Len(DayStart)]
        /\ DayStart[d] \in Nat /\ DayStart[d + 1] \in Nat /\ DayStart[Len(DayStart)] \in Nat
    BY <2>1, <2>2, Calendar
  <2> QED
    BY <1>1, <2>3, Calendar DEF DayRequests
<1>4. PriceTypes'
  BY <1>1, <1>3 DEF PriceInv, PriceTypes
<1>5. OneDayAsked'
  BY <1>1, <1>2 DEF OneDayAsked
<1>6. fetch' # None
  <2>1. fetch' \in [from : Int, until : Int]
    <3>1. \A h \in PriceSeries!Hours \cup (0 .. DayStart[Len(DayStart)]) : h \in Int
      BY Calendar
    <3> QED
      BY <1>3, <3>1 DEF DayRequests
  <2> QED
    BY <2>1, PricesAssumption
<1>7. BackfillAhead'
  <2> SUFFICES ASSUME NEW e \in DaysBack, InReach(e) PROVE SeenTo(e) \/ e \in todo' \/ Asked(e)'
    BY <1>1 DEF BackfillAhead, DaysBack, InReach, SeenTo
  <2>1. SeenTo(e) \/ e \in todo
    BY <1>1 DEF PriceInv, BackfillAhead, Asked
  <2>2. e = d => Asked(e)'
    BY <1>1, <1>6 DEF Asked
  <2> QED
    BY <1>1, <2>1, <2>2
<1> QED
  BY <1>1, <1>4, <1>5, <1>7, QuietKeeps DEF PriceInv

\* A day whose fetch is over is priced whole or came short.
LEMMA ShortfallFacts ==
  ASSUME PriceInv, phase = "backfill", fetch # None, NEW answer \in Series \cup {<<>>}
  PROVE  /\ PriceSeries!Shortfall(answer) \in SUBSET PriceSeries!Days
         /\ \A d \in PriceSeries!Days :
              Asked(d) => d \in PriceSeries!Shortfall(answer) \/ PriceSeries!FullyPriced(answer, d)
<1>1. fetch.from \in PriceSeries!Hours
  BY DEF PriceInv, PriceTypes, DayRequests
<1>2. PriceSeries!LocalDate(fetch.from) \in PriceSeries!Days
  BY <1>1, DayOfHour
<1>3. \A d \in PriceSeries!Days : Asked(d) => d = PriceSeries!LocalDate(fetch.from)
  BY <1>1, DaysInOrder DEF Asked
<1> QED
  BY <1>2, <1>3 DEF PriceSeries!Shortfall

\* An answer, or none: the snapshot keeps what it has of the days shown, and the
\* backfill's day is seen to.
LEMMA FetchOver ==
  ASSUME PriceInv, fetch # None, NEW answer \in Series \cup {<<>>},
         points' \in Series,
         KeepsFrom(points, points', PriceSeries!HistoryStart(priceNow)),
         KeepsFrom(answer, points', PriceSeries!HistoryStart(priceNow)),
         short' = short \cup PriceSeries!Shortfall(answer), fetch' = None, PriceSeries!Backfills,
         UNCHANGED <<priceNow, covered>>
  PROVE  /\ CoveredShown' \/ phase = "down"
         /\ (phase = "backfill" => BackfillAhead /\ OneDayAsked)'
         /\ (phase = "polling" => BackfillDone)'
         /\ short' \in SUBSET PriceSeries!Days
         /\ phase' \in {"down", "first", "backfill", "polling"}
         /\ phase = "down" => phase' = "down" /\ todo' = todo
         /\ phase # "down" => phase' # "down"
         /\ todo' \in SUBSET (PriceSeries!Days \ covered) /\ today' \in PriceSeries!Days \cup {None}
<1> DEFINE from == PriceSeries!HistoryStart(priceNow)
<1>1. from \in Nat /\ PriceSeries!HistoryStart(priceNow)' = from
  BY HistoryFacts
<1>2. points \in Series /\ answer \in Series /\ covered \in SUBSET PriceSeries!Days
      /\ short \in SUBSET PriceSeries!Days /\ phase \in {"down", "first", "backfill", "polling"}
  BY NoPrices DEF PriceInv, PriceTypes
<1>3. \A d \in PriceSeries!Days : InReach(d)' = (DayStart[d] >= from) /\ InReach(d) = (DayStart[d] >= from)
  BY <1>1 DEF InReach
<1> HIDE DEF from
<1>4. \A d \in PriceSeries!Days : InReach(d) /\ PriceSeries!FullyPriced(points, d)
                                  => PriceSeries!FullyPriced(points', d)
  BY <1>1, <1>2, <1>3, StaysPriced DEF from
<1>5. \A d \in PriceSeries!Days : InReach(d) /\ PriceSeries!FullyPriced(answer, d)
                                  => PriceSeries!FullyPriced(points', d)
  BY <1>1, <1>2, <1>3, StaysPriced DEF from
<1>6. CoveredShown' \/ phase = "down"
  BY <1>2, <1>3, <1>4 DEF PriceInv, CoveredShown
<1>7. short \subseteq short' /\ short' \in SUBSET PriceSeries!Days
  <2>1. PriceSeries!Shortfall(answer) \in SUBSET PriceSeries!Days
    BY ShortfallFacts DEF PriceSeries!Shortfall
  <2> QED
    BY <1>2, <2>1
<1>8. \A d \in PriceSeries!Days : InReach(d) /\ SeenTo(d) => SeenTo(d)'
  BY <1>4, <1>7 DEF SeenTo
<1>9. /\ phase = "first" => phase' = "backfill" /\ \A d \in DaysBack' : d \in covered \/ d \in todo'
      /\ phase # "first" => UNCHANGED <<phase, today, todo>>
      /\ todo' \in SUBSET (PriceSeries!Days \ covered) /\ today' \in PriceSeries!Days \cup {None}
  BY BackfillsFacts
<1>10. (phase = "backfill" => BackfillAhead /\ OneDayAsked)'
  <2>1. CASE phase = "first"
    BY <1>9, <2>1 DEF BackfillAhead, OneDayAsked, SeenTo
  <2>2. CASE phase = "backfill"
    <3> SUFFICES ASSUME NEW d \in DaysBack, InReach(d) PROVE SeenTo(d)' \/ d \in todo
      <4>1. DaysBack' = DaysBack
        BY <1>9, <2>2 DEF DaysBack
      <4>2. \A d \in DaysBack : InReach(d)' = InReach(d)
        BY <1>3 DEF DaysBack
      <4> QED
        BY <1>9, <2>2, <4>1, <4>2 DEF BackfillAhead, OneDayAsked
    <3>1. d \in PriceSeries!Days
      BY DEF DaysBack
    <3>2. SeenTo(d) \/ d \in todo \/ Asked(d)
      BY <2>2 DEF PriceInv, BackfillAhead
    <3>3. Asked(d) => d \in short' \/ PriceSeries!FullyPriced(answer, d)
      BY <2>2, <3>1, ShortfallFacts
    <3> QED
      BY <1>5, <1>8, <3>1, <3>2, <3>3 DEF SeenTo
  <2>3. CASE phase \notin {"first", "backfill"}
    BY <1>9, <2>3
  <2> QED
    BY <2>1, <2>2, <2>3
<1>11. (phase = "polling" => BackfillDone)'
  <2>1. CASE phase = "polling"
    <3> SUFFICES ASSUME NEW d \in DaysBack, InReach(d) PROVE SeenTo(d)'
      <4>1. DaysBack' = DaysBack
        BY <1>9, <2>1 DEF DaysBack
      <4>2. \A d \in DaysBack : InReach(d)' = InReach(d)
        BY <1>3 DEF DaysBack
      <4> QED
        BY <4>1, <4>2 DEF BackfillDone
    <3>1. d \in PriceSeries!Days /\ SeenTo(d)
      BY <2>1 DEF PriceInv, BackfillDone, DaysBack
    <3> QED
      BY <1>8, <3>1
  <2>2. CASE phase # "polling"
    BY <1>9, <2>2
  <2> QED
    BY <2>1, <2>2
<1> QED
  BY <1>2, <1>6, <1>7, <1>9, <1>10, <1>11

LEMMA FailKeeps == PriceInv /\ PriceSeries!Fails => PriceInv'
<1> SUFFICES ASSUME PriceInv, PriceSeries!Fails PROVE PriceInv'
  OBVIOUS
<1>1. /\ fetch # None /\ short' = short \cup PriceSeries!Shortfall(<<>>) /\ fetch' = None
      /\ PriceSeries!Backfills
      /\ UNCHANGED <<priceNow, priceRows, priceLost, covered, points, latest>>
  BY DEF PriceSeries!Fails
<1>2. points' \in Series /\ KeepsFrom(points, points', PriceSeries!HistoryStart(priceNow))
      /\ KeepsFrom(<<>>, points', PriceSeries!HistoryStart(priceNow))
  BY <1>1 DEF PriceInv, PriceTypes, KeepsFrom
<1>3. /\ CoveredShown' \/ phase = "down"
      /\ (phase = "backfill" => BackfillAhead /\ OneDayAsked)'
      /\ (phase = "polling" => BackfillDone)'
      /\ short' \in SUBSET PriceSeries!Days
      /\ phase' \in {"down", "first", "backfill", "polling"}
      /\ phase = "down" => phase' = "down" /\ todo' = todo
      /\ phase # "down" => phase' # "down"
      /\ todo' \in SUBSET (PriceSeries!Days \ covered) /\ today' \in PriceSeries!Days \cup {None}
  BY <1>1, <1>2, FetchOver
<1>4. PriceTypes'
  BY <1>1, <1>3 DEF PriceInv, PriceTypes
<1>5. (IF phase = "down" THEN todo = {} ELSE CoveredShown)'
  BY <1>3 DEF PriceInv
<1> QED
  BY <1>1, <1>3, <1>4, <1>5, QuietKeeps DEF PriceInv

LEMMA AnswerKeeps == PriceInv /\ PriceSeries!Answered => PriceInv'
<1> SUFFICES ASSUME PriceInv, PriceSeries!Answered PROVE PriceInv'
  OBVIOUS
<1> DEFINE from == PriceSeries!HistoryStart(priceNow)
<1>1. PICK answer \in PriceSeries!Answers(fetch) \ {<<>>} :
        /\ \/ priceRows' = Append(priceRows, answer) /\ UNCHANGED priceLost
           \/ priceLost' = TRUE /\ UNCHANGED priceRows
        /\ points' = IF phase = "backfill" THEN PriceSeries!Backfilled(answer) ELSE PriceSeries!Merged(answer)
        /\ latest' = PriceSeries!Inserted(latest, answer)
        /\ short' = short \cup PriceSeries!Shortfall(answer)
  BY DEF PriceSeries!Answered
<1>2. fetch # None /\ fetch' = None /\ PriceSeries!Backfills /\ UNCHANGED <<priceNow, covered>>
  BY DEF PriceSeries!Answered
<1>3. answer \in Series /\ answer # <<>> /\ from \in Nat
  BY <1>2, AnswerTypes, HistoryFacts DEF PriceInv, PriceTypes
<1>4. points \in Series /\ latest \in Series /\ priceRows \in Seq(Series)
  BY RowsAreSeries DEF PriceInv, PriceTypes
<1>5. points' \in {PriceSeries!Dropped(PriceSeries!Inserted(points, answer), from),
                   PriceSeries!Inserted(points, PriceSeries!Dropped(answer, from))}
  BY <1>1 DEF PriceSeries!Backfilled, PriceSeries!Merged
<1> HIDE DEF from
<1>6. /\ points' \in Series
      /\ KeepsFrom(points, points', from) /\ KeepsFrom(answer, points', from)
      /\ AgreeFrom(points, latest, from) => AgreeFrom(points', latest', from)
  BY <1>1, <1>3, <1>4, <1>5, MergedFacts
<1>7. latest' \in Series
  BY <1>1, <1>3, <1>4, InsertedTypes
<1>8. /\ CoveredShown' \/ phase = "down"
      /\ (phase = "backfill" => BackfillAhead /\ OneDayAsked)'
      /\ (phase = "polling" => BackfillDone)'
      /\ short' \in SUBSET PriceSeries!Days
      /\ phase' \in {"down", "first", "backfill", "polling"}
      /\ phase = "down" => phase' = "down" /\ todo' = todo
      /\ phase # "down" => phase' # "down"
      /\ todo' \in SUBSET (PriceSeries!Days \ covered) /\ today' \in PriceSeries!Days \cup {None}
  BY <1>1, <1>2, <1>3, <1>6, FetchOver DEF from
<1>9. priceRows' \in Seq(Series \ {<<>>}) /\ priceLost' \in BOOLEAN
  <2> DEFINE Priced == Series \ {<<>>}
  <2>1. answer \in Priced /\ priceRows \in Seq(Priced) /\ priceLost \in BOOLEAN
    BY <1>3 DEF PriceInv, PriceTypes
  <2> HIDE DEF Priced
  <2>2. (priceRows' = Append(priceRows, answer) \/ priceRows' = priceRows) /\ priceLost' \in BOOLEAN
    BY <1>1, <2>1
  <2>3. Append(priceRows, answer) \in Seq(Priced)
    BY <2>1
  <2>4. priceRows' \in Seq(Priced)
    BY <2>1, <2>2, <2>3
  <2> QED
    BY <2>2, <2>4 DEF Priced
<1>10. PriceTypes'
  BY <1>2, <1>6, <1>7, <1>8, <1>9 DEF PriceInv, PriceTypes
<1>11. (~priceLost => Held)'
  <2> SUFFICES ASSUME ~priceLost' PROVE Held'
    OBVIOUS
  <2>1. ~priceLost /\ priceRows' = Append(priceRows, answer)
    BY <1>1
  <2>2. PriceSeries!Decoded(priceRows) = latest /\ AgreeFrom(points, latest, from)
    BY <2>1 DEF PriceInv, Held, from
  <2>3. PriceSeries!Decoded(priceRows') = latest'
    BY <1>1, <1>3, <1>4, <2>1, <2>2, DecodedFacts
  <2>4. AgreeFrom(points', latest', from)
    BY <1>6, <2>2
  <2> QED
    BY <1>2, <2>3, <2>4 DEF Held, from
<1>12. (IF phase = "down" THEN todo = {} ELSE CoveredShown)'
  BY <1>8 DEF PriceInv
<1>13. DayStart[HistoryDays + 1] <= priceNow'
  BY <1>2 DEF PriceInv
<1> QED
  BY <1>8, <1>10, <1>11, <1>12, <1>13 DEF PriceInv

LEMMA SettleKeeps == PriceInv /\ PriceSeries!Settles => PriceInv'
<1> SUFFICES ASSUME PriceInv, PriceSeries!Settles PROVE PriceInv'
  OBVIOUS
<1>1. /\ phase = "backfill" /\ todo = {} /\ fetch = None /\ phase' = "polling"
      /\ UNCHANGED <<priceNow, priceRows, priceLost, covered, todo, today, fetch, points, latest, short>>
  BY DEF PriceSeries!Settles
<1>2. BackfillDone
  BY <1>1 DEF PriceInv, BackfillAhead, BackfillDone, Asked
<1>3. BackfillDone'
  BY <1>1, <1>2 DEF BackfillDone, DaysBack, InReach, SeenTo
<1>4. PriceTypes'
  BY <1>1 DEF PriceInv, PriceTypes
<1> QED
  BY <1>1, <1>3, <1>4, QuietKeeps DEF PriceInv

LEMMA StopKeeps == PriceInv /\ PriceSeries!Stops => PriceInv'
<1> SUFFICES ASSUME PriceInv, PriceSeries!Stops PROVE PriceInv'
  OBVIOUS
<1>1. /\ phase' = "down" /\ fetch' = None /\ covered' = {} /\ todo' = {} /\ today' = None /\ short' = {}
      /\ UNCHANGED <<priceNow, priceRows, priceLost, points, latest>>
  BY DEF PriceSeries!Stops
<1>2. PriceTypes'
  BY <1>1 DEF PriceInv, PriceTypes
<1>3. (~priceLost => Held)'
  BY <1>1 DEF PriceInv, Held
<1> QED
  BY <1>1, <1>2, <1>3 DEF PriceInv

LEMMA PricePassKeeps == PriceInv /\ PriceSeries!Passes => PriceInv'
<1> SUFFICES ASSUME PriceInv, PriceSeries!Passes PROVE PriceInv'
  OBVIOUS
<1>1. /\ priceNow + 1 \in PriceSeries!Hours /\ priceNow' = priceNow + 1
      /\ UNCHANGED <<priceRows, priceLost, phase, covered, todo, today, fetch, points, latest, short>>
  BY DEF PriceSeries!Passes
<1>2. priceNow \in PriceSeries!Hours /\ priceNow \in Nat /\ DayStart[HistoryDays + 1] <= priceNow
  BY Calendar DEF PriceInv, PriceTypes
<1>3. HistoryDays + 1 \in 1 .. Len(DayStart)
  BY Calendar, PricesAssumption
<1>4. DayStart[HistoryDays + 1] \in Nat
  BY <1>3, Calendar
<1>5. DayStart[HistoryDays + 1] <= priceNow' /\ priceNow <= priceNow'
  BY <1>1, <1>2, <1>4
<1> DEFINE from == PriceSeries!HistoryStart(priceNow)
           next == PriceSeries!HistoryStart(priceNow + 1)
<1>6. from \in Nat /\ next \in Nat
  BY <1>1, <1>2, <1>5, Horizon
<1>7. from <= next
  BY <1>1, <1>2, <1>5, HorizonAdvances
<1>8. PriceSeries!HistoryStart(priceNow)' = next
  BY <1>1
<1> HIDE DEF from, next
<1>9. \A d \in PriceSeries!Days : InReach(d)' => InReach(d)
  <2> SUFFICES ASSUME NEW d \in PriceSeries!Days, DayStart[d] >= next PROVE DayStart[d] >= from
    BY <1>8 DEF InReach, from
  <2>1. d \in 1 .. Len(DayStart)
    BY Calendar
  <2>2. DayStart[d] \in Nat
    BY <2>1, Calendar
  <2> QED
    BY <1>6, <1>7, <2>2
<1>10. PriceTypes'
  BY <1>1 DEF PriceInv, PriceTypes
<1>11. (~priceLost => Held)'
  <2> SUFFICES ASSUME ~priceLost, AgreeFrom(points, latest, from) PROVE AgreeFrom(points, latest, next)
    BY <1>1, <1>8 DEF PriceInv, Held, from
  <2>1. \A h \in PriceSeries!Hours : h >= next => h >= from
    <3>1. \A h \in PriceSeries!Hours : h \in Int
      BY Calendar
    <3> QED
      BY <1>6, <1>7, <3>1
  <2> QED
    BY <2>1 DEF AgreeFrom
<1>12. (IF phase = "down" THEN todo = {} ELSE CoveredShown)'
  <2>1. covered \in SUBSET PriceSeries!Days
    BY DEF PriceInv, PriceTypes
  <2> QED
    BY <1>1, <1>9, <2>1 DEF PriceInv, CoveredShown
<1>13. DaysBack' = DaysBack /\ DaysBack \in SUBSET PriceSeries!Days
       /\ \A d : SeenTo(d)' = SeenTo(d) /\ Asked(d)' = Asked(d)
  BY <1>1 DEF DaysBack, SeenTo, Asked
<1>14. (phase = "backfill" => BackfillAhead /\ OneDayAsked)'
  BY <1>1, <1>9, <1>13 DEF PriceInv, BackfillAhead, OneDayAsked
<1>15. (phase = "polling" => BackfillDone)'
  BY <1>1, <1>9, <1>13 DEF PriceInv, BackfillDone
<1> QED
  BY <1>5, <1>10, <1>11, <1>12, <1>14, <1>15 DEF PriceInv

LEMMA PricesUnchanged == PriceInv /\ UNCHANGED priceVars => PriceInv'
BY DEF priceVars, PriceInv, PriceTypes, Held, CoveredShown, BackfillAhead, BackfillDone, OneDayAsked,
       DaysBack, InReach, SeenTo, Asked

LEMMA PriceStep == [Next]_vars => PriceSeries!Next \/ UNCHANGED priceVars
BY DEF Next, vars

\* Whichever reader of the records runs, the invariant of the prices is kept.
THEOREM PriceInvariance == Spec => []PriceInv
<1>1. Init => PriceInv
  BY PriceInit DEF Init
<1>2. PriceInv /\ [Next]_vars => PriceInv'
  BY PriceStep, PricesUnchanged, StartKeeps, QuestionKeeps, AskDayKeeps, AnswerKeeps, FailKeeps, SettleKeeps,
     StopKeeps, PricePassKeeps DEF PriceSeries!Next
<1> QED
  BY <1>1, <1>2, PTL DEF Spec

\* prices/mod.rs: unless a row never got to the journal, a restart changes no price
\* that is shown and none that is shown is out of date; and when the poller has been
\* through the days back, each that is shown is priced whole unless its fetch came
\* short, whatever stray hours the journal holds, and whenever it was restarted.
THEOREM PricesAreKept == Spec => []PricesKept
<1>1. PriceInv => PriceSeries!TypeOK
  BY PriceTypesOK DEF PriceInv
<1>2. PriceInv => PriceSeries!RestartKeepsPrices
  <2> SUFFICES ASSUME PriceInv, ~priceLost
               PROVE  PriceSeries!Restored(PriceSeries!Decoded(priceRows))
                        = PriceSeries!Dropped(points, PriceSeries!HistoryStart(priceNow))
    BY DEF PriceSeries!RestartKeepsPrices
  <2> DEFINE from == PriceSeries!HistoryStart(priceNow)
  <2>1. from \in Nat /\ points \in Series /\ latest \in Series
    BY HistoryFacts DEF PriceInv, PriceTypes
  <2>2. PriceSeries!Restored(PriceSeries!Decoded(priceRows)) = PriceSeries!Dropped(latest, from)
    BY DEF PriceInv, Held, PriceSeries!Restored
  <2>3. AgreeFrom(points, latest, from)
    BY DEF PriceInv, Held
  <2> HIDE DEF from
  <2> DEFINE read == PriceSeries!Dropped(latest, from)
             kept == PriceSeries!Dropped(points, from)
  <2>4. read \in Series /\ DOMAIN read = {h \in DOMAIN latest : h >= from}
        /\ \A h \in DOMAIN read : read[h] = latest[h]
    BY <2>1, DroppedFacts
  <2>5. kept \in Series /\ DOMAIN kept = {h \in DOMAIN points : h >= from}
        /\ \A h \in DOMAIN kept : kept[h] = points[h]
    BY <2>1, DroppedFacts
  <2> HIDE DEF read, kept
  <2>6. DOMAIN points \in SUBSET PriceSeries!Hours /\ DOMAIN latest \in SUBSET PriceSeries!Hours
    BY <2>1, SeriesHours
  <2>7. DOMAIN read = DOMAIN kept /\ \A h \in DOMAIN read : read[h] = kept[h]
    BY <2>3, <2>4, <2>5, <2>6 DEF AgreeFrom
  <2>8. read = [h \in DOMAIN read |-> read[h]] /\ kept = [h \in DOMAIN kept |-> kept[h]]
    BY <2>4, <2>5, SeriesTypes
  <2>9. read = kept
    BY <2>7, <2>8
  <2> QED
    BY <2>2, <2>9 DEF read, kept, from
<1>3. PriceInv => PriceSeries!FreshestShown
  <2>1. PriceInv => DOMAIN points \in SUBSET PriceSeries!Hours
    BY SeriesHours DEF PriceInv, PriceTypes
  <2> QED
    BY <2>1 DEF PriceInv, Held, AgreeFrom, PriceSeries!FreshestShown
<1>4. PriceInv => PriceSeries!PastIsWhole
  <2> SUFFICES ASSUME PriceInv, phase = "polling", NEW d \in DaysBack, InReach(d)
               PROVE  d \in short \/ PriceSeries!FullyPriced(points, d)
    BY DEF PriceSeries!PastIsWhole, DaysBack, InReach
  <2>1. SeenTo(d)
    BY DEF PriceInv, BackfillDone
  <2>2. d \in covered => PriceSeries!FullyPriced(points, d)
    BY DEF PriceInv, CoveredShown
  <2> QED
    BY <2>1, <2>2 DEF SeenTo
<1>5. PriceInv => PricesKept
  BY <1>1, <1>2, <1>3, <1>4 DEF PricesKept, PriceSeries!PricesKept
<1> QED
  BY <1>5, PriceInvariance, PTL

-----------------------------------------------------------------------------
(* The dashboard: the decision log.                                           *)

Decisions == [number : Nat, command : Commands]
LogRows == [first : Nat, repeats : Nat, decision : Decisions]

\* A log as it is whatever the journal dropped.
Sound(entries, top) ==
  /\ entries \in Seq(LogRows) /\ Len(entries) <= LogCapacity
  /\ \A i \in 1 .. Len(entries) :
       /\ entries[i].repeats >= 1 /\ 1 <= entries[i].first
       /\ entries[i].first <= entries[i].decision.number /\ entries[i].decision.number <= top
       /\ i > 1 => entries[i].decision.command # entries[i - 1].decision.command

\* A row is all the decisions of its span, of one command.
RowOf(row, upto, all) ==
  /\ row.decision.number \in 1 .. upto /\ row.decision = all[row.decision.number]
  /\ row.repeats = row.decision.number - row.first + 1
  /\ \A k \in row.first .. row.decision.number : all[k].command = row.decision.command

\* A log of all decisions from some number on.
Tight(entries, upto, all) ==
  /\ \A i \in 1 .. Len(entries) :
       /\ RowOf(entries[i], upto, all)
       /\ i > 1 => entries[i].first = entries[i - 1].decision.number + 1
  /\ entries # <<>> => entries[Len(entries)].decision.number = upto

\* It goes back as far as a restart would.
Reaches(entries, upto) ==
  upto > 0 => entries # <<>> /\ (entries[1].first = 1 \/ entries[1].first <= upto - LogCapacity + 1)

Numbered == \A i \in 1 .. Len(recorded) : recorded[i].number = i

\* The journal's decisions, in order.
Records ==
  /\ recorded \in Seq(Decisions) /\ folded \in Nat
  /\ \A i \in 1 .. Len(recorded) :
       /\ 1 <= recorded[i].number /\ recorded[i].number <= folded
       /\ i > 1 => recorded[i - 1].number < recorded[i].number

\* No decision is missing, and the log goes back as far as theirs do.
Entire ==
  /\ Len(recorded) = folded /\ Numbered
  /\ Tight(log, folded, recorded) /\ Reaches(log, folded)

LogTypes ==
  /\ folded \in 0 .. MaxDecisions /\ dropped \in BOOLEAN /\ running \in BOOLEAN
  /\ prices \in 0 .. MaxFetches /\ (lastDecision = None \/ Dashboard!IsDecision(lastDecision))

Stream(p) ==
  \/ page[p] = None
  \/ /\ DOMAIN page[p] = {"behind", "sent"} /\ page[p] = [k \in {"behind", "sent"} |-> page[p][k]]
     /\ page[p].behind \in BOOLEAN /\ DOMAIN page[p].sent \subseteq Dashboard!Fragments

Streaming == page = [p \in Pages |-> page[p]] /\ \A p \in Pages : Stream(p)

LogInv ==
  /\ LogTypes /\ Records
  /\ Sound(log, folded) /\ (~dropped => Entire)
  /\ Streaming /\ (running \/ \A p \in Pages : page[p] = None)
  /\ Dashboard!PageShowsState

\* Either the last row takes the decision, or there is one row more, and the oldest
\* goes if there is no room for it.
Grown(r, l, n, d) ==
  /\ r \in Seq(LogRows) /\ Len(r) <= LogCapacity /\ Len(r) <= n + 1 /\ r # <<>> /\ Len(r) \in Nat \ {0}
  /\ r[Len(r)].decision = d
  /\ \/ /\ n # 0 /\ l[n].decision.command = d.command
        /\ Len(r) = n /\ \A i \in 1 .. n - 1 : r[i] = l[i]
        /\ r[n].first = l[n].first /\ r[n].repeats = l[n].repeats + 1
     \/ /\ n = 0 \/ l[n].decision.command # d.command
        /\ r[Len(r)].first = d.number /\ r[Len(r)].repeats = 1
        /\ \/ n < LogCapacity /\ Len(r) = n + 1 /\ \A i \in 1 .. n : r[i] = l[i]
           \/ n = LogCapacity /\ Len(r) = n /\ \A i \in 1 .. n - 1 : r[i] = l[i + 1]

LEMMA LoggedFacts ==
  ASSUME NEW l \in Seq(LogRows), NEW d \in Decisions, Len(l) <= LogCapacity
  PROVE  Grown(Dashboard!Logged(l, d), l, Len(l), d)
<1> DEFINE r == Dashboard!Logged(l, d)
           n == Len(l)
           new == [first |-> d.number, repeats |-> 1, decision |-> d]
<1>1. n \in Nat /\ LogCapacity \in Nat \ {0} /\ d.number \in Nat /\ new \in LogRows
      /\ \A i \in 1 .. n : l[i] \in LogRows
  <2>1. d.number \in Nat
    BY DEF Decisions
  <2>2. new \in LogRows
    BY <2>1 DEF LogRows
  <2> HIDE DEF new
  <2> QED
    BY <2>1, <2>2, DashboardAssumption
<1>2. l # <<>> <=> n # 0
  OBVIOUS
<1>3. n # 0 => Dashboard!Last(l) = l[n]
  BY DEF Dashboard!Last
<1>4. CASE n # 0 /\ l[n].decision.command = d.command
  <2> DEFINE more == [first |-> l[n].first, repeats |-> l[n].repeats + 1, decision |-> d]
  <2>1. n \in 1 .. n /\ l[n] \in LogRows
    BY <1>1, <1>4
  <2>2. more \in LogRows
    BY <2>1 DEF LogRows
  <2>3. r = [l EXCEPT ![n] = more]
    BY <1>2, <1>3, <1>4 DEF Dashboard!Logged, Dashboard!RunsOn
  <2> HIDE DEF more
  <2>4. r \in Seq(LogRows) /\ Len(r) = n /\ r[n] = more /\ \A i \in 1 .. n - 1 : r[i] = l[i]
    <3> HIDE DEF r
    <3> QED
      BY <1>1, <2>1, <2>2, <2>3
  <2> HIDE DEF r
  <2>5. r # <<>>
    BY <1>4, <2>4
  <2>6. r[n].first = l[n].first /\ r[n].repeats = l[n].repeats + 1 /\ r[n].decision = d
    BY <2>4 DEF more
  <2>7. Len(r) <= LogCapacity /\ Len(r) <= n + 1 /\ Len(r) \in Nat \ {0}
    BY <1>1, <1>4, <2>4
  <2> QED
    <3>1. Grown(r, l, n, d)
      BY <1>4, <2>4, <2>5, <2>6, <2>7 DEF Grown
    <3> QED
      BY <3>1 DEF r
<1>5. CASE n = 0 \/ l[n].decision.command # d.command
  <2>1. r = Append(IF n = LogCapacity THEN Tail(l) ELSE l, new)
    BY <1>2, <1>3, <1>5 DEF Dashboard!Logged, Dashboard!RunsOn
  <2> HIDE DEF r, new
  <2>2. CASE n = LogCapacity
    <3> DEFINE kept == Tail(l)
    <3>1. r = Append(kept, new)
      BY <2>1, <2>2
    <3>2. kept \in Seq(LogRows) /\ Len(kept) = n - 1 /\ \A i \in 1 .. n - 1 : kept[i] = l[i + 1]
      BY <1>1, <1>2, <2>2
    <3> HIDE DEF kept
    <3>3. r \in Seq(LogRows) /\ Len(r) = n /\ r[n] = new /\ \A i \in 1 .. n - 1 : r[i] = l[i + 1]
      BY <1>1, <2>2, <3>1, <3>2
    <3>4. r # <<>> /\ Len(r) <= LogCapacity /\ Len(r) <= n + 1 /\ Len(r) \in Nat \ {0}
      BY <1>1, <2>2, <3>3
    <3>5. r[n].first = d.number /\ r[n].repeats = 1 /\ r[n].decision = d
      BY <3>3 DEF new
    <3> QED
      <4>1. Grown(r, l, n, d)
        BY <1>5, <2>2, <3>3, <3>4, <3>5 DEF Grown
      <4> QED
        BY <4>1 DEF r
  <2>3. CASE n < LogCapacity
    <3>1. r = Append(l, new)
      BY <1>1, <2>1, <2>3
    <3>2. r \in Seq(LogRows) /\ Len(r) = n + 1 /\ r[n + 1] = new /\ \A i \in 1 .. n : r[i] = l[i]
      BY <1>1, <3>1
    <3>3. r # <<>> /\ Len(r) <= LogCapacity /\ Len(r) <= n + 1 /\ Len(r) \in Nat \ {0}
      BY <1>1, <2>3, <3>2
    <3>4. r[n + 1].first = d.number /\ r[n + 1].repeats = 1 /\ r[n + 1].decision = d
      BY <3>2 DEF new
    <3> QED
      <4>1. Grown(r, l, n, d)
        BY <1>5, <2>3, <3>2, <3>3, <3>4 DEF Grown
      <4> QED
        BY <4>1 DEF r
  <2> QED
    BY <1>1, <2>2, <2>3
<1> QED
  BY <1>4, <1>5

LEMMA SoundTypes ==
  ASSUME NEW l, NEW top, Sound(l, top)
  PROVE  /\ l \in Seq(LogRows) /\ Len(l) \in Nat /\ DOMAIN l = 1 .. Len(l)
         /\ \A i \in 1 .. Len(l) :
              /\ l[i] \in LogRows /\ l[i].first \in Nat /\ l[i].repeats \in Nat
              /\ l[i].decision \in Decisions /\ l[i].decision.number \in Nat
<1>1. l \in Seq(LogRows)
  BY DEF Sound
<1>2. \A i \in 1 .. Len(l) : l[i] \in LogRows
  BY <1>1
<1>3. \A row \in LogRows : row.first \in Nat /\ row.repeats \in Nat /\ row.decision \in Decisions
                           /\ row.decision.number \in Nat
  BY DEF LogRows, Decisions
<1> QED
  BY <1>1, <1>2, <1>3

LEMMA LoggedSound ==
  ASSUME NEW l, NEW top \in Nat, Sound(l, top), NEW d \in Decisions, top < d.number
  PROVE  Sound(Dashboard!Logged(l, d), d.number)
<1> DEFINE r == Dashboard!Logged(l, d)
           n == Len(l)
<1>1. l \in Seq(LogRows) /\ n \in Nat /\ n <= LogCapacity /\ LogCapacity \in Nat \ {0}
      /\ \A i \in 1 .. n : l[i].first \in Nat /\ l[i].repeats \in Nat /\ l[i].decision.number \in Nat
  BY SoundTypes, DashboardAssumption DEF Sound
<1>2. \A i \in 1 .. n :
       /\ l[i].repeats >= 1 /\ 1 <= l[i].first
       /\ l[i].first <= l[i].decision.number /\ l[i].decision.number <= top
       /\ i > 1 => l[i].decision.command # l[i - 1].decision.command
  BY DEF Sound
<1>3. d.number \in Nat
  BY DEF Decisions
<1>4. Grown(r, l, n, d)
  BY <1>1, LoggedFacts
<1> HIDE DEF r, n
<1> USE DEF Grown
<1>5. ASSUME NEW i \in 1 .. Len(r)
      PROVE  /\ r[i].repeats >= 1 /\ 1 <= r[i].first
             /\ r[i].first <= r[i].decision.number /\ r[i].decision.number <= d.number
             /\ i > 1 => r[i].decision.command # r[i - 1].decision.command
  <2>1. CASE n # 0 /\ l[n].decision.command = d.command /\ Len(r) = n /\ (\A k \in 1 .. n - 1 : r[k] = l[k])
             /\ r[n].first = l[n].first /\ r[n].repeats = l[n].repeats + 1
    <3>1. CASE i = n
      <4>1. n \in 1 .. n /\ (n > 1 => n - 1 \in 1 .. n - 1)
        BY <1>1, <2>1
      <4>2. r[i].repeats >= 1 /\ 1 <= r[i].first
        BY <1>1, <1>2, <2>1, <3>1, <4>1
      <4>3. r[i].first <= d.number /\ r[i].decision = d
        <5>1. r[i].decision = d /\ r[i].first = l[n].first
          BY <1>4, <2>1, <3>1
        <5>2. PICK f \in Nat, e \in Nat : f = l[n].first /\ e = l[n].decision.number /\ f <= e /\ e <= top
          BY <1>1, <1>2, <4>1
        <5>3. f <= d.number
          BY <1>3, <5>2
        <5> QED
          BY <5>1, <5>2, <5>3
      <4>4. i > 1 => r[i].decision.command # r[i - 1].decision.command
        BY <1>2, <1>4, <2>1, <3>1, <4>1
      <4> QED
        BY <1>3, <4>2, <4>3, <4>4
    <3>2. CASE i # n
      <4>1. i \in 1 .. n - 1 /\ i \in 1 .. n /\ (i > 1 => i - 1 \in 1 .. n - 1)
        BY <1>1, <2>1, <3>2
      <4>2. r[i] = l[i] /\ (i > 1 => r[i - 1] = l[i - 1])
        BY <2>1, <4>1
      <4>3. l[i].decision.number <= d.number
        BY <1>1, <1>2, <1>3, <4>1
      <4> QED
        BY <1>2, <4>1, <4>2, <4>3
    <3> QED
      BY <3>1, <3>2
  <2>2. CASE (n = 0 \/ l[n].decision.command # d.command) /\ r[Len(r)].first = d.number /\ r[Len(r)].repeats = 1
    <3> DEFINE cut == IF n < LogCapacity THEN 0 ELSE 1
    <3>1. Len(r) = n - cut + 1 /\ \A k \in 1 .. n - cut : r[k] = l[k + cut]
      <4>1. CASE n < LogCapacity /\ Len(r) = n + 1 /\ \A k \in 1 .. n : r[k] = l[k]
        BY <1>1, <4>1
      <4>2. CASE n = LogCapacity /\ Len(r) = n /\ \A k \in 1 .. n - 1 : r[k] = l[k + 1]
        BY <1>1, <4>2
      <4> QED
        BY <1>1, <1>4, <2>2, <4>1, <4>2
    <3>2. cut \in {0, 1} /\ (cut = 1 => n >= 1)
      BY <1>1
    <3> HIDE DEF cut
    <3>3. CASE i = Len(r)
      <4>1. i > 1 => i - 1 \in 1 .. n - cut /\ i - 1 + cut = n /\ n # 0
        BY <1>1, <3>1, <3>2, <3>3
      <4>2. i > 1 => r[i - 1] = l[n]
        BY <3>1, <4>1
      <4>3. i > 1 => r[i].decision.command # r[i - 1].decision.command
        BY <1>4, <2>2, <3>3, <4>1, <4>2
      <4>4. r[i].repeats >= 1 /\ r[i].first = d.number /\ r[i].decision = d /\ 1 <= d.number
        BY <1>3, <1>4, <2>2, <3>3
      <4> QED
        BY <1>3, <4>3, <4>4
    <3>4. CASE i # Len(r)
      <4>1. i \in 1 .. n - cut /\ i + cut \in 1 .. n
            /\ (i > 1 => i - 1 \in 1 .. n - cut /\ i - 1 + cut = i + cut - 1 /\ i + cut > 1)
        <5>1. i \in 1 .. n - cut + 1 /\ i # n - cut + 1 /\ n \in Nat
          BY <1>1, <3>1, <3>4
        <5>2. CASE cut = 0
          BY <5>1, <5>2
        <5>3. CASE cut = 1
          BY <3>2, <5>1, <5>3
        <5> QED
          BY <3>2, <5>2, <5>3
      <4>2. r[i] = l[i + cut] /\ (i > 1 => r[i - 1] = l[i + cut - 1])
        BY <3>1, <4>1
      <4>3. l[i + cut].decision.number <= d.number
        <5>1. PICK k \in 1 .. n : k = i + cut
          BY <4>1
        <5>2. l[k].decision.number <= d.number
          BY <1>1, <1>2, <1>3
        <5> QED
          BY <5>1, <5>2
      <4>4. i > 1 => r[i].decision.command # r[i - 1].decision.command
        <5>1. PICK k \in 1 .. n : k = i + cut /\ (i > 1 => k > 1 /\ k - 1 = i + cut - 1)
          BY <1>1, <3>2, <4>1
        <5>2. i > 1 => l[k].decision.command # l[k - 1].decision.command
          BY <1>2, <5>1
        <5> QED
          BY <4>2, <5>1, <5>2
      <4> QED
        BY <1>2, <4>1, <4>2, <4>3, <4>4
    <3> QED
      BY <3>3, <3>4
  <2> QED
    BY <1>4, <2>1, <2>2
<1>6. Sound(r, d.number)
  BY <1>4, <1>5 DEF Sound
<1> QED
  BY <1>6 DEF r

\* A row and each after it is of one decision at least.
LEMMA SpanOf ==
  ASSUME NEW l, NEW u \in Nat, NEW all, Sound(l, u), Tight(l, u, all)
  PROVE  \A i \in 1 .. Len(l) : l[i].first + (Len(l) - i) <= u
<1> DEFINE n == Len(l)
           T == {j \in Nat : j < n => l[n - j].first + j <= u}
<1>1. n \in Nat /\ \A i \in 1 .. n : l[i].first \in Nat /\ l[i].decision.number \in Nat
                                     /\ l[i].first <= l[i].decision.number
  BY SoundTypes DEF Sound
<1>2. \A i \in 1 .. n : i > 1 => l[i].first = l[i - 1].decision.number + 1
  BY DEF Tight
<1>3. n > 0 => l[n].decision.number = u
  <2>1. n > 0 => l # <<>>
    BY SoundTypes
  <2> QED
    BY <2>1 DEF Tight
<1> HIDE DEF n
<1>4. 0 \in T
  <2>1. 0 < n => n \in 1 .. n /\ n - 0 = n
    BY <1>1
  <2> QED
    BY <1>1, <1>3, <2>1
<1>5. \A j \in Nat : j \in T => j + 1 \in T
  <2> SUFFICES ASSUME NEW j \in Nat, j \in T, j + 1 < n PROVE l[n - (j + 1)].first + (j + 1) <= u
    OBVIOUS
  <2>1. n - j \in 1 .. n /\ n - j > 1 /\ n - (j + 1) = n - j - 1 /\ n - j - 1 \in 1 .. n
    BY <1>1
  <2>2. l[n - j].first = l[n - j - 1].decision.number + 1
    BY <1>2, <2>1
  <2>3. l[n - j].first + j <= u
    BY <1>1
  <2>4. l[n - j - 1].first <= l[n - j - 1].decision.number /\ l[n - j - 1].first \in Nat
        /\ l[n - j - 1].decision.number \in Nat /\ l[n - j].first \in Nat
    BY <1>1, <2>1
  <2>5. l[n - j - 1].first + (j + 1) <= u
    BY <2>2, <2>3, <2>4
  <2> QED
    BY <2>1, <2>5
<1> HIDE DEF T
<1>6. \A j \in Nat : j \in T
  BY <1>4, <1>5, EveryNat
<1> SUFFICES ASSUME NEW i \in 1 .. n PROVE l[i].first + (n - i) <= u
  BY DEF n
<1>7. n - i \in Nat /\ n - i < n /\ n - (n - i) = i
  BY <1>1
<1>8. n - i \in T
  BY <1>6, <1>7
<1> QED
  BY <1>7, <1>8 DEF T

\* A decision more: the log stays one of all decisions.
LEMMA LoggedTight ==
  ASSUME NEW l, NEW u \in Nat, NEW all, Sound(l, u), Tight(l, u, all), all[u + 1] \in Decisions,
         all[u + 1].number = u + 1
  PROVE  Tight(Dashboard!Logged(l, all[u + 1]), u + 1, all)
<1> DEFINE d == all[u + 1]
           r == Dashboard!Logged(l, d)
           n == Len(l)
<1>1. l \in Seq(LogRows) /\ n \in Nat /\ n <= LogCapacity /\ d \in Decisions /\ LogCapacity \in Nat \ {0}
      /\ \A i \in 1 .. n : l[i].first \in Nat /\ l[i].repeats \in Nat /\ l[i].decision.number \in Nat
                           /\ l[i].first <= l[i].decision.number
  BY SoundTypes, DashboardAssumption DEF Sound
<1>2. \A i \in 1 .. n :
       /\ RowOf(l[i], u, all)
       /\ i > 1 => l[i].first = l[i - 1].decision.number + 1
  BY DEF Tight
<1>3. n > 0 => l[n].decision.number = u
  <2>1. n > 0 => l # <<>>
    BY SoundTypes
  <2> QED
    BY <2>1 DEF Tight
<1>4. Grown(r, l, n, d)
  BY <1>1, LoggedFacts
<1>5. d.number = u + 1 /\ all[u + 1] = d
  OBVIOUS
<1> HIDE DEF r, n, d
<1> USE DEF Grown
<1>6. \A i \in 1 .. n : RowOf(l[i], u + 1, all)
  BY <1>2 DEF RowOf
<1>7. ASSUME NEW i \in 1 .. Len(r)
      PROVE  RowOf(r[i], u + 1, all) /\ (i > 1 => r[i].first = r[i - 1].decision.number + 1)
  <2>1. CASE n # 0 /\ l[n].decision.command = d.command /\ Len(r) = n /\ (\A k \in 1 .. n - 1 : r[k] = l[k])
             /\ r[n].first = l[n].first /\ r[n].repeats = l[n].repeats + 1
    <3>1. CASE i = n
      <4>1. n \in 1 .. n /\ (n > 1 => n - 1 \in 1 .. n - 1)
        BY <1>1, <2>1
      <4>2. r[i].decision = d /\ r[i].first = l[n].first /\ r[i].repeats = l[n].repeats + 1
        BY <1>4, <2>1, <3>1
      <4>3. l[n].decision.number = u /\ RowOf(l[n], u, all) /\ l[n].first \in Nat
        BY <1>1, <1>2, <1>3, <2>1, <4>1
      <4>4. PICK f \in Nat : l[n].first = f /\ r[i].first = f /\ r[i].repeats = u + 1 - f + 1
        <5>1. PICK f \in Nat : l[n].first = f
          BY <4>3
        <5>2. l[n].repeats = u - f + 1
          BY <4>3, <5>1 DEF RowOf
        <5>3. u - f + 1 + 1 = u + 1 - f + 1
          OBVIOUS
        <5> QED
          BY <4>2, <5>1, <5>2, <5>3
      <4>5. \A k \in r[i].first .. u + 1 : all[k].command = d.command
        <5> SUFFICES ASSUME NEW k \in l[n].first .. u + 1 PROVE all[k].command = d.command
          BY <4>4
        <5>1. CASE k = u + 1
          BY <1>5, <5>1
        <5>2. CASE k # u + 1
          <6>1. k \in l[n].first .. u
            BY <4>3, <5>2
          <6> QED
            BY <2>1, <4>3, <6>1 DEF RowOf
        <5> QED
          BY <5>1, <5>2
      <4>6. RowOf(r[i], u + 1, all)
        <5>1. r[i].decision.number = u + 1 /\ u + 1 \in 1 .. u + 1
          BY <1>5, <4>2
        <5>2. r[i].decision = all[u + 1] /\ r[i].decision.command = d.command
          BY <1>5, <4>2
        <5>3. r[i].repeats = r[i].decision.number - r[i].first + 1
          BY <4>4, <5>1
        <5>4. \A k \in r[i].first .. r[i].decision.number : all[k].command = r[i].decision.command
          BY <4>5, <5>1, <5>2
        <5> QED
          BY <5>1, <5>2, <5>3, <5>4 DEF RowOf
      <4>7. i > 1 => r[i].first = r[i - 1].decision.number + 1
        BY <1>2, <2>1, <3>1, <4>1, <4>2
      <4> QED
        BY <4>6, <4>7
    <3>2. CASE i # n
      <4>1. i \in 1 .. n - 1 /\ i \in 1 .. n /\ (i > 1 => i - 1 \in 1 .. n - 1)
        BY <1>1, <2>1, <3>2
      <4>2. r[i] = l[i] /\ (i > 1 => r[i - 1] = l[i - 1])
        BY <2>1, <4>1
      <4> QED
        BY <1>2, <1>6, <4>1, <4>2
    <3> QED
      BY <3>1, <3>2
  <2>2. CASE (n = 0 \/ l[n].decision.command # d.command) /\ r[Len(r)].first = d.number /\ r[Len(r)].repeats = 1
    <3> DEFINE cut == IF n < LogCapacity THEN 0 ELSE 1
    <3>1. Len(r) = n - cut + 1 /\ \A k \in 1 .. n - cut : r[k] = l[k + cut]
      <4>1. CASE n < LogCapacity /\ Len(r) = n + 1 /\ \A k \in 1 .. n : r[k] = l[k]
        BY <1>1, <4>1
      <4>2. CASE n = LogCapacity /\ Len(r) = n /\ \A k \in 1 .. n - 1 : r[k] = l[k + 1]
        BY <1>1, <4>2
      <4> QED
        BY <1>1, <1>4, <2>2, <4>1, <4>2
    <3>2. cut \in {0, 1} /\ (cut = 1 => n >= 1)
      BY <1>1
    <3> HIDE DEF cut
    <3>3. CASE i = Len(r)
      <4>1. i > 1 => i - 1 \in 1 .. n - cut /\ i - 1 + cut = n /\ n > 0
        BY <1>1, <3>1, <3>2, <3>3
      <4>2. i > 1 => r[i - 1] = l[n]
        BY <3>1, <4>1
      <4>3. r[i].decision = d /\ r[i].first = u + 1 /\ r[i].repeats = 1
        BY <1>4, <1>5, <2>2, <3>3
      <4>4. \A k \in r[i].first .. u + 1 : all[k].command = d.command
        BY <1>5, <4>3
      <4>5. RowOf(r[i], u + 1, all)
        BY <1>5, <4>3, <4>4 DEF RowOf
      <4> QED
        BY <1>3, <4>1, <4>2, <4>3, <4>5
    <3>4. CASE i # Len(r)
      <4>1. i \in 1 .. n - cut /\ i + cut \in 1 .. n
            /\ (i > 1 => i - 1 \in 1 .. n - cut /\ i - 1 + cut = i + cut - 1 /\ i + cut > 1)
        <5>1. i \in 1 .. n - cut + 1 /\ i # n - cut + 1 /\ n \in Nat
          BY <1>1, <3>1, <3>4
        <5>2. CASE cut = 0
          BY <5>1, <5>2
        <5>3. CASE cut = 1
          BY <3>2, <5>1, <5>3
        <5> QED
          BY <3>2, <5>2, <5>3
      <4>2. r[i] = l[i + cut] /\ (i > 1 => r[i - 1] = l[i + cut - 1])
        BY <3>1, <4>1
      <4>3. i > 1 => r[i].first = r[i - 1].decision.number + 1
        <5>1. PICK k \in 1 .. n : k = i + cut /\ (i > 1 => k > 1 /\ k - 1 = i + cut - 1)
          BY <1>1, <3>2, <4>1
        <5>2. i > 1 => l[k].first = l[k - 1].decision.number + 1
          BY <1>2, <5>1
        <5> QED
          BY <4>2, <5>1, <5>2
      <4> QED
        BY <1>6, <4>1, <4>2, <4>3
    <3> QED
      BY <3>3, <3>4
  <2> QED
    BY <1>4, <2>1, <2>2
<1>8. Tight(r, u + 1, all)
  BY <1>4, <1>5, <1>7 DEF Tight
<1> QED
  BY <1>8 DEF r, d

LEMMA LoggedReaches ==
  ASSUME NEW l, NEW u \in Nat, NEW all, Sound(l, u), Tight(l, u, all), Reaches(l, u),
         NEW d \in Decisions, d.number = u + 1
  PROVE  Reaches(Dashboard!Logged(l, d), u + 1)
<1> DEFINE r == Dashboard!Logged(l, d)
           n == Len(l)
<1>1. l \in Seq(LogRows) /\ n \in Nat /\ n <= LogCapacity /\ LogCapacity \in Nat \ {0}
      /\ \A i \in 1 .. n : l[i].first \in Nat
  BY SoundTypes, DashboardAssumption DEF Sound
<1>2. Grown(r, l, n, d)
  BY <1>1, LoggedFacts
<1>3. n = 0 => u = 0
  BY <1>1 DEF Reaches
<1>4. n > 0 => u > 0 /\ (l[1].first = 1 \/ l[1].first <= u - LogCapacity + 1)
  <2>1. n > 0 => n \in 1 .. n /\ l # <<>>
    BY <1>1
  <2>2. n > 0 => u > 0
    BY <2>1 DEF Tight, RowOf
  <2> QED
    BY <2>2 DEF Reaches
<1>5. \A i \in 1 .. n : l[i].first + (n - i) <= u
  BY SpanOf
<1> HIDE DEF r, n
<1> USE DEF Grown
<1>6. r[1].first = 1 \/ r[1].first <= u + 1 - LogCapacity + 1
  <2>1. CASE n # 0 /\ r[1].first = l[1].first
    <3>1. 1 \in 1 .. n
      BY <1>1, <2>1
    <3> QED
      BY <1>1, <1>4, <2>1, <3>1
  <2>2. CASE n = 0
    BY <1>1, <1>2, <1>3, <2>2
  <2>3. CASE n = LogCapacity /\ Len(r) = n /\ (\A i \in 1 .. n - 1 : r[i] = l[i + 1]) /\ r[Len(r)].first = d.number
    <3>1. CASE n = 1
      BY <1>1, <2>3, <3>1
    <3>2. CASE n # 1
      <4>1. 1 \in 1 .. n - 1 /\ 2 \in 1 .. n
        BY <1>1, <2>3, <3>2
      <4>2. r[1] = l[2] /\ l[2].first + (n - 2) <= u /\ l[2].first \in Nat
        BY <1>1, <1>5, <2>3, <4>1
      <4> QED
        BY <1>1, <2>3, <4>2
    <3> QED
      BY <3>1, <3>2
  <2>4. ASSUME n # 0 PROVE \/ r[1].first = l[1].first
                           \/ n = LogCapacity /\ Len(r) = n /\ (\A i \in 1 .. n - 1 : r[i] = l[i + 1])
                              /\ r[Len(r)].first = d.number
    <3>1. 1 \in 1 .. n /\ (n = 1 \/ 1 \in 1 .. n - 1)
      BY <1>1, <2>4
    <3> QED
      BY <1>1, <1>2, <3>1
  <2> QED
    BY <2>1, <2>2, <2>3, <2>4
<1>7. Reaches(r, u + 1)
  <2>1. r # <<>>
    BY <1>2
  <2>2. r[1] \in LogRows
    <3>1. r \in Seq(LogRows) /\ 1 \in 1 .. Len(r)
      BY <1>2
    <3> QED
      BY <3>1
  <2>3. r[1].first \in Nat
    BY <2>2 DEF LogRows
  <2> QED
    BY <1>1, <1>6, <2>1, <2>3 DEF Reaches
<1> QED
  BY <1>7 DEF r

LEMMA FirstIsLeast ==
  ASSUME NEW l, NEW u \in Nat, NEW all, Sound(l, u), Tight(l, u, all)
  PROVE  \A i \in 1 .. Len(l) : l[1].first <= l[i].first
<1> DEFINE n == Len(l)
           T == {j \in Nat : j < n => l[1].first <= l[j + 1].first}
<1>1. n \in Nat /\ \A i \in 1 .. n : l[i].first \in Nat /\ l[i].decision.number \in Nat
                                     /\ l[i].first <= l[i].decision.number
  BY SoundTypes DEF Sound
<1>2. \A i \in 1 .. n : i > 1 => l[i].first = l[i - 1].decision.number + 1
  BY DEF Tight
<1> HIDE DEF n
<1>3. 0 \in T
  <2>1. 0 < n => 1 \in 1 .. n
    BY <1>1
  <2> QED
    BY <1>1, <2>1
<1>4. \A j \in Nat : j \in T => j + 1 \in T
  <2> SUFFICES ASSUME NEW j \in Nat, j \in T, j + 1 < n PROVE l[1].first <= l[j + 1 + 1].first
    OBVIOUS
  <2>1. 1 \in 1 .. n /\ j + 1 \in 1 .. n /\ j + 1 + 1 \in 1 .. n /\ j + 1 + 1 > 1 /\ j + 1 + 1 - 1 = j + 1
    BY <1>1
  <2>2. l[j + 1 + 1].first = l[j + 1].decision.number + 1
    BY <1>2, <2>1
  <2>3. l[1].first <= l[j + 1].first
    BY <1>1
  <2>4. l[j + 1].first <= l[j + 1].decision.number /\ l[j + 1].first \in Nat /\ l[1].first \in Nat
        /\ l[j + 1].decision.number \in Nat
    BY <1>1, <2>1
  <2> QED
    BY <2>2, <2>3, <2>4
<1> HIDE DEF T
<1>5. \A j \in Nat : j \in T
  BY <1>3, <1>4, EveryNat
<1> SUFFICES ASSUME NEW i \in 1 .. n PROVE l[1].first <= l[i].first
  BY DEF n
<1>6. i - 1 \in Nat /\ i - 1 < n /\ i - 1 + 1 = i
  BY <1>1
<1>7. i - 1 \in T
  BY <1>5, <1>6
<1> QED
  BY <1>6, <1>7 DEF T

\* A row begins where the command changed.
Begins(row, all) == row.first - 1 \in Nat \ {0} /\ all[row.first - 1].command # row.decision.command

\* Rows that end alike are not begun later one than the other.
LEMMA NotLater ==
  ASSUME NEW u \in Nat, NEW all, NEW x \in LogRows, NEW y \in LogRows, RowOf(x, u, all), RowOf(y, u, all),
         x.decision.number = y.decision.number, y.first <= y.decision.number, Begins(y, all)
  PROVE  y.first <= x.first
<1>1. x.first \in Nat /\ y.first \in Nat /\ y.decision.number \in Nat /\ x.decision = y.decision
  BY DEF LogRows, Decisions, RowOf
<1> SUFFICES ASSUME x.first < y.first PROVE FALSE
  BY <1>1
<1>2. y.first - 1 \in x.first .. x.decision.number
  BY <1>1 DEF Begins
<1>3. all[y.first - 1].command = x.decision.command
  BY <1>2 DEF RowOf
<1> QED
  BY <1>1, <1>3 DEF Begins

\* A row after another begins where the command changed.
LEMMA RowBegins ==
  ASSUME NEW l, NEW u \in Nat, NEW all, Sound(l, u), Tight(l, u, all), NEW i \in 1 .. Len(l), i > 1
  PROVE  Begins(l[i], all) /\ i - 1 \in 1 .. Len(l) /\ l[i].first - 1 = l[i - 1].decision.number
<1>1. Len(l) \in Nat
  BY SoundTypes
<1>2. PICK k \in 1 .. Len(l) : k = i - 1
  BY <1>1
<1>3. l[i].first = l[k].decision.number + 1 /\ l[k].decision = all[l[k].decision.number]
      /\ l[k].decision.number \in 1 .. u
  BY <1>2 DEF Tight, RowOf
<1>4. l[i].decision.command # l[k].decision.command
  BY <1>2 DEF Sound
<1>5. l[i].first - 1 = l[k].decision.number /\ l[k].decision.number \in Nat \ {0}
  BY <1>3
<1>6. all[l[i].first - 1].command = l[k].decision.command
  BY <1>3, <1>5
<1>7. Begins(l[i], all)
  BY <1>4, <1>5, <1>6 DEF Begins
<1> QED
  BY <1>2, <1>5, <1>7

\* Of two logs up to the same decision the one that begins no later has all rows of
\* the other, but for the decisions its first leaves out.
LEMMA Aligned ==
  ASSUME NEW a, NEW b, NEW u \in Nat, NEW all, Sound(a, u), Tight(a, u, all), Sound(b, u), Tight(b, u, all),
         a # <<>>, b # <<>>, a[1].first <= b[1].first
  PROVE  /\ Len(b) <= Len(a)
         /\ \A i \in 1 .. Len(b) : /\ a[Len(a) - Len(b) + i].decision = b[i].decision
                                   /\ i > 1 => a[Len(a) - Len(b) + i] = b[i]
<1> DEFINE n == Len(a)
           m == Len(b)
           Ends(j) == j < n /\ a[n - j].decision.number = b[m - j].decision.number
           T == {j \in Nat : j < m => Ends(j) /\ (j > 0 => a[n - j + 1] = b[m - j + 1])}
<1>1. /\ n \in Nat /\ m \in Nat /\ n > 0 /\ m > 0
      /\ \A i \in 1 .. n : a[i] \in LogRows /\ a[i].first \in Nat /\ a[i].decision.number \in Nat
                           /\ a[i].first <= a[i].decision.number /\ RowOf(a[i], u, all)
      /\ \A i \in 1 .. m : b[i] \in LogRows /\ b[i].first \in Nat /\ b[i].decision.number \in Nat
                           /\ b[i].first <= b[i].decision.number /\ RowOf(b[i], u, all)
      /\ a[n].decision.number = u /\ b[m].decision.number = u
  <2>1. n \in Nat /\ m \in Nat /\ n > 0 /\ m > 0
    BY SoundTypes
  <2> QED
    BY <2>1, SoundTypes DEF Sound, Tight
<1>2. 0 \in T
  BY <1>1
<1>3. \A j \in Nat : j \in T => j + 1 \in T
  <2> SUFFICES ASSUME NEW j \in Nat, j \in T, j + 1 < m
               PROVE  Ends(j + 1) /\ a[n - (j + 1) + 1] = b[m - (j + 1) + 1]
    OBVIOUS
  <2>1. j < n /\ a[n - j].decision.number = b[m - j].decision.number
    BY <1>1
  <2>2. PICK s \in 1 .. n, t \in 1 .. m : s = n - j /\ t = m - j
    <3>1. n - j \in 1 .. n /\ m - j \in 1 .. m
      BY <1>1, <2>1
    <3> HIDE DEF n, m
    <3> QED
      BY <3>1
  <2>3. t > 1
    BY <1>1, <2>2
  <2>4. Begins(b[t], all) /\ t - 1 \in 1 .. m /\ b[t].first - 1 = b[t - 1].decision.number
    BY <2>3, RowBegins
  <2>5. a[s].decision.number = b[t].decision.number
    BY <2>1, <2>2
  <2>6. b[t].first <= a[s].first
    BY <1>1, <2>4, <2>5, NotLater
  <2>7. s > 1
    <3> SUFFICES ASSUME s = 1 PROVE FALSE
      OBVIOUS
    <3>1. b[1].first <= b[t - 1].first
      BY <2>4, FirstIsLeast
    <3>2. b[t - 1].first <= b[t - 1].decision.number /\ b[t - 1].decision.number \in Nat
          /\ b[t - 1].first \in Nat
      BY <1>1, <2>4
    <3>3. a[s].first <= b[1].first /\ a[s].first \in Nat /\ b[1].first \in Nat /\ b[t].first \in Nat
      <4>1. a[1].first <= b[1].first
        OBVIOUS
      <4>2. 1 \in 1 .. m
        BY <1>1
      <4>3. a[s].first \in Nat /\ b[1].first \in Nat /\ b[t].first \in Nat
        BY <1>1, <4>2
      <4> QED
        BY <4>1, <4>3
    <3>4. PICK p \in Nat, q \in Nat, v \in Nat, w \in Nat, z \in Nat :
            z = b[t].first /\ p = a[s].first /\ q = b[1].first /\ v = b[t - 1].first /\ w = b[t - 1].decision.number
      BY <3>2, <3>3
    <3>5. p <= q /\ q <= v /\ v <= w
      BY <3>1, <3>2, <3>3, <3>4
    <3>6. z - 1 = w /\ z <= p
      BY <2>4, <2>6, <3>4
    <3> QED
      BY <3>5, <3>6
  <2>8. Begins(a[s], all) /\ s - 1 \in 1 .. n /\ a[s].first - 1 = a[s - 1].decision.number
    BY <2>7, RowBegins
  <2>9. a[s].first <= b[t].first
    BY <1>1, <2>5, <2>8, NotLater
  <2>10. a[s].first = b[t].first
    BY <1>1, <2>6, <2>9
  <2>11. a[s] = b[t]
    <3>1. a[s].decision = b[t].decision /\ a[s].repeats = b[t].repeats
      BY <1>1, <2>5, <2>10 DEF RowOf
    <3>2. \A x \in LogRows, y \in LogRows :
            x.first = y.first /\ x.repeats = y.repeats /\ x.decision = y.decision => x = y
      BY DEF LogRows
    <3>3. a[s] \in LogRows /\ b[t] \in LogRows
      BY <1>1
    <3> QED
      BY <2>10, <3>1, <3>2, <3>3
  <2>12. a[s - 1].decision.number = b[t - 1].decision.number
    BY <2>4, <2>8, <2>10
  <2>13. n - (j + 1) = s - 1 /\ m - (j + 1) = t - 1 /\ n - (j + 1) + 1 = s /\ m - (j + 1) + 1 = t /\ j + 1 < n
    BY <1>1, <2>2, <2>7
  <2> QED
    BY <2>11, <2>12, <2>13
<1> HIDE DEF T
<1>4. \A j \in Nat : j \in T
  BY <1>2, <1>3, EveryNat
<1> USE DEF T
<1>5. m <= n
  <2>1. m - 1 \in Nat /\ m - 1 < m
    BY <1>1
  <2>2. m - 1 < n
    BY <1>4, <2>1
  <2> QED
    BY <1>1, <2>2
<1>6. ASSUME NEW i \in 1 .. m
      PROVE  a[n - m + i].decision = b[i].decision /\ (i > 1 => a[n - m + i] = b[i])
  <2>1. m - i \in Nat /\ m - i < m /\ n - (m - i) = n - m + i /\ m - (m - i) = i
    BY <1>1
  <2>2. a[n - m + i].decision.number = b[i].decision.number
    BY <1>4, <2>1
  <2>3. n - m + i \in 1 .. n
    BY <1>1, <1>5
  <2>4. a[n - m + i].decision = b[i].decision
    BY <1>1, <2>2, <2>3 DEF RowOf
  <2>5. ASSUME i > 1 PROVE a[n - m + i] = b[i]
    <3>1. m - i + 1 \in Nat /\ m - i + 1 < m /\ m - i + 1 > 0
          /\ n - (m - i + 1) + 1 = n - m + i /\ m - (m - i + 1) + 1 = i
      BY <1>1, <2>5
    <3> QED
      BY <1>4, <3>1
  <2> QED
    BY <2>4, <2>5
<1> QED
  BY <1>5, <1>6

\* `whole` is what each decision in turn makes of the log before it.
Builds(whole, decisions) ==
  /\ whole[0] = <<>>
  /\ \A k \in 1 .. Len(decisions) : whole[k] = Dashboard!Logged(whole[k - 1], decisions[k])

\* A log of no matter how many rows.
LEMMA LoggedTypes ==
  ASSUME NEW l \in Seq(LogRows), NEW d \in Decisions
  PROVE  Dashboard!Logged(l, d) \in Seq(LogRows)
<1> DEFINE n == Len(l)
           more == [first |-> l[n].first, repeats |-> l[n].repeats + 1, decision |-> d]
           new == [first |-> d.number, repeats |-> 1, decision |-> d]
<1>1. n \in Nat /\ LogCapacity \in Nat \ {0} /\ \A i \in 1 .. n : l[i] \in LogRows
  BY DashboardAssumption
<1>2. new \in LogRows
  BY DEF LogRows, Decisions
<1>3. n # 0 => more \in LogRows
  <2>1. n # 0 => l[n] \in LogRows
    BY <1>1
  <2> QED
    BY <2>1 DEF LogRows
<1>4. l # <<>> <=> n # 0
  OBVIOUS
<1>5. \/ n # 0 /\ Dashboard!Logged(l, d) = [l EXCEPT ![n] = more]
      \/ Dashboard!Logged(l, d) = Append(IF n = LogCapacity THEN Tail(l) ELSE l, new)
  BY <1>4 DEF Dashboard!Logged, Dashboard!RunsOn, Dashboard!Last
<1> HIDE DEF more, new
<1>6. n # 0 => [l EXCEPT ![n] = more] \in Seq(LogRows)
  BY <1>1, <1>3
<1>7. Append(IF n = LogCapacity THEN Tail(l) ELSE l, new) \in Seq(LogRows)
  <2>1. CASE n = LogCapacity
    <3>1. Tail(l) \in Seq(LogRows)
      BY <1>1, <1>4, <2>1
    <3> QED
      BY <1>2, <2>1, <3>1
  <2>2. CASE n # LogCapacity
    BY <1>2, <2>2
  <2> QED
    BY <2>1, <2>2
<1> QED
  BY <1>5, <1>6, <1>7

LEMMA SeedRuns ==
  ASSUME NEW recent \in Seq(Decisions), recent = Dashboard!Recent
  PROVE  \E whole : Builds(whole, recent) /\ Dashboard!Seeded = whole[Len(recent)]
<1> DEFINE n == Len(recent)
           Logs == Seq(LogRows)
           step == [x \in (1 .. n) \X Logs |-> Dashboard!Logged(x[2], recent[x[1]])]
           Fold(F) == F = [s \in SUBSET DOMAIN recent |->
                             IF s = {} THEN <<>>
                             ELSE Dashboard!Logged(F[s \ {Largest(s)}], recent[Largest(s)])]
<1>1. n \in Nat /\ DOMAIN recent = 1 .. n /\ \A i \in 1 .. n : recent[i] \in Decisions
  OBVIOUS
<1>2. step \in [(1 .. n) \X Logs -> Logs]
  <2>1. \A x \in (1 .. n) \X Logs : Dashboard!Logged(x[2], recent[x[1]]) \in Logs
    BY <1>1, LoggedTypes
  <2> QED
    BY <2>1
<1>3. <<>> \in Logs
  OBVIOUS
<1>4. PICK over : IsFold(over, n, Logs, <<>>, step)
  <2> HIDE DEF step, n, Logs
  <2> QED
    BY <1>1, <1>2, <1>3, FoldExists
<1>5. over \in [SUBSET (1 .. n) -> Logs] /\ FoldsOver(over, n, <<>>, step)
  <2> HIDE DEF step, n, Logs
  <2> QED
    BY <1>4 DEF IsFold
<1>6. ASSUME NEW s \in (SUBSET (1 .. n)) \ {{}}
      PROVE  over[s] = Dashboard!Logged(over[s \ {Largest(s)}], recent[Largest(s)])
  <2>1. Largest(s) \in s /\ Largest(s) \in 1 .. n
    <3> HIDE DEF step, n, Logs
    <3>1. Largest(s) \in s
      BY <1>1, LargestFacts
    <3> QED
      BY <3>1
  <2>2. over[s \ {Largest(s)}] \in Logs
    <3> HIDE DEF step, n, Logs
    <3>1. s \ {Largest(s)} \in SUBSET (1 .. n)
      BY <2>1
    <3> QED
      BY <1>5, <3>1
  <2>3. over[s] = step[<<Largest(s), over[s \ {Largest(s)}]>>]
    <3> HIDE DEF step, n, Logs
    <3> QED
      BY <1>5 DEF FoldsOver
  <2> HIDE DEF n, Logs
  <2>4. <<Largest(s), over[s \ {Largest(s)}]>> \in (1 .. n) \X Logs
    BY <2>1, <2>2
  <2> QED
    BY <2>3, <2>4
<1>7. Fold(over)
  <2>1. over[{}] = <<>>
    BY <1>5 DEF FoldsOver
  <2> HIDE DEF step, n, Logs
  <2>2. over = [s \in SUBSET (1 .. n) |-> over[s]]
    BY <1>5
  <2>3. \A s \in SUBSET (1 .. n) :
          over[s] = IF s = {} THEN <<>>
                    ELSE Dashboard!Logged(over[s \ {Largest(s)}], recent[Largest(s)])
    BY <1>6, <2>1
  <2> QED
    BY <1>1, <2>2, <2>3
<1> DEFINE chosen == CHOOSE F : Fold(F)
<1>8. Fold(chosen)
  <2> HIDE DEF Fold
  <2> QED
    BY <1>7
<1>9. Dashboard!Seeded = chosen[DOMAIN recent]
  BY DEF Dashboard!Seeded, Dashboard!FoldLeft, Dashboard!MapThenFoldSet, Dashboard!Max, Largest
<1> HIDE DEF chosen, step, n, Logs
<1>10. /\ chosen[{}] = <<>>
       /\ \A s \in (SUBSET (1 .. n)) \ {{}} :
            chosen[s] = Dashboard!Logged(chosen[s \ {Largest(s)}], recent[Largest(s)])
  <2>1. chosen[{}] = <<>>
    BY <1>8
  <2>2. ASSUME NEW s \in (SUBSET (1 .. n)) \ {{}}
        PROVE  chosen[s] = Dashboard!Logged(chosen[s \ {Largest(s)}], recent[Largest(s)])
    <3>1. s \in SUBSET DOMAIN recent /\ s # {}
      BY <1>1
    <3> QED
      BY <1>8, <3>1
  <2> QED
    BY <2>1, <2>2
<1>11. ASSUME NEW k \in 1 .. n
       PROVE  chosen[1 .. k] = Dashboard!Logged(chosen[1 .. k - 1], recent[k])
  <2>1. 1 .. k \in (SUBSET (1 .. n)) \ {{}}
    BY <1>1
  <2>2. Largest(1 .. k) \in 1 .. k /\ \A y \in 1 .. k : y <= Largest(1 .. k)
    BY <1>1, <2>1, LargestFacts
  <2>3. Largest(1 .. k) = k /\ (1 .. k) \ {k} = 1 .. k - 1
    BY <1>1, <2>2
  <2> QED
    BY <1>10, <2>1, <2>3
<1> DEFINE whole == [k \in Nat |-> chosen[1 .. k]]
<1>12. whole[0] = <<>>
  <2>1. 1 .. 0 = {}
    OBVIOUS
  <2> QED
    BY <1>10, <2>1
<1>13. \A k \in 1 .. n : whole[k] = Dashboard!Logged(whole[k - 1], recent[k])
  <2>1. \A k \in 1 .. n : k \in Nat /\ k - 1 \in Nat
    BY <1>1
  <2> QED
    BY <1>11, <2>1
<1>14. Dashboard!Seeded = whole[n]
  BY <1>1, <1>9
<1> HIDE DEF whole
<1> QED
  BY <1>12, <1>13, <1>14 DEF Builds, n

\* The number the log is read back from.
ReadFrom(from) ==
  /\ from \in Nat \ {0} /\ (from = 1 \/ from = Len(recorded) - LogCapacity + 1)
  /\ from >= Len(recorded) - LogCapacity + 1

LEMMA RecentFacts ==
  ASSUME recorded \in Seq(Decisions)
  PROVE  \E from \in Nat :
           /\ ReadFrom(from)
           /\ Dashboard!Recent \in Seq(Decisions)
           /\ Len(Dashboard!Recent) = Len(recorded) - from + 1 /\ Len(Dashboard!Recent) <= LogCapacity
           /\ \A k \in 1 .. Len(Dashboard!Recent) :
                Dashboard!Recent[k] = recorded[from + k - 1] /\ from + k - 1 \in 1 .. Len(recorded)
<1> DEFINE n == Len(recorded)
           from == Dashboard!Max({1, n - LogCapacity + 1})
<1>1. n \in Nat /\ LogCapacity \in Nat \ {0}
  BY DashboardAssumption
<1>2. from \in {1, n - LogCapacity + 1} /\ \A y \in {1, n - LogCapacity + 1} : from >= y
  <2>1. \E x \in {1, n - LogCapacity + 1} : \A y \in {1, n - LogCapacity + 1} : x >= y
    BY <1>1
  <2> QED
    BY <2>1 DEF Dashboard!Max
<1> DEFINE r == Dashboard!Recent
<1>3. r = SubSeq(recorded, from, n)
  BY DEF Dashboard!Recent
<1> HIDE DEF from, r
<1>4. from \in Nat \ {0} /\ (from = 1 \/ from = n - LogCapacity + 1) /\ from >= n - LogCapacity + 1 /\ from <= n + 1
  BY <1>1, <1>2
<1>5. r \in Seq(Decisions) /\ Len(r) = n - from + 1 /\ \A k \in 1 .. n - from + 1 : r[k] = recorded[from + k - 1]
  BY <1>1, <1>3, <1>4, SubSeqProperties
<1>6. ReadFrom(from)
  BY <1>4 DEF ReadFrom
<1>7. Len(r) <= LogCapacity
  BY <1>1, <1>4, <1>5
<1>8. \A k \in 1 .. Len(r) : r[k] = recorded[from + k - 1] /\ from + k - 1 \in 1 .. n
  BY <1>1, <1>4, <1>5
<1> QED
  BY <1>4, <1>5, <1>6, <1>7, <1>8 DEF r

LEMMA NoRows == \A top, all : Sound(<<>>, top) /\ Tight(<<>>, top, all)
BY DashboardAssumption DEF Sound, Tight

LEMMA SoundGrows ==
  ASSUME NEW l, NEW top \in Nat, NEW more \in Nat, Sound(l, top), top <= more
  PROVE  Sound(l, more)
<1>1. \A i \in 1 .. Len(l) : l[i].decision.number \in Nat
  BY SoundTypes
<1> QED
  BY <1>1 DEF Sound

\* What is read back is a log; of all decisions since some number if none is missing.
LEMMA SeedFacts ==
  ASSUME Records
  PROVE  /\ Sound(Dashboard!Seeded, folded)
         /\ Len(recorded) = folded /\ Numbered =>
              /\ Tight(Dashboard!Seeded, folded, recorded)
              /\ folded > 0 => /\ Dashboard!Seeded # <<>>
                               /\ \E from : ReadFrom(from) /\ Dashboard!Seeded[1].first = from
<1>1. recorded \in Seq(Decisions) /\ folded \in Nat
      /\ \A i \in 1 .. Len(recorded) : recorded[i] \in Decisions /\ recorded[i].number \in Nat
  <2>1. recorded \in Seq(Decisions) /\ folded \in Nat
    BY DEF Records
  <2>2. \A i \in 1 .. Len(recorded) : recorded[i] \in Decisions
    BY <2>1
  <2>3. \A d \in Decisions : d.number \in Nat
    BY DEF Decisions
  <2> QED
    BY <2>1, <2>2, <2>3
<1> DEFINE r == Dashboard!Recent
           m == Len(r)
<1>2. PICK from \in Nat :
        /\ ReadFrom(from) /\ r \in Seq(Decisions) /\ m = Len(recorded) - from + 1 /\ m <= LogCapacity
        /\ \A k \in 1 .. m : r[k] = recorded[from + k - 1] /\ from + k - 1 \in 1 .. Len(recorded)
  BY <1>1, RecentFacts
<1>3. PICK whole : Builds(whole, r) /\ Dashboard!Seeded = whole[m]
  BY <1>2, SeedRuns
<1>4. m \in Nat /\ Len(recorded) \in Nat /\ LogCapacity \in Nat \ {0} /\ from \in Nat \ {0}
      /\ \A k \in 1 .. m : r[k] \in Decisions /\ r[k].number \in Nat
  <2>1. m \in Nat /\ Len(recorded) \in Nat /\ \A k \in 1 .. m : r[k] \in Decisions
    BY <1>1, <1>2
  <2>2. \A e \in Decisions : e.number \in Nat
    BY DEF Decisions
  <2>3. from \in Nat \ {0}
    BY <1>2 DEF ReadFrom
  <2> QED
    BY <2>1, <2>2, <2>3, DashboardAssumption
<1>5. whole[0] = <<>> /\ \A k \in 1 .. m : whole[k] = Dashboard!Logged(whole[k - 1], r[k])
  BY <1>3 DEF Builds
<1> HIDE DEF r
<1> HIDE DEF m
<1>6. Sound(Dashboard!Seeded, folded)
  <2> DEFINE top(k) == IF k = 0 THEN 0 ELSE r[k].number
             T == {k \in Nat : k <= m => Sound(whole[k], top(k))}
  <2>1. 0 \in T
    BY <1>5, NoRows
  <2>2. ASSUME NEW k \in Nat, k + 1 <= m PROVE top(k) \in Nat /\ top(k) < r[k + 1].number
    <3>1. k + 1 \in 1 .. m /\ (k # 0 => k \in 1 .. m)
      BY <1>4, <2>2
    <3>2. PICK i \in 1 .. Len(recorded) : i = from + (k + 1) - 1 /\ r[k + 1] = recorded[i]
      <4> DEFINE w == from + (k + 1) - 1
      <4>1. r[k + 1] = recorded[w] /\ w \in 1 .. Len(recorded) /\ w = from + (k + 1) - 1
        BY <1>2, <3>1
      <4> HIDE DEF w
      <4> QED
        BY <4>1
    <3>3. CASE k = 0
      <4>1. recorded[i].number \in Nat /\ 1 <= recorded[i].number
        BY <1>1, <3>2 DEF Records
      <4> QED
        BY <3>2, <3>3, <4>1
    <3>4. CASE k # 0
      <4>1. r[k] = recorded[i - 1] /\ i > 1
        <5>1. from + k - 1 = i - 1 /\ from + k - 1 \in 1 .. Len(recorded)
          BY <1>2, <1>4, <3>1, <3>2, <3>4
        <5> QED
          BY <1>2, <3>1, <3>4, <5>1
      <4>2. recorded[i - 1].number < recorded[i].number
        <5>1. i - 1 \in 1 .. Len(recorded) /\ i - 1 < i
          BY <4>1
        <5> QED
          BY <5>1 DEF Records
      <4> QED
        BY <1>4, <3>1, <3>2, <3>4, <4>1, <4>2
    <3> QED
      BY <3>3, <3>4
  <2>3. \A k \in Nat : k \in T => k + 1 \in T
    <3> SUFFICES ASSUME NEW k \in Nat, k \in T, k + 1 <= m PROVE Sound(whole[k + 1], top(k + 1))
      OBVIOUS
    <3>1. k + 1 \in 1 .. m /\ k + 1 - 1 = k /\ k + 1 # 0 /\ k <= m
      BY <1>4
    <3>2. Sound(whole[k], top(k)) /\ top(k) \in Nat /\ top(k) < r[k + 1].number
      BY <2>2, <3>1
    <3>3. whole[k + 1] = Dashboard!Logged(whole[k], r[k + 1]) /\ r[k + 1] \in Decisions
      BY <1>4, <1>5, <3>1
    <3> HIDE DEF top
    <3>4. Sound(Dashboard!Logged(whole[k], r[k + 1]), r[k + 1].number)
      BY <3>2, <3>3, LoggedSound
    <3> USE DEF top
    <3> QED
      BY <3>1, <3>3, <3>4
  <2> HIDE DEF T
  <2>4. m \in T
    BY <1>4, <2>1, <2>3, EveryNat
  <2>5. Sound(whole[m], top(m))
    BY <1>4, <2>4 DEF T
  <2>6. top(m) \in Nat /\ top(m) <= folded
    <3>1. CASE m = 0
      BY <1>1, <3>1
    <3>2. CASE m # 0
      <4>1. m \in 1 .. m
        BY <1>4, <3>2
      <4>2. r[m] = recorded[from + m - 1] /\ from + m - 1 \in 1 .. Len(recorded) /\ r[m].number \in Nat
        BY <1>2, <1>4, <4>1
      <4> QED
        BY <3>2, <4>2 DEF Records
    <3> QED
      BY <3>1, <3>2
  <2> HIDE DEF top
  <2> QED
    BY <1>1, <1>3, <2>5, <2>6, SoundGrows
<1>7. ASSUME Len(recorded) = folded, Numbered
      PROVE  /\ Tight(Dashboard!Seeded, folded, recorded)
             /\ folded > 0 => Dashboard!Seeded # <<>> /\ Dashboard!Seeded[1].first = from
  <2> DEFINE From(k) == whole[k] # <<>> /\ whole[k][1].first = from
             Exact(k) == /\ Sound(whole[k], from - 1 + k) /\ Tight(whole[k], from - 1 + k, recorded)
                         /\ Len(whole[k]) <= k /\ (k > 0 => From(k))
             T == {k \in Nat : k <= m => Exact(k)}
  <2>1. 0 \in T
    BY <1>5, NoRows
  <2>2. \A k \in Nat : k \in T => k + 1 \in T
    <3> SUFFICES ASSUME NEW k \in Nat, k \in T, k + 1 <= m PROVE Exact(k + 1)
      OBVIOUS
    <3> DEFINE u == from - 1 + k
               l == whole[k]
               d == recorded[u + 1]
    <3>1. k + 1 \in 1 .. m /\ k + 1 - 1 = k /\ k <= m /\ u \in Nat /\ u + 1 = from + (k + 1) - 1
          /\ from - 1 + (k + 1) = u + 1
      BY <1>4
    <3>2. Sound(l, u) /\ Tight(l, u, recorded) /\ Len(l) <= k
          /\ (k > 0 => l # <<>> /\ l[1].first = from)
      BY <3>1
    <3>3. r[k + 1] = d /\ d \in Decisions /\ d.number = u + 1
      <4>1. r[k + 1] = recorded[from + (k + 1) - 1] /\ from + (k + 1) - 1 \in 1 .. Len(recorded)
        BY <1>2, <3>1
      <4>2. r[k + 1] = d /\ u + 1 \in 1 .. Len(recorded)
        BY <3>1, <4>1
      <4>3. d \in Decisions
        BY <1>1, <4>2
      <4>4. d.number = u + 1
        BY <1>7, <4>2 DEF Numbered
      <4> HIDE DEF d, u
      <4> QED
        BY <4>2, <4>3, <4>4
    <3>4. whole[k + 1] = Dashboard!Logged(l, d)
      <4>1. whole[k + 1] = Dashboard!Logged(whole[k + 1 - 1], r[k + 1]) /\ k + 1 - 1 = k
        BY <1>5, <3>1
      <4>2. r[k + 1] = d
        BY <3>3
      <4> HIDE DEF d
      <4> QED
        BY <4>1, <4>2
    <3> HIDE DEF u, l, Exact, From
    <3>5. Tight(Dashboard!Logged(l, d), u + 1, recorded)
      BY <3>1, <3>2, <3>3, LoggedTight
    <3>6. u < d.number
      BY <3>1, <3>3
    <3> HIDE DEF d
    <3>7. Sound(Dashboard!Logged(l, d), u + 1)
      BY <3>1, <3>2, <3>3, <3>6, LoggedSound
    <3> DEFINE next == Dashboard!Logged(l, d)
               n == Len(l)
    <3>8. l \in Seq(LogRows) /\ n \in Nat /\ n < LogCapacity /\ n <= k
      BY <1>2, <1>4, <3>1, <3>2, SoundTypes
    <3>9. /\ next # <<>> /\ Len(next) <= n + 1 /\ Len(next) \in Nat
          /\ \/ /\ n # 0
                /\ Len(next) = n /\ \A i \in 1 .. n - 1 : next[i] = l[i]
                /\ next[n].first = l[n].first
             \/ /\ next[Len(next)].first = d.number
                /\ \/ n < LogCapacity /\ Len(next) = n + 1 /\ \A i \in 1 .. n : next[i] = l[i]
                   \/ n = LogCapacity /\ Len(next) = n /\ \A i \in 1 .. n - 1 : next[i] = l[i + 1]
      <4>1. Grown(next, l, n, d)
        BY <1>4, <3>3, <3>8, LoggedFacts
      <4> HIDE DEF next, n
      <4> QED
        BY <4>1 DEF Grown
    <3> HIDE DEF next, n
    <3>10. next[1].first = from
      <4>1. CASE k = 0
        <5>1. n = 0 /\ u + 1 = from
          BY <1>4, <3>1, <3>8, <4>1 DEF u
        <5> QED
          BY <1>4, <3>3, <3>9, <5>1
      <4>2. CASE k > 0
        <5>1. l # <<>> /\ l[1].first = from
          BY <3>2, <4>2, <1>4
        <5>2. n # 0 /\ 1 \in 1 .. n /\ (n = 1 \/ 1 \in 1 .. n - 1)
          <6>1. n # 0 /\ n \in Nat
            <7>1. l \in Seq(LogRows) /\ l # <<>> /\ n = Len(l)
              BY <3>8, <5>1 DEF n
            <7> QED
              BY <7>1, EmptySeq
          <6> QED
            BY <6>1
        <5> QED
          BY <1>4, <3>8, <3>9, <5>1, <5>2
      <4> QED
        BY <4>1, <4>2
    <3>11. Len(next) <= k + 1
      BY <3>8, <3>9
    <3>12. whole[k + 1] = next /\ Tight(next, u + 1, recorded) /\ Sound(next, u + 1)
      BY <3>4, <3>5, <3>7 DEF next
    <3> QED
      BY <3>1, <3>9, <3>10, <3>11, <3>12 DEF Exact, From
  <2> HIDE DEF T
  <2>3. m \in T
    BY <1>4, <2>1, <2>2, EveryNat
  <2>4. Exact(m)
    BY <1>4, <2>3 DEF T
  <2>5. CASE folded = 0
    <3>1. from = 1 /\ m = 0
      BY <1>1, <1>2, <1>4, <1>7, <2>5 DEF ReadFrom
    <3>2. from - 1 + m = folded
      BY <2>5, <3>1
    <3> QED
      BY <1>3, <2>4, <2>5, <3>2
  <2>6. CASE folded > 0
    <3>1. from <= folded
      <4>1. folded \in Nat /\ LogCapacity \in Nat \ {0} /\ Len(recorded) = folded
            /\ (from = 1 \/ from = Len(recorded) - LogCapacity + 1)
        BY <1>1, <1>2, <1>4, <1>7 DEF ReadFrom
      <4> QED
        BY <1>4, <2>6, <4>1
    <3>2. m > 0 /\ from - 1 + m = folded
      <4>1. m = Len(recorded) - from + 1 /\ Len(recorded) = folded /\ folded \in Nat
        BY <1>1, <1>2, <1>7
      <4> QED
        BY <1>4, <3>1, <4>1
    <3> QED
      BY <1>3, <2>4, <3>2
  <2> QED
    BY <1>1, <2>5, <2>6
<1> QED
  BY <1>2, <1>6, <1>7

\* A log stays one of all decisions when another is recorded.
LEMMA TightExtends ==
  ASSUME NEW l, NEW u \in Nat, NEW all \in Seq(Decisions), NEW d \in Decisions, Len(all) = u, Sound(l, u),
         Tight(l, u, all)
  PROVE  Tight(l, u, Append(all, d))
<1> DEFINE more == Append(all, d)
<1>1. \A k \in 1 .. u : more[k] = all[k]
  OBVIOUS
<1> HIDE DEF more
<1>2. ASSUME NEW i \in 1 .. Len(l) PROVE RowOf(l[i], u, more)
  <2>1. RowOf(l[i], u, all) /\ 1 <= l[i].first /\ l[i].first \in Nat
    BY SoundTypes DEF Sound, Tight
  <2>2. l[i].decision.number \in 1 .. u
    BY <2>1 DEF RowOf
  <2>3. \A k \in l[i].first .. l[i].decision.number : k \in 1 .. u
    BY <2>1, <2>2
  <2>4. \A k \in l[i].first .. l[i].decision.number : more[k].command = l[i].decision.command
    BY <1>1, <2>1, <2>3 DEF RowOf
  <2>5. l[i].decision = more[l[i].decision.number]
    BY <1>1, <2>1, <2>2 DEF RowOf
  <2> QED
    BY <2>1, <2>2, <2>4, <2>5 DEF RowOf
<1>3. Tight(l, u, more)
  BY <1>2 DEF Tight
<1> QED
  BY <1>3 DEF more

LEMMA RecordsGrow ==
  ASSUME NEW d \in Decisions, d.number = folded + 1, Records
  PROVE  /\ Append(recorded, d) \in Seq(Decisions)
         /\ Len(Append(recorded, d)) = Len(recorded) + 1 /\ Append(recorded, d)[Len(recorded) + 1] = d
         /\ \A i \in 1 .. Len(recorded) : Append(recorded, d)[i] = recorded[i]
         /\ \A i \in 1 .. Len(recorded) + 1 :
              /\ 1 <= Append(recorded, d)[i].number /\ Append(recorded, d)[i].number <= folded + 1
              /\ i > 1 => Append(recorded, d)[i - 1].number < Append(recorded, d)[i].number
<1> DEFINE more == Append(recorded, d)
           n == Len(recorded)
<1>1. recorded \in Seq(Decisions) /\ folded \in Nat /\ n \in Nat
  BY DEF Records
<1>2. more \in Seq(Decisions) /\ Len(more) = n + 1 /\ more[n + 1] = d /\ \A i \in 1 .. n : more[i] = recorded[i]
  BY <1>1
<1> HIDE DEF more
<1>3. \A i \in 1 .. n : recorded[i].number \in Nat
  <2>1. \A i \in 1 .. n : recorded[i] \in Decisions
    BY <1>1
  <2> QED
    BY <2>1 DEF Decisions
<1>4. ASSUME NEW i \in 1 .. n + 1
      PROVE  /\ 1 <= more[i].number /\ more[i].number <= folded + 1
             /\ i > 1 => more[i - 1].number < more[i].number
  <2>1. CASE i = n + 1
    <3>1. i > 1 => i - 1 \in 1 .. n
      BY <1>1, <2>1
    <3>2. ASSUME i > 1 PROVE more[i - 1].number \in Nat /\ more[i - 1].number <= folded
      <4>1. PICK k \in 1 .. n : k = i - 1
        BY <3>1, <3>2
      <4> QED
        BY <1>2, <1>3, <4>1 DEF Records
    <3>3. more[i].number = folded + 1
      BY <1>2, <2>1
    <3> QED
      BY <1>1, <3>2, <3>3
  <2>2. CASE i # n + 1
    <3>1. i \in 1 .. n
      BY <1>1, <2>2
    <3>2. 1 <= more[i].number /\ more[i].number <= folded /\ more[i].number \in Nat
      BY <1>2, <1>3, <3>1 DEF Records
    <3>3. ASSUME i > 1 PROVE more[i - 1].number < more[i].number
      <4>1. PICK k \in 1 .. n : k = i - 1
        BY <1>1, <3>1, <3>3
      <4>2. recorded[i - 1].number < recorded[i].number
        BY <3>1, <3>3 DEF Records
      <4> QED
        BY <1>2, <3>1, <4>1, <4>2
    <3> QED
      BY <1>1, <3>2, <3>3
  <2> QED
    BY <2>1, <2>2
<1> QED
  BY <1>2, <1>4 DEF more

-----------------------------------------------------------------------------
(* The dashboard: its steps.                                                  *)

LEMMA LogInit == Dashboard!Init => LogInv
<1> SUFFICES ASSUME Dashboard!Init PROVE LogInv
  OBVIOUS
<1> USE DEF Dashboard!Init
<1>1. LogTypes
  <2>1. dropped \in BOOLEAN /\ running \in BOOLEAN
    OBVIOUS
  <2>2. folded \in 0 .. MaxDecisions /\ prices \in 0 .. MaxFetches
    BY DashboardAssumption
  <2> QED
    BY <2>1, <2>2 DEF LogTypes
<1>2. Records
  BY DEF Records
<1>3. Sound(log, folded) /\ Entire
  BY NoRows DEF Entire, Numbered, Reaches
<1>4. Streaming /\ running
  BY DEF Streaming, Stream
<1>5. Dashboard!PageShowsState
  BY DEF Dashboard!PageShowsState
<1> QED
  BY <1>1, <1>2, <1>3, <1>4, <1>5 DEF LogInv

\* Every stream has a state to come for, and none is up to date.
LEMMA AllBehind ==
  ASSUME Streaming, Dashboard!Notifies
  PROVE  Streaming' /\ Dashboard!PageShowsState'
<1>1. page' = [p \in Pages |-> IF page[p] = None THEN None ELSE [page[p] EXCEPT !.behind = TRUE]]
  BY DEF Dashboard!Notifies
<1>2. ASSUME NEW p \in Pages
      PROVE  /\ page'[p] = None \/ page'[p].behind
             /\ Stream(p)'
  <2>1. Stream(p) /\ page'[p] = IF page[p] = None THEN None ELSE [page[p] EXCEPT !.behind = TRUE]
    BY <1>1 DEF Streaming
  <2>2. CASE page[p] = None
    BY <2>1, <2>2 DEF Stream
  <2>3. CASE page[p] # None
    <3> DEFINE q == page[p]
               r == [q EXCEPT !.behind = TRUE]
    <3>1. /\ DOMAIN q = {"behind", "sent"} /\ q = [k \in {"behind", "sent"} |-> q[k]]
          /\ DOMAIN q.sent \subseteq Dashboard!Fragments
      BY <2>1, <2>3 DEF Stream
    <3> HIDE DEF q
    <3>2. DOMAIN r = {"behind", "sent"} /\ r.behind = TRUE /\ r.sent = q.sent
          /\ r = [k \in {"behind", "sent"} |-> r[k]]
      BY <3>1
    <3>3. page'[p] = r
      BY <2>1, <2>3 DEF q
    <3> HIDE DEF r
    <3> QED
      BY <3>1, <3>2, <3>3 DEF Stream
  <2> QED
    BY <2>2, <2>3
<1>3. page' = [p \in Pages |-> page'[p]]
  BY <1>1
<1> QED
  BY <1>2, <1>3 DEF Streaming, Dashboard!PageShowsState

LEMMA DecideKeeps == LogInv /\ Dashboard!Decides => LogInv'
<1> SUFFICES ASSUME LogInv, Dashboard!Decides PROVE LogInv'
  OBVIOUS
<1>1. PICK c \in Commands :
        /\ \/ recorded' = Append(recorded, [number |-> folded + 1, command |-> c]) /\ dropped' = dropped
           \/ dropped' = TRUE /\ recorded' = recorded
        /\ log' = Dashboard!Logged(log, [number |-> folded + 1, command |-> c])
        /\ lastDecision' = [number |-> folded + 1, command |-> c]
        /\ folded' = folded + 1 /\ folded + 1 <= MaxDecisions
        /\ running /\ running' = running /\ prices' = prices
        /\ Dashboard!Notifies
  BY DEF Dashboard!Decides
<1> DEFINE d == [number |-> folded + 1, command |-> c]
<1>2. /\ folded \in Nat /\ MaxDecisions \in Nat /\ d \in Decisions /\ d.number = folded + 1
      /\ d.command = c
  BY <1>1, DashboardAssumption DEF LogInv, LogTypes, Decisions
<1>3. /\ \/ recorded' = Append(recorded, d) /\ dropped' = dropped
         \/ dropped' = TRUE /\ recorded' = recorded
      /\ log' = Dashboard!Logged(log, d) /\ lastDecision' = d
  BY <1>1
<1> HIDE DEF d
<1>4. Records /\ Sound(log, folded) /\ LogTypes /\ Streaming
  BY DEF LogInv
<1>5. LogTypes'
  <2>1. dropped' \in BOOLEAN /\ running' \in BOOLEAN /\ prices' \in 0 .. MaxFetches
    <3>1. dropped' \in {dropped, TRUE}
      BY <1>3, <1>1
    <3> QED
      BY <1>3, <1>1, <1>4, <3>1 DEF LogTypes
  <2>2. folded' \in 0 .. MaxDecisions
    BY <1>3, <1>1, <1>2
  <2>3. Dashboard!IsDecision(lastDecision)'
    <3>1. d.number \in 1 .. MaxDecisions /\ d.command \in Commands
      BY <1>3, <1>1, <1>2
    <3> QED
      BY <1>3, <1>1, <3>1 DEF Dashboard!IsDecision
  <2> QED
    BY <2>1, <2>2, <2>3 DEF LogTypes
<1>6. Records'
  <2>1. CASE recorded' = Append(recorded, d)
    <3>1. /\ recorded' \in Seq(Decisions) /\ Len(recorded') = Len(recorded) + 1
          /\ \A i \in 1 .. Len(recorded) + 1 :
               /\ 1 <= recorded'[i].number /\ recorded'[i].number <= folded + 1
               /\ i > 1 => recorded'[i - 1].number < recorded'[i].number
      BY <1>2, <1>4, <2>1, RecordsGrow
    <3> QED
      BY <1>3, <1>1, <1>2, <3>1 DEF Records
  <2>2. CASE recorded' = recorded
    <3>1. \A i \in 1 .. Len(recorded) : recorded[i].number \in Nat
      <4>1. \A i \in 1 .. Len(recorded) : recorded[i] \in Decisions
        BY <1>4 DEF Records
      <4> QED
        BY <4>1 DEF Decisions
    <3>2. \A i \in 1 .. Len(recorded) : recorded[i].number <= folded + 1
      BY <1>2, <1>4, <3>1 DEF Records
    <3> QED
      BY <1>3, <1>1, <1>2, <1>4, <2>2, <3>2 DEF Records
  <2> QED
    BY <1>3, <1>1, <2>1, <2>2
<1>7. Sound(log', folded')
  <2>1. folded < d.number
    BY <1>2
  <2>2. Sound(Dashboard!Logged(log, d), d.number)
    BY <1>2, <1>4, <2>1, LoggedSound
  <2> QED
    BY <1>3, <1>1, <1>2, <2>2
<1>8. ASSUME ~dropped' PROVE Entire'
  <2>1. recorded' = Append(recorded, d) /\ Entire
    BY <1>3, <1>1, <1>8 DEF LogInv
  <2>2. recorded \in Seq(Decisions) /\ Len(recorded) = folded /\ Numbered /\ Tight(log, folded, recorded)
        /\ Reaches(log, folded)
    BY <1>4, <2>1 DEF Entire, Records
  <2>3. /\ Len(recorded') = folded + 1 /\ recorded'[folded + 1] = d
        /\ \A i \in 1 .. folded : recorded'[i] = recorded[i]
    BY <1>2, <1>4, <2>1, <2>2, RecordsGrow
  <2>4. Numbered'
    BY <1>2, <2>2, <2>3 DEF Numbered
  <2>5. Tight(log, folded, recorded')
    BY <1>2, <1>4, <2>1, <2>2, TightExtends
  <2>6. Tight(Dashboard!Logged(log, recorded'[folded + 1]), folded + 1, recorded')
    BY <1>2, <1>4, <2>3, <2>5, LoggedTight
  <2>7. Reaches(Dashboard!Logged(log, d), folded + 1)
    BY <1>2, <1>4, <2>2, LoggedReaches
  <2> QED
    BY <1>3, <1>1, <2>3, <2>4, <2>6, <2>7 DEF Entire
<1>9. Streaming' /\ Dashboard!PageShowsState'
  BY <1>3, <1>1, <1>4, AllBehind
<1> QED
  BY <1>3, <1>1, <1>5, <1>6, <1>7, <1>8, <1>9 DEF LogInv

\* What the log says depends on nothing else.
LogVars == <<recorded, dropped, log, folded>>

LEMMA LogRests ==
  ASSUME LogInv, UNCHANGED LogVars
  PROVE  Records' /\ Sound(log', folded') /\ (~dropped' => Entire')
<1>1. recorded' = recorded /\ dropped' = dropped /\ log' = log /\ folded' = folded
  BY DEF LogVars
<1>2. Records'
  BY <1>1 DEF LogInv, Records
<1>3. Sound(log', folded')
  BY <1>1 DEF LogInv
<1>4. ~dropped' => Entire'
  <2>1. Entire => Entire'
    BY <1>1 DEF Entire, Numbered
  <2> QED
    BY <1>1, <2>1 DEF LogInv
<1> QED
  BY <1>2, <1>3, <1>4

LEMMA TickKeeps == LogInv /\ Dashboard!Ticks => LogInv'
<1> SUFFICES ASSUME LogInv, Dashboard!Ticks PROVE LogInv'
  OBVIOUS
<1>1. /\ running /\ running' = running /\ prices' = prices /\ lastDecision' = lastDecision
      /\ UNCHANGED LogVars /\ folded' = folded /\ dropped' = dropped /\ Dashboard!Notifies
  BY DEF Dashboard!Ticks, LogVars
<1>2. LogTypes'
  BY <1>1 DEF LogInv, LogTypes, Dashboard!IsDecision
<1>3. Streaming' /\ Dashboard!PageShowsState'
  BY <1>1, AllBehind DEF LogInv
<1> QED
  BY <1>1, <1>2, <1>3, LogRests DEF LogInv

LEMMA FetchKeeps == LogInv /\ Dashboard!Fetches => LogInv'
<1> SUFFICES ASSUME LogInv, Dashboard!Fetches PROVE LogInv'
  OBVIOUS
<1>1. /\ running /\ running' = running /\ prices < MaxFetches /\ prices' = prices + 1
      /\ lastDecision' = lastDecision
      /\ UNCHANGED LogVars /\ folded' = folded /\ dropped' = dropped /\ Dashboard!Notifies
  BY DEF Dashboard!Fetches, LogVars
<1>2. LogTypes'
  <2>1. prices' \in 0 .. MaxFetches
    BY <1>1, DashboardAssumption DEF LogInv, LogTypes
  <2> QED
    BY <1>1, <2>1 DEF LogInv, LogTypes, Dashboard!IsDecision
<1>3. Streaming' /\ Dashboard!PageShowsState'
  BY <1>1, AllBehind DEF LogInv
<1> QED
  BY <1>1, <1>2, <1>3, LogRests DEF LogInv

\* A step of one page's stream, to what shows the state if it is up to date.
LEMMA OnePage ==
  ASSUME LogInv, UNCHANGED <<LogVars, running, lastDecision, prices>>,
         NEW p \in Pages, NEW stream, page' = [page EXCEPT ![p] = stream], stream # None => running,
         \/ stream = None
         \/ /\ DOMAIN stream = {"behind", "sent"} /\ stream = [k \in {"behind", "sent"} |-> stream[k]]
            /\ stream.behind \in BOOLEAN /\ DOMAIN stream.sent \subseteq Dashboard!Fragments
            /\ ~stream.behind => stream.sent = Dashboard!Rendered
  PROVE  LogInv'
<1>1. /\ running' = running /\ prices' = prices /\ lastDecision' = lastDecision /\ log' = log
      /\ folded' = folded /\ dropped' = dropped /\ UNCHANGED LogVars
  BY DEF LogVars
<1>2. LogTypes'
  BY <1>1 DEF LogInv, LogTypes, Dashboard!IsDecision
<1>3. page' = [q \in Pages |-> page'[q]] /\ page'[p] = stream
      /\ \A q \in Pages : q # p => page'[q] = page[q]
  BY DEF LogInv, Streaming
<1>4. ASSUME NEW q \in Pages PROVE Stream(q)'
  <2>1. Stream(q)
    BY DEF LogInv, Streaming
  <2>2. CASE q = p
    BY <1>3, <2>2 DEF Stream
  <2>3. CASE q # p
    <3>1. page'[q] = page[q]
      BY <1>3, <2>3
    <3> QED
      BY <2>1, <3>1 DEF Stream
  <2> QED
    BY <2>2, <2>3
<1>5. Dashboard!PageShowsState'
  <2>1. Dashboard!Rendered' = Dashboard!Rendered
    BY <1>1 DEF Dashboard!Rendered
  <2>2. ASSUME NEW q \in Pages, page'[q] # None, ~page'[q].behind PROVE page'[q].sent = Dashboard!Rendered
    BY <1>3, <2>2 DEF LogInv, Dashboard!PageShowsState
  <2> QED
    BY <2>1, <2>2 DEF Dashboard!PageShowsState
<1>6. running' \/ \A q \in Pages : page'[q] = None
  BY <1>1, <1>3 DEF LogInv
<1> QED
  BY <1>1, <1>2, <1>3, <1>4, <1>5, <1>6, LogRests DEF LogInv, Streaming

LEMMA OpenKeeps == ASSUME LogInv, NEW p \in Pages, Dashboard!Opens(p) PROVE LogInv'
<1> DEFINE stream == [behind |-> TRUE, sent |-> <<>>]
<1>1. /\ running /\ page' = [page EXCEPT ![p] = stream]
      /\ UNCHANGED <<LogVars, running, lastDecision, prices>>
  BY DEF Dashboard!Opens, LogVars
<1>2. /\ DOMAIN stream = {"behind", "sent"} /\ stream = [k \in {"behind", "sent"} |-> stream[k]]
      /\ stream.behind = TRUE /\ DOMAIN stream.sent \subseteq Dashboard!Fragments
  OBVIOUS
<1> HIDE DEF stream
<1> QED
  BY <1>1, <1>2, OnePage

LEMMA DropKeeps == ASSUME LogInv, NEW p \in Pages, Dashboard!Drops(p) PROVE LogInv'
<1>1. page' = [page EXCEPT ![p] = None] /\ UNCHANGED <<LogVars, running, lastDecision, prices>>
  BY DEF Dashboard!Drops, LogVars
<1> QED
  BY <1>1, OnePage

\* What is sent is all of the state, whatever was sent before.
LEMMA StreamKeeps == ASSUME LogInv, NEW p \in Pages, Dashboard!Streams(p) PROVE LogInv'
<1> DEFINE was == page[p].sent
           changed == Dashboard!Changed(was)
           now == [f \in DOMAIN was \cup changed |-> IF f \in changed THEN Dashboard!Rendered[f] ELSE was[f]]
           stream == [behind |-> FALSE, sent |-> now]
<1>1. page[p] # None /\ DOMAIN page[p] = {"behind", "sent"} /\ DOMAIN was \subseteq Dashboard!Fragments
  BY DEF LogInv, Streaming, Stream, Dashboard!Streams
<1>2. running
  BY <1>1 DEF LogInv
<1>3. /\ page' = [page EXCEPT ![p] = stream]
      /\ UNCHANGED <<LogVars, running, lastDecision, prices>>
  BY DEF Dashboard!Streams, LogVars
<1>4. now = Dashboard!Rendered
  <2>1. changed = {f \in Dashboard!Fragments : f \notin DOMAIN was \/ was[f] # Dashboard!Rendered[f]}
    BY DEF Dashboard!Changed
  <2>2. DOMAIN was \cup changed = Dashboard!Fragments
    BY <1>1, <2>1
  <2>3. \A f \in Dashboard!Fragments : now[f] = Dashboard!Rendered[f]
    BY <2>1, <2>2
  <2>4. now = [f \in Dashboard!Fragments |-> Dashboard!Rendered[f]]
    BY <2>2, <2>3
  <2>5. Dashboard!Rendered = [f \in Dashboard!Fragments |-> Dashboard!Rendered[f]]
    BY DEF Dashboard!Rendered, Dashboard!Fragments
  <2> QED
    BY <2>4, <2>5
<1>5. DOMAIN Dashboard!Rendered = Dashboard!Fragments
  BY DEF Dashboard!Rendered, Dashboard!Fragments
<1> HIDE DEF now
<1>6. /\ DOMAIN stream = {"behind", "sent"} /\ stream = [k \in {"behind", "sent"} |-> stream[k]]
      /\ stream.behind = FALSE /\ stream.sent = now
  OBVIOUS
<1> HIDE DEF stream
<1> QED
  BY <1>2, <1>3, <1>4, <1>5, <1>6, OnePage

LEMMA ShutKeeps == LogInv /\ Dashboard!Stops => LogInv'
<1> SUFFICES ASSUME LogInv, Dashboard!Stops PROVE LogInv'
  OBVIOUS
<1>1. /\ running' = FALSE /\ prices' = prices /\ lastDecision' = lastDecision
      /\ folded' = folded /\ dropped' = dropped /\ UNCHANGED LogVars
      /\ page' = [p \in Pages |-> None]
  BY DEF Dashboard!Stops, LogVars
<1>2. LogTypes'
  <2>1. running' \in BOOLEAN
    BY <1>1
  <2> QED
    BY <1>1, <2>1 DEF LogInv, LogTypes, Dashboard!IsDecision
<1>3. \A p \in Pages : page'[p] = None
  BY <1>1
<1>4. Streaming'
  BY <1>1, <1>3 DEF Streaming, Stream
<1>5. Dashboard!PageShowsState'
  BY <1>3 DEF Dashboard!PageShowsState
<1> QED
  BY <1>2, <1>3, <1>4, <1>5, <1>1, LogRests DEF LogInv

\* The log read back is sound, and goes back as far as it can.
LEMMA SeedReaches ==
  ASSUME Records, Len(recorded) = folded, Numbered
  PROVE  Tight(Dashboard!Seeded, folded, recorded) /\ Reaches(Dashboard!Seeded, folded)
<1>1. /\ Tight(Dashboard!Seeded, folded, recorded)
      /\ folded > 0 => /\ Dashboard!Seeded # <<>>
                       /\ \E from : ReadFrom(from) /\ Dashboard!Seeded[1].first = from
  BY SeedFacts
<1>2. ASSUME folded > 0
      PROVE  /\ Dashboard!Seeded # <<>>
             /\ Dashboard!Seeded[1].first = 1 \/ Dashboard!Seeded[1].first <= folded - LogCapacity + 1
  <2>1. PICK from : ReadFrom(from) /\ Dashboard!Seeded[1].first = from
    BY <1>1, <1>2
  <2>2. folded \in Nat /\ LogCapacity \in Nat \ {0}
    BY DashboardAssumption DEF Records
  <2>3. from = 1 \/ from = folded - LogCapacity + 1
    BY <2>1 DEF ReadFrom
  <2> QED
    BY <1>1, <1>2, <2>1, <2>2, <2>3
<1> QED
  BY <1>1, <1>2 DEF Reaches

LEMMA RestartKeeps == LogInv /\ Dashboard!Starts => LogInv'
<1> SUFFICES ASSUME LogInv, Dashboard!Starts PROVE LogInv'
  OBVIOUS
<1>1. /\ ~running /\ running' = TRUE /\ log' = Dashboard!Seeded /\ lastDecision' = None /\ prices' = 0
      /\ recorded' = recorded /\ dropped' = dropped /\ folded' = folded /\ page' = page
  BY DEF Dashboard!Starts
<1>2. LogTypes /\ Records /\ (~dropped => Entire) /\ Streaming /\ \A p \in Pages : page[p] = None
  BY <1>1 DEF LogInv
<1>3. LogTypes'
  <2>1. running' \in BOOLEAN
    BY <1>1
  <2>2. prices' \in 0 .. MaxFetches
    BY <1>1, DashboardAssumption
  <2> QED
    BY <1>1, <1>2, <2>1, <2>2 DEF LogTypes, Dashboard!IsDecision
<1>4. Records'
  BY <1>1, <1>2 DEF Records
<1>5. Sound(log', folded')
  BY <1>1, <1>2, SeedFacts
<1>6. ~dropped' => Entire'
  <2> SUFFICES ASSUME ~dropped PROVE Entire'
    BY <1>1
  <2>1. Len(recorded) = folded /\ Numbered
    BY <1>2 DEF Entire
  <2>2. Tight(Dashboard!Seeded, folded, recorded) /\ Reaches(Dashboard!Seeded, folded)
    BY <1>2, <2>1, SeedReaches
  <2> QED
    BY <1>1, <2>1, <2>2 DEF Entire, Numbered
<1>7. Streaming' /\ \A p \in Pages : page'[p] = None
  BY <1>1, <1>2 DEF Streaming, Stream
<1>8. Dashboard!PageShowsState'
  BY <1>7 DEF Dashboard!PageShowsState
<1> QED
  BY <1>1, <1>3, <1>4, <1>5, <1>6, <1>7, <1>8 DEF LogInv

LEMMA DashboardUnchanged == LogInv /\ UNCHANGED dashboardVars => LogInv'
<1> SUFFICES ASSUME LogInv, UNCHANGED dashboardVars PROVE LogInv'
  OBVIOUS
<1>1. /\ running' = running /\ prices' = prices /\ lastDecision' = lastDecision /\ log' = log
      /\ folded' = folded /\ dropped' = dropped /\ page' = page /\ UNCHANGED LogVars
  BY DEF dashboardVars, LogVars
<1>2. LogTypes' /\ Streaming'
  BY <1>1 DEF LogInv, LogTypes, Dashboard!IsDecision, Streaming, Stream
<1>3. Dashboard!PageShowsState'
  BY <1>1 DEF LogInv, Dashboard!PageShowsState, Dashboard!Rendered
<1> QED
  BY <1>1, <1>2, <1>3, LogRests DEF LogInv

LEMMA DashboardStep == [Next]_vars => Dashboard!Next \/ UNCHANGED dashboardVars
BY DEF Next, vars

\* The log holds every decision since some number once, as rows of one command, as
\* does the one a start reads back; a page up to date holds what the state does.
THEOREM LogInvariance == Spec => []LogInv
<1>1. Init => LogInv
  BY LogInit DEF Init
<1>2. LogInv /\ [Next]_vars => LogInv'
  BY DashboardStep, DashboardUnchanged, DecideKeeps, TickKeeps, FetchKeeps, ShutKeeps, RestartKeeps,
     OpenKeeps, StreamKeeps, DropKeeps DEF Dashboard!Next
<1> QED
  BY <1>1, <1>2, PTL DEF Spec

\* web/state.rs, sse.rs: a run of one command is one row, before and after a restart,
\* with all the decisions of its span unless the journal dropped one; a restart
\* takes no row away but the oldest; and a page that has taken the newest state
\* shows it, however many states it missed.
THEOREM LogIsKept == Spec => []LogKept
<1>1. ASSUME LogInv
      PROVE  /\ log \in Seq(LogRows) /\ DOMAIN log = 1 .. Len(log) /\ folded \in 0 .. MaxDecisions
             /\ \A i \in 1 .. Len(log) :
                  /\ log[i].repeats \in Nat \ {0} /\ log[i].first \in 1 .. log[i].decision.number
                  /\ log[i].decision.number \in 1 .. MaxDecisions /\ log[i].decision.command \in Commands
  <2>1. Sound(log, folded) /\ folded \in 0 .. MaxDecisions /\ MaxDecisions \in Nat
    BY <1>1, DashboardAssumption DEF LogInv, LogTypes
  <2>2. /\ log \in Seq(LogRows) /\ DOMAIN log = 1 .. Len(log)
        /\ \A i \in 1 .. Len(log) : log[i].decision \in Decisions
    BY <2>1, SoundTypes
  <2>3. ASSUME NEW i \in 1 .. Len(log)
        PROVE  /\ log[i].repeats \in Nat \ {0} /\ log[i].first \in 1 .. log[i].decision.number
               /\ log[i].decision.number \in 1 .. MaxDecisions
    <3>1. log[i].first \in Nat /\ log[i].repeats \in Nat /\ log[i].decision.number \in Nat
      BY <2>1, SoundTypes
    <3>2. /\ log[i].repeats >= 1 /\ 1 <= log[i].first
          /\ log[i].first <= log[i].decision.number /\ log[i].decision.number <= folded
      BY <2>1 DEF Sound
    <3> QED
      BY <2>1, <3>1, <3>2
  <2>4. \A d \in Decisions : d.command \in Commands
    BY DEF Decisions
  <2> QED
    BY <2>1, <2>2, <2>3, <2>4
<1>2. LogInv => Dashboard!TypeOK
  <2> SUFFICES ASSUME LogInv PROVE Dashboard!TypeOK
    OBVIOUS
  <2>1. \A i \in DOMAIN recorded : Dashboard!IsDecision(recorded[i])
    <3> SUFFICES ASSUME NEW i \in DOMAIN recorded PROVE Dashboard!IsDecision(recorded[i])
      OBVIOUS
    <3>1. i \in 1 .. Len(recorded) /\ recorded[i] \in Decisions
      BY DEF LogInv, Records
    <3>2. 1 <= recorded[i].number /\ recorded[i].number <= folded
      BY <3>1 DEF LogInv, Records
    <3>3. recorded[i].number \in Nat /\ recorded[i].command \in Commands
      BY <3>1 DEF Decisions
    <3>4. recorded[i].number \in 1 .. MaxDecisions
      BY <1>1, <3>2, <3>3, DashboardAssumption
    <3> QED
      BY <3>3, <3>4 DEF Dashboard!IsDecision
  <2>2. /\ dropped \in BOOLEAN /\ running \in BOOLEAN
        /\ (lastDecision \in {None} \/ Dashboard!IsDecision(lastDecision))
        /\ prices \in 0 .. MaxFetches /\ folded \in 0 .. MaxDecisions
    BY DEF LogInv, LogTypes
  <2>3. Len(log) <= LogCapacity
    BY DEF LogInv, Sound
  <2>4. \A i \in DOMAIN log : Dashboard!IsDecision(log[i].decision) /\ log[i].repeats \in Nat \ {0}
                              /\ log[i].first \in 1 .. log[i].decision.number
    BY <1>1 DEF Dashboard!IsDecision
  <2>5. \A p \in Pages : page[p] = None
                         \/ (page[p].behind \in BOOLEAN /\ DOMAIN page[p].sent \subseteq Dashboard!Fragments)
    BY DEF LogInv, Streaming, Stream
  <2> QED
    BY <2>1, <2>2, <2>3, <2>4, <2>5 DEF Dashboard!TypeOK
<1>3. LogInv => Dashboard!RunsAreRows
  <2> SUFFICES ASSUME LogInv PROVE Dashboard!RunsAreRows
    OBVIOUS
  <2>1. \A i \in DOMAIN log : i > 1 => log[i].decision.command # log[i - 1].decision.command
    BY <1>1 DEF LogInv, Sound
  <2>2. ~dropped => \A i \in DOMAIN log : log[i].repeats = log[i].decision.number - log[i].first + 1
    BY <1>1 DEF LogInv, Entire, Tight, RowOf
  <2> QED
    BY <2>1, <2>2 DEF Dashboard!RunsAreRows
<1>4. LogInv => Dashboard!SeedIsSuffix
  <2> SUFFICES ASSUME LogInv, ~dropped PROVE Dashboard!SeedIsSuffix
    BY DEF Dashboard!SeedIsSuffix
  <2> DEFINE read == Dashboard!Seeded
  <2>1. /\ Records /\ Entire /\ Sound(log, folded) /\ folded \in Nat /\ LogCapacity \in Nat \ {0}
        /\ Sound(read, folded)
    BY SeedFacts, DashboardAssumption DEF LogInv, Records
  <2>2. /\ Len(recorded) = folded /\ Numbered /\ Tight(log, folded, recorded) /\ Reaches(log, folded)
        /\ Tight(read, folded, recorded)
        /\ folded > 0 => read # <<>> /\ \E from : ReadFrom(from) /\ read[1].first = from
    BY <2>1, SeedFacts DEF Entire
  <2> HIDE DEF read
  <2>3. /\ log \in Seq(LogRows) /\ Len(log) \in Nat /\ read \in Seq(LogRows) /\ Len(read) \in Nat
        /\ DOMAIN read = 1 .. Len(read)
    BY <2>1, SoundTypes
  <2>4. CASE folded = 0
    <3>1. ASSUME NEW l, Sound(l, folded), l \in Seq(LogRows) PROVE l = <<>>
      <4> SUFFICES ASSUME l # <<>> PROVE FALSE
        OBVIOUS
      <4>1. 1 \in 1 .. Len(l)
        BY <3>1, EmptySeq
      <4>2. l[1].first \in Nat /\ l[1].decision.number \in Nat
        BY <3>1, <4>1, SoundTypes
      <4>3. 1 <= l[1].first /\ l[1].first <= l[1].decision.number /\ l[1].decision.number <= 0
        BY <2>4, <3>1, <4>1 DEF Sound
      <4> QED
        BY <4>2, <4>3
    <3>2. log = <<>> /\ read = <<>>
      BY <2>1, <2>3, <3>1
    <3> QED
      BY <3>2 DEF Dashboard!SeedIsSuffix, read
  <2>5. CASE folded > 0
    <3>1. PICK from : ReadFrom(from) /\ read[1].first = from
      BY <2>2, <2>5
    <3>2. log # <<>> /\ read # <<>> /\ (log[1].first = 1 \/ log[1].first <= folded - LogCapacity + 1)
      BY <2>2, <2>5 DEF Reaches
    <3>3. from \in Nat \ {0} /\ from >= folded - LogCapacity + 1
      BY <2>2, <3>1 DEF ReadFrom
    <3>4. log[1].first <= read[1].first
      <4>1. 1 \in 1 .. Len(log)
        BY <2>3, <3>2, EmptySeq
      <4>2. log[1].first \in Nat
        BY <2>1, <4>1, SoundTypes
      <4> QED
        BY <2>1, <3>1, <3>2, <3>3, <4>2
    <3>5. /\ Len(read) <= Len(log)
          /\ \A i \in 1 .. Len(read) : /\ log[Len(log) - Len(read) + i].decision = read[i].decision
                                       /\ i > 1 => log[Len(log) - Len(read) + i] = read[i]
      BY <2>1, <2>2, <3>2, <3>4, Aligned
    <3>6. Len(log) - Len(read) >= 0
      BY <2>3, <3>5
    <3>7. \A i \in DOMAIN read : read[i].decision = log[Len(log) - Len(read) + i].decision
      BY <2>3, <3>5
    <3>8. \A i \in 2 .. Len(read) : read[i] = log[Len(log) - Len(read) + i]
      BY <2>3, <3>5
    <3> QED
      BY <3>2, <3>6, <3>7, <3>8 DEF Dashboard!SeedIsSuffix, read
  <2> QED
    BY <2>1, <2>4, <2>5
<1>5. LogInv => LogKept
  BY <1>2, <1>3, <1>4 DEF LogInv, LogKept, Dashboard!LogKept
<1> QED
  BY <1>5, LogInvariance, PTL

-----------------------------------------------------------------------------
(* Sums over a finite set.                                                    *)

Any(S) == CHOOSE x \in S : TRUE

\* `it` adds g up over the subsets of D, an element at a time.
Adds(it, g, D) ==
  it = [S \in SUBSET D |-> IF S = {} THEN 0 ELSE it[S \ {Any(S)}] + g[Any(S)]]

LEMMA AnyOf == ASSUME NEW S, S # {} PROVE Any(S) \in S
BY DEF Any

\* Without an element there is one less; and a set of one at most that is none is empty.
LEMMA OneLess ==
  ASSUME NEW D, IsFiniteSet(D), NEW S \in SUBSET D, NEW k \in Nat
  PROVE  /\ Cardinality(S) \in Nat /\ Cardinality(S) <= Cardinality(D)
         /\ \A x \in S : S \ {x} \in SUBSET D /\ (Cardinality(S) <= k + 1 => Cardinality(S \ {x}) <= k)
         /\ Cardinality(S) <= 0 => S = {}
<1>1. IsFiniteSet(S) /\ Cardinality(S) <= Cardinality(D)
  BY FS_Subset
<1>2. Cardinality(S) \in Nat
  BY <1>1, FS_CardinalityType
<1>3. ASSUME NEW x \in S PROVE Cardinality(S \ {x}) = Cardinality(S) - 1
  BY <1>1, FS_RemoveElement
<1>4. Cardinality(S) <= 0 => S = {}
  BY <1>1, <1>2, FS_EmptySet
<1> QED
  BY <1>1, <1>2, <1>3, <1>4

\* There is such a function.
LEMMA AddsExists ==
  ASSUME NEW D, IsFiniteSet(D), NEW g, \A x \in D : g[x] \in Int
  PROVE  \E it : Adds(it, g, D)
<1> DEFINE n == Cardinality(D)
           SumsOver == [SUBSET D -> Int]
           Turn(h) == [S \in SUBSET D |-> IF S = {} THEN 0 ELSE h[S \ {Any(S)}] + g[Any(S)]]
           base == [S \in SUBSET D |-> 0]
           step == [p \in (1 .. n + 1) \X SumsOver |-> Turn(p[2])]
<1>1. n \in Nat /\ n + 1 \in Nat
  BY FS_CardinalityType
<1>2. base \in SumsOver
  OBVIOUS
<1>3. \A h \in SumsOver : Turn(h) \in SumsOver
  BY AnyOf
<1>4. step \in [(1 .. n + 1) \X SumsOver -> SumsOver]
  BY <1>3
<1>5. PICK F \in [0 .. n + 1 -> SumsOver] : Iterates(F, n + 1, base, step)
  BY <1>1, <1>2, <1>4, Recursion
<1>6. F[0] = base /\ \A i \in 1 .. n + 1 : F[i] = Turn(F[i - 1])
  <2>1. \A i \in 1 .. n + 1 : i - 1 \in 0 .. n + 1 /\ F[i - 1] \in SumsOver
    <3> HIDE DEF n, SumsOver
    <3> QED
      BY <1>1
  <2>2. \A i \in 1 .. n + 1 : <<i, F[i - 1]>> \in (1 .. n + 1) \X SumsOver
    BY <2>1
  <2>3. \A i \in 1 .. n + 1 : step[<<i, F[i - 1]>>] = Turn(F[i - 1])
    BY <2>2
  <2> QED
    BY <1>5, <2>3 DEF Iterates
<1>7. \A k \in 0 .. n : k + 1 \in 1 .. n + 1 /\ k + 1 - 1 = k
  BY <1>1
<1>8. \A k \in 0 .. n : F[k + 1] = Turn(F[k])
  <2> HIDE DEF n, base, Turn
  <2> QED
    BY <1>6, <1>7
<1> DEFINE T == {k \in Nat : k <= n => \A S \in SUBSET D : Cardinality(S) <= k => F[k + 1][S] = F[k][S]}
<1>9. 0 \in T
  <2> SUFFICES ASSUME NEW S \in SUBSET D, Cardinality(S) <= 0 PROVE F[0 + 1][S] = F[0][S]
    OBVIOUS
  <2>1. S = {}
    BY OneLess
  <2>2. Turn(F[0])[S] = 0 /\ base[S] = 0
    BY <2>1
  <2>3. 0 \in 0 .. n
    BY <1>1
  <2>4. F[0 + 1] = Turn(F[0])
    BY <1>8, <2>3
  <2> QED
    BY <1>6, <2>2, <2>4
<1>10. \A k \in Nat : k \in T => k + 1 \in T
  <2> SUFFICES ASSUME NEW k \in Nat, k \in T, k + 1 <= n, NEW S \in SUBSET D, Cardinality(S) <= k + 1
               PROVE  F[k + 1 + 1][S] = F[k + 1][S]
    OBVIOUS
  <2>1. k \in 0 .. n /\ k + 1 \in 0 .. n
    BY <1>1
  <2>2. F[k + 1 + 1] = Turn(F[k + 1]) /\ F[k + 1] = Turn(F[k])
    BY <1>8, <2>1
  <2>3. CASE S = {}
    BY <2>2, <2>3
  <2>4. CASE S # {}
    <3>1. Any(S) \in S
      BY <2>4, AnyOf
    <3>2. S \ {Any(S)} \in SUBSET D /\ Cardinality(S \ {Any(S)}) <= k
      BY <3>1, OneLess
    <3>3. F[k + 1][S \ {Any(S)}] = F[k][S \ {Any(S)}]
      BY <2>1, <3>2
    <3> QED
      BY <2>2, <2>4, <3>3
  <2> QED
    BY <2>3, <2>4
<1> HIDE DEF T
<1>11. n \in T
  BY <1>1, <1>9, <1>10, EveryNat
<1>12. F[n + 1] = F[n]
  <2>1. \A S \in SUBSET D : Cardinality(S) <= n
    BY <1>1, OneLess
  <2>2. n \in 0 .. n + 1 /\ n + 1 \in 0 .. n + 1 /\ n \in Nat /\ n <= n
    BY <1>1
  <2>3. \A S \in SUBSET D : F[n + 1][S] = F[n][S]
    BY <1>11, <2>1, <2>2 DEF T
  <2>4. F[n + 1] \in SumsOver /\ F[n] \in SumsOver
    BY <2>2
  <2> HIDE DEF n
  <2> QED
    BY <2>3, <2>4
<1>13. F[n] = Turn(F[n])
  <2>1. n \in 0 .. n
    BY <1>1
  <2> QED
    BY <1>8, <1>12, <2>1
<1> QED
  BY <1>13 DEF Adds

Sums(it, g, D) == IsFiniteSet(D) /\ (\A x \in D : g[x] \in Int) /\ Adds(it, g, D)

\* It adds integers up to integers, and to the same whichever element comes last.
LEMMA AddsFacts ==
  ASSUME NEW D, NEW g, NEW it, Sums(it, g, D)
  PROVE  /\ it[{}] = 0
         /\ \A S \in SUBSET D : it[S] \in Int /\ \A x \in S : it[S] = it[S \ {x}] + g[x]
<1> USE DEF Sums
<1>1. /\ it[{}] = 0
      /\ \A S \in SUBSET D : S # {} => it[S] = it[S \ {Any(S)}] + g[Any(S)]
  <2> HIDE DEF Any
  <2>1. {} \in SUBSET D
    OBVIOUS
  <2> QED
    BY <2>1 DEF Adds
<1> DEFINE Right(S) == it[S] \in Int /\ \A x \in S : it[S] = it[S \ {x}] + g[x]
           T == {k \in Nat : \A S \in SUBSET D : Cardinality(S) <= k => Right(S)}
<1>2. 0 \in T
  <2> SUFFICES ASSUME NEW S \in SUBSET D, Cardinality(S) <= 0 PROVE Right(S)
    OBVIOUS
  <2>1. S = {}
    BY OneLess
  <2> QED
    BY <1>1, <2>1
<1>3. \A k \in Nat : k \in T => k + 1 \in T
  <2> SUFFICES ASSUME NEW k \in Nat, k \in T, NEW S \in SUBSET D, Cardinality(S) <= k + 1 PROVE Right(S)
    <3> HIDE DEF Right
    <3> QED
      OBVIOUS
  <2>1. CASE S = {}
    BY <1>1, <2>1
  <2>2. CASE S # {}
    <3> DEFINE c == Any(S)
    <3>1. c \in S
      BY <2>2, AnyOf
    <3>2. \A x \in S : S \ {x} \in SUBSET D /\ Cardinality(S \ {x}) <= k
      BY OneLess
    <3>3. \A x \in S : Right(S \ {x})
      BY <3>2
    <3>4. it[S] = it[S \ {c}] + g[c]
      BY <1>1, <2>2
    <3> HIDE DEF c
    <3>5. it[S] \in Int
      <4>1. it[S \ {c}] \in Int /\ g[c] \in Int
        BY <3>1, <3>3
      <4> QED
        BY <3>4, <4>1
    <3>6. ASSUME NEW x \in S PROVE it[S] = it[S \ {x}] + g[x]
      <4>1. CASE x = c
        BY <3>4, <4>1
      <4>2. CASE x # c
        <5>1. x \in S \ {c} /\ c \in S \ {x} /\ (S \ {c}) \ {x} = (S \ {x}) \ {c}
          BY <3>1, <4>2
        <5>2. it[S \ {c}] = it[(S \ {c}) \ {x}] + g[x] /\ it[S \ {x}] = it[(S \ {c}) \ {x}] + g[c]
          BY <3>1, <3>3, <5>1
        <5>3. (S \ {c}) \ {x} \in SUBSET D /\ Cardinality((S \ {c}) \ {x}) <= k
          <6>1. S \ {c} \in SUBSET D /\ Cardinality(S \ {c}) <= k + 1
            BY <3>1, <3>2, OneLess
          <6> QED
            BY <5>1, <6>1, OneLess
        <5>4. it[(S \ {c}) \ {x}] \in Int
          BY <5>3
        <5>5. g[x] \in Int /\ g[c] \in Int
          BY <3>1
        <5> QED
          BY <3>4, <5>2, <5>4, <5>5
      <4> QED
        BY <4>1, <4>2
    <3> QED
      BY <3>5, <3>6
  <2> QED
    BY <2>1, <2>2
<1> HIDE DEF T
<1>4. \A k \in Nat : k \in T
  BY <1>2, <1>3, EveryNat
<1>5. ASSUME NEW S \in SUBSET D PROVE Right(S)
  <2>1. Cardinality(S) \in Nat /\ Cardinality(S) <= Cardinality(S)
    BY FS_Subset, FS_CardinalityType
  <2>2. Cardinality(S) \in T
    BY <1>4, <2>1
  <2> QED
    BY <2>1, <2>2 DEF T
<1> QED
  BY <1>1, <1>5

\* Where two add up the same they agree.
LEMMA AddsAgree ==
  ASSUME NEW D, NEW g, NEW it, Sums(it, g, D), NEW E, NEW h, NEW other, Sums(other, h, E),
         NEW S, S \subseteq D, S \subseteq E, \A x \in S : g[x] = h[x]
  PROVE  it[S] = other[S]
<1>1. it[{}] = 0 /\ \A R \in SUBSET D : \A x \in R : it[R] = it[R \ {x}] + g[x]
  BY AddsFacts
<1>2. other[{}] = 0 /\ \A R \in SUBSET E : \A x \in R : other[R] = other[R \ {x}] + h[x]
  BY AddsFacts
<1>3. IsFiniteSet(S) /\ Cardinality(S) \in Nat
  BY FS_Subset, FS_CardinalityType DEF Sums
<1> DEFINE T == {k \in Nat : \A R \in SUBSET S : Cardinality(R) <= k => it[R] = other[R]}
<1>4. 0 \in T
  <2> SUFFICES ASSUME NEW R \in SUBSET S, Cardinality(R) <= 0 PROVE it[R] = other[R]
    OBVIOUS
  <2>1. R = {}
    BY <1>3, OneLess
  <2> QED
    BY <1>1, <1>2, <2>1
<1>5. \A k \in Nat : k \in T => k + 1 \in T
  <2> SUFFICES ASSUME NEW k \in Nat, k \in T, NEW R \in SUBSET S, Cardinality(R) <= k + 1 PROVE it[R] = other[R]
    OBVIOUS
  <2>1. CASE R = {}
    BY <1>1, <1>2, <2>1
  <2>2. CASE R # {}
    <3>1. PICK x \in R : TRUE
      BY <2>2
    <3>2. R \ {x} \in SUBSET S /\ Cardinality(R \ {x}) <= k
      BY <1>3, OneLess
    <3>3. it[R \ {x}] = other[R \ {x}] /\ g[x] = h[x]
      BY <3>2
    <3>4. R \in SUBSET D /\ R \in SUBSET E
      OBVIOUS
    <3> QED
      BY <1>1, <1>2, <3>3, <3>4
  <2> QED
    BY <2>1, <2>2
<1> HIDE DEF T
<1>6. Cardinality(S) \in T
  BY <1>3, <1>4, <1>5, EveryNat
<1> QED
  BY <1>3, <1>6 DEF T

\* What is added up of nothing is nothing.
LEMMA AddsNothing ==
  ASSUME NEW D, IsFiniteSet(D), NEW g, \A x \in D : g[x] = 0, NEW it, Adds(it, g, D)
  PROVE  it[D] = 0
<1> DEFINE nil == [x \in D |-> 0]
           none == [S \in SUBSET D |-> 0]
<1>1. none = [S \in SUBSET D |-> IF S = {} THEN 0 ELSE none[S \ {Any(S)}] + nil[Any(S)]]
  <2> SUFFICES ASSUME NEW S \in SUBSET D, S # {} PROVE 0 = none[S \ {Any(S)}] + nil[Any(S)]
    OBVIOUS
  <2>1. Any(S) \in D /\ S \ {Any(S)} \in SUBSET D
    BY AnyOf
  <2>2. none[S \ {Any(S)}] = 0 /\ nil[Any(S)] = 0
    BY <2>1
  <2> QED
    BY <2>2
<1>2. Adds(none, nil, D)
  BY <1>1 DEF Adds
<1>3. none[D] = 0 /\ \A x \in D : nil[x] = 0
  OBVIOUS
<1>5. Sums(it, g, D) /\ Sums(none, nil, D)
  BY <1>2, <1>3 DEF Sums
<1> HIDE DEF none, nil
<1>4. it[D] = none[D]
  BY <1>3, <1>5, AddsAgree
<1> QED
  BY <1>3, <1>4

-----------------------------------------------------------------------------
(* The analysis: what the days add up to.                                     *)

Total(totals, f) == Analyze!FoldSet(LAMBDA d, sum : sum + totals[d][f], 0, DOMAIN totals)

Figure(totals, f) == [d \in DOMAIN totals |-> totals[d][f]]
Figures(totals, f) == IsFiniteSet(DOMAIN totals) /\ \A d \in DOMAIN totals : totals[d][f] \in Int

LEMMA TotalAdds ==
  ASSUME NEW totals, NEW f, Figures(totals, f)
  PROVE  \E it : Sums(it, Figure(totals, f), DOMAIN totals) /\ Total(totals, f) = it[DOMAIN totals]
<1> DEFINE Grows(h) == h = [S \in SUBSET DOMAIN totals |->
                              IF S = {} THEN 0 ELSE h[S \ {CHOOSE x \in S : TRUE}] + totals[CHOOSE x \in S : TRUE][f]]
           sums == CHOOSE h : Grows(h)
<1>1. IsFiniteSet(DOMAIN totals) /\ \A d \in DOMAIN totals : Figure(totals, f)[d] = totals[d][f]
                                                             /\ Figure(totals, f)[d] \in Int
  BY DEF Figures, Figure
<1>2. Total(totals, f) = sums[DOMAIN totals]
  BY DEF Total, Analyze!FoldSet, Analyze!MapThenFoldSet
<1>3. ASSUME NEW h PROVE Adds(h, Figure(totals, f), DOMAIN totals) <=> Grows(h)
  <2>1. \A S \in SUBSET DOMAIN totals : S # {} => Figure(totals, f)[Any(S)] = totals[Any(S)][f]
    BY <1>1, AnyOf
  <2> QED
    BY <2>1 DEF Adds, Any
<1>4. \E h : Adds(h, Figure(totals, f), DOMAIN totals)
  BY <1>1, AddsExists
<1> HIDE DEF Grows
<1>5. \E h : Grows(h)
  BY <1>3, <1>4
<1>6. Grows(sums)
  BY <1>5
<1>7. Sums(sums, Figure(totals, f), DOMAIN totals)
  BY <1>1, <1>3, <1>6 DEF Sums
<1> QED
  BY <1>2, <1>7

\* A day's entry that changes, or is new.
Changes(totals, f, after, day, delta) ==
  /\ DOMAIN after = DOMAIN totals \cup {day}
  /\ \A d \in DOMAIN totals : d # day => after[d][f] = totals[d][f]
  /\ after[day][f] = (IF day \in DOMAIN totals THEN totals[day][f] ELSE 0) + delta

\* It changes the total by as much.
LEMMA TotalChanges ==
  ASSUME NEW totals, NEW f, Figures(totals, f), NEW after, NEW day, NEW delta \in Int,
         Changes(totals, f, after, day, delta)
  PROVE  Figures(after, f) /\ Total(totals, f) \in Int /\ Total(after, f) = Total(totals, f) + delta
<1> DEFINE D == DOMAIN totals
           E == DOMAIN after
           g == Figure(totals, f)
           h == Figure(after, f)
<1>0. /\ E = D \cup {day}
      /\ \A d \in D : d # day => after[d][f] = totals[d][f]
      /\ after[day][f] = (IF day \in D THEN totals[day][f] ELSE 0) + delta
  BY DEF Changes
<1>1. IsFiniteSet(D) /\ (\A d \in D : g[d] = totals[d][f] /\ g[d] \in Int)
  BY DEF Figures, Figure
<1>2. IsFiniteSet(E)
  BY <1>0, <1>1, FS_AddElement
<1>3. day \in E /\ after[day][f] \in Int
  BY <1>0, <1>1
<1>4. \A d \in E : h[d] = after[d][f] /\ h[d] \in Int
  BY <1>0, <1>1, <1>3 DEF Figure
<1>5. Figures(after, f)
  BY <1>2, <1>4 DEF Figures
<1>6. PICK it : Sums(it, g, D) /\ Total(totals, f) = it[D]
  BY TotalAdds
<1>7. PICK other : Sums(other, h, E) /\ Total(after, f) = other[E]
  BY <1>5, TotalAdds
<1>8. \A d \in D \ {day} : g[d] = h[d]
  BY <1>0, <1>1, <1>4
<1>9. h[day] = (IF day \in D THEN g[day] ELSE 0) + delta
  BY <1>0, <1>1, <1>3, <1>4
<1>10. D \in SUBSET D /\ E \in SUBSET E /\ D \ {day} \subseteq D /\ E \ {day} = D \ {day}
  BY <1>0
<1> HIDE DEF g, h, D, E
<1>11. it[D \ {day}] = other[D \ {day}]
  BY <1>6, <1>7, <1>8, <1>10, AddsAgree
<1>12. it[D] \in Int /\ it[D \ {day}] \in Int /\ (day \in D => it[D] = it[D \ {day}] + g[day])
  <2>1. \A S \in SUBSET D : it[S] \in Int /\ \A x \in S : it[S] = it[S \ {x}] + g[x]
    BY <1>6, AddsFacts
  <2>2. it[D] \in Int /\ \A x \in D : it[D] = it[D \ {x}] + g[x]
    BY <1>10, <2>1
  <2>3. D \ {day} \in SUBSET D
    BY <1>10
  <2>4. it[D \ {day}] \in Int
    BY <2>1, <2>3
  <2> QED
    BY <2>2, <2>4
<1>13. other[E] = other[E \ {day}] + h[day]
  <2>1. \A S \in SUBSET E : other[S] \in Int /\ \A x \in S : other[S] = other[S \ {x}] + h[x]
    BY <1>7, AddsFacts
  <2>2. \A x \in E : other[E] = other[E \ {x}] + h[x]
    BY <1>10, <2>1
  <2> QED
    BY <1>3, <2>2
<1>14. it[D] = it[D \ {day}] + (IF day \in D THEN g[day] ELSE 0)
  <2>1. CASE day \in D
    BY <1>12, <2>1
  <2>2. CASE day \notin D
    <3>1. D \ {day} = D
      BY <2>2
    <3>2. it[D] = it[D] + 0
      BY <1>12
    <3> QED
      BY <2>2, <3>1, <3>2
  <2> QED
    BY <2>1, <2>2
<1>15. (IF day \in D THEN g[day] ELSE 0) \in Int
  BY <1>1
<1>16. other[E] = it[D] + delta
  <2>1. PICK k \in Int : k = (IF day \in D THEN g[day] ELSE 0)
    BY <1>15
  <2>2. PICK m \in Int : m = it[D \ {day}]
    BY <1>12
  <2>3. it[D] = m + k /\ other[E] = m + (k + delta)
    BY <1>9, <1>10, <1>11, <1>13, <1>14, <2>1, <2>2
  <2> QED
    BY <2>1, <2>2, <2>3
<1> QED
  BY <1>5, <1>6, <1>7, <1>12, <1>16

\* Days that show nothing add up to nothing.
LEMMA TotalNothing ==
  ASSUME NEW totals, NEW f, IsFiniteSet(DOMAIN totals), \A d \in DOMAIN totals : totals[d][f] = 0
  PROVE  Total(totals, f) = 0
<1>1. Figures(totals, f) /\ \A d \in DOMAIN totals : Figure(totals, f)[d] = 0
  BY DEF Figures, Figure
<1>2. PICK it : Sums(it, Figure(totals, f), DOMAIN totals) /\ Total(totals, f) = it[DOMAIN totals]
  BY <1>1, TotalAdds
<1> QED
  BY <1>1, <1>2, AddsNothing DEF Sums

-----------------------------------------------------------------------------
(* The analysis: one day's totals.                                            *)

Known == {Feed[h] : h \in DOMAIN Feed} \ {None}
Cheapest == Analyze!Min(Known)
Dearest == Analyze!Max(Known)

\* Of the feed's prices one is the least and one the greatest.
LEMMA FeedFacts ==
  /\ Cheapest \in Int /\ Dearest \in Int
  /\ \A h \in 0 .. RunDayLength - 1 :
       /\ Feed[h] \in Int \cup {None}
       /\ Feed[h] # None => Cheapest <= Feed[h] /\ Feed[h] <= Dearest
<1> DEFINE n == RunDayLength - 1
           Some(k) == \E h \in 0 .. k : Feed[h] # None
           Least(h, k) == Feed[h] # None /\ \A i \in 0 .. k : Feed[i] # None => Feed[h] <= Feed[i]
           Most(h, k) == Feed[h] # None /\ \A i \in 0 .. k : Feed[i] # None => Feed[i] <= Feed[h]
           T == {k \in Nat : k <= n /\ Some(k) => (\E h \in 0 .. k : Least(h, k)) /\ \E h \in 0 .. k : Most(h, k)}
<1>1. n \in Nat /\ RunDayLength \in Nat /\ DOMAIN Feed = 0 .. n
      /\ (\A h \in 0 .. n : Feed[h] # None => Feed[h] \in Int)
      /\ (\A h \in 0 .. n : Feed[h] \in Int \cup {None})
  BY AnalyzeAssumption
<1>2. 0 \in T
  <2> SUFFICES ASSUME 0 <= n, Some(0) PROVE Least(0, 0) /\ Most(0, 0)
    OBVIOUS
  <2>1. Feed[0] # None /\ Feed[0] \in Int /\ Feed[0] <= Feed[0]
    BY <1>1
  <2> QED
    BY <2>1
<1>3. \A k \in Nat : k \in T => k + 1 \in T
  <2> SUFFICES ASSUME NEW k \in Nat, k \in T, k + 1 <= n, Some(k + 1)
               PROVE  (\E h \in 0 .. k + 1 : Least(h, k + 1)) /\ \E h \in 0 .. k + 1 : Most(h, k + 1)
    <3> HIDE DEF Some, Least, Most, n
    <3> QED
      OBVIOUS
  <2>1. k + 1 \in 0 .. k + 1 /\ k + 1 \in 0 .. n /\ k <= n
        /\ \A i \in 0 .. k + 1 : i \in 0 .. n /\ (i \in 0 .. k \/ i = k + 1)
    BY <1>1
  <2>2. CASE Feed[k + 1] = None
    <3>1. Some(k)
      BY <2>1, <2>2
    <3>2. PICK h \in 0 .. k, m \in 0 .. k : Least(h, k) /\ Most(m, k)
      BY <2>1, <3>1
    <3>3. Least(h, k + 1) /\ Most(m, k + 1) /\ h \in 0 .. k + 1 /\ m \in 0 .. k + 1
      BY <2>1, <2>2, <3>2
    <3> QED
      BY <3>3
  <2>3. CASE Feed[k + 1] # None /\ ~Some(k)
    <3>1. Least(k + 1, k + 1) /\ Most(k + 1, k + 1)
      BY <1>1, <2>1, <2>3
    <3> QED
      BY <2>1, <3>1
  <2>4. CASE Feed[k + 1] # None /\ Some(k)
    <3>1. PICK h \in 0 .. k, m \in 0 .. k : Least(h, k) /\ Most(m, k)
      BY <2>1, <2>4
    <3>2. h \in 0 .. n /\ m \in 0 .. n /\ h \in 0 .. k + 1 /\ m \in 0 .. k + 1
          /\ Feed[h] \in Int /\ Feed[m] \in Int /\ Feed[k + 1] \in Int
      BY <1>1, <2>1, <2>4, <3>1
    <3>3. Least(h, k + 1) \/ Least(k + 1, k + 1)
      <4>1. CASE Feed[h] <= Feed[k + 1]
        BY <2>1, <3>1, <4>1
      <4>2. CASE Feed[k + 1] <= Feed[h]
        <5> SUFFICES ASSUME NEW i \in 0 .. k + 1, Feed[i] # None PROVE Feed[k + 1] <= Feed[i]
          BY <2>4
        <5>1. Feed[i] \in Int
          BY <1>1, <2>1
        <5>2. i \in 0 .. k => Feed[h] <= Feed[i]
          BY <3>1
        <5> QED
          BY <2>1, <3>2, <4>2, <5>1, <5>2
      <4> QED
        BY <3>2, <4>1, <4>2
    <3>4. Most(m, k + 1) \/ Most(k + 1, k + 1)
      <4>1. CASE Feed[k + 1] <= Feed[m]
        BY <2>1, <3>1, <4>1
      <4>2. CASE Feed[m] <= Feed[k + 1]
        <5> SUFFICES ASSUME NEW i \in 0 .. k + 1, Feed[i] # None PROVE Feed[i] <= Feed[k + 1]
          BY <2>4
        <5>1. Feed[i] \in Int
          BY <1>1, <2>1
        <5>2. i \in 0 .. k => Feed[i] <= Feed[m]
          BY <3>1
        <5> QED
          BY <2>1, <3>2, <4>2, <5>1, <5>2
      <4> QED
        BY <3>2, <4>1, <4>2
    <3> QED
      BY <2>1, <3>2, <3>3, <3>4
  <2> QED
    BY <2>2, <2>3, <2>4
<1> HIDE DEF T
<1>4. n \in T
  BY <1>1, <1>2, <1>3, EveryNat
<1>5. Some(n)
  BY <1>1, AnalyzeAssumption
<1>6. PICK h \in 0 .. n, m \in 0 .. n : Least(h, n) /\ Most(m, n)
  BY <1>1, <1>4, <1>5 DEF T
<1>7. Feed[h] \in Known /\ Feed[m] \in Known
  BY <1>1, <1>6 DEF Known
<1>8. \A p \in Known : p \in Int /\ Feed[h] <= p /\ p <= Feed[m]
  BY <1>1, <1>6 DEF Known
<1>9. Cheapest \in Known /\ \A p \in Known : Cheapest <= p
  BY <1>7, <1>8 DEF Cheapest, Analyze!Min
<1>10. Dearest \in Known /\ \A p \in Known : p <= Dearest
  <2>1. \A p \in Known : Feed[m] >= p
    BY <1>7, <1>8
  <2>2. Dearest \in Known /\ \A p \in Known : Dearest >= p
    BY <1>7, <2>1 DEF Dearest, Analyze!Max
  <2> QED
    BY <1>8, <2>2
<1>11. ASSUME NEW i \in 0 .. RunDayLength - 1, Feed[i] # None PROVE Feed[i] \in Known
  BY <1>1, <1>11 DEF Known
<1> QED
  BY <1>1, <1>8, <1>9, <1>10, <1>11

\* The part of the energy that is billed at `rate` is billed by the feed as well.
Bills(energy, fixed, dynamic, rate, fee) ==
  \E part \in 0 .. energy : /\ fixed = part * rate
                            /\ part * (Cheapest + fee) <= dynamic
                            /\ dynamic <= part * (Dearest + fee)

\* What the part costs at a price between the two stays between the two.
LEMMA Products ==
  ASSUME NEW a \in Nat, NEW b \in Nat, NEW x \in Int, NEW y \in Int, NEW z \in Int, NEW c \in Int, NEW r \in Int,
         x <= y, y <= z, a * x <= c, c <= a * z
  PROVE  /\ (a + b) * r = a * r + b * r
         /\ (a + b) * x <= c + b * y /\ c + b * y <= (a + b) * z
<1>1. b * x <= b * y /\ b * y <= b * z
  OBVIOUS
<1>2. (a + b) * x = a * x + b * x /\ (a + b) * z = a * z + b * z /\ (a + b) * r = a * r + b * r
  OBVIOUS
<1>3. a * x \in Int /\ b * x \in Int /\ b * y \in Int /\ a * z \in Int /\ b * z \in Int
  OBVIOUS
<1> QED
  BY <1>1, <1>2, <1>3

LEMMA BillsGrow ==
  ASSUME NEW energy \in Nat, NEW fixed \in Int, NEW dynamic \in Int, NEW rate \in Int, NEW fee \in Int,
         Bills(energy, fixed, dynamic, rate, fee), NEW more \in Nat, NEW price \in Int \cup {None},
         price # None => Cheapest <= price /\ price <= Dearest
  PROVE  /\ fixed + Analyze!Fixed(more, price, rate) \in Int
         /\ dynamic + Analyze!Billed(more, price, fee) \in Int
         /\ Bills(energy + more, fixed + Analyze!Fixed(more, price, rate),
                  dynamic + Analyze!Billed(more, price, fee), rate, fee)
<1>1. Cheapest \in Int /\ Dearest \in Int
  BY FeedFacts
<1>2. PICK part \in 0 .. energy : /\ fixed = part * rate
                                  /\ part * (Cheapest + fee) <= dynamic
                                  /\ dynamic <= part * (Dearest + fee)
  BY DEF Bills
<1>3. CASE price = None
  <2>1. Analyze!Fixed(more, price, rate) = 0 /\ Analyze!Billed(more, price, fee) = 0
    BY <1>3 DEF Analyze!Fixed, Analyze!Billed
  <2>2. fixed + 0 = fixed /\ dynamic + 0 = dynamic /\ part \in 0 .. energy + more
    OBVIOUS
  <2> QED
    BY <1>2, <2>1, <2>2 DEF Bills
<1>4. CASE price # None
  <2>1. price \in Int
    BY <1>4
  <2>2. Analyze!Fixed(more, price, rate) = more * rate /\ Analyze!Billed(more, price, fee) = more * (price + fee)
    BY <1>4 DEF Analyze!Fixed, Analyze!Billed
  <2>3. PICK x \in Int, y \in Int, z \in Int : x = Cheapest + fee /\ y = price + fee /\ z = Dearest + fee
    BY <1>1, <2>1
  <2>4. x <= y /\ y <= z
    BY <1>1, <1>4, <2>1, <2>3
  <2>5. part \in Nat /\ part + more \in 0 .. energy + more
    OBVIOUS
  <2>6. /\ (part + more) * rate = part * rate + more * rate
        /\ (part + more) * x <= dynamic + more * y /\ dynamic + more * y <= (part + more) * z
    BY <1>2, <2>3, <2>4, <2>5, Products
  <2>7. more * rate \in Int /\ more * y \in Int
    OBVIOUS
  <2>8. fixed + more * rate \in Int /\ dynamic + more * y \in Int
    BY <2>7
  <2> QED
    BY <1>2, <2>2, <2>3, <2>5, <2>6, <2>8 DEF Bills
<1> QED
  BY <1>3, <1>4

\* What a day's totals are, and what makes them fair.
Totals == [Analyze!Fields -> Int]
Fair(t) ==
  /\ t.import \in Nat /\ t.export \in Nat /\ t.unstored <= t.export
  /\ t.priced + t.unpriced = t.covered
  /\ Bills(t.import, t.fixedImport, t.dynamicImport, FixedPrice, DynamicFee)
  /\ Bills(t.export, t.fixedExport, t.dynamicExport, FixedCredit, 0)

LEMMA ZeroFair == Analyze!Zero \in Totals /\ Fair(Analyze!Zero) /\ \A f \in Analyze!Fields : Analyze!Zero[f] = 0
<1>1. Analyze!Zero \in Totals /\ \A f \in Analyze!Fields : Analyze!Zero[f] = 0
  BY DEF Analyze!Zero, Totals
<1>2. \A rate, fee \in Int : Bills(0, 0, 0, rate, fee)
  <2> SUFFICES ASSUME NEW rate \in Int, NEW fee \in Int PROVE Bills(0, 0, 0, rate, fee)
    OBVIOUS
  <2>1. PICK x \in Int, z \in Int : x = Cheapest + fee /\ z = Dearest + fee
    BY FeedFacts
  <2>2. 0 * rate = 0 /\ 0 * x = 0 /\ 0 * z = 0
    OBVIOUS
  <2> QED
    BY <2>1, <2>2 DEF Bills
<1>3. FixedPrice \in Int /\ DynamicFee \in Int /\ FixedCredit \in Int /\ 0 \in Int
  BY AnalyzeAssumption
<1>4. {"import", "export", "unstored", "priced", "unpriced", "covered", "fixedImport", "dynamicImport",
       "fixedExport", "dynamicExport"} \subseteq Analyze!Fields
  BY DEF Analyze!Fields
<1> QED
  BY <1>1, <1>2, <1>3, <1>4 DEF Fair

AnalyzeSamples == [at : Nat, grid : Int, flow : Int \cup {None}]

\* What a sample says is no less than nothing, and no more was left unstored than exported.
LEMMA SampleFacts ==
  ASSUME NEW s \in AnalyzeSamples
  PROVE  /\ Analyze!Import(s) \in Nat /\ Analyze!Export(s) \in Nat
         /\ Analyze!Charging(s) \in Nat /\ Analyze!Discharging(s) \in Nat /\ Analyze!AboveCap(s) \in Nat
         /\ Analyze!Unstored(s) \in Nat /\ Analyze!Unstored(s) <= Analyze!Export(s)
         /\ s.flow = None => Analyze!Unstored(s) = 0
<1>1. s.grid \in Int /\ (s.flow # None => s.flow \in Int) /\ MaxDischarge \in Int
  BY AnalyzeAssumption DEF AnalyzeSamples
<1>2. \A w \in Int : Analyze!Positive(w) \in Nat
  BY DEF Analyze!Positive
<1>3. -s.grid \in Int /\ (s.flow # None => -s.flow \in Int /\ s.grid + s.flow - MaxDischarge \in Int)
  BY <1>1
<1>4. Analyze!Import(s) \in Nat /\ Analyze!Export(s) \in Nat
  BY <1>1, <1>2, <1>3 DEF Analyze!Import, Analyze!Export
<1>5. Analyze!Charging(s) \in Nat /\ Analyze!Discharging(s) \in Nat /\ Analyze!AboveCap(s) \in Nat
  BY <1>1, <1>2, <1>3 DEF Analyze!Charging, Analyze!Discharging, Analyze!AboveCap
<1> QED
  BY <1>4, <1>5 DEF Analyze!Unstored

LEMMA TrapezoidFacts ==
  ASSUME NEW a \in Nat, NEW b \in Nat, NEW dt \in Nat
  PROVE  /\ Analyze!Trapezoid(a, b, dt) \in Nat
         /\ \A c \in 0 .. a, d \in 0 .. b : Analyze!Trapezoid(c, d, dt) \in Nat
                                            /\ Analyze!Trapezoid(c, d, dt) <= Analyze!Trapezoid(a, b, dt)
         /\ Analyze!Trapezoid(0, 0, dt) = 0
<1>1. \A m, n \in Nat : m <= n => m * dt \in Nat /\ m * dt <= n * dt
  OBVIOUS
<1>2. 0 * dt = 0 /\ 0 + 0 = 0 /\ (a + b) * dt \in Nat
  OBVIOUS
<1>3. \A c \in 0 .. a, d \in 0 .. b : c + d \in Nat /\ c + d <= a + b
  OBVIOUS
<1> QED
  BY <1>1, <1>2, <1>3 DEF Analyze!Trapezoid

\* A span more: the day's totals stay fair, and cover as much more as it is long.
Lengthened(r, t, s, u, dt) ==
  /\ r \in Totals /\ Fair(r) /\ r.covered = t.covered + dt
  /\ s.flow = None /\ u.flow = None /\ t.unstored = 0 => r.unstored = 0

LEMMA AccumulatedFacts ==
  ASSUME NEW t \in Totals, Fair(t), NEW s \in AnalyzeSamples, NEW u \in AnalyzeSamples, NEW dt \in Nat
  PROVE  Lengthened(Analyze!Accumulated(t, s, u, dt), t, s, u, dt)
<1> DEFINE r == Analyze!Accumulated(t, s, u, dt)
           T(a, b) == Analyze!Trapezoid(a, b, dt)
           import == T(Analyze!Import(s), Analyze!Import(u))
           export == T(Analyze!Export(s), Analyze!Export(u))
           unstored == T(Analyze!Unstored(s), Analyze!Unstored(u))
           charged == T(Analyze!Charging(s), Analyze!Charging(u))
           discharged == T(Analyze!Discharging(s), Analyze!Discharging(u))
           aboveCap == T(Analyze!AboveCap(s), Analyze!AboveCap(u))
           price == Feed[s.at % RunDayLength]
<1>1. \A f \in Analyze!Fields : t[f] \in Int
  BY DEF Totals
<1>2. /\ t.covered \in Int /\ t.import \in Int /\ t.export \in Int /\ t.unstored \in Int
      /\ t.charged \in Int /\ t.discharged \in Int /\ t.aboveCap \in Int /\ t.priced \in Int /\ t.unpriced \in Int
      /\ t.dynamicImport \in Int /\ t.dynamicExport \in Int /\ t.fixedImport \in Int /\ t.fixedExport \in Int
  BY <1>1 DEF Analyze!Fields
<1>3. /\ import \in Nat /\ export \in Nat /\ charged \in Nat /\ discharged \in Nat /\ aboveCap \in Nat
      /\ unstored \in Nat /\ unstored <= export
      /\ s.flow = None /\ u.flow = None => unstored = 0
  <2>1. /\ Analyze!Unstored(s) \in 0 .. Analyze!Export(s) /\ Analyze!Unstored(u) \in 0 .. Analyze!Export(u)
        /\ Analyze!Export(s) \in Nat /\ Analyze!Export(u) \in Nat
    BY SampleFacts
  <2>2. unstored \in Nat /\ unstored <= export /\ export \in Nat
    BY <2>1, TrapezoidFacts
  <2>3. s.flow = None /\ u.flow = None => unstored = 0
    BY SampleFacts, TrapezoidFacts
  <2>4. import \in Nat /\ charged \in Nat /\ discharged \in Nat /\ aboveCap \in Nat
    BY SampleFacts, TrapezoidFacts
  <2> QED
    BY <2>2, <2>3, <2>4
<1>4. price \in Int \cup {None} /\ (price # None => Cheapest <= price /\ price <= Dearest)
  <2>1. s.at \in Nat /\ RunDayLength \in Nat \ {0}
    BY AnalyzeAssumption DEF AnalyzeSamples
  <2>2. s.at % RunDayLength \in 0 .. RunDayLength - 1
    BY <2>1
  <2> QED
    BY <2>2, FeedFacts
<1>5. r = [covered |-> t.covered + dt,
           import |-> t.import + import,
           export |-> t.export + export,
           unstored |-> t.unstored + unstored,
           charged |-> t.charged + charged,
           discharged |-> t.discharged + discharged,
           aboveCap |-> t.aboveCap + aboveCap,
           priced |-> t.priced + IF price # None THEN dt ELSE 0,
           unpriced |-> t.unpriced + IF price # None THEN 0 ELSE dt,
           dynamicImport |-> t.dynamicImport + Analyze!Billed(import, price, DynamicFee),
           dynamicExport |-> t.dynamicExport + Analyze!Billed(export, price, 0),
           fixedImport |-> t.fixedImport + Analyze!Fixed(import, price, FixedPrice),
           fixedExport |-> t.fixedExport + Analyze!Fixed(export, price, FixedCredit)]
  BY DEF Analyze!Accumulated
<1> HIDE DEF r, T, import, export, unstored, charged, discharged, aboveCap, price
<1>6. FixedPrice \in Int /\ DynamicFee \in Int /\ FixedCredit \in Int /\ 0 \in Int
  BY AnalyzeAssumption
<1>7. /\ t.import \in Nat /\ t.export \in Nat /\ t.unstored <= t.export
      /\ t.priced + t.unpriced = t.covered
      /\ Bills(t.import, t.fixedImport, t.dynamicImport, FixedPrice, DynamicFee)
      /\ Bills(t.export, t.fixedExport, t.dynamicExport, FixedCredit, 0)
  BY DEF Fair
<1>8. /\ r.fixedImport \in Int /\ r.dynamicImport \in Int
      /\ Bills(r.import, r.fixedImport, r.dynamicImport, FixedPrice, DynamicFee)
  <2>1. /\ t.fixedImport + Analyze!Fixed(import, price, FixedPrice) \in Int
        /\ t.dynamicImport + Analyze!Billed(import, price, DynamicFee) \in Int
        /\ Bills(t.import + import, t.fixedImport + Analyze!Fixed(import, price, FixedPrice),
                 t.dynamicImport + Analyze!Billed(import, price, DynamicFee), FixedPrice, DynamicFee)
    BY <1>2, <1>3, <1>4, <1>6, <1>7, BillsGrow
  <2> QED
    BY <1>5, <2>1
<1>9. /\ r.fixedExport \in Int /\ r.dynamicExport \in Int
      /\ Bills(r.export, r.fixedExport, r.dynamicExport, FixedCredit, 0)
  <2>1. /\ t.fixedExport + Analyze!Fixed(export, price, FixedCredit) \in Int
        /\ t.dynamicExport + Analyze!Billed(export, price, 0) \in Int
        /\ Bills(t.export + export, t.fixedExport + Analyze!Fixed(export, price, FixedCredit),
                 t.dynamicExport + Analyze!Billed(export, price, 0), FixedCredit, 0)
    BY <1>2, <1>3, <1>4, <1>6, <1>7, BillsGrow
  <2> QED
    BY <1>5, <2>1
<1>10. /\ r.covered = t.covered + dt /\ r.import = t.import + import /\ r.export = t.export + export
       /\ r.unstored = t.unstored + unstored /\ r.charged = t.charged + charged
       /\ r.discharged = t.discharged + discharged /\ r.aboveCap = t.aboveCap + aboveCap
       /\ r.priced = t.priced + IF price # None THEN dt ELSE 0
       /\ r.unpriced = t.unpriced + IF price # None THEN 0 ELSE dt
  BY <1>5
<1>11. DOMAIN r = Analyze!Fields /\ r = [f \in Analyze!Fields |-> r[f]]
  BY <1>5 DEF Analyze!Fields
<1>12. /\ r.import \in Nat /\ r.export \in Nat /\ r.unstored <= r.export /\ r.unstored \in Int
       /\ r.priced \in Int /\ r.unpriced \in Int /\ r.covered \in Int
       /\ r.priced + r.unpriced = r.covered
       /\ r.charged \in Int /\ r.discharged \in Int /\ r.aboveCap \in Int
  BY <1>2, <1>3, <1>7, <1>10
<1>13. r \in Totals
  <2>1. \A f \in Analyze!Fields : r[f] \in Int
    BY <1>8, <1>9, <1>12 DEF Analyze!Fields
  <2> QED
    BY <1>11, <2>1 DEF Totals
<1>14. s.flow = None /\ u.flow = None /\ t.unstored = 0 => r.unstored = 0
  BY <1>3, <1>10
<1> QED
  <2>1. Fair(r)
    BY <1>8, <1>9, <1>12 DEF Fair
  <2>2. Lengthened(r, t, s, u, dt)
    BY <1>10, <1>13, <1>14, <2>1 DEF Lengthened
  <2> QED
    BY <2>2 DEF r

-----------------------------------------------------------------------------
(* The analysis: the run so far.                                              *)

\* Days with their totals.
FairDays(totals) == IsFiniteSet(DOMAIN totals) /\ \A d \in DOMAIN totals : totals[d] \in Totals /\ Fair(totals[d])

\* Totals are kept by day; what they cover is no more than the run has lasted, to the
\* last sample and to now, and with no battery heard of yet none of it is unstored.
AnalyzeInv ==
  /\ Analyze!TypeOK
  /\ FairDays(days)
  /\ previous = None => DOMAIN days = {} /\ span = 0
  /\ previous # None => Analyze!Day(previous.at) \in DOMAIN days
                        /\ Total(days, "covered") + (runNow - previous.at) <= span
  /\ Total(days, "covered") <= span
  /\ battery = None => (previous = None \/ previous.flow = None) /\ \A d \in DOMAIN days : days[d].unstored = 0

LEMMA DayFigures ==
  ASSUME NEW totals, FairDays(totals)
  PROVE  Figures(totals, "covered") /\ Total(totals, "covered") \in Int
<1>1. "covered" \in Analyze!Fields
  BY DEF Analyze!Fields
<1>2. Figures(totals, "covered")
  BY <1>1 DEF FairDays, Figures, Totals
<1>3. PICK it : Sums(it, Figure(totals, "covered"), DOMAIN totals) /\ Total(totals, "covered") = it[DOMAIN totals]
  BY <1>2, TotalAdds
<1>4. DOMAIN totals \in SUBSET DOMAIN totals
  OBVIOUS
<1> QED
  BY <1>2, <1>3, <1>4, AddsFacts

\* A day entered adds nothing.
LEMMA EnteredFacts ==
  ASSUME FairDays(days), NEW day, NEW seen, seen = Analyze!Entered(day)
  PROVE  /\ FairDays(seen) /\ DOMAIN seen = DOMAIN days \cup {day}
         /\ Total(days, "covered") \in Int /\ Total(seen, "covered") = Total(days, "covered")
         /\ \A d \in DOMAIN seen : seen[d] = days[d] \/ seen[d].unstored = 0
         /\ seen = [d \in DOMAIN seen |-> seen[d]]
<1>1. seen = [d \in DOMAIN days \cup {day} |-> IF d \in DOMAIN days THEN days[d] ELSE Analyze!Zero]
  BY DEF Analyze!Entered
<1>2. DOMAIN seen = DOMAIN days \cup {day} /\ seen = [d \in DOMAIN seen |-> seen[d]]
  BY <1>1
<1>3. \A d \in DOMAIN seen : (d \in DOMAIN days => seen[d] = days[d]) /\ (d \notin DOMAIN days => seen[d] = Analyze!Zero)
  BY <1>1
<1>4. "unstored" \in Analyze!Fields /\ "covered" \in Analyze!Fields
  BY DEF Analyze!Fields
<1>5. IsFiniteSet(DOMAIN seen)
  BY <1>2, FS_AddElement DEF FairDays
<1>6. FairDays(seen)
  BY <1>2, <1>3, <1>5, ZeroFair DEF FairDays
<1>7. \A d \in DOMAIN seen : seen[d] = days[d] \/ seen[d].unstored = 0
  BY <1>2, <1>3, <1>4, ZeroFair
<1>8. Figures(days, "covered") /\ Total(days, "covered") \in Int
  BY DayFigures
<1>9. seen[day]["covered"] = (IF day \in DOMAIN days THEN days[day]["covered"] ELSE 0) + 0
  <2>1. CASE day \in DOMAIN days
    <3>1. days[day]["covered"] \in Int
      BY <1>4, <2>1 DEF FairDays, Totals
    <3> QED
      BY <1>2, <1>3, <2>1, <3>1
  <2>2. CASE day \notin DOMAIN days
    BY <1>2, <1>3, <1>4, <2>2, ZeroFair
  <2> QED
    BY <2>1, <2>2
<1>10. \A d \in DOMAIN days : d # day => seen[d]["covered"] = days[d]["covered"]
  BY <1>2, <1>3
<1>11. Changes(days, "covered", seen, day, 0)
  BY <1>2, <1>9, <1>10 DEF Changes
<1>12. Total(seen, "covered") = Total(days, "covered") + 0
  BY <1>8, <1>11, TotalChanges
<1> QED
  BY <1>2, <1>6, <1>7, <1>8, <1>12

\* A day that covers `dt` more.
Replaced(after, seen, day, r, dt) ==
  /\ DOMAIN after = DOMAIN seen /\ FairDays(after)
  /\ after[day] = r /\ \A d \in DOMAIN after : d # day => after[d] = seen[d]
  /\ Total(seen, "covered") \in Int /\ Total(after, "covered") = Total(seen, "covered") + dt

LEMMA CoverMore ==
  ASSUME NEW seen, FairDays(seen), seen = [d \in DOMAIN seen |-> seen[d]],
         NEW day \in DOMAIN seen, NEW dt \in Nat, NEW r \in Totals, Fair(r), r.covered = seen[day].covered + dt
  PROVE  Replaced([seen EXCEPT ![day] = r], seen, day, r, dt)
<1> DEFINE after == [seen EXCEPT ![day] = r]
<1>1. DOMAIN after = DOMAIN seen /\ after[day] = r /\ \A d \in DOMAIN after : d # day => after[d] = seen[d]
  OBVIOUS
<1> HIDE DEF after
<1>2. FairDays(after)
  BY <1>1 DEF FairDays
<1>3. Figures(seen, "covered") /\ Total(seen, "covered") \in Int
  BY DayFigures
<1>4. after[day]["covered"] = (IF day \in DOMAIN seen THEN seen[day]["covered"] ELSE 0) + dt
  BY <1>1
<1>5. Changes(seen, "covered", after, day, dt)
  BY <1>1, <1>4 DEF Changes
<1>6. dt \in Int
  OBVIOUS
<1>7. Total(after, "covered") = Total(seen, "covered") + dt
  BY <1>3, <1>5, <1>6, TotalChanges
<1>8. Replaced(after, seen, day, r, dt)
  BY <1>1, <1>2, <1>3, <1>7 DEF Replaced
<1> QED
  BY <1>8 DEF after

LEMMA AnalyzeInit == Analyze!Init => AnalyzeInv
<1> SUFFICES ASSUME Analyze!Init PROVE AnalyzeInv
  OBVIOUS
<1>1. /\ runNow = 0 /\ runSteps = 0 /\ written = 0 /\ battery = None /\ previous = None
      /\ days = <<>> /\ span = 0
  BY DEF Analyze!Init
<1>2. DOMAIN days = {} /\ IsFiniteSet(DOMAIN days) /\ FairDays(days)
  BY <1>1, FS_EmptySet DEF FairDays
<1>3. Analyze!TypeOK
  BY <1>1, <1>2, AnalyzeAssumption DEF Analyze!TypeOK
<1>4. Total(days, "covered") = 0
  BY <1>2, TotalNothing
<1> QED
  BY <1>1, <1>2, <1>3, <1>4 DEF AnalyzeInv

\* What the types say of a sample.
LEMMA InvFacts ==
  ASSUME AnalyzeInv
  PROVE  /\ runNow \in Nat /\ span \in Nat /\ battery \in RunFlows \cup {None}
         /\ previous # None => previous \in AnalyzeSamples
         /\ FairDays(days) /\ Total(days, "covered") \in Int
<1>1. Analyze!TypeOK /\ FairDays(days)
  BY DEF AnalyzeInv
<1>2. RunFlows \subseteq Int /\ RunGrids \subseteq Int /\ RunNow \in Nat
  BY AnalyzeAssumption
<1>3. runNow \in Nat /\ span \in Nat /\ battery \in RunFlows \cup {None}
      /\ previous \in {None} \cup [at : 0 .. RunNow, grid : RunGrids, flow : RunFlows \cup {None}]
  BY <1>1, <1>2 DEF Analyze!TypeOK
<1>4. previous # None => previous \in AnalyzeSamples
  <2>1. \A at \in 0 .. RunNow : at \in Nat
    BY <1>2
  <2>2. ASSUME NEW s \in [at : 0 .. RunNow, grid : RunGrids, flow : RunFlows \cup {None}] PROVE s \in AnalyzeSamples
    BY <1>2, <2>1 DEF AnalyzeSamples
  <2> QED
    BY <1>3, <2>2
<1> QED
  BY <1>1, <1>3, <1>4, DayFigures

LEMMA TotalsTyped ==
  ASSUME NEW t \in Totals
  PROVE  DOMAIN t = Analyze!Fields /\ \A f \in Analyze!Fields : t[f] \in Int
BY DEF Totals

\* A sample: its day is entered, and the span since the last one is counted once.
LEMMA MeterKeeps == AnalyzeInv /\ Analyze!MeterRow => AnalyzeInv'
<1> SUFFICES ASSUME AnalyzeInv, Analyze!MeterRow PROVE AnalyzeInv'
  OBVIOUS
<1>1. /\ runNow \in Nat /\ span \in Nat /\ battery \in RunFlows \cup {None}
      /\ previous # None => previous \in AnalyzeSamples
      /\ FairDays(days) /\ Total(days, "covered") \in Int
  BY InvFacts
<1>2. PICK g \in RunGrids : /\ previous' = [at |-> runNow, grid |-> g, flow |-> battery]
                         /\ days' = Analyze!Counted(previous, [at |-> runNow, grid |-> g, flow |-> battery])
  BY DEF Analyze!MeterRow
<1>3. /\ runNow' = runNow /\ runSteps' = runSteps /\ battery' = battery /\ span' = span
      /\ written' = written + 1 /\ written < RunRows
  BY DEF Analyze!MeterRow
<1>4. /\ previous' \in [at : 0 .. RunNow, grid : RunGrids, flow : RunFlows \cup {None}]
      /\ previous' \in AnalyzeSamples /\ previous' # None
      /\ previous'.at = runNow /\ previous'.flow = battery
  <2>1. runNow \in 0 .. RunNow
    BY DEF AnalyzeInv, Analyze!TypeOK
  <2>2. RunGrids \subseteq Int /\ RunFlows \subseteq Int /\ None \notin [at : Int, grid : Int, flow : Int \cup {None}]
    BY AnalyzeAssumption
  <2>3. previous' \in [at : 0 .. RunNow, grid : RunGrids, flow : RunFlows \cup {None}]
    BY <1>1, <1>2, <2>1
  <2>4. previous' \in [at : Int, grid : Int, flow : Int \cup {None}] /\ previous' \in AnalyzeSamples
    BY <1>1, <1>2, <2>2 DEF AnalyzeSamples
  <2> QED
    BY <1>2, <2>2, <2>3, <2>4
<1> DEFINE y == Analyze!Day(runNow)
           seen == Analyze!Entered(y)
<1>5. Analyze!Day(previous'.at) = y
  BY <1>4
<1>6. days' = IF previous = None \/ Analyze!Span(previous.at, runNow) = None THEN seen
              ELSE [seen EXCEPT ![Analyze!Day(previous.at)] =
                      Analyze!Accumulated(@, previous, previous', Analyze!Span(previous.at, runNow))]
  BY <1>2 DEF Analyze!Counted
<1>7. /\ FairDays(seen) /\ DOMAIN seen = DOMAIN days \cup {y}
      /\ Total(seen, "covered") = Total(days, "covered")
      /\ \A d \in DOMAIN seen : seen[d] = days[d] \/ seen[d].unstored = 0
      /\ seen = [d \in DOMAIN seen |-> seen[d]]
  BY <1>1, EnteredFacts
<1>8. battery = None => (previous = None \/ previous.flow = None) /\ \A d \in DOMAIN seen : seen[d].unstored = 0
  <2> SUFFICES ASSUME battery = None
               PROVE  (previous = None \/ previous.flow = None) /\ \A d \in DOMAIN seen : seen[d].unstored = 0
    OBVIOUS
  <2>1. (previous = None \/ previous.flow = None) /\ \A d \in DOMAIN days : days[d].unstored = 0
    BY DEF AnalyzeInv
  <2>2. \A d \in DOMAIN seen : d \in DOMAIN days => seen[d] = days[d]
    BY DEF Analyze!Entered
  <2>3. \A d \in DOMAIN seen : d \notin DOMAIN days => seen[d] = Analyze!Zero
    BY DEF Analyze!Entered
  <2>4. Analyze!Zero.unstored = 0
    BY ZeroFair DEF Analyze!Fields
  <2> HIDE DEF seen
  <2> QED
    BY <2>1, <2>2, <2>3, <2>4
<1> HIDE DEF seen, y
<1>9. /\ y \in DOMAIN days' /\ FairDays(days')
      /\ Total(days', "covered") \in Int /\ Total(days', "covered") <= span
      /\ battery = None => \A d \in DOMAIN days' : days'[d].unstored = 0
  <2>1. CASE previous = None \/ Analyze!Span(previous.at, runNow) = None
    <3>1. days' = seen
      BY <1>6, <2>1
    <3>2. Total(days, "covered") <= span
      BY DEF AnalyzeInv
    <3> QED
      BY <1>1, <1>7, <1>8, <3>1, <3>2
  <2>2. CASE previous # None /\ Analyze!Span(previous.at, runNow) # None
    <3> DEFINE x == Analyze!Day(previous.at)
               dt == Analyze!Span(previous.at, runNow)
               r == Analyze!Accumulated(seen[x], previous, previous', dt)
    <3>1. previous \in AnalyzeSamples /\ previous.at \in Nat
      BY <1>1, <2>2 DEF AnalyzeSamples
    <3>2. dt \in Nat /\ dt = runNow - previous.at
      BY <1>1, <2>2, <3>1 DEF Analyze!Span
    <3>3. x \in DOMAIN seen /\ Total(days, "covered") + (runNow - previous.at) <= span
      BY <1>7, <2>2 DEF AnalyzeInv
    <3>4. days' = [seen EXCEPT ![x] = r]
      BY <1>6, <2>2
    <3>5. seen[x] \in Totals /\ Fair(seen[x])
      BY <1>7, <3>3 DEF FairDays
    <3> DEFINE t == previous'
    <3>6. t \in AnalyzeSamples /\ t.flow = battery /\ r = Analyze!Accumulated(seen[x], previous, t, dt)
      BY <1>4
    <3> HIDE DEF x, dt, r, t
    <3>7. /\ r \in Totals /\ Fair(r) /\ r.covered = seen[x].covered + dt
          /\ previous.flow = None /\ t.flow = None /\ seen[x].unstored = 0 => r.unstored = 0
      <4>1. Lengthened(r, seen[x], previous, t, dt)
        BY <3>1, <3>2, <3>5, <3>6, AccumulatedFacts
      <4> QED
        BY <4>1 DEF Lengthened
    <3>8. /\ DOMAIN days' = DOMAIN seen /\ FairDays(days')
          /\ \A d \in DOMAIN days' : d # x => days'[d] = seen[d]
          /\ days'[x] = r
          /\ Total(seen, "covered") \in Int /\ Total(days', "covered") = Total(seen, "covered") + dt
      <4>1. Replaced(days', seen, x, r, dt)
        BY <1>7, <3>2, <3>3, <3>4, <3>7, CoverMore
      <4> QED
        BY <4>1 DEF Replaced
    <3>9. Total(days', "covered") \in Int /\ Total(days', "covered") <= span
      BY <1>1, <1>7, <3>2, <3>3, <3>8
    <3>10. battery = None => \A d \in DOMAIN days' : days'[d].unstored = 0
      BY <1>8, <2>2, <3>3, <3>6, <3>7, <3>8
    <3> QED
      BY <1>7, <3>8, <3>9, <3>10
  <2> QED
    BY <2>1, <2>2
<1>10. Analyze!TypeOK'
  <2>1. /\ runNow \in 0 .. RunNow /\ runSteps \in 0 .. RunSteps /\ written \in 0 .. RunRows
    BY DEF AnalyzeInv, Analyze!TypeOK
  <2>2. written' \in 0 .. RunRows
    BY <1>3, <2>1, AnalyzeAssumption
  <2>3. \A d \in DOMAIN days' : DOMAIN days'[d] = Analyze!Fields /\ \A f \in Analyze!Fields : days'[d][f] \in Int
    BY <1>9, TotalsTyped DEF FairDays
  <2> QED
    BY <1>1, <1>3, <1>4, <2>1, <2>2, <2>3 DEF Analyze!TypeOK
<1>11. Total(days', "covered") + (runNow - runNow) <= span
  BY <1>1, <1>9
<1> QED
  BY <1>3, <1>4, <1>5, <1>8, <1>9, <1>10, <1>11 DEF AnalyzeInv

\* What no step but a sample touches.
LEMMA DaysSame ==
  ASSUME AnalyzeInv, days' = days, previous' = previous
  PROVE  FairDays(days') /\ Total(days', "covered") = Total(days, "covered") /\ Total(days, "covered") \in Int
BY InvFacts

LEMMA BatteryKeeps == AnalyzeInv /\ Analyze!BatteryRow => AnalyzeInv'
<1> SUFFICES ASSUME AnalyzeInv, Analyze!BatteryRow PROVE AnalyzeInv'
  OBVIOUS
<1>1. /\ battery' \in RunFlows /\ written' = written + 1 /\ written < RunRows
      /\ runNow' = runNow /\ runSteps' = runSteps /\ previous' = previous /\ days' = days /\ span' = span
  BY DEF Analyze!BatteryRow
<1>2. battery' # None
  BY <1>1, AnalyzeAssumption
<1>3. Analyze!TypeOK'
  <2>1. Analyze!TypeOK
    BY DEF AnalyzeInv
  <2>2. written' \in 0 .. RunRows
    BY <1>1, <2>1, AnalyzeAssumption DEF Analyze!TypeOK
  <2> QED
    BY <1>1, <2>1, <2>2 DEF Analyze!TypeOK
<1> QED
  BY <1>1, <1>2, <1>3, DaysSame DEF AnalyzeInv

LEMMA RunPassKeeps == AnalyzeInv /\ Analyze!Passes => AnalyzeInv'
<1> SUFFICES ASSUME AnalyzeInv, Analyze!Passes PROVE AnalyzeInv'
  OBVIOUS
<1>1. /\ runNow < RunNow /\ runNow' = runNow + 1 /\ span' = IF previous = None THEN 0 ELSE span + 1
      /\ runSteps' = runSteps /\ written' = written /\ battery' = battery
      /\ previous' = previous /\ days' = days
  BY DEF Analyze!Passes
<1>2. /\ runNow \in Nat /\ span \in Nat /\ (previous # None => previous.at \in Nat)
      /\ Total(days, "covered") \in Int
  BY InvFacts DEF AnalyzeSamples
<1>3. Analyze!TypeOK'
  <2>1. runNow' \in 0 .. RunNow /\ span' \in Nat
    BY <1>1, <1>2, AnalyzeAssumption
  <2> QED
    BY <1>1, <2>1 DEF AnalyzeInv, Analyze!TypeOK
<1>4. CASE previous = None
  <2>1. DOMAIN days = {} /\ span = 0 /\ span' = 0
    BY <1>1, <1>4 DEF AnalyzeInv
  <2>2. Total(days, "covered") <= span'
    BY <2>1 DEF AnalyzeInv
  <2> QED
    BY <1>1, <1>3, <1>4, <2>1, <2>2, DaysSame DEF AnalyzeInv
<1>5. CASE previous # None
  <2>1. Total(days, "covered") <= span /\ Total(days, "covered") + (runNow - previous.at) <= span
    BY <1>5 DEF AnalyzeInv
  <2>2. Total(days, "covered") <= span' /\ Total(days, "covered") + (runNow' - previous.at) <= span'
    BY <1>1, <1>2, <1>5, <2>1
  <2> QED
    BY <1>1, <1>3, <1>5, <2>2, DaysSame DEF AnalyzeInv
<1> QED
  BY <1>4, <1>5

LEMMA RunBackKeeps == AnalyzeInv /\ Analyze!StepsBack => AnalyzeInv'
<1> SUFFICES ASSUME AnalyzeInv, Analyze!StepsBack PROVE AnalyzeInv'
  OBVIOUS
<1>1. /\ runSteps < RunSteps /\ runSteps' = runSteps + 1
      /\ runNow' \in {runNow - 1, runNow - 2} \cap Nat
      /\ written' = written /\ battery' = battery /\ previous' = previous /\ days' = days /\ span' = span
  BY DEF Analyze!StepsBack
<1>2. /\ runNow \in Nat /\ span \in Nat /\ (previous # None => previous.at \in Nat)
      /\ Total(days, "covered") \in Int
  BY InvFacts DEF AnalyzeSamples
<1>3. runNow \in 0 .. RunNow /\ runSteps \in 0 .. RunSteps
  BY DEF AnalyzeInv, Analyze!TypeOK
<1>4. runNow' \in 0 .. RunNow /\ runNow' <= runNow /\ runSteps' \in 0 .. RunSteps
  BY <1>1, <1>3, AnalyzeAssumption
<1>5. Analyze!TypeOK'
  BY <1>1, <1>4 DEF AnalyzeInv, Analyze!TypeOK
<1>6. previous # None => Total(days, "covered") + (runNow' - previous.at) <= span
  <2> SUFFICES ASSUME previous # None PROVE Total(days, "covered") + (runNow' - previous.at) <= span
    OBVIOUS
  <2>1. Total(days, "covered") + (runNow - previous.at) <= span
    BY DEF AnalyzeInv
  <2> QED
    BY <1>2, <1>4, <2>1
<1> QED
  BY <1>1, <1>5, <1>6, DaysSame DEF AnalyzeInv

LEMMA RunUnchanged == AnalyzeInv /\ UNCHANGED runVars => AnalyzeInv'
<1> SUFFICES ASSUME AnalyzeInv, UNCHANGED runVars PROVE AnalyzeInv'
  OBVIOUS
<1>1. /\ runNow' = runNow /\ runSteps' = runSteps /\ written' = written /\ battery' = battery
      /\ previous' = previous /\ days' = days /\ span' = span
  BY DEF runVars
<1>2. Analyze!TypeOK'
  BY <1>1 DEF AnalyzeInv, Analyze!TypeOK
<1> QED
  BY <1>1, <1>2, DaysSame DEF AnalyzeInv

\* Fair totals are what the property asks for.
LEMMA FairTotals == AnalyzeInv => TotalsFair
<1> SUFFICES ASSUME AnalyzeInv PROVE TotalsFair
  OBVIOUS
<1>1. Analyze!TypeOK /\ Total(days, "covered") <= span
  BY DEF AnalyzeInv
<1>2. IsFiniteSet(DOMAIN days) /\ \A d \in DOMAIN days : Fair(days[d])
  BY DEF AnalyzeInv, FairDays
<1>3. Analyze!NothingTwice
  BY <1>1 DEF Analyze!NothingTwice, Analyze!Over, Total
<1>4. Analyze!UnstoredIsKnown
  <2>1. \A d \in DOMAIN days : days[d].unstored <= days[d].export
    BY <1>2 DEF Fair
  <2>2. ASSUME battery = None PROVE Total(days, "unstored") = 0
    <3>1. IsFiniteSet(DOMAIN days) /\ \A d \in DOMAIN days : days[d]["unstored"] = 0
      BY <1>2, <2>2 DEF AnalyzeInv
    <3> QED
      BY <3>1, TotalNothing
  <2> QED
    BY <2>1, <2>2 DEF Analyze!UnstoredIsKnown, Analyze!Over, Total
<1>5. Analyze!SameEnergyBilled
  <2> SUFFICES ASSUME NEW d \in DOMAIN days
               PROVE  /\ \E bought \in 0 .. days[d].import :
                           /\ days[d].fixedImport = bought * FixedPrice
                           /\ bought * (Cheapest + DynamicFee) <= days[d].dynamicImport
                           /\ days[d].dynamicImport <= bought * (Dearest + DynamicFee)
                      /\ \E sold \in 0 .. days[d].export :
                           /\ days[d].fixedExport = sold * FixedCredit
                           /\ sold * Cheapest <= days[d].dynamicExport
                           /\ days[d].dynamicExport <= sold * Dearest
                      /\ days[d].priced + days[d].unpriced = days[d].covered
    BY DEF Analyze!SameEnergyBilled, Cheapest, Dearest, Known
  <2>1. Fair(days[d])
    BY <1>2
  <2>2. Cheapest + 0 = Cheapest /\ Dearest + 0 = Dearest
    BY FeedFacts
  <2>3. Bills(days[d].export, days[d].fixedExport, days[d].dynamicExport, FixedCredit, 0)
    BY <2>1 DEF Fair
  <2>4. \E sold \in 0 .. days[d].export :
          /\ days[d].fixedExport = sold * FixedCredit
          /\ sold * Cheapest <= days[d].dynamicExport
          /\ days[d].dynamicExport <= sold * Dearest
    BY <2>2, <2>3 DEF Bills
  <2>5. \E bought \in 0 .. days[d].import :
          /\ days[d].fixedImport = bought * FixedPrice
          /\ bought * (Cheapest + DynamicFee) <= days[d].dynamicImport
          /\ days[d].dynamicImport <= bought * (Dearest + DynamicFee)
    BY <2>1 DEF Fair, Bills
  <2> QED
    BY <2>1, <2>4, <2>5 DEF Fair
<1> QED
  BY <1>1, <1>3, <1>4, <1>5 DEF TotalsFair, Analyze!TotalsFair

LEMMA RunStep == [Next]_vars => Analyze!Next \/ UNCHANGED runVars
BY DEF Next, vars

THEOREM AnalyzeInvariance == Spec => []AnalyzeInv
<1>1. Init => AnalyzeInv
  BY AnalyzeInit DEF Init
<1>2. AnalyzeInv /\ [Next]_vars => AnalyzeInv'
  BY RunStep, RunUnchanged, MeterKeeps, BatteryKeeps, RunPassKeeps, RunBackKeeps DEF Analyze!Next
<1> QED
  BY <1>1, <1>2, PTL DEF Spec

\* Whatever the feed leaves unpriced, the clock is set to and the tariffs are, a run's
\* totals count no moment twice, claim no unstored export they do not know of, and bill
\* both contracts for the same energy.
THEOREM TotalsAreFair == Spec => []TotalsFair
BY AnalyzeInvariance, FairTotals, PTL
================================================================================
