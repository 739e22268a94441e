---------------------------- MODULE JournalProofs -----------------------------
(***************************************************************************)
(* Proofs about the journal: the numbers, what is accounted for, that no      *)
(* decision outlives its input, and that a complete range replays as it ran.  *)
(***************************************************************************)
EXTENDS MCJournal, FiniteSetTheorems, SequenceTheorems, WellFoundedInduction, TLAPS

-----------------------------------------------------------------------------
(* The invariant.                                                             *)

\* The next number is past every number given out, and so is some session's.
Numbered ==
  /\ \A r \in Everything : r.seq < next_seq
  /\ \E n \in Nat : \A s \in sessions : s.id <= n

\* The queue is in the order it was handed over in, behind all that is written.
InLine ==
  /\ \A i, j \in 1 .. Len(queue) : i < j => queue[i].id < queue[j].id
  /\ \A i \in 1 .. Len(queue) : 0 < queue[i].id /\ queue[i].id <= handed
  /\ \A i \in 1 .. Len(queue), r \in Everything : r.id < queue[i].id
  /\ \A r \in Everything : r.id <= handed

\* An event that is written, or will not be, and one among the first `n` queued.
OnRecord(id)   == id \in lost \cup pruned \/ \E e \in events : e.id = id
InQueue(id, n) == \E j \in 1 .. n : queue[j].id = id /\ queue[j].what.kind # "decision"

\* The event a decision answers comes before it, wherever the two are.
Answered ==
  /\ \A r \in rows : r.what.kind = "decision" /\ (OnRecord(r.of) \/ InQueue(r.of, Len(queue)))
  /\ \A i \in 1 .. Len(queue) :
       queue[i].what.kind = "decision" => OnRecord(queue[i].of) \/ InQueue(queue[i].of, i - 1)

\* Without a writer nothing is queued.
Unqueued == up = "down" \/ session = 0 => queue = <<>>

IInv ==
  /\ TypeOK /\ OrderKept /\ NoneUnaccounted /\ InputRecorded /\ TuningOnRecord
  /\ Numbered /\ InLine /\ Answered /\ Unqueued

\* At the start there is nothing.
LEMMA InvInit == Init => IInv
<1> SUFFICES ASSUME Init PROVE IInv
  OBVIOUS
<1> USE DEF Init
<1>1. Everything = {} /\ queue = <<>> /\ Len(queue) = 0 /\ rows = {}
  BY DEF Everything
<1>2. TypeOK
  <2>1. engine \in States
    BY DEF States, Fresh
  <2>2. rows \subseteq Records /\ IsFiniteSet(rows) /\ queue \in Seq(Records)
    BY <1>1, FS_EmptySet
  <2>3. now \in Times
    BY JournalAssumption DEF Times
  <2>4. Len(queue) <= QueueDepth
    BY <1>1, JournalAssumption
  <2> QED
    BY <2>1, <2>2, <2>3, <2>4 DEF TypeOK
<1>3. OrderKept /\ InputRecorded /\ TuningOnRecord
  BY <1>1 DEF OrderKept, InputRecorded, TuningOnRecord
<1>4. NoneUnaccounted
  BY <1>1 DEF NoneUnaccounted
<1>5. Numbered /\ InLine /\ Answered /\ Unqueued
  BY <1>1 DEF Numbered, InLine, Answered, Unqueued
<1> QED
  BY <1>2, <1>3, <1>4, <1>5 DEF IInv

-----------------------------------------------------------------------------
(* The least and the greatest of a set.                                       *)

\* A set of numbers that is not empty has a least one.
LEMMA LeastNat ==
  ASSUME NEW T \in SUBSET Nat, T # {}
  PROVE  \E n \in T : \A m \in T : n <= m
<1> DEFINE Below == {ss \in Nat \X Nat : ss[1] < ss[2]}
<1>1. IsWellFoundedOn(Below, Nat)
  BY NatLessThanWellFounded DEF OpToRel
<1>2. \A m, n \in Nat : m < n => <<m, n>> \in Below
  OBVIOUS
<1> HIDE DEF Below
<1>3. PICK n \in T : \A m \in T : ~(<<m, n>> \in Below)
  BY <1>1, WFMin
<1>4. \A m \in T : ~(m < n)
  BY <1>2, <1>3
<1> QED
  BY <1>4

LEMMA MinIsLeast ==
  ASSUME NEW T \in SUBSET Nat, T # {}
  PROVE  Min(T) \in T /\ \A m \in T : Min(T) <= m
BY LeastNat DEF Min

\* A bounded one has a greatest: the least of its bounds.
LEMMA MaxIsGreatest ==
  ASSUME NEW T \in SUBSET Nat, T # {}, NEW bound \in Nat, \A m \in T : m <= bound
  PROVE  Max(T) \in T /\ \A m \in T : m <= Max(T)
<1> DEFINE Bounds == {n \in Nat : \A m \in T : m <= n}
<1>1. PICK least \in Bounds : \A n \in Bounds : least <= n
  <2>1. Bounds \in SUBSET Nat /\ Bounds # {}
    OBVIOUS
  <2> QED
    BY <2>1, LeastNat
<1>2. least \in T
  <2>1. SUFFICES ASSUME least \notin T PROVE FALSE
    OBVIOUS
  <2>2. \A m \in T : m < least
    BY <1>1, <2>1
  <2>3. least - 1 \in Nat
    <3>1. PICK m \in T : m \in Nat
      OBVIOUS
    <3>2. m < least /\ least \in Nat
      BY <1>1, <2>2
    <3> QED
      BY <3>1, <3>2
  <2>4. least - 1 \in Bounds
    BY <1>1, <2>2, <2>3
  <2> QED
    BY <1>1, <2>4
<1>3. \E x \in T : \A y \in T : x >= y
  BY <1>1, <1>2
<1>4. Max(T) \in T /\ \A y \in T : Max(T) >= y
  BY <1>3 DEF Max
<1> QED
  BY <1>4

-----------------------------------------------------------------------------
(* The engine and its records.                                                *)

\* What the engine commands is a command for each of some devices.
Directives == UNION {[ds -> Commands] : ds \in SUBSET Devices}

LEMMA StepTypes ==
  ASSUME NEW s \in States, NEW e \in Events
  PROVE  Step(s, e).state \in States /\ Step(s, e).directs \in Directives
<1>1. <<>> \in Directives
  <2>1. <<>> \in [{} -> Commands]
    OBVIOUS
  <2> QED
    BY <2>1 DEF Directives
<1>2. \A t \in States : Broadcast(t) \in Directives
  BY DEF States, Broadcast, Commands, Directives
<1>3. \A t \in States : t.seen # {} => Allocated(t) \in Directives
  <2> SUFFICES ASSUME NEW t \in States, t.seen # {} PROVE Allocated(t) \in Directives
    OBVIOUS
  <2>1. Min(t.seen) \in Devices
    BY MinIsLeast, JournalAssumption DEF States
  <2>2. [d \in {Min(t.seen)} |-> "power"] \in [{Min(t.seen)} -> Commands]
    BY DEF Commands
  <2>3. [d \in {Min(t.seen)} |-> "power"] \in Directives
    BY <2>1, <2>2 DEF Directives
  <2> QED
    BY <1>2, <2>3 DEF Allocated
<1>4. CASE e.kind = "device_update"
  <2>1. e.device \in Devices
    BY <1>4 DEF Events
  <2>2. [s EXCEPT !.seen = @ \cup {e.device}] \in States
    BY <2>1 DEF States
  <2> QED
    BY <1>1, <1>4, <2>2 DEF Step
<1>5. CASE e.kind = "meter"
  <2> DEFINE next == [s EXCEPT !.timed_out = FALSE,
                               !.mode = IF s.seen = {} THEN @ ELSE (@ + e.reading) % 2]
  <2>1. e.reading \in 0 .. 1
    <3>1. e \in [kind : {"meter"}, reading : Readings]
      BY <1>5 DEF Events
    <3>2. Readings \subseteq 0 .. 1
      BY JournalAssumption
    <3> QED
      BY <3>1, <3>2
  <2>2. (s.mode + e.reading) % 2 \in 0 .. 1 /\ s.mode \in 0 .. 1
    BY <2>1 DEF States
  <2>3. next \in States /\ next.seen = s.seen
    BY <2>2 DEF States
  <2>4. /\ Step(s, e).state = next
        /\ Step(s, e).directs = IF s.seen = {} THEN <<>> ELSE Allocated(next)
    BY <1>5 DEF Step
  <2> QED
    BY <1>1, <1>3, <2>3, <2>4
<1>6. CASE e.kind = "mqtt_timeout"
  <2>1. [s EXCEPT !.timed_out = TRUE] \in States
    BY DEF States
  <2> QED
    BY <1>2, <1>6, <2>1 DEF Step
<1> QED
  BY <1>4, <1>5, <1>6 DEF Events

\* The rows of a decision: finitely many, each of the event decided on.
LEMMA RowTypes ==
  ASSUME NEW event \in Records, NEW state \in States, NEW written \in Directives, NEW whole \in BOOLEAN
  PROVE  /\ DecisionRows(event, state, written, whole) \subseteq Records
         /\ IsFiniteSet(DecisionRows(event, state, written, whole))
         /\ \A r \in DecisionRows(event, state, written, whole) :
              r.what.kind = "decision" /\ r.of = event.id
<1> DEFINE Row(d, c) == [at |-> event.at, id |-> 0, of |-> event.id, whole |-> whole,
                         what |-> [kind |-> "decision", device |-> d, command |-> c, state |-> state]]
           each == {Row(d, written[d]) : d \in DOMAIN written}
<1>1. event.at \in Times /\ event.id \in Nat
  BY DEF Records
<1>2. \A d \in Devices \cup {None}, c \in Commands \cup {None} :
        /\ Row(d, c) \in Records
        /\ Row(d, c).what.kind = "decision" /\ Row(d, c).of = event.id
  <2> SUFFICES ASSUME NEW d \in Devices \cup {None}, NEW c \in Commands \cup {None}
               PROVE  /\ Row(d, c) \in Records
                      /\ Row(d, c).what.kind = "decision" /\ Row(d, c).of = event.id
    OBVIOUS
  <2>1. [kind |-> "decision", device |-> d, command |-> c, state |-> state] \in Decided
    BY DEF Decided
  <2> QED
    BY <1>1, <2>1 DEF Records
<1>3. DOMAIN written \subseteq Devices /\ \A d \in DOMAIN written : written[d] \in Commands
  BY DEF Directives
<1>4. DecisionRows(event, state, written, whole) = IF DOMAIN written = {} THEN {Row(None, None)} ELSE each
  BY DEF DecisionRows
<1>5. IsFiniteSet(each) /\ IsFiniteSet({Row(None, None)})
  <2> DEFINE f == [d \in DOMAIN written |-> Row(d, written[d])]
  <2>1. IsFiniteSet(DOMAIN written)
    BY <1>3, FS_Subset, JournalAssumption
  <2>2. f \in Surjection(DOMAIN written, each)
    BY DEF Surjection
  <2>3. IsFiniteSet(each)
    BY <2>1, <2>2, FS_Surjection
  <2> QED
    BY <2>3, FS_Singleton
<1> HIDE DEF Row
<1> QED
  BY <1>2, <1>3, <1>4, <1>5

-----------------------------------------------------------------------------
(* Handing over.                                                              *)

LEMMA QueueTypes ==
  ASSUME TypeOK
  PROVE  /\ Len(queue) \in Nat /\ DOMAIN queue = 1 .. Len(queue)
         /\ \A i \in 1 .. Len(queue) : /\ queue[i] \in Records
                                      /\ queue[i].id \in Nat /\ queue[i].of \in Nat
<1>1. queue \in Seq(Records)
  BY DEF TypeOK
<1>2. \A r \in Records : r.id \in Nat /\ r.of \in Nat
  BY DEF Records
<1>3. \A i \in 1 .. Len(queue) : queue[i] \in Records
  BY <1>1
<1> QED
  BY <1>1, <1>2, <1>3

\* A record handed over is the last in the queue, or is accounted for as lost.
LEMMA SendFacts ==
  ASSUME TypeOK, NEW record \in Records, record.id = handed + 1, Send(record)
  PROVE  /\ handed' = handed + 1 /\ handed' \in Nat
         /\ queue' \in Seq(Records) /\ Len(queue') <= QueueDepth
         /\ lost' \subseteq 1 .. handed' /\ lost \subseteq lost'
         /\ \A i \in 1 .. Len(queue) : queue'[i] = queue[i]
         /\ \/ /\ session # 0
               /\ queue' = Append(queue, record) /\ Len(queue') = Len(queue) + 1
               /\ queue'[Len(queue')] = record /\ lost' = lost
            \/ queue' = queue /\ lost' = lost \cup {record.id}
<1>1. handed \in Nat /\ lost \subseteq 1 .. handed /\ queue \in Seq(Records) /\ Len(queue) \in Nat
  BY DEF TypeOK
<1>2. handed' = handed + 1 /\ handed' \in Nat
  BY <1>1 DEF Send
<1>3. CASE session # 0 /\ Len(queue) < QueueDepth
  <2>1. queue' = Append(queue, record) /\ lost' = lost
    BY <1>3 DEF Send
  <2>2. queue' \in Seq(Records) /\ Len(queue') = Len(queue) + 1
    BY <1>1, <2>1
  <2>3. queue'[Len(queue')] = record /\ \A i \in 1 .. Len(queue) : queue'[i] = queue[i]
    BY <1>1, <2>1, <2>2
  <2>4. Len(queue') <= QueueDepth
    BY <1>1, <1>3, <2>2, JournalAssumption
  <2>5. lost' \subseteq 1 .. handed'
    BY <1>1, <1>2, <2>1
  <2> QED
    BY <1>2, <1>3, <2>1, <2>2, <2>3, <2>4, <2>5
<1>4. CASE ~(session # 0 /\ Len(queue) < QueueDepth)
  <2>1. queue' = queue /\ lost' = lost \cup {record.id}
    BY <1>4 DEF Send
  <2>2. lost' \subseteq 1 .. handed'
    BY <1>1, <1>2, <2>1
  <2> QED
    BY <1>1, <1>2, <2>1, <2>2 DEF TypeOK
<1> QED
  BY <1>3, <1>4

\* A step that hands a record over keeps the invariant, when what it answers is on record
\* or queued, and its rows answer either what the rows before did or this record.
LEMMA HandedOver ==
  ASSUME IInv, NEW record \in Records, record.id = handed + 1, Send(record), up # "down",
         UNCHANGED <<now, up, writer, database, pruned>>,
         engine' \in States, rows' \subseteq Records, IsFiniteSet(rows'),
         record.what.kind = "decision" => OnRecord(record.of) \/ InQueue(record.of, Len(queue)),
         \A r \in rows' : /\ r.what.kind = "decision"
                          /\ \/ r \in rows
                             \/ r.of = record.id /\ record.what.kind # "decision"
  PROVE  IInv'
<1> USE DEF writer, database
<1>1. TypeOK /\ InLine /\ Answered /\ Unqueued /\ NoneUnaccounted
  BY DEF IInv
<1>2. /\ handed' = handed + 1 /\ handed \in Nat /\ Len(queue) \in Nat
      /\ queue' \in Seq(Records) /\ Len(queue') <= QueueDepth /\ Len(queue') \in Nat
      /\ lost' \subseteq 1 .. handed' /\ lost \subseteq lost'
      /\ \A i \in 1 .. Len(queue) : queue'[i] = queue[i]
      /\ \/ /\ session # 0
            /\ queue' = Append(queue, record) /\ Len(queue') = Len(queue) + 1
            /\ queue'[Len(queue')] = record /\ lost' = lost
         \/ queue' = queue /\ lost' = lost \cup {record.id}
  BY <1>1, SendFacts DEF TypeOK
<1>3. Everything' = Everything
  BY DEF Everything
<1>4. TypeOK'
  <2>1. pruned' \subseteq 1 .. handed'
    BY <1>1, <1>2 DEF TypeOK
  <2> QED
    BY <1>1, <1>2, <2>1 DEF TypeOK
<1>5. OrderKept' /\ TuningOnRecord' /\ Numbered'
  BY <1>3 DEF IInv, OrderKept, TuningOnRecord, Numbered
<1>6. NoneUnaccounted'
  <2>1. 1 .. handed' = (1 .. handed) \cup {record.id}
    BY <1>2
  <2>2. {queue'[i].id : i \in DOMAIN queue'} \cup lost' = {queue[i].id : i \in DOMAIN queue} \cup lost \cup {record.id}
    <3>1. DOMAIN queue = 1 .. Len(queue) /\ DOMAIN queue' = 1 .. Len(queue')
      BY <1>1, <1>2 DEF TypeOK
    <3>2. CASE lost' = lost /\ Len(queue') = Len(queue) + 1 /\ queue'[Len(queue')] = record
      BY <1>2, <3>1, <3>2
    <3>3. CASE queue' = queue /\ lost' = lost \cup {record.id}
      BY <3>3
    <3> QED
      BY <1>2, <3>2, <3>3
  <2> QED
    BY <1>1, <1>3, <2>1, <2>2 DEF NoneUnaccounted
<1>7. InputRecorded'
  BY <1>2 DEF IInv, InputRecorded
<1>8. InLine'
  <2>1. \A r \in Everything : r.id \in Nat
    BY <1>1 DEF TypeOK, Everything, Rows
  <2>2. \A i \in 1 .. Len(queue) : queue[i].id \in Nat
    BY <1>1, QueueTypes
  <2>3. CASE queue' = queue
    BY <1>1, <1>2, <1>3, <2>1, <2>2, <2>3 DEF InLine
  <2>4. CASE Len(queue') = Len(queue) + 1 /\ queue'[Len(queue')] = record
    <3>1. \A i \in 1 .. Len(queue') : i \in 1 .. Len(queue) \/ i = Len(queue')
      BY <1>2, <2>4
    <3>2. \A i \in 1 .. Len(queue) : queue'[i] = queue[i] /\ queue'[i].id < record.id
      BY <1>1, <1>2, <2>2 DEF InLine
    <3>3. \A r \in Everything : r.id < record.id /\ r.id <= handed'
      BY <1>1, <1>2, <2>1 DEF InLine
    <3>4. \A i, j \in 1 .. Len(queue') : i < j => queue'[i].id < queue'[j].id
      BY <1>1, <1>2, <2>4, <3>1, <3>2 DEF InLine
    <3>5. \A i \in 1 .. Len(queue') : 0 < queue'[i].id /\ queue'[i].id <= handed'
      BY <1>1, <1>2, <2>2, <2>4, <3>1, <3>2 DEF InLine
    <3>6. \A i \in 1 .. Len(queue'), r \in Everything' : r.id < queue'[i].id
      BY <1>1, <1>3, <2>4, <3>1, <3>2, <3>3 DEF InLine
    <3> QED
      BY <1>3, <3>3, <3>4, <3>5, <3>6 DEF InLine
  <2> QED
    BY <1>2, <2>3, <2>4
<1>9. \A id : /\ OnRecord(id) => OnRecord(id)'
              /\ \A n \in 0 .. Len(queue) : InQueue(id, n) => InQueue(id, n)'
  <2>1. \A id : OnRecord(id) => OnRecord(id)'
    BY <1>2 DEF OnRecord
  <2>2. ASSUME NEW id, NEW n \in 0 .. Len(queue), InQueue(id, n) PROVE InQueue(id, n)'
    <3>1. \A i \in 1 .. n : i \in 1 .. Len(queue)
      BY <1>2
    <3> QED
      BY <1>2, <2>2, <3>1 DEF InQueue
  <2> QED
    BY <2>1, <2>2
<1>10. record.what.kind # "decision" => OnRecord(record.id)' \/ InQueue(record.id, Len(queue))'
  BY <1>2 DEF OnRecord, InQueue
<1>11. Answered'
  <2>1. ASSUME NEW r \in rows' PROVE r.what.kind = "decision" /\ (OnRecord(r.of)' \/ InQueue(r.of, Len(queue))')
    <3>1. CASE r \in rows
      <4>1. OnRecord(r.of) \/ InQueue(r.of, Len(queue))
        BY <1>1, <3>1 DEF Answered
      <4>2. OnRecord(r.of)' \/ (\E j \in 1 .. Len(queue) : queue'[j].id = r.of /\ queue'[j].what.kind # "decision")
        BY <1>2, <1>9, <4>1 DEF InQueue
      <4> QED
        BY <1>2, <4>2 DEF InQueue
    <3>2. CASE r.of = record.id /\ record.what.kind # "decision"
      BY <1>10, <3>2
    <3> QED
      BY <3>1, <3>2
  <2>2. ASSUME NEW i \in 1 .. Len(queue'), queue'[i].what.kind = "decision"
        PROVE  (OnRecord(queue[i].of) \/ InQueue(queue[i].of, i - 1))'
    <3>1. CASE i \in 1 .. Len(queue)
      <4>1. queue'[i] = queue[i] /\ i - 1 \in 0 .. Len(queue)
        BY <1>2, <3>1
      <4>2. OnRecord(queue[i].of) \/ InQueue(queue[i].of, i - 1)
        BY <1>1, <2>2, <3>1, <4>1 DEF Answered
      <4>3. ASSUME NEW id, id = queue[i].of PROVE OnRecord(id)' \/ InQueue(id, i - 1)'
        BY <1>9, <4>1, <4>2, <4>3
      <4> QED
        BY <4>1, <4>3 DEF OnRecord, InQueue
    <3>2. CASE i \notin 1 .. Len(queue)
      <4>1. queue'[i] = record /\ i - 1 = Len(queue)
        BY <1>2, <3>2
      <4>2. OnRecord(record.of)' \/ (\E j \in 1 .. Len(queue) : queue'[j].id = record.of /\ queue'[j].what.kind # "decision")
        BY <1>2, <1>9, <2>2, <4>1 DEF InQueue
      <4> QED
        BY <4>1, <4>2 DEF OnRecord, InQueue
    <3> QED
      BY <3>1, <3>2
  <2>3. \A r \in rows' : r.what.kind = "decision" /\ (OnRecord(r.of)' \/ InQueue(r.of, Len(queue))')
    BY <2>1
  <2>4. (\A i \in 1 .. Len(queue) :
          queue[i].what.kind = "decision" => OnRecord(queue[i].of) \/ InQueue(queue[i].of, i - 1))'
    BY <2>2
  <2> QED
    BY <2>3, <2>4 DEF Answered
<1>12. Unqueued'
  BY <1>1, <1>2 DEF Unqueued
<1> QED
  BY <1>4, <1>5, <1>6, <1>7, <1>8, <1>11, <1>12 DEF IInv

LEMMA RecordTypes ==
  ASSUME TypeOK, NEW at \in Times, NEW what \in Events \cup {Captured}, NEW of \in Nat
  PROVE  /\ Record(at, what, of) \in Records /\ Record(at, what, of).id = handed + 1
         /\ Record(at, what, of).what = what /\ what.kind # "decision"
<1>1. handed + 1 \in Nat
  BY DEF TypeOK
<1>2. what.kind # "decision"
  BY DEF Events, Captured
<1> QED
  BY <1>1, <1>2 DEF Record, Records

\* An event is recorded, and the rows that wait are of what it decided.
LEMMA FoldsKeeps ==
  ASSUME IInv, NEW at \in Times, NEW what \in Events, NEW skipped, Folds(at, what, skipped)
  PROVE  IInv'
<1> DEFINE record == Record(at, what, 0)
           step == Step(engine, what)
           written == Restrict(step.directs, DOMAIN step.directs \ skipped)
           decided == DecisionRows(record, step.state, written, written = step.directs)
<1>1. TypeOK /\ engine \in States
  BY DEF IInv, TypeOK
<1>2. record \in Records /\ record.id = handed + 1 /\ record.what.kind # "decision"
  BY <1>1, RecordTypes
<1>3. step.state \in States /\ step.directs \in Directives
  BY <1>1, StepTypes
<1>4. written \in Directives
  <2> HIDE DEF step
  <2>1. PICK ds \in SUBSET Devices : step.directs \in [ds -> Commands]
    BY <1>3 DEF Directives
  <2>2. written \in [ds \ skipped -> Commands]
    BY <2>1 DEF Restrict
  <2> QED
    BY <2>1, <2>2 DEF Directives
<1>5. /\ decided \subseteq Records /\ IsFiniteSet(decided)
      /\ \A r \in decided : r.what.kind = "decision" /\ r.of = record.id
  <2> HIDE DEF record, step, written
  <2>1. (written = step.directs) \in BOOLEAN
    OBVIOUS
  <2> QED
    BY <1>2, <1>3, <1>4, <2>1, RowTypes
<1>6. /\ up = "running" /\ Send(record) /\ engine' = step.state
      /\ rows' = IF step.decides THEN decided ELSE {}
      /\ UNCHANGED <<now, up, writer, database, pruned>>
  BY DEF Folds
<1> HIDE DEF record, step, decided
<1>7. /\ rows' \subseteq Records /\ IsFiniteSet(rows')
      /\ \A r \in rows' : r.what.kind = "decision" /\ r.of = record.id
  BY <1>5, <1>6, FS_EmptySet
<1> QED
  BY <1>2, <1>3, <1>6, <1>7, HandedOver

\* A decision's rows go out one by one, behind their event.
LEMMA RecordedKeeps == IInv /\ Recorded => IInv'
<1> SUFFICES ASSUME IInv, Recorded PROVE IInv'
  OBVIOUS
<1>1. PICK r \in rows : Send([r EXCEPT !.id = handed + 1]) /\ rows' = rows \ {r}
  BY DEF Recorded
<1>2. TypeOK /\ Answered
  BY DEF IInv
<1>3. r \in Records /\ handed + 1 \in Nat
  BY <1>2 DEF TypeOK
<1>4. /\ [r EXCEPT !.id = handed + 1] \in Records
      /\ [r EXCEPT !.id = handed + 1].id = handed + 1
      /\ [r EXCEPT !.id = handed + 1].of = r.of
  BY <1>3 DEF Records
<1>5. rows' \subseteq Records /\ IsFiniteSet(rows')
  BY <1>1, <1>2, FS_RemoveElement DEF TypeOK
<1>6. OnRecord(r.of) \/ InQueue(r.of, Len(queue))
  BY <1>2 DEF Answered
<1>7. \A q \in rows' : q \in rows /\ q.what.kind = "decision"
  BY <1>1, <1>2 DEF Answered
<1>8. up = "running" /\ engine' = engine /\ UNCHANGED <<now, up, writer, database, pruned>>
  BY DEF Recorded
<1> QED
  BY <1>1, <1>2, <1>4, <1>5, <1>6, <1>7, <1>8, HandedOver DEF TypeOK

LEMMA CapturesKeeps == IInv /\ Captures => IInv'
<1> SUFFICES ASSUME IInv, Captures PROVE IInv'
  OBVIOUS
<1>1. TypeOK /\ Answered
  BY DEF IInv
<1>2. now \in Times
  BY <1>1 DEF TypeOK
<1>3. /\ Record(now, Captured, 0) \in Records /\ Record(now, Captured, 0).id = handed + 1
      /\ Record(now, Captured, 0).what.kind # "decision"
  BY <1>1, <1>2, RecordTypes
<1>4. /\ Send(Record(now, Captured, 0)) /\ up # "down"
      /\ engine' = engine /\ rows' = rows /\ UNCHANGED <<now, up, writer, database, pruned>>
  BY DEF Captures, process
<1> QED
  BY <1>1, <1>3, <1>4, HandedOver DEF TypeOK, Answered

-----------------------------------------------------------------------------
(* Writing.                                                                   *)

Row(r) == [at |-> r.at, what |-> r.what, id |-> r.id, of |-> r.of, whole |-> r.whole,
           seq |-> next_seq, session |-> session]

\* A prune only takes rows, each on account, and spares the running session.
LEMMA PruneFacts ==
  ASSUME NEW tables, NEW ev, NEW de, NEW se, NEW running, Prune(tables, ev, de, se, running)
  PROVE  /\ events' \subseteq ev /\ decisions' \subseteq de /\ sessions' \subseteq se
         /\ pruned' = pruned \cup {r.id : r \in (ev \ events') \cup (de \ decisions')}
         /\ \A s \in se : s.id = running => s \in sessions'
BY DEF Prune, Spared

\* The oldest record becomes a row, or is lost; rows may be pruned with it.
LEMMA WriteFacts ==
  ASSUME TypeOK, NEW lands \in BOOLEAN, NEW tables, Writes(lands, tables)
  PROVE  \E ev, de :
           /\ IF ~lands THEN ev = events /\ de = decisions /\ lost' = lost \cup {Head(queue).id}
              ELSE /\ lost' = lost
                   /\ IF Head(queue).what.kind = "decision"
                      THEN ev = events /\ de = decisions \cup {Row(Head(queue))}
                      ELSE ev = events \cup {Row(Head(queue))} /\ de = decisions
           /\ events' \subseteq ev /\ decisions' \subseteq de /\ sessions' \subseteq sessions
           /\ pruned' = pruned \cup {r.id : r \in (ev \ events') \cup (de \ decisions')}
           /\ \A s \in sessions : s.id = session => s \in sessions'
<1> DEFINE head == Head(queue)
           db == IF lands THEN Inserted(Row(head)) ELSE <<events, decisions>>
<1>1. lost' = IF lands THEN lost ELSE lost \cup {head.id}
  BY DEF Writes
<1>2. CASE Today # last_prune
  <2>1. Prune(tables, db[1], db[2], sessions, session)
    BY <1>2 DEF Writes, Row
  <2> HIDE DEF db, head
  <2>2. /\ events' \subseteq db[1] /\ decisions' \subseteq db[2] /\ sessions' \subseteq sessions
        /\ pruned' = pruned \cup {r.id : r \in (db[1] \ events') \cup (db[2] \ decisions')}
        /\ \A s \in sessions : s.id = session => s \in sessions'
    BY <2>1, PruneFacts
  <2>3. IF ~lands THEN db[1] = events /\ db[2] = decisions
        ELSE IF head.what.kind = "decision"
             THEN db[1] = events /\ db[2] = decisions \cup {Row(head)}
             ELSE db[1] = events \cup {Row(head)} /\ db[2] = decisions
    BY DEF db, Inserted, Row
  <2> QED
    BY <1>1, <2>2, <2>3 DEF head
<1>3. CASE Today = last_prune
  <2>1. events' = db[1] /\ decisions' = db[2] /\ sessions' = sessions /\ pruned' = pruned
    BY <1>3 DEF Writes, Row
  <2>2. IF ~lands THEN db[1] = events /\ db[2] = decisions
        ELSE IF head.what.kind = "decision"
             THEN db[1] = events /\ db[2] = decisions \cup {Row(head)}
             ELSE db[1] = events \cup {Row(head)} /\ db[2] = decisions
    BY DEF Inserted, Row
  <2> HIDE DEF db, head
  <2>3. {r.id : r \in (db[1] \ events') \cup (db[2] \ decisions')} = {}
    BY <2>1
  <2> QED
    BY <1>1, <2>1, <2>2, <2>3 DEF head
<1> QED
  BY <1>2, <1>3

LEMMA WritesKeeps ==
  ASSUME IInv, NEW lands \in BOOLEAN, NEW tables, Writes(lands, tables)
  PROVE  IInv'
<1> DEFINE head == Head(queue)
           row == Row(head)
<1>1. TypeOK /\ OrderKept /\ NoneUnaccounted /\ InputRecorded /\ Numbered /\ InLine /\ Answered /\ Unqueued
  BY DEF IInv
<1>2. /\ up # "down" /\ queue # <<>> /\ queue' = Tail(queue) /\ next_seq' = next_seq + 1 /\ last_prune' = Today
      /\ UNCHANGED <<now, engine, rows, up, session, handed>>
  BY DEF Writes, process
<1>3. /\ Len(queue) \in Nat /\ Len(queue) > 0
      /\ head = queue[1] /\ head \in Records /\ head.id \in Nat /\ head.of \in Nat
      /\ queue' \in Seq(Records) /\ Len(queue') = Len(queue) - 1 /\ Len(queue') \in Nat
      /\ \A i \in 1 .. Len(queue') : i + 1 \in 1 .. Len(queue) /\ queue'[i] = queue[i + 1]
  <2>1. queue \in Seq(Records)
    BY <1>1 DEF TypeOK
  <2>2. Len(queue) \in Nat /\ Len(queue) > 0 /\ head = queue[1] /\ head \in Records
    BY <1>2, <2>1
  <2>3. queue' \in Seq(Records) /\ Len(queue') = Len(queue) - 1
    BY <1>2, <2>1
  <2>4. \A i \in 1 .. Len(queue') : queue'[i] = queue[i + 1]
    BY <1>2, <2>1, <2>2, <2>3
  <2> QED
    BY <1>1, <2>2, <2>3, <2>4, QueueTypes
<1>4. /\ row \in Rows /\ row.id = head.id /\ row.of = head.of /\ row.what = head.what
      /\ row.seq = next_seq /\ next_seq \in Nat
  <2>1. session \in Nat \ {0} /\ next_seq \in Nat \ {0}
    BY <1>1, <1>2 DEF TypeOK, Unqueued
  <2> QED
    BY <1>3, <2>1 DEF Row, Records, Rows
<1> HIDE DEF row, head
<1>5. PICK ev, de :
        /\ IF ~lands THEN ev = events /\ de = decisions /\ lost' = lost \cup {head.id}
           ELSE /\ lost' = lost
                /\ IF head.what.kind = "decision"
                   THEN ev = events /\ de = decisions \cup {row}
                   ELSE ev = events \cup {row} /\ de = decisions
        /\ events' \subseteq ev /\ decisions' \subseteq de /\ sessions' \subseteq sessions
        /\ pruned' = pruned \cup {r.id : r \in (ev \ events') \cup (de \ decisions')}
        /\ \A s \in sessions : s.id = session => s \in sessions'
  BY <1>1, WriteFacts DEF row, head
<1>6. /\ events \subseteq ev /\ decisions \subseteq de /\ ev \subseteq events \cup {row} /\ de \subseteq decisions \cup {row}
      /\ Everything' \subseteq Everything \cup {row}
      /\ lost \subseteq lost' /\ lost' \subseteq lost \cup {head.id} /\ pruned \subseteq pruned'
  BY <1>5 DEF Everything
<1>7. head.id \in 1 .. handed /\ handed \in Nat
  BY <1>1, <1>3 DEF InLine, TypeOK
<1>8. TypeOK'
  <2>1. events' \subseteq Rows /\ decisions' \subseteq Rows /\ sessions' \subseteq [id : Nat \ {0}, started : Times]
    BY <1>1, <1>4, <1>5, <1>6 DEF TypeOK
  <2>2. lost' \subseteq 1 .. handed'
    BY <1>1, <1>2, <1>6, <1>7 DEF TypeOK
  <2>3. pruned' \subseteq 1 .. handed'
    <3>1. \A r \in ev \cup de : r.id \in 1 .. handed
      <4>1. \A r \in Everything : r.id \in 1 .. handed
        BY <1>1 DEF NoneUnaccounted
      <4> QED
        BY <1>4, <1>6, <1>7, <4>1 DEF Everything
    <3> QED
      BY <1>1, <1>2, <1>5, <3>1 DEF TypeOK
  <2>4. Today \in Nat
    BY <1>1, JournalAssumption DEF TypeOK, Times, Today
  <2>5. Len(queue') <= QueueDepth
    BY <1>1, <1>3, JournalAssumption DEF TypeOK
  <2>6. next_seq' \in Nat \ {0}
    BY <1>2, <1>4
  <2> QED
    BY <1>1, <1>2, <1>3, <2>1, <2>2, <2>3, <2>4, <2>5, <2>6 DEF TypeOK
<1>9. \A r \in Everything : r.seq \in Nat /\ r.id \in Nat /\ r.seq < next_seq /\ r.id < head.id
  BY <1>1, <1>3 DEF TypeOK, Everything, Rows, Numbered, InLine
<1>10. OrderKept'
  BY <1>1, <1>3, <1>4, <1>6, <1>9 DEF OrderKept
<1>11. NoneUnaccounted'
  <2>1. DOMAIN queue = 1 .. Len(queue) /\ DOMAIN queue' = 1 .. Len(queue')
    BY <1>1, <1>3, QueueTypes
  <2>2. {queue[i].id : i \in DOMAIN queue} = {head.id} \cup {queue'[i].id : i \in DOMAIN queue'}
    <3>1. \A i \in 1 .. Len(queue) : i = 1 \/ (i - 1 \in 1 .. Len(queue') /\ i = (i - 1) + 1)
      BY <1>3
    <3>2. \A i \in 1 .. Len(queue) : i = 1 \/ queue[i] = queue'[i - 1]
      BY <1>3, <3>1
    <3>3. \A i \in DOMAIN queue : queue[i].id = head.id \/ queue[i].id \in {queue'[j].id : j \in DOMAIN queue'}
      BY <1>3, <2>1, <3>1, <3>2
    <3>4. \A j \in DOMAIN queue' : j + 1 \in DOMAIN queue /\ queue'[j].id = queue[j + 1].id
      BY <1>3, <2>1
    <3>5. 1 \in DOMAIN queue /\ head.id = queue[1].id
      BY <1>3, <2>1
    <3> QED
      BY <3>3, <3>4, <3>5
  <2>3. {r.id : r \in ev \cup de} = {r.id : r \in Everything} \cup (IF lands THEN {head.id} ELSE {})
    BY <1>4, <1>5 DEF Everything
  <2>4. {r.id : r \in ev \cup de} \cup pruned = {r.id : r \in Everything'} \cup pruned'
    BY <1>5 DEF Everything
  <2>5. lost' = IF lands THEN lost ELSE lost \cup {head.id}
    BY <1>5
  <2> QED
    BY <1>1, <1>2, <2>2, <2>3, <2>4, <2>5 DEF NoneUnaccounted
<1>12. Numbered'
  BY <1>1, <1>2, <1>4, <1>5, <1>6, <1>9 DEF Numbered
<1>13. InLine'
  <2>1. \A i \in 1 .. Len(queue) : queue[i].id \in Nat
    BY <1>1, QueueTypes
  <2>2. \A i \in 1 .. Len(queue') : head.id < queue[i + 1].id
    BY <1>1, <1>3 DEF InLine
  <2>3. \A i, j \in 1 .. Len(queue') : i < j => i + 1 < j + 1
    BY <1>3
  <2>4. \A i, j \in 1 .. Len(queue') : i < j => queue'[i].id < queue'[j].id
    BY <1>1, <1>3, <2>3 DEF InLine
  <2>5. \A i \in 1 .. Len(queue') : 0 < queue'[i].id /\ queue'[i].id <= handed'
    BY <1>1, <1>2, <1>3 DEF InLine
  <2>6. \A i \in 1 .. Len(queue'), r \in Everything' : r.id < queue'[i].id
    BY <1>1, <1>3, <1>4, <1>6, <2>2 DEF InLine
  <2>7. \A r \in Everything' : r.id <= handed'
    BY <1>1, <1>2, <1>4, <1>6, <1>7 DEF InLine
  <2> QED
    BY <2>4, <2>5, <2>6, <2>7 DEF InLine
\* The event of the record written is on record; so is what was.
<1>14. /\ \A id : OnRecord(id) => OnRecord(id)'
       /\ \A id : head.what.kind # "decision" /\ id = head.id => OnRecord(id)'
  <2>1. \A e \in ev : e \in events' \/ e.id \in pruned'
    BY <1>5
  <2>2. \A id : OnRecord(id) => OnRecord(id)'
    BY <1>6, <2>1 DEF OnRecord
  <2>3. ASSUME NEW id, head.what.kind # "decision", id = head.id PROVE OnRecord(id)'
    <3>1. CASE lands
      <4>1. row \in ev
        BY <1>5, <2>3, <3>1
      <4> QED
        BY <1>4, <2>1, <2>3, <4>1 DEF OnRecord
    <3>2. CASE ~lands
      <4>1. head.id \in lost'
        BY <1>5, <3>2
      <4> QED
        BY <2>3, <4>1 DEF OnRecord
    <3> QED
      BY <3>1, <3>2
  <2> QED
    BY <2>2, <2>3
<1>15. ASSUME NEW id, NEW n \in 1 .. Len(queue), InQueue(id, n) PROVE OnRecord(id)' \/ InQueue(id, n - 1)'
  <2>1. PICK j \in 1 .. n : queue[j].id = id /\ queue[j].what.kind # "decision"
    BY <1>15 DEF InQueue
  <2>2. CASE j = 1
    BY <1>3, <1>14, <2>1, <2>2
  <2>3. CASE j # 1
    <3>1. j - 1 \in 1 .. n - 1 /\ j - 1 \in 1 .. Len(queue') /\ queue'[j - 1] = queue[(j - 1) + 1] /\ (j - 1) + 1 = j
      BY <1>3, <2>3
    <3> QED
      BY <2>1, <3>1 DEF InQueue
  <2> QED
    BY <2>2, <2>3
<1>16. InputRecorded'
  <2> SUFFICES ASSUME NEW r \in decisions'
               PROVE  (\E e \in events' : e.id = r.of /\ e.seq < r.seq) \/ r.of \in lost' \cup pruned'
    BY DEF InputRecorded
  <2>1. \A e \in events : e \in events' \/ e.id \in pruned'
    BY <1>5
  <2>2. CASE r \in decisions
    BY <1>1, <1>6, <2>1, <2>2 DEF InputRecorded
  <2>3. CASE r \notin decisions
    <3>1. r = row /\ head.what.kind = "decision"
      BY <1>5, <2>3
    <3>2. OnRecord(head.of)
      <4>1. OnRecord(queue[1].of) \/ InQueue(queue[1].of, 1 - 1)
        BY <1>1, <1>3, <3>1 DEF Answered
      <4> QED
        BY <1>3, <4>1 DEF InQueue
    <3>3. (\E e \in events : e.id = r.of /\ e.seq < r.seq) \/ r.of \in lost \cup pruned
      BY <1>4, <1>9, <3>1, <3>2 DEF OnRecord, Everything
    <3> QED
      BY <1>6, <2>1, <3>3
  <2> QED
    BY <2>2, <2>3
<1>17. Answered'
  <2>1. ASSUME NEW r \in rows PROVE r.what.kind = "decision" /\ (OnRecord(r.of) \/ InQueue(r.of, Len(queue)))'
    <3>1. r.what.kind = "decision" /\ (OnRecord(r.of) \/ InQueue(r.of, Len(queue)))
      BY <1>1 DEF Answered
    <3>2. ASSUME NEW n, n = Len(queue) - 1 PROVE OnRecord(r.of)' \/ InQueue(r.of, n)'
      BY <1>3, <1>14, <1>15, <3>1, <3>2
    <3>3. Len(queue') = Len(queue) - 1
      BY <1>3
    <3>4. OnRecord(r.of)' \/ \E j \in 1 .. Len(queue') : queue'[j].id = r.of /\ queue'[j].what.kind # "decision"
      BY <3>2, <3>3 DEF InQueue
    <3> QED
      BY <3>1, <3>4 DEF InQueue
  <2>2. ASSUME NEW i \in 1 .. Len(queue'), queue'[i].what.kind = "decision"
        PROVE  (OnRecord(queue[i].of) \/ InQueue(queue[i].of, i - 1))'
    <3>1. i + 1 \in 1 .. Len(queue) /\ queue'[i] = queue[i + 1] /\ (i + 1) - 1 = i /\ i \in 1 .. Len(queue)
      BY <1>3
    <3>2. OnRecord(queue[i + 1].of) \/ InQueue(queue[i + 1].of, i)
      BY <1>1, <2>2, <3>1 DEF Answered
    <3>3. ASSUME NEW id, id = queue[i + 1].of PROVE OnRecord(id)' \/ InQueue(id, i - 1)'
      BY <1>14, <1>15, <3>1, <3>2, <3>3
    <3> QED
      BY <3>1, <3>3 DEF OnRecord, InQueue
  <2>3. \A r \in rows' : r.what.kind = "decision" /\ (OnRecord(r.of) \/ InQueue(r.of, Len(queue)))'
    BY <1>2, <2>1
  <2>4. (\A i \in 1 .. Len(queue) :
          queue[i].what.kind = "decision" => OnRecord(queue[i].of) \/ InQueue(queue[i].of, i - 1))'
    BY <2>2
  <2> QED
    BY <2>3, <2>4 DEF Answered
<1>18. TuningOnRecord' /\ Unqueued'
  BY <1>1, <1>2, <1>4, <1>5 DEF IInv, TuningOnRecord, Unqueued, TypeOK
<1> QED
  BY <1>8, <1>10, <1>11, <1>12, <1>13, <1>16, <1>17, <1>18 DEF IInv

-----------------------------------------------------------------------------
(* The process.                                                               *)

\* What the invariant says of the tables, when rows go and each is on account.
LEMMA TablesKeep ==
  ASSUME TypeOK, OrderKept, InputRecorded,
         events' \subseteq events, decisions' \subseteq decisions,
         lost \subseteq lost', pruned \subseteq pruned',
         \A e \in events : e \in events' \/ e.id \in lost' \cup pruned'
  PROVE  OrderKept' /\ InputRecorded' /\ Everything' \subseteq Everything
BY DEF OrderKept, InputRecorded, Everything

\* A session is numbered past what is left of those before, and begins with its startup.
LEMMA StartsKeeps ==
  ASSUME IInv, NEW opens \in BOOLEAN, NEW tables, Starts(opens, tables)
  PROVE  IInv'
<1> DEFINE id == Max({s.id : s \in sessions} \cup {0}) + 1
           first == Min(Devices)
           startup == Record(now, [kind |-> "device_update", device |-> first], 0)
           new == [id |-> id, started |-> now]
<1>1. TypeOK /\ OrderKept /\ NoneUnaccounted /\ InputRecorded /\ Numbered /\ InLine /\ Unqueued
  BY DEF IInv
<1>2. /\ up = "down" /\ up' = "running" /\ rows' = {} /\ handed' = handed + 1 /\ handed \in Nat
      /\ engine' = [Fresh EXCEPT !.seen = {first}] /\ now' = now
      /\ IF opens
         THEN /\ session' = id /\ next_seq' = NextSeq /\ last_prune' = Today
              /\ Prune(tables, events, decisions, sessions \cup {new}, id)
              /\ queue' = <<startup>> /\ lost' = lost
         ELSE /\ session' = 0 /\ lost' = lost \cup {startup.id}
              /\ UNCHANGED <<next_seq, last_prune, events, decisions, sessions, pruned, queue>>
  BY <1>1 DEF Starts, TypeOK, database
<1>3. first \in Devices
  BY MinIsLeast, JournalAssumption
<1>4. startup \in Records /\ startup.id = handed + 1
  <2>1. [kind |-> "device_update", device |-> first] \in Events
    BY <1>3 DEF Events
  <2>2. now \in Times
    BY <1>1 DEF TypeOK
  <2> QED
    BY <1>1, <2>1, <2>2, RecordTypes
<1>5. engine' \in States
  <2> HIDE DEF first
  <2>1. engine' = [seen |-> {first}, mode |-> 0, timed_out |-> FALSE]
    BY <1>2 DEF Fresh
  <2> QED
    BY <1>3, <2>1 DEF States
<1>6. queue = <<>> /\ Len(queue) = 0
  BY <1>1, <1>2 DEF Unqueued
\* The numbers of what is there.
<1>7. id \in Nat \ {0} /\ \A s \in sessions : s.id \in Nat /\ s.id < id
  <2> DEFINE ids == {s.id : s \in sessions} \cup {0}
  <2>1. PICK n \in Nat : \A s \in sessions : s.id <= n
    BY <1>1 DEF Numbered
  <2>2. ids \in SUBSET Nat /\ ids # {} /\ \A m \in ids : m <= n
    BY <1>1, <2>1 DEF TypeOK
  <2> HIDE DEF ids
  <2>3. Max(ids) \in ids /\ \A m \in ids : m <= Max(ids)
    BY <2>2, MaxIsGreatest
  <2>4. Max(ids) + 1 \in Nat \ {0} /\ \A m \in ids : m < Max(ids) + 1
    <3>1. Max(ids) \in Nat /\ \A m \in ids : m \in Nat
      BY <2>2, <2>3
    <3>2. ASSUME NEW m \in ids PROVE m < Max(ids) + 1
      BY <2>3, <3>1
    <3> QED
      BY <3>1, <3>2
  <2>5. id = Max(ids) + 1
    BY DEF ids
  <2>6. \A s \in sessions : s.id \in ids
    BY DEF ids
  <2> QED
    BY <2>2, <2>4, <2>5, <2>6
<1>8. NextSeq \in Nat \ {0} /\ \A r \in Everything : r.seq \in Nat /\ r.seq < NextSeq
  <2> DEFINE seqs == {r.seq : r \in Everything} \cup {0}
  <2>1. \A r \in Everything : r.seq \in Nat /\ r.seq < next_seq
    BY <1>1 DEF Numbered, TypeOK, Everything, Rows
  <2>2. next_seq \in Nat /\ seqs \in SUBSET Nat /\ seqs # {} /\ \A m \in seqs : m <= next_seq
    BY <1>1, <2>1 DEF TypeOK
  <2> HIDE DEF seqs
  <2>3. Max(seqs) \in seqs /\ \A m \in seqs : m <= Max(seqs)
    BY <2>2, MaxIsGreatest
  <2>4. NextSeq = Max(seqs) + 1
    BY DEF NextSeq, MaxSeq, seqs
  <2>5. \A r \in Everything : r.seq \in seqs
    BY DEF seqs
  <2>6. Max(seqs) \in Nat
    BY <2>2, <2>3
  <2>7. ASSUME NEW r \in Everything PROVE r.seq \in Nat /\ r.seq < NextSeq
    <3>1. r.seq \in Nat /\ r.seq <= Max(seqs)
      BY <2>1, <2>3, <2>5
    <3> QED
      BY <2>4, <2>6, <3>1
  <2> QED
    BY <2>4, <2>6, <2>7
<1> HIDE DEF id, startup, first
<1>9. \A r \in Everything : r.id \in Nat /\ r.id <= handed /\ r.id < handed + 1
  BY <1>1, <1>2 DEF TypeOK, Everything, Rows, InLine
<1>10. /\ events' \subseteq events /\ decisions' \subseteq decisions /\ sessions' \subseteq sessions \cup {new}
       /\ pruned' = pruned \cup {r.id : r \in (events \ events') \cup (decisions \ decisions')}
       /\ opens => new \in sessions'
       /\ ~opens => sessions' = sessions
  <2>1. CASE opens
    BY <1>2, <2>1, PruneFacts
  <2>2. CASE ~opens
    <3>1. events' = events /\ decisions' = decisions /\ sessions' = sessions /\ pruned' = pruned
      BY <1>2, <2>2
    <3>2. {r.id : r \in (events \ events') \cup (decisions \ decisions')} = {}
      BY <3>1
    <3> QED
      BY <2>2, <3>1, <3>2
  <2> QED
    BY <2>1, <2>2
<1>11. /\ lost \subseteq lost' /\ pruned \subseteq pruned' /\ lost' \subseteq lost \cup {handed + 1}
       /\ \A e \in events : e \in events' \/ e.id \in lost' \cup pruned'
  BY <1>2, <1>4, <1>10
<1>12. OrderKept' /\ InputRecorded' /\ Everything' \subseteq Everything
  BY <1>1, <1>10, <1>11, TablesKeep
<1>13. /\ queue' \in Seq(Records) /\ Len(queue') \in 0 .. 1
       /\ \A i \in 1 .. Len(queue') : i = 1 /\ queue'[i].id = handed + 1 /\ queue'[i].what.kind # "decision"
  <2>1. CASE opens
    <3>1. queue' = <<startup>>
      BY <1>2, <2>1
    <3>2. startup.what.kind # "decision"
      BY DEF startup, Record
    <3> QED
      BY <1>4, <3>1, <3>2
  <2>2. CASE ~opens
    <3>1. queue' = <<>>
      BY <1>2, <1>6, <2>2
    <3> QED
      BY <3>1
  <2> QED
    BY <2>1, <2>2
<1>14. TypeOK'
  <2>1. rows' \subseteq Records /\ IsFiniteSet(rows')
    BY <1>2, FS_EmptySet
  <2>2. Len(queue') <= QueueDepth
    BY <1>13, JournalAssumption
  <2>3. Today \in Nat
    BY <1>1, JournalAssumption DEF TypeOK, Times, Today
  <2>4. session' \in Nat /\ next_seq' \in Nat \ {0} /\ last_prune' \in Nat
    BY <1>1, <1>2, <1>7, <1>8, <2>3 DEF TypeOK
  <2>5. sessions' \subseteq [id : Nat \ {0}, started : Times]
    BY <1>1, <1>7, <1>10 DEF TypeOK
  <2>6. lost' \subseteq 1 .. handed' /\ handed' \in Nat
    BY <1>1, <1>2, <1>11 DEF TypeOK
  <2>7. \A r \in Everything : r.id \in 1 .. handed
    BY <1>1 DEF NoneUnaccounted
  <2>8. pruned' \subseteq 1 .. handed'
    BY <1>1, <1>2, <1>10, <2>7 DEF TypeOK, Everything
  <2> QED
    BY <1>1, <1>2, <1>5, <1>10, <1>13, <2>1, <2>2, <2>4, <2>5, <2>6, <2>8 DEF TypeOK
<1>15. NoneUnaccounted'
  <2>1. 1 .. handed' = (1 .. handed) \cup {handed + 1}
    BY <1>2
  <2>2. {queue[i].id : i \in DOMAIN queue} = {}
    BY <1>6
  <2>3. {queue'[i].id : i \in DOMAIN queue'} \cup lost' = lost \cup {handed + 1}
    <3>1. CASE opens
      <4>1. queue' = <<startup>> /\ lost' = lost /\ startup.id = handed + 1
        BY <1>2, <1>4, <3>1
      <4> QED
        BY <4>1
    <3>2. CASE ~opens
      <4>1. queue' = <<>> /\ lost' = lost \cup {handed + 1}
        BY <1>2, <1>4, <1>6, <3>2
      <4> QED
        BY <4>1
    <3> QED
      BY <3>1, <3>2
  <2>4. {r.id : r \in Everything'} \cup pruned' = {r.id : r \in Everything} \cup pruned
    BY <1>10 DEF Everything
  <2> QED
    BY <1>1, <2>1, <2>2, <2>3, <2>4 DEF NoneUnaccounted
<1>16. Numbered'
  <2>1. \A r \in Everything' : r.seq < next_seq'
    BY <1>1, <1>2, <1>8, <1>12 DEF Numbered
  <2>2. \E n \in Nat : \A s \in sessions' : s.id <= n
    <3>1. \A s \in sessions \cup {new} : s.id <= id
      BY <1>7
    <3> QED
      BY <1>7, <1>10, <3>1
  <2> QED
    BY <2>1, <2>2 DEF Numbered
<1>17. InLine'
  <2>1. \A i, j \in 1 .. Len(queue') : ~(i < j)
    BY <1>13
  <2> QED
    BY <1>2, <1>9, <1>12, <1>13, <2>1 DEF InLine
<1>18. Answered'
  BY <1>2, <1>13 DEF Answered
<1>19. TuningOnRecord' /\ Unqueued'
  BY <1>2, <1>6, <1>7, <1>10 DEF TuningOnRecord, Unqueued
<1> QED
  BY <1>12, <1>14, <1>15, <1>16, <1>17, <1>18, <1>19 DEF IInv

\* What a crash loses is lost: the queue, the rows still to be handed over, and the
\* rows of the tables past what was kept.
LEMMA CrashesKeeps ==
  ASSUME IInv, NEW kept \in 0 .. MaxSeq, Crashes(kept)
  PROVE  IInv'
<1>1. TypeOK /\ OrderKept /\ NoneUnaccounted /\ InputRecorded /\ Numbered /\ InLine
  BY DEF IInv
<1>2. /\ up' = "down" /\ engine' = Fresh /\ rows' = {} /\ queue' = <<>>
      /\ events' = {r \in events : r.seq <= kept} /\ decisions' = {r \in decisions : r.seq <= kept}
      /\ handed' = handed + Cardinality(rows)
      /\ lost' = lost \cup {queue[i].id : i \in DOMAIN queue} \cup (handed + 1 .. handed')
                  \cup {r.id : r \in {r \in Everything : r.seq > kept}}
      /\ UNCHANGED <<now, session, next_seq, last_prune, sessions, pruned>>
  BY DEF Crashes, writer
<1>3. handed \in Nat /\ handed' \in Nat /\ handed <= handed'
  <2>1. Cardinality(rows) \in Nat /\ handed \in Nat
    BY <1>1, FS_CardinalityType DEF TypeOK
  <2> QED
    BY <1>2, <2>1
<1>4. \A r \in Everything : r.seq \in Nat /\ (r.seq <= kept \/ r.seq > kept)
  <2>1. \A r \in Everything : r.seq \in Nat
    BY <1>1 DEF TypeOK, Everything, Rows
  <2> QED
    BY <2>1
<1>5. /\ events' \subseteq events /\ decisions' \subseteq decisions /\ lost \subseteq lost' /\ pruned' = pruned
      /\ \A r \in Everything : r \in Everything' \/ r.id \in lost'
  BY <1>2, <1>4 DEF Everything
<1>6. OrderKept' /\ Everything' \subseteq Everything
  BY <1>5, <1>1 DEF OrderKept, Everything
<1>7. InputRecorded'
  <2> SUFFICES ASSUME NEW r \in decisions'
               PROVE  (\E e \in events' : e.id = r.of /\ e.seq < r.seq) \/ r.of \in lost' \cup pruned'
    BY DEF InputRecorded
  <2>1. r \in decisions /\ r.seq <= kept
    BY <1>2
  <2>2. CASE r.of \in lost \cup pruned
    BY <1>5, <2>2
  <2>3. ASSUME NEW e \in events, e.id = r.of, e.seq < r.seq PROVE e \in events'
    BY <1>2, <1>4, <2>1, <2>3 DEF Everything
  <2> QED
    BY <1>1, <2>1, <2>2, <2>3 DEF InputRecorded
<1>8. TypeOK'
  <2>1. {queue[i].id : i \in DOMAIN queue} \cup {r.id : r \in Everything} \subseteq 1 .. handed
    BY <1>1 DEF NoneUnaccounted
  <2>2. 1 .. handed \subseteq 1 .. handed' /\ handed + 1 .. handed' \subseteq 1 .. handed'
    BY <1>3
  <2>3. lost' \subseteq 1 .. handed'
    BY <1>1, <1>2, <2>1, <2>2 DEF TypeOK
  <2>4. pruned' \subseteq 1 .. handed'
    BY <1>1, <1>5, <2>2 DEF TypeOK
  <2>5. rows' \subseteq Records /\ IsFiniteSet(rows') /\ queue' \in Seq(Records) /\ Len(queue') <= QueueDepth
    BY <1>2, FS_EmptySet, JournalAssumption
  <2>6. engine' \in States
    BY <1>2 DEF States, Fresh
  <2> QED
    BY <1>1, <1>2, <1>3, <1>5, <2>3, <2>4, <2>5, <2>6 DEF TypeOK
<1>9. NoneUnaccounted'
  <2>1. 1 .. handed' = (1 .. handed) \cup (handed + 1 .. handed')
    BY <1>3
  <2>2. {queue'[i].id : i \in DOMAIN queue'} = {}
    BY <1>2
  <2>3. {r.id : r \in Everything} \subseteq {r.id : r \in Everything'} \cup lost'
    BY <1>5
  <2>4. {r.id : r \in Everything'} \subseteq {r.id : r \in Everything}
    BY <1>6
  <2>5. 1 .. handed' \subseteq {r.id : r \in Everything'} \cup lost' \cup pruned'
    BY <1>1, <1>2, <1>5, <2>1, <2>3 DEF NoneUnaccounted
  <2>6. {r.id : r \in Everything'} \cup lost' \cup pruned' \subseteq 1 .. handed'
    BY <1>1, <1>8, <2>1, <2>4 DEF NoneUnaccounted, TypeOK
  <2> QED
    BY <2>2, <2>5, <2>6 DEF NoneUnaccounted
<1>10. Numbered'
  BY <1>1, <1>2, <1>6 DEF Numbered
<1>11. InLine'
  <2>1. \A r \in Everything' : r.id <= handed'
    <3>1. \A r \in Everything : r.id \in Nat /\ r.id <= handed
      BY <1>1 DEF InLine, TypeOK, Everything, Rows
    <3> QED
      BY <1>3, <1>6, <3>1
  <2> QED
    BY <1>2, <2>1 DEF InLine
<1>12. Answered' /\ Unqueued' /\ TuningOnRecord'
  BY <1>2 DEF Answered, Unqueued, TuningOnRecord
<1> QED
  BY <1>6, <1>7, <1>8, <1>9, <1>10, <1>11, <1>12 DEF IInv

\* Stopping, exiting and the clock touch no record.
LEMMA OthersKeep ==
  ASSUME IInv, Stops \/ Exits \/ (\E step \in Steps : ClockMoves(step)) \/ UNCHANGED vars
  PROVE  IInv'
<1>1. /\ now' \in Times /\ engine' \in States /\ up' \in {"down", "running", "draining"}
      /\ up' = "down" => up = "down" \/ queue = <<>>
      /\ up' # "down" => up # "down"
      /\ UNCHANGED <<rows, queue, session, next_seq, last_prune, events, decisions, sessions, handed, lost, pruned>>
  <2> USE DEF process, writer, database
  <2>1. now \in Times /\ engine \in States /\ up \in {"down", "running", "draining"} /\ Fresh \in States
    BY DEF IInv, TypeOK, States, Fresh
  <2>2. CASE Stops
    BY <2>1, <2>2 DEF Stops
  <2>3. CASE Exits
    BY <2>1, <2>3 DEF Exits
  <2>4. CASE \E step \in Steps : ClockMoves(step)
    BY <2>1, <2>4 DEF ClockMoves
  <2>5. CASE UNCHANGED vars
    BY <2>1, <2>5 DEF vars
  <2> QED
    BY <2>2, <2>3, <2>4, <2>5
<1>2. Everything' = Everything
  BY <1>1 DEF Everything
<1>3. TypeOK'
  BY <1>1 DEF IInv, TypeOK
<1>4. OrderKept' /\ NoneUnaccounted' /\ InputRecorded' /\ Numbered' /\ InLine'
  BY <1>1, <1>2 DEF IInv, OrderKept, NoneUnaccounted, InputRecorded, Numbered, InLine
<1>5. Answered'
  BY <1>1 DEF IInv, Answered, OnRecord, InQueue
<1>6. TuningOnRecord' /\ Unqueued'
  BY <1>1 DEF IInv, TuningOnRecord, Unqueued
<1> QED
  BY <1>3, <1>4, <1>5, <1>6 DEF IInv

-----------------------------------------------------------------------------
(* The record is sound.                                                       *)

\* journal/mod.rs: the invariant holds whatever is dropped, fails, is pruned or crashes.
THEOREM Invariance == Spec => []IInv
<1>1. IInv /\ [Next]_vars => IInv'
  <2> SUFFICES ASSUME IInv, [Next]_vars PROVE IInv'
    OBVIOUS
  <2>1. CASE Updates
    <3>1. PICK d \in Devices, at \in Sampled : Folds(at, [kind |-> "device_update", device |-> d], {})
      BY <2>1 DEF Updates
    <3>2. [kind |-> "device_update", device |-> d] \in Events /\ at \in Times
      BY DEF Events, Sampled, IInv, TypeOK
    <3> QED
      BY <3>1, <3>2, FoldsKeeps
  <2>2. CASE Decides
    <3>1. PICK reading \in Readings : Folds(now, [kind |-> "meter", reading |-> reading], {})
      BY <2>2 DEF Decides
    <3>2. [kind |-> "meter", reading |-> reading] \in Events /\ now \in Times
      BY DEF Events, IInv, TypeOK
    <3> QED
      BY <3>1, <3>2, FoldsKeeps
  <2>3. CASE StandsDown
    <3>1. PICK down \in SUBSET engine.seen : Folds(now, [kind |-> "mqtt_timeout"], down)
      BY <2>3 DEF StandsDown
    <3>2. [kind |-> "mqtt_timeout"] \in Events /\ now \in Times
      BY DEF Events, IInv, TypeOK
    <3> QED
      BY <3>1, <3>2, FoldsKeeps
  <2>4. CASE Recorded \/ Captures
    BY <2>4, RecordedKeeps, CapturesKeeps
  <2>5. CASE Writer
    BY <2>5, WritesKeeps DEF Writer
  <2>6. CASE \E opens \in BOOLEAN, tables \in Prunable : Starts(opens, tables)
    BY <2>6, StartsKeeps
  <2>7. CASE \E kept \in 0 .. MaxSeq : Crashes(kept)
    BY <2>7, CrashesKeeps
  <2>8. CASE Stops \/ Exits \/ (\E step \in Steps : ClockMoves(step)) \/ UNCHANGED vars
    BY <2>8, OthersKeep
  <2> QED
    BY <2>1, <2>2, <2>3, <2>4, <2>5, <2>6, <2>7, <2>8 DEF Next
<1> QED
  BY InvInit, <1>1, PTL DEF Spec

\* journal/mod.rs: the numbers keep the order of the loop, every record handed over is
\* queued, a row or accounted for, no decision is on record without its input, and the
\* tuning of the running session stays.
THEOREM RecordsAreSound == Spec => []RecordsSound
<1>1. IInv => RecordsSound
  BY DEF IInv, RecordsSound
<1> QED
  BY <1>1, Invariance, PTL

-----------------------------------------------------------------------------
(* The run's tale: each record made and the state the engine was left in, lost or not. *)

IsEvent(x)    == x.what.kind \in Kinds
IsDecision(x) == x.what.kind = "decision"

\* The record a row was made of.
Plain(r) == [at |-> r.at, what |-> r.what, id |-> r.id, of |-> r.of, whole |-> r.whole]

\* What an event was folded from, and what it directed.
Before(st, n)         == IF n \in startups THEN Fresh ELSE st[n - 1]
DirectsAt(log, st, n) == Step(Before(st, n), log[n].what).directs

\* `x`, recorded as the `n`th, is of the last event before: it carries the state that left, and
\* a command it directed, those of a device before it recorded before.
Answers(log, st, x, n) ==
  /\ IsDecision(x)
  /\ x.of \in 1 .. n - 1 /\ IsEvent(log[x.of]) /\ x.at = log[x.of].at
  /\ \A m \in x.of + 1 .. n - 1 :
       /\ ~IsEvent(log[m])
       /\ IsDecision(log[m]) =>
            log[m].what.device # None /\ x.what.device # None /\ log[m].what.device < x.what.device
  /\ x.what.state = st[n - 1]
  /\ x.what.device # None =>
       /\ x.what.device \in DOMAIN DirectsAt(log, st, x.of)
       /\ x.what.command = DirectsAt(log, st, x.of)[x.what.device]

\* An event moves the engine, which starts anew with each process; a decision answers.
Told(log, st, n) ==
  /\ IsEvent(log[n]) => /\ st[n] = Step(Before(st, n), log[n].what).state
                        /\ n \in startups => log[n].what.kind = "device_update"
  /\ ~IsEvent(log[n]) => n \notin startups /\ st[n] = st[n - 1]
  /\ IsDecision(log[n]) => Answers(log, st, log[n], n)

Tale(log, st) == startups \subseteq 1 .. handed /\ \A n \in 1 .. handed : Told(log, st, n)

\* The decisions of an event, recorded or about to be; with none lost since, and none left
\* out, they are of all it directed.
AnswersTo(log, n) ==
  {x \in {log[m] : m \in n + 1 .. handed} \cup rows : IsDecision(x) /\ x.of = n}

Answering(log, st, n) ==
  IsEvent(log[n]) /\ (n .. handed) \cap lost = {} /\ (\A x \in AnswersTo(log, n) : x.whole)
    => \A d \in DOMAIN DirectsAt(log, st, n) : \E x \in AnswersTo(log, n) : x.what.device = d

Whole(log, st) == \A n \in 1 .. handed : Answering(log, st, n)

\* The running engine is where the tale has come to, and what it is about to record comes next.
Pending(log, st) ==
  /\ up # "running" => rows = {}
  /\ up # "down" => engine = st[handed]
  /\ \A r \in rows : Answers(log, st, r, handed + 1)
  /\ \A r \in rows : r.what.device = None => rows = {r}

\* What is queued and what is written is as it was made.
Held(log) ==
  /\ \A i \in 1 .. Len(queue) : log[queue[i].id] = queue[i]
  /\ \A r \in events : ~IsDecision(r) /\ log[r.id] = Plain(r)
  /\ \A r \in decisions : IsDecision(r) /\ log[r.id] = Plain(r)

Story(log, st) == Tale(log, st) /\ Whole(log, st) /\ Pending(log, st) /\ Held(log)

Logs  == [Nat -> Records]
Marks == [Nat -> States]

\* No session has rows of two processes.
Apart ==
  /\ \A r \in Everything : \E s \in sessions : r.session <= s.id
  /\ \A r, q \in Everything, u \in startups : r.id < u /\ u <= q.id => r.session # q.session
  /\ up # "down" /\ session # 0 =>
       /\ \A s \in sessions : s.id <= session
       /\ \A u \in startups :
            /\ \A r \in Everything : r.session = session => u <= r.id
            /\ \A i \in 1 .. Len(queue) : u <= queue[i].id

TaleInv == (\E log \in Logs, st \in Marks : Story(log, st)) /\ startups \subseteq 1 .. handed /\ Apart

-----------------------------------------------------------------------------
(* The tale goes on.                                                          *)

\* What was directed does not change as the tale goes on.
LEMMA DirectsStay ==
  ASSUME handed \in Nat, NEW log, NEW st, NEW log2, NEW st2,
         \A m \in 0 .. handed : log2[m] = log[m] /\ st2[m] = st[m],
         \A m \in 1 .. handed : m \in startups' <=> m \in startups,
         NEW n \in 1 .. handed
  PROVE  DirectsAt(log2, st2, n)' = DirectsAt(log, st, n) /\ Before(st2, n)' = Before(st, n)
<1>1. n - 1 \in 0 .. handed /\ n \in 0 .. handed
  OBVIOUS
<1>2. st2[n - 1] = st[n - 1] /\ log2[n] = log[n]
  BY <1>1
<1>3. Before(st2, n)' = Before(st, n)
  BY <1>2 DEF Before
<1> QED
  BY <1>2, <1>3 DEF DirectsAt

\* Nor whom a record answers, unless more is recorded before it.
LEMMA AnswersStay ==
  ASSUME handed \in Nat, NEW log, NEW st, NEW log2, NEW st2,
         \A m \in 0 .. handed : log2[m] = log[m] /\ st2[m] = st[m],
         \A m \in 1 .. handed : m \in startups' <=> m \in startups,
         NEW n \in 1 .. handed + 1, NEW x, Answers(log, st, x, n)
  PROVE  Answers(log2, st2, x, n)'
<1>1. x.of \in 1 .. handed /\ x.of \in 0 .. handed /\ n - 1 \in 0 .. handed
  BY DEF Answers
<1>2. DirectsAt(log2, st2, x.of)' = DirectsAt(log, st, x.of)
  BY <1>1, DirectsStay
<1>3. log2[x.of] = log[x.of] /\ st2[n - 1] = st[n - 1]
  BY <1>1
<1>4. \A m \in x.of + 1 .. n - 1 : log2[m] = log[m]
  BY <1>1
<1> HIDE DEF DirectsAt
<1> QED
  BY <1>2, <1>3, <1>4 DEF Answers

\* Nor what was told.
LEMMA ToldStays ==
  ASSUME handed \in Nat, NEW log, NEW st, NEW log2, NEW st2,
         \A m \in 0 .. handed : log2[m] = log[m] /\ st2[m] = st[m],
         \A m \in 1 .. handed : m \in startups' <=> m \in startups,
         NEW n \in 1 .. handed, Told(log, st, n)
  PROVE  Told(log2, st2, n)'
<1>1. n \in 0 .. handed /\ n - 1 \in 0 .. handed /\ n \in 1 .. handed + 1
  OBVIOUS
<1>2. log2[n] = log[n] /\ st2[n] = st[n] /\ st2[n - 1] = st[n - 1] /\ (n \in startups' <=> n \in startups)
  BY <1>1
<1>3. Before(st2, n)' = Before(st, n)
  BY DirectsStay
<1>4. IsDecision(log[n]) => Answers(log2, st2, log[n], n)'
  BY <1>1, AnswersStay DEF Told
<1> QED
  BY <1>2, <1>3, <1>4 DEF Told

\* A tale with one record more.
LEMMA Lengthened ==
  ASSUME handed \in Nat, NEW log \in Logs, NEW st \in Marks, NEW record \in Records, NEW s \in States
  PROVE  \E log2 \in Logs, st2 \in Marks :
           /\ \A m \in 0 .. handed : log2[m] = log[m] /\ st2[m] = st[m]
           /\ log2[handed + 1] = record /\ st2[handed + 1] = s
<1> DEFINE log2 == [log EXCEPT ![handed + 1] = record]
           st2 == [st EXCEPT ![handed + 1] = s]
<1>1. log2 \in Logs /\ st2 \in Marks
  BY DEF Logs, Marks
<1>2. /\ \A m \in 0 .. handed : log2[m] = log[m] /\ st2[m] = st[m]
      /\ log2[handed + 1] = record /\ st2[handed + 1] = s
  BY DEF Logs, Marks
<1> QED
  BY <1>1, <1>2

\* The tale stays one when what comes next follows from it.
LEMMA TaleGoesOn ==
  ASSUME handed \in Nat, NEW log, NEW st, NEW log2, NEW st2, Tale(log, st),
         \A m \in 0 .. handed : log2[m] = log[m] /\ st2[m] = st[m],
         NEW k, k = handed + 1, handed' = k, startups' \in {startups, startups \cup {k}},
         Told(log2, st2, k)'
  PROVE  Tale(log2, st2)' /\ \A m \in 1 .. handed : m \in startups' <=> m \in startups
<1>1. \A m \in 1 .. handed : m \in startups' <=> m \in startups
  OBVIOUS
<1>2. \A n \in 1 .. handed : Told(log2, st2, n)'
  BY <1>1, ToldStays DEF Tale
<1>3. ASSUME NEW n \in 1 .. handed' PROVE Told(log2, st2, n)'
  <2>1. n \in 1 .. handed \/ n = k
    OBVIOUS
  <2> QED
    BY <1>2, <2>1
<1>4. startups' \subseteq 1 .. handed'
  BY DEF Tale
<1> QED
  BY <1>1, <1>3, <1>4 DEF Tale

\* What is handed over is held as it was made.
LEMMA HeldOver ==
  ASSUME IInv, NEW log, NEW log2, Held(log),
         \A m \in 0 .. handed : log2[m] = log[m],
         NEW record \in Records, record.id = handed + 1, log2[handed + 1] = record,
         Send(record), UNCHANGED database
  PROVE  Held(log2)'
<1>1. TypeOK /\ InLine
  BY DEF IInv
<1>2. /\ Len(queue) \in Nat /\ Len(queue') \in Nat
      /\ \A i \in 1 .. Len(queue) : queue'[i] = queue[i]
      /\ \/ Len(queue') = Len(queue) + 1 /\ queue'[Len(queue')] = record
         \/ queue' = queue
  <2>1. queue' \in Seq(Records) /\ Len(queue) \in Nat
    BY <1>1, SendFacts DEF TypeOK
  <2> QED
    BY <1>1, <2>1, SendFacts
<1>3. handed \in Nat
  BY <1>1 DEF TypeOK
<1>4. \A i \in 1 .. Len(queue) : log2[queue[i].id] = queue[i]
  <2> SUFFICES ASSUME NEW i \in 1 .. Len(queue) PROVE log2[queue[i].id] = queue[i]
    OBVIOUS
  <2>1. queue[i].id \in 0 .. handed
    BY <1>1, <1>3, QueueTypes DEF InLine
  <2> QED
    BY <2>1 DEF Held
<1>5. ASSUME NEW i \in 1 .. Len(queue') PROVE log2[queue'[i].id] = queue'[i]
  <2>1. i \in 1 .. Len(queue) \/ (i = Len(queue') /\ queue'[Len(queue')] = record)
    BY <1>2
  <2> QED
    BY <1>2, <1>4, <2>1
<1>6. \A r \in Everything : log2[r.id] = log[r.id]
  <2> SUFFICES ASSUME NEW r \in Everything PROVE log2[r.id] = log[r.id]
    OBVIOUS
  <2>1. r.id \in Nat /\ r.id <= handed
    BY <1>1 DEF TypeOK, InLine, Everything, Rows
  <2> QED
    BY <1>3, <2>1
<1> QED
  BY <1>5, <1>6 DEF Held, Everything, database

-----------------------------------------------------------------------------
(* What each step adds to it.                                                 *)

\* A decision's rows carry its state and, one for each device directed, the commands.
LEMMA DecidedRows ==
  ASSUME NEW event \in Records, NEW state, NEW written \in Directives, NEW whole \in BOOLEAN,
         NEW decided, decided = DecisionRows(event, state, written, whole)
  PROVE  /\ decided # {}
         /\ \A r \in decided :
              /\ IsDecision(r) /\ r.of = event.id /\ r.at = event.at /\ r.whole = whole
              /\ r.what.state = state
              /\ r.what.device = None => decided = {r}
              /\ r.what.device # None => r.what.device \in DOMAIN written /\ r.what.command = written[r.what.device]
         /\ \A d \in DOMAIN written : \E r \in decided : r.what.device = d
<1> DEFINE Made(d, c) == [at |-> event.at, id |-> 0, of |-> event.id, whole |-> whole,
                          what |-> [kind |-> "decision", device |-> d, command |-> c, state |-> state]]
<1>1. decided = IF DOMAIN written = {} THEN {Made(None, None)} ELSE {Made(d, written[d]) : d \in DOMAIN written}
  BY DEF DecisionRows
<1>2. \A d, c : /\ IsDecision(Made(d, c)) /\ Made(d, c).of = event.id /\ Made(d, c).at = event.at
                /\ Made(d, c).whole = whole /\ Made(d, c).what.state = state
                /\ Made(d, c).what.device = d /\ Made(d, c).what.command = c
  BY DEF IsDecision
<1>3. None \notin DOMAIN written
  BY JournalAssumption DEF Directives
<1> HIDE DEF Made
<1>4. CASE DOMAIN written = {}
  BY <1>1, <1>2, <1>4
<1>5. CASE DOMAIN written # {}
  <2>1. decided = {Made(d, written[d]) : d \in DOMAIN written}
    BY <1>1, <1>5
  <2> QED
    BY <1>2, <1>3, <1>5, <2>1
<1> QED
  BY <1>4, <1>5

\* An event is told, and what it decides is pending.
LEMMA FoldsTells ==
  ASSUME IInv, NEW log \in Logs, NEW st \in Marks, Story(log, st),
         NEW at \in Times, NEW what \in Events, NEW skipped, Folds(at, what, skipped)
  PROVE  \E log2 \in Logs, st2 \in Marks : Story(log2, st2)'
<1>1. PICK record : record = Record(at, what, 0)
  OBVIOUS
<1>2. PICK step : step = Step(engine, what)
  OBVIOUS
<1>3. PICK written : written = Restrict(step.directs, DOMAIN step.directs \ skipped)
  OBVIOUS
<1>4. PICK decided : decided = DecisionRows(record, step.state, written, written = step.directs)
  OBVIOUS
<1>5. /\ up = "running" /\ rows = {} /\ Send(record) /\ engine' = step.state /\ handed' = handed + 1
      /\ rows' = IF step.decides THEN decided ELSE {}
      /\ UNCHANGED <<up, database, startups>>
  BY <1>1, <1>2, <1>3, <1>4 DEF Folds, Send
<1>6. TypeOK /\ handed \in Nat /\ engine \in States
  BY DEF IInv, TypeOK
<1>7. /\ record \in Records /\ record.id = handed + 1 /\ record.what = what /\ IsEvent(record) /\ ~IsDecision(record)
  <2>1. what.kind \in Kinds
    BY DEF Events, Kinds
  <2>2. record \in Records /\ record.id = handed + 1 /\ record.what = what /\ what.kind # "decision"
    BY <1>1, <1>6, RecordTypes
  <2> QED
    BY <2>1, <2>2 DEF IsEvent, IsDecision
<1>8. step.state \in States /\ step.directs \in Directives /\ (DOMAIN step.directs # {} => step.decides)
  <2>1. step.state \in States /\ step.directs \in Directives
    BY <1>2, <1>6, StepTypes
  <2>2. DOMAIN step.directs # {} => step.decides
    <3>0. DOMAIN <<>> = {}
      OBVIOUS
    <3>1. CASE what.kind = "device_update"
      BY <1>2, <3>0, <3>1 DEF Step
    <3>2. CASE what.kind = "meter"
      <4>1. step.decides = (engine.seen # {}) /\ (engine.seen = {} => step.directs = <<>>)
        BY <1>2, <3>2 DEF Step
      <4> QED
        BY <3>0, <4>1
    <3>3. CASE what.kind = "mqtt_timeout"
      BY <1>2, <3>3 DEF Step
    <3> QED
      BY <3>1, <3>2, <3>3 DEF Events
  <2> QED
    BY <2>1, <2>2
<1>9. /\ written \in Directives /\ DOMAIN written \subseteq DOMAIN step.directs
      /\ \A d \in DOMAIN written : written[d] = step.directs[d]
  <2>1. PICK ds \in SUBSET Devices : step.directs \in [ds -> Commands]
    BY <1>8 DEF Directives
  <2>2. written \in [ds \ skipped -> Commands]
    BY <1>3, <2>1 DEF Restrict
  <2>3. DOMAIN written \subseteq DOMAIN step.directs /\ \A d \in DOMAIN written : written[d] = step.directs[d]
    BY <1>3, <2>1 DEF Restrict
  <2> QED
    BY <2>2, <2>3 DEF Directives
<1>10. /\ decided # {}
       /\ \A r \in decided :
            /\ IsDecision(r) /\ r.of = record.id /\ r.at = record.at
            /\ r.what.state = step.state
            /\ r.what.device = None => decided = {r}
            /\ r.what.device # None => r.what.device \in DOMAIN written /\ r.what.command = written[r.what.device]
            /\ r.whole => written = step.directs
       /\ \A d \in DOMAIN written : \E r \in decided : r.what.device = d
  <2>1. PICK whole : whole = (written = step.directs)
    OBVIOUS
  <2>2. whole \in BOOLEAN /\ (whole => written = step.directs)
    BY <2>1
  <2>3. decided = DecisionRows(record, step.state, written, whole)
    BY <1>4, <2>1
  <2>4. /\ decided # {}
        /\ \A r \in decided :
             /\ IsDecision(r) /\ r.of = record.id /\ r.at = record.at /\ r.whole = whole
             /\ r.what.state = step.state
             /\ r.what.device = None => decided = {r}
             /\ r.what.device # None => r.what.device \in DOMAIN written /\ r.what.command = written[r.what.device]
        /\ \A d \in DOMAIN written : \E r \in decided : r.what.device = d
    BY <1>7, <1>9, <2>2, <2>3, DecidedRows
  <2>5. \A r \in decided : r.whole => written = step.directs
    BY <2>2, <2>4, Zenon
  <2> QED
    BY <2>4, <2>5, Zenon
<1>11. PICK k \in Nat : k = handed + 1
  BY <1>6
<1>12. PICK log2 \in Logs, st2 \in Marks :
         /\ \A m \in 0 .. handed : log2[m] = log[m] /\ st2[m] = st[m]
         /\ log2[k] = record /\ st2[k] = step.state
  <2>1. \E log2 \in Logs, st2 \in Marks :
           /\ \A m \in 0 .. handed : log2[m] = log[m] /\ st2[m] = st[m]
           /\ log2[handed + 1] = record /\ st2[handed + 1] = step.state
    BY <1>6, <1>7, <1>8, Lengthened
  <2> QED
    BY <1>11, <2>1
<1>13. Tale(log, st) /\ Whole(log, st) /\ Pending(log, st) /\ Held(log)
  BY DEF Story
<1>14. k \notin startups' /\ k - 1 = handed /\ st[handed] = engine /\ st2[handed] = st[handed]
  BY <1>5, <1>6, <1>11, <1>12, <1>13 DEF Tale, Pending
<1>15. Before(st2, k)' = engine /\ DirectsAt(log2, st2, k)' = step.directs
  BY <1>2, <1>7, <1>12, <1>14 DEF Before, DirectsAt
<1>16. Told(log2, st2, k)'
  BY <1>2, <1>7, <1>12, <1>14, <1>15 DEF Told
<1>17. Tale(log2, st2)' /\ \A m \in 1 .. handed : m \in startups' <=> m \in startups
  BY <1>5, <1>6, <1>11, <1>12, <1>13, <1>16, TaleGoesOn
<1>18. Held(log2)'
  BY <1>5, <1>7, <1>11, <1>12, <1>13, HeldOver
<1>19. Pending(log2, st2)'
  <2>1. ASSUME NEW r \in rows' PROVE Answers(log2, st2, r, k + 1)'
    <3>1. r \in decided
      BY <1>5
    <3>2. r.of = k /\ k \in 1 .. k + 1 - 1 /\ k + 1 - 1 = k /\ \A m \in k + 1 .. k + 1 - 1 : FALSE
      <4>1. r.of = k
        BY <1>7, <1>10, <1>11, <3>1
      <4>2. k \in 1 .. k + 1 - 1 /\ k + 1 - 1 = k /\ \A m \in k + 1 .. k + 1 - 1 : FALSE
        BY <1>6, <1>11
      <4> QED
        BY <4>1, <4>2
    <3> QED
      BY <1>7, <1>9, <1>10, <1>12, <1>15, <3>1, <3>2 DEF Answers
  <2>2. handed' + 1 = k + 1 /\ st2[handed'] = step.state
    BY <1>5, <1>11, <1>12
  <2>3. \A r \in rows' : Answers(log2, st2, r, handed + 1)'
    BY <2>1, <2>2
  <2>4. \A r \in rows' : r.what.device = None => rows' = {r}
    BY <1>5, <1>10
  <2> QED
    BY <1>5, <2>2, <2>3, <2>4 DEF Pending
<1>20. ASSUME NEW n \in 1 .. handed' PROVE Answering(log2, st2, n)'
  <2>1. CASE n = k
    <3>1. rows' \subseteq AnswersTo(log2, n)'
      BY <1>5, <1>7, <1>10, <1>11, <2>1 DEF AnswersTo
    <3>2. ASSUME NEW d \in DOMAIN step.directs, \A x \in AnswersTo(log2, n)' : x.whole
          PROVE  \E x \in AnswersTo(log2, n)' : x.what.device = d
      <4>1. rows' = decided
        BY <1>5, <1>8, <3>2
      <4>2. PICK r \in decided : r \in AnswersTo(log2, n)'
        BY <1>10, <3>1, <4>1
      <4>3. written = step.directs
        BY <1>10, <3>2, <4>2
      <4> QED
        BY <1>10, <3>1, <3>2, <4>1, <4>3
    <3> QED
      BY <1>15, <2>1, <3>2 DEF Answering
  <2>2. CASE n # k
    <3>1. n \in 1 .. handed /\ n \in 0 .. handed
      BY <1>5, <1>6, <1>11, <2>2
    <3>2. AnswersTo(log2, n)' = AnswersTo(log, n)
      <4>1. n + 1 .. handed' = (n + 1 .. handed) \cup {k}
        BY <1>5, <1>6, <1>11, <3>1
      <4>2. \A r \in rows' : r.of # n
        BY <1>5, <1>7, <1>10, <1>11, <2>2
      <4>3. \A m \in n + 1 .. handed : log2[m] = log[m]
        BY <1>12, <3>1
      <4> QED
        BY <1>5, <1>7, <1>12, <4>1, <4>2, <4>3 DEF AnswersTo
    <3>3. DirectsAt(log2, st2, n)' = DirectsAt(log, st, n) /\ log2[n] = log[n]
      BY <1>6, <1>12, <1>17, <3>1, DirectsStay
    <3>4. (n .. handed) \cap lost \subseteq (n .. handed') \cap lost'
      BY <1>5, <1>6, <3>1 DEF Send
    <3>5. Answering(log, st, n)
      BY <1>13, <3>1 DEF Whole
    <3> QED
      BY <3>2, <3>3, <3>4, <3>5 DEF Answering
  <2> QED
    BY <2>1, <2>2
<1> QED
  BY <1>12, <1>17, <1>18, <1>19, <1>20 DEF Story, Whole

\* The answers to each event are carried on, recorded or still pending.
CarriedOn(log, record) ==
  \A n \in 1 .. handed : \A x \in AnswersTo(log, n) :
    \E y \in {log[m] : m \in n + 1 .. handed} \cup {record} \cup rows' :
      IsDecision(y) /\ y.of = n /\ y.what.device = x.what.device /\ y.whole = x.whole

\* A record that is no event leaves the tale where it was.
LEMMA PassedOn ==
  ASSUME IInv, NEW log \in Logs, NEW st \in Marks, Story(log, st), up = "running",
         NEW record \in Records, record.id = handed + 1, ~IsEvent(record), Send(record),
         IsDecision(record) => Answers(log, st, record, handed + 1),
         UNCHANGED <<engine, up, database, startups>>,
         \A r \in rows' : r \in rows /\ (r.what.device = None => rows' = {r}),
         IsDecision(record) => \A r \in rows' : /\ record.what.device # None /\ r.what.device # None
                                              /\ record.what.device < r.what.device,
         CarriedOn(log, record)
  PROVE  \E log2 \in Logs, st2 \in Marks : Story(log2, st2)'
<1>1. TypeOK /\ handed \in Nat /\ engine \in States
  BY DEF IInv, TypeOK
<1>2. PICK k \in Nat : k = handed + 1
  BY <1>1
<1>3. handed' = k /\ lost \subseteq lost'
  BY <1>2 DEF Send
<1>4. Tale(log, st) /\ Whole(log, st) /\ Pending(log, st) /\ Held(log)
  BY DEF Story
<1>5. PICK log2 \in Logs, st2 \in Marks :
         /\ \A m \in 0 .. handed : log2[m] = log[m] /\ st2[m] = st[m]
         /\ log2[k] = record /\ st2[k] = engine
  <2>1. \E log2 \in Logs, st2 \in Marks :
           /\ \A m \in 0 .. handed : log2[m] = log[m] /\ st2[m] = st[m]
           /\ log2[handed + 1] = record /\ st2[handed + 1] = engine
    BY <1>1, Lengthened
  <2> QED
    BY <1>2, <2>1
<1>6. k \notin startups' /\ k - 1 = handed /\ st[handed] = engine /\ st2[handed] = engine
  BY <1>1, <1>2, <1>4, <1>5 DEF Tale, Pending
<1>7. \A m \in 1 .. handed : m \in startups' <=> m \in startups
  OBVIOUS
<1>8. Told(log2, st2, k)'
  <2>1. IsDecision(record) => Answers(log2, st2, record, k)'
    <3>1. k \in 1 .. handed + 1
      BY <1>1, <1>2
    <3> QED
      BY <1>1, <1>2, <1>5, <1>7, <3>1, AnswersStay
  <2> QED
    BY <1>5, <1>6, <2>1 DEF Told
<1>9. Tale(log2, st2)'
  BY <1>1, <1>2, <1>3, <1>4, <1>5, <1>8, TaleGoesOn
<1>10. Held(log2)'
  BY <1>2, <1>4, <1>5, HeldOver
<1>11. Pending(log2, st2)'
  <2>1. ASSUME NEW r \in rows' PROVE Answers(log2, st2, r, k + 1)'
    <3>1. r \in rows /\ Answers(log, st, r, k)
      BY <1>2, <1>4, <2>1 DEF Pending
    <3>2. Answers(log2, st2, r, k)'
      <4>1. k \in 1 .. handed + 1
        BY <1>1, <1>2
      <4> QED
        BY <1>1, <1>5, <1>7, <3>1, <4>1, AnswersStay
    <3>3. r.of \in 1 .. k - 1 /\ r.of \in 1 .. k + 1 - 1 /\ k + 1 - 1 = k
      BY <1>2, <3>1 DEF Answers
    <3>4. st2[k] = st2[k - 1]
      BY <1>5, <1>6
    <3>5. \A m \in r.of + 1 .. k + 1 - 1 : m \in r.of + 1 .. k - 1 \/ m = k
      BY <3>3
    <3>6. \A m \in r.of + 1 .. k - 1 :
            /\ ~IsEvent(log2[m])
            /\ IsDecision(log2[m]) =>
                 log2[m].what.device # None /\ r.what.device # None /\ log2[m].what.device < r.what.device
      BY <3>2 DEF Answers
    <3>7. \A m \in r.of + 1 .. k + 1 - 1 :
            /\ ~IsEvent(log2[m])
            /\ IsDecision(log2[m]) =>
                 log2[m].what.device # None /\ r.what.device # None /\ log2[m].what.device < r.what.device
      BY <1>5, <2>1, <3>5, <3>6
    <3> QED
      BY <3>2, <3>3, <3>4, <3>7 DEF Answers
  <2>2. handed' + 1 = k + 1 /\ st2[handed'] = engine
    BY <1>3, <1>5
  <2>3. \A r \in rows' : Answers(log2, st2, r, handed + 1)'
    BY <2>1, <2>2
  <2> QED
    BY <2>2, <2>3 DEF Pending
<1>12. ASSUME NEW n \in 1 .. handed' PROVE Answering(log2, st2, n)'
  <2>1. CASE n = k
    BY <1>5, <2>1 DEF Answering
  <2>2. CASE n # k
    <3>1. n \in 1 .. handed /\ n \in 0 .. handed
      BY <1>1, <1>2, <1>3, <2>2
    <3>2. \A x \in AnswersTo(log, n) : \E y \in AnswersTo(log2, n)' : y.what.device = x.what.device /\ y.whole = x.whole
      <4>1. n + 1 .. handed' = (n + 1 .. handed) \cup {k}
        BY <1>1, <1>2, <1>3, <3>1
      <4>2. \A m \in n + 1 .. handed : log2[m] = log[m]
        BY <1>5, <3>1
      <4>3. {log[m] : m \in n + 1 .. handed} \cup {record} \cup rows' \subseteq {log2[m] : m \in n + 1 .. handed'} \cup rows'
        BY <1>5, <4>1, <4>2
      <4> QED
        BY <3>1, <4>3 DEF AnswersTo, CarriedOn
    <3>3. DirectsAt(log2, st2, n)' = DirectsAt(log, st, n) /\ log2[n] = log[n]
      BY <1>1, <1>5, <1>7, <3>1, DirectsStay
    <3>4. (n .. handed) \cap lost \subseteq (n .. handed') \cap lost'
      BY <1>1, <1>2, <1>3, <3>1
    <3>5. Answering(log, st, n)
      BY <1>4, <3>1 DEF Whole
    <3> HIDE DEF AnswersTo, DirectsAt
    <3> QED
      BY <3>2, <3>3, <3>4, <3>5 DEF Answering
  <2> QED
    BY <2>1, <2>2
<1> QED
  BY <1>5, <1>9, <1>10, <1>11, <1>12 DEF Story, Whole

\* The bytes of a response are nobody's answer.
LEMMA CapturesTells ==
  ASSUME IInv, NEW log \in Logs, NEW st \in Marks, Story(log, st), Captures
  PROVE  \E log2 \in Logs, st2 \in Marks : Story(log2, st2)'
<1>1. PICK record : record = Record(now, Captured, 0)
  OBVIOUS
<1>2. TypeOK /\ now \in Times
  BY DEF IInv, TypeOK
<1>3. record \in Records /\ record.id = handed + 1 /\ record.what = Captured
  BY <1>1, <1>2, RecordTypes
<1>4. ~IsEvent(record) /\ ~IsDecision(record)
  BY <1>3 DEF IsEvent, IsDecision, Captured, Kinds
<1>5. up = "running" /\ Send(record) /\ rows' = rows /\ UNCHANGED <<engine, up, database, startups>>
  BY <1>1 DEF Captures, process
<1>6. \A r \in rows : r.what.device = None => rows = {r}
  BY DEF Story, Pending
<1>7. ASSUME NEW n \in 1 .. handed, NEW x \in AnswersTo(log, n)
      PROVE  \E y \in {log[m] : m \in n + 1 .. handed} \cup {record} \cup rows' :
               IsDecision(y) /\ y.of = n /\ y.what.device = x.what.device /\ y.whole = x.whole
  BY <1>5, <1>7 DEF AnswersTo
<1>8. CarriedOn(log, record)
  BY <1>7 DEF CarriedOn
<1> QED
  BY <1>3, <1>4, <1>5, <1>6, <1>8, PassedOn

\* A decision's rows are recorded in the order of their devices.
LEMMA RecordedTells ==
  ASSUME IInv, NEW log \in Logs, NEW st \in Marks, Story(log, st), Recorded
  PROVE  \E log2 \in Logs, st2 \in Marks : Story(log2, st2)'
<1>1. PICK r \in rows : /\ \A q \in rows \ {r} : r.what.device < q.what.device
                        /\ Send([r EXCEPT !.id = handed + 1]) /\ rows' = rows \ {r}
  BY DEF Recorded
<1>2. PICK record : record = [r EXCEPT !.id = handed + 1]
  OBVIOUS
<1>3. TypeOK /\ r \in Records /\ handed \in Nat
  BY DEF IInv, TypeOK
<1>4. /\ record \in Records /\ record.id = handed + 1
      /\ record.of = r.of /\ record.what = r.what /\ record.at = r.at /\ record.whole = r.whole
  BY <1>2, <1>3 DEF Records
<1>5. /\ Answers(log, st, r, handed + 1) /\ \A q \in rows : Answers(log, st, q, handed + 1)
      /\ \A q \in rows : q.what.device = None => rows = {q}
  BY DEF Story, Pending
<1>6. IsDecision(record) /\ ~IsEvent(record) /\ Answers(log, st, record, handed + 1)
  <2>1. IsDecision(r)
    BY <1>5 DEF Answers
  <2>2. IsDecision(record) /\ ~IsEvent(record)
    BY <1>4, <2>1 DEF IsDecision, IsEvent, Kinds
  <2> QED
    BY <1>4, <1>5, <2>2 DEF Answers
<1>7. up = "running" /\ Send(record) /\ UNCHANGED <<engine, up, database, startups>>
  BY <1>1, <1>2 DEF Recorded
<1>8. \A q \in rows' : q \in rows /\ q # r /\ q.what.device # None /\ r.what.device # None
                       /\ r.what.device < q.what.device
  BY <1>1, <1>5
<1>9. ASSUME NEW n \in 1 .. handed, NEW x \in AnswersTo(log, n)
      PROVE  \E y \in {log[m] : m \in n + 1 .. handed} \cup {record} \cup rows' :
               IsDecision(y) /\ y.of = n /\ y.what.device = x.what.device /\ y.whole = x.whole
  <2>1. CASE x = r
    BY <1>4, <1>6, <1>9, <2>1 DEF AnswersTo
  <2>2. CASE x # r
    BY <1>1, <1>9, <2>2 DEF AnswersTo
  <2> QED
    BY <2>1, <2>2
<1>10. CarriedOn(log, record)
  BY <1>9 DEF CarriedOn
<1> QED
  BY <1>4, <1>6, <1>7, <1>8, <1>10, PassedOn

\* A process begins with a fresh engine and its startup event.
LEMMA StartsTells ==
  ASSUME IInv, NEW log \in Logs, NEW st \in Marks, Story(log, st),
         NEW opens \in BOOLEAN, NEW tables, Starts(opens, tables)
  PROVE  \E log2 \in Logs, st2 \in Marks : Story(log2, st2)'
<1>1. TypeOK /\ handed \in Nat /\ now \in Times /\ Unqueued /\ InLine
  BY DEF IInv, TypeOK
<1>2. PICK first : first = Min(Devices)
  OBVIOUS
<1>3. PICK startup : startup = Record(now, [kind |-> "device_update", device |-> first], 0)
  OBVIOUS
<1>4. PICK k \in Nat : k = handed + 1
  BY <1>1
<1>5. PICK s : s = [Fresh EXCEPT !.seen = {first}]
  OBVIOUS
<1>6. /\ up = "down" /\ up' = "running" /\ rows' = {} /\ handed' = k /\ startups' = startups \cup {k}
      /\ engine' = s /\ lost \subseteq lost' /\ queue' \in {<<startup>>, queue}
      /\ events' \subseteq events /\ decisions' \subseteq decisions
  <2>1. /\ up = "down" /\ up' = "running" /\ rows' = {} /\ handed' = k /\ startups' = startups \cup {k}
        /\ engine' = s
    BY <1>2, <1>4, <1>5 DEF Starts
  <2>2. lost \subseteq lost' /\ queue' \in {<<startup>>, queue}
    BY <1>2, <1>3 DEF Starts
  <2>3. events' \subseteq events /\ decisions' \subseteq decisions
    BY DEF Starts, Prune, database
  <2> QED
    BY <2>1, <2>2, <2>3
<1>7. first \in Devices
  BY <1>2, MinIsLeast, JournalAssumption
<1>8. /\ startup \in Records /\ startup.id = k
      /\ startup.what = [kind |-> "device_update", device |-> first]
      /\ IsEvent(startup) /\ ~IsDecision(startup)
  <2>1. [kind |-> "device_update", device |-> first] \in Events
    BY <1>7 DEF Events
  <2>2. startup \in Records /\ startup.id = k /\ startup.what = [kind |-> "device_update", device |-> first]
    BY <1>1, <1>3, <1>4, <2>1, RecordTypes
  <2> QED
    BY <2>2 DEF IsEvent, IsDecision, Kinds
<1>9. s \in States /\ s = Step(Fresh, startup.what).state /\ Step(Fresh, startup.what).directs = <<>>
  <2>1. s = [seen |-> {first}, mode |-> 0, timed_out |-> FALSE]
    BY <1>5 DEF Fresh
  <2>2. startup.what.kind = "device_update" /\ startup.what.device = first
    BY <1>8
  <2>3. /\ Step(Fresh, startup.what).state = [Fresh EXCEPT !.seen = @ \cup {first}]
        /\ Step(Fresh, startup.what).directs = <<>>
    BY <2>2 DEF Step
  <2>4. Fresh.seen \cup {first} = {first}
    <3>1. Fresh.seen = {}
      BY DEF Fresh
    <3> QED
      BY <3>1
  <2>5. [Fresh EXCEPT !.seen = @ \cup {first}] = s
    BY <1>5, <2>4
  <2>6. s \in States
    BY <1>7, <2>1 DEF States
  <2> QED
    BY <2>3, <2>5, <2>6
<1>10. PICK log2 \in Logs, st2 \in Marks :
         /\ \A m \in 0 .. handed : log2[m] = log[m] /\ st2[m] = st[m]
         /\ log2[k] = startup /\ st2[k] = s
  <2>1. \E log2 \in Logs, st2 \in Marks :
           /\ \A m \in 0 .. handed : log2[m] = log[m] /\ st2[m] = st[m]
           /\ log2[handed + 1] = startup /\ st2[handed + 1] = s
    BY <1>1, <1>8, <1>9, Lengthened
  <2> QED
    BY <1>4, <2>1
<1>11. Tale(log, st) /\ Whole(log, st) /\ Pending(log, st) /\ Held(log) /\ rows = {}
  BY <1>6 DEF Story, Pending
<1>12. k \in startups' /\ Before(st2, k)' = Fresh /\ DirectsAt(log2, st2, k)' = <<>>
  BY <1>6, <1>9, <1>10 DEF Before, DirectsAt
<1>13. Told(log2, st2, k)'
  BY <1>8, <1>9, <1>10, <1>12 DEF Told
<1>14. Tale(log2, st2)' /\ \A m \in 1 .. handed : m \in startups' <=> m \in startups
  BY <1>1, <1>4, <1>6, <1>10, <1>11, <1>13, TaleGoesOn
<1>15. Pending(log2, st2)'
  BY <1>6, <1>10 DEF Pending
<1>16. Held(log2)'
  <2>1. queue = <<>>
    BY <1>1, <1>6 DEF Unqueued
  <2>2. \A i \in 1 .. Len(queue') : queue'[i] = startup
    BY <1>6, <2>1
  <2>3. \A r \in Everything : log2[r.id] = log[r.id]
    <3>1. \A r \in Everything : r.id \in Nat /\ r.id <= handed
      BY <1>1 DEF TypeOK, InLine, Everything, Rows
    <3> QED
      BY <1>1, <1>10, <3>1
  <2> QED
    BY <1>6, <1>8, <1>10, <1>11, <2>2, <2>3 DEF Held, Everything
<1>17. ASSUME NEW n \in 1 .. handed' PROVE Answering(log2, st2, n)'
  <2>1. CASE n = k
    <3>1. DOMAIN <<>> = {}
      OBVIOUS
    <3> QED
      BY <1>12, <2>1, <3>1 DEF Answering
  <2>2. CASE n # k
    <3>1. n \in 1 .. handed /\ n \in 0 .. handed
      BY <1>1, <1>4, <1>6, <2>2
    <3>2. AnswersTo(log2, n)' = AnswersTo(log, n)
      <4>1. n + 1 .. handed' = (n + 1 .. handed) \cup {k}
        BY <1>1, <1>4, <1>6, <3>1
      <4>2. \A m \in n + 1 .. handed : log2[m] = log[m]
        BY <1>10, <3>1
      <4> QED
        BY <1>6, <1>8, <1>10, <1>11, <4>1, <4>2 DEF AnswersTo
    <3>3. DirectsAt(log2, st2, n)' = DirectsAt(log, st, n) /\ log2[n] = log[n]
      BY <1>1, <1>10, <1>14, <3>1, DirectsStay
    <3>4. (n .. handed) \cap lost \subseteq (n .. handed') \cap lost'
      BY <1>1, <1>4, <1>6, <3>1
    <3>5. Answering(log, st, n)
      BY <1>11, <3>1 DEF Whole
    <3> HIDE DEF AnswersTo, DirectsAt
    <3> QED
      BY <3>2, <3>3, <3>4, <3>5 DEF Answering
  <2> QED
    BY <2>1, <2>2
<1> QED
  BY <1>10, <1>14, <1>15, <1>16, <1>17 DEF Story, Whole

\* Of what a crash leaves unrecorded nothing is told.
LEMMA CrashesTells ==
  ASSUME IInv, NEW log \in Logs, NEW st \in Marks, Story(log, st),
         NEW kept \in 0 .. MaxSeq, Crashes(kept)
  PROVE  \E log2 \in Logs, st2 \in Marks : Story(log2, st2)'
<1>1. TypeOK /\ handed \in Nat /\ now \in Times /\ InLine
  BY DEF IInv, TypeOK
<1>2. /\ up' = "down" /\ rows' = {} /\ queue' = <<>> /\ startups' = startups
      /\ events' \subseteq events /\ decisions' \subseteq decisions
      /\ handed' = handed + Cardinality(rows) /\ lost \subseteq lost'
      /\ handed + 1 .. handed' \subseteq lost'
  BY DEF Crashes
<1>3. PICK c \in Nat : c = Cardinality(rows) /\ handed' = handed + c
  BY <1>1, <1>2, FS_CardinalityType DEF TypeOK
<1>4. Tale(log, st) /\ Whole(log, st) /\ Pending(log, st) /\ Held(log)
  BY DEF Story
<1>5. PICK raw \in Records : ~IsEvent(raw) /\ ~IsDecision(raw)
  <2>1. /\ Record(now, Captured, 0) \in Records /\ Record(now, Captured, 0).what = Captured
    BY <1>1, RecordTypes
  <2> QED
    BY <2>1 DEF IsEvent, IsDecision, Captured, Kinds
<1>6. PICK log2 \in Logs, st2 \in Marks :
        /\ \A m \in 0 .. handed : log2[m] = log[m] /\ st2[m] = st[m]
        /\ \A m \in Nat : m > handed => log2[m] = raw /\ st2[m] = st[handed]
  <2> DEFINE log2 == [m \in Nat |-> IF m > handed THEN raw ELSE log[m]]
             st2 == [m \in Nat |-> IF m > handed THEN st[handed] ELSE st[m]]
  <2>1. log2 \in Logs /\ st2 \in Marks
    BY <1>1, <1>5 DEF Logs, Marks
  <2>2. /\ \A m \in 0 .. handed : log2[m] = log[m] /\ st2[m] = st[m]
        /\ \A m \in Nat : m > handed => log2[m] = raw /\ st2[m] = st[handed]
    BY <1>1
  <2> HIDE DEF log2, st2
  <2> QED
    BY <2>1, <2>2
<1>7. \A m \in 1 .. handed : m \in startups' <=> m \in startups
  BY <1>2
<1>8. Tale(log2, st2)'
  <2>1. ASSUME NEW n \in 1 .. handed' PROVE Told(log2, st2, n)'
    <3>1. CASE n <= handed
      <4>1. n \in 1 .. handed
        BY <1>1, <3>1
      <4> QED
        BY <1>1, <1>4, <1>6, <1>7, <4>1, ToldStays DEF Tale
    <3>2. CASE n > handed
      <4>1. n \in Nat /\ n - 1 \in Nat /\ (n - 1 > handed \/ n - 1 = handed) /\ handed \in 0 .. handed
        BY <1>1, <1>3, <3>2
      <4>2. log2[n] = raw /\ st2[n] = st[handed] /\ st2[n - 1] = st[handed]
        BY <1>6, <3>2, <4>1
      <4>3. n \notin startups'
        BY <1>1, <1>2, <1>4, <3>2 DEF Tale
      <4> QED
        BY <1>5, <4>2, <4>3 DEF Told
    <3> QED
      BY <1>1, <1>3, <3>1, <3>2
  <2>2. startups' \subseteq 1 .. handed'
    BY <1>1, <1>2, <1>3, <1>4 DEF Tale
  <2> QED
    BY <2>1, <2>2 DEF Tale
<1>9. Pending(log2, st2)'
  BY <1>2 DEF Pending
<1>10. Held(log2)'
  <2>1. \A r \in Everything : log2[r.id] = log[r.id]
    <3>1. \A r \in Everything : r.id \in Nat /\ r.id <= handed
      BY <1>1 DEF TypeOK, InLine, Everything, Rows
    <3> QED
      BY <1>1, <1>6, <3>1
  <2>2. \A i \in 1 .. Len(queue') : FALSE
    BY <1>2
  <2> QED
    BY <1>2, <1>4, <2>1, <2>2 DEF Held, Everything
<1>11. ASSUME NEW n \in 1 .. handed' PROVE Answering(log2, st2, n)'
  <2>1. CASE n > handed
    <3>1. n \in (n .. handed') \cap lost'
      BY <1>1, <1>2, <1>3, <2>1
    <3> QED
      BY <3>1 DEF Answering
  <2>2. CASE n <= handed
    <3>1. n \in 1 .. handed /\ n \in 0 .. handed
      BY <1>1, <2>2
    <3>2. CASE rows # {}
      <4>1. c # 0
        BY <1>1, <1>3, <3>2, FS_EmptySet DEF TypeOK
      <4>2. handed + 1 \in (n .. handed') \cap lost'
        BY <1>1, <1>2, <1>3, <3>1, <4>1
      <4> QED
        BY <4>2 DEF Answering
    <3>3. CASE rows = {}
      <4>1. handed' = handed
        BY <1>1, <1>3, <3>3, FS_EmptySet
      <4>2. AnswersTo(log2, n)' = AnswersTo(log, n)
        <5>1. \A m \in n + 1 .. handed : log2[m] = log[m]
          BY <1>6, <3>1
        <5> QED
          BY <1>2, <3>3, <4>1, <5>1 DEF AnswersTo
      <4>3. DirectsAt(log2, st2, n)' = DirectsAt(log, st, n) /\ log2[n] = log[n]
        BY <1>1, <1>6, <1>7, <3>1, DirectsStay
      <4>4. (n .. handed) \cap lost \subseteq (n .. handed') \cap lost'
        BY <1>2, <4>1
      <4>5. Answering(log, st, n)
        BY <1>4, <3>1 DEF Whole
      <4> HIDE DEF AnswersTo, DirectsAt
      <4> QED
        BY <4>2, <4>3, <4>4, <4>5 DEF Answering
    <3> QED
      BY <3>2, <3>3
  <2> QED
    BY <1>1, <1>3, <2>1, <2>2
<1> QED
  BY <1>6, <1>8, <1>9, <1>10, <1>11 DEF Story, Whole

\* What is written, as it was made.
LEMMA WritesTells ==
  ASSUME IInv, NEW log \in Logs, NEW st \in Marks, Story(log, st),
         NEW lands \in BOOLEAN, NEW tables, Writes(lands, tables)
  PROVE  Story(log, st)'
<1>1. PICK head : head = Head(queue)
  OBVIOUS
<1>2. TypeOK /\ handed \in Nat
  BY DEF IInv, TypeOK
<1>3. /\ queue # <<>> /\ queue' = Tail(queue)
      /\ UNCHANGED <<engine, rows, up, handed, startups>>
  BY DEF Writes, process
<1>4. /\ Len(queue) \in Nat /\ Len(queue) > 0 /\ head = queue[1] /\ head \in Records
      /\ \A i \in 1 .. Len(queue') : i + 1 \in 1 .. Len(queue) /\ queue'[i] = queue[i + 1]
  <2>1. queue \in Seq(Records)
    BY <1>2 DEF TypeOK
  <2>2. Len(queue) \in Nat /\ Len(queue) > 0 /\ head = queue[1] /\ head \in Records
    BY <1>1, <1>3, <2>1
  <2>3. Len(queue') = Len(queue) - 1 /\ \A i \in 1 .. Len(queue') : queue'[i] = queue[i + 1]
    BY <1>3, <2>1, <2>2
  <2> QED
    BY <2>2, <2>3
<1>5. /\ events' \subseteq events \cup (IF IsDecision(head) THEN {} ELSE {Row(head)})
      /\ decisions' \subseteq decisions \cup (IF IsDecision(head) THEN {Row(head)} ELSE {})
      /\ lost \subseteq lost'
  <2>1. PICK ev, de :
           /\ IF ~lands THEN ev = events /\ de = decisions /\ lost' = lost \cup {head.id}
              ELSE /\ lost' = lost
                   /\ IF head.what.kind = "decision"
                      THEN ev = events /\ de = decisions \cup {Row(head)}
                      ELSE ev = events \cup {Row(head)} /\ de = decisions
           /\ events' \subseteq ev /\ decisions' \subseteq de
    BY <1>1, <1>2, WriteFacts
  <2> QED
    BY <2>1 DEF IsDecision
<1>6. Tale(log, st) /\ Whole(log, st) /\ Pending(log, st) /\ Held(log)
  BY DEF Story
<1>7. Tale(log, st)'
  <2>1. \A n \in 1 .. handed : Told(log, st, n)' <=> Told(log, st, n)
    BY <1>3 DEF Told, Answers, DirectsAt, Before
  <2> QED
    BY <1>3, <1>6, <2>1 DEF Tale
<1>8. Whole(log, st)'
  <2>1. \A n : DirectsAt(log, st, n)' = DirectsAt(log, st, n) /\ AnswersTo(log, n)' = AnswersTo(log, n)
    BY <1>3 DEF DirectsAt, Before, AnswersTo
  <2> HIDE DEF DirectsAt, AnswersTo
  <2>2. \A n \in 1 .. handed : Answering(log, st, n)'
    BY <1>3, <1>5, <1>6, <2>1 DEF Whole, Answering
  <2> QED
    BY <1>3, <2>2 DEF Whole
<1>9. Pending(log, st)'
  <2>1. \A r, n : Answers(log, st, r, n)' <=> Answers(log, st, r, n)
    BY <1>3 DEF Answers, DirectsAt, Before
  <2> QED
    BY <1>3, <1>6, <2>1 DEF Pending
<1>10. Held(log)'
  <2>1. Plain(Row(head)) = head /\ Row(head).id = head.id /\ (IsDecision(Row(head)) <=> IsDecision(head))
    BY <1>4 DEF Plain, Row, Records, IsDecision
  <2>2. log[head.id] = head
    BY <1>4, <1>6 DEF Held
  <2>3. \A i \in 1 .. Len(queue') : log[queue'[i].id] = queue'[i]
    BY <1>4, <1>6 DEF Held
  <2>4. ASSUME NEW r \in events' PROVE ~IsDecision(r) /\ log[r.id] = Plain(r)
    <3>1. r \in events \/ (~IsDecision(head) /\ r = Row(head))
      BY <1>5, <2>4
    <3> HIDE DEF Row, Plain
    <3> QED
      BY <1>6, <2>1, <2>2, <3>1 DEF Held
  <2>5. ASSUME NEW r \in decisions' PROVE IsDecision(r) /\ log[r.id] = Plain(r)
    <3>1. r \in decisions \/ (IsDecision(head) /\ r = Row(head))
      BY <1>5, <2>5
    <3> HIDE DEF Row, Plain
    <3> QED
      BY <1>6, <2>1, <2>2, <3>1 DEF Held
  <2> QED
    BY <2>3, <2>4, <2>5 DEF Held
<1> QED
  BY <1>7, <1>8, <1>9, <1>10 DEF Story

\* Stopping, exiting and the clock tell nothing.
LEMMA OthersTell ==
  ASSUME IInv, NEW log \in Logs, NEW st \in Marks, Story(log, st),
         Stops \/ Exits \/ (\E step \in Steps : ClockMoves(step)) \/ UNCHANGED vars
  PROVE  Story(log, st)'
<1>1. /\ UNCHANGED <<rows, queue, events, decisions, handed, lost, startups>>
      /\ up' # "running" => up # "running" \/ rows = {}
      /\ up' # "down" => up # "down" /\ engine' = engine
  <2> USE DEF process, database
  <2>1. CASE Stops
    BY <2>1 DEF Stops
  <2>2. CASE Exits
    BY <2>2 DEF Exits
  <2>3. CASE \E step \in Steps : ClockMoves(step)
    BY <2>3 DEF ClockMoves
  <2>4. CASE UNCHANGED vars
    BY <2>4 DEF vars
  <2> QED
    BY <2>1, <2>2, <2>3, <2>4
<1>2. Tale(log, st) /\ Whole(log, st) /\ Pending(log, st) /\ Held(log)
  BY DEF Story
<1>3. /\ \A n : DirectsAt(log, st, n)' = DirectsAt(log, st, n) /\ AnswersTo(log, n)' = AnswersTo(log, n)
      /\ \A r, n : Answers(log, st, r, n)' <=> Answers(log, st, r, n)
      /\ \A n : Told(log, st, n)' <=> Told(log, st, n)
  BY <1>1 DEF DirectsAt, Before, AnswersTo, Answers, Told
<1> HIDE DEF DirectsAt, AnswersTo, Answers, Told
<1>4. Tale(log, st)'
  BY <1>1, <1>2, <1>3 DEF Tale
<1>5. Whole(log, st)'
  <2>1. \A n \in 1 .. handed : Answering(log, st, n)'
    BY <1>1, <1>2, <1>3 DEF Whole, Answering
  <2> QED
    BY <1>1, <2>1 DEF Whole
<1>6. Pending(log, st)'
  BY <1>1, <1>2, <1>3 DEF Pending
<1>7. Held(log)'
  BY <1>1, <1>2 DEF Held
<1> QED
  BY <1>4, <1>5, <1>6, <1>7 DEF Story

\* Nothing is told yet.
LEMMA StoryInit == Init => \E log \in Logs, st \in Marks : Story(log, st)
<1> SUFFICES ASSUME Init PROVE \E log \in Logs, st \in Marks : Story(log, st)
  OBVIOUS
<1>1. TypeOK
  BY InvInit DEF IInv
<1>2. Record(0, Captured, 0) \in Records /\ Fresh \in States
  <2>1. 0 \in Times
    BY JournalAssumption DEF Times
  <2> QED
    BY <1>1, <2>1, RecordTypes DEF States, Fresh
<1>3. PICK log \in Logs, st \in Marks : TRUE
  <2>1. [n \in Nat |-> Record(0, Captured, 0)] \in Logs /\ [n \in Nat |-> Fresh] \in Marks
    BY <1>2 DEF Logs, Marks
  <2> QED
    BY <2>1
<1>4. /\ handed = 0 /\ 1 .. handed = {} /\ startups = {} /\ rows = {} /\ up = "down"
      /\ Len(queue) = 0 /\ events = {} /\ decisions = {}
  BY DEF Init
<1>5. Story(log, st)
  BY <1>4 DEF Story, Tale, Whole, Pending, Held
<1> QED
  BY <1>5

-----------------------------------------------------------------------------
(* The sessions.                                                              *)

\* Handing over puts records behind all those of the session.
LEMMA ApartHandedOver ==
  ASSUME IInv, Apart, startups \subseteq 1 .. handed,
         NEW record \in Records, record.id = handed + 1, Send(record),
         UNCHANGED <<up, session, database, startups>>
  PROVE  Apart' /\ startups' \subseteq 1 .. handed'
<1>1. TypeOK /\ handed \in Nat
  BY DEF IInv, TypeOK
<1>2. /\ handed' = handed + 1 /\ Len(queue) \in Nat /\ Len(queue') \in Nat
      /\ \A i \in 1 .. Len(queue') : (i \in 1 .. Len(queue) /\ queue'[i] = queue[i]) \/ queue'[i] = record
  <2>1. queue' \in Seq(Records) /\ Len(queue) \in Nat
    BY <1>1, SendFacts DEF TypeOK
  <2> QED
    BY <1>1, <2>1, SendFacts
<1>3. \A u \in startups : u <= record.id
  BY <1>1
<1>4. Everything' = Everything /\ startups' \subseteq 1 .. handed'
  BY <1>1, <1>2 DEF Everything, database
<1> QED
  BY <1>2, <1>3, <1>4 DEF Apart, database

LEMMA WritesApart ==
  ASSUME IInv, Apart, startups \subseteq 1 .. handed,
         NEW lands \in BOOLEAN, NEW tables, Writes(lands, tables)
  PROVE  Apart' /\ startups' \subseteq 1 .. handed'
<1>1. PICK head : head = Head(queue)
  OBVIOUS
<1>2. TypeOK /\ handed \in Nat /\ InLine /\ TuningOnRecord /\ Unqueued
  BY DEF IInv, TypeOK
<1>3. up # "down" /\ queue # <<>> /\ queue' = Tail(queue) /\ UNCHANGED <<up, session, handed, startups>>
  BY DEF Writes
<1>4. /\ Len(queue) \in Nat /\ Len(queue) > 0 /\ head = queue[1] /\ head \in Records /\ head.id \in Nat
      /\ \A i \in 1 .. Len(queue') : i + 1 \in 1 .. Len(queue) /\ queue'[i] = queue[i + 1]
  <2>1. queue \in Seq(Records)
    BY <1>2 DEF TypeOK
  <2>2. Len(queue) \in Nat /\ Len(queue) > 0 /\ head = queue[1] /\ head \in Records
    BY <1>1, <1>3, <2>1
  <2>3. Len(queue') = Len(queue) - 1 /\ \A i \in 1 .. Len(queue') : queue'[i] = queue[i + 1]
    BY <1>3, <2>1, <2>2
  <2> QED
    BY <2>2, <2>3 DEF Records
<1>5. PICK row : row = Row(head)
  OBVIOUS
<1>6. row.id = head.id /\ row.session = session
  BY <1>5 DEF Row
<1>7. /\ Everything' \subseteq Everything \cup {row}
      /\ sessions' \subseteq sessions /\ \A s \in sessions : s.id = session => s \in sessions'
  <2>1. PICK ev, de :
           /\ IF ~lands THEN ev = events /\ de = decisions /\ lost' = lost \cup {head.id}
              ELSE /\ lost' = lost
                   /\ IF head.what.kind = "decision"
                      THEN ev = events /\ de = decisions \cup {row}
                      ELSE ev = events \cup {row} /\ de = decisions
           /\ events' \subseteq ev /\ decisions' \subseteq de /\ sessions' \subseteq sessions
           /\ \A s \in sessions : s.id = session => s \in sessions'
    BY <1>1, <1>2, <1>5, WriteFacts
  <2> QED
    BY <2>1 DEF Everything
<1>8. session # 0 /\ session \in Nat /\ \E s \in sessions' : s.id = session
  BY <1>2, <1>3, <1>7 DEF Unqueued, TuningOnRecord, TypeOK
<1>9. /\ \A s \in sessions' : s.id <= session
      /\ \A u \in startups : \A r \in Everything : r.session = session => u <= r.id
      /\ \A u \in startups : u <= head.id
  BY <1>3, <1>4, <1>7, <1>8 DEF Apart
<1>10. \A r \in Everything' : \E s \in sessions' : r.session <= s.id
  <2>1. \A r \in Everything : r.session <= session
    <3>1. \A r \in Everything : r.session \in Nat
      BY <1>2 DEF TypeOK, Everything, Rows
    <3>2. \A s \in sessions : s.id \in Nat /\ s.id <= session
      BY <1>2, <1>3, <1>8 DEF Apart, TypeOK
    <3> QED
      BY <1>8, <3>1, <3>2 DEF Apart
  <2> QED
    BY <1>6, <1>7, <1>8, <2>1
<1>11. \A r, q \in Everything', u \in startups : r.id < u /\ u <= q.id => r.session # q.session
  <2> SUFFICES ASSUME NEW r \in Everything', NEW q \in Everything', NEW u \in startups, r.id < u, u <= q.id
               PROVE  r.session # q.session
    OBVIOUS
  <2>1. \A p \in Everything : p.id \in Nat /\ p.id < head.id
    BY <1>2, <1>4 DEF TypeOK, Everything, Rows, InLine
  <2>2. u \in Nat
    BY <1>2
  <2>3. r # row
    BY <1>4, <1>6, <1>9, <2>2
  <2>4. r \in Everything
    BY <1>7, <2>3
  <2>5. CASE q \in Everything
    BY <2>4, <2>5 DEF Apart
  <2>6. CASE q = row
    BY <1>6, <1>9, <2>1, <2>2, <2>4, <2>6
  <2> QED
    BY <1>7, <2>5, <2>6
<1>12. /\ \A u \in startups : \A r \in Everything' : r.session = session => u <= r.id
       /\ \A u \in startups : \A i \in 1 .. Len(queue') : u <= queue'[i].id
  <2>1. \A u \in startups : \A i \in 1 .. Len(queue) : u <= queue[i].id
    BY <1>3, <1>8 DEF Apart
  <2> QED
    BY <1>4, <1>6, <1>7, <1>9, <2>1
<1> QED
  BY <1>3, <1>9, <1>10, <1>11, <1>12 DEF Apart

\* A session is numbered past those of all rows.
LEMMA StartsApart ==
  ASSUME IInv, Apart, startups \subseteq 1 .. handed,
         NEW opens \in BOOLEAN, NEW tables, Starts(opens, tables)
  PROVE  Apart' /\ startups' \subseteq 1 .. handed'
<1>1. TypeOK /\ handed \in Nat /\ InLine /\ Numbered /\ Unqueued
  BY DEF IInv, TypeOK
<1>2. PICK id : id = Max({s.id : s \in sessions} \cup {0}) + 1
  OBVIOUS
<1>3. PICK startup : startup = Record(now, [kind |-> "device_update", device |-> Min(Devices)], 0)
  OBVIOUS
<1>4. PICK k \in Nat : k = handed + 1
  BY <1>1
<1>5. startup.id = k
  BY <1>3, <1>4 DEF Record
<1>6. PICK new : new = [id |-> id, started |-> now]
  OBVIOUS
<1>7. /\ up = "down" /\ handed' = k /\ startups' = startups \cup {k}
      /\ opens => session' = id /\ queue' = <<startup>> /\ Prune(tables, events, decisions, sessions \cup {new}, id)
      /\ ~opens => session' = 0 /\ UNCHANGED database
  BY <1>2, <1>3, <1>4, <1>6 DEF Starts
<1>8. startups' \subseteq 1 .. handed'
  BY <1>1, <1>4, <1>7
<1>9. /\ Everything' \subseteq Everything
      /\ opens => sessions' \subseteq sessions \cup {new} /\ new \in sessions'
      /\ ~opens => sessions' = sessions
  <2>1. CASE opens
    <3>1. /\ events' \subseteq events /\ decisions' \subseteq decisions /\ sessions' \subseteq sessions \cup {new}
          /\ \A s \in sessions \cup {new} : s.id = id => s \in sessions'
      BY <1>7, <2>1, PruneFacts
    <3> QED
      BY <1>6, <2>1, <3>1 DEF Everything
  <2>2. CASE ~opens
    BY <1>7, <2>2 DEF Everything, database
  <2> QED
    BY <2>1, <2>2
<1>10. id \in Nat /\ \A s \in sessions : s.id \in Nat /\ s.id < id
  <2> DEFINE ids == {s.id : s \in sessions} \cup {0}
  <2>1. PICK n \in Nat : \A s \in sessions : s.id <= n
    BY <1>1 DEF Numbered
  <2>2. ids \in SUBSET Nat /\ ids # {} /\ (\A m \in ids : m <= n) /\ \A s \in sessions : s.id \in ids
    BY <1>1, <2>1 DEF TypeOK
  <2>3. id = Max(ids) + 1
    BY <1>2
  <2> HIDE DEF ids
  <2>4. Max(ids) \in ids /\ \A m \in ids : m <= Max(ids)
    BY <2>1, <2>2, MaxIsGreatest
  <2>5. PICK most \in Nat : most = Max(ids) /\ \A m \in ids : m \in Nat /\ m <= most
    BY <2>2, <2>4
  <2>6. id = most + 1 /\ \A m \in ids : m \in Nat /\ m < most + 1
    BY <2>3, <2>5
  <2>7. \A s \in sessions : s.id \in Nat /\ s.id < most + 1
    BY <2>2, <2>6
  <2> QED
    BY <2>6, <2>7
<1>11. \A r \in Everything : r.session \in Nat /\ r.session < id /\ r.id \in Nat /\ r.id < k
  <2>1. \A r \in Everything : r.session \in Nat /\ r.id \in Nat /\ r.id <= handed
    BY <1>1 DEF TypeOK, Everything, Rows, InLine
  <2> QED
    BY <1>1, <1>4, <1>10, <2>1 DEF Apart
<1>12. \A r \in Everything' : \E s \in sessions' : r.session <= s.id
  <2>1. CASE opens
    BY <1>6, <1>9, <1>10, <1>11, <2>1
  <2>2. CASE ~opens
    BY <1>9, <2>2 DEF Apart
  <2> QED
    BY <2>1, <2>2
<1>13. \A r, q \in Everything', u \in startups' : r.id < u /\ u <= q.id => r.session # q.session
  BY <1>4, <1>7, <1>9, <1>11 DEF Apart
<1>14. session' # 0 =>
         /\ \A s \in sessions' : s.id <= session'
         /\ \A u \in startups' :
              /\ \A r \in Everything' : r.session = session' => u <= r.id
              /\ \A i \in 1 .. Len(queue') : u <= queue'[i].id
  <2> SUFFICES ASSUME opens
               PROVE  /\ \A s \in sessions' : s.id <= session'
                      /\ \A u \in startups' :
                           /\ \A r \in Everything' : r.session = session' => u <= r.id
                           /\ \A i \in 1 .. Len(queue') : u <= queue'[i].id
    BY <1>7
  <2>1. \A s \in sessions' : s.id <= session'
    BY <1>6, <1>7, <1>9, <1>10
  <2>2. \A r \in Everything' : r.session # session'
    BY <1>7, <1>9, <1>10, <1>11
  <2>3. \A i \in 1 .. Len(queue') : queue'[i].id = k
    <3>1. queue' = <<startup>>
      BY <1>7
    <3> QED
      BY <1>5, <3>1
  <2>4. \A u \in startups' : u <= k
    BY <1>1, <1>4, <1>7
  <2> QED
    BY <2>1, <2>2, <2>3, <2>4
<1> QED
  BY <1>8, <1>12, <1>13, <1>14 DEF Apart

LEMMA CrashesApart ==
  ASSUME IInv, Apart, startups \subseteq 1 .. handed, NEW kept \in 0 .. MaxSeq, Crashes(kept)
  PROVE  Apart' /\ startups' \subseteq 1 .. handed'
<1>1. /\ up' = "down" /\ Everything' \subseteq Everything /\ UNCHANGED <<sessions, startups>>
      /\ handed' = handed + Cardinality(rows)
  BY DEF Crashes, Everything
<1>2. handed \in Nat /\ Cardinality(rows) \in Nat
  BY FS_CardinalityType DEF IInv, TypeOK
<1>3. startups' \subseteq 1 .. handed'
  BY <1>1, <1>2
<1> QED
  BY <1>1, <1>3 DEF Apart

LEMMA OthersApart ==
  ASSUME Apart, startups \subseteq 1 .. handed,
         Stops \/ Exits \/ (\E step \in Steps : ClockMoves(step)) \/ UNCHANGED vars
  PROVE  Apart' /\ startups' \subseteq 1 .. handed'
<1>1. up' # "down" => up # "down"
  BY DEF Stops, Exits, ClockMoves, vars
<1>2. UNCHANGED <<queue, session, events, decisions, sessions, handed, startups>>
  BY DEF Stops, Exits, ClockMoves, vars, writer, database
<1> QED
  BY <1>1, <1>2 DEF Apart, Everything

\* There is a tale, and its sessions are apart.
LEMMA Telling == Spec => [](IInv /\ TaleInv)
<1>1. Init => TaleInv
  <2>1. Init => Apart /\ startups \subseteq 1 .. handed
    BY DEF Init, Apart, Everything
  <2> QED
    BY <2>1, StoryInit DEF TaleInv
<1>2. IInv /\ TaleInv /\ [Next]_vars => TaleInv'
  <2> SUFFICES ASSUME IInv, TaleInv, [Next]_vars PROVE TaleInv'
    OBVIOUS
  <2>1. PICK log \in Logs, st \in Marks : Story(log, st)
    BY DEF TaleInv
  <2>2. Apart /\ startups \subseteq 1 .. handed /\ TypeOK
    BY DEF TaleInv, IInv
  <2>3. ASSUME NEW at \in Times, NEW what \in Events, NEW skipped, Folds(at, what, skipped)
        PROVE  TaleInv'
    <3>1. \E log2 \in Logs, st2 \in Marks : Story(log2, st2)'
      BY <2>1, <2>3, FoldsTells
    <3>2. Record(at, what, 0) \in Records /\ Record(at, what, 0).id = handed + 1
      BY <2>2, RecordTypes
    <3>3. Send(Record(at, what, 0)) /\ UNCHANGED <<up, session, database, startups>>
      BY <2>3 DEF Folds, writer
    <3>4. Apart' /\ startups' \subseteq 1 .. handed'
      BY <2>2, <3>2, <3>3, ApartHandedOver
    <3> QED
      BY <3>1, <3>4 DEF TaleInv
  <2>4. CASE Updates
    <3>1. PICK d \in Devices, at \in Sampled : Folds(at, [kind |-> "device_update", device |-> d], {})
      BY <2>4 DEF Updates
    <3>2. [kind |-> "device_update", device |-> d] \in Events /\ at \in Times
      BY <2>2 DEF Events, Sampled, TypeOK
    <3> QED
      BY <2>3, <3>1, <3>2
  <2>5. CASE Decides
    <3>1. PICK reading \in Readings : Folds(now, [kind |-> "meter", reading |-> reading], {})
      BY <2>5 DEF Decides
    <3>2. [kind |-> "meter", reading |-> reading] \in Events /\ now \in Times
      BY <2>2 DEF Events, TypeOK
    <3> QED
      BY <2>3, <3>1, <3>2
  <2>6. CASE StandsDown
    <3>1. PICK down \in SUBSET engine.seen : Folds(now, [kind |-> "mqtt_timeout"], down)
      BY <2>6 DEF StandsDown
    <3>2. [kind |-> "mqtt_timeout"] \in Events /\ now \in Times
      BY <2>2 DEF Events, TypeOK
    <3> QED
      BY <2>3, <3>1, <3>2
  <2>7. CASE Recorded
    <3>1. \E log2 \in Logs, st2 \in Marks : Story(log2, st2)'
      BY <2>1, <2>7, RecordedTells
    <3>2. PICK r \in rows : Send([r EXCEPT !.id = handed + 1])
      BY <2>7 DEF Recorded
    <3>3. [r EXCEPT !.id = handed + 1] \in Records /\ [r EXCEPT !.id = handed + 1].id = handed + 1
      <4>1. r \in Records /\ handed + 1 \in Nat
        BY <2>2 DEF TypeOK
      <4> QED
        BY <4>1 DEF Records
    <3>4. UNCHANGED <<up, session, database, startups>>
      BY <2>7 DEF Recorded, writer
    <3>5. Apart' /\ startups' \subseteq 1 .. handed'
      BY <2>2, <3>2, <3>3, <3>4, ApartHandedOver
    <3> QED
      BY <3>1, <3>5 DEF TaleInv
  <2>8. CASE Captures
    <3>1. \E log2 \in Logs, st2 \in Marks : Story(log2, st2)'
      BY <2>1, <2>8, CapturesTells
    <3>2. Record(now, Captured, 0) \in Records /\ Record(now, Captured, 0).id = handed + 1
      <4>1. now \in Times
        BY <2>2 DEF TypeOK
      <4> QED
        BY <2>2, <4>1, RecordTypes
    <3>3. Send(Record(now, Captured, 0)) /\ UNCHANGED <<up, session, database, startups>>
      BY <2>8 DEF Captures, writer
    <3>4. Apart' /\ startups' \subseteq 1 .. handed'
      BY <2>2, <3>2, <3>3, ApartHandedOver
    <3> QED
      BY <3>1, <3>4 DEF TaleInv
  <2>9. CASE Writer
    <3>1. PICK lands \in BOOLEAN, tables \in Prunable : Writes(lands, tables)
      BY <2>9 DEF Writer
    <3>2. Story(log, st)'
      BY <2>1, <3>1, WritesTells
    <3>3. Apart' /\ startups' \subseteq 1 .. handed'
      BY <2>2, <3>1, WritesApart
    <3> QED
      BY <3>2, <3>3 DEF TaleInv
  <2>10. CASE \E opens \in BOOLEAN, tables \in Prunable : Starts(opens, tables)
    <3>1. PICK opens \in BOOLEAN, tables \in Prunable : Starts(opens, tables)
      BY <2>10
    <3>2. \E log2 \in Logs, st2 \in Marks : Story(log2, st2)'
      BY <2>1, <3>1, StartsTells
    <3>3. Apart' /\ startups' \subseteq 1 .. handed'
      BY <2>2, <3>1, StartsApart
    <3> QED
      BY <3>2, <3>3 DEF TaleInv
  <2>11. CASE \E kept \in 0 .. MaxSeq : Crashes(kept)
    <3>1. PICK kept \in 0 .. MaxSeq : Crashes(kept)
      BY <2>11
    <3>2. \E log2 \in Logs, st2 \in Marks : Story(log2, st2)'
      BY <2>1, <3>1, CrashesTells
    <3>3. Apart' /\ startups' \subseteq 1 .. handed'
      BY <2>2, <3>1, CrashesApart
    <3> QED
      BY <3>2, <3>3 DEF TaleInv
  <2>12. CASE Stops \/ Exits \/ (\E step \in Steps : ClockMoves(step)) \/ UNCHANGED vars
    <3>1. Story(log, st)'
      BY <2>1, <2>12, OthersTell
    <3>2. Apart' /\ startups' \subseteq 1 .. handed'
      BY <2>2, <2>12, OthersApart
    <3> QED
      BY <3>1, <3>2 DEF TaleInv
  <2> QED
    BY <2>4, <2>5, <2>6, <2>7, <2>8, <2>9, <2>10, <2>11, <2>12 DEF Next
<1> QED
  BY <1>1, <1>2, Invariance, PTL DEF Spec

-----------------------------------------------------------------------------
(* The replay.                                                                *)

\* What a number adds to the state folded so far.
Onto(from, to, s, n) ==
  LET here == {e \in Frames(from, to) : e.seq = n}
  IN IF here = {} THEN s ELSE Step(s, (CHOOSE e \in here : TRUE).what).state

\* The folded states are those of the definition.
LEMMA FoldedFacts ==
  ASSUME MaxSeq \in Nat, NEW from, NEW to
  PROVE  /\ Folded(from, to)[0] = Seeded(from)
         /\ \A n \in 1 .. MaxSeq : Folded(from, to)[n] = Onto(from, to, Folded(from, to)[n - 1], n)
<1> DEFINE Is(m, f) == f = [n \in 0 .. m |-> IF n = 0 THEN Seeded(from) ELSE Onto(from, to, f[n - 1], n)]
           Wrong == {m \in Nat : ~ \E f : Is(m, f)}
<1>1. Wrong = {}
  <2> SUFFICES ASSUME Wrong # {} PROVE FALSE
    OBVIOUS
  <2>1. PICK m \in Wrong : \A n \in Wrong : m <= n
    <3>1. Wrong \in SUBSET Nat
      OBVIOUS
    <3> HIDE DEF Wrong
    <3> QED
      BY <3>1, LeastNat
  <2>2. m # 0
    <3>1. PICK g : g = [n \in 0 .. 0 |-> Seeded(from)]
      OBVIOUS
    <3>2. Is(0, g)
      BY <3>1
    <3> QED
      BY <3>2
  <2>3. PICK p \in Nat : m = p + 1
    <3>1. m \in Nat /\ m - 1 \in Nat /\ m = (m - 1) + 1
      BY <2>2
    <3> QED
      BY <3>1
  <2>4. PICK f : Is(p, f)
    <3>1. p \notin Wrong
      BY <2>1, <2>3
    <3> QED
      BY <3>1
  <2>5. PICK g : g = [n \in 0 .. m |-> IF n = m THEN Onto(from, to, f[p], m) ELSE f[n]]
    OBVIOUS
  <2>6. ASSUME NEW n \in 0 .. m PROVE g[n] = IF n = 0 THEN Seeded(from) ELSE Onto(from, to, g[n - 1], n)
    <3>1. CASE n = 0
      BY <2>2, <2>4, <2>5, <3>1
    <3>2. CASE n # 0 /\ n # m
      <4>1. n \in 0 .. p /\ n - 1 \in 0 .. p /\ n - 1 # m /\ n - 1 \in 0 .. m
        BY <2>3, <3>2
      <4>2. f[n] = Onto(from, to, f[n - 1], n)
        BY <2>4, <3>2, <4>1
      <4> QED
        BY <2>5, <3>2, <4>1, <4>2
    <3>3. CASE n = m
      <4>1. n - 1 = p /\ p \in 0 .. m /\ p # m
        BY <2>3, <3>3
      <4> QED
        BY <2>2, <2>5, <3>3, <4>1
    <3> QED
      BY <3>1, <3>2, <3>3
  <2>7. Is(m, g)
    BY <2>5, <2>6
  <2> QED
    BY <2>7
<1>2. \E f : Is(MaxSeq, f)
  BY <1>1
<1>3. Folded(from, to) = CHOOSE f : Is(MaxSeq, f)
  BY DEF Folded, Onto
<1>4. Is(MaxSeq, Folded(from, to))
  BY <1>2, <1>3
<1>5. \A n \in 1 .. MaxSeq : n \in 0 .. MaxSeq /\ n # 0
  OBVIOUS
<1> QED
  BY <1>4, <1>5

\* A row of the run: what it was made of, and what was told of that.
LEMMA RowTold ==
  ASSUME IInv, NEW log \in Logs, NEW st \in Marks, Story(log, st), NEW r \in Everything
  PROVE  /\ r.id \in 1 .. handed /\ r.seq \in Nat \ {0} /\ log[r.id] = Plain(r) /\ Told(log, st, r.id)
         /\ (IsEvent(r) <=> IsEvent(log[r.id])) /\ (IsDecision(r) <=> IsDecision(log[r.id]))
         /\ (r \in Foldable <=> IsEvent(r)) /\ (r \in decisions <=> IsDecision(r))
         /\ log[r.id].at = r.at /\ log[r.id].what = r.what /\ log[r.id].of = r.of /\ log[r.id].whole = r.whole
<1>1. TypeOK /\ NoneUnaccounted
  BY DEF IInv
<1>2. Held(log) /\ Tale(log, st)
  BY DEF Story
<1>3. r.seq \in Nat \ {0}
  BY <1>1 DEF TypeOK, Everything, Rows
<1>4. r.id \in 1 .. handed
  BY <1>1 DEF NoneUnaccounted
<1>5. log[r.id] = Plain(r) /\ Told(log, st, r.id)
  BY <1>2, <1>4 DEF Held, Tale, Everything
<1>6. /\ Plain(r).at = r.at /\ Plain(r).what = r.what /\ Plain(r).of = r.of /\ Plain(r).whole = r.whole
  BY DEF Plain
<1>7. (IsEvent(r) <=> IsEvent(Plain(r))) /\ (IsDecision(r) <=> IsDecision(Plain(r)))
  BY <1>6 DEF IsEvent, IsDecision
<1>8. (r \in decisions <=> IsDecision(r)) /\ (r \in events <=> ~IsDecision(r))
  BY <1>2 DEF Held, Everything
<1>9. r \in Foldable <=> IsEvent(r)
  BY <1>8 DEF Foldable, IsEvent, IsDecision, Kinds
<1> HIDE DEF Plain
<1> QED
  BY <1>3, <1>4, <1>5, <1>6, <1>7, <1>8, <1>9

\* The greatest number given, in the tables.
LEMMA MaxSeqFacts ==
  ASSUME IInv
  PROVE  MaxSeq \in Nat /\ \A r \in Everything : r.seq <= MaxSeq
<1> DEFINE seqs == {r.seq : r \in Everything} \cup {0}
<1>1. \A r \in Everything : r.seq \in Nat /\ r.seq <= next_seq
  BY DEF IInv, Numbered, TypeOK, Everything, Rows
<1>2. next_seq \in Nat /\ seqs \in SUBSET Nat /\ seqs # {} /\ (\A m \in seqs : m <= next_seq)
      /\ \A r \in Everything : r.seq \in seqs
  BY <1>1 DEF IInv, TypeOK
<1>3. MaxSeq = Max(seqs)
  BY DEF MaxSeq
<1> HIDE DEF seqs
<1> QED
  BY <1>2, <1>3, MaxIsGreatest

\* The rows order as their records do.
LEMMA Ordered ==
  ASSUME IInv, NEW r \in Everything, NEW q \in Everything
  PROVE  /\ r.id \in Nat /\ q.id \in Nat /\ r.seq \in Nat /\ q.seq \in Nat
         /\ (r.seq < q.seq <=> r.id < q.id) /\ (r.seq = q.seq <=> r.id = q.id)
<1>1. r.id \in Nat /\ q.id \in Nat /\ r.seq \in Nat /\ q.seq \in Nat
  BY DEF IInv, TypeOK, Everything, Rows
<1>2. (r.seq < q.seq <=> r.id < q.id) /\ (q.seq < r.seq <=> q.id < r.id)
  BY DEF IInv, OrderKept
<1> QED
  BY <1>1, <1>2

-----------------------------------------------------------------------------
(* A complete range.                                                          *)

\* What completeness says of the records from its first to an event folded.
Ranged(from, to, log, st, first, e) ==
  /\ first \in 1 .. e.id
  /\ \A k \in first .. e.id : \E r \in Everything : r.id = k
  /\ \A k \in first + 1 .. e.id : k \notin startups
  /\ \A f \in Frames(from, to) : first <= f.id
  /\ \A r \in Foldable : first <= r.id /\ r.id <= e.id => r \in Frames(from, to)
  /\ \/ Seeded(from) = Fresh /\ first \in startups
     \/ Seeded(from) = st[first] /\ ~IsEvent(log[first])

\* The last row numbered up to `n`.
Latest(r, n) == r.seq <= n /\ \A q \in Everything : q.seq <= n => q.seq <= r.seq

\* No event before a number, and the replay is where it was resumed from.
LEMMA NoneFolded ==
  ASSUME IInv, NEW from, NEW to, NEW n \in 0 .. MaxSeq, \A f \in Frames(from, to) : f.seq > n
  PROVE  Folded(from, to)[n] = Seeded(from)
<1> DEFINE Wrong == {m \in 0 .. n : Folded(from, to)[m] # Seeded(from)}
<1>1. MaxSeq \in Nat
  BY MaxSeqFacts
<1>2. Wrong = {}
  <2> SUFFICES ASSUME Wrong # {} PROVE FALSE
    OBVIOUS
  <2>1. PICK m \in Wrong : \A p \in Wrong : m <= p
    <3>1. Wrong \in SUBSET Nat
      OBVIOUS
    <3> HIDE DEF Wrong
    <3> QED
      BY <3>1, LeastNat
  <2>2. m # 0
    BY <1>1, FoldedFacts
  <2>3. m \in 1 .. MaxSeq /\ m - 1 \in 0 .. n /\ m <= n
    BY <1>1, <2>2
  <2>4. Folded(from, to)[m - 1] = Seeded(from)
    <3>1. m - 1 \notin Wrong
      BY <2>1, <2>3
    <3> QED
      BY <2>3, <3>1
  <2>5. {e \in Frames(from, to) : e.seq = m} = {}
    <3>1. \A e \in Frames(from, to) : e.seq \in Nat
      BY DEF Frames, Slice, Foldable, IInv, TypeOK, Rows
    <3> QED
      BY <1>1, <2>3, <3>1
  <2>6. Folded(from, to)[m] = Folded(from, to)[m - 1]
    <3>1. Folded(from, to)[m] = Onto(from, to, Folded(from, to)[m - 1], m)
      BY <1>1, <2>3, FoldedFacts
    <3>2. \A s : Onto(from, to, s, m) = s
      BY <2>5 DEF Onto
    <3> QED
      BY <3>1, <3>2
  <2> QED
    BY <2>4, <2>6
<1>3. n \in 0 .. n
  BY <1>1
<1> QED
  BY <1>2, <1>3

\* Up to a row of the range, the replay is where the engine was.
LEMMA StateReplayed ==
  ASSUME IInv, NEW log \in Logs, NEW st \in Marks, Story(log, st),
         NEW from, NEW to, NEW first, NEW e \in Everything, Ranged(from, to, log, st, first, e),
         NEW n \in 0 .. e.seq - 1, NEW r \in Everything, first <= r.id, Latest(r, n)
  PROVE  Folded(from, to)[n] = st[r.id]
<1> DEFINE Wrong == {m \in 0 .. e.seq - 1 : \E q \in Everything :
                       first <= q.id /\ Latest(q, m) /\ Folded(from, to)[m] # st[q.id]}
<1>1. MaxSeq \in Nat /\ e.seq <= MaxSeq /\ e.seq \in Nat
  BY MaxSeqFacts, Ordered
<1>2. /\ first \in Nat /\ first >= 1
      /\ \A k \in first .. e.id : \E q \in Everything : q.id = k
      /\ \A k \in first + 1 .. e.id : k \notin startups
      /\ \A f \in Frames(from, to) : first <= f.id
      /\ \A q \in Foldable : first <= q.id /\ q.id <= e.id => q \in Frames(from, to)
      /\ \/ Seeded(from) = Fresh /\ first \in startups
         \/ Seeded(from) = st[first] /\ ~IsEvent(log[first])
  <2>1. e.id \in Nat
    BY Ordered
  <2> QED
    BY <2>1 DEF Ranged
<1>3. \A f \in Frames(from, to) : f \in Everything /\ f \in Foldable
  BY DEF Frames, Slice, Foldable, Everything
<1>4. Wrong = {}
  <2> SUFFICES ASSUME Wrong # {} PROVE FALSE
    OBVIOUS
  <2>1. PICK m \in Wrong : \A p \in Wrong : m <= p
    <3>1. Wrong \in SUBSET Nat
      OBVIOUS
    <3> HIDE DEF Wrong
    <3> QED
      BY <3>1, LeastNat
  <2>2. PICK q \in Everything : first <= q.id /\ Latest(q, m) /\ Folded(from, to)[m] # st[q.id]
    OBVIOUS
  <2>3. /\ m \in Nat /\ m <= e.seq - 1 /\ q.seq \in Nat \ {0} /\ q.seq <= m /\ q.id \in Nat
        /\ \A p \in Everything : p.seq <= m => p.seq <= q.seq
    BY <1>1, <2>2, RowTold DEF Latest
  <2>4. q.id < e.id /\ q.seq < e.seq /\ e.id \in Nat
    BY <1>1, <2>3, Ordered
  <2>5. /\ Told(log, st, q.id) /\ (q \in Foldable <=> IsEvent(log[q.id])) /\ q.what = log[q.id].what
        /\ (IsEvent(log[q.id]) <=> q.what.kind \in Kinds)
    BY RowTold DEF IsEvent
  <2>6. m \in 1 .. MaxSeq /\ m - 1 \in 0 .. e.seq - 1 /\ m - 1 \in 0 .. MaxSeq /\ m \in 0 .. MaxSeq
    BY <1>1, <2>3
  <2>7. Folded(from, to)[m] = Onto(from, to, Folded(from, to)[m - 1], m)
    BY <1>1, <2>6, FoldedFacts
  \* No event at this number: as it was before.
  <2>8. CASE q.seq < m
    <3>1. \A f \in Frames(from, to) : f.seq # m
      BY <1>3, <2>3, <2>8, Ordered
    <3>2. Folded(from, to)[m] = Folded(from, to)[m - 1]
      <4>1. {f \in Frames(from, to) : f.seq = m} = {}
        BY <3>1
      <4>2. \A s : Onto(from, to, s, m) = s
        BY <4>1 DEF Onto
      <4> QED
        BY <2>7, <4>2
    <3>3. Latest(q, m - 1)
      <4>1. \A p \in Everything : p.seq \in Nat
        BY Ordered
      <4> QED
        BY <2>3, <2>8, <4>1 DEF Latest
    <3>4. m - 1 \notin Wrong
      BY <2>1, <2>3
    <3> QED
      BY <2>2, <2>6, <3>2, <3>3, <3>4
  \* The first row of the range.
  <2>9. CASE q.seq = m /\ q.id = first /\ ~IsEvent(log[first])
    <3>1. Seeded(from) = st[first]
      <4>1. first \notin startups
        BY <2>5, <2>9 DEF Told
      <4> QED
        BY <1>2, <4>1
    <3>2. ASSUME NEW f \in Frames(from, to) PROVE f.seq > m
      <4>1. f.id # first
        BY <1>3, <2>9, RowTold
      <4>2. f.id > q.id
        BY <1>2, <1>3, <2>9, <4>1, Ordered
      <4> QED
        BY <1>3, <2>9, <4>2, Ordered
    <3> QED
      BY <2>2, <2>6, <2>9, <3>1, <3>2, NoneFolded
  <2>10. CASE q.seq = m /\ ~(q.id = first /\ ~IsEvent(log[first]))
    <3>1. q.id # first => Folded(from, to)[m - 1] = st[q.id - 1] /\ q.id \notin startups
      <4> SUFFICES ASSUME q.id # first
                   PROVE  Folded(from, to)[m - 1] = st[q.id - 1] /\ q.id \notin startups
        OBVIOUS
      <4>1. q.id \in first + 1 .. e.id /\ q.id - 1 \in first .. e.id
        BY <1>2, <2>2, <2>3, <2>4
      <4>2. PICK p \in Everything : p.id = q.id - 1
        BY <1>2, <4>1
      <4>3. first <= p.id
        BY <4>1, <4>2
      <4>4. Latest(p, m - 1)
        <5>1. p.id < q.id
          BY <2>3, <4>2
        <5>2. p.seq \in Nat /\ p.seq < m
          BY <2>10, <5>1, Ordered
        <5>3. ASSUME NEW x \in Everything, x.seq <= m - 1 PROVE x.seq <= p.seq
          <6>1. x.seq \in Nat /\ x.id \in Nat /\ x.id < q.id
            BY <2>3, <2>10, <5>3, Ordered
          <6>2. ~(p.id < x.id)
            BY <2>3, <4>2, <6>1
          <6> QED
            BY <5>2, <6>1, <6>2, Ordered
        <5> QED
          BY <2>3, <5>2, <5>3 DEF Latest
      <4>5. m - 1 \notin Wrong
        BY <2>1, <2>3
      <4> QED
        BY <1>2, <2>6, <4>1, <4>2, <4>3, <4>4, <4>5
    <3>2. CASE IsEvent(log[q.id])
      <4>1. Folded(from, to)[m - 1] = Before(st, q.id)
        <5>1. CASE q.id = first
          <6>1. Seeded(from) = Fresh /\ first \in startups
            BY <1>2, <3>2, <5>1
          <6>2. ASSUME NEW f \in Frames(from, to) PROVE f.seq > m - 1
            <7>1. f.seq \in Nat /\ ~(f.seq < q.seq)
              <8>1. ~(f.id < q.id)
                BY <1>2, <1>3, <5>1, Ordered
              <8> QED
                BY <1>3, <8>1, Ordered
            <7> QED
              BY <2>3, <2>10, <7>1
          <6>3. Folded(from, to)[m - 1] = Seeded(from)
            BY <2>6, <6>2, NoneFolded
          <6> QED
            BY <5>1, <6>1, <6>3 DEF Before
        <5>2. CASE q.id # first
          BY <3>1, <5>2 DEF Before
        <5> QED
          BY <5>1, <5>2
      <4>2. q \in {f \in Frames(from, to) : f.seq = m}
        BY <1>2, <2>2, <2>3, <2>4, <2>5, <2>10, <3>2
      <4>3. \A f \in {f \in Frames(from, to) : f.seq = m} : f.what = log[q.id].what
        <5> SUFFICES ASSUME NEW f \in Frames(from, to), f.seq = m PROVE f.what = log[q.id].what
          OBVIOUS
        <5>1. f.id = q.id
          BY <1>3, <2>10, Ordered
        <5> QED
          BY <1>3, <5>1, RowTold
      <4>4. \A s : Onto(from, to, s, m) = Step(s, log[q.id].what).state
        BY <4>2, <4>3 DEF Onto
      <4>5. st[q.id] = Step(Before(st, q.id), log[q.id].what).state
        BY <2>5, <3>2 DEF Told
      <4> QED
        BY <2>2, <2>7, <4>1, <4>4, <4>5
    <3>3. CASE ~IsEvent(log[q.id])
      <4>1. q.id # first
        BY <2>10, <3>3
      <4>2. {f \in Frames(from, to) : f.seq = m} = {}
        <5>1. ASSUME NEW f \in Frames(from, to), f.seq = m PROVE FALSE
          <6>1. f.id = q.id
            BY <1>3, <2>10, <5>1, Ordered
          <6> QED
            BY <1>3, <3>3, <6>1, RowTold
        <5> QED
          BY <5>1
      <4>3. \A s : Onto(from, to, s, m) = s
        BY <4>2 DEF Onto
      <4>4. st[q.id] = st[q.id - 1]
        BY <2>5, <3>3 DEF Told
      <4> QED
        BY <2>2, <2>7, <3>1, <4>1, <4>3, <4>4
    <3> QED
      BY <3>2, <3>3
  <2> QED
    BY <2>3, <2>8, <2>9, <2>10
<1> QED
  BY <1>4

\* Before an event of the range, the replay is where the engine was before it.
LEMMA BeforeReplayed ==
  ASSUME IInv, NEW log \in Logs, NEW st \in Marks, Story(log, st),
         NEW from, NEW to, NEW first, NEW e \in Frames(from, to), Ranged(from, to, log, st, first, e)
  PROVE  Folded(from, to)[e.seq - 1] = Before(st, e.id)
<1>1. e \in Everything /\ e \in Foldable /\ \A f \in Frames(from, to) : f \in Everything
  BY DEF Frames, Slice, Foldable, Everything
<1>2. /\ first \in Nat /\ first >= 1 /\ first <= e.id
      /\ \A k \in first .. e.id : \E q \in Everything : q.id = k
      /\ \A k \in first + 1 .. e.id : k \notin startups
      /\ \A f \in Frames(from, to) : first <= f.id
      /\ \/ Seeded(from) = Fresh /\ first \in startups
         \/ Seeded(from) = st[first] /\ ~IsEvent(log[first])
  <2>1. e.id \in Nat
    BY <1>1, Ordered
  <2> QED
    BY <2>1 DEF Ranged
<1>3. MaxSeq \in Nat /\ e.seq \in Nat \ {0} /\ e.seq <= MaxSeq /\ e.id \in Nat
  BY <1>1, MaxSeqFacts, RowTold, Ordered
<1>4. IsEvent(log[e.id])
  BY <1>1, RowTold
<1>5. CASE e.id = first
  <2>1. Seeded(from) = Fresh /\ first \in startups
    BY <1>2, <1>4, <1>5
  <2>2. ASSUME NEW f \in Frames(from, to) PROVE f.seq > e.seq - 1
    <3>1. ~(f.id < e.id)
      BY <1>1, <1>2, <1>5, Ordered
    <3>2. f.seq \in Nat /\ ~(f.seq < e.seq)
      BY <1>1, <3>1, Ordered
    <3> QED
      BY <1>3, <3>2
  <2>3. e.seq - 1 \in 0 .. MaxSeq
    BY <1>3
  <2>4. Folded(from, to)[e.seq - 1] = Seeded(from)
    BY <2>2, <2>3, NoneFolded
  <2> QED
    BY <1>5, <2>1, <2>4 DEF Before
<1>6. CASE e.id # first
  <2>1. e.id \in first + 1 .. e.id /\ e.id - 1 \in first .. e.id
    BY <1>2, <1>3, <1>6
  <2>2. PICK r \in Everything : r.id = e.id - 1
    BY <1>2, <2>1
  <2>3. r.id \in Nat /\ r.id < e.id /\ first <= r.id
    BY <1>2, <1>3, <2>1, <2>2
  <2>4. Latest(r, e.seq - 1)
    <3>1. r.seq \in Nat /\ r.seq < e.seq
      BY <1>1, <2>3, Ordered
    <3>2. ASSUME NEW q \in Everything, q.seq <= e.seq - 1 PROVE q.seq <= r.seq
      <4>1. q.seq \in Nat /\ q.id \in Nat /\ q.id < e.id
        BY <1>1, <1>3, <3>2, Ordered
      <4>2. ~(r.id < q.id)
        BY <1>3, <2>2, <4>1
      <4> QED
        BY <3>1, <4>1, <4>2, Ordered
    <3> QED
      BY <1>3, <3>1, <3>2 DEF Latest
  <2>5. e.seq - 1 \in 0 .. e.seq - 1
    BY <1>3
  <2>6. Folded(from, to)[e.seq - 1] = st[r.id]
    BY <1>1, <2>3, <2>4, <2>5, StateReplayed
  <2> QED
    BY <1>2, <2>1, <2>2, <2>6 DEF Before
<1> QED
  BY <1>5, <1>6

\* The row a replay is resumed from is the last of those it may be.
LEMMA SeedIsLast ==
  ASSUME IInv, NEW from, Seeds(from) # {}
  PROVE  SeedRow(from) \in Seeds(from) /\ \A q \in Seeds(from) : q.seq <= SeedRow(from).seq
<1> DEFINE seqs == {r.seq : r \in Seeds(from)}
<1>1. \A r \in Seeds(from) : r.seq \in Nat /\ r.seq <= next_seq /\ r.seq \in seqs
  BY DEF Seeds, IInv, Numbered, TypeOK, Everything, Rows
<1>2. next_seq \in Nat /\ seqs \in SUBSET Nat /\ seqs # {} /\ \A m \in seqs : m <= next_seq
  BY <1>1 DEF IInv, TypeOK
<1>3. PICK most \in seqs : \A m \in seqs : m <= most
  <2> HIDE DEF seqs
  <2> QED
    BY <1>2, MaxIsGreatest
<1>4. \E r \in Seeds(from) : \A q \in Seeds(from) : q.seq <= r.seq
  BY <1>1, <1>3
<1> QED
  BY <1>4 DEF SeedRow

\* The first record of a range.
FirstOf(from, to) == IF Seeds(from) = {} THEN Min({e.id : e \in Frames(from, to)}) ELSE SeedRow(from).id

KeptOf(from, to) ==
  Slice(Everything, from, to) \cup (IF Seeds(from) = {} THEN {} ELSE {SeedRow(from)})

\* What a complete range has.
LEMMA CompleteFacts ==
  ASSUME IInv, NEW log \in Logs, NEW st \in Marks, Story(log, st),
         NEW from, NEW to, Complete(from, to), NEW first, first = FirstOf(from, to)
  PROVE  /\ first \in Nat /\ first >= 1
         /\ \A f \in Frames(from, to) : /\ f \in Everything /\ f \in Foldable /\ first <= f.id
                                        /\ f.at <= to /\ f \in KeptOf(from, to)
         /\ \A n \in first .. handed : n \notin lost \cup pruned
         /\ Onward(first)
         /\ Seeds(from) = {} => /\ first \in startups /\ Seeded(from) = Fresh
                                /\ \E f \in Frames(from, to) : f.id = first
         /\ Seeds(from) # {} => /\ SeedRow(from) \in decisions /\ SeedRow(from).id = first
                                /\ Seeded(from) = SeedRow(from).what.state
                                /\ SeedRow(from) \in KeptOf(from, to)
                                /\ \A f \in Frames(from, to) : first < f.id
         /\ \A r, q \in KeptOf(from, to) : r.session = q.session
         /\ \A r \in KeptOf(from, to) : r.whole /\ r.id \notin InFlight
<1>1. /\ Frames(from, to) # {}
      /\ \A n \in first .. handed : n \notin lost \cup pruned
      /\ Onward(first)
      /\ Seeds(from) = {} => first \in startups
      /\ \A r, q \in KeptOf(from, to) : r.session = q.session
      /\ \A r \in KeptOf(from, to) : r.whole
      /\ {r.id : r \in KeptOf(from, to)} \cap InFlight = {}
  BY DEF Complete, FirstOf, KeptOf
<1>2. \A r \in KeptOf(from, to) : r.whole /\ r.id \notin InFlight
  BY <1>1
<1>3. \A f \in Frames(from, to) : f \in Everything /\ f \in Foldable /\ f.at <= to /\ f \in KeptOf(from, to)
  BY DEF Frames, Slice, Foldable, Everything, KeptOf
<1>4. CASE Seeds(from) = {}
  <2> DEFINE ids == {f.id : f \in Frames(from, to)}
  <2>1. \A f \in Frames(from, to) : f.id \in 1 .. handed /\ f.id \in ids
    BY <1>3, RowTold
  <2>2. handed \in Nat
    BY DEF IInv, TypeOK
  <2>3. ids \in SUBSET (1 .. handed) /\ ids \in SUBSET Nat /\ ids # {}
    BY <1>1, <2>1, <2>2
  <2>4. first = Min(ids)
    BY <1>4 DEF FirstOf
  <2>5. \A i \in ids : \E f \in Frames(from, to) : f.id = i
    OBVIOUS
  <2> HIDE DEF ids
  <2>6. first \in ids /\ \A i \in ids : first <= i
    BY <2>3, <2>4, MinIsLeast
  <2>7. Seeded(from) = Fresh
    BY <1>4 DEF Seeded
  <2>8. first \in Nat /\ first >= 1
    BY <2>2, <2>3, <2>6
  <2> QED
    BY <1>1, <1>2, <1>3, <1>4, <2>1, <2>5, <2>6, <2>7, <2>8
<1>5. CASE Seeds(from) # {}
  <2>1. /\ SeedRow(from) \in decisions /\ SeedRow(from) \in Everything /\ first = SeedRow(from).id
        /\ Seeded(from) = SeedRow(from).what.state /\ SeedRow(from) \in KeptOf(from, to)
    BY <1>5, SeedIsLast DEF Seeds, Everything, FirstOf, Seeded, KeptOf
  <2>2. handed \in Nat /\ first \in 1 .. handed
    BY <2>1, RowTold DEF IInv, TypeOK
  <2>3. ASSUME NEW f \in Frames(from, to) PROVE first < f.id
    <3>1. f.seq > SeedRow(from).seq
      BY <1>5 DEF Frames, Slice
    <3> QED
      BY <1>3, <2>1, <3>1, Ordered
  <2>4. \A f \in Frames(from, to) : first <= f.id
    <3>1. \A f \in Frames(from, to) : f.id \in Nat
      BY <1>3, Ordered
    <3> QED
      BY <2>2, <2>3, <3>1
  <2>5. first \in Nat /\ first >= 1
    BY <2>2
  <2> QED
    BY <1>1, <1>2, <1>3, <1>5, <2>1, <2>3, <2>4, <2>5
<1> QED
  BY <1>4, <1>5

\* What is left of a range that lacks nothing is on record.
LEMMA NoneMissing ==
  ASSUME IInv, NEW first \in Nat, first >= 1, \A n \in first .. handed : n \notin lost \cup pruned,
         NEW e \in Everything, NEW k \in first .. e.id
  PROVE  \E r \in Everything : r.id = k
<1>1. e.id \in Nat /\ e.id <= handed /\ handed \in Nat
  BY DEF IInv, InLine, TypeOK, Everything, Rows
<1>2. k \in 1 .. handed /\ k \notin lost \cup pruned
  BY <1>1
<1>3. \A i \in DOMAIN queue : queue[i].id # k
  <2>1. \A i \in 1 .. Len(queue) : queue[i].id \in Nat /\ e.id < queue[i].id
    BY QueueTypes DEF IInv, InLine
  <2>2. DOMAIN queue = 1 .. Len(queue)
    BY QueueTypes DEF IInv
  <2> QED
    BY <1>1, <2>1, <2>2
<1>4. k \in {queue[i].id : i \in DOMAIN queue} \cup {r.id : r \in Everything} \cup lost \cup pruned
  BY <1>2 DEF IInv, NoneUnaccounted
<1> QED
  BY <1>2, <1>3, <1>4

\* Up to an event that decides, a complete range has every record.
LEMMA CompleteRanged ==
  ASSUME IInv, Apart, NEW log \in Logs, NEW st \in Marks, Story(log, st),
         NEW from, NEW to, Complete(from, to), NEW first, first = FirstOf(from, to),
         NEW e \in Frames(from, to), e.what.kind # "device_update", from \in Times, to \in Times
  PROVE  Ranged(from, to, log, st, first, e)
<1>1. /\ first \in Nat /\ first >= 1
      /\ \A f \in Frames(from, to) : /\ f \in Everything /\ f \in Foldable /\ first <= f.id
                                     /\ f.at <= to /\ f \in KeptOf(from, to)
      /\ \A n \in first .. handed : n \notin lost \cup pruned
      /\ Onward(first)
      /\ Seeds(from) = {} => /\ first \in startups /\ Seeded(from) = Fresh
                             /\ \E f \in Frames(from, to) : f.id = first
      /\ Seeds(from) # {} => /\ SeedRow(from) \in decisions /\ SeedRow(from).id = first
                             /\ Seeded(from) = SeedRow(from).what.state
                             /\ SeedRow(from) \in KeptOf(from, to)
                             /\ \A f \in Frames(from, to) : first < f.id
      /\ \A r, q \in KeptOf(from, to) : r.session = q.session
  BY CompleteFacts
<1>2. e.id \in Nat /\ first <= e.id /\ e \in Everything /\ e \in Foldable /\ e.seq < MaxSeq /\ e.at <= to
  BY <1>1, Ordered DEF Frames
<1>3. \A r \in Everything : r.at \in Nat /\ r.id \in Nat /\ r.seq \in Nat
  BY DEF Everything, IInv, TypeOK, Rows, Times
<1>4. from \in Nat /\ to \in Nat /\ MaxSeq \in Nat
  BY MaxSeqFacts DEF Times
<1>5. first \in 1 .. e.id
  BY <1>1, <1>2
<1>6. \A k \in first .. e.id : \E r \in Everything : r.id = k
  BY <1>1, <1>2, NoneMissing
<1>7. ASSUME NEW k \in first + 1 .. e.id, k \in startups PROVE FALSE
  <2>1. PICK r \in KeptOf(from, to) : r \in Everything /\ r.id = first
    BY <1>1 DEF Everything
  <2>2. r.id < k /\ k <= e.id
    BY <1>1, <1>2, <2>1
  <2>3. r.session # e.session
    BY <1>2, <1>7, <2>1, <2>2 DEF Apart
  <2> QED
    BY <1>1, <2>1, <2>3
<1>8. ASSUME NEW r \in Foldable, first <= r.id, r.id <= e.id PROVE r \in Frames(from, to)
  <2>1. r \in Everything
    BY DEF Foldable, Everything
  <2>2. r.at <= e.at
    <3>1. CASE r.id = e.id
      <4>1. r.at = e.at
        BY <1>2, <2>1, <3>1, RowTold
      <4> QED
        BY <1>2, <1>3, <4>1
    <3>2. CASE r.id # e.id
      <4>1. r.id < e.id
        BY <1>2, <1>3, <1>8, <2>1, <3>2
      <4>2. ~(e.at < r.at)
        BY <1>1, <1>2, <1>8, <4>1 DEF Onward
      <4> QED
        BY <1>2, <1>3, <2>1, <4>2
    <3> QED
      BY <3>1, <3>2
  <2>3. r.at <= to
    BY <1>2, <1>3, <1>4, <2>1, <2>2
  <2>4. r.seq < MaxSeq
    <3>1. ~(e.seq < r.seq)
      <4>1. ~(e.id < r.id)
        BY <1>2, <1>3, <1>8, <2>1
      <4> QED
        BY <1>2, <2>1, <4>1, Ordered
    <3> QED
      BY <1>2, <1>3, <1>4, <2>1, <3>1
  <2>5. Seeds(from) = {} => r.at >= from
    <3> SUFFICES ASSUME Seeds(from) = {} PROVE r.at >= from
      OBVIOUS
    <3>1. PICK f \in Frames(from, to) : f.id = first
      BY <1>1
    <3>2. f \in Everything /\ f \in Foldable /\ f.at >= from /\ f.id \in startups
      BY <1>1, <3>1 DEF Frames, Slice
    <3>3. CASE r.id = first
      <4>1. r.at = f.at
        BY <2>1, <3>1, <3>2, <3>3, RowTold
      <4> QED
        BY <3>2, <4>1
    <3>4. CASE r.id # first
      <4>1. f.id < r.id
        BY <1>1, <1>3, <1>8, <2>1, <3>1, <3>4
      <4>2. first <= f.id
        BY <1>1, <3>1
      <4>3. ~(r.at < f.at)
        BY <1>1, <1>8, <3>2, <4>1, <4>2 DEF Onward
      <4> QED
        BY <1>3, <1>4, <2>1, <3>2, <4>3
    <3> QED
      BY <3>3, <3>4
  <2>6. Seeds(from) # {} => r.seq > SeedRow(from).seq
    <3> SUFFICES ASSUME Seeds(from) # {} PROVE r.seq > SeedRow(from).seq
      OBVIOUS
    <3>1. SeedRow(from) \in decisions /\ SeedRow(from) \in Everything /\ SeedRow(from).id = first
      BY <1>1 DEF Everything
    <3>2. r.id # first
      BY <2>1, <3>1, RowTold DEF IsEvent, IsDecision, Kinds
    <3>3. SeedRow(from).id < r.id
      BY <1>1, <1>3, <1>8, <2>1, <3>1, <3>2
    <3>4. SeedRow(from).seq < r.seq
      BY <2>1, <3>1, <3>3, Ordered
    <3> QED
      BY <1>3, <2>1, <3>1, <3>4
  <2> QED
    BY <1>8, <2>3, <2>4, <2>5, <2>6 DEF Frames, Slice
<1>9. \/ Seeded(from) = Fresh /\ first \in startups
      \/ Seeded(from) = st[first] /\ ~IsEvent(log[first])
  <2>1. CASE Seeds(from) = {}
    BY <1>1, <2>1
  <2>2. CASE Seeds(from) # {}
    <3>1. SeedRow(from) \in decisions /\ SeedRow(from) \in Everything /\ SeedRow(from).id = first
      BY <1>1, <2>2 DEF Everything
    <3>2. IsDecision(log[first]) /\ Told(log, st, first) /\ log[first].what = SeedRow(from).what
      BY <3>1, RowTold
    <3>3. ~IsEvent(log[first])
      BY <3>2 DEF IsEvent, IsDecision, Kinds
    <3>4. st[first] = st[first - 1] /\ SeedRow(from).what.state = st[first - 1]
      BY <3>2, <3>3 DEF Told, Answers
    <3> QED
      BY <1>1, <2>2, <3>3, <3>4
  <2> QED
    BY <2>1, <2>2
<1> QED
  BY <1>1, <1>5, <1>6, <1>7, <1>8, <1>9 DEF Ranged

\* What an event directs is a command for some of the devices.
LEMMA DirectsTypes ==
  ASSUME IInv, NEW log \in Logs, NEW st \in Marks, NEW n \in Nat \ {0}, IsEvent(log[n])
  PROVE  DirectsAt(log, st, n) \in Directives /\ None \notin DOMAIN DirectsAt(log, st, n)
<1>1. n - 1 \in Nat
  OBVIOUS
<1>2. Before(st, n) \in States
  BY <1>1 DEF Before, Marks, States, Fresh
<1>3. log[n].what \in Events
  <2>1. log[n] \in Records
    BY DEF Logs
  <2>2. log[n].what \in Events \cup {Captured} \cup Decided
    BY <2>1 DEF Records
  <2> QED
    BY <2>2 DEF IsEvent, Kinds, Captured, Decided
<1>4. DirectsAt(log, st, n) \in Directives
  BY <1>2, <1>3, StepTypes DEF DirectsAt
<1>5. None \notin DOMAIN DirectsAt(log, st, n)
  <2> HIDE DEF DirectsAt
  <2> QED
    BY <1>4, JournalAssumption DEF Directives
<1> QED
  BY <1>4, <1>5

\* The rows paired with an event are its answers, and all of them.
LEMMA IssuedLines ==
  ASSUME IInv, NEW log \in Logs, NEW st \in Marks, Story(log, st),
         NEW from, NEW to, Complete(from, to), NEW e \in Frames(from, to), from \in Times, to \in Times
  PROVE  SameLines(Issued(from, to, e), DirectsAt(log, st, e.id))
<1>1. PICK first : first = FirstOf(from, to)
  OBVIOUS
<1>2. /\ first \in Nat /\ first >= 1
      /\ \A f \in Frames(from, to) : /\ f \in Everything /\ f \in Foldable /\ first <= f.id
                                     /\ f.at <= to /\ f \in KeptOf(from, to)
      /\ \A n \in first .. handed : n \notin lost \cup pruned
      /\ \A r \in KeptOf(from, to) : r.whole /\ r.id \notin InFlight
  BY <1>1, CompleteFacts
<1>3. /\ e \in Everything /\ e \in Foldable /\ e.id \in 1 .. handed /\ handed \in Nat /\ e.seq \in Nat
      /\ IsEvent(log[e.id]) /\ e.at = log[e.id].at /\ first <= e.id
  BY <1>2, RowTold DEF IInv, TypeOK
<1>4. MaxSeq \in Nat /\ (\A r \in Everything : r.seq <= MaxSeq) /\ from \in Nat /\ to \in Nat
  BY MaxSeqFacts DEF Times
<1>5. \A r \in decisions : r \in Everything
  BY DEF Everything
\* Each is of the event.
<1>6. ASSUME NEW r \in Issued(from, to, e)
      PROVE  /\ r \in decisions /\ r.id \in e.id + 1 .. handed /\ r.of = e.id
             /\ Answers(log, st, log[r.id], r.id) /\ log[r.id].what = r.what /\ log[r.id].of = e.id
  <2>1. /\ r \in decisions /\ r \in Slice(decisions, from, to) /\ r.seq > e.seq
        /\ \A f \in Frames(from, to) : f.seq > e.seq => r.seq < f.seq
    BY DEF Issued, Paired, Slice
  <2>2. /\ r \in Everything /\ r.id \in 1 .. handed /\ r.seq \in Nat
        /\ log[r.id].what = r.what /\ log[r.id].of = r.of /\ log[r.id].at = r.at
        /\ Answers(log, st, log[r.id], r.id)
    BY <1>5, <2>1, RowTold DEF Told
  <2>3. e.id < r.id
    <3>1. e.seq < r.seq
      BY <1>3, <2>1, <2>2
    <3> QED
      BY <1>3, <2>2, <3>1, Ordered
  <2>4. PICK o \in 1 .. r.id - 1 : o = r.of /\ IsEvent(log[o]) /\ r.at = log[o].at
    BY <2>2 DEF Answers
  <2>5. ~(o < e.id)
    <3>1. SUFFICES ASSUME o < e.id PROVE FALSE
      OBVIOUS
    <3>2. e.id \in o + 1 .. r.id - 1
      BY <1>3, <2>2, <2>3, <3>1
    <3> QED
      BY <1>3, <2>2, <2>4, <3>2 DEF Answers
  <2>6. ~(e.id < o)
    <3>1. SUFFICES ASSUME e.id < o PROVE FALSE
      OBVIOUS
    <3>2. o \in first .. r.id
      BY <1>2, <1>3, <2>2, <3>1
    <3>3. PICK x \in Everything : x.id = o
      BY <1>2, <2>2, <3>2, NoneMissing
    <3>4. x \in Foldable /\ x.at = r.at /\ x.seq \in Nat
      BY <2>4, <3>3, RowTold
    <3>5. e.seq < x.seq /\ x.seq < r.seq
      BY <1>3, <2>2, <3>1, <3>3, Ordered
    <3>6. x \in Slice(Foldable, from, to)
      <4>1. Seeds(from) # {} => x.seq > SeedRow(from).seq
        <5>1. Seeds(from) # {} => SeedRow(from) \in Everything /\ e.seq > SeedRow(from).seq
          BY <1>5, SeedIsLast DEF Frames, Slice, Seeds
        <5>2. Seeds(from) # {} => SeedRow(from).seq \in Nat
          BY <5>1, Ordered
        <5> QED
          BY <1>3, <3>4, <3>5, <5>1, <5>2
      <4> QED
        BY <2>1, <3>4, <4>1 DEF Slice
    <3>7. x.seq < MaxSeq
      BY <1>4, <2>2, <3>4, <3>5
    <3>8. x \in Frames(from, to) /\ x.seq > e.seq
      BY <1>3, <3>4, <3>5, <3>6, <3>7 DEF Frames
    <3> QED
      BY <2>1, <2>2, <3>4, <3>5, <3>8
  <2>7. o = e.id
    BY <1>3, <2>5, <2>6
  <2> QED
    BY <1>3, <2>1, <2>2, <2>3, <2>4, <2>7
\* Each of its answers is a row among them.
<1>7. ASSUME NEW x \in AnswersTo(log, e.id)
      PROVE  \E r \in decisions : r.what = x.what /\ r.whole = x.whole /\ r.whole
                                  /\ (r.what.device # None => r \in Issued(from, to, e))
  <2>1. e.id \notin InFlight
    BY <1>2
  <2>2. IsDecision(x) /\ x.of = e.id /\ x \notin rows
    BY <2>1 DEF AnswersTo, InFlight
  <2>3. PICK m \in e.id + 1 .. handed : x = log[m]
    BY <2>2 DEF AnswersTo
  <2>4. \A i \in DOMAIN queue : queue[i].id # m
    <3>1. DOMAIN queue = 1 .. Len(queue)
      BY QueueTypes DEF IInv
    <3>2. \A i \in DOMAIN queue : log[queue[i].id] = queue[i]
      BY <3>1 DEF Story, Held
    <3> QED
      BY <2>1, <2>2, <2>3, <3>2 DEF InFlight
  <2>5. PICK r \in Everything : r.id = m
    <3>1. m \in 1 .. handed /\ m \in first .. handed
      BY <1>2, <1>3
    <3>2. m \in {queue[i].id : i \in DOMAIN queue} \cup {r.id : r \in Everything} \cup lost \cup pruned
      BY <3>1 DEF IInv, NoneUnaccounted
    <3> QED
      BY <1>2, <2>4, <3>1, <3>2
  <2>6. /\ r \in decisions /\ r.what = x.what /\ r.whole = x.whole /\ r.at = x.at /\ r.seq \in Nat
        /\ Answers(log, st, log[r.id], r.id) /\ log[r.id] = x
    BY <2>2, <2>3, <2>5, RowTold DEF Told
  <2>7. r.at = e.at
    BY <1>3, <2>2, <2>6 DEF Answers
  <2>8. e.id < r.id /\ e.seq < r.seq
    <3>1. e.id < r.id
      BY <1>3, <2>3, <2>5
    <3> QED
      BY <1>3, <2>5, <3>1, Ordered
  <2>9. r \in Slice(decisions, from, to)
    <3>1. Seeds(from) # {} => r.seq > SeedRow(from).seq
      <4>1. Seeds(from) # {} => SeedRow(from) \in Everything /\ e.seq > SeedRow(from).seq
        BY <1>5, SeedIsLast DEF Frames, Slice, Seeds
      <4>2. Seeds(from) # {} => SeedRow(from).seq \in Nat
        BY <4>1, Ordered
      <4> QED
        BY <1>3, <2>6, <2>8, <4>1, <4>2
    <3>2. Seeds(from) = {} => r.at >= from
      BY <2>7 DEF Frames, Slice
    <3>3. r.at <= to
      BY <1>2, <2>7
    <3> QED
      BY <2>6, <3>1, <3>2, <3>3 DEF Slice
  <2>10. r.whole
    <3>1. r \in KeptOf(from, to)
      BY <2>9, <1>5 DEF KeptOf, Slice
    <3> QED
      BY <1>2, <3>1
  <2>11. ASSUME NEW f \in Frames(from, to), f.seq > e.seq PROVE r.seq < f.seq
    <3>1. f \in Everything /\ IsEvent(log[f.id]) /\ f.id \in Nat /\ f.seq \in Nat
      BY <1>2, RowTold, Ordered
    <3>2. e.id < f.id
      BY <1>3, <2>11, <3>1, Ordered
    <3>3. f.id \notin e.id + 1 .. r.id - 1
      BY <2>2, <2>6, <3>1 DEF Answers
    <3>4. f.id # r.id
      BY <2>6, <3>1 DEF Answers, IsEvent, IsDecision, Kinds
    <3>5. r.id < f.id
      BY <1>3, <2>3, <2>5, <3>1, <3>2, <3>3, <3>4
    <3> QED
      BY <2>5, <3>1, <3>5, Ordered
  <2>12. r.seq > e.seq
    BY <1>3, <2>6, <2>8
  <2>13. r.what.device # None => r \in Issued(from, to, e)
    BY <2>9, <2>11, <2>12 DEF Issued, Paired
  <2> QED
    BY <2>6, <2>10, <2>13
<1>8. e.id \in Nat \ {0} /\ None \notin DOMAIN DirectsAt(log, st, e.id)
  <2>1. e.id \in Nat \ {0}
    BY <1>3
  <2> QED
    BY <1>3, <2>1, DirectsTypes
<1>9. \A r \in Issued(from, to, e) :
        /\ r.what.device \in DOMAIN DirectsAt(log, st, e.id)
        /\ r.what.command = DirectsAt(log, st, e.id)[r.what.device]
  <2> SUFFICES ASSUME NEW r \in Issued(from, to, e)
               PROVE  /\ r.what.device \in DOMAIN DirectsAt(log, st, e.id)
                      /\ r.what.command = DirectsAt(log, st, e.id)[r.what.device]
    OBVIOUS
  <2>1. r.what.device # None
    BY DEF Issued
  <2>2. Answers(log, st, log[r.id], r.id) /\ log[r.id].what = r.what /\ log[r.id].of = e.id
    BY <1>6
  <2> HIDE DEF DirectsAt
  <2> QED
    BY <2>1, <2>2 DEF Answers
<1>10. ASSUME NEW d \in DOMAIN DirectsAt(log, st, e.id)
       PROVE  \E r \in Issued(from, to, e) : r.what.device = d
  <2>1. \A x \in AnswersTo(log, e.id) : x.whole
    BY <1>7
  <2>2. (e.id .. handed) \cap lost = {}
    BY <1>2, <1>3
  <2>3. Answering(log, st, e.id)
    BY <1>3 DEF Story, Whole
  <2>4. PICK x \in AnswersTo(log, e.id) : x.what.device = d
    BY <1>3, <2>1, <2>2, <2>3 DEF Answering
  <2> HIDE DEF DirectsAt
  <2>5. d # None
    BY <1>8
  <2> QED
    BY <1>7, <2>4, <2>5
<1>11. ASSUME NEW r \in Issued(from, to, e), NEW q \in Issued(from, to, e), r.seq < q.seq
       PROVE  r.what.device < q.what.device
  <2>1. /\ r \in decisions /\ r.id \in e.id + 1 .. handed /\ log[r.id].what = r.what
        /\ Answers(log, st, log[r.id], r.id)
    BY <1>6
  <2>2. /\ q \in decisions /\ q.id \in e.id + 1 .. handed /\ log[q.id].what = q.what
        /\ Answers(log, st, log[q.id], q.id) /\ log[q.id].of = e.id
    BY <1>6
  <2>3. r.id < q.id
    BY <1>5, <1>11, <2>1, <2>2, Ordered
  <2>4. r.id \in e.id + 1 .. q.id - 1
    BY <1>3, <2>1, <2>2, <2>3
  <2>5. IsDecision(log[r.id])
    BY <2>1 DEF Answers
  <2> QED
    BY <2>1, <2>2, <2>4, <2>5 DEF Answers
<1> HIDE DEF DirectsAt
<1>12. {r.what.device : r \in Issued(from, to, e)} = DOMAIN DirectsAt(log, st, e.id)
  BY <1>9, <1>10
<1> QED
  BY <1>9, <1>11, <1>12 DEF SameLines

\* journal/read.rs, replay.rs: a complete range, replayed from the snapshot it is anchored
\* to, commands what the daemon commanded.
THEOREM RangesVerify == Spec => []CompleteVerifies
<1>1. IInv /\ TaleInv => CompleteVerifies
  <2> SUFFICES ASSUME IInv, TaleInv, NEW from \in Times, NEW to \in Times, Complete(from, to),
                      NEW e \in Frames(from, to)
               PROVE  SameLines(Issued(from, to, e), Step(Folded(from, to)[e.seq - 1], e.what).directs)
    BY DEF CompleteVerifies, Verifies
  <2>1. Apart /\ \E log \in Logs, st \in Marks : Story(log, st)
    BY DEF TaleInv
  <2>2. PICK log \in Logs, st \in Marks : Story(log, st)
    BY <2>1
  <2>3. PICK first : first = FirstOf(from, to)
    OBVIOUS
  <2>4. SameLines(Issued(from, to, e), DirectsAt(log, st, e.id))
    BY <2>2, IssuedLines
  <2>5. e \in Everything /\ log[e.id].what = e.what
    <3>1. e \in Everything
      BY DEF Frames, Slice, Foldable, Everything
    <3> QED
      BY <2>2, <3>1, RowTold
  <2>6. Step(Folded(from, to)[e.seq - 1], e.what).directs = DirectsAt(log, st, e.id)
    <3>1. CASE e.what.kind = "device_update"
      BY <2>5, <3>1 DEF DirectsAt, Step
    <3>2. CASE e.what.kind # "device_update"
      <4>1. Ranged(from, to, log, st, first, e)
        BY <2>1, <2>2, <2>3, <3>2, CompleteRanged
      <4>2. Folded(from, to)[e.seq - 1] = Before(st, e.id)
        BY <2>2, <4>1, BeforeReplayed
      <4> QED
        BY <2>5, <4>2 DEF DirectsAt
    <3> QED
      BY <3>1, <3>2
  <2> QED
    BY <2>4, <2>6
<1> QED
  BY <1>1, Telling, PTL
===============================================================================
