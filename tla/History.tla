-------------------------------- MODULE History --------------------------------
(***************************************************************************)
(* The dashboard's interval history: a ring of fifteen-minute buckets that the  *)
(* live loop folds every reading into, and that a restart folds again from the  *)
(* journal's rows, in the order a clock that may be set stamped them.          *)
(*                                                                          *)
(* A reading is the number of its row; a bucket keeps the readings its means    *)
(* are taken over, each with the battery reading its home figure was added to.  *)
(***************************************************************************)
EXTENDS Integers, Sequences, FiniteSets, SequencesExt, FiniteSetsExt

CONSTANTS
  None,
  PerInterval, Ring, Rolling,        \* INTERVAL, INTERVAL_RING, ROLLING_DAY
  Step, MaxNow, MaxRows, MaxSteps    \* what is explored

Kinds == {"meter", "battery", "packs"}
Span  == PerInterval * Ring

VARIABLES
  now,             \* the wall clock
  rows,            \* the journal's: when each was stamped, and its kind
  history,
  heard,           \* when the live loop last folded a reading
  steps, stepped   \* how often the clock was set, and whether since then

vars == <<now, rows, history, heard, steps, stepped>>

Index(at) == at \div PerInterval
Slot(index) == index % Ring

Empty ==
  [latest |-> None, stale |-> None, flow |-> 0, folds |-> <<>>,
   ring |-> [s \in 0 .. Ring - 1 |-> None]]

Buckets(h) == {h.ring[s] : s \in DOMAIN h.ring} \ {None}

TypeOK ==
  /\ now \in 0 .. MaxNow /\ heard \in 0 .. MaxNow /\ steps \in 0 .. MaxSteps /\ stepped \in BOOLEAN
  /\ rows \in Seq([at : Nat, kind : Kinds])
  /\ {history.latest, history.stale} \subseteq Nat \cup {None} /\ history.flow \in 0 .. Len(rows)
  /\ history.folds \in Seq(Nat)
  /\ \A b \in Buckets(history) :
       b.index \in Nat /\ b.samples \subseteq [row : DOMAIN rows, beside : 0 .. Len(rows), fold : Nat]

Init ==
  /\ now = 0 /\ rows = <<>> /\ history = Empty /\ heard = 0 /\ steps = 0 /\ stepped = FALSE

-----------------------------------------------------------------------------
(* intervals.rs                                                              *)

Within(latest, index) == index <= latest /\ index > latest - Ring

Behind(h, index) == h.latest # None /\ index < h.latest /\ ~Within(h.latest, index)

\* Mutant: every reading behind the window is a late row.
NeverConfirmed(h, index) == FALSE
\* The second reading in a row from the same stretch of the past.
Confirmed(h, index) == h.stale # None /\ (Within(h.stale, index) \/ Within(index, h.stale))

\* Mutant: the buckets past the clock's new time are kept.
KeptAll(ring, index) == ring
Kept(ring, index) ==
  [s \in DOMAIN ring |-> IF ring[s] # None /\ Within(index, ring[s].index) THEN ring[s] ELSE None]

\* Mutant: a bucket is reused whatever interval it was.
Reused(bucket, index) == bucket # None
Holds(bucket, index) == bucket # None /\ bucket.index = index

Opened(ring, index) ==
  [ring EXCEPT ![Slot(index)] = IF Holds(@, index) THEN @ ELSE [index |-> index, samples |-> {}]]

\* `bucket_mut`, and the sample added to the bucket there is.
Added(h, index, row) ==
  IF Behind(h, index) /\ ~Confirmed(h, index)
  THEN [h EXCEPT !.stale = index]
  ELSE LET ring == Opened(IF Behind(h, index) THEN Kept(h.ring, index) ELSE h.ring, index)
           sample == [row |-> row, beside |-> h.flow, fold |-> Len(h.folds) + 1]
       IN [h EXCEPT !.latest = IF @ = None \/ Behind(h, index) \/ index > @ THEN index ELSE @,
                    !.stale = None,
                    !.folds = Append(@, index),
                    !.ring = [ring EXCEPT ![Slot(index)].samples = @ \cup {sample}]]

\* `record`, `record_packs`: the world moves even where the reading is dropped.
Record(h, row, r) ==
  Added(IF r.kind = "battery" THEN [h EXCEPT !.flow = row] ELSE h, Index(r.at), row)

Samples(h, index) ==
  IF h.latest # None /\ Within(h.latest, index) /\ Holds(h.ring[Slot(index)], index)
  THEN h.ring[Slot(index)].samples
  ELSE {}

\* The rows read back, by number and in the writer's order.
InRange(kinds) ==
  SelectSeq([i \in DOMAIN rows |-> i],
            LAMBDA i : rows[i].kind \in kinds /\ rows[i].at \in now - Span .. now)

\* Mutant: the captures are folded after the events.
CapturesLast(events, captures) == events \o captures

\* Before each event the captures older than it, up to the first that is not.
Interleaved(events, captures) ==
  LET Older(waiting, at) ==
        {k \in 0 .. Len(waiting) : \A j \in 1 .. k : rows[waiting[j]].at < at}
      Merge(acc, e) ==
        LET k == Max(Older(acc.waiting, rows[e].at))
        IN [order |-> acc.order \o SubSeq(acc.waiting, 1, k) \o <<e>>,
            waiting |-> SubSeq(acc.waiting, k + 1, Len(acc.waiting))]
      all == FoldLeft(Merge, [order |-> <<>>, waiting |-> captures], events)
  IN all.order \o all.waiting

\* `seed_interval_history`
Seeded ==
  FoldLeft(LAMBDA h, i : Record(h, i, rows[i]), Empty,
           Interleaved(InRange({"meter", "battery"}), InRange({"packs"})))

-----------------------------------------------------------------------------

Journals(new) ==
  /\ Len(rows) + Len(new) <= MaxRows
  /\ rows' = rows \o [i \in DOMAIN new |-> [at |-> now, kind |-> new[i]]]

Hears == heard' = now /\ stepped' = FALSE

MeterTick ==
  /\ Journals(<<"meter">>) /\ Hears
  /\ history' = Record(history, Len(rows'), rows'[Len(rows')])
  /\ UNCHANGED <<now, steps>>

\* The capture is written by the sampler, before the loop folds the reading.
PollTick ==
  /\ Journals(<<"packs", "battery">>) /\ Hears
  /\ history' = Record(Record(history, Len(rows'), rows'[Len(rows')]), Len(rows') - 1, rows'[Len(rows') - 1])
  /\ UNCHANGED <<now, steps>>

\* A poll whose answer missed its round is captured and never folded.
MissedPoll ==
  /\ Journals(<<"packs">>)
  /\ UNCHANGED <<now, history, heard, steps, stepped>>

Restarts ==
  /\ history' = Seeded
  /\ UNCHANGED <<now, rows, heard, steps, stepped>>

Passes ==
  /\ now < MaxNow /\ now' = now + 1
  /\ UNCHANGED <<rows, history, heard, steps, stepped>>

\* The wall clock is set.
StepsClock ==
  /\ steps < MaxSteps /\ steps' = steps + 1 /\ stepped' = TRUE
  /\ now' \in {now - Step, now + Step} /\ now' \in 0 .. MaxNow
  /\ UNCHANGED <<rows, history, heard>>

Next == MeterTick \/ PollTick \/ MissedPoll \/ Restarts \/ Passes \/ StepsClock

Spec == Init /\ [][Next]_vars

-----------------------------------------------------------------------------
(* Properties.                                                               *)

\* What a chart of the last day shows of the flows: a home figure beside a
\* battery reading older than the seed reads has no battery in it.
Flows(h, index) ==
  {[row |-> s.row, beside |-> IF s.beside # 0 /\ rows[s.beside].at < now - Span THEN 0 ELSE s.beside] :
     s \in {t \in Samples(h, index) : rows[t.row].kind # "packs"}}

\* A restart changes nothing on the flows chart, whatever captures lie between
\* the events and whatever restarts came before, unless the clock was set.
SeededIsLive ==
  steps = 0 => \A index \in Index(now) - Rolling + 1 .. Index(now) :
                 index >= 0 => Flows(Seeded, index) = Flows(history, index)

\* No bucket holds a reading of another interval, at any lap of the ring.
OwnInterval ==
  \A b \in Buckets(history) : \A s \in b.samples : Index(rows[s.row].at) = b.index

\* However far the clock ran ahead and was put back, only the first reading
\* after it is lost: the next is recorded, unless a whole ring went by without one.
DropsOnce ==
  [][heard' = now /\ rows' # rows /\ history'.stale # None /\ history' # history /\ ~stepped
       => Index(now) - Index(heard) >= Ring]_vars

\* Readings from either side of a step that the ring followed back never meet in
\* one bucket, not even when the time the clock once showed comes.
NoneMixed ==
  \A b \in Buckets(history) : \A s, t \in b.samples :
    \A p \in s.fold .. t.fold : history.folds[p] > b.index - Ring

\* The interval history: what was recorded, in its own interval, over restarts and
\* steps of the clock.
HistoryKept == [](TypeOK /\ SeededIsLive /\ OwnInterval /\ NoneMixed) /\ DropsOnce
=============================================================================
