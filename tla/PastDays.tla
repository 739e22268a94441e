------------------------------- MODULE PastDays --------------------------------
(***************************************************************************)
(* The flows chart of a past day: read from the journal, which is written      *)
(* behind the live loop and pruned once a day, on a thread of its own per       *)
(* request, and kept in a small cache the requests share.                      *)
(*                                                                          *)
(* A row is the time it is stamped with; a view is the rows it was drawn over   *)
(* and the days its navigation was drawn against.                              *)
(***************************************************************************)
EXTENDS Integers, Sequences, FiniteSets, SequencesExt, FiniteSetsExt

CONSTANTS
  None,
  DayLength, Settle, Retention, Capacity,   \* SETTLE, retention_days, CACHED_DAYS
  Requests,                                 \* the requests that may be under way at once
  MaxNow, MaxFailures                       \* what is explored

VARIABLES
  now,
  queued, rows,       \* what the live loop has sent to the journal, what is in it
  cache,              \* renderedFor and the entries, most recently used last
  request,            \* where each request stands
  failures

vars == <<now, queued, rows, cache, request, failures>>

LocalDate(at) == at \div DayLength
End(day) == (day + 1) * DayLength
RowsOf(day, in) == {at \in in : LocalDate(at) = day}

Contexts == [today : Nat, earliest : Nat \cup {None}]
Views    == [day : Nat, rows : SUBSET Nat, context : Contexts]

\* A request in hand, by how far it has come.
Idling   == [at : {"idle"}]
Asked    == [at : {"asked"}, day : Nat, now : Nat]
Looked   == [at : {"looked"}, day : Nat, now : Nat, context : Contexts \cup {None}]
Read     == [at : {"read"}, view : Views]
Answered == [at : {"answered"}, view : Views, context : Contexts, has : SUBSET Nat]

\* The shared cache, a day in it once at most.
CacheType ==
  /\ cache \in [renderedFor : Contexts \cup {None}, entries : Seq(Views)]
  /\ Len(cache.entries) <= Capacity
  /\ \A i, j \in DOMAIN cache.entries : cache.entries[i].day = cache.entries[j].day => i = j

TypeOK ==
  /\ now \in 0 .. MaxNow /\ queued \subseteq 0 .. now /\ rows \subseteq 0 .. now
  /\ CacheType
  /\ request \in [Requests -> Idling \cup Asked \cup Looked \cup Read \cup Answered]
  /\ failures \in 0 .. MaxFailures

Idle == [at |-> "idle"]

Init ==
  /\ now = 0 /\ queued = {} /\ rows = {}
  /\ cache = [renderedFor |-> None, entries |-> <<>>]
  /\ request = [r \in Requests |-> Idle] /\ failures = 0

-----------------------------------------------------------------------------
(* `DayCache`                                                                *)

Emptied(context) == [renderedFor |-> context, entries |-> <<>>]

\* Mutant: the entries outlive the days they were rendered against.
Stays(context) == [cache EXCEPT !.renderedFor = context]
\* What is left of it for `context`.
For(context) == IF cache.renderedFor # context THEN Emptied(context) ELSE cache

Position(entries, day) == SelectInSeq(entries, LAMBDA e : e.day = day)
Others(entries, day)   == RemoveFirstMatch(entries, LAMBDA e : e.day = day)

\* `get`: what it finds is the most recently used.
Used(c, day) == [c EXCEPT !.entries = Append(Others(@, day), @[Position(@, day)])]

\* Mutant: nothing is evicted.
KeptForever(c, view) == [c EXCEPT !.entries = Append(Others(@, view.day), view)]
\* `insert`: the least recently used goes.
Kept(c, view) ==
  [c EXCEPT !.entries =
     LET all == Append(Others(@, view.day), view)
     IN SubSeq(all, IF Len(all) > Capacity THEN 2 ELSE 1, Len(all))]

\* Mutant: a day is cached from its midnight on.
SettledAtOnce(day, at) == End(day) <= at
Settled(day, at) == End(day) + Settle <= at

-----------------------------------------------------------------------------
(* `PastDays::view`, one request per thread.                                 *)

Moves(r, to) == request' = [request EXCEPT ![r] = to]

\* A request for a day before the dashboard's today.
Asks(r) ==
  /\ request[r].at = "idle"
  /\ \E day \in 0 .. LocalDate(now) - 1 : Moves(r, [at |-> "asked", day |-> day, now |-> now])
  /\ UNCHANGED <<now, queued, rows, cache, failures>>

Oldest == IF rows = {} THEN None ELSE LocalDate(Min(rows))

\* The oldest day, and the cache if it is known.
Looks(r) ==
  /\ request[r].at = "asked"
  /\ LET context == [today |-> LocalDate(request[r].now), earliest |-> Oldest]
         at == Position(For(context).entries, request[r].day)
         hit == For(context).entries[at]
     IN IF at # 0
        THEN /\ cache' = Used(For(context), request[r].day)
             /\ Moves(r, [at |-> "answered", view |-> hit, context |-> context, has |-> RowsOf(hit.day, rows)])
        ELSE /\ cache' = For(context)
             /\ Moves(r, [at |-> "looked", day |-> request[r].day, now |-> request[r].now, context |-> context])
  /\ UNCHANGED <<now, queued, rows, failures>>

\* The journal cannot be read for the oldest day: nothing is looked up or kept.
LooksBlind(r) ==
  /\ request[r].at = "asked" /\ failures < MaxFailures
  /\ failures' = failures + 1
  /\ Moves(r, [at |-> "looked", day |-> request[r].day, now |-> request[r].now, context |-> None])
  /\ UNCHANGED <<now, queued, rows, cache>>

\* `history_of_day`
Reads(r) ==
  /\ request[r].at = "looked"
  /\ LET known == request[r].context
         context == IF known # None THEN known
                    ELSE [today |-> LocalDate(request[r].now), earliest |-> request[r].day]
         view == [day |-> request[r].day, rows |-> RowsOf(request[r].day, rows), context |-> context]
     IN IF known # None /\ Settled(request[r].day, request[r].now)
        THEN Moves(r, [at |-> "read", view |-> view])
        ELSE Moves(r, [at |-> "answered", view |-> view, context |-> context, has |-> view.rows])
  /\ UNCHANGED <<now, queued, rows, cache, failures>>

\* Shown as unreadable, and not kept.
CannotRead(r) ==
  /\ request[r].at = "looked" /\ failures < MaxFailures
  /\ failures' = failures + 1
  /\ Moves(r, Idle)
  /\ UNCHANGED <<now, queued, rows, cache>>

Keeps(r) ==
  /\ request[r].at = "read"
  /\ LET view == request[r].view
     IN /\ cache' = Kept(For(view.context), view)
        /\ Moves(r, [at |-> "answered", view |-> view, context |-> view.context, has |-> view.rows])
  /\ UNCHANGED <<now, queued, rows, failures>>

Answers(r) ==
  /\ request[r].at = "answered"
  /\ Moves(r, Idle)
  /\ UNCHANGED <<now, queued, rows, cache, failures>>

-----------------------------------------------------------------------------
(* The live loop, the journal's writer and the clock.                        *)

Records ==
  /\ now \notin queued \cup rows
  /\ queued' = queued \cup {now}
  /\ UNCHANGED <<now, rows, cache, request, failures>>

\* In order; once a day a write prunes first.
Writes ==
  /\ queued # {}
  /\ LET at == Min(queued)
         daily == rows # {} /\ LocalDate(at) # LocalDate(Max(rows))
     IN /\ queued' = queued \ {at}
        /\ rows' = {at} \cup IF daily THEN {x \in rows : x >= at - Retention} ELSE rows
  /\ UNCHANGED <<now, cache, request, failures>>

\* The writer is less than Settle behind.
Passes ==
  /\ now < MaxNow /\ \A at \in queued : now - at < Settle
  /\ now' = now + 1
  /\ UNCHANGED <<queued, rows, cache, request, failures>>

Next ==
  \/ \E r \in Requests :
       Asks(r) \/ Looks(r) \/ LooksBlind(r) \/ Reads(r) \/ CannotRead(r) \/ Keeps(r) \/ Answers(r)
  \/ Records \/ Writes \/ Passes

Spec == Init /\ [][Next]_vars

-----------------------------------------------------------------------------
(* Properties.                                                               *)

\* A day is never answered from the cache without a row the journal has of it:
\* whatever was written late, and whichever request drew it when.
NothingMissing ==
  \A r \in Requests : request[r].at = "answered" => request[r].has \subseteq request[r].view.rows

\* The day labels and step links of an answer are those of the today and the
\* oldest day its own request found, never of the request that drew it before
\* midnight or a prune.
LinksAreCurrent ==
  \A r \in Requests : request[r].at = "answered" => request[r].view.context = request[r].context

\* An answer out of the cache is one the journal would give now.
CacheFresh == TypeOK /\ NothingMissing /\ LinksAreCurrent
=============================================================================
