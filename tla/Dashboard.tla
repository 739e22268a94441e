------------------------------ MODULE Dashboard --------------------------------
(***************************************************************************)
(* The dashboard's state, which the loop and the pollers write and every open  *)
(* page follows: the decision log, collapsed into runs and read back from the  *)
(* journal at a start, and the stream that sends a page what changed.           *)
(*                                                                          *)
(* A decision is its number and its command; what else it carries moves with   *)
(* every one.                                                                *)
(***************************************************************************)
EXTENDS Integers, Sequences, FiniteSets, SequencesExt, FiniteSetsExt

CONSTANTS
  None,
  LogCapacity,                        \* DECISION_LOG_CAPACITY
  Commands, Pages,
  MaxDecisions, MaxFetches            \* what is explored

VARIABLES
  recorded, lost,      \* the journal's decisions, and whether it dropped one
  running,
  log, lastDecision,   \* recent_decisions, last_decision
  prices,              \* which of the price poller's snapshots it holds
  folded,              \* how many decisions the log was given
  page                 \* each page's stream: None, or what it was sent

vars == <<recorded, lost, running, log, lastDecision, prices, folded, page>>

Fragments == {"log", "battery", "prices"}
IsDecision(d) == d.number \in 1 .. MaxDecisions /\ d.command \in Commands

TypeOK ==
  /\ \A i \in DOMAIN recorded : IsDecision(recorded[i])
  /\ lost \in BOOLEAN /\ running \in BOOLEAN
  /\ Len(log) <= LogCapacity
  /\ \A i \in DOMAIN log : IsDecision(log[i].decision) /\ log[i].repeats \in Nat \ {0}
                           /\ log[i].first \in 1 .. log[i].decision.number
  /\ lastDecision \in {None} \/ IsDecision(lastDecision)
  /\ prices \in 0 .. MaxFetches /\ folded \in 0 .. MaxDecisions
  /\ \A p \in Pages : page[p] = None \/ (page[p].behind \in BOOLEAN /\ DOMAIN page[p].sent \subseteq Fragments)

Init ==
  /\ recorded = <<>> /\ lost = FALSE /\ running = TRUE
  /\ log = <<>> /\ lastDecision = None /\ prices = 0 /\ folded = 0
  /\ page = [p \in Pages |-> None]

-----------------------------------------------------------------------------

\* Mutant: the whole decision is compared, and no two are alike.
RunsOnAlike(entry, d) == entry.decision = d
RunsOn(entry, d) == entry.decision.command = d.command

\* `record_decision`
Logged(entries, d) ==
  IF entries # <<>> /\ RunsOn(Last(entries), d)
  THEN [entries EXCEPT ![Len(entries)] = [first |-> @.first, repeats |-> @.repeats + 1, decision |-> d]]
  ELSE LET kept == IF Len(entries) = LogCapacity THEN Tail(entries) ELSE entries
       IN Append(kept, [first |-> d.number, repeats |-> 1, decision |-> d])

\* Mutant: the oldest decisions on record.
OldestOnRecord == SubSeq(recorded, 1, Min({LogCapacity, Len(recorded)}))
\* `read_recent_decisions`: as many decisions as the log has rows, oldest first.
Recent == SubSeq(recorded, Max({1, Len(recorded) - LogCapacity + 1}), Len(recorded))

\* `seed`
Seeded == FoldLeft(Logged, <<>>, Recent)

\* What a page shows of the state.
Rendered == [log |-> log, battery |-> lastDecision, prices |-> prices]

\* `send_modify`: every stream has a state to come for.
Notifies == page' = [p \in Pages |-> IF page[p] = None THEN None ELSE [page[p] EXCEPT !.behind = TRUE]]

\* Mutant: a fragment is sent once.
ChangedOnce(sent) == Fragments \ DOMAIN sent
\* `SentFragments::changed`
Changed(sent) == {f \in Fragments : f \notin DOMAIN sent \/ sent[f] # Rendered[f]}

-----------------------------------------------------------------------------

\* A decision, journalled before the dashboard hears of it.
Decides ==
  /\ running
  /\ LET number == folded + 1
     IN /\ number <= MaxDecisions
        /\ \E c \in Commands :
             LET d == [number |-> number, command |-> c]
             IN /\ \/ recorded' = Append(recorded, d) /\ UNCHANGED lost
                   \/ lost' = TRUE /\ UNCHANGED recorded
                /\ log' = Logged(log, d) /\ lastDecision' = d
        /\ folded' = number
  /\ Notifies
  /\ UNCHANGED <<running, prices>>

\* A tick that decides nothing refreshes the figures of the last.
Ticks ==
  /\ running
  /\ Notifies
  /\ UNCHANGED <<recorded, lost, running, log, lastDecision, prices, folded>>

\* `prices_tick`
Fetches ==
  /\ running /\ prices < MaxFetches
  /\ prices' = prices + 1
  /\ Notifies
  /\ UNCHANGED <<recorded, lost, running, log, lastDecision, folded>>

\* A page opens its stream, again after an error; the server sends it all.
Opens(p) ==
  /\ running /\ page[p] = None
  /\ page' = [page EXCEPT ![p] = [behind |-> TRUE, sent |-> <<>>]]
  /\ UNCHANGED <<recorded, lost, running, log, lastDecision, prices, folded>>

\* The stream takes the newest state, however many came since the last.
Streams(p) ==
  /\ page[p] # None /\ page[p].behind
  /\ page' = [page EXCEPT ![p] =
       [behind |-> FALSE,
        sent |-> [f \in DOMAIN @.sent \cup Changed(@.sent) |->
                    IF f \in Changed(@.sent) THEN Rendered[f] ELSE @.sent[f]]]]
  /\ UNCHANGED <<recorded, lost, running, log, lastDecision, prices, folded>>

Drops(p) ==
  /\ page[p] # None
  /\ page' = [page EXCEPT ![p] = None]
  /\ UNCHANGED <<recorded, lost, running, log, lastDecision, prices, folded>>

Stops ==
  /\ running
  /\ running' = FALSE /\ page' = [p \in Pages |-> None]
  /\ UNCHANGED <<recorded, lost, log, lastDecision, prices, folded>>

Starts ==
  /\ ~running
  /\ running' = TRUE /\ log' = Seeded /\ lastDecision' = None /\ prices' = 0
  /\ UNCHANGED <<recorded, lost, folded, page>>

Next ==
  \/ Decides \/ Ticks \/ Fetches \/ Stops \/ Starts
  \/ \E p \in Pages : Opens(p) \/ Streams(p) \/ Drops(p)

Spec == Init /\ [][Next]_vars

-----------------------------------------------------------------------------
(* Properties.                                                               *)

\* A run of one command is one row, however the log came by its decisions: two
\* neighbouring rows differ, and each holds all the decisions of its span.
RunsAreRows ==
  /\ \A i \in DOMAIN log : i > 1 => log[i].decision.command # log[i - 1].decision.command
  /\ ~lost => \A i \in DOMAIN log : log[i].repeats = log[i].decision.number - log[i].first + 1

\* A restart takes no row away but the oldest: the log read back is the end of the
\* log that was shown, its first row cut short at most.
SeedIsSuffix ==
  ~lost =>
    LET back == Len(log) - Len(Seeded)
    IN /\ back >= 0 /\ (log # <<>> => Seeded # <<>>)
       /\ \A i \in DOMAIN Seeded : Seeded[i].decision = log[back + i].decision
       /\ \A i \in 2 .. Len(Seeded) : Seeded[i] = log[back + i]

\* A page that has taken the newest state shows it, whatever it was sent before and
\* however many states it missed.
PageShowsState ==
  \A p \in Pages : page[p] # None /\ ~page[p].behind => page[p].sent = Rendered

\* The decision log and the pages that show it.
LogKept == TypeOK /\ RunsAreRows /\ SeedIsSuffix /\ PageShowsState
=============================================================================
