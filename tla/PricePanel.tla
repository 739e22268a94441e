------------------------------ MODULE PricePanel -------------------------------
(***************************************************************************)
(* What the price panel makes of one day's prices: the tier of each hour and   *)
(* the cheapest and priciest blocks, which look ahead while the day is today.   *)
(* Hours go by and a fetch revises or fills in an hour as the day is watched.   *)
(***************************************************************************)
EXTENDS Integers, Sequences, FiniteSets, SequencesExt

CONSTANTS
  None,
  BlockSlots,          \* BLOCK_SLOTS
  Levels, DayHours     \* the prices, and the lengths of day, that are explored

VARIABLES
  hours,               \* the shown day's prices, None for an hour not priced
  current              \* the slot it is now; None on any other day

vars == <<hours, current>>

Priced == {i \in DOMAIN hours : hours[i] # None}

TypeOK ==
  /\ hours \in Seq(Levels \cup {None}) /\ Len(hours) \in DayHours
  /\ current \in {None} \cup DOMAIN hours

Init ==
  /\ \E n \in DayHours : hours \in [1 .. n -> Levels \cup {None}]
  /\ current \in {None, 1}

-----------------------------------------------------------------------------
(* tiers.rs                                                                  *)

Sorted == SortSeq(SelectSeq(hours, LAMBDA p : p # None), LAMBDA a, b : a < b)

\* At the one-third and two-thirds ranks of the priced hours.
Thresholds ==
  LET n == Len(Sorted) IN [lo |-> Sorted[n \div 3 + 1], hi |-> Sorted[(2 * n) \div 3 + 1]]

\* Mutant: a price at the threshold is cheap, as one at `hi` is expensive.
TierClosed(price, t) ==
  IF price <= t.lo \/ price < 0 THEN "cheap" ELSE IF price >= t.hi /\ t.lo < t.hi THEN "expensive" ELSE "normal"
\* `Tier::of`
Tier(price, t) ==
  IF price < t.lo \/ price < 0 THEN "cheap" ELSE IF price >= t.hi /\ t.lo < t.hi THEN "expensive" ELSE "normal"

\* The blocks with every hour priced, and what they cost together.
Blocks(from) ==
  {start \in from .. Len(hours) - BlockSlots + 1 : start .. start + BlockSlots - 1 \subseteq Priced}

Cost(start) ==
  FoldLeft(LAMBDA sum, i : sum + hours[start + i - 1], 0, [i \in 1 .. BlockSlots |-> i])

\* `best_block`: on the way through the day, each block that beats the best so far.
Best(from, Better(_, _)) ==
  FoldLeft(LAMBDA best, start : IF start \notin Blocks(from) THEN best
                                ELSE IF best = None \/ Better(Cost(start), Cost(best)) THEN start ELSE best,
           None, [i \in 1 .. Len(hours) |-> i])

\* Mutant: a block no worse than the best takes its place.
CheapestLast(from) == Best(from, LAMBDA a, b : a <= b)
Cheapest(from) == Best(from, LAMBDA a, b : a < b)
Priciest(from) == Best(from, LAMBDA a, b : a > b)

\* Mutant: the blocks ahead leave out the one that starts now.
AheadNext == IF current = None THEN 1 ELSE current + 1
\* `windows`: from the hour it is now.
Ahead == IF current = None THEN 1 ELSE current

Windows == [cheapest |-> Cheapest(Ahead), priciest |-> Priciest(Ahead)]

-----------------------------------------------------------------------------

HourPasses ==
  /\ current # None /\ current < Len(hours)
  /\ current' = current + 1
  /\ UNCHANGED hours

\* A fetch prices an hour, or gives it another price.
Refetched ==
  /\ \E i \in DOMAIN hours, p \in Levels : hours' = [hours EXCEPT ![i] = p]
  /\ UNCHANGED current

\* The nav steps to another day.
Steps ==
  /\ current' \in {None, 1} /\ current' # current
  /\ UNCHANGED hours

Next == HourPasses \/ Refetched \/ Steps

Spec == Init /\ [][Next]_vars

-----------------------------------------------------------------------------
(* Properties.                                                               *)

\* Whatever the prices repeat and however many hours have one, at most a third of
\* them read cheap that are not paid for, at least a third read expensive where the
\* dearest third stands out, and no hour reads as a dearer tier than a dearer hour.
TiersSplit ==
  Priced # {} =>
    LET tier(i) == Tier(hours[i], Thresholds)
        In(name) == Cardinality({i \in Priced : tier(i) = name})
        rank == [cheap |-> 0, normal |-> 1, expensive |-> 2]
    IN /\ 3 * Cardinality({i \in Priced : tier(i) = "cheap" /\ hours[i] >= 0}) <= Cardinality(Priced)
       /\ In("expensive") # 0 => 3 * In("expensive") >= Cardinality(Priced)
       /\ \A i, j \in Priced : hours[i] < hours[j] => rank[tier(i)] <= rank[tier(j)]

\* The windows shown are the best of those that are whole and still ahead, and the
\* first of equals.
WindowsAhead ==
  LET w == Windows IN
    IF Blocks(Ahead) = {} THEN w.cheapest = None /\ w.priciest = None
    ELSE /\ {w.cheapest, w.priciest} \subseteq Blocks(Ahead)
         /\ \A b \in Blocks(Ahead) :
              /\ Cost(w.cheapest) <= Cost(b) /\ (Cost(w.cheapest) = Cost(b) => w.cheapest <= b)
              /\ Cost(w.priciest) >= Cost(b) /\ (Cost(w.priciest) = Cost(b) => w.priciest <= b)

\* As the hours go by, the window shown stays until the hour it starts in is over.
WindowsStay ==
  [][hours' = hours /\ current # None /\ current' = current + 1 /\ Windows.cheapest # None
       => Windows'.cheapest = Windows.cheapest \/ Windows.cheapest = current]_vars

\* What the price panel says of the hours it shows.
PanelRight == TypeOK /\ TiersSplit /\ WindowsAhead
=============================================================================
