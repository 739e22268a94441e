--------------------------------- MODULE Mqtt ---------------------------------
(***************************************************************************)
(* Publishing: what the loop and the broker connection hand to a bounded      *)
(* queue without waiting, the task that moves it to rumqttc's channel, the    *)
(* connection that carries that to the broker and announces the discovery     *)
(* documents again after every ConnAck, and the drain at shutdown.            *)
(*                                                                          *)
(* A message is a document, named by its id, or a value, a number.            *)
(***************************************************************************)
EXTENDS Integers, Sequences, FiniteSets, SequencesExt

CONSTANTS
  None,
  Static,        \* documents announced on connect
  Polled,        \* those announced with a reading: packs, charger, car
  QueueDepth, RequestDepth,
  MaxValues, MaxBreaks     \* what is explored

Documents == Static \cup Polled
Callers   == {"connection", "loop"}
Values    == 1 .. MaxValues
Messages  == [document : Documents] \cup [value : Values]

VARIABLES
  queue, holding,      \* ours, and the message the delivery task awaits a slot for
  requests,            \* rumqttc's channel
  unacked, replay,     \* documents sent and not acknowledged; those to send again
  link,                \* "up", "dead" and not noticed, "asleep", "gone" once the connection is dropped
  retained,            \* external: the broker's store
  shown,               \* external: the last value it passed on
  announced,
  todo, accepted,      \* per caller: documents to offer; the one queued and not marked, and since when
  value,               \* the last value the loop made
  phase, aborted,      \* "running", "draining", "drained", "stopped"
  failed, breaks

pipe  == <<queue, holding, requests, unacked, replay>>
calls == <<announced, todo, accepted>>
vars  == <<pipe, link, retained, shown, calls, value, phase, aborted,
           failed, breaks>>

IsDocument(m) == "document" \in DOMAIN m

\* Mutant: values are acknowledged too.
IsAnyMessage(m) == TRUE
\* Documents go at QoS 1 and are retained, values at QoS 0.
AtLeastOnce(m) == IsDocument(m)

DocumentsOf(s) == {m.document : m \in {s[i] : i \in {j \in DOMAIN s : IsDocument(s[j])}}}

PipeType ==
  /\ queue \in Seq(Messages) /\ Len(queue) <= QueueDepth
  /\ holding \in Messages \cup {None}
  /\ requests \in Seq(Messages) /\ Len(requests) <= RequestDepth
  /\ unacked \in Seq(Messages) /\ replay \in Seq(Messages)

CallsType ==
  /\ announced \subseteq Documents
  /\ todo \in [Callers -> SUBSET Documents]
  /\ accepted \in [Callers -> {None} \cup [document : Documents, asleep : BOOLEAN]]

BrokerType ==
  /\ link \in {"up", "dead", "asleep", "gone"}
  /\ retained \subseteq Documents /\ shown \in Values \cup {0}
  /\ value \in Values \cup {0}
  /\ phase \in {"running", "draining", "drained", "stopped"} /\ aborted \in BOOLEAN
  /\ failed \in BOOLEAN /\ breaks \in 0 .. MaxBreaks

TypeOK == PipeType /\ CallsType /\ BrokerType

Init ==
  /\ queue = <<>> /\ holding = None /\ requests = <<>> /\ unacked = <<>> /\ replay = <<>>
  /\ link = "asleep" /\ retained = {} /\ shown = 0
  /\ announced = {} /\ todo = [c \in Callers |-> {}] /\ accepted = [c \in Callers |-> None]
  /\ value = 0 /\ phase = "running" /\ aborted = FALSE
  /\ failed = FALSE /\ breaks = 0

-----------------------------------------------------------------------------
(* publisher.rs                                                              *)

\* `close` has dropped the sender from "draining" on.  Mutant: the bound checked late.
HasOneMore == phase = "running" /\ Len(queue) <= QueueDepth
HasRoom == phase = "running" /\ Len(queue) < QueueDepth

\* Queued, or dropped: the newest goes when it is full, and all when shutting down.
Publish(message) == queue' = IF HasRoom THEN Append(queue, message) ELSE queue

\* `deliver`: one message at a time, waited with until rumqttc has a slot.
Receives ==
  /\ ~aborted /\ holding = None /\ queue # <<>>
  /\ holding' = Head(queue) /\ queue' = Tail(queue)
  /\ UNCHANGED <<requests, unacked, replay, link, retained, shown, calls, value, phase, aborted,
                 failed, breaks>>

HandsOver ==
  /\ ~aborted /\ holding # None
  /\ \/ /\ link # "gone" /\ Len(requests) < RequestDepth
        /\ requests' = Append(requests, holding)
        /\ UNCHANGED failed
     \/ /\ link = "gone"
        /\ failed' = TRUE /\ UNCHANGED requests
  /\ holding' = None
  /\ UNCHANGED <<queue, unacked, replay, link, retained, shown, calls, value, phase, aborted,
                 breaks>>

-----------------------------------------------------------------------------
(* announce.rs, discovery.rs                                                 *)

\* Mutant: marked on the attempt.
MarksOnAttempt(c, d) == accepted' = [accepted EXCEPT ![c] = [document |-> d, asleep |-> link = "asleep"]]

\* Marked on acceptance.
Marks(c, d) ==
  accepted' = [accepted EXCEPT ![c] = IF HasRoom THEN [document |-> d, asleep |-> link = "asleep"] ELSE None]

\* One `announce`: nothing for a document announced already.
Offers(c) ==
  /\ phase # "stopped" /\ accepted[c] = None
  /\ \E d \in todo[c] :
       /\ todo' = [todo EXCEPT ![c] = @ \ {d}]
       /\ IF d \in announced
          THEN UNCHANGED <<queue, accepted>>
          ELSE Publish([document |-> d]) /\ Marks(c, d)
  /\ UNCHANGED <<holding, requests, unacked, replay, link, retained, shown, announced, value, phase,
                 aborted, failed, breaks>>

\* The lock is taken again to mark it.
Inserts(c) ==
  /\ phase # "stopped" /\ accepted[c] # None
  /\ announced' = announced \cup {accepted[c].document}
  /\ accepted' = [accepted EXCEPT ![c] = None]
  /\ UNCHANGED <<pipe, link, retained, shown, todo, value, phase, aborted,
                 failed, breaks>>

Idle(c) == todo[c] = {} /\ accepted[c] = None

\* A reading's values, and the documents that come with them.
Polls ==
  /\ phase = "running" /\ Idle("loop")
  /\ todo' = [todo EXCEPT !["loop"] = Polled]
  /\ IF value < MaxValues
     THEN value' = value + 1 /\ Publish([value |-> value'])
     ELSE UNCHANGED <<value, queue>>
  /\ UNCHANGED <<holding, requests, unacked, replay, link, retained, shown, announced, accepted,
                 phase, aborted, failed, breaks>>

-----------------------------------------------------------------------------
(* connection.rs: every event of the eventloop is followed by an offer of the *)
(* static documents; an error by a sleep of five seconds.                     *)

Polling == phase # "stopped" /\ link # "gone" /\ Idle("connection")

\* Mutant: what was announced is kept.
ResetNone == announced
\* `reset`
Reset == {}

\* ConnAck.  A document whose acceptance an announcement under way is about to
\* mark was queued after the error: the sleep outlasts any before it.
Connects ==
  /\ Polling /\ link = "asleep"
  /\ accepted["loop"] # None => accepted["loop"].asleep
  /\ link' = "up" /\ announced' = Reset
  /\ accepted' = [c \in Callers |-> IF accepted[c] = None THEN None ELSE [accepted[c] EXCEPT !.asleep = FALSE]]
  /\ replay' = replay \o unacked /\ unacked' = <<>>
  /\ todo' = [todo EXCEPT !["connection"] = Static]
  /\ UNCHANGED <<queue, holding, requests, retained, shown, value, phase, aborted,
                 failed, breaks>>

\* The next message onto the socket; what was not acknowledged before a
\* reconnect goes first.
Sends ==
  /\ Polling /\ link \in {"up", "dead"} /\ replay \o requests # <<>>
  /\ LET m == Head(replay \o requests) IN
       /\ unacked' = IF AtLeastOnce(m) THEN Append(unacked, m) ELSE unacked
       /\ retained' = IF link = "up" /\ IsDocument(m) THEN retained \cup {m.document} ELSE retained
       /\ shown' = IF link = "up" /\ ~IsDocument(m) THEN m.value ELSE shown
  /\ IF replay # <<>> THEN replay' = Tail(replay) /\ UNCHANGED requests
                      ELSE requests' = Tail(requests) /\ UNCHANGED replay
  /\ todo' = [todo EXCEPT !["connection"] = Static]
  /\ UNCHANGED <<queue, holding, link, announced, accepted, value, phase, aborted,
                 failed, breaks>>

\* An acknowledgement, or a ping's answer.
Hears ==
  /\ Polling /\ link = "up"
  /\ unacked' = IF unacked = <<>> THEN <<>> ELSE Tail(unacked)
  /\ todo' = [todo EXCEPT !["connection"] = Static]
  /\ UNCHANGED <<queue, holding, requests, replay, link, retained, shown, announced, accepted, value,
                 phase, aborted, failed, breaks>>

Fails ==
  /\ Polling /\ link = "dead"
  /\ link' = "asleep"
  /\ UNCHANGED <<pipe, retained, shown, calls, value, phase, aborted,
                 failed, breaks>>

\* External: the connection is lost, the store with it when the broker restarts.
Breaks ==
  /\ link = "up" /\ breaks < MaxBreaks
  /\ link' = "dead" /\ breaks' = breaks + 1
  /\ retained' \in {retained, {}}
  /\ UNCHANGED <<pipe, shown, calls, value, phase, aborted, failed>>

-----------------------------------------------------------------------------
(* run.rs, shut_down: the publisher drains while the connection still runs.   *)

Closes ==
  /\ phase = "running" /\ Idle("loop")
  /\ phase' = "draining"
  /\ UNCHANGED <<pipe, link, retained, shown, calls, value, aborted,
                 failed, breaks>>

\* Mutant: a drain without a deadline.
DeadlineNever == FALSE
Deadline == TRUE

\* The task ends once the queue is empty, or is aborted at the deadline.
Drained ==
  /\ phase = "draining"
  /\ \/ queue = <<>> /\ holding = None /\ UNCHANGED aborted
     \/ Deadline /\ aborted' = TRUE
  /\ phase' = "drained"
  /\ UNCHANGED <<pipe, link, retained, shown, calls, value, failed, breaks>>

\* Mutant: the connection is stopped before the drain.
StopsAfter == {"draining", "drained"}
StopsIn == {"drained"}

\* `sources.shutdown`
Stops ==
  /\ phase \in StopsIn
  /\ link' = "gone"
  /\ phase' = IF phase = "drained" THEN "stopped" ELSE phase
  /\ UNCHANGED <<pipe, retained, shown, calls, value, aborted, failed, breaks>>

-----------------------------------------------------------------------------

Next ==
  \/ Receives \/ HandsOver
  \/ \E c \in Callers : Offers(c) \/ Inserts(c)
  \/ Polls
  \/ Connects \/ Sends \/ Hears \/ Fails \/ Breaks
  \/ Closes \/ Drained \/ Stops

Spec == Init /\ [][Next]_vars

\* Tasks of a runtime that keeps running, whose eventloop gets to what waits on
\* the socket; nothing brings the broker back.
LiveSpec ==
  /\ Spec
  /\ WF_vars(Receives) /\ WF_vars(HandsOver)
  /\ \A c \in Callers : WF_vars(Offers(c)) /\ WF_vars(Inserts(c))
  /\ WF_vars(Polls)
  /\ SF_vars(Sends) /\ SF_vars(Hears) /\ SF_vars(Fails)
  /\ WF_vars(Drained) /\ WF_vars(Stops)

-----------------------------------------------------------------------------
(* Properties.                                                               *)

Held == IF holding = None THEN <<>> ELSE <<holding>>
Line == (requests \o Held) \o queue
Pipeline == replay \o Line

\* announce.rs: a document marked as announced is in the broker's store or on
\* its way there, a reset between an acceptance and its mark, a lost store and
\* lost acknowledgements included.
AnnouncedIsPromised ==
  link = "up" => announced \subseteq retained \cup DocumentsOf(Pipeline)

\* Home Assistant never sees a value older than one it was shown, whatever was
\* dropped in between.
ShownInOrder ==
  \A i \in DOMAIN Pipeline : ~IsDocument(Pipeline[i]) =>
    /\ shown < Pipeline[i].value
    /\ \A j \in 1 .. i - 1 : ~IsDocument(Pipeline[j]) => Pipeline[j].value < Pipeline[i].value

\* A drain that was not aborted has handed everything to the connection, which refused
\* none of it for having been stopped too early. It is a hand-off, not delivery: what
\* the connection still holds when it is dropped can be lost.
DrainedWhole ==
  phase = "stopped" /\ ~aborted => queue = <<>> /\ holding = None /\ ~failed

\* Told to stop, the publisher and the connection end with no broker there.
StopEnds == phase = "draining" ~> phase = "stopped"

\* While the process runs and the broker keeps coming back, every document is in
\* the store again, whatever was lost and refused on the way there.
DocumentsArrive ==
  []<>(link = "up") => []<>(phase # "running" \/ Documents \subseteq retained)

\* What the broker is shown: nothing announced that is not promised, no value after
\* a newer one; and a drain hands over all there is.
BrokerShown == TypeOK /\ AnnouncedIsPromised /\ ShownInOrder /\ DrainedWhole

\* What the publisher must get to: its end, and every document in the store.
BrokerServed == StopEnds /\ DocumentsArrive
=============================================================================
