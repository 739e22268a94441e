------------------------------ MODULE CarBattery ------------------------------
(***************************************************************************)
(* The car's state of charge: the poller, and the portal client it asks, whose *)
(* session the portal ends when it likes and whose data request the portal     *)
(* may replace.                                                              *)
(*                                                                          *)
(* A snapshot is a number, in the order the portal made them.  A poll is a     *)
(* row of authenticated GETs; `leg` is where the present one stands.          *)
(***************************************************************************)
EXTENDS Integers, FiniteSets, FiniteSetsExt

CONSTANTS
  None,
  Identifiers,               \* of the data requests the portal may assign
  MaxSnapshots, MaxReassigned, MaxExpired, MaxFailed    \* what is explored

Calls    == {"idle", "metadata", "list", "metadata_again", "list_again", "download"}
Legs     == {"login", "get", "login_again", "get_again"}
Landings == {"rejected", "terms", "signin", "elsewhere", "portal"}

VARIABLES
  call, leg,                 \* the GET under way
  terms,                     \* how often this login accepted the terms
  loggedIn, identifier,      \* the client's
  latest,                    \* the snapshot chosen from the listing
  shown,                     \* the one on the dashboard and in Home Assistant
  result,                    \* of the last poll
  gets, logins,              \* of this poll
  newestAtStart,             \* what the portal had when it began
  session, assigned, delivered, snapshots,     \* external: the portal's
  reassigned, expired, failed

counts == <<gets, logins>>
portal == <<session, assigned, delivered, snapshots, reassigned, expired>>
vars   == <<call, leg, terms, loggedIn, identifier, latest, shown, result, counts, newestAtStart,
            portal, failed>>

Snapshots == [n : 1 .. MaxSnapshots, content : BOOLEAN]

\* Mutant: a snapshot the portal had no data for counts.
AnyOf(entries) == {e.n : e \in entries}
Usable(entries) == {e.n : e \in {f \in entries : f.content}}
Newest(ns) == IF ns = {} THEN 0 ELSE Max(ns)

TypeOK ==
  /\ call \in Calls /\ leg \in Legs /\ terms \in Nat
  /\ {loggedIn, session} \subseteq BOOLEAN
  /\ identifier \in Identifiers \cup {None} /\ assigned \in Identifiers
  /\ delivered \subseteq Snapshots
  /\ {latest, shown, newestAtStart, snapshots} \subseteq 0 .. MaxSnapshots
  /\ call = "download" => identifier # None /\ latest # 0
  /\ call # "idle" => (leg \in {"get", "get_again"} <=> loggedIn)
  /\ result \in {"none", "reading", "failed"}
  /\ {gets, logins} \subseteq Nat
  /\ reassigned \in 0 .. MaxReassigned /\ expired \in 0 .. MaxExpired /\ failed \in 0 .. MaxFailed

Init ==
  /\ call = "idle" /\ leg = "login" /\ terms = 0 /\ loggedIn = FALSE /\ identifier = None
  /\ latest = 0 /\ shown = 0 /\ result = "none"
  /\ gets = 0 /\ logins = 0 /\ newestAtStart = 0
  /\ session = FALSE /\ assigned \in Identifiers /\ delivered = {} /\ snapshots = 0
  /\ reassigned = 0 /\ expired = 0 /\ failed = 0

-----------------------------------------------------------------------------
(* vw_portal.rs                                                              *)

\* The next authenticated GET, with a login before it when there is no session.
Calling(c) ==
  /\ call' = c /\ leg' = IF loggedIn THEN "get" ELSE "login"
  /\ terms' = 0

\* A failed poll leaves the reading that is shown.
Fails ==
  /\ call' = "idle" /\ result' = "failed"
  /\ UNCHANGED <<leg, terms, latest, shown>>

Polls ==
  /\ call = "idle"
  /\ Calling(IF identifier = None THEN "metadata" ELSE "list")
  /\ gets' = 0 /\ logins' = 0 /\ latest' = 0 /\ result' = "none"
  /\ newestAtStart' = Newest({e.n : e \in {f \in delivered : f.content}})
  /\ UNCHANGED <<loggedIn, identifier, shown, portal, failed>>

\* Mutant: the terms are accepted as often as they are shown.
AcceptsAgain == TRUE
\* `after_terms`
Accepts == terms = 0

\* `do_login`, `finish_login`: only a landing on the portal is a session.
LogsIn ==
  /\ call # "idle" /\ leg \in {"login", "login_again"}
  /\ \E landing \in Landings :
       \/ /\ landing = "portal"
          /\ loggedIn' = TRUE /\ session' = TRUE /\ logins' = logins + 1
          /\ leg' = IF leg = "login" THEN "get" ELSE "get_again"
          /\ UNCHANGED <<call, terms, latest, shown, result, failed>>
       \/ /\ landing = "terms" /\ Accepts
          /\ terms' = terms + 1
          /\ UNCHANGED <<call, leg, loggedIn, session, logins, latest, shown, result, failed>>
       \/ /\ landing # "portal" /\ ~(landing = "terms" /\ Accepts)
          /\ failed < MaxFailed /\ failed' = failed + 1
          /\ Fails
          /\ UNCHANGED <<loggedIn, session, logins>>
  /\ UNCHANGED <<identifier, gets, newestAtStart, assigned, delivered, snapshots, reassigned, expired>>

\* 401, 403: `get_authenticated` logs in again once.
Refused ==
  /\ call # "idle" /\ leg \in {"get", "get_again"} /\ ~session
  /\ gets' = gets + 1
  /\ IF leg = "get"
     THEN /\ loggedIn' = FALSE /\ leg' = "login_again" /\ terms' = 0
          /\ UNCHANGED <<call, latest, shown, result>>
     ELSE Fails /\ UNCHANGED loggedIn
  /\ UNCHANGED <<identifier, logins, newestAtStart, portal, failed>>

Answered(c) == call = c /\ leg \in {"get", "get_again"} /\ session /\ gets' = gets + 1

Metadata ==
  /\ Answered("metadata")
  /\ identifier' = assigned
  /\ Calling("list")
  /\ UNCHANGED <<loggedIn, latest, shown, result, logins, newestAtStart, portal, failed>>

\* An old request's listing is empty, or not found.
Listing == IF identifier = assigned THEN delivered ELSE {}

Chooses(entries) ==
  IF Usable(entries) = {}
  THEN Fails
  ELSE latest' = Max(Usable(entries)) /\ Calling("download") /\ UNCHANGED <<shown, result>>

\* Mutant: nothing listed is nothing delivered yet.
NeverStale == FALSE
\* An empty listing may be an old request's.
MaybeStale == Listing = {}

List ==
  /\ Answered("list")
  /\ IF MaybeStale
     THEN Calling("metadata_again") /\ UNCHANGED <<latest, shown, result>>
     ELSE Chooses(Listing)
  /\ UNCHANGED <<loggedIn, identifier, logins, newestAtStart, portal, failed>>

MetadataAgain ==
  /\ Answered("metadata_again")
  /\ IF assigned # identifier
     THEN identifier' = assigned /\ Calling("list_again") /\ UNCHANGED <<latest, shown, result>>
     ELSE Fails /\ UNCHANGED identifier
  /\ UNCHANGED <<loggedIn, logins, newestAtStart, portal, failed>>

ListAgain ==
  /\ Answered("list_again")
  /\ Chooses(Listing)
  /\ UNCHANGED <<loggedIn, identifier, logins, newestAtStart, portal, failed>>

\* The snapshot's figure is shown; one of an old request may be gone.
Downloads ==
  /\ Answered("download")
  /\ \/ /\ shown' = latest /\ result' = "reading"
        /\ call' = "idle" /\ UNCHANGED <<leg, terms, latest>>
     \/ identifier # assigned /\ Fails
  /\ UNCHANGED <<loggedIn, identifier, logins, newestAtStart, portal, failed>>

\* A request that fails, or an answer this build cannot read.
Breaks ==
  /\ call # "idle" /\ failed < MaxFailed
  /\ failed' = failed + 1
  /\ Fails
  /\ UNCHANGED <<loggedIn, identifier, counts, newestAtStart, portal>>

-----------------------------------------------------------------------------
(* External: the portal.                                                     *)

Delivers ==
  /\ snapshots < MaxSnapshots
  /\ snapshots' = snapshots + 1
  /\ \E content \in BOOLEAN : delivered' = delivered \cup {[n |-> snapshots', content |-> content]}
  /\ UNCHANGED <<call, leg, terms, loggedIn, identifier, latest, shown, result, counts, newestAtStart,
                 session, assigned, reassigned, expired, failed>>

Reassigns ==
  /\ reassigned < MaxReassigned
  /\ reassigned' = reassigned + 1
  /\ assigned' \in Identifiers \ {assigned}
  /\ delivered' = {}
  /\ UNCHANGED <<call, leg, terms, loggedIn, identifier, latest, shown, result, counts, newestAtStart,
                 session, snapshots, expired, failed>>

Expires ==
  /\ session /\ expired < MaxExpired
  /\ session' = FALSE /\ expired' = expired + 1
  /\ UNCHANGED <<call, leg, terms, loggedIn, identifier, latest, shown, result, counts, newestAtStart,
                 assigned, delivered, snapshots, reassigned, failed>>

-----------------------------------------------------------------------------

Requests ==
  \/ LogsIn \/ Refused \/ Metadata \/ List \/ MetadataAgain \/ ListAgain \/ Downloads

Next == Polls \/ Requests \/ Breaks \/ Delivers \/ Reassigns \/ Expires

Spec == Init /\ [][Next]_vars

\* The ticker ticks, and a request is answered or times out.
LiveSpec == Spec /\ WF_vars(Polls) /\ WF_vars(Requests)

-----------------------------------------------------------------------------
(* Properties.                                                               *)

\* A poll that reads shows a snapshot with data in it, no older than the newest
\* the portal had when the poll began: not an old request's, not an empty one.
ReadsNewest ==
  [][(result # "reading" /\ result' = "reading") \/ shown' # shown
       => /\ shown' >= newestAtStart
          /\ \A e \in delivered : e.n = shown' => e.content]_vars

\* A poll cannot hammer the portal: five GETs each answered or tried once more,
\* one login for each that was refused and one to begin with, the terms once in
\* each, however often the session ends under it.
PollBounded == gets <= 10 /\ logins <= gets + 1 /\ logins <= 6 /\ terms <= 1

\* Once the portal has settled with data to show, it is shown: a session that
\* ended and a data request that was replaced are found out by the polls.
CatchesUp ==
  \A n \in 1 .. MaxSnapshots :
    <>[](Newest({e.n : e \in {f \in delivered : f.content}}) = n) => <>[](shown = n)

\* What a poll reads is the newest snapshot, with a bounded number of requests, however
\* the portal ends its sessions and replaces its data request.
SocSound == [](TypeOK /\ PollBounded) /\ ReadsNewest
=============================================================================
