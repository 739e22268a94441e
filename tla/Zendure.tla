-------------------------------- MODULE Zendure --------------------------------
(***************************************************************************)
(* The Zendure client: the write guards' ledger of what the device holds,   *)
(* `apply_command` and the settings writes as the requests they send, and    *)
(* the sampler's reports arriving in between.  The device is modelled from   *)
(* what those requests and reports say of it; it may also be written to by   *)
(* the vendor's app, or restart onto what its flash holds.                   *)
(***************************************************************************)
EXTENDS Integers

CONSTANTS
  None,
  Watts,          \* the setpoints a charge or discharge carries
  MaxMeddling,    \* changes the device or its app makes on their own
  MaxRestarts     \* process restarts explored

ASSUME WattsAssumption == Watts \subseteq Nat \ {0}
ASSUME BoundAssumption == MaxMeddling \in Nat /\ MaxRestarts \in Nat

Limits == Watts \cup {0}
AcModes == {"charge", "discharge"}
StorageModes == {"ram", "flash"}
ASSUME NoneAssumption == None \notin Nat \cup AcModes \cup StorageModes

\* command.rs, and beside it "settings": the writes of the power caps and of
\* socSet, which wake the device but touch nothing the ledger tracks.  A standby
\* takes the arms an idle takes, the same guard and the same request: one "idle".
Sized == [what : AcModes, watts : Limits]
Unsized == [what : {"idle", "settings"}, watts : {0}]
Commands == Sized \cup Unsized

VARIABLES
  \* the device
  dev,            \* [input, output, ac, smart]
  flash,          \* the limits it restarts onto
  \* the ledger
  storage_mode, last_ac_mode, last_input_limit, last_output_limit,
  \* the write under way
  pc, cmd,
  \* the report in flight: what the device held when it answered
  report,
  \* history, read by the properties only
  told,           \* the last command reported as applied, None after a failure
  shown,          \* the last report showed a limit, and nothing wrote since
  seen_late,      \* the report in flight predates a write
  unseen_flip,    \* the mode changed and no report had shown it when cmd began
  meddled, restarts

device  == <<dev, flash>>
ledger  == <<storage_mode, last_ac_mode, last_input_limit, last_output_limit>>
history == <<told, shown, seen_late, unseen_flip>>
bounds  == <<meddled, restarts>>
vars    == <<device, ledger, pc, cmd, report, history, bounds>>

Held == [input : Limits, output : Limits, ac : AcModes, smart : StorageModes]
Steps == {"start", "ready", "wake", "woken", "settling", "post", "posted"}

TypeOK ==
  /\ dev \in Held
  /\ flash \in [input : Limits, output : Limits]
  /\ storage_mode \in StorageModes
  /\ last_ac_mode \in AcModes \cup {None}
  /\ last_input_limit \in Limits \cup {None}
  /\ last_output_limit \in Limits \cup {None}
  /\ pc \in Steps
  /\ cmd \in Commands
  /\ report \in Held \cup {None}
  /\ told \in Commands \cup {None}
  /\ shown \in BOOLEAN /\ seen_late \in BOOLEAN /\ unseen_flip \in BOOLEAN
  /\ meddled \in 0 .. MaxMeddling
  /\ restarts \in 0 .. MaxRestarts

Settings == [what |-> "settings", watts |-> 0]

Init ==
  /\ dev \in Held
  /\ flash = [input |-> 0, output |-> 0]
  /\ storage_mode = "ram" /\ last_ac_mode = None
  /\ last_input_limit = None /\ last_output_limit = None
  /\ pc = "start" /\ cmd = Settings /\ report = None
  /\ told = None /\ shown = FALSE
  /\ seen_late = FALSE /\ unseen_flip = FALSE
  /\ meddled = 0 /\ restarts = 0

-----------------------------------------------------------------------------
(* mode.rs                                                                   *)

IsZeroed == last_input_limit = 0 /\ last_output_limit = 0

NeedsWrite(c) == c.what = "idle" => ~IsZeroed

\* Mutants: an absent field is a mode of its own; only RAM is believed.
FoldAbsent(smart) == smart
FoldOnlyRam(smart) == IF smart = "ram" THEN smart ELSE storage_mode

\* What a report's `smartMode` says, `None` when it says nothing.
FoldSmartMode(smart) == IF smart = None THEN storage_mode ELSE smart

-----------------------------------------------------------------------------
(* The requests of one command.                                              *)

\* Mutant: a discharge takes the mode for granted.
WakesCharge(c) == c.what \in {"charge", "settings"}

\* Only a sized command or a settings write makes sure of RAM mode first.
Wakes(c) == c.what # "idle"

\* The tracked state a write goes out on is read here, before any request.
Begin(c) ==
  /\ pc' = IF Wakes(c) /\ storage_mode # "ram" THEN "wake" ELSE "post"
  /\ cmd' = c
  /\ UNCHANGED <<device, ledger, report, history, bounds>>

Apply(c) ==
  /\ pc = "ready" /\ NeedsWrite(c)
  /\ Begin(c)

\* Already satisfied: `Ok` without a request.
Suppress(c) ==
  /\ pc = "ready" /\ ~NeedsWrite(c)
  /\ told' = c
  /\ UNCHANGED <<device, ledger, pc, cmd, report, shown, seen_late, unseen_flip,
                 bounds>>

\* `prepare`: the first report sets the mode, flash unless it says RAM, and the
\* power caps are written.  A field left out reads as flash.
Prepare(omitted) ==
  LET mode == IF omitted THEN "flash" ELSE dev.smart
  IN /\ pc = "start"
     /\ storage_mode' = mode
     /\ cmd' = Settings
     /\ pc' = IF mode = "ram" THEN "post" ELSE "wake"
     /\ unseen_flip' = FALSE
     /\ UNCHANGED <<device, last_ac_mode, last_input_limit, last_output_limit, report,
                    told, shown, seen_late, bounds>>

\* The wake lands: `smartMode: 1`.
WakeLands ==
  /\ pc = "wake"
  /\ pc' = "woken"
  /\ dev' = [dev EXCEPT !.smart = "ram"]
  /\ unseen_flip' = FALSE
  /\ UNCHANGED <<flash, ledger, cmd, report, told, shown, seen_late, bounds>>

WakeAcked ==
  /\ pc = "woken"
  /\ pc' = "settling"
  /\ UNCHANGED <<device, ledger, cmd, report, history, bounds>>

\* After five seconds, whatever a report said meanwhile.
Settled ==
  /\ pc = "settling"
  /\ pc' = "post"
  /\ storage_mode' = "ram"
  /\ UNCHANGED <<device, last_ac_mode, last_input_limit, last_output_limit, cmd, report,
                 history, bounds>>

\* The wake failed, or its answer was lost: the command goes no further, and
\* what the ledger holds stays.
WakeFails ==
  /\ pc \in {"wake", "woken"}
  /\ pc' = "ready"
  /\ told' = None
  /\ UNCHANGED <<device, ledger, cmd, report, shown, seen_late, unseen_flip,
                 bounds>>

AcModePending(c) == last_ac_mode # c.what

\* What the device holds after the write, acMode only where it was sent.
Written(c) ==
  CASE c.what = "charge" ->
         [dev EXCEPT !.input = c.watts, !.ac = IF AcModePending(c) THEN "charge" ELSE @]
    [] c.what = "discharge" ->
         [dev EXCEPT !.output = c.watts, !.ac = IF AcModePending(c) THEN "discharge" ELSE @]
    [] c.what = "settings" -> dev
    [] OTHER -> [dev EXCEPT !.input = 0, !.output = 0]

PostLands ==
  /\ pc = "post"
  /\ pc' = "posted"
  /\ dev' = Written(cmd)
  /\ flash' = IF dev.smart = "flash"
              THEN [input |-> dev'.input, output |-> dev'.output] ELSE flash
  /\ seen_late' = (report # None)
  /\ shown' = FALSE
  /\ UNCHANGED <<ledger, cmd, report, told, unseen_flip, bounds>>

\* `Ok`: what the write carried is recorded.
Record(c) ==
  /\ last_input_limit' = CASE c.what = "charge" -> c.watts
                           [] c.what = "idle" -> 0
                           [] OTHER -> last_input_limit
  /\ last_output_limit' = CASE c.what = "discharge" -> c.watts
                            [] c.what = "idle" -> 0
                            [] OTHER -> last_output_limit
  /\ last_ac_mode' = CASE c.what \in AcModes -> c.what
                       [] c.what = "idle" -> None
                       [] OTHER -> last_ac_mode

PostAcked ==
  /\ pc = "posted"
  /\ pc' = "ready"
  /\ Record(cmd)
  /\ told' = IF cmd.what = "settings" THEN told ELSE cmd
  /\ UNCHANGED <<device, storage_mode, cmd, report, shown, seen_late, unseen_flip, bounds>>

\* Mutants: a failure leaves the limits, or acMode, as they were.
ForgetAcMode(c) ==
  /\ UNCHANGED <<last_input_limit, last_output_limit>>
  /\ last_ac_mode' = IF c.what \in AcModes /\ AcModePending(c) THEN None ELSE last_ac_mode
ForgetLimits(c) ==
  /\ last_input_limit' = IF c.what \in {"charge", "idle"} THEN None
                         ELSE last_input_limit
  /\ last_output_limit' = IF c.what \in {"discharge", "idle"} THEN None
                          ELSE last_output_limit
  /\ UNCHANGED last_ac_mode

\* An error or a timeout: each value the write carried is unknown, because it may
\* have landed.
Forget(c) ==
  /\ last_input_limit' = IF c.what \in {"charge", "idle"} THEN None
                         ELSE last_input_limit
  /\ last_output_limit' = IF c.what \in {"discharge", "idle"} THEN None
                          ELSE last_output_limit
  /\ last_ac_mode' = IF c.what \in AcModes /\ AcModePending(c) THEN None ELSE last_ac_mode

PostFails ==
  /\ pc \in {"post", "posted"}
  /\ pc' = "ready"
  /\ Forget(cmd)
  /\ told' = IF cmd.what = "settings" THEN told ELSE None
  /\ UNCHANGED <<device, storage_mode, cmd, report, shown, seen_late, unseen_flip, bounds>>

-----------------------------------------------------------------------------
(* The sampler's side: `get_properties_raw`, then `parse_report`.            *)

Polling == pc # "start"

ReportTaken ==
  /\ Polling /\ report = None
  /\ report' = dev
  /\ seen_late' = FALSE
  /\ UNCHANGED <<device, ledger, pc, cmd, told, shown, unseen_flip, bounds>>

\* The one thing a report moves in the ledger is the storage mode.
ReportParsed(omitted) ==
  /\ report # None
  /\ report' = None
  /\ storage_mode' = FoldSmartMode(IF omitted THEN None ELSE report.smart)
  /\ shown' = IF seen_late THEN shown ELSE report.input # 0 \/ report.output # 0
  /\ unseen_flip' = (unseen_flip /\ ~(pc = "ready" /\ ~omitted /\ report.smart = dev.smart))
  /\ seen_late' = FALSE
  /\ UNCHANGED <<device, last_ac_mode, last_input_limit, last_output_limit, pc, cmd,
                 told, bounds>>

ReportLost ==
  /\ report # None
  /\ report' = None
  /\ UNCHANGED <<device, ledger, pc, cmd, history, bounds>>

-----------------------------------------------------------------------------
(* The world outside the process.                                            *)

Meddles(held) ==
  /\ pc # "start"
  /\ meddled < MaxMeddling
  /\ meddled' = meddled + 1
  /\ dev' = held
  /\ told' = None /\ shown' = FALSE
  /\ seen_late' = (report # None)
  /\ unseen_flip' = (unseen_flip \/ held.smart # dev.smart)
  /\ UNCHANGED <<ledger, pc, cmd, report, restarts>>

\* The vendor's app, or its cloud, writes a limit or a mode.
AppWrites(held) ==
  /\ held # dev
  /\ Meddles(held)
  /\ flash' = IF held.smart = "flash"
              THEN [input |-> held.input, output |-> held.output] ELSE flash

DeviceRestarts ==
  /\ Meddles([dev EXCEPT !.input = flash.input, !.output = flash.output, !.smart = "flash"])
  /\ UNCHANGED flash

\* The process goes away with a request possibly under way, and starts again.
Restart ==
  /\ pc # "start" /\ restarts < MaxRestarts
  /\ restarts' = restarts + 1
  /\ dev' \in {dev} \cup (IF pc = "post" THEN {Written(cmd)} ELSE {})
                    \cup (IF pc = "wake" THEN {[dev EXCEPT !.smart = "ram"]} ELSE {})
  /\ flash' = IF dev.smart = "flash"
              THEN [input |-> dev'.input, output |-> dev'.output] ELSE flash
  /\ storage_mode' = "ram" /\ last_ac_mode' = None
  /\ last_input_limit' = None /\ last_output_limit' = None
  /\ pc' = "start" /\ cmd' = Settings /\ report' = None
  /\ told' = None /\ shown' = FALSE
  /\ seen_late' = FALSE /\ unseen_flip' = FALSE
  /\ UNCHANGED meddled

Client ==
  \/ \E omitted \in BOOLEAN : Prepare(omitted)
  \/ WakeLands \/ WakeAcked \/ WakeFails \/ Settled
  \/ PostLands \/ PostAcked \/ PostFails

Next ==
  \/ \E c \in Commands : Apply(c) \/ Suppress(c)
  \/ Client
  \/ ReportTaken \/ ReportLost \/ \E omitted \in BOOLEAN : ReportParsed(omitted)
  \/ \E held \in Held : AppWrites(held)
  \/ DeviceRestarts
  \/ Restart

Spec == Init /\ [][Next]_vars

\* A request under way ends, polling goes on, and of the reports the device is
\* asked for one carrying its mode gets through now and then.
LiveSpec ==
  /\ Spec
  /\ WF_vars(Client) /\ WF_vars(ReportTaken)
  /\ SF_vars(ReportParsed(FALSE))

-----------------------------------------------------------------------------
(* Properties.                                                               *)

\* With nobody else writing, a command the adapter called applied is what the
\* device holds, whether it was sent or dropped as satisfied, and whatever failed
\* before it: acMode and the limits left out of a request were there already.
AppliedIsHeld ==
  meddled = 0 /\ pc = "ready" /\ told # None =>
    CASE told.what = "charge"    -> dev.ac = "charge" /\ dev.input = told.watts
      [] told.what = "discharge" -> dev.ac = "discharge" /\ dev.output = told.watts
      [] OTHER                   -> dev.input = 0 /\ dev.output = 0

\* With nobody else writing, what the ledger claims to know is true between
\* two commands.
LedgerAgrees ==
  meddled = 0 /\ pc \in {"ready", "wake", "woken", "settling", "post"} =>
    /\ last_input_limit \in {None, dev.input}
    /\ last_output_limit \in {None, dev.output}
    /\ last_ac_mode \in {None, dev.ac}

\* A setpoint is committed to flash only when the mode changed after the last
\* report read before the command began: what a report showed is acted on.
FlashOnlyUnseen ==
  [][PostLands /\ cmd.what \in AcModes /\ dev.smart = "flash" => unseen_flip]_vars

\* The tracked mode finds its way back to the device's, whoever changed it.
StorageModeHeals == <>[](storage_mode = dev.smart)

\* What the adapter knows and what it called applied agree with the device.
SettingsSound == TypeOK /\ AppliedIsHeld /\ LedgerAgrees
=============================================================================
