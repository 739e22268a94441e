-------------------------------- MODULE Config --------------------------------
(***************************************************************************)
(* The configuration file, read once per start: config.rs, main.rs.           *)
(*                                                                            *)
(* A file is a function from the paths it has to a named value: "good" for any *)
(* value its reader takes as it is, "wrong" for one it cannot decode, "beyond" *)
(* for one out of the range of a type that saturates, "padded" for one with     *)
(* spaces around it, and a name of its own for a value the code compares.       *)
(* `device` is the only entry of [[device]], or the number or shape it wrongly  *)
(* has.  A service manager starts the daemon again after a refusal, so a start  *)
(* may follow any other.                                                        *)
(***************************************************************************)
EXTENDS Integers, Sequences, Functions

CONSTANTS
  None,
  Bases,      \* the files a deployment begins with
  Editable,   \* the paths an edit reaches
  Extras,     \* paths the schema does not have
  MaxEdits    \* bound: the edits of a behaviour

VARIABLES
  file,       \* the file as it is
  edits,      \* bound: the edits so far
  ran,        \* the file of the last start that was taken, None before one
  started     \* what the last start made of the file

\* The lengths the durations of a file are given by.
Secs == [zero |-> 0, one |-> 1, three |-> 3, five |-> 5, thirty |-> 30, minute |-> 60]

Section(table, kind, required, optional, lenient) ==
  [table |-> table, kind |-> kind, required |-> required, optional |-> optional, lenient |-> lenient]

\* What each table may hold, for any kind of it and for one.
DeviceSections ==
  { Section(<<"device">>, "any",     {"kind"}, {}, {}),
    Section(<<"device">>, "zendure", {"ip", "sn", "poll_interval_secs"}, {}, {}),
    Section(<<"device">>, "virtual",
            {"id", "packs", "soc", "charge_efficiency", "discharge_efficiency"}, {"poll_interval_secs"}, {}) }

ConnectionSections ==
  { Section(<<"mqtt">>,   "any", {"host"}, {"port", "username", "password", "client_id"}, {}),
    Section(<<"shelly">>, "any", {"ip"}, {}, {"solar_phase"}),
    Section(<<"meter">>,  "any", {"kind"}, {}, {}),
    Section(<<"meter">>,  "synthetic", {"base_load", "solar_peak"}, {}, {}) }

WebSections == { Section(<<"web">>, "any", {}, {"bind_address", "port"}, {}) }

PredictionSections ==
  { Section(<<"prediction">>, "any", {"kind"}, {}, {"poll_times", "state_path"}),
    Section(<<"prediction">>, "solcast", {"api_key", "site_east", "site_west"}, {}, {}) }

PricesSections ==
  { Section(<<"prices">>, "any", {"kind"}, {}, {"poll_times", "backfill_days"}),
    Section(<<"prices", "dynamic">>, "any", {"markup", "energy_tax", "export_markup", "vat"}, {}, {}),
    Section(<<"prices", "fixed">>, "any", {"import", "export"}, {}, {}) }

CarBatterySections ==
  { Section(<<"car_battery">>, "any", {"kind"}, {}, {"poll_interval_secs"}),
    Section(<<"car_battery">>, "vw_portal", {"email", "password", "vin"}, {}, {"country", "language"}) }

ChargerSections ==
  { Section(<<"charger">>, "any", {"kind"}, {}, {"id"}),
    Section(<<"charger">>, "simulated", {}, {},
            {"phases", "plug_in", "unplug", "current_amps", "session_target"}),
    Section(<<"charger">>, "vestel", {"host"}, {"port", "unit_id"}, {}) }

\* [tuning], the knobs a replay is given again.
TuningKeys ==
  {"charge_margin", "discharge_margin", "charge_deadband", "discharge_deadband", "gain", "slew_limit",
   "charge_start_threshold", "discharge_start_threshold", "min_mode_duration_secs",
   "min_decision_interval_secs", "idle_timeout_secs", "min_idle_before_discharge_secs",
   "cycle_warn_threshold", "min_soc", "max_soc", "balance_weekday", "solar_discharge_block_threshold",
   "charger_discharge_block_threshold", "mqtt_timeout_secs"}

KnobSections ==
  { Section(<<"homeassistant">>, "any", {}, {}, {"publish_prefix"}),
    Section(<<"clock">>,   "any", {}, {}, {"timezone"}),
    Section(<<"journal">>, "any", {}, {}, {"path", "retention_days"}),
    Section(<<"rte">>,     "any", {}, {}, {"state_path"}),
    Section(<<"logging">>, "any", {}, {}, {"filter"}),
    Section(<<"tuning">>,  "any", {}, {}, TuningKeys) }

Sections ==
  UNION {DeviceSections, ConnectionSections, WebSections, PredictionSections, PricesSections,
         CarBatterySections, ChargerSections, KnobSections}

Tables   == {s.table : s \in Sections}
Kinds(t) == {s.kind : s \in {s \in Sections : s.table = t}} \ {"any"}
\* A kind with nothing of its own has no section.
AllKinds(t) ==
  Kinds(t) \cup (CASE t = <<"meter">>       -> {"shelly"}
                   [] t = <<"prediction">>  -> {"simulated"}
                   [] t = <<"prices">>      -> {"energyzero", "simulated"}
                   [] t = <<"car_battery">> -> {"simulated"}
                   [] OTHER                 -> {})

Under(t, leaves) == {Append(t, leaf) : leaf \in leaves}
LeavesOf(s)      == s.required \cup s.optional \cup s.lenient
Schema           == Tables \cup UNION {Under(s.table, LeavesOf(s)) : s \in Sections}

\* take, has_table: one value of the file.
Has(f, path)     == path \in DOMAIN f
Is(f, path, v)   == Has(f, path) /\ f[path] = v
Decodes(f, path) == Has(f, path) /\ f[path] # "wrong"

Applies(f, s)    == Has(f, s.table) /\ (s.kind = "any" \/ Is(f, Append(s.table, "kind"), s.kind))
Applied(f)       == {s \in Sections : Applies(f, s)}
Read(f)          == UNION {Under(s.table, LeavesOf(s)) : s \in Applied(f)}
Lenient(f)       == UNION {Under(s.table, s.lenient) : s \in Applied(f)}

\* What a lenient key comes to: its value, or the default for one absent or of the wrong shape.
Given(f, path, default) == IF Decodes(f, path) THEN f[path] ELSE default

-----------------------------------------------------------------------------
(* What is refused.                                                           *)

\* take_device: one table, of a known kind, with its fields and no others.
DeviceRefused(f) ==
  \/ ~ Is(f, <<"device">>, "table")
  \/ \E path \in DOMAIN f : Len(path) = 2 /\ path[1] = "device" /\ path \notin Read(f)

\* take, has_table: a table is a table.
NotATable(f) == \E t \in Tables : Has(f, t) /\ f[t] # "table"

\* Mutant: a knob of the wrong type is an error as well.
UnusableStrict(f, s) ==
  \/ \E path \in Under(s.table, s.required) : ~ Decodes(f, path)
  \/ \E path \in Under(s.table, s.optional \cup s.lenient) : Is(f, path, "wrong")

\* required, optional: absent is an error for the first, of the wrong type for both.
Unusable(f, s) ==
  \/ \E path \in Under(s.table, s.required) : ~ Decodes(f, path)
  \/ \E path \in Under(s.table, s.optional) : Is(f, path, "wrong")

UnknownKind(f) ==
  \E t \in Tables \cap DOMAIN f :
    /\ AllKinds(t) # {}
    /\ Has(f, Append(t, "kind")) /\ f[Append(t, "kind")] \notin AllKinds(t)

\* The meter is a Shelly when no [meter] says otherwise.
Synthetic(f) == Is(f, <<"meter", "kind">>, "synthetic")
Virtual(f)   == Is(f, <<"device", "kind">>, "virtual")

\* Mutant: only a meter that is named is looked at.
IncoherentNamed(f) ==
  \/ Is(f, <<"meter", "kind">>, "shelly") /\ ~ Has(f, <<"shelly">>)
  \/ Synthetic(f) /\ ~ Virtual(f)

Incoherent(f) ==
  \/ ~ Synthetic(f) /\ ~ Has(f, <<"shelly">>)
  \/ Synthetic(f) /\ ~ Virtual(f)

\* DeviceConfig::identity.
Identity(f) == f[IF Virtual(f) THEN <<"device", "id">> ELSE <<"device", "sn">>]

\* vestel_host and the port beside it: an address alone, and a port.
Unaddressable(f) ==
  /\ Is(f, <<"charger", "kind">>, "vestel")
  /\ \/ f[<<"charger", "host">>] \in {"empty", "ported"}
     \/ Is(f, <<"charger", "port">>, "zero")

\* take_charger.
ChargerRefused(f) ==
  /\ Has(f, <<"charger">>)
  /\ \/ Given(f, <<"charger", "id">>, "charger") = Identity(f)
     \/ Unaddressable(f)
     \/ /\ Is(f, <<"charger", "kind">>, "simulated")
        /\ \/ ~ Synthetic(f)
           \/ Given(f, <<"charger", "plug_in">>, "evening") = Given(f, <<"charger", "unplug">>, "morning")

\* take_virtual_poll_interval: zero is refused.
PollRefused(f) == Virtual(f) /\ Is(f, <<"device", "poll_interval_secs">>, "zero")

Refused(f) ==
  \/ DeviceRefused(f) \/ NotATable(f)
  \/ \E s \in Applied(f) : Unusable(f, s)
  \/ UnknownKind(f) \/ PollRefused(f) \/ Incoherent(f) \/ ChargerRefused(f)

-----------------------------------------------------------------------------
(* What is replaced, and what is warned of.                                   *)

\* take_zendure_poll_interval raises it to the floor; a virtual device has a default.
PollFloor == Secs.three
Tick(f) ==
  LET secs == Secs[Given(f, <<"device", "poll_interval_secs">>, "one")]
  IN  IF Virtual(f) \/ secs >= PollFloor THEN secs ELSE PollFloor

\* take_mqtt_timeout: more than MIN_BLIND_ROUNDS rounds of the interval in effect.
MinBlindRounds  == 3
Timeout(f)      == Secs[Given(f, <<"tuning", "mqtt_timeout_secs">>, "minute")]
TooShort(f)     == Timeout(f) <= MinBlindRounds * Tick(f)
\* Mutant: the rounds are those of the interval as it was configured.
WindowConfigured(f) ==
  LET rounds == MinBlindRounds * Secs[Given(f, <<"device", "poll_interval_secs">>, "one")]
  IN  IF Timeout(f) <= rounds THEN rounds ELSE Timeout(f)

TimeoutWindow(f) == IF TooShort(f) THEN MinBlindRounds * Tick(f) ELSE Timeout(f)

\* take_gain, take_slew_limit, take_discharge_start_threshold, PhaseMode::try_from.
Unsafe(f) ==
  {path \in Lenient(f) :
     \/ path \in Under(<<"tuning">>, {"gain", "slew_limit", "discharge_start_threshold"}) /\ Is(f, path, "zero")
     \/ path = <<"charger", "phases">> /\ Is(f, path, "two")}

Raised(f) ==
  {path \in {<<"device", "poll_interval_secs">>} : Secs[Given(f, path, "one")] # Tick(f)}
    \cup {path \in {<<"tuning", "mqtt_timeout_secs">>} : TooShort(f)}

\* Mutant: only what the schema has no table for is named.
UnknownTables(f) == {path \in DOMAIN f \ Tables : Len(path) = 1}

\* finish: every leaf left in a table that was read, and every other table once.
Unknown(f) ==
  {path \in DOMAIN f \ (Read(f) \cup Tables) :
     Len(path) = 1 \/ SubSeq(path, 1, Len(path) - 1) \in Tables}

Mistyped(f) == {path \in Lenient(f) : Is(f, path, "wrong")}
Warned(f)   == Mistyped(f) \cup Unsafe(f) \cup Raised(f) \cup Unknown(f)

\* The keys whose type has a range that its constructor keeps to and does not refuse.
Saturating ==
  UNION {Under(<<"tuning">>, {"gain", "min_soc", "max_soc", "solar_discharge_block_threshold"}),
         Under(<<"device">>, {"soc", "charge_efficiency", "discharge_efficiency"}),
         {<<"journal", "retention_days">>, <<"charger", "current_amps">>}}

\* Mutant: a derived Deserialize, which writes the field and bypasses the clamp.
EffectDerived(path, v) == v

\* What a value that decodes comes to, with no word of it: the bound it is past, or a
\* host without the spaces around it.
Effect(path, v) ==
  CASE path \in Saturating /\ v = "beyond"           -> "limit"
    [] path = <<"charger", "host">> /\ v = "padded"   -> "good"
    [] OTHER                                          -> v

\* The configuration in effect: what is read of the file and not replaced, and the two durations.
Taken(f) ==
  [given    |-> [path \in {p \in Read(f) : Decodes(f, p)} \ (Unsafe(f) \cup Raised(f)) |->
                   Effect(path, f[path])],
   tick     |-> Tick(f),
   window   |-> TimeoutWindow(f)]

\* check_config: a file that is taken without a warning.
CheckPasses(f) == ~ Refused(f) /\ Warned(f) = {}

\* What is built of it: the registry, the meter and the loop's ticker, each with a panic of its own.
Builds(f) ==
  /\ IF Synthetic(f) THEN Virtual(f) ELSE Has(f, <<"shelly">>)
  /\ Tick(f) > 0

\* run_car_battery_poller: an interval of zero, which nothing looks at, is the panic of
\* its own task alone.
CarPoll == <<"car_battery", "poll_interval_secs">>
Lost(f) == {path \in {CarPoll} \cap Read(f) : Is(f, path, "zero")}

-----------------------------------------------------------------------------
Nothing == [verdict |-> "never"]

\* main: a refusal ends the process before anything is built.
Result(f) ==
  IF Refused(f)       THEN [verdict |-> "refused"]
  ELSE IF ~ Builds(f) THEN [verdict |-> "panicked"]
  ELSE [verdict |-> "runs", config |-> Taken(f), warned |-> Warned(f), lost |-> Lost(f)]

Start ==
  /\ started' = Result(file)
  /\ ran' = IF started'.verdict = "runs" THEN file ELSE ran
  /\ UNCHANGED <<file, edits>>

\* The values an edit gives a path.
ValuesOf(path) ==
  LET leaf == path[Len(path)] IN
  CASE path = <<"device">>                     -> {"table", "two", "other"}
    [] path \in Tables                         -> {"table", "other"}
    [] path \in Extras                         -> {"good"}
    [] leaf = "gain"                           -> {"wrong", "zero", "beyond", "good"}
    [] path \in Saturating                     -> {"wrong", "beyond", "good"}
    [] path = CarPoll                          -> {"wrong", "zero", "good"}
    [] leaf = "kind"                           -> AllKinds(SubSeq(path, 1, Len(path) - 1)) \cup {"neither", "wrong"}
    [] path = <<"device", "poll_interval_secs">> -> {"wrong", "zero", "one", "three", "thirty"}
    [] leaf = "mqtt_timeout_secs"              -> {"wrong", "zero", "five", "minute"}
    [] leaf \in {"sn", "id"}                   -> {"wrong", "battery", "charger"}
    [] leaf \in {"slew_limit", "discharge_start_threshold"} \/ path = <<"charger", "port">>
                                               -> {"wrong", "zero", "good"}
    [] leaf = "phases"                         -> {"wrong", "two", "good"}
    [] leaf = "host" /\ path[1] = "charger"    -> {"wrong", "empty", "ported", "padded", "good"}
    [] leaf \in {"plug_in", "unplug"}          -> {"wrong", "morning", "evening"}
    [] OTHER                                   -> {"wrong", "good"}

Inside(path, t) == Len(path) > Len(t) /\ SubSeq(path, 1, Len(t)) = t
Without(f, t)   == Restrict(f, {path \in DOMAIN f : path # t /\ ~ Inside(path, t)})

\* An edit gives a path of a table that is there a value, or takes it away with what is under it.
Set(path, v) ==
  /\ Len(path) = 1 \/ Is(file, SubSeq(path, 1, Len(path) - 1), "table")
  /\ ~ Is(file, path, v)
  /\ LET kept == Without(file, path) IN
     file' = [p \in DOMAIN kept \cup {path} |-> IF p = path THEN v ELSE kept[p]]

Drop(path) == Has(file, path) /\ file' = Without(file, path)

Edit ==
  /\ edits < MaxEdits
  /\ \E path \in Editable : Drop(path) \/ \E v \in ValuesOf(path) : Set(path, v)
  /\ edits' = edits + 1
  /\ UNCHANGED <<ran, started>>

Init == file \in Bases /\ edits = 0 /\ ran = None /\ started = Nothing
Next == Start \/ Edit
vars == <<file, edits, ran, started>>

-----------------------------------------------------------------------------
(* Properties.                                                                *)

TypeOK ==
  /\ DOMAIN file \subseteq Schema \cup Extras
  /\ \A path \in DOMAIN file : Len(path) > 1 => Is(file, SubSeq(path, 1, Len(path) - 1), "table")
  /\ edits \in 0 .. MaxEdits
  /\ started.verdict \in {"never", "refused", "panicked", "runs"}

\* config.rs, "systemd's Restart=on-failure would restart-loop the daemon while the
\* battery held its last command": a file that was taken once is not refused for
\* edits to the keys of the defaulted tables, known or not, whatever they are set to.
KnobTables == {<<"homeassistant">>, <<"clock">>, <<"journal">>, <<"rte">>, <<"logging">>, <<"tuning">>}
Changed(f, g) ==
  {path \in DOMAIN f \cup DOMAIN g : ~ (Has(f, path) /\ Has(g, path)) \/ f[path] # g[path]}
KnobsNeverRefuse ==
  [][(ran # None /\ started'.verdict = "refused") =>
       \E path \in Changed(file, ran) : \A t \in KnobTables : ~ Inside(path, t)]_vars

\* cli.rs:30, --check "lets a deploy hook catch a typo before it ever reaches the
\* running controller".  What that comes to: with a file it passes, no value is dropped,
\* defaulted or raised.  Each is in effect as it was written, but for what is changed
\* without a warning: a value past the range of a saturating type, whose bound is in
\* effect, and the spaces around a host.  Every task the file asks for runs, but for the
\* car battery's poller when its interval is zero, which --check passes too.
CleanIsTaken ==
  (started.verdict = "runs" /\ CheckPasses(ran)) =>
    /\ \A path \in DOMAIN ran \ Tables :
         /\ path \in DOMAIN started.config.given
         /\ \/ started.config.given[path] = ran[path]
            \/ ran[path] = "beyond" /\ started.config.given[path] = "limit"
            \/ ran[path] = "padded" /\ started.config.given[path] = "good"
    /\ Has(ran, <<"device", "poll_interval_secs">>) =>
         started.config.tick = Secs[ran[<<"device", "poll_interval_secs">>]]
    /\ started.lost # {} => Is(ran, CarPoll, "zero")

\* units.rs, "a derived `Deserialize` builds the struct field-by-field, bypassing every
\* clamp", and config.rs on a gain or a slew limit of zero, "would freeze the control
\* loop's own accumulator": whatever a file says, warned of or not, no value in effect
\* is out of the range of its type, and neither of the two is zero.
InRange ==
  started.verdict = "runs" =>
    \A path \in DOMAIN started.config.given :
      /\ started.config.given[path] \notin {"wrong", "beyond", "padded"}
      /\ path[Len(path)] \in {"gain", "slew_limit"} => started.config.given[path] # "zero"

\* config.rs, "a window at or under the tick stands the fleet down forever with every
\* source answering": whatever is configured, three rounds at the rate the loop really
\* runs at fit in the window that is used.
RoundsFitWindow ==
  started.verdict = "runs" =>
    LET secs == Given(ran, <<"device", "poll_interval_secs">>, "one")
        tick == IF Is(ran, <<"device", "kind">>, "virtual") \/ Secs[secs] > 3 THEN Secs[secs] ELSE 3
    IN  started.config.tick = tick /\ started.config.window >= 3 * tick

\* source/mod.rs, "Config::from_toml_str's coherence checks are what make the other
\* arms unreachable": no file that is taken makes the daemon panic as it builds the
\* meter, the battery and its ticker.  A task of its own is not the daemon: the car
\* battery's poller can be lost (`Lost`), and the rest goes on.
TakenIsBuilt == started.verdict # "panicked"

\* The figures in effect are the file's, or are within their bounds, and the loop runs on them.
TakenIsSound == TypeOK /\ CleanIsTaken /\ InRange /\ RoundsFitWindow /\ TakenIsBuilt
===============================================================================
