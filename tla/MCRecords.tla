------------------------------- MODULE MCRecords -------------------------------
(***************************************************************************)
(* What the journal, the state files and the configuration are read into,      *)
(* checked in one run: `Records`, and five components more that share nothing   *)
(* with it or with each other.  A step is one of `Records` or leaves all its     *)
(* variables alone, so that its specification is implied.                       *)
(***************************************************************************)
EXTENDS Records, TLC

CONSTANTS
  PerInterval, Ring, Rolling, ClockStep, HistoryNow, HistoryRows, HistorySteps,
  BlockSlots, DayHours,
  MaxEdits,
  MaxFlowGap, PackInterval, PackStep, PackNow, PackRows, PackSteps,
  SlotSpan, HourSpan, QuarterRing, ScaleStep, AxisSteps, LastQuarter, MaxReadings

MCComponents ==
  {"prices", "past days", "dashboard", "analysis", "efficiency",
   "history", "packs", "price panel", "day panels", "configuration"}
\* A day of one hour, one of two as where the clock goes forward, and tomorrows.
MCDayStart == <<0, 1, 3, 4, 5>>
\* Ties, a negative price and zero.
MCPanelLevels == {-1, 0, 1, 2}
\* A day of two hours, which the ring just holds, and two of one.
MCPanelDays == <<0, 8, 12, 16>>
\* No sun and a load, or sun that is exported.
MCReadings == {[solar |-> 0, grid |-> 36], [solar |-> 72, grid |-> -60]}
MCPoint(at, estimate) == [at |-> at, estimate |-> estimate]
\* None, today only, gaps on either day and a point between slots, a whole tomorrow
\* beside a gap in today, and points about midnight.
MCForecasts ==
  {{},
   {MCPoint(0, 24), MCPoint(2, 48), MCPoint(4, 48), MCPoint(6, 0)},
   {MCPoint(4, 24), MCPoint(8, 12), MCPoint(10, 60)},
   {MCPoint(0, 12), MCPoint(2, 24), MCPoint(7, 48), MCPoint(8, 24), MCPoint(9, 48)},
   {MCPoint(7, 24), MCPoint(10, 36)}}
MCPack(pack, flow) == [pack |-> pack, serial |-> pack = "named", flow |-> flow]
MCReport(packs, fitted) == [packs |-> packs, fitted |-> fitted, counted |-> TRUE]
\* A pack with a serial beside one without; two without, one of them at rest, which
\* in the end reports alone.
MCReports ==
  {MCReport(<<MCPack("named", TRUE), MCPack("first", TRUE)>>, {"named", "first"}),
   MCReport(<<MCPack("first", TRUE), MCPack("second", FALSE)>>, {"first", "second"}),
   MCReport(<<MCPack("second", TRUE)>>, {"first", "second"})}
MCGrids == {-1, 2}
MCFlows == {-1, 1}
\* The middle hour of a day has no price.
MCFeed == [h \in 0 .. RunDayLength - 1 |-> IF h = 1 THEN None ELSE h + 1]

MCTables(ts) == [t \in ts |-> "table"]
MCGood(t, leaves) == [path \in {Append(t, leaf) : leaf \in leaves} |-> "good"]
\* The deployed file: a Zendure, a Shelly, a broker and a Vestel.
MCDeployed ==
  MCTables({<<"device">>, <<"mqtt">>, <<"shelly">>, <<"charger">>, <<"tuning">>, <<"journal">>})
    @@ MCGood(<<"device">>, {"ip"}) @@ MCGood(<<"mqtt">>, {"host"}) @@ MCGood(<<"shelly">>, {"ip"})
    @@ MCGood(<<"charger">>, {"host"}) @@ MCGood(<<"tuning">>, {"gain"})
    @@ <<"device", "kind">> :> "zendure" @@ <<"device", "sn">> :> "battery"
    @@ <<"device", "poll_interval_secs">> :> "three" @@ <<"charger", "kind">> :> "vestel"
\* One for a laptop: everything is simulated.
MCLaptop ==
  MCTables({<<"device">>, <<"meter">>, <<"charger">>, <<"prices">>, <<"prices", "fixed">>,
            <<"car_battery">>, <<"prediction">>, <<"tuning">>})
    @@ MCGood(<<"device">>, {"packs", "soc", "charge_efficiency", "discharge_efficiency"})
    @@ MCGood(<<"meter">>, {"base_load", "solar_peak"})
    @@ MCGood(<<"prices", "fixed">>, {"import", "export"})
    @@ <<"device", "kind">> :> "virtual" @@ <<"device", "id">> :> "battery"
    @@ [path \in {<<t, "kind">> : t \in {"charger", "prices", "car_battery", "prediction"}} |-> "simulated"]
    @@ <<"meter", "kind">> :> "synthetic"
MCBases == {MCDeployed, MCLaptop}
\* A knob misspelt, a field a device does not have, a table of another program.
MCExtras == {<<"tuning", "mni_soc">>, <<"device", "name">>, <<"extra">>}
\* Every path the code treats in a way of its own, and one of each way it treats several.
MCEditable ==
  MCExtras
    \cup {<<t>> : t \in {"device", "mqtt", "shelly", "meter", "web", "prices", "charger", "journal", "tuning"}}
    \cup {<<"prices", "dynamic">>, <<"prices", "dynamic", "vat">>, <<"prices", "kind">>}
    \cup {<<"device", l>> : l \in {"kind", "sn", "id", "poll_interval_secs", "charge_efficiency"}}
    \cup {<<"charger", l>> : l \in {"kind", "id", "host", "port", "phases", "plug_in"}}
    \cup {<<"tuning", l>> : l \in {"gain", "mqtt_timeout_secs", "min_soc"}}
    \cup {<<"mqtt", "host">>, <<"mqtt", "port">>, <<"shelly", "ip">>, <<"shelly", "solar_phase">>,
          <<"meter", "kind">>, <<"journal", "retention_days">>, <<"car_battery", "poll_interval_secs">>}

VARIABLES
  historyNow, historyRows, history, heard, historySteps, historyStepped,
  hours, current,
  packNow, packRows, packHistory, packSteps, packTrace,
  quarter, measured, newest, forecast,
  configFile, edits, ran, configStarted

History ==
  INSTANCE History WITH
    Step <- ClockStep, MaxNow <- HistoryNow, MaxRows <- HistoryRows, MaxSteps <- HistorySteps,
    now <- historyNow, rows <- historyRows, steps <- historySteps, stepped <- historyStepped
PackFigures ==
  INSTANCE PackTrace WITH
    PerInterval <- PackInterval, Step <- PackStep, MaxNow <- PackNow, MaxRows <- PackRows,
    MaxSteps <- PackSteps, Reports <- MCReports,
    now <- packNow, rows <- packRows, history <- packHistory, trace <- packTrace, steps <- packSteps,
    stepped <- (packSteps # 0), heard <- 0
PricePanel == INSTANCE PricePanel WITH Levels <- MCPanelLevels
DayPanels  == INSTANCE DayPanels WITH DayStart <- MCPanelDays, Readings <- MCReadings, Forecasts <- MCForecasts
Configuration ==
  INSTANCE Config WITH
    Bases <- MCBases, Editable <- MCEditable, Extras <- MCExtras, file <- configFile, started <- configStarted

historyVars  == <<historyNow, historyRows, history, heard, historySteps, historyStepped>>
panelVars    == <<hours, current>>
packVars     == <<packNow, packRows, packHistory, packSteps, packTrace>>
dayVars      == <<quarter, measured, newest, forecast>>
configVars   == <<configFile, edits, ran, configStarted>>

MCVars == <<vars, historyVars, packVars, panelVars, dayVars, configVars>>

MCInit ==
  /\ Init
  /\ History!Init /\ PackFigures!PackInit
  /\ IF which = "price panel" THEN PricePanel!Init ELSE hours = <<>> /\ current = None
  /\ DayPanels!Init /\ (which = "day panels" \/ forecast = {})
  /\ IF which = "configuration" THEN Configuration!Init
                                ELSE configFile = None /\ edits = 0 /\ ran = None /\ configStarted = None

MCNext ==
  \/ Next /\ UNCHANGED <<historyVars, packVars, panelVars, dayVars, configVars>>
  \/ /\ which = "history" /\ History!Next
     /\ UNCHANGED <<vars, packVars, panelVars, dayVars, configVars>>
  \/ /\ which = "packs" /\ PackFigures!PackNext
     /\ UNCHANGED <<vars, historyVars, panelVars, dayVars, configVars>>
  \/ /\ which = "price panel" /\ PricePanel!Next
     /\ UNCHANGED <<vars, historyVars, packVars, dayVars, configVars>>
  \/ /\ which = "day panels" /\ DayPanels!Next
     /\ UNCHANGED <<vars, historyVars, packVars, panelVars, configVars>>
  \/ /\ which = "configuration" /\ Configuration!Next
     /\ UNCHANGED <<vars, historyVars, packVars, panelVars, dayVars>>

MCSpec == MCInit /\ [][MCNext]_MCVars

-----------------------------------------------------------------------------
(* Properties, beside those of Records: stated and explained in the modules.   *)

\* intervals.rs: a restart changes nothing on the flows chart, no bucket holds a
\* reading of another interval or of two times, and a clock put back costs one.
\* pack_intervals.rs: a pack's energy is counted once, is its own, and survives one.
HistoryKept == History!HistoryKept /\ [](which = "packs" => PackFigures!PacksKept)

\* tiers.rs, web/prices.rs: the thirds of the prices shown, and the best windows
\* still ahead, which stay until they have begun. solar.rs, flows.rs: a day's forecast
\* splits at the moment it is, its links lead where they say, and what is drawn of a
\* slot that is over stays.
PanelRight ==
  /\ [](which = "price panel" => PricePanel!PanelRight) /\ PricePanel!WindowsStay
  /\ [](which = "day panels" => DayPanels!DayShown) /\ DayPanels!DrawnStays

\* config.rs, units.rs, commands.rs, source/mod.rs: of what --check passes nothing is
\* dropped or defaulted, and only a value out of its range is changed; nothing out of
\* range is in effect, three rounds fit in the window, the loop can be built, and no
\* knob refuses.
FileKept == [](which = "configuration" => Configuration!TakenIsSound) /\ Configuration!KnobsNeverRefuse
===============================================================================
