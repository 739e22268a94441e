----------------------------- MODULE ZendureProofs -----------------------------
(***************************************************************************)
(* Proofs about Zendure, for every set of setpoints, however often the app    *)
(* meddles, requests fail and the process is started again.                  *)
(***************************************************************************)
EXTENDS Zendure, TLAPS

-----------------------------------------------------------------------------
(* The inductive invariant.                                                  *)

\* What the device does for a command it was told.
Holds(c) ==
  CASE c.what = "charge"    -> dev.ac = "charge" /\ dev.input = c.watts
    [] c.what = "discharge" -> dev.ac = "discharge" /\ dev.output = c.watts
    [] OTHER                -> dev.input = 0 /\ dev.output = 0

\* What is known of one field is what it holds.
InputKnown  == last_input_limit \in {None, dev.input}
OutputKnown == last_output_limit \in {None, dev.output}
AcKnown     == last_ac_mode \in {None, dev.ac}

\* A client that is being started knows nothing, and no report is in flight.
Blank ==
  pc = "start" => /\ last_input_limit = None /\ last_output_limit = None /\ last_ac_mode = None
                  /\ told = None /\ report = None

\* A write that landed and is not yet acknowledged: the fields it carried hold what
\* it carried, and the ledger is right about the others.
Landed ==
  meddled = 0 /\ pc = "posted" =>
    CASE cmd.what = "charge"    -> Holds(cmd) /\ OutputKnown
      [] cmd.what = "discharge" -> Holds(cmd) /\ InputKnown
      [] cmd.what = "idle"      -> Holds(cmd) /\ AcKnown
      [] OTHER                  -> InputKnown /\ OutputKnown /\ AcKnown

\* The last command called applied is held until another one is sent; a settings
\* write does not disturb it.
Applied ==
  meddled = 0 /\ told # None /\ (pc = "ready" \/ cmd.what = "settings") => Holds(told)

\* Where the device writes to flash and a setpoint could go out all the same, no
\* report has shown it yet.
Unseen ==
  dev.smart = "flash" =>
    /\ pc # "start" /\ storage_mode = "ram" => unseen_flip
    /\ report # None /\ report.smart = "ram" => unseen_flip
    /\ pc \in {"woken", "settling"} => unseen_flip
    /\ pc = "post" /\ cmd.what \in AcModes => unseen_flip

IInv == TypeOK /\ Blank /\ LedgerAgrees /\ Landed /\ Applied /\ Unseen

-----------------------------------------------------------------------------
(* Commands and what they leave in the device.                               *)

\* A command is sized, or an idle, or a settings write.
LEMMA CommandFacts ==
  /\ Settings \in Commands
  /\ 0 \in Limits /\ None \notin Limits
  /\ \A c \in Commands : /\ c.what \in {"charge", "discharge", "idle", "settings"}
                         /\ c.watts \in Limits
                         /\ c.what \notin AcModes => c.watts = 0
<1>1. 0 \in Limits /\ None \notin Limits
  <2>1. None \notin Nat /\ 0 \in Nat
    BY NoneAssumption
  <2> QED
    BY <2>1, WattsAssumption DEF Limits
<1>2. Settings \in Commands
  BY DEF Settings, Commands, Unsized
<1>3. ASSUME NEW c \in Sized
      PROVE  c.what \in {"charge", "discharge"} /\ c.watts \in Limits /\ c.what \in AcModes
  BY DEF Sized, AcModes
<1>4. ASSUME NEW c \in Unsized
      PROVE  c.what \in {"idle", "settings"} /\ c.watts = 0
  BY DEF Unsized
<1> QED
  BY <1>1, <1>2, <1>3, <1>4 DEF Commands

\* What a write leaves in the device is what a device may hold, in the same mode.
LEMMA WrittenType ==
  ASSUME TypeOK, NEW c \in Commands
  PROVE  Written(c) \in Held /\ Written(c).smart = dev.smart
BY CommandFacts DEF TypeOK, Held, Written, AcModes

\* A report's mode, or the one it leaves out.
LEMMA FoldType ==
  ASSUME NEW smart \in StorageModes \cup {None}, storage_mode \in StorageModes
  PROVE  FoldSmartMode(smart) \in StorageModes
BY DEF FoldSmartMode

-----------------------------------------------------------------------------
(* Type correctness.                                                         *)

\* A client just built has its types.
LEMMA TypeInit == Init => TypeOK
<1> SUFFICES ASSUME Init PROVE TypeOK
  OBVIOUS
<1>1. flash \in [input : Limits, output : Limits]
  BY CommandFacts DEF Init
<1>2. meddled \in 0 .. MaxMeddling /\ restarts \in 0 .. MaxRestarts
  BY BoundAssumption DEF Init
<1> QED
  BY <1>1, <1>2, CommandFacts DEF Init, TypeOK, StorageModes, Steps

\* No request, report or change of the device's own takes a variable out of its type.
LEMMA TypeStep == TypeOK /\ [Next]_vars => TypeOK'
<1> SUFFICES ASSUME TypeOK, [Next]_vars PROVE TypeOK'
  OBVIOUS
<1> USE CommandFacts, BoundAssumption DEF device, ledger, history, bounds
<1>1. CASE UNCHANGED vars
  BY <1>1 DEF TypeOK, vars
<1>2. ASSUME NEW c \in Commands, Apply(c) \/ Suppress(c) PROVE TypeOK'
  BY <1>2 DEF TypeOK, Apply, Begin, Suppress, Steps
<1>3. ASSUME NEW omitted \in BOOLEAN, Prepare(omitted) PROVE TypeOK'
  BY <1>3 DEF TypeOK, Prepare, Steps, StorageModes, Held
<1>4. CASE WakeLands
  BY <1>4 DEF TypeOK, WakeLands, Steps, StorageModes, Held
<1>5. CASE WakeAcked \/ WakeFails \/ Settled
  BY <1>5 DEF TypeOK, WakeAcked, WakeFails, Settled, Steps, StorageModes
<1>6. CASE PostLands
  BY <1>6, WrittenType DEF TypeOK, PostLands, Steps, Held
<1>7. CASE PostAcked
  BY <1>7 DEF TypeOK, PostAcked, Record, Steps, AcModes
<1>8. CASE PostFails
  BY <1>8 DEF TypeOK, PostFails, Forget, Steps
<1>9. CASE ReportTaken \/ ReportLost
  BY <1>9 DEF TypeOK, ReportTaken, ReportLost
<1>10. ASSUME NEW omitted \in BOOLEAN, ReportParsed(omitted) PROVE TypeOK'
  BY <1>10, FoldType DEF TypeOK, ReportParsed, Held
<1>11. ASSUME NEW held \in Held, Meddles(held),
              flash' \in [input : Limits, output : Limits]
       PROVE  TypeOK'
  <2>1. meddled' \in 0 .. MaxMeddling
    BY <1>11 DEF TypeOK, Meddles
  <2>2. seen_late' \in BOOLEAN /\ unseen_flip' \in BOOLEAN
    BY <1>11 DEF TypeOK, Meddles
  <2> QED
    BY <1>11, <2>1, <2>2 DEF TypeOK, Meddles
<1>12. ASSUME NEW held \in Held, AppWrites(held) PROVE TypeOK'
  BY <1>11, <1>12 DEF AppWrites, Held, TypeOK
<1>13. CASE DeviceRestarts
  BY <1>11, <1>13 DEF DeviceRestarts, Held, TypeOK, StorageModes
<1>14. CASE Restart
  <2>1. dev' \in Held
    BY <1>14, WrittenType DEF Restart, TypeOK, Held, StorageModes
  <2>2. flash' \in [input : Limits, output : Limits]
    BY <1>14, <2>1 DEF Restart, TypeOK, Held
  <2>3. restarts' \in 0 .. MaxRestarts
    BY <1>14 DEF Restart, TypeOK
  <2> QED
    BY <1>14, <2>1, <2>2, <2>3 DEF Restart, TypeOK, Steps, StorageModes
<1> QED
  BY <1>1, <1>2, <1>3, <1>4, <1>5, <1>6, <1>7, <1>8, <1>9, <1>10, <1>12, <1>13, <1>14 DEF Next, Client

-----------------------------------------------------------------------------
(* The invariant.                                                            *)

\* Nothing is known, told or shown when the process starts.
LEMMA InvInit == Init => IInv
BY TypeInit DEF Init, IInv, Blank, LedgerAgrees, Landed, Applied, Unseen

\* No step shows a starting client anything.
LEMMA BlankStep == Blank /\ [Next]_vars => Blank'
BY DEF Blank, vars, device, ledger, history, bounds, Next, Client, Apply, Begin, Suppress,
       Prepare, WakeLands, WakeAcked, WakeFails, Settled, PostLands, PostAcked, PostFails,
       ReportTaken, Polling, ReportLost, ReportParsed, Meddles, AppWrites, DeviceRestarts, Restart

\* A setpoint is not committed to flash behind a report's back.
LEMMA UnseenStep == TypeOK /\ Blank /\ Unseen /\ [Next]_vars => Unseen'
<1> SUFFICES ASSUME TypeOK, Blank, Unseen, [Next]_vars, dev'.smart = "flash"
             PROVE  Unseen'
  BY DEF Unseen
<1> USE DEF device, ledger, history, bounds
<1>1. CASE UNCHANGED vars
  BY <1>1 DEF Unseen, vars
<1>2. ASSUME NEW c \in Commands, Apply(c) \/ Suppress(c) PROVE Unseen'
  BY <1>2 DEF Unseen, Apply, Begin, Suppress, Wakes, AcModes
<1>3. ASSUME NEW omitted \in BOOLEAN, Prepare(omitted) PROVE Unseen'
  BY <1>3 DEF Unseen, Prepare, Settings, AcModes, Blank
<1>4. CASE WakeLands
  BY <1>4 DEF WakeLands, TypeOK, Held
<1>5. CASE WakeAcked \/ WakeFails \/ Settled
  BY <1>5 DEF Unseen, WakeAcked, WakeFails, Settled
<1>6. CASE PostLands
  BY <1>6, WrittenType DEF Unseen, PostLands, TypeOK
<1>7. CASE PostAcked \/ PostFails
  BY <1>7 DEF Unseen, PostAcked, PostFails
<1>8. CASE ReportTaken \/ ReportLost
  BY <1>8 DEF Unseen, ReportTaken, ReportLost
<1>9. ASSUME NEW omitted \in BOOLEAN, ReportParsed(omitted) PROVE Unseen'
  <2>1. pc # "start" /\ pc' = pc /\ cmd' = cmd /\ dev' = dev /\ report' = None
    BY <1>9 DEF ReportParsed, Blank
  <2>2. storage_mode' = IF omitted THEN storage_mode ELSE report.smart
    BY <1>9, NoneAssumption DEF ReportParsed, FoldSmartMode, TypeOK, Held
  <2>3. ASSUME ~unseen_flip' PROVE (storage_mode' = "flash" /\ pc = "ready") \/ ~unseen_flip
    BY <1>9, <2>2, <2>3 DEF ReportParsed
  <2>4. CASE omitted
    BY <1>9, <2>1, <2>2, <2>4 DEF Unseen, ReportParsed
  <2>5. CASE ~omitted
    BY <1>9, <2>1, <2>2, <2>3, <2>5 DEF Unseen, ReportParsed
  <2> QED
    BY <2>4, <2>5
<1>10. ASSUME NEW held \in Held, Meddles(held) PROVE Unseen'
  BY <1>10 DEF Unseen, Meddles, TypeOK, Held, StorageModes
<1>11. ASSUME NEW held \in Held, AppWrites(held) PROVE Unseen'
  BY <1>10, <1>11 DEF AppWrites
<1>12. CASE DeviceRestarts
  BY <1>10, <1>12 DEF DeviceRestarts, TypeOK, Held, StorageModes
<1>13. CASE Restart
  BY <1>13 DEF Unseen, Restart
<1> QED
  BY <1>1, <1>2, <1>3, <1>4, <1>5, <1>6, <1>7, <1>8, <1>9, <1>11, <1>12, <1>13 DEF Next, Client

\* What is neither meddled with nor written stays known and held.
Undisturbed == UNCHANGED <<dev, last_ac_mode, last_input_limit, last_output_limit, meddled>>

\* The ledger, a write between landing and its answer included.
LEMMA LedgerStep ==
  TypeOK /\ Blank /\ LedgerAgrees /\ Landed /\ [Next]_vars => LedgerAgrees' /\ Landed'
<1> SUFFICES ASSUME TypeOK, Blank, LedgerAgrees, Landed, [Next]_vars, meddled' = 0
             PROVE  LedgerAgrees' /\ Landed'
  BY DEF LedgerAgrees, Landed
<1> USE DEF device, ledger, history, bounds
<1>1. ASSUME Undisturbed, pc' = pc /\ cmd' = cmd PROVE LedgerAgrees' /\ Landed'
  BY <1>1 DEF Undisturbed, LedgerAgrees, Landed, Holds, InputKnown, OutputKnown, AcKnown
<1>2. ASSUME Undisturbed, pc # "posted", pc' # "posted" PROVE LedgerAgrees' /\ Landed'
  BY <1>2 DEF Undisturbed, TypeOK, Steps, LedgerAgrees, Landed, Blank
<1>3. CASE WakeLands
  BY <1>3 DEF WakeLands, TypeOK, Held, LedgerAgrees, Landed
<1>4. CASE PostLands
  BY <1>4, CommandFacts, NoneAssumption
     DEF PostLands, Written, AcModePending, AcModes, TypeOK, Held, LedgerAgrees, Landed,
         Holds, InputKnown, OutputKnown, AcKnown
<1>5. CASE PostAcked
  BY <1>5, CommandFacts
     DEF PostAcked, Record, AcModes, TypeOK, LedgerAgrees, Landed,
         Holds, InputKnown, OutputKnown, AcKnown
<1>6. CASE PostFails
  <2>1. pc' = "ready" /\ dev' = dev /\ meddled = 0 /\ Forget(cmd) /\ cmd \in Commands
    BY <1>6 DEF PostFails, TypeOK
  <2>2. CASE pc = "post"
    BY <2>1, <2>2 DEF Forget, LedgerAgrees, Landed
  <2>3. CASE pc = "posted"
    <3>1. /\ cmd.what \notin {"charge", "idle"} => InputKnown
          /\ cmd.what \notin {"discharge", "idle"} => OutputKnown
          /\ cmd.what \in AcModes => dev.ac = cmd.what
          /\ cmd.what \notin AcModes => AcKnown
      BY <2>1, <2>3, CommandFacts DEF AcModes, Landed, Holds
    <3>2. last_ac_mode' \in {None, dev.ac}
      BY <2>1, <3>1, CommandFacts DEF Forget, AcModePending, AcModes, AcKnown
    <3> QED
      BY <2>1, <3>1, <3>2 DEF Forget, LedgerAgrees, Landed, InputKnown, OutputKnown
  <2> QED
    BY <1>6, <2>2, <2>3 DEF PostFails
<1>7. ASSUME NEW held, Meddles(held) PROVE FALSE
  BY <1>7 DEF Meddles, TypeOK
<1>8. CASE Restart
  BY <1>8 DEF Restart, LedgerAgrees, Landed
<1>9. ASSUME NEW c \in Commands, Apply(c) \/ Suppress(c) PROVE LedgerAgrees' /\ Landed'
  BY <1>1, <1>2, <1>9 DEF Apply, Begin, Suppress, Undisturbed
<1>10. ASSUME NEW omitted \in BOOLEAN, Prepare(omitted) PROVE LedgerAgrees' /\ Landed'
  BY <1>2, <1>10 DEF Prepare, Undisturbed
<1>11. CASE WakeAcked \/ WakeFails \/ Settled
  BY <1>2, <1>11 DEF WakeAcked, WakeFails, Settled, Undisturbed
<1>12. ASSUME NEW omitted \in BOOLEAN,
              ReportTaken \/ ReportLost \/ ReportParsed(omitted) \/ UNCHANGED vars
       PROVE  LedgerAgrees' /\ Landed'
  BY <1>1, <1>12 DEF ReportTaken, ReportLost, ReportParsed, vars, Undisturbed
<1> QED
  BY <1>3, <1>4, <1>5, <1>6, <1>7, <1>8, <1>9, <1>10, <1>11, <1>12
     DEF Next, Client, AppWrites, DeviceRestarts

\* A command called applied is held, sent or dropped as satisfied.
LEMMA AppliedStep ==
  TypeOK /\ Blank /\ LedgerAgrees /\ Landed /\ Applied /\ [Next]_vars => Applied'
<1> SUFFICES ASSUME TypeOK, Blank, LedgerAgrees, Landed, Applied, [Next]_vars,
                    meddled' = 0, told' # None, pc' = "ready" \/ cmd'.what = "settings"
             PROVE  Holds(told)'
  BY DEF Applied
<1> USE DEF device, ledger, history, bounds
<1>1. ASSUME told' = told, UNCHANGED <<dev, meddled>>, pc = "ready" \/ cmd.what = "settings"
      PROVE  Holds(told)'
  BY <1>1 DEF Applied, Holds
<1>2. CASE UNCHANGED vars
  BY <1>1, <1>2 DEF vars
<1>3. ASSUME NEW c \in Commands, Apply(c) PROVE Holds(told)'
  BY <1>1, <1>3 DEF Apply, Begin
<1>4. ASSUME NEW c \in Commands, Suppress(c) PROVE Holds(told)'
  <2>1. c.what = "idle" /\ dev' = dev /\ told' = c /\ meddled = 0 /\ pc = "ready"
    BY <1>4 DEF Suppress, NeedsWrite
  <2>2. dev.input = 0 /\ dev.output = 0
    BY <1>4, <2>1, NoneAssumption DEF Suppress, NeedsWrite, IsZeroed, LedgerAgrees
  <2> QED
    BY <2>1, <2>2 DEF Holds
<1>5. CASE WakeLands
  <2>1. /\ dev'.input = dev.input /\ dev'.output = dev.output /\ dev'.ac = dev.ac
        /\ told' = told /\ meddled = 0 /\ cmd.what = "settings"
    BY <1>5 DEF WakeLands, TypeOK, Held
  <2> QED
    BY <2>1 DEF Applied, Holds
<1>6. CASE PostLands
  <2>1. cmd.what = "settings" /\ dev' = dev
    BY <1>6 DEF PostLands, Written
  <2> QED
    BY <1>1, <1>6, <2>1 DEF PostLands
<1>7. CASE PostAcked
  <2>1. CASE cmd.what = "settings"
    BY <1>1, <1>7, <2>1 DEF PostAcked
  <2>2. CASE cmd.what # "settings"
    <3>1. told' = cmd /\ dev' = dev /\ pc = "posted" /\ meddled = 0 /\ cmd \in Commands
      BY <1>7, <2>2 DEF PostAcked, TypeOK
    <3>2. Holds(cmd)
      BY <2>2, <3>1, CommandFacts DEF Landed
    <3> QED
      BY <3>1, <3>2 DEF Holds
  <2> QED
    BY <2>1, <2>2
<1>8. CASE PostFails
  BY <1>1, <1>8 DEF PostFails
<1>9. CASE WakeAcked \/ WakeFails \/ Settled
  BY <1>1, <1>9 DEF WakeAcked, WakeFails, Settled
<1>10. ASSUME NEW omitted \in BOOLEAN,
              ReportTaken \/ ReportLost \/ ReportParsed(omitted) PROVE Holds(told)'
  BY <1>1, <1>10 DEF ReportTaken, ReportLost, ReportParsed
<1>11. ASSUME NEW omitted \in BOOLEAN, Prepare(omitted) PROVE FALSE
  BY <1>11 DEF Prepare, Blank
<1>12. ASSUME NEW held, Meddles(held) PROVE FALSE
  BY <1>12 DEF Meddles
<1>13. CASE Restart
  BY <1>13 DEF Restart
<1> QED
  BY <1>2, <1>3, <1>4, <1>5, <1>6, <1>7, <1>8, <1>9, <1>10, <1>11, <1>12, <1>13
     DEF Next, Client, AppWrites, DeviceRestarts

\* The inductive invariant holds throughout.
THEOREM Invariance == Spec => []IInv
<1>1. IInv /\ [Next]_vars => IInv'
  BY TypeStep, BlankStep, UnseenStep, LedgerStep, AppliedStep DEF IInv
<1> QED
  BY <1>1, InvInit, PTL DEF Spec

-----------------------------------------------------------------------------
(* What it shows.                                                            *)

\* ZENDURE: with nobody else writing, what the adapter called applied is what the
\* device holds, and what its ledger claims to know is true, whatever requests
\* failed, landed unanswered or were cut short by a restart.
THEOREM SettingsAreSound == Spec => []SettingsSound
<1>1. IInv => SettingsSound
  BY DEF IInv, SettingsSound, Applied, AppliedIsHeld, Holds
<1> QED
  BY <1>1, Invariance, PTL

\* A setpoint reaches the flash only where the device changed its mode after the
\* last report read before the command began.
THEOREM FlashIsOnlyUnseen == Spec => FlashOnlyUnseen
<1>1. IInv /\ [Next]_vars
        => [PostLands /\ cmd.what \in AcModes /\ dev.smart = "flash" => unseen_flip]_vars
  BY DEF IInv, Unseen, PostLands
<1> QED
  BY <1>1, Invariance, PTL DEF Spec, FlashOnlyUnseen
=============================================================================
