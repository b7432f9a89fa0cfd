---------------------------- MODULE KeyboardProofs ----------------------------
(***************************************************************************)
(* What TLAPS proves of Keyboard for every number of LEDs and every set of *)
(* colours: types, that no key the host takes for pressed is forgotten,    *)
(* and that what one pass of leds_task, or one report, makes right stays   *)
(* right.                                                                  *)
(***************************************************************************)
EXTENDS Keyboard, TLAPS

\* Whatever was read of the keys is a key or none; ReleaseOwed is inductive.
IInv == KbTypeOK /\ ReleaseOwed

LEMMA ConstantFacts ==
  /\ KeyIds = 0 .. 2 /\ LEFT_CMD \in KeyIds
  /\ LedIds \subseteq KeyIds
  /\ [k \in LedIds |-> KeyColor[k + 1]] \in [LedIds -> Colors]
  /\ NoReport \notin Report /\ Released \in Report /\ NoReport # Released
<1>1. KeyIds = 0 .. 2 /\ LEFT_CMD \in KeyIds /\ LedIds \subseteq KeyIds
  BY KeyboardConstants DEF LEFT_CMD, LedIds
<1>2. [k \in LedIds |-> KeyColor[k + 1]] \in [LedIds -> Colors]
  BY KeyboardConstants
<1>3. NoReport.key \notin {"V", "C", "NONE"} /\ Released \in Report
  BY DEF NoReport, Report, Released
<1>4. \A r \in Report : r.key \in {"V", "C", "NONE"}
  BY DEF Report
<1> QED BY <1>1, <1>2, <1>3, <1>4

LEMMA PressedKeyIsKey == KbTypeOK => PressedKey \in {"V", "C", "NONE"}
BY DEF PressedKey, KeyValue

LEMMA WantedIsColor ==
  ASSUME LedsTypeOK, NEW k \in LedIds, NEW mode
  PROVE  Wanted(k, mode) \in Colors \cup {"off"}
<1>1. color[k] \in Colors
  BY DEF LedsTypeOK
<1> QED BY <1>1, Zenon DEF Wanted

LEMMA InitIInv == KbInit => IInv
<1> SUFFICES ASSUME KbInit PROVE IInv
  OBVIOUS
<1> USE DEF KbInit, LedsInit
<1>1. down \in [KeyIds -> BOOLEAN] /\ enabled \in [LedIds -> BOOLEAN]
  OBVIOUS
<1>2. color \in [LedIds -> Colors]
  OBVIOUS
<1>3. leds \in [LedIds -> Colors \cup {"off"}] /\ strip \in [LedIds -> Colors \cup {"off"}]
  OBVIOUS
<1>4. leds_mode \in Modes /\ task = Asleep
  BY DEF Modes
<1>5. LedsTypeOK
  BY <1>1, <1>2, <1>3, <1>4 DEF LedsTypeOK
<1>6. /\ feature \in Features /\ has_keyboard_key \in BOOLEAN /\ key = "idle"
      /\ usb = "unplugged" /\ outbox = NoReport /\ host = Released
  BY DEF Features
<1>7. KbTypeOK
  BY <1>5, <1>6, ConstantFacts DEF KbTypeOK
<1>8. ReleaseOwed
  <2>1. Released.key = "NONE" /\ NoReport.key = "none yet"
    BY DEF Released, NoReport
  <2>2. host = Released /\ outbox = NoReport
    BY <1>6
  <2> HIDE DEF KbInit
  <2> QED BY <2>1, <2>2, Zenon DEF ReleaseOwed
<1> QED BY <1>7, <1>8 DEF IInv

\* A step of core 1 or of the user keeps the types of the LEDs.
LEMMA LedsStep ==
  ASSUME LedsTypeOK,
         \/ LedsTask
         \/ \E k \in KeyIds : MoveKey(k)
         \/ \E k \in LedIds : LedEnable(k) \/ LedDisable(k)
         \/ \E k \in LedIds, c \in Colors : SetKeyColor(k, c)
  PROVE  LedsTypeOK'
<1> USE DEF LedsTypeOK
<1>1. CASE BeginPass
  BY <1>1 DEF BeginPass
<1>2. CASE UpdateLed
  <2>1. PICK k \in task.left :
          /\ leds' = [leds EXCEPT ![k] = Wanted(k, task.mode)]
          /\ task' = [task EXCEPT !.left = @ \ {k}]
          /\ UNCHANGED <<down, leds_mode, enabled, color, strip>>
    BY <1>2 DEF UpdateLed
  <2>2. task \in [mode : Modes, left : SUBSET LedIds] /\ k \in LedIds
    BY <2>1 DEF Asleep
  <2>3. Wanted(k, task.mode) \in Colors \cup {"off"}
    BY <2>2, WantedIsColor
  <2> QED BY <2>1, <2>2, <2>3
<1>3. CASE Refresh
  BY <1>3 DEF Refresh
<1>4. CASE \E k \in KeyIds : MoveKey(k)
  BY <1>4 DEF MoveKey
<1>5. CASE \E k \in LedIds : LedEnable(k) \/ LedDisable(k)
  BY <1>5 DEF LedEnable, LedDisable
<1>6. CASE \E k \in LedIds, c \in Colors : SetKeyColor(k, c)
  BY <1>6 DEF SetKeyColor
<1> QED BY <1>1, <1>2, <1>3, <1>4, <1>5, <1>6 DEF LedsTask

\* The report of the keys, and the host and the bus that take it.
LEMMA ReportStep ==
  ASSUME IInv, Handle \/ SendKeys \/ HostPolls \/ Usb
  PROVE  IInv'
<1> USE ConstantFacts DEF IInv, KbTypeOK, LedsTypeOK, ReleaseOwed, ledsVars
<1>1. CASE Handle
  BY <1>1, PressedKeyIsKey DEF Handle
<1>2. CASE SendKeys
  <2>1. CASE ~HidReady
    BY <1>2, <2>1 DEF SendKeys
  <2>2. CASE HidReady /\ key # "NONE"
    <3>1. outbox' = [key |-> key, modifier |-> down[LEFT_CMD]] /\ has_keyboard_key'
      BY <1>2, <2>2 DEF SendKeys
    <3>2. outbox' \in Report
      BY <1>2, <2>2, <3>1 DEF SendKeys, Report
    <3> QED BY <1>2, <3>1, <3>2 DEF SendKeys
  <2>3. CASE HidReady /\ key = "NONE"
    <3>1. outbox = NoReport /\ outbox # Released
      BY <2>3, ConstantFacts DEF HidReady
    <3>2. ~has_keyboard_key' /\ outbox' = IF has_keyboard_key THEN Released ELSE outbox
      BY <1>2, <2>3 DEF SendKeys
    <3>3. outbox'.key \notin {"V", "C"}
      BY <3>1, <3>2 DEF Released, NoReport
    <3> QED BY <1>2, <3>1, <3>2, <3>3 DEF SendKeys
  <2> QED BY <2>1, <2>2, <2>3
<1>3. CASE HostPolls
  BY <1>3 DEF HostPolls, Report, Released, NoReport
<1>4. CASE Usb
  <2>1. CASE UNCHANGED <<outbox, host>>
    <3>1. usb' \in {"active", "suspended", "unplugged"}
      BY <1>4 DEF Usb, UsbSuspend, UsbResume, UsbUnplug, UsbPlug
    <3> QED BY <1>4, <2>1, <3>1 DEF Usb
  <2>2. CASE UsbUnplug
    BY <1>4, <2>2 DEF Usb, UsbUnplug, Released, NoReport
  <2> QED BY <1>4, <2>1, <2>2 DEF Usb, UsbSuspend, UsbResume, UsbPlug
<1> QED BY <1>1, <1>2, <1>3, <1>4

\* The commands of the terminal, the tracker's LEDs, the user and core 1.
LEMMA OtherStep ==
  ASSUME IInv,
         \/ \E f \in Features : SwitchFeature(f)
         \/ FactoryInitFeatures
         \/ \E k \in KeyIds : User(k)
         \/ \E k \in LedIds : TrackerLed(k)
         \/ \E k \in LedIds, c \in Colors : ChangeColor(k, c)
         \/ Core1
  PROVE  IInv'
<1> USE ConstantFacts DEF IInv, KbTypeOK, ReleaseOwed
<1>1. ASSUME NEW f \in Features, SwitchFeature(f) PROVE IInv'
  <2>1. CASE f = "ctrl_c_v"
    BY <1>1, <2>1 DEF SwitchFeature, CtrlCVInit, LedsTypeOK, Modes
  <2>2. CASE f = "time_tracker"
    BY <1>1, <2>2 DEF SwitchFeature, LedsTypeOK, Modes
  <2>3. CASE f = "none"
    BY <1>1, <2>3 DEF SwitchFeature, LedsTypeOK, Modes
  <2> QED BY <2>1, <2>2, <2>3 DEF Features
<1>2. CASE FactoryInitFeatures
  BY <1>2 DEF FactoryInitFeatures, LedsTypeOK, Modes, kbVars
<1>3. ASSUME \/ \E k \in KeyIds : User(k)
             \/ \E k \in LedIds : TrackerLed(k)
             \/ \E k \in LedIds, c \in Colors : ChangeColor(k, c)
             \/ Core1
      PROVE IInv'
  <2>1. LedsTypeOK'
    BY <1>3, LedsStep DEF User, TrackerLed, ChangeColor, Core1
  <2>2. UNCHANGED kbVars
    BY <1>3 DEF User, TrackerLed, ChangeColor, Core1
  <2> QED BY <2>1, <2>2 DEF kbVars
<1> QED BY <1>1, <1>2, <1>3

LEMMA NextIInv == IInv /\ [KbNext]_allVars => IInv'
<1> SUFFICES ASSUME IInv, [KbNext]_allVars PROVE IInv'
  OBVIOUS
<1>1. CASE UNCHANGED allVars
  BY <1>1 DEF allVars, ledsVars, kbVars, IInv, KbTypeOK, LedsTypeOK, ReleaseOwed
<1>2. CASE KbNext
  BY <1>2, ReportStep, OtherStep DEF KbNext
<1> QED BY <1>1, <1>2

\* What is read, reported and shown keeps its type, for every number of LEDs.
THEOREM SpecKbTypeOK == KbSpec => []KbTypeOK
<1>1. IInv => KbTypeOK
  BY DEF IInv
<1> QED BY <1>1, InitIInv, NextIInv, PTL DEF KbSpec

\* ctrl_c_v owes the host the release of every key that it left pressed there: the
\* debt survives feature switches, a bus that is suspended and reports not taken.
THEOREM SpecReleaseOwed == KbSpec => []ReleaseOwed
<1>1. IInv => ReleaseOwed
  BY DEF IInv
<1> QED BY <1>1, InitIInv, NextIInv, PTL DEF KbSpec

-----------------------------------------------------------------------------
(* The safety half of LedsSettle: the first pass that begins after the last    *)
(* change of a key, a flag, a colour or the mode makes the LEDs right, and     *)
(* they stay right.                                                            *)

LedsLeftAlone == UNCHANGED <<down, leds_mode, enabled, color>>

\* The pass read the mode that holds, and the LEDs behind it are right.
PassCurrent ==
  /\ task # Asleep /\ task.mode = leds_mode
  /\ \A k \in LedIds \ task.left : leds[k] = Wanted(k, leds_mode)

\* All LEDs are right, and no pass of another mode is under way.
LedsRight ==
  /\ \A k \in LedIds : leds[k] = Wanted(k, leds_mode) /\ strip[k] = leds[k]
  /\ task = Asleep \/ task.mode = leds_mode

LEMMA WantedStays ==
  ASSUME LedsLeftAlone, NEW k \in LedIds, NEW mode
  PROVE  Wanted(k, mode)' = Wanted(k, mode)
BY DEF LedsLeftAlone, Wanted

\* Nobody but core 1 writes to the LEDs.
LEMMA WhoWritesLeds ==
  ASSUME [KbNext]_allVars
  PROVE  UNCHANGED <<leds, strip, task>> \/ BeginPass \/ UpdateLed \/ Refresh
<1>1. CASE UNCHANGED allVars
  BY <1>1 DEF allVars, ledsVars
<1>2. CASE Handle \/ SendKeys \/ HostPolls \/ Usb
  BY <1>2 DEF Handle, SendKeys, HostPolls, Usb, ledsVars
<1>3. CASE \/ \E f \in Features : SwitchFeature(f)
           \/ FactoryInitFeatures
           \/ \E k \in KeyIds : User(k)
           \/ \E k \in LedIds : TrackerLed(k)
           \/ \E k \in LedIds, c \in Colors : ChangeColor(k, c)
  BY <1>3 DEF SwitchFeature, FactoryInitFeatures, User, MoveKey, TrackerLed, LedEnable, LedDisable,
              ChangeColor, SetKeyColor
<1>4. CASE Core1
  BY <1>4 DEF Core1, LedsTask
<1> QED
  BY <1>1, <1>2, <1>3, <1>4 DEF KbNext

LEMMA LedsPassStep ==
  ASSUME KbTypeOK, [KbNext]_allVars, LedsLeftAlone
  PROVE  /\ LedsRight => LedsRight'
         /\ PassCurrent => (PassCurrent \/ LedsRight)'
         /\ BeginPass => PassCurrent'
         /\ PassCurrent /\ Refresh => LedsRight'
<1>1. /\ leds_mode' = leds_mode
      /\ \A k \in LedIds : Wanted(k, leds_mode)' = Wanted(k, leds_mode)
  BY WantedStays DEF LedsLeftAlone
<1>2. CASE UNCHANGED <<leds, strip, task>>
  <2>1. (LedsRight => LedsRight') /\ (PassCurrent => PassCurrent')
    BY <1>1, <1>2 DEF LedsRight, PassCurrent
  <2>2. leds_mode # "asleep"
    BY DEF KbTypeOK, LedsTypeOK, Modes
  <2>3. ~BeginPass
    <3>1. [mode |-> leds_mode, left |-> LedIds].mode # Asleep.mode
      BY <2>2 DEF Asleep
    <3> QED
      BY <1>2, <3>1 DEF BeginPass
  <2>4. ~Refresh
    BY <1>2 DEF Refresh
  <2> QED
    BY <2>1, <2>3, <2>4
<1>3. CASE BeginPass
  <2>1. task = Asleep /\ task' = [mode |-> leds_mode, left |-> LedIds] /\ leds' = leds /\ strip' = strip
    BY <1>3 DEF BeginPass
  <2>2. leds_mode # "asleep"
    BY DEF KbTypeOK, LedsTypeOK, Modes
  <2>3. PassCurrent' /\ task'.mode = leds_mode
    BY <1>1, <2>1, <2>2 DEF PassCurrent, Asleep
  <2>4. LedsRight => LedsRight'
    BY <1>1, <2>1, <2>3 DEF LedsRight
  <2>5. ~Refresh
    BY <2>1 DEF Refresh
  <2> QED
    BY <2>3, <2>4, <2>5
<1>4. CASE UpdateLed
  <2>1. PICK k \in task.left :
          /\ leds' = [leds EXCEPT ![k] = Wanted(k, task.mode)]
          /\ task' = [task EXCEPT !.left = @ \ {k}] /\ strip' = strip
    BY <1>4 DEF UpdateLed
  <2>2. task \in [mode : Modes, left : SUBSET LedIds] /\ k \in LedIds
    BY <2>1 DEF Asleep, KbTypeOK, LedsTypeOK
  <2>3. /\ task'.mode = task.mode /\ task'.left = task.left \ {k} /\ task' # Asleep
        /\ leds'[k] = Wanted(k, task.mode)
        /\ \A j \in LedIds : j # k => leds'[j] = leds[j]
    BY <2>1, <2>2 DEF KbTypeOK, LedsTypeOK, Asleep, Modes
  <2>4. LedsRight => LedsRight'
    <3> SUFFICES ASSUME LedsRight PROVE LedsRight'
      OBVIOUS
    <3>1. task.mode = leds_mode
      BY <2>2 DEF LedsRight, Asleep, Modes
    <3>2. \A j \in LedIds : leds'[j] = leds[j]
      BY <2>2, <2>3, <3>1 DEF LedsRight
    <3> QED
      BY <1>1, <2>1, <2>3, <3>1, <3>2 DEF LedsRight
  <2>5. PassCurrent => PassCurrent'
    BY <1>1, <2>2, <2>3 DEF PassCurrent
  <2>6. ~BeginPass /\ ~Refresh
    BY <2>1, <2>2 DEF BeginPass, Refresh, Asleep, Modes
  <2> QED
    BY <2>4, <2>5, <2>6
<1>5. CASE Refresh
  <2>1. task # Asleep /\ task.left = {} /\ strip' = leds /\ leds' = leds /\ task' = Asleep
    BY <1>5 DEF Refresh
  <2>2. PassCurrent \/ LedsRight => LedsRight'
    BY <1>1, <2>1 DEF PassCurrent, LedsRight
  <2>3. ~BeginPass
    BY <2>1 DEF BeginPass
  <2> QED
    BY <2>2, <2>3
<1> QED
  BY <1>2, <1>3, <1>4, <1>5, WhoWritesLeds

\* Whatever pass the keys, flags, colours and mode were changed in the middle of:
\* from the last change on, a pass of leds_task that begins ends with every LED
\* right, on the strip too, and nothing but another change makes one wrong again.
THEOREM SpecPassMakesLedsRight ==
  KbSpec => []([][LedsLeftAlone]_ledsVars =>
                 /\ [](LedsRight => []LedsRight)
                 /\ [](PassCurrent => [](PassCurrent \/ LedsRight))
                 /\ [][BeginPass => PassCurrent']_ledsVars
                 /\ [][PassCurrent /\ Refresh => LedsRight']_ledsVars)
<1>1. UNCHANGED ledsVars => LedsLeftAlone
  BY DEF ledsVars, LedsLeftAlone
<1> QED
  BY <1>1, LedsPassStep, SpecKbTypeOK, PTL DEF KbSpec

-----------------------------------------------------------------------------
(* The safety half of HostSettles: the first key that is read after the last   *)
(* change, once it is reported, is what the host works with, and remains it.   *)
(* A release is reported only if has_keyboard_key says that one is owed, so    *)
(* this rests on ReleaseOwed.                                                  *)

HostLeftAlone == UNCHANGED <<down, feature, usb>>

\* What handle read is how the keys are.
KeyCurrent == key \in {"idle", PressedKey}

\* The host has it, or will take it with its next poll.
Reported == KeyCurrent /\ (outbox = Physical \/ (outbox = NoReport /\ host = Physical))

\* A modifier is reported beside a key only.
NoModifierAlone ==
  (host.key = "NONE" => host = Released) /\ (outbox.key = "NONE" => outbox = Released)

LEMMA NextNoModifierAlone == NoModifierAlone /\ [KbNext]_allVars => NoModifierAlone'
<1> SUFFICES ASSUME NoModifierAlone, [KbNext]_allVars PROVE NoModifierAlone'
  OBVIOUS
<1>1. CASE UNCHANGED <<outbox, host>>
  BY <1>1 DEF NoModifierAlone
<1>2. CASE SendKeys
  <2>1. CASE ~HidReady
    BY <1>2, <2>1 DEF SendKeys, NoModifierAlone
  <2>2. CASE HidReady /\ key # "NONE"
    <3>1. outbox' = [key |-> key, modifier |-> down[LEFT_CMD]] /\ host' = host
      BY <1>2, <2>2 DEF SendKeys
    <3>2. outbox'.key = key
      BY <3>1
    <3> QED
      BY <2>2, <3>1, <3>2 DEF NoModifierAlone
  <2>3. CASE HidReady /\ key = "NONE"
    <3>1. host' = host /\ outbox' \in {Released, outbox}
      BY <1>2, <2>3 DEF SendKeys
    <3> QED
      BY <3>1 DEF NoModifierAlone
  <2> QED
    BY <2>1, <2>2, <2>3
<1>3. CASE HostPolls
  BY <1>3 DEF HostPolls, NoModifierAlone, NoReport
<1>4. CASE Usb
  <2>1. NoReport.key = "none yet"
    BY DEF NoReport
  <2>2. UNCHANGED <<outbox, host>> \/ (outbox' = NoReport /\ host' = Released)
    BY <1>4 DEF Usb, UsbSuspend, UsbResume, UsbUnplug, UsbPlug
  <2> QED
    BY <2>1, <2>2 DEF NoModifierAlone
<1>5. CASE \/ Handle
           \/ \E f \in Features : SwitchFeature(f)
           \/ FactoryInitFeatures
           \/ \E k \in KeyIds : User(k)
           \/ \E k \in LedIds : TrackerLed(k)
           \/ \E k \in LedIds, c \in Colors : ChangeColor(k, c)
           \/ Core1
  <2>1. UNCHANGED <<outbox, host>>
    BY <1>5 DEF Handle, SwitchFeature, FactoryInitFeatures, User, TrackerLed, ChangeColor, Core1, kbVars
  <2> QED
    BY <1>1, <2>1
<1>6. UNCHANGED allVars => UNCHANGED <<outbox, host>>
  BY DEF allVars, kbVars
<1> QED
  BY <1>1, <1>2, <1>3, <1>4, <1>5, <1>6 DEF KbNext

LEMMA PhysicalFacts ==
  /\ Physical.key = PressedKey /\ Physical.key # NoReport.key /\ Physical # NoReport
  /\ PressedKey = "NONE" => Physical = Released
  /\ PressedKey # "idle"
<1>1. PressedKey \in {"V", "C", "NONE"}
  BY DEF PressedKey, KeyValue
<1>2. Physical.key = PressedKey
  BY DEF Physical
<1>3. NoReport.key = "none yet"
  BY DEF NoReport
<1>4. PressedKey = "NONE" => Physical = Released
  BY DEF Physical, Released
<1> QED
  BY <1>1, <1>2, <1>3, <1>4

\* Which steps touch what was read, what is reported and what the host has.
LEMMA WhoReports ==
  ASSUME [KbNext]_allVars, HostLeftAlone
  PROVE  \/ UNCHANGED <<key, outbox, host>>
         \/ Handle \/ SendKeys \/ HostPolls
<1>1. CASE UNCHANGED allVars
  BY <1>1 DEF allVars, kbVars
<1>2. ~Usb
  BY DEF Usb, UsbSuspend, UsbResume, UsbUnplug, UsbPlug, HostLeftAlone
<1>3. CASE \/ \E f \in Features : SwitchFeature(f)
           \/ FactoryInitFeatures
           \/ \E k \in KeyIds : User(k)
           \/ \E k \in LedIds : TrackerLed(k)
           \/ \E k \in LedIds, c \in Colors : ChangeColor(k, c)
           \/ Core1
  BY <1>3 DEF SwitchFeature, FactoryInitFeatures, User, TrackerLed, ChangeColor, Core1, kbVars
<1> QED
  BY <1>1, <1>2, <1>3 DEF KbNext

LEMMA HostStep ==
  ASSUME KbTypeOK, ReleaseOwed, NoModifierAlone, [KbNext]_allVars, HostLeftAlone
  PROVE  /\ KeyCurrent => KeyCurrent'
         /\ Reported => Reported'
         /\ Reported /\ host = Physical => (host = Physical)'
         /\ Handle => KeyCurrent'
         /\ KeyCurrent /\ SendKeys /\ HidReady => Reported'
         /\ Reported /\ HostPolls => (host = Physical)'
<1>1. PressedKey' = PressedKey /\ Physical' = Physical
  BY DEF HostLeftAlone, PressedKey, Physical
<1>2. CASE UNCHANGED <<key, outbox, host>>
  <2>1. ~Handle
    BY <1>2, PhysicalFacts DEF Handle
  <2>2. ~SendKeys
    BY <1>2 DEF SendKeys
  <2>3. ~HostPolls
    BY <1>2 DEF HostPolls
  <2> QED
    BY <1>1, <1>2, <2>1, <2>2, <2>3 DEF KeyCurrent, Reported
<1>3. CASE Handle
  <2>1. key = "idle" /\ key' = PressedKey /\ UNCHANGED <<outbox, host>>
    BY <1>3 DEF Handle
  <2>2. ~SendKeys
    BY <2>1 DEF SendKeys
  <2>3. ~HostPolls
    BY <2>1 DEF HostPolls
  <2> QED
    BY <1>1, <2>1, <2>2, <2>3 DEF KeyCurrent, Reported
<1>4. CASE SendKeys
  <2>1. key # "idle" /\ key' = "idle" /\ host' = host
    BY <1>4 DEF SendKeys
  <2>2. KeyCurrent' /\ ~Handle
    BY <2>1 DEF KeyCurrent, Handle
  <2>3. ~HostPolls
    BY <1>4 DEF HostPolls, SendKeys, HidReady
  <2>4. CASE ~HidReady
    BY <1>1, <1>4, <2>1, <2>2, <2>3, <2>4 DEF SendKeys, Reported
  <2>5. ASSUME HidReady, KeyCurrent PROVE Reported'
    <3>1. outbox = NoReport /\ key = PressedKey
      BY <2>1, <2>5 DEF HidReady, KeyCurrent
    <3>2. CASE key # "NONE"
      <4>1. outbox' = [key |-> key, modifier |-> down[LEFT_CMD]]
        BY <1>4, <2>5, <3>2 DEF SendKeys
      <4>2. down[LEFT_CMD] \in BOOLEAN
        BY ConstantFacts DEF KbTypeOK, LedsTypeOK
      <4>3. (PressedKey # "NONE" /\ down[LEFT_CMD]) = down[LEFT_CMD]
        BY <3>1, <3>2, <4>2
      <4>4. outbox' = Physical
        BY <3>1, <4>1, <4>3 DEF Physical
      <4> QED
        BY <1>1, <2>2, <4>4 DEF Reported
    <3>3. CASE key = "NONE"
      <4>1. outbox' = IF has_keyboard_key THEN Released ELSE outbox
        BY <1>4, <2>5, <3>3 DEF SendKeys
      <4>2. Physical = Released
        BY <3>1, <3>3, PhysicalFacts
      <4>3. CASE has_keyboard_key
        BY <1>1, <2>2, <4>1, <4>2, <4>3 DEF Reported
      <4>4. CASE ~has_keyboard_key
        <5>1. outbox # Released
          BY <3>1, ConstantFacts
        <5>2. host = Released
          BY <4>4, <5>1 DEF ReleaseOwed, NoModifierAlone
        <5> QED
          BY <1>1, <2>1, <2>2, <3>1, <4>1, <4>2, <4>4, <5>2 DEF Reported
      <4> QED
        BY <4>3, <4>4
    <3> QED
      BY <3>2, <3>3
  <2>6. Reported => Reported'
    BY <2>4, <2>5 DEF Reported
  <2> QED
    BY <1>1, <2>1, <2>2, <2>3, <2>5, <2>6
<1>5. CASE HostPolls
  <2>1. outbox # NoReport /\ host' = outbox /\ outbox' = NoReport /\ key' = key
    BY <1>5 DEF HostPolls
  <2>2. ~Handle
    BY <2>1 DEF Handle
  <2>3. ~SendKeys
    BY <2>1 DEF SendKeys
  <2>4. KeyCurrent => KeyCurrent'
    BY <1>1, <2>1 DEF KeyCurrent
  <2>5. Reported => Reported' /\ (host = Physical)'
    BY <1>1, <2>1, <2>4 DEF Reported
  <2> QED
    BY <2>2, <2>3, <2>4, <2>5
<1> QED
  BY <1>2, <1>3, <1>4, <1>5, WhoReports

\* After the last change of the keys, the feature and the bus, the first report
\* that goes out of a key read since makes the host right with its next poll, and
\* nothing makes it wrong again: not a release that is owed to it, nor one it had.
THEOREM SpecReportMakesHostRight ==
  KbSpec => []([][HostLeftAlone]_allVars =>
                 /\ [](KeyCurrent => []KeyCurrent)
                 /\ [](Reported => []Reported)
                 /\ [](Reported /\ host = Physical => [](host = Physical))
                 /\ [][Handle => KeyCurrent']_allVars
                 /\ [][KeyCurrent /\ SendKeys /\ HidReady => Reported']_allVars
                 /\ [][Reported /\ HostPolls => (host = Physical)']_allVars)
<1>1. UNCHANGED allVars => HostLeftAlone
  BY DEF allVars, ledsVars, kbVars, HostLeftAlone
<1>2. KbInit => NoModifierAlone
  <2>1. NoReport.key = "none yet"
    BY DEF NoReport
  <2>2. KbInit => outbox = NoReport /\ host = Released
    BY DEF KbInit
  <2> QED
    BY <2>1, <2>2 DEF NoModifierAlone
<1> QED
  BY <1>1, <1>2, HostStep, NextNoModifierAlone, SpecKbTypeOK, SpecReleaseOwed, PTL DEF KbSpec
=============================================================================
