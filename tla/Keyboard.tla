------------------------------- MODULE Keyboard -------------------------------
(***************************************************************************)
(* firmware/features/ctrl_c_v with hid_task and FeaturesHandler: from the  *)
(* levels of the keys to the keyboard report that the host works with, and *)
(* the LEDs beside them.  hid_task calls the current feature about every   *)
(* 10 ms, later, or in a burst after a handler that slept: at any time.    *)
(* The USB stack holds one report until the host polls for it, and counts  *)
(* as ready when it holds none and the bus is up.  What the tracker and    *)
(* the feature "none" do with a poll is nothing to the host.               *)
(***************************************************************************)
EXTENDS Leds

VARIABLES
  feature,            \* FeaturesHandler::config.current_feature
  has_keyboard_key,   \* CtrlCVFeature: the last report had a key
  key,                \* what handle read of the keys, between two polls "idle"
  usb,                \* "active", "suspended" or "unplugged"
  outbox,             \* the report that waits in the USB stack, or NoReport
  host                \* the keys the host takes for pressed

kbVars  == <<feature, has_keyboard_key, key, usb, outbox, host>>
allVars == <<ledsVars, kbVars>>
-----------------------------------------------------------------------------
Features == {"ctrl_c_v", "time_tracker", "none"}

\* The key values of main and of CtrlCVFeature::init, by key_id; the last one is
\* a modifier.
KeyValue  == <<"V", "C">>
LEFT_CMD  == 2
KeyColor  == <<"red", "green", "blue">>

ASSUME KeyboardConstants ==
  /\ KeyIds = 0 .. 2
  /\ \A k \in LedIds : KeyColor[k + 1] \in Colors

Report   == [key : {"V", "C", "NONE"}, modifier : BOOLEAN]
Released == [key |-> "NONE", modifier |-> FALSE]
NoReport == [key |-> "none yet", modifier |-> FALSE]

\* Bug: a modifier is taken for a key.
PressedKeyAnyButton ==
  IF down[0] THEN KeyValue[1] ELSE IF down[1] THEN KeyValue[2]
  ELSE IF down[LEFT_CMD] THEN "LEFT_CMD" ELSE "NONE"

\* Buttons::get_pressed_key: the first key in the order of the configuration.
PressedKey == IF down[0] THEN KeyValue[1] ELSE IF down[1] THEN KeyValue[2] ELSE "NONE"

\* tud_hid_ready
HidReady == usb = "active" /\ outbox = NoReport

KbInit ==
  /\ LedsInit
  /\ color = [k \in LedIds |-> KeyColor[k + 1]]
  /\ feature = "ctrl_c_v" /\ has_keyboard_key = FALSE
  /\ key = "idle"
  /\ usb = "unplugged" /\ outbox = NoReport /\ host = Released

\* hid_task and CtrlCVFeature::handle: the keys are read ...
Handle ==
  /\ key = "idle" /\ feature = "ctrl_c_v"
  /\ key' = PressedKey
  /\ UNCHANGED <<ledsVars, feature, has_keyboard_key, usb, outbox, host>>

\* Bug: what is remembered of the key is wrong when the report cannot be sent.
SendKeysForgets ==
  /\ key # "idle" /\ key' = "idle"
  /\ IF key # "NONE"
     THEN /\ outbox' = IF HidReady THEN [key |-> key, modifier |-> down[LEFT_CMD]] ELSE outbox
          /\ has_keyboard_key' = TRUE
     ELSE /\ outbox' = IF HidReady /\ has_keyboard_key THEN Released ELSE outbox
          /\ has_keyboard_key' = FALSE
  /\ UNCHANGED <<ledsVars, feature, usb, host>>

\* ... and send_keys reads the modifiers and reports, when the stack is ready.
SendKeys ==
  /\ key # "idle" /\ key' = "idle"
  /\ IF ~HidReady THEN UNCHANGED <<outbox, has_keyboard_key>>
     ELSE IF key # "NONE"
     THEN /\ outbox' = [key |-> key, modifier |-> down[LEFT_CMD]]
          /\ has_keyboard_key' = TRUE
     ELSE /\ outbox' = IF has_keyboard_key THEN Released ELSE outbox
          /\ has_keyboard_key' = FALSE
  /\ UNCHANGED <<ledsVars, feature, usb, host>>
-----------------------------------------------------------------------------
\* The host polls the endpoint.
HostPolls ==
  /\ usb = "active" /\ outbox # NoReport
  /\ host' = outbox /\ outbox' = NoReport
  /\ UNCHANGED <<ledsVars, feature, has_keyboard_key, key, usb>>

\* The bus is suspended and resumed, or the cable pulled and plugged: with the
\* device gone, the host releases its keys.
UsbSuspend == usb = "active" /\ usb' = "suspended" /\ UNCHANGED <<outbox, host>>
UsbResume  == usb = "suspended" /\ usb' = "active" /\ UNCHANGED <<outbox, host>>
UsbUnplug  == usb # "unplugged" /\ usb' = "unplugged" /\ outbox' = NoReport /\ host' = Released
UsbPlug    == usb = "unplugged" /\ usb' = "active" /\ UNCHANGED <<outbox, host>>
Usb ==
  /\ UsbSuspend \/ UsbResume \/ UsbUnplug \/ UsbPlug
  /\ UNCHANGED <<ledsVars, feature, has_keyboard_key, key>>
-----------------------------------------------------------------------------
\* Bug: the feature starts as if it had reported nothing.
CtrlCVInitForgets ==
  /\ has_keyboard_key' = FALSE
  /\ color' = [k \in LedIds |-> KeyColor[k + 1]]
  /\ leds_mode' = "when_button_pressed"

\* CtrlCVFeature::init; it has no deinit.
CtrlCVInit ==
  /\ has_keyboard_key' = has_keyboard_key
  /\ color' = [k \in LedIds |-> KeyColor[k + 1]]
  /\ leds_mode' = "when_button_pressed"

\* switch_to_feature, in the main loop: deinit and init.  Of the tracker it is
\* what its LEDs see: all disabled by both, and the mode (the LEDs it enables at
\* once for a threshold are those of TrackerLed).
SwitchFeature(f) ==
  /\ key = "idle"
  /\ feature' = f
  /\ enabled' = IF "time_tracker" \in {feature, f} THEN [k \in LedIds |-> FALSE] ELSE enabled
  /\ CASE f = "ctrl_c_v"     -> CtrlCVInit
       [] f = "time_tracker" -> leds_mode' = "handled_by_feature"
                                /\ UNCHANGED <<color, has_keyboard_key>>
       [] f = "none"         -> leds_mode' = "when_button_pressed"
                                /\ UNCHANGED <<color, has_keyboard_key>>
  /\ UNCHANGED <<down, leds, strip, task, key, usb, outbox, host>>

\* factory_init_features stops the tracker, current or not.
FactoryInitFeatures ==
  /\ key = "idle"
  /\ enabled' = [k \in LedIds |-> FALSE]
  /\ leds_mode' = "when_button_pressed"
  /\ UNCHANGED <<down, color, leds, strip, task, kbVars>>

\* The tracker, its key handlers and its timer light and darken LEDs.
TrackerLed(k) ==
  /\ feature = "time_tracker"
  /\ LedEnable(k) \/ LedDisable(k)
  /\ UNCHANGED kbVars

\* The terminal's change_color, and the tracker's colours.
ChangeColor(k, c) ==
  /\ SetKeyColor(k, c)
  /\ UNCHANGED kbVars

User(k) == MoveKey(k) /\ UNCHANGED kbVars
Core1   == LedsTask /\ UNCHANGED kbVars

KbNext ==
  \/ Handle \/ SendKeys
  \/ HostPolls \/ Usb
  \/ \E f \in Features : SwitchFeature(f)
  \/ FactoryInitFeatures
  \/ \E k \in KeyIds : User(k)
  \/ \E k \in LedIds : TrackerLed(k)
  \/ \E k \in LedIds, c \in Colors : ChangeColor(k, c)
  \/ Core1

KbSpec == KbInit /\ [][KbNext]_allVars

(***************************************************************************)
(* Main polls, the host polls, and core 1 gets the mutex: Storage lets     *)
(* core 0 keep it from core 1 only as long as it saves without a pause.    *)
(***************************************************************************)
KbFairSpec ==
  KbSpec /\ WF_allVars(Handle) /\ WF_allVars(SendKeys) /\ WF_allVars(HostPolls)
         /\ WF_allVars(Core1)
-----------------------------------------------------------------------------
KbTypeOK ==
  /\ LedsTypeOK
  /\ feature \in Features /\ has_keyboard_key \in BOOLEAN
  /\ key \in {"idle", "V", "C", "NONE"}
  /\ usb \in {"active", "suspended", "unplugged"}
  /\ outbox \in Report \cup {NoReport} /\ host \in Report

\* What the next poll has to make of the keys.
Physical == [key |-> PressedKey, modifier |-> PressedKey # "NONE" /\ down[LEFT_CMD]]

\* A key that the host takes for pressed is never forgotten: the release is on its
\* way, or the feature knows that it owes one, whatever happened to the bus and to
\* the feature since the key was reported.
ReleaseOwed ==
  /\ host.key # "NONE" => has_keyboard_key \/ outbox = Released
  /\ outbox.key \in {"V", "C"} => has_keyboard_key

\* Once the keys, the feature and the bus are left alone, the host works with the
\* keys as they are, and with the modifier that is held: no key remains pressed
\* for it, after a switch away from the feature and back neither.
HostSettles ==
  <>[][UNCHANGED <<down, feature, usb>>]_allVars
    => <>[](feature = "ctrl_c_v" /\ usb = "active" => host = Physical)
=============================================================================
