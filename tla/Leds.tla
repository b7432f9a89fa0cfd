--------------------------------- MODULE Leds ---------------------------------
(***************************************************************************)
(* firmware/leds, and the part of KeysConfig that says what the LEDs show. *)
(* leds_task runs on core 1: a pass reads the mode, goes over the LEDs one *)
(* by one and pushes them to the strip.  Core 0 changes the mode, the      *)
(* flags and the colours meanwhile, and the user the levels of the keys.   *)
(* Colours are names; enable's table of their components is left out.      *)
(***************************************************************************)
EXTENDS Integers

CONSTANTS
  KeyIds,      \* key_ids of the configuration, 0 upwards
  LedsCount,   \* Leds::leds_count
  Colors       \* colours that a key may be given

ASSUME LedsConstants ==
  /\ KeyIds \subseteq Nat
  /\ LedsCount \in Nat
  /\ "off" \notin Colors

VARIABLES
  down,        \* !gpio_get of every key
  leds_mode,   \* KeysConfig::leds_mode; NONE is never set
  enabled,     \* KeysConfig: config.keys[].enabled, of the keys with an LED
  color,       \* KeysConfig: config.keys[].color, likewise
  leds,        \* Leds::leds, in RAM
  strip,       \* the WS2812 strip
  task         \* the pass of leds_task: the mode it read and the LEDs left

ledsVars == <<down, leds_mode, enabled, color, leds, strip, task>>
-----------------------------------------------------------------------------
LedIds == {k \in KeyIds : k < LedsCount}
Modes  == {"when_button_pressed", "handled_by_feature"}
Asleep == [mode |-> "asleep", left |-> {}]

\* The configuration of main, and the first refresh of Leds::init.
LedsInit ==
  /\ down = [k \in KeyIds |-> FALSE]
  /\ leds_mode = "when_button_pressed"
  /\ enabled = [k \in LedIds |-> TRUE]
  /\ color \in [LedIds -> Colors]
  /\ leds = [k \in LedIds |-> "off"] /\ strip = leds
  /\ task = Asleep

\* The user presses or releases a key.
MoveKey(k) ==
  /\ down' = [down EXCEPT ![k] = ~@]
  /\ UNCHANGED <<leds_mode, enabled, color, leds, strip, task>>

\* KeysConfig::set_key_color, from the terminal.
SetKeyColor(k, c) ==
  /\ color' = [color EXCEPT ![k] = c]
  /\ UNCHANGED <<down, leds_mode, enabled, leds, strip, task>>

\* led_enable of the tracker: the colour first, then the flag.
LedEnable(k) ==
  /\ enabled' = [enabled EXCEPT ![k] = TRUE]
  /\ UNCHANGED <<down, leds_mode, color, leds, strip, task>>

LedDisable(k) ==
  /\ enabled' = [enabled EXCEPT ![k] = FALSE]
  /\ UNCHANGED <<down, leds_mode, color, leds, strip, task>>

\* leds_task takes the mutex and reads the mode.
BeginPass ==
  /\ task = Asleep
  /\ task' = [mode |-> leds_mode, left |-> LedIds]
  /\ UNCHANGED <<down, leds_mode, enabled, color, leds, strip>>

\* What a pass in some mode makes of an LED: enable or disable.
Wanted(k, mode) ==
  IF IF mode = "when_button_pressed" THEN down[k] ELSE enabled[k] THEN color[k] ELSE "off"

\* Bug: there is no else to the test of a key.
UpdateLedOnlyOn ==
  \E k \in task.left :
    /\ \A j \in task.left : k <= j
    /\ leds' = IF Wanted(k, task.mode) = "off" THEN leds
               ELSE [leds EXCEPT ![k] = Wanted(k, task.mode)]
    /\ task' = [task EXCEPT !.left = @ \ {k}]
    /\ UNCHANGED <<down, leds_mode, enabled, color, strip>>

\* The next LED of the pass.
UpdateLed ==
  \E k \in task.left :
    /\ \A j \in task.left : k <= j
    /\ leds' = [leds EXCEPT ![k] = Wanted(k, task.mode)]
    /\ task' = [task EXCEPT !.left = @ \ {k}]
    /\ UNCHANGED <<down, leds_mode, enabled, color, strip>>

\* refresh ends the pass; core 1 gives the mutex back and sleeps 80 ms.
Refresh ==
  /\ task # Asleep /\ task.left = {}
  /\ strip' = leds
  /\ task' = Asleep
  /\ UNCHANGED <<down, leds_mode, enabled, color, leds>>

LedsTask == BeginPass \/ UpdateLed \/ Refresh
-----------------------------------------------------------------------------
LedsTypeOK ==
  /\ down \in [KeyIds -> BOOLEAN] /\ enabled \in [LedIds -> BOOLEAN]
  /\ color \in [LedIds -> Colors]
  /\ leds_mode \in Modes
  /\ leds \in [LedIds -> Colors \cup {"off"}] /\ strip \in [LedIds -> Colors \cup {"off"}]
  /\ task \in [mode : Modes, left : SUBSET LedIds] \cup {Asleep}

\* docs/features/ctrl_c_v.md, Dynamic LED Behavior: once the keys, the flags and
\* the colours are left alone, each LED shows them and goes on doing so, whatever
\* pass they were changed in the middle of, a change of the mode included.
LedsSettle ==
  <>[][UNCHANGED <<down, leds_mode, enabled, color>>]_ledsVars
    => <>[](\A k \in LedIds : strip[k] = Wanted(k, leds_mode))
=============================================================================
