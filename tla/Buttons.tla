------------------------------- MODULE Buttons -------------------------------
(***************************************************************************)
(* firmware/buttons: from the level of a key to the press that the tracker *)
(* handles.  gpio_callback and the two timer callbacks are interrupts of   *)
(* equal priority, atomic to one another; the main loop runs in between,   *)
(* and clears what it takes by three plain stores which they may split.    *)
(* The interrupt of a key that is down is raised again as soon as it       *)
(* returns (GPIO_IRQ_LEVEL_LOW), so the main loop stands still meanwhile.  *)
(* button_map is a function per field; time is counted in ticks.           *)
(***************************************************************************)
EXTENDS Integers

CONSTANTS
  Keys,                      \* the key_ids of button_map
  DEBOUNCE_DELAY,            \* DEBOUNCE_DELAY_MS, in ticks
  LONG_PRESS_CHECK_DELAY,    \* LONG_PRESS_CHECK_DELAY_MS, in ticks
  LongPressDelayDefault,     \* LONG_PRESS_DELAY_MS_DEFAULT, in ticks
  LongPressDelays,           \* delays that the host sets, in ticks
  LongestDelay,              \* bound: the longest of them
  ClockWraps,                \* whether the 32-bit millisecond clock wraps
  MaxTimers                  \* bound: timers alive at once for one key

VARIABLES
  down,                 \* !gpio_get: the key is held, or its contact bounces
  is_debouncing,
  is_pending_handle,
  is_long_press,
  elapsed,              \* now - long_press_start_time, as the callback finds it,
                        \* LongestDelay standing for all that is as long
  timers,               \* the repeating timers of each key
  long_press_delay,     \* KeysConfig::long_press_delay_ms
  irq,                  \* LEVEL_LOW interrupts are enabled on the keys
  polled,               \* the current feature handles keys: it is the tracker
  taken,                \* the key main took, with the fields left to clear
  pressed_for           \* history: ticks since the oldest timer's press began

vars == <<down, is_debouncing, is_pending_handle, is_long_press, elapsed, timers, irq,
          long_press_delay, polled, taken, pressed_for>>
-----------------------------------------------------------------------------
Slots   == 1 .. MaxTimers
NoTimer == [kind |-> "none", due |-> 0]
Timer   == [kind : {"debounce", "long_press"}, due : Nat] \cup {NoTimer}
Alive(k) == {i \in Slots : timers[k][i] # NoTimer}

NoKey  == [key |-> -1, clear |-> {}]
Fields == {"is_pending_handle", "is_long_press", "is_debouncing"}

ASSUME ButtonsConstants ==
  /\ Keys \subseteq Nat /\ ClockWraps \in BOOLEAN
  /\ DEBOUNCE_DELAY \in Nat /\ LONG_PRESS_CHECK_DELAY \in Nat
  /\ LongestDelay \in Nat /\ MaxTimers \in Nat
  /\ LongPressDelays \cup {LongPressDelayDefault} \subseteq 0 .. LongestDelay

\* Buttons::init, and the tracker's init after it.
Init ==
  /\ down = [k \in Keys |-> FALSE]
  /\ is_debouncing = [k \in Keys |-> FALSE]
  /\ is_pending_handle = [k \in Keys |-> FALSE]
  /\ is_long_press = [k \in Keys |-> FALSE]
  /\ elapsed = [k \in Keys |-> LongestDelay]
  /\ timers = [k \in Keys |-> [i \in Slots |-> NoTimer]]
  /\ long_press_delay = LongPressDelayDefault
  /\ irq = TRUE /\ polled = TRUE
  /\ taken = NoKey
  /\ pressed_for = [k \in Keys |-> 0]

\* The user, and the bouncing contact.
Press(k) ==
  /\ ~down[k] /\ down' = [down EXCEPT ![k] = TRUE]
  /\ UNCHANGED <<is_debouncing, is_pending_handle, is_long_press, elapsed, timers, irq,
                 long_press_delay, polled, taken, pressed_for>>

Release(k) ==
  /\ down[k] /\ down' = [down EXCEPT ![k] = FALSE]
  /\ UNCHANGED <<is_debouncing, is_pending_handle, is_long_press, elapsed, timers, irq,
                 long_press_delay, polled, taken, pressed_for>>
-----------------------------------------------------------------------------
\* Bug: the delay has the wrong sign, and the timer never comes due.
StartNegative(k, i, kind, delay) == [timers EXCEPT ![k][i] = [kind |-> kind, due |-> -delay]]

Start(k, i, kind, delay) == [timers EXCEPT ![k][i] = [kind |-> kind, due |-> delay]]

\* gpio_callback; with nothing to do it only returns.
GpioCallback(k) ==
  /\ irq /\ down[k]
  /\ ~is_debouncing[k] /\ ~is_pending_handle[k]
  /\ is_debouncing' = [is_debouncing EXCEPT ![k] = TRUE]
  /\ \E i \in Slots \ Alive(k) : timers' = Start(k, i, "debounce", DEBOUNCE_DELAY)
  /\ pressed_for' = IF Alive(k) = {} THEN [pressed_for EXCEPT ![k] = 0] ELSE pressed_for
  /\ UNCHANGED <<down, is_pending_handle, is_long_press, elapsed, irq, long_press_delay,
                 polled, taken>>

\* A timer callback reports the press and ends its timer.
Report(k, i) ==
  /\ is_pending_handle' = [is_pending_handle EXCEPT ![k] = TRUE]
  /\ is_debouncing' = [is_debouncing EXCEPT ![k] = FALSE]
  /\ timers' = [timers EXCEPT ![k][i] = NoTimer]

Due(k, i, kind) == timers[k][i] = [kind |-> kind, due |-> 0]

\* Bug: the start of the hold is that of an earlier press.
DebounceTimerKeepsStart(k, i) ==
  /\ Due(k, i, "debounce")
  /\ IF down[k]
     THEN /\ timers' = Start(k, i, "long_press", LONG_PRESS_CHECK_DELAY)
          /\ UNCHANGED <<is_debouncing, is_pending_handle>>
     ELSE Report(k, i)
  /\ UNCHANGED <<down, is_long_press, elapsed, irq, long_press_delay, polled, taken,
                 pressed_for>>

\* Bug: a short press leaves the key debouncing.
DebounceTimerKeepsFlag(k, i) ==
  /\ Due(k, i, "debounce")
  /\ IF down[k]
     THEN /\ elapsed' = [elapsed EXCEPT ![k] = 0]
          /\ timers' = Start(k, i, "long_press", LONG_PRESS_CHECK_DELAY)
          /\ UNCHANGED is_pending_handle
     ELSE /\ is_pending_handle' = [is_pending_handle EXCEPT ![k] = TRUE]
          /\ timers' = [timers EXCEPT ![k][i] = NoTimer]
          /\ UNCHANGED elapsed
  /\ UNCHANGED <<down, is_debouncing, is_long_press, irq, long_press_delay, polled,
                 taken, pressed_for>>

\* debounce_timer_callback.
DebounceTimer(k, i) ==
  /\ Due(k, i, "debounce")
  /\ IF down[k]
     THEN /\ elapsed' = [elapsed EXCEPT ![k] = 0]
          /\ timers' = Start(k, i, "long_press", LONG_PRESS_CHECK_DELAY)
          /\ UNCHANGED <<is_debouncing, is_pending_handle>>
     ELSE Report(k, i) /\ UNCHANGED elapsed
  /\ UNCHANGED <<down, is_long_press, irq, long_press_delay, polled, taken,
                 pressed_for>>

\* Bug: the timer of a key released early ends without a report.
LongPressTimerDropsShort(k, i) ==
  /\ Due(k, i, "long_press")
  /\ IF down[k] /\ elapsed[k] < long_press_delay
     THEN /\ timers' = Start(k, i, "long_press", LONG_PRESS_CHECK_DELAY)
          /\ UNCHANGED <<is_debouncing, is_pending_handle, is_long_press>>
     ELSE IF down[k] THEN Report(k, i) /\ is_long_press' = [is_long_press EXCEPT ![k] = TRUE]
     ELSE /\ timers' = [timers EXCEPT ![k][i] = NoTimer]
          /\ UNCHANGED <<is_debouncing, is_pending_handle, is_long_press>>
  /\ UNCHANGED <<down, elapsed, irq, long_press_delay, polled, taken, pressed_for>>

\* long_press_timer_callback.
LongPressTimer(k, i) ==
  /\ Due(k, i, "long_press")
  /\ IF down[k] /\ elapsed[k] < long_press_delay
     THEN /\ timers' = Start(k, i, "long_press", LONG_PRESS_CHECK_DELAY)
          /\ UNCHANGED <<is_debouncing, is_pending_handle, is_long_press>>
     ELSE /\ Report(k, i)
          /\ is_long_press' = [is_long_press EXCEPT ![k] = @ \/ down[k]]
  /\ UNCHANGED <<down, elapsed, irq, long_press_delay, polled, taken, pressed_for>>

\* A tick of time; no timer is left waiting meanwhile.  After the millisecond
\* clock wraps, now is below the start and their 64-bit difference is huge.
UpTo(limit, n) == IF n < limit THEN n ELSE limit

Tick ==
  /\ \A k \in Keys : \A i \in Alive(k) : timers[k][i].due > 0
  /\ timers' = [k \in Keys |-> [i \in Slots |->
                  IF i \in Alive(k) THEN [timers[k][i] EXCEPT !.due = @ - 1] ELSE NoTimer]]
  /\ \E wrap \in {FALSE, ClockWraps} :
       elapsed' = [k \in Keys |-> IF wrap THEN LongestDelay
                                  ELSE UpTo(LongestDelay, elapsed[k] + 1)]
  /\ pressed_for' = [k \in Keys |-> UpTo(LongestDelay, pressed_for[k] + 1)]
  /\ UNCHANGED <<down, is_debouncing, is_pending_handle, is_long_press, irq,
                 long_press_delay, polled, taken>>
-----------------------------------------------------------------------------
\* No interrupt of a key keeps main from running.
MainRuns == irq => \A k \in Keys : ~down[k]

\* Bug: the first pending key is never the last one.
TakePendingNotLast(k) ==
  /\ MainRuns /\ polled /\ taken = NoKey
  /\ is_pending_handle[k]
  /\ \E j \in Keys : j > k
  /\ taken' = [key |-> k, clear |-> Fields]
  /\ UNCHANGED <<down, is_debouncing, is_pending_handle, is_long_press, elapsed, timers,
                 irq, long_press_delay, polled, pressed_for>>

\* get_pending_button, up to the copy of the state of the first pending key.
TakePending(k) ==
  /\ MainRuns /\ polled /\ taken = NoKey
  /\ is_pending_handle[k] /\ \A j \in Keys : j < k => ~is_pending_handle[j]
  /\ taken' = [key |-> k, clear |-> Fields]
  /\ UNCHANGED <<down, is_debouncing, is_pending_handle, is_long_press, elapsed, timers,
                 irq, long_press_delay, polled, pressed_for>>

Cleared(flags, k, field, now) == IF field = now THEN [flags EXCEPT ![k] = FALSE] ELSE flags

\* One store of clear_pending; the compiler may order them as it likes.
ClearPending(field) ==
  /\ MainRuns /\ field \in taken.clear
  /\ taken' = [taken EXCEPT !.clear = @ \ {field}]
  /\ is_pending_handle' = Cleared(is_pending_handle, taken.key, "is_pending_handle", field)
  /\ is_long_press' = Cleared(is_long_press, taken.key, "is_long_press", field)
  /\ is_debouncing' = Cleared(is_debouncing, taken.key, "is_debouncing", field)
  /\ UNCHANGED <<down, elapsed, timers, irq, long_press_delay, polled, pressed_for>>

\* The rest of TimeTracker::handle.
Handled ==
  /\ MainRuns /\ taken # NoKey /\ taken.clear = {}
  /\ taken' = NoKey
  /\ UNCHANGED <<down, is_debouncing, is_pending_handle, is_long_press, elapsed, timers,
                 irq, long_press_delay, polled, pressed_for>>

\* switch_leds_mode and the current feature: the tracker starts, stops, or has
\* its factory settings restored, which turns its interrupts off.
SwitchFeature ==
  /\ MainRuns /\ taken = NoKey
  /\ \/ irq' = TRUE /\ polled' = TRUE
     \/ irq' = FALSE /\ polled' \in {FALSE, polled}
  /\ UNCHANGED <<down, is_debouncing, is_pending_handle, is_long_press, elapsed, timers,
                 long_press_delay, taken, pressed_for>>

\* The terminal's long_press_ms, at any moment of a press.
SetLongPressDelay(delay) ==
  /\ MainRuns /\ taken = NoKey
  /\ long_press_delay' = delay
  /\ UNCHANGED <<down, is_debouncing, is_pending_handle, is_long_press, elapsed, timers,
                 irq, polled, taken, pressed_for>>

Interrupt(k) == GpioCallback(k) \/ \E i \in Slots : DebounceTimer(k, i) \/ LongPressTimer(k, i)

Next ==
  \/ \E k \in Keys : Press(k) \/ Release(k) \/ Interrupt(k) \/ TakePending(k)
  \/ Tick
  \/ \E field \in Fields : ClearPending(field)
  \/ Handled \/ SwitchFeature
  \/ \E delay \in LongPressDelays : SetLongPressDelay(delay)

Spec == Init /\ [][Next]_vars

\* Time passes and timers fire.  The user lets go of all the keys again and again,
\* each time for longer than main needs for its next statement.
FairSpec ==
  /\ Spec /\ WF_vars(Tick) /\ SF_vars(Handled)
  /\ \A k \in Keys : /\ WF_vars(\E i \in Slots : DebounceTimer(k, i) \/ LongPressTimer(k, i))
                     /\ SF_vars(TakePending(k))
  /\ \A field \in Fields : SF_vars(ClearPending(field))
  /\ []<>(\A k \in Keys : ~down[k])
-----------------------------------------------------------------------------
TypeOK ==
  /\ down \in [Keys -> BOOLEAN] /\ is_debouncing \in [Keys -> BOOLEAN]
  /\ is_pending_handle \in [Keys -> BOOLEAN] /\ is_long_press \in [Keys -> BOOLEAN]
  /\ elapsed \in [Keys -> 0 .. LongestDelay]
  /\ timers \in [Keys -> [Slots -> Timer]]
  /\ long_press_delay \in 0 .. LongestDelay
  /\ irq \in BOOLEAN /\ polled \in BOOLEAN
  /\ taken \in [key : Keys \cup {-1}, clear : SUBSET Fields]
  /\ pressed_for \in [Keys -> 0 .. LongestDelay]

\* gpio_callback ignores a key that is debouncing: one without a timer would stay
\* dead until a reset.  However its stores and timers interleave, none ever is.
DebouncingHasTimer == \A k \in Keys : is_debouncing[k] => Alive(k) # {}

\* A press is long only if a timer of it ran for the long press delay of the moment,
\* although all the timers of a key share one start time and the host may set
\* another delay meanwhile.
LongPressDuration ==
  [][\A k \in Keys : ~is_long_press[k] /\ is_long_press'[k] =>
                       pressed_for[k] >= long_press_delay]_vars

\* A press whose detection began is reported, whatever main stores meanwhile.
PressReported == \A k \in Keys : is_debouncing[k] ~> is_pending_handle[k]

\* A report is taken unless the tracker is left, or keys that go first are
\* reported again and again while main handles one of them.
ReportTaken ==
  \A k \in Keys :
    \/ is_pending_handle[k] ~> taken.key = k \/ ~polled
    \/ []<>(\E j \in Keys : j < k /\ is_pending_handle[j])
=============================================================================
