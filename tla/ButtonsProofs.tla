----------------------------- MODULE ButtonsProofs -----------------------------
(***************************************************************************)
(* What TLAPS proves of Buttons for every set of keys, delays and number   *)
(* of timers: types, that no key is left dead, that no press that began to *)
(* be detected is dropped, and, as long as the clock does not wrap, that a *)
(* long press took its time.                                               *)
(***************************************************************************)
EXTENDS Buttons, TLAPS

-----------------------------------------------------------------------------
LEMMA StartType ==
  ASSUME TypeOK, NEW k \in Keys, NEW i \in Slots, NEW kind \in {"debounce", "long_press"},
         NEW delay \in Nat
  PROVE  Start(k, i, kind, delay) \in [Keys -> [Slots -> Timer]]
BY DEF Start, TypeOK, Timer

LEMMA NoTimerType ==
  /\ NoTimer \in Timer
  /\ \A t \in Timer : t # NoTimer /\ t.due > 0 => t.due - 1 \in Nat
BY DEF NoTimer, Timer

LEMMA UpToType ==
  ASSUME NEW n \in 0 .. LongestDelay
  PROVE  UpTo(LongestDelay, n + 1) \in 0 .. LongestDelay
BY ButtonsConstants DEF UpTo

LEMMA TickTypeOK ==
  ASSUME TypeOK, Tick
  PROVE  TypeOK'
<1>1. timers' \in [Keys -> [Slots -> Timer]]
  <2>1. ASSUME NEW k \in Keys, NEW i \in Slots
        PROVE  (IF i \in Alive(k) THEN [timers[k][i] EXCEPT !.due = @ - 1] ELSE NoTimer) \in Timer
    <3>1. timers[k][i] \in Timer
      BY DEF TypeOK
    <3>2. CASE i \in Alive(k)
      <4>1. timers[k][i].due > 0
        BY <3>2 DEF Tick
      <4>2. timers[k][i] \in [kind : {"debounce", "long_press"}, due : Nat]
        BY <3>1, <3>2 DEF Alive, Timer
      <4>3. [timers[k][i] EXCEPT !.due = @ - 1] \in [kind : {"debounce", "long_press"}, due : Nat]
        BY <4>1, <4>2
      <4> QED BY <3>2, <4>3 DEF Timer
    <3>3. CASE i \notin Alive(k)
      BY <3>3, NoTimerType
    <3> QED BY <3>2, <3>3
  <2> QED BY <2>1 DEF Tick
<1>2. elapsed' \in [Keys -> 0 .. LongestDelay]
  <2>1. PICK wrap \in {FALSE, ClockWraps} :
          elapsed' = [k \in Keys |-> IF wrap THEN LongestDelay
                                     ELSE UpTo(LongestDelay, elapsed[k] + 1)]
    BY DEF Tick
  <2>2. LongestDelay \in 0 .. LongestDelay
    BY ButtonsConstants
  <2>3. \A k \in Keys : UpTo(LongestDelay, elapsed[k] + 1) \in 0 .. LongestDelay
    BY UpToType DEF TypeOK
  <2> QED BY <2>1, <2>2, <2>3
<1>3. pressed_for' \in [Keys -> 0 .. LongestDelay]
  <2>1. \A k \in Keys : UpTo(LongestDelay, pressed_for[k] + 1) \in 0 .. LongestDelay
    BY UpToType DEF TypeOK
  <2> QED BY <2>1 DEF Tick
<1> QED BY <1>1, <1>2, <1>3 DEF Tick, TypeOK

LEMMA InterruptTypeOK ==
  ASSUME TypeOK, NEW k \in Keys, Interrupt(k)
  PROVE  TypeOK'
<1>0. 0 \in 0 .. LongestDelay /\ DEBOUNCE_DELAY \in Nat /\ LONG_PRESS_CHECK_DELAY \in Nat
  BY ButtonsConstants
<1>1. CASE GpioCallback(k)
  <2>1. timers' \in [Keys -> [Slots -> Timer]]
    BY <1>0, <1>1, StartType DEF GpioCallback
  <2> QED BY <1>0, <1>1, <2>1 DEF GpioCallback, TypeOK
<1>2. ASSUME NEW i \in Slots, Report(k, i)
      PROVE  /\ timers' \in [Keys -> [Slots -> Timer]]
             /\ is_debouncing' \in [Keys -> BOOLEAN]
             /\ is_pending_handle' \in [Keys -> BOOLEAN]
  BY <1>2, NoTimerType DEF Report, TypeOK
<1>3. ASSUME NEW i \in Slots, DebounceTimer(k, i) PROVE TypeOK'
  <2>1. CASE down[k]
    <3>1. timers' = Start(k, i, "long_press", LONG_PRESS_CHECK_DELAY)
          /\ elapsed' = [elapsed EXCEPT ![k] = 0]
      BY <1>3, <2>1 DEF DebounceTimer
    <3>2. timers' \in [Keys -> [Slots -> Timer]]
      BY <1>0, <3>1, StartType
    <3>3. elapsed' \in [Keys -> 0 .. LongestDelay]
      BY <1>0, <3>1 DEF TypeOK
    <3> QED BY <1>3, <2>1, <3>2, <3>3 DEF DebounceTimer, TypeOK
  <2>2. CASE ~down[k]
    BY <1>2, <1>3, <2>2 DEF DebounceTimer, TypeOK
  <2> QED BY <2>1, <2>2
<1>4. ASSUME NEW i \in Slots, LongPressTimer(k, i) PROVE TypeOK'
  <2>1. CASE down[k] /\ elapsed[k] < long_press_delay
    BY <1>0, <1>4, <2>1, StartType DEF LongPressTimer, TypeOK
  <2>2. CASE ~(down[k] /\ elapsed[k] < long_press_delay)
    <3>1. is_long_press' \in [Keys -> BOOLEAN]
      <4>1. is_long_press' = [is_long_press EXCEPT ![k] = @ \/ down[k]]
        BY <1>4, <2>2 DEF LongPressTimer
      <4>2. (is_long_press[k] \/ down[k]) \in BOOLEAN
        OBVIOUS
      <4> QED BY <4>1, <4>2 DEF TypeOK
    <3> QED BY <1>2, <1>4, <2>2, <3>1 DEF LongPressTimer, TypeOK
  <2> QED BY <2>1, <2>2
<1> QED BY <1>1, <1>3, <1>4 DEF Interrupt

LEMMA MainTypeOK ==
  ASSUME TypeOK,
         \/ \E k \in Keys : Press(k) \/ Release(k) \/ TakePending(k)
         \/ \E field \in Fields : ClearPending(field)
         \/ Handled \/ SwitchFeature
         \/ \E delay \in LongPressDelays : SetLongPressDelay(delay)
  PROVE  TypeOK'
<1>1. ASSUME NEW k \in Keys, Press(k) \/ Release(k) \/ TakePending(k) PROVE TypeOK'
  <2>1. CASE Press(k) \/ Release(k)
    BY <2>1 DEF Press, Release, TypeOK
  <2>2. CASE TakePending(k)
    <3>1. taken' \in [key : Keys \cup {-1}, clear : SUBSET Fields]
      BY <2>2 DEF TakePending
    <3> QED BY <2>2, <3>1 DEF TakePending, TypeOK
  <2> QED BY <1>1, <2>1, <2>2
<1>2. ASSUME NEW field \in Fields, ClearPending(field) PROVE TypeOK'
  <2>1. \A flags \in [Keys -> BOOLEAN] : \A k, f, now :
          Cleared(flags, k, f, now) \in [Keys -> BOOLEAN]
    BY DEF Cleared
  <2> QED BY <1>2, <2>1 DEF ClearPending, TypeOK
<1>3. CASE Handled
  BY <1>3 DEF Handled, NoKey, TypeOK
<1>4. CASE SwitchFeature
  BY <1>4 DEF SwitchFeature, TypeOK
<1>5. CASE \E delay \in LongPressDelays : SetLongPressDelay(delay)
  BY <1>5, ButtonsConstants DEF SetLongPressDelay, TypeOK
<1> QED BY <1>1, <1>2, <1>3, <1>4, <1>5

LEMMA InitTypeOK == Init => TypeOK
BY ButtonsConstants, NoTimerType DEF Init, TypeOK, NoKey

LEMMA TypeOKStep == TypeOK /\ [Next]_vars => TypeOK'
<1> SUFFICES ASSUME TypeOK, [Next]_vars PROVE TypeOK'
  OBVIOUS
<1>1. CASE UNCHANGED vars
  BY <1>1 DEF vars, TypeOK
<1>2. CASE Next
  BY <1>2, TickTypeOK, InterruptTypeOK, MainTypeOK DEF Next
<1> QED BY <1>1, <1>2

\* The state keeps its types.
THEOREM SpecTypeOK == Spec => []TypeOK
BY InitTypeOK, TypeOKStep, PTL DEF Spec

-----------------------------------------------------------------------------
(* A timer is alive from the interrupt that starts a detection to the report   *)
(* that ends it, and a report clears the flag whichever of the timers makes it.*)

\* What an action does to the timers and to the flag of another key, or its own.
LEMMA AliveStart ==
  ASSUME TypeOK, NEW k \in Keys, NEW i \in Slots, NEW kind \in {"debounce", "long_press"},
         NEW delay \in Nat, timers' = Start(k, i, kind, delay)
  PROVE  /\ i \in Alive(k)'
         /\ \A j \in Keys : j # k => Alive(j)' = Alive(j)
BY DEF Alive, Start, NoTimer, TypeOK

LEMMA AliveReport ==
  ASSUME TypeOK, NEW k \in Keys, NEW i \in Slots, Report(k, i)
  PROVE  /\ ~is_debouncing'[k]
         /\ \A j \in Keys : j # k => Alive(j)' = Alive(j) /\ is_debouncing'[j] = is_debouncing[j]
BY DEF Alive, Report, TypeOK

LEMMA DebouncingStep ==
  ASSUME TypeOK, DebouncingHasTimer, [Next]_vars
  PROVE  DebouncingHasTimer'
<1> USE DEF DebouncingHasTimer
<1>0. DEBOUNCE_DELAY \in Nat /\ LONG_PRESS_CHECK_DELAY \in Nat
  BY ButtonsConstants
<1>1. CASE timers' = timers /\ \A k \in Keys : is_debouncing'[k] => is_debouncing[k]
  BY <1>1 DEF Alive
<1>2. ASSUME NEW k \in Keys, NEW i \in Slots, Report(k, i) PROVE DebouncingHasTimer'
  BY <1>2, AliveReport
<1>3. ASSUME NEW k \in Keys, NEW i \in Slots,
             NEW kind \in {"debounce", "long_press"}, NEW delay \in Nat,
             timers' = Start(k, i, kind, delay),
             \A j \in Keys : j # k => is_debouncing'[j] = is_debouncing[j]
      PROVE  DebouncingHasTimer'
  BY <1>3, AliveStart
<1>4. ASSUME NEW k \in Keys, GpioCallback(k) PROVE DebouncingHasTimer'
  <2>1. \A j \in Keys : j # k => is_debouncing'[j] = is_debouncing[j]
    BY <1>4 DEF GpioCallback, TypeOK
  <2> QED BY <1>0, <1>3, <1>4, <2>1 DEF GpioCallback
<1>5. ASSUME NEW k \in Keys, NEW i \in Slots, DebounceTimer(k, i) \/ LongPressTimer(k, i)
      PROVE  DebouncingHasTimer'
  BY <1>0, <1>2, <1>3, <1>5 DEF DebounceTimer, LongPressTimer
<1>6. CASE Tick
  <2>1. \A k \in Keys : Alive(k)' = Alive(k)
    <3> SUFFICES ASSUME NEW k \in Keys, NEW i \in Slots
                 PROVE  timers'[k][i] # NoTimer <=> timers[k][i] # NoTimer
      BY DEF Alive
    <3>1. timers[k][i] \in Timer
      BY DEF TypeOK
    <3>2. timers'[k][i] = IF i \in Alive(k) THEN [timers[k][i] EXCEPT !.due = @ - 1] ELSE NoTimer
      BY <1>6 DEF Tick
    <3> QED BY <3>1, <3>2 DEF Alive, Timer, NoTimer
  <2> QED BY <1>6, <2>1 DEF Tick
<1>7. CASE UNCHANGED vars
  BY <1>1, <1>7 DEF vars
<1>8. ASSUME NEW k \in Keys, Press(k) \/ Release(k) \/ TakePending(k) PROVE DebouncingHasTimer'
  BY <1>1, <1>8 DEF Press, Release, TakePending
<1>9. ASSUME NEW field \in Fields, ClearPending(field) PROVE DebouncingHasTimer'
  BY <1>1, <1>9 DEF ClearPending, Cleared, TypeOK
<1>10. CASE Handled \/ SwitchFeature \/ \E delay \in LongPressDelays : SetLongPressDelay(delay)
  BY <1>1, <1>10 DEF Handled, SwitchFeature, SetLongPressDelay
<1> QED BY <1>4, <1>5, <1>6, <1>7, <1>8, <1>9, <1>10 DEF Next, Interrupt

\* No interleaving of the interrupts with main's stores leaves a key debouncing
\* with no timer to end it.
THEOREM SpecDebouncingHasTimer == Spec => []DebouncingHasTimer
<1>1. Init => DebouncingHasTimer
  BY DEF Init, DebouncingHasTimer
<1> QED BY <1>1, InitTypeOK, TypeOKStep, DebouncingStep, PTL DEF Spec

-----------------------------------------------------------------------------
(* A long press timer has counted no longer than the press lasts.            *)

ElapsedBound ==
  \A k \in Keys : (\E i \in Slots : timers[k][i].kind = "long_press")
                    => elapsed[k] <= pressed_for[k]

LEMMA ElapsedStep ==
  ASSUME ClockWraps = FALSE, TypeOK, ElapsedBound, [Next]_vars
  PROVE  ElapsedBound'
<1> USE DEF ElapsedBound
<1>1. CASE timers' = timers /\ elapsed' = elapsed /\ pressed_for' = pressed_for
  BY <1>1
<1>2. ASSUME NEW k \in Keys, GpioCallback(k) PROVE ElapsedBound'
  <2>1. PICK i \in Slots \ Alive(k) : timers' = Start(k, i, "debounce", DEBOUNCE_DELAY)
    BY <1>2 DEF GpioCallback
  <2>2. \A j \in Keys, n \in Slots :
          timers'[j][n].kind = "long_press" => timers[j][n].kind = "long_press"
    BY <2>1 DEF Start, TypeOK
  <2>3. elapsed' = elapsed
    BY <1>2 DEF GpioCallback
  <2>4. ASSUME NEW j \in Keys, NEW n \in Slots, timers[j][n].kind = "long_press"
        PROVE  pressed_for'[j] = pressed_for[j]
    <3>1. n \in Alive(j)
      BY <2>4 DEF Alive, NoTimer
    <3> QED BY <1>2, <3>1 DEF GpioCallback, TypeOK
  <2> QED BY <2>2, <2>3, <2>4
<1>3. ASSUME NEW k \in Keys, NEW i \in Slots, Report(k, i), elapsed' = elapsed,
             pressed_for' = pressed_for
      PROVE  ElapsedBound'
  BY <1>3 DEF Report, NoTimer, TypeOK
<1>4. ASSUME NEW k \in Keys, NEW i \in Slots, DebounceTimer(k, i) PROVE ElapsedBound'
  <2>1. CASE down[k]
    <3>1. /\ elapsed' = [elapsed EXCEPT ![k] = 0] /\ pressed_for' = pressed_for
          /\ timers' = Start(k, i, "long_press", LONG_PRESS_CHECK_DELAY)
      BY <1>4, <2>1 DEF DebounceTimer
    <3>2. elapsed'[k] <= pressed_for'[k]
      BY <3>1, ButtonsConstants DEF TypeOK
    <3>3. \A j \in Keys : j # k => timers'[j] = timers[j] /\ elapsed'[j] = elapsed[j]
      BY <3>1 DEF Start, TypeOK
    <3> QED BY <3>1, <3>2, <3>3
  <2>2. CASE ~down[k]
    BY <1>3, <1>4, <2>2 DEF DebounceTimer
  <2> QED BY <2>1, <2>2
<1>5. ASSUME NEW k \in Keys, NEW i \in Slots, LongPressTimer(k, i) PROVE ElapsedBound'
  <2>1. elapsed' = elapsed /\ pressed_for' = pressed_for
    BY <1>5 DEF LongPressTimer
  <2>2. CASE timers' = Start(k, i, "long_press", LONG_PRESS_CHECK_DELAY)
    <3>1. timers[k][i].kind = "long_press"
      BY <1>5 DEF LongPressTimer, Due
    <3>2. \A j \in Keys : j # k => timers'[j] = timers[j]
      BY <2>2 DEF Start, TypeOK
    <3> QED BY <2>1, <3>1, <3>2
  <2>3. CASE Report(k, i)
    BY <1>3, <2>1, <2>3
  <2> QED BY <1>5, <2>2, <2>3 DEF LongPressTimer
<1>6. CASE Tick
  <2>1. \A k \in Keys : /\ elapsed'[k] = UpTo(LongestDelay, elapsed[k] + 1)
                        /\ pressed_for'[k] = UpTo(LongestDelay, pressed_for[k] + 1)
    BY <1>6 DEF Tick
  <2>2. \A k \in Keys, i \in Slots :
          timers'[k][i].kind = "long_press" => timers[k][i].kind = "long_press"
    BY <1>6 DEF Tick, Alive, NoTimer, TypeOK, Timer
  <2>3. ASSUME NEW k \in Keys, elapsed[k] <= pressed_for[k]
        PROVE  elapsed'[k] <= pressed_for'[k]
    BY <2>1, <2>3, ButtonsConstants DEF UpTo, TypeOK
  <2> QED BY <2>2, <2>3
<1>7. CASE UNCHANGED vars
  BY <1>1, <1>7 DEF vars
<1>8. ASSUME NEW k \in Keys, Press(k) \/ Release(k) \/ TakePending(k) PROVE ElapsedBound'
  BY <1>1, <1>8 DEF Press, Release, TakePending
<1>9. ASSUME NEW field \in Fields, ClearPending(field) PROVE ElapsedBound'
  BY <1>1, <1>9 DEF ClearPending
<1>10. CASE Handled \/ SwitchFeature \/ \E delay \in LongPressDelays : SetLongPressDelay(delay)
  BY <1>1, <1>10 DEF Handled, SwitchFeature, SetLongPressDelay
<1> QED BY <1>2, <1>4, <1>5, <1>6, <1>7, <1>8, <1>9, <1>10 DEF Next, Interrupt

LEMMA LongPressStep ==
  ASSUME TypeOK, ElapsedBound, [Next]_vars
  PROVE  \A k \in Keys : ~is_long_press[k] /\ is_long_press'[k] =>
                           pressed_for[k] >= long_press_delay
<1> SUFFICES ASSUME NEW k \in Keys, ~is_long_press[k], is_long_press'[k]
             PROVE  pressed_for[k] >= long_press_delay
  OBVIOUS
<1>1. PICK j \in Keys, i \in Slots : LongPressTimer(j, i)
  <2>1. \A flags \in [Keys -> BOOLEAN] : \A j, f, now :
          Cleared(flags, j, f, now)[k] => flags[k]
    BY DEF Cleared
  <2>2. ASSUME NEW field \in Fields, ClearPending(field) PROVE FALSE
    BY <2>1, <2>2 DEF ClearPending, TypeOK
  <2> QED BY <2>2 DEF Next, vars, Interrupt, Press, Release, GpioCallback, DebounceTimer,
                      TakePending, Tick, Handled, SwitchFeature, SetLongPressDelay
<1>2. j = k /\ down[k] /\ ~(elapsed[k] < long_press_delay)
  BY <1>1 DEF LongPressTimer, TypeOK
<1>3. timers[k][i].kind = "long_press"
  BY <1>1, <1>2 DEF LongPressTimer, Due
<1>4. elapsed[k] <= pressed_for[k]
  BY <1>3 DEF ElapsedBound
<1> QED BY <1>2, <1>4, ButtonsConstants DEF TypeOK

\* Without a wrap of the clock, a press is reported as long only if its timers ran
\* for the long press delay, however many of them share the start time.
THEOREM SpecLongPressDuration ==
  ASSUME ClockWraps = FALSE
  PROVE  Spec => LongPressDuration
<1>1. Init => ElapsedBound
  BY DEF Init, ElapsedBound, NoTimer
<1>2. TypeOK /\ ElapsedBound /\ [Next]_vars => ElapsedBound'
  BY ElapsedStep
<1>3. TypeOK /\ ElapsedBound /\ [Next]_vars =>
        [\A k \in Keys : ~is_long_press[k] /\ is_long_press'[k] =>
                           pressed_for[k] >= long_press_delay]_vars
  BY LongPressStep
<1> QED BY <1>1, <1>2, <1>3, InitTypeOK, TypeOKStep, PTL DEF Spec, LongPressDuration

-----------------------------------------------------------------------------
(* The safety half of PressReported and ReportTaken: a detection that began is *)
(* not dropped, and a report goes only when main takes that key.               *)

Kept(k) ==
  /\ \A i \in Slots : i \in Alive(k) => i \in Alive(k)' \/ is_pending_handle'[k]
  /\ is_pending_handle[k] => is_pending_handle'[k] \/ taken.key = k

LEMMA KeptStep ==
  ASSUME TypeOK, [Next]_vars
  PROVE  \A k \in Keys : Kept(k)
<1> SUFFICES ASSUME NEW k \in Keys PROVE Kept(k)
  OBVIOUS
<1>0. DEBOUNCE_DELAY \in Nat /\ LONG_PRESS_CHECK_DELAY \in Nat
  BY ButtonsConstants
<1>1. CASE timers' = timers /\ is_pending_handle' = is_pending_handle
  BY <1>1 DEF Kept, Alive
<1>2. ASSUME NEW j \in Keys, NEW i \in Slots, Report(j, i) PROVE Kept(k)
  <2>1. CASE j = k
    BY <1>2, <2>1 DEF Kept, Report, TypeOK
  <2>2. CASE j # k
    <3>1. timers'[k] = timers[k] /\ is_pending_handle'[k] = is_pending_handle[k]
      BY <1>2, <2>2 DEF Report, TypeOK
    <3> QED BY <3>1 DEF Kept, Alive
  <2> QED BY <2>1, <2>2
<1>3. ASSUME NEW j \in Keys, NEW i \in Slots, NEW kind \in {"debounce", "long_press"},
             NEW delay \in Nat, timers' = Start(j, i, kind, delay),
             is_pending_handle' = is_pending_handle
      PROVE  Kept(k)
  <2>1. \A n \in Slots : n \in Alive(k) => n \in Alive(k)'
    BY <1>3 DEF Alive, Start, NoTimer, TypeOK
  <2> QED BY <1>3, <2>1 DEF Kept
<1>4. ASSUME NEW j \in Keys, GpioCallback(j) PROVE Kept(k)
  BY <1>0, <1>3, <1>4 DEF GpioCallback
<1>5. ASSUME NEW j \in Keys, NEW i \in Slots, DebounceTimer(j, i) \/ LongPressTimer(j, i)
      PROVE  Kept(k)
  BY <1>0, <1>2, <1>3, <1>5 DEF DebounceTimer, LongPressTimer
<1>6. CASE Tick
  <2>1. ASSUME NEW i \in Slots, i \in Alive(k) PROVE i \in Alive(k)'
    <3>1. timers[k][i] \in Timer /\ timers[k][i] # NoTimer
      BY <2>1 DEF TypeOK, Alive
    <3>2. timers'[k][i] = [timers[k][i] EXCEPT !.due = @ - 1]
      BY <1>6, <2>1 DEF Tick
    <3> QED BY <3>1, <3>2 DEF Alive, Timer, NoTimer
  <2> QED BY <1>6, <2>1 DEF Kept, Tick
<1>7. ASSUME NEW field \in Fields, ClearPending(field) PROVE Kept(k)
  <2>1. timers' = timers
        /\ is_pending_handle' = Cleared(is_pending_handle, taken.key, "is_pending_handle", field)
    BY <1>7 DEF ClearPending
  <2>2. taken.key # k => is_pending_handle'[k] = is_pending_handle[k]
    BY <2>1 DEF Cleared, TypeOK
  <2> QED BY <2>1, <2>2 DEF Kept, Alive
<1>8. CASE UNCHANGED vars
  BY <1>1, <1>8 DEF vars
<1>9. ASSUME NEW j \in Keys, Press(j) \/ Release(j) \/ TakePending(j) PROVE Kept(k)
  BY <1>1, <1>9 DEF Press, Release, TakePending
<1>10. CASE Handled \/ SwitchFeature \/ \E delay \in LongPressDelays : SetLongPressDelay(delay)
  BY <1>1, <1>10 DEF Handled, SwitchFeature, SetLongPressDelay
<1> QED BY <1>4, <1>5, <1>6, <1>7, <1>8, <1>9, <1>10 DEF Next, Interrupt

\* However interrupts split main's three stores, and whatever the switches of
\* feature and delay: a timer of a key ends only with a report of it, and a report
\* is cleared only when main took that key.
THEOREM SpecPressNotDropped == Spec => [][\A k \in Keys : Kept(k)]_vars
<1>1. TypeOK /\ [Next]_vars => [\A k \in Keys : Kept(k)]_vars
  BY KeptStep
<1> QED BY <1>1, InitTypeOK, TypeOKStep, PTL DEF Spec
=============================================================================
