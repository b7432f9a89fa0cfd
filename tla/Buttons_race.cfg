SPECIFICATION FairSpec
CONSTANTS
  Keys <- OneKey
  DEBOUNCE_DELAY = 1
  LONG_PRESS_CHECK_DELAY = 1
  LongPressDelayDefault = 3
  LongPressDelays = {1, 3}
  LongestDelay = 3
  ClockWraps = FALSE
  MaxTimers = 3
INVARIANTS TypeOK DebouncingHasTimer
PROPERTIES LongPressDuration PressReported
