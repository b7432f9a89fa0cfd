SPECIFICATION FairSpec
CONSTANTS
  Keys <- TwoKeys
  DEBOUNCE_DELAY = 1
  LONG_PRESS_CHECK_DELAY = 1
  LongPressDelayDefault = 2
  LongPressDelays = {}
  LongestDelay = 2
  ClockWraps = TRUE
  MaxTimers = 1
PROPERTY ReportTaken
