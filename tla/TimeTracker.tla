----------------------------- MODULE TimeTracker -----------------------------
(***************************************************************************)
(* firmware/features/time_tracker, with the part of FeaturesHandler and of *)
(* the terminals that drives it.  The main loop runs one handler at a time *)
(* (a key, a command of the host); handlers block in sleep_ms while they   *)
(* blink LEDs.  timer_callback is an interrupt: it runs between any two    *)
(* steps of a handler.  Storage is atomic here, as BlobStore promises.     *)
(* Time is counted in ticks of the timer (250 ms).                         *)
(***************************************************************************)
EXTENDS Integers, Sequences

CONSTANTS
  SessionCount,    \* MAX_TIME_TRACKER_ENTRIES_COUNT
  SaveIntervals,   \* SAVE_INTERVALS_COUNT
  MediumDefault,   \* MEDIUM_THRESHOLD_MS_DEFAULT, in ticks
  LongDefault,     \* LONG_THRESHOLD_MS_DEFAULT, in ticks
  HourTicks,       \* ticks in an hour
  Thresholds,      \* threshold values the host may send, in ticks
  HostCommands,    \* what the host does: a subset of AllHostCommands
  HostColors,      \* colours the host gives to a key, none if it sends no `color`
  SwitchTargets,   \* features the host switches to
  StartFeature,    \* the feature stored when the device first starts
  Garbage,         \* images of uninitialised RAM
  MaxTime          \* bound: ticks beyond it are not added to a session

VARIABLES
  data,                    \* TimeTracker::data, in RAM
  flash,                   \* the TIME_TRACKER_DATA blob
  intervals_count,         \* ticks since the timer saved
  awaiting_confirmation,
  previous_tracking_type,
  saved_buttons_state,     \* LEDs put aside, << >> when there are none
  leds,                    \* KeysConfig: the colour each key shows
  timer,                   \* tracking_timer is armed, and leds_mode is
                           \* HANDLED_BY_FEATURE with key interrupts on
  feature,                 \* FeaturesHandler: config.current_feature
  stored_feature,          \* the feature the next boot starts
  todo,                    \* statements left of the handler in progress
  overtaken                \* history: a session began, or the tracker started
                           \* again, between the last question and its answer

vars == <<data, flash, intervals_count, awaiting_confirmation, previous_tracking_type,
          saved_buttons_state, leds, timer, feature, stored_feature, todo, overtaken>>
-----------------------------------------------------------------------------
\* The commands `feature` and `color` are there when SwitchTargets and HostColors
\* are not empty.
AllHostCommands ==
  {"new_session", "set_threshold", "factory_init", "erase", "power_loss"}
Features == {"ctrl_c_v", "time_tracker", "none"}
Sessions == 0 .. SessionCount - 1

WORK_TRACKING_KEY_ID    == 0
MEETING_TRACKING_KEY_ID == 1
FUNCTION_KEY_ID         == 2
Keys   == {WORK_TRACKING_KEY_ID, MEETING_TRACKING_KEY_ID, FUNCTION_KEY_ID}
Colors == {"red", "green", "blue", "yellow", "purple", "cyan"}
Led    == Colors \cup {"off"}

Entry ==
  [time : 0 .. MaxTime, tracking_work : BOOLEAN, tracking_meetings : BOOLEAN,
   medium_threshold_reached : BOOLEAN, long_threshold_reached : BOOLEAN]
TimeTrackerData ==
  [magic : BOOLEAN, active_session : Sessions, tracking_entries : [Sessions -> Entry],
   medium_threshold : Nat, long_threshold : Nat]

ASSUME TimeTrackerConstants ==
  /\ SessionCount \in Nat \ {0} /\ SaveIntervals \in Nat /\ MaxTime \in Nat
  /\ MediumDefault \in Nat /\ LongDefault \in Nat /\ HourTicks \in Nat \ {0}
  /\ Thresholds \subseteq Nat
  /\ HostCommands \subseteq AllHostCommands /\ HostColors \subseteq {"red", "green", "blue"}
  /\ SwitchTargets \subseteq Features /\ StartFeature \in Features
  /\ Garbage \subseteq {d \in TimeTrackerData : ~d.magic}

EmptyEntry ==
  [time |-> 0, tracking_work |-> FALSE, tracking_meetings |-> FALSE,
   medium_threshold_reached |-> FALSE, long_threshold_reached |-> FALSE]
FactoryData ==
  [magic |-> TRUE, active_session |-> 0, tracking_entries |-> [s \in Sessions |-> EmptyEntry],
   medium_threshold |-> MediumDefault, long_threshold |-> LongDefault]

Active(d) == d.tracking_entries[d.active_session]
WithActive(d, e) == [d EXCEPT !.tracking_entries = [@ EXCEPT ![d.active_session] = e]]

NextSession(d) == IF d.active_session < SessionCount - 1 THEN d.active_session + 1 ELSE 0

\* TrackingType: the two kinds are named by the flag that records them.
WORK_TRACKING    == "tracking_work"
MEETING_TRACKING == "tracking_meetings"
Kinds == {WORK_TRACKING, MEETING_TRACKING}
KeyOf(kind)   == IF kind = WORK_TRACKING THEN WORK_TRACKING_KEY_ID ELSE MEETING_TRACKING_KEY_ID
ColorOf(kind) == IF kind = WORK_TRACKING THEN "purple" ELSE "cyan"
Tracking(e) ==
  IF e.tracking_work THEN WORK_TRACKING ELSE IF e.tracking_meetings THEN MEETING_TRACKING ELSE "none"

\* stop_tracking and resume_tracking on an entry and on the LEDs.
Stopped(e) ==
  IF e.tracking_work THEN [e EXCEPT !.tracking_work = FALSE]
                     ELSE [e EXCEPT !.tracking_meetings = FALSE]
Resumed(e, kind) == IF kind \in Kinds THEN [e EXCEPT ![kind] = TRUE] ELSE e

\* disable_all_leds
AllOff == [k \in Keys |-> "off"]

ResumedLeds(l, kind) == IF kind \in Kinds THEN [l EXCEPT ![KeyOf(kind)] = ColorOf(kind)] ELSE l

\* check_thresholds.
ThresholdLeds(l, e) ==
  IF e.long_threshold_reached THEN [l EXCEPT ![FUNCTION_KEY_ID] = "red"]
  ELSE IF e.medium_threshold_reached THEN [l EXCEPT ![FUNCTION_KEY_ID] = "yellow"]
  ELSE l

\* restore_buttons_state
RestoredLeds(saved) == IF saved = << >> THEN AllOff ELSE saved[1]

\* The marks of an entry, and the threshold each is about.
Marks == {"medium_threshold_reached", "long_threshold_reached"}
ThresholdOf(mark) ==
  IF mark = "medium_threshold_reached" THEN "medium_threshold" ELSE "long_threshold"

\* The statements of a handler that a tick may come between: those after a
\* sleep_ms, and those that enter a session.
Statement == [do : {"on", "off", "all_off", "restore", "stop", "reset"} \cup Marks, key : Keys]
Do(what, k) == [do |-> what, key |-> k]

\* led_blink(k, period, n, Color::Green)
Blink(k, n) == [i \in 1 .. 2 * n |-> Do(IF i % 2 = 1 THEN "on" ELSE "off", k)]

\* Bug: the mark of the long threshold is not cleared.
EnterKeepsMark ==
  <<Do("stop", 0), Do("all_off", 0), Do("reset", 0), Do("medium_threshold_reached", 0)>>

\* move_to_next_session after active_session is incremented, and the animation.
Enter ==
  <<Do("stop", 0), Do("all_off", 0), Do("reset", 0),
    Do("medium_threshold_reached", 0), Do("long_threshold_reached", 0)>>
Animation == <<Do("on", 0), Do("on", 1), Do("on", 2), Do("all_off", 0)>>
-----------------------------------------------------------------------------
\* KeysConfig::factory_init; nothing the tracker does is saved in KEYS_CONFIG.
DefaultLeds == [k \in Keys |-> IF k = 0 THEN "red" ELSE IF k = 1 THEN "green" ELSE "blue"]

\* A device whose tracker was never used boots its stored feature.
Init ==
  /\ feature = StartFeature /\ stored_feature = StartFeature
  /\ IF StartFeature = "time_tracker"
     THEN data = FactoryData /\ flash = FactoryData /\ leds = AllOff /\ timer = TRUE
     ELSE data \in Garbage /\ flash \in Garbage /\ leds = DefaultLeds /\ timer = FALSE
  /\ intervals_count = 0
  /\ awaiting_confirmation = FALSE
  /\ previous_tracking_type = "none"
  /\ saved_buttons_state = << >>
  /\ todo = << >>
  /\ overtaken = FALSE

Idle == todo = << >>

\* TimeTracker::timer_callback.
Ticked(e) ==
  IF (e.tracking_work \/ e.tracking_meetings) /\ e.time < MaxTime
  THEN [e EXCEPT !.time = @ + 1] ELSE e

\* Bug: the threshold must be exceeded.
MediumDueLate(e) == e.time > data.medium_threshold /\ ~e.medium_threshold_reached

\* The threshold this tick finds newly reached: the medium one first.
MediumDue(e) == e.time >= data.medium_threshold /\ ~e.medium_threshold_reached

\* Bug: a medium threshold reached long ago still goes first.
LongDueNever(e) ==
  e.time < data.medium_threshold /\ e.time >= data.long_threshold /\ ~e.long_threshold_reached

LongDue(e) ==
  ~MediumDue(e) /\ e.time >= data.long_threshold /\ ~e.long_threshold_reached

\* Bug: the count starts again without the save.
SaveOrCountForgotten ==
  /\ flash' = flash
  /\ intervals_count' = IF intervals_count >= SaveIntervals THEN 0 ELSE intervals_count + 1

\* Bug: the count must exceed the interval.
SaveOrCountLate ==
  IF intervals_count > SaveIntervals
  THEN flash' = data' /\ intervals_count' = 0
  ELSE flash' = flash /\ intervals_count' = intervals_count + 1

SaveOrCount ==
  IF intervals_count >= SaveIntervals
  THEN flash' = data' /\ intervals_count' = 0
  ELSE flash' = flash /\ intervals_count' = intervals_count + 1

Tick ==
  LET e == Ticked(Active(data)) IN
  /\ timer
  /\ data' = WithActive(data, [e EXCEPT !.medium_threshold_reached = @ \/ MediumDue(e),
                                        !.long_threshold_reached = @ \/ LongDue(e)])
  /\ leds' = IF MediumDue(e) THEN [leds EXCEPT ![FUNCTION_KEY_ID] = "yellow"]
             ELSE IF LongDue(e) THEN [leds EXCEPT ![FUNCTION_KEY_ID] = "red"]
             ELSE leds
  /\ SaveOrCount
  /\ UNCHANGED <<awaiting_confirmation, previous_tracking_type, saved_buttons_state,
                 timer, feature, stored_feature, todo, overtaken>>
-----------------------------------------------------------------------------
\* TimeTracker::handle is called on the current feature with a pending key.
Pressed == Idle /\ feature = "time_tracker"

\* Short press of the red key: cancel the move to the next session.
CancelNextSession ==
  /\ Pressed /\ awaiting_confirmation
  /\ awaiting_confirmation' = FALSE
  /\ data' = WithActive(data, Resumed(Active(data), previous_tracking_type))
  /\ leds' = ResumedLeds(RestoredLeds(saved_buttons_state), previous_tracking_type)
  /\ saved_buttons_state' = << >>
  /\ UNCHANGED <<flash, intervals_count, previous_tracking_type, timer, feature,
                 stored_feature, todo, overtaken>>

\* Bug: the keys are handled while a confirmation is awaited.
ToggleAnyTime(own, other) ==
  LET e == Active(data) IN
  /\ Pressed
  /\ data' = WithActive(data, IF e[own] THEN [e EXCEPT ![own] = FALSE]
                              ELSE [e EXCEPT ![own] = TRUE, ![other] = FALSE])
  /\ UNCHANGED <<flash, intervals_count, awaiting_confirmation, previous_tracking_type,
                 saved_buttons_state, leds, timer, feature, stored_feature, todo, overtaken>>

\* Bug: the LED of the kind that stops stays on.
ToggleKeepsLed(own, other) ==
  LET e == Active(data) IN
  /\ Pressed /\ ~awaiting_confirmation
  /\ IF e[own]
     THEN /\ data' = WithActive(data, [e EXCEPT ![own] = FALSE])
          /\ leds' = [leds EXCEPT ![KeyOf(own)] = "off"]
     ELSE /\ data' = WithActive(data, [e EXCEPT ![own] = TRUE, ![other] = FALSE])
          /\ leds' = [leds EXCEPT ![KeyOf(own)] = ColorOf(own)]
  /\ UNCHANGED <<flash, intervals_count, awaiting_confirmation, previous_tracking_type,
                 saved_buttons_state, timer, feature, stored_feature, todo, overtaken>>

\* Short press of the work or of the meetings key: stop what it tracks, or start
\* it in place of the other.
Toggle(own, other) ==
  LET e == Active(data) IN
  /\ Pressed /\ ~awaiting_confirmation
  /\ IF e[own]
     THEN /\ data' = WithActive(data, [e EXCEPT ![own] = FALSE])
          /\ leds' = [leds EXCEPT ![KeyOf(own)] = "off"]
     ELSE /\ data' = WithActive(data, [e EXCEPT ![own] = TRUE, ![other] = FALSE])
          /\ leds' = [leds EXCEPT ![KeyOf(own)] = ColorOf(own),
                                  ![KeyOf(other)] = IF e[other] THEN "off" ELSE @]
  /\ UNCHANGED <<flash, intervals_count, awaiting_confirmation, previous_tracking_type,
                 saved_buttons_state, timer, feature, stored_feature, todo, overtaken>>

\* Long press of the meetings key: blink the number of the session.
ShowSession ==
  /\ Pressed /\ ~awaiting_confirmation
  /\ saved_buttons_state' = <<leds>>
  /\ leds' = AllOff
  /\ todo' = Blink(WORK_TRACKING_KEY_ID, data.active_session \div 10)
             \o Blink(MEETING_TRACKING_KEY_ID, data.active_session % 10)
             \o <<Do("restore", 0)>>
  /\ UNCHANGED <<data, flash, intervals_count, awaiting_confirmation, previous_tracking_type,
                 timer, feature, stored_feature, overtaken>>

\* Short press of the function key: blink the hours, once for none, unless the
\* LED already says that a threshold is reached.
ShowHours ==
  LET hours == Active(data).time \div HourTicks IN
  /\ Pressed /\ ~awaiting_confirmation
  /\ ~Active(data).medium_threshold_reached /\ ~Active(data).long_threshold_reached
  /\ todo' = Blink(FUNCTION_KEY_ID, IF hours > 0 THEN hours ELSE 1)
  /\ UNCHANGED <<data, flash, intervals_count, awaiting_confirmation, previous_tracking_type,
                 saved_buttons_state, leds, timer, feature, stored_feature, overtaken>>

NextSlotEmpty ==
  LET e == data.tracking_entries[NextSession(data)] IN
  ~e.tracking_work /\ ~e.tracking_meetings

\* Long press of the function key when the next slot is tracking: ask.
AskConfirmation ==
  /\ Pressed /\ ~awaiting_confirmation /\ ~NextSlotEmpty
  /\ awaiting_confirmation' = TRUE
  /\ saved_buttons_state' = <<leds>>
  /\ data' = WithActive(data, Stopped(Active(data)))
  /\ previous_tracking_type' = Tracking(Active(data))
  /\ leds' = [AllOff EXCEPT ![WORK_TRACKING_KEY_ID] = "red",
                                  ![FUNCTION_KEY_ID] = "green"]
  /\ UNCHANGED <<flash, intervals_count, timer, feature, stored_feature, todo, overtaken>>

\* move_to_next_session: the slot becomes active, and is entered after that.
MoveToNextSession(rest) ==
  /\ data' = [data EXCEPT !.active_session = NextSession(data)]
  /\ todo' = Enter \o rest
  /\ UNCHANGED <<flash, intervals_count, previous_tracking_type, saved_buttons_state, leds,
                 timer, feature, stored_feature>>

\* Long press with an empty next slot, or the short press that confirms.
KeyNextSession ==
  /\ Pressed
  /\ awaiting_confirmation \/ NextSlotEmpty
  /\ awaiting_confirmation' = FALSE
  /\ overtaken' = FALSE
  /\ MoveToNextSession(Animation)

\* stop_tracking on the slot that has become active.
StopTracking ==
  LET kind == Tracking(Active(data)) IN
  /\ ~Idle /\ Head(todo).do = "stop"
  /\ data' = WithActive(data, Stopped(Active(data)))
  /\ previous_tracking_type' = kind
  /\ leds' = IF kind \in Kinds THEN [leds EXCEPT ![KeyOf(kind)] = "off"] ELSE leds
  /\ todo' = Tail(todo)
  /\ UNCHANGED <<flash, intervals_count, awaiting_confirmation, saved_buttons_state, timer,
                 feature, stored_feature, overtaken>>

\* initialize_new_session up to the date: the times and the tracking flags.
ResetSession ==
  /\ ~Idle /\ Head(todo).do = "reset"
  /\ data' = WithActive(data, [Active(data) EXCEPT !.time = 0, !.tracking_work = FALSE,
                                                  !.tracking_meetings = FALSE])
  /\ todo' = Tail(todo)
  /\ UNCHANGED <<flash, intervals_count, awaiting_confirmation, previous_tracking_type,
                 saved_buttons_state, leds, timer, feature, stored_feature, overtaken>>

\* initialize_new_session after it has computed the date: the marks.
ClearMark ==
  /\ ~Idle /\ Head(todo).do \in Marks
  /\ data' = WithActive(data, [Active(data) EXCEPT ![Head(todo).do] = FALSE])
  /\ todo' = Tail(todo)
  /\ UNCHANGED <<flash, intervals_count, awaiting_confirmation, previous_tracking_type,
                 saved_buttons_state, leds, timer, feature, stored_feature, overtaken>>

\* A statement on the LEDs.
LedStatement ==
  /\ ~Idle /\ Head(todo).do \in {"on", "off", "all_off", "restore"}
  /\ LET st == Head(todo) IN
     /\ leds' = CASE st.do = "on"      -> [leds EXCEPT ![st.key] = "green"]
                  [] st.do = "off"     -> [leds EXCEPT ![st.key] = "off"]
                  [] st.do = "all_off" -> AllOff
                  [] st.do = "restore" -> RestoredLeds(saved_buttons_state)
     /\ saved_buttons_state' = IF st.do = "restore" THEN << >> ELSE saved_buttons_state
  /\ todo' = Tail(todo)
  /\ UNCHANGED <<data, flash, intervals_count, awaiting_confirmation, previous_tracking_type,
                 timer, feature, stored_feature, overtaken>>
-----------------------------------------------------------------------------
Host(command) == Idle /\ command \in HostCommands

\* TIME_NEW_SESSION, whatever the current feature and the confirmation.
NewSession ==
  /\ Host("new_session")
  /\ MoveToNextSession(<< >>)
  /\ overtaken' = awaiting_confirmation
  /\ UNCHANGED awaiting_confirmation

\* TIME_SET_MEDIUM_THRESHOLD and TIME_SET_LONG_THRESHOLD, likewise.
SetThreshold ==
  /\ Host("set_threshold")
  /\ \E which \in {"medium_threshold", "long_threshold"}, v \in Thresholds :
       data' = [data EXCEPT ![which] = v]
  /\ flash' = data'
  /\ UNCHANGED <<intervals_count, awaiting_confirmation, previous_tracking_type,
                 saved_buttons_state, leds, timer, feature, stored_feature, todo, overtaken>>

\* The `color` command, whatever the feature: a key that is lit changes its colour.
ChangeColor ==
  /\ Idle
  /\ \E k \in Keys, c \in HostColors :
       leds' = [leds EXCEPT ![k] = IF @ = "off" THEN "off" ELSE c]
  /\ UNCHANGED <<data, flash, intervals_count, awaiting_confirmation, previous_tracking_type,
                 saved_buttons_state, timer, feature, stored_feature, todo, overtaken>>

\* TimeTracker::init.
TrackerInit ==
  LET d == IF flash.magic THEN flash ELSE FactoryData IN
  /\ flash' = d
  /\ data' = WithActive(d, Stopped(Active(d)))
  /\ previous_tracking_type' = Tracking(Active(d))
  /\ leds' = ThresholdLeds(AllOff, Active(d))
  /\ timer' = TRUE

\* Bug: the timer is not cancelled.
TrackerDeinitKeepsTimer == timer' = timer /\ leds' = AllOff

\* TimeTracker::deinit.
TrackerDeinit == timer' = FALSE /\ leds' = AllOff

\* switch_to_feature: deinit of the current feature, init of the new one.  The
\* deinit of the tracker is undone by its init when it follows.
SwitchFeature(f) ==
  /\ Idle
  /\ feature' = f /\ stored_feature' = f
  /\ IF f = "time_tracker"
     THEN TrackerInit /\ overtaken' = awaiting_confirmation
     ELSE /\ IF feature = "time_tracker" THEN TrackerDeinit ELSE UNCHANGED <<timer, leds>>
          /\ UNCHANGED <<data, flash, previous_tracking_type, overtaken>>
  /\ UNCHANGED <<intervals_count, awaiting_confirmation, saved_buttons_state, todo>>

\* factory_init_features: deinit and factory_init of every feature.
FactoryInit ==
  /\ Host("factory_init")
  /\ data' = FactoryData /\ flash' = FactoryData
  /\ TrackerDeinit
  /\ UNCHANGED <<intervals_count, awaiting_confirmation, previous_tracking_type,
                 saved_buttons_state, feature, stored_feature, todo, overtaken>>

\* Storage::erase: nothing has its magic any more; a boot then starts ctrl_c_v.
Erase ==
  /\ Host("erase")
  /\ flash' = [flash EXCEPT !.magic = FALSE]
  /\ stored_feature' = "ctrl_c_v"
  /\ UNCHANGED <<data, intervals_count, awaiting_confirmation, previous_tracking_type,
                 saved_buttons_state, leds, timer, feature, todo, overtaken>>

\* Reset or power off and on, then FeaturesHandler::init.  TimeTracker::data is
\* not initialised: it holds garbage, or what it held before a warm reset.
PowerLoss ==
  /\ "power_loss" \in HostCommands
  /\ feature' = stored_feature
  /\ IF stored_feature = "time_tracker"
     THEN TrackerInit
     ELSE /\ data' \in Garbage \cup {data}
          /\ leds' = DefaultLeds /\ timer' = FALSE
          /\ previous_tracking_type' = "none"
          /\ UNCHANGED flash
  /\ intervals_count' = 0
  /\ awaiting_confirmation' = FALSE
  /\ saved_buttons_state' = << >>
  /\ todo' = << >>
  /\ overtaken' = FALSE
  /\ UNCHANGED stored_feature

KeyPress ==
  \/ CancelNextSession
  \/ Toggle(WORK_TRACKING, MEETING_TRACKING) \/ Toggle(MEETING_TRACKING, WORK_TRACKING)
  \/ ShowSession \/ ShowHours
  \/ AskConfirmation \/ KeyNextSession

HandlerStep == StopTracking \/ ResetSession \/ ClearMark \/ LedStatement

Command ==
  \/ NewSession \/ SetThreshold \/ ChangeColor
  \/ \E f \in SwitchTargets : SwitchFeature(f)
  \/ FactoryInit \/ Erase

Next == Tick \/ KeyPress \/ HandlerStep \/ Command \/ PowerLoss

Spec == Init /\ [][Next]_vars

\* The repeating timer fires while it is armed; a handler goes on, and sleep_ms
\* returns.
FairSpec ==
  /\ Spec
  /\ WF_vars(Tick)
  /\ WF_vars(StopTracking) /\ WF_vars(ResetSession) /\ WF_vars(ClearMark)
  /\ WF_vars(LedStatement)
-----------------------------------------------------------------------------
TypeOK ==
  /\ data \in TimeTrackerData /\ flash \in TimeTrackerData
  /\ intervals_count \in 0 .. SaveIntervals
  /\ awaiting_confirmation \in BOOLEAN
  /\ previous_tracking_type \in Kinds \cup {"none"}
  /\ saved_buttons_state \in Seq([Keys -> Led]) /\ Len(saved_buttons_state) <= 1
  /\ leds \in [Keys -> Led]
  /\ timer \in BOOLEAN
  /\ feature \in Features /\ stored_feature \in Features
  /\ todo \in Seq(Statement)
  /\ overtaken \in BOOLEAN

Exclusive(d) ==
  d.magic => \A s \in Sessions : ~(d.tracking_entries[s].tracking_work
                                   /\ d.tracking_entries[s].tracking_meetings)

\* No session ever tracks work and meetings at once, in RAM or in flash: not when
\* a confirmation is cancelled, nor across a host command, a feature switch, a
\* power loss or a restart in the middle of any of them.
ExclusiveTracking == Exclusive(data) /\ Exclusive(flash)

\* What a power loss can cost: of every session, flash lacks at most the ticks
\* since the timer saved, which are at most SaveIntervals.
PersistLag ==
  feature = "time_tracker" /\ flash.magic =>
    \A s \in Sessions : data.tracking_entries[s].time
                          <= flash.tracking_entries[s].time + intervals_count

\* A session has reached the threshold of a mark; it has the mark all the same.
Reached(d, s, mark)  == d.tracking_entries[s].time >= d[ThresholdOf(mark)]
Spurious(d, s, mark) == d.tracking_entries[s][mark] /\ ~Reached(d, s, mark)

MarksReached(d) ==
  d.magic => \A s \in Sessions, mark \in Marks :
               Reached(d, s, mark) => d.tracking_entries[s][mark]

\* The statement that clears the mark of the active session is still to run.
Clearing(mark) == \E i \in 1 .. Len(todo) : todo[i].do = mark

\* While the thresholds stay at their defaults, no session in RAM or in flash has
\* reached one unmarked, although a tick checks only one of the two.  A session
\* marked before its time is one whose slot is being reused, or comes from flash,
\* where a tick saved it while its slot was being reused: the code knows no other
\* way to keep the marks of the slot's last session.
ThresholdsMarked ==
  /\ MarksReached(data) /\ MarksReached(flash)
  /\ feature = "time_tracker" /\ data.magic /\ flash.magic =>
       \A s \in Sessions, mark \in Marks :
         Spurious(data, s, mark) => \/ s = data.active_session /\ Clearing(mark)
                                    \/ Spurious(flash, s, mark)

ShownColors(kind) == {ColorOf(kind)} \cup HostColors

\* docs/features/time_tracker.md, LED behavior: whenever no handler is using the
\* LEDs and no answer is awaited, the key of what is tracked is lit, in its own
\* colour unless the host has given it another.  The key of what is not tracked is
\* dark, except after a question that a host's session or a start of the tracker
\* overtook: its cancellation brings back the LEDs of before.
LedsShowTracking ==
  Idle /\ feature = "time_tracker" /\ ~awaiting_confirmation =>
    \A kind \in Kinds :
      IF Active(data)[kind] THEN leds[KeyOf(kind)] \in ShownColors(kind)
                            ELSE overtaken \/ leds[KeyOf(kind)] = "off"

\* The timer never outlives the tracker: whatever the order of switches, commands
\* and restarts, no other feature runs with ticks and key interrupts on.
TimerOnlyForTracker == timer => feature = "time_tracker"

\* docs/features/time_tracker.md, Data Persistence: a host's command that sets a
\* threshold leaves a valid history in flash.
ThresholdKeepsHistory == [][SetThreshold /\ flash.magic => flash'.magic]_vars

\* Tracked time reaches flash while the tracker runs, unless its slot is reused.
TrackedTimeSaved ==
  \A s \in Sessions, n \in 1 .. MaxTime :
    timer /\ data.tracking_entries[s].time >= n ~>
      \/ flash.tracking_entries[s].time >= n
      \/ data.tracking_entries[s].time < n
      \/ ~timer

\* Once the active session has reached the long threshold, its mark follows, even
\* when both thresholds are met at the same tick.
LongThresholdDetected ==
  timer /\ Active(data).time >= data.long_threshold ~>
    \/ Active(data).long_threshold_reached
    \/ Active(data).time < data.long_threshold
    \/ ~timer
=============================================================================
