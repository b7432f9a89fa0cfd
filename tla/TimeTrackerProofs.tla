-------------------------- MODULE TimeTrackerProofs --------------------------
(***************************************************************************)
(* What TLAPS proves of TimeTracker for every number of sessions, save     *)
(* interval, threshold and set of host commands: types, exclusive          *)
(* tracking, the bound on what a power loss costs, and that the LEDs show  *)
(* what is tracked; and, where the host does not change the thresholds,    *)
(* that no session has reached one of them unmarked, and where the marks   *)
(* come from of a session that has not reached it.                         *)
(***************************************************************************)
EXTENDS TimeTracker, SequenceTheorems, TLAPS

-----------------------------------------------------------------------------
(* Entries and data images. *)

LEMMA ActiveType ==
  ASSUME NEW d \in TimeTrackerData
  PROVE  Active(d) \in Entry /\ d.active_session \in Sessions
BY DEF TimeTrackerData, Active

LEMMA WithActiveType ==
  ASSUME NEW d \in TimeTrackerData, NEW e \in Entry
  PROVE  /\ WithActive(d, e) \in TimeTrackerData
         /\ WithActive(d, e).magic = d.magic
         /\ WithActive(d, e).active_session = d.active_session
         /\ WithActive(d, e).tracking_entries
              = [d.tracking_entries EXCEPT ![d.active_session] = e]
         /\ Active(WithActive(d, e)) = e
BY DEF TimeTrackerData, WithActive, Active

LEMMA EmptyEntryType == EmptyEntry \in Entry
BY TimeTrackerConstants DEF EmptyEntry, Entry

LEMMA FactoryDataType == FactoryData \in TimeTrackerData
BY TimeTrackerConstants, EmptyEntryType DEF FactoryData, TimeTrackerData, Sessions

LEMMA GarbageType == \A d \in Garbage : d \in TimeTrackerData /\ d.magic = FALSE
BY TimeTrackerConstants DEF TimeTrackerData

LEMMA NextSessionType ==
  ASSUME NEW d \in TimeTrackerData
  PROVE  NextSession(d) \in Sessions
BY TimeTrackerConstants DEF TimeTrackerData, NextSession, Sessions

LEMMA StoppedType ==
  ASSUME NEW e \in Entry
  PROVE  /\ Stopped(e) \in Entry
         /\ Stopped(e).time = e.time
         /\ ~(e.tracking_work /\ e.tracking_meetings) =>
              ~Stopped(e).tracking_work /\ ~Stopped(e).tracking_meetings
BY DEF Stopped, Entry

LEMMA ResumedType ==
  ASSUME NEW e \in Entry, NEW kind \in Kinds \cup {"none"}
  PROVE  /\ Resumed(e, kind) \in Entry
         /\ Resumed(e, kind).time = e.time
         /\ ~e.tracking_work /\ ~e.tracking_meetings =>
              ~(Resumed(e, kind).tracking_work /\ Resumed(e, kind).tracking_meetings)
<1>1. CASE kind = "none"
  BY <1>1 DEF Resumed, Kinds, WORK_TRACKING, MEETING_TRACKING
<1>2. CASE kind = WORK_TRACKING
  BY <1>2 DEF Resumed, Kinds, WORK_TRACKING, MEETING_TRACKING, Entry
<1>3. CASE kind = MEETING_TRACKING
  BY <1>3 DEF Resumed, Kinds, WORK_TRACKING, MEETING_TRACKING, Entry
<1> QED BY <1>1, <1>2, <1>3 DEF Kinds

LEMMA TrackingType == \A e \in Entry : Tracking(e) \in Kinds \cup {"none"}
BY DEF Tracking, Kinds

LEMMA TickedType ==
  ASSUME NEW e \in Entry
  PROVE  /\ Ticked(e) \in Entry
         /\ Ticked(e).time <= e.time + 1
         /\ Ticked(e).tracking_work = e.tracking_work
         /\ Ticked(e).tracking_meetings = e.tracking_meetings
BY TimeTrackerConstants DEF Ticked, Entry

-----------------------------------------------------------------------------
(* LEDs and the statements of the handlers. *)

KeyLeds == [Keys -> Led]
Saved   == {<< >>} \cup {<<l>> : l \in KeyLeds}

LEMMA KeysFacts ==
  /\ Keys = {0, 1, 2} /\ WORK_TRACKING_KEY_ID \in Keys
  /\ MEETING_TRACKING_KEY_ID \in Keys /\ FUNCTION_KEY_ID \in Keys
  /\ \A kind : KeyOf(kind) \in Keys /\ ColorOf(kind) \in Led
  /\ {"red", "green", "blue", "yellow", "purple", "cyan", "off"} = Led
BY DEF Keys, WORK_TRACKING_KEY_ID, MEETING_TRACKING_KEY_ID, FUNCTION_KEY_ID, KeyOf, ColorOf,
       Led, Colors

LEMMA LedsType ==
  /\ AllOff \in KeyLeds /\ DefaultLeds \in KeyLeds
  /\ \A s \in Saved : RestoredLeds(s) \in KeyLeds
  /\ \A l \in KeyLeds : \A kind : ResumedLeds(l, kind) \in KeyLeds
  /\ \A l \in KeyLeds : \A e : ThresholdLeds(l, e) \in KeyLeds
<1> USE KeysFacts DEF KeyLeds
<1>1. AllOff \in KeyLeds /\ DefaultLeds \in KeyLeds
  BY DEF AllOff, DefaultLeds
<1>2. \A s \in Saved : RestoredLeds(s) \in KeyLeds
  BY <1>1 DEF RestoredLeds, Saved
<1>3. \A l \in KeyLeds : \A kind : ResumedLeds(l, kind) \in KeyLeds
  BY DEF ResumedLeds
<1>4. \A l \in KeyLeds : \A e : ThresholdLeds(l, e) \in KeyLeds
  BY DEF ThresholdLeds
<1> QED BY <1>1, <1>2, <1>3, <1>4

LEMMA BlinkType ==
  ASSUME NEW k \in Keys, NEW n \in Nat
  PROVE  Blink(k, n) \in Seq(Statement)
<1>1. \A i \in 1 .. 2 * n : Do(IF i % 2 = 1 THEN "on" ELSE "off", k) \in Statement
  BY DEF Do, Statement
<1>2. 2 * n \in Nat
  OBVIOUS
<1> QED BY <1>1, <1>2 DEF Blink

LEMMA HandlerType ==
  /\ Enter \in Seq(Statement) /\ Animation \in Seq(Statement)
  /\ <<Do("restore", 0)>> \in Seq(Statement)
BY KeysFacts DEF Enter, Animation, Do, Statement, Marks

-----------------------------------------------------------------------------
(* Types. *)

LEMMA HoursType ==
  ASSUME NEW e \in Entry
  PROVE  e.time \div HourTicks \in Nat
<1>1. e.time \in Nat
  BY TimeTrackerConstants DEF Entry
<1> QED BY <1>1, TimeTrackerConstants

LEMMA SavedNone == << >> \in Seq([Keys -> Led]) /\ Len(<< >>) <= 1
<1>1. << >> \in Seq([Keys -> Led]) /\ Len(<< >>) = 0
  OBVIOUS
<1> QED BY <1>1

LEMMA SavedOne ==
  ASSUME NEW l \in [Keys -> Led]
  PROVE  <<l>> \in Seq([Keys -> Led]) /\ Len(<<l>>) <= 1
<1>1. <<l>> \in Seq([Keys -> Led]) /\ Len(<<l>>) = 1
  OBVIOUS
<1> QED BY <1>1

LEMMA SavedSeq ==
  ASSUME NEW s \in Seq(KeyLeds), Len(s) <= 1
  PROVE  s \in Saved
<1>1. Len(s) \in Nat
  BY LenProperties
<1>2. CASE Len(s) = 0
  BY <1>2, EmptySeq DEF Saved
<1>3. CASE Len(s) = 1
  <2>1. s[1] \in KeyLeds /\ s = <<s[1]>>
    BY <1>3
  <2> QED BY <2>1 DEF Saved
<1>4. \A n \in Nat : n <= 1 => n = 0 \/ n = 1
  OBVIOUS
<1>5. Len(s) = 0 \/ Len(s) = 1
  BY <1>1, <1>4, Zenon
<1> QED BY <1>2, <1>3, <1>5

LEMMA InitTypeOK == Init => TypeOK
<1> SUFFICES ASSUME Init PROVE TypeOK
  OBVIOUS
<1>1. data \in TimeTrackerData /\ flash \in TimeTrackerData
  BY FactoryDataType, GarbageType DEF Init
<1>2. leds \in [Keys -> Led]
  BY LedsType DEF Init, KeyLeds
<1>3. intervals_count \in 0 .. SaveIntervals
  BY TimeTrackerConstants DEF Init
<1>4. feature \in Features /\ stored_feature \in Features /\ timer \in BOOLEAN
  BY TimeTrackerConstants DEF Init
<1>5. << >> \in Seq(Statement)
  OBVIOUS
<1> QED BY <1>1, <1>2, <1>3, <1>4, <1>5, SavedNone DEF Init, TypeOK

LEMMA SavedType == TypeOK => saved_buttons_state \in Saved
BY SavedSeq DEF TypeOK, KeyLeds

LEMMA TickTypeOK ==
  ASSUME TypeOK, Tick
  PROVE  TypeOK'
<1> DEFINE e == Ticked(Active(data))
           f == [e EXCEPT !.medium_threshold_reached = @ \/ MediumDue(e),
                          !.long_threshold_reached = @ \/ LongDue(e)]
<1>1. data \in TimeTrackerData /\ e \in Entry
  BY ActiveType, TickedType DEF TypeOK
<1>2. MediumDue(e) \in BOOLEAN /\ LongDue(e) \in BOOLEAN
  BY DEF MediumDue, LongDue
<1>3. f \in Entry
  BY <1>1, <1>2 DEF Entry
<1>4. data' = WithActive(data, f)
  BY DEF Tick
<1>5. data' \in TimeTrackerData
  BY <1>1, <1>3, <1>4, WithActiveType
<1>6. leds' \in [Keys -> Led]
  BY KeysFacts DEF Tick, TypeOK
<1>7. flash' \in TimeTrackerData /\ intervals_count' \in 0 .. SaveIntervals
  BY <1>5, TimeTrackerConstants DEF Tick, SaveOrCount, TypeOK
<1> QED BY <1>5, <1>6, <1>7 DEF Tick, TypeOK

LEMMA KeyPressTypeOK ==
  ASSUME TypeOK, KeyPress
  PROVE  TypeOK'
<1> USE DEF TypeOK
<1> DEFINE e == Active(data)
<1>0. e \in Entry /\ data.active_session \in Sessions
  BY ActiveType
<1>1. CASE CancelNextSession
  <2>1. data' \in TimeTrackerData
    BY <1>0, <1>1, ResumedType, WithActiveType DEF CancelNextSession
  <2>2. leds' \in [Keys -> Led]
    BY <1>1, LedsType, SavedType DEF CancelNextSession, KeyLeds
  <2> QED BY <1>1, <2>1, <2>2, SavedNone DEF CancelNextSession
<1>2. ASSUME NEW own \in Kinds, NEW other \in Kinds, Toggle(own, other) PROVE TypeOK'
  <2>1. /\ [e EXCEPT ![own] = FALSE] \in Entry
        /\ [e EXCEPT ![own] = TRUE, ![other] = FALSE] \in Entry
    BY <1>0 DEF Kinds, WORK_TRACKING, MEETING_TRACKING, Entry
  <2>2. data' \in TimeTrackerData
    <3>1. \/ data' = WithActive(data, [e EXCEPT ![own] = FALSE])
          \/ data' = WithActive(data, [e EXCEPT ![own] = TRUE, ![other] = FALSE])
      BY <1>2 DEF Toggle
    <3>2. data \in TimeTrackerData
      OBVIOUS
    <3> HIDE DEF e, TypeOK
    <3> QED BY <2>1, <3>1, <3>2, WithActiveType
  <2>3. leds' \in [Keys -> Led]
    BY <1>2, KeysFacts DEF Toggle
  <2> QED BY <1>2, <2>2, <2>3 DEF Toggle
<1>3. CASE ShowSession
  <2>1. data.active_session \div 10 \in Nat /\ data.active_session % 10 \in Nat
    BY <1>0, TimeTrackerConstants DEF Sessions
  <2>2. todo' \in Seq(Statement)
    BY <1>3, <2>1, BlinkType, HandlerType, KeysFacts, ConcatProperties DEF ShowSession
  <2>3. leds' \in [Keys -> Led]
    BY <1>3, LedsType DEF ShowSession, KeyLeds
  <2>4. <<leds>> \in Seq([Keys -> Led]) /\ Len(<<leds>>) <= 1
    BY SavedOne
  <2> QED BY <1>3, <2>2, <2>3, <2>4 DEF ShowSession
<1>4. CASE ShowHours
  <2>1. e.time \div HourTicks \in Nat
    BY <1>0, HoursType
  <2>2. todo' \in Seq(Statement)
    BY <1>4, <2>1, BlinkType, KeysFacts DEF ShowHours
  <2> QED BY <1>4, <2>2 DEF ShowHours
<1>5. CASE AskConfirmation
  <2>1. data' \in TimeTrackerData /\ previous_tracking_type' \in Kinds \cup {"none"}
    BY <1>0, <1>5, StoppedType, TrackingType, WithActiveType DEF AskConfirmation
  <2>2. leds' \in [Keys -> Led]
    BY <1>5, LedsType, KeysFacts DEF AskConfirmation, KeyLeds
  <2> QED BY <1>5, <2>1, <2>2 DEF AskConfirmation
<1>6. CASE KeyNextSession
  <2>1. data' \in TimeTrackerData
    BY <1>6, NextSessionType DEF KeyNextSession, MoveToNextSession, TimeTrackerData
  <2>2. todo' \in Seq(Statement)
    BY <1>6, HandlerType, ConcatProperties DEF KeyNextSession, MoveToNextSession
  <2> QED BY <1>6, <2>1, <2>2 DEF KeyNextSession, MoveToNextSession
<1> QED BY <1>1, <1>2, <1>3, <1>4, <1>5, <1>6 DEF KeyPress, Kinds

LEMMA ResetType ==
  ASSUME NEW e \in Entry
  PROVE  LET r == [e EXCEPT !.time = 0, !.tracking_work = FALSE, !.tracking_meetings = FALSE] IN
         /\ r \in Entry /\ r.time = 0
         /\ ~r.tracking_work /\ ~r.tracking_meetings
         /\ r.medium_threshold_reached = e.medium_threshold_reached
         /\ r.long_threshold_reached = e.long_threshold_reached
<1> DEFINE r == [e EXCEPT !.time = 0, !.tracking_work = FALSE, !.tracking_meetings = FALSE]
<1>1. 0 \in 0 .. MaxTime
  BY TimeTrackerConstants
<1>2. r \in Entry
  BY <1>1 DEF Entry
<1>3. r.time = 0 /\ ~r.tracking_work /\ ~r.tracking_meetings
  BY DEF Entry
<1>4. /\ r.medium_threshold_reached = e.medium_threshold_reached
      /\ r.long_threshold_reached = e.long_threshold_reached
  BY DEF Entry
<1> QED BY <1>2, <1>3, <1>4

LEMMA ClearedType ==
  ASSUME NEW e \in Entry, NEW mark \in Marks
  PROVE  LET c == [e EXCEPT ![mark] = FALSE] IN
         /\ c \in Entry /\ c.time = e.time /\ ~c[mark]
         /\ c.tracking_work = e.tracking_work /\ c.tracking_meetings = e.tracking_meetings
         /\ \A m \in Marks : c[m] => e[m]
<1>1. CASE mark = "medium_threshold_reached"
  BY <1>1 DEF Entry, Marks
<1>2. CASE mark = "long_threshold_reached"
  BY <1>2 DEF Entry, Marks
<1> QED BY <1>1, <1>2 DEF Marks

LEMMA HandlerStepTypeOK ==
  ASSUME TypeOK, HandlerStep
  PROVE  TypeOK'
<1> USE DEF TypeOK
<1>0. Active(data) \in Entry /\ data \in TimeTrackerData
  BY ActiveType
<1>1. todo # << >> => Head(todo) \in Statement /\ Tail(todo) \in Seq(Statement)
  BY HeadTailProperties
<1>2. CASE StopTracking
  <2> DEFINE kind == Tracking(Active(data))
  <2>1. data' \in TimeTrackerData /\ kind \in Kinds \cup {"none"}
    BY <1>0, <1>2, StoppedType, WithActiveType, TrackingType DEF StopTracking
  <2>2. leds' \in [Keys -> Led]
    BY <1>2, KeysFacts DEF StopTracking
  <2> QED BY <1>1, <1>2, <2>1, <2>2 DEF StopTracking, Idle
<1>3. CASE ResetSession
  <2>1. data' \in TimeTrackerData
    BY <1>0, <1>3, ResetType, WithActiveType DEF ResetSession
  <2> QED BY <1>1, <1>3, <2>1 DEF ResetSession, Idle
<1>4. CASE ClearMark
  <2>1. data' \in TimeTrackerData
    BY <1>0, <1>4, ClearedType, WithActiveType DEF ClearMark
  <2> QED BY <1>1, <1>4, <2>1 DEF ClearMark, Idle
<1>5. CASE LedStatement
  <2>1. Head(todo).key \in Keys
    BY <1>1, <1>5 DEF LedStatement, Idle, Statement
  <2>2. Head(todo).do \in {"on", "off", "all_off", "restore"}
    BY <1>5 DEF LedStatement
  <2>3. leds' \in [Keys -> Led]
    BY <1>5, <2>1, <2>2, LedsType, SavedType, KeysFacts DEF LedStatement, KeyLeds
  <2>4. saved_buttons_state' = saved_buttons_state \/ saved_buttons_state' = << >>
    BY <1>5 DEF LedStatement
  <2> QED BY <1>1, <1>5, <2>3, <2>4 DEF LedStatement, Idle
<1> QED BY <1>2, <1>3, <1>4, <1>5 DEF HandlerStep

\* TimeTracker::init leaves valid data in RAM and in flash.
LEMMA TrackerInitType ==
  ASSUME TypeOK, TrackerInit
  PROVE  /\ data' \in TimeTrackerData /\ flash' \in TimeTrackerData
         /\ previous_tracking_type' \in Kinds \cup {"none"}
         /\ leds' \in [Keys -> Led] /\ timer' \in BOOLEAN
<1> DEFINE d == IF flash.magic THEN flash ELSE FactoryData
<1>1. d \in TimeTrackerData
  BY FactoryDataType DEF TypeOK
<1>2. Active(d) \in Entry
  BY <1>1, ActiveType
<1>3. /\ flash' = d /\ data' = WithActive(d, Stopped(Active(d)))
      /\ previous_tracking_type' = Tracking(Active(d))
      /\ leds' = ThresholdLeds(AllOff, Active(d)) /\ timer' = TRUE
  BY DEF TrackerInit
<1> HIDE DEF d
<1> QED BY <1>1, <1>2, <1>3, StoppedType, TrackingType, WithActiveType, LedsType DEF KeyLeds

LEMMA HostTypeOK ==
  ASSUME TypeOK,
         Command \/ PowerLoss
  PROVE  TypeOK'
<1>1. CASE NewSession
  <2>1. data' \in TimeTrackerData
    BY <1>1, NextSessionType DEF NewSession, MoveToNextSession, TimeTrackerData, TypeOK
  <2>2. todo' \in Seq(Statement)
    BY <1>1, HandlerType, ConcatProperties DEF NewSession, MoveToNextSession
  <2> QED BY <1>1, <2>1, <2>2 DEF NewSession, MoveToNextSession, TypeOK
<1>2. CASE SetThreshold
  <2>1. data' \in TimeTrackerData
    BY <1>2, TimeTrackerConstants DEF SetThreshold, TimeTrackerData, TypeOK
  <2> QED BY <1>2, <2>1 DEF SetThreshold, TypeOK
<1>3. ASSUME NEW f \in SwitchTargets, SwitchFeature(f) PROVE TypeOK'
  <2>1. f \in Features
    BY TimeTrackerConstants
  <2>2. CASE f = "time_tracker"
    BY <1>3, <2>1, <2>2, TrackerInitType DEF SwitchFeature, TypeOK
  <2>3. CASE f # "time_tracker"
    BY <1>3, <2>1, <2>3, LedsType DEF SwitchFeature, TrackerDeinit, TypeOK, KeyLeds
  <2> QED BY <2>2, <2>3
<1>4. CASE FactoryInit
  BY <1>4, FactoryDataType, LedsType DEF FactoryInit, TrackerDeinit, TypeOK, KeyLeds
<1>5. CASE Erase
  <2>1. flash' \in TimeTrackerData
    BY <1>5 DEF Erase, TimeTrackerData, TypeOK
  <2> QED BY <1>5, <2>1 DEF Erase, TypeOK, Features
<1>6. CASE PowerLoss
  <2>1. /\ data' \in TimeTrackerData /\ flash' \in TimeTrackerData
        /\ previous_tracking_type' \in Kinds \cup {"none"}
        /\ leds' \in [Keys -> Led] /\ timer' \in BOOLEAN
    <3>1. CASE stored_feature = "time_tracker"
      BY <1>6, <3>1, TrackerInitType DEF PowerLoss
    <3>2. CASE stored_feature # "time_tracker"
      BY <1>6, <3>2, GarbageType, LedsType DEF PowerLoss, TypeOK, KeyLeds
    <3> QED BY <3>1, <3>2
  <2>2. 0 \in 0 .. SaveIntervals
    BY TimeTrackerConstants
  <2>3. << >> \in Seq(Statement)
    OBVIOUS
  <2>4. feature' = stored_feature /\ stored_feature' = stored_feature /\ intervals_count' = 0
        /\ awaiting_confirmation' = FALSE /\ saved_buttons_state' = << >> /\ todo' = << >>
        /\ overtaken' = FALSE
    BY <1>6 DEF PowerLoss
  <2> QED BY <2>1, <2>2, <2>3, <2>4, SavedNone DEF TypeOK
<1>7. CASE ChangeColor
  <2>1. HostColors \subseteq Led
    BY TimeTrackerConstants, KeysFacts
  <2>2. leds' \in [Keys -> Led]
    <3>1. PICK k \in Keys, c \in HostColors :
                 leds' = [leds EXCEPT ![k] = IF @ = "off" THEN "off" ELSE c]
      BY <1>7 DEF ChangeColor
    <3> QED BY <2>1, <3>1, KeysFacts DEF TypeOK
  <2> QED BY <1>7, <2>2 DEF ChangeColor, TypeOK
<1> QED BY <1>1, <1>2, <1>3, <1>4, <1>5, <1>6, <1>7 DEF Command

LEMMA TypeOKStep == TypeOK /\ [Next]_vars => TypeOK'
<1> SUFFICES ASSUME TypeOK, [Next]_vars PROVE TypeOK'
  OBVIOUS
<1>1. CASE UNCHANGED vars
  BY <1>1 DEF vars, TypeOK
<1>2. CASE Next
  BY <1>2, TickTypeOK, KeyPressTypeOK, HandlerStepTypeOK, HostTypeOK DEF Next
<1> QED BY <1>1, <1>2

\* The state keeps its types: active_session stays a slot, the count of unsaved
\* ticks never exceeds the save interval, the handlers' statements are known.
THEOREM SpecTypeOK == Spec => []TypeOK
BY InitTypeOK, TypeOKStep, PTL DEF Spec

-----------------------------------------------------------------------------
(* Exclusive tracking.  It is not inductive alone: resuming after a cancelled   *)
(* confirmation is safe because the active entry tracks nothing meanwhile, or  *)
(* the statement that empties it is about to run.                              *)

Both(e) == e.tracking_work /\ e.tracking_meetings
Quiet(e) == ~e.tracking_work /\ ~e.tracking_meetings

Entering == todo # << >> /\ Head(todo).do = "stop"

AwaitingQuiet == awaiting_confirmation /\ data.magic => Entering \/ Quiet(Active(data))

ExclusiveInv == TypeOK /\ ExclusiveTracking /\ AwaitingQuiet

LEMMA ExclusiveActive ==
  ASSUME NEW d \in TimeTrackerData, Exclusive(d), d.magic
  PROVE  ~Both(Active(d))
BY DEF Exclusive, Both, Active, TimeTrackerData

LEMMA ExclusiveWithActive ==
  ASSUME NEW d \in TimeTrackerData, NEW e \in Entry, Exclusive(d), d.magic => ~Both(e)
  PROVE  Exclusive(WithActive(d, e))
<1> DEFINE w == WithActive(d, e)
<1>1. /\ w.magic = d.magic
      /\ w.tracking_entries = [d.tracking_entries EXCEPT ![d.active_session] = e]
      /\ d.tracking_entries \in [Sessions -> Entry]
  BY WithActiveType DEF TimeTrackerData
<1> HIDE DEF w
<1>2. ASSUME d.magic, NEW s \in Sessions PROVE ~Both(w.tracking_entries[s])
  BY <1>1, <1>2 DEF Exclusive, Both
<1>3. Exclusive(w)
  BY <1>1, <1>2 DEF Exclusive, Both
<1> QED BY <1>3 DEF w

LEMMA ExclusiveFactory == Exclusive(FactoryData) /\ Quiet(Active(FactoryData))
BY TimeTrackerConstants DEF Exclusive, FactoryData, EmptyEntry, Quiet, Active, Sessions

LEMMA ExclusiveGarbage == \A d \in Garbage : Exclusive(d)
BY GarbageType DEF Exclusive

LEMMA QuietStopped ==
  ASSUME NEW e \in Entry, ~Both(e)
  PROVE  Quiet(Stopped(e))
BY StoppedType DEF Both, Quiet

LEMMA EnteringNext ==
  ASSUME NEW rest \in Seq(Statement), MoveToNextSession(rest)
  PROVE  Entering'
<1>1. todo' = Enter \o rest
  BY DEF MoveToNextSession
<1>2. Enter \in Seq(Statement) /\ Len(Enter) = 5 /\ Enter[1] = Do("stop", 0)
  BY HandlerType DEF Enter
<1>3. Len(todo') > 0 /\ todo'[1] = Do("stop", 0)
  BY <1>1, <1>2
<1> QED BY <1>3 DEF Entering, Do

LEMMA InitExclusive == Init => ExclusiveInv
<1> SUFFICES ASSUME Init PROVE ExclusiveTracking /\ AwaitingQuiet
  BY InitTypeOK DEF ExclusiveInv
<1> QED BY ExclusiveFactory, ExclusiveGarbage DEF Init, ExclusiveTracking, AwaitingQuiet

LEMMA TickExclusive ==
  ASSUME ExclusiveInv, Tick
  PROVE  ExclusiveTracking' /\ AwaitingQuiet'
<1> USE DEF ExclusiveInv
<1> DEFINE e == Ticked(Active(data))
           f == [e EXCEPT !.medium_threshold_reached = @ \/ MediumDue(e),
                          !.long_threshold_reached = @ \/ LongDue(e)]
<1>1. Active(data) \in Entry /\ e \in Entry /\ data \in TimeTrackerData
  BY ActiveType, TickedType DEF TypeOK
<1>2. MediumDue(e) \in BOOLEAN /\ LongDue(e) \in BOOLEAN
  BY DEF MediumDue, LongDue
<1>3. /\ f \in Entry /\ f.tracking_work = e.tracking_work
      /\ f.tracking_meetings = e.tracking_meetings
  BY <1>1, <1>2 DEF Entry
<1>4. Both(f) = Both(Active(data)) /\ Quiet(f) = Quiet(Active(data))
  BY <1>1, <1>3, TickedType DEF Both, Quiet
<1>5. data' = WithActive(data, f)
  BY DEF Tick
<1> HIDE DEF e, f
<1>6. Exclusive(data')
  BY <1>1, <1>3, <1>4, <1>5, ExclusiveActive, ExclusiveWithActive DEF ExclusiveTracking
<1>7. Exclusive(flash')
  BY <1>6 DEF Tick, SaveOrCount, ExclusiveTracking
<1>8. data'.magic = data.magic /\ Active(data') = f
  BY <1>1, <1>3, <1>5, WithActiveType
<1>9. AwaitingQuiet'
  <2>1. Active(data)' = f
    BY <1>8 DEF Active
  <2>2. todo' = todo /\ awaiting_confirmation' = awaiting_confirmation
    BY DEF Tick
  <2> QED BY <1>4, <1>8, <2>1, <2>2 DEF AwaitingQuiet, Entering, Quiet
<1> QED BY <1>6, <1>7, <1>9 DEF ExclusiveTracking, Exclusive

LEMMA KeyPressExclusive ==
  ASSUME ExclusiveInv, KeyPress
  PROVE  ExclusiveTracking' /\ AwaitingQuiet'
<1> USE DEF ExclusiveInv
<1> DEFINE e == Active(data)
<1>0. e \in Entry /\ data \in TimeTrackerData
  BY ActiveType DEF TypeOK
<1>a. Exclusive(data) /\ Exclusive(flash) /\ (data.magic => ~Both(e))
  BY <1>0, ExclusiveActive DEF ExclusiveTracking
<1>1. CASE CancelNextSession
  <2>1. data.magic => Quiet(e)
    BY <1>1 DEF CancelNextSession, AwaitingQuiet, Entering, Pressed, Idle
  <2>2. /\ Resumed(e, previous_tracking_type) \in Entry
        /\ data.magic => ~Both(Resumed(e, previous_tracking_type))
    BY <1>0, <2>1, ResumedType DEF Both, Quiet, TypeOK
  <2>3. Exclusive(data')
    BY <1>0, <1>1, <1>a, <2>2, ExclusiveWithActive DEF CancelNextSession
  <2> QED BY <1>1, <1>a, <2>3 DEF CancelNextSession, ExclusiveTracking, AwaitingQuiet, Exclusive
<1>2. ASSUME NEW own \in Kinds, NEW other \in Kinds, own # other, Toggle(own, other)
      PROVE  ExclusiveTracking' /\ AwaitingQuiet'
  <2> DEFINE x == [e EXCEPT ![own] = FALSE]
             y == [e EXCEPT ![own] = TRUE, ![other] = FALSE]
  <2>1. x \in Entry /\ y \in Entry /\ ~Both(x) /\ ~Both(y)
    BY <1>0, <1>2 DEF Kinds, WORK_TRACKING, MEETING_TRACKING, Entry, Both
  <2>2. data' = WithActive(data, x) \/ data' = WithActive(data, y)
    BY <1>2 DEF Toggle
  <2> HIDE DEF x, y
  <2>3. Exclusive(data')
    BY <1>0, <1>a, <2>1, <2>2, ExclusiveWithActive
  <2> QED BY <1>2, <1>a, <2>3 DEF Toggle, ExclusiveTracking, AwaitingQuiet, Exclusive
<1>3. CASE ShowSession \/ ShowHours
  BY <1>3, <1>a DEF ShowSession, ShowHours, ExclusiveTracking, AwaitingQuiet, Exclusive
<1>4. CASE AskConfirmation
  <2>1. data' = WithActive(data, Stopped(e)) /\ flash' = flash
    BY <1>4 DEF AskConfirmation
  <2>2. Stopped(e) \in Entry /\ (data.magic => Quiet(Stopped(e)) /\ ~Both(Stopped(e)))
    BY <1>0, <1>a, StoppedType, QuietStopped DEF Quiet, Both
  <2>3. Exclusive(data') /\ (data'.magic => Quiet(Active(data')))
    BY <1>0, <1>a, <2>1, <2>2, ExclusiveWithActive, WithActiveType
  <2>4. Active(data)' = Active(data')
    BY DEF Active
  <2> QED BY <1>a, <2>1, <2>3, <2>4 DEF ExclusiveTracking, AwaitingQuiet, Exclusive, Quiet
<1>5. CASE KeyNextSession
  <2>1. /\ data'.tracking_entries = data.tracking_entries /\ data'.magic = data.magic
        /\ flash' = flash /\ awaiting_confirmation' = FALSE
    BY <1>0, <1>5 DEF KeyNextSession, MoveToNextSession, TimeTrackerData
  <2> QED BY <1>a, <2>1 DEF ExclusiveTracking, AwaitingQuiet, Exclusive
<1>6. WORK_TRACKING \in Kinds /\ MEETING_TRACKING \in Kinds /\ WORK_TRACKING # MEETING_TRACKING
  BY DEF Kinds, WORK_TRACKING, MEETING_TRACKING
<1> QED BY <1>1, <1>2, <1>3, <1>4, <1>5, <1>6 DEF KeyPress

LEMMA HandlerStepExclusive ==
  ASSUME ExclusiveInv, HandlerStep
  PROVE  ExclusiveTracking' /\ AwaitingQuiet'
<1> USE DEF ExclusiveInv
<1> DEFINE e == Active(data)
<1>0. /\ data \in TimeTrackerData /\ Exclusive(data) /\ Exclusive(flash) /\ e \in Entry
      /\ data.magic => ~Both(e)
  BY ActiveType, ExclusiveActive DEF TypeOK, ExclusiveTracking
<1>1. ASSUME NEW x \in Entry, data' = WithActive(data, x), flash' = flash,
             data.magic => ~Both(x),
             data.magic => Quiet(x) \/ ~awaiting_confirmation'
      PROVE  ExclusiveTracking' /\ AwaitingQuiet'
  <2>1. Exclusive(data') /\ Active(data') = x /\ data'.magic = data.magic
    BY <1>0, <1>1, ExclusiveWithActive, WithActiveType
  <2>2. Active(data)' = x
    BY <2>1 DEF Active
  <2> QED BY <1>0, <1>1, <2>1, <2>2 DEF ExclusiveTracking, AwaitingQuiet, Exclusive, Quiet
<1>2. CASE StopTracking
  <2>1. Stopped(e) \in Entry /\ (data.magic => Quiet(Stopped(e)) /\ ~Both(Stopped(e)))
    BY <1>0, StoppedType, QuietStopped DEF Quiet, Both
  <2> QED BY <1>1, <1>2, <2>1 DEF StopTracking
<1>3. CASE ResetSession
  <2> DEFINE r == [e EXCEPT !.time = 0, !.tracking_work = FALSE, !.tracking_meetings = FALSE]
  <2>1. r \in Entry /\ Quiet(r) /\ ~Both(r)
    BY <1>0, ResetType DEF Quiet, Both
  <2>2. data' = WithActive(data, r) /\ flash' = flash
    BY <1>3 DEF ResetSession
  <2> HIDE DEF r
  <2> QED BY <1>1, <2>1, <2>2
<1>4. CASE ClearMark
  <2> DEFINE c == [e EXCEPT ![Head(todo).do] = FALSE]
  <2>1. c \in Entry /\ (Quiet(e) => Quiet(c)) /\ (~Both(e) => ~Both(c))
    BY <1>0, <1>4, ClearedType DEF Quiet, Both, ClearMark
  <2>2. data' = WithActive(data, c) /\ flash' = flash
        /\ awaiting_confirmation' = awaiting_confirmation /\ ~Entering
    BY <1>4 DEF ClearMark, Entering, Marks
  <2> HIDE DEF c
  <2>3. data.magic => Quiet(c) \/ ~awaiting_confirmation'
    BY <2>1, <2>2 DEF AwaitingQuiet
  <2> QED BY <1>0, <1>1, <2>1, <2>2, <2>3
<1>5. CASE LedStatement
  <2>1. data' = data /\ flash' = flash /\ awaiting_confirmation' = awaiting_confirmation
        /\ ~Entering
    BY <1>5 DEF LedStatement, Entering
  <2> QED BY <1>0, <2>1 DEF ExclusiveTracking, AwaitingQuiet, Exclusive, Active, Quiet
<1> QED BY <1>2, <1>3, <1>4, <1>5 DEF HandlerStep

LEMMA TrackerInitExclusive ==
  ASSUME ExclusiveInv, TrackerInit
  PROVE  /\ ExclusiveTracking' /\ Quiet(Active(data))'
         /\ \A s \in Sessions :
              data'.tracking_entries[s].time = flash'.tracking_entries[s].time
<1> DEFINE d == IF flash.magic THEN flash ELSE FactoryData
<1>1. d \in TimeTrackerData /\ d.magic /\ Exclusive(d)
  BY FactoryDataType, ExclusiveFactory DEF ExclusiveInv, TypeOK, ExclusiveTracking, FactoryData
<1>2. flash' = d /\ data' = WithActive(d, Stopped(Active(d)))
  BY DEF TrackerInit
<1> HIDE DEF d
<1>3. Active(d) \in Entry /\ ~Both(Active(d))
  BY <1>1, ActiveType, ExclusiveActive
<1>4. /\ Stopped(Active(d)) \in Entry /\ Quiet(Stopped(Active(d)))
      /\ Stopped(Active(d)).time = Active(d).time
  BY <1>3, StoppedType, QuietStopped
<1>5. Exclusive(data') /\ Quiet(Active(data'))
  BY <1>1, <1>2, <1>4, ExclusiveWithActive, WithActiveType DEF Quiet, Both
<1>6. \A s \in Sessions :
        data'.tracking_entries[s].time = flash'.tracking_entries[s].time
  <2>1. data'.tracking_entries = [d.tracking_entries EXCEPT ![d.active_session] = Stopped(Active(d))]
    BY <1>1, <1>2, <1>4, WithActiveType
  <2>2. /\ d.tracking_entries \in [Sessions -> Entry]
        /\ Active(d) = d.tracking_entries[d.active_session]
    BY <1>1 DEF TimeTrackerData, Active
  <2> QED BY <1>2, <1>4, <2>1, <2>2
<1> QED BY <1>1, <1>2, <1>5, <1>6 DEF ExclusiveTracking, Exclusive, Active, Quiet

LEMMA HostExclusive ==
  ASSUME ExclusiveInv,
         Command \/ PowerLoss
  PROVE  ExclusiveTracking' /\ AwaitingQuiet'
<1>0. /\ data \in TimeTrackerData /\ flash \in TimeTrackerData
      /\ Exclusive(data) /\ Exclusive(flash) /\ AwaitingQuiet
  BY DEF ExclusiveInv, TypeOK, ExclusiveTracking
<1> USE DEF ExclusiveTracking
<1>1. CASE NewSession
  <2>1. Entering'
    <3>1. << >> \in Seq(Statement) /\ MoveToNextSession(<< >>)
      BY <1>1 DEF NewSession
    <3> QED BY <3>1, EnteringNext
  <2>2. /\ data'.tracking_entries = data.tracking_entries /\ data'.magic = data.magic
        /\ flash' = flash
    BY <1>0, <1>1 DEF NewSession, MoveToNextSession, TimeTrackerData
  <2> QED BY <1>0, <2>1, <2>2 DEF AwaitingQuiet, Exclusive
<1>2. CASE SetThreshold
  <2>1. /\ data'.tracking_entries = data.tracking_entries /\ data'.magic = data.magic
        /\ data'.active_session = data.active_session /\ flash' = data'
    BY <1>0, <1>2 DEF SetThreshold, TimeTrackerData
  <2>2. todo' = todo /\ awaiting_confirmation' = awaiting_confirmation
    BY <1>2 DEF SetThreshold
  <2> QED BY <1>0, <2>1, <2>2 DEF AwaitingQuiet, Exclusive, Active, Quiet, Entering
<1>3. ASSUME NEW f \in SwitchTargets, SwitchFeature(f)
      PROVE  ExclusiveTracking' /\ AwaitingQuiet'
  <2>1. CASE f = "time_tracker"
    BY <1>3, <2>1, TrackerInitExclusive DEF SwitchFeature, AwaitingQuiet
  <2>2. CASE f # "time_tracker"
    BY <1>0, <1>3, <2>2 DEF SwitchFeature, AwaitingQuiet, Exclusive, Active, Quiet, Entering
  <2> QED BY <2>1, <2>2
<1>4. CASE FactoryInit
  <2>1. data' = FactoryData /\ flash' = FactoryData
    BY <1>4 DEF FactoryInit
  <2> QED BY <2>1, ExclusiveFactory DEF AwaitingQuiet, Exclusive, Active, Quiet
<1>5. CASE Erase
  <2>1. /\ data' = data /\ flash'.magic = FALSE /\ todo' = todo
        /\ awaiting_confirmation' = awaiting_confirmation
    BY <1>0, <1>5 DEF Erase, TimeTrackerData
  <2> QED BY <1>0, <2>1 DEF AwaitingQuiet, Exclusive, Active, Quiet, Entering
<1>6. CASE PowerLoss
  <2>1. ~awaiting_confirmation'
    BY <1>6 DEF PowerLoss
  <2>2. ExclusiveTracking'
    <3>1. CASE stored_feature = "time_tracker"
      BY <1>6, <3>1, TrackerInitExclusive DEF PowerLoss
    <3>2. CASE stored_feature # "time_tracker"
      BY <1>0, <1>6, <3>2, ExclusiveGarbage DEF PowerLoss, Exclusive
    <3> QED BY <3>1, <3>2
  <2> QED BY <2>1, <2>2 DEF AwaitingQuiet
<1>7. CASE ChangeColor
  BY <1>0, <1>7 DEF ChangeColor, AwaitingQuiet, Exclusive, Active, Quiet, Entering
<1> QED BY <1>1, <1>2, <1>3, <1>4, <1>5, <1>6, <1>7 DEF Command

LEMMA ExclusiveStep == ExclusiveInv /\ [Next]_vars => ExclusiveInv'
<1> SUFFICES ASSUME ExclusiveInv, [Next]_vars PROVE ExclusiveInv'
  OBVIOUS
<1>1. TypeOK'
  BY TypeOKStep DEF ExclusiveInv
<1>2. CASE UNCHANGED vars
  BY <1>1, <1>2 DEF vars, ExclusiveInv, ExclusiveTracking, AwaitingQuiet, Exclusive,
                    Entering, Quiet, Active
<1>3. CASE Next
  BY <1>1, <1>3, TickExclusive, KeyPressExclusive, HandlerStepExclusive, HostExclusive
  DEF Next, ExclusiveInv
<1> QED BY <1>2, <1>3

\* No session ever tracks work and meetings at once, whatever the keys, the host,
\* the timer and the power do.
THEOREM SpecExclusiveTracking == Spec => []ExclusiveTracking
<1>1. ExclusiveInv => ExclusiveTracking
  BY DEF ExclusiveInv
<1> QED BY <1>1, ExclusiveStep, InitExclusive, PTL DEF Spec

-----------------------------------------------------------------------------
(* What a power loss can cost.                                             *)

Time(d, s) == d.tracking_entries[s].time

LagInv == ExclusiveInv /\ PersistLag

LEMMA TimeType ==
  ASSUME NEW d \in TimeTrackerData, NEW s \in Sessions
  PROVE  Time(d, s) \in Nat
BY TimeTrackerConstants DEF Time, TimeTrackerData, Entry

LEMMA TimeWithActive ==
  ASSUME NEW d \in TimeTrackerData, NEW e \in Entry, NEW s \in Sessions
  PROVE  Time(WithActive(d, e), s) = IF s = d.active_session THEN e.time ELSE Time(d, s)
<1>1. /\ WithActive(d, e).tracking_entries = [d.tracking_entries EXCEPT ![d.active_session] = e]
      /\ d.tracking_entries \in [Sessions -> Entry]
  BY WithActiveType DEF TimeTrackerData
<1> QED BY <1>1 DEF Time

LEMMA TimeActive ==
  ASSUME NEW d \in TimeTrackerData
  PROVE  Active(d).time = Time(d, d.active_session)
BY DEF Active, Time

LEMMA LagFrom ==
  ASSUME TypeOK, TypeOK', PersistLag,
         feature' = "time_tracker" /\ flash'.magic =>
           /\ feature = "time_tracker" /\ flash' = flash
           /\ intervals_count' = intervals_count
           /\ \A s \in Sessions : Time(data', s) <= Time(data, s)
  PROVE  PersistLag'
<1> SUFFICES ASSUME feature' = "time_tracker", flash'.magic, NEW s \in Sessions
             PROVE  Time(data', s) <= Time(flash', s) + intervals_count'
  BY DEF PersistLag, Time
<1>1. /\ Time(data', s) \in Nat /\ Time(data, s) \in Nat /\ Time(flash, s) \in Nat
      /\ intervals_count \in Nat
  BY TimeType, TimeTrackerConstants DEF TypeOK
<1>2. Time(data, s) <= Time(flash, s) + intervals_count
  BY DEF PersistLag, Time
<1> QED BY <1>1, <1>2

LEMMA TickLag ==
  ASSUME TypeOK, TypeOK', PersistLag, Tick
  PROVE  PersistLag'
<1> SUFFICES ASSUME feature' = "time_tracker", flash'.magic, NEW s \in Sessions
             PROVE  Time(data', s) <= Time(flash', s) + intervals_count'
  BY DEF PersistLag, Time
<1> DEFINE e == Ticked(Active(data))
           f == [e EXCEPT !.medium_threshold_reached = @ \/ MediumDue(e),
                          !.long_threshold_reached = @ \/ LongDue(e)]
<1>1. Active(data) \in Entry /\ e \in Entry /\ data \in TimeTrackerData
  BY ActiveType, TickedType DEF TypeOK
<1>2. f \in Entry /\ f.time = e.time
  BY <1>1 DEF Entry, MediumDue, LongDue
<1>3. data' = WithActive(data, f) /\ feature' = feature /\ SaveOrCount
  BY DEF Tick
<1>4. e.time <= Active(data).time + 1 /\ e.time \in Nat /\ Active(data).time \in Nat
  BY <1>1, TickedType, TimeTrackerConstants DEF Entry
<1> HIDE DEF e, f
<1>5. Time(data', s) <= Time(data, s) + 1
  BY <1>1, <1>2, <1>3, <1>4, TimeWithActive, TimeActive, TimeType
<1>6. /\ Time(data', s) \in Nat /\ Time(data, s) \in Nat /\ Time(flash, s) \in Nat
      /\ intervals_count \in Nat
  BY TimeType, TimeTrackerConstants DEF TypeOK
<1>7. CASE flash' = data' /\ intervals_count' = 0
  BY <1>6, <1>7
<1>8. CASE flash' = flash /\ intervals_count' = intervals_count + 1
  <2>1. Time(data, s) <= Time(flash, s) + intervals_count
    BY <1>3, <1>8 DEF PersistLag, Time
  <2> QED BY <1>5, <1>6, <1>8, <2>1
<1> QED BY <1>3, <1>7, <1>8 DEF SaveOrCount

LEMMA KeyPressLag ==
  ASSUME TypeOK, TypeOK', PersistLag, KeyPress \/ HandlerStep
  PROVE  PersistLag'
<1>1. flash' = flash /\ intervals_count' = intervals_count /\ feature' = feature
  BY DEF KeyPress, CancelNextSession, Toggle, ShowSession, ShowHours, AskConfirmation,
         KeyNextSession, MoveToNextSession, HandlerStep, StopTracking, ResetSession, ClearMark,
         LedStatement
<1>2. data \in TimeTrackerData /\ Active(data) \in Entry
  BY ActiveType DEF TypeOK
<1>3. \A s \in Sessions : Time(data, s) \in Nat
  BY <1>2, TimeType
<1>4. ASSUME NEW e \in Entry, e.time <= Active(data).time, data' = WithActive(data, e)
      PROVE  \A s \in Sessions : Time(data', s) <= Time(data, s)
  BY <1>2, <1>3, <1>4, TimeWithActive, TimeActive
<1>5. \A s \in Sessions : Time(data', s) <= Time(data, s)
  <2>1. CASE CancelNextSession
    BY <1>2, <1>4, <2>1, ResumedType DEF CancelNextSession, TypeOK, Entry
  <2>2. ASSUME NEW own \in Kinds, NEW other \in Kinds, Toggle(own, other)
        PROVE  \A s \in Sessions : Time(data', s) <= Time(data, s)
    <3> DEFINE x == [Active(data) EXCEPT ![own] = FALSE]
               y == [Active(data) EXCEPT ![own] = TRUE, ![other] = FALSE]
    <3>1. /\ x \in Entry /\ x.time = Active(data).time
          /\ y \in Entry /\ y.time = Active(data).time
      BY <1>2 DEF Kinds, WORK_TRACKING, MEETING_TRACKING, Entry
    <3>2. data' = WithActive(data, x) \/ data' = WithActive(data, y)
      BY <2>2 DEF Toggle
    <3>3. Active(data).time \in Nat
      BY <1>2, TimeTrackerConstants DEF Entry
    <3> HIDE DEF x, y
    <3> QED BY <1>4, <3>1, <3>2, <3>3
  <2>3. CASE ShowSession \/ ShowHours \/ LedStatement
    BY <1>3, <2>3 DEF ShowSession, ShowHours, LedStatement
  <2>4. CASE AskConfirmation
    BY <1>2, <1>4, <2>4, StoppedType, TimeTrackerConstants DEF AskConfirmation, Entry
  <2>5. CASE KeyNextSession
    BY <1>2, <1>3, <2>5 DEF KeyNextSession, MoveToNextSession, TimeTrackerData, Time
  <2>6. CASE StopTracking
    BY <1>2, <1>4, <2>6, StoppedType, TimeTrackerConstants DEF StopTracking, Entry
  <2>8. CASE ResetSession
    <3> DEFINE r == [Active(data) EXCEPT !.time = 0, !.tracking_work = FALSE,
                                         !.tracking_meetings = FALSE]
    <3>1. r \in Entry /\ r.time = 0
      BY <1>2, ResetType
    <3>3. 0 <= Active(data).time
      BY <1>2, TimeTrackerConstants DEF Entry
    <3>2. data' = WithActive(data, r)
      BY <2>8 DEF ResetSession
    <3> HIDE DEF r
    <3> QED BY <1>4, <3>1, <3>2, <3>3
  <2>9. CASE ClearMark
    <3> DEFINE c == [Active(data) EXCEPT ![Head(todo).do] = FALSE]
    <3>1. c \in Entry /\ c.time = Active(data).time
      BY <1>2, <2>9, ClearedType DEF ClearMark
    <3>3. Active(data).time <= Active(data).time
      BY <1>2, TimeTrackerConstants DEF Entry
    <3>2. data' = WithActive(data, c)
      BY <2>9 DEF ClearMark
    <3> HIDE DEF c
    <3> QED BY <1>4, <3>1, <3>2, <3>3
  <2>7. WORK_TRACKING \in Kinds /\ MEETING_TRACKING \in Kinds
    BY DEF Kinds
  <2> QED BY <2>1, <2>2, <2>3, <2>4, <2>5, <2>6, <2>7, <2>8, <2>9 DEF KeyPress, HandlerStep
<1> QED BY <1>1, <1>5, LagFrom

LEMMA HostLag ==
  ASSUME ExclusiveInv, TypeOK', PersistLag,
         Command \/ PowerLoss
  PROVE  PersistLag'
<1>0. /\ data \in TimeTrackerData /\ flash \in TimeTrackerData
      /\ \A s \in Sessions : Time(data, s) \in Nat
      /\ TypeOK /\ intervals_count' \in Nat
  BY TimeType, TimeTrackerConstants DEF ExclusiveInv, TypeOK
<1>1. ASSUME \A s \in Sessions : Time(data', s) = Time(flash', s) PROVE PersistLag'
  <2>1. \A s \in Sessions : Time(flash', s) \in Nat
    BY TimeType DEF TypeOK
  <2> QED BY <1>0, <1>1, <2>1 DEF PersistLag, Time
<1>2. CASE NewSession
  <2>1. /\ flash' = flash /\ intervals_count' = intervals_count /\ feature' = feature
        /\ data'.tracking_entries = data.tracking_entries
    BY <1>0, <1>2 DEF NewSession, MoveToNextSession, TimeTrackerData
  <2> QED BY <1>0, <2>1, LagFrom DEF Time
<1>3. CASE SetThreshold \/ FactoryInit
  BY <1>1, <1>3 DEF SetThreshold, FactoryInit
<1>4. ASSUME TrackerInit PROVE PersistLag'
  BY <1>1, <1>4, TrackerInitExclusive DEF Time
<1>5. ASSUME NEW f \in SwitchTargets, SwitchFeature(f) PROVE PersistLag'
  BY <1>4, <1>5 DEF SwitchFeature, PersistLag
<1>6. CASE Erase
  BY <1>0, <1>6 DEF Erase, TimeTrackerData, PersistLag
<1>7. CASE PowerLoss
  BY <1>4, <1>7 DEF PowerLoss, PersistLag
<1>8. CASE ChangeColor
  BY <1>0, <1>8 DEF ChangeColor, PersistLag
<1> QED BY <1>2, <1>3, <1>5, <1>6, <1>7, <1>8 DEF Command

\* Flash lacks at most the ticks since the timer saved, of every session, while
\* the tracker is the current feature.
THEOREM SpecPersistLag == Spec => []PersistLag
<1>1. ExclusiveInv /\ [Next]_vars => ExclusiveInv'
  BY ExclusiveStep
<1>2. Init => LagInv
  <2>1. Init => PersistLag
    BY GarbageType, TimeTrackerConstants, FactoryDataType, TimeType
    DEF Init, PersistLag, Time
  <2> QED BY <2>1, InitExclusive DEF LagInv
<1>3. LagInv /\ [Next]_vars => LagInv'
  <2> SUFFICES ASSUME LagInv, [Next]_vars PROVE PersistLag'
    BY <1>1 DEF LagInv
  <2>1. TypeOK /\ TypeOK' /\ PersistLag /\ ExclusiveInv
    BY <1>1 DEF LagInv, ExclusiveInv
  <2>2. CASE UNCHANGED vars
    BY <2>1, <2>2 DEF vars, PersistLag
  <2>3. CASE Next
    BY <2>1, <2>3, TickLag, KeyPressLag, HostLag DEF Next
  <2> QED BY <2>2, <2>3
<1>4. LagInv => PersistLag
  BY DEF LagInv
<1> QED BY <1>2, <1>3, <1>4, PTL DEF Spec

-----------------------------------------------------------------------------
\* The repeating timer and the key interrupts are on for no other feature.
THEOREM SpecTimerOnlyForTracker == Spec => []TimerOnlyForTracker
<1>1. Init => TimerOnlyForTracker
  BY DEF Init, TimerOnlyForTracker
<1>2. TimerOnlyForTracker /\ [Next]_vars => TimerOnlyForTracker'
  <2> SUFFICES ASSUME TimerOnlyForTracker, [Next]_vars PROVE TimerOnlyForTracker'
    OBVIOUS
  <2>1. CASE timer' = timer /\ feature' = feature
    BY <2>1 DEF TimerOnlyForTracker
  <2>2. ASSUME NEW f \in SwitchTargets, SwitchFeature(f) PROVE TimerOnlyForTracker'
    BY <2>2 DEF SwitchFeature, TrackerInit, TrackerDeinit, TimerOnlyForTracker
  <2>3. CASE FactoryInit
    BY <2>3 DEF FactoryInit, TrackerDeinit, TimerOnlyForTracker
  <2>4. CASE PowerLoss
    BY <2>4 DEF PowerLoss, TrackerInit, TimerOnlyForTracker
  <2> QED BY <2>1, <2>2, <2>3, <2>4
      DEF vars, Next, Tick, KeyPress, CancelNextSession, Toggle, ShowSession, ShowHours,
          AskConfirmation, KeyNextSession, MoveToNextSession, HandlerStep, StopTracking,
          ResetSession, ClearMark, LedStatement, Command, NewSession, SetThreshold, ChangeColor,
          Erase
<1> QED BY <1>1, <1>2, PTL DEF Spec

-----------------------------------------------------------------------------
(* The statements left to a handler: LED statements alone, or those that enter *)
(* a session from the j-th on, and the animation after them.                   *)

Plain(t) == \A i \in 1 .. Len(t) : t[i].do \in {"on", "off", "all_off", "restore"}
Animating(t) ==
  /\ t # << >> /\ t[Len(t)].do = "all_off"
  /\ \A i \in 1 .. Len(t) - 1 : t[i].do = "on"
Doing(t, j) ==
  /\ Len(t) >= 6 - j
  /\ \A i \in 1 .. 6 - j : t[i].do = Enter[i + j - 1].do
  /\ \A i \in 7 - j .. Len(t) - 1 : t[i].do = "on"
  /\ Len(t) = 6 - j \/ t[Len(t)].do = "all_off"

LEMMA Rest ==
  ASSUME NEW t \in Seq(Statement), t # << >>
  PROVE  /\ Len(t) \in Nat \ {0} /\ Head(t) = t[1] /\ Tail(t) \in Seq(Statement)
         /\ Len(Tail(t)) = Len(t) - 1
         /\ \A i \in 1 .. Len(t) - 1 : Tail(t)[i] = t[i + 1]
         /\ Tail(t) = << >> <=> Len(t) = 1
<1>1. Len(t) \in Nat \ {0} /\ Tail(t) \in Seq(Statement) /\ Len(Tail(t)) = Len(t) - 1
  BY HeadTailProperties, EmptySeq
<1>2. Tail(t) = << >> <=> Len(Tail(t)) = 0
  BY <1>1, EmptySeq
<1> QED BY <1>1, <1>2

LEMMA EnterDo ==
  /\ Enter \in Seq(Statement) /\ Len(Enter) = 5
  /\ Enter[1].do = "stop" /\ Enter[2].do = "all_off" /\ Enter[3].do = "reset"
  /\ Enter[4].do = "medium_threshold_reached" /\ Enter[5].do = "long_threshold_reached"
BY HandlerType DEF Enter, Do

LEMMA PlainRest ==
  ASSUME NEW t \in Seq(Statement), t # << >>, Plain(t)
  PROVE  Head(t).do \in {"on", "off", "all_off", "restore"} /\ Plain(Tail(t))
BY Rest DEF Plain

LEMMA PlainConcat ==
  ASSUME NEW a \in Seq(Statement), NEW b \in Seq(Statement), Plain(a), Plain(b)
  PROVE  Plain(a \o b)
<1> DEFINE t == a \o b
<1>1. /\ Len(t) = Len(a) + Len(b) /\ Len(a) \in Nat /\ Len(b) \in Nat
      /\ \A i \in 1 .. Len(a) + Len(b) : t[i] = IF i <= Len(a) THEN a[i] ELSE b[i - Len(a)]
  BY ConcatProperties, LenProperties
<1> HIDE DEF t
<1>2. ASSUME NEW i \in 1 .. Len(t) PROVE t[i].do \in {"on", "off", "all_off", "restore"}
  <2>1. CASE i <= Len(a)
    BY <1>1, <2>1 DEF Plain
  <2>2. CASE ~(i <= Len(a))
    <3>1. i - Len(a) \in 1 .. Len(b)
      BY <1>1, <2>2
    <3> QED BY <1>1, <2>2, <3>1 DEF Plain
  <2> QED BY <2>1, <2>2
<1> QED BY <1>2 DEF Plain, t

LEMMA BlinkStatements ==
  ASSUME NEW k \in Keys, NEW n \in Nat
  PROVE  /\ Len(Blink(k, n)) = 2 * n
         /\ \A i \in 1 .. 2 * n : Blink(k, n)[i].do \in {"on", "off"} /\ Blink(k, n)[i].key = k
         /\ Plain(Blink(k, n))
<1>1. /\ Len(Blink(k, n)) = 2 * n
      /\ \A i \in 1 .. 2 * n : Blink(k, n)[i].do \in {"on", "off"} /\ Blink(k, n)[i].key = k
  BY DEF Blink, Do
<1> QED BY <1>1 DEF Plain

LEMMA DoingRest ==
  ASSUME NEW t \in Seq(Statement), NEW j \in 1 .. 5, Doing(t, j)
  PROVE  /\ t # << >> /\ Head(t).do = Enter[j].do
         /\ j < 5 => Doing(Tail(t), j + 1)
         /\ j = 5 => Tail(t) = << >> \/ Animating(Tail(t))
<1>1. t # << >>
  BY DEF Doing
<1>2. /\ Len(t) \in Nat \ {0} /\ Head(t) = t[1] /\ Tail(t) \in Seq(Statement)
      /\ Len(Tail(t)) = Len(t) - 1
      /\ \A i \in 1 .. Len(t) - 1 : Tail(t)[i] = t[i + 1]
      /\ Tail(t) = << >> <=> Len(t) = 1
  BY <1>1, Rest
<1>3. Head(t).do = Enter[j].do
  <2>1. 1 \in 1 .. 6 - j /\ 1 + j - 1 = j
    OBVIOUS
  <2> QED BY <1>2, <2>1 DEF Doing
<1> DEFINE u == Tail(t)
           n == Len(t)
<1>4. ASSUME j < 5 PROVE Doing(u, j + 1)
  <2>1. n \in Nat /\ n >= 6 - j /\ Len(u) = n - 1 /\ \A i \in 1 .. n - 1 : u[i] = t[i + 1]
    BY <1>2 DEF Doing
  <2> HIDE DEF u, n
  <2>2. Len(u) >= 6 - (j + 1)
    BY <2>1
  <2>3. ASSUME NEW i \in 1 .. 6 - (j + 1) PROVE u[i].do = Enter[i + (j + 1) - 1].do
    <3>1. i + 1 \in 1 .. 6 - j /\ i \in 1 .. n - 1 /\ (i + 1) + j - 1 = i + (j + 1) - 1
      BY <2>1
    <3>2. t[i + 1].do = Enter[(i + 1) + j - 1].do
      BY <3>1 DEF Doing
    <3> QED BY <2>1, <3>1, <3>2
  <2>4. ASSUME NEW i \in 7 - (j + 1) .. Len(u) - 1 PROVE u[i].do = "on"
    <3>1. i + 1 \in 7 - j .. n - 1 /\ i \in 1 .. n - 1
      BY <1>4, <2>1
    <3> QED BY <2>1, <3>1 DEF Doing, n
  <2>5. Len(u) = 6 - (j + 1) \/ u[Len(u)].do = "all_off"
    <3>1. CASE n = 6 - j
      BY <2>1, <3>1
    <3>2. CASE n # 6 - j
      <4>1. n - 1 \in 1 .. n - 1 /\ (n - 1) + 1 = n /\ t[n].do = "all_off"
        BY <1>4, <2>1, <3>2 DEF Doing, n
      <4> QED BY <2>1, <4>1
    <3> QED BY <3>1, <3>2
  <2> QED BY <2>2, <2>3, <2>4, <2>5 DEF Doing
<1>5. ASSUME j = 5 PROVE u = << >> \/ Animating(u)
  <2>1. n \in Nat /\ n >= 1 /\ Len(u) = n - 1 /\ \A i \in 1 .. n - 1 : u[i] = t[i + 1]
    BY <1>2
  <2>2. u = << >> <=> n = 1
    BY <1>2
  <2>3. /\ \A i \in 2 .. n - 1 : t[i].do = "on"
        /\ n = 1 \/ t[n].do = "all_off"
    BY <1>5 DEF Doing
  <2> HIDE DEF u, n
  <2>4. CASE n # 1
    <3>1. n - 1 \in 1 .. n - 1 /\ (n - 1) + 1 = n
      BY <2>1, <2>4
    <3>2. u[Len(u)].do = "all_off"
      BY <2>1, <2>3, <2>4, <3>1
    <3>3. ASSUME NEW i \in 1 .. Len(u) - 1 PROVE u[i].do = "on"
      <4>1. i + 1 \in 2 .. n - 1 /\ i \in 1 .. n - 1
        BY <2>1
      <4> QED BY <2>1, <2>3, <4>1
    <3> QED BY <2>2, <2>4, <3>2, <3>3 DEF Animating
  <2> QED BY <2>2, <2>4
<1> QED BY <1>1, <1>3, <1>4, <1>5

LEMMA DoingEnter ==
  ASSUME NEW rest \in Seq(Statement), rest = << >> \/ Animating(rest)
  PROVE  Doing(Enter \o rest, 1)
<1> DEFINE t == Enter \o rest
           n == Len(rest)
<1>1. /\ n \in Nat /\ Len(t) = 5 + n
      /\ \A i \in 1 .. 5 + n : t[i] = IF i <= 5 THEN Enter[i] ELSE rest[i - 5]
  <2>1. /\ Len(t) = Len(Enter) + Len(rest) /\ Len(rest) \in Nat
        /\ \A i \in 1 .. Len(Enter) + Len(rest) :
             t[i] = IF i <= Len(Enter) THEN Enter[i] ELSE rest[i - Len(Enter)]
    BY EnterDo, ConcatProperties, LenProperties
  <2> HIDE DEF t
  <2> QED BY <2>1, EnterDo
<1>2. rest = << >> <=> n = 0
  BY EmptySeq
<1>3. n # 0 => rest[n].do = "all_off" /\ \A i \in 1 .. n - 1 : rest[i].do = "on"
  BY <1>2 DEF Animating
<1> HIDE DEF t, n
<1>4. Len(t) >= 6 - 1 /\ \A i \in 1 .. 6 - 1 : t[i].do = Enter[i + 1 - 1].do
  <2>1. ASSUME NEW i \in 1 .. 6 - 1 PROVE t[i].do = Enter[i + 1 - 1].do
    <3>1. i \in 1 .. 5 + n /\ i <= 5 /\ i + 1 - 1 = i
      BY <1>1
    <3> QED BY <1>1, <3>1
  <2> QED BY <1>1, <2>1
<1>5. ASSUME NEW i \in 7 - 1 .. Len(t) - 1 PROVE t[i].do = "on"
  <2>1. i \in 1 .. 5 + n /\ ~(i <= 5) /\ i - 5 \in 1 .. n - 1 /\ n # 0
    BY <1>1
  <2> QED BY <1>1, <1>3, <2>1
<1>6. Len(t) = 6 - 1 \/ t[Len(t)].do = "all_off"
  <2>1. CASE n # 0
    <3>1. 5 + n \in 1 .. 5 + n /\ ~(5 + n <= 5) /\ (5 + n) - 5 = n
      BY <1>1, <2>1
    <3> QED BY <1>1, <1>3, <2>1, <3>1
  <2> QED BY <1>1, <2>1
<1> QED BY <1>4, <1>5, <1>6 DEF Doing, t

LEMMA DoingSession == Doing(Enter \o << >>, 1) /\ Doing(Enter \o Animation, 1)
<1>1. Animating(Animation)
  BY DEF Animating, Animation, Do
<1>2. << >> \in Seq(Statement) /\ Animation \in Seq(Statement)
  BY HandlerType
<1> QED BY <1>1, <1>2, DoingEnter

\* A handler runs LED statements, or enters a session: from the first mark on, the
\* session's time is 0 and nothing is tracked that would count.
Fresh(e) == e.time = 0 /\ Quiet(e)
Entered ==
  \/ Plain(todo)
  \/ \E j \in 1 .. 5 : Doing(todo, j) /\ (j >= 4 => Fresh(Active(data)))

LEMMA EnteredTick ==
  ASSUME TypeOK, Entered, Tick
  PROVE  Entered'
<1> DEFINE o == Active(data)
           e == Ticked(o)
           f == [e EXCEPT !.medium_threshold_reached = @ \/ MediumDue(e),
                          !.long_threshold_reached = @ \/ LongDue(e)]
<1>1. data \in TimeTrackerData /\ o \in Entry /\ e \in Entry
  BY ActiveType, TickedType DEF TypeOK
<1>2. /\ f \in Entry /\ f.time = e.time
      /\ f.tracking_work = e.tracking_work /\ f.tracking_meetings = e.tracking_meetings
  BY <1>1 DEF Entry, MediumDue, LongDue
<1>3. Quiet(o) => e = o
  BY DEF Ticked, Quiet
<1>4. data' = WithActive(data, f) /\ todo' = todo
  BY DEF Tick
<1> HIDE DEF o, e, f
<1>5. Active(data') = f
  BY <1>1, <1>2, <1>4, WithActiveType
<1>6. Fresh(Active(data)) => Fresh(Active(data)')
  <2>1. Active(data)' = f
    BY <1>5 DEF Active
  <2> QED BY <1>2, <1>3, <2>1 DEF Fresh, Quiet, o
<1> QED BY <1>4, <1>6 DEF Entered, Plain, Doing, Fresh, Quiet, Active

LEMMA EnteredHandlerStep ==
  ASSUME TypeOK, Entered, HandlerStep
  PROVE  Entered'
<1>0. /\ todo \in Seq(Statement) /\ todo # << >> /\ todo' = Tail(todo)
      /\ data \in TimeTrackerData /\ Active(data) \in Entry
  BY ActiveType DEF TypeOK, HandlerStep, StopTracking, ResetSession, ClearMark, LedStatement,
                    Idle
<1>1. CASE Plain(todo)
  BY <1>0, <1>1, PlainRest DEF Entered, Plain
<1>2. ASSUME NEW j \in 1 .. 5, Doing(todo, j), j >= 4 => Fresh(Active(data))
      PROVE  Entered'
  <2>1. /\ Head(todo).do = Enter[j].do
        /\ j < 5 => Doing(todo', j + 1)
        /\ j = 5 => todo' = << >> \/ Animating(todo')
    BY <1>0, <1>2, DoingRest
  <2>2. CASE j = 5
    <3>1. Plain(todo')
      BY <2>1, <2>2 DEF Plain, Animating
    <3> QED BY <3>1 DEF Entered, Plain
  <2>3. CASE j = 1 \/ j = 2
    <3>1. j + 1 \in 1 .. 5 /\ ~(j + 1 >= 4) /\ Doing(todo', j + 1)
      BY <2>1, <2>3
    <3> QED BY <3>1 DEF Entered, Doing
  <2>4. CASE j = 3 \/ j = 4
    <3>1. j + 1 \in 1 .. 5 /\ Doing(todo', j + 1)
      BY <2>1, <2>4
    <3>2. Fresh(Active(data))'
      <4>1. CASE j = 3
        <5> DEFINE r == [Active(data) EXCEPT !.time = 0, !.tracking_work = FALSE,
                                             !.tracking_meetings = FALSE]
        <5>1. Head(todo).do = "reset"
          BY <2>1, <4>1, EnterDo
        <5>2. data' = WithActive(data, r)
          BY <5>1 DEF HandlerStep, StopTracking, ResetSession, ClearMark, LedStatement, Marks
        <5>3. r \in Entry /\ Fresh(r)
          BY <1>0, ResetType DEF Fresh, Quiet
        <5> HIDE DEF r
        <5>4. Active(data') = r
          BY <1>0, <5>2, <5>3, WithActiveType
        <5> QED BY <5>3, <5>4 DEF Active, Fresh, Quiet
      <4>2. CASE j = 4
        <5> DEFINE c == [Active(data) EXCEPT ![Head(todo).do] = FALSE]
        <5>1. Head(todo).do = "medium_threshold_reached"
          BY <2>1, <4>2, EnterDo
        <5>2. data' = WithActive(data, c) /\ Head(todo).do \in Marks
          BY <5>1 DEF HandlerStep, StopTracking, ResetSession, ClearMark, LedStatement, Marks
        <5>3. c \in Entry /\ c.time = Active(data).time
              /\ c.tracking_work = Active(data).tracking_work
              /\ c.tracking_meetings = Active(data).tracking_meetings
          BY <1>0, <5>2, ClearedType
        <5> HIDE DEF c
        <5>4. Fresh(Active(data))
          BY <1>2, <4>2
        <5>5. Fresh(c)
          BY <5>3, <5>4 DEF Fresh, Quiet
        <5>6. Active(data') = c
          BY <1>0, <5>2, <5>3, WithActiveType
        <5> QED BY <5>5, <5>6 DEF Active, Fresh, Quiet
      <4> QED BY <2>4, <4>1, <4>2
    <3> QED BY <3>1, <3>2 DEF Entered, Doing
  <2> QED BY <2>2, <2>3, <2>4
<1> QED BY <1>1, <1>2 DEF Entered

LEMMA EnteredStep ==
  ASSUME TypeOK, Entered, [Next]_vars
  PROVE  Entered'
<1>1. CASE todo' = todo /\ data' = data
  BY <1>1 DEF Entered, Plain, Doing, Fresh, Quiet, Active
<1>2. CASE Plain(todo')
  BY <1>2 DEF Entered, Plain
<1>3. CASE Doing(todo', 1)
  <2>1. 1 \in 1 .. 5 /\ ~(1 >= 4)
    OBVIOUS
  <2> QED BY <1>3, <2>1 DEF Entered
<1>4. Plain(<< >>)
  BY DEF Plain
<1>5. CASE KeyPress
  <2>1. CASE ShowSession
    <3> DEFINE a == Blink(WORK_TRACKING_KEY_ID, data.active_session \div 10)
               b == Blink(MEETING_TRACKING_KEY_ID, data.active_session % 10)
               r == <<Do("restore", 0)>>
    <3>1. data.active_session \div 10 \in Nat /\ data.active_session % 10 \in Nat
      BY ActiveType, TimeTrackerConstants DEF Sessions, TypeOK
    <3>2. /\ a \in Seq(Statement) /\ b \in Seq(Statement) /\ r \in Seq(Statement)
          /\ Plain(a) /\ Plain(b)
      BY <3>1, BlinkType, BlinkStatements, HandlerType, KeysFacts
    <3>3. Plain(r)
      BY DEF Plain, Do
    <3>4. todo' = a \o b \o r
      BY <2>1 DEF ShowSession
    <3> HIDE DEF a, b, r
    <3>5. Plain(a \o b) /\ a \o b \in Seq(Statement)
      BY <3>2, PlainConcat, ConcatProperties
    <3>6. Plain(todo')
      BY <3>2, <3>3, <3>4, <3>5, PlainConcat
    <3> QED BY <1>2, <3>6
  <2>2. CASE ShowHours
    <3>1. Active(data).time \div HourTicks \in Nat
      BY ActiveType, HoursType DEF TypeOK
    <3>2. Plain(todo')
      BY <2>2, <3>1, BlinkStatements, KeysFacts DEF ShowHours
    <3> QED BY <1>2, <3>2
  <2>3. CASE KeyNextSession
    BY <1>3, <2>3, DoingSession DEF KeyNextSession, MoveToNextSession
  <2> QED BY <1>2, <1>4, <1>5, <2>1, <2>2, <2>3
      DEF KeyPress, CancelNextSession, Toggle, AskConfirmation, Pressed, Idle
<1>6. CASE Command
  <2>1. CASE NewSession
    BY <1>3, <2>1, DoingSession DEF NewSession, MoveToNextSession
  <2> QED BY <1>2, <1>4, <1>6, <2>1
      DEF Command, SetThreshold, ChangeColor, SwitchFeature, FactoryInit, Erase, Host, Idle
<1>7. CASE PowerLoss
  BY <1>2, <1>4, <1>7 DEF PowerLoss
<1> QED BY <1>1, <1>5, <1>6, <1>7, EnteredTick, EnteredHandlerStep DEF Next, vars

-----------------------------------------------------------------------------
(* The marks of the thresholds.  A tick looks at one threshold only, so the    *)
(* long mark is late when both are met at one tick: the defaults must differ.  *)
(* A session starts at 0, unmarked, so a default of 0 would be met unmarked.   *)

\* MEDIUM_THRESHOLD_MS_DEFAULT is 6 h and LONG_THRESHOLD_MS_DEFAULT 7.5 h.
DefaultsApart == MediumDefault # LongDefault /\ 0 < MediumDefault /\ 0 < LongDefault

Default(mark) == IF mark = "medium_threshold_reached" THEN MediumDefault ELSE LongDefault

\* An entry has the marks of what it has reached; one it has not reached is early.
Marked(e)      == \A mark \in Marks : e.time >= Default(mark) => e[mark]
Early(e, mark) == e[mark] /\ ~(e.time >= Default(mark))

Known(d) ==
  d.magic =>
    /\ d.medium_threshold = MediumDefault /\ d.long_threshold = LongDefault
    /\ \A s \in Sessions : Marked(d.tracking_entries[s])

EarlyExplained ==
  feature = "time_tracker" /\ data.magic /\ flash.magic =>
    \A s \in Sessions, mark \in Marks :
      Early(data.tracking_entries[s], mark) =>
        \/ s = data.active_session /\ Clearing(mark)
        \/ Early(flash.tracking_entries[s], mark)

Kept == Known(data) /\ Known(flash) /\ EarlyExplained
MarksInv == TypeOK /\ Entered /\ Kept

LEMMA KnownWithActive ==
  ASSUME NEW d \in TimeTrackerData, NEW e \in Entry, Known(d), d.magic => Marked(e)
  PROVE  Known(WithActive(d, e))
<1> DEFINE w == WithActive(d, e)
<1>1. /\ w.magic = d.magic /\ w.medium_threshold = d.medium_threshold
      /\ w.long_threshold = d.long_threshold
      /\ w.tracking_entries = [d.tracking_entries EXCEPT ![d.active_session] = e]
      /\ d.tracking_entries \in [Sessions -> Entry]
  BY DEF TimeTrackerData, WithActive
<1> HIDE DEF w
<1>2. ASSUME d.magic, NEW s \in Sessions PROVE Marked(w.tracking_entries[s])
  BY <1>1, <1>2 DEF Known
<1>3. Known(w)
  BY <1>1, <1>2 DEF Known
<1> QED BY <1>3 DEF w

LEMMA KnownActive ==
  ASSUME NEW d \in TimeTrackerData, Known(d), d.magic
  PROVE  Marked(Active(d))
BY ActiveType DEF Known, Active

LEMMA KnownFactory == DefaultsApart => Known(FactoryData)
BY TimeTrackerConstants DEF DefaultsApart, Known, FactoryData, Marked, EmptyEntry, Default, Marks

LEMMA KnownGarbage == \A d \in Garbage : Known(d)
BY GarbageType DEF Known

\* What has the time and the marks of an entry is marked as it is.
SameMarks(x, e) == x.time = e.time /\ \A mark \in Marks : x[mark] = e[mark]

LEMMA MarkedSame ==
  ASSUME NEW x, NEW e, SameMarks(x, e)
  PROVE  /\ Marked(e) => Marked(x)
         /\ \A mark \in Marks : Early(x, mark) => Early(e, mark)
BY DEF SameMarks, Marked, Early

\* Stopping and resuming touch neither the time nor the marks.
LEMMA SameMarksKind ==
  ASSUME NEW e \in Entry, NEW kind \in Kinds, NEW b \in BOOLEAN
  PROVE  [e EXCEPT ![kind] = b] \in Entry /\ SameMarks([e EXCEPT ![kind] = b], e)
<1>1. CASE kind = WORK_TRACKING
  BY <1>1 DEF Entry, SameMarks, Marks, WORK_TRACKING
<1>2. CASE kind = MEETING_TRACKING
  BY <1>2 DEF Entry, SameMarks, Marks, MEETING_TRACKING
<1> QED BY <1>1, <1>2 DEF Kinds

LEMMA SameMarksStopped ==
  ASSUME NEW e \in Entry
  PROVE  SameMarks(Stopped(e), e)
BY DEF Stopped, Entry, SameMarks, Marks

LEMMA SameMarksResumed ==
  ASSUME NEW e \in Entry, NEW kind \in Kinds \cup {"none"}
  PROVE  SameMarks(Resumed(e, kind), e)
<1>1. CASE kind \in Kinds
  BY <1>1, SameMarksKind DEF Resumed
<1>2. CASE kind \notin Kinds
  BY <1>2 DEF Resumed, SameMarks
<1> QED BY <1>1, <1>2

\* A tick of the timer marks what it reaches, although it looks at one threshold:
\* the time grows by one and cannot reach two different thresholds at once.  It
\* marks nothing early.
LEMMA MarkedTick ==
  ASSUME DefaultsApart, NEW o \in Entry, Marked(o),
         data.medium_threshold = MediumDefault, data.long_threshold = LongDefault
  PROVE  LET e == Ticked(o)
             f == [e EXCEPT !.medium_threshold_reached = @ \/ MediumDue(e),
                            !.long_threshold_reached = @ \/ LongDue(e)] IN
         Marked(f) /\ \A mark \in Marks : Early(f, mark) => Early(o, mark)
<1> DEFINE e == Ticked(o)
           f == [e EXCEPT !.medium_threshold_reached = @ \/ MediumDue(e),
                          !.long_threshold_reached = @ \/ LongDue(e)]
<1>1. /\ e \in Entry /\ e.time \in Nat /\ o.time \in Nat
      /\ e.time = o.time \/ e.time = o.time + 1
      /\ e.medium_threshold_reached = o.medium_threshold_reached
      /\ e.long_threshold_reached = o.long_threshold_reached
  BY TickedType, TimeTrackerConstants DEF Ticked, Entry
<1>2. /\ o.time >= MediumDefault => e.medium_threshold_reached
      /\ o.time >= LongDefault => e.long_threshold_reached
  BY <1>1 DEF Marked, Marks, Default
<1> HIDE DEF e
<1>3. /\ f.time = e.time
      /\ f.medium_threshold_reached = (e.medium_threshold_reached \/ MediumDue(e))
      /\ f.long_threshold_reached = (e.long_threshold_reached \/ LongDue(e))
  BY <1>1 DEF Entry
<1> HIDE DEF f
<1>4. /\ MediumDue(e) <=> e.time >= MediumDefault /\ ~e.medium_threshold_reached
      /\ LongDue(e) <=> ~MediumDue(e) /\ e.time >= LongDefault /\ ~e.long_threshold_reached
  BY DEF MediumDue, LongDue
<1>5. f.time >= MediumDefault => f.medium_threshold_reached
  BY <1>3, <1>4
<1>6. f.time >= LongDefault => f.long_threshold_reached
  <2> SUFFICES ASSUME e.time >= LongDefault, ~e.long_threshold_reached, MediumDue(e)
               PROVE  FALSE
    BY <1>3, <1>4
  <2>1. ~(o.time >= LongDefault) /\ ~(o.time >= MediumDefault)
    BY <1>2, <1>4
  <2>2. e.time = LongDefault /\ e.time = MediumDefault
    BY <1>1, <1>4, <2>1, TimeTrackerConstants
  <2> QED BY <2>2 DEF DefaultsApart
<1>7. ASSUME NEW mark \in Marks, Early(f, mark) PROVE Early(o, mark)
  <2>1. CASE mark = "medium_threshold_reached"
    <3>1. f.medium_threshold_reached /\ ~(f.time >= MediumDefault)
      BY <1>7, <2>1 DEF Early, Default
    <3>2. ~(e.time >= MediumDefault) /\ ~MediumDue(e)
      BY <1>3, <1>4, <3>1
    <3>3. e.medium_threshold_reached
      BY <1>3, <3>1, <3>2, Zenon
    <3>4. o.medium_threshold_reached
      BY <1>1, <3>3, Zenon
    <3>5. ~(o.time >= MediumDefault)
      <4>1. e.time \in Nat /\ o.time \in Nat /\ (e.time = o.time \/ e.time = o.time + 1)
        BY <1>1
      <4> QED BY <3>2, <4>1, TimeTrackerConstants
    <3> QED BY <2>1, <3>4, <3>5 DEF Early, Default
  <2>2. CASE mark = "long_threshold_reached"
    <3>1. f.long_threshold_reached /\ ~(f.time >= LongDefault)
      BY <1>7, <2>2 DEF Early, Default
    <3>2. ~(e.time >= LongDefault) /\ ~LongDue(e)
      BY <1>3, <1>4, <3>1
    <3>3. e.long_threshold_reached
      BY <1>3, <3>1, <3>2, Zenon
    <3>4. o.long_threshold_reached
      BY <1>1, <3>3, Zenon
    <3>5. ~(o.time >= LongDefault)
      <4>1. e.time \in Nat /\ o.time \in Nat /\ (e.time = o.time \/ e.time = o.time + 1)
        BY <1>1
      <4> QED BY <3>2, <4>1, TimeTrackerConstants
    <3> QED BY <2>2, <3>4, <3>5 DEF Early, Default
  <2> QED BY <2>1, <2>2 DEF Marks
<1>8. Marked(f)
  BY <1>5, <1>6 DEF Marked, Marks, Default
<1> QED BY <1>7, <1>8 DEF e, f

\* A step on the active entry that saves nothing: a mark that is early in the new
\* entry is to be cleared, or was early already and not to be cleared.
LEMMA KeptWithActive ==
  ASSUME MarksInv, NEW x \in Entry, data' = WithActive(data, x), flash' = flash,
         feature' = feature, data.magic => Marked(x),
         data.magic =>
           \A mark \in Marks : Early(x, mark) => \/ Clearing(mark)'
                                                 \/ Early(Active(data), mark) /\ ~Clearing(mark)
  PROVE  Kept'
<1>1. data \in TimeTrackerData /\ Known(data) /\ Known(flash) /\ EarlyExplained
  BY DEF MarksInv, TypeOK, Kept
<1>2. Known(data')
  BY <1>1, KnownWithActive
<1>3. /\ data'.magic = data.magic /\ data'.active_session = data.active_session
      /\ data'.tracking_entries = [data.tracking_entries EXCEPT ![data.active_session] = x]
      /\ data.tracking_entries \in [Sessions -> Entry]
  BY <1>1, WithActiveType DEF TimeTrackerData
<1>4. EarlyExplained'
  <2> SUFFICES ASSUME feature' = "time_tracker", data'.magic, flash'.magic,
                      NEW s \in Sessions, NEW mark \in Marks,
                      Early(data'.tracking_entries[s], mark)
               PROVE  \/ s = data'.active_session /\ Clearing(mark)'
                      \/ Early(flash'.tracking_entries[s], mark)
    BY DEF EarlyExplained, Early
  <2>1. CASE s = data.active_session
    <3>1. data'.tracking_entries[s] = x
      BY <1>3, <2>1
    <3>2. Clearing(mark)' \/ (Early(Active(data), mark) /\ ~Clearing(mark))
      BY <1>3, <3>1
    <3>3. Active(data) = data.tracking_entries[s]
      BY <2>1 DEF Active
    <3> QED BY <1>1, <1>3, <2>1, <3>2, <3>3 DEF EarlyExplained
  <2>2. CASE s # data.active_session
    <3>1. data'.tracking_entries[s] = data.tracking_entries[s]
      BY <1>3, <2>2
    <3> QED BY <1>1, <1>3, <2>2, <3>1 DEF EarlyExplained
  <2> QED BY <2>1, <2>2
<1> QED BY <1>1, <1>2, <1>4 DEF Kept, Known

\* A step of a handler at rest: the marks and the time stay.
LEMMA KeptAtRest ==
  ASSUME MarksInv, Idle, NEW x \in Entry, SameMarks(x, Active(data)),
         data' = WithActive(data, x), flash' = flash, feature' = feature
  PROVE  Kept'
<1>1. \A mark : ~Clearing(mark)
  BY DEF Idle, Clearing
<1>2. data.magic => Marked(Active(data))
  BY KnownActive DEF MarksInv, TypeOK, Kept
<1> QED BY <1>1, <1>2, MarkedSame, KeptWithActive

LEMMA KeptUnchanged ==
  ASSUME MarksInv, Idle, flash' = flash, feature' = feature, data'.magic = data.magic,
         data'.tracking_entries = data.tracking_entries,
         data'.medium_threshold = data.medium_threshold,
         data'.long_threshold = data.long_threshold
  PROVE  Kept'
<1>1. \A mark : ~Clearing(mark)
  BY DEF Idle, Clearing
<1> QED BY <1>1 DEF MarksInv, Kept, Known, EarlyExplained, Early

LEMMA KeptSaved ==
  ASSUME Known(data'), flash' = data'
  PROVE  Kept'
BY DEF Kept, Known, EarlyExplained, Early

LEMMA MarksTick ==
  ASSUME DefaultsApart, MarksInv, Tick
  PROVE  Kept'
<1> DEFINE o == Active(data)
           e == Ticked(o)
           f == [e EXCEPT !.medium_threshold_reached = @ \/ MediumDue(e),
                          !.long_threshold_reached = @ \/ LongDue(e)]
<1>1. data \in TimeTrackerData /\ o \in Entry /\ e \in Entry /\ Known(data)
  BY ActiveType, TickedType DEF MarksInv, TypeOK, Kept
<1>2. f \in Entry
  BY <1>1 DEF Entry, MediumDue, LongDue
<1>3. data.magic => Marked(f) /\ \A mark \in Marks : Early(f, mark) => Early(o, mark)
  BY <1>1, KnownActive, MarkedTick DEF Known
<1>4. data' = WithActive(data, f) /\ (flash' = data' \/ flash' = flash)
      /\ feature' = feature /\ todo' = todo
  BY DEF Tick, SaveOrCount
<1> HIDE DEF o, e, f
<1>5. CASE flash' = data'
  <2>1. Known(data')
    BY <1>1, <1>2, <1>3, <1>4, KnownWithActive
  <2> QED BY <1>5, <2>1, KeptSaved
<1>6. CASE flash' = flash
  <2>1. \A mark : Clearing(mark)' <=> Clearing(mark)
    BY <1>4 DEF Clearing
  <2> QED BY <1>2, <1>3, <1>4, <1>6, <2>1, KeptWithActive DEF o
<1> QED BY <1>4, <1>5, <1>6

LEMMA MarksKeyPress ==
  ASSUME MarksInv, KeyPress
  PROVE  Kept'
<1>0. data \in TimeTrackerData /\ Active(data) \in Entry
  BY ActiveType DEF MarksInv, TypeOK
<1>1. flash' = flash /\ feature' = feature /\ Idle
  BY DEF KeyPress, CancelNextSession, Toggle, ShowSession, ShowHours, AskConfirmation,
         KeyNextSession, MoveToNextSession, Pressed
<1>2. CASE CancelNextSession
  <2>1. previous_tracking_type \in Kinds \cup {"none"}
    BY DEF MarksInv, TypeOK
  <2>2. data' = WithActive(data, Resumed(Active(data), previous_tracking_type))
    BY <1>2 DEF CancelNextSession
  <2> QED BY <1>0, <1>1, <2>1, <2>2, ResumedType, SameMarksResumed, KeptAtRest
<1>3. ASSUME NEW own \in Kinds, NEW other \in Kinds, Toggle(own, other)
      PROVE  Kept'
  <2> DEFINE x == [Active(data) EXCEPT ![own] = FALSE]
             y == [Active(data) EXCEPT ![own] = TRUE, ![other] = FALSE]
             z == [Active(data) EXCEPT ![own] = TRUE]
  <2>1. x \in Entry /\ SameMarks(x, Active(data))
    BY <1>0, SameMarksKind
  <2>2. y \in Entry /\ SameMarks(y, Active(data))
    <3>1. y = [z EXCEPT ![other] = FALSE]
      OBVIOUS
    <3>2. z \in Entry /\ SameMarks(z, Active(data))
      BY <1>0, SameMarksKind
    <3> HIDE DEF z, y
    <3>3. y \in Entry /\ SameMarks(y, z)
      BY <3>1, <3>2, SameMarksKind
    <3> QED BY <3>2, <3>3 DEF SameMarks
  <2>3. data' = WithActive(data, x) \/ data' = WithActive(data, y)
    BY <1>3 DEF Toggle
  <2> HIDE DEF x, y
  <2> QED BY <1>0, <1>1, <2>1, <2>2, <2>3, KeptAtRest
<1>4. CASE ShowSession \/ ShowHours
  BY <1>1, <1>4, KeptUnchanged DEF ShowSession, ShowHours
<1>5. CASE AskConfirmation
  <2>1. data' = WithActive(data, Stopped(Active(data)))
    BY <1>5 DEF AskConfirmation
  <2> QED BY <1>0, <1>1, <2>1, StoppedType, SameMarksStopped, KeptAtRest
<1>6. CASE KeyNextSession
  <2>1. /\ data'.tracking_entries = data.tracking_entries /\ data'.magic = data.magic
        /\ data'.medium_threshold = data.medium_threshold
        /\ data'.long_threshold = data.long_threshold
    BY <1>0, <1>6 DEF KeyNextSession, MoveToNextSession, TimeTrackerData
  <2> QED BY <1>1, <2>1, KeptUnchanged
<1>7. WORK_TRACKING \in Kinds /\ MEETING_TRACKING \in Kinds
  BY DEF Kinds
<1> QED BY <1>2, <1>3, <1>4, <1>5, <1>6, <1>7 DEF KeyPress

\* A statement that does not clear a mark leaves its clearing to come.
LEMMA ClearingRest ==
  ASSUME NEW mark, todo \in Seq(Statement), todo # << >>, todo' = Tail(todo),
         Head(todo).do # mark
  PROVE  Clearing(mark) => Clearing(mark)'
<1> SUFFICES ASSUME NEW i \in 1 .. Len(todo), todo[i].do = mark PROVE Clearing(mark)'
  BY DEF Clearing
<1>1. /\ Len(todo) \in Nat \ {0} /\ Head(todo) = todo[1] /\ Len(todo') = Len(todo) - 1
      /\ \A k \in 1 .. Len(todo) - 1 : todo'[k] = todo[k + 1]
  BY Rest
<1>2. i # 1
  BY <1>1
<1>3. i - 1 \in 1 .. Len(todo') /\ i - 1 \in 1 .. Len(todo) - 1 /\ (i - 1) + 1 = i
  BY <1>1, <1>2
<1>4. todo'[i - 1].do = mark
  BY <1>1, <1>3
<1> QED BY <1>3, <1>4 DEF Clearing

LEMMA MarksHandlerStep ==
  ASSUME DefaultsApart, MarksInv, HandlerStep
  PROVE  Kept'
<1> DEFINE o == Active(data)
<1>0. /\ data \in TimeTrackerData /\ o \in Entry /\ todo \in Seq(Statement)
      /\ data.magic => Marked(o)
  BY ActiveType, KnownActive DEF MarksInv, TypeOK, Kept
<1>1. /\ flash' = flash /\ feature' = feature /\ todo # << >> /\ todo' = Tail(todo)
  BY DEF HandlerStep, StopTracking, ResetSession, ClearMark, LedStatement, Idle
<1>2. CASE StopTracking
  <2>1. data' = WithActive(data, Stopped(o)) /\ Head(todo).do = "stop"
    BY <1>2 DEF StopTracking
  <2>2. /\ Stopped(o) \in Entry /\ (Marked(o) => Marked(Stopped(o)))
        /\ \A mark \in Marks : Early(Stopped(o), mark) => Early(o, mark)
    BY <1>0, StoppedType, SameMarksStopped, MarkedSame
  <2>3. \A mark \in Marks : Clearing(mark) => Clearing(mark)'
    BY <1>0, <1>1, <2>1, ClearingRest DEF Marks
  <2> HIDE DEF o
  <2> QED BY <1>0, <1>1, <2>1, <2>2, <2>3, KeptWithActive DEF o
<1>3. CASE ResetSession
  <2> DEFINE r == [o EXCEPT !.time = 0, !.tracking_work = FALSE, !.tracking_meetings = FALSE]
  <2>1. data' = WithActive(data, r) /\ Head(todo).do = "reset"
    BY <1>3 DEF ResetSession
  <2>2. r \in Entry /\ r.time = 0
    BY <1>0, ResetType
  <2>3. Marked(r)
    <3>1. ~(0 >= MediumDefault) /\ ~(0 >= LongDefault)
      BY TimeTrackerConstants DEF DefaultsApart
    <3> HIDE DEF r
    <3> QED BY <2>2, <3>1 DEF Marked, Default
  <2>4. \A mark \in Marks : Clearing(mark)'
    <3>1. ~Plain(todo)
      <4>1. 1 \in 1 .. Len(todo) /\ Head(todo) = todo[1]
        BY <1>0, <1>1, Rest
      <4> QED BY <2>1, <4>1 DEF Plain
    <3>2. PICK j \in 1 .. 5 : Doing(todo, j)
      BY <3>1 DEF MarksInv, Entered
    <3>3. j = 3
      <4>1. Enter[j].do = "reset"
        BY <1>0, <2>1, <3>2, DoingRest
      <4> QED BY <4>1, EnterDo
    <3>4. Doing(todo', 4)
      BY <1>0, <1>1, <3>2, <3>3, DoingRest
    <3>5. /\ Len(todo') >= 2 /\ todo'[1].do = Enter[4].do /\ todo'[2].do = Enter[5].do
      BY <3>4 DEF Doing
    <3>6. Len(todo') \in Nat
      BY <1>0, <1>1, Rest
    <3>7. 1 \in 1 .. Len(todo') /\ 2 \in 1 .. Len(todo')
      BY <3>5, <3>6
    <3> QED BY <3>5, <3>7, EnterDo DEF Clearing, Marks
  <2> HIDE DEF r
  <2> QED BY <1>1, <2>1, <2>2, <2>3, <2>4, KeptWithActive
<1>4. CASE ClearMark
  <2> DEFINE m == Head(todo).do
             c == [o EXCEPT ![m] = FALSE]
  <2>1. data' = WithActive(data, c) /\ m \in Marks
    BY <1>4 DEF ClearMark
  <2>2. /\ c \in Entry /\ c.time = o.time /\ ~c[m]
        /\ \A mark \in Marks : c[mark] => o[mark]
    BY <1>0, <2>1, ClearedType
  <2>3. c.time = 0
    <3>1. ~Plain(todo)
      <4>1. 1 \in 1 .. Len(todo) /\ Head(todo) = todo[1]
        BY <1>0, <1>1, Rest
      <4> QED BY <2>1, <4>1 DEF Plain, Marks
    <3>2. PICK j \in 1 .. 5 : Doing(todo, j) /\ (j >= 4 => Fresh(Active(data)))
      BY <3>1 DEF MarksInv, Entered
    <3>3. Enter[j].do \in Marks
      BY <1>0, <2>1, <3>2, DoingRest
    <3>4. j >= 4
      BY <3>3, EnterDo DEF Marks
    <3> QED BY <2>2, <3>2, <3>4 DEF Fresh
  <2> HIDE DEF c, m
  <2>4. Marked(c)
    <3>1. ~(0 >= MediumDefault) /\ ~(0 >= LongDefault)
      BY TimeTrackerConstants DEF DefaultsApart
    <3> QED BY <2>3, <3>1 DEF Marked, Default
  <2>5. \A mark \in Marks : Early(c, mark) => mark # m /\ Early(o, mark)
    BY <2>2 DEF Early
  <2>6. \A mark \in Marks : mark # m => (Clearing(mark) => Clearing(mark)')
    BY <1>0, <1>1, ClearingRest DEF m
  <2> HIDE DEF o
  <2> QED BY <1>1, <2>1, <2>2, <2>4, <2>5, <2>6, KeptWithActive DEF o
<1>5. CASE LedStatement
  <2>1. data' = data /\ Head(todo).do \in {"on", "off", "all_off", "restore"}
    BY <1>5 DEF LedStatement
  <2>2. \A mark \in Marks : Clearing(mark) => Clearing(mark)'
    BY <1>0, <1>1, <2>1, ClearingRest DEF Marks
  <2> QED BY <1>1, <2>1, <2>2 DEF MarksInv, Kept, Known, EarlyExplained, Early
<1> QED BY <1>2, <1>3, <1>4, <1>5 DEF HandlerStep

LEMMA MarksHost ==
  ASSUME DefaultsApart, "set_threshold" \notin HostCommands, MarksInv, Command \/ PowerLoss
  PROVE  Kept'
<1>0. /\ data \in TimeTrackerData /\ flash \in TimeTrackerData
      /\ Known(data) /\ Known(flash)
  BY DEF MarksInv, TypeOK, Kept
<1>1. CASE NewSession
  <2>1. /\ data'.tracking_entries = data.tracking_entries /\ data'.magic = data.magic
        /\ data'.medium_threshold = data.medium_threshold
        /\ data'.long_threshold = data.long_threshold /\ flash' = flash /\ feature' = feature
        /\ Idle
    BY <1>0, <1>1 DEF NewSession, MoveToNextSession, TimeTrackerData, Host
  <2> QED BY <2>1, KeptUnchanged
<1>2. ~SetThreshold
  BY DEF SetThreshold, Host
<1>3. ASSUME TrackerInit PROVE Kept'
  <2> DEFINE d == IF flash.magic THEN flash ELSE FactoryData
             x == Stopped(Active(d))
  <2>1. d \in TimeTrackerData /\ Known(d)
    BY <1>0, FactoryDataType, KnownFactory
  <2>2. flash' = d /\ data' = WithActive(d, x)
    BY <1>3 DEF TrackerInit
  <2> HIDE DEF d
  <2>3. Active(d) \in Entry /\ x \in Entry /\ SameMarks(x, Active(d))
    BY <2>1, ActiveType, StoppedType, SameMarksStopped
  <2> HIDE DEF x
  <2>4. (d.magic => Marked(x)) /\ \A mark \in Marks : Early(x, mark) => Early(Active(d), mark)
    BY <2>1, <2>3, KnownActive, MarkedSame
  <2>5. Known(data')
    BY <2>1, <2>2, <2>3, <2>4, KnownWithActive
  <2>6. /\ data'.tracking_entries = [d.tracking_entries EXCEPT ![d.active_session] = x]
        /\ d.tracking_entries \in [Sessions -> Entry] /\ d.active_session \in Sessions
        /\ Active(d) = d.tracking_entries[d.active_session]
    BY <2>1, <2>2, <2>3, WithActiveType DEF TimeTrackerData, Active
  <2>7. ASSUME NEW s \in Sessions, NEW mark \in Marks, Early(data'.tracking_entries[s], mark)
        PROVE  Early(flash'.tracking_entries[s], mark)
    <3>1. CASE s = d.active_session
      BY <2>2, <2>4, <2>6, <2>7, <3>1
    <3>2. CASE s # d.active_session
      BY <2>2, <2>6, <2>7, <3>2
    <3> QED BY <3>1, <3>2
  <2> QED BY <2>1, <2>2, <2>5, <2>7 DEF Kept, Known, EarlyExplained, Early
<1>4. ASSUME NEW f \in SwitchTargets, SwitchFeature(f) PROVE Kept'
  <2>1. CASE f = "time_tracker"
    BY <1>3, <1>4, <2>1 DEF SwitchFeature
  <2>2. CASE f # "time_tracker"
    <3>1. data' = data /\ flash' = flash /\ feature' # "time_tracker"
      BY <1>4, <2>2 DEF SwitchFeature
    <3> QED BY <1>0, <3>1 DEF Kept, EarlyExplained, Known
  <2> QED BY <2>1, <2>2
<1>5. CASE FactoryInit
  BY <1>5, KnownFactory, KeptSaved DEF FactoryInit
<1>6. CASE Erase
  <2>1. data' = data /\ flash'.magic = FALSE
    BY <1>0, <1>6 DEF Erase, TimeTrackerData
  <2> QED BY <1>0, <2>1 DEF Kept, Known, EarlyExplained
<1>7. CASE ChangeColor
  BY <1>7, KeptUnchanged DEF ChangeColor
<1>8. CASE PowerLoss
  <2>1. CASE stored_feature = "time_tracker"
    BY <1>3, <1>8, <2>1 DEF PowerLoss
  <2>2. CASE stored_feature # "time_tracker"
    <3>1. Known(data') /\ flash' = flash /\ feature' # "time_tracker"
      BY <1>0, <1>8, <2>2, KnownGarbage DEF PowerLoss
    <3> QED BY <1>0, <3>1 DEF Kept, EarlyExplained, Known
  <2> QED BY <2>1, <2>2
<1> QED BY <1>1, <1>2, <1>4, <1>5, <1>6, <1>7, <1>8 DEF Command

\* While the host leaves the thresholds at their defaults, no session has reached
\* one unmarked, in RAM or in flash: no tick misses one, and neither a key, a switch
\* of feature nor a power loss unmarks it.  A mark of a session that has not reached
\* its threshold is to be cleared by the handler that enters the session, or came
\* from flash, where a tick saved it before the handler cleared it.
THEOREM SpecThresholdsMarked ==
  ASSUME DefaultsApart, "set_threshold" \notin HostCommands
  PROVE  Spec => []ThresholdsMarked
<1>1. Init => MarksInv
  <2>1. Init => Known(data) /\ Known(flash)
    BY KnownFactory, KnownGarbage DEF Init
  <2>2. Init => EarlyExplained
    BY DEF Init, EarlyExplained, Early
  <2>3. Init => Entered
    BY DEF Init, Entered, Plain
  <2> QED BY <2>1, <2>2, <2>3, InitTypeOK DEF MarksInv, Kept
<1>2. MarksInv /\ [Next]_vars => MarksInv'
  <2> SUFFICES ASSUME MarksInv, [Next]_vars PROVE MarksInv'
    OBVIOUS
  <2>1. TypeOK' /\ Entered'
    BY TypeOKStep, EnteredStep DEF MarksInv
  <2>2. Kept'
    <3>1. CASE UNCHANGED vars
      BY <3>1 DEF vars, MarksInv, Kept, Known, EarlyExplained, Early, Clearing
    <3>2. CASE Next
      BY <3>2, MarksTick, MarksKeyPress, MarksHandlerStep, MarksHost DEF Next
    <3> QED BY <3>1, <3>2
  <2> QED BY <2>1, <2>2 DEF MarksInv
<1>3. MarksInv => ThresholdsMarked
  <2> SUFFICES ASSUME MarksInv PROVE ThresholdsMarked
    OBVIOUS
  <2>1. ASSUME NEW d, Known(d), d.magic, NEW s \in Sessions, NEW mark \in Marks
        PROVE  /\ Reached(d, s, mark) <=> d.tracking_entries[s].time >= Default(mark)
               /\ Spurious(d, s, mark) <=> Early(d.tracking_entries[s], mark)
               /\ Reached(d, s, mark) => d.tracking_entries[s][mark]
    <3>1. d[ThresholdOf(mark)] = Default(mark)
      BY <2>1 DEF Known, ThresholdOf, Default, Marks
    <3>2. Marked(d.tracking_entries[s])
      BY <2>1 DEF Known
    <3> QED BY <3>1, <3>2 DEF Reached, Spurious, Early, Marked
  <2>2. Known(data) /\ Known(flash) /\ EarlyExplained
    BY DEF MarksInv, Kept
  <2>3. MarksReached(data) /\ MarksReached(flash)
    BY <2>1, <2>2 DEF MarksReached
  <2> QED BY <2>1, <2>2, <2>3 DEF ThresholdsMarked, EarlyExplained
<1> QED BY <1>1, <1>2, <1>3, PTL DEF Spec

-----------------------------------------------------------------------------
(* What the LEDs show.  A handler that blinks puts them aside and sleeps       *)
(* between its statements, so what they show at rest depends on the statements *)
(* left: at every step the display is in one of five states.                   *)

\* The LEDs l show the tracking of e; a loose display may light more than that.
Shown(l, e, loose) ==
  \A kind \in Kinds : IF e[kind] THEN l[KeyOf(kind)] \in ShownColors(kind)
                                 ELSE loose \/ l[KeyOf(kind)] = "off"
Dark(l) == \A kind \in Kinds : l[KeyOf(kind)] = "off"

\* The hours are blinked, or the number of the session is shown, to the end of the
\* statements t.
Blinking(t) ==
  \A i \in 1 .. Len(t) : t[i].do \in {"on", "off"} /\ t[i].key = FUNCTION_KEY_ID
Showing(t) ==
  /\ t # << >> /\ t[Len(t)].do = "restore"
  /\ \A i \in 1 .. Len(t) - 1 : t[i].do \in {"on", "off"}

Steady == Blinking(todo) /\ ~awaiting_confirmation /\ Shown(leds, Active(data), overtaken)
Asking ==
  /\ Idle /\ awaiting_confirmation /\ Quiet(Active(data))
  /\ \/ overtaken
     \/ /\ saved_buttons_state # << >>
        /\ Shown(saved_buttons_state[1], Resumed(Active(data), previous_tracking_type), FALSE)
Numbering ==
  /\ Showing(todo) /\ ~awaiting_confirmation /\ saved_buttons_state # << >>
  /\ Shown(saved_buttons_state[1], Active(data), overtaken)
Leaving ==
  /\ awaiting_confirmation => overtaken
  /\ \E j \in 1 .. 5 : /\ Doing(todo, j)
                       /\ j >= 2 => Quiet(Active(data))
                       /\ j >= 3 => Dark(leds)
Arriving ==
  /\ awaiting_confirmation => overtaken
  /\ Animating(todo) /\ Quiet(Active(data))

Display == Steady \/ Asking \/ Numbering \/ Leaving \/ Arriving

LedInv == feature = "time_tracker" => data.magic /\ Display

LEMMA ShownKeys ==
  ASSUME NEW l, NEW e, NEW loose
  PROVE  Shown(l, e, loose) <=>
           /\ IF e.tracking_work THEN l[WORK_TRACKING_KEY_ID] \in {"purple"} \cup HostColors
                                 ELSE loose \/ l[WORK_TRACKING_KEY_ID] = "off"
           /\ IF e.tracking_meetings THEN l[MEETING_TRACKING_KEY_ID] \in {"cyan"} \cup HostColors
                                     ELSE loose \/ l[MEETING_TRACKING_KEY_ID] = "off"
BY DEF Shown, ShownColors, Kinds, KeyOf, ColorOf, WORK_TRACKING, MEETING_TRACKING

\* The colours tell what is tracked and nothing else of an entry; the function key
\* is free for the thresholds and the hours.
LEMMA ShownSame ==
  ASSUME NEW l, NEW e, NEW f, NEW loose, Shown(l, e, loose),
         f.tracking_work = e.tracking_work, f.tracking_meetings = e.tracking_meetings
  PROVE  Shown(l, f, loose)
BY ShownKeys

LEMMA ShownLoose ==
  ASSUME NEW l, NEW e, NEW loose
  PROVE  /\ Shown(l, e, FALSE) => Shown(l, e, loose)
         /\ ~loose /\ Shown(l, e, loose) => Shown(l, e, FALSE)
BY DEF Shown

LEMMA FunctionKeyFree ==
  ASSUME NEW l \in KeyLeds, NEW c
  PROVE  LET m == [l EXCEPT ![FUNCTION_KEY_ID] = c] IN
         \A kind \in Kinds : m[KeyOf(kind)] = l[KeyOf(kind)]
BY KeysFacts
DEF KeyLeds, Kinds, KeyOf, WORK_TRACKING_KEY_ID, MEETING_TRACKING_KEY_ID, FUNCTION_KEY_ID

LEMMA ShownFunctionKey ==
  ASSUME NEW l \in KeyLeds, NEW c
  PROVE  /\ \A e, loose : Shown(l, e, loose) => Shown([l EXCEPT ![FUNCTION_KEY_ID] = c], e, loose)
         /\ Dark(l) => Dark([l EXCEPT ![FUNCTION_KEY_ID] = c])
<1> DEFINE m == [l EXCEPT ![FUNCTION_KEY_ID] = c]
<1>1. \A kind \in Kinds : m[KeyOf(kind)] = l[KeyOf(kind)]
  BY FunctionKeyFree
<1> HIDE DEF m
<1>2. \A e, loose : Shown(l, e, loose) => Shown(m, e, loose)
  BY <1>1 DEF Shown
<1>3. Dark(l) => Dark(m)
  BY <1>1 DEF Dark
<1> QED BY <1>2, <1>3 DEF m

LEMMA ShownDark ==
  ASSUME NEW l, NEW e, NEW loose, Dark(l), Quiet(e)
  PROVE  Shown(l, e, loose)
<1>1. \A kind \in Kinds : ~e[kind]
  BY DEF Quiet, Kinds, WORK_TRACKING, MEETING_TRACKING
<1> QED BY <1>1 DEF Shown, Dark

LEMMA DarkOff == Dark(AllOff) /\ \A g : Dark(ThresholdLeds(AllOff, g))
<1>1. Dark(AllOff)
  BY KeysFacts DEF Dark, AllOff
<1>2. AllOff \in KeyLeds
  BY LedsType
<1> QED BY <1>1, <1>2, ShownFunctionKey DEF ThresholdLeds

\* Putting the tracking back lights it, and changes no other key.
LEMMA ResumedLit ==
  ASSUME NEW l \in KeyLeds, NEW e \in Entry, NEW kind \in Kinds
  PROVE  /\ Resumed(e, kind)[kind]
         /\ ResumedLeds(l, kind)[KeyOf(kind)] = ColorOf(kind)
         /\ \A k \in Kinds : k # kind => /\ Resumed(e, kind)[k] = e[k]
                                         /\ ResumedLeds(l, kind)[KeyOf(k)] = l[KeyOf(k)]
<1>1. ResumedLeds(l, kind) = [l EXCEPT ![KeyOf(kind)] = ColorOf(kind)]
  BY DEF ResumedLeds
<1>2. KeyOf(kind) \in Keys /\ \A k \in Kinds : k # kind => KeyOf(k) # KeyOf(kind)
  BY KeysFacts
  DEF Kinds, KeyOf, WORK_TRACKING, MEETING_TRACKING, WORK_TRACKING_KEY_ID,
      MEETING_TRACKING_KEY_ID
<1>3. \A k \in Kinds : KeyOf(k) \in Keys
  BY KeysFacts
<1>4. Resumed(e, kind)[kind] /\ \A k \in Kinds : k # kind => Resumed(e, kind)[k] = e[k]
  BY DEF Resumed, Kinds, WORK_TRACKING, MEETING_TRACKING, Entry
<1>5. /\ ResumedLeds(l, kind)[KeyOf(kind)] = ColorOf(kind)
      /\ \A k \in Kinds : k # kind => ResumedLeds(l, kind)[KeyOf(k)] = l[KeyOf(k)]
  BY <1>1, <1>2, <1>3 DEF KeyLeds
<1> QED BY <1>4, <1>5

LEMMA ShownResumed ==
  ASSUME NEW l \in KeyLeds, NEW e \in Entry, NEW kind \in Kinds \cup {"none"}, Quiet(e),
         NEW loose, loose \/ Shown(l, Resumed(e, kind), FALSE)
  PROVE  Shown(ResumedLeds(l, kind), Resumed(e, kind), loose)
<1>q. \A k \in Kinds : ~e[k]
  BY DEF Quiet, Kinds, WORK_TRACKING, MEETING_TRACKING
<1>1. CASE kind = "none"
  <2>1. ResumedLeds(l, kind) = l /\ Resumed(e, kind) = e
    BY <1>1 DEF ResumedLeds, Resumed, Kinds, WORK_TRACKING, MEETING_TRACKING
  <2> QED BY <1>q, <2>1 DEF Shown
<1>2. CASE kind \in Kinds
  <2> DEFINE m == ResumedLeds(l, kind)
             r == Resumed(e, kind)
  <2>1. /\ r[kind] /\ m[KeyOf(kind)] = ColorOf(kind)
        /\ \A k \in Kinds : k # kind => r[k] = e[k] /\ m[KeyOf(k)] = l[KeyOf(k)]
    BY <1>2, ResumedLit
  <2> HIDE DEF m, r
  <2>2. ASSUME NEW k \in Kinds
        PROVE  IF r[k] THEN m[KeyOf(k)] \in ShownColors(k) ELSE loose \/ m[KeyOf(k)] = "off"
    <3>1. CASE k = kind
      BY <2>1, <3>1 DEF ShownColors
    <3>2. CASE k # kind
      BY <1>q, <2>1, <2>2, <3>2 DEF Shown, r
    <3> QED BY <3>1, <3>2
  <2>3. Shown(m, r, loose)
    BY <2>2 DEF Shown
  <2> QED BY <2>3 DEF m, r
<1> QED BY <1>1, <1>2

\* Resuming what stopped gives back what was tracked.
LEMMA ResumedStopped ==
  ASSUME NEW e \in Entry, ~Both(e)
  PROVE  LET r == Resumed(Stopped(e), Tracking(e)) IN
         r.tracking_work = e.tracking_work /\ r.tracking_meetings = e.tracking_meetings
<1>1. CASE e.tracking_work
  BY <1>1 DEF Stopped, Tracking, Resumed, Both, Entry, Kinds, WORK_TRACKING, MEETING_TRACKING
<1>2. CASE ~e.tracking_work /\ e.tracking_meetings
  BY <1>2 DEF Stopped, Tracking, Resumed, Both, Entry, Kinds, WORK_TRACKING, MEETING_TRACKING
<1>3. CASE ~e.tracking_work /\ ~e.tracking_meetings
  BY <1>3 DEF Stopped, Tracking, Resumed, Both, Entry, Kinds, WORK_TRACKING, MEETING_TRACKING
<1> QED BY <1>1, <1>2, <1>3

LEMMA ShownResumedSame ==
  ASSUME NEW l, NEW e \in Entry, NEW f \in Entry, NEW kind \in Kinds \cup {"none"}, NEW loose,
         f.tracking_work = e.tracking_work, f.tracking_meetings = e.tracking_meetings,
         Shown(l, Resumed(e, kind), loose)
  PROVE  Shown(l, Resumed(f, kind), loose)
<1>1. /\ Resumed(f, kind).tracking_work = Resumed(e, kind).tracking_work
      /\ Resumed(f, kind).tracking_meetings = Resumed(e, kind).tracking_meetings
  <2>1. CASE kind = "none"
    BY <2>1 DEF Resumed, Kinds, WORK_TRACKING, MEETING_TRACKING
  <2>2. CASE kind = WORK_TRACKING
    BY <2>2 DEF Resumed, Kinds, Entry, WORK_TRACKING, MEETING_TRACKING
  <2>3. CASE kind = MEETING_TRACKING
    BY <2>3 DEF Resumed, Kinds, Entry, WORK_TRACKING, MEETING_TRACKING
  <2> QED BY <2>1, <2>2, <2>3 DEF Kinds
<1> QED BY <1>1, ShownSame

-----------------------------------------------------------------------------
(* The LED statements left, one by one. *)

LEMMA BlinkingRest ==
  ASSUME NEW t \in Seq(Statement), t # << >>, Blinking(t)
  PROVE  /\ Head(t).do \in {"on", "off"} /\ Head(t).key = FUNCTION_KEY_ID
         /\ Blinking(Tail(t))
BY Rest DEF Blinking

LEMMA ShowingRest ==
  ASSUME NEW t \in Seq(Statement), Showing(t)
  PROVE  /\ t # << >>
         /\ \/ Head(t).do = "restore" /\ Tail(t) = << >>
            \/ Head(t).do \in {"on", "off"} /\ Showing(Tail(t))
<1>1. t # << >>
  BY DEF Showing
<1>2. CASE Len(t) = 1
  BY <1>1, <1>2, Rest DEF Showing
<1>3. CASE Len(t) # 1
  <2>1. Tail(t)[Len(t) - 1] = t[Len(t)] /\ Tail(t) # << >>
    BY <1>1, <1>3, Rest
  <2>2. \A i \in 1 .. Len(t) - 2 : Tail(t)[i].do \in {"on", "off"}
    BY <1>1, <1>3, Rest DEF Showing
  <2> QED BY <1>1, <1>3, <2>1, <2>2, Rest DEF Showing
<1> QED BY <1>2, <1>3

LEMMA AnimatingRest ==
  ASSUME NEW t \in Seq(Statement), Animating(t)
  PROVE  /\ t # << >>
         /\ \/ Head(t).do = "all_off" /\ Tail(t) = << >>
            \/ Head(t).do = "on" /\ Animating(Tail(t))
<1>1. t # << >>
  BY DEF Animating
<1>2. CASE Len(t) = 1
  BY <1>1, <1>2, Rest DEF Animating
<1>3. CASE Len(t) # 1
  <2>1. Tail(t)[Len(t) - 1] = t[Len(t)] /\ Tail(t) # << >>
    BY <1>1, <1>3, Rest
  <2>2. \A i \in 1 .. Len(t) - 2 : Tail(t)[i].do = "on"
    BY <1>1, <1>3, Rest DEF Animating
  <2> QED BY <1>1, <1>3, <2>1, <2>2, Rest DEF Animating
<1> QED BY <1>2, <1>3

LEMMA BlinkingHours ==
  ASSUME NEW n \in Nat
  PROVE  Blinking(Blink(FUNCTION_KEY_ID, n)) /\ Blinking(<< >>)
<1>1. Blinking(Blink(FUNCTION_KEY_ID, n))
  <2>1. Len(Blink(FUNCTION_KEY_ID, n)) = 2 * n
    BY BlinkStatements, KeysFacts
  <2>2. \A i \in 1 .. 2 * n : /\ Blink(FUNCTION_KEY_ID, n)[i].do \in {"on", "off"}
                              /\ Blink(FUNCTION_KEY_ID, n)[i].key = FUNCTION_KEY_ID
    BY BlinkStatements, KeysFacts
  <2> QED BY <2>1, <2>2 DEF Blinking
<1>2. Blinking(<< >>)
  BY DEF Blinking
<1> QED BY <1>1, <1>2

LEMMA ShowingNumber ==
  ASSUME NEW m \in Nat, NEW n \in Nat
  PROVE  Showing(Blink(WORK_TRACKING_KEY_ID, m) \o Blink(MEETING_TRACKING_KEY_ID, n)
                   \o <<Do("restore", 0)>>)
<1> DEFINE a == Blink(WORK_TRACKING_KEY_ID, m)
           b == Blink(MEETING_TRACKING_KEY_ID, n)
           r == <<Do("restore", 0)>>
<1>1. a \in Seq(Statement) /\ b \in Seq(Statement) /\ r \in Seq(Statement)
  BY BlinkType, HandlerType, KeysFacts
<1>2. /\ \A i \in 1 .. Len(a) : a[i].do \in {"on", "off"}
      /\ \A i \in 1 .. Len(b) : b[i].do \in {"on", "off"}
  BY BlinkStatements, KeysFacts
<1>3. Len(r) = 1 /\ r[1].do = "restore"
  BY DEF Do
<1> HIDE DEF a, b, r
<1>4. /\ (a \o b) \in Seq(Statement) /\ Len(a \o b) = Len(a) + Len(b)
      /\ \A i \in 1 .. Len(a \o b) : (a \o b)[i].do \in {"on", "off"}
  <2>1. /\ (a \o b) \in Seq(Statement) /\ Len(a \o b) = Len(a) + Len(b)
        /\ \A i \in 1 .. Len(a) + Len(b) :
             (a \o b)[i] = IF i <= Len(a) THEN a[i] ELSE b[i - Len(a)]
    BY <1>1, ConcatProperties
  <2>2. ASSUME NEW i \in 1 .. Len(a) + Len(b) PROVE (a \o b)[i].do \in {"on", "off"}
    <3>1. CASE i <= Len(a)
      BY <1>1, <1>2, <2>1, <3>1, LenProperties
    <3>2. CASE ~(i <= Len(a))
      <4>1. i - Len(a) \in 1 .. Len(b)
        BY <1>1, <3>2, LenProperties
      <4> QED BY <1>2, <2>1, <3>2, <4>1
    <3> QED BY <3>1, <3>2
  <2> QED BY <2>1, <2>2
<1> DEFINE t == a \o b \o r
<1>5. /\ t \in Seq(Statement) /\ Len(t) = Len(a \o b) + 1 /\ Len(a \o b) \in Nat
      /\ t[Len(t)] = r[1]
      /\ \A i \in 1 .. Len(t) - 1 : t[i] = (a \o b)[i]
  <2> DEFINE c == a \o b
  <2>1. c \in Seq(Statement) /\ t = c \o r
    BY <1>4
  <2> HIDE DEF c, t
  <2>2. /\ t \in Seq(Statement) /\ Len(t) = Len(c) + 1 /\ Len(c) \in Nat
        /\ \A i \in 1 .. Len(c) + 1 : t[i] = IF i <= Len(c) THEN c[i] ELSE r[i - Len(c)]
    <3>1. r \in Seq(Statement) /\ Len(r) = 1
      BY <1>1, <1>3
    <3> QED BY <2>1, <3>1, ConcatProperties, LenProperties
  <2>3. t[Len(c) + 1] = r[1] /\ \A i \in 1 .. Len(c) : t[i] = c[i]
    BY <2>2
  <2> QED BY <2>2, <2>3 DEF c
<1> HIDE DEF t
<1>6. Showing(t)
  <2>1. t # << >>
    BY <1>5
  <2> QED BY <1>3, <1>4, <1>5, <2>1 DEF Showing
<1> QED BY <1>6 DEF t, a, b, r

-----------------------------------------------------------------------------
(* Every step keeps the display in one of its five states. *)

ShownInv == ExclusiveInv /\ LedInv

LEMMA LedTypes ==
  ShownInv => /\ data \in TimeTrackerData /\ Active(data) \in Entry /\ leds \in KeyLeds
              /\ data.active_session \in Sessions /\ todo \in Seq(Statement)
              /\ previous_tracking_type \in Kinds \cup {"none"}
              /\ saved_buttons_state \in Saved /\ overtaken \in BOOLEAN
BY ActiveType, SavedType DEF ShownInv, ExclusiveInv, TypeOK, KeyLeds

LEMMA BlinkingNothing == Blinking(<< >>)
BY DEF Blinking

\* Nothing is left to do, and nothing is tracked that an answer would not restore.
LEMMA RestDisplay ==
  ASSUME todo' = << >>, Quiet(Active(data)'), Dark(leds'),
         awaiting_confirmation' => overtaken'
  PROVE  Display'
<1>1. CASE awaiting_confirmation'
  BY <1>1 DEF Display, Asking, Idle, Quiet
<1>2. CASE ~awaiting_confirmation'
  <2>1. Shown(leds', Active(data)', overtaken')
    BY ShownDark
  <2>2. Blinking(todo')
    BY BlinkingNothing
  <2> QED BY <1>2, <2>1, <2>2 DEF Display, Steady, Shown, Blinking
<1> QED BY <1>1, <1>2

\* The timer changes what the LEDs show on the function key alone.
LEMMA LedsTick ==
  ASSUME ShownInv, Tick
  PROVE  LedInv'
<1> DEFINE e == Ticked(Active(data))
           f == [e EXCEPT !.medium_threshold_reached = @ \/ MediumDue(e),
                          !.long_threshold_reached = @ \/ LongDue(e)]
<1>1. /\ Active(data) \in Entry /\ e \in Entry /\ data \in TimeTrackerData
      /\ leds \in KeyLeds /\ previous_tracking_type \in Kinds \cup {"none"}
  BY TickedType, LedTypes
<1>2. /\ f \in Entry /\ f.tracking_work = e.tracking_work
      /\ f.tracking_meetings = e.tracking_meetings
  BY <1>1 DEF Entry, MediumDue, LongDue
<1>3. /\ f.tracking_work = Active(data).tracking_work
      /\ f.tracking_meetings = Active(data).tracking_meetings
  BY <1>1, <1>2, TickedType
<1>4. data' = WithActive(data, f)
  BY DEF Tick
<1>5. leds' = leds \/ \E c \in Led : leds' = [leds EXCEPT ![FUNCTION_KEY_ID] = c]
  BY KeysFacts DEF Tick
<1> HIDE DEF e, f
<1>6. Active(data') = f /\ data'.magic = data.magic
  BY <1>1, <1>2, <1>4, WithActiveType
<1>7. Active(data)' = f /\ data.magic' = data.magic
  BY <1>6 DEF Active
<1>8. /\ Shown(leds, Active(data), overtaken) => Shown(leds', f, overtaken)
      /\ Dark(leds) => Dark(leds')
  BY <1>1, <1>3, <1>5, ShownSame, ShownFunctionKey
<1>9. /\ todo' = todo /\ awaiting_confirmation' = awaiting_confirmation /\ feature' = feature
      /\ saved_buttons_state' = saved_buttons_state /\ overtaken' = overtaken
      /\ previous_tracking_type' = previous_tracking_type
  BY DEF Tick
<1> SUFFICES ASSUME feature = "time_tracker" PROVE data.magic' /\ Display'
  BY <1>9 DEF LedInv
<1>10. data.magic /\ Display
  BY DEF ShownInv, LedInv
<1>q. Quiet(Active(data)) => Quiet(Active(data)')
  BY <1>3, <1>7 DEF Quiet
<1>11. CASE Steady
  <2>1. Shown(leds', Active(data)', overtaken')
    BY <1>7, <1>8, <1>9, <1>11 DEF Steady
  <2> QED BY <1>7, <1>9, <1>10, <1>11, <2>1 DEF Steady, Display, Shown, Blinking
<1>12. CASE Asking
  <2>1. Shown(saved_buttons_state[1], Resumed(Active(data), previous_tracking_type), FALSE)
          => Shown(saved_buttons_state[1], Resumed(f, previous_tracking_type), FALSE)
    BY <1>1, <1>2, <1>3, ShownResumedSame
  <2>2. Asking'
    BY <1>7, <1>9, <1>12, <1>q, <2>1 DEF Asking, Idle, Quiet, Shown, Resumed
  <2> QED BY <1>7, <1>10, <2>2 DEF Display
<1>13. CASE Numbering
  <2>1. Shown(saved_buttons_state[1], f, overtaken)
    BY <1>3, <1>13, ShownSame DEF Numbering
  <2>2. Numbering'
    BY <1>7, <1>9, <1>13, <2>1 DEF Numbering, Showing, Shown
  <2> QED BY <1>7, <1>10, <2>2 DEF Display
<1>14. CASE Leaving
  <2>1. Leaving'
    BY <1>8, <1>9, <1>14, <1>q DEF Leaving, Doing, Dark, Quiet
  <2> QED BY <1>7, <1>10, <2>1 DEF Display
<1>15. CASE Arriving
  <2>1. Arriving'
    BY <1>9, <1>15, <1>q DEF Arriving, Animating, Quiet
  <2> QED BY <1>7, <1>10, <2>1 DEF Display
<1> QED BY <1>10, <1>11, <1>12, <1>13, <1>14, <1>15 DEF Display

\* At rest either the LEDs show the tracking, or a confirmation is awaited.
LEMMA AtRest ==
  ASSUME ShownInv, Idle, feature = "time_tracker"
  PROVE  /\ data.magic
         /\ awaiting_confirmation => Asking
         /\ ~awaiting_confirmation => Shown(leds, Active(data), overtaken)
<1>1. \A j \in 1 .. 5 : ~Doing(todo, j)
  <2>1. Len(todo) = 0
    BY DEF Idle
  <2> QED BY <2>1 DEF Doing
<1> QED BY <1>1 DEF ShownInv, LedInv, Idle, Display, Steady, Asking, Numbering, Leaving,
                    Arriving, Showing, Animating

LEMMA LedsKeyPress ==
  ASSUME ShownInv, KeyPress
  PROVE  LedInv'
<1> DEFINE e == Active(data)
<1>0. /\ e \in Entry /\ data \in TimeTrackerData /\ leds \in KeyLeds
      /\ data.active_session \in Sessions
      /\ previous_tracking_type \in Kinds \cup {"none"} /\ saved_buttons_state \in Saved
  BY LedTypes
<1>a. Pressed
  BY DEF KeyPress, CancelNextSession, Toggle, ShowSession, ShowHours, AskConfirmation,
         KeyNextSession
<1>b. /\ data.magic /\ todo = << >>
      /\ awaiting_confirmation => Asking
      /\ ~awaiting_confirmation => Shown(leds, e, overtaken)
  BY <1>a, AtRest DEF Pressed, Idle
<1>c. ~Both(e)
  BY <1>0, <1>b, ExclusiveActive DEF ShownInv, ExclusiveInv, ExclusiveTracking
<1>e. ASSUME NEW x \in Entry, data' = WithActive(data, x)
      PROVE  Active(data)' = x /\ data.magic'
  BY <1>0, <1>b, <1>e, WithActiveType DEF Active
<1>1. CASE CancelNextSession
  <2> DEFINE r == Resumed(e, previous_tracking_type)
             l == RestoredLeds(saved_buttons_state)
  <2>1. r \in Entry /\ l \in KeyLeds
    BY <1>0, ResumedType, LedsType
  <2>2. Asking
    BY <1>1, <1>b DEF CancelNextSession
  <2>3. overtaken \/ Shown(l, r, FALSE)
    BY <2>2 DEF Asking, RestoredLeds
  <2>4. /\ data' = WithActive(data, r) /\ awaiting_confirmation' = FALSE /\ todo' = todo
        /\ leds' = ResumedLeds(l, previous_tracking_type) /\ overtaken' = overtaken
    BY <1>1 DEF CancelNextSession
  <2>5. Shown(leds', r, overtaken)
    BY <1>0, <2>1, <2>2, <2>3, <2>4, ShownResumed DEF Asking
  <2> HIDE DEF r, l
  <2>6. Active(data)' = r /\ data.magic'
    BY <1>e, <2>1, <2>4
  <2>7. Steady'
    BY <1>b, <2>4, <2>5, <2>6, BlinkingNothing DEF Steady, Shown, Blinking
  <2> QED BY <2>6, <2>7 DEF LedInv, Display
<1>2. ASSUME NEW own \in Kinds, NEW other \in Kinds, own # other, Toggle(own, other)
      PROVE  LedInv'
  <2> DEFINE x == [e EXCEPT ![own] = FALSE]
             y == [e EXCEPT ![own] = TRUE, ![other] = FALSE]
             m == [leds EXCEPT ![KeyOf(own)] = "off"]
             n == [leds EXCEPT ![KeyOf(own)] = ColorOf(own),
                               ![KeyOf(other)] = IF e[other] THEN "off" ELSE @]
  <2>1. x \in Entry /\ y \in Entry
    BY <1>0 DEF Kinds, WORK_TRACKING, MEETING_TRACKING, Entry
  <2>2. Shown(leds, e, overtaken) /\ ~awaiting_confirmation
    BY <1>2, <1>b DEF Toggle
  <2>3. /\ x[own] = FALSE /\ x[other] = e[other] /\ y[own] = TRUE /\ y[other] = FALSE
    BY <1>0, <1>2 DEF Kinds, WORK_TRACKING, MEETING_TRACKING, Entry
  <2>4. KeyOf(own) # KeyOf(other) /\ KeyOf(own) \in Keys /\ KeyOf(other) \in Keys
    BY <1>2, KeysFacts
    DEF Kinds, KeyOf, WORK_TRACKING, MEETING_TRACKING, WORK_TRACKING_KEY_ID,
        MEETING_TRACKING_KEY_ID
  <2>5. /\ m[KeyOf(own)] = "off" /\ m[KeyOf(other)] = leds[KeyOf(other)]
        /\ n[KeyOf(own)] = ColorOf(own)
        /\ n[KeyOf(other)] = IF e[other] THEN "off" ELSE leds[KeyOf(other)]
    BY <1>0, <2>4 DEF KeyLeds
  <2>6. IF e[other] THEN leds[KeyOf(other)] \in ShownColors(other)
                    ELSE overtaken \/ leds[KeyOf(other)] = "off"
    BY <2>2 DEF Shown
  <2>7. /\ \A kind \in Kinds : kind = own \/ kind = other
        /\ ColorOf(own) \in ShownColors(own)
    BY <1>2 DEF Kinds, ShownColors
  <2>8. \/ data' = WithActive(data, x) /\ leds' = m
        \/ data' = WithActive(data, y) /\ leds' = n
    BY <1>2 DEF Toggle
  <2>9. todo' = todo /\ awaiting_confirmation' = awaiting_confirmation /\ overtaken' = overtaken
    BY <1>2 DEF Toggle
  <2> HIDE DEF x, y, m, n, e
  <2>10. Shown(m, x, overtaken)
    BY <2>3, <2>5, <2>6, <2>7 DEF Shown
  <2>11. Shown(n, y, overtaken)
    BY <2>3, <2>5, <2>6, <2>7 DEF Shown
  <2>12. Shown(leds, Active(data), overtaken)' /\ data.magic'
    BY <1>e, <2>1, <2>8, <2>9, <2>10, <2>11 DEF Shown
  <2> QED BY <1>b, <2>2, <2>9, <2>12, BlinkingNothing DEF LedInv, Display, Steady
<1>3. CASE ShowSession
  <2>1. data.active_session \div 10 \in Nat /\ data.active_session % 10 \in Nat
    BY <1>0, TimeTrackerConstants DEF Sessions
  <2>2. Showing(todo')
    BY <1>3, <2>1, ShowingNumber DEF ShowSession
  <2>3. /\ data' = data /\ awaiting_confirmation' = awaiting_confirmation
        /\ ~awaiting_confirmation /\ saved_buttons_state' = <<leds>> /\ overtaken' = overtaken
    BY <1>3 DEF ShowSession
  <2>4. saved_buttons_state' # << >> /\ saved_buttons_state'[1] = leds
    BY <2>3
  <2>5. Numbering'
    BY <1>b, <2>2, <2>3, <2>4 DEF Numbering, Shown, Active
  <2> QED BY <1>b, <2>3, <2>5 DEF LedInv, Display
<1>4. CASE ShowHours
  <2>1. e.time \div HourTicks \in Nat
    BY <1>0, HoursType
  <2>2. Blinking(todo')
    BY <1>4, <2>1, BlinkingHours DEF ShowHours
  <2>3. /\ data' = data /\ awaiting_confirmation' = awaiting_confirmation /\ leds' = leds
        /\ ~awaiting_confirmation /\ overtaken' = overtaken
    BY <1>4 DEF ShowHours
  <2> QED BY <1>b, <2>2, <2>3 DEF LedInv, Display, Steady, Shown, Active
<1>5. CASE AskConfirmation
  <2> DEFINE x == Stopped(e)
             k == Tracking(e)
  <2>1. /\ data' = WithActive(data, x) /\ previous_tracking_type' = k
        /\ awaiting_confirmation' = TRUE /\ saved_buttons_state' = <<leds>> /\ todo' = todo
        /\ ~awaiting_confirmation /\ overtaken' = overtaken
    BY <1>5 DEF AskConfirmation
  <2>2. x \in Entry /\ Quiet(x)
    BY <1>0, <1>c, StoppedType, QuietStopped
  <2>3. /\ Resumed(x, k).tracking_work = e.tracking_work
        /\ Resumed(x, k).tracking_meetings = e.tracking_meetings
    BY <1>0, <1>c, ResumedStopped
  <2>4. overtaken \/ Shown(leds, Resumed(x, k), FALSE)
    <3>1. Shown(leds, e, overtaken)
      BY <1>b, <2>1
    <3>2. CASE ~overtaken
      <4> HIDE DEF e, x, k
      <4>1. Shown(leds, e, FALSE)
        BY <3>1, <3>2 DEF Shown
      <4> QED BY <2>3, <4>1, ShownSame
    <3> QED BY <3>2
  <2> HIDE DEF x, k
  <2>5. Active(data)' = x /\ data.magic'
    BY <1>e, <2>1, <2>2
  <2>6. saved_buttons_state' # << >> /\ saved_buttons_state'[1] = leds
    BY <2>1
  <2>7. Asking'
    BY <1>b, <2>1, <2>2, <2>4, <2>5, <2>6 DEF Asking, Idle, Quiet, Shown, Resumed
  <2> QED BY <2>5, <2>7 DEF LedInv, Display
<1>6. CASE KeyNextSession
  <2>1. Doing(todo', 1) /\ awaiting_confirmation' = FALSE
    BY <1>6, DoingSession DEF KeyNextSession, MoveToNextSession
  <2>2. data'.magic = data.magic
    BY <1>0, <1>6 DEF KeyNextSession, MoveToNextSession, TimeTrackerData
  <2>3. Leaving'
    BY <2>1 DEF Leaving, Doing
  <2> QED BY <1>b, <2>2, <2>3 DEF LedInv, Display
<1>7. WORK_TRACKING \in Kinds /\ MEETING_TRACKING \in Kinds /\ WORK_TRACKING # MEETING_TRACKING
  BY DEF Kinds, WORK_TRACKING, MEETING_TRACKING
<1> QED BY <1>1, <1>2, <1>3, <1>4, <1>5, <1>6, <1>7 DEF KeyPress

\* The j-th statement that enters a session stops its tracking, switches the LEDs
\* off, or leaves both as they are.
LEMMA LedsEnter ==
  ASSUME ShownInv, HandlerStep, data.magic, awaiting_confirmation => overtaken,
         NEW j \in 1 .. 5, Doing(todo, j),
         j >= 2 => Quiet(Active(data)), j >= 3 => Dark(leds)
  PROVE  Display' /\ data.magic'
<1> DEFINE o == Active(data)
<1>0. /\ data \in TimeTrackerData /\ o \in Entry /\ todo \in Seq(Statement) /\ ~Both(o)
  BY LedTypes, ExclusiveActive DEF ShownInv, ExclusiveInv, ExclusiveTracking
<1>1. /\ todo' = Tail(todo) /\ awaiting_confirmation' = awaiting_confirmation
      /\ overtaken' = overtaken
  BY DEF HandlerStep, StopTracking, ResetSession, ClearMark, LedStatement
<1>2. /\ Head(todo).do = Enter[j].do
      /\ j < 5 => Doing(todo', j + 1)
      /\ j = 5 => todo' = << >> \/ Animating(todo')
  BY <1>0, <1>1, DoingRest
<1>3. /\ Head(todo).do = "stop" <=> j = 1
      /\ Head(todo).do = "all_off" <=> j = 2
      /\ Head(todo).do = "reset" <=> j = 3
      /\ Head(todo).do \in Marks <=> j \in {4, 5}
      /\ Head(todo).do \notin {"on", "off", "restore"}
  BY <1>2, EnterDo DEF Marks
<1>a. ASSUME NEW x \in Entry, data' = WithActive(data, x)
      PROVE  Active(data)' = x /\ data.magic'
  BY <1>0, <1>a, WithActiveType DEF Active
<1>4. data.magic' /\ Quiet(Active(data)')
  <2>1. CASE j = 1
    <3>1. data' = WithActive(data, Stopped(o))
      BY <1>3, <2>1 DEF HandlerStep, StopTracking, ResetSession, ClearMark, LedStatement, Marks
    <3>2. Stopped(o) \in Entry /\ Quiet(Stopped(o))
      BY <1>0, StoppedType, QuietStopped
    <3> QED BY <1>a, <3>1, <3>2
  <2>2. CASE j = 2
    <3>1. data' = data
      BY <1>3, <2>2 DEF HandlerStep, StopTracking, ResetSession, ClearMark, LedStatement, Marks
    <3> QED BY <2>2, <3>1 DEF Active
  <2>3. CASE j = 3
    <3> DEFINE r == [o EXCEPT !.time = 0, !.tracking_work = FALSE, !.tracking_meetings = FALSE]
    <3>1. data' = WithActive(data, r)
      BY <1>3, <2>3 DEF HandlerStep, StopTracking, ResetSession, ClearMark, LedStatement, Marks
    <3>2. r \in Entry /\ Quiet(r)
      BY <1>0, ResetType DEF Quiet
    <3> HIDE DEF r
    <3> QED BY <1>a, <3>1, <3>2
  <2>4. CASE j \in {4, 5}
    <3> DEFINE c == [o EXCEPT ![Head(todo).do] = FALSE]
    <3>1. data' = WithActive(data, c) /\ Head(todo).do \in Marks
      BY <1>3, <2>4 DEF HandlerStep, StopTracking, ResetSession, ClearMark, LedStatement
    <3>2. /\ c \in Entry /\ c.tracking_work = o.tracking_work
          /\ c.tracking_meetings = o.tracking_meetings
      BY <1>0, <3>1, ClearedType
    <3>3. Quiet(o)
      BY <2>4
    <3> HIDE DEF c, o
    <3>4. Quiet(c)
      BY <3>2, <3>3 DEF Quiet
    <3> QED BY <1>a, <3>1, <3>2, <3>4
  <2> QED BY <2>1, <2>2, <2>3, <2>4
<1>5. j >= 2 => Dark(leds')
  <2>1. CASE j = 2
    <3>1. leds' = AllOff
      BY <1>3, <2>1 DEF HandlerStep, StopTracking, ResetSession, ClearMark, LedStatement, Marks
    <3> QED BY <3>1, DarkOff
  <2>2. CASE j >= 3
    <3>1. leds' = leds
      BY <1>3, <2>2 DEF HandlerStep, StopTracking, ResetSession, ClearMark, LedStatement
    <3> QED BY <2>2, <3>1
  <2> QED BY <2>1, <2>2
<1>6. CASE j < 5
  <2>1. j + 1 \in 1 .. 5 /\ Doing(todo', j + 1) /\ (j + 1 >= 3 => Dark(leds'))
    BY <1>2, <1>5, <1>6
  <2>2. Leaving'
    BY <1>1, <1>4, <2>1 DEF Leaving, Doing, Quiet, Dark
  <2> QED BY <1>4, <2>2 DEF Display
<1>7. CASE j = 5
  <2>1. CASE todo' = << >>
    BY <1>1, <1>4, <1>5, <1>7, <2>1, RestDisplay
  <2>2. CASE Animating(todo')
    BY <1>1, <1>4, <2>2 DEF Display, Arriving, Animating, Quiet
  <2> QED BY <1>2, <1>4, <1>7, <2>1, <2>2
<1> QED BY <1>6, <1>7

\* Blinking, showing the number of the session and the animation leave what is
\* tracked alone, and the LEDs end as they were, or dark.
LEMMA LedsHandlerStep ==
  ASSUME ShownInv, HandlerStep
  PROVE  LedInv'
<1>0. /\ data \in TimeTrackerData /\ todo \in Seq(Statement) /\ leds \in KeyLeds
      /\ todo # << >> /\ todo' = Tail(todo) /\ overtaken' = overtaken
      /\ awaiting_confirmation' = awaiting_confirmation /\ feature' = feature
  BY LedTypes DEF HandlerStep, StopTracking, ResetSession, ClearMark, LedStatement, Idle
<1> SUFFICES ASSUME feature = "time_tracker" PROVE data.magic' /\ Display'
  BY <1>0 DEF LedInv
<1>a. data.magic /\ Display /\ ~Asking
  BY <1>0 DEF ShownInv, LedInv, Asking, Idle
<1> DEFINE st == Head(todo)
<1>b. ASSUME st.do \in {"on", "off", "all_off", "restore"}
      PROVE  LedStatement /\ data' = data /\ Active(data)' = Active(data) /\ data.magic'
  <2>1. LedStatement
    BY <1>b DEF HandlerStep, StopTracking, ResetSession, ClearMark, Marks
  <2>2. data' = data
    BY <2>1 DEF LedStatement
  <2> QED BY <1>a, <2>1, <2>2 DEF Active
<1>1. CASE Steady
  <2>1. /\ st.do \in {"on", "off"} /\ st.key = FUNCTION_KEY_ID /\ Blinking(Tail(todo))
    BY <1>0, <1>1, BlinkingRest DEF Steady
  <2>2. LedStatement /\ Active(data)' = Active(data) /\ data.magic'
    BY <1>b, <2>1
  <2>3. \E c \in {"green", "off"} : leds' = [leds EXCEPT ![FUNCTION_KEY_ID] = c]
    BY <2>1, <2>2 DEF LedStatement
  <2>4. Shown(leds', Active(data), overtaken)
    <3>1. PICK c \in {"green", "off"} : leds' = [leds EXCEPT ![FUNCTION_KEY_ID] = c]
      BY <2>3
    <3>2. Shown(leds, Active(data), overtaken)
      BY <1>1 DEF Steady
    <3>3. Shown([leds EXCEPT ![FUNCTION_KEY_ID] = c], Active(data), overtaken)
      BY <1>0, <3>2, ShownFunctionKey, Zenon
    <3> QED BY <3>1, <3>3
  <2> QED BY <1>0, <1>1, <2>1, <2>2, <2>4 DEF Display, Steady, Shown
<1>2. CASE Numbering
  <2>1. \/ st.do = "restore" /\ Tail(todo) = << >>
        \/ st.do \in {"on", "off"} /\ Showing(Tail(todo))
    BY <1>0, <1>2, ShowingRest DEF Numbering
  <2>2. LedStatement /\ Active(data)' = Active(data) /\ data.magic'
    BY <1>b, <2>1
  <2>3. CASE st.do = "restore" /\ Tail(todo) = << >>
    <3>1. leds' = saved_buttons_state[1]
      BY <1>2, <2>2, <2>3 DEF LedStatement, Numbering, RestoredLeds
    <3> QED BY <1>0, <1>2, <2>2, <2>3, <3>1, BlinkingNothing
        DEF Display, Steady, Numbering, Shown
  <2>4. CASE st.do \in {"on", "off"} /\ Showing(Tail(todo))
    <3>1. saved_buttons_state' = saved_buttons_state
      BY <2>2, <2>4 DEF LedStatement
    <3>2. Numbering'
      BY <1>0, <1>2, <2>2, <2>4, <3>1 DEF Numbering, Showing, Shown
    <3> QED BY <2>2, <3>2 DEF Display
  <2> QED BY <2>1, <2>3, <2>4
<1>3. CASE Leaving
  BY <1>a, <1>3, LedsEnter DEF Leaving
<1>4. CASE Arriving
  <2>1. \/ st.do = "all_off" /\ Tail(todo) = << >>
        \/ st.do = "on" /\ Animating(Tail(todo))
    BY <1>0, <1>4, AnimatingRest DEF Arriving
  <2>2. LedStatement /\ Active(data)' = Active(data) /\ data.magic'
    BY <1>b, <2>1
  <2>3. CASE st.do = "all_off" /\ Tail(todo) = << >>
    <3>1. leds' = AllOff
      BY <2>2, <2>3 DEF LedStatement
    <3> QED BY <1>0, <1>4, <2>2, <2>3, <3>1, DarkOff, RestDisplay DEF Arriving
  <2>4. CASE st.do = "on" /\ Animating(Tail(todo))
    <3>1. Arriving'
      BY <1>0, <1>4, <2>2, <2>4 DEF Arriving, Animating, Quiet
    <3> QED BY <2>2, <3>1 DEF Display
  <2> QED BY <2>1, <2>3, <2>4
<1> QED BY <1>a, <1>1, <1>2, <1>3, <1>4 DEF Display

\* TimeTracker::init stops the tracking and switches the LEDs of both kinds off.
LEMMA LedsTrackerInit ==
  ASSUME ShownInv, TrackerInit, awaiting_confirmation' => overtaken', todo' = << >>
  PROVE  data.magic' /\ Display'
<1> DEFINE d == IF flash.magic THEN flash ELSE FactoryData
<1>1. d \in TimeTrackerData /\ d.magic
  BY FactoryDataType DEF ShownInv, ExclusiveInv, TypeOK, FactoryData
<1>2. data' = WithActive(d, Stopped(Active(d))) /\ leds' = ThresholdLeds(AllOff, Active(d))
  BY DEF TrackerInit
<1> HIDE DEF d
<1>3. data'.magic
  BY <1>1, <1>2, ActiveType, StoppedType, WithActiveType
<1>4. Quiet(Active(data)')
  BY TrackerInitExclusive DEF ShownInv, Quiet
<1>5. Dark(leds')
  BY <1>2, DarkOff
<1> QED BY <1>3, <1>4, <1>5, RestDisplay

LEMMA LedsHost ==
  ASSUME ShownInv, Command \/ PowerLoss
  PROVE  LedInv'
<1>0. data \in TimeTrackerData /\ previous_tracking_type \in Kinds \cup {"none"}
  BY LedTypes
<1>a. ASSUME Active(data)' = Active(data), data.magic' = data.magic,
             UNCHANGED <<awaiting_confirmation, previous_tracking_type, saved_buttons_state,
                         leds, feature, todo, overtaken>>
      PROVE  LedInv'
  BY <1>a DEF ShownInv, LedInv, Display, Steady, Asking, Numbering, Leaving, Arriving, Idle,
              Blinking, Showing, Doing, Animating, Shown, Dark, Quiet, Resumed
<1>1. CASE NewSession
  <2>1. /\ Doing(todo', 1) /\ data'.magic = data.magic /\ feature' = feature
        /\ awaiting_confirmation' = awaiting_confirmation /\ overtaken' = awaiting_confirmation
    BY <1>0, <1>1, DoingSession DEF NewSession, MoveToNextSession, TimeTrackerData
  <2>2. Leaving'
    BY <2>1 DEF Leaving, Doing
  <2> QED BY <2>1, <2>2 DEF ShownInv, LedInv, Display
<1>2. CASE SetThreshold
  <2>1. /\ data'.tracking_entries = data.tracking_entries /\ data'.magic = data.magic
        /\ data'.active_session = data.active_session
    BY <1>0, <1>2 DEF SetThreshold, TimeTrackerData
  <2> QED BY <1>2, <1>a, <2>1 DEF SetThreshold, Active
<1>3. ASSUME NEW f \in SwitchTargets, SwitchFeature(f) PROVE LedInv'
  <2>1. CASE f = "time_tracker"
    <3>1. /\ TrackerInit /\ awaiting_confirmation' = awaiting_confirmation
          /\ overtaken' = awaiting_confirmation /\ todo' = << >>
      BY <1>3, <2>1 DEF SwitchFeature, Idle
    <3> QED BY <3>1, LedsTrackerInit DEF LedInv
  <2>2. CASE f # "time_tracker"
    BY <1>3, <2>2 DEF SwitchFeature, LedInv
  <2> QED BY <2>1, <2>2
<1>4. CASE FactoryInit
  <2> SUFFICES ASSUME feature = "time_tracker" PROVE data.magic' /\ Display'
    BY <1>4 DEF FactoryInit, LedInv
  <2>1. /\ data' = FactoryData /\ leds' = AllOff /\ todo' = << >>
        /\ awaiting_confirmation' = awaiting_confirmation
        /\ saved_buttons_state' = saved_buttons_state /\ overtaken' = overtaken
        /\ previous_tracking_type' = previous_tracking_type
        /\ Idle /\ data'.magic
    BY <1>4 DEF FactoryInit, TrackerDeinit, Host, Idle, FactoryData
  <2>2. Active(data)' = EmptyEntry /\ Quiet(EmptyEntry) /\ EmptyEntry \in Entry
    BY <2>1, EmptyEntryType, TimeTrackerConstants
    DEF Active, FactoryData, EmptyEntry, Quiet, Sessions
  <2>5. CASE ~awaiting_confirmation
    BY <2>1, <2>2, <2>5, DarkOff, RestDisplay
  <2>6. CASE awaiting_confirmation
    <3>1. Asking /\ Active(data) \in Entry
      BY <2>1, <2>6, AtRest, LedTypes
    <3>2. /\ EmptyEntry.tracking_work = Active(data).tracking_work
          /\ EmptyEntry.tracking_meetings = Active(data).tracking_meetings
      BY <2>2, <3>1 DEF Asking, Quiet, Entry
    <3>3. overtaken \/ Shown(saved_buttons_state[1],
                             Resumed(EmptyEntry, previous_tracking_type), FALSE)
      BY <1>0, <2>2, <3>1, <3>2, ShownResumedSame DEF Asking
    <3>4. Asking'
      BY <2>1, <2>2, <2>6, <3>1, <3>3 DEF Asking, Idle, Quiet, Shown, Resumed
    <3> QED BY <2>1, <3>4 DEF Display
  <2> QED BY <2>5, <2>6
<1>5. CASE Erase
  BY <1>5, <1>a DEF Erase, Active
<1>6. CASE PowerLoss
  <2>1. CASE stored_feature = "time_tracker"
    BY <1>6, <2>1, LedsTrackerInit DEF PowerLoss, LedInv
  <2>2. CASE stored_feature # "time_tracker"
    BY <1>6, <2>2 DEF PowerLoss, LedInv
  <2> QED BY <2>1, <2>2
<1>7. CASE ChangeColor
  <2>1. /\ Idle /\ todo' = todo /\ data' = data /\ feature' = feature /\ overtaken' = overtaken
        /\ awaiting_confirmation' = awaiting_confirmation
        /\ saved_buttons_state' = saved_buttons_state
        /\ previous_tracking_type' = previous_tracking_type
    BY <1>7 DEF ChangeColor
  <2> SUFFICES ASSUME feature = "time_tracker" PROVE data.magic' /\ Display'
    BY <2>1 DEF LedInv
  <2>2. /\ data.magic /\ leds \in KeyLeds
        /\ awaiting_confirmation => Asking
        /\ ~awaiting_confirmation => Shown(leds, Active(data), overtaken)
    BY <2>1, AtRest, LedTypes
  <2>3. CASE awaiting_confirmation
    <3>1. Asking'
      BY <2>1, <2>2, <2>3 DEF Asking, Idle, Quiet, Active, Resumed, Shown
    <3> QED BY <2>1, <2>2, <3>1 DEF Display
  <2>4. CASE ~awaiting_confirmation
    <3>1. PICK k \in Keys, c \in HostColors :
                 leds' = [leds EXCEPT ![k] = IF @ = "off" THEN "off" ELSE c]
      BY <1>7 DEF ChangeColor
    <3>2. ASSUME NEW kind \in Kinds
          PROVE  IF Active(data)[kind] THEN leds'[KeyOf(kind)] \in ShownColors(kind)
                                       ELSE overtaken \/ leds'[KeyOf(kind)] = "off"
      <4>1. KeyOf(kind) \in Keys
        BY KeysFacts
      <4>2. IF Active(data)[kind] THEN leds[KeyOf(kind)] \in ShownColors(kind)
                                  ELSE overtaken \/ leds[KeyOf(kind)] = "off"
        BY <2>2, <2>4 DEF Shown
      <4>3. /\ leds'[KeyOf(kind)] = leds[KeyOf(kind)] \/ leds'[KeyOf(kind)] = c
            /\ leds[KeyOf(kind)] = "off" => leds'[KeyOf(kind)] = "off"
            /\ Active(data)[kind] /\ leds'[KeyOf(kind)] = c => c \in ShownColors(kind)
        BY <2>2, <3>1, <4>1 DEF KeyLeds, ShownColors
      <4> QED BY <4>2, <4>3
    <3>3. Shown(leds', Active(data), overtaken)
      BY <3>2 DEF Shown
    <3>4. Steady'
      BY <2>1, <2>4, <3>3, BlinkingNothing DEF Steady, Shown, Active, Idle, Blinking
    <3> QED BY <2>1, <2>2, <3>4 DEF Display
  <2> QED BY <2>3, <2>4
<1> QED BY <1>1, <1>2, <1>3, <1>4, <1>5, <1>6, <1>7 DEF Command

\* At rest, with no answer awaited, the key of what is tracked is lit, and that of
\* what is not tracked is dark unless a session or a start of the tracker overtook
\* the last question: whatever keys are pressed, wherever the timer interrupts a
\* handler and whatever the host does, changing the colours of the keys included.
THEOREM SpecLedsShowTracking == Spec => []LedsShowTracking
<1>1. Init => ShownInv
  <2> SUFFICES ASSUME Init PROVE LedInv
    BY InitExclusive DEF ShownInv
  <2>1. Shown(AllOff, Active(FactoryData), FALSE) /\ FactoryData.magic
    BY ExclusiveFactory, DarkOff, ShownDark DEF FactoryData
  <2> QED BY <2>1, BlinkingNothing DEF Init, LedInv, Display, Steady
<1>2. ShownInv /\ [Next]_vars => ShownInv'
  <2> SUFFICES ASSUME ShownInv, [Next]_vars PROVE LedInv'
    BY ExclusiveStep DEF ShownInv
  <2>1. CASE UNCHANGED vars
    BY <2>1 DEF vars, ShownInv, LedInv, Display, Steady, Asking, Numbering, Leaving, Arriving,
                Idle, Blinking, Showing, Doing, Animating, Shown, Dark, Quiet, Resumed, Active
  <2>2. CASE Next
    BY <2>2, LedsTick, LedsKeyPress, LedsHandlerStep, LedsHost DEF Next
  <2> QED BY <2>1, <2>2
<1>3. ShownInv => LedsShowTracking
  <2> SUFFICES ASSUME ShownInv, Idle, feature = "time_tracker", ~awaiting_confirmation
               PROVE  Shown(leds, Active(data), overtaken)
    BY DEF LedsShowTracking, Shown
  <2> QED BY AtRest
<1> QED BY <1>1, <1>2, <1>3, PTL DEF Spec
=============================================================================
