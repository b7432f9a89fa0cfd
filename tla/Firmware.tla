------------------------------- MODULE Firmware -------------------------------
(***************************************************************************)
(* main of 3-key.cpp with its clients of Storage: power-up (Storage::init, *)
(* KeysConfig, core 1, FeaturesHandler::init, TimeTracker::init) and, in   *)
(* the main loop, the commands of the host that save.  Every save is one   *)
(* of module Storage, step by step, so what the next power-up finds can be *)
(* compared with what was chosen before.  A blob's payload is a version:   *)
(* of FEATURES_HANDLER_CONFIG the feature itself, of TIME_TRACKER_DATA the *)
(* whole image in RAM, whatever it holds.                                  *)
(***************************************************************************)
EXTENDS Storage

CONSTANTS
  Versions,    \* versions of the tracker's data, the factory's (0) among them
  MaxLosses    \* bound: power losses

ASSUME FirmwareConstants ==
  /\ SlotCount >= 4 /\ MaxData >= 3
  /\ ThreadBlobs = 1 .. 3 /\ TickBlobs = {3}
  /\ Versions \subseteq 0 .. MaxData - 1 /\ 0 \in Versions
  /\ MaxLosses \in Nat

VARIABLES
  stage,     \* where main is: power-up, then switch_to_feature or the loop
  pending,   \* switch_to_feature has still to save the configuration
  feature,   \* FeaturesHandler::config.current_feature
  tracker,   \* version of TimeTracker::data
  timer,     \* tracking_timer is armed
  losses,    \* power losses so far
  expected,  \* history: versions of a blob that a power-up may have to find
  cut        \* history: blobs whose sector was being rewritten when power failed

fwVars  == <<stage, pending, feature, tracker, timer, losses, expected, cut>>
allVars == <<vars, fwVars>>
-----------------------------------------------------------------------------
\* BlobType, after STORAGE_CONFIG.
FEATURES_HANDLER_CONFIG == 1
KEYS_CONFIG             == 2
TIME_TRACKER_DATA       == 3
Clients == {FEATURES_HANDLER_CONFIG, KEYS_CONFIG, TIME_TRACKER_DATA}

\* FeatureType
CTRL_C_V     == 0
TIME_TRACKER == 1
NONE         == 2
FeatureType  == {CTRL_C_V, TIME_TRACKER, NONE}

\* The version of tracker data that were never loaded: RAM without the magic.
NoMagic == MaxData
Factory == 0

MainIdle == pc["thread"] = "idle" /\ Runs("thread")

FwInit ==
  /\ Init
  /\ stage = "storage" /\ pending = FALSE
  /\ feature = CTRL_C_V /\ tracker = NoMagic /\ timer = FALSE
  /\ losses = 0
  /\ expected = [b \in Clients |-> {Factory}]
  /\ cut = [b \in Clients |-> FALSE]

\* A client calls save_blob; from now on a power-up may find the new version.
Save(b, v) ==
  /\ ThreadSave(b, v)
  /\ expected' = [expected EXCEPT ![b] = @ \cup {v}]

NoSave == MainIdle /\ UNCHANGED <<vars, expected>>

\* Storage::init.
InitStorage ==
  /\ stage = "storage"
  /\ \/ (BootLoad \/ BootCount) /\ UNCHANGED stage
     \/ BootDone /\ stage' = "keys"
  /\ UNCHANGED <<pending, feature, tracker, timer, losses, expected, cut>>

\* KeysConfig's constructor.
InitKeys ==
  /\ stage = "keys" /\ stage' = "launch"
  /\ IF MagicMissing(flash[KEYS_CONFIG]) THEN Save(KEYS_CONFIG, Factory) ELSE NoSave
  /\ UNCHANGED <<pending, feature, tracker, timer, losses, cut>>

\* LEDs and buttons, then multicore_launch_core1.
LaunchCore1 ==
  /\ stage = "launch" /\ stage' = "features"
  /\ NoSave
  /\ UNCHANGED <<pending, feature, tracker, timer, losses, cut>>

\* Bug: the stored configuration is taken without a look at its magic.
InitFeaturesUnchecked ==
  /\ stage = "features" /\ stage' = "start"
  /\ feature' = flash[FEATURES_HANDLER_CONFIG][1]
  /\ NoSave
  /\ UNCHANGED <<pending, tracker, timer, losses, cut>>

\* FeaturesHandler::init; its factory_init switches to ctrl_c_v, which saves ...
InitFeatures ==
  /\ stage = "features"
  /\ LET stored == flash[FEATURES_HANDLER_CONFIG] IN
     IF MagicMissing(stored)
     THEN /\ feature' = CTRL_C_V /\ stage' = "factory_init"
          /\ Save(FEATURES_HANDLER_CONFIG, CTRL_C_V)
     ELSE /\ feature' = stored[1] /\ stage' = "start"
          /\ NoSave
  /\ UNCHANGED <<pending, tracker, timer, losses, cut>>

\* ... and saves once more.
SaveFactoryInit ==
  /\ stage = "factory_init" /\ stage' = "start"
  /\ Save(FEATURES_HANDLER_CONFIG, feature)
  /\ UNCHANGED <<pending, feature, tracker, timer, losses, cut>>

\* init of the current feature: ctrl_c_v's has nothing to do with storage.
StartFeature ==
  /\ stage = "start"
  /\ stage' = IF feature = TIME_TRACKER THEN "tracker_load"
              ELSE IF pending THEN "save_choice" ELSE "running"
  /\ NoSave
  /\ UNCHANGED <<pending, feature, tracker, timer, losses, cut>>

\* TimeTracker::init up to its timer: load, with factory_init when the magic
\* is missing in flash or in what was saved there.
LoadTracker ==
  /\ stage = "tracker_load" /\ stage' = "tracker_arm"
  /\ LET stored == flash[TIME_TRACKER_DATA] IN
     IF MagicMissing(stored) \/ stored[1] = NoMagic
     THEN tracker' = Factory /\ Save(TIME_TRACKER_DATA, Factory)
     ELSE tracker' = stored[1] /\ NoSave
  /\ UNCHANGED <<pending, feature, timer, losses, cut>>

ArmTimer ==
  /\ stage = "tracker_arm" /\ timer' = TRUE
  /\ stage' = IF pending THEN "save_choice" ELSE "running"
  /\ NoSave
  /\ UNCHANGED <<pending, feature, tracker, losses, cut>>
-----------------------------------------------------------------------------
\* switch_to_feature from the terminal: deinit of the feature, init of f ...
SwitchFeature(f) ==
  /\ stage = "running" /\ stage' = "start"
  /\ pending' = TRUE /\ feature' = f
  /\ timer' = (timer /\ feature # TIME_TRACKER)
  /\ NoSave
  /\ UNCHANGED <<tracker, losses, cut>>

\* Bug: the switch returns without saving.
SaveChoiceForgotten ==
  /\ stage = "save_choice" /\ stage' = "running" /\ pending' = FALSE
  /\ NoSave
  /\ UNCHANGED <<feature, tracker, timer, losses, cut>>

\* ... then the save, with the tracker's timer already armed when f is it.
SaveChoice ==
  /\ stage = "save_choice" /\ stage' = "running" /\ pending' = FALSE
  /\ Save(FEATURES_HANDLER_CONFIG, feature)
  /\ UNCHANGED <<feature, tracker, timer, losses, cut>>

\* TIME_SET_*_THRESHOLD: data are changed and saved, loaded or not.
SetThreshold ==
  /\ stage = "running"
  /\ \E v \in IF tracker = NoMagic THEN {NoMagic} ELSE Versions :
       tracker' = v /\ Save(TIME_TRACKER_DATA, v)
  /\ UNCHANGED <<stage, pending, feature, timer, losses, cut>>

\* factory_init_features: the tracker is stopped and its history saved empty.
FactoryInitFeatures ==
  /\ stage = "running"
  /\ timer' = FALSE /\ tracker' = Factory /\ Save(TIME_TRACKER_DATA, Factory)
  /\ UNCHANGED <<stage, pending, feature, losses, cut>>

\* timer_callback when it is time to save what it counted.
TickSaves ==
  /\ timer
  /\ \E v \in Versions :
       /\ TickSave(TIME_TRACKER_DATA, v)
       /\ tracker' = v
       /\ expected' = [expected EXCEPT ![TIME_TRACKER_DATA] = @ \cup {v}]
  /\ UNCHANGED <<stage, pending, feature, timer, losses, cut>>

\* The terminal's erase.
EraseCommand ==
  /\ stage = "running"
  /\ CallErase
  /\ expected' = [b \in Clients |-> expected[b] \cup {Factory}]
  /\ UNCHANGED <<stage, pending, feature, tracker, timer, losses, cut>>

\* Versions that calls in progress, other than that of c, may still write to b.
InProgress(c, b) ==
  {req[d].data : d \in {e \in Contexts \ {c} : pc[e] # "idle" /\ req[e].blob \in {b, AllSlots}}}

\* A save or an erase goes on; when it returns it is durable.
SaveGoesOn(c) ==
  /\ MutexEnter(c) \/ EraseAllEnter(c) \/ SaveStep(c)
  /\ LET durable == {b \in Clients : pc[c] = "mutex_exit" /\ req[c].blob \in {b, AllSlots}} IN
     /\ expected' = [b \in Clients |-> IF b \in durable THEN {req[c].data} \cup InProgress(c, b)
                                       ELSE expected[b]]
     /\ cut' = [b \in Clients |-> cut[b] /\ b \notin durable]
  /\ UNCHANGED <<stage, pending, feature, tracker, timer, losses>>

\* leds_task on core 1, once it is launched.
Core1 ==
  /\ stage \notin {"storage", "keys", "launch"}
  /\ LedsEnter \/ LedsExit
  /\ UNCHANGED fwVars

\* Power is cut and comes back; the sector being rewritten is at risk.
PowerCut ==
  /\ losses < MaxLosses /\ losses' = losses + 1
  /\ PowerLoss
  /\ stage' = "storage" /\ pending' = FALSE
  /\ feature' = CTRL_C_V /\ tracker' = NoMagic /\ timer' = FALSE
  /\ expected' = [b \in Clients |-> expected[b] \cup IF InRewrite(b) THEN {Factory} ELSE {}]
  /\ cut' = [b \in Clients |-> cut[b] \/ InRewrite(b)]

MainStep ==
  \/ InitStorage \/ InitKeys \/ LaunchCore1
  \/ InitFeatures \/ SaveFactoryInit \/ StartFeature
  \/ LoadTracker \/ ArmTimer \/ SaveChoice

FwNext ==
  \/ MainStep
  \/ \E f \in FeatureType : SwitchFeature(f)
  \/ SetThreshold \/ FactoryInitFeatures \/ EraseCommand
  \/ TickSaves
  \/ \E c \in Contexts : SaveGoesOn(c)
  \/ Core1
  \/ PowerCut

FwSpec == FwInit /\ [][FwNext]_allVars

(***************************************************************************)
(* A context inside Storage goes on, as in Storage: core 0 finds the mutex *)
(* free again and again while core 1 sleeps.  Main's steps take            *)
(* microseconds and the timer comes every 250 ms, so it does not keep main *)
(* from them for ever: strong fairness.                                    *)
(***************************************************************************)
FwFairness ==
  /\ SF_allVars(MainStep)
  /\ \A c \in Contexts : SF_allVars(SaveGoesOn(c))
  /\ WF_allVars(Core1 /\ LedsExit)

FwFairSpec == FwSpec /\ FwFairness
-----------------------------------------------------------------------------
Stages ==
  {"storage", "keys", "launch", "features", "factory_init", "start",
   "tracker_load", "tracker_arm", "save_choice", "running"}

FwTypeOK ==
  /\ stage \in Stages /\ pending \in BOOLEAN
  /\ feature \in FeatureType /\ tracker \in Versions \cup {NoMagic} /\ timer \in BOOLEAN
  /\ losses \in 0 .. MaxLosses
  /\ expected \in [Clients -> SUBSET Data]
  /\ cut \in [Clients -> BOOLEAN]

\* Every step of main and of its clients is one that Storage allows, so what holds
\* of Storage holds of the firmware.
ImplementsStorage == Spec

Quiet == \A c \in Contexts : pc[c] = "idle"

\* What a power-up would work with: the stored version, or the factory's.
Found(b) == IF MagicMissing(flash[b]) THEN Factory ELSE flash[b][1]

\* A power-up finds of every blob the version of the last save that returned, or
\* of one that power failed in; the factory's only after a cut in the rewrite of
\* the blob's own sector, which the count of boots and the other blob that lives
\* there rewrite too.
LastSaveSurvives == Quiet => \A b \in Clients : Found(b) \in expected[b]

\* The magic of a blob speaks for all of it, unless power failed while its own
\* sector was rewritten and it was not saved since: only then may the tracker
\* accept data of which the end is missing.
TornOnlyIfCut ==
  Quiet => \A b \in Clients : cut[b] \/ \E v \in Data \cup {Erased} : flash[b] = Whole(v)

\* What runs is what a power-up would start, unless the storage was erased since:
\* the configuration in RAM and the one in flash agree between commands.
RunningIsStored ==
  stage = "running" /\ Quiet /\ ~MagicMissing(flash[FEATURES_HANDLER_CONFIG])
    => feature = flash[FEATURES_HANDLER_CONFIG][1]

\* The timer interrupt waits for the mutex of the main loop that it preempted.
SelfLocked == "tick" \in Contexts /\ pc["tick"] = "mutex_enter" /\ Holding("thread")

\* Power-up, switch_to_feature and every command that saves come back to the main
\* loop, however often power fails before: the one thing that can stop them is the
\* tracker's timer interrupt, found waiting for the main loop below it.
ReturnsToLoop ==
  ~(stage = "running" /\ Quiet) ~> \/ stage = "running" /\ Quiet
                                   \/ SelfLocked /\ timer
=============================================================================
