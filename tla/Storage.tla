------------------------------- MODULE Storage -------------------------------
(***************************************************************************)
(* firmware/storage: blobs in the last flash sectors of the device.  A     *)
(* save rewrites the whole sector of the blob (read, patch, erase,         *)
(* program) under g_mutex, with interrupts off only inside the erase and   *)
(* the program.  It runs on core 0, from the main loop ("thread") and,     *)
(* when the time tracker's timer is armed, from its interrupt ("tick"),    *)
(* which preempts the thread and runs to completion.  Core 1 takes the     *)
(* same mutex around leds_task.  Power may be lost between any two steps.  *)
(***************************************************************************)
EXTENDS Integers

CONSTANTS
  SlotCount,       \* BLOB_SLOTS_COUNT, the slots in use
  SlotsPerSector,  \* FLASH_SECTOR_SIZE / BLOB_SLOT_SIZE_BYTES
  PagesPerSlot,    \* flash pages of a slot; flash is programmed by pages
  Contexts,        \* {"thread"}, or {"thread", "tick"} while the timer is armed
  ThreadBlobs,     \* blobs the main loop saves after boot
  TickBlobs,       \* blobs the timer interrupt saves (TIME_TRACKER_DATA)
  PowerMayFail,    \* whether power losses are considered
  MaxData          \* bound on payload versions and on init_count

ASSUME StorageConstants ==
  /\ SlotCount \in Nat \ {0}
  /\ SlotsPerSector \in Nat \ {0}
  /\ PagesPerSlot \in Nat \ {0}
  /\ "thread" \in Contexts /\ Contexts \subseteq {"thread", "tick"}
  /\ ThreadBlobs \subseteq 0 .. SlotCount - 1
  /\ TickBlobs \subseteq 0 .. SlotCount - 1
  /\ PowerMayFail \in BOOLEAN
  /\ MaxData \in Nat \ {0}

VARIABLES
  flash,      \* [Slots -> Content], the storage area
  sector,     \* Storage::sector, the RAM image of the sector being rewritten
  pc,         \* control point of each context inside Storage
  req,        \* the arguments of the call of each context
  remaining,  \* pages flash_range_program has still to write
  mutex,      \* owner of g_mutex
  core1,      \* "sleep" or "leds_task"
  boot,       \* progress of Storage::init since power-up
  s_config    \* Storage::s_config.init_count, in RAM

vars == <<flash, sector, pc, req, remaining, mutex, core1, boot, s_config>>
-----------------------------------------------------------------------------
Slots   == 0 .. SlotCount - 1
Page    == 1 .. PagesPerSlot
Data    == 0 .. MaxData
Erased  == -1
Content == [Page -> Data \cup {Erased}]
Blank   == [p \in Page |-> Erased]

\* The image of version v of a blob, its tail filled with 0xFF as every page's.
Whole(v) == [p \in Page |-> v]

SectorOf(b) == b \div SlotsPerSector
SlotsIn(s)  == {b \in Slots : SectorOf(b) = s}

\* BlobType::STORAGE_CONFIG; its payload is init_count.
STORAGE_CONFIG == 0
\* The argument of the erase() that clears every slot.
AllSlots == SlotCount

\* The magic is in the first page of a blob.
MagicMissing(content) == content[1] = Erased

\* Interrupts are off, and flash cannot be read, inside the two flash calls.
FlashBusy == \E c \in Contexts : pc[c] \in {"erasing", "programming", "wiping"}

\* The interrupt runs to completion before the thread goes on.
Runs(c) == c = "thread" /\ "tick" \in Contexts => pc["tick"] = "idle"

Step(c, from, to) == pc[c] = from /\ Runs(c) /\ pc' = [pc EXCEPT ![c] = to]

\* Context c is between mutex_enter_blocking and mutex_exit.
Holding(c) == pc[c] \notin {"idle", "mutex_enter", "wipe_enter"}
-----------------------------------------------------------------------------
Init ==
  /\ flash = [b \in Slots |-> Blank]
  /\ sector = [b \in {} |-> Blank]
  /\ pc = [c \in Contexts |-> "idle"]
  /\ req = [c \in Contexts |-> [blob |-> 0, data |-> 0]]
  /\ remaining = {}
  /\ mutex = "free"
  /\ core1 = "sleep"
  /\ boot = "start"
  /\ s_config = 0

\* Storage::save_blob is called: _save_blob up to mutex_enter_blocking.
CallSave(c, b, v) ==
  /\ Step(c, "idle", "mutex_enter")
  /\ req' = [req EXCEPT ![c] = [blob |-> b, data |-> v]]
  /\ UNCHANGED <<flash, sector, remaining, mutex, core1>>

\* Storage::init: load s_config, and count this boot in it; a missing magic
\* first saves a config with init_count 0 (factory_init).
BootLoad ==
  /\ boot = "start"
  /\ LET stored == flash[STORAGE_CONFIG] IN
     IF MagicMissing(stored)
     THEN /\ CallSave("thread", STORAGE_CONFIG, 0)
          /\ s_config' = 0
          /\ boot' = "factory_init"
     ELSE /\ CallSave("thread", STORAGE_CONFIG, stored[1] + 1)
          /\ s_config' = stored[1] + 1
          /\ boot' = "count"

BootCount ==
  /\ boot = "factory_init"
  /\ CallSave("thread", STORAGE_CONFIG, s_config + 1)
  /\ s_config' = s_config + 1
  /\ boot' = "count"

\* Storage::init returns; main goes on and later launches core 1.
BootDone ==
  /\ boot = "count" /\ pc["thread"] = "idle"
  /\ boot' = "done"
  /\ UNCHANGED <<flash, sector, pc, req, remaining, mutex, core1, s_config>>

\* KeysConfig, FeaturesHandler and TimeTracker save their blobs.
ThreadSave(b, v) ==
  /\ boot = "done" /\ b \in ThreadBlobs
  /\ CallSave("thread", b, v)
  /\ UNCHANGED <<boot, s_config>>

\* The 250 ms timer interrupt finds it is time to save.
TickSave(b, v) ==
  /\ boot = "done" /\ "tick" \in Contexts /\ b \in TickBlobs
  /\ ~FlashBusy
  /\ CallSave("tick", b, v)
  /\ UNCHANGED <<boot, s_config>>

\* The terminal's erase command: Storage::erase().
CallErase ==
  /\ boot = "done"
  /\ Step("thread", "idle", "wipe_enter")
  /\ req' = [req EXCEPT !["thread"] = [blob |-> AllSlots, data |-> 0]]
  /\ UNCHANGED <<flash, sector, remaining, mutex, core1, boot, s_config>>
-----------------------------------------------------------------------------
\* Bug: the owner is compared by core, as a recursive mutex does.
MutexEnterRecursive(c) ==
  /\ mutex # "core1"
  /\ mutex' = "core0"
  /\ Step(c, "mutex_enter", "read_sector")
  /\ UNCHANGED <<flash, sector, req, remaining, core1, boot, s_config>>

\* mutex_enter_blocking(&g_mutex): waits while any core owns it, its own too.
MutexEnter(c) ==
  /\ mutex = "free"
  /\ mutex' = "core0"
  /\ Step(c, "mutex_enter", "read_sector")
  /\ UNCHANGED <<flash, sector, req, remaining, core1, boot, s_config>>

\* Bug: the buffer keeps what an earlier save left in it.
ReadSectorNotDone(c) ==
  /\ Step(c, "read_sector", "update_blob")
  /\ sector' = [b \in SlotsIn(SectorOf(req[c].blob)) |->
                  IF b \in DOMAIN sector THEN sector[b] ELSE Blank]
  /\ UNCHANGED <<flash, req, remaining, mutex, core1, boot, s_config>>

\* Bug: the loop over the slots of the sector takes one too many.
ReadSectorOneTooMany(c) ==
  /\ Step(c, "read_sector", "update_blob")
  /\ LET s == SectorOf(req[c].blob) IN
     sector' = [b \in s * SlotsPerSector .. (s + 1) * SlotsPerSector |->
                  IF b \in Slots THEN flash[b] ELSE Blank]
  /\ UNCHANGED <<flash, req, remaining, mutex, core1, boot, s_config>>

ReadSector(c) ==
  /\ Step(c, "read_sector", "update_blob")
  /\ sector' = [b \in SlotsIn(SectorOf(req[c].blob)) |-> flash[b]]
  /\ UNCHANGED <<flash, req, remaining, mutex, core1, boot, s_config>>

\* Bug: what follows the first page of the blob is not replaced.
UpdateFirstPage(c) ==
  /\ Step(c, "update_blob", "erase")
  /\ sector' = [sector EXCEPT ![req[c].blob] = [@ EXCEPT ![1] = req[c].data]]
  /\ UNCHANGED <<flash, req, remaining, mutex, core1, boot, s_config>>

UpdateBlobInSector(c) ==
  /\ Step(c, "update_blob", "erase")
  /\ sector' = [sector EXCEPT ![req[c].blob] = Whole(req[c].data)]
  /\ UNCHANGED <<flash, req, remaining, mutex, core1, boot, s_config>>

\* erase(sector_id): interrupts off, flash_range_erase, interrupts on.
EraseSectorBegin(c) ==
  /\ Step(c, "erase", "erasing")
  /\ flash' = [b \in Slots |-> IF b \in DOMAIN sector THEN Blank ELSE flash[b]]
  /\ UNCHANGED <<sector, req, remaining, mutex, core1, boot, s_config>>

EraseSectorEnd(c) ==
  /\ Step(c, "erasing", "save_sector")
  /\ UNCHANGED <<flash, sector, req, remaining, mutex, core1, boot, s_config>>

\* save_sector: interrupts off, flash_range_program page by page upwards.
SaveSectorBegin(c) ==
  /\ Step(c, "save_sector", "programming")
  /\ remaining' = (DOMAIN sector) \X Page
  /\ UNCHANGED <<flash, sector, req, mutex, core1, boot, s_config>>

Lowest(pg) ==
  \A q \in remaining : pg[1] < q[1] \/ (pg[1] = q[1] /\ pg[2] <= q[2])

ProgramPage(c) ==
  /\ pc[c] = "programming"
  /\ \E pg \in remaining :
       /\ Lowest(pg)
       /\ flash' = [flash EXCEPT ![pg[1]] = [@ EXCEPT ![pg[2]] = sector[pg[1]][pg[2]]]]
       /\ remaining' = remaining \ {pg}
  /\ UNCHANGED <<sector, pc, req, mutex, core1, boot, s_config>>

SaveSectorEnd(c) ==
  /\ remaining = {}
  /\ Step(c, "programming", "mutex_exit")
  /\ UNCHANGED <<flash, sector, req, remaining, mutex, core1, boot, s_config>>

\* Storage::erase(): the whole area in one critical section, sector by sector.
EraseAllEnter(c) ==
  /\ mutex = "free"
  /\ mutex' = "core0"
  /\ Step(c, "wipe_enter", "wipe")
  /\ UNCHANGED <<flash, sector, req, remaining, core1, boot, s_config>>

\* Interrupts are off only from here on.
EraseAllBegin(c) ==
  /\ Step(c, "wipe", "wiping")
  /\ remaining' = Slots \X Page
  /\ UNCHANGED <<flash, sector, req, mutex, core1, boot, s_config>>

EraseAllSector(c) ==
  /\ pc[c] = "wiping"
  /\ \E pg \in remaining :
       /\ Lowest(pg)
       /\ flash' = [b \in Slots |-> IF SectorOf(b) = SectorOf(pg[1]) THEN Blank ELSE flash[b]]
       /\ remaining' = {q \in remaining : SectorOf(q[1]) # SectorOf(pg[1])}
  /\ UNCHANGED <<sector, pc, req, mutex, core1, boot, s_config>>

EraseAllEnd(c) ==
  /\ remaining = {}
  /\ Step(c, "wiping", "mutex_exit")
  /\ UNCHANGED <<flash, sector, req, remaining, mutex, core1, boot, s_config>>

\* Bug: an early return leaves the mutex taken.
MutexExitForgotten(c) ==
  /\ Step(c, "mutex_exit", "idle")
  /\ UNCHANGED <<flash, sector, req, remaining, mutex, core1, boot, s_config>>

MutexExit(c) ==
  /\ Step(c, "mutex_exit", "idle")
  /\ mutex' = "free"
  /\ UNCHANGED <<flash, sector, req, remaining, core1, boot, s_config>>
-----------------------------------------------------------------------------
\* Bug: leds_task runs without the mutex.
LedsEnterUnlocked ==
  /\ boot = "done" /\ core1 = "sleep"
  /\ core1' = "leds_task"
  /\ UNCHANGED <<flash, sector, pc, req, remaining, mutex, boot, s_config>>

\* leds_task_on_core1: the mutex around leds_task, then 80 ms of sleep.
LedsEnter ==
  /\ boot = "done" /\ core1 = "sleep" /\ mutex = "free"
  /\ mutex' = "core1"
  /\ core1' = "leds_task"
  /\ UNCHANGED <<flash, sector, pc, req, remaining, boot, s_config>>

LedsExit ==
  /\ core1 = "leds_task"
  /\ mutex' = "free"
  /\ core1' = "sleep"
  /\ UNCHANGED <<flash, sector, pc, req, remaining, boot, s_config>>

\* Power is cut and comes back: flash keeps what it holds at that moment.
PowerLoss ==
  /\ PowerMayFail
  /\ \A p \in Page : flash[STORAGE_CONFIG][p] < MaxData
  /\ pc' = [c \in Contexts |-> "idle"]
  /\ req' = [c \in Contexts |-> [blob |-> 0, data |-> 0]]
  /\ sector' = [b \in {} |-> Blank]
  /\ remaining' = {}
  /\ mutex' = "free"
  /\ core1' = "sleep"
  /\ boot' = "start"
  /\ s_config' = 0
  /\ UNCHANGED flash

SaveStep(c) ==
  \/ ReadSector(c) \/ UpdateBlobInSector(c)
  \/ EraseSectorBegin(c) \/ EraseSectorEnd(c)
  \/ SaveSectorBegin(c) \/ ProgramPage(c) \/ SaveSectorEnd(c)
  \/ EraseAllBegin(c) \/ EraseAllSector(c) \/ EraseAllEnd(c)
  \/ MutexExit(c)

Next ==
  \/ BootLoad \/ BootCount \/ BootDone
  \/ \E b \in ThreadBlobs, v \in Data : ThreadSave(b, v)
  \/ \E b \in TickBlobs, v \in Data : TickSave(b, v)
  \/ CallErase
  \/ \E c \in Contexts : MutexEnter(c) \/ EraseAllEnter(c) \/ SaveStep(c)
  \/ LedsEnter \/ LedsExit
  \/ PowerLoss

Spec == Init /\ [][Next]_vars

(***************************************************************************)
(* Both cores execute: a context inside Storage and leds_task go on.       *)
(* Core 1 sleeps 80 ms between two leds_task and core 0 spins on the       *)
(* mutex, so core 0 finds it free again and again: strong fairness.  Core  *)
(* 1 has no such guarantee against a core 0 that saves all the time.       *)
(***************************************************************************)
Fairness ==
  /\ WF_vars(BootLoad) /\ WF_vars(BootCount) /\ WF_vars(BootDone)
  /\ \A c \in Contexts : /\ SF_vars(MutexEnter(c))
                         /\ SF_vars(EraseAllEnter(c))
                         /\ WF_vars(SaveStep(c))
  /\ WF_vars(LedsExit)

FairSpec == Spec /\ Fairness
-----------------------------------------------------------------------------
PcValue ==
  {"idle", "mutex_enter", "read_sector", "update_blob", "erase", "erasing",
   "save_sector", "programming", "mutex_exit", "wipe_enter", "wipe", "wiping"}

TypeOK ==
  /\ flash \in [Slots -> Content]
  /\ DOMAIN sector \subseteq Slots
  /\ \A b \in DOMAIN sector : sector[b] \in Content
  /\ pc \in [Contexts -> PcValue]
  /\ req \in [Contexts -> [blob : Slots \cup {AllSlots}, data : Data]]
  /\ remaining \subseteq Slots \X Page
  /\ mutex \in {"free", "core0", "core1"}
  /\ core1 \in {"sleep", "leds_task"}
  /\ boot \in {"start", "factory_init", "count", "done"}
  /\ s_config \in Data

\* Core 1 executes leds_task from flash and reads the key configuration: it
\* must never do so while core 0 has the flash switched to erase or program.
LedsNeverDuringFlashWrite == FlashBusy => core1 = "sleep"

\* At most one context is inside the critical section, so the RAM image of the
\* sector is never shared by two saves, even when the timer interrupt comes
\* in the middle of a save of the main loop.
OneSaver == \A c, d \in Contexts : Holding(c) /\ Holding(d) => c = d

\* The contents of the slots as a client sees them: from the start of the erase
\* the save is decided, and its image is the RAM copy of the sector.
InRewrite(b) ==
  /\ b \in DOMAIN sector
  /\ \E c \in Contexts : pc[c] \in {"erasing", "save_sector", "programming"}
Store == [b \in Slots |-> IF InRewrite(b) THEN sector[b] ELSE flash[b]]

OpStatus(c) ==
  CASE pc[c] = "idle" -> "idle"
    [] pc[c] \in {"mutex_enter", "read_sector", "update_blob", "erase",
                  "wipe_enter", "wipe", "wiping"}
         -> "called"
    [] OTHER -> "done"
Ops == [c \in Contexts |->
          IF pc[c] = "idle" THEN [st |-> "idle", blob |-> 0, data |-> 0]
          ELSE [st |-> OpStatus(c), blob |-> req[c].blob, data |-> req[c].data]]

BS == INSTANCE BlobStore WITH store <- Store, op <- Ops

\* A save replaces exactly its blob, atomically, between its call and its return,
\* whatever interleaves; a power loss damages only the sector being rewritten.
ImplementsBlobStore == BS!Spec

\* Every save_blob or erase returns.
SaveReturns == \A c \in Contexts : pc[c] # "idle" ~> pc[c] = "idle"
=============================================================================
