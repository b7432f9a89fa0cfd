---------------------------- MODULE StorageProofs ----------------------------
(***************************************************************************)
(* What TLAPS proves of Storage for every number of slots, sectors and     *)
(* pages: types, the two exclusions that g_mutex is there for, and that    *)
(* Storage implements BlobStore.                                           *)
(***************************************************************************)
EXTENDS Storage, TLAPS

\* g_mutex is owned by the core that is inside its critical section.
MutexOwner ==
  /\ mutex = "core1" <=> core1 = "leds_task"
  /\ \A c \in Contexts : Holding(c) => mutex = "core0"

\* The pages still to program belong to the sector whose image is in RAM.
RemainingInSector ==
  \A c \in Contexts : pc[c] = "programming" => remaining \subseteq (DOMAIN sector) \X Page

\* Nothing runs before Storage::init, and the boot counter fits its bound.
BootInv ==
  /\ boot = "start" => /\ \A c \in Contexts : pc[c] = "idle"
                       /\ flash[STORAGE_CONFIG][1] < MaxData
  /\ boot = "factory_init" => s_config = 0

IInv == TypeOK /\ MutexOwner /\ OneSaver /\ RemainingInSector /\ BootInv

LEMMA ConstantFacts ==
  /\ STORAGE_CONFIG \in Slots /\ 1 \in Page /\ 0 \in Data /\ 1 \in Data
  /\ AllSlots \in Int /\ "thread" \in Contexts /\ Erased \notin Data
  /\ ThreadBlobs \subseteq Slots /\ TickBlobs \subseteq Slots
BY StorageConstants DEF STORAGE_CONFIG, Slots, Page, Data, AllSlots, Erased

LEMMA WholeIsContent == \A v \in Data : Whole(v) \in Content
BY DEF Whole, Content

LEMMA BlankIsContent == Blank \in Content
BY DEF Blank, Content

\* A call of save_blob changes only its context's control and arguments.
LEMMA CallSaveIInv ==
  ASSUME IInv, NEW c \in Contexts, NEW b \in Slots, NEW v \in Data, CallSave(c, b, v),
         boot' \in {"factory_init", "count", "done"}, s_config' \in Data,
         boot' = "factory_init" => s_config' = 0
  PROVE  IInv'
BY DEF CallSave, Step, IInv, TypeOK, PcValue, MutexOwner, OneSaver, RemainingInSector,
       BootInv, Holding

LEMMA InitIInv == Init => IInv
BY ConstantFacts, BlankIsContent, StorageConstants
   DEF Init, IInv, TypeOK, MutexOwner, OneSaver, RemainingInSector, BootInv,
       Holding, PcValue, Slots, Blank, Erased

\* The main loop calls into Storage at boot.
LEMMA BootIInv ==
  ASSUME IInv, BootLoad \/ BootCount \/ BootDone
  PROVE  IInv'
<1> USE ConstantFacts
<1>1. CASE BootLoad
  <2> DEFINE stored == flash[STORAGE_CONFIG]
  <2>1. stored[1] \in Data \cup {Erased} /\ stored[1] < MaxData
    BY <1>1 DEF IInv, TypeOK, Content, BootInv, BootLoad
  <2>2. CASE MagicMissing(stored)
    BY <1>1, <2>2, CallSaveIInv DEF BootLoad
  <2>3. CASE ~MagicMissing(stored)
    <3>1. stored[1] + 1 \in Data
      BY <2>1, <2>3, StorageConstants DEF MagicMissing, Data
    <3> QED BY <1>1, <2>3, <3>1, CallSaveIInv DEF BootLoad
  <2> QED BY <2>2, <2>3
<1>2. CASE BootCount
  <2>1. CallSave("thread", STORAGE_CONFIG, 1) /\ s_config' = 1 /\ boot' = "count"
    BY <1>2 DEF BootCount, IInv, BootInv
  <2> QED BY <2>1, CallSaveIInv
<1>3. CASE BootDone
  BY <1>3 DEF BootDone, IInv, TypeOK, MutexOwner, OneSaver, RemainingInSector, BootInv, Holding
<1> QED BY <1>1, <1>2, <1>3

\* The main loop or the timer interrupt calls save_blob or erase.
LEMMA CallIInv ==
  ASSUME IInv,
         \/ \E b \in ThreadBlobs, v \in Data : ThreadSave(b, v)
         \/ \E b \in TickBlobs, v \in Data : TickSave(b, v)
         \/ CallErase
  PROVE  IInv'
<1> USE ConstantFacts
<1>1. CASE \E b \in ThreadBlobs, v \in Data : ThreadSave(b, v)
  BY <1>1, CallSaveIInv DEF ThreadSave, IInv, TypeOK
<1>2. CASE \E b \in TickBlobs, v \in Data : TickSave(b, v)
  BY <1>2, CallSaveIInv DEF TickSave, IInv, TypeOK
<1>3. CASE CallErase
  BY <1>3 DEF CallErase, Step, IInv, TypeOK, PcValue, MutexOwner, OneSaver, RemainingInSector,
              BootInv, Holding
<1> QED BY <1>1, <1>2, <1>3

\* Entering and leaving the critical section, on both cores.
LEMMA MutexIInv ==
  ASSUME IInv,
         \/ \E c \in Contexts : MutexEnter(c) \/ EraseAllEnter(c) \/ MutexExit(c)
         \/ LedsEnter \/ LedsExit
  PROVE  IInv'
<1> USE ConstantFacts DEF IInv, TypeOK, PcValue, MutexOwner, OneSaver, RemainingInSector,
                          BootInv, Holding, Step
<1>1. ASSUME NEW c \in Contexts, MutexEnter(c) PROVE IInv'
  BY <1>1 DEF MutexEnter
<1>2. ASSUME NEW c \in Contexts, EraseAllEnter(c) PROVE IInv'
  BY <1>2 DEF EraseAllEnter
<1>3. ASSUME NEW c \in Contexts, MutexExit(c) PROVE IInv'
  BY <1>3 DEF MutexExit
<1>4. CASE LedsEnter
  BY <1>4 DEF LedsEnter
<1>5. CASE LedsExit
  BY <1>5 DEF LedsExit
<1> QED BY <1>1, <1>2, <1>3, <1>4, <1>5

\* Inside the critical section: the sector image, the erase and the program.
LEMMA SaveStepIInv ==
  ASSUME IInv, NEW c \in Contexts, SaveStep(c)
  PROVE  IInv'
<1> USE ConstantFacts DEF IInv, TypeOK, PcValue, MutexOwner, OneSaver, RemainingInSector,
                          BootInv, Holding, Step
<1>1. CASE ReadSector(c)
  <2>1. sector' = [b \in SlotsIn(SectorOf(req[c].blob)) |-> flash[b]]
    BY <1>1 DEF ReadSector
  <2>2. SlotsIn(SectorOf(req[c].blob)) \subseteq Slots
    BY DEF SlotsIn
  <2>3. \A d \in Contexts : pc'[d] # "programming"
    BY <1>1 DEF ReadSector
  <2> QED BY <1>1, <2>1, <2>2, <2>3 DEF ReadSector
<1>2. CASE UpdateBlobInSector(c)
  <2>1. Whole(req[c].data) \in Content
    BY WholeIsContent
  <2>2. \A d \in Contexts : pc'[d] # "programming"
    BY <1>2 DEF UpdateBlobInSector
  <2> QED BY <1>2, <2>1, <2>2 DEF UpdateBlobInSector
<1>3. CASE EraseSectorBegin(c)
  BY <1>3, BlankIsContent DEF EraseSectorBegin
<1>4. CASE EraseSectorEnd(c)
  BY <1>4 DEF EraseSectorEnd
<1>5. CASE SaveSectorBegin(c)
  BY <1>5 DEF SaveSectorBegin
<1>6. CASE ProgramPage(c)
  <2>1. PICK pg \in remaining :
          /\ flash' = [flash EXCEPT ![pg[1]] = [@ EXCEPT ![pg[2]] = sector[pg[1]][pg[2]]]]
          /\ remaining' = remaining \ {pg}
    BY <1>6 DEF ProgramPage
  <2>2. pg[1] \in DOMAIN sector /\ pg[2] \in Page
    BY <1>6 DEF ProgramPage
  <2>3. sector[pg[1]][pg[2]] \in Data \cup {Erased}
    BY <2>2 DEF Content
  <2>4. flash' \in [Slots -> Content]
    BY <2>1, <2>2, <2>3 DEF Content
  <2>5. boot # "start"
    BY <1>6 DEF ProgramPage
  <2> QED BY <1>6, <2>1, <2>4, <2>5 DEF ProgramPage
<1>7. CASE SaveSectorEnd(c)
  BY <1>7 DEF SaveSectorEnd
<1>8. CASE EraseAllSector(c)
  <2>1. flash' \in [Slots -> Content] /\ remaining' \subseteq remaining
    BY <1>8, BlankIsContent DEF EraseAllSector
  <2>2. boot # "start"
    BY <1>8 DEF EraseAllSector
  <2> QED BY <1>8, <2>1, <2>2 DEF EraseAllSector
<1>9. CASE EraseAllEnd(c)
  BY <1>9 DEF EraseAllEnd
<1>10. CASE MutexExit(c)
  BY <1>10, MutexIInv
<1>11. CASE EraseAllBegin(c)
  BY <1>11 DEF EraseAllBegin
<1> QED BY <1>1, <1>2, <1>3, <1>4, <1>5, <1>6, <1>7, <1>8, <1>9, <1>10, <1>11 DEF SaveStep

LEMMA PowerLossIInv ==
  ASSUME IInv, PowerLoss
  PROVE  IInv'
BY ConstantFacts
   DEF PowerLoss, IInv, TypeOK, PcValue, MutexOwner, OneSaver, RemainingInSector, BootInv,
       Holding, STORAGE_CONFIG

LEMMA NextIInv == IInv /\ [Next]_vars => IInv'
<1> SUFFICES ASSUME IInv, [Next]_vars PROVE IInv'
  OBVIOUS
<1>1. CASE UNCHANGED vars
  BY <1>1 DEF vars, IInv, TypeOK, MutexOwner, OneSaver, RemainingInSector, BootInv, Holding
<1>2. CASE Next
  BY <1>2, BootIInv, CallIInv, MutexIInv, SaveStepIInv, PowerLossIInv DEF Next
<1> QED BY <1>1, <1>2

\* The state of Storage keeps its types, whatever interleaves and whenever power
\* is lost: the sector image covers whole slots and the counters their bounds.
THEOREM SpecTypeOK == Spec => []TypeOK
<1>1. IInv => TypeOK
  BY DEF IInv
<1> QED BY <1>1, InitIInv, NextIInv, PTL DEF Spec

\* Core 1 never executes from flash, nor reads the key configuration, while core
\* 0 erases or programs it: the reason for g_mutex around leds_task.
THEOREM SpecLedsNeverDuringFlashWrite == Spec => []LedsNeverDuringFlashWrite
<1>1. IInv => LedsNeverDuringFlashWrite
  BY DEF IInv, TypeOK, MutexOwner, LedsNeverDuringFlashWrite, FlashBusy, Holding
<1> QED BY <1>1, InitIInv, NextIInv, PTL DEF Spec

\* The RAM image of the sector belongs to one save at a time, even when the timer
\* interrupt calls save_blob in the middle of a save of the main loop.
THEOREM SpecOneSaver == Spec => []OneSaver
<1>1. IInv => OneSaver
  BY DEF IInv
<1> QED BY <1>1, InitIInv, NextIInv, PTL DEF Spec
-----------------------------------------------------------------------------
(***************************************************************************)
(* Storage implements BlobStore.  A save is committed when the erase of    *)
(* its sector starts: from there to its end the contents of the sector     *)
(* are those of the image in RAM, so the proof has to know, at every       *)
(* control point, how image and flash compare page by page.                *)
(***************************************************************************)
Rewriting == {"erasing", "save_sector", "programming"}

\* A save is of a slot, and only erase() takes all of them.
ArgumentInv(c) ==
  /\ pc[c] \in {"mutex_enter", "read_sector", "update_blob", "erase"} \cup Rewriting
       => req[c].blob \in Slots
  /\ pc[c] \in {"wipe_enter", "wipe", "wiping"} => req[c].blob = AllSlots

\* The image is the sector's: as flash holds it, then with the new version of the
\* blob that is saved.
ImageInv(c) ==
  /\ pc[c] \in {"update_blob", "erase"} \cup Rewriting
       => DOMAIN sector = SlotsIn(SectorOf(req[c].blob))
  /\ pc[c] = "update_blob" => \A b \in DOMAIN sector : sector[b] = flash[b]
  /\ pc[c] = "erase"
       => \A b \in DOMAIN sector : b # req[c].blob => sector[b] = flash[b]
  /\ pc[c] \in {"erase"} \cup Rewriting => sector[req[c].blob] = Whole(req[c].data)

\* Flash follows the image page by page, and holds the new version at the end.
FlashInv(c) ==
  /\ pc[c] \in {"erasing", "save_sector"} => \A b \in DOMAIN sector : flash[b] = Blank
  /\ pc[c] = "programming"
       => \A b \in DOMAIN sector, p \in Page :
            flash[b][p] = IF <<b, p>> \in remaining THEN Erased ELSE sector[b][p]
  /\ pc[c] = "wiping"
       => \A b \in Slots, p \in Page : <<b, p>> \notin remaining => flash[b][p] = Erased
  /\ pc[c] = "mutex_exit"
       => IF req[c].blob \in Slots THEN flash[req[c].blob] = Whole(req[c].data)
          ELSE \A b \in Slots : flash[b] = Blank

PagesOf(c) == ArgumentInv(c) /\ ImageInv(c) /\ FlashInv(c)
PagesInv   == \A c \in Contexts : PagesOf(c)

LEMMA InitPagesInv == Init => PagesInv
BY DEF Init, PagesInv, PagesOf, ArgumentInv, ImageInv, FlashInv, Rewriting

LEMMA AllSlotsNoSlot == AllSlots \notin Slots
BY StorageConstants DEF AllSlots, Slots

\* Two contents are equal when their pages are.
LEMMA SamePages ==
  ASSUME NEW x \in Content, NEW y \in Content, \A p \in Page : x[p] = y[p]
  PROVE  x = y
BY DEF Content

\* While c is in the critical section no other context is past its call.
LEMMA OnlySaver ==
  ASSUME IInv, NEW c \in Contexts, Holding(c)
  PROVE  \A d \in Contexts \ {c} : pc[d] \in {"idle", "mutex_enter", "wipe_enter"}
BY DEF IInv, OneSaver, Holding

\* A call touches neither the image nor flash, so nothing of another save.
LEMMA CallPages ==
  ASSUME IInv, PagesInv, NEW c \in Contexts, NEW p \in {"mutex_enter", "wipe_enter"},
         NEW b, NEW v,
         IF p = "mutex_enter" THEN b \in Slots ELSE b = AllSlots,
         pc' = [pc EXCEPT ![c] = p],
         req' = [req EXCEPT ![c] = [blob |-> b, data |-> v]],
         UNCHANGED <<flash, sector, remaining>>
  PROVE  PagesInv'
<1>1. pc \in [Contexts -> PcValue] /\ DOMAIN req = Contexts
  BY DEF IInv, TypeOK
<1>2. pc'[c] = p /\ req'[c].blob = b
  BY <1>1
<1>3. PagesOf(c)'
  BY <1>2 DEF PagesOf, ArgumentInv, ImageInv, FlashInv, Rewriting
<1>4. ASSUME NEW d \in Contexts, d # c PROVE PagesOf(d)'
  <2>1. pc'[d] = pc[d] /\ req'[d] = req[d] /\ PagesOf(d)
    BY <1>1, <1>4 DEF PagesInv
  <2> QED BY <2>1 DEF PagesOf, ArgumentInv, ImageInv, FlashInv
<1> QED BY <1>3, <1>4 DEF PagesInv

\* What a step of c leaves to show, once the mutex keeps the other contexts out.
LEMMA SaverPages ==
  ASSUME PagesInv, NEW c \in Contexts, DOMAIN pc = Contexts, NEW p,
         pc' = [pc EXCEPT ![c] = p], req' = req,
         \A d \in Contexts \ {c} : pc[d] \in {"idle", "mutex_enter", "wipe_enter"},
         PagesOf(c)'
  PROVE  PagesInv'
<1>1. ASSUME NEW d \in Contexts, d # c PROVE PagesOf(d)'
  <2>1. pc'[d] = pc[d] /\ req'[d] = req[d] /\ PagesOf(d)
    BY <1>1 DEF PagesInv
  <2> QED BY <2>1, <1>1 DEF PagesOf, ArgumentInv, ImageInv, FlashInv, Rewriting
<1> QED BY <1>1 DEF PagesInv

LEMMA EnterPages ==
  ASSUME IInv, PagesInv, NEW c \in Contexts, MutexEnter(c) \/ EraseAllEnter(c)
  PROVE  PagesInv'
<1>1. PICK p \in {"read_sector", "wipe"} :
        /\ pc[c] = IF p = "wipe" THEN "wipe_enter" ELSE "mutex_enter"
        /\ pc' = [pc EXCEPT ![c] = p] /\ req' = req /\ mutex = "free"
  BY DEF MutexEnter, EraseAllEnter, Step
<1>2. \A d \in Contexts : ~Holding(d)
  BY <1>1 DEF IInv, MutexOwner
<1>3. \A d \in Contexts : pc[d] \in {"idle", "mutex_enter", "wipe_enter"}
  BY <1>2 DEF Holding
<1>4. DOMAIN pc = Contexts /\ pc'[c] = p /\ req'[c] = req[c] /\ ArgumentInv(c)
  BY <1>1 DEF IInv, TypeOK, PagesInv, PagesOf
<1>5. PagesOf(c)'
  BY <1>1, <1>4 DEF PagesOf, ArgumentInv, ImageInv, FlashInv, Rewriting
<1> QED BY <1>1, <1>3, <1>4, <1>5, SaverPages

LEMMA SaveStepPages ==
  ASSUME IInv, PagesInv, NEW c \in Contexts, SaveStep(c)
  PROVE  PagesInv'
<1>a. /\ flash \in [Slots -> Content] /\ DOMAIN sector \subseteq Slots
      /\ \A b \in DOMAIN sector : sector[b] \in Content
      /\ req[c].data \in Data /\ pc \in [Contexts -> PcValue]
      /\ ArgumentInv(c) /\ ImageInv(c) /\ FlashInv(c)
  BY DEF IInv, TypeOK, PagesInv, PagesOf
<1>b. ASSUME Holding(c), NEW p, pc' = [pc EXCEPT ![c] = p], req' = req,
             pc'[c] = p => PagesOf(c)'
      PROVE  PagesInv'
  BY <1>a, <1>b, OnlySaver, SaverPages
<1>c. Blank \in Content /\ \A p \in Page : Blank[p] = Erased
  BY BlankIsContent DEF Blank
<1> USE DEF PagesOf, ArgumentInv, ImageInv, FlashInv, Rewriting, Holding
<1>1. CASE ReadSector(c)
  BY <1>1, <1>a, <1>b DEF ReadSector, Step
<1>2. CASE UpdateBlobInSector(c)
  <2>1. /\ pc[c] = "update_blob" /\ pc' = [pc EXCEPT ![c] = "erase"]
        /\ sector' = [sector EXCEPT ![req[c].blob] = Whole(req[c].data)]
        /\ UNCHANGED <<flash, req>>
    BY <1>2 DEF UpdateBlobInSector, Step
  <2>2. req[c].blob \in DOMAIN sector
    BY <2>1, <1>a DEF SlotsIn
  <2>3. /\ DOMAIN sector' = DOMAIN sector /\ sector'[req[c].blob] = Whole(req[c].data)
        /\ \A b \in DOMAIN sector : b # req[c].blob => sector'[b] = flash[b]
    BY <2>1, <2>2, <1>a
  <2> QED BY <2>1, <2>3, <1>a, <1>b
<1>3. CASE EraseSectorBegin(c)
  BY <1>3, <1>a, <1>b DEF EraseSectorBegin, Step
<1>4. CASE EraseSectorEnd(c)
  BY <1>4, <1>a, <1>b DEF EraseSectorEnd, Step
<1>5. CASE SaveSectorBegin(c)
  BY <1>5, <1>a, <1>b, <1>c DEF SaveSectorBegin, Step
<1>6. CASE ProgramPage(c)
  <2>1. PICK pg \in remaining :
          /\ flash' = [flash EXCEPT ![pg[1]] = [@ EXCEPT ![pg[2]] = sector[pg[1]][pg[2]]]]
          /\ remaining' = remaining \ {pg}
    BY <1>6 DEF ProgramPage
  <2>2. pc[c] = "programming" /\ UNCHANGED <<sector, pc, req>>
    BY <1>6 DEF ProgramPage
  <2>3. pg = <<pg[1], pg[2]>> /\ pg[1] \in DOMAIN sector /\ pg[2] \in Page
    BY <2>1, <2>2 DEF IInv, RemainingInSector
  <2>4. ASSUME NEW b \in DOMAIN sector, NEW p \in Page
        PROVE  flash'[b][p] = IF <<b, p>> \in remaining' THEN Erased ELSE sector[b][p]
    <3>1. /\ flash[b][p] = IF <<b, p>> \in remaining THEN Erased ELSE sector[b][p]
          /\ flash[b] \in Content /\ b \in Slots
      BY <1>a, <2>2
    <3>2. CASE pg = <<b, p>>
      <4>1. flash'[b] = [flash[b] EXCEPT ![p] = sector[b][p]]
        BY <2>1, <3>1, <3>2, <1>a
      <4> QED BY <2>1, <3>1, <3>2, <4>1 DEF Content
    <3>3. CASE pg # <<b, p>>
      <4>1. flash'[b][p] = flash[b][p]
        BY <2>1, <2>3, <3>1, <3>3, <1>a DEF Content
      <4> QED BY <2>1, <3>1, <3>3, <4>1
    <3> QED BY <3>2, <3>3
  <2>5. pc' = [pc EXCEPT ![c] = "programming"]
    BY <2>2, <1>a
  <2>6. PagesOf(c)'
    BY <2>2, <2>4, <1>a
  <2> QED BY <2>2, <2>5, <2>6, <1>b
<1>7. CASE SaveSectorEnd(c)
  <2>1. /\ pc[c] = "programming" /\ pc' = [pc EXCEPT ![c] = "mutex_exit"]
        /\ remaining = {} /\ UNCHANGED <<flash, sector, req>>
    BY <1>7 DEF SaveSectorEnd, Step
  <2>2. req[c].blob \in DOMAIN sector /\ req[c].blob \in Slots
    BY <2>1, <1>a DEF SlotsIn
  <2>3. flash[req[c].blob] = Whole(req[c].data)
    BY <2>1, <2>2, <1>a, SamePages
  <2> QED BY <2>1, <2>2, <2>3, <1>b
<1>8. CASE EraseAllSector(c)
  <2>1. PICK pg \in remaining :
          /\ flash' = [b \in Slots |-> IF SectorOf(b) = SectorOf(pg[1]) THEN Blank ELSE flash[b]]
          /\ remaining' = {q \in remaining : SectorOf(q[1]) # SectorOf(pg[1])}
    BY <1>8 DEF EraseAllSector
  <2>2. pc[c] = "wiping" /\ UNCHANGED <<sector, pc, req>>
    BY <1>8 DEF EraseAllSector
  <2>3. ASSUME NEW b \in Slots, NEW p \in Page, <<b, p>> \notin remaining'
        PROVE  flash'[b][p] = Erased
    <3>1. CASE SectorOf(b) = SectorOf(pg[1])
      BY <2>1, <3>1, <1>c
    <3>2. CASE SectorOf(b) # SectorOf(pg[1])
      BY <2>1, <2>2, <2>3, <3>2, <1>a
    <3> QED BY <3>1, <3>2
  <2>4. pc' = [pc EXCEPT ![c] = "wiping"]
    BY <2>2, <1>a
  <2>5. PagesOf(c)'
    BY <2>2, <2>3, <1>a
  <2> QED BY <2>2, <2>4, <2>5, <1>b
<1>9. CASE EraseAllEnd(c)
  <2>1. /\ pc[c] = "wiping" /\ pc' = [pc EXCEPT ![c] = "mutex_exit"]
        /\ remaining = {} /\ UNCHANGED <<flash, sector, req>>
    BY <1>9 DEF EraseAllEnd, Step
  <2>2. \A b \in Slots : flash[b] = Blank
    BY <2>1, <1>a, <1>c, SamePages
  <2> QED BY <2>1, <2>2, <1>a, <1>b, AllSlotsNoSlot
<1>10. CASE MutexExit(c)
  BY <1>10, <1>b DEF MutexExit, Step
<1>11. CASE EraseAllBegin(c)
  BY <1>11, <1>a, <1>b DEF EraseAllBegin, Step
<1> QED BY <1>1, <1>2, <1>3, <1>4, <1>5, <1>6, <1>7, <1>8, <1>9, <1>10, <1>11 DEF SaveStep

LEMMA NextPagesInv == IInv /\ PagesInv /\ [Next]_vars => PagesInv'
<1> SUFFICES ASSUME IInv, PagesInv, [Next]_vars PROVE PagesInv'
  OBVIOUS
<1> USE ConstantFacts
<1>1. CASE UNCHANGED <<flash, sector, pc, req, remaining>>
  BY <1>1 DEF PagesInv, PagesOf, ArgumentInv, ImageInv, FlashInv
<1>2. ASSUME NEW c \in Contexts, NEW b \in Slots, NEW v, CallSave(c, b, v) PROVE PagesInv'
  BY <1>2, CallPages DEF CallSave, Step
<1>3. CASE BootLoad \/ BootCount
  BY <1>2, <1>3 DEF BootLoad, BootCount
<1>4. CASE \/ \E b \in ThreadBlobs, v \in Data : ThreadSave(b, v)
           \/ \E b \in TickBlobs, v \in Data : TickSave(b, v)
  BY <1>2, <1>4 DEF ThreadSave, TickSave
<1>5. CASE CallErase
  BY <1>5, CallPages DEF CallErase, Step
<1>6. CASE PowerLoss
  BY <1>6 DEF PowerLoss, PagesInv, PagesOf, ArgumentInv, ImageInv, FlashInv, Rewriting
<1>7. CASE BootDone \/ LedsEnter \/ LedsExit \/ UNCHANGED vars
  BY <1>1, <1>7 DEF BootDone, LedsEnter, LedsExit, vars
<1> QED BY <1>3, <1>4, <1>5, <1>6, <1>7, EnterPages, SaveStepPages DEF Next
-----------------------------------------------------------------------------
LEMMA SameDefinitions ==
  /\ BS!Slots = Slots /\ BS!Page = Page /\ BS!Content = Content /\ BS!Blank = Blank
  /\ BS!Erased = Erased /\ BS!AllSlots = AllSlots
  /\ \A v : BS!Whole(v) = Whole(v)
  /\ \A b : BS!SectorOf(b) = SectorOf(b)
BY DEF BS!Slots, BS!Page, BS!Content, BS!Blank, BS!Erased, BS!AllSlots, BS!Whole, BS!SectorOf,
       Slots, Page, Content, Blank, Erased, AllSlots, Whole, SectorOf

\* The calls that are not committed yet, and those that are.
Called ==
  {"mutex_enter", "read_sector", "update_blob", "erase", "wipe_enter", "wipe", "wiping"}
Done   == {"mutex_exit"} \cup Rewriting

\* What a client sees of the calls, in one case analysis of the control points.
LEMMA OpOf ==
  ASSUME NEW c \in Contexts
  PROVE  /\ pc[c] = "idle" => Ops[c] = [st |-> "idle", blob |-> 0, data |-> 0]
         /\ pc[c] \in Called
              => Ops[c] = [st |-> "called", blob |-> req[c].blob, data |-> req[c].data]
         /\ pc[c] \in Done
              => Ops[c] = [st |-> "done", blob |-> req[c].blob, data |-> req[c].data]
<1>1. CASE pc[c] = "idle"
  BY <1>1 DEF Ops, Called, Done, Rewriting
<1>2. CASE pc[c] \in Called
  BY <1>2 DEF Ops, OpStatus, Called, Done, Rewriting
<1>3. CASE pc[c] \in Done
  BY <1>3 DEF Ops, OpStatus, Called, Done, Rewriting
<1> QED BY <1>1, <1>2, <1>3 DEF Called

LEMMA OpOfNext ==
  ASSUME NEW c \in Contexts
  PROVE  /\ pc'[c] = "idle" => Ops'[c] = [st |-> "idle", blob |-> 0, data |-> 0]
         /\ pc'[c] \in Called
              => Ops'[c] = [st |-> "called", blob |-> req'[c].blob, data |-> req'[c].data]
         /\ pc'[c] \in Done
              => Ops'[c] = [st |-> "done", blob |-> req'[c].blob, data |-> req'[c].data]
<1>1. CASE pc'[c] = "idle"
  BY <1>1 DEF Ops, Called, Done, Rewriting
<1>2. CASE pc'[c] \in Called
  BY <1>2 DEF Ops, OpStatus, Called, Done, Rewriting
<1>3. CASE pc'[c] \in Done
  BY <1>3 DEF Ops, OpStatus, Called, Done, Rewriting
<1> QED BY <1>1, <1>2, <1>3 DEF Called

\* A step that moves c alone changes no other call.
LEMMA OpsStep ==
  ASSUME NEW c \in Contexts, DOMAIN pc = Contexts, NEW p,
         pc' = [pc EXCEPT ![c] = p],
         \A d \in Contexts \ {c} : req'[d] = req[d]
  PROVE  /\ Ops' = [Ops EXCEPT ![c] = Ops'[c]]
         /\ Ops'[c] = Ops[c] => Ops' = Ops
<1>1. \A d \in Contexts \ {c} : pc'[d] = pc[d]
  OBVIOUS
<1>2. \A d \in Contexts \ {c} : Ops'[d] = Ops[d]
  BY <1>1 DEF Ops, OpStatus
<1>3. Ops = [d \in Contexts |-> Ops[d]] /\ Ops' = [d \in Contexts |-> Ops'[d]]
  BY DEF Ops
<1> QED BY <1>2, <1>3

\* Where nothing is being rewritten, a client sees what flash holds.
LEMMA StoreIsFlash ==
  ASSUME IInv, \A c \in Contexts : pc[c] \notin Rewriting
  PROVE  Store = flash
BY DEF Store, InRewrite, Rewriting, IInv, TypeOK

LEMMA StoreIsFlashNext ==
  ASSUME flash' \in [Slots -> Content], \A c \in Contexts : pc'[c] \notin Rewriting
  PROVE  Store' = flash'
BY DEF Store, InRewrite, Rewriting

LEMMA StoreType == IInv => Store \in [Slots -> Content]
BY DEF Store, InRewrite, IInv, TypeOK

LEMMA InitRefines == Init => BS!Init
<1> SUFFICES ASSUME Init PROVE BS!Init
  OBVIOUS
<1>1. Store \in [Slots -> Content]
  BY InitIInv, StoreType
<1>2. Ops = [c \in Contexts |-> [st |-> "idle", blob |-> 0, data |-> 0]]
  BY DEF Init, Ops
<1> QED BY <1>1, <1>2, SameDefinitions DEF BS!Init, BS!NoOp

\* save_blob or erase is called.
LEMMA CallRefines ==
  ASSUME IInv, NEW c \in Contexts, NEW p \in {"mutex_enter", "wipe_enter"},
         NEW b \in Slots \cup {AllSlots}, NEW v \in Data, pc[c] = "idle",
         pc' = [pc EXCEPT ![c] = p],
         req' = [req EXCEPT ![c] = [blob |-> b, data |-> v]],
         UNCHANGED <<flash, sector>>
  PROVE  BS!Call(c, b, v)
<1>1. pc \in [Contexts -> PcValue] /\ DOMAIN req = Contexts
  BY DEF IInv, TypeOK
<1>2. pc'[c] = p /\ req'[c] = [blob |-> b, data |-> v]
  BY <1>1
<1>3. Ops[c].st = "idle" /\ Ops'[c] = [st |-> "called", blob |-> b, data |-> v]
  <2>1. pc'[c] \in Called
    BY <1>2 DEF Called
  <2>2. Ops[c] = [st |-> "idle", blob |-> 0, data |-> 0]
    BY OpOf
  <2>3. Ops'[c] = [st |-> "called", blob |-> b, data |-> v]
    <3>1. Ops'[c] = [st |-> "called", blob |-> req'[c].blob, data |-> req'[c].data]
      BY <2>1, OpOfNext
    <3>2. req'[c].blob = b /\ req'[c].data = v
      BY <1>2
    <3> QED BY <3>1, <3>2
  <2> QED BY <2>2, <2>3
<1>4. Ops' = [Ops EXCEPT ![c] = [st |-> "called", blob |-> b, data |-> v]]
  <2>1. \A d \in Contexts \ {c} : req'[d] = req[d]
    BY <1>1
  <2>2. Ops' = [Ops EXCEPT ![c] = Ops'[c]]
    BY <1>1, <2>1, OpsStep
  <2> QED BY <1>3, <2>2
<1>5. \A d \in Contexts : pc'[d] \in Rewriting <=> pc[d] \in Rewriting
  BY <1>1, <1>2 DEF Rewriting
<1>6. \A x : InRewrite(x)' <=> InRewrite(x)
  BY <1>5 DEF InRewrite, Rewriting
<1>7. Store' = Store
  BY <1>6 DEF Store
<1> QED BY <1>3, <1>4, <1>7 DEF BS!Call

\* A step of a save that no client can see.
LEMMA SilentRefines ==
  ASSUME IInv, NEW c \in Contexts, NEW p, pc' = [pc EXCEPT ![c] = p], req' = req,
         \/ pc[c] \in Called /\ p \in Called
         \/ pc[c] \in Done /\ p \in Done,
         Store' = Store
  PROVE  UNCHANGED BS!vars
<1>1. DOMAIN pc = Contexts /\ pc'[c] = p
  BY DEF IInv, TypeOK
<1>2. Ops'[c] = Ops[c]
  BY <1>1, OpOf, OpOfNext
<1> QED BY <1>1, <1>2, OpsStep DEF BS!vars

\* Inside the critical section the client sees two events of a save: the commit,
\* at the erase of the sector, and the return.
LEMMA SaverRefines ==
  ASSUME IInv, PagesInv, NEW c \in Contexts, SaveStep(c)
  PROVE  \/ BS!Commit(c) \/ BS!EraseSector(c)
         \/ (BS!EraseDone(c) \/ BS!Return(c)) /\ Store' = Store
         \/ UNCHANGED BS!vars
<1>a. /\ flash \in [Slots -> Content] /\ DOMAIN sector \subseteq Slots
      /\ \A b \in DOMAIN sector : sector[b] \in Content
      /\ req[c].data \in Data /\ pc \in [Contexts -> PcValue]
      /\ ArgumentInv(c) /\ ImageInv(c) /\ FlashInv(c) /\ IInv'
  BY SaveStepIInv DEF IInv, TypeOK, PagesInv, PagesOf
<1>b. flash' \in [Slots -> Content]
  BY <1>a DEF IInv, TypeOK
<1>c. \A d \in Contexts \ {c} : pc[d] \notin Rewriting
  <2>1. Holding(c)
    BY DEF SaveStep, ReadSector, UpdateBlobInSector, EraseSectorBegin, EraseSectorEnd,
           SaveSectorBegin, ProgramPage, SaveSectorEnd, EraseAllBegin, EraseAllSector,
           EraseAllEnd,
           MutexExit, Step, Holding
  <2> QED BY <2>1, OnlySaver DEF Rewriting
<1>d. ASSUME NEW p, pc' = [pc EXCEPT ![c] = p]
      PROVE  /\ pc[c] \notin Rewriting => Store = flash
             /\ p \notin Rewriting => Store' = flash'
             /\ pc[c] \in Rewriting
                  => Store = [b \in Slots |-> IF b \in DOMAIN sector THEN sector[b] ELSE flash[b]]
             /\ p \in Rewriting
                  => Store' = [b \in Slots |-> IF b \in DOMAIN sector' THEN sector'[b] ELSE flash'[b]]
  <2>1. pc'[c] = p /\ \A d \in Contexts \ {c} : pc'[d] \notin Rewriting
    BY <1>a, <1>c, <1>d
  <2>2. (pc[c] \notin Rewriting => Store = flash) /\ (p \notin Rewriting => Store' = flash')
    BY <1>b, <1>c, <2>1, StoreIsFlash, StoreIsFlashNext
  <2>3. pc[c] \in Rewriting => \A b : InRewrite(b) <=> b \in DOMAIN sector
    BY DEF InRewrite, Rewriting
  <2>4. p \in Rewriting => \A b : InRewrite(b)' <=> b \in DOMAIN sector'
    BY <2>1 DEF InRewrite, Rewriting
  <2> QED BY <2>2, <2>3, <2>4 DEF Store
<1>e. ASSUME NEW p, pc' = [pc EXCEPT ![c] = p], req' = req, Store' = Store,
             \/ pc[c] \in Called /\ p \in Called
             \/ pc[c] \in Done /\ p \in Done
      PROVE  UNCHANGED BS!vars
  BY <1>e, SilentRefines
<1>1. CASE ReadSector(c) \/ UpdateBlobInSector(c)
  <2>1. PICK p \in {"update_blob", "erase"} :
          /\ pc[c] \in {"read_sector", "update_blob"} /\ pc' = [pc EXCEPT ![c] = p]
          /\ UNCHANGED <<flash, req>>
    BY <1>1 DEF ReadSector, UpdateBlobInSector, Step
  <2>2. Store' = Store
    BY <1>d, <2>1 DEF Rewriting
  <2> QED BY <1>e, <2>1, <2>2 DEF Called
<1>2. CASE EraseSectorBegin(c)
  <2>1. /\ pc[c] = "erase" /\ pc' = [pc EXCEPT ![c] = "erasing"] /\ UNCHANGED <<sector, req>>
        /\ flash' = [b \in Slots |-> IF b \in DOMAIN sector THEN Blank ELSE flash[b]]
    BY <1>2 DEF EraseSectorBegin, Step
  <2>2. req[c].blob \in Slots /\ req[c].blob \in DOMAIN sector
    BY <1>a, <2>1 DEF ArgumentInv, ImageInv, SlotsIn
  <2>3. /\ Store = flash
        /\ Store' = [b \in Slots |-> IF b \in DOMAIN sector THEN sector[b] ELSE flash[b]]
    BY <1>d, <2>1 DEF Rewriting
  <2>4. Store' = [Store EXCEPT ![req[c].blob] = Whole(req[c].data)]
    BY <1>a, <2>1, <2>2, <2>3 DEF ImageInv
  <2>5. /\ Ops[c] = [st |-> "called", blob |-> req[c].blob, data |-> req[c].data]
        /\ Ops'[c] = [st |-> "done", blob |-> req[c].blob, data |-> req[c].data]
        /\ Ops' = [Ops EXCEPT ![c] = Ops'[c]]
    <3>1. pc'[c] = "erasing" /\ req' = req
      BY <1>a, <2>1
    <3> QED BY <1>a, <2>1, <3>1, OpOf, OpOfNext, OpsStep DEF Called, Done, Rewriting
  <2>6. Ops' = [Ops EXCEPT ![c].st = "done"]
    BY <2>5
  <2>7. BS!Commit(c)
    <3>1. Ops[c].st = "called" /\ Ops[c].blob = req[c].blob /\ Ops[c].data = req[c].data
      BY <2>5
    <3>2. Ops[c].blob # BS!AllSlots
      BY <2>2, <3>1, SameDefinitions, AllSlotsNoSlot
    <3>3. Store' = [Store EXCEPT ![Ops[c].blob] = BS!Whole(Ops[c].data)]
      BY <2>4, <3>1, SameDefinitions
    <3> QED BY <2>6, <3>1, <3>2, <3>3 DEF BS!Commit
  <2> QED BY <2>7
<1>3. CASE EraseSectorEnd(c) \/ SaveSectorBegin(c)
  <2>1. PICK p \in {"save_sector", "programming"} :
          /\ pc[c] \in {"erasing", "save_sector"} /\ pc' = [pc EXCEPT ![c] = p]
          /\ UNCHANGED <<flash, sector, req>>
    BY <1>3 DEF EraseSectorEnd, SaveSectorBegin, Step
  <2>2. pc[c] \in Rewriting /\ p \in Rewriting
    BY <2>1 DEF Rewriting
  <2>3. Store' = Store
    <3>1. Store = [b \in Slots |-> IF b \in DOMAIN sector THEN sector[b] ELSE flash[b]]
      BY <1>d, <2>1, <2>2
    <3>2. Store' = [b \in Slots |-> IF b \in DOMAIN sector' THEN sector'[b] ELSE flash'[b]]
      BY <1>d, <2>1, <2>2
    <3> QED BY <2>1, <3>1, <3>2
  <2> QED BY <1>e, <2>1, <2>2, <2>3 DEF Done
<1>4. CASE ProgramPage(c)
  <2>1. PICK pg \in remaining :
          flash' = [flash EXCEPT ![pg[1]] = [@ EXCEPT ![pg[2]] = sector[pg[1]][pg[2]]]]
    BY <1>4 DEF ProgramPage
  <2>2. pc[c] = "programming" /\ UNCHANGED <<sector, pc, req>>
    BY <1>4 DEF ProgramPage
  <2>3. pg[1] \in DOMAIN sector /\ pc' = [pc EXCEPT ![c] = "programming"]
    BY <1>a, <2>1, <2>2 DEF IInv, RemainingInSector
  <2>4. \A b \in Slots \ DOMAIN sector : flash'[b] = flash[b]
    BY <1>a, <2>1, <2>3
  <2>5. Store' = Store
    BY <1>d, <2>2, <2>3, <2>4 DEF Rewriting
  <2> QED BY <1>e, <2>2, <2>3, <2>5 DEF Done, Rewriting
<1>5. CASE SaveSectorEnd(c)
  <2>1. /\ pc[c] = "programming" /\ pc' = [pc EXCEPT ![c] = "mutex_exit"]
        /\ remaining = {} /\ UNCHANGED <<flash, sector, req>>
    BY <1>5 DEF SaveSectorEnd, Step
  <2>2. \A b \in DOMAIN sector : flash[b] = sector[b]
    BY <1>a, <2>1, SamePages DEF FlashInv
  <2>3. /\ Store = [b \in Slots |-> IF b \in DOMAIN sector THEN sector[b] ELSE flash[b]]
        /\ Store' = flash
    <3>1. pc[c] \in Rewriting /\ "mutex_exit" \notin Rewriting
      BY <2>1 DEF Rewriting
    <3>2. Store = [b \in Slots |-> IF b \in DOMAIN sector THEN sector[b] ELSE flash[b]]
      BY <1>d, <2>1, <3>1
    <3>3. Store' = flash'
      BY <1>d, <2>1, <3>1
    <3> QED BY <2>1, <3>2, <3>3
  <2>4. Store' = Store
    BY <1>a, <2>2, <2>3
  <2> QED BY <1>e, <2>1, <2>4 DEF Done, Rewriting
<1>6. CASE EraseAllSector(c)
  <2>1. PICK pg \in remaining :
          flash' = [b \in Slots |-> IF SectorOf(b) = SectorOf(pg[1]) THEN Blank ELSE flash[b]]
    BY <1>6 DEF EraseAllSector
  <2>2. pc[c] = "wiping" /\ UNCHANGED <<sector, pc, req>> /\ pg[1] \in Slots
    BY <1>6, <2>1 DEF EraseAllSector, IInv, TypeOK
  <2>3. pc' = [pc EXCEPT ![c] = "wiping"]
    BY <1>a, <2>2
  <2>4. Store = flash /\ Store' = flash'
    BY <1>d, <2>2, <2>3 DEF Rewriting
  <2>5. /\ Ops[c] = [st |-> "called", blob |-> AllSlots, data |-> req[c].data]
        /\ Ops' = Ops
    <3>1. req[c].blob = AllSlots
      BY <1>a, <2>2 DEF ArgumentInv
    <3> QED BY <2>2, <3>1, OpOf DEF Called, Ops, OpStatus
  <2>6. BS!EraseSector(c)
    BY <2>1, <2>2, <2>4, <2>5, SameDefinitions DEF BS!EraseSector
  <2> QED BY <2>6
<1>7. CASE EraseAllEnd(c)
  <2>1. /\ pc[c] = "wiping" /\ pc' = [pc EXCEPT ![c] = "mutex_exit"]
        /\ remaining = {} /\ UNCHANGED <<flash, sector, req>>
    BY <1>7 DEF EraseAllEnd, Step
  <2>2. Store = flash /\ Store' = Store
    <3>1. pc[c] \notin Rewriting /\ "mutex_exit" \notin Rewriting
      BY <2>1 DEF Rewriting
    <3> QED BY <1>d, <2>1, <3>1
  <2>3. flash = [b \in Slots |-> Blank]
    <3>1. \A b \in Slots, p \in Page : flash[b][p] = Blank[p]
      BY <1>a, <2>1 DEF FlashInv, Blank
    <3>2. \A b \in Slots : flash[b] = Blank
      BY <1>a, <3>1, BlankIsContent, SamePages
    <3> QED BY <1>a, <3>2
  <2>4. /\ Ops[c] = [st |-> "called", blob |-> AllSlots, data |-> req[c].data]
        /\ Ops'[c] = [st |-> "done", blob |-> AllSlots, data |-> req[c].data]
        /\ Ops' = [Ops EXCEPT ![c] = Ops'[c]]
    <3>1. pc'[c] = "mutex_exit" /\ req' = req /\ req[c].blob = AllSlots
      BY <1>a, <2>1 DEF ArgumentInv
    <3> QED BY <1>a, <2>1, <3>1, OpOf, OpOfNext, OpsStep DEF Called, Done, Rewriting
  <2>5. Ops' = [Ops EXCEPT ![c].st = "done"]
    BY <2>4
  <2>6. BS!EraseDone(c)
    BY <2>2, <2>3, <2>4, <2>5, SameDefinitions DEF BS!EraseDone
  <2> QED BY <2>2, <2>6
<1>8. CASE MutexExit(c)
  <2>1. /\ pc[c] = "mutex_exit" /\ pc' = [pc EXCEPT ![c] = "idle"]
        /\ UNCHANGED <<flash, sector, req>>
    BY <1>8 DEF MutexExit, Step
  <2>2. Store' = Store
    <3>1. pc[c] \notin Rewriting /\ "idle" \notin Rewriting
      BY <2>1 DEF Rewriting
    <3> QED BY <1>d, <2>1, <3>1
  <2>3. /\ Ops[c].st = "done" /\ Ops'[c] = [st |-> "idle", blob |-> 0, data |-> 0]
        /\ Ops' = [Ops EXCEPT ![c] = Ops'[c]]
    <3>1. pc'[c] = "idle" /\ req' = req
      BY <1>a, <2>1
    <3>2. Ops[c] = [st |-> "done", blob |-> req[c].blob, data |-> req[c].data]
      BY <2>1, OpOf DEF Done
    <3>3. Ops'[c] = [st |-> "idle", blob |-> 0, data |-> 0]
      BY <3>1, OpOfNext
    <3>4. Ops' = [Ops EXCEPT ![c] = Ops'[c]]
      BY <1>a, <2>1, <3>1, OpsStep
    <3> QED BY <3>2, <3>3, <3>4
  <2>4. BS!Return(c)
    BY <2>2, <2>3 DEF BS!Return, BS!NoOp
  <2> QED BY <2>2, <2>4
<1>9. CASE EraseAllBegin(c)
  <2>1. /\ pc[c] = "wipe" /\ pc' = [pc EXCEPT ![c] = "wiping"]
        /\ UNCHANGED <<flash, sector, req>>
    BY <1>9 DEF EraseAllBegin, Step
  <2>2. Store' = Store
    <3>1. pc[c] \notin Rewriting /\ "wiping" \notin Rewriting
      BY <2>1 DEF Rewriting
    <3> QED BY <1>d, <2>1, <3>1
  <2> QED BY <1>e, <2>1, <2>2 DEF Called
<1> QED BY <1>1, <1>2, <1>3, <1>4, <1>5, <1>6, <1>7, <1>8, <1>9 DEF SaveStep

LEMMA EnterRefines ==
  ASSUME IInv, NEW c \in Contexts, MutexEnter(c) \/ EraseAllEnter(c)
  PROVE  UNCHANGED BS!vars
<1>1. PICK p \in {"read_sector", "wipe"} :
        /\ pc[c] \in {"mutex_enter", "wipe_enter"}
        /\ pc' = [pc EXCEPT ![c] = p] /\ UNCHANGED <<flash, sector, req>>
  BY DEF MutexEnter, EraseAllEnter, Step
<1>2. \A d \in Contexts : pc'[d] \in Rewriting <=> pc[d] \in Rewriting
  BY <1>1 DEF Rewriting, IInv, TypeOK
<1>3. \A b : InRewrite(b)' <=> InRewrite(b)
  BY <1>1, <1>2 DEF InRewrite, Rewriting
<1>4. Store' = Store
  BY <1>1, <1>3 DEF Store
<1> QED BY <1>1, <1>4, SilentRefines DEF Called

\* Flash keeps of a sector that is being rewritten pages of the image, which is what
\* the client saw, and erased ones: the damage that BlobStore admits.
LEMMA PowerLossRefines ==
  ASSUME IInv, PagesInv, PowerLoss
  PROVE  BS!PowerLoss
<1>1. pc' = [c \in Contexts |-> "idle"] /\ flash' = flash /\ flash \in [Slots -> Content]
  BY DEF PowerLoss, IInv, TypeOK
<1>2. Store' = flash
  BY <1>1, StoreIsFlashNext DEF Rewriting
<1>3. Ops' = [c \in Contexts |-> [st |-> "idle", blob |-> 0, data |-> 0]]
  BY <1>1 DEF Ops
<1>4. ASSUME NEW b \in Slots, NEW p \in Page, flash[b][p] # Store[b][p]
      PROVE  b \in BS!Exposed /\ flash[b][p] = Erased
  <2>1. InRewrite(b) /\ Store[b] = sector[b]
    BY <1>4 DEF Store
  <2>2. PICK c \in Contexts : pc[c] \in Rewriting
    BY <2>1 DEF InRewrite, Rewriting
  <2>3. /\ ArgumentInv(c) /\ ImageInv(c) /\ FlashInv(c) /\ b \in DOMAIN sector
        /\ Ops[c] = [st |-> "done", blob |-> req[c].blob, data |-> req[c].data]
    BY <2>1, <2>2, OpOf DEF PagesInv, PagesOf, InRewrite, Done
  <2>4. req[c].blob \in Slots /\ SectorOf(req[c].blob) = SectorOf(b)
    BY <2>2, <2>3 DEF ArgumentInv, ImageInv, SlotsIn
  <2>5. b \in BS!Exposed
    BY <2>3, <2>4, SameDefinitions DEF BS!Exposed
  <2>6. flash[b][p] = Erased
    BY <1>4, <2>1, <2>2, <2>3 DEF FlashInv, Rewriting, Blank
  <2> QED BY <2>5, <2>6
<1>5. \A b \in Slots : flash[b] \in Content
  BY <1>1
<1> QED BY <1>1, <1>2, <1>3, <1>4, <1>5, SameDefinitions DEF BS!PowerLoss, BS!NoOp

LEMMA NextRefines == IInv /\ PagesInv /\ [Next]_vars => [BS!Next]_BS!vars
<1> SUFFICES ASSUME IInv, PagesInv, [Next]_vars PROVE [BS!Next]_BS!vars
  OBVIOUS
<1> USE ConstantFacts
<1>1. ASSUME NEW c \in Contexts, NEW b \in Slots, NEW v \in Data, CallSave(c, b, v)
      PROVE  BS!Next
  <2>1. BS!Call(c, b, v)
    BY <1>1, CallRefines DEF CallSave, Step
  <2> QED BY <2>1, SameDefinitions DEF BS!Next
<1>2. CASE BootLoad \/ BootCount
  <2>1. s_config' \in Data
    BY <1>2, BootIInv DEF IInv, TypeOK
  <2>2. PICK v \in Data : CallSave("thread", STORAGE_CONFIG, v)
    BY <1>2, <2>1 DEF BootLoad, BootCount
  <2> QED BY <1>1, <2>2
<1>3. CASE \/ \E b \in ThreadBlobs, v \in Data : ThreadSave(b, v)
           \/ \E b \in TickBlobs, v \in Data : TickSave(b, v)
  BY <1>1, <1>3 DEF ThreadSave, TickSave
<1>4. CASE CallErase
  <2>1. BS!Call("thread", AllSlots, 0)
    BY <1>4, CallRefines DEF CallErase, Step
  <2> QED BY <2>1, SameDefinitions DEF BS!Next
<1>5. CASE PowerLoss
  BY <1>5, PowerLossRefines DEF BS!Next
<1>6. CASE BootDone \/ LedsEnter \/ LedsExit \/ UNCHANGED vars
  <2>1. UNCHANGED <<flash, sector, pc, req>>
    BY <1>6 DEF BootDone, LedsEnter, LedsExit, vars
  <2>2. Store' = Store /\ Ops' = Ops
    BY <2>1 DEF Store, InRewrite, Ops, OpStatus
  <2> QED BY <2>2 DEF BS!vars
<1>7. ASSUME NEW c \in Contexts, SaveStep(c) PROVE [BS!Next]_BS!vars
  BY <1>7, SaverRefines DEF BS!Next
<1> QED BY <1>2, <1>3, <1>4, <1>5, <1>6, <1>7, EnterRefines DEF Next

\* A save of a client replaces exactly its blob, at one moment between its call and
\* its return, whatever the timer interrupt does in between and however many slots
\* share the sector; a power loss damages only the sector that is being rewritten.
THEOREM SpecImplementsBlobStore == Spec => ImplementsBlobStore
<1>1. Init => IInv /\ PagesInv /\ BS!Init
  BY InitIInv, InitPagesInv, InitRefines
<1>2. IInv /\ PagesInv /\ [Next]_vars => IInv' /\ PagesInv' /\ [BS!Next]_BS!vars
  BY NextIInv, NextPagesInv, NextRefines
<1> QED BY <1>1, <1>2, PTL DEF Spec, ImplementsBlobStore, BS!Spec
=============================================================================
