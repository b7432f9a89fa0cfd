---------------------------- MODULE FirmwareProofs ----------------------------
(***************************************************************************)
(* What TLAPS proves of Firmware for every layout of the flash and every   *)
(* number of power losses: its steps are Storage's, a power-up finds the   *)
(* last version that was saved, only a power loss leaves a blob torn, and  *)
(* what runs from RAM is what flash holds.                                 *)
(***************************************************************************)
EXTENDS Firmware, StorageProofs

\* The versions that a client ever saves.
Allowed(b) ==
  IF b = FEATURES_HANDLER_CONFIG THEN FeatureType
  ELSE IF b = TIME_TRACKER_DATA THEN Versions \cup {NoMagic}
  ELSE {Factory}

ExpectedAllowed == \A b \in Clients : expected[b] \subseteq Allowed(b)

FoundIn(content) == IF MagicMissing(content) THEN Factory ELSE content[1]

\* A call in progress writes what may be found.
CallExpected(c) ==
  pc[c] # "idle" =>
    \/ /\ req[c].blob \in Slots /\ pc[c] \notin {"wipe_enter", "wipe", "wiping"}
       /\ req[c].blob \in Clients => req[c].data \in expected[req[c].blob]
    \/ /\ req[c].blob = AllSlots /\ pc[c] \in {"wipe_enter", "wipe", "wiping", "mutex_exit"}
       /\ req[c].data = Factory /\ \A b \in Clients : Factory \in expected[b]

\* The image in RAM holds what may be found, and once patched the new version.
Patched == {"erase", "erasing", "save_sector", "programming"}
ImageExpected(c) ==
  /\ pc[c] \in {"update_blob"} \cup Patched
       => /\ req[c].blob \in DOMAIN sector
          /\ \A b \in Clients : b \in DOMAIN sector => FoundIn(sector[b]) \in expected[b]
  /\ pc[c] \in Patched => sector[req[c].blob][1] = req[c].data

\* How far the image has got into flash, by the page of the magic.
FlashFollows(c) ==
  /\ pc[c] \in {"erasing", "save_sector"} => \A b \in DOMAIN sector : flash[b][1] = Erased
  /\ pc[c] = "programming"
       => \A b \in DOMAIN sector :
            flash[b][1] = IF <<b, 1>> \in remaining THEN Erased ELSE sector[b][1]
  /\ pc[c] = "wiping" => \A b \in Slots : <<b, 1>> \notin remaining => flash[b][1] = Erased
  /\ pc[c] = "mutex_exit"
       => /\ req[c].blob \in Slots => flash[req[c].blob][1] = req[c].data
          /\ req[c].blob = AllSlots => \A b \in Slots : flash[b][1] = Erased

SaveInv == \A c \in Contexts : CallExpected(c) /\ ImageExpected(c) /\ FlashFollows(c)

\* Outside of a rewrite flash holds what may be found.
Settled == \A b \in Clients : ~InRewrite(b) => FoundIn(flash[b]) \in expected[b]

DurableInv == SaveInv /\ Settled
FwInv == IInv /\ FwTypeOK /\ ExpectedAllowed /\ DurableInv
-----------------------------------------------------------------------------
LEMMA FwConstantFacts ==
  /\ Clients = ThreadBlobs /\ TIME_TRACKER_DATA \in TickBlobs
  /\ Clients = 1 .. 3 /\ Clients \subseteq Slots /\ STORAGE_CONFIG \notin Clients
  /\ AllSlots \notin Slots /\ SlotCount \in Int /\ MaxData \in Nat
  /\ Erased \notin Data /\ Factory \in Data
  /\ \A b \in Clients : Allowed(b) \subseteq Data /\ Factory \in Allowed(b)
<1>1. /\ Clients = 1 .. 3 /\ SlotCount \in Nat /\ SlotCount >= 4 /\ MaxData \in Nat /\ MaxData >= 3
      /\ Versions \subseteq 0 .. MaxData - 1 /\ 0 \in Versions
  BY StorageConstants, FirmwareConstants
     DEF Clients, FEATURES_HANDLER_CONFIG, KEYS_CONFIG, TIME_TRACKER_DATA
<1>2. /\ FeatureType \subseteq Data /\ Factory \in FeatureType
      /\ Versions \cup {NoMagic} \subseteq Data /\ Factory \in Versions
  BY <1>1 DEF FeatureType, CTRL_C_V, TIME_TRACKER, NONE, Data, NoMagic, Factory
<1>3. \A b \in Clients : Allowed(b) \subseteq Data /\ Factory \in Allowed(b)
  BY <1>2 DEF Allowed
<1> QED BY <1>1, <1>2, <1>3, FirmwareConstants
     DEF Slots, AllSlots, Erased, Data, STORAGE_CONFIG, TIME_TRACKER_DATA

LEMMA AllowedOf ==
  /\ Allowed(FEATURES_HANDLER_CONFIG) = FeatureType
  /\ Allowed(TIME_TRACKER_DATA) = Versions \cup {NoMagic}
  /\ Allowed(KEYS_CONFIG) = {Factory}
  /\ FEATURES_HANDLER_CONFIG \in Clients /\ TIME_TRACKER_DATA \in Clients
  /\ KEYS_CONFIG \in Clients
BY DEF Allowed, FEATURES_HANDLER_CONFIG, TIME_TRACKER_DATA, KEYS_CONFIG, Clients

\* The types of what is expected follow from what is allowed.
LEMMA ExpectedType ==
  ASSUME NEW e, e = [b \in Clients |-> e[b]], \A b \in Clients : e[b] \subseteq Allowed(b)
  PROVE  e \in [Clients -> SUBSET Data]
BY FwConstantFacts

LEMMA InitFwInv == FwInit => FwInv
<1> SUFFICES ASSUME FwInit PROVE FwInv
  OBVIOUS
<1>1. IInv
  BY InitIInv DEF FwInit
<1>2. ExpectedAllowed
  BY FwConstantFacts DEF FwInit, ExpectedAllowed
<1>3. FwTypeOK
  <2>1. expected \in [Clients -> SUBSET Data]
    BY FwConstantFacts DEF FwInit
  <2>2. losses \in 0 .. MaxLosses
    BY FirmwareConstants DEF FwInit
  <2>3. cut \in [Clients -> BOOLEAN]
    BY DEF FwInit
  <2> QED BY <2>1, <2>2, <2>3 DEF FwInit, FwTypeOK, Stages, FeatureType
<1>4. \A c \in Contexts : pc[c] = "idle"
  BY DEF FwInit, Init
<1>5. SaveInv
  BY <1>4 DEF SaveInv, CallExpected, ImageExpected, FlashFollows, Patched
<1>6. \A b \in Clients : flash[b][1] = Erased
  BY FwConstantFacts, ConstantFacts DEF FwInit, Init, Blank
<1>7. Settled
  BY <1>6 DEF Settled, FwInit, FoundIn, MagicMissing
<1> QED BY <1>1, <1>2, <1>3, <1>5, <1>7 DEF FwInv, DurableInv
-----------------------------------------------------------------------------
\* Nothing of a save moves: the state of Storage that SaveInv reads stays.
LEMMA QuietStep ==
  ASSUME DurableInv, UNCHANGED <<flash, sector, pc, req, remaining, expected>>
  PROVE  DurableInv'
BY DEF DurableInv, SaveInv, Settled, CallExpected, ImageExpected, FlashFollows, InRewrite,
       FoundIn, MagicMissing

\* A call of save_blob or erase, after which its version is expected too.
LEMMA CallStep ==
  ASSUME FwInv, NEW c \in Contexts, NEW p \in {"mutex_enter", "wipe_enter"},
         NEW b, NEW v,
         pc[c] = "idle", pc' = [pc EXCEPT ![c] = p],
         req' = [req EXCEPT ![c] = [blob |-> b, data |-> v]],
         UNCHANGED <<flash, sector, remaining>>,
         \A k \in Clients : expected[k] \subseteq expected'[k],
         \/ p = "mutex_enter" /\ b \in Slots /\ (b \in Clients => v \in expected'[b])
         \/ /\ p = "wipe_enter" /\ b = AllSlots /\ v = Factory
            /\ \A k \in Clients : Factory \in expected'[k]
  PROVE  DurableInv'
<1> USE DEF FwInv, DurableInv
<1>0. pc \in [Contexts -> PcValue] /\ req'[c] = [blob |-> b, data |-> v] /\ pc'[c] = p
  BY DEF IInv, TypeOK
<1>1. \A d \in Contexts : d # c => pc'[d] = pc[d] /\ req'[d] = req[d]
  BY DEF IInv, TypeOK
<1>2. CallExpected(c)' /\ ImageExpected(c)' /\ FlashFollows(c)'
  BY <1>0, FwConstantFacts DEF CallExpected, ImageExpected, FlashFollows, Patched
<1>3. ASSUME NEW d \in Contexts, d # c PROVE CallExpected(d)' /\ ImageExpected(d)' /\ FlashFollows(d)'
  <2>1. CallExpected(d) /\ ImageExpected(d) /\ FlashFollows(d)
    BY DEF SaveInv
  <2>2. CallExpected(d)'
    BY <1>1, <1>3, <2>1 DEF CallExpected
  <2>3. ImageExpected(d)'
    BY <1>1, <1>3, <2>1 DEF ImageExpected, FoundIn, MagicMissing
  <2>4. FlashFollows(d)'
    BY <1>1, <1>3, <2>1 DEF FlashFollows
  <2> QED BY <2>2, <2>3, <2>4
<1>4. \A k : InRewrite(k)' <=> InRewrite(k)
  BY <1>0, <1>1 DEF InRewrite
<1>5. Settled'
  BY <1>4 DEF Settled, FoundIn, MagicMissing
<1> QED BY <1>2, <1>3, <1>5 DEF SaveInv
-----------------------------------------------------------------------------
\* While c saves no other context is past its call, so nothing of it can change.
LEMMA OthersKept ==
  ASSUME FwInv, NEW c \in Contexts, Holding(c), NEW p, pc' = [pc EXCEPT ![c] = p],
         UNCHANGED <<req, expected>>
  PROVE  /\ \A d \in Contexts : d # c => CallExpected(d)' /\ ImageExpected(d)' /\ FlashFollows(d)'
         /\ pc'[c] = p
         /\ \A d \in Contexts : d # c => pc'[d] = pc[d]
         /\ \A d \in Contexts : d # c => pc[d] \in {"idle", "mutex_enter", "wipe_enter"}
<1>1. pc'[c] = p /\ \A d \in Contexts : d # c => pc'[d] = pc[d]
  BY DEF FwInv, IInv, TypeOK
<1>2. \A d \in Contexts : d # c => pc[d] \in {"idle", "mutex_enter", "wipe_enter"}
  BY DEF FwInv, IInv, OneSaver, Holding
<1>3. ASSUME NEW d \in Contexts, d # c PROVE CallExpected(d)' /\ ImageExpected(d)' /\ FlashFollows(d)'
  <2>1. CallExpected(d)'
    BY <1>1, <1>3 DEF FwInv, DurableInv, SaveInv, CallExpected
  <2> QED BY <1>1, <1>2, <1>3, <2>1 DEF ImageExpected, FlashFollows, Patched
<1> QED BY <1>1, <1>2, <1>3

\* Only c can be rewriting.
LEMMA RewriteOf ==
  ASSUME NEW c \in Contexts,
         \A d \in Contexts : d # c => pc[d] \in {"idle", "mutex_enter", "wipe_enter"}
  PROVE  \A b : InRewrite(b) <=> /\ b \in DOMAIN sector
                                 /\ pc[c] \in {"erasing", "save_sector", "programming"}
BY DEF InRewrite

\* The steps of a save before its return.
LEMMA SaveStepDurable ==
  ASSUME FwInv, NEW c \in Contexts, MutexEnter(c) \/ EraseAllEnter(c) \/ SaveStep(c),
         pc[c] # "mutex_exit", expected' = expected
  PROVE  DurableInv'
<1> USE ConstantFacts
<1>a. /\ CallExpected(c) /\ ImageExpected(c) /\ FlashFollows(c)
      /\ flash \in [Slots -> Content] /\ DOMAIN sector \subseteq Slots
      /\ req[c].data \in Data /\ pc \in [Contexts -> PcValue]
      /\ \A b \in DOMAIN sector : sector[b] \in Content
  BY DEF FwInv, DurableInv, SaveInv, IInv, TypeOK
<1>b. 1 \in Page /\ Erased \notin Data /\ AllSlots \notin Slots /\ Clients \subseteq Slots
  BY FwConstantFacts
<1>1. CASE MutexEnter(c) \/ EraseAllEnter(c)
  <2>1. PICK p \in {"read_sector", "wipe"} :
          /\ pc[c] = IF p = "wipe" THEN "wipe_enter" ELSE "mutex_enter"
          /\ pc' = [pc EXCEPT ![c] = p]
          /\ UNCHANGED <<flash, sector, req>> /\ mutex = "free"
    BY <1>1 DEF MutexEnter, EraseAllEnter, Step
  <2>2. \A d \in Contexts : ~Holding(d)
    BY <2>1 DEF FwInv, IInv, MutexOwner
  <2>3. /\ pc'[c] = p /\ \A d \in Contexts : d # c => pc'[d] = pc[d]
        /\ \A d \in Contexts : pc[d] \in {"idle", "mutex_enter", "wipe_enter"}
    BY <2>1, <2>2, <1>a DEF Holding
  <2>4. CallExpected(c)' /\ ImageExpected(c)' /\ FlashFollows(c)'
    BY <2>1, <2>3, <1>a, <1>b DEF CallExpected, ImageExpected, FlashFollows, Patched
  <2>5. ASSUME NEW d \in Contexts, d # c
        PROVE  CallExpected(d)' /\ ImageExpected(d)' /\ FlashFollows(d)'
    <3>1. CallExpected(d)'
      BY <2>1, <2>3, <2>5 DEF FwInv, DurableInv, SaveInv, CallExpected
    <3> QED BY <2>3, <2>5, <3>1 DEF ImageExpected, FlashFollows, Patched
  <2>6. \A b : ~InRewrite(b) /\ ~InRewrite(b)'
    BY <2>1, <2>3 DEF InRewrite
  <2>7. Settled'
    BY <2>1, <2>6 DEF FwInv, DurableInv, Settled, FoundIn, MagicMissing
  <2> QED BY <2>4, <2>5, <2>7 DEF DurableInv, SaveInv
<1>2. ASSUME Holding(c), NEW p, pc' = [pc EXCEPT ![c] = p], req' = req,
             (CallExpected(c) /\ ImageExpected(c) /\ FlashFollows(c))',
             \A b \in Clients :
               (~(b \in DOMAIN sector /\ pc[c] \in {"erasing", "save_sector", "programming"})
                   => FoundIn(flash[b]) \in expected[b])
               => (~(b \in DOMAIN sector' /\ p \in {"erasing", "save_sector", "programming"})
                     => FoundIn(flash'[b]) \in expected[b])
      PROVE  DurableInv'
  <2>1. SaveInv'
    BY <1>2, OthersKept DEF SaveInv
  <2>2. /\ \A b : InRewrite(b) <=> /\ b \in DOMAIN sector
                                   /\ pc[c] \in {"erasing", "save_sector", "programming"}
        /\ \A b : InRewrite(b)' <=> /\ b \in DOMAIN sector'
                                    /\ p \in {"erasing", "save_sector", "programming"}
    BY <1>2, OthersKept DEF InRewrite
  <2>3. Settled'
    BY <1>2, <2>2 DEF FwInv, DurableInv, Settled, FoundIn, MagicMissing
  <2> QED BY <2>1, <2>3 DEF DurableInv
<1> USE DEF CallExpected, ImageExpected, FlashFollows, Patched, Holding
<1>3. CASE ReadSector(c)
  <2>1. /\ pc[c] = "read_sector" /\ pc' = [pc EXCEPT ![c] = "update_blob"]
        /\ sector' = [b \in SlotsIn(SectorOf(req[c].blob)) |-> flash[b]]
        /\ UNCHANGED <<flash, req, remaining>>
    BY <1>3 DEF ReadSector, Step
  <2>2. pc'[c] = "update_blob" /\ req[c].blob \in Slots
    BY <2>1, <1>a
  <2>3. req[c].blob \in DOMAIN sector'
    BY <2>1, <2>2 DEF SlotsIn
  <2>4. \A b \in Clients : FoundIn(flash[b]) \in expected[b]
    <3>1. \A b : ~InRewrite(b)
      BY <2>1 DEF InRewrite, FwInv, IInv, OneSaver
    <3> QED BY <3>1 DEF FwInv, DurableInv, Settled
  <2>5. \A b \in Clients : b \in DOMAIN sector' => FoundIn(sector'[b]) \in expected[b]
    BY <2>1, <2>4
  <2>6. (CallExpected(c) /\ ImageExpected(c) /\ FlashFollows(c))'
    BY <1>a, <2>1, <2>2, <2>3, <2>5 DEF FoundIn, MagicMissing
  <2> QED BY <1>2, <2>1, <2>4, <2>6
<1>4. CASE UpdateBlobInSector(c)
  <2>1. /\ pc[c] = "update_blob" /\ pc' = [pc EXCEPT ![c] = "erase"]
        /\ sector' = [sector EXCEPT ![req[c].blob] = Whole(req[c].data)]
        /\ UNCHANGED <<flash, req, remaining>>
    BY <1>4 DEF UpdateBlobInSector, Step
  <2>2. pc'[c] = "erase" /\ req[c].blob \in DOMAIN sector /\ DOMAIN sector' = DOMAIN sector
    BY <2>1, <1>a
  <2>3. Whole(req[c].data)[1] = req[c].data
    BY <1>b DEF Whole
  <2>4. FoundIn(Whole(req[c].data)) = req[c].data
    BY <1>a, <1>b, <2>3 DEF FoundIn, MagicMissing
  <2>5. ASSUME NEW b \in Clients, b \in DOMAIN sector' PROVE FoundIn(sector'[b]) \in expected[b]
    <3>1. CASE b = req[c].blob
      BY <3>1, <2>1, <2>2, <2>4, <1>a
    <3>2. CASE b # req[c].blob
      BY <3>2, <2>1, <2>2, <2>5, <1>a
    <3> QED BY <3>1, <3>2
  <2>6. sector'[req[c].blob][1] = req[c].data
    BY <2>1, <2>2, <2>3
  <2>7. (CallExpected(c) /\ ImageExpected(c) /\ FlashFollows(c))'
    BY <1>a, <2>1, <2>2, <2>5, <2>6 DEF FoundIn, MagicMissing
  <2> QED BY <1>2, <2>1, <2>2, <2>7
<1>5. CASE EraseSectorBegin(c)
  <2>1. /\ pc[c] = "erase" /\ pc' = [pc EXCEPT ![c] = "erasing"]
        /\ flash' = [b \in Slots |-> IF b \in DOMAIN sector THEN Blank ELSE flash[b]]
        /\ UNCHANGED <<sector, req, remaining>>
    BY <1>5 DEF EraseSectorBegin, Step
  <2>2. pc'[c] = "erasing" /\ Blank[1] = Erased
    BY <2>1, <1>a, <1>b DEF Blank
  <2>3. \A b \in DOMAIN sector : flash'[b][1] = Erased
    BY <2>1, <2>2, <1>a
  <2>4. (CallExpected(c) /\ ImageExpected(c) /\ FlashFollows(c))'
    BY <1>a, <2>1, <2>2, <2>3 DEF FoundIn, MagicMissing
  <2>5. \A b \in Clients : b \notin DOMAIN sector => flash'[b] = flash[b]
    BY <2>1, <1>b
  <2> QED BY <1>2, <2>1, <2>4, <2>5
<1>6. CASE EraseSectorEnd(c)
  <2>1. /\ pc[c] = "erasing" /\ pc' = [pc EXCEPT ![c] = "save_sector"] /\ pc'[c] = "save_sector"
        /\ UNCHANGED <<flash, sector, req, remaining>>
    BY <1>6, <1>a DEF EraseSectorEnd, Step
  <2>2. (CallExpected(c) /\ ImageExpected(c) /\ FlashFollows(c))'
    BY <1>a, <2>1 DEF FoundIn, MagicMissing
  <2> QED BY <1>2, <2>1, <2>2
<1>7. CASE SaveSectorBegin(c)
  <2>1. /\ pc[c] = "save_sector" /\ pc' = [pc EXCEPT ![c] = "programming"]
        /\ pc'[c] = "programming" /\ remaining' = (DOMAIN sector) \X Page
        /\ UNCHANGED <<flash, sector, req>>
    BY <1>7, <1>a DEF SaveSectorBegin, Step
  <2>2. \A b \in DOMAIN sector : <<b, 1>> \in remaining'
    BY <2>1, <1>b
  <2>3. (CallExpected(c) /\ ImageExpected(c) /\ FlashFollows(c))'
    BY <1>a, <2>1, <2>2 DEF FoundIn, MagicMissing
  <2> QED BY <1>2, <2>1, <2>3
<1>8. CASE ProgramPage(c)
  <2>1. PICK pg \in remaining :
          /\ flash' = [flash EXCEPT ![pg[1]] = [@ EXCEPT ![pg[2]] = sector[pg[1]][pg[2]]]]
          /\ remaining' = remaining \ {pg}
    BY <1>8 DEF ProgramPage
  <2>2. pc[c] = "programming" /\ UNCHANGED <<sector, pc, req>>
    BY <1>8 DEF ProgramPage
  <2>3. /\ remaining \subseteq (DOMAIN sector) \X Page
        /\ pg = <<pg[1], pg[2]>> /\ pg[1] \in DOMAIN sector /\ pg[2] \in Page
    BY <2>1, <2>2 DEF FwInv, IInv, RemainingInSector
  <2>4. ASSUME NEW b \in DOMAIN sector
        PROVE  flash'[b][1] = IF <<b, 1>> \in remaining' THEN Erased ELSE sector[b][1]
    <3>1. flash[b][1] = IF <<b, 1>> \in remaining THEN Erased ELSE sector[b][1]
      BY <1>a, <2>2
    <3>2. CASE pg = <<b, 1>>
      <4>1. flash[b] \in Content /\ b \in Slots
        BY <1>a, <2>4
      <4>2. flash'[b] = [flash[b] EXCEPT ![1] = sector[b][1]]
        BY <2>1, <3>2, <1>a, <4>1
      <4>3. flash'[b][1] = sector[b][1]
        BY <4>1, <4>2, <1>b DEF Content
      <4> QED BY <2>1, <3>2, <4>3
    <3>3. CASE pg # <<b, 1>>
      <4>1. flash'[b][1] = flash[b][1]
        <5>1. CASE pg[1] # b
          BY <5>1, <2>1, <1>a
        <5>2. CASE pg[1] = b /\ pg[2] # 1
          BY <5>2, <2>1, <1>a, <1>b DEF Content
        <5> QED BY <5>1, <5>2, <3>3, <2>3
      <4> QED BY <2>1, <3>1, <3>3, <4>1
    <3> QED BY <3>2, <3>3
  <2>5. (CallExpected(c) /\ ImageExpected(c) /\ FlashFollows(c))'
    BY <1>a, <2>2, <2>4 DEF FoundIn, MagicMissing
  <2>6. \A b \in Clients : b \notin DOMAIN sector => flash'[b] = flash[b]
    BY <2>1, <2>3, <1>a
  <2>7. pc' = [pc EXCEPT ![c] = "programming"]
    BY <2>2, <1>a
  <2> QED BY <1>2, <2>2, <2>5, <2>6, <2>7
<1>9. CASE SaveSectorEnd(c)
  <2>1. /\ pc[c] = "programming" /\ pc' = [pc EXCEPT ![c] = "mutex_exit"]
        /\ pc'[c] = "mutex_exit" /\ remaining = {}
        /\ UNCHANGED <<flash, sector, req, remaining>>
    BY <1>9, <1>a DEF SaveSectorEnd, Step
  <2>2. \A b \in DOMAIN sector : flash[b][1] = sector[b][1]
    BY <1>a, <2>1
  <2>3. \A b \in Clients : b \in DOMAIN sector => FoundIn(flash[b]) \in expected[b]
    BY <1>a, <2>1, <2>2 DEF FoundIn, MagicMissing
  <2>4. (CallExpected(c) /\ ImageExpected(c) /\ FlashFollows(c))'
    BY <1>a, <1>b, <2>1, <2>2
  <2> QED BY <1>2, <2>1, <2>3, <2>4
<1>10. CASE EraseAllSector(c)
  <2>1. PICK pg \in remaining :
          /\ flash' = [b \in Slots |-> IF SectorOf(b) = SectorOf(pg[1]) THEN Blank ELSE flash[b]]
          /\ remaining' = {q \in remaining : SectorOf(q[1]) # SectorOf(pg[1])}
    BY <1>10 DEF EraseAllSector
  <2>2. pc[c] = "wiping" /\ UNCHANGED <<sector, pc, req>> /\ Blank[1] = Erased
    BY <1>10, <1>b DEF EraseAllSector, Blank
  <2>3. ASSUME NEW b \in Slots, <<b, 1>> \notin remaining' PROVE flash'[b][1] = Erased
    <3>1. CASE SectorOf(b) = SectorOf(pg[1])
      BY <2>1, <2>2, <3>1
    <3>2. CASE SectorOf(b) # SectorOf(pg[1])
      <4>1. <<b, 1>> \notin remaining
        BY <2>1, <2>3, <3>2
      <4> QED BY <1>a, <2>1, <2>2, <3>2, <4>1
    <3> QED BY <3>1, <3>2
  <2>4. (CallExpected(c) /\ ImageExpected(c) /\ FlashFollows(c))'
    BY <1>a, <2>2, <2>3
  <2>5. \A b \in Clients : Factory \in expected[b]
    BY <1>a, <2>2
  <2>6. ASSUME NEW b \in Clients PROVE flash'[b] = flash[b] \/ FoundIn(flash'[b]) = Factory
    BY <2>1, <2>2, <1>b DEF FoundIn, MagicMissing
  <2>7. pc' = [pc EXCEPT ![c] = "wiping"]
    BY <2>2, <1>a
  <2>8. ASSUME NEW b \in Clients, FoundIn(flash[b]) \in expected[b]
        PROVE  FoundIn(flash'[b]) \in expected[b]
    BY <2>5, <2>6, <2>8
  <2>9. Holding(c) /\ pc[c] \notin {"erasing", "save_sector", "programming"} /\ req' = req
    BY <2>2
  <2> QED BY <1>2, <2>4, <2>7, <2>8, <2>9
<1>11. CASE EraseAllEnd(c)
  <2>1. /\ pc[c] = "wiping" /\ pc' = [pc EXCEPT ![c] = "mutex_exit"]
        /\ pc'[c] = "mutex_exit" /\ remaining = {}
        /\ UNCHANGED <<flash, sector, req, remaining>>
    BY <1>11, <1>a DEF EraseAllEnd, Step
  <2>2. (CallExpected(c) /\ ImageExpected(c) /\ FlashFollows(c))'
    BY <1>a, <1>b, <2>1
  <2> QED BY <1>2, <2>1, <2>2
<1>12. ~MutexExit(c)
  BY DEF MutexExit, Step
<1>13. CASE EraseAllBegin(c)
  <2>1. /\ pc[c] = "wipe" /\ pc' = [pc EXCEPT ![c] = "wiping"] /\ pc'[c] = "wiping"
        /\ remaining' = Slots \X Page /\ UNCHANGED <<flash, sector, req>>
    BY <1>13, <1>a DEF EraseAllBegin, Step
  <2>2. (CallExpected(c) /\ ImageExpected(c) /\ FlashFollows(c))'
    BY <1>a, <1>b, <2>1
  <2> QED BY <1>2, <2>1, <2>2
<1> QED BY <1>1, <1>3, <1>4, <1>5, <1>6, <1>7, <1>8, <1>9, <1>10, <1>11, <1>12, <1>13
        DEF SaveStep

\* The return of a save or an erase: what is expected is now what it wrote, or what
\* another call still may.
LEMMA ReturnStep ==
  ASSUME FwInv, NEW c \in Contexts, MutexExit(c), SaveGoesOn(c)
  PROVE  DurableInv'
<1> DEFINE durable == {b \in Clients : req[c].blob \in {b, AllSlots}}
<1>1. /\ pc[c] = "mutex_exit" /\ pc' = [pc EXCEPT ![c] = "idle"]
      /\ UNCHANGED <<flash, sector, req, remaining>>
  BY DEF MutexExit, Step
<1>2. expected' = [b \in Clients |-> IF b \in durable THEN {req[c].data} \cup InProgress(c, b)
                                     ELSE expected[b]]
  BY <1>1 DEF SaveGoesOn
<1>3. /\ pc'[c] = "idle" /\ \A d \in Contexts : d # c => pc'[d] = pc[d]
      /\ \A d \in Contexts : d # c => pc[d] \in {"idle", "mutex_enter", "wipe_enter"}
      /\ req[c].data \in Data /\ CallExpected(c) /\ FlashFollows(c)
  BY <1>1 DEF FwInv, DurableInv, SaveInv, IInv, TypeOK, OneSaver, Holding
<1>4. ASSUME NEW d \in Contexts, d # c, pc[d] # "idle" PROVE CallExpected(d)'
  <2>1. CallExpected(d)
    BY DEF FwInv, DurableInv, SaveInv
  <2>2. \A b \in Clients : req[d].blob \in {b, AllSlots} => req[d].data \in InProgress(c, b)
    BY <1>4 DEF InProgress
  <2>3. CASE req[d].blob \in Slots
    <3>1. pc[d] \notin {"wipe_enter", "wipe", "wiping"}
      BY <2>1, <2>3, <1>4, FwConstantFacts DEF CallExpected
    <3>2. req[d].blob \in Clients => req[d].data \in expected'[req[d].blob]
      BY <1>2, <2>1, <2>2, <2>3, <1>4, FwConstantFacts DEF CallExpected
    <3> QED BY <1>1, <1>3, <1>4, <2>3, <3>1, <3>2 DEF CallExpected
  <2>4. CASE req[d].blob = AllSlots
    <3>1. req[d].data = Factory /\ \A b \in Clients : Factory \in expected[b]
      BY <2>1, <2>4, <1>4, FwConstantFacts DEF CallExpected
    <3>2. \A b \in Clients : Factory \in expected'[b]
      BY <1>2, <2>2, <2>4, <3>1
    <3> QED BY <1>1, <1>3, <1>4, <2>1, <2>4, <3>1, <3>2, FwConstantFacts DEF CallExpected
  <2> QED BY <2>1, <2>3, <2>4, <1>4 DEF CallExpected
<1>5. SaveInv'
  <2>1. ASSUME NEW d \in Contexts PROVE CallExpected(d)'
    BY <1>3, <1>4 DEF CallExpected
  <2>2. \A d \in Contexts : pc'[d] \in {"idle", "mutex_enter", "wipe_enter"}
    BY <1>3
  <2>3. ASSUME NEW d \in Contexts PROVE ImageExpected(d)' /\ FlashFollows(d)'
    BY <2>2 DEF ImageExpected, FlashFollows, Patched
  <2> QED BY <2>1, <2>3 DEF SaveInv
<1>6. \A b \in Clients : FoundIn(flash[b]) \in expected[b]
  <2>1. \A b : ~InRewrite(b)
    BY <1>1, <1>3 DEF InRewrite
  <2> QED BY <2>1 DEF FwInv, DurableInv, Settled
<1>7. ASSUME NEW b \in Clients, b \in durable PROVE FoundIn(flash[b]) = req[c].data
  <2>1. CASE req[c].blob = b
    BY <1>1, <1>3, <2>1, FwConstantFacts DEF FlashFollows, FoundIn, MagicMissing
  <2>2. CASE req[c].blob = AllSlots
    BY <1>1, <1>3, <2>2, FwConstantFacts DEF FlashFollows, CallExpected, FoundIn, MagicMissing
  <2> QED BY <1>7, <2>1, <2>2
<1>8. Settled'
  <2>1. ASSUME NEW b \in Clients PROVE FoundIn(flash[b]) \in expected'[b]
    BY <1>2, <1>6, <1>7
  <2> QED BY <1>1, <2>1 DEF Settled, FoundIn, MagicMissing
<1> QED BY <1>5, <1>8 DEF DurableInv

LEMMA ReturnAllowed ==
  ASSUME FwInv, NEW c \in Contexts, SaveGoesOn(c)
  PROVE  /\ ExpectedAllowed' /\ expected' \in [Clients -> SUBSET Data]
         /\ cut' \in [Clients -> BOOLEAN]
<1> DEFINE durable == {b \in Clients : pc[c] = "mutex_exit" /\ req[c].blob \in {b, AllSlots}}
<1>1. /\ expected' = [b \in Clients |-> IF b \in durable THEN {req[c].data} \cup InProgress(c, b)
                                        ELSE expected[b]]
      /\ cut' = [b \in Clients |-> cut[b] /\ b \notin durable]
  BY DEF SaveGoesOn
<1>2. ASSUME NEW d \in Contexts, NEW b \in Clients, pc[d] # "idle",
             req[d].blob \in {b, AllSlots}
      PROVE  req[d].data \in Allowed(b)
  <2>1. CallExpected(d) /\ expected[b] \subseteq Allowed(b)
    BY DEF FwInv, DurableInv, SaveInv, ExpectedAllowed
  <2> QED BY <1>2, <2>1, FwConstantFacts DEF CallExpected
<1>3. ASSUME NEW b \in Clients PROVE expected'[b] \subseteq Allowed(b)
  <2>1. InProgress(c, b) \subseteq Allowed(b)
    BY <1>2 DEF InProgress
  <2>2. b \in durable => req[c].data \in Allowed(b)
    BY <1>2
  <2> QED BY <1>1, <2>1, <2>2 DEF FwInv, ExpectedAllowed
<1>4. expected' \in [Clients -> SUBSET Data]
  BY <1>1, <1>3, FwConstantFacts
<1> QED BY <1>1, <1>3, <1>4 DEF ExpectedAllowed

LEMMA SaveGoesOnFwInv ==
  ASSUME FwInv, NEW c \in Contexts, SaveGoesOn(c)
  PROVE  Next /\ FwInv'
<1>1. Next
  BY DEF SaveGoesOn, Next
<1>2. IInv'
  BY <1>1, NextIInv DEF FwInv
<1>3. DurableInv'
  <2>1. CASE pc[c] = "mutex_exit"
    <3>1. MutexExit(c)
      BY <2>1 DEF SaveGoesOn, MutexEnter, EraseAllEnter, SaveStep, ReadSector,
                  UpdateBlobInSector, EraseSectorBegin, EraseSectorEnd, SaveSectorBegin,
                  ProgramPage, SaveSectorEnd, EraseAllBegin, EraseAllSector, EraseAllEnd, Step
    <3> QED BY <3>1, ReturnStep
  <2>2. CASE pc[c] # "mutex_exit"
    <3>1. expected' = [b \in Clients |-> expected[b]]
      BY <2>2 DEF SaveGoesOn
    <3>2. expected' = expected
      BY <3>1 DEF FwInv, FwTypeOK
    <3> QED BY <2>2, <3>2, SaveStepDurable DEF SaveGoesOn
  <2> QED BY <2>1, <2>2
<1>4. FwTypeOK' /\ ExpectedAllowed'
  BY ReturnAllowed DEF FwInv, FwTypeOK, SaveGoesOn
<1> QED BY <1>1, <1>2, <1>3, <1>4 DEF FwInv

\* A power loss: of a sector being rewritten, flash holds the image or nothing.
LEMMA PowerCutFwInv ==
  ASSUME FwInv, PowerCut
  PROVE  Next /\ FwInv'
<1> USE FwConstantFacts
<1>1. Next /\ PowerLoss
  BY DEF PowerCut, Next
<1>2. IInv'
  BY <1>1, NextIInv DEF FwInv
<1>3. /\ \A c \in Contexts : pc'[c] = "idle"
      /\ flash' = flash
      /\ expected' = [b \in Clients |-> expected[b] \cup IF InRewrite(b) THEN {Factory} ELSE {}]
      /\ cut' = [b \in Clients |-> cut[b] \/ InRewrite(b)]
  BY DEF PowerCut, PowerLoss
<1>4. \A b : ~InRewrite(b)'
  BY <1>3 DEF InRewrite
<1>5. ASSUME NEW b \in Clients PROVE FoundIn(flash[b]) \in expected'[b]
  <2>1. CASE ~InRewrite(b)
    BY <1>3, <2>1 DEF FwInv, DurableInv, Settled
  <2>2. CASE InRewrite(b)
    <3>1. PICK c \in Contexts : pc[c] \in {"erasing", "save_sector", "programming"}
      BY <2>2 DEF InRewrite
    <3>2. b \in DOMAIN sector
      BY <2>2 DEF InRewrite
    <3>3. ImageExpected(c) /\ FlashFollows(c)
      BY DEF FwInv, DurableInv, SaveInv
    <3>4. flash[b][1] = Erased \/ flash[b][1] = sector[b][1]
      BY <3>1, <3>2, <3>3 DEF FlashFollows
    <3>5. FoundIn(sector[b]) \in expected[b]
      BY <3>1, <3>2, <3>3 DEF ImageExpected, Patched
    <3> QED BY <1>3, <2>2, <3>4, <3>5 DEF FoundIn, MagicMissing
  <2> QED BY <2>1, <2>2
<1>6. Settled'
  BY <1>3, <1>5 DEF Settled, FoundIn, MagicMissing
<1>7. SaveInv'
  BY <1>3 DEF SaveInv, CallExpected, ImageExpected, FlashFollows, Patched
<1>8. ExpectedAllowed' /\ expected' \in [Clients -> SUBSET Data]
  <2>1. \A b \in Clients : expected'[b] \subseteq Allowed(b)
    BY <1>3 DEF FwInv, ExpectedAllowed
  <2> QED BY <1>3, <2>1 DEF ExpectedAllowed
<1>9. cut' \in [Clients -> BOOLEAN]
  <2>1. \A b \in Clients : (cut[b] \/ InRewrite(b)) \in BOOLEAN
    OBVIOUS
  <2> QED BY <1>3, <2>1
<1>10. FwTypeOK'
  <2>1. losses' \in 0 .. MaxLosses
    BY FirmwareConstants DEF PowerCut, FwInv, FwTypeOK
  <2> QED BY <1>8, <1>9, <2>1 DEF PowerCut, FwTypeOK, Stages, FeatureType
<1> QED BY <1>1, <1>2, <1>6, <1>7, <1>8, <1>10 DEF FwInv, DurableInv
-----------------------------------------------------------------------------
\* What main and the interrupt do to Storage: nothing, or the call of a save.
LEMMA NoSaveDurable ==
  ASSUME FwInv, NoSave
  PROVE  /\ UNCHANGED vars /\ IInv' /\ DurableInv' /\ ExpectedAllowed'
         /\ expected' \in [Clients -> SUBSET Data]
<1>1. UNCHANGED vars /\ expected' = expected
  BY DEF NoSave
<1>2. IInv'
  BY <1>1, NextIInv DEF FwInv
<1>3. DurableInv'
  BY <1>1, QuietStep DEF vars, FwInv
<1> QED BY <1>1, <1>2, <1>3 DEF FwInv, FwTypeOK, ExpectedAllowed

LEMMA SaveDurable ==
  ASSUME FwInv, NEW b \in Clients, NEW v \in Allowed(b), NEW c \in Contexts,
         CallSave(c, b, v), Next,
         expected' = [expected EXCEPT ![b] = @ \cup {v}]
  PROVE  /\ IInv' /\ DurableInv' /\ ExpectedAllowed'
         /\ expected' \in [Clients -> SUBSET Data]
<1>1. IInv'
  BY NextIInv DEF FwInv
<1>2. \A k \in Clients : /\ expected[k] \subseteq expected'[k]
                         /\ expected'[k] \subseteq Allowed(k)
  BY DEF FwInv, FwTypeOK, ExpectedAllowed
<1>3. v \in expected'[b] /\ v \in Data /\ b \in Slots
  BY FwConstantFacts DEF FwInv, FwTypeOK
<1>4. expected' \in [Clients -> SUBSET Data]
  BY <1>3 DEF FwInv, FwTypeOK
<1>5. DurableInv'
  BY <1>2, <1>3, CallStep DEF CallSave, Step
<1> QED BY <1>1, <1>2, <1>4, <1>5 DEF ExpectedAllowed

LEMMA ThreadSaves ==
  ASSUME FwInv, NEW b \in Clients, NEW v \in Allowed(b), Save(b, v)
  PROVE  /\ Next /\ IInv' /\ DurableInv' /\ ExpectedAllowed'
         /\ expected' \in [Clients -> SUBSET Data]
<1>1. Next /\ CallSave("thread", b, v)
  BY FwConstantFacts DEF Save, ThreadSave, Next
<1> QED BY <1>1, SaveDurable, ConstantFacts DEF Save

\* What a power-up loads is a version that was saved, since nothing is being saved.
LEMMA Loaded ==
  ASSUME FwInv, Quiet, NEW b \in Clients, ~MagicMissing(flash[b])
  PROVE  flash[b][1] \in Allowed(b)
<1>1. ~InRewrite(b)
  BY DEF Quiet, InRewrite
<1> QED BY <1>1 DEF FwInv, DurableInv, Settled, FoundIn, ExpectedAllowed

LEMMA IdleIsQuiet ==
  ASSUME MainIdle \/ \E b, v : Save(b, v)
  PROVE  Quiet
BY StorageConstants DEF MainIdle, Save, ThreadSave, CallSave, Step, Runs, Quiet

LEMMA InitStorageFwInv ==
  ASSUME FwInv, InitStorage
  PROVE  Next /\ FwInv'
<1>1. Next /\ (BootLoad \/ BootCount \/ BootDone)
  BY DEF InitStorage, Next
<1>2. IInv'
  BY <1>1, NextIInv DEF FwInv
<1>3. UNCHANGED <<expected, cut, pending, feature, tracker, timer, losses>> /\ stage' \in Stages
  BY DEF InitStorage, Stages
<1>4. DurableInv'
  <2>1. ASSUME NEW v, CallSave("thread", STORAGE_CONFIG, v) PROVE DurableInv'
    BY <1>3, <2>1, CallStep, FwConstantFacts, ConstantFacts DEF CallSave, Step
  <2>2. CASE BootLoad \/ BootCount
    BY <2>1, <2>2 DEF BootLoad, BootCount
  <2>3. CASE BootDone
    BY <1>3, <2>3, QuietStep DEF BootDone, FwInv
  <2> QED BY <1>1, <2>2, <2>3
<1> QED BY <1>1, <1>2, <1>3, <1>4 DEF FwInv, FwTypeOK, ExpectedAllowed

\* Power-up after Storage::init, and the switch of a feature.
LEMMA MainFwInv ==
  ASSUME FwInv,
         \/ InitKeys \/ LaunchCore1 \/ InitFeatures \/ SaveFactoryInit \/ StartFeature
         \/ LoadTracker \/ ArmTimer \/ SaveChoice
         \/ \E f \in FeatureType : SwitchFeature(f)
  PROVE  [Next]_vars /\ FwInv'
<1> USE AllowedOf DEF Stages
<1>a. /\ stage \in Stages /\ pending \in BOOLEAN /\ feature \in FeatureType
      /\ tracker \in Versions \cup {NoMagic} /\ timer \in BOOLEAN
      /\ losses \in 0 .. MaxLosses /\ cut \in [Clients -> BOOLEAN]
      /\ CTRL_C_V \in FeatureType /\ Factory \in Versions
  BY FirmwareConstants DEF FwInv, FwTypeOK, FeatureType, Factory
<1>b. ASSUME \/ NoSave
             \/ \E b \in Clients : \E v \in Allowed(b) : Save(b, v),
             stage' \in Stages, pending' \in BOOLEAN, feature' \in FeatureType,
             tracker' \in Versions \cup {NoMagic}, timer' \in BOOLEAN, UNCHANGED <<losses, cut>>
      PROVE  [Next]_vars /\ FwInv'
  <2>1. /\ [Next]_vars /\ IInv' /\ DurableInv' /\ ExpectedAllowed'
        /\ expected' \in [Clients -> SUBSET Data]
    BY <1>b, NoSaveDurable, ThreadSaves
  <2> QED BY <1>a, <1>b, <2>1 DEF FwInv, FwTypeOK
<1>1. CASE InitKeys
  BY <1>a, <1>b, <1>1 DEF InitKeys
<1>2. CASE LaunchCore1
  BY <1>a, <1>b, <1>2 DEF LaunchCore1
<1>3. CASE InitFeatures
  <2>1. CASE MagicMissing(flash[FEATURES_HANDLER_CONFIG])
    BY <1>a, <1>b, <1>3, <2>1 DEF InitFeatures
  <2>2. CASE ~MagicMissing(flash[FEATURES_HANDLER_CONFIG])
    <3>1. NoSave /\ feature' = flash[FEATURES_HANDLER_CONFIG][1] /\ stage' = "start"
          /\ UNCHANGED <<pending, tracker, timer, losses, cut>>
      BY <1>3, <2>2 DEF InitFeatures
    <3>2. feature' \in FeatureType
      BY <2>2, <3>1, Loaded, IdleIsQuiet DEF NoSave
    <3> QED BY <1>a, <1>b, <3>1, <3>2
  <2> QED BY <2>1, <2>2
<1>4. CASE SaveFactoryInit
  BY <1>a, <1>b, <1>4 DEF SaveFactoryInit
<1>5. CASE StartFeature
  BY <1>a, <1>b, <1>5 DEF StartFeature
<1>6. CASE LoadTracker
  <2>1. UNCHANGED <<pending, feature, timer, losses, cut>> /\ stage' = "tracker_arm"
    BY <1>6 DEF LoadTracker
  <2>2. CASE tracker' = Factory /\ Save(TIME_TRACKER_DATA, Factory)
    BY <1>a, <1>b, <2>1, <2>2
  <2>3. CASE /\ ~MagicMissing(flash[TIME_TRACKER_DATA])
             /\ tracker' = flash[TIME_TRACKER_DATA][1] /\ NoSave
    <3>1. tracker' \in Versions \cup {NoMagic}
      BY <2>3, Loaded, IdleIsQuiet DEF NoSave
    <3> QED BY <1>a, <1>b, <2>1, <2>3, <3>1
  <2> QED BY <1>6, <2>2, <2>3 DEF LoadTracker
<1>7. CASE ArmTimer
  BY <1>a, <1>b, <1>7 DEF ArmTimer
<1>8. CASE SaveChoice
  BY <1>a, <1>b, <1>8 DEF SaveChoice
<1>9. CASE \E f \in FeatureType : SwitchFeature(f)
  BY <1>a, <1>b, <1>9 DEF SwitchFeature
<1> QED BY <1>1, <1>2, <1>3, <1>4, <1>5, <1>6, <1>7, <1>8, <1>9

\* The host's other commands, the timer interrupt and core 1.
LEMMA CommandFwInv ==
  ASSUME FwInv, SetThreshold \/ FactoryInitFeatures \/ EraseCommand \/ TickSaves \/ Core1
  PROVE  Next /\ FwInv'
<1> USE AllowedOf
<1>a. Factory \in Versions /\ Versions \cup {NoMagic} = Allowed(TIME_TRACKER_DATA)
  BY FirmwareConstants DEF Factory
<1>1. ASSUME NEW v \in Versions \cup {NoMagic}, Save(TIME_TRACKER_DATA, v), tracker' = v,
             timer' \in BOOLEAN, UNCHANGED <<stage, pending, feature, losses, cut>>
      PROVE  Next /\ FwInv'
  <2>1. /\ Next /\ IInv' /\ DurableInv' /\ ExpectedAllowed'
        /\ expected' \in [Clients -> SUBSET Data]
    BY <1>1, <1>a, ThreadSaves
  <2> QED BY <1>1, <2>1 DEF FwInv, FwTypeOK
<1>2. CASE SetThreshold
  BY <1>1, <1>2 DEF SetThreshold, FwInv, FwTypeOK
<1>3. CASE FactoryInitFeatures
  BY <1>1, <1>3, <1>a DEF FactoryInitFeatures
<1>4. CASE TickSaves
  <2>1. PICK v \in Versions :
          /\ TickSave(TIME_TRACKER_DATA, v)
          /\ tracker' = v
          /\ expected' = [expected EXCEPT ![TIME_TRACKER_DATA] = @ \cup {v}]
    BY <1>4 DEF TickSaves
  <2>2. v \in Data /\ v \in Allowed(TIME_TRACKER_DATA)
    BY <1>a, FwConstantFacts
  <2>3. Next /\ CallSave("tick", TIME_TRACKER_DATA, v) /\ "tick" \in Contexts
    BY <2>1, <2>2, FwConstantFacts DEF TickSave, Next
  <2>4. /\ IInv' /\ DurableInv' /\ ExpectedAllowed'
        /\ expected' \in [Clients -> SUBSET Data]
    BY <2>1, <2>2, <2>3, SaveDurable
  <2> QED BY <1>4, <2>1, <2>3, <2>4 DEF TickSaves, FwInv, FwTypeOK
<1>5. CASE EraseCommand
  <2>1. /\ CallErase /\ expected' = [b \in Clients |-> expected[b] \cup {Factory}]
        /\ UNCHANGED <<stage, pending, feature, tracker, timer, losses, cut>>
    BY <1>5 DEF EraseCommand
  <2>2. Next /\ IInv'
    BY <2>1, NextIInv DEF Next, FwInv
  <2>3. ExpectedAllowed' /\ expected' \in [Clients -> SUBSET Data]
    <3>1. \A b \in Clients : expected'[b] \subseteq Allowed(b)
      BY <2>1, FwConstantFacts DEF FwInv, ExpectedAllowed
    <3> QED BY <2>1, <3>1, FwConstantFacts DEF ExpectedAllowed
  <2>4. /\ pc["thread"] = "idle" /\ pc' = [pc EXCEPT !["thread"] = "wipe_enter"]
        /\ req' = [req EXCEPT !["thread"] = [blob |-> AllSlots, data |-> Factory]]
        /\ UNCHANGED <<flash, sector, remaining>>
    BY <2>1 DEF CallErase, Step, Factory
  <2>5. \A k \in Clients : expected[k] \subseteq expected'[k] /\ Factory \in expected'[k]
    BY <2>1
  <2>6. DurableInv'
    BY <2>4, <2>5, CallStep, ConstantFacts
  <2> QED BY <2>1, <2>2, <2>3, <2>6 DEF FwInv, FwTypeOK
<1>6. CASE Core1
  <2>1. Next /\ UNCHANGED fwVars /\ UNCHANGED <<flash, sector, pc, req, remaining>>
    BY <1>6 DEF Core1, LedsEnter, LedsExit, Next
  <2>2. IInv' /\ DurableInv'
    BY <2>1, NextIInv, QuietStep DEF FwInv, fwVars
  <2> QED BY <2>1, <2>2 DEF FwInv, FwTypeOK, ExpectedAllowed, fwVars
<1> QED BY <1>2, <1>3, <1>4, <1>5, <1>6

LEMMA FwNextFwInv == FwInv /\ [FwNext]_allVars => FwInv' /\ [Next]_vars
<1> SUFFICES ASSUME FwInv, [FwNext]_allVars PROVE FwInv' /\ [Next]_vars
  OBVIOUS
<1>1. CASE UNCHANGED allVars
  <2>1. UNCHANGED vars /\ UNCHANGED fwVars
    BY <1>1 DEF allVars
  <2>2. IInv' /\ DurableInv'
    BY <2>1, NextIInv, QuietStep DEF FwInv, vars, fwVars
  <2> QED BY <2>1, <2>2 DEF FwInv, FwTypeOK, ExpectedAllowed, fwVars
<1>2. CASE FwNext
  BY <1>2, InitStorageFwInv, MainFwInv, CommandFwInv, SaveGoesOnFwInv, PowerCutFwInv
     DEF FwNext, MainStep
<1> QED BY <1>1, <1>2

\* Whatever main, its clients, the interrupt and power losses do, Storage sees steps
\* of its own specification only: its theorems hold of the firmware.
THEOREM FwImplementsStorage == FwSpec => ImplementsStorage
<1>1. FwInit => Init
  BY DEF FwInit
<1> QED BY <1>1, InitFwInv, FwNextFwInv, PTL DEF FwSpec, Spec, ImplementsStorage

\* Only a feature that exists is ever loaded or run, and only data that were saved.
THEOREM SpecFwTypeOK == FwSpec => []FwTypeOK
<1>1. FwInv => FwTypeOK
  BY DEF FwInv
<1> QED BY <1>1, InitFwInv, FwNextFwInv, PTL DEF FwSpec

\* A power-up finds the last version of every blob that was saved, whatever power
\* losses there were, unless one of them hit the rewrite of the blob's sector.
THEOREM SpecLastSaveSurvives == FwSpec => []LastSaveSurvives
<1>1. FwInv => LastSaveSurvives
  BY DEF FwInv, DurableInv, Settled, LastSaveSurvives, Quiet, InRewrite, FoundIn, Found
<1> QED BY <1>1, InitFwInv, FwNextFwInv, PTL DEF FwSpec

\* Main and the timer interrupt never save at the same time, in the whole firmware.
COROLLARY FwOneSaver == FwSpec => []OneSaver
BY FwImplementsStorage, SpecOneSaver, PTL DEF ImplementsStorage
-----------------------------------------------------------------------------
(***************************************************************************)
(* The other two invariants are about whole blobs, and follow from what    *)
(* BlobStore promises: a step of a save changes what a client sees of the  *)
(* blob it saves, all of it, or nothing.                                   *)
(***************************************************************************)
Uniform(x) == \E v \in Data \cup {Erased} : x = Whole(v)

\* Every page of a blob is of one version, or power was cut in its rewrite.
TornInv == \A b \in Clients : cut[b] \/ Uniform(Store[b])

\* Main is past the choice of a feature, at power-up or at the return of a switch.
Agreeing ==
  \/ stage \in {"factory_init", "running"}
  \/ stage \in {"start", "tracker_load", "tracker_arm"} /\ ~pending

\* The call of c has still to write a choice.
Choosing(c) == Ops[c].st = "called" /\ Ops[c].blob = FEATURES_HANDLER_CONFIG

\* The choice in RAM is the stored one, or on its way to be.
AgreeInv ==
  Agreeing =>
    /\ \A c \in Contexts : Choosing(c) => Ops[c].data = feature
    /\ \/ MagicMissing(Store[FEATURES_HANDLER_CONFIG])
       \/ Store[FEATURES_HANDLER_CONFIG][1] = feature
       \/ \E c \in Contexts : Choosing(c)

WholeInv == FwInv /\ PagesInv /\ TornInv /\ AgreeInv

\* What is erased is of one version too: the missing one.
LEMMA UniformVersions ==
  /\ Uniform(Blank) /\ \A v \in Data : Uniform(Whole(v)) /\ Whole(v)[1] = v
  /\ MagicMissing(Blank)
<1>1. Blank = Whole(Erased) /\ Blank[1] = Erased
  BY ConstantFacts DEF Blank, Whole
<1> QED BY <1>1, ConstantFacts DEF Uniform, Whole, MagicMissing

LEMMA InitWholeInv == FwInit => WholeInv
<1> SUFFICES ASSUME FwInit PROVE WholeInv
  OBVIOUS
<1>1. FwInv /\ PagesInv
  BY InitFwInv, InitPagesInv DEF FwInit
<1>2. \A b \in Clients : Store[b] = Blank
  BY FwConstantFacts DEF FwInit, Init, Store, InRewrite
<1>3. TornInv
  BY <1>2, UniformVersions DEF TornInv
<1>4. AgreeInv
  BY DEF AgreeInv, Agreeing, FwInit
<1> QED BY <1>1, <1>3, <1>4 DEF WholeInv

\* What a client sees changes at steps of a save and at power losses only.
LEMMA StoreStays ==
  ASSUME FwInv, UNCHANGED <<flash, sector, pc>>
                \/ (\E c \in Contexts : \E b, v : CallSave(c, b, v)) \/ CallErase
  PROVE  Store' = Store
<1>1. ASSUME NEW c \in Contexts, NEW p \in {"mutex_enter", "wipe_enter"}, pc[c] = "idle",
             pc' = [pc EXCEPT ![c] = p], UNCHANGED <<flash, sector>>
      PROVE  Store' = Store
  <2>1. \A d \in Contexts : pc'[d] \in Rewriting <=> pc[d] \in Rewriting
    BY <1>1 DEF FwInv, IInv, TypeOK, Rewriting
  <2>2. \A b : InRewrite(b)' <=> InRewrite(b)
    BY <1>1, <2>1 DEF InRewrite, Rewriting
  <2> QED BY <1>1, <2>2 DEF Store
<1>2. CASE UNCHANGED <<flash, sector, pc>>
  BY <1>2 DEF Store, InRewrite
<1>3. CASE \E c \in Contexts : \E b, v : CallSave(c, b, v)
  BY <1>1, <1>3 DEF CallSave, Step
<1>4. CASE CallErase
  BY <1>1, <1>4, ConstantFacts DEF CallErase, Step
<1> QED BY <1>2, <1>3, <1>4

\* Main's steps and the commands leave the store to the saves that they call.
LEMMA OtherSteps ==
  ASSUME FwInv, FwNext, ~PowerCut, \A c \in Contexts : ~SaveGoesOn(c)
  PROVE  Store' = Store /\ cut' = cut
<1> USE ConstantFacts
<1>1. ASSUME NoSave PROVE Store' = Store
  BY <1>1, StoreStays DEF NoSave, vars
<1>2. ASSUME NEW b, NEW v, Save(b, v) PROVE Store' = Store
  BY <1>2, StoreStays DEF Save, ThreadSave
<1>3. CASE InitStorage
  BY <1>3, StoreStays DEF InitStorage, BootLoad, BootCount, BootDone
<1>4. CASE InitKeys \/ LaunchCore1 \/ InitFeatures \/ SaveFactoryInit \/ StartFeature
  BY <1>1, <1>2, <1>4 DEF InitKeys, LaunchCore1, InitFeatures, SaveFactoryInit, StartFeature
<1>5. CASE LoadTracker \/ ArmTimer \/ SaveChoice \/ \E f \in FeatureType : SwitchFeature(f)
  BY <1>1, <1>2, <1>5 DEF LoadTracker, ArmTimer, SaveChoice, SwitchFeature
<1>6. CASE SetThreshold \/ FactoryInitFeatures
  BY <1>2, <1>6 DEF SetThreshold, FactoryInitFeatures
<1>7. CASE TickSaves
  BY <1>7, StoreStays DEF TickSaves, TickSave
<1>8. CASE EraseCommand \/ Core1
  BY <1>8, StoreStays DEF EraseCommand, Core1, LedsEnter, LedsExit, fwVars
<1> QED BY <1>3, <1>4, <1>5, <1>6, <1>7, <1>8 DEF FwNext, MainStep

\* A step of a save in the terms of the client: one blob changes, as a whole, or
\* the blobs of one sector are erased, or nothing does.
LEMMA StoreStep ==
  ASSUME FwInv, PagesInv, NEW c \in Contexts,
         MutexEnter(c) \/ EraseAllEnter(c) \/ SaveStep(c)
  PROVE  \/ Store' = Store
         \/ /\ pc[c] \in Called /\ req[c].blob \in Slots
            /\ Store' = [Store EXCEPT ![req[c].blob] = Whole(req[c].data)]
         \/ \A b \in Slots : Store'[b] = Store[b] \/ Store'[b] = Blank
<1>1. CASE MutexEnter(c) \/ EraseAllEnter(c)
  BY <1>1, EnterRefines DEF BS!vars, FwInv
<1>2. CASE SaveStep(c)
  <2>1. CASE BS!Commit(c)
    <3>1. /\ Ops[c].st = "called"
          /\ Store' = [Store EXCEPT ![Ops[c].blob] = Whole(Ops[c].data)]
          /\ Ops[c].blob # AllSlots
      BY <2>1, SameDefinitions DEF BS!Commit
    <3>2. pc[c] \in Called
      BY <3>1 DEF Ops, OpStatus, Called
    <3>3. Ops[c] = [st |-> "called", blob |-> req[c].blob, data |-> req[c].data]
      BY <3>2, OpOf
    <3>4. req[c].blob \in Slots
      BY <3>1, <3>3 DEF FwInv, IInv, TypeOK
    <3> QED BY <3>1, <3>2, <3>3, <3>4
  <2>2. CASE BS!EraseSector(c)
    BY <2>2, SameDefinitions DEF BS!EraseSector
  <2> QED BY <1>2, <2>1, <2>2, SaverRefines DEF BS!vars, FwInv
<1> QED BY <1>1, <1>2

\* When a save returns, flash holds it, whole.
LEMMA ReturnedWhole ==
  ASSUME FwInv, PagesInv, NEW c \in Contexts, pc[c] = "mutex_exit",
         NEW b \in Clients, req[c].blob \in {b, AllSlots}
  PROVE  Uniform(Store[b])
<1>1. b \in Slots /\ b # AllSlots /\ req[c].data \in Data
  BY FwConstantFacts DEF FwInv, IInv, TypeOK
<1>2. Store = flash
  <2>1. \A d \in Contexts : pc[d] \notin Rewriting
    BY OnlySaver DEF FwInv, Holding, Rewriting
  <2> QED BY <2>1, StoreIsFlash DEF FwInv
<1>3. flash[b] = Whole(req[c].data) \/ flash[b] = Blank
  BY <1>1, FwConstantFacts DEF PagesInv, PagesOf, FlashInv
<1> QED BY <1>1, <1>2, <1>3, UniformVersions

\* After a power loss a client sees flash, and that is what it saw before of every
\* blob that was not being rewritten.
LEMMA StoreAfterCut ==
  ASSUME FwInv, PowerCut
  PROVE  Store' = flash /\ \A b \in Slots : ~InRewrite(b) => Store[b] = flash[b]
<1>1. flash' = flash /\ \A c \in Contexts : pc'[c] = "idle"
  BY DEF PowerCut, PowerLoss
<1>2. Store' = flash
  BY <1>1, StoreIsFlashNext DEF FwInv, IInv, TypeOK, Rewriting
<1> QED BY <1>2 DEF Store

LEMMA TornStep ==
  ASSUME WholeInv, FwNext
  PROVE  TornInv'
<1>a. FwInv /\ PagesInv /\ TornInv /\ Clients \subseteq Slots
  BY FwConstantFacts DEF WholeInv
<1>1. ASSUME NEW c \in Contexts, SaveGoesOn(c) PROVE TornInv'
  <2>1. MutexEnter(c) \/ EraseAllEnter(c) \/ SaveStep(c)
    BY <1>1 DEF SaveGoesOn
  <2>2. ASSUME NEW b \in Clients PROVE cut'[b] \/ Uniform(Store'[b])
    <3>1. CASE pc[c] = "mutex_exit" /\ req[c].blob \in {b, AllSlots}
      <4>1. Uniform(Store[b])
        BY <1>a, <3>1, ReturnedWhole
      <4>2. MutexExit(c)
        BY <2>1, <3>1 DEF MutexEnter, EraseAllEnter, SaveStep, ReadSector,
                    UpdateBlobInSector, EraseSectorBegin, EraseSectorEnd, SaveSectorBegin,
                    ProgramPage, SaveSectorEnd, EraseAllBegin, EraseAllSector, EraseAllEnd, Step
      <4>3. Store' = Store
        <5>1. UNCHANGED <<flash, sector>> /\ pc' = [pc EXCEPT ![c] = "idle"]
          BY <4>2 DEF MutexExit, Step
        <5>2. \A d \in Contexts : pc'[d] \in Rewriting <=> pc[d] \in Rewriting
          BY <1>a, <3>1, <5>1 DEF FwInv, IInv, TypeOK, Rewriting
        <5>3. \A k : InRewrite(k)' <=> InRewrite(k)
          BY <5>1, <5>2 DEF InRewrite, Rewriting
        <5> QED BY <5>1, <5>3 DEF Store
      <4> QED BY <4>1, <4>3
    <3>2. CASE ~(pc[c] = "mutex_exit" /\ req[c].blob \in {b, AllSlots})
      <4>1. cut'[b] = cut[b]
        BY <1>1, <3>2 DEF SaveGoesOn, FwInv, FwTypeOK, WholeInv
      <4>2. Store'[b] = Store[b] \/ Uniform(Store'[b])
        <5>1. CASE Store' = Store \/ \A k \in Slots : Store'[k] = Store[k] \/ Store'[k] = Blank
          BY <1>a, <5>1, UniformVersions
        <5>2. CASE Store' = [Store EXCEPT ![req[c].blob] = Whole(req[c].data)]
          BY <1>a, <5>2, UniformVersions, StoreType DEF FwInv, IInv, TypeOK
        <5> QED BY <1>a, <2>1, <5>1, <5>2, StoreStep
      <4> QED BY <1>a, <4>1, <4>2 DEF TornInv
    <3> QED BY <3>1, <3>2
  <2> QED BY <2>2 DEF TornInv
<1>2. CASE PowerCut
  <2>1. ASSUME NEW b \in Clients PROVE cut'[b] \/ Uniform(Store'[b])
    BY <1>a, <1>2, StoreAfterCut DEF PowerCut, TornInv
  <2> QED BY <2>1 DEF TornInv
<1>3. CASE ~PowerCut /\ \A c \in Contexts : ~SaveGoesOn(c)
  <2>1. Store' = Store /\ cut' = cut
    BY <1>a, <1>3, OtherSteps
  <2> QED BY <1>a, <2>1 DEF TornInv, Uniform
<1> QED BY <1>1, <1>2, <1>3

\* Main's calls, and the interrupt's, as BlobStore sees them.
LEMMA CallSteps ==
  ASSUME FwInv
  PROVE  /\ NoSave => Store' = Store /\ Ops' = Ops
         /\ \A c \in Contexts, b \in Slots, v \in Data : CallSave(c, b, v) => BS!Call(c, b, v)
         /\ CallErase => BS!Call("thread", AllSlots, 0)
<1>1. ASSUME NoSave PROVE Store' = Store /\ Ops' = Ops
  BY <1>1 DEF NoSave, vars, Store, InRewrite, Ops, OpStatus
<1>2. ASSUME NEW c \in Contexts, NEW b \in Slots, NEW v \in Data, CallSave(c, b, v)
      PROVE  BS!Call(c, b, v)
  BY <1>2, CallRefines DEF FwInv, CallSave, Step
<1>3. ASSUME CallErase PROVE BS!Call("thread", AllSlots, 0)
  BY <1>3, CallRefines, ConstantFacts DEF FwInv, CallErase, Step
<1> QED BY <1>1, <1>2, <1>3

\* The call of another blob's save, or of an erase, leaves the choice alone.
LEMMA OtherCall ==
  ASSUME AgreeInv, NEW c \in Contexts, NEW b, NEW v, b # FEATURES_HANDLER_CONFIG,
         BS!Call(c, b, v), feature' = feature, Agreeing' => Agreeing
  PROVE  AgreeInv'
<1>1. /\ Ops[c].st = "idle" /\ Store' = Store
      /\ Ops' = [Ops EXCEPT ![c] = [st |-> "called", blob |-> b, data |-> v]]
  BY DEF BS!Call
<1>2. DOMAIN Ops = Contexts /\ Ops'[c].blob = b
  BY <1>1 DEF Ops
<1>3. ~Choosing(c) /\ ~Choosing(c)'
  BY <1>1, <1>2 DEF Choosing
<1>4. \A d \in Contexts \ {c} : Ops'[d] = Ops[d]
  BY <1>1, <1>2
<1>5. \A d \in Contexts : (Choosing(d)' <=> Choosing(d)) /\ (Choosing(d) => Ops'[d] = Ops[d])
  BY <1>3, <1>4 DEF Choosing
<1> QED BY <1>1, <1>5 DEF AgreeInv, MagicMissing

\* The save of the current feature, from wherever main calls it.
LEMMA ChoiceCall ==
  ASSUME FwInv, feature' \in FeatureType, Save(FEATURES_HANDLER_CONFIG, feature')
  PROVE  AgreeInv'
<1> DEFINE F == FEATURES_HANDLER_CONFIG
<1>1. \A c \in Contexts : Ops[c].st = "idle"
  BY IdleIsQuiet DEF Quiet, Ops
<1>2. BS!Call("thread", F, feature')
  <2>1. F \in Slots /\ feature' \in Data
    BY FwConstantFacts, AllowedOf
  <2> QED BY <2>1, CallSteps, ConstantFacts DEF Save, ThreadSave
<1>3. /\ DOMAIN Ops = Contexts /\ "thread" \in Contexts
      /\ Ops' = [Ops EXCEPT !["thread"] = [st |-> "called", blob |-> F, data |-> feature']]
  BY <1>2, ConstantFacts DEF BS!Call, Ops
<1>4. Ops'["thread"].st = "called" /\ Ops'["thread"].blob = F /\ Ops'["thread"].data = feature'
  BY <1>3
<1>5. \A c \in Contexts \ {"thread"} : Ops'[c].st = "idle"
  BY <1>1, <1>3
<1>6. Choosing("thread")' /\ \A c \in Contexts : Choosing(c)' => c = "thread"
  BY <1>4, <1>5 DEF Choosing
<1> QED BY <1>3, <1>4, <1>6 DEF AgreeInv

\* The saves and erases in progress write the choice, or erase it, or leave it alone.
LEMMA AgreeSaveStep ==
  ASSUME WholeInv, NEW c \in Contexts, SaveGoesOn(c)
  PROVE  AgreeInv'
<1> DEFINE F == FEATURES_HANDLER_CONFIG
<1>a. /\ FwInv /\ PagesInv /\ AgreeInv /\ F \in Slots /\ DOMAIN Ops = Contexts
      /\ Store \in [Slots -> Content]
  BY FwConstantFacts, AllowedOf, StoreType DEF WholeInv, FwInv, Ops
<1>b. feature' = feature /\ (Agreeing' <=> Agreeing)
  BY DEF SaveGoesOn, Agreeing
<1>1. CASE UNCHANGED BS!vars
  BY <1>a, <1>b, <1>1 DEF BS!vars, AgreeInv, Choosing, MagicMissing
<1>2. CASE BS!Commit(c)
  <2>1. /\ Ops[c].st = "called" /\ Ops' = [Ops EXCEPT ![c].st = "done"]
        /\ Store' = [Store EXCEPT ![Ops[c].blob] = Whole(Ops[c].data)]
    BY <1>2, SameDefinitions DEF BS!Commit
  <2>2. \A d \in Contexts \ {c} : Ops'[d] = Ops[d]
    BY <1>a, <2>1
  <2>3. ~Choosing(c)' /\ \A d \in Contexts \ {c} : Choosing(d)' <=> Choosing(d)
    BY <1>a, <2>1, <2>2 DEF Choosing, Ops
  <2>4. CASE Ops[c].blob = F
    <3>1. Store'[F] = Whole(Ops[c].data) /\ Choosing(c)
      BY <1>a, <2>1, <2>4 DEF Choosing
    <3>2. Whole(Ops[c].data)[1] = Ops[c].data
      BY ConstantFacts DEF Whole
    <3> QED BY <1>a, <1>b, <2>2, <2>3, <3>1, <3>2 DEF AgreeInv
  <2>5. CASE Ops[c].blob # F
    <3>1. Store'[F] = Store[F] /\ ~Choosing(c)
      BY <1>a, <2>1, <2>5 DEF Choosing
    <3> QED BY <1>a, <1>b, <2>2, <2>3, <3>1 DEF AgreeInv, MagicMissing
  <2> QED BY <2>4, <2>5
<1>3. CASE BS!EraseSector(c)
  <2>1. Ops' = Ops /\ (Store'[F] = Store[F] \/ Store'[F] = Blank)
    BY <1>a, <1>3, SameDefinitions DEF BS!EraseSector
  <2> QED BY <1>a, <1>b, <2>1, UniformVersions DEF AgreeInv, Choosing, MagicMissing
<1>4. CASE (BS!EraseDone(c) \/ BS!Return(c)) /\ Store' = Store
  <2>1. ~Choosing(c)
    BY <1>4, SameDefinitions, AllSlotsNoSlot, <1>a DEF Choosing, BS!EraseDone, BS!Return
  <2>2. ~Choosing(c)' /\ \A d \in Contexts \ {c} : Ops'[d] = Ops[d]
    BY <1>a, <1>4 DEF Choosing, BS!EraseDone, BS!Return, BS!NoOp, Ops
  <2>3. \A d \in Contexts : (Choosing(d)' <=> Choosing(d)) /\ (Choosing(d) => Ops'[d] = Ops[d])
    BY <2>1, <2>2 DEF Choosing
  <2> QED BY <1>a, <1>b, <1>4, <2>3 DEF AgreeInv, MagicMissing
<1>5. MutexEnter(c) \/ EraseAllEnter(c) \/ SaveStep(c)
  BY DEF SaveGoesOn
<1> QED BY <1>a, <1>1, <1>2, <1>3, <1>4, <1>5, EnterRefines, SaverRefines DEF FwInv

\* What main chooses, loads or changes, step by step.
LEMMA AgreeStep ==
  ASSUME WholeInv, FwNext
  PROVE  AgreeInv'
<1> DEFINE F == FEATURES_HANDLER_CONFIG
<1> USE ConstantFacts
<1>a. FwInv /\ PagesInv /\ AgreeInv /\ F \in Slots /\ F \in Clients /\ F # TIME_TRACKER_DATA
  BY FwConstantFacts, AllowedOf
     DEF WholeInv, FEATURES_HANDLER_CONFIG, TIME_TRACKER_DATA
<1>b. ASSUME NoSave, feature' = feature, Agreeing' => Agreeing PROVE AgreeInv'
  BY <1>a, <1>b, CallSteps DEF AgreeInv, Choosing, MagicMissing
<1>c. ASSUME NEW c \in Contexts, NEW v \in Data, CallSave(c, TIME_TRACKER_DATA, v),
             feature' = feature, Agreeing' => Agreeing
      PROVE  AgreeInv'
  <2>1. TIME_TRACKER_DATA \in Slots
    BY FwConstantFacts, AllowedOf
  <2> QED BY <1>a, <1>c, <2>1, CallSteps, OtherCall
<1>d. feature \in FeatureType /\ CTRL_C_V \in FeatureType /\ Factory \in Data
      /\ Versions \cup {NoMagic} \subseteq Data
  BY <1>a, FwConstantFacts, AllowedOf DEF FwInv, FwTypeOK, FeatureType
<1>1. CASE InitStorage \/ InitKeys \/ LaunchCore1 \/ PowerCut \/ \E f \in FeatureType : SwitchFeature(f)
  <2>1. ~Agreeing'
    BY <1>1 DEF InitStorage, InitKeys, LaunchCore1, PowerCut, SwitchFeature, Agreeing
  <2> QED BY <2>1 DEF AgreeInv
<1>2. CASE InitFeatures
  <2>1. CASE MagicMissing(flash[F])
    BY <1>a, <1>d, <1>2, <2>1, ChoiceCall DEF InitFeatures
  <2>2. CASE ~MagicMissing(flash[F])
    <3>1. NoSave /\ feature' = flash[F][1]
      BY <1>2, <2>2 DEF InitFeatures
    <3>2. \A c \in Contexts : pc[c] = "idle"
      BY <3>1, IdleIsQuiet DEF NoSave, Quiet
    <3>3. Store' = flash
      BY <1>a, <3>1, <3>2, CallSteps, StoreIsFlash DEF FwInv, Rewriting
    <3>4. \A c \in Contexts : ~Choosing(c)'
      <4>1. \A c \in Contexts : Ops[c].st = "idle"
        BY <3>2 DEF Ops
      <4> QED BY <1>a, <3>1, <4>1, CallSteps DEF Choosing
    <3> QED BY <3>1, <3>3, <3>4 DEF AgreeInv
  <2> QED BY <2>1, <2>2
<1>3. CASE SaveFactoryInit \/ SaveChoice
  BY <1>a, <1>d, <1>3, ChoiceCall DEF SaveFactoryInit, SaveChoice
<1>4. CASE StartFeature \/ ArmTimer
  BY <1>b, <1>4 DEF StartFeature, ArmTimer, Agreeing
<1>5. CASE LoadTracker
  <2>1. feature' = feature /\ (Agreeing' => Agreeing)
    BY <1>5 DEF LoadTracker, Agreeing
  <2> QED BY <1>b, <1>c, <1>d, <1>5, <2>1 DEF LoadTracker, Save, ThreadSave
<1>6. CASE SetThreshold \/ FactoryInitFeatures
  <2>1. feature' = feature /\ (Agreeing' => Agreeing)
    BY <1>6 DEF SetThreshold, FactoryInitFeatures, Agreeing
  <2> QED BY <1>c, <1>d, <1>6, <2>1 DEF SetThreshold, FactoryInitFeatures, Save, ThreadSave
<1>7. CASE TickSaves
  <2>1. feature' = feature /\ (Agreeing' => Agreeing)
    BY <1>7 DEF TickSaves, Agreeing
  <2> QED BY <1>c, <1>d, <1>7, <2>1 DEF TickSaves, TickSave
<1>8. CASE EraseCommand
  <2>1. feature' = feature /\ (Agreeing' => Agreeing) /\ BS!Call("thread", AllSlots, 0)
    BY <1>a, <1>8, CallSteps DEF EraseCommand, Agreeing
  <2>2. AllSlots # F
    BY <1>a, AllSlotsNoSlot
  <2> QED BY <1>a, <2>1, <2>2, OtherCall
<1>9. CASE Core1
  <2>1. feature' = feature /\ (Agreeing' => Agreeing) /\ Store' = Store /\ Ops' = Ops
    BY <1>9 DEF Core1, LedsEnter, LedsExit, fwVars, Agreeing, Store, InRewrite, Ops, OpStatus
  <2> QED BY <1>a, <2>1 DEF AgreeInv, Choosing, MagicMissing
<1> QED BY <1>1, <1>2, <1>3, <1>4, <1>5, <1>6, <1>7, <1>8, <1>9, AgreeSaveStep DEF FwNext, MainStep

LEMMA WholeStep == WholeInv /\ [FwNext]_allVars => WholeInv'
<1> SUFFICES ASSUME WholeInv, [FwNext]_allVars PROVE WholeInv'
  OBVIOUS
<1>1. FwInv' /\ PagesInv'
  BY FwNextFwInv, NextPagesInv DEF WholeInv, FwInv
<1>2. CASE FwNext
  BY <1>1, <1>2, TornStep, AgreeStep DEF WholeInv
<1>3. CASE UNCHANGED allVars
  <2>1. Store' = Store /\ Ops' = Ops
    BY <1>3 DEF allVars, vars, Store, InRewrite, Ops, OpStatus
  <2> QED BY <1>1, <1>3, <2>1
          DEF WholeInv, TornInv, Uniform, AgreeInv, Agreeing, Choosing, MagicMissing, allVars, fwVars
<1> QED BY <1>2, <1>3

\* The magic of a blob, in its first page, speaks for its last page too: a blob is
\* of one version unless power was cut while its own sector was rewritten.
THEOREM SpecTornOnlyIfCut == FwSpec => []TornOnlyIfCut
<1>1. WholeInv => TornOnlyIfCut
  BY StoreIsFlash DEF WholeInv, FwInv, TornInv, TornOnlyIfCut, Quiet, Rewriting, Uniform
<1> QED BY <1>1, InitWholeInv, WholeStep, PTL DEF FwSpec

\* Between two commands the feature that runs is the one that a power-up would
\* start, whatever the interrupt saved meanwhile and wherever power was lost before.
THEOREM SpecRunningIsStored == FwSpec => []RunningIsStored
<1>1. WholeInv => RunningIsStored
  <2> SUFFICES ASSUME WholeInv, stage = "running", Quiet,
                      ~MagicMissing(flash[FEATURES_HANDLER_CONFIG])
               PROVE  feature = flash[FEATURES_HANDLER_CONFIG][1]
    BY DEF RunningIsStored
  <2>1. Store = flash
    BY StoreIsFlash DEF WholeInv, FwInv, Quiet, Rewriting
  <2>2. \A c \in Contexts : ~Choosing(c)
    BY DEF Quiet, Choosing, Ops
  <2> QED BY <2>1, <2>2 DEF WholeInv, AgreeInv, Agreeing
<1> QED BY <1>1, InitWholeInv, WholeStep, PTL DEF FwSpec

\* To its clients the storage of the whole firmware is BlobStore: what they save is
\* replaced as a whole, once, between call and return.
COROLLARY FwImplementsBlobStore == FwSpec => ImplementsBlobStore
BY FwImplementsStorage, SpecImplementsBlobStore, PTL DEF ImplementsStorage
=============================================================================
