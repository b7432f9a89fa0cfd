------------------------------ MODULE BlobStore ------------------------------
(***************************************************************************)
(* What the firmware expects of Storage (firmware/storage): a map from     *)
(* blob slots to contents that save_blob updates atomically, one blob at a *)
(* time, somewhere between its call and its return.  Slots share flash     *)
(* sectors; the one concession is that a power loss between the commit and *)
(* the return of a save may lose pages of the blobs of that blob's sector, *)
(* and of no other sector.  Erasing everything is atomic sector by sector. *)
(***************************************************************************)
EXTENDS Integers

CONSTANTS
  SlotCount,       \* BLOB_SLOTS_COUNT
  SlotsPerSector,  \* Storage::blobs_per_sector
  PagesPerSlot,    \* flash pages of one blob slot
  Data,            \* versions of a blob's payload
  Contexts         \* execution contexts of core 0 that call save_blob

VARIABLES
  store,           \* contents of every slot
  op               \* the call in progress in every context

vars == <<store, op>>

Slots  == 0 .. SlotCount - 1
Page   == 1 .. PagesPerSlot

\* A page reads back as all ones when it was erased and not programmed since.
\* It stands for every page that holds no data the program wrote.
Erased  == -1
Content == [Page -> Data \cup {Erased}]
Blank   == [p \in Page |-> Erased]

\* The slot image of one version of a blob: every page carries that version.
Whole(v) == [p \in Page |-> v]

SectorOf(b)   == b \div SlotsPerSector

NoOp == [st |-> "idle", blob |-> 0, data |-> 0]
Op   == [st : {"idle", "called", "done"}, blob : Slots \cup {SlotCount}, data : Data]

\* The blob argument of a call that erases the whole storage.
AllSlots == SlotCount

Init ==
  /\ store \in [Slots -> Content]
  /\ op = [c \in Contexts |-> NoOp]

Call(c, b, v) ==
  /\ op[c].st = "idle"
  /\ op' = [op EXCEPT ![c] = [st |-> "called", blob |-> b, data |-> v]]
  /\ UNCHANGED store

Commit(c) ==
  /\ op[c].st = "called" /\ op[c].blob # AllSlots
  /\ store' = [store EXCEPT ![op[c].blob] = Whole(op[c].data)]
  /\ op' = [op EXCEPT ![c].st = "done"]

\* erase() clears the sectors one at a time, and is done when all are.
EraseSector(c) ==
  /\ op[c].st = "called" /\ op[c].blob = AllSlots
  /\ \E s \in {SectorOf(b) : b \in Slots} :
       store' = [b \in Slots |-> IF SectorOf(b) = s THEN Blank ELSE store[b]]
  /\ UNCHANGED op

EraseDone(c) ==
  /\ op[c].st = "called" /\ op[c].blob = AllSlots
  /\ store = [b \in Slots |-> Blank]
  /\ op' = [op EXCEPT ![c].st = "done"]
  /\ UNCHANGED store

Return(c) ==
  /\ op[c].st = "done"
  /\ op' = [op EXCEPT ![c] = NoOp]
  /\ UNCHANGED store

\* Slots that a power loss may damage: those that share the sector of a blob
\* whose save is committed and has not returned.
Exposed ==
  {b \in Slots : \E c \in Contexts : /\ op[c].st = "done"
                                     /\ op[c].blob \in Slots
                                     /\ SectorOf(op[c].blob) = SectorOf(b)}

PowerLoss ==
  /\ op' = [c \in Contexts |-> NoOp]
  /\ DOMAIN store' = Slots
  /\ \A b \in Slots : /\ store'[b] \in Content
                      /\ \A p \in Page : \/ store'[b][p] = store[b][p]
                                         \/ b \in Exposed /\ store'[b][p] = Erased

Next ==
  \/ \E c \in Contexts, b \in Slots \cup {AllSlots}, v \in Data : Call(c, b, v)
  \/ \E c \in Contexts : Commit(c) \/ EraseSector(c) \/ EraseDone(c) \/ Return(c)
  \/ PowerLoss

Spec == Init /\ [][Next]_vars
=============================================================================
