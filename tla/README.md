# 3-key: TLA+ models, checks and proofs

3-key is a keypad of three keys, three LEDs and a serial terminal, built on an
RP2040 (two cores, no operating system, code executed from the flash that also
holds the data).  This directory holds TLA+ models of the firmware under
`src/firmware`, the TLC configurations that check them, and TLAPS proofs of the
properties that matter most.

To check a run: `tlc -workers 2 -config Storage_safe.cfg MCStorage` (the module is
the run's `module` in `PROJECT.json`).  To check the proofs: `tlapm StorageProofs.tla`.

## 1. Inventory

### Who executes what

| context | code | preempts |
|---|---|---|
| core 0, main loop (`3-key.cpp:83-87`) | `tud_task`, `hid_task` (the current feature's `handle`), `cdc.task` (terminal) | - |
| core 0, GPIO interrupt | `gpio_callback` of the keys | the main loop |
| core 0, timer interrupt | debounce and long-press callbacks, the tracker's 250 ms `timer_callback` | the main loop |
| core 1 (`leds_task_on_core1`) | `leds_task` every 80 ms | - |

Shared between them: the flash (code and data), `g_mutex`, the state of every
button, the colours in `KeysConfig`, and `TimeTracker::data`.  Only the flash is
behind the mutex; the rest is plain memory.

### Components

| component | state | operations | used by |
|---|---|---|---|
| Storage | flash sectors, RAM image of one sector, `s_config` | `init`, `save_blob`, `get_blob`, `erase` | KeysConfig, FeaturesHandler, TimeTracker, Terminal |
| TimeTracker | sessions, thresholds, LEDs put aside, confirmation | three keys, short and long; tick; `init`, `deinit`, `factory_init`; `get_cmd`, `set_cmd` | FeaturesHandler, timer, Terminal |
| Buttons | flags and start time of each key, timers | interrupt, two timer callbacks, `get_pending_button`, `clear_pending`, level queries | TimeTracker, CtrlCV, Leds |
| FeaturesHandler | current feature, its blob | `init`, `switch_to_feature`, `factory_init_features`, dispatch of commands | main loop, Terminal |
| KeysConfig | key values, colours, LED mode, saved colours, its blob | setters, `switch_leds_mode` (turns key interrupts on and off) | every feature, Leds |
| Leds | colour on the strip | `leds_task` on core 1 | main |
| CtrlCV | `has_keyboard_key` | `init`, `handle` (HID reports) | FeaturesHandler |
| Terminal | line buffer, binary packet buffer, `binary_mode` | a byte arrives; commands in text and binary form | CDC |
| Time | the host's time and the device's at the last sync | set, read, calendar conversion | TimeTracker, Terminal |
| USB | TinyUSB's, `start_ms` of `hid_task` | callbacks | main loop |
| host tools, build | none | formatting, serial I/O | - |

### What is hard, and what makes each part correct

*Storage.*  A save rewrites a whole 4 KiB sector, which several blobs share, in
separate steps; the timer interrupt saves too, possibly in the middle of a save
of the main loop; core 1 executes from the flash being written; power may fail at
any step.  Correct means: a save replaces its blob and no other, atomically;
nothing runs from flash while it is erased or programmed; a call returns; what a
power loss damages is bounded.

*TimeTracker.*  A tick comes at any point of a handler, which sleeps for seconds
while it blinks; moving to the next session takes several stores, with the computation of a
date between two of them; a confirmation spreads one operation over two key presses, with host commands,
feature switches and resets in between; some state survives a switch or is never
loaded.  Correct means: work and meetings are never tracked at once; time reaches
flash within the save interval; a threshold that is reached is marked, and a mark without its
time has a known origin; LEDs say what is tracked; history is not lost unasked.

*Buttons.*  One key's flags are written by an interrupt, two timer callbacks and
the main loop, without a lock; one press may have several timers alive; the
interrupt is level-triggered.  Correct means: a key never becomes deaf; a detected
press is reported, and a report is taken; a press is long exactly if it was held
for the delay.

*Main and FeaturesHandler.*  Power-up is a chain of loads and saves, and power may fail in any of
them; a switch stops a feature, starts another, arms its timer and only then saves.
Correct means: a power-up finds what was last saved; what runs is what is stored; main gets to its loop.

*CtrlCV and USB.*  A report waits in the USB stack until the host polls; the stack is not
ready meanwhile, nor while the bus is suspended; the cable is pulled; the feature is switched
between the report of a key and that of its release.  Correct means: the release of a key is
never forgotten, and the host ends up with the keys as they are.

*Leds and KeysConfig.*  A pass of core 1 reads mode, flags, colours and keys one by one while core 0
changes them.  Correct means: once they are left alone, the strip shows them.

*Terminal.*  Two protocols share one stream of bytes, and the packet's end is known only
by its length field: after a cut message the terminal reads in the wrong place, and
what it takes for a length may be anything, up to sizes that wrap or exceed the memory.
Correct means: a message that finds nothing left over is answered once and as sent; no
command runs that was not sent; the terminal gets back in step.

*Time.*  A calendar by repeated subtraction, in a 16-bit year and a table of months; the host may
set any number of microseconds.  Correct means: the table is never left, and the date is the
calendar's for every time whose year fits.

The list of hazards, each at its line, with the properties that cover it or
the reason why none does, is `hazards` in `PROJECT.json`.

## 2. Modules

| module | what it is |
|---|---|
| `BlobStore` | abstract specification: a map from slots to contents, updated atomically |
| `Storage` | `firmware/storage`, the mutex, core 1's loop and the boot, step by step |
| `Firmware` | EXTENDS `Storage` with `main`: the whole power-up, switches and the commands that save |
| `TimeTracker` | the tracker, with the switch, boot and host commands that drive it |
| `Buttons` | interrupt, timers, the main loop's two calls, and the host's long press delay |
| `Terminal` | the bytes of the serial port: text line, packets, and the commands' answers |
| `Leds` | `leds_task` on core 1 and what KeysConfig says of the LEDs |
| `Keyboard` | EXTENDS `Leds` with ctrl_c_v, `hid_task`, feature switches, the USB stack and the host |
| `Clock` | the clock that the host sets, and its conversion to a date |
| `MC...` | constants too large for a cfg, one module per model |
| `...Proofs` | theorems and their proofs, for each model but `Leds`, which `KeyboardProofs` covers |

How they fit: `Storage` is the one resource all persist through, and implements `BlobStore`; `Firmware` uses
`Storage` step by step, `TimeTracker` uses it as the atomic store that `BlobStore` is.  `Buttons` produces the
presses that `TimeTracker` takes.  `Terminal` delivers the commands that are the host's
actions of the other modules.  `Keyboard` and `TimeTracker` are the two features; the former composes with `Leds`,
the latter writes what `Leds` displays.

Operators preceded by a comment that starts with `Bug:` are not part of any model:
each is an operation changed as a plausible mistake would change it, and
`PROJECT.json` pairs it with the property that must catch it.

### Storage

`pc[c]` is the control point of context `c` in `_save_blob` or `erase`; one action
per statement: `MutexEnter`, `ReadSector`, `UpdateBlobInSector`, `EraseSectorBegin`/`End`,
`SaveSectorBegin`, `ProgramPage` (the SDK writes page by page), `SaveSectorEnd`,
`MutexExit`.  The contexts are `"thread"`, the main loop of core 0, and `"tick"`, the
tracker's timer interrupt: `Runs` keeps the thread from stepping while the interrupt
is inside, and `TickSave` is disabled while interrupts are (`FlashBusy`).
`BootLoad`, `BootCount`, `BootDone` are `Storage::init` with `factory_init`; `CallErase`
and the `EraseAll` actions are the terminal's erase, where the mutex is taken (`EraseAllEnter`) before
interrupts are disabled (`EraseAllBegin`), as in a save; `LedsEnter`, `LedsExit` are
core 1.  `PowerLoss` keeps `flash` and resets all the rest.

Abstractions.  A slot has `PagesPerSlot` pages and a payload is a version number
that every page of it carries, so that a mix of versions shows.  `Erased` stands for
all that a page may hold when it holds no data: erased, or half programmed at a power loss.  The
data to save is fixed at the call, although the code passes it by address and
copies it in `update_blob_in_sector`: a tick between the two would make the save
newer than the call, by whole words.

`Storage` implements `BlobStore` (`ImplementsBlobStore`).  The refinement mapping:
a slot holds what the RAM image says from the erase of its sector to the last
programmed page, and what flash says otherwise; a call is "called" until the erase and
"done" from then on.  `BlobStore!PowerLoss` states the price: the slots of
the sector being rewritten, including those nobody was saving, may lose pages.

### Firmware

`stage` is where `main` is in its power-up, one action per statement that reads or writes storage:
`InitStorage` (`Storage!BootLoad`, `BootCount`, `BootDone`), `InitKeys`, `LaunchCore1`, `InitFeatures` and
`SaveFactoryInit`, `StartFeature`, `LoadTracker`, `ArmTimer`, `SaveChoice`; then `"running"`, the main loop,
with the host's `SwitchFeature`, `SetThreshold`, `FactoryInitFeatures`, `EraseCommand`.  `TickSaves` is the tracker's
interrupt.  Each save is a call of `Storage`, and `SaveGoesOn` is any of `Storage`'s steps inside it.
`PowerCut` keeps flash and starts over.

`expected` and `cut` are history variables.  `expected[b]` are the versions of blob `b` that a
power-up may find: those of the last save that returned, of calls in progress, and, if power failed while the
sector of `b` was being rewritten, the factory's; `cut[b]` says that this happened and `b` was not saved since.

Abstractions.  A payload is a version: of the features' choice the feature itself, of the tracker's data the
whole image in RAM; `NoMagic` is the version of data that were never loaded (see the finding of
`TimeTracker_history`), which saves an image without magic.  The version is fixed at the call, as in `Storage`.  The
host's new session, which changes data in RAM and saves nothing until the next tick's save
(`time_tracker.cpp:389`), and the date are left out.

### TimeTracker

`data` and `flash` are the blob in RAM and in flash.  A handler up to its first
`sleep_ms` is one action; what it has left to do is the sequence `todo`, which
`HandlerStep` consumes, and `Tick` may come between any two of its statements.
Entering a session is such a sequence (`Enter`) although nothing sleeps in it: after
`MoveToNextSession` (`active_session++`) come `StopTracking`, the LEDs off,
`ResetSession` (times and tracking flags), then, after the loops that compute the date,
`ClearMark` for each of the two marks.  A tick in between counts or marks on an entry that is half
the old one's, and may save it.  Key actions: `Toggle` (keys 0 and 1, short),
`CancelNextSession` (key 0, short, while a confirmation is awaited), `ShowSession`
(key 1, long), `ShowHours` (key 2, short), `AskConfirmation`, `KeyNextSession` (key 2).
Host: `NewSession`, `SetThreshold`, `ChangeColor`, `FactoryInit`, `Erase`, `SwitchFeature`.
The host's session, threshold and colour commands work whatever the current feature is, as
`FeaturesHandler::set_cmd` and `TextMode` let them.

`overtaken` is a history variable: the last question lost its object, because the host began a session
or the tracker started again before the answer.  Nothing in the code remembers that.

Abstractions.  Time counts ticks of 250 ms; `work_time_us` and
`meeting_time_us` are their sum, which is all the thresholds look at.  The date of
a session is left out, but not the time it takes to compute.  The stores merged in one step are: the two
times and two flags of `ResetSession`, where a tick in between does nothing, since `stop_tracking`
came before and no valid entry tracks both kinds; the flags of `Toggle` and its LEDs, where a tick
between the two flags counts for neither kind and the model's for one of them; the answer of
`CancelNextSession`, where a tick counts nothing until tracking resumes (it may mark a threshold; see
the LEDs put aside under Findings).  `timer` also stands for the LED mode and for the key
interrupts, which are switched together with it.  A dark LED has no colour: `off`.  Each blink of the model
lights its key green, where the code sets the colour once before it blinks: no property looks
at the key between two blinks.  Storage is atomic, which is what `BlobStore`
promises except for a power loss in the middle of a save.  Uninitialised RAM
at a boot is a member of `Garbage` (no magic), or what survived a warm reset.  After
`erase` the blob has no magic, and its other fields do not matter.  Ticks beyond
`MaxTime` are not added.

### Buttons

One function per field of `ButtonState_t`; `timers[k]` are the repeating timers alive
for key `k`, at most `MaxTimers`.  `GpioCallback`, `DebounceTimer`, `LongPressTimer` are
atomic to each other (interrupts of one priority).  The key's interrupt is
level-triggered and raised again as soon as it returns, so the main loop stands
still while a key is down and interrupts are on: `MainRuns`.  `TakePending` is the scan of
`get_pending_button` with the copy of the key's state, `ClearPending(field)` one
of the three stores of `clear_pending`, in any order since the compiler may reorder plain
stores, `Handled` the rest of the handler.  `elapsed` is the difference the long-press
callback computes, saturated at the delay; a wrap of the 32-bit clock makes the
64-bit difference huge, so it sets `elapsed` to the delay.  `pressed_for` is a history
variable: the time since the oldest live timer's press began.

A contact that bounces is `Press` and `Release` at any time: a pulse shorter than
the debounce delay counts as a short press, as in the code (and in the diagram of
`docs/hardware/buttons.md`, although its text says that noise is filtered).

`SetLongPressDelay` is the terminal's `long_press_ms`; it takes effect at the next check of a timer that
is already running, as the callback reads the delay each time.  `LongestDelay` only bounds the counters.

### Terminal

`Receive` is one pass of the loop of `CdcDevice::task`: a byte is read and goes to `BinaryMode::handle`
(`BinaryByte`, `BinaryPacket`, `BinaryStops`) or `TextMode::handle` (`TextEnter`,
`TextBackspace`, `TextChar`), as `ToBinary` says.  `answers` are the commands that ran since the
current message began.  `Send` and `Cut` are the host, which may be stopped in the middle of a
message and go on with another.  What a command changes is not repeated here: those are
the host's actions of `TimeTracker` and the erase of `Storage`.

Abstractions.  A text command is one printable byte, the length field and the
checksum are one unit each, so that a message is cut before or after its checksum and never inside of its four bytes; payload
sizes are scaled (`MCTerminal`).  A checksum is a
unit of the stream that carries the bytes it `covers`: it fits those and no others, which a real
CRC32 does but for one case in 2^32; taken for anything else it reads as `CrcByte`.  An answer is the
command with its status; the bytes of the response are left out, since
the code returns a span of a destroyed vector and what is sent is unspecified.  The status
`ERROR` is left out because the tracker's `get_cmd` and `set_cmd` always succeed for these commands.  Sizes are
computed modulo `SizeModulus`, as `size_t` does, and a packet buffer beyond `Heap`
bytes stops the firmware: nothing catches what `push_back` throws, nor what
the payload's vector throws if the size wrapped below header and checksum
(`PayloadImpossible`).  `StoppingWords` are `reset` and a `color` command whose
key is not a number (`stoul` throws before the check).

### Leds and Keyboard

`Leds` is `leds_task`: `BeginPass` reads the mode, `UpdateLed` writes the next LED in RAM from the key, or
from the flag, as it is now, `Refresh` pushes all to the strip.  Core 0 and the user change `leds_mode`, `enabled`,
`color` and `down` in between.  `Keyboard` adds ctrl_c_v: `Handle` reads the keys (`get_pressed_key`), `SendKeys` is
`send_keys` with the modifiers read later; `outbox` is the report that TinyUSB holds until `HostPolls`, `host` what the
host makes of it.  `SwitchFeature` is `switch_to_feature` with each feature's `init` and `deinit` as far as keys and LEDs
see them; `FactoryInitFeatures`, `TrackerLed` and `ChangeColor` are the other writers of the LEDs.

Abstractions.  Colours are names.  `get_btn_id` and `is_btn_pressed` map a key to itself: the three values differ.
Modifiers are one flag, since the configuration has one.  An unplugged device
keeps running (it may be powered otherwise); the host releases all keys when it is gone.  `hid_task` polls at any
time: its 10 ms and the bursts after a long handler are among these times.  A switch is one step, since
no LED stays as a pass in its middle left it.

### Clock

`synced_time` is what the host set, `elapsed` what passed since.  `ReadDate` starts
`get_current_date_and_time`; each round of its first loop is a `YearStep`, of its second a `MonthStep`, with time
and syncs going on meanwhile; `Date` is the result.  Time counts days, since all that the loops subtract is whole
days; hour, minute and second are divisions of what is left.  The host may set any day: the year wraps at
`YearModulus`, 2^16 in the code, as `uint16_t` does, and the loop goes on from the year 0.  The wrap of the
64-bit microseconds themselves, some 292,000 or 584,000 years away, is not modelled.
`DateRight` compares with `DayNumber`, the calendar counted by closed formulas: each date exists in the calendar,
and is the right one if its year fits.

## 3. Runs

| run | question | answer |
|---|---|---|
| `Storage_safe` | is storage the atomic blob map, with saves from the interrupt, erases and power losses at every step? is core 1 ever in `leds_task` while flash is written? (its sleep and loop outside of `leds_task` are not asked about) | `TypeOK`, `LedsNeverDuringFlashWrite`, `OneSaver`, `ImplementsBlobStore` hold; 554,100 states |
| `Storage_selflock` | with the tracker's timer armed, does each call return? | no: see Findings |
| `TimeTracker_keys` | are thresholds marked, and are marks without their time explained, with ticks between the stores of a new session and at each sleep, and power losses? | `TypeOK`, `ThresholdsMarked` hold; 4,224,166 states |
| `TimeTracker_host` | keys, all host commands but those of thresholds, colours, switches and power losses from either feature, in any order | `ExclusiveTracking`, `PersistLag`, `TimerOnlyForTracker`, `LedsShowTracking` hold; 5,236,894 states |
| `TimeTracker_live` | does tracked time reach flash, and is the long threshold marked though a tick marks only one? | `TrackedTimeSaved`, `LongThresholdDetected` hold; 100,899 states |
| `TimeTracker_history` | a statement of the documentation | violated: see Findings |
| `Buttons_race` | one bouncing key against the stores of `clear_pending` | `TypeOK`, `DebouncingHasTimer`, `LongPressDuration`, `PressReported` hold; 83,734 states |
| `Buttons_taken` | is each report taken? | `ReportTaken` holds; 24,744 states |
| `Terminal_stream` | text and packets in one stream, with cut messages: right answers, no wrong ones, and back in step? | `TypeOK`, `PacketCanEnd`, `InSyncAnswered`, `CrcProtects`, `EventuallyInSync` hold; 34,651 states |
| `Firmware_boot` | power-ups, switches and commands over every step of `Storage`, with a power loss anywhere: what does a power-up find, and does main come back (every call returns, if no timer is armed)? | `FwTypeOK`, `LastSaveSurvives`, `TornOnlyIfCut`, `RunningIsStored`, `ReturnsToLoop` hold; 131,337 states |
| `Keyboard_host` | keys, passes of core 1, polls, suspension, unplugging and switches in any order | `KbTypeOK`, `ReleaseOwed`, `LedsSettle`, `HostSettles` hold; 325,632 states |
| `Clock_dates` | dates at the ends of months, years, leap years and centuries, and beyond the last year that fits | `ClockTypeOK`, `DateRight` hold; 17,364 states |

Bounds, and why they are enough.

- *Storage*: two sectors of two slots, as many as tell a neighbour in the sector from a
  slot elsewhere; two pages, so that a program can stop in the middle of a blob;
  the four blobs in their real slots; versions 0..2, two of which can differ from
  what is stored, and three boots (`init_count` is blob 0's payload).
- *TimeTracker*: two sessions make the ring wrap at once; a save interval of one tick
  has an unsaved tick and a save; times of 0..2 ticks with thresholds at 1 and
  2 let a tick reach neither, one or both.  `TimeTracker_host` keeps thresholds
  out of reach (2 with times up to 1) and the threshold commands out, because its properties do not depend on the marks
(the theorems about them cover all commands, and `SetThreshold` fires in `TimeTracker_live`); one colour the host may set
tells its own from the tracker's.
  `TimeTracker_live` has one session, so a slot is reused by itself,
  thresholds set in both orders and equal.
- *Buttons*: delays in the firmware's order (debounce <= check <= long press), scaled
  to 1, 1 and 3 ticks (2 with two keys); the host sets the delay to 1 or 3 at any time.  Three timers for one key, one more than the
  race needs; two keys with one timer each, since starvation does not need the race.
- *Terminal*: two cuts, so that a message can be taken up wrongly by one that is cut itself; payloads hold
  the bytes that mean something elsewhere (header, enter, backspace); a line of two characters;
  a memory of 11 bytes and sizes modulo 16, so that bytes taken for a length
  announce packets that end, that exceed the memory, and that wrap (15).
- *Firmware*: the four blobs in two sectors, the count of boots beside the features' choice and the
  keys beside the tracker's data, so that each kind of neighbour is there; two versions of tracker data; one
  power loss, after which the whole power-up is explored, and which may come in the save of the power-up itself; a second loss
  in the power-up after the first is left to the theorems, which allow any number; `MaxData` allows three power-ups.
- *Keyboard*: the three keys of the configuration with their roles; one LED, since a pass treats each by itself; two
  colours tell a stale one from a new one.
- *Clock*: days at which a leap rule applies or just does not, each with three days to run over a boundary; the year
  wraps before 2104, a leap year as 65536 is, so that the days around the wrap are reached in a few hundred steps; the
  proof covers all other days and the code's own modulus.

Deadlock is checked in all runs but four.  In `Terminal_stream` a command or a lack of memory
stops the firmware.  In `Storage_safe`, `Storage_selflock` and `Firmware_boot`
the device really hangs (the first finding); the bound on the boot counter
also ends behaviours.

Fairness.

- *Storage*: each context goes on (WF), and core 1 leaves `leds_task` (WF).  Core 1 sleeps for
  80 ms between two passes while core 0 spins on the mutex, so core 0 finds it free
  again and again: SF of `MutexEnter` and `EraseAllEnter`.  Core 1 has no such
  guarantee, and nothing is claimed of it.
- *Firmware*: each context goes on (SF of `SaveGoesOn`, for the same reason), main goes on (SF of `MainStep`: the
  tracker's interrupt preempts it every 250 ms for a save at most, so it is not kept from its next step for ever),
  core 1 leaves `leds_task` (WF).  No fairness of the host, of ticks or of power.
- *Keyboard*: WF of `Handle` and `SendKeys`, the main loop polls; WF of `HostPolls`, an active bus is polled; WF of
  `Core1`, whose pass gets the mutex as long as core 0 does not save without a pause.  Nothing of users, switches and the
  bus; the liveness properties speak of behaviours in which these stop.
- *TimeTracker*: WF of `Tick`, an armed repeating timer; WF of a handler's statements,
  `sleep_ms` returns.  No fairness of keys or host.
- *Buttons*: WF of time and of each key's timer callbacks.  While a key is down the
  main loop stands still, so its statements get SF together with the assumption
  that the user lets go of all keys again and again (`[]<>` all up), each time for long enough.
  `ReportTaken` excuses the case where keys with lower ids are reported
  again and again during handlers: the scan starts at the lowest id, and those
  do starve the others.
- *Terminal*: WF of `Receive`, the main loop polls the port; WF of `Send`, the host always has more to say, since
  what is left in the buffer goes away only with more bytes.  `EventuallyInSync` is about hosts that send
  clean messages from some time on (not cut, `HEADER_1` only in front); a host that
  always sends `HEADER_1` inside of packets can keep the terminal out of step.

### Findings

| run | code | what happens |
|---|---|---|
| `Storage_selflock` | `storage.cpp:175` | the timer's save waits for the mutex held by the main loop it preempted, on the same core: the device hangs |
| `TimeTracker_history` | `time_tracker.cpp:399` | a threshold command when the tracker has not been started since boot saves uninitialised RAM over the history |

Other deviations that the same modules exhibit when asked, with the formula to ask:

- A slot counts as empty when it is not tracking, whatever time it holds (`time_tracker.cpp:184`): a full history is
  overwritten without a question, against `docs/features/time_tracker.md:79` ("When the next session slot is not empty, the user
  will be asked"): in `TimeTracker` with two sessions, `[][KeyNextSession /\ ~awaiting_confirmation => Active(data').time = 0]_vars`.
- A long press detected between the stores of `clear_pending` loses its mark and is handled as a short one
  (`buttons.cpp:134`), against `docs/hardware/buttons.md:58`: in `Buttons` with `MaxTimers = 2`,
  `[][\A k \in Keys : is_long_press[k] /\ is_pending_handle[k] /\ is_pending_handle'[k] /\ "is_pending_handle" \notin taken.clear
  => is_long_press'[k]]_vars`.
- A key held during a switch away from ctrl_c_v stays pressed for the host until ctrl_c_v is the feature again
  (`ctrl_c_v.hpp:38`: its `deinit` is empty): in `Keyboard`, `HostSettles` with
  `host.key = "NONE" \/ host = Physical` for its conclusion.  `HostSettles`
  says that this is all: nothing stays pressed after the switch back.
- A threshold marked while LEDs are put aside, or before hours are blinked, leaves its
  LED dark for good (`time_tracker.cpp:172`), against `docs/features/time_tracker.md:75`: in
  `TimeTracker_keys`, `Idle /\ feature = "time_tracker" /\ ~awaiting_confirmation /\
  Active(data).medium_threshold_reached => leds[FUNCTION_KEY_ID] \in {"yellow", "red"}`.
- `docs/terminal/binary_mode.md:9` says that binary mode lasts "until a complete packet is
  processed or the communication is reset"; nothing resets it: in `Terminal`, binary mode survives every
  `Send`.  Its table gives `INVALID_PAYLOAD` as 0x01 where the code has 0x02.
- `docs/terminal/text_mode.md:87` promises an error message for an invalid button id; `stoul`
  stops the firmware for one that is not a number: `StoppingWords` in `Terminal`.
- `factory_init_features` stops the tracker and does not start it again, while it stays
  the current feature: `feature = "time_tracker" => timer` with `"factory_init"`
  among the host's commands.
- A confirmation that is pending when the feature is switched, when the host begins a session (`time_tracker.cpp:389`) or
  re-initialises is still pending afterwards (`time_tracker.cpp:189`); a cancel then restores the LEDs of before, so that
  the key of a kind that is not tracked is lit: `LedsShowTracking` without `overtaken \/`, in `TimeTracker_host`.  What is
  tracked is right all the same, and its key is lit (`ExclusiveTracking`, `LedsShowTracking`).
- A tick between the stores of `initialize_new_session` may save the new session with its times at zero and the marks
  of the session that had the slot before (`time_tracker.cpp:288`, `:293`).  The handler then clears the marks in RAM only: a power loss before the
  next save leaves a new session whose threshold LED is lit from its start and does not say when the threshold is reached, against `docs/features/time_tracker.md:75`: in
  `TimeTracker_keys`, `\A s \in Sessions, mark \in Marks : flash.tracking_entries[s][mark] = Reached(flash, s, mark)`.
- A power loss during a save of another blob of the same sector destroys the saved time:
  the `Exposed` slots of `BlobStore`.
- A bounce between the stores of `clear_pending` starts a second timer, and one press
  is reported twice: `|Alive(k)| <= 1` in `Buttons` with `MaxTimers = 2`.
- A wrap of the 32-bit clock during a press makes it long at once (`buttons.cpp:193`): `LongPressDuration` with
  `ClockWraps = TRUE`.
- `SYNC_TIME` takes any time (`binary_mode.cpp:180`), and the year is a `uint16_t` (`time.cpp:73`, `:80`): from 65536 on
  the date is one of the year 0 and later, with the leap years of those years: `DateRight` without
  `asked < DaysBeforeYear(YearModulus) =>`.

## 4. Proofs

The theorems hold for all values of the constants that satisfy the named
assumption of the module (`StorageConstants`, `TimeTrackerConstants`,
`ButtonsConstants`, `TerminalConstants`, `FirmwareConstants`, `LedsConstants`, `KeyboardConstants`, `ClockConstants`), which say no more than what the comments on the constants do.

| theorem | statement | argument |
|---|---|---|
| `StorageProofs!SpecTypeOK`, `SpecLedsNeverDuringFlashWrite`, `SpecOneSaver` | types; core 1 is never in `leds_task` during a flash write; one saver | one invariant `IInv`: types, `OneSaver`, who owns the mutex (`core0` if a context is past `mutex_enter`, `core1` exactly if it is in `leds_task`), the pages left to program lie in the sector image, and what the boot's progress says of `s_config`.  Ownership is what makes both exclusion properties inductive; the boot part is what keeps the boot counter in its type |
| `StorageProofs!SpecImplementsBlobStore` | a save replaces its blob, whole, at one moment between call and return; a power loss damages only the sector being rewritten | `PagesInv` with `IInv`: what is to be written is what the caller passed; the image in RAM holds the pages of flash from before, and the blob's new ones once patched; between erase and the last page, every page of the sector is either still to program and erased, or programmed with the image's. The save takes effect at the erase of the sector, from where on the image is what the refinement shows to clients (`Store`); all other steps of it stutter. `OneSaver` is used at each of them: the steps of one context leave the image of the other alone |
| `TimeTrackerProofs!SpecTypeOK` | the session index stays in the ring, the tick count in its interval | inductive as it stands, with `data` as a whole record |
| `SpecExclusiveTracking` | work and meetings never tracked at once, in RAM or in flash | `ExclusiveInv` adds `AwaitingQuiet`: while a confirmation is awaited, the active entry tracks nothing, or the statement that empties it is about to run. Without it a cancelled confirmation could resume one kind beside the other |
| `SpecPersistLag` | flash lacks at most `intervals_count` ticks of any session | inductive with `ExclusiveInv` |
| `SpecTimerOnlyForTracker` | no feature but the tracker has the timer | inductive as it stands |
| `SpecThresholdsMarked` | assuming that `"set_threshold"` is not among the host's commands and that the defaults differ and are not zero (`DefaultsApart`; 6 h and 7.5 h in `time_tracker_types.hpp:38`): no session, in RAM or in flash, has reached a threshold unmarked, and one that is marked before its time is being entered, or is marked so in flash too | `MarksInv`: types; `Entered`, that a handler which has come to the marks of a new session has one whose times are 0 and which tracks nothing, so no tick can reach a threshold whose mark is about to be cleared; `Kept`, that valid data have the default thresholds, that what they reached is marked (`Known`), and where early marks come from (`EarlyExplained`). A tick tests one threshold only, so it needs that it cannot reach both. With the host's command the property is not one: time beyond the new threshold is not marked |
| `SpecLedsShowTracking` | whenever no handler uses the LEDs and no answer is awaited, the key of what is tracked is lit, and that of what is not is dark unless the last question was overtaken; for all keys and host commands, colours included | `ShownInv`: `ExclusiveInv`, and `Display`, that the tracker is in one of five states of its display, told by the LED statements still to run: `Steady` (LEDs right), `Asking` (the LEDs set aside show what a cancel would resume, or the question was overtaken), `Numbering` (hours or session shown, LEDs right in what was set aside), `Leaving` and `Arriving` (the two halves of a change of session, at whose end nothing is tracked and all is dark). What a handler's statements do is stated by lemmas on the sequence left |
| `ButtonsProofs!SpecTypeOK`, `SpecDebouncingHasTimer` | no key is left debouncing without a timer | with types; a report ends both the flag and the timer, and only a callback of a live timer restarts one |
| `SpecLongPressDuration` | assuming `ClockWraps = FALSE`, a press is long only after the delay | the invariant `elapsed <= pressed_for` for a key with a long-press timer |
| `SpecPressNotDropped` | a timer of a key ends only with a report of it; a report is cleared only when main took that key | by cases on the steps, from the types |
| `TerminalProofs!SpecTypeOK` | buffers, line and answers keep their types | lemmas give the types of what is sent (`UnitsType`) and answered (`HandleBinaryPacketType`) |
| `SpecPacketCanEnd` | the packet buffer never outgrows the announced packet, and only one that exceeds the memory stops the firmware in binary mode | inductive with types: the announced size does not change after the header (`AnnouncedSizeKept`) and does not wrap if it fits (`FittingSize`), so the buffer meets it exactly |
| `SpecCrcProtects` | no binary command runs but the one that was sent, and once, wherever the terminal took up the stream | `CrcInv`: the only checksum among the units left is the last, and covers the message (`ChecksumLast`); before it is read no binary command has run for this message (`NoneYet`). A packet that is answered ends with a checksum that covers what is before it, which is then the message, though the buffer may have held bytes of others |
| `SpecInSyncAnswered` | a message that finds nothing left over is answered once, as it was sent, with its last byte; assuming that there is memory for its packets (`PacketsFit`; the firmware stops at one that does not fit) | `SyncInv`: what is buffered followed by what is left is the message (`Unread`). So the announced size is the message's own, the buffer meets it with the last byte and no sooner (`PacketRead`), and a byte of a word is never taken for a header (`TextRead`) |
| `SpecStaysInSync`, `SpecUncutAnswered` | once nothing is left over between two messages, it remains so while the host is not stopped in the middle of one; a host that never is has every message answered, from power-up on; with `PacketsFit` | `Calm`: between messages both buffers are empty, and a message under way began so. Kept by every step but `Cut` |
| `FirmwareProofs!FwImplementsStorage`, `FwOneSaver` | each step of the firmware is one of `Storage`, so `OneSaver` holds of it | by cases on main's steps; the blobs that main saves are those that `Storage` allows, which needs the types |
| `SpecFwTypeOK`, `SpecLastSaveSurvives` | a power-up finds the version of the last save, or of one that a loss was writing, for every layout of flash and number of losses | `FwInv`: `IInv` of Storage, the versions a client ever saves (`ExpectedAllowed`), and `DurableInv`: the version of a call in progress is expected; the image in RAM holds what is expected, and the new version once patched; flash is as far as the pages left to program say; outside of a rewrite it holds what is expected.  The image is the point: it is written over the neighbours of the blob, so what it holds of them must still be what they were last saved as, which `OneSaver` gives |
| `SpecTornOnlyIfCut`, `SpecRunningIsStored`, `FwImplementsBlobStore` | a blob is of one version unless power was cut in its own rewrite; the feature that runs is the one that is stored; the firmware's storage is `BlobStore` | `WholeInv`: `FwInv`, `PagesInv`, and two parts about what a client would find in flash (`Store`), which changes as `BlobStore` says: `TornInv`, that it is of one version or marked as cut, and `AgreeInv`, that once main has chosen the feature, the stored one is the same, is missing, or is about to be saved by a call in progress, and that no call saves another |
| `KeyboardProofs!SpecKbTypeOK`, `SpecReleaseOwed` | no key the host takes for pressed is forgotten | inductive with types; `ReleaseOwed` speaks of the report that waits, too, since it is what the host will hold next |
| `SpecPassMakesLedsRight` | after the last change of keys, flags, colours and mode, a pass that begins makes all LEDs right, and they stay right | `PassCurrent`: the LEDs behind the pass are right for the mode it read, which is still the mode. What a pass of an older mode writes is replaced by the next one |
| `SpecReportMakesHostRight` | after the last change of keys, feature and bus, a key that is read, reported and polled is what the host has, and stays so | `Reported`, with `ReleaseOwed`: `send_keys` leaves out a release only if none is owed, so the host has none pressed; and `NoModifierAlone`: a modifier is reported beside a key only |
| `ClockProofs!SpecClockTypeOK`, `SpecDateRight` | the index of the months' table stays within it and each date read exists in the calendar, for every day the host may set; it is the calendar's own date if its year is below `YearModulus` | two parts. `InCalendar`: what is left is less than a year once the first loop ends, and less than the rest of that year in the second, so the table is not left, even in a year that a wrap led to. `Distance`, for days whose year fits: what the loops have subtracted is `DaysBeforeYear` of the year and `DaysBeforeMonth` of the month reached, and the year has not wrapped, since the days of all the years up to it are among those asked for.  The closed formulas grow by the length of a year since a quotient grows exactly where the division is even (`DivStep4`, `100`, `400`) |

`StorageConstants` is also an assumption of `FirmwareProofs`.  `KeyboardProofs` holds for every number of LEDs and
every set of colours, with the three keys of the configuration.

Only model-checked: liveness (`TrackedTimeSaved`,
`LongThresholdDetected`, `PressReported`, `ReportTaken`, `EventuallyInSync`, `ReturnsToLoop`, `LedsSettle`, `HostSettles`),
which is out of the prover's reach as it needs ENABLED. All the invariants of the runs, and the refinement, are proved. Of all but `ReturnsToLoop`, the part
that is safety is proved: `SpecPersistLag` and `SpecThresholdsMarked` for the two of the tracker, `SpecPressNotDropped`, `SpecStaysInSync`,
`SpecPassMakesLedsRight`, `SpecReportMakesHostRight`; what they leave to TLC is that the steps they speak of come. The
theorems with hypotheses (`SpecLongPressDuration`, `SpecThresholdsMarked`, `SpecInSyncAnswered`)
have none that the runs that check the same properties do not meet.

## 5. Not modelled

- A cut inside of the four bytes of a checksum or of a length (each is one unit in `Terminal`), and a wrap of the 64-bit
  microseconds in `Clock`.
- Torn reads of the 64-bit times by halves; the heap errors in `debounce_timer_callback`
  (a timer freed before the SDK writes to it) and in `create_binary_response` (a span of a
  destroyed vector): lifetime errors of the language, no protocol shows them.
- The tables of `usb_descriptors.cpp`, which never change, and the glue around TinyUSB; host scripts, build and
  container files.
- Code without a caller: `Leds::blink`, `enable_all`, `disable_all`, `KeysConfig::led_toggle`, saves of key colours and
  values (`save` is never true).
- Texts: logs, reports and the lines of the terminal, but for what decides which command runs.

## 6. Plan

Done: all modules above, with their runs and proofs.

To be proved next: what `ReturnsToLoop` has of safety (a call of main is always at a statement with a next step, or waits for a
mutex that another context holds), and how a terminal out of step gets back to `Calm` (a packet's buffer that is complete is emptied,
and enter empties the line).
