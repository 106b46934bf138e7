# Verification of odp-platform-common

TLA+ models, TLC runs and TLAPS proofs for the firmware recovery stack of this
repository: the NVMe boot partition storage library, the capsule update that
writes it, and the two boot managers that boot from it; and for the EC test
tools: their serial, ACPI, Windows and mock sources, the TUI and the test
scripts. `PROJECT.json` maps every
definition to the lines it models and lists the runs, the hazards they are
aimed at, the mutants that show that each property can fail, and the theorems.

## The system

| Part | State it keeps | Operations | How it interacts | What makes it correct |
|---|---|---|---|---|
| `SrePkg/Library/SreStorage` | open session, partition, block index; in the controller: write protection, staged image, two boot partitions | Info, Read, WriteOpen, WriteBlock, WriteClose, WriteAbort, Lock | admin commands to the NVMe controller, which may fail or take effect although they report an error | a partition only ever holds whole images; a sealed partition does not change, whatever the lock event interrupts |
| `SrePkg/Library/SreFmpDeviceLib` | last attempt variable; locals of an update | SetImage, CheckImage, GetVersion, Lock | drives the storage library; the lock event can interrupt an update; power can fail anywhere | success means both partitions hold the capsule; no failure leaves a session open or hangs |
| `patina_boot` helpers and policy | EndOfDxe / ReadyToLock, connected devices, watchdog | enter_locked_boot, connect_all, boot_from_device_path, discover and fallback options | called by the boot managers; start images that may return, hang or write variables | no image before the platform is locked; no image unwatched; fallback honours the policy |
| `patina_sre` boot manager | locals of `execute`, boot variables, boot partition 1 | BDS entry to boot, park or reset | uses the helpers and the recovery flow; capsule processing resets the machine | every configured path is tried, USB tools are not re-run, every boot ends |
| `patina_sre` recovery flow | RAM disk interfaces and the buffer behind them | read partition, register, chainload, teardown | publishes a raw pointer to firmware drivers | a published interface is backed by live memory |
| `patina_boot` simple boot manager, dispatcher | boot configuration, handle count, devices left | the default orchestrator: connect and dispatch until nothing is new, hotkey, one attempt per device | same helpers; the dispatcher runs whichever orchestrator the platform gave it | same guarantees of an image as the SRE boot manager; every device tried before the failure handler; late drivers get connected |
| `ec/test-lib` serial transport | port, mutex | request and response per call | EC firmware, timeouts, late replies | a reply answers the request it was sent for |
| `ec/test-lib` ACPI and Windows sources | none | one driver call per method, decoding, conversion, UCSI mailbox | driver buffers that may be malformed or stale | an answer is taken only when it is well formed and belongs to the call; conversions round-trip |
| `ec/test-lib` mock | battery cycle, temperature and fan ramps, thresholds, RTC | the same calls | time | its fan follows the thresholds it reports |
| `ec/test-tui` | per-domain state behind RwLocks, command channels, sample and log buffers | five updater tasks, UI thread with popups | share the source and the states | nothing torn shown, no value older than the newest good answer, dots that follow their own calls, no command lost, repeated or overtaken, every draw ends, buffers keep the newest |
| `ec/test-script`, `ec/test-cli` | variables, pass/fail counts, exit status | parse, execute, run a directory | call the source | a row names its line, a failing row is counted, a passing clock setter was carried out |
| `NvmeBpWrite` and the C recovery loaders | boot partition, a content check | discover, unlock, flash, verify, reset | run from USB as an image | a partition is reflashed when and only when it has to be |
| `patina_tianocore`, demos, scripts | none of their own | forwarding, build steps | | not modelled |

What is hard to test here: power loss between two device commands, commands
whose completion is lost, a lock event in the middle of an update, one of two
partitions failing, images that return after changing what the boot manager
has already read, interfaces half installed or half removed, and the
combination of all of it with the watchdog. On the EC side: a UI that draws
while updaters write, one of several calls of a poll failing, mailbox and
driver answers that belong to another call, buffers at their capacity.

## Modules

```
SreUpdate            what an update promises: two registers replaced as a whole
SreStorage           storage library + controller
  SreStorageProofs
  SreFmpDevice       update and lock on top of SreStorage; refines SreUpdate
    SreFmpDeviceProofs       (on SreStorageProofs)
    MCSreFmpDevice
BootHelpers          security transition, connect, watchdog, options, policy
  BpRecovery         run_sre_flow and the RAM disk's lifetime
    SreBootManager   execute, resets, and the composition of all three
      SreBootManagerProofs
      MCSreBootManager
  SimpleBootManager  the default orchestrator
BootDispatcher       either orchestrator (SreBootManager, SimpleBootManager)
  BootDispatcherProofs       (on SreBootManagerProofs)
  MCBootDispatcher
SerialTransport      the shared serial port of the EC source
  SerialTransportProofs
  MCSerialTransport
EcState              the TUI's states, sample and log buffers, what panels show
EcMock               the mock source's state machines
EcUcsi               a USB-C snapshot over the UCSI mailbox
EcPanels             polls over all three
  EcPanelsProofs
  MCEcPanels
EcTui                the TUI's threads, locks, channels and popups
  EcTuiProofs
  MCEcTui
EcAcpi               decoding of driver answers, conversions
  ScriptLang         the script language: statements, grammar, tables
    TestScript       execution against a source, counting, exit status
      TestScriptProofs
      MCTestScript
```

**SreStorage** has the library's globals under their own names (`mIsWriteOpen`,
`mPartitionIndex`, `mBlockIndex`, `mIsSupported`) and the controller as `wps`,
`staging` and `flash`. Each public function is an action with the returned
`EFI_STATUS` as its parameter, so a client composes with it by naming the
status it branches on. The controller is external and modelled from the
commands the library sends: Set Features and Firmware Commit may report an
error and still have taken effect, a partition locked until power cycle accepts
nothing else, and a power cycle write-locks both partitions and can tear the
one being committed. `SreStorageWriteOpen` is cut at its Set Features command:
`mIsWriteOpen` is checked before the wait (line 533) and set after it (546), and
the lock event can run in between. `opening` and `openStatus` are the call that
waits. `accepted`, `sealed` and `overtaken` (a lock command was sent to the
partition that is being opened) are history variables. Left out:
transfer sizes, alignment and the identify data behind `mBlockSize`.

**SreFmpDevice** cuts `FmpDeviceSetImageWithStatus` at every call that can
change the controller: `ApplyOpen` and `ApplyOpened`
(before and after the wait of WriteOpen), `ApplyBlock` (one turn of the loop),
`ApplyClose`, `ApplyAbort`, `StoreLastAttempt`. Bytes are tagged with the
capsule and their position, so a shifted, unpadded or mixed block is told from
the right one; `Installed(c)` states the expected partition without the loop.
`FmpDeviceLock` is an event callback that runs to completion between two
commands of an update or in the wait of WriteOpen's. (In the other waits of a
session `mIsWriteOpen` is TRUE, so the event does there what it does before or
after the command.) `PowerLoss` composes the library's `PowerCycle` with the
loss of the update's locals; only the flash and the UEFI variable survive.
The `EFI_UNSUPPORTED` exit of the block loop is dead for the geometry of
`GeometryAssumption` and is left out.

**SreUpdate** is the abstract specification: an update is pending or not, each
register is replaced as a whole, success is reported only when both hold the
pending capsule, sealed registers stay, a power loss can spoil one register
and only during an update. `ImplementsSreUpdate` is the refinement, with the
block images mapped to factory, capsule or spoiled.

**BootHelpers** keeps the platform state. `boot_from_device_path` is a small
machine (`bootPc`: load, arm, running, disarm, returned) because the image it
starts runs in between and can return, boot, hang, or write `bootOrder` and
boot partition 1. Functions whose error is only logged have success and failure
lead to the same control state. `readyToBoot` tells whether ReadyToBoot was
signalled, every attempt so far failed, or none was made: the orchestrators only
log the failure and boot. `connect_all` is modelled by its outcome;
device path expansion by `Reachable`; `discover_boot_options` and
`fallback_boot_options` by the set of results they may return.

**BpRecovery** tracks, for each RAM disk of a boot, whether Block IO and device
path are published and whether the buffer is allocated. The partition read is
one step that succeeds or fails.

**SreBootManager** has one action per stage of `execute`, with its locals
(`bp_has_sre`, `pass`, `tried_any`, `hotkey`) under their names. A reset keeps
the boot variables and the partition. Console discovery and the boot logo are
left out: they change nothing the properties see. The button latch is a choice
made when it is probed, and the Secure Boot variables one made when the
fallback reads them.

**SimpleBootManager** counts handles instead of naming them:
`interleave_connect_and_dispatch` is `ConnectRound` and `DispatchRound` until
the count taken after a round is the one before it, and `unbound` remembers
that a driver came in after the last connection. Drivers are external: a
connection may create handles and remove others, and so may a dispatch, in which
a driver that stays brings at least its own. Since the code compares two totals,
a handle that goes hides one that comes; `lost` remembers that one went, and
`DriversGetConnected` is stated for the rounds in which none did.
The security transition, the images and the watchdog are those of
`BootHelpers`. The platform's failure handler runs in one step.

**BootDispatcher** composes the two orchestrators over the same firmware: one
is chosen at the start and executed at BDS entry, again after every reset, and
its error parks the CPU (`OnError`).

**SerialTransport** is `Serial::send` as run by the threads that hold a clone of
the `Serial`: lock, clear, write, read packets, each of which can fail and
drops the guard. A frame carries the request it answers as a tag the code does
not see: only the service and the response variant are compared. The line
has the part of the input that has arrived, which the clear removes, and the
part that has not, of which the clear can take the first bytes (`Fragment`). The
EC, external, answers in order, in one or two packets, with an error, or not
at all. Frames are atomic: the 256-byte frame buffer is not modelled.

**EcState** has the five states of `state.rs` as records, one operator for each
store an updater makes (`poll_bst`, `thermal_update`, `rtc_update`, ...), and
for each panel the part of it that is computed: the status dot, the zone, the
percentage (modulo 2^32, as the code's `u32` product), the chart, the session
statistics with their sum and average (in whole units). The
thermal card of the dashboard names the fan's zone by comparing its RPM with
the temperature thresholds, where the Thermal tab compares the temperature;
both are modelled as they are. Layout, units and the network panel are left
out.

**EcMock** is the mock's battery cycle and its two ramps, in whole seconds and
units; time passes in `Pause`. **EcUcsi** is one snapshot: four commands
through a mailbox whose answers, external, can be wrong in the ways the code
checks, or be those of an earlier command. **EcPanels** polls these: one action
per updater, with any one of its calls or all of them failing, the log entries
they cause, and user commands. `last` (the last answer to each call), `known`
(the newest good answer) and `hist` are history. `ShownIsLatest` says what a
green dot vouches for, and by that what it does not: BIX figures in the
battery's card, which is green on BST alone; bounds and levels in the thermal
card; the levels and the temperature that name the zone in the Fan block. Those
may be older than the last poll, but never older than the newest good answer.

**EcTui** cuts the UI thread and the updaters at every lock. A draw takes the
read locks of its tab one by one; the battery updater calls the EC between
taking the write lock and dropping it, the others before. A user's value goes
through popup, channel, call and store: `accepted` and `made` are the values
confirmed and the values the EC was called with. A trip point is parsed as a
`u32`, a fan limit as an `f64` (`parse`), and a limit of zero or less shows as
no override. Of the data it keeps what can be torn. A reader that waits behind
a waiting writer, which `std::sync::RwLock` allows, is an ordinary wait here,
because no thread takes a lock twice.

**EcAcpi** decodes a driver buffer given as its header's validity, its
arguments' types, lengths and words, and the bytes it has too many or too few.
Temperatures are hundredths of a degree instead of `f64`, so `c_to_dk` and
`dk_to_c` are exact rationals.

**ScriptLang** splits a file of tokens into statements as `parse` does, line by
line, each line by repeated `cut`s at its first terminator, and has the grammar
as tables (`Signature`, `parse_verb`) over already split words.
**TestScript** runs a directory: any statement of the instance may be the one
on a line, executed against the firmware, which is external and may answer any
call wrongly, having carried it out or not. `row`, `starts`, `bad_rows` and
`captured` are history; `FirstTokens` finds where statements start without
the parser's loop.

## Runs

| Run | Shows | Bounds |
|---|---|---|
| `storage_lib` | any client, any order of calls, the lock event in the wait of a WriteOpen, failing commands, power loss | 2 blocks per partition, 2 block contents: enough for a session to be incomplete, complete, overlaid on another's staging |
| `fmp_update` | `SuccessInstallsBoth`, `NoSessionWhenIdle`, `WritableOnlyAfterCommit`, `LockSealsBoth`, the refinement, `UpdateReturns`, `UpdateAdvances` (every step brings the return nearer) | 2 blocks of 2 bytes, descriptor in the last byte; capsules that end inside a block, fill the partition, and do not fit; 2 updates with power lost at any point of the second or after it, or 1 update with power lost before, in or after it (an update that follows a torn one is left to the theorems); any number of lock events |
| `fmp_esrt_version` (violation) | ESRT version taken from partition A, boot from partition B | 1 update, no power loss |
| `sre_boot` | of either orchestrator `LockedWhenRunning`, `WatchdogGuardsImages`, `ReadyToBootFirst`, `BootEnds`, `BootMovesOn` (every firmware step leaves less of the boot to do); of the SRE boot manager `TeardownKeepsLive`, `UsbSkipped`, `FallbackHonoursPolicy`, `GivesUpOnlyAfterTrying`; of the simple one `FailureAfterAllDevices`, `DriversGetConnected` | three simple configurations (no hotkey, one with its own list, one with an empty list) and up to 3 handles that come or go, enough for a connection and two dispatches that each add one, or for one that hides another; a disk, a USB stick, a firmware volume, the RAM disk; three boot orders (empty, USB only, disk then USB); three configurations that between them turn every option on and off; any number of resets; at most `MaxDispatch` rounds that dispatch a driver |
| `sre_boot_last_resort` (violation) | last resort before `main_os_path` was tried | same |
| `ram_disk_rollback` (violation) | Block IO published over a freed buffer | same |
| `serial_exchange` | `CleanStartAnswersOwn`: on a quiet line a call gets its own reply or an error; `CallsReturn` | 2 threads, 3 calls in all (one to leave a reply behind, one to meet it, one more to contend for the port); requests of two services, two variants of one |
| `serial_stale_reply` (violation) | a late reply answers the next request of its kind | same, two requests that differ in the variable they name |
| `ec_tui` | `PopupOnSelectedTab`, `NoTornBattery`, `DisplayMatchesEc`, `CommandsInOrder`, `DrawEnds`, `CommandsReachEc` | battery and thermal (the three domains without commands share no state, and take their locks as thermal does); two commands, so that one can overtake, repeat or swallow another, each of which may fail; the values 0 (shown as no override) and 5; one capacity, told from the initial one; any number of polls, draws and key presses. Negative values, which only the fan popup parses, and the other domains are left to the theorems |
| `ec_panels` | `ShownIsLatest`, `WindowIsTail`, `LogShowsNewest`, `ZoneMatchesFan` | charts of 2, a log of 3 in a panel of 2 rows, so that both overflow; 6 steps of the mock, long enough for its battery cycle to turn and its ramps to settle, and 3 of an EC |
| `test_script` | `LineIsStart`, `ExitMeansAllPassed`, `OkMeansApplied`, `ThresholdRoundTrip` | two files: every text of a line of up to three and one of up to two tokens with at most two terminators, or three statements in a row; 28 statements that use every target, form and verb and every method but `get_min_rpm` (decoded as `get_max_rpm` is), some of them ill-formed; 2^32 is scaled to 2^24, above every value that occurs |
| `script_is_err` (violation) | `is_err` passes on a projection that fails | same |

The five violations are disagreements between code and the text beside it; the
`findings` of `PROJECT.json` quote both sides.

Deadlock is checked except in `sre_boot`, where a booted operating system and a
parked CPU are final, in `serial_exchange` and `ec_panels`, where the calls run
out, and in `test_script`, which ends.

**Fairness.** `SreFmpDevice`: the update code is sequential and keeps running
(strong fairness, because lock events suspend it again and again), and a lock
callback finishes. `BootDispatcher`: the orchestrator keeps executing, and an
armed timer fires in the end. `SimpleBootManager`'s loop ends in the model
because the handles that come or go are bounded by `MaxHandles`; the code has no
limit of its own. Nothing is assumed of images, of the device's
answers, or of the user. `BootEnds` counts a reset as an end: a device whose
images always hang resets for ever, which is what the watchdog is for.
`SerialTransport`: a thread in a call keeps running, and a read ends at the
timeout; nothing is assumed of the EC. The calls are bounded by `MaxCalls`, so
`CallsReturn` does not speak of a thread that is overtaken at the mutex for
ever, against which `std::sync::Mutex` promises nothing. `EcTui`: a draw that
has its locks ends, the event wait ends at its tick, and a thread that waits
for a lock gets it when it is free again and again (strong fairness for
`draw_lock` and for the updaters): a holder drops its guard after each draw or
update and then waits for an event or sleeps, and the drop wakes the waiter.

## Proofs

Every safety invariant and every action property of the passing runs is a
theorem, for every value of the constants that meets their `ASSUME`s. The type
invariants of `SreFmpDevice`, `BootDispatcher` and `EcTui` are proved rather
than checked by a run. Each proof has the same shape: an inductive invariant
that conjoins named parts, one lemma or step per action, and the property read
off at the end. The parts say what a reader of the code has to know to believe
the property.

**`SreStorageProofs`**, for every partition size and every set of block
contents. `StorageInv` conjoins `StorageTypeOK`, `SessionHoldsUnlock`,
`StagedIsAccepted`, `SealedIsLocked` (a sealed partition is locked until power
cycle) and `OpeningInv` (a WriteOpen that will report success has unlocked its
partition, unless the lock event overtook it; `SessionHoldsUnlock` has the same
exception). `CommitsWholeSession` follows because what a commit copies is what
the session accepted (`StagedIsAccepted`); `SealedIsFrozen` because a sealed
partition is locked (`SealedIsLocked`), and the controller commits nothing to a
locked one, whatever session is open. Assumptions: a partition has at least
one block, and `Undefined` is no block content.

**`SreFmpDeviceProofs`**, for every block size and count, descriptor offset and
set of capsules, with the lock event and power loss at any point. `FmpInv` adds
to `StorageInv`: the open session is that of the apply in progress
(`SessionInv`); the loop's `BlockIndex`, `ImageBytes` and `RemainingToWrite`
agree with the library's own block counter (`LoopInv`); every block sent is the
block of `Installed(capsule)`, which is stated without the loop (`AcceptedInv`,
resting on the arithmetic lemmas on blocks and offsets); a status that is still
`SUCCESS` vouches for the partitions already done (`DoneInv`); an unlocked
partition is committed or being written (`UnlockInv`); a lock half done has
sealed A (`LockInv`). From it: `SuccessInstallsBoth`, `NoSessionWhenIdle`,
`WritableOnlyAfterCommit`, `LockSealsBoth`, `TypeOK`, `UpdateAdvances` (the
loop's index stays below the number of blocks, so `StepsLeft` goes down with
every call, failed or not), and
`FmpImplementsSreUpdate`: the initial states map to initial states of
`SreUpdate` and every step to a step of it or a stutter. Assumptions:
`GeometryAssumption` (the descriptor lies inside one block, as `0x4400` and 32
bytes do for every multiple of 4 KiB) and `CapsuleAssumption` (a capsule is not
empty, and images with the same payload have the same size).

**`SreBootManagerProofs`**, for every set of devices, boot orders,
configurations and policies. `BootInv` gives `LockedWhenRunning`,
`WatchdogGuardsImages` and `ReadyToBootFirst`: it says where `execute` is when a
call is outstanding (`LockInv`), that the recovery flow has a call of its own
only while it chainloads (`OneCall`), and why each path that does not signal
ReadyToBoot comes after one that does (`ReadyInv`). `SreInv` adds: what is
published between the two halves of `register_ram_disk` and until teardown
(`DiskInv`, for `TeardownKeepsLive`); that the probe, once made, has found the
payload or failed, so every later list is filtered (`UsbInv`, for `UsbSkipped`);
that every discovered entry is handled or still queued (`TriedInv`, for
`GivesUpOnlyAfterTrying`); that the candidates left are the policy's, in the
Secure Boot state read for them (`FallbackInv`, for `FallbackHonoursPolicy`).
The lists of fallback candidates are recursive functions, and their contents are
proved by induction over the volumes. Assumptions: `DeviceAssumption`,
`RamDiskAssumption`, `ManagerAssumption`; of these, that the OS and the SRE
application are not on USB is needed for `UsbSkipped`.

**`BootDispatcherProofs`**: `DispatcherInv` is the invariant of the chosen
orchestrator with the other one idle. `SreInv` is reused unchanged. The simple
boot manager brings `SimpleLockInv`, `SelectInv` (the devices left and those
tried make up the selected list, in order) and `InterleaveInv` (as long as no
handle went, the present count is the compared one plus what came since, so an
equal count means that no driver came in). From it the helpers' three
guarantees hold of either orchestrator (`HelpersKeepTheirPromises`), those of
the SRE boot manager under the dispatcher (`SrePromisesCompose`), and
`FailureAfterAllDevices`, `DriversGetConnected` and `DispatcherTypeOK`.
`BootMovesOn` is the part of `BootEnds` that needs no fairness: a triple of
naturals (phase and pass, what is left in the queue or list or of the handles,
what is left of the outstanding call) shrinks lexicographically with every step
of the firmware. It needs `OneCall`, that a round of the interleaving that does
not end it has moved at least one handle (`churn` grows), and that a pass is
begun below the limit. Only a running image stands still, and only a capsule or
the watchdog goes back to the start.

**`SerialTransportProofs`**, for any number of threads and calls. `SerialInv`:
exactly the thread in an exchange holds the port (`MutexInv`, which gives
`ExchangesExclude`), a thread in a call has a request and a number (`CallInv`),
every frame but a fragment names a call (`Whole`), and in an exchange that began
on a quiet line only its own request and its answer are under way (`CleanInv`).
The last is what makes `CleanStartAnswersOwn` inductive: a reply to another call
cannot be on the line, so the missing check of the request does not matter.

**`EcTuiProofs`**, for every order of the panels and every set of values.
`TuiInv`: a lock is held by whoever is in its section (`LockInv`), the UI holds
none outside a draw (`HeldInv`), a good battery reading is ahead of the chart
only between `poll_bst` and the sample (`SampleInv`), the command in hand is
the EC's last call (`InHandInv`), and the EC is ahead of the display only while
the updater has one in hand (`StoredInv`). From it `PopupOnSelectedTab`,
`NoTornBattery`, `DisplayMatchesEc` and `TypeOK`. `CommandsInOrder` is
inductive with the types.

**`EcPanelsProofs`**, for every chart size, log capacity, panel height and set
of readings. `PanelsInv` says of each part of a state that it is the newest
good answer and that its flag tells whether the last call was answered
(`BatInv`, `ThmInv`, `RtcInv`, `UcsiInv`), that a sample buffer is the tail of
the whole history with its running statistics (`BufOf`), that the log stays
within its capacity (`LogInv`), and where the mock's ramps go (`MockInv`). From
it `ShownIsLatest`, `WindowIsTail`, `LogShowsNewest` and `ZoneMatchesFan`.
Assumptions: capacities and panel height are not zero, `NoRpm`, which stands
for `None`, is not an RPM a user can set.

**`TestScriptProofs`**, for every directory, script and driver answer.
`CountInv` relates the counts to the files with a failed row and gives
`ExitMeansAllPassed`. `OkMeansApplied`, which is about the clock setters, needs
no strengthening but the type of `source`; its weight is in the lemmas on
decoding, that a malformed buffer, whichever way it is broken, is not decoded
as success. `BoundInv` says that names are bound to values and one captured
from a threshold to that threshold in degrees, and gives `ThresholdRoundTrip`
by the arithmetic of `c_to_dk` and `dk_to_c`. `LineIsStart` relates the parser,
which goes line by line, cuts a line at its terminators and joins an open
statement to the next line, to `FirstTokens`, which looks at the file as one
sequence of tokens with their line numbers. The lemmas go along both: what a
`cut` leaves of a line reads on where the statement ended (`CutReads`,
`TurnReads`), a line then leaves the parser where the flattened file is
(`LineReads`), and so to the end of the file (`FileReads`, `LinesMatch`).
`Recursion` gives the values of a function defined by recursion over an initial
part of the naturals. Assumptions: a directory has a file, a file is a sequence
of lines of tokens, number literals are numbers, 2^32 is positive and above the
default threshold.

### What proving changed

- `ThresholdRoundTrip` was false for temperatures beyond what 32 bits of
  deci-Kelvin hold, where `c_to_dk` saturates; the nearest-value part now says
  so (`dk_to_c(0)..dk_to_c(U32 - 1)`). No instance had reached the limit.
- A capsule had no stated shape and could be empty; `NoRpm` could be an RPM;
  the OS path could be on a USB device; a directory could be empty. These
  became assumptions, each with the reason beside it.
- Overlapping `CASE` guards, whose value TLA+ leaves open, became `IF` chains in
  the order of the code's `match` arms.
- A lock event inside the wait of `SreStorageWriteOpen` leaves a session open on
  a sealed partition. `SessionHoldsUnlock` names that exception; nothing is
  written to the partition (`SealedIsFrozen` holds).
- A program counter value of the boot manager was unreachable and is gone.
- The parser and its reference folded and sorted over sequences; both are
  recursive functions now, nearer to the code's own loop: `find` for
  `str::find`, `cut` for one turn of the inner loop, `joined` for the carried
  buffer. Terminators and comment signs are named tokens.
- Filters and folds over lists in the modules proved about are recursive
  functions, and `HashMap::insert` is `insert`, because the library's
  definitions take operators as parameters, which the provers cannot
  instantiate. What a recursive function computes is proved by induction over a
  set of naturals (`InductionOnNat`, from the least counterexample).

### Only model-checked

Liveness under fairness (`UpdateReturns`, `BootEnds`, `CallsReturn`,
`DrawEnds`, `CommandsReachEc`), which this prover does not do. For the first
two the proofs give the decreasing measure (`UpdateAdvances`, `BootMovesOn`),
and what is left to TLC is that the steps are taken. The violation runs are
counterexamples and have nothing to prove.

## Plan

1. Done: storage library, capsule update, both boot managers with the recovery
   flow and the dispatcher, all EC sources, the TUI, the test scripts; theorems
   for every safety and action property of the passing runs.
2. The serial framing at the buffer limit; `NvmeBpWrite` composed with the
   controller of `SreStorage`; which of two RAM disks a second recovery flow
   chainloads from.
3. Algorithms over bounded inputs: load option and device path parsing, path
   expansion, RAM disk block bounds, the chunked partition read.

## Not modelled

- `patina_tianocore` (a forwarding shim), `SreStorageNullLib` (constant stubs),
  the demo drivers, the build and staging scripts: no state of their own.
- `NvmeBpWrite` and the C recovery loaders: a flashing image in `BootHelpers`
  stands for the first, the Rust flow in `BpRecovery` replaces the others.
- Of `patina_boot`: console discovery, which only writes the console variables;
  the bytes of device paths and load options; the rounds inside `connect_all`.
- Of the EC tools: layout, colours and wording; the network panel; the decoded
  fields of USB-C answers; the encoding of ACPI requests; `f64`: temperatures
  are exact hundredths and averages whole units, so a drift by rounding in
  `c_to_dk` and NaN are outside the model; the CLI's single-call and `eval`
  commands; scripts over the serial source, whose exchange is
  `SerialTransport`.

Reasons per component are in `PROJECT.json`.
