------------------------ MODULE BootDispatcherProofs ------------------------
(***************************************************************************)
(* The composition: whichever orchestrator BootDispatcher was given, what  *)
(* the helpers promise of every image holds, over any number of resets.    *)
(* The SRE boot manager brings SreInv; here are the invariant of the       *)
(* simple boot manager and the fact that neither touches the other.        *)
(***************************************************************************)
EXTENDS BootDispatcher, SreBootManagerProofs

\* Every device is attempted with the LockedBoot capability in hand.
SimpleLockInv ==
  /\ simplePc = "readyToLock" => endOfDxe
  /\ simplePc \in {"select", "devices", "exhausted"} => endOfDxe /\ readyToLock
  /\ bootPc # "idle" => simplePc = "devices" /\ readyToBoot # "no"

(* Before the selection nothing was attempted; from then on what was       *)
(* attempted and what is left make up the list that was selected.          *)
SelectInv ==
  /\ simplePc \in {"start", "connect", "dispatch", "endOfDxe", "readyToLock",
                   "select"} => attempted = <<>>
  /\ simplePc \in {"devices", "exhausted"} =>
       /\ attempted \o boot_devices = Selection(simpleConfig, pressed)
       /\ pressed => simpleConfig.hotkey
  /\ simplePc = "exhausted" => boot_devices = <<>>
  /\ attempted # <<>> => readyToBoot # "no"

(* The count the loop compares with is above the present one only where a  *)
(* handle went, so an equal one means that none came; and where nothing    *)
(* came or went it is the present one.                                     *)
InterleaveInv ==
  /\ simplePc = "connect" => prev_handle_count = handles /\ prev_churn = churn
  /\ simplePc = "dispatch" =>
       /\ prev_churn <= churn
       /\ prev_churn = churn => prev_handle_count = handles
       /\ lost \/ prev_handle_count <= handles
  /\ DriversGetConnected

SimpleInv ==
  /\ SimpleTypeOK /\ SimpleLockInv /\ WatchdogGuardsImages
  /\ SelectInv /\ InterleaveInv

\* What the orchestrator that was not chosen looks like.
SreIdle == TypeInv /\ pc = "start" /\ flowPc = "idle" /\ disks = <<>>
SimpleIdle == SimpleTypeOK /\ simplePc = "start"

DispatcherInv ==
  \/ orchestrator = "sre" /\ SreInv /\ SimpleIdle
  \/ orchestrator = "simple" /\ SimpleInv /\ SreIdle

-----------------------------------------------------------------------------
\* BDS entry, at power-on or after a reset.
LEMMA EntryTypes ==
  ASSUME SimpleEntered, simpleConfig \in SimpleConfigs
  PROVE  SimpleTypeOK'
<1>1. 0 \in 0 .. MaxHandles
  BY SimpleAssumption
<1>2. boot_devices' \in Seq(Path) /\ attempted' \in Seq(Path)
  BY EmptySeq DEF SimpleEntered
<1>3. /\ handles' \in Int /\ prev_handle_count' \in Int
      /\ churn' \in 0 .. MaxHandles /\ prev_churn' \in 0 .. MaxHandles
  BY <1>1 DEF SimpleEntered
<1> QED
  BY <1>2, <1>3 DEF SimpleEntered, SimpleTypeOK

(* Either orchestrator enters BDS in a state of the invariant.             *)
LEMMA InitDispatcherInv == DispatcherInit => DispatcherInv
<1> SUFFICES ASSUME DispatcherInit
             PROVE  DispatcherInv
  OBVIOUS
<1>1. SreInv /\ pc = "start" /\ flowPc = "idle" /\ disks = <<>>
  BY InitSreInv DEF DispatcherInit, Init, FlowInit
<1>2. SimpleTypeOK
  <2>1. 0 \in 0 .. MaxHandles
    BY SimpleAssumption
  <2>2. boot_devices \in Seq(Path) /\ attempted \in Seq(Path)
    BY EmptySeq DEF DispatcherInit, SimpleInit
  <2>3. /\ handles \in Int /\ prev_handle_count \in Int
        /\ churn \in 0 .. MaxHandles /\ prev_churn \in 0 .. MaxHandles
    BY <2>1 DEF DispatcherInit, SimpleInit
  <2> QED
    BY <2>2, <2>3 DEF DispatcherInit, SimpleInit, SimpleTypeOK
<1>3. WatchdogGuardsImages
  BY <1>1 DEF SreInv, BootInv
<1>4. SimpleLockInv /\ SelectInv /\ InterleaveInv
  BY DEF DispatcherInit, Init, HelpersInit, SimpleInit, SimpleLockInv,
     SelectInv, InterleaveInv, DriversGetConnected
<1> QED
  BY <1>1, <1>2, <1>3, <1>4
     DEF DispatcherInit, DispatcherInv, SimpleIdle, SreIdle, SimpleInv, SreInv, SimpleInit

-----------------------------------------------------------------------------
USE DEF SimpleAt

\* The count moves by at most the churn, and down only where a handle goes.
LEMMA HandlesMove ==
  ASSUME MaxHandles \in Nat, handles \in Int, churn \in Nat,
         NEW came \in 0 .. MaxHandles, NEW gone \in 0 .. MaxHandles,
         HandlesChange(came, gone)
  PROVE  /\ handles' \in Int /\ churn' \in 0 .. MaxHandles /\ churn <= churn'
         /\ churn = churn' => handles' = handles
         /\ gone > 0 \/ handles <= handles'
BY DEF HandlesChange

\* interleave_connect_and_dispatch.
LEMMA InterleaveKeepsSimpleInv ==
  ASSUME SimpleInv, total_handle_count \/ ConnectRound \/ DispatchRound
  PROVE  SimpleInv'
<1> USE DEF SimpleInv, SimpleTypeOK, SimpleLockInv, WatchdogGuardsImages,
            SelectInv, InterleaveInv, DriversGetConnected, InterleaveFails
<1> USE DEF helperVars, lockVars, callVars, nvVars, selectVars
<1>0. /\ handles \in Int /\ prev_handle_count \in Int /\ MaxHandles \in Nat
      /\ churn \in Nat /\ prev_churn \in 0 .. MaxHandles
  BY SimpleAssumption
<1>1. CASE total_handle_count
  <2>1. /\ loopFailed' \in BOOLEAN /\ UNCHANGED <<handles, churn, lost, unbound>>
        /\ \/ simplePc' = "endOfDxe" /\ loopFailed' /\ UNCHANGED prevVars
           \/ simplePc' = "connect" /\ prev_handle_count' = handles /\ prev_churn' = churn
    BY <1>1 DEF total_handle_count, TakeCount, countVars
  <2> QED
    BY <1>0, <1>1, <2>1 DEF total_handle_count, prevVars
<1>2. CASE ConnectRound
  <2>1. PICK came \in 0 .. MaxHandles, gone \in 0 .. MaxHandles :
          HandlesChange(came, gone) /\ lost' = (gone > 0)
    BY <1>2 DEF ConnectRound
  <2>2. /\ handles' \in Int /\ churn' \in 0 .. MaxHandles
        /\ lost' \in BOOLEAN /\ churn <= churn'
        /\ churn = churn' => handles' = handles
        /\ lost' \/ handles <= handles'
    <3>1. /\ handles' \in Int /\ churn' \in 0 .. MaxHandles /\ churn <= churn'
          /\ churn = churn' => handles' = handles
          /\ gone > 0 \/ handles <= handles'
      BY <1>0, <2>1, HandlesMove
    <3>2. lost' = (gone > 0)
      BY <2>1
    <3>3. lost' \in BOOLEAN /\ (gone > 0 => lost')
      <4>1. CASE gone > 0
        BY <3>2, <4>1
      <4>2. CASE ~(gone > 0)
        BY <3>2, <4>2
      <4> QED
        BY <4>1, <4>2
    <3> QED
      BY <3>1, <3>3, Zenon
  <2>3. simplePc = "connect" /\ prev_handle_count = handles /\ prev_churn = churn
    BY <1>2 DEF ConnectRound
  <2>4. /\ loopFailed' \in BOOLEAN /\ unbound' \in BOOLEAN /\ UNCHANGED prevVars
        /\ (simplePc' = "endOfDxe" /\ loopFailed') \/ simplePc' = "dispatch"
    BY <1>2 DEF ConnectRound
  <2> QED
    BY <1>0, <1>2, <2>2, <2>3, <2>4 DEF ConnectRound, prevVars
<1>3. CASE DispatchRound
  <2>1. PICK came \in 0 .. MaxHandles, gone \in 0 .. MaxHandles :
          /\ HandlesChange(came, gone)
          /\ lost' = (lost \/ gone > 0) /\ unbound' = (came > 0)
    BY <1>3 DEF DispatchRound
  <2>2. /\ handles' \in Int /\ churn' \in 0 .. MaxHandles
        /\ lost' \in BOOLEAN /\ unbound' \in BOOLEAN
    <3>1. handles' \in Int /\ churn' \in 0 .. MaxHandles
      BY <1>0, <2>1, HandlesMove
    <3>2. lost' \in BOOLEAN
      BY <2>1
    <3>3. unbound' \in BOOLEAN
      BY <2>1
    <3> QED
      BY <3>1, <3>2, <3>3
  <2>3. ~lost' /\ handles' = prev_handle_count => ~unbound'
    <3> SUFFICES ASSUME ~lost', handles' = prev_handle_count
                 PROVE  ~unbound'
      OBVIOUS
    <3>1. ~lost /\ ~(gone > 0)
      BY <2>1, Zenon
    <3>2. prev_handle_count <= handles
      BY <1>3, <3>1 DEF DispatchRound
    <3>3. ~(came > 0)
      BY <1>0, <2>1, <3>1, <3>2 DEF HandlesChange
    <3> QED
      BY <2>1, <3>3
  <2>4. CASE /\ simplePc' = IF Settled(handles, handles') THEN "endOfDxe"
                                                          ELSE "connect"
             /\ TakeCount /\ UNCHANGED loopFailed
    <3>1. prev_handle_count' = handles' /\ prev_churn' = churn'
      BY <2>4 DEF TakeCount
    <3>2. CASE handles' = prev_handle_count
      <4>1. simplePc' = "endOfDxe" /\ (lost' \/ ~unbound')
        BY <2>3, <2>4, <3>2, Zenon DEF Settled
      <4> QED
        BY <1>0, <1>3, <2>2, <2>4, <3>1, <4>1 DEF DispatchRound
    <3>3. CASE handles' # prev_handle_count
      <4>1. simplePc' = "connect"
        BY <2>4, <3>3 DEF Settled
      <4> QED
        BY <1>0, <1>3, <2>2, <2>4, <3>1, <4>1 DEF DispatchRound
    <3> QED
      BY <3>2, <3>3
  <2>5. CASE InterleaveFails
    BY <1>0, <1>3, <2>2, <2>5 DEF DispatchRound, prevVars
  <2> QED
    BY <1>3, <2>4, <2>5 DEF DispatchRound
<1> QED
  BY <1>1, <1>2, <1>3

(* The transition and the selection.                                       *)
LEMMA SelectKeepsSimpleInv ==
  ASSUME SimpleInv, SimpleEndOfDxe \/ SimpleReadyToLock \/ SelectDevices
  PROVE  SimpleInv'
<1> USE DEF SimpleInv, SimpleTypeOK, SimpleLockInv, WatchdogGuardsImages,
            SelectInv, InterleaveInv, DriversGetConnected
<1> USE DEF helperVars, lockVars, callVars, nvVars, selectVars,
            interleaveVars, countVars, prevVars
<1>1. CASE SimpleEndOfDxe
  BY <1>1 DEF SimpleEndOfDxe, signal_bds_phase_entry, OnError
<1>2. CASE SimpleReadyToLock
  BY <1>2 DEF SimpleReadyToLock, install_dxe_smm_ready_to_lock, OnError
<1>3. CASE SelectDevices
  <2>1. /\ simpleConfig.devices \in Seq(Path)
        /\ simpleConfig.hotkey_devices \in Seq(Path)
        /\ simpleConfig.hotkey \in BOOLEAN
    BY SimpleAssumption
  <2>2. pressed' \in BOOLEAN /\ (pressed' => simpleConfig.hotkey)
    BY <1>3, <2>1 DEF SelectDevices, detect_hotkey
  <2>3. boot_devices' = Selection(simpleConfig, pressed') /\ UNCHANGED <<attempted, simpleConfig>>
    BY <1>3 DEF SelectDevices
  <2>4. boot_devices' \in Seq(Path) /\ attempted = <<>>
    BY <1>3, <2>1, <2>3 DEF SelectDevices, Selection
  <2>5. attempted' \o boot_devices' = Selection(simpleConfig', pressed')
    BY <2>3, <2>4, ConcatEmptySeq
  <2> HIDE DEF SelectInv, InterleaveInv, DriversGetConnected
  <2>6. SelectInv'
    BY <1>3, <2>2, <2>3, <2>4, <2>5 DEF SelectInv, SelectDevices
  <2>7. InterleaveInv'
    BY <1>3 DEF InterleaveInv, DriversGetConnected, SelectDevices
  <2> QED
    BY <1>3, <2>2, <2>4, <2>6, <2>7 DEF SelectDevices
<1> QED
  BY <1>1, <1>2, <1>3

(* The device loop: the head moves from one list to the end of the other.  *)
LEMMA DevicesKeepSimpleInv ==
  ASSUME SimpleInv,
         \/ TryDevice \/ DeviceReturns \/ DevicesExhausted \/ handle_failure
         \/ (CallStep \/ ImageStep) /\ UNCHANGED simpleVars
  PROVE  SimpleInv'
<1> USE DEF SimpleInv, SimpleTypeOK, SimpleLockInv, WatchdogGuardsImages,
            SelectInv, InterleaveInv, DriversGetConnected
<1> USE DEF helperVars, lockVars, callVars, nvVars, selectVars,
            interleaveVars, countVars, prevVars, simpleVars
<1>1. CASE TryDevice
  <2> DEFINE d == Head(boot_devices)
  <2>1. /\ boot_devices \in Seq(Path) /\ boot_devices # <<>>
        /\ attempted \in Seq(Path)
        /\ boot_devices' = Tail(boot_devices) /\ attempted' = Append(attempted, d)
        /\ UNCHANGED <<simpleConfig, pressed, simplePc>> /\ simplePc = "devices"
    BY <1>1 DEF TryDevice, NextDevice
  <2>2. /\ d \in Path /\ boot_devices' \in Seq(Path) /\ attempted' \in Seq(Path)
        /\ boot_devices = <<d>> \o boot_devices'
    BY <2>1, HeadTailProperties
  <2>3. attempted' = attempted \o <<d>>
    BY <2>1, <2>2, AppendIsConcat
  <2>4. attempted' \o boot_devices' = attempted \o boot_devices
    <3>1. <<d>> \in Seq(Path)
      BY <2>2
    <3>2. \A s, t, u \in Seq(Path) : (s \o t) \o u = s \o (t \o u)
      BY ConcatAssociative, SMTT(60)
    <3>3. (attempted \o <<d>>) \o boot_devices' = attempted \o (<<d>> \o boot_devices')
      <4>1. attempted \in Seq(Path) /\ boot_devices' \in Seq(Path)
        BY <2>1, <2>2
      <4> HIDE DEF d
      <4> QED
        BY <3>1, <3>2, <4>1, Zenon
    <3> QED
      BY <2>2, <2>3, <3>3
  <2>5. readyToBoot' # "no"
    BY <1>1 DEF TryDevice, signal_ready_to_boot
  <2>6. SelectInv'
    BY <2>1, <2>4, <2>5
  <2> HIDE DEF SelectInv
  <2> QED
    BY <1>1, <2>1, <2>2, <2>6
       DEF TryDevice, signal_ready_to_boot, boot_from_device_path
<1>2. CASE DeviceReturns
  BY <1>2 DEF DeviceReturns, BootReturns
<1>3. CASE DevicesExhausted
  BY <1>3 DEF DevicesExhausted
<1>4. CASE handle_failure
  BY <1>4 DEF handle_failure
<1>5. CASE (CallStep \/ ImageStep) /\ UNCHANGED simpleVars
  <2>1. CASE LoadImage
    BY <1>5, <2>1 DEF LoadImage
  <2>2. CASE ArmAndStart
    BY <1>5, <2>2 DEF ArmAndStart
  <2>3. CASE DisarmWatchdog
    BY <1>5, <2>3 DEF DisarmWatchdog
  <2>4. CASE ImageExits
    BY <1>5, <2>4 DEF ImageExits
  <2>5. CASE ImageBoots
    BY <1>5, <2>5 DEF ImageBoots
  <2>6. CASE ImageWrites
    BY <1>5, <2>6 DEF ImageWrites
  <2> QED
    BY <1>5, <2>1, <2>2, <2>3, <2>4, <2>5, <2>6 DEF CallStep, ImageStep
<1> QED
  BY <1>1, <1>2, <1>3, <1>4, <1>5
-----------------------------------------------------------------------------
(* What the simple boot manager does is typed for the state it shares.     *)
LEMMA SimpleKeepsHelperTypes ==
  ASSUME HelpersTypeOK, SimpleTypeOK, SimpleStep
  PROVE  HelpersTypeOK'
<1>1. CASE UNCHANGED helperVars
  BY <1>1, IdleTypes
<1>2. CASE ConnectRound
  BY <1>2, ConnectTypes DEF ConnectRound
<1>3. CASE SimpleEndOfDxe
  BY <1>3, LockTypes DEF SimpleEndOfDxe
<1>4. CASE SimpleReadyToLock
  BY <1>4, LockTypes DEF SimpleReadyToLock
<1>5. CASE TryDevice
  <2>1. Head(boot_devices) \in Path
    BY <1>5, HeadTailProperties DEF TryDevice, SimpleTypeOK
  <2>2. readyToBoot' \in ReadyToBootState
    BY <1>5, SignalTypes DEF TryDevice
  <2> QED
    BY <1>5, <2>1, <2>2, StartTypes DEF TryDevice
<1>6. CASE CallStep \/ BootReturns
  BY <1>6, CallTypes
<1> QED
  BY <1>1, <1>2, <1>3, <1>4, <1>5, <1>6
     DEF SimpleStep, total_handle_count, DispatchRound, SelectDevices,
         DeviceReturns, DevicesExhausted, handle_failure

\* An idle SRE boot manager stays idle while its variables do not change.
LEMMA SreStaysIdle ==
  ASSUME SreIdle, HelpersTypeOK', UNCHANGED sreOnlyVars
  PROVE  SreIdle'
BY DEF SreIdle, TypeInv, TypeOK, FlowTypeOK, ManagerTypeOK, PassInv,
       sreOnlyVars, flowVars, managerVars, preVars, loopVars, bootVars

\* A reset of the machine leaves both at BDS entry.
LEMMA ResetKeepsDispatcherInv ==
  ASSUME DispatcherInv, MachineResets
  PROVE  DispatcherInv'
<1>1. /\ Reset /\ SimpleEntered /\ UNCHANGED orchestrator
      /\ UNCHANGED <<bootOrder, bp1Payload>> /\ WatchdogFires
  BY DEF MachineResets, WatchdogFires, nvVars
<1>2. simpleConfig \in SimpleConfigs
  BY DEF DispatcherInv, SimpleInv, SimpleIdle, SimpleTypeOK
<1>3. SimpleTypeOK' /\ simplePc' = "start"
  BY <1>1, <1>2, EntryTypes DEF SimpleEntered
<1>4. CASE orchestrator = "sre"
  <2>1. SreInv /\ Next
    BY <1>1, <1>4 DEF DispatcherInv, Next
  <2> QED
    BY <1>1, <1>3, <1>4, <2>1, StepKeepsSreInv DEF DispatcherInv, SimpleIdle
<1>5. CASE orchestrator = "simple"
  <2>1. TypeInv
    BY <1>5 DEF DispatcherInv, SreIdle
  <2>2. bootOrder' \in BootOrders /\ bp1Payload' \in BOOLEAN
    BY <1>1, <2>1 DEF TypeInv, TypeOK, HelpersTypeOK
  <2>3. TypeInv'
    BY <1>1, <2>1, <2>2, ResetKeepsTypeInv
  <2>4. SreIdle'
    BY <1>1, <2>3 DEF SreIdle, Reset, FlowEntered
  <2>5. WatchdogGuardsImages'
    BY <1>1, ResetKeepsInv DEF BootInv
  <2>6. SimpleLockInv' /\ SelectInv' /\ InterleaveInv'
    BY <1>1 DEF Reset, HelpersEntered, SimpleEntered, SimpleLockInv,
       SelectInv, InterleaveInv, DriversGetConnected
  <2> QED
    BY <1>1, <1>3, <1>5, <2>4, <2>5, <2>6 DEF DispatcherInv, SimpleInv
<1> QED
  BY <1>4, <1>5 DEF DispatcherInv

(* A step of either orchestrator, of an image or of the watchdog.          *)
LEMMA StepKeepsDispatcherInv ==
  ASSUME DispatcherInv, [DispatcherNext]_dispatcherVars
  PROVE  DispatcherInv'
<1>1. ASSUME orchestrator = "sre", SreInv, SimpleIdle, [Next]_vars,
             UNCHANGED <<simpleVars, orchestrator>>
      PROVE  DispatcherInv'
  <2>1. SimpleIdle'
    BY <1>1 DEF SimpleIdle, SimpleTypeOK, simpleVars, interleaveVars,
       countVars, prevVars, selectVars
  <2> QED
    BY <1>1, <2>1, StepKeepsSreInv DEF DispatcherInv
<1>2. ASSUME orchestrator = "simple", SreIdle, SimpleInv', HelpersTypeOK',
             UNCHANGED <<sreOnlyVars, orchestrator>>
      PROVE  DispatcherInv'
  BY <1>2, SreStaysIdle DEF DispatcherInv
<1>3. CASE SreExecutes
  BY <1>1, <1>3 DEF SreExecutes, DispatcherInv, Next
<1>4. CASE SimpleExecutes
  <2>1. SimpleInv /\ SreIdle /\ HelpersTypeOK /\ SimpleTypeOK
    BY <1>4 DEF SimpleExecutes, DispatcherInv, SreIdle, TypeInv, TypeOK, SimpleInv
  <2>2. SimpleInv'
    BY <1>4, <2>1, InterleaveKeepsSimpleInv, SelectKeepsSimpleInv,
       DevicesKeepSimpleInv DEF SimpleExecutes, SimpleStep
  <2>3. HelpersTypeOK'
    BY <1>4, <2>1, SimpleKeepsHelperTypes DEF SimpleExecutes
  <2> QED
    BY <1>2, <1>4, <2>1, <2>2, <2>3 DEF SimpleExecutes
<1>5. CASE ImageActs
  <2>1. ImageStep /\ UNCHANGED <<sreOnlyVars, simpleVars, orchestrator>>
    BY <1>5 DEF ImageActs
  <2>2. CASE orchestrator = "sre"
    BY <1>1, <2>1, <2>2 DEF DispatcherInv, Next, sreOnlyVars
  <2>3. CASE orchestrator = "simple"
    <3>1. SimpleInv /\ SreIdle /\ HelpersTypeOK
      BY <2>3 DEF DispatcherInv, SreIdle, TypeInv, TypeOK
    <3>2. SimpleInv' /\ HelpersTypeOK'
      BY <2>1, <3>1, DevicesKeepSimpleInv, CallTypes
    <3> QED
      BY <1>2, <2>1, <2>3, <3>1, <3>2
  <2> QED
    BY <2>2, <2>3 DEF DispatcherInv
<1>6. CASE MachineResets
  BY <1>6, ResetKeepsDispatcherInv
<1>7. CASE UNCHANGED dispatcherVars
  <2>1. UNCHANGED <<vars, simpleVars, orchestrator>>
    BY <1>7 DEF dispatcherVars
  <2>2. CASE orchestrator = "sre"
    BY <1>1, <2>1, <2>2 DEF DispatcherInv
  <2>3. CASE orchestrator = "simple"
    <3>1. SimpleInv /\ SreIdle /\ HelpersTypeOK
      BY <2>3 DEF DispatcherInv, SreIdle, TypeInv, TypeOK
    <3>2. SimpleInv'
      BY <2>1, <3>1 DEF vars, helperVars, lockVars, callVars, simpleVars,
         interleaveVars, countVars, prevVars, selectVars, SimpleInv,
         SimpleTypeOK, SimpleLockInv,
         WatchdogGuardsImages, SelectInv, InterleaveInv, DriversGetConnected
    <3>3. HelpersTypeOK' /\ UNCHANGED sreOnlyVars
      BY <2>1, <3>1, IdleTypes DEF vars, sreOnlyVars
    <3> QED
      BY <1>2, <2>1, <2>3, <3>1, <3>2, <3>3
  <2> QED
    BY <2>2, <2>3 DEF DispatcherInv
<1> QED
  BY <1>3, <1>4, <1>5, <1>6, <1>7 DEF DispatcherNext

-----------------------------------------------------------------------------
(* Whichever orchestrator runs, the invariant of that one holds.           *)
THEOREM DispatcherInvariant == DispatcherSpec => []DispatcherInv
BY InitDispatcherInv, StepKeepsDispatcherInv, PTL DEF DispatcherSpec

(* Both orchestrators and the helpers they share keep their types.         *)
THEOREM DispatcherTypeCorrect == DispatcherSpec => []DispatcherTypeOK
<1>1. DispatcherInv => DispatcherTypeOK
  BY SreInvSuffices DEF DispatcherInv, DispatcherTypeOK, SimpleIdle, SimpleInv,
     SreIdle, TypeInv
<1> QED
  BY <1>1, DispatcherInvariant, PTL

(* No orchestrator starts an image before both halves of the security      *)
(* transition, unwatched, or without ReadyToBoot behind it.                *)
THEOREM HelpersKeepTheirPromises ==
  DispatcherSpec => [](LockedWhenRunning /\ WatchdogGuardsImages /\ ReadyToBootFirst)
<1>1. DispatcherInv => LockedWhenRunning /\ WatchdogGuardsImages /\ ReadyToBootFirst
  BY SreInvSuffices DEF DispatcherInv, SimpleInv, SimpleLockInv,
     LockedWhenRunning, ReadyToBootFirst
<1> QED
  BY <1>1, DispatcherInvariant, PTL

(* What SreBootManager promises alone it keeps under the dispatcher.       *)
THEOREM SrePromisesCompose ==
  DispatcherSpec => [](/\ TeardownKeepsLive /\ UsbSkipped
                       /\ FallbackHonoursPolicy /\ GivesUpOnlyAfterTrying)
<1>1. SreIdle => /\ TeardownKeepsLive /\ UsbSkipped
                 /\ FallbackHonoursPolicy /\ GivesUpOnlyAfterTrying
  BY DEF SreIdle, TeardownKeepsLive, PublishedIsLive, UsbSkipped,
     FallbackHonoursPolicy, GivesUpOnlyAfterTrying
<1>2. DispatcherInv => /\ TeardownKeepsLive /\ UsbSkipped
                       /\ FallbackHonoursPolicy /\ GivesUpOnlyAfterTrying
  BY <1>1, SreInvSuffices DEF DispatcherInv
<1> QED
  BY <1>2, DispatcherInvariant, PTL

(* SimpleBootManager calls the failure handler only after one attempt at   *)
(* every device of the selected list, in order, for lists of any length.   *)
THEOREM FailureIsLast == DispatcherSpec => []FailureAfterAllDevices
<1>1. ASSUME SimpleInv, simplePc = "exhausted"
      PROVE  attempted = Selection(simpleConfig, pressed)
  <2>1. attempted \in Seq(Path) /\ attempted \o <<>> = Selection(simpleConfig, pressed)
    BY <1>1 DEF SimpleInv, SimpleTypeOK, SelectInv
  <2> QED
    BY <2>1, ConcatEmptySeq
<1>2. DispatcherInv => FailureAfterAllDevices
  BY <1>1 DEF DispatcherInv, SimpleIdle, SimpleInv, SelectInv, Selection,
     FailureAfterAllDevices
<1> QED
  BY <1>2, DispatcherInvariant, PTL

(* When the interleaving of connection and dispatch settles, no dispatched *)
(* driver is left without a connection after it, for any handle count.     *)
THEOREM SettledMeansConnected == DispatcherSpec => []DriversGetConnected
<1>1. DispatcherInv => DriversGetConnected
  BY DEF DispatcherInv, SimpleIdle, SimpleInv, InterleaveInv, DriversGetConnected
<1> QED
  BY <1>1, DispatcherInvariant, PTL

-----------------------------------------------------------------------------
(* Progress.  What is left of a boot is a triple of naturals.              *)
LEMMA ShrinksTo ==
  ASSUME NEW a \in Nat, NEW b \in Nat, NEW c \in Nat, NEW d, NEW e, NEW f,
         a < d \/ (a = d /\ b < e) \/ (a = d /\ b = e /\ c < f)
  PROVE  Shrinks(<<a, b, c>>, <<d, e, f>>)
BY DEF Shrinks

\* The steps left of a call and of the recovery flow after a step are naturals.
LEMMA CallLeftType == CallLeft' \in Nat /\ FlowLeft' \in Nat
<1>1. CallLeft' \in Nat
  BY DEF CallLeft
<1> QED
  BY <1>1 DEF FlowLeft

\* So are the items left, and the phase of either orchestrator.
LEMMA SreWorkType ==
  ASSUME TypeOK'
  PROVE  SrePhase' \in Nat /\ SreItems' \in Nat
<1>1. PassesLeft' \in Nat
  <2>1. pass' \in 0 .. 2
    BY DEF TypeOK, ManagerTypeOK
  <2>2. 2 - pass' \in Nat
    <3>1. \A n \in 0 .. 2 : 2 - n \in Nat
      OBVIOUS
    <3> QED
      BY <2>1, <3>1
  <2>3. PassesLeft' = 2 - pass'
    BY DEF PassesLeft
  <2> QED
    BY <2>2, <2>3
<1>2. SrePhase' \in Nat
  BY <1>1 DEF SrePhase
<1>3. toDispatch' \in Nat /\ Len(queue') \in Nat
  BY ManagerAssumption, LenProperties DEF TypeOK, ManagerTypeOK
<1> QED
  BY <1>2, <1>3 DEF SreItems

(* The simple boot manager's, with the handles that may still appear.      *)
LEMMA SimpleWorkType ==
  ASSUME SimpleTypeOK'
  PROVE  SimplePhase' \in Nat /\ SimpleItems' \in Nat
<1>1. HandlesLeft' \in Nat
  <2>1. prev_churn' \in 0 .. MaxHandles
    BY DEF SimpleTypeOK
  <2>2. MaxHandles - prev_churn' \in Nat
    <3>1. \A n \in 0 .. MaxHandles : MaxHandles - n \in Nat
      BY SimpleAssumption
    <3> QED
      BY <2>1, <3>1
  <2>3. HandlesLeft' = MaxHandles - prev_churn'
    BY DEF HandlesLeft
  <2> QED
    BY <2>2, <2>3
<1>2. SimplePhase' \in Nat
  BY DEF SimplePhase
<1>3. Len(boot_devices') \in Nat
  BY LenProperties DEF SimpleTypeOK
<1> QED
  BY <1>1, <1>2, <1>3 DEF SimpleItems

(* A step of the call itself, of the image or the return to the caller.    *)
LEMMA CallAdvances ==
  ASSUME CallStep \/ ImageStep \/ BootReturns
  PROVE  \/ CallLeft' < CallLeft
         \/ bootPc = "running" /\ bootPc' = "running"
<1> USE DEF CallLeft
<1>1. CASE LoadImage
  BY <1>1 DEF LoadImage
<1>2. CASE ArmAndStart
  BY <1>2 DEF ArmAndStart
<1>3. CASE DisarmWatchdog
  BY <1>3 DEF DisarmWatchdog
<1>4. CASE ImageExits
  BY <1>4 DEF ImageExits
<1>5. CASE ImageBoots
  BY <1>5 DEF ImageBoots
<1>6. CASE ImageWrites
  BY <1>6 DEF ImageWrites, callVars
<1>7. CASE BootReturns
  BY <1>7 DEF BootReturns
<1> QED
  BY <1>1, <1>2, <1>3, <1>4, <1>5, <1>6, <1>7 DEF CallStep, ImageStep

(* The recovery flow goes through its stages once, and the image it        *)
(* chainloads is one of its steps.                                         *)
LEMMA FlowAdvances ==
  ASSUME FlowStep
  PROVE  FlowLeft' < FlowLeft
<1>1. CASE ReadPartition
  BY <1>1 DEF ReadPartition, FlowLeft
<1>2. CASE InstallBlockIo
  BY <1>2 DEF InstallBlockIo, FlowLeft
<1>3. CASE InstallDevicePath
  <2>1. flowPc = "devicePath" /\ flowPc' \in {"chainload", "returned"}
    BY <1>3 DEF InstallDevicePath
  <2> QED
    BY <2>1 DEF FlowLeft
<1>4. CASE Chainload
  <2>1. flowPc = "chainload" /\ FlowLeft = 8
    BY <1>4 DEF Chainload, FlowLeft
  <2>2. CASE flowPc' = "teardown"
    BY <2>1, <2>2 DEF FlowLeft
  <2>3. CASE flowPc' = "chainloading" /\ bootPc' = "load"
    <3>1. CallLeft' = 5
      BY <2>3 DEF CallLeft
    <3>2. FlowLeft' = 2 + CallLeft'
      BY <2>3 DEF FlowLeft
    <3> QED
      BY <2>1, <3>1, <3>2
  <2> QED
    BY <1>4, <2>2, <2>3 DEF Chainload, boot_from_device_path
<1>5. CASE ChainloadReturns
  <2>1. flowPc = "chainloading" /\ flowPc' = "teardown" /\ bootPc = "returned"
    BY <1>5 DEF ChainloadReturns, BootReturns
  <2>2. FlowLeft = 3
    BY <2>1 DEF FlowLeft, CallLeft
  <2>3. FlowLeft' = 2
    BY <2>1 DEF FlowLeft
  <2> QED
    BY <2>2, <2>3
<1>6. CASE Teardown
  BY <1>6 DEF Teardown, FlowLeft
<1> QED
  BY <1>1, <1>2, <1>3, <1>4, <1>5, <1>6 DEF FlowStep

(* While the recovery flow has no call outstanding, or only the one it     *)
(* chainloads, a step of that call is a step of the flow.                  *)
LEMMA CallAdvancesFlow ==
  ASSUME OneCall, CallStep \/ ImageStep, UNCHANGED flowPc
  PROVE  \/ FlowLeft' < FlowLeft
         \/ bootPc = "running" /\ bootPc' = "running"
<1>1. bootPc # "idle"
  BY DEF CallStep, ImageStep, LoadImage, ArmAndStart, DisarmWatchdog, ImageExits,
     ImageBoots, ImageWrites
<1>2. flowPc \in {"idle", "chainloading"}
  BY <1>1 DEF OneCall
<1>3. CallLeft \in Nat /\ CallLeft' \in Nat
  BY DEF CallLeft
<1>4. FlowLeft = IF flowPc = "idle" THEN CallLeft ELSE 2 + CallLeft
  BY <1>2 DEF FlowLeft
<1>5. FlowLeft' = IF flowPc = "idle" THEN CallLeft' ELSE 2 + CallLeft'
  BY <1>2 DEF FlowLeft
<1>6. CallLeft' < CallLeft \/ (bootPc = "running" /\ bootPc' = "running")
  BY CallAdvances
<1>7. CASE CallLeft' < CallLeft
  <2>1. \A a, b \in Nat : a < b => 2 + a < 2 + b
    OBVIOUS
  <2>2. 2 + CallLeft' < 2 + CallLeft
    BY <1>3, <1>7, <2>1
  <2> QED
    BY <1>4, <1>5, <1>7, <2>2
<1> QED
  BY <1>6, <1>7

(* Up to the boot loop the SRE boot manager goes from phase to phase.      *)
LEMMA PreLockAdvances ==
  ASSUME TypeOK, PreLockStep
  PROVE  \/ SrePhase' < SrePhase
         \/ SrePhase' = SrePhase /\ SreItems' < SreItems
         \/ config.capsules /\ pc = "capsule" /\ Reset
<1> USE DEF SrePhase
<1>1. CASE SignalStartOfBds
  BY <1>1 DEF SignalStartOfBds, At
<1>2. CASE DispatchDrivers
  <2>1. pc = "dispatch" /\ toDispatch \in Nat
    BY <1>2, ManagerAssumption DEF DispatchDrivers, At, TypeOK, ManagerTypeOK
  <2>2. CASE pc' = "connect"
    BY <2>1, <2>2
  <2>3. CASE toDispatch' = toDispatch - 1 /\ pc' = pc
    <3>1. SreItems = toDispatch /\ SreItems' = toDispatch - 1
      BY <2>1, <2>3 DEF SreItems
    <3> QED
      BY <2>1, <2>3, <3>1
  <2> QED
    BY <1>2, <2>2, <2>3 DEF DispatchDrivers
<1>3. CASE ConnectSkipUsb
  BY <1>3 DEF ConnectSkipUsb, At
<1>4. CASE ProcessCapsules
  BY <1>4 DEF ProcessCapsules, At
<1>5. CASE SignalEndOfDxe
  BY <1>5 DEF SignalEndOfDxe, At, OnError
<1>6. CASE InstallReadyToLock
  BY <1>6 DEF InstallReadyToLock, At, OnError
<1>7. CASE ProbeHotkey
  BY <1>7 DEF ProbeHotkey, At
<1> QED
  BY <1>1, <1>2, <1>3, <1>4, <1>5, <1>6, <1>7 DEF PreLockStep

(* The boot loop works its queues off, and enters each pass once.          *)
LEMMA BootLoopAdvances ==
  ASSUME TypeInv, OneCall, BootLoopStep
  PROVE  \/ SrePhase' < SrePhase
         \/ SrePhase' = SrePhase /\ SreItems' < SreItems
         \/ SrePhase' = SrePhase /\ SreItems' = SreItems /\ FlowLeft' < FlowLeft
<1>0. pass \in {0, 1, 2} /\ queue \in Seq(Path)
      /\ (pc \in {"options", "fallback", "candidates"} => pass < 2)
  BY DEF TypeInv, TypeOK, ManagerTypeOK, PassInv
<1> USE DEF SrePhase, PassesLeft
<1>1. CASE DispatchHotkey
  BY <1>1 DEF DispatchHotkey, At
<1>2. CASE CallReturns
  <2>1. UNCHANGED <<pc, pass, toDispatch, queue>>
    BY <1>2 DEF CallReturns, managerVars, preVars, loopVars
  <2>2. SrePhase' = SrePhase /\ SreItems' = SreItems
    BY <2>1 DEF SreItems
  <2>3. CASE flowPc = "idle" /\ BootReturns /\ flowPc' = flowPc
    BY <2>2, <2>3 DEF BootReturns, FlowLeft, CallLeft
  <2>4. CASE flowPc = "returned" /\ flowPc' = "idle" /\ UNCHANGED helperVars
    <3>1. bootPc = "idle" /\ bootPc' = "idle"
      BY <2>4 DEF OneCall, helperVars, callVars
    <3>2. FlowLeft = 1 /\ FlowLeft' = 0
      BY <2>4, <3>1 DEF FlowLeft, CallLeft
    <3> QED
      BY <2>2, <3>2
  <2> QED
    BY <1>2, <2>3, <2>4 DEF CallReturns
<1>3. CASE ProbePayload
  <2>1. pc = "probe" /\ pc' = "pass" /\ pass' = pass
    BY <1>3 DEF ProbePayload, At
  <2> QED
    BY <1>0, <2>1
<1>4. CASE BeginPass
  <2>1. pc = "pass" /\ pc' = "options" /\ pass' = pass
    BY <1>4 DEF BeginPass, At
  <2> QED
    BY <1>0, <2>1
<1>5. CASE TryOption \/ TryCandidate
  <2>1. /\ pc \in {"options", "candidates"} /\ UNCHANGED <<pc, pass>>
        /\ queue # <<>> /\ queue' = Tail(queue)
    BY <1>5 DEF TryOption, TryCandidate, At, NextOption
  <2>2. Len(queue') = Len(queue) - 1 /\ Len(queue) \in Nat
    BY <1>0, <2>1, HeadTailProperties, LenProperties
  <2>3. SreItems = Len(queue) /\ SreItems' = Len(queue')
    BY <2>1 DEF SreItems
  <2>4. SrePhase' = SrePhase
    BY <2>1
  <2>5. SreItems' < SreItems
    BY <2>2, <2>3
  <2> QED
    BY <2>4, <2>5
<1>6. CASE OptionsExhausted
  <2>1. /\ pc = "options"
        /\ \/ pc' = "pass" /\ pass' = pass + 1
           \/ pc' = "fallback" /\ pass' = pass
    BY <1>6 DEF OptionsExhausted, NextPass, At
  <2> QED
    BY <1>0, <2>1
<1>7. CASE FindFallback
  <2>1. pc = "fallback" /\ pc' = "candidates" /\ pass' = pass
    BY <1>7 DEF FindFallback, At
  <2> QED
    BY <1>0, <2>1
<1>8. CASE CandidatesExhausted
  <2>1. pc = "candidates" /\ pc' = "pass" /\ pass' = pass + 1
    BY <1>8 DEF CandidatesExhausted, NextPass, At
  <2> QED
    BY <1>0, <2>1
<1>9. CASE DispatchLastResort
  <2>1. pc = "pass" /\ pc' = "exhausted"
    BY <1>9 DEF DispatchLastResort, At
  <2> QED
    BY <1>0, <2>1
<1>10. CASE GiveUp
  BY <1>10 DEF GiveUp, At
<1> QED
  BY <1>1, <1>2, <1>3, <1>4, <1>5, <1>6, <1>7, <1>8, <1>9, <1>10 DEF BootLoopStep

\* A raised count leaves less to a whole round.
LEMMA RaisedCount ==
  ASSUME NEW m \in Nat, NEW a \in Nat, NEW b \in Nat, a < b, b <= m
  PROVE  2 * (m - b) + 1 < 2 * (m - a)
OBVIOUS

(* Each round of the interleaving that is not the last saw a handle come   *)
(* or go, of which there are at most MaxHandles; then the phases follow    *)
(* each other and the list of devices gets shorter.                        *)
LEMMA SimpleAdvances ==
  ASSUME SimpleInv, SimpleStep
  PROVE  \/ SimplePhase' < SimplePhase
         \/ SimplePhase' = SimplePhase /\ SimpleItems' < SimpleItems
         \/ /\ SimplePhase' = SimplePhase /\ SimpleItems' = SimpleItems
            /\ CallLeft' < CallLeft
<1>0. /\ MaxHandles \in Nat /\ prev_churn \in 0 .. MaxHandles
      /\ churn \in 0 .. MaxHandles /\ boot_devices \in Seq(Path)
      /\ handles \in Int
  BY SimpleAssumption DEF SimpleInv, SimpleTypeOK
<1> USE DEF SimplePhase
<1>1. CASE total_handle_count
  BY <1>1 DEF total_handle_count, SimpleAt, InterleaveFails
<1>2. CASE ConnectRound
  <2>1. simplePc = "connect"
    BY <1>2 DEF ConnectRound, SimpleAt
  <2>2. CASE simplePc' = "endOfDxe"
    BY <2>1, <2>2
  <2>3. CASE simplePc' = "dispatch" /\ prev_churn' = prev_churn
    <3>1. SimpleItems = 2 * HandlesLeft + 1 /\ HandlesLeft \in Nat
      BY <1>0, <2>1 DEF SimpleItems, HandlesLeft
    <3>2. SimpleItems' = 2 * HandlesLeft
      BY <2>3 DEF SimpleItems, HandlesLeft
    <3>3. SimpleItems' < SimpleItems
      BY <3>1, <3>2
    <3> QED
      BY <2>1, <2>3, <3>3
  <2> QED
    BY <1>2, <2>2, <2>3 DEF ConnectRound, InterleaveFails, prevVars
<1>3. CASE DispatchRound
  <2>1. simplePc = "dispatch"
    BY <1>3 DEF DispatchRound, SimpleAt
  <2>2. CASE simplePc' = "endOfDxe"
    BY <2>1, <2>2
  <2>3. CASE /\ simplePc' = "connect" /\ prev_churn' = churn'
             /\ handles' # prev_handle_count
    <3>1. PICK came \in 0 .. MaxHandles, gone \in 0 .. MaxHandles :
            HandlesChange(came, gone)
      BY <1>3 DEF DispatchRound
    <3>2. /\ prev_churn <= churn
          /\ prev_churn = churn => prev_handle_count = handles
      BY <2>1 DEF SimpleInv, InterleaveInv
    <3>3. /\ prev_churn' \in Nat /\ prev_churn < prev_churn'
          /\ prev_churn' <= MaxHandles
      BY <1>0, <2>3, <3>1, <3>2 DEF HandlesChange
    <3>4. /\ SimpleItems = 2 * (MaxHandles - prev_churn)
          /\ SimpleItems' = 2 * (MaxHandles - prev_churn') + 1
      BY <2>1, <2>3 DEF SimpleItems, HandlesLeft
    <3>5. prev_churn \in Nat
      BY <1>0
    <3>6. 2 * (MaxHandles - prev_churn') + 1 < 2 * (MaxHandles - prev_churn)
      BY <1>0, <3>3, <3>5, RaisedCount
    <3>7. SimpleItems' < SimpleItems
      BY <3>4, <3>6
    <3> QED
      BY <2>1, <2>3, <3>7
  <2> QED
    BY <1>3, <2>2, <2>3 DEF DispatchRound, InterleaveFails, Settled, TakeCount
<1>4. CASE SimpleEndOfDxe
  BY <1>4 DEF SimpleEndOfDxe, SimpleAt, OnError
<1>5. CASE SimpleReadyToLock
  BY <1>5 DEF SimpleReadyToLock, SimpleAt, OnError
<1>6. CASE SelectDevices
  BY <1>6 DEF SelectDevices, SimpleAt
<1>7. CASE TryDevice
  <2>1. /\ simplePc = "devices" /\ simplePc' = simplePc
        /\ boot_devices # <<>> /\ boot_devices' = Tail(boot_devices)
    BY <1>7 DEF TryDevice, SimpleAt, NextDevice
  <2>2. Len(boot_devices') = Len(boot_devices) - 1 /\ Len(boot_devices) \in Nat
    BY <1>0, <2>1, HeadTailProperties, LenProperties
  <2>3. SimpleItems = Len(boot_devices) /\ SimpleItems' = Len(boot_devices')
    BY <2>1 DEF SimpleItems
  <2>4. SimpleItems' < SimpleItems
    BY <2>2, <2>3
  <2> QED
    BY <2>1, <2>4
<1>8. CASE (DeviceReturns \/ CallStep) /\ UNCHANGED simpleVars
  <2>1. UNCHANGED <<simplePc, prev_churn, boot_devices>>
    BY <1>8 DEF simpleVars, interleaveVars, prevVars, selectVars
  <2>2. SimplePhase' = SimplePhase /\ SimpleItems' = SimpleItems
    BY <2>1 DEF SimpleItems, HandlesLeft
  <2>3. CallLeft' < CallLeft
    BY <1>8, CallAdvances DEF DeviceReturns, BootReturns, CallStep, LoadImage,
       ArmAndStart, DisarmWatchdog
  <2> QED
    BY <2>2, <2>3
<1>9. CASE DevicesExhausted
  BY <1>9 DEF DevicesExhausted, SimpleAt
<1>10. CASE handle_failure
  BY <1>10 DEF handle_failure, SimpleAt
<1> QED
  BY <1>1, <1>2, <1>3, <1>4, <1>5, <1>6, <1>7, <1>8, <1>9, <1>10
     DEF SimpleStep, DeviceReturns

(* Either orchestrator, the image it runs and the two ways to start over.  *)
LEMMA StepMovesOn ==
  ASSUME DispatcherInv, DispatcherInv', DispatcherNext
  PROVE  \/ Shrinks(BootWork', BootWork)
         \/ bootPc = "running" /\ bootPc' = "running"
         \/ Restarts
<1>1. /\ orchestrator' = orchestrator
      /\ orchestrator = "sre" \/ orchestrator = "simple"
  BY DEF DispatcherNext, SreExecutes, SimpleExecutes, ImageActs, MachineResets,
     DispatcherInv
<1>2. CallLeft' \in Nat /\ FlowLeft' \in Nat
  BY CallLeftType
<1>3. ASSUME orchestrator = "sre",
             \/ SrePhase' < SrePhase
             \/ SrePhase' = SrePhase /\ SreItems' < SreItems
             \/ SrePhase' = SrePhase /\ SreItems' = SreItems /\ FlowLeft' < FlowLeft
      PROVE  Shrinks(BootWork', BootWork)
  <2>1. BootWork = <<SrePhase, SreItems, FlowLeft>>
    BY <1>3 DEF BootWork
  <2>2. BootWork' = <<SrePhase', SreItems', FlowLeft'>>
    BY <1>1, <1>3 DEF BootWork
  <2>3. SrePhase' \in Nat /\ SreItems' \in Nat
    <3>1. TypeOK'
      BY <1>1, <1>3, SreInvSuffices DEF DispatcherInv, SreInv, TypeInv
    <3> QED
      BY <3>1, SreWorkType
  <2> QED
    BY <1>2, <1>3, <2>1, <2>2, <2>3, ShrinksTo
<1>4. ASSUME orchestrator = "simple",
             \/ SimplePhase' < SimplePhase
             \/ SimplePhase' = SimplePhase /\ SimpleItems' < SimpleItems
             \/ /\ SimplePhase' = SimplePhase /\ SimpleItems' = SimpleItems
                /\ CallLeft' < CallLeft
      PROVE  Shrinks(BootWork', BootWork)
  <2>1. BootWork = <<SimplePhase, SimpleItems, CallLeft>>
    BY <1>4 DEF BootWork
  <2>2. BootWork' = <<SimplePhase', SimpleItems', CallLeft'>>
    BY <1>1, <1>4 DEF BootWork
  <2>3. SimplePhase' \in Nat /\ SimpleItems' \in Nat
    <3>1. SimpleTypeOK'
      BY <1>1, <1>4 DEF DispatcherInv, SimpleInv
    <3> QED
      BY <3>1, SimpleWorkType
  <2> QED
    BY <1>2, <1>4, <2>1, <2>2, <2>3, ShrinksTo
<1>5. ASSUME orchestrator = "sre", UNCHANGED managerVars
      PROVE  SrePhase' = SrePhase /\ SreItems' = SreItems
  <2>1. UNCHANGED <<pc, pass, toDispatch, queue>>
    BY <1>5 DEF managerVars, preVars, loopVars
  <2> QED
    BY <2>1 DEF SrePhase, PassesLeft, SreItems
<1>6. CASE SreExecutes
  <2>1. /\ orchestrator = "sre" /\ FirmwareStep /\ UNCHANGED simpleVars
        /\ TypeInv /\ TypeOK /\ OneCall /\ simplePc = "start"
    BY <1>6 DEF SreExecutes, DispatcherInv, SreInv, BootInv, TypeInv, SimpleIdle
  <2>2. CASE PreLockStep
    <3>1. CASE config.capsules /\ pc = "capsule" /\ Reset
      BY <2>1, <3>1 DEF Restarts, Reset, simpleVars
    <3> QED
      BY <1>3, <2>1, <2>2, <3>1, PreLockAdvances
  <2>3. CASE BootLoopStep
    BY <1>3, <2>1, <2>3, BootLoopAdvances
  <2>4. CASE FlowStep /\ UNCHANGED managerVars
    BY <1>3, <1>5, <2>1, <2>4, FlowAdvances
  <2>5. CASE CallStep /\ UNCHANGED <<flowVars, managerVars>>
    <3>1. UNCHANGED flowPc
      BY <2>5 DEF flowVars
    <3> QED
      BY <1>3, <1>5, <2>1, <2>5, <3>1, CallAdvancesFlow
  <2> QED
    BY <2>1, <2>2, <2>3, <2>4, <2>5
       DEF FirmwareStep, ManagerStep, PreLockStep, BootLoopStep
<1>7. CASE SimpleExecutes
  BY <1>4, <1>7, SimpleAdvances DEF SimpleExecutes, DispatcherInv
<1>8. CASE ImageActs
  <2>1. ImageStep /\ UNCHANGED <<sreOnlyVars, simpleVars>>
    BY <1>8 DEF ImageActs
  <2>2. CASE orchestrator = "sre"
    <3>1. OneCall /\ UNCHANGED <<flowPc, managerVars>>
      BY <2>1, <2>2 DEF DispatcherInv, SreInv, BootInv, sreOnlyVars, flowVars
    <3> QED
      BY <1>3, <1>5, <2>1, <2>2, <3>1, CallAdvancesFlow
  <2>3. CASE orchestrator = "simple"
    <3>1. UNCHANGED <<simplePc, prev_churn, boot_devices>>
      BY <2>1 DEF simpleVars, interleaveVars, prevVars, selectVars
    <3>2. SimplePhase' = SimplePhase /\ SimpleItems' = SimpleItems
      BY <3>1 DEF SimplePhase, SimpleItems, HandlesLeft
    <3> QED
      BY <1>4, <2>1, <2>3, <3>2, CallAdvances
  <2> QED
    BY <1>1, <2>2, <2>3
<1>9. CASE MachineResets
  BY <1>9 DEF MachineResets, WatchdogFires, Reset, SimpleEntered, Restarts
<1> QED
  BY <1>6, <1>7, <1>8, <1>9 DEF DispatcherNext

(* A boot that is not started over ends after finitely many steps of the   *)
(* firmware, for every number of boot options, candidates, devices, driver *)
(* rounds and handles: what BootEnds needs besides fairness.               *)
THEOREM BootKeepsMovingOn == DispatcherSpec => BootMovesOn
<1> DEFINE A == \/ Shrinks(BootWork', BootWork)
                \/ bootPc = "running" /\ bootPc' = "running"
                \/ Restarts
<1>1. DispatcherInv /\ DispatcherInv' /\ [DispatcherNext]_dispatcherVars
        => [A]_dispatcherVars
  BY StepMovesOn
<1> QED
  BY <1>1, DispatcherInvariant, PTL DEF DispatcherSpec, BootMovesOn
=============================================================================
