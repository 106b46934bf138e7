--------------------------- MODULE SreBootManager ---------------------------
(***************************************************************************)
(* SreBootManager::execute (uefi/crates/patina_sre/src/                    *)
(* sre_boot_manager.rs), from BDS entry to the image that takes over or to *)
(* the parked CPU, over any number of resets.                              *)
(*                                                                         *)
(* execute is sequential; what interleaves with it are the images it       *)
(* starts (which may change the boot variables and boot partition 1 before *)
(* they return), the watchdog, and the user's volume buttons.              *)
(***************************************************************************)
EXTENDS BpRecovery

CONSTANTS
  MainOsPath, SreAppPath, FrontpagePath,  \* paths the platform configures
  Configs,                                \* the platform configurations
  MaxDispatch  \* bound: DXE dispatch rounds that still dispatch a driver

ConfigType ==
  [sreApp : BOOLEAN, frontpage : BOOLEAN, bpFallback : BOOLEAN,
   capsules : BOOLEAN,
   policy : [approved : SUBSET (Device \ UsbDevice), removable : BOOLEAN,
             sbDisabled : BOOLEAN, setupMode : BOOLEAN]]

ASSUME ManagerAssumption ==
  /\ {MainOsPath, SreAppPath, FrontpagePath} \subseteq Path
  \* the OS is on a fixed disk, the SRE application in a firmware volume
  /\ MainOsPath.dev \notin UsbDevice /\ SreAppPath.dev \notin UsbDevice
  /\ Configs \subseteq ConfigType
  /\ MaxDispatch \in Nat

Buttons == {"VolumeUp", "VolumeDown"}

VARIABLES
  config,      \* the builder's choices
  toDispatch,  \* dispatch rounds left
  pc,          \* where execute is
  hotkey, bp_has_sre, pass, queue, tried_any,   \* its locals
  \* history of this boot
  discovered,  \* the Boot#### entries of the current pass
  tried,       \* what the boot loop attempted in the current pass
  triedMainOs, \* main_os_path was attempted
  sbState,     \* what secure_boot_state told the fallback in progress
  sreAtReset,  \* boot partition 1 held a payload when the boot started
  probeFailed, \* the head read of boot partition 1 failed
  lastResort   \* run_sre_flow was dispatched as the last resort

preVars  == <<config, toDispatch, hotkey>>
loopVars == <<bp_has_sre, pass, queue, tried_any, discovered, tried,
              triedMainOs, sbState>>
bootVars == <<sreAtReset, probeFailed, lastResort>>
managerVars == <<pc, preVars, loopVars, bootVars>>
vars == <<helperVars, flowVars, managerVars>>

ManagerTypeOK ==
  /\ config \in Configs
  /\ toDispatch \in 0 .. MaxDispatch
  /\ pc \in {"start", "dispatch", "connect", "capsule", "endOfDxe",
             "readyToLock", "hotkey", "recovery", "probe", "pass", "options",
             "fallback", "candidates", "exhausted", "parked"}
  /\ hotkey \in Buttons \cup {"None"}
  /\ bp_has_sre \in BOOLEAN
  /\ pass \in 0 .. 2
  /\ queue \in Seq(Path)
  /\ tried_any \in BOOLEAN
  /\ discovered \in Seq(Path)
  /\ tried \subseteq Path /\ triedMainOs \in BOOLEAN
  /\ sbState \in SecureBootState \cup {"invalid", "unread"}
  /\ sreAtReset \in BOOLEAN /\ probeFailed \in BOOLEAN
  /\ lastResort \in BOOLEAN

TypeOK == HelpersTypeOK /\ FlowTypeOK /\ ManagerTypeOK

Init ==
  /\ HelpersInit /\ FlowInit
  /\ config \in Configs
  /\ toDispatch = MaxDispatch
  /\ pc = "start"
  /\ hotkey = "None" /\ bp_has_sre = FALSE
  /\ pass = 0 /\ queue = <<>> /\ tried_any = FALSE
  /\ discovered = <<>> /\ tried = {} /\ triedMainOs = FALSE
  /\ sbState = "unread"
  /\ sreAtReset = bp1Payload /\ probeFailed = FALSE /\ lastResort = FALSE

\* execute is at l and has no call outstanding.
At(l) == pc = l /\ bootPc = "idle" /\ flowPc = "idle"

(* A reset: memory is gone; the variables and the partition keep what the  *)
(* step leaves in them.                                                    *)
Reset ==
  /\ HelpersEntered /\ FlowEntered
  /\ UNCHANGED config
  /\ toDispatch' = MaxDispatch
  /\ pc' = "start"
  /\ hotkey' = "None" /\ bp_has_sre' = FALSE
  /\ pass' = 0 /\ queue' = <<>> /\ tried_any' = FALSE
  /\ discovered' = <<>> /\ tried' = {} /\ triedMainOs' = FALSE
  /\ sbState' = "unread"
  /\ sreAtReset' = bp1Payload' /\ probeFailed' = FALSE /\ lastResort' = FALSE

-----------------------------------------------------------------------------
(* run_pre_lock_phase.                                                     *)
SignalStartOfBds ==
  /\ At("start")
  /\ pc' = "dispatch"
  /\ UNCHANGED <<helperVars, flowVars, preVars, loopVars, bootVars>>

\* Until a round dispatches nothing or fails.
DispatchDrivers ==
  /\ At("dispatch")
  /\ \/ toDispatch > 0 /\ toDispatch' = toDispatch - 1 /\ UNCHANGED pc
     \/ toDispatch' = 0 /\ pc' = "connect"
  /\ UNCHANGED <<helperVars, flowVars, config, hotkey, loopVars, bootVars>>

ConnectSkipUsb ==
  /\ At("connect")
  /\ connect_all_skip_usb
  /\ pc' = "capsule"
  /\ UNCHANGED <<lockVars, readyToBoot, callVars, nvVars, flowVars, preVars,
                 loopVars, bootVars>>

(* capsule::process: with a capsule in its queue the capsule processor     *)
(* applies it, which may rewrite boot partition 1, and resets the machine. *)
ProcessCapsules ==
  /\ At("capsule")
  /\ \/ /\ config.capsules
        /\ bp1Payload' \in BOOLEAN /\ UNCHANGED bootOrder
        /\ Reset
     \/ /\ pc' = "endOfDxe"
        /\ UNCHANGED <<helperVars, flowVars, preVars, loopVars, bootVars>>

(* enter_locked_boot, in two steps.                                        *)
SignalEndOfDxe ==
  /\ At("endOfDxe")
  /\ \E ok \in BOOLEAN : /\ signal_bds_phase_entry(ok)
                         /\ pc' = OnError(ok, "readyToLock")
  /\ UNCHANGED <<connected, readyToBoot, callVars, nvVars, flowVars, preVars,
                 loopVars, bootVars>>

InstallReadyToLock ==
  /\ At("readyToLock")
  /\ \E ok \in BOOLEAN : /\ install_dxe_smm_ready_to_lock(ok)
                         /\ pc' = OnError(ok, "hotkey")
  /\ UNCHANGED <<connected, readyToBoot, callVars, nvVars, flowVars, preVars,
                 loopVars, bootVars>>

-----------------------------------------------------------------------------
\* Vol-Up takes priority over Vol-Down.
Pressed(buttons) ==
  IF "VolumeUp" \in buttons THEN "VolumeUp"
  ELSE IF "VolumeDown" \in buttons THEN "VolumeDown" ELSE "None"

(* probe_sre_hotkey, and the connect that precedes a recovery path.  The   *)
(* buttons seen are those latched at power-on whose check succeeded.       *)
ProbeHotkey ==
  /\ At("hotkey")
  /\ \E seen \in SUBSET Buttons : hotkey' = Pressed(seen)
  /\ IF hotkey' = "None" THEN UNCHANGED connected ELSE connect_all
  /\ pc' = "recovery"
  /\ UNCHANGED <<lockVars, readyToBoot, callVars, nvVars, flowVars, config,
                 toDispatch, loopVars, bootVars>>

\* find_first_usb_sfs_device_path.
UsbFileSystems ==
  Filtered(FileSystems, {dev \in UsbDevice : Reachable(dev)})

\* ReadyToBoot, then boot_from_device_path.
SignalAndBoot(p) == signal_ready_to_boot /\ boot_from_device_path(p)

VolumeUp ==
  /\ hotkey = "VolumeUp"
  /\ IF config.sreApp
     THEN SignalAndBoot(SreAppPath) /\ UNCHANGED flowVars
     ELSE signal_ready_to_boot /\ run_sre_flow /\ UNCHANGED callVars

VolumeDown ==
  /\ hotkey = "VolumeDown"
  /\ UNCHANGED flowVars
  /\ IF UsbFileSystems # <<>>
     THEN SignalAndBoot([dev |-> Head(UsbFileSystems), file |-> DefaultFile])
     ELSE IF config.frontpage THEN SignalAndBoot(FrontpagePath)
     ELSE UNCHANGED <<readyToBoot, callVars>>

DispatchHotkey ==
  /\ At("recovery")
  /\ \/ VolumeUp
     \/ VolumeDown
     \/ hotkey = "None" /\ UNCHANGED <<readyToBoot, callVars, flowVars>>
  /\ pc' = "probe"
  /\ UNCHANGED <<lockVars, connected, nvVars, preVars, loopVars, bootVars>>

(* The call of boot_from_device_path or run_sre_flow came back: whatever   *)
(* it returned is logged and execute goes on.                              *)
CallReturns ==
  /\ \/ flowPc = "idle" /\ BootReturns /\ UNCHANGED flowPc
     \/ flowPc = "returned" /\ flowPc' = "idle" /\ UNCHANGED helperVars
  /\ UNCHANGED <<disks, rollbackLost, managerVars>>

-----------------------------------------------------------------------------
\* bp_has_sre_payload, asked once for the whole boot loop.
ProbePayload ==
  /\ At("probe")
  /\ pc' = "pass"
  /\ \E ok \in read_bp_via_log_page :
       /\ bp_has_sre' = (config.bpFallback /\ ok /\ bp1Payload)
       /\ probeFailed' = ~ok
  /\ UNCHANGED <<helperVars, flowVars, preVars, pass, queue, tried_any,
                 discovered, tried, triedMainOs, sbState, sreAtReset,
                 lastResort>>

MorePassesOffByOne == pass <= 2
MorePasses == pass < 2

BeginPass ==
  /\ At("pass") /\ MorePasses
  /\ IF pass = 1 THEN connect_all ELSE UNCHANGED connected
  /\ queue' \in discover_boot_options
  /\ discovered' = queue'
  /\ tried_any' = FALSE /\ tried' = {}
  /\ pc' = "options"
  /\ UNCHANGED <<lockVars, readyToBoot, callVars, nvVars, flowVars, preVars,
                 bp_has_sre, pass, triedMainOs, sbState, bootVars>>

\* Boot#### entries passed over while the partition holds a payload.
Skipped(p) == bp_has_sre /\ (is_usb_device_path(p) \/ has_fw_file_node(p))

AttemptQuietly(p) ==
  /\ boot_from_device_path(p) /\ UNCHANGED readyToBoot
  /\ tried' = tried \cup {p}
\* An attempt of the boot loop.
Attempt(p) ==
  /\ SignalAndBoot(p)
  /\ tried' = tried \cup {p}

DropOptions(q) == <<>>
\* The loop goes on with the next entry whatever became of this one.
NextOption(q) == Tail(q)

TryOption ==
  /\ At("options") /\ queue # <<>>
  /\ queue' = NextOption(queue)
  /\ IF Skipped(Head(queue))
     THEN UNCHANGED <<readyToBoot, callVars, tried_any, tried>>
     ELSE Attempt(Head(queue)) /\ tried_any' = TRUE
  /\ UNCHANGED <<lockVars, connected, nvVars, flowVars, pc, preVars,
                 bp_has_sre, pass, discovered, triedMainOs, sbState, bootVars>>

SamePass == pc' = "pass" /\ UNCHANGED pass
NextPass == pc' = "pass" /\ pass' = pass + 1

(* Only when no entry was attempted: the main OS path, then the fallback.  *)
OptionsExhausted ==
  /\ At("options") /\ queue = <<>>
  /\ IF tried_any
     THEN NextPass /\ UNCHANGED <<readyToBoot, callVars, tried, triedMainOs>>
     ELSE /\ Attempt(MainOsPath)
          /\ triedMainOs' = TRUE
          /\ pc' = "fallback" /\ UNCHANGED pass
  /\ UNCHANGED <<lockVars, connected, nvVars, flowVars, preVars, bp_has_sre,
                 queue, tried_any, discovered, sbState, bootVars>>

FindFallback ==
  /\ At("fallback")
  /\ sbState' \in SecureBootState \cup {"invalid"}
  /\ queue' \in fallback_boot_options(config.policy, sbState')
  /\ pc' = "candidates"
  /\ UNCHANGED <<helperVars, flowVars, preVars, bp_has_sre, pass, tried_any,
                 discovered, tried, triedMainOs, bootVars>>

SkipNothing(p) == FALSE
SkippedCandidate(p) == bp_has_sre /\ is_usb_device_path(p)

TryCandidate ==
  /\ At("candidates") /\ queue # <<>>
  /\ queue' = NextOption(queue)
  /\ IF SkippedCandidate(Head(queue))
     THEN UNCHANGED callVars
     ELSE boot_from_device_path(Head(queue))
  /\ UNCHANGED <<lockVars, connected, readyToBoot, nvVars, flowVars, pc,
                 preVars, bp_has_sre, pass, tried_any, discovered, tried,
                 triedMainOs, sbState, bootVars>>

CandidatesExhausted ==
  /\ At("candidates") /\ queue = <<>>
  /\ NextPass
  /\ sbState' = "unread"
  /\ UNCHANGED <<helperVars, flowVars, preVars, bp_has_sre, queue, tried_any,
                 discovered, tried, triedMainOs, bootVars>>

\* The last resort, if the payload was there when it was asked for.
DispatchLastResort ==
  /\ At("pass") /\ ~MorePasses
  /\ pc' = "exhausted"
  /\ IF bp_has_sre
     THEN run_sre_flow /\ lastResort' = TRUE
     ELSE UNCHANGED <<flowVars, lastResort>>
  /\ UNCHANGED <<helperVars, preVars, loopVars, sreAtReset, probeFailed>>

\* Err(NotFound): bds_fatal parks the CPU.
GiveUp ==
  /\ At("exhausted")
  /\ pc' = "parked"
  /\ UNCHANGED <<helperVars, flowVars, preVars, loopVars, bootVars>>

-----------------------------------------------------------------------------
\* The timer fires, or a running image resets the machine itself.
WatchdogFires ==
  /\ watchdog
  /\ UNCHANGED nvVars
  /\ Reset

ManagerStep ==
  \/ SignalStartOfBds \/ DispatchDrivers \/ ConnectSkipUsb
  \/ ProcessCapsules \/ SignalEndOfDxe \/ InstallReadyToLock
  \/ ProbeHotkey \/ DispatchHotkey \/ CallReturns \/ ProbePayload
  \/ BeginPass \/ TryOption \/ OptionsExhausted
  \/ FindFallback \/ TryCandidate \/ CandidatesExhausted
  \/ DispatchLastResort \/ GiveUp

FirmwareStep ==
  \/ ManagerStep
  \/ FlowStep /\ UNCHANGED managerVars
  \/ CallStep /\ UNCHANGED <<flowVars, managerVars>>

Next ==
  \/ FirmwareStep
  \/ ImageStep /\ UNCHANGED <<flowVars, managerVars>>
  \/ WatchdogFires

Spec == Init /\ [][Next]_vars

-----------------------------------------------------------------------------
(* A device whose boot partition 1 held a payload when it started does not *)
(* run anything from USB (the flashing tool that would flash it again)     *)
(* unless the user asked for it with Vol-Down or the probe failed.  (At    *)
(* pc = "start" no image of this boot manager runs.)                       *)
UsbSkipped ==
  /\ pc # "start" /\ bootPc = "running" /\ is_usb_device_path(bootPath)
  /\ config.bpFallback /\ sreAtReset
  => hotkey = "VolumeDown" \/ probeFailed

(* An image found by filesystem fallback is on a volume the policy allows, *)
(* in a Secure Boot state it allows.                                       *)
FallbackHonoursPolicy ==
  pc = "candidates" /\ bootPc = "running" =>
    /\ IF bootPath.dev \in UsbDevice THEN config.policy.removable
       ELSE bootPath.dev \in config.policy.approved
    /\ CASE sbState = "Enabled" -> TRUE
         [] sbState = "Disabled" -> config.policy.sbDisabled
         [] sbState = "SetupMode" -> config.policy.setupMode
         [] OTHER -> FALSE

(* execute gives up with NotFound only after the second pass tried every   *)
(* entry it discovered and did not pass over, or the main OS path if there *)
(* was none, and after the recovery flow if the partition has a payload.   *)
GivesUpOnlyAfterTrying ==
  pc = "exhausted" =>
    /\ \A i \in 1 .. Len(discovered) :
         Skipped(discovered[i]) \/ discovered[i] \in tried
    /\ tried # {}
    /\ bp_has_sre => lastResort

(* The recovery flow is the last resort only once the main OS path was     *)
(* tried as well and did not boot.                                         *)
LastResortAfterMainOs == lastResort => triedMainOs
=============================================================================
