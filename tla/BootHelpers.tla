----------------------------- MODULE BootHelpers ----------------------------
(***************************************************************************)
(* The helpers every patina boot orchestrator is built from                *)
(* (uefi/crates/patina_boot/src/helpers.rs and boot_source_policy.rs) and  *)
(* the platform state they act on: the security transition that ends in a  *)
(* LockedBoot capability, controller connection, ReadyToBoot, the watchdog *)
(* around a started image, and the policy for filesystem fallback.         *)
(*                                                                         *)
(* The firmware and the images it starts are external.  An image may exit, *)
(* take over the machine, write the variables it is allowed to write, or   *)
(* hang until the watchdog resets the machine.  A step that only logs its  *)
(* error is one whose success and failure lead to the same control state.  *)
(***************************************************************************)
EXTENDS Integers, Sequences

CONSTANTS
  Device,          \* the devices boot paths lead to
  UsbDevice,       \* those with a USB messaging node in their path
  FirmwareVolume,  \* those that are firmware volumes (FwFile paths)
  Resident,        \* those whose handles exist whatever is connected
  File,            \* the loader files on a device
  BootOrders,      \* the contents BootOrder/Boot#### may have
  FileSystems,     \* SimpleFileSystem handles, in enumeration order
  LoaderPaths      \* FALLBACK_OS_LOADER_PATHS

Path == [dev : Device, file : File]

ASSUME DeviceAssumption ==
  /\ UsbDevice \subseteq Device /\ Resident \subseteq Device
  /\ FirmwareVolume \subseteq Resident
  /\ Path # {}
  /\ BootOrders \subseteq Seq(Path)
  /\ FileSystems \in Seq(Device) /\ LoaderPaths \in Seq(File)

VARIABLES
  endOfDxe, readyToLock, \* the two halves of the security transition
  connected,             \* how much of the device tree is connected
  readyToBoot,           \* what became of ReadyToBoot in this boot
  watchdog,              \* the 5-minute timer is armed
  bootPc, bootPath,      \* boot_from_device_path: where it is, and its path
  bootOrder,             \* what BootOrder and the Boot#### variables hold
  bp1Payload,            \* boot partition 1 holds a FAT image (0x55AA)
  disarmLost             \* history: a watchdog disarm failed in this boot

lockVars   == <<endOfDxe, readyToLock>>
callVars   == <<watchdog, bootPc, bootPath, disarmLost>>
nvVars     == <<bootOrder, bp1Payload>>
helperVars == <<lockVars, connected, readyToBoot, callVars, nvVars>>

\* "failed": every attempt to signal it so far returned an error.
ReadyToBootState == {"no", "failed", "signalled"}
SecureBootState == {"Enabled", "Disabled", "SetupMode"}

\* What bootPath holds while boot_from_device_path is not running.
NoPath == CHOOSE p \in Path : TRUE

HelpersTypeOK ==
  /\ endOfDxe \in BOOLEAN /\ readyToLock \in BOOLEAN
  /\ connected \in {"none", "skipUsb", "all"}
  /\ readyToBoot \in ReadyToBootState /\ watchdog \in BOOLEAN
  /\ bootPc \in {"idle", "load", "arm", "running", "disarm", "returned",
                 "booted"}
  /\ bootPath \in Path
  /\ bootOrder \in BootOrders
  /\ bp1Payload \in BOOLEAN /\ disarmLost \in BOOLEAN

\* Volatile state when the boot manager is entered.
HelpersEntered ==
  /\ endOfDxe' = FALSE /\ readyToLock' = FALSE
  /\ connected' = "none"
  /\ readyToBoot' = "no"
  /\ watchdog' = FALSE
  /\ bootPc' = "idle" /\ bootPath' = NoPath
  /\ disarmLost' = FALSE

HelpersInit ==
  /\ endOfDxe = FALSE /\ readyToLock = FALSE
  /\ connected = "none"
  /\ readyToBoot = "no"
  /\ watchdog = FALSE
  /\ bootPc = "idle" /\ bootPath = NoPath
  /\ bootOrder \in BootOrders
  /\ bp1Payload \in BOOLEAN
  /\ disarmLost = FALSE

-----------------------------------------------------------------------------
is_usb_device_path(p) == p.dev \in UsbDevice
has_fw_file_node(p) == p.dev \in FirmwareVolume

\* connect_all may give up early; its callers only log that.
connect_all == connected' \in {"all", connected}
connect_all_skip_usb == connected' \in {"skipUsb", connected}

\* Without USB enumeration a USB path cannot be resolved.
Reachable(dev) ==
  \/ dev \in Resident
  \/ connected = "all"
  \/ connected = "skipUsb" /\ dev \notin UsbDevice

(* signal_bds_phase_entry: EndOfDxe may have been signalled although an    *)
(* error is returned (the event could not be closed).                      *)
signal_bds_phase_entry(ok) ==
  /\ IF ok THEN endOfDxe' = TRUE ELSE endOfDxe' \in BOOLEAN
  /\ UNCHANGED readyToLock

install_dxe_smm_ready_to_lock(ok) ==
  /\ IF ok THEN readyToLock' = TRUE ELSE readyToLock' \in BOOLEAN
  /\ UNCHANGED endOfDxe

IgnoreError(ok, next) == next
\* `?`: execute returns the error and bds_fatal parks the CPU.
OnError(ok, next) == IF ok THEN next ELSE "parked"

(* The event may not be created or not be signalled; every caller only     *)
(* logs that and goes on to boot.                                          *)
signal_ready_to_boot ==
  readyToBoot' \in
    {"signalled", IF readyToBoot = "no" THEN "failed" ELSE readyToBoot}

(* What discover_boot_options may return: the active entries in BootOrder, *)
(* or nothing when a variable cannot be read.                              *)
discover_boot_options == {bootOrder, <<>>}

-----------------------------------------------------------------------------
(* BootSourcePolicy: [approved, removable, sbDisabled, setupMode].         *)
has_sources(policy) == policy.removable \/ policy.approved # {}

allows_security_state(policy, state) ==
  \/ state = "Enabled"
  \/ state = "Disabled" /\ policy.sbDisabled
  \/ state = "SetupMode" /\ policy.setupMode

AllowsApprovedOrUsb(policy, dev) ==
  dev \in UsbDevice \/ dev \in policy.approved
allows_device(policy, dev) ==
  IF dev \in UsbDevice THEN policy.removable ELSE dev \in policy.approved

\* The volumes of a list that are in S, in the order of the list.
Filtered(volumes, S) ==
  LET kept[n \in 0 .. Len(volumes)] ==
        IF n = 0 THEN <<>>
        ELSE IF volumes[n] \in S THEN Append(kept[n - 1], volumes[n])
        ELSE kept[n - 1]
  IN  kept[Len(volumes)]

\* Every volume for the first loader path, then every volume for the second.
Candidates(volumes) ==
  LET n == Len(volumes)
  IN  [i \in 1 .. n * Len(LoaderPaths) |->
         [dev |-> volumes[((i - 1) % n) + 1],
          file |-> LoaderPaths[((i - 1) \div n) + 1]]]

(* What fallback_boot_options may return when secure_boot_state gives      *)
(* state: nothing without a source, in a state the policy does not allow   *)
(* (or that cannot be read), or when no volume can be enumerated.          *)
fallback_boot_options(policy, state) ==
  LET allowed == {dev \in Device : allows_device(policy, dev) /\ Reachable(dev)}
  IN  {<<>>} \cup
        IF has_sources(policy) /\ allows_security_state(policy, state)
        THEN {Candidates(Filtered(FileSystems, allowed))}
        ELSE {}

-----------------------------------------------------------------------------
(* boot_from_device_path, called through LockedBoot.                       *)
boot_from_device_path(p) ==
  /\ bootPc' = "load"
  /\ bootPath' = p
  /\ UNCHANGED <<watchdog, disarmLost>>

LoadImage ==
  /\ bootPc = "load"
  /\ \/ Reachable(bootPath.dev) /\ bootPc' = "arm"
     \/ bootPc' = "returned"
  /\ UNCHANGED <<lockVars, connected, readyToBoot, watchdog, bootPath,
                 disarmLost, nvVars>>

StartUnwatched ==
  /\ bootPc = "arm"
  /\ bootPc' = "running"
  /\ UNCHANGED <<lockVars, connected, readyToBoot, watchdog, bootPath,
                 disarmLost, nvVars>>

\* If the watchdog cannot be armed the loaded image is not started.
ArmAndStart ==
  /\ bootPc = "arm"
  /\ \/ bootPc' = "running" /\ watchdog' = TRUE
     \/ bootPc' = "returned" /\ UNCHANGED watchdog
  /\ UNCHANGED <<lockVars, connected, readyToBoot, bootPath, disarmLost,
                 nvVars>>

ImageExitsArmed ==
  /\ bootPc = "running"
  /\ bootPc' \in {"disarm", "returned"}
  /\ UNCHANGED <<lockVars, connected, readyToBoot, watchdog, bootPath,
                 disarmLost, nvVars>>

\* StartImage returns, with success or with the image's error.
ImageExits ==
  /\ bootPc = "running"
  /\ bootPc' = "disarm"
  /\ UNCHANGED <<lockVars, connected, readyToBoot, watchdog, bootPath,
                 disarmLost, nvVars>>

\* `let _ = set_watchdog_timer(0)`: an error is ignored.
DisarmWatchdog ==
  /\ bootPc = "disarm"
  /\ bootPc' = "returned"
  /\ \/ watchdog' = FALSE /\ UNCHANGED disarmLost
     \/ disarmLost' = TRUE /\ UNCHANGED watchdog
  /\ UNCHANGED <<lockVars, connected, readyToBoot, bootPath, nvVars>>

\* ExitBootServices: the image is the operating system now.
ImageBoots ==
  /\ bootPc = "running"
  /\ bootPc' = "booted"
  /\ watchdog' = FALSE
  /\ UNCHANGED <<lockVars, connected, readyToBoot, bootPath, disarmLost,
                 nvVars>>

(* A running image rewrites the boot variables, or, from USB, flashes a    *)
(* payload to boot partition 1.                                            *)
ImageWrites ==
  /\ bootPc = "running"
  /\ \/ bootOrder' \in BootOrders /\ UNCHANGED bp1Payload
     \/ /\ bootPath.dev \in UsbDevice
        /\ bp1Payload' = TRUE /\ UNCHANGED bootOrder
  /\ UNCHANGED <<lockVars, connected, readyToBoot, callVars>>

\* The caller goes on.
BootReturns ==
  /\ bootPc = "returned"
  /\ bootPc' = "idle" /\ bootPath' = NoPath
  /\ UNCHANGED <<lockVars, connected, readyToBoot, watchdog, disarmLost,
                 nvVars>>

CallStep == LoadImage \/ ArmAndStart \/ DisarmWatchdog
ImageStep == ImageExits \/ ImageBoots \/ ImageWrites

-----------------------------------------------------------------------------
(* No image runs before the platform is locked: EndOfDxe was signalled and *)
(* DxeSmmReadyToLock installed, without error (the LockedBoot capability). *)
LockedWhenRunning ==
  bootPc \in {"running", "booted"} => endOfDxe /\ readyToLock

(* An image never runs unwatched, and no timer is left ticking under the   *)
(* boot manager itself unless the firmware refused to disarm it.           *)
WatchdogGuardsImages ==
  /\ bootPc = "running" => watchdog
  /\ watchdog /\ ~disarmLost => bootPc \in {"running", "disarm"}

(* No image is started before ReadyToBoot: it was signalled at least once, *)
(* or every attempt to signal it returned an error (which the orchestrators*)
(* only log), also on the paths that do not signal it themselves.          *)
ReadyToBootFirst == bootPc = "running" => readyToBoot # "no"
=============================================================================
