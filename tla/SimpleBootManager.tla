------------------------- MODULE SimpleBootManager --------------------------
(***************************************************************************)
(* SimpleBootManager::execute (uefi/crates/patina_boot/src/orchestrators/  *)
(* simple_boot_manager.rs): connection interleaved with driver dispatch    *)
(* until the handle count settles, the security transition, the hotkey,    *)
(* and one attempt at each device of the list it selects.                  *)
(*                                                                         *)
(* Handles are counted, not named.  Drivers and controllers are external:  *)
(* a connection may create and remove handles, and so may a dispatch, where *)
(* every driver that stays has brought at least its own.                   *)
(***************************************************************************)
EXTENDS BootHelpers

CONSTANTS
  SimpleConfigs,  \* the BootConfigs platforms build
  MaxHandles      \* bound: handles that come or go in a boot

ASSUME SimpleAssumption ==
  /\ SimpleConfigs \subseteq [devices : Seq(Path), hotkey : BOOLEAN,
                              hotkey_devices : Seq(Path)]
  /\ \A c \in SimpleConfigs : c.devices # <<>>
  /\ MaxHandles \in Nat

VARIABLES
  simplePc,           \* where execute_with is
  simpleConfig,       \* its BootConfig
  handles,            \* how many more handles there are than at BDS entry
  prev_handle_count,  \* interleave_connect_and_dispatch's local
  boot_devices,       \* what the loop has left
  \* history of this boot
  churn,              \* handles that came or went
  prev_churn,         \* those when prev_handle_count was taken
  lost,               \* a handle went since it was taken, last round included
  unbound,            \* a driver was dispatched after the last connection
  loopFailed,         \* interleave_connect_and_dispatch returned an error
  pressed,            \* the hotkey was detected
  attempted           \* the devices attempted, in order

countVars      == <<handles, churn, lost>>
prevVars       == <<prev_handle_count, prev_churn>>
interleaveVars == <<countVars, prevVars, unbound, loopFailed>>
selectVars     == <<boot_devices, pressed, attempted>>
simpleVars     == <<simplePc, simpleConfig, interleaveVars, selectVars>>

SimpleTypeOK ==
  /\ simplePc \in {"start", "connect", "dispatch", "endOfDxe", "readyToLock",
                   "select", "devices", "exhausted", "parked"}
  /\ simpleConfig \in SimpleConfigs
  /\ handles \in Int /\ prev_handle_count \in Int
  /\ churn \in 0 .. MaxHandles /\ prev_churn \in 0 .. MaxHandles
  /\ lost \in BOOLEAN
  /\ boot_devices \in Seq(Path) /\ attempted \in Seq(Path)
  /\ unbound \in BOOLEAN /\ loopFailed \in BOOLEAN /\ pressed \in BOOLEAN

SimpleInit ==
  /\ simplePc = "start"
  /\ simpleConfig \in SimpleConfigs
  /\ handles = 0 /\ prev_handle_count = 0
  /\ churn = 0 /\ prev_churn = 0 /\ lost = FALSE
  /\ unbound = FALSE /\ loopFailed = FALSE
  /\ boot_devices = <<>> /\ pressed = FALSE /\ attempted = <<>>

\* Volatile state after a reset.
SimpleEntered ==
  /\ simplePc' = "start"
  /\ UNCHANGED simpleConfig
  /\ handles' = 0 /\ prev_handle_count' = 0
  /\ churn' = 0 /\ prev_churn' = 0 /\ lost' = FALSE
  /\ unbound' = FALSE /\ loopFailed' = FALSE
  /\ boot_devices' = <<>> /\ pressed' = FALSE /\ attempted' = <<>>

\* execute_with is at l and has no call outstanding.
SimpleAt(l) == simplePc = l /\ bootPc = "idle"

-----------------------------------------------------------------------------
(* interleave_connect_and_dispatch.  Its error is logged and the boot goes *)
(* on with what is connected.                                              *)
InterleaveFails ==
  /\ simplePc' = "endOfDxe" /\ loopFailed' = TRUE
  /\ UNCHANGED prevVars

\* The count the next round is compared with.
TakeCount == prev_handle_count' = handles' /\ prev_churn' = churn'

\* External: while a call runs, handles come and others go.
HandlesChange(came, gone) ==
  /\ churn + came + gone <= MaxHandles
  /\ churn' = churn + came + gone
  /\ handles' = handles + came - gone

total_handle_count ==
  /\ SimpleAt("start")
  /\ UNCHANGED <<helperVars, simpleConfig, countVars, unbound, selectVars>>
  /\ \/ simplePc' = "connect" /\ TakeCount /\ UNCHANGED loopFailed
     \/ InterleaveFails

\* The connection strategy, ConnectAllStrategy or the platform's own.
ConnectRound ==
  /\ SimpleAt("connect")
  /\ connect_all
  /\ \E came, gone \in 0 .. MaxHandles :
       HandlesChange(came, gone) /\ lost' = (gone > 0)
  /\ \/ simplePc' = "dispatch" /\ unbound' = FALSE /\ UNCHANGED <<prevVars, loopFailed>>
     \/ InterleaveFails /\ UNCHANGED unbound
  /\ UNCHANGED <<lockVars, readyToBoot, callVars, nvVars, simpleConfig,
                 selectVars>>

SettledBeforeDispatch(before, after) == before = prev_handle_count
\* By the count taken after the dispatch.
Settled(before, after) == after = prev_handle_count

\* The count that ends the loop is its last; otherwise it is the next to compare.
DispatchRound ==
  /\ SimpleAt("dispatch")
  /\ \E came, gone \in 0 .. MaxHandles :
       /\ HandlesChange(came, gone)
       /\ lost' = (lost \/ gone > 0)
       /\ unbound' = (came > 0)
  /\ \/ /\ simplePc' = IF Settled(handles, handles') THEN "endOfDxe"
                                                     ELSE "connect"
        /\ TakeCount /\ UNCHANGED loopFailed
     \/ InterleaveFails
  /\ UNCHANGED <<helperVars, simpleConfig, selectVars>>

-----------------------------------------------------------------------------
(* enter_locked_boot, in two steps.                                        *)
SimpleEndOfDxe ==
  /\ SimpleAt("endOfDxe")
  /\ \E ok \in BOOLEAN : /\ signal_bds_phase_entry(ok)
                         /\ simplePc' = OnError(ok, "readyToLock")
  /\ UNCHANGED <<connected, readyToBoot, callVars, nvVars, simpleConfig,
                 interleaveVars, selectVars>>

SimpleReadyToLock ==
  /\ SimpleAt("readyToLock")
  /\ \E ok \in BOOLEAN : /\ install_dxe_smm_ready_to_lock(ok)
                         /\ simplePc' = OnError(ok, "select")
  /\ UNCHANGED <<connected, readyToBoot, callVars, nvVars, simpleConfig,
                 interleaveVars, selectVars>>

(* Whether some keyboard's pending keystrokes hold the configured scancode *)
(* is up to the user; a keyboard that cannot be read has none.             *)
detect_hotkey(hotkey) == IF hotkey THEN BOOLEAN ELSE {FALSE}

\* devices() or hotkey_devices().
Selection(config, hot) == IF hot THEN config.hotkey_devices ELSE config.devices

(* discover_console_devices only writes the console variables; its errors  *)
(* are logged.                                                             *)
SelectDevices ==
  /\ SimpleAt("select")
  /\ pressed' \in detect_hotkey(simpleConfig.hotkey)
  /\ boot_devices' = Selection(simpleConfig, pressed')
  /\ simplePc' = "devices"
  /\ UNCHANGED <<helperVars, simpleConfig, interleaveVars, attempted>>

StopAtFirst(q) == <<>>
\* An option that returns and one that fails are treated alike.
NextDevice(q) == Tail(q)

TryDevice ==
  /\ SimpleAt("devices") /\ boot_devices # <<>>
  /\ signal_ready_to_boot
  /\ boot_from_device_path(Head(boot_devices))
  /\ attempted' = Append(attempted, Head(boot_devices))
  /\ boot_devices' = NextDevice(boot_devices)
  /\ UNCHANGED <<lockVars, connected, nvVars, simplePc, simpleConfig,
                 interleaveVars, pressed>>

DeviceReturns == BootReturns /\ UNCHANGED simpleVars

DevicesExhausted ==
  /\ SimpleAt("devices") /\ boot_devices = <<>>
  /\ simplePc' = "exhausted"
  /\ UNCHANGED <<helperVars, simpleConfig, interleaveVars, selectVars>>

\* The platform's failure handler, then Err(NotFound) and bds_fatal.
handle_failure ==
  /\ SimpleAt("exhausted")
  /\ simplePc' = "parked"
  /\ UNCHANGED <<helperVars, simpleConfig, interleaveVars, selectVars>>

SimpleStep ==
  \/ total_handle_count \/ ConnectRound \/ DispatchRound
  \/ SimpleEndOfDxe \/ SimpleReadyToLock \/ SelectDevices
  \/ TryDevice \/ DeviceReturns \/ DevicesExhausted \/ handle_failure
  \/ CallStep /\ UNCHANGED simpleVars

-----------------------------------------------------------------------------
(* The platform's failure handler is called only after every device of the *)
(* list was attempted once, in order: the hotkey list exactly when the     *)
(* configured key was detected.                                            *)
FailureAfterAllDevices ==
  simplePc = "exhausted" =>
    /\ attempted = IF pressed THEN simpleConfig.hotkey_devices
                              ELSE simpleConfig.devices
    /\ pressed => simpleConfig.hotkey
    /\ attempted # <<>> => readyToBoot # "no"

(* The interleaving is complete: unless it failed, every driver dispatched *)
(* was followed by a connection that could bind it.  The loop compares two *)
(* totals, so this holds only where no handle went in the last round: one  *)
(* that goes hides one that comes.                                         *)
DriversGetConnected ==
  simplePc \in {"endOfDxe", "readyToLock", "select", "devices"} =>
    loopFailed \/ lost \/ ~unbound
=============================================================================
