--------------------------- MODULE BootDispatcher ---------------------------
(***************************************************************************)
(* BootDispatcher (uefi/crates/patina_boot/src/boot_dispatcher.rs): the    *)
(* platform hands it one orchestrator, BDS entry runs that one, and it     *)
(* never returns to the DXE core.  The two orchestrators of the repository *)
(* are composed over the same firmware, images and watchdog.               *)
(***************************************************************************)
EXTENDS SreBootManager, SimpleBootManager

VARIABLE orchestrator  \* what BootDispatcher::new was given

dispatcherVars == <<vars, simpleVars, orchestrator>>

sreOnlyVars == <<flowVars, managerVars>>

DispatcherTypeOK ==
  /\ TypeOK /\ SimpleTypeOK
  /\ orchestrator \in {"sre", "simple"}

\* entry_point stores the orchestrator once; BDS entry is the first step.
DispatcherInit ==
  /\ Init /\ SimpleInit
  /\ orchestrator \in {"sre", "simple"}
  \* The configuration of the other orchestrator does not exist.
  /\ IF orchestrator = "sre" THEN simpleConfig = CHOOSE c \in SimpleConfigs : TRUE
                             ELSE config = CHOOSE c \in Configs : TRUE

SreExecutes ==
  /\ orchestrator = "sre"
  /\ FirmwareStep
  /\ UNCHANGED <<simpleVars, orchestrator>>

SimpleExecutes ==
  /\ orchestrator = "simple"
  /\ SimpleStep
  /\ UNCHANGED <<sreOnlyVars, orchestrator>>

ImageActs == ImageStep /\ UNCHANGED <<sreOnlyVars, simpleVars, orchestrator>>

\* Both orchestrators start again from BDS entry.
MachineResets ==
  /\ WatchdogFires
  /\ SimpleEntered
  /\ UNCHANGED orchestrator

DispatcherNext ==
  SreExecutes \/ SimpleExecutes \/ ImageActs \/ MachineResets

(* The orchestrator keeps executing, and an armed timer fires in the end.  *)
(* Nothing is assumed of the images: one that hangs is ended by the timer. *)
DispatcherSpec ==
  /\ DispatcherInit /\ [][DispatcherNext]_dispatcherVars
  /\ WF_dispatcherVars(SreExecutes) /\ WF_dispatcherVars(SimpleExecutes)
  /\ WF_dispatcherVars(MachineResets)

-----------------------------------------------------------------------------
(* Every boot ends, whichever orchestrator runs it: in an image that took  *)
(* over, in a parked CPU, or in a reset.  Neither a hanging image nor any  *)
(* failure keeps execute busy for ever.                                    *)
BootEnds ==
  []<>(\/ bootPc = "booted"
       \/ orchestrator = "sre" /\ pc \in {"parked", "start"}
       \/ orchestrator = "simple" /\ simplePc \in {"parked", "start"})

(* What is left of a boot: a phase, the items left in it, and the steps    *)
(* left of the call made for the present item.                             *)
CallLeft ==
  CASE bootPc = "load" -> 5 [] bootPc = "arm" -> 4 [] bootPc = "running" -> 3
    [] bootPc = "disarm" -> 2 [] bootPc = "returned" -> 1 [] OTHER -> 0

FlowLeft ==
  CASE flowPc = "prepare" -> 11 [] flowPc = "register" -> 10
    [] flowPc = "devicePath" -> 9 [] flowPc = "chainload" -> 8
    [] flowPc = "chainloading" -> 2 + CallLeft [] flowPc = "teardown" -> 2
    [] flowPc = "returned" -> 1 [] OTHER -> CallLeft

PassesLeft == 2 - pass
SrePhase ==
  CASE pc = "start" -> 22 [] pc = "dispatch" -> 21 [] pc = "connect" -> 20
    [] pc = "capsule" -> 19 [] pc = "endOfDxe" -> 18
    [] pc = "readyToLock" -> 17 [] pc = "hotkey" -> 16
    [] pc = "recovery" -> 15 [] pc = "probe" -> 14
    [] pc = "pass" -> 4 * PassesLeft + 5
    [] pc = "options" -> 4 * PassesLeft + 4
    [] pc = "fallback" -> 4 * PassesLeft + 3
    [] pc = "candidates" -> 4 * PassesLeft + 2
    [] pc = "exhausted" -> 1 [] OTHER -> 0
SreItems ==
  CASE pc = "dispatch" -> toDispatch
    [] pc \in {"options", "candidates"} -> Len(queue) [] OTHER -> 0

\* A round that does not settle has changed the count it started from.
HandlesLeft == MaxHandles - prev_churn
SimplePhase ==
  CASE simplePc = "start" -> 7 [] simplePc \in {"connect", "dispatch"} -> 6
    [] simplePc = "endOfDxe" -> 5 [] simplePc = "readyToLock" -> 4
    [] simplePc = "select" -> 3 [] simplePc = "devices" -> 2
    [] simplePc = "exhausted" -> 1 [] OTHER -> 0
SimpleItems ==
  CASE simplePc = "connect" -> 2 * HandlesLeft + 1
    [] simplePc = "dispatch" -> 2 * HandlesLeft
    [] simplePc = "devices" -> Len(boot_devices) [] OTHER -> 0

BootWork == IF orchestrator = "sre" THEN <<SrePhase, SreItems, FlowLeft>>
                                    ELSE <<SimplePhase, SimpleItems, CallLeft>>

\* The lexicographic order, which is well-founded on triples of naturals.
Shrinks(u, v) ==
  /\ u \in Nat \X Nat \X Nat
  /\ \/ u[1] < v[1]
     \/ u[1] = v[1] /\ u[2] < v[2]
     \/ u[1] = v[1] /\ u[2] = v[2] /\ u[3] < v[3]

\* Back at BDS entry, with a reason.
Restarts ==
  /\ pc' = "start" /\ simplePc' = "start"
  /\ \/ watchdog
     \/ orchestrator = "sre" /\ pc = "capsule" /\ config.capsules

(* Every step of an orchestrator, of the recovery flow or of a boot call   *)
(* leaves less of the boot to do, whatever failed in it: no phase, pass,   *)
(* option or connection round is entered twice.  Only a running image may  *)
(* take its time, and only a capsule or the watchdog starts the boot over. *)
BootMovesOn ==
  [][\/ Shrinks(BootWork', BootWork)
     \/ bootPc = "running" /\ bootPc' = "running"
     \/ Restarts]_dispatcherVars
=============================================================================
