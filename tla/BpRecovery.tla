----------------------------- MODULE BpRecovery -----------------------------
(***************************************************************************)
(* The SRE recovery flow (uefi/crates/patina_sre/src/bp_recovery.rs): read *)
(* boot partition 1 into memory, publish the buffer as a RAM disk, start   *)
(* the boot loader found on it, and take the RAM disk down if control      *)
(* comes back.                                                             *)
(*                                                                         *)
(* The buffer is borrowed by a raw pointer in the published Block IO       *)
(* interface, which the borrow checker does not see: what matters is which *)
(* interfaces are still published when the buffer is freed.                *)
(***************************************************************************)
EXTENDS BootHelpers

CONSTANTS
  RamDisk,      \* the device a published RAM disk appears as
  DefaultFile   \* DEFAULT_BOOT_FILE_PATH

ASSUME RamDiskAssumption ==
  /\ RamDisk \in Resident \ (UsbDevice \cup FirmwareVolume)
  /\ DefaultFile \in File

VARIABLES
  flowPc,       \* where run_sre_flow is
  disks,        \* the RAM disks of this boot that have left a trace
  rollbackLost  \* history: a rollback of register_ram_disk was refused

flowVars == <<flowPc, disks, rollbackLost>>

\* live: the buffer is allocated.  The other two: interfaces published.
Disk == [blockIo : BOOLEAN, devicePath : BOOLEAN, live : BOOLEAN]

FlowTypeOK ==
  /\ flowPc \in {"idle", "prepare", "register", "devicePath", "chainload",
                 "chainloading", "teardown", "returned"}
  /\ disks \in Seq(Disk)
  /\ rollbackLost \in BOOLEAN

FlowInit == flowPc = "idle" /\ disks = <<>> /\ rollbackLost = FALSE
FlowEntered == flowPc' = "idle" /\ disks' = <<>> /\ rollbackLost' = FALSE

\* Update the disk registered last; one that is gone leaves no trace.
UpdateDisk(d) ==
  disks' = IF d.blockIo \/ d.devicePath \/ d.live
           THEN [disks EXCEPT ![Len(disks)] = d]
           ELSE SubSeq(disks, 1, Len(disks) - 1)
ThisDisk == disks[Len(disks)]

-----------------------------------------------------------------------------
\* A call of run_sre_flow.
run_sre_flow == flowPc' = "prepare" /\ UNCHANGED <<disks, rollbackLost>>

\* Every chunk was transferred (with the MDTS probed), or a command failed.
read_bp_via_log_page == BOOLEAN

(* Connect everything, find the NVMe controller, allocate, and read the    *)
(* partition; any error frees the buffer and returns.                      *)
ReadPartition ==
  /\ flowPc = "prepare"
  /\ connect_all
  /\ \E ok \in read_bp_via_log_page :
       flowPc' = IF ok THEN "register" ELSE "returned"
  /\ UNCHANGED <<lockVars, readyToBoot, callVars, nvVars, disks,
                 rollbackLost>>

\* register_ram_disk, first half.
InstallBlockIo ==
  /\ flowPc = "register"
  /\ \/ /\ flowPc' = "devicePath"
        /\ disks' = Append(disks, [blockIo |-> TRUE, devicePath |-> FALSE,
                                   live |-> TRUE])
     \/ flowPc' = "returned" /\ UNCHANGED disks
  /\ UNCHANGED <<helperVars, rollbackLost>>

(* Second half.  When the device path cannot be installed the Block IO is  *)
(* rolled back; the rollback may be refused.  Either way the error makes   *)
(* run_sre_flow return through `?`, which drops the buffer.                *)
InstallDevicePath ==
  /\ flowPc = "devicePath"
  /\ \/ /\ flowPc' = "chainload"
        /\ UpdateDisk([ThisDisk EXCEPT !.devicePath = TRUE])
        /\ UNCHANGED rollbackLost
     \/ /\ flowPc' = "returned"
        /\ \E refused \in BOOLEAN :
             /\ UpdateDisk([ThisDisk EXCEPT !.blockIo = refused,
                                            !.live = FALSE])
             /\ rollbackLost' = (rollbackLost \/ refused)
  /\ UNCHANGED helperVars

(* chainload_from_ramdisk: the first file system whose device path starts  *)
(* with the RAM disk's.  Without a FAT image on the partition there is     *)
(* none.                                                                   *)
Chainload ==
  /\ flowPc = "chainload"
  /\ \/ /\ flowPc' = "teardown"
        /\ UNCHANGED callVars
     \/ /\ bp1Payload
        /\ flowPc' = "chainloading"
        /\ boot_from_device_path([dev |-> RamDisk, file |-> DefaultFile])
  /\ UNCHANGED <<lockVars, connected, readyToBoot, nvVars, disks,
                 rollbackLost>>

ChainloadReturns ==
  /\ flowPc = "chainloading"
  /\ BootReturns
  /\ flowPc' = "teardown"
  /\ UNCHANGED <<disks, rollbackLost>>

TeardownFrees ==
  /\ flowPc = "teardown"
  /\ flowPc' = "returned"
  /\ \E dpOk, bioOk \in BOOLEAN :
       UpdateDisk([blockIo |-> ~(dpOk /\ bioOk), devicePath |-> ~dpOk,
                   live |-> FALSE])
  /\ UNCHANGED <<helperVars, rollbackLost>>

(* teardown: uninstall the device path, then the Block IO; the buffer is   *)
(* freed only if both went, and leaked on purpose otherwise.               *)
Teardown ==
  /\ flowPc = "teardown"
  /\ flowPc' = "returned"
  /\ \E dpOk, bioOk \in BOOLEAN :
       UpdateDisk([blockIo |-> ~(dpOk /\ bioOk), devicePath |-> ~dpOk,
                   live |-> ~(dpOk /\ bioOk)])
  /\ UNCHANGED <<helperVars, rollbackLost>>

FlowStep ==
  \/ ReadPartition \/ InstallBlockIo \/ InstallDevicePath
  \/ Chainload \/ ChainloadReturns \/ Teardown

-----------------------------------------------------------------------------
(* A published RAM disk is backed by an allocated buffer: no driver can    *)
(* read freed memory through the Block IO of this boot's recovery flows.   *)
PublishedIsLive ==
  \A i \in 1 .. Len(disks) : disks[i].blockIo => disks[i].live

(* The same, for boots in which no rollback of register_ram_disk was       *)
(* refused: teardown alone never frees a published buffer.                 *)
TeardownKeepsLive == ~rollbackLost => PublishedIsLive
=============================================================================
