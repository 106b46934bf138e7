----------------------------- MODULE SreStorage -----------------------------
(***************************************************************************)
(* The SRE storage library over the two boot partitions of an NVMe         *)
(* controller (uefi/SrePkg/Library/SreStorage/SreStorageNvmeLib.c).        *)
(*                                                                         *)
(* Every public function is an action parameterised by the EFI_STATUS it   *)
(* returns, so that a client composes with it by naming the status.  The   *)
(* controller is external: it is modelled from the admin commands the      *)
(* library sends.  A command that reports an error may still have taken    *)
(* effect (its completion was lost or it timed out).  Power may fail at    *)
(* any point, also while the controller is copying the staged image.       *)
(* The lock event can run while an admin command waits.  Only the wait of  *)
(* SreStorageWriteOpen needs a step of its own: it is the one wait during  *)
(* which mIsWriteOpen is not yet what the call will make it.               *)
(***************************************************************************)
EXTENDS Integers

CONSTANTS
  BlockCount,   \* mBlockCount: blocks per boot partition
  Block,        \* the possible contents of one block
  Undefined     \* content nobody has written, or that a torn commit left

ASSUME BlockCountAssumption == BlockCount \in Nat \ {0}
ASSUME UndefinedAssumption == Undefined \notin Block

Partition == {"A", "B"}                     \* PARTITION_INDEX
BlockIdx  == 0 .. BlockCount - 1
Image     == [BlockIdx -> Block \cup {Undefined}]
Torn      == [b \in BlockIdx |-> Undefined]

\* BPxWPS values the library writes (NVME_LOCK_STATE).
LockState == {"WriteUnlocked", "WriteLocked", "WriteLockedUntilPowerCycle"}

Status == {"EFI_SUCCESS", "EFI_UNSUPPORTED", "EFI_ABORTED", "EFI_NOT_READY",
           "EFI_END_OF_MEDIA", "EFI_PROTOCOL_ERROR"}
NoPartition == "none"
Waiting == "waiting"      \* not a status: the call has not returned yet

VARIABLES
  \* globals of the library, lost at power-off
  mIsSupported, mIsWriteOpen, mPartitionIndex, mBlockIndex,
  opening,      \* partition of the WriteOpen that waits, or NoPartition
  openStatus,   \* what its Set Features command will report
  \* the controller
  wps,          \* write protection state of each partition
  staging,      \* image staged by Firmware Image Download
  flash,        \* contents of each boot partition
  \* history
  accepted,     \* the blocks this write session was told were written
  overtaken,    \* a lock command was sent to the partition of the session
                \* while its WriteOpen waited
  sealed        \* partitions SreStorageLock succeeded on since power-on

libVars     == <<mIsSupported, mIsWriteOpen, mPartitionIndex, mBlockIndex>>
openVars    == <<opening, openStatus>>
sessionVars == <<mIsWriteOpen, mPartitionIndex, mBlockIndex, accepted,
                 overtaken>>
devVars     == <<wps, staging, flash>>
storageVars == <<libVars, openVars, devVars, accepted, overtaken, sealed>>

StorageTypeOK ==
  /\ mIsSupported \in BOOLEAN
  /\ mIsWriteOpen \in BOOLEAN
  /\ mPartitionIndex \in Partition
  /\ mBlockIndex \in 0 .. BlockCount
  /\ opening \in Partition \cup {NoPartition} /\ openStatus \in Status
  /\ wps \in [Partition -> LockState]
  /\ staging \in Image
  /\ flash \in [Partition -> Image]
  /\ accepted \in Image
  /\ overtaken \in BOOLEAN
  /\ sealed \subseteq Partition

-----------------------------------------------------------------------------
(* SreStorageLibConstructor: any failed probe of the device leaves the     *)
(* library unsupported; it never fails the driver load.                    *)
Constructor(supported) ==
  /\ mIsSupported' = supported
  /\ mIsWriteOpen' = FALSE
  /\ mPartitionIndex' = "A"
  /\ mBlockIndex' = 0
  /\ opening' = NoPartition /\ openStatus' = "EFI_SUCCESS"
  /\ accepted' = Torn
  /\ overtaken' = FALSE
  /\ sealed' = {}

StorageInit(factory) ==
  /\ mIsSupported \in BOOLEAN
  /\ mIsWriteOpen = FALSE
  /\ mPartitionIndex = "A"
  /\ mBlockIndex = 0
  /\ opening = NoPartition /\ openStatus = "EFI_SUCCESS"
  /\ accepted = Torn
  /\ overtaken = FALSE
  /\ sealed = {}
  /\ wps = [p \in Partition |-> "WriteLocked"]
  /\ staging = Torn
  /\ flash = [p \in Partition |-> factory]

(* The controller's answer to Set Features.  A partition locked until the  *)
(* next power cycle refuses any other state.                               *)
SetFeaturesTakesEffect(p, s) ==
  /\ wps[p] = "WriteLockedUntilPowerCycle" => s = "WriteLockedUntilPowerCycle"
  /\ wps' = [wps EXCEPT ![p] = s]

(* NvmeSetLockState, through ExecuteNvmePassThru.                          *)
NvmeSetLockState(p, s, st) ==
  \/ /\ st = "EFI_SUCCESS"
     /\ SetFeaturesTakesEffect(p, s)
  \/ /\ st = "EFI_PROTOCOL_ERROR"
     /\ SetFeaturesTakesEffect(p, s) \/ UNCHANGED wps

-----------------------------------------------------------------------------
SreStorageInfo(st) ==
  st = IF mIsSupported THEN "EFI_SUCCESS" ELSE "EFI_UNSUPPORTED"

\* What a block read returns; it changes nothing.
SreStorageRead(p, i, st, out) ==
  \/ ~mIsSupported /\ st = "EFI_UNSUPPORTED" /\ out = Undefined
  \/ mIsSupported /\ mIsWriteOpen /\ st = "EFI_ABORTED" /\ out = Undefined
  \/ /\ mIsSupported /\ ~mIsWriteOpen
     /\ \/ st = "EFI_SUCCESS" /\ out = flash[p][i]
        \/ st = "EFI_PROTOCOL_ERROR" /\ out = Undefined

(* The checks of WriteOpen, and the Set Features command they lead to.     *)
(* Nothing yet says that a session is open.                                *)
SreStorageWriteOpen(p, st) ==
  \/ /\ \/ ~mIsSupported /\ st = "EFI_UNSUPPORTED"
        \/ mIsSupported /\ mIsWriteOpen /\ st = "EFI_ABORTED"
     /\ UNCHANGED storageVars
  \/ /\ mIsSupported /\ ~mIsWriteOpen
     /\ st = Waiting
     /\ opening' = p
     /\ openStatus' \in Status
     /\ NvmeSetLockState(p, "WriteUnlocked", openStatus')
     /\ overtaken' = FALSE
     /\ UNCHANGED <<libVars, staging, flash, accepted, sealed>>

(* The command completed: WriteOpen starts its session, or fails, without  *)
(* another look at the partition.                                          *)
SreStorageWriteOpenReturns(st) ==
  /\ opening # NoPartition
  /\ st = openStatus
  /\ IF st = "EFI_SUCCESS"
     THEN /\ mPartitionIndex' = opening
          /\ mBlockIndex' = 0
          /\ mIsWriteOpen' = TRUE
          /\ accepted' = Torn
          /\ UNCHANGED overtaken
     ELSE UNCHANGED sessionVars
  /\ opening' = NoPartition /\ openStatus' = "EFI_SUCCESS"
  /\ UNCHANGED <<mIsSupported, devVars, sealed>>

AtEndOfMediaOffByOne == mBlockIndex > BlockCount
AtEndOfMedia == mBlockIndex >= BlockCount

\* mBlockIndex advances only when the download command succeeded.
NextBlockIndexAlways(st) == mBlockIndex + 1
NextBlockIndex(st) ==
  IF st = "EFI_SUCCESS" THEN mBlockIndex + 1 ELSE mBlockIndex

(* Firmware Image Download of one block at mBlockIndex.                   *)
SreStorageWriteBlock(blk, st) ==
  \/ /\ \/ ~mIsSupported /\ st = "EFI_UNSUPPORTED"
        \/ mIsSupported /\ ~mIsWriteOpen /\ st = "EFI_NOT_READY"
        \/ /\ mIsSupported /\ mIsWriteOpen /\ AtEndOfMedia
           /\ st = "EFI_END_OF_MEDIA"
     /\ UNCHANGED storageVars
  \/ /\ mIsSupported /\ mIsWriteOpen /\ ~AtEndOfMedia
     /\ LET written(img) == [img EXCEPT ![mBlockIndex] = blk]
        IN  \/ /\ st = "EFI_SUCCESS"
               /\ staging' = written(staging)
               /\ accepted' = written(accepted)
            \/ /\ st = "EFI_PROTOCOL_ERROR"
               /\ staging' \in {staging, written(staging)}
               /\ UNCHANGED accepted
     /\ mBlockIndex' = NextBlockIndex(st)
     /\ UNCHANGED <<mIsSupported, mIsWriteOpen, mPartitionIndex, openVars, wps,
                    flash, overtaken, sealed>>

\* The whole partition must have been written before it can be committed.
SessionHasBlocks == mBlockIndex > 0
SessionComplete == mBlockIndex = BlockCount

(* The controller copies the staged image into an unlocked partition.      *)
FirmwareCommitTakesEffect(p) ==
  /\ wps[p] = "WriteUnlocked"
  /\ flash' = [flash EXCEPT ![p] = staging]

SessionEnds ==
  /\ mIsWriteOpen' = FALSE
  /\ mBlockIndex' = 0
  /\ accepted' = Torn
  /\ overtaken' = FALSE
  /\ UNCHANGED mPartitionIndex

(* Firmware Commit (download to boot partition).  The session closes only  *)
(* on success, and the partition stays unlocked.                           *)
SreStorageWriteClose(st) ==
  \/ /\ \/ ~mIsSupported /\ st = "EFI_UNSUPPORTED"
        \/ mIsSupported /\ ~mIsWriteOpen /\ st = "EFI_NOT_READY"
        \/ /\ mIsSupported /\ mIsWriteOpen /\ ~SessionComplete
           /\ st = "EFI_ABORTED"
     /\ UNCHANGED storageVars
  \/ /\ mIsSupported /\ mIsWriteOpen /\ SessionComplete
     /\ \/ /\ st = "EFI_SUCCESS"
           /\ FirmwareCommitTakesEffect(mPartitionIndex)
           /\ SessionEnds
        \/ /\ st = "EFI_PROTOCOL_ERROR"
           /\ FirmwareCommitTakesEffect(mPartitionIndex) \/ UNCHANGED flash
           /\ UNCHANGED sessionVars
     /\ UNCHANGED <<mIsSupported, openVars, wps, staging, sealed>>

SreStorageWriteAbortNoRelock(st) ==
  /\ mIsSupported /\ mIsWriteOpen
  /\ st = "EFI_SUCCESS"
  /\ SessionEnds
  /\ UNCHANGED <<mIsSupported, openVars, wps, staging, flash, sealed>>

(* Restore write protection; the session ends whatever the re-lock says.   *)
SreStorageWriteAbort(st) ==
  \/ /\ \/ ~mIsSupported /\ st = "EFI_UNSUPPORTED"
        \/ mIsSupported /\ ~mIsWriteOpen /\ st = "EFI_NOT_READY"
     /\ UNCHANGED storageVars
  \/ /\ mIsSupported /\ mIsWriteOpen
     /\ NvmeSetLockState(mPartitionIndex, "WriteLocked", st)
     /\ SessionEnds
     /\ UNCHANGED <<mIsSupported, openVars, staging, flash, sealed>>

(* The pre-OS lock.                                                        *)
LockSends(p, s, st) ==
  /\ NvmeSetLockState(p, s, st)
  /\ sealed' = IF st = "EFI_SUCCESS" THEN sealed \cup {p} ELSE sealed
  /\ overtaken' = (overtaken \/ p = opening)
  /\ UNCHANGED <<libVars, openVars, accepted, staging, flash>>

SreStorageLockIgnoresSession(p, st) ==
  /\ mIsSupported
  /\ LockSends(p, "WriteLockedUntilPowerCycle", st)

SreStorageLockSoft(p, st) ==
  /\ mIsSupported /\ ~mIsWriteOpen
  /\ LockSends(p, "WriteLocked", st)

SreStorageLock(p, st) ==
  \/ /\ \/ ~mIsSupported /\ st = "EFI_UNSUPPORTED"
        \/ mIsSupported /\ mIsWriteOpen /\ st = "EFI_ABORTED"
     /\ UNCHANGED storageVars
  \/ /\ mIsSupported /\ ~mIsWriteOpen
     /\ LockSends(p, "WriteLockedUntilPowerCycle", st)

(* Power is lost and the next boot runs the constructor.  Both partitions  *)
(* come up write locked.  A commit that was in flight to a partition the   *)
(* controller holds unlocked leaves the old image, the staged one, or      *)
(* neither.                                                                *)
PowerCycle ==
  /\ \E supported \in BOOLEAN : Constructor(supported)
  /\ wps' = [p \in Partition |-> "WriteLocked"]
  /\ staging' = Torn
  /\ IF /\ mIsWriteOpen /\ SessionComplete
        /\ wps[mPartitionIndex] = "WriteUnlocked"
     THEN \E img \in {flash[mPartitionIndex], staging, Torn} :
            flash' = [flash EXCEPT ![mPartitionIndex] = img]
     ELSE UNCHANGED flash

-----------------------------------------------------------------------------
(* The library under its most general client: any call, in any order, once *)
(* the one before has returned, and the lock event at any time.            *)
StorageCall ==
  /\ opening = NoPartition
  /\ \E st \in Status \cup {Waiting} :
       \/ \E p \in Partition : SreStorageWriteOpen(p, st)
       \/ \E blk \in Block : SreStorageWriteBlock(blk, st)
       \/ SreStorageWriteClose(st)
       \/ SreStorageWriteAbort(st)

StorageNext ==
  \/ StorageCall
  \/ \E st \in Status : SreStorageWriteOpenReturns(st)
  \/ \E p \in Partition, st \in Status : SreStorageLock(p, st)
  \/ PowerCycle

Blank(blk) == [b \in BlockIdx |-> blk]

StorageSpec ==
  /\ \E blk \in Block : StorageInit(Blank(blk))
  /\ [][StorageNext]_storageVars

-----------------------------------------------------------------------------
(* While a write session is open its partition is unlocked, so a commit    *)
(* can only be refused for a reason of the device's: no SreStorageLock, no *)
(* abort of another session locks it underneath.  The one exception is the *)
(* lock event that falls into the wait of the session's own WriteOpen,     *)
(* after its check of mIsWriteOpen and before its assignment: it sees no   *)
(* session, locks the partition, and WriteOpen still reports success.      *)
SessionHoldsUnlock ==
  mIsWriteOpen =>
    mIsSupported /\ (overtaken \/ wps[mPartitionIndex] = "WriteUnlocked")

(* What SessionHoldsUnlock rests on: while WriteOpen waits no session is   *)
(* open, and an unlock that will be reported has been done unless overtaken*)
OpeningInv ==
  opening # NoPartition =>
    /\ mIsSupported /\ ~mIsWriteOpen
    /\ openStatus = "EFI_SUCCESS" =>
         overtaken \/ wps[opening] = "WriteUnlocked"

(* The staged image agrees with the blocks this session reported written,  *)
(* up to mBlockIndex: nothing of an earlier, aborted session shows through.*)
StagedIsAccepted ==
  mIsWriteOpen =>
    \A b \in BlockIdx : b < mBlockIndex =>
      staging[b] = accepted[b] /\ accepted[b] \in Block

(* A sealed partition is locked until power cycle at the controller.       *)
SealedIsLocked ==
  \A p \in sealed : wps[p] = "WriteLockedUntilPowerCycle"

StorageInv == /\ StorageTypeOK /\ OpeningInv /\ SessionHoldsUnlock
              /\ StagedIsAccepted /\ SealedIsLocked

(* A partition changes only by the commit of the session open on it, after *)
(* every block was accepted, and then to exactly those blocks; or a power  *)
(* loss tears it while such a commit may be in flight.                     *)
CommitStep ==
  \A p \in Partition : flash'[p] # flash[p] =>
    /\ mIsWriteOpen /\ p = mPartitionIndex
    /\ \A b \in BlockIdx : accepted[b] \in Block
    /\ flash'[p] \in {accepted, Torn}

CommitsWholeSession == [][CommitStep]_storageVars

(* Once SreStorageLock has returned success for a partition its contents   *)
(* are frozen: no later call of the library changes them, and neither does *)
(* the loss of power that ends the lock.                                   *)
FrozenStep == \A p \in sealed : flash'[p] = flash[p]

SealedIsFrozen == [][FrozenStep]_storageVars
=============================================================================
