---------------------------- MODULE SreFmpDevice ----------------------------
(***************************************************************************)
(* The FMP device library that installs an SRE capsule to both boot        *)
(* partitions (uefi/SrePkg/Library/SreFmpDeviceLib/SreFmpDeviceLib.c),     *)
(* composed with the storage library it drives.                            *)
(*                                                                         *)
(* FmpDeviceSetImageWithStatus is cut at every call that can change the    *)
(* controller, because power can fail between any two of them and because  *)
(* the lock event (FmpDeviceLock) can run while an admin command waits.    *)
(* A byte is a tagged tuple: payload data carries its position, so a block *)
(* that lands at the wrong offset is told apart from the right one.        *)
(***************************************************************************)
EXTENDS SreStorage

CONSTANTS
  BlockSize,      \* bytes per block
  InfoOffset,     \* SRE_IMAGE_INFO_OFFSET
  InfoSize,       \* sizeof (SRE_IMAGE_INFO)
  Capsules,       \* the capsules offered: [payload, size, version] records
  MaxUpdates,     \* bound: calls of SetImage, a power loss before one counts too
  MaxPowerCycles  \* bound: power losses

None == "none"
Zero == <<"zero">>
Stale == <<"stale">>                      \* uninitialised buffer contents
Data(c, k) == <<"data", c.payload, k>>
Info(c) == <<"info", c.version>>
BpSize == BlockCount * BlockSize
Offsets == 0 .. BlockSize - 1

Byte ==
  {Zero, Stale} \cup {Data(c, k) : c \in Capsules, k \in 0 .. BpSize}
    \cup {Info(c) : c \in Capsules}

ASSUME GeometryAssumption ==
  /\ BlockSize \in Nat \ {0}
  /\ InfoOffset \in Nat \ {0}     \* 0x4400
  /\ InfoSize \in Nat \ {0}
  \* the descriptor fits its block: true of 0x4400 and 32 bytes for every
  \* multiple of 4 KiB, so the EFI_UNSUPPORTED path of the loop is dead
  /\ (InfoOffset % BlockSize) + InfoSize <= BlockSize
  /\ InfoOffset < BpSize          \* BPINFO.BPSZ counts units of 128 KiB
  /\ Block = [Offsets -> Byte]
  /\ MaxUpdates \in Nat /\ MaxPowerCycles \in Nat

\* A payload is one file: it has one size, and an empty one is never offered.
ASSUME CapsuleAssumption ==
  /\ Capsules # {}
  /\ \A c \in Capsules :
       /\ c = [payload |-> c.payload, size |-> c.size, version |-> c.version]
       /\ c.size \in Nat \ {0}
  /\ \A c, d \in Capsules : c.payload = d.payload => c.size = d.size

VARIABLES
  pc,                 \* where FmpDeviceSetImageWithStatus is
  capsule,            \* its Image, ImageSize and CapsuleFwVersion arguments
  target,             \* PartitionIndex of the ApplyWimToSreStorage in progress
  BlockIndex, ImageBytes, RemainingToWrite, Chunk,   \* its locals
  LastAttemptStatus,  \* the out parameter
  ret,                \* what the last call returned, None while one runs
  lasVar,             \* the LastAttemptStatus UEFI variable, <<>> if absent
  lockPc, lockStatus, \* FmpDeviceLock: next partition, result so far
  updates, cycles,    \* counters for the bounds
  \* history, since power-on
  committed,          \* partitions whose latest apply returned success
  relockLost          \* a Set Features command of an apply reported an error

applyVars == <<BlockIndex, ImageBytes, RemainingToWrite, Chunk>>
lockVars  == <<lockPc, lockStatus>>
histVars  == <<committed, relockLost>>
fmpVars   == <<pc, capsule, target, applyVars, LastAttemptStatus, ret, lasVar,
               lockVars, updates, cycles, histVars>>
vars == <<storageVars, fmpVars>>

LasStatus == {"SUCCESS", "ERROR_INVALID_FORMAT", "ERROR_UNSUCCESSFUL"}

TypeOK ==
  /\ StorageTypeOK
  /\ pc \in {"idle", "open", "opening", "block", "close", "abort", "store"}
  /\ capsule \in Capsules
  /\ target \in Partition
  /\ BlockIndex \in 0 .. BlockCount
  /\ ImageBytes \in Nat /\ RemainingToWrite \in Nat
  /\ Chunk \in Block
  /\ LastAttemptStatus \in LasStatus
  /\ ret \in {None, "EFI_SUCCESS", "EFI_ABORTED"}
  /\ lasVar \in {<<>>} \cup (LasStatus \X {c.version : c \in Capsules})
  /\ lockPc \in {None, "B"}
  /\ lockStatus \in Status \cup {None}
  /\ updates \in 0 .. MaxUpdates /\ cycles \in 0 .. MaxPowerCycles
  /\ committed \subseteq Partition
  /\ relockLost \in BOOLEAN

BlankBlock == [k \in Offsets |-> Zero]
StaleBlock == [k \in Offsets |-> Stale]
Factory == [b \in BlockIdx |-> BlankBlock]

Init ==
  /\ StorageInit(Factory)
  /\ pc = "idle"
  /\ capsule = CHOOSE c \in Capsules : TRUE
  /\ target = "A"
  /\ BlockIndex = 0 /\ ImageBytes = 0 /\ RemainingToWrite = 0
  /\ Chunk = StaleBlock
  /\ LastAttemptStatus = "SUCCESS"
  /\ ret = None
  /\ lasVar = <<>>
  /\ lockPc = None /\ lockStatus = None
  /\ updates = 0 /\ cycles = 0
  /\ committed = {} /\ relockLost = FALSE

\* A call's locals are fresh at its start and gone at its end.
FreshLocals(remaining) ==
  /\ BlockIndex' = 0
  /\ ImageBytes' = 0
  /\ RemainingToWrite' = remaining
  /\ Chunk' = StaleBlock

-----------------------------------------------------------------------------
(* The block the loop sends: copy what is left of the image, zero the rest *)
(* of the buffer, stamp the descriptor.                                    *)
CopyAmt == IF RemainingToWrite < BlockSize THEN RemainingToWrite ELSE BlockSize

CopyMem(chunk) ==
  [k \in Offsets |-> IF k < CopyAmt THEN Data(capsule, ImageBytes + k)
                                    ELSE chunk[k]]

NoZeroPad(chunk) == chunk
ZeroPad(chunk) ==
  [k \in Offsets |-> IF k < CopyAmt THEN chunk[k] ELSE Zero]

InfoBlock == InfoOffset \div BlockSize
DescOffset == InfoOffset % BlockSize

StampInfo(chunk) ==
  IF BlockIndex # InfoBlock THEN chunk
  ELSE [k \in Offsets |-> IF k \in DescOffset .. DescOffset + InfoSize - 1
                          THEN Info(capsule) ELSE chunk[k]]

NextChunk == StampInfo(ZeroPad(CopyMem(Chunk)))

(* What a partition holds after capsule c was installed, written down      *)
(* without the loop: the reference the applied blocks are compared with.   *)
Installed(c) ==
  [b \in BlockIdx |-> [k \in Offsets |->
     LET n == b * BlockSize + k
     IN  IF n \in InfoOffset .. InfoOffset + InfoSize - 1 THEN Info(c)
         ELSE IF n < c.size THEN Data(c, n) ELSE Zero]]

-----------------------------------------------------------------------------
\* An update call makes progress only while no lock event is being handled.
Running(step) == pc = step /\ lockPc = None

(* FmpDeviceSetImageWithStatus up to the first apply, with the check of    *)
(* FmpDeviceCheckImageWithStatus: a storage error aborts without recording *)
(* the attempt, an image that does not fit is recorded and refused.        *)
SetImage(c) ==
  /\ Running("idle")
  /\ updates + cycles < MaxUpdates
  /\ updates' = updates + 1
  /\ capsule' = c
  /\ \/ /\ SreStorageInfo("EFI_UNSUPPORTED")
        /\ LastAttemptStatus' = "ERROR_INVALID_FORMAT"
        /\ ret' = "EFI_ABORTED"
        /\ UNCHANGED <<pc, target>>
     \/ /\ SreStorageInfo("EFI_SUCCESS")
        /\ ret' = None
        /\ target' = "A"
        /\ IF c.size > BpSize
           THEN LastAttemptStatus' = "ERROR_INVALID_FORMAT" /\ pc' = "store"
           ELSE LastAttemptStatus' = "SUCCESS" /\ pc' = "open"
  /\ UNCHANGED <<storageVars, applyVars, lasVar, lockVars, cycles, histVars>>

ApplyReturnsRetrying(st) ==
  /\ pc' = IF target = "A" \/ st # "EFI_SUCCESS" THEN "open" ELSE "store"
  /\ target' = IF st # "EFI_SUCCESS" THEN target
               ELSE IF target = "A" THEN "B" ELSE "A"
  /\ FreshLocals(0)
  /\ UNCHANGED LastAttemptStatus

ApplyReturnsForgetting(st) ==
  /\ pc' = IF target = "A" THEN "open" ELSE "store"
  /\ target' = IF target = "A" THEN "B" ELSE "A"
  /\ FreshLocals(0)
  /\ LastAttemptStatus' = IF st = "EFI_SUCCESS" THEN "SUCCESS"
                          ELSE "ERROR_UNSUCCESSFUL"

(* ApplyWimToSreStorage returned: B follows A whether or not A succeeded.  *)
ApplyReturns(st) ==
  /\ pc' = IF target = "A" THEN "open" ELSE "store"
  /\ target' = IF target = "A" THEN "B" ELSE "A"
  /\ FreshLocals(0)
  /\ LastAttemptStatus' = IF st = "EFI_SUCCESS" THEN LastAttemptStatus
                          ELSE "ERROR_UNSUCCESSFUL"

ApplyOutOfResources ==
  /\ Running("open")
  /\ ApplyReturns("EFI_ABORTED")
  /\ UNCHANGED <<storageVars, capsule, ret, lasVar, lockVars,
                 updates, cycles, histVars>>

ApplyOpen ==
  /\ Running("open")
  /\ \E st \in Status \cup {Waiting} :
       /\ SreStorageWriteOpen(target, st)
       /\ IF st = Waiting
          THEN /\ pc' = "opening"
               /\ UNCHANGED <<target, LastAttemptStatus, applyVars>>
          ELSE ApplyReturns(st)
  /\ UNCHANGED <<capsule, ret, lasVar, lockVars, updates, cycles, histVars>>

(* SreStorageWriteOpen returned.                                           *)
ApplyOpened ==
  /\ Running("opening")
  /\ \E st \in Status :
       /\ SreStorageWriteOpenReturns(st)
       /\ IF st = "EFI_SUCCESS"
          THEN /\ pc' = "block"
               /\ FreshLocals(capsule.size)
               /\ committed' = committed \ {target}
               /\ UNCHANGED <<target, LastAttemptStatus, relockLost>>
          ELSE /\ ApplyReturns(st)
               /\ relockLost' = TRUE
               /\ UNCHANGED committed
  /\ UNCHANGED <<capsule, ret, lasVar, lockVars, updates, cycles>>

(* One turn of the block loop.                                             *)
ApplyBlock ==
  /\ Running("block")
  /\ Chunk' = NextChunk
  /\ ImageBytes' = ImageBytes + CopyAmt
  /\ RemainingToWrite' = RemainingToWrite - CopyAmt
  /\ \E st \in Status :
       /\ SreStorageWriteBlock(Chunk', st)
       /\ IF st = "EFI_SUCCESS"
          THEN /\ BlockIndex' = BlockIndex + 1
               /\ pc' = IF BlockIndex' < BlockCount THEN "block" ELSE "close"
          ELSE pc' = "abort" /\ UNCHANGED BlockIndex
  /\ UNCHANGED <<capsule, target, LastAttemptStatus, ret, lasVar, lockVars,
                 updates, cycles, histVars>>

ApplyClose ==
  /\ Running("close")
  /\ \E st \in Status :
       /\ SreStorageWriteClose(st)
       /\ IF st = "EFI_SUCCESS"
          THEN ApplyReturns(st) /\ committed' = committed \cup {target}
          ELSE /\ pc' = "abort"
               /\ UNCHANGED <<target, LastAttemptStatus, committed, applyVars>>
  /\ UNCHANGED <<capsule, ret, lasVar, lockVars, updates, cycles,
                 relockLost>>

ApplyAbortSkipped ==
  /\ Running("abort")
  /\ ApplyReturns("EFI_ABORTED")
  /\ UNCHANGED <<storageVars, capsule, ret, lasVar, lockVars,
                 updates, cycles, histVars>>

(* The Done label of a failed apply: end the session and restore write     *)
(* protection; the abort's own status is only logged.                      *)
ApplyAbort ==
  /\ Running("abort")
  /\ \E st \in Status :
       /\ SreStorageWriteAbort(st)
       /\ relockLost' = (relockLost \/ st # "EFI_SUCCESS")
  /\ ApplyReturns("EFI_ABORTED")
  /\ UNCHANGED <<capsule, ret, lasVar, lockVars, updates, cycles, committed>>

(* Record the attempt (best effort) and return.                            *)
StoreLastAttempt ==
  /\ Running("store")
  /\ \/ lasVar' = <<LastAttemptStatus, capsule.version>>
     \/ UNCHANGED lasVar
  /\ ret' = IF LastAttemptStatus = "SUCCESS" THEN "EFI_SUCCESS"
            ELSE "EFI_ABORTED"
  /\ pc' = "idle"
  /\ UNCHANGED <<storageVars, capsule, target, applyVars, LastAttemptStatus,
                 lockVars, updates, cycles, histVars>>

LastStatus(st0, st1) == st1
FirstError(st0, st1) == IF st0 # "EFI_SUCCESS" THEN st0 ELSE st1

(* FmpDeviceLock runs as an event callback: to completion, but possibly    *)
(* while an update waits for a command.  Both partitions are always tried; *)
(* the first error is the one returned.                                    *)
LockStep(p) ==
  /\ UNCHANGED <<pc, capsule, target, applyVars, LastAttemptStatus, ret,
                 lasVar, updates, cycles, histVars>>
  /\ \E st \in Status :
       /\ SreStorageLock(p, st)
       /\ lockStatus' = IF p = "A" THEN st ELSE FirstError(lockStatus, st)

FmpDeviceLock ==
  /\ lockPc = None
  /\ lockPc' = "B"
  /\ LockStep("A")

FmpDeviceLockSecond ==
  /\ lockPc = "B"
  /\ lockPc' = None
  /\ LockStep("B")

(* Everything volatile is lost; the UEFI variable and the flash remain.    *)
PowerLoss ==
  /\ cycles < MaxPowerCycles
  /\ cycles' = cycles + 1
  /\ PowerCycle
  /\ pc' = "idle"
  /\ target' = "A"
  /\ FreshLocals(0)
  /\ LastAttemptStatus' = "SUCCESS"
  /\ ret' = None
  /\ lockPc' = None /\ lockStatus' = None
  /\ committed' = {} /\ relockLost' = FALSE
  /\ UNCHANGED <<capsule, lasVar, updates>>

UpdateStep ==
  \/ ApplyOutOfResources \/ ApplyOpen \/ ApplyOpened
  \/ ApplyBlock \/ ApplyClose \/ ApplyAbort
  \/ StoreLastAttempt

Next ==
  \/ \E c \in Capsules : SetImage(c)
  \/ UpdateStep
  \/ FmpDeviceLock \/ FmpDeviceLockSecond
  \/ PowerLoss

Spec == Init /\ [][Next]_vars

\* The code is sequential: a started call keeps executing unless power fails,
\* and an event callback returns to the call it interrupted.
FairSpec == Spec /\ SF_vars(UpdateStep) /\ WF_vars(FmpDeviceLockSecond)

-----------------------------------------------------------------------------
(* When SetImage has returned EFI_SUCCESS, both partitions hold the        *)
(* capsule, byte for byte: payload, zero padding and stamped descriptor.   *)
(* Neither a failed first partition, nor stale bytes in the reused block   *)
(* buffer, nor a block the device rejected goes unreported.                *)
SuccessInstallsBoth ==
  pc = "idle" /\ ret = "EFI_SUCCESS" =>
    \A p \in Partition : flash[p] = Installed(capsule)

(* Between calls no write session is open, so a failed apply never blocks  *)
(* a later read, update or lock (the Done label of ApplyWimToSreStorage).  *)
NoSessionWhenIdle == pc = "idle" => ~mIsWriteOpen

(* A partition is left writable after an update only if its apply          *)
(* succeeded, unless a Set Features command of an apply reported an error. *)
WritableOnlyAfterCommit ==
  pc = "idle" /\ ~relockLost =>
    \A p \in Partition : wps[p] = "WriteUnlocked" => p \in committed

(* When FmpDeviceLock has returned EFI_SUCCESS, both partitions are sealed *)
(* until the next power cycle, also when it interrupted an update.         *)
LockSealsBoth ==
  lockPc = None /\ lockStatus = "EFI_SUCCESS" => sealed = Partition

(* Every SetImage call returns, unless power is lost (which also leaves    *)
(* the update idle): no failure path waits for ever.                       *)
UpdateReturns == pc # "idle" ~> pc = "idle"

(* What is left of an update: the steps of the apply in progress, those of *)
(* the apply to B that still follows one to A, and the record.             *)
ApplySteps == BlockCount + 4
StepsLeft ==
  IF pc = "idle" THEN 0
  ELSE IF pc = "store" THEN 1
  ELSE 1 + (IF target = "A" THEN ApplySteps ELSE 0)
         + (CASE pc = "open"  -> ApplySteps
              [] pc = "opening" -> BlockCount + 3
              [] pc = "block" -> BlockCount - BlockIndex + 2
              [] pc = "close" -> 2
              [] pc = "abort" -> 1)

(* Every step of an update brings its return nearer, whatever call fails   *)
(* in it, and a lock event in between does not set it back: no partition   *)
(* and no block is written again, so one SetImage makes at most            *)
(* 2 * (BlockCount + 4) + 1 steps.                                         *)
UpdateAdvances ==
  [][pc # "idle" => \/ StepsLeft' \in 0 .. StepsLeft - 1
                    \/ lockPc' # lockPc /\ StepsLeft' = StepsLeft]_vars

(* The promise of SreUpdate: whole-partition replacement, truthful success *)
(* and frozen partitions.  An image that is neither the factory content,   *)
(* nor torn, nor a whole capsule is "mixed", which SreUpdate never has.    *)
AbstractImage(img) ==
  IF img = Factory THEN <<"factory">>
  ELSE IF img = Torn THEN <<"spoiled">>
  ELSE IF \E c \in Capsules : img = Installed(c)
  THEN <<"capsule", CHOOSE c \in Capsules : img = Installed(c)>>
  ELSE <<"mixed">>

Update == INSTANCE SreUpdate WITH
  Capsules <- {<<"capsule", c>> : c \in Capsules},
  Factory <- <<"factory">>, Spoiled <- <<"spoiled">>, None <- <<"none">>,
  content <- [p \in Partition |-> AbstractImage(flash[p])],
  pending <- IF pc = "idle" THEN <<"none">> ELSE <<"capsule", capsule>>,
  result <- ret,
  frozen <- sealed

ImplementsSreUpdate == Update!Spec

(* The version a descriptor names; 0 when its signature is not there.      *)
DescriptorVersion(blk) ==
  LET d == blk[DescOffset] IN IF d[1] = "info" THEN d[2] ELSE 0

(* FmpDeviceGetVersion: the descriptor of partition A, read back from the  *)
(* block that spans its offset.                                            *)
FmpDeviceGetVersion(st, version) ==
  \/ /\ SreStorageInfo("EFI_UNSUPPORTED") /\ st = "EFI_UNSUPPORTED"
     /\ version = 0
  \/ /\ SreStorageInfo("EFI_SUCCESS")
     /\ \E out \in {Undefined, flash["A"][InfoBlock]} :
          /\ SreStorageRead("A", InfoBlock, st, out)
          /\ version = IF out = Undefined THEN 0 ELSE DescriptorVersion(out)

(* The version FmpDeviceGetVersion reports for the ESRT between updates is *)
(* that of the image the SRE boot flow loads, which is boot partition 1    *)
(* (TARGET_BPID of bp_recovery.rs, partition B here).                      *)
EsrtVersionIsRunning ==
  pc = "idle" /\ flash["B"] # Torn =>
    \A version \in {0} \cup {c.version : c \in Capsules} :
      FmpDeviceGetVersion("EFI_SUCCESS", version) =>
        version = DescriptorVersion(flash["B"][InfoBlock])
=============================================================================
