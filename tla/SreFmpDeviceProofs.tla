------------------------- MODULE SreFmpDeviceProofs -------------------------
(***************************************************************************)
(* What a capsule update leaves on the two boot partitions, for every      *)
(* block size and count, place of the descriptor and set of capsules, with *)
(* power lost and the lock event delivered at any point.                   *)
(***************************************************************************)
EXTENDS SreFmpDevice, SreStorageProofs

\* Where an apply has its write session open, and where an update is at all.
InSession == {"block", "close", "abort"}
Applying == {"open", "opening"} \cup InSession

(* The session of the apply in progress is the open one, and there is no   *)
(* other.                                                                  *)
SessionInv ==
  /\ mIsWriteOpen <=> pc \in InSession
  /\ mIsWriteOpen => mPartitionIndex = target
  /\ opening = IF pc = "opening" THEN target ELSE NoPartition
  /\ pc \in Applying => mIsSupported /\ capsule.size <= BpSize
  /\ pc # "idle" => ret = None

(* The loop and the library count the same blocks.  ImageBytes is the part *)
(* of the image sent: all of it once the padding has begun.                *)
Sent(n) == IF n * BlockSize < capsule.size THEN n * BlockSize ELSE capsule.size
LoopInv ==
  /\ pc = "block" => /\ BlockIndex = mBlockIndex /\ mBlockIndex < BlockCount
                     /\ ImageBytes = Sent(BlockIndex)
                     /\ RemainingToWrite = capsule.size - ImageBytes
  /\ pc = "close" => mBlockIndex = BlockCount

\* Every block a session got is the block of the installed capsule.
AcceptedInv ==
  pc \in InSession =>
    \A b \in BlockIdx : b < mBlockIndex => accepted[b] = Installed(capsule)[b]

(* LastAttemptStatus is still SUCCESS only if every partition that is done *)
(* holds the capsule.                                                      *)
DoneInv ==
  LastAttemptStatus = "SUCCESS" =>
    /\ pc \in Applying /\ target = "B" => flash["A"] = Installed(capsule)
    /\ pc = "store" => \A p \in Partition : flash[p] = Installed(capsule)

(* An unlocked partition is committed, being written, or about to be.      *)
UnlockInv ==
  ~relockLost =>
    \A p \in Partition : wps[p] = "WriteUnlocked" =>
      p \in committed \/ (mIsWriteOpen /\ p = mPartitionIndex) \/ p = opening

(* The first half of FmpDeviceLock succeeded on partition A.               *)
LockInv ==
  /\ LockSealsBoth
  /\ lockPc = "B" /\ lockStatus = "EFI_SUCCESS" => "A" \in sealed

FmpInv == /\ TypeOK /\ StorageInv /\ SessionInv /\ LoopInv /\ AcceptedInv
          /\ DoneInv /\ SuccessInstallsBoth /\ UnlockInv /\ LockInv

-----------------------------------------------------------------------------
(* The arithmetic of blocks.                                               *)

\* Whole blocks before block b end where it begins.
LEMMA BlocksInOrder ==
  ASSUME NEW a \in Nat, NEW b \in Nat, a < b
  PROVE  a * BlockSize + BlockSize <= b * BlockSize
<1>1. BlockSize \in Nat /\ b - a - 1 \in Nat
  BY GeometryAssumption
<1>2. (b - a - 1) * BlockSize \in Nat
  BY <1>1
<1>3. (b - a - 1) * BlockSize = b * BlockSize - a * BlockSize - BlockSize
  BY <1>1
<1> QED
  BY <1>1, <1>2, <1>3

\* A byte of a block of the partition is a byte of the partition.
LEMMA OffsetInPartition ==
  ASSUME NEW b \in BlockIdx, NEW k \in Offsets
  PROVE  b * BlockSize + k \in 0 .. BpSize - 1
<1>1. /\ b \in Nat /\ b < BlockCount /\ BlockCount \in Nat
      /\ BlockSize \in Nat /\ k \in Nat /\ k < BlockSize
  BY GeometryAssumption, BlockCountAssumption DEF BlockIdx, Offsets
<1>2. b * BlockSize \in Nat /\ BlockCount * BlockSize \in Nat
  BY <1>1
<1>3. b * BlockSize + BlockSize <= BlockCount * BlockSize
  BY <1>1, BlocksInOrder
<1> QED
  BY <1>1, <1>2, <1>3 DEF BpSize

\* The descriptor's offset, by block and by byte within the block.
LEMMA DescriptorPlace ==
  /\ InfoBlock \in BlockIdx /\ DescOffset \in Offsets
  /\ InfoOffset = InfoBlock * BlockSize + DescOffset
<1>1. InfoOffset \in Nat /\ BlockSize \in Nat \ {0} /\ BlockCount \in Nat
  BY GeometryAssumption, BlockCountAssumption
<1>2. /\ InfoBlock \in Nat /\ DescOffset \in Nat /\ DescOffset < BlockSize
      /\ InfoOffset = InfoBlock * BlockSize + DescOffset
  BY <1>1 DEF InfoBlock, DescOffset
<1>3. InfoBlock < BlockCount
  <2> SUFFICES ASSUME BlockCount <= InfoBlock PROVE FALSE
    BY <1>1, <1>2
  <2>1. BlockCount * BlockSize <= InfoBlock * BlockSize
    <3>1. BlockCount * BlockSize \in Nat /\ InfoBlock * BlockSize \in Nat
      BY <1>1, <1>2
    <3>2. CASE BlockCount = InfoBlock
      BY <3>1, <3>2
    <3>3. CASE BlockCount < InfoBlock
      BY <1>1, <1>2, <3>1, <3>3, BlocksInOrder
    <3> QED
      BY <1>1, <1>2, <3>2, <3>3
  <2>2. InfoOffset < BlockCount * BlockSize
    BY GeometryAssumption DEF BpSize
  <2>3. BlockCount * BlockSize \in Nat /\ InfoBlock * BlockSize \in Nat
    BY <1>1, <1>2
  <2> QED
    BY <1>1, <1>2, <2>1, <2>2, <2>3
<1> QED
  BY <1>1, <1>2, <1>3 DEF BlockIdx, Offsets

(* The descriptor lies within one block, so a byte is part of it exactly   *)
(* when it is in that block and at those offsets.                          *)
LEMMA DescriptorInOneBlock ==
  ASSUME NEW b \in BlockIdx, NEW k \in Offsets
  PROVE  b * BlockSize + k \in InfoOffset .. InfoOffset + InfoSize - 1
           <=> b = InfoBlock /\ k \in DescOffset .. DescOffset + InfoSize - 1
<1> DEFINE B == b * BlockSize
           I == InfoBlock * BlockSize
<1>1. /\ b \in Nat /\ k \in Nat /\ k < BlockSize /\ BlockSize \in Nat
      /\ InfoBlock \in Nat /\ DescOffset \in Nat /\ InfoSize \in Nat
      /\ InfoOffset = I + DescOffset /\ DescOffset + InfoSize <= BlockSize
  BY GeometryAssumption, DescriptorPlace DEF BlockIdx, Offsets, DescOffset
<1>2. B \in Nat /\ I \in Nat
  BY <1>1
<1>3. CASE b = InfoBlock
  <2>1. B = I
    BY <1>3
  <2> HIDE DEF B, I
  <2> QED
    BY <1>1, <1>2, <1>3, <2>1 DEF B
<1>4. CASE b < InfoBlock
  <2>1. B + BlockSize <= I
    BY <1>1, <1>4, BlocksInOrder
  <2> HIDE DEF B, I
  <2> QED
    BY <1>1, <1>2, <1>4, <2>1 DEF B
<1>5. CASE InfoBlock < b
  <2>1. I + BlockSize <= B
    BY <1>1, <1>5, BlocksInOrder
  <2> HIDE DEF B, I
  <2> QED
    BY <1>1, <1>2, <1>5, <2>1 DEF B
<1> QED
  BY <1>1, <1>3, <1>4, <1>5

-----------------------------------------------------------------------------
(* The loop's blocks against the reference.                                *)

\* The installed image of a capsule that fits, block by block.
LEMMA InstalledIsImage ==
  ASSUME NEW c \in Capsules
  PROVE  /\ Installed(c) \in Image
         /\ \A b \in BlockIdx : Installed(c)[b] \in Block
<1> SUFFICES ASSUME NEW b \in BlockIdx PROVE Installed(c)[b] \in Block
  BY DEF Image, Installed
<1> SUFFICES ASSUME NEW k \in Offsets
             PROVE  LET n == b * BlockSize + k
                    IN  (IF n \in InfoOffset .. InfoOffset + InfoSize - 1 THEN Info(c)
                         ELSE IF n < c.size THEN Data(c, n) ELSE Zero) \in Byte
  BY GeometryAssumption DEF Installed
<1>1. b * BlockSize + k \in 0 .. BpSize
  <2>1. BpSize \in Nat
    BY GeometryAssumption, BlockCountAssumption DEF BpSize
  <2> QED
    BY <2>1, OffsetInPartition
<1> QED
  BY <1>1 DEF Byte

\* The bytes of the image that are left in block BlockIndex.
LEMMA CopyAmtIsRest ==
  ASSUME TypeOK, LoopInv, pc = "block"
  PROVE  /\ CopyAmt \in 0 .. BlockSize /\ CopyAmt <= RemainingToWrite
         /\ \A k \in Offsets :
              /\ k < CopyAmt <=> BlockIndex * BlockSize + k < capsule.size
              /\ k < CopyAmt => ImageBytes + k = BlockIndex * BlockSize + k
         /\ ImageBytes + CopyAmt = Sent(BlockIndex + 1)
<1> DEFINE B == BlockIndex * BlockSize
<1>1. /\ BlockIndex \in Nat /\ BlockSize \in Nat \ {0} /\ capsule.size \in Nat
      /\ ImageBytes \in Nat /\ RemainingToWrite \in Nat
      /\ \A k \in Offsets : k \in Nat /\ k < BlockSize
  BY GeometryAssumption, CapsuleAssumption DEF TypeOK, Offsets
<1>2. /\ B \in Nat /\ (BlockIndex + 1) * BlockSize = B + BlockSize
  BY <1>1
<1>3. /\ ImageBytes = IF B < capsule.size THEN B ELSE capsule.size
      /\ RemainingToWrite = capsule.size - ImageBytes
  BY DEF LoopInv, Sent
<1>4. Sent(BlockIndex + 1) = IF B + BlockSize < capsule.size THEN B + BlockSize
                                                            ELSE capsule.size
  BY <1>2 DEF Sent
<1> HIDE DEF B
<1>5. CASE B < capsule.size
  BY <1>1, <1>2, <1>3, <1>4, <1>5 DEF CopyAmt, B
<1>6. CASE ~(B < capsule.size)
  BY <1>1, <1>2, <1>3, <1>4, <1>6 DEF CopyAmt, B
<1> QED
  BY <1>5, <1>6

(* The block the loop sends is the block of the installed capsule: the     *)
(* copy is the payload at its offset, the padding clears what the buffer   *)
(* held, and the descriptor is stamped where it belongs.                   *)
LEMMA NextChunkIsInstalled ==
  ASSUME TypeOK, LoopInv, pc = "block"
  PROVE  /\ BlockIndex \in BlockIdx
         /\ NextChunk = Installed(capsule)[BlockIndex]
         /\ NextChunk \in Block
<1>1. BlockIndex \in BlockIdx /\ capsule \in Capsules
  BY BlockCountAssumption DEF TypeOK, LoopInv, BlockIdx
<1> DEFINE byte(k) == LET n == BlockIndex * BlockSize + k
                      IN  IF n \in InfoOffset .. InfoOffset + InfoSize - 1 THEN Info(capsule)
                          ELSE IF n < capsule.size THEN Data(capsule, n) ELSE Zero
<1>2. Installed(capsule)[BlockIndex] = [k \in Offsets |-> byte(k)]
  BY <1>1 DEF Installed
<1> DEFINE padded == ZeroPad(CopyMem(Chunk))
<1>3. /\ padded = [k \in Offsets |-> padded[k]]
      /\ \A k \in Offsets :
           padded[k] = IF BlockIndex * BlockSize + k < capsule.size
                       THEN Data(capsule, BlockIndex * BlockSize + k) ELSE Zero
  BY CopyAmtIsRest DEF ZeroPad, CopyMem
<1>4. \A k \in Offsets :
        BlockIndex * BlockSize + k \in InfoOffset .. InfoOffset + InfoSize - 1
          <=> BlockIndex = InfoBlock /\ k \in DescOffset .. DescOffset + InfoSize - 1
  BY <1>1, DescriptorInOneBlock
<1> HIDE DEF padded
<1>5. StampInfo(padded) = [k \in Offsets |-> byte(k)]
  <2>1. CASE BlockIndex # InfoBlock
    <3>1. \A k \in Offsets : padded[k] = byte(k)
      BY <1>3, <1>4, <2>1
    <3> HIDE DEF byte
    <3> QED
      BY <1>3, <2>1, <3>1 DEF StampInfo
  <2>2. CASE BlockIndex = InfoBlock
    <3>1. \A k \in Offsets : byte(k) = IF k \in DescOffset .. DescOffset + InfoSize - 1
                                       THEN Info(capsule) ELSE padded[k]
      BY <1>3, <1>4, <2>2
    <3> HIDE DEF byte
    <3> QED
      BY <2>2, <3>1 DEF StampInfo
  <2> QED
    BY <2>1, <2>2
<1>6. NextChunk = Installed(capsule)[BlockIndex]
  BY <1>2, <1>5 DEF NextChunk, padded
<1> QED
  BY <1>1, <1>6, InstalledIsImage

-----------------------------------------------------------------------------
(* Invariance, action by action.                                           *)

\* The buffers of a fresh call and the factory image are made of bytes.
LEMMA FreshBlocks == BlankBlock \in Block /\ StaleBlock \in Block
BY GeometryAssumption DEF BlankBlock, StaleBlock, Byte

\* The locals of a call that has not begun.
LEMMA FreshLocalsTyped ==
  ASSUME NEW n \in Nat, FreshLocals(n)
  PROVE  /\ BlockIndex' \in 0 .. BlockCount /\ ImageBytes' \in Nat
         /\ RemainingToWrite' \in Nat /\ Chunk' \in Block
BY ZeroIsIndex, FreshBlocks DEF FreshLocals

\* Nothing is open, unlocked or reported.
LEMMA InitFmpInv == Init => FmpInv
<1> SUFFICES ASSUME Init PROVE FmpInv
  OBVIOUS
<1>1. StorageInv
  <2>1. StorageInit(Blank(BlankBlock))
    BY DEF Init, Factory, Blank
  <2> QED
    BY <2>1, FreshBlocks, InitStorageInv
<1>2. TypeOK
  <2>1. capsule \in Capsules
    BY CapsuleAssumption DEF Init
  <2>2. BlockIndex \in 0 .. BlockCount /\ Chunk \in Block
    BY ZeroIsIndex, FreshBlocks DEF Init
  <2>3. updates \in 0 .. MaxUpdates /\ cycles \in 0 .. MaxPowerCycles
    BY GeometryAssumption DEF Init
  <2> QED
    BY <1>1, <2>1, <2>2, <2>3
    DEF Init, TypeOK, StorageInv, LasStatus, Partition, None
<1>3. SessionInv /\ LoopInv /\ AcceptedInv
  BY DEF Init, StorageInit, SessionInv, LoopInv, AcceptedInv, InSession, Applying
<1>4. DoneInv /\ SuccessInstallsBoth
  BY DEF Init, DoneInv, SuccessInstallsBoth, InSession, Applying, None
<1>5. UnlockInv /\ LockInv
  BY DEF Init, StorageInit, UnlockInv, LockInv, LockSealsBoth, None
<1> QED
  BY <1>1, <1>2, <1>3, <1>4, <1>5 DEF FmpInv

(* An update begins only after the previous one returned, with no session  *)
(* open, and goes on to the partitions only with a capsule that fits.      *)
LEMMA SetImageKeepsInv ==
  ASSUME FmpInv, NEW c \in Capsules, SetImage(c)
  PROVE  FmpInv'
<1> USE DEF FmpInv
<1>1. /\ pc = "idle" /\ updates + cycles < MaxUpdates /\ updates' = updates + 1 /\ capsule' = c
      /\ UNCHANGED <<storageVars, applyVars, lasVar, lockVars, cycles, histVars>>
      /\ \/ ret' = "EFI_ABORTED" /\ pc' = "idle" /\ target' = target
            /\ LastAttemptStatus' = "ERROR_INVALID_FORMAT"
         \/ /\ mIsSupported /\ ret' = None /\ target' = "A"
            /\ \/ LastAttemptStatus' = "ERROR_INVALID_FORMAT" /\ pc' = "store"
               \/ /\ LastAttemptStatus' = "SUCCESS" /\ pc' = "open"
                  /\ ~(c.size > BpSize)
  BY DEF SetImage, Running, SreStorageInfo
<1>2. StorageInv'
  BY <1>1, UnchangedKeepsInv
<1>3. TypeOK'
  <2>1. updates' \in 0 .. MaxUpdates
    BY <1>1, GeometryAssumption DEF TypeOK
  <2> QED
    BY <1>1, <1>2, <2>1
    DEF TypeOK, StorageInv, LasStatus, Partition, applyVars, lockVars, histVars
<1>4. ~(c.size > BpSize) => c.size <= BpSize
  BY CapsuleAssumption, GeometryAssumption, BlockCountAssumption DEF BpSize
<1>5. SessionInv' /\ LoopInv' /\ AcceptedInv'
  BY <1>1, <1>4 DEF SessionInv, LoopInv, AcceptedInv, InSession, Applying, storageVars,
     libVars, openVars, None
<1>6. DoneInv' /\ SuccessInstallsBoth'
  BY <1>1 DEF DoneInv, SuccessInstallsBoth, InSession, Applying, None
<1>7. UnlockInv' /\ LockInv'
  BY <1>1 DEF UnlockInv, LockInv, LockSealsBoth, storageVars, libVars, openVars,
     devVars, lockVars, histVars
<1> QED
  BY <1>2, <1>3, <1>5, <1>6, <1>7

(* The end of an apply: the session is over, and only a partition that     *)
(* holds the capsule leaves LastAttemptStatus alone.                       *)
LEMMA ApplyReturnsKeepsInv ==
  ASSUME FmpInv, pc \in Applying, NEW st, ApplyReturns(st),
         StorageInv', ~mIsWriteOpen', opening' = NoPartition,
         mIsSupported' = mIsSupported, UnlockInv',
         UNCHANGED <<capsule, ret, lasVar, lockVars, updates, cycles, sealed>>,
         committed' \subseteq Partition, relockLost' \in BOOLEAN,
         st = "EFI_SUCCESS" => /\ flash'[target] = Installed(capsule)
                               /\ \A p \in Partition \ {target} : flash'[p] = flash[p]
  PROVE  FmpInv'
<1> USE DEF FmpInv
<1>1. /\ pc' = IF target = "A" THEN "open" ELSE "store"
      /\ target' = IF target = "A" THEN "B" ELSE "A"
      /\ target \in {"A", "B"} /\ ret = None /\ mIsSupported /\ capsule.size <= BpSize
      /\ LastAttemptStatus' = IF st = "EFI_SUCCESS" THEN LastAttemptStatus
                              ELSE "ERROR_UNSUCCESSFUL"
  BY DEF ApplyReturns, SessionInv, Applying, InSession, TypeOK, Partition
<1>2. TypeOK'
  <2>1. /\ BlockIndex' \in 0 .. BlockCount /\ ImageBytes' \in Nat
        /\ RemainingToWrite' \in Nat /\ Chunk' \in Block
    BY FreshLocalsTyped DEF ApplyReturns
  <2> QED
    BY <1>1, <2>1 DEF TypeOK, StorageInv, LasStatus, Partition, lockVars
<1>3. SessionInv' /\ LoopInv' /\ AcceptedInv'
  BY <1>1 DEF SessionInv, LoopInv, AcceptedInv, InSession, Applying
<1>4. DoneInv'
  BY <1>1 DEF DoneInv, InSession, Applying, Partition
<1>5. SuccessInstallsBoth' /\ LockInv'
  BY <1>1 DEF SuccessInstallsBoth, LockInv, LockSealsBoth, lockVars, None
<1> QED
  BY <1>2, <1>3, <1>4, <1>5

\* No memory for the block buffer: the partition is skipped as failed.
LEMMA OutOfResourcesKeepsInv ==
  ASSUME FmpInv, ApplyOutOfResources
  PROVE  FmpInv'
<1>1. /\ pc = "open" /\ ApplyReturns("EFI_ABORTED")
      /\ UNCHANGED <<storageVars, capsule, ret, lasVar, lockVars, updates, cycles, histVars>>
  BY DEF ApplyOutOfResources, Running
<1>2. StorageInv' /\ UnlockInv'
  <2>1. StorageInv'
    BY <1>1, UnchangedKeepsInv DEF FmpInv
  <2> QED
    BY <1>1, <2>1 DEF FmpInv, UnlockInv, storageVars, libVars, openVars, devVars, histVars
<1>3. /\ ~mIsWriteOpen' /\ mIsSupported' = mIsSupported /\ sealed' = sealed
      /\ opening' = NoPartition
  BY <1>1 DEF FmpInv, SessionInv, InSession, storageVars, libVars, openVars
<1>4. committed' \subseteq Partition /\ relockLost' \in BOOLEAN
  BY <1>1 DEF FmpInv, TypeOK, histVars
<1> QED
  BY <1>1, <1>2, <1>3, <1>4, ApplyReturnsKeepsInv DEF Applying

(* WriteOpen: the unlock is sent, and the apply waits for it.              *)
LEMMA OpenKeepsFmpInv ==
  ASSUME FmpInv, ApplyOpen
  PROVE  FmpInv'
<1> USE DEF FmpInv
<1>1. pc = "open" /\ UNCHANGED <<capsule, ret, lasVar, lockVars, updates, cycles, histVars>>
  BY DEF ApplyOpen, Running
<1>2. target \in Partition /\ mIsSupported /\ ~mIsWriteOpen
      /\ wps \in [Partition -> LockState]
  BY <1>1 DEF TypeOK, StorageTypeOK, SessionInv, Applying, InSession
<1>3. PICK st \in Status \cup {Waiting} :
        /\ SreStorageWriteOpen(target, st)
        /\ IF st = Waiting
           THEN /\ pc' = "opening"
                /\ UNCHANGED <<target, LastAttemptStatus, applyVars>>
           ELSE ApplyReturns(st)
  BY DEF ApplyOpen
<1>4. /\ st = Waiting /\ opening' = target
      /\ NvmeSetLockState(target, "WriteUnlocked", openStatus')
      /\ UNCHANGED <<libVars, staging, flash, accepted, sealed>>
  BY <1>2, <1>3 DEF SreStorageWriteOpen
<1>5. pc' = "opening" /\ UNCHANGED <<target, LastAttemptStatus, applyVars>>
  BY <1>3, <1>4
<1>6. \A q \in Partition : q # target => wps'[q] = wps[q]
  BY <1>2, <1>4, SetLockStateEffect DEF LockState
<1>7. StorageInv'
  BY <1>2, <1>3, OpenKeepsInv
<1>8. TypeOK'
  BY <1>1, <1>5, <1>7 DEF TypeOK, StorageInv, applyVars, lockVars, histVars
<1>9. SessionInv' /\ LoopInv' /\ AcceptedInv'
  BY <1>1, <1>2, <1>4, <1>5
  DEF SessionInv, LoopInv, AcceptedInv, InSession, Applying, libVars
<1>10. DoneInv' /\ SuccessInstallsBoth'
  BY <1>1, <1>4, <1>5 DEF DoneInv, SuccessInstallsBoth, InSession, Applying
<1>11. UnlockInv'
  <2>1. opening = NoPartition
    BY <1>1 DEF SessionInv
  <2> QED
    BY <1>1, <1>2, <1>4, <1>6, <2>1 DEF UnlockInv, Partition, NoPartition, histVars
<1>12. LockInv'
  BY <1>1, <1>4 DEF LockInv, LockSealsBoth, lockVars
<1> QED
  BY <1>7, <1>8, <1>9, <1>10, <1>11, <1>12

(* WriteOpen returned: on success the session starts at block 0 with the   *)
(* whole image left; a refused unlock may have taken effect, which         *)
(* relockLost remembers.                                                   *)
LEMMA OpenedKeepsFmpInv ==
  ASSUME FmpInv, ApplyOpened
  PROVE  FmpInv'
<1> USE DEF FmpInv
<1>1. pc = "opening" /\ UNCHANGED <<capsule, ret, lasVar, lockVars, updates, cycles>>
  BY DEF ApplyOpened, Running
<1>2. PICK st \in Status :
        /\ SreStorageWriteOpenReturns(st)
        /\ IF st = "EFI_SUCCESS"
           THEN /\ pc' = "block"
                /\ FreshLocals(capsule.size)
                /\ committed' = committed \ {target}
                /\ UNCHANGED <<target, LastAttemptStatus, relockLost>>
           ELSE /\ ApplyReturns(st)
                /\ relockLost' = TRUE
                /\ UNCHANGED committed
  BY DEF ApplyOpened
<1>3. /\ target \in Partition /\ mIsSupported /\ ~mIsWriteOpen /\ opening = target
  BY <1>1 DEF TypeOK, StorageTypeOK, SessionInv, Applying, InSession
<1>4. StorageInv'
  BY <1>2, OpenReturnsKeepsInv
<1>5. /\ UNCHANGED <<mIsSupported, wps, flash, sealed>> /\ opening' = NoPartition
      /\ st = "EFI_SUCCESS" => /\ mPartitionIndex' = target /\ mBlockIndex' = 0
                               /\ mIsWriteOpen' = TRUE
      /\ st # "EFI_SUCCESS" => UNCHANGED sessionVars
  BY <1>2, <1>3 DEF SreStorageWriteOpenReturns, devVars
<1>7. CASE st = "EFI_SUCCESS"
  <2>1. /\ pc' = "block" /\ target' = target /\ FreshLocals(capsule.size)
        /\ UNCHANGED <<LastAttemptStatus, relockLost>>
        /\ committed' = committed \ {target}
    BY <1>2, <1>7
  <2>2. TypeOK'
    <3>1. capsule.size \in Nat
      BY CapsuleAssumption DEF TypeOK
    <3>2. /\ BlockIndex' \in 0 .. BlockCount /\ ImageBytes' \in Nat
          /\ RemainingToWrite' \in Nat /\ Chunk' \in Block
      BY <2>1, <3>1, FreshLocalsTyped
    <3> QED
      BY <1>1, <1>4, <2>1, <3>2 DEF TypeOK, StorageInv, lockVars
  <2>3. SessionInv'
    BY <1>1, <1>3, <1>5, <1>7, <2>1 DEF SessionInv, InSession, Applying
  <2>4. LoopInv'
    <3>1. BlockIndex' = 0 /\ ImageBytes' = 0 /\ RemainingToWrite' = capsule.size
      BY <2>1 DEF FreshLocals
    <3>2. capsule.size \in Nat \ {0} /\ BlockSize \in Nat
      BY CapsuleAssumption, GeometryAssumption DEF TypeOK
    <3>3. Sent(0)' = 0
      BY <1>1, <3>2 DEF Sent
    <3> QED
      BY <1>1, <1>5, <1>7, <2>1, <3>1, <3>2, <3>3, BlockCountAssumption DEF LoopInv, Sent
  <2>5. AcceptedInv'
    BY <1>5, <1>7, BlockCountAssumption DEF AcceptedInv, BlockIdx
  <2>6. DoneInv' /\ SuccessInstallsBoth'
    BY <1>1, <1>5, <2>1 DEF DoneInv, SuccessInstallsBoth, InSession, Applying
  <2>7. UnlockInv'
    BY <1>3, <1>5, <1>7, <2>1 DEF UnlockInv
  <2>8. LockInv'
    BY <1>1, <1>5 DEF LockInv, LockSealsBoth, lockVars
  <2> QED
    BY <1>4, <2>2, <2>3, <2>4, <2>5, <2>6, <2>7, <2>8
<1>8. CASE st # "EFI_SUCCESS"
  <2>1. ApplyReturns(st) /\ committed' = committed /\ relockLost' = TRUE
    BY <1>2, <1>8
  <2>3. UnlockInv' /\ relockLost' \in BOOLEAN /\ committed' \subseteq Partition
    BY <2>1 DEF UnlockInv, TypeOK
  <2>4. ~mIsWriteOpen'
    BY <1>3, <1>5, <1>8 DEF sessionVars
  <2> QED
    BY <1>1, <1>4, <1>5, <1>8, <2>1, <2>3, <2>4, ApplyReturnsKeepsInv DEF Applying
<1> QED
  BY <1>7, <1>8

(* WriteBlock: the block sent is the capsule's block at mBlockIndex, and   *)
(* the loop's index moves with the library's.                              *)
LEMMA BlockKeepsFmpInv ==
  ASSUME FmpInv, ApplyBlock
  PROVE  FmpInv'
<1> USE DEF FmpInv
<1>1. /\ pc = "block" /\ Chunk' = NextChunk /\ ImageBytes' = ImageBytes + CopyAmt
      /\ RemainingToWrite' = RemainingToWrite - CopyAmt
      /\ UNCHANGED <<capsule, target, LastAttemptStatus, ret, lasVar, lockVars,
                     updates, cycles, histVars>>
  BY DEF ApplyBlock, Running
<1>2. PICK st \in Status :
        /\ SreStorageWriteBlock(NextChunk, st)
        /\ IF st = "EFI_SUCCESS"
           THEN /\ BlockIndex' = BlockIndex + 1
                /\ pc' = IF BlockIndex' < BlockCount THEN "block" ELSE "close"
           ELSE pc' = "abort" /\ UNCHANGED BlockIndex
  BY <1>1 DEF ApplyBlock
<1>3. /\ BlockIndex \in BlockIdx /\ NextChunk = Installed(capsule)[BlockIndex]
      /\ NextChunk \in Block
  BY <1>1, NextChunkIsInstalled
<1>4. /\ mBlockIndex = BlockIndex /\ mIsSupported /\ mIsWriteOpen
      /\ accepted \in Image /\ capsule \in Capsules
      /\ BlockIndex \in Nat /\ BlockIndex < BlockCount /\ BlockCount \in Nat
  BY <1>1, <1>3, BlockCountAssumption
  DEF LoopInv, SessionInv, InSession, Applying, TypeOK, StorageTypeOK, BlockIdx
<1>5. StorageInv'
  BY <1>2, <1>3, BlockKeepsInv
<1>6. /\ UNCHANGED <<mIsSupported, mIsWriteOpen, mPartitionIndex, opening, wps, flash,
                     sealed>>
      /\ \/ /\ st = "EFI_SUCCESS" /\ mBlockIndex' = mBlockIndex + 1
            /\ accepted' = [accepted EXCEPT ![mBlockIndex] = NextChunk]
         \/ /\ st = "EFI_PROTOCOL_ERROR" /\ mBlockIndex' = mBlockIndex
            /\ accepted' = accepted
  <2>1. ~AtEndOfMedia
    BY <1>4 DEF AtEndOfMedia
  <2>2. /\ mIsSupported /\ mIsWriteOpen /\ ~AtEndOfMedia
        /\ \/ /\ st = "EFI_SUCCESS"
              /\ accepted' = [accepted EXCEPT ![mBlockIndex] = NextChunk]
           \/ st = "EFI_PROTOCOL_ERROR" /\ accepted' = accepted
        /\ mBlockIndex' = NextBlockIndex(st)
        /\ UNCHANGED <<mIsSupported, mIsWriteOpen, mPartitionIndex, opening, wps, flash,
                       sealed>>
    BY <1>2, <1>4, <2>1 DEF SreStorageWriteBlock, openVars
  <2> QED
    BY <2>2 DEF NextBlockIndex
<1>7. /\ CopyAmt \in Nat /\ CopyAmt <= RemainingToWrite
      /\ ImageBytes + CopyAmt = Sent(BlockIndex + 1)
      /\ ImageBytes \in Nat /\ RemainingToWrite \in Nat
  BY <1>1, CopyAmtIsRest, GeometryAssumption DEF TypeOK
<1>8. /\ pc' \in InSession
      /\ pc' = "block" => st = "EFI_SUCCESS" /\ BlockIndex + 1 < BlockCount
      /\ pc' = "close" => st = "EFI_SUCCESS" /\ BlockIndex + 1 = BlockCount
  BY <1>2, <1>4 DEF InSession
<1>9. TypeOK'
  <2>1. BlockIndex' \in 0 .. BlockCount
    BY <1>2, <1>4
  <2>2. ImageBytes' \in Nat /\ RemainingToWrite' \in Nat /\ Chunk' \in Block
    BY <1>1, <1>3, <1>7
  <2> QED
    BY <1>1, <1>5, <1>8, <2>1, <2>2 DEF TypeOK, StorageInv, InSession, lockVars, histVars
<1>10. SessionInv'
  BY <1>1, <1>4, <1>6, <1>8 DEF SessionInv, InSession, Applying
<1>11. LoopInv'
  <2>1. CASE pc' = "block"
    <3>1. BlockIndex' = BlockIndex + 1 /\ mBlockIndex' = BlockIndex'
      BY <1>2, <1>4, <1>6, <1>8, <2>1
    <3>2. Sent(BlockIndex)' = Sent(BlockIndex + 1)
      BY <1>1, <3>1 DEF Sent
    <3>3. RemainingToWrite' = capsule'.size - ImageBytes'
      <4>1. capsule.size \in Nat /\ RemainingToWrite = capsule.size - ImageBytes
        BY <1>1, CapsuleAssumption DEF TypeOK, LoopInv
      <4> QED
        BY <1>1, <1>7, <4>1
    <3> QED
      BY <1>1, <1>7, <1>8, <2>1, <3>1, <3>2, <3>3 DEF LoopInv
  <2>2. CASE pc' # "block"
    BY <1>4, <1>6, <1>8, <2>2 DEF LoopInv
  <2> QED
    BY <2>1, <2>2
<1>12. AcceptedInv'
  <2> SUFFICES ASSUME NEW b \in BlockIdx, b < mBlockIndex'
               PROVE  accepted'[b] = Installed(capsule)[b]
    BY <1>1 DEF AcceptedInv
  <2>1. \A d \in BlockIdx : d < mBlockIndex => accepted[d] = Installed(capsule)[d]
    BY <1>1 DEF AcceptedInv, InSession
  <2>2. CASE b = mBlockIndex
    BY <1>3, <1>4, <1>6, <2>2 DEF Image
  <2>3. CASE b # mBlockIndex
    <3>1. b < mBlockIndex
      BY <1>4, <1>6, <2>3 DEF BlockIdx
    <3> QED
      BY <1>4, <1>6, <2>1, <2>3, <3>1 DEF Image
  <2> QED
    BY <2>2, <2>3
<1>13. DoneInv' /\ SuccessInstallsBoth'
  BY <1>1, <1>6, <1>8 DEF DoneInv, SuccessInstallsBoth, InSession, Applying
<1>14. UnlockInv' /\ LockInv'
  BY <1>1, <1>6 DEF UnlockInv, LockInv, LockSealsBoth, lockVars, histVars
<1> QED
  BY <1>5, <1>9, <1>10, <1>11, <1>12, <1>13, <1>14

\* A complete session of an apply has staged the installed capsule.
LEMMA StagedIsInstalled ==
  ASSUME FmpInv, pc \in InSession, SessionComplete
  PROVE  staging = Installed(capsule)
<1>1. mIsWriteOpen /\ capsule \in Capsules /\ staging \in Image
  BY DEF FmpInv, SessionInv, TypeOK, StorageTypeOK
<1>2. staging = accepted
  BY <1>1, CompleteSessionIsStaged DEF FmpInv
<1>3. \A b \in BlockIdx : accepted[b] = Installed(capsule)[b]
  BY BlockCountAssumption DEF FmpInv, AcceptedInv, SessionComplete, BlockIdx
<1>4. Installed(capsule) \in Image
  BY <1>1, InstalledIsImage
<1> QED
  BY <1>1, <1>2, <1>3, <1>4 DEF Image

(* WriteClose: the commit copies the capsule; a commit reported as failed  *)
(* leaves the session to the abort.                                        *)
LEMMA CloseKeepsFmpInv ==
  ASSUME FmpInv, ApplyClose
  PROVE  FmpInv'
<1> USE DEF FmpInv
<1>1. /\ pc = "close" /\ UNCHANGED <<capsule, ret, lasVar, lockVars, updates, cycles, relockLost>>
  BY DEF ApplyClose, Running
<1>2. PICK st \in Status :
        /\ SreStorageWriteClose(st)
        /\ IF st = "EFI_SUCCESS"
           THEN ApplyReturns(st) /\ committed' = committed \cup {target}
           ELSE /\ pc' = "abort"
                /\ UNCHANGED <<target, LastAttemptStatus, committed, applyVars>>
  BY DEF ApplyClose
<1>3. /\ mIsSupported /\ mIsWriteOpen /\ SessionComplete /\ mPartitionIndex = target
      /\ target \in Partition /\ flash \in [Partition -> Image]
  BY <1>1 DEF SessionInv, LoopInv, InSession, Applying, SessionComplete, TypeOK, StorageTypeOK
<1>4. StorageInv'
  BY <1>2, CloseKeepsInv
<1>5. staging = Installed(capsule)
  BY <1>1, <1>3, StagedIsInstalled DEF InSession
<1>6. /\ UNCHANGED <<mIsSupported, wps, staging, sealed>>
      /\ opening' = NoPartition /\ opening = NoPartition
      /\ \/ /\ st = "EFI_SUCCESS" /\ flash' = [flash EXCEPT ![target] = staging]
            /\ ~mIsWriteOpen'
         \/ /\ st = "EFI_PROTOCOL_ERROR" /\ UNCHANGED sessionVars
            /\ flash' = flash \/ flash' = [flash EXCEPT ![target] = staging]
  BY <1>1, <1>2, <1>3
  DEF SreStorageWriteClose, FirmwareCommitTakesEffect, SessionEnds, SessionInv, openVars
<1>7. /\ st = "EFI_SUCCESS" => flash'[target] = Installed(capsule)
      /\ \A p \in Partition \ {target} : flash'[p] = flash[p]
  BY <1>3, <1>5, <1>6
<1>8. CASE st = "EFI_SUCCESS"
  <2>1. ApplyReturns(st) /\ committed' = committed \cup {target} /\ ~mIsWriteOpen'
    BY <1>2, <1>6, <1>8
  <2>2. UnlockInv'
    BY <1>1, <1>3, <1>6, <2>1 DEF UnlockInv
  <2>3. committed' \subseteq Partition /\ relockLost' \in BOOLEAN
    BY <1>1, <1>3, <2>1 DEF TypeOK
  <2> QED
    BY <1>1, <1>4, <1>6, <1>7, <2>1, <2>2, <2>3, ApplyReturnsKeepsInv DEF Applying, InSession
<1>9. CASE st # "EFI_SUCCESS"
  <2>1. /\ pc' = "abort" /\ UNCHANGED <<target, LastAttemptStatus, committed, applyVars>>
        /\ UNCHANGED sessionVars
    BY <1>2, <1>6, <1>9
  <2>2. TypeOK'
    BY <1>1, <1>4, <2>1 DEF TypeOK, StorageInv, applyVars, lockVars
  <2>3. SessionInv' /\ LoopInv' /\ AcceptedInv'
    BY <1>1, <1>6, <2>1
    DEF SessionInv, LoopInv, AcceptedInv, InSession, Applying, sessionVars
  <2>4. DoneInv' /\ SuccessInstallsBoth'
    BY <1>1, <1>7, <2>1
    DEF DoneInv, SuccessInstallsBoth, InSession, Applying, TypeOK, Partition
  <2>5. UnlockInv' /\ LockInv'
    BY <1>1, <1>6, <2>1 DEF UnlockInv, LockInv, LockSealsBoth, lockVars, sessionVars
  <2> QED
    BY <1>4, <2>2, <2>3, <2>4, <2>5
<1> QED
  BY <1>8, <1>9

(* WriteAbort: the session ends whatever the device answers, and an apply  *)
(* that ends here counts as failed.                                        *)
LEMMA AbortKeepsFmpInv ==
  ASSUME FmpInv, ApplyAbort
  PROVE  FmpInv'
<1> USE DEF FmpInv
<1>1. /\ pc = "abort" /\ ApplyReturns("EFI_ABORTED")
      /\ UNCHANGED <<capsule, ret, lasVar, lockVars, updates, cycles, committed>>
  BY DEF ApplyAbort, Running
<1>2. PICK st \in Status : /\ SreStorageWriteAbort(st)
                           /\ relockLost' = (relockLost \/ st # "EFI_SUCCESS")
  BY DEF ApplyAbort
<1>3. /\ mIsSupported /\ mIsWriteOpen /\ mPartitionIndex \in Partition
      /\ wps \in [Partition -> LockState]
  BY <1>1 DEF SessionInv, InSession, Applying, TypeOK, StorageTypeOK
<1>4. StorageInv'
  BY <1>2, AbortKeepsInv
<1>5. /\ NvmeSetLockState(mPartitionIndex, "WriteLocked", st)
      /\ ~mIsWriteOpen' /\ UNCHANGED <<mIsSupported, opening, flash, sealed>>
      /\ opening = NoPartition
  BY <1>1, <1>2, <1>3 DEF SreStorageWriteAbort, SessionEnds, SessionInv, openVars
<1>6. /\ \A q \in Partition : q # mPartitionIndex => wps'[q] = wps[q]
      /\ st = "EFI_SUCCESS" => wps'[mPartitionIndex] = "WriteLocked"
  BY <1>3, <1>5, SetLockStateEffect DEF LockState
<1>7. UnlockInv' /\ relockLost' \in BOOLEAN /\ committed' \subseteq Partition
  BY <1>1, <1>2, <1>5, <1>6 DEF UnlockInv, TypeOK
<1> QED
  BY <1>1, <1>4, <1>5, <1>7, ApplyReturnsKeepsInv DEF Applying, InSession

\* The call returns what LastAttemptStatus says, with no session open.
LEMMA StoreKeepsInv ==
  ASSUME FmpInv, StoreLastAttempt
  PROVE  FmpInv'
<1> USE DEF FmpInv
<1>1. /\ pc = "store" /\ pc' = "idle"
      /\ ret' = IF LastAttemptStatus = "SUCCESS" THEN "EFI_SUCCESS" ELSE "EFI_ABORTED"
      /\ lasVar' = <<LastAttemptStatus, capsule.version>> \/ lasVar' = lasVar
      /\ UNCHANGED <<storageVars, capsule, target, applyVars, LastAttemptStatus,
                     lockVars, updates, cycles, histVars>>
  BY DEF StoreLastAttempt, Running
<1>2. StorageInv'
  BY <1>1, UnchangedKeepsInv
<1>3. TypeOK'
  <2>1. lasVar' \in {<<>>} \cup (LasStatus \X {c.version : c \in Capsules})
    BY <1>1 DEF TypeOK
  <2> QED
    BY <1>1, <1>2, <2>1 DEF TypeOK, StorageInv, applyVars, lockVars, histVars
<1>4. SessionInv' /\ LoopInv' /\ AcceptedInv'
  BY <1>1 DEF SessionInv, LoopInv, AcceptedInv, InSession, Applying, storageVars, libVars,
     openVars
<1>5. DoneInv' /\ SuccessInstallsBoth'
  BY <1>1 DEF DoneInv, SuccessInstallsBoth, InSession, Applying, storageVars, devVars
<1>6. UnlockInv' /\ LockInv'
  BY <1>1 DEF UnlockInv, LockInv, LockSealsBoth, storageVars, libVars, openVars,
     devVars, lockVars, histVars
<1> QED
  BY <1>2, <1>3, <1>4, <1>5, <1>6

(* The lock event, whenever it comes: with a session open it is refused,   *)
(* in the wait of a WriteOpen it is not, and it never unlocks.             *)
LEMMA LockStepEffect ==
  ASSUME FmpInv, NEW p \in Partition, LockStep(p)
  PROVE  /\ StorageInv' /\ SessionInv' /\ LoopInv' /\ AcceptedInv' /\ DoneInv'
         /\ SuccessInstallsBoth' /\ UnlockInv'
         /\ UNCHANGED <<pc, capsule, target, applyVars, LastAttemptStatus, ret,
                        lasVar, updates, cycles, histVars>>
         /\ \E st \in Status :
              /\ lockStatus' = IF p = "A" THEN st ELSE FirstError(lockStatus, st)
              /\ sealed \subseteq sealed'
              /\ st = "EFI_SUCCESS" => p \in sealed'
<1> USE DEF FmpInv
<1>1. UNCHANGED <<pc, capsule, target, applyVars, LastAttemptStatus, ret,
                  lasVar, updates, cycles, histVars>>
  BY DEF LockStep
<1>2. PICK st \in Status :
        /\ SreStorageLock(p, st)
        /\ lockStatus' = IF p = "A" THEN st ELSE FirstError(lockStatus, st)
  BY DEF LockStep
<1>3. StorageInv'
  BY <1>2, LockKeepsInv
<1>4. wps \in [Partition -> LockState]
  BY DEF TypeOK, StorageTypeOK
<1>5. /\ UNCHANGED <<libVars, opening, accepted, staging, flash>>
      /\ sealed \subseteq sealed'
      /\ st = "EFI_SUCCESS" => p \in sealed'
      /\ \A q \in Partition : wps'[q] = "WriteUnlocked" => wps[q] = "WriteUnlocked"
  <2>1. CASE UNCHANGED storageVars /\ st # "EFI_SUCCESS"
    BY <2>1 DEF storageVars, libVars, openVars, devVars
  <2>2. CASE LockSends(p, "WriteLockedUntilPowerCycle", st)
    BY <1>4, <2>2 DEF LockSends, NvmeSetLockState, SetFeaturesTakesEffect, openVars
  <2> QED
    BY <1>2, <2>1, <2>2 DEF SreStorageLock
<1>6. SessionInv' /\ LoopInv' /\ AcceptedInv'
  BY <1>1, <1>5 DEF SessionInv, LoopInv, AcceptedInv, Sent, libVars, applyVars
<1>7. DoneInv' /\ SuccessInstallsBoth' /\ UnlockInv'
  BY <1>1, <1>5 DEF DoneInv, SuccessInstallsBoth, UnlockInv, libVars, histVars
<1>8. \E t \in Status :
        /\ lockStatus' = IF p = "A" THEN t ELSE FirstError(lockStatus, t)
        /\ sealed \subseteq sealed'
        /\ t = "EFI_SUCCESS" => p \in sealed'
  <2> WITNESS st \in Status
  <2> QED
    BY <1>2, <1>5
<1> QED
  BY <1>1, <1>3, <1>6, <1>7, <1>8

\* FmpDeviceLock remembers the first error, so success means both succeeded.
LEMMA LockKeepsFmpInv ==
  ASSUME FmpInv, FmpDeviceLock \/ FmpDeviceLockSecond
  PROVE  FmpInv'
<1> USE DEF FmpInv
<1>1. CASE FmpDeviceLock
  <2>1. lockPc' = "B" /\ LockStep("A") /\ "A" \in Partition
    BY <1>1 DEF FmpDeviceLock, Partition
  <2>2. PICK st \in Status : lockStatus' = st /\ (st = "EFI_SUCCESS" => "A" \in sealed')
    BY <2>1, LockStepEffect
  <2>3. LockInv'
    BY <2>1, <2>2 DEF LockInv, LockSealsBoth, None
  <2>4. TypeOK'
    BY <2>1, <2>2, LockStepEffect DEF TypeOK, StorageInv, applyVars, histVars
  <2> QED
    BY <2>1, <2>3, <2>4, LockStepEffect
<1>2. CASE FmpDeviceLockSecond
  <2>1. lockPc = "B" /\ lockPc' = None /\ LockStep("B") /\ "B" \in Partition
    BY <1>2 DEF FmpDeviceLockSecond, Partition
  <2>2. PICK st \in Status :
          /\ lockStatus' = FirstError(lockStatus, st)
          /\ sealed \subseteq sealed' /\ (st = "EFI_SUCCESS" => "B" \in sealed')
    BY <2>1, LockStepEffect
  <2>3. StorageInv'
    BY <2>1, LockStepEffect
  <2>4. LockInv'
    <3>1. sealed' \subseteq Partition
      BY <2>3 DEF StorageInv, StorageTypeOK
    <3> QED
      BY <2>1, <2>2, <3>1 DEF LockInv, LockSealsBoth, FirstError, None, Partition
  <2>5. TypeOK'
    BY <2>1, <2>2, LockStepEffect DEF TypeOK, StorageInv, FirstError, applyVars, histVars
  <2> QED
    BY <2>1, <2>4, <2>5, LockStepEffect
<1> QED
  BY <1>1, <1>2

\* Everything a running update had is forgotten, its result included.
LEMMA PowerLossKeepsInv ==
  ASSUME FmpInv, PowerLoss
  PROVE  FmpInv'
<1> USE DEF FmpInv
<1>1. /\ cycles < MaxPowerCycles /\ cycles' = cycles + 1 /\ PowerCycle
      /\ pc' = "idle" /\ target' = "A" /\ FreshLocals(0) /\ LastAttemptStatus' = "SUCCESS"
      /\ ret' = None /\ lockPc' = None /\ lockStatus' = None
      /\ committed' = {} /\ relockLost' = FALSE /\ UNCHANGED <<capsule, lasVar, updates>>
  BY DEF PowerLoss
<1>2. StorageInv'
  BY <1>1, PowerCycleKeepsInv
<1>3. /\ ~mIsWriteOpen' /\ opening' = NoPartition
      /\ wps' = [p \in Partition |-> "WriteLocked"]
  BY <1>1 DEF PowerCycle, Constructor
<1>4. TypeOK'
  <2>1. /\ BlockIndex' \in 0 .. BlockCount /\ ImageBytes' \in Nat
        /\ RemainingToWrite' \in Nat /\ Chunk' \in Block
    BY <1>1, FreshLocalsTyped
  <2>2. cycles' \in 0 .. MaxPowerCycles
    BY <1>1, GeometryAssumption DEF TypeOK
  <2> QED
    BY <1>1, <1>2, <2>1, <2>2 DEF TypeOK, StorageInv, LasStatus, Partition
<1>5. SessionInv' /\ LoopInv' /\ AcceptedInv' /\ DoneInv'
  BY <1>1, <1>3 DEF SessionInv, LoopInv, AcceptedInv, DoneInv, InSession, Applying
<1>6. SuccessInstallsBoth' /\ UnlockInv' /\ LockInv'
  BY <1>1, <1>3 DEF SuccessInstallsBoth, UnlockInv, LockInv, LockSealsBoth, None
<1> QED
  BY <1>2, <1>4, <1>5, <1>6

\* Every step keeps the invariant.
LEMMA NextKeepsFmpInv ==
  ASSUME FmpInv, [Next]_vars
  PROVE  FmpInv'
<1>1. CASE \E c \in Capsules : SetImage(c)
  BY <1>1, SetImageKeepsInv
<1>2. CASE UpdateStep
  BY <1>2, OutOfResourcesKeepsInv, OpenKeepsFmpInv, OpenedKeepsFmpInv, BlockKeepsFmpInv,
     CloseKeepsFmpInv, AbortKeepsFmpInv, StoreKeepsInv DEF UpdateStep
<1>3. CASE FmpDeviceLock \/ FmpDeviceLockSecond
  BY <1>3, LockKeepsFmpInv
<1>4. CASE PowerLoss
  BY <1>4, PowerLossKeepsInv
<1>5. CASE UNCHANGED vars
  <2>1. UNCHANGED storageVars /\ UNCHANGED fmpVars
    BY <1>5 DEF vars
  <2>2. StorageInv'
    BY <2>1, UnchangedKeepsInv DEF FmpInv
  <2>3. TypeOK'
    BY <2>1, <2>2 DEF FmpInv, TypeOK, StorageInv, fmpVars, applyVars, lockVars, histVars
  <2>4. SessionInv' /\ LoopInv' /\ AcceptedInv' /\ DoneInv' /\ SuccessInstallsBoth'
    BY <2>1 DEF FmpInv, SessionInv, LoopInv, Sent, AcceptedInv, DoneInv, SuccessInstallsBoth,
       storageVars, libVars, openVars, devVars, fmpVars, applyVars
  <2>5. UnlockInv' /\ LockInv'
    BY <2>1 DEF FmpInv, UnlockInv, LockInv, LockSealsBoth, storageVars, libVars, openVars,
       devVars, fmpVars, lockVars, histVars
  <2> QED
    BY <2>2, <2>3, <2>4, <2>5 DEF FmpInv
<1> QED
  BY <1>1, <1>2, <1>3, <1>4, <1>5 DEF Next

-----------------------------------------------------------------------------

\* The invariant holds in every reachable state.
THEOREM FmpInvariance == Spec => []FmpInv
<1> QED
  BY InitFmpInv, NextKeepsFmpInv, PTL DEF Spec

\* Every variable of the device library and of the storage below keeps its type.
THEOREM FmpTypeCorrect == Spec => []TypeOK
<1>1. FmpInv => TypeOK
  BY DEF FmpInv
<1> QED
  BY <1>1, FmpInvariance, PTL

(* EFI_SUCCESS of FmpDeviceSetImageWithStatus means that both partitions   *)
(* hold the capsule byte for byte, for every geometry and payload.         *)
THEOREM SuccessIsTruthful == Spec => []SuccessInstallsBoth
<1>1. FmpInv => SuccessInstallsBoth
  BY DEF FmpInv
<1> QED
  BY <1>1, FmpInvariance, PTL

(* Every path of ApplyWimToSreStorage ends its write session.              *)
THEOREM NoSessionIsLeaked == Spec => []NoSessionWhenIdle
<1>1. FmpInv => NoSessionWhenIdle
  BY DEF FmpInv, SessionInv, InSession, NoSessionWhenIdle
<1> QED
  BY <1>1, FmpInvariance, PTL

(* A failed apply restores write protection, unless the device refused it. *)
THEOREM FailureRelocks == Spec => []WritableOnlyAfterCommit
<1>1. FmpInv => WritableOnlyAfterCommit
  BY DEF FmpInv, SessionInv, InSession, UnlockInv, WritableOnlyAfterCommit, Partition,
     NoPartition
<1> QED
  BY <1>1, FmpInvariance, PTL

\* EFI_SUCCESS of FmpDeviceLock means that both partitions are sealed.
THEOREM LockIsTruthful == Spec => []LockSealsBoth
<1>1. FmpInv => LockSealsBoth
  BY DEF FmpInv, LockInv
<1> QED
  BY <1>1, FmpInvariance, PTL

-----------------------------------------------------------------------------
(* Progress: what is left while an apply is in progress is more than what  *)
(* follows it.                                                             *)
LEMMA StepsLeftAt ==
  ASSUME FmpInv
  PROVE  /\ StepsLeft \in Nat
         /\ pc # "idle" => StepsLeft > 0
         /\ pc \in Applying =>
              StepsLeft > 1 + (IF target = "A" THEN ApplySteps ELSE 0)
<1> DEFINE rest == IF target = "A" THEN ApplySteps ELSE 0
<1>1. /\ BlockCount \in Nat /\ BlockIndex \in 0 .. BlockCount
      /\ pc \in {"idle", "open", "opening", "block", "close", "abort", "store"}
  BY BlockCountAssumption DEF FmpInv, TypeOK
<1>2. rest \in Nat /\ ApplySteps \in Nat /\ ApplySteps > 0
  BY <1>1 DEF ApplySteps
<1> HIDE DEF rest
<1>3. CASE pc = "idle"
  BY <1>3 DEF StepsLeft, Applying, InSession
<1>4. CASE pc = "store"
  BY <1>4 DEF StepsLeft, Applying, InSession
<1>5. CASE pc \in Applying
  <2>1. \/ StepsLeft = 1 + rest + ApplySteps
        \/ StepsLeft = 1 + rest + (BlockCount + 3)
        \/ StepsLeft = 1 + rest + (BlockCount - BlockIndex + 2)
        \/ StepsLeft = 1 + rest + 2
        \/ StepsLeft = 1 + rest + 1
    BY <1>5 DEF StepsLeft, rest, Applying, InSession
  <2>2. StepsLeft \in Nat /\ StepsLeft > 1 + rest
    BY <1>1, <1>2, <2>1
  <2>3. StepsLeft > 0
    BY <1>2, <2>2
  <2> QED
    BY <2>2, <2>3 DEF rest
<1> QED
  BY <1>1, <1>3, <1>4, <1>5 DEF Applying, InSession

(* The end of an apply is nearer the return than any step of it.           *)
LEMMA ApplyReturnsAdvances ==
  ASSUME FmpInv, FmpInv', pc \in Applying, NEW st, ApplyReturns(st)
  PROVE  StepsLeft' \in 0 .. StepsLeft - 1
<1>1. /\ pc' = IF target = "A" THEN "open" ELSE "store"
      /\ target' = IF target = "A" THEN "B" ELSE "A"
  BY DEF ApplyReturns
<1>2. /\ StepsLeft \in Nat /\ ApplySteps \in Nat
      /\ StepsLeft > 1 + (IF target = "A" THEN ApplySteps ELSE 0)
  BY StepsLeftAt, BlockCountAssumption DEF ApplySteps
<1>3. StepsLeft' = 1 + (IF target = "A" THEN ApplySteps ELSE 0)
  <2>1. ApplySteps' = ApplySteps
    BY DEF ApplySteps
  <2>2. StepsLeft' = IF target = "A" THEN 1 + 0 + ApplySteps ELSE 1
    BY <1>1, <2>1 DEF StepsLeft
  <2> QED
    BY <1>2, <2>2
<1> QED
  BY <1>2, <1>3

(* Every step of an update, successful or not, brings its return nearer;   *)
(* the lock event takes none of its steps back.                            *)
LEMMA StepAdvances ==
  ASSUME FmpInv, FmpInv', [Next]_vars, pc # "idle"
  PROVE  \/ StepsLeft' \in 0 .. StepsLeft - 1
         \/ lockPc' # lockPc /\ StepsLeft' = StepsLeft
         \/ UNCHANGED vars
<1>0. /\ BlockCount \in Nat /\ ApplySteps \in Nat /\ ApplySteps' = ApplySteps
      /\ ApplySteps = BlockCount + 4
  BY BlockCountAssumption DEF ApplySteps
<1>1. CASE ApplyOutOfResources \/ ApplyAbort
  BY <1>1, ApplyReturnsAdvances DEF ApplyOutOfResources, ApplyAbort, Running, Applying,
     InSession
<1>2. CASE ApplyOpen
  <2>1. pc = "open"
    BY <1>2 DEF ApplyOpen, Running
  <2>2. CASE \E st \in Status : ApplyReturns(st)
    BY <2>1, <2>2, ApplyReturnsAdvances DEF Applying
  <2>3. CASE pc' = "opening" /\ target' = target
    <3>1. StepsLeft = 1 + (IF target = "A" THEN ApplySteps ELSE 0) + ApplySteps
      BY <2>1 DEF StepsLeft
    <3>2. StepsLeft' = 1 + (IF target = "A" THEN ApplySteps ELSE 0) + (BlockCount + 3)
      BY <1>0, <2>3 DEF StepsLeft
    <3> QED
      BY <1>0, <3>1, <3>2
  <2> QED
    <3>1. PICK st \in Status \cup {Waiting} :
            IF st = Waiting
            THEN pc' = "opening" /\ UNCHANGED <<target, LastAttemptStatus, applyVars>>
            ELSE ApplyReturns(st)
      BY <1>2 DEF ApplyOpen
    <3> QED
      BY <2>2, <2>3, <3>1
<1>8. CASE ApplyOpened
  <2>1. pc = "opening"
    BY <1>8 DEF ApplyOpened, Running
  <2>2. CASE \E st \in Status : ApplyReturns(st)
    BY <2>1, <2>2, ApplyReturnsAdvances DEF Applying
  <2>3. CASE pc' = "block" /\ BlockIndex' = 0 /\ target' = target
    <3>1. StepsLeft = 1 + (IF target = "A" THEN ApplySteps ELSE 0) + (BlockCount + 3)
      BY <2>1 DEF StepsLeft
    <3>2. StepsLeft' = 1 + (IF target = "A" THEN ApplySteps ELSE 0)
                         + (BlockCount - 0 + 2)
      BY <1>0, <2>3 DEF StepsLeft
    <3> QED
      BY <1>0, <3>1, <3>2
  <2> QED
    BY <1>8, <2>2, <2>3 DEF ApplyOpened, FreshLocals
<1>3. CASE ApplyBlock
  <2>1. /\ pc = "block" /\ target' = target
        /\ \/ BlockIndex' = BlockIndex + 1
              /\ pc' = IF BlockIndex' < BlockCount THEN "block" ELSE "close"
           \/ pc' = "abort"
    BY <1>3 DEF ApplyBlock, Running
  <2>2. BlockIndex \in Nat /\ BlockIndex < BlockCount
    BY <1>0, <2>1 DEF FmpInv, TypeOK, LoopInv
  <2>3. StepsLeft = 1 + (IF target = "A" THEN ApplySteps ELSE 0)
                      + (BlockCount - BlockIndex + 2)
    BY <2>1 DEF StepsLeft
  <2>4. CASE pc' = "block" /\ BlockIndex' = BlockIndex + 1
    <3>1. StepsLeft' = 1 + (IF target = "A" THEN ApplySteps ELSE 0)
                         + (BlockCount - (BlockIndex + 1) + 2)
      BY <1>0, <2>1, <2>4 DEF StepsLeft
    <3> QED
      BY <1>0, <2>2, <2>3, <3>1
  <2>5. CASE pc' \in {"close", "abort"}
    <3>1. StepsLeft' \in {1 + (IF target = "A" THEN ApplySteps ELSE 0) + 1,
                          1 + (IF target = "A" THEN ApplySteps ELSE 0) + 2}
      BY <1>0, <2>1, <2>5 DEF StepsLeft
    <3> QED
      BY <1>0, <2>2, <2>3, <3>1
  <2> QED
    BY <2>1, <2>4, <2>5
<1>4. CASE ApplyClose
  <2>1. pc = "close"
    BY <1>4 DEF ApplyClose, Running
  <2>2. CASE \E st \in Status : ApplyReturns(st)
    BY <2>1, <2>2, ApplyReturnsAdvances DEF Applying, InSession
  <2>3. CASE pc' = "abort" /\ target' = target
    <3>1. StepsLeft = 1 + (IF target = "A" THEN ApplySteps ELSE 0) + 2
      BY <2>1 DEF StepsLeft
    <3>2. StepsLeft' = 1 + (IF target = "A" THEN ApplySteps ELSE 0) + 1
      BY <1>0, <2>3 DEF StepsLeft
    <3> QED
      BY <1>0, <3>1, <3>2
  <2> QED
    BY <1>4, <2>2, <2>3 DEF ApplyClose
<1>5. CASE StoreLastAttempt \/ PowerLoss
  <2>1. pc' = "idle"
    BY <1>5 DEF StoreLastAttempt, PowerLoss
  <2>2. StepsLeft' = 0
    BY <2>1 DEF StepsLeft
  <2>3. StepsLeft \in Nat /\ StepsLeft > 0
    BY StepsLeftAt
  <2> QED
    BY <2>2, <2>3
<1>6. CASE FmpDeviceLock \/ FmpDeviceLockSecond
  <2>1. lockPc' # lockPc /\ UNCHANGED <<pc, target, BlockIndex>>
    BY <1>6 DEF FmpDeviceLock, FmpDeviceLockSecond, LockStep, applyVars, None
  <2> QED
    BY <1>0, <2>1 DEF StepsLeft
<1>7. CASE UNCHANGED vars
  BY <1>7
<1> QED
  BY <1>1, <1>2, <1>3, <1>4, <1>5, <1>6, <1>7, <1>8
  DEF Next, UpdateStep, SetImage, Running

(* One FmpDeviceSetImageWithStatus takes a bounded number of steps for     *)
(* every number of blocks: what UpdateReturns needs besides fairness.      *)
THEOREM UpdateKeepsAdvancing == Spec => UpdateAdvances
<1> DEFINE A == pc # "idle" => \/ StepsLeft' \in 0 .. StepsLeft - 1
                               \/ lockPc' # lockPc /\ StepsLeft' = StepsLeft
<1>1. FmpInv /\ FmpInv' /\ [Next]_vars => [A]_vars
  BY StepAdvances
<1> QED
  BY <1>1, FmpInvariance, PTL DEF Spec, UpdateAdvances

-----------------------------------------------------------------------------
(* The update against its promise.                                         *)

(* An installed capsule can be read off its image: byte 0 names the        *)
(* payload, the descriptor the version.                                    *)
LEMMA InstalledInjective ==
  ASSUME NEW c \in Capsules, NEW d \in Capsules, Installed(c) = Installed(d)
  PROVE  c = d
<1>1. 0 \in BlockIdx /\ 0 \in Offsets /\ BlockSize \in Nat
  BY BlockCountAssumption, GeometryAssumption DEF BlockIdx, Offsets
<1>2. \A e \in Capsules : Installed(e)[0][0] = Data(e, 0)
  <2> SUFFICES ASSUME NEW e \in Capsules PROVE Installed(e)[0][0] = Data(e, 0)
    OBVIOUS
  <2>1. e.size \in Nat \ {0} /\ InfoOffset \in Nat \ {0} /\ InfoSize \in Nat
    BY CapsuleAssumption, GeometryAssumption
  <2>2. 0 * BlockSize + 0 = 0
    BY <1>1
  <2>3. 0 \notin InfoOffset .. InfoOffset + InfoSize - 1 /\ 0 < e.size
    BY <2>1
  <2> QED
    BY <1>1, <2>2, <2>3 DEF Installed
<1>3. \A e \in Capsules : Installed(e)[InfoBlock][DescOffset] = Info(e)
  <2>1. InfoOffset \in InfoOffset .. InfoOffset + InfoSize - 1
    BY GeometryAssumption
  <2> QED
    BY <2>1, DescriptorPlace DEF Installed
<1>4. c.payload = d.payload /\ c.version = d.version
  BY <1>2, <1>3 DEF Data, Info
<1> QED
  BY <1>4, CapsuleAssumption

\* What the promise sees of the three kinds of image.
LEMMA AbstractImages ==
  /\ AbstractImage(Factory) = <<"factory">>
  /\ AbstractImage(Torn) = <<"spoiled">>
  /\ \A c \in Capsules : AbstractImage(Installed(c)) = <<"capsule", c>>
<1>1. 0 \in BlockIdx
  BY BlockCountAssumption DEF BlockIdx
<1>2. Torn # Factory
  BY <1>1, FreshBlocks, UndefinedAssumption DEF Torn, Factory
<1>3. ASSUME NEW c \in Capsules
      PROVE  Installed(c) # Factory /\ Installed(c) # Torn
  <2>1. Installed(c)[0] \in Block
    BY <1>1, InstalledIsImage
  <2>2. Installed(c)[InfoBlock][DescOffset] = Info(c)
    <3>1. InfoOffset \in InfoOffset .. InfoOffset + InfoSize - 1
      BY GeometryAssumption
    <3> QED
      BY <3>1, DescriptorPlace DEF Installed
  <2>3. Factory[InfoBlock][DescOffset] = Zero
    BY DescriptorPlace DEF Factory, BlankBlock
  <2>4. Info(c) # Zero
    BY DEF Info, Zero
  <2> QED
    BY <1>1, <2>1, <2>2, <2>3, <2>4, UndefinedAssumption DEF Torn
<1>4. ASSUME NEW c \in Capsules
      PROVE  (CHOOSE e \in Capsules : Installed(c) = Installed(e)) = c
  BY InstalledInjective
<1> QED
  BY <1>2, <1>3, <1>4 DEF AbstractImage

\* The state the promise speaks of.
absContent == [p \in Partition |-> AbstractImage(flash[p])]
absPending == IF pc = "idle" THEN <<"none">> ELSE <<"capsule", capsule>>

\* A step that leaves the images, the call and the seals alone is no step of it.
LEMMA Stutters ==
  ASSUME UNCHANGED <<flash, ret, sealed>>, absPending' = absPending
  PROVE  UNCHANGED Update!updateVars
BY DEF Update!updateVars, absPending

\* An image put on one partition, seen by the promise.
LEMMA ContentEffect ==
  ASSUME NEW p \in Partition, NEW img, flash \in [Partition -> Image],
         flash' = [flash EXCEPT ![p] = img]
  PROVE  absContent' = [absContent EXCEPT ![p] = AbstractImage(img)]
<1>1. \A q \in Partition : flash'[q] = IF q = p THEN img ELSE flash[q]
  OBVIOUS
<1> QED
  BY <1>1 DEF absContent

(* A partition the controller can copy into is not sealed.                 *)
LEMMA UnlockedIsNotSealed ==
  ASSUME StorageInv, NEW p, wps[p] = "WriteUnlocked"
  PROVE  p \notin sealed
BY DEF StorageInv, SealedIsLocked

\* The calls before and after the partitions are written.
LEMMA CallRefines ==
  ASSUME FmpInv, (\E c \in Capsules : SetImage(c)) \/ StoreLastAttempt
  PROVE  [Update!Next]_(Update!updateVars)
<1>1. CASE \E c \in Capsules : SetImage(c)
  <2>1. PICK c \in Capsules : SetImage(c)
    BY <1>1
  <2>2. pc = "idle" /\ capsule' = c /\ UNCHANGED <<flash, sealed>>
    BY <2>1 DEF SetImage, Running, storageVars, devVars
  <2>3. CASE ret' = "EFI_ABORTED" /\ pc' = pc
    <3>1. Update!Refuse
      BY <2>2, <2>3 DEF Update!Refuse
    <3> QED
      BY <3>1 DEF Update!Next
  <2>4. CASE ret' = None /\ pc' \in {"store", "open"}
    <3>1. Update!Begin(<<"capsule", c>>)
      BY <2>2, <2>4 DEF Update!Begin, None
    <3> QED
      BY <3>1 DEF Update!Next
  <2> QED
    BY <2>1, <2>3, <2>4 DEF SetImage
<1>2. CASE StoreLastAttempt
  <2>1. /\ pc = "store" /\ pc' = "idle" /\ UNCHANGED <<flash, sealed, capsule>>
        /\ ret' = IF LastAttemptStatus = "SUCCESS" THEN "EFI_SUCCESS" ELSE "EFI_ABORTED"
    BY <1>2 DEF StoreLastAttempt, Running, storageVars, devVars
  <2>2. <<"capsule", capsule>> # <<"none">>
    OBVIOUS
  <2>3. LastAttemptStatus = "SUCCESS" =>
          \A p \in Partition : AbstractImage(flash[p]) = <<"capsule", capsule>>
    BY <2>1, AbstractImages DEF FmpInv, DoneInv, TypeOK
  <2>4. Update!Finish
    BY <2>1, <2>2, <2>3 DEF Update!Finish
  <2> QED
    BY <2>4 DEF Update!Next
<1> QED
  BY <1>1, <1>2

\* An apply shows only at its commit, reported or not.
LEMMA ApplyRefines ==
  ASSUME FmpInv,
         \/ ApplyOutOfResources \/ ApplyOpen \/ ApplyOpened
         \/ ApplyBlock \/ ApplyClose \/ ApplyAbort
  PROVE  [Update!Next]_(Update!updateVars)
<1>1. pc # "idle" /\ pc' # "idle" /\ UNCHANGED <<capsule, ret>>
  <2>1. ASSUME NEW st, ApplyReturns(st)
        PROVE  pc' # "idle"
    BY <2>1 DEF ApplyReturns
  <2> QED
    BY <2>1 DEF ApplyOutOfResources, ApplyOpen, ApplyOpened, ApplyBlock, ApplyClose,
       ApplyAbort, Running
<1>2. absPending' = absPending /\ absPending = <<"capsule", capsule>>
  BY <1>1 DEF absPending
<1>3. CASE ApplyOutOfResources \/ ApplyOpen \/ ApplyOpened \/ ApplyBlock \/ ApplyAbort
  <2>1. UNCHANGED <<flash, sealed>>
    BY <1>3 DEF ApplyOutOfResources, ApplyOpen, ApplyOpened, ApplyBlock, ApplyAbort,
       SreStorageWriteOpen, SreStorageWriteOpenReturns, SreStorageWriteBlock, SreStorageWriteAbort, storageVars, devVars
  <2> QED
    BY <1>1, <1>2, <2>1, Stutters
<1>4. CASE ApplyClose
  <2>1. PICK st \in Status : SreStorageWriteClose(st)
    BY <1>4 DEF ApplyClose
  <2>2. /\ pc \in InSession /\ mIsSupported /\ mIsWriteOpen /\ SessionComplete
        /\ mPartitionIndex = target /\ target \in Partition
        /\ flash \in [Partition -> Image] /\ capsule \in Capsules
    BY <1>4 DEF ApplyClose, Running, FmpInv, SessionInv, LoopInv, InSession, Applying,
       SessionComplete, TypeOK, StorageTypeOK
  <2>3. /\ UNCHANGED sealed
        /\ \/ flash' = flash
           \/ /\ flash' = [flash EXCEPT ![target] = staging]
              /\ wps[target] = "WriteUnlocked"
    BY <2>1, <2>2 DEF SreStorageWriteClose, FirmwareCommitTakesEffect, storageVars, devVars
  <2>4. CASE flash' = flash
    BY <1>1, <1>2, <2>3, <2>4, Stutters
  <2>5. CASE /\ flash' = [flash EXCEPT ![target] = staging]
             /\ wps[target] = "WriteUnlocked"
    <3>1. staging = Installed(capsule)
      BY <2>2, StagedIsInstalled
    <3>2. absContent' = [absContent EXCEPT ![target] = <<"capsule", capsule>>]
      BY <2>2, <2>5, <3>1, ContentEffect, AbstractImages
    <3>3. target \notin sealed
      BY <2>5, UnlockedIsNotSealed DEF FmpInv
    <3>4. <<"capsule", capsule>> # <<"none">>
      OBVIOUS
    <3>5. Update!Install(target)
      BY <1>1, <2>3, <3>2, <3>3, <3>4 DEF Update!Install, absContent
    <3> QED
      BY <2>2, <3>5 DEF Update!Next
  <2> QED
    BY <2>3, <2>4, <2>5
<1> QED
  BY <1>3, <1>4

\* The lock event seals what it locked and nothing else.
LEMMA LockRefines ==
  ASSUME FmpInv, FmpDeviceLock \/ FmpDeviceLockSecond
  PROVE  [Update!Next]_(Update!updateVars)
<1>1. PICK p \in Partition : LockStep(p)
  BY DEF FmpDeviceLock, FmpDeviceLockSecond, Partition
<1>2. UNCHANGED <<pc, capsule, ret>>
  BY <1>1 DEF LockStep
<1>3. PICK st \in Status : SreStorageLock(p, st)
  BY <1>1 DEF LockStep
<1>4. /\ UNCHANGED flash
      /\ sealed' = sealed \/ sealed' = sealed \cup {p}
  BY <1>3 DEF SreStorageLock, LockSends, storageVars, devVars
<1>5. CASE sealed' = sealed
  BY <1>2, <1>4, <1>5, Stutters DEF absPending
<1>6. CASE sealed' = sealed \cup {p}
  <2>1. Update!Seal(p)
    BY <1>2, <1>4, <1>6 DEF Update!Seal
  <2> QED
    BY <2>1 DEF Update!Next
<1> QED
  BY <1>4, <1>5, <1>6

(* Power lost during a commit leaves the partition as it was, with the     *)
(* capsule, or spoiled.                                                    *)
LEMMA PowerLossRefines ==
  ASSUME FmpInv, PowerLoss
  PROVE  [Update!Next]_(Update!updateVars)
<1>1. /\ PowerCycle /\ pc' = "idle" /\ ret' = None /\ sealed' = {}
      /\ flash \in [Partition -> Image] /\ capsule \in Capsules
  BY DEF PowerLoss, PowerCycle, Constructor, FmpInv, TypeOK, StorageTypeOK
<1>2. SUFFICES Update!PowerLoss
  BY DEF Update!Next
<1>3. CASE flash' = flash
  BY <1>1, <1>3 DEF Update!PowerLoss, None
<1>4. CASE flash' # flash
  <2>1. /\ mIsWriteOpen /\ SessionComplete /\ pc \in InSession
        /\ mPartitionIndex \in Partition /\ wps[mPartitionIndex] = "WriteUnlocked"
    BY <1>1, <1>4 DEF PowerCycle, FmpInv, SessionInv, TypeOK, StorageTypeOK
  <2>2. PICK img \in {flash[mPartitionIndex], staging, Torn} :
          flash' = [flash EXCEPT ![mPartitionIndex] = img]
    BY <1>1, <1>4, <2>1 DEF PowerCycle
  <2>3. img \in {Installed(capsule), Torn}
    BY <1>1, <1>4, <2>1, <2>2, StagedIsInstalled
  <2>4. absPending = <<"capsule", capsule>> /\ absPending # <<"none">>
    BY <2>1 DEF absPending, InSession
  <2>5. \E x \in {absPending, <<"spoiled">>} :
          absContent' = [absContent EXCEPT ![mPartitionIndex] = x]
    <3>1. absContent' = [absContent EXCEPT ![mPartitionIndex] = AbstractImage(img)]
      BY <1>1, <2>1, <2>2, ContentEffect
    <3>2. AbstractImage(img) \in {absPending, <<"spoiled">>}
      BY <1>1, <2>3, <2>4, AbstractImages
    <3> QED
      BY <3>1, <3>2
  <2>6. mPartitionIndex \in Partition \ sealed
    BY <2>1, UnlockedIsNotSealed DEF FmpInv
  <2> QED
    BY <1>1, <2>4, <2>5, <2>6 DEF Update!PowerLoss, absPending, absContent, None
<1> QED
  BY <1>3, <1>4

(* The FMP device library over the storage library implements SreUpdate:   *)
(* partitions are replaced as a whole, EFI_SUCCESS is truthful, a sealed   *)
(* partition stays as it is, and a loss of power spoils at most the        *)
(* partition being committed.                                              *)
THEOREM FmpImplementsSreUpdate == Spec => ImplementsSreUpdate
<1>1. Init => Update!Init
  <2>1. Init => \A p \in Partition : flash[p] = Factory
    BY DEF Init, StorageInit
  <2> QED
    BY <2>1, AbstractImages DEF Init, StorageInit, Update!Init, None
<1>2. FmpInv /\ [Next]_vars => [Update!Next]_(Update!updateVars)
  <2> SUFFICES ASSUME FmpInv, [Next]_vars
               PROVE  [Update!Next]_(Update!updateVars)
    OBVIOUS
  <2>1. CASE UNCHANGED vars
    BY <2>1, Stutters DEF vars, storageVars, devVars, fmpVars, absPending
  <2> QED
    BY <2>1, CallRefines, ApplyRefines, LockRefines, PowerLossRefines DEF Next, UpdateStep
<1> QED
  BY <1>1, <1>2, FmpInvariance, PTL DEF Spec, Update!Spec, ImplementsSreUpdate

=============================================================================
