-------------------------- MODULE SreStorageProofs --------------------------
(***************************************************************************)
(* Proofs about the storage library, for every partition size and every    *)
(* set of block contents.  StorageInv is inductive.  The two action        *)
(* properties follow from it step by step: a commit copies what the        *)
(* session accepted because StagedIsAccepted holds, and it never reaches a *)
(* sealed partition, even one whose session was overtaken by the lock,     *)
(* because that is locked until power cycle (SealedIsLocked) and the       *)
(* controller copies only into an unlocked one.                            *)
(***************************************************************************)
EXTENDS SreStorage, TLAPS

\* A partition whose commit lost power holds an image of its own length.
LEMMA TornIsImage == Torn \in Image
BY DEF Torn, Image

(* A session at block 0 is within its partition.                           *)
LEMMA ZeroIsIndex == 0 \in 0 .. BlockCount
BY BlockCountAssumption

(* Writing one block within the partition keeps an image an image.         *)
LEMMA WrittenIsImage ==
  ASSUME NEW img \in Image, NEW i \in BlockIdx, NEW blk \in Block
  PROVE  [img EXCEPT ![i] = blk] \in Image
BY DEF Image

(* The initial states: library unopened, both partitions write locked.     *)
LEMMA InitStorageInv ==
  ASSUME NEW blk \in Block, StorageInit(Blank(blk))
  PROVE  StorageInv
<1>1. Blank(blk) \in Image
  BY DEF Blank, Image
<1>2. StorageTypeOK
  BY <1>1, TornIsImage, ZeroIsIndex
  DEF StorageInit, StorageTypeOK, Partition, LockState, Status
<1> QED
  BY <1>2 DEF StorageInv, StorageInit, OpeningInv, SessionHoldsUnlock,
              StagedIsAccepted, SealedIsLocked

\* A call that returns early changes nothing.
LEMMA UnchangedKeepsInv ==
  ASSUME StorageInv, UNCHANGED storageVars
  PROVE  StorageInv'
BY DEF StorageInv, StorageTypeOK, OpeningInv, SessionHoldsUnlock,
       StagedIsAccepted, SealedIsLocked, storageVars, libVars, openVars, devVars

(* A Set Features command changes the protection of its partition only,    *)
(* and never lifts a lock that lasts until power cycle.                    *)
LEMMA SetLockStateEffect ==
  ASSUME NEW p \in Partition, NEW s \in LockState, NEW st,
         wps \in [Partition -> LockState], NvmeSetLockState(p, s, st)
  PROVE  /\ wps' \in [Partition -> LockState]
         /\ \A q \in Partition : q # p => wps'[q] = wps[q]
         /\ wps[p] = "WriteLockedUntilPowerCycle"
              => wps'[p] = "WriteLockedUntilPowerCycle"
         /\ st = "EFI_SUCCESS" => wps'[p] = s
BY DEF NvmeSetLockState, SetFeaturesTakesEffect

\* WriteOpen unlocks its partition and waits; no session is open yet.
LEMMA OpenKeepsInv ==
  ASSUME StorageInv, NEW p \in Partition, NEW st,
         SreStorageWriteOpen(p, st)
  PROVE  StorageInv'
<1>1. CASE UNCHANGED storageVars
  BY <1>1, UnchangedKeepsInv
<1>2. CASE /\ mIsSupported /\ ~mIsWriteOpen
           /\ opening' = p
           /\ openStatus' \in Status
           /\ NvmeSetLockState(p, "WriteUnlocked", openStatus')
           /\ overtaken' = FALSE
           /\ UNCHANGED <<libVars, staging, flash, accepted, sealed>>
  <2>1. /\ wps' \in [Partition -> LockState]
        /\ \A q \in Partition : q # p => wps'[q] = wps[q]
        /\ wps[p] = "WriteLockedUntilPowerCycle"
             => wps'[p] = "WriteLockedUntilPowerCycle"
        /\ openStatus' = "EFI_SUCCESS" => wps'[p] = "WriteUnlocked"
    BY <1>2, SetLockStateEffect DEF StorageInv, StorageTypeOK, LockState
  <2>2. StorageTypeOK'
    BY <1>2, <2>1 DEF StorageInv, StorageTypeOK, libVars
  <2>3. OpeningInv' /\ SessionHoldsUnlock' /\ StagedIsAccepted'
    BY <1>2, <2>1 DEF OpeningInv, SessionHoldsUnlock, StagedIsAccepted, libVars
  <2>4. SealedIsLocked'
    BY <1>2, <2>1 DEF StorageInv, StorageTypeOK, SealedIsLocked
  <2> QED BY <2>2, <2>3, <2>4 DEF StorageInv
<1> QED BY <1>1, <1>2 DEF SreStorageWriteOpen

\* WriteOpen returns: the session starts empty.
LEMMA OpenReturnsKeepsInv ==
  ASSUME StorageInv, NEW st, SreStorageWriteOpenReturns(st)
  PROVE  StorageInv'
<1>1. /\ opening \in Partition /\ mIsSupported /\ ~mIsWriteOpen
      /\ openStatus = "EFI_SUCCESS" =>
           overtaken \/ wps[opening] = "WriteUnlocked"
      /\ opening' = NoPartition /\ openStatus' \in Status
      /\ UNCHANGED <<mIsSupported, devVars, sealed>>
  BY DEF StorageInv, StorageTypeOK, OpeningInv, SreStorageWriteOpenReturns, Status
<1>2. CASE /\ openStatus = "EFI_SUCCESS"
           /\ mPartitionIndex' = opening
           /\ mBlockIndex' = 0
           /\ mIsWriteOpen' = TRUE
           /\ accepted' = Torn
           /\ UNCHANGED overtaken
  <2>1. StorageTypeOK'
    BY <1>1, <1>2, TornIsImage, ZeroIsIndex DEF StorageInv, StorageTypeOK, devVars
  <2>2. StagedIsAccepted'
    BY <1>2, BlockCountAssumption DEF StagedIsAccepted, BlockIdx
  <2> QED
    BY <1>1, <1>2, <2>1, <2>2
    DEF StorageInv, OpeningInv, SessionHoldsUnlock, SealedIsLocked, devVars
<1>3. CASE UNCHANGED sessionVars
  BY <1>1, <1>3 DEF StorageInv, StorageTypeOK, OpeningInv, SessionHoldsUnlock,
                    StagedIsAccepted, SealedIsLocked, devVars, sessionVars
<1> QED BY <1>2, <1>3 DEF SreStorageWriteOpenReturns

\* WriteBlock: the block accepted is staged before the index moves on.
LEMMA BlockKeepsInv ==
  ASSUME StorageInv, NEW blk \in Block, NEW st,
         SreStorageWriteBlock(blk, st)
  PROVE  StorageInv'
<1> DEFINE written(img) == [img EXCEPT ![mBlockIndex] = blk]
<1>1. CASE UNCHANGED storageVars
  BY <1>1, UnchangedKeepsInv
<1>2. CASE /\ mIsSupported /\ mIsWriteOpen /\ ~AtEndOfMedia
           /\ \/ /\ st = "EFI_SUCCESS"
                 /\ staging' = written(staging)
                 /\ accepted' = written(accepted)
              \/ /\ st = "EFI_PROTOCOL_ERROR"
                 /\ staging' \in {staging, written(staging)}
                 /\ UNCHANGED accepted
           /\ mBlockIndex' = NextBlockIndex(st)
           /\ UNCHANGED <<mIsSupported, mIsWriteOpen, mPartitionIndex, openVars,
                          wps, flash, overtaken, sealed>>
  <2>1. mBlockIndex \in BlockIdx
    BY <1>2, BlockCountAssumption
    DEF StorageInv, StorageTypeOK, AtEndOfMedia, BlockIdx
  <2>2. staging \in Image /\ accepted \in Image
    BY DEF StorageInv, StorageTypeOK
  <2>3. written(staging) \in Image /\ written(accepted) \in Image
    BY <2>1, <2>2, WrittenIsImage
  <2>4. mBlockIndex' \in {mBlockIndex, mBlockIndex + 1}
    BY <1>2 DEF NextBlockIndex
  <2>5. StorageTypeOK'
    <3>1. mBlockIndex' \in 0 .. BlockCount
      BY <2>1, <2>4, BlockCountAssumption DEF BlockIdx
    <3>2. staging' \in Image /\ accepted' \in Image
      BY <1>2, <2>2, <2>3
    <3> QED BY <1>2, <3>1, <3>2 DEF StorageInv, StorageTypeOK, openVars
  <2>6. OpeningInv' /\ SessionHoldsUnlock'
    BY <1>2 DEF StorageInv, OpeningInv, SessionHoldsUnlock, openVars
  <2>7. StagedIsAccepted'
    <3> SUFFICES ASSUME NEW b \in BlockIdx, b < mBlockIndex'
                 PROVE  staging'[b] = accepted'[b] /\ accepted'[b] \in Block
      BY DEF StagedIsAccepted
    <3>1. \A c \in BlockIdx : c < mBlockIndex =>
            staging[c] = accepted[c] /\ accepted[c] \in Block
      BY <1>2 DEF StorageInv, StagedIsAccepted
    <3>2. \A img \in Image :
            /\ written(img)[mBlockIndex] = blk
            /\ \A c \in BlockIdx : c # mBlockIndex => written(img)[c] = img[c]
      BY <2>1 DEF Image
    <3>3. CASE st = "EFI_SUCCESS"
      <4>1. mBlockIndex' = mBlockIndex + 1
        BY <1>2, <3>3 DEF NextBlockIndex
      <4>2. staging' = written(staging) /\ accepted' = written(accepted)
        BY <1>2, <3>3
      <4>3. CASE b = mBlockIndex
        BY <2>2, <3>2, <4>2, <4>3
      <4>4. CASE b # mBlockIndex
        <5>1. b < mBlockIndex
          BY <2>1, <4>1, <4>4 DEF BlockIdx
        <5> QED BY <2>2, <3>1, <3>2, <4>2, <4>4, <5>1
      <4> QED BY <4>3, <4>4
    <3>4. CASE st = "EFI_PROTOCOL_ERROR"
      <4>1. mBlockIndex' = mBlockIndex /\ accepted' = accepted
        BY <1>2, <3>4 DEF NextBlockIndex
      <4>2. staging' \in {staging, written(staging)}
        BY <1>2, <3>4
      <4>3. b < mBlockIndex /\ b # mBlockIndex
        BY <2>1, <4>1 DEF BlockIdx
      <4>4. staging'[b] = staging[b]
        BY <2>2, <3>2, <4>2, <4>3
      <4> QED BY <3>1, <4>1, <4>3, <4>4
    <3> QED BY <1>2, <3>3, <3>4
  <2>8. SealedIsLocked'
    BY <1>2 DEF StorageInv, SealedIsLocked
  <2> QED BY <2>5, <2>6, <2>7, <2>8 DEF StorageInv
<1> QED BY <1>1, <1>2 DEF SreStorageWriteBlock

\* WriteClose: only a complete session is committed; the session then ends.
LEMMA CloseKeepsInv ==
  ASSUME StorageInv, NEW st, SreStorageWriteClose(st)
  PROVE  StorageInv'
<1>1. CASE UNCHANGED storageVars
  BY <1>1, UnchangedKeepsInv
<1>2. CASE /\ mIsSupported /\ mIsWriteOpen /\ SessionComplete
           /\ \/ /\ st = "EFI_SUCCESS"
                 /\ FirmwareCommitTakesEffect(mPartitionIndex)
                 /\ SessionEnds
              \/ /\ st = "EFI_PROTOCOL_ERROR"
                 /\ \/ FirmwareCommitTakesEffect(mPartitionIndex)
                    \/ UNCHANGED flash
                 /\ UNCHANGED sessionVars
           /\ UNCHANGED <<mIsSupported, openVars, wps, staging, sealed>>
  <2>1. flash' \in [Partition -> Image]
    BY <1>2 DEF StorageInv, StorageTypeOK, FirmwareCommitTakesEffect
  <2>2. StorageTypeOK'
    BY <1>2, <2>1, TornIsImage, ZeroIsIndex
    DEF StorageInv, StorageTypeOK, SessionEnds, sessionVars, openVars
  <2>3. OpeningInv'
    <3>1. opening = NoPartition
      BY <1>2 DEF StorageInv, OpeningInv
    <3> QED BY <1>2, <3>1 DEF OpeningInv, openVars
  <2>4. CASE SessionEnds
    BY <1>2, <2>2, <2>3, <2>4 DEF StorageInv, SessionHoldsUnlock,
       StagedIsAccepted, SealedIsLocked, SessionEnds
  <2>5. CASE UNCHANGED sessionVars
    BY <1>2, <2>2, <2>3, <2>5 DEF StorageInv, SessionHoldsUnlock,
       StagedIsAccepted, SealedIsLocked, sessionVars
  <2> QED BY <1>2, <2>4, <2>5
<1> QED BY <1>1, <1>2 DEF SreStorageWriteClose

\* WriteAbort: the session ends, whether or not the partition could be locked.
LEMMA AbortKeepsInv ==
  ASSUME StorageInv, NEW st, SreStorageWriteAbort(st)
  PROVE  StorageInv'
<1>1. CASE UNCHANGED storageVars
  BY <1>1, UnchangedKeepsInv
<1>2. CASE /\ mIsSupported /\ mIsWriteOpen
           /\ NvmeSetLockState(mPartitionIndex, "WriteLocked", st)
           /\ SessionEnds
           /\ UNCHANGED <<mIsSupported, openVars, staging, flash, sealed>>
  <2>1. /\ wps' \in [Partition -> LockState]
        /\ \A q \in Partition : q # mPartitionIndex => wps'[q] = wps[q]
        /\ wps[mPartitionIndex] = "WriteLockedUntilPowerCycle"
             => wps'[mPartitionIndex] = "WriteLockedUntilPowerCycle"
    BY <1>2, SetLockStateEffect DEF StorageInv, StorageTypeOK, LockState
  <2>2. StorageTypeOK'
    BY <1>2, <2>1, TornIsImage, ZeroIsIndex
    DEF StorageInv, StorageTypeOK, SessionEnds, openVars
  <2>3. SealedIsLocked'
    BY <1>2, <2>1 DEF StorageInv, StorageTypeOK, SealedIsLocked
  <2> QED
    BY <1>2, <2>2, <2>3 DEF StorageInv, OpeningInv, SessionHoldsUnlock,
                            StagedIsAccepted, SessionEnds, openVars
<1> QED BY <1>1, <1>2 DEF SreStorageWriteAbort

\* Lock: refused while a session is open, so it locks under no session but
\* the one whose WriteOpen it overtakes.
LEMMA LockKeepsInv ==
  ASSUME StorageInv, NEW p \in Partition, NEW st, SreStorageLock(p, st)
  PROVE  StorageInv'
<1>1. CASE UNCHANGED storageVars
  BY <1>1, UnchangedKeepsInv
<1>2. CASE /\ mIsSupported /\ ~mIsWriteOpen
           /\ LockSends(p, "WriteLockedUntilPowerCycle", st)
  <2>1. /\ wps' \in [Partition -> LockState]
        /\ \A q \in Partition : q # p => wps'[q] = wps[q]
        /\ wps[p] = "WriteLockedUntilPowerCycle"
             => wps'[p] = "WriteLockedUntilPowerCycle"
        /\ st = "EFI_SUCCESS" => wps'[p] = "WriteLockedUntilPowerCycle"
    BY <1>2, SetLockStateEffect
    DEF StorageInv, StorageTypeOK, LockState, LockSends
  <2>2. StorageTypeOK'
    BY <1>2, <2>1 DEF StorageInv, StorageTypeOK, LockSends, libVars, openVars
  <2>3. SealedIsLocked'
    BY <1>2, <2>1 DEF StorageInv, StorageTypeOK, SealedIsLocked, LockSends
  <2>4. OpeningInv'
    BY <1>2, <2>1 DEF StorageInv, StorageTypeOK, OpeningInv, LockSends, libVars,
                      openVars
  <2> QED
    BY <1>2, <2>2, <2>3, <2>4 DEF StorageInv, SessionHoldsUnlock, StagedIsAccepted,
                                  LockSends, libVars
<1> QED BY <1>1, <1>2 DEF SreStorageLock

\* Power loss: the sessions are gone and every partition is write locked.
LEMMA PowerCycleKeepsInv ==
  ASSUME StorageInv, PowerCycle
  PROVE  StorageInv'
<1>1. PICK supported \in BOOLEAN : Constructor(supported)
  BY DEF PowerCycle
<1>2. flash' \in [Partition -> Image]
  <2>1. \A img \in {flash[mPartitionIndex], staging, Torn} : img \in Image
    BY TornIsImage DEF StorageInv, StorageTypeOK
  <2> QED BY <2>1 DEF PowerCycle, StorageInv, StorageTypeOK
<1>3. StorageTypeOK'
  BY <1>1, <1>2, TornIsImage, ZeroIsIndex
  DEF PowerCycle, Constructor, StorageTypeOK, Partition, LockState, Status
<1> QED
  BY <1>1, <1>3 DEF StorageInv, OpeningInv, SessionHoldsUnlock, StagedIsAccepted,
                    SealedIsLocked, Constructor

\* Every step of the library and of the controller keeps the invariant.
LEMMA StepKeepsInv ==
  ASSUME StorageInv, [StorageNext]_storageVars
  PROVE  StorageInv'
<1>1. CASE StorageCall
  BY <1>1, OpenKeepsInv, BlockKeepsInv, CloseKeepsInv, AbortKeepsInv
  DEF StorageCall
<1>2. CASE PowerCycle
  BY <1>2, PowerCycleKeepsInv
<1>3. CASE UNCHANGED storageVars
  BY <1>3, UnchangedKeepsInv
<1> QED
  BY <1>1, <1>2, <1>3, OpenReturnsKeepsInv, LockKeepsInv DEF StorageNext

(* Every reachable state of the library, under any client and any device   *)
(* behaviour, satisfies the inductive invariant.                           *)
THEOREM StorageInvariant == StorageSpec => []StorageInv
<1>1. (\E blk \in Block : StorageInit(Blank(blk))) => StorageInv
  BY InitStorageInv
<1>2. StorageInv /\ [StorageNext]_storageVars => StorageInv'
  BY StepKeepsInv
<1> QED BY <1>1, <1>2, PTL DEF StorageSpec

(* The type invariant of the library's globals and of the controller.      *)
THEOREM StorageTypeCorrect == StorageSpec => []StorageTypeOK
<1>1. StorageInv => StorageTypeOK
  BY DEF StorageInv
<1> QED BY <1>1, StorageInvariant, PTL

(* An open session's partition stays unlocked, whatever calls interleave,  *)
(* unless the lock overtook the WriteOpen that started it.                 *)
THEOREM SessionAlwaysHoldsUnlock == StorageSpec => []SessionHoldsUnlock
<1>1. StorageInv => SessionHoldsUnlock
  BY DEF StorageInv
<1> QED BY <1>1, StorageInvariant, PTL

(* What a session stages is exactly what it reported written.              *)
THEOREM StagedAlwaysAccepted == StorageSpec => []StagedIsAccepted
<1>1. StorageInv => StagedIsAccepted
  BY DEF StorageInv
<1> QED BY <1>1, StorageInvariant, PTL

(* What the controller may copy at a commit is what the session accepted:  *)
(* the staged image of a complete session.                                 *)
LEMMA CompleteSessionIsStaged ==
  ASSUME StorageInv, mIsWriteOpen, SessionComplete
  PROVE  staging = accepted /\ \A b \in BlockIdx : accepted[b] \in Block
<1>1. \A b \in BlockIdx : b < mBlockIndex
  BY BlockCountAssumption DEF SessionComplete, BlockIdx
<1>2. \A b \in BlockIdx : staging[b] = accepted[b] /\ accepted[b] \in Block
  BY <1>1 DEF StorageInv, StagedIsAccepted
<1>3. staging \in Image /\ accepted \in Image
  BY DEF StorageInv, StorageTypeOK
<1> QED BY <1>2, <1>3 DEF Image

(* The only steps that touch flash are a commit and a loss of power, both  *)
(* of a complete session on a partition that is unlocked at that moment.   *)
LEMMA FlashChanges ==
  ASSUME StorageInv, [StorageNext]_storageVars, flash' # flash
  PROVE  /\ mIsWriteOpen /\ SessionComplete
         /\ wps[mPartitionIndex] = "WriteUnlocked"
         /\ \E img \in {flash[mPartitionIndex], staging, Torn} :
              flash' = [flash EXCEPT ![mPartitionIndex] = img]
<1>1. CASE StorageCall
  <2>1. PICK st : SreStorageWriteClose(st)
    BY <1>1 DEF StorageCall, SreStorageWriteOpen, SreStorageWriteBlock,
                SreStorageWriteAbort, storageVars, devVars
  <2> QED
    BY <2>1 DEF SreStorageWriteClose, FirmwareCommitTakesEffect, storageVars,
                devVars
<1>2. CASE PowerCycle
  BY <1>2 DEF PowerCycle
<1>3. CASE UNCHANGED storageVars
  BY <1>3 DEF storageVars, devVars
<1>4. CASE \/ \E st \in Status : SreStorageWriteOpenReturns(st)
           \/ \E p \in Partition, st \in Status : SreStorageLock(p, st)
  BY <1>4 DEF SreStorageWriteOpenReturns, SreStorageLock, LockSends, storageVars,
              devVars
<1> QED BY <1>1, <1>2, <1>3, <1>4 DEF StorageNext

(* A partition changes only to the whole image its open session reported   *)
(* written, or is torn by a loss of power during that commit.              *)
THEOREM CommitsAreWhole == StorageSpec => CommitsWholeSession
<1>1. ASSUME StorageInv, [StorageNext]_storageVars
      PROVE  [CommitStep]_storageVars
  <2> SUFFICES ASSUME NEW p \in Partition, flash'[p] # flash[p]
               PROVE  /\ mIsWriteOpen /\ p = mPartitionIndex
                      /\ \A b \in BlockIdx : accepted[b] \in Block
                      /\ flash'[p] \in {accepted, Torn}
    BY DEF CommitStep
  <2>1. /\ mIsWriteOpen /\ SessionComplete
        /\ \E img \in {flash[mPartitionIndex], staging, Torn} :
             flash' = [flash EXCEPT ![mPartitionIndex] = img]
    BY <1>1, FlashChanges
  <2>2. staging = accepted /\ \A b \in BlockIdx : accepted[b] \in Block
    BY <1>1, <2>1, CompleteSessionIsStaged
  <2>3. flash \in [Partition -> Image]
    BY <1>1 DEF StorageInv, StorageTypeOK
  <2>4. p = mPartitionIndex /\ flash'[p] \in {staging, Torn}
    BY <2>1, <2>3
  <2> QED BY <2>1, <2>2, <2>4
<1> QED BY <1>1, StorageInvariant, PTL DEF StorageSpec, CommitsWholeSession

(* A partition that was sealed keeps its contents for ever.                *)
THEOREM SealedStaysFrozen == StorageSpec => SealedIsFrozen
<1>1. ASSUME StorageInv, [StorageNext]_storageVars
      PROVE  [FrozenStep]_storageVars
  <2> SUFFICES ASSUME NEW p \in sealed, flash'[p] # flash[p]
               PROVE  FALSE
    BY DEF FrozenStep
  <2>1. /\ wps[mPartitionIndex] = "WriteUnlocked"
        /\ \E img \in {flash[mPartitionIndex], staging, Torn} :
             flash' = [flash EXCEPT ![mPartitionIndex] = img]
    BY <1>1, FlashChanges
  <2>2. flash \in [Partition -> Image] /\ p \in Partition
    BY <1>1 DEF StorageInv, StorageTypeOK
  <2>3. p = mPartitionIndex
    BY <2>1, <2>2
  <2>4. wps[p] = "WriteUnlocked"
    BY <2>1, <2>3
  <2>5. wps[p] = "WriteLockedUntilPowerCycle"
    BY <1>1 DEF StorageInv, SealedIsLocked
  <2> QED BY <2>4, <2>5
<1> QED BY <1>1, StorageInvariant, PTL DEF StorageSpec, SealedIsFrozen
=============================================================================
