------------------------ MODULE SreBootManagerProofs ------------------------
(***************************************************************************)
(* What SreBootManager::execute guarantees of every image it starts, for   *)
(* every set of devices, boot order, configuration and policy.             *)
(***************************************************************************)
EXTENDS SreBootManager, SequenceTheorems, WellFoundedInduction, TLAPS

\* Where execute holds no LockedBoot capability.
Unlocked == {"start", "dispatch", "connect", "capsule", "endOfDxe",
             "readyToLock", "parked"}

\* Every call is made with the capability, which needs both halves.
LockInv ==
  /\ pc = "readyToLock" => endOfDxe
  /\ pc \notin Unlocked => endOfDxe /\ readyToLock
  /\ bootPc # "idle" \/ flowPc # "idle" => pc \notin Unlocked

(* The paths that do not signal ReadyToBoot are reached only after one     *)
(* that does: fallback after the main OS path, the last resort after two   *)
(* passes, of which each attempted something.                              *)
ReadyInv ==
  /\ pass \in Nat
  /\ pass > 0 => readyToBoot # "no"
  /\ bootPc # "idle" \/ flowPc # "idle" => readyToBoot # "no"
  /\ pc \in {"fallback", "candidates"} => readyToBoot # "no"
  /\ pc = "options" /\ tried_any => readyToBoot # "no"

\* The recovery flow has a call outstanding only while it chainloads.
OneCall == flowPc \notin {"idle", "chainloading"} => bootPc = "idle"

BootInv == LockInv /\ OneCall /\ WatchdogGuardsImages /\ ReadyInv

USE DEF Unlocked, At, OneCall

\* Init: nothing runs and no timer ticks.
LEMMA InitBootInv == Init => BootInv
BY DEF Init, HelpersInit, FlowInit, BootInv, LockInv, WatchdogGuardsImages,
       ReadyInv

\* A reset starts over.
LEMMA ResetKeepsInv == Reset => BootInv'
BY DEF Reset, HelpersEntered, FlowEntered, BootInv, LockInv,
       WatchdogGuardsImages, ReadyInv

PreLockStep ==
  \/ SignalStartOfBds \/ DispatchDrivers \/ ConnectSkipUsb
  \/ ProcessCapsules \/ SignalEndOfDxe \/ InstallReadyToLock \/ ProbeHotkey

(* Up to the capability no call is made, and each half of the transition   *)
(* is passed only when it took place.                                      *)
LEMMA PreLockKeepsInv ==
  ASSUME BootInv, PreLockStep
  PROVE  BootInv'
<1> USE DEF BootInv, LockInv, WatchdogGuardsImages, ReadyInv
<1> USE DEF helperVars, flowVars, managerVars, preVars, loopVars, bootVars,
            lockVars, callVars, nvVars
<1>1. CASE SignalStartOfBds
  BY <1>1 DEF SignalStartOfBds
<1>2. CASE DispatchDrivers
  BY <1>2 DEF DispatchDrivers
<1>3. CASE ConnectSkipUsb
  BY <1>3 DEF ConnectSkipUsb
<1>4. CASE SignalEndOfDxe
  BY <1>4 DEF SignalEndOfDxe, signal_bds_phase_entry, OnError
<1>5. CASE InstallReadyToLock
  BY <1>5 DEF InstallReadyToLock, install_dxe_smm_ready_to_lock, OnError
<1>6. CASE ProbeHotkey
  BY <1>6 DEF ProbeHotkey
<1>7. CASE ProcessCapsules
  BY <1>7, ResetKeepsInv DEF ProcessCapsules
<1> QED
  BY <1>1, <1>2, <1>3, <1>4, <1>5, <1>6, <1>7 DEF PreLockStep

BootLoopStep ==
  \/ DispatchHotkey \/ CallReturns \/ ProbePayload \/ BeginPass \/ TryOption
  \/ OptionsExhausted \/ FindFallback \/ TryCandidate \/ CandidatesExhausted
  \/ DispatchLastResort \/ GiveUp

(* Past the transition both halves stay, and whatever starts an image has  *)
(* ReadyToBoot behind it.                                                  *)
LEMMA BootLoopKeepsInv ==
  ASSUME BootInv, BootLoopStep
  PROVE  BootInv'
<1> USE DEF BootInv, LockInv, WatchdogGuardsImages, ReadyInv
<1> USE DEF helperVars, flowVars, managerVars, preVars, loopVars, bootVars,
            lockVars, callVars, nvVars
<1>1. CASE DispatchHotkey
  BY <1>1 DEF DispatchHotkey, VolumeUp, VolumeDown, SignalAndBoot, signal_ready_to_boot,
     boot_from_device_path, run_sre_flow
<1>2. CASE CallReturns
  BY <1>2 DEF CallReturns, BootReturns
<1>3. CASE ProbePayload
  BY <1>3 DEF ProbePayload
<1>4. CASE BeginPass
  BY <1>4 DEF BeginPass
<1>5. CASE TryOption
  BY <1>5 DEF TryOption, Attempt, SignalAndBoot, signal_ready_to_boot,
     boot_from_device_path
<1>6. CASE OptionsExhausted
  BY <1>6 DEF OptionsExhausted, NextPass, Attempt, SignalAndBoot,
     signal_ready_to_boot, boot_from_device_path
<1>7. CASE FindFallback
  BY <1>7 DEF FindFallback
<1>8. CASE TryCandidate
  BY <1>8 DEF TryCandidate, boot_from_device_path
<1>9. CASE CandidatesExhausted
  BY <1>9 DEF CandidatesExhausted, NextPass
<1>10. CASE DispatchLastResort
  BY <1>10 DEF DispatchLastResort, MorePasses, run_sre_flow
<1>11. CASE GiveUp
  BY <1>11 DEF GiveUp
<1> QED
  BY <1>1, <1>2, <1>3, <1>4, <1>5, <1>6, <1>7, <1>8, <1>9, <1>10, <1>11 DEF BootLoopStep

CallerWaits ==
  \/ FlowStep /\ UNCHANGED managerVars
  \/ (CallStep \/ ImageStep) /\ UNCHANGED <<flowVars, managerVars>>

(* The recovery flow, boot_from_device_path and the image itself.          *)
LEMMA CallKeepsInv ==
  ASSUME BootInv, CallerWaits
  PROVE  BootInv'
<1> USE DEF BootInv, LockInv, WatchdogGuardsImages, ReadyInv
<1> USE DEF helperVars, flowVars, managerVars, preVars, loopVars, bootVars,
            lockVars, callVars, nvVars
<1> UNCHANGED managerVars
  BY DEF CallerWaits
<1>1. CASE ReadPartition
  BY <1>1 DEF ReadPartition, connect_all
<1>2. CASE InstallBlockIo
  BY <1>2 DEF InstallBlockIo
<1>3. CASE InstallDevicePath
  BY <1>3 DEF InstallDevicePath
<1>4. CASE Chainload
  BY <1>4 DEF Chainload, boot_from_device_path
<1>5. CASE ChainloadReturns
  BY <1>5 DEF ChainloadReturns, BootReturns
<1>6. CASE Teardown
  BY <1>6 DEF Teardown
<1>7. CASE LoadImage /\ UNCHANGED flowVars
  BY <1>7 DEF LoadImage
<1>8. CASE ArmAndStart /\ UNCHANGED flowVars
  BY <1>8 DEF ArmAndStart
<1>9. CASE DisarmWatchdog /\ UNCHANGED flowVars
  BY <1>9 DEF DisarmWatchdog
<1>10. CASE ImageExits /\ UNCHANGED flowVars
  BY <1>10 DEF ImageExits
<1>11. CASE ImageBoots /\ UNCHANGED flowVars
  BY <1>11 DEF ImageBoots
<1>12. CASE ImageWrites /\ UNCHANGED flowVars
  BY <1>12 DEF ImageWrites
<1> QED
  BY <1>1, <1>2, <1>3, <1>4, <1>5, <1>6, <1>7, <1>8, <1>9, <1>10, <1>11, <1>12
     DEF CallerWaits, FlowStep, CallStep, ImageStep

\* Every step of the machine keeps the invariant.
LEMMA StepKeepsBootInv ==
  ASSUME BootInv, [Next]_vars
  PROVE  BootInv'
<1>1. CASE ManagerStep
  BY <1>1, PreLockKeepsInv, BootLoopKeepsInv
     DEF ManagerStep, PreLockStep, BootLoopStep
<1>2. CASE WatchdogFires
  BY <1>2, ResetKeepsInv DEF WatchdogFires
<1>3. CASE UNCHANGED vars
  BY <1>3 DEF vars, helperVars, flowVars, managerVars, preVars, loopVars,
              lockVars, callVars, BootInv, LockInv, WatchdogGuardsImages,
              ReadyInv
<1> QED
  BY <1>1, <1>2, <1>3, CallKeepsInv DEF Next, FirmwareStep, CallerWaits

(* BootInv holds throughout every boot and across every reset.             *)
THEOREM BootInvariant == Spec => []BootInv
BY InitBootInv, StepKeepsBootInv, PTL DEF Spec

(* SreBootManager never starts an image, through any of its paths, without *)
(* EndOfDxe signalled and DxeSmmReadyToLock installed.                     *)
THEOREM ImagesRunLocked == Spec => []LockedWhenRunning
<1>1. BootInv => LockedWhenRunning
  BY DEF BootInv, LockInv, LockedWhenRunning
<1> QED
  BY <1>1, BootInvariant, PTL

(* Every image boot_from_device_path starts runs under an armed watchdog,  *)
(* and the timer outlives an image only if disarming it failed.            *)
THEOREM ImagesAreWatched == Spec => []WatchdogGuardsImages
<1>1. BootInv => WatchdogGuardsImages
  BY DEF BootInv
<1> QED
  BY <1>1, BootInvariant, PTL

(* ReadyToBoot precedes every image, the fallback candidates and the last  *)
(* resort included, except where every attempt to signal it failed.        *)
THEOREM ReadyToBootPrecedesImages == Spec => []ReadyToBootFirst
<1>1. BootInv => ReadyToBootFirst
  BY DEF BootInv, ReadyInv, ReadyToBootFirst
<1> QED
  BY <1>1, BootInvariant, PTL
-----------------------------------------------------------------------------
(* The RAM disks.  Between the two halves of register_ram_disk the disk in *)
(* the making is the last one, published and allocated; until teardown is  *)
(* through there is one to take down.                                      *)
DiskInv ==
  /\ FlowTypeOK
  /\ flowPc \in {"devicePath", "chainload", "chainloading", "teardown"} =>
       disks # <<>>
  /\ flowPc = "devicePath" =>
       ThisDisk = [blockIo |-> TRUE, devicePath |-> FALSE, live |-> TRUE]
  /\ TeardownKeepsLive

(* UpdateDisk touches the last disk only, and removes it only if nothing   *)
(* of it is left.                                                          *)
LEMMA UpdateDiskKeeps ==
  ASSUME disks \in Seq(Disk), disks # <<>>, NEW d \in Disk, UpdateDisk(d)
  PROVE  /\ disks' \in Seq(Disk)
         /\ d.live => disks' # <<>>
         /\ PublishedIsLive /\ (d.blockIo => d.live) => PublishedIsLive'
<1>1. Len(disks) \in Nat \ {0}
  OBVIOUS
<1>2. CASE d.blockIo \/ d.devicePath \/ d.live
  <2>1. disks' = [disks EXCEPT ![Len(disks)] = d]
    BY <1>2 DEF UpdateDisk
  <2>2. /\ disks' \in Seq(Disk) /\ Len(disks') = Len(disks)
        /\ \A i \in 1 .. Len(disks) :
             disks'[i] = IF i = Len(disks) THEN d ELSE disks[i]
    <3>1. Len(disks) \in 1 .. Len(disks)
      BY <1>1
    <3> QED
      BY <2>1, <3>1, ExceptSeq
  <2>3. disks' # <<>>
    BY <1>1, <2>2
  <2>4. PublishedIsLive /\ (d.blockIo => d.live) => PublishedIsLive'
    BY <1>1, <2>2 DEF PublishedIsLive
  <2> QED
    BY <2>2, <2>3, <2>4
<1>3. CASE ~(d.blockIo \/ d.devicePath \/ d.live)
  <2>1. disks' = SubSeq(disks, 1, Len(disks) - 1)
    BY <1>3 DEF UpdateDisk
  <2>2. /\ disks' \in Seq(Disk) /\ Len(disks') = Len(disks) - 1
        /\ \A i \in 1 .. Len(disks) - 1 : disks'[i] = disks[i]
    <3>1. /\ 1 \in 1 .. Len(disks) + 1
          /\ Len(disks) - 1 \in 1 - 1 .. Len(disks)
          /\ Len(disks) - 1 - 1 + 1 = Len(disks) - 1
      BY <1>1
    <3>2. \A i \in 1 .. Len(disks) - 1 - 1 + 1 : 1 + i - 1 = i
      BY <1>1
    <3> QED
      BY <2>1, <3>1, <3>2, SubSeqProperties
  <2> QED
    BY <1>1, <1>3, <2>2 DEF PublishedIsLive
<1> QED
  BY <1>2, <1>3

\* The recovery flow publishes, chainloads and takes down in this order.
LEMMA FlowKeepsDiskInv ==
  ASSUME DiskInv, FlowStep
  PROVE  DiskInv'
<1> USE DEF DiskInv, FlowTypeOK, TeardownKeepsLive
<1>1. CASE ReadPartition
  BY <1>1 DEF ReadPartition, PublishedIsLive, ThisDisk
<1>2. CASE InstallBlockIo
  <2> DEFINE d == [blockIo |-> TRUE, devicePath |-> FALSE, live |-> TRUE]
  <2>1. d \in Disk /\ rollbackLost' = rollbackLost
    BY <1>2 DEF Disk, InstallBlockIo
  <2>2. CASE flowPc' = "devicePath" /\ disks' = Append(disks, d)
    <3>1. /\ disks' \in Seq(Disk) /\ Len(disks') = Len(disks) + 1
          /\ Len(disks) \in Nat
          /\ \A i \in 1 .. Len(disks) : disks'[i] = disks[i]
          /\ disks'[Len(disks) + 1] = d
      BY <2>1, <2>2
    <3>2. disks' # <<>> /\ ThisDisk' = d
      BY <3>1 DEF ThisDisk
    <3>3. PublishedIsLive => PublishedIsLive'
      BY <3>1 DEF PublishedIsLive
    <3> QED
      BY <2>1, <2>2, <3>1, <3>2, <3>3
  <2>3. CASE flowPc' = "returned" /\ UNCHANGED disks
    BY <2>1, <2>3 DEF PublishedIsLive
  <2> QED
    BY <1>2, <2>2, <2>3 DEF InstallBlockIo
<1>3. CASE InstallDevicePath
  <2> DEFINE t == [blockIo |-> TRUE, devicePath |-> FALSE, live |-> TRUE]
  <2>0. disks \in Seq(Disk) /\ disks # <<>> /\ ThisDisk = t
    BY <1>3 DEF InstallDevicePath
  <2>1. disks \in Seq(Disk) /\ disks # <<>> /\ ThisDisk \in Disk
    BY <2>0 DEF Disk
  <2>2. CASE /\ flowPc' = "chainload"
             /\ UpdateDisk([ThisDisk EXCEPT !.devicePath = TRUE])
             /\ UNCHANGED rollbackLost
    <3> DEFINE d == [ThisDisk EXCEPT !.devicePath = TRUE]
    <3>1. d \in Disk /\ d.live
      BY <2>0 DEF Disk
    <3> QED
      BY <2>1, <2>2, <3>1, UpdateDiskKeeps
  <2>3. ASSUME NEW refused \in BOOLEAN, flowPc' = "returned",
               UpdateDisk([ThisDisk EXCEPT !.blockIo = refused,
                                           !.live = FALSE]),
               rollbackLost' = (rollbackLost \/ refused)
        PROVE  DiskInv'
    <3> DEFINE d == [ThisDisk EXCEPT !.blockIo = refused, !.live = FALSE]
    <3>1. d \in Disk /\ d.blockIo = refused
      BY <1>3, <2>1, <2>3 DEF InstallDevicePath, Disk
    <3>2. /\ disks' \in Seq(Disk)
          /\ PublishedIsLive /\ ~refused => PublishedIsLive'
      BY <2>1, <2>3, <3>1, UpdateDiskKeeps
    <3> QED
      BY <2>3, <3>2
  <2> QED
    BY <1>3, <2>2, <2>3 DEF InstallDevicePath
<1>4. CASE Chainload
  BY <1>4 DEF Chainload, PublishedIsLive
<1>5. CASE ChainloadReturns
  BY <1>5 DEF ChainloadReturns, PublishedIsLive
<1>6. CASE Teardown
  <2>1. PICK dpOk \in BOOLEAN, bioOk \in BOOLEAN :
          UpdateDisk([blockIo |-> ~(dpOk /\ bioOk), devicePath |-> ~dpOk,
                      live |-> ~(dpOk /\ bioOk)])
    BY <1>6 DEF Teardown
  <2> DEFINE d == [blockIo |-> ~(dpOk /\ bioOk), devicePath |-> ~dpOk,
                   live |-> ~(dpOk /\ bioOk)]
  <2>2. d \in Disk /\ d.blockIo = d.live
    BY DEF Disk
  <2>3. disks \in Seq(Disk) /\ disks # <<>>
    BY <1>6 DEF Teardown
  <2>4. disks' \in Seq(Disk) /\ (PublishedIsLive => PublishedIsLive')
    BY <2>1, <2>2, <2>3, UpdateDiskKeeps
  <2> QED
    BY <1>6, <2>4 DEF Teardown
<1> QED
  BY <1>1, <1>2, <1>3, <1>4, <1>5, <1>6 DEF FlowStep

\* What does not touch the disks leaves them live; a reset forgets them.
LEMMA StepKeepsDiskInv ==
  ASSUME DiskInv, [Next]_vars
  PROVE  DiskInv'
<1> USE DEF DiskInv, FlowTypeOK, TeardownKeepsLive, PublishedIsLive, ThisDisk
<1>1. CASE Reset
  <2>1. flowPc' = "idle" /\ disks' = <<>> /\ rollbackLost' = FALSE
    BY <1>1 DEF Reset, FlowEntered
  <2>2. disks' \in Seq(Disk) /\ PublishedIsLive'
    BY <2>1
  <2> HIDE DEF PublishedIsLive
  <2> QED
    BY <2>1, <2>2
<1>2. CASE UNCHANGED flowVars
  BY <1>2 DEF flowVars
<1>3. CASE run_sre_flow
  BY <1>3 DEF run_sre_flow
<1>4. CASE CallReturns
  BY <1>4 DEF CallReturns
<1>5. CASE ManagerStep
  BY <1>1, <1>2, <1>3, <1>4, <1>5
     DEF ManagerStep, SignalStartOfBds, DispatchDrivers, ConnectSkipUsb,
         ProcessCapsules, SignalEndOfDxe, InstallReadyToLock, ProbeHotkey,
         DispatchHotkey, VolumeUp, VolumeDown, ProbePayload, BeginPass,
         TryOption, OptionsExhausted, FindFallback, TryCandidate,
         CandidatesExhausted, DispatchLastResort, GiveUp
<1> QED
  BY <1>1, <1>2, <1>5, FlowKeepsDiskInv
     DEF Next, FirmwareStep, WatchdogFires, vars, flowVars

-----------------------------------------------------------------------------
(* The operators the boot loop is built from.                              *)

(* Induction on the naturals for a set, from the least element outside it. *)
LEMMA InductionOnNat ==
  ASSUME NEW S \in SUBSET Nat, 0 \in S, \A n \in S : n + 1 \in S
  PROVE  S = Nat
<1> SUFFICES ASSUME S # Nat
             PROVE  FALSE
  OBVIOUS
<1> DEFINE T == Nat \ S
<1>1. T \subseteq Nat /\ T # {}
  OBVIOUS
<1> HIDE DEF T
<1>2. \E x \in T : \A y \in T : <<y, x>> \notin OpToRel(<, Nat)
  BY <1>1, WFMin, NatLessThanWellFounded
<1>3. PICK x \in T : \A y \in T : ~(y < x)
  BY <1>1, <1>2 DEF OpToRel
<1>4. x # 0 /\ x \in Nat /\ x - 1 \in Nat
  BY <1>3 DEF T
<1>5. x - 1 \in S
  BY <1>3, <1>4 DEF T
<1>6. x - 1 + 1 \in S
  BY <1>5
<1> QED
  BY <1>3, <1>4, <1>6 DEF T

(* Filtered keeps members of S only, and nothing that was not in the list: *)
(* by induction, first that the recursion has a solution, then that every  *)
(* prefix of it is such a sequence.                                        *)
LEMMA FilteredType ==
  ASSUME NEW D, NEW s \in Seq(D), NEW S
  PROVE  Filtered(s, S) \in Seq(D \cap S)
<1> DEFINE N == Len(s)
   step(f, n) == IF n = 0 THEN <<>> ELSE IF s[n] \in S THEN Append(f[n - 1], s[n]) ELSE f[n - 1]
   part(n) == \E f \in [0..n -> Seq(D \cap S)] : \A i \in 0..n : f[i] = step(f,i)
   good == {n \in Nat : n <= N => part(n)}
<1>0. N \in Nat OBVIOUS
<1>1. 0 \in good
  <2>1. [i \in 0..0 |-> <<>>] \in [0..0 -> Seq(D \cap S)]
    OBVIOUS
  <2>2. \A i \in 0..0 : [j \in 0..0 |-> <<>>][i] = step([j \in 0..0 |-> <<>>], i)
    OBVIOUS
  <2> QED BY <2>1, <2>2
<1>2. \A n \in good : n + 1 \in good
  <2>a. SUFFICES ASSUME NEW n \in good, n + 1 <= N PROVE part(n + 1)
    <3> HIDE DEF part
    <3> QED BY <1>0
  <2>b. n \in Nat /\ part(n)
    <3> HIDE DEF part
    <3> QED BY <1>0, <2>a
  <2>c. PICK f \in [0..n -> Seq(D \cap S)] : \A i \in 0..n : f[i] = step(f,i)
    BY <2>b DEF part
  <2> DEFINE g == [i \in 0..n+1 |-> IF i = n + 1 THEN step(f, n+1) ELSE f[i]]
  <2>1. n \in Nat /\ f[n] \in Seq(D \cap S) /\ s[n+1] \in D /\ n + 1 # 0 /\ n+1-1 = n
    <3>1. n \in Nat /\ n + 1 \in 1..N /\ n \in 0..n
      BY <1>0, <2>a, <2>b
    <3>2. f[n] \in Seq(D \cap S)
      BY <3>1, <2>c
    <3>3. s[n+1] \in D
      BY <3>1
    <3> QED BY <3>1, <3>2, <3>3
  <2>2. step(f, n+1) \in Seq(D \cap S)
    BY <2>1
  <2>3. g \in [0..n+1 -> Seq(D \cap S)]
    <3> HIDE DEF step
    <3> QED BY <2>1, <2>2, <2>c
  <2>4. \A i \in 0..n+1 : g[i] = step(g, i)
    <3> SUFFICES ASSUME NEW i \in 0..n+1 PROVE g[i] = step(g, i)
      OBVIOUS
    <3>1. CASE i = n + 1
      <4>1. g[i] = step(f, n+1) /\ g[n] = f[n]
        BY <2>1, <3>1
      <4> QED BY <3>1, <4>1, <2>1
    <3>2. CASE i # n + 1
      <4>1. i \in 0..n /\ g[i] = f[i]
        BY <2>1, <3>2
      <4>2. i # 0 => i - 1 \in 0..n /\ g[i-1] = f[i-1]
        BY <2>1, <3>2
      <4> HIDE DEF g
      <4> QED BY <2>c, <4>1, <4>2
    <3> QED BY <3>1, <3>2
  <2> QED BY <2>3, <2>4
<1>3. good = Nat
  <2> HIDE DEF good
  <2>1. good \in SUBSET Nat BY DEF good
  <2> QED BY <1>1, <1>2, <2>1, InductionOnNat
<1>a. part(N)
  <2> HIDE DEF part
  <2> QED BY <1>0, <1>3
<1>4. PICK f \in [0..N -> Seq(D \cap S)] : \A i \in 0..N : f[i] = step(f,i)
  BY <1>a
<1> DEFINE kept == CHOOSE k : k = [i \in 0..N |-> step(k, i)]
<1>5. f = [i \in 0..N |-> step(f, i)]
  <2> HIDE DEF step
  <2> QED BY <1>4
<1>6. kept = [i \in 0..N |-> step(kept, i)]
  <2> HIDE DEF step
  <2> QED BY <1>5
<1>7. Filtered(s, S) = kept[N]
  BY DEF Filtered
<1> HIDE DEF kept
<1> DEFINE ok == {n \in Nat : n <= N => kept[n] \in Seq(D \cap S)}
<1>8. 0 \in ok
  BY <1>6, <1>0
<1>9. \A n \in ok : n + 1 \in ok
  <2> SUFFICES ASSUME NEW n \in Nat, n + 1 <= N, kept[n] \in Seq(D \cap S) PROVE kept[n+1] \in Seq(D \cap S)
    BY <1>0
  <2>1. kept[n+1] = step(kept, n+1)
    <3>1. n + 1 \in 0..N
      BY <1>0
    <3> HIDE DEF step
    <3> QED BY <1>6, <3>1
  <2>2. s[n+1] \in D /\ n + 1 # 0 /\ n+1-1 = n
    BY <1>0
  <2> QED BY <2>1, <2>2
<1>10. ok = Nat
  <2> HIDE DEF ok
  <2>1. ok \in SUBSET Nat BY DEF ok
  <2> QED BY <1>8, <1>9, <2>1, InductionOnNat
<1> QED
  BY <1>7, <1>10, <1>0

(* Every fallback candidate names a listed volume and one of the platform's *)
(* loader files.                                                           *)
LEMMA CandidatesType ==
  ASSUME NEW V, NEW volumes \in Seq(V)
  PROVE  Candidates(volumes) \in Seq([dev : V, file : File])
<1> DEFINE n == Len(volumes)
           m == Len(LoaderPaths)
<1>1. n \in Nat /\ m \in Nat /\ LoaderPaths \in Seq(File)
  BY DeviceAssumption
<1>2. ASSUME NEW i \in 1 .. n * m
      PROVE  ((i - 1) % n) + 1 \in 1 .. n /\ ((i - 1) \div n) + 1 \in 1 .. m
  <2>1. n \in Nat \ {0} /\ n * m \in Nat /\ i - 1 \in 0 .. n * m - 1
    BY <1>1
  <2>2. (i - 1) % n \in 0 .. n - 1 /\ (i - 1) \div n \in 0 .. m - 1
    BY <1>1, <2>1, SMTT(60)
  <2> QED
    BY <1>1, <2>2
<1>3. ASSUME NEW i \in 1 .. n * m
      PROVE  [dev |-> volumes[((i - 1) % n) + 1],
              file |-> LoaderPaths[((i - 1) \div n) + 1]]
               \in [dev : V, file : File]
  BY <1>1, <1>2
<1>4. n * m \in Nat
  BY <1>1
<1> QED
  BY <1>3, <1>4, IsASeq DEF Candidates

(* fallback_boot_options offers nothing the policy does not allow: neither *)
(* a device nor a Secure Boot state.                                       *)
LEMMA FallbackOptionsType ==
  ASSUME NEW policy, NEW state, NEW q \in fallback_boot_options(policy, state)
  PROVE  /\ q \in Seq(Path)
         /\ q # <<>> => allows_security_state(policy, state)
         /\ \A i \in 1 .. Len(q) : allows_device(policy, q[i].dev)
<1> DEFINE allowed == {dev \in Device : allows_device(policy, dev) /\ Reachable(dev)}
           V == Device \cap allowed
<1>1. CASE q = <<>>
  BY <1>1
<1>2. CASE /\ allows_security_state(policy, state)
           /\ q = Candidates(Filtered(FileSystems, allowed))
  <2>1. Filtered(FileSystems, allowed) \in Seq(V)
    BY DeviceAssumption, FilteredType
  <2> HIDE DEF V
  <2>2. q \in Seq([dev : V, file : File])
    BY <1>2, <2>1, CandidatesType
  <2>3. \A i \in 1 .. Len(q) : q[i].dev \in V /\ q[i] \in Path
    <3>1. \A i \in 1 .. Len(q) : q[i] \in [dev : V, file : File]
      BY <2>2, ElementOfSeq
    <3>2. \A x \in [dev : V, file : File] : x.dev \in V /\ x \in Path
      BY DEF V, Path
    <3> QED
      BY <3>1, <3>2
  <2>4. q \in Seq(Path)
    BY <2>2, <2>3
  <2> QED
    BY <1>2, <2>3, <2>4 DEF V
<1> QED
  BY <1>1, <1>2 DEF fallback_boot_options
-----------------------------------------------------------------------------
(* Types.  What the helpers leave behind, whoever calls them.              *)
LEMMA NoPathType == NoPath \in Path
BY DeviceAssumption DEF NoPath

(* BDS entry leaves the helpers' state typed.                              *)
LEMMA EnteredTypes ==
  ASSUME HelpersEntered, bootOrder' \in BootOrders, bp1Payload' \in BOOLEAN
  PROVE  HelpersTypeOK'
BY NoPathType DEF HelpersEntered, HelpersTypeOK, ReadyToBootState

(* Connecting devices, with or without USB, keeps the helpers typed.       *)
LEMMA ConnectTypes ==
  ASSUME HelpersTypeOK, connect_all \/ connect_all_skip_usb,
         UNCHANGED <<lockVars, readyToBoot, callVars, nvVars>>
  PROVE  HelpersTypeOK'
BY DEF HelpersTypeOK, connect_all, connect_all_skip_usb, lockVars, callVars,
       nvVars

(* Either half of the security transition keeps the helpers typed.         *)
LEMMA LockTypes ==
  ASSUME HelpersTypeOK, NEW ok \in BOOLEAN,
         signal_bds_phase_entry(ok) \/ install_dxe_smm_ready_to_lock(ok),
         UNCHANGED <<connected, readyToBoot, callVars, nvVars>>
  PROVE  HelpersTypeOK'
<1>1. endOfDxe' \in BOOLEAN /\ readyToLock' \in BOOLEAN
  <2>1. endOfDxe \in BOOLEAN /\ readyToLock \in BOOLEAN
    BY DEF HelpersTypeOK
  <2> QED
    BY <2>1 DEF signal_bds_phase_entry, install_dxe_smm_ready_to_lock
<1> QED
  BY <1>1 DEF HelpersTypeOK, callVars, nvVars

(* Signalling ReadyToBoot leaves it signalled or failed.                   *)
LEMMA SignalTypes ==
  ASSUME HelpersTypeOK, signal_ready_to_boot
  PROVE  readyToBoot' \in ReadyToBootState
BY DEF HelpersTypeOK, signal_ready_to_boot, ReadyToBootState

(* So does calling boot_from_device_path with a device path,               *)
LEMMA StartTypes ==
  ASSUME HelpersTypeOK, NEW p \in Path, boot_from_device_path(p),
         UNCHANGED <<lockVars, connected, nvVars>>, readyToBoot' \in ReadyToBootState
  PROVE  HelpersTypeOK'
BY DEF HelpersTypeOK, boot_from_device_path, lockVars, nvVars

(* every step of the call and of the image it starts,                      *)
LEMMA CallTypes ==
  ASSUME HelpersTypeOK, CallStep \/ ImageStep \/ BootReturns
  PROVE  HelpersTypeOK'
<1> USE DEF HelpersTypeOK, lockVars, callVars, nvVars
<1>1. CASE LoadImage
  BY <1>1 DEF LoadImage
<1>2. CASE ArmAndStart
  BY <1>2 DEF ArmAndStart
<1>3. CASE DisarmWatchdog
  BY <1>3 DEF DisarmWatchdog
<1>4. CASE ImageExits
  BY <1>4 DEF ImageExits
<1>5. CASE ImageBoots
  BY <1>5 DEF ImageBoots
<1>6. CASE ImageWrites
  BY <1>6 DEF ImageWrites
<1>7. CASE BootReturns
  BY <1>7, NoPathType DEF BootReturns
<1> QED
  BY <1>1, <1>2, <1>3, <1>4, <1>5, <1>6, <1>7 DEF CallStep, ImageStep

(* and a step that leaves the helpers alone.                               *)
LEMMA IdleTypes ==
  ASSUME HelpersTypeOK, UNCHANGED helperVars
  PROVE  HelpersTypeOK'
BY DEF HelpersTypeOK, helperVars, lockVars, callVars, nvVars
(* The manager's own types need that a pass is begun below the limit, that *)
(* the passes start at none, and where the recovery flow is called from.   *)
PassInv ==
  /\ pc \in {"options", "fallback", "candidates"} => pass < 2
  /\ pc \in (Unlocked \ {"parked"}) \cup {"hotkey", "recovery", "probe"} =>
       pass = 0
  /\ flowPc # "idle" => pc \in {"probe", "exhausted"}

TypeInv == TypeOK /\ PassInv

\* Init and a reset start with empty lists and no pass.
LEMMA InitTypeInv == Init => TypeInv
<1> SUFFICES ASSUME Init
             PROVE  TypeInv
  OBVIOUS
<1>1. HelpersTypeOK
  BY NoPathType DEF Init, HelpersInit, HelpersTypeOK, ReadyToBootState
<1>2. FlowTypeOK
  BY EmptySeq DEF Init, FlowInit, FlowTypeOK
<1>3. bp1Payload \in BOOLEAN
  BY <1>1 DEF HelpersTypeOK
<1>4. ManagerTypeOK
  <2>1. queue \in Seq(Path) /\ discovered \in Seq(Path)
    BY EmptySeq DEF Init
  <2>2. toDispatch \in 0 .. MaxDispatch
    BY ManagerAssumption DEF Init
  <2>3. sreAtReset \in BOOLEAN
    BY <1>3 DEF Init
  <2>4. /\ config \in Configs /\ pc = "start" /\ pass \in 0 .. 2
        /\ hotkey \in Buttons \cup {"None"} /\ tried \subseteq Path
        /\ sbState \in SecureBootState \cup {"invalid", "unread"}
    BY <1>3 DEF Init
  <2>5. /\ bp_has_sre \in BOOLEAN /\ tried_any \in BOOLEAN
        /\ triedMainOs \in BOOLEAN /\ probeFailed \in BOOLEAN
        /\ lastResort \in BOOLEAN
    BY DEF Init
  <2> QED
    BY <2>1, <2>2, <2>3, <2>4, <2>5 DEF ManagerTypeOK
<1>5. PassInv
  BY DEF Init, FlowInit, PassInv
<1> QED
  BY <1>1, <1>2, <1>4, <1>5 DEF TypeInv, TypeOK

(* A reset re-enters BDS with well-typed state.                            *)
LEMMA ResetKeepsTypeInv ==
  ASSUME TypeInv, Reset, bootOrder' \in BootOrders, bp1Payload' \in BOOLEAN
  PROVE  TypeInv'
<1>1. HelpersTypeOK'
  BY EnteredTypes DEF Reset
<1>2. FlowTypeOK'
  BY EmptySeq DEF Reset, FlowEntered, FlowTypeOK
<1>3. config' \in Configs
  BY DEF Reset, TypeInv, TypeOK, ManagerTypeOK
<1>4. ManagerTypeOK'
  <2>1. queue' \in Seq(Path) /\ discovered' \in Seq(Path)
    BY EmptySeq DEF Reset
  <2>2. toDispatch' \in 0 .. MaxDispatch
    BY ManagerAssumption DEF Reset
  <2>3. sreAtReset' \in BOOLEAN
    BY <1>3 DEF Reset
  <2>4. /\ config' \in Configs /\ pc' = "start" /\ pass' \in 0 .. 2
        /\ hotkey' \in Buttons \cup {"None"} /\ tried' \subseteq Path
        /\ sbState' \in SecureBootState \cup {"invalid", "unread"}
    BY <1>3 DEF Reset
  <2>5. /\ bp_has_sre' \in BOOLEAN /\ tried_any' \in BOOLEAN
        /\ triedMainOs' \in BOOLEAN /\ probeFailed' \in BOOLEAN
        /\ lastResort' \in BOOLEAN
    BY DEF Reset
  <2> QED
    BY <2>1, <2>2, <2>3, <2>4, <2>5 DEF ManagerTypeOK
<1>5. PassInv'
  BY DEF Reset, FlowEntered, PassInv
<1> QED
  BY <1>1, <1>2, <1>4, <1>5 DEF TypeInv, TypeOK

\* Up to the hotkey nothing but the phase and the dispatch rounds change.
LEMMA PreLockKeepsTypeInv ==
  ASSUME TypeInv, PreLockStep
  PROVE  TypeInv'
<1> USE DEF TypeInv, TypeOK, FlowTypeOK, ManagerTypeOK, PassInv
<1> USE DEF flowVars, managerVars, preVars, loopVars, bootVars
<1>1. CASE SignalStartOfBds
  BY <1>1, IdleTypes DEF SignalStartOfBds
<1>2. CASE DispatchDrivers
  BY <1>2, ManagerAssumption, IdleTypes DEF DispatchDrivers
<1>3. CASE ConnectSkipUsb
  BY <1>3, ConnectTypes DEF ConnectSkipUsb
<1>4. CASE SignalEndOfDxe
  <2>1. HelpersTypeOK' /\ pc' \in {"readyToLock", "parked"}
    BY <1>4, LockTypes DEF SignalEndOfDxe, OnError
  <2> QED
    BY <1>4, <2>1 DEF SignalEndOfDxe
<1>5. CASE InstallReadyToLock
  <2>1. HelpersTypeOK' /\ pc' \in {"hotkey", "parked"}
    BY <1>5, LockTypes DEF InstallReadyToLock, OnError
  <2> QED
    BY <1>5, <2>1 DEF InstallReadyToLock
<1>6. CASE ProbeHotkey
  <2>1. HelpersTypeOK'
    BY <1>6, ConnectTypes, IdleTypes DEF ProbeHotkey, helperVars
  <2>2. hotkey' \in Buttons \cup {"None"}
    BY <1>6 DEF ProbeHotkey, Pressed, Buttons
  <2> QED
    BY <1>6, <2>1, <2>2 DEF ProbeHotkey
<1>7. CASE ProcessCapsules
  <2>1. CASE Reset
    <3>1. bootOrder' \in BootOrders /\ bp1Payload' \in BOOLEAN
      BY <1>7 DEF ProcessCapsules, HelpersTypeOK, helperVars, nvVars
    <3> QED
      BY <2>1, <3>1, ResetKeepsTypeInv
  <2>2. CASE /\ pc' = "endOfDxe"
             /\ UNCHANGED <<helperVars, flowVars, preVars, loopVars, bootVars>>
    BY <1>7, <2>2, IdleTypes DEF ProcessCapsules
  <2> QED
    BY <1>7, <2>1, <2>2 DEF ProcessCapsules
<1> QED
  BY <1>1, <1>2, <1>3, <1>4, <1>5, <1>6, <1>7 DEF PreLockStep

(* Whatever execute tries is a path: of the configuration, of a Boot####   *)
(* entry, of the first USB file system, or of a fallback candidate.        *)
LEMMA BootLoopKeepsTypeInv ==
  ASSUME TypeInv, BootLoopStep
  PROVE  TypeInv'
<1> USE DEF TypeInv, TypeOK, FlowTypeOK, ManagerTypeOK, PassInv
<1> USE DEF flowVars, managerVars, preVars, loopVars, bootVars
<1>1. CASE DispatchHotkey
  <2>1. Filtered(FileSystems, {dev \in UsbDevice : Reachable(dev)})
          \in Seq(Device \cap {dev \in UsbDevice : Reachable(dev)})
    BY DeviceAssumption, FilteredType
  <2>2. UsbFileSystems # <<>> => Head(UsbFileSystems) \in Device
    BY <2>1, HeadTailProperties DEF UsbFileSystems
  <2>3. UsbFileSystems # <<>> =>
          [dev |-> Head(UsbFileSystems), file |-> DefaultFile] \in Path
    BY <2>2, RamDiskAssumption DEF Path
  <2>4. UNCHANGED <<lockVars, connected, nvVars>>
    BY <1>1 DEF DispatchHotkey
  <2>5. ASSUME NEW p \in Path, SignalAndBoot(p)
        PROVE  HelpersTypeOK'
    BY <2>4, <2>5, StartTypes, SignalTypes DEF SignalAndBoot
  <2>6. ASSUME UNCHANGED callVars, readyToBoot' \in ReadyToBootState
        PROVE  HelpersTypeOK'
    BY <2>4, <2>6 DEF HelpersTypeOK, lockVars, callVars, nvVars
  <2>7. readyToBoot \in ReadyToBootState
    BY DEF HelpersTypeOK
  <2>8. HelpersTypeOK'
    BY <1>1, <2>3, <2>5, <2>6, <2>7, SignalTypes, ManagerAssumption
       DEF DispatchHotkey, VolumeUp, VolumeDown
  <2> QED
    BY <1>1, <2>8 DEF DispatchHotkey, VolumeUp, VolumeDown, run_sre_flow
<1>2. CASE CallReturns
  BY <1>2, CallTypes, IdleTypes DEF CallReturns
<1>3. CASE ProbePayload
  <2>1. bp_has_sre' \in BOOLEAN /\ probeFailed' \in BOOLEAN
    BY <1>3 DEF ProbePayload, read_bp_via_log_page
  <2> QED
    BY <1>3, <2>1, IdleTypes DEF ProbePayload
<1>4. CASE BeginPass
  <2>1. queue' \in Seq(Path)
    BY <1>4, DeviceAssumption, EmptySeq DEF BeginPass, discover_boot_options, HelpersTypeOK
  <2>2. HelpersTypeOK'
    BY <1>4, ConnectTypes, IdleTypes DEF BeginPass, helperVars
  <2> QED
    BY <1>4, <2>1, <2>2 DEF BeginPass, MorePasses
<1>5. CASE TryOption
  <2>1. Head(queue) \in Path /\ Tail(queue) \in Seq(Path)
    BY <1>5, HeadTailProperties DEF TryOption
  <2>2. HelpersTypeOK'
    BY <1>5, <2>1, StartTypes, SignalTypes, IdleTypes
       DEF TryOption, Attempt, SignalAndBoot, helperVars
  <2> QED
    BY <1>5, <2>1, <2>2, ZenonT(90) DEF TryOption, NextOption, Attempt
<1>6. CASE OptionsExhausted
  <2>1. HelpersTypeOK'
    BY <1>6, ManagerAssumption, StartTypes, SignalTypes, IdleTypes
       DEF OptionsExhausted, Attempt, SignalAndBoot, helperVars
  <2>2. tried' \subseteq Path /\ triedMainOs' \in BOOLEAN
    BY <1>6, ManagerAssumption DEF OptionsExhausted, Attempt
  <2> QED
    BY <1>6, <2>1, <2>2 DEF OptionsExhausted, NextPass
<1>7. CASE FindFallback
  <2>1. queue' \in Seq(Path)
    BY <1>7, FallbackOptionsType DEF FindFallback
  <2> QED
    BY <1>7, <2>1, IdleTypes DEF FindFallback
<1>8. CASE TryCandidate
  <2>1. Head(queue) \in Path /\ Tail(queue) \in Seq(Path)
    BY <1>8, HeadTailProperties DEF TryCandidate
  <2>2. readyToBoot' \in ReadyToBootState
    BY <1>8 DEF TryCandidate, HelpersTypeOK
  <2>3. HelpersTypeOK'
    BY <1>8, <2>1, <2>2, StartTypes, IdleTypes DEF TryCandidate, helperVars
  <2> QED
    BY <1>8, <2>1, <2>3 DEF TryCandidate, NextOption
<1>9. CASE CandidatesExhausted
  BY <1>9, IdleTypes DEF CandidatesExhausted, NextPass
<1>10. CASE DispatchLastResort
  BY <1>10, IdleTypes, ZenonT(90) DEF DispatchLastResort, MorePasses, run_sre_flow
<1>11. CASE GiveUp
  BY <1>11, IdleTypes DEF GiveUp
<1> QED
  BY <1>1, <1>2, <1>3, <1>4, <1>5, <1>6, <1>7, <1>8, <1>9, <1>10, <1>11 DEF BootLoopStep

\* The calls change the helpers' and the flow's state only.
LEMMA CallKeepsTypeInv ==
  ASSUME TypeInv, CallerWaits, FlowTypeOK'
  PROVE  TypeInv'
<1>1. UNCHANGED managerVars
  BY DEF CallerWaits
<1>2. ManagerTypeOK'
  BY <1>1 DEF TypeInv, TypeOK, ManagerTypeOK, managerVars, preVars, loopVars, bootVars
<1>3. PassInv'
  BY <1>1 DEF TypeInv, PassInv, managerVars, loopVars, CallerWaits, flowVars,
     FlowStep, ReadPartition, InstallBlockIo, InstallDevicePath, Chainload,
     ChainloadReturns, Teardown
<1>4. HelpersTypeOK'
  <2> USE DEF TypeInv, TypeOK
  <2>1. CASE ReadPartition
    BY <2>1, ConnectTypes DEF ReadPartition
  <2>2. CASE InstallBlockIo \/ InstallDevicePath \/ Teardown
    BY <2>2, IdleTypes DEF InstallBlockIo, InstallDevicePath, Teardown
  <2>3. CASE Chainload
    <3>1. [dev |-> RamDisk, file |-> DefaultFile] \in Path
      BY RamDiskAssumption, DeviceAssumption DEF Path
    <3>2. readyToBoot' \in ReadyToBootState
      BY <2>3 DEF Chainload, HelpersTypeOK
    <3> QED
      BY <2>3, <3>1, <3>2, StartTypes, IdleTypes DEF Chainload, helperVars
  <2>4. CASE BootReturns \/ CallStep \/ ImageStep
    BY <2>4, CallTypes
  <2> QED
    BY <2>1, <2>2, <2>3, <2>4 DEF CallerWaits, FlowStep, ChainloadReturns
<1> QED
  BY <1>2, <1>3, <1>4 DEF TypeInv, TypeOK

(* Every step of the boot manager keeps the types.                         *)
LEMMA StepKeepsTypeInv ==
  ASSUME TypeInv, DiskInv, [Next]_vars
  PROVE  TypeInv'
<1>1. CASE ManagerStep
  BY <1>1, PreLockKeepsTypeInv, BootLoopKeepsTypeInv
     DEF ManagerStep, PreLockStep, BootLoopStep
<1>2. CASE WatchdogFires
  <2>1. bootOrder' \in BootOrders /\ bp1Payload' \in BOOLEAN
    BY <1>2 DEF WatchdogFires, nvVars, TypeInv, TypeOK, HelpersTypeOK
  <2> QED
    BY <1>2, <2>1, ResetKeepsTypeInv DEF WatchdogFires
<1>3. CASE UNCHANGED vars
  BY <1>3, IdleTypes DEF vars, flowVars, managerVars, preVars, loopVars,
     bootVars, TypeInv, TypeOK, ManagerTypeOK, FlowTypeOK, PassInv
<1>4. CASE CallerWaits
  BY <1>4, StepKeepsDiskInv, CallKeepsTypeInv DEF DiskInv
<1> QED
  BY <1>1, <1>2, <1>3, <1>4 DEF Next, FirmwareStep, CallerWaits
-----------------------------------------------------------------------------
(* USB.  Nothing erases the payload during a boot, so the probe, unless it *)
(* failed, saw what was there at the reset; from then on the loops pass    *)
(* over USB paths, and before it only Vol-Down leads to one.               *)
BeforeProbe == {"start", "dispatch", "connect", "capsule", "endOfDxe",
                "readyToLock", "hotkey", "recovery", "probe"}

UsbInv ==
  /\ sreAtReset => bp1Payload
  /\ pc \notin BeforeProbe \cup {"parked"} /\ config.bpFallback /\ sreAtReset =>
       probeFailed \/ bp_has_sre
  /\ bootPc # "idle" /\ config.bpFallback /\ sreAtReset =>
       hotkey = "VolumeDown" \/ probeFailed \/ ~is_usb_device_path(bootPath)

(* Every step keeps the reason why no USB path is being booted.            *)
LEMMA StepKeepsUsbInv ==
  ASSUME UsbInv, [Next]_vars
  PROVE  UsbInv'
<1> USE DEF UsbInv, BeforeProbe
<1> USE DEF helperVars, flowVars, managerVars, preVars, loopVars, bootVars,
            lockVars, callVars, nvVars
<1>0. ~is_usb_device_path(MainOsPath) /\ ~is_usb_device_path(SreAppPath)
  BY ManagerAssumption DEF is_usb_device_path
<1>1. CASE Reset
  BY <1>1 DEF Reset, HelpersEntered
<1>2. CASE PreLockStep
  BY <1>1, <1>2 DEF PreLockStep, SignalStartOfBds, DispatchDrivers,
     ConnectSkipUsb, ProcessCapsules, SignalEndOfDxe, InstallReadyToLock,
     ProbeHotkey, OnError
<1>3. CASE DispatchHotkey
  BY <1>0, <1>3 DEF DispatchHotkey, VolumeUp, VolumeDown, SignalAndBoot,
     boot_from_device_path
<1>4. CASE CallReturns
  BY <1>4 DEF CallReturns, BootReturns
<1>5. CASE ProbePayload
  BY <1>5 DEF ProbePayload, read_bp_via_log_page
<1>6. CASE BeginPass
  BY <1>6 DEF BeginPass
<1>7. CASE TryOption
  BY <1>7 DEF TryOption, Skipped, Attempt, SignalAndBoot, boot_from_device_path
<1>8. CASE OptionsExhausted
  BY <1>0, <1>8 DEF OptionsExhausted, NextPass, Attempt, SignalAndBoot,
     boot_from_device_path
<1>9. CASE FindFallback
  BY <1>9 DEF FindFallback
<1>10. CASE TryCandidate
  BY <1>10 DEF TryCandidate, SkippedCandidate, boot_from_device_path
<1>11. CASE CandidatesExhausted \/ DispatchLastResort \/ GiveUp
  BY <1>11 DEF CandidatesExhausted, NextPass, DispatchLastResort, GiveUp
<1>12. CASE FlowStep /\ UNCHANGED managerVars
  <2>1. ~is_usb_device_path([dev |-> RamDisk, file |-> DefaultFile])
    BY RamDiskAssumption DEF is_usb_device_path
  <2> QED
    BY <1>12, <2>1 DEF FlowStep, ReadPartition, InstallBlockIo,
       InstallDevicePath, Chainload, boot_from_device_path, ChainloadReturns,
       BootReturns, Teardown
<1>13. CASE (CallStep \/ ImageStep) /\ UNCHANGED managerVars
  BY <1>13 DEF CallStep, LoadImage, ArmAndStart, DisarmWatchdog, ImageStep,
     ImageExits, ImageBoots, ImageWrites
<1>14. CASE UNCHANGED vars
  BY <1>14 DEF vars
<1> QED
  BY <1>1, <1>2, <1>3, <1>4, <1>5, <1>6, <1>7, <1>8, <1>9, <1>10, <1>11,
     <1>12, <1>13, <1>14
     DEF Next, FirmwareStep, ManagerStep, PreLockStep, WatchdogFires
-----------------------------------------------------------------------------
(* Giving up.  In the boot loop every entry discovered is passed over, has *)
(* been attempted or is still queued; a pass ends with nothing queued and  *)
(* something attempted, be it the main OS path.                            *)
Handled(p) == Skipped(p) \/ p \in tried

PassOver ==
  pc \in {"fallback", "candidates", "exhausted"} \/ (pc = "pass" /\ pass > 0)

TriedInv ==
  /\ pc = "options" =>
       /\ \A i \in 1 .. Len(discovered) :
            \/ Handled(discovered[i])
            \/ \E j \in 1 .. Len(queue) : queue[j] = discovered[i]
       /\ tried_any => tried # {}
  /\ PassOver => /\ \A i \in 1 .. Len(discovered) : Handled(discovered[i])
                 /\ tried # {}
  /\ pc = "exhausted" /\ bp_has_sre => lastResort

(* Taking the head off the queue settles the entry it names.               *)
LEMMA TryOptionKeepsTriedInv ==
  ASSUME TriedInv, TypeInv, TryOption
  PROVE  TriedInv'
<1>1. queue \in Seq(Path) /\ queue # <<>> /\ queue' = Tail(queue)
  BY DEF TypeInv, TypeOK, ManagerTypeOK, TryOption, NextOption
<1>2. /\ Len(queue) \in Nat \ {0} /\ Len(queue') = Len(queue) - 1
      /\ Head(queue) = queue[1]
      /\ \A j \in 1 .. Len(queue') : queue'[j] = queue[j + 1]
  BY <1>1, HeadTailProperties
<1>3. ASSUME NEW j \in 1 .. Len(queue), j # 1
      PROVE  j - 1 \in 1 .. Len(queue') /\ queue'[j - 1] = queue[j]
  BY <1>2, <1>3
<1>4. /\ pc = "options" /\ pc' = "options"
      /\ UNCHANGED <<discovered, bp_has_sre, pass>>
  BY DEF TryOption, At
<1>5. \A p : Handled(p) => Handled(p)'
  BY <1>4 DEF TryOption, Attempt, Handled, Skipped
<1>6. \A p : p = Head(queue) => Handled(p)'
  BY <1>2, <1>4 DEF TryOption, Attempt, Handled, Skipped
<1>7. tried_any' => tried' # {}
  BY <1>4 DEF TryOption, Attempt, TriedInv
<1>8. ASSUME NEW i \in 1 .. Len(discovered')
      PROVE  \/ Handled(discovered[i])'
             \/ \E j \in 1 .. Len(queue') : queue'[j] = discovered'[i]
  <2>1. CASE Handled(discovered[i])
    BY <1>4, <1>5, <2>1
  <2>2. ASSUME NEW j \in 1 .. Len(queue), queue[j] = discovered[i]
        PROVE  \/ Handled(discovered[i])'
               \/ \E k \in 1 .. Len(queue') : queue'[k] = discovered'[i]
    <3>1. CASE j = 1
      BY <1>2, <1>4, <1>6, <2>2, <3>1
    <3>2. CASE j # 1
      BY <1>3, <1>4, <2>2, <3>2
    <3> QED
      BY <3>1, <3>2
  <2> QED
    BY <1>4, <2>1, <2>2 DEF TriedInv
<1> QED
  BY <1>4, <1>7, <1>8 DEF TriedInv, PassOver

(* Every step keeps the account of which configured paths were tried.      *)
LEMMA StepKeepsTriedInv ==
  ASSUME TriedInv, TypeInv, [Next]_vars
  PROVE  TriedInv'
<1> USE DEF TriedInv, PassOver, Handled, Skipped
<1> USE DEF helperVars, flowVars, managerVars, preVars, loopVars, bootVars
<1>1. CASE Reset
  BY <1>1 DEF Reset
<1>2. CASE PreLockStep
  BY <1>1, <1>2 DEF PreLockStep, SignalStartOfBds, DispatchDrivers,
     ConnectSkipUsb, ProcessCapsules, SignalEndOfDxe, InstallReadyToLock,
     ProbeHotkey, OnError
<1>3. CASE DispatchHotkey
  BY <1>3 DEF DispatchHotkey
<1>4. CASE UNCHANGED managerVars
  BY <1>4
<1>5. CASE ProbePayload
  BY <1>5 DEF ProbePayload, TypeInv, PassInv
<1>6. CASE BeginPass
  <2>1. discovered' = queue' /\ tried_any' = FALSE /\ pc' = "options"
    BY <1>6 DEF BeginPass
  <2> QED
    BY <2>1
<1>7. CASE TryOption
  BY <1>7, TryOptionKeepsTriedInv
<1>8. CASE OptionsExhausted
  <2>1. pc = "options" /\ queue = <<>> /\ UNCHANGED <<discovered, bp_has_sre>>
    BY <1>8 DEF OptionsExhausted
  <2>2. \A i \in 1 .. Len(discovered) : Handled(discovered[i])
    BY <2>1
  <2>3. tried' # {} /\ tried \subseteq tried'
    BY <1>8 DEF OptionsExhausted, Attempt
  <2>4. pc' \in {"pass", "fallback"}
    BY <1>8 DEF OptionsExhausted, NextPass
  <2> QED
    BY <2>1, <2>2, <2>3, <2>4
<1>9. CASE FindFallback
  BY <1>9 DEF FindFallback
<1>10. CASE TryCandidate
  BY <1>10 DEF TryCandidate
<1>11. CASE CandidatesExhausted
  BY <1>11 DEF CandidatesExhausted, NextPass
<1>12. CASE DispatchLastResort
  <2>1. pass > 0
    BY <1>12 DEF DispatchLastResort, MorePasses, TypeInv, TypeOK, ManagerTypeOK
  <2> QED
    BY <1>12, <2>1 DEF DispatchLastResort
<1>13. CASE GiveUp
  BY <1>13 DEF GiveUp
<1> QED
  BY <1>1, <1>2, <1>3, <1>4, <1>5, <1>6, <1>7, <1>8, <1>9, <1>10, <1>11,
     <1>12, <1>13
     DEF Next, FirmwareStep, ManagerStep, PreLockStep, WatchdogFires,
         CallReturns, vars

-----------------------------------------------------------------------------
(* Filesystem fallback.  The candidates left, and the one being booted,    *)
(* are the policy's, in the Secure Boot state that was read for them.      *)
FallbackInv ==
  pc = "candidates" =>
    /\ \A i \in 1 .. Len(queue) :
         /\ allows_device(config.policy, queue[i].dev)
         /\ allows_security_state(config.policy, sbState)
    /\ bootPc # "idle" =>
         /\ allows_device(config.policy, bootPath.dev)
         /\ allows_security_state(config.policy, sbState)

(* Every step keeps the account of why a fallback is running.              *)
LEMMA StepKeepsFallbackInv ==
  ASSUME FallbackInv, TypeInv, [Next]_vars
  PROVE  FallbackInv'
<1> USE DEF FallbackInv
<1> USE DEF helperVars, flowVars, managerVars, preVars, loopVars, bootVars,
            lockVars, callVars, nvVars
<1>1. CASE Reset
  BY <1>1 DEF Reset
<1>2. CASE PreLockStep
  BY <1>1, <1>2 DEF PreLockStep, SignalStartOfBds, DispatchDrivers,
     ConnectSkipUsb, ProcessCapsules, SignalEndOfDxe, InstallReadyToLock,
     ProbeHotkey, OnError
<1>3. CASE \/ DispatchHotkey \/ ProbePayload \/ BeginPass \/ TryOption
           \/ OptionsExhausted \/ CandidatesExhausted \/ DispatchLastResort
           \/ GiveUp
  BY <1>3 DEF DispatchHotkey, ProbePayload, BeginPass, TryOption,
     OptionsExhausted, NextPass, CandidatesExhausted, DispatchLastResort, GiveUp
<1>4. CASE CallReturns
  BY <1>4 DEF CallReturns, BootReturns
<1>5. CASE FindFallback
  <2>1. bootPc' = "idle" /\ UNCHANGED config
    BY <1>5 DEF FindFallback
  <2>2. queue' \in fallback_boot_options(config.policy, sbState')
    BY <1>5 DEF FindFallback
  <2>3. ASSUME NEW i \in 1 .. Len(queue')
        PROVE  /\ allows_device(config.policy, queue'[i].dev)
               /\ allows_security_state(config.policy, sbState')
    <3>1. /\ queue' # <<>> => allows_security_state(config.policy, sbState')
          /\ \A k \in 1 .. Len(queue') : allows_device(config.policy, queue'[k].dev)
      BY <2>2, FallbackOptionsType
    <3>2. queue' # <<>>
      OBVIOUS
    <3> QED
      BY <3>1, <3>2
  <2> QED
    BY <2>1, <2>3 DEF allows_device, allows_security_state
<1>6. CASE TryCandidate
  <2>1. queue \in Seq(Path) /\ queue # <<>> /\ queue' = Tail(queue)
    BY <1>6 DEF TypeInv, TypeOK, ManagerTypeOK, TryCandidate, NextOption
  <2>2. /\ Len(queue) \in Nat \ {0} /\ Len(queue') = Len(queue) - 1
        /\ Head(queue) = queue[1]
        /\ \A j \in 1 .. Len(queue') : queue'[j] = queue[j + 1]
    BY <2>1, HeadTailProperties
  <2>3. \A j \in 1 .. Len(queue') : j + 1 \in 1 .. Len(queue)
    BY <2>2
  <2>4. 1 \in 1 .. Len(queue)
    BY <2>2
  <2>5. bootPc = "idle" /\ pc = "candidates" /\ UNCHANGED <<config, sbState>>
    BY <1>6 DEF TryCandidate
  <2>6. bootPc' = bootPc \/ bootPath' = queue[1]
    BY <1>6, <2>2 DEF TryCandidate, boot_from_device_path
  <2> QED
    BY <2>2, <2>3, <2>4, <2>5, <2>6 DEF allows_device, allows_security_state
<1>7. CASE FlowStep /\ UNCHANGED managerVars
  BY <1>7 DEF FlowStep, ReadPartition, InstallBlockIo, InstallDevicePath,
     Chainload, ChainloadReturns, Teardown, TypeInv, PassInv
<1>8. CASE (CallStep \/ ImageStep) /\ UNCHANGED managerVars
  BY <1>8 DEF CallStep, LoadImage, ArmAndStart, DisarmWatchdog, ImageStep,
     ImageExits, ImageBoots, ImageWrites
<1>9. CASE UNCHANGED vars
  BY <1>9 DEF vars
<1> QED
  BY <1>1, <1>2, <1>3, <1>4, <1>5, <1>6, <1>7, <1>8, <1>9
     DEF Next, FirmwareStep, ManagerStep, PreLockStep, WatchdogFires
-----------------------------------------------------------------------------
SreInv ==
  /\ BootInv /\ DiskInv /\ TypeInv
  /\ UsbInv /\ TriedInv /\ FallbackInv

(* The whole invariant of the SRE boot manager holds at BDS entry          *)
LEMMA InitSreInv == Init => SreInv
<1> SUFFICES ASSUME Init
             PROVE  SreInv
  OBVIOUS
<1>1. TypeInv
  BY InitTypeInv
<1>2. DiskInv
  <2>1. FlowTypeOK /\ flowPc = "idle" /\ disks = <<>>
    BY <1>1 DEF TypeInv, TypeOK, Init, FlowInit
  <2>2. PublishedIsLive
    BY <2>1 DEF PublishedIsLive
  <2> QED
    BY <2>1, <2>2 DEF DiskInv, TeardownKeepsLive
<1>3. UsbInv /\ TriedInv /\ FallbackInv
  BY DEF Init, HelpersInit, UsbInv, BeforeProbe, TriedInv, PassOver, FallbackInv
<1> QED
  BY <1>1, <1>2, <1>3, InitBootInv DEF SreInv

(* and is kept by every step.                                              *)
LEMMA StepKeepsSreInv ==
  ASSUME SreInv, [Next]_vars
  PROVE  SreInv'
BY StepKeepsBootInv, StepKeepsDiskInv, StepKeepsTypeInv, StepKeepsUsbInv,
   StepKeepsTriedInv, StepKeepsFallbackInv
   DEF SreInv

(* SreInv implies each property the runs check of the boot manager.        *)
LEMMA SreInvSuffices ==
  ASSUME SreInv
  PROVE  /\ TypeOK /\ LockedWhenRunning /\ WatchdogGuardsImages
         /\ ReadyToBootFirst /\ TeardownKeepsLive /\ UsbSkipped
         /\ FallbackHonoursPolicy /\ GivesUpOnlyAfterTrying
<1> USE DEF SreInv
<1>1. TypeOK /\ TeardownKeepsLive
  BY DEF TypeInv, DiskInv
<1>2. LockedWhenRunning /\ WatchdogGuardsImages /\ ReadyToBootFirst
  BY DEF BootInv, LockInv, ReadyInv, LockedWhenRunning, ReadyToBootFirst
<1>3. UsbSkipped
  BY DEF UsbInv, UsbSkipped
<1>4. FallbackHonoursPolicy
  BY DEF FallbackInv, FallbackHonoursPolicy, allows_device,
     allows_security_state
<1>5. GivesUpOnlyAfterTrying
  BY DEF TriedInv, PassOver, Handled, GivesUpOnlyAfterTrying
<1> QED
  BY <1>1, <1>2, <1>3, <1>4, <1>5

(* The inductive invariant of execute holds in every boot.                 *)
THEOREM SreInvariant == Spec => []SreInv
BY InitSreInv, StepKeepsSreInv, PTL DEF Spec

(* Every variable of the boot manager, its helpers and its recovery flow   *)
(* keeps its type: queues hold paths, and no pass goes over the limit.     *)
THEOREM SreTypeCorrect == Spec => []TypeOK
BY SreInvariant, SreInvSuffices, PTL

(* teardown never frees a buffer that is still published as a RAM disk,    *)
(* over any number of recovery flows in a boot.                            *)
THEOREM TeardownIsSafe == Spec => []TeardownKeepsLive
BY SreInvariant, SreInvSuffices, PTL

(* With a payload in boot partition 1 nothing is run from USB unless the   *)
(* user held Vol-Down or the partition could not be probed.                *)
THEOREM UsbIsSkipped == Spec => []UsbSkipped
BY SreInvariant, SreInvSuffices, PTL

(* Filesystem fallback boots what BootSourcePolicy allows, for every list  *)
(* of volumes, every list of loader paths and every policy.                *)
THEOREM FallbackIsAllowed == Spec => []FallbackHonoursPolicy
BY SreInvariant, SreInvSuffices, PTL

(* execute returns NotFound only when every entry of the last pass was     *)
(* tried or passed over, whatever BootOrder became meanwhile, and the last *)
(* resort was run if the payload is there.                                 *)
THEOREM NotFoundIsTruthful == Spec => []GivesUpOnlyAfterTrying
BY SreInvariant, SreInvSuffices, PTL
=============================================================================
