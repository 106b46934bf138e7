----------------------------- MODULE SreUpdate ------------------------------
(***************************************************************************)
(* What the SRE capsule update promises its caller, stated without blocks, *)
(* sessions or device commands: each of the two boot partitions is a       *)
(* register that an update replaces as a whole, success is reported only   *)
(* when both were replaced, a sealed partition is not replaced, and a loss *)
(* of power can spoil at most one partition, and only during an update.    *)
(***************************************************************************)
CONSTANTS
  Partition,    \* the boot partitions
  Capsules,     \* the images an update can install
  Factory, Spoiled, None

VARIABLES
  content,      \* what each partition holds
  pending,      \* the capsule being installed, or None
  result,       \* the status of the last finished update, or "none"
  frozen        \* partitions that stay as they are until power is lost

updateVars == <<content, pending, result, frozen>>

Init ==
  /\ content = [p \in Partition |-> Factory]
  /\ pending = None
  /\ result = "none"
  /\ frozen = {}

Begin(c) ==
  /\ pending = None
  /\ pending' = c
  /\ result' = "none"
  /\ UNCHANGED <<content, frozen>>

Install(p) ==
  /\ pending # None
  /\ p \notin frozen
  /\ content' = [content EXCEPT ![p] = pending]
  /\ UNCHANGED <<pending, result, frozen>>

\* Success may be reported only for an update both partitions hold.
Finish ==
  /\ pending # None
  /\ result' = "EFI_ABORTED"
     \/ /\ \A p \in Partition : content[p] = pending
        /\ result' = "EFI_SUCCESS"
  /\ pending' = None
  /\ UNCHANGED <<content, frozen>>

\* An update refused before anything was touched.
Refuse ==
  /\ pending = None
  /\ result' = "EFI_ABORTED"
  /\ UNCHANGED <<content, pending, frozen>>

Seal(p) ==
  /\ frozen' = frozen \cup {p}
  /\ UNCHANGED <<content, pending, result>>

PowerLoss ==
  /\ pending' = None
  /\ result' = "none"
  /\ frozen' = {}
  /\ \/ UNCHANGED content
     \/ /\ pending # None
        /\ \E p \in Partition \ frozen, x \in {pending, Spoiled} :
             content' = [content EXCEPT ![p] = x]

Next ==
  \/ \E c \in Capsules : Begin(c)
  \/ \E p \in Partition : Install(p) \/ Seal(p)
  \/ Finish \/ Refuse \/ PowerLoss

Spec == Init /\ [][Next]_updateVars
=============================================================================
