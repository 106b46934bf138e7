--------------------------- MODULE MCSreFmpDevice ---------------------------
(* Two partitions of BlockCount blocks of two bytes.  The small capsule    *)
(* ends inside a block, so that padding happens; the full one fills the    *)
(* partition; the large one does not fit.                                  *)
EXTENDS SreFmpDevice

MCCapsules ==
  {[payload |-> "small", size |-> 1, version |-> 1],
   [payload |-> "full", size |-> BpSize, version |-> 2],
   [payload |-> "large", size |-> BpSize + 1, version |-> 3]}

MCBlock == [Offsets -> Byte]
=============================================================================
