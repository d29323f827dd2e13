-------------------------- MODULE MCDetectorReadout --------------------------
(***************************************************************************)
(* Two modules, in one group or each on its own, with a buffer of little   *)
(* more than a packet, so that it fills up and is saved in mid-packet.     *)
(***************************************************************************)
EXTENDS DetectorReadout

OneGroup == [i \in 0 .. 1 |-> 0]
GroupOfOne == [i \in 0 .. 0 |-> 0]
SparseGroup == [i \in 0 .. 0 |-> 1]
==============================================================================
