----------------------------- MODULE HardwareFifo -----------------------------
(***************************************************************************)
(* What the DAQ takes for granted of the FIFO of a Pixie-16 module         *)
(* (Pixie16CheckExternalFIFOStatus and Pixie16ReadDataFromExternalFIFO):   *)
(* hits are stored while there is room, and reading takes them out from    *)
(* the oldest on, each once and unchanged.                                 *)
(***************************************************************************)
EXTENDS Naturals, Sequences, SequencesExt

CONSTANTS
    Modules,
    Capacity    \* the hits a FIFO holds

VARIABLES
    stored,     \* stored[m]: all hits that ever got into module m's FIFO
    delivered   \* delivered[m]: those that were read

Init ==
    /\ stored = [m \in Modules |-> <<>>]
    /\ delivered = [m \in Modules |-> <<>>]

Store ==
    /\ \A m \in Modules :
          /\ IsPrefix(stored[m], stored'[m])
          /\ Len(stored'[m]) - Len(delivered[m]) <= Capacity
    /\ UNCHANGED delivered

Deliver ==
    /\ \A m \in Modules :
          /\ IsPrefix(delivered[m], delivered'[m])
          /\ IsPrefix(delivered'[m], stored[m])
    /\ UNCHANGED stored

Spec == Init /\ [][Store \/ Deliver]_<<stored, delivered>>
==============================================================================
