---------------------------- MODULE MCSharedMemory ----------------------------
(***************************************************************************)
(* Two modules; one update (of the initial zeros), two runs of up to two   *)
(* buffers.                                                                *)
(***************************************************************************)
EXTENDS SharedMemory
==============================================================================
