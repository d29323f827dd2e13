---------------------------- MODULE MCOnlineProgram ----------------------------
(***************************************************************************)
(* Two canvases, two runs, one group of up to two vectors waiting.         *)
(***************************************************************************)
EXTENDS OnlineProgram
==============================================================================
