----------------------------- MODULE MCRunControl -----------------------------
(***************************************************************************)
(* The GUI alone, or with two threads of remote calls.                     *)
(***************************************************************************)
EXTENDS RunControl

CONSTANTS gui, c1, c2

TwoClients == {c1, c2}
==============================================================================
