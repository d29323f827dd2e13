--------------------------- MODULE MCOnlineReceiver ---------------------------
(***************************************************************************)
(* Three modules in two groups: modules 0 and 1 are realigned against each *)
(* other while module 2 is decoded on its own.                             *)
(***************************************************************************)
EXTENDS OnlineReceiver

TwoGroups == [m \in 0 .. 2 |-> IF m = 2 THEN 1 ELSE 0]
OneGroup == [m \in 0 .. 2 |-> 0]
Pair == [m \in 0 .. 1 |-> 0]
==============================================================================
