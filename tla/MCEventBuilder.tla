---------------------------- MODULE MCEventBuilder ----------------------------
(***************************************************************************)
(* A group of two modules.  A packet is a cut of a stream of up to three   *)
(* events of one length: it begins with lead words of an earlier event and *)
(* its last event may be cut off.  Timestamps are in no order, as events   *)
(* of different channels of a module may come.                             *)
(***************************************************************************)
EXTENDS EventBuilder

Pair == {0, 1}

\* The packet of the events with timestamps ts, of len words each.
Cut(lead, len, ts, length) ==
    [length |-> length,
     events |-> [k \in DOMAIN ts |-> [at |-> lead + (k - 1) * len, len |-> len, ts |-> ts[k]]]]

\* Packets of n events of len words, the last with rest words inside the packet.
Cuts(leads, len, n, times, rests) ==
    {Cut(lead, len, ts, lead + (n - 1) * len + rest) :
        lead \in leads, ts \in [1 .. n -> times], rest \in rests}

\* The last event ends with its packet, or is cut in its header or behind it.
SomePackets ==
    Cuts({0, 1}, 5, 2, {0, 2, 3}, {1, 4, 5}) \cup Cuts({0}, 4, 3, {0, 1, 3}, {1, 4})
==============================================================================
