---------------------------- MODULE AlignedGroups ----------------------------
(***************************************************************************)
(* What the group policy promises, with neither queues nor a receiver.     *)
(* Every module publishes packets under increasing ids, and the packets of *)
(* the modules of one group are decoded together: only under an id that    *)
(* all of them published, and under an id higher than all decoded before.  *)
(***************************************************************************)
EXTENDS Integers

CONSTANTS
    Modules,    \* the modules of the crate
    Groups,     \* the module groups
    GroupIndex, \* the group of each module
    Ids         \* the packet ids

VARIABLES
    published,  \* published[m]: the ids module m published a packet under
    decoded     \* decoded[g]: the ids under which group g was decoded

vars == <<published, decoded>>

Members(g) == {m \in Modules : GroupIndex[m] = g}

Init ==
    /\ published = [m \in Modules |-> {}]
    /\ decoded = [g \in Groups |-> {}]

Publish(m, k) ==
    /\ \A j \in published[m] : j < k
    /\ published' = [published EXCEPT ![m] = @ \cup {k}]
    /\ UNCHANGED decoded

DecodeGroup(g, k) ==
    /\ \A m \in Members(g) : k \in published[m]
    /\ \A j \in decoded[g] : j < k
    /\ decoded' = [decoded EXCEPT ![g] = @ \cup {k}]
    /\ UNCHANGED published

Next ==
    \/ \E m \in Modules, k \in Ids : Publish(m, k)
    \/ \E g \in Groups, k \in Ids : DecodeGroup(g, k)

Spec == Init /\ [][Next]_vars
==============================================================================
