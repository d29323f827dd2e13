---------------------------- MODULE DssdSimulation ----------------------------
(***************************************************************************)
(* The simulated DAQ of the DSSD example                                   *)
(* (src/examples/dssd_simulation/dssd_simulation.cpp): every particle in   *)
(* the detector gives one hit of a front strip and one of a back strip,    *)
(* the strips belong to modules, and the packets of all modules are        *)
(* published together when one of them is full.                            *)
(*                                                                         *)
(* A hit stands for its four words.  Time counts dead times of the DAQ:    *)
(* particles closer than that share one time.                              *)
(***************************************************************************)
EXTENDS Integers, Sequences, FiniteSets, SequencesExt

CONSTANTS
    FrontModules,   \* modules of the front strips (2)
    BackModules,    \* modules of the back strips (2)
    Channels,       \* strips of a module (16)
    PacketHits,     \* hits a packet has room for: PACKET_SIZE / 4 (8192)
    Shots,          \* bound: strips and energy of the particles, [x, y, peak]
    PileUp,         \* bound: intervals below a dead time
    LoanFails,      \* whether iox_pub_loan may fail
    MaxEvents       \* bound: particles in the detector

Modules == 0 .. FrontModules + BackModules - 1

ASSUME SimulationAssumption ==
    /\ FrontModules \in Nat \ {0} /\ BackModules \in Nat \ {0} /\ Channels \in Nat \ {0}
    /\ PacketHits \in Nat \ {0} /\ MaxEvents \in Nat /\ LoanFails \in BOOLEAN
    /\ PileUp \in Nat
    /\ \A s \in Shots :
          /\ s.x \in 0 .. FrontModules * Channels - 1
          /\ s.y \in 0 .. BackModules * Channels - 1
          /\ s.peak \in 0 .. 2

VARIABLES
    pc,         \* "event", "store", "publish"; "crashed", "stopped"
    events,     \* the particles so far, with their time (a record of the past)
    pending,    \* the hits of the particle that are not stored yet
    allocated,  \* the modules with a payload: user_payload[m] is not null
    packet,     \* packet[m]: the hits in module m's payload
    module,     \* the loop variable of the publication
    packet_id,  \* the id of the next packets
    published   \* published[m]: m's packets, each with id and hits

simulationVars ==
    <<pc, events, pending, allocated, packet, module, packet_id, published>>

\* detect_time of the last particle
Now == IF events = <<>> THEN 0 ELSE Last(events).time

SimulationInit ==
    /\ pc = "event"
    /\ events = <<>>
    /\ pending = <<>>
    /\ allocated = {}
    /\ packet = [m \in Modules |-> <<>>]
    /\ module = 0
    /\ packet_id = 0
    /\ published = [m \in Modules |-> <<>>]

\* What FillBinaryEvent keeps of hit number n: slot and channel name the strip
\* (event is for the properties only).
FillBinaryEvent(m, strip, e, n) ==
    [slot |-> m + 2, channel |-> strip % Channels, time |-> e.time, peak |-> e.peak,
     event |-> n]

\* Front and back hit of particle n, in the order in which they are stored.
Hits(e, n) ==
    << FillBinaryEvent(e.x \div Channels, e.x, e, n),
       FillBinaryEvent(FrontModules + e.y \div Channels, e.y, e, n) >>

\* The next particle in the detector, a dead time later or in the same one;
\* particles that miss the detector only let time pass.
GenerateEvent ==
    /\ pc = "event"
    /\ Len(events) < MaxEvents
    /\ \E s \in Shots, interval \in 0 .. 1 :
          LET e == [x |-> s.x, y |-> s.y, peak |-> s.peak, time |-> Now + interval] IN
          /\ interval = 0 => Len(events) - Now < PileUp
          /\ events' = Append(events, e)
          /\ pending' = Hits(e, Len(events'))
    /\ pc' = "store"
    /\ UNCHANGED <<allocated, packet, module, packet_id, published>>

\* (mutant) the length of the packet is not reset
KeptPacket(m) == packet[m]

EmptyPacket(m) == <<>>

\* AllocatePayload: an empty packet.  After a failed loan the null pointer is
\* used all the same (line 143), and the program is gone.
AllocatePayload(m, next) ==
    \/ /\ allocated' = allocated \cup {m}
       /\ packet' = [packet EXCEPT ![m] = EmptyPacket(m)]
       /\ pc' = next
    \/ /\ LoanFails
       /\ pc' = "crashed"
       /\ UNCHANGED <<allocated, packet>>

Target == Head(pending).slot - 2

FirstPayload ==
    /\ pc = "store"
    /\ Target \notin allocated
    /\ AllocatePayload(Target, "store")
    /\ UNCHANGED <<events, pending, module, packet_id, published>>

\* length + sizeof(DataHeader)/4 > PACKET_SIZE
Full(m) == Len(packet[m]) + 1 > PacketHits

StoreHit ==
    /\ pc = "store"
    /\ Target \in allocated
    /\ IF Full(Target)
       THEN /\ pc' = "publish"
            /\ module' = 0
            /\ UNCHANGED <<packet, pending>>
       ELSE /\ packet' = [packet EXCEPT ![Target] = Append(@, Head(pending))]
            /\ pending' = Tail(pending)
            /\ pc' = IF Len(pending) = 1 THEN "event" ELSE "store"
            /\ UNCHANGED module
    /\ UNCHANGED <<events, allocated, packet_id, published>>

LastOne == module = FrontModules + BackModules - 1

\* (mutant) the id is counted up inside the loop
IdPerModule == packet_id + 1

\* ++packet_id, after the loop
NextId == IF LastOne THEN packet_id + 1 ELSE packet_id

\* The packets of all modules go out under one id; a module that was never hit
\* has no header to write the id to.
PublishPacket ==
    /\ pc = "publish"
    /\ IF module \notin allocated
       THEN /\ pc' = "crashed"
            /\ UNCHANGED <<allocated, packet, packet_id, published>>
       ELSE /\ published' = [published EXCEPT
                                ![module] = Append(@, [id |-> packet_id, hits |-> packet[module]])]
            /\ packet_id' = NextId
            /\ AllocatePayload(module, IF LastOne THEN "store" ELSE "publish")
    /\ module' = module + 1
    /\ UNCHANGED <<events, pending>>

\* hasTerminationRequested: what is in the payloads is never published.
Stop ==
    /\ pc = "event"
    /\ pc' = "stopped"
    /\ UNCHANGED <<events, pending, allocated, packet, module, packet_id, published>>

Simulate == GenerateEvent \/ FirstPayload \/ StoreHit \/ PublishPacket \/ Stop

------------------------------------------------------------------------------
(* Properties of the publisher.                                             *)

\* The hits of module m in a sequence of hits.
OfModule(m, q) == FlattenSeq([n \in DOMAIN q |-> IF q[n].slot - 2 = m THEN <<q[n]>> ELSE <<>>])

\* All hits so far, in the order of the particles.
Produced == FlattenSeq([i \in DOMAIN events |-> Hits(events[i], i)])

Sent(m) == FlattenSeq([k \in DOMAIN published[m] |-> published[m][k].hits])

\* Every hit is in exactly one packet of its module, in the order of time,
\* although packets are replaced in the middle of a particle (lines 324-356).
HitsKept ==
    pc # "crashed" =>
        LET produced == Produced IN
        \A m \in Modules :
            Sent(m) \o packet[m] \o OfModule(m, pending) = OfModule(m, produced)

FrontSide == 0 .. FrontModules - 1
BackSide == Modules \ FrontSide

\* A particle whose hits are torn apart has them in packets of consecutive ids,
\* the front first: all modules change packets together (line 327).
TornToNextPacket ==
    \A m1 \in FrontSide, m2 \in BackSide :
        \A p \in ToSet(published[m1]), q \in ToSet(published[m2]) :
            \A f \in ToSet(p.hits), b \in ToSet(q.hits) :
                f.event = b.event => q.id \in {p.id, p.id + 1}
==============================================================================
