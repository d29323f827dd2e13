------------------------------ MODULE FakeOnline ------------------------------
(***************************************************************************)
(* The Pixie simulation from end to end: the stand-in driver of FakePixie, *)
(* the packets the DAQ makes of what it reads (DetectorReadout shows that  *)
(* they keep the stream), the receiver's event loop on them (EventBuilder  *)
(* looks at it word by word), and FillOnlineGraph of                       *)
(* src/examples/pixie_simulation/fake_online.cpp.                          *)
(***************************************************************************)
EXTENDS FakePixie

CONSTANTS
    Enough,     \* the hits that fill a packet
    ValidCount, \* the hits in a row that SearchDecodeOffset asks for (5)
    Window,     \* time_window (1000)
    Tick        \* the unit of the timestamps (10 ns)

ASSUME OnlineAssumption ==
    /\ Enough \in Nat /\ ValidCount \in Nat \ {0}
    /\ Window \in Nat \ {0} /\ Tick \in Nat \ {0}

VARIABLES
    unread,     \* unread[m]: hits read from module m that are in no packet yet
    packets,    \* the groups of packets, each a packet of every module
    queue,      \* queue[m]: the hits of m's packet that are not in a vector yet
    event,      \* event_: the vector under construction
    fills       \* what FillOnlineGraph filled (a record of the past)

receiver == <<queue, event>>
onlineVars == <<unread, packets, receiver, fills>>
vars == <<service, daq, delivered, particles, onlineVars>>

Init ==
    /\ PixieInit
    /\ unread = [m \in Modules |-> <<>>]
    /\ packets = <<>>
    /\ queue = [m \in Modules |-> <<>>]
    /\ event = <<>>
    /\ fills = <<>>

------------------------------------------------------------------------------
(* The DAQ publishes packets, the receiver makes vectors of them.           *)

\* SearchDecodeOffset finds the first hit of a packet that has enough hits of the
\* configured slot, and nothing in another; the last hit has nothing behind it and is
\* not decoded (line 213).
Decoded(m, packet) ==
    IF Len(packet) < ValidCount \/ \E k \in DOMAIN packet : packet[k].slot # SlotMap[m]
    THEN <<>> ELSE Front(packet)

\* A pass that reads the group, because a module has enough for its packet,
\* publishes what is unread; here the receiver gets them all.
ReadDataFromModules ==
    \E group_read \in BOOLEAN :
        LET more(m) == SubSeq(delivered'[m], Len(delivered[m]) + 1, Len(delivered'[m]))
            packet == [m \in Modules |-> unread[m] \o more(m)]
        IN  /\ ReadDataFromExternalFIFO(group_read)
            /\ IF group_read
               THEN /\ \E m \in Modules : Len(packet[m]) >= Enough
                    /\ packets' = Append(packets, packet)
                    /\ unread' = [m \in Modules |-> <<>>]
                    /\ queue' = [m \in Modules |-> Decoded(m, packet[m])]
               ELSE /\ unread' = packet
                    /\ UNCHANGED <<packets, queue>>
            /\ UNCHANGED <<event, fills>>

Timestamp(h) == Tick * (h.time \div Tick)

\* The modules with a hit that waits in first_events_, and that hit.
Waiting == {m \in Modules : queue[m] # <<>>}
First(m) == Head(queue[m])

\* A new vector starts with the earliest of the first hits.
NewEvent(m) ==
    /\ event = <<>>
    /\ m \in Waiting
    /\ \A j \in Waiting : \/ Timestamp(First(m)) < Timestamp(First(j))
                          \/ Timestamp(First(m)) = Timestamp(First(j)) /\ m <= j
    /\ event' = <<First(m)>>
    /\ queue' = [queue EXCEPT ![m] = Tail(@)]
    /\ UNCHANGED <<unread, packets, fills>>

\* The modules whose first hit lies in the window around the reference.
Matching ==
    {m \in Waiting : Timestamp(First(m)) - Timestamp(event[1]) \in 1 - Window .. Window - 1}

\* They are added module after module, round after round.
AddMatches ==
    /\ event # <<>>
    /\ Matching # {}
    /\ event' = event \o FlattenSeq([k \in 1 .. DssdModules + 1 |->
                                        IF k - 1 \in Matching THEN <<First(k - 1)>> ELSE <<>>])
    /\ queue' = [m \in Modules |-> IF m \in Matching THEN Tail(queue[m]) ELSE queue[m]]
    /\ UNCHANGED <<unread, packets, fills>>

\* No hit is left: the packets are released and the vector is lost (line 241).
Clean ==
    /\ event # <<>>
    /\ Waiting = {}
    /\ event' = <<>>
    /\ UNCHANGED <<unread, packets, queue, fills>>

\* OpenSaveFile forgets what the last run left unread.
StartRun ==
    /\ StartListModeRun
    /\ unread' = [m \in Modules |-> <<>>]
    /\ UNCHANGED <<packets, receiver, fills>>

------------------------------------------------------------------------------
(* FillOnlineGraph.                                                         *)

DecodedModule(h) == h.slot - 2
FrontModules == Strips \div Channels

\* The places of the hits of module set M in the vector.
Places(M) == {k \in DOMAIN event : DecodedModule(event[k]) \in M}

FrontHits == Places(2 .. FrontModules + 1)

\* (mutant) the modules of the back begin one too early
BackHitsAndFront == Places(FrontModules + 1 .. 13)

BackHits == Places(FrontModules + 2 .. 13)

\* The hit with the largest channel number.  The strips' calibrations differ by more
\* than the peaks do, so of different strips it may be any.
Strongest(side) ==
    {k \in side : \A j \in side :
        event[j].module = event[k].module /\ event[j].channel = event[k].channel =>
            event[j].value <= event[k].value}

\* fabs(front_energy - back_energy) < 0.5 holds for neighbouring peaks.
EnergiesAgree(f, b) == f.value - b.value \in -1 .. 1

Nothing == <<>>

\* Front and back strip of the vector, and the particles they are of.
Pixels ==
    IF FrontHits = {} \/ BackHits = {} THEN {Nothing}
    ELSE {LET f == event[i]
              b == event[j]
          IN  IF EnergiesAgree(f, b)
              THEN [x |-> (DecodedModule(f) - 2) * Channels + f.channel,
                    y |-> (DecodedModule(b) - 2 - FrontModules) * Channels + b.channel,
                    of |-> {f.n, b.n}]
              ELSE Nothing : i \in Strongest(FrontHits), j \in Strongest(BackHits)}

\* ppac_valid
Valid == {event[k].channel : k \in Places({0})}

\* (mutant) the signal of the plane is enough
PlaneOnly(i) == {Wires + i}

\* The masks 0x100f, 0x20f0, 0x4f00: the wires of a plane and its signal.
PlaneMask(i) == 4 * i .. 4 * i + 3 \cup {Wires + i}

\* 0x7fff
TargetMask == 0 .. Wires + Planes - 1

PlanesFilled == {i \in 0 .. Planes - 1 : PlaneMask(i) \subseteq Valid}

\* Of several signals of a wire the last one counts.
Signal(c) == event[Max({k \in Places({0}) : event[k].channel = c})]
Ppac(c) == Signal(c).time

\* Four times the position at a plane.
PpacAt(i) == [x |-> Ppac(4 * i) - Ppac(4 * i + 1), y |-> Ppac(4 * i + 2) - Ppac(4 * i + 3)]

\* The sum over the planes.
Sum(x) ==
    LET sum[k \in 0 .. Planes] == IF k = 0 THEN 0 ELSE sum[k - 1] + x[k - 1]
    IN  sum[Planes]

\* par[0] of the line through the points (-(i+1), x[i]), times Divisor.
Z == [i \in 0 .. Planes - 1 |-> -(i + 1)]
Spread == Planes * Sum([i \in DOMAIN Z |-> Z[i] * Z[i]]) - Sum(Z) * Sum(Z)
Divisor == Planes * Spread
LinearRegression(x) ==
    LET slope == Planes * Sum([i \in DOMAIN Z |-> x[i] * Z[i]]) - Sum(x) * Sum(Z)
    IN  Sum(x) * Spread - Sum(Z) * slope

\* Where the line meets the target, and the particles whose signals it is drawn through.
Target ==
    IF ~(TargetMask \subseteq Valid) THEN Nothing
    ELSE [x |-> LinearRegression([i \in DOMAIN Z |-> PpacAt(i).x]),
          y |-> LinearRegression([i \in DOMAIN Z |-> PpacAt(i).y]),
          of |-> {Signal(c).n : c \in 0 .. Wires - 1}]

\* No first hit matches: ReceiveEvent returns the vector, and it is filled.
FillOnlineGraph ==
    /\ event # <<>>
    /\ Waiting # {}
    /\ Matching = {}
    /\ \E pixel \in Pixels :
          fills' = Append(fills, [pixel |-> pixel, planes |-> PlanesFilled, target |-> Target,
                                  of |-> {event[k].n : k \in DOMAIN event}])
    /\ event' = <<>>
    /\ UNCHANGED <<unread, packets, queue>>

Daq ==
    \/ Boot /\ UNCHANGED onlineVars
    \/ StartRun
    \/ EndRun /\ UNCHANGED onlineVars
    \/ CheckExternalFIFOStatus /\ UNCHANGED onlineVars
    \/ ReadDataFromModules

Analyse == (\E m \in Modules : NewEvent(m)) \/ AddMatches \/ Clean \/ FillOnlineGraph

\* A packet is analysed before the DAQ goes on: neither reads what the other changes,
\* so the other orders lead to the same fills.
Next ==
    \/ event = <<>> /\ Waiting = {} /\ Daq
    \/ Analyse /\ UNCHANGED <<service, daq, delivered, particles>>

Spec == Init /\ [][Next]_vars

------------------------------------------------------------------------------
(* Properties.                                                              *)

\* The numbers of the packets of modules S with a hit of particle n.
PacketsWith(n, S) ==
    {k \in DOMAIN packets : \E m \in S : \E h \in ToSet(packets[k][m]) : h.n = n}

\* Modules are asked one after the other, and each question may make a frame: a
\* particle whose hits are torn apart has those of the later modules in the group
\* of packets right before those of the earlier ones, never the other way round
\* and never farther apart (fake_pixie_service.cpp:91, Detector.cc:735-841).
TornForward ==
    \A i, j \in Modules : i < j =>
        \A n \in DOMAIN particles :
            \A k \in PacketsWith(n, {i}), l \in PacketsWith(n, {j}) : k \in {l, l + 1}

\* The particles are of one run.
SameRun(S) == \A a, b \in S : particles[a].run = particles[b].run

\* The particles are near: nearer than the window, a tick and the delay given.
Near(S, delay) ==
    \A a, b \in S :
        DeadTime * (particles[a].time - particles[b].time) < Window + Tick + delay

\* A pixel is a front and a back strip of particles that hit them nearly at the same
\* time, though packets tear particles apart, hits are dropped, and the PPACs' hits
\* come out of the order of time.  Hits left from another run are excepted: their
\* times begin anew (fake_pixie_service.cpp:68, 99-106).
PixelsTrue ==
    \A k \in DOMAIN fills :
        LET f == fills[k] IN
        f.pixel # Nothing =>
            /\ \E a, b \in f.pixel.of : f.pixel.x = particles[a].x /\ f.pixel.y = particles[b].y
            /\ SameRun(f.of) => Near(f.pixel.of, Resolution)

\* How far quantised positions move the spot: by this times the error at the planes.
Leverage ==
    LET weight(i) == Spread - Sum(Z) * (Planes * Z[i] - Sum(Z))
    IN  Sum([i \in DOMAIN Z |-> IF weight(i) < 0 THEN -weight(i) ELSE weight(i)])

\* A plane is filled only if a particle of the vector crossed it.  The spot on the target
\* is drawn through signals of particles nearly at the same time, and if they are one
\* particle's it is off by no more than the line makes of the strips: half a strip in x
\* and a whole one in y (detector.cpp:31, 43, fake_online.cpp:191-213).
TargetTrue ==
    \A k \in DOMAIN fills :
        LET f == fills[k] IN
        /\ \A i \in f.planes : \E n \in f.of : particles[n].x # Missed /\ Crossed(particles[n], i)
        /\ f.target # Nothing =>
              /\ SameRun(f.of) => Near(f.target.of, 4 * HalfSize)
              /\ \A n \in f.target.of : f.target.of = {n} =>
                    /\ \A i \in 0 .. Planes - 1 : Crossed(particles[n], i)
                    /\ f.target.x - 2 * Divisor * particles[n].tx
                            \in -2 * Leverage .. 2 * Leverage
                    /\ f.target.y - 2 * Divisor * particles[n].ty
                            \in -4 * Leverage .. 4 * Leverage
==============================================================================
