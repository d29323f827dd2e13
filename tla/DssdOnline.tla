------------------------------ MODULE DssdOnline ------------------------------
(***************************************************************************)
(* The DSSD example from end to end: the publisher of DssdSimulation, the  *)
(* group policy of the receiver (module AlignedGroups, implemented by      *)
(* OnlineReceiver), the vectors its event loop returns for a packet (what  *)
(* EventBuilder shows of hits in the order of time), and FillOnlineGraph   *)
(* of src/examples/dssd_simulation/dssd_online.cpp.                        *)
(***************************************************************************)
EXTENDS DssdSimulation

VARIABLES
    decoded,        \* ids under which the group was decoded (a record of the past)
    vectors,        \* the vectors ReceiveEvent still returns for the last of them, as sets of hits
    last_time,      \* front time of the last pixel, -1 before the first
    hist_strip,     \* the pixels filled, as [x, y, time] (a record of the past)
    hist_interval   \* the intervals filled

onlineVars == <<decoded, vectors, last_time, hist_strip, hist_interval>>
vars == <<simulationVars, onlineVars>>

Init ==
    /\ SimulationInit
    /\ decoded = {}
    /\ vectors = {}
    /\ last_time = -1
    /\ hist_strip = <<>>
    /\ hist_interval = <<>>

\* The ids under which module m published.
PublishedIds(m) == {p.id : p \in ToSet(published[m])}

HitsUnder(m, k) == (CHOOSE p \in ToSet(published[m]) : p.id = k).hits

\* The event loop decodes a hit only if something follows it in its packet
\* (online_data_receiver.cpp:213), ...
DecodedHits(k) == UNION {ToSet(Front(HitsUnder(m, k))) : m \in Modules}

\* ... a vector is what lies in the window, which is a dead time, and the
\* vector under construction when the packets run out is lost (line 241).
Vectors(k) ==
    LET followed == {g \in DecodedHits(k) : \E h \in DecodedHits(k) : g.time < h.time}
    IN  {{h \in DecodedHits(k) : h.time = g.time} : g \in followed}

\* The members go on after the id that was decoded.
Newer(k) == \A j \in decoded : j < k

\* The receiver completes an id: any published by all modules, above the last.
DecodePackets(k) ==
    /\ vectors = {}
    /\ \A m \in Modules : k \in PublishedIds(m)
    /\ Newer(k)
    /\ decoded' = decoded \cup {k}
    /\ vectors' = Vectors(k)
    /\ UNCHANGED <<simulationVars, last_time, hist_strip, hist_interval>>

\* Decode takes the module from the slot (online_data_receiver.cpp:311).
DecodedModule(h) == h.slot - 2

FrontHit(h) == DecodedModule(h) < FrontModules
FrontStrip(h) == DecodedModule(h) * Channels + h.channel

BackStrip(h) == (DecodedModule(h) - FrontModules) * Channels + h.channel

\* (mutant) the cut is the wrong way round
EnergiesDiffer(f, b) == f.peak - b.peak \notin -1 .. 1

\* fabs(front_energy - back_energy) <= 0.5: only the outer peaks are farther apart.
EnergiesAgree(f, b) == f.peak - b.peak \in -1 .. 1

\* (mutant) the number of hits is not looked at
AnyPairs(v) ==
    {p \in v \X v : FrontHit(p[1]) /\ ~FrontHit(p[2]) /\ EnergiesAgree(p[1], p[2])}

\* Exactly two hits, one of either side.
Pairs(v) ==
    IF Cardinality(v) # 2 THEN {}
    ELSE {p \in v \X v : FrontHit(p[1]) /\ ~FrontHit(p[2]) /\ EnergiesAgree(p[1], p[2])}

\* (mutant) current_time is a copy of last_time
CurrentCopied(f) == last_time

\* current_time, which main passes as a reference to last_time.
CurrentTime(f) == f.time

\* The pixel and the interval of a vector.
Fill(v) ==
    IF Pairs(v) = {}
    THEN UNCHANGED <<last_time, hist_strip, hist_interval>>
    ELSE \E p \in Pairs(v) :
            /\ hist_strip' = Append(hist_strip, [x |-> FrontStrip(p[1]),
                                                 y |-> BackStrip(p[2]),
                                                 time |-> p[1].time])
            /\ hist_interval' = IF last_time > 0
                                THEN Append(hist_interval, p[1].time - last_time)
                                ELSE hist_interval
            /\ last_time' = CurrentTime(p[1])

\* ReceiveEvent returns the vectors in the order of time.
FillOnlineGraph ==
    /\ \E v \in vectors :
          /\ \A w \in vectors : \A g \in v, h \in w : g.time <= h.time
          /\ vectors' = vectors \ {v}
          /\ Fill(v)
    /\ UNCHANGED <<simulationVars, decoded>>

Ids == 0 .. MaxEvents

Next ==
    \/ Simulate /\ UNCHANGED onlineVars
    \/ \E k \in Ids : DecodePackets(k)
    \/ FillOnlineGraph

Spec == Init /\ [][Next]_vars

------------------------------------------------------------------------------
(* Properties.                                                              *)

At(t) == {n \in DOMAIN events : events[n].time = t}

FrontHitOf(n) == Hits(events[n], n)[1]
BackHitOf(n) == Hits(events[n], n)[2]

\* Every pixel is a particle's, whose two hits were decoded together.  Hits of two
\* particles of one dead time, with energies as near as one particle's, are taken for
\* one only if the other hit of each of them was not decoded with them: torn packets,
\* lost packets and lost hits leave no other pixel (dssd_online.cpp:119, 151).
PixelsTrue ==
    \A i \in DOMAIN hist_strip :
        LET p == hist_strip[i] IN
        \E k \in decoded : \E m, n \in At(p.time) :
            /\ p.x = events[m].x /\ p.y = events[n].y
            /\ FrontHitOf(m) \in DecodedHits(k) /\ BackHitOf(n) \in DecodedHits(k)
            /\ m # n => /\ BackHitOf(m) \notin DecodedHits(k)
                       /\ FrontHitOf(n) \notin DecodedHits(k)
                       /\ events[m].peak - events[n].peak \in -1 .. 1

\* The hits of particle n are inside packet k: neither is the last of its
\* module, and something later is decoded too.
Inside(n, k) ==
    /\ Cardinality({h \in DecodedHits(k) : h.event = n}) = 2
    /\ \E h \in DecodedHits(k) : h.time > events[n].time

\* A particle alone in its dead time, with both hits inside a packet that was
\* decoded, is in the histogram, and once.
InnerParticlesFilled ==
    vectors = {} =>
        \A k \in decoded, n \in DOMAIN events :
            Inside(n, k) /\ Cardinality(At(events[n].time)) = 1 =>
                Cardinality({i \in DOMAIN hist_strip :
                                hist_strip[i].time = events[n].time}) = 1

\* The intervals are the times between successive pixels, from the first pixel of which
\* the code can tell the time on, and none is negative or zero, whatever packets
\* were lost in between.
IntervalsTelescope ==
    \E z \in 0 .. Len(hist_strip) :
        /\ \A i \in DOMAIN hist_strip : hist_strip[i].time > 0 <=> i > z
        /\ Len(hist_interval) = IF z = Len(hist_strip) THEN 0 ELSE Len(hist_strip) - z - 1
        /\ \A i \in DOMAIN hist_interval :
              /\ hist_interval[i] = hist_strip[z + i + 1].time - hist_strip[z + i].time
              /\ hist_interval[i] > 0
==============================================================================
