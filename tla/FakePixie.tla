------------------------------ MODULE FakePixie ------------------------------
(***************************************************************************)
(* The library that stands in for the Pixie-16 driver in the simulation    *)
(* (src/examples/pixie_simulation: fake_pixie.cpp, fake_pixie_service.cpp, *)
(* detector.cpp, alpha_source.cpp), and the DAQ's calls to it.             *)
(*                                                                         *)
(* Nothing runs beside the calls: a frame of particles is made when a      *)
(* module is asked for the size of its data and a frame time has passed.   *)
(* A hit stands for its four words.  Particles within a dead time share a  *)
(* time; the next later one is a dead time away, the least there is.       *)
(***************************************************************************)
EXTENDS Integers, Sequences, FiniteSets, SequencesExt

CONSTANTS
    Planes,         \* PPACs before the target (3, a line needs two); plane i stands at z = -(i+1)
    HalfSize,       \* ppac_size / 2, in strips (25); positions are in half strips
    Channels,       \* channels of a DSSD module (16)
    Strips,         \* dssd_strips: strips of a side (32)
    SlotMap,        \* the slots of the configuration
    DeadTime,       \* dead_time_, in nanoseconds (1000)
    Resolution,     \* bound: how late the time of a strip may be (1)
    FifoHits,       \* hits a module's data has room for (4096 / 4)
    FrameParticles, \* rate_ / fps_ (30)
    Limits,         \* limits_: frames of a run (unlimited as shipped)
    Threshold,      \* the least hits the DAQ reads: EXTFIFO_READ_THRESH / 4
    Shots,          \* bound: particles, [tx, ty, dx, dy, x, y, xlate, ylate, peak, long]
    MaxParticles,   \* bound: particles altogether
    MaxRuns         \* bound: runs

Wires == 4 * Planes
DssdModules == (2 * Strips) \div Channels
Modules == 0 .. DssdModules
Missed == -1        \* the strip of a particle that misses the DSSD

ASSUME FakeAssumption ==
    /\ Planes \in Nat \ {0, 1} /\ HalfSize \in Nat
    /\ Channels \in Nat \ {0} /\ Strips \in Nat \ {0} /\ Strips % Channels = 0
    /\ SlotMap \in [Modules -> 0 .. 15]
    /\ DeadTime \in Nat /\ Resolution \in Nat
    /\ FifoHits \in Nat /\ FrameParticles \in Nat /\ Limits \in Nat \ {0}
    /\ Threshold \in Nat /\ MaxRuns \in Nat
    /\ \A s \in Shots :
          /\ s.tx \in Int /\ s.ty \in Int /\ s.dx \in Int /\ s.dy \in Int
          /\ s.x \in 0 .. Strips - 1 \cup {Missed} /\ s.y \in 0 .. Strips - 1
          /\ s.xlate \in 0 .. Resolution /\ s.ylate \in 0 .. Resolution
          /\ s.peak \in Int /\ s.long \in BOOLEAN

VARIABLES
    module_status,  \* one for all modules: "Init", "Ready", "Running"
    count,          \* count_: frames of this run
    detect_time,    \* in dead times
    data,           \* data[m]: module_data_[m], data_size_[m] is its length
    query,          \* modules asked for their size in this pass of the DAQ
    nwords,         \* nwords[m]: the answers
    stopping,       \* the DAQ is in StopRun
    runs,
    delivered,      \* delivered[m]: the hits read from module m (a record of the past)
    particles       \* the particles made, with time and run (a record of the past)

service == <<module_status, count, detect_time, data>>
daq == <<query, nwords, stopping, runs>>

\* The constructor, and MapSlots in Pixie16InitSystem.
PixieInit ==
    /\ module_status = "Init"
    /\ count = 0
    /\ detect_time = 0
    /\ data = [m \in Modules |-> <<>>]
    /\ query = 0
    /\ nwords = [m \in Modules |-> 0]
    /\ stopping = FALSE
    /\ runs = 0
    /\ delivered = [m \in Modules |-> <<>>]
    /\ particles = <<>>

------------------------------------------------------------------------------
(* Particles and the hits they give.                                        *)

At(p, i) == [x |-> p.tx - (i + 1) * p.dx, y |-> p.ty - (i + 1) * p.dy]

Crossed(p, i) ==
    At(p, i).x \in -2 * HalfSize .. 2 * HalfSize /\ At(p, i).y \in -2 * HalfSize .. 2 * HalfSize

\* A hit of a PPAC is in module 0 and says slot 2, whatever the slot map.
MapPpacEvent(channel, delay, p, n) ==
    [module |-> 0, slot |-> 2, channel |-> channel, time |-> DeadTime * p.time + delay,
     value |-> 0, n |-> n]

\* A hit of a strip, the back strips numbered after the front strips.
MapDssdEvent(strip, late, p, n) ==
    LET m == strip \div Channels + 1
    IN  [module |-> m, slot |-> SlotMap[m], channel |-> strip % Channels,
         time |-> DeadTime * p.time + late, value |-> p.peak, n |-> n]

\* int(ppac_x + 25.5) and int(ppac_y + 25.0): x goes to the nearest strip, y down.
XStrip(x) == (x + 2 * HalfSize + 1) \div 2
YStrip(y) == (y + 2 * HalfSize) \div 2

\* The delays at the two ends of a wire are 100 ns together, two for each strip.
Ends(p, n, i) ==
    LET x == 2 * XStrip(At(p, i).x)
        y == 2 * YStrip(At(p, i).y)
    IN  << MapPpacEvent(4 * i, x, p, n), MapPpacEvent(4 * i + 1, 4 * HalfSize - x, p, n),
           MapPpacEvent(4 * i + 2, y, p, n), MapPpacEvent(4 * i + 3, 4 * HalfSize - y, p, n) >>

\* The wires of the planes that particle n crossed, a signal of every plane, and a
\* strip of either side; nothing at all if it misses the DSSD.
Detect(p, n) ==
    IF p.x = Missed THEN <<>>
    ELSE FlattenSeq([i \in 1 .. Planes |->
                        IF Crossed(p, i - 1) THEN Ends(p, n, i - 1) ELSE <<>>])
            \o [i \in 1 .. Planes |-> MapPpacEvent(Wires + i - 1, 0, p, n)]
            \o << MapDssdEvent(p.x, p.xlate, p, n), MapDssdEvent(Strips + p.y, p.ylate, p, n) >>

\* size + 4 > 4096
Full(s) == Len(s) + 1 > FifoHits

\* A hit for which there is no room is dropped.
FillBinaryData(d, h) ==
    IF Full(d[h.module]) THEN d ELSE [d EXCEPT ![h.module] = Append(@, h)]

\* The hits of a frame, one after the other.
FillAll(d, hits) ==
    LET filled[k \in 0 .. Len(hits)] ==
            IF k = 0 THEN d ELSE FillBinaryData(filled[k - 1], hits[k])
    IN  filled[Len(hits)]

\* Particles of the source, a short or a long interval after the one before: only a
\* long one, of a dead time or more, moves detect_time_ on.
Emit == Shots

\* detect_time_ at the k-th particle of a frame.
Clock(frame, k) == detect_time + Cardinality({j \in 1 .. k : frame[j].long})

Particle(s, t) ==
    [tx |-> s.tx, ty |-> s.ty, dx |-> s.dx, dy |-> s.dy, x |-> s.x, y |-> s.y,
     xlate |-> s.xlate, ylate |-> s.ylate, peak |-> s.peak, run |-> runs, time |-> t]

\* The particles of a frame, with their times.
Timed(frame) == [k \in 1 .. FrameParticles |-> Particle(frame[k], Clock(frame, k))]

\* The hits of particles that are made after the first `before`.
HitsOf(made, before) == FlattenSeq([k \in DOMAIN made |-> Detect(made[k], before + k)])

\* A frame of particles, as long as the limit allows.
PrePareEvents ==
    IF count >= Limits THEN UNCHANGED <<count, detect_time, data, particles>>
    ELSE /\ Len(particles) < MaxParticles
         /\ \E frame \in [1 .. FrameParticles -> Emit] :
               /\ count' = count + 1
               /\ detect_time' = Clock(frame, FrameParticles)
               /\ data' = FillAll(data, HitsOf(Timed(frame), Len(particles)))
               /\ particles' = particles \o Timed(frame)

------------------------------------------------------------------------------
(* The driver's functions, as the DAQ calls them.                           *)

\* Time begins anew, but what was not read of the run before stays.
Start ==
    /\ module_status' = "Running"
    /\ count' = 0
    /\ detect_time' = 0
    /\ UNCHANGED data

Boot ==
    /\ module_status = "Init"
    /\ module_status' = "Ready"
    /\ UNCHANGED <<count, detect_time, data, daq, delivered, particles>>

StartListModeRun ==
    /\ module_status = "Ready"
    /\ ~stopping
    /\ runs < MaxRuns
    /\ Start
    /\ runs' = runs + 1
    /\ query' = 0
    /\ UNCHANGED <<nwords, stopping, delivered, particles>>

Stop == module_status' = "Ready"

\* StopRun ends the run of the modules between two passes.
EndRun ==
    /\ module_status = "Running"
    /\ query = 0
    /\ Stop
    /\ stopping' = TRUE
    /\ UNCHANGED <<count, detect_time, data, query, nwords, runs, delivered, particles>>

\* GetStatus: 0 once ready, so RunStatus lets StopRun go to its last pass at once.
GetStatus == CASE module_status = "Ready" -> 0 [] module_status = "Running" -> 1 [] OTHER -> -1

\* The size of a module's data, after a frame if it is time for one: whether a run
\* is in progress does not matter.
GetDataSize ==
    /\ PrePareEvents \/ UNCHANGED <<count, detect_time, data, particles>>
    /\ nwords' = [nwords EXCEPT ![query] = Len(data'[query])]

\* The first loop of ReadDataFromModules asks module after module.
CheckExternalFIFOStatus ==
    /\ GetStatus = 1 \/ stopping
    /\ query \in Modules
    /\ GetDataSize
    /\ query' = query + 1
    /\ UNCHANGED <<module_status, stopping, runs, delivered>>

\* (mutant) the last hit stays behind
GetDataButOne(m, size) ==
    LET n == IF size > Len(data[m]) THEN Len(data[m]) ELSE size
    IN  IF n = 0 THEN n ELSE n - 1

\* How many hits are copied out and taken away.
GetData(m, size) == IF size > Len(data[m]) THEN Len(data[m]) ELSE size

\* (mutant) the rest is not moved to the front of the buffer
Rest(m, n) == SubSeq(data[m], 1, Len(data[m]) - n)

Remaining(m, n) == SubSeq(data[m], n + 1, Len(data[m]))

\* The second loop: the modules of the group are read together (which depends on
\* how full their packets are), or a module when it has enough.
ReadDataFromExternalFIFO(group_read) ==
    LET thres == IF stopping THEN 0 ELSE Threshold
        taken == [m \in Modules |->
                     IF group_read \/ nwords[m] > thres THEN GetData(m, nwords[m]) ELSE 0]
    IN  /\ query = DssdModules + 1
        /\ query' = 0
        /\ stopping' = FALSE
        /\ delivered' = [m \in Modules |-> delivered[m] \o SubSeq(data[m], 1, taken[m])]
        /\ data' = [m \in Modules |-> Remaining(m, taken[m])]
        /\ nwords' = [m \in Modules |-> 0]
        /\ UNCHANGED <<module_status, count, detect_time, runs, particles>>

------------------------------------------------------------------------------
(* Properties of the driver.                                                *)

\* Every module's data are a FIFO: hits are delivered once, unchanged and in their
\* order, though frames come between counting and reading (lines 99-106).
Fifo == INSTANCE HardwareFifo WITH
            Capacity <- FifoHits,
            stored <- [m \in Modules |-> delivered[m] \o data[m]]
ActsAsFifo == Fifo!Spec

\* The hits of module m in a sequence of hits.
OfModule(m, q) == FlattenSeq([k \in DOMAIN q |-> IF q[k].module = m THEN <<q[k]>> ELSE <<>>])

Produced(m) == OfModule(m, HitsOf(particles, 0))

\* As long as a module never had more than fits, no hit is missing; and whatever
\* is dropped when it has (line 162), the others keep their order.
LostOnlyWhenFull ==
    \A m \in Modules :
        LET stored == delivered[m] \o data[m] IN
        /\ Len(Produced(m)) <= FifoHits => stored = Produced(m)
        /\ \A i, j \in DOMAIN stored : i < j => stored[i].n <= stored[j].n
==============================================================================
