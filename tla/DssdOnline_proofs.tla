--------------------------- MODULE DssdOnline_proofs ---------------------------
(***************************************************************************)
(* Theorems about the DSSD example, for any numbers of modules and strips, *)
(* any size of a packet, any particles, losses of packets and failing      *)
(* loans: no hit is lost before it is published, a torn particle continues *)
(* in the next packet, and what the analysis fills was hit.                *)
(***************************************************************************)
EXTENDS DssdOnline, StreamLemmas, FiniteSetTheorems, SequenceTheorems, TLAPS

------------------------------------------------------------------------------
(* Particles and their hits.                                                *)

Particles == [x: 0 .. FrontModules * Channels - 1, y: 0 .. BackModules * Channels - 1,
              peak: 0 .. 2, time: Nat]

HitSet == [slot: {m + 2 : m \in Modules}, channel: Nat, time: Nat, peak: 0 .. 2,
           event: Nat \ {0}]

\* The front and the back hit of particle e, with number n.
FrontOf(e, n) == FillBinaryEvent(e.x \div Channels, e.x, e, n)
BackOf(e, n) == FillBinaryEvent(FrontModules + (e.y \div Channels), e.y, e, n)

LEMMA ModuleTypes ==
    /\ FrontModules \in Nat \ {0} /\ BackModules \in Nat \ {0} /\ Channels \in Nat \ {0}
    /\ Modules \subseteq Nat /\ FrontSide \subseteq Modules /\ BackSide \subseteq Modules
    /\ FrontModules + BackModules - 1 \in Modules
    /\ \A m \in Modules : m \in FrontSide <=> m < FrontModules
    /\ \A m \in Modules : m \in BackSide <=> m >= FrontModules
  BY SimulationAssumption DEF Modules, FrontSide, BackSide

\* What the fields of a particle's hits are.
LEMMA ParticleHits ==
    ASSUME NEW e \in Particles, NEW n \in Nat \ {0}
    PROVE  /\ Hits(e, n) = <<FrontOf(e, n), BackOf(e, n)>>
           /\ FrontOf(e, n) \in HitSet /\ BackOf(e, n) \in HitSet
           /\ FrontOf(e, n).slot - 2 \in FrontSide /\ BackOf(e, n).slot - 2 \in BackSide
           /\ FrontStrip(FrontOf(e, n)) = e.x /\ BackStrip(BackOf(e, n)) = e.y
           /\ FrontOf(e, n).time = e.time /\ BackOf(e, n).time = e.time
           /\ FrontOf(e, n).peak = e.peak /\ BackOf(e, n).peak = e.peak
           /\ FrontOf(e, n).event = n /\ BackOf(e, n).event = n
<1>. DEFINE x == e.x \div Channels
            y == e.y \div Channels
            u == e.x % Channels
            v == e.y % Channels
            f == FrontOf(e, n)
            b == BackOf(e, n)
<1>1. /\ e.x \in 0 .. FrontModules * Channels - 1 /\ e.y \in 0 .. BackModules * Channels - 1
      /\ e.peak \in 0 .. 2 /\ e.time \in Nat
  BY DEF Particles
<1>2. x \in 0 .. FrontModules - 1 /\ u \in 0 .. Channels - 1 /\ x * Channels + u = e.x
  BY <1>1, ModuleTypes, StripOfModule
<1>3. y \in 0 .. BackModules - 1 /\ v \in 0 .. Channels - 1 /\ y * Channels + v = e.y
  BY <1>1, ModuleTypes, StripOfModule
<1>4. /\ f.slot = x + 2 /\ f.channel = u /\ f.time = e.time /\ f.peak = e.peak /\ f.event = n
      /\ b.slot = FrontModules + y + 2 /\ b.channel = v /\ b.time = e.time /\ b.peak = e.peak
      /\ b.event = n
  BY DEF FrontOf, BackOf, FillBinaryEvent
<1>5. Hits(e, n) = <<f, b>>
  BY DEF FrontOf, BackOf, Hits
<1>6. /\ f = [slot |-> x + 2, channel |-> u, time |-> e.time, peak |-> e.peak, event |-> n]
      /\ b = [slot |-> FrontModules + y + 2, channel |-> v, time |-> e.time, peak |-> e.peak,
              event |-> n]
  BY DEF FrontOf, BackOf, FillBinaryEvent
<1>. HIDE DEF x, y, u, v
<1>7. x \in Modules /\ x \in FrontSide /\ FrontModules + y \in Modules /\ FrontModules + y \in BackSide
  BY <1>2, <1>3, SimulationAssumption DEF Modules, FrontSide, BackSide
<1>8. f \in HitSet /\ b \in HitSet
  <2>1. x + 2 \in {m + 2 : m \in Modules} /\ FrontModules + y + 2 \in {m + 2 : m \in Modules}
    BY <1>7
  <2>2. u \in Nat /\ v \in Nat
    BY <1>2, <1>3, ModuleTypes
  <2>. QED
    BY <1>1, <1>6, <2>1, <2>2 DEF HitSet
<1>. HIDE DEF f, b
<1>9. f.slot - 2 = x /\ b.slot - 2 = FrontModules + y
  BY <1>2, <1>3, <1>4, ModuleTypes
<1>10. FrontStrip(f) = e.x /\ BackStrip(b) = e.y
  <2>1. FrontModules + y - FrontModules = y
    BY <1>3, ModuleTypes
  <2>2. FrontStrip(f) = (f.slot - 2) * Channels + f.channel
    BY DEF FrontStrip, DecodedModule
  <2>3. BackStrip(b) = (b.slot - 2 - FrontModules) * Channels + b.channel
    BY DEF BackStrip, DecodedModule
  <2>4. FrontStrip(f) = e.x
    BY <1>2, <1>4, <1>9, <2>2
  <2>5. BackStrip(b) = e.y
    <3>1. b.slot - 2 - FrontModules = y
      BY <1>3, <1>4, ModuleTypes
    <3>2. BackStrip(b) = y * Channels + v
      BY <1>4, <2>3, <3>1
    <3>. QED
      BY <1>3, <3>2
  <2>. QED
    BY <2>4, <2>5
<1>. QED
  BY <1>4, <1>5, <1>7, <1>8, <1>9, <1>10 DEF f, b

------------------------------------------------------------------------------
(* The state of the publisher.                                              *)

Published == [id: Nat, hits: Seq(HitSet)]

Types ==
    /\ pc \in {"event", "store", "publish", "crashed", "stopped"}
    /\ events \in Seq(Particles)
    /\ allocated \in SUBSET Modules
    /\ packet \in [Modules -> Seq(HitSet)]
    /\ module \in Nat /\ packet_id \in Nat
    /\ published \in [Modules -> Seq(Published)]

\* Time does not go back, and the hits that wait are those of the last particle.
LastParticle ==
    LET n == Len(events) IN
    /\ \A i, j \in 1 .. n : i <= j => events[i].time <= events[j].time
    /\ pc \in {"event", "stopped"} => pending = <<>>
    /\ pc \in {"store", "publish"} =>
          /\ n > 0
          /\ pending \in {<<FrontOf(events[n], n), BackOf(events[n], n)>>,
                          <<BackOf(events[n], n)>>}

\* A pass publishes the packets under the number of the passes before it.
Turn ==
    /\ \A m \in Modules : m \notin allocated => packet[m] = <<>>
    /\ pc \in {"event", "store", "stopped"} => \A m \in Modules : Len(published[m]) = packet_id
    /\ pc = "publish" =>
          /\ module \in Modules
          /\ \A m \in Modules :
                /\ m < module => Len(published[m]) = packet_id + 1 /\ packet[m] = <<>>
                /\ m >= module => Len(published[m]) = packet_id
    /\ \A m \in Modules : \A k \in 1 .. Len(published[m]) : published[m][k].id = k - 1

PublisherInv == Types /\ LastParticle /\ Turn

LEMMA PublisherInit == Init => PublisherInv
<1>. SUFFICES ASSUME Init PROVE PublisherInv
  OBVIOUS
<1>1. Types
  BY DEF Init, SimulationInit, Types
<1>2. LastParticle
  BY DEF Init, SimulationInit, LastParticle
<1>3. Turn
  BY DEF Init, SimulationInit, Turn
<1>. QED
  BY <1>1, <1>2, <1>3 DEF PublisherInv

\* The hits that wait, and the module of the first of them.
LEMMA PendingHits ==
    ASSUME PublisherInv, pc \in {"store", "publish"}
    PROVE  LET n == Len(events) IN
           /\ n \in Nat \ {0} /\ n \in 1 .. n /\ events[n] \in Particles
           /\ FrontOf(events[n], n) \in HitSet /\ BackOf(events[n], n) \in HitSet
           /\ pending \in Seq(HitSet) /\ Len(pending) \in {1, 2}
           /\ Head(pending) \in HitSet /\ Target \in Modules
           /\ Len(pending) = 2 => /\ pending = <<FrontOf(events[n], n), BackOf(events[n], n)>>
                                  /\ Head(pending) = FrontOf(events[n], n)
                                  /\ Tail(pending) = <<BackOf(events[n], n)>>
                                  /\ Target \in FrontSide
           /\ Len(pending) = 1 => /\ pending = <<BackOf(events[n], n)>>
                                  /\ Head(pending) = BackOf(events[n], n)
                                  /\ Tail(pending) = <<>>
                                  /\ Target \in BackSide
<1>. DEFINE n == Len(events)
            f == FrontOf(events[n], n)
            b == BackOf(events[n], n)
<1>1. n \in Nat \ {0} /\ n \in 1 .. n /\ events[n] \in Particles
  BY DEF PublisherInv, Types, LastParticle
<1>2. /\ f \in HitSet /\ b \in HitSet
      /\ f.slot - 2 \in FrontSide /\ b.slot - 2 \in BackSide
  BY <1>1, ParticleHits
<1>3. pending \in {<<f, b>>, <<b>>}
  BY DEF PublisherInv, LastParticle
<1>. HIDE DEF f, b
<1>4. CASE pending = <<f, b>>
  <2>1. Len(pending) = 2 /\ Head(pending) = f /\ Tail(pending) = <<b>> /\ pending \in Seq(HitSet)
    BY <1>2, <1>4
  <2>2. Target \in FrontSide
    BY <1>2, <2>1 DEF Target
  <2>. QED
    BY <1>1, <1>2, <1>4, <2>1, <2>2, ModuleTypes DEF f, b
<1>5. CASE pending = <<b>>
  <2>1. Len(pending) = 1 /\ Head(pending) = b /\ Tail(pending) = <<>> /\ pending \in Seq(HitSet)
    BY <1>2, <1>5
  <2>2. Target \in BackSide
    BY <1>2, <2>1 DEF Target
  <2>. QED
    BY <1>1, <1>2, <1>5, <2>1, <2>2, ModuleTypes DEF f, b
<1>. QED
  BY <1>3, <1>4, <1>5

\* One step of the publisher keeps it so.
LEMMA GenerateEventKeeps ==
    ASSUME PublisherInv, GenerateEvent
    PROVE  /\ PublisherInv'
           /\ \E e \in Particles : /\ events' = Append(events, e)
                                   /\ pending' = Hits(e, Len(events) + 1)
<1>. DEFINE n == Len(events)
<1>1. /\ pc = "event" /\ pc' = "store" /\ events \in Seq(Particles) /\ n \in Nat
      /\ UNCHANGED <<allocated, packet, module, packet_id, published>>
  BY DEF GenerateEvent, PublisherInv, Types
<1>2. Now \in Nat /\ \A i \in 1 .. n : events[i].time <= Now
  <2>1. CASE n = 0
    <3>1. events = <<>>
      BY <1>1, <2>1
    <3>. QED
      BY <2>1, <3>1 DEF Now
  <2>2. CASE n # 0
    <3>1. events # <<>> /\ n \in 1 .. n /\ Now = events[n].time
      BY <1>1, <2>2 DEF Now, Last
    <3>2. events[n] \in Particles
      BY <1>1, <3>1
    <3>3. \A i \in 1 .. n : i <= n => events[i].time <= events[n].time
      BY <3>1 DEF PublisherInv, LastParticle
    <3>. QED
      BY <1>1, <3>1, <3>2, <3>3 DEF Particles
  <2>. QED
    BY <2>1, <2>2
<1>3. PICK s \in Shots, interval \in 0 .. 1 :
         LET e == [x |-> s.x, y |-> s.y, peak |-> s.peak, time |-> Now + interval] IN
         /\ events' = Append(events, e)
         /\ pending' = Hits(e, Len(events'))
  BY DEF GenerateEvent
<1>. DEFINE e == [x |-> s.x, y |-> s.y, peak |-> s.peak, time |-> Now + interval]
<1>4. e \in Particles /\ e.time >= Now
  <2>1. /\ s.x \in 0 .. FrontModules * Channels - 1 /\ s.y \in 0 .. BackModules * Channels - 1
        /\ s.peak \in 0 .. 2
    BY SimulationAssumption
  <2>2. Now + interval \in Nat /\ Now + interval >= Now
    BY <1>2
  <2>. QED
    BY <2>1, <2>2 DEF Particles
<1>5. events' = Append(events, e) /\ pending' = Hits(e, Len(events'))
  BY <1>3
<1>. HIDE DEF e
<1>6. /\ Len(events') = n + 1 /\ events' \in Seq(Particles) /\ events'[n + 1] = e
      /\ \A i \in 1 .. n : events'[i] = events[i]
  BY <1>1, <1>4, <1>5
<1>7. pending' = <<FrontOf(e, n + 1), BackOf(e, n + 1)>>
  <2>1. n + 1 \in Nat \ {0}
    BY <1>1
  <2>. QED
    BY <1>4, <1>5, <1>6, <2>1, ParticleHits
<1>8. Types'
  BY <1>1, <1>6 DEF PublisherInv, Types
<1>9. LastParticle'
  <2>1. ASSUME NEW i \in 1 .. n + 1, NEW j \in 1 .. n + 1, i <= j
        PROVE  events'[i].time <= events'[j].time
    <3>1. CASE j \in 1 .. n
      <4>1. i \in 1 .. n
        BY <1>1, <2>1, <3>1
      <4>. QED
        BY <1>6, <2>1, <3>1, <4>1 DEF PublisherInv, LastParticle
    <3>2. CASE j = n + 1
      <4>1. CASE i = n + 1
        <5>1. e.time \in Nat
          BY <1>4 DEF Particles
        <5>. QED
          BY <1>6, <3>2, <4>1, <5>1
      <4>2. CASE i \in 1 .. n
        <5>1. events[i].time <= Now /\ events[i] \in Particles
          BY <1>1, <1>2, <4>2
        <5>2. events[i].time \in Nat /\ e.time \in Nat
          BY <1>4, <5>1 DEF Particles
        <5>. QED
          BY <1>2, <1>4, <1>6, <3>2, <4>2, <5>1, <5>2
      <4>. QED
        BY <1>1, <4>1, <4>2
    <3>. QED
      BY <1>1, <3>1, <3>2
  <2>. QED
    BY <1>1, <1>6, <1>7, <2>1 DEF LastParticle
<1>10. Turn'
  BY <1>1 DEF PublisherInv, Turn
<1>. QED
  BY <1>4, <1>5, <1>6, <1>8, <1>9, <1>10 DEF PublisherInv

LEMMA FirstPayloadKeeps ==
    ASSUME PublisherInv, FirstPayload
    PROVE  /\ PublisherInv'
           /\ UNCHANGED <<events, pending, packet_id, published>>
           /\ \/ pc' = "crashed" /\ packet' = packet
              \/ pc' = "store" /\ packet' = [packet EXCEPT ![Target] = <<>>]
           /\ pc = "store" /\ packet[Target] = <<>>
<1>1. pc = "store" /\ Target \notin allocated
      /\ UNCHANGED <<events, pending, module, packet_id, published>>
  BY DEF FirstPayload
<1>2. Target \in Modules
  BY <1>1, PendingHits
<1>3. packet[Target] = <<>>
  BY <1>1, <1>2 DEF PublisherInv, Turn
<1>4. CASE pc' = "crashed" /\ UNCHANGED <<allocated, packet>>
  <2>1. Types' /\ LastParticle' /\ Turn'
    BY <1>1, <1>4 DEF PublisherInv, Types, LastParticle, Turn
  <2>. QED
    BY <1>1, <1>3, <1>4, <2>1 DEF PublisherInv
<1>5. CASE /\ allocated' = allocated \cup {Target}
           /\ packet' = [packet EXCEPT ![Target] = EmptyPacket(Target)]
           /\ pc' = "store"
  <2>1. packet' = [packet EXCEPT ![Target] = <<>>]
    BY <1>5 DEF EmptyPacket
  <2>2. packet \in [Modules -> Seq(HitSet)] /\ packet' \in [Modules -> Seq(HitSet)]
    <3>1. packet \in [Modules -> Seq(HitSet)] /\ <<>> \in Seq(HitSet)
      BY DEF PublisherInv, Types
    <3>. QED
      BY <2>1, <3>1
  <2>3. Types'
    BY <1>1, <1>2, <1>5, <2>2 DEF PublisherInv, Types
  <2>4. LastParticle'
    BY <1>1, <1>5 DEF PublisherInv, LastParticle
  <2>5. \A m \in Modules : m \notin allocated' => packet'[m] = <<>>
    BY <1>5, <2>1, <2>2 DEF PublisherInv, Turn
  <2>6. Turn'
    BY <1>1, <1>5, <2>5 DEF PublisherInv, Turn
  <2>. QED
    BY <1>1, <1>3, <1>5, <2>1, <2>3, <2>4, <2>6 DEF PublisherInv
<1>. QED
  BY <1>4, <1>5 DEF FirstPayload, AllocatePayload

LEMMA StoreHitKeeps ==
    ASSUME PublisherInv, StoreHit
    PROVE  /\ PublisherInv'
           /\ UNCHANGED <<events, packet_id, published>>
           /\ pc = "store" /\ Target \in Modules
           /\ \/ /\ pc' = "publish" /\ packet[Target] # <<>>
                 /\ UNCHANGED <<packet, pending>>
              \/ /\ packet' = [packet EXCEPT ![Target] = Append(@, Head(pending))]
                 /\ pending' = Tail(pending)
                 /\ pc' = IF Len(pending) = 1 THEN "event" ELSE "store"
<1>. DEFINE n == Len(events)
            f == FrontOf(events[n], n)
            b == BackOf(events[n], n)
<1>1. /\ pc = "store" /\ Target \in allocated
      /\ UNCHANGED <<events, allocated, packet_id, published>>
  BY DEF StoreHit
<1>2. /\ n \in Nat \ {0} /\ Target \in Modules /\ Head(pending) \in HitSet
      /\ Len(pending) \in {1, 2}
      /\ Len(pending) = 2 => Tail(pending) = <<b>>
      /\ Len(pending) = 1 => Tail(pending) = <<>>
  BY <1>1, PendingHits
<1>3. packet \in [Modules -> Seq(HitSet)] /\ packet[Target] \in Seq(HitSet)
  BY <1>2 DEF PublisherInv, Types
<1>4. CASE Full(Target)
  <2>1. pc' = "publish" /\ module' = 0 /\ UNCHANGED <<packet, pending>>
    BY <1>4 DEF StoreHit
  <2>2. packet[Target] # <<>>
    <3>1. PacketHits \in Nat \ {0} /\ Len(packet[Target]) + 1 > PacketHits
      BY <1>4, SimulationAssumption DEF Full
    <3>. QED
      BY <1>3, <3>1
  <2>3. Types'
    BY <1>1, <2>1 DEF PublisherInv, Types
  <2>4. LastParticle'
    BY <1>1, <2>1 DEF PublisherInv, LastParticle
  <2>5. module' \in Modules
    BY <2>1, SimulationAssumption DEF Modules
  <2>6. \A m \in Modules : ~(m < module') /\ Len(published[m]) = packet_id
    <3>1. \A m \in Modules : m \in Nat
      BY ModuleTypes
    <3>. QED
      BY <1>1, <2>1, <3>1 DEF PublisherInv, Turn
  <2>7. Turn'
    BY <1>1, <2>1, <2>5, <2>6 DEF PublisherInv, Turn
  <2>. QED
    BY <1>1, <1>2, <2>1, <2>2, <2>3, <2>4, <2>7 DEF PublisherInv
<1>5. CASE ~Full(Target)
  <2>1. /\ packet' = [packet EXCEPT ![Target] = Append(@, Head(pending))]
        /\ pending' = Tail(pending)
        /\ pc' = IF Len(pending) = 1 THEN "event" ELSE "store"
        /\ UNCHANGED module
    BY <1>5 DEF StoreHit
  <2>2. packet' \in [Modules -> Seq(HitSet)] /\ \A m \in Modules : m # Target => packet'[m] = packet[m]
    <3>1. Append(packet[Target], Head(pending)) \in Seq(HitSet)
      BY <1>2, <1>3
    <3>. QED
      BY <1>3, <2>1, <3>1
  <2>3. Types'
    BY <1>1, <2>1, <2>2 DEF PublisherInv, Types
  <2>4. LastParticle'
    BY <1>1, <1>2, <2>1 DEF PublisherInv, LastParticle
  <2>5. Turn'
    BY <1>1, <2>1, <2>2 DEF PublisherInv, Turn
  <2>. QED
    BY <1>1, <1>2, <2>1, <2>3, <2>4, <2>5 DEF PublisherInv
<1>. QED
  BY <1>4, <1>5

LEMMA PublishPacketKeeps ==
    ASSUME PublisherInv, PublishPacket
    PROVE  /\ PublisherInv'
           /\ UNCHANGED <<events, pending>>
           /\ pc = "publish" /\ module \in Modules
           /\ \/ pc' = "crashed" /\ UNCHANGED <<packet, published>>
              \/ /\ published' = [published EXCEPT
                                     ![module] = Append(@, [id |-> packet_id,
                                                            hits |-> packet[module]])]
                 /\ \/ pc' = "crashed" /\ packet' = packet
                    \/ /\ packet' = [packet EXCEPT ![module] = <<>>]
                       /\ \/ pc' = "publish" /\ packet_id' = packet_id
                          \/ /\ pc' = "store" /\ packet_id' = packet_id + 1
                             /\ \A m \in Modules : packet'[m] = <<>>
<1>. DEFINE x == [id |-> packet_id, hits |-> packet[module]]
<1>1. pc = "publish" /\ module' = module + 1 /\ UNCHANGED <<events, pending>>
  BY DEF PublishPacket
<1>2. /\ module \in Modules /\ module \in Nat /\ packet_id \in Nat
      /\ \A m \in Modules :
            /\ m < module => Len(published[m]) = packet_id + 1 /\ packet[m] = <<>>
            /\ m >= module => Len(published[m]) = packet_id
      /\ \A m \in Modules : m \notin allocated => packet[m] = <<>>
      /\ \A m \in Modules : \A k \in 1 .. Len(published[m]) : published[m][k].id = k - 1
  BY <1>1 DEF PublisherInv, Turn, Types
<1>3. /\ packet \in [Modules -> Seq(HitSet)] /\ published \in [Modules -> Seq(Published)]
      /\ packet[module] \in Seq(HitSet) /\ published[module] \in Seq(Published)
      /\ Len(published[module]) = packet_id /\ allocated \subseteq Modules
  BY <1>2 DEF PublisherInv, Types
<1>4. CASE module \notin allocated
  <2>1. pc' = "crashed" /\ UNCHANGED <<allocated, packet, packet_id, published>>
    BY <1>4 DEF PublishPacket
  <2>2. Types' /\ LastParticle' /\ Turn'
    BY <1>1, <1>2, <2>1 DEF PublisherInv, Types, LastParticle, Turn
  <2>. QED
    BY <1>1, <1>2, <2>1, <2>2 DEF PublisherInv
<1>5. CASE module \in allocated
  <2>1. /\ published' = [published EXCEPT ![module] = Append(@, x)]
        /\ packet_id' = NextId
        /\ AllocatePayload(module, IF LastOne THEN "store" ELSE "publish")
    BY <1>5 DEF PublishPacket
  <2>2. packet_id' \in Nat
    BY <1>2, <2>1 DEF NextId
  <2>3. x \in Published
    BY <1>2, <1>3 DEF Published
  <2>4. /\ published' \in [Modules -> Seq(Published)]
        /\ \A m \in Modules : m # module => published'[m] = published[m]
        /\ published'[module] = Append(published[module], x)
    <3>1. Append(published[module], x) \in Seq(Published)
      BY <1>3, <2>3
    <3>. QED
      BY <1>2, <1>3, <2>1, <3>1
  <2>5. Len(published'[module]) = packet_id + 1
    BY <1>3, <2>3, <2>4
  <2>6. ASSUME NEW m \in Modules, NEW k \in 1 .. Len(published'[m])
        PROVE  published'[m][k].id = k - 1
    <3>1. CASE m # module
      BY <1>2, <2>4, <3>1
    <3>2. CASE m = module /\ k \in 1 .. packet_id
      <4>1. published'[module][k] = published[module][k]
        BY <1>3, <2>3, <2>4, <3>2
      <4>. QED
        BY <1>2, <1>3, <3>2, <4>1
    <3>3. CASE m = module /\ k = packet_id + 1
      <4>1. published'[module][k] = x
        BY <1>3, <2>3, <2>4, <3>3
      <4>. QED
        BY <1>2, <3>3, <4>1
    <3>. QED
      BY <1>2, <2>5, <2>6, <3>1, <3>2, <3>3
  <2>. HIDE DEF x
  <2>7. CASE pc' = "crashed" /\ UNCHANGED <<allocated, packet>>
    <3>1. Types'
      BY <1>1, <1>2, <2>2, <2>4, <2>7 DEF PublisherInv, Types
    <3>2. LastParticle' /\ Turn'
      BY <1>1, <1>2, <2>6, <2>7 DEF PublisherInv, LastParticle, Turn
    <3>. QED
      BY <1>1, <1>2, <2>1, <2>7, <3>1, <3>2 DEF PublisherInv, x
  <2>8. CASE /\ allocated' = allocated \cup {module}
             /\ packet' = [packet EXCEPT ![module] = EmptyPacket(module)]
             /\ pc' = IF LastOne THEN "store" ELSE "publish"
    <3>1. packet' = [packet EXCEPT ![module] = <<>>]
      BY <2>8 DEF EmptyPacket
    <3>2. /\ packet' \in [Modules -> Seq(HitSet)] /\ packet'[module] = <<>>
          /\ \A m \in Modules : m # module => packet'[m] = packet[m]
      <4>1. <<>> \in Seq(HitSet)
        OBVIOUS
      <4>. QED
        BY <1>2, <1>3, <3>1, <4>1
    <3>3. Types'
      BY <1>1, <1>2, <1>3, <2>2, <2>4, <2>8, <3>2 DEF PublisherInv, Types
    <3>4. LastParticle'
      BY <1>1, <2>8 DEF PublisherInv, LastParticle
    <3>5. \A m \in Modules : m \notin allocated' => packet'[m] = <<>>
      BY <1>2, <2>8, <3>2
    <3>6. \A m \in Modules : m <= module => Len(published'[m]) = packet_id + 1 /\ packet'[m] = <<>>
      <4>1. \A m \in Modules : m <= module => m < module \/ m = module
        BY <1>2, ModuleTypes
      <4>. QED
        BY <1>2, <2>4, <2>5, <3>2, <4>1
    <3>7. CASE LastOne
      <4>1. pc' = "store" /\ packet_id' = packet_id + 1
        BY <2>1, <2>8, <3>7 DEF NextId
      <4>2. \A m \in Modules : m <= module
        BY <3>7, SimulationAssumption DEF LastOne, Modules
      <4>3. Turn'
        BY <2>6, <3>5, <3>6, <4>1, <4>2 DEF Turn
      <4>. QED
        BY <1>1, <1>2, <2>1, <3>1, <3>3, <3>4, <3>6, <4>1, <4>2, <4>3 DEF PublisherInv, x
    <3>8. CASE ~LastOne
      <4>1. pc' = "publish" /\ packet_id' = packet_id
        BY <2>1, <2>8, <3>8 DEF NextId
      <4>2. module' \in Modules
        BY <1>1, <1>2, <3>8, SimulationAssumption DEF LastOne, Modules
      <4>3. \A m \in Modules : /\ m < module' => m <= module
                               /\ m >= module' => m >= module /\ m # module
        <5>1. \A m \in Modules : m \in Nat
          BY ModuleTypes
        <5>. QED
          BY <1>1, <1>2, <5>1
      <4>4. \A m \in Modules : m >= module' => Len(published'[m]) = packet_id
        BY <1>2, <2>4, <4>3
      <4>5. Turn'
        BY <2>6, <3>5, <3>6, <4>1, <4>2, <4>3, <4>4 DEF Turn
      <4>. QED
        BY <1>1, <1>2, <2>1, <3>1, <3>3, <3>4, <4>1, <4>5 DEF PublisherInv, x
    <3>. QED
      BY <3>7, <3>8
  <2>. QED
    BY <2>1, <2>7, <2>8 DEF AllocatePayload
<1>. QED
  BY <1>4, <1>5

------------------------------------------------------------------------------
(* What the packets hold.  The position of a packet is its place in the     *)
(* sequence that its module publishes.                                      *)

Positions == Nat \ {0}

\* The packet at position k of module m, published or under construction; what was
\* under construction is lost with the program.
Packet(m, k) ==
    IF k <= Len(published[m]) THEN published[m][k].hits
    ELSE IF k = Len(published[m]) + 1 /\ pc # "crashed" THEN packet[m]
    ELSE <<>>

Holds(m, k) == Elements(Packet(m, k))

\* What the analysis does not touch.
LEMMA OnlineKeepsPackets ==
    ASSUME UNCHANGED simulationVars
    PROVE  PublisherInv => PublisherInv' /\ \A m \in Modules, k \in Positions : Holds(m, k)' = Holds(m, k)
  BY DEF simulationVars, PublisherInv, Types, LastParticle, Turn, Holds, Packet

\* Unless a hit is stored, nothing comes into a packet.
LEMMA SamePackets ==
    ASSUME published' = published, pc' # "crashed" => pc # "crashed" /\ packet' = packet
    PROVE  \A m \in Modules, k \in Positions : Holds(m, k)' \subseteq Holds(m, k)
<1>. SUFFICES ASSUME NEW m \in Modules, NEW k \in Positions
              PROVE  Holds(m, k)' \subseteq Holds(m, k)
  OBVIOUS
<1>1. Packet(m, k)' = Packet(m, k) \/ Packet(m, k)' = <<>>
  BY DEF Packet
<1>2. CASE Packet(m, k)' = Packet(m, k)
  BY <1>2 DEF Holds
<1>3. CASE Packet(m, k)' = <<>>
  BY <1>3, ElementsEmpty DEF Holds
<1>. QED
  BY <1>1, <1>2, <1>3

\* Publishing a packet leaves it where it is.
LEMMA PublishedPackets ==
    ASSUME PublisherInv, PublishPacket
    PROVE  \A m \in Modules, k \in Positions : Holds(m, k)' \subseteq Holds(m, k)
<1>. DEFINE x == [id |-> packet_id, hits |-> packet[module]]
            q == published[module]
<1>1. /\ pc = "publish" /\ module \in Modules
      /\ \/ pc' = "crashed" /\ UNCHANGED <<packet, published>>
         \/ /\ published' = [published EXCEPT ![module] = Append(@, x)]
            /\ \/ pc' = "crashed" /\ packet' = packet
               \/ /\ packet' = [packet EXCEPT ![module] = <<>>]
                  /\ pc' \in {"store", "publish"}
  BY PublishPacketKeeps
<1>2. CASE pc' = "crashed" /\ UNCHANGED <<packet, published>>
  BY <1>1, <1>2, SamePackets
<1>3. CASE /\ published' = [published EXCEPT ![module] = Append(@, x)]
           /\ \/ pc' = "crashed" /\ packet' = packet
              \/ /\ packet' = [packet EXCEPT ![module] = <<>>]
                 /\ pc' \in {"store", "publish"}
  <2>. SUFFICES ASSUME NEW m \in Modules, NEW k \in Positions
                PROVE  Holds(m, k)' \subseteq Holds(m, k)
    OBVIOUS
  <2>1. /\ packet \in [Modules -> Seq(HitSet)] /\ published \in [Modules -> Seq(Published)]
        /\ q \in Seq(Published) /\ Len(q) \in Nat
    BY <1>1 DEF PublisherInv, Types
  <2>2. x \in Published
    <3>1. packet[module] \in Seq(HitSet) /\ packet_id \in Nat
      BY <1>1, <2>1 DEF PublisherInv, Types
    <3>. QED
      BY <3>1 DEF Published
  <2>3. x.hits = packet[module]
    OBVIOUS
  <2>. HIDE DEF x
  <2>4. /\ published'[module] = Append(q, x)
        /\ \A i \in Modules : i # module => published'[i] = published[i]
        /\ pc' # "crashed" => packet'[module] = <<>>
                              /\ \A i \in Modules : i # module => packet'[i] = packet[i]
    BY <1>1, <1>3, <2>1
  <2>5. CASE m # module
    <3>1. Packet(m, k)' = Packet(m, k) \/ Packet(m, k)' = <<>>
      BY <1>1, <2>4, <2>5 DEF Packet
    <3>. QED
      BY <3>1, ElementsEmpty DEF Holds
  <2>6. CASE m = module
    <3>1. /\ Len(Append(q, x)) = Len(q) + 1 /\ Append(q, x)[Len(q) + 1] = x
          /\ \A i \in 1 .. Len(q) : Append(q, x)[i] = q[i]
      BY <2>1, <2>2
    <3>2. Packet(m, k) = IF k <= Len(q) THEN q[k].hits
                         ELSE IF k = Len(q) + 1 THEN packet[module] ELSE <<>>
      BY <1>1, <2>6 DEF Packet
    <3>3. Packet(m, k)' = IF k <= Len(q) + 1 THEN Append(q, x)[k].hits ELSE <<>>
      BY <2>4, <2>6, <3>1 DEF Packet
    <3>4. k \in 1 .. Len(q) \/ k = Len(q) + 1 \/ ~(k <= Len(q) + 1)
      BY <2>1 DEF Positions
    <3>5. Packet(m, k)' = Packet(m, k)
      <4>1. CASE k \in 1 .. Len(q)
        BY <2>1, <3>1, <3>2, <3>3, <4>1
      <4>2. CASE k = Len(q) + 1
        BY <2>1, <2>3, <3>1, <3>2, <3>3, <4>2
      <4>3. CASE ~(k <= Len(q) + 1)
        BY <2>1, <3>2, <3>3, <4>3 DEF Positions
      <4>. QED
        BY <3>4, <4>1, <4>2, <4>3
    <3>. QED
      BY <3>5 DEF Holds
  <2>. QED
    BY <2>5, <2>6
<1>. QED
  BY <1>1, <1>2, <1>3

\* The hit that is stored is the only one that comes into a packet.
LEMMA StoredHit ==
    ASSUME PublisherInv, pc = "store", Target \in Modules, published' = published,
           packet' = [packet EXCEPT ![Target] = Append(@, Head(pending))],
           pc' # "crashed"
    PROVE  \A m \in Modules, k \in Positions :
              /\ Holds(m, k)' \subseteq Holds(m, k) \cup {Head(pending)}
              /\ m # Target \/ k # packet_id + 1 => Holds(m, k)' = Holds(m, k)
<1>. SUFFICES ASSUME NEW m \in Modules, NEW k \in Positions
              PROVE  /\ Holds(m, k)' \subseteq Holds(m, k) \cup {Head(pending)}
                     /\ m # Target \/ k # packet_id + 1 => Holds(m, k)' = Holds(m, k)
  OBVIOUS
<1>1. /\ packet \in [Modules -> Seq(HitSet)] /\ packet[Target] \in Seq(HitSet)
      /\ Head(pending) \in HitSet /\ packet_id \in Nat
      /\ Len(published[m]) = packet_id
  BY PendingHits DEF PublisherInv, Types, Turn
<1>2. /\ packet'[Target] = Append(packet[Target], Head(pending))
      /\ m # Target => packet'[m] = packet[m]
  BY <1>1
<1>3. CASE m # Target \/ k # packet_id + 1
  <2>1. Packet(m, k)' = Packet(m, k)
    BY <1>1, <1>2, <1>3 DEF Packet
  <2>. QED
    BY <2>1 DEF Holds
<1>4. CASE m = Target /\ k = packet_id + 1
  <2>1. ~(k <= Len(published[m]))
    BY <1>1, <1>4
  <2>2. Packet(m, k) = packet[Target] /\ Packet(m, k)' = Append(packet[Target], Head(pending))
    BY <1>1, <1>2, <1>4, <2>1 DEF Packet
  <2>. QED
    <3>1. Elements(Append(packet[Target], Head(pending))) = Elements(packet[Target]) \cup {Head(pending)}
      BY <1>1, ElementsAppend
    <3>2. Holds(m, k)' = Holds(m, k) \cup {Head(pending)}
      BY <2>2, <3>1 DEF Holds
    <3>. QED
      BY <1>4, <3>2
<1>. QED
  BY <1>3, <1>4

\* Before a hit is stored, the packets behind those under construction are empty.
LEMMA NothingBehind ==
    ASSUME PublisherInv, pc = "store"
    PROVE  \A m \in Modules, k \in Positions : k > packet_id + 1 => Holds(m, k) = {}
<1>. SUFFICES ASSUME NEW m \in Modules, NEW k \in Positions, k > packet_id + 1
              PROVE  Holds(m, k) = {}
  OBVIOUS
<1>1. Len(published[m]) = packet_id /\ packet_id \in Nat
  BY DEF PublisherInv, Types, Turn
<1>2. Packet(m, k) = <<>>
  BY <1>1 DEF Packet, Positions
<1>. QED
  BY <1>2, ElementsEmpty DEF Holds

------------------------------------------------------------------------------
(* Where the hits of the particles are.                                     *)

\* The hit that module m got of particle i.
HitOf(m, i) == IF m \in FrontSide THEN FrontOf(events[i], i) ELSE BackOf(events[i], i)

HitsTrue ==
    \A m \in Modules, k \in Positions : \A h \in Holds(m, k) :
        /\ h.event \in 1 .. Len(events) /\ h = HitOf(m, h.event)
        /\ h.slot - 2 = m

\* Later packets hold later particles, whichever modules they are from.
InOrder ==
    \A m1, m2 \in Modules, k1, k2 \in Positions : k1 < k2 =>
        \A h1 \in Holds(m1, k1), h2 \in Holds(m2, k2) : h1.event <= h2.event

\* No packet holds a hit of a particle before its front hit is stored, ...
Fresh ==
    pc \in {"store", "publish"} /\ Len(pending) = 2 =>
        \A m \in Modules, k \in Positions : \A h \in Holds(m, k) : h.event < Len(events)

\* ... and while its back hit waits, the front hit is in a packet under construction,
\* or in one that was published and after which the packets are empty.
FrontStored ==
    pc \in {"store", "publish"} /\ Len(pending) = 1 =>
        \A m \in FrontSide, k \in Positions : \A h \in Holds(m, k) :
            h.event = Len(events) =>
                \/ k = packet_id + 1
                \/ pc = "store" /\ k = packet_id /\ \A i \in Modules : packet[i] = <<>>

Torn ==
    \A m1 \in FrontSide, m2 \in BackSide, k1, k2 \in Positions :
        \A h1 \in Holds(m1, k1), h2 \in Holds(m2, k2) :
            h1.event = h2.event => k2 \in {k1, k1 + 1}

PacketsInv == HitsTrue /\ InOrder /\ Fresh /\ FrontStored /\ Torn

LEMMA NoPackets ==
    ASSUME Init
    PROVE  PacketsInv
<1>1. ASSUME NEW m \in Modules, NEW k \in Positions PROVE Holds(m, k) = {}
  <2>1. Packet(m, k) = <<>>
    BY DEF Init, SimulationInit, Packet, Positions
  <2>. QED
    BY <2>1, ElementsEmpty DEF Holds
<1>2. FrontSide \subseteq Modules /\ BackSide \subseteq Modules
  BY ModuleTypes
<1>3. pc = "event"
  BY DEF Init, SimulationInit
<1>. QED
  BY <1>1, <1>2, <1>3 DEF PacketsInv, HitsTrue, InOrder, Fresh, FrontStored, Torn

\* A step after which the packets hold no more than before.
LEMMA HoldLess ==
    ASSUME PublisherInv, PacketsInv, events' = events,
           \A m \in Modules, k \in Positions : Holds(m, k)' \subseteq Holds(m, k)
    PROVE  HitsTrue' /\ InOrder' /\ Torn'
<1>1. HitsTrue'
  <2>1. \A m \in Modules, i \in 1 .. Len(events) : HitOf(m, i)' = HitOf(m, i)
    BY DEF HitOf
  <2>. QED
    BY <2>1 DEF PacketsInv, HitsTrue
<1>2. InOrder'
  BY DEF PacketsInv, InOrder
<1>3. Torn'
  <2>1. FrontSide \subseteq Modules /\ BackSide \subseteq Modules
    BY ModuleTypes
  <2>. QED
    BY <2>1 DEF PacketsInv, Torn
<1>. QED
  BY <1>1, <1>2, <1>3

LEMMA GenerateEventPackets ==
    ASSUME PublisherInv, PacketsInv, GenerateEvent
    PROVE  PacketsInv'
<1>. DEFINE n == Len(events)
<1>1. PICK e \in Particles : /\ events' = Append(events, e)
                             /\ pending' = Hits(e, n + 1)
  BY GenerateEventKeeps
<1>2. /\ pc = "event" /\ pc' = "store" /\ events \in Seq(Particles) /\ n \in Nat
      /\ UNCHANGED <<allocated, packet, module, packet_id, published>>
  BY DEF GenerateEvent, PublisherInv, Types
<1>3. \A m \in Modules, k \in Positions : Holds(m, k)' \subseteq Holds(m, k)
  BY <1>2, SamePackets
<1>4. Len(events') = n + 1 /\ \A i \in 1 .. n : events'[i] = events[i]
  BY <1>1, <1>2
<1>5. HitsTrue'
  <2>. SUFFICES ASSUME NEW m \in Modules, NEW k \in Positions, NEW h \in Holds(m, k)'
                PROVE  h.event \in 1 .. n + 1 /\ h = HitOf(m, h.event)' /\ h.slot - 2 = m
    BY <1>4 DEF HitsTrue
  <2>1. h.event \in 1 .. n /\ h = HitOf(m, h.event) /\ h.slot - 2 = m
    BY <1>3 DEF PacketsInv, HitsTrue
  <2>2. HitOf(m, h.event)' = HitOf(m, h.event)
    BY <1>4, <2>1 DEF HitOf
  <2>. QED
    BY <1>2, <2>1, <2>2
<1>6. InOrder'
  BY <1>3 DEF PacketsInv, InOrder
<1>7. Fresh'
  <2>1. ASSUME NEW m \in Modules, NEW k \in Positions, NEW h \in Holds(m, k)'
        PROVE  h.event < n + 1
    <3>1. h.event \in 1 .. n
      BY <1>3 DEF PacketsInv, HitsTrue
    <3>. QED
      BY <1>2, <3>1
  <2>. QED
    BY <1>4, <2>1 DEF Fresh
<1>8. FrontStored'
  <2>1. n + 1 \in Nat \ {0}
    BY <1>2
  <2>2. Len(pending') = 2
    BY <1>1, <2>1, ParticleHits
  <2>3. ~(Len(pending') = 1)
    BY <2>2
  <2>. QED
    BY <2>3 DEF FrontStored
<1>9. Torn'
  <2>1. FrontSide \subseteq Modules /\ BackSide \subseteq Modules
    BY ModuleTypes
  <2>. QED
    BY <1>3, <2>1 DEF PacketsInv, Torn
<1>. QED
  BY <1>5, <1>6, <1>7, <1>8, <1>9 DEF PacketsInv

LEMMA FirstPayloadPackets ==
    ASSUME PublisherInv, PacketsInv, FirstPayload
    PROVE  PacketsInv'
<1>1. /\ UNCHANGED <<events, pending, packet_id, published>>
      /\ pc = "store" /\ packet[Target] = <<>>
      /\ \/ pc' = "crashed" /\ packet' = packet
         \/ pc' = "store" /\ packet' = [packet EXCEPT ![Target] = <<>>]
  BY FirstPayloadKeeps
<1>2. packet' = packet
  <2>1. packet \in [Modules -> Seq(HitSet)]
    BY DEF PublisherInv, Types
  <2>. QED
    BY <1>1, <2>1
<1>3. \A m \in Modules, k \in Positions : Holds(m, k)' \subseteq Holds(m, k)
  BY <1>1, <1>2, SamePackets
<1>4. HitsTrue' /\ InOrder' /\ Torn'
  BY <1>1, <1>3, HoldLess
<1>5. Fresh'
  BY <1>1, <1>3 DEF PacketsInv, Fresh
<1>6. FrontStored'
  <2>. SUFFICES ASSUME pc' # "crashed", Len(pending) = 1, NEW m \in FrontSide, NEW k \in Positions,
                       NEW h \in Holds(m, k)', h.event = Len(events)
                PROVE  \/ k = packet_id + 1
                       \/ pc' = "store" /\ k = packet_id /\ \A i \in Modules : packet'[i] = <<>>
    BY <1>1 DEF FrontStored
  <2>1. h \in Holds(m, k)
    BY <1>3, ModuleTypes
  <2>2. k = packet_id + 1 \/ (k = packet_id /\ \A i \in Modules : packet[i] = <<>>)
    BY <1>1, <2>1 DEF PacketsInv, FrontStored
  <2>. QED
    BY <1>1, <1>2, <2>2
<1>. QED
  BY <1>4, <1>5, <1>6 DEF PacketsInv

LEMMA PublishPacketPackets ==
    ASSUME PublisherInv, PacketsInv, PublishPacket
    PROVE  PacketsInv'
<1>1. /\ UNCHANGED <<events, pending>> /\ pc = "publish"
      /\ \/ pc' = "crashed"
         \/ pc' = "publish" /\ packet_id' = packet_id
         \/ pc' = "store" /\ packet_id' = packet_id + 1 /\ \A m \in Modules : packet'[m] = <<>>
  BY PublishPacketKeeps
<1>2. \A m \in Modules, k \in Positions : Holds(m, k)' \subseteq Holds(m, k)
  BY PublishedPackets
<1>3. HitsTrue' /\ InOrder' /\ Torn'
  BY <1>1, <1>2, HoldLess
<1>4. Fresh'
  BY <1>1, <1>2 DEF PacketsInv, Fresh
<1>5. FrontStored'
  <2>. SUFFICES ASSUME pc' # "crashed", Len(pending) = 1, NEW m \in FrontSide, NEW k \in Positions,
                       NEW h \in Holds(m, k)', h.event = Len(events)
                PROVE  \/ k = packet_id' + 1
                       \/ pc' = "store" /\ k = packet_id' /\ \A i \in Modules : packet'[i] = <<>>
    BY <1>1 DEF FrontStored
  <2>1. h \in Holds(m, k)
    BY <1>2, ModuleTypes
  <2>2. k = packet_id + 1
    BY <1>1, <2>1 DEF PacketsInv, FrontStored
  <2>. QED
    BY <1>1, <2>2
<1>. QED
  BY <1>3, <1>4, <1>5 DEF PacketsInv

LEMMA StoreHitPackets ==
    ASSUME PublisherInv, PacketsInv, StoreHit
    PROVE  PacketsInv'
<1>. DEFINE n == Len(events)
            g == Head(pending)
            K == packet_id + 1
<1>1. /\ UNCHANGED <<events, packet_id, published>>
      /\ pc = "store" /\ Target \in Modules
      /\ \/ /\ pc' = "publish" /\ packet[Target] # <<>>
            /\ UNCHANGED <<packet, pending>>
         \/ /\ packet' = [packet EXCEPT ![Target] = Append(@, Head(pending))]
            /\ pending' = Tail(pending)
            /\ pc' = IF Len(pending) = 1 THEN "event" ELSE "store"
  BY StoreHitKeeps
<1>2. FrontSide \subseteq Modules /\ BackSide \subseteq Modules
  BY ModuleTypes
<1>3. CASE pc' = "publish" /\ packet[Target] # <<>> /\ UNCHANGED <<packet, pending>>
  <2>1. \A m \in Modules, k \in Positions : Holds(m, k)' \subseteq Holds(m, k)
    BY <1>1, <1>3, SamePackets
  <2>2. HitsTrue' /\ InOrder' /\ Torn'
    BY <1>1, <2>1, HoldLess
  <2>3. Fresh'
    BY <1>1, <1>3, <2>1 DEF PacketsInv, Fresh
  <2>4. FrontStored'
    BY <1>1, <1>2, <1>3, <2>1 DEF PacketsInv, FrontStored
  <2>. QED
    BY <2>2, <2>3, <2>4 DEF PacketsInv
<1>4. CASE /\ packet' = [packet EXCEPT ![Target] = Append(@, Head(pending))]
           /\ pending' = Tail(pending)
           /\ pc' = IF Len(pending) = 1 THEN "event" ELSE "store"
  <2>1. /\ n \in Nat \ {0} /\ n \in 1 .. n /\ Len(pending) \in {1, 2}
        /\ events[n] \in Particles /\ packet_id \in Nat
        /\ Len(pending) = 2 => /\ g = FrontOf(events[n], n) /\ Target \in FrontSide
                               /\ Tail(pending) = <<BackOf(events[n], n)>>
        /\ Len(pending) = 1 => g = BackOf(events[n], n) /\ Target \in BackSide
    BY <1>1, PendingHits DEF PublisherInv, Types
  <2>2. g.event = n /\ g = HitOf(Target, n)
    <3>1. FrontSide \cap BackSide = {}
      BY DEF BackSide
    <3>2. FrontOf(events[n], n).event = n /\ BackOf(events[n], n).event = n
      BY <2>1, ParticleHits
    <3>. QED
      BY <2>1, <3>1, <3>2 DEF HitOf
  <2>3. g.slot - 2 = Target
    BY DEF Target
  <2>. HIDE DEF g
  <2>4. \A m \in Modules, k \in Positions :
           /\ Holds(m, k)' \subseteq Holds(m, k) \cup {g}
           /\ m # Target \/ k # K => Holds(m, k)' = Holds(m, k)
    <3>1. pc' # "crashed"
      BY <1>4
    <3>. QED
      BY <1>1, <1>4, <3>1, StoredHit DEF g
  <2>5. \A m \in Modules, k \in Positions : k > K => Holds(m, k) = {}
    BY <1>1, NothingBehind
  <2>6. K \in Positions
    BY <2>1 DEF Positions
  <2>. HIDE DEF K
  <2>7. HitsTrue'
    <3>. SUFFICES ASSUME NEW m \in Modules, NEW k \in Positions, NEW h \in Holds(m, k)'
                  PROVE  h.event \in 1 .. n /\ h = HitOf(m, h.event) /\ h.slot - 2 = m
      BY <1>1 DEF HitsTrue, HitOf
    <3>1. CASE h \in Holds(m, k)
      BY <3>1 DEF PacketsInv, HitsTrue
    <3>2. CASE h \notin Holds(m, k)
      <4>1. h = g /\ m = Target
        BY <2>4, <3>2
      <4>. QED
        BY <2>1, <2>2, <2>3, <4>1
    <3>. QED
      BY <3>1, <3>2
  <2>8. InOrder'
    <3>. SUFFICES ASSUME NEW m1 \in Modules, NEW m2 \in Modules, NEW k1 \in Positions,
                         NEW k2 \in Positions, k1 < k2,
                         NEW h1 \in Holds(m1, k1)', NEW h2 \in Holds(m2, k2)'
                  PROVE  h1.event <= h2.event
      BY DEF InOrder
    <3>1. CASE h2 \notin Holds(m2, k2)
      <4>1. h2 = g
        BY <2>4, <3>1
      <4>2. h1.event \in 1 .. n
        BY <1>1, <2>7 DEF HitsTrue
      <4>. QED
        BY <2>1, <2>2, <4>1, <4>2
    <3>2. CASE h2 \in Holds(m2, k2)
      <4>1. ~(k2 > K)
        BY <2>5, <3>2
      <4>2. k1 # K
        BY <4>1
      <4>3. h1 \in Holds(m1, k1)
        BY <2>4, <4>2
      <4>. QED
        BY <3>2, <4>3 DEF PacketsInv, InOrder
    <3>. QED
      BY <3>1, <3>2
  <2>9. Fresh'
    <3>1. Len(pending) = 2 => Len(pending') = 1
      BY <1>4, <2>1
    <3>2. Len(pending) = 1 => pc' = "event"
      BY <1>4
    <3>. QED
      BY <2>1, <3>1, <3>2 DEF Fresh
  <2>10. FrontStored'
    <3>. SUFFICES ASSUME pc' \in {"store", "publish"}, Len(pending') = 1,
                         NEW m \in FrontSide, NEW k \in Positions,
                         NEW h \in Holds(m, k)', h.event = n
                  PROVE  k = K
      BY <1>1 DEF FrontStored, K
    <3>1. Len(pending) = 2
      BY <1>4, <2>1
    <3>2. h \notin Holds(m, k)
      <4>1. m \in Modules /\ n \in Nat
        BY <1>2, <2>1
      <4>2. h \in Holds(m, k) => h.event < n
        BY <1>1, <3>1, <4>1 DEF PacketsInv, Fresh
      <4>. QED
        BY <4>1, <4>2
    <3>. QED
      BY <1>2, <2>4, <3>2
  <2>11. Torn'
    <3>. SUFFICES ASSUME NEW m1 \in FrontSide, NEW m2 \in BackSide, NEW k1 \in Positions,
                         NEW k2 \in Positions, NEW h1 \in Holds(m1, k1)',
                         NEW h2 \in Holds(m2, k2)', h1.event = h2.event
                  PROVE  k2 \in {k1, k1 + 1}
      BY DEF Torn
    <3>1. m1 \in Modules /\ m2 \in Modules /\ m1 # m2
      BY <1>2 DEF BackSide
    <3>2. CASE h1 \notin Holds(m1, k1)
      <4>1. h1 = g /\ m1 = Target /\ k1 = K
        BY <2>4, <3>1, <3>2
      <4>2. h2 \in Holds(m2, k2)
        BY <2>4, <3>1, <4>1
      <4>3. Len(pending) = 2
        BY <2>1, <4>1 DEF BackSide
      <4>4. h2.event < n
        BY <1>1, <3>1, <4>2, <4>3 DEF PacketsInv, Fresh
      <4>. QED
        BY <2>1, <2>2, <4>1, <4>4
    <3>3. CASE h1 \in Holds(m1, k1) /\ h2 \notin Holds(m2, k2)
      <4>1. h2 = g /\ m2 = Target /\ k2 = K
        BY <2>4, <3>1, <3>3
      <4>2. Len(pending) = 1
        BY <2>1, <4>1 DEF BackSide
      <4>3. k1 = packet_id + 1 \/ k1 = packet_id
        BY <1>1, <2>2, <3>3, <4>1, <4>2 DEF PacketsInv, FrontStored
      <4>. QED
        BY <2>1, <4>1, <4>3 DEF K
    <3>4. CASE h1 \in Holds(m1, k1) /\ h2 \in Holds(m2, k2)
      BY <3>4 DEF PacketsInv, Torn
    <3>. QED
      BY <3>2, <3>3, <3>4
  <2>. QED
    BY <2>7, <2>8, <2>9, <2>10, <2>11 DEF PacketsInv
<1>. QED
  BY <1>1, <1>3, <1>4

LEMMA PublisherStep == PublisherInv /\ PacketsInv /\ [Next]_vars => PublisherInv' /\ PacketsInv'
<1>. SUFFICES ASSUME PublisherInv, PacketsInv, [Next]_vars PROVE PublisherInv' /\ PacketsInv'
  OBVIOUS
<1>1. CASE GenerateEvent
  BY <1>1, GenerateEventKeeps, GenerateEventPackets
<1>2. CASE FirstPayload
  BY <1>2, FirstPayloadKeeps, FirstPayloadPackets
<1>3. CASE StoreHit
  BY <1>3, StoreHitKeeps, StoreHitPackets
<1>4. CASE PublishPacket
  BY <1>4, PublishPacketKeeps, PublishPacketPackets
<1>5. CASE Stop
  <2>1. /\ pc = "event" /\ pc' = "stopped"
        /\ UNCHANGED <<events, pending, allocated, packet, module, packet_id, published>>
    BY <1>5 DEF Stop
  <2>2. PublisherInv'
    BY <2>1 DEF PublisherInv, Types, LastParticle, Turn
  <2>3. \A m \in Modules, k \in Positions : Holds(m, k)' \subseteq Holds(m, k)
    BY <2>1, SamePackets
  <2>4. HitsTrue' /\ InOrder' /\ Torn'
    BY <2>1, <2>3, HoldLess
  <2>5. Fresh' /\ FrontStored'
    BY <2>1 DEF Fresh, FrontStored
  <2>. QED
    BY <2>2, <2>4, <2>5 DEF PacketsInv
<1>6. CASE UNCHANGED simulationVars
  <2>1. /\ PublisherInv' /\ UNCHANGED <<pc, events, pending, packet, packet_id, published>>
        /\ \A m \in Modules, k \in Positions : Holds(m, k)' = Holds(m, k)
    BY <1>6, OnlineKeepsPackets DEF simulationVars
  <2>2. HitsTrue' /\ InOrder' /\ Torn'
    BY <2>1, HoldLess
  <2>3. Fresh'
    BY <2>1 DEF PacketsInv, Fresh
  <2>4. FrontStored'
    <3>1. \A m \in FrontSide, k \in Positions : Holds(m, k)' = Holds(m, k)
      BY <2>1, ModuleTypes
    <3>. QED
      BY <2>1, <3>1 DEF PacketsInv, FrontStored
  <2>. QED
    BY <2>1, <2>2, <2>3, <2>4 DEF PacketsInv
<1>7. Simulate \/ UNCHANGED simulationVars
  BY DEF Next, DecodePackets, FillOnlineGraph, vars
<1>. QED
  BY <1>1, <1>2, <1>3, <1>4, <1>5, <1>6, <1>7 DEF Simulate

\* The id of a packet is one less than its position.
LEMMA PacketOfPosition ==
    ASSUME PublisherInv, NEW m \in Modules, NEW p \in ToSet(published[m]), NEW h \in ToSet(p.hits)
    PROVE  p.id \in Int /\ p.id + 1 \in Positions /\ h \in Holds(m, p.id + 1)
<1>1. published[m] \in Seq(Published)
  BY DEF PublisherInv, Types
<1>2. PICK k \in 1 .. Len(published[m]) : p = published[m][k]
  BY <1>1 DEF ToSet
<1>3. p \in Published
  BY <1>1, <1>2
<1>4. PICK i \in 1 .. Len(p.hits) : h = p.hits[i]
  BY <1>3 DEF ToSet, Published
<1>5. p.id = k - 1
  BY <1>1, <1>2 DEF PublisherInv, Turn
<1>6. Packet(m, k) = p.hits
  BY <1>1, <1>2 DEF Packet
<1>7. h \in Holds(m, k)
  BY <1>4, <1>6 DEF Holds, Elements
<1>8. p.id \in Int /\ p.id + 1 = k /\ k \in Positions
  BY <1>1, <1>5 DEF Positions
<1>. QED
  BY <1>7, <1>8

LEMMA TornFollows == PublisherInv /\ PacketsInv => TornToNextPacket
<1>. SUFFICES ASSUME PublisherInv, PacketsInv, NEW m1 \in FrontSide, NEW m2 \in BackSide,
                     NEW p \in ToSet(published[m1]), NEW q \in ToSet(published[m2]),
                     NEW f \in ToSet(p.hits), NEW b \in ToSet(q.hits), f.event = b.event
              PROVE  q.id \in {p.id, p.id + 1}
  BY DEF TornToNextPacket
<1>1. m1 \in Modules /\ m2 \in Modules
  BY ModuleTypes
<1>2. p.id \in Int /\ p.id + 1 \in Positions /\ f \in Holds(m1, p.id + 1)
  BY <1>1, PacketOfPosition
<1>3. q.id \in Int /\ q.id + 1 \in Positions /\ b \in Holds(m2, q.id + 1)
  BY <1>1, PacketOfPosition
<1>4. q.id + 1 \in {p.id + 1, p.id + 1 + 1}
  BY <1>2, <1>3 DEF PacketsInv, Torn
<1>. QED
  BY <1>2, <1>3, <1>4

\* The invariant of the publisher, at every time.
THEOREM PublisherInvariant == Spec => [](PublisherInv /\ PacketsInv)
<1>1. Init => PublisherInv /\ PacketsInv
  BY PublisherInit, NoPackets
<1>. QED
  BY <1>1, PublisherStep, PTL DEF Spec

\* A particle whose hits are torn apart has them in packets of consecutive ids, the front
\* first, for any numbers of modules and hits in a packet.
THEOREM TornOnlyToNext == Spec => []TornToNextPacket
  BY PublisherInvariant, TornFollows, PTL

------------------------------------------------------------------------------
(* No hit is lost on the way into the packets.                              *)

\* The hits of a module are those picked from all hits.
LEMMA OfModulePicked ==
    ASSUME NEW q \in Seq(HitSet), NEW m
    PROVE  /\ OfModule(m, q) = Picked({h \in HitSet : h.slot - 2 = m}, q)
           /\ OfModule(m, q) \in Seq(HitSet)
<1>. DEFINE C == {h \in HitSet : h.slot - 2 = m}
            c == [n \in DOMAIN q |-> IF q[n].slot - 2 = m THEN <<q[n]>> ELSE <<>>]
<1>1. DOMAIN q = 1 .. Len(q)
  OBVIOUS
<1>2. ASSUME NEW n \in 1 .. Len(q) PROVE q[n] \in C <=> q[n].slot - 2 = m
  <2>1. q[n] \in HitSet
    BY ElementOfSeq
  <2>. QED
    BY <2>1
<1>3. c = Chosen(C, q)
  <2>. HIDE DEF C
  <2>. QED
    BY <1>1, <1>2 DEF Chosen
<1>4. OfModule(m, q) = FlattenSeq(c)
  BY DEF OfModule
<1>5. Picked(C, q) \in Seq(HitSet)
  BY ChosenType
<1>. HIDE DEF C, c
<1>6. OfModule(m, q) = Picked(C, q)
  BY <1>3, <1>4 DEF Picked
<1>. QED
  BY <1>5, <1>6 DEF C

\* The hits of module m in two sequences, one behind the other.
OfBoth(m, q, r) == OfModule(m, q \o r) = OfModule(m, q) \o OfModule(m, r)

LEMMA OfModuleConcat ==
    ASSUME NEW q \in Seq(HitSet), NEW r \in Seq(HitSet), NEW m
    PROVE  OfBoth(m, q, r)
<1>. DEFINE C == {h \in HitSet : h.slot - 2 = m}
<1>1. q \o r \in Seq(HitSet)
  OBVIOUS
<1>2. /\ OfModule(m, q) = Picked(C, q) /\ OfModule(m, r) = Picked(C, r)
      /\ OfModule(m, q \o r) = Picked(C, q \o r)
  BY <1>1, OfModulePicked
<1>. HIDE DEF C
<1>3. PicksSplit(C, q, r)
  BY PickedConcat
<1>. QED
  BY <1>2, <1>3 DEF PicksSplit, OfBoth

LEMMA OfModuleOne ==
    ASSUME NEW h \in HitSet, NEW m
    PROVE  /\ OfModule(m, <<>>) = <<>>
           /\ OfModule(m, <<h>>) = IF h.slot - 2 = m THEN <<h>> ELSE <<>>
<1>. DEFINE C == {x \in HitSet : x.slot - 2 = m}
<1>1. <<>> \in Seq(HitSet) /\ <<h>> \in Seq(HitSet)
  OBVIOUS
<1>2. OfModule(m, <<>>) = Picked(C, <<>>) /\ OfModule(m, <<h>>) = Picked(C, <<h>>)
  BY <1>1, OfModulePicked
<1>3. h \in C <=> h.slot - 2 = m
  OBVIOUS
<1>. HIDE DEF C
<1>. QED
  BY <1>2, <1>3, PickedOne

\* The hits of every particle, and of every packet, in their order.
HitsOfEach(ev) == [i \in DOMAIN ev |-> Hits(ev[i], i)]
HitsOfPackets(q) == [k \in DOMAIN q |-> q[k].hits]

LEMMA HitsType ==
    ASSUME NEW e \in Particles, NEW n \in Nat \ {0}
    PROVE  Hits(e, n) \in Seq(HitSet)
<1>1. /\ FrontOf(e, n) \in HitSet /\ BackOf(e, n) \in HitSet
      /\ Hits(e, n) = <<FrontOf(e, n), BackOf(e, n)>>
  BY ParticleHits
<1>. HIDE DEF Hits, FrontOf, BackOf
<1>. QED
  BY <1>1

LEMMA HitsOfEachType ==
    ASSUME NEW ev \in Seq(Particles)
    PROVE  /\ HitsOfEach(ev) \in Seq(Seq(HitSet)) /\ Len(HitsOfEach(ev)) = Len(ev)
           /\ \A i \in 1 .. Len(ev) : HitsOfEach(ev)[i] = Hits(ev[i], i)
<1>1. DOMAIN ev = 1 .. Len(ev) /\ \A i \in 1 .. Len(ev) : ev[i] \in Particles /\ i \in Nat \ {0}
  OBVIOUS
<1>2. ASSUME NEW i \in 1 .. Len(ev) PROVE Hits(ev[i], i) \in Seq(HitSet)
  BY <1>1, HitsType
<1>. QED
  BY <1>1, <1>2 DEF HitsOfEach

LEMMA HitsOfPacketsType ==
    ASSUME NEW q \in Seq(Published)
    PROVE  /\ HitsOfPackets(q) \in Seq(Seq(HitSet)) /\ Len(HitsOfPackets(q)) = Len(q)
           /\ \A k \in 1 .. Len(q) : HitsOfPackets(q)[k] = q[k].hits
<1>1. DOMAIN q = 1 .. Len(q) /\ \A k \in 1 .. Len(q) : q[k] \in Published
  OBVIOUS
<1>2. \A z \in Published : z.hits \in Seq(HitSet)
  BY DEF Published
<1>. QED
  BY <1>1, <1>2 DEF HitsOfPackets

LEMMA HitsOfEachMore ==
    ASSUME NEW ev \in Seq(Particles), NEW e \in Particles
    PROVE  HitsOfEach(Append(ev, e)) = Append(HitsOfEach(ev), Hits(e, Len(ev) + 1))
<1>. DEFINE n == Len(ev)
            x == Hits(e, n + 1)
            r == Append(ev, e)
            g == HitsOfEach(r)
            q == HitsOfEach(ev)
<1>1. /\ n \in Nat /\ r \in Seq(Particles) /\ Len(r) = n + 1 /\ r[n + 1] = e
      /\ \A i \in 1 .. n : r[i] = ev[i] /\ i \in 1 .. n + 1
      /\ n + 1 \in 1 .. n + 1
  OBVIOUS
<1>2. x \in Seq(HitSet)
  BY <1>1, HitsType
<1>3. q \in Seq(Seq(HitSet)) /\ Len(q) = n /\ \A i \in 1 .. n : q[i] = Hits(ev[i], i)
  BY HitsOfEachType
<1>. HIDE DEF r
<1>4. g \in Seq(Seq(HitSet)) /\ Len(g) = n + 1 /\ \A i \in 1 .. n + 1 : g[i] = Hits(r[i], i)
  BY <1>1, HitsOfEachType
<1>. HIDE DEF g, q, x
<1>5. \A i \in 1 .. n : g[i] = q[i]
  BY <1>1, <1>3, <1>4
<1>6. g[n + 1] = x
  BY <1>1, <1>4 DEF x
<1>7. DOMAIN g = 1 .. Len(q) + 1 /\ g = [i \in DOMAIN g |-> g[i]]
  BY <1>1, <1>3, <1>4
<1>8. g = Append(q, x)
  BY <1>2, <1>3, <1>5, <1>6, <1>7, AppendPointwise
<1>. QED
  BY <1>8 DEF g, q, x, r

LEMMA HitsOfPacketsMore ==
    ASSUME NEW q \in Seq(Published), NEW x \in Published
    PROVE  HitsOfPackets(Append(q, x)) = Append(HitsOfPackets(q), x.hits)
<1>. DEFINE n == Len(q)
            r == Append(q, x)
            g == HitsOfPackets(r)
            p == HitsOfPackets(q)
            y == x.hits
<1>1. /\ n \in Nat /\ r \in Seq(Published) /\ Len(r) = n + 1 /\ r[n + 1] = x
      /\ \A i \in 1 .. n : r[i] = q[i] /\ i \in 1 .. n + 1
      /\ n + 1 \in 1 .. n + 1
  OBVIOUS
<1>2. y \in Seq(HitSet)
  BY DEF Published
<1>3. p \in Seq(Seq(HitSet)) /\ Len(p) = n /\ \A i \in 1 .. n : p[i] = q[i].hits
  BY HitsOfPacketsType
<1>. HIDE DEF r
<1>4. g \in Seq(Seq(HitSet)) /\ Len(g) = n + 1 /\ \A i \in 1 .. n + 1 : g[i] = r[i].hits
  BY <1>1, HitsOfPacketsType
<1>. HIDE DEF g, p, y
<1>5. \A i \in 1 .. n : g[i] = p[i]
  BY <1>1, <1>3, <1>4
<1>6. g[n + 1] = y
  BY <1>1, <1>4 DEF y
<1>7. DOMAIN g = 1 .. Len(p) + 1 /\ g = [i \in DOMAIN g |-> g[i]]
  BY <1>1, <1>3, <1>4
<1>8. g = Append(p, y)
  BY <1>2, <1>3, <1>5, <1>6, <1>7, AppendPointwise
<1>. QED
  BY <1>8 DEF g, p, y, r

\* Everything the conservation is about is a sequence of hits.
LEMMA KeptTypes ==
    ASSUME PublisherInv, NEW m \in Modules
    PROVE  /\ Sent(m) \in Seq(HitSet) /\ packet[m] \in Seq(HitSet) /\ OfModule(m, Produced) \in Seq(HitSet)
           /\ FlattenSeq(HitsOfEach(events)) \in Seq(HitSet)
           /\ Sent(m) = FlattenSeq(HitsOfPackets(published[m]))
           /\ Produced = FlattenSeq(HitsOfEach(events))
<1>1. /\ events \in Seq(Particles) /\ published[m] \in Seq(Published)
      /\ packet[m] \in Seq(HitSet)
  BY DEF PublisherInv, Types
<1>2. HitsOfEach(events) \in Seq(Seq(HitSet))
  BY <1>1, HitsOfEachType
<1>3. HitsOfPackets(published[m]) \in Seq(Seq(HitSet))
  BY <1>1, HitsOfPacketsType
<1>4. FlattenSeq(HitsOfEach(events)) \in Seq(HitSet)
  BY <1>2, FlattenType
<1>5. FlattenSeq(HitsOfPackets(published[m])) \in Seq(HitSet)
  BY <1>3, FlattenType
<1>6. Sent(m) = FlattenSeq(HitsOfPackets(published[m]))
  BY DEF Sent, HitsOfPackets
<1>7. Produced = FlattenSeq(HitsOfEach(events))
  BY DEF Produced, HitsOfEach
<1>8. OfModule(m, Produced) \in Seq(HitSet)
  BY <1>4, <1>7, OfModulePicked
<1>. QED
  BY <1>1, <1>4, <1>5, <1>6, <1>7, <1>8

\* A hit appended to the second of three sequences, instead of at the head of the third.
Moved(s, p, h, w) == s \o Append(p, h) \o w = s \o p \o (<<h>> \o w)

LEMMA MoveHit ==
    ASSUME NEW S, NEW s \in Seq(S), NEW p \in Seq(S), NEW h \in S, NEW w \in Seq(S)
    PROVE  Moved(s, p, h, w)
<1>. DEFINE a == s \o p
            x == <<h>>
<1>1. a \in Seq(S) /\ x \in Seq(S)
  OBVIOUS
<1>2. s \o Append(p, h) = Append(a, h)
  BY ConcatAppend
<1>. HIDE DEF a
<1>3. Append(a, h) = a \o x
  BY <1>1
<1>4. Associates(S)
  BY ConcatAssociates
<1>. HIDE DEF x
<1>5. (a \o x) \o w = a \o (x \o w)
  BY <1>1, <1>4, Zenon DEF Associates
<1>6. s \o Append(p, h) \o w = a \o (x \o w)
  BY <1>2, <1>3, <1>5
<1>. QED
  BY <1>6 DEF Moved, a, x

\* Nothing at the end, or in the middle, of a concatenation.
LEMMA ConcatNothing ==
    ASSUME NEW S, NEW s \in Seq(S), NEW p \in Seq(S)
    PROVE  /\ s \o p \o <<>> = s \o p
           /\ s \o <<>> = s /\ <<>> \o s = s
<1>1. s \o p \in Seq(S)
  OBVIOUS
<1>. QED
  BY <1>1, ConcatEmptySeq

LEMMA GenerateEventKept ==
    ASSUME PublisherInv, HitsKept, GenerateEvent
    PROVE  HitsKept'
<1>. SUFFICES ASSUME NEW m \in Modules
              PROVE  (Sent(m) \o packet[m] \o OfModule(m, pending) = OfModule(m, Produced))'
  BY DEF HitsKept
<1>. DEFINE n == Len(events)
            all == FlattenSeq(HitsOfEach(events))
            a == Sent(m) \o packet[m]
            w == OfModule(m, pending')
<1>1. PICK e \in Particles : events' = Append(events, e) /\ pending' = Hits(e, n + 1)
  BY GenerateEventKeeps
<1>2. /\ pc = "event" /\ events \in Seq(Particles) /\ n + 1 \in Nat \ {0}
      /\ UNCHANGED <<packet, published>>
  BY DEF GenerateEvent, PublisherInv, Types
<1>3. pending = <<>>
  BY <1>2 DEF PublisherInv, LastParticle
<1>4. /\ Sent(m) \in Seq(HitSet) /\ packet[m] \in Seq(HitSet) /\ OfModule(m, Produced) \in Seq(HitSet)
      /\ all \in Seq(HitSet) /\ Produced = all
  BY KeptTypes
<1>5. /\ HitsOfEach(events) \in Seq(Seq(HitSet)) /\ pending' \in Seq(HitSet)
      /\ HitsOfEach(events') = Append(HitsOfEach(events), pending')
  BY <1>1, <1>2, HitsType, HitsOfEachType, HitsOfEachMore
<1>6. FlattenSeq(HitsOfEach(events')) = all \o pending'
  BY <1>5, FlattenAppend
<1>7. OfBoth(m, all, pending')
  BY <1>4, <1>5, OfModuleConcat
<1>8. Produced' = FlattenSeq(HitsOfEach(events'))
  BY DEF Produced, HitsOfEach
<1>9. OfModule(m, Produced)' = OfModule(m, Produced) \o w
  BY <1>4, <1>6, <1>7, <1>8 DEF OfBoth
<1>10. Sent(m)' = Sent(m)
  BY <1>2 DEF Sent
<1>11. OfModule(m, <<>>) = <<>>
  <2>1. [i \in DOMAIN <<>> |-> IF (<<>>)[i].slot - 2 = m THEN << (<<>>)[i] >> ELSE <<>>] = <<>>
    OBVIOUS
  <2>. QED
    BY <2>1, FlattenEmpty DEF OfModule
<1>12. a \o <<>> = OfModule(m, Produced)
  BY <1>2, <1>3, <1>11 DEF HitsKept
<1>13. a \o <<>> = a
  BY <1>4, ConcatNothing
<1>14. (Sent(m) \o packet[m] \o OfModule(m, pending))' = a \o w
  BY <1>2, <1>10
<1>. HIDE DEF a, w
<1>. QED
  BY <1>9, <1>12, <1>13, <1>14

LEMMA StoreHitKept ==
    ASSUME PublisherInv, HitsKept, StoreHit
    PROVE  HitsKept'
<1>. DEFINE h == Head(pending)
<1>1. /\ UNCHANGED <<events, packet_id, published>>
      /\ pc = "store" /\ Target \in Modules
      /\ \/ UNCHANGED <<packet, pending>>
         \/ /\ packet' = [packet EXCEPT ![Target] = Append(@, Head(pending))]
            /\ pending' = Tail(pending)
  BY StoreHitKeeps
<1>. SUFFICES ASSUME NEW m \in Modules
              PROVE  (Sent(m) \o packet[m] \o OfModule(m, pending) = OfModule(m, Produced))'
  BY DEF HitsKept
<1>. DEFINE s == Sent(m)
            p == packet[m]
            w == OfModule(m, Tail(pending))
            v == OfModule(m, pending)
<1>2. s \in Seq(HitSet) /\ p \in Seq(HitSet) /\ packet \in [Modules -> Seq(HitSet)]
  BY KeptTypes DEF PublisherInv, Types
<1>3. Sent(m)' = s /\ Produced' = Produced
  BY <1>1 DEF Sent, Produced
<1>4. s \o p \o v = OfModule(m, Produced)
  BY <1>1 DEF HitsKept
<1>5. CASE UNCHANGED <<packet, pending>>
  BY <1>3, <1>4, <1>5
<1>6. CASE /\ packet' = [packet EXCEPT ![Target] = Append(@, h)]
           /\ pending' = Tail(pending)
  <2>1. /\ h \in HitSet /\ Tail(pending) \in Seq(HitSet) /\ pending = <<h>> \o Tail(pending)
    <3>1. pending \in Seq(HitSet) /\ Len(pending) \in {1, 2} /\ h \in HitSet
      BY <1>1, PendingHits
    <3>2. pending # <<>>
      BY <3>1
    <3>. QED
      BY <3>1, <3>2
  <2>2. h.slot - 2 = Target
    BY DEF Target
  <2>. HIDE DEF h
  <2>3. w \in Seq(HitSet)
    BY <2>1, OfModulePicked
  <2>4. OfModule(m, <<h>>) = IF m = Target THEN <<h>> ELSE <<>>
    <3>1. OfModule(m, <<h>>) = IF h.slot - 2 = m THEN <<h>> ELSE <<>>
      BY <2>1, OfModuleOne
    <3>. QED
      BY <2>2, <3>1
  <2>5. v = OfModule(m, <<h>>) \o w
    <3>1. <<h>> \in Seq(HitSet)
      BY <2>1
    <3>2. OfBoth(m, <<h>>, Tail(pending))
      BY <2>1, <3>1, OfModuleConcat
    <3>. QED
      BY <2>1, <3>2 DEF OfBoth
  <2>6. (Sent(m) \o packet[m] \o OfModule(m, pending))' = s \o packet'[m] \o w
    BY <1>3, <1>6
  <2>. HIDE DEF s, p, w, v
  <2>7. CASE m = Target
    <3>1. packet'[m] = Append(p, h)
      BY <1>2, <1>6, <2>7 DEF p
    <3>2. Moved(s, p, h, w)
      BY <1>2, <2>1, <2>3, MoveHit
    <3>3. s \o Append(p, h) \o w = s \o p \o v
      BY <2>4, <2>5, <2>7, <3>2 DEF Moved
    <3>. QED
      BY <1>3, <1>4, <2>6, <3>1, <3>3
  <2>8. CASE m # Target
    <3>1. packet'[m] = p
      BY <1>2, <1>6, <2>8 DEF p
    <3>2. v = w
      BY <2>3, <2>4, <2>5, <2>8, ConcatNothing
    <3>. QED
      BY <1>3, <1>4, <2>6, <3>1, <3>2
  <2>. QED
    BY <2>7, <2>8
<1>. QED
  BY <1>1, <1>5, <1>6

LEMMA PublishPacketKept ==
    ASSUME PublisherInv, HitsKept, PublishPacket
    PROVE  HitsKept'
<1>. DEFINE x == [id |-> packet_id, hits |-> packet[module]]
<1>. SUFFICES ASSUME pc' # "crashed", NEW m \in Modules
              PROVE  (Sent(m) \o packet[m] \o OfModule(m, pending) = OfModule(m, Produced))'
  BY DEF HitsKept
<1>1. /\ UNCHANGED <<events, pending>> /\ pc = "publish" /\ module \in Modules
      /\ published' = [published EXCEPT ![module] = Append(@, x)]
      /\ packet' = [packet EXCEPT ![module] = <<>>]
  BY PublishPacketKeeps
<1>. DEFINE s == Sent(m)
            p == packet[m]
            v == OfModule(m, pending)
<1>2. /\ s \in Seq(HitSet) /\ p \in Seq(HitSet) /\ packet \in [Modules -> Seq(HitSet)]
      /\ published \in [Modules -> Seq(Published)] /\ published[m] \in Seq(Published)
      /\ s = FlattenSeq(HitsOfPackets(published[m]))
  BY KeptTypes DEF PublisherInv, Types
<1>3. x \in Published
  <2>1. packet[module] \in Seq(HitSet) /\ packet_id \in Nat
    BY <1>1, <1>2 DEF PublisherInv, Types
  <2>. QED
    BY <2>1 DEF Published
<1>4. x.hits = packet[module]
  OBVIOUS
<1>. HIDE DEF x
<1>5. s \o p \o v = OfModule(m, Produced)
  BY <1>1 DEF HitsKept
<1>6. Produced' = Produced /\ OfModule(m, pending') = v
  BY <1>1 DEF Produced
<1>7. Sent(m)' = FlattenSeq(HitsOfPackets(published'[m]))
  BY DEF Sent, HitsOfPackets
<1>8. Sent(m)' \o packet'[m] = s \o p
  <2>1. CASE m = module
    <3>1. published'[m] = Append(published[m], x) /\ packet'[m] = <<>>
      BY <1>1, <1>2, <2>1
    <3>2. /\ HitsOfPackets(published'[m]) = Append(HitsOfPackets(published[m]), p)
          /\ HitsOfPackets(published[m]) \in Seq(Seq(HitSet))
      BY <1>2, <1>3, <1>4, <2>1, <3>1, HitsOfPacketsType, HitsOfPacketsMore
    <3>3. Sent(m)' = s \o p
      BY <1>2, <1>7, <3>2, FlattenAppend
    <3>. HIDE DEF s, p
    <3>4. s \o p \o <<>> = s \o p
      BY <1>2, ConcatNothing
    <3>. QED
      BY <3>1, <3>3, <3>4
  <2>2. CASE m # module
    <3>1. published'[m] = published[m] /\ packet'[m] = p
      BY <1>1, <1>2, <2>2
    <3>2. Sent(m)' = s
      BY <1>2, <1>7, <3>1
    <3>. QED
      BY <3>1, <3>2
  <2>. QED
    BY <2>1, <2>2
<1>. HIDE DEF s, p, v
<1>9. (Sent(m) \o packet[m] \o OfModule(m, pending))' = s \o p \o v
  BY <1>6, <1>8
<1>. QED
  BY <1>5, <1>6, <1>9

\* A step after which nothing of what is conserved changed.
LEMMA KeptTheSame ==
    ASSUME HitsKept, UNCHANGED <<events, pending, packet, published>>,
           pc' # "crashed" => pc # "crashed"
    PROVE  HitsKept'
  BY DEF HitsKept, Sent, Produced

LEMMA HitsKeptStep == PublisherInv /\ HitsKept /\ [Next]_vars => HitsKept'
<1>. SUFFICES ASSUME PublisherInv, HitsKept, [Next]_vars PROVE HitsKept'
  OBVIOUS
<1>1. CASE GenerateEvent
  BY <1>1, GenerateEventKept
<1>2. CASE FirstPayload
  <2>1. /\ UNCHANGED <<events, pending, published>> /\ pc = "store" /\ packet[Target] = <<>>
        /\ packet' = packet \/ packet' = [packet EXCEPT ![Target] = <<>>]
    BY <1>2, FirstPayloadKeeps
  <2>2. packet' = packet
    <3>1. packet \in [Modules -> Seq(HitSet)]
      BY DEF PublisherInv, Types
    <3>. QED
      BY <2>1, <3>1
  <2>. QED
    BY <2>1, <2>2, KeptTheSame
<1>3. CASE StoreHit
  BY <1>3, StoreHitKept
<1>4. CASE PublishPacket
  BY <1>4, PublishPacketKept
<1>5. CASE Stop
  <2>1. pc = "event" /\ UNCHANGED <<events, pending, packet, published>>
    BY <1>5 DEF Stop
  <2>. QED
    BY <2>1, KeptTheSame
<1>6. CASE UNCHANGED simulationVars
  <2>1. UNCHANGED <<pc, events, pending, packet, published>>
    BY <1>6 DEF simulationVars
  <2>. QED
    BY <2>1, KeptTheSame
<1>7. Simulate \/ UNCHANGED simulationVars
  BY DEF Next, DecodePackets, FillOnlineGraph, vars
<1>. QED
  BY <1>1, <1>2, <1>3, <1>4, <1>5, <1>6, <1>7 DEF Simulate

LEMMA NothingProduced == Init => HitsKept
<1>. SUFFICES ASSUME Init, NEW m \in Modules
              PROVE  Sent(m) \o packet[m] \o OfModule(m, pending) = OfModule(m, Produced)
  BY DEF HitsKept
<1>1. /\ events = <<>> /\ pending = <<>> /\ packet[m] = <<>> /\ published[m] = <<>>
  BY DEF Init, SimulationInit
<1>2. OfModule(m, <<>>) = <<>>
  <2>1. [i \in DOMAIN <<>> |-> IF (<<>>)[i].slot - 2 = m THEN << (<<>>)[i] >> ELSE <<>>] = <<>>
    OBVIOUS
  <2>. QED
    BY <2>1, FlattenEmpty DEF OfModule
<1>3. Sent(m) = <<>>
  <2>1. [k \in DOMAIN <<>> |-> (<<>>)[k].hits] = <<>>
    OBVIOUS
  <2>. QED
    BY <1>1, <2>1, FlattenEmpty DEF Sent
<1>4. Produced = <<>>
  <2>1. [i \in DOMAIN <<>> |-> Hits((<<>>)[i], i)] = <<>>
    OBVIOUS
  <2>. QED
    BY <1>1, <1>2, <2>1, FlattenEmpty DEF Produced
<1>5. <<>> \o <<>> \o <<>> = <<>>
  OBVIOUS
<1>. QED
  BY <1>1, <1>2, <1>3, <1>4, <1>5

\* Every hit is in exactly one packet of its module, in the order in which the particles
\* came, or still waits: replacing packets in the middle of a particle loses, repeats and
\* misplaces nothing, whatever the sizes are.
THEOREM NoHitLost == Spec => []HitsKept
<1>1. PublisherInv /\ PacketsInv /\ HitsKept /\ [Next]_vars => HitsKept'
  BY HitsKeptStep
<1>. QED
  BY <1>1, NothingProduced, PublisherInvariant, PTL DEF Spec

------------------------------------------------------------------------------
(* What the receiver decodes.                                               *)

\* Ids under which all modules have published.
Complete(k) == k \in Nat /\ \A m \in Modules : k + 1 <= Len(published[m])

\* The packet with an id, among packets that are numbered from zero.
LEMMA PacketWithId ==
    ASSUME NEW q \in Seq(Published), \A i \in 1 .. Len(q) : q[i].id = i - 1,
           NEW k \in Nat, k + 1 <= Len(q)
    PROVE  (CHOOSE p \in ToSet(q) : p.id = k) = q[k + 1]
<1>1. ToSet(q) = {q[i] : i \in 1 .. Len(q)} /\ Len(q) \in Nat
  BY DEF ToSet
<1>2. k + 1 \in 1 .. Len(q)
  BY <1>1
<1>3. q[k + 1] \in ToSet(q) /\ q[k + 1].id = k
  BY <1>1, <1>2
<1>4. ASSUME NEW p \in ToSet(q), p.id = k PROVE p = q[k + 1]
  <2>1. PICK i \in 1 .. Len(q) : p = q[i]
    BY <1>1
  <2>2. i = k + 1
    BY <1>1, <1>4, <2>1
  <2>. QED
    BY <2>1, <2>2
<1>. DEFINE c == CHOOSE p \in ToSet(q) : p.id = k
<1>5. c \in ToSet(q) /\ c.id = k
  BY <1>3
<1>. HIDE DEF c
<1>6. c = q[k + 1]
  BY <1>4, <1>5
<1>. QED
  BY <1>6 DEF c

\* The hits that are followed by another in their packet.
Followed(k) == UNION {ToSet(Front(published[m][k + 1].hits)) : m \in Modules}

DecodedIsFollowed == \A k : Complete(k) => DecodedHits(k) = Followed(k)

LEMMA DecodedFollowed == PublisherInv => DecodedIsFollowed
<1>. SUFFICES ASSUME PublisherInv, NEW k, Complete(k) PROVE DecodedHits(k) = Followed(k)
  BY DEF DecodedIsFollowed
<1>1. ASSUME NEW m \in Modules PROVE HitsUnder(m, k) = published[m][k + 1].hits
  <2>1. /\ published[m] \in Seq(Published) /\ k \in Nat /\ k + 1 <= Len(published[m])
        /\ \A i \in 1 .. Len(published[m]) : published[m][i].id = i - 1
    BY DEF PublisherInv, Types, Turn, Complete
  <2>2. (CHOOSE p \in ToSet(published[m]) : p.id = k) = published[m][k + 1]
    BY <2>1, PacketWithId
  <2>. QED
    BY <2>2 DEF HitsUnder
<1>. QED
  BY <1>1 DEF DecodedHits, Followed

LEMMA FrontElements ==
    ASSUME NEW S, NEW q \in Seq(S)
    PROVE  ToSet(Front(q)) \subseteq Elements(q)
<1>1. Len(q) \in Nat /\ DOMAIN Front(q) = 1 .. Len(q) - 1
      /\ \A i \in 1 .. Len(q) - 1 : Front(q)[i] = q[i]
  BY DEF Front
<1>2. \A i \in 1 .. Len(q) - 1 : i \in 1 .. Len(q)
  BY <1>1
<1>. QED
  BY <1>1, <1>2 DEF ToSet, Elements

LEMMA DecodedHeld ==
    ASSUME PublisherInv, NEW k, Complete(k), NEW h \in DecodedHits(k)
    PROVE  k + 1 \in Positions /\ \E m \in Modules : h \in Holds(m, k + 1)
<1>1. PICK m \in Modules : h \in ToSet(Front(published[m][k + 1].hits))
  BY DecodedFollowed DEF DecodedIsFollowed, Followed
<1>2. k \in Nat /\ k + 1 <= Len(published[m]) /\ published[m] \in Seq(Published)
  BY DEF Complete, PublisherInv, Types
<1>3. published[m][k + 1] \in Published
  <2>1. k + 1 \in 1 .. Len(published[m])
    BY <1>2
  <2>. QED
    BY <1>2, <2>1, ElementOfSeq
<1>4. published[m][k + 1].hits \in Seq(HitSet)
  BY <1>3 DEF Published
<1>5. h \in Elements(published[m][k + 1].hits)
  BY <1>1, <1>4, FrontElements
<1>6. Packet(m, k + 1) = published[m][k + 1].hits
  BY <1>2 DEF Packet
<1>. QED
  BY <1>2, <1>5, <1>6 DEF Holds, Positions

\* What is published stays, and so does what is decoded under a complete id.
LEMMA PublishedStays ==
    ASSUME PublisherInv, [Next]_vars
    PROVE  \A m \in Modules : /\ Len(published[m]) <= Len(published'[m])
                              /\ \A i \in 1 .. Len(published[m]) :
                                    published'[m][i] = published[m][i]
<1>1. CASE published' = published
  <2>1. \A m \in Modules : Len(published[m]) \in Nat
    BY DEF PublisherInv, Types
  <2>. QED
    BY <1>1, <2>1
<1>2. CASE PublishPacket /\ published' # published
  <2>. DEFINE x == [id |-> packet_id, hits |-> packet[module]]
  <2>1. /\ module \in Modules
        /\ published' = [published EXCEPT ![module] = Append(@, x)]
    BY <1>2, PublishPacketKeeps
  <2>2. /\ published \in [Modules -> Seq(Published)] /\ packet_id \in Nat
        /\ packet[module] \in Seq(HitSet)
    BY <2>1 DEF PublisherInv, Types
  <2>3. x \in Published
    BY <2>2 DEF Published
  <2>. HIDE DEF x
  <2>. SUFFICES ASSUME NEW m \in Modules
                PROVE  /\ Len(published[m]) <= Len(published'[m])
                       /\ \A i \in 1 .. Len(published[m]) : published'[m][i] = published[m][i]
    OBVIOUS
  <2>4. published[m] \in Seq(Published) /\ Len(published[m]) \in Nat
    BY <2>2
  <2>5. published'[m] = IF m = module THEN Append(published[m], x) ELSE published[m]
    BY <2>1, <2>2
  <2>. QED
    BY <2>3, <2>4, <2>5
<1>3. PublishPacket \/ published' = published
  BY DEF Next, Simulate, GenerateEvent, FirstPayload, StoreHit, Stop, DecodePackets,
         FillOnlineGraph, simulationVars, vars
<1>. QED
  BY <1>1, <1>2, <1>3

LEMMA DecodedStays ==
    ASSUME PublisherInv, PublisherInv', [Next]_vars, NEW k, Complete(k)
    PROVE  Complete(k)' /\ DecodedHits(k)' = DecodedHits(k)
<1>1. k \in Nat /\ \A m \in Modules : k + 1 <= Len(published[m]) /\ Len(published[m]) \in Nat
                                      /\ Len(published'[m]) \in Nat
  BY DEF Complete, PublisherInv, Types
<1>2. \A m \in Modules : /\ Len(published[m]) <= Len(published'[m])
                         /\ \A i \in 1 .. Len(published[m]) : published'[m][i] = published[m][i]
  BY PublishedStays
<1>3. \A m \in Modules : k + 1 <= Len(published'[m]) /\ published'[m][k + 1] = published[m][k + 1]
  <2>1. \A m \in Modules : k + 1 \in 1 .. Len(published[m])
    BY <1>1
  <2>. QED
    BY <1>1, <1>2, <2>1
<1>4. Complete(k)'
  BY <1>1, <1>3 DEF Complete
<1>5. DecodedHits(k) = Followed(k)
  BY DecodedFollowed DEF DecodedIsFollowed
<1>6. DecodedHits(k)' = Followed(k)'
  <2>1. PublisherInv' => DecodedIsFollowed'
    BY DecodedFollowed, PTL
  <2>. QED
    BY <1>4, <2>1 DEF DecodedIsFollowed
<1>7. Followed(k)' = Followed(k)
  BY <1>3 DEF Followed
<1>. QED
  BY <1>4, <1>5, <1>6, <1>7

\* The particle of a hit, and its place in time.
LEMMA HitsInTime ==
    ASSUME PublisherInv, PacketsInv, NEW m \in Modules, NEW k \in Positions, NEW h \in Holds(m, k)
    PROVE  /\ h.event \in 1 .. Len(events) /\ h.event \in Nat \ {0}
           /\ events[h.event] \in Particles
           /\ h.time \in Nat /\ h.time = events[h.event].time
           /\ DecodedModule(h) = m /\ (FrontHit(h) <=> m \in FrontSide)
           /\ m \in FrontSide => /\ h = FrontOf(events[h.event], h.event)
                                 /\ FrontStrip(h) = events[h.event].x
           /\ m \notin FrontSide => /\ h = BackOf(events[h.event], h.event)
                                    /\ BackStrip(h) = events[h.event].y
<1>1. h.event \in 1 .. Len(events) /\ h = HitOf(m, h.event) /\ h.slot - 2 = m
  BY DEF PacketsInv, HitsTrue
<1>. DEFINE n == h.event
            e == events[n]
<1>2. n \in Nat \ {0} /\ e \in Particles
  <2>1. events \in Seq(Particles)
    BY DEF PublisherInv, Types
  <2>. QED
    BY <1>1, <2>1
<1>3. e.time \in Nat
  BY <1>2 DEF Particles
<1>. HIDE DEF e
<1>4. h = IF m \in FrontSide THEN FrontOf(e, n) ELSE BackOf(e, n)
  BY <1>1 DEF HitOf, e
<1>5. /\ FrontOf(e, n).time = e.time /\ BackOf(e, n).time = e.time
      /\ FrontStrip(FrontOf(e, n)) = e.x /\ BackStrip(BackOf(e, n)) = e.y
  BY <1>2, ParticleHits
<1>. HIDE DEF n
<1>6. h.time = e.time /\ (m \in FrontSide => FrontStrip(h) = e.x)
      /\ (m \notin FrontSide => BackStrip(h) = e.y)
  BY <1>4, <1>5
<1>7. DecodedModule(h) = m /\ (FrontHit(h) <=> m \in FrontSide)
  BY <1>1, ModuleTypes DEF DecodedModule, FrontHit
<1>. QED
  BY <1>1, <1>2, <1>3, <1>4, <1>6, <1>7 DEF n, e

\* Time does not go back from one id to a later one.
LEMMA LaterIds ==
    ASSUME PublisherInv, PacketsInv, NEW j, NEW k, Complete(j), Complete(k), j < k,
           NEW g \in DecodedHits(j), NEW h \in DecodedHits(k)
    PROVE  g.time <= h.time
<1>1. PICK m1 \in Modules : g \in Holds(m1, j + 1)
  BY DecodedHeld
<1>2. PICK m2 \in Modules : h \in Holds(m2, k + 1)
  BY DecodedHeld
<1>3. j + 1 \in Positions /\ k + 1 \in Positions /\ j + 1 < k + 1
  BY DEF Complete, Positions
<1>4. g.event <= h.event
  BY <1>1, <1>2, <1>3 DEF PacketsInv, InOrder
<1>5. /\ g.event \in 1 .. Len(events) /\ g.time = events[g.event].time
      /\ h.event \in 1 .. Len(events) /\ h.time = events[h.event].time
  BY <1>1, <1>2, <1>3, HitsInTime
<1>. QED
  BY <1>4, <1>5 DEF PublisherInv, LastParticle

------------------------------------------------------------------------------
(* What the analysis fills.                                                 *)

Pixels == [x: Int, y: Int, time: Nat]

HistTypes == hist_strip \in Seq(Pixels) /\ hist_interval \in Seq(Int)

Decodings == \A k \in decoded : Complete(k)

\* The vectors that wait are of the id that was decoded last.
VectorsLast ==
    \A v \in vectors : \E k \in decoded : v \in Vectors(k) /\ \A j \in decoded : j <= k

\* Something later than every pixel is decoded, ...
Behind(t) == \E k \in decoded : \E h \in DecodedHits(k) : t < h.time

\* ... and all that waits is later.
PixelsBehind ==
    \A i \in 1 .. Len(hist_strip) :
        /\ Behind(hist_strip[i].time)
        /\ \A v \in vectors : \A h \in v : hist_strip[i].time < h.time

Increasing ==
    \A i, j \in 1 .. Len(hist_strip) : i < j => hist_strip[i].time < hist_strip[j].time

LastPixel ==
    last_time = IF hist_strip = <<>> THEN -1 ELSE hist_strip[Len(hist_strip)].time

\* A pixel has the strips of the particles m and n, which came at its time, and whose
\* other hits were not decoded under id k if they are two.
HitBy(p, k, m, n) ==
    /\ events[m].x = p.x /\ events[m].time = p.time
    /\ events[n].y = p.y /\ events[n].time = p.time
    /\ FrontOf(events[m], m) \in DecodedHits(k) /\ BackOf(events[n], n) \in DecodedHits(k)
    /\ m # n => /\ BackOf(events[m], m) \notin DecodedHits(k)
               /\ FrontOf(events[n], n) \notin DecodedHits(k)
               /\ events[m].peak - events[n].peak \in -1 .. 1

PixelsHit ==
    \A i \in 1 .. Len(hist_strip) :
        \E k \in decoded : \E m, n \in 1 .. Len(events) : HitBy(hist_strip[i], k, m, n)

\* A vector that makes a pixel waits or is in the histogram.
AtTimeOf(i, v) == \A h \in v : hist_strip[i].time = h.time

Filled(v) == \E i \in 1 .. Len(hist_strip) : AtTimeOf(i, v)

AllFilled == \A k \in decoded : \A v \in Vectors(k) : Pairs(v) = {} \/ v \in vectors \/ Filled(v)

HistInv ==
    /\ HistTypes /\ Decodings /\ VectorsLast /\ PixelsBehind /\ Increasing /\ LastPixel
    /\ PixelsHit /\ AllFilled /\ IntervalsTelescope

\* Vectors as an operator of the hits.
VectorsOf(D) ==
    {{h \in D : h.time = g.time} : g \in {x \in D : \E y \in D : x.time < y.time}}

LEMMA VectorsAreOf == ASSUME NEW k PROVE Vectors(k) = VectorsOf(DecodedHits(k))
  BY DEF Vectors, VectorsOf

\* A vector holds the hits of one time, and something later was decoded.
LEMMA VectorTime ==
    ASSUME NEW D, NEW v \in VectorsOf(D)
    PROVE  \E g \in D : /\ v = {h \in D : h.time = g.time} /\ g \in v
                        /\ \E y \in D : g.time < y.time
  BY DEF VectorsOf

LEMMA HistInit == Init => HistInv
<1>. SUFFICES ASSUME Init PROVE HistInv
  OBVIOUS
<1>1. /\ decoded = {} /\ vectors = {} /\ last_time = -1 /\ hist_strip = <<>> /\ hist_interval = <<>>
      /\ Len(hist_strip) = 0 /\ Len(hist_interval) = 0 /\ DOMAIN hist_strip = {}
      /\ DOMAIN hist_interval = {}
  BY DEF Init
<1>2. HistTypes
  BY <1>1 DEF HistTypes
<1>3. Decodings /\ VectorsLast /\ PixelsBehind /\ Increasing /\ LastPixel /\ PixelsHit /\ AllFilled
  BY <1>1 DEF Decodings, VectorsLast, PixelsBehind, Increasing, LastPixel, PixelsHit, AllFilled
<1>4. IntervalsTelescope
  <2>1. 0 \in 0 .. Len(hist_strip)
    BY <1>1
  <2>. QED
    BY <1>1, <2>1 DEF IntervalsTelescope
<1>. QED
  BY <1>2, <1>3, <1>4 DEF HistInv

\* The publisher goes on.
LEMMA SimulateHist ==
    ASSUME PublisherInv, PublisherInv', HistInv, [Next]_vars, UNCHANGED onlineVars
    PROVE  HistInv'
<1>1. UNCHANGED <<decoded, vectors, last_time, hist_strip, hist_interval>>
  BY DEF onlineVars
<1>2. \A k \in decoded : Complete(k)' /\ DecodedHits(k)' = DecodedHits(k)
  BY DecodedStays DEF HistInv, Decodings
<1>3. \A k \in decoded : Vectors(k)' = Vectors(k)
  BY <1>2 DEF Vectors
<1>4. HistTypes' /\ Increasing' /\ LastPixel' /\ IntervalsTelescope'
  BY <1>1 DEF HistInv, HistTypes, Increasing, LastPixel, IntervalsTelescope
<1>5. Decodings' /\ VectorsLast' /\ PixelsBehind'
  BY <1>1, <1>2, <1>3 DEF HistInv, Decodings, VectorsLast, PixelsBehind, Behind
<1>6. AllFilled'
  BY <1>1, <1>3 DEF HistInv, AllFilled, Filled, AtTimeOf
<1>7. PixelsHit'
  <2>1. \A i \in 1 .. Len(events) : i \in 1 .. Len(events') /\ events'[i] = events[i]
    <3>1. events \in Seq(Particles)
      BY DEF PublisherInv, Types
    <3>2. CASE events' = events
      BY <3>2
    <3>3. CASE GenerateEvent
      <4>1. PICK e \in Particles : events' = Append(events, e)
        BY <3>3, GenerateEventKeeps
      <4>. QED
        BY <3>1, <4>1
    <3>4. GenerateEvent \/ events' = events
      BY DEF Next, Simulate, FirstPayload, StoreHit, PublishPacket, Stop, DecodePackets,
             FillOnlineGraph, simulationVars, vars
    <3>. QED
      BY <3>2, <3>3, <3>4
  <2>. QED
    <3>. SUFFICES ASSUME NEW i \in 1 .. Len(hist_strip)
                  PROVE  \E k \in decoded : \E m, n \in 1 .. Len(events') :
                            HitBy(hist_strip[i], k, m, n)'
      BY <1>1 DEF PixelsHit
    <3>1. PICK k \in decoded : \E m, n \in 1 .. Len(events) : HitBy(hist_strip[i], k, m, n)
      BY DEF HistInv, PixelsHit
    <3>2. PICK m \in 1 .. Len(events), n \in 1 .. Len(events) : HitBy(hist_strip[i], k, m, n)
      BY <3>1
    <3>3. events'[m] = events[m] /\ events'[n] = events[n] /\ DecodedHits(k)' = DecodedHits(k)
      BY <1>2, <2>1
    <3>4. HitBy(hist_strip[i], k, m, n)'
      BY <1>1, <3>2, <3>3 DEF HitBy
    <3>. QED
      BY <2>1, <3>4
<1>. QED
  BY <1>4, <1>5, <1>6, <1>7 DEF HistInv

\* Where the analysis goes on, the publisher waits.
LEMMA AnalysisApart ==
    ASSUME UNCHANGED simulationVars
    PROVE  \A k : /\ Complete(k)' <=> Complete(k)
                  /\ DecodedHits(k)' = DecodedHits(k)
                  /\ Vectors(k)' = Vectors(k)
<1>1. published' = published
  BY DEF simulationVars
<1>2. \A k : DecodedHits(k)' = DecodedHits(k)
  BY <1>1 DEF DecodedHits, HitsUnder
<1>3. \A k : Vectors(k)' = Vectors(k)
  BY <1>2 DEF Vectors
<1>. QED
  BY <1>1, <1>2, <1>3 DEF Complete

LEMMA SamePixelsHit ==
    ASSUME PixelsHit, UNCHANGED simulationVars, UNCHANGED hist_strip, decoded \subseteq decoded',
           \A k : DecodedHits(k)' = DecodedHits(k)
    PROVE  PixelsHit'
<1>1. events' = events
  BY DEF simulationVars
<1>. SUFFICES ASSUME NEW i \in 1 .. Len(hist_strip)
              PROVE  \E k \in decoded' : \E m, n \in 1 .. Len(events') :
                        HitBy(hist_strip[i], k, m, n)'
  BY DEF PixelsHit
<1>2. PICK k \in decoded : \E m, n \in 1 .. Len(events) : HitBy(hist_strip[i], k, m, n)
  BY DEF PixelsHit
<1>3. PICK m \in 1 .. Len(events), n \in 1 .. Len(events) : HitBy(hist_strip[i], k, m, n)
  BY <1>2
<1>4. HitBy(hist_strip[i], k, m, n)'
  BY <1>1, <1>3 DEF HitBy
<1>. QED
  BY <1>1, <1>4

\* The receiver decodes an id: all its hits are later than the pixels.
LEMMA DecodePacketsHist ==
    ASSUME PublisherInv, PacketsInv, HistInv, NEW k \in Ids, DecodePackets(k)
    PROVE  HistInv'
<1>1. /\ vectors = {} /\ decoded' = decoded \cup {k} /\ vectors' = Vectors(k)
      /\ \A m \in Modules : k \in PublishedIds(m)
      /\ \A j \in decoded : j < k
      /\ UNCHANGED <<last_time, hist_strip, hist_interval>> /\ UNCHANGED simulationVars
  BY DEF DecodePackets, Newer
<1>2. Complete(k)
  <2>1. k \in Nat
    BY SimulationAssumption DEF Ids
  <2>2. ASSUME NEW m \in Modules PROVE k + 1 <= Len(published[m])
    <3>1. published[m] \in Seq(Published)
      BY DEF PublisherInv, Types
    <3>2. PICK p \in ToSet(published[m]) : k = p.id
      BY <1>1 DEF PublishedIds
    <3>3. PICK i \in 1 .. Len(published[m]) : p = published[m][i]
      BY <3>1, <3>2 DEF ToSet
    <3>4. k = i - 1
      BY <3>2, <3>3 DEF PublisherInv, Turn
    <3>. QED
      BY <3>1, <3>4
  <2>. QED
    BY <2>1, <2>2 DEF Complete
<1>3. \A j : /\ Complete(j)' <=> Complete(j)
             /\ DecodedHits(j)' = DecodedHits(j)
             /\ Vectors(j)' = Vectors(j)
  BY <1>1, AnalysisApart
<1>4. HistTypes' /\ Increasing' /\ LastPixel' /\ IntervalsTelescope'
  BY <1>1 DEF HistInv, HistTypes, Increasing, LastPixel, IntervalsTelescope
<1>5. Decodings'
  BY <1>1, <1>2, <1>3 DEF HistInv, Decodings
<1>6. VectorsLast'
  <2>1. k \in Nat /\ \A j \in decoded : j <= k
    <3>1. \A j \in decoded : j \in Nat /\ j < k
      BY <1>1 DEF HistInv, Decodings, Complete
    <3>. QED
      BY <1>2, <3>1 DEF Complete
  <2>2. \A j \in decoded' : j <= k
    BY <1>1, <2>1
  <2>. QED
    BY <1>1, <1>3, <2>2 DEF VectorsLast
<1>7. PixelsBehind'
  <2>. SUFFICES ASSUME NEW i \in 1 .. Len(hist_strip)
                PROVE  /\ Behind(hist_strip[i].time)'
                       /\ \A v \in vectors' : \A h \in v : hist_strip[i].time < h.time
    BY <1>1 DEF PixelsBehind
  <2>1. PICK t \in Nat : t = hist_strip[i].time
    <3>1. hist_strip[i] \in Pixels
      BY DEF HistInv, HistTypes
    <3>. QED
      BY <3>1 DEF Pixels
  <2>2. PICK j \in decoded : \E h \in DecodedHits(j) : t < h.time
    BY <2>1 DEF HistInv, PixelsBehind, Behind
  <2>3. PICK y \in DecodedHits(j) : t < y.time
    BY <2>2
  <2>4. Behind(t)'
    BY <1>1, <1>3, <2>3 DEF Behind
  <2>5. ASSUME NEW v \in vectors', NEW h \in v PROVE t < h.time
    <3>1. h \in DecodedHits(k)
      BY <1>1, <2>5 DEF Vectors
    <3>2. Complete(j) /\ j < k
      BY <1>1 DEF HistInv, Decodings
    <3>3. y.time <= h.time
      BY <1>2, <3>1, <3>2, LaterIds
    <3>4. y.time \in Nat /\ h.time \in Nat
      <4>1. j + 1 \in Positions /\ k + 1 \in Positions
        BY <1>2, <3>2 DEF Complete, Positions
      <4>2. PICK m1 \in Modules : y \in Holds(m1, j + 1)
        BY <3>2, DecodedHeld
      <4>3. PICK m2 \in Modules : h \in Holds(m2, k + 1)
        BY <1>2, <3>1, DecodedHeld
      <4>. QED
        BY <4>1, <4>2, <4>3, HitsInTime
    <3>. QED
      BY <2>1, <2>3, <3>3, <3>4
  <2>. QED
    BY <1>1, <2>1, <2>4, <2>5
<1>8. PixelsHit'
  BY <1>1, <1>3, SamePixelsHit DEF HistInv
<1>9. AllFilled'
  <2>. SUFFICES ASSUME NEW j \in decoded', NEW v \in Vectors(j)
                PROVE  Pairs(v) = {} \/ v \in Vectors(k) \/ Filled(v)
    BY <1>1, <1>3 DEF AllFilled, Filled, AtTimeOf
  <2>1. CASE j = k
    BY <2>1
  <2>2. CASE j \in decoded
    BY <1>1, <2>2 DEF HistInv, AllFilled
  <2>. QED
    BY <1>1, <2>1, <2>2
<1>. QED
  BY <1>4, <1>5, <1>6, <1>7, <1>8, <1>9 DEF HistInv

\* The hits of a vector: they are decoded, have one time, and something later is decoded.
LEMMA VectorHits ==
    ASSUME PublisherInv, PacketsInv, HistInv, NEW k \in decoded, NEW v \in Vectors(k)
    PROVE  \E t \in Nat : /\ v = {h \in DecodedHits(k) : h.time = t}
                          /\ \E g \in v : g.time = t
                          /\ Behind(t)
<1>. DEFINE D == DecodedHits(k)
<1>1. v \in VectorsOf(D)
  BY VectorsAreOf
<1>2. Complete(k)
  BY DEF HistInv, Decodings
<1>3. \A h \in D : h.time \in Nat
  <2>. SUFFICES ASSUME NEW h \in D PROVE h.time \in Nat
    OBVIOUS
  <2>1. k + 1 \in Positions /\ \E m \in Modules : h \in Holds(m, k + 1)
    BY <1>2, DecodedHeld
  <2>. QED
    BY <2>1, HitsInTime
<1>. HIDE DEF D
<1>4. PICK g \in D : /\ v = {h \in D : h.time = g.time} /\ g \in v
                     /\ \E y \in D : g.time < y.time
  BY <1>1, VectorTime
<1>5. g.time \in Nat
  BY <1>3
<1>6. Behind(g.time)
  BY <1>4 DEF Behind, D
<1>. QED
  BY <1>4, <1>5, <1>6 DEF D

\* What is in the vector that comes first: the others are of the same id, and later.
LEMMA OthersLater ==
    ASSUME PublisherInv, PacketsInv, HistInv, NEW v \in vectors, NEW w \in vectors, v # w,
           \A g \in v, h \in w : g.time <= h.time
    PROVE  \A g \in v, h \in w : g.time < h.time
<1>1. PICK k \in decoded : v \in Vectors(k) /\ \A j \in decoded : j <= k
  BY DEF HistInv, VectorsLast
<1>2. PICK i \in decoded : w \in Vectors(i) /\ \A j \in decoded : j <= i
  BY DEF HistInv, VectorsLast
<1>3. i = k
  <2>1. i <= k /\ k <= i /\ i \in Nat /\ k \in Nat
    BY <1>1, <1>2 DEF HistInv, Decodings, Complete
  <2>. QED
    BY <2>1
<1>4. PICK t \in Nat : v = {h \in DecodedHits(k) : h.time = t}
  BY <1>1, VectorHits
<1>5. PICK u \in Nat : w = {h \in DecodedHits(k) : h.time = u}
  BY <1>2, <1>3, VectorHits
<1>6. t # u
  BY <1>4, <1>5
<1>. SUFFICES ASSUME NEW g \in v, NEW h \in w PROVE g.time < h.time
  OBVIOUS
<1>7. g.time = t /\ h.time = u /\ g.time <= h.time
  BY <1>4, <1>5
<1>. QED
  BY <1>6, <1>7

LEMMA ElementsFinite ==
    ASSUME NEW q, NEW n \in Int, DOMAIN q = 1 .. n
    PROVE  IsFiniteSet(ToSet(q))
<1>. DEFINE T == {q[i] : i \in 1 .. n}
            f == [i \in 1 .. n |-> q[i]]
<1>1. IsFiniteSet(1 .. n)
  BY FS_Interval
<1>2. f \in Surjection(1 .. n, T)
  BY DEF Surjection
<1>. HIDE DEF f
<1>3. IsFiniteSet(T)
  BY <1>1, <1>2, FS_Surjection
<1>. QED
  BY <1>3 DEF ToSet

LEMMA DecodedFinite ==
    ASSUME PublisherInv, NEW k, Complete(k)
    PROVE  IsFiniteSet(DecodedHits(k))
<1>. DEFINE T(m) == ToSet(Front(published[m][k + 1].hits))
            S == {T(m) : m \in Modules}
            f == [m \in Modules |-> T(m)]
<1>1. ASSUME NEW m \in Modules PROVE IsFiniteSet(T(m))
  <2>. DEFINE q == published[m][k + 1].hits
  <2>1. /\ published[m] \in Seq(Published) /\ k \in Nat /\ k + 1 <= Len(published[m])
    BY DEF PublisherInv, Types, Complete
  <2>2. published[m][k + 1] \in Published
    <3>1. k + 1 \in 1 .. Len(published[m])
      BY <2>1
    <3>. QED
      BY <2>1, <3>1, ElementOfSeq
  <2>3. q \in Seq(HitSet)
    BY <2>2 DEF Published
  <2>. HIDE DEF q
  <2>4. Len(q) - 1 \in Int /\ DOMAIN Front(q) = 1 .. Len(q) - 1
    BY <2>3 DEF Front
  <2>5. IsFiniteSet(ToSet(Front(q)))
    BY <2>4, ElementsFinite
  <2>. QED
    BY <2>5 DEF q
<1>2. IsFiniteSet(Modules)
  BY SimulationAssumption, FS_Interval DEF Modules
<1>3. DecodedHits(k) = UNION S
  BY DecodedFollowed DEF DecodedIsFollowed, Followed
<1>4. f \in Surjection(Modules, S)
  BY DEF Surjection
<1>5. \A x \in S : IsFiniteSet(x)
  BY <1>1
<1>. HIDE DEF f, S
<1>6. IsFiniteSet(S)
  BY <1>2, <1>4, FS_Surjection
<1>. QED
  BY <1>3, <1>5, <1>6, FS_UNION

LEMMA OnlyTwo ==
    ASSUME NEW v, IsFiniteSet(v), Cardinality(v) = 2, NEW a \in v, NEW b \in v, a # b
    PROVE  v = {a, b}
<1>1. IsFiniteSet({a}) /\ Cardinality({a}) = 1
  BY FS_Singleton
<1>2. Cardinality({a} \cup {b}) = 2
  BY <1>1, FS_AddElement
<1>3. {a} \cup {b} = {a, b}
  OBVIOUS
<1>4. {a, b} \in SUBSET v
  OBVIOUS
<1>. QED
  BY <1>2, <1>3, <1>4, FS_Subset

\* The two hits of a pair, which are all that was decoded of their time, were left by
\* particles at that time.
LEMMA PairHits ==
    ASSUME PublisherInv, PacketsInv, HistInv, NEW k \in decoded, NEW v \in Vectors(k),
           NEW p \in Pairs(v)
    PROVE  /\ p[1] \in v /\ p[2] \in v /\ p[1].time \in Nat /\ p[2].time = p[1].time
           /\ FrontStrip(p[1]) \in Int /\ BackStrip(p[2]) \in Int
           /\ \E m, n \in 1 .. Len(events) :
                 HitBy([x |-> FrontStrip(p[1]), y |-> BackStrip(p[2]), time |-> p[1].time],
                       k, m, n)
<1>1. /\ p[1] \in v /\ p[2] \in v /\ FrontHit(p[1]) /\ ~FrontHit(p[2])
      /\ EnergiesAgree(p[1], p[2]) /\ Cardinality(v) = 2
  BY DEF Pairs
<1>2. PICK t \in Nat : v = {h \in DecodedHits(k) : h.time = t}
  BY VectorHits
<1>. DEFINE f == p[1]
            b == p[2]
            D == DecodedHits(k)
            m == f.event
            n == b.event
            x == [x |-> FrontStrip(f), y |-> BackStrip(b), time |-> f.time]
<1>3. f \in D /\ b \in D /\ f.time = t /\ b.time = t
  BY <1>1, <1>2
<1>4. Complete(k)
  BY DEF HistInv, Decodings
<1>5. v = {f, b}
  <2>1. IsFiniteSet(v)
    BY <1>2, <1>4, DecodedFinite, FS_Subset
  <2>2. f # b
    BY <1>1
  <2>. HIDE DEF f, b
  <2>3. f \in v /\ b \in v
    BY <1>1 DEF f, b
  <2>. QED
    BY <1>1, <2>1, <2>2, <2>3, OnlyTwo
<1>. HIDE DEF f, b
<1>6. k + 1 \in Positions /\ \E m1 \in Modules : f \in Holds(m1, k + 1)
  BY <1>3, <1>4, DecodedHeld
<1>7. \E m2 \in Modules : b \in Holds(m2, k + 1)
  BY <1>3, <1>4, DecodedHeld
<1>8. PICK m1 \in Modules : f \in Holds(m1, k + 1)
  BY <1>6
<1>9. PICK m2 \in Modules : b \in Holds(m2, k + 1)
  BY <1>7
<1>10. m1 \in FrontSide /\ m2 \notin FrontSide
  BY <1>1, <1>6, <1>8, <1>9, HitsInTime DEF f, b
<1>11. /\ m \in 1 .. Len(events) /\ m \in Nat \ {0} /\ events[m] \in Particles
       /\ f.time = events[m].time /\ FrontStrip(f) = events[m].x /\ f = FrontOf(events[m], m)
  BY <1>6, <1>8, <1>10, HitsInTime
<1>12. /\ n \in 1 .. Len(events) /\ n \in Nat \ {0} /\ events[n] \in Particles
       /\ b.time = events[n].time /\ BackStrip(b) = events[n].y /\ b = BackOf(events[n], n)
  BY <1>6, <1>9, <1>10, HitsInTime
<1>13. FrontStrip(f) \in Int /\ BackStrip(b) \in Int
  BY <1>11, <1>12 DEF Particles
<1>. DEFINE bm == BackOf(events[m], m)
            fn == FrontOf(events[n], n)
<1>14. /\ f.peak = events[m].peak /\ bm.time = events[m].time /\ bm.event = m
       /\ f.event = m /\ bm.slot - 2 \in BackSide /\ f.slot - 2 \in FrontSide
  BY <1>11, ParticleHits
<1>15. /\ b.peak = events[n].peak /\ fn.time = events[n].time /\ fn.event = n
       /\ b.event = n /\ fn.slot - 2 \in FrontSide /\ b.slot - 2 \in BackSide
  BY <1>12, ParticleHits
<1>. HIDE DEF m, n, bm, fn, D
<1>16. ASSUME m # n PROVE bm \notin D /\ fn \notin D
  <2>1. f.slot - 2 # bm.slot - 2 /\ b.slot - 2 # fn.slot - 2
    BY <1>14, <1>15 DEF BackSide
  <2>2. bm # f /\ fn # b
    BY <2>1
  <2>3. bm # b /\ fn # f
    BY <1>14, <1>15, <1>16
  <2>4. bm.time = t /\ fn.time = t
    BY <1>3, <1>11, <1>12, <1>14, <1>15
  <2>. QED
    BY <1>2, <1>5, <2>2, <2>3, <2>4 DEF D
<1>17. events[m].peak - events[n].peak \in -1 .. 1
  BY <1>1, <1>14, <1>15 DEF EnergiesAgree, f, b
<1>18. x.x = events[m].x /\ events[m].time = x.time /\ x.y = events[n].y /\ events[n].time = x.time
  BY <1>3, <1>11, <1>12
<1>. HIDE DEF x
<1>19. HitBy(x, k, m, n)
  BY <1>3, <1>11, <1>12, <1>16, <1>17, <1>18 DEF HitBy, D, bm, fn
<1>. QED
  BY <1>1, <1>3, <1>11, <1>12, <1>13, <1>19 DEF f, b, x

\* The place after the last of n - z - 1 places behind z.
LEMMA LastPlace ==
    ASSUME NEW n \in Nat, NEW z \in Nat, z < n, NEW i, i = n - z - 1 + 1
    PROVE  z + i = n /\ z + i + 1 = n + 1
  OBVIOUS

\* The intervals stay the differences of successive times when a later pixel is filled.
LEMMA IntervalMore ==
    ASSUME HistInv, NEW p \in Pixels,
           \A i \in 1 .. Len(hist_strip) : hist_strip[i].time < p.time,
           hist_strip' = Append(hist_strip, p),
           hist_interval' = IF last_time > 0 THEN Append(hist_interval, p.time - last_time)
                            ELSE hist_interval
    PROVE  IntervalsTelescope'
<1>. DEFINE n == Len(hist_strip)
            l == Len(hist_interval)
<1>1. /\ hist_strip \in Seq(Pixels) /\ hist_interval \in Seq(Int) /\ n \in Nat /\ l \in Nat
      /\ DOMAIN hist_strip = 1 .. n /\ DOMAIN hist_interval = 1 .. l /\ p.time \in Nat
      /\ \A i \in 1 .. n : hist_strip[i].time \in Nat
      /\ n = Len(hist_strip) /\ l = Len(hist_interval)
  <2>1. hist_strip \in Seq(Pixels) /\ hist_interval \in Seq(Int)
    BY DEF HistInv, HistTypes
  <2>2. \A x \in Pixels : x.time \in Nat
    BY DEF Pixels
  <2>. QED
    BY <2>1, <2>2
<1>. HIDE DEF n, l
<1>2. /\ Len(hist_strip') = n + 1 /\ DOMAIN hist_strip' = 1 .. n + 1 /\ hist_strip'[n + 1] = p
      /\ \A i \in 1 .. n : hist_strip'[i] = hist_strip[i]
  BY <1>1
<1>3. PICK z \in 0 .. n :
         /\ \A i \in 1 .. n : hist_strip[i].time > 0 <=> i > z
         /\ l = IF z = n THEN 0 ELSE n - z - 1
         /\ \A i \in 1 .. l :
               /\ hist_interval[i] = hist_strip[z + i + 1].time - hist_strip[z + i].time
               /\ hist_interval[i] > 0
  <2>1. PICK z \in 0 .. Len(hist_strip) :
           /\ \A i \in DOMAIN hist_strip : hist_strip[i].time > 0 <=> i > z
           /\ Len(hist_interval) = IF z = Len(hist_strip) THEN 0 ELSE Len(hist_strip) - z - 1
           /\ \A i \in DOMAIN hist_interval :
                 /\ hist_interval[i] = hist_strip[z + i + 1].time - hist_strip[z + i].time
                 /\ hist_interval[i] > 0
    BY DEF HistInv, IntervalsTelescope
  <2>2. z \in 0 .. n
    BY <1>1
  <2>. QED
    BY <1>1, <2>1, <2>2
<1>6. n \in Nat /\ l \in Nat
  BY <1>1
<1>7. z \in Nat /\ z <= n
  BY <1>6
<1>8. (z = n => l = 0) /\ (z # n => l = n - z - 1)
  BY <1>3
<1>4. CASE n # 0 /\ last_time > 0
  <2>1. n \in 1 .. n /\ last_time = hist_strip[n].time /\ hist_strip # <<>>
    BY <1>1, <1>4 DEF HistInv, LastPixel
  <2>2. z < n /\ l = n - z - 1 /\ z \in Nat
    <3>1. n > z
      <4>1. hist_strip[n].time > 0
        BY <1>4, <2>1
      <4>. QED
        BY <1>3, <2>1, <4>1
    <3>. QED
      BY <1>6, <1>7, <1>8, <3>1
  <2>. DEFINE d == p.time - last_time
  <2>3. d \in Int /\ d > 0 /\ d = p.time - hist_strip[n].time
    BY <1>1, <2>1
  <2>. HIDE DEF d
  <2>4. hist_interval' = Append(hist_interval, d)
    BY <1>4 DEF d
  <2>5. /\ Len(hist_interval') = l + 1 /\ DOMAIN hist_interval' = 1 .. l + 1
        /\ hist_interval'[l + 1] = d
        /\ \A i \in 1 .. l : hist_interval'[i] = hist_interval[i]
    BY <1>1, <2>3, <2>4
  <2>6. p.time > 0
    BY <1>1, <1>4, <2>1, <2>3
  <2>7. ASSUME NEW i \in 1 .. n + 1 PROVE hist_strip'[i].time > 0 <=> i > z
    <3>1. CASE i \in 1 .. n
      BY <1>2, <1>3, <3>1
    <3>2. CASE i = n + 1
      <4>1. i > z /\ hist_strip'[i] = p
        BY <1>2, <1>6, <2>2, <3>2
      <4>. QED
        BY <2>6, <4>1
    <3>3. i \in 1 .. n \/ i = n + 1
      BY <1>6
    <3>. QED
      BY <3>1, <3>2, <3>3
  <2>8. ASSUME NEW i \in 1 .. l + 1
        PROVE  /\ hist_interval'[i] = hist_strip'[z + i + 1].time - hist_strip'[z + i].time
               /\ hist_interval'[i] > 0
    <3>1. CASE i \in 1 .. l
      <4>1. z + i \in 1 .. n /\ z + i + 1 \in 1 .. n
        BY <1>6, <2>2, <3>1
      <4>. QED
        BY <1>2, <1>3, <2>5, <3>1, <4>1
    <3>2. CASE i = l + 1
      <4>1. z + i = n /\ z + i + 1 = n + 1
        <5>1. i = n - z - 1 + 1
          BY <2>2, <3>2
        <5>. QED
          BY <1>6, <2>2, <5>1, LastPlace
      <4>2. hist_strip'[z + i] = hist_strip[n] /\ hist_strip'[z + i + 1] = p
        BY <1>2, <2>1, <4>1
      <4>. QED
        BY <2>3, <2>5, <3>2, <4>2
    <3>3. i \in 1 .. l \/ i = l + 1
      BY <1>6
    <3>. QED
      BY <3>1, <3>2, <3>3
  <2>9. z \in 0 .. n + 1 /\ l + 1 = IF z = n + 1 THEN 0 ELSE (n + 1) - z - 1
    BY <1>6, <2>2
  <2>10. z \in 0 .. Len(hist_strip')
    BY <1>2, <2>9
  <2>11. \A i \in DOMAIN hist_strip' : hist_strip'[i].time > 0 <=> i > z
    BY <1>2, <2>7
  <2>12. Len(hist_interval') = IF z = Len(hist_strip') THEN 0 ELSE Len(hist_strip') - z - 1
    BY <1>2, <2>5, <2>9
  <2>13. \A i \in DOMAIN hist_interval' :
            /\ hist_interval'[i] = hist_strip'[z + i + 1].time - hist_strip'[z + i].time
            /\ hist_interval'[i] > 0
    BY <2>5, <2>8
  <2>. QED
    BY <2>10, <2>11, <2>12, <2>13, Zenon DEF IntervalsTelescope
<1>5. CASE ~(n # 0 /\ last_time > 0)
  <2>1. n # 0 => n \in 1 .. n /\ last_time = hist_strip[n].time /\ hist_strip # <<>>
    BY <1>1 DEF HistInv, LastPixel
  <2>2. z = n
    <3>1. CASE n = 0
      BY <1>6, <1>7, <3>1
    <3>2. CASE n # 0
      <4>1. ~(hist_strip[n].time > 0) /\ n \in 1 .. n
        BY <1>5, <2>1, <3>2
      <4>2. ~(n > z)
        BY <1>3, <4>1
      <4>. QED
        BY <1>6, <1>7, <4>2
    <3>. QED
      BY <3>1, <3>2
  <2>3. l = 0
    BY <1>3, <2>2
  <2>4. hist_interval' = hist_interval
    <3>1. CASE n = 0
      <4>1. last_time = -1
        <5>1. hist_strip = <<>>
          BY <1>1, <3>1
        <5>. QED
          BY <5>1 DEF HistInv, LastPixel
      <4>. QED
        BY <4>1
    <3>2. CASE n # 0
      BY <1>5, <3>2
    <3>. QED
      BY <3>1, <3>2
  <2>. DEFINE y == IF p.time > 0 THEN n ELSE n + 1
  <2>5. y \in 0 .. n + 1 /\ 0 = IF y = n + 1 THEN 0 ELSE (n + 1) - y - 1
    BY <1>1
  <2>6. ASSUME NEW i \in 1 .. n + 1 PROVE hist_strip'[i].time > 0 <=> i > y
    <3>1. CASE i \in 1 .. n
      <4>1. ~(hist_strip'[i].time > 0)
        BY <1>2, <1>3, <2>2, <3>1
      <4>. QED
        BY <1>1, <3>1, <4>1
    <3>2. CASE i = n + 1
      BY <1>1, <1>2, <3>2
    <3>. QED
      BY <1>1, <3>1, <3>2
  <2>. HIDE DEF y
  <2>7. DOMAIN hist_interval' = {} /\ Len(hist_interval') = 0
    BY <1>1, <2>3, <2>4
  <2>. QED
    BY <1>2, <2>5, <2>6, <2>7 DEF IntervalsTelescope
<1>. QED
  BY <1>4, <1>5

\* What a waiting vector gives up, if it makes no pixel.
LEMMA NoPixelHist ==
    ASSUME HistInv, UNCHANGED simulationVars, UNCHANGED decoded, NEW v \in vectors,
           vectors' = vectors \ {v}, Pairs(v) = {},
           UNCHANGED <<last_time, hist_strip, hist_interval>>
    PROVE  HistInv'
<1>1. \A j : /\ Complete(j)' <=> Complete(j)
             /\ DecodedHits(j)' = DecodedHits(j)
             /\ Vectors(j)' = Vectors(j)
  BY AnalysisApart
<1>2. HistTypes' /\ Increasing' /\ LastPixel' /\ IntervalsTelescope'
  BY DEF HistInv, HistTypes, Increasing, LastPixel, IntervalsTelescope
<1>3. Decodings' /\ VectorsLast' /\ PixelsBehind'
  BY <1>1 DEF HistInv, Decodings, VectorsLast, PixelsBehind, Behind
<1>4. PixelsHit'
  BY <1>1, SamePixelsHit DEF HistInv
<1>5. AllFilled'
  BY <1>1 DEF HistInv, AllFilled, Filled, AtTimeOf
<1>. QED
  BY <1>2, <1>3, <1>4, <1>5 DEF HistInv

\* The first of the vectors that wait makes a pixel.
LEMMA PixelHist ==
    ASSUME PublisherInv, PacketsInv, HistInv, UNCHANGED simulationVars, UNCHANGED decoded,
           NEW v \in vectors, vectors' = vectors \ {v},
           \A w \in vectors : \A g \in v, h \in w : g.time <= h.time,
           NEW p \in Pairs(v),
           hist_strip' = Append(hist_strip, [x |-> FrontStrip(p[1]), y |-> BackStrip(p[2]),
                                             time |-> p[1].time]),
           hist_interval' = IF last_time > 0 THEN Append(hist_interval, p[1].time - last_time)
                            ELSE hist_interval,
           last_time' = p[1].time
    PROVE  HistInv'
<1>. DEFINE n == Len(hist_strip)
            x == [x |-> FrontStrip(p[1]), y |-> BackStrip(p[2]), time |-> p[1].time]
            t == p[1].time
<1>1. \A j : /\ Complete(j)' <=> Complete(j)
             /\ DecodedHits(j)' = DecodedHits(j)
             /\ Vectors(j)' = Vectors(j)
  BY AnalysisApart
<1>2. PICK k \in decoded : v \in Vectors(k) /\ \A j \in decoded : j <= k
  BY DEF HistInv, VectorsLast
<1>3. /\ p[1] \in v /\ p[2] \in v /\ t \in Nat
      /\ FrontStrip(p[1]) \in Int /\ BackStrip(p[2]) \in Int
      /\ \E a, b \in 1 .. Len(events) : HitBy(x, k, a, b)
  BY <1>2, PairHits
<1>4. PICK u \in Nat : v = {h \in DecodedHits(k) : h.time = u} /\ Behind(u)
  BY <1>2, VectorHits
<1>5. t = u /\ \A h \in v : h.time = t
  BY <1>3, <1>4
<1>6. x \in Pixels /\ x.time = t /\ x.x = FrontStrip(p[1]) /\ x.y = BackStrip(p[2])
  BY <1>3 DEF Pixels
<1>7. hist_strip' = Append(hist_strip, x) /\ last_time' = t
  OBVIOUS
<1>8. \E j \in decoded : \E a, b \in 1 .. Len(events) : HitBy(x, j, a, b)
  BY <1>2, <1>3
<1>9. \A i \in 1 .. n : hist_strip[i].time < t
  BY <1>3 DEF HistInv, PixelsBehind
<1>10. \A w \in vectors' : \A h \in w : t < h.time
  <2>. SUFFICES ASSUME NEW w \in vectors', NEW h \in w PROVE t < h.time
    OBVIOUS
  <2>1. w \in vectors /\ w # v
    OBVIOUS
  <2>2. \A g \in v, y \in w : g.time <= y.time
    BY <2>1
  <2>3. \A g \in v, y \in w : g.time < y.time
    BY <2>1, <2>2, OthersLater
  <2>. QED
    BY <1>3, <2>3
<1>11. IntervalsTelescope'
  <2>1. \A i \in 1 .. Len(hist_strip) : hist_strip[i].time < x.time
    BY <1>6, <1>9
  <2>2. hist_interval' = IF last_time > 0 THEN Append(hist_interval, x.time - last_time)
                         ELSE hist_interval
    BY <1>6
  <2>. HIDE DEF x
  <2>. QED
    BY <1>6, <1>7, <2>1, <2>2, IntervalMore
<1>. HIDE DEF x
<1>12. /\ hist_strip \in Seq(Pixels) /\ hist_interval \in Seq(Int) /\ n \in Nat
       /\ hist_strip' \in Seq(Pixels) /\ Len(hist_strip') = n + 1 /\ hist_strip'[n + 1] = x
       /\ \A i \in 1 .. n : hist_strip'[i] = hist_strip[i] /\ i \in 1 .. n + 1
       /\ n + 1 \in 1 .. n + 1
  <2>1. hist_strip \in Seq(Pixels) /\ hist_interval \in Seq(Int)
    BY DEF HistInv, HistTypes
  <2>. QED
    BY <1>6, <1>7, <2>1
<1>13. \A i \in 1 .. n + 1 : i \in 1 .. n \/ i = n + 1
  BY <1>12
<1>14. HistTypes'
  <2>1. last_time \in Int
    <3>1. CASE hist_strip = <<>>
      BY <3>1 DEF HistInv, LastPixel
    <3>2. CASE hist_strip # <<>>
      <4>1. n \in 1 .. n /\ last_time = hist_strip[n].time
        BY <1>12, <3>2 DEF HistInv, LastPixel
      <4>2. hist_strip[n] \in Pixels
        BY <1>12, <4>1
      <4>. QED
        BY <4>1, <4>2 DEF Pixels
    <3>. QED
      BY <3>1, <3>2
  <2>2. t - last_time \in Int
    BY <1>3, <2>1
  <2>3. Append(hist_interval, t - last_time) \in Seq(Int)
    BY <1>12, <2>2
  <2>4. hist_interval' = IF last_time > 0 THEN Append(hist_interval, t - last_time)
                         ELSE hist_interval
    OBVIOUS
  <2>. HIDE DEF t
  <2>5. hist_interval' \in Seq(Int)
    BY <1>12, <2>3, <2>4
  <2>. QED
    BY <1>12, <2>5 DEF HistTypes
<1>. HIDE DEF t
<1>15. Decodings' /\ VectorsLast'
  BY <1>1 DEF HistInv, Decodings, VectorsLast
<1>16. PixelsBehind'
  <2>. SUFFICES ASSUME NEW i \in 1 .. n + 1
                PROVE  /\ Behind(hist_strip[i].time)'
                       /\ \A w \in vectors' : \A h \in w : hist_strip'[i].time < h.time
    BY <1>12 DEF PixelsBehind
  <2>1. CASE i \in 1 .. n
    <3>1. Behind(hist_strip[i].time) /\ \A w \in vectors : \A h \in w : hist_strip[i].time < h.time
      BY <2>1 DEF HistInv, PixelsBehind
    <3>2. hist_strip'[i] = hist_strip[i]
      BY <1>12, <2>1
    <3>. QED
      BY <1>1, <3>1, <3>2 DEF Behind
  <2>2. CASE i = n + 1
    <3>1. hist_strip'[i].time = u
      BY <1>5, <1>6, <1>12, <2>2
    <3>2. Behind(hist_strip[i].time)'
      BY <1>1, <1>4, <3>1 DEF Behind
    <3>. QED
      BY <1>5, <1>10, <3>1, <3>2
  <2>. QED
    BY <1>13, <2>1, <2>2
<1>17. Increasing'
  <2>. SUFFICES ASSUME NEW i \in 1 .. n + 1, NEW j \in 1 .. n + 1, i < j
                PROVE  hist_strip'[i].time < hist_strip'[j].time
    BY <1>12 DEF Increasing
  <2>1. i \in 1 .. n
    BY <1>12
  <2>2. CASE j \in 1 .. n
    BY <1>12, <2>1, <2>2 DEF HistInv, Increasing
  <2>3. CASE j = n + 1
    BY <1>6, <1>9, <1>12, <2>1, <2>3
  <2>. QED
    BY <1>13, <2>2, <2>3
<1>18. LastPixel'
  <2>1. hist_strip' # <<>> /\ hist_strip'[Len(hist_strip')].time = t
    BY <1>6, <1>12
  <2>. QED
    BY <1>7, <2>1 DEF LastPixel
<1>19. PixelsHit'
  <2>1. \A i \in 1 .. n + 1 :
           \E j \in decoded : \E a, b \in 1 .. Len(events) : HitBy(hist_strip'[i], j, a, b)
    <3>. SUFFICES ASSUME NEW i \in 1 .. n + 1
                  PROVE  \E j \in decoded : \E a, b \in 1 .. Len(events) :
                            HitBy(hist_strip'[i], j, a, b)
      OBVIOUS
    <3>1. CASE i \in 1 .. n
      BY <1>12, <3>1 DEF HistInv, PixelsHit
    <3>2. CASE i = n + 1
      BY <1>8, <1>12, <3>2
    <3>. QED
      BY <1>13, <3>1, <3>2
  <2>2. events' = events
    BY DEF simulationVars
  <2>. SUFFICES ASSUME NEW i \in 1 .. n + 1
                PROVE  \E j \in decoded' : \E a, b \in 1 .. Len(events') :
                          HitBy(hist_strip[i], j, a, b)'
    BY <1>12 DEF PixelsHit
  <2>3. PICK j \in decoded : \E a, b \in 1 .. Len(events) : HitBy(hist_strip'[i], j, a, b)
    BY <2>1
  <2>4. PICK a \in 1 .. Len(events), b \in 1 .. Len(events) : HitBy(hist_strip'[i], j, a, b)
    BY <2>3
  <2>5. HitBy(hist_strip[i], j, a, b)'
    BY <1>1, <2>2, <2>4 DEF HitBy
  <2>. QED
    BY <2>2, <2>5
<1>20. AllFilled'
  <2>. SUFFICES ASSUME NEW j \in decoded, NEW w \in Vectors(j), Pairs(w) # {}, w \notin vectors'
                PROVE  Filled(w)'
    BY <1>1 DEF AllFilled
  <2>1. CASE w = v
    <3>1. \A h \in w : hist_strip'[n + 1].time = h.time
      BY <1>5, <1>6, <1>12, <2>1
    <3>. QED
      BY <1>12, <3>1 DEF Filled, AtTimeOf
  <2>2. CASE w # v
    <3>1. w \notin vectors
      BY <2>2
    <3>2. PICK i \in 1 .. n : \A h \in w : hist_strip[i].time = h.time
      BY <3>1 DEF HistInv, AllFilled, Filled, AtTimeOf
    <3>3. hist_strip'[i] = hist_strip[i] /\ i \in 1 .. n + 1
      BY <1>12
    <3>. QED
      BY <1>12, <3>2, <3>3 DEF Filled, AtTimeOf
  <2>. QED
    BY <2>1, <2>2
<1>. QED
  BY <1>11, <1>14, <1>15, <1>16, <1>17, <1>18, <1>19, <1>20 DEF HistInv

LEMMA FillOnlineGraphHist ==
    ASSUME PublisherInv, PacketsInv, HistInv, FillOnlineGraph
    PROVE  HistInv'
<1>1. UNCHANGED simulationVars /\ UNCHANGED decoded
  BY DEF FillOnlineGraph
<1>2. PICK v \in vectors : /\ \A w \in vectors : \A g \in v, h \in w : g.time <= h.time
                           /\ vectors' = vectors \ {v}
                           /\ Fill(v)
  BY DEF FillOnlineGraph
<1>3. CASE Pairs(v) = {}
  <2>1. UNCHANGED <<last_time, hist_strip, hist_interval>>
    BY <1>2, <1>3 DEF Fill
  <2>. QED
    BY <1>1, <1>2, <1>3, <2>1, NoPixelHist
<1>4. CASE Pairs(v) # {}
  <2>1. PICK p \in Pairs(v) :
           /\ hist_strip' = Append(hist_strip, [x |-> FrontStrip(p[1]), y |-> BackStrip(p[2]),
                                                time |-> p[1].time])
           /\ hist_interval' = IF last_time > 0 THEN Append(hist_interval, p[1].time - last_time)
                               ELSE hist_interval
           /\ last_time' = CurrentTime(p[1])
    BY <1>2, <1>4 DEF Fill
  <2>2. last_time' = p[1].time
    BY <2>1 DEF CurrentTime
  <2>. QED
    BY <1>1, <1>2, <2>1, <2>2, PixelHist
<1>. QED
  BY <1>3, <1>4

LEMMA HistStep ==
    PublisherInv /\ PacketsInv /\ HistInv /\ PublisherInv' /\ [Next]_vars => HistInv'
<1>. SUFFICES ASSUME PublisherInv, PacketsInv, HistInv, PublisherInv', [Next]_vars PROVE HistInv'
  OBVIOUS
<1>1. CASE UNCHANGED onlineVars
  BY <1>1, SimulateHist
<1>2. CASE \E k \in Ids : DecodePackets(k)
  BY <1>2, DecodePacketsHist
<1>3. CASE FillOnlineGraph
  BY <1>3, FillOnlineGraphHist
<1>. QED
  BY <1>1, <1>2, <1>3 DEF Next, vars

\* The invariant of the analysis, at every time.
THEOREM AnalysisInvariant == Spec => [](PublisherInv /\ PacketsInv /\ HistInv)
<1>1. Init => PublisherInv /\ PacketsInv /\ HistInv
  BY PublisherInit, NoPackets, HistInit
<1>2. PublisherInv /\ PacketsInv /\ HistInv /\ [Next]_vars
         => PublisherInv' /\ PacketsInv' /\ HistInv'
  BY PublisherStep, HistStep
<1>. QED
  BY <1>1, <1>2, PTL DEF Spec

\* The particles of a time, when there is only one.
LEMMA OnlyOne ==
    ASSUME PublisherInv, NEW t, Cardinality(At(t)) = 1, NEW n \in At(t)
    PROVE  At(t) = {n}
<1>1. IsFiniteSet(At(t))
  <2>1. events \in Seq(Particles)
    BY DEF PublisherInv, Types
  <2>2. IsFiniteSet(1 .. Len(events)) /\ At(t) \in SUBSET (1 .. Len(events))
    BY <2>1, FS_Interval DEF At
  <2>. QED
    BY <2>2, FS_Subset
<1>2. PICK y : At(t) = {y}
  BY <1>1, FS_Singleton
<1>. QED
  BY <1>2

LEMMA PixelsTrueFollows == PublisherInv /\ HistInv => PixelsTrue
<1>. SUFFICES ASSUME PublisherInv, HistInv, NEW i \in DOMAIN hist_strip
              PROVE  LET p == hist_strip[i] IN
                     \E k \in decoded : \E m, n \in At(p.time) :
                        /\ p.x = events[m].x /\ p.y = events[n].y
                        /\ FrontHitOf(m) \in DecodedHits(k) /\ BackHitOf(n) \in DecodedHits(k)
                        /\ m # n => /\ BackHitOf(m) \notin DecodedHits(k)
                                   /\ FrontHitOf(n) \notin DecodedHits(k)
                                   /\ events[m].peak - events[n].peak \in -1 .. 1
  BY DEF PixelsTrue
<1>. DEFINE p == hist_strip[i]
<1>1. i \in 1 .. Len(hist_strip) /\ DOMAIN events = 1 .. Len(events)
  BY DEF HistInv, HistTypes, PublisherInv, Types
<1>2. PICK k \in decoded : \E m, n \in 1 .. Len(events) : HitBy(p, k, m, n)
  BY <1>1 DEF HistInv, PixelsHit
<1>3. PICK m \in 1 .. Len(events), n \in 1 .. Len(events) : HitBy(p, k, m, n)
  BY <1>2
<1>. HIDE DEF p
<1>4. m \in At(p.time) /\ n \in At(p.time)
  BY <1>1, <1>3 DEF At, HitBy
<1>5. ASSUME NEW j \in 1 .. Len(events)
      PROVE  FrontHitOf(j) = FrontOf(events[j], j) /\ BackHitOf(j) = BackOf(events[j], j)
  <2>1. events[j] \in Particles /\ j \in Nat \ {0}
    BY DEF PublisherInv, Types
  <2>2. Hits(events[j], j) = <<FrontOf(events[j], j), BackOf(events[j], j)>>
    BY <2>1, ParticleHits
  <2>. QED
    BY <2>2 DEF FrontHitOf, BackHitOf
<1>6. /\ FrontHitOf(m) = FrontOf(events[m], m) /\ BackHitOf(m) = BackOf(events[m], m)
      /\ FrontHitOf(n) = FrontOf(events[n], n) /\ BackHitOf(n) = BackOf(events[n], n)
  BY <1>5
<1>. QED
  BY <1>3, <1>4, <1>6 DEF HitBy, p

\* The hits of a particle that is inside a decoded packet and alone in its time make a
\* vector with a pixel.
LEMMA InnerVector ==
    ASSUME PublisherInv, PacketsInv, HistInv, NEW k \in decoded, NEW n \in DOMAIN events,
           Inside(n, k), Cardinality(At(events[n].time)) = 1
    PROVE  \E v \in Vectors(k) : Pairs(v) # {} /\ \E h \in v : h.time = events[n].time
<1>. DEFINE D == DecodedHits(k)
            t == events[n].time
            f == FrontOf(events[n], n)
            b == BackOf(events[n], n)
            s == {h \in D : h.event = n}
            v == {h \in D : h.time = t}
<1>1. n \in Nat \ {0} /\ events[n] \in Particles
  BY DEF PublisherInv, Types
<1>2. Complete(k)
  BY DEF HistInv, Decodings
<1>3. n \in At(t)
  BY DEF At
<1>4. At(t) = {n}
  BY <1>3, OnlyOne
<1>5. /\ f.slot - 2 \in FrontSide /\ b.slot - 2 \in BackSide /\ f.peak = b.peak /\ f.peak \in 0 .. 2
      /\ f.time = t /\ b.time = t
  <2>1. events[n].peak \in 0 .. 2
    BY <1>1 DEF Particles
  <2>. QED
    BY <1>1, <2>1, ParticleHits
<1>6. Cardinality(s) = 2 /\ \E h \in D : h.time > t
  BY DEF Inside
<1>. HIDE DEF D, f, b
<1>7. ASSUME NEW h \in D
      PROVE  /\ h.event \in DOMAIN events /\ h.time = events[h.event].time
             /\ h.event = n => h \in {f, b}
  <2>1. k + 1 \in Positions /\ \E m \in Modules : h \in Holds(m, k + 1)
    BY <1>2, DecodedHeld DEF D
  <2>2. PICK m \in Modules : h \in Holds(m, k + 1)
    BY <2>1
  <2>3. /\ h.event \in 1 .. Len(events) /\ h.time = events[h.event].time
        /\ m \in FrontSide => h = FrontOf(events[h.event], h.event)
        /\ m \notin FrontSide => h = BackOf(events[h.event], h.event)
    BY <2>1, <2>2, HitsInTime
  <2>4. DOMAIN events = 1 .. Len(events)
    BY DEF PublisherInv, Types
  <2>. QED
    BY <2>3, <2>4 DEF f, b
<1>8. v = s
  <2>1. \A h \in D : h.time = t <=> h.event = n
    <3>. SUFFICES ASSUME NEW h \in D PROVE h.time = t <=> h.event = n
      OBVIOUS
    <3>1. h.time = t => h.event \in At(t)
      BY <1>7 DEF At
    <3>. QED
      BY <1>4, <1>7, <3>1
  <2>. HIDE DEF t
  <2>. QED
    BY <2>1
<1>9. s \subseteq {f, b}
  BY <1>7
<1>. HIDE DEF s
<1>10. f \in s /\ b \in s /\ f # b
  <2>1. \A y : ~(s \subseteq {y})
    <3>. SUFFICES ASSUME NEW y, s \subseteq {y} PROVE FALSE
      OBVIOUS
    <3>1. IsFiniteSet({y}) /\ Cardinality({y}) = 1 /\ s \in SUBSET {y}
      BY FS_Singleton
    <3>2. Cardinality(s) <= Cardinality({y})
      BY <3>1, FS_Subset
    <3>. QED
      BY <1>6, <3>1, <3>2
  <2>2. f \notin s => s \subseteq {b}
    BY <1>9
  <2>3. b \notin s => s \subseteq {f}
    BY <1>9
  <2>4. f = b => s \subseteq {b}
    BY <1>9
  <2>. QED
    BY <2>1, <2>2, <2>3, <2>4
<1>11. FrontHit(f) /\ ~FrontHit(b) /\ EnergiesAgree(f, b)
  <2>1. f.slot - 2 < FrontModules /\ b.slot - 2 >= FrontModules
    BY <1>5, ModuleTypes
  <2>2. b.slot - 2 \in Nat /\ FrontModules \in Nat
    BY <1>5, ModuleTypes
  <2>3. f.peak - b.peak = 0
    BY <1>5
  <2>. QED
    BY <2>1, <2>2, <2>3 DEF FrontHit, DecodedModule, EnergiesAgree
<1>12. <<f, b>> \in Pairs(v)
  <2>1. Cardinality(v) = 2 /\ <<f, b>> \in v \X v
    BY <1>6, <1>8, <1>10
  <2>. HIDE DEF v
  <2>. QED
    BY <1>11, <2>1 DEF Pairs
<1>13. v \in Vectors(k)
  <2>1. f \in D /\ f.time = t
    BY <1>5, <1>8, <1>10
  <2>2. \E h \in D : t < h.time
    <3>1. PICK h \in D : h.time > t
      BY <1>6
    <3>. QED
      BY <3>1
  <2>3. v \in VectorsOf(D)
    BY <2>1, <2>2 DEF VectorsOf
  <2>. QED
    BY <2>3, VectorsAreOf DEF D
<1>14. f \in v /\ f.time = t
  BY <1>5, <1>8, <1>10
<1>. QED
  BY <1>12, <1>13, <1>14

LEMMA InnerFilledFollows == PublisherInv /\ PacketsInv /\ HistInv => InnerParticlesFilled
<1>. SUFFICES ASSUME PublisherInv, PacketsInv, HistInv, vectors = {},
                     NEW k \in decoded, NEW n \in DOMAIN events,
                     Inside(n, k), Cardinality(At(events[n].time)) = 1
              PROVE  Cardinality({i \in DOMAIN hist_strip :
                                     hist_strip[i].time = events[n].time}) = 1
  BY DEF InnerParticlesFilled
<1>. DEFINE t == events[n].time
            s == {i \in DOMAIN hist_strip : hist_strip[i].time = t}
<1>1. PICK v \in Vectors(k) : Pairs(v) # {} /\ \E h \in v : h.time = t
  BY InnerVector
<1>2. Filled(v)
  BY <1>1 DEF HistInv, AllFilled
<1>3. DOMAIN hist_strip = 1 .. Len(hist_strip) /\ \A i \in 1 .. Len(hist_strip) : hist_strip[i] \in Pixels
  BY DEF HistInv, HistTypes
<1>4. PICK i \in 1 .. Len(hist_strip) : hist_strip[i].time = t
  BY <1>1, <1>2 DEF Filled, AtTimeOf
<1>5. \A j \in 1 .. Len(hist_strip) : hist_strip[j].time = t => j = i
  <2>. SUFFICES ASSUME NEW j \in 1 .. Len(hist_strip), hist_strip[j].time = t, j # i PROVE FALSE
    OBVIOUS
  <2>1. hist_strip[i].time \in Nat
    BY <1>3 DEF Pixels
  <2>2. j < i \/ i < j
    OBVIOUS
  <2>3. ~(hist_strip[j].time < hist_strip[i].time) /\ ~(hist_strip[i].time < hist_strip[j].time)
    BY <1>4, <2>1
  <2>. QED
    BY <2>2, <2>3 DEF HistInv, Increasing
<1>. HIDE DEF t
<1>6. s = {i}
  BY <1>3, <1>4, <1>5
<1>. QED
  BY <1>6, FS_Singleton DEF t

\* Every pixel is a particle's, or of two particles of one dead time and near energies that
\* each lost its other hit, for any sizes, any particles, torn or not, and whatever packets
\* the receiver misses.
THEOREM NoFalsePixel == Spec => []PixelsTrue
  BY AnalysisInvariant, PixelsTrueFollows, PTL

\* A particle alone in its dead time with both hits inside a decoded packet is filled, and
\* never twice.
THEOREM InnerParticlesAreFilled == Spec => []InnerParticlesFilled
  BY AnalysisInvariant, InnerFilledFollows, PTL

\* The intervals are the times between successive pixels, whatever packets were lost.
THEOREM IntervalsAreTimes == Spec => []IntervalsTelescope
<1>1. HistInv => IntervalsTelescope
  BY DEF HistInv
<1>. QED
  BY <1>1, AnalysisInvariant, PTL
==============================================================================
