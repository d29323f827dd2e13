--------------------------- MODULE FakeOnline_proofs ---------------------------
(***************************************************************************)
(* Theorems about the Pixie simulation, for any numbers of planes, strips  *)
(* and modules, any size of the FIFO, any particles and any order of the   *)
(* DAQ's calls: the stand-in driver loses hits only when a FIFO is full    *)
(* and acts as the FIFO the DAQ takes for granted, and particles are torn  *)
(* only forward.                                                           *)
(***************************************************************************)
EXTENDS FakeOnline, StreamLemmas, FiniteSetTheorems, SequenceTheorems, TLAPS

------------------------------------------------------------------------------
(* Particles and their hits.                                                *)

Particles ==
    [tx : Int, ty : Int, dx : Int, dy : Int, x : 0 .. Strips - 1 \cup {Missed},
     y : 0 .. Strips - 1, xlate : Int, ylate : Int, peak : Int, run : Nat, time : Nat]

HitSet == [module : Modules, slot : Int, channel : Nat, time : Int, value : Int, n : Nat]

\* The strips of a side are those of FrontModules modules, and both sides have as many.
LEMMA ModuleTypes ==
    /\ Channels \in Nat \ {0} /\ Strips \in Nat \ {0} /\ FrontModules \in Nat \ {0}
    /\ Strips = FrontModules * Channels /\ DssdModules = 2 * FrontModules
    /\ Modules = 0 .. 2 * FrontModules /\ Modules \subseteq Nat /\ 0 \in Modules
    /\ Planes \in Nat /\ Planes >= 2 /\ Wires = 4 * Planes /\ HalfSize \in Nat
    /\ FifoHits \in Nat /\ FrameParticles \in Nat /\ Threshold \in Nat
    /\ DeadTime \in Nat /\ SlotMap \in [Modules -> Int]
<1>. DEFINE f == Strips \div Channels
            d == (2 * Strips) \div Channels
<1>1. Channels \in Nat \ {0} /\ Strips \in Nat \ {0} /\ Strips % Channels = 0
  BY FakeAssumption
<1>2. f \in Int /\ d \in Int
  BY <1>1
<1>3. Strips = Channels * f + (Strips % Channels)
  BY <1>1
<1>4. 2 * Strips = Channels * d + ((2 * Strips) % Channels) /\ (2 * Strips) % Channels \in 0 .. Channels - 1
  BY <1>1
<1>. HIDE DEF f, d
<1>5. f \in Nat \ {0} /\ Strips = f * Channels
  <2>1. Strips = Channels * f
    BY <1>1, <1>2, <1>3
  <2>2. CASE f <= 0
    <3>1. Channels * f <= 0
      BY <1>1, <1>2, <2>2
    <3>. QED
      BY <1>1, <2>1, <3>1
  <2>. QED
    BY <1>1, <1>2, <2>1, <2>2
<1>6. d = 2 * f
  <2>. DEFINE r == (2 * Strips) % Channels
              e == 2 * f - d
  <2>1. r \in 0 .. Channels - 1 /\ e \in Int
    BY <1>2, <1>4
  <2>2. Channels * e = r
    <3>1. Channels * e = Channels * (2 * f) - Channels * d
      BY <1>1, <1>2
    <3>2. Channels * (2 * f) = 2 * Strips
      BY <1>1, <1>5
    <3>. QED
      BY <1>1, <1>2, <1>4, <3>1, <3>2
  <2>. HIDE DEF r, e
  <2>3. CASE e >= 1
    <3>1. Channels * e >= Channels
      BY <1>1, <2>1, <2>3
    <3>. QED
      BY <1>1, <2>1, <2>2, <3>1
  <2>4. CASE e <= -1
    <3>1. Channels * e <= -Channels
      BY <1>1, <2>1, <2>4
    <3>. QED
      BY <1>1, <2>1, <2>2, <3>1
  <2>5. CASE e = 0
    BY <1>2, <1>5, <2>5 DEF e
  <2>. QED
    BY <2>1, <2>3, <2>4, <2>5
<1>7. FrontModules = f /\ DssdModules = d
  BY DEF FrontModules, DssdModules, f, d
<1>8. /\ Modules = 0 .. DssdModules /\ Planes \in Nat /\ Planes >= 2 /\ Wires = 4 * Planes
      /\ HalfSize \in Nat /\ FifoHits \in Nat /\ FrameParticles \in Nat /\ Threshold \in Nat
      /\ DeadTime \in Nat /\ SlotMap \in [Modules -> 0 .. 15]
  BY FakeAssumption DEF Modules, Wires
<1>. QED
  BY <1>1, <1>5, <1>6, <1>7, <1>8

\* The hits a particle gives: the wires of a plane it crossed, the signal of a plane, and a
\* strip of either side.
WireHits(p, n, i) == Elements(Ends(p, n, i))
SignalHit(p, n, i) == MapPpacEvent(Wires + i, 0, p, n)
FrontHit(p, n) == MapDssdEvent(p.x, p.xlate, p, n)
BackHit(p, n) == MapDssdEvent(Strips + p.y, p.ylate, p, n)

IsHitOf(h, p, n) ==
    /\ p.x # Missed
    /\ \/ \E i \in 0 .. Planes - 1 : Crossed(p, i) /\ h \in WireHits(p, n, i)
       \/ \E i \in 0 .. Planes - 1 : h = SignalHit(p, n, i)
       \/ h = FrontHit(p, n)
       \/ h = BackHit(p, n)

LEMMA AtType ==
    ASSUME NEW p \in Particles, NEW i \in 0 .. Planes - 1
    PROVE  At(p, i).x \in Int /\ At(p, i).y \in Int
<1>1. p.tx \in Int /\ p.ty \in Int /\ p.dx \in Int /\ p.dy \in Int /\ i + 1 \in Int
  BY DEF Particles
<1>2. (i + 1) * p.dx \in Int /\ (i + 1) * p.dy \in Int
  BY <1>1
<1>. QED
  BY <1>1, <1>2 DEF At

LEMMA PpacType ==
    ASSUME NEW p \in Particles, NEW n \in Nat, NEW c \in Nat, NEW delay \in Int
    PROVE  MapPpacEvent(c, delay, p, n) \in HitSet /\ MapPpacEvent(c, delay, p, n).n = n
<1>1. p.time \in Nat /\ DeadTime \in Nat /\ 0 \in Modules
  BY ModuleTypes DEF Particles
<1>2. DeadTime * p.time + delay \in Int
  BY <1>1
<1>. QED
  BY <1>1, <1>2 DEF MapPpacEvent, HitSet

LEMMA DssdType ==
    ASSUME NEW p \in Particles, NEW n \in Nat, NEW s \in 0 .. 2 * Strips - 1, NEW late \in Int
    PROVE  MapDssdEvent(s, late, p, n) \in HitSet /\ MapDssdEvent(s, late, p, n).n = n
<1>. DEFINE d == s \div Channels
            c == s % Channels
            m == 2 * FrontModules
            t == DeadTime * p.time + late
<1>1. p.time \in Nat /\ p.peak \in Int /\ DeadTime \in Nat
  BY ModuleTypes DEF Particles
<1>2. m \in Nat \ {0} /\ 2 * Strips = m * Channels
  BY ModuleTypes
<1>. HIDE DEF m
<1>3. s \in 0 .. m * Channels - 1 /\ t \in Int
  BY <1>1, <1>2
<1>4. d \in 0 .. m - 1 /\ c \in 0 .. Channels - 1
  BY <1>2, <1>3, ModuleTypes, StripOfModule
<1>5. MapDssdEvent(s, late, p, n) =
         [module |-> d + 1, slot |-> SlotMap[d + 1], channel |-> c, time |-> t,
          value |-> p.peak, n |-> n]
  BY DEF MapDssdEvent
<1>. HIDE DEF d, c, t
<1>6. d + 1 \in Modules /\ c \in Nat
  <2>1. Modules = 0 .. m /\ Channels \in Nat \ {0}
    BY ModuleTypes DEF m
  <2>. QED
    BY <1>2, <1>4, <2>1
<1>7. SlotMap[d + 1] \in Int
  BY <1>6, ModuleTypes
<1>. QED
  BY <1>1, <1>3, <1>5, <1>6, <1>7 DEF HitSet

\* The ends of the wires of a plane.
LEMMA EndsType ==
    ASSUME NEW p \in Particles, NEW n \in Nat, NEW i \in 0 .. Planes - 1
    PROVE  /\ Ends(p, n, i) \in Seq(HitSet)
           /\ \A h \in WireHits(p, n, i) : h \in HitSet /\ h.n = n
<1>. DEFINE x == 2 * XStrip(At(p, i).x)
            y == 2 * YStrip(At(p, i).y)
            a == MapPpacEvent(4 * i, x, p, n)
            b == MapPpacEvent(4 * i + 1, 4 * HalfSize - x, p, n)
            c == MapPpacEvent(4 * i + 2, y, p, n)
            d == MapPpacEvent(4 * i + 3, 4 * HalfSize - y, p, n)
            q == <<a, b, c, d>>
<1>1. At(p, i).x \in Int /\ At(p, i).y \in Int /\ HalfSize \in Nat
  BY AtType, ModuleTypes
<1>2. XStrip(At(p, i).x) \in Int /\ YStrip(At(p, i).y) \in Int
  BY <1>1 DEF XStrip, YStrip
<1>3. /\ 4 * i \in Nat /\ 4 * i + 1 \in Nat /\ 4 * i + 2 \in Nat /\ 4 * i + 3 \in Nat
      /\ x \in Int /\ 4 * HalfSize - x \in Int /\ y \in Int /\ 4 * HalfSize - y \in Int
  BY <1>1, <1>2
<1>4. Ends(p, n, i) = q
  BY DEF Ends
<1>. HIDE DEF x, y
<1>5. /\ a \in HitSet /\ b \in HitSet /\ c \in HitSet /\ d \in HitSet
      /\ a.n = n /\ b.n = n /\ c.n = n /\ d.n = n
  <2>1. a \in HitSet /\ a.n = n
    BY <1>3, PpacType
  <2>2. b \in HitSet /\ b.n = n
    BY <1>3, PpacType
  <2>3. c \in HitSet /\ c.n = n
    BY <1>3, PpacType
  <2>4. d \in HitSet /\ d.n = n
    BY <1>3, PpacType
  <2>. QED
    BY <2>1, <2>2, <2>3, <2>4
<1>. HIDE DEF a, b, c, d
<1>6. q \in Seq(HitSet)
  BY <1>5
<1>7. Elements(q) = {a, b, c, d}
  <2>1. Len(q) = 4 /\ q[1] = a /\ q[2] = b /\ q[3] = c /\ q[4] = d
    OBVIOUS
  <2>2. 1 .. 4 = {1, 2, 3, 4}
    OBVIOUS
  <2>. HIDE DEF q
  <2>. QED
    BY <2>1, <2>2 DEF Elements
<1>. HIDE DEF q
<1>. QED
  BY <1>4, <1>5, <1>6, <1>7 DEF WireHits

\* Detect yields hits of its particle.
LEMMA DetectHits ==
    ASSUME NEW p \in Particles, NEW n \in Nat
    PROVE  /\ Detect(p, n) \in Seq(HitSet)
           /\ \A h \in Elements(Detect(p, n)) : IsHitOf(h, p, n)
<1>1. CASE p.x = Missed
  <2>1. Detect(p, n) = <<>>
    BY <1>1 DEF Detect
  <2>. QED
    BY <2>1, ElementsEmpty
<1>2. CASE p.x # Missed
  <2>. DEFINE q == [i \in 1 .. Planes |-> IF Crossed(p, i - 1) THEN Ends(p, n, i - 1) ELSE <<>>]
              w == FlattenSeq(q)
              s == [i \in 1 .. Planes |-> MapPpacEvent(Wires + i - 1, 0, p, n)]
              d == <<FrontHit(p, n), BackHit(p, n)>>
  <2>1. Planes \in Nat /\ Wires \in Nat /\ \A i \in 1 .. Planes : i - 1 \in 0 .. Planes - 1
    BY ModuleTypes
  <2>2. ASSUME NEW i \in 1 .. Planes PROVE q[i] \in Seq(HitSet)
    <3>1. Ends(p, n, i - 1) \in Seq(HitSet)
      BY <2>1, EndsType
    <3>. QED
      BY <3>1
  <2>3. q \in Seq(Seq(HitSet)) /\ Len(q) = Planes
    <3>. HIDE DEF q
    <3>1. DOMAIN q = 1 .. Planes /\ q = [i \in DOMAIN q |-> q[i]]
      BY DEF q
    <3>. QED
      BY <2>1, <2>2, <3>1
  <2>4. w \in Seq(HitSet)
    BY <2>3, FlattenType
  <2>5. ASSUME NEW h \in Elements(w) PROVE IsHitOf(h, p, n)
    <3>1. FromOne(q)
      BY <2>3, ElementsFlatten
    <3>2. PICK i \in 1 .. Planes : h \in Elements(q[i])
      BY <2>3, <2>5, <3>1 DEF FromOne
    <3>3. q[i] = IF Crossed(p, i - 1) THEN Ends(p, n, i - 1) ELSE <<>>
      OBVIOUS
    <3>4. Crossed(p, i - 1) /\ h \in WireHits(p, n, i - 1)
      <4>. HIDE DEF q
      <4>. QED
        BY <3>2, <3>3, ElementsEmpty DEF WireHits
    <3>5. i - 1 \in 0 .. Planes - 1
      BY <2>1
    <3>. QED
      BY <1>2, <3>4, <3>5 DEF IsHitOf
  <2>6. ASSUME NEW i \in 1 .. Planes PROVE s[i] \in HitSet /\ s[i] = SignalHit(p, n, i - 1)
    <3>1. Wires + i - 1 = Wires + (i - 1) /\ Wires + i - 1 \in Nat
      BY <2>1
    <3>. QED
      BY <3>1, PpacType DEF SignalHit
  <2>7. s \in Seq(HitSet) /\ Len(s) = Planes
    <3>. HIDE DEF s
    <3>1. DOMAIN s = 1 .. Planes /\ s = [i \in DOMAIN s |-> s[i]]
      BY DEF s
    <3>. QED
      BY <2>1, <2>6, <3>1
  <2>8. ASSUME NEW h \in Elements(s) PROVE IsHitOf(h, p, n)
    <3>1. PICK i \in 1 .. Planes : h = s[i]
      BY <2>7, <2>8 DEF Elements
    <3>2. h = SignalHit(p, n, i - 1) /\ i - 1 \in 0 .. Planes - 1
      BY <2>1, <2>6, <3>1
    <3>. QED
      BY <1>2, <3>2 DEF IsHitOf
  <2>9. FrontHit(p, n) \in HitSet /\ BackHit(p, n) \in HitSet
    <3>1. p.x \in 0 .. Strips - 1 /\ p.y \in 0 .. Strips - 1 /\ Strips \in Nat
      BY <1>2, ModuleTypes DEF Particles
    <3>2. p.x \in 0 .. 2 * Strips - 1 /\ Strips + p.y \in 0 .. 2 * Strips - 1
      BY <3>1
    <3>3. p.xlate \in Int /\ p.ylate \in Int
      BY DEF Particles
    <3>. QED
      BY <3>2, <3>3, DssdType DEF FrontHit, BackHit
  <2>10. d \in Seq(HitSet)
    BY <2>9
  <2>11. ASSUME NEW h \in Elements(d) PROVE IsHitOf(h, p, n)
    <3>1. h = FrontHit(p, n) \/ h = BackHit(p, n)
      <4>1. Len(d) = 2 /\ d[1] = FrontHit(p, n) /\ d[2] = BackHit(p, n)
        OBVIOUS
      <4>2. 1 .. 2 = {1, 2}
        OBVIOUS
      <4>. HIDE DEF d
      <4>. QED
        BY <2>11, <4>1, <4>2 DEF Elements
    <3>. QED
      BY <1>2, <3>1 DEF IsHitOf
  <2>12. Detect(p, n) = w \o s \o d
    BY <1>2 DEF Detect, FrontHit, BackHit
  <2>. HIDE DEF q, w, s, d
  <2>. DEFINE u == w \o s
  <2>13. u \in Seq(HitSet) /\ Elements(u) = Elements(w) \cup Elements(s)
    BY <2>4, <2>7, ElementsConcat
  <2>14. Detect(p, n) = u \o d
    BY <2>12
  <2>. HIDE DEF u
  <2>15. u \o d \in Seq(HitSet) /\ Elements(u \o d) = Elements(u) \cup Elements(d)
    BY <2>10, <2>13, ElementsConcat
  <2>. QED
    BY <2>5, <2>8, <2>11, <2>13, <2>14, <2>15
<1>. QED
  BY <1>1, <1>2

\* What all hits of a particle share.
LEMMA HitFields ==
    ASSUME NEW p \in Particles, NEW n \in Nat, NEW h, IsHitOf(h, p, n)
    PROVE  h \in HitSet /\ h.n = n
<1>1. p.x # Missed /\ Wires \in Nat
  BY ModuleTypes DEF IsHitOf
<1>2. CASE \E i \in 0 .. Planes - 1 : Crossed(p, i) /\ h \in WireHits(p, n, i)
  <2>1. PICK i \in 0 .. Planes - 1 : h \in WireHits(p, n, i)
    BY <1>2
  <2>. QED
    BY <2>1, EndsType
<1>3. CASE \E i \in 0 .. Planes - 1 : h = SignalHit(p, n, i)
  <2>1. PICK i \in 0 .. Planes - 1 : h = SignalHit(p, n, i)
    BY <1>3
  <2>2. Wires + i \in Nat /\ 0 \in Int
    BY <1>1
  <2>. DEFINE c == Wires + i
  <2>3. h = MapPpacEvent(c, 0, p, n)
    BY <2>1 DEF SignalHit
  <2>. HIDE DEF c
  <2>. QED
    BY <2>2, <2>3, PpacType DEF c
<1>4. CASE h = FrontHit(p, n) \/ h = BackHit(p, n)
  <2>1. /\ p.x \in 0 .. Strips - 1 /\ p.y \in 0 .. Strips - 1 /\ Strips \in Nat
        /\ p.xlate \in Int /\ p.ylate \in Int
    BY <1>1, ModuleTypes DEF Particles
  <2>2. p.x \in 0 .. 2 * Strips - 1 /\ Strips + p.y \in 0 .. 2 * Strips - 1
    BY <2>1
  <2>3. FrontHit(p, n) \in HitSet /\ FrontHit(p, n).n = n
    BY <2>1, <2>2, DssdType DEF FrontHit
  <2>4. BackHit(p, n) \in HitSet /\ BackHit(p, n).n = n
    BY <2>1, <2>2, DssdType DEF BackHit
  <2>. QED
    BY <1>4, <2>3, <2>4
<1>. QED
  BY <1>2, <1>3, <1>4 DEF IsHitOf

------------------------------------------------------------------------------
(* The hits of a sequence of particles, in their order.                     *)

\* The hits of a particle come before those of the particles after it.
InOrder(q) == \A i, j \in 1 .. Len(q) : i < j => q[i].n <= q[j].n

LEMMA OrderOfBoth ==
    ASSUME NEW a \in Seq(HitSet), NEW w \in Seq(HitSet), InOrder(a), InOrder(w),
           \A g \in Elements(a), h \in Elements(w) : g.n <= h.n
    PROVE  InOrder(a \o w)
<1>. DEFINE r == a \o w
            l == Len(a)
<1>1. /\ l \in Nat /\ Len(w) \in Nat /\ Len(r) = l + Len(w)
      /\ \A k \in 1 .. l : r[k] = a[k]
      /\ \A k \in 1 .. Len(w) : r[l + k] = w[k]
  BY ConcatParts
<1>. HIDE DEF r
<1>2. SUFFICES ASSUME NEW i \in 1 .. Len(r), NEW j \in 1 .. Len(r), i < j
               PROVE  r[i].n <= r[j].n
  BY DEF InOrder, r
<1>3. CASE j <= l
  <2>1. i \in 1 .. l /\ j \in 1 .. l
    BY <1>1, <1>2, <1>3
  <2>. QED
    BY <1>1, <1>2, <2>1 DEF InOrder
<1>4. CASE i > l
  <2>1. /\ i - l \in 1 .. Len(w) /\ j - l \in 1 .. Len(w) /\ i - l < j - l
        /\ l + (i - l) = i /\ l + (j - l) = j
    BY <1>1, <1>2, <1>4
  <2>2. r[i] = w[i - l] /\ r[j] = w[j - l]
    BY <1>1, <2>1
  <2>. QED
    BY <2>1, <2>2 DEF InOrder
<1>5. CASE i <= l /\ j > l
  <2>1. i \in 1 .. l /\ j - l \in 1 .. Len(w) /\ l + (j - l) = j
    BY <1>1, <1>2, <1>5
  <2>2. r[i] = a[i] /\ r[j] = w[j - l]
    BY <1>1, <2>1
  <2>3. r[i] \in Elements(a) /\ r[j] \in Elements(w)
    BY <2>1, <2>2 DEF Elements
  <2>. QED
    BY <2>3
<1>. QED
  BY <1>1, <1>3, <1>4, <1>5

\* The hits of each particle.
HitsOfEach(made, before) == [k \in DOMAIN made |-> Detect(made[k], before + k)]

LEMMA HitsOfEachType ==
    ASSUME NEW made \in Seq(Particles), NEW before \in Nat
    PROVE  /\ HitsOfEach(made, before) \in Seq(Seq(HitSet))
           /\ Len(HitsOfEach(made, before)) = Len(made)
           /\ \A k \in 1 .. Len(made) : HitsOfEach(made, before)[k] = Detect(made[k], before + k)
           /\ HitsOf(made, before) = FlattenSeq(HitsOfEach(made, before))
           /\ HitsOf(made, before) \in Seq(HitSet)
<1>. DEFINE q == HitsOfEach(made, before)
<1>1. /\ DOMAIN made = 1 .. Len(made) /\ Len(made) \in Nat
      /\ \A k \in 1 .. Len(made) : made[k] \in Particles /\ before + k \in Nat
  OBVIOUS
<1>2. ASSUME NEW k \in 1 .. Len(made) PROVE Detect(made[k], before + k) \in Seq(HitSet)
  BY <1>1, DetectHits
<1>3. /\ q \in Seq(Seq(HitSet)) /\ Len(q) = Len(made)
      /\ \A k \in 1 .. Len(made) : q[k] = Detect(made[k], before + k)
  BY <1>1, <1>2 DEF HitsOfEach
<1>4. HitsOf(made, before) = FlattenSeq(q)
  BY DEF HitsOf, HitsOfEach
<1>. HIDE DEF q
<1>5. FlattenSeq(q) \in Seq(HitSet)
  BY <1>3, FlattenType
<1>. QED
  BY <1>3, <1>4, <1>5 DEF q

LEMMA HitsOfNone == ASSUME NEW before \in Nat PROVE HitsOf(<<>>, before) = <<>>
<1>1. <<>> \in Seq(Particles) /\ Len(<<>>) = 0
  OBVIOUS
<1>2. HitsOf(<<>>, before) = FlattenSeq(HitsOfEach(<<>>, before))
  BY <1>1, HitsOfEachType
<1>3. HitsOfEach(<<>>, before) = <<>>
  BY DEF HitsOfEach
<1>. QED
  BY <1>2, <1>3, FlattenEmpty

\* The hits of one more particle.
LEMMA HitsOfAppend ==
    ASSUME NEW made \in Seq(Particles), NEW p \in Particles, NEW before \in Nat
    PROVE  HitsOf(Append(made, p), before)
              = HitsOf(made, before) \o Detect(p, before + Len(made) + 1)
<1>. DEFINE r == Append(made, p)
            l == Len(made)
            q == HitsOfEach(made, before)
            g == HitsOfEach(r, before)
            x == Detect(p, before + l + 1)
<1>1. /\ r \in Seq(Particles) /\ Len(r) = l + 1 /\ l \in Nat /\ r[l + 1] = p
      /\ \A k \in 1 .. l : r[k] = made[k]
  BY AppendProperties
<1>. HIDE DEF r
<1>2. /\ q \in Seq(Seq(HitSet)) /\ Len(q) = l
      /\ \A k \in 1 .. l : q[k] = Detect(made[k], before + k)
      /\ HitsOf(made, before) = FlattenSeq(q)
  BY HitsOfEachType
<1>3. /\ g \in Seq(Seq(HitSet)) /\ Len(g) = l + 1
      /\ \A k \in 1 .. l + 1 : g[k] = Detect(r[k], before + k)
      /\ HitsOf(r, before) = FlattenSeq(g)
  <2>1. Len(r) = l + 1 /\ r \in Seq(Particles)
    BY <1>1
  <2>. HIDE DEF l
  <2>. QED
    BY <2>1, HitsOfEachType
<1>. HIDE DEF q, g
<1>4. before + l + 1 \in Nat /\ before + (l + 1) = before + l + 1
  BY <1>1
<1>5. x \in Seq(HitSet)
  BY <1>4, DetectHits
<1>6. g[l + 1] = x /\ \A k \in 1 .. l : g[k] = q[k]
  <2>1. l + 1 \in 1 .. l + 1 /\ \A k \in 1 .. l : k \in 1 .. l + 1
    BY <1>1
  <2>2. g[l + 1] = Detect(r[l + 1], before + (l + 1))
    BY <1>3, <2>1
  <2>. QED
    BY <1>1, <1>2, <1>3, <1>4, <2>1, <2>2
<1>. HIDE DEF x, l
<1>7. g = Append(q, x)
  <2>1. DOMAIN g = 1 .. Len(q) + 1 /\ g = [k \in DOMAIN g |-> g[k]]
    BY <1>2, <1>3
  <2>. QED
    BY <1>2, <1>5, <1>6, <2>1, AppendPointwise
<1>8. FlattenSeq(Append(q, x)) = FlattenSeq(q) \o x
  BY <1>2, <1>5, FlattenAppend
<1>. QED
  BY <1>2, <1>3, <1>7, <1>8 DEF r, x, l

\* The hits of particles, and of more particles after them.
LEMMA HitsOfConcat ==
    ASSUME NEW made \in Seq(Particles), NEW more \in Seq(Particles), NEW before \in Nat
    PROVE  HitsOf(made \o more, before)
              = HitsOf(made, before) \o HitsOf(more, before + Len(made))
<1>. DEFINE r == made \o more
            l == Len(made)
            q == HitsOfEach(made, before)
            w == HitsOfEach(more, before + l)
            g == HitsOfEach(r, before)
<1>1. /\ r \in Seq(Particles) /\ Len(r) = l + Len(more) /\ l \in Nat /\ Len(more) \in Nat
      /\ \A k \in 1 .. l : r[k] = made[k]
      /\ \A k \in 1 .. Len(more) : r[l + k] = more[k]
  BY ConcatParts
<1>. HIDE DEF r
<1>2. /\ q \in Seq(Seq(HitSet)) /\ Len(q) = l
      /\ \A k \in 1 .. l : q[k] = Detect(made[k], before + k)
      /\ HitsOf(made, before) = FlattenSeq(q)
  BY HitsOfEachType
<1>3. before + l \in Nat
  BY <1>1
<1>. HIDE DEF l
<1>4. /\ w \in Seq(Seq(HitSet)) /\ Len(w) = Len(more)
      /\ \A k \in 1 .. Len(more) : w[k] = Detect(more[k], before + l + k)
      /\ HitsOf(more, before + l) = FlattenSeq(w)
  BY <1>3, HitsOfEachType
<1>5. /\ g \in Seq(Seq(HitSet)) /\ Len(g) = Len(r)
      /\ \A k \in 1 .. Len(r) : g[k] = Detect(r[k], before + k)
      /\ HitsOf(r, before) = FlattenSeq(g)
  BY <1>1, HitsOfEachType
<1>. HIDE DEF q, w, g
<1>6. \A k \in 1 .. Len(q) : g[k] = q[k]
  <2>1. \A k \in 1 .. l : k \in 1 .. Len(r)
    BY <1>1
  <2>. QED
    BY <1>1, <1>2, <1>5, <2>1
<1>7. ASSUME NEW k \in 1 .. Len(w) PROVE g[Len(q) + k] = w[k]
  <2>1. k \in 1 .. Len(more) /\ l + k \in 1 .. Len(r) /\ before + (l + k) = before + l + k
    BY <1>1, <1>4
  <2>2. g[l + k] = Detect(r[l + k], before + (l + k))
    BY <1>5, <2>1
  <2>. QED
    BY <1>1, <1>2, <1>4, <2>1, <2>2
<1>8. Len(g) = Len(q) + Len(w)
  BY <1>1, <1>2, <1>4, <1>5
<1>9. g = q \o w
  BY <1>2, <1>4, <1>5, <1>6, <1>7, <1>8, ConcatPointwise
<1>10. FlattenSeq(q \o w) = FlattenSeq(q) \o FlattenSeq(w)
  BY <1>2, <1>4, FlattenConcat
<1>. QED
  BY <1>2, <1>4, <1>5, <1>9, <1>10 DEF r, l

\* Hits of the particles made, each with the number of its own.
AreOf(q, made, before) ==
    \A h \in Elements(q) : /\ h \in HitSet /\ h.n \in before + 1 .. before + Len(made)
                           /\ IsHitOf(h, made[h.n - before], h.n)

LEMMA HitsOfOneMore ==
    ASSUME NEW made \in Seq(Particles), NEW p \in Particles, NEW before \in Nat,
           InOrder(HitsOf(made, before)), AreOf(HitsOf(made, before), made, before)
    PROVE  /\ InOrder(HitsOf(Append(made, p), before))
           /\ AreOf(HitsOf(Append(made, p), before), Append(made, p), before)
<1>. DEFINE r == Append(made, p)
            l == Len(made)
            q == HitsOf(made, before)
            x == Detect(p, before + l + 1)
<1>1. /\ Len(r) = l + 1 /\ l \in Nat /\ r[l + 1] = p
      /\ \A k \in 1 .. l : r[k] = made[k]
  BY AppendProperties
<1>2. HitsOf(r, before) = q \o x
  BY HitsOfAppend
<1>. HIDE DEF r, l
<1>3. before + l + 1 \in Nat
  BY <1>1
<1>4. q \in Seq(HitSet) /\ x \in Seq(HitSet) /\ \A h \in Elements(x) : IsHitOf(h, p, before + l + 1)
  BY <1>3, HitsOfEachType, DetectHits
<1>5. AreOf(q, made, before) /\ InOrder(q)
  OBVIOUS
<1>. HIDE DEF q, x
<1>6. \A h \in Elements(x) : h \in HitSet /\ h.n = before + l + 1
  BY <1>3, <1>4, HitFields
<1>7. InOrder(x)
  <2>1. \A i \in 1 .. Len(x) : x[i] \in Elements(x)
    BY DEF Elements
  <2>. QED
    BY <1>3, <1>6, <2>1 DEF InOrder
<1>8. ASSUME NEW h \in Elements(q)
      PROVE  /\ h \in HitSet /\ h.n \in before + 1 .. before + l /\ h.n - before \in 1 .. l
             /\ IsHitOf(h, r[h.n - before], h.n)
  <2>1. h \in HitSet /\ h.n \in before + 1 .. before + l /\ IsHitOf(h, made[h.n - before], h.n)
    BY <1>5, <1>8 DEF AreOf, l
  <2>2. h.n - before \in 1 .. l
    BY <1>1, <2>1
  <2>. QED
    BY <1>1, <2>1, <2>2
<1>9. \A g \in Elements(q), h \in Elements(x) : g.n <= h.n
  BY <1>1, <1>6, <1>8
<1>10. InOrder(q \o x)
  BY <1>4, <1>5, <1>7, <1>9, OrderOfBoth
<1>11. Elements(q \o x) = Elements(q) \cup Elements(x)
  BY <1>4, ElementsConcat
<1>12. AreOf(q \o x, r, before)
  <2>1. ASSUME NEW h \in Elements(q)
        PROVE  /\ h \in HitSet /\ h.n \in before + 1 .. before + Len(r)
               /\ IsHitOf(h, r[h.n - before], h.n)
    BY <1>1, <1>8
  <2>2. ASSUME NEW h \in Elements(x)
        PROVE  /\ h \in HitSet /\ h.n \in before + 1 .. before + Len(r)
               /\ IsHitOf(h, r[h.n - before], h.n)
    <3>1. h.n = before + l + 1 /\ h \in HitSet /\ IsHitOf(h, p, h.n)
      BY <1>4, <1>6
    <3>2. h.n - before = l + 1 /\ h.n \in before + 1 .. before + Len(r)
      BY <1>1, <3>1
    <3>. QED
      BY <1>1, <3>1, <3>2
  <2>. QED
    BY <1>11, <2>1, <2>2 DEF AreOf
<1>. QED
  BY <1>2, <1>10, <1>12 DEF r

LEMMA HitsOfParticles ==
    ASSUME NEW made \in Seq(Particles), NEW before \in Nat
    PROVE  InOrder(HitsOf(made, before)) /\ AreOf(HitsOf(made, before), made, before)
<1>. DEFINE Good(s) == InOrder(HitsOf(s, before)) /\ AreOf(HitsOf(s, before), s, before)
            T == {k \in Nat : \A s \in Seq(Particles) : Len(s) = k => Good(s)}
<1>1. 0 \in T
  <2>1. \A s \in Seq(Particles) : Len(s) = 0 => s = <<>>
    OBVIOUS
  <2>2. Good(<<>>)
    <3>1. HitsOf(<<>>, before) = <<>>
      BY HitsOfNone
    <3>2. 1 .. Len(<<>>) = {}
      OBVIOUS
    <3>. QED
      BY <3>1, <3>2, ElementsEmpty DEF InOrder, AreOf
  <2>. HIDE DEF Good
  <2>. QED
    BY <2>1, <2>2
<1>2. ASSUME NEW k \in Nat, k \in T PROVE k + 1 \in T
  <2>1. ASSUME NEW s \in Seq(Particles), Len(s) = k + 1 PROVE Good(s)
    <3>1. PICK a \in Seq(Particles), x \in Particles : s = Append(a, x) /\ Len(a) = k
      BY <2>1, FrontAndLast
    <3>2. Good(a)
      BY <1>2, <3>1
    <3>. HIDE DEF T
    <3>. QED
      BY <3>1, <3>2, HitsOfOneMore
  <2>. HIDE DEF Good
  <2>. QED
    BY <2>1
<1>. HIDE DEF T
<1>3. Nat \subseteq T
  BY <1>1, <1>2, NumberInduction
<1>4. Len(made) \in Nat
  OBVIOUS
<1>. QED
  BY <1>3, <1>4 DEF T

------------------------------------------------------------------------------
(* What FillAll does to the data of the modules.                            *)

Buffers == [Modules -> Seq(HitSet)]

\* The data before and after each hit.
Fills(f, d, q) ==
    f = [k \in 0 .. Len(q) |-> IF k = 0 THEN d ELSE FillBinaryData(f[k - 1], q[k])]

LEMMA FillType ==
    ASSUME NEW d \in Buffers, NEW h \in HitSet
    PROVE  /\ FillBinaryData(d, h) \in Buffers
           /\ \A m \in Modules :
                 FillBinaryData(d, h)[m] =
                    IF m = h.module /\ ~Full(d[m]) THEN Append(d[m], h) ELSE d[m]
<1>1. h.module \in Modules /\ \A m \in Modules : d[m] \in Seq(HitSet)
  BY DEF HitSet, Buffers
<1>2. \A m \in Modules : Append(d[m], h) \in Seq(HitSet)
  BY <1>1, AppendProperties
<1>3. CASE Full(d[h.module])
  BY <1>1, <1>3 DEF FillBinaryData
<1>4. CASE ~Full(d[h.module])
  <2>1. FillBinaryData(d, h) = [d EXCEPT ![h.module] = Append(d[h.module], h)]
    BY <1>4 DEF FillBinaryData
  <2>. QED
    BY <1>1, <1>2, <1>4, <2>1 DEF Buffers
<1>. QED
  BY <1>3, <1>4

LEMMA FillsExists ==
    ASSUME NEW d \in Buffers, NEW q \in Seq(HitSet)
    PROVE  \E f \in [0 .. Len(q) -> Buffers] : Fills(f, d, q)
<1>. DEFINE l == Len(q)
            step == [z \in (1 .. l) \X Buffers |-> FillBinaryData(z[2], q[z[1]])]
<1>1. l \in Nat /\ \A k \in 1 .. l : q[k] \in HitSet
  OBVIOUS
<1>2. step \in [(1 .. l) \X Buffers -> Buffers]
  <2>1. ASSUME NEW z \in (1 .. l) \X Buffers PROVE FillBinaryData(z[2], q[z[1]]) \in Buffers
    <3>1. z[2] \in Buffers /\ q[z[1]] \in HitSet
      BY <1>1
    <3>. QED
      BY <3>1, FillType
  <2>. QED
    BY <2>1
<1>3. ASSUME NEW k \in 1 .. l, NEW b \in Buffers PROVE step[<<k, b>>] = FillBinaryData(b, q[k])
  <2>1. <<k, b>> \in (1 .. l) \X Buffers /\ <<k, b>>[1] = k /\ <<k, b>>[2] = b
    OBVIOUS
  <2>. QED
    BY <2>1, Zenon
<1>. HIDE DEF step, l
<1>4. PICK f \in [0 .. l -> Buffers] : GoesOn(f, d, step, l)
  BY <1>1, <1>2, Recursion
<1>5. ASSUME NEW k \in 1 .. l PROVE f[k] = FillBinaryData(f[k - 1], q[k])
  <2>1. k - 1 \in 0 .. l
    BY <1>1
  <2>2. f[k - 1] \in Buffers
    BY <1>4, <2>1
  <2>. QED
    BY <1>3, <1>4, <2>2 DEF GoesOn
<1>6. f[0] = d
  BY <1>4 DEF GoesOn
<1>7. \A k \in 0 .. l : f[k] = IF k = 0 THEN d ELSE FillBinaryData(f[k - 1], q[k])
  <2>1. \A k \in 0 .. l : k = 0 \/ k \in 1 .. l
    BY <1>1
  <2>. QED
    BY <1>5, <1>6, <2>1
<1>8. f = [k \in 0 .. l |-> f[k]]
  BY <1>4
<1>9. Fills(f, d, q)
  BY <1>7, <1>8 DEF Fills, l
<1>. QED
  BY <1>4, <1>9 DEF l

\* Where two sequences of hits agree, so do the data.
LEMMA FillsAgree ==
    ASSUME NEW d, NEW p, NEW q, NEW f, NEW g, NEW m \in Nat, Fills(f, d, p), Fills(g, d, q),
           Len(p) \in Nat, Len(q) \in Nat, m <= Len(p), m <= Len(q), Agree(p, q, m)
    PROVE  f[m] = g[m]
<1>1. /\ \A k \in 0 .. m : f[k] = IF k = 0 THEN d ELSE FillBinaryData(f[k - 1], p[k])
      /\ \A k \in 0 .. m : g[k] = IF k = 0 THEN d ELSE FillBinaryData(g[k - 1], q[k])
  <2>1. f = [k \in 0 .. Len(p) |-> IF k = 0 THEN d ELSE FillBinaryData(f[k - 1], p[k])]
    BY DEF Fills
  <2>2. g = [k \in 0 .. Len(q) |-> IF k = 0 THEN d ELSE FillBinaryData(g[k - 1], q[k])]
    BY DEF Fills
  <2>3. \A k \in 0 .. m : k \in 0 .. Len(p) /\ k \in 0 .. Len(q)
    OBVIOUS
  <2>4. ASSUME NEW k \in 0 .. m
        PROVE  f[k] = IF k = 0 THEN d ELSE FillBinaryData(f[k - 1], p[k])
    BY <2>1, <2>3, Zenon
  <2>5. ASSUME NEW k \in 0 .. m
        PROVE  g[k] = IF k = 0 THEN d ELSE FillBinaryData(g[k - 1], q[k])
    BY <2>2, <2>3, Zenon
  <2>. QED
    BY <2>4, <2>5
<1>. DEFINE T == {n \in Nat : n <= m => f[n] = g[n]}
<1>2. 0 \in T
  BY <1>1
<1>3. ASSUME NEW n \in Nat, n \in T PROVE n + 1 \in T
  <2>. SUFFICES ASSUME n + 1 <= m PROVE f[n + 1] = g[n + 1]
    OBVIOUS
  <2>1. n + 1 \in 0 .. m /\ n + 1 \in 1 .. m /\ (n + 1) - 1 = n /\ n + 1 # 0 /\ n <= m
    OBVIOUS
  <2>2. f[n] = g[n]
    BY <1>3, <2>1
  <2>3. p[n + 1] = q[n + 1]
    BY <2>1 DEF Agree
  <2>. QED
    BY <1>1, <2>1, <2>2, <2>3
<1>. HIDE DEF T
<1>4. Nat \subseteq T
  BY <1>2, <1>3, NumberInduction
<1>5. m <= m
  OBVIOUS
<1>. QED
  BY <1>4, <1>5 DEF T

LEMMA FillAllChooses ==
    ASSUME NEW d \in Buffers, NEW q \in Seq(HitSet)
    PROVE  \E f \in [0 .. Len(q) -> Buffers] : Fills(f, d, q) /\ FillAll(d, q) = f[Len(q)]
<1>. DEFINE f == CHOOSE g : Fills(g, d, q)
<1>1. PICK g \in [0 .. Len(q) -> Buffers] : Fills(g, d, q)
  BY FillsExists
<1>2. Fills(f, d, q)
  BY <1>1
<1>3. FillAll(d, q) = f[Len(q)]
  BY DEF FillAll, Fills
<1>. HIDE DEF f
<1>4. Len(q) \in Nat /\ Len(q) <= Len(q) /\ Agree(q, q, Len(q))
  BY DEF Agree
<1>5. f[Len(q)] = g[Len(q)]
  BY <1>1, <1>2, <1>4, FillsAgree
<1>. QED
  BY <1>1, <1>3, <1>5

\* No hits, and one hit more.
LEMMA FillAllNone == ASSUME NEW d \in Buffers PROVE FillAll(d, <<>>) = d
<1>1. <<>> \in Seq(HitSet) /\ Len(<<>>) = 0
  OBVIOUS
<1>2. PICK f : Fills(f, d, <<>>) /\ FillAll(d, <<>>) = f[Len(<<>>)]
  BY <1>1, FillAllChooses
<1>3. f = [k \in 0 .. Len(<<>>) |-> IF k = 0 THEN d ELSE FillBinaryData(f[k - 1], <<>>[k])]
  BY <1>2 DEF Fills
<1>4. 0 \in 0 .. Len(<<>>)
  BY <1>1
<1>5. f[0] = d
  BY <1>3, <1>4, Zenon
<1>. QED
  BY <1>1, <1>2, <1>5

LEMMA FillAllAppend ==
    ASSUME NEW d \in Buffers, NEW q \in Seq(HitSet), NEW h \in HitSet
    PROVE  /\ FillAll(d, q) \in Buffers
           /\ FillAll(d, Append(q, h)) = FillBinaryData(FillAll(d, q), h)
<1>. DEFINE r == Append(q, h)
            l == Len(q)
<1>1. /\ r \in Seq(HitSet) /\ Len(r) = l + 1 /\ l \in Nat /\ r[l + 1] = h
      /\ \A k \in 1 .. l : r[k] = q[k]
  BY AppendProperties
<1>. HIDE DEF r
<1>2. PICK f \in [0 .. l -> Buffers] : Fills(f, d, q) /\ FillAll(d, q) = f[l]
  BY FillAllChooses
<1>3. PICK g : Fills(g, d, r) /\ FillAll(d, r) = g[l + 1]
  BY <1>1, FillAllChooses
<1>4. f[l] = g[l]
  <2>1. /\ l \in Nat /\ Len(q) \in Nat /\ Len(r) \in Nat /\ l <= Len(q) /\ l <= Len(r)
        /\ Agree(q, r, l)
    BY <1>1 DEF Agree
  <2>. HIDE DEF l
  <2>. QED
    BY <1>2, <1>3, <2>1, FillsAgree
<1>5. g[l + 1] = FillBinaryData(g[l], h)
  <2>1. g = [k \in 0 .. Len(r) |-> IF k = 0 THEN d ELSE FillBinaryData(g[k - 1], r[k])]
    BY <1>3 DEF Fills
  <2>2. l + 1 \in 0 .. Len(r) /\ l + 1 # 0 /\ (l + 1) - 1 = l
    BY <1>1
  <2>3. g[l + 1] = IF l + 1 = 0 THEN d ELSE FillBinaryData(g[(l + 1) - 1], r[l + 1])
    BY <2>1, <2>2, Zenon
  <2>. QED
    BY <1>1, <2>2, <2>3
<1>6. f[l] \in Buffers
  BY <1>1, <1>2
<1>. QED
  BY <1>2, <1>3, <1>4, <1>5, <1>6 DEF r

\* The hits of a module are those picked from all hits.
LEMMA OfModulePicked ==
    ASSUME NEW q \in Seq(HitSet), NEW m
    PROVE  /\ OfModule(m, q) = Picked({h \in HitSet : h.module = m}, q)
           /\ OfModule(m, q) \in Seq(HitSet)
<1>. DEFINE C == {h \in HitSet : h.module = m}
            c == [k \in DOMAIN q |-> IF q[k].module = m THEN <<q[k]>> ELSE <<>>]
<1>1. DOMAIN q = 1 .. Len(q)
  OBVIOUS
<1>2. ASSUME NEW k \in 1 .. Len(q) PROVE q[k] \in C <=> q[k].module = m
  <2>1. q[k] \in HitSet
    BY ElementOfSeq
  <2>. QED
    BY <2>1
<1>3. c = Chosen(C, q)
  <2>. HIDE DEF C
  <2>. QED
    BY <1>1, <1>2 DEF Chosen
<1>4. OfModule(m, q) = FlattenSeq(c)
  BY DEF OfModule
<1>5. Picked(C, q) \in Seq(HitSet)
  BY ChosenType
<1>. HIDE DEF C, c
<1>6. OfModule(m, q) = Picked(C, q)
  BY <1>3, <1>4 DEF Picked
<1>. QED
  BY <1>5, <1>6 DEF C

\* The hits of module m in two sequences, one behind the other.
OfBoth(m, q, r) == OfModule(m, q \o r) = OfModule(m, q) \o OfModule(m, r)

LEMMA OfModuleConcat ==
    ASSUME NEW q \in Seq(HitSet), NEW r \in Seq(HitSet), NEW m
    PROVE  OfBoth(m, q, r)
<1>. DEFINE C == {h \in HitSet : h.module = m}
<1>1. q \o r \in Seq(HitSet)
  OBVIOUS
<1>2. /\ OfModule(m, q) = Picked(C, q) /\ OfModule(m, r) = Picked(C, r)
      /\ OfModule(m, q \o r) = Picked(C, q \o r)
  BY <1>1, OfModulePicked
<1>. HIDE DEF C
<1>3. PicksSplit(C, q, r)
  BY PickedConcat
<1>. QED
  BY <1>2, <1>3 DEF PicksSplit, OfBoth

LEMMA OfModuleOne ==
    ASSUME NEW h \in HitSet, NEW m
    PROVE  /\ OfModule(m, <<>>) = <<>>
           /\ OfModule(m, <<h>>) = IF h.module = m THEN <<h>> ELSE <<>>
<1>. DEFINE C == {x \in HitSet : x.module = m}
<1>1. <<>> \in Seq(HitSet) /\ <<h>> \in Seq(HitSet)
  OBVIOUS
<1>2. OfModule(m, <<>>) = Picked(C, <<>>) /\ OfModule(m, <<h>>) = Picked(C, <<h>>)
  BY <1>1, OfModulePicked
<1>3. h \in C <=> h.module = m
  OBVIOUS
<1>. HIDE DEF C
<1>. QED
  BY <1>2, <1>3, PickedOne

LEMMA OfModuleAppend ==
    ASSUME NEW q \in Seq(HitSet), NEW h \in HitSet, NEW m
    PROVE  OfModule(m, Append(q, h))
              = IF h.module = m THEN Append(OfModule(m, q), h) ELSE OfModule(m, q)
<1>. DEFINE w == OfModule(m, q)
<1>1. <<h>> \in Seq(HitSet) /\ w \in Seq(HitSet)
  <2>1. w \in Seq(HitSet)
    BY OfModulePicked
  <2>. QED
    BY <2>1
<1>2. Append(q, h) = q \o <<h>>
  BY AppendIsConcat
<1>3. OfModule(m, q \o <<h>>) = w \o OfModule(m, <<h>>)
  BY <1>1, OfModuleConcat DEF OfBoth
<1>4. OfModule(m, <<h>>) = IF h.module = m THEN <<h>> ELSE <<>>
  BY OfModuleOne
<1>. HIDE DEF w
<1>5. w \o <<h>> = Append(w, h)
  BY <1>1, AppendIsConcat
<1>6. w \o <<>> = w
  BY <1>1, ConcatEmptySeq
<1>. QED
  BY <1>2, <1>3, <1>4, <1>5, <1>6 DEF w

\* In order up to the last hit.
LEMMA OrderOfAppend ==
    ASSUME NEW q \in Seq(HitSet), NEW h \in HitSet
    PROVE  InOrder(Append(q, h)) <=> InOrder(q) /\ \A g \in Elements(q) : g.n <= h.n
<1>. DEFINE r == Append(q, h)
            l == Len(q)
<1>1. /\ r \in Seq(HitSet) /\ Len(r) = l + 1 /\ l \in Nat /\ r[l + 1] = h
      /\ \A k \in 1 .. l : r[k] = q[k]
  BY AppendProperties
<1>. HIDE DEF r
<1>2. ASSUME InOrder(r) PROVE InOrder(q) /\ \A g \in Elements(q) : g.n <= h.n
  <2>1. \A k \in 1 .. l : k \in 1 .. Len(r) /\ k < l + 1
    BY <1>1
  <2>2. l + 1 \in 1 .. Len(r)
    BY <1>1
  <2>3. ASSUME NEW i \in 1 .. l, NEW j \in 1 .. l, i < j PROVE q[i].n <= q[j].n
    BY <1>1, <1>2, <2>1, <2>3 DEF InOrder
  <2>4. ASSUME NEW i \in 1 .. l PROVE q[i].n <= h.n
    BY <1>1, <1>2, <2>1, <2>2 DEF InOrder
  <2>. QED
    BY <2>3, <2>4 DEF InOrder, Elements
<1>3. ASSUME InOrder(q), \A g \in Elements(q) : g.n <= h.n PROVE InOrder(r)
  <2>. SUFFICES ASSUME NEW i \in 1 .. Len(r), NEW j \in 1 .. Len(r), i < j
                PROVE  r[i].n <= r[j].n
    BY DEF InOrder
  <2>1. i \in 1 .. l
    BY <1>1
  <2>2. CASE j = l + 1
    <3>1. q[i] \in Elements(q)
      BY <2>1 DEF Elements
    <3>. QED
      BY <1>1, <1>3, <2>1, <2>2, <3>1
  <2>3. CASE j # l + 1
    <3>1. j \in 1 .. l
      BY <1>1, <2>3
    <3>. QED
      BY <1>1, <1>3, <2>1, <3>1 DEF InOrder
  <2>. QED
    BY <2>2, <2>3
<1>. QED
  BY <1>2, <1>3 DEF r

\* What FillAll stores of the hits q in the data d of one module: hits of q in their
\* order, as many as fit, and all of the module if they all fit.
Stores(m, d, w, q) ==
    /\ w \in Seq(HitSet) /\ Elements(w) \subseteq Elements(q)
    /\ InOrder(q) => InOrder(w)
    /\ Len(d) <= FifoHits => Len(d \o w) <= FifoHits
    /\ Len(d) + Len(OfModule(m, q)) <= FifoHits => w = OfModule(m, q)

Stored(m, d, e, q) == \E w \in Seq(HitSet) : e = d \o w /\ Stores(m, d, w, q)

LEMMA StoredOneMore ==
    ASSUME NEW m \in Modules, NEW d \in Buffers, NEW q \in Seq(HitSet), NEW h \in HitSet,
           Stored(m, d[m], FillAll(d, q)[m], q)
    PROVE  Stored(m, d[m], FillAll(d, Append(q, h))[m], Append(q, h))
<1>. DEFINE e == FillAll(d, q)
            r == Append(q, h)
            u == OfModule(m, q)
            v == OfModule(m, r)
<1>1. e \in Buffers /\ FillAll(d, r) = FillBinaryData(e, h)
  BY FillAllAppend
<1>2. FillBinaryData(e, h)[m] = IF m = h.module /\ ~Full(e[m]) THEN Append(e[m], h) ELSE e[m]
  BY <1>1, FillType
<1>3. PICK w \in Seq(HitSet) : e[m] = d[m] \o w /\ Stores(m, d[m], w, q)
  BY DEF Stored
<1>4. v = IF h.module = m THEN Append(u, h) ELSE u
  BY OfModuleAppend
<1>5. Elements(r) = Elements(q) \cup {h}
  BY ElementsAppend
<1>6. InOrder(r) <=> InOrder(q) /\ \A g \in Elements(q) : g.n <= h.n
  BY OrderOfAppend
<1>7. u \in Seq(HitSet) /\ d[m] \in Seq(HitSet) /\ FifoHits \in Nat
  BY OfModulePicked, ModuleTypes DEF Buffers
<1>8. Len(u) \in Nat /\ Len(d[m]) \in Nat /\ Len(w) \in Nat /\ Len(Append(u, h)) = Len(u) + 1
  BY <1>7, AppendProperties
<1>9. Len(d[m] \o w) = Len(d[m]) + Len(w)
  BY <1>3, <1>7, ConcatParts
<1>10. /\ Elements(w) \subseteq Elements(q) /\ (InOrder(q) => InOrder(w))
       /\ (Len(d[m]) <= FifoHits => Len(d[m] \o w) <= FifoHits)
       /\ (Len(d[m]) + Len(u) <= FifoHits => w = u)
  BY <1>3 DEF Stores
<1>. DEFINE b == d[m]
            lb == Len(d[m])
            lw == Len(w)
            lu == Len(u)
            lv == Len(v)
            le == Len(e[m])
<1>. HIDE DEF e, r, u, v
<1>13. /\ lb \in Nat /\ lw \in Nat /\ lu \in Nat /\ le = lb + lw /\ FifoHits \in Nat
       /\ (lb + lu <= FifoHits => w = u /\ lw = lu)
       /\ (h.module = m => lv = lu + 1)
  BY <1>3, <1>4, <1>7, <1>8, <1>9, <1>10
<1>14. Full(e[m]) <=> le + 1 > FifoHits
  BY DEF Full
<1>. HIDE DEF lb, lw, lu, lv, le
<1>11. CASE m = h.module /\ ~Full(e[m])
  <2>. DEFINE x == Append(w, h)
  <2>1. /\ x \in Seq(HitSet) /\ Len(x) = Len(w) + 1
    BY AppendProperties
  <2>2. Elements(x) = Elements(w) \cup {h}
    BY ElementsAppend
  <2>3. InOrder(x) <=> InOrder(w) /\ \A g \in Elements(w) : g.n <= h.n
    BY OrderOfAppend
  <2>4. d[m] \o x = Append(d[m] \o w, h)
    <3>1. b \in Seq(HitSet)
      BY <1>7
    <3>. HIDE DEF b
    <3>2. b \o x = Append(b \o w, h)
      BY <3>1, ConcatAppend
    <3>. QED
      BY <3>2 DEF b
  <2>5. le + 1 <= FifoHits
    BY <1>11, <1>13, <1>14
  <2>6. Len(d[m] \o x) = Len(d[m]) + Len(x)
    BY <1>7, <2>1, ConcatParts
  <2>7. Len(d[m]) + Len(v) <= FifoHits => x = v
    <3>1. v = Append(u, h) /\ Len(v) = Len(u) + 1
      BY <1>4, <1>8, <1>11
    <3>2. lb + lv <= FifoHits => lb + lu <= FifoHits
      BY <1>11, <1>13
    <3>. QED
      BY <1>13, <3>1, <3>2 DEF lb, lv
  <2>8. Len(d[m] \o x) <= FifoHits
    <3>1. lb + (lw + 1) <= FifoHits
      BY <1>13, <2>5
    <3>. QED
      BY <2>1, <2>6, <3>1 DEF lb, lw
  <2>9. FillAll(d, r)[m] = d[m] \o x
    BY <1>1, <1>2, <1>3, <1>11, <2>4
  <2>. HIDE DEF x
  <2>10. Stores(m, d[m], x, r)
    BY <1>5, <1>6, <1>10, <2>1, <2>2, <2>3, <2>7, <2>8 DEF Stores, v
  <2>. QED
    BY <2>1, <2>9, <2>10 DEF Stored, r
<1>12. CASE ~(m = h.module /\ ~Full(e[m]))
  <2>1. FillAll(d, r)[m] = d[m] \o w
    BY <1>1, <1>2, <1>3, <1>12
  <2>2. Len(d[m]) + Len(v) <= FifoHits => w = v
    <3>1. CASE m # h.module
      BY <1>4, <1>10, <3>1
    <3>2. CASE m = h.module
      <4>1. le + 1 > FifoHits /\ lv = lu + 1
        BY <1>12, <1>13, <1>14, <3>2
      <4>2. ~(lb + lv <= FifoHits)
        BY <1>13, <4>1
      <4>. QED
        BY <4>2 DEF lb, lv
    <3>. QED
      BY <3>1, <3>2
  <2>3. Stores(m, d[m], w, r)
    BY <1>5, <1>6, <1>10, <2>2 DEF Stores, v
  <2>. QED
    BY <2>1, <2>3 DEF Stored, r
<1>. QED
  BY <1>11, <1>12

LEMMA FillAllStores ==
    ASSUME NEW d \in Buffers, NEW q \in Seq(HitSet)
    PROVE  /\ FillAll(d, q) \in Buffers
           /\ \A m \in Modules : Stored(m, d[m], FillAll(d, q)[m], q)
<1>. DEFINE Good(s) == /\ FillAll(d, s) \in Buffers
                       /\ \A m \in Modules : Stored(m, d[m], FillAll(d, s)[m], s)
            T == {k \in Nat : \A s \in Seq(HitSet) : Len(s) = k => Good(s)}
<1>1. 0 \in T
  <2>1. \A s \in Seq(HitSet) : Len(s) = 0 => s = <<>>
    OBVIOUS
  <2>2. Good(<<>>)
    <3>1. FillAll(d, <<>>) = d
      BY FillAllNone
    <3>2. ASSUME NEW m \in Modules PROVE Stored(m, d[m], d[m], <<>>)
      <4>1. d[m] \in Seq(HitSet) /\ d[m] \o <<>> = d[m]
        BY ConcatEmptySeq DEF Buffers
      <4>2. OfModule(m, <<>>) = <<>>
        BY FlattenEmpty DEF OfModule
      <4>3. <<>> \in Seq(HitSet)
        OBVIOUS
      <4>4. Stores(m, d[m], <<>>, <<>>)
        BY <4>1, <4>2, <4>3 DEF Stores
      <4>. QED
        BY <4>1, <4>3, <4>4 DEF Stored
    <3>. QED
      BY <3>1, <3>2
  <2>. HIDE DEF Good
  <2>. QED
    BY <2>1, <2>2
<1>2. ASSUME NEW k \in Nat, k \in T PROVE k + 1 \in T
  <2>1. ASSUME NEW s \in Seq(HitSet), Len(s) = k + 1 PROVE Good(s)
    <3>1. PICK a \in Seq(HitSet), x \in HitSet : s = Append(a, x) /\ Len(a) = k
      BY <2>1, FrontAndLast
    <3>2. Good(a)
      BY <1>2, <3>1
    <3>3. FillAll(d, s) \in Buffers
      BY <3>1, <3>2, FillAllAppend, FillType
    <3>4. ASSUME NEW m \in Modules PROVE Stored(m, d[m], FillAll(d, s)[m], s)
      BY <3>1, <3>2, StoredOneMore
    <3>. QED
      BY <3>3, <3>4
  <2>. HIDE DEF Good
  <2>. QED
    BY <2>1
<1>. HIDE DEF T
<1>3. Nat \subseteq T
  BY <1>1, <1>2, NumberInduction
<1>4. Len(q) \in Nat
  OBVIOUS
<1>. QED
  BY <1>3, <1>4 DEF T

------------------------------------------------------------------------------
(* The hits of the particles made so far, and what a frame adds to them.    *)

TrueHitsOf(made) == {h \in HitSet : h.n \in 1 .. Len(made) /\ IsHitOf(h, made[h.n], h.n)}

\* The sequences over a set are sequences over a larger one.
LEMMA SequencesOver ==
    ASSUME NEW S, NEW T, S \subseteq T, NEW q \in Seq(S)
    PROVE  q \in Seq(T)
<1>1. Len(q) \in Nat /\ q \in [1 .. Len(q) -> S]
  OBVIOUS
<1>2. q \in [1 .. Len(q) -> T]
  BY <1>1
<1>. QED
  BY <1>1, <1>2

\* A sequence whose elements are in a set is over that set.
LEMMA SequenceOfElements ==
    ASSUME NEW S, NEW T, NEW q \in Seq(S), Elements(q) \subseteq T
    PROVE  q \in Seq(T)
<1>1. Len(q) \in Nat /\ q \in [1 .. Len(q) -> S]
  OBVIOUS
<1>2. \A k \in 1 .. Len(q) : q[k] \in T
  BY DEF Elements
<1>3. q \in [1 .. Len(q) -> T]
  BY <1>1, <1>2
<1>. QED
  BY <1>1, <1>3

\* What was true of the particles made stays true when more are made.
LEMMA StillTrue ==
    ASSUME NEW made \in Seq(Particles), NEW new \in Seq(Particles)
    PROVE  /\ made \o new \in Seq(Particles)
           /\ Len(made \o new) = Len(made) + Len(new) /\ Len(made) \in Nat /\ Len(new) \in Nat
           /\ \A n \in 1 .. Len(made) : n \in 1 .. Len(made \o new) /\ (made \o new)[n] = made[n]
           /\ TrueHitsOf(made) \subseteq TrueHitsOf(made \o new)
<1>. DEFINE r == made \o new
<1>1. /\ r \in Seq(Particles) /\ Len(r) = Len(made) + Len(new)
      /\ Len(made) \in Nat /\ Len(new) \in Nat
      /\ \A n \in 1 .. Len(made) : r[n] = made[n]
  BY ConcatParts
<1>. HIDE DEF r
<1>2. \A n \in 1 .. Len(made) : n \in 1 .. Len(r)
  BY <1>1
<1>3. TrueHitsOf(made) \subseteq TrueHitsOf(r)
  BY <1>1, <1>2 DEF TrueHitsOf
<1>. QED
  BY <1>1, <1>2, <1>3 DEF r

\* The hits of new particles are true of them, in their order and with later numbers.
NewHits(made, new) == {h \in TrueHitsOf(made \o new) : h.n > Len(made)}

LEMMA NewHitsTrue ==
    ASSUME NEW made \in Seq(Particles), NEW new \in Seq(Particles)
    PROVE  /\ HitsOf(new, Len(made)) \in Seq(HitSet) /\ InOrder(HitsOf(new, Len(made)))
           /\ Elements(HitsOf(new, Len(made))) \subseteq NewHits(made, new)
<1>. DEFINE l == Len(made)
            r == made \o new
            q == HitsOf(new, l)
<1>1. l \in Nat
  OBVIOUS
<1>2. q \in Seq(HitSet) /\ InOrder(q) /\ AreOf(q, new, l)
  BY <1>1, HitsOfEachType, HitsOfParticles
<1>3. /\ Len(r) = l + Len(new) /\ Len(new) \in Nat
      /\ \A n \in 1 .. Len(new) : r[l + n] = new[n]
  BY ConcatParts
<1>. HIDE DEF q, r, l
<1>4. ASSUME NEW h \in Elements(q) PROVE h \in TrueHitsOf(r) /\ h.n > l
  <2>1. /\ h \in HitSet /\ h.n \in l + 1 .. l + Len(new)
        /\ IsHitOf(h, new[h.n - l], h.n)
    BY <1>2 DEF AreOf
  <2>2. h.n - l \in 1 .. Len(new) /\ l + (h.n - l) = h.n /\ h.n \in 1 .. Len(r) /\ h.n > l
    BY <1>1, <1>3, <2>1
  <2>3. r[h.n] = new[h.n - l]
    BY <1>3, <2>2
  <2>. QED
    BY <2>1, <2>2, <2>3 DEF TrueHitsOf
<1>. QED
  BY <1>2, <1>4 DEF NewHits, q, r, l

\* What a frame of new particles appends to the data d of module m.
FrameAdds(m, d, e, made, new) ==
    \E w \in Seq(HitSet) :
        /\ e = d \o w /\ Len(e) <= FifoHits
        /\ Elements(w) \subseteq NewHits(made, new) /\ InOrder(w)
        /\ Len(d) + Len(OfModule(m, HitsOf(new, Len(made)))) <= FifoHits
              => w = OfModule(m, HitsOf(new, Len(made)))

LEMMA FrameData ==
    ASSUME NEW made \in Seq(Particles), NEW new \in Seq(Particles),
           NEW d \in [Modules -> Seq(TrueHitsOf(made))],
           \A m \in Modules : Len(d[m]) <= FifoHits
    PROVE  LET e == FillAll(d, HitsOf(new, Len(made))) IN
           /\ e \in [Modules -> Seq(TrueHitsOf(made \o new))]
           /\ \A m \in Modules : FrameAdds(m, d[m], e[m], made, new)
<1>. DEFINE q == HitsOf(new, Len(made))
            e == FillAll(d, q)
            T == TrueHitsOf(made \o new)
<1>1. q \in Seq(HitSet) /\ InOrder(q) /\ Elements(q) \subseteq NewHits(made, new)
  BY NewHitsTrue
<1>2. TrueHitsOf(made) \subseteq T /\ T \subseteq HitSet /\ NewHits(made, new) \subseteq T
  BY StillTrue DEF TrueHitsOf, NewHits
<1>3. \A m \in Modules : d[m] \in Seq(T) /\ d[m] \in Seq(HitSet)
  <2>1. \A m \in Modules : d[m] \in Seq(TrueHitsOf(made))
    OBVIOUS
  <2>. HIDE DEF T
  <2>2. TrueHitsOf(made) \subseteq HitSet
    BY <1>2
  <2>. QED
    BY <1>2, <2>1, <2>2, SequencesOver
<1>4. d \in Buffers
  BY <1>3 DEF Buffers
<1>. HIDE DEF q
<1>5. e \in Buffers /\ \A m \in Modules : Stored(m, d[m], e[m], q)
  BY <1>1, <1>4, FillAllStores
<1>. HIDE DEF e, T
<1>6. ASSUME NEW m \in Modules
      PROVE  FrameAdds(m, d[m], e[m], made, new) /\ e[m] \in Seq(T)
  <2>1. PICK w \in Seq(HitSet) : e[m] = d[m] \o w /\ Stores(m, d[m], w, q)
    BY <1>5 DEF Stored
  <2>2. /\ Elements(w) \subseteq NewHits(made, new) /\ InOrder(w) /\ Len(e[m]) <= FifoHits
        /\ Len(d[m]) + Len(OfModule(m, q)) <= FifoHits => w = OfModule(m, q)
    BY <1>1, <2>1 DEF Stores
  <2>3. FrameAdds(m, d[m], e[m], made, new)
    BY <2>1, <2>2 DEF FrameAdds, q
  <2>4. w \in Seq(T)
    <3>1. Elements(w) \subseteq T
      BY <1>2, <2>2
    <3>. QED
      BY <3>1, SequenceOfElements
  <2>5. e[m] \in Seq(T)
    BY <1>3, <2>1, <2>4, ConcatParts
  <2>. QED
    BY <2>3, <2>5
<1>7. e \in [Modules -> Seq(T)]
  BY <1>5, <1>6 DEF Buffers
<1>. QED
  BY <1>6, <1>7 DEF e, q, T

------------------------------------------------------------------------------
(* The driver's state, and what the DAQ's calls do to it.                   *)

TrueHits == TrueHitsOf(particles)

PixieTypes ==
    /\ module_status \in {"Init", "Ready", "Running"}
    /\ count \in Nat /\ detect_time \in Nat /\ runs \in Nat /\ stopping \in BOOLEAN
    /\ query \in 0 .. DssdModules + 1 /\ nwords \in [Modules -> Nat]
    /\ particles \in Seq(Particles)
    /\ data \in [Modules -> Seq(TrueHits)] /\ delivered \in [Modules -> Seq(TrueHits)]
    /\ \A m \in Modules : Len(data[m]) <= FifoHits

\* Modules that were asked still have what they answered.
Answered == \A m \in Modules : m < query => nwords[m] <= Len(data[m])

\* What a step does to the data: nothing, ...
DataKept == UNCHANGED <<data, delivered, particles>>

\* ... a frame of new particles, ...
FrameMade ==
    \E new \in Seq(Particles) :
        /\ particles' = particles \o new
        /\ data' = FillAll(data, HitsOf(new, Len(particles)))
        /\ UNCHANGED delivered

\* ... or taking away the first hits of each module.
HitsTaken(taken) ==
    /\ delivered' = [m \in Modules |-> delivered[m] \o SubSeq(data[m], 1, taken[m])]
    /\ data' = [m \in Modules |-> SubSeq(data[m], taken[m] + 1, Len(data[m]))]
    /\ UNCHANGED particles

\* How much may be taken away.
Takings == {t \in [Modules -> Nat] : \A m \in Modules : t[m] <= Len(data[m])}

LEMMA ClockType ==
    ASSUME PixieTypes, NEW frame \in [1 .. FrameParticles -> Shots],
           NEW k \in 0 .. FrameParticles
    PROVE  Clock(frame, k) \in Nat
<1>. DEFINE L == {j \in 1 .. k : frame[j].long}
<1>1. IsFiniteSet(1 .. k)
  BY FS_Interval
<1>2. IsFiniteSet(L)
  BY <1>1, FS_Subset
<1>3. Cardinality(L) \in Nat
  BY <1>2, FS_CardinalityType
<1>. HIDE DEF L
<1>4. detect_time + Cardinality(L) \in Nat
  BY <1>3 DEF PixieTypes
<1>. QED
  BY <1>4 DEF Clock, L

LEMMA TimedType ==
    ASSUME PixieTypes, NEW frame \in [1 .. FrameParticles -> Shots]
    PROVE  Timed(frame) \in Seq(Particles) /\ Clock(frame, FrameParticles) \in Nat
<1>1. FrameParticles \in Nat /\ runs \in Nat
  BY ModuleTypes DEF PixieTypes
<1>2. ASSUME NEW k \in 1 .. FrameParticles PROVE Particle(frame[k], Clock(frame, k)) \in Particles
  <2>1. Clock(frame, k) \in Nat
    BY ClockType
  <2>2. frame[k] \in Shots
    OBVIOUS
  <2>3. /\ frame[k].tx \in Int /\ frame[k].ty \in Int /\ frame[k].dx \in Int /\ frame[k].dy \in Int
        /\ frame[k].x \in 0 .. Strips - 1 \cup {Missed} /\ frame[k].y \in 0 .. Strips - 1
        /\ frame[k].peak \in Int /\ frame[k].xlate \in Int /\ frame[k].ylate \in Int
    BY <2>2, FakeAssumption
  <2>. QED
    BY <1>1, <2>1, <2>3 DEF Particle, Particles
<1>3. Timed(frame) \in Seq(Particles)
  BY <1>1, <1>2 DEF Timed
<1>4. Clock(frame, FrameParticles) \in Nat
  BY <1>1, ClockType
<1>. QED
  BY <1>3, <1>4

\* The types of the hits, once more particles may have been made.
HitTypes ==
    /\ particles \in Seq(Particles)
    /\ data \in [Modules -> Seq(TrueHits)] /\ delivered \in [Modules -> Seq(TrueHits)]
    /\ \A m \in Modules : Len(data[m]) <= FifoHits

LEMMA KeptTypes == PixieTypes /\ DataKept => HitTypes' /\ TrueHits \subseteq TrueHits'
  BY DEF PixieTypes, HitTypes, DataKept, TrueHits

LEMMA FrameTypes == PixieTypes /\ FrameMade => HitTypes' /\ TrueHits \subseteq TrueHits'
<1>. SUFFICES ASSUME PixieTypes, FrameMade PROVE HitTypes' /\ TrueHits \subseteq TrueHits'
  OBVIOUS
<1>1. PICK new \in Seq(Particles) :
         /\ particles' = particles \o new
         /\ data' = FillAll(data, HitsOf(new, Len(particles)))
         /\ delivered' = delivered
  BY DEF FrameMade
<1>2. /\ particles \in Seq(Particles) /\ data \in [Modules -> Seq(TrueHitsOf(particles))]
      /\ delivered \in [Modules -> Seq(TrueHitsOf(particles))]
      /\ \A m \in Modules : Len(data[m]) <= FifoHits
  BY DEF PixieTypes, TrueHits
<1>. DEFINE e == FillAll(data, HitsOf(new, Len(particles)))
            r == particles \o new
<1>3. e \in [Modules -> Seq(TrueHitsOf(r))] /\ \A m \in Modules : FrameAdds(m, data[m], e[m], particles, new)
  BY <1>2, FrameData
<1>4. r \in Seq(Particles) /\ TrueHitsOf(particles) \subseteq TrueHitsOf(r)
  BY <1>2, StillTrue
<1>. HIDE DEF e, r
<1>5. \A m \in Modules : Len(e[m]) <= FifoHits
  BY <1>3 DEF FrameAdds
<1>6. delivered \in [Modules -> Seq(TrueHitsOf(r))]
  <2>1. ASSUME NEW m \in Modules PROVE delivered[m] \in Seq(TrueHitsOf(r))
    <3>1. delivered[m] \in Seq(TrueHitsOf(particles))
      BY <1>2
    <3>. QED
      BY <1>4, <3>1, SequencesOver
  <2>. QED
    BY <1>2, <2>1
<1>7. data' = e /\ particles' = r /\ TrueHits' = TrueHitsOf(r)
  BY <1>1 DEF e, r, TrueHits
<1>. QED
  BY <1>1, <1>3, <1>4, <1>5, <1>6, <1>7 DEF HitTypes, TrueHits

LEMMA TakenTypes ==
    ASSUME PixieTypes, NEW taken \in Takings, HitsTaken(taken)
    PROVE  /\ HitTypes' /\ TrueHits = TrueHits'
           /\ \A m \in Modules :
                 /\ Cuts(data[m], taken[m])
                 /\ delivered'[m] = delivered[m] \o SubSeq(data[m], 1, taken[m])
                 /\ data'[m] = SubSeq(data[m], taken[m] + 1, Len(data[m]))
                 /\ SubSeq(data[m], 1, taken[m]) \in Seq(TrueHits)
                 /\ Len(data'[m]) = Len(data[m]) - taken[m]
                 /\ SubSeq(delivered'[m], Len(delivered[m]) + 1, Len(delivered'[m]))
                       = SubSeq(data[m], 1, taken[m])
<1>1. TrueHits = TrueHits' /\ particles' = particles
  BY DEF HitsTaken, TrueHits
<1>2. ASSUME NEW m \in Modules
      PROVE  /\ Cuts(data[m], taken[m])
             /\ delivered'[m] = delivered[m] \o SubSeq(data[m], 1, taken[m])
             /\ data'[m] = SubSeq(data[m], taken[m] + 1, Len(data[m]))
             /\ delivered'[m] \in Seq(TrueHits) /\ data'[m] \in Seq(TrueHits)
             /\ SubSeq(data[m], 1, taken[m]) \in Seq(TrueHits)
             /\ Len(data'[m]) = Len(data[m]) - taken[m] /\ Len(data'[m]) <= FifoHits
             /\ SubSeq(delivered'[m], Len(delivered[m]) + 1, Len(delivered'[m]))
                   = SubSeq(data[m], 1, taken[m])
  <2>. DEFINE b == data[m]
              t == taken[m]
              p == SubSeq(b, 1, t)
              w == SubSeq(b, t + 1, Len(b))
              a == delivered[m]
  <2>1. /\ b \in Seq(TrueHits) /\ a \in Seq(TrueHits) /\ t \in 0 .. Len(b) /\ Len(b) <= FifoHits
        /\ Len(b) \in Nat /\ FifoHits \in Nat
    <3>1. taken \in [Modules -> Nat] /\ taken[m] <= Len(data[m])
      BY DEF Takings
    <3>2. data[m] \in Seq(TrueHits) /\ delivered[m] \in Seq(TrueHits) /\ Len(data[m]) <= FifoHits
      BY DEF PixieTypes
    <3>3. FifoHits \in Nat /\ taken[m] \in Nat
      BY <3>1, ModuleTypes
    <3>4. Len(data[m]) \in Nat
      BY <3>2
    <3>. QED
      BY <3>1, <3>2, <3>3, <3>4
  <2>2. delivered'[m] = a \o p /\ data'[m] = w
    BY DEF HitsTaken
  <2>. HIDE DEF b, t, a
  <2>3. p \in Seq(TrueHits) /\ w \in Seq(TrueHits) /\ Len(w) = Len(b) - t /\ Cuts(b, t)
    BY <2>1, CutInTwo
  <2>. HIDE DEF p, w
  <2>4. a \o p \in Seq(TrueHits) /\ ComesAfter(a, p)
    BY <2>1, <2>3, ComesAfterFirst, ConcatParts
  <2>5. Len(w) <= FifoHits
    BY <2>1, <2>3
  <2>6. SubSeq(a \o p, Len(a) + 1, Len(a \o p)) = p
    BY <2>4 DEF ComesAfter
  <2>. QED
    BY <2>2, <2>3, <2>4, <2>5, <2>6 DEF a, b, p, w, t
<1>3. delivered' \in [Modules -> Seq(TrueHits)] /\ data' \in [Modules -> Seq(TrueHits)]
  <2>1. DOMAIN delivered' = Modules /\ DOMAIN data' = Modules
        /\ delivered' = [m \in Modules |-> delivered'[m]] /\ data' = [m \in Modules |-> data'[m]]
    BY DEF HitsTaken
  <2>. QED
    BY <1>2, <2>1
<1>4. HitTypes'
  BY <1>1, <1>2, <1>3 DEF HitTypes, PixieTypes
<1>. QED
  BY <1>1, <1>2, <1>4

\* A question, with or without a frame.
LEMMA QuestionStep ==
    ASSUME PixieTypes, CheckExternalFIFOStatus
    PROVE  /\ DataKept \/ FrameMade
           /\ PixieTypes'
           /\ query \in Modules /\ query' = query + 1
           /\ nwords' = [nwords EXCEPT ![query] = Len(data'[query])]
<1>1. /\ query \in Modules /\ query' = query + 1
      /\ UNCHANGED <<module_status, stopping, runs, delivered>>
      /\ nwords' = [nwords EXCEPT ![query] = Len(data'[query])]
      /\ PrePareEvents \/ UNCHANGED <<count, detect_time, data, particles>>
  BY DEF CheckExternalFIFOStatus, GetDataSize
<1>2. /\ DataKept \/ FrameMade
      /\ count' \in Nat /\ detect_time' \in Nat
  <2>1. CASE UNCHANGED <<count, detect_time, data, particles>>
    BY <1>1, <2>1 DEF PixieTypes, DataKept
  <2>2. CASE PrePareEvents
    <3>1. CASE count >= Limits
      BY <1>1, <2>2, <3>1 DEF PrePareEvents, PixieTypes, DataKept
    <3>2. CASE ~(count >= Limits)
      <4>1. PICK frame \in [1 .. FrameParticles -> Shots] :
               /\ count' = count + 1
               /\ detect_time' = Clock(frame, FrameParticles)
               /\ data' = FillAll(data, HitsOf(Timed(frame), Len(particles)))
               /\ particles' = particles \o Timed(frame)
        BY <2>2, <3>2 DEF PrePareEvents, Emit
      <4>2. Timed(frame) \in Seq(Particles) /\ Clock(frame, FrameParticles) \in Nat
        BY TimedType
      <4>3. FrameMade
        BY <1>1, <4>1, <4>2 DEF FrameMade
      <4>. QED
        BY <4>1, <4>2, <4>3 DEF PixieTypes
    <3>. QED
      BY <3>1, <3>2
  <2>. QED
    BY <1>1, <2>1, <2>2
<1>3. HitTypes'
  BY <1>2, KeptTypes, FrameTypes
<1>4. Len(data'[query]) \in Nat
  BY <1>1, <1>3 DEF HitTypes
<1>5. nwords' \in [Modules -> Nat]
  BY <1>1, <1>4 DEF PixieTypes
<1>6. query' \in 0 .. DssdModules + 1
  BY <1>1, ModuleTypes DEF Modules
<1>7. PixieTypes'
  BY <1>1, <1>2, <1>3, <1>5, <1>6 DEF PixieTypes, HitTypes
<1>. QED
  BY <1>1, <1>2, <1>7

\* What a pass reads of module m.
Reads(m, group_read) ==
    IF group_read \/ nwords[m] > (IF stopping THEN 0 ELSE Threshold)
    THEN GetData(m, nwords[m]) ELSE 0

LEMMA ReadStep ==
    ASSUME PixieTypes, NEW group_read \in BOOLEAN, ReadDataFromExternalFIFO(group_read)
    PROVE  /\ [m \in Modules |-> Reads(m, group_read)] \in Takings
           /\ HitsTaken([m \in Modules |-> Reads(m, group_read)])
           /\ PixieTypes'
           /\ query = DssdModules + 1 /\ query' = 0
<1>. DEFINE taken == [m \in Modules |-> Reads(m, group_read)]
<1>1. ASSUME NEW m \in Modules PROVE taken[m] \in Nat /\ taken[m] <= Len(data[m])
  <2>1. nwords[m] \in Nat /\ Len(data[m]) \in Nat
    BY DEF PixieTypes
  <2>. QED
    BY <2>1 DEF Reads, GetData
<1>2. taken \in Takings
  BY <1>1 DEF Takings
<1>3. /\ query = DssdModules + 1 /\ query' = 0 /\ stopping' = FALSE
      /\ delivered' = [m \in Modules |-> delivered[m] \o SubSeq(data[m], 1, taken[m])]
      /\ data' = [m \in Modules |-> SubSeq(data[m], taken[m] + 1, Len(data[m]))]
      /\ nwords' = [m \in Modules |-> 0]
      /\ UNCHANGED <<module_status, count, detect_time, runs, particles>>
  <2>. DEFINE thres == IF stopping THEN 0 ELSE Threshold
              t == [m \in Modules |->
                       IF group_read \/ nwords[m] > thres THEN GetData(m, nwords[m]) ELSE 0]
  <2>1. t = taken
    BY DEF Reads
  <2>2. /\ query = DssdModules + 1 /\ query' = 0 /\ stopping' = FALSE
        /\ delivered' = [m \in Modules |-> delivered[m] \o SubSeq(data[m], 1, t[m])]
        /\ data' = [m \in Modules |-> Remaining(m, t[m])]
        /\ nwords' = [m \in Modules |-> 0]
        /\ UNCHANGED <<module_status, count, detect_time, runs, particles>>
    BY DEF ReadDataFromExternalFIFO
  <2>. HIDE DEF t
  <2>. QED
    BY <2>1, <2>2 DEF Remaining
<1>. HIDE DEF taken
<1>4. HitsTaken(taken)
  BY <1>3 DEF HitsTaken
<1>5. HitTypes'
  BY <1>2, <1>4, TakenTypes
<1>6. 0 \in 0 .. DssdModules + 1
  BY ModuleTypes
<1>7. PixieTypes'
  BY <1>3, <1>5, <1>6 DEF PixieTypes, HitTypes
<1>. QED
  BY <1>2, <1>3, <1>4, <1>7 DEF taken

LEMMA PixieTypesInit == Init => PixieTypes
<1>. SUFFICES ASSUME Init PROVE PixieTypes
  OBVIOUS
<1>1. <<>> \in Seq(TrueHits) /\ <<>> \in Seq(Particles) /\ Len(<<>>) = 0
  OBVIOUS
<1>2. FifoHits \in Nat /\ 0 \in 0 .. DssdModules + 1
  BY ModuleTypes
<1>3. /\ module_status = "Init" /\ count = 0 /\ detect_time = 0 /\ query = 0 /\ runs = 0
      /\ stopping = FALSE /\ nwords = [m \in Modules |-> 0] /\ particles = <<>>
      /\ data = [m \in Modules |-> <<>>] /\ delivered = [m \in Modules |-> <<>>]
  BY DEF Init, PixieInit
<1>4. data \in [Modules -> Seq(TrueHits)] /\ delivered \in [Modules -> Seq(TrueHits)]
  BY <1>1, <1>3
<1>5. \A m \in Modules : Len(data[m]) <= FifoHits
  BY <1>1, <1>2, <1>3
<1>. QED
  BY <1>1, <1>2, <1>3, <1>4, <1>5 DEF PixieTypes

\* What any step does to the driver.
LEMMA PixieStep ==
    ASSUME PixieTypes, [Next]_vars
    PROVE  /\ PixieTypes'
           /\ \/ DataKept
              \/ FrameMade
              \/ \E taken \in Takings : HitsTaken(taken)
<1>1. CASE UNCHANGED <<data, delivered, particles, module_status, count, detect_time,
                       query, nwords, stopping, runs>>
  BY <1>1 DEF PixieTypes, DataKept, TrueHits
<1>2. CASE UNCHANGED vars
  BY <1>1, <1>2 DEF vars, service, daq
<1>3. CASE Analyse /\ UNCHANGED <<service, daq, delivered, particles>>
  BY <1>1, <1>3 DEF service, daq
<1>4. CASE Boot
  BY <1>4 DEF Boot, daq, PixieTypes, DataKept, TrueHits
<1>5. CASE StartRun
  <2>1. 0 \in 0 .. DssdModules + 1
    BY ModuleTypes
  <2>. QED
    BY <1>5, <2>1 DEF StartRun, StartListModeRun, Start, PixieTypes, DataKept, TrueHits
<1>6. CASE EndRun
  BY <1>6 DEF EndRun, Stop, PixieTypes, DataKept, TrueHits
<1>7. CASE CheckExternalFIFOStatus
  BY <1>7, QuestionStep
<1>8. CASE ReadDataFromModules
  <2>1. PICK group_read \in BOOLEAN : ReadDataFromExternalFIFO(group_read)
    BY <1>8 DEF ReadDataFromModules
  <2>. QED
    BY <2>1, ReadStep
<1>. QED
  BY <1>2, <1>3, <1>4, <1>5, <1>6, <1>7, <1>8 DEF Next, Daq

\* The types and bounds of the driver's state, in particular that every hit anywhere is a
\* hit its particle gave, and that no module has more data than fit its buffer.
THEOREM PixieTypeCorrect == Spec => []PixieTypes
<1>1. PixieTypes /\ [Next]_vars => PixieTypes'
  BY PixieStep
<1>. QED
  BY <1>1, PixieTypesInit, PTL DEF Spec

------------------------------------------------------------------------------
(* Hits are lost only when the buffer of their module is full.              *)

\* All hits that ever got into the data of module m.
StoredHits(m) == delivered[m] \o data[m]

StoredInv ==
    \A m \in Modules :
        /\ InOrder(StoredHits(m))
        /\ Len(Produced(m)) <= FifoHits => StoredHits(m) = Produced(m)

\* Reading moves hits from the data to what is delivered.
LEMMA TakenSame ==
    ASSUME PixieTypes, NEW taken \in Takings, HitsTaken(taken)
    PROVE  \A m \in Modules : StoredHits(m)' = StoredHits(m)
<1>. SUFFICES ASSUME NEW m \in Modules PROVE delivered'[m] \o data'[m] = delivered[m] \o data[m]
  BY DEF StoredHits
<1>. DEFINE a == delivered[m]
            b == data[m]
            p == SubSeq(b, 1, taken[m])
            w == SubSeq(b, taken[m] + 1, Len(b))
<1>1. Cuts(b, taken[m]) /\ delivered'[m] = a \o p /\ data'[m] = w
  BY TakenTypes
<1>2. b = p \o w
  BY <1>1 DEF Cuts
<1>3. a \in Seq(TrueHits) /\ b \in Seq(TrueHits) /\ taken[m] \in 0 .. Len(b)
  <2>1. data[m] \in Seq(TrueHits) /\ delivered[m] \in Seq(TrueHits)
    BY DEF PixieTypes
  <2>2. taken[m] \in Nat /\ taken[m] <= Len(data[m]) /\ Len(data[m]) \in Nat
    BY <2>1 DEF Takings
  <2>. QED
    BY <2>1, <2>2
<1>. HIDE DEF b
<1>4. p \in Seq(TrueHits) /\ w \in Seq(TrueHits)
  BY <1>3, CutInTwo
<1>. HIDE DEF a, p, w
<1>5. Associates(TrueHits)
  BY ConcatAssociates
<1>6. (a \o p) \o w = a \o (p \o w)
  BY <1>3, <1>4, <1>5, Zenon DEF Associates
<1>. QED
  BY <1>1, <1>2, <1>6 DEF a, b

\* The hits produced by a frame come behind those before it.
ProducedMore(m, new) == Produced(m)' = Produced(m) \o OfModule(m, HitsOf(new, Len(particles)))

LEMMA FrameProduces ==
    ASSUME PixieTypes, NEW m \in Modules, NEW new \in Seq(Particles),
           particles' = particles \o new
    PROVE  /\ ProducedMore(m, new)
           /\ Produced(m) \in Seq(HitSet)
           /\ OfModule(m, HitsOf(new, Len(particles))) \in Seq(HitSet)
<1>1. particles \in Seq(Particles) /\ Len(particles) \in Nat /\ 0 \in Nat
  BY DEF PixieTypes
<1>. DEFINE q == HitsOf(particles, 0)
            r == HitsOf(new, Len(particles))
<1>2. HitsOf(particles \o new, 0) = q \o r
  <2>1. 0 + Len(particles) = Len(particles)
    BY <1>1
  <2>2. HitsOf(particles \o new, 0) = q \o HitsOf(new, 0 + Len(particles))
    BY <1>1, HitsOfConcat
  <2>. QED
    BY <2>1, <2>2
<1>3. q \in Seq(HitSet) /\ r \in Seq(HitSet)
  BY <1>1, HitsOfEachType
<1>4. Produced(m)' = OfModule(m, HitsOf(particles \o new, 0)) /\ Produced(m) = OfModule(m, q)
  BY DEF Produced
<1>. HIDE DEF q, r
<1>5. OfBoth(m, q, r) /\ OfModule(m, q) \in Seq(HitSet) /\ OfModule(m, r) \in Seq(HitSet)
  BY <1>3, OfModuleConcat, OfModulePicked
<1>6. OfModule(m, q \o r) = OfModule(m, q) \o OfModule(m, r)
  BY <1>5 DEF OfBoth
<1>. QED
  BY <1>2, <1>4, <1>5, <1>6 DEF ProducedMore, r

LEMMA FrameStored ==
    ASSUME PixieTypes, StoredInv, FrameMade
    PROVE  StoredInv'
<1>1. PICK new \in Seq(Particles) :
         /\ particles' = particles \o new
         /\ data' = FillAll(data, HitsOf(new, Len(particles)))
         /\ delivered' = delivered
  BY DEF FrameMade
<1>2. /\ particles \in Seq(Particles) /\ data \in [Modules -> Seq(TrueHitsOf(particles))]
      /\ delivered \in [Modules -> Seq(TrueHitsOf(particles))]
      /\ \A m \in Modules : Len(data[m]) <= FifoHits
  BY DEF PixieTypes, TrueHits
<1>3. ASSUME NEW m \in Modules
      PROVE  /\ InOrder(StoredHits(m)')
             /\ Len(Produced(m)') <= FifoHits => StoredHits(m)' = Produced(m)'
  <2>. DEFINE a == delivered[m]
              b == data[m]
              s == a \o b
              u == Produced(m)
              v == OfModule(m, HitsOf(new, Len(particles)))
  <2>1. FrameAdds(m, b, data'[m], particles, new)
    BY <1>1, <1>2, FrameData
  <2>2. PICK w \in Seq(HitSet) :
           /\ data'[m] = b \o w /\ Elements(w) \subseteq NewHits(particles, new) /\ InOrder(w)
           /\ Len(b) + Len(v) <= FifoHits => w = v
    BY <2>1 DEF FrameAdds
  <2>3. /\ a \in Seq(HitSet) /\ b \in Seq(HitSet)
        /\ a \in Seq(TrueHitsOf(particles)) /\ b \in Seq(TrueHitsOf(particles))
    <3>1. delivered[m] \in Seq(TrueHitsOf(particles)) /\ data[m] \in Seq(TrueHitsOf(particles))
      BY <1>2
    <3>2. TrueHitsOf(particles) \subseteq HitSet
      BY DEF TrueHitsOf
    <3>. QED
      BY <3>1, <3>2, SequencesOver
  <2>4. u \in Seq(HitSet) /\ v \in Seq(HitSet) /\ Produced(m)' = u \o v
    BY <1>1, FrameProduces DEF ProducedMore
  <2>5. InOrder(s) /\ (Len(u) <= FifoHits => s = u)
    BY DEF StoredInv, StoredHits
  <2>6. StoredHits(m)' = a \o (b \o w)
    BY <1>1, <2>2 DEF StoredHits
  <2>. HIDE DEF a, b, u, v
  <2>7. s \o w = a \o (b \o w)
    <3>1. Associates(HitSet)
      BY ConcatAssociates
    <3>. QED
      BY <2>3, <3>1, Zenon DEF Associates
  <2>8. /\ s \in Seq(HitSet) /\ s \in Seq(TrueHitsOf(particles))
        /\ Len(s) = Len(a) + Len(b) /\ Len(a) \in Nat /\ Len(b) \in Nat
    BY <2>3, ConcatParts
  <2>. HIDE DEF s
  <2>9. \A g \in Elements(s), h \in Elements(w) : g.n <= h.n
    <3>1. Elements(s) \subseteq TrueHitsOf(particles)
      BY <2>8, ElementsType
    <3>2. \A g \in Elements(s) : g.n \in Nat /\ g.n <= Len(particles)
      BY <3>1 DEF TrueHitsOf
    <3>3. \A h \in Elements(w) : h.n \in Nat /\ h.n > Len(particles)
      BY <2>2 DEF NewHits, TrueHitsOf
    <3>4. Len(particles) \in Nat
      BY <1>2
    <3>. QED
      BY <3>2, <3>3, <3>4
  <2>10. InOrder(s \o w)
    BY <2>2, <2>5, <2>8, <2>9, OrderOfBoth
  <2>11. Len(u \o v) = Len(u) + Len(v) /\ Len(u) \in Nat /\ Len(v) \in Nat
    BY <2>4, ConcatParts
  <2>12. ASSUME Len(u \o v) <= FifoHits PROVE s \o w = u \o v
    <3>1. Len(u) <= FifoHits /\ FifoHits \in Nat
      BY <2>11, <2>12, ModuleTypes
    <3>2. s = u
      BY <2>5, <3>1
    <3>3. Len(b) + Len(v) <= FifoHits
      BY <2>8, <2>11, <2>12, <3>1, <3>2
    <3>. QED
      BY <2>2, <3>2, <3>3
  <2>. QED
    BY <2>4, <2>6, <2>7, <2>10, <2>12
<1>. QED
  BY <1>3 DEF StoredInv

LEMMA StoredStep == PixieTypes /\ StoredInv /\ [Next]_vars => StoredInv'
<1>. SUFFICES ASSUME PixieTypes, StoredInv, [Next]_vars PROVE StoredInv'
  OBVIOUS
<1>1. CASE DataKept
  BY <1>1 DEF DataKept, StoredInv, StoredHits, Produced
<1>2. CASE FrameMade
  BY <1>2, FrameStored
<1>3. CASE \E taken \in Takings : HitsTaken(taken)
  <2>1. PICK taken \in Takings : HitsTaken(taken)
    BY <1>3
  <2>2. \A m \in Modules : StoredHits(m)' = StoredHits(m)
    BY <2>1, TakenSame
  <2>3. \A m \in Modules : Produced(m)' = Produced(m)
    BY <2>1 DEF HitsTaken, Produced
  <2>. QED
    BY <2>2, <2>3 DEF StoredInv
<1>. QED
  BY <1>1, <1>2, <1>3, PixieStep

LEMMA StoredInit == Init => StoredInv
<1>. SUFFICES ASSUME Init, NEW m \in Modules
              PROVE  InOrder(StoredHits(m)) /\ StoredHits(m) = Produced(m)
  BY DEF StoredInv
<1>1. delivered[m] = <<>> /\ data[m] = <<>> /\ particles = <<>>
  BY DEF Init, PixieInit
<1>2. <<>> \o <<>> = <<>> /\ 1 .. Len(<<>>) = {}
  OBVIOUS
<1>3. HitsOf(<<>>, 0) = <<>> /\ OfModule(m, <<>>) = <<>>
  BY HitsOfNone, FlattenEmpty DEF OfModule
<1>. QED
  BY <1>1, <1>2, <1>3 DEF StoredHits, Produced, InOrder

\* No hit is missing as long as a module never had more than fits, and whatever is dropped
\* when it has, the others keep their order, for any size of the buffers, any particles and
\* any order of frames, questions and reads.
THEOREM NothingLostUnlessFull == Spec => []LostOnlyWhenFull
<1>1. PixieTypes /\ StoredInv => LostOnlyWhenFull
  <2>. SUFFICES ASSUME PixieTypes, StoredInv PROVE LostOnlyWhenFull
    OBVIOUS
  <2>1. ASSUME NEW m \in Modules
        PROVE  DOMAIN StoredHits(m) = 1 .. Len(StoredHits(m))
    <3>1. delivered[m] \in Seq(TrueHits) /\ data[m] \in Seq(TrueHits)
      BY DEF PixieTypes
    <3>. QED
      BY <3>1, ConcatParts DEF StoredHits
  <2>. QED
    BY <2>1 DEF LostOnlyWhenFull, StoredInv, StoredHits, InOrder
<1>2. PixieTypes /\ [Next]_vars => PixieTypes'
  BY PixieStep
<1>. QED
  BY <1>1, <1>2, PixieTypesInit, StoredInit, StoredStep, PTL DEF Spec

------------------------------------------------------------------------------
(* Every module's data are a FIFO.                                          *)

\* IsPrefix is the same in the abstract specification.
LEMMA SamePrefix == \A a, b : IsPrefix(a, b) <=> Fifo!IsPrefix(a, b)
  BY DEF IsPrefix, Fifo!IsPrefix

\* A frame stores hits, and reading delivers the oldest.
LEMMA FifoStep ==
    PixieTypes /\ [Next]_vars =>
        [Fifo!Store \/ Fifo!Deliver]_<<[m \in Modules |-> delivered[m] \o data[m]], delivered>>
<1>. DEFINE stored == [m \in Modules |-> delivered[m] \o data[m]]
<1>. SUFFICES ASSUME PixieTypes, [Next]_vars
              PROVE  \/ Fifo!Store \/ Fifo!Deliver
                     \/ stored' = stored /\ delivered' = delivered
  OBVIOUS
<1>1. CASE DataKept
  BY <1>1 DEF DataKept
<1>2. CASE FrameMade
  <2>1. PICK new \in Seq(Particles) :
           /\ particles' = particles \o new
           /\ data' = FillAll(data, HitsOf(new, Len(particles)))
           /\ delivered' = delivered
    BY <1>2 DEF FrameMade
  <2>2. /\ particles \in Seq(Particles) /\ data \in [Modules -> Seq(TrueHitsOf(particles))]
        /\ delivered \in [Modules -> Seq(TrueHitsOf(particles))]
        /\ \A m \in Modules : Len(data[m]) <= FifoHits
    BY DEF PixieTypes, TrueHits
  <2>3. ASSUME NEW m \in Modules
        PROVE  /\ IsPrefix(stored[m], stored'[m])
               /\ Len(stored'[m]) - Len(delivered[m]) <= FifoHits
    <3>. DEFINE a == delivered[m]
                b == data[m]
                c == data'[m]
    <3>1. FrameAdds(m, b, c, particles, new)
      BY <2>1, <2>2, FrameData
    <3>2. PICK w \in Seq(HitSet) : c = b \o w /\ Len(c) <= FifoHits
      BY <3>1 DEF FrameAdds
    <3>3. a \in Seq(HitSet) /\ b \in Seq(HitSet)
      <4>1. delivered[m] \in Seq(TrueHitsOf(particles)) /\ data[m] \in Seq(TrueHitsOf(particles))
        BY <2>2
      <4>2. TrueHitsOf(particles) \subseteq HitSet
        BY DEF TrueHitsOf
      <4>. QED
        BY <4>1, <4>2, SequencesOver
    <3>4. stored[m] = a \o b /\ stored'[m] = a \o c
      BY <2>1
    <3>. HIDE DEF a, b, c, stored
    <3>5. Associates(HitSet) /\ a \o b \in Seq(HitSet)
      BY <3>3, ConcatAssociates, ConcatParts
    <3>6. (a \o b) \o w = a \o (b \o w)
      BY <3>3, <3>5, Zenon DEF Associates
    <3>7. IsPrefix(a \o b, (a \o b) \o w)
      <4>. DEFINE s == a \o b
      <4>1. s \in Seq(HitSet)
        BY <3>5
      <4>. HIDE DEF s
      <4>2. IsPrefix(s, s \o w)
        BY <4>1, FirstIsPrefix
      <4>. QED
        BY <4>2 DEF s
    <3>8. c \in Seq(HitSet)
      BY <3>2, <3>3, ConcatParts
    <3>9. Len(a \o c) = Len(a) + Len(c) /\ Len(a) \in Nat /\ Len(c) \in Nat
      BY <3>3, <3>8, ConcatParts
    <3>10. Len(a \o c) - Len(a) <= FifoHits
      <4>. DEFINE la == Len(a)
                  lc == Len(c)
                  lr == Len(a \o c)
      <4>1. lr = la + lc /\ la \in Nat /\ lc \in Nat /\ lc <= FifoHits /\ FifoHits \in Nat
        BY <3>2, <3>9, ModuleTypes
      <4>. HIDE DEF la, lc, lr
      <4>2. lr - la <= FifoHits
        BY <4>1
      <4>. QED
        BY <4>2 DEF la, lr
    <3>. QED
      BY <3>2, <3>4, <3>6, <3>7, <3>10 DEF a
  <2>4. Fifo!Store
    BY <2>1, <2>3, SamePrefix DEF Fifo!Store
  <2>. QED
    BY <2>4
<1>3. CASE \E taken \in Takings : HitsTaken(taken)
  <2>1. PICK taken \in Takings : HitsTaken(taken)
    BY <1>3
  <2>2. stored' = stored
    <3>1. \A m \in Modules : delivered'[m] \o data'[m] = delivered[m] \o data[m]
      BY <2>1, TakenSame DEF StoredHits
    <3>. QED
      BY <3>1
  <2>3. ASSUME NEW m \in Modules
        PROVE  IsPrefix(delivered[m], delivered'[m]) /\ IsPrefix(delivered'[m], stored[m])
    <3>. DEFINE a == delivered[m]
                p == SubSeq(data[m], 1, taken[m])
                c == delivered'[m]
                w == data'[m]
    <3>1. c = a \o p /\ p \in Seq(TrueHits) /\ HitTypes' /\ TrueHits = TrueHits'
      BY <2>1, TakenTypes
    <3>2. a \in Seq(TrueHits)
      BY DEF PixieTypes
    <3>3. c \in Seq(TrueHits) /\ w \in Seq(TrueHits)
      BY <3>1 DEF HitTypes
    <3>4. stored[m] = c \o w
      BY <2>1, TakenSame DEF StoredHits
    <3>. HIDE DEF a, p, c, w, stored
    <3>5. IsPrefix(a, a \o p)
      BY <3>1, <3>2, FirstIsPrefix
    <3>6. IsPrefix(c, c \o w)
      BY <3>3, FirstIsPrefix
    <3>. QED
      BY <3>1, <3>4, <3>5, <3>6 DEF a, c
  <2>4. Fifo!Deliver
    BY <2>2, <2>3, SamePrefix DEF Fifo!Deliver
  <2>. QED
    BY <2>4
<1>. QED
  BY <1>1, <1>2, <1>3, PixieStep

\* The stand-in driver implements the FIFO the DAQ takes for granted of a module: hits are
\* stored while there is room and delivered once, unchanged and in their order, whatever
\* frames come between counting and reading.
THEOREM DriverIsFifo == Spec => ActsAsFifo
<1>1. Init => Fifo!Init
  <2>1. <<>> \o <<>> = <<>>
    OBVIOUS
  <2>. QED
    BY <2>1 DEF Init, PixieInit, Fifo!Init
<1>2. PixieTypes /\ [Next]_vars => PixieTypes'
  BY PixieStep
<1>. QED
  BY <1>1, <1>2, PixieTypesInit, FifoStep, PTL DEF Spec, ActsAsFifo, Fifo!Spec

------------------------------------------------------------------------------
(* Particles are torn only forward.                                         *)

OnlineTypes ==
    /\ unread \in [Modules -> Seq(TrueHits)]
    /\ packets \in Seq([Modules -> Seq(TrueHits)])

\* The data of module m that were counted in this pass, or will be, and those that came
\* after it was asked.
Counted(m) == IF m < query THEN SubSeq(data[m], 1, nwords[m]) ELSE data[m]
Later(m) == IF m < query THEN SubSeq(data[m], nwords[m] + 1, Len(data[m])) ELSE <<>>

\* The hits of module m that are in packet k; for the next packet those that are unread
\* and counted, and for the one after it those that came later.
Bag(m, k) ==
    IF k <= Len(packets) THEN Elements(packets[k][m])
    ELSE IF k = Len(packets) + 1 THEN Elements(unread[m]) \cup Elements(Counted(m))
    ELSE Elements(Later(m))

BagNumbers == 1 .. Len(packets) + 2

\* What makes TornForward inductive: it holds of the packets to come, too.
Torn ==
    \A i, j \in Modules : i < j =>
        \A k, l \in BagNumbers : \A g \in Bag(i, k), h \in Bag(j, l) : g.n = h.n => k \in {l, l + 1}

\* The elements of the two parts of a sequence.
Parts(b, n) ==
    /\ Elements(SubSeq(b, 1, n)) = {b[k] : k \in 1 .. n}
    /\ Elements(SubSeq(b, n + 1, Len(b))) = {b[k] : k \in n + 1 .. Len(b)}
    /\ Elements(b) = Elements(SubSeq(b, 1, n)) \cup Elements(SubSeq(b, n + 1, Len(b)))

LEMMA PartElements ==
    ASSUME NEW S, NEW b \in Seq(S), NEW n \in 0 .. Len(b)
    PROVE  Parts(b, n)
<1>. DEFINE p == SubSeq(b, 1, n)
            w == SubSeq(b, n + 1, Len(b))
<1>1. p \in Seq(S) /\ w \in Seq(S) /\ Len(p) = n /\ Len(w) = Len(b) - n /\ Cuts(b, n)
  BY CutInTwo
<1>2. b = p \o w /\ Len(b) \in Nat /\ n \in Nat /\ n <= Len(b)
  <2>1. b = p \o w
    BY <1>1 DEF Cuts
  <2>2. Len(b) \in Nat /\ n \in Nat /\ n <= Len(b)
    OBVIOUS
  <2>. QED
    BY <2>1, <2>2
<1>. HIDE DEF p, w
<1>3. Elements(p \o w) = Elements(p) \cup Elements(w)
  BY <1>1, ElementsConcat
<1>4. /\ \A k \in 1 .. Len(p) : (p \o w)[k] = p[k]
      /\ \A k \in 1 .. Len(w) : (p \o w)[Len(p) + k] = w[k]
  BY <1>1, ConcatParts
<1>5. /\ \A k \in 1 .. n : b[k] = p[k]
      /\ \A k \in 1 .. Len(b) - n : b[n + k] = w[k]
  BY <1>1, <1>2, <1>4
<1>6. Elements(p) = {b[k] : k \in 1 .. n}
  BY <1>1, <1>5 DEF Elements
<1>7. Elements(w) = {b[k] : k \in n + 1 .. Len(b)}
  <2>1. ASSUME NEW k \in 1 .. Len(w) PROVE w[k] \in {b[j] : j \in n + 1 .. Len(b)}
    <3>1. n + k \in n + 1 .. Len(b) /\ k \in 1 .. Len(b) - n
      BY <1>1, <1>2
    <3>. QED
      BY <1>5, <3>1
  <2>2. ASSUME NEW k \in n + 1 .. Len(b) PROVE b[k] \in Elements(w)
    <3>1. k - n \in 1 .. Len(b) - n /\ n + (k - n) = k
      BY <1>2
    <3>2. b[k] = w[k - n]
      BY <1>5, <3>1
    <3>. QED
      BY <1>1, <3>1, <3>2 DEF Elements
  <2>. QED
    BY <2>1, <2>2 DEF Elements
<1>. QED
  BY <1>2, <1>3, <1>6, <1>7 DEF p, w, Parts

\* The same when a sequence is appended.
LEMMA PartsOfLonger ==
    ASSUME NEW S, NEW b \in Seq(S), NEW w \in Seq(S), NEW n \in 0 .. Len(b)
    PROVE  /\ Elements(SubSeq(b \o w, 1, n)) = Elements(SubSeq(b, 1, n))
           /\ Elements(SubSeq(b \o w, n + 1, Len(b \o w)))
                 \subseteq Elements(SubSeq(b, n + 1, Len(b))) \cup Elements(w)
<1>. DEFINE r == b \o w
<1>1. /\ r \in Seq(S) /\ Len(b) \in Nat /\ Len(w) \in Nat /\ Len(r) = Len(b) + Len(w)
      /\ \A k \in 1 .. Len(b) : r[k] = b[k]
      /\ \A k \in 1 .. Len(w) : r[Len(b) + k] = w[k]
  BY ConcatParts
<1>. HIDE DEF r
<1>2. n \in Nat /\ n <= Len(b) /\ n \in 0 .. Len(r)
  BY <1>1
<1>3. /\ Elements(SubSeq(r, 1, n)) = {r[k] : k \in 1 .. n}
      /\ Elements(SubSeq(r, n + 1, Len(r))) = {r[k] : k \in n + 1 .. Len(r)}
  <2>1. r \in Seq(S) /\ n \in 0 .. Len(r)
    BY <1>1, <1>2
  <2>2. Parts(r, n)
    BY <2>1, PartElements
  <2>. QED
    BY <2>2 DEF Parts
<1>4. /\ Elements(SubSeq(b, 1, n)) = {b[k] : k \in 1 .. n}
      /\ Elements(SubSeq(b, n + 1, Len(b))) = {b[k] : k \in n + 1 .. Len(b)}
  BY PartElements DEF Parts
<1>5. \A k \in 1 .. n : r[k] = b[k]
  BY <1>1, <1>2
<1>6. Elements(SubSeq(r, 1, n)) = Elements(SubSeq(b, 1, n))
  BY <1>3, <1>4, <1>5
<1>7. ASSUME NEW k \in n + 1 .. Len(r)
      PROVE  r[k] \in Elements(SubSeq(b, n + 1, Len(b))) \cup Elements(w)
  <2>1. CASE k <= Len(b)
    <3>1. k \in 1 .. Len(b) /\ k \in n + 1 .. Len(b)
      BY <1>1, <1>2, <2>1
    <3>. QED
      BY <1>1, <1>4, <3>1
  <2>2. CASE ~(k <= Len(b))
    <3>1. k - Len(b) \in 1 .. Len(w) /\ Len(b) + (k - Len(b)) = k
      BY <1>1, <1>2, <2>2
    <3>2. r[k] = w[k - Len(b)]
      BY <1>1, <3>1
    <3>. QED
      BY <3>1, <3>2 DEF Elements
  <2>. QED
    BY <2>1, <2>2
<1>. QED
  BY <1>3, <1>6, <1>7 DEF r

\* The types of the parts.
LEMMA PartTypes ==
    ASSUME PixieTypes, OnlineTypes, Answered, NEW m \in Modules
    PROVE  /\ Len(packets) \in Nat /\ m \in Nat /\ query \in Nat
           /\ nwords[m] \in Nat /\ (m < query => nwords[m] \in 0 .. Len(data[m]))
           /\ data[m] \in Seq(TrueHits) /\ unread[m] \in Seq(TrueHits)
           /\ Counted(m) \in Seq(TrueHits) /\ Later(m) \in Seq(TrueHits)
           /\ Elements(data[m]) = Elements(Counted(m)) \cup Elements(Later(m))
           /\ Elements(data[m]) \subseteq TrueHits /\ Elements(unread[m]) \subseteq TrueHits
<1>1. /\ Len(packets) \in Nat /\ m \in Nat /\ query \in Nat /\ nwords[m] \in Nat
      /\ data[m] \in Seq(TrueHits) /\ unread[m] \in Seq(TrueHits) /\ Len(data[m]) \in Nat
  <2>1. packets \in Seq([Modules -> Seq(TrueHits)])
    BY DEF OnlineTypes
  <2>2. Len(packets) \in Nat
    BY <2>1
  <2>3. m \in Nat /\ query \in Nat
    BY ModuleTypes DEF PixieTypes
  <2>4. nwords[m] \in Nat /\ data[m] \in Seq(TrueHits) /\ unread[m] \in Seq(TrueHits)
    BY DEF PixieTypes, OnlineTypes
  <2>. QED
    BY <2>2, <2>3, <2>4
<1>2. m < query => nwords[m] \in 0 .. Len(data[m])
  BY <1>1 DEF Answered
<1>3. Elements(data[m]) \subseteq TrueHits /\ Elements(unread[m]) \subseteq TrueHits
  BY <1>1, ElementsType
<1>4. CASE m < query
  <2>1. Counted(m) = SubSeq(data[m], 1, nwords[m])
        /\ Later(m) = SubSeq(data[m], nwords[m] + 1, Len(data[m]))
    BY <1>4 DEF Counted, Later
  <2>2. SubSeq(data[m], 1, nwords[m]) \in Seq(TrueHits)
        /\ SubSeq(data[m], nwords[m] + 1, Len(data[m])) \in Seq(TrueHits)
    BY <1>1, <1>2, <1>4, CutInTwo
  <2>3. Elements(data[m]) = Elements(SubSeq(data[m], 1, nwords[m]))
                               \cup Elements(SubSeq(data[m], nwords[m] + 1, Len(data[m])))
    BY <1>1, <1>2, <1>4, PartElements DEF Parts
  <2>. QED
    BY <1>1, <1>2, <1>3, <2>1, <2>2, <2>3
<1>5. CASE ~(m < query)
  <2>1. Counted(m) = data[m] /\ Later(m) = <<>> /\ <<>> \in Seq(TrueHits)
    BY <1>5 DEF Counted, Later
  <2>. QED
    BY <1>1, <1>2, <1>3, <2>1, ElementsEmpty
<1>. QED
  BY <1>4, <1>5

\* Where the hits are.
LEMMA BagTypes ==
    ASSUME PixieTypes, OnlineTypes, Answered, NEW m \in Modules, NEW k \in BagNumbers
    PROVE  Bag(m, k) \subseteq TrueHits
<1>1. /\ Len(packets) \in Nat /\ Elements(unread[m]) \subseteq TrueHits
      /\ Counted(m) \in Seq(TrueHits) /\ Later(m) \in Seq(TrueHits)
  BY PartTypes
<1>2. Elements(Counted(m)) \subseteq TrueHits /\ Elements(Later(m)) \subseteq TrueHits
  BY <1>1, ElementsType
<1>3. CASE k <= Len(packets)
  <2>1. packets[k] \in [Modules -> Seq(TrueHits)]
    <3>1. k \in 1 .. Len(packets)
      BY <1>1, <1>3 DEF BagNumbers
    <3>. QED
      BY <3>1 DEF OnlineTypes
  <2>2. packets[k][m] \in Seq(TrueHits)
    BY <2>1
  <2>. QED
    BY <1>3, <2>2, ElementsType DEF Bag
<1>. QED
  BY <1>1, <1>2, <1>3 DEF Bag

\* Torn is kept when hits stay where they are, or those that came later fall into the
\* packet before.
LEMMA TornKept ==
    ASSUME Torn, Len(packets) \in Nat, NEW top \in Nat, top >= Len(packets) + 1,
           \A m \in Modules : \A k \in BagNumbers' : \A h \in Bag(m, k)' :
              \E l \in BagNumbers : h \in Bag(m, l) /\ k = IF l <= top THEN l ELSE top
    PROVE  Torn'
<1>. SUFFICES ASSUME NEW i \in Modules, NEW j \in Modules, i < j,
                     NEW k \in BagNumbers', NEW l \in BagNumbers',
                     NEW g \in Bag(i, k)', NEW h \in Bag(j, l)', g.n = h.n
              PROVE  k \in {l, l + 1}
  BY DEF Torn
<1>1. PICK a \in BagNumbers : g \in Bag(i, a) /\ k = IF a <= top THEN a ELSE top
  OBVIOUS
<1>2. PICK b \in BagNumbers : h \in Bag(j, b) /\ l = IF b <= top THEN b ELSE top
  OBVIOUS
<1>3. a \in {b, b + 1}
  BY <1>1, <1>2 DEF Torn
<1>4. a \in Nat /\ b \in Nat /\ a <= Len(packets) + 2 /\ b <= Len(packets) + 2
  BY DEF BagNumbers
<1>. QED
  BY <1>1, <1>2, <1>3, <1>4

\* Nothing moves.
LEMMA TornTheSame ==
    ASSUME Torn, Len(packets) \in Nat, Len(packets)' = Len(packets),
           \A m \in Modules : \A k \in BagNumbers : Bag(m, k)' \subseteq Bag(m, k)
    PROVE  Torn'
<1>1. BagNumbers' = BagNumbers
  BY DEF BagNumbers
<1>2. Len(packets) + 2 \in Nat /\ Len(packets) + 2 >= Len(packets) + 1
  OBVIOUS
<1>3. \A k \in BagNumbers : k <= Len(packets) + 2
  BY DEF BagNumbers
<1>. QED
  BY <1>1, <1>2, <1>3, TornKept

TearInv == OnlineTypes /\ Answered /\ Torn

\* Calls that leave the data where they are.
LEMMA TearUnmoved ==
    ASSUME TearInv, UNCHANGED <<particles, data, query, nwords, unread, packets>>
    PROVE  TearInv'
<1>1. TrueHits' = TrueHits /\ BagNumbers' = BagNumbers
  BY DEF TrueHits, BagNumbers
<1>2. \A m, k : Bag(m, k)' = Bag(m, k)
  BY DEF Bag, Counted, Later
<1>3. OnlineTypes' /\ Answered'
  BY <1>1 DEF TearInv, OnlineTypes, Answered
<1>4. Torn'
  BY <1>1, <1>2 DEF TearInv, Torn
<1>. QED
  BY <1>3, <1>4 DEF TearInv

\* A new run: what came late is counted with the rest, and what was unread is forgotten.
LEMMA StartRunTears ==
    ASSUME PixieTypes, TearInv, StartRun
    PROVE  TearInv'
<1>1. /\ query' = 0 /\ unread' = [m \in Modules |-> <<>>]
      /\ packets' = packets /\ data' = data /\ nwords' = nwords /\ particles' = particles
  BY DEF StartRun, StartListModeRun, Start
<1>2. TrueHits' = TrueHits /\ BagNumbers' = BagNumbers /\ Len(packets)' = Len(packets)
  BY <1>1 DEF TrueHits, BagNumbers
<1>3. OnlineTypes'
  <2>1. <<>> \in Seq(TrueHits)
    OBVIOUS
  <2>. QED
    BY <1>1, <1>2, <2>1 DEF TearInv, OnlineTypes
<1>4. ASSUME NEW m \in Modules PROVE m \in Nat /\ ~(m < 0)
  BY ModuleTypes
<1>5. Answered'
  BY <1>1, <1>4 DEF Answered
<1>6. Len(packets) \in Nat
  BY DEF TearInv, OnlineTypes
<1>7. ASSUME NEW m \in Modules, NEW k \in BagNumbers', NEW h \in Bag(m, k)'
      PROVE  \E l \in BagNumbers : /\ h \in Bag(m, l)
                               /\ k = IF l <= Len(packets) + 1 THEN l ELSE Len(packets) + 1
  <2>1. Counted(m)' = data[m] /\ Later(m)' = <<>> /\ unread'[m] = <<>>
    BY <1>1, <1>4 DEF Counted, Later
  <2>2. Elements(data[m]) = Elements(Counted(m)) \cup Elements(Later(m))
    BY PartTypes DEF TearInv
  <2>3. CASE k <= Len(packets)
    <3>1. h \in Bag(m, k)
      BY <1>1, <1>7, <2>3 DEF Bag
    <3>2. k \in BagNumbers
      BY <1>2
    <3>3. k <= Len(packets) + 1
      BY <1>6, <2>3, <3>2 DEF BagNumbers
    <3>. QED
      BY <3>1, <3>2, <3>3
  <2>4. CASE k = Len(packets) + 1
    <3>1. h \in Elements(Counted(m)) \cup Elements(Later(m))
      BY <1>1, <1>6, <1>7, <2>1, <2>2, <2>4, ElementsEmpty DEF Bag
    <3>2. /\ Len(packets) + 1 \in BagNumbers /\ Len(packets) + 2 \in BagNumbers
          /\ Len(packets) + 1 <= Len(packets) + 1 /\ ~(Len(packets) + 2 <= Len(packets) + 1)
          /\ ~(Len(packets) + 1 <= Len(packets)) /\ ~(Len(packets) + 2 <= Len(packets))
          /\ Len(packets) + 2 # Len(packets) + 1
      BY <1>6 DEF BagNumbers
    <3>3. CASE h \in Elements(Counted(m))
      <4>1. h \in Bag(m, Len(packets) + 1)
        BY <3>2, <3>3 DEF Bag
      <4>. QED
        BY <2>4, <3>2, <4>1
    <3>4. CASE h \in Elements(Later(m))
      <4>1. h \in Bag(m, Len(packets) + 2)
        BY <3>2, <3>4 DEF Bag
      <4>. QED
        BY <2>4, <3>2, <4>1
    <3>. QED
      BY <3>1, <3>3, <3>4
  <2>5. CASE ~(k <= Len(packets) + 1)
    <3>1. Bag(m, k)' = Elements(<<>>)
      BY <1>1, <1>2, <1>6, <1>7, <2>1, <2>5 DEF Bag, BagNumbers
    <3>. QED
      BY <1>7, <3>1, ElementsEmpty
  <2>. QED
    BY <1>2, <1>6, <1>7, <2>3, <2>4, <2>5 DEF BagNumbers
<1>8. Torn'
  <2>1. Len(packets) + 1 \in Nat /\ Len(packets) + 1 >= Len(packets) + 1
    BY <1>6
  <2>. QED
    BY <1>6, <1>7, <2>1, TornKept DEF TearInv
<1>. QED
  BY <1>3, <1>5, <1>8 DEF TearInv

\* Hits stay what they are when more particles are made.
LEMMA OnlineTypesKept ==
    ASSUME OnlineTypes, TrueHits \subseteq TrueHits', UNCHANGED <<unread, packets>>
    PROVE  OnlineTypes'
<1>. DEFINE T == TrueHits'
<1>1. /\ unread \in [Modules -> Seq(TrueHits)]
      /\ packets \in Seq([Modules -> Seq(TrueHits)]) /\ TrueHits \subseteq T
  BY DEF OnlineTypes
<1>. HIDE DEF T
<1>2. unread \in [Modules -> Seq(T)]
  <2>1. \A m \in Modules : unread[m] \in Seq(T)
    BY <1>1, SequencesOver
  <2>. QED
    BY <1>1, <2>1
<1>3. [Modules -> Seq(TrueHits)] \subseteq [Modules -> Seq(T)]
  <2>1. Seq(TrueHits) \subseteq Seq(T)
    BY <1>1, SequencesOver
  <2>. QED
    BY <2>1
<1>4. packets \in Seq([Modules -> Seq(T)])
  BY <1>1, <1>3, SequencesOver
<1>. QED
  BY <1>2, <1>4 DEF OnlineTypes, T

\* A question without a frame: the module's data are counted up to the last hit.
LEMMA QuestionTears ==
    ASSUME PixieTypes, TearInv, CheckExternalFIFOStatus, DataKept, UNCHANGED onlineVars
    PROVE  TearInv'
<1>1. /\ query \in Modules /\ query' = query + 1 /\ query \in Nat
      /\ nwords' = [nwords EXCEPT ![query] = Len(data'[query])] /\ nwords \in [Modules -> Nat]
      /\ data' = data /\ particles' = particles /\ unread' = unread /\ packets' = packets
  BY QuestionStep, ModuleTypes DEF DataKept, onlineVars, PixieTypes
<1>2. TrueHits' = TrueHits /\ BagNumbers' = BagNumbers /\ Len(packets)' = Len(packets)
  BY <1>1 DEF TrueHits, BagNumbers
<1>3. OnlineTypes'
  BY <1>1, <1>2, OnlineTypesKept DEF TearInv
<1>4. Len(packets) \in Nat
  BY DEF TearInv, OnlineTypes
<1>5. ASSUME NEW m \in Modules
      PROVE  /\ m < query' => nwords'[m] <= Len(data'[m])
             /\ Elements(Counted(m)') \subseteq Elements(Counted(m))
             /\ Elements(Later(m)') \subseteq Elements(Later(m))
  <2>1. /\ m \in Nat /\ (m < query => nwords[m] \in 0 .. Len(data[m]))
        /\ data[m] \in Seq(TrueHits) /\ Len(data[m]) \in Nat
    <3>1. m \in Nat /\ (m < query => nwords[m] \in 0 .. Len(data[m])) /\ data[m] \in Seq(TrueHits)
      BY PartTypes DEF TearInv
    <3>. QED
      BY <3>1
  <2>2. CASE m < query
    <3>1. nwords'[m] = nwords[m] /\ m < query' /\ m # query
      BY <1>1, <2>1, <2>2
    <3>2. Counted(m)' = Counted(m) /\ Later(m)' = Later(m)
      BY <1>1, <2>2, <3>1 DEF Counted, Later
    <3>. QED
      BY <1>1, <2>1, <2>2, <3>1, <3>2
  <2>3. CASE m = query
    <3>1. nwords'[m] = Len(data[m]) /\ m < query' /\ ~(m < query)
      BY <1>1, <2>1, <2>3
    <3>2. /\ Counted(m)' = SubSeq(data[m], 1, Len(data[m])) /\ Counted(m) = data[m]
          /\ Later(m)' = SubSeq(data[m], Len(data[m]) + 1, Len(data[m])) /\ Later(m) = <<>>
      BY <1>1, <3>1 DEF Counted, Later
    <3>3. Parts(data[m], Len(data[m]))
      <4>1. Len(data[m]) \in 0 .. Len(data[m])
        BY <2>1
      <4>. QED
        BY <2>1, <4>1, PartElements
    <3>4. Elements(Counted(m)') \subseteq Elements(Counted(m))
      BY <3>2, <3>3 DEF Parts
    <3>5. Elements(Later(m)') = {}
      <4>1. Len(data[m]) + 1 .. Len(data[m]) = {}
        BY <2>1
      <4>. QED
        BY <3>2, <3>3, <4>1 DEF Parts
    <3>. QED
      BY <1>1, <2>1, <3>1, <3>4, <3>5
  <2>4. CASE m > query
    <3>1. ~(m < query) /\ ~(m < query')
      BY <1>1, <2>1, <2>4
    <3>. QED
      BY <1>1, <3>1 DEF Counted, Later
  <2>. QED
    BY <1>1, <2>1, <2>2, <2>3, <2>4
<1>6. Answered'
  BY <1>5 DEF Answered
<1>7. \A m \in Modules : \A k \in BagNumbers : Bag(m, k)' \subseteq Bag(m, k)
  BY <1>1, <1>5 DEF Bag
<1>8. Torn'
  BY <1>2, <1>4, <1>7, TornTheSame DEF TearInv
<1>. QED
  BY <1>3, <1>6, <1>8 DEF TearInv

\* A question with a frame: the new hits of the modules asked before come late, those of
\* this one and of the modules not asked yet are counted.
LEMMA FrameTears ==
    ASSUME PixieTypes, TearInv, CheckExternalFIFOStatus, FrameMade, UNCHANGED onlineVars
    PROVE  TearInv'
<1>1. /\ query \in Modules /\ query' = query + 1 /\ query \in Nat
      /\ nwords' = [nwords EXCEPT ![query] = Len(data'[query])] /\ nwords \in [Modules -> Nat]
      /\ unread' = unread /\ packets' = packets
  BY QuestionStep, ModuleTypes DEF onlineVars, PixieTypes
<1>2. PICK new \in Seq(Particles) :
         /\ particles' = particles \o new
         /\ data' = FillAll(data, HitsOf(new, Len(particles)))
         /\ delivered' = delivered
  BY DEF FrameMade
<1>3. /\ particles \in Seq(Particles) /\ data \in [Modules -> Seq(TrueHitsOf(particles))]
      /\ \A m \in Modules : Len(data[m]) <= FifoHits
  BY DEF PixieTypes, TrueHits
<1>4. \A m \in Modules : FrameAdds(m, data[m], data'[m], particles, new)
  BY <1>2, <1>3, FrameData
<1>5. TrueHits \subseteq TrueHits' /\ BagNumbers' = BagNumbers
  BY <1>1, FrameTypes DEF BagNumbers
<1>6. OnlineTypes'
  BY <1>1, <1>5, OnlineTypesKept DEF TearInv
<1>. DEFINE New == NewHits(particles, new)
            P == Len(packets)
<1>7. P \in Nat
  BY DEF TearInv, OnlineTypes
<1>. HIDE DEF New, P
<1>8. ASSUME NEW m \in Modules
      PROVE  /\ m < query' => nwords'[m] <= Len(data'[m])
             /\ m < query => /\ Elements(Counted(m)') \subseteq Elements(Counted(m))
                             /\ Elements(Later(m)') \subseteq Elements(Later(m)) \cup New
             /\ ~(m < query) => /\ Elements(Counted(m)') \subseteq Elements(Counted(m)) \cup New
                                /\ Elements(Later(m)') = {}
  <2>. DEFINE b == data[m]
              n == nwords[m]
  <2>1. /\ m \in Nat /\ (m < query => n \in 0 .. Len(b)) /\ n \in Nat
        /\ b \in Seq(TrueHits) /\ b \in Seq(HitSet) /\ Len(b) \in Nat
    <3>1. /\ m \in Nat /\ (m < query => nwords[m] \in 0 .. Len(data[m])) /\ data[m] \in Seq(TrueHits)
          /\ nwords[m] \in Nat
      BY PartTypes DEF TearInv
    <3>2. TrueHits \subseteq HitSet
      BY DEF TrueHits, TrueHitsOf
    <3>3. data[m] \in Seq(HitSet)
      BY <3>1, <3>2, SequencesOver
    <3>4. Len(data[m]) \in Nat
      BY <3>1
    <3>. QED
      BY <3>1, <3>3, <3>4
  <2>2. PICK w \in Seq(HitSet) : data'[m] = b \o w /\ Elements(w) \subseteq New
    BY <1>4 DEF FrameAdds, New
  <2>3. /\ b \o w \in Seq(HitSet) /\ Len(b \o w) = Len(b) + Len(w) /\ Len(w) \in Nat
        /\ Elements(b \o w) = Elements(b) \cup Elements(w)
    <3>. HIDE DEF b
    <3>. QED
      BY <2>1, ConcatParts, ElementsConcat
  <2>. DEFINE r == b \o w
  <2>4. /\ r \in Seq(HitSet) /\ Len(r) \in Nat /\ Len(b) <= Len(r) /\ data'[m] = r
        /\ Elements(r) \subseteq Elements(b) \cup New
    BY <2>1, <2>2, <2>3
  <2>5. CASE m < query
    <3>1. nwords'[m] = n /\ m < query' /\ m # query
      BY <1>1, <2>1, <2>5
    <3>2. /\ Counted(m)' = SubSeq(r, 1, n) /\ Counted(m) = SubSeq(b, 1, n)
          /\ Later(m)' = SubSeq(r, n + 1, Len(r)) /\ Later(m) = SubSeq(b, n + 1, Len(b))
      BY <2>2, <2>5, <3>1 DEF Counted, Later
    <3>3. /\ Elements(SubSeq(r, 1, n)) = Elements(SubSeq(b, 1, n))
          /\ Elements(SubSeq(r, n + 1, Len(r)))
                \subseteq Elements(SubSeq(b, n + 1, Len(b))) \cup Elements(w)
      <4>1. n \in 0 .. Len(b) /\ b \in Seq(HitSet)
        BY <2>1, <2>5
      <4>. HIDE DEF b, n
      <4>. QED
        BY <4>1, PartsOfLonger
    <3>4. n <= Len(r)
      <4>. HIDE DEF r, b, n
      <4>. QED
        BY <2>1, <2>4, <2>5
    <3>. HIDE DEF r, b, n
    <3>. QED
      BY <2>2, <2>4, <2>5, <3>1, <3>2, <3>3, <3>4
  <2>6. CASE m = query
    <3>1. nwords'[m] = Len(r) /\ m < query' /\ ~(m < query)
      BY <1>1, <2>1, <2>4, <2>6
    <3>2. /\ Counted(m)' = SubSeq(r, 1, Len(r)) /\ Counted(m) = b
          /\ Later(m)' = SubSeq(r, Len(r) + 1, Len(r))
      BY <2>4, <3>1 DEF Counted, Later
    <3>. HIDE DEF r, b
    <3>3. Parts(r, Len(r))
      <4>1. Len(r) \in 0 .. Len(r)
        BY <2>4
      <4>. QED
        BY <2>4, <4>1, PartElements
    <3>4. Elements(Counted(m)') \subseteq Elements(Counted(m)) \cup New
      BY <2>4, <3>2, <3>3 DEF Parts
    <3>5. Elements(Later(m)') = {}
      <4>1. Len(r) + 1 .. Len(r) = {}
        BY <2>4
      <4>. QED
        BY <3>2, <3>3, <4>1 DEF Parts
    <3>6. nwords'[m] <= Len(data'[m])
      BY <2>4, <3>1
    <3>. QED
      BY <3>1, <3>4, <3>5, <3>6
  <2>7. CASE m > query
    <3>1. ~(m < query) /\ ~(m < query')
      BY <1>1, <2>1, <2>7
    <3>2. Counted(m)' = r /\ Counted(m) = b /\ Later(m)' = <<>>
      BY <2>4, <3>1 DEF Counted, Later
    <3>. HIDE DEF r, b
    <3>. QED
      BY <2>4, <3>1, <3>2, ElementsEmpty
  <2>. QED
    BY <1>1, <2>1, <2>5, <2>6, <2>7
<1>9. Answered'
  BY <1>8 DEF Answered
<1>10. ASSUME NEW m \in Modules, NEW k \in BagNumbers, NEW h \in Bag(m, k)'
       PROVE  \/ h \in Bag(m, k)
              \/ h \in New /\ k = IF m < query THEN P + 2 ELSE P + 1
  <2>1. P \in Nat /\ k \in 1 .. P + 2 /\ P = Len(packets) /\ P = Len(packets')
    BY <1>1, <1>7 DEF BagNumbers, P
  <2>2. CASE k <= P
    BY <1>1, <1>10, <2>1, <2>2 DEF Bag
  <2>3. CASE k = P + 1
    <3>1. h \in Elements(unread[m]) \cup Elements(Counted(m)')
      BY <1>1, <1>10, <2>1, <2>3 DEF Bag
    <3>2. Bag(m, k) = Elements(unread[m]) \cup Elements(Counted(m))
      BY <2>1, <2>3 DEF Bag
    <3>. QED
      BY <1>8, <2>3, <3>1, <3>2
  <2>4. CASE k = P + 2
    <3>1. h \in Elements(Later(m)')
      BY <1>1, <1>10, <2>1, <2>4 DEF Bag
    <3>2. Bag(m, k) = Elements(Later(m))
      BY <2>1, <2>4 DEF Bag
    <3>. QED
      BY <1>8, <2>4, <3>1, <3>2
  <2>. QED
    BY <2>1, <2>2, <2>3, <2>4
<1>11. ASSUME NEW m \in Modules, NEW k \in BagNumbers, NEW g \in Bag(m, k), NEW h \in New
       PROVE  g.n # h.n
  <2>1. g \in TrueHits
    BY BagTypes DEF TearInv
  <2>2. g.n \in Nat /\ g.n <= Len(particles)
    BY <2>1 DEF TrueHits, TrueHitsOf
  <2>3. h.n \in Nat /\ h.n > Len(particles)
    BY DEF New, NewHits, TrueHitsOf
  <2>4. Len(particles) \in Nat
    BY <1>3
  <2>. QED
    BY <2>2, <2>3, <2>4
<1>12. Torn'
  <2>. SUFFICES ASSUME NEW i \in Modules, NEW j \in Modules, i < j,
                       NEW k \in BagNumbers, NEW l \in BagNumbers,
                       NEW g \in Bag(i, k)', NEW h \in Bag(j, l)', g.n = h.n
                PROVE  k \in {l, l + 1}
    BY <1>5 DEF Torn
  <2>1. CASE g \in Bag(i, k) /\ h \in Bag(j, l)
    BY <2>1 DEF TearInv, Torn
  <2>2. CASE g \in New /\ h \in New /\ k = (IF i < query THEN P + 2 ELSE P + 1)
             /\ l = (IF j < query THEN P + 2 ELSE P + 1)
    <3>1. i \in Nat /\ j \in Nat
      BY ModuleTypes
    <3>. QED
      BY <1>1, <1>7, <2>2, <3>1
  <2>. QED
    BY <1>10, <1>11, <2>1, <2>2
<1>. QED
  BY <1>6, <1>9, <1>12 DEF TearInv

\* The packets of a pass: what was unread and what is read.
PassPacket(taken) == [m \in Modules |-> unread[m] \o SubSeq(data[m], 1, taken[m])]

LEMMA PassEnds ==
    ASSUME PixieTypes, ReadDataFromModules
    PROVE  \E group_read \in BOOLEAN, taken \in Takings :
              /\ taken = [m \in Modules |-> Reads(m, group_read)] /\ HitsTaken(taken)
              /\ query = DssdModules + 1 /\ query' = 0
              /\ IF group_read
                 THEN /\ packets' = Append(packets, PassPacket(taken))
                      /\ unread' = [m \in Modules |-> <<>>]
                 ELSE unread' = PassPacket(taken) /\ UNCHANGED packets
<1>1. PICK group_read \in BOOLEAN :
         LET more(m) == SubSeq(delivered'[m], Len(delivered[m]) + 1, Len(delivered'[m]))
             packet == [m \in Modules |-> unread[m] \o more(m)]
         IN  /\ ReadDataFromExternalFIFO(group_read)
             /\ IF group_read
                THEN /\ \E m \in Modules : Len(packet[m]) >= Enough
                     /\ packets' = Append(packets, packet)
                     /\ unread' = [m \in Modules |-> <<>>]
                ELSE unread' = packet /\ UNCHANGED packets
  BY DEF ReadDataFromModules
<1>. DEFINE packet == [m \in Modules |-> unread[m] \o
                         SubSeq(delivered'[m], Len(delivered[m]) + 1, Len(delivered'[m]))]
            taken == [m \in Modules |-> Reads(m, group_read)]
<1>2. /\ ReadDataFromExternalFIFO(group_read)
      /\ IF group_read
         THEN /\ packets' = Append(packets, packet)
              /\ unread' = [m \in Modules |-> <<>>]
         ELSE unread' = packet /\ UNCHANGED packets
  BY <1>1
<1>3. taken \in Takings /\ HitsTaken(taken) /\ query = DssdModules + 1 /\ query' = 0
  BY <1>2, ReadStep
<1>. HIDE DEF taken
<1>4. packet = PassPacket(taken)
  BY <1>3, TakenTypes DEF PassPacket
<1>. HIDE DEF packet
<1>. QED
  BY <1>2, <1>3, <1>4 DEF taken

LEMMA PassPacketType ==
    ASSUME PixieTypes, OnlineTypes, NEW taken \in Takings, HitsTaken(taken)
    PROVE  /\ PassPacket(taken) \in [Modules -> Seq(TrueHits)]
           /\ \A m \in Modules :
                 Elements(PassPacket(taken)[m])
                    = Elements(unread[m]) \cup Elements(SubSeq(data[m], 1, taken[m]))
<1>1. ASSUME NEW m \in Modules
      PROVE  /\ PassPacket(taken)[m] \in Seq(TrueHits)
             /\ Elements(PassPacket(taken)[m])
                   = Elements(unread[m]) \cup Elements(SubSeq(data[m], 1, taken[m]))
  <2>. DEFINE u == unread[m]
              p == SubSeq(data[m], 1, taken[m])
  <2>1. u \in Seq(TrueHits) /\ p \in Seq(TrueHits)
    BY TakenTypes DEF OnlineTypes
  <2>2. PassPacket(taken)[m] = u \o p
    BY DEF PassPacket
  <2>. HIDE DEF u, p
  <2>3. u \o p \in Seq(TrueHits) /\ Elements(u \o p) = Elements(u) \cup Elements(p)
    BY <2>1, ConcatParts, ElementsConcat
  <2>. QED
    BY <2>2, <2>3 DEF u, p
<1>. QED
  BY <1>1 DEF PassPacket

\* The end of a pass: with a group read the counted hits are the next packet, without one
\* all that is there is for the next packet.
LEMMA ReadTears ==
    ASSUME PixieTypes, TearInv, ReadDataFromModules
    PROVE  TearInv'
<1>1. PICK group_read \in BOOLEAN, taken \in Takings :
         /\ taken = [m \in Modules |-> Reads(m, group_read)] /\ HitsTaken(taken)
         /\ query = DssdModules + 1 /\ query' = 0
         /\ IF group_read
            THEN /\ packets' = Append(packets, PassPacket(taken))
                 /\ unread' = [m \in Modules |-> <<>>]
            ELSE /\ unread' = PassPacket(taken)
                 /\ UNCHANGED packets
  BY PassEnds
<1>. DEFINE packet == PassPacket(taken)
            P == Len(packets)
<1>2. /\ packet \in [Modules -> Seq(TrueHits)]
      /\ \A m \in Modules :
            Elements(packet[m]) = Elements(unread[m]) \cup Elements(SubSeq(data[m], 1, taken[m]))
  BY <1>1, PassPacketType DEF TearInv
<1>3. TrueHits' = TrueHits /\ \A m \in Modules : m \in Nat /\ ~(m < 0) /\ m < query
  <2>1. \A m \in Modules : m \in Nat /\ ~(m < 0) /\ m < DssdModules + 1
    BY ModuleTypes
  <2>. QED
    BY <1>1, <2>1, TakenTypes
<1>4. P \in Nat /\ packets \in Seq([Modules -> Seq(TrueHits)])
  BY DEF TearInv, OnlineTypes
<1>5. Answered'
  BY <1>1, <1>3 DEF Answered
<1>6. OnlineTypes'
  <2>1. <<>> \in Seq(TrueHits)
    OBVIOUS
  <2>2. unread' \in [Modules -> Seq(TrueHits)]
    BY <1>1, <1>2, <2>1
  <2>. HIDE DEF packet
  <2>3. Append(packets, packet) \in Seq([Modules -> Seq(TrueHits)])
    BY <1>2, <1>4, AppendProperties
  <2>4. packets' \in Seq([Modules -> Seq(TrueHits)])
    BY <1>1, <1>4, <2>3 DEF packet
  <2>. QED
    BY <1>3, <2>2, <2>4 DEF OnlineTypes
<1>7. ASSUME NEW m \in Modules
      PROVE  /\ Counted(m)' = data'[m] /\ Later(m)' = <<>>
             /\ Elements(data'[m]) = Elements(SubSeq(data[m], taken[m] + 1, Len(data[m])))
             /\ Elements(SubSeq(data[m], 1, taken[m])) \cup Elements(data'[m])
                   = Elements(Counted(m)) \cup Elements(Later(m))
             /\ group_read => /\ Counted(m) = SubSeq(data[m], 1, taken[m])
                              /\ Later(m) = data'[m]
  <2>1. Counted(m)' = data'[m] /\ Later(m)' = <<>>
    BY <1>1, <1>3 DEF Counted, Later
  <2>2. /\ data'[m] = SubSeq(data[m], taken[m] + 1, Len(data[m])) /\ m < query
    BY <1>1, <1>3, TakenTypes
  <2>3. /\ data[m] \in Seq(TrueHits) /\ Elements(data[m]) = Elements(Counted(m)) \cup Elements(Later(m))
        /\ nwords[m] \in 0 .. Len(data[m])
    BY <2>2, PartTypes DEF TearInv
  <2>4. Parts(data[m], taken[m])
    <3>1. taken[m] \in 0 .. Len(data[m])
      <4>1. taken[m] \in Nat /\ taken[m] <= Len(data[m])
        BY DEF Takings
      <4>2. Len(data[m]) \in Nat
        BY <2>3
      <4>. QED
        BY <4>1, <4>2
    <3>. QED
      BY <2>3, <3>1, PartElements
  <2>5. ASSUME group_read PROVE taken[m] = nwords[m]
    <3>1. taken[m] = GetData(m, nwords[m])
      BY <1>1, <2>5 DEF Reads
    <3>2. nwords[m] <= Len(data[m]) /\ Len(data[m]) \in Nat /\ nwords[m] \in Nat
      BY <2>3
    <3>. QED
      BY <3>1, <3>2 DEF GetData
  <2>6. ASSUME group_read
        PROVE  Counted(m) = SubSeq(data[m], 1, taken[m]) /\ Later(m) = data'[m]
    BY <2>2, <2>5, <2>6 DEF Counted, Later
  <2>. QED
    BY <2>1, <2>2, <2>3, <2>4, <2>6 DEF Parts
<1>. HIDE DEF packet, P
<1>8. CASE group_read
  <2>1. packets' = Append(packets, packet) /\ unread' = [m \in Modules |-> <<>>]
    BY <1>1, <1>8 DEF packet
  <2>2. /\ Len(packets') = P + 1 /\ packets'[P + 1] = packet
        /\ \A k \in 1 .. P : packets'[k] = packets[k]
    BY <1>2, <1>4, <2>1, AppendProperties DEF P
  <2>3. ASSUME NEW m \in Modules, NEW k \in BagNumbers', NEW h \in Bag(m, k)'
        PROVE  \E l \in BagNumbers : h \in Bag(m, l) /\ k = IF l <= P + 2 THEN l ELSE P + 2
    <3>1. k \in 1 .. P + 3 /\ BagNumbers = 1 .. P + 2
      BY <1>4, <2>2 DEF BagNumbers, P
    <3>2. CASE k <= P
      <4>1. h \in Bag(m, k)
        <5>1. Bag(m, k)' = Elements(packets'[k][m])
          BY <1>4, <2>2, <3>1, <3>2 DEF Bag
        <5>2. packets'[k] = packets[k]
          BY <2>2, <3>1, <3>2
        <5>3. Bag(m, k) = Elements(packets[k][m])
          BY <3>2 DEF Bag, P
        <5>. QED
          BY <2>3, <5>1, <5>2, <5>3
      <4>. QED
        BY <1>4, <3>1, <3>2, <4>1
    <3>3. CASE k = P + 1
      <4>1. Bag(m, k)' = Elements(packet[m])
        BY <1>4, <2>2, <3>3 DEF Bag
      <4>2. Bag(m, P + 1) = Elements(unread[m]) \cup Elements(Counted(m))
        BY <1>4 DEF Bag, P
      <4>3. h \in Bag(m, P + 1)
        BY <1>2, <1>7, <1>8, <2>3, <4>1, <4>2
      <4>. QED
        BY <1>4, <3>1, <3>3, <4>3
    <3>4. CASE k = P + 2
      <4>1. Bag(m, k)' = Elements(unread'[m]) \cup Elements(Counted(m)')
        BY <1>4, <2>2, <3>4 DEF Bag
      <4>2. unread'[m] = <<>>
        BY <2>1
      <4>3. Bag(m, P + 2) = Elements(Later(m))
        BY <1>4 DEF Bag, P
      <4>4. h \in Bag(m, P + 2)
        BY <1>7, <1>8, <2>3, <4>1, <4>2, <4>3, ElementsEmpty
      <4>. QED
        BY <1>4, <3>1, <3>4, <4>4
    <3>5. CASE k = P + 3
      <4>1. Bag(m, k)' = Elements(Later(m)')
        BY <1>4, <2>2, <3>5 DEF Bag
      <4>. QED
        BY <1>7, <2>3, <4>1, ElementsEmpty
    <3>. QED
      BY <1>4, <3>1, <3>2, <3>3, <3>4, <3>5
  <2>4. P + 2 \in Nat /\ P + 2 >= P + 1
    BY <1>4
  <2>5. Torn'
    BY <1>4, <2>3, <2>4, TornKept DEF TearInv, P
  <2>. QED
    BY <1>5, <1>6, <2>5 DEF TearInv
<1>9. CASE ~group_read
  <2>1. packets' = packets /\ unread' = packet
    BY <1>1, <1>9 DEF packet
  <2>2. ASSUME NEW m \in Modules, NEW k \in BagNumbers', NEW h \in Bag(m, k)'
        PROVE  \E l \in BagNumbers : h \in Bag(m, l) /\ k = IF l <= P + 1 THEN l ELSE P + 1
    <3>1. k \in 1 .. P + 2 /\ BagNumbers = 1 .. P + 2
      BY <1>4, <2>1 DEF BagNumbers, P
    <3>2. CASE k <= P
      <4>1. h \in Bag(m, k)
        BY <2>1, <2>2, <3>2 DEF Bag, P
      <4>. QED
        BY <1>4, <3>1, <3>2, <4>1
    <3>3. CASE k = P + 1
      <4>1. Bag(m, k)' = Elements(packet[m]) \cup Elements(data'[m])
        BY <1>4, <1>7, <2>1, <3>3 DEF Bag, P
      <4>2. /\ Bag(m, P + 1) = Elements(unread[m]) \cup Elements(Counted(m))
            /\ Bag(m, P + 2) = Elements(Later(m))
        BY <1>4 DEF Bag, P
      <4>3. h \in Bag(m, P + 1) \/ h \in Bag(m, P + 2)
        BY <1>2, <1>7, <2>2, <4>1, <4>2
      <4>4. /\ P + 1 \in BagNumbers /\ P + 2 \in BagNumbers /\ P + 1 <= P + 1 /\ ~(P + 2 <= P + 1)
        BY <1>4, <3>1
      <4>. QED
        BY <3>3, <4>3, <4>4
    <3>4. CASE k = P + 2
      <4>1. Bag(m, k)' = Elements(Later(m)')
        BY <1>4, <2>1, <3>4 DEF Bag, P
      <4>. QED
        BY <1>7, <2>2, <4>1, ElementsEmpty
    <3>. QED
      BY <1>4, <3>1, <3>2, <3>3, <3>4
  <2>3. P + 1 \in Nat /\ P + 1 >= P + 1
    BY <1>4
  <2>4. Torn'
    BY <1>4, <2>2, <2>3, TornKept DEF TearInv, P
  <2>. QED
    BY <1>5, <1>6, <2>4 DEF TearInv
<1>. QED
  BY <1>8, <1>9

LEMMA TearStep == PixieTypes /\ TearInv /\ [Next]_vars => TearInv'
<1>. SUFFICES ASSUME PixieTypes, TearInv, [Next]_vars PROVE TearInv'
  OBVIOUS
<1>1. CASE UNCHANGED <<particles, data, query, nwords, unread, packets>>
  BY <1>1, TearUnmoved
<1>2. CASE UNCHANGED vars
  BY <1>1, <1>2 DEF vars, service, daq, onlineVars
<1>3. CASE Analyse /\ UNCHANGED <<service, daq, delivered, particles>>
  BY <1>1, <1>3 DEF service, daq, Analyse, NewEvent, AddMatches, Clean, FillOnlineGraph
<1>4. CASE (Boot \/ EndRun) /\ UNCHANGED onlineVars
  BY <1>1, <1>4 DEF Boot, EndRun, onlineVars, daq
<1>5. CASE StartRun
  BY <1>5, StartRunTears
<1>6. CASE CheckExternalFIFOStatus /\ UNCHANGED onlineVars
  BY <1>6, QuestionStep, QuestionTears, FrameTears
<1>7. CASE ReadDataFromModules
  BY <1>7, ReadTears
<1>. QED
  BY <1>2, <1>3, <1>4, <1>5, <1>6, <1>7 DEF Next, Daq

LEMMA TearInit == Init => TearInv
<1>. SUFFICES ASSUME Init PROVE TearInv
  OBVIOUS
<1>1. /\ query = 0 /\ packets = <<>> /\ unread = [m \in Modules |-> <<>>]
      /\ data = [m \in Modules |-> <<>>]
  BY DEF Init, PixieInit
<1>2. <<>> \in Seq(TrueHits) /\ <<>> \in Seq([Modules -> Seq(TrueHits)]) /\ Len(<<>>) = 0
  OBVIOUS
<1>3. OnlineTypes
  BY <1>1, <1>2 DEF OnlineTypes
<1>4. \A m \in Modules : m \in Nat /\ ~(m < 0)
  BY ModuleTypes
<1>5. Answered
  BY <1>1, <1>4 DEF Answered
<1>6. ASSUME NEW m \in Modules, NEW k \in BagNumbers PROVE Bag(m, k) = {}
  <2>1. Counted(m) = <<>> /\ Later(m) = <<>> /\ unread[m] = <<>>
    BY <1>1, <1>4 DEF Counted, Later
  <2>2. ~(k <= Len(packets))
    BY <1>1, <1>2 DEF BagNumbers
  <2>. QED
    BY <2>1, <2>2, ElementsEmpty DEF Bag
<1>7. Torn
  BY <1>6 DEF Torn
<1>. QED
  BY <1>3, <1>5, <1>7 DEF TearInv

LEMMA TearFollows == TearInv => TornForward
<1>. SUFFICES ASSUME TearInv, NEW i \in Modules, NEW j \in Modules, i < j, NEW n,
                     NEW k \in PacketsWith(n, {i}), NEW l \in PacketsWith(n, {j})
              PROVE  k \in {l, l + 1}
  BY DEF TornForward
<1>1. packets \in Seq([Modules -> Seq(TrueHits)])
  BY DEF TearInv, OnlineTypes
<1>2. DOMAIN packets = 1 .. Len(packets) /\ Len(packets) \in Nat
  BY <1>1
<1>3. ASSUME NEW m \in Modules, NEW a \in PacketsWith(n, {m})
      PROVE  a \in BagNumbers /\ \E h \in Bag(m, a) : h.n = n
  <2>1. a \in 1 .. Len(packets) /\ \E h \in ToSet(packets[a][m]) : h.n = n
    BY <1>2, <1>3 DEF PacketsWith
  <2>2. packets[a][m] \in Seq(TrueHits)
    BY <1>1, <2>1
  <2>3. ToSet(packets[a][m]) = Elements(packets[a][m])
    BY <2>2, ElementsType
  <2>4. Bag(m, a) = Elements(packets[a][m]) /\ a \in BagNumbers
    BY <1>2, <2>1 DEF Bag, BagNumbers
  <2>. QED
    BY <2>1, <2>3, <2>4
<1>4. PICK g \in Bag(i, k) : g.n = n
  BY <1>3
<1>5. PICK h \in Bag(j, l) : h.n = n
  BY <1>3
<1>6. k \in BagNumbers /\ l \in BagNumbers
  BY <1>3
<1>. QED
  BY <1>4, <1>5, <1>6 DEF TearInv, Torn

\* The driver's types, the answers that stay good until they are used, and where the hits
\* of a particle may be, in the packets made and to be made.
THEOREM OnlineInvariant == Spec => [](PixieTypes /\ TearInv)
<1>1. PixieTypes /\ [Next]_vars => PixieTypes'
  BY PixieStep
<1>. QED
  BY <1>1, PixieTypesInit, TearInit, TearStep, PTL DEF Spec

\* A particle that is torn apart has its hits of the later modules in the packets right
\* before those of the earlier ones, for any number of modules and any order of frames,
\* questions, reads and runs.
THEOREM ParticlesTornForward == Spec => []TornForward
  BY OnlineInvariant, TearFollows, PTL

==============================================================================
