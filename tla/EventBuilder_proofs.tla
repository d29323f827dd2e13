-------------------------- MODULE EventBuilder_proofs --------------------------
(***************************************************************************)
(* Proofs about EventBuilder, for any modules, packets and windows, and    *)
(* whatever the search for the first event is told by the words behind a   *)
(* packet: every hit goes into one vector, and what the order of time of   *)
(* the modules' streams makes of the vectors.                              *)
(***************************************************************************)
EXTENDS EventBuilder, StreamLemmas, SequenceTheorems, TLAPS

------------------------------------------------------------------------------
(* The hits of a module in a sequence of hits.                              *)

\* The hits of a module are those picked from all hits.
LEMMA HitsPicked ==
    ASSUME NEW S, NEW q \in Seq(S), NEW i
    PROVE  /\ HitsOf(i, q) = Picked({h \in S : h[1] = i}, q)
           /\ HitsOf(i, q) \in Seq(S)
<1>. DEFINE C == {h \in S : h[1] = i}
            c == [n \in DOMAIN q |-> IF q[n][1] = i THEN <<q[n]>> ELSE <<>>]
<1>1. DOMAIN q = 1 .. Len(q)
  OBVIOUS
<1>2. ASSUME NEW n \in 1 .. Len(q) PROVE q[n] \in C <=> q[n][1] = i
  <2>1. q[n] \in S
    BY ElementOfSeq
  <2>. QED
    BY <2>1
<1>3. c = Chosen(C, q)
  <2>. HIDE DEF C
  <2>. QED
    BY <1>1, <1>2 DEF Chosen
<1>4. HitsOf(i, q) = FlattenSeq(c)
  BY DEF HitsOf
<1>5. Picked(C, q) \in Seq(S)
  BY ChosenType
<1>. HIDE DEF C, c
<1>6. HitsOf(i, q) = Picked(C, q)
  BY <1>3, <1>4 DEF Picked
<1>. QED
  BY <1>5, <1>6 DEF C

\* The hits of a module in a concatenation.
LEMMA HitsOfConcat ==
    ASSUME NEW S, NEW q \in Seq(S), NEW r \in Seq(S), NEW i
    PROVE  HitsOf(i, q \o r) = HitsOf(i, q) \o HitsOf(i, r)
<1>. DEFINE C == {h \in S : h[1] = i}
<1>1. q \o r \in Seq(S)
  OBVIOUS
<1>2. /\ HitsOf(i, q) = Picked(C, q) /\ HitsOf(i, r) = Picked(C, r)
      /\ HitsOf(i, q \o r) = Picked(C, q \o r)
  BY <1>1, HitsPicked
<1>. HIDE DEF C
<1>3. PicksSplit(C, q, r)
  BY PickedConcat
<1>. QED
  BY <1>2, <1>3 DEF PicksSplit

\* The hits of a module in nothing, and in one hit.
LEMMA HitsOfOne ==
    ASSUME NEW S, NEW h \in S, NEW i
    PROVE  /\ HitsOf(i, <<>>) = <<>>
           /\ HitsOf(i, <<h>>) = IF h[1] = i THEN <<h>> ELSE <<>>
<1>. DEFINE C == {x \in S : x[1] = i}
<1>1. <<>> \in Seq(S) /\ <<h>> \in Seq(S)
  OBVIOUS
<1>2. HitsOf(i, <<>>) = Picked(C, <<>>) /\ HitsOf(i, <<h>>) = Picked(C, <<h>>)
  BY <1>1, HitsPicked
<1>3. h \in C <=> h[1] = i
  OBVIOUS
<1>. HIDE DEF C
<1>. QED
  BY <1>2, <1>3, PickedOne

\* If the hits that g concatenates are at most one of each module, in the order of the
\* modules, then g[i + 1] are those of module i.
OneOfEach(g, N) ==
    \A n \in 1 .. N : g[n] = <<>> \/ \E h : g[n] = <<h>> /\ h[1] = n - 1

\* The hits of module i in the first n of the hits that g concatenates.
Gathers(i, g, n) ==
    HitsOf(i, FlattenSeq([k \in 1 .. n |-> g[k]])) = IF i < n THEN g[i + 1] ELSE <<>>

LEMMA GathersOneMore ==
    ASSUME NEW S, NEW g \in Seq(Seq(S)), NEW i \in Nat, NEW n \in Nat, n + 1 <= Len(g),
           OneOfEach(g, Len(g)), Gathers(i, g, n)
    PROVE  Gathers(i, g, n + 1)
<1>. DEFINE p == [k \in 1 .. n |-> g[k]]
            q == [k \in 1 .. n + 1 |-> g[k]]
            x == g[n + 1]
            a == FlattenSeq(p)
<1>1. /\ Len(g) \in Nat /\ \A k \in 1 .. Len(g) : g[k] \in Seq(S)
  BY ElementOfSeq
<1>2. n + 1 \in 1 .. Len(g) /\ \A k \in 1 .. n : k \in 1 .. Len(g)
  BY <1>1
<1>3. p \in Seq(Seq(S)) /\ Len(p) = n /\ x \in Seq(S)
  BY <1>1, <1>2
<1>4. /\ DOMAIN q = 1 .. Len(p) + 1 /\ q = [k \in DOMAIN q |-> q[k]]
      /\ \A k \in 1 .. Len(p) : q[k] = p[k]
      /\ q[Len(p) + 1] = x
  BY <1>3
<1>5. Gathers(i, g, n + 1) <=>
         HitsOf(i, FlattenSeq(q)) = IF i < n + 1 THEN g[i + 1] ELSE <<>>
  BY DEF Gathers
<1>6. HitsOf(i, a) = IF i < n THEN g[i + 1] ELSE <<>>
  BY DEF Gathers
<1>. HIDE DEF p, q, x
<1>7. q = Append(p, x)
  BY <1>3, <1>4, AppendPointwise
<1>8. FlattenSeq(q) = a \o x /\ a \in Seq(S)
  BY <1>3, <1>7, FlattenAppend, FlattenType
<1>. HIDE DEF a
<1>9. HitsOf(i, a \o x) = HitsOf(i, a) \o HitsOf(i, x) /\ HitsOf(i, a) \in Seq(S)
  <2>1. a \in Seq(S) /\ x \in Seq(S)
    BY <1>3, <1>8
  <2>2. HitsOf(i, a \o x) = HitsOf(i, a) \o HitsOf(i, x)
    BY <2>1, HitsOfConcat
  <2>3. HitsOf(i, a) \in Seq(S)
    BY <2>1, HitsPicked
  <2>. QED
    BY <2>2, <2>3
<1>10. HitsOf(i, x) = IF n = i THEN x ELSE <<>>
  <2>1. CASE x = <<>>
    <3>1. HitsOf(i, <<>>) = <<>>
      <4>1. [m \in DOMAIN <<>> |-> IF (<<>>)[m][1] = i THEN << (<<>>)[m] >> ELSE <<>>] = <<>>
        OBVIOUS
      <4>. QED
        BY <4>1, FlattenEmpty DEF HitsOf
    <3>. QED
      BY <2>1, <3>1
  <2>2. CASE \E h : x = <<h>> /\ h[1] = n
    <3>1. PICK h : x = <<h>> /\ h[1] = n
      BY <2>2
    <3>2. h \in S
      BY <1>3, <3>1
    <3>3. HitsOf(i, <<h>>) = IF h[1] = i THEN <<h>> ELSE <<>>
      BY <3>2, HitsOfOne
    <3>. QED
      BY <3>1, <3>3
  <2>3. x = <<>> \/ \E h : x = <<h>> /\ h[1] = n
    <3>1. g[n + 1] = <<>> \/ \E h : g[n + 1] = <<h>> /\ h[1] = (n + 1) - 1
      BY <1>2 DEF OneOfEach
    <3>2. (n + 1) - 1 = n
      OBVIOUS
    <3>. QED
      BY <3>1, <3>2 DEF x
  <2>. QED
    BY <2>1, <2>2, <2>3
<1>11. CASE i < n
  <2>1. HitsOf(i, x) = <<>> /\ i < n + 1
    BY <1>10, <1>11
  <2>2. HitsOf(i, a) \o <<>> = HitsOf(i, a)
    BY <1>9, ConcatEmptySeq
  <2>. QED
    BY <1>5, <1>6, <1>8, <1>9, <1>11, <2>1, <2>2
<1>12. CASE i = n
  <2>1. HitsOf(i, x) = x /\ i < n + 1 /\ HitsOf(i, a) = <<>>
    BY <1>6, <1>10, <1>12
  <2>2. <<>> \o x = x
    BY <1>3, ConcatEmptySeq
  <2>. QED
    BY <1>5, <1>8, <1>9, <1>12, <2>1, <2>2 DEF x
<1>13. CASE i > n
  <2>1. HitsOf(i, x) = <<>> /\ ~(i < n + 1) /\ HitsOf(i, a) = <<>>
    BY <1>6, <1>10, <1>13
  <2>2. <<>> \o <<>> = <<>>
    OBVIOUS
  <2>. QED
    BY <1>5, <1>8, <1>9, <2>1, <2>2
<1>. QED
  BY <1>11, <1>12, <1>13

LEMMA GathersAll ==
    ASSUME NEW S, NEW g \in Seq(Seq(S)), NEW i \in Nat, i < Len(g), OneOfEach(g, Len(g))
    PROVE  HitsOf(i, FlattenSeq(g)) = g[i + 1]
<1>. DEFINE T == {n \in Nat : n <= Len(g) => Gathers(i, g, n)}
<1>1. Len(g) \in Nat /\ DOMAIN g = 1 .. Len(g) /\ g = [k \in DOMAIN g |-> g[k]]
  OBVIOUS
<1>2. 0 \in T
  <2>1. [k \in 1 .. 0 |-> g[k]] = <<>>
    OBVIOUS
  <2>2. HitsOf(i, <<>>) = <<>>
    <3>1. [m \in DOMAIN <<>> |-> IF (<<>>)[m][1] = i THEN << (<<>>)[m] >> ELSE <<>>] = <<>>
      OBVIOUS
    <3>. QED
      BY <3>1, FlattenEmpty DEF HitsOf
  <2>3. ~(i < 0)
    OBVIOUS
  <2>4. Gathers(i, g, 0)
    BY <2>1, <2>2, <2>3, FlattenEmpty DEF Gathers
  <2>. QED
    BY <2>4
<1>3. ASSUME NEW n \in Nat, n \in T PROVE n + 1 \in T
  <2>. SUFFICES ASSUME n + 1 <= Len(g) PROVE Gathers(i, g, n + 1)
    OBVIOUS
  <2>1. Gathers(i, g, n)
    BY <1>1, <1>3
  <2>. QED
    BY <2>1, GathersOneMore
<1>. HIDE DEF T
<1>4. Nat \subseteq T
  BY <1>2, <1>3, NumberInduction
<1>5. Gathers(i, g, Len(g))
  BY <1>1, <1>4 DEF T
<1>. QED
  BY <1>1, <1>5 DEF Gathers

------------------------------------------------------------------------------
(* The events of a packet.                                                  *)

LEMMA PacketFields ==
    ASSUME NEW p \in Packets
    PROVE  /\ p.length \in Nat /\ Len(p.events) \in Nat /\ DOMAIN p.events = 1 .. Len(p.events)
           /\ HeaderSize \in Nat /\ HeaderSize > 0
           /\ \A k \in 1 .. Len(p.events) :
                 /\ p.events[k].at \in Nat /\ p.events[k].len \in Nat /\ p.events[k].ts \in Nat
                 /\ p.events[k].at < p.length /\ p.events[k].len >= HeaderSize
                 /\ k = Len(p.events) => p.events[k].at + p.events[k].len >= p.length
                 /\ k < Len(p.events) => p.events[k + 1].at = p.events[k].at + p.events[k].len
<1>1. WellFormed(p)
  BY BuilderAssumption
<1>2. p.length \in Nat /\ p.events \in Seq([at : Nat, len : Nat, ts : Nat])
  BY <1>1 DEF WellFormed
<1>3. HeaderSize \in Nat /\ HeaderSize > 0
  BY BuilderAssumption
<1>4. Len(p.events) \in Nat /\ DOMAIN p.events = 1 .. Len(p.events)
  BY <1>2
<1>5. ASSUME NEW k \in 1 .. Len(p.events)
      PROVE  /\ p.events[k].at \in Nat /\ p.events[k].len \in Nat /\ p.events[k].ts \in Nat
             /\ p.events[k].at < p.length /\ p.events[k].len >= HeaderSize
             /\ k = Len(p.events) => p.events[k].at + p.events[k].len >= p.length
             /\ k < Len(p.events) => p.events[k + 1].at = p.events[k].at + p.events[k].len
  <2>1. p.events[k] \in [at : Nat, len : Nat, ts : Nat]
    BY <1>2, ElementOfSeq
  <2>2. /\ p.events[k].at < p.length /\ p.events[k].len >= HeaderSize
        /\ IF k = Len(p.events) THEN p.events[k].at + p.events[k].len >= p.length
                                ELSE p.events[k + 1].at = p.events[k].at + p.events[k].len
    BY <1>1, <1>4 DEF WellFormed
  <2>3. k < Len(p.events) => k # Len(p.events)
    BY <1>4
  <2>. QED
    BY <2>1, <2>2, <2>3
<1>. QED
  BY <1>2, <1>3, <1>4, <1>5

\* Event j ends before event k begins.
Precedes(p, j, k) == p.events[j].at + p.events[j].len <= p.events[k].at

LEMMA PrecedesNext ==
    ASSUME NEW p \in Packets, NEW j \in 1 .. Len(p.events), NEW k \in 1 .. Len(p.events), j < k
    PROVE  Precedes(p, j, k)
<1>. DEFINE L == Len(p.events)
            T == {d \in Nat : j + (d + 1) <= L => Precedes(p, j, j + (d + 1))}
<1>1. L \in Nat /\ HeaderSize \in Nat /\ \A m \in 1 .. L :
         /\ p.events[m].at \in Nat /\ p.events[m].len \in Nat
         /\ m < L => p.events[m + 1].at = p.events[m].at + p.events[m].len
  BY PacketFields
<1>. HIDE DEF L
<1>2. 0 \in T
  <2>. SUFFICES ASSUME j + (0 + 1) <= L PROVE Precedes(p, j, j + (0 + 1))
    OBVIOUS
  <2>1. j \in 1 .. L /\ j < L /\ j + (0 + 1) = j + 1
    BY <1>1 DEF L
  <2>2. /\ p.events[j].at \in Nat /\ p.events[j].len \in Nat
        /\ p.events[j + 1].at = p.events[j].at + p.events[j].len
    BY <1>1, <2>1
  <2>3. Precedes(p, j, j + 1)
    BY <2>2 DEF Precedes
  <2>. QED
    BY <2>1, <2>3
<1>3. ASSUME NEW d \in Nat, d \in T PROVE d + 1 \in T
  <2>. SUFFICES ASSUME j + ((d + 1) + 1) <= L PROVE Precedes(p, j, j + ((d + 1) + 1))
    OBVIOUS
  <2>. DEFINE m == j + (d + 1)
  <2>1. j \in 1 .. L /\ m \in 1 .. L /\ m < L /\ m <= L /\ j + ((d + 1) + 1) = m + 1 /\ m + 1 \in 1 .. L
    BY <1>1 DEF L
  <2>2. Precedes(p, j, m)
    BY <1>3, <2>1
  <2>. HIDE DEF m
  <2>3. Precedes(p, j, m + 1)
    <3>1. /\ p.events[j].at \in Nat /\ p.events[j].len \in Nat
          /\ p.events[m].at \in Nat /\ p.events[m].len \in Nat
          /\ p.events[m + 1].at = p.events[m].at + p.events[m].len
      BY <1>1, <2>1
    <3>2. p.events[j].at + p.events[j].len <= p.events[m].at
      BY <2>2 DEF Precedes
    <3>. DEFINE a == p.events[j].at
                b == p.events[j].len
                c == p.events[m].at
                d0 == p.events[m].len
    <3>3. a + b <= c + d0
      <4>1. a \in Nat /\ b \in Nat /\ c \in Nat /\ d0 \in Nat /\ a + b <= c
        BY <3>1, <3>2
      <4>. HIDE DEF a, b, c, d0
      <4>. QED
        BY <4>1
    <3>4. p.events[m + 1].at = c + d0
      BY <3>1
    <3>5. p.events[j].at + p.events[j].len <= p.events[m + 1].at
      BY <3>3, <3>4
    <3>. QED
      BY <3>5 DEF Precedes
  <2>. QED
    BY <2>1, <2>3
<1>. HIDE DEF T
<1>4. Nat \subseteq T
  BY <1>2, <1>3, NumberInduction
<1>. DEFINE d == k - j - 1
<1>5. d \in Nat /\ j + (d + 1) = k /\ k <= L
  BY <1>1 DEF L
<1>6. d \in T
  BY <1>4, <1>5
<1>. HIDE DEF d
<1>. QED
  BY <1>5, <1>6 DEF T

\* The events lie in the packet in the order of their indices.
LEMMA InOrder ==
    ASSUME NEW p \in Packets, NEW j \in 1 .. Len(p.events), NEW k \in 1 .. Len(p.events)
    PROVE  /\ j < k <=> p.events[j].at < p.events[k].at
           /\ j = k <=> p.events[j].at = p.events[k].at
           /\ j < k => p.events[j].at + p.events[j].len <= p.events[k].at
<1>1. /\ Len(p.events) \in Nat /\ p.events[j].at \in Nat /\ p.events[k].at \in Nat
      /\ p.events[j].len \in Nat /\ p.events[k].len \in Nat
      /\ p.events[j].len > 0 /\ p.events[k].len > 0
  <2>1. /\ Len(p.events) \in Nat /\ p.events[j].at \in Nat /\ p.events[k].at \in Nat
        /\ p.events[j].len \in Nat /\ p.events[k].len \in Nat
        /\ p.events[j].len >= HeaderSize /\ p.events[k].len >= HeaderSize
        /\ HeaderSize \in Nat /\ HeaderSize > 0
    BY PacketFields
  <2>. QED
    BY <2>1
<1>2. CASE j < k
  <2>1. p.events[j].at + p.events[j].len <= p.events[k].at
    BY <1>2, PrecedesNext DEF Precedes
  <2>. QED
    BY <1>1, <1>2, <2>1
<1>3. CASE k < j
  <2>1. p.events[k].at + p.events[k].len <= p.events[j].at
    BY <1>3, PrecedesNext DEF Precedes
  <2>. QED
    BY <1>1, <1>3, <2>1
<1>4. CASE j = k
  BY <1>1, <1>4
<1>5. j \in Int /\ k \in Int
  OBVIOUS
<1>. QED
  BY <1>2, <1>3, <1>4, <1>5

\* An event is found at its offset.
LEMMA EventFound ==
    ASSUME NEW p \in Packets, NEW k \in 1 .. Len(p.events)
    PROVE  EventAt(p, p.events[k].at) = k
<1>. DEFINE o == p.events[k].at
            j == CHOOSE j \in DOMAIN p.events : p.events[j].at = o
<1>1. DOMAIN p.events = 1 .. Len(p.events)
  BY PacketFields
<1>2. j \in 1 .. Len(p.events) /\ p.events[j].at = o
  BY <1>1
<1>3. EventAt(p, o) = j
  BY DEF EventAt
<1>. HIDE DEF j
<1>4. j = k
  BY <1>2, InOrder
<1>. QED
  BY <1>3, <1>4

\* The offset is at an event, or the packet is through.
OnEvent(p, o) == o >= p.length \/ \E k \in 1 .. Len(p.events) : p.events[k].at = o

\* The search ends at an event, or at the end of the packet.
LEMMA SearchEnds ==
    ASSUME NEW p \in Packets, NEW stale \in BOOLEAN
    PROVE  /\ SearchOffset(p, stale) \in Nat /\ SearchOffset(p, stale) <= p.length
           /\ OnEvent(p, SearchOffset(p, stale))
<1>. DEFINE V == {k \in DOMAIN p.events : ValidateEvents(p, k, stale)}
<1>1. /\ p.length \in Nat /\ DOMAIN p.events = 1 .. Len(p.events) /\ Len(p.events) \in Nat
      /\ \A k \in 1 .. Len(p.events) : p.events[k].at \in Nat /\ p.events[k].at < p.length
  BY PacketFields
<1>2. V \subseteq 1 .. Len(p.events)
  BY <1>1
<1>3. SearchOffset(p, stale) = IF V = {} THEN p.length ELSE p.events[Min(V)].at
  BY DEF SearchOffset
<1>. HIDE DEF V
<1>4. CASE V = {}
  BY <1>1, <1>3, <1>4 DEF OnEvent
<1>5. CASE V # {}
  <2>1. \E x \in V : \A y \in V : x <= y
    <3>1. V \in SUBSET Nat
      BY <1>1, <1>2
    <3>. QED
      BY <1>5, <3>1, LeastNumber
  <2>2. Min(V) \in V
    BY <2>1 DEF Min
  <2>3. Min(V) \in 1 .. Len(p.events)
    BY <1>2, <2>2
  <2>. QED
    BY <1>1, <1>3, <1>5, <2>3 DEF OnEvent
<1>. QED
  BY <1>4, <1>5

\* The events of a packet with their header from offset a to offset b.
Between(p, i, a, b) ==
    [k \in DOMAIN p.events |->
        IF a <= p.events[k].at /\ p.events[k].at < b THEN << <<i, k>> >> ELSE <<>>]

LEMMA BetweenType ==
    ASSUME NEW p \in Packets, NEW i, NEW a, NEW b
    PROVE  /\ Between(p, i, a, b) \in Seq(Seq({i} \X Nat))
           /\ Len(Between(p, i, a, b)) = Len(p.events)
           /\ \A k \in 1 .. Len(p.events) : Between(p, i, a, b)[k] =
                 IF a <= p.events[k].at /\ p.events[k].at < b THEN << <<i, k>> >> ELSE <<>>
<1>1. DOMAIN p.events = 1 .. Len(p.events) /\ Len(p.events) \in Nat
  BY PacketFields
<1>2. \A k \in 1 .. Len(p.events) : << <<i, k>> >> \in Seq({i} \X Nat) /\ <<>> \in Seq({i} \X Nat)
  OBVIOUS
<1>3. \A k \in 1 .. Len(p.events) : (IF a <= p.events[k].at /\ p.events[k].at < b
                                     THEN << <<i, k>> >> ELSE <<>>) \in Seq({i} \X Nat)
  BY <1>2
<1>. QED
  BY <1>1, <1>3 DEF Between

\* None are decoded at first, ...
LEMMA NoneDecoded ==
    ASSUME NEW p \in Packets, NEW i, NEW a \in Nat
    PROVE  FlattenSeq(Between(p, i, a, a)) = <<>>
<1>. DEFINE q == Between(p, i, a, a)
<1>1. /\ q \in Seq(Seq({i} \X Nat)) /\ Len(q) = Len(p.events)
      /\ \A k \in 1 .. Len(p.events) : q[k] =
            IF a <= p.events[k].at /\ p.events[k].at < a THEN << <<i, k>> >> ELSE <<>>
  BY BetweenType
<1>2. \A k \in 1 .. Len(p.events) : p.events[k].at \in Nat
  BY PacketFields
<1>. HIDE DEF q
<1>3. ASSUME NEW k \in 1 .. Len(q) PROVE q[k] = <<>>
  <2>1. k \in 1 .. Len(p.events) /\ p.events[k].at \in Nat
    BY <1>1, <1>2
  <2>2. ~(a <= p.events[k].at /\ p.events[k].at < a)
    BY <2>1
  <2>. QED
    BY <1>1, <2>1, <2>2
<1>4. FlattenSeq(q) = <<>>
  BY <1>1, <1>3, FlattenNothing
<1>. QED
  BY <1>4 DEF q

\* ... and each event decoded comes last.
LEMMA OneMoreDecoded ==
    ASSUME NEW p \in Packets, NEW i, NEW a \in Nat, NEW k \in 1 .. Len(p.events),
           a <= p.events[k].at
    PROVE  FlattenSeq(Between(p, i, a, p.events[k].at + p.events[k].len)) =
              FlattenSeq(Between(p, i, a, p.events[k].at)) \o << <<i, k>> >>
<1>. DEFINE o == p.events[k].at
            l == p.events[k].len
            q == Between(p, i, a, o)
            r == Between(p, i, a, o + l)
            x == << <<i, k>> >>
            S == {i} \X Nat
            N == Len(p.events)
            at(j) == p.events[j].at
<1>1. /\ q \in Seq(Seq(S)) /\ Len(q) = N
      /\ \A j \in 1 .. N : q[j] = IF a <= at(j) /\ at(j) < o THEN << <<i, j>> >> ELSE <<>>
  <2>. HIDE DEF o
  <2>. QED
    BY BetweenType
<1>2. /\ r \in Seq(Seq(S)) /\ Len(r) = N
      /\ \A j \in 1 .. N : r[j] = IF a <= at(j) /\ at(j) < o + l THEN << <<i, j>> >> ELSE <<>>
  BY BetweenType
<1>3. /\ N \in Nat /\ o \in Nat /\ l \in Nat /\ l > 0 /\ \A j \in 1 .. N : at(j) \in Nat
  <2>1. /\ N \in Nat /\ o \in Nat /\ l \in Nat /\ l >= HeaderSize /\ HeaderSize \in Nat
        /\ HeaderSize > 0 /\ \A j \in 1 .. N : at(j) \in Nat
    BY PacketFields
  <2>. HIDE DEF o, l, at, N
  <2>. QED
    BY <2>1
<1>4. ASSUME NEW j \in 1 .. N
      PROVE  /\ j < k => at(j) < o
             /\ j >= k => ~(at(j) < o)
             /\ j > k => ~(at(j) < o + l)
  <2>1. /\ j < k <=> at(j) < o
        /\ j = k <=> at(j) = o
        /\ k < j => o + l <= at(j)
    BY InOrder
  <2>. HIDE DEF o, l, at
  <2>. QED
    BY <1>3, <2>1
<1>5. x \in Seq(S) /\ k \in 1 .. N
  OBVIOUS
<1>6. at(k) = o
  OBVIOUS
<1>. HIDE DEF q, r, o, l, at, N, S
<1>7. ASSUME NEW j \in 1 .. N, j < k PROVE r[j] = q[j]
  <2>1. at(j) < o /\ at(j) < o + l
    BY <1>3, <1>4, <1>7
  <2>. QED
    BY <1>1, <1>2, <2>1
<1>8. ASSUME NEW j \in 1 .. N, j >= k PROVE q[j] = <<>>
  BY <1>1, <1>4, <1>8
<1>9. ASSUME NEW j \in 1 .. N, j > k PROVE r[j] = <<>>
  BY <1>2, <1>4, <1>9
<1>10. r[k] = x
  <2>1. a <= at(k) /\ at(k) < o + l
    BY <1>3, <1>6 DEF o
  <2>. QED
    BY <1>2, <1>5, <2>1
<1>11. FlattenSeq(r) = FlattenSeq(q) \o x
  <2>. HIDE DEF x
  <2>1. q \in Seq(Seq(S)) /\ r \in Seq(Seq(S)) /\ Len(r) = Len(q) /\ Len(q) = N
    BY <1>1, <1>2
  <2>2. /\ \A j \in 1 .. Len(q) : j < k => r[j] = q[j]
        /\ \A j \in 1 .. Len(q) : j >= k => q[j] = <<>>
        /\ \A j \in 1 .. Len(q) : j > k => r[j] = <<>>
    BY <1>7, <1>8, <1>9, <2>1
  <2>3. k \in 1 .. Len(q) /\ x \in Seq(S)
    BY <1>5, <2>1
  <2>. QED
    BY <1>10, <2>1, <2>2, <2>3, FlattenOneLater
<1>. QED
  BY <1>11 DEF q, r, o, l

------------------------------------------------------------------------------
(* The invariant.                                                           *)

\* Where the cursor of module i is: the first event that waits is the last one decoded.
Placed(i) ==
    /\ start[i] <= packet[i].length /\ start[i] <= offset[i]
    /\ pc # "search" => OnEvent(packet[i], offset[i])
    /\ first[i] # Used =>
          /\ first[i] \in 1 .. Len(packet[i].events)
          /\ start[i] <= packet[i].events[first[i]].at
          /\ offset[i] = packet[i].events[first[i]].at + packet[i].events[first[i]].len

PlaceInv ==
    /\ pc \in {"search", "idle", "loop", "clean"}
    /\ packet \in [Members -> Packets]
    /\ offset \in [Members -> Nat] /\ start \in [Members -> Nat] /\ first \in [Members -> Nat]
    /\ \A i \in Members : Placed(i)
    /\ event \in Seq(Hits) /\ vectors \in Seq(Seq(Hits))
    /\ \A n \in DOMAIN vectors : vectors[n] # <<>>
    /\ pc = "search" =>
          /\ event = <<>> /\ vectors = <<>>
          /\ \A i \in Members : first[i] = Used /\ offset[i] = 0 /\ start[i] = 0

LEMMA HitFields ==
    ASSUME packet \in [Members -> Packets]
    PROVE  /\ \A h \in Hits : /\ h[1] \in Members /\ h[2] \in 1 .. Len(packet[h[1]].events)
                              /\ h = <<h[1], h[2]>>
           /\ \A i \in Members : \A k \in 1 .. Len(packet[i].events) : <<i, k>> \in Hits
<1>1. \A i \in Members : DOMAIN packet[i].events = 1 .. Len(packet[i].events)
  BY PacketFields
<1>. QED
  BY <1>1 DEF Hits

\* What a round of the loop decodes of module i.
LEMMA RoundFacts ==
    ASSUME PlaceInv, pc = "loop", NEW i \in Members
    PROVE  LET k == Refilled(i)
               e == packet[i].events[k] IN
           /\ k \in Nat /\ NextOffset(i) \in Nat /\ offset[i] <= NextOffset(i)
           /\ OnEvent(packet[i], NextOffset(i))
           /\ k # Used => /\ k \in 1 .. Len(packet[i].events)
                          /\ start[i] <= e.at /\ NextOffset(i) = e.at + e.len
           /\ Refills(i) => /\ first[i] = Used /\ k # Used /\ e.at = offset[i]
                            /\ offset[i] + HeaderSize < packet[i].length
           /\ ~Refills(i) => k = first[i] /\ NextOffset(i) = offset[i]
           /\ first[i] # Used => ~Refills(i)
<1>. DEFINE p == packet[i]
            L == Len(p.events)
<1>1. p \in Packets /\ offset[i] \in Nat /\ start[i] \in Nat /\ first[i] \in Nat /\ Placed(i)
  BY DEF PlaceInv
<1>2. /\ p.length \in Nat /\ L \in Nat /\ HeaderSize \in Nat
      /\ \A m \in 1 .. L :
            /\ p.events[m].at \in Nat /\ p.events[m].len \in Nat /\ p.events[m].at < p.length
            /\ m = L => p.events[m].at + p.events[m].len >= p.length
            /\ m < L => p.events[m + 1].at = p.events[m].at + p.events[m].len
  BY <1>1, PacketFields
<1>3. OnEvent(p, offset[i]) /\ start[i] <= offset[i]
  BY <1>1 DEF Placed
<1>4. CASE Refills(i)
  <2>1. first[i] = Used /\ offset[i] + HeaderSize < p.length
    BY <1>4 DEF Refills, HasNext
  <2>2. PICK k \in 1 .. L : p.events[k].at = offset[i]
    <3>1. ~(offset[i] >= p.length)
      BY <1>1, <1>2, <2>1
    <3>. QED
      BY <1>3, <3>1 DEF OnEvent
  <2>3. Refilled(i) = k
    <3>1. EventAt(p, p.events[k].at) = k
      BY <1>1, EventFound
    <3>. QED
      BY <1>4, <2>2, <3>1 DEF Refilled
  <2>4. NextOffset(i) = p.events[k].at + p.events[k].len
    BY <1>4, <2>2, <2>3 DEF NextOffset
  <2>. DEFINE o == p.events[k].at
              l == p.events[k].len
  <2>5. /\ o \in Nat /\ l \in Nat /\ (k = L => o + l >= p.length)
        /\ (k < L => p.events[k + 1].at = o + l)
    BY <1>2
  <2>6. OnEvent(p, o + l)
    <3>1. k = L \/ (k < L /\ k + 1 \in 1 .. L)
      BY <1>2
    <3>. HIDE DEF o, l
    <3>2. CASE k = L
      BY <2>5, <3>2 DEF OnEvent
    <3>3. CASE k < L /\ k + 1 \in 1 .. L
      BY <2>5, <3>3 DEF OnEvent
    <3>. QED
      BY <3>1, <3>2, <3>3
  <2>7. o + l \in Nat /\ o <= o + l
    <3>. HIDE DEF o, l
    <3>. QED
      BY <2>5
  <2>8. k # Used /\ k \in Nat
    BY DEF Used
  <2>. QED
    BY <1>3, <1>4, <2>1, <2>2, <2>3, <2>4, <2>6, <2>7, <2>8
<1>5. CASE ~Refills(i)
  <2>1. Refilled(i) = first[i] /\ NextOffset(i) = offset[i]
    BY <1>5 DEF Refilled, NextOffset
  <2>. QED
    BY <1>1, <1>3, <1>5, <2>1 DEF Placed
<1>. QED
  BY <1>4, <1>5

\* A round keeps the places, whichever of the first events it uses.
LEMMA RoundPlaces ==
    ASSUME PlaceInv, pc = "loop", NEW U, Refill, Use(U), packet' = packet, start' = start,
           pc' \in {"idle", "loop", "clean"}, event' \in Seq(Hits), vectors' \in Seq(Seq(Hits)),
           \A n \in DOMAIN vectors' : vectors'[n] # <<>>
    PROVE  PlaceInv'
<1>1. /\ packet \in [Members -> Packets] /\ start \in [Members -> Nat]
      /\ offset \in [Members -> Nat]
  BY DEF PlaceInv
<1>2. offset' = [i \in Members |-> NextOffset(i)]
  BY DEF Refill
<1>3. first' = [i \in Members |-> IF i \in U THEN Used ELSE Refilled(i)]
  BY DEF Use
<1>4. \A i \in Members : NextOffset(i) \in Nat /\ Refilled(i) \in Nat
  BY RoundFacts
<1>5. offset' \in [Members -> Nat]
  BY <1>2, <1>4
<1>6. first' \in [Members -> Nat]
  BY <1>3, <1>4 DEF Used
<1>7. ASSUME NEW i \in Members PROVE Placed(i)'
  <2>1. /\ offset'[i] = NextOffset(i)
        /\ first'[i] = Used \/ first'[i] = Refilled(i)
    BY <1>2, <1>3
  <2>2. start[i] <= packet[i].length /\ start[i] <= offset[i]
    BY DEF PlaceInv, Placed
  <2>3. /\ offset[i] <= NextOffset(i) /\ NextOffset(i) \in Nat
        /\ OnEvent(packet[i], NextOffset(i))
        /\ Refilled(i) # Used =>
              /\ Refilled(i) \in 1 .. Len(packet[i].events)
              /\ start[i] <= packet[i].events[Refilled(i)].at
              /\ NextOffset(i) = packet[i].events[Refilled(i)].at + packet[i].events[Refilled(i)].len
    BY RoundFacts
  <2>4. start[i] \in Nat /\ offset[i] \in Nat
    BY <1>1
  <2>5. start[i] <= NextOffset(i)
    BY <2>2, <2>3, <2>4
  <2>. QED
    BY <2>1, <2>2, <2>3, <2>5 DEF Placed, OnEvent
<1>8. Hits' = Hits
  BY DEF Hits
<1>9. event' \in Seq(Hits') /\ vectors' \in Seq(Seq(Hits'))
  BY <1>8
<1>. QED
  BY <1>1, <1>5, <1>6, <1>7, <1>9 DEF PlaceInv

\* What is taken of the hits, as a function of the vectors.
TakenFrom(v, e) == FlattenSeq(Append(v, e))

LEMMA TakenFromType ==
    ASSUME NEW S, NEW v \in Seq(Seq(S)), NEW e \in Seq(S)
    PROVE  TakenFrom(v, e) = FlattenSeq(v) \o e /\ TakenFrom(v, e) \in Seq(S)
<1>1. TakenFrom(v, e) = FlattenSeq(v) \o e
  BY FlattenAppend DEF TakenFrom
<1>2. FlattenSeq(v) \in Seq(S)
  BY FlattenType
<1>. DEFINE f == FlattenSeq(v)
<1>. HIDE DEF f
<1>3. f \o e \in Seq(S)
  BY <1>2 DEF f
<1>. QED
  BY <1>1, <1>3 DEF f

\* A hit more in the vector in the making is a hit more taken, and a vector that is
\* returned changes nothing.
LEMMA TakenFromMore ==
    ASSUME NEW S, NEW v \in Seq(Seq(S)), NEW e \in Seq(S), NEW x \in Seq(S)
    PROVE  /\ TakenFrom(v, e \o x) = TakenFrom(v, e) \o x
           /\ TakenFrom(Append(v, e), <<>>) = TakenFrom(v, e)
<1>. DEFINE f == FlattenSeq(v)
<1>1. f \in Seq(S)
  BY FlattenType
<1>2. TakenFrom(v, e) = f \o e /\ TakenFrom(v, e) \in Seq(S)
  BY TakenFromType
<1>3. e \o x \in Seq(S)
  OBVIOUS
<1>4. TakenFrom(v, e \o x) = f \o (e \o x)
  BY <1>3, TakenFromType
<1>5. f \o (e \o x) = f \o e \o x
  <2>. HIDE DEF f
  <2>. QED
    BY <1>1, ConcatAssociative
<1>6. TakenFrom(Append(v, e), <<>>) = TakenFrom(v, e) \o <<>>
  <2>1. Append(v, e) \in Seq(Seq(S)) /\ <<>> \in Seq(S)
    OBVIOUS
  <2>2. TakenFrom(Append(v, e), <<>>) = FlattenSeq(Append(v, e)) \o <<>>
    BY <2>1, TakenFromType
  <2>. QED
    BY <2>2 DEF TakenFrom
<1>7. TakenFrom(v, e) \o <<>> = TakenFrom(v, e)
  BY <1>2, ConcatEmptySeq
<1>. QED
  BY <1>2, <1>4, <1>5, <1>6, <1>7

\* The hits of module i that vectors v and e hold, then the first event k that waits, are
\* the events from offset a to offset b.
Counted(p, i, v, e, k, a, b) ==
    HitsOf(i, TakenFrom(v, e)) \o (IF k = Used THEN <<>> ELSE << <<i, k>> >>)
        = FlattenSeq(Between(p, i, a, b))

CountInv == \A i \in Members :
    Counted(packet[i], i, vectors, InMaking, first[i], start[i], offset[i])

LEMMA CountInvMeans == CountInv <=> EachHitOnce
BY DEF CountInv, Counted, EachHitOnce, TakenOf, Taken, TakenFrom, DecodedOf, Between

\* A round keeps the count, if the hits it takes are those of the modules in U.
LEMMA RoundCounts ==
    ASSUME PlaceInv, CountInv, pc = "loop", NEW U, Refill, Use(U), U \subseteq Waiting,
           packet' = packet, start' = start, vectors \in Seq(Seq(Hits)), InMaking \in Seq(Hits),
           NEW x \in Seq(Hits), TakenFrom(vectors', InMaking') = TakenFrom(vectors, InMaking) \o x,
           \A i \in Members : HitsOf(i, x) = IF i \in U THEN << <<i, Refilled(i)>> >> ELSE <<>>
    PROVE  CountInv'
<1>. SUFFICES ASSUME NEW i \in Members
              PROVE  Counted(packet[i], i, vectors', InMaking', first'[i], start[i], offset'[i])
  BY DEF CountInv, Counted, HitsOf, TakenFrom, Between, Used
<1>. DEFINE k == Refilled(i)
            p == packet[i]
            y == << <<i, k>> >>
            t == HitsOf(i, TakenFrom(vectors, InMaking))
            t1 == HitsOf(i, TakenFrom(vectors', InMaking'))
            d == FlattenSeq(Between(p, i, start[i], offset[i]))
            d1 == FlattenSeq(Between(p, i, start[i], offset'[i]))
<1>1. offset'[i] = NextOffset(i) /\ first'[i] = IF i \in U THEN Used ELSE k
  BY DEF Refill, Use
<1>2. p \in Packets /\ start[i] \in Nat
  BY DEF PlaceInv
<1>3. t \in Seq(Hits)
  <2>1. TakenFrom(vectors, InMaking) \in Seq(Hits)
    BY TakenFromType
  <2>. QED
    BY <2>1, HitsPicked
<1>4. t1 = t \o (IF i \in U THEN y ELSE <<>>)
  <2>1. TakenFrom(vectors, InMaking) \in Seq(Hits)
    BY TakenFromType
  <2>2. HitsOf(i, TakenFrom(vectors, InMaking) \o x) = t \o HitsOf(i, x)
    BY <2>1, HitsOfConcat
  <2>. QED
    BY <2>2
<1>5. t \o (IF first[i] = Used THEN <<>> ELSE << <<i, first[i]>> >>) = d
  BY DEF CountInv, Counted
<1>6. t \o (IF k = Used THEN <<>> ELSE y) = d1
  <2>1. CASE Refills(i)
    <3>1. /\ first[i] = Used /\ k # Used /\ k \in 1 .. Len(p.events)
          /\ start[i] <= p.events[k].at /\ p.events[k].at = offset[i]
          /\ NextOffset(i) = p.events[k].at + p.events[k].len
      BY <2>1, RoundFacts
    <3>2. t = d
      <4>. HIDE DEF t, d
      <4>1. t \o <<>> = t
        BY <1>3, ConcatEmptySeq
      <4>. QED
        BY <1>5, <3>1, <4>1
    <3>3. d1 = d \o y
      <4>. HIDE DEF k
      <4>1. FlattenSeq(Between(p, i, start[i], p.events[k].at + p.events[k].len)) =
              FlattenSeq(Between(p, i, start[i], p.events[k].at)) \o << <<i, k>> >>
        BY <1>2, <3>1, OneMoreDecoded
      <4>. QED
        BY <1>1, <3>1, <4>1
    <3>. QED
      BY <3>1, <3>2, <3>3
  <2>2. CASE ~Refills(i)
    <3>1. k = first[i] /\ NextOffset(i) = offset[i]
      BY <2>2, RoundFacts
    <3>. QED
      BY <1>1, <1>5, <3>1
  <2>. QED
    BY <2>1, <2>2
<1>7. i \in U => k # Used
  BY DEF Waiting
<1>. HIDE DEF t, t1, d, d1, y
<1>8. t1 \o (IF first'[i] = Used THEN <<>> ELSE y) = d1
  <2>1. CASE i \in U
    <3>1. t1 = t \o y /\ first'[i] = Used /\ t \o y = d1
      BY <1>1, <1>4, <1>6, <1>7, <2>1
    <3>2. y \in Seq(Hits)
      <4>1. k \in 1 .. Len(p.events)
        BY <1>7, <2>1, RoundFacts
      <4>2. <<i, k>> \in Hits
        BY <4>1, HitFields DEF PlaceInv
      <4>. QED
        BY <4>2 DEF y
    <3>3. t \o y \in Seq(Hits)
      BY <1>3, <3>2
    <3>4. (t \o y) \o <<>> = t \o y
      BY <3>3, ConcatEmptySeq
    <3>. QED
      BY <3>1, <3>4
  <2>2. CASE i \notin U
    <3>1. t1 = t /\ first'[i] = k
      <4>1. t \o <<>> = t
        BY <1>3, ConcatEmptySeq
      <4>. QED
        BY <1>1, <1>4, <2>2, <4>1
    <3>. QED
      BY <1>6, <3>1
  <2>. QED
    BY <2>1, <2>2
<1>9. first'[i] # Used => first'[i] = k
  BY <1>1
<1>. QED
  BY <1>8, <1>9 DEF Counted, t1, d1, y

\* The hits that a round adds to the vector: one of each module that matches.
LEMMA MatchesFound ==
    ASSUME PlaceInv, pc = "loop"
    PROVE  LET x == FlattenSeq([n \in 1 .. NumModules |-> MatchOf(n - 1)]) IN
           /\ x \in Seq(Hits) /\ x \in Seq({<<i, Refilled(i)>> : i \in Matching})
           /\ \A i \in Members : HitsOf(i, x) =
                 IF i \in Matching THEN << <<i, Refilled(i)>> >> ELSE <<>>
<1>. DEFINE M == {<<i, Refilled(i)>> : i \in Matching}
            g == [n \in 1 .. NumModules |-> MatchOf(n - 1)]
<1>1. NumModules \in Nat /\ Members \subseteq 0 .. NumModules - 1
  BY BuilderAssumption
<1>2. ASSUME NEW i \in Matching PROVE <<i, Refilled(i)>> \in Hits
  <2>1. i \in Members /\ Refilled(i) # Used
    BY DEF Matching, Waiting
  <2>2. Refilled(i) \in 1 .. Len(packet[i].events)
    BY <2>1, RoundFacts
  <2>. QED
    BY <2>1, <2>2, HitFields DEF PlaceInv
<1>3. ASSUME NEW i \in 0 .. NumModules - 1 PROVE MatchOf(i) \in Seq(Hits)
  <2>1. CASE i \in Matching
    <3>1. << <<i, Refilled(i)>> >> \in Seq(Hits)
      BY <1>2, <2>1
    <3>. QED
      BY <2>1, <3>1 DEF MatchOf
  <2>2. CASE i \notin Matching
    BY <2>2 DEF MatchOf
  <2>. QED
    BY <2>1, <2>2
<1>4. \A n \in 1 .. NumModules : n - 1 \in 0 .. NumModules - 1 /\ MatchOf(n - 1) \in Seq(Hits)
  <2>1. \A n \in 1 .. NumModules : n - 1 \in 0 .. NumModules - 1
    BY <1>1
  <2>. QED
    BY <1>3, <2>1
<1>5. g \in Seq(Seq(Hits)) /\ Len(g) = NumModules
  BY <1>1, <1>4
<1>6. ASSUME NEW n \in 1 .. NumModules
      PROVE  g[n] = <<>> \/ \E h : g[n] = <<h>> /\ h[1] = n - 1
  <2>1. g[n] = MatchOf(n - 1)
    OBVIOUS
  <2>2. CASE n - 1 \in Matching
    <3>. DEFINE h == <<n - 1, Refilled(n - 1)>>
    <3>1. g[n] = <<h>> /\ h[1] = n - 1
      BY <2>1, <2>2 DEF MatchOf
    <3>. QED
      BY <3>1
  <2>3. CASE n - 1 \notin Matching
    BY <2>1, <2>3 DEF MatchOf
  <2>. QED
    BY <2>2, <2>3
<1>7. OneOfEach(g, Len(g))
  <2>. HIDE DEF g
  <2>. QED
    BY <1>5, <1>6 DEF OneOfEach
<1>8. FlattenSeq(g) \in Seq(Hits)
  BY <1>5, FlattenType
<1>9. ASSUME NEW i \in Members
      PROVE  HitsOf(i, FlattenSeq(g)) = MatchOf(i)
  <2>1. i \in Nat /\ i < NumModules /\ i + 1 \in 1 .. NumModules /\ (i + 1) - 1 = i
    BY <1>1
  <2>2. g[i + 1] = MatchOf(i)
    BY <2>1
  <2>. HIDE DEF g
  <2>3. HitsOf(i, FlattenSeq(g)) = g[i + 1]
    BY <1>5, <1>7, <2>1, GathersAll
  <2>. QED
    BY <2>2, <2>3
<1>10. FlattenSeq(g) \in Seq(M)
  <2>1. \A n \in 1 .. NumModules : MatchOf(n - 1) \in Seq(M)
    BY DEF MatchOf
  <2>2. g \in Seq(Seq(M))
    BY <1>1, <2>1
  <2>. HIDE DEF M
  <2>. QED
    BY <2>2, FlattenType
<1>. QED
  BY <1>8, <1>9, <1>10 DEF MatchOf

LEMMA PlaceInit == Init => PlaceInv
<1>. SUFFICES ASSUME Init PROVE PlaceInv
  OBVIOUS
<1>1. /\ pc = "search" /\ packet \in [Members -> Packets]
      /\ offset = [i \in Members |-> 0] /\ start = offset
      /\ first = [i \in Members |-> Used] /\ event = <<>> /\ vectors = <<>>
  BY DEF Init
<1>2. event \in Seq(Hits) /\ vectors \in Seq(Seq(Hits)) /\ DOMAIN vectors = {}
  BY <1>1
<1>3. ASSUME NEW i \in Members PROVE Placed(i)
  <2>1. packet[i] \in Packets
    BY <1>1
  <2>2. packet[i].length \in Nat
    BY <2>1, PacketFields
  <2>. QED
    BY <1>1, <2>2 DEF Placed
<1>. QED
  BY <1>1, <1>2, <1>3 DEF PlaceInv, Used

\* The packets stay, and with them the hits.
LEMMA PacketsStay == PlaceInv /\ [Next]_vars => packet' = packet /\ Hits' = Hits
<1>1. PlaceInv /\ [Next]_vars => packet' = packet
  BY DEF Next, vars, SearchDecodeOffset, ReceiveEvent, Clean, NewEvent, AddMatches, ReturnEvent
<1>. QED
  BY <1>1 DEF Hits

LEMMA PlaceStep == PlaceInv /\ [Next]_vars => PlaceInv'
<1>. SUFFICES ASSUME PlaceInv, [Next]_vars PROVE PlaceInv'
  OBVIOUS
<1>1. event \in Seq(Hits) /\ vectors \in Seq(Seq(Hits)) /\ \A n \in DOMAIN vectors : vectors[n] # <<>>
  BY DEF PlaceInv
<1>2. CASE SearchDecodeOffset
  <2>1. /\ packet' = packet /\ first' = first /\ event' = event /\ vectors' = vectors
        /\ pc = "search" /\ pc' = "idle" /\ start' = offset'
    BY <1>2 DEF SearchDecodeOffset
  <2>2. PICK stale \in [Members -> BOOLEAN] :
           offset' = [i \in Members |-> SearchOffset(packet[i], stale[i])]
    BY <1>2 DEF SearchDecodeOffset
  <2>3. ASSUME NEW i \in Members
        PROVE  /\ SearchOffset(packet[i], stale[i]) \in Nat
               /\ SearchOffset(packet[i], stale[i]) <= packet[i].length
               /\ OnEvent(packet[i], SearchOffset(packet[i], stale[i]))
    BY SearchEnds DEF PlaceInv
  <2>4. offset' \in [Members -> Nat] /\ start' \in [Members -> Nat]
    BY <2>1, <2>2, <2>3
  <2>5. ASSUME NEW i \in Members PROVE Placed(i)'
    <3>1. offset'[i] \in Nat /\ offset'[i] <= packet[i].length /\ OnEvent(packet[i], offset'[i])
      BY <2>2, <2>3
    <3>2. first'[i] = Used
      BY <2>1 DEF PlaceInv
    <3>. QED
      BY <2>1, <3>1, <3>2 DEF Placed, OnEvent
  <2>6. Hits' = Hits
    BY PacketsStay
  <2>. QED
    BY <2>1, <2>4, <2>5, <2>6 DEF PlaceInv
<1>3. CASE ReceiveEvent
  <2>1. /\ packet' = packet /\ first' = first /\ offset' = offset /\ start' = start
        /\ vectors' = vectors /\ event' = <<>> /\ pc' = "loop" /\ pc = "idle"
    BY <1>3 DEF ReceiveEvent
  <2>2. Hits' = Hits /\ <<>> \in Seq(Hits)
    BY PacketsStay
  <2>3. \A i \in Members : Placed(i)'
    BY <2>1 DEF PlaceInv, Placed, OnEvent
  <2>. QED
    BY <2>1, <2>2, <2>3 DEF PlaceInv
<1>4. CASE Clean
  <2>1. /\ pc = "loop" /\ pc' = "clean" /\ Refill /\ Use({}) /\ packet' = packet /\ start' = start
        /\ event' = event /\ vectors' = vectors
    BY <1>4 DEF Clean
  <2>. QED
    BY <1>1, <2>1, RoundPlaces
<1>5. ASSUME NEW i \in Members, NewEvent(i) PROVE PlaceInv'
  <2>1. /\ pc = "loop" /\ pc' = pc /\ Refill /\ Use({i}) /\ packet' = packet /\ start' = start
        /\ event' = << <<i, Refilled(i)>> >> /\ vectors' = vectors /\ Refilled(i) # Used
    BY <1>5 DEF NewEvent, Earliest, Waiting
  <2>2. event' \in Seq(Hits)
    <3>1. Refilled(i) \in 1 .. Len(packet[i].events)
      BY <2>1, RoundFacts
    <3>2. <<i, Refilled(i)>> \in Hits
      BY <3>1, HitFields DEF PlaceInv
    <3>. QED
      BY <2>1, <3>2
  <2>. QED
    BY <1>1, <2>1, <2>2, RoundPlaces
<1>6. CASE AddMatches
  <2>. DEFINE x == FlattenSeq([n \in 1 .. NumModules |-> MatchOf(n - 1)])
  <2>1. /\ pc = "loop" /\ pc' = pc /\ Refill /\ Use(Matching) /\ packet' = packet /\ start' = start
        /\ event' = event \o x /\ vectors' = vectors
    BY <1>6 DEF AddMatches
  <2>2. x \in Seq(Hits)
    BY <2>1, MatchesFound
  <2>. HIDE DEF x
  <2>3. event' \in Seq(Hits)
    BY <1>1, <2>1, <2>2
  <2>. QED
    BY <1>1, <2>1, <2>3, RoundPlaces
<1>7. CASE ReturnEvent
  <2>1. /\ pc = "loop" /\ pc' = "idle" /\ Refill /\ Use({}) /\ packet' = packet /\ start' = start
        /\ event' = event /\ vectors' = Append(vectors, event) /\ event # <<>>
    BY <1>7 DEF ReturnEvent
  <2>2. vectors' \in Seq(Seq(Hits)) /\ \A n \in DOMAIN vectors' : vectors'[n] # <<>>
    BY <1>1, <2>1
  <2>. QED
    BY <1>1, <2>1, <2>2, RoundPlaces
<1>8. CASE UNCHANGED vars
  BY <1>8 DEF vars, PlaceInv, Placed, OnEvent, Hits
<1>. QED
  BY <1>2, <1>3, <1>4, <1>5, <1>6, <1>7, <1>8 DEF Next

LEMMA PlaceInvariant == Spec => []PlaceInv
<1>. QED
  BY PlaceInit, PlaceStep, PTL DEF Spec

\* The type invariant: offsets, first events and hits are those of the packets.
THEOREM TypeCorrect == Spec => []TypeOK
<1>1. PlaceInv => TypeOK
  <2>. SUFFICES ASSUME PlaceInv PROVE TypeOK
    OBVIOUS
  <2>1. /\ pc \in {"search", "idle", "loop", "clean"} /\ packet \in [Members -> Packets]
        /\ event \in Seq(Hits) /\ vectors \in Seq(Seq(Hits))
    BY DEF PlaceInv
  <2>2. ASSUME NEW i \in Members
        PROVE  /\ offset[i] \in Nat /\ start[i] \in 0 .. packet[i].length
               /\ first[i] \in {Used} \cup DOMAIN packet[i].events
    <3>1. packet[i].length \in Nat /\ DOMAIN packet[i].events = 1 .. Len(packet[i].events)
      BY <2>1, PacketFields
    <3>2. offset[i] \in Nat /\ start[i] \in Nat /\ start[i] <= packet[i].length
      BY DEF PlaceInv, Placed
    <3>3. first[i] \in {Used} \cup 1 .. Len(packet[i].events)
      BY DEF PlaceInv, Placed
    <3>. QED
      BY <3>1, <3>2, <3>3
  <2>3. ToSet(event) \subseteq Hits
    BY <2>1 DEF ToSet
  <2>4. ASSUME NEW n \in DOMAIN vectors PROVE ToSet(vectors[n]) \subseteq Hits
    <3>1. vectors[n] \in Seq(Hits)
      BY <2>1
    <3>. QED
      BY <3>1 DEF ToSet
  <2>. QED
    BY <2>1, <2>2, <2>3, <2>4 DEF TypeOK
<1>. QED
  BY <1>1, PlaceInvariant, PTL

\* Nothing is decoded, and nothing taken.
Fresh ==
    /\ vectors = <<>> /\ InMaking = <<>>
    /\ \A i \in Members : first[i] = Used /\ start[i] = offset[i]

LEMMA CountStart == PlaceInv /\ Fresh => CountInv
<1>. SUFFICES ASSUME PlaceInv, Fresh, NEW i \in Members
              PROVE  Counted(packet[i], i, vectors, InMaking, first[i], start[i], offset[i])
  BY DEF CountInv
<1>. /\ vectors = <<>> /\ InMaking = <<>> /\ first[i] = Used /\ start[i] = offset[i]
  BY DEF Fresh
<1>1. TakenFrom(<<>>, <<>>) = <<>>
  <2>1. <<>> \in Seq(Seq(Hits)) /\ <<>> \in Seq(Hits)
    OBVIOUS
  <2>2. TakenFrom(<<>>, <<>>) = FlattenSeq(<<>>) \o <<>>
    BY <2>1, TakenFromType
  <2>3. <<>> \o <<>> = <<>>
    OBVIOUS
  <2>. QED
    BY <2>2, <2>3, FlattenEmpty
<1>2. HitsOf(i, <<>>) = <<>>
  <2>1. [m \in DOMAIN <<>> |-> IF (<<>>)[m][1] = i THEN << (<<>>)[m] >> ELSE <<>>] = <<>>
    OBVIOUS
  <2>. QED
    BY <2>1, FlattenEmpty DEF HitsOf
<1>3. FlattenSeq(Between(packet[i], i, start[i], offset[i])) = <<>>
  <2>1. packet[i] \in Packets /\ start[i] \in Nat
    BY DEF PlaceInv
  <2>2. FlattenSeq(Between(packet[i], i, start[i], start[i])) = <<>>
    BY <2>1, NoneDecoded
  <2>. QED
    BY <2>2
<1>4. <<>> \o <<>> = <<>>
  OBVIOUS
<1>. QED
  BY <1>1, <1>2, <1>3, <1>4 DEF Counted

LEMMA CountInit == Init => CountInv
<1>. SUFFICES ASSUME Init PROVE CountInv
  OBVIOUS
<1>1. PlaceInv
  BY PlaceInit
<1>2. Fresh
  BY DEF Init, InMaking, Fresh
<1>. QED
  BY <1>1, <1>2, CountStart

\* A step that changes neither what is taken nor the offsets keeps the count.
LEMMA CountStays ==
    ASSUME CountInv, packet' = packet, start' = start, offset' = offset, first' = first,
           vectors' = vectors, InMaking' = InMaking
    PROVE  CountInv'
<1>1. ASSUME NEW i \in Members
      PROVE  Counted(packet'[i], i, vectors', InMaking', first'[i], start'[i], offset'[i])
  BY DEF CountInv
<1>. QED
  BY <1>1 DEF CountInv, Counted, HitsOf, TakenFrom, Between, Used

LEMMA CountStep == PlaceInv /\ CountInv /\ [Next]_vars => CountInv'
<1>. SUFFICES ASSUME PlaceInv, CountInv, [Next]_vars PROVE CountInv'
  OBVIOUS
<1>1. event \in Seq(Hits) /\ vectors \in Seq(Seq(Hits))
  BY DEF PlaceInv
<1>2. InMaking \in Seq(Hits)
  BY <1>1 DEF InMaking
<1>3. /\ <<>> \in Seq(Hits) /\ {} \subseteq Waiting
      /\ \A i \in Members :
            HitsOf(i, <<>>) = IF i \in {} THEN << <<i, Refilled(i)>> >> ELSE <<>>
  <2>1. ASSUME NEW i \in Members PROVE HitsOf(i, <<>>) = <<>>
    <3>1. [m \in DOMAIN <<>> |-> IF (<<>>)[m][1] = i THEN << (<<>>)[m] >> ELSE <<>>] = <<>>
      OBVIOUS
    <3>. QED
      BY <3>1, FlattenEmpty DEF HitsOf
  <2>. QED
    BY <2>1
<1>4. TakenFrom(vectors, InMaking) \o <<>> = TakenFrom(vectors, InMaking)
  <2>1. TakenFrom(vectors, InMaking) \in Seq(Hits)
    BY <1>1, <1>2, TakenFromType
  <2>. QED
    BY <2>1, ConcatEmptySeq
<1>5. CASE SearchDecodeOffset
  <2>1. /\ packet' = packet /\ first' = first /\ vectors' = vectors
        /\ pc = "search" /\ pc' = "idle" /\ start' = offset'
    BY <1>5 DEF SearchDecodeOffset
  <2>2. PlaceInv'
    BY PlaceStep
  <2>3. /\ vectors' = <<>> /\ InMaking' = <<>>
        /\ \A i \in Members : first'[i] = Used' /\ start'[i] = offset'[i]
    BY <2>1 DEF PlaceInv, InMaking, Used
  <2>4. Fresh'
    BY <2>3 DEF Fresh
  <2>. QED
    BY <2>2, <2>4, CountStart, PTL
<1>6. CASE ReceiveEvent
  <2>1. /\ packet' = packet /\ first' = first /\ offset' = offset /\ start' = start
        /\ vectors' = vectors /\ InMaking' = <<>> /\ InMaking = <<>>
    BY <1>6 DEF ReceiveEvent, InMaking
  <2>. QED
    BY <2>1, CountStays
<1>7. CASE Clean
  <2>1. /\ pc = "loop" /\ pc' = "clean" /\ Refill /\ Use({}) /\ packet' = packet /\ start' = start
        /\ event' = event /\ vectors' = vectors
    BY <1>7 DEF Clean
  <2>2. TakenFrom(vectors', InMaking') = TakenFrom(vectors, InMaking) \o <<>>
    <3>1. InMaking' = InMaking
      BY <2>1 DEF InMaking
    <3>. QED
      BY <1>4, <2>1, <3>1 DEF TakenFrom
  <2>. DEFINE U == {}
              x == <<>>
  <2>3. /\ x \in Seq(Hits) /\ U \subseteq Waiting /\ Use(U)
        /\ \A i \in Members : HitsOf(i, x) = IF i \in U THEN << <<i, Refilled(i)>> >> ELSE <<>>
        /\ TakenFrom(vectors', InMaking') = TakenFrom(vectors, InMaking) \o x
    BY <1>3, <2>1, <2>2
  <2>. HIDE DEF U, x
  <2>. QED
    BY <1>1, <1>2, <2>1, <2>3, RoundCounts
<1>8. ASSUME NEW i \in Members, NewEvent(i) PROVE CountInv'
  <2>. DEFINE x == << <<i, Refilled(i)>> >>
  <2>1. /\ pc = "loop" /\ pc' = pc /\ Refill /\ Use({i}) /\ packet' = packet /\ start' = start
        /\ event = <<>> /\ event' = x /\ vectors' = vectors /\ Refilled(i) # Used /\ i \in Waiting
    BY <1>8 DEF NewEvent, Earliest, Waiting
  <2>2. <<i, Refilled(i)>> \in Hits
    <3>1. Refilled(i) \in 1 .. Len(packet[i].events)
      BY <2>1, RoundFacts
    <3>. QED
      BY <3>1, HitFields DEF PlaceInv
  <2>3. x \in Seq(Hits)
    BY <2>2
  <2>4. \A j \in Members : HitsOf(j, x) = IF j \in {i} THEN << <<j, Refilled(j)>> >> ELSE <<>>
    <3>. SUFFICES ASSUME NEW j \in Members
                  PROVE  HitsOf(j, x) = IF j = i THEN << <<j, Refilled(j)>> >> ELSE <<>>
      OBVIOUS
    <3>. DEFINE h == <<i, Refilled(i)>>
    <3>1. h[1] = i /\ h \in Hits
      BY <2>2
    <3>. HIDE DEF h
    <3>2. HitsOf(j, <<h>>) = IF h[1] = j THEN <<h>> ELSE <<>>
      BY <3>1, HitsOfOne
    <3>. QED
      BY <3>1, <3>2 DEF h
  <2>5. TakenFrom(vectors', InMaking') = TakenFrom(vectors, InMaking) \o x
    <3>1. InMaking' = x /\ InMaking = <<>>
      BY <2>1 DEF InMaking
    <3>2. <<>> \o x = x
      BY <2>3, ConcatEmptySeq
    <3>. HIDE DEF x
    <3>3. TakenFrom(vectors, <<>> \o x) = TakenFrom(vectors, <<>>) \o x
      BY <1>1, <1>3, <2>3, TakenFromMore
    <3>. QED
      BY <2>1, <3>1, <3>2, <3>3 DEF TakenFrom
  <2>. HIDE DEF x
  <2>. QED
    BY <1>1, <1>2, <2>1, <2>3, <2>4, <2>5, RoundCounts
<1>9. CASE AddMatches
  <2>. DEFINE x == FlattenSeq([n \in 1 .. NumModules |-> MatchOf(n - 1)])
  <2>1. /\ pc = "loop" /\ pc' = pc /\ Refill /\ Use(Matching) /\ packet' = packet /\ start' = start
        /\ event' = event \o x /\ vectors' = vectors
    BY <1>9 DEF AddMatches
  <2>2. /\ x \in Seq(Hits)
        /\ \A i \in Members : HitsOf(i, x) =
              IF i \in Matching THEN << <<i, Refilled(i)>> >> ELSE <<>>
    BY <2>1, MatchesFound
  <2>3. Matching \subseteq Waiting
    BY DEF Matching
  <2>. HIDE DEF x
  <2>4. TakenFrom(vectors', InMaking') = TakenFrom(vectors, InMaking) \o x
    <3>1. InMaking' = event \o x /\ InMaking = event
      BY <2>1 DEF InMaking
    <3>2. TakenFrom(vectors, event \o x) = TakenFrom(vectors, event) \o x
      BY <1>1, <2>2, TakenFromMore
    <3>. QED
      BY <2>1, <3>1, <3>2 DEF TakenFrom
  <2>. QED
    BY <1>1, <1>2, <2>1, <2>2, <2>3, <2>4, RoundCounts
<1>10. CASE ReturnEvent
  <2>1. /\ pc = "loop" /\ pc' = "idle" /\ Refill /\ Use({}) /\ packet' = packet /\ start' = start
        /\ event' = event /\ vectors' = Append(vectors, event)
    BY <1>10 DEF ReturnEvent
  <2>2. TakenFrom(vectors', InMaking') = TakenFrom(vectors, InMaking) \o <<>>
    <3>1. InMaking' = <<>> /\ InMaking = event
      BY <2>1 DEF InMaking
    <3>2. TakenFrom(Append(vectors, event), <<>>) = TakenFrom(vectors, event)
      BY <1>1, <1>3, TakenFromMore
    <3>. QED
      BY <1>4, <2>1, <3>1, <3>2 DEF TakenFrom
  <2>. DEFINE U == {}
              x == <<>>
  <2>3. /\ x \in Seq(Hits) /\ U \subseteq Waiting /\ Use(U)
        /\ \A i \in Members : HitsOf(i, x) = IF i \in U THEN << <<i, Refilled(i)>> >> ELSE <<>>
        /\ TakenFrom(vectors', InMaking') = TakenFrom(vectors, InMaking) \o x
    BY <1>3, <2>1, <2>2
  <2>. HIDE DEF U, x
  <2>. QED
    BY <1>1, <1>2, <2>1, <2>3, RoundCounts
<1>11. CASE UNCHANGED vars
  <2>1. /\ packet' = packet /\ first' = first /\ offset' = offset /\ start' = start
        /\ vectors' = vectors /\ InMaking' = InMaking
    BY <1>11 DEF vars, InMaking
  <2>. QED
    BY <2>1, CountStays
<1>. QED
  BY <1>5, <1>6, <1>7, <1>8, <1>9, <1>10, <1>11 DEF Next

\* Every event of a module goes into one vector, none twice, none skipped, and in the
\* order of its packet.
THEOREM EveryHitOnce == Spec => []EachHitOnce
<1>1. Init => PlaceInv /\ CountInv
  BY PlaceInit, CountInit
<1>2. PlaceInv /\ CountInv /\ [Next]_vars => (PlaceInv /\ CountInv)'
  BY PlaceStep, CountStep
<1>3. CountInv => EachHitOnce
  BY CountInvMeans
<1>. QED
  BY <1>1, <1>2, <1>3, PTL DEF Spec

\* When the packets are released, every event with a word behind its header has been
\* decoded.
THEOREM NoneLeftBehind == Spec => []EventsDecoded
<1>1. Init => EventsDecoded
  BY DEF Init, EventsDecoded
<1>2. PlaceInv /\ EventsDecoded /\ [Next]_vars => EventsDecoded'
  <2>. SUFFICES ASSUME PlaceInv, EventsDecoded, [Next]_vars, pc' = "clean",
                       NEW i \in Members, NEW k \in DOMAIN packet'[i].events,
                       start'[i] <= packet'[i].events[k].at,
                       packet'[i].events[k].at + HeaderSize < packet'[i].length
                PROVE  packet'[i].events[k].at < offset'[i]
    BY DEF EventsDecoded
  <2>1. Clean \/ UNCHANGED vars
    BY DEF PlaceInv, Next, vars, SearchDecodeOffset, ReceiveEvent, NewEvent, AddMatches, ReturnEvent
  <2>2. CASE Clean
    <3>1. /\ pc = "loop" /\ ~HasData /\ Refill /\ packet' = packet /\ start' = start
      BY <2>2 DEF Clean
    <3>2. offset'[i] = NextOffset(i)
      BY <3>1 DEF Refill
    <3>3. ~(NextOffset(i) + HeaderSize < packet[i].length)
      BY <3>1 DEF HasData
    <3>4. /\ packet[i].length \in Nat /\ packet[i].events[k].at \in Nat /\ HeaderSize \in Nat
      <4>1. packet[i] \in Packets /\ k \in DOMAIN packet[i].events
        BY <3>1 DEF PlaceInv
      <4>. QED
        BY <4>1, PacketFields
    <3>5. NextOffset(i) \in Nat
      BY <3>1, RoundFacts
    <3>. QED
      BY <3>1, <3>2, <3>3, <3>4, <3>5
  <2>3. CASE UNCHANGED vars
    BY <2>3 DEF vars, EventsDecoded
  <2>. QED
    BY <2>1, <2>2, <2>3
<1>3. Init => PlaceInv
  BY PlaceInit
<1>4. PlaceInv /\ [Next]_vars => PlaceInv'
  BY PlaceStep
<1>. QED
  BY <1>1, <1>2, <1>3, <1>4, PTL DEF Spec

------------------------------------------------------------------------------
(* The order of time.                                                       *)

TimeOf(p, h) == p[h[1]].events[h[2]].ts

\* The events of a packet that may still go into a vector: the first event f that waits,
\* and those to be decoded from offset o.
Pending(p, f, o) ==
    {k \in 1 .. Len(p.events) :
        k = f \/ (o <= p.events[k].at /\ p.events[k].at + HeaderSize < p.length)}

\* No event that may still go into a vector is before time r.
Later(p, f, o, r) == \A i \in Members : \A k \in Pending(p[i], f[i], o[i]) : r <= p[i].events[k].ts

\* The hits of w are a window later than the reference of v, and those of v follow the
\* reference within the window.
Apart(p, v, w) == \A h \in ToSet(w) : TimeOf(p, v[1]) + Window <= TimeOf(p, h)
Tight(p, v) == \A h \in ToSet(v) :
    TimeOf(p, v[1]) <= TimeOf(p, h) /\ TimeOf(p, h) < TimeOf(p, v[1]) + Window

\* The vectors v and the vector e in the making, with the first events f that wait and the
\* offsets o.
Ordered(p, f, o, v, e) ==
    /\ \A m \in 1 .. Len(v) : Later(p, f, o, TimeOf(p, v[m][1]) + Window)
    /\ e # <<>> => Later(p, f, o, TimeOf(p, e[1]))
    /\ \A m, n \in 1 .. Len(v) : m < n => Apart(p, v[m], v[n])
    /\ \A m \in 1 .. Len(v) : Apart(p, v[m], e)
    /\ \A n \in 1 .. Len(v) : Tight(p, v[n])
    /\ Tight(p, e)

InTime == \A i \in Members : Sorted(i)

OrderInv == InTime => Ordered(packet, first, offset, vectors, InMaking)

LEMMA TimeTypes ==
    ASSUME PlaceInv
    PROVE  /\ \A h \in Hits : TimeOf(packet, h) \in Nat
           /\ \A i \in Members : \A k \in 1 .. Len(packet[i].events) : packet[i].events[k].ts \in Nat
           /\ Window \in Nat /\ Window > 0
<1>1. \A i \in Members : \A k \in 1 .. Len(packet[i].events) : packet[i].events[k].ts \in Nat
  BY PacketFields DEF PlaceInv
<1>2. ASSUME NEW h \in Hits PROVE TimeOf(packet, h) \in Nat
  <2>1. h[1] \in Members /\ h[2] \in 1 .. Len(packet[h[1]].events)
    BY HitFields DEF PlaceInv
  <2>. QED
    BY <1>1, <2>1 DEF TimeOf
<1>3. Window \in Nat /\ Window > 0
  BY BuilderAssumption
<1>. QED
  BY <1>1, <1>2, <1>3

\* What waits after the round begins may still go into a vector, ...
LEMMA LaterFirst ==
    ASSUME PlaceInv, pc = "loop", NEW r, Later(packet, first, offset, r), NEW i \in Waiting
    PROVE  r <= Ts(i)
<1>1. i \in Members /\ Refilled(i) # Used
  BY DEF Waiting
<1>. DEFINE k == Refilled(i)
<1>2. /\ k \in 1 .. Len(packet[i].events)
      /\ Refills(i) => packet[i].events[k].at = offset[i] /\ offset[i] + HeaderSize < packet[i].length
      /\ ~Refills(i) => k = first[i]
  BY <1>1, RoundFacts
<1>3. offset[i] \in Nat
  BY <1>1 DEF PlaceInv
<1>. HIDE DEF k
<1>4. k \in Pending(packet[i], first[i], offset[i])
  BY <1>2, <1>3 DEF Pending
<1>. QED
  BY <1>1, <1>4 DEF Later, Ts, k

\* ... is the earliest of its module, ...
LEMMA FirstLater ==
    ASSUME PlaceInv, pc = "loop", InTime, NEW r \in Int, \A i \in Waiting : r <= Ts(i)
    PROVE  Later(packet, first, offset, r)
<1>. SUFFICES ASSUME NEW i \in Members, NEW k \in Pending(packet[i], first[i], offset[i])
              PROVE  r <= packet[i].events[k].ts
  BY DEF Later
<1>. DEFINE p == packet[i]
            f == Refilled(i)
<1>1. /\ p \in Packets /\ offset[i] \in Nat /\ first[i] \in Nat /\ Placed(i)
      /\ k \in 1 .. Len(p.events)
      /\ k = first[i] \/ (offset[i] <= p.events[k].at /\ p.events[k].at + HeaderSize < p.length)
  BY DEF PlaceInv, Pending
<1>2. /\ p.events[k].at \in Nat /\ p.length \in Nat /\ HeaderSize \in Nat
  BY <1>1, PacketFields
<1>3. f # Used /\ f \in 1 .. Len(p.events) /\ (f = k \/ f < k)
  <2>1. CASE k = first[i]
    <3>1. first[i] # Used
      BY <1>1, <2>1 DEF Used
    <3>2. f = k
      BY <2>1, <3>1, RoundFacts
    <3>. QED
      BY <1>1, <2>1, <3>1, <3>2
  <2>2. CASE k # first[i] /\ first[i] # Used
    <3>1. f = first[i]
      BY <2>2, RoundFacts
    <3>2. /\ f \in 1 .. Len(p.events) /\ offset[i] = p.events[f].at + p.events[f].len
      BY <1>1, <2>2, <3>1 DEF Placed
    <3>3. p.events[f].at \in Nat /\ p.events[f].len \in Nat /\ p.events[f].len >= HeaderSize /\ HeaderSize > 0
      BY <1>1, <3>2, PacketFields
    <3>4. p.events[f].at < p.events[k].at
      <4>. DEFINE a == p.events[f].at
                  l == p.events[f].len
                  b == p.events[k].at
      <4>1. a \in Nat /\ l \in Nat /\ b \in Nat /\ l > 0 /\ a + l <= b
        BY <1>1, <1>2, <2>2, <3>2, <3>3
      <4>. HIDE DEF a, l, b
      <4>2. a < b
        BY <4>1
      <4>. QED
        BY <4>2 DEF a, b
    <3>. HIDE DEF f, p
    <3>5. f < k
      BY <1>1, <3>2, <3>4, InOrder
    <3>. QED
      BY <2>2, <3>1, <3>2, <3>5
  <2>3. CASE k # first[i] /\ first[i] = Used
    <3>1. Refills(i)
      <4>1. offset[i] + HeaderSize < p.length
        BY <1>1, <1>2, <2>3
      <4>. QED
        BY <2>3, <4>1 DEF Refills, HasNext
    <3>2. f # Used /\ f \in 1 .. Len(p.events) /\ p.events[f].at = offset[i]
      BY <3>1, RoundFacts
    <3>3. p.events[f].at <= p.events[k].at
      BY <1>1, <2>3, <3>2
    <3>. HIDE DEF f, p
    <3>4. /\ k < f <=> p.events[k].at < p.events[f].at
      BY <1>1, <3>2, InOrder
    <3>5. ~(k < f)
      <4>. DEFINE a == p.events[f].at
                  b == p.events[k].at
      <4>1. a \in Nat /\ b \in Nat /\ a <= b
        BY <1>1, <1>2, <3>2, <3>3
      <4>. HIDE DEF a, b
      <4>2. ~(b < a)
        BY <4>1
      <4>. QED
        BY <3>4, <4>2 DEF a, b
    <3>. QED
      BY <1>1, <3>2, <3>5
  <2>. QED
    BY <2>1, <2>2, <2>3
<1>4. p.events[f].ts <= p.events[k].ts
  <2>1. p.events[f].ts \in Nat /\ p.events[k].ts \in Nat
    BY <1>1, <1>3, TimeTypes
  <2>2. DOMAIN p.events = 1 .. Len(p.events)
    BY <1>1, PacketFields
  <2>3. Sorted(i)
    BY DEF InTime
  <2>. QED
    BY <1>1, <1>3, <2>1, <2>2, <2>3 DEF Sorted
<1>5. r <= Ts(i)
  BY <1>3 DEF Waiting
<1>6. p.events[f].ts \in Nat /\ p.events[k].ts \in Nat
  BY <1>1, <1>3, TimeTypes
<1>. QED
  BY <1>4, <1>5, <1>6 DEF Ts

\* ... and a round makes no event pending that was not.
LEMMA LaterStays ==
    ASSUME PlaceInv, pc = "loop", NEW U, Refill, Use(U), packet' = packet, NEW r,
           Later(packet, first, offset, r)
    PROVE  Later(packet', first', offset', r)
<1>. SUFFICES ASSUME NEW i \in Members, NEW k \in Pending(packet[i], first'[i], offset'[i])
              PROVE  r <= packet[i].events[k].ts
  BY DEF Later
<1>1. offset'[i] = NextOffset(i) /\ (first'[i] = Used \/ first'[i] = Refilled(i))
  BY DEF Refill, Use
<1>2. /\ k \in 1 .. Len(packet[i].events)
      /\ \/ k = first'[i]
         \/ (offset'[i] <= packet[i].events[k].at /\ packet[i].events[k].at + HeaderSize < packet[i].length)
  BY DEF Pending
<1>3. CASE k = first'[i]
  <2>1. k = Refilled(i) /\ i \in Waiting
    BY <1>1, <1>2, <1>3 DEF Waiting, Used
  <2>2. r <= Ts(i)
    BY <2>1, LaterFirst
  <2>. QED
    BY <2>1, <2>2 DEF Ts
<1>4. CASE offset'[i] <= packet[i].events[k].at /\ packet[i].events[k].at + HeaderSize < packet[i].length
  <2>1. offset[i] <= NextOffset(i) /\ offset[i] \in Nat /\ NextOffset(i) \in Nat
    BY RoundFacts DEF PlaceInv
  <2>2. packet[i].events[k].at \in Nat
    BY <1>2, PacketFields DEF PlaceInv
  <2>3. offset[i] <= packet[i].events[k].at
    BY <1>1, <1>4, <2>1, <2>2
  <2>4. k \in Pending(packet[i], first[i], offset[i])
    BY <1>2, <1>4, <2>3 DEF Pending
  <2>. QED
    BY <2>4 DEF Later
<1>. QED
  BY <1>2, <1>3, <1>4

\* A round that leaves the vectors, and adds to the one in the making the hits of w, all of
\* which wait and lie within the window after the reference, keeps the order.
LEMMA RoundOrdered ==
    ASSUME PlaceInv, pc = "loop", NEW U, Refill, Use(U), packet' = packet,
           NEW e \in Seq(Hits), NEW d \in Seq(Hits),
           Ordered(packet, first, offset, vectors, e),
           d # <<>> => Later(packet, first, offset, TimeOf(packet, d[1])),
           Tight(packet, d),
           \A h \in ToSet(d) : h \in ToSet(e) \/ \E i \in Waiting : h = <<i, Refilled(i)>>
    PROVE  Ordered(packet', first', offset', vectors, d)
<1>1. ASSUME NEW m \in 1 .. Len(vectors)
      PROVE  Later(packet', first', offset', TimeOf(packet, vectors[m][1]) + Window)
  <2>1. Later(packet, first, offset, TimeOf(packet, vectors[m][1]) + Window)
    BY DEF Ordered
  <2>. QED
    BY <2>1, LaterStays
<1>2. d # <<>> => Later(packet', first', offset', TimeOf(packet, d[1]))
  BY LaterStays
<1>3. ASSUME NEW m \in 1 .. Len(vectors)
      PROVE  Apart(packet, vectors[m], d)
  <2>. SUFFICES ASSUME NEW h \in ToSet(d)
                PROVE  TimeOf(packet, vectors[m][1]) + Window <= TimeOf(packet, h)
    BY DEF Apart
  <2>1. CASE h \in ToSet(e)
    BY <2>1 DEF Ordered, Apart
  <2>2. ASSUME NEW i \in Waiting, h = <<i, Refilled(i)>>
        PROVE  TimeOf(packet, vectors[m][1]) + Window <= TimeOf(packet, h)
    <3>1. Later(packet, first, offset, TimeOf(packet, vectors[m][1]) + Window)
      BY DEF Ordered
    <3>2. TimeOf(packet, vectors[m][1]) + Window <= Ts(i)
      BY <3>1, LaterFirst
    <3>3. TimeOf(packet, h) = Ts(i)
      BY <2>2 DEF TimeOf, Ts
    <3>. QED
      BY <3>2, <3>3
  <2>. QED
    BY <2>1, <2>2
<1>. QED
  BY <1>1, <1>2, <1>3 DEF Ordered

LEMMA OrderStart == vectors = <<>> /\ InMaking = <<>> => OrderInv
BY DEF OrderInv, Ordered, Apart, Tight, ToSet

LEMMA OrderInit == Init => OrderInv
<1>1. Init => vectors = <<>> /\ InMaking = <<>>
  BY DEF Init, InMaking
<1>. QED
  BY <1>1, OrderStart

LEMMA OrderStep == PlaceInv /\ OrderInv /\ [Next]_vars => OrderInv'
<1>. SUFFICES ASSUME PlaceInv, OrderInv, [Next]_vars, InTime'
              PROVE  Ordered(packet', first', offset', vectors', InMaking')
  BY DEF OrderInv
<1>1. packet' = packet
  BY PacketsStay
<1>2. InTime
  BY <1>1 DEF InTime, Sorted
<1>3. Ordered(packet, first, offset, vectors, InMaking)
  BY <1>2 DEF OrderInv
<1>4. event \in Seq(Hits) /\ vectors \in Seq(Seq(Hits))
  BY DEF PlaceInv
<1>5. Window \in Nat /\ Window > 0
  BY TimeTypes
<1>6. CASE SearchDecodeOffset
  <2>1. vectors' = <<>> /\ InMaking' = <<>>
    BY <1>6 DEF SearchDecodeOffset, PlaceInv, InMaking
  <2>. QED
    BY <2>1 DEF Ordered, Apart, Tight, ToSet
<1>7. CASE ReceiveEvent
  <2>1. first' = first /\ offset' = offset /\ vectors' = vectors /\ InMaking' = <<>>
    BY <1>7 DEF ReceiveEvent, InMaking
  <2>. QED
    BY <1>1, <1>3, <2>1 DEF Ordered, Apart, Tight, ToSet
<1>8. CASE Clean
  <2>1. /\ pc = "loop" /\ Refill /\ Use({}) /\ vectors' = vectors
        /\ InMaking = event /\ InMaking' = event
    BY <1>8 DEF Clean, InMaking
  <2>2. /\ event # <<>> => Later(packet, first, offset, TimeOf(packet, event[1]))
        /\ Tight(packet, event)
    BY <1>3, <2>1 DEF Ordered
  <2>. QED
    BY <1>1, <1>3, <1>4, <2>1, <2>2, RoundOrdered
<1>9. ASSUME NEW i \in Members, NewEvent(i)
      PROVE  Ordered(packet', first', offset', vectors', InMaking')
  <2>. DEFINE h == <<i, Refilled(i)>>
              d == <<h>>
  <2>1. /\ pc = "loop" /\ Refill /\ Use({i}) /\ vectors' = vectors
        /\ InMaking = <<>> /\ InMaking' = d /\ Earliest(i) /\ i \in Waiting /\ Refilled(i) # Used
    BY <1>9 DEF NewEvent, InMaking, Earliest, Waiting
  <2>2. h \in Hits
    <3>1. Refilled(i) \in 1 .. Len(packet[i].events)
      BY <2>1, RoundFacts
    <3>. QED
      BY <3>1, HitFields DEF PlaceInv
  <2>3. d \in Seq(Hits) /\ <<>> \in Seq(Hits) /\ d # <<>> /\ d[1] = h /\ ToSet(d) = {h}
    BY <2>2 DEF ToSet
  <2>4. TimeOf(packet, h) = Ts(i) /\ TimeOf(packet, h) \in Nat
    BY <2>2, TimeTypes DEF TimeOf, Ts
  <2>5. Later(packet, first, offset, Ts(i))
    <3>1. ASSUME NEW j \in Waiting PROVE Ts(i) <= Ts(j)
      <4>1. Ts(i) < Ts(j) \/ Ts(i) = Ts(j)
        BY <2>1 DEF Earliest
      <4>2. Ts(j) \in Nat
        <5>1. j \in Members /\ Refilled(j) \in 1 .. Len(packet[j].events)
          BY <2>1, RoundFacts DEF Waiting
        <5>. QED
          BY <5>1, TimeTypes DEF Ts
      <4>. QED
        BY <2>4, <4>1, <4>2
    <3>2. Ts(i) \in Int
      BY <2>4
    <3>. QED
      BY <1>2, <2>1, <3>1, <3>2, FirstLater
  <2>6. Tight(packet, d)
    <3>. HIDE DEF d, h
    <3>1. TimeOf(packet, h) <= TimeOf(packet, h) /\ TimeOf(packet, h) < TimeOf(packet, h) + Window
      BY <1>5, <2>4
    <3>. QED
      BY <2>3, <3>1 DEF Tight
  <2>7. \A g \in ToSet(d) : g \in ToSet(<<>>) \/ \E j \in Waiting : g = <<j, Refilled(j)>>
    BY <2>1, <2>3
  <2>8. Later(packet, first, offset, TimeOf(packet, d[1]))
    BY <2>3, <2>4, <2>5
  <2>9. Ordered(packet, first, offset, vectors, <<>>)
    BY <1>3, <2>1
  <2>. HIDE DEF d
  <2>10. Ordered(packet', first', offset', vectors, d)
    BY <1>1, <2>1, <2>3, <2>6, <2>7, <2>8, <2>9, RoundOrdered
  <2>. QED
    BY <2>1, <2>10
<1>10. CASE AddMatches
  <2>. DEFINE x == FlattenSeq([n \in 1 .. NumModules |-> MatchOf(n - 1)])
              d == event \o x
              M == {<<i, Refilled(i)>> : i \in Matching}
              ref == TimeOf(packet, event[1])
  <2>1. /\ pc = "loop" /\ Refill /\ Use(Matching) /\ vectors' = vectors
        /\ InMaking = event /\ event # <<>> /\ InMaking' = d
    BY <1>10 DEF AddMatches, InMaking
  <2>2. x \in Seq(Hits) /\ x \in Seq(M)
    BY <2>1, MatchesFound
  <2>3. Ordered(packet, first, offset, vectors, event)
    BY <1>3, <2>1
  <2>4. Later(packet, first, offset, ref) /\ Tight(packet, event)
    BY <2>1, <2>3 DEF Ordered
  <2>5. event[1] \in Hits /\ ref \in Nat
    <3>1. event[1] \in Hits
      BY <1>4, <2>1, ElementOfSeq
    <3>. QED
      BY <3>1, TimeTypes
  <2>. HIDE DEF x, M
  <2>6. /\ d \in Seq(Hits) /\ d # <<>> /\ d[1] = event[1]
        /\ \A h \in ToSet(d) : h \in ToSet(event) \/ h \in M
    <3>1. /\ d \in Seq(Hits) /\ Len(d) = Len(event) + Len(x) /\ Len(event) \in Nat /\ Len(x) \in Nat
          /\ \A k \in 1 .. Len(event) : d[k] = event[k]
          /\ \A k \in 1 .. Len(x) : d[Len(event) + k] = x[k]
      BY <1>4, <2>2, ConcatParts
    <3>2. Len(event) > 0
      BY <1>4, <2>1
    <3>. HIDE DEF d
    <3>3. d # <<>> /\ d[1] = event[1]
      BY <3>1, <3>2
    <3>4. ASSUME NEW h \in ToSet(d) PROVE h \in ToSet(event) \/ h \in M
      <4>1. PICK k \in 1 .. Len(d) : h = d[k]
        BY <3>1 DEF ToSet
      <4>2. CASE k <= Len(event)
        <5>1. k \in DOMAIN event /\ h = event[k]
          BY <1>4, <3>1, <4>1, <4>2
        <5>. QED
          BY <5>1 DEF ToSet
      <4>3. CASE k > Len(event)
        <5>. DEFINE l == k - Len(event)
        <5>1. l \in 1 .. Len(x) /\ Len(event) + l = k
          BY <3>1, <4>1, <4>3
        <5>. HIDE DEF l
        <5>2. h = x[l]
          BY <3>1, <4>1, <5>1
        <5>3. x[l] \in M
          BY <2>2, <5>1, ElementOfSeq
        <5>. QED
          BY <5>2, <5>3
      <4>. QED
        BY <3>1, <4>1, <4>2, <4>3
    <3>. QED
      BY <3>1, <3>3, <3>4
  <2>7. ASSUME NEW h \in M
        PROVE  /\ ref <= TimeOf(packet, h) /\ TimeOf(packet, h) < ref + Window
               /\ \E i \in Waiting : h = <<i, Refilled(i)>>
    <3>1. PICK i \in Matching : h = <<i, Refilled(i)>>
      BY DEF M
    <3>2. i \in Waiting /\ Ts(i) - Timestamp(event[1]) < Window
      BY DEF Matching
    <3>3. TimeOf(packet, h) = Ts(i) /\ ref = Timestamp(event[1])
      BY <3>1 DEF TimeOf, Ts, Timestamp
    <3>4. ref <= Ts(i)
      BY <2>1, <2>4, <3>2, LaterFirst
    <3>5. Ts(i) \in Nat
      <4>1. i \in Members /\ Refilled(i) \in 1 .. Len(packet[i].events)
        BY <2>1, <3>2, RoundFacts DEF Waiting
      <4>. QED
        BY <4>1, TimeTypes DEF Ts
    <3>6. Ts(i) < ref + Window
      <4>1. Ts(i) - ref < Window
        BY <3>2, <3>3
      <4>. HIDE DEF ref
      <4>. QED
        BY <1>5, <2>5, <3>5, <4>1
    <3>. QED
      BY <3>1, <3>2, <3>3, <3>4, <3>6
  <2>. HIDE DEF d
  <2>8. Tight(packet, d)
    BY <2>4, <2>6, <2>7 DEF Tight
  <2>9. \A h \in ToSet(d) : h \in ToSet(event) \/ \E i \in Waiting : h = <<i, Refilled(i)>>
    BY <2>6, <2>7
  <2>10. Later(packet, first, offset, TimeOf(packet, d[1]))
    BY <2>4, <2>6
  <2>11. Ordered(packet', first', offset', vectors, d)
    BY <1>1, <1>4, <2>1, <2>3, <2>6, <2>8, <2>9, <2>10, RoundOrdered
  <2>. QED
    BY <2>1, <2>11
<1>11. CASE ReturnEvent
  <2>. DEFINE L == Len(vectors)
              v == Append(vectors, event)
              ref == TimeOf(packet, event[1])
  <2>1. /\ pc = "loop" /\ Refill /\ Use({}) /\ vectors' = v
        /\ InMaking = event /\ event # <<>> /\ InMaking' = <<>> /\ Matching = {}
    BY <1>11 DEF ReturnEvent, InMaking
  <2>2. /\ \A m \in 1 .. L : Later(packet, first, offset, TimeOf(packet, vectors[m][1]) + Window)
        /\ Later(packet, first, offset, ref)
        /\ \A m, n \in 1 .. L : m < n => Apart(packet, vectors[m], vectors[n])
        /\ \A m \in 1 .. L : Apart(packet, vectors[m], event)
        /\ \A n \in 1 .. L : Tight(packet, vectors[n])
        /\ Tight(packet, event)
    BY <1>3, <2>1 DEF Ordered
  <2>3. /\ L \in Nat /\ Len(v) = L + 1 /\ v[L + 1] = event /\ \A m \in 1 .. L : v[m] = vectors[m]
    BY <1>4
  <2>4. ref \in Nat
    <3>1. event[1] \in Hits
      BY <1>4, <2>1, ElementOfSeq
    <3>. QED
      BY <3>1, TimeTypes
  <2>5. Later(packet, first, offset, ref + Window)
    <3>1. ASSUME NEW i \in Waiting PROVE ref + Window <= Ts(i)
      <4>1. ref <= Ts(i)
        BY <2>1, <2>2, LaterFirst
      <4>2. Ts(i) \in Nat
        <5>1. i \in Members /\ Refilled(i) \in 1 .. Len(packet[i].events)
          BY <2>1, RoundFacts DEF Waiting
        <5>. QED
          BY <5>1, TimeTypes DEF Ts
      <4>3. ~(Ts(i) - ref > -Window /\ Ts(i) - ref < Window)
        <5>1. ref = Timestamp(event[1])
          BY DEF TimeOf, Timestamp
        <5>. QED
          BY <2>1, <5>1 DEF Matching
      <4>. HIDE DEF ref
      <4>. QED
        BY <1>5, <2>4, <4>1, <4>2, <4>3
    <3>2. ref + Window \in Int
      BY <1>5, <2>4
    <3>. HIDE DEF ref
    <3>. QED
      BY <1>2, <2>1, <3>1, <3>2, FirstLater
  <2>. HIDE DEF v, L, ref
  <2>6. ASSUME NEW m \in 1 .. Len(v)
        PROVE  Later(packet', first', offset', TimeOf(packet, v[m][1]) + Window)
    <3>1. Later(packet, first, offset, TimeOf(packet, v[m][1]) + Window)
      <4>1. CASE m = L + 1
        BY <2>3, <2>5, <4>1 DEF ref
      <4>2. CASE m \in 1 .. L
        BY <2>2, <2>3, <4>2
      <4>. QED
        BY <2>3, <4>1, <4>2
    <3>. QED
      BY <1>1, <2>1, <3>1, LaterStays
  <2>7. ASSUME NEW m \in 1 .. Len(v), NEW n \in 1 .. Len(v), m < n
        PROVE  Apart(packet, v[m], v[n])
    <3>1. m \in 1 .. L
      BY <2>3, <2>7
    <3>2. CASE n = L + 1
      BY <2>2, <2>3, <3>1, <3>2
    <3>3. CASE n \in 1 .. L
      BY <2>2, <2>3, <2>7, <3>1, <3>3
    <3>. QED
      BY <2>3, <3>2, <3>3
  <2>8. ASSUME NEW n \in 1 .. Len(v) PROVE Tight(packet, v[n])
    <3>1. CASE n = L + 1
      BY <2>2, <2>3, <3>1
    <3>2. CASE n \in 1 .. L
      BY <2>2, <2>3, <3>2
    <3>. QED
      BY <2>3, <3>1, <3>2
  <2>9. Tight(packet, <<>>) /\ \A m \in 1 .. Len(v) : Apart(packet, v[m], <<>>)
    BY DEF Tight, Apart, ToSet
  <2>. QED
    BY <1>1, <2>1, <2>6, <2>7, <2>8, <2>9 DEF Ordered
<1>12. CASE UNCHANGED vars
  <2>1. first' = first /\ offset' = offset /\ vectors' = vectors /\ InMaking' = InMaking
    BY <1>12 DEF vars, InMaking
  <2>. QED
    BY <1>1, <1>3, <2>1
<1>. QED
  BY <1>6, <1>7, <1>8, <1>9, <1>10, <1>11, <1>12 DEF Next

LEMMA OrderInvariant == Spec => [](PlaceInv /\ OrderInv)
<1>1. Init => PlaceInv /\ OrderInv
  BY PlaceInit, OrderInit
<1>2. PlaceInv /\ OrderInv /\ [Next]_vars => (PlaceInv /\ OrderInv)'
  BY PlaceStep, OrderStep
<1>. QED
  BY <1>1, <1>2, PTL DEF Spec

\* If every module delivers its events in the order of time, coincident events are not
\* torn apart: a hit of a later vector is the window away from the reference of an earlier.
THEOREM CoincidencesKept == Spec => []CoincidencesTogether
<1>1. PlaceInv /\ OrderInv => CoincidencesTogether
  <2>. SUFFICES ASSUME PlaceInv, OrderInv, InTime,
                       NEW m \in DOMAIN vectors, NEW n \in DOMAIN vectors, m < n,
                       NEW h \in ToSet(vectors[n])
                PROVE  Timestamp(h) - Timestamp(vectors[m][1]) >= Window
    BY DEF CoincidencesTogether, InTime
  <2>1. vectors \in Seq(Seq(Hits)) /\ DOMAIN vectors = 1 .. Len(vectors)
    BY DEF PlaceInv
  <2>2. Apart(packet, vectors[m], vectors[n])
    BY <2>1 DEF OrderInv, Ordered
  <2>3. vectors[m] \in Seq(Hits) /\ vectors[n] \in Seq(Hits) /\ vectors[m] # <<>>
    BY <2>1 DEF PlaceInv
  <2>4. vectors[m][1] \in Hits /\ h \in Hits
    BY <2>3, ElementOfSeq DEF ToSet
  <2>. DEFINE a == TimeOf(packet, vectors[m][1])
              b == TimeOf(packet, h)
  <2>5. a \in Nat /\ b \in Nat /\ Window \in Nat /\ a + Window <= b
    BY <2>2, <2>4, TimeTypes DEF Apart
  <2>6. Timestamp(h) = b /\ Timestamp(vectors[m][1]) = a
    BY DEF TimeOf, Timestamp
  <2>. HIDE DEF a, b
  <2>. QED
    BY <2>5, <2>6
<1>. QED
  BY <1>1, OrderInvariant, PTL

\* If every module delivers its events in the order of time, no hit is older than the
\* reference of its own vector or of an earlier one, and those of a vector follow its
\* reference within the window.
THEOREM VectorsInOrder == Spec => []SortedStreamsSortedVectors
<1>1. PlaceInv /\ OrderInv => SortedStreamsSortedVectors
  <2>. DEFINE all == Append(vectors, InMaking)
              L == Len(vectors)
  <2>. SUFFICES ASSUME PlaceInv, OrderInv, InTime,
                       NEW m \in DOMAIN all, NEW n \in DOMAIN all, m <= n,
                       NEW h \in ToSet(all[n])
                PROVE  /\ Timestamp(all[m][1]) <= Timestamp(h)
                       /\ m = n => Timestamp(h) - Timestamp(all[m][1]) < Window
    <3>1. ASSUME NEW m \in DOMAIN all, NEW n \in DOMAIN all, m = n PROVE m <= n
      <4>1. DOMAIN all \subseteq Nat
        OBVIOUS
      <4>. QED
        BY <3>1, <4>1
    <3>. HIDE DEF all
    <3>. QED
      BY <3>1 DEF SortedStreamsSortedVectors, InTime, all
  <2>1. vectors \in Seq(Seq(Hits)) /\ event \in Seq(Hits) /\ InMaking \in Seq(Hits)
    BY DEF PlaceInv, InMaking
  <2>2. /\ L \in Nat /\ DOMAIN all = 1 .. L + 1 /\ all[L + 1] = InMaking
        /\ \A k \in 1 .. L : all[k] = vectors[k]
        /\ all \in Seq(Seq(Hits))
    BY <2>1
  <2>3. Ordered(packet, first, offset, vectors, InMaking)
    BY DEF OrderInv
  <2>4. h \in Hits
    <3>1. all[n] \in Seq(Hits)
      BY <2>2
    <3>. QED
      BY <3>1, ElementOfSeq DEF ToSet
  <2>5. all[m][1] \in Hits
    <3>1. all[m] \in Seq(Hits)
      BY <2>2
    <3>2. all[m] # <<>>
      <4>1. CASE m \in 1 .. L
        BY <2>1, <2>2, <4>1 DEF PlaceInv
      <4>2. CASE m = L + 1
        <5>1. n = m
          BY <2>2, <4>2
        <5>2. all[m] # <<>>
          BY <5>1 DEF ToSet
        <5>. QED
          BY <5>2
      <4>. QED
        BY <2>2, <4>1, <4>2
    <3>. QED
      BY <3>1, <3>2, ElementOfSeq
  <2>. HIDE DEF all, L
  <2>6. CASE m = n
    <3>1. Tight(packet, all[m])
      <4>1. CASE m = L + 1
        BY <2>2, <2>3, <4>1 DEF Ordered
      <4>2. CASE m \in 1 .. L
        BY <2>2, <2>3, <4>2 DEF Ordered, L
      <4>. QED
        BY <2>2, <4>1, <4>2
    <3>2. /\ TimeOf(packet, all[m][1]) <= TimeOf(packet, h)
          /\ TimeOf(packet, h) < TimeOf(packet, all[m][1]) + Window
      BY <2>6, <3>1 DEF Tight
    <3>. DEFINE a == TimeOf(packet, all[m][1])
                b == TimeOf(packet, h)
    <3>3. a \in Nat /\ b \in Nat /\ Window \in Nat /\ a <= b /\ b < a + Window
      BY <2>4, <2>5, <3>2, TimeTypes
    <3>4. Timestamp(h) = b /\ Timestamp(all[m][1]) = a
      BY DEF TimeOf, Timestamp
    <3>. HIDE DEF a, b
    <3>. QED
      BY <3>3, <3>4
  <2>7. CASE m < n
    <3>1. Apart(packet, all[m], all[n])
      <4>1. m \in 1 .. L
        BY <2>2, <2>7
      <4>2. CASE n = L + 1
        BY <2>2, <2>3, <4>1, <4>2 DEF Ordered, L
      <4>3. CASE n \in 1 .. L
        BY <2>2, <2>3, <2>7, <4>1, <4>3 DEF Ordered, L
      <4>. QED
        BY <2>2, <4>2, <4>3
    <3>. DEFINE a == TimeOf(packet, all[m][1])
                b == TimeOf(packet, h)
    <3>2. a \in Nat /\ b \in Nat /\ Window \in Nat /\ a + Window <= b
      BY <2>4, <2>5, <3>1, TimeTypes DEF Apart
    <3>3. Timestamp(h) = b /\ Timestamp(all[m][1]) = a /\ m # n
      <4>1. Timestamp(h) = b /\ Timestamp(all[m][1]) = a
        BY DEF TimeOf, Timestamp
      <4>. QED
        BY <2>2, <2>7, <4>1
    <3>. HIDE DEF a, b
    <3>. QED
      BY <3>2, <3>3
  <2>. QED
    BY <2>2, <2>6, <2>7
<1>. QED
  BY <1>1, OrderInvariant, PTL
==============================================================================
