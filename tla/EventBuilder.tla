------------------------------ MODULE EventBuilder ------------------------------
(***************************************************************************)
(* The event loop of OnlineDataReceiver::ReceiveEvent, with the search for *)
(* the first event of a packet (src/src/online_data_receiver.cpp): how the *)
(* packets of one group of modules become event vectors.  Module           *)
(* OnlineReceiver says how the packets got there.                          *)
(*                                                                         *)
(* The DAQ process cuts packets at any word, so a packet may begin with    *)
(* the rest of one event and end within another.  A packet of the model is *)
(*   length   header_->length, in words                                    *)
(*   events   the events whose header begins in the packet: the offset at, *)
(*            the length len in words, the timestamp ts                    *)
(* Words that are no event header are taken not to pass for one.           *)
(***************************************************************************)
EXTENDS Integers, Sequences, FiniteSetsExt, SequencesExt

CONSTANTS
    NumModules,     \* module_num_
    Members,        \* the modules of the group: group_index_[i] = has_taken_.back()
    Packets,        \* the packets a module may come with
    Window,         \* the argument of ReceiveEvent
    HeaderSize,     \* sizeof(DataHeader)/4 (4)
    ValidCount      \* the count of ValidateEvents (5)

WellFormed(p) ==
    /\ p.length \in Nat
    /\ p.events \in Seq([at: Nat, len: Nat, ts: Nat])
    /\ \A k \in DOMAIN p.events :
          LET e == p.events[k] IN
          /\ e.at < p.length /\ e.len >= HeaderSize
          /\ IF k = Len(p.events) THEN e.at + e.len >= p.length
                                  ELSE p.events[k + 1].at = e.at + e.len

ASSUME BuilderAssumption ==
    /\ NumModules \in Nat /\ Members \subseteq 0 .. NumModules - 1 /\ Members # {}
    /\ \A p \in Packets : WellFormed(p)
    /\ Window \in Nat \ {0} /\ HeaderSize \in Nat \ {0} /\ ValidCount \in Nat \ {0}

Used == 0       \* no undelivered event: first_events_[i].used

VARIABLES
    pc,         \* "search", "idle" between two calls, "loop", "clean"
    packet,     \* packet[i]: the packet of module i
    offset,     \* decode_offset_[i]
    start,      \* start[i]: where the search left the offset (a record of the past)
    first,      \* first[i]: index of the event in first_events_[i], or Used
    event,      \* event_: the hits of the vector under construction
    vectors     \* the vectors returned so far (a record of the past)

vars == <<pc, packet, offset, start, first, event, vectors>>

\* A hit is an event of a module: <<module, index of the event in its packet>>.
EventAt(p, o) == CHOOSE k \in DOMAIN p.events : p.events[k].at = o
Timestamp(hit) == packet[hit[1]].events[hit[2]].ts

Init ==
    /\ pc = "search"
    /\ packet \in [Members -> Packets]
    /\ offset = [i \in Members |-> 0]
    /\ start = offset
    /\ first = [i \in Members |-> Used]
    /\ event = <<>>
    /\ vectors = <<>>

------------------------------------------------------------------------------
(* SearchDecodeOffset.                                                      *)

\* ValidateEvents at the header of event k: ValidCount headers in a row, each
\* wholly inside the packet.  Past an event that is cut off, length - offset
\* wraps around, and whatever lies behind the packet decides: stale.
ValidateEvents(p, k, stale) ==
    LET last == p.events[Len(p.events)] IN
    \A j \in k .. k + ValidCount - 1 :
        IF j <= Len(p.events)
        THEN p.events[j].at + HeaderSize <= p.length
        ELSE last.at + last.len > p.length /\ stale

\* (mutant) a packet in which nothing validates is left behind its end
SearchBeyond(p, stale) ==
    LET valid == {k \in DOMAIN p.events : ValidateEvents(p, k, stale)}
    IN  IF valid = {} THEN p.length + 1 ELSE p.events[Min(valid)].at

\* The first offset that validates, or the length of the packet.
SearchOffset(p, stale) ==
    LET valid == {k \in DOMAIN p.events : ValidateEvents(p, k, stale)}
    IN  IF valid = {} THEN p.length ELSE p.events[Min(valid)].at

SearchDecodeOffset ==
    /\ pc = "search"
    /\ pc' = "idle"
    /\ \E stale \in [Members -> BOOLEAN] :
          offset' = [i \in Members |-> SearchOffset(packet[i], stale[i])]
    /\ start' = offset'
    /\ UNCHANGED <<packet, first, event, vectors>>

------------------------------------------------------------------------------
(* ReceiveEvent, one step per round of its loop.                            *)

ReceiveEvent ==
    /\ pc = "idle"
    /\ pc' = "loop"
    /\ event' = <<>>
    /\ UNCHANGED <<packet, offset, start, first, vectors>>

\* decode_offset_ + 4 < length: there is an event to decode.
HasNext(i) == offset[i] + HeaderSize < packet[i].length

\* (mutant) a first event that still waits is overwritten
RefillsAlways(i) == HasNext(i)

\* A round begins by decoding the next event of every module whose first is used.
Refills(i) == first[i] = Used /\ HasNext(i)
Refilled(i) == IF Refills(i) THEN EventAt(packet[i], offset[i]) ELSE first[i]
NextOffset(i) == IF Refills(i) THEN offset[i] + packet[i].events[Refilled(i)].len ELSE offset[i]

\* (mutant) the event loop ends with the first module that has no data
HasDataInAll == \A i \in Members :
    NextOffset(i) + HeaderSize < packet[i].length \/ Refilled(i) # Used

\* (mutant) an event of four words at the end counts as data
HasDataOrRest == \E i \in Members :
    NextOffset(i) + HeaderSize <= packet[i].length \/ Refilled(i) # Used

HasData == \E i \in Members :
    NextOffset(i) + HeaderSize < packet[i].length \/ Refilled(i) # Used

Refill == offset' = [i \in Members |-> NextOffset(i)]

\* first_events_ after the round, once the events of the modules in S are used.
Use(S) == first' = [i \in Members |-> IF i \in S THEN Used ELSE Refilled(i)]

\* No data left: the packets are released and nullptr is returned.
Clean ==
    /\ pc = "loop"
    /\ ~HasData
    /\ Refill
    /\ Use({})
    /\ pc' = "clean"
    /\ UNCHANGED <<packet, start, event, vectors>>

Waiting == {i \in Members : Refilled(i) # Used}
Ts(i) == packet[i].events[Refilled(i)].ts

\* (mutant) the first module that has an event
FirstWaiting(i) == i \in Waiting /\ \A j \in Waiting : i <= j

\* The first module with the minimum timestamp.
Earliest(i) ==
    /\ i \in Waiting
    /\ \A j \in Waiting : Ts(i) < Ts(j) \/ (Ts(i) = Ts(j) /\ i <= j)

\* A new vector starts with the earliest of the first events.
NewEvent(i) ==
    /\ pc = "loop"
    /\ HasData
    /\ event = <<>>
    /\ Earliest(i)
    /\ Refill
    /\ Use({i})
    /\ event' = << <<i, Refilled(i)>> >>
    /\ UNCHANGED <<pc, packet, start, vectors>>

\* (mutant) the window ends early
NarrowMatching ==
    LET ref == Timestamp(event[1])
    IN  {i \in Waiting : Ts(i) - ref > -Window /\ Ts(i) - ref < Window - 1}

\* The modules whose first event lies in the window around the reference.
Matching ==
    LET ref == Timestamp(event[1])
    IN  {i \in Waiting : Ts(i) - ref > -Window /\ Ts(i) - ref < Window}

MatchOf(i) == IF i \in Matching THEN << <<i, Refilled(i)>> >> ELSE <<>>

AddMatches ==
    /\ pc = "loop"
    /\ HasData
    /\ event # <<>>
    /\ Matching # {}
    /\ Refill
    /\ Use(Matching)
    /\ event' = event \o FlattenSeq([n \in 1 .. NumModules |-> MatchOf(n - 1)])
    /\ UNCHANGED <<pc, packet, start, vectors>>

\* No module matched: the vector is complete and returned.
ReturnEvent ==
    /\ pc = "loop"
    /\ HasData
    /\ event # <<>>
    /\ Matching = {}
    /\ Refill
    /\ Use({})
    /\ pc' = "idle"
    /\ vectors' = Append(vectors, event)
    /\ UNCHANGED <<packet, start, event>>

Next ==
    \/ SearchDecodeOffset \/ ReceiveEvent
    \/ Clean \/ AddMatches \/ ReturnEvent
    \/ \E i \in Members : NewEvent(i)

Spec == Init /\ [][Next]_vars

\* The analysis loop calls ReceiveEvent until it returns nullptr, and again.
FairSpec == Spec /\ WF_vars(Next)

------------------------------------------------------------------------------
(* Properties.                                                              *)

Hits == UNION {{i} \X DOMAIN packet[i].events : i \in Members}

TypeOK ==
    /\ pc \in {"search", "idle", "loop", "clean"}
    /\ packet \in [Members -> Packets]
    /\ \A i \in Members :
          /\ offset[i] \in Nat /\ start[i] \in 0 .. packet[i].length
          /\ first[i] \in {Used} \cup DOMAIN packet[i].events
    /\ ToSet(event) \subseteq Hits
    /\ \A n \in DOMAIN vectors : ToSet(vectors[n]) \subseteq Hits

\* The hits handed to the caller so far, and those of the vector in the making.
InMaking == IF pc \in {"loop", "clean"} THEN event ELSE <<>>
Taken == FlattenSeq(Append(vectors, InMaking))
HitsOf(i, q) == FlattenSeq([n \in DOMAIN q |-> IF q[n][1] = i THEN <<q[n]>> ELSE <<>>])
TakenOf(i) == HitsOf(i, Taken)

\* The events of module i that were decoded: from the start offset to the offset.
DecodedOf(i) == FlattenSeq([k \in DOMAIN packet[i].events |->
                    LET e == packet[i].events[k]
                    IN  IF start[i] <= e.at /\ e.at < offset[i] THEN << <<i, k>> >> ELSE <<>>])

\* Every event of a module goes into one vector, none twice, none skipped, and in
\* the order of its packet, while vectors interleave the modules by timestamp:
\* what was taken, then the first event that waits, is what was decoded.
EachHitOnce ==
    \A i \in Members :
        TakenOf(i) \o (IF first[i] = Used THEN <<>> ELSE << <<i, first[i]>> >>) = DecodedOf(i)

Sorted(i) == \A j, k \in DOMAIN packet[i].events :
                j < k => packet[i].events[j].ts <= packet[i].events[k].ts

\* If every module delivers its events in time order, the vectors come in the
\* order of their references, and a vector holds what follows its reference within
\* the window: no hit is older than the reference of an earlier vector.
SortedStreamsSortedVectors ==
    (\A i \in Members : Sorted(i)) =>
        LET all == Append(vectors, InMaking)
        IN  \A m, n \in DOMAIN all : \A h \in ToSet(all[n]) :
               /\ m <= n => Timestamp(all[m][1]) <= Timestamp(h)
               /\ m = n => Timestamp(h) - Timestamp(all[m][1]) < Window

\* Coincident events of different modules are not torn apart: with streams in time
\* order, a hit that went into a later vector is at least the window away from the
\* reference of each earlier one.
CoincidencesTogether ==
    (\A i \in Members : Sorted(i)) =>
        \A m, n \in DOMAIN vectors :
            m < n => \A h \in ToSet(vectors[n]) :
                        Timestamp(h) - Timestamp(vectors[m][1]) >= Window

\* When the packets are released, every event whose header lies in the packet with
\* a word behind it has been decoded (lines 213, 235): no module is given up while
\* another has no data left.
EventsDecoded ==
    pc = "clean" => \A i \in Members : \A k \in DOMAIN packet[i].events :
        LET e == packet[i].events[k]
        IN  start[i] <= e.at /\ e.at + HeaderSize < packet[i].length => e.at < offset[i]

\* Every call ends, and after finitely many the packets are released.
PacketsReleased == <>(pc = "clean")

\* getting_started.md:78: the receiver reads the data in shared memory and packs it
\* into events.  When the packets are released (lines 241-253), every hit that was
\* decoded has been handed out.
AllHitsReturned ==
    pc = "clean" => \A i \in Members :
        HitsOf(i, FlattenSeq(vectors)) = DecodedOf(i)

\* getting_started.md:114: events of one vector are less than the window apart,
\* whatever order the module delivers them in (lines 282-286).
VectorWithinWindow ==
    \A n \in DOMAIN vectors : \A g, h \in ToSet(vectors[n]) :
        Timestamp(g) - Timestamp(h) < Window
==============================================================================
