---------------------------- MODULE OnlineReceiver ----------------------------
(***************************************************************************)
(* How OnlineDataReceiver::ReceiveEvent puts the packets of a module group *)
(* back together (src/src/online_data_receiver.cpp).                       *)
(*                                                                         *)
(* The DAQ process publishes one packet stream per module.  The packets it *)
(* publishes for the modules of a group in one pass carry the same id.     *)
(* The subscriber queue of a module drops its oldest packet when full, a   *)
(* module whose payload could not be allocated misses an id, and a         *)
(* subscriber that joins late gets a short history only: the receiver must *)
(* realign the group by comparing ids.  Publisher and receiver are         *)
(* different processes, so packets arrive between any two takes.           *)
(*                                                                         *)
(* What a packet holds is abstracted to how many event vectors the event   *)
(* loop returns for its group (module EventBuilder models the loop).       *)
(***************************************************************************)
EXTENDS Integers, Sequences, FiniteSets

CONSTANTS
    ModuleNum,        \* module_num_
    GroupIndex,       \* group_index_: the group of each module
    QueueCapacity,    \* options.queueCapacity (40)
    HistoryCapacity,  \* publisher_options_.historyCapacity (5)
    MaxId,            \* bound: ids the publisher reaches in a run
    MaxVectors        \* bound: event vectors a group's packets yield

Modules == 0 .. ModuleNum - 1
Groups == {GroupIndex[m] : m \in Modules}   \* valid_group_index_
Members(g) == {m \in Modules : GroupIndex[m] = g}

ASSUME ReceiverAssumption ==
    /\ ModuleNum \in Nat \ {0}
    /\ GroupIndex \in [Modules -> Nat]
    /\ QueueCapacity \in Nat \ {0}
    /\ HistoryCapacity \in 1 .. QueueCapacity
    /\ MaxId \in Nat
    /\ MaxVectors \in Nat

NoPacket == -1        \* user_payload_[m] = nullptr
Ids == 0 .. MaxId

VARIABLES
    \* the publishing process
    next_id,        \* next_id[m]: the id m's next packet gets or misses
    published,      \* published[m]: the ids m did publish (a record of the past)
    history,        \* history[m]: what the publisher replays to a late subscriber
    \* the middleware
    connected,      \* connected[m]: the subscription of m is established
    queue,          \* queue[m]: ids of the packets waiting in m's subscriber queue
    \* the receiver
    pc,             \* where ReceiveEvent is; "idle" between two calls
    module,         \* the loop variable of the take loop
    held,           \* held[m]: id of the packet in user_payload_[m], or NoPacket
    expect_id,      \* group_info_[g].expect_id
    valid_packets,  \* group_info_[g].valid_packets
    has_taken,      \* groups being decoded
    vectors,        \* vectors[g]: event vectors the loop has left for group g
    decoded         \* decoded[g]: ids under which g was decoded (a record of the past)

publisherVars == <<next_id, published, history>>
channelVars == <<connected, queue>>
groupVars == <<held, expect_id, valid_packets>>
decodeVars == <<has_taken, vectors, decoded>>
vars == <<publisherVars, channelVars, pc, module, groupVars, decodeVars>>

\* A queue that drops its oldest packet when it is full.
Enqueue(q, k, capacity) ==
    IF Len(q) < capacity THEN Append(q, k) ELSE Append(Tail(q), k)

Init ==
    /\ next_id = [m \in Modules |-> 0]
    /\ published = [m \in Modules |-> {}]
    /\ history = [m \in Modules |-> <<>>]
    /\ connected = [m \in Modules |-> FALSE]
    /\ queue = [m \in Modules |-> <<>>]
    /\ pc = "idle"
    /\ module = 0
    /\ held = [m \in Modules |-> NoPacket]
    /\ expect_id = [g \in Groups |-> 0]
    /\ valid_packets = [g \in Groups |-> 0]
    /\ has_taken = {}
    /\ vectors = [g \in Groups |-> 0]
    /\ decoded = [g \in Groups |-> {}]

------------------------------------------------------------------------------
(* The publisher and the middleware.                                        *)

\* One pass of the publisher serves the modules of a group in ascending order.
InTurn(m) ==
    /\ next_id[m] <= MaxId
    /\ \A j \in Members(GroupIndex[m]) :
          /\ next_id[m] <= next_id[j]
          /\ j < m => next_id[m] < next_id[j]

Publish(m) ==
    /\ InTurn(m)
    /\ next_id' = [next_id EXCEPT ![m] = @ + 1]
    /\ published' = [published EXCEPT ![m] = @ \cup {next_id[m]}]
    /\ history' = [history EXCEPT ![m] = Enqueue(@, next_id[m], HistoryCapacity)]
    /\ queue' = IF connected[m]
                THEN [queue EXCEPT ![m] = Enqueue(@, next_id[m], QueueCapacity)]
                ELSE queue
    /\ UNCHANGED <<connected, pc, module, groupVars, decodeVars>>

\* The payload of m could not be allocated: no packet of m carries this id.
MissPacket(m) ==
    /\ InTurn(m)
    /\ next_id' = [next_id EXCEPT ![m] = @ + 1]
    /\ UNCHANGED <<published, history, channelVars, pc, module, groupVars, decodeVars>>

\* The constructor's iox_sub_init takes effect at any later time, per module.
Subscribe(m) ==
    /\ ~connected[m]
    /\ connected' = [connected EXCEPT ![m] = TRUE]
    /\ queue' = [queue EXCEPT ![m] = history[m]]
    /\ UNCHANGED <<publisherVars, pc, module, groupVars, decodeVars>>

------------------------------------------------------------------------------
(* ReceiveEvent: the take loop, one step per module.                        *)

\* A call takes packets only when it has no group left to decode.
ReceiveEvent ==
    /\ pc = "idle"
    /\ pc' = IF has_taken = {} THEN "take" ELSE "decode"
    /\ module' = 0
    /\ UNCHANGED <<publisherVars, channelVars, groupVars, decodeVars>>

NextModule ==
    /\ module' = module + 1
    /\ pc' = IF module + 1 = ModuleNum THEN "check" ELSE "take"

\* The module's packet is still held, or none is waiting.
NothingToTake ==
    /\ pc = "take"
    /\ module < ModuleNum
    /\ held[module] # NoPacket \/ queue[module] = <<>>
    /\ NextModule
    /\ UNCHANGED <<publisherVars, channelVars, groupVars, decodeVars>>

\* iox_sub_take_chunk: the module's head packet, under id k.
TakeChunk(k) ==
    /\ pc = "take"
    /\ module < ModuleNum
    /\ held[module] = NoPacket
    /\ queue[module] # <<>>
    /\ k = Head(queue[module])
    /\ queue' = [queue EXCEPT ![module] = Tail(@)]
    /\ NextModule
    /\ UNCHANGED <<publisherVars, connected, decodeVars>>

\* (mutant) outdated packets are kept
NothingOutDated(g, k) == {}

\* The members of group g whose packet is older than k.
OutDated(g, k) == {i \in Members(g) : held[i] # NoPacket /\ held[i] < k}

\* The id is larger than expected: the other packets of the group are released.
TakeLarger(k) ==
    LET g == GroupIndex[module] IN
    /\ TakeChunk(k)
    /\ k > expect_id[g]
    /\ expect_id' = [expect_id EXCEPT ![g] = k]
    /\ valid_packets' = [valid_packets EXCEPT ![g] = 1]
    /\ held' = [i \in Modules |->
                   IF i = module THEN k
                   ELSE IF i \in OutDated(g, k) THEN NoPacket
                   ELSE held[i]]

\* The id is smaller than expected: the packet itself is released.
TakeSmaller(k) ==
    /\ TakeChunk(k)
    /\ k < expect_id[GroupIndex[module]]
    /\ UNCHANGED groupVars

TakeEqual(k) ==
    LET g == GroupIndex[module] IN
    /\ TakeChunk(k)
    /\ k = expect_id[g]
    /\ valid_packets' = [valid_packets EXCEPT ![g] = @ + 1]
    /\ held' = [held EXCEPT ![module] = k]
    /\ UNCHANGED expect_id

\* (mutant) one member may be missing
CompleteButOne(g) == valid_packets[g] + 1 >= Cardinality(Members(g))

\* group_info_[g].valid_packets == group_info_[g].size
Complete(g) == valid_packets[g] = Cardinality(Members(g))

\* After the take loop: the complete groups are pushed in ascending order.
CheckGroups ==
    /\ pc = "check"
    /\ has_taken' = {g \in Groups : Complete(g)}
    /\ \E n \in [Groups -> 0 .. MaxVectors] :
          vectors' = [g \in Groups |-> IF Complete(g) THEN n[g] ELSE vectors[g]]
    /\ pc' = IF has_taken' = {} THEN "idle" ELSE "decode"
    /\ UNCHANGED <<publisherVars, channelVars, module, groupVars, decoded>>

------------------------------------------------------------------------------
(* ReceiveEvent: the event loop of the group at the back of has_taken_.     *)

\* The vector is filled in ascending order when it is empty.
AtBack(g) == g \in has_taken /\ \A h \in has_taken : h <= g

ReturnEvent(g) ==
    /\ pc = "decode"
    /\ AtBack(g)
    /\ vectors[g] > 0
    /\ vectors' = [vectors EXCEPT ![g] = @ - 1]
    /\ pc' = "idle"
    /\ UNCHANGED <<publisherVars, channelVars, module, groupVars, has_taken, decoded>>

\* (mutant) an id is left out
SkipsOne(g) == expect_id[g] + 2

NextExpected(g) == expect_id[g] + 1

\* No data left: the group's chunks are released and its next id is expected.
CleanGroup(g) ==
    /\ pc = "decode"
    /\ AtBack(g)
    /\ vectors[g] = 0
    /\ held' = [m \in Modules |-> IF m \in Members(g) THEN NoPacket ELSE held[m]]
    /\ valid_packets' = [valid_packets EXCEPT ![g] = 0]
    /\ expect_id' = [expect_id EXCEPT ![g] = NextExpected(g)]
    /\ has_taken' = has_taken \ {g}
    /\ decoded' = [decoded EXCEPT ![g] = @ \cup {expect_id[g]}]
    /\ pc' = "idle"
    /\ UNCHANGED <<publisherVars, channelVars, module, vectors>>

------------------------------------------------------------------------------

Take == NothingToTake \/ \E k \in Ids : TakeLarger(k) \/ TakeSmaller(k) \/ TakeEqual(k)

Decode == \E g \in Groups : ReturnEvent(g) \/ CleanGroup(g)

Receiver == ReceiveEvent \/ Take \/ CheckGroups \/ Decode

Environment == \E m \in Modules : Publish(m) \/ MissPacket(m) \/ Subscribe(m)

Next == Receiver \/ Environment

Spec == Init /\ [][Next]_vars

\* The analysis loop calls ReceiveEvent again and again while it is alive, and
\* iceoryx establishes every subscription; the publisher may stop for ever.
FairSpec ==
    /\ Spec
    /\ WF_vars(Receiver)
    /\ \A m \in Modules : WF_vars(Subscribe(m))

------------------------------------------------------------------------------
(* Properties.                                                              *)

TypeOK ==
    /\ next_id \in [Modules -> 0 .. MaxId + 1]
    /\ published \in [Modules -> SUBSET Ids]
    /\ history \in [Modules -> Seq(Ids)]
    /\ connected \in [Modules -> BOOLEAN]
    /\ queue \in [Modules -> Seq(Ids)]
    /\ pc \in {"idle", "take", "check", "decode"}
    /\ module \in 0 .. ModuleNum
    /\ held \in [Modules -> Ids \cup {NoPacket}]
    /\ expect_id \in [Groups -> 0 .. MaxId + 1]
    /\ valid_packets \in [Groups -> 0 .. ModuleNum]
    /\ has_taken \in SUBSET Groups
    /\ vectors \in [Groups -> 0 .. MaxVectors]
    /\ decoded \in [Groups -> SUBSET Ids]

Holding(g) == {m \in Members(g) : held[m] # NoPacket}

\* valid_packets counts exactly the members that hold a packet, and what they
\* hold carries the expected id: takes, releases and cleaning of three code
\* branches (lines 141-170 and 241-252) keep the count and the pointers together.
Accounting ==
    \A g \in Groups :
        /\ valid_packets[g] = Cardinality(Holding(g))
        /\ \A m \in Holding(g) : held[m] = expect_id[g]

\* A group handed to the event loop has a packet of every member, all under one
\* id: header_[i] is dereferenced there (lines 213, 235, 395) without a check.
DecodedTogether ==
    \A g \in has_taken : \A m \in Members(g) : held[m] = expect_id[g]

\* The receiver implements the group policy: a group is decoded only under ids
\* all its members published, in increasing order and never twice.
Policy == INSTANCE AlignedGroups
GroupPolicy == Policy!Spec

\* m's packet k left the receiver in this step and was not decoded.
Dropped(m, k) ==
    /\ \/ held[m] = k /\ held'[m] = NoPacket
       \/ Len(queue'[m]) < Len(queue[m]) /\ Head(queue[m]) = k /\ held'[m] # k
    /\ k \notin decoded'[GroupIndex[m]]

\* Module j can never deliver its packet k any more.
Gone(j, k) ==
    /\ connected[j] /\ k < next_id[j]
    /\ held[j] # k
    /\ \A i \in DOMAIN queue[j] : queue[j][i] # k

\* The realignment releases a packet without decoding it (lines 145-166) only
\* when another member of the group can no longer deliver that id.
NoNeedlessRelease ==
    [][\A m \in Modules, k \in Ids :
          Dropped(m, k) => \E j \in Members(GroupIndex[m]) \ {m} : Gone(j, k)']_vars

\* However many packets were dropped before, a group whose members all published
\* the last id of the run is decoded under it: the realignment does converge.
LastIdDecoded ==
    \A g \in Groups :
        (\A m \in Members(g) : MaxId \in published[m]) ~> (MaxId \in decoded[g])
==============================================================================
