------------------------- MODULE OnlineReceiver_proofs -------------------------
(***************************************************************************)
(* Theorems about OnlineReceiver, for any number of modules, any grouping, *)
(* any queue and history capacity and any number of packets.               *)
(*                                                                         *)
(* TypeOK, Accounting and DecodedTogether are not inductive one by one:    *)
(* valid_packets stays below the number of modules because it counts       *)
(* them, the count of a group tells which packets are held only together   *)
(* with the ids, and a group under decoding keeps its packets because      *)
(* nothing is taken then.  GroupInv is their inductive conjunction.        *)
(* ReleaseInv adds the order of the queues and what became of the ids that *)
(* were passed over.                                                       *)
(***************************************************************************)
EXTENDS OnlineReceiver, FiniteSetTheorems, TLAPS

\* Packets are taken only when no group is left to decode (line 112).
TakeOnlyWhenEmpty == pc \in {"take", "check"} => has_taken = {}

GroupInv == TypeOK /\ Accounting /\ DecodedTogether /\ TakeOnlyWhenEmpty

------------------------------------------------------------------------------
(* The groups and their members.                                            *)

\* The members of a group are finitely many modules, and there is one.
LEMMA MembersFinite ==
  ASSUME NEW g \in Groups
  PROVE  /\ IsFiniteSet(Modules) /\ Cardinality(Modules) = ModuleNum
         /\ IsFiniteSet(Members(g))
         /\ Members(g) \subseteq Modules /\ Members(g) # {}
         /\ Cardinality(Members(g)) \in Nat
<1>1. IsFiniteSet(Modules) /\ Cardinality(Modules) = ModuleNum
  BY FS_Interval, ReceiverAssumption DEF Modules
<1>2. Members(g) \subseteq Modules /\ Members(g) # {}
  BY DEF Members, Groups
<1>3. IsFiniteSet(Members(g))
  BY <1>1, <1>2, FS_Subset
<1>4. Cardinality(Members(g)) \in Nat
  BY <1>3, FS_CardinalityType
<1> QED
  BY <1>1, <1>2, <1>3, <1>4

\* The group of a module is a group, and the module is a member of it only.
LEMMA GroupOfModule ==
  ASSUME NEW m \in Modules
  PROVE  /\ GroupIndex[m] \in Groups
         /\ \A g \in Groups : m \in Members(g) <=> g = GroupIndex[m]
  BY DEF Groups, Members

\* A count of the members that hold a packet is a number of modules.
LEMMA HoldingFinite ==
  ASSUME NEW g \in Groups
  PROVE  /\ Holding(g) \subseteq Members(g)
         /\ IsFiniteSet(Holding(g))
         /\ Cardinality(Holding(g)) \in 0 .. ModuleNum
<1>1. Holding(g) \subseteq Members(g) /\ Holding(g) \subseteq Modules
  BY MembersFinite DEF Holding
<1>2. IsFiniteSet(Holding(g)) /\ Cardinality(Holding(g)) <= ModuleNum
  BY <1>1, MembersFinite, FS_Subset
<1>3. Cardinality(Holding(g)) \in Nat
  BY <1>2, FS_CardinalityType
<1> QED
  BY <1>1, <1>2, <1>3, ReceiverAssumption

\* A complete group holds a packet of every member.
LEMMA CompleteHolds ==
  ASSUME Accounting, NEW g \in Groups, Complete(g)
  PROVE  \A m \in Members(g) : held[m] # NoPacket /\ held[m] = expect_id[g]
<1>1. Cardinality(Holding(g)) = Cardinality(Members(g))
  BY DEF Accounting, Complete
<1>2. Holding(g) = Members(g)
  BY <1>1, HoldingFinite, MembersFinite, FS_Subset
<1> QED
  BY <1>2 DEF Accounting, Holding

------------------------------------------------------------------------------
(* A queue that drops its oldest element stays a queue of the same things.  *)

LEMMA EnqueueType ==
  ASSUME NEW S, NEW q \in Seq(S), NEW k \in S, NEW capacity \in Nat \ {0}
  PROVE  /\ Enqueue(q, k, capacity) \in Seq(S)
         /\ \A i \in DOMAIN Enqueue(q, k, capacity) :
               \/ Enqueue(q, k, capacity)[i] = k
               \/ \E j \in DOMAIN q : Enqueue(q, k, capacity)[i] = q[j]
<1>1. CASE Len(q) < capacity
  BY <1>1 DEF Enqueue
<1>2. CASE ~ (Len(q) < capacity)
  <2>1. q # <<>> /\ Tail(q) \in Seq(S)
    BY <1>2
  <2>2. Enqueue(q, k, capacity) = Append(Tail(q), k)
    BY <1>2 DEF Enqueue
  <2>3. ASSUME NEW i \in DOMAIN Append(Tail(q), k)
        PROVE  \/ Append(Tail(q), k)[i] = k
               \/ \E j \in DOMAIN q : Append(Tail(q), k)[i] = q[j]
    BY <2>1, <2>3
  <2> QED
    BY <2>1, <2>2, <2>3
<1> QED
  BY <1>1, <1>2

------------------------------------------------------------------------------
(* The group invariant: initial states, the publisher, the take loop.       *)

LEMMA GroupInvInit == Init => GroupInv
<1> SUFFICES ASSUME Init PROVE GroupInv
  OBVIOUS
<1>1. TypeOK
  BY ReceiverAssumption DEF Init, TypeOK, Ids, NoPacket
<1>2. \A g \in Groups : Holding(g) = {}
  BY GroupOfModule DEF Init, Holding, Members
<1>3. Accounting
  BY <1>2, FS_EmptySet DEF Init, Accounting
<1> QED
  BY <1>1, <1>3 DEF Init, GroupInv, DecodedTogether, TakeOnlyWhenEmpty

\* What the publisher and the middleware do leaves the groups alone.
LEMMA GroupInvEnvironment ==
  ASSUME GroupInv, NEW m \in Modules,
         Publish(m) \/ MissPacket(m) \/ Subscribe(m)
  PROVE  GroupInv'
<1> USE DEF GroupInv
<1>1. UNCHANGED <<pc, module, groupVars, decodeVars>>
  BY DEF Publish, MissPacket, Subscribe
<1>2. (Accounting /\ DecodedTogether /\ TakeOnlyWhenEmpty)'
  BY <1>1 DEF groupVars, decodeVars, Accounting, DecodedTogether,
              TakeOnlyWhenEmpty, Holding, Members
<1>3. next_id' \in [Modules -> 0 .. MaxId + 1] /\ published' \in [Modules -> SUBSET Ids]
  <2>1. ASSUME InTurn(m)
        PROVE  next_id[m] \in Ids /\ next_id[m] + 1 \in 0 .. MaxId + 1
    BY <2>1, ReceiverAssumption DEF TypeOK, InTurn, Ids
  <2>2. CASE Publish(m)
    BY <2>1, <2>2 DEF TypeOK, Publish
  <2>3. CASE MissPacket(m)
    BY <2>1, <2>3 DEF TypeOK, MissPacket
  <2>4. CASE Subscribe(m)
    BY <2>4 DEF TypeOK, Subscribe, publisherVars
  <2> QED
    BY <2>2, <2>3, <2>4
<1>4. history' \in [Modules -> Seq(Ids)]
  <2>1. CASE Publish(m)
    <3>1. next_id[m] \in Ids /\ history[m] \in Seq(Ids) /\ HistoryCapacity \in Nat \ {0}
      BY <2>1, ReceiverAssumption DEF TypeOK, Publish, InTurn, Ids
    <3> QED
      BY <2>1, <3>1, EnqueueType DEF Publish, TypeOK
  <2> QED
    BY <2>1 DEF TypeOK, MissPacket, Subscribe, publisherVars
<1>5. queue' \in [Modules -> Seq(Ids)] /\ connected' \in [Modules -> BOOLEAN]
  <2>1. CASE Publish(m)
    <3>1. next_id[m] \in Ids /\ queue[m] \in Seq(Ids) /\ QueueCapacity \in Nat \ {0}
      BY <2>1, ReceiverAssumption DEF TypeOK, Publish, InTurn, Ids
    <3> QED
      BY <2>1, <3>1, EnqueueType DEF Publish, TypeOK
  <2>2. CASE MissPacket(m)
    BY <2>2 DEF MissPacket, channelVars, TypeOK
  <2>3. CASE Subscribe(m)
    BY <2>3 DEF Subscribe, TypeOK
  <2> QED
    BY <2>1, <2>2, <2>3
<1>6. TypeOK'
  BY <1>1, <1>3, <1>4, <1>5 DEF TypeOK, groupVars, decodeVars
<1> QED
  BY <1>2, <1>6

\* A take of a packet keeps the types of everything but the group variables.
LEMMA TakeChunkType ==
  ASSUME GroupInv, NEW k \in Ids, TakeChunk(k)
  PROVE  /\ module \in Modules /\ held[module] = NoPacket
         /\ queue' \in [Modules -> Seq(Ids)]
         /\ module' \in 0 .. ModuleNum
         /\ pc' \in {"take", "check"}
         /\ has_taken = {} /\ has_taken' = {}
         /\ UNCHANGED <<publisherVars, connected, decodeVars>>
<1> USE DEF GroupInv, TypeOK, TakeChunk, NextModule
<1>1. module \in Modules
  BY ReceiverAssumption DEF Modules
<1>2. queue[module] \in Seq(Ids) /\ queue[module] # <<>>
  BY <1>1
<1>3. Tail(queue[module]) \in Seq(Ids)
  BY <1>2
<1>4. queue' \in [Modules -> Seq(Ids)]
  BY <1>1, <1>3
<1>5. module' \in 0 .. ModuleNum /\ pc' \in {"take", "check"}
  BY <1>1, ReceiverAssumption DEF Modules
<1>6. has_taken = {} /\ has_taken' = {}
  BY DEF TakeOnlyWhenEmpty, decodeVars
<1> QED
  BY <1>1, <1>4, <1>5, <1>6

\* The group of the taken module is the only one whose packets change.
LEMMA GroupInvTakeLarger ==
  ASSUME GroupInv, NEW k \in Ids, TakeLarger(k)
  PROVE  GroupInv'
<1>1. TakeChunk(k)
  BY DEF TakeLarger
<1> PICK g \in Groups : g = GroupIndex[module]
  BY <1>1, TakeChunkType, GroupOfModule
<1>2. /\ module \in Modules /\ g = GroupIndex[module]
      /\ held[module] = NoPacket /\ k # NoPacket
  BY <1>1, TakeChunkType, GroupOfModule, ReceiverAssumption DEF Ids, NoPacket
<1>3. /\ held' \in [Modules -> Ids \cup {NoPacket}]
      /\ expect_id' \in [Groups -> 0 .. MaxId + 1]
      /\ valid_packets' \in [Groups -> 0 .. ModuleNum]
  BY <1>2, ReceiverAssumption DEF GroupInv, TypeOK, TakeLarger, Ids
<1>4. TypeOK'
  BY <1>1, <1>3, TakeChunkType
     DEF GroupInv, TypeOK, publisherVars, decodeVars
<1>5. \A m \in Members(g) \ {module} : held'[m] = NoPacket
  <2>1. ASSUME NEW m \in Members(g), held[m] # NoPacket PROVE held[m] < k
    BY <2>1, <1>2 DEF GroupInv, Accounting, Holding, TakeLarger
  <2> QED
    BY <2>1, <1>2 DEF TakeLarger, OutDated, Members
<1>6. Holding(g)' = {module} /\ held'[module] = k
  BY <1>2, <1>5, GroupOfModule DEF Holding, TakeLarger, Members
<1>7. \A h \in Groups \ {g} : Holding(h)' = Holding(h)
                               /\ \A m \in Members(h) : held'[m] = held[m]
  BY <1>2 DEF Holding, TakeLarger, OutDated, Members
<1>8. ASSUME NEW h \in Groups
      PROVE  /\ valid_packets'[h] = Cardinality(Holding(h)')
             /\ \A m \in Holding(h)' : held'[m] = expect_id'[h]
  <2>1. CASE h = g
    BY <2>1, <1>2, <1>6, FS_Singleton DEF GroupInv, TypeOK, TakeLarger
  <2>2. CASE h # g
    <3>1. valid_packets'[h] = valid_packets[h] /\ expect_id'[h] = expect_id[h]
      BY <2>2, <1>2 DEF GroupInv, TypeOK, TakeLarger
    <3> QED
      BY <2>2, <3>1, <1>7 DEF GroupInv, Accounting, Holding
  <2> QED
    BY <2>1, <2>2
<1>9. Accounting'
  BY <1>8 DEF Accounting
<1> QED
  BY <1>1, <1>4, <1>9, TakeChunkType DEF GroupInv, DecodedTogether, TakeOnlyWhenEmpty

LEMMA GroupInvTakeEqual ==
  ASSUME GroupInv, NEW k \in Ids, TakeEqual(k)
  PROVE  GroupInv'
<1>1. TakeChunk(k)
  BY DEF TakeEqual
<1> PICK g \in Groups : g = GroupIndex[module]
  BY <1>1, TakeChunkType, GroupOfModule
<1>2. /\ module \in Modules /\ g = GroupIndex[module]
      /\ held[module] = NoPacket /\ k # NoPacket /\ k = expect_id[g]
  BY <1>1, TakeChunkType, GroupOfModule, ReceiverAssumption
     DEF Ids, NoPacket, TakeEqual
<1>3. held' = [held EXCEPT ![module] = k] /\ expect_id' = expect_id
  BY DEF TakeEqual
<1>4. Holding(g)' = Holding(g) \cup {module} /\ module \notin Holding(g)
  BY <1>2, <1>3, GroupOfModule DEF GroupInv, TypeOK, Holding, Members
<1>5. Cardinality(Holding(g)') = Cardinality(Holding(g)) + 1
  BY <1>2, <1>4, HoldingFinite, FS_AddElement
<1>6. Cardinality(Holding(g)') \in 0 .. ModuleNum
  <2>1. Holding(g)' \subseteq Modules
    BY <1>2, <1>4, HoldingFinite, MembersFinite
  <2>2. Cardinality(Holding(g)') <= ModuleNum
    BY <1>2, <2>1, MembersFinite, FS_Subset
  <2> QED
    BY <1>2, <1>5, <2>2, HoldingFinite, ReceiverAssumption
<1>7. valid_packets' = [valid_packets EXCEPT ![g] = Cardinality(Holding(g)')]
  BY <1>2, <1>5 DEF GroupInv, Accounting, TakeEqual
<1>8. TypeOK'
  <2>1. valid_packets' \in [Groups -> 0 .. ModuleNum]
    BY <1>6, <1>7 DEF GroupInv, TypeOK
  <2>2. held' \in [Modules -> Ids \cup {NoPacket}]
    BY <1>3 DEF GroupInv, TypeOK
  <2> QED
    BY <1>1, <1>3, <2>1, <2>2, TakeChunkType
       DEF GroupInv, TypeOK, publisherVars, decodeVars
<1>9. ASSUME NEW h \in Groups
      PROVE  /\ valid_packets'[h] = Cardinality(Holding(h)')
             /\ \A m \in Holding(h)' : held'[m] = expect_id'[h]
  <2>1. CASE h = g
    BY <2>1, <1>2, <1>3, <1>4, <1>7
       DEF GroupInv, Accounting, TypeOK, Holding, Members
  <2>2. CASE h # g
    <3>1. Holding(h)' = Holding(h) /\ \A m \in Holding(h) : held'[m] = held[m]
      BY <2>2, <1>2, <1>3 DEF GroupInv, TypeOK, Holding, Members
    <3> QED
      BY <2>2, <3>1, <1>2, <1>3, <1>7 DEF GroupInv, Accounting, TypeOK
  <2> QED
    BY <2>1, <2>2
<1>10. Accounting'
  BY <1>9 DEF Accounting
<1> QED
  BY <1>1, <1>8, <1>10, TakeChunkType DEF GroupInv, DecodedTogether, TakeOnlyWhenEmpty

LEMMA GroupInvTakeSmaller ==
  ASSUME GroupInv, NEW k \in Ids, TakeSmaller(k)
  PROVE  GroupInv'
<1>1. TakeChunk(k) /\ UNCHANGED groupVars
  BY DEF TakeSmaller
<1>2. TypeOK'
  BY <1>1, TakeChunkType DEF GroupInv, TypeOK, publisherVars, decodeVars, groupVars
<1>3. Accounting'
  BY <1>1 DEF GroupInv, Accounting, Holding, Members, groupVars
<1> QED
  BY <1>1, <1>2, <1>3, TakeChunkType DEF GroupInv, DecodedTogether, TakeOnlyWhenEmpty

LEMMA GroupInvCheckGroups ==
  ASSUME GroupInv, CheckGroups
  PROVE  GroupInv'
<1> USE DEF GroupInv, CheckGroups
<1>1. UNCHANGED groupVars /\ Accounting'
  BY DEF Accounting, Holding, Members, groupVars
<1>2. vectors' \in [Groups -> 0 .. MaxVectors]
  BY DEF TypeOK
<1>3. TypeOK'
  BY <1>1, <1>2 DEF TypeOK, publisherVars, channelVars, groupVars
<1>4. DecodedTogether'
  BY <1>1, CompleteHolds DEF DecodedTogether, groupVars, Members
<1> QED
  BY <1>1, <1>3, <1>4 DEF TakeOnlyWhenEmpty

LEMMA GroupInvCleanGroup ==
  ASSUME GroupInv, NEW g \in Groups, CleanGroup(g)
  PROVE  GroupInv'
<1> USE DEF GroupInv
<1>1. g \in has_taken /\ expect_id[g] \in Ids
  <2>1. PICK m \in Members(g) : TRUE
    BY MembersFinite
  <2>2. held[m] = expect_id[g] /\ held[m] \in Ids \cup {NoPacket}
    BY <2>1 DEF CleanGroup, NextExpected, AtBack, DecodedTogether, TypeOK, Members
  <2> QED
    BY <2>2 DEF CleanGroup, NextExpected, AtBack, TypeOK, Ids, NoPacket
<1>2. TypeOK'
  <2>1. expect_id' \in [Groups -> 0 .. MaxId + 1]
    BY <1>1, ReceiverAssumption DEF TypeOK, CleanGroup, NextExpected, Ids
  <2>2. held' \in [Modules -> Ids \cup {NoPacket}] /\ valid_packets' \in [Groups -> 0 .. ModuleNum]
    BY ReceiverAssumption DEF TypeOK, CleanGroup
  <2> QED
    BY <1>1, <2>1, <2>2 DEF TypeOK, CleanGroup, publisherVars, channelVars
<1>3. Holding(g)' = {}
  BY MembersFinite DEF Holding, CleanGroup, Members
<1>4. \A h \in Groups \ {g} : Holding(h)' = Holding(h)
                               /\ \A m \in Members(h) : held'[m] = held[m]
  BY DEF Holding, CleanGroup, Members
<1>5. \A h \in Groups \ {g} : valid_packets'[h] = valid_packets[h]
                               /\ expect_id'[h] = expect_id[h]
  BY DEF CleanGroup, NextExpected, TypeOK
<1>6. valid_packets'[g] = 0
  BY DEF CleanGroup, NextExpected, TypeOK
<1>7. Accounting'
  <2> SUFFICES ASSUME NEW h \in Groups
               PROVE  /\ valid_packets'[h] = Cardinality(Holding(h)')
                      /\ \A m \in Holding(h)' : held'[m] = expect_id'[h]
    BY DEF Accounting
  <2>1. CASE h = g
    BY <2>1, <1>3, <1>6, FS_EmptySet
  <2>2. CASE h # g
    BY <2>2, <1>4, <1>5 DEF Accounting, Holding
  <2> QED
    BY <2>1, <2>2
<1>8. DecodedTogether'
  BY <1>4, <1>5 DEF DecodedTogether, CleanGroup, TypeOK, Members
<1>9. TakeOnlyWhenEmpty'
  BY DEF TakeOnlyWhenEmpty, CleanGroup
<1> QED
  BY <1>2, <1>7, <1>8, <1>9

\* A step that leaves the group variables alone keeps what is said of them.
LEMMA GroupsUnchanged ==
  ASSUME Accounting, DecodedTogether, UNCHANGED groupVars, UNCHANGED has_taken
  PROVE  Accounting' /\ DecodedTogether'
  BY DEF Accounting, DecodedTogether, Holding, Members, groupVars

LEMMA GroupInvNext == GroupInv /\ [Next]_vars => GroupInv'
<1> SUFFICES ASSUME GroupInv, [Next]_vars PROVE GroupInv'
  OBVIOUS
<1>1. CASE Environment
  BY <1>1, GroupInvEnvironment DEF Environment
<1>2. CASE ReceiveEvent
  <2>1. Accounting' /\ DecodedTogether'
    BY <1>2, GroupsUnchanged DEF GroupInv, ReceiveEvent, decodeVars
  <2>2. TypeOK'
    BY <1>2, ReceiverAssumption
       DEF GroupInv, TypeOK, ReceiveEvent, publisherVars, channelVars, groupVars, decodeVars
  <2>3. TakeOnlyWhenEmpty'
    BY <1>2 DEF TakeOnlyWhenEmpty, ReceiveEvent, decodeVars
  <2> QED
    BY <2>1, <2>2, <2>3 DEF GroupInv
<1>3. CASE Take
  <2>1. CASE NothingToTake
    <3>1. module' \in 0 .. ModuleNum /\ pc' \in {"take", "check"} /\ has_taken' = {}
      BY <2>1, ReceiverAssumption
         DEF NothingToTake, NextModule, GroupInv, TypeOK, TakeOnlyWhenEmpty, decodeVars
    <3>2. Accounting' /\ DecodedTogether'
      BY <2>1, GroupsUnchanged DEF GroupInv, NothingToTake, decodeVars
    <3>3. TypeOK'
      BY <2>1, <3>1
         DEF GroupInv, TypeOK, NothingToTake, publisherVars, channelVars,
             groupVars, decodeVars
    <3> QED
      BY <3>1, <3>2, <3>3 DEF GroupInv, TakeOnlyWhenEmpty
  <2> QED
    BY <1>3, <2>1, GroupInvTakeLarger, GroupInvTakeEqual, GroupInvTakeSmaller
       DEF Take
<1>4. CASE CheckGroups
  BY <1>4, GroupInvCheckGroups
<1>5. CASE Decode
  <2>1. ASSUME NEW g \in Groups, ReturnEvent(g) PROVE GroupInv'
    <3>1. vectors' \in [Groups -> 0 .. MaxVectors]
      BY <2>1, ReceiverAssumption DEF ReturnEvent, GroupInv, TypeOK
    <3> QED
      BY <2>1, <3>1
         DEF GroupInv, TypeOK, Accounting, DecodedTogether, TakeOnlyWhenEmpty,
             ReturnEvent, Holding, Members, publisherVars, channelVars, groupVars
  <2> QED
    BY <1>5, <2>1, GroupInvCleanGroup DEF Decode
<1>6. CASE UNCHANGED vars
  BY <1>6 DEF GroupInv, TypeOK, Accounting, DecodedTogether, TakeOnlyWhenEmpty,
              Holding, Members, vars, publisherVars, channelVars, groupVars, decodeVars
<1> QED
  BY <1>1, <1>2, <1>3, <1>4, <1>5, <1>6 DEF Next, Receiver

\* The inductive invariant holds of every reachable state.
THEOREM GroupInvariant == Spec => []GroupInv
  BY GroupInvInit, GroupInvNext, PTL DEF Spec

\* The receiver's variables have their types: in particular the counts stay
\* below the number of modules, and the expected id never runs ahead of the
\* publisher by more than one.
THEOREM TypeCorrect == Spec => []TypeOK
<1>1. GroupInv => TypeOK
  BY DEF GroupInv
<1> QED
  BY <1>1, GroupInvariant, PTL

\* valid_packets counts the packets held, and those carry the expected id.
THEOREM AccountingCorrect == Spec => []Accounting
<1>1. GroupInv => Accounting
  BY DEF GroupInv
<1> QED
  BY <1>1, GroupInvariant, PTL

\* A group in the event loop has the packets of all its members, under one id.
THEOREM GroupsDecodedTogether == Spec => []DecodedTogether
<1>1. GroupInv => DecodedTogether
  BY DEF GroupInv
<1> QED
  BY <1>1, GroupInvariant, PTL

------------------------------------------------------------------------------
(* The receiver implements the group policy.                                *)

\* What waits, is replayed or is held was published; ids are given out in
\* increasing order; a group's decoded ids lie below the id it expects.
Origin ==
    /\ \A m \in Modules :
          /\ \A k \in published[m] : k < next_id[m]
          /\ \A i \in DOMAIN history[m] : history[m][i] \in published[m]
          /\ \A i \in DOMAIN queue[m] : queue[m][i] \in published[m]
          /\ held[m] # NoPacket => held[m] \in published[m]
    /\ \A g \in Groups : \A k \in decoded[g] : k < expect_id[g]

PolicyInv == GroupInv /\ Origin

LEMMA OriginInit == Init => Origin
  BY GroupOfModule DEF Init, Origin

\* A packet enters the queue only when it is published.
LEMMA OriginPublish ==
  ASSUME PolicyInv, NEW m \in Modules, Publish(m)
  PROVE  Origin'
<1> USE DEF PolicyInv, GroupInv
<1>1. /\ next_id[m] \in Ids /\ history[m] \in Seq(Ids) /\ queue[m] \in Seq(Ids)
      /\ HistoryCapacity \in Nat \ {0} /\ QueueCapacity \in Nat \ {0}
  BY ReceiverAssumption DEF TypeOK, Publish, InTurn, Ids
<1>2. \A i \in DOMAIN Enqueue(history[m], next_id[m], HistoryCapacity) :
         Enqueue(history[m], next_id[m], HistoryCapacity)[i] \in published'[m]
  BY <1>1, EnqueueType DEF Publish, Origin, TypeOK
<1>3. \A i \in DOMAIN Enqueue(queue[m], next_id[m], QueueCapacity) :
         Enqueue(queue[m], next_id[m], QueueCapacity)[i] \in published'[m]
  BY <1>1, EnqueueType DEF Publish, Origin, TypeOK
<1>4. published'[m] = published[m] \cup {next_id[m]} /\ next_id'[m] = next_id[m] + 1
  BY DEF Publish, TypeOK
<1>5. \A j \in Modules \ {m} : /\ published'[j] = published[j] /\ next_id'[j] = next_id[j]
                                /\ history'[j] = history[j] /\ queue'[j] = queue[j]
  BY DEF Publish, TypeOK
<1>6. history'[m] = Enqueue(history[m], next_id[m], HistoryCapacity)
  BY DEF Publish, TypeOK
<1>7. queue'[m] = Enqueue(queue[m], next_id[m], QueueCapacity) \/ queue'[m] = queue[m]
  BY DEF Publish, TypeOK
<1>8. UNCHANGED <<held, expect_id, decoded>>
  BY DEF Publish, groupVars, decodeVars
<1>9. \A k \in published'[m] : k < next_id'[m]
  BY <1>1, <1>4 DEF Origin, TypeOK, Ids
<1>10. ASSUME NEW j \in Modules
       PROVE  /\ \A k \in published'[j] : k < next_id'[j]
              /\ \A i \in DOMAIN history'[j] : history'[j][i] \in published'[j]
              /\ \A i \in DOMAIN queue'[j] : queue'[j][i] \in published'[j]
              /\ held'[j] # NoPacket => held'[j] \in published'[j]
  <2>1. CASE j = m
    BY <2>1, <1>2, <1>3, <1>4, <1>6, <1>7, <1>8, <1>9 DEF Origin
  <2>2. CASE j # m
    BY <2>2, <1>5, <1>8 DEF Origin
  <2> QED
    BY <2>1, <2>2
<1> QED
  BY <1>8, <1>10 DEF Origin

\* Nothing the receiver takes or releases invents a packet.
LEMMA OriginTake ==
  ASSUME PolicyInv, NEW k \in Ids, TakeLarger(k) \/ TakeSmaller(k) \/ TakeEqual(k)
  PROVE  Origin'
<1> USE DEF PolicyInv, GroupInv
<1>1. TakeChunk(k)
  BY DEF TakeLarger, TakeSmaller, TakeEqual
<1>2. module \in Modules /\ GroupIndex[module] \in Groups
      /\ UNCHANGED <<next_id, published, history, decoded>>
  BY <1>1, TakeChunkType, GroupOfModule DEF publisherVars, decodeVars
<1>3. queue[module] \in Seq(Ids) /\ queue[module] # <<>> /\ k = queue[module][1]
  BY <1>1, <1>2 DEF TypeOK, TakeChunk
<1>4. k \in published[module]
  BY <1>2, <1>3 DEF Origin
<1>5. \A m \in Modules : \A i \in DOMAIN queue'[m] : queue'[m][i] \in published[m]
  <2>1. \A i \in DOMAIN Tail(queue[module]) : Tail(queue[module])[i] \in published[module]
    BY <1>2, <1>3 DEF Origin
  <2> QED
    BY <1>1, <1>2, <2>1 DEF Origin, TakeChunk, TypeOK
<1>6. \A m \in Modules : held'[m] # NoPacket => held'[m] \in published[m]
  <2>1. CASE TakeLarger(k)
    BY <2>1, <1>2, <1>4 DEF TakeLarger, Origin
  <2>2. CASE TakeSmaller(k)
    BY <2>2 DEF TakeSmaller, Origin, groupVars
  <2>3. CASE TakeEqual(k)
    BY <2>3, <1>2, <1>4 DEF TakeEqual, Origin, TypeOK
  <2> QED
    BY <2>1, <2>2, <2>3
<1>7. \A g \in Groups : expect_id'[g] \in Int /\ expect_id[g] <= expect_id'[g]
  <2>1. CASE TakeLarger(k)
    BY <2>1, <1>2 DEF TakeLarger, TypeOK, Ids
  <2> QED
    BY <2>1 DEF TakeSmaller, TakeEqual, groupVars, TypeOK
<1>8. \A g \in Groups : \A j \in decoded'[g] : j < expect_id'[g]
  BY <1>2, <1>7 DEF Origin, TypeOK, Ids
<1> QED
  BY <1>2, <1>5, <1>6, <1>8 DEF Origin

LEMMA OriginCleanGroup ==
  ASSUME PolicyInv, NEW g \in Groups, CleanGroup(g)
  PROVE  Origin'
<1> USE DEF PolicyInv, GroupInv
<1>1. UNCHANGED <<next_id, published, history, queue>>
  BY DEF CleanGroup, NextExpected, publisherVars, channelVars
<1>2. \A m \in Modules : held'[m] # NoPacket => held'[m] = held[m]
  BY DEF CleanGroup, NextExpected
<1>3. \A h \in Groups : \A k \in decoded'[h] : k < expect_id'[h]
  BY DEF CleanGroup, NextExpected, Origin, TypeOK, Ids
<1> QED
  BY <1>1, <1>2, <1>3 DEF Origin

LEMMA PolicyInvNext == PolicyInv /\ [Next]_vars => PolicyInv'
<1> SUFFICES ASSUME PolicyInv, [Next]_vars PROVE Origin'
  BY GroupInvNext DEF PolicyInv
<1>1. ASSUME UNCHANGED <<next_id, published, history, queue, held, expect_id, decoded>>
      PROVE  Origin'
  BY <1>1 DEF PolicyInv, Origin
<1>2. CASE Environment
  <2>1. ASSUME NEW m \in Modules, MissPacket(m) PROVE Origin'
    <3>1. \A j \in Modules : next_id[j] <= next_id'[j] /\ next_id'[j] \in Int
      BY <2>1 DEF PolicyInv, GroupInv, TypeOK, MissPacket
    <3>2. UNCHANGED <<published, history, queue, held, expect_id, decoded>>
      BY <2>1 DEF MissPacket, channelVars, groupVars, decodeVars
    <3>3. \A j \in Modules : \A k \in published[j] : k \in Int /\ next_id[j] \in Int
      BY DEF PolicyInv, GroupInv, TypeOK, Ids
    <3> QED
      BY <3>1, <3>2, <3>3 DEF PolicyInv, Origin
  <2>2. ASSUME NEW m \in Modules, Subscribe(m) PROVE Origin'
    BY <2>2 DEF PolicyInv, GroupInv, TypeOK, Origin, Subscribe, publisherVars,
                groupVars, decodeVars
  <2> QED
    BY <1>2, <2>1, <2>2, OriginPublish DEF Environment
<1>3. CASE Take
  BY <1>1, <1>3, OriginTake
     DEF Take, NothingToTake, publisherVars, channelVars, groupVars, decodeVars
<1>4. CASE Decode
  BY <1>1, <1>4, OriginCleanGroup
     DEF Decode, ReturnEvent, publisherVars, channelVars, groupVars
<1>5. CASE ReceiveEvent \/ CheckGroups \/ UNCHANGED vars
  BY <1>1, <1>5
     DEF ReceiveEvent, CheckGroups, vars, publisherVars, channelVars, groupVars, decodeVars
<1> QED
  BY <1>2, <1>3, <1>4, <1>5 DEF Next, Receiver

\* A step of the receiver is a step of the policy, or does not show in it.
LEMMA PolicyStep == PolicyInv /\ [Next]_vars => [Policy!Next]_(Policy!vars)
<1> SUFFICES ASSUME PolicyInv, [Next]_vars PROVE [Policy!Next]_(Policy!vars)
  OBVIOUS
<1> USE DEF Policy!vars, Policy!Next
<1>1. ASSUME NEW m \in Modules, Publish(m)
      PROVE  Policy!Publish(m, next_id[m]) /\ next_id[m] \in Ids
  BY <1>1 DEF PolicyInv, GroupInv, TypeOK, Origin, Publish, InTurn, Ids,
              Policy!Publish, decodeVars
<1>2. ASSUME NEW g \in Groups, CleanGroup(g)
      PROVE  Policy!DecodeGroup(g, expect_id[g]) /\ expect_id[g] \in Ids
  <2>1. \A m \in Members(g) : held[m] = expect_id[g] /\ m \in Modules
    BY <1>2 DEF CleanGroup, NextExpected, AtBack, PolicyInv, GroupInv, DecodedTogether, Members
  <2>2. expect_id[g] # NoPacket /\ expect_id[g] \in 0 .. MaxId + 1
    BY ReceiverAssumption DEF PolicyInv, GroupInv, TypeOK, NoPacket
  <2>3. \A m \in Members(g) : expect_id[g] \in published[m]
    BY <2>1, <2>2 DEF PolicyInv, Origin
  <2>4. Policy!Members(g) = Members(g)
    BY DEF Policy!Members, Members
  <2>5. expect_id[g] \in Ids
    BY <2>1, <2>3, MembersFinite DEF PolicyInv, GroupInv, TypeOK
  <2> QED
    BY <1>2, <2>3, <2>4, <2>5
       DEF Policy!DecodeGroup, CleanGroup, PolicyInv, Origin, publisherVars
<1>3. ASSUME UNCHANGED <<published, decoded>>
      PROVE  UNCHANGED Policy!vars
  BY <1>3
<1>4. CASE Environment
  BY <1>1, <1>3, <1>4 DEF Environment, MissPacket, Subscribe, publisherVars, decodeVars
<1>5. CASE Take
  BY <1>3, <1>5 DEF Take, NothingToTake, TakeLarger, TakeSmaller, TakeEqual, TakeChunk,
                    publisherVars, decodeVars
<1>6. CASE Decode
  BY <1>2, <1>3, <1>6 DEF Decode, ReturnEvent, publisherVars
<1>7. CASE ReceiveEvent \/ CheckGroups \/ UNCHANGED vars
  BY <1>3, <1>7 DEF ReceiveEvent, CheckGroups, vars, publisherVars, decodeVars
<1> QED
  BY <1>4, <1>5, <1>6, <1>7 DEF Next, Receiver

\* ReceiveEvent implements the group policy: a group is decoded only under an
\* id every member published, and under increasing ids, whatever the queues
\* dropped and however the publisher and the receiver interleave.
THEOREM ImplementsPolicy == Spec => GroupPolicy
<1>1. Init => PolicyInv
  BY GroupInvInit, OriginInit DEF PolicyInv
<1>2. Init => Policy!Init
  BY DEF Init, Policy!Init
<1> QED
  BY <1>1, <1>2, PolicyInvNext, PolicyStep, PTL DEF Spec, GroupPolicy, Policy!Spec

------------------------------------------------------------------------------
(* No packet is released that could still be matched.                       *)

\* The ids of a queue grow from its head to its tail.
Increasing(q) == \A i, j \in DOMAIN q : i < j => q[i] < q[j]

\* A module's packets wait in the order they were published in, and none waits
\* before the subscription is established.
QueuesInOrder ==
    \A m \in Modules :
        /\ Increasing(queue[m]) /\ Increasing(history[m])
        /\ ~connected[m] => queue[m] = <<>>

\* An id that is no longer expected was decoded, or some member cannot deliver it.
PassedOver ==
    \A g \in Groups, k \in Ids :
        k < expect_id[g] /\ k \notin decoded[g] => \E j \in Members(g) : Gone(j, k)

ReleaseInv == PolicyInv /\ QueuesInOrder /\ PassedOver

\* Whatever a full queue drops, it stays in order.
LEMMA EnqueueIncreasing ==
  ASSUME NEW q \in Seq(Ids), NEW n \in Nat, NEW capacity \in Nat \ {0},
         Increasing(q), \A i \in DOMAIN q : q[i] < n
  PROVE  /\ Increasing(Enqueue(q, n, capacity))
         /\ Len(Enqueue(q, n, capacity)) >= Len(q)
<1>1. CASE Len(q) < capacity
  <2>1. Enqueue(q, n, capacity) = Append(q, n)
    BY <1>1 DEF Enqueue
  <2>2. /\ Len(Append(q, n)) = Len(q) + 1 /\ DOMAIN q = 1 .. Len(q)
        /\ DOMAIN Append(q, n) = 1 .. Len(q) + 1 /\ Len(q) \in Nat
        /\ \A i \in 1 .. Len(q) : Append(q, n)[i] = q[i]
        /\ Append(q, n)[Len(q) + 1] = n
    OBVIOUS
  <2>3. Increasing(Append(q, n))
    BY <2>2 DEF Increasing
  <2> QED
    BY <2>1, <2>2, <2>3
<1>2. CASE ~ (Len(q) < capacity)
  <2>1. Enqueue(q, n, capacity) = Append(Tail(q), n) /\ q # <<>>
    BY <1>2 DEF Enqueue
  <2>. DEFINE r == Tail(q)
  <2>2. /\ r \in Seq(Ids) /\ Len(r) = Len(q) - 1 /\ Len(q) \in Nat \ {0}
        /\ DOMAIN q = 1 .. Len(q) /\ DOMAIN r = 1 .. Len(r)
        /\ \A i \in 1 .. Len(r) : r[i] = q[i + 1]
    BY <2>1
  <2>3. /\ Len(Append(r, n)) = Len(r) + 1
        /\ DOMAIN Append(r, n) = 1 .. Len(r) + 1 /\ Len(r) \in Nat
        /\ \A i \in 1 .. Len(r) : Append(r, n)[i] = r[i]
        /\ Append(r, n)[Len(r) + 1] = n
    BY <2>2
  <2>. HIDE DEF r
  <2>4. ASSUME NEW i \in DOMAIN Append(r, n), NEW j \in DOMAIN Append(r, n), i < j
        PROVE  Append(r, n)[i] < Append(r, n)[j]
    <3>1. Append(r, n)[i] = q[i + 1] /\ i + 1 \in DOMAIN q
      BY <2>2, <2>3, <2>4
    <3>2. CASE j = Len(r) + 1
      BY <2>3, <3>1, <3>2
    <3>3. CASE j # Len(r) + 1
      <4>1. Append(r, n)[j] = q[j + 1] /\ j + 1 \in DOMAIN q
        BY <2>2, <2>3, <2>4, <3>3
      <4>2. i + 1 < j + 1
        BY <2>2, <2>3, <2>4
      <4> QED
        BY <3>1, <4>1, <4>2 DEF Increasing
    <3> QED
      BY <3>2, <3>3
  <2>5. Increasing(Append(r, n))
    BY <2>4 DEF Increasing
  <2> QED
    BY <2>1, <2>2, <2>3, <2>5 DEF r
<1> QED
  BY <1>1, <1>2

\* What is left of a queue when its head was taken.
LEMMA TailIncreasing ==
  ASSUME NEW q \in Seq(Ids), q # <<>>, Increasing(q)
  PROVE  /\ Increasing(Tail(q))
         /\ Head(q) \in Ids
         /\ \A i \in DOMAIN Tail(q) : Tail(q)[i] > Head(q) /\ \E j \in DOMAIN q : Tail(q)[i] = q[j]
<1>. DEFINE r == Tail(q)
<1>1. /\ Len(r) = Len(q) - 1 /\ Len(q) \in Nat \ {0}
      /\ DOMAIN q = 1 .. Len(q) /\ DOMAIN r = 1 .. Len(r)
      /\ \A i \in 1 .. Len(r) : r[i] = q[i + 1]
      /\ Head(q) = q[1]
  OBVIOUS
<1>2. \A i \in 1 .. Len(q) : q[i] \in Ids /\ q[i] \in Int
  <2>1. \A i \in 1 .. Len(q) : q[i] \in Ids
    BY <1>1
  <2>2. Ids \subseteq Int
    BY DEF Ids
  <2> QED
    BY <2>1, <2>2
<1>. HIDE DEF r
<1>3. ASSUME NEW i \in DOMAIN r
      PROVE  r[i] > Head(q) /\ \E j \in DOMAIN q : r[i] = q[j]
  <2>1. i + 1 \in DOMAIN q /\ 1 \in DOMAIN q /\ 1 < i + 1 /\ r[i] = q[i + 1]
    BY <1>1, <1>3
  <2>2. q[1] < q[i + 1]
    BY <2>1 DEF Increasing
  <2> QED
    BY <1>1, <1>2, <2>1, <2>2
<1>4. Increasing(r)
  <2> SUFFICES ASSUME NEW i \in DOMAIN r, NEW j \in DOMAIN r, i < j
               PROVE  r[i] < r[j]
    BY DEF Increasing
  <2>1. i + 1 \in DOMAIN q /\ j + 1 \in DOMAIN q /\ i + 1 < j + 1
    BY <1>1
  <2>2. q[i + 1] < q[j + 1]
    BY <2>1 DEF Increasing
  <2> QED
    BY <1>1, <2>2
<1>5. Head(q) \in Ids
  BY <1>1, <1>2
<1> QED
  BY <1>3, <1>4, <1>5 DEF r

LEMMA ReleaseInit == Init => QueuesInOrder /\ PassedOver
<1> SUFFICES ASSUME Init PROVE QueuesInOrder /\ PassedOver
  OBVIOUS
<1>1. Increasing(<<>>)
  BY DEF Increasing
<1>2. QueuesInOrder
  BY <1>1 DEF Init, QueuesInOrder
<1>3. \A g \in Groups : expect_id[g] = 0
  BY DEF Init
<1>4. \A k \in Ids : ~(k < 0)
  BY DEF Ids
<1> QED
  BY <1>2, <1>3, <1>4 DEF PassedOver

\* What waits, and what a member may still publish, is below or from its next id.
LEMMA WaitingBelow ==
  ASSUME PolicyInv, NEW m \in Modules
  PROVE  /\ next_id[m] \in Nat
         /\ queue[m] \in Seq(Ids) /\ history[m] \in Seq(Ids)
         /\ \A i \in DOMAIN queue[m] : queue[m][i] < next_id[m]
         /\ \A i \in DOMAIN history[m] : history[m][i] < next_id[m]
  BY ReceiverAssumption DEF PolicyInv, GroupInv, TypeOK, Origin

\* What a step may do to a module's packets, in the queue, in the history and held.
ModuleStep(j) ==
    /\ connected[j] => connected'[j]
    /\ next_id[j] <= next_id'[j]
    /\ \/ queue'[j] = queue[j]
       \/ queue[j] # <<>> /\ queue'[j] = Tail(queue[j])
       \/ /\ connected[j] /\ next_id[j] < next_id'[j]
          /\ queue'[j] = Enqueue(queue[j], next_id[j], QueueCapacity)
       \/ ~connected[j] /\ connected'[j] /\ queue'[j] = history[j]
    /\ \/ history'[j] = history[j]
       \/ history'[j] = Enqueue(history[j], next_id[j], HistoryCapacity)
    /\ \/ held'[j] \in {held[j], NoPacket}
       \/ queue[j] # <<>> /\ held'[j] = Head(queue[j])

LEMMA ModuleStepTake ==
  ASSUME PolicyInv, NEW k \in Ids, TakeLarger(k) \/ TakeSmaller(k) \/ TakeEqual(k), NEW j \in Modules
  PROVE  ModuleStep(j)
<1> USE DEF PolicyInv, GroupInv
<1>1. TakeChunk(k)
  BY DEF TakeLarger, TakeSmaller, TakeEqual
<1>2. /\ module \in Modules /\ queue[module] # <<>> /\ k = Head(queue[module])
      /\ UNCHANGED <<connected, next_id, history>>
      /\ queue'[module] = Tail(queue[module])
      /\ \A i \in Modules \ {module} : queue'[i] = queue[i]
  BY <1>1, TakeChunkType DEF TakeChunk, TypeOK, publisherVars
<1>3. held'[j] \in {held[j], NoPacket} \/ (j = module /\ held'[j] = k)
  BY <1>2 DEF TakeLarger, TakeSmaller, TakeEqual, groupVars, TypeOK
<1>4. next_id[j] <= next_id'[j]
  BY <1>2, WaitingBelow
<1> QED
  BY <1>2, <1>3, <1>4 DEF ModuleStep

LEMMA ModuleStepNext ==
  ASSUME PolicyInv, [Next]_vars, NEW j \in Modules
  PROVE  ModuleStep(j)
<1>1. next_id[j] \in Nat
  BY WaitingBelow
<1>2. ASSUME UNCHANGED <<next_id, history, connected, queue>>,
             held'[j] \in {held[j], NoPacket}
      PROVE  ModuleStep(j)
  BY <1>1, <1>2 DEF ModuleStep
<1>3. CASE Environment
  <2> PICK m \in Modules : Publish(m) \/ MissPacket(m) \/ Subscribe(m)
    BY <1>3 DEF Environment
  <2>1. UNCHANGED held
    BY DEF Publish, MissPacket, Subscribe, groupVars
  <2>2. CASE Publish(m)
    BY <1>1, <2>1, <2>2 DEF Publish, ModuleStep, PolicyInv, GroupInv, TypeOK
  <2>3. CASE MissPacket(m)
    BY <1>1, <2>1, <2>3 DEF MissPacket, ModuleStep, PolicyInv, GroupInv, TypeOK, channelVars
  <2>4. CASE Subscribe(m)
    BY <1>1, <2>1, <2>4 DEF Subscribe, ModuleStep, PolicyInv, GroupInv, TypeOK, publisherVars
  <2> QED
    BY <2>2, <2>3, <2>4
<1>4. CASE Take
  BY <1>2, <1>4, ModuleStepTake
     DEF Take, NothingToTake, publisherVars, channelVars, groupVars
<1>5. CASE Decode
  BY <1>2, <1>5 DEF Decode, ReturnEvent, CleanGroup, publisherVars, channelVars, groupVars
<1>6. CASE ReceiveEvent \/ CheckGroups \/ UNCHANGED vars
  BY <1>2, <1>6
     DEF ReceiveEvent, CheckGroups, vars, publisherVars, channelVars, groupVars
<1> QED
  BY <1>3, <1>4, <1>5, <1>6 DEF Next, Receiver

\* What a step may do to a group: its ids go on by a decoded one, or by a larger one taken.
GroupStep(g) ==
    /\ decoded[g] \subseteq decoded'[g]
    /\ \/ expect_id'[g] = expect_id[g]
       \/ CleanGroup(g)
       \/ \E k \in Ids : TakeLarger(k) /\ g = GroupIndex[module]

LEMMA GroupStepNext ==
  ASSUME PolicyInv, [Next]_vars, NEW g \in Groups
  PROVE  GroupStep(g)
<1>1. ASSUME UNCHANGED <<expect_id, decoded>> PROVE GroupStep(g)
  BY <1>1 DEF GroupStep
<1>2. ASSUME NEW k \in Ids, TakeLarger(k) PROVE GroupStep(g)
  BY <1>2 DEF GroupStep, TakeLarger, TakeChunk, decodeVars, PolicyInv, GroupInv, TypeOK
<1>3. ASSUME NEW h \in Groups, CleanGroup(h) PROVE GroupStep(g)
  <2>1. CASE h = g
    BY <1>3, <2>1 DEF GroupStep, CleanGroup, PolicyInv, GroupInv, TypeOK
  <2>2. CASE h # g
    BY <1>3, <2>2 DEF GroupStep, CleanGroup, PolicyInv, GroupInv, TypeOK
  <2> QED
    BY <2>1, <2>2
<1>4. CASE Environment
  BY <1>1, <1>4 DEF Environment, Publish, MissPacket, Subscribe, groupVars, decodeVars
<1>5. CASE Take
  BY <1>1, <1>2, <1>5
     DEF Take, NothingToTake, TakeSmaller, TakeEqual, TakeChunk, groupVars, decodeVars
<1>6. CASE Decode
  BY <1>1, <1>3, <1>6 DEF Decode, ReturnEvent, groupVars
<1>7. CASE ReceiveEvent \/ CheckGroups \/ UNCHANGED vars
  BY <1>1, <1>7 DEF ReceiveEvent, CheckGroups, vars, groupVars, decodeVars
<1> QED
  BY <1>4, <1>5, <1>6, <1>7 DEF Next, Receiver

LEMMA QueuesStayInOrder ==
  ASSUME PolicyInv, QueuesInOrder, [Next]_vars
  PROVE  QueuesInOrder'
<1> SUFFICES ASSUME NEW j \in Modules
             PROVE  /\ Increasing(queue'[j]) /\ Increasing(history'[j])
                    /\ ~connected'[j] => queue'[j] = <<>>
  BY DEF QueuesInOrder, Increasing
<1>1. ModuleStep(j)
  BY ModuleStepNext
<1>2. Increasing(queue[j]) /\ Increasing(history[j]) /\ (~connected[j] => queue[j] = <<>>)
  BY DEF QueuesInOrder
<1>3. HistoryCapacity \in Nat \ {0} /\ QueueCapacity \in Nat \ {0}
  BY ReceiverAssumption
<1>4. /\ Increasing(Enqueue(queue[j], next_id[j], QueueCapacity))
      /\ Increasing(Enqueue(history[j], next_id[j], HistoryCapacity))
  BY <1>2, <1>3, WaitingBelow, EnqueueIncreasing
<1>5. queue[j] # <<>> => Increasing(Tail(queue[j]))
  BY <1>2, WaitingBelow, TailIncreasing
<1> QED
  BY <1>1, <1>2, <1>4, <1>5 DEF ModuleStep

\* A member that cannot deliver an id will never be able to.
LEMMA GoneStays ==
  ASSUME PolicyInv, QueuesInOrder, [Next]_vars, NEW j \in Modules, NEW k \in Ids, Gone(j, k)
  PROVE  Gone(j, k)'
<1>1. ModuleStep(j)
  BY ModuleStepNext
<1>2. /\ connected[j] /\ k < next_id[j] /\ held[j] # k
      /\ \A i \in DOMAIN queue[j] : queue[j][i] # k
  BY DEF Gone
<1>3. next_id[j] \in Nat /\ next_id'[j] \in Int /\ k \in Nat /\ k # NoPacket
  <2>1. PolicyInv'
    BY PolicyInvNext
  <2> QED
    BY <2>1, WaitingBelow, ReceiverAssumption DEF PolicyInv, GroupInv, TypeOK, Ids, NoPacket
<1>4. queue[j] \in Seq(Ids) /\ Increasing(queue[j])
  BY WaitingBelow DEF QueuesInOrder
<1>5. held'[j] # k
  <2>1. queue[j] # <<>> => Head(queue[j]) # k
    BY <1>2, <1>4
  <2> QED
    BY <1>1, <1>2, <1>3, <2>1 DEF ModuleStep
<1>6. \A i \in DOMAIN queue'[j] : queue'[j][i] # k
  <2>1. queue[j] # <<>> => \A i \in DOMAIN Tail(queue[j]) : Tail(queue[j])[i] # k
    BY <1>2, <1>4, TailIncreasing
  <2>2. next_id[j] \in Ids =>
           \A i \in DOMAIN Enqueue(queue[j], next_id[j], QueueCapacity) :
              Enqueue(queue[j], next_id[j], QueueCapacity)[i] # k
    <3>1. next_id[j] # k /\ QueueCapacity \in Nat \ {0}
      BY <1>2, <1>3, ReceiverAssumption
    <3>2. next_id[j] \in Ids =>
             \A i \in DOMAIN Enqueue(queue[j], next_id[j], QueueCapacity) :
                \/ Enqueue(queue[j], next_id[j], QueueCapacity)[i] = next_id[j]
                \/ \E n \in DOMAIN queue[j] :
                      Enqueue(queue[j], next_id[j], QueueCapacity)[i] = queue[j][n]
      BY <1>4, <3>1, EnqueueType
    <3> QED
      BY <1>2, <3>1, <3>2
  <2>3. next_id[j] < next_id'[j] => next_id[j] \in Ids
    <3>1. next_id'[j] \in 0 .. MaxId + 1
      BY PolicyInvNext DEF PolicyInv, GroupInv, TypeOK
    <3> QED
      BY <1>3, <3>1, ReceiverAssumption DEF Ids
  <2> QED
    BY <1>1, <1>2, <2>1, <2>2, <2>3 DEF ModuleStep
<1> QED
  BY <1>1, <1>2, <1>3, <1>5, <1>6 DEF ModuleStep, Gone

\* The module whose larger id was taken has nothing older left.
LEMMA TakenBeyond ==
  ASSUME ReleaseInv, [Next]_vars, NEW n \in Ids, TakeLarger(n), NEW k \in Ids, k < n,
         NEW m \in Modules, m = module
  PROVE  Gone(m, k)'
<1> USE DEF ReleaseInv, PolicyInv, GroupInv
<1>1. TakeChunk(n)
  BY DEF TakeLarger
<1>2. /\ queue[m] # <<>> /\ n = Head(queue[m])
      /\ queue'[m] = Tail(queue[m]) /\ held'[m] = n
      /\ UNCHANGED <<connected, next_id>>
  BY <1>1, TakeChunkType DEF TakeChunk, TakeLarger, TypeOK, publisherVars
<1>3. queue[m] \in Seq(Ids) /\ Increasing(queue[m]) /\ connected[m]
  BY <1>2, WaitingBelow DEF QueuesInOrder
<1>4. \A i \in DOMAIN queue'[m] : queue'[m][i] > n /\ queue'[m][i] \in Int
  <2>1. \A i \in DOMAIN Tail(queue[m]) :
           Tail(queue[m])[i] > n /\ \E j \in DOMAIN queue[m] : Tail(queue[m])[i] = queue[m][j]
    BY <1>2, <1>3, TailIncreasing
  <2>2. \A j \in DOMAIN queue[m] : queue[m][j] \in Int
    <3>1. \A j \in DOMAIN queue[m] : queue[m][j] \in Ids
      BY <1>3
    <3>2. Ids \subseteq Int
      BY DEF Ids
    <3> QED
      BY <3>1, <3>2
  <2> QED
    BY <1>2, <2>1, <2>2
<1>5. n < next_id[m] /\ next_id[m] \in Nat
  <2>1. 1 \in DOMAIN queue[m] /\ n = queue[m][1]
    BY <1>2, <1>3
  <2> QED
    BY <1>2, <2>1, WaitingBelow
<1>6. k \in Int /\ n \in Int
  BY DEF Ids
<1>7. \A i \in DOMAIN queue'[m] : queue'[m][i] # k
  BY <1>4, <1>6
<1> QED
  BY <1>2, <1>3, <1>5, <1>6, <1>7 DEF Gone

LEMMA PassedOverStep ==
  ASSUME ReleaseInv, [Next]_vars
  PROVE  PassedOver'
<1> SUFFICES ASSUME NEW g \in Groups, NEW k \in Ids, k < expect_id'[g], k \notin decoded'[g]
             PROVE  \E j \in Members(g) : Gone(j, k)'
  BY DEF PassedOver, Members
<1>1. GroupStep(g)
  BY GroupStepNext DEF ReleaseInv
<1>2. Members(g) \subseteq Modules
  BY MembersFinite
<1>3. k \in Int /\ expect_id[g] \in Int
  BY DEF ReleaseInv, PolicyInv, GroupInv, TypeOK, Ids
<1>4. CASE k < expect_id[g]
  <2>1. PICK j \in Members(g) : Gone(j, k)
    BY <1>1, <1>4 DEF GroupStep, ReleaseInv, PassedOver
  <2>2. Gone(j, k)'
    BY <1>2, <2>1, GoneStays DEF ReleaseInv
  <2> QED
    BY <2>2
<1>5. CASE ~ (k < expect_id[g])
  <2>1. CASE CleanGroup(g)
    <3>1. expect_id'[g] = expect_id[g] + 1 /\ expect_id[g] \in decoded'[g]
      BY <2>1 DEF CleanGroup, NextExpected, ReleaseInv, PolicyInv, GroupInv, TypeOK
    <3>2. k = expect_id[g]
      BY <1>3, <1>5, <3>1
    <3> QED
      BY <3>1, <3>2
  <2>2. ASSUME NEW n \in Ids, TakeLarger(n), g = GroupIndex[module]
        PROVE  \E j \in Members(g) : Gone(j, k)'
    <3>1. expect_id'[g] = n
      BY <2>2 DEF TakeLarger, ReleaseInv, PolicyInv, GroupInv, TypeOK
    <3>2. PICK m \in Modules : m = module
      BY <2>2, TakeChunkType DEF TakeLarger, ReleaseInv, PolicyInv
    <3>3. m \in Members(g)
      BY <2>2, <3>2 DEF Members
    <3>4. k < n
      BY <3>1
    <3>5. Gone(m, k)'
      BY <2>2, <3>2, <3>4, TakenBeyond
    <3> QED
      BY <3>3, <3>5
  <2> QED
    BY <1>1, <1>5, <2>1, <2>2 DEF GroupStep
<1> QED
  BY <1>4, <1>5

LEMMA ReleaseInvariant == Spec => []ReleaseInv
<1>1. Init => ReleaseInv
  BY GroupInvInit, OriginInit, ReleaseInit DEF PolicyInv, ReleaseInv
<1>2. ReleaseInv /\ [Next]_vars => ReleaseInv'
  BY PolicyInvNext, QueuesStayInOrder, PassedOverStep DEF ReleaseInv
<1> QED
  BY <1>1, <1>2, PTL DEF Spec

\* A packet that was held and is released undecoded gave way to a larger id of a
\* partner (lines 145-158).
LEMMA HeldReleased ==
  ASSUME ReleaseInv, [Next]_vars, NEW m \in Modules, NEW k \in Ids,
         held[m] = k, held'[m] = NoPacket, k \notin decoded'[GroupIndex[m]]
  PROVE  \E j \in Members(GroupIndex[m]) \ {m} : Gone(j, k)'
<1> USE DEF ReleaseInv, PolicyInv, GroupInv
<1>1. k # NoPacket /\ held'[m] # held[m]
  BY ReceiverAssumption DEF Ids, NoPacket
<1>2. ASSUME NEW g \in Groups, CleanGroup(g) PROVE FALSE
  <2>1. m \in Members(g) /\ g = GroupIndex[m]
    BY <1>1, <1>2, GroupOfModule DEF CleanGroup
  <2>2. k = expect_id[g]
    BY <1>1, <2>1 DEF Accounting, Holding
  <2> QED
    BY <1>2, <2>1, <2>2 DEF CleanGroup, TypeOK
<1>3. PICK n \in Ids : TakeLarger(n)
  <2>1. held' # held
    BY <1>1
  <2>2. ~Environment
    BY <2>1 DEF Environment, Publish, MissPacket, Subscribe, groupVars
  <2>3. ASSUME NEW n \in Ids, TakeEqual(n) PROVE FALSE
    <3>1. module \in Modules /\ held[module] = NoPacket
      BY <2>3, TakeChunkType DEF TakeEqual
    <3>2. m # module
      BY <1>1, <3>1
    <3> QED
      BY <1>1, <2>3, <3>2 DEF TakeEqual, TypeOK
  <2>4. Take
    BY <1>2, <2>1, <2>2
       DEF Next, Receiver, ReceiveEvent, CheckGroups, Decode, ReturnEvent, vars, groupVars
  <2> QED
    BY <2>1, <2>3, <2>4 DEF Take, NothingToTake, TakeSmaller, groupVars
<1>4. /\ m # module /\ m \in Members(GroupIndex[module]) /\ k < n
  <2>1. module \in Modules /\ held'[module] = n /\ n # NoPacket
    BY <1>3, TakeChunkType, ReceiverAssumption DEF TakeLarger, TypeOK, Ids, NoPacket
  <2>2. m # module
    BY <2>1
  <2> QED
    BY <1>1, <1>3, <2>2 DEF TakeLarger, OutDated
<1>5. PICK j \in Modules : j = module
  BY <1>3, TakeChunkType DEF TakeLarger
<1>6. Gone(j, k)'
  BY <1>3, <1>4, <1>5, TakenBeyond
<1>7. j \in Members(GroupIndex[m]) \ {m}
  BY <1>4, <1>5 DEF Members
<1> QED
  BY <1>6, <1>7

\* A packet that is released as soon as it is taken is older than what is
\* expected (lines 160-166).
LEMMA TakenReleased ==
  ASSUME ReleaseInv, [Next]_vars, NEW m \in Modules, NEW k \in Ids,
         Len(queue'[m]) < Len(queue[m]), Head(queue[m]) = k, held'[m] # k,
         k \notin decoded'[GroupIndex[m]]
  PROVE  \E j \in Members(GroupIndex[m]) \ {m} : Gone(j, k)'
<1> USE DEF ReleaseInv, PolicyInv, GroupInv
<1>1. queue'[m] # queue[m] /\ Len(queue[m]) \in Nat
  BY WaitingBelow
<1>2. ~Environment
  <2>1. ASSUME NEW i \in Modules, Publish(i) PROVE FALSE
    <3>1. /\ QueueCapacity \in Nat \ {0} /\ Increasing(queue[m])
      BY ReceiverAssumption DEF QueuesInOrder
    <3>2. Len(Enqueue(queue[m], next_id[m], QueueCapacity)) >= Len(queue[m])
      BY <3>1, WaitingBelow, EnqueueIncreasing
    <3>3. queue'[m] = Enqueue(queue[m], next_id[m], QueueCapacity)
      BY <1>1, <2>1 DEF Publish, TypeOK
    <3>4. queue'[m] \in Seq(Ids)
      BY PolicyInvNext, WaitingBelow DEF TypeOK
    <3>5. Len(queue'[m]) \in Nat
      BY <3>4
    <3> QED
      BY <1>1, <3>2, <3>3, <3>5
  <2>2. ASSUME NEW i \in Modules, Subscribe(i) PROVE FALSE
    <3>1. i = m /\ ~connected[m] /\ queue'[m] = history[m]
      BY <1>1, <2>2 DEF Subscribe, TypeOK
    <3>2. queue[m] = <<>>
      BY <3>1 DEF QueuesInOrder
    <3>3. Len(queue[m]) = 0 /\ Len(history[m]) \in Nat
      BY <3>2, WaitingBelow
    <3> QED
      BY <3>1, <3>3
  <2>3. ASSUME NEW i \in Modules, MissPacket(i) PROVE FALSE
    BY <1>1, <2>3 DEF MissPacket, channelVars
  <2> QED
    BY <2>1, <2>2, <2>3 DEF Environment
<1>3. Take
  BY <1>1, <1>2
     DEF Next, Receiver, ReceiveEvent, CheckGroups, Decode, ReturnEvent, CleanGroup, vars, channelVars
<1>4. PICK n \in Ids : TakeLarger(n) \/ TakeSmaller(n) \/ TakeEqual(n)
  BY <1>1, <1>3 DEF Take, NothingToTake, channelVars
<1>5. TakeChunk(n)
  BY <1>4 DEF TakeLarger, TakeSmaller, TakeEqual
<1>6. m = module /\ n = k /\ queue[m] # <<>>
  <2>1. m = module
    BY <1>1, <1>5, TakeChunkType DEF TakeChunk, TypeOK
  <2> QED
    BY <1>5, <2>1 DEF TakeChunk
<1>7. TakeSmaller(k)
  BY <1>4, <1>6 DEF TakeLarger, TakeEqual, TypeOK
<1>. DEFINE g == GroupIndex[m]
<1>8. g \in Groups /\ m \in Members(g)
  BY GroupOfModule
<1>9. k < expect_id[g] /\ k \notin decoded[g]
  BY <1>6, <1>7, <1>8, GroupStepNext DEF TakeSmaller, GroupStep
<1>10. PICK j \in Members(g) : Gone(j, k)
  BY <1>8, <1>9 DEF PassedOver
<1>11. j # m
  <2>1. 1 \in DOMAIN queue[m] /\ queue[m][1] = k
    BY <1>6, WaitingBelow
  <2> QED
    BY <1>10, <2>1 DEF Gone
<1>12. Gone(j, k)'
  BY <1>8, <1>10, MembersFinite, GoneStays
<1> QED
  BY <1>10, <1>11, <1>12

\* The realignment never gives up a packet that could still be matched: what it
\* releases undecoded lacks a partner that is lost for good, whatever the queues
\* dropped, the publisher missed and the subscriptions were late.
THEOREM NothingReleasedInVain == Spec => NoNeedlessRelease
<1>1. ReleaseInv /\ [Next]_vars =>
         [\A m \in Modules, k \in Ids :
             Dropped(m, k) => \E j \in Members(GroupIndex[m]) \ {m} : Gone(j, k)']_vars
  BY HeldReleased, TakenReleased DEF Dropped
<1> QED
  BY <1>1, ReleaseInvariant, PTL DEF Spec, NoNeedlessRelease
==============================================================================
