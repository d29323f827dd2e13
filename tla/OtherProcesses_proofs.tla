------------------------ MODULE OtherProcesses_proofs ------------------------
(***************************************************************************)
(* Proofs about what other processes get from the DAQ: the monitor and the *)
(* decoder from its shared memory (SharedMemory, for any number of modules *)
(* and any bounds), and a user's program from the file that names the run  *)
(* (OnlineProgram, for any canvases, vectors, groups and runs).            *)
(***************************************************************************)
EXTENDS SharedMemory, OnlineProgram, TLAPS, SequenceTheorems

------------------------------------------------------------------------------
(* SharedMemory.  The semaphore and the words of the modules are two       *)
(* independent protocols: StatisticsInv is the invariant of the first,     *)
(* BufferInv and TurnInv of the second.                                    *)

Id == [run : Nat, number : Nat]
Pair == [first : Id, rest : Id]

Types ==
    /\ TypeOK
    /\ snapshot \in Seq(Nat) /\ (monitor = "reading" => snapshot # <<>>)
    /\ buffer \in [Modules -> Pair]
    /\ decoding \in [of : Modules, copy : Pair]
    /\ decoded \in [Modules -> Seq(Pair)]
    /\ disturbed \in BOOLEAN
    /\ daq = "wait" => saved[at] < MaxBuffers

\* Whoever finds the semaphore free, or holds it as a monitor, sees one update.
StatisticsInv ==
    /\ monitor = "reading" => shmsem = 0
    /\ daq = "update" => shmsem = 0 /\ monitor # "reading"
    /\ shmsem = 1 \/ monitor = "reading" => \A i \in Modules : statistics[i] = header
    /\ daq = "update" => \A i \in Modules : i < at => statistics[i] = header
    /\ monitor = "reading" => \A j \in DOMAIN snapshot : snapshot[j] = header
    /\ monitor # "reading" => snapshot = <<>>

Writing(i) == daq \in {"copy", "count"} /\ at = i
Current(i) == Buffer(run, saved[i])

\* A buffer whose word is set is whole and not written, and one the decoder copies
\* has its word set.
BufferInv ==
    /\ \A i \in Modules :
          point[i] => ~Writing(i) /\ saved[i] > 0
                        /\ buffer[i].first = Current(i) /\ buffer[i].rest = Current(i)
    /\ \A i \in Modules :
          Writing(i) => /\ saved[i] > 0 /\ buffer[i].first = Current(i)
                        /\ daq = "count" => buffer[i].rest = Current(i)
    /\ decoder \in {"half", "whole"} /\ ~disturbed =>
          /\ point[decoding.of]
          /\ decoding.copy.first = Current(decoding.of)
          /\ decoder = "whole" => decoding.copy.rest = Current(decoding.of)

\* The number of the last buffer of this run in what was decoded.
LastTaken(s) == IF s # <<>> /\ s[Len(s)].first.run = run THEN s[Len(s)].first.number ELSE 0

\* What the decoder lacks of a module is the buffer in the shared memory.
TurnInv ==
    /\ BuffersInTurn
    /\ ~disturbed =>
          /\ \A i \in Modules : \A k \in DOMAIN decoded[i] : decoded[i][k].first.run <= run
          /\ \A i \in Modules :
                daq # "down" \/ point[i] =>
                    saved[i] = LastTaken(decoded[i]) + (IF point[i] \/ Writing(i) THEN 1 ELSE 0)

IInv == Types /\ StatisticsInv /\ BufferInv /\ TurnInv

------------------------------------------------------------------------------
\* The first state satisfies all parts.
LEMMA InitInv == Init => IInv
<1>. SUFFICES ASSUME Init PROVE IInv
  OBVIOUS
<1>. USE SharedAssumption DEF Init, Modules, Buffer, Empty, Nothing, NoModule
<1>1. Types
  BY DEF Types, TypeOK, Id, Pair
<1>2. StatisticsInv
  BY DEF StatisticsInv
<1>3. BufferInv
  BY DEF BufferInv, Writing, Current
<1>4. TurnInv
  BY DEF TurnInv, BuffersInTurn, LastTaken, Writing
<1>. QED
  BY <1>1, <1>2, <1>3, <1>4 DEF IInv

\* The names of buffers are typed.
LEMMA BufferType == ASSUME NEW r \in Nat, NEW n \in Nat PROVE Buffer(r, n) \in Id
BY DEF Buffer, Id

\* Halves that hold nothing yet are typed.
LEMMA NothingType == Nothing \in Pair /\ NoModule \in [of : Modules, copy : Pair]
<1>1. Nothing \in Pair
  BY BufferType DEF Nothing, Empty, Pair
<1>. QED
  BY <1>1, SharedAssumption DEF NoModule, Modules

\* Every step keeps the types; a monitor that reads has read the head.
LEMMA TypesStep == IInv /\ [Next]_vars => Types'
<1>. SUFFICES ASSUME Types, [Next]_vars PROVE Types'
  BY DEF IInv
<1>. USE SharedAssumption DEF Types
<1>1. CASE UpdateSharedMemory
  <2>1. header' \in 0 .. MaxUpdates /\ at' \in Modules
    BY <1>1 DEF UpdateSharedMemory, TypeOK, Modules
  <2>. QED
    BY <1>1, <2>1 DEF UpdateSharedMemory, Daq, TypeOK, sharedBuffers
<1>2. CASE UpdateModule
  <2>1. statistics' \in [Modules -> 0 .. MaxUpdates]
    BY <1>2 DEF UpdateModule, TypeOK
  <2>2. at' \in Modules /\ daq' \in {"read", "update"} /\ shmsem' \in 0 .. 1
    <3>1. at \in Modules /\ (~LastModule => at + 1 \in Modules) /\ 0 \in Modules
      BY DEF LastModule, TypeOK, Modules
    <3>2. daq' \in {"read", "update"} /\ (shmsem' = shmsem \/ shmsem' = 1)
          /\ (at' = 0 \/ (~LastModule /\ at' = at + 1))
      BY <1>2 DEF UpdateModule
    <3>3. shmsem' \in 0 .. 1
      BY <3>2 DEF TypeOK
    <3>. QED
      BY <3>1, <3>2, <3>3
  <2>. QED
    BY <1>2, <2>1, <2>2 DEF UpdateModule, TypeOK, sharedBuffers
<1>3. CASE SkipUpdate
  BY <1>3 DEF SkipUpdate, Daq, TypeOK, Modules, sharedStatistics, sharedBuffers
<1>4. CASE ReadOnly
  BY <1>4 DEF ReadOnly, Daq, TypeOK, Modules, sharedStatistics, sharedBuffers
<1>5. CASE SavetoFile
  BY <1>5 DEF SavetoFile, Daq, TypeOK, Modules, sharedStatistics, sharedBuffers
<1>6. CASE CopyHalf
  <2>1. at \in Modules /\ saved[at] \in Nat /\ saved[at] + 1 \in 0 .. MaxBuffers /\ run \in Nat
    BY <1>6 DEF CopyHalf, Daq, TypeOK
  <2>2. Buffer(run, saved[at] + 1) \in Id
    BY <2>1, BufferType
  <2>3. buffer' \in [Modules -> Pair]
    BY <1>6, <2>2 DEF CopyHalf, Pair
  <2>4. saved' \in [Modules -> 0 .. MaxBuffers]
    BY <1>6, <2>1 DEF CopyHalf, TypeOK
  <2>. QED
    BY <1>6, <2>3, <2>4 DEF CopyHalf, Daq, TypeOK, sharedStatistics
<1>7. CASE CopyRest
  <2>1. at \in Modules /\ saved[at] \in Nat /\ run \in Nat
    BY DEF TypeOK
  <2>2. Buffer(run, saved[at]) \in Id
    BY <2>1, BufferType
  <2>3. buffer' \in [Modules -> Pair]
    BY <1>7, <2>2 DEF CopyRest, Pair
  <2>. QED
    BY <1>7, <2>3 DEF CopyRest, Daq, TypeOK, sharedStatistics
<1>8. CASE SetPoint
  <2>1. at' \in Modules /\ point' \in [Modules -> BOOLEAN]
    BY <1>8 DEF SetPoint, TypeOK, Modules
  <2>. QED
    BY <1>8, <2>1 DEF SetPoint, Daq, TypeOK, sharedStatistics
<1>9. CASE StartRun
  <2>1. run' \in 1 .. MaxRuns /\ disturbed' \in BOOLEAN
    BY <1>9 DEF StartRun, TypeOK
  <2>2. saved' \in [Modules -> 0 .. MaxBuffers] /\ point' \in [Modules -> BOOLEAN]
    BY <1>9 DEF StartRun
  <2>. QED
    BY <1>9, <2>1, <2>2 DEF StartRun, TypeOK, sharedStatistics
<1>10. CASE MonitorTakes
  <2>1. snapshot' \in Seq(Nat) /\ Len(snapshot') = 1
    BY <1>10 DEF MonitorTakes, TypeOK
  <2>. QED
    BY <1>10, <2>1 DEF MonitorTakes, TypeOK, sharedBuffers
<1>11. CASE MonitorCopies
  <2>1. Len(snapshot) \in Nat /\ Len(snapshot) # 0
    BY <1>11, LenProperties, EmptySeq DEF MonitorCopies
  <2>2. statistics[Len(snapshot) - 1] \in Nat
    BY <1>11, <2>1 DEF MonitorCopies, TypeOK, Modules
  <2>3. /\ snapshot' \in Seq(Nat) /\ snapshot' # <<>>
        /\ Len(snapshot') = Len(snapshot) + 1
    BY <1>11, <2>2, AppendProperties DEF MonitorCopies
  <2>4. Len(snapshot') <= NumModules + 1
    BY <1>11, <2>1, <2>3 DEF MonitorCopies
  <2>. QED
    BY <1>11, <2>3, <2>4 DEF MonitorCopies, TypeOK, sharedBuffers
<1>12. CASE MonitorPosts
  <2>1. snapshot' \in Seq(Nat) /\ Len(snapshot') = 0
    BY <1>12 DEF MonitorPosts
  <2>. QED
    BY <1>12, <2>1 DEF MonitorPosts, TypeOK, sharedBuffers
<1>13. CASE MonitorDies
  <2>1. snapshot' \in Seq(Nat) /\ Len(snapshot') = 0
    BY <1>13 DEF MonitorDies
  <2>. QED
    BY <1>13, <2>1 DEF MonitorDies, TypeOK, sharedBuffers
<1>14. CASE DecoderCopies
  <2>1. PICK i \in Modules :
            decoding' = [of |-> i, copy |-> [Nothing EXCEPT !.first = buffer[i].first]]
    BY <1>14 DEF DecoderCopies
  <2>2. buffer[i].first \in Id
    BY DEF Pair
  <2>3. [Nothing EXCEPT !.first = buffer[i].first] \in Pair
    BY <2>2, NothingType DEF Pair
  <2>4. decoding' \in [of : Modules, copy : Pair]
    BY <2>1, <2>3
  <2>. QED
    BY <1>14, <2>4 DEF DecoderCopies, TypeOK, sharedStatistics
<1>15. CASE DecoderCopiesRest
  <2>1. decoding' \in [of : Modules, copy : Pair]
    BY <1>15 DEF DecoderCopiesRest, Pair
  <2>. QED
    BY <1>15, <2>1 DEF DecoderCopiesRest, TypeOK, sharedStatistics
<1>16. CASE DecoderTakes
  <2>1. decoding' \in [of : Modules, copy : Pair]
    BY <1>16, NothingType DEF DecoderTakes
  <2>2. decoded' \in [Modules -> Seq(Pair)]
    BY <1>16 DEF DecoderTakes
  <2>. QED
    BY <1>16, <2>1, <2>2 DEF DecoderTakes, TypeOK, sharedStatistics
<1>17. CASE DecoderDies
  <2>1. decoding' \in [of : Modules, copy : Pair]
    BY <1>17, NothingType DEF DecoderDies
  <2>2. /\ decoder' = "gone"
        /\ UNCHANGED <<daq, at, sharedStatistics, run, saved, buffer, point, decoded, disturbed>>
    BY <1>17 DEF DecoderDies
  <2>3. TypeOK'
    BY <2>2 DEF TypeOK, sharedStatistics
  <2>4. UNCHANGED <<daq, at, saved, snapshot, monitor, buffer, decoded, disturbed>>
    BY <2>2 DEF sharedStatistics
  <2>5. /\ (snapshot \in Seq(Nat))' /\ (monitor = "reading" => snapshot # <<>>)'
        /\ (buffer \in [Modules -> Pair])' /\ (decoded \in [Modules -> Seq(Pair)])'
        /\ (disturbed \in BOOLEAN)' /\ (daq = "wait" => saved[at] < MaxBuffers)'
    BY <2>4
  <2>. QED
    BY <2>1, <2>3, <2>5
<1>18. CASE DaqDies
  <2>1. /\ daq' = "down" /\ at' = 0 /\ 0 \in Modules
        /\ UNCHANGED <<shmsem, header, statistics, monitor, snapshot, run, saved, buffer, point,
                       decoder, decoding, decoded, disturbed>>
    BY <1>18 DEF DaqDies, Modules, sharedStatistics, sharedBuffers
  <2>2. TypeOK'
    BY <2>1 DEF TypeOK
  <2>. QED
    BY <2>1, <2>2
<1>19. CASE DaqRestarts
  <2>1. run' \in 1 .. MaxRuns /\ disturbed' \in BOOLEAN
    BY <1>19 DEF DaqRestarts, TypeOK
  <2>2. saved' \in [Modules -> 0 .. MaxBuffers] /\ point' \in [Modules -> BOOLEAN]
    BY <1>19 DEF DaqRestarts
  <2>. QED
    BY <1>19, <2>1, <2>2 DEF DaqRestarts, Daq, TypeOK, sharedStatistics
<1>20. CASE UNCHANGED vars
  BY <1>20 DEF vars, TypeOK, sharedStatistics, sharedBuffers
<1>. QED
  BY <1>1, <1>2, <1>3, <1>4, <1>5, <1>6, <1>7, <1>8, <1>9, <1>10, <1>11, <1>12, <1>13, <1>14, <1>15, <1>16, <1>17, <1>18, <1>19, <1>20 DEF Next, Readout, Monitor, Decoder

\* The semaphore protocol: the state is torn only while the semaphore is taken, by
\* the DAQ or, if that died, for good.
LEMMA StatisticsStep == IInv /\ [Next]_vars => StatisticsInv'
<1>. SUFFICES ASSUME Types, StatisticsInv, [Next]_vars PROVE StatisticsInv'
  BY DEF IInv
<1>. USE SharedAssumption DEF Types, StatisticsInv
<1>1. CASE UpdateSharedMemory
  BY <1>1 DEF UpdateSharedMemory, Daq, SemaphoreFree, TypeOK, Modules, sharedStatistics
<1>2. CASE UpdateModule
  <2>1. \A i \in Modules : i <= at => statistics'[i] = header
    BY <1>2 DEF UpdateModule, TypeOK, Modules
  <2>2. CASE LastModule
    <3>1. \A i \in Modules : statistics'[i] = header
      BY <2>1, <2>2 DEF LastModule, Modules
    <3>. QED
      BY <1>2, <2>2, <3>1 DEF UpdateModule
  <2>3. CASE ~LastModule
    <3>1. \A i \in Modules : i < at + 1 => statistics'[i] = header
      BY <2>1 DEF TypeOK, Modules
    <3>. QED
      BY <1>2, <2>3, <3>1 DEF UpdateModule
  <2>. QED
    BY <2>2, <2>3
<1>3. CASE SkipUpdate
  BY <1>3 DEF SkipUpdate, Daq, TypeOK, Modules, sharedStatistics
<1>4. CASE ReadOnly
  BY <1>4 DEF ReadOnly, Daq, TypeOK, Modules, sharedStatistics
<1>5. CASE SavetoFile
  BY <1>5 DEF SavetoFile, Daq, TypeOK, Modules, sharedStatistics
<1>6. CASE CopyHalf
  BY <1>6 DEF CopyHalf, Daq, Taken, TypeOK, Modules, sharedStatistics
<1>7. CASE CopyRest
  BY <1>7 DEF CopyRest, Daq, TypeOK, Modules, sharedStatistics
<1>8. CASE SetPoint
  BY <1>8 DEF SetPoint, Daq, TypeOK, Modules, sharedStatistics
<1>9. CASE StartRun
  BY <1>9 DEF StartRun, TypeOK, Modules, sharedStatistics
<1>10. CASE MonitorTakes
  BY <1>10 DEF MonitorTakes, TypeOK, Modules, sharedStatistics
<1>11. CASE MonitorCopies
  <2>1. Len(snapshot) \in Nat /\ Len(snapshot) # 0 /\ Len(snapshot) - 1 \in Modules
    BY <1>11, LenProperties, EmptySeq DEF MonitorCopies, Modules
  <2>2. snapshot' = Append(snapshot, header) /\ header \in Nat
    BY <1>11, <2>1 DEF MonitorCopies, TypeOK
  <2>3. \A j \in DOMAIN snapshot' : snapshot'[j] = header
    BY <1>11, <2>2, AppendProperties, LenProperties DEF MonitorCopies
  <2>. QED
    BY <1>11, <2>3 DEF MonitorCopies
<1>12. CASE MonitorPosts
  BY <1>12 DEF MonitorPosts, TypeOK, Modules, sharedStatistics
<1>13. CASE MonitorDies
  BY <1>13 DEF MonitorDies, TypeOK, Modules, sharedStatistics
<1>14. CASE DecoderCopies
  BY <1>14 DEF DecoderCopies, TypeOK, Modules, sharedStatistics
<1>15. CASE DecoderCopiesRest
  BY <1>15 DEF DecoderCopiesRest, TypeOK, Modules, sharedStatistics
<1>16. CASE DecoderTakes
  BY <1>16 DEF DecoderTakes, TypeOK, Modules, sharedStatistics
<1>17. CASE DecoderDies
  BY <1>17 DEF DecoderDies, TypeOK, Modules, sharedStatistics
<1>18. CASE DaqDies
  BY <1>18 DEF DaqDies, TypeOK, Modules, sharedStatistics
<1>19. CASE DaqRestarts
  BY <1>19 DEF DaqRestarts, Daq, TypeOK, Modules, sharedStatistics
<1>20. CASE UNCHANGED vars
  BY <1>20 DEF vars, TypeOK, Modules, sharedStatistics
<1>. QED
  BY <1>1, <1>2, <1>3, <1>4, <1>5, <1>6, <1>7, <1>8, <1>9, <1>10, <1>11, <1>12, <1>13, <1>14, <1>15, <1>16, <1>17, <1>18, <1>19, <1>20 DEF Next, Readout, Monitor, Decoder

\* The words protocol: the readout writes only where the word is zero, the decoder
\* reads only where it is not.
LEMMA BufferStep == IInv /\ [Next]_vars => BufferInv'
<1>. SUFFICES ASSUME Types, BufferInv, [Next]_vars PROVE BufferInv'
  BY DEF IInv
<1>. USE SharedAssumption DEF Types, BufferInv, Writing, Current
<1>1. CASE UpdateSharedMemory
  BY <1>1 DEF UpdateSharedMemory, Daq, SemaphoreFree, TypeOK, Modules, Empty, Nothing, NoModule, Buffer, Id, Pair, sharedStatistics, sharedBuffers
<1>2. CASE UpdateModule
  BY <1>2 DEF UpdateModule, LastModule, TypeOK, Modules, Empty, Nothing, NoModule, Buffer, Id, Pair, sharedStatistics, sharedBuffers
<1>3. CASE SkipUpdate
  BY <1>3 DEF SkipUpdate, Daq, TypeOK, Modules, Empty, Nothing, NoModule, Buffer, Id, Pair, sharedStatistics, sharedBuffers
<1>4. CASE ReadOnly
  BY <1>4 DEF ReadOnly, Daq, TypeOK, Modules, Empty, Nothing, NoModule, Buffer, Id, Pair, sharedStatistics, sharedBuffers
<1>5. CASE SavetoFile
  BY <1>5 DEF SavetoFile, Daq, TypeOK, Modules, Empty, Nothing, NoModule, Buffer, Id, Pair, sharedStatistics, sharedBuffers
<1>6. CASE CopyHalf
  <2>1. ~point[at] /\ at \in Modules /\ saved[at] \in Nat
    BY <1>6 DEF CopyHalf, Taken, TypeOK
  <2>2. saved'[at] = saved[at] + 1 /\ buffer'[at].first = Buffer(run, saved[at] + 1)
    BY <1>6, <2>1 DEF CopyHalf, TypeOK, Pair
  <2>3. \A i \in Modules \ {at} : saved'[i] = saved[i] /\ buffer'[i] = buffer[i]
    BY <1>6, <2>1 DEF CopyHalf, TypeOK
  <2>4. at' = at /\ daq' = "copy"
    BY <1>6 DEF CopyHalf, Daq
  <2>. QED
    BY <1>6, <2>1, <2>2, <2>3, <2>4 DEF CopyHalf, TypeOK
<1>7. CASE CopyRest
  BY <1>7 DEF CopyRest, Daq, TypeOK, Modules, Empty, Nothing, NoModule, Buffer, Id, Pair, sharedStatistics, sharedBuffers
<1>8. CASE SetPoint
  BY <1>8 DEF SetPoint, Daq, TypeOK, Modules, Empty, Nothing, NoModule, Buffer, Id, Pair, sharedStatistics, sharedBuffers
<1>9. CASE StartRun
  BY <1>9 DEF StartRun, TypeOK, Modules, Empty, Nothing, NoModule, Buffer, Id, Pair, sharedStatistics, sharedBuffers
<1>10. CASE MonitorTakes
  BY <1>10 DEF MonitorTakes, TypeOK, Modules, Empty, Nothing, NoModule, Buffer, Id, Pair, sharedStatistics, sharedBuffers
<1>11. CASE MonitorCopies
  BY <1>11 DEF MonitorCopies, TypeOK, Modules, Empty, Nothing, NoModule, Buffer, Id, Pair, sharedStatistics, sharedBuffers
<1>12. CASE MonitorPosts
  BY <1>12 DEF MonitorPosts, TypeOK, Modules, Empty, Nothing, NoModule, Buffer, Id, Pair, sharedStatistics, sharedBuffers
<1>13. CASE MonitorDies
  BY <1>13 DEF MonitorDies, TypeOK, Modules, Empty, Nothing, NoModule, Buffer, Id, Pair, sharedStatistics, sharedBuffers
<1>14. CASE DecoderCopies
  <2>1. PICK i \in Modules :
            /\ point[i]
            /\ decoding' = [of |-> i, copy |-> [Nothing EXCEPT !.first = buffer[i].first]]
    BY <1>14 DEF DecoderCopies
  <2>2. decoding'.of = i /\ decoding'.copy.first = buffer[i].first
    BY <2>1 DEF Nothing
  <2>. QED
    BY <1>14, <2>1, <2>2 DEF DecoderCopies
<1>15. CASE DecoderCopiesRest
  BY <1>15 DEF DecoderCopiesRest, TypeOK, Modules, Empty, Nothing, NoModule, Buffer, Id, Pair, sharedStatistics, sharedBuffers
<1>16. CASE DecoderTakes
  BY <1>16 DEF DecoderTakes, TypeOK, Modules, Empty, Nothing, NoModule, Buffer, Id, Pair, sharedStatistics, sharedBuffers
<1>17. CASE DecoderDies
  BY <1>17 DEF DecoderDies, TypeOK, Modules, Empty, Nothing, NoModule, Buffer, Id, Pair, sharedStatistics, sharedBuffers
<1>18. CASE DaqDies
  BY <1>18 DEF DaqDies, TypeOK, Modules, Empty, Nothing, NoModule, Buffer, Id, Pair, sharedStatistics, sharedBuffers
<1>19. CASE DaqRestarts
  BY <1>19 DEF DaqRestarts, Daq, TypeOK, Modules, Empty, Nothing, NoModule, Buffer, Id, Pair, sharedStatistics, sharedBuffers
<1>20. CASE UNCHANGED vars
  BY <1>20 DEF vars, TypeOK, Modules, Empty, Nothing, NoModule, Buffer, Id, Pair, sharedStatistics, sharedBuffers
<1>. QED
  BY <1>1, <1>2, <1>3, <1>4, <1>5, <1>6, <1>7, <1>8, <1>9, <1>10, <1>11, <1>12, <1>13, <1>14, <1>15, <1>16, <1>17, <1>18, <1>19, <1>20 DEF Next, Readout, Monitor, Decoder

\* What was decoded is typed, and its last buffer is one of it.
LEMMA ElementType ==
    ASSUME NEW s \in Seq(Pair)
    PROVE  /\ \A k \in DOMAIN s : s[k].first.run \in Nat /\ s[k].first.number \in Nat
           /\ s # <<>> => Len(s) \in DOMAIN s
           /\ LastTaken(s) \in Nat
<1>1. \A k \in DOMAIN s : s[k] \in Pair
  BY ElementOfSeq, LenProperties
<1>2. \A k \in DOMAIN s : s[k].first.run \in Nat /\ s[k].first.number \in Nat
  BY <1>1 DEF Pair, Id
<1>3. s # <<>> => Len(s) \in DOMAIN s
  BY LenProperties, EmptySeq
<1>. QED
  BY <1>2, <1>3 DEF LastTaken

\* A step that changes nothing of what TurnInv relates.
LEMMA TurnFrame ==
    ASSUME TurnInv, UNCHANGED <<run, saved, point, decoded, disturbed>>,
           daq' = "down" <=> daq = "down",
           \A i \in Modules : Writing(i)' <=> Writing(i)
    PROVE  TurnInv'
BY DEF TurnInv, BuffersInTurn, Whole, Follows, LastTaken, Modules

\* The decoder is never more than the buffer in the shared memory behind.
LEMMA TurnStep == IInv /\ [Next]_vars => TurnInv'
<1>. SUFFICES ASSUME Types, BufferInv, TurnInv, [Next]_vars PROVE TurnInv'
  BY DEF IInv
<1>. USE SharedAssumption DEF Types
<1>1. CASE UpdateSharedMemory
  BY <1>1, TurnFrame DEF UpdateSharedMemory, Daq, Writing, sharedBuffers
<1>2. CASE UpdateModule
  BY <1>2, TurnFrame DEF UpdateModule, Writing, sharedBuffers
<1>3. CASE SkipUpdate
  BY <1>3, TurnFrame DEF SkipUpdate, Daq, Writing, sharedBuffers
<1>4. CASE ReadOnly
  BY <1>4, TurnFrame DEF ReadOnly, Daq, Writing, sharedBuffers
<1>5. CASE SavetoFile
  BY <1>5, TurnFrame DEF SavetoFile, Daq, Writing, sharedBuffers
<1>6. CASE CopyRest
  BY <1>6, TurnFrame DEF CopyRest, Daq, Writing, sharedBuffers
<1>7. CASE MonitorTakes
  BY <1>7, TurnFrame DEF MonitorTakes, Writing, sharedBuffers
<1>8. CASE MonitorCopies
  BY <1>8, TurnFrame DEF MonitorCopies, Writing, sharedBuffers
<1>9. CASE MonitorPosts
  BY <1>9, TurnFrame DEF MonitorPosts, Writing, sharedBuffers
<1>10. CASE MonitorDies
  BY <1>10, TurnFrame DEF MonitorDies, Writing, sharedBuffers
<1>11. CASE DecoderCopies
  BY <1>11, TurnFrame DEF DecoderCopies, Writing, sharedBuffers
<1>12. CASE DecoderCopiesRest
  BY <1>12, TurnFrame DEF DecoderCopiesRest, Writing, sharedBuffers
<1>13. CASE DecoderDies
  BY <1>13, TurnFrame DEF DecoderDies, Writing, sharedBuffers
<1>14. CASE UNCHANGED vars
  BY <1>14, TurnFrame DEF vars, Writing, sharedBuffers
<1>15. CASE CopyHalf
  <2>1. /\ at \in Modules /\ saved[at] \in Nat /\ ~point[at] /\ ~Writing(at)
        /\ \A i \in Modules : ~Writing(i)
    BY <1>15 DEF CopyHalf, Daq, Taken, TypeOK, Writing
  <2>2. /\ saved'[at] = saved[at] + 1
        /\ \A i \in Modules \ {at} : saved'[i] = saved[i]
    BY <1>15, <2>1 DEF CopyHalf, TypeOK
  <2>3. \A i \in Modules : Writing(i)' <=> i = at
    BY <1>15 DEF CopyHalf, Daq, Writing
  <2>4. UNCHANGED <<run, point, decoded, disturbed>> /\ daq = "wait" /\ Modules' = Modules
    BY <1>15 DEF CopyHalf, Daq, Modules
  <2>5. \A i \in Modules : LastTaken(decoded[i])' = LastTaken(decoded[i])
    BY <2>4 DEF LastTaken
  <2>6. BuffersInTurn'
    BY <2>4 DEF TurnInv, BuffersInTurn, Whole, Follows
  <2>7. ~disturbed => \A i \in Modules :
            saved'[i] = LastTaken(decoded[i])'
                        + (IF point'[i] \/ Writing(i)' THEN 1 ELSE 0)
    <3>1. SUFFICES ASSUME ~disturbed, NEW i \in Modules
                   PROVE  saved'[i] = LastTaken(decoded[i])'
                                      + (IF point'[i] \/ Writing(i)' THEN 1 ELSE 0)
      OBVIOUS
    <3>2. saved[i] = LastTaken(decoded[i]) + (IF point[i] THEN 1 ELSE 0)
      BY <2>1, <2>4, <3>1 DEF TurnInv
    <3>3. CASE i = at
      <4>1. LastTaken(decoded[i]) \in Nat
        BY ElementType
      <4>. QED
        BY <2>1, <2>2, <2>3, <2>4, <2>5, <3>2, <3>3, <4>1
    <3>4. CASE i # at
      BY <2>2, <2>3, <2>4, <2>5, <3>2, <3>4
    <3>. QED
      BY <3>3, <3>4
  <2>. QED
    BY <2>4, <2>6, <2>7 DEF TurnInv
<1>16. CASE SetPoint
  <2>1. at \in Modules /\ Writing(at) /\ \A i \in Modules \ {at} : ~Writing(i)
    BY <1>16 DEF SetPoint, Daq, TypeOK, Writing
  <2>2. point'[at] /\ \A i \in Modules \ {at} : point'[i] = point[i]
    BY <1>16, <2>1 DEF SetPoint, TypeOK
  <2>3. \A i \in Modules : ~Writing(i)'
    BY <1>16 DEF SetPoint, Daq, Writing
  <2>4. UNCHANGED <<run, saved, decoded, disturbed>> /\ daq = "count"
    BY <1>16 DEF SetPoint, Daq
  <2>5. \A i \in Modules : LastTaken(decoded[i])' = LastTaken(decoded[i])
    BY <2>4 DEF LastTaken
  <2>6. BuffersInTurn'
    BY <2>4 DEF TurnInv, BuffersInTurn, Whole, Follows, Modules
  <2>7. \A i \in Modules : (point'[i] \/ Writing(i)') <=> (point[i] \/ Writing(i))
    BY <2>1, <2>2, <2>3
  <2>. QED
    BY <2>4, <2>5, <2>6, <2>7 DEF TurnInv, Modules
<1>17. CASE StartRun
  <2>1. /\ run \in Nat /\ run' = run + 1 /\ decoded' = decoded
        /\ \A i \in Modules : saved'[i] = 0 /\ ~point'[i] /\ ~Writing(i)'
        /\ disturbed => disturbed'
    BY <1>17 DEF StartRun, TypeOK, Writing
  <2>2. BuffersInTurn'
    BY <2>1 DEF TurnInv, BuffersInTurn, Whole, Follows, Modules
  <2>3. ASSUME ~disturbed, NEW i \in Modules
        PROVE  /\ \A k \in DOMAIN decoded[i] : decoded[i][k].first.run <= run'
               /\ LastTaken(decoded[i])' = 0
    <3>1. decoded[i] \in Seq(Pair)
      OBVIOUS
    <3>2. \A k \in DOMAIN decoded[i] : decoded[i][k].first.run \in Nat
      BY <3>1, ElementType
    <3>3. \A k \in DOMAIN decoded[i] : decoded[i][k].first.run <= run
      BY <2>3 DEF TurnInv
    <3>4. \A k \in DOMAIN decoded[i] : decoded[i][k].first.run < run'
      BY <2>1, <3>2, <3>3
    <3>5. decoded[i] # <<>> => Len(decoded[i]) \in DOMAIN decoded[i]
      BY <3>1, ElementType
    <3>. QED
      BY <2>1, <3>2, <3>4, <3>5 DEF LastTaken
  <2>. QED
    BY <2>1, <2>2, <2>3 DEF TurnInv, Modules
<1>18. CASE DaqRestarts
  <2>1. /\ run \in Nat /\ run' = run + 1 /\ decoded' = decoded
        /\ \A i \in Modules : saved'[i] = 0 /\ ~point'[i] /\ ~Writing(i)'
        /\ disturbed => disturbed'
    BY <1>18 DEF DaqRestarts, Daq, TypeOK, Writing
  <2>2. BuffersInTurn'
    BY <2>1 DEF TurnInv, BuffersInTurn, Whole, Follows, Modules
  <2>3. ASSUME ~disturbed, NEW i \in Modules
        PROVE  /\ \A k \in DOMAIN decoded[i] : decoded[i][k].first.run <= run'
               /\ LastTaken(decoded[i])' = 0
    <3>1. decoded[i] \in Seq(Pair)
      OBVIOUS
    <3>2. \A k \in DOMAIN decoded[i] : decoded[i][k].first.run \in Nat
      BY <3>1, ElementType
    <3>3. \A k \in DOMAIN decoded[i] : decoded[i][k].first.run <= run
      BY <2>3 DEF TurnInv
    <3>4. \A k \in DOMAIN decoded[i] : decoded[i][k].first.run < run'
      BY <2>1, <3>2, <3>3
    <3>5. decoded[i] # <<>> => Len(decoded[i]) \in DOMAIN decoded[i]
      BY <3>1, ElementType
    <3>. QED
      BY <2>1, <3>2, <3>4, <3>5 DEF LastTaken
  <2>. QED
    BY <2>1, <2>2, <2>3 DEF TurnInv, Modules
<1>19. CASE DaqDies
  <2>1. UNCHANGED <<run, saved, point, decoded, disturbed>> /\ daq' = "down"
    BY <1>19 DEF DaqDies, sharedBuffers
  <2>2. \A i \in Modules : ~Writing(i)'
    BY <2>1 DEF Writing
  <2>3. BuffersInTurn'
    BY <2>1 DEF TurnInv, BuffersInTurn, Whole, Follows, Modules
  <2>4. \A i \in Modules : LastTaken(decoded[i])' = LastTaken(decoded[i])
    BY <2>1 DEF LastTaken
  <2>. QED
    BY <2>1, <2>2, <2>3, <2>4 DEF TurnInv, Modules
<1>20. CASE DecoderTakes
  <2>0. PICK m \in Modules : m = decoding.of
    OBVIOUS
  <2> DEFINE s == decoded[m]
             b == decoding.copy
  <2>1. /\ m \in Modules /\ b \in Pair /\ s \in Seq(Pair) /\ decoder = "whole"
        /\ UNCHANGED <<daq, at, run, saved, disturbed>>
    BY <1>20 DEF DecoderTakes
  <2>2. /\ decoded'[m] = Append(s, b)
        /\ \A i \in Modules \ {m} : decoded'[i] = decoded[i] /\ point'[i] = point[i]
        /\ ~point'[m]
    BY <1>20, <2>0, <2>1 DEF DecoderTakes, TypeOK
  <2>3. \A i \in Modules : Writing(i)' <=> Writing(i)
    BY <2>1 DEF Writing
  <2>. SUFFICES ASSUME ~disturbed PROVE TurnInv'
    BY <2>1 DEF TurnInv, BuffersInTurn
  <2>4. /\ point[m] /\ ~Writing(m) /\ saved[m] \in Nat /\ saved[m] > 0 /\ run \in Nat
        /\ b.first = Current(m) /\ b.rest = Current(m)
    BY <2>0, <2>1 DEF BufferInv, TypeOK
  <2>5. b.first.run = run /\ b.first.number = saved[m]
    BY <2>4 DEF Current, Buffer
  <2>6. saved[m] = LastTaken(s) + 1
    BY <2>1, <2>4 DEF TurnInv
  <2>7. /\ Len(s) \in Nat /\ DOMAIN s = 1 .. Len(s) /\ (Len(s) = 0 <=> s = <<>>)
        /\ \A k \in DOMAIN s : s[k] \in Pair
    BY <2>1, LenProperties, EmptySeq, ElementOfSeq
  <2>8. /\ DOMAIN Append(s, b) = 1 .. Len(s) + 1 /\ Len(Append(s, b)) = Len(s) + 1
        /\ Append(s, b)[Len(s) + 1] = b
        /\ \A k \in DOMAIN s : Append(s, b)[k] = s[k]
        /\ Append(s, b) # <<>>
    BY <2>1, <2>7, AppendProperties
  <2>9. IF Len(s) + 1 = 1 THEN b.first.number = 1 ELSE Follows(s[Len(s)].first, b.first)
    <3>1. CASE s = <<>>
      BY <2>5, <2>6, <2>7, <3>1 DEF LastTaken
    <3>2. CASE s # <<>>
      <4>1. Len(s) \in DOMAIN s /\ Len(s) + 1 # 1 /\ s[Len(s)] \in Pair
        BY <2>7, <3>2
      <4>2. s[Len(s)].first.run \in Nat /\ s[Len(s)].first.number \in Nat
        BY <4>1 DEF Pair, Id
      <4>3. s[Len(s)].first.run <= run
        BY <2>1, <4>1 DEF TurnInv
      <4>. QED
        BY <2>4, <2>5, <2>6, <3>2, <4>1, <4>2, <4>3 DEF LastTaken, Follows
    <3>. QED
      BY <3>1, <3>2
  <2>10. ASSUME NEW k \in DOMAIN decoded'[m]
         PROVE  /\ Whole(decoded'[m][k])
                /\ IF k = 1 THEN decoded'[m][k].first.number = 1
                   ELSE Follows(decoded'[m][k - 1].first, decoded'[m][k].first)
                /\ decoded'[m][k].first.run <= run
    <3>1. CASE k \in DOMAIN s
      <4>1. decoded'[m][k] = s[k] /\ (k # 1 => k - 1 \in DOMAIN s /\ decoded'[m][k - 1] = s[k - 1])
        BY <2>2, <2>7, <2>8, <3>1
      <4>. QED
        BY <2>1, <3>1, <4>1 DEF TurnInv, BuffersInTurn
    <3>2. CASE k = Len(s) + 1
      <4>1. decoded'[m][k] = b /\ (k # 1 => decoded'[m][k - 1] = s[Len(s)])
        <5>1. decoded'[m][k] = b
          BY <2>2, <2>8, <3>2
        <5>2. ASSUME k # 1 PROVE decoded'[m][k - 1] = s[Len(s)]
          <6>1. k - 1 = Len(s) /\ Len(s) \in DOMAIN s
            BY <2>7, <3>2, <5>2
          <6>. QED
            BY <2>2, <2>8, <6>1
        <5>. QED
          BY <5>1, <5>2
      <4>2. Whole(b)
        BY <2>4 DEF Whole
      <4>. QED
        BY <2>4, <2>5, <2>9, <3>2, <4>1, <4>2
    <3>. QED
      BY <2>2, <2>7, <2>8, <3>1, <3>2
  <2>11. LastTaken(decoded[m])' = saved[m]
    BY <2>1, <2>2, <2>5, <2>8 DEF LastTaken
  <2>12. \A i \in Modules \ {m} : LastTaken(decoded[i])' = LastTaken(decoded[i])
    BY <2>1, <2>2 DEF LastTaken
  <2>13. BuffersInTurn'
    <3>1. ASSUME NEW i \in Modules \ {m}, NEW k \in DOMAIN decoded'[i]
          PROVE  /\ Whole(decoded'[i][k])
                 /\ IF k = 1 THEN decoded'[i][k].first.number = 1
                    ELSE Follows(decoded'[i][k - 1].first, decoded'[i][k].first)
      BY <2>2 DEF TurnInv, BuffersInTurn
    <3>2. ASSUME NEW i \in Modules, NEW k \in DOMAIN decoded'[i]
          PROVE  /\ Whole(decoded'[i][k])
                 /\ IF k = 1 THEN decoded'[i][k].first.number = 1
                    ELSE Follows(decoded'[i][k - 1].first, decoded'[i][k].first)
      <4>1. CASE i = m
        BY <2>10, <4>1
      <4>2. CASE i # m
        BY <3>1, <4>2
      <4>. QED
        BY <4>1, <4>2
    <3>. QED
      BY <3>2 DEF BuffersInTurn, Whole, Follows
  <2>14. \A i \in Modules : \A k \in DOMAIN decoded'[i] : decoded'[i][k].first.run <= run'
    BY <2>1, <2>2, <2>10 DEF TurnInv
  <2>15. ASSUME NEW i \in Modules, daq' # "down" \/ point'[i]
         PROVE  saved'[i] = LastTaken(decoded[i])'
                            + (IF point'[i] \/ Writing(i)' THEN 1 ELSE 0)
    <3>1. CASE i = m
      <4>1. ~(point'[i] \/ Writing(i)')
        BY <2>2, <2>3, <2>4, <3>1
      <4>2. saved'[i] = saved[m] /\ LastTaken(decoded[i])' = saved[m] /\ saved[m] \in Nat
        BY <2>1, <2>4, <2>11, <3>1
      <4>. QED
        BY <4>1, <4>2
    <3>2. CASE i # m
      BY <2>1, <2>2, <2>3, <2>12, <2>15, <3>2 DEF TurnInv
    <3>. QED
      BY <3>1, <3>2
  <2>. QED
    BY <2>13, <2>14, <2>15 DEF TurnInv
<1>. QED
  BY <1>1, <1>2, <1>3, <1>4, <1>5, <1>6, <1>7, <1>8, <1>9, <1>10, <1>11, <1>12, <1>13, <1>14, <1>15, <1>16, <1>17, <1>18, <1>19, <1>20 DEF Next, Readout, Monitor, Decoder

------------------------------------------------------------------------------
\* The strengthened invariant holds in every reachable state.
THEOREM SharedInvariant == Spec => []IInv
<1>1. IInv /\ [Next]_vars => IInv'
  BY TypesStep, StatisticsStep, BufferStep, TurnStep DEF IInv
<1>. QED
  BY InitInv, <1>1, PTL DEF Spec

\* The variables keep their types: the readout never counts beyond its modules, and
\* the semaphore is never posted twice.
THEOREM TypeCorrect == Spec => []TypeOK
<1>1. IInv => TypeOK
  BY DEF IInv, Types
<1>. QED
  BY SharedInvariant, <1>1, PTL

\* Whatever a monitor copied under the semaphore is of one update, for any number of
\* modules and wherever the DAQ or another monitor died.
THEOREM SnapshotsWhole == Spec => []SnapshotWhole
<1>1. IInv => SnapshotWhole
  <2>. SUFFICES ASSUME IInv, NEW j \in DOMAIN snapshot, NEW k \in DOMAIN snapshot
                PROVE  snapshot[j] = snapshot[k]
    BY DEF SnapshotWhole
  <2>1. CASE monitor = "reading"
    BY <2>1 DEF IInv, StatisticsInv
  <2>2. CASE monitor # "reading"
    BY <2>2, EmptySeq, LenProperties DEF IInv, StatisticsInv
  <2>. QED
    BY <2>1, <2>2
<1>. QED
  BY SharedInvariant, <1>1, PTL

\* Every buffer the decoder takes is whole and the next of its run, for any number of
\* modules, buffers and runs, unless a run is started while it copies.
THEOREM BuffersTaken == Spec => []BuffersInTurn
<1>1. IInv => BuffersInTurn
  BY DEF IInv, TurnInv
<1>. QED
  BY SharedInvariant, <1>1, PTL
------------------------------------------------------------------------------
(* OnlineProgram: how far the names of screenshots, read from a file that  *)
(* the DAQ rewrites, can be trusted.                                       *)

\* The file names the run of the DAQ if it names one, and the template's two
\* readings of it are in order.
NameInv ==
    /\ info \in {Unset, daq_run}
    /\ screenshot_name <= daq_run
    /\ main = "name" => run_ = Unset /\ picture = Unset /\ gui = "none"
    /\ program = "template" =>
          /\ run_ # Unset => screenshot_name <= run_
          /\ picture <= screenshot_name

ProgramInv == ProgramTypes /\ NameInv

\* It holds initially, ...
LEMMA ProgramInvInit == ProgramInit => ProgramInv
BY ProgramAssumption DEF ProgramInit, ProgramInv, ProgramTypes, NameInv, Runs, Unset, Keys

\* ... and every step keeps the types ...
LEMMA ProgramTypesStep == ProgramTypes /\ [ProgramNext]_programVars => ProgramTypes'
<1>. SUFFICES ASSUME ProgramTypes, [ProgramNext]_programVars PROVE ProgramTypes'
  OBVIOUS
<1>. USE ProgramAssumption
<1>1. CASE DaqStartRun
  BY <1>1 DEF DaqStartRun, ProgramTypes, Runs, Unset, Keys, files, threads
<1>2. CASE SaveOnlineInformation
  BY <1>2 DEF SaveOnlineInformation, ProgramTypes, Runs, Unset, Keys, files, threads
<1>3. CASE DaqPublish
  BY <1>3 DEF DaqPublish, ProgramTypes, Runs, Unset, Keys, files, threads
<1>4. CASE GetScreenShotName
  BY <1>4 DEF GetScreenShotName, Main, ProgramTypes, Runs, Unset, Keys, files, threads
<1>5. CASE StartGui
  BY <1>5 DEF StartGui, Main, ProgramTypes, Runs, Unset, Keys, files, threads
<1>6. CASE OnlineDataReceiver
  BY <1>6 DEF OnlineDataReceiver, Main, ProgramTypes, Runs, Unset, Keys, files, threads
<1>7. CASE TestAlive
  BY <1>7 DEF TestAlive, Main, Alive, ProgramTypes, Runs, Unset, Keys, files, threads
<1>8. CASE ReceiveEvent
  <2>1. main' \in {"fill", "alive"} /\ left' \in 0 .. MaxVectors
    BY <1>8 DEF ReceiveEvent, Main, AfterVector, ProgramTypes
  <2>2. queue' \in [Runs -> 0 .. MaxGroups]
    <3>1. CASE UNCHANGED queue
      BY <3>1 DEF ProgramTypes
    <3>2. CASE Waiting /\ queue' = [queue EXCEPT ![SubscribedRun] = @ - 1]
      <4>1. run_ \in Runs /\ queue[run_] - 1 \in 0 .. MaxGroups
        BY <3>2 DEF Waiting, SubscribedRun, ProgramTypes, Unset
      <4>. QED
        BY <3>2, <4>1 DEF SubscribedRun, ProgramTypes
    <3>. QED
      BY <1>8, <3>1, <3>2 DEF ReceiveEvent
  <2>. QED
    BY <1>8, <2>1, <2>2 DEF ReceiveEvent, ProgramTypes
<1>9. CASE FillOnlineGraph
  BY <1>9 DEF FillOnlineGraph, Main, ProgramTypes, Runs, Unset, Keys, files, threads
<1>10. CASE Join
  BY <1>10 DEF Join, Main, ProgramTypes, Runs, Unset, Keys, files, threads
<1>11. CASE TestTermination
  BY <1>11 DEF TestTermination, Gui, GuiUnchanged, ProgramTypes, Runs, Unset, Keys, files, threads
<1>12. CASE \E c \in Canvases : HandleCanvas(c)
  BY <1>12 DEF HandleCanvas, Gui, GuiUnchanged, PictureRun, Cleared, ShouldDo, ProgramTypes, Runs, Unset, Keys, files, threads
<1>13. CASE \E key \in Keys, c \in Canvases : Refresh(key, c)
  BY <1>13 DEF Refresh, Gui, GuiUnchanged, ProgramTypes, Runs, Unset, Keys, files, threads
<1>14. CASE Terminate
  BY <1>14 DEF Terminate, Gui, GuiUnchanged, ProgramTypes, Runs, Unset, Keys, files, threads
<1>15. CASE EventsProcessed
  BY <1>15 DEF EventsProcessed, Gui, GuiUnchanged, ProgramTypes, Runs, Unset, Keys, files, threads
<1>16. CASE FinalPrint
  BY <1>16 DEF FinalPrint, Gui, GuiUnchanged, PictureRun, ProgramTypes, Runs, Unset, Keys, files, threads
<1>17. CASE Interrupt
  BY <1>17 DEF Interrupt, ProgramTypes, Runs, Unset, Keys, files, threads
<1>18. CASE UNCHANGED programVars
  BY <1>18 DEF programVars, ProgramTypes, Runs, Unset, Keys, files, threads
<1>. QED
  BY <1>1, <1>2, <1>3, <1>4, <1>5, <1>6, <1>7, <1>8, <1>9, <1>10, <1>11, <1>12, <1>13, <1>14, <1>15, <1>16, <1>17, <1>18 DEF ProgramNext, MainThread, UpdateGui, Environment

\* ... and the order of the names.
LEMMA NameStep == ProgramInv /\ [ProgramNext]_programVars => NameInv'
<1>. SUFFICES ASSUME ProgramTypes, NameInv, [ProgramNext]_programVars PROVE NameInv'
  BY DEF ProgramInv
<1>. USE ProgramAssumption DEF NameInv
<1>1. CASE DaqStartRun
  BY <1>1 DEF DaqStartRun, ProgramTypes, Runs, Unset, files, threads
<1>2. CASE SaveOnlineInformation
  BY <1>2 DEF SaveOnlineInformation, ProgramTypes, Runs, Unset, files, threads
<1>3. CASE DaqPublish
  BY <1>3 DEF DaqPublish, ProgramTypes, Runs, Unset, files, threads
<1>4. CASE GetScreenShotName
  BY <1>4 DEF GetScreenShotName, Main, ProgramTypes, Runs, Unset, files, threads
<1>5. CASE StartGui
  BY <1>5 DEF StartGui, Main, ProgramTypes, Runs, Unset, files, threads
<1>6. CASE OnlineDataReceiver
  BY <1>6 DEF OnlineDataReceiver, Main, ProgramTypes, Runs, Unset, files, threads
<1>7. CASE TestAlive
  BY <1>7 DEF TestAlive, Main, Alive, ProgramTypes, Runs, Unset, files, threads
<1>8. CASE ReceiveEvent
  BY <1>8 DEF ReceiveEvent, Main, Waiting, SubscribedRun, AfterVector, ProgramTypes, Runs, Unset, files, threads
<1>9. CASE FillOnlineGraph
  BY <1>9 DEF FillOnlineGraph, Main, ProgramTypes, Runs, Unset, files, threads
<1>10. CASE Join
  BY <1>10 DEF Join, Main, ProgramTypes, Runs, Unset, files, threads
<1>11. CASE TestTermination
  BY <1>11 DEF TestTermination, Gui, GuiUnchanged, ProgramTypes, Runs, Unset, files, threads
<1>12. CASE \E c \in Canvases : HandleCanvas(c)
  BY <1>12 DEF HandleCanvas, Gui, GuiUnchanged, PictureRun, Cleared, ShouldDo, ProgramTypes, Runs, Unset, files, threads
<1>13. CASE \E key \in Keys, c \in Canvases : Refresh(key, c)
  BY <1>13 DEF Refresh, Gui, GuiUnchanged, ProgramTypes, Runs, Unset, files, threads
<1>14. CASE Terminate
  BY <1>14 DEF Terminate, Gui, GuiUnchanged, ProgramTypes, Runs, Unset, files, threads
<1>15. CASE EventsProcessed
  BY <1>15 DEF EventsProcessed, Gui, GuiUnchanged, ProgramTypes, Runs, Unset, files, threads
<1>16. CASE FinalPrint
  BY <1>16 DEF FinalPrint, Gui, GuiUnchanged, PictureRun, ProgramTypes, Runs, Unset, files, threads
<1>17. CASE Interrupt
  BY <1>17 DEF Interrupt, ProgramTypes, Runs, Unset, files, threads
<1>18. CASE UNCHANGED programVars
  BY <1>18 DEF programVars, ProgramTypes, Runs, Unset, files, threads
<1>. QED
  BY <1>1, <1>2, <1>3, <1>4, <1>5, <1>6, <1>7, <1>8, <1>9, <1>10, <1>11, <1>12, <1>13, <1>14, <1>15, <1>16, <1>17, <1>18 DEF ProgramNext, MainThread, UpdateGui, Environment

\* The variables keep their types: no group of packets is taken twice, and none of a
\* run the receiver has not read.
THEOREM ProgramTypeCorrect == ProgramSpec => []ProgramTypes
BY ProgramInvInit, ProgramTypesStep, PTL DEF ProgramSpec, ProgramInv

\* No picture of a program made from the template is named after a run newer than
\* the one its receiver is bound to, whenever the DAQ rewrites the file.
THEOREM PicturesNamedRight == ProgramSpec => []PicturesNamed
<1>1. ProgramInv /\ [ProgramNext]_programVars => ProgramInv'
  BY ProgramTypesStep, NameStep DEF ProgramInv
<1>2. ProgramInv => PicturesNamed
  BY DEF ProgramInv, ProgramTypes, NameInv, PicturesNamed, Runs, Unset
<1>. QED
  BY ProgramInvInit, <1>1, <1>2, PTL DEF ProgramSpec
==============================================================================
