----------------------------- MODULE SharedMemory -----------------------------
(***************************************************************************)
(* What the readout of src/external/daq/Detector.cc shares with processes  *)
(* outside: the statistics, behind a named semaphore that the readout only *)
(* tries, and the buffers for an online decoder, behind a word per module  *)
(* that is zero when the decoder has taken the buffer (DECODERONLINE).     *)
(* Monitor and decoder are not in the repository: they are taken to keep   *)
(* to the protocol, until they die.                                        *)
(***************************************************************************)
EXTENDS Naturals, Sequences

CONSTANTS
    NumModules,
    MaxUpdates,     \* bound: updates of the statistics
    MaxBuffers,     \* bound: buffers a module saves in a run
    MaxRuns         \* bound: runs

Modules == 0 .. NumModules - 1

ASSUME SharedAssumption ==
    NumModules \in Nat \ {0} /\ MaxUpdates \in Nat /\ MaxBuffers \in Nat /\ MaxRuns \in Nat \ {0}

VARIABLES
    daq,        \* the readout: "pass", "update", "read", "wait", "copy", "count", "down"
    at,         \* the module it is at
    shmsem,     \* the semaphore: 1 if it is free
    header,     \* the update that wrote the head of the statistics (an identity: the
                \* number shmid1 itself starts anew with the process)
    statistics, \* statistics[i]: the update that wrote module i's
    monitor,    \* "idle", "reading", "gone"
    snapshot,   \* what the monitor read so far
    run,
    saved,      \* saved[i]: buffers of module i saved in this run
    buffer,     \* buffer[i]: what either half of the shared buffer holds, by run and number
    point,      \* point[i]: whether the word of module i is not zero
    decoder,    \* "idle", "half", "whole", "gone"
    decoding,   \* the module the decoder is at, and what its copy holds
    decoded,    \* decoded[i]: the buffers it took (a record of the past)
    disturbed   \* whether a run was started while it copied (likewise)

sharedStatistics == <<shmsem, header, statistics, monitor, snapshot>>
sharedBuffers == <<run, saved, buffer, point, decoder, decoding, decoded, disturbed>>
vars == <<daq, at, sharedStatistics, sharedBuffers>>

Buffer(r, n) == [run |-> r, number |-> n]
Empty == Buffer(0, 0)
Nothing == [first |-> Empty, rest |-> Empty]
NoModule == [of |-> 0, copy |-> Nothing]

Init ==
    /\ daq = "pass" /\ at = 0
    /\ shmsem = 1 /\ header = 0 /\ statistics = [i \in Modules |-> 0]
    /\ monitor = "idle" /\ snapshot = <<>>
    /\ run = 1 /\ saved = [i \in Modules |-> 0]
    /\ buffer = [i \in Modules |-> Nothing] /\ point = [i \in Modules |-> FALSE]
    /\ decoder = "idle" /\ decoding = NoModule
    /\ decoded = [i \in Modules |-> <<>>]
    /\ disturbed = FALSE

Daq(from, to) == daq = from /\ daq' = to

------------------------------------------------------------------------------
(* Statistics.                                                              *)

\* (mutant) the result of sem_trywait is not looked at
Tried == TRUE

\* sem_trywait
SemaphoreFree == shmsem = 1

\* Every few seconds: the semaphore is taken and the head written ...
UpdateSharedMemory ==
    /\ Daq("pass", "update")
    /\ SemaphoreFree
    /\ header < MaxUpdates
    /\ shmsem' = 0
    /\ header' = header + 1
    /\ at' = 0
    /\ UNCHANGED <<statistics, monitor, snapshot, sharedBuffers>>

LastModule == at = NumModules - 1

\* ... then the statistics of each module, and the semaphore is posted.
UpdateModule ==
    /\ daq = "update"
    /\ statistics' = [statistics EXCEPT ![at] = header]
    /\ IF LastModule
       THEN daq' = "read" /\ at' = 0 /\ shmsem' = 1
       ELSE at' = at + 1 /\ UNCHANGED <<daq, shmsem>>
    /\ UNCHANGED <<header, monitor, snapshot, sharedBuffers>>

\* (mutant) sem_wait in place of sem_trywait
MayWait == SemaphoreFree

MaySkip == TRUE

\* It is not time yet, or the semaphore is in use: this time nothing is written.
SkipUpdate ==
    /\ MaySkip
    /\ Daq("pass", "read")
    /\ UNCHANGED <<at, sharedStatistics, sharedBuffers>>

\* A monitor: sem_wait, copy head and modules, sem_post; it may die at any point.
MonitorTakes ==
    /\ monitor = "idle" /\ shmsem = 1
    /\ monitor' = "reading" /\ shmsem' = 0
    /\ snapshot' = <<header>>
    /\ UNCHANGED <<daq, at, header, statistics, sharedBuffers>>

MonitorCopies ==
    /\ monitor = "reading" /\ Len(snapshot) <= NumModules
    /\ snapshot' = Append(snapshot, statistics[Len(snapshot) - 1])
    /\ UNCHANGED <<daq, at, shmsem, header, statistics, monitor, sharedBuffers>>

MonitorPosts ==
    /\ monitor = "reading" /\ Len(snapshot) > NumModules
    /\ monitor' = "idle" /\ shmsem' = 1 /\ snapshot' = <<>>
    /\ UNCHANGED <<daq, at, header, statistics, sharedBuffers>>

MonitorDies ==
    /\ monitor' = "gone" /\ snapshot' = <<>>
    /\ UNCHANGED <<daq, at, shmsem, header, statistics, sharedBuffers>>

------------------------------------------------------------------------------
(* Buffers for the decoder.                                                 *)

\* The rest of a pass: no module's buffer has to be saved, ...
ReadOnly ==
    /\ Daq("read", "pass")
    /\ UNCHANGED <<at, sharedStatistics, sharedBuffers>>

\* ... or one has: SavetoFile.
SavetoFile ==
    /\ Daq("read", "wait")
    /\ \E i \in Modules : saved[i] < MaxBuffers /\ at' = i
    /\ UNCHANGED <<sharedStatistics, sharedBuffers>>

\* (mutant) the decoder is not waited for
NotAwaited == TRUE

\* point == 0
Taken == ~point[at]

\* for ( ; ; ): the word is read until it is zero; the buffer is copied ...
CopyHalf ==
    /\ Daq("wait", "copy")
    /\ Taken
    /\ saved' = [saved EXCEPT ![at] = @ + 1]
    /\ buffer' = [buffer EXCEPT ![at].first = Buffer(run, saved[at] + 1)]
    /\ UNCHANGED <<at, sharedStatistics, run, point, decoder, decoding, decoded, disturbed>>

CopyRest ==
    /\ Daq("copy", "count")
    /\ buffer' = [buffer EXCEPT ![at].rest = Buffer(run, saved[at])]
    /\ UNCHANGED <<at, sharedStatistics, run, saved, point, decoder, decoding, decoded, disturbed>>

\* ... and then the number of its words.
SetPoint ==
    /\ Daq("count", "pass")
    /\ point' = [point EXCEPT ![at] = TRUE]
    /\ at' = 0
    /\ UNCHANGED <<sharedStatistics, run, saved, buffer, decoder, decoding, decoded, disturbed>>

\* Detector::StartRun of a recorded run writes the words anew, all zero, whether the
\* decoder took the last buffers or not.
StartRun ==
    /\ daq = "pass"
    /\ run < MaxRuns
    /\ run' = run + 1
    /\ saved' = [i \in Modules |-> 0]
    /\ point' = [i \in Modules |-> FALSE]
    /\ disturbed' = (disturbed \/ decoder \in {"half", "whole"})
    /\ UNCHANGED <<daq, at, sharedStatistics, buffer, decoder, decoding, decoded>>

\* The decoder copies the buffer whose word is not zero, then makes it zero.
DecoderCopies ==
    /\ decoder = "idle"
    /\ \E i \in Modules : point[i] /\ decoding' = [of |-> i, copy |-> [Nothing EXCEPT !.first = buffer[i].first]]
    /\ decoder' = "half"
    /\ UNCHANGED <<daq, at, sharedStatistics, run, saved, buffer, point, decoded, disturbed>>

DecoderCopiesRest ==
    /\ decoder = "half"
    /\ decoding' = [decoding EXCEPT !.copy.rest = buffer[decoding.of].rest]
    /\ decoder' = "whole"
    /\ UNCHANGED <<daq, at, sharedStatistics, run, saved, buffer, point, decoded, disturbed>>

DecoderTakes ==
    /\ decoder = "whole"
    /\ decoded' = [decoded EXCEPT ![decoding.of] = Append(@, decoding.copy)]
    /\ decoding' = NoModule
    /\ point' = [point EXCEPT ![decoding.of] = FALSE]
    /\ decoder' = "idle"
    /\ UNCHANGED <<daq, at, sharedStatistics, run, saved, buffer, disturbed>>

DecoderDies ==
    /\ decoder' = "gone" /\ decoding' = NoModule
    /\ UNCHANGED <<daq, at, sharedStatistics, run, saved, buffer, point, decoded, disturbed>>

\* The DAQ dies; semaphore and memory have names and stay as they are for the next
\* process, which only opens them (OpenSharedMemory).
DaqDies ==
    /\ daq' = "down" /\ at' = 0
    /\ UNCHANGED <<sharedStatistics, sharedBuffers>>

\* Its run is a new one.
DaqRestarts ==
    /\ Daq("down", "pass")
    /\ run < MaxRuns
    /\ run' = run + 1
    /\ saved' = [i \in Modules |-> 0]
    /\ point' = [i \in Modules |-> FALSE]
    /\ disturbed' = (disturbed \/ decoder \in {"half", "whole"})
    /\ UNCHANGED <<at, sharedStatistics, buffer, decoder, decoding, decoded>>

Readout ==
    UpdateSharedMemory \/ UpdateModule \/ SkipUpdate \/ ReadOnly \/ SavetoFile
        \/ CopyHalf \/ CopyRest \/ SetPoint

Monitor == MonitorTakes \/ MonitorCopies \/ MonitorPosts
Decoder == DecoderCopies \/ DecoderCopiesRest \/ DecoderTakes

Next ==
    \/ Readout \/ StartRun
    \/ Monitor \/ MonitorDies
    \/ Decoder \/ DecoderDies
    \/ DaqDies \/ DaqRestarts

\* The readout runs; a decoder that is there takes its buffers.
Spec == Init /\ [][Next]_vars /\ WF_vars(Readout) /\ WF_vars(Decoder)

------------------------------------------------------------------------------
(* Properties.                                                              *)

TypeOK ==
    /\ daq \in {"pass", "update", "read", "wait", "copy", "count", "down"}
    /\ at \in Modules
    /\ shmsem \in 0 .. 1 /\ header \in 0 .. MaxUpdates
    /\ statistics \in [Modules -> 0 .. MaxUpdates]
    /\ monitor \in {"idle", "reading", "gone"} /\ Len(snapshot) <= NumModules + 1
    /\ run \in 1 .. MaxRuns /\ saved \in [Modules -> 0 .. MaxBuffers]
    /\ point \in [Modules -> BOOLEAN]
    /\ decoder \in {"idle", "half", "whole", "gone"}

\* What a monitor copies under the semaphore is of one update, although the readout
\* does not wait for it and may die in the middle of an update (lines 1245-1284).
SnapshotWhole == \A j, k \in DOMAIN snapshot : snapshot[j] = snapshot[k]

\* The readout and the decoder use the shared buffer in turns: every buffer that is
\* decoded is whole, and in each run they are the first, the second, ... without a
\* gap; only the last of a run may be given up (lines 592-598, 1066-1082).  The one
\* exception is a run started in the middle of the decoder's copy.
Whole(b) == b.first = b.rest

\* Buffer b follows buffer a: the next of its run, or the first of a later one.
Follows(a, b) ==
    IF a.run = b.run THEN b.number = a.number + 1 ELSE a.run < b.run /\ b.number = 1

BuffersInTurn ==
    ~disturbed =>
        \A i \in Modules : \A k \in DOMAIN decoded[i] :
            /\ Whole(decoded[i][k])
            /\ IF k = 1 THEN decoded[i][k].first.number = 1
               ELSE Follows(decoded[i][k - 1].first, decoded[i][k].first)

\* No monitor, dead or alive, keeps the readout from its next read and its next
\* pass; a decoder does only when it is gone.
ReadoutGoesOn ==
    /\ (daq = "pass") ~> (daq \in {"read", "down"})
    /\ (daq # "pass") ~> (daq \in {"pass", "down"} \/ decoder = "gone")
==============================================================================
