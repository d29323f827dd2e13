---------------------------- MODULE DetectorReadout ----------------------------
(***************************************************************************)
(* The data path of the DAQ process, src/external/daq/Detector.cc: from    *)
(* the FIFO of each Pixie-16 module through the module's buffer to its     *)
(* list-mode file and, by the group policy, to its packets in shared       *)
(* memory; and the start and stop of a run around it.                      *)
(*                                                                         *)
(* The words of a module are numbered 1, 2, ... in the order its hardware  *)
(* produced them in a run, so what is saved and what is published can be   *)
(* compared with what was produced.  A word of the model is a block of     *)
(* hardware words; the lengths below are in blocks.                        *)
(*                                                                         *)
(* The readout is one thread.  The hardware fills the FIFOs while a pass   *)
(* runs, but a pass reads nwords[i] words that it counted once, so what    *)
(* arrives later in the pass might as well arrive after it.                *)
(***************************************************************************)
EXTENDS Integers, Sequences, SequencesExt

CONSTANTS
    NumModules,
    GroupIndex,     \* group_index_: the configuration's group of each module
    PacketSize,     \* PACKET_SIZE (32768 words)
    Threshold,      \* EXTFIFO_READ_THRESH (1024 words)
    BufferLength,   \* BUFFER_LENGTH (1310720 words)
    FifoDepth,      \* EXTERNAL_FIFO_LENGTH (131072 words)
    StopTries,      \* 10*NumModules: passes StopRun waits for the modules
    RecordModes,    \* positions the user puts the Record check box to
    Faults,         \* faults that may occur: a payload cannot be loaned ("alloc"), a
                    \* FIFO cannot be queried ("check") or read ("read"), a write to
                    \* a file stores fewer words than it is given ("write")
    MaxWords,       \* bound: words a module produces in a run
    MaxId,          \* bound: no pass of the read loop once a group got to this id
    MaxRuns         \* bound: runs

Modules == 0 .. NumModules - 1
Groups == {GroupIndex[i] : i \in Modules}
Members(g) == {i \in Modules : GroupIndex[i] = g}

ASSUME ReadoutAssumption ==
    /\ NumModules \in Nat \ {0}
    /\ GroupIndex \in [Modules -> Nat]
    /\ Threshold \in Nat \ {0}
    /\ PacketSize \in Nat /\ Threshold < PacketSize
    /\ FifoDepth \in Nat /\ FifoDepth <= BufferLength
    /\ BufferLength \in Nat
    /\ StopTries \in Nat
    /\ RecordModes \subseteq BOOLEAN
    /\ MaxWords \in Nat /\ MaxId \in Nat /\ MaxRuns \in Nat

VARIABLES
    phase,      \* "ready", "running", "ending" (in StopRun), "stopped", "crashed"
    frecord,    \* the record flag
    recorded,   \* history: the record flag has been up since the run began
    fsave,      \* the run that the files of fsave were opened for; 0 is NULL
    fopen,      \* and they are not closed yet
    produced,   \* produced[i]: words module i's hardware has produced
    busy,       \* busy[i]: Pixie16CheckRunStatus(i) reports a run in progress
    counter,    \* passes StopRun made so far
    packet_id,  \* packet_id_, indexed by group
    mod,        \* mod[i]: the readout state of module i
    runs        \* runs started so far

files == <<frecord, recorded, fsave, fopen>>
vars == <<phase, files, produced, busy, counter, packet_id, mod, runs>>

\* The readout state of a module:
\*   taken     words taken out of the FIFO
\*   buffer    buffer_[i], with what older contents were not overwritten
\*   top       buffer_top_[i]
\*   position  packet_read_position_[i]
\*   unread    packet_unread_words_[i]
\*   loaned    user_payload_[i] # nullptr
\*   payload   the words in the loaned payload; header_[i]->length is its length
\*   file      the words the module's file of this run holds
\*   filesize  FILESIZE[i], the words that count as written
\*   packets   the packets published in this run
Idle(buffer) ==
    [taken |-> 0, buffer |-> buffer, top |-> 0, position |-> 0, unread |-> 0,
     loaned |-> FALSE, payload |-> <<>>, file |-> <<>>, filesize |-> 0, packets |-> <<>>]

\* The boot sets the record flag.  The constructor leaves position and unread alone,
\* but an object of 68 MB lies in fresh pages, which are zero.
Init ==
    /\ phase = "ready"
    /\ frecord = TRUE
    /\ recorded = FALSE
    /\ fsave = 0
    /\ fopen = FALSE
    /\ produced = [i \in Modules |-> 0]
    /\ busy = [i \in Modules |-> FALSE]
    /\ counter = 0
    /\ packet_id = [k \in Modules \cup Groups |-> 0]
    /\ mod = [i \in Modules |-> Idle(<<>>)]
    /\ runs = 0

------------------------------------------------------------------------------
(* One module in one pass.                                                  *)

Stale == 0      \* a word of the buffer that nothing was ever written to

\* n words of the buffer, from the read position on.
Slice(s, n) ==
    [k \in 1 .. n |-> IF s.position + k <= Len(s.buffer)
                      THEN s.buffer[s.position + k] ELSE Stale]

\* (mutant) the read position is not reset
CopyWithoutReset(s) ==
    IF s.loaned THEN [s EXCEPT !.payload = @ \o Slice(s, s.unread), !.unread = 0] ELSE s

\* The buffer is full: what is unread is copied to the payload, however long.
CopyUnread(s) ==
    IF s.loaned
    THEN [s EXCEPT !.payload = @ \o Slice(s, s.unread), !.position = 0, !.unread = 0]
    ELSE s

\* Where the words of a save go: to no file (the run is not recorded, or no file was
\* ever opened), to the file of this run, or elsewhere: to a file that an older run
\* left open, or to one that is closed.
FileTarget ==
    IF ~frecord \/ fsave = 0 THEN "none"
    ELSE IF fopen /\ fsave = runs THEN "file"
    ELSE "elsewhere"

\* The words of the buffer that fwrite stores when it loses some.
Stored(s, lost) == SubSeq(s.buffer, 1, IF lost <= s.top THEN s.top - lost ELSE 0)

\* (mutant) buffer_top_ is not reset
SaveWithoutReset(s, target, lost) ==
    IF target = "none" THEN s
    ELSE [s EXCEPT !.file = IF target = "file" THEN @ \o Stored(s, lost) ELSE @,
                   !.filesize = @ + s.top]

\* The buffer goes to the file.  A short write is told the user, but it counts as the
\* whole buffer, which is emptied all the same; without a file the buffer is kept.
SavetoFile(s, target, lost) ==
    IF target = "none" THEN s
    ELSE [s EXCEPT !.file = IF target = "file" THEN @ \o Stored(s, lost) ELSE @,
                   !.filesize = @ + s.top,
                   !.top = 0]

\* Pixie16ReadDataFromExternalFIFO appends the n oldest words of the FIFO.  When
\* it fails the code goes on as if n words had been read.
ReadFIFO(s, n, success) ==
    LET old == Slice([s EXCEPT !.position = s.top], n)
        words == IF success THEN [k \in 1 .. n |-> s.taken + k] ELSE old
    IN  [s EXCEPT !.buffer = SubSeq(@, 1, s.top) \o words \o SubSeq(@, s.top + n + 1, Len(@)),
                  !.top = @ + n,
                  !.unread = @ + n,
                  !.taken = IF success THEN @ + n ELSE @]

\* The payload outgrew its packet.  PACKET_SIZE - length is a subtraction of unsigned
\* 64 bit numbers: it wraps around, and the copy of nearly 2^64 words takes the
\* process down.
Outgrown(s) == s.loaned /\ Len(s.payload) > PacketSize

\* (mutant) the packet takes all that is unread
CopyAll(s) == s.unread

\* The unread words that fill the packet up to PACKET_SIZE.
CopyWords(s) ==
    IF s.unread + Len(s.payload) <= PacketSize THEN s.unread
    ELSE PacketSize - Len(s.payload)

\* Where the process dies the packet is not published.
PublishPacket(s, id) ==
    LET words == CopyWords(s)
    IN  IF s.loaned /\ ~Outgrown(s)
        THEN [s EXCEPT !.position = @ + words,
                       !.unread = @ - words,
                       !.packets = Append(@, [id |-> id, words |-> s.payload \o Slice(s, words)]),
                       !.loaned = FALSE,
                       !.payload = <<>>]
        ELSE s

\* (mutant) the words to come are not counted
AlreadyFull(s, n) == s.top > BufferLength

BufferFull(s, n) == n + s.top > BufferLength

\* The second loop of ReadDataFromModules: n words were counted in the FIFO.
ReadModule(s, n, success, thres, group_read, id, target, lost) ==
    LET read == group_read \/ n > thres
        saved == IF read /\ BufferFull(s, n)
                 THEN SavetoFile(CopyUnread(s), target, lost) ELSE s
        filled == IF read /\ n > 0 THEN ReadFIFO(saved, n, success) ELSE saved
    IN  IF group_read THEN PublishPacket(filled, id) ELSE filled

------------------------------------------------------------------------------
(* ReadDataFromModules.                                                     *)

nwords(i) == produced[i] - mod[i].taken

\* For which modules an operation that may fail succeeds.
Outcomes(fault) == IF fault \in Faults THEN [Modules -> BOOLEAN] ELSE {[i \in Modules |-> TRUE]}

\* How many words the writes of a pass lose.
Losses == IF "write" \in Faults THEN [Modules -> 0 .. BufferLength] ELSE {[i \in Modules |-> 0]}

\* A payload is loaned to module i if it has none and the loan succeeds.
AllocatePayload(i, loan) == [mod[i] EXCEPT !.loaned = @ \/ loan[i]]

\* Module i comes close to a full packet, its group is read.
NearlyFull(i) == nwords(i) + Len(mod[i].payload) + mod[i].unread > PacketSize - Threshold
GroupsRead == {g \in Groups : \E i \in Members(g) : NearlyFull(i)}

\* (mutant) a module is read on its own account
ReadAlone(i) == NearlyFull(i)

GroupRead(i) == GroupIndex[i] \in GroupsRead

\* (mutant) no id is advanced
SameIds == packet_id

\* packet_id_[i] is advanced for the groups i below NumModules only.
NextIds == [k \in DOMAIN packet_id |->
               IF k \in Modules /\ k \in GroupsRead THEN packet_id[k] + 1 ELSE packet_id[k]]

\* The second loop, if nothing takes the process down ...
AllRead(loan, fifo, thres, lost) ==
    [i \in Modules |->
        ReadModule(AllocatePayload(i, loan), nwords(i), fifo[i], thres, GroupRead(i),
                   packet_id[GroupIndex[i]], FileTarget, lost[i])]

\* ... which the first module does whose payload outgrew its packet, before the
\* modules behind it are read and the ids advance.
AfterPass(loan, fifo, thres, lost) ==
    LET done == AllRead(loan, fifo, thres, lost)
        dies(i) == GroupRead(i) /\ Outgrown(done[i])
        alive == \A i \in Modules : ~dies(i)
    IN  [mod |-> [i \in Modules |-> IF \E j \in 0 .. i - 1 : dies(j)
                                   THEN AllocatePayload(i, loan) ELSE done[i]],
         packet_id |-> IF alive THEN NextIds ELSE packet_id,
         alive |-> alive]

\* Pixie16CheckExternalFIFOStatus failed for module k: the pass is given up after
\* the payloads of the modules before k were allocated.
AfterFailedCheck(loan, k) ==
    [mod |-> [i \in Modules |-> IF i < k THEN AllocatePayload(i, loan) ELSE mod[i]],
     packet_id |-> packet_id,
     alive |-> TRUE]

\* A full buffer is written to a file that is closed: what becomes of the process is
\* undefined.  What it did before it dies is left out.
WritesClosed(thres) ==
    /\ frecord /\ fsave # 0 /\ ~fopen
    /\ \E i \in Modules : (GroupRead(i) \/ nwords(i) > thres) /\ BufferFull(mod[i], nwords(i))

DeadPass == [mod |-> mod, packet_id |-> packet_id, alive |-> FALSE]

\* (mutant) the end of the run is ignored
ThresholdInRun(endofrun) == Threshold

\* thres 0 is raised to EXTFIFO_READ_THRESH; at the end of the run it is 2 hardware
\* words, less than a block.
Thres(endofrun) == IF endofrun THEN 0 ELSE Threshold

\* What ReadDataFromModules may leave behind, given which loans and reads succeed.
PassOutcomes(endofrun, loan, fifo) ==
    LET thres == Thres(endofrun)
        failing == IF "check" \in Faults THEN Modules ELSE {}
    IN  {AfterPass(loan, fifo, thres, lost) : lost \in Losses}
        \cup {AfterFailedCheck(loan, k) : k \in failing}
        \cup (IF WritesClosed(thres) THEN {DeadPass} ELSE {})

\* During the run, and while StopRun waits.
ReadDataFromModules ==
    \E loan \in Outcomes("alloc"), fifo \in Outcomes("read") :
        \E pass \in PassOutcomes(FALSE, loan, fifo) :
            /\ mod' = pass.mod
            /\ packet_id' = pass.packet_id
            /\ phase' = IF pass.alive THEN phase ELSE "crashed"

------------------------------------------------------------------------------
(* The run.                                                                 *)

\* MainFrame::SetRecordDataFlag, before the first run, between runs or, after the
\* panel was locked and released (line 839), in the middle of one.
SetRecordFlag ==
    /\ phase # "crashed"
    /\ frecord' \in RecordModes \ {frecord}
    /\ recorded' = (recorded /\ (phase \in {"running", "ending"} => frecord'))
    /\ UNCHANGED <<phase, fsave, fopen, produced, busy, counter, packet_id, mod, runs>>

\* OpenSaveFile resets the readout, if the run is recorded.
FirstIds == IF frecord THEN [k \in DOMAIN packet_id |-> 0] ELSE packet_id

FirstState(i) ==
    IF frecord THEN Idle(mod[i].buffer)
    ELSE [mod[i] EXCEPT !.taken = 0, !.file = <<>>, !.packets = <<>>]

\* MainFrame::StartRun opens the files and starts the hardware.
StartRun ==
    /\ phase \in {"ready", "stopped"}
    /\ runs < MaxRuns
    /\ runs' = runs + 1
    /\ phase' = "running"
    /\ recorded' = frecord
    /\ fsave' = IF frecord THEN runs + 1 ELSE fsave
    /\ fopen' = (frecord \/ fopen)
    /\ mod' = [i \in Modules |-> FirstState(i)]
    /\ packet_id' = FirstIds
    /\ produced' = [i \in Modules |-> 0]
    /\ busy' = [i \in Modules |-> TRUE]
    /\ counter' = 0
    /\ UNCHANGED frecord

\* The hardware of module i puts a word into its FIFO.
Produce(i) ==
    /\ busy[i]
    /\ produced[i] < MaxWords
    /\ nwords(i) < FifoDepth
    /\ phase # "crashed"
    /\ produced' = [produced EXCEPT ![i] = @ + 1]
    /\ UNCHANGED <<phase, files, busy, counter, packet_id, mod, runs>>

\* A pass of MainFrame::RunReadData.
ReadPass ==
    /\ phase = "running"
    /\ \A k \in DOMAIN packet_id : packet_id[k] < MaxId
    /\ ReadDataFromModules
    /\ UNCHANGED <<files, produced, busy, counter, runs>>

\* StopRun: Pixie16EndRun succeeds, and the modules stop one after the other.
EndRun ==
    /\ phase = "running"
    /\ phase' = "ending"
    /\ UNCHANGED <<files, produced, busy, counter, packet_id, mod, runs>>

ModuleEnds(i) ==
    /\ phase = "ending"
    /\ busy[i]
    /\ busy' = [busy EXCEPT ![i] = FALSE]
    /\ UNCHANGED <<phase, files, produced, counter, packet_id, mod, runs>>

\* StopRun: while (RunStatus()) ... if (counter > 10*NumModules) break.
RunStatus == \E i \in Modules : busy[i]

\* (mutant) one pass more
Patient == counter <= StopTries + 1

\* counter > 10*NumModules ends the wait.
Waits == counter <= StopTries

\* (mutant) the passes are not counted
StopPassUncounted ==
    /\ phase = "ending"
    /\ RunStatus
    /\ ReadDataFromModules
    /\ UNCHANGED <<files, produced, busy, counter, runs>>

StopPass ==
    /\ phase = "ending"
    /\ RunStatus
    /\ Waits
    /\ ReadDataFromModules
    /\ counter' = counter + 1
    /\ UNCHANGED <<files, produced, busy, runs>>

\* The loop over the modules after the last readout.  CloseFile saves once more, which
\* changes nothing: the buffer is empty, or it has no file to go to.
CloseModule(s, id, target, lost) ==
    LET saved == SavetoFile(s, target, lost)
    IN  IF s.loaned
        THEN [saved EXCEPT !.packets = Append(@, [id |-> id, words |-> s.payload]),
                           !.loaned = FALSE,
                           !.payload = <<>>]
        ELSE saved

AllClosed(pass) ==
    {[i \in Modules |-> CloseModule(pass.mod[i], pass.packet_id[i], FileTarget, lost[i])] :
        lost \in Losses}

\* CloseFile closes the files if the record flag is up, whether they are open or not:
\* fclose(NULL) takes the process down, a second fclose is undefined.
CloseEnds ==
    IF ~frecord \/ fopen THEN {"stopped"}
    ELSE IF fsave = 0 THEN {"crashed"}
    ELSE {"stopped", "crashed"}

\* StopRun: the last readout, then every module is saved and closed.
FinishStop ==
    /\ phase = "ending"
    /\ ~RunStatus \/ ~Waits
    /\ \E loan \in Outcomes("alloc"), fifo \in Outcomes("read") :
          \E pass \in PassOutcomes(TRUE, loan, fifo) :
             /\ packet_id' = pass.packet_id
             /\ IF pass.alive
                THEN mod' \in AllClosed(pass) /\ phase' \in CloseEnds
                ELSE mod' = pass.mod /\ phase' = "crashed"
    /\ fopen' = (fopen /\ ~frecord)
    /\ UNCHANGED <<frecord, recorded, fsave, produced, busy, counter, runs>>

Next ==
    \/ SetRecordFlag \/ StartRun \/ ReadPass \/ EndRun \/ StopPass \/ FinishStop
    \/ \E i \in Modules : Produce(i) \/ ModuleEnds(i)

Spec == Init /\ [][Next]_vars

\* The read loop goes round while the run lasts, StopRun goes through its passes,
\* and the user stops the run; the modules need not ever report their end.
FairSpec == Spec /\ WF_vars(StopPass) /\ WF_vars(FinishStop)

------------------------------------------------------------------------------
(* Properties.                                                              *)

Words == 0 .. MaxWords

ModuleState ==
    [taken: Words, buffer: Seq(Words), top: Nat, position: Nat, unread: Nat,
     loaned: BOOLEAN, payload: Seq(Words), file: Seq(Words), filesize: Nat,
     packets: Seq([id: Nat, words: Seq(Words)])]

TypeOK ==
    /\ phase \in {"ready", "running", "ending", "stopped", "crashed"}
    /\ frecord \in BOOLEAN /\ recorded \in BOOLEAN
    /\ fsave \in 0 .. runs /\ fopen \in BOOLEAN
    /\ produced \in [Modules -> Words]
    /\ busy \in [Modules -> BOOLEAN]
    /\ counter \in 0 .. StopTries + 1
    /\ packet_id \in [Modules \cup Groups -> Nat]
    /\ mod \in [Modules -> ModuleState]
    /\ runs \in 0 .. MaxRuns

Increasing(q) == \A j, k \in DOMAIN q : j < k => q[j] < q[k]

FirstWords(n) == [k \in 1 .. n |-> k]

\* The words after the first n of a stream, m of them.
NextWords(n, m) == [k \in 1 .. m |-> n + k]

\* FILESIZE counts the words that left the buffer, and the buffer holds the next ones;
\* the file holds words of the counted ones, in order and none twice, and it holds
\* every one if it is as long as FILESIZE says.
FileStream(s) ==
    /\ s.filesize + s.top = s.taken
    /\ SubSeq(s.buffer, 1, s.top) = NextWords(s.filesize, s.top)
    /\ Len(s.file) <= s.filesize
    /\ Increasing(s.file)
    /\ \A k \in DOMAIN s.file : s.file[k] <= s.filesize
    /\ Len(s.file) = s.filesize => s.file = FirstWords(s.filesize)

Published(s) == FlattenSeq([k \in DOMAIN s.packets |-> s.packets[k].words])

\* Of the words taken out of a FIFO none is lost, repeated or moved on the way to the
\* file, although the buffer is saved at arbitrary points (lines 763-800, 1091-1100),
\* but for the words of a write that was short: those are missing, they count as
\* written, and nothing behind them is disturbed.
FileKeepsStream == recorded => \A i \in Modules : FileStream(mod[i])

\* Nor on the way to shared memory: the packets, then the payload being filled,
\* then what is unread in the buffer, are the same stream.  The buffer is saved
\* and reused under the payload's feet (lines 763-788, 803-827).  The words of
\* the last readout are not published, but none before them is lost.
OnlineKeepsStream ==
    recorded => \A i \in Modules :
        LET s == mod[i] IN Published(s) \o s.payload \o Slice(s, s.unread) = FirstWords(s.taken)

\* What the run produced has gone to the file when StopRun is through (line 1167:
\* "Make sure all data has been read out"), unless a module did not end its run; it
\* is all there if no write was short, that is, if the file is as long as FILESIZE.
FileComplete ==
    phase = "stopped" /\ recorded /\ ~RunStatus =>
        \A i \in Modules :
            /\ mod[i].filesize = produced[i]
            /\ Len(mod[i].file) = produced[i] => mod[i].file = FirstWords(produced[i])

\* A packet never outgrows DaqPacket::data (lines 766-777 copy whatever is unread;
\* 813 subtracts the length from PACKET_SIZE), and it never gets more words than
\* are unread.
PacketWithinSize ==
    \A i \in Modules :
        LET s == mod[i] IN
        /\ Len(s.payload) <= PacketSize
        /\ \A k \in DOMAIN s.packets : Len(s.packets[k].words) <= PacketSize

\* No receiver ever gets a packet that is longer than DaqPacket::data, whatever the
\* sizes and whatever fails: a payload that outgrew it (lines 766-777) takes the
\* process down in the same pass (813) and is not published, and no payload outgrows
\* its packet unnoticed, to be published by StopRun (1175), which does not look.
PublishedWithinSize ==
    \A i \in Modules : \A k \in DOMAIN mod[i].packets :
        Len(mod[i].packets[k].words) <= PacketSize

\* buffer_[i] is never written beyond its end (line 790) in a run that is recorded
\* from its start on.
BufferWithinLength == recorded => \A i \in Modules : mod[i].top <= BufferLength

\* While there may be something to copy to a payload, it lies below the top of the
\* buffer (the check in lines 779-781): the buffer is never emptied without it.
UnreadBelowTop ==
    phase \in {"running", "ending"} =>
        \A i \in Modules : mod[i].position + mod[i].unread <= mod[i].top

PacketIds(s) == [k \in DOMAIN s.packets |-> s.packets[k].id]

\* While a run lasts, the packets of a module carry increasing ids, and members of
\* a group use one id for one pass only: ids below packet_id_ are used up.
RunningSequence ==
    phase \in {"running", "ending"} =>
        \A i \in Modules :
            /\ Increasing(PacketIds(mod[i]))
            /\ \A k \in DOMAIN mod[i].packets : mod[i].packets[k].id < packet_id[GroupIndex[i]]

\* The packets of a module are numbered in sequence to the end of the run.
PacketSequence == \A i \in Modules : Increasing(PacketIds(mod[i]))

\* The group policy: a pass publishes packets of all members of a group or of none.
GroupPublishedTogether ==
    phase \in {"running", "ending"} =>
        \A i, j \in Modules :
            GroupIndex[i] = GroupIndex[j] => PacketIds(mod[i]) = PacketIds(mod[j])

\* A run starts with nothing left over from the run before.
RunStartsReset ==
    [][phase' = "running" /\ phase # "running" =>
          \A i \in Modules :
              /\ mod'[i].top = 0 /\ mod'[i].unread = 0 /\ mod'[i].position = 0
              /\ packet_id'[i] = 0]_vars

\* StopRun comes to an end even if a module never reports the end of its run; it takes
\* the process down only if a payload outgrew its packet, or if the Record box was
\* changed in mid-run, so that it closes files that are not open.
StopCompletes ==
    (phase = "ending") ~>
        \/ phase = "stopped"
        \/ phase = "crashed" /\ (~recorded \/ \E i \in Modules : Outgrown(mod[i]))
==============================================================================
