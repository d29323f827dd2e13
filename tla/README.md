# Verification of the Pixie-16 online DAQ

TLA+ models of the program that reads Pixie-16 digitizers, writes list-mode
files and hands the data to online analyses through shared memory
(`src/external/daq`, `src/src`, `src/include`), and of the two examples and the
template that come with it (`src/examples`, `src/template`), with TLC
configurations that check them and TLAPS proofs about them. Names in the modules
are the names of the code; file and line references are to `src/`.

## 1. The system

```
 Pixie-16 FIFOs,                                   +--> monitor   (statistics, semaphore)
 or fake_pixie  --> Detector (DAQ process) --------+--> decoder   (buffer, word per module)
                        |   ^         |  \
      GUI button        |   |         |   +--> list-mode files, one per module
      gRPC clients -----+---+         |
        StartRun / RunReadData        +--> online_information.txt (the run)
            (MainFrame)                         |
                        |                       v
                        +--> iceoryx publishers, one per module (DaqPacket)
 dssd_simulation ------>+         |  subscriber queues of 40, history of 5
                                  v
                   OnlineDataReceiver (analysis process)
                     group matching --> event building --> vectors of events
                                  |
                   main thread: FillOnlineGraph;  GUI thread: draw, keys, screenshots
```

| Component | State | Operations | Interacts through |
|---|---|---|---|
| Readout, group policy (`external/daq/Detector.cc`) | `buffer_`, `buffer_top_`, `packet_read_position_`, `packet_unread_words_`, `user_payload_`, `packet_id_`, `frecord`, `fsave`, `FILESIZE` | `ReadDataFromModules`, `SavetoFile`, `OpenSaveFile`, `CloseFile`, `StartRun`, `StopRun`, `RunStatus` | hardware FIFOs, files, publishers; called by run control |
| Run control (`external/daq/MainFrame.cc`) | `fstartdaq`, `runnum`, `start_flag_mutex_`, the call stacks | `StartRun`, `RunReadData`, `SetFileName`, `ChangeRunNumber` | GUI events handled inside the read loop, remote threads |
| Remote control server (`src/remote_grpc_server.cpp`) | none | start, change, query | calls run control from gRPC threads |
| Group matching (`src/online_data_receiver.cpp`, take loop) | `user_payload_`, `group_info_` (expected id, count), `has_taken_` | `ReceiveEvent` up to line 187, the release in 241-254 | subscriber queues |
| Event building (same file, event loop) | `decode_offset_`, `first_events_`, `event_` | `SearchDecodeOffset`, `Decode`, the loop of `ReceiveEvent` | packets of a completed group |
| Shared memory of readout, monitor and decoder (`Detector.cc`) | statistics, `shmsem`, the decoder's buffer and word | `UpdateSharedMemory`, the `DECODERONLINE` part of `SavetoFile` and `StartRun` | other processes, which may die |
| Online program (`template/online_template.cpp`, made into both examples; `include/signal_handler.h`) | `should_refresh_`, `should_save_`, termination flag, screenshot name | main loop, `UpdateGui`, `SignalHandler` | two threads, signals, the information file of the DAQ |
| DSSD example (`examples/dssd_simulation`) | payloads, `packet_id`, histograms | simulated publisher, `FillOnlineGraph` | in the place of the DAQ; through the receiver |
| Pixie simulation (`examples/pixie_simulation`) | `module_data_`, `module_status_`, `count_`, `detect_time_` | the driver's functions the DAQ calls, `FillOnlineGraph` | in the place of the driver; through DAQ and receiver |
| Boot, configuration | DSP parameters | `ReadConfigFile`, `BootSystem` | hardware |
| Panels, monitors, offline analysis | widgets, histograms | display and parameters | |
| `external/pixie` (vendored driver) | hardware | FIFO and run calls | |

### What is hard

* **Losses on a channel that is realigned.** Every module has its own stream; a
  queue drops its oldest packet, a payload that cannot be loaned leaves a hole,
  a late subscriber sees five packets of history, and the publisher goes on while
  the receiver takes. Three branches of the take loop restore the alignment.
  Correct: a group is decoded only with a packet of every member under one id,
  in increasing order; nothing is released that could still be matched; and the
  alignment converges.
* **Two consumers of one buffer.** The buffer of a module is saved to its file
  and copied to packets, at different times and in different amounts, and is
  emptied when full. Correct: neither stream loses, repeats or reorders a word.
* **Limits.** Buffer length, packet size, FIFO depth, unsigned subtractions.
* **Partial failure.** One payload, FIFO query, FIFO read or write to a file of several
  fails; the record flag changes in the middle of a run.
* **Re-entrance and threads.** `StartRun` runs the read loop, the loop processes
  GUI events, and these call `StartRun` again; remote threads call it too.
  Correct: the mutex is never waited for by its holder and always given back;
  a stop takes effect in every loop; no run number is used twice.
* **Merging.** Event vectors from streams cut at any word. Correct: each decoded
  hit in exactly one vector, vectors in time order, coincident hits together.
* **Processes that die.** Monitor, decoder or DAQ may be gone in the middle of an
  update; the semaphore has a name and survives them. Correct: what is read is of
  one update, buffers are taken whole and in turn, the readout goes on.
* **Data torn between packets.** One particle has hits in several modules; packets
  are exchanged, a frame is made or a hit is dropped between two of them, and the hits
  of one particle differ in time. Correct: a pixel or a spot is made of hits of one particle,
  or of particles that the detector cannot tell apart.
* **Two threads and a signal.** The GUI thread uses locals of main; keys, closed
  windows and signals come at any time, while the DAQ rewrites the file that
  names the run. Correct: the program ends, no picture is missed or misnamed.

`PROJECT.json` lists the hazards one by one, each at its line, with the
properties that would catch it, or with the reason why none does.

## 2. Modules

| Module | Models | State and actions |
|---|---|---|
| `AlignedGroups` | abstract: the group policy | ids published per module, ids decoded per group; `Publish`, `DecodeGroup` |
| `OnlineReceiver` | the take loop of `ReceiveEvent` with publisher and queues | below |
| `EventBuilder` | the event loop of `ReceiveEvent` | below |
| `DetectorReadout` | readout, files and packets of a run | below |
| `RunControl` | `StartRun`, `RunReadData`, remote calls | below |
| `SharedMemory` | the readout's statistics and decoder buffers | below |
| `OnlineProgram` | a user's program: two threads, keys, signals, information file | below |
| `DssdSimulation` | the simulated publisher of the DSSD example | below |
| `DssdOnline` | that publisher, group policy, vectors and `FillOnlineGraph` | extends `DssdSimulation` |
| `HardwareFifo` | abstract: what the DAQ takes for granted of a module's FIFO | `Store`, `Deliver` |
| `FakePixie` | the stand-in driver and the DAQ's calls to it | below |
| `FakeOnline` | that driver, packets, vectors and `FillOnlineGraph` | extends `FakePixie` |
| `OnlineReceiver_proofs`, `DetectorReadout_proofs`, `EventBuilder_proofs`, `RunControl_proofs`, `OtherProcesses_proofs` (shared memory and program), `DssdOnline_proofs`, `FakeOnline_proofs` | theorems about them | section 4 |
| `StreamLemmas` | facts about sequences and their concatenation that these share | section 4 |
| `MC*` | small instances for TLC | section 3 |

**OnlineReceiver.** `held[m]` is the id of the packet behind `user_payload_[m]`;
`expect_id`, `valid_packets` and `has_taken` are the fields of the code. A call of
`ReceiveEvent` is a sequence of steps: one per module of the take loop
(`NothingToTake`, `TakeLarger`, `TakeSmaller`, `TakeEqual` are the branches of
lines 114-172), `CheckGroups` (175-187), and one step of the event loop for the
group at the back of `has_taken_` (`ReturnEvent`, `CleanGroup`). `Publish`,
`MissPacket` and `Subscribe` happen between any two of them. What a packet holds is
only the number of vectors it yields, chosen when the group completes.
`published` and `decoded` are records of the past for the refinement.

**EventBuilder.** A packet is its length and the events whose header begins in it.
`SearchDecodeOffset` looks for `ValidCount` headers in a row; behind an event that
is cut off the code compares with a wrapped unsigned difference and reads
whatever the memory holds, so the model chooses (`stale`). A round of the loop
refills the first events of all modules, then starts a vector (`NewEvent`), adds
to it (`AddMatches`), returns it (`ReturnEvent`) or releases the packets (`Clean`). The
window is positive: with a window of 0 the code's comparison (283-284) never matches
anything, not even the reference with itself.

**DetectorReadout.** Words are numbered in the order the hardware produced them.
`mod[i]` holds the module's buffer, top, read position, unread words, payload, file,
`FILESIZE` and packets. `ReadModule` is the body of the second loop of
`ReadDataFromModules` (lines 760-837): copy before saving a full buffer, save,
read the FIFO, publish. `SavetoFile` has all its ways out: nothing without the record
flag, nothing without a file (1085-1089), a write that stores all or fewer words than it
was given and empties the buffer in either case (1091-1100). `FileTarget` says which
file that is: `fsave` and `fopen` are the file pointers, which outlive a run that was
not recorded. In line 813 a payload that is longer than its packet
makes the unsigned difference wrap around; the copy of nearly 2^64 words
ends the process before anything is published (`Outgrown`, `AfterPass`). `PassOutcomes` adds the
failures: loans, FIFO reads (whose words are counted all the same) and FIFO queries (the
pass is given up). `SetRecordFlag` is the Record box, at any time: during a run it is disabled,
but locking and unlocking the panel enables it again (MainFrame.cc:839).
`StartRun` resets what `OpenSaveFile` resets, that is, nothing unless the run is
recorded. `StopPass` and `FinishStop` are `StopRun`, with its bounded wait, the last
readout with the low threshold, the publication of what is left in the payloads and
`CloseFile` (`CloseEnds`).

**RunControl.** Every thread has a stack of calls, each with the place it is at:
waiting for the mutex, naming files, starting the detector, raising the flag, in
the loop, reading, processing events, stopping. `PressInLoop` pushes a call of
`StartRun` while the loop below it processes GUI events (line 971).
`RemoteStart` and `RemoteChange` are calls from gRPC threads; the latter tests
the flag without the mutex and sets the number later, as the code does.

**SharedMemory.** The readout writes the head and then one module after the other
(`UpdateSharedMemory`, `UpdateModule`) if `sem_trywait` succeeds, and skips the
update if not. With `DECODERONLINE` a full buffer is copied in two halves and
then its word is set (`CopyHalf`, `CopyRest`, `SetPoint`), after a busy wait for
the word to be zero. Monitor and decoder are not in the repository: they are
external and follow the protocol that the code implies. Each of the three may die
between any two steps, and the DAQ may come back, which only opens the semaphore
and the memory. A buffer carries its run and number, an update its number, so
that what is read can be compared with what was written. The record flag and the
decoder flag are on.

**OnlineProgram.** `main` and `gui` are the places of the two threads. Main reads
the name of the screenshots (template only), starts the GUI thread, constructs the
receiver (which reads the run to subscribe to), and goes round: look for the
signal, receive, fill. The GUI thread tests for termination, handles every canvas,
and processes events, in which keys and closed windows call `SignalHandler`. The
DAQ publishes and starts runs; the information file is empty between its opening
and its closing (`Unset`). Vectors of a group are a number.

**DssdSimulation, DssdOnline.** Particles hit a front and a back strip; time counts
dead times. `StoreHit` puts one hit in the packet of its module; when that is full
all packets are published in a loop under one id and replaced (`PublishPacket`),
possibly between the two hits of a particle. An interval is nothing or one dead time;
`PileUp` bounds how many are nothing. `DssdOnline` adds the group policy
as an action that decodes any newer id all members published (any may be lost), the vectors
`EventBuilder` shows such packets to give, and the analysis.

**FakePixie, FakeOnline.** The stand-in driver makes a frame of particles whenever
a module is asked for its data size and a frame time has passed, so a frame may
come between the questions for two modules (`CheckExternalFIFOStatus`) of one
pass. `FillBinaryData` drops a hit for which there is no room. Positions are in half strips, and
`XStrip` and `YStrip` quantise them as `int(x+25.5)` and `int(y+25.0)` do, which puts y half a strip
low; the delays at the ends of a wire, and those of the DSSD's strips, are times of their own.
`FakeOnline` makes packets of what a pass reads, whatever they hold, and merges them hit by hit as the
receiver's event loop does (`NewEvent`, `AddMatches`, `FillOnlineGraph` for a vector that is returned,
`Clean`), with the timestamps' unit and the window. The strongest hit of a side
may be any of its strips, because their calibrations differ; a spot is computed
as the code does, from sums over the planes.

The components are separate modules because the code's interfaces separate them:
the receiver sees the readout only through packet ids that ascend per module and may
miss, which is what `DetectorReadout` shows (`RunningSequence`) and what
`OnlineReceiver`'s environment assumes (`InTurn`, `Publish`, `MissPacket`); the two
end-to-end modules use the receiver through its abstract policy, and the readout
through `HardwareFifo` on one side and its unbroken stream on the other.

## 3. Runs

`readout_oversize` is the run in which TLC must find the property violated: the code
does something else than the repository's own text says (section 5). All others pass.

| Run | Instance | Properties | Shows |
|---|---|---|---|
| `receiver_safety` | modules 0, 1 in a group, 2 alone; queues 2, history 1, ids 0..2 | `Accounting`, `DecodedTogether`, `GroupPolicy`, `NoNeedlessRelease` | a group is decoded together, the abstract policy is implemented, no packet is given up that could be matched |
| `receiver_live` | one pair, ids 0..3 | `LastIdDecoded` | the last id both published is decoded, whatever was lost before |
| `readout_stream` | two modules of a group, packets of 3 blocks, buffer 4, FIFO 3, 5 words each, writes that lose any number of words | `TypeOK`, `FileKeepsStream`, `OnlineKeepsStream`, `FileComplete`, `GroupPublishedTogether` | packets carry the stream unbroken, and so does the file but for the words of short writes; members publish together |
| `readout_faults` | one module, two runs, FIFO longer than a packet, loans, queries and reads that fail, a module that never stops, the Record box changed at any time | `BufferWithinLength`, `PublishedWithinSize`, `RunningSequence`, `StopCompletes` | buffer bound of recorded runs, no overlong packet is published, ids, `StopRun` ends or takes the process down for a reason it names |
| `readout_oversize` | FIFO longer than a packet, as in the code | `PacketWithinSize` | the packet outgrows `DaqPacket::data` |
| `builder_safety` | all pairs of cut packets of 2 or 3 events, all timestamp orders, window 2 | `TypeOK`, `EachHitOnce`, `SortedStreamsSortedVectors`, `CoincidencesTogether`, `EventsDecoded`, `PacketsReleased` | each hit once, ordered and complete vectors, release, termination |
| `control_local` | GUI alone, two presses in a pass of the loop, three nested calls, failing files, starts and ends, numbers up to 4 | `NumbersFresh`, `StopEndsRun` | no start opens an earlier run's files, a stop takes effect in every loop |
| `control_remote` | GUI and two clients, nested calls, every failure | `LockDiscipline`, `FlagHasReader`, `LockReleased` | mutex discipline, the flag has a reader, the mutex is given back |
| `shared_memory` | two modules, one update, two runs of up to two buffers, every process may die at any point | `SnapshotWhole`, `BuffersInTurn`, `ReadoutGoesOn` | one update is read, buffers are taken whole and in turn, only a dead decoder stops the readout |
| `online_program` | template with one canvas and fake_online with two; two runs | `PicturesNamed`, `SignalEnds`, `SavesPrinted` | the program ends, save keys are answered, no picture is named after a newer run |
| `dssd_online` | two modules of two strips on either side, three pixels with near energies, packets of 3 hits, 8 particles, two in a dead time, lost packets, failing loans | `HitsKept`, `TornToNextPacket`, `PixelsTrue`, `InnerParticlesFilled`, `IntervalsTelescope` | no hit lost on the way, hits of two particles are paired only if each lost its other hit, inner particles counted once |
| `fake_online` | two PPACs, one module on either side, two runs, three particles, data of 12 hits, dead time 9, window 9, unit of time 2 | `TornForward`, `PixelsTrue`, `TargetTrue`, `ActsAsFifo` | the driver is the FIFO the DAQ expects, torn only forward, pixels and spots are of particles nearly at one time, a particle's spot is off by no more than its strips |

Where a type invariant is proved for every value of the constants no run checks it once
more, except for those of `DetectorReadout`, whose state is the largest, and of
`EventBuilder`, where memory behind a packet could put offsets out of range.

### Bounds, and why they are enough

* Receiver: a queue of 2 and a history of 1 overflow within three ids, in different
  states of the two modules, so all three branches, release of a partner, late
  subscription and holes occur in every combination; module 2 runs beside the
  pair so that two groups complete in one take loop. Capacities, modules and ids are
  unbounded in the proofs. `MaxVectors` is 1: further vectors repeat the same step.
* Readout: a word of the model is a block of hardware words. The last readout's
  threshold of two hardware words is less than a block, because the FIFO holds whole
  events of at least four words. Packet 3 > threshold 1 and buffer 4 keep the order of
  the code's sizes; the buffer holds more
  than one packet and less than two, so it fills up in the middle of one. Five words per module fill and save the buffer
  in mid-packet. `readout_stream` keeps FIFO <= packet to separate the stream
  properties from the oversize finding; `readout_faults` and `readout_oversize` have the code's
  order, FIFO 3 to packet 2 and 7 to 3. In `readout_faults` payloads do outgrow their packets, in recorded runs
  and in others, and files are closed that are not open.
  One module is enough there, since modules meet only in the group
  policy; `MaxId` bounds the passes that publish, and `StopTries` is 0, which leaves
  `StopRun` one pass to wait.
* Builder: headers of 4 words, events of 4 and 5, cut in and behind the header and at
  both ends; validation of two headers in a row stands for five.
* Control: two nested calls stop a run from within its loop and start the next in
  the same pass, and the third on the stack stops that. With remote clients one nested call is
  enough, since each thread has a stack of its own. `MaxRun` bounds the run numbers only.
* Shared memory: two modules show a torn update; a second buffer needs the word of the
  first back, and a second run is the restart or the next `StartRun`. The proofs
  lift all four bounds.
* Program: a group of two vectors has a middle; two runs make names differ; two
  canvases make one handled and one not.
* DSSD: three hits to a packet tear a particle at every place; eight particles publish
  two packets of every module that hold several times, either of which may be lost. Each pixel
  has one of three peaks: neighbours agree within the cut, the outer ones do not. The pixels have
  modules of their own and modules in common, so that two particles of one dead time
  (`PileUp` 1) may lose one hit each, of either side, and the hits left be paired: such a mixed pixel occurs
  in the run, and so does one with two intervals behind it.
  `AnalysisFirst` orders two processes of which one only reads what the other published: an id is
  decoded and its vectors are filled before the next hit is stored, or the id is lost. It is a constraint of
  the run alone; the proofs have every order.
* Pixie simulation: a particle through both planes has ten hits in the PPAC module, so a
  second one overflows its 12 places; frames of one particle may fall between
  any two questions; the second run begins with what the first left. The dead time, 9 ns, is no
  multiple of the timestamps' unit, 2 ns, so that two particles a dead time apart may be nearer than the
  window of 9 ns. Pixels and spots that mix particles of one dead time and of
  two, and vectors that mix both runs, occur. `LostOnlyWhenFull` is proved for every value of the
  constants and left out of the run for its time.

`CHECK_DEADLOCK FALSE` is set where the system may stop: no further runs or words
(readout), packets released (builder), nobody presses (control), the program has
exited, the simulation was told to stop or its bound of particles is reached, every process of the
shared memory has died. The receiver can always start another `ReceiveEvent` and is
checked for deadlock.

### Fairness

* `OnlineReceiver!FairSpec`: the analysis loop calls `ReceiveEvent` as long as it
  lives (`template/online_template.cpp`), and iceoryx establishes each subscription.
  The publisher is not fair: it may stop for ever.
* `EventBuilder!FairSpec`: the same loop.
* `DetectorReadout!FairSpec`: `StopRun`'s own loop goes on. Modules need not
  ever report their end, nor produce.
* `RunControl!FairSpec`: weak fairness of what a thread does in a call. A thread that
  waits for the mutex may starve, and nobody needs to press or call.
* `OnlineProgram!ProgramSpec`: both threads are scheduled and `ProcessEvents` returns. Keys,
  signals, packets and runs are not fair.
* `SharedMemory!Spec`: the readout runs, and a decoder that is alive takes its buffers,
  without which the DAQ's busy wait has no end. The monitor is not fair.

## 4. Proofs

`OnlineReceiver_proofs` holds for any number of modules, any grouping, any queue and
history capacities, any number of ids and vectors (`ReceiverAssumption`).

* `GroupInvariant`: `Spec => []GroupInv`, with
  `GroupInv == TypeOK /\ Accounting /\ DecodedTogether /\ TakeOnlyWhenEmpty`.
  None of the first three is inductive alone. `valid_packets` stays
  in its type because it counts held packets (`Accounting`); a group under decoding keeps
  its packets because nothing is taken meanwhile (`TakeOnlyWhenEmpty`); and
  `DecodedTogether` follows from a full count only together with the ids. Each action
  has its own lemma; the arithmetic of the counts is done with
  `FiniteSetTheorems`.
* `TypeCorrect`, `AccountingCorrect`, `GroupsDecodedTogether` are its conjuncts.
* `NothingReleasedInVain`: `Spec => NoNeedlessRelease`, from a third invariant
  (`ReleaseInv`): queues and histories are in increasing order, nothing waits before the
  subscription, and every id a group has passed over without decoding it lacks a
  member for good (`PassedOver`). The last is what makes the release of a packet on arrival
  right (160-166): its id was passed over, and the packet itself shows that the member which
  lacks it is another. What cannot be delivered any more stays so (`GoneStays`),
  because a queue only loses its head, gains a larger id, or is set when the
  subscription is established.
* `ImplementsPolicy`: `Spec => GroupPolicy`. A step of the receiver is a step of
  `AlignedGroups` or a stutter. It needs a second invariant: what is held, queued or
  in the history was published, and ids decoded lie below `expect_id` (`Origin`).

`DetectorReadout_proofs` holds for any modules and groups, any sizes of FIFO, buffer,
packet and threshold with `Threshold < PacketSize` and `FifoDepth <= BufferLength`, and
all faults (`ReadoutAssumption`).

* `ReadoutInvariant`: `Spec => []IInv`, with
  `IInv == TypeOK /\ FifoInv /\ Bounded /\ Sized`. `FifoInv` says that a buffer is
  filled up to its top and that a FIFO holds what was produced and not taken; without
  it a pass could take more words than there are. One lemma per helper of the code
  says what it does to a module's state; `PassKeeps` puts them together for all
  outcomes of a pass, and the actions of the run follow from it.
* `TypeCorrect` is a conjunct. `BuffersBounded`: buffers stay in their bounds in a run that is
  recorded from its start on (`recorded`); section 5 shows that they do not otherwise.
* `PacketsBounded`: no packet longer than its array is ever published, for any sizes. It holds
  with the code's FIFO of four packets, although payloads do outgrow their packets there, which is the
  finding `readout_oversize`: a payload that is not read fits with all that
  waits for it, because it would have been read otherwise (751-757, `Sized`), and one that
  outgrew its packet in a pass is copied to once more in the same pass, with the wrapped length.
* `IdsIncrease`, `GroupsPublishTogether`: what the receiver relies on. A second
  invariant (`IdsInv`), inductive relative to `IInv`: a pass leaves a module's ids alone
  or appends the id of its group and then advances it, if the group's index is
  below the number of modules (`OwnGroups`), and with a payload for everyone it does
  the same for all members.

* `FileIsTheStream`, `PacketsAreTheStream`, `FileGetsEverything`, all for runs recorded from their
  start on: the words that count as written, then the buffer, are the first words that the
  module's hardware produced, as many as were taken; the file holds those words in order and each once, and all of
  them if it is as long as `FILESIZE` says. Packets, payload and unread words are the same
  stream. Short writes are part of the model, and what they lose is what the file lacks: nothing
  behind a short write is lost, repeated or moved.
  Each theorem needs what the code needs: a FIFO read that fails counts its words all the same
  (`ReadsSucceed`), a payload that is not loaned leaves words out of the packets (`AlwaysLoaned`),
  and a last query that fails leaves words in the FIFO (`ChecksSucceed`). Other faults
  and all sizes are included; where a payload outgrows its packet the stream is whole as
  long as the process lives. Runs in which the record flag was changed are not: their files may be
  missing, closed or another run's (section 5).
  The invariant (`StreamInv`) has file and buffer, and packets, payload and unread words, as
  concatenations that equal the first words the hardware produced, as many as were
  taken; that the unread words reach to the top of the buffer; and what
  `StopRun` has left. One lemma per helper of the code says what it moves from one to the
  other.

`EventBuilder_proofs` holds for any modules, packets that are well formed, positive window,
header size and number of validated headers (`BuilderAssumption`), and for whatever the memory
behind a packet holds.

* `TypeCorrect`, `NoneLeftBehind`: from `PlaceInv`: the offset of a module is the place of an
  event, or the end of the last, and a first event that waits lies just before it.
* `EveryHitOnce`: from `CountInv`, which adds that a module's hits in the vectors, followed by
  the event that waits, are the events between the start and the offset. A
  round changes the offset, the first event and the vectors at once, so the equation is proved for a
  round that refills and for one that does not, with what a concatenation selects of a module.
* `VectorsInOrder`, `CoincidencesKept`: from `OrderInv`, relative to `PlaceInv`, for streams in
  the order of time. Its parts say that no hit taken is older than the reference of
  its vector or an earlier one, that what waits or is still to be decoded is no
  older than the last reference, that it lies the window beyond every
  reference of a finished vector, and that a vector's hits lie within it. The third
  is what is lost for streams out of order; section 5 has what remains there.

`DssdOnline_proofs` holds for any numbers of front and back modules, channels, hits in a
packet, particles, particles in a dead time, failing loans and lost packets
(`SimulationAssumption`).

* `PublisherInvariant`: `Spec => [](PublisherInv /\ PacketsInv)`. `PublisherInv` has the
  types, the hits that wait (both hits of the last particle or its back hit) and the pass that publishes: under
  the number of the passes before it, module by module. `PacketsInv` is about the packet at each position
  of each module, published or under construction: its hits are particles'
  (`HitsTrue`), later packets hold later particles, across modules (`InOrder`), and while the back hit of
  a particle waits, its front hit is in a packet under construction or in one after which
  all packets are empty (`FrontStored`). The last is what `Torn` needs to
  be inductive.
* `TornOnlyToNext` follows, because the id of a packet is its position.
* `NoHitLost`: `HitsKept` by the conservation of what is sent, under construction and
  waiting, as far as it is of one module.
* `AnalysisInvariant`: `Spec => [](PublisherInv /\ PacketsInv /\ HistInv)`. `HistInv` has
  that the vectors that wait are of the id decoded last (`VectorsLast`), that every pixel is
  earlier than they are and than something decoded (`PixelsBehind`), that pixels are in the order of time
  (`Increasing`), whose particles they are (`PixelsHit`), and that a vector that makes a
  pixel waits or is filled (`AllFilled`). `PixelsBehind` makes the pixels of two packets
  one sequence: a newer id holds no particle earlier than one behind a pixel (`InOrder`), which is where
  the publisher's invariant is needed.
* `NoFalsePixel`, `InnerParticlesAreFilled`, `IntervalsAreTimes` follow from it. A pixel of two
  particles is of a vector with exactly two hits, all the hits of its time that were decoded; so the other
  hit of either particle was not, and the energies are those the cut compared.

`StreamLemmas` has what these need of sequences: that `FlattenSeq` of the community modules
concatenates, what a stretch of a sequence is, and what the elements of one kind in it are (`Picked`), what its elements are (`Elements`), and that a
recursive function over a stretch of numbers exists (`Recursion`). Their proofs are inductions over
data. The library states induction for an operator, which none of the provers can
instantiate; `NumberInduction` states it for a set of numbers, and follows from
`WFMin`, which is about sets.

`RunControl_proofs` holds for any number of clients, presses per pass, depth of
nested calls, failures and run numbers (`ControlAssumption`).

* `ControlInvariant`: `Spec => []ControlInv`, with
  `ControlInv == TypeOK /\ LockDiscipline /\ FlagHasReader`. Three lemmas
  say what an operation on a stack (move on, return, enter) must respect, and one
  lemma per kind of step cites them. `LockDiscipline` is what makes nested calls
  safe: a call is entered only where the thread does not hold the mutex.
* `TypeCorrect`, `LockDisciplined`, `FlagRead` are its conjuncts.
* `FreshNumbers`: `Spec => []NumbersFresh` in a build without remote calls (`Clients = {}`), for any
  number of presses in a pass, any nesting and all faults. The invariant (`NumberInv`) is about
  the innermost call of the GUI: the calls below it wait in a pass of their loops
  (`CallersWait`), so from the test of the flag to the end of a start or a stop nobody else
  changes flag or number; and the numbers used are below the next one, or the next one is in use,
  from the start of a run to the end of the call that stops it. With clients it fails (section 5).

`OtherProcesses_proofs` is about the processes beside the readout. Its first part is about
`SharedMemory`, for any number of modules, updates, buffers and runs
(`SharedAssumption`) and every death of every process.

* `SharedInvariant`: `Spec => []IInv`, with
  `IInv == Types /\ StatisticsInv /\ BufferInv /\ TurnInv`. The semaphore and the word
  are independent protocols, and so are their invariants. `StatisticsInv`: who finds
  the semaphore free sees one update; a DAQ that died in the middle of one has
  left it taken. `BufferInv`: a buffer whose word is set is whole and nobody writes
  it. `TurnInv`: what the decoder lacks of a run is the one buffer that is in
  shared memory; without it the buffers would be whole but could be out of turn.
* `TypeCorrect`, `SnapshotsWhole`, `BuffersTaken` follow from it.

Its second part is about `OnlineProgram`, for any finite set of canvases and any numbers of
vectors, groups and runs (`ProgramAssumption`).

* `PicturesNamedRight`: `PicturesNamed` from `NameInv`: the file names the DAQ's run or
  nothing, and of the two readings of it the screenshots' comes first.
* `ProgramTypeCorrect`: the types of the two threads.

`FakeOnline_proofs` holds for any number of planes from two on, any size of the detectors, any
modules, channels, slots, particles, sizes of the buffers, frames and runs (`FakeAssumption`).

* `PixieTypeCorrect`: `Spec => []PixieTypes`. Its core is `TrueHits`: every hit in data or
  delivered is one that `Detect` gives for the particle whose number it has. New
  particles only add to these hits (`StillTrue`), which makes it inductive over frames.
* `NothingLostUnlessFull`: `LostOnlyWhenFull` from `StoredInv`, which is about what
  delivered and waiting data are together. A read moves hits from one to the
  other; a frame appends what `FillAllStores` shows, by induction over the frame: some of
  its hits, in order, and all of them if they fit.
* `DriverIsFifo`: `Spec => ActsAsFifo`: frames store, reads deliver, all else stutters.
* `OnlineInvariant`: `Spec => [](PixieTypes /\ TearInv)`. `Answered` says that a module still has
  what it answered when it is read. `Torn` is `TornForward` of packets made and to be made: what is
  unread, or counted in this pass, is in the next packet, what came after the module was
  asked is in the one after that (`Bag`). A frame between the questions gives its hits to
  the next packet in modules not yet asked and to the one after in the others, which is
  the only way to tear a particle. A read that does not publish moves
  both to the next packet, and so brings a torn particle together again (`TornKept`).
* `ParticlesTornForward` follows.

Only model-checked: all liveness (`LastIdDecoded`, `StopCompletes`, `PacketsReleased`,
`LockReleased`, `StopEndsRun`, `ReadoutGoesOn`, `SignalEnds`, `SavesPrinted`), which is out of the
prover's reach; and of the analysis of `fake_online.cpp` `PixelsTrue` and `TargetTrue`, which
depend on the merge of hits that are not in the order of time. Every other invariant
and every refinement that a passing run checks is also proved, under the conditions named here.

## 5. Where code and text disagree, and what else was seen

Kept as a run: the oversize packet (Detector.cc:766-777 without the cap of 810-813).
`PROJECT.json` quotes the text.

The others can be reproduced by changing the configuration named.

Readout, with `MCDetectorReadout`:

* The counter of the last packet (Detector.cc:1172 against 829) is another than that of
  all others: two modules of one group with `PacketSequence`, which is defined in
  the module.
* A short write loses words for good (Detector.cc:1095-1100): a line is printed, `FILESIZE` counts
  all the words, and the buffer is emptied as if they were stored. So a file may be shorter than its
  `FILESIZE`, without what was lost; `FileKeepsStream` and `FileComplete` say no more than that
  nothing else is missing. A missing file keeps the buffer as it is (1085-1089), and the readout
  appends to it.
* The Record box can be changed in the middle of a run (MainFrame.cc:839). A run that began without
  it closes files that are not open, or were closed before (1127), and saves to no file or to
  that of an older run. From `MCDetectorReadout_faults.cfg` with `Faults = {}`:
  `RunStartsReset` is violated, because a run that is not recorded resets nothing (1025);
  `StopCompletes` without its exception for such runs, because the process may die in `CloseFile`;
  and, with `MaxWords = 4`, `BufferWithinLength` without its condition `recorded`, because
  nothing leaves the buffer (787, 1084). The code then writes into what lies behind the array;
  the model lets the buffer grow.
* From the same file with `Faults = {"alloc"}`, `RecordModes = {TRUE}`, `MaxWords = 6`, `MaxId = 4`:
  `UnreadBelowTop` is violated. When no payload is loaned the full buffer is saved but
  position and unread words stay (764-788).
* From the same file with `Faults = {}` and `GroupIndex <- SparseGroup`: `RunningSequence` is violated.
  The id of a group whose index is not below the number of modules is never advanced (839).
* A payload that outgrew its packet makes the difference in line 813 wrap around, and the copy
  ends the process; the finding kept as a run shows that this happens with the code's sizes.

Event building, with `MCEventBuilder_safety.cfg`:

* `AllHitsReturned`: the vector under construction when a packet ends is lost
  (online_data_receiver.cpp:241).
* `VectorWithinWindow`: two hits of a vector may be twice the window apart (284).
* An event of exactly four words at the end of a packet is validated (377) but not
  decoded (213, 235); `EventsDecoded` states what is decoded. A packet with fewer than five events
  validates nothing, so nothing of it is decoded.
* A module whose hits are not in the order of time, as the Pixie simulation's PPACs with their delays,
  breaks the order of the vectors; the theorems about order are for streams in order.

Run control:

* A run may start inside the loop of the one being stopped (MainFrame.cc:971), because events are
  processed there; its loop is then the one that the next stop ends.
* `StopRun` is given up after eleven tries, and the next run starts over it (975-981).
* Two clients: a remote start during a run stops it, as the button
  does (remote_grpc_server.cpp:38-39); a stop and a start of two threads may leave two
  threads reading one detector; `ChangeRunNumber` may take effect in the middle of a start.
* The number is advanced after the flag is cleared and the mutex given back (935-940). `MCRunControl_remote.cfg` with `MaxRun = 1`,
  `RunNumbers = {}`, `Faults = {}` violates `NumbersFresh`: a remote start between the
  two opens the files of the run that has just ended again.

Shared memory, seen in the traces of `MCSharedMemory_crash.cfg`:

* A DAQ or monitor that dies with the named semaphore ends the statistics for good:
  `sem_trywait` fails in every process to come (Detector.cc:1248). The spectrum
  (1286-1307) and the path of the file (1309-1314) are written without the semaphore.
* A decoder that dies while the flag is on stops the readout for ever in line 1068.
* `StartRun` discards the last buffer if it was not taken, and disturbs a decoder in mid-copy (592-598),
  which is why `BuffersInTurn` excepts `disturbed`.

Online program:

* `Fill` in the main thread and `Reset` or `Draw` in the GUI thread use the same
  histograms without a lock; the model takes a fill to be one step.
* While the DAQ rewrites the information file a reader finds it empty, and the receiver's
  number of modules stays uninitialised (`OnlineDataReceiver` of the model may crash). The run that
  `GetScreenShotName` reads stays uninitialised as well; the model has one value for it, `Unset`,
  which is no run's number.
* A screenshot may be named after an older run than it shows, and a receiver is bound
  to the run of its start.

Examples:

* DSSD: a module that was never hit when another is full has no header
  (dssd_simulation.cpp:336); the result of a failed loan is used (143); a negative
  value of the Gaussian is cast to an unsigned time (301).
* DSSD: two particles nearer in time than a dead time that lose one hit each, of either side, are paired
  into a pixel neither of them hit if their energies are near (`PixelsTrue` allows exactly these).
* Pixie: PPAC hits say slot 2 whatever the configuration; with the default slots 2 to 6 the
  first front module is invisible to the analysis, which needs 2, 4, 5, 6, 7.
  `MCFakeOnline_sim.cfg` with `Strips = 4`, `Shots <- Corners`, `MaxRuns = 1`, `FifoHits = 30`, `Threshold = 1`,
  `Enough = 2` shows pixels that no particle made when `SlotMap <- DefaultSlots` is added.
* Pixie: hits left of a run come first in the next, so time goes back, and a vector may hold hits
  of two runs; `PixelsTrue` and `TargetTrue` except those. Pixels and spots may be of particles that are up
  to two dead times apart.
* Pixie: the y position is half a strip low (detector.cpp:43 against 31), and the spot is off accordingly.
* Pixie: `MapSlots` copies five entries whatever the number of modules; frames are made after the end
  of a run; `GetStatus` accepts an index equal to the number of modules; `GetDataSize` answers
  -1 as an unsigned number.

## 6. Not modelled

* Boot, configuration, panels, monitors, offline analysis: sequences of hardware calls,
  file parsing, floating point and plotting, without a protocol. Group indices
  are a constant, taken to be naturals.
* The vendored driver: its calls are external operations.
* The spectrum and the path in shared memory, and the values of the statistics.
* Contents of events other than length, timestamp and, in the examples, strip and
  peak; file headers and names beyond the run number.
* A return value of `Pixie16CheckRunStatus` other than 0 and 1, which the driver does not
  give for a booted module: the sum of `RunStatus` is then a disjunction.
* Packets longer than the five headers `SearchDecodeOffset` validates at their beginning are those the
  end-to-end modules stand for; their hits are whole. The last hit of each packet and
  the last vector are lost there as in the code.
* The way out of the take loop for an error other than an empty queue (online_data_receiver.cpp:122-127): it
  is for a subscriber that holds too many chunks, and the receiver holds at most one of each.
* The files of a run are opened and closed together; that one of several cannot be opened is the
  missing file of `DetectorReadout` and the fault `open` of `RunControl`. The Record box changes
  between passes. Closing a file that is not open ends the process or does not, as the model chooses.
* `FakeOnline` leaves out the final packets of a run, and analyses a vector before the DAQ goes on:
  neither changes what the other reads. Its packets have no limit of size, which does not change
  the direction in which particles are torn. The PPACs' resolution of 0.35 ns is left out.
* In `DssdSimulation` an interval that is not within a dead time is exactly one.
* The process crashing with files open: nothing is recovered from disk; the receiver's
  start is covered by late subscription.

## 7. Plan

Done, in the order of importance: group matching with its abstract policy and proofs;
readout with short writes, missing files and the record box, with proofs; event building with proofs; run control with proofs;
shared memory with proofs; the program of the user with proofs; both examples from the
simulated particle to the histogram, with proofs, those of the Pixie simulation up to its packets.

What could be added:

1. `OnlinePipeline`: `DetectorReadout`'s packets through the queues into
   `OnlineReceiver`, with a restart of the run while the
   receiver lives (ids begin at 0 again).
2. `RunControl`: the panel during a start, and which of several files could not be opened.
