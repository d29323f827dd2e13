---------------------------- MODULE OnlineProgram ----------------------------
(***************************************************************************)
(* The program a user makes of src/template/online_template.cpp (the two   *)
(* examples are such programs): the main thread receives and fills, the    *)
(* GUI thread draws, answers keys and takes screenshots, a signal ends     *)
(* both; and the file through which the DAQ tells it the run.              *)
(*                                                                         *)
(* "template" is the template and dssd_online.cpp, which read the name of  *)
(* the screenshots once and empty a group of packets before they look for  *)
(* the signal; "fake_online" is fake_online.cpp, with several canvases,    *)
(* which looks for the signal before every vector and reads the name for   *)
(* every screenshot.                                                       *)
(***************************************************************************)
EXTENDS Naturals, FiniteSets

CONSTANTS
    Canvases,   \* of fake_online; the template has one of them
    MaxVectors, \* bound: vectors of a group of packets
    MaxGroups,  \* bound: groups published in a run
    MaxRun      \* bound: runs, numbered from 1

ASSUME ProgramAssumption ==
    /\ IsFiniteSet(Canvases) /\ Canvases # {}
    /\ MaxVectors \in Nat /\ MaxGroups \in Nat /\ MaxRun \in Nat \ {0}

Runs == 1 .. MaxRun
Unset == 0              \* what is read from a file that is still empty
Keys == {"refresh", "save"}

VARIABLES
    program,    \* "template", "fake_online"
    used,       \* the canvases of the program
    daq_run,    \* the run of the DAQ
    info,       \* online_information.txt: a run, or Unset while it is rewritten
    queue,      \* queue[r]: groups of packets published in run r and not taken
    main,       \* where the main thread is
    gui,        \* where the GUI thread is
    handled,    \* canvases the GUI thread is done with in this round
    left,       \* vectors left in the group in the receiver
    event,      \* fake_online: a vector waits to be filled
    screenshot_name,    \* the run in the template's screenshot_name
    run_,       \* run_ of the receiver
    requested,  \* hasTerminationRequested
    flags,      \* should_refresh_ and should_save_ that are set, as <<key, canvas>>
    pressed,    \* the keys without an answer (a record of the past)
    picture     \* the run in the name of the last screenshot

threads == <<main, gui, handled, left, event>>
files == <<daq_run, info, queue>>
programVars == <<program, used, files, threads, screenshot_name, run_, requested, flags,
          pressed, picture>>

ProgramInit ==
    /\ \/ program = "template" /\ \E c \in Canvases : used = {c}
       \/ program = "fake_online" /\ used = Canvases
    /\ daq_run = 1 /\ info = 1
    /\ queue = [r \in Runs |-> 0]
    /\ main = IF program = "template" THEN "name" ELSE "start"
    /\ gui = "none" /\ handled = {}
    /\ left = 0 /\ event = FALSE
    /\ screenshot_name = Unset /\ run_ = Unset
    /\ requested = FALSE
    /\ flags = {} /\ pressed = {} /\ picture = Unset

\* The process is there.
Up == main \notin {"exited", "crashed"}

------------------------------------------------------------------------------
(* The DAQ.                                                                 *)

\* A new run opens the information file, which empties it ...
DaqStartRun ==
    /\ info = daq_run
    /\ daq_run < MaxRun
    /\ daq_run' = daq_run + 1
    /\ info' = Unset
    /\ UNCHANGED <<program, used, queue, threads, screenshot_name, run_, requested,
                   flags, pressed, picture>>

\* ... and what was written gets there when it is closed.
SaveOnlineInformation ==
    /\ info = Unset
    /\ info' = daq_run
    /\ UNCHANGED <<program, used, daq_run, queue, threads, screenshot_name, run_, requested,
                   flags, pressed, picture>>

\* A group of packets, for whoever subscribed to the run.
DaqPublish ==
    /\ info = daq_run
    /\ queue[daq_run] < MaxGroups
    /\ queue' = [queue EXCEPT ![daq_run] = @ + 1]
    /\ UNCHANGED <<program, used, daq_run, info, threads, screenshot_name, run_, requested,
                   flags, pressed, picture>>

------------------------------------------------------------------------------
(* The main thread.                                                         *)

Main(from, to) == main = from /\ main' = to

\* GetScreenShotName of the template.
GetScreenShotName ==
    /\ Main("name", "start")
    /\ screenshot_name' = info
    /\ UNCHANGED <<program, used, files, gui, handled, left, event, run_, requested, flags, pressed, picture>>

StartGui ==
    /\ Main("start", "construct")
    /\ gui' = "test"
    /\ UNCHANGED <<program, used, files, handled, left, event, screenshot_name, run_, requested,
                   flags, pressed, picture>>

\* The constructor subscribes to the run it reads.  Of an empty file it reads
\* nothing: module_num_ and run_ stay uninitialised, and either the loops over
\* the modules go wrong or they find none.
OnlineDataReceiver ==
    /\ \/ Main("construct", "alive")
       \/ Main("construct", "crashed") /\ info = Unset
    /\ run_' = info
    /\ UNCHANGED <<program, used, files, gui, handled, left, event, screenshot_name, requested,
                   flags, pressed, picture>>

\* (mutant) the signal is looked for once
AliveAlways == TRUE

Alive == ~requested

\* The loop of main looks for the signal.
TestAlive ==
    /\ Main("alive", CASE ~Alive -> "join" [] Alive /\ event -> "fill" [] OTHER -> "receive")
    /\ UNCHANGED <<program, used, files, gui, handled, left, event, screenshot_name, run_,
                   requested, flags, pressed, picture>>

AfterVector == IF program = "template" THEN "fill" ELSE "alive"

SubscribedRun == run_

Waiting == SubscribedRun # Unset /\ queue[SubscribedRun] > 0

\* ReceiveEvent takes a group if there is one, returns its vectors one by one, and
\* then, or if there is none, null.
ReceiveEvent ==
    /\ \/ /\ left > 0
          /\ Main("receive", AfterVector)
          /\ left' = left - 1
          /\ event' = TRUE
          /\ UNCHANGED queue
       \/ /\ left = 0
          /\ Main("receive", "alive")
          /\ event' = FALSE
          /\ IF Waiting
             THEN /\ left' \in 0 .. MaxVectors
                  /\ queue' = [queue EXCEPT ![SubscribedRun] = @ - 1]
             ELSE UNCHANGED <<left, queue>>
    /\ UNCHANGED <<program, used, daq_run, info, gui, handled, screenshot_name, run_, requested,
                   flags, pressed, picture>>

FillOnlineGraph ==
    /\ Main("fill", "receive")
    /\ event' = FALSE
    /\ UNCHANGED <<program, used, files, gui, handled, left, screenshot_name, run_, requested,
                   flags, pressed, picture>>

\* (mutant) main does not wait
NoJoin == TRUE

Joined == gui = "done"

Join ==
    /\ Joined
    /\ Main("join", "exited")
    /\ UNCHANGED <<program, used, files, gui, handled, left, event, screenshot_name, run_,
                   requested, flags, pressed, picture>>

------------------------------------------------------------------------------
(* The GUI thread.                                                          *)

Gui(from, to) == Up /\ gui = from /\ gui' = to

GuiUnchanged ==
    UNCHANGED <<program, used, files, main, left, event, screenshot_name, run_>>

TestTermination ==
    /\ Gui("test", IF requested THEN "final" ELSE "draw")
    /\ handled' = {}
    /\ GuiUnchanged /\ UNCHANGED <<requested, flags, pressed, picture>>

\* (mutant) the run at hand, for all programs
NameNow == info

\* The run in the name of a screenshot.
PictureRun == IF program = "template" THEN screenshot_name ELSE info

ShouldDo(key, c) == <<key, c>> \in flags

\* A flag that is found set is cleared; every canvas has a handler of its own.
Cleared(c) == {f \in flags : f[2] # c}

\* A canvas is drawn, its histograms are reset and its picture taken if the keys
\* were pressed.
HandleCanvas(c) ==
    /\ c \in used \ handled
    /\ Gui("draw", IF handled \cup {c} = used THEN "events" ELSE "draw")
    /\ handled' = handled \cup {c}
    /\ flags' = Cleared(c)
    /\ pressed' = pressed \ {<<k, c>> : k \in {k \in Keys : ShouldDo(k, c)}}
    /\ picture' = IF ShouldDo("save", c) THEN PictureRun ELSE picture
    /\ GuiUnchanged /\ UNCHANGED requested

\* ProcessEvents calls SignalHandler::Refresh for a key and Terminate for a canvas
\* that is closed; both run in this thread.
Refresh(key, c) ==
    /\ Gui("events", "events")
    /\ c \in used
    /\ flags' = flags \cup {<<key, c>>}
    /\ pressed' = pressed \cup {<<key, c>>}
    /\ GuiUnchanged /\ UNCHANGED <<handled, requested, picture>>

Terminate ==
    /\ Gui("events", "events")
    /\ requested' = TRUE
    /\ GuiUnchanged /\ UNCHANGED <<handled, flags, pressed, picture>>

EventsProcessed ==
    /\ Gui("events", "test")
    /\ GuiUnchanged /\ UNCHANGED <<handled, requested, flags, pressed, picture>>

\* After the loop every canvas is printed once more.
FinalPrint ==
    /\ Gui("final", "done")
    /\ picture' = PictureRun
    /\ pressed' = pressed \ {<<"save", c>> : c \in used}
    /\ GuiUnchanged /\ UNCHANGED <<handled, requested, flags>>

\* SIGINT or SIGTERM from outside.
Interrupt ==
    /\ Up
    /\ requested' = TRUE
    /\ UNCHANGED <<program, used, files, threads, screenshot_name, run_, flags, pressed, picture>>

MainThread ==
    GetScreenShotName \/ StartGui \/ OnlineDataReceiver \/ TestAlive \/ ReceiveEvent
        \/ FillOnlineGraph \/ Join

UpdateGui ==
    TestTermination \/ (\E c \in Canvases : HandleCanvas(c)) \/ FinalPrint

Environment ==
    DaqStartRun \/ SaveOnlineInformation \/ DaqPublish \/ Terminate \/ Interrupt
        \/ \E k \in Keys, c \in Canvases : Refresh(k, c)

ProgramNext == MainThread \/ UpdateGui \/ EventsProcessed \/ Environment

\* Both threads are scheduled, and ProcessEvents returns; nothing is assumed of the
\* user, the signals and the DAQ.
ProgramSpec ==
    /\ ProgramInit /\ [][ProgramNext]_programVars
    /\ WF_programVars(MainThread) /\ WF_programVars(UpdateGui) /\ WF_programVars(EventsProcessed)

------------------------------------------------------------------------------
(* Properties.                                                              *)

ProgramTypes ==
    /\ program \in {"template", "fake_online"} /\ used \subseteq Canvases
    /\ daq_run \in Runs /\ info \in Runs \cup {Unset} /\ {run_, screenshot_name, picture} \subseteq Runs \cup {Unset}
    /\ queue \in [Runs -> 0 .. MaxGroups]
    /\ main \in {"name", "start", "construct", "alive", "receive", "fill", "join",
                 "exited", "crashed"}
    /\ gui \in {"none", "test", "draw", "events", "final", "done"}
    /\ left \in 0 .. MaxVectors
    /\ flags \subseteq Keys \X Canvases /\ pressed \subseteq Keys \X Canvases

\* The template never names a picture after a newer run than the data on it: name
\* and run are read at different times, but the name first (lines 171, 182).  An
\* older run, or the nothing of an empty file, is possible.
PicturesNamed ==
    program = "template" /\ run_ # Unset => picture <= run_

\* Once a signal is there the program ends, with packets arriving all the time: a
\* group has an end, and after it main looks for the signal.
SignalEnds == requested ~> ~Up

\* A press of the save key yields a screenshot before the program is gone, even if
\* it is told to end before the key is looked at: main waits for the GUI thread, and
\* that prints once more (lines 74-84, 194).
SavesPrinted ==
    \A c \in Canvases :
        <<"save", c>> \in pressed ~> (<<"save", c>> \notin pressed \/ main = "crashed")
==============================================================================
