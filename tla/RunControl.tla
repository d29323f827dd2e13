------------------------------ MODULE RunControl ------------------------------
(***************************************************************************)
(* Starting and stopping runs: MainFrame::StartRun and RunReadData         *)
(* (src/external/daq/MainFrame.cc), called by the GUI's button and, in a   *)
(* build with REMOTE_CONTROL_GRPC, by the threads that serve remote calls  *)
(* (src/src/remote_grpc_server.cpp).                                       *)
(*                                                                         *)
(* StartRun toggles: it starts a run and stays in the read loop, or clears *)
(* fstartdaq for the loop to notice.  The loop itself processes GUI events *)
(* (gSystem->ProcessEvents), so the call that stops a run is made inside   *)
(* the loop of that run, and every thread has a stack of such calls.       *)
(***************************************************************************)
EXTENDS Integers, Sequences

CONSTANTS
    Gui,            \* the thread of the GUI
    Clients,        \* threads of remote calls; none without REMOTE_CONTROL_GRPC
    EventsPerPass,  \* presses of the button one ProcessEvents may handle
    Faults,         \* calls that may fail: OpenSaveFile ("open"),
                    \* Detector::StartRun ("start"), Pixie16EndRun ("end")
    RunNumbers,     \* numbers a remote client may ask for
    MaxDepth,       \* bound: calls of StartRun on one stack
    MaxRun          \* bound: no run is started once the number is larger

Threads == {Gui} \cup Clients
Nobody == <<>>
NoRun == -1

ASSUME ControlAssumption ==
    /\ Gui \notin Clients /\ Nobody \notin Threads
    /\ EventsPerPass \in Nat /\ MaxDepth \in Nat \ {0} /\ MaxRun \in Nat
    /\ RunNumbers \subseteq Nat

VARIABLES
    stack,      \* stack[t]: the calls thread t is in, each with its place and
                \* the GUI events its current pass has handled
    lock,       \* the holder of start_flag_mutex_, or Nobody
    fstartdaq,  \* the flag that keeps the read loops going
    runnum,     \* runnum and the number in the GUI
    runnumber,  \* Detector::runnumber, and the number in the file names
    run,        \* number of the run the hardware and the publishers serve, or NoRun
    recorded    \* numbers of the runs started so far (a record of the past)

vars == <<stack, lock, fstartdaq, runnum, runnumber, run, recorded>>
runVars == <<runnumber, run, recorded>>

Init ==
    /\ stack = [t \in Threads |-> <<>>]
    /\ lock = Nobody
    /\ fstartdaq = FALSE
    /\ runnum = 0
    /\ runnumber = 0
    /\ run = NoRun
    /\ recorded = {}

Top(t) == stack[t][Len(stack[t])]
At(t, place) == stack[t] # <<>> /\ Top(t).at = place
Goto(t, place) == stack' = [stack EXCEPT ![t][Len(stack[t])].at = place]
Return(t) == stack' = [stack EXCEPT ![t] = SubSeq(@, 1, Len(@) - 1)]

\* (mutant) the mutex is kept
ReturnLocked(t) == Return(t) /\ UNCHANGED lock

\* The last statement of a call: it gives the mutex back and returns.
UnlockAndReturn(t) == lock' = Nobody /\ Return(t)

MayFail(fault) == IF fault \in Faults THEN BOOLEAN ELSE {FALSE}

------------------------------------------------------------------------------
(* Calls of StartRun.                                                       *)

Frame == [at |-> "lock", events |-> 0]

\* Someone calls StartRun; the bound is on the calls that are made to start a run.
MayCall == fstartdaq \/ runnum <= MaxRun

\* The button is pressed: in the GUI's own event loop,
Press ==
    /\ stack[Gui] = <<>>
    /\ MayCall
    /\ stack' = [stack EXCEPT ![Gui] = <<Frame>>]
    /\ UNCHANGED <<lock, fstartdaq, runnum, runVars>>

MayPress(t) == Top(t).events < EventsPerPass

\* or in a pass of a read loop.
PressInLoop(t) ==
    /\ At(t, "events")
    /\ MayPress(t)
    /\ Len(stack[t]) < MaxDepth
    /\ MayCall
    /\ stack' = [stack EXCEPT ![t] =
                    Append([stack[t] EXCEPT ![Len(stack[t])].events = @ + 1], Frame)]
    /\ UNCHANGED <<lock, fstartdaq, runnum, runVars>>

\* RunControl, kActionRunStart.
RemoteStart(c) ==
    /\ stack[c] = <<>>
    /\ MayCall
    /\ stack' = [stack EXCEPT ![c] = <<Frame>>]
    /\ UNCHANGED <<lock, fstartdaq, runnum, runVars>>

\* RunControl, kActionRunChange: the flag is tested first, without the mutex.
RemoteChange(c) ==
    /\ stack[c] = <<>>
    /\ RunNumbers # {}
    /\ ~fstartdaq
    /\ stack' = [stack EXCEPT ![c] = <<[Frame EXCEPT !.at = "change"]>>]
    /\ UNCHANGED <<lock, fstartdaq, runnum, runVars>>

ChangeRunNumber(c) ==
    /\ At(c, "change")
    /\ runnum' \in RunNumbers
    /\ Return(c)
    /\ UNCHANGED <<lock, fstartdaq, runVars>>

------------------------------------------------------------------------------
(* StartRun.                                                                *)

EnterToStart(t) ==
    /\ At(t, "lock")
    /\ lock = Nobody
    /\ ~fstartdaq
    /\ runnum <= MaxRun
    /\ lock' = t
    /\ Goto(t, "name")
    /\ UNCHANGED <<fstartdaq, runnum, runVars>>

\* The run is to be stopped: fstartdaq = 0 is all that happens under the mutex.
EnterToStop(t) ==
    /\ At(t, "lock")
    /\ lock = Nobody
    /\ fstartdaq
    /\ fstartdaq' = FALSE
    /\ Goto(t, "count")
    /\ UNCHANGED <<lock, runnum, runVars>>

\* (mutant) the run number stays
CountNothing(t) ==
    /\ At(t, "count")
    /\ Return(t)
    /\ UNCHANGED <<lock, fstartdaq, runnum, runVars>>

\* ++runnum, after the mutex was given back.
CountRun(t) ==
    /\ At(t, "count")
    /\ runnum' = runnum + 1
    /\ Return(t)
    /\ UNCHANGED <<lock, fstartdaq, runVars>>

\* (mutant) the flag goes up with the files
OpenFilesAndRaise(t) ==
    /\ At(t, "name")
    /\ runnumber' = runnum
    /\ \E failed \in MayFail("open") :
          /\ fstartdaq' = ~failed
          /\ IF failed THEN UnlockAndReturn(t) ELSE Goto(t, "start") /\ UNCHANGED lock
    /\ UNCHANGED <<runnum, run, recorded>>

\* SetFileName names the files after the run, OpenSaveFile opens them.
OpenFiles(t) ==
    /\ At(t, "name")
    /\ runnumber' = runnum
    /\ fstartdaq' = FALSE
    /\ \E failed \in MayFail("open") :
          IF failed THEN UnlockAndReturn(t) ELSE Goto(t, "start") /\ UNCHANGED lock
    /\ UNCHANGED <<runnum, run, recorded>>

\* Detector::StartRun: the hardware run and the publishers.
DetectorStartRun(t) ==
    /\ At(t, "start")
    /\ run' = runnumber
    /\ recorded' = recorded \cup {runnumber}
    /\ Goto(t, "flag")
    /\ UNCHANGED <<lock, fstartdaq, runnum, runnumber>>

DetectorStartFails(t) ==
    /\ At(t, "start")
    /\ "start" \in Faults
    /\ UnlockAndReturn(t)
    /\ UNCHANGED <<fstartdaq, runnum, runVars>>

\* (mutant) the mutex guards the whole function
RaiseFlagLocked(t) ==
    /\ At(t, "flag")
    /\ fstartdaq' = TRUE
    /\ Goto(t, "loop")
    /\ UNCHANGED <<lock, runnum, runVars>>

RaiseFlag(t) ==
    /\ At(t, "flag")
    /\ fstartdaq' = TRUE
    /\ lock' = Nobody
    /\ Goto(t, "loop")
    /\ UNCHANGED <<runnum, runVars>>

------------------------------------------------------------------------------
(* RunReadData.                                                             *)

\* (mutant) the loop goes round once more
LoopOn(t) ==
    /\ At(t, "loop")
    /\ Goto(t, "read")
    /\ UNCHANGED <<lock, fstartdaq, runnum, runVars>>

\* while(fstartdaq)
TestFlag(t) ==
    /\ At(t, "loop")
    /\ Goto(t, IF fstartdaq THEN "read" ELSE "stop")
    /\ UNCHANGED <<lock, fstartdaq, runnum, runVars>>

ReadDataFromModules(t) ==
    /\ At(t, "read")
    /\ stack' = [stack EXCEPT ![t][Len(stack[t])] = [at |-> "events", events |-> 0]]
    /\ UNCHANGED <<lock, fstartdaq, runnum, runVars>>

EventsProcessed(t) ==
    /\ At(t, "events")
    /\ Goto(t, "loop")
    /\ UNCHANGED <<lock, fstartdaq, runnum, runVars>>

\* while(detector->StopRun()): given up if Pixie16EndRun keeps failing.
StopRun(t) ==
    /\ At(t, "stop")
    /\ \E failed \in MayFail("end") : run' = IF failed THEN run ELSE NoRun
    /\ Return(t)
    /\ UNCHANGED <<lock, fstartdaq, runnum, runnumber, recorded>>

------------------------------------------------------------------------------

\* What thread t does by itself once it is in a call.
Step(t) ==
    \/ EnterToStart(t) \/ EnterToStop(t) \/ CountRun(t)
    \/ OpenFiles(t) \/ DetectorStartRun(t) \/ DetectorStartFails(t) \/ RaiseFlag(t)
    \/ TestFlag(t) \/ ReadDataFromModules(t) \/ EventsProcessed(t) \/ StopRun(t)
    \/ ChangeRunNumber(t)

Next ==
    \/ Press
    \/ \E c \in Clients : RemoteStart(c) \/ RemoteChange(c)
    \/ \E t \in Threads : PressInLoop(t) \/ Step(t)

Spec == Init /\ [][Next]_vars

\* Every thread goes on, but a thread that waits for the mutex need not get it
\* ahead of others, and nobody needs to call StartRun.
FairSpec == Spec /\ \A t \in Threads : WF_vars(Step(t))

------------------------------------------------------------------------------
(* Properties.                                                              *)

Places == {"lock", "name", "start", "flag", "count", "loop", "read", "events",
           "stop", "change"}

TypeOK ==
    /\ stack \in [Threads -> Seq([at: Places, events: 0 .. EventsPerPass])]
    /\ lock \in Threads \cup {Nobody}
    /\ fstartdaq \in BOOLEAN
    /\ runnum \in Nat /\ runnumber \in Nat
    /\ run \in Nat \cup {NoRun}
    /\ recorded \subseteq Nat

Starting == {"name", "start", "flag"}
Reading == {"loop", "read", "events"}

\* The mutex is held exactly while a call is between opening the files and
\* raising the flag, and only the innermost call of the holder is: a call waiting
\* for the mutex never waits for a call below it on its own stack, although
\* StartRun is entered again from within StartRun (lines 850-938, 971).
LockDiscipline ==
    \A t \in Threads :
        /\ lock = t => stack[t] # <<>>
        /\ \A k \in DOMAIN stack[t] :
              stack[t][k].at \in Starting <=> lock = t /\ k = Len(stack[t])

\* The flag is up only while some call is in its read loop: a start that fails, a
\* stop that races a start, never leave a run that is "running" unread.
FlagHasReader ==
    fstartdaq => \E t \in Threads : \E k \in DOMAIN stack[t] : stack[t][k].at \in Reading

\* Every way through StartRun gives the mutex back (lines 874, 916, 923, 937).
LockReleased == \A t \in Threads : lock = t ~> lock # t

\* A start never opens the files of an earlier run: not one that starts in the loop of
\* the run being stopped (line 971), nor one after a run whose end was given up
\* (975-981).  The number is advanced by the call that stops the run (940), not by the
\* one that started it, and a start that failed has used none.
NumbersFresh == \A t \in Threads : At(t, "start") => runnumber \notin recorded

\* Once the flag is cleared the run comes to its end or another is started, in however
\* many nested loops it is read; or its end is given up, and no loop is left.
StopEndsRun ==
    (~fstartdaq /\ run # NoRun) ~>
        \/ run = NoRun
        \/ fstartdaq
        \/ /\ "end" \in Faults
           /\ \A t \in Threads : \A k \in DOMAIN stack[t] : stack[t][k].at \notin Reading \cup {"stop"}
==============================================================================
