-------------------------- MODULE RunControl_proofs --------------------------
(***************************************************************************)
(* Theorems about RunControl, for any number of remote clients, any depth  *)
(* of nested calls, any presses per pass and any of the failures.          *)
(*                                                                         *)
(* TypeOK, LockDiscipline and FlagHasReader are inductive together: a call *)
(* is entered only from a read loop, whose call does not hold the mutex,   *)
(* and a loop is left only when the flag is down.                          *)
(* Without remote clients a run number is used once: the innermost call of *)
(* the GUI's stack tells whether the number was used or was advanced.      *)
(***************************************************************************)
EXTENDS RunControl, SequenceTheorems, TLAPS

Frames == [at: Places, events: 0 .. EventsPerPass]

ControlInv == TypeOK /\ LockDiscipline /\ FlagHasReader

------------------------------------------------------------------------------
(* What the operations on a stack of calls do.                              *)

\* The calls of a thread are a sequence, and its top is the last of them.
LEMMA StackType ==
  ASSUME TypeOK, NEW t \in Threads
  PROVE  /\ stack[t] \in Seq(Frames)
         /\ Len(stack[t]) \in Nat
         /\ DOMAIN stack[t] = 1 .. Len(stack[t])
         /\ \A k \in 1 .. Len(stack[t]) : stack[t][k] \in Frames
         /\ stack[t] # <<>> => Len(stack[t]) \in 1 .. Len(stack[t])
<1>1. stack[t] \in Seq(Frames)
  BY DEF TypeOK, Frames
<1> QED
  BY <1>1, LenProperties, ElementOfSeq, EmptySeq

\* A step changes one frame of thread t, the top, to f.
LEMMA ReplaceTop ==
  ASSUME TypeOK, NEW t \in Threads, stack[t] # <<>>, NEW f \in Frames,
         stack' = [stack EXCEPT ![t] = [@ EXCEPT ![Len(stack[t])] = f]]
  PROVE  /\ stack' \in [Threads -> Seq(Frames)]
         /\ \A u \in Threads \ {t} : stack'[u] = stack[u]
         /\ DOMAIN stack'[t] = DOMAIN stack[t] /\ Len(stack'[t]) = Len(stack[t])
         /\ \A k \in DOMAIN stack[t] :
               stack'[t][k] = IF k = Len(stack[t]) THEN f ELSE stack[t][k]
<1>1. stack \in [Threads -> Seq(Frames)]
  BY DEF TypeOK, Frames
<1> DEFINE s == [stack[t] EXCEPT ![Len(stack[t])] = f]
<1>2. stack'[t] = s /\ \A u \in Threads \ {t} : stack'[u] = stack[u]
  BY <1>1
<1>3. /\ s \in Seq(Frames) /\ Len(s) = Len(stack[t])
      /\ \A j \in 1 .. Len(stack[t]) : s[j] = IF j = Len(stack[t]) THEN f ELSE stack[t][j]
  BY StackType, ExceptSeq
<1>4. DOMAIN s = DOMAIN stack[t]
  BY <1>3, LenProperties, StackType
<1>5. stack' \in [Threads -> Seq(Frames)]
  BY <1>1, <1>2, <1>3
<1> QED
  BY <1>2, <1>3, <1>4, <1>5, StackType

\* Goto changes the place of the top call only.
LEMMA GotoStack ==
  ASSUME TypeOK, NEW t \in Threads, stack[t] # <<>>, NEW place \in Places, Goto(t, place)
  PROVE  /\ stack' \in [Threads -> Seq(Frames)]
         /\ \A u \in Threads \ {t} : stack'[u] = stack[u]
         /\ DOMAIN stack'[t] = DOMAIN stack[t] /\ Len(stack'[t]) = Len(stack[t])
         /\ \A k \in DOMAIN stack[t] :
               /\ stack'[t][k].at = IF k = Len(stack[t]) THEN place ELSE stack[t][k].at
               /\ k # Len(stack[t]) => stack'[t][k] = stack[t][k]
<1> DEFINE f == [Top(t) EXCEPT !.at = place]
<1>1. Top(t) \in Frames
  BY StackType DEF Top
<1>2. f \in Frames /\ f.at = place
  BY <1>1 DEF Frames
<1>3. stack' = [stack EXCEPT ![t] = [@ EXCEPT ![Len(stack[t])] = f]]
  BY DEF Goto, Top
<1> HIDE DEF f
<1> QED
  BY <1>2, <1>3, ReplaceTop

\* Return takes the top call off and changes no other.
LEMMA ReturnStack ==
  ASSUME TypeOK, NEW t \in Threads, stack[t] # <<>>, Return(t)
  PROVE  /\ stack' \in [Threads -> Seq(Frames)]
         /\ \A u \in Threads \ {t} : stack'[u] = stack[u]
         /\ Len(stack'[t]) = Len(stack[t]) - 1
         /\ DOMAIN stack'[t] = 1 .. Len(stack[t]) - 1
         /\ \A k \in DOMAIN stack'[t] : stack'[t][k] = stack[t][k]
<1>1. stack \in [Threads -> Seq(Frames)]
  BY DEF TypeOK, Frames
<1> DEFINE s == SubSeq(stack[t], 1, Len(stack[t]) - 1)
<1>2. stack'[t] = s /\ \A u \in Threads \ {t} : stack'[u] = stack[u]
  BY <1>1 DEF Return
<1>3. /\ s \in Seq(Frames) /\ Len(s) = Len(stack[t]) - 1
      /\ \A k \in 1 .. Len(stack[t]) - 1 : s[k] = stack[t][k]
  BY StackType, SMTT(30)
<1>4. DOMAIN s = 1 .. Len(stack[t]) - 1
  BY <1>3, LenProperties
<1>5. stack' \in [Threads -> Seq(Frames)]
  BY <1>1, <1>2, <1>3 DEF Return
<1> QED
  BY <1>2, <1>3, <1>4, <1>5

\* A call f is entered on top of the calls s of thread t.
Push(t, s, f) == stack' = [stack EXCEPT ![t] = Append(s, f)]

\* The calls below keep their order, and f is the innermost.
LEMMA PushStack ==
  ASSUME TypeOK, NEW t \in Threads, NEW s \in Seq(Frames), NEW f \in Frames,
         Push(t, s, f)
  PROVE  /\ stack' \in [Threads -> Seq(Frames)]
         /\ \A u \in Threads \ {t} : stack'[u] = stack[u]
         /\ Len(stack'[t]) = Len(s) + 1
         /\ DOMAIN stack'[t] = 1 .. Len(s) + 1
         /\ \A k \in 1 .. Len(s) : stack'[t][k] = s[k]
         /\ stack'[t][Len(s) + 1] = f
<1>1. stack \in [Threads -> Seq(Frames)]
  BY DEF TypeOK, Frames
<1>2. stack'[t] = Append(s, f) /\ \A u \in Threads \ {t} : stack'[u] = stack[u]
  BY <1>1 DEF Push
<1>3. /\ Append(s, f) \in Seq(Frames) /\ Len(Append(s, f)) = Len(s) + 1
      /\ \A k \in 1 .. Len(s) : Append(s, f)[k] = s[k]
      /\ Append(s, f)[Len(s) + 1] = f
  BY AppendProperties
<1>4. DOMAIN Append(s, f) = 1 .. Len(s) + 1
  BY <1>3, LenProperties
<1>5. stack' \in [Threads -> Seq(Frames)]
  BY <1>1, <1>2, <1>3 DEF Push
<1> QED
  BY <1>2, <1>3, <1>4, <1>5

------------------------------------------------------------------------------
(* What the invariant asks of a step, for each operation on a stack.        *)

StackOK == stack \in [Threads -> Seq(Frames)]

\* The other threads hold the mutex after the step if they held it before.
LockOf(t) == lock' \in Threads \cup {Nobody} /\ \A u \in Threads \ {t} : lock' = u <=> lock = u

\* A call that moves to a place takes or gives back the mutex as the place demands,
\* and leaves its read loop only when the flag is down.
LEMMA GotoKeeps ==
  ASSUME ControlInv, NEW t \in Threads, stack[t] # <<>>, NEW place \in Places,
         Goto(t, place), LockOf(t), lock' = t <=> place \in Starting,
         fstartdaq' => place \in Reading \/ (fstartdaq /\ Top(t).at \notin Reading)
  PROVE  StackOK' /\ LockDiscipline' /\ FlagHasReader'
<1> DEFINE n == Len(stack[t])
<1>1. /\ StackOK'
      /\ \A u \in Threads \ {t} : stack'[u] = stack[u]
      /\ DOMAIN stack'[t] = DOMAIN stack[t] /\ Len(stack'[t]) = n
      /\ \A k \in DOMAIN stack[t] :
            stack'[t][k].at = IF k = n THEN place ELSE stack[t][k].at
  BY GotoStack DEF ControlInv, StackOK
<1>2. n \in DOMAIN stack[t] /\ TypeOK
  BY StackType DEF ControlInv
<1>3. LockDiscipline'
  <2>0. ASSUME NEW u \in Threads, lock' = u
        PROVE  stack'[u] # <<>>
    BY <1>1, <1>2, <2>0, EmptySeq DEF ControlInv, LockDiscipline, LockOf
  <2> SUFFICES ASSUME NEW u \in Threads, NEW k \in DOMAIN stack'[u]
               PROVE  stack'[u][k].at \in Starting <=> lock' = u /\ k = Len(stack'[u])
    BY <2>0 DEF LockDiscipline
  <2>1. CASE u # t
    BY <1>1, <2>1 DEF ControlInv, LockDiscipline, LockOf
  <2>2. CASE u = t
    BY <1>1, <1>2, <2>2 DEF ControlInv, LockDiscipline
  <2> QED
    BY <2>1, <2>2
<1>4. FlagHasReader'
  <2>1. CASE place \in Reading
    BY <1>1, <1>2, <2>1 DEF FlagHasReader
  <2>2. CASE fstartdaq /\ Top(t).at \notin Reading
    <3>1. PICK u \in Threads : \E k \in DOMAIN stack[u] : stack[u][k].at \in Reading
      BY <2>2 DEF ControlInv, FlagHasReader
    <3>2. PICK k \in DOMAIN stack[u] : stack[u][k].at \in Reading
      BY <3>1
    <3>3. k \in DOMAIN stack'[u] /\ stack'[u][k].at \in Reading
      BY <1>1, <2>2, <3>2 DEF Top
    <3> QED
      BY <3>3 DEF FlagHasReader
  <2> QED
    BY <2>1, <2>2 DEF FlagHasReader
<1> QED
  BY <1>1, <1>3, <1>4

\* A call that returns does not keep the mutex, and was in no read loop.
LEMMA ReturnKeeps ==
  ASSUME ControlInv, NEW t \in Threads, stack[t] # <<>>,
         Return(t), LockOf(t), lock' # t,
         fstartdaq' => fstartdaq, Top(t).at \notin Reading
  PROVE  StackOK' /\ LockDiscipline' /\ FlagHasReader'
<1> DEFINE n == Len(stack[t])
<1>1. /\ StackOK'
      /\ \A u \in Threads \ {t} : stack'[u] = stack[u]
      /\ Len(stack'[t]) = n - 1
      /\ DOMAIN stack'[t] = 1 .. n - 1
      /\ \A k \in DOMAIN stack'[t] : stack'[t][k] = stack[t][k]
  BY ReturnStack DEF ControlInv, StackOK
<1>2. n \in Nat /\ DOMAIN stack[t] = 1 .. n
  BY StackType DEF ControlInv
<1>3. LockDiscipline'
  <2>0. ASSUME NEW u \in Threads, lock' = u
        PROVE  stack'[u] # <<>>
    BY <1>1, <2>0 DEF ControlInv, LockDiscipline, LockOf
  <2> SUFFICES ASSUME NEW u \in Threads, NEW k \in DOMAIN stack'[u]
               PROVE  stack'[u][k].at \in Starting <=> lock' = u /\ k = Len(stack'[u])
    BY <2>0 DEF LockDiscipline
  <2>1. CASE u # t
    BY <1>1, <2>1 DEF ControlInv, LockDiscipline, LockOf
  <2>2. CASE u = t
    <3>1. k \in DOMAIN stack[t] /\ k # n /\ stack'[t][k] = stack[t][k]
      BY <1>1, <1>2, <2>2
    <3> QED
      BY <2>2, <3>1 DEF ControlInv, LockDiscipline
  <2> QED
    BY <2>1, <2>2
<1>4. FlagHasReader'
  <2> SUFFICES ASSUME fstartdaq'
               PROVE  \E u \in Threads : \E k \in DOMAIN stack'[u] : stack'[u][k].at \in Reading
    BY DEF FlagHasReader
  <2>1. PICK u \in Threads : \E k \in DOMAIN stack[u] : stack[u][k].at \in Reading
    BY DEF ControlInv, FlagHasReader
  <2>2. PICK k \in DOMAIN stack[u] : stack[u][k].at \in Reading
    BY <2>1
  <2>3. CASE u = t
    <3>1. k \in 1 .. n /\ k # n
      BY <1>2, <2>2, <2>3 DEF Top
    <3>2. k \in DOMAIN stack'[t] /\ stack'[t][k] = stack[t][k]
      BY <1>1, <1>2, <3>1
    <3> QED
      BY <2>2, <2>3, <3>2
  <2>4. CASE u # t
    BY <1>1, <2>2, <2>4
  <2> QED
    BY <2>3, <2>4
<1> QED
  BY <1>1, <1>3, <1>4

\* A call entered on a thread that does not hold the mutex, at a place that does not
\* ask for it, changes nothing below it but the count of events of the caller.
LEMMA PushKeeps ==
  ASSUME ControlInv, NEW t \in Threads, NEW s \in Seq(Frames), NEW f \in Frames,
         Push(t, s, f),
         Len(s) = Len(stack[t]), \A k \in 1 .. Len(s) : s[k].at = stack[t][k].at,
         f.at \notin Starting, lock # t,
         UNCHANGED <<lock, fstartdaq>>
  PROVE  StackOK' /\ LockDiscipline' /\ FlagHasReader'
<1> DEFINE n == Len(s)
<1>0. TypeOK
  BY DEF ControlInv
<1>p. /\ stack' \in [Threads -> Seq(Frames)]
      /\ \A u \in Threads \ {t} : stack'[u] = stack[u]
      /\ Len(stack'[t]) = Len(s) + 1
      /\ DOMAIN stack'[t] = 1 .. Len(s) + 1
      /\ \A k \in 1 .. Len(s) : stack'[t][k] = s[k]
      /\ stack'[t][Len(s) + 1] = f
  BY <1>0, PushStack
<1>1. /\ StackOK'
      /\ \A u \in Threads \ {t} : stack'[u] = stack[u]
      /\ Len(stack'[t]) = n + 1
      /\ DOMAIN stack'[t] = 1 .. n + 1
      /\ \A k \in 1 .. n : stack'[t][k] = s[k]
      /\ stack'[t][n + 1] = f
  BY <1>p DEF StackOK
<1>2. n \in Nat /\ DOMAIN stack[t] = 1 .. n
  BY StackType DEF ControlInv
<1>3. LockDiscipline'
  <2>0. ASSUME NEW u \in Threads, lock' = u
        PROVE  stack'[u] # <<>>
    BY <1>1, <1>2, <2>0, EmptySeq DEF ControlInv, LockDiscipline
  <2> SUFFICES ASSUME NEW u \in Threads, NEW k \in DOMAIN stack'[u]
               PROVE  stack'[u][k].at \in Starting <=> lock' = u /\ k = Len(stack'[u])
    BY <2>0 DEF LockDiscipline
  <2>1. CASE u # t
    BY <1>1, <2>1 DEF ControlInv, LockDiscipline
  <2>2. CASE u = t
    <3>1. k = n + 1 \/ k \in 1 .. n
      BY <1>1, <1>2, <2>2
    <3>2. CASE k = n + 1
      BY <1>1, <2>2, <3>2
    <3>3. CASE k \in 1 .. n
      <4>1. stack[t][k].at \notin Starting
        BY <1>2, <3>3 DEF ControlInv, LockDiscipline
      <4> QED
        BY <1>1, <2>2, <3>3, <4>1
    <3> QED
      BY <3>1, <3>2, <3>3
  <2> QED
    BY <2>1, <2>2
<1>4. FlagHasReader'
  <2> SUFFICES ASSUME fstartdaq'
               PROVE  \E u \in Threads : \E k \in DOMAIN stack'[u] : stack'[u][k].at \in Reading
    BY DEF FlagHasReader
  <2>1. PICK u \in Threads : \E k \in DOMAIN stack[u] : stack[u][k].at \in Reading
    BY DEF ControlInv, FlagHasReader
  <2>2. PICK k \in DOMAIN stack[u] : stack[u][k].at \in Reading
    BY <2>1
  <2>3. k \in DOMAIN stack'[u] /\ stack'[u][k].at = stack[u][k].at
    BY <1>1, <1>2, <2>2
  <2> QED
    BY <2>2, <2>3
<1> QED
  BY <1>1, <1>3, <1>4

------------------------------------------------------------------------------
(* The invariant.                                                           *)

\* The variables outside the stacks have their types.
OthersOK ==
    /\ lock \in Threads \cup {Nobody}
    /\ fstartdaq \in BOOLEAN
    /\ runnum \in Nat /\ runnumber \in Nat
    /\ run \in Nat \cup {NoRun}
    /\ recorded \subseteq Nat

\* What a call that is at a place tells of its thread.
LEMMA TopOfCall ==
  ASSUME ControlInv, NEW t \in Threads, NEW place, At(t, place)
  PROVE  /\ stack[t] # <<>>
         /\ Top(t).at = place
         /\ place \in Starting <=> lock = t
<1>1. stack[t] # <<>> /\ Top(t).at = place
  BY DEF At
<1>2. Len(stack[t]) \in DOMAIN stack[t]
  BY <1>1, StackType DEF ControlInv
<1> QED
  BY <1>1, <1>2 DEF Top, ControlInv, LockDiscipline

\* No thread is called Nobody, so a free mutex is held by no thread.
LEMMA NobodyHolds == \A t \in Threads : t # Nobody
  BY ControlAssumption

LEMMA FrameType ==
  /\ Frame \in Frames /\ Frame.at = "lock"
  /\ \A place \in Places : /\ [Frame EXCEPT !.at = place] \in Frames
                           /\ [Frame EXCEPT !.at = place].at = place
  BY ControlAssumption DEF Frame, Frames, Places

\* A call f is entered on an empty stack.
Enter(t, f) == stack[t] = <<>> /\ stack' = [stack EXCEPT ![t] = <<f>>]

\* A press in the GUI's event loop or a remote call enters an empty stack.
LEMMA EnterEmpty ==
  ASSUME ControlInv, NEW t \in Threads, NEW f \in Frames,
         f.at \notin Starting, Enter(t, f),
         UNCHANGED <<lock, fstartdaq>>
  PROVE  StackOK' /\ LockDiscipline' /\ FlagHasReader'
<1>1. <<>> \in Seq(Frames) /\ Len(<<>>) = 0 /\ <<f>> = Append(<<>>, f)
  BY SMT
<1>2. Push(t, <<>>, f)
  BY <1>1 DEF Enter, Push
<1>3. lock # t
  BY DEF Enter, ControlInv, LockDiscipline
<1>4. Len(<<>>) = Len(stack[t]) /\ \A k \in 1 .. Len(<<>>) : <<>>[k].at = stack[t][k].at
  BY <1>1 DEF Enter
<1> QED
  BY <1>1, <1>2, <1>3, <1>4, PushKeeps

LEMMA ControlInvInit == Init => ControlInv
<1> SUFFICES ASSUME Init PROVE ControlInv
  OBVIOUS
<1>1. \A t \in Threads : stack[t] = <<>> /\ DOMAIN stack[t] = {}
  BY DEF Init
<1>2. stack \in [Threads -> Seq(Frames)]
  BY EmptySeq DEF Init
<1> QED
  BY <1>1, <1>2, NobodyHolds DEF Init, ControlInv, TypeOK, Frames, LockDiscipline, FlagHasReader

\* A call of StartRun is entered, by a press or from a remote client.
LEMMA CallsKeep ==
  ASSUME ControlInv, NEW t \in Threads,
         \/ t = Gui /\ Press
         \/ t \in Clients /\ (RemoteStart(t) \/ RemoteChange(t))
         \/ PressInLoop(t)
  PROVE  StackOK' /\ LockDiscipline' /\ FlagHasReader' /\ OthersOK'
<1>0. OthersOK /\ UNCHANGED <<lock, fstartdaq, runnum, runVars>>
  BY DEF ControlInv, TypeOK, OthersOK, Press, RemoteStart, RemoteChange, PressInLoop
<1>1. OthersOK'
  BY <1>0 DEF OthersOK, runVars
<1>2. CASE t = Gui /\ Press
  <2>1. Enter(t, Frame)
    BY <1>2 DEF Press, Enter
  <2> QED
    BY <1>0, <1>1, <2>1, EnterEmpty, FrameType DEF Starting
<1>3. CASE t \in Clients /\ RemoteStart(t)
  <2>1. Enter(t, Frame)
    BY <1>3 DEF RemoteStart, Enter
  <2> QED
    BY <1>0, <1>1, <2>1, EnterEmpty, FrameType DEF Starting
<1>4. CASE t \in Clients /\ RemoteChange(t)
  <2> DEFINE f == [Frame EXCEPT !.at = "change"]
  <2>1. f \in Frames /\ f.at \notin Starting
    BY FrameType DEF Places, Starting
  <2>2. Enter(t, f)
    BY <1>4 DEF RemoteChange, Enter
  <2> HIDE DEF f
  <2> QED
    BY <1>0, <1>1, <2>1, <2>2, EnterEmpty
<1>5. CASE PressInLoop(t)
  <2> DEFINE n == Len(stack[t])
             f == [Top(t) EXCEPT !.events = @ + 1]
             s == [stack[t] EXCEPT ![n] = f]
  <2>1. TypeOK /\ stack[t] # <<>> /\ Top(t).at = "events" /\ lock # t
    BY <1>5, TopOfCall DEF PressInLoop, ControlInv, Starting
  <2>2. n \in 1 .. n /\ n \in DOMAIN stack[t] /\ DOMAIN stack[t] = 1 .. n /\ Top(t) \in Frames
    BY <2>1, StackType DEF Top
  <2>3. Top(t).events < EventsPerPass
    BY <1>5 DEF PressInLoop, MayPress
  <2>4. f \in Frames /\ f.at = Top(t).at
    BY <2>2, <2>3, ControlAssumption DEF Frames
  <2>5. s = [stack[t] EXCEPT ![n].events = @ + 1]
    BY <2>2 DEF Top
  <2> HIDE DEF f
  <2>7. s \in Seq(Frames) /\ Len(s) = n /\ \A k \in 1 .. n : s[k].at = stack[t][k].at
    BY <2>1, <2>2, <2>4, StackType, ExceptSeq DEF Top
  <2> HIDE DEF s
  <2>6. Push(t, s, Frame)
    <3>1. stack' = [stack EXCEPT ![t] = Append([stack[t] EXCEPT ![n].events = @ + 1], Frame)]
      BY <1>5 DEF PressInLoop
    <3> QED
      BY <2>5, <3>1, Zenon DEF Push
  <2>8. Frame \in Frames /\ Frame.at \notin Starting
    BY FrameType DEF Starting
  <2> QED
    BY <1>0, <1>1, <2>1, <2>6, <2>7, <2>8, PushKeeps
<1> QED
  BY <1>1, <1>2, <1>3, <1>4, <1>5

\* A pass of the read loop goes from reading to the GUI's events.
LEMMA ReadKeeps ==
  ASSUME ControlInv, NEW t \in Threads, ReadDataFromModules(t)
  PROVE  StackOK' /\ LockDiscipline' /\ FlagHasReader'
<1> DEFINE f == [at |-> "events", events |-> 0]
           n == Len(stack[t])
<1>1. /\ TypeOK /\ stack[t] # <<>> /\ Top(t).at = "read" /\ lock # t
      /\ UNCHANGED <<lock, fstartdaq>>
      /\ stack' = [stack EXCEPT ![t] = [@ EXCEPT ![Len(stack[t])] = f]]
  BY TopOfCall DEF ReadDataFromModules, Starting, ControlInv
<1>2. f \in Frames /\ f.at \in Reading /\ f.at \notin Starting
  BY ControlAssumption DEF Frames, Places, Reading, Starting
<1> HIDE DEF f
<1>3. /\ StackOK'
      /\ \A u \in Threads \ {t} : stack'[u] = stack[u]
      /\ DOMAIN stack'[t] = DOMAIN stack[t] /\ Len(stack'[t]) = n
      /\ \A k \in DOMAIN stack[t] : stack'[t][k] = IF k = n THEN f ELSE stack[t][k]
  BY <1>1, <1>2, ReplaceTop DEF StackOK
<1>4. n \in DOMAIN stack[t]
  BY <1>1, StackType
<1>5. LockDiscipline'
  BY <1>1, <1>2, <1>3, <1>4, EmptySeq DEF ControlInv, LockDiscipline
<1>6. FlagHasReader'
  BY <1>1, <1>2, <1>3, <1>4 DEF ControlInv, FlagHasReader
<1> QED
  BY <1>3, <1>5, <1>6

\* A thread goes on in its innermost call: one step per action of Step.
LEMMA StepKeeps ==
  ASSUME ControlInv, NEW t \in Threads, Step(t)
  PROVE  StackOK' /\ LockDiscipline' /\ FlagHasReader' /\ OthersOK'
<1>0. OthersOK
  BY DEF ControlInv, TypeOK, OthersOK
<1>1. CASE EnterToStart(t)
  <2>1. At(t, "lock") /\ Goto(t, "name") /\ lock = Nobody /\ lock' = t
        /\ UNCHANGED <<fstartdaq, runnum, runVars>>
    BY <1>1 DEF EnterToStart
  <2>2. StackOK' /\ LockDiscipline' /\ FlagHasReader'
    BY <2>1, TopOfCall, NobodyHolds, GotoKeeps DEF LockOf, Places, Starting, Reading
  <2> QED
    BY <1>0, <2>1, <2>2 DEF OthersOK, runVars
<1>2. CASE EnterToStop(t)
  <2>1. At(t, "lock") /\ Goto(t, "count") /\ lock = Nobody /\ fstartdaq' = FALSE
        /\ UNCHANGED <<lock, runnum, runVars>>
    BY <1>2 DEF EnterToStop
  <2>2. StackOK' /\ LockDiscipline' /\ FlagHasReader'
    BY <1>0, <2>1, TopOfCall, NobodyHolds, GotoKeeps DEF OthersOK, LockOf, Places, Starting, Reading
  <2> QED
    BY <1>0, <2>1, <2>2 DEF OthersOK, runVars
<1>3. CASE CountRun(t)
  <2>1. At(t, "count") /\ Return(t) /\ runnum' = runnum + 1
        /\ UNCHANGED <<lock, fstartdaq, runVars>>
    BY <1>3 DEF CountRun
  <2>2. StackOK' /\ LockDiscipline' /\ FlagHasReader'
    BY <1>0, <2>1, TopOfCall, ReturnKeeps DEF OthersOK, LockOf, Starting, Reading
  <2> QED
    BY <1>0, <2>1, <2>2 DEF OthersOK, runVars
<1>4. CASE OpenFiles(t)
  <2>1. At(t, "name") /\ runnumber' = runnum /\ fstartdaq' = FALSE
        /\ UNCHANGED <<runnum, run, recorded>>
        /\ \/ lock' = Nobody /\ Return(t)
           \/ Goto(t, "start") /\ UNCHANGED lock
    BY <1>4 DEF OpenFiles, UnlockAndReturn
  <2>2. stack[t] # <<>> /\ Top(t).at = "name" /\ lock = t
    BY <2>1, TopOfCall DEF Starting
  <2>3. CASE lock' = Nobody /\ Return(t)
    <3>1. StackOK' /\ LockDiscipline' /\ FlagHasReader'
      BY <2>1, <2>2, <2>3, NobodyHolds, ReturnKeeps DEF LockOf, Reading
    <3> QED
      BY <1>0, <2>1, <2>3, <3>1 DEF OthersOK
  <2>4. CASE Goto(t, "start") /\ UNCHANGED lock
    <3>1. StackOK' /\ LockDiscipline' /\ FlagHasReader'
      BY <1>0, <2>1, <2>2, <2>4, GotoKeeps DEF OthersOK, LockOf, Places, Starting
    <3> QED
      BY <1>0, <2>1, <2>4, <3>1 DEF OthersOK
  <2> QED
    BY <2>1, <2>3, <2>4
<1>5. CASE DetectorStartRun(t)
  <2>1. At(t, "start") /\ run' = runnumber /\ recorded' = recorded \cup {runnumber}
        /\ Goto(t, "flag") /\ UNCHANGED <<lock, fstartdaq, runnum, runnumber>>
    BY <1>5 DEF DetectorStartRun
  <2>2. StackOK' /\ LockDiscipline' /\ FlagHasReader'
    BY <1>0, <2>1, TopOfCall, GotoKeeps DEF OthersOK, LockOf, Places, Starting, Reading
  <2> QED
    BY <1>0, <2>1, <2>2 DEF OthersOK
<1>6. CASE DetectorStartFails(t)
  <2>1. At(t, "start") /\ lock' = Nobody /\ Return(t)
        /\ UNCHANGED <<fstartdaq, runnum, runVars>>
    BY <1>6 DEF DetectorStartFails, UnlockAndReturn
  <2>2. stack[t] # <<>> /\ Top(t).at = "start" /\ lock = t
    BY <2>1, TopOfCall DEF Starting
  <2>3. StackOK' /\ LockDiscipline' /\ FlagHasReader'
    BY <2>1, <2>2, NobodyHolds, ReturnKeeps DEF LockOf, Reading
  <2> QED
    BY <1>0, <2>1, <2>3 DEF OthersOK, runVars
<1>7. CASE RaiseFlag(t)
  <2>1. At(t, "flag") /\ fstartdaq' = TRUE /\ lock' = Nobody /\ Goto(t, "loop")
        /\ UNCHANGED <<runnum, runVars>>
    BY <1>7 DEF RaiseFlag
  <2>2. stack[t] # <<>> /\ lock = t
    BY <2>1, TopOfCall DEF Starting
  <2>3. StackOK' /\ LockDiscipline' /\ FlagHasReader'
    BY <2>1, <2>2, NobodyHolds, GotoKeeps DEF LockOf, Places, Starting, Reading
  <2> QED
    BY <1>0, <2>1, <2>3 DEF OthersOK, runVars
<1>8. CASE TestFlag(t)
  <2>1. At(t, "loop") /\ Goto(t, IF fstartdaq THEN "read" ELSE "stop")
        /\ UNCHANGED <<lock, fstartdaq, runnum, runVars>>
    BY <1>8 DEF TestFlag
  <2>2. stack[t] # <<>> /\ lock # t
    BY <2>1, TopOfCall DEF Starting
  <2>3. CASE fstartdaq
    <3>1. Goto(t, "read")
      BY <2>1, <2>3
    <3>2. StackOK' /\ LockDiscipline' /\ FlagHasReader'
      BY <1>0, <2>1, <2>2, <3>1, GotoKeeps DEF OthersOK, LockOf, Places, Starting, Reading
    <3> QED
      BY <1>0, <2>1, <3>2 DEF OthersOK, runVars
  <2>4. CASE ~fstartdaq
    <3>1. Goto(t, "stop")
      BY <2>1, <2>4
    <3>2. StackOK' /\ LockDiscipline' /\ FlagHasReader'
      BY <1>0, <2>1, <2>2, <2>4, <3>1, GotoKeeps DEF OthersOK, LockOf, Places, Starting
    <3> QED
      BY <1>0, <2>1, <3>2 DEF OthersOK, runVars
  <2> QED
    BY <2>3, <2>4
<1>9. CASE ReadDataFromModules(t)
  BY <1>0, <1>9, ReadKeeps DEF ReadDataFromModules, OthersOK, runVars
<1>10. CASE EventsProcessed(t)
  <2>1. At(t, "events") /\ Goto(t, "loop") /\ UNCHANGED <<lock, fstartdaq, runnum, runVars>>
    BY <1>10 DEF EventsProcessed
  <2>2. StackOK' /\ LockDiscipline' /\ FlagHasReader'
    BY <1>0, <2>1, TopOfCall, GotoKeeps DEF OthersOK, LockOf, Places, Starting, Reading
  <2> QED
    BY <1>0, <2>1, <2>2 DEF OthersOK, runVars
<1>11. CASE StopRun(t)
  <2>1. At(t, "stop") /\ Return(t) /\ run' \in {run, NoRun}
        /\ UNCHANGED <<lock, fstartdaq, runnum, runnumber, recorded>>
    BY <1>11 DEF StopRun
  <2>2. StackOK' /\ LockDiscipline' /\ FlagHasReader'
    BY <1>0, <2>1, TopOfCall, ReturnKeeps DEF OthersOK, LockOf, Starting, Reading
  <2> QED
    BY <1>0, <2>1, <2>2 DEF OthersOK
<1>12. CASE ChangeRunNumber(t)
  <2>1. At(t, "change") /\ Return(t) /\ runnum' \in RunNumbers
        /\ UNCHANGED <<lock, fstartdaq, runVars>>
    BY <1>12 DEF ChangeRunNumber
  <2>2. StackOK' /\ LockDiscipline' /\ FlagHasReader'
    BY <1>0, <2>1, TopOfCall, ReturnKeeps DEF OthersOK, LockOf, Starting, Reading
  <2> QED
    BY <1>0, <2>1, <2>2, ControlAssumption DEF OthersOK, runVars
<1> QED
  BY <1>1, <1>2, <1>3, <1>4, <1>5, <1>6, <1>7, <1>8, <1>9, <1>10, <1>11, <1>12 DEF Step

\* The invariant is inductive.
LEMMA ControlInvStep == ControlInv /\ [Next]_vars => ControlInv'
<1> SUFFICES ASSUME ControlInv, [Next]_vars PROVE ControlInv'
  OBVIOUS
<1>1. CASE UNCHANGED vars
  BY <1>1 DEF vars, runVars, ControlInv, TypeOK, LockDiscipline, FlagHasReader
<1>2. ASSUME StackOK' /\ LockDiscipline' /\ FlagHasReader' /\ OthersOK'
      PROVE  ControlInv'
  BY <1>2 DEF ControlInv, TypeOK, StackOK, OthersOK, Frames
<1>3. CASE Press
  BY <1>2, <1>3, CallsKeep DEF Threads
<1>4. ASSUME NEW c \in Clients, RemoteStart(c) \/ RemoteChange(c)
      PROVE  ControlInv'
  BY <1>2, <1>4, CallsKeep DEF Threads
<1>5. ASSUME NEW t \in Threads, PressInLoop(t)
      PROVE  ControlInv'
  BY <1>2, <1>5, CallsKeep
<1>6. ASSUME NEW t \in Threads, Step(t)
      PROVE  ControlInv'
  BY <1>2, <1>6, StepKeeps
<1> QED
  BY <1>1, <1>3, <1>4, <1>5, <1>6 DEF Next

------------------------------------------------------------------------------
(* The theorems.                                                            *)

\* StartRun and RunReadData keep the invariant in every interleaving.
THEOREM ControlInvariant == Spec => []ControlInv
  BY ControlInvInit, ControlInvStep, PTL DEF Spec

\* Every variable keeps its type; a pass handles no more presses than it may.
THEOREM TypeCorrect == Spec => []TypeOK
<1>1. ControlInv => TypeOK
  BY DEF ControlInv
<1> QED
  BY <1>1, ControlInvariant, PTL

\* start_flag_mutex_ is held by the innermost call of one thread, between the
\* files and the flag: StartRun never waits for a call below it (line 851).
THEOREM LockDisciplined == Spec => []LockDiscipline
<1>1. ControlInv => LockDiscipline
  BY DEF ControlInv
<1> QED
  BY <1>1, ControlInvariant, PTL

\* A raised fstartdaq has a loop that tests it (line 963).
THEOREM FlagRead == Spec => []FlagHasReader
<1>1. ControlInv => FlagHasReader
  BY DEF ControlInv
<1> QED
  BY <1>1, ControlInvariant, PTL

------------------------------------------------------------------------------
(* The numbers of the runs, in a build without remote calls.                *)

\* The place of the GUI's innermost call.
Inner == IF stack[Gui] = <<>> THEN "none" ELSE Top(Gui).at

\* A call that made another is in its pass over the GUI's events.
CallersWait == \A k \in DOMAIN stack[Gui] : k # Len(stack[Gui]) => stack[Gui][k].at = "events"

\* The flag is down from a call's test of it to the start's end, and to the stop's.  The
\* numbers used are below the next one, or the next one is in use: from the start of
\* a run to the end of the call that stops it.
NumberInv ==
    /\ CallersWait
    /\ Inner # "change"
    /\ Inner \in Starting \cup {"count"} => ~fstartdaq
    /\ Inner = "start" => runnumber = runnum
    /\ \A r \in recorded : \/ r < runnum
                           \/ r = runnum /\ (fstartdaq \/ Inner \in {"flag", "count"})

\* The innermost call goes to another place, the calls below it wait as before.
LEMMA GotoInner ==
  ASSUME TypeOK, CallersWait, NEW place \in Places, At(Gui, place), NEW next \in Places,
         Goto(Gui, next)
  PROVE  Inner = place /\ Inner' = next /\ CallersWait'
<1>1. stack[Gui] # <<>> /\ Gui \in Threads
  BY DEF At, Threads
<1>2. /\ Len(stack'[Gui]) = Len(stack[Gui]) /\ DOMAIN stack'[Gui] = DOMAIN stack[Gui]
      /\ \A k \in DOMAIN stack[Gui] :
            /\ stack'[Gui][k].at = IF k = Len(stack[Gui]) THEN next ELSE stack[Gui][k].at
            /\ k # Len(stack[Gui]) => stack'[Gui][k] = stack[Gui][k]
  BY <1>1, GotoStack
<1>3. Len(stack[Gui]) \in DOMAIN stack[Gui] /\ stack'[Gui] # <<>>
  BY <1>1, <1>2, StackType, EmptySeq
<1>4. Inner' = next
  BY <1>2, <1>3 DEF Inner, Top
<1>5. CallersWait'
  BY <1>2 DEF CallersWait
<1> QED
  BY <1>1, <1>4, <1>5 DEF Inner, At

\* A return goes back to a pass over the events, of a loop or of the GUI itself.
LEMMA ReturnInner ==
  ASSUME TypeOK, CallersWait, NEW place \in Places, At(Gui, place), Return(Gui)
  PROVE  Inner = place /\ Inner' \in {"none", "events"} /\ CallersWait'
<1>1. stack[Gui] # <<>> /\ Gui \in Threads
  BY DEF At, Threads
<1> DEFINE n == Len(stack[Gui])
<1>2. /\ Len(stack'[Gui]) = n - 1 /\ DOMAIN stack'[Gui] = 1 .. n - 1
      /\ \A k \in DOMAIN stack'[Gui] : stack'[Gui][k] = stack[Gui][k]
      /\ stack'[Gui] \in Seq(Frames)
  BY <1>1, ReturnStack
<1>3. n \in Nat /\ DOMAIN stack[Gui] = 1 .. n
  BY <1>1, StackType
<1>4. ASSUME NEW k \in 1 .. n - 1 PROVE stack'[Gui][k].at = "events"
  <2> HIDE DEF n
  <2>1. k \in 1 .. n /\ k # n
    BY <1>3
  <2>2. stack[Gui][k].at = "events"
    BY <1>3, <2>1 DEF CallersWait, n
  <2> QED
    BY <1>2, <2>2
<1>5. Inner' \in {"none", "events"}
  <2>1. CASE stack'[Gui] = <<>>
    BY <2>1 DEF Inner
  <2>2. CASE stack'[Gui] # <<>>
    <3>1. n - 1 # 0
      BY <1>2, <2>2, EmptySeq
    <3>2. n - 1 \in 1 .. n - 1
      <4> HIDE DEF n
      <4>1. n \in Nat /\ n # 1
        BY <1>3, <3>1
      <4>2. n # 0
        BY <1>1, <1>3, EmptySeq, StackType DEF n
      <4> QED
        BY <4>1, <4>2
    <3> QED
      BY <1>2, <1>4, <2>2, <3>2 DEF Inner, Top
  <2> QED
    BY <2>1, <2>2
<1>6. CallersWait'
  BY <1>2, <1>4 DEF CallersWait
<1> QED
  BY <1>1, <1>5, <1>6 DEF Inner, At

\* A press enters a call, and the call it is handled in waits.
LEMMA PressInner ==
  ASSUME TypeOK, CallersWait, Press \/ PressInLoop(Gui)
  PROVE  Inner' = "lock" /\ CallersWait'
<1>1. Gui \in Threads /\ Frame \in Frames /\ Frame.at = "lock"
  BY FrameType DEF Threads
<1>2. PICK s \in Seq(Frames) :
        /\ Push(Gui, s, Frame)
        /\ \A k \in 1 .. Len(s) : s[k].at = "events"
  <2>1. CASE Press
    <3>1. <<>> \in Seq(Frames) /\ Len(<<>>) = 0 /\ <<Frame>> = Append(<<>>, Frame)
      BY <1>1, SMT
    <3>2. Push(Gui, <<>>, Frame) /\ \A k \in 1 .. Len(<<>>) : <<>>[k].at = "events"
      BY <2>1, <3>1 DEF Press, Push
    <3> QED
      BY <3>1, <3>2
  <2>2. CASE PressInLoop(Gui)
    <3> DEFINE n == Len(stack[Gui])
               f == [Top(Gui) EXCEPT !.events = @ + 1]
               s == [stack[Gui] EXCEPT ![n] = f]
    <3>1. stack[Gui] # <<>> /\ Top(Gui).at = "events" /\ Top(Gui).events < EventsPerPass
      BY <2>2 DEF PressInLoop, MayPress, At
    <3>2. n \in 1 .. n /\ n \in DOMAIN stack[Gui] /\ DOMAIN stack[Gui] = 1 .. n /\ Top(Gui) \in Frames
      BY <1>1, <3>1, StackType DEF Top
    <3>3. f \in Frames /\ f.at = "events"
      BY <3>1, <3>2, ControlAssumption DEF Frames
    <3>4. s = [stack[Gui] EXCEPT ![n].events = @ + 1]
      BY <3>2 DEF Top
    <3> HIDE DEF f
    <3>5. /\ s \in Seq(Frames) /\ Len(s) = n
          /\ \A k \in 1 .. n : s[k] = IF k = n THEN f ELSE stack[Gui][k]
      BY <1>1, <3>1, <3>2, <3>3, StackType, ExceptSeq
    <3> HIDE DEF s
    <3>6. Push(Gui, s, Frame)
      <4>1. stack' = [stack EXCEPT ![Gui] = Append([stack[Gui] EXCEPT ![n].events = @ + 1], Frame)]
        BY <2>2 DEF PressInLoop
      <4> QED
        BY <3>4, <4>1, Zenon DEF Push
    <3>7. \A k \in 1 .. Len(s) : s[k].at = "events"
      BY <3>2, <3>3, <3>5 DEF CallersWait
    <3> QED
      BY <3>5, <3>6, <3>7
  <2> QED
    BY <2>1, <2>2
<1>3. /\ Len(stack'[Gui]) = Len(s) + 1
      /\ DOMAIN stack'[Gui] = 1 .. Len(s) + 1
      /\ \A k \in 1 .. Len(s) : stack'[Gui][k] = s[k]
      /\ stack'[Gui][Len(s) + 1] = Frame
      /\ stack'[Gui] \in Seq(Frames)
  BY <1>1, <1>2, PushStack
<1>4. stack'[Gui] # <<>>
  BY <1>2, <1>3, EmptySeq, LenProperties
<1>5. Inner' = "lock"
  BY <1>1, <1>3, <1>4 DEF Inner, Top
<1>6. CallersWait'
  <2> SUFFICES ASSUME NEW k \in 1 .. Len(s) + 1, k # Len(s) + 1
               PROVE  stack'[Gui][k].at = "events"
    BY <1>3 DEF CallersWait
  <2>1. k \in 1 .. Len(s)
    BY <1>2, LenProperties
  <2> QED
    BY <1>2, <1>3, <2>1
<1> QED
  BY <1>5, <1>6

LEMMA NumberInvInit == Init => NumberInv
<1> SUFFICES ASSUME Init PROVE NumberInv
  OBVIOUS
<1>1. stack[Gui] = <<>> /\ DOMAIN stack[Gui] = {}
  BY DEF Init, Threads
<1> QED
  BY <1>1 DEF Init, NumberInv, CallersWait, Inner, Starting

\* One step per action of the GUI's calls.
LEMMA NumberStep ==
  ASSUME ControlInv, NumberInv, Step(Gui)
  PROVE  NumberInv'
<1>0. /\ TypeOK /\ CallersWait /\ runnum \in Nat /\ recorded \subseteq Nat
      /\ fstartdaq \in BOOLEAN
  BY DEF ControlInv, TypeOK, NumberInv
<1>1. CASE EnterToStart(Gui)
  <2>1. Inner = "lock" /\ Inner' = "name" /\ CallersWait'
    BY <1>0, <1>1, GotoInner DEF EnterToStart, Places
  <2> QED
    BY <1>1, <2>1 DEF NumberInv, EnterToStart, runVars, Starting
<1>2. CASE EnterToStop(Gui)
  <2>1. Inner = "lock" /\ Inner' = "count" /\ CallersWait'
    BY <1>0, <1>2, GotoInner DEF EnterToStop, Places
  <2> QED
    BY <1>2, <2>1 DEF NumberInv, EnterToStop, runVars, Starting
<1>3. CASE CountRun(Gui)
  <2>1. Inner = "count" /\ Inner' \in {"none", "events"} /\ CallersWait'
    BY <1>0, <1>3, ReturnInner DEF CountRun, Places
  <2>2. runnum' = runnum + 1 /\ UNCHANGED <<fstartdaq, runnumber, run, recorded>>
    BY <1>3 DEF CountRun, runVars
  <2>3. \A r \in recorded : r < runnum + 1
    BY <1>0 DEF NumberInv
  <2> QED
    BY <2>1, <2>2, <2>3 DEF NumberInv, Starting
<1>4. CASE OpenFiles(Gui)
  <2>1. /\ At(Gui, "name") /\ runnumber' = runnum /\ fstartdaq' = FALSE
        /\ UNCHANGED <<runnum, run, recorded>>
        /\ Return(Gui) \/ Goto(Gui, "start")
    BY <1>4 DEF OpenFiles, UnlockAndReturn
  <2>2. Inner = "name" /\ Inner' \in {"none", "events", "start"} /\ CallersWait'
    BY <1>0, <2>1, ReturnInner, GotoInner DEF Places
  <2> QED
    BY <2>1, <2>2 DEF NumberInv, Starting
<1>5. CASE DetectorStartRun(Gui)
  <2>1. Inner = "start" /\ Inner' = "flag" /\ CallersWait'
    BY <1>0, <1>5, GotoInner DEF DetectorStartRun, Places
  <2>2. /\ run' = runnumber /\ recorded' = recorded \cup {runnumber}
        /\ UNCHANGED <<fstartdaq, runnum, runnumber>>
    BY <1>5 DEF DetectorStartRun
  <2>3. runnumber = runnum /\ ~fstartdaq /\ \A r \in recorded : r < runnum
    BY <2>1 DEF NumberInv, Starting
  <2> QED
    BY <2>1, <2>2, <2>3 DEF NumberInv, Starting
<1>6. CASE DetectorStartFails(Gui)
  <2>1. Inner = "start" /\ Inner' \in {"none", "events"} /\ CallersWait'
    BY <1>0, <1>6, ReturnInner DEF DetectorStartFails, UnlockAndReturn, Places
  <2> QED
    BY <1>6, <2>1 DEF NumberInv, DetectorStartFails, runVars, Starting
<1>7. CASE RaiseFlag(Gui)
  <2>1. Inner = "flag" /\ Inner' = "loop" /\ CallersWait'
    BY <1>0, <1>7, GotoInner DEF RaiseFlag, Places
  <2> QED
    BY <1>7, <2>1 DEF NumberInv, RaiseFlag, runVars, Starting
<1>8. CASE TestFlag(Gui)
  <2>1. At(Gui, "loop") /\ Goto(Gui, IF fstartdaq THEN "read" ELSE "stop")
    BY <1>8 DEF TestFlag
  <2>2. (IF fstartdaq THEN "read" ELSE "stop") \in {"read", "stop"}
    OBVIOUS
  <2>3. Inner = "loop" /\ Inner' \in {"read", "stop"} /\ CallersWait'
    BY <1>0, <2>1, <2>2, GotoInner DEF Places
  <2> QED
    BY <1>8, <2>3 DEF NumberInv, TestFlag, runVars, Starting
<1>9. CASE ReadDataFromModules(Gui)
  <2>1. /\ At(Gui, "read")
        /\ stack' = [stack EXCEPT ![Gui] = [@ EXCEPT ![Len(stack[Gui])] = [at |-> "events", events |-> 0]]]
    BY <1>9 DEF ReadDataFromModules
  <2>2. [at |-> "events", events |-> 0] \in Frames
    BY ControlAssumption DEF Frames, Places
  <2>3. /\ Gui \in Threads /\ stack[Gui] # <<>>
        /\ Len(stack[Gui]) \in DOMAIN stack[Gui]
    BY <1>0, <2>1, StackType DEF At, Threads
  <2>4. /\ stack' \in [Threads -> Seq(Frames)]
        /\ DOMAIN stack'[Gui] = DOMAIN stack[Gui] /\ Len(stack'[Gui]) = Len(stack[Gui])
        /\ \A k \in DOMAIN stack[Gui] :
              stack'[Gui][k] = IF k = Len(stack[Gui]) THEN [at |-> "events", events |-> 0]
                                                      ELSE stack[Gui][k]
    BY <1>0, <2>1, <2>2, <2>3, ReplaceTop
  <2>5. stack'[Gui] # <<>>
    BY <2>3, <2>4, EmptySeq
  <2>6. Inner = "read" /\ Inner' = "events"
    BY <2>1, <2>3, <2>4, <2>5 DEF Inner, Top, At
  <2>7. CallersWait'
    BY <1>0, <2>4 DEF CallersWait
  <2> QED
    BY <1>9, <2>6, <2>7 DEF NumberInv, ReadDataFromModules, runVars, Starting
<1>10. CASE EventsProcessed(Gui)
  <2>1. Inner = "events" /\ Inner' = "loop" /\ CallersWait'
    BY <1>0, <1>10, GotoInner DEF EventsProcessed, Places
  <2> QED
    BY <1>10, <2>1 DEF NumberInv, EventsProcessed, runVars, Starting
<1>11. CASE StopRun(Gui)
  <2>1. /\ At(Gui, "stop") /\ Return(Gui) /\ run' \in {run, NoRun}
        /\ UNCHANGED <<fstartdaq, runnum, runnumber, recorded>>
    BY <1>11 DEF StopRun
  <2>2. Inner = "stop" /\ Inner' \in {"none", "events"} /\ CallersWait'
    BY <1>0, <2>1, ReturnInner DEF Places
  <2> QED
    BY <2>1, <2>2 DEF NumberInv, Starting
<1>12. CASE ChangeRunNumber(Gui)
  BY <1>12 DEF ChangeRunNumber, NumberInv, Inner, At
<1> QED
  BY <1>1, <1>2, <1>3, <1>4, <1>5, <1>6, <1>7, <1>8, <1>9, <1>10, <1>11, <1>12 DEF Step

\* Without remote clients every step is the GUI's.
LEMMA NumberInvNext ==
  ASSUME Clients = {}, ControlInv, NumberInv, [Next]_vars
  PROVE  NumberInv'
<1>1. CASE UNCHANGED vars
  BY <1>1 DEF vars, runVars, NumberInv, CallersWait, Inner, Top
<1>2. CASE Press \/ PressInLoop(Gui)
  <2>1. Inner' = "lock" /\ CallersWait' /\ UNCHANGED <<fstartdaq, runnum, runVars>>
    BY <1>2, PressInner DEF NumberInv, ControlInv, Press, PressInLoop
  <2>2. \A r \in recorded : r < runnum \/ (r = runnum /\ fstartdaq)
    <3>1. Inner \in {"none", "events"}
      BY <1>2 DEF Inner, Press, PressInLoop, At
    <3> QED
      BY <3>1 DEF NumberInv
  <2> QED
    BY <2>1, <2>2 DEF NumberInv, runVars, Starting
<1>3. CASE Step(Gui)
  BY <1>3, NumberStep
<1> QED
  BY <1>1, <1>2, <1>3 DEF Next, Threads

\* In a build without remote calls no start opens the files of an earlier run, however
\* many presses a pass handles, however deep the calls are nested (line 971), and
\* although files, starts and ends fail: the call that stops a run advances the
\* number (940), and a start that fails has used none.
THEOREM FreshNumbers ==
  ASSUME Clients = {}
  PROVE  Spec => []NumbersFresh
<1>1. Init => ControlInv /\ NumberInv
  BY ControlInvInit, NumberInvInit
<1>2. ControlInv /\ NumberInv /\ [Next]_vars => (ControlInv /\ NumberInv)'
  BY ControlInvStep, NumberInvNext
<1>3. ControlInv /\ NumberInv => NumbersFresh
  <2> SUFFICES ASSUME ControlInv, NumberInv, At(Gui, "start") PROVE runnumber \notin recorded
    BY DEF NumbersFresh, Threads
  <2>1. Inner = "start"
    BY DEF Inner, At
  <2>2. runnumber = runnum /\ runnum \in Nat /\ \A r \in recorded : r < runnum
    BY <2>1 DEF NumberInv, ControlInv, TypeOK, Starting
  <2> QED
    BY <2>2
<1> QED
  BY <1>1, <1>2, <1>3, PTL DEF Spec
==============================================================================
