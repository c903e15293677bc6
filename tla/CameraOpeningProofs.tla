------------------------- MODULE CameraOpeningProofs -------------------------
(***************************************************************************)
(* Proofs about CameraOpening for every number of buffers, every count a   *)
(* driver may grant, and any number of threads.                            *)
(***************************************************************************)
EXTENDS CameraOpening, CarefulCameraProofs

\* Where the two loops stand; the device was free before the first one.
Loops ==
  /\ owner = NoOwner => ~mapped /\ queued = {}
  /\ \A a \in Apps :
       /\ appPc[a] = "map" =>
            /\ mFD = owner /\ queued = {}
            /\ i <= count
            /\ i > 0 => mapped
            /\ step = "mmap" /\ ~overrun => i \in Buffers /\ i < count
            /\ \A b \in Buffers : b < i => mBufferArray[b] = "current"
       /\ appPc[a] = "queue" =>
            /\ mFD = owner /\ mapped
            /\ i <= BUFFER_NR /\ i <= count /\ queued = 0 .. i - 1
            /\ \A b \in Buffers : b < count => mBufferArray[b] = "current"

\* What the loops leave behind stays until the session is over.
AllCurrent == count >= BUFFER_NR /\ \A b \in Buffers : mBufferArray[b] = "current"

Complete ==
  (\E a \in Apps : appPc[a] \in {"streamon", "return"}) \/ SomeActive => AllCurrent

OpenInv == CarefulInv /\ OpeningTypeOK /\ Loops /\ Complete /\ OverrunNeedsGrant

LEMMA OpenInvInit == OpeningInit => OpenInv
<1> SUFFICES ASSUME OpeningInit PROVE OpenInv
  OBVIOUS
<1>1. CarefulInv
  BY CarefulInit DEF OpeningInit
<1>2. OpeningTypeOK
  BY BufferAssumption DEF OpeningInit, Init, OpeningTypeOK, Pointers, ConfigSteps, NextIoctl
<1> QED
  BY <1>1, <1>2 DEF OpenInv, OpeningInit, Init, DeviceInit, Loops, Complete, SomeActive, Active,
                    ActiveCap, TouchingCap, OverrunNeedsGrant

-----------------------------------------------------------------------------
(***************************************************************************)
(* While a call is in openCamera it is the only one, and no session is     *)
(* active.                                                                 *)
(***************************************************************************)
LEMMA Alone ==
  ASSUME CarefulInv, NEW a \in Apps, Opening(a)
  PROVE  /\ \A b \in Apps : b # a => appPc[b] = "idle"
         /\ \A t \in Threads : ~Active(t)
BY CarefulFacts DEF Opening, Configuring

(***************************************************************************)
(* The steps of the two loops that CameraLifecycle does not have: one more *)
(* mapping, one more buffer, and the end of the queueing loop.             *)
(***************************************************************************)
LEMMA LoopStepInv ==
  ASSUME CarefulInv, NEW a \in Apps, appPc[a] \in {"map", "queue"}, alive,
         UNCHANGED <<openFds, owner, streaming, mNativeObject, alive, mFD, mPeekRun, index,
                     first, capPc, fault, misuse>>,
         appPc' = appPc \/ AppStep(a, "queue", "streamon"),
         mapped' \in BOOLEAN, mapped => mapped',
         queued' \subseteq Buffers,
         AppStep(a, "queue", "streamon") => mapped' /\ queued' = Buffers
  PROVE  CarefulInv'
<1> USE DEF CarefulInv, IInv
<1>1. /\ \A b \in Apps : b # a => appPc[b] = "idle"
      /\ \A t \in Threads : ~Active(t)
  BY Alone DEF Opening, Configuring
<1>2. /\ appPc \in [Apps -> AppPcs] /\ appPc' \in [Apps -> AppPcs]
      /\ \A b \in Apps : b # a => appPc'[b] = "idle"
      /\ appPc'[a] \in {"map", "queue", "streamon"}
      /\ appPc'[a] = appPc[a] \/ (AppStep(a, "queue", "streamon") /\ appPc'[a] = "streamon")
  <2>1. appPc \in [Apps -> AppPcs]
    BY DEF TypeOK
  <2> QED
    BY <1>1, <2>1 DEF AppStep, AppPcs, TouchingApp
<1>3. TypeOK'
  BY <1>2 DEF TypeOK, DeviceTypeOK
<1>4. OwnerOpen' /\ FieldAndObject'
  BY <1>2 DEF OwnerOpen, FieldAndObject
<1>5. OneCaller'
  BY <1>1, <1>2 DEF OneCaller, Serial
<1>6. (\A b \in Apps : Releasing(b)' => Releasing(b)) /\ Opening(a) /\ Opening(a)' /\ Configuring(a)
  BY <1>1, <1>2 DEF Releasing, Opening, Configuring
<1>7. \A t \in Threads : ~Active(t) /\ ~Active(t)'
  BY <1>1 DEF Active
<1>8. \A t \in Threads : ~Holding(t) /\ ~Holding(t)' /\ ~Looping(t) /\ ~Looping(t)'
  BY <1>7 DEF Holding, Looping, Active, ActiveCap, TouchingCap
<1>9. QuietRelease'
  BY <1>7 DEF QuietRelease, CarefulRelease, Serial
<1>10. mFD # -1 /\ openFds \subseteq {mFD}
  BY <1>6, CarefulFacts
<1>11. OneSession'
  BY <1>7, <1>8, <1>10 DEF OneSession, CarefulStart, Serial
<1>12. OneDescriptor'
  BY <1>2, <1>7, <1>10 DEF OneDescriptor, CarefulStart, Serial, Active, ActiveCap, TouchingCap
<1>13. OneHolder'
  <2>1. appPc[a] \in {"map", "queue"} => mFD \in {-1, owner}
    BY <1>6 DEF OneHolder, Serial
  <2>2. appPc[a] = "queue" /\ mFD = owner => mapped
    BY <1>6 DEF OneHolder, Serial
  <2>3. \A b \in Apps : Configuring(b)' => b = a
    BY <1>2 DEF Configuring
  <2> QED
    BY <1>2, <1>8, <2>1, <2>2, <2>3 DEF OneHolder, Serial
<1>14. BuffersHome'
  <2>1. \A b \in Apps : appPc'[b] \in {"streamon", "return"} => queued' = Buffers /\ appPc'[b] # "return"
    BY <1>2
  <2>2. \A t \in Threads : capPc'[t] \notin {"spawned", "entry", "loop", "select", "dqbuf",
                                             "notifyFirst", "draw", "qbuf"}
    BY <1>7 DEF Active, ActiveCap, TouchingCap
  <2> QED
    BY <2>1, <2>2 DEF BuffersHome, Serial
<1>15. FaultNeedsMisuse'
  BY DEF FaultNeedsMisuse
<1> QED
  BY <1>3, <1>4, <1>5, <1>9, <1>11, <1>12, <1>13, <1>14, <1>15

-----------------------------------------------------------------------------
(***************************************************************************)
(* The steps CameraOpening shares with CameraLifecycle.                    *)
(***************************************************************************)
Free == owner = NoOwner => ~mapped /\ queued = {}

\* A device nobody owns has no mapping and no queued buffer.
LEMMA FreeNext == ASSUME TypeOK, Free, [Next]_vars PROVE Free'
<1> USE DEF Free
<1>1. mFD # NoOwner /\ owner \in Fds \cup {NoOwner, Orphan}
  BY FdsAssumption DEF TypeOK, DeviceTypeOK, NoOwner
<1>2. ASSUME NEW a \in Apps, AppCall(a) PROVE Free'
  BY <1>2 DEF AppCall, CallStart, CallStop, CallRelease, Call, device
<1>3. \A fd : CloseFile(fd) => Free'
  BY DEF CloseFile, NoOwner, Orphan
<1>4. ASSUME NEW a \in Apps, AppWork(a) PROVE Free'
  <2> USE DEF device
  <2>1. CASE OpenCamera(a)
    BY <2>1 DEF OpenCamera, OpenFile
  <2>2. CASE ConfigureCamera(a) \/ MapCamera(a) \/ QueueCamera(a) \/ StreamOnCamera(a)
    BY <1>1, <2>2, FdsAssumption
       DEF ConfigureCamera, MapCamera, QueueCamera, StreamOnCamera, OpenStep, RequestBuffers,
           MapBuffers, QueueBuffers, StreamOn, TypeOK, DeviceTypeOK, NoOwner
  <2>3. CASE ExitClose(a) \/ DeleteCamera(a)
    BY <1>3, <2>3 DEF ExitClose, DeleteCamera
  <2>4. CASE ExitReset(a) \/ ReturnFromOpen(a) \/ StopCapture(a) \/ ReleaseStop(a)
             \/ ClearNativeObject(a) \/ AppUseAfterFree(a)
    BY <2>4 DEF ExitReset, ReturnFromOpen, StopCapture, ReleaseStop, ClearPeekRun,
                ClearNativeObject, AppUseAfterFree, Die
  <2> QED
    BY <1>4, <2>1, <2>2, <2>3, <2>4 DEF AppWork
<1>5. ASSUME NEW t \in Threads, CapWork(t) PROVE Free'
  <2> USE DEF device
  <2>1. CASE DequeueFrame(t) \/ DequeueFails(t) \/ RetrieveBuffer(t)
    BY <1>1, <2>1 DEF DequeueFrame, DequeueFails, RetrieveBuffer, DequeueBuffer, QueueBuffers
  <2>2. CASE ErrorClose(t)
    BY <1>3, <2>2 DEF ErrorClose
  <2>3. CASE RunCapture(t) \/ EnterLoop(t) \/ LoopTest(t) \/ SelectReturns(t) \/ NotifyFirst(t)
             \/ DrawFrame(t) \/ LeaveLoop(t) \/ ErrorReset(t) \/ NotifyEnd(t)
             \/ CapUseAfterFree(t) \/ BadFdSet(t)
    BY <2>3 DEF RunCapture, EnterLoop, LoopTest, SelectReturns, NotifyFirst, DrawFrame, LeaveLoop,
                ErrorReset, NotifyEnd, CapUseAfterFree, BadFdSet, Die
  <2> QED
    BY <1>5, <2>1, <2>2, <2>3 DEF CapWork
<1>6. CASE UNCHANGED vars
  BY <1>6 DEF vars
<1> QED
  BY <1>2, <1>4, <1>5, <1>6 DEF Next

InLoops == AnApp({"map", "queue"})

(***************************************************************************)
(* During the loops nothing else moves, except a thread that reports the   *)
(* end of the session before; and no other step enters or leaves them.     *)
(***************************************************************************)
LEMMA OutsideLoops ==
  ASSUME CarefulInv, Goes,
         \/ \E a \in Apps : OtherWork(a) \/ AppCall(a) \/ OpenCamera(a)
         \/ \E t \in Threads : CapWork(t)
  PROVE  \/ ~InLoops /\ ~InLoops'
         \/ UNCHANGED vars
         \/ \E t \in Threads : NotifyEnd(t)
<1> USE DEF CarefulInv, IInv
<1>1. TypeOK /\ appPc \in [Apps -> AppPcs]
  BY DEF TypeOK
<1>2. ASSUME NEW a \in Apps, OtherWork(a) \/ OpenCamera(a)
      PROVE  ~InLoops /\ ~InLoops'
  <2>1. AppWork(a)
    BY <1>2 DEF OtherWork, AppWork
  <2>2. appPc[a] # "idle" /\ \A b \in Apps : b # a => appPc[b] = "idle" /\ appPc'[b] = "idle"
    BY <1>1, <2>1, AppFrame, CarefulFacts
  <2>3. CASE AppUseAfterFree(a)
    <3>1. appPc[a] \in {"idle", "rel_clear"} /\ ~alive
      BY <2>3, CarefulFacts DEF AppUseAfterFree
    <3> QED
      BY <2>3, <3>1 DEF AppUseAfterFree, TouchingApp
  <2>4. CASE ~AppUseAfterFree(a)
    <3>1. appPc[a] \notin {"map", "queue"} /\ appPc'[a] \notin {"map", "queue"}
      BY <1>1, <1>2, <2>4
         DEF OtherWork, OpenCamera, StreamOnCamera, OpenStep, ExitClose, ExitReset, ReturnFromOpen,
             StopCapture, ReleaseStop, ClearPeekRun, DeleteCamera, ClearNativeObject, AppStep
    <3> QED
      BY <2>2, <3>1 DEF InLoops, AnApp
  <2> QED
    BY <2>3, <2>4
<1>3. ASSUME NEW a \in Apps, AppCall(a)
      PROVE  (~InLoops /\ ~InLoops') \/ UNCHANGED vars
  <2>1. CASE UNCHANGED appPc
    <3>1. CASE mNativeObject
      <4>1. appPc[a] = "idle" /\ (appPc'[a] = "open" \/ appPc'[a] = "stop" \/ appPc'[a] = "rel_stop")
        BY <1>1, <1>3, <3>1 DEF AppCall, CallStart, CallStop, CallRelease, Call
      <4> QED
        BY <2>1, <4>1
    <3>2. CASE ~mNativeObject
      BY <1>3, <2>1, <3>2 DEF AppCall, CallStart, CallStop, CallRelease, Call, vars, device
    <3> QED
      BY <3>1, <3>2
  <2>2. CASE ~UNCHANGED appPc
    <3>1. /\ \A b \in Apps : b # a => appPc[b] = "idle" /\ appPc'[b] = "idle"
          /\ appPc[a] = "idle" /\ appPc'[a] \in {"open", "stop", "rel_stop"}
      BY <1>1, <1>3, <2>2, CallFrame DEF Goes, Serial
    <3> QED
      BY <3>1 DEF InLoops, AnApp
  <2> QED
    BY <2>1, <2>2
<1>4. ASSUME NEW t \in Threads, CapWork(t)
      PROVE  (~InLoops /\ ~InLoops') \/ NotifyEnd(t)
  <2>1. appPc' = appPc
    BY <1>1, <1>4, CapFrame
  <2>2. CASE InLoops
    <3>1. ~Active(t)
      <4>1. PICK a \in Apps : appPc[a] \in {"map", "queue"}
        BY <2>2 DEF InLoops, AnApp
      <4>2. Opening(a)
        BY <4>1 DEF Opening, Configuring
      <4> QED
        BY <4>2, Alone
    <3> QED
      BY <1>4, <3>1
         DEF CapWork, RunCapture, EnterLoop, LoopTest, SelectReturns, DequeueFrame, DequeueFails,
             NotifyFirst, DrawFrame, RetrieveBuffer, LeaveLoop, ErrorClose, ErrorReset,
             CapUseAfterFree, BadFdSet, CapStep, Active, ActiveCap, TouchingCap
  <2> QED
    BY <2>1, <2>2 DEF InLoops, AnApp
<1> QED
  BY <1>2, <1>3, <1>4

-----------------------------------------------------------------------------
(***************************************************************************)
(* The refinement.  Outside the loops both views of the device agree, so   *)
(* that a step is the same step in both.                                   *)
(***************************************************************************)
SameDevice ==
  /\ mappedBar = mapped /\ mappedBar' = mapped'
  /\ queuedBar = queued /\ queuedBar' = queued'

LEMMA CapShared ==
  ASSUME SameDevice, NEW t \in Threads, CapWork(t)
  PROVE  Coarse!CapWork(t)
<1> USE DEF SameDevice, CapStep, Coarse!CapStep, device, Coarse!device, Coarse!Buffers, Buffers,
            NoOwner, Coarse!NoOwner, Orphan, Coarse!Orphan
<1>1. CASE RunCapture(t) \/ EnterLoop(t) \/ LoopTest(t) \/ SelectReturns(t)
  BY <1>1
     DEF RunCapture, EnterLoop, LoopTest, SelectReturns, Coarse!RunCapture, Coarse!EnterLoop,
         Coarse!LoopTest, Coarse!SelectReturns, Coarse!CapWork
<1>2. CASE DequeueFrame(t) \/ DequeueFails(t) \/ RetrieveBuffer(t)
  BY <1>2
     DEF DequeueFrame, DequeueFails, RetrieveBuffer, AfterDequeue, DequeueBuffer,
         QueueBuffers, Coarse!DequeueFrame, Coarse!DequeueFails, Coarse!RetrieveBuffer,
         Coarse!AfterDequeue, Coarse!DequeueBuffer, Coarse!QueueBuffers, Coarse!CapWork
<1>3. CASE NotifyFirst(t) \/ DrawFrame(t) \/ LeaveLoop(t)
  BY <1>3
     DEF NotifyFirst, DrawFrame, LeaveLoop, Coarse!NotifyFirst, Coarse!DrawFrame,
         Coarse!LeaveLoop, Coarse!CapWork
<1>4. CASE ErrorClose(t) \/ ErrorReset(t) \/ NotifyEnd(t)
  BY <1>4
     DEF ErrorClose, ErrorReset, NotifyEnd, CloseFile, Coarse!ErrorClose, Coarse!ErrorReset,
         Coarse!NotifyEnd, Coarse!CloseFile, Coarse!CapWork
<1>5. CASE CapUseAfterFree(t) \/ BadFdSet(t)
  BY <1>5
     DEF CapUseAfterFree, BadFdSet, Die, TouchingCap, Coarse!CapUseAfterFree, Coarse!BadFdSet,
         Coarse!Die, Coarse!TouchingCap, Coarse!CapWork
<1> QED
  BY <1>1, <1>2, <1>3, <1>4, <1>5 DEF CapWork

LEMMA AppShared ==
  ASSUME SameDevice, NEW a \in Apps, OtherWork(a) \/ OpenCamera(a)
  PROVE  Coarse!AppWork(a)
<1> USE DEF SameDevice, AppStep, Coarse!AppStep, device, Coarse!device, CapStep, Coarse!CapStep,
            NoOwner, Coarse!NoOwner, Orphan, Coarse!Orphan, TouchingApp, Coarse!TouchingApp
<1>1. CASE StreamOnCamera(a) \/ OpenCamera(a)
  BY <1>1
     DEF StreamOnCamera, OpenCamera, OpenStep, StreamOn, OpenFile, Coarse!StreamOnCamera,
         Coarse!OpenCamera, Coarse!OpenStep, Coarse!StreamOn, Coarse!OpenFile, Coarse!AppWork
<1>2. CASE ExitClose(a) \/ ExitReset(a) \/ DeleteCamera(a)
  BY <1>2
     DEF ExitClose, ExitReset, DeleteCamera, CloseFile, Coarse!ExitClose, Coarse!ExitReset,
         Coarse!DeleteCamera, Coarse!CloseFile, Coarse!AppWork
<1>3. CASE ReturnFromOpen(a) \/ StopCapture(a) \/ ReleaseStop(a)
  BY <1>3
     DEF ReturnFromOpen, StopCapture, ReleaseStop, ClearPeekRun, Coarse!ReturnFromOpen,
         Coarse!StopCapture, Coarse!ReleaseStop, Coarse!ClearPeekRun, Coarse!AppWork
<1>4. CASE ClearNativeObject(a) \/ AppUseAfterFree(a)
  BY <1>4
     DEF ClearNativeObject, AppUseAfterFree, Die, Coarse!ClearNativeObject,
         Coarse!AppUseAfterFree, Coarse!Die, Coarse!AppWork
<1> QED
  BY <1>1, <1>2, <1>3, <1>4 DEF OtherWork

LEMMA CallShared ==
  ASSUME SameDevice, NEW a \in Apps, AppCall(a)
  PROVE  Coarse!AppCall(a)
BY DEF SameDevice, AppCall, CallStart, CallStop, CallRelease, Call, Overlap, device, SomeActive,
       Active, ActiveCap, TouchingCap,
       Coarse!AppCall, Coarse!CallStart, Coarse!CallStop, Coarse!CallRelease, Coarse!Call,
       Coarse!Overlap, Coarse!device, Coarse!SomeActive, Coarse!Active, Coarse!ActiveCap,
       Coarse!TouchingCap

CoarseStep == [Coarse!CarefulNext]_(Coarse!vars)

SharedStep ==
  \/ UNCHANGED opening /\ \E a \in Apps : OtherWork(a) \/ AppCall(a)
  \/ \E a \in Apps : OpenDevice(a)
  \/ UNCHANGED opening /\ \E t \in Threads : CapWork(t)

LEMMA SharedInv == ASSUME OpenInv, Goes, SharedStep PROVE OpenInv'
<1> USE DEF OpenInv
<1>1. [CarefulNext]_vars /\ [Next]_vars
  BY DEF SharedStep, Goes, OtherWork, OpenDevice, CarefulNext, Next, AppWork
<1>2. CarefulInv'
  BY <1>1, CarefulInvNext
<1>3. Free'
  BY <1>1, FreeNext DEF CarefulInv, IInv, Loops, Free
<1>4. \/ ~InLoops /\ ~InLoops'
      \/ UNCHANGED vars
      \/ \E t \in Threads : NotifyEnd(t)
  BY OutsideLoops DEF SharedStep, OpenDevice
<1>5. appPc \in [Apps -> AppPcs] /\ TypeOK
  BY DEF CarefulInv, IInv, TypeOK
<1>6. CASE \E a \in Apps : OpenDevice(a)
  <2>1. PICK a \in Apps : OpenDevice(a)
    BY <1>6
  <2>2. /\ appPc[a] = "open" /\ appPc' # appPc
        /\ appPc'[a] \in {"configure", "idle"}
        /\ UNCHANGED <<capPc, i, count, overrun>>
        /\ step' = "querycap"
    BY <1>5, <2>1 DEF OpenDevice, OpenCamera, AppStep
  <2>3. ~InLoops'
    <3>1. \A t \in Threads : ~NotifyEnd(t)
      BY <2>2 DEF NotifyEnd
    <3> QED
      BY <1>4, <2>2, <3>1 DEF vars
  <2>4. \A b \in Apps : b # a => appPc[b] = "idle" /\ appPc'[b] = "idle"
    BY <1>5, <2>1, <2>2, Alone DEF OpenDevice, OpenCamera, AppStep, Opening
  <2>5. ~SomeActive'
    <3>1. \A t \in Threads : ~Active(t)
      BY <2>2, Alone DEF Opening
    <3> QED
      BY <2>2, <3>1 DEF SomeActive, Active
  <2>6. mBufferArray' \in [Buffers -> Pointers]
    BY <2>1 DEF OpenDevice, Mark, OpeningTypeOK, Pointers
  <2>7. OpeningTypeOK'
    BY <2>2, <2>3, <2>6 DEF OpeningTypeOK, ConfigSteps, NextIoctl, InLoops, AnApp
  <2>8. Complete'
    BY <2>2, <2>4, <2>5 DEF Complete
  <2>9. Loops'
    BY <1>3, <2>3 DEF Loops, InLoops, AnApp, Free
  <2> QED
    BY <1>2, <2>2, <2>7, <2>8, <2>9 DEF OverrunNeedsGrant
<1>7. CASE ~\E a \in Apps : OpenDevice(a)
  <2>1. UNCHANGED <<step, i, count, mBufferArray, overrun>>
    BY <1>7 DEF SharedStep, opening
  <2>2. Loops'
    <3>1. CASE ~InLoops'
      BY <1>3, <3>1 DEF Loops, InLoops, AnApp, Free
    <3>2. CASE UNCHANGED vars
      BY <2>1, <3>2 DEF Loops, vars
    <3>3. CASE \E t \in Threads : NotifyEnd(t)
      BY <2>1, <3>3 DEF Loops, NotifyEnd, device
    <3> QED
      BY <1>4, <3>1, <3>2, <3>3
  <2>3. \A a \in Apps : /\ appPc'[a] = "configure" => appPc[a] = "configure"
                        /\ appPc'[a] = "map" => appPc[a] = "map"
                        /\ appPc'[a] \in {"streamon", "return"} => appPc[a] \in {"streamon", "return"}
    <3>1. ASSUME NEW a \in Apps, OtherWork(a)
          PROVE  /\ appPc'[a] \notin {"configure", "map"}
                 /\ appPc'[a] \in {"streamon", "return"} => appPc[a] \in {"streamon", "return"}
      <4>1. CASE AppUseAfterFree(a)
        <5>1. appPc[a] \in {"idle", "rel_clear"} /\ ~alive
          BY <4>1, CarefulFacts DEF AppUseAfterFree
        <5> QED
          BY <4>1, <5>1 DEF AppUseAfterFree, TouchingApp
      <4>2. CASE ~AppUseAfterFree(a)
        BY <1>5, <3>1, <4>2
           DEF OtherWork, StreamOnCamera, OpenStep, ExitClose, ExitReset, ReturnFromOpen,
               StopCapture, ReleaseStop, ClearPeekRun, DeleteCamera, ClearNativeObject, AppStep
      <4> QED
        BY <4>1, <4>2
    <3>2. ASSUME NEW a \in Apps, OtherWork(a)
          PROVE  \A b \in Apps : b # a => appPc'[b] = appPc[b]
      BY <1>5, <3>2, AppFrame DEF OtherWork, AppWork
    <3>3. ASSUME NEW a \in Apps, AppCall(a)
          PROVE  /\ \A b \in Apps : b # a => appPc'[b] = appPc[b]
                 /\ appPc'[a] = appPc[a] \/ appPc'[a] \in {"open", "stop", "rel_stop"}
      BY <1>5, <3>3, CallFrame
    <3>4. ASSUME NEW t \in Threads, CapWork(t) PROVE appPc' = appPc
      BY <1>5, <3>4, CapFrame
    <3> QED
      BY <1>7, <3>1, <3>2, <3>3, <3>4 DEF SharedStep
  <2>4. SomeActive' => SomeActive \/ \E a \in Apps : appPc[a] = "return"
    <3>1. ASSUME NEW a \in Apps, OtherWork(a)
          PROVE  UNCHANGED capPc \/ appPc[a] = "return"
      BY <1>5, <3>1, AppFrame DEF OtherWork, AppWork
    <3>2. ASSUME NEW a \in Apps, AppCall(a) PROVE UNCHANGED capPc
      BY <1>5, <3>2, CallFrame
    <3>3. ASSUME NEW t \in Threads, CapWork(t) PROVE SomeActive' => SomeActive
      <4>1. (\A s \in Threads : s # t => capPc'[s] = capPc[s]) /\ (Active(t)' => Active(t))
        BY <1>5, <3>3, CapFrame
      <4> QED
        BY <4>1 DEF SomeActive, Active
    <3>4. UNCHANGED capPc => SomeActive' = SomeActive
      BY DEF SomeActive, Active
    <3> QED
      BY <1>7, <3>1, <3>2, <3>3, <3>4 DEF SharedStep
  <2>5. Complete'
    BY <2>1, <2>3, <2>4 DEF Complete, AllCurrent
  <2>6. OpeningTypeOK'
    BY <2>1, <2>3 DEF OpeningTypeOK
  <2> QED
    BY <1>2, <2>1, <2>2, <2>5, <2>6 DEF OverrunNeedsGrant
<1> QED
  BY <1>6, <1>7

LEMMA OutsideSame == ASSUME ~InLoops, ~InLoops', TypeOK, TypeOK' PROVE SameDevice
<1>1. mapped \in BOOLEAN /\ mapped' \in BOOLEAN
  BY DEF TypeOK, DeviceTypeOK
<1>2. ~AnApp({"map"}) /\ ~AnApp({"queue"}) /\ ~AnApp({"map"})' /\ ~AnApp({"queue"})'
  BY DEF InLoops, AnApp
<1> QED
  BY <1>1, <1>2 DEF SameDevice, mappedBar, queuedBar

\* With the same calls under way, the same device looks the same.
LEMMA StillSame == UNCHANGED <<mapped, queued, appPc>> => UNCHANGED <<mappedBar, queuedBar>>
  BY DEF mappedBar, queuedBar, AnApp

LEMMA SharedSimulated == ASSUME OpenInv, OpenInv', Goes, SharedStep PROVE CoarseStep
<1> USE DEF OpenInv
<1>1. TypeOK /\ TypeOK'
  BY DEF CarefulInv, IInv
<1>2. \/ ~InLoops /\ ~InLoops'
      \/ UNCHANGED vars
      \/ \E t \in Threads : NotifyEnd(t)
  BY OutsideLoops DEF SharedStep, OpenDevice
<1>3. CASE ~InLoops /\ ~InLoops'
  <2>1. SameDevice
    BY <1>1, <1>3, OutsideSame
  <2>2. /\ \A a \in Apps : OtherWork(a) \/ OpenCamera(a) => Coarse!AppWork(a)
        /\ \A a \in Apps : AppCall(a) => Coarse!AppCall(a)
        /\ \A t \in Threads : CapWork(t) => Coarse!CapWork(t)
    BY <2>1, CapShared, AppShared, CallShared
  <2>3. Coarse!Next
    BY <2>2 DEF SharedStep, OpenDevice, Goes, Coarse!Next
  <2> QED
    BY <2>3 DEF CoarseStep, Coarse!CarefulNext, Goes
<1>4. CASE UNCHANGED vars
  BY <1>4, StillSame DEF vars, CoarseStep, Coarse!vars
<1>5. CASE \E t \in Threads : NotifyEnd(t)
  <2>1. PICK t \in Threads : NotifyEnd(t)
    BY <1>5
  <2>2. UNCHANGED <<mappedBar, queuedBar>>
    BY <2>1, StillSame DEF NotifyEnd, device
  <2>3. Coarse!NotifyEnd(t)
    BY <2>1, <2>2 DEF NotifyEnd, device, CapStep, Coarse!NotifyEnd, Coarse!device, Coarse!CapStep
  <2>4. Coarse!Next
    BY <2>3 DEF Goes, Coarse!Next, Coarse!CapWork
  <2> QED
    BY <2>4 DEF CoarseStep, Coarse!CarefulNext, Goes
<1> QED
  BY <1>2, <1>3, <1>4, <1>5

-----------------------------------------------------------------------------
(***************************************************************************)
(* The calls of openCamera itself.                                         *)
(***************************************************************************)

\* A step of openCamera that is CameraLifecycle's as it stands.
LEMMA PlainStep ==
  ASSUME OpenInv, Goes, NEW a \in Apps,
         (ConfigureCamera(a) \/ MapCamera(a) \/ QueueCamera(a)) \/ UNCHANGED vars
  PROVE  CarefulInv' /\ Free'
<1>1. [CarefulNext]_vars /\ [Next]_vars
  BY DEF Goes, CarefulNext, Next, AppWork
<1> QED
  BY <1>1, CarefulInvNext, FreeNext DEF OpenInv, CarefulInv, IInv, Loops, Free

\* Who is alone in openCamera, and with which descriptor.
LEMMA LoopFacts ==
  ASSUME OpenInv, NEW a \in Apps, appPc[a] \in {"configure", "map", "queue"}
  PROVE  /\ appPc \in [Apps -> AppPcs] /\ mapped \in BOOLEAN /\ queued \subseteq Buffers
         /\ \A b \in Apps : b # a => appPc[b] = "idle"
         /\ \A t \in Threads : ~Active(t)
         /\ mFD \in Fds /\ mFD # NoOwner
         /\ i \in Nat /\ count \in Nat /\ BUFFER_NR \in Nat /\ BUFFER_NR > 0
<1>1. mFD \in Fds
  BY CarefulFacts DEF OpenInv, CarefulInv, IInv, TypeOK, Configuring
<1>2. /\ \A b \in Apps : b # a => appPc[b] = "idle"
      /\ \A t \in Threads : ~Active(t)
  BY Alone DEF OpenInv, Opening, Configuring
<1> QED
  BY <1>1, <1>2, FdsAssumption, BufferAssumption, GrantedAssumption
     DEF OpenInv, CarefulInv, IInv, TypeOK, DeviceTypeOK, NoOwner, OpeningTypeOK

LEMMA CoarseMove ==
  ASSUME Goes, NEW a \in Apps,
         Coarse!ConfigureCamera(a) \/ Coarse!MapCamera(a) \/ Coarse!QueueCamera(a)
  PROVE  CoarseStep
BY DEF Goes, CoarseStep, Coarse!CarefulNext, Coarse!Next, Coarse!AppWork

LEMMA ConfigureStep ==
  ASSUME OpenInv, Goes, NEW a \in Apps, Configure(a)
  PROVE  OpenInv' /\ CoarseStep
<1>1. /\ appPc[a] = "configure" /\ UNCHANGED <<device, i, count, mBufferArray, overrun>>
      /\ appPc'[a] \in {"configure", "exit_close"}
      /\ UNCHANGED vars \/ ConfigureCamera(a)
      /\ (appPc' = appPc /\ step' = NextIoctl[step]) \/ step' = step
      /\ step # "reqbufs" /\ Unmoved
  BY DEF Configure, Unmoved, Refused, AppStep, ConfigureCamera, OpenStep, vars, device, OpenInv,
         CarefulInv, IInv, TypeOK
<1>2. CarefulInv' /\ Free'
  BY <1>1, PlainStep
<1>3. /\ \A b \in Apps : b # a => appPc[b] = "idle" /\ appPc'[b] = "idle"
      /\ ~SomeActive'
  BY <1>1, LoopFacts
     DEF Configure, Refused, AppStep, Unmoved, SomeActive, Active
<1>4. ~InLoops /\ ~InLoops'
  BY <1>1, <1>3 DEF InLoops, AnApp
<1>5. step' \in ConfigSteps
  BY <1>1 DEF OpenInv, OpeningTypeOK, ConfigSteps, NextIoctl
<1>6. OpenInv'
  BY <1>1, <1>2, <1>3, <1>4, <1>5
     DEF OpenInv, OpeningTypeOK, Loops, Free, Complete, OverrunNeedsGrant, InLoops, AnApp
<1>7. SameDevice
  BY <1>2, <1>4, OutsideSame DEF OpenInv, CarefulInv, IInv
<1>8. CoarseStep
  <2>1. CASE UNCHANGED vars
    BY <2>1, StillSame DEF vars, CoarseStep, Coarse!vars
  <2>2. CASE ConfigureCamera(a)
    <3>1. Coarse!ConfigureCamera(a)
      BY <1>7, <2>2
         DEF SameDevice, ConfigureCamera, OpenStep, RequestBuffers, AppStep, device, NoOwner,
             Coarse!ConfigureCamera, Coarse!OpenStep, Coarse!RequestBuffers, Coarse!AppStep,
             Coarse!device, Coarse!NoOwner
    <3> QED
      BY <3>1, CoarseMove
  <2> QED
    BY <1>1, <2>1, <2>2
<1> QED
  BY <1>6, <1>8

\* Where the calls stand after a step of the one that is in openCamera.
LEMMA OnlyOne ==
  ASSUME OpenInv, NEW a \in Apps, appPc[a] \in {"configure", "map", "queue"},
         NEW to, appPc' = [appPc EXCEPT ![a] = to], UNCHANGED capPc
  PROVE  /\ appPc'[a] = to /\ \A b \in Apps : b # a => appPc'[b] = "idle"
         /\ ~SomeActive'
         /\ AnApp({"map"}) <=> appPc[a] = "map"
         /\ AnApp({"queue"}) <=> appPc[a] = "queue"
         /\ AnApp({"map"})' <=> to = "map"
         /\ AnApp({"queue"})' <=> to = "queue"
BY LoopFacts DEF SomeActive, Active, AnApp

\* A call that fails leaves the two loops for exit_tag.
LEMMA RefusedStep ==
  ASSUME OpenInv, Goes, NEW a \in Apps, NEW at \in {"configure", "map", "queue"},
         alive, Refused(a, at), Unmoved, UNCHANGED <<step, i, count, overrun>>,
         mBufferArray' \in [Buffers -> Pointers],
         at = "queue" => QueueLoop
  PROVE  OpenInv' /\ CoarseStep
<1> USE DEF Refused, AppStep, Unmoved, device
<1>1. ConfigureCamera(a) \/ MapCamera(a) \/ QueueCamera(a)
  BY DEF ConfigureCamera, MapCamera, QueueCamera, OpenStep
<1>2. CarefulInv' /\ Free'
  BY <1>1, PlainStep
<1>3. /\ appPc[a] = at /\ appPc'[a] = "exit_close"
      /\ \A b \in Apps : b # a => appPc'[b] = "idle"
      /\ ~SomeActive'
      /\ AnApp({"map"}) <=> at = "map"
      /\ AnApp({"queue"}) <=> at = "queue"
      /\ ~AnApp({"map"})' /\ ~AnApp({"queue"})'
  BY OnlyOne
<1>4. OpenInv'
  BY <1>2, <1>3 DEF OpenInv, OpeningTypeOK, Loops, Free, Complete, OverrunNeedsGrant
<1>5. /\ mapped \in BOOLEAN /\ BUFFER_NR \in Nat /\ i \in Nat /\ queued \subseteq Buffers
  BY <1>3, LoopFacts
<1>6. CASE at = "configure"
  <2>1. UNCHANGED <<mappedBar, queuedBar>>
    BY <1>3, <1>5, <1>6 DEF mappedBar, queuedBar
  <2>2. Coarse!ConfigureCamera(a)
    BY <1>6, <2>1
       DEF Coarse!ConfigureCamera, Coarse!OpenStep, Coarse!AppStep, Coarse!device
  <2> QED
    BY <1>4, <2>2, CoarseMove
<1>7. CASE at = "map"
  <2>1. mFD = owner /\ queuedBar = queued /\ queuedBar' = queued /\ mappedBar = FALSE /\ mappedBar' = mapped
    BY <1>3, <1>5, <1>7 DEF mappedBar, queuedBar, OpenInv, Loops
  <2>2. UNCHANGED Coarse!device \/ Coarse!MapBuffers(mFD)
    BY <1>5, <2>1 DEF Coarse!device, Coarse!MapBuffers
  <2>3. Coarse!MapCamera(a)
    BY <1>7, <2>2 DEF Coarse!MapCamera, Coarse!OpenStep, Coarse!AppStep
  <2> QED
    BY <1>4, <2>3, CoarseMove
<1>8. CASE at = "queue"
  <2>1. mFD = owner /\ queuedBar = {} /\ queuedBar' = 0 .. i - 1 /\ UNCHANGED mappedBar /\ i <= BUFFER_NR
    BY <1>3, <1>5, <1>8 DEF mappedBar, queuedBar, OpenInv, Loops
  <2>2. i \in Coarse!Buffers
    BY <1>5, <1>8 DEF Coarse!Buffers, QueueLoop
  <2>3. Coarse!QueueBuffers(mFD, 0 .. (i - 1))
    BY <2>1 DEF Coarse!QueueBuffers
  <2>4. Coarse!QueueCamera(a)
    BY <1>8, <2>2, <2>3 DEF Coarse!QueueCamera, Coarse!OpenStep, Coarse!AppStep
  <2> QED
    BY <1>4, <2>4, CoarseMove
<1> QED
  BY <1>4, <1>6, <1>7, <1>8

LEMMA RequestStep ==
  ASSUME OpenInv, Goes, NEW a \in Apps, Request(a)
  PROVE  OpenInv' /\ CoarseStep
<1>1. CASE Refused(a, "configure") /\ UNCHANGED <<step, i, count>>
  BY <1>1, RefusedStep DEF Request, OpenInv, OpeningTypeOK, Pointers
<1>2. CASE AppStep(a, "configure", "map") /\ RequestBuffers(mFD) /\ step' = "querybuf"
           /\ i' = 0 /\ count' \in Granted
  <2>1. /\ appPc[a] = "configure" /\ appPc' = [appPc EXCEPT ![a] = "map"]
        /\ alive /\ Unmoved /\ UNCHANGED <<mBufferArray, overrun>>
        /\ UNCHANGED capPc
    BY <1>2 DEF Request, AppStep, Unmoved
  <2>2. /\ appPc'[a] = "map"
        /\ \A b \in Apps : b # a => appPc'[b] = "idle"
        /\ ~SomeActive'
        /\ ~AnApp({"map"}) /\ ~AnApp({"queue"})
        /\ AnApp({"map"})' /\ ~AnApp({"queue"})'
    BY <2>1, OnlyOne
  <2>3. /\ mapped = FALSE /\ owner' = mFD /\ queued' = {}
        /\ UNCHANGED <<openFds, mapped, streaming>>
        /\ mFD \in openFds /\ (owner = NoOwner \/ owner = mFD)
    BY <1>2, <2>1, LoopFacts DEF RequestBuffers, OpenInv, Loops
  <2>4. count' \in Nat /\ count' > 0
    BY <1>2, GrantedAssumption
  <2>5. CarefulInv' /\ Free'
    <3>1. ConfigureCamera(a)
      BY <1>2, <2>1 DEF ConfigureCamera, OpenStep, Unmoved
    <3> QED
      BY <3>1, PlainStep
  <2>6. mFD' = mFD
    BY <2>1 DEF Unmoved
  <2>7. OpeningTypeOK'
    BY <1>2, <2>1, <2>2 DEF OpenInv, OpeningTypeOK, ConfigSteps
  <2>8. Loops'
    <3>1. \A b \in Buffers : ~(b < 0)
      BY BufferAssumption DEF Buffers
    <3> QED
      BY <1>2, <2>2, <2>3, <2>4, <2>5, <2>6, <3>1 DEF Loops, Free
  <2>9. Complete' /\ OverrunNeedsGrant'
    <3>1. ~overrun
      BY DEF Goes
    <3> QED
      BY <2>1, <2>2, <3>1 DEF Complete, OverrunNeedsGrant
  <2>10. mappedBar = FALSE /\ mappedBar' = FALSE /\ queuedBar' = {}
    BY <2>2, <2>3 DEF mappedBar, queuedBar
  <2>11. Coarse!ConfigureCamera(a)
    <3>1. Coarse!RequestBuffers(mFD)
      BY <2>3, <2>10 DEF Coarse!RequestBuffers, NoOwner, Coarse!NoOwner
    <3> QED
      BY <1>2, <2>1, <3>1
         DEF AppStep, Unmoved, Coarse!ConfigureCamera, Coarse!OpenStep, Coarse!AppStep
  <2> QED
    BY <2>5, <2>7, <2>8, <2>9, <2>11, CoarseMove DEF OpenInv
<1> QED
  BY <1>1, <1>2 DEF Request

LEMMA QueryStep ==
  ASSUME OpenInv, Goes, NEW a \in Apps, Query(a)
  PROVE  OpenInv' /\ CoarseStep
<1>1. CASE Refused(a, "map") /\ UNCHANGED <<step, overrun>>
  BY <1>1, RefusedStep DEF Query, OpenInv, OpeningTypeOK, Pointers
<1>2. CASE step' = "mmap" /\ overrun' = (i \notin Buffers) /\ UNCHANGED <<device, appPc>>
  <2>1. /\ UNCHANGED vars /\ UNCHANGED <<i, count, mBufferArray>>
        /\ appPc[a] = "map" /\ i < count
    BY <1>2 DEF Query, Unmoved, vars, device, GrantedLeft
  <2>2. CarefulInv' /\ Free'
    BY <2>1, PlainStep
  <2>3. \A b \in Apps : b # a => appPc[b] = "idle"
    BY <2>1, LoopFacts
  <2>4. OpeningTypeOK'
    BY <1>2, <2>1, <2>3 DEF OpenInv, OpeningTypeOK, vars
  <2>5. Loops'
    BY <1>2, <2>1, <2>3 DEF OpenInv, Loops, vars
  <2>6. Complete'
    BY <2>1 DEF OpenInv, Complete, AllCurrent, SomeActive, Active, vars
  <2>7. OverrunNeedsGrant'
    <3>1. i \notin Buffers => count > BUFFER_NR
      BY <2>1, LoopFacts DEF Buffers
    <3>2. overrun' => i \notin Buffers
      BY <1>2
    <3> QED
      BY <2>1, <3>1, <3>2 DEF OverrunNeedsGrant
  <2>8. CoarseStep
    BY <2>1, StillSame DEF vars, CoarseStep, Coarse!vars
  <2> QED
    BY <2>2, <2>4, <2>5, <2>6, <2>7, <2>8 DEF OpenInv
<1> QED
  BY <1>1, <1>2 DEF Query

LEMMA MapStep ==
  ASSUME OpenInv, Goes, NEW a \in Apps, Map(a)
  PROVE  OpenInv' /\ CoarseStep
<1>1. /\ appPc[a] = "map" /\ step = "mmap" /\ alive /\ UNCHANGED <<count, overrun>>
      /\ i \in Buffers /\ i < count /\ mFD = owner /\ queued = {}
  BY DEF Map, Goes, OpenInv, Loops
<1>2. CASE /\ Refused(a, "map")
           /\ mBufferArray' = [mBufferArray EXCEPT ![i] = "failed"]
           /\ UNCHANGED <<step, i>>
  BY <1>1, <1>2, RefusedStep DEF Map, OpenInv, OpeningTypeOK, Pointers
<1>3. CASE /\ MapBuffers(mFD)
           /\ mBufferArray' = [mBufferArray EXCEPT ![i] = "current"]
           /\ step' = "querybuf" /\ i' = i + 1
           /\ UNCHANGED appPc
  <2>1. /\ UNCHANGED <<openFds, owner, streaming, queued, mNativeObject, alive, mFD, mPeekRun,
                       index, first, capPc, fault, misuse, appPc>>
        /\ mapped' = TRUE
    BY <1>3 DEF Map, MapBuffers, Unmoved
  <2>2. CarefulInv'
    BY <1>1, <2>1, LoopStepInv, LoopFacts DEF OpenInv, AppStep
  <2>3. \A b \in Apps : b # a => appPc[b] = "idle"
    BY <1>1, LoopFacts
  <2>4. OpeningTypeOK'
    BY <1>1, <1>3, <2>3 DEF OpenInv, OpeningTypeOK, Pointers
  <2>5. Loops'
    <3>1. /\ i + 1 <= count /\ mFD' = owner' /\ owner' # NoOwner
          /\ \A b \in Buffers : b < i + 1 => mBufferArray'[b] = "current"
      BY <1>1, <1>3, <2>1, LoopFacts DEF OpenInv, Loops, OpeningTypeOK, Buffers
    <3> QED
      BY <1>1, <1>3, <2>1, <2>3, <3>1 DEF Loops
  <2>6. Complete'
    BY <1>1, <2>1, <2>3, LoopFacts DEF Complete, SomeActive, Active
  <2>7. OverrunNeedsGrant'
    BY <1>1 DEF OpenInv, OverrunNeedsGrant
  <2>8. UNCHANGED <<mappedBar, queuedBar>>
    BY <1>1, <2>1 DEF mappedBar, queuedBar, AnApp
  <2>9. CoarseStep
    BY <2>1, <2>8 DEF CoarseStep, Coarse!vars
  <2> QED
    BY <2>2, <2>4, <2>5, <2>6, <2>7, <2>9 DEF OpenInv
<1> QED
  BY <1>2, <1>3 DEF Map

LEMMA EndMapStep ==
  ASSUME OpenInv, Goes, NEW a \in Apps, EndMap(a)
  PROVE  OpenInv' /\ CoarseStep
<1>1. /\ appPc[a] = "map" /\ appPc' = [appPc EXCEPT ![a] = "queue"]
      /\ alive /\ Unmoved /\ UNCHANGED <<device, step, count, mBufferArray, overrun>>
      /\ step = "querybuf" /\ ~(i < count) /\ i' = 0 /\ UNCHANGED capPc
  BY DEF EndMap, AppStep, GrantedLeft, Unmoved
<1>2. /\ appPc'[a] = "queue"
      /\ \A b \in Apps : b # a => appPc'[b] = "idle"
      /\ ~SomeActive'
      /\ AnApp({"map"}) /\ ~AnApp({"queue"})
      /\ ~AnApp({"map"})' /\ AnApp({"queue"})'
  BY <1>1, OnlyOne
<1>3. /\ i = count /\ count > 0 /\ BUFFER_NR > 0 /\ count \in Nat /\ BUFFER_NR \in Nat
      /\ mFD = owner /\ queued = {} /\ mapped
      /\ \A b \in Buffers : b < count => mBufferArray[b] = "current"
  <2>1. count > 0 /\ count \in Nat /\ i \in Nat
    BY GrantedAssumption, BufferAssumption DEF OpenInv, OpeningTypeOK
  <2>2. i <= count /\ (i > 0 => mapped) /\ mFD = owner /\ queued = {}
    BY <1>1 DEF OpenInv, Loops
  <2>3. i = count
    BY <1>1, <2>1, <2>2
  <2> QED
    BY <1>1, <2>1, <2>2, <2>3, LoopFacts DEF OpenInv, Loops
<1>4. MapCamera(a)
  BY <1>1, <1>3, LoopFacts
     DEF MapCamera, OpenStep, MapBuffers, AppStep, Unmoved, device
<1>5. CarefulInv' /\ Free'
  BY <1>4, PlainStep
<1>6. OpeningTypeOK'
  BY <1>1, <1>2 DEF OpenInv, OpeningTypeOK
<1>7. Loops'
  <2>1. 0 .. 0 - 1 = {}
    OBVIOUS
  <2>2. UNCHANGED <<owner, mapped, queued, mFD>>
    BY <1>1 DEF device, Unmoved
  <2> QED
    BY <1>1, <1>2, <1>3, <1>5, <2>1, <2>2 DEF Loops, Free
<1>8. Complete' /\ OverrunNeedsGrant'
  BY <1>1, <1>2 DEF OpenInv, Complete, OverrunNeedsGrant
<1>9. /\ mappedBar = FALSE /\ mappedBar' = TRUE
      /\ queuedBar = {} /\ queuedBar' = {}
  BY <1>1, <1>2, <1>3 DEF mappedBar, queuedBar, device
<1>10. Coarse!MapBuffers(mFD)
  BY <1>1, <1>3, <1>9 DEF Coarse!MapBuffers, device
<1>11. Coarse!MapCamera(a)
  BY <1>1, <1>10 DEF Unmoved, Coarse!MapCamera, Coarse!OpenStep, Coarse!AppStep
<1> QED
  BY <1>5, <1>6, <1>7, <1>8, <1>11, CoarseMove DEF OpenInv

LEMMA QueueStep ==
  ASSUME OpenInv, Goes, NEW a \in Apps, Queue(a)
  PROVE  OpenInv' /\ CoarseStep
<1>1. /\ appPc[a] = "queue" /\ alive /\ UNCHANGED <<step, count, mBufferArray, overrun>>
      /\ mFD = owner /\ mapped /\ queued = 0 .. i - 1 /\ i < BUFFER_NR
      /\ \A b \in Buffers : b < count => mBufferArray[b] = "current"
  BY DEF Queue, QueueLoop, OpenInv, Loops
<1>2. CASE QueueRefused(a)
  BY <1>1, <1>2, RefusedStep DEF Queue, QueueRefused, OpenInv, OpeningTypeOK
<1>3. CASE i < count /\ QueueBuffers(mFD, {i}) /\ i' = i + 1 /\ UNCHANGED appPc
  <2>1. /\ UNCHANGED <<openFds, owner, streaming, mapped, mNativeObject, alive, mFD, mPeekRun,
                       index, first, capPc, fault, misuse, appPc>>
        /\ queued' = queued \cup {i}
    BY <1>3 DEF Queue, QueueBuffers, Unmoved
  <2>2. i \in Nat /\ BUFFER_NR \in Nat /\ count \in Nat /\ queued \subseteq Buffers
    BY <1>1, LoopFacts
  <2>3. queued' = 0 .. i' - 1 /\ queued' \subseteq Buffers /\ i' \in Nat
    BY <1>1, <1>3, <2>1, <2>2 DEF Buffers
  <2>4. CarefulInv'
    BY <1>1, <2>1, <2>3, LoopStepInv, LoopFacts DEF OpenInv, AppStep
  <2>5. \A b \in Apps : b # a => appPc[b] = "idle"
    BY <1>1, LoopFacts
  <2>6. OpeningTypeOK'
    BY <1>1, <2>1, <2>3 DEF OpenInv, OpeningTypeOK
  <2>7. Loops'
    <3>1. i' <= BUFFER_NR /\ i' <= count /\ owner' # NoOwner
      BY <1>1, <1>3, <2>1, <2>2, LoopFacts
    <3> QED
      BY <1>1, <2>1, <2>3, <2>5, <3>1 DEF Loops
  <2>8. Complete'
    BY <1>1, <2>1, <2>5, LoopFacts DEF Complete, SomeActive, Active
  <2>9. OverrunNeedsGrant'
    BY <1>1 DEF OpenInv, OverrunNeedsGrant
  <2>10. UNCHANGED <<mappedBar, queuedBar>>
    BY <1>1, <2>1 DEF mappedBar, queuedBar, AnApp
  <2>11. CoarseStep
    BY <2>1, <2>10 DEF CoarseStep, Coarse!vars
  <2> QED
    BY <2>4, <2>6, <2>7, <2>8, <2>9, <2>11 DEF OpenInv
<1> QED
  BY <1>2, <1>3 DEF Queue

LEMMA EndQueueStep ==
  ASSUME OpenInv, Goes, NEW a \in Apps, EndQueue(a)
  PROVE  OpenInv' /\ CoarseStep
<1>1. /\ AppStep(a, "queue", "streamon") /\ appPc' = [appPc EXCEPT ![a] = "streamon"]
      /\ appPc[a] = "queue"
      /\ alive /\ UNCHANGED <<openFds, owner, mapped, streaming, queued, mNativeObject, alive, mFD,
                              mPeekRun, index, first, capPc, fault, misuse>>
      /\ UNCHANGED <<step, i, count, mBufferArray, overrun>>
      /\ ~(i < BUFFER_NR)
  BY DEF EndQueue, AppStep, QueueLoop, Unmoved, device, opening
<1>2. /\ appPc'[a] = "streamon"
      /\ \A b \in Apps : b # a => appPc'[b] = "idle"
      /\ ~SomeActive'
      /\ ~AnApp({"map"}) /\ AnApp({"queue"})
      /\ ~AnApp({"map"})' /\ ~AnApp({"queue"})'
  BY <1>1, OnlyOne
<1>3. /\ mFD = owner /\ mapped /\ queued = Buffers /\ AllCurrent /\ owner # NoOwner
  <2>1. /\ mFD = owner /\ mapped /\ i <= BUFFER_NR /\ i <= count /\ queued = 0 .. i - 1
        /\ \A b \in Buffers : b < count => mBufferArray[b] = "current"
    BY <1>1 DEF OpenInv, Loops
  <2>2. i \in Nat /\ BUFFER_NR \in Nat /\ count \in Nat /\ mFD # NoOwner
    BY <1>1, LoopFacts
  <2>3. i = BUFFER_NR
    BY <1>1, <2>1, <2>2
  <2>4. \A b \in Buffers : b < count
    BY <2>1, <2>2, <2>3 DEF Buffers
  <2> QED
    BY <2>1, <2>2, <2>3, <2>4 DEF Buffers, AllCurrent
<1>4. CarefulInv'
  BY <1>1, <1>3, LoopStepInv DEF OpenInv
<1>5. OpeningTypeOK'
  BY <1>1, <1>2 DEF OpenInv, OpeningTypeOK
<1>6. Loops'
  BY <1>1, <1>2, <1>3 DEF Loops
<1>7. Complete' /\ OverrunNeedsGrant'
  BY <1>1, <1>3 DEF OpenInv, Complete, AllCurrent, OverrunNeedsGrant
<1>8. UNCHANGED mappedBar /\ queuedBar = {} /\ queuedBar' = Buffers
  BY <1>1, <1>2, <1>3 DEF mappedBar, queuedBar
<1>9. Coarse!QueueBuffers(mFD, Coarse!Buffers)
  BY <1>1, <1>3, <1>8 DEF Coarse!QueueBuffers, Coarse!Buffers, Buffers
<1>10. Coarse!QueueCamera(a)
  BY <1>1, <1>9 DEF Coarse!QueueCamera, Coarse!OpenStep, Coarse!AppStep
<1> QED
  BY <1>4, <1>5, <1>6, <1>7, <1>10, CoarseMove DEF OpenInv

-----------------------------------------------------------------------------
\* Every step keeps the invariant, and is a step of CarefulCamera or none.
LEMMA OpeningStep ==
  ASSUME OpenInv, [OpeningNext]_openingVars
  PROVE  OpenInv' /\ CoarseStep
<1>1. CASE UNCHANGED openingVars
  <2>1. UNCHANGED vars /\ UNCHANGED <<step, i, count, mBufferArray, overrun>>
    BY <1>1 DEF openingVars, opening
  <2>2. CarefulInv'
    BY <2>1, CarefulInvNext DEF OpenInv
  <2>3. OpeningTypeOK' /\ Loops' /\ Complete' /\ OverrunNeedsGrant'
    BY <2>1 DEF OpenInv, OpeningTypeOK, Loops, Complete, AllCurrent, SomeActive, Active,
                OverrunNeedsGrant, vars
  <2>4. CoarseStep
    BY <2>1, StillSame DEF vars, CoarseStep, Coarse!vars
  <2> QED
    BY <2>2, <2>3, <2>4 DEF OpenInv
<1>2. CASE Goes /\ SharedStep
  BY <1>2, SharedInv, SharedSimulated
<1>3. ASSUME Goes, NEW a \in Apps, OpeningWork(a) PROVE OpenInv' /\ CoarseStep
  <2>1. CASE OpenDevice(a)
    BY <1>2, <1>3, <2>1 DEF SharedStep
  <2> QED
    BY <1>3, <2>1, ConfigureStep, RequestStep, QueryStep, MapStep, EndMapStep, QueueStep,
       EndQueueStep DEF OpeningWork
<1> QED
  BY <1>1, <1>2, <1>3 DEF OpeningNext, StartWork, Elsewhere, SharedStep

LEMMA CoarseInit == OpeningInit => Coarse!Init
<1> SUFFICES ASSUME OpeningInit PROVE Coarse!Init
  OBVIOUS
<1>1. mappedBar = FALSE /\ queuedBar = {}
  BY DEF OpeningInit, Init, DeviceInit, mappedBar, queuedBar, AnApp
<1> QED
  BY <1>1 DEF OpeningInit, Init, DeviceInit, NoOwner, Coarse!Init, Coarse!DeviceInit,
              Coarse!NoOwner

\* The inductive invariant of openCamera taken call by call.
THEOREM OpeningInvCorrect == OpeningSafety => []OpenInv
<1>1. OpenInv /\ [OpeningNext]_openingVars => OpenInv'
  BY OpeningStep
<1> QED
  BY <1>1, OpenInvInit, PTL DEF OpeningSafety

(***************************************************************************)
(* openCamera is always at a call of its list, and its loops never store   *)
(* anything in mBufferArray but a mapping or MAP_FAILED (openCamera).      *)
(***************************************************************************)
THEOREM OpeningTypeCorrect == OpeningSafety => []OpeningTypeOK
<1>1. OpenInv => OpeningTypeOK
  BY DEF OpenInv
<1> QED
  BY <1>1, OpeningInvCorrect, PTL

(***************************************************************************)
(* For every BUFFER_NR and every driver: the mapping loop writes past the  *)
(* end of mBufferArray only if REQBUFS granted more than was asked for     *)
(* (openCamera).                                                           *)
(***************************************************************************)
THEOREM OverrunCorrect == OpeningSafety => []OverrunNeedsGrant
<1>1. OpenInv => OverrunNeedsGrant
  BY DEF OpenInv
<1> QED
  BY <1>1, OpeningInvCorrect, PTL

(***************************************************************************)
(* For every BUFFER_NR and every history of failed openings: a session     *)
(* that draws has BUFFER_NR mappings of its own opening (openCamera,       *)
(* startCapture).                                                          *)
(***************************************************************************)
THEOREM SessionBuffersCorrect == OpeningSafety => []SessionHasItsBuffers
<1>1. OpenInv => SessionHasItsBuffers
  <2>1. (\E t \in Threads : Looping(t)) => SomeActive
    BY DEF Looping, SomeActive, Active, ActiveCap, TouchingCap
  <2> QED
    BY <2>1 DEF OpenInv, Complete, AllCurrent, SessionHasItsBuffers
<1> QED
  BY <1>1, OpeningInvCorrect, PTL

(***************************************************************************)
(* For every value of the constants: openCamera, one system call at a      *)
(* time, implements the openCamera of CarefulCamera, whose loops are one   *)
(* step each (openCamera).                                                 *)
(***************************************************************************)
THEOREM LifecycleImplemented == OpeningSafety => ImplementsLifecycle
<1>1. OpenInv /\ [OpeningNext]_openingVars => CoarseStep
  BY OpeningStep
<1>2. OpeningSafety => [][Coarse!CarefulNext]_(Coarse!vars)
  BY <1>1, OpeningInvCorrect, PTL DEF OpeningSafety, CoarseStep
<1> QED
  BY <1>2, CoarseInit, PTL DEF OpeningSafety, ImplementsLifecycle, Coarse!CarefulSafety

=============================================================================
