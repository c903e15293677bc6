----------------------- MODULE CameraLifecycleProofs ------------------------
(***************************************************************************)
(* Proofs about CameraLifecycle for any number of application threads,     *)
(* capture threads, descriptors and buffers, and for both behaviours of    *)
(* the kernel (MappingPinsFile).                                           *)
(***************************************************************************)
EXTENDS LifecycleInvariant, TLAPS

(***************************************************************************)
(* TypeOK is inductive by itself: openCamera, startCapture, stopCapture    *)
(* and nativeReleaseCamera keep every variable in its type.                *)
(***************************************************************************)
LEMMA BufferFacts == 0 \in Buffers /\ \A k \in Buffers : 0 .. (k - 1) \subseteq Buffers
  BY BufferAssumption DEF Buffers

LEMMA TypeInit == Init => TypeOK
<1> SUFFICES ASSUME Init PROVE TypeOK
  OBVIOUS
<1>1. DeviceTypeOK
  BY DEF Init, DeviceInit, DeviceTypeOK, NoOwner
<1>2. appPc \in [Apps -> AppPcs] /\ capPc \in [Threads -> CapPcs]
  BY DEF Init, AppPcs, CapPcs
<1> QED
  BY <1>1, <1>2, BufferFacts DEF Init, TypeOK

LEMMA TypeNext == TypeOK /\ [Next]_vars => TypeOK'
<1> SUFFICES ASSUME TypeOK, [Next]_vars PROVE TypeOK'
  OBVIOUS
<1> USE BufferFacts
    DEF TypeOK, DeviceTypeOK, AppPcs, TouchingApp, CapPcs, ActiveCap,
        TouchingCap, Misuses, device, AppStep, CapStep
<1>1. ASSUME NEW a \in Apps, AppCall(a) PROVE TypeOK'
  BY <1>1 DEF AppCall, CallStart, CallStop, CallRelease, Call, Overlap
<1>2. ASSUME NEW a \in Apps, AppWork(a) PROVE TypeOK'
  <2>1. CASE OpenCamera(a)
    BY <2>1 DEF OpenCamera, OpenFile
  <2>2. CASE ConfigureCamera(a)
    BY <2>2 DEF ConfigureCamera, OpenStep, RequestBuffers
  <2>3. CASE MapCamera(a)
    BY <2>3 DEF MapCamera, OpenStep, MapBuffers
  <2>4. CASE QueueCamera(a)
    BY <2>4 DEF QueueCamera, OpenStep, QueueBuffers
  <2>5. CASE StreamOnCamera(a)
    BY <2>5 DEF StreamOnCamera, OpenStep, StreamOn
  <2>6. CASE ExitClose(a) \/ ExitReset(a)
    BY <2>6 DEF ExitClose, ExitReset, CloseFile
  <2>7. CASE ReturnFromOpen(a)
    BY <2>7 DEF ReturnFromOpen
  <2>8. CASE StopCapture(a) \/ ReleaseStop(a)
    BY <2>8 DEF StopCapture, ReleaseStop, ClearPeekRun
  <2>9. CASE DeleteCamera(a)
    BY <2>9 DEF DeleteCamera, CloseFile
  <2>10. CASE ClearNativeObject(a) \/ AppUseAfterFree(a)
    BY <2>10 DEF ClearNativeObject, AppUseAfterFree, Die
  <2> QED
    BY <1>2, <2>1, <2>2, <2>3, <2>4, <2>5, <2>6, <2>7, <2>8, <2>9, <2>10 DEF AppWork
<1>3. ASSUME NEW t \in Threads, CapWork(t) PROVE TypeOK'
  <2>1. CASE RunCapture(t) \/ EnterLoop(t)
    BY <2>1 DEF RunCapture, EnterLoop
  <2>2. CASE LoopTest(t) \/ SelectReturns(t)
    BY <2>2 DEF LoopTest, SelectReturns
  <2>3. CASE DequeueFrame(t)
    BY <2>3 DEF DequeueFrame, DequeueBuffer, AfterDequeue
  <2>4. CASE DequeueFails(t)
    BY <2>4 DEF DequeueFails, DequeueBuffer, AfterDequeue
  <2>5. CASE NotifyFirst(t) \/ DrawFrame(t)
    BY <2>5 DEF NotifyFirst, DrawFrame
  <2>6. CASE RetrieveBuffer(t)
    BY <2>6 DEF RetrieveBuffer, QueueBuffers
  <2>7. CASE LeaveLoop(t) \/ NotifyEnd(t)
    BY <2>7 DEF LeaveLoop, NotifyEnd
  <2>8. CASE ErrorClose(t) \/ ErrorReset(t)
    BY <2>8 DEF ErrorClose, ErrorReset, CloseFile
  <2>9. CASE CapUseAfterFree(t) \/ BadFdSet(t)
    BY <2>9 DEF CapUseAfterFree, BadFdSet, Die
  <2> QED
    BY <1>3, <2>1, <2>2, <2>3, <2>4, <2>5, <2>6, <2>7, <2>8, <2>9 DEF CapWork
<1>4. CASE UNCHANGED vars
  BY <1>4 DEF vars
<1> QED
  BY <1>1, <1>2, <1>3, <1>4 DEF Next

\* Every variable keeps its type, whatever the threads do.
THEOREM TypeCorrect == Spec => []TypeOK
  BY TypeInit, TypeNext, PTL DEF Spec

-----------------------------------------------------------------------------
(***************************************************************************)
(* What the steps of one thread leave alone.                               *)
(***************************************************************************)

\* A capture thread changes no other thread's place, and no call's.
LEMMA CapFrame ==
  ASSUME TypeOK, NEW t \in Threads, CapWork(t)
  PROVE  /\ UNCHANGED <<mNativeObject, alive, appPc, misuse>>
         /\ \A s \in Threads : s # t => capPc'[s] = capPc[s]
         /\ Active(t)' => Active(t)
         /\ Holding(t)' => Holding(t)
<1> USE DEF TypeOK, AppStep, CapStep, Active, ActiveCap, TouchingCap, Holding, Looping,
            AfterDequeue
<1>1. CASE RunCapture(t) \/ EnterLoop(t) \/ LoopTest(t) \/ SelectReturns(t)
  BY <1>1 DEF RunCapture, EnterLoop, LoopTest, SelectReturns
<1>2. CASE DequeueFrame(t) \/ DequeueFails(t)
  BY <1>2 DEF DequeueFrame, DequeueFails
<1>3. CASE NotifyFirst(t) \/ DrawFrame(t) \/ RetrieveBuffer(t) \/ LeaveLoop(t)
  BY <1>3 DEF NotifyFirst, DrawFrame, RetrieveBuffer, LeaveLoop
<1>4. CASE ErrorClose(t) \/ ErrorReset(t) \/ NotifyEnd(t)
  BY <1>4 DEF ErrorClose, ErrorReset, NotifyEnd
<1>5. CASE CapUseAfterFree(t) \/ BadFdSet(t)
  BY <1>5 DEF CapUseAfterFree, BadFdSet, Die
<1> QED
  BY <1>1, <1>2, <1>3, <1>4, <1>5 DEF CapWork

\* A call moves only itself, and the capture thread that a start spawns.
LEMMA AppFrame ==
  ASSUME TypeOK, NEW a \in Apps, AppWork(a)
  PROVE  /\ appPc[a] # "idle"
         /\ misuse' = misuse
         /\ \A b \in Apps : b # a => appPc'[b] = appPc[b]
         /\ appPc[a] # "return" => UNCHANGED capPc
<1> USE DEF TypeOK, AppStep, TouchingApp
<1>1. CASE OpenCamera(a) \/ ConfigureCamera(a) \/ MapCamera(a) \/ QueueCamera(a)
  BY <1>1 DEF OpenCamera, ConfigureCamera, MapCamera, QueueCamera, OpenStep
<1>2. CASE StreamOnCamera(a) \/ ExitClose(a) \/ ExitReset(a) \/ ReturnFromOpen(a)
  BY <1>2 DEF StreamOnCamera, OpenStep, ExitClose, ExitReset, ReturnFromOpen
<1>3. CASE StopCapture(a) \/ ReleaseStop(a) \/ DeleteCamera(a)
  BY <1>3 DEF StopCapture, ReleaseStop, ClearPeekRun, DeleteCamera
<1>4. CASE ClearNativeObject(a) \/ AppUseAfterFree(a)
  BY <1>4 DEF ClearNativeObject, AppUseAfterFree, Die
<1> QED
  BY <1>1, <1>2, <1>3, <1>4 DEF AppWork

\* A new call touches nothing but its own place and the history.
LEMMA CallFrame ==
  ASSUME TypeOK, NEW a \in Apps, AppCall(a)
  PROVE  /\ UNCHANGED <<device, mNativeObject, alive, mFD, capPc, fault>>
         /\ misuse \subseteq misuse'
         /\ \A b \in Apps : b # a => appPc'[b] = appPc[b]
         /\ \/ UNCHANGED appPc
            \/ /\ mNativeObject
               /\ appPc[a] = "idle"
               /\ appPc'[a] \in {"open", "stop", "rel_stop"}
               /\ Serial' => \A b \in Apps : b # a => appPc[b] = "idle"
               /\ appPc'[a] = "open" /\ "start_twice" \notin misuse'
                    => mFD = -1 /\ ~SomeActive
               /\ appPc'[a] = "rel_stop" /\ "release_busy" \notin misuse' => ~SomeActive
BY DEF TypeOK, AppCall, CallStart, CallStop, CallRelease, Call, Overlap, Serial, device

-----------------------------------------------------------------------------
\* nativeReleaseCamera deletes the object before it clears the field.
LEMMA FieldNext == IInv /\ [Next]_vars => FieldAndObject'
<1> SUFFICES ASSUME IInv, [Next]_vars PROVE FieldAndObject'
  OBVIOUS
<1> USE DEF IInv, FieldAndObject
<1>1. ASSUME NEW a \in Apps, AppCall(a) PROVE FieldAndObject'
  BY <1>1, CallFrame DEF device
<1>2. ASSUME NEW t \in Threads, CapWork(t) PROVE FieldAndObject'
  BY <1>2, CapFrame
<1>3. ASSUME NEW a \in Apps, AppWork(a) PROVE FieldAndObject'
  <2> USE DEF TypeOK, AppStep
  <2>1. CASE OpenCamera(a) \/ ConfigureCamera(a) \/ MapCamera(a) \/ QueueCamera(a)
    BY <2>1 DEF OpenCamera, ConfigureCamera, MapCamera, QueueCamera, OpenStep
  <2>2. CASE StreamOnCamera(a) \/ ExitClose(a) \/ ExitReset(a) \/ ReturnFromOpen(a)
    BY <2>2 DEF StreamOnCamera, OpenStep, ExitClose, ExitReset, ReturnFromOpen
  <2>3. CASE StopCapture(a) \/ ReleaseStop(a) \/ AppUseAfterFree(a)
    BY <2>3 DEF StopCapture, ReleaseStop, ClearPeekRun, AppUseAfterFree, Die
  <2>4. CASE DeleteCamera(a) \/ ClearNativeObject(a)
    BY <2>4 DEF DeleteCamera, ClearNativeObject
  <2> QED
    BY <1>3, <2>1, <2>2, <2>3, <2>4 DEF AppWork
<1>4. CASE UNCHANGED vars
  BY <1>4 DEF vars
<1> QED
  BY <1>1, <1>2, <1>3, <1>4 DEF Next

\* close is the only way to lose a descriptor, and it takes the ownership along.
LEMMA CloseOwner ==
  ASSUME OwnerOpen, NEW fd, CloseFile(fd)
  PROVE  OwnerOpen'
BY DEF OwnerOpen, CloseFile

LEMMA OwnerNext == IInv /\ [Next]_vars => OwnerOpen'
<1> SUFFICES ASSUME IInv, [Next]_vars PROVE OwnerOpen'
  OBVIOUS
<1> USE DEF IInv
<1>1. ASSUME NEW a \in Apps, AppCall(a) PROVE OwnerOpen'
  BY <1>1, CallFrame DEF device, OwnerOpen
<1>2. ASSUME NEW t \in Threads, CapWork(t) PROVE OwnerOpen'
  <2>1. CASE ErrorClose(t)
    BY <2>1, CloseOwner DEF ErrorClose
  <2>2. CASE DequeueFrame(t) \/ DequeueFails(t) \/ RetrieveBuffer(t)
    BY <2>2 DEF DequeueFrame, DequeueFails, RetrieveBuffer, DequeueBuffer, QueueBuffers,
                device, OwnerOpen
  <2>3. CASE RunCapture(t) \/ EnterLoop(t) \/ LoopTest(t) \/ SelectReturns(t)
    BY <2>3 DEF RunCapture, EnterLoop, LoopTest, SelectReturns, device, OwnerOpen
  <2>4. CASE NotifyFirst(t) \/ DrawFrame(t) \/ LeaveLoop(t) \/ ErrorReset(t) \/ NotifyEnd(t)
    BY <2>4 DEF NotifyFirst, DrawFrame, LeaveLoop, ErrorReset, NotifyEnd, device, OwnerOpen
  <2>5. CASE CapUseAfterFree(t) \/ BadFdSet(t)
    BY <2>5 DEF CapUseAfterFree, BadFdSet, Die, device, OwnerOpen
  <2> QED
    BY <1>2, <2>1, <2>2, <2>3, <2>4, <2>5 DEF CapWork
<1>3. ASSUME NEW a \in Apps, AppWork(a) PROVE OwnerOpen'
  <2>1. CASE ExitClose(a) \/ DeleteCamera(a)
    BY <2>1, CloseOwner DEF ExitClose, DeleteCamera, device, OwnerOpen
  <2>2. CASE OpenCamera(a)
    BY <2>2 DEF OpenCamera, OpenFile, device, OwnerOpen
  <2>3. CASE ConfigureCamera(a) \/ MapCamera(a) \/ QueueCamera(a) \/ StreamOnCamera(a)
    BY <2>3 DEF ConfigureCamera, MapCamera, QueueCamera, StreamOnCamera, OpenStep,
                RequestBuffers, MapBuffers, QueueBuffers, StreamOn, device, OwnerOpen
  <2>4. CASE ExitReset(a) \/ ReturnFromOpen(a) \/ StopCapture(a) \/ ReleaseStop(a)
    BY <2>4 DEF ExitReset, ReturnFromOpen, StopCapture, ReleaseStop, ClearPeekRun, device,
                OwnerOpen
  <2>5. CASE ClearNativeObject(a) \/ AppUseAfterFree(a)
    BY <2>5 DEF ClearNativeObject, AppUseAfterFree, Die, device, OwnerOpen
  <2> QED
    BY <1>3, <2>1, <2>2, <2>3, <2>4, <2>5 DEF AppWork
<1>4. CASE UNCHANGED vars
  BY <1>4 DEF vars, OwnerOpen
<1> QED
  BY <1>1, <1>2, <1>3, <1>4 DEF Next

(***************************************************************************)
(* As long as calls do not overlap, at most one is under way, and none is  *)
(* left to use a deleted object.                                           *)
(***************************************************************************)
LEMMA CallerNext == IInv /\ [Next]_vars => OneCaller'
<1> SUFFICES ASSUME IInv, [Next]_vars, Serial' PROVE OneCaller'
  BY DEF OneCaller
<1> USE DEF IInv, OneCaller, Serial
<1>1. ASSUME NEW a \in Apps, AppCall(a) PROVE OneCaller'
  BY <1>1, CallFrame DEF FieldAndObject
<1>2. ASSUME NEW t \in Threads, CapWork(t) PROVE OneCaller'
  BY <1>2, CapFrame
<1>3. ASSUME NEW a \in Apps, AppWork(a) PROVE OneCaller'
  <2>1. /\ appPc[a] # "idle"
        /\ \A b \in Apps : b # a => appPc[b] = "idle" /\ appPc'[b] = "idle"
    BY <1>3, AppFrame
  <2> USE DEF TypeOK, AppStep, TouchingApp
  <2>2. CASE OpenCamera(a) \/ ConfigureCamera(a) \/ MapCamera(a) \/ QueueCamera(a)
    BY <2>1, <2>2 DEF OpenCamera, ConfigureCamera, MapCamera, QueueCamera, OpenStep
  <2>3. CASE StreamOnCamera(a) \/ ExitClose(a) \/ ExitReset(a) \/ ReturnFromOpen(a)
    BY <2>1, <2>3 DEF StreamOnCamera, OpenStep, ExitClose, ExitReset, ReturnFromOpen
  <2>4. CASE StopCapture(a) \/ ReleaseStop(a) \/ AppUseAfterFree(a)
    BY <2>1, <2>4 DEF StopCapture, ReleaseStop, ClearPeekRun, AppUseAfterFree, Die
  <2>5. CASE DeleteCamera(a) \/ ClearNativeObject(a)
    BY <2>1, <2>5 DEF DeleteCamera, ClearNativeObject
  <2> QED
    BY <1>3, <2>2, <2>3, <2>4, <2>5 DEF AppWork
<1>4. CASE UNCHANGED vars
  BY <1>4 DEF vars
<1> QED
  BY <1>1, <1>2, <1>3, <1>4 DEF Next

(***************************************************************************)
(* A release that met no session when it was called meets none later: only *)
(* a start under way could bring one, and that would be a second call.     *)
(***************************************************************************)
LEMMA QuietNext == IInv /\ [Next]_vars => QuietRelease'
<1> SUFFICES ASSUME IInv, [Next]_vars, CarefulRelease' PROVE QuietRelease'
  BY DEF QuietRelease
<1> USE DEF IInv, QuietRelease, CarefulRelease, Serial, Releasing, Active
<1>1. ASSUME NEW a \in Apps, AppCall(a) PROVE QuietRelease'
  BY <1>1, CallFrame DEF SomeActive, FieldAndObject
<1>2. ASSUME NEW t \in Threads, CapWork(t) PROVE QuietRelease'
  BY <1>2, CapFrame
<1>3. ASSUME NEW a \in Apps, AppWork(a) PROVE QuietRelease'
  <2>1. /\ appPc[a] # "idle"
        /\ misuse' = misuse
        /\ \A b \in Apps : b # a => appPc[b] = "idle" /\ appPc'[b] = "idle"
    BY <1>3, AppFrame DEF OneCaller
  <2>2. ~alive' => ~alive \/ Releasing(a)
    BY <1>3 DEF AppWork, OpenCamera, ConfigureCamera, MapCamera, QueueCamera, StreamOnCamera,
                OpenStep, ExitClose, ExitReset, ReturnFromOpen, StopCapture, ReleaseStop,
                ClearPeekRun, DeleteCamera, ClearNativeObject, AppUseAfterFree, Die, AppStep
  <2>3. Releasing(a)' => Releasing(a)
    BY <1>3 DEF AppWork, OpenCamera, ConfigureCamera, MapCamera, QueueCamera, StreamOnCamera,
                OpenStep, ExitClose, ExitReset, ReturnFromOpen, StopCapture, ReleaseStop,
                ClearPeekRun, DeleteCamera, ClearNativeObject, AppUseAfterFree, Die, AppStep,
                TypeOK
  <2>4. Releasing(a) \/ ~alive => UNCHANGED capPc
    BY <1>3, AppFrame DEF OneCaller
  <2> QED
    BY <2>1, <2>2, <2>3, <2>4
<1>4. CASE UNCHANGED vars
  BY <1>4 DEF vars
<1> QED
  BY <1>1, <1>2, <1>3, <1>4 DEF Next

-----------------------------------------------------------------------------
\* Who changes mFD: open, the three places that reset it, and nobody else.
LEMMA CapFD ==
  ASSUME TypeOK, NEW t \in Threads, CapWork(t)
  PROVE  \/ UNCHANGED mFD
         \/ capPc[t] = "err_reset" /\ capPc'[t] = "notifyError" /\ UNCHANGED device
BY DEF TypeOK, CapWork, RunCapture, EnterLoop, LoopTest, SelectReturns, DequeueFrame,
       DequeueFails, NotifyFirst, DrawFrame, RetrieveBuffer, LeaveLoop, ErrorClose,
       ErrorReset, NotifyEnd, CapUseAfterFree, BadFdSet, Die, CapStep

LEMMA AppFD ==
  ASSUME TypeOK, NEW a \in Apps, AppWork(a)
  PROVE  \/ UNCHANGED mFD
         \/ appPc[a] \in {"open", "exit_reset"}
         \/ appPc[a] = "rel_delete" /\ ~alive'
BY DEF TypeOK, AppWork, OpenCamera, ConfigureCamera, MapCamera, QueueCamera, StreamOnCamera,
       OpenStep, ExitClose, ExitReset, ReturnFromOpen, StopCapture, ReleaseStop,
       ClearPeekRun, DeleteCamera, ClearNativeObject, AppUseAfterFree, Die, AppStep

\* What a call of openCamera does to itself and to the capture threads.
LEMMA AppOpening ==
  ASSUME TypeOK, NEW a \in Apps, AppWork(a)
  PROVE  /\ Opening(a)' => Opening(a) /\ UNCHANGED <<capPc, alive>>
         /\ \/ UNCHANGED capPc
            \/ /\ appPc[a] = "return" /\ appPc'[a] = "idle"
               /\ UNCHANGED <<device, mFD, alive>>
               /\ mFD > 0
               /\ \E t \in Threads : capPc[t] = "none"
                                     /\ capPc' = [capPc EXCEPT ![t] = "spawned"]
         /\ alive' => alive
BY DEF TypeOK, AppWork, OpenCamera, ConfigureCamera, MapCamera, QueueCamera, StreamOnCamera,
       OpenStep, ExitClose, ExitReset, ReturnFromOpen, StopCapture, ReleaseStop,
       ClearPeekRun, DeleteCamera, ClearNativeObject, AppUseAfterFree, Die, AppStep, CapStep,
       Opening, Configuring

(***************************************************************************)
(* A camera started only when closed and idle has one session at a time,   *)
(* and the session's descriptor stays in mFD while it is inside the loop.  *)
(***************************************************************************)
LEMMA SessionNext == IInv /\ [Next]_vars => OneSession'
<1> SUFFICES ASSUME IInv, [Next]_vars, CarefulStart' PROVE OneSession'
  BY DEF OneSession
<1> USE DEF IInv, OneSession, CarefulStart, Serial
<1>1. ASSUME NEW a \in Apps, AppCall(a) PROVE OneSession'
  <2>1. CarefulStart /\ UNCHANGED <<alive, mFD, capPc>>
    BY <1>1, CallFrame
  <2>2. (\E b \in Apps : Opening(b)') => \A t \in Threads : ~Active(t)
    BY <1>1, <2>1, CallFrame DEF Opening, Configuring, SomeActive
  <2>3. \A b \in Apps : Configuring(b)' => Configuring(b)
    BY <1>1, CallFrame DEF Configuring
  <2> QED
    BY <2>1, <2>2, <2>3 DEF Active, Holding, Looping
<1>2. ASSUME NEW t \in Threads, CapWork(t) PROVE OneSession'
  <2>1. \A s \in Threads : Active(s)' => Active(s)
    BY <1>2, CapFrame DEF Active
  <2>2. \A a \in Apps : Opening(a)' => Opening(a)
    BY <1>2, CapFrame DEF Opening, Configuring
  <2>3. ASSUME NEW s \in Threads, alive', Holding(s)' PROVE mFD' # -1
    <3>1. Active(s) /\ Holding(s) /\ mFD # -1
      BY <1>2, <2>3, CapFrame DEF Holding, Looping, Active, ActiveCap, TouchingCap
    <3>2. capPc[t] = "err_reset" => s = t
      BY <1>2, <3>1, CapFrame DEF Active, ActiveCap, TouchingCap
    <3> QED
      BY <1>2, <2>3, <3>1, <3>2, CapFD DEF Holding, Looping
  <2>4. ASSUME NEW a \in Apps, Configuring(a)' PROVE mFD' # -1
    <3>1. Configuring(a) /\ capPc[t] # "err_reset"
      BY <1>2, <2>4, CapFrame DEF Configuring, Opening, Active, ActiveCap, TouchingCap
    <3> QED
      BY <1>2, <3>1, CapFD, CapFrame
  <2> QED
    BY <1>2, <2>1, <2>2, <2>3, <2>4, CapFrame
<1>3. ASSUME NEW a \in Apps, AppWork(a) PROVE OneSession'
  <2>1. /\ misuse' = misuse
        /\ \A b \in Apps : b # a => appPc[b] = "idle" /\ appPc'[b] = "idle"
    BY <1>3, AppFrame DEF OneCaller
  <2>2. (\E b \in Apps : Opening(b)') => \A t \in Threads : ~Active(t)'
    BY <1>3, <2>1, AppOpening DEF Opening, Configuring, Active
  <2>3. \A s, t \in Threads : Active(s)' /\ Active(t)' => s = t
    BY <1>3, <2>1, AppOpening DEF TypeOK, Opening, Configuring, Active
  <2>4. ASSUME NEW s \in Threads, alive', Holding(s)' PROVE mFD' # -1
    <3>1. CASE Holding(s)
      <4>1. Active(s) /\ mFD # -1
        BY <1>3, <2>1, <2>4, <3>1, AppOpening
           DEF Holding, Looping, Active, ActiveCap, TouchingCap
      <4> QED
        BY <1>3, <2>1, <2>4, <4>1, AppFD DEF Opening, Configuring
    <3>2. CASE ~Holding(s)
      <4>1. capPc' # capPc
        BY <2>4, <3>2 DEF Holding, Looping
      <4>2. UNCHANGED mFD /\ mFD > 0
        BY <1>3, <4>1, AppOpening
      <4> QED
        BY <4>2
    <3> QED
      BY <3>1, <3>2
  <2>5. ASSUME NEW b \in Apps, Configuring(b)' PROVE mFD' # -1
    <3>1. b = a
      BY <2>1, <2>5 DEF Configuring
    <3>2. CASE OpenCamera(a)
      BY <2>5, <3>1, <3>2, FdsAssumption
         DEF OpenCamera, OpenFile, AppStep, Configuring, TypeOK, DeviceTypeOK
    <3>3. CASE ~OpenCamera(a)
      <4>1. Configuring(a) /\ UNCHANGED mFD
        BY <1>3, <2>5, <3>1, <3>3, FdsAssumption
           DEF AppWork, ConfigureCamera, MapCamera, QueueCamera, StreamOnCamera, OpenStep,
               ExitClose, ExitReset, ReturnFromOpen, StopCapture, ReleaseStop, ClearPeekRun,
               DeleteCamera, ClearNativeObject, AppUseAfterFree, Die, AppStep, Configuring, TypeOK
      <4> QED
        BY <2>1, <4>1
    <3> QED
      BY <3>2, <3>3
  <2> QED
    BY <2>1, <2>2, <2>3, <2>4, <2>5
<1>4. CASE UNCHANGED vars
  BY <1>4 DEF vars, Active, Holding, Looping, Opening, Configuring
<1> QED
  BY <1>1, <1>2, <1>3, <1>4 DEF Next

(***************************************************************************)
(* openCamera overwrites mFD, ~Camera and CAMERA_ERR close it: as long as  *)
(* nobody opens over an open descriptor, mFD is the only one there is.     *)
(***************************************************************************)
LEMMA DescriptorNext == IInv /\ [Next]_vars => OneDescriptor'
<1> SUFFICES ASSUME IInv, [Next]_vars, CarefulStart' PROVE OneDescriptor'
  BY DEF OneDescriptor
<1> USE DEF IInv, OneDescriptor, CarefulStart, Serial
<1>1. ASSUME NEW a \in Apps, AppCall(a) PROVE OneDescriptor'
  BY <1>1, CallFrame DEF device
<1>2. ASSUME NEW t \in Threads, CapWork(t) PROVE OneDescriptor'
  <2> USE DEF TypeOK, CapStep, device
  <2>1. UNCHANGED <<appPc, misuse>> /\ CarefulStart
    BY <1>2, CapFrame
  <2>2. Active(t) => \A a \in Apps : ~Opening(a)
    BY <2>1 DEF OneSession
  <2>3. CASE ErrorClose(t)
    BY <2>1, <2>3 DEF ErrorClose, CloseFile
  <2>4. CASE ErrorReset(t)
    <3>1. openFds = {} /\ UNCHANGED openFds
      BY <2>1, <2>4 DEF ErrorReset
    <3>2. \A a \in Apps : appPc[a] # "open"
      BY <2>2, <2>4 DEF ErrorReset, Active, ActiveCap, TouchingCap, Opening
    <3> QED
      BY <2>1, <3>1, <3>2
  <2>5. CASE DequeueFrame(t) \/ DequeueFails(t)
    BY <2>1, <2>5 DEF DequeueFrame, DequeueFails, DequeueBuffer, AfterDequeue
  <2>6. CASE RetrieveBuffer(t)
    BY <2>1, <2>6 DEF RetrieveBuffer, QueueBuffers
  <2>7. CASE RunCapture(t) \/ EnterLoop(t) \/ LoopTest(t) \/ SelectReturns(t)
    BY <2>1, <2>7 DEF RunCapture, EnterLoop, LoopTest, SelectReturns
  <2>8. CASE NotifyFirst(t) \/ DrawFrame(t) \/ LeaveLoop(t) \/ NotifyEnd(t)
    BY <2>1, <2>8 DEF NotifyFirst, DrawFrame, LeaveLoop, NotifyEnd
  <2>9. CASE CapUseAfterFree(t) \/ BadFdSet(t)
    BY <2>1, <2>9 DEF CapUseAfterFree, BadFdSet, Die
  <2> QED
    BY <1>2, <2>3, <2>4, <2>5, <2>6, <2>7, <2>8, <2>9 DEF CapWork
<1>3. ASSUME NEW a \in Apps, AppWork(a) PROVE OneDescriptor'
  <2> USE FdsAssumption DEF TypeOK, DeviceTypeOK, AppStep, device
  <2>1. /\ CarefulStart
        /\ \A b \in Apps : b # a => appPc[b] = "idle" /\ appPc'[b] = "idle"
    BY <1>3, AppFrame DEF OneCaller
  <2>2. Opening(a) => \A t \in Threads : capPc[t] # "err_reset"
    BY <2>1 DEF OneSession, Active, ActiveCap, TouchingCap
  <2>3. CASE OpenCamera(a)
    <3>1. openFds = {}
      BY <2>1, <2>3 DEF OpenCamera
    <3>2. \A t \in Threads : capPc'[t] # "err_reset"
      BY <2>2, <2>3 DEF OpenCamera, Opening
    <3>3. openFds' \subseteq {mFD'}
      BY <2>3, <3>1 DEF OpenCamera, OpenFile
    <3>4. \A b \in Apps : appPc'[b] \notin {"open", "exit_reset"}
      BY <2>1, <2>3 DEF OpenCamera
    <3> QED
      BY <3>2, <3>3, <3>4
  <2>4. CASE ConfigureCamera(a) \/ MapCamera(a) \/ QueueCamera(a) \/ StreamOnCamera(a)
    BY <2>1, <2>4 DEF ConfigureCamera, MapCamera, QueueCamera, StreamOnCamera, OpenStep,
                RequestBuffers, MapBuffers, QueueBuffers, StreamOn
  <2>5. CASE ExitClose(a)
    BY <2>1, <2>5 DEF ExitClose, CloseFile
  <2>6. CASE ExitReset(a)
    BY <2>1, <2>6 DEF ExitReset
  <2>7. CASE ReturnFromOpen(a)
    BY <2>1, <2>7 DEF ReturnFromOpen, CapStep
  <2>8. CASE DeleteCamera(a)
    BY <2>1, <2>8 DEF DeleteCamera, CloseFile
  <2>9. CASE StopCapture(a) \/ ReleaseStop(a) \/ ClearNativeObject(a) \/ AppUseAfterFree(a)
    BY <2>1, <2>9 DEF StopCapture, ReleaseStop, ClearPeekRun, ClearNativeObject,
                AppUseAfterFree, Die
  <2> QED
    BY <1>3, <2>3, <2>4, <2>5, <2>6, <2>7, <2>8, <2>9 DEF AppWork
<1>4. CASE UNCHANGED vars
  BY <1>4 DEF vars
<1> QED
  BY <1>1, <1>2, <1>3, <1>4 DEF Next

(***************************************************************************)
(* The kernel gives the buffers to one descriptor at a time; a thread that *)
(* has not closed mFD and a call that could configure another descriptor   *)
(* never both believe to own them.                                         *)
(***************************************************************************)
LEMMA HolderNext == IInv /\ [Next]_vars => OneHolder'
<1> SUFFICES ASSUME IInv, [Next]_vars, Serial' PROVE OneHolder'
  BY DEF OneHolder
<1> USE FdsAssumption DEF IInv, OneHolder, Serial, NoOwner, Orphan, TypeOK, DeviceTypeOK
<1>1. ASSUME NEW a \in Apps, AppCall(a) PROVE OneHolder'
  BY <1>1, CallFrame DEF device, Holding, Looping, Configuring
<1>2. ASSUME NEW t \in Threads, CapWork(t) PROVE OneHolder'
  <2> USE DEF CapStep, device, Configuring
  <2>1. /\ UNCHANGED <<appPc, misuse, alive>> /\ Serial
        /\ \A s \in Threads : Holding(s)' => Holding(s)
    BY <1>2, CapFrame DEF Holding, Looping
  <2>2. CASE ErrorClose(t)
    <3>1. Holding(t) /\ ~Holding(t)'
      BY <2>2 DEF ErrorClose, Holding, Looping
    <3>2. \A s \in Threads : ~Holding(s)'
      BY <2>1, <3>1
    <3>3. \A a \in Apps : alive /\ Configuring(a) => mFD # owner
      BY <2>1, <3>1
    <3>4. ASSUME NEW a \in Apps, alive, Configuring(a)
          PROVE  appPc[a] \in {"map", "queue", "streamon", "return"} => mFD = -1
      BY <2>1, <3>3, <3>4
    <3>5. owner' = -1 => FALSE
      BY <2>2 DEF ErrorClose, CloseFile
    <3> QED
      BY <2>1, <2>2, <3>2, <3>3, <3>4, <3>5 DEF ErrorClose, CloseFile
  <2>3. CASE ErrorReset(t)
    BY <2>1, <2>3 DEF ErrorReset
  <2>4. CASE DequeueFrame(t) \/ DequeueFails(t) \/ RetrieveBuffer(t)
    BY <2>1, <2>4 DEF DequeueFrame, DequeueFails, DequeueBuffer, RetrieveBuffer, QueueBuffers
  <2>5. CASE RunCapture(t) \/ EnterLoop(t) \/ LoopTest(t) \/ SelectReturns(t)
    BY <2>1, <2>5 DEF RunCapture, EnterLoop, LoopTest, SelectReturns
  <2>6. CASE NotifyFirst(t) \/ DrawFrame(t) \/ LeaveLoop(t) \/ NotifyEnd(t)
    BY <2>1, <2>6 DEF NotifyFirst, DrawFrame, LeaveLoop, NotifyEnd
  <2>7. CASE CapUseAfterFree(t) \/ BadFdSet(t)
    BY <2>1, <2>7 DEF CapUseAfterFree, BadFdSet, Die
  <2> QED
    BY <1>2, <2>2, <2>3, <2>4, <2>5, <2>6, <2>7 DEF CapWork
<1>3. ASSUME NEW a \in Apps, AppWork(a) PROVE OneHolder'
  <2> USE DEF AppStep, device, Configuring
  <2>1. /\ Serial
        /\ \A b \in Apps : b # a => appPc[b] = "idle" /\ appPc'[b] = "idle"
    BY <1>3, AppFrame DEF OneCaller
  <2>2. UNCHANGED capPc => \A s \in Threads : Holding(s)' = Holding(s)
    BY DEF Holding, Looping
  <2>3. CASE OpenCamera(a)
    BY <2>1, <2>2, <2>3 DEF OpenCamera, OpenFile
  <2>4. CASE ConfigureCamera(a)
    BY <2>1, <2>2, <2>4 DEF ConfigureCamera, OpenStep, RequestBuffers
  <2>5. CASE MapCamera(a)
    BY <2>1, <2>2, <2>5 DEF MapCamera, OpenStep, MapBuffers
  <2>6. CASE QueueCamera(a) \/ StreamOnCamera(a)
    BY <2>1, <2>2, <2>6 DEF QueueCamera, StreamOnCamera, OpenStep, QueueBuffers, StreamOn
  <2>7. CASE ExitClose(a)
    BY <2>1, <2>2, <2>7 DEF ExitClose, CloseFile
  <2>8. CASE ExitReset(a)
    BY <2>1, <2>2, <2>8 DEF ExitReset
  <2>9. CASE ReturnFromOpen(a)
    BY <2>1, <2>2, <2>9, OwnerNext DEF ReturnFromOpen, CapStep, Holding, Looping, OwnerOpen
  <2>10. CASE DeleteCamera(a)
    BY <2>1, <2>2, <2>10 DEF DeleteCamera
  <2>11. CASE StopCapture(a) \/ ReleaseStop(a) \/ ClearNativeObject(a) \/ AppUseAfterFree(a)
    BY <2>1, <2>2, <2>11 DEF StopCapture, ReleaseStop, ClearPeekRun, ClearNativeObject,
                AppUseAfterFree, Die
  <2> QED
    BY <1>3, <2>3, <2>4, <2>5, <2>6, <2>7, <2>8, <2>9, <2>10, <2>11 DEF AppWork
<1>4. CASE UNCHANGED vars
  BY <1>4 DEF vars, Holding, Looping, Configuring
<1> QED
  BY <1>1, <1>2, <1>3, <1>4 DEF Next

(***************************************************************************)
(* Every way round the loop puts back the one buffer it took, or ends it:  *)
(* after a failed DQBUF the QBUF of buffer 0 fails, because buffer 0 is    *)
(* still queued, unless 0 is the very buffer the driver let go of.         *)
(***************************************************************************)
LEMMA BuffersNext == IInv /\ [Next]_vars => BuffersHome'
<1> SUFFICES ASSUME IInv, [Next]_vars, Serial' PROVE BuffersHome'
  BY DEF BuffersHome
<1> USE DEF IInv, BuffersHome, Serial, TypeOK, DeviceTypeOK
<1>1. ASSUME NEW a \in Apps, AppCall(a) PROVE BuffersHome'
  <2>1. UNCHANGED <<index>>
    BY <1>1 DEF AppCall, CallStart, CallStop, CallRelease, Call
  <2> QED
    BY <1>1, <2>1, CallFrame DEF device
<1>2. ASSUME NEW t \in Threads, CapWork(t) PROVE BuffersHome'
  <2> USE DEF CapStep, device
  <2>1. UNCHANGED <<appPc, misuse, alive>> /\ Serial
    BY <1>2, CapFrame
  <2>2. ASSUME Holding(t)
        PROVE  /\ \A s \in Threads : s # t => ~Holding(s)'
               /\ mFD = owner => \A a \in Apps : alive => appPc[a] \notin {"streamon", "return"}
    BY <1>2, <2>1, <2>2, CapFrame DEF OneHolder, Holding, Looping, Configuring
  <2>3. CASE ErrorClose(t)
    BY <2>1, <2>2, <2>3, FdsAssumption DEF ErrorClose, CloseFile, Holding, Looping, NoOwner, Orphan
  <2>4. CASE ErrorReset(t)
    BY <2>1, <2>4, FdsAssumption DEF ErrorReset, NoOwner, Orphan
  <2>5. CASE DequeueFrame(t)
    BY <2>1, <2>2, <2>5 DEF DequeueFrame, DequeueBuffer, AfterDequeue, Holding, Looping
  <2>6. CASE DequeueFails(t)
    BY <2>1, <2>2, <2>6, BufferFacts
       DEF DequeueFails, DequeueBuffer, AfterDequeue, Holding, Looping
  <2>7. CASE RetrieveBuffer(t)
    BY <2>1, <2>2, <2>7 DEF RetrieveBuffer, QueueBuffers, Holding, Looping
  <2>8. CASE RunCapture(t) \/ EnterLoop(t) \/ LoopTest(t) \/ SelectReturns(t)
    BY <2>1, <2>8 DEF RunCapture, EnterLoop, LoopTest, SelectReturns
  <2>9. CASE NotifyFirst(t) \/ DrawFrame(t) \/ LeaveLoop(t) \/ NotifyEnd(t)
    BY <2>1, <2>9 DEF NotifyFirst, DrawFrame, LeaveLoop, NotifyEnd
  <2>10. CASE CapUseAfterFree(t) \/ BadFdSet(t)
    BY <2>1, <2>10 DEF CapUseAfterFree, BadFdSet, Die
  <2> QED
    BY <1>2, <2>3, <2>4, <2>5, <2>6, <2>7, <2>8, <2>9, <2>10 DEF CapWork
<1>3. ASSUME NEW a \in Apps, AppWork(a) PROVE BuffersHome'
  <2> USE DEF AppStep, device
  <2>1. /\ Serial
        /\ \A b \in Apps : b # a => appPc[b] = "idle" /\ appPc'[b] = "idle"
    BY <1>3, AppFrame DEF OneCaller
  <2>2. alive /\ Configuring(a) /\ mFD = owner => \A t \in Threads : ~Holding(t)
    BY <2>1 DEF OneHolder
  <2>3. CASE OpenCamera(a)
    BY <2>1, <2>3, FdsAssumption DEF OpenCamera, OpenFile, OwnerOpen, NoOwner, Orphan
  <2>4. CASE ConfigureCamera(a)
    <3>1. CASE UNCHANGED device
      BY <2>1, <2>4, <3>1 DEF ConfigureCamera, OpenStep
    <3>2. CASE RequestBuffers(mFD)
      <4>1. \A t \in Threads : ~Holding(t)
        BY <2>1, <2>2, <2>4, <3>2, FdsAssumption
           DEF ConfigureCamera, OpenStep, RequestBuffers, OneHolder, Configuring, NoOwner, Orphan
      <4>2. \A t \in Threads : ~Holding(t)'
        BY <2>4, <4>1 DEF ConfigureCamera, OpenStep, Holding, Looping
      <4> QED
        BY <2>1, <2>4, <4>2 DEF ConfigureCamera, OpenStep, Holding, Looping
    <3> QED
      BY <2>4, <3>1, <3>2 DEF ConfigureCamera, OpenStep
  <2>5. CASE MapCamera(a)
    BY <2>1, <2>5 DEF MapCamera, OpenStep, MapBuffers
  <2>6. CASE QueueCamera(a)
    BY <2>1, <2>2, <2>6 DEF QueueCamera, OpenStep, QueueBuffers, Configuring, Holding, Looping
  <2>7. CASE StreamOnCamera(a)
    BY <2>1, <2>7 DEF StreamOnCamera, OpenStep, StreamOn
  <2>8. CASE ExitClose(a)
    BY <2>1, <2>2, <2>8, FdsAssumption
       DEF ExitClose, CloseFile, Configuring, Holding, Looping, NoOwner, Orphan
  <2>9. CASE ExitReset(a) \/ DeleteCamera(a)
    BY <2>1, <2>9, FdsAssumption DEF ExitReset, DeleteCamera, CloseFile, NoOwner, Orphan
  <2>10. CASE ReturnFromOpen(a)
    BY <2>1, <2>10 DEF ReturnFromOpen, CapStep
  <2>11. CASE StopCapture(a) \/ ReleaseStop(a) \/ ClearNativeObject(a) \/ AppUseAfterFree(a)
    BY <2>1, <2>11 DEF StopCapture, ReleaseStop, ClearPeekRun, ClearNativeObject,
                AppUseAfterFree, Die
  <2> QED
    BY <1>3, <2>3, <2>4, <2>5, <2>6, <2>7, <2>8, <2>9, <2>10, <2>11 DEF AppWork
<1>4. CASE UNCHANGED vars
  BY <1>4 DEF vars
<1> QED
  BY <1>1, <1>2, <1>3, <1>4 DEF Next

-----------------------------------------------------------------------------
\* A fault is the step Die of a thread that the parts above have ruled out.
LEMMA FaultNext == IInv /\ [Next]_vars => FaultNeedsMisuse'
<1> SUFFICES ASSUME IInv, [Next]_vars PROVE FaultNeedsMisuse'
  OBVIOUS
<1> USE DEF IInv, FaultNeedsMisuse
<1>1. ASSUME NEW a \in Apps, AppCall(a) PROVE FaultNeedsMisuse'
  BY <1>1, CallFrame
<1>2. ASSUME NEW t \in Threads, CapWork(t) PROVE FaultNeedsMisuse'
  <2>1. UNCHANGED misuse
    BY <1>2, CapFrame
  <2>2. CASE CapUseAfterFree(t)
    <3>1. fault' = "use_after_free" /\ ~alive /\ Active(t)
      BY <2>2 DEF CapUseAfterFree, Die, Active, ActiveCap
    <3>2. ~CarefulRelease
      BY <3>1 DEF QuietRelease
    <3> QED
      BY <2>1, <3>1, <3>2 DEF CarefulRelease, Serial
  <2>3. CASE BadFdSet(t)
    <3>1. fault' = "bad_fd_set" /\ alive /\ Looping(t) /\ ~(mFD # -1)
      BY <2>3, FdsAssumption DEF BadFdSet, Die, Looping, TypeOK, DeviceTypeOK
    <3>2. ~CarefulStart
      BY <3>1 DEF OneSession, Holding
    <3> QED
      BY <2>1, <3>1, <3>2 DEF CarefulStart, Serial
  <2>4. CASE UNCHANGED fault
    BY <2>1, <2>4
  <2> QED
    BY <1>2, <2>2, <2>3, <2>4 DEF CapWork, RunCapture, EnterLoop, LoopTest, SelectReturns,
       DequeueFrame, DequeueFails, NotifyFirst, DrawFrame, RetrieveBuffer, LeaveLoop,
       ErrorClose, ErrorReset, NotifyEnd
<1>3. ASSUME NEW a \in Apps, AppWork(a) PROVE FaultNeedsMisuse'
  <2>1. UNCHANGED misuse
    BY <1>3, AppFrame
  <2>2. CASE AppUseAfterFree(a)
    <3>1. fault' = "use_after_free" /\ ~alive /\ appPc[a] \in TouchingApp
      BY <2>2 DEF AppUseAfterFree, Die
    <3>2. ~Serial
      BY <3>1 DEF OneCaller, TouchingApp
    <3> QED
      BY <2>1, <3>1, <3>2 DEF Serial
  <2>3. CASE UNCHANGED fault
    BY <2>1, <2>3
  <2> QED
    BY <1>3, <2>2, <2>3 DEF AppWork, OpenCamera, ConfigureCamera, MapCamera, QueueCamera,
       StreamOnCamera, OpenStep, ExitClose, ExitReset, ReturnFromOpen, StopCapture,
       ReleaseStop, ClearPeekRun, DeleteCamera, ClearNativeObject
<1>4. CASE UNCHANGED vars
  BY <1>4 DEF vars
<1> QED
  BY <1>1, <1>2, <1>3, <1>4 DEF Next

-----------------------------------------------------------------------------
LEMMA InvInit == Init => IInv
<1> SUFFICES ASSUME Init PROVE IInv
  OBVIOUS
<1>1. TypeOK
  BY TypeInit
<1>2. \A a \in Apps : appPc[a] = "idle"
  BY DEF Init
<1>3. \A t \in Threads : capPc[t] = "none"
  BY DEF Init
<1>4. OwnerOpen /\ FieldAndObject /\ OneCaller /\ QuietRelease
  BY <1>2, <1>3 DEF Init, DeviceInit, OwnerOpen, FieldAndObject, OneCaller, QuietRelease,
                    Releasing, Active, ActiveCap, TouchingCap
<1>5. OneSession /\ OneDescriptor /\ OneHolder /\ BuffersHome
  BY <1>2, <1>3 DEF Init, DeviceInit, OneSession, OneDescriptor, OneHolder, BuffersHome, Opening,
                    Configuring, Active, ActiveCap, TouchingCap, Looping, Holding
<1>6. FaultNeedsMisuse
  BY DEF Init, FaultNeedsMisuse
<1> QED
  BY <1>1, <1>4, <1>5, <1>6 DEF IInv

LEMMA InvNext == IInv /\ [Next]_vars => IInv'
<1> SUFFICES ASSUME IInv, [Next]_vars PROVE IInv'
  OBVIOUS
<1>1. TypeOK'
  BY TypeNext DEF IInv
<1>2. OwnerOpen' /\ FieldAndObject' /\ OneCaller' /\ QuietRelease'
  BY OwnerNext, FieldNext, CallerNext, QuietNext
<1>3. OneSession' /\ OneDescriptor' /\ OneHolder' /\ BuffersHome' /\ FaultNeedsMisuse'
  BY SessionNext, DescriptorNext, HolderNext, BuffersNext, FaultNext
<1> QED
  BY <1>1, <1>2, <1>3 DEF IInv

\* The inductive invariant holds in every state.
THEOREM InvCorrect == Spec => []IInv
  BY InvInit, InvNext, PTL DEF Spec

(***************************************************************************)
(* nativeReleaseCamera and startCapture: no use of a deleted object and no *)
(* FD_SET of a negative descriptor without the misuse that leads there.    *)
(***************************************************************************)
THEOREM FaultCorrect == Spec => []FaultNeedsMisuse
<1>1. IInv => FaultNeedsMisuse
  BY DEF IInv
<1> QED
  BY <1>1, InvCorrect, PTL

(***************************************************************************)
(* openCamera, ~Camera and CAMERA_ERR lose no descriptor unless a camera   *)
(* is started twice or calls overlap.                                      *)
(***************************************************************************)
THEOREM DescriptorCorrect == Spec => []NoLostDescriptor
<1>1. IInv => NoLostDescriptor
  BY DEF IInv, OneDescriptor, CarefulStart, Serial, NoLostDescriptor
<1> QED
  BY <1>1, InvCorrect, PTL

(***************************************************************************)
(* startCapture: however often start is called, one thread at a time is in *)
(* the capture loop and uses mCurBufInfo and the frame buffers.            *)
(***************************************************************************)
THEOREM CapturerCorrect == Spec => []SingleCapturer
<1>1. IInv => SingleCapturer
  BY DEF IInv, OneHolder, Holding, Serial, SingleCapturer
<1> QED
  BY <1>1, InvCorrect, PTL

(***************************************************************************)
(* startCapture, "Retrieve": between two frames every buffer is with the   *)
(* driver, so a running session never starves, whatever failed before.     *)
(***************************************************************************)
THEOREM BuffersCorrect == Spec => []AllQueuedWhenPolling
<1>1. IInv => AllQueuedWhenPolling
  BY DEF IInv, BuffersHome, Serial, AllQueuedWhenPolling
<1> QED
  BY <1>1, InvCorrect, PTL

(***************************************************************************)
(* nativeStartCapture and startCapture: a thread that ends without having  *)
(* told the clients found a camera that misuse had closed or deleted.      *)
(***************************************************************************)
THEOREM EndCorrect == Spec => NoSilentEnd
<1> DEFINE Silent(t) == capPc[t] \in {"spawned", "entry"} /\ capPc'[t] = "none"
           Broken == misuse \cap {"start_twice", "release_busy", "overlap"} # {}
<1>1. ASSUME IInv, [Next]_vars, NEW t \in Threads, Silent(t) PROVE Broken
  <2> USE DEF IInv, TypeOK
  <2>1. CapWork(t)
    <3>1. ASSUME NEW a \in Apps, AppCall(a) PROVE FALSE
      BY <1>1, <3>1, CallFrame
    <3>2. ASSUME NEW a \in Apps, AppWork(a) PROVE FALSE
      BY <1>1, <3>2, AppOpening
    <3>3. ASSUME NEW s \in Threads, CapWork(s), s # t PROVE FALSE
      BY <1>1, <3>3, CapFrame
    <3>4. CASE UNCHANGED vars
      BY <1>1, <3>4 DEF vars
    <3> QED
      BY <1>1, <3>1, <3>2, <3>3, <3>4 DEF Next
  <2>2. Active(t) /\ Holding(t)
    BY <1>1 DEF Active, ActiveCap, TouchingCap, Holding
  <2>3. CASE RunCapture(t)
    BY <1>1, <2>2, <2>3 DEF RunCapture, CapStep, FieldAndObject, QuietRelease, CarefulRelease,
                            Serial
  <2>4. CASE EnterLoop(t)
    BY <1>1, <2>2, <2>4, FdsAssumption DEF EnterLoop, CapStep, OneSession, CarefulStart, Serial,
                            DeviceTypeOK
  <2>5. RunCapture(t) \/ EnterLoop(t)
    BY <1>1, <2>1 DEF CapWork, LoopTest, SelectReturns, DequeueFrame, DequeueFails, NotifyFirst,
       DrawFrame, RetrieveBuffer, LeaveLoop, ErrorClose, ErrorReset, NotifyEnd,
       CapUseAfterFree, BadFdSet, Die, CapStep
  <2> QED
    BY <2>3, <2>4, <2>5
<1>2. ASSUME IInv, [Next]_vars PROVE [\A t \in Threads : Silent(t) => Broken]_vars
  BY <1>1, <1>2
<1> QED
  BY <1>2, InvCorrect, PTL DEF Spec, NoSilentEnd

=============================================================================
