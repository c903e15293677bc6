------------------------ MODULE CarefulCameraProofs -------------------------
(***************************************************************************)
(* Proof that every step of the native code under careful use is a step of *)
(* CaptureSession or changes nothing there.  The fairness half of          *)
(* ImplementsSession is checked by TLC only.                               *)
(***************************************************************************)
EXTENDS CarefulCamera, CameraLifecycleProofs

CarefulInv == IInv /\ misuse = {} /\ fault = "none"

LEMMA CarefulInit == Init => CarefulInv
  BY InvInit DEF Init, CarefulInv

LEMMA CarefulInvNext == CarefulInv /\ [CarefulNext]_vars => CarefulInv'
<1> SUFFICES ASSUME CarefulInv, [CarefulNext]_vars PROVE CarefulInv'
  OBVIOUS
<1>1. [Next]_vars
  BY DEF CarefulNext
<1>2. IInv' /\ misuse' = {}
  BY <1>1, InvNext DEF CarefulInv, CarefulNext, vars
<1>3. fault' = "none"
  BY <1>2 DEF IInv, FaultNeedsMisuse, TypeOK
<1> QED
  BY <1>2, <1>3 DEF CarefulInv

(***************************************************************************)
(* Under careful use the place of one call or of one capture thread tells  *)
(* the phase.                                                              *)
(***************************************************************************)
PhaseTable ==
  /\ ~alive => phaseBar = "released"
  /\ \A a \in Apps : alive =>
       /\ appPc[a] = "open" => phaseBar = "opening"
       /\ appPc[a] \in {"configure", "map", "queue", "streamon", "return"}
            => phaseBar = "configuring"
       /\ appPc[a] \in {"exit_close", "exit_reset"} => phaseBar = "failing"
  /\ \A t \in Threads : alive =>
       /\ capPc[t] \in {"spawned", "entry"} => phaseBar = "starting"
       /\ Looping(t) => phaseBar = "running"
       /\ capPc[t] = "stopping" => phaseBar = "stopping"
       /\ capPc[t] \in {"error", "err_reset"} => phaseBar = "failing"
  /\ alive /\ (\A a \in Apps : ~Opening(a)) /\ (\A t \in Threads : ~Active(t))
       => phaseBar = IF mFD = -1 THEN "closed" ELSE "stopped"

LEMMA PhaseFacts == CarefulInv => PhaseTable
<1> SUFFICES ASSUME CarefulInv PROVE PhaseTable
  OBVIOUS
<1>1. /\ \A a, b \in Apps : appPc[a] # "idle" /\ appPc[b] # "idle" => a = b
      /\ \A s, t \in Threads : Active(s) /\ Active(t) => s = t
      /\ (\E a \in Apps : Opening(a)) => \A t \in Threads : ~Active(t)
  BY DEF CarefulInv, IInv, OneCaller, OneSession, CarefulStart, Serial
<1>2. \A t \in Threads :
        Active(t) <=> \/ capPc[t] \in {"spawned", "entry", "stopping", "error", "err_reset"}
                      \/ Looping(t)
  BY DEF Active, ActiveCap, TouchingCap, Looping
<1>3. \A a \in Apps :
        Opening(a) <=> appPc[a] \in {"open", "configure", "map", "queue", "streamon", "return",
                                     "exit_close", "exit_reset"}
  BY DEF Opening, Configuring
<1>4. ~alive => phaseBar = "released"
  BY DEF phaseBar
<1>5. ASSUME NEW a \in Apps, alive
      PROVE  /\ appPc[a] = "open" => phaseBar = "opening"
             /\ appPc[a] \in {"configure", "map", "queue", "streamon", "return"}
                  => phaseBar = "configuring"
             /\ appPc[a] \in {"exit_close", "exit_reset"} => phaseBar = "failing"
  BY <1>1, <1>5 DEF phaseBar, AnApp
<1>6. ASSUME NEW t \in Threads, alive
      PROVE  /\ capPc[t] \in {"spawned", "entry"} => phaseBar = "starting"
             /\ Looping(t) => phaseBar = "running"
             /\ capPc[t] = "stopping" => phaseBar = "stopping"
             /\ capPc[t] \in {"error", "err_reset"} => phaseBar = "failing"
  <2>1. Active(t) => /\ ~AnApp({"open"})
                     /\ ~AnApp({"configure", "map", "queue", "streamon", "return"})
                     /\ ~AnApp({"exit_close", "exit_reset"})
    BY <1>1, <1>3 DEF AnApp
  <2> QED
    BY <1>1, <1>2, <1>6, <2>1 DEF phaseBar, AThread, Looping
<1>7. ASSUME alive, \A a \in Apps : ~Opening(a), \A t \in Threads : ~Active(t)
      PROVE  phaseBar = IF mFD = -1 THEN "closed" ELSE "stopped"
  BY <1>2, <1>3, <1>7 DEF phaseBar, AnApp, AThread
<1> QED
  BY <1>4, <1>5, <1>6, <1>7 DEF PhaseTable

\* What careful use leaves of the invariant's parts.
LEMMA CarefulFacts ==
  ASSUME CarefulInv
  PROVE  /\ \A a, b \in Apps : appPc[a] # "idle" /\ appPc[b] # "idle" => a = b
         /\ \A s, t \in Threads : Active(s) /\ Active(t) => s = t
         /\ (\E a \in Apps : Opening(a)) => \A t \in Threads : ~Active(t)
         /\ (\E a \in Apps : Releasing(a)) \/ ~alive => \A t \in Threads : ~Active(t)
         /\ ~alive => /\ \A a \in Apps : appPc[a] \in {"idle", "rel_clear"}
                      /\ mNativeObject => \E a \in Apps : appPc[a] = "rel_clear"
         /\ \A t \in Threads : Holding(t) => alive /\ mFD # -1
         /\ \A a \in Apps : Configuring(a) => mFD # -1
         /\ openFds \subseteq {mFD}
         /\ \A a \in Apps : appPc[a] = "open" => mFD = -1
         /\ \A a \in Apps : appPc[a] = "exit_reset" => openFds = {}
         /\ \A t \in Threads : capPc[t] = "err_reset" => openFds = {}
<1>1. Serial /\ CarefulStart /\ CarefulRelease
  BY DEF CarefulInv, Serial, CarefulStart, CarefulRelease
<1>2. \A t \in Threads : Holding(t) => Active(t)
  BY DEF Holding, Active, ActiveCap, TouchingCap, Looping
<1> QED
  BY <1>1, <1>2 DEF CarefulInv, IInv, OneCaller, QuietRelease, OneSession, OneDescriptor

SessionStep == [Session!SessionNext]_(Session!sessionVars)

SameSession == UNCHANGED <<phaseBar, heldBar, stopAskedBar>>

LEMMA SameIsStep == SameSession => SessionStep
  BY DEF SameSession, SessionStep, Session!sessionVars

\* The calls: a start opens a closed camera; stop and release begin unseen.
LEMMA CallSimulated ==
  ASSUME CarefulInv, CarefulInv', PhaseTable, PhaseTable', NEW a \in Apps, AppCall(a),
         misuse' = {}
  PROVE  SessionStep
<1>1. /\ UNCHANGED <<device, mNativeObject, alive, mFD, capPc, fault>>
      /\ UNCHANGED mPeekRun
  BY CallFrame DEF CarefulInv, IInv, AppCall, CallStart, CallStop, CallRelease, Call
<1>2. CASE UNCHANGED appPc
  <2>1. SameSession
    BY <1>1, <1>2 DEF SameSession, phaseBar, heldBar, stopAskedBar, AnApp, AThread, Looping, device
  <2> QED
    BY <2>1, SameIsStep
<1>3. CASE ~UNCHANGED appPc
  <2>1. /\ mNativeObject
        /\ appPc[a] = "idle"
        /\ appPc'[a] \in {"open", "stop", "rel_stop"}
        /\ \A b \in Apps : b # a => appPc[b] = "idle" /\ appPc'[b] = "idle"
        /\ appPc'[a] = "open" => mFD = -1 /\ ~SomeActive
    BY <1>3, CallFrame DEF CarefulInv, IInv, Serial
  <2>2. alive
    BY <2>1, CarefulFacts
  <2>3. CASE appPc'[a] = "open"
    <3>1. phaseBar = "closed"
      BY <2>1, <2>2, <2>3 DEF PhaseTable, Opening, Configuring, SomeActive
    <3>2. phaseBar' = "opening"
      BY <1>1, <2>2, <2>3 DEF PhaseTable
    <3>3. heldBar' = heldBar /\ stopAskedBar' = stopAskedBar
      BY <1>1, <3>1, <3>2 DEF heldBar, stopAskedBar, device
    <3> QED
      BY <3>1, <3>2, <3>3
         DEF SessionStep, Session!SessionNext, Session!Start, Session!Move
  <2>4. CASE appPc'[a] \in {"stop", "rel_stop"}
    <3>1. \A b \in Apps : ~Opening(b) /\ ~Opening(b)'
      BY <2>1, <2>4 DEF Opening, Configuring
    <3>2. phaseBar' = phaseBar
      BY <1>1, <3>1 DEF phaseBar, AnApp, AThread, Looping, Opening, Configuring
    <3>3. SameSession
      BY <1>1, <3>2 DEF SameSession, heldBar, stopAskedBar, device
    <3> QED
      BY <3>3, SameIsStep
  <2> QED
    BY <2>1, <2>3, <2>4
<1> QED
  BY <1>2, <1>3

\* The steps of the call under way.
LEMMA WorkSimulated ==
  ASSUME CarefulInv, CarefulInv', PhaseTable, PhaseTable', NEW a \in Apps, AppWork(a)
  PROVE  SessionStep
<1> USE DEF AppStep, device, Session!SessionNext, Session!Progress, Session!Move, SessionStep,
            heldBar, stopAskedBar
<1>1. /\ appPc \in [Apps -> AppPcs] /\ capPc \in [Threads -> CapPcs]
      /\ mFD \in Fds \cup {-1} /\ openFds \subseteq Fds
  BY DEF CarefulInv, IInv, TypeOK, DeviceTypeOK
<1>2. \A b \in Apps : b # a => appPc[b] = "idle" /\ appPc'[b] = "idle"
  BY <1>1, CarefulFacts, AppFrame DEF CarefulInv, IInv
<1>3. CASE OpenCamera(a)
  <2>1. phaseBar = "opening" /\ openFds = {}
    BY <1>1, <1>3, CarefulFacts, FdsAssumption DEF OpenCamera, PhaseTable
  <2>2. CASE appPc'[a] = "configure"
    <3>1. phaseBar' = "configuring" /\ openFds' # {}
      BY <1>3, <2>2, <1>1 DEF OpenCamera, OpenFile, PhaseTable
    <3> QED
      BY <2>1, <3>1 DEF Session!Acquire
  <2>3. CASE appPc'[a] = "idle"
    <3>1. UNCHANGED <<openFds, capPc, alive>> /\ mFD' = -1 /\ alive
      BY <1>1, <1>3, <2>3 DEF OpenCamera
    <3>2. (\A t \in Threads : ~Active(t)') /\ \A b \in Apps : ~Opening(b)'
      BY <1>2, <1>3, <2>3, <3>1, CarefulFacts DEF OpenCamera, Opening, Configuring, Active
    <3>3. phaseBar' = "closed"
      BY <3>1, <3>2 DEF PhaseTable
    <3> QED
      BY <2>1, <3>1, <3>3 DEF Session!OpenFails
  <2> QED
    BY <1>1, <1>3, <2>2, <2>3 DEF OpenCamera
<1>4. CASE ConfigureCamera(a) \/ MapCamera(a) \/ QueueCamera(a) \/ StreamOnCamera(a)
  <2>1. phaseBar = "configuring" /\ UNCHANGED openFds /\ alive'
    BY <1>4 DEF ConfigureCamera, MapCamera, QueueCamera, StreamOnCamera, OpenStep, PhaseTable,
                RequestBuffers, MapBuffers, QueueBuffers, StreamOn
  <2>2. appPc'[a] \in {"map", "queue", "streamon", "return", "exit_close"}
    BY <1>1, <1>4 DEF ConfigureCamera, MapCamera, QueueCamera, StreamOnCamera, OpenStep
  <2>3. phaseBar' \in {"configuring", "failing"}
    BY <2>1, <2>2 DEF PhaseTable
  <2> QED
    BY <2>1, <2>3 DEF Session!Fail, Session!sessionVars
<1>5. CASE ExitClose(a)
  <2>1. phaseBar = "failing" /\ phaseBar' = "failing"
    BY <1>1, <1>5 DEF ExitClose, PhaseTable
  <2>2. openFds' = {}
    BY <1>5, CarefulFacts DEF ExitClose, CloseFile
  <2> QED
    BY <2>1, <2>2 DEF Session!GiveBack, Session!sessionVars
<1>6. CASE ExitReset(a)
  <2>1. phaseBar = "failing" /\ openFds = {} /\ UNCHANGED <<openFds, capPc, alive>>
        /\ mFD' = -1 /\ alive
    BY <1>6, CarefulFacts DEF ExitReset, PhaseTable
  <2>2. (\A t \in Threads : ~Active(t)') /\ \A b \in Apps : ~Opening(b)'
    BY <1>1, <1>2, <1>6, <2>1, CarefulFacts DEF ExitReset, Opening, Configuring, Active
  <2>3. phaseBar' = "closed"
    BY <2>1, <2>2 DEF PhaseTable
  <2> QED
    BY <2>1, <2>3 DEF Session!Failed
<1>7. CASE ReturnFromOpen(a)
  <2>1. phaseBar = "configuring" /\ mFD # -1 /\ UNCHANGED <<openFds, alive>> /\ alive
    BY <1>7, CarefulFacts DEF ReturnFromOpen, PhaseTable, Configuring
  <2>2. PICK t \in Threads : CapStep(t, "none", "spawned")
    BY <1>1, <1>7, <2>1, FdsAssumption DEF ReturnFromOpen
  <2>3. phaseBar' = "starting"
    BY <1>1, <2>1, <2>2 DEF CapStep, PhaseTable
  <2> QED
    BY <2>1, <2>3 DEF Session!Configured
<1>8. CASE StopCapture(a)
  <2>1. UNCHANGED <<alive, openFds, capPc, mFD>> /\ mPeekRun' = FALSE
    BY <1>8 DEF StopCapture, ClearPeekRun
  <2>2. \A b \in Apps : ~Opening(b) /\ ~Opening(b)'
    BY <1>1, <1>2, <1>8 DEF StopCapture, ClearPeekRun, Opening, Configuring
  <2>3. phaseBar' = phaseBar
    BY <2>1, <2>2 DEF phaseBar, AnApp, AThread, Looping, Opening, Configuring
  <2> QED
    BY <2>1, <2>3 DEF Session!Stop, Session!sessionVars
<1>9. CASE ReleaseStop(a)
  <2>1. UNCHANGED <<alive, openFds, capPc, mFD>> /\ alive
    BY <1>9 DEF ReleaseStop, ClearPeekRun
  <2>2. /\ \A b \in Apps : ~Opening(b) /\ ~Opening(b)'
        /\ \A t \in Threads : ~Active(t) /\ ~Active(t)'
    BY <1>1, <1>2, <1>9, <2>1, CarefulFacts
       DEF ReleaseStop, ClearPeekRun, Opening, Configuring, Releasing, Active
  <2>3. phaseBar' = phaseBar /\ phaseBar # "running"
    BY <2>1, <2>2 DEF PhaseTable
  <2> QED
    BY <2>1, <2>3 DEF Session!sessionVars
<1>10. CASE DeleteCamera(a)
  <2>1. phaseBar \in {"closed", "stopped"}
    <3>1. \A b \in Apps : ~Opening(b)
      BY <1>2, <1>10 DEF DeleteCamera, Opening, Configuring
    <3> QED
      BY <1>10, <3>1, CarefulFacts DEF DeleteCamera, PhaseTable, Releasing
  <2>2. phaseBar' = "released"
    BY <1>10 DEF DeleteCamera, PhaseTable
  <2>3. openFds' = {}
    <3>1. CASE mFD > 0
      BY <1>10, <3>1, CarefulFacts DEF DeleteCamera, CloseFile
    <3>2. CASE ~(mFD > 0)
      <4>1. mFD = -1
        BY <1>1, <3>2, FdsAssumption
      <4>2. openFds = {}
        BY <1>1, <4>1, CarefulFacts, FdsAssumption
      <4> QED
        BY <1>10, <3>2, <4>2 DEF DeleteCamera
    <3> QED
      BY <3>1, <3>2
  <2> QED
    BY <2>1, <2>2, <2>3 DEF Session!Release
<1>11. CASE ClearNativeObject(a)
  <2>1. ~alive
    BY <1>11 DEF ClearNativeObject, CarefulInv, IInv, FieldAndObject
  <2>2. phaseBar = "released" /\ phaseBar' = "released" /\ UNCHANGED openFds
    BY <1>11, <2>1 DEF ClearNativeObject, PhaseTable
  <2> QED
    BY <2>2 DEF Session!sessionVars
<1>12. CASE AppUseAfterFree(a)
  BY <1>12 DEF AppUseAfterFree, Die, CarefulInv
<1> QED
  BY <1>3, <1>4, <1>5, <1>6, <1>7, <1>8, <1>9, <1>10, <1>11, <1>12 DEF AppWork

\* The steps of the capture thread.
LEMMA CapSimulated ==
  ASSUME CarefulInv, CarefulInv', PhaseTable, PhaseTable', NEW t \in Threads, CapWork(t)
  PROVE  SessionStep
<1> USE DEF CapStep, device, Session!SessionNext, Session!Progress, Session!Move, SessionStep,
            heldBar, stopAskedBar
<1>1. /\ capPc \in [Threads -> CapPcs] /\ mFD \in Fds \cup {-1}
      /\ TypeOK
  BY DEF CarefulInv, IInv, TypeOK, DeviceTypeOK
<1>2. UNCHANGED <<mNativeObject, alive, appPc, misuse>>
  BY <1>1, CapFrame
<1>3. Active(t) => \A s \in Threads : s # t => ~Active(s) /\ ~Active(s)'
  BY <1>1, CapFrame, CarefulFacts DEF Active
<1>4. Active(t) => \A a \in Apps : ~Opening(a) /\ ~Opening(a)'
  BY <1>2, CarefulFacts DEF Opening, Configuring
<1>5. CASE RunCapture(t) \/ EnterLoop(t)
  <2>1. Active(t) /\ Holding(t) /\ alive /\ mFD # -1 /\ phaseBar = "starting"
    BY <1>5, CarefulFacts
       DEF RunCapture, EnterLoop, Active, ActiveCap, TouchingCap, Holding, PhaseTable
  <2>2. CASE RunCapture(t)
    <3>1. mNativeObject
      BY <2>1 DEF CarefulInv, IInv, FieldAndObject
    <3>2. phaseBar' = "starting" /\ UNCHANGED openFds
      BY <1>1, <1>2, <2>1, <2>2, <3>1 DEF RunCapture, PhaseTable
    <3> QED
      BY <2>1, <3>2 DEF Session!sessionVars
  <2>3. CASE EnterLoop(t)
    <3>1. ~(mFD < 0)
      BY <1>1, <2>1, FdsAssumption
    <3>2. phaseBar' = "running" /\ UNCHANGED openFds /\ mPeekRun'
      BY <1>1, <1>2, <2>1, <2>3, <3>1 DEF EnterLoop, PhaseTable, Looping
    <3> QED
      BY <2>1, <3>2 DEF Session!Begin
  <2> QED
    BY <1>5, <2>2, <2>3
<1>6. CASE LoopTest(t) \/ SelectReturns(t)
  <2>1. phaseBar = "running" /\ UNCHANGED <<openFds, mPeekRun>> /\ alive'
    BY <1>2, <1>6 DEF LoopTest, SelectReturns, PhaseTable, Looping
  <2>2. CASE Looping(t)'
    BY <2>1, <2>2 DEF PhaseTable, Session!sessionVars
  <2>3. CASE capPc'[t] = "stopping" /\ ~mPeekRun
    BY <2>1, <2>3 DEF PhaseTable, Session!StopSeen
  <2>4. CASE capPc'[t] = "error"
    BY <2>1, <2>4 DEF PhaseTable, Session!Fail
  <2> QED
    BY <1>1, <1>6, <2>2, <2>3, <2>4 DEF LoopTest, SelectReturns, Looping
<1>7. CASE DequeueFrame(t) \/ DequeueFails(t) \/ RetrieveBuffer(t)
  <2>1. phaseBar = "running" /\ UNCHANGED <<openFds, mPeekRun>> /\ alive'
    BY <1>2, <1>7 DEF DequeueFrame, DequeueFails, RetrieveBuffer, DequeueBuffer, QueueBuffers,
                      PhaseTable, Looping
  <2>2. CASE Looping(t)'
    BY <2>1, <2>2 DEF PhaseTable, Session!sessionVars
  <2>3. CASE capPc'[t] = "error"
    BY <2>1, <2>3 DEF PhaseTable, Session!Fail
  <2> QED
    BY <1>1, <1>7, <2>2, <2>3
       DEF DequeueFrame, DequeueFails, RetrieveBuffer, AfterDequeue, Looping
<1>8. CASE NotifyFirst(t) \/ DrawFrame(t)
  <2>1. phaseBar' = phaseBar /\ UNCHANGED <<openFds, mPeekRun>>
    <3>1. Looping(t) /\ Looping(t)'
      BY <1>1, <1>8 DEF NotifyFirst, DrawFrame, Looping
    <3>2. CASE alive
      BY <1>2, <1>8, <3>1, <3>2 DEF PhaseTable, NotifyFirst, DrawFrame
    <3>3. CASE ~alive
      BY <1>2, <1>8, <3>3 DEF PhaseTable, NotifyFirst, DrawFrame
    <3> QED
      BY <3>2, <3>3
  <2> QED
    BY <2>1 DEF Session!sessionVars
<1>9. CASE LeaveLoop(t)
  <2>1. Active(t) /\ Holding(t) /\ phaseBar = "stopping" /\ alive /\ mFD # -1
    BY <1>9, CarefulFacts DEF LeaveLoop, Active, ActiveCap, TouchingCap, Holding, PhaseTable
  <2>2. \A s \in Threads : ~Active(s)'
    BY <1>1, <1>3, <1>9, <2>1 DEF LeaveLoop, Active, ActiveCap, TouchingCap
  <2>3. phaseBar' = "stopped" /\ UNCHANGED openFds
    BY <1>2, <1>4, <1>9, <2>1, <2>2 DEF LeaveLoop, PhaseTable
  <2> QED
    BY <2>1, <2>3 DEF Session!Stopped
<1>10. CASE ErrorClose(t)
  <2>1. phaseBar = "failing" /\ phaseBar' = "failing"
    BY <1>1, <1>2, <1>10 DEF ErrorClose, PhaseTable
  <2>2. openFds' = {}
    BY <1>10, CarefulFacts DEF ErrorClose, CloseFile
  <2> QED
    BY <2>1, <2>2 DEF Session!GiveBack, Session!sessionVars
<1>11. CASE ErrorReset(t)
  <2>1. Active(t) /\ phaseBar = "failing" /\ openFds = {} /\ UNCHANGED openFds /\ alive
    BY <1>11, CarefulFacts DEF ErrorReset, Active, ActiveCap, TouchingCap, PhaseTable
  <2>2. \A s \in Threads : ~Active(s)'
    BY <1>1, <1>3, <1>11, <2>1 DEF ErrorReset, Active, ActiveCap, TouchingCap
  <2>3. phaseBar' = "closed"
    BY <1>2, <1>4, <1>11, <2>1, <2>2 DEF ErrorReset, PhaseTable
  <2> QED
    BY <2>1, <2>3 DEF Session!Failed
<1>12. CASE NotifyEnd(t)
  <2>1. UNCHANGED <<openFds, mFD, mPeekRun>>
    BY <1>12 DEF NotifyEnd
  <2>2. /\ AThread({"error", "err_reset"})' = AThread({"error", "err_reset"})
        /\ AThread({"spawned", "entry"})' = AThread({"spawned", "entry"})
        /\ AThread({"stopping"})' = AThread({"stopping"})
        /\ (\E s \in Threads : Looping(s))' = (\E s \in Threads : Looping(s))
    BY <1>1, <1>12 DEF NotifyEnd, AThread, Looping
  <2>3. phaseBar' = phaseBar
    BY <1>2, <2>1, <2>2 DEF phaseBar, AnApp
  <2> QED
    BY <2>1, <2>3 DEF Session!sessionVars
<1>13. CASE CapUseAfterFree(t) \/ BadFdSet(t)
  BY <1>13 DEF CapUseAfterFree, BadFdSet, Die, CarefulInv
<1> QED
  BY <1>5, <1>6, <1>7, <1>8, <1>9, <1>10, <1>11, <1>12, <1>13 DEF CapWork

LEMMA InitSimulated == Init => Session!SessionInit
<1> SUFFICES ASSUME Init PROVE Session!SessionInit
  OBVIOUS
<1>1. phaseBar = "closed" /\ openFds = {}
  BY DEF Init, DeviceInit, phaseBar, AnApp, AThread, Looping
<1> QED
  BY <1>1 DEF Session!SessionInit, heldBar, stopAskedBar

LEMMA StepSimulated ==
  ASSUME CarefulInv, CarefulInv', PhaseTable, PhaseTable', [CarefulNext]_vars
  PROVE  SessionStep
<1>1. ASSUME NEW a \in Apps, AppCall(a) PROVE SessionStep
  BY <1>1, CallSimulated DEF CarefulInv
<1>2. ASSUME NEW a \in Apps, AppWork(a) PROVE SessionStep
  BY <1>2, WorkSimulated
<1>3. ASSUME NEW t \in Threads, CapWork(t) PROVE SessionStep
  BY <1>3, CapSimulated
<1>4. CASE UNCHANGED vars
  <2>1. SameSession
    BY <1>4 DEF vars, SameSession, phaseBar, heldBar, stopAskedBar, AnApp, AThread, Looping
  <2> QED
    BY <2>1, SameIsStep
<1> QED
  BY <1>1, <1>2, <1>3, <1>4 DEF CarefulNext, Next

(***************************************************************************)
(* openCamera, startCapture, stopCapture and nativeReleaseCamera, however  *)
(* their threads interleave, implement CaptureSession when the application *)
(* is careful: one session at a time, the device held from open to close   *)
(* and by nobody else, no stop that is not asked for, no descriptor kept   *)
(* after an error or a release.                                            *)
(***************************************************************************)
THEOREM SessionImplemented == CarefulSafety => Session!SessionSafety
<1>1. CarefulSafety => []CarefulInv
  BY CarefulInit, CarefulInvNext, PTL DEF CarefulSafety
<1>2. CarefulInv /\ CarefulInv' /\ [CarefulNext]_vars => [Session!SessionNext]_(Session!sessionVars)
  <2>1. CarefulInv' => PhaseTable'
    BY PhaseFacts, PTL
  <2> QED
    BY <2>1, PhaseFacts, StepSimulated DEF SessionStep
<1> QED
  BY <1>1, <1>2, InitSimulated, PTL DEF CarefulSafety, Session!SessionSafety

=============================================================================
