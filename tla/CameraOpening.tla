---------------------------- MODULE CameraOpening ----------------------------
(***************************************************************************)
(* Camera::openCamera, one system call at a time: the ioctls that          *)
(* configure the device, the loop that maps as many buffers as the driver  *)
(* granted, and the loop that queues BUFFER_NR of them.  The rest of the   *)
(* camera is CarefulCamera's, step by step.                                *)
(*                                                                         *)
(* CameraLifecycle takes the two loops as one step each.  The refinement   *)
(* at the end says that it may.                                            *)
(***************************************************************************)
EXTENDS CarefulCamera

CONSTANT Granted   \* the counts REQBUFS may come back with

ASSUME GrantedAssumption == Granted \subseteq Nat \ {0}

VARIABLES
  step,           \* the next call in the phases "configure" and "map"
  i,              \* the variable of the loops
  count,          \* req.count
  mBufferArray,   \* what the pointer in each element is
  overrun         \* has an element past the last one been written?

opening == <<step, i, count, mBufferArray, overrun>>
openingVars == <<vars, opening>>

\* A pointer is never set, MAP_FAILED, or a mapping of this opening or of an
\* earlier one.  No mapping is ever removed.
Pointers == {"unset", "failed", "current", "stale"}

-----------------------------------------------------------------------------
(***************************************************************************)
(* Slips one could make in this code.  No action uses them.                *)
(***************************************************************************)

\* The mapping loop runs once too often.
GrantedLeftInclusive == i <= count

\* As many buffers are queued as were granted.
QueueLoopToCount == i < count

\* A buffer that cannot be queued is tried again.
QueueRefusedRetries(a) == appPc[a] = "queue" /\ UNCHANGED <<device, appPc, i>>

\* A buffer that cannot be queued is left out.
QueueRefusedSkips(a) ==
  /\ UNCHANGED device
  /\ appPc[a] = "queue" /\ UNCHANGED appPc
  /\ i' = i + 1

-----------------------------------------------------------------------------
\* VIDIOC_QUERYCAP to VIDIOC_G_PARM, in the order of the code.
NextIoctl == [querycap |-> "s_fmt", s_fmt |-> "s_parm", s_parm |-> "g_parm",
              g_parm |-> "reqbufs"]

ConfigSteps == DOMAIN NextIoctl \cup {"reqbufs"}

OpeningTypeOK ==
  /\ step \in ConfigSteps \cup {"querybuf", "mmap"}
  /\ \A a \in Apps : /\ appPc[a] = "configure" => step \in ConfigSteps
                     /\ appPc[a] = "map" => step \in {"querybuf", "mmap"}
  /\ i \in Nat
  /\ count \in Granted \cup {BUFFER_NR}
  /\ mBufferArray \in [Buffers -> Pointers]
  /\ overrun \in BOOLEAN

OpeningInit ==
  /\ Init
  /\ step = "querycap"
  /\ i = 0
  /\ count = BUFFER_NR
  /\ mBufferArray = [b \in Buffers |-> "unset"]
  /\ overrun = FALSE

Unmoved == UNCHANGED <<mNativeObject, alive, mFD, mPeekRun, index, first, capPc, fault,
                       misuse>>

Mark(old) == [b \in Buffers |-> IF mBufferArray[b] = "current" THEN old ELSE mBufferArray[b]]

\* open().  A file that cannot be opened changes no pointer.
OpenDevice(a) ==
  /\ OpenCamera(a)
  /\ step' = "querycap"
  /\ mBufferArray' = IF appPc'[a] = "configure" THEN Mark("stale") ELSE mBufferArray
  /\ UNCHANGED <<i, count, overrun>>

\* Every failure goes to exit_tag.
Refused(a, at) == AppStep(a, at, "exit_close") /\ UNCHANGED device

\* The results of these calls are not looked at (S_FMT, S_PARM, G_PARM).
Configure(a) ==
  /\ alive
  /\ appPc[a] = "configure" /\ step # "reqbufs"
  /\ \/ step' = NextIoctl[step] /\ UNCHANGED <<device, appPc>>
     \/ Refused(a, "configure") /\ UNCHANGED step
  /\ Unmoved
  /\ UNCHANGED <<i, count, mBufferArray, overrun>>

\* VIDIOC_REQBUFS of BUFFER_NR buffers: the driver may change the count.
Request(a) ==
  /\ alive
  /\ step = "reqbufs"
  /\ \/ /\ AppStep(a, "configure", "map")
        /\ RequestBuffers(mFD)
        /\ step' = "querybuf"
        /\ i' = 0
        /\ count' \in Granted
     \/ Refused(a, "configure") /\ UNCHANGED <<step, i, count>>
  /\ Unmoved
  /\ UNCHANGED <<mBufferArray, overrun>>

GrantedLeft == i < count
QueueLoop == i < BUFFER_NR

(***************************************************************************)
(* VIDIOC_QUERYBUF, and the length of the buffer.  The struct that follows *)
(* mBufferArray in the object is mPreviewLock and mEncoderLock: a write    *)
(* past the end of the array is where the model stops.                     *)
(***************************************************************************)
Query(a) ==
  /\ alive
  /\ appPc[a] = "map" /\ step = "querybuf"
  /\ GrantedLeft
  /\ \/ /\ step' = "mmap"
        /\ overrun' = (i \notin Buffers)
        /\ UNCHANGED <<device, appPc>>
     \/ Refused(a, "map") /\ UNCHANGED <<step, overrun>>
  /\ Unmoved
  /\ UNCHANGED <<i, count, mBufferArray>>

\* mmap(), whose result is stored before it is compared with MAP_FAILED.
Map(a) ==
  /\ alive
  /\ appPc[a] = "map" /\ step = "mmap"
  /\ \/ /\ MapBuffers(mFD)
        /\ mBufferArray' = [mBufferArray EXCEPT ![i] = "current"]
        /\ step' = "querybuf"
        /\ i' = i + 1
        /\ UNCHANGED appPc
     \/ /\ Refused(a, "map")
        /\ mBufferArray' = [mBufferArray EXCEPT ![i] = "failed"]
        /\ UNCHANGED <<step, i>>
  /\ Unmoved
  /\ UNCHANGED <<count, overrun>>

EndMap(a) ==
  /\ alive
  /\ step = "querybuf"
  /\ ~GrantedLeft
  /\ AppStep(a, "map", "queue")
  /\ i' = 0
  /\ Unmoved
  /\ UNCHANGED <<device, step, count, mBufferArray, overrun>>

\* VIDIOC_QBUF: the driver refuses the index of a buffer it did not grant.
QueueRefused(a) == Refused(a, "queue") /\ UNCHANGED i

Queue(a) ==
  /\ alive
  /\ appPc[a] = "queue"
  /\ QueueLoop
  /\ \/ /\ i < count
        /\ QueueBuffers(mFD, {i})
        /\ i' = i + 1
        /\ UNCHANGED appPc
     \/ QueueRefused(a)
  /\ Unmoved
  /\ UNCHANGED <<step, count, mBufferArray, overrun>>

EndQueue(a) ==
  /\ alive
  /\ ~QueueLoop
  /\ AppStep(a, "queue", "streamon")
  /\ Unmoved
  /\ UNCHANGED <<device, opening>>

OpeningWork(a) ==
  \/ OpenDevice(a) \/ Configure(a) \/ Request(a) \/ Query(a) \/ Map(a) \/ EndMap(a)
  \/ Queue(a) \/ EndQueue(a)

\* What openCamera does not do itself is as in CameraLifecycle.
OtherWork(a) ==
  \/ StreamOnCamera(a) \/ ExitClose(a) \/ ExitReset(a) \/ ReturnFromOpen(a)
  \/ StopCapture(a) \/ ReleaseStop(a) \/ DeleteCamera(a) \/ ClearNativeObject(a)
  \/ AppUseAfterFree(a)

\* The process runs on, and the application is careful.
Goes == fault = "none" /\ ~overrun /\ misuse' = {}

StartWork(a) == OpeningWork(a) \/ (OtherWork(a) /\ UNCHANGED opening)
Elsewhere ==
  /\ (\E a \in Apps : AppCall(a)) \/ (\E t \in Threads : CapWork(t))
  /\ UNCHANGED opening

OpeningNext ==
  \/ Goes /\ ((\E a \in Apps : StartWork(a)) \/ Elsewhere)
  \/ overrun /\ UNCHANGED openingVars   \* the locks are destroyed

OpeningSafety == OpeningInit /\ [][OpeningNext]_openingVars

\* A call that has begun runs to its end, and capture threads are scheduled, as
\* in CameraLifecycle.
OpeningSpec ==
  /\ OpeningSafety
  /\ \A a \in Apps : WF_openingVars(Goes /\ StartWork(a))
  /\ \A t \in Threads : WF_openingVars(Goes /\ CapWork(t) /\ UNCHANGED opening)

-----------------------------------------------------------------------------
(***************************************************************************)
(* Only a driver that grants more than BUFFER_NR buffers makes the mapping *)
(* loop overwrite the locks of the camera: it trusts req.count and not the *)
(* size of mBufferArray (openCamera).                                      *)
(***************************************************************************)
OverrunNeedsGrant == overrun => count > BUFFER_NR

(***************************************************************************)
(* A session draws from its own mappings: all BUFFER_NR pointers come from *)
(* its own opening, whatever earlier openings that failed half way have    *)
(* left in mBufferArray, and the driver really has that many buffers.  So  *)
(* "0 <= buf.index <= 3" of the comment above VIDIOC_DQBUF is safe to use  *)
(* (openCamera, startCapture).                                             *)
(***************************************************************************)
SessionHasItsBuffers ==
  (\E t \in Threads : Looping(t)) =>
    count >= BUFFER_NR /\ \A b \in Buffers : mBufferArray[b] = "current"

(***************************************************************************)
(* start comes back, with a session or without, whatever the driver        *)
(* refuses: no loop of openCamera waits for the device.                    *)
(***************************************************************************)
StartReturns ==
  \A a \in Apps : appPc[a] = "open" ~> (appPc[a] = "idle" \/ overrun \/ fault # "none")

(***************************************************************************)
(* The refinement: to the rest of the system the mappings appear when the  *)
(* mapping loop ends, and the buffers are queued when the queueing loop    *)
(* ends, well or badly.                                                    *)
(***************************************************************************)
mappedBar == mapped /\ ~AnApp({"map"})
queuedBar == IF AnApp({"queue"}) THEN {} ELSE queued

Coarse == INSTANCE CarefulCamera WITH mapped <- mappedBar, queued <- queuedBar

(***************************************************************************)
(* openCamera with its loops is the openCamera of CameraLifecycle, at      *)
(* every count a driver may grant and every call that may fail.            *)
(***************************************************************************)
ImplementsLifecycle == Coarse!CarefulSafety

=============================================================================
