-------------------------- MODULE CameraLifecycle --------------------------
(***************************************************************************)
(* The life of one com.hongdian.usbcamera.Camera object: start, stop and   *)
(* release as application threads call them (Camera.java), the native      *)
(* Camera object behind mNativeObject (com_hongdian_usbcamera_Camera.cpp), *)
(* the capture thread that start spawns, and the video device.             *)
(*                                                                         *)
(* No lock orders these threads: mFD, mPeekRun, mCurBufInfo and the object *)
(* itself are shared as they are.  Each action is the code between two     *)
(* points where another thread can make a difference.                      *)
(*                                                                         *)
(* The application may call anything at any time, from any thread and from *)
(* the notify callbacks (a callback that calls start, stop or release is   *)
(* an application thread acting while the capture thread is at its notify  *)
(* step).  The variable misuse remembers which rules of careful use it has *)
(* broken so far; the properties say what holds as long as it has not.     *)
(***************************************************************************)
EXTENDS V4L2Device, FiniteSets

CONSTANTS
  Apps,      \* application threads
  Threads    \* capture threads that can exist at the same time

ASSUME ThreadsAssumption == Apps \cap Threads = {}

VARIABLES
  mNativeObject,  \* is the Java field mNativeObject set?
  alive,          \* is the native object allocated?
  mFD,
  mPeekRun,
  index,          \* mCurBufInfo.index
  first,          \* capture threads whose local firstCapture is still true
  appPc,
  capPc,
  fault,          \* how the process died: "none", "use_after_free", "bad_fd_set"
  misuse          \* history: the rules of careful use broken so far

vars == <<openFds, owner, mapped, streaming, queued, mNativeObject, alive, mFD,
          mPeekRun, index, first, appPc, capPc, fault, misuse>>

\* Where the native object is dereferenced next, by an application thread ...
TouchingApp == {"open", "configure", "map", "queue", "streamon", "exit_close",
                "exit_reset", "return", "stop", "rel_stop", "rel_delete"}
AppPcs == TouchingApp \cup {"idle", "rel_clear"}

\* ... and by a capture thread.
TouchingCap == {"entry", "loop", "select", "dqbuf", "draw", "qbuf", "stopping",
                "error", "err_reset"}
\* A session is active until startCapture reaches its last notification.
ActiveCap == TouchingCap \cup {"spawned", "notifyFirst"}
CapPcs == ActiveCap \cup {"none", "notifyStop", "notifyError"}

Misuses == {"start_twice", "stop_early", "release_busy", "overlap"}

Active(t) == capPc[t] \in ActiveCap
SomeActive == \E t \in Threads : Active(t)

TypeOK ==
  /\ DeviceTypeOK
  /\ mNativeObject \in BOOLEAN
  /\ alive \in BOOLEAN
  /\ mFD \in Fds \cup {-1}
  /\ mPeekRun \in BOOLEAN
  /\ index \in Buffers
  /\ first \subseteq Threads
  /\ appPc \in [Apps -> AppPcs]
  /\ capPc \in [Threads -> CapPcs]
  /\ fault \in {"none", "use_after_free", "bad_fd_set"}
  /\ misuse \subseteq Misuses

\* After the Java constructor: attachNative has built the native object.
Init ==
  /\ DeviceInit
  /\ mNativeObject = TRUE
  /\ alive = TRUE
  /\ mFD = -1
  /\ mPeekRun = FALSE
  /\ index = 0
  /\ first = {}
  /\ appPc = [a \in Apps |-> "idle"]
  /\ capPc = [t \in Threads |-> "none"]
  /\ fault = "none"
  /\ misuse = {}

AppStep(a, from, to) == appPc[a] = from /\ appPc' = [appPc EXCEPT ![a] = to]
CapStep(t, from, to) == capPc[t] = from /\ capPc' = [capPc EXCEPT ![t] = to]

-----------------------------------------------------------------------------
(***************************************************************************)
(* Slips one could make in this code.  No action uses them; putting one in *)
(* the place of the action it is named after breaks a property below.      *)
(***************************************************************************)

\* "exit_tag" forgets to close the descriptor.
ExitWithoutClose(a) ==
  /\ alive
  /\ AppStep(a, "exit_close", "exit_reset")
  /\ UNCHANGED <<device, mNativeObject, alive, mFD, mPeekRun, index, first, capPc, fault,
                 misuse>>

\* A start of an open camera closes it first and opens it again.
ReopenCamera(a) ==
  /\ alive
  /\ AppStep(a, "open", "configure")
  /\ \E fd \in Fds \ openFds :
       /\ openFds' = (openFds \ {mFD}) \cup {fd}
       /\ mFD' = fd
  /\ IF mFD = owner
     THEN owner' = NoOwner /\ mapped' = FALSE /\ streaming' = FALSE /\ queued' = {}
     ELSE UNCHANGED <<owner, mapped, streaming, queued>>
  /\ UNCHANGED <<mNativeObject, alive, mPeekRun, index, first, capPc, fault, misuse>>

\* The destructor leaves the descriptor to the kernel.
DeleteWithoutClose(a) ==
  /\ alive
  /\ AppStep(a, "rel_delete", "rel_clear")
  /\ alive' = FALSE
  /\ UNCHANGED <<device, mNativeObject, mFD, mPeekRun, index, first, capPc, fault, misuse>>

\* nativeReleaseCamera forgets setCamera(NULL).
KeepNativeObject(a) ==
  /\ AppStep(a, "rel_clear", "idle")
  /\ UNCHANGED <<device, mNativeObject, alive, mFD, mPeekRun, index, first, capPc, fault,
                 misuse>>

\* startCapture leaves mPeekRun to openCamera and returns when it is false.
EnterLoopIfAsked(t) ==
  /\ alive
  /\ CapStep(t, "entry", IF mFD < 0 \/ ~mPeekRun THEN "none" ELSE "loop")
  /\ UNCHANGED <<device, mNativeObject, alive, mFD, mPeekRun, index, first, appPc, fault,
                 misuse>>

\* A DQBUF error continues with the next frame instead of falling through.
DequeueRetries(t) ==
  /\ alive
  /\ CapStep(t, "dqbuf", "loop")
  /\ UNCHANGED device \/ \E b \in Buffers : DequeueBuffer(mFD, b)
  /\ index' = 0
  /\ UNCHANGED <<mNativeObject, alive, mFD, mPeekRun, first, appPc, fault, misuse>>

\* mPeekRun is set when the first frame has been announced.
NotifyFirstSetsPeekRun(t) ==
  /\ CapStep(t, "notifyFirst", "draw")
  /\ first' = first \ {t}
  /\ mPeekRun' = TRUE
  /\ UNCHANGED <<device, mNativeObject, alive, mFD, index, appPc, fault, misuse>>

-----------------------------------------------------------------------------
(***************************************************************************)
(* Calls of the application.  The native method loads mNativeObject; when  *)
(* it is NULL the call returns at once and changes nothing.                *)
(***************************************************************************)

Overlap(a) == IF \E b \in Apps \ {a} : appPc[b] # "idle" THEN {"overlap"} ELSE {}

Call(a, to, broken) ==
  /\ appPc[a] = "idle"
  /\ IF mNativeObject
     THEN /\ appPc' = [appPc EXCEPT ![a] = to]
          /\ misuse' = misuse \cup broken \cup Overlap(a)
     ELSE UNCHANGED <<appPc, misuse>>
  /\ UNCHANGED <<device, mNativeObject, alive, mFD, mPeekRun, index, first,
                 capPc, fault>>

\* Careful use: start only a camera that is closed and has no session.
CallStart(a) ==
  Call(a, "open", IF SomeActive \/ mFD # -1 THEN {"start_twice"} ELSE {})

\* Careful use: no stop before the session is known to run.
CallStop(a) ==
  Call(a, "stop", IF \E t \in Threads : capPc[t] \in {"spawned", "entry"}
                  THEN {"stop_early"} ELSE {})

\* Careful use: no release before the session has reported its end.
CallRelease(a) ==
  Call(a, "rel_stop", IF SomeActive THEN {"release_busy"} ELSE {})

-----------------------------------------------------------------------------
(***************************************************************************)
(* Camera::openCamera, then the tail of Camera.start.                      *)
(***************************************************************************)

OpenCamera(a) ==
  /\ alive
  /\ \/ /\ AppStep(a, "open", "configure")
        /\ \E fd \in Fds : OpenFile(fd) /\ mFD' = fd
     \/ /\ AppStep(a, "open", "idle")
        /\ mFD' = -1
        /\ UNCHANGED device
  /\ UNCHANGED <<mNativeObject, alive, mPeekRun, index, first, capPc, fault, misuse>>

\* An ioctl step of openCamera: on failure it goes to exit_tag.
OpenStep(a, from, to, ioctl, failed) ==
  /\ alive
  /\ \/ AppStep(a, from, to) /\ ioctl
     \/ AppStep(a, from, "exit_close") /\ failed
  /\ UNCHANGED <<mNativeObject, alive, mFD, mPeekRun, index, first, capPc, fault,
                 misuse>>

\* QUERYCAP, S_FMT, S_PARM, G_PARM and REQBUFS.
ConfigureCamera(a) ==
  OpenStep(a, "configure", "map", RequestBuffers(mFD), UNCHANGED device)

\* The QUERYBUF and mmap loop may fail before or after its first mapping.
MapCamera(a) ==
  OpenStep(a, "map", "queue", MapBuffers(mFD), UNCHANGED device \/ MapBuffers(mFD))

\* The QBUF loop fails after k buffers.
QueueCamera(a) ==
  OpenStep(a, "queue", "streamon", QueueBuffers(mFD, Buffers),
           \/ UNCHANGED device
           \/ \E k \in Buffers : QueueBuffers(mFD, 0 .. (k - 1)))

StreamOnCamera(a) ==
  OpenStep(a, "streamon", "return", StreamOn(mFD), UNCHANGED device)

\* exit_tag: close(mFD), then mFD = -1; start returns -1.
ExitClose(a) ==
  /\ alive
  /\ AppStep(a, "exit_close", "exit_reset")
  /\ CloseFile(mFD)
  /\ UNCHANGED <<mNativeObject, alive, mFD, mPeekRun, index, first, capPc, fault, misuse>>

ExitReset(a) ==
  /\ alive
  /\ AppStep(a, "exit_reset", "idle")
  /\ mFD' = -1
  /\ UNCHANGED <<device, mNativeObject, alive, mPeekRun, index, first, capPc, fault,
                 misuse>>

\* "return mFD", its test "> 0", and the capture thread that start spawns.
ReturnFromOpen(a) ==
  /\ alive
  /\ AppStep(a, "return", "idle")
  /\ IF mFD > 0
     THEN \E t \in Threads : CapStep(t, "none", "spawned")
     ELSE UNCHANGED capPc
  /\ UNCHANGED <<device, mNativeObject, alive, mFD, mPeekRun, index, first, fault,
                 misuse>>

-----------------------------------------------------------------------------
(***************************************************************************)
(* stopCapture; and nativeReleaseCamera: stopCapture, delete, setCamera.   *)
(***************************************************************************)

ClearPeekRun(a, from, to) ==
  /\ alive
  /\ AppStep(a, from, to)
  /\ mPeekRun' = FALSE
  /\ UNCHANGED <<device, mNativeObject, alive, mFD, index, first, capPc, fault, misuse>>

StopCapture(a) == ClearPeekRun(a, "stop", "idle")

ReleaseStop(a) == ClearPeekRun(a, "rel_stop", "rel_delete")

\* ~Camera closes mFD only; from here on every use of the object is undefined.
DeleteCamera(a) ==
  /\ alive
  /\ AppStep(a, "rel_delete", "rel_clear")
  /\ IF mFD > 0 THEN CloseFile(mFD) /\ mFD' = -1 ELSE UNCHANGED <<device, mFD>>
  /\ alive' = FALSE
  /\ UNCHANGED <<mNativeObject, mPeekRun, index, first, capPc, fault, misuse>>

ClearNativeObject(a) ==
  /\ AppStep(a, "rel_clear", "idle")
  /\ mNativeObject' = FALSE
  /\ UNCHANGED <<device, alive, mFD, mPeekRun, index, first, capPc, fault, misuse>>

-----------------------------------------------------------------------------
(***************************************************************************)
(* The capture thread: nativeStartCapture and Camera::startCapture.        *)
(***************************************************************************)

RunCapture(t) ==
  /\ CapStep(t, "spawned", IF mNativeObject THEN "entry" ELSE "none")
  /\ UNCHANGED <<device, mNativeObject, alive, mFD, mPeekRun, index, first, appPc,
                 fault, misuse>>

\* A camera that is no longer open ends the thread without a notification.
EnterLoop(t) ==
  /\ alive
  /\ CapStep(t, "entry", IF mFD < 0 THEN "none" ELSE "loop")
  /\ IF mFD < 0
     THEN UNCHANGED <<mPeekRun, first>>
     ELSE mPeekRun' = TRUE /\ first' = first \cup {t}
  /\ UNCHANGED <<device, mNativeObject, alive, mFD, index, appPc, fault, misuse>>

\* "while (mPeekRun)" and FD_SET(mFD); BadFdSet is the case of a negative mFD.
LoopTest(t) ==
  /\ alive
  /\ mPeekRun => mFD >= 0
  /\ CapStep(t, "loop", IF mPeekRun THEN "select" ELSE "stopping")
  /\ UNCHANGED <<device, mNativeObject, alive, mFD, mPeekRun, index, first, appPc,
                 fault, misuse>>

\* select() returns within two seconds: a stop wins, then EINTR, an error or
\* a time-out, or a frame.
SelectReturns(t) ==
  /\ alive
  /\ IF mPeekRun
     THEN \E to \in {"loop", "error", "dqbuf"} : CapStep(t, "select", to)
     ELSE CapStep(t, "select", "stopping")
  /\ UNCHANGED <<device, mNativeObject, alive, mFD, mPeekRun, index, first, appPc,
                 fault, misuse>>

AfterDequeue(t) == IF t \in first THEN "notifyFirst" ELSE "draw"

DequeueFrame(t) ==
  /\ alive
  /\ CapStep(t, "dqbuf", AfterDequeue(t))
  /\ \E b \in Buffers : DequeueBuffer(mFD, b) /\ index' = b
  /\ UNCHANGED <<mNativeObject, alive, mFD, mPeekRun, first, appPc, fault, misuse>>

\* DQBUF fails after the memset of mCurBufInfo: EAGAIN leaves the loop, every
\* other error falls through with index 0 (on EIO the driver may have let go
\* of a buffer all the same).
DequeueFails(t) ==
  /\ alive
  /\ \/ CapStep(t, "dqbuf", "error") /\ UNCHANGED device
     \/ /\ CapStep(t, "dqbuf", AfterDequeue(t))
        /\ UNCHANGED device \/ \E b \in Buffers : DequeueBuffer(mFD, b)
  /\ index' = 0
  /\ UNCHANGED <<mNativeObject, alive, mFD, mPeekRun, first, appPc, fault, misuse>>

\* The clients' onFirstCapture returns.
NotifyFirst(t) ==
  /\ CapStep(t, "notifyFirst", "draw")
  /\ first' = first \ {t}
  /\ UNCHANGED <<device, mNativeObject, alive, mFD, mPeekRun, index, appPc, fault,
                 misuse>>

\* drawPreviewSurface and drawEncoderSurface read the buffer mCurBufInfo names.
DrawFrame(t) ==
  /\ alive
  /\ CapStep(t, "draw", "qbuf")
  /\ UNCHANGED <<device, mNativeObject, alive, mFD, mPeekRun, index, first, appPc,
                 fault, misuse>>

RetrieveBuffer(t) ==
  /\ alive
  /\ \/ CapStep(t, "qbuf", "loop") /\ QueueBuffers(mFD, {index})
     \/ CapStep(t, "qbuf", "error") /\ UNCHANGED device
  /\ UNCHANGED <<mNativeObject, alive, mFD, mPeekRun, index, first, appPc, fault, misuse>>

LeaveLoop(t) ==
  /\ alive
  /\ CapStep(t, "stopping", "notifyStop")
  /\ mPeekRun' = FALSE
  /\ first' = first \ {t}
  /\ UNCHANGED <<device, mNativeObject, alive, mFD, index, appPc, fault, misuse>>

\* CAMERA_ERR: close(mFD), then mFD = -1.
ErrorClose(t) ==
  /\ alive
  /\ CapStep(t, "error", "err_reset")
  /\ CloseFile(mFD)
  /\ UNCHANGED <<mNativeObject, alive, mFD, mPeekRun, index, first, appPc, fault, misuse>>

ErrorReset(t) ==
  /\ alive
  /\ CapStep(t, "err_reset", "notifyError")
  /\ mFD' = -1
  /\ first' = first \ {t}
  /\ UNCHANGED <<device, mNativeObject, alive, mPeekRun, index, appPc, fault, misuse>>

\* onCaptureStop or onCameraError returns and the thread ends.
NotifyEnd(t) ==
  /\ \E from \in {"notifyStop", "notifyError"} : CapStep(t, from, "none")
  /\ UNCHANGED <<device, mNativeObject, alive, mFD, mPeekRun, index, first, appPc,
                 fault, misuse>>

-----------------------------------------------------------------------------
(***************************************************************************)
(* Undefined behaviour ends the process in the model: a dereference of the *)
(* deleted object, and FD_SET of a negative descriptor.                    *)
(***************************************************************************)

Die(how) ==
  /\ fault' = how
  /\ UNCHANGED <<device, mNativeObject, alive, mFD, mPeekRun, index, first, appPc,
                 capPc, misuse>>

AppUseAfterFree(a) ==
  ~alive /\ appPc[a] \in TouchingApp /\ Die("use_after_free")

CapUseAfterFree(t) ==
  ~alive /\ capPc[t] \in TouchingCap /\ Die("use_after_free")

BadFdSet(t) ==
  alive /\ mPeekRun /\ mFD < 0 /\ capPc[t] = "loop" /\ Die("bad_fd_set")

AppCall(a) == CallStart(a) \/ CallStop(a) \/ CallRelease(a)

AppWork(a) ==
  \/ OpenCamera(a) \/ ConfigureCamera(a) \/ MapCamera(a) \/ QueueCamera(a)
  \/ StreamOnCamera(a) \/ ExitClose(a) \/ ExitReset(a) \/ ReturnFromOpen(a)
  \/ StopCapture(a) \/ ReleaseStop(a) \/ DeleteCamera(a) \/ ClearNativeObject(a)
  \/ AppUseAfterFree(a)

CapWork(t) ==
  \/ RunCapture(t) \/ EnterLoop(t) \/ LoopTest(t) \/ SelectReturns(t)
  \/ DequeueFrame(t) \/ DequeueFails(t) \/ NotifyFirst(t) \/ DrawFrame(t)
  \/ RetrieveBuffer(t) \/ LeaveLoop(t) \/ ErrorClose(t) \/ ErrorReset(t)
  \/ NotifyEnd(t) \/ CapUseAfterFree(t) \/ BadFdSet(t)

Next ==
  \/ /\ fault = "none"
     /\ \/ \E a \in Apps : AppCall(a) \/ AppWork(a)
        \/ \E t \in Threads : CapWork(t)
  \/ fault # "none" /\ UNCHANGED vars   \* the process is gone

(***************************************************************************)
(* A call that has begun runs to its end, and a capture thread is          *)
(* scheduled: select() has a two second time-out.  That callbacks return   *)
(* and that windows accept a frame is assumed here (NotifyFirst,           *)
(* DrawFrame).  Nothing obliges the application to make a call.            *)
(***************************************************************************)
Fairness ==
  /\ \A a \in Apps : WF_vars(AppWork(a) /\ fault = "none")
  /\ \A t \in Threads : WF_vars(CapWork(t) /\ fault = "none")

Spec == Init /\ [][Next]_vars /\ Fairness

-----------------------------------------------------------------------------
\* Capture threads inside the capture loop, where mFD and mCurBufInfo are used.
Looping(t) == capPc[t] \in {"loop", "select", "dqbuf", "notifyFirst", "draw", "qbuf"}

(***************************************************************************)
(* Careful use is enough: the native object is used after its delete only  *)
(* when release was called during a session or calls overlapped, and       *)
(* FD_SET sees a negative descriptor only when a camera was started twice  *)
(* or calls overlapped.  (startCapture, nativeReleaseCamera, openCamera.)  *)
(***************************************************************************)
FaultNeedsMisuse ==
  /\ fault = "use_after_free" => misuse \cap {"release_busy", "overlap"} # {}
  /\ fault = "bad_fd_set" => misuse \cap {"start_twice", "overlap"} # {}

(***************************************************************************)
(* No descriptor is lost: every descriptor this process has open is the    *)
(* one in mFD, which stop-then-release or an error will close, unless the  *)
(* camera was started twice or calls overlapped (openCamera overwrites mFD *)
(* without closing it).                                                    *)
(***************************************************************************)
NoLostDescriptor ==
  openFds \subseteq {mFD} \/ misuse \cap {"start_twice", "overlap"} # {}

(***************************************************************************)
(* The device's buffers come back: whenever a capture thread is about to   *)
(* wait for a frame on the owner's descriptor, all BUFFER_NR buffers are   *)
(* queued, also after DQBUF and QBUF errors, and even after a second start *)
(* (startCapture, "Retrieve").                                             *)
(***************************************************************************)
AllQueuedWhenPolling ==
  \A t \in Threads :
    capPc[t] \in {"loop", "select"} /\ mFD = owner /\ "overlap" \notin misuse
      => streaming /\ queued = Buffers

(***************************************************************************)
(* mCurBufInfo, mYuv420sp and mRGBA8888 have no lock of their own: they    *)
(* are safe because at most one thread is inside the capture loop, however *)
(* often start is called from one thread at a time.                        *)
(***************************************************************************)
SingleCapturer ==
  "overlap" \notin misuse => \A s, t \in Threads : Looping(s) /\ Looping(t) => s = t

(***************************************************************************)
(* A start that returned 0 is answered: its thread ends with onCaptureStop *)
(* or onCameraError, and the silent returns (mNativeObject NULL, "camera   *)
(* not open, open first") need a broken rule of use.                       *)
(***************************************************************************)
NoSilentEnd ==
  [][\A t \in Threads :
       capPc[t] \in {"spawned", "entry"} /\ capPc'[t] = "none"
         => misuse \cap {"start_twice", "release_busy", "overlap"} # {}]_vars

(***************************************************************************)
(* "Reopening is reqired" says the log when select fails or times out: so  *)
(* when onCameraError reaches a careful application, the device must be    *)
(* free for a new start (CAMERA_ERR).                                      *)
(***************************************************************************)
ErrorFreesDevice ==
  (\E t \in Threads : capPc[t] = "notifyError") /\ misuse = {} /\ openFds = {}
    => owner = NoOwner

(***************************************************************************)
(* "this operator below will change buf.index", says the comment above     *)
(* VIDIOC_DQBUF: the buffer that is drawn is one the ioctl handed over,    *)
(* not one the driver still owns (startCapture).                           *)
(***************************************************************************)
DrawsDequeuedBuffer ==
  \A t \in Threads : capPc[t] = "draw" /\ misuse = {} => index \notin queued

(***************************************************************************)
(* stop works: a session that is active when mPeekRun is cleared ends,     *)
(* unless a stop came before the capture thread had set mPeekRun (it is    *)
(* then overwritten and lost), or calls overlapped.  select() looks at     *)
(* mPeekRun before anything else, at least every two seconds.              *)
(***************************************************************************)
StopEndsSession ==
  \A a \in Apps, t \in Threads :
    (appPc[a] = "stop" /\ Active(t))
      ~> (~Active(t) \/ misuse \cap {"stop_early", "overlap"} # {} \/ fault # "none")

=============================================================================
