---------------------------- MODULE DrawTargets -----------------------------
(***************************************************************************)
(* Where a frame goes: the preview window in mPreviewSurface and the       *)
(* encoder windows in mEncoderSurfaces (com_hongdian_usbcamera_Camera.cpp).*)
(*                                                                         *)
(* The capture thread draws every frame into them, while application       *)
(* threads set, add and remove them.  mPreviewLock and mEncoderLock order  *)
(* the two sides, but drawPreviewSurface copies mPreviewSurface before it  *)
(* takes the lock, and both draw functions keep their lock while they wait *)
(* for a free buffer of a window.                                          *)
(*                                                                         *)
(* A window lives as long as somebody holds a strong pointer (sp) to it.   *)
(* There is one capture thread: CameraLifecycle says when that is so.      *)
(***************************************************************************)
EXTENDS Naturals, Sequences

CONSTANTS
  Callers,     \* application threads
  Windows,
  NoWindow,    \* a NULL surface
  Drained,     \* the windows whose consumer keeps taking the posted buffers
  Slots,       \* buffers a window accepts before its consumer must take one
  ListBound    \* bound of the model: encoder windows attached at a time

ASSUME WindowsAssumption == NoWindow \notin Windows /\ Drained \subseteq Windows
ASSUME CallersAssumption == Callers \cap {"free", "capture"} = {}
ASSUME SlotsAssumption == Slots \in Nat \ {0}

VARIABLES
  mPreviewSurface,
  mEncoderSurfaces,
  previewLock,   \* mPreviewLock and mEncoderLock: "free", "capture" or a caller
  encoderLock,
  mYuv420sp,     \* are the staging buffers allocated?
  mRGBA8888,
  callPc,
  callArg,       \* the surface a call is about, to which it holds a pointer
  capPc,
  nativeWindow,  \* the capture thread's local copy of mPreviewSurface
  next,          \* position of drawEncoderSurface in mEncoderSurfaces
  posted,        \* buffers posted to a window and not yet taken
  dropped,       \* windows the application holds no pointer to any more
  abandoned,     \* windows whose consumer is gone: dequeueBuffer fails
  fault,         \* how the process died: "none", "use_after_free", "null_window"
  raced          \* history: mPreviewSurface was assigned since its last unlocked copy

targets == <<mPreviewSurface, mEncoderSurfaces, previewLock, encoderLock>>
capture == <<capPc, nativeWindow, next, mYuv420sp, mRGBA8888>>
calls   == <<callPc, callArg>>
world   == <<posted, dropped, abandoned>>
vars    == <<targets, capture, calls, world, fault, raced>>

CallPcs == {"idle", "set_lock", "set_store", "add_lock", "remove_lock"}
CapPcs  == {"frame", "pv_inc", "pv_lock", "pv_draw", "encoders", "enc_draw"}
Owners  == {"free", "capture"} \cup Callers

Attached == {mEncoderSurfaces[i] : i \in DOMAIN mEncoderSurfaces}

TypeOK ==
  /\ mPreviewSurface \in Windows \cup {NoWindow}
  /\ mEncoderSurfaces \in Seq(Windows)
  /\ previewLock \in Owners
  /\ encoderLock \in Owners
  /\ mYuv420sp \in BOOLEAN
  /\ mRGBA8888 \in BOOLEAN
  /\ callPc \in [Callers -> CallPcs]
  /\ callArg \in [Callers -> Windows \cup {NoWindow}]
  /\ capPc \in CapPcs
  /\ nativeWindow \in Windows \cup {NoWindow}
  /\ next \in 1 .. Len(mEncoderSurfaces) + 1
  /\ posted \in [Windows -> 0 .. Slots]
  /\ dropped \subseteq Windows
  /\ abandoned \subseteq Windows
  /\ fault \in {"none", "use_after_free", "null_window"}
  /\ raced \in BOOLEAN

\* A running session without windows.
Init ==
  /\ mPreviewSurface = NoWindow
  /\ mEncoderSurfaces = <<>>
  /\ previewLock = "free"
  /\ encoderLock = "free"
  /\ mYuv420sp = FALSE
  /\ mRGBA8888 = FALSE
  /\ callPc = [c \in Callers |-> "idle"]
  /\ callArg = [c \in Callers |-> NoWindow]
  /\ capPc = "frame"
  /\ nativeWindow = NoWindow
  /\ next = 1
  /\ posted = [w \in Windows |-> 0]
  /\ dropped = {}
  /\ abandoned = {}
  /\ fault = "none"
  /\ raced = FALSE

(***************************************************************************)
(* Who holds a strong pointer to w: the application's Surface object, the  *)
(* encoder list, a call with that argument, the capture thread's copy, and *)
(* mPreviewSurface.  In the middle of sp's operator= mPreviewSurface still *)
(* points to the old window but has given its reference back.              *)
(***************************************************************************)
Assigning == \E c \in Callers : callPc[c] = "set_store"

Referenced(w) ==
  \/ w \notin dropped
  \/ w \in Attached
  \/ w = mPreviewSurface /\ ~Assigning
  \/ \E c \in Callers : callPc[c] # "idle" /\ callArg[c] = w
  \/ capPc \in {"pv_lock", "pv_draw"} /\ nativeWindow = w

-----------------------------------------------------------------------------
(***************************************************************************)
(* Slips one could make in this code.  No action uses them; putting one in *)
(* the place of the action it is named after breaks a property below.      *)
(***************************************************************************)

\* removeEncoderSurface sets the removed element to NULL.
RemoveLeavesNull(c) ==
  /\ callPc[c] = "remove_lock"
  /\ encoderLock = "free"
  /\ mEncoderSurfaces' = [i \in DOMAIN mEncoderSurfaces |->
       IF mEncoderSurfaces[i] = callArg[c] THEN NoWindow ELSE mEncoderSurfaces[i]]
  /\ callPc' = [callPc EXCEPT ![c] = "idle"]
  /\ callArg' = [callArg EXCEPT ![c] = NoWindow]
  /\ UNCHANGED <<mPreviewSurface, previewLock, encoderLock, capture, world, fault, raced>>

\* addEncoderSurface without mEncoderLock.
PushWithoutLock(c) ==
  /\ callPc[c] = "add_lock"
  /\ mEncoderSurfaces' = Append(mEncoderSurfaces, callArg[c])
  /\ callPc' = [callPc EXCEPT ![c] = "idle"]
  /\ callArg' = [callArg EXCEPT ![c] = NoWindow]
  /\ UNCHANGED <<mPreviewSurface, previewLock, encoderLock, capture, world, fault, raced>>

\* drawPreviewSurface without the test for NULL.
LockPreviewUntested ==
  /\ capPc = "pv_lock"
  /\ previewLock = "free"
  /\ capPc' = "pv_draw"
  /\ mYuv420sp' = TRUE
  /\ previewLock' = "capture"
  /\ UNCHANGED <<mPreviewSurface, mEncoderSurfaces, encoderLock, calls, world, nativeWindow,
                 next, mRGBA8888, fault, raced>>

\* drawPreviewSurface releases the lock right after the test for NULL.
LockPreviewBriefly ==
  /\ capPc = "pv_lock"
  /\ previewLock = "free"
  /\ capPc' = IF mPreviewSurface = NoWindow THEN "encoders" ELSE "pv_draw"
  /\ mYuv420sp' = (mPreviewSurface # NoWindow)
  /\ UNCHANGED <<targets, calls, world, nativeWindow, next, mRGBA8888, fault, raced>>

\* "no preview windows!" returns without unlocking.
LockPreviewForgets ==
  /\ capPc = "pv_lock"
  /\ previewLock = "free"
  /\ previewLock' = "capture"
  /\ capPc' = IF mPreviewSurface = NoWindow THEN "encoders" ELSE "pv_draw"
  /\ mYuv420sp' = (mPreviewSurface # NoWindow)
  /\ UNCHANGED <<mPreviewSurface, mEncoderSurfaces, encoderLock, calls, world, nativeWindow,
                 next, mRGBA8888, fault, raced>>

\* The error return of dequeueBuffer does not unlock.
DrawPreviewForgets ==
  /\ capPc = "pv_draw"
  /\ nativeWindow # NoWindow
  /\ \/ /\ posted[nativeWindow] < Slots
        /\ posted' = [posted EXCEPT ![nativeWindow] = @ + 1]
        /\ previewLock' = "free"
     \/ nativeWindow \in abandoned /\ UNCHANGED <<posted, previewLock>>
  /\ capPc' = "encoders"
  /\ nativeWindow' = NoWindow
  /\ UNCHANGED <<mPreviewSurface, mEncoderSurfaces, encoderLock, calls, next, mYuv420sp,
                 mRGBA8888, dropped, abandoned, fault, raced>>

-----------------------------------------------------------------------------
(***************************************************************************)
(* setPreviewSurface, addEncoderSurface and removeEncoderSurface.  A call  *)
(* with an invalid surface returns at once and changes nothing; so do the  *)
(* encoder calls with a NULL one.                                          *)
(***************************************************************************)
\* The call returns and gives up its pointer.
Return(c) ==
  /\ callPc' = [callPc EXCEPT ![c] = "idle"]
  /\ callArg' = [callArg EXCEPT ![c] = NoWindow]

Call(c, to, w) ==
  /\ callPc[c] = "idle"
  /\ callPc' = [callPc EXCEPT ![c] = to]
  /\ callArg' = [callArg EXCEPT ![c] = w]
  /\ UNCHANGED <<targets, capture, world, fault, raced>>

CallSetPreview(c) == \E w \in (Windows \ dropped) \cup {NoWindow} : Call(c, "set_lock", w)

CallAddEncoder(c) ==
  /\ Len(mEncoderSurfaces) < ListBound
  /\ \E w \in Windows \ dropped : Call(c, "add_lock", w)

CallRemoveEncoder(c) == \E w \in Windows \ dropped : Call(c, "remove_lock", w)

\* The lock is taken and sp's operator= gives up the old window ...
DropOldPreview(c) ==
  /\ callPc[c] = "set_lock"
  /\ previewLock = "free"
  /\ previewLock' = c
  /\ callPc' = [callPc EXCEPT ![c] = "set_store"]
  /\ raced' = (raced \/ capPc \in {"pv_inc", "pv_lock"})
  /\ UNCHANGED <<mPreviewSurface, mEncoderSurfaces, encoderLock, callArg, capture, world,
                 fault>>

\* ... stores the new pointer, and the lock is released.
StorePreview(c) ==
  /\ callPc[c] = "set_store"
  /\ mPreviewSurface' = callArg[c]
  /\ previewLock' = "free"
  /\ Return(c)
  /\ raced' = (raced \/ capPc \in {"pv_inc", "pv_lock"})
  /\ UNCHANGED <<mEncoderSurfaces, encoderLock, capture, world, fault>>

\* mEncoderSurfaces is touched under its lock only, so the locked section of
\* an encoder call is one step.
PushEncoder(c) ==
  /\ callPc[c] = "add_lock"
  /\ encoderLock = "free"
  /\ mEncoderSurfaces' = Append(mEncoderSurfaces, callArg[c])
  /\ Return(c)
  /\ UNCHANGED <<mPreviewSurface, previewLock, encoderLock, capture, world, fault,
                 raced>>

\* std::list::remove takes out every element that is equal to w.
Without(list, w) ==
  LET left[i \in 0 .. Len(list)] ==
        IF i = 0 THEN <<>>
        ELSE IF list[i] = w THEN left[i - 1] ELSE Append(left[i - 1], list[i])
  IN  left[Len(list)]

RemoveEncoder(c) ==
  /\ callPc[c] = "remove_lock"
  /\ encoderLock = "free"
  /\ mEncoderSurfaces' = Without(mEncoderSurfaces, callArg[c])
  /\ Return(c)
  /\ UNCHANGED <<mPreviewSurface, previewLock, encoderLock, capture, world, fault, raced>>

-----------------------------------------------------------------------------
(***************************************************************************)
(* drawPreviewSurface.  "sp<ANativeWindow> nativeWindow = mPreviewSurface" *)
(* comes before the lock: it reads the pointer, then takes a reference.    *)
(***************************************************************************)
LoadPreview ==
  /\ capPc = "frame"
  /\ capPc' = "pv_inc"
  /\ nativeWindow' = mPreviewSurface
  /\ raced' = Assigning
  /\ UNCHANGED <<targets, calls, world, next, mYuv420sp, mRGBA8888, fault>>

IncStrong ==
  /\ capPc = "pv_inc"
  /\ IF nativeWindow = NoWindow \/ Referenced(nativeWindow)
     THEN capPc' = "pv_lock" /\ UNCHANGED fault
     ELSE fault' = "use_after_free" /\ UNCHANGED capPc
  /\ UNCHANGED <<targets, calls, world, nativeWindow, next, mYuv420sp, mRGBA8888, raced>>

\* Without a preview window the staging buffer goes, else it is filled.
LockPreview ==
  /\ capPc = "pv_lock"
  /\ previewLock = "free"
  /\ IF mPreviewSurface = NoWindow
     THEN /\ capPc' = "encoders"
          /\ mYuv420sp' = FALSE
          /\ nativeWindow' = NoWindow
          /\ UNCHANGED previewLock
     ELSE /\ capPc' = "pv_draw"
          /\ mYuv420sp' = TRUE
          /\ previewLock' = "capture"
          /\ UNCHANGED nativeWindow
  /\ UNCHANGED <<mPreviewSurface, mEncoderSurfaces, encoderLock, calls, world, next,
                 mRGBA8888, fault, raced>>

(***************************************************************************)
(* A window takes a frame when one of its buffers is free, and refuses it  *)
(* when it has been abandoned; until either is so, the call waits.         *)
(***************************************************************************)
TakesFrame(w) ==
  \/ posted[w] < Slots /\ posted' = [posted EXCEPT ![w] = @ + 1]
  \/ (posted[w] < Slots \/ w \in abandoned) /\ UNCHANGED posted

\* native_window_* calls, dequeue, copy and queue, on the copy made above.
DrawPreview ==
  /\ capPc = "pv_draw"
  /\ nativeWindow # NoWindow
  /\ TakesFrame(nativeWindow)
  /\ capPc' = "encoders"
  /\ previewLock' = "free"
  /\ nativeWindow' = NoWindow
  /\ UNCHANGED <<mPreviewSurface, mEncoderSurfaces, encoderLock, calls, next, mYuv420sp,
                 mRGBA8888, dropped, abandoned, fault, raced>>

NullWindow ==
  /\ capPc = "pv_draw"
  /\ nativeWindow = NoWindow
  /\ fault' = "null_window"
  /\ UNCHANGED <<targets, capture, calls, world, raced>>

-----------------------------------------------------------------------------
(***************************************************************************)
(* drawEncoderSurface.                                                     *)
(***************************************************************************)
LockEncoders ==
  /\ capPc = "encoders"
  /\ encoderLock = "free"
  /\ IF mEncoderSurfaces = <<>>
     THEN /\ capPc' = "frame"
          /\ mRGBA8888' = FALSE
          /\ UNCHANGED encoderLock
     ELSE /\ capPc' = "enc_draw"
          /\ mRGBA8888' = TRUE
          /\ encoderLock' = "capture"
  /\ next' = 1
  /\ UNCHANGED <<mPreviewSurface, mEncoderSurfaces, previewLock, calls, world, nativeWindow,
                 mYuv420sp, fault, raced>>

\* ANativeWindow_lock, copy and unlockAndPost of one window of the list.
DrawEncoder ==
  /\ capPc = "enc_draw"
  /\ next <= Len(mEncoderSurfaces)
  /\ TakesFrame(mEncoderSurfaces[next])
  /\ next' = next + 1
  /\ UNCHANGED <<targets, calls, capPc, nativeWindow, mYuv420sp, mRGBA8888, dropped, abandoned,
                 fault, raced>>

UnlockEncoders ==
  /\ capPc = "enc_draw"
  /\ next > Len(mEncoderSurfaces)
  /\ capPc' = "frame"
  /\ encoderLock' = "free"
  /\ next' = 1
  /\ UNCHANGED <<mPreviewSurface, mEncoderSurfaces, previewLock, calls, world, nativeWindow,
                 mYuv420sp, mRGBA8888, fault, raced>>

-----------------------------------------------------------------------------
\* The other ends of the windows, outside this program.
Drain(w) ==
  /\ posted[w] > 0
  /\ posted' = [posted EXCEPT ![w] = @ - 1]
  /\ UNCHANGED <<targets, capture, calls, dropped, abandoned, fault, raced>>

Abandon(w) ==
  /\ abandoned' = abandoned \cup {w}
  /\ UNCHANGED <<targets, capture, calls, posted, dropped, fault, raced>>

\* Surface.release, or the garbage collector.
Drop(w) ==
  /\ dropped' = dropped \cup {w}
  /\ UNCHANGED <<targets, capture, calls, posted, abandoned, fault, raced>>

CallWork(c) == DropOldPreview(c) \/ StorePreview(c) \/ PushEncoder(c) \/ RemoveEncoder(c)

CaptureWork ==
  \/ LoadPreview \/ IncStrong \/ LockPreview \/ DrawPreview \/ NullWindow
  \/ LockEncoders \/ DrawEncoder \/ UnlockEncoders

Next ==
  \/ /\ fault = "none"
     /\ \/ CaptureWork
        \/ \E c \in Callers :
             CallSetPreview(c) \/ CallAddEncoder(c) \/ CallRemoveEncoder(c) \/ CallWork(c)
        \/ \E w \in Drained : Drain(w)
        \/ \E w \in Windows : Abandon(w) \/ Drop(w)
  \/ fault # "none" /\ UNCHANGED vars   \* the process is gone

(***************************************************************************)
(* A thread that can run does; the consumers of the Drained windows take   *)
(* what is posted; and a mutex that is free again and again is granted:    *)
(* between two frames the capture thread sleeps in select with both locks  *)
(* free, long enough for a waiting thread to get them.                     *)
(***************************************************************************)
Fairness ==
  /\ SF_vars(CaptureWork /\ fault = "none")
  /\ \A c \in Callers : SF_vars(CallWork(c) /\ fault = "none")
  /\ \A w \in Drained : WF_vars(Drain(w) /\ fault = "none")

Spec == Init /\ [][Next]_vars /\ Fairness

-----------------------------------------------------------------------------
(***************************************************************************)
(* drawPreviewSurface uses a freed or a NULL window only when              *)
(* setPreviewSurface ran between its unlocked copy of mPreviewSurface and  *)
(* its use of the copy: the lock, taken in between, does not exclude that. *)
(***************************************************************************)
FaultNeedsRace == fault # "none" => raced

(***************************************************************************)
(* The window that gets the preview frame is the one that is set at that   *)
(* moment, under the same condition; else a window that was replaced, and  *)
(* that its owner may think detached, gets one more frame.                 *)
(***************************************************************************)
PreviewDrawsCurrent ==
  capPc = "pv_draw" /\ ~raced => nativeWindow = mPreviewSurface

(***************************************************************************)
(* drawEncoderSurface walks a std::list with an iterator: no call changes  *)
(* the list while it does, although the walk may wait in every window.     *)
(***************************************************************************)
EncodersFixedWhileDrawn ==
  [][capPc = "enc_draw" => UNCHANGED mEncoderSurfaces]_vars

\* The capture thread waits for a buffer of w that nobody is going to free.
StuckOn(w) ==
  /\ \/ capPc = "pv_draw" /\ nativeWindow = w
     \/ /\ capPc = "enc_draw"
        /\ next <= Len(mEncoderSurfaces)
        /\ mEncoderSurfaces[next] = w
  /\ posted[w] = Slots
  /\ w \notin abandoned \cup Drained

Stuck == \E w \in Windows : StuckOn(w)

(***************************************************************************)
(* setPreviewSurface, addEncoderSurface and removeEncoderSurface return,   *)
(* unless the capture thread holds the lock they need while it waits for a *)
(* window that nobody drains.                                              *)
(***************************************************************************)
CallsReturn ==
  \A c \in Callers : callPc[c] # "idle" ~> (callPc[c] = "idle" \/ Stuck \/ fault # "none")

(***************************************************************************)
(* startCapture goes on to the next frame, with the same exception: one    *)
(* window that nobody drains stops the preview and every encoder.          *)
(***************************************************************************)
FramesGoOn == capPc # "frame" ~> (capPc = "frame" \/ Stuck \/ fault # "none")

=============================================================================
