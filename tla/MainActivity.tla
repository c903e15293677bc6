---------------------------- MODULE MainActivity -----------------------------
(***************************************************************************)
(* The application around the camera (MainActivity.java): an activity that *)
(* previews the camera in its SurfaceView and records it through a         *)
(* MediaCodec into the file "1.h264".                                      *)
(*                                                                         *)
(* Android re-creates the activity (a rotation, a new launch) in the same  *)
(* process, and may kill the process and start it again.  Nothing in an    *)
(* activity stops or releases its camera, its encoder or its drain thread: *)
(* those of earlier activities live on until the process dies.             *)
(*                                                                         *)
(* Four kinds of threads meet here: the UI thread, and for each activity   *)
(* the capture thread of its Camera, the codec, and the drain thread that  *)
(* writes what the codec has encoded.  The camera is taken as coarsely as  *)
(* CameraLifecycle and DrawTargets, which model it, allow.                 *)
(***************************************************************************)
EXTENDS Naturals

CONSTANTS
  MaxActivity,      \* bound of the model: activities created
  MaxSurface,       \* bound of the model: surfaces created, in all activities
  Slots,            \* buffers of an encoder, on its input and on its output side
  MappingPinsFile   \* as in V4L2Device

ASSUME BoundsAssumption ==
  MaxActivity \in Nat /\ MaxSurface \in Nat /\ Slots \in Nat \ {0}
ASSUME PinAssumption == MappingPinsFile \in BOOLEAN

VARIABLES
  current,   \* the latest activity, 0 before the first
  uiPc,
  surface,   \* the surface of its SurfaceView, 0 when there is none
  surfaces,  \* surfaces created so far
  holder,    \* who holds mClientLock of an activity's camera
  capPc,
  first,     \* capture threads whose local firstCapture is still true
  window,    \* the local nativeWindow of drawPreviewSurface
  preview,   \* mPreviewSurface, 0 for NULL
  codec,     \* mEncoder
  input,     \* frames in the codec's input surface
  output,    \* encoded frames the codec holds
  fos,       \* the FileOutputStream of the drain thread; on a "failing" one
             \* write throws an IOException
  draining,  \* activities with a drain thread
  owner,     \* the activity whose camera has the device's buffers, or 0
  file       \* the activities whose frames are in "1.h264"

ui      == <<current, uiPc, surface, surfaces>>
capture == <<capPc, first, window>>
record  == <<codec, input, output, fos, draining>>
vars    == <<ui, holder, capture, preview, record, owner, file>>

Activities == 1 .. MaxActivity

UiPcs == {"idle", "add_encoder", "start", "add_preview", "set_preview", "remove_preview",
          "clear_preview"}
Callback == {"start_codec", "open_file", "spawn_drain"}
CapPcs == Callback \cup {"none", "select", "notify", "read_window", "lock_window", "draw_preview",
                         "encode", "qbuf", "error", "notify_error"}

TypeOK ==
  /\ current \in Activities \cup {0}
  /\ uiPc \in UiPcs
  /\ surface \in 0 .. surfaces /\ surfaces \in 0 .. MaxSurface
  /\ holder \in [Activities -> {"nobody", "ui", "capture"}]
  /\ capPc \in [Activities -> CapPcs]
  /\ first \subseteq Activities
  /\ window \in [Activities -> 0 .. surfaces]
  /\ preview \in [Activities -> 0 .. surfaces]
  /\ codec \in [Activities -> {"none", "null", "configured", "attached", "executing"}]
  /\ input \in [Activities -> 0 .. Slots]
  /\ output \in [Activities -> 0 .. Slots]
  /\ fos \in [Activities -> {"none", "null", "open", "failing"}]
  /\ draining \subseteq {a \in Activities : fos[a] # "none"}
  /\ owner \in Activities \cup {0}
  /\ file \subseteq Activities

All(v) == [a \in Activities |-> v]

Init ==
  /\ current = 0 /\ uiPc = "idle" /\ surface = 0 /\ surfaces = 0
  /\ holder = All("nobody")
  /\ capPc = All("none") /\ first = {} /\ window = All(0)
  /\ preview = All(0)
  /\ codec = All("none") /\ input = All(0) /\ output = All(0)
  /\ fos = All("none") /\ draining = {}
  /\ owner = 0
  /\ file = {}

\* The process dies: of its state only the file is left.  The kernel closes
\* the device and takes the mappings away.
Die ==
  /\ uiPc' = "idle" /\ surface' = 0
  /\ holder' = All("nobody")
  /\ capPc' = All("none") /\ first' = {} /\ window' = All(0)
  /\ preview' = All(0)
  /\ codec' = All("none") /\ input' = All(0) /\ output' = All(0)
  /\ fos' = All("none") /\ draining' = {}
  /\ owner' = 0
  /\ UNCHANGED <<current, surfaces, file>>

-----------------------------------------------------------------------------
(***************************************************************************)
(* Slips one could make in this code.  No action uses them.                *)
(***************************************************************************)

\* onCreate starts the camera and adds the encoder afterwards.
AfterCallStartFirst == [create |-> "start", start |-> "add_encoder", add_encoder |-> "idle"]

\* setPreview does not take mPreviewLock.
PreviewFreeAlways(a) == TRUE

\* A failing REQBUFS does not stop openCamera.
DeviceFreeUnchecked == TRUE

\* onFirstCapture leaves the draining to somebody else.
NoDrain(a) ==
  /\ capPc[a] = "spawn_drain"
  /\ capPc' = [capPc EXCEPT ![a] = "read_window"]
  /\ holder' = [holder EXCEPT ![a] = "nobody"]
  /\ first' = first \ {a}
  /\ UNCHANGED <<ui, window, preview, record, owner, file>>

\* drawEncoderSurface takes a buffer without waiting for a free one.
RoomAlways(a) == TRUE

\* The drain thread takes the encoded data but does not give the buffer back.
OutputKept(a) ==
  /\ a \in draining /\ output[a] > 0
  /\ fos[a] = "open"
  /\ file' = file \cup {a}
  /\ UNCHANGED <<ui, holder, capture, preview, record, owner>>

-----------------------------------------------------------------------------
\* The order of onCreate.
AfterCall == [create |-> "add_encoder", add_encoder |-> "start", start |-> "idle"]

(***************************************************************************)
(* onCreate: the camera, and an encoder, or none after an IOException.  An *)
(* activity is created when the one before has lost its surface.           *)
(***************************************************************************)
OnCreate ==
  /\ uiPc = "idle" /\ surface = 0
  /\ current + 1 \in Activities
  /\ current' = current + 1
  /\ uiPc' = AfterCall["create"]
  /\ \E c \in {"configured", "null"} : codec' = [codec EXCEPT ![current + 1] = c]
  /\ UNCHANGED <<surface, surfaces, holder, capture, preview, input, output, fos, draining, owner,
                 file>>

\* addClient of the encoder, whose getSurface creates the input surface.
AddEncoder ==
  /\ uiPc = "add_encoder" /\ codec[current] = "configured"
  /\ holder[current] = "nobody"
  /\ uiPc' = AfterCall["add_encoder"]
  /\ codec' = [codec EXCEPT ![current] = "attached"]
  /\ UNCHANGED <<current, surface, surfaces, holder, capture, preview, input, output, fos,
                 draining, owner, file>>

\* Without an encoder getSurface throws, and the process dies.
AddNoEncoder == uiPc = "add_encoder" /\ codec[current] = "null" /\ Die

DeviceFree == owner = 0

\* start(), whose result nobody looks at.
Start ==
  /\ uiPc = "start"
  /\ uiPc' = AfterCall["start"]
  /\ \/ /\ DeviceFree
        /\ owner' = current
        /\ capPc' = [capPc EXCEPT ![current] = "select"]
        /\ first' = first \cup {current}
     \/ UNCHANGED <<owner, capPc, first>>
  /\ UNCHANGED <<current, surface, surfaces, holder, window, preview, record, file>>

\* surfaceCreated and surfaceDestroyed begin ...
SurfaceCreated ==
  /\ uiPc = "idle" /\ current # 0 /\ codec[current] # "none"
  /\ surface = 0 /\ surfaces < MaxSurface
  /\ surface' = surfaces + 1 /\ surfaces' = surfaces + 1
  /\ uiPc' = "add_preview"
  /\ UNCHANGED <<current, holder, capture, preview, record, owner, file>>

SurfaceDestroyed ==
  /\ uiPc = "idle" /\ surface # 0
  /\ uiPc' = "remove_preview"
  /\ UNCHANGED <<current, surface, surfaces, holder, capture, preview, record, owner, file>>

\* ... lock mClientLock ...
LockClients ==
  /\ uiPc \in {"add_preview", "remove_preview"}
  /\ holder[current] = "nobody"
  /\ holder' = [holder EXCEPT ![current] = "ui"]
  /\ \/ uiPc = "add_preview" /\ uiPc' = "set_preview"
     \/ uiPc = "remove_preview" /\ uiPc' = "clear_preview"
  /\ UNCHANGED <<current, surface, surfaces, capture, preview, record, owner, file>>

PreviewFree(a) == capPc[a] # "draw_preview"   \* mPreviewLock

\* ... wait for mPreviewLock, set the window and unlock.  When surfaceDestroyed
\* returns, the surface goes away.
SetPreview ==
  /\ uiPc \in {"set_preview", "clear_preview"}
  /\ PreviewFree(current)
  /\ \/ /\ uiPc = "set_preview"
        /\ preview' = [preview EXCEPT ![current] = surface]
        /\ UNCHANGED surface
     \/ /\ uiPc = "clear_preview"
        /\ preview' = [preview EXCEPT ![current] = 0]
        /\ surface' = 0
  /\ uiPc' = "idle"
  /\ holder' = [holder EXCEPT ![current] = "nobody"]
  /\ UNCHANGED <<current, surfaces, capture, record, owner, file>>

UiCall == AddEncoder \/ AddNoEncoder \/ Start \/ LockClients \/ SetPreview

-----------------------------------------------------------------------------
CapStep(a, from, to) == capPc[a] = from /\ capPc' = [capPc EXCEPT ![a] = to]

\* select and DQBUF: a frame, or an error that ends the session.
SelectReturns(a) ==
  /\ \/ CapStep(a, "select", IF a \in first THEN "notify" ELSE "read_window")
     \/ CapStep(a, "select", "error")
  /\ UNCHANGED <<ui, holder, first, window, preview, record, owner, file>>

\* notifyFirstCapture, which calls the encoder once it is a client.
NotifyFirst(a) ==
  /\ holder[a] = "nobody"
  /\ IF codec[a] = "attached"
     THEN CapStep(a, "notify", "start_codec") /\ holder' = [holder EXCEPT ![a] = "capture"]
                                              /\ UNCHANGED first
     ELSE CapStep(a, "notify", "read_window") /\ first' = first \ {a} /\ UNCHANGED holder
  /\ UNCHANGED <<ui, window, preview, record, owner, file>>

\* onFirstCapture of CameraEncoder: start the codec, ...
StartCodec(a) ==
  /\ CapStep(a, "start_codec", "open_file")
  /\ codec' = [codec EXCEPT ![a] = "executing"]
  /\ UNCHANGED <<ui, holder, first, window, preview, input, output, fos, draining, owner, file>>

\* ... open the file, which empties it, or print a FileNotFoundException, ...
OpenFile(a) ==
  /\ CapStep(a, "open_file", "spawn_drain")
  /\ \/ \E s \in {"open", "failing"} : fos' = [fos EXCEPT ![a] = s] /\ file' = {}
     \/ fos' = [fos EXCEPT ![a] = "null"] /\ UNCHANGED file
  /\ UNCHANGED <<ui, holder, first, window, preview, codec, input, output, draining, owner>>

\* ... and start the drain thread.
SpawnDrain(a) ==
  /\ CapStep(a, "spawn_drain", "read_window")
  /\ draining' = draining \cup {a}
  /\ holder' = [holder EXCEPT ![a] = "nobody"]
  /\ first' = first \ {a}
  /\ UNCHANGED <<ui, window, preview, codec, input, output, fos, owner, file>>

(***************************************************************************)
(* drawPreviewSurface reads mPreviewSurface, then locks mPreviewLock and   *)
(* reads it again.  A window that appears in between is tested for, but    *)
(* the NULL read before is used: the process dies.                         *)
(***************************************************************************)
ReadWindow(a) ==
  /\ CapStep(a, "read_window", "lock_window")
  /\ window' = [window EXCEPT ![a] = preview[a]]
  /\ UNCHANGED <<ui, holder, first, preview, record, owner, file>>

LockWindow(a) ==
  \/ /\ preview[a] = 0 \/ window[a] # 0
     /\ CapStep(a, "lock_window", IF preview[a] = 0 THEN "encode" ELSE "draw_preview")
     /\ UNCHANGED <<ui, holder, first, window, preview, record, owner, file>>
  \/ /\ capPc[a] = "lock_window" /\ preview[a] # 0 /\ window[a] = 0
     /\ Die

DrawPreview(a) ==
  /\ CapStep(a, "draw_preview", "encode")
  /\ UNCHANGED <<ui, holder, first, window, preview, record, owner, file>>

Room(a) == input[a] < Slots

\* drawEncoderSurface waits for a free buffer of the codec's input surface.
DrawEncoder(a) ==
  /\ CapStep(a, "encode", "qbuf")
  /\ IF codec[a] \in {"attached", "executing"}
     THEN Room(a) /\ input' = [input EXCEPT ![a] = @ + 1]
     ELSE UNCHANGED input
  /\ UNCHANGED <<ui, holder, first, window, preview, codec, output, fos, draining, owner, file>>

RetrieveBuffer(a) ==
  /\ CapStep(a, "qbuf", "select") \/ CapStep(a, "qbuf", "error")
  /\ UNCHANGED <<ui, holder, first, window, preview, record, owner, file>>

\* CAMERA_ERR closes the descriptor; nobody unmaps the buffers.
ErrorClose(a) ==
  /\ CapStep(a, "error", "notify_error")
  /\ owner' = IF MappingPinsFile THEN owner ELSE 0
  /\ UNCHANGED <<ui, holder, first, window, preview, record, file>>

\* onCameraError does nothing in either client.
NotifyError(a) ==
  /\ holder[a] = "nobody"
  /\ CapStep(a, "notify_error", "none")
  /\ first' = first \ {a}
  /\ UNCHANGED <<ui, holder, window, preview, record, owner, file>>

CapWork(a) ==
  \/ SelectReturns(a) \/ NotifyFirst(a) \/ StartCodec(a) \/ OpenFile(a) \/ SpawnDrain(a)
  \/ ReadWindow(a) \/ LockWindow(a) \/ DrawPreview(a) \/ DrawEncoder(a) \/ RetrieveBuffer(a)
  \/ ErrorClose(a) \/ NotifyError(a)

-----------------------------------------------------------------------------
\* The codec encodes a frame (external).
Encode(a) ==
  /\ codec[a] = "executing"
  /\ input[a] > 0 /\ output[a] < Slots
  /\ input' = [input EXCEPT ![a] = @ - 1]
  /\ output' = [output EXCEPT ![a] = @ + 1]
  /\ UNCHANGED <<ui, holder, capture, preview, codec, fos, draining, owner, file>>

\* One round of the drain thread: an IOException of write is printed and the
\* frame is lost, a write through a null stream kills the process.
Drain(a) ==
  /\ a \in draining /\ output[a] > 0
  /\ \/ /\ fos[a] \in {"open", "failing"}
        /\ file' = IF fos[a] = "open" THEN file \cup {a} ELSE file
        /\ output' = [output EXCEPT ![a] = @ - 1]
        /\ UNCHANGED <<ui, holder, capture, preview, codec, input, fos, draining, owner>>
     \/ fos[a] = "null" /\ Die

\* Android kills the process, or an exception of the codec ends it.
Killed == current # 0 /\ codec[current] # "none" /\ Die

Next ==
  \/ OnCreate \/ SurfaceCreated \/ SurfaceDestroyed \/ UiCall \/ Killed
  \/ \E a \in Activities : CapWork(a) \/ Encode(a) \/ Drain(a)

Safety == Init /\ [][Next]_vars

(***************************************************************************)
(* Callbacks that have begun run on, and threads are scheduled: select has *)
(* a time-out, the preview window hands out its buffers, and the codec     *)
(* encodes while it has room for the result.  The UI thread gets a mutex   *)
(* that is free again and again: the capture thread sleeps in select       *)
(* between two frames and holds none then.  Nobody has to create an        *)
(* activity or a surface.                                                  *)
(***************************************************************************)
Spec ==
  /\ Safety
  /\ SF_vars(UiCall)
  /\ \A a \in Activities : WF_vars(CapWork(a)) /\ WF_vars(Encode(a)) /\ WF_vars(Drain(a))

-----------------------------------------------------------------------------
(***************************************************************************)
(* No frame goes to an encoder that is not running, with a drain thread    *)
(* behind it: its input surface would fill up and block the capture thread *)
(* for good.  onCreate adds the encoder before it starts the camera, and   *)
(* startCapture notifies before it draws (onCreate, onFirstCapture).       *)
(***************************************************************************)
FramesNeedDrain ==
  \A a \in Activities :
    input[a] > 0 \/ capPc[a] = "encode" => codec[a] = "executing" /\ a \in draining

(***************************************************************************)
(* While a preview frame is drawn, the surface that mPreviewSurface names  *)
(* is alive: surfaceDestroyed comes back only after the frame, also in an  *)
(* activity that has been replaced (surfaceDestroyed, removeClient,        *)
(* drawPreviewSurface).                                                    *)
(***************************************************************************)
DrawsLiveSurface ==
  \A a \in Activities :
    capPc[a] = "draw_preview" => a = current /\ surface # 0 /\ preview[a] = surface

(***************************************************************************)
(* "1.h264" holds the frames of one session, although every activity opens *)
(* the same file and no drain thread ever ends.  It takes a camera that    *)
(* failed, a device that came free again, and an activity that was         *)
(* re-created before the old drain thread had run dry, to mix two          *)
(* (onFirstCapture, openCamera, CAMERA_ERR).                               *)
(***************************************************************************)
MixedNeedsReopen ==
  \A a, b \in file :
    a < b => ~MappingPinsFile /\ capPc[a] \in {"notify_error", "none"}

(***************************************************************************)
(* No thread waits for good.  The UI thread comes back from onCreate and   *)
(* the surface callbacks, whatever the capture thread does with            *)
(* mClientLock and mPreviewLock, and the capture thread from               *)
(* drawEncoderSurface, since the encoder takes every frame in the end      *)
(* (addClient, removeClient, the loop of the drain thread).                *)
(***************************************************************************)
NobodyWaitsForGood ==
  /\ uiPc # "idle" ~> uiPc = "idle"
  /\ \A a \in Activities : capPc[a] = "encode" ~> capPc[a] # "encode"

(***************************************************************************)
(* A recording that has begun reaches the file, unless the process dies or *)
(* the storage fails (onFirstCapture).                                     *)
(***************************************************************************)
RecordingReachesFile ==
  \A a \in Activities :
    capPc[a] = "spawn_drain" /\ fos[a] # "failing" ~> a \in file \/ codec[a] # "executing"

=============================================================================
