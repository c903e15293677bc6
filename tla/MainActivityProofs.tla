------------------------- MODULE MainActivityProofs --------------------------
(***************************************************************************)
(* Proofs about MainActivity for any number of activities, surfaces and    *)
(* codec buffers.                                                          *)
(***************************************************************************)
EXTENDS MainActivity, TLAPS

\* An activity whose camera has run since the process began.
Ran(a) == codec[a] = "executing" \/ capPc[a] # "none"

Ended == {"none", "notify_error"}

\* mClientLock is held by the UI thread or by a callback, and by nobody else.
HolderInv ==
  \A a \in Activities :
    /\ holder[a] = "capture" <=> capPc[a] \in Callback
    /\ holder[a] = "ui" <=> a = current /\ uiPc \in {"set_preview", "clear_preview"}

(***************************************************************************)
(* onCreate adds the encoder to a camera that has not run, and starts it   *)
(* with the encoder added.  Later activities have not been created.        *)
(***************************************************************************)
CreateInv ==
  /\ uiPc # "idle" \/ surface # 0 => current # 0
  /\ uiPc = "add_encoder" => codec[current] \in {"configured", "null"}
  /\ uiPc = "start" => codec[current] = "attached"
  /\ uiPc \in {"add_encoder", "start"} => current \notin file /\ capPc[current] = "none"
  /\ \A a \in Activities : a > current => codec[a] = "none" /\ capPc[a] = "none" /\ a \notin file

(***************************************************************************)
(* A camera runs with an encoder, which waits for the first frame and is   *)
(* drained from then on.                                                   *)
(***************************************************************************)
EncoderInv ==
  \A a \in Activities :
    /\ a \in first => /\ capPc[a] \in {"select", "error", "notify_error", "notify"} \cup Callback
                      /\ capPc[a] \notin {"open_file", "spawn_drain"} => codec[a] = "attached"
                      /\ input[a] = 0
    /\ capPc[a] \in {"notify"} \cup Callback => a \in first
    /\ capPc[a] \in {"open_file", "spawn_drain"} => codec[a] = "executing"
    /\ capPc[a] = "spawn_drain" => fos[a] # "none"
    /\ capPc[a] # "none" /\ a \notin first => a \in draining
    /\ a \in draining => codec[a] = "executing"
    /\ input[a] > 0 => a \in draining

\* mPreviewSurface is the surface of the activity on the screen, or NULL.
PreviewInv ==
  /\ uiPc \in {"add_preview", "set_preview"} => surface # 0
  /\ \A a \in Activities : /\ preview[a] # 0 => a = current /\ preview[a] = surface
                           /\ capPc[a] = "draw_preview" => preview[a] # 0

\* The camera that has the device is the last one that has run.
OwnerInv ==
  \A a \in Activities :
    /\ capPc[a] \notin Ended => owner = a
    /\ MappingPinsFile /\ Ran(a) => owner = a
    /\ \A b \in Activities : a < b /\ Ran(b) => capPc[a] \in Ended

(***************************************************************************)
(* An open stream found the file empty: what is in it comes from the drain *)
(* threads of this process.                                                *)
(***************************************************************************)
FileInv ==
  /\ \A a \in Activities : fos[a] \in {"open", "failing"} => file \subseteq draining
  /\ MixedNeedsReopen

ActivityInv ==
  TypeOK /\ HolderInv /\ CreateInv /\ EncoderInv /\ PreviewInv /\ OwnerInv /\ FileInv

-----------------------------------------------------------------------------
LEMMA ActivityInit == Init => ActivityInv
  BY BoundsAssumption
  DEF Init, ActivityInv, TypeOK, HolderInv, CreateInv, EncoderInv, PreviewInv, OwnerInv, FileInv,
      MixedNeedsReopen, Ran, Ended, All, Activities, UiPcs, CapPcs, Callback

LEMMA CallOrder ==
  /\ AfterCall["create"] = "add_encoder"
  /\ AfterCall["add_encoder"] = "start"
  /\ AfterCall["start"] = "idle"
  BY DEF AfterCall

\* Of a process that has died only the file is left.
LEMMA DieKeeps == ActivityInv /\ Die => ActivityInv'
<1> SUFFICES ASSUME ActivityInv, Die PROVE ActivityInv'
  OBVIOUS
<1> USE DEF ActivityInv, Die, All, Callback
<1>1. TypeOK'
  BY BoundsAssumption DEF TypeOK, CapPcs, UiPcs
<1>2. HolderInv'
  BY DEF HolderInv
<1>3. CreateInv'
  BY DEF CreateInv, TypeOK
<1>4. EncoderInv'
  BY DEF EncoderInv
<1>5. PreviewInv'
  BY DEF PreviewInv
<1>6. OwnerInv'
  BY DEF OwnerInv, Ran, Ended
<1>7. FileInv'
  BY DEF FileInv, MixedNeedsReopen, TypeOK
<1> QED
  BY <1>1, <1>2, <1>3, <1>4, <1>5, <1>6, <1>7

\* The new activity has a camera that has not run.
LEMMA OnCreateKeeps ==
  ASSUME ActivityInv, OnCreate
  PROVE  ActivityInv'
<1> USE BoundsAssumption, CallOrder
    DEF ActivityInv, OnCreate, capture, Callback
<1>0. PICK c \in {"configured", "null"} : codec' = [codec EXCEPT ![current + 1] = c]
  OBVIOUS
<1>1. TypeOK'
  BY <1>0 DEF TypeOK, UiPcs, Activities
<1>2. HolderInv'
  BY DEF HolderInv, TypeOK
<1>3. CreateInv'
  BY <1>0 DEF CreateInv, HolderInv, TypeOK, Activities
<1>4. EncoderInv'
  BY <1>0 DEF EncoderInv, CreateInv, TypeOK, Activities
<1>5. PreviewInv'
  BY DEF PreviewInv, TypeOK
<1>6. OwnerInv'
  BY DEF OwnerInv, CreateInv, EncoderInv, Ran, Ended, TypeOK
<1>7. FileInv'
  BY DEF FileInv, MixedNeedsReopen, OwnerInv, EncoderInv, CreateInv, Ran, Ended, TypeOK
<1> QED
  BY <1>1, <1>2, <1>3, <1>4, <1>5, <1>6, <1>7

\* The encoder is there before the camera is started.
LEMMA AddEncoderKeeps ==
  ASSUME ActivityInv, AddEncoder
  PROVE  ActivityInv'
<1> USE BoundsAssumption, CallOrder
    DEF ActivityInv, AddEncoder, capture, Callback
<1>1. TypeOK'
  BY DEF TypeOK, UiPcs, Activities
<1>2. HolderInv'
  BY DEF HolderInv, TypeOK
<1>3. CreateInv'
  BY DEF CreateInv, TypeOK
<1>4. EncoderInv'
  BY DEF EncoderInv, CreateInv, TypeOK
<1>5. PreviewInv'
  BY DEF PreviewInv, TypeOK
<1>6. OwnerInv'
  BY DEF OwnerInv, CreateInv, EncoderInv, Ran, Ended, TypeOK
<1>7. FileInv'
  BY DEF FileInv, MixedNeedsReopen, OwnerInv, EncoderInv, CreateInv, Ran, Ended, TypeOK
<1> QED
  BY <1>1, <1>2, <1>3, <1>4, <1>5, <1>6, <1>7

\* The camera that gets the device is the last one that has run.
LEMMA StartKeeps ==
  ASSUME ActivityInv, Start
  PROVE  ActivityInv'
<1> USE BoundsAssumption, CallOrder
    DEF ActivityInv, Start, record, Callback
<1>1. TypeOK'
  <2>1. CASE UNCHANGED <<owner, capPc, first>>
    BY <2>1 DEF TypeOK, UiPcs
  <2>2. CASE owner' = current /\ capPc' = [capPc EXCEPT ![current] = "select"]
                              /\ first' = first \cup {current}
    BY <2>2 DEF TypeOK, CreateInv, CapPcs, UiPcs, Activities
  <2> QED
    BY <2>1, <2>2
<1>2. HolderInv'
  BY DEF HolderInv, CreateInv, TypeOK
<1>3. CreateInv'
  BY DEF CreateInv, TypeOK
<1>4. EncoderInv'
  BY DEF EncoderInv, CreateInv, TypeOK
<1>5. PreviewInv'
  BY DEF PreviewInv, TypeOK
<1>6. OwnerInv'
  <2>1. CASE UNCHANGED <<owner, capPc, first>>
    BY <2>1 DEF OwnerInv, Ran, Ended
  <2>2. CASE /\ DeviceFree /\ owner' = current
             /\ capPc' = [capPc EXCEPT ![current] = "select"]
    <3>1. \A a \in Activities : capPc[a] \in Ended /\ (MappingPinsFile => ~Ran(a))
      BY <2>2 DEF OwnerInv, DeviceFree, Activities
    <3>2. \A a \in Activities : Ran(a)' => a = current \/ Ran(a)
      BY <2>2 DEF Ran, TypeOK
    <3>3. \A a \in Activities : a > current => ~Ran(a)
      BY DEF CreateInv, Ran
    <3>4. \A a \in Activities : capPc'[a] \in Ended \/ a = current
      BY <3>1, <2>2 DEF TypeOK
    <3> QED
      BY <2>2, <3>1, <3>2, <3>3, <3>4 DEF OwnerInv, CreateInv, TypeOK, Activities
  <2> QED
    BY <2>1, <2>2
<1>7. FileInv'
  BY DEF FileInv, MixedNeedsReopen, OwnerInv, EncoderInv, CreateInv, Ran, Ended, TypeOK
<1> QED
  BY <1>1, <1>2, <1>3, <1>4, <1>5, <1>6, <1>7

\* Surfaces are numbered, and before this one there was none.
LEMMA SurfaceCreatedKeeps ==
  ASSUME ActivityInv, SurfaceCreated
  PROVE  ActivityInv'
<1> USE BoundsAssumption
    DEF ActivityInv, SurfaceCreated, capture, record, Callback
<1>1. TypeOK'
  BY SMTT(60) DEF TypeOK, UiPcs, Activities
<1>2. HolderInv'
  BY DEF HolderInv, TypeOK
<1>3. CreateInv'
  BY DEF CreateInv, TypeOK
<1>4. EncoderInv'
  BY DEF EncoderInv, CreateInv, TypeOK
<1>5. PreviewInv'
  BY DEF PreviewInv, TypeOK
<1>6. OwnerInv'
  BY DEF OwnerInv, CreateInv, EncoderInv, Ran, Ended, TypeOK
<1>7. FileInv'
  BY DEF FileInv, MixedNeedsReopen, OwnerInv, EncoderInv, CreateInv, Ran, Ended, TypeOK
<1> QED
  BY <1>1, <1>2, <1>3, <1>4, <1>5, <1>6, <1>7

\* The surface lives on while the callback runs.
LEMMA SurfaceDestroyedKeeps ==
  ASSUME ActivityInv, SurfaceDestroyed
  PROVE  ActivityInv'
<1> USE BoundsAssumption
    DEF ActivityInv, SurfaceDestroyed, capture, record, Callback
<1>1. TypeOK'
  BY DEF TypeOK, UiPcs, Activities
<1>2. HolderInv'
  BY DEF HolderInv, TypeOK
<1>3. CreateInv'
  BY DEF CreateInv, TypeOK, Activities
<1>4. EncoderInv'
  BY DEF EncoderInv, CreateInv, TypeOK
<1>5. PreviewInv'
  BY DEF PreviewInv, TypeOK
<1>6. OwnerInv'
  BY DEF OwnerInv, CreateInv, EncoderInv, Ran, Ended, TypeOK
<1>7. FileInv'
  BY DEF FileInv, MixedNeedsReopen, OwnerInv, EncoderInv, CreateInv, Ran, Ended, TypeOK
<1> QED
  BY <1>1, <1>2, <1>3, <1>4, <1>5, <1>6, <1>7

\* The UI thread takes a lock that no callback holds.
LEMMA LockClientsKeeps ==
  ASSUME ActivityInv, LockClients
  PROVE  ActivityInv'
<1> USE BoundsAssumption
    DEF ActivityInv, LockClients, capture, record, Callback
<1>1. TypeOK'
  BY DEF TypeOK, UiPcs, Activities
<1>2. HolderInv'
  BY DEF HolderInv, TypeOK
<1>3. CreateInv'
  BY DEF CreateInv, TypeOK
<1>4. EncoderInv'
  BY DEF EncoderInv, CreateInv, TypeOK
<1>5. PreviewInv'
  BY DEF PreviewInv, TypeOK
<1>6. OwnerInv'
  BY DEF OwnerInv, CreateInv, EncoderInv, Ran, Ended, TypeOK
<1>7. FileInv'
  BY DEF FileInv, MixedNeedsReopen, OwnerInv, EncoderInv, CreateInv, Ran, Ended, TypeOK
<1> QED
  BY <1>1, <1>2, <1>3, <1>4, <1>5, <1>6, <1>7

\* The window changes between two frames, never during one.
LEMMA SetPreviewKeeps ==
  ASSUME ActivityInv, SetPreview
  PROVE  ActivityInv'
<1> USE BoundsAssumption
    DEF ActivityInv, SetPreview, capture, record, Callback
<1>1. TypeOK'
  <2>1. preview' \in [Activities -> 0 .. surfaces] /\ surface' \in 0 .. surfaces
    BY DEF TypeOK
  <2> QED
    BY <2>1 DEF TypeOK, UiPcs
<1>2. HolderInv'
  BY DEF HolderInv, TypeOK
<1>3. CreateInv'
  BY DEF CreateInv, TypeOK
<1>4. EncoderInv'
  BY DEF EncoderInv, CreateInv, TypeOK
<1>5. PreviewInv'
  BY DEF PreviewInv, PreviewFree, HolderInv, TypeOK
<1>6. OwnerInv'
  BY DEF OwnerInv, CreateInv, EncoderInv, Ran, Ended, TypeOK
<1>7. FileInv'
  BY DEF FileInv, MixedNeedsReopen, OwnerInv, EncoderInv, CreateInv, Ran, Ended, TypeOK
<1> QED
  BY <1>1, <1>2, <1>3, <1>4, <1>5, <1>6, <1>7

\* The first frame is announced before it is drawn.
LEMMA SelectReturnsKeeps ==
  ASSUME NEW a \in Activities, ActivityInv, SelectReturns(a)
  PROVE  ActivityInv'
<1> USE BoundsAssumption
    DEF ActivityInv, SelectReturns, ui, record, Callback
<1>1. TypeOK'
  BY DEF TypeOK, CapPcs, Activities, CapStep
<1>2. HolderInv'
  BY DEF HolderInv, TypeOK, CapStep
<1>3. CreateInv'
  BY DEF CreateInv, TypeOK, CapStep
<1>4. EncoderInv'
  BY DEF EncoderInv, CreateInv, TypeOK, CapStep
<1>5. PreviewInv'
  BY DEF PreviewInv, TypeOK, CapStep
<1>6. OwnerInv'
  BY DEF OwnerInv, CreateInv, EncoderInv, Ran, Ended, TypeOK, CapStep
<1>7. FileInv'
  BY DEF FileInv, MixedNeedsReopen, OwnerInv, EncoderInv, CreateInv, Ran, Ended, TypeOK, CapStep
<1> QED
  BY <1>1, <1>2, <1>3, <1>4, <1>5, <1>6, <1>7

\* The encoder is a client by now.
LEMMA NotifyFirstKeeps ==
  ASSUME NEW a \in Activities, ActivityInv, NotifyFirst(a)
  PROVE  ActivityInv'
<1> USE BoundsAssumption
    DEF ActivityInv, NotifyFirst, ui, record, Callback
<1>1. TypeOK'
  BY DEF TypeOK, CapPcs, Activities, CapStep
<1>2. HolderInv'
  BY DEF HolderInv, TypeOK, CapStep
<1>3. CreateInv'
  BY DEF CreateInv, TypeOK, CapStep
<1>4. EncoderInv'
  BY DEF EncoderInv, CreateInv, TypeOK, CapStep
<1>5. PreviewInv'
  BY DEF PreviewInv, TypeOK, CapStep
<1>6. OwnerInv'
  BY DEF OwnerInv, CreateInv, EncoderInv, Ran, Ended, TypeOK, CapStep
<1>7. FileInv'
  BY DEF FileInv, MixedNeedsReopen, OwnerInv, EncoderInv, CreateInv, Ran, Ended, TypeOK, CapStep
<1> QED
  BY <1>1, <1>2, <1>3, <1>4, <1>5, <1>6, <1>7

\* The codec runs before its drain thread does.
LEMMA StartCodecKeeps ==
  ASSUME NEW a \in Activities, ActivityInv, StartCodec(a)
  PROVE  ActivityInv'
<1> USE BoundsAssumption
    DEF ActivityInv, StartCodec, ui, Callback
<1>1. TypeOK'
  BY DEF TypeOK, CapPcs, Activities, CapStep
<1>2. HolderInv'
  BY DEF HolderInv, TypeOK, CapStep
<1>3. CreateInv'
  BY DEF CreateInv, TypeOK, CapStep
<1>4. EncoderInv'
  BY DEF EncoderInv, CreateInv, TypeOK, CapStep
<1>5. PreviewInv'
  BY DEF PreviewInv, TypeOK, CapStep
<1>6. OwnerInv'
  BY DEF OwnerInv, CreateInv, EncoderInv, Ran, Ended, TypeOK, CapStep
<1>7. FileInv'
  BY DEF FileInv, MixedNeedsReopen, OwnerInv, EncoderInv, CreateInv, Ran, Ended, TypeOK, CapStep
<1> QED
  BY <1>1, <1>2, <1>3, <1>4, <1>5, <1>6, <1>7

\* Opening the file empties it, so what earlier sessions wrote is gone.
LEMMA OpenFileKeeps ==
  ASSUME NEW a \in Activities, ActivityInv, OpenFile(a)
  PROVE  ActivityInv'
<1> USE BoundsAssumption
    DEF ActivityInv, OpenFile, ui, Callback
<1>1. TypeOK'
  <2>1. fos' \in [Activities -> {"none", "null", "open", "failing"}] /\ fos'[a] # "none"
    BY DEF TypeOK
  <2>2. file' \subseteq Activities
    BY DEF TypeOK
  <2>3. \A b \in Activities : b # a => fos'[b] = fos[b]
    BY DEF TypeOK
  <2> QED
    BY <2>1, <2>2, <2>3 DEF TypeOK, CapPcs, CapStep
<1>2. HolderInv'
  BY DEF HolderInv, TypeOK, CapStep
<1>3. CreateInv'
  BY DEF CreateInv, TypeOK, CapStep
<1>4. EncoderInv'
  BY DEF EncoderInv, CreateInv, TypeOK, CapStep
<1>5. PreviewInv'
  BY DEF PreviewInv, TypeOK, CapStep
<1>6. OwnerInv'
  BY DEF OwnerInv, CreateInv, EncoderInv, Ran, Ended, TypeOK, CapStep
<1>7. FileInv'
  BY DEF FileInv, MixedNeedsReopen, OwnerInv, EncoderInv, CreateInv, Ran, Ended, TypeOK, CapStep
<1> QED
  BY <1>1, <1>2, <1>3, <1>4, <1>5, <1>6, <1>7

\* From here on the encoder is drained.
LEMMA SpawnDrainKeeps ==
  ASSUME NEW a \in Activities, ActivityInv, SpawnDrain(a)
  PROVE  ActivityInv'
<1> USE BoundsAssumption
    DEF ActivityInv, SpawnDrain, ui, Callback
<1>1. TypeOK'
  <2>1. fos[a] # "none"
    BY DEF EncoderInv, CapStep
  <2> QED
    BY <2>1 DEF TypeOK, CapPcs, CapStep
<1>2. HolderInv'
  BY DEF HolderInv, TypeOK, CapStep
<1>3. CreateInv'
  BY DEF CreateInv, TypeOK, CapStep
<1>4. EncoderInv'
  BY DEF EncoderInv, CreateInv, TypeOK, CapStep
<1>5. PreviewInv'
  BY DEF PreviewInv, TypeOK, CapStep
<1>6. OwnerInv'
  BY DEF OwnerInv, CreateInv, EncoderInv, Ran, Ended, TypeOK, CapStep
<1>7. FileInv'
  BY DEF FileInv, MixedNeedsReopen, OwnerInv, EncoderInv, CreateInv, Ran, Ended, TypeOK, CapStep
<1> QED
  BY <1>1, <1>2, <1>3, <1>4, <1>5, <1>6, <1>7

\* The local copy of the window matters to nobody else.
LEMMA ReadWindowKeeps ==
  ASSUME NEW a \in Activities, ActivityInv, ReadWindow(a)
  PROVE  ActivityInv'
<1> USE BoundsAssumption
    DEF ActivityInv, ReadWindow, ui, record, Callback
<1>1. TypeOK'
  BY DEF TypeOK, CapPcs, Activities, CapStep
<1>2. HolderInv'
  BY DEF HolderInv, TypeOK, CapStep
<1>3. CreateInv'
  BY DEF CreateInv, TypeOK, CapStep
<1>4. EncoderInv'
  BY DEF EncoderInv, CreateInv, TypeOK, CapStep
<1>5. PreviewInv'
  BY DEF PreviewInv, TypeOK, CapStep
<1>6. OwnerInv'
  BY DEF OwnerInv, CreateInv, EncoderInv, Ran, Ended, TypeOK, CapStep
<1>7. FileInv'
  BY DEF FileInv, MixedNeedsReopen, OwnerInv, EncoderInv, CreateInv, Ran, Ended, TypeOK, CapStep
<1> QED
  BY <1>1, <1>2, <1>3, <1>4, <1>5, <1>6, <1>7

\* Behind the lock the window is the one on the screen, or there is none.
LEMMA LockWindowKeeps ==
  ASSUME NEW a \in Activities, ActivityInv, LockWindow(a)
  PROVE  ActivityInv'
<1>1. CASE preview[a] = 0 \/ window[a] # 0
  <2> USE <1>1, BoundsAssumption
      DEF ActivityInv, LockWindow, ui, record, Callback
  <2>1. TypeOK'
    BY DEF TypeOK, CapPcs, Activities, CapStep
  <2>2. HolderInv'
    BY DEF HolderInv, TypeOK, CapStep
  <2>3. CreateInv'
    BY DEF CreateInv, TypeOK, CapStep
  <2>4. EncoderInv'
    BY DEF EncoderInv, CreateInv, TypeOK, CapStep
  <2>5. PreviewInv'
    BY DEF PreviewInv, TypeOK, CapStep
  <2>6. OwnerInv'
    BY DEF OwnerInv, CreateInv, EncoderInv, Ran, Ended, TypeOK, CapStep
  <2>7. FileInv'
    BY DEF FileInv, MixedNeedsReopen, OwnerInv, EncoderInv, CreateInv, Ran, Ended, TypeOK, CapStep
  <2> QED
    BY <2>1, <2>2, <2>3, <2>4, <2>5, <2>6, <2>7
<1>2. CASE ~(preview[a] = 0 \/ window[a] # 0)
  BY <1>2, DieKeeps DEF LockWindow
<1> QED
  BY <1>1, <1>2

\* The lock is given back.
LEMMA DrawPreviewKeeps ==
  ASSUME NEW a \in Activities, ActivityInv, DrawPreview(a)
  PROVE  ActivityInv'
<1> USE BoundsAssumption
    DEF ActivityInv, DrawPreview, ui, record, Callback
<1>1. TypeOK'
  BY DEF TypeOK, CapPcs, Activities, CapStep
<1>2. HolderInv'
  BY DEF HolderInv, TypeOK, CapStep
<1>3. CreateInv'
  BY DEF CreateInv, TypeOK, CapStep
<1>4. EncoderInv'
  BY DEF EncoderInv, CreateInv, TypeOK, CapStep
<1>5. PreviewInv'
  BY DEF PreviewInv, TypeOK, CapStep
<1>6. OwnerInv'
  BY DEF OwnerInv, CreateInv, EncoderInv, Ran, Ended, TypeOK, CapStep
<1>7. FileInv'
  BY DEF FileInv, MixedNeedsReopen, OwnerInv, EncoderInv, CreateInv, Ran, Ended, TypeOK, CapStep
<1> QED
  BY <1>1, <1>2, <1>3, <1>4, <1>5, <1>6, <1>7

\* The encoder that takes the frame is drained.
LEMMA DrawEncoderKeeps ==
  ASSUME NEW a \in Activities, ActivityInv, DrawEncoder(a)
  PROVE  ActivityInv'
<1> USE BoundsAssumption
    DEF ActivityInv, DrawEncoder, ui, Callback
<1>1. TypeOK'
  <2>1. input' \in [Activities -> 0 .. Slots]
    <3>1. CASE UNCHANGED input
      BY <3>1 DEF TypeOK
    <3>2. CASE Room(a) /\ input' = [input EXCEPT ![a] = @ + 1]
      <4>1. input[a] + 1 \in 0 .. Slots
        BY <3>2 DEF TypeOK, Room
      <4> QED
        BY <3>2, <4>1 DEF TypeOK
    <3> QED
      BY <3>1, <3>2
  <2> QED
    BY <2>1 DEF TypeOK, CapPcs, CapStep
<1>2. HolderInv'
  BY DEF HolderInv, TypeOK, CapStep
<1>3. CreateInv'
  BY DEF CreateInv, TypeOK, CapStep
<1>4. EncoderInv'
  BY DEF EncoderInv, CreateInv, TypeOK, CapStep
<1>5. PreviewInv'
  BY DEF PreviewInv, TypeOK, CapStep
<1>6. OwnerInv'
  BY DEF OwnerInv, CreateInv, EncoderInv, Ran, Ended, TypeOK, CapStep
<1>7. FileInv'
  BY DEF FileInv, MixedNeedsReopen, OwnerInv, EncoderInv, CreateInv, Ran, Ended, TypeOK, CapStep
<1> QED
  BY <1>1, <1>2, <1>3, <1>4, <1>5, <1>6, <1>7

\* The session goes on or fails.
LEMMA RetrieveBufferKeeps ==
  ASSUME NEW a \in Activities, ActivityInv, RetrieveBuffer(a)
  PROVE  ActivityInv'
<1> USE BoundsAssumption
    DEF ActivityInv, RetrieveBuffer, ui, record, Callback
<1>1. TypeOK'
  BY DEF TypeOK, CapPcs, Activities, CapStep
<1>2. HolderInv'
  BY DEF HolderInv, TypeOK, CapStep
<1>3. CreateInv'
  BY DEF CreateInv, TypeOK, CapStep
<1>4. EncoderInv'
  BY DEF EncoderInv, CreateInv, TypeOK, CapStep
<1>5. PreviewInv'
  BY DEF PreviewInv, TypeOK, CapStep
<1>6. OwnerInv'
  BY DEF OwnerInv, CreateInv, EncoderInv, Ran, Ended, TypeOK, CapStep
<1>7. FileInv'
  BY DEF FileInv, MixedNeedsReopen, OwnerInv, EncoderInv, CreateInv, Ran, Ended, TypeOK, CapStep
<1> QED
  BY <1>1, <1>2, <1>3, <1>4, <1>5, <1>6, <1>7

\* The camera gives up the device after its last frame.
LEMMA ErrorCloseKeeps ==
  ASSUME NEW a \in Activities, ActivityInv, ErrorClose(a)
  PROVE  ActivityInv'
<1> USE BoundsAssumption
    DEF ActivityInv, ErrorClose, ui, record, Callback
<1>1. TypeOK'
  BY DEF TypeOK, CapPcs, Activities, CapStep
<1>2. HolderInv'
  BY DEF HolderInv, TypeOK, CapStep
<1>3. CreateInv'
  BY DEF CreateInv, TypeOK, CapStep
<1>4. EncoderInv'
  BY DEF EncoderInv, CreateInv, TypeOK, CapStep
<1>5. PreviewInv'
  BY DEF PreviewInv, TypeOK, CapStep
<1>6. OwnerInv'
  BY DEF OwnerInv, CreateInv, EncoderInv, Ran, Ended, TypeOK, CapStep
<1>7. FileInv'
  BY DEF FileInv, MixedNeedsReopen, OwnerInv, EncoderInv, CreateInv, Ran, Ended, TypeOK, CapStep
<1> QED
  BY <1>1, <1>2, <1>3, <1>4, <1>5, <1>6, <1>7

\* The capture thread ends.
LEMMA NotifyErrorKeeps ==
  ASSUME NEW a \in Activities, ActivityInv, NotifyError(a)
  PROVE  ActivityInv'
<1> USE BoundsAssumption
    DEF ActivityInv, NotifyError, ui, record, Callback
<1>1. TypeOK'
  BY DEF TypeOK, CapPcs, Activities, CapStep
<1>2. HolderInv'
  BY DEF HolderInv, TypeOK, CapStep
<1>3. CreateInv'
  BY DEF CreateInv, TypeOK, CapStep
<1>4. EncoderInv'
  BY DEF EncoderInv, CreateInv, TypeOK, CapStep
<1>5. PreviewInv'
  BY DEF PreviewInv, TypeOK, CapStep
<1>6. OwnerInv'
  BY DEF OwnerInv, CreateInv, EncoderInv, Ran, Ended, TypeOK, CapStep
<1>7. FileInv'
  BY DEF FileInv, MixedNeedsReopen, OwnerInv, EncoderInv, CreateInv, Ran, Ended, TypeOK, CapStep
<1> QED
  BY <1>1, <1>2, <1>3, <1>4, <1>5, <1>6, <1>7

\* The codec takes frames only from a running encoder.
LEMMA EncodeKeeps ==
  ASSUME NEW a \in Activities, ActivityInv, Encode(a)
  PROVE  ActivityInv'
<1> USE BoundsAssumption
    DEF ActivityInv, Encode, ui, capture, Callback
<1>1. TypeOK'
  BY SMTT(60) DEF TypeOK
<1>2. HolderInv'
  BY DEF HolderInv, TypeOK
<1>3. CreateInv'
  BY DEF CreateInv, TypeOK
<1>4. EncoderInv'
  BY DEF EncoderInv, CreateInv, TypeOK
<1>5. PreviewInv'
  BY DEF PreviewInv, TypeOK
<1>6. OwnerInv'
  BY DEF OwnerInv, CreateInv, EncoderInv, Ran, Ended, TypeOK
<1>7. FileInv'
  BY DEF FileInv, MixedNeedsReopen, OwnerInv, EncoderInv, CreateInv, Ran, Ended, TypeOK
<1> QED
  BY <1>1, <1>2, <1>3, <1>4, <1>5, <1>6, <1>7

\* Only the session whose stream emptied the file writes to it.
LEMMA DrainKeeps ==
  ASSUME NEW a \in Activities, ActivityInv, Drain(a)
  PROVE  ActivityInv'
<1>1. CASE fos[a] # "null"
  <2> USE <1>1, BoundsAssumption
      DEF ActivityInv, Drain, ui, capture, Callback
  <2>1. TypeOK'
    <3>1. output[a] - 1 \in 0 .. Slots
      BY DEF TypeOK
    <3>2. output' \in [Activities -> 0 .. Slots]
      BY <3>1 DEF TypeOK
    <3> QED
      BY <3>2 DEF TypeOK
  <2>2. HolderInv'
    BY DEF HolderInv, TypeOK
  <2>3. CreateInv'
    <3>1. codec[a] = "executing" /\ file' \subseteq file \cup {a}
      BY DEF EncoderInv
    <3>2. a <= current
      BY <3>1 DEF CreateInv, TypeOK, Activities
    <3>3. uiPc \in {"add_encoder", "start"} => a # current
      BY <3>1 DEF CreateInv
    <3>4. UNCHANGED <<current, uiPc, surface, codec, capPc>>
      OBVIOUS
    <3> QED
      BY <3>1, <3>2, <3>3, <3>4 DEF CreateInv, TypeOK
  <2>4. EncoderInv'
    BY DEF EncoderInv, CreateInv, TypeOK
  <2>5. PreviewInv'
    BY DEF PreviewInv, TypeOK
  <2>6. OwnerInv'
    BY DEF OwnerInv, CreateInv, EncoderInv, Ran, Ended, TypeOK
  <2>7. FileInv'
    <3>1. CASE fos[a] # "open"
      BY <3>1 DEF FileInv, MixedNeedsReopen
    <3>2. CASE fos[a] = "open"
      <4>1. file \cup {a} \subseteq draining
        BY <3>2 DEF FileInv
      <4>2. \A b \in file \cup {a} : b \in Activities /\ Ran(b)
        BY <4>1 DEF EncoderInv, Ran, TypeOK
      <4>3. \A b, c \in file \cup {a} : b < c => capPc[b] \in Ended /\ ~MappingPinsFile
        BY <4>2, PinAssumption DEF OwnerInv, Activities
      <4> QED
        BY <3>2, <4>1, <4>3 DEF FileInv, MixedNeedsReopen, Ended
    <3> QED
      BY <3>1, <3>2
  <2> QED
    BY <2>1, <2>2, <2>3, <2>4, <2>5, <2>6, <2>7
<1>2. CASE fos[a] = "null"
  BY <1>2, DieKeeps DEF Drain
<1> QED
  BY <1>1, <1>2

LEMMA ActivityNext == ActivityInv /\ [Next]_vars => ActivityInv'
<1> SUFFICES ASSUME ActivityInv, [Next]_vars PROVE ActivityInv'
  OBVIOUS
<1>1. CASE OnCreate \/ SurfaceCreated \/ SurfaceDestroyed \/ Killed
  BY <1>1, OnCreateKeeps, SurfaceCreatedKeeps, SurfaceDestroyedKeeps, DieKeeps DEF Killed
<1>2. CASE UiCall
  BY <1>2, AddEncoderKeeps, DieKeeps, StartKeeps, LockClientsKeeps, SetPreviewKeeps
  DEF UiCall, AddNoEncoder
<1>3. ASSUME NEW a \in Activities, CapWork(a) PROVE ActivityInv'
  BY <1>3, SelectReturnsKeeps, NotifyFirstKeeps, StartCodecKeeps, OpenFileKeeps, SpawnDrainKeeps,
     ReadWindowKeeps, LockWindowKeeps, DrawPreviewKeeps, DrawEncoderKeeps, RetrieveBufferKeeps,
     ErrorCloseKeeps, NotifyErrorKeeps
  DEF CapWork
<1>4. ASSUME NEW a \in Activities, Encode(a) \/ Drain(a) PROVE ActivityInv'
  BY <1>4, EncodeKeeps, DrainKeeps
<1>5. CASE UNCHANGED vars
  BY <1>5
  DEF vars, ui, capture, record, ActivityInv, TypeOK, HolderInv, CreateInv, EncoderInv, PreviewInv,
      OwnerInv, FileInv, MixedNeedsReopen, Ran
<1> QED
  BY <1>1, <1>2, <1>3, <1>4, <1>5 DEF Next

-----------------------------------------------------------------------------
THEOREM ActivityInvariant == Safety => []ActivityInv
  BY ActivityInit, ActivityNext, PTL DEF Safety

\* Every variable keeps to the values that MainActivity.java can give it.
THEOREM TypeCorrect == Spec => []TypeOK
<1>1. ActivityInv => TypeOK
  BY DEF ActivityInv
<1> QED
  BY <1>1, ActivityInvariant, PTL DEF Spec

(***************************************************************************)
(* No frame goes to an encoder that has not been started, with a thread    *)
(* that drains it (onCreate, onFirstCapture, drawEncoderSurface).          *)
(***************************************************************************)
THEOREM FramesDrained == Spec => []FramesNeedDrain
<1>1. ActivityInv => FramesNeedDrain
  BY DEF ActivityInv, EncoderInv, FramesNeedDrain, Callback
<1> QED
  BY <1>1, ActivityInvariant, PTL DEF Spec

(***************************************************************************)
(* drawPreviewSurface draws into the surface on the screen, never into one *)
(* that surfaceDestroyed has given up.                                     *)
(***************************************************************************)
THEOREM SurfaceLives == Spec => []DrawsLiveSurface
<1>1. ActivityInv => DrawsLiveSurface
  BY DEF ActivityInv, PreviewInv, DrawsLiveSurface
<1> QED
  BY <1>1, ActivityInvariant, PTL DEF Spec

(***************************************************************************)
(* However often activities are re-created and the process dies, only a    *)
(* camera that failed and a device that its close gave back lead to two    *)
(* sessions in "1.h264" (openCamera, CAMERA_ERR, onFirstCapture).          *)
(***************************************************************************)
THEOREM SessionsApart == Spec => []MixedNeedsReopen
<1>1. ActivityInv => MixedNeedsReopen
  BY DEF ActivityInv, FileInv
<1> QED
  BY <1>1, ActivityInvariant, PTL DEF Spec

=============================================================================
