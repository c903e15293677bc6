------------------------- MODULE LifecycleInvariant -------------------------
(***************************************************************************)
(* The inductive invariant behind the safety properties of                 *)
(* CameraLifecycle: TLC checks it in the Lifecycle runs, and               *)
(* CameraLifecycleProofs proves that every step preserves it.              *)
(*                                                                         *)
(* Each part says what holds while a certain rule of careful use is        *)
(* unbroken; the parts above it carry the ones below.                      *)
(***************************************************************************)
EXTENDS CameraLifecycle

Serial        == "overlap" \notin misuse
CarefulStart  == Serial /\ "start_twice" \notin misuse
CarefulRelease == Serial /\ "release_busy" \notin misuse

\* A call in openCamera, after open() was called ...
Configuring(a) == appPc[a] \in {"configure", "map", "queue", "streamon", "return",
                                "exit_close", "exit_reset"}
\* ... or anywhere in it; and a call in nativeReleaseCamera.
Opening(a)   == appPc[a] = "open" \/ Configuring(a)
Releasing(a) == appPc[a] \in {"rel_stop", "rel_delete", "rel_clear"}

\* A capture thread that believes it owns the device: it has not closed mFD.
Holding(t) == capPc[t] \in {"spawned", "entry", "stopping", "error"} \/ Looping(t)

\* The owner of the buffers is open, or is one of the two non-descriptors.
OwnerOpen == owner \in openFds \cup {NoOwner, Orphan}

\* setCamera(NULL) comes last, so a NULL field means a deleted object.
FieldAndObject ==
  /\ ~mNativeObject => ~alive
  /\ \A a \in Apps : appPc[a] = "rel_clear" => ~alive

\* One call at a time; after the delete only the deleting call is left.
OneCaller ==
  Serial =>
    /\ \A a, b \in Apps : appPc[a] # "idle" /\ appPc[b] # "idle" => a = b
    /\ ~alive => /\ \A a \in Apps : appPc[a] \in {"idle", "rel_clear"}
                 /\ mNativeObject => \E a \in Apps : appPc[a] = "rel_clear"

\* A release of an idle camera meets no session.
QuietRelease ==
  CarefulRelease =>
    ((\E a \in Apps : Releasing(a)) \/ ~alive => \A t \in Threads : ~Active(t))

\* A start of a closed camera meets no session, and no second one comes.
OneSession ==
  CarefulStart =>
    /\ (\E a \in Apps : Opening(a)) => \A t \in Threads : ~Active(t)
    /\ \A s, t \in Threads : Active(s) /\ Active(t) => s = t
    /\ \A t \in Threads : alive /\ Holding(t) => mFD # -1
    /\ \A a \in Apps : Configuring(a) => mFD # -1

\* mFD is the only descriptor the process holds.
OneDescriptor ==
  CarefulStart =>
    /\ openFds \subseteq {mFD}
    /\ \A a \in Apps : appPc[a] = "open" => mFD = -1
    /\ \A a \in Apps : appPc[a] = "exit_reset" => openFds = {}
    /\ \A t \in Threads : capPc[t] = "err_reset" => openFds = {}

\* Two sessions cannot hold the device's buffers, however often start is called.
OneHolder ==
  Serial =>
    /\ \A s, t \in Threads : Holding(s) /\ Holding(t) => s = t
    /\ alive => \A t \in Threads : Holding(t) => owner \in openFds /\ mapped
    /\ \A a \in Apps :
         alive /\ Configuring(a) =>
           /\ mFD = owner => \A t \in Threads : ~Holding(t)
           /\ appPc[a] \in {"map", "queue", "streamon", "return"} => mFD \in {-1, owner}
           /\ appPc[a] \in {"queue", "streamon", "return"} /\ mFD = owner => mapped

\* The buffers a session got at its start are all queued between two frames.
\* While a frame is drawn, only the buffer in hand is missing, or QBUF will fail.
BuffersHome ==
  Serial =>
    /\ \A a \in Apps :
         alive /\ mFD = owner =>
           /\ appPc[a] \in {"streamon", "return"} => queued = Buffers
           /\ appPc[a] = "return" => streaming
    /\ \A t \in Threads :
         mFD = owner =>
           /\ capPc[t] \in {"spawned", "entry", "loop", "select", "dqbuf"}
                => streaming /\ queued = Buffers
           /\ capPc[t] \in {"notifyFirst", "draw", "qbuf"}
                => streaming /\ (index \in queued \/ queued = Buffers \ {index})

\* What each fault presupposes, in the words of FaultNeedsMisuse.
IInv ==
  /\ TypeOK
  /\ OwnerOpen
  /\ FieldAndObject
  /\ OneCaller
  /\ QuietRelease
  /\ OneSession
  /\ OneDescriptor
  /\ OneHolder
  /\ BuffersHome
  /\ FaultNeedsMisuse

=============================================================================
