--------------------------- MODULE CameraClients ----------------------------
(***************************************************************************)
(* The clients of a Camera (Camera.java): the list mClients, the reentrant *)
(* lock mClientLock around it, the windows that the clients bring to the   *)
(* native object, and the notifications that walk through the list on a    *)
(* capture thread.                                                         *)
(*                                                                         *)
(* Code of the application runs with the lock held: getSurface, and the    *)
(* three callbacks.  A callback may call addClient, removeClient or        *)
(* release, since the lock is reentrant; it may wait for another thread;   *)
(* both may throw.  No section has a "finally": an exception leaves the    *)
(* lock locked once more.                                                  *)
(*                                                                         *)
(* The three notifications differ only in the callback they call.  Which   *)
(* window a native call sets is modelled here, how it is locked and drawn  *)
(* in DrawTargets, and what release does to a session in CameraLifecycle.  *)
(***************************************************************************)
EXTENDS Naturals, SequencesExt

CONSTANTS
  Apps,         \* application threads
  Caps,         \* capture threads
  Clients,
  Encoders,     \* the clients whose isEncoder() is true
  Null,         \* a NULL surface, no client, no thread
  Invalid,      \* a surface that Surface::isValid refuses
  ClientBound,  \* bound of the model: length of mClients when a client is added
  LeakBound     \* bound of the model: locks left by exceptions with which a thread still calls

ASSUME ThreadsAssumption == Apps \cap Caps = {}
ASSUME EncodersAssumption == Encoders \subseteq Clients
ASSUME BoundsAssumption == ClientBound \in Nat /\ LeakBound \in Nat

VARIABLES
  mClients,
  holds,       \* how often a thread has locked mClientLock
  appPc,
  appArg,      \* the client a call of addClient or removeClient is about
  capPc,
  waitsFor,    \* the application thread a callback waits for
  told,        \* the clients the present notification has called, in order
  stale,       \* capture threads whose list iterator missed a change
  native,      \* is there still a native object?
  preview,     \* mPreviewSurface and mEncoderSurfaces of the native object
  encoders,
  roll,        \* history: mClients when the notification began
  ownChange,   \* history: notifications whose own callback changed mClients
  oddities     \* history: what unusual things the application has done

walk    == <<capPc, waitsFor, told, roll>>
windows == <<native, preview, encoders>>
calls   == <<appPc, appArg>>
vars    == <<mClients, holds, calls, walk, stale, windows, ownChange, oddities>>

Threads == Apps \cup Caps

\* A client may bring the same window each time, or another one.
Windows  == Clients \X {1, 2}
Surfaces == Windows \cup {Null, Invalid}

ASSUME SurfacesAssumption == Null # Invalid /\ {Null, Invalid} \cap Windows = {}

InSection == {"add_surface", "remove_surface"}
AppPcs == InSection \cup {"idle", "add_lock", "remove_lock", "release_lock",
                          "release_native"}
Walking == {"iterate", "callback", "waiting"}
CapPcs == Walking \cup {"run", "gone"}
Oddities == {"threw", "unstable", "no_surface", "two_previews", "added_twice"}

Registered == ToSet(mClients)
Drawn == (encoders \cup {preview}) \ {Null}

TypeOK ==
  /\ mClients \in Seq(Clients)
  /\ holds \in [Threads -> Nat]
  /\ appPc \in [Apps -> AppPcs]
  /\ appArg \in [Apps -> Clients \cup {Null}]
  /\ capPc \in [Caps -> CapPcs]
  /\ waitsFor \in [Caps -> Apps \cup {Null}]
  /\ told \in [Caps -> Seq(Clients)]
  /\ stale \subseteq Caps
  /\ native \in BOOLEAN
  /\ preview \in Windows \cup {Null}
  /\ encoders \subseteq Windows
  /\ roll \in [Caps -> Seq(Clients)]
  /\ ownChange \subseteq Caps
  /\ oddities \subseteq Oddities

\* The constructor of Camera, after attachNative.
Init ==
  /\ mClients = <<>>
  /\ holds = [t \in Threads |-> 0]
  /\ appPc = [a \in Apps |-> "idle"]
  /\ appArg = [a \in Apps |-> Null]
  /\ capPc = [t \in Caps |-> "run"]
  /\ waitsFor = [t \in Caps |-> Null]
  /\ told = [t \in Caps |-> <<>>]
  /\ stale = {}
  /\ native = TRUE
  /\ preview = Null
  /\ encoders = {}
  /\ roll = [t \in Caps |-> <<>>]
  /\ ownChange = {}
  /\ oddities = {}

-----------------------------------------------------------------------------
\* mClientLock, a ReentrantLock.
LockFree(t)  == \A u \in Threads \ {t} : holds[u] = 0
Locks(t)     == LockFree(t) /\ holds' = [holds EXCEPT ![t] = @ + 1]
Unlocks(t)   == holds' = [holds EXCEPT ![t] = @ - 1]

\* mClients is a LinkedList: every change invalidates the iterators in use.
Changes(list) ==
  /\ mClients' = list
  /\ stale' = stale \cup {t \in Caps : capPc[t] \in Walking}

AddToList(c) == Changes(Append(mClients, c))

RemoveFromList(c) ==
  IF c \in Registered
  THEN Changes(RemoveFirst(mClients, c))
  ELSE UNCHANGED <<mClients, stale>>

\* What a getSurface() may return.
Brings(c) == ({c} \X {1, 2}) \cup {Null, Invalid}

-----------------------------------------------------------------------------
(***************************************************************************)
(* Slips one could make in this code.  No action uses them; putting one in *)
(* the place of the definition it is named after breaks a property below.  *)
(***************************************************************************)

\* removeClient passes isEncoder() the wrong way round.
RemoveOtherWindow(c, s) ==
  /\ preview' = IF c \in Encoders THEN Null ELSE preview
  /\ encoders' = IF c \in Encoders THEN encoders ELSE encoders \ {s}
  /\ UNCHANGED native

\* removeClient clears the preview whatever the client is.
RemoveBothWindows(c, s) ==
  /\ encoders' = IF native THEN encoders \ {s} ELSE encoders
  /\ preview' = Null
  /\ UNCHANGED native

\* removeClient returns early, without unlock, when the client is not in the list.
RemoveLockKept(a) ==
  /\ appPc[a] = "remove_lock"
  /\ LockFree(a)
  /\ holds' = [holds EXCEPT ![a] = @ + 1]
  /\ appPc' = [appPc EXCEPT ![a] = IF appArg[a] \in Registered THEN "remove_surface" ELSE "idle"]
  /\ RemoveFromList(appArg[a])
  /\ UNCHANGED <<appArg, walk, windows, ownChange, oddities>>

\* release empties the list without mClientLock.
ReleaseUnlocked(a) ==
  /\ appPc[a] = "release_lock"
  /\ appPc' = [appPc EXCEPT ![a] = "release_native"]
  /\ IF mClients = <<>> THEN UNCHANGED <<mClients, stale>> ELSE Changes(Tail(mClients))
  /\ UNCHANGED <<holds, appArg, walk, windows, ownChange, oddities>>

\* The notifications go through the list by index and stop one too early.
HasNextButOne(t) == Len(told[t]) + 1 < Len(mClients)

\* A notification does not unlock.
NotifyKeepsLock(t) ==
  /\ capPc[t] = "iterate"
  /\ ~(Len(told[t]) < Len(mClients))
  /\ capPc' = [capPc EXCEPT ![t] = "run"]
  /\ told' = [told EXCEPT ![t] = <<>>]
  /\ roll' = [roll EXCEPT ![t] = <<>>]
  /\ stale' = stale \ {t}
  /\ ownChange' = ownChange \ {t}
  /\ UNCHANGED <<mClients, holds, calls, waitsFor, windows, oddities>>

-----------------------------------------------------------------------------
\* The native methods; without a native object they do nothing.
AddEncoder(s) ==
  /\ encoders' = IF native /\ s \in Windows THEN encoders \cup {s} ELSE encoders
  /\ UNCHANGED <<native, preview>>

RemoveEncoder(s) ==
  /\ encoders' = IF native THEN encoders \ {s} ELSE encoders
  /\ UNCHANGED <<native, preview>>

SetPreview(s) ==
  /\ preview' = IF native /\ s # Invalid THEN s ELSE preview
  /\ UNCHANGED <<native, encoders>>

ReleaseCamera ==
  /\ native' = FALSE
  /\ preview' = Null
  /\ encoders' = {}

AddWindow(c, s) == IF c \in Encoders THEN AddEncoder(s) ELSE SetPreview(s)

\* Removing a preview client clears the one preview slot, whose ever it is.
RemoveWindow(c, s) == IF c \in Encoders THEN RemoveEncoder(s) ELSE SetPreview(Null)

(***************************************************************************)
(* The loop of release removes from the list it iterates over.  It takes   *)
(* out the first client; then a list of one or two is at its end for the   *)
(* iterator (hasNext compares the index with the size), and a longer one   *)
(* throws ConcurrentModificationException.                                 *)
(***************************************************************************)
RemoveLoop == IF mClients = <<>> THEN UNCHANGED <<mClients, stale>> ELSE Changes(Tail(mClients))
RemoveLoopThrows == Len(mClients) > 2

\* Once something threw, the other oddities do not matter to any property.
Notes(odd) ==
  oddities' = IF "threw" \in oddities \cup odd THEN {"threw"} ELSE oddities \cup odd

\* What is unusual about a surface, an addClient, a removeClient.
OddSurface(s) ==
  IF s \in Windows THEN (IF s[2] = 1 THEN {} ELSE {"unstable"}) ELSE {"no_surface"}
OddSlot(c) ==
  IF c \notin Encoders /\ Registered \ (Encoders \cup {c}) # {} THEN {"two_previews"} ELSE {}
OddAdd(c) == OddSlot(c) \cup (IF c \in Registered THEN {"added_twice"} ELSE {})

-----------------------------------------------------------------------------
(***************************************************************************)
(* addClient, removeClient and release on an application thread.           *)
(***************************************************************************)
AppStep(a, from, to) == appPc[a] = from /\ appPc' = [appPc EXCEPT ![a] = to]
AppDone(a) == appPc' = [appPc EXCEPT ![a] = "idle"] /\ appArg' = [appArg EXCEPT ![a] = Null]

Call(a, to, c) ==
  /\ holds[a] <= LeakBound
  /\ AppStep(a, "idle", to)
  /\ appArg' = [appArg EXCEPT ![a] = c]
  /\ UNCHANGED <<mClients, holds, walk, stale, windows, ownChange, oddities>>

CallAdd(a)     == Len(mClients) < ClientBound /\ \E c \in Clients : Call(a, "add_lock", c)
CallRemove(a)  == \E c \in Clients : Call(a, "remove_lock", c)
CallRelease(a) == Call(a, "release_lock", Null)

AddLock(a) ==
  /\ AppStep(a, "add_lock", "add_surface")
  /\ Locks(a)
  /\ AddToList(appArg[a])
  /\ Notes(OddAdd(appArg[a]))
  /\ UNCHANGED <<appArg, walk, windows, ownChange>>

RemoveLock(a) ==
  /\ AppStep(a, "remove_lock", "remove_surface")
  /\ Locks(a)
  /\ RemoveFromList(appArg[a])
  /\ Notes(OddSlot(appArg[a]))
  /\ UNCHANGED <<appArg, walk, windows, ownChange>>

\* getSurface returns, the native method sets the window, and unlock.
AddSurface(a) ==
  /\ appPc[a] = "add_surface"
  /\ AppDone(a)
  /\ Unlocks(a)
  /\ \E s \in Brings(appArg[a]) :
       AddWindow(appArg[a], s) /\ Notes(OddSurface(s))
  /\ UNCHANGED <<mClients, walk, stale, ownChange>>

\* getSurface is not asked when the client is a preview.
RemoveSurface(a) ==
  /\ appPc[a] = "remove_surface"
  /\ AppDone(a)
  /\ Unlocks(a)
  /\ IF appArg[a] \in Encoders
     THEN \E s \in Brings(appArg[a]) :
            RemoveWindow(appArg[a], s) /\ Notes(OddSurface(s))
     ELSE RemoveWindow(appArg[a], Null) /\ UNCHANGED oddities
  /\ UNCHANGED <<mClients, walk, stale, ownChange>>

\* isEncoder or getSurface throws: the call ends, the lock stays.
SurfaceThrows(a) ==
  /\ appPc[a] \in InSection
  /\ AppDone(a)
  /\ Notes({"threw"})
  /\ UNCHANGED <<mClients, holds, walk, stale, windows, ownChange>>

ReleaseLock(a) ==
  /\ AppStep(a, "release_lock", IF RemoveLoopThrows THEN "idle" ELSE "release_native")
  /\ RemoveLoop
  /\ IF RemoveLoopThrows
     THEN Locks(a) /\ Notes({"threw"})
     ELSE LockFree(a) /\ UNCHANGED <<holds, oddities>>
  /\ UNCHANGED <<appArg, walk, windows, ownChange>>

ReleaseNative(a) ==
  /\ AppStep(a, "release_native", "idle")
  /\ ReleaseCamera
  /\ UNCHANGED <<mClients, holds, appArg, walk, stale, ownChange, oddities>>

-----------------------------------------------------------------------------
(***************************************************************************)
(* notifyFirstCapture, notifyCaptureStop and notifyCameraError on a        *)
(* capture thread.  An exception stays pending in startCapture, which does *)
(* not look at it: the thread notifies no more ("gone"), the lock stays.   *)
(***************************************************************************)
CapStep(t, from, to) == capPc[t] = from /\ capPc' = [capPc EXCEPT ![t] = to]

HasNext(t) == Len(told[t]) < Len(mClients)

\* The iterator is gone with its loop, and so is what was remembered of it.
Forget(t) ==
  /\ told' = [told EXCEPT ![t] = <<>>]
  /\ roll' = [roll EXCEPT ![t] = <<>>]
  /\ stale' = stale \ {t}
  /\ ownChange' = ownChange \ {t}

NotifyLock(t) ==
  /\ CapStep(t, "run", "iterate")
  /\ Locks(t)
  /\ roll' = [roll EXCEPT ![t] = mClients]
  /\ UNCHANGED <<mClients, calls, waitsFor, told, stale, windows, ownChange, oddities>>

NextClient(t) ==
  /\ CapStep(t, "iterate", "callback")
  /\ HasNext(t) /\ t \notin stale
  /\ told' = [told EXCEPT ![t] = Append(@, mClients[Len(@) + 1])]
  /\ UNCHANGED <<mClients, holds, calls, waitsFor, roll, stale, windows, ownChange, oddities>>

NotifyUnlock(t) ==
  /\ CapStep(t, "iterate", "run")
  /\ ~HasNext(t)
  /\ Unlocks(t)
  /\ Forget(t)
  /\ UNCHANGED <<mClients, calls, waitsFor, windows, oddities>>

\* The iterator finds the list changed and throws.
IteratorThrows(t) ==
  /\ CapStep(t, "iterate", "gone")
  /\ HasNext(t) /\ t \in stale
  /\ Notes({"threw"})
  /\ Forget(t)
  /\ UNCHANGED <<mClients, holds, calls, waitsFor, windows>>

CallbackReturns(t) ==
  /\ CapStep(t, "callback", "iterate")
  /\ UNCHANGED <<mClients, holds, calls, waitsFor, told, roll, stale, windows, ownChange,
                 oddities>>

CallbackThrows(t) ==
  /\ CapStep(t, "callback", "gone")
  /\ Notes({"threw"})
  /\ Forget(t)
  /\ UNCHANGED <<mClients, holds, calls, waitsFor, windows>>

\* A callback waits until the call of another thread has returned.
CallbackWaits(t) ==
  /\ CapStep(t, "callback", "waiting")
  /\ \E a \in Apps : appPc[a] # "idle" /\ waitsFor' = [waitsFor EXCEPT ![t] = a]
  /\ UNCHANGED <<mClients, holds, calls, told, roll, stale, windows, ownChange, oddities>>

WaitOver(t) ==
  /\ CapStep(t, "waiting", "callback")
  /\ appPc[waitsFor[t]] = "idle"
  /\ waitsFor' = [waitsFor EXCEPT ![t] = Null]
  /\ UNCHANGED <<mClients, holds, calls, told, roll, stale, windows, ownChange, oddities>>

(***************************************************************************)
(* A whole call from inside a callback: the lock is the thread's own.      *)
(* When the call throws, the callback goes on if it catches, and           *)
(* CallbackThrows if it does not.                                          *)
(***************************************************************************)
Nested(t) ==
  /\ capPc[t] = "callback"
  /\ holds[t] <= LeakBound + 1
  /\ IF UNCHANGED <<mClients, stale>>
     THEN UNCHANGED ownChange
     ELSE ownChange' = ownChange \cup {t}
  /\ UNCHANGED <<calls, capPc, waitsFor, told, roll>>

NestedThrows(t) == holds' = [holds EXCEPT ![t] = @ + 1] /\ UNCHANGED windows

CallbackAdds(t, c) ==
  /\ Len(mClients) < ClientBound
  /\ AddToList(c)
  /\ \/ \E s \in Brings(c) :
          AddWindow(c, s) /\ Notes(OddAdd(c) \cup OddSurface(s))
        /\ UNCHANGED holds
     \/ NestedThrows(t) /\ Notes({"threw"})
  /\ Nested(t)

CallbackRemoves(t, c) ==
  /\ RemoveFromList(c)
  /\ \/ \E s \in IF c \in Encoders THEN Brings(c) ELSE {<<c, 1>>} :
          RemoveWindow(c, s) /\ Notes(OddSlot(c) \cup OddSurface(s))
        /\ UNCHANGED holds
     \/ NestedThrows(t) /\ Notes({"threw"})
  /\ Nested(t)

CallbackReleases(t) ==
  /\ RemoveLoop
  /\ IF RemoveLoopThrows
     THEN NestedThrows(t) /\ Notes({"threw"})
     ELSE ReleaseCamera /\ UNCHANGED <<holds, oddities>>
  /\ Nested(t)

AppCall(a) == CallAdd(a) \/ CallRemove(a) \/ CallRelease(a)

AppWork(a) ==
  \/ AddLock(a) \/ AddSurface(a) \/ RemoveLock(a) \/ RemoveSurface(a)
  \/ SurfaceThrows(a) \/ ReleaseLock(a) \/ ReleaseNative(a)

CallbackEnds(t) == CallbackReturns(t) \/ CallbackThrows(t)

CallbackWork(t) ==
  \/ \E c \in Clients : CallbackAdds(t, c) \/ CallbackRemoves(t, c)
  \/ CallbackReleases(t) \/ CallbackWaits(t) \/ CallbackEnds(t)

CapWork(t) == NextClient(t) \/ NotifyUnlock(t) \/ IteratorThrows(t) \/ WaitOver(t)

Next ==
  \/ \E a \in Apps : AppCall(a) \/ AppWork(a)
  \/ \E t \in Caps : NotifyLock(t) \/ CapWork(t) \/ CallbackWork(t)

(***************************************************************************)
(* A call that has begun goes on, and a thread that finds the lock free    *)
(* again and again gets it; a callback does not run for ever.  Nothing     *)
(* obliges anybody to call or to notify.                                   *)
(***************************************************************************)
Fairness ==
  /\ \A a \in Apps : SF_vars(AppWork(a))
  /\ \A t \in Caps : WF_vars(CapWork(t)) /\ SF_vars(CallbackEnds(t))

Spec == Init /\ [][Next]_vars /\ Fairness

-----------------------------------------------------------------------------
(***************************************************************************)
(* Every window that is drawn belongs to a client in mClients or to a call *)
(* that is about to remove it, as long as getSurface answers with the same *)
(* valid window and nothing throws (removeClient, release).                *)
(***************************************************************************)
Removing(c) ==
  \E a \in Apps : \/ appPc[a] = "remove_surface" /\ appArg[a] = c
                  \/ appPc[a] = "release_native"

AttachedIsRegistered ==
  oddities \cap {"threw", "unstable", "no_surface"} = {} =>
    \A w \in Drawn :
      w[1] \in Registered \/ Removing(w[1])

(***************************************************************************)
(* Every client in mClients gets its picture, unless there were two        *)
(* preview clients for the one slot, a client was added twice, its surface *)
(* was none, or something threw (addClient, removeClient).                 *)
(***************************************************************************)
Adding(c) == \E a \in Apps : appPc[a] = "add_surface" /\ appArg[a] = c

RegisteredIsAttached ==
  native /\ oddities \subseteq {"unstable"} =>
    \A c \in Registered :
      (\E w \in Drawn : w[1] = c) \/ Adding(c)

(***************************************************************************)
(* A lock that a thread holds outside its sections is an exception's.      *)
(* Every other way out of a section gives it back (all of Camera.java).    *)
(***************************************************************************)
LockGivenBack ==
  "threw" \in oddities \/
    /\ \A a \in Apps : holds[a] > 0 => appPc[a] \in InSection
    /\ \A t \in Caps : holds[t] > 0 => capPc[t] \in Walking

(***************************************************************************)
(* A notification walks through one and the same list: only its own        *)
(* callbacks can change it, no other thread can (notifyFirstCapture,       *)
(* notifyCaptureStop, notifyCameraError).                                  *)
(***************************************************************************)
NotificationSeesOneList ==
  \A t \in Caps : capPc[t] \in Walking /\ t \notin ownChange
                    => mClients = roll[t] /\ t \notin stale

(***************************************************************************)
(* What a notification does: it tells clients of the list it began with,   *)
(* in their order and none twice; it tells all of them when it ends        *)
(* without a change by its own callbacks; and its iterator throws only     *)
(* after such a change.                                                    *)
(***************************************************************************)
NotificationOutcome ==
  [][\A t \in Caps :
       capPc[t] = "iterate" =>
         /\ IsPrefix(told[t], roll[t])
         /\ capPc'[t] = "run" /\ t \notin ownChange => told[t] = roll[t]
         /\ capPc'[t] = "gone" => t \in ownChange]_vars

(***************************************************************************)
(* A call returns, unless an exception has kept the lock, or a callback    *)
(* waits for a thread that waits for the lock (addClient, removeClient,    *)
(* release against the notifications).                                     *)
(***************************************************************************)
Deadlocked ==
  \E t \in Caps : capPc[t] = "waiting" /\
    appPc[waitsFor[t]] \in {"add_lock", "remove_lock", "release_lock"}

CallsReturn ==
  \A a \in Apps :
    (appPc[a] # "idle") ~> (appPc[a] = "idle" \/ "threw" \in oddities \/ Deadlocked)

=============================================================================
