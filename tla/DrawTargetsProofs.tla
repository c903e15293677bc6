------------------------- MODULE DrawTargetsProofs --------------------------
(***************************************************************************)
(* Proofs about DrawTargets for any number of callers and windows.         *)
(***************************************************************************)
EXTENDS DrawTargets, SequenceTheorems, WellFoundedInduction, TLAPS

\* Whoever is inside a locked section owns the lock, and nobody else does.
LockInv ==
  /\ callPc \in [Callers -> CallPcs]
  /\ capPc = "pv_draw" <=> previewLock = "capture"
  /\ capPc = "enc_draw" <=> encoderLock = "capture"
  /\ \A c \in Callers : callPc[c] = "set_store" <=> previewLock = c

(***************************************************************************)
(* The copy is the pointer in mPreviewSurface, and that pointer counts as  *)
(* a reference, as long as no assignment has touched it since.  Behind the *)
(* lock mPreviewSurface is not NULL.                                       *)
(***************************************************************************)
CopyInv ==
  /\ capPc \in {"pv_inc", "pv_lock"} /\ ~raced => nativeWindow = mPreviewSurface /\ ~Assigning
  /\ capPc = "pv_draw" => mPreviewSurface # NoWindow
  /\ PreviewDrawsCurrent
  /\ FaultNeedsRace

DrawInv == LockInv /\ CopyInv

LEMMA DrawInit == Init => DrawInv
  BY CallersAssumption
  DEF Init, DrawInv, LockInv, CopyInv, CallPcs, Assigning, PreviewDrawsCurrent, FaultNeedsRace

LEMMA DrawNext == DrawInv /\ [Next]_vars => DrawInv'
<1> SUFFICES ASSUME DrawInv, [Next]_vars PROVE DrawInv'
  OBVIOUS
<1> USE CallersAssumption
    DEF DrawInv, LockInv, CopyInv, CallPcs, Assigning, PreviewDrawsCurrent, FaultNeedsRace,
        targets, capture, calls, world
<1>1. ASSUME NEW c \in Callers,
             CallSetPreview(c) \/ CallAddEncoder(c) \/ CallRemoveEncoder(c)
      PROVE  DrawInv'
  BY <1>1 DEF CallSetPreview, CallAddEncoder, CallRemoveEncoder, Call
<1>2. ASSUME NEW c \in Callers, CallWork(c) PROVE DrawInv'
  <2>1. CASE DropOldPreview(c)
    BY <2>1 DEF DropOldPreview
  <2>2. CASE StorePreview(c)
    BY <2>2 DEF StorePreview, Return
  <2>3. CASE PushEncoder(c) \/ RemoveEncoder(c)
    BY <2>3 DEF PushEncoder, RemoveEncoder, Return
  <2> QED
    BY <1>2, <2>1, <2>2, <2>3 DEF CallWork
<1>3. ASSUME CaptureWork, fault = "none" PROVE DrawInv'
  <2>1. CASE LoadPreview
    <3>1. ~raced' => ~Assigning
      BY <2>1 DEF LoadPreview
    <3>2. Assigning' <=> Assigning
      BY <2>1 DEF LoadPreview
    <3> QED
      BY <1>3, <2>1, <3>1, <3>2 DEF LoadPreview
  <2>2. CASE IncStrong
    BY <2>2 DEF IncStrong, Referenced
  <2>3. CASE LockPreview
    BY <2>3 DEF LockPreview
  <2>4. CASE DrawPreview
    BY <2>4 DEF DrawPreview
  <2>5. CASE NullWindow
    BY <2>5 DEF NullWindow
  <2>6. CASE LockEncoders \/ DrawEncoder \/ UnlockEncoders
    BY <2>6 DEF LockEncoders, DrawEncoder, UnlockEncoders
  <2> QED
    BY <1>3, <2>1, <2>2, <2>3, <2>4, <2>5, <2>6 DEF CaptureWork
<1>4. ASSUME NEW w \in Windows, Drain(w) \/ Abandon(w) \/ Drop(w) PROVE DrawInv'
  BY <1>4 DEF Drain, Abandon, Drop
<1>5. CASE UNCHANGED vars
  BY <1>5 DEF vars
<1> QED
  BY <1>1, <1>2, <1>3, <1>4, <1>5, WindowsAssumption DEF Next

LEMMA DrawCorrect == Spec => []DrawInv
  BY DrawInit, DrawNext, PTL DEF Spec

(***************************************************************************)
(* drawPreviewSurface: a freed or a NULL window is used only after an      *)
(* assignment to mPreviewSurface between its unlocked copy and the lock.   *)
(***************************************************************************)
THEOREM RaceCorrect == Spec => []FaultNeedsRace
<1>1. DrawInv => FaultNeedsRace
  BY DEF DrawInv, CopyInv
<1> QED
  BY <1>1, DrawCorrect, PTL

(***************************************************************************)
(* drawPreviewSurface: without such an assignment the frame goes to the    *)
(* window that is set.                                                     *)
(***************************************************************************)
THEOREM PreviewCorrect == Spec => []PreviewDrawsCurrent
<1>1. DrawInv => PreviewDrawsCurrent
  BY DEF DrawInv, CopyInv
<1> QED
  BY <1>1, DrawCorrect, PTL

(***************************************************************************)
(* drawEncoderSurface: the list it iterates over does not change under it. *)
(***************************************************************************)
THEOREM EncodersCorrect == Spec => EncodersFixedWhileDrawn
<1>1. ASSUME DrawInv, [Next]_vars
      PROVE  [capPc = "enc_draw" => UNCHANGED mEncoderSurfaces]_vars
  <2> SUFFICES ASSUME capPc = "enc_draw", ~UNCHANGED mEncoderSurfaces PROVE FALSE
    OBVIOUS
  <2>1. encoderLock = "capture"
    BY <1>1 DEF DrawInv, LockInv
  <2>2. PICK c \in Callers : PushEncoder(c) \/ RemoveEncoder(c)
    BY <1>1, WindowsAssumption
       DEF Next, vars, targets, CaptureWork, CallWork, CallSetPreview, CallAddEncoder,
           CallRemoveEncoder, Call, DropOldPreview, StorePreview, LoadPreview, IncStrong,
           LockPreview, DrawPreview, NullWindow, LockEncoders, DrawEncoder, UnlockEncoders,
           Drain, Abandon, Drop
  <2> QED
    BY <2>1, <2>2 DEF PushEncoder, RemoveEncoder
<1> QED
  BY <1>1, DrawCorrect, PTL DEF Spec, EncodersFixedWhileDrawn

-----------------------------------------------------------------------------
(***************************************************************************)
(* The types.  mEncoderSurfaces stays a list of windows because            *)
(* std::list::remove leaves a part of the list, and the position of        *)
(* drawEncoderSurface stays in it because the list does not change while   *)
(* there is one.                                                           *)
(***************************************************************************)

\* A nonempty set of natural numbers has a least element.
LEMMA LeastElement ==
  ASSUME NEW I \in SUBSET Nat, I # {}
  PROVE  \E x \in I : \A y \in I : x <= y
<1> DEFINE Less == {p \in Nat \X Nat : p[1] < p[2]}
<1>1. Less = OpToRel(<, Nat)
  BY Zenon DEF OpToRel
<1>2. IsWellFoundedOn(Less, Nat)
  BY <1>1, NatLessThanWellFounded
<1> HIDE DEF Less
<1>3. PICK x \in I : \A y \in I : <<y, x>> \notin Less
  BY <1>2, WFMin
<1>4. ASSUME NEW y \in I, y < x PROVE FALSE
  <2>1. <<y, x>> \in Less
    BY <1>4 DEF Less
  <2> QED
    BY <1>3, <2>1
<1> QED
  BY <1>4

\* The function that Without defines exists, and is what its equation says.
Left(list, w, f, n) ==
  f = [i \in 0 .. n |-> IF i = 0 THEN <<>>
                        ELSE IF list[i] = w THEN f[i - 1] ELSE Append(f[i - 1], list[i])]

LEMMA LeftExists ==
  ASSUME NEW list, NEW w, NEW n \in Nat
  PROVE  \E f : Left(list, w, f, n)
<1> DEFINE Bad == {k \in Nat : ~\E f : Left(list, w, f, k)}
<1> SUFFICES ASSUME Bad # {} PROVE FALSE
  OBVIOUS
<1>1. PICK k \in Bad : \A j \in Bad : k <= j
  BY LeastElement
<1>2. CASE k = 0
  <2>1. Left(list, w, [i \in 0 .. 0 |-> <<>>], 0)
    BY DEF Left
  <2> QED
    BY <1>2, <2>1
<1>3. CASE k # 0
  <2>1. k - 1 \in Nat /\ k - 1 \notin Bad
    BY <1>1, <1>3
  <2>2. PICK g : Left(list, w, g, k - 1)
    BY <2>1
  <2> DEFINE last == IF list[k] = w THEN g[k - 1] ELSE Append(g[k - 1], list[k])
             f == [i \in 0 .. k |-> IF i < k THEN g[i] ELSE last]
  <2>3. ASSUME NEW i \in 0 .. k
        PROVE  f[i] = IF i = 0 THEN <<>>
                      ELSE IF list[i] = w THEN f[i - 1] ELSE Append(f[i - 1], list[i])
    <3>1. i < k => i \in 0 .. k - 1 /\ f[i] = g[i]
      BY <2>1
    <3>2. i # 0 => i - 1 \in 0 .. k - 1 /\ f[i - 1] = g[i - 1]
      BY <2>1
    <3>3. CASE i < k
      BY <2>2, <3>1, <3>2, <3>3 DEF Left
    <3>4. CASE i = k
      BY <1>3, <3>2, <3>4
    <3> QED
      BY <2>1, <3>3, <3>4
  <2>4. Left(list, w, f, k)
    BY <2>3 DEF Left
  <2> QED
    BY <2>4
<1> QED
  BY <1>2, <1>3

LEMMA AppendElements ==
  ASSUME NEW s \in Seq(Windows), NEW e \in Windows
  PROVE  \A x : (\E i \in DOMAIN Append(s, e) : Append(s, e)[i] = x)
                   <=> x = e \/ \E i \in DOMAIN s : s[i] = x
<1> DEFINE t == Append(s, e)
           n == Len(s)
<1>1. /\ t \in Seq(Windows) /\ Len(t) = n + 1 /\ t[n + 1] = e
      /\ \A i \in 1 .. n : t[i] = s[i]
  BY AppendProperties
<1>2. n \in Nat /\ DOMAIN s = 1 .. n /\ DOMAIN t = 1 .. n + 1
  BY <1>1, LenProperties
<1> HIDE DEF t, n
<1>3. ASSUME NEW x PROVE (\E i \in DOMAIN t : t[i] = x) <=> x = e \/ \E i \in DOMAIN s : s[i] = x
  <2>1. ASSUME NEW i \in DOMAIN t PROVE t[i] = e \/ (i \in DOMAIN s /\ t[i] = s[i])
    <3>1. i = n + 1 \/ i \in 1 .. n
      BY <1>2
    <3> QED
      BY <1>1, <1>2, <3>1
  <2>2. ASSUME NEW i \in DOMAIN s PROVE i \in DOMAIN t /\ t[i] = s[i]
    BY <1>1, <1>2
  <2>3. n + 1 \in DOMAIN t
    BY <1>2
  <2> QED
    BY <1>1, <2>1, <2>2, <2>3, Zenon
<1> QED
  BY <1>3 DEF t

\* What std::list::remove leaves: every window but w, and nothing else.
LEMMA WithoutProperties ==
  ASSUME NEW list \in Seq(Windows), NEW w
  PROVE  /\ Without(list, w) \in Seq(Windows)
         /\ \A x : (\E i \in DOMAIN Without(list, w) : Without(list, w)[i] = x)
                  <=> x # w /\ \E i \in DOMAIN list : list[i] = x
<1> DEFINE n == Len(list)
           f == CHOOSE g : Left(list, w, g, n)
           In(s, x) == \E i \in DOMAIN s : s[i] = x
           Good(i) == /\ f[i] \in Seq(Windows)
                      /\ \A x : In(f[i], x) <=> x # w /\ \E j \in 1 .. i : list[j] = x
           Bad == {i \in 0 .. n : ~Good(i)}
<1>1. n \in Nat /\ DOMAIN list = 1 .. n
  BY LenProperties
<1>2. Left(list, w, f, n)
  BY <1>1, LeftExists
<1>3. Without(list, w) = f[n]
  BY DEF Without, Left
<1> HIDE DEF f
<1>4. Bad = {}
  <2> SUFFICES ASSUME Bad # {} PROVE FALSE
    OBVIOUS
  <2> HIDE DEF Good
  <2>0. Bad \in SUBSET Nat
    BY <1>1
  <2>1. PICK k \in Bad : \A j \in Bad : k <= j
    <3> HIDE DEF Bad
    <3> QED
      BY <2>0, LeastElement
  <2> USE DEF Good
  <2>2. CASE k = 0
    <3>1. f[0] = <<>>
      BY <1>1, <1>2 DEF Left
    <3>2. Good(0)
      BY <3>1
    <3> QED
      BY <2>2, <3>2
  <2>3. CASE k # 0
    <3>1. k - 1 \in 0 .. n /\ Good(k - 1) /\ k \in 1 .. n
      <4> HIDE DEF Good
      <4> QED
        BY <1>1, <2>1, <2>3
    <3>2. f[k] = IF list[k] = w THEN f[k - 1] ELSE Append(f[k - 1], list[k])
      BY <1>1, <1>2, <2>3 DEF Left
    <3>3. \A x : (\E j \in 1 .. k : list[j] = x)
                    <=> x = list[k] \/ \E j \in 1 .. k - 1 : list[j] = x
      BY <3>1
    <3>4. CASE list[k] = w
      BY <3>1, <3>2, <3>3, <3>4
    <3>5. CASE list[k] # w
      <4>1. list[k] \in Windows
        BY <1>1, <3>1, ElementOfSeq
      <4>2. f[k] = Append(f[k - 1], list[k]) /\ f[k - 1] \in Seq(Windows)
        BY <3>1, <3>2, <3>5
      <4>3. f[k] \in Seq(Windows)
        BY <4>1, <4>2, AppendProperties
      <4>4. \A x : In(f[k], x) <=> x = list[k] \/ In(f[k - 1], x)
        <5> DEFINE s == f[k - 1]
                   e == list[k]
        <5>1. s \in Seq(Windows) /\ e \in Windows /\ f[k] = Append(s, e)
          BY <4>1, <4>2
        <5> HIDE DEF s, e
        <5>2. \A x : In(Append(s, e), x) <=> x = e \/ In(s, x)
          BY <5>1, AppendElements
        <5> HIDE DEF In
        <5>3. \A x : In(f[k], x) <=> x = e \/ In(s, x)
          BY <5>1, <5>2
        <5> QED
          BY <5>3 DEF s, e
      <4> HIDE DEF In
      <4> QED
        BY <3>1, <3>3, <3>5, <4>3, <4>4
    <3> QED
      BY <3>4, <3>5
  <2> QED
    BY <2>2, <2>3
<1>5. Good(n)
  <2> HIDE DEF Good
  <2> QED
    BY <1>1, <1>4
<1> QED
  BY <1>1, <1>3, <1>5

(***************************************************************************)
(* TypeInv adds which calls may have NULL for an argument, and that a      *)
(* position other than the first needs the lock.                           *)
(***************************************************************************)
TypeInv ==
  /\ TypeOK
  /\ capPc # "enc_draw" => next = 1
  /\ \A c \in Callers : callPc[c] = "add_lock" => callArg[c] \in Windows

LEMMA TypeInit == Init => TypeInv
<1> SUFFICES ASSUME Init PROVE TypeInv
  OBVIOUS
<1>1. mEncoderSurfaces \in Seq(Windows) /\ Len(mEncoderSurfaces) = 0
  BY EmptySeq DEF Init
<1>2. next \in 1 .. Len(mEncoderSurfaces) + 1
  BY <1>1 DEF Init
<1>3. posted \in [Windows -> 0 .. Slots]
  BY SlotsAssumption DEF Init
<1> QED
  BY <1>1, <1>2, <1>3 DEF Init, TypeInv, TypeOK, CallPcs, CapPcs, Owners

\* A frame goes into a queue that has room for it.
LEMMA TakesFrameType ==
  ASSUME posted \in [Windows -> 0 .. Slots], NEW w \in Windows, TakesFrame(w)
  PROVE  posted' \in [Windows -> 0 .. Slots]
  BY SlotsAssumption DEF TakesFrame

LEMMA TypeNext == DrawInv /\ TypeInv /\ [Next]_vars => TypeInv'
<1> SUFFICES ASSUME DrawInv, TypeInv, [Next]_vars PROVE TypeInv'
  OBVIOUS
<1> USE DEF TypeInv, TypeOK, CallPcs, CapPcs, targets, capture, calls, world
<1>1. ASSUME NEW c \in Callers,
             CallSetPreview(c) \/ CallAddEncoder(c) \/ CallRemoveEncoder(c)
      PROVE  TypeInv'
  <2>1. PICK to \in {"set_lock", "add_lock", "remove_lock"}, w \in Windows \cup {NoWindow} :
          Call(c, to, w) /\ (to = "add_lock" => w \in Windows)
    BY <1>1 DEF CallSetPreview, CallAddEncoder, CallRemoveEncoder
  <2> QED
    BY <2>1 DEF Call
<1>2. ASSUME NEW c \in Callers, CallWork(c) PROVE TypeInv'
  <2>1. CASE DropOldPreview(c)
    BY <2>1 DEF DropOldPreview, Owners
  <2>2. CASE StorePreview(c)
    BY <2>2 DEF StorePreview, Return, Owners
  <2>3. CASE PushEncoder(c)
    <3>1. callArg[c] \in Windows
      BY <2>3 DEF PushEncoder
    <3>2. /\ mEncoderSurfaces' \in Seq(Windows)
          /\ Len(mEncoderSurfaces') = Len(mEncoderSurfaces) + 1
      BY <2>3, <3>1, AppendProperties DEF PushEncoder
    <3>3. next' \in 1 .. Len(mEncoderSurfaces') + 1
      BY <2>3, <3>2, LenProperties DEF PushEncoder
    <3> QED
      BY <2>3, <3>2, <3>3 DEF PushEncoder, Return
  <2>4. CASE RemoveEncoder(c)
    <3>1. capPc # "enc_draw"
      BY <2>4, CallersAssumption DEF RemoveEncoder, DrawInv, LockInv
    <3>2. mEncoderSurfaces' \in Seq(Windows)
      BY <2>4, WithoutProperties DEF RemoveEncoder
    <3>3. next' \in 1 .. Len(mEncoderSurfaces') + 1
      BY <2>4, <3>1, <3>2, LenProperties DEF RemoveEncoder
    <3> QED
      BY <2>4, <3>2, <3>3 DEF RemoveEncoder, Return
  <2> QED
    BY <1>2, <2>1, <2>2, <2>3, <2>4 DEF CallWork
<1>3. ASSUME CaptureWork PROVE TypeInv'
  <2>1. CASE LoadPreview
    BY <2>1 DEF LoadPreview, Assigning
  <2>2. CASE IncStrong
    BY <2>2 DEF IncStrong
  <2>3. CASE LockPreview
    BY <2>3 DEF LockPreview, Owners
  <2>4. CASE DrawPreview
    BY <2>4, TakesFrameType DEF DrawPreview, Owners
  <2>5. CASE NullWindow
    BY <2>5 DEF NullWindow
  <2>6. CASE LockEncoders
    BY <2>6, LenProperties DEF LockEncoders, Owners
  <2>7. CASE DrawEncoder
    <3>1. mEncoderSurfaces[next] \in Windows
      BY <2>7, LenProperties, ElementOfSeq DEF DrawEncoder
    <3>2. next' \in 1 .. Len(mEncoderSurfaces) + 1
      BY <2>7, LenProperties DEF DrawEncoder
    <3> QED
      BY <2>7, <3>1, <3>2, TakesFrameType DEF DrawEncoder
  <2>8. CASE UnlockEncoders
    BY <2>8, LenProperties DEF UnlockEncoders, Owners
  <2> QED
    BY <1>3, <2>1, <2>2, <2>3, <2>4, <2>5, <2>6, <2>7, <2>8 DEF CaptureWork
<1>4. ASSUME NEW w \in Windows, Drain(w) \/ Abandon(w) \/ Drop(w) PROVE TypeInv'
  <2>1. posted' \in [Windows -> 0 .. Slots]
    BY <1>4, SlotsAssumption DEF Drain, Abandon, Drop
  <2>2. UNCHANGED <<targets, capture, calls, fault, raced>>
    BY <1>4 DEF Drain, Abandon, Drop
  <2>3. dropped' \subseteq Windows /\ abandoned' \subseteq Windows
    BY <1>4 DEF Drain, Abandon, Drop
  <2> QED
    BY <2>1, <2>2, <2>3
<1>5. CASE UNCHANGED vars
  BY <1>5 DEF vars
<1> QED
  BY <1>1, <1>2, <1>3, <1>4, <1>5, WindowsAssumption DEF Next

(***************************************************************************)
(* mEncoderSurfaces holds windows, never NULL, and drawEncoderSurface is   *)
(* inside it; no window gets more frames than it has buffers.              *)
(***************************************************************************)
THEOREM TypeCorrect == Spec => []TypeOK
<1>1. Spec => []TypeInv
  BY DrawCorrect, TypeInit, TypeNext, PTL DEF Spec
<1>2. TypeInv => TypeOK
  BY DEF TypeInv
<1> QED
  BY <1>1, <1>2, PTL

=============================================================================
