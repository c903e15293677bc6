------------------------ MODULE CameraClientsProofs -------------------------
(***************************************************************************)
(* Proofs about CameraClients for any threads and clients.                 *)
(***************************************************************************)
EXTENDS CameraClients, SequenceTheorems, WellFoundedInduction, TLAPS

\* A call of addClient or removeClient is about a client.
ArgInv ==
  \A a \in Apps :
    appPc[a] \in InSection \cup {"add_lock", "remove_lock"} => appArg[a] \in Clients

(***************************************************************************)
(* Who is in a section has locked mClientLock, and nobody else has; only   *)
(* an exception makes the count differ from the sections a thread is in.   *)
(***************************************************************************)
InLock(t) ==
  IF t \in Apps THEN appPc[t] \in InSection ELSE capPc[t] \in Walking

LockInv ==
  /\ \A t, u \in Threads : t # u => holds[t] = 0 \/ holds[u] = 0
  /\ \A t \in Threads : InLock(t) => holds[t] # 0
  /\ "threw" \notin oddities =>
       \A t \in Threads : holds[t] = IF InLock(t) THEN 1 ELSE 0

(***************************************************************************)
(* What an iterator knows of the list: all of it until its own callback    *)
(* changes it, and it has told a prefix of the list it began with.         *)
(***************************************************************************)
ToldPrefix(t) ==
  Len(told[t]) <= Len(roll[t]) /\ \A i \in 1 .. Len(told[t]) : told[t][i] = roll[t][i]

WalkInv ==
  \A t \in Caps :
    /\ capPc[t] \in Walking => /\ ToldPrefix(t)
                               /\ t \notin stale => mClients = roll[t]
                               /\ t \in stale => t \in ownChange
    /\ capPc[t] \notin Walking => told[t] = <<>> /\ t \notin stale

ClientsInv == TypeOK /\ ArgInv /\ LockInv /\ WalkInv

(***************************************************************************)
(* The preview is a window of a preview client, the encoders' windows are  *)
(* windows of encoders, and without a native object there are none.        *)
(***************************************************************************)
OwnedInv ==
  /\ preview # Null => preview[1] \notin Encoders
  /\ \A w \in encoders : w[1] \in Encoders
  /\ ~native => preview = Null /\ encoders = {}

(***************************************************************************)
(* What a call of addClient or removeClient in its section finds in the    *)
(* list, and what each surface that getSurface returned has led to.        *)
(***************************************************************************)
Calm    == oddities \cap {"threw", "unstable", "no_surface"} = {}
Orderly == oddities \subseteq {"unstable"}

\* The clients that have a window drawn.
Pictured == {w[1] : w \in Drawn}
Stable   == \A w \in Drawn : w[2] = 1
NoTwice  == \A i, j \in 1 .. Len(mClients) : mClients[i] = mClients[j] => i = j

SectionInv ==
  \A a \in Apps :
    /\ appPc[a] = "add_surface" =>
         /\ appArg[a] \in Registered
         /\ Orderly /\ appArg[a] \notin Encoders => Registered \subseteq Encoders \cup {appArg[a]}
    /\ appPc[a] = "remove_surface" /\ Orderly =>
         /\ appArg[a] \notin Registered
         /\ appArg[a] \notin Encoders => Registered \subseteq Encoders

AttachInv ==
  /\ Calm => Stable /\ \A c \in Pictured : c \in Registered \/ Removing(c)
  /\ Orderly => NoTwice
  /\ native /\ Orderly => \A c \in Registered : c \in Pictured \/ Adding(c)

WindowsInv == OwnedInv /\ SectionInv /\ AttachInv

-----------------------------------------------------------------------------
\* A nonempty set of positions has a first one.
LEMMA MinProperty ==
  ASSUME NEW I \in SUBSET Nat, I # {}
  PROVE  Min(I) \in I
<1> DEFINE Less == {p \in Nat \X Nat : p[1] < p[2]}
<1>1. Less = OpToRel(<, Nat)
  BY Zenon DEF OpToRel
<1>2. IsWellFoundedOn(Less, Nat)
  BY <1>1, NatLessThanWellFounded
<1> HIDE DEF Less
<1>3. PICK x \in I : \A y \in I : <<y, x>> \notin Less
  BY <1>2, WFMin
<1>4. \A y \in I : x <= y
  <2> SUFFICES ASSUME NEW y \in I, y < x PROVE FALSE
    OBVIOUS
  <2>1. <<y, x>> \in Nat \X Nat /\ <<y, x>>[1] < <<y, x>>[2]
    OBVIOUS
  <2>2. <<y, x>> \in Less
    BY <2>1, Zenon DEF Less
  <2> QED
    BY <1>3, <2>2
<1> QED
  BY <1>4 DEF Min

\* List.remove takes one element out and moves those behind it up.
LEMMA RemoveFirstShape ==
  ASSUME NEW s \in Seq(Clients), NEW c, \E i \in 1 .. Len(s) : s[i] = c
  PROVE  \E k \in 1 .. Len(s) :
           /\ s[k] = c
           /\ RemoveFirst(s, c) \in Seq(Clients)
           /\ Len(RemoveFirst(s, c)) = Len(s) - 1
           /\ \A i \in 1 .. Len(s) - 1 :
                RemoveFirst(s, c)[i] = IF i < k THEN s[i] ELSE s[i + 1]
<1> DEFINE I == {i \in 1 .. Len(s) : s[i] = c}
           k == Min(I)
           front == SubSeq(s, 1, k - 1)
           back == SubSeq(s, k + 1, Len(s))
<1>1. I \in SUBSET Nat /\ I # {} /\ I \subseteq 1 .. Len(s)
  OBVIOUS
<1>2. RemoveFirst(s, c) = front \o back
  BY DEF RemoveFirst, RemoveAt, SelectInSeq
<1>3. k \in I
  <2> HIDE DEF I
  <2> QED
    BY <1>1, MinProperty
<1> HIDE DEF k
<1>4. k \in 1 .. Len(s) /\ s[k] = c
  BY <1>3
<1>5. \A i \in 1 .. Len(s) : s[i] \in Clients
  BY ElementOfSeq
<1>6. /\ 1 \in Int /\ k - 1 \in Int /\ k + 1 \in Int /\ Len(s) \in Int
      /\ \A i \in 1 .. k - 1 : s[i] \in Clients
      /\ \A i \in k + 1 .. Len(s) : s[i] \in Clients
  BY <1>4, <1>5, LenProperties
<1>7. front \in Seq(Clients) /\ Len(front) = k - 1 /\ \A i \in 1 .. k - 1 : front[i] = s[i]
  BY <1>4, <1>6, SubSeqProperties
<1>8. /\ back \in Seq(Clients) /\ Len(back) = Len(s) - k
      /\ \A i \in 1 .. Len(s) - k : back[i] = s[k + i]
  BY <1>4, <1>6, SubSeqProperties
<1> HIDE DEF front, back
<1>9. /\ front \o back \in Seq(Clients)
      /\ Len(front \o back) = Len(s) - 1
      /\ \A i \in 1 .. Len(s) - 1 :
           (front \o back)[i] = IF i <= k - 1 THEN front[i] ELSE back[i - (k - 1)]
  <2>1. /\ front \o back \in Seq(Clients)
        /\ Len(front \o back) = Len(front) + Len(back)
        /\ \A i \in 1 .. Len(front) + Len(back) :
             (front \o back)[i] = IF i <= Len(front) THEN front[i] ELSE back[i - Len(front)]
    BY <1>7, <1>8, ConcatProperties
  <2>2. Len(front) + Len(back) = Len(s) - 1
    BY <1>4, <1>6, <1>7, <1>8
  <2> QED
    BY <1>7, <2>1, <2>2
<1>10. ASSUME NEW i \in 1 .. Len(s) - 1
       PROVE  (front \o back)[i] = IF i < k THEN s[i] ELSE s[i + 1]
  <2>1. CASE i < k
    BY <1>4, <1>6, <1>7, <1>9, <2>1
  <2>2. CASE ~(i < k)
    <3>1. i - (k - 1) \in 1 .. Len(s) - k /\ k + (i - (k - 1)) = i + 1
      BY <1>4, <1>6, <2>2
    <3> QED
      BY <1>4, <1>6, <1>8, <1>9, <2>2, <3>1
  <2> QED
    BY <2>1, <2>2
<1> QED
  BY <1>2, <1>4, <1>9, <1>10

\* What List.remove leaves, and that a client added once is gone.
LEMMA RemoveFirstSet ==
  ASSUME NEW s \in Seq(Clients), NEW c, c \in ToSet(s)
  PROVE  /\ RemoveFirst(s, c) \in Seq(Clients)
         /\ ToSet(RemoveFirst(s, c)) \subseteq ToSet(s)
         /\ ToSet(s) \subseteq ToSet(RemoveFirst(s, c)) \cup {c}
         /\ (\A i, j \in 1 .. Len(s) : s[i] = s[j] => i = j) =>
              /\ c \notin ToSet(RemoveFirst(s, c))
              /\ \A i, j \in 1 .. Len(RemoveFirst(s, c)) :
                   RemoveFirst(s, c)[i] = RemoveFirst(s, c)[j] => i = j
<1> DEFINE r == RemoveFirst(s, c)
<1>1. PICK k \in 1 .. Len(s) :
        /\ s[k] = c /\ r \in Seq(Clients) /\ Len(r) = Len(s) - 1
        /\ \A i \in 1 .. Len(s) - 1 : r[i] = IF i < k THEN s[i] ELSE s[i + 1]
  <2>1. \E i \in 1 .. Len(s) : s[i] = c
    BY LenProperties DEF ToSet
  <2> QED
    BY <2>1, RemoveFirstShape
<1> HIDE DEF r
<1>2. Len(s) \in Nat /\ DOMAIN s = 1 .. Len(s) /\ DOMAIN r = 1 .. Len(s) - 1
  BY <1>1, LenProperties
<1>3. ToSet(r) \subseteq ToSet(s)
  <2> SUFFICES ASSUME NEW i \in 1 .. Len(s) - 1 PROVE r[i] \in ToSet(s)
    BY <1>2 DEF ToSet
  <2>1. i \in 1 .. Len(s) /\ i + 1 \in 1 .. Len(s) /\ (r[i] = s[i] \/ r[i] = s[i + 1])
    BY <1>1, <1>2
  <2> QED
    BY <1>2, <2>1 DEF ToSet
<1>4. ToSet(s) \subseteq ToSet(r) \cup {c}
  <2> SUFFICES ASSUME NEW i \in 1 .. Len(s), i # k PROVE s[i] \in ToSet(r)
    BY <1>1, <1>2 DEF ToSet
  <2>1. CASE i < k
    <3>1. i \in 1 .. Len(s) - 1 /\ r[i] = s[i]
      BY <1>1, <1>2, <2>1
    <3> QED
      BY <1>2, <3>1 DEF ToSet
  <2>2. CASE ~(i < k)
    <3>1. i - 1 \in 1 .. Len(s) - 1 /\ ~(i - 1 < k) /\ (i - 1) + 1 = i
      BY <1>1, <1>2, <2>2
    <3>2. r[i - 1] = s[i]
      BY <1>1, <3>1
    <3> QED
      BY <1>2, <3>1, <3>2 DEF ToSet
  <2> QED
    BY <2>1, <2>2
<1>5. ASSUME \A i, j \in 1 .. Len(s) : s[i] = s[j] => i = j
      PROVE  /\ c \notin ToSet(r)
             /\ \A i, j \in 1 .. Len(r) : r[i] = r[j] => i = j
  <2> DEFINE at(i) == IF i < k THEN i ELSE i + 1
  <2>1. \A i \in 1 .. Len(s) - 1 : at(i) \in 1 .. Len(s) /\ at(i) # k /\ r[i] = s[at(i)]
    BY <1>1, <1>2
  <2>2. \A i, j \in 1 .. Len(s) - 1 : at(i) = at(j) => i = j
    BY <1>1, <1>2
  <2> HIDE DEF at
  <2>3. c \notin ToSet(r)
    <3> SUFFICES ASSUME NEW i \in 1 .. Len(s) - 1, r[i] = c PROVE FALSE
      BY <1>2 DEF ToSet
    <3> QED
      BY <1>1, <1>5, <2>1
  <2>4. \A i, j \in 1 .. Len(s) - 1 : r[i] = r[j] => i = j
    BY <1>5, <2>1, <2>2
  <2> QED
    BY <1>1, <2>3, <2>4
<1> QED
  BY <1>1, <1>3, <1>4, <1>5 DEF r

\* So does every change of mClients.
LEMMA ListType ==
  ASSUME mClients \in Seq(Clients)
  PROVE  /\ \A c \in Clients : AddToList(c) => mClients' \in Seq(Clients)
         /\ \A c : RemoveFromList(c) => mClients' \in Seq(Clients)
         /\ RemoveLoop => mClients' \in Seq(Clients)
<1>1. ASSUME NEW c \in Clients, AddToList(c) PROVE mClients' \in Seq(Clients)
  BY <1>1, AppendProperties DEF AddToList, Changes
<1>2. ASSUME NEW c, RemoveFromList(c) PROVE mClients' \in Seq(Clients)
  BY <1>2, RemoveFirstSet DEF RemoveFromList, Changes, Registered
<1>3. ASSUME RemoveLoop PROVE mClients' \in Seq(Clients)
  BY <1>3, HeadTailProperties DEF RemoveLoop, Changes
<1> QED
  BY <1>1, <1>2, <1>3

\* What a change of mClients does to the clients that are registered.
LEMMA ListSet ==
  ASSUME mClients \in Seq(Clients)
  PROVE  /\ \A c \in Clients : AddToList(c) =>
              /\ Registered' = Registered \cup {c}
              /\ NoTwice /\ c \notin Registered => NoTwice'
         /\ \A c : RemoveFromList(c) =>
              /\ Registered' \subseteq Registered
              /\ Registered \subseteq Registered' \cup {c}
              /\ NoTwice => NoTwice' /\ c \notin Registered'
         /\ RemoveLoop => Registered' \subseteq Registered /\ (NoTwice => NoTwice')
<1>0. Len(mClients) \in Nat /\ DOMAIN mClients = 1 .. Len(mClients)
  BY LenProperties
<1>1. ASSUME NEW c \in Clients, AddToList(c)
      PROVE  /\ Registered' = Registered \cup {c}
             /\ NoTwice /\ c \notin Registered => NoTwice'
  <2> DEFINE n == Len(mClients)
  <2>1. /\ mClients' = Append(mClients, c)
        /\ mClients' \in Seq(Clients) /\ Len(mClients') = n + 1
        /\ \A i \in 1 .. n : mClients'[i] = mClients[i]
        /\ mClients'[n + 1] = c
    BY <1>1, AppendProperties DEF AddToList, Changes
  <2>2. DOMAIN mClients' = 1 .. n + 1
    BY <2>1, LenProperties
  <2>3. Registered' = Registered \cup {c}
    BY <1>0, <2>1, <2>2 DEF Registered, ToSet
  <2>4. ASSUME NoTwice, c \notin Registered PROVE NoTwice'
    <3>1. \A i \in 1 .. n : mClients[i] # c
      BY <1>0, <2>4 DEF Registered, ToSet
    <3> QED
      BY <1>0, <2>1, <2>4, <3>1 DEF NoTwice
  <2> QED
    BY <2>3, <2>4
<1>2. ASSUME NEW c, RemoveFromList(c)
      PROVE  /\ Registered' \subseteq Registered
             /\ Registered \subseteq Registered' \cup {c}
             /\ NoTwice => NoTwice' /\ c \notin Registered'
  <2>1. CASE c \in Registered
    BY <1>2, <2>1, RemoveFirstSet DEF RemoveFromList, Changes, Registered, NoTwice
  <2>2. CASE c \notin Registered
    BY <1>2, <2>2 DEF RemoveFromList, Registered, NoTwice
  <2> QED
    BY <2>1, <2>2
<1>3. ASSUME RemoveLoop PROVE Registered' \subseteq Registered /\ (NoTwice => NoTwice')
  <2>1. CASE mClients = <<>>
    BY <1>3, <2>1 DEF RemoveLoop, Registered, NoTwice
  <2>2. CASE mClients # <<>>
    <3>1. /\ mClients' \in Seq(Clients) /\ Len(mClients') = Len(mClients) - 1
          /\ \A i \in 1 .. Len(mClients') : mClients'[i] = mClients[i + 1]
      BY <1>3, <2>2, HeadTailProperties DEF RemoveLoop, Changes
    <3>2. DOMAIN mClients' = 1 .. Len(mClients) - 1
      BY <3>1, LenProperties
    <3>3. Registered' \subseteq Registered
      <4> SUFFICES ASSUME NEW i \in 1 .. Len(mClients) - 1 PROVE mClients'[i] \in Registered
        BY <3>2 DEF Registered, ToSet
      <4>1. i + 1 \in DOMAIN mClients /\ mClients'[i] = mClients[i + 1]
        BY <1>0, <3>1
      <4> QED
        BY <4>1 DEF Registered, ToSet
    <3>4. NoTwice => NoTwice'
      BY <1>0, <3>1 DEF NoTwice
    <3> QED
      BY <3>3, <3>4
  <2> QED
    BY <2>1, <2>2
<1> QED
  BY <1>1, <1>2, <1>3

\* A native method sets windows of its argument only.
LEMMA WindowType ==
  ASSUME native \in BOOLEAN, preview \in Windows \cup {Null}, encoders \subseteq Windows
  PROVE  LET Typed == /\ native' \in BOOLEAN
                      /\ preview' \in Windows \cup {Null}
                      /\ encoders' \subseteq Windows
         IN /\ \A c \in Clients : \A s \in Brings(c) :
                 AddWindow(c, s) \/ RemoveWindow(c, s) => Typed
            /\ \A c : RemoveWindow(c, Null) => Typed
            /\ ReleaseCamera => Typed
<1>1. \A c \in Clients : Brings(c) \subseteq Windows \cup {Null, Invalid}
  BY DEF Brings, Windows
<1> QED
  BY <1>1 DEF AddWindow, RemoveWindow, AddEncoder, RemoveEncoder, SetPreview, ReleaseCamera

\* Only the oddities of the model are remembered, "threw" among them for good.
LEMMA OddType ==
  ASSUME oddities \subseteq Oddities
  PROVE  /\ \A c \in Clients : \A s : Notes(OddAdd(c)) \/ Notes(OddSlot(c)) \/ Notes(OddSurface(s))
               \/ Notes(OddAdd(c) \cup OddSurface(s)) \/ Notes(OddSlot(c) \cup OddSurface(s))
               => /\ oddities' \subseteq Oddities
                  /\ "threw" \in oddities' <=> "threw" \in oddities
         /\ Notes({"threw"}) => oddities' \subseteq Oddities /\ "threw" \in oddities'
<1> DEFINE Odd == {"unstable", "no_surface", "two_previews", "added_twice"}
<1>1. ASSUME NEW odd \in SUBSET Odd, Notes(odd)
      PROVE  oddities' \subseteq Oddities /\ ("threw" \in oddities' <=> "threw" \in oddities)
  BY <1>1 DEF Notes, Oddities
<1>2. \A c : OddAdd(c) \subseteq Odd /\ OddSlot(c) \subseteq Odd
  BY DEF OddAdd, OddSlot
<1>3. \A s : OddSurface(s) \subseteq Odd
  BY DEF OddSurface
<1>4. Notes({"threw"}) => oddities' \subseteq Oddities /\ "threw" \in oddities'
  BY DEF Notes, Oddities
<1> HIDE DEF Odd
<1> QED
  BY <1>1, <1>2, <1>3, <1>4

\* The counts of mClientLock are natural numbers.
LEMMA HoldsType ==
  ASSUME holds \in [Threads -> Nat], NEW t \in Threads
  PROVE  /\ Locks(t) \/ NestedThrows(t) => holds' \in [Threads -> Nat]
         /\ Unlocks(t) /\ holds[t] # 0 => holds' \in [Threads -> Nat]
<1>1. holds[t] \in Nat /\ holds[t] + 1 \in Nat /\ (holds[t] # 0 => holds[t] - 1 \in Nat)
  OBVIOUS
<1> QED
  BY <1>1 DEF Locks, NestedThrows, Unlocks

-----------------------------------------------------------------------------
LEMMA ClientsInit == Init => ClientsInv
<1> SUFFICES ASSUME Init PROVE ClientsInv
  OBVIOUS
<1>1. TypeOK
  BY DEF Init, TypeOK, Threads, AppPcs, CapPcs, Oddities
<1>2. ArgInv
  BY DEF Init, ArgInv, InSection
<1>3. LockInv
  BY DEF Init, LockInv, InLock, Threads, InSection, Walking
<1>4. WalkInv
  BY DEF Init, WalkInv, Walking
<1> QED
  BY <1>1, <1>2, <1>3, <1>4 DEF ClientsInv

\* The actions of Next, one name each.
LEMMA NextCases ==
  ASSUME Next, NEW P,
         \A a \in Apps : AppCall(a) => P,
         \A a \in Apps : AddLock(a) \/ RemoveLock(a) => P,
         \A a \in Apps : AddSurface(a) \/ RemoveSurface(a) => P,
         \A a \in Apps : SurfaceThrows(a) => P,
         \A a \in Apps : ReleaseLock(a) => P,
         \A a \in Apps : ReleaseNative(a) => P,
         \A t \in Caps : NotifyLock(t) => P,
         \A t \in Caps : NextClient(t) => P,
         \A t \in Caps : NotifyUnlock(t) => P,
         \A t \in Caps : IteratorThrows(t) \/ CallbackThrows(t) => P,
         \A t \in Caps : CallbackReturns(t) \/ CallbackWaits(t) \/ WaitOver(t) => P,
         \A t \in Caps, c \in Clients : CallbackAdds(t, c) => P,
         \A t \in Caps, c \in Clients : CallbackRemoves(t, c) => P,
         \A t \in Caps : CallbackReleases(t) => P
  PROVE  P
BY DEF Next, AppWork, CapWork, CallbackWork, CallbackEnds

-----------------------------------------------------------------------------
(***************************************************************************)
(* What the native methods do to the clients that are pictured.            *)
(***************************************************************************)
LEMMA AddWindowSets ==
  ASSUME TypeOK, OwnedInv, NEW c \in Clients, NEW s \in Brings(c), AddWindow(c, s)
  PROVE  /\ OwnedInv' /\ UNCHANGED native
         /\ Pictured' \subseteq Pictured \cup {c}
         /\ Stable /\ (s \in Windows => s[2] = 1) => Stable'
         /\ Pictured \cap Encoders \subseteq Pictured'
         /\ c \in Encoders => Pictured \subseteq Pictured'
         /\ native /\ s \in Windows => c \in Pictured'
<1> USE SurfacesAssumption
<1>1. \/ s \in Windows /\ s[1] = c /\ s # Null /\ s # Invalid
      \/ s = Null /\ s \notin Windows
      \/ s = Invalid /\ s # Null /\ s \notin Windows
  BY DEF Brings, Windows
<1>2. CASE c \in Encoders
  <2>1. encoders' = (IF native /\ s \in Windows THEN encoders \cup {s} ELSE encoders)
        /\ UNCHANGED <<native, preview>>
    BY <1>2 DEF AddWindow, AddEncoder
  <2>2. Drawn' = IF native /\ s \in Windows THEN Drawn \cup {s} ELSE Drawn
    BY <1>1, <2>1 DEF Drawn
  <2>3. OwnedInv'
    BY <1>1, <1>2, <2>1 DEF OwnedInv
  <2> QED
    BY <1>1, <1>2, <2>1, <2>2, <2>3 DEF Pictured, Stable
<1>3. CASE c \notin Encoders
  <2>1. preview' = (IF native /\ s # Invalid THEN s ELSE preview) /\ UNCHANGED <<native, encoders>>
    BY <1>3 DEF AddWindow, SetPreview
  <2>2. Drawn' \subseteq Drawn \cup ({s} \cap Windows) /\ (native /\ s \in Windows => s \in Drawn')
    BY <1>1, <2>1 DEF Drawn
  <2>3. \A w \in Drawn : w[1] \in Encoders => w \in Drawn'
    BY <2>1 DEF Drawn, OwnedInv
  <2>4. OwnedInv'
    BY <1>1, <1>3, <2>1 DEF OwnedInv
  <2> QED
    BY <1>1, <1>3, <2>1, <2>2, <2>3, <2>4 DEF Pictured, Stable
<1> QED
  BY <1>2, <1>3

LEMMA RemoveWindowSets ==
  ASSUME TypeOK, OwnedInv, NEW c \in Clients, NEW s,
         c \in Encoders => s \in Brings(c), RemoveWindow(c, s)
  PROVE  /\ OwnedInv' /\ UNCHANGED native
         /\ Pictured' \subseteq Pictured
         /\ Stable => Stable'
         /\ Stable /\ (c \in Encoders => s = <<c, 1>>) => c \notin Pictured'
         /\ Pictured \cap Encoders \subseteq Pictured' \cup {c}
         /\ c \notin Encoders => Pictured \cap Encoders \subseteq Pictured'
         /\ c \in Encoders => Pictured \subseteq Pictured' \cup {c}
<1> USE SurfacesAssumption
<1>0. Drawn \subseteq Windows
  BY DEF Drawn, TypeOK
<1>1. CASE c \in Encoders
  <2>1. encoders' = (IF native THEN encoders \ {s} ELSE encoders) /\ UNCHANGED <<native, preview>>
    BY <1>1 DEF RemoveWindow, RemoveEncoder
  <2>2. Drawn' \subseteq Drawn /\ Drawn \subseteq Drawn' \cup {s}
    BY <2>1 DEF Drawn
  <2>3. s \in Windows => s[1] = c
    BY <1>1 DEF Brings, Windows
  <2>4. OwnedInv'
    BY <2>1 DEF OwnedInv
  <2>5. Stable /\ s = <<c, 1>> => c \notin Pictured'
    <3> SUFFICES ASSUME Stable, s = <<c, 1>>, NEW w \in Drawn', w[1] = c PROVE FALSE
      BY DEF Pictured
    <3>1. w \in Windows /\ w[2] = 1
      BY <1>0, <2>2 DEF Stable
    <3>2. w = s
      BY <3>1 DEF Windows
    <3>3. w # preview
      BY <1>1, <2>1 DEF OwnedInv, Drawn
    <3> QED
      BY <2>1, <3>2, <3>3 DEF Drawn, OwnedInv
  <2>6. \A w \in Drawn : w[1] # c => w \in Drawn'
    BY <1>0, <2>2, <2>3
  <2> QED
    BY <1>1, <2>1, <2>2, <2>4, <2>5, <2>6 DEF Pictured, Stable
<1>2. CASE c \notin Encoders
  <2>1. preview' = Null /\ UNCHANGED <<native, encoders>>
    BY <1>2 DEF RemoveWindow, SetPreview, OwnedInv, TypeOK
  <2>2. Drawn' = encoders
    BY <2>1 DEF Drawn, TypeOK
  <2>3. \A w \in Drawn' : w \in Drawn /\ w[1] \in Encoders
    BY <2>2, <1>0 DEF OwnedInv, Drawn, TypeOK
  <2>4. \A w \in Drawn : w[1] \in Encoders => w \in Drawn'
    BY <2>2 DEF Drawn, OwnedInv
  <2>5. OwnedInv'
    BY <2>1 DEF OwnedInv
  <2> QED
    BY <1>2, <2>1, <2>3, <2>4, <2>5 DEF Pictured, Stable
<1> QED
  BY <1>1, <1>2

LEMMA ReleaseSets ==
  ASSUME ReleaseCamera
  PROVE  OwnedInv' /\ native' = FALSE /\ Pictured' = {} /\ Stable'
BY DEF ReleaseCamera, OwnedInv, Pictured, Stable, Drawn

(***************************************************************************)
(* Every step keeps the types.                                             *)
(***************************************************************************)
LEMMA TypeStep == ClientsInv /\ Next => TypeOK'
<1> SUFFICES ASSUME ClientsInv, Next PROVE TypeOK'
  OBVIOUS
<1> USE DEF ClientsInv, TypeOK, walk, windows, calls
<1> USE DEF AppPcs, CapPcs, InSection, Walking
<1>1. ASSUME NEW a \in Apps, AppCall(a) PROVE TypeOK'
  BY <1>1 DEF AppCall, CallAdd, CallRemove, CallRelease, Call, AppStep
<1>2. ASSUME NEW a \in Apps, AddLock(a) \/ RemoveLock(a) PROVE TypeOK'
  <2>1. appArg[a] \in Clients
    BY <1>2 DEF ArgInv, AddLock, RemoveLock, AppStep
  <2>2. mClients' \in Seq(Clients) /\ stale' \subseteq Caps
    BY <1>2, <2>1, ListType DEF AddLock, RemoveLock, AddToList, RemoveFromList, Changes
  <2>3. oddities' \subseteq Oddities
    BY <1>2, <2>1, OddType DEF AddLock, RemoveLock
  <2>4. holds' \in [Threads -> Nat]
    BY <1>2, HoldsType DEF AddLock, RemoveLock, Threads
  <2>5. appPc' \in [Apps -> AppPcs]
    BY <1>2 DEF AddLock, RemoveLock, AppStep
  <2> QED
    BY <1>2, <2>2, <2>3, <2>4, <2>5 DEF AddLock, RemoveLock
<1>3. ASSUME NEW a \in Apps, AddSurface(a) \/ RemoveSurface(a) PROVE TypeOK'
  <2>1. appArg[a] \in Clients
    BY <1>3 DEF ArgInv, AddSurface, RemoveSurface
  <2>2. /\ native' \in BOOLEAN
        /\ preview' \in Windows \cup {Null}
        /\ encoders' \subseteq Windows
    BY <1>3, <2>1, WindowType DEF AddSurface, RemoveSurface
  <2>3. oddities' \subseteq Oddities
    BY <1>3, <2>1, OddType DEF AddSurface, RemoveSurface
  <2>4. a \in Threads /\ holds[a] \in Nat /\ holds[a] # 0
    BY <1>3 DEF AddSurface, RemoveSurface, LockInv, InLock, Threads
  <2>5. holds' \in [Threads -> Nat]
    BY <1>3, <2>4, HoldsType DEF AddSurface, RemoveSurface
  <2>6. appPc' \in [Apps -> AppPcs] /\ appArg' \in [Apps -> Clients \cup {Null}]
    BY <1>3 DEF AddSurface, RemoveSurface, AppDone
  <2> QED
    BY <1>3, <2>2, <2>3, <2>5, <2>6 DEF AddSurface, RemoveSurface
<1>4. ASSUME NEW a \in Apps, SurfaceThrows(a) PROVE TypeOK'
  BY <1>4, OddType DEF SurfaceThrows, AppDone
<1>5. ASSUME NEW a \in Apps, ReleaseLock(a) PROVE TypeOK'
  <2>1. mClients' \in Seq(Clients) /\ stale' \subseteq Caps
    BY <1>5, ListType DEF ReleaseLock, RemoveLoop, Changes
  <2>2. oddities' \subseteq Oddities
    BY <1>5, OddType DEF ReleaseLock
  <2>3. holds' \in [Threads -> Nat]
    BY <1>5, HoldsType DEF ReleaseLock, Threads
  <2>4. appPc' \in [Apps -> AppPcs]
    BY <1>5 DEF ReleaseLock, AppStep
  <2> QED
    BY <1>5, <2>1, <2>2, <2>3, <2>4 DEF ReleaseLock
<1>6. ASSUME NEW a \in Apps, ReleaseNative(a) PROVE TypeOK'
  BY <1>6 DEF ReleaseNative, ReleaseCamera, AppStep
<1>7. ASSUME NEW t \in Caps, NotifyLock(t) PROVE TypeOK'
  <2>1. holds' \in [Threads -> Nat]
    BY <1>7, HoldsType DEF NotifyLock, Threads
  <2> QED
    BY <1>7, <2>1 DEF NotifyLock, CapStep
<1>8. ASSUME NEW t \in Caps, NextClient(t) PROVE TypeOK'
  <2>1. told' \in [Caps -> Seq(Clients)]
    <3>1. Len(told[t]) + 1 \in 1 .. Len(mClients)
      BY <1>8, LenProperties DEF NextClient, HasNext
    <3>2. mClients[Len(told[t]) + 1] \in Clients
      BY <3>1, ElementOfSeq
    <3>3. Append(told[t], mClients[Len(told[t]) + 1]) \in Seq(Clients)
      BY <3>2, AppendProperties
    <3> QED
      BY <1>8, <3>3 DEF NextClient
  <2> QED
    BY <1>8, <2>1 DEF NextClient, CapStep
<1>9. ASSUME NEW t \in Caps, NotifyUnlock(t) PROVE TypeOK'
  <2>1. t \in Threads /\ holds[t] \in Nat /\ holds[t] # 0
    BY <1>9, ThreadsAssumption DEF NotifyUnlock, CapStep, LockInv, InLock, Threads
  <2> QED
    BY <1>9, <2>1 DEF NotifyUnlock, CapStep, Unlocks, Forget
<1>10. ASSUME NEW t \in Caps, IteratorThrows(t) \/ CallbackThrows(t) PROVE TypeOK'
  <2>1. oddities' \subseteq Oddities
    BY <1>10, OddType DEF IteratorThrows, CallbackThrows
  <2>2. /\ told' \in [Caps -> Seq(Clients)]
        /\ roll' \in [Caps -> Seq(Clients)]
        /\ stale' \subseteq Caps
        /\ ownChange' \subseteq Caps
    <3>1. Forget(t)
      BY <1>10 DEF IteratorThrows, CallbackThrows
    <3> QED
      BY <3>1 DEF Forget
  <2>3. capPc' \in [Caps -> CapPcs]
    BY <1>10 DEF IteratorThrows, CallbackThrows, CapStep
  <2> QED
    BY <1>10, <2>1, <2>2, <2>3 DEF IteratorThrows, CallbackThrows
<1>11. ASSUME NEW t \in Caps, CallbackReturns(t) \/ CallbackWaits(t) \/ WaitOver(t)
       PROVE  TypeOK'
  BY <1>11 DEF CallbackReturns, CallbackWaits, WaitOver, CapStep
<1>12. ASSUME NEW t \in Caps, NEW c \in Clients, CallbackAdds(t, c) PROVE TypeOK'
  <2>1. mClients' \in Seq(Clients) /\ stale' \subseteq Caps
    BY <1>12, ListType DEF CallbackAdds, AddToList, Changes
  <2>2. CASE NestedThrows(t) /\ Notes({"threw"})
    <3>1. holds' \in [Threads -> Nat] /\ oddities' \subseteq Oddities
      BY <2>2, HoldsType, OddType DEF Threads
    <3> QED
      BY <1>12, <2>1, <2>2, <3>1 DEF CallbackAdds, NestedThrows, Nested
  <2>3. ASSUME NEW s \in Brings(c), AddWindow(c, s), Notes(OddAdd(c) \cup OddSurface(s)),
               UNCHANGED holds
        PROVE  TypeOK'
    BY <1>12, <2>1, <2>3, OddType, WindowType DEF CallbackAdds, Nested
  <2> QED
    BY <1>12, <2>2, <2>3 DEF CallbackAdds
<1>13. ASSUME NEW t \in Caps, NEW c \in Clients, CallbackRemoves(t, c) PROVE TypeOK'
  <2>1. mClients' \in Seq(Clients) /\ stale' \subseteq Caps
    BY <1>13, ListType DEF CallbackRemoves, RemoveFromList, Changes
  <2>2. CASE NestedThrows(t) /\ Notes({"threw"})
    <3>1. holds' \in [Threads -> Nat] /\ oddities' \subseteq Oddities
      BY <2>2, HoldsType, OddType DEF Threads
    <3> QED
      BY <1>13, <2>1, <2>2, <3>1 DEF CallbackRemoves, NestedThrows, Nested
  <2>3. ASSUME NEW s \in Brings(c), RemoveWindow(c, s), Notes(OddSlot(c) \cup OddSurface(s)),
               UNCHANGED holds
        PROVE  TypeOK'
    BY <1>13, <2>1, <2>3, OddType, WindowType DEF CallbackRemoves, Nested
  <2>4. <<c, 1>> \in Brings(c)
    BY DEF Brings
  <2> QED
    BY <1>13, <2>2, <2>3, <2>4 DEF CallbackRemoves
<1>14. ASSUME NEW t \in Caps, CallbackReleases(t) PROVE TypeOK'
  <2>1. mClients' \in Seq(Clients) /\ stale' \subseteq Caps
    BY <1>14, ListType DEF CallbackReleases, RemoveLoop, Changes
  <2> QED
    <3>1. CASE NestedThrows(t) /\ Notes({"threw"})
      <4>1. holds' \in [Threads -> Nat] /\ oddities' \subseteq Oddities
        BY <3>1, HoldsType, OddType DEF Threads
      <4> QED
        BY <1>14, <2>1, <3>1, <4>1 DEF CallbackReleases, NestedThrows, Nested
    <3>2. CASE ReleaseCamera /\ UNCHANGED <<holds, oddities>>
      BY <1>14, <2>1, <3>2 DEF CallbackReleases, ReleaseCamera, Nested
    <3> QED
      BY <1>14, <3>1, <3>2 DEF CallbackReleases
<1> HIDE DEF ClientsInv, TypeOK
<1> QED
  BY <1>1, <1>2, <1>3, <1>4, <1>5, <1>6, <1>7, <1>8, <1>9, <1>10, <1>11, <1>12, <1>13,
     <1>14, NextCases

(***************************************************************************)
(* Every step keeps the arguments of the calls.                            *)
(***************************************************************************)
LEMMA ArgStep == ClientsInv /\ Next => ArgInv'
<1> SUFFICES ASSUME ClientsInv, Next PROVE ArgInv'
  OBVIOUS
<1> USE DEF ClientsInv, TypeOK, ArgInv, walk, windows, calls, InSection
<1>1. ASSUME NEW a \in Apps, AppCall(a) PROVE ArgInv'
  BY <1>1 DEF AppCall, CallAdd, CallRemove, CallRelease, Call, AppStep
<1>2. ASSUME NEW a \in Apps, AddLock(a) \/ RemoveLock(a) PROVE ArgInv'
  BY <1>2 DEF AddLock, RemoveLock, AppStep
<1>3. ASSUME NEW a \in Apps, AddSurface(a) \/ RemoveSurface(a) \/ SurfaceThrows(a) PROVE ArgInv'
  BY <1>3 DEF AddSurface, RemoveSurface, SurfaceThrows, AppDone
<1>4. ASSUME NEW a \in Apps, ReleaseLock(a) \/ ReleaseNative(a) PROVE ArgInv'
  BY <1>4 DEF ReleaseLock, ReleaseNative, AppStep
<1>5. UNCHANGED <<appPc, appArg>> => ArgInv'
  OBVIOUS
<1> QED
  BY <1>1, <1>2, <1>3, <1>4, <1>5
  DEF Next, AppWork, CapWork, CallbackWork, CallbackEnds, NotifyLock, NextClient, NotifyUnlock,
      IteratorThrows, CallbackReturns, CallbackThrows, CallbackWaits, WaitOver, CallbackAdds,
      CallbackRemoves, CallbackReleases, Nested

(***************************************************************************)
(* Every step keeps the lock's discipline.  A thread takes the lock when   *)
(* nobody else has it, gives it back when it leaves the section, or leaves *)
(* with an exception.                                                      *)
(***************************************************************************)

\* A step changes the count and the place of one thread at most.
LockFrame(t) ==
  \A u \in Threads \ {t} : holds'[u] = holds[u] /\ (InLock(u)' <=> InLock(u))

LEMMA AppLockFrame ==
  ASSUME TypeOK, NEW a \in Apps, NEW to,
         appPc' = [appPc EXCEPT ![a] = to], UNCHANGED capPc,
         \/ UNCHANGED holds
         \/ \E n : holds' = [holds EXCEPT ![a] = n]
  PROVE  LockFrame(a) /\ (InLock(a)' <=> to \in InSection)
BY DEF TypeOK, LockFrame, InLock, Threads

LEMMA CapLockFrame ==
  ASSUME TypeOK, NEW t \in Caps, NEW to,
         capPc' = [capPc EXCEPT ![t] = to], UNCHANGED appPc,
         \/ UNCHANGED holds
         \/ \E n : holds' = [holds EXCEPT ![t] = n]
  PROVE  LockFrame(t) /\ (InLock(t)' <=> to \in Walking)
BY ThreadsAssumption DEF TypeOK, LockFrame, InLock, Threads

\* The thread t takes the lock, keeps it as it is, gives it back, or throws.
LEMMA LockMoves ==
  ASSUME TypeOK, LockInv, NEW t \in Threads, LockFrame(t),
         \/ /\ Locks(t) /\ InLock(t)' /\ ~InLock(t)
            /\ "threw" \in oddities' <=> "threw" \in oddities
         \/ /\ UNCHANGED holds /\ (InLock(t)' <=> InLock(t))
            /\ "threw" \in oddities' <=> "threw" \in oddities
         \/ /\ Unlocks(t) /\ InLock(t) /\ ~InLock(t)'
            /\ "threw" \in oddities' <=> "threw" \in oddities
         \/ /\ "threw" \in oddities' /\ ~InLock(t)'
            /\ Locks(t) \/ UNCHANGED holds
         \/ /\ "threw" \in oddities' /\ InLock(t) /\ InLock(t)'
            /\ NestedThrows(t)
  PROVE  LockInv'
<1> USE DEF TypeOK, LockInv, LockFrame
<1>1. holds[t] \in Nat
  OBVIOUS
<1>2. CASE /\ Locks(t) /\ InLock(t)' /\ ~InLock(t)
           /\ "threw" \in oddities' <=> "threw" \in oddities
  BY <1>1, <1>2 DEF Locks, LockFree
<1>3. CASE /\ UNCHANGED holds /\ (InLock(t)' <=> InLock(t))
           /\ "threw" \in oddities' <=> "threw" \in oddities
  BY <1>3
<1>4. CASE /\ Unlocks(t) /\ InLock(t) /\ ~InLock(t)'
           /\ "threw" \in oddities' <=> "threw" \in oddities
  BY <1>1, <1>4 DEF Unlocks
<1>5. CASE /\ "threw" \in oddities' /\ ~InLock(t)'
           /\ Locks(t) \/ UNCHANGED holds
  BY <1>1, <1>5 DEF Locks, LockFree
<1>6. CASE /\ "threw" \in oddities' /\ InLock(t) /\ InLock(t)'
           /\ NestedThrows(t)
  BY <1>1, <1>6 DEF NestedThrows
<1> QED
  BY <1>2, <1>3, <1>4, <1>5, <1>6

LEMMA LockStep == ClientsInv /\ Next => LockInv'
<1> SUFFICES ASSUME ClientsInv, Next PROVE LockInv'
  OBVIOUS
<1>0. TypeOK /\ LockInv /\ ArgInv
  BY DEF ClientsInv
<1> USE DEF walk, windows, calls
<1>1. ASSUME NEW a \in Apps, AppCall(a) PROVE LockInv'
  <2>1. PICK to \in {"add_lock", "remove_lock", "release_lock"} :
          AppStep(a, "idle", to) /\ UNCHANGED <<capPc, holds, oddities>>
    BY <1>1 DEF AppCall, CallAdd, CallRemove, CallRelease, Call
  <2>2. LockFrame(a) /\ ~InLock(a) /\ ~InLock(a)'
    BY <1>0, <2>1, AppLockFrame DEF AppStep, InLock, InSection
  <2> QED
    BY <1>0, <2>1, <2>2, LockMoves DEF Threads
<1>2. ASSUME NEW a \in Apps, AddLock(a) \/ RemoveLock(a) PROVE LockInv'
  <2>1. Locks(a) /\ UNCHANGED capPc
    BY <1>2 DEF AddLock, RemoveLock
  <2>2. LockFrame(a) /\ ~InLock(a) /\ InLock(a)'
    BY <1>0, <1>2, <2>1, AppLockFrame DEF AddLock, RemoveLock, AppStep, Locks, InLock, InSection
  <2>3. "threw" \in oddities' <=> "threw" \in oddities
    BY <1>0, <1>2, OddType DEF AddLock, RemoveLock, AppStep, ArgInv, TypeOK
  <2> QED
    BY <1>0, <2>1, <2>2, <2>3, LockMoves DEF Threads
<1>3. ASSUME NEW a \in Apps, AddSurface(a) \/ RemoveSurface(a) PROVE LockInv'
  <2>1. Unlocks(a) /\ UNCHANGED capPc
    BY <1>3 DEF AddSurface, RemoveSurface
  <2>2. LockFrame(a) /\ InLock(a) /\ ~InLock(a)'
    <3>1. appPc' = [appPc EXCEPT ![a] = "idle"] /\ appPc[a] \in InSection
      BY <1>3 DEF AddSurface, RemoveSurface, AppDone, InSection
    <3>2. LockFrame(a) /\ (InLock(a)' <=> "idle" \in InSection)
      BY <1>0, <2>1, <3>1, AppLockFrame DEF Unlocks
    <3> QED
      BY <3>1, <3>2 DEF InLock, InSection
  <2>3. "threw" \in oddities' <=> "threw" \in oddities
    BY <1>0, <1>3, OddType DEF AddSurface, RemoveSurface, ArgInv, InSection, TypeOK
  <2> QED
    BY <1>0, <2>1, <2>2, <2>3, LockMoves DEF Threads
<1>4. ASSUME NEW a \in Apps, SurfaceThrows(a) PROVE LockInv'
  <2>1. LockFrame(a) /\ ~InLock(a)'
    <3>1. appPc' = [appPc EXCEPT ![a] = "idle"] /\ UNCHANGED <<capPc, holds>>
      BY <1>4 DEF SurfaceThrows, AppDone
    <3>2. LockFrame(a) /\ (InLock(a)' <=> "idle" \in InSection)
      BY <1>0, <3>1, AppLockFrame
    <3> QED
      BY <3>2 DEF InSection
  <2>2. "threw" \in oddities' /\ UNCHANGED holds
    BY <1>0, <1>4, OddType DEF SurfaceThrows, TypeOK
  <2> QED
    BY <1>0, <2>1, <2>2, LockMoves DEF Threads
<1>5. ASSUME NEW a \in Apps, ReleaseLock(a) PROVE LockInv'
  <2>1. UNCHANGED capPc /\ (UNCHANGED holds \/ Locks(a))
    BY <1>5 DEF ReleaseLock
  <2>2. LockFrame(a) /\ ~InLock(a) /\ ~InLock(a)'
    BY <1>0, <1>5, <2>1, AppLockFrame DEF ReleaseLock, AppStep, Locks, InLock, InSection
  <2>3. CASE RemoveLoopThrows
    <3>1. "threw" \in oddities' /\ Locks(a)
      BY <1>0, <1>5, <2>3, OddType DEF ReleaseLock, TypeOK
    <3> QED
      BY <1>0, <2>2, <3>1, LockMoves DEF Threads
  <2>4. CASE ~RemoveLoopThrows
    <3>1. UNCHANGED <<holds, oddities>>
      BY <1>5, <2>4 DEF ReleaseLock
    <3> QED
      BY <1>0, <2>2, <3>1, LockMoves DEF Threads
  <2> QED
    BY <2>3, <2>4
<1>6. ASSUME NEW a \in Apps, ReleaseNative(a) PROVE LockInv'
  <2>1. LockFrame(a) /\ ~InLock(a) /\ ~InLock(a)'
    BY <1>0, <1>6, AppLockFrame DEF ReleaseNative, AppStep, InLock, InSection
  <2> QED
    BY <1>0, <1>6, <2>1, LockMoves DEF ReleaseNative, Threads
<1>7. ASSUME NEW t \in Caps, NotifyLock(t) PROVE LockInv'
  <2>1. LockFrame(t) /\ ~InLock(t) /\ InLock(t)'
    BY <1>0, <1>7, CapLockFrame, ThreadsAssumption
    DEF NotifyLock, CapStep, Locks, InLock, Walking
  <2> QED
    BY <1>0, <1>7, <2>1, LockMoves DEF NotifyLock, Threads
<1>8. ASSUME NEW t \in Caps,
             NextClient(t) \/ CallbackReturns(t) \/ CallbackWaits(t) \/ WaitOver(t)
      PROVE  LockInv'
  <2>1. /\ UNCHANGED <<appPc, holds, oddities>> /\ capPc[t] \in Walking
        /\ \E to \in Walking : capPc' = [capPc EXCEPT ![t] = to]
    BY <1>8 DEF NextClient, CallbackReturns, CallbackWaits, WaitOver, CapStep, Walking
  <2>2. LockFrame(t) /\ InLock(t) /\ InLock(t)'
    BY <1>0, <2>1, CapLockFrame, ThreadsAssumption DEF InLock
  <2> QED
    BY <1>0, <2>1, <2>2, LockMoves DEF Threads
<1>9. ASSUME NEW t \in Caps, NotifyUnlock(t) PROVE LockInv'
  <2>1. LockFrame(t) /\ InLock(t) /\ ~InLock(t)'
    BY <1>0, <1>9, CapLockFrame, ThreadsAssumption
    DEF NotifyUnlock, CapStep, Unlocks, InLock, Walking
  <2> QED
    BY <1>0, <1>9, <2>1, LockMoves DEF NotifyUnlock, Threads
<1>10. ASSUME NEW t \in Caps, IteratorThrows(t) \/ CallbackThrows(t) PROVE LockInv'
  <2>1. LockFrame(t) /\ ~InLock(t)'
    BY <1>0, <1>10, CapLockFrame DEF IteratorThrows, CallbackThrows, CapStep, Walking
  <2>2. "threw" \in oddities' /\ UNCHANGED holds
    BY <1>0, <1>10, OddType DEF IteratorThrows, CallbackThrows, TypeOK
  <2> QED
    BY <1>0, <2>1, <2>2, LockMoves DEF Threads
<1>11. ASSUME NEW t \in Caps, Nested(t),
              \/ NestedThrows(t) /\ Notes({"threw"})
              \/ UNCHANGED holds /\ ("threw" \in oddities' <=> "threw" \in oddities)
       PROVE  LockInv'
  <2>1. InLock(t) /\ InLock(t)'
    BY <1>11, ThreadsAssumption DEF Nested, InLock, Walking
  <2>2. LockFrame(t)
    BY <1>0, <1>11 DEF Nested, NestedThrows, LockFrame, InLock, TypeOK
  <2>3. Notes({"threw"}) => "threw" \in oddities'
    BY <1>0, OddType DEF TypeOK
  <2> QED
    BY <1>0, <1>11, <2>1, <2>2, <2>3, LockMoves DEF Threads
<1>12. ASSUME NEW t \in Caps, NEW c \in Clients, CallbackAdds(t, c) \/ CallbackRemoves(t, c)
       PROVE  LockInv'
  <2>1. Nested(t)
    BY <1>12 DEF CallbackAdds, CallbackRemoves
  <2>2. \/ NestedThrows(t) /\ Notes({"threw"})
        \/ UNCHANGED holds /\ ("threw" \in oddities' <=> "threw" \in oddities)
    BY <1>0, <1>12, OddType DEF CallbackAdds, CallbackRemoves, TypeOK
  <2> QED
    BY <1>11, <2>1, <2>2
<1>13. ASSUME NEW t \in Caps, CallbackReleases(t) PROVE LockInv'
  BY <1>11, <1>13 DEF CallbackReleases
<1> QED
  BY <1>1, <1>2, <1>3, <1>4, <1>5, <1>6, <1>7, <1>8, <1>9, <1>10, <1>12, <1>13, NextCases

(***************************************************************************)
(* Every step keeps what the iterators know.  A thread that changes the    *)
(* list has the lock, so no other thread is walking through it.            *)
(***************************************************************************)
WalkOf(t) ==
  /\ capPc[t] \in Walking => /\ ToldPrefix(t)
                             /\ t \notin stale => mClients = roll[t]
                             /\ t \in stale => t \in ownChange
  /\ capPc[t] \notin Walking => told[t] = <<>> /\ t \notin stale

\* A thread that may take the lock, or has it, is the only one walking.
LEMMA OnlyWalker ==
  ASSUME TypeOK, LockInv, NEW t \in Threads, LockFree(t) \/ InLock(t), NEW u \in Caps \ {t}
  PROVE  capPc[u] \notin Walking
BY ThreadsAssumption DEF LockInv, LockFree, InLock, Threads

\* What a step leaves of the iterator of u.
SameWalk(u) ==
  /\ capPc'[u] = capPc[u] /\ told'[u] = told[u] /\ roll'[u] = roll[u]
  /\ u \in stale' <=> u \in stale
  /\ u \in ownChange' <=> u \in ownChange

LEMMA SameWalkKeeps ==
  ASSUME NEW u \in Caps, WalkOf(u), SameWalk(u),
         capPc[u] \notin Walking \/ UNCHANGED mClients
  PROVE  WalkOf(u)'
BY DEF WalkOf, SameWalk, ToldPrefix

\* A change of the list by a thread with the lock touches no other iterator.
LEMMA ChangeFrame ==
  ASSUME TypeOK, LockInv, NEW t \in Threads, LockFree(t) \/ InLock(t), NEW u \in Caps \ {t},
         \/ \E c : AddToList(c) \/ RemoveFromList(c)
         \/ RemoveLoop
  PROVE  u \in stale' <=> u \in stale
<1>1. capPc[u] \notin Walking
  BY OnlyWalker
<1> QED
  BY <1>1 DEF AddToList, RemoveFromList, RemoveLoop, Changes

LEMMA WalkStep == ClientsInv /\ Next => WalkInv'
<1> SUFFICES ASSUME ClientsInv, Next, NEW u \in Caps PROVE WalkOf(u)'
  BY DEF WalkInv, WalkOf
<1>0. TypeOK /\ LockInv /\ WalkOf(u)
  BY DEF ClientsInv, WalkInv, WalkOf
<1> USE DEF walk, calls
<1>1. UNCHANGED <<mClients, walk, stale, ownChange>> => WalkOf(u)'
  BY <1>0, SameWalkKeeps DEF SameWalk
<1>2. ASSUME NEW a \in Apps, AddLock(a) \/ RemoveLock(a) \/ ReleaseLock(a) PROVE WalkOf(u)'
  <2>1. a \in Threads /\ u # a /\ LockFree(a)
    BY <1>2, ThreadsAssumption DEF Threads, AddLock, RemoveLock, ReleaseLock, Locks
  <2>2. u \in stale' <=> u \in stale
    BY <1>0, <1>2, <2>1, ChangeFrame DEF AddLock, RemoveLock, ReleaseLock
  <2>3. UNCHANGED <<capPc, told, roll, ownChange>>
    BY <1>2 DEF AddLock, RemoveLock, ReleaseLock
  <2> QED
    BY <1>0, <2>1, <2>2, <2>3, OnlyWalker, SameWalkKeeps DEF SameWalk
<1>3. ASSUME NEW t \in Caps, NotifyLock(t) PROVE WalkOf(u)'
  <2>1. CASE u = t
    BY <1>0, <1>3, <2>1 DEF NotifyLock, CapStep, WalkOf, ToldPrefix, Walking, TypeOK
  <2>2. CASE u # t
    BY <1>0, <1>3, <2>2, SameWalkKeeps DEF NotifyLock, CapStep, SameWalk, TypeOK
  <2> QED
    BY <2>1, <2>2
<1>4. ASSUME NEW t \in Caps, NextClient(t) PROVE WalkOf(u)'
  <2>1. CASE u = t
    <3>1. /\ mClients = roll[t] /\ ToldPrefix(t)
          /\ Len(told[t]) < Len(mClients) /\ t \notin stale
      BY <1>0, <1>4, <2>1 DEF NextClient, CapStep, HasNext, WalkOf, Walking
    <3>2. told'[t] = Append(told[t], mClients[Len(told[t]) + 1])
      BY <1>0, <1>4 DEF NextClient, TypeOK
    <3>3. told[t] \in Seq(Clients) /\ mClients \in Seq(Clients)
      BY <1>0 DEF TypeOK
    <3>4. ToldPrefix(t)'
      BY <1>4, <3>1, <3>2, <3>3 DEF NextClient, ToldPrefix
    <3> QED
      BY <1>0, <1>4, <2>1, <3>1, <3>4 DEF NextClient, CapStep, WalkOf, Walking, TypeOK
  <2>2. CASE u # t
    BY <1>0, <1>4, <2>2, SameWalkKeeps DEF NextClient, CapStep, SameWalk, TypeOK
  <2> QED
    BY <2>1, <2>2
<1>5. ASSUME NEW t \in Caps, NotifyUnlock(t) \/ IteratorThrows(t) \/ CallbackThrows(t)
      PROVE  WalkOf(u)'
  <2>1. Forget(t) /\ UNCHANGED mClients
    BY <1>5 DEF NotifyUnlock, IteratorThrows, CallbackThrows
  <2>2. \E to \in {"run", "gone"} : capPc' = [capPc EXCEPT ![t] = to]
    BY <1>5 DEF NotifyUnlock, IteratorThrows, CallbackThrows, CapStep
  <2>3. CASE u = t
    BY <1>0, <2>1, <2>2, <2>3 DEF Forget, WalkOf, Walking, TypeOK
  <2>4. CASE u # t
    BY <1>0, <2>1, <2>2, <2>4, SameWalkKeeps DEF Forget, SameWalk, TypeOK
  <2> QED
    BY <2>3, <2>4
<1>6. ASSUME NEW t \in Caps, CallbackReturns(t) \/ CallbackWaits(t) \/ WaitOver(t)
      PROVE  WalkOf(u)'
  <2>1. UNCHANGED <<mClients, told, roll, stale, ownChange>>
    BY <1>6 DEF CallbackReturns, CallbackWaits, WaitOver
  <2>2. capPc'[u] \in Walking <=> capPc[u] \in Walking
    BY <1>0, <1>6 DEF CallbackReturns, CallbackWaits, WaitOver, CapStep, Walking, TypeOK
  <2> QED
    BY <1>0, <2>1, <2>2 DEF WalkOf, ToldPrefix
<1>7. ASSUME NEW t \in Caps, Nested(t),
             \/ \E c : AddToList(c) \/ RemoveFromList(c)
             \/ RemoveLoop
      PROVE  WalkOf(u)'
  <2>1. t \in Threads /\ InLock(t)
    BY <1>7, ThreadsAssumption DEF Threads, Nested, InLock, Walking
  <2>2. UNCHANGED <<capPc, told, roll>> /\ capPc[t] \in Walking
    BY <1>7 DEF Nested, Walking
  <2>3. CASE u = t
    <3>1. CASE UNCHANGED <<mClients, stale>>
      BY <1>0, <1>7, <2>2, <2>3, <3>1 DEF Nested, WalkOf, ToldPrefix
    <3>2. CASE ~UNCHANGED <<mClients, stale>>
      <4>1. t \in ownChange' /\ t \in stale'
        BY <1>7, <2>2, <3>2 DEF Nested, AddToList, RemoveFromList, RemoveLoop, Changes
      <4> QED
        BY <1>0, <2>2, <2>3, <4>1 DEF WalkOf, ToldPrefix
    <3> QED
      BY <3>1, <3>2
  <2>4. CASE u # t
    <3>1. u \in stale' <=> u \in stale
      BY <1>0, <1>7, <2>1, <2>4, ChangeFrame
    <3>2. u \in ownChange' <=> u \in ownChange
      BY <1>7, <2>4 DEF Nested
    <3> QED
      BY <1>0, <2>1, <2>2, <2>4, <3>1, <3>2, OnlyWalker, SameWalkKeeps DEF SameWalk
  <2> QED
    BY <2>3, <2>4
<1>8. ASSUME NEW a \in Apps, AppCall(a) PROVE WalkOf(u)'
  BY <1>1, <1>8 DEF AppCall, CallAdd, CallRemove, CallRelease, Call
<1>9. ASSUME NEW a \in Apps,
             AddSurface(a) \/ RemoveSurface(a) \/ SurfaceThrows(a) \/ ReleaseNative(a)
      PROVE  WalkOf(u)'
  BY <1>1, <1>9 DEF AddSurface, RemoveSurface, SurfaceThrows, ReleaseNative
<1>10. ASSUME NEW t \in Caps, NEW c \in Clients, CallbackAdds(t, c) \/ CallbackRemoves(t, c)
       PROVE  WalkOf(u)'
  BY <1>7, <1>10 DEF CallbackAdds, CallbackRemoves
<1>11. ASSUME NEW t \in Caps, CallbackReleases(t) PROVE WalkOf(u)'
  BY <1>7, <1>11 DEF CallbackReleases
<1> QED
  BY <1>2, <1>3, <1>4, <1>5, <1>6, <1>8, <1>9, <1>10, <1>11, NextCases

-----------------------------------------------------------------------------
LEMMA ClientsNext == ClientsInv /\ [Next]_vars => ClientsInv'
<1>1. CASE Next
  BY <1>1, TypeStep, ArgStep, LockStep, WalkStep DEF ClientsInv
<1>2. ASSUME ClientsInv, UNCHANGED vars PROVE ClientsInv'
  BY <1>2 DEF vars, walk, windows, calls, ClientsInv, TypeOK, ArgInv, LockInv, InLock, WalkInv,
              ToldPrefix
<1> QED
  BY <1>1, <1>2

LEMMA ClientsInvariant == Spec => []ClientsInv
<1>1. Init => ClientsInv
  BY ClientsInit
<1>2. ClientsInv /\ [Next]_vars => ClientsInv'
  BY ClientsNext
<1> QED
  BY <1>1, <1>2, PTL DEF Spec

-----------------------------------------------------------------------------
(***************************************************************************)
(* Every step keeps what the calls know of the list, and the windows of    *)
(* the clients in it.                                                      *)
(***************************************************************************)

\* The oddities of an orderly run are those of all its steps.
LEMMA NotesMeans ==
  ASSUME NEW odd, Notes(odd)
  PROVE  /\ Calm' => Calm /\ odd \cap {"threw", "unstable", "no_surface"} = {}
         /\ Orderly' => Orderly /\ odd \subseteq {"unstable"}
BY DEF Notes, Calm, Orderly

\* A thread that may take the lock, or has it, is the only one in a section.
LEMMA OnlySection ==
  ASSUME TypeOK, LockInv, NEW t \in Threads, LockFree(t) \/ InLock(t), NEW b \in Apps \ {t}
  PROVE  appPc[b] \notin InSection
BY ThreadsAssumption DEF LockInv, LockFree, InLock, Threads

\* A step of a thread that leaves the list, the windows and the calls in a
\* section alone leaves the invariant alone.
LEMMA SameWindowsKeep ==
  ASSUME WindowsInv, UNCHANGED <<mClients, windows>>,
         Calm' => Calm, Orderly' => Orderly,
         \A b \in Apps :
           \/ UNCHANGED <<appPc[b], appArg[b]>>
           \/ /\ appPc[b] \notin {"add_surface", "remove_surface", "release_native"}
              /\ appPc'[b] \notin {"add_surface", "remove_surface", "release_native"}
  PROVE  WindowsInv'
<1>1. OwnedInv'
  BY DEF WindowsInv, OwnedInv, windows
<1>2. SectionInv'
  BY DEF WindowsInv, SectionInv, Registered
<1>3. \A c : (Removing(c) => Removing(c)') /\ (Adding(c) => Adding(c)')
  BY DEF Removing, Adding
<1>4. AttachInv'
  BY <1>3 DEF WindowsInv, AttachInv, Stable, Pictured, Drawn, Registered, NoTwice, windows
<1> QED
  BY <1>1, <1>2, <1>4 DEF WindowsInv

LEMMA AddLockKeeps ==
  ASSUME ClientsInv, WindowsInv, NEW a \in Apps, AddLock(a)
  PROVE  WindowsInv'
<1> DEFINE c == appArg[a]
<1>0. TypeOK /\ LockInv /\ c \in Clients /\ appPc[a] = "add_lock"
  BY DEF ClientsInv, ArgInv, AddLock, AppStep
<1>1. /\ AddToList(c) /\ Notes(OddAdd(c)) /\ UNCHANGED <<appArg, windows>>
      /\ appPc' = [appPc EXCEPT ![a] = "add_surface"]
  BY DEF AddLock, AppStep
<1>2. Registered' = Registered \cup {c} /\ (NoTwice /\ c \notin Registered => NoTwice')
  BY <1>0, <1>1, ListSet DEF TypeOK
<1>3. /\ Calm' => Calm
      /\ Orderly' => /\ Orderly /\ c \notin Registered
                     /\ c \notin Encoders => Registered \subseteq Encoders \cup {c}
  BY <1>1, NotesMeans DEF OddAdd, OddSlot
<1>4. \A b \in Apps \ {a} : appPc[b] \notin InSection /\ appPc'[b] = appPc[b]
  BY <1>0, <1>1, OnlySection DEF AddLock, Locks, Threads, TypeOK
<1>5. OwnedInv'
  BY <1>1 DEF WindowsInv, OwnedInv, windows
<1>6. appPc'[a] = "add_surface"
  BY <1>0, <1>1 DEF TypeOK
<1>7. SectionInv'
  BY <1>1, <1>2, <1>3, <1>4, <1>6 DEF SectionInv, InSection
<1>8. \A d : (Removing(d) => Removing(d)') /\ (Adding(d) => Adding(d)') /\ Adding(c)'
  BY <1>0, <1>1, <1>4, <1>6 DEF Removing, Adding
<1>9. AttachInv'
  BY <1>1, <1>2, <1>3, <1>8 DEF WindowsInv, AttachInv, Stable, Pictured, Drawn, windows
<1> QED
  BY <1>5, <1>7, <1>9 DEF WindowsInv

LEMMA RemoveLockKeeps ==
  ASSUME ClientsInv, WindowsInv, NEW a \in Apps, RemoveLock(a)
  PROVE  WindowsInv'
<1> DEFINE c == appArg[a]
<1>0. TypeOK /\ LockInv /\ c \in Clients /\ appPc[a] = "remove_lock"
  BY DEF ClientsInv, ArgInv, RemoveLock, AppStep
<1>1. /\ RemoveFromList(c) /\ Notes(OddSlot(c)) /\ UNCHANGED <<appArg, windows>>
      /\ appPc' = [appPc EXCEPT ![a] = "remove_surface"]
  BY DEF RemoveLock, AppStep
<1>2. /\ Registered' \subseteq Registered /\ Registered \subseteq Registered' \cup {c}
      /\ NoTwice => NoTwice' /\ c \notin Registered'
  BY <1>0, <1>1, ListSet DEF TypeOK
<1>3. /\ Calm' => Calm
      /\ Orderly' => /\ Orderly
                     /\ c \notin Encoders => Registered \subseteq Encoders \cup {c}
  BY <1>1, NotesMeans DEF OddSlot
<1>4. \A b \in Apps \ {a} : appPc[b] \notin InSection /\ appPc'[b] = appPc[b]
  BY <1>0, <1>1, OnlySection DEF RemoveLock, Locks, Threads, TypeOK
<1>5. OwnedInv'
  BY <1>1 DEF WindowsInv, OwnedInv, windows
<1>6. appPc'[a] = "remove_surface"
  BY <1>0, <1>1 DEF TypeOK
<1>7. SectionInv'
  BY <1>1, <1>2, <1>3, <1>4, <1>6 DEF WindowsInv, AttachInv, SectionInv, InSection
<1>8. \A d : (Removing(d) => Removing(d)') /\ (Adding(d) => Adding(d)') /\ Removing(c)'
  BY <1>0, <1>1, <1>4, <1>6 DEF Removing, Adding
<1>9. AttachInv'
  BY <1>1, <1>2, <1>3, <1>8 DEF WindowsInv, AttachInv, Stable, Pictured, Drawn, windows
<1> QED
  BY <1>5, <1>7, <1>9 DEF WindowsInv

LEMMA AddSurfaceKeeps ==
  ASSUME ClientsInv, WindowsInv, NEW a \in Apps, AddSurface(a)
  PROVE  WindowsInv'
<1> DEFINE c == appArg[a]
<1>0. TypeOK /\ LockInv /\ c \in Clients /\ appPc[a] = "add_surface" /\ OwnedInv
  BY DEF ClientsInv, ArgInv, AddSurface, InSection, WindowsInv
<1>1. PICK s \in Brings(c) : AddWindow(c, s) /\ Notes(OddSurface(s))
  BY DEF AddSurface
<1>2. appPc' = [appPc EXCEPT ![a] = "idle"] /\ appArg' = [appArg EXCEPT ![a] = Null]
      /\ UNCHANGED mClients
  BY DEF AddSurface, AppDone
<1>3. /\ Calm' => Calm /\ s \in Windows /\ s[2] = 1
      /\ Orderly' => Orderly /\ s \in Windows
  BY <1>1, NotesMeans DEF OddSurface
<1>4. /\ OwnedInv' /\ UNCHANGED native
      /\ Pictured' \subseteq Pictured \cup {c}
      /\ Stable /\ (s \in Windows => s[2] = 1) => Stable'
      /\ Pictured \cap Encoders \subseteq Pictured'
      /\ c \in Encoders => Pictured \subseteq Pictured'
      /\ native /\ s \in Windows => c \in Pictured'
  BY <1>0, <1>1, AddWindowSets
<1>5. \A b \in Apps \ {a} : /\ appPc[b] \notin InSection
                            /\ appPc'[b] = appPc[b] /\ appArg'[b] = appArg[b]
  BY <1>0, <1>2, OnlySection DEF InLock, InSection, Threads, TypeOK
<1>6. appPc'[a] = "idle"
  BY <1>0, <1>2 DEF TypeOK
<1>7. SectionInv'
  BY <1>2, <1>5, <1>6 DEF SectionInv, InSection
<1>8. \A d : (Removing(d) => Removing(d)') /\ (Adding(d) => d = c)
  BY <1>0, <1>5 DEF Removing, Adding, InSection
<1>9. c \in Registered /\ (Orderly /\ c \notin Encoders => Registered \subseteq Encoders \cup {c})
  BY <1>0 DEF WindowsInv, SectionInv
<1>10. Registered' = Registered /\ (NoTwice => NoTwice')
  BY <1>2 DEF Registered, NoTwice
<1>11. AttachInv'
  <2>1. Calm' => Stable' /\ \A d \in Pictured' : d \in Registered' \/ Removing(d)'
    BY <1>3, <1>4, <1>8, <1>9, <1>10 DEF WindowsInv, AttachInv
  <2>2. ASSUME native', Orderly', NEW d \in Registered' PROVE d \in Pictured' \/ Adding(d)'
    <3>1. CASE d = c
      BY <1>3, <1>4, <2>2, <3>1
    <3>2. CASE d # c
      <4>1. d \in Pictured
        BY <1>3, <1>4, <1>8, <1>10, <2>2, <3>2 DEF WindowsInv, AttachInv
      <4>2. c \in Encoders \/ d \in Encoders
        BY <1>3, <1>9, <1>10, <2>2, <3>2
      <4> QED
        BY <1>4, <4>1, <4>2
    <3> QED
      BY <3>1, <3>2
  <2> QED
    BY <1>3, <1>10, <2>1, <2>2 DEF WindowsInv, AttachInv
<1> QED
  BY <1>4, <1>7, <1>11 DEF WindowsInv

LEMMA RemoveSurfaceKeeps ==
  ASSUME ClientsInv, WindowsInv, NEW a \in Apps, RemoveSurface(a)
  PROVE  WindowsInv'
<1> DEFINE c == appArg[a]
<1>0. TypeOK /\ LockInv /\ c \in Clients /\ appPc[a] = "remove_surface" /\ OwnedInv
  BY DEF ClientsInv, ArgInv, RemoveSurface, InSection, WindowsInv
<1>1. PICK s : /\ RemoveWindow(c, s)
               /\ c \in Encoders => s \in Brings(c) /\ Notes(OddSurface(s))
               /\ c \notin Encoders => UNCHANGED oddities
  BY DEF RemoveSurface
<1>2. appPc' = [appPc EXCEPT ![a] = "idle"] /\ appArg' = [appArg EXCEPT ![a] = Null]
      /\ UNCHANGED mClients
  BY DEF RemoveSurface, AppDone
<1>3. (Calm' => Calm) /\ (Orderly' => Orderly)
  BY <1>1, NotesMeans DEF Calm, Orderly
<1>4. Calm' /\ c \in Encoders => s = <<c, 1>>
  <2>1. Calm' /\ c \in Encoders => s \in Windows /\ s[2] = 1 /\ s \in Brings(c)
    BY <1>1, NotesMeans DEF OddSurface
  <2> QED
    BY <2>1, SurfacesAssumption DEF Brings, Windows
<1>5. /\ OwnedInv' /\ UNCHANGED native
      /\ Pictured' \subseteq Pictured
      /\ Stable => Stable'
      /\ Stable /\ (c \in Encoders => s = <<c, 1>>) => c \notin Pictured'
      /\ c \notin Encoders => Pictured \cap Encoders \subseteq Pictured'
      /\ c \in Encoders => Pictured \subseteq Pictured' \cup {c}
  BY <1>0, <1>1, RemoveWindowSets
<1>6. \A b \in Apps \ {a} : /\ appPc[b] \notin InSection
                            /\ appPc'[b] = appPc[b] /\ appArg'[b] = appArg[b]
  BY <1>0, <1>2, OnlySection DEF InLock, InSection, Threads, TypeOK
<1>7. appPc'[a] = "idle"
  BY <1>0, <1>2 DEF TypeOK
<1>8. SectionInv'
  BY <1>2, <1>6, <1>7 DEF SectionInv, InSection
<1>9. \A d : (Removing(d) /\ d # c => Removing(d)') /\ ~Adding(d)
  BY <1>0, <1>6 DEF Removing, Adding, InSection
<1>10. Orderly => c \notin Registered /\ (c \notin Encoders => Registered \subseteq Encoders)
  BY <1>0 DEF WindowsInv, SectionInv
<1>11. Registered' = Registered /\ (NoTwice => NoTwice')
  BY <1>2 DEF Registered, NoTwice
<1>12. AttachInv'
  <2>1. Calm' => Stable' /\ \A d \in Pictured' : d \in Registered' \/ Removing(d)'
    BY <1>3, <1>4, <1>5, <1>9, <1>11 DEF WindowsInv, AttachInv
  <2>2. native' /\ Orderly' => \A d \in Registered' : d \in Pictured'
    BY <1>3, <1>5, <1>9, <1>10, <1>11 DEF WindowsInv, AttachInv
  <2> QED
    BY <1>3, <1>11, <2>1, <2>2 DEF WindowsInv, AttachInv
<1> QED
  BY <1>5, <1>8, <1>12 DEF WindowsInv

\* Whatever throws, no property of the windows is left to be kept.
LEMMA ThrowsKeep ==
  ASSUME WindowsInv, Notes({"threw"}), UNCHANGED windows,
         \A b \in Apps : appPc'[b] = "add_surface" =>
           appPc[b] = "add_surface" /\ appArg'[b] = appArg[b] /\ Registered \subseteq Registered'
  PROVE  WindowsInv'
<1>1. ~Calm' /\ ~Orderly'
  BY NotesMeans
<1>2. OwnedInv'
  BY DEF WindowsInv, OwnedInv, windows
<1>3. SectionInv'
  BY <1>1 DEF WindowsInv, SectionInv
<1> QED
  BY <1>1, <1>2, <1>3 DEF WindowsInv, AttachInv

LEMMA ReleaseLockKeeps ==
  ASSUME ClientsInv, WindowsInv, NEW a \in Apps, ReleaseLock(a)
  PROVE  WindowsInv'
<1>0. TypeOK /\ LockInv
  BY DEF ClientsInv
<1>1. RemoveLoop /\ LockFree(a) /\ UNCHANGED <<appArg, windows>>
  BY DEF ReleaseLock, Locks
<1>2. \A b \in Apps \ {a} : appPc[b] \notin InSection /\ appPc'[b] = appPc[b]
  BY <1>0, <1>1, OnlySection DEF ReleaseLock, AppStep, Threads, TypeOK
<1>3. appPc[a] = "release_lock"
      /\ appPc'[a] = IF RemoveLoopThrows THEN "idle" ELSE "release_native"
  BY <1>0 DEF ReleaseLock, AppStep, TypeOK
<1>4. CASE RemoveLoopThrows
  <2>1. Notes({"threw"})
    BY <1>4 DEF ReleaseLock
  <2>2. \A b \in Apps : appPc'[b] # "add_surface"
    BY <1>2, <1>3, <1>4 DEF InSection
  <2> QED
    BY <1>1, <2>1, <2>2, ThrowsKeep
<1>5. CASE ~RemoveLoopThrows
  <2>1. UNCHANGED oddities
    BY <1>5 DEF ReleaseLock
  <2>2. Registered' \subseteq Registered /\ (NoTwice => NoTwice')
    BY <1>0, <1>1, ListSet DEF TypeOK
  <2>3. OwnedInv'
    BY <1>1 DEF WindowsInv, OwnedInv, windows
  <2>4. SectionInv'
    BY <1>2, <1>3, <1>5 DEF SectionInv, InSection
  <2>5. \A d : Removing(d)' /\ ~Adding(d)
    BY <1>2, <1>3, <1>5 DEF Removing, Adding, InSection
  <2>6. Calm' = Calm /\ Orderly' = Orderly
    BY <2>1 DEF Calm, Orderly
  <2>7. AttachInv'
    BY <1>1, <2>2, <2>5, <2>6 DEF WindowsInv, AttachInv, Stable, Pictured, Drawn, windows
  <2> QED
    BY <2>3, <2>4, <2>7 DEF WindowsInv
<1> QED
  BY <1>4, <1>5

LEMMA ReleaseNativeKeeps ==
  ASSUME ClientsInv, WindowsInv, NEW a \in Apps, ReleaseNative(a)
  PROVE  WindowsInv'
<1>1. OwnedInv' /\ native' = FALSE /\ Pictured' = {} /\ Stable'
  BY ReleaseSets DEF ReleaseNative
<1>2. UNCHANGED <<mClients, appArg, oddities>>
  BY DEF ReleaseNative
<1>3. \A b \in Apps : appPc'[b] \in InSection => appPc'[b] = appPc[b]
  BY DEF ClientsInv, TypeOK, ReleaseNative, AppStep, InSection
<1>4. SectionInv'
  BY <1>2, <1>3 DEF WindowsInv, SectionInv, InSection, Registered, Orderly
<1>5. AttachInv'
  BY <1>1, <1>2 DEF WindowsInv, AttachInv, Orderly, NoTwice
<1> QED
  BY <1>1, <1>4, <1>5 DEF WindowsInv

\* During a callback no application thread is in a section.
LEMMA NestedAlone ==
  ASSUME ClientsInv, NEW t \in Caps, Nested(t)
  PROVE  /\ \A b \in Apps : appPc[b] \notin InSection
         /\ UNCHANGED <<appPc, appArg>>
<1>1. TypeOK /\ LockInv /\ t \in Threads /\ t \notin Apps /\ InLock(t)
  BY ThreadsAssumption DEF ClientsInv, Threads, Nested, InLock, Walking
<1> QED
  BY <1>1, OnlySection DEF Nested, calls

LEMMA CallbackThrowsKeeps ==
  ASSUME ClientsInv, WindowsInv, NEW t \in Caps, Nested(t), NestedThrows(t), Notes({"threw"})
  PROVE  WindowsInv'
BY NestedAlone, ThrowsKeep DEF NestedThrows, InSection

LEMMA CallbackAddsKeeps ==
  ASSUME ClientsInv, WindowsInv, NEW t \in Caps, NEW c \in Clients, CallbackAdds(t, c)
  PROVE  WindowsInv'
<1>1. AddToList(c) /\ Nested(t)
  BY DEF CallbackAdds
<1>2. CASE NestedThrows(t) /\ Notes({"threw"})
  BY <1>1, <1>2, CallbackThrowsKeeps
<1>3. ASSUME NEW s \in Brings(c), AddWindow(c, s), Notes(OddAdd(c) \cup OddSurface(s))
      PROVE  WindowsInv'
  <2>0. TypeOK /\ OwnedInv
    BY DEF ClientsInv, WindowsInv
  <2>1. Registered' = Registered \cup {c} /\ (NoTwice /\ c \notin Registered => NoTwice')
    BY <1>1, <2>0, ListSet DEF TypeOK
  <2>2. /\ Calm' => Calm /\ s \in Windows /\ s[2] = 1
        /\ Orderly' => /\ Orderly /\ s \in Windows /\ c \notin Registered
                       /\ c \notin Encoders => Registered \subseteq Encoders \cup {c}
    BY <1>3, NotesMeans DEF OddAdd, OddSlot, OddSurface
  <2>3. /\ OwnedInv' /\ UNCHANGED native
        /\ Pictured' \subseteq Pictured \cup {c}
        /\ Stable /\ (s \in Windows => s[2] = 1) => Stable'
        /\ Pictured \cap Encoders \subseteq Pictured'
        /\ c \in Encoders => Pictured \subseteq Pictured'
        /\ native /\ s \in Windows => c \in Pictured'
    BY <1>3, <2>0, AddWindowSets
  <2>4. SectionInv'
    BY <1>1, NestedAlone DEF SectionInv, InSection
  <2>5. \A d : (Removing(d) => Removing(d)') /\ ~Adding(d)
    BY <1>1, NestedAlone DEF Removing, Adding, InSection
  <2>6. Calm' => Stable' /\ \A d \in Pictured' : d \in Registered' \/ Removing(d)'
    BY <2>1, <2>2, <2>3, <2>5 DEF WindowsInv, AttachInv
  <2>7. ASSUME native', Orderly', NEW d \in Registered' PROVE d \in Pictured'
    <3>1. CASE d = c
      BY <2>2, <2>3, <2>7, <3>1
    <3>2. CASE d # c
      <4>1. d \in Pictured
        BY <2>1, <2>2, <2>3, <2>5, <2>7, <3>2 DEF WindowsInv, AttachInv
      <4> QED
        BY <2>1, <2>2, <2>3, <2>7, <3>2, <4>1
    <3> QED
      BY <3>1, <3>2
  <2>8. AttachInv'
    BY <2>1, <2>2, <2>6, <2>7 DEF WindowsInv, AttachInv
  <2> QED
    BY <2>3, <2>4, <2>8 DEF WindowsInv
<1> QED
  BY <1>2, <1>3 DEF CallbackAdds

LEMMA CallbackRemovesKeeps ==
  ASSUME ClientsInv, WindowsInv, NEW t \in Caps, NEW c \in Clients, CallbackRemoves(t, c)
  PROVE  WindowsInv'
<1>1. RemoveFromList(c) /\ Nested(t)
  BY DEF CallbackRemoves
<1>2. CASE NestedThrows(t) /\ Notes({"threw"})
  BY <1>1, <1>2, CallbackThrowsKeeps
<1>3. ASSUME NEW s, c \in Encoders => s \in Brings(c), RemoveWindow(c, s),
             Notes(OddSlot(c) \cup OddSurface(s))
      PROVE  WindowsInv'
  <2>0. TypeOK /\ OwnedInv
    BY DEF ClientsInv, WindowsInv
  <2>1. /\ Registered' \subseteq Registered /\ Registered \subseteq Registered' \cup {c}
        /\ NoTwice => NoTwice' /\ c \notin Registered'
    BY <1>1, <2>0, ListSet DEF TypeOK
  <2>2. /\ Calm' => Calm /\ s \in Windows /\ s[2] = 1
        /\ Orderly' => /\ Orderly
                       /\ c \notin Encoders => Registered \subseteq Encoders \cup {c}
    BY <1>3, NotesMeans DEF OddSlot, OddSurface
  <2>3. Calm' /\ c \in Encoders => s = <<c, 1>>
    BY <1>3, <2>2, SurfacesAssumption DEF Brings, Windows
  <2>4. /\ OwnedInv' /\ UNCHANGED native
        /\ Pictured' \subseteq Pictured
        /\ Stable => Stable'
        /\ Stable /\ (c \in Encoders => s = <<c, 1>>) => c \notin Pictured'
        /\ c \notin Encoders => Pictured \cap Encoders \subseteq Pictured'
        /\ c \in Encoders => Pictured \subseteq Pictured' \cup {c}
    BY <1>3, <2>0, RemoveWindowSets
  <2>5. SectionInv'
    BY <1>1, NestedAlone DEF SectionInv, InSection
  <2>6. \A d : (Removing(d) => Removing(d)') /\ ~Adding(d)
    BY <1>1, NestedAlone DEF Removing, Adding, InSection
  <2>7. Calm' => Stable' /\ \A d \in Pictured' : d \in Registered' \/ Removing(d)'
    BY <2>1, <2>2, <2>3, <2>4, <2>6 DEF WindowsInv, AttachInv
  <2>8. ASSUME native', Orderly', NEW d \in Registered' PROVE d \in Pictured'
    <3>1. d \in Registered /\ d # c /\ d \in Pictured
      BY <2>1, <2>2, <2>4, <2>6, <2>8 DEF WindowsInv, AttachInv
    <3> QED
      BY <2>2, <2>4, <2>8, <3>1
  <2>9. AttachInv'
    BY <2>1, <2>2, <2>7, <2>8 DEF WindowsInv, AttachInv
  <2> QED
    BY <2>4, <2>5, <2>9 DEF WindowsInv
<1>4. CASE \E s \in IF c \in Encoders THEN Brings(c) ELSE {<<c, 1>>} :
             RemoveWindow(c, s) /\ Notes(OddSlot(c) \cup OddSurface(s))
  BY <1>3, <1>4
<1> QED
  BY <1>2, <1>4 DEF CallbackRemoves

LEMMA CallbackReleasesKeeps ==
  ASSUME ClientsInv, WindowsInv, NEW t \in Caps, CallbackReleases(t)
  PROVE  WindowsInv'
<1>1. RemoveLoop /\ Nested(t)
  BY DEF CallbackReleases
<1>2. CASE NestedThrows(t) /\ Notes({"threw"})
  BY <1>1, <1>2, CallbackThrowsKeeps
<1>3. CASE ReleaseCamera /\ UNCHANGED oddities
  <2>1. OwnedInv' /\ native' = FALSE /\ Pictured' = {} /\ Stable'
    BY <1>3, ReleaseSets
  <2>2. NoTwice => NoTwice'
    BY <1>1, ListSet DEF ClientsInv, TypeOK
  <2>3. SectionInv'
    BY <1>1, NestedAlone DEF SectionInv, InSection
  <2>4. AttachInv'
    BY <1>3, <2>1, <2>2 DEF WindowsInv, AttachInv, Orderly
  <2> QED
    BY <2>1, <2>3, <2>4 DEF WindowsInv
<1> QED
  BY <1>2, <1>3 DEF CallbackReleases

LEMMA WindowsInit == Init => WindowsInv
  BY LenProperties
  DEF Init, WindowsInv, OwnedInv, SectionInv, AttachInv, Stable, Pictured, Drawn, NoTwice,
      Registered, ToSet

LEMMA WindowsNext == ClientsInv /\ WindowsInv /\ [Next]_vars => WindowsInv'
<1> SUFFICES ASSUME ClientsInv, WindowsInv, [Next]_vars PROVE WindowsInv'
  OBVIOUS
<1> USE DEF calls
<1>0. TypeOK
  BY DEF ClientsInv
<1>1. ASSUME NEW a \in Apps, AppCall(a) PROVE WindowsInv'
  <2>1. PICK to \in {"add_lock", "remove_lock", "release_lock"} : AppStep(a, "idle", to)
    BY <1>1 DEF AppCall, CallAdd, CallRemove, CallRelease, Call
  <2>2. /\ UNCHANGED <<mClients, windows, oddities>>
        /\ \E c : appArg' = [appArg EXCEPT ![a] = c]
    BY <1>1 DEF AppCall, CallAdd, CallRemove, CallRelease, Call
  <2>3. \A b \in Apps \ {a} : UNCHANGED <<appPc[b], appArg[b]>>
    BY <1>0, <2>1, <2>2 DEF AppStep, TypeOK
  <2>4. appPc[a] = "idle" /\ appPc'[a] = to
    BY <1>0, <2>1 DEF AppStep, TypeOK
  <2> QED
    BY <2>2, <2>3, <2>4, SameWindowsKeep DEF Calm, Orderly
<1>2. ASSUME NEW a \in Apps, SurfaceThrows(a) PROVE WindowsInv'
  <2>1. /\ Notes({"threw"}) /\ UNCHANGED <<mClients, windows>>
        /\ \A b \in Apps : appPc'[b] = "add_surface" =>
             appPc[b] = "add_surface" /\ appArg'[b] = appArg[b]
    BY <1>0, <1>2 DEF SurfaceThrows, AppDone, TypeOK
  <2> QED
    BY <2>1, ThrowsKeep DEF Registered
<1>3. ASSUME NEW t \in Caps, IteratorThrows(t) \/ CallbackThrows(t) PROVE WindowsInv'
  <2>1. Notes({"threw"}) /\ UNCHANGED <<mClients, calls, windows>>
    BY <1>3 DEF IteratorThrows, CallbackThrows
  <2> QED
    BY <2>1, ThrowsKeep DEF Registered
<1>4. UNCHANGED <<mClients, windows, oddities, appPc, appArg>> => WindowsInv'
  BY SameWindowsKeep DEF Calm, Orderly
<1>5. ASSUME NEW t \in Caps,
             \/ NotifyLock(t) \/ NextClient(t) \/ NotifyUnlock(t)
             \/ CallbackReturns(t) \/ CallbackWaits(t) \/ WaitOver(t)
      PROVE  WindowsInv'
  BY <1>4, <1>5 DEF NotifyLock, NextClient, NotifyUnlock, CallbackReturns, CallbackWaits, WaitOver
<1>6. CASE Next
  BY <1>1, <1>2, <1>3, <1>5, <1>6, AddLockKeeps, RemoveLockKeeps, AddSurfaceKeeps,
     RemoveSurfaceKeeps, ReleaseLockKeeps, ReleaseNativeKeeps, CallbackAddsKeeps,
     CallbackRemovesKeeps, CallbackReleasesKeeps, NextCases
<1>7. CASE UNCHANGED vars
  BY <1>4, <1>7 DEF vars
<1> QED
  BY <1>6, <1>7

LEMMA WindowsInvariant == Spec => []WindowsInv
  BY ClientsInvariant, WindowsInit, WindowsNext, PTL DEF Spec

(***************************************************************************)
(* Every variable keeps its type, whatever the clients do in their         *)
(* callbacks (all of Camera.java).                                         *)
(***************************************************************************)
THEOREM ClientsTypeCorrect == Spec => []TypeOK
<1>1. ClientsInv => TypeOK
  BY DEF ClientsInv
<1> QED
  BY <1>1, ClientsInvariant, PTL

(***************************************************************************)
(* mClientLock is left locked by exceptions only (every section of         *)
(* Camera.java).                                                           *)
(***************************************************************************)
THEOREM LockCorrect == Spec => []LockGivenBack
<1>1. ClientsInv => LockGivenBack
  BY ThreadsAssumption DEF ClientsInv, LockInv, InLock, LockGivenBack, Threads
<1> QED
  BY <1>1, ClientsInvariant, PTL

(***************************************************************************)
(* A notification walks through one list that only its own callbacks can   *)
(* change (notifyFirstCapture, notifyCaptureStop, notifyCameraError).      *)
(***************************************************************************)
THEOREM OneListCorrect == Spec => []NotificationSeesOneList
<1>1. ClientsInv => NotificationSeesOneList
  BY DEF ClientsInv, WalkInv, NotificationSeesOneList
<1> QED
  BY <1>1, ClientsInvariant, PTL

(***************************************************************************)
(* A notification tells a prefix of the list in its order, all of it when  *)
(* no callback has changed it, and throws of itself only when one has      *)
(* (notifyFirstCapture, notifyCaptureStop, notifyCameraError).             *)
(***************************************************************************)
THEOREM OutcomeCorrect == Spec => NotificationOutcome
<1>1. ASSUME ClientsInv, [Next]_vars
      PROVE  [\A t \in Caps :
                capPc[t] = "iterate" =>
                  /\ IsPrefix(told[t], roll[t])
                  /\ capPc'[t] = "run" /\ t \notin ownChange => told[t] = roll[t]
                  /\ capPc'[t] = "gone" => t \in ownChange]_vars
  <2> SUFFICES ASSUME Next, NEW t \in Caps, capPc[t] = "iterate"
               PROVE  /\ IsPrefix(told[t], roll[t])
                      /\ capPc'[t] = "run" /\ t \notin ownChange => told[t] = roll[t]
                      /\ capPc'[t] = "gone" => t \in ownChange
    BY <1>1
  <2>1. TypeOK /\ WalkOf(t)
    BY <1>1 DEF ClientsInv, WalkInv, WalkOf
  <2>2. ToldPrefix(t) /\ told[t] \in Seq(Clients) /\ roll[t] \in Seq(Clients)
    BY <2>1 DEF WalkOf, Walking, TypeOK
  <2>3. IsPrefix(told[t], roll[t])
    BY <2>2 DEF ToldPrefix, IsPrefix
  <2>4. capPc'[t] = "run" => NotifyUnlock(t)
    BY <2>1 DEF Next, AppCall, CallAdd, CallRemove, CallRelease, Call, AppWork, AddLock, RemoveLock,
       AddSurface, RemoveSurface, SurfaceThrows, ReleaseLock, ReleaseNative, NotifyLock, CapWork,
       NextClient, NotifyUnlock, IteratorThrows, CallbackWork, CallbackEnds, CallbackReturns,
       CallbackThrows, CallbackWaits, WaitOver, CallbackAdds, CallbackRemoves, CallbackReleases,
       Nested, CapStep, walk, TypeOK
  <2>5. capPc'[t] = "gone" => IteratorThrows(t)
    BY <2>1 DEF Next, AppCall, CallAdd, CallRemove, CallRelease, Call, AppWork, AddLock, RemoveLock,
       AddSurface, RemoveSurface, SurfaceThrows, ReleaseLock, ReleaseNative, NotifyLock, CapWork,
       NextClient, NotifyUnlock, IteratorThrows, CallbackWork, CallbackEnds, CallbackReturns,
       CallbackThrows, CallbackWaits, WaitOver, CallbackAdds, CallbackRemoves, CallbackReleases,
       Nested, CapStep, walk, TypeOK
  <2>6. NotifyUnlock(t) /\ t \notin ownChange => told[t] = roll[t]
    <3>1. NotifyUnlock(t) /\ t \notin ownChange => Len(told[t]) = Len(roll[t])
      BY <2>1, <2>2 DEF NotifyUnlock, HasNext, WalkOf, ToldPrefix, Walking
    <3> QED
      BY <2>2, <3>1, SeqEqual DEF ToldPrefix
  <2>7. IteratorThrows(t) => t \in ownChange
    BY <2>1 DEF IteratorThrows, WalkOf, Walking
  <2> QED
    BY <2>3, <2>4, <2>5, <2>6, <2>7
<1> QED
  BY <1>1, ClientsInvariant, PTL DEF Spec, NotificationOutcome

(***************************************************************************)
(* Whatever is drawn belongs to a client that is registered or is just     *)
(* being removed, for any threads, clients and callbacks: only surfaces    *)
(* that change, surfaces that are none, and exceptions leave a window      *)
(* behind (addClient, removeClient, release).                              *)
(***************************************************************************)
THEOREM AttachedCorrect == Spec => []AttachedIsRegistered
<1>1. WindowsInv => AttachedIsRegistered
  BY DEF WindowsInv, AttachInv, Calm, Pictured, AttachedIsRegistered
<1> QED
  BY <1>1, WindowsInvariant, PTL

(***************************************************************************)
(* Every registered client gets its picture, unless there were two preview *)
(* clients, a client added twice, a surface that was none or an exception  *)
(* (addClient, removeClient, release).                                     *)
(***************************************************************************)
THEOREM RegisteredCorrect == Spec => []RegisteredIsAttached
<1>1. WindowsInv => RegisteredIsAttached
  BY DEF WindowsInv, AttachInv, Orderly, Pictured, RegisteredIsAttached
<1> QED
  BY <1>1, WindowsInvariant, PTL

=============================================================================
