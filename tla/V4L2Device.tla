----------------------------- MODULE V4L2Device -----------------------------
(***************************************************************************)
(* The video device as Camera.cpp sees it through open, close, mmap and    *)
(* the VIDIOC_* ioctls.  The kernel is not part of the repository, so this *)
(* module is external: it says only what the calls of Camera.cpp rely on.  *)
(*                                                                         *)
(*  - One open descriptor at a time may own the capture buffers; REQBUFS   *)
(*    through another one is refused (EBUSY).                              *)
(*  - A buffer is either queued with the driver or dequeued (in the        *)
(*    program's hands); QBUF of a buffer already queued is refused.        *)
(*  - Closing the owner gives the buffers back to the kernel, unless a     *)
(*    mapping still pins the open file: POSIX mmap takes a reference of    *)
(*    its own to the file, which close does not drop.  MappingPinsFile     *)
(*    chooses between the two behaviours, and every property is checked    *)
(*    under both.                                                          *)
(***************************************************************************)
EXTENDS Integers

CONSTANTS
  Fds,              \* descriptor numbers open() may return
  BUFFER_NR,        \* buffers requested with VIDIOC_REQBUFS (4 in the code)
  MappingPinsFile   \* does a live mapping keep a closed device file open?

(***************************************************************************)
(* 0, 1 and 2 are taken in every Android process, so open() returns a      *)
(* positive number; Camera.cpp tests "> 0" in some places and "< 0" in     *)
(* others, which agree only because of this.                               *)
(***************************************************************************)
ASSUME FdsAssumption == Fds \subseteq Nat \ {0}
ASSUME BufferAssumption == BUFFER_NR \in Nat \ {0}
ASSUME PinAssumption == MappingPinsFile \in BOOLEAN

Buffers == 0 .. (BUFFER_NR - 1)

NoOwner == -2   \* no descriptor has allocated buffers
Orphan  == -3   \* the owner was closed, its mapping still pins the buffers

VARIABLES
  openFds,     \* descriptors of the device this process holds open
  owner,       \* the descriptor that allocated the buffers
  mapped,      \* has the owner's memory been mapped (and never unmapped)?
  streaming,   \* STREAMON was done on the owner
  queued       \* buffers queued with the driver

device == <<openFds, owner, mapped, streaming, queued>>

DeviceTypeOK ==
  /\ openFds \subseteq Fds
  /\ owner \in Fds \cup {NoOwner, Orphan}
  /\ mapped \in BOOLEAN
  /\ streaming \in BOOLEAN
  /\ queued \subseteq Buffers

DeviceInit ==
  /\ openFds = {}
  /\ owner = NoOwner
  /\ mapped = FALSE
  /\ streaming = FALSE
  /\ queued = {}

-----------------------------------------------------------------------------

\* open(): any number that is not in use.
OpenFile(fd) ==
  /\ fd \in Fds \ openFds
  /\ openFds' = openFds \cup {fd}
  /\ UNCHANGED <<owner, mapped, streaming, queued>>

\* close(): of a number that is not open (-1 included) it changes nothing.
CloseFile(fd) ==
  /\ openFds' = openFds \ {fd}
  /\ IF fd # owner \/ fd \notin openFds
     THEN UNCHANGED <<owner, mapped, streaming, queued>>
     ELSE IF mapped /\ MappingPinsFile
     THEN owner' = Orphan /\ UNCHANGED <<mapped, streaming, queued>>
     ELSE /\ owner' = NoOwner
          /\ mapped' = FALSE
          /\ streaming' = FALSE
          /\ queued' = {}

\* VIDIOC_REQBUFS: the buffers can be allocated again until they are mapped.
RequestBuffers(fd) ==
  /\ fd \in openFds
  /\ owner = NoOwner \/ (owner = fd /\ ~mapped)
  /\ owner' = fd
  /\ queued' = {}
  /\ UNCHANGED <<openFds, mapped, streaming>>

\* VIDIOC_QUERYBUF and mmap() of the owner's buffers.
MapBuffers(fd) ==
  /\ fd = owner
  /\ mapped' = TRUE
  /\ UNCHANGED <<openFds, owner, streaming, queued>>

\* VIDIOC_QBUF of the buffers in bs, none of which may be queued already.
QueueBuffers(fd, bs) ==
  /\ fd = owner
  /\ bs \cap queued = {}
  /\ queued' = queued \cup bs
  /\ UNCHANGED <<openFds, owner, mapped, streaming>>

\* VIDIOC_STREAMON.
StreamOn(fd) ==
  /\ fd = owner
  /\ streaming' = TRUE
  /\ UNCHANGED <<openFds, owner, mapped, queued>>

\* VIDIOC_DQBUF: the driver hands over a filled buffer.
DequeueBuffer(fd, b) ==
  /\ fd = owner
  /\ streaming
  /\ b \in queued
  /\ queued' = queued \ {b}
  /\ UNCHANGED <<openFds, owner, mapped, streaming>>

=============================================================================
