----------------------------- MODULE CenterCopy ------------------------------
(***************************************************************************)
(* The picture an encoder window gets: drawEncoderSurface copies the whole *)
(* RGBA frame when the window has the camera's size, else                  *)
(* copyFrameCenterGravity cuts the middle out of it, row by row.           *)
(*                                                                         *)
(* All offsets count pixels: the code shifts every one of them by          *)
(* bpp_shift.  A copied pixel is named by its place in the source frame,   *)
(* so that bits says which pixel of the frame is where in the window.      *)
(***************************************************************************)
EXTENDS FrameSizes

CONSTANT WindowSizes   \* widths and heights of encoder windows

ASSUME WindowsAssumption == WindowSizes \subseteq Nat \ {0}

VARIABLES
  dest_w, dest_h,   \* the size of the locked window buffer
  bufferStride,     \* pixels from one of its rows to the next
  cutPc, cutRow, copyed, src_off,
  bits,             \* the window buffer; Old where this frame wrote nothing
  cutFault          \* the first access outside a buffer

cutSizes == <<mWidth, mHeight, dest_w, dest_h, bufferStride>>
cutVars == <<cutSizes, cutPc, cutRow, copyed, src_off, bits, cutFault>>

Old == -1

\* Pixels in mRGBA8888, and in the window buffer.
SrcSize == mWidth * mHeight
DestSize == bufferStride * dest_h

CutTypeOK ==
  /\ {mWidth, mHeight, dest_w, dest_h} \subseteq Nat \ {0}
  /\ bufferStride \in Nat /\ bufferStride >= dest_w
  /\ cutPc \in {"compare", "rows", "done"}
  /\ cutRow \in 0 .. dest_h
  /\ copyed \in Nat
  /\ src_off \in Nat
  /\ bits \in [0 .. DestSize - 1 -> {Old} \cup 0 .. SrcSize - 1]
  /\ cutFault \in {"none", "over_read", "over_write"}

\* A buffer of a window of any size has been locked.
CutInit ==
  /\ mWidth \in Widths /\ mHeight \in Heights
  /\ dest_w \in WindowSizes /\ dest_h \in WindowSizes
  /\ bufferStride \in {dest_w, dest_w + 1}
  /\ cutPc = "compare"
  /\ cutRow = 0
  /\ copyed = 0
  /\ src_off = 0
  /\ bits = [k \in 0 .. DestSize - 1 |-> Old]
  /\ cutFault = "none"

-----------------------------------------------------------------------------
(***************************************************************************)
(* Slips one could make in this code.  No action uses them.                *)
(***************************************************************************)

\* Only one of the two margins is skipped.
NextCutRowOneMargin(off) == off + dest_w + (mWidth - dest_w + 1) \div 2

\* The bottom margin rounded up as if the frame had one row more.
LowMargin == (mHeight - dest_h + 2) \div 2

-----------------------------------------------------------------------------
CutRowsLeft == cutRow < dest_h

horizontal_margin == (mWidth - dest_w + 1) \div 2
vertical_margin   == (mHeight - dest_h + 1) \div 2

-----------------------------------------------------------------------------
(***************************************************************************)
(* memcpy of n pixels; an access outside ends the copy with a fault.       *)
(***************************************************************************)
Copy(to, from, n) ==
  IF to + n > DestSize THEN cutFault' = "over_write" /\ UNCHANGED bits
  ELSE IF from + n > SrcSize THEN cutFault' = "over_read" /\ UNCHANGED bits
  ELSE /\ bits' = [k \in DOMAIN bits |->
                     IF k \in to .. to + n - 1 THEN from + (k - to) ELSE bits[k]]
       /\ UNCHANGED cutFault

\* The next row of the source starts two margins after the end of this one.
NextCutRow(off) == off + dest_w + 2 * horizontal_margin

-----------------------------------------------------------------------------
SameSize == mWidth = dest_w /\ mHeight = dest_h
TooSmall == mWidth < dest_w \/ mHeight < dest_h

CopyWhole ==
  /\ cutPc = "compare"
  /\ SameSize
  /\ Copy(0, 0, SrcSize)
  /\ cutPc' = "done"
  /\ UNCHANGED <<cutSizes, cutRow, copyed, src_off>>

\* "This resolution don't be supported": the window is posted as it is.
Refuse ==
  /\ cutPc = "compare"
  /\ TooSmall
  /\ cutPc' = "done"
  /\ UNCHANGED <<cutSizes, cutRow, copyed, src_off, bits, cutFault>>

BeginRows ==
  /\ cutPc = "compare"
  /\ ~SameSize /\ ~TooSmall
  /\ src_off' = vertical_margin * mWidth + horizontal_margin
  /\ cutPc' = "rows"
  /\ UNCHANGED <<cutSizes, cutRow, copyed, bits, cutFault>>

CopyRow ==
  /\ cutPc = "rows"
  /\ CutRowsLeft
  /\ Copy(copyed, src_off, dest_w)
  /\ copyed' = copyed + dest_w
  /\ src_off' = NextCutRow(src_off)
  /\ cutRow' = cutRow + 1
  /\ UNCHANGED <<cutSizes, cutPc>>

EndRows ==
  /\ cutPc = "rows"
  /\ ~CutRowsLeft
  /\ cutPc' = "done"
  /\ UNCHANGED <<cutSizes, cutRow, copyed, src_off, bits, cutFault>>

CutNext ==
  \/ /\ cutFault = "none"
     /\ CopyWhole \/ Refuse \/ BeginRows \/ CopyRow \/ EndRows
  \/ (cutPc = "done" \/ cutFault # "none") /\ UNCHANGED cutVars

CutSpec == CutInit /\ [][CutNext]_cutVars

-----------------------------------------------------------------------------
EvenMargin == (mWidth - dest_w) % 2 = 0

(***************************************************************************)
(* The cut never writes outside the window, and reads past the end of      *)
(* mRGBA8888 only when the widths differ by an odd number: each row then   *)
(* starts a pixel too far to the right (copyFrameCenterGravity).           *)
(***************************************************************************)
OverreadNeedsOddMargin ==
  /\ cutFault # "over_write"
  /\ cutFault = "over_read" => ~EvenMargin

(***************************************************************************)
(* The window shows the middle of the frame, every pixel at its place, if  *)
(* the widths differ by an even number and the rows of the window buffer   *)
(* follow one another without a gap: neither copy looks at buffer.stride   *)
(* (drawEncoderSurface).                                                   *)
(***************************************************************************)
CentrePixel(x, y) == (vertical_margin + y) * mWidth + horizontal_margin + x

ShowsCentre ==
  cutPc = "done" /\ ~TooSmall /\ EvenMargin /\ bufferStride = dest_w =>
    \A x \in 0 .. dest_w - 1, y \in 0 .. dest_h - 1 :
      bits[y * bufferStride + x] = CentrePixel(x, y)

=============================================================================
