---------------------------- MODULE PreviewFrame -----------------------------
(***************************************************************************)
(* The picture the preview window gets.  Camera::Yvyu2Yuv420 spreads the   *)
(* packed frame of the camera over three planes in mYuv420sp, and          *)
(* drawPreviewSurface copies these bytes into a window buffer of the       *)
(* format YV12 (system/graphics.h).                                        *)
(*                                                                         *)
(* Three sizes meet here and nothing compares them: mWidth x mHeight that  *)
(* the application asked for, the frame the driver granted (VIDIOC_S_FMT   *)
(* may change it; openCamera does not look), and the rows of the window    *)
(* buffer, which gralloc may pad.                                          *)
(*                                                                         *)
(* A byte is named by where it comes from: its offset in the camera's      *)
(* buffer.                                                                 *)
(***************************************************************************)
EXTENDS FrameSizes

CONSTANTS
  Frames,   \* what a driver may grant: [w, h, bpp], bytes per pixel
  Align     \* gralloc's alignment of strides, and ALIGN(..., 16)

ASSUME FramesAssumption == Frames \subseteq [w : Nat, h : Nat, bpp : Nat]
ASSUME AlignAssumption == Align \in Nat \ {0} /\ Align % 2 = 0

VARIABLES
  granted,      \* the frame the driver delivers
  stride,       \* of the window buffer that was dequeued
  pc, i, j,
  Y, U, V,      \* the three write pointers, as offsets into mYuv420sp
  mYuv420sp,    \* Junk where nothing was written yet
  dst,          \* the window buffer
  fault         \* the first access outside a buffer

geometry == <<mWidth, mHeight, granted, stride>>
loop == <<i, j, Y, U, V>>
vars == <<geometry, pc, loop, mYuv420sp, dst, fault>>

Junk == -1

-----------------------------------------------------------------------------
(***************************************************************************)
(* Slips one could make in this code.  No action uses them.                *)
(***************************************************************************)

\* The V plane is put in front of the U plane.
SwappedChroma == [u |-> mWidth * mHeight + (mWidth * mHeight) \div 4,
                  v |-> mWidth * mHeight]

\* The chroma of every row is kept.
KeepsEveryRow == TRUE

\* One column too many.
ColumnsLeftInclusive == j <= mWidth \div 2

-----------------------------------------------------------------------------
AlignUp(x) == ((x + Align - 1) \div Align) * Align

\* Bytes of one mapped camera buffer, and of mYuv420sp.
SourceSize == granted.w * granted.h * granted.bpp
StagingSize == (mWidth * mHeight * 3) \div 2

\* The window buffer: its height is what native_window_set_buffers_dimensions
\* asked for, its size that of the YV12 planes.
bufWidth  == ((mWidth + 1) \div 2) * 2
bufHeight == ((mHeight + 1) \div 2) * 2
dst_y_size   == stride * bufHeight
dst_c_stride == AlignUp(stride \div 2)
dst_c_size   == (dst_c_stride * bufHeight) \div 2
CopySize     == dst_y_size + 2 * dst_c_size

\* Where the U and the V plane begin.
Planes == [u |-> mWidth * mHeight, v |-> mWidth * mHeight + (mWidth * mHeight) \div 4]

\* The offset of the macropixel of row i and column j: two pixels in four bytes.
Macropixel == ((i * mWidth) \div 2 + j) * 4

\* Chroma is kept of every other row.
KeepsChroma == i % 2 = 0

RowsLeft == i < mHeight
ColumnsLeft == j < mWidth \div 2

TypeOK ==
  /\ pc \in {"alloc", "spread", "copy", "done"}
  /\ i \in 0 .. mHeight
  /\ j \in 0 .. mWidth \div 2
  /\ {Y, U, V} \subseteq Nat
  /\ mYuv420sp \in [0 .. StagingSize - 1 -> {Junk} \cup 0 .. SourceSize - 1]
  /\ dst \in [0 .. CopySize - 1 -> {Junk} \cup 0 .. SourceSize - 1]
  /\ fault \in {"none", "source_overread", "staging_overwrite", "staging_overread"}

\* A dequeued camera buffer and a window whose lock is held.
Init ==
  /\ mWidth \in Widths /\ mHeight \in Heights
  /\ granted \in Frames \cup {[w |-> mWidth, h |-> mHeight, bpp |-> 2]}
  /\ stride \in {AlignUp(bufWidth), AlignUp(bufWidth) + Align}
  /\ pc = "alloc"
  /\ i = 0 /\ j = 0
  /\ Y = 0 /\ U = 0 /\ V = 0
  /\ mYuv420sp = [k \in 0 .. StagingSize - 1 |-> Junk]
  /\ dst = [k \in 0 .. CopySize - 1 |-> Junk]
  /\ fault = "none"

-----------------------------------------------------------------------------
\* Memory is there, and Yvyu2Yuv420 sets up its pointers.
BeginSpread ==
  /\ pc = "alloc"
  /\ pc' = "spread"
  /\ Y' = 0
  /\ U' = Planes.u
  /\ V' = Planes.v
  /\ UNCHANGED <<geometry, i, j, mYuv420sp, dst, fault>>

(***************************************************************************)
(* One turn of the inner loop: y1, v, y2 and u are read, both lumas are    *)
(* written, and in every other row the two chromas.                        *)
(***************************************************************************)
Written == {Y, Y + 1} \cup IF KeepsChroma THEN {U, V} ELSE {}

Spread ==
  /\ pc = "spread"
  /\ RowsLeft /\ ColumnsLeft
  /\ IF Macropixel + 3 >= SourceSize
     THEN fault' = "source_overread" /\ UNCHANGED mYuv420sp
     ELSE IF \E k \in Written : k >= StagingSize
     THEN fault' = "staging_overwrite" /\ UNCHANGED mYuv420sp
     ELSE /\ mYuv420sp' = [k \in DOMAIN mYuv420sp |->
               IF KeepsChroma /\ k = V THEN Macropixel + 1
               ELSE IF KeepsChroma /\ k = U THEN Macropixel + 3
               ELSE IF k = Y + 1 THEN Macropixel + 2
               ELSE IF k = Y THEN Macropixel
               ELSE mYuv420sp[k]]
          /\ UNCHANGED fault
  /\ Y' = Y + 2
  /\ U' = IF KeepsChroma THEN U + 1 ELSE U
  /\ V' = IF KeepsChroma THEN V + 1 ELSE V
  /\ j' = j + 1
  /\ UNCHANGED <<geometry, pc, i, dst>>

NextRow ==
  /\ pc = "spread"
  /\ RowsLeft /\ ~ColumnsLeft
  /\ i' = i + 1
  /\ j' = 0
  /\ UNCHANGED <<geometry, pc, Y, U, V, mYuv420sp, dst, fault>>

EndSpread ==
  /\ pc = "spread"
  /\ ~RowsLeft
  /\ pc' = "copy"
  /\ UNCHANGED <<geometry, loop, mYuv420sp, dst, fault>>

\* memcpy(dst, mYuv420sp, dst_y_size + dst_c_size * 2).
CopyToWindow ==
  /\ pc = "copy"
  /\ pc' = "done"
  /\ IF CopySize > StagingSize
     THEN fault' = "staging_overread" /\ UNCHANGED dst
     ELSE dst' = [k \in DOMAIN dst |-> mYuv420sp[k]] /\ UNCHANGED fault
  /\ UNCHANGED <<geometry, loop, mYuv420sp>>

Next ==
  \/ /\ fault = "none"
     /\ BeginSpread \/ Spread \/ NextRow \/ EndSpread \/ CopyToWindow
  \/ (pc = "done" \/ fault # "none") /\ UNCHANGED vars

Spec == Init /\ [][Next]_vars

-----------------------------------------------------------------------------
\* The driver kept to the size and the format it was asked for.
Asked == granted = [w |-> mWidth, h |-> mHeight, bpp |-> 2]

EvenSize == mWidth % 2 = 0 /\ mHeight % 2 = 0

\* No row of any plane is padded: 640 x 480 and 1280 x 720 are of this kind.
Unpadded == stride = mWidth /\ dst_c_stride = mWidth \div 2

(***************************************************************************)
(* Each access outside a buffer needs its own mismatch: a frame of the     *)
(* camera that is smaller than asked for, an odd height, or padding in the *)
(* window (openCamera, Yvyu2Yuv420, drawPreviewSurface).                   *)
(***************************************************************************)
FaultNeedsMismatch ==
  /\ fault = "source_overread" => SourceSize < 2 * mWidth * mHeight
  /\ fault = "staging_overwrite" => mHeight % 2 = 1
  /\ fault = "staging_overread" => ~EvenSize \/ ~Unpadded

\* Where YV12 keeps the luma and the chroma of pixel (x, y).
LumaAt(x, y) == y * stride + x
CrAt(x, y) == dst_y_size + (y \div 2) * dst_c_stride + x \div 2
CbAt(x, y) == CrAt(x, y) + dst_c_size

\* Where a YUYV frame of the camera keeps them: Y0 Cb Y1 Cr.
SourceLuma(x, y) == (y * mWidth + x) * 2
SourceCb(x, y) == ((y * mWidth) \div 2 + x \div 2) * 4 + 1
SourceCr(x, y) == ((y * mWidth) \div 2 + x \div 2) * 4 + 3

(***************************************************************************)
(* The window shows the camera's picture: every luma at its place, and the *)
(* chroma of the even rows in the plane it belongs to.  The function calls *)
(* the second byte v and the fourth u, and writes u in front of v: two     *)
(* changes of name that cancel out, since the camera delivers Cb before Cr *)
(* and YV12 has Cr first (Yvyu2Yuv420, drawPreviewSurface).                *)
(***************************************************************************)
ShowsPicture ==
  pc = "done" /\ Asked /\ EvenSize /\ Unpadded =>
    \A x \in 0 .. mWidth - 1, y \in 0 .. mHeight - 1 :
      /\ dst[LumaAt(x, y)] = SourceLuma(x, y)
      /\ dst[CrAt(x, y)] = SourceCr(x, y - (y % 2))
      /\ dst[CbAt(x, y)] = SourceCb(x, y - (y % 2))

(***************************************************************************)
(* system/graphics.h on YV12: "c_stride = ALIGN(stride/2, 16)" and         *)
(* "cr_offset = y_size", for any even width and height.  So whatever even  *)
(* size the camera has, the first chroma byte of the window is the first   *)
(* Cr of the picture, and nothing outside mYuv420sp is copied.             *)
(***************************************************************************)
WindowIsYV12 ==
  pc = "done" /\ Asked /\ EvenSize =>
    fault = "none" /\ dst[CrAt(0, 0)] = SourceCr(0, 0)

=============================================================================
