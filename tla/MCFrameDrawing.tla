--------------------------- MODULE MCFrameDrawing ----------------------------
(***************************************************************************)
(* TLC instance of FrameDrawing: small frames of every size, or one pair   *)
(* of pixels in every colour.                                              *)
(***************************************************************************)
EXTENDS FrameDrawing

\* A smaller frame, a larger one, and one in another format.
DriverFrames == {[w |-> 2, h |-> 2, bpp |-> 2], [w |-> 8, h |-> 8, bpp |-> 2],
                 [w |-> 4, h |-> 4, bpp |-> 1]}

\* A frame of n bytes that differ from one to the next.
Ramp(n) == [k \in 0 .. n - 1 |-> (100 + 37 * k) % 256]

FrameBytes(w, h) == {2 * w * h} \cup {f.w * f.h * f.bpp : f \in DriverFrames}

NoEncoder == dest_w = 1 /\ dest_h = 1 /\ bufferStride = 1
TightRows == stride = AlignUp(bufWidth)

\* Where there is no window of a kind its sizes make no difference, and
\* whatever the driver grants, an encoder window gets it through mRGBA8888:
\* the sizes of encoder windows are tried on frames of the right size.
ManySizes ==
  /\ windows \in SUBSET Kinds \ {{}}
  /\ mWidth \in Widths /\ mHeight \in Heights
  /\ granted \in Frames \cup {[w |-> mWidth, h |-> mHeight, bpp |-> 2]}
  /\ yvyu = Ramp(SourceSize)
  /\ IF "encoder" \in windows /\ Asked THEN TRUE ELSE NoEncoder
  /\ IF "encoder" \notin windows THEN TRUE ELSE TightRows
  /\ FrameInit

\* One macropixel with every pair of chroma bytes.
ManyColours ==
  /\ windows = {"encoder"}
  /\ mWidth = 2 /\ mHeight = 1
  /\ dest_w = 2 /\ dest_h = 1 /\ bufferStride = 2
  /\ granted = [w |-> 2, h |-> 1, bpp |-> 2]
  /\ TightRows
  /\ \E cb, cr \in Byte :
       yvyu = [k \in 0 .. 3 |-> CASE k = 0 -> 90 [] k = 1 -> cb [] k = 2 -> 200 [] k = 3 -> cr]
  /\ FrameInit

MCSpec == (ManySizes \/ ManyColours) /\ [][FrameNext]_frameVars

=============================================================================
