--------------------------- MODULE ColorConversion ---------------------------
(***************************************************************************)
(* The colours of the picture the encoders get: drawEncoderSurface lets    *)
(* Camera::Yvyu2RGBA turn the packed frame of the camera into RGBA pixels  *)
(* in mRGBA8888, with shifts in the place of multiplications.              *)
(*                                                                         *)
(* The library is built for armeabi only (app/build.gradle), where char is *)
(* unsigned: a byte of the frame is a number from 0 to 255.  >> of a       *)
(* negative int rounds down there, as \div does.                           *)
(***************************************************************************)
EXTENDS FrameSizes

CONSTANT Delivered(_, _)   \* how many bytes a driver may deliver when asked for a size

ASSUME DeliveredAssumption == \A w \in Widths, h \in Heights : Delivered(w, h) \subseteq Nat

VARIABLES
  yvyu,         \* the bytes of the frame, from offset 0
  column, line,
  ptr,          \* the next byte to read
  pixPtr,       \* the next pixel to write
  rgbData,      \* the pixels <<R, G, B, A>>; Unwritten at first
  colorFault

colorVars == <<mWidth, mHeight, yvyu, column, line, ptr, pixPtr, rgbData, colorFault>>

Byte == 0 .. 255
Unwritten == <<>>

ColorTypeOK ==
  /\ column \in 0 .. mWidth \div 2
  /\ line \in 0 .. mHeight
  /\ ptr \in Nat
  /\ pixPtr \in 0 .. mWidth * mHeight
  /\ rgbData \in [0 .. mWidth * mHeight - 1 -> {Unwritten} \cup Byte \X Byte \X Byte \X {255}]
  /\ colorFault \in {"none", "source_overread"}

\* A frame of any bytes has been delivered, and mRGBA8888 allocated.
ColorInit ==
  /\ mWidth \in Widths /\ mHeight \in Heights
  /\ \E n \in Delivered(mWidth, mHeight) : yvyu \in [0 .. n - 1 -> Byte]
  /\ column = 0 /\ line = 0
  /\ ptr = 0
  /\ pixPtr = 0
  /\ rgbData = [k \in 0 .. mWidth * mHeight - 1 |-> Unwritten]
  /\ colorFault = "none"

-----------------------------------------------------------------------------
(***************************************************************************)
(* Slips one could make in this code.  No action uses them.                *)
(***************************************************************************)

\* One shift is missing from the factor of red.
RedDiffShort(cr) == cr + cr \div 4 + cr \div 8

\* Cb and Cr are taken for one another.
GreenDiffSwapped(cb, cr) == 0 - cr \div 4 + cr \div 16 + cr \div 32
                            - cb \div 2 + cb \div 8 + cb \div 16 + cb \div 32

\* The second pixel shows the luma of the first.
SecondLumaAgain == yvyu[ptr]

\* One column too many.
PixelsLeftInclusive == column <= mWidth \div 2

-----------------------------------------------------------------------------
\* "if (Cb < 0) Cb += 127; else Cb -= 128".
Centred(c) == IF c < 0 THEN c + 127 ELSE c - 128

RedDiff(cr) == cr + cr \div 4 + cr \div 8 + cr \div 32
GreenDiff(cb, cr) == 0 - cb \div 4 + cb \div 16 + cb \div 32
                     - cr \div 2 + cr \div 8 + cr \div 16 + cr \div 32
BlueDiff(cb) == cb + cb \div 2 + cb \div 4 + cb \div 64

Clamp(x) == IF x < 0 THEN 0 ELSE IF x > 255 THEN 255 ELSE x

\* 0xff000000 + (B << 16) + (G << 8) + R, as bytes of a little-endian memory.
Pixel(y, cb, cr) ==
  <<Clamp(y + RedDiff(cr)), Clamp(y + GreenDiff(cb, cr)), Clamp(y + BlueDiff(cb)), 255>>

SecondLuma == yvyu[ptr + 2]

LinesLeft == line < mHeight
PixelsLeft == column < mWidth \div 2

\* One turn of the inner loop: four bytes give two pixels of one colour.
Convert ==
  /\ LinesLeft /\ PixelsLeft
  /\ IF ptr + 3 \notin DOMAIN yvyu
     THEN colorFault' = "source_overread" /\ UNCHANGED rgbData
     ELSE LET Cb == Centred(yvyu[ptr + 1])
              Cr == Centred(yvyu[ptr + 3])
          IN  /\ rgbData' = [rgbData EXCEPT ![pixPtr] = Pixel(yvyu[ptr], Cb, Cr),
                                            ![pixPtr + 1] = Pixel(SecondLuma, Cb, Cr)]
              /\ UNCHANGED colorFault
  /\ ptr' = ptr + 4
  /\ pixPtr' = pixPtr + 2
  /\ column' = column + 1
  /\ UNCHANGED <<mWidth, mHeight, yvyu, line>>

NextLine ==
  /\ LinesLeft /\ ~PixelsLeft
  /\ column' = 0
  /\ line' = line + 1
  /\ UNCHANGED <<mWidth, mHeight, yvyu, ptr, pixPtr, rgbData, colorFault>>

Finished == ~LinesLeft \/ colorFault # "none"

ColorNext ==
  \/ ~Finished /\ (Convert \/ NextLine)
  \/ Finished /\ UNCHANGED colorVars

ColorSpec == ColorInit /\ [][ColorNext]_colorVars

-----------------------------------------------------------------------------
(***************************************************************************)
(* The loop reads past the frame only if the driver delivers fewer bytes   *)
(* than were asked for: openCamera does not compare (VIDIOC_S_FMT).        *)
(***************************************************************************)
OverreadNeedsSmallFrame ==
  colorFault # "none" => \E k \in 0 .. 2 * mWidth * mHeight - 1 : k \notin DOMAIN yvyu

\* The bytes of the YUYV pixel (x, y), where Yvyu2Yuv420 looks for them.
Luma(x, y) == yvyu[(y * mWidth + x) * 2]
Cb(x, y) == yvyu[((y * mWidth) \div 2 + x \div 2) * 4 + 1]
Cr(x, y) == yvyu[((y * mWidth) \div 2 + x \div 2) * 4 + 3]

(***************************************************************************)
(* Encoders and preview see the same picture: ptr runs on from row to row  *)
(* and never computes an address, as Yvyu2Yuv420 does, and still every     *)
(* pixel is made of its own luma and of its own chroma, if the width is    *)
(* even.  With an odd width rows shift and the last pixels stay unwritten. *)
(***************************************************************************)
PixelsInPlace ==
  ~LinesLeft /\ colorFault = "none" /\ mWidth % 2 = 0 =>
    \A x \in 0 .. mWidth - 1, y \in 0 .. mHeight - 1 :
      rgbData[y * mWidth + x] = Pixel(Luma(x, y), Centred(Cb(x, y)), Centred(Cr(x, y)))

\* Pixels whose conversion is done, with the four bytes they come from.
Shown == {k \in 0 .. pixPtr - 1 : colorFault = "none"}
LumaOf(k) == yvyu[2 * k]
CbOf(k) == yvyu[4 * (k \div 2) + 1] - 128
CrOf(k) == yvyu[4 * (k \div 2) + 3] - 128

\* Is r within e of y + factor * c / 1000, cut to a byte?
Near(r, y, factor, c, e) ==
  LET exact == 1000 * y + factor * c
      cut == IF exact < 0 THEN 0 ELSE IF exact > 255000 THEN 255000 ELSE exact
  IN  1000 * r - cut \in -1000 * e .. 1000 * e

\* What the shifts lose; a picture without colour stays without.
Loss(c, steps) == IF c = 0 THEN 0 ELSE steps

(***************************************************************************)
(* The comments beside the sums say "1.406*~1.403" of red and              *)
(* "1.765~1.770" of blue: whatever the shifts lose, red and blue are at    *)
(* most three steps off these factors, for every byte, and not at all in a *)
(* picture without colour (Yvyu2RGBA).                                     *)
(***************************************************************************)
RedAndBlueAccurate ==
  \A k \in Shown :
    /\ Near(rgbData[k][1], LumaOf(k), 1403, CrOf(k), Loss(CrOf(k), 3))
    /\ Near(rgbData[k][3], LumaOf(k), 1770, CbOf(k), Loss(CbOf(k), 3))

Abs(x) == IF x < 0 THEN -x ELSE x

(***************************************************************************)
(* How far green is off.  Green is Y - 0.344 Cb - 0.714 Cr, and the code   *)
(* adds some terms it should subtract (diff_g), so that the factors are    *)
(* 0.156 and 0.281 instead: the error stays below 3/16 of Cb and 7/16 of   *)
(* Cr, and five steps for the shifts where there is colour at all.         *)
(***************************************************************************)
GreenError(k) ==
  LET exact == 1000 * LumaOf(k) - 344 * CbOf(k) - 714 * CrOf(k)
      cut == IF exact < 0 THEN 0 ELSE IF exact > 255000 THEN 255000 ELSE exact
  IN  Abs(1000 * rgbData[k][2] - cut)

GreenOffByColour ==
  \A k \in Shown :
    16 * GreenError(k) <=
      1000 * (3 * Abs(CbOf(k)) + 7 * Abs(CrOf(k)) + 16 * Loss(Abs(CbOf(k)) + Abs(CrOf(k)), 5))

=============================================================================
