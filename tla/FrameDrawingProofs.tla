------------------------- MODULE FrameDrawingProofs --------------------------
(***************************************************************************)
(* Proofs about the two halves of the encoders' picture, CenterCopy and    *)
(* ColorConversion, and about the frame as a whole, FrameDrawing: for      *)
(* cameras and windows of any size, whatever the bytes of the frame are.   *)
(***************************************************************************)
EXTENDS FrameDrawing, PreviewFrameProofs

-----------------------------------------------------------------------------
(***************************************************************************)
(* CenterCopy.  RowsInPlace says what the rows copied so far show, and     *)
(* RowOffsets where the two offsets stand.                                 *)
(***************************************************************************)
Begun == cutPc = "rows" /\ cutFault = "none"

RowOffsets ==
  /\ cutPc = "compare" => cutRow = 0 /\ copyed = 0 /\ cutFault = "none"
  /\ Begun => /\ ~TooSmall
              /\ copyed = cutRow * dest_w
              /\ EvenMargin => src_off = (vertical_margin + cutRow) * mWidth + horizontal_margin

RowsShown(n) ==
  \A x \in 0 .. dest_w - 1, y \in 0 .. n - 1 : bits[y * dest_w + x] = CentrePixel(x, y)

RowsInPlace == Begun /\ EvenMargin /\ bufferStride = dest_w => RowsShown(cutRow)

CutInv == CutTypeOK /\ RowOffsets /\ RowsInPlace /\ OverreadNeedsOddMargin /\ ShowsCentre


\* What the sizes alone imply.
LEMMA CutSizeFacts ==
  ASSUME CutTypeOK
  PROVE  /\ SrcSize \in Nat /\ DestSize \in Nat
         /\ dest_w * dest_h <= DestSize
         /\ mWidth >= dest_w => horizontal_margin \in Nat
         /\ mWidth >= dest_w /\ EvenMargin => dest_w + 2 * horizontal_margin = mWidth
         /\ mHeight >= dest_h => vertical_margin \in Nat /\ vertical_margin + dest_h <= mHeight
<1> USE DEF CutTypeOK
<1>1. SrcSize \in Nat /\ DestSize \in Nat
  BY ProductIsNatural DEF SrcSize, DestSize
<1>2. dest_w * dest_h <= DestSize
  BY ProductGrows DEF DestSize
<1>3. mWidth >= dest_w => horizontal_margin \in Nat
  BY DEF horizontal_margin
<1>4. mWidth >= dest_w /\ EvenMargin => dest_w + 2 * horizontal_margin = mWidth
  <2>1. mWidth >= dest_w => mWidth - dest_w \in Nat
    OBVIOUS
  <2>2. mWidth >= dest_w /\ EvenMargin => 2 * ((mWidth - dest_w + 1) \div 2) = mWidth - dest_w
    BY <2>1, EvenHalves DEF EvenMargin
  <2>3. mWidth >= dest_w => (mWidth - dest_w + 1) \div 2 \in Nat
    OBVIOUS
  <2> QED
    BY <2>2, <2>3 DEF horizontal_margin
<1>5. mHeight >= dest_h => vertical_margin \in Nat /\ vertical_margin + dest_h <= mHeight
  BY DEF vertical_margin
<1> QED
  BY <1>1, <1>2, <1>3, <1>4, <1>5

\* A memcpy keeps the type of the window and writes what it says.
LEMMA CopyEffect ==
  ASSUME CutTypeOK, cutFault = "none", NEW to \in Nat, NEW from \in Nat, NEW n \in Nat,
         Copy(to, from, n), UNCHANGED cutSizes
  PROVE  /\ bits' \in [0 .. DestSize - 1 -> {Old} \cup 0 .. SrcSize - 1]
         /\ cutFault' = "none" \/ cutFault' = "over_write" \/ cutFault' = "over_read"
         /\ to + n <= DestSize => cutFault' # "over_write"
         /\ from + n <= SrcSize => cutFault' # "over_read"
         /\ cutFault' = "none" =>
              \A k \in 0 .. DestSize - 1 :
                bits'[k] = IF k \in to .. to + n - 1 THEN from + (k - to) ELSE bits[k]
<1>1. SrcSize \in Nat /\ DestSize \in Nat
  BY CutSizeFacts
<1>2. DOMAIN bits = 0 .. DestSize - 1
  BY DEF CutTypeOK
<1>3. CASE cutFault' # "none"
  BY <1>1, <1>3 DEF Copy, CutTypeOK
<1>4. CASE cutFault' = "none"
  <2>1. /\ to + n <= DestSize /\ from + n <= SrcSize
        /\ bits' = [k \in DOMAIN bits |->
                      IF k \in to .. to + n - 1 THEN from + (k - to) ELSE bits[k]]
    BY <1>1, <1>4 DEF Copy
  <2>2. \A k \in 0 .. DestSize - 1 :
          k \in to .. to + n - 1 => from + (k - to) \in 0 .. SrcSize - 1
    BY <1>1, <2>1
  <2> QED
    BY <1>1, <1>2, <1>4, <2>1, <2>2 DEF CutTypeOK
<1> QED
  BY <1>3, <1>4

LEMMA CutInvInit == CutInit => CutInv
<1> SUFFICES ASSUME CutInit PROVE CutInv
  OBVIOUS
<1>1. /\ {mWidth, mHeight, dest_w, dest_h} \subseteq Nat \ {0}
      /\ bufferStride \in Nat /\ bufferStride >= dest_w
  BY SizesAssumption, WindowsAssumption DEF CutInit
<1>2. CutTypeOK
  BY <1>1 DEF CutInit, CutTypeOK
<1> QED
  BY <1>2 DEF CutInit, CutInv, RowOffsets, RowsInPlace, OverreadNeedsOddMargin, ShowsCentre, Begun

\* What every step leaves alone.
SameCutSizes == UNCHANGED <<cutSizes, SrcSize, DestSize, horizontal_margin, vertical_margin,
                         TooSmall, EvenMargin>>

LEMMA CutSizesStay == UNCHANGED cutSizes => SameCutSizes
  BY DEF SameCutSizes, cutSizes, SrcSize, DestSize, horizontal_margin, vertical_margin, TooSmall,
         EvenMargin

LEMMA CopyWholeInv == ASSUME CutInv, cutFault = "none", CopyWhole PROVE CutInv'
<1> USE DEF CutInv
<1>1. SameCutSizes /\ cutPc = "compare" /\ SameSize /\ cutPc' = "done"
  BY CutSizesStay DEF CopyWhole
<1>2. SrcSize \in Nat /\ DestSize \in Nat /\ SrcSize <= DestSize
  BY <1>1, CutSizeFacts DEF SameSize, SrcSize
<1>3. /\ bits' \in [0 .. DestSize - 1 -> {Old} \cup 0 .. SrcSize - 1]
      /\ cutFault' = "none"
      /\ \A k \in 0 .. DestSize - 1 :
           bits'[k] = IF k \in 0 .. 0 + SrcSize - 1 THEN 0 + (k - 0) ELSE bits[k]
  <2>1. Copy(0, 0, SrcSize) /\ UNCHANGED cutSizes
    BY DEF CopyWhole
  <2>2. 0 + SrcSize <= DestSize /\ 0 + SrcSize <= SrcSize /\ 0 \in Nat
    BY <1>2
  <2> QED
    BY <1>2, <2>1, <2>2, CopyEffect
<1>4. CutTypeOK'
  BY <1>1, <1>3 DEF CutTypeOK, CopyWhole, SameCutSizes, cutSizes
<1>5. bufferStride = dest_w => \A x \in 0 .. dest_w - 1, y \in 0 .. dest_h - 1 :
                           bits'[y * bufferStride + x] = CentrePixel(x, y)
  <2> SUFFICES ASSUME bufferStride = dest_w, NEW x \in 0 .. dest_w - 1, NEW y \in 0 .. dest_h - 1
               PROVE  bits'[y * bufferStride + x] = CentrePixel(x, y)
    OBVIOUS
  <2>1. y * dest_w \in Nat /\ (y + 1) * dest_w = y * dest_w + dest_w
    BY ProductIsNatural, NextMultiple DEF CutTypeOK
  <2>2. (y + 1) * dest_w <= dest_h * dest_w /\ dest_h * dest_w = SrcSize
    BY <1>1, ProductGrows DEF CutTypeOK, SameSize, SrcSize
  <2>3. y * dest_w + x \in 0 .. SrcSize - 1
    BY <1>2, <2>1, <2>2 DEF CutTypeOK
  <2>4. bits'[y * dest_w + x] = y * dest_w + x
    BY <1>2, <1>3, <2>3
  <2>5. horizontal_margin = 0 /\ vertical_margin = 0
    BY <1>1 DEF SameSize, horizontal_margin, vertical_margin, CutTypeOK
  <2>6. (0 + y) * dest_w + 0 + x = y * dest_w + x
    BY <2>1
  <2> QED
    BY <1>1, <2>4, <2>5, <2>6 DEF CentrePixel, SameSize
<1>6. ShowsCentre'
  BY <1>1, <1>5 DEF ShowsCentre, SameCutSizes, cutSizes, CentrePixel
<1> QED
  BY <1>1, <1>3, <1>4, <1>6 DEF RowOffsets, RowsInPlace, Begun, OverreadNeedsOddMargin

LEMMA BeginRowsInv == ASSUME CutInv, cutFault = "none", BeginRows PROVE CutInv'
<1> USE DEF CutInv
<1>1. /\ SameCutSizes /\ ~TooSmall /\ cutPc = "compare" /\ cutPc' = "rows"
      /\ UNCHANGED <<bits, cutFault>>
  BY CutSizesStay DEF BeginRows
<1>2. cutRow = 0 /\ cutRow' = 0 /\ copyed = 0 /\ copyed' = 0
  BY <1>1 DEF RowOffsets, BeginRows
<1>3. vertical_margin \in Nat /\ horizontal_margin \in Nat
  BY <1>1, CutSizeFacts DEF TooSmall, CutTypeOK
<1>4. vertical_margin * mWidth \in Nat
  BY <1>3, ProductIsNatural DEF CutTypeOK
<1>5. CutTypeOK'
  BY <1>1, <1>2, <1>3, <1>4 DEF CutTypeOK, BeginRows, SameCutSizes, cutSizes
<1>6. RowOffsets'
  <2>1. src_off' = (vertical_margin + 0) * mWidth + horizontal_margin /\ 0 * dest_w = 0
    BY <1>3 DEF BeginRows, CutTypeOK
  <2> QED
    BY <1>1, <1>2, <2>1 DEF RowOffsets, Begun, SameCutSizes, cutSizes
<1> QED
  BY <1>1, <1>2, <1>5, <1>6
     DEF RowsInPlace, RowsShown, Begun, OverreadNeedsOddMargin, ShowsCentre, SameCutSizes, cutSizes

LEMMA CopyRowInv == ASSUME CutInv, cutFault = "none", CopyRow PROVE CutInv'
<1> USE DEF CutInv
<1>1. /\ SameCutSizes /\ cutPc = "rows" /\ cutPc' = "rows" /\ Begun /\ ~TooSmall
      /\ cutRow \in 0 .. dest_h - 1 /\ cutRow' = cutRow + 1
      /\ copyed' = copyed + dest_w /\ src_off' = src_off + dest_w + 2 * horizontal_margin
  BY CutSizesStay DEF CopyRow, CutRowsLeft, NextCutRow, RowOffsets, Begun, CutTypeOK
<1>0. /\ mWidth \in Nat /\ mHeight \in Nat /\ dest_w \in Nat \ {0} /\ dest_h \in Nat
      /\ cutRow \in Nat /\ cutRow + 1 \in Nat /\ cutRow + 1 <= dest_h /\ src_off \in Nat
      /\ mWidth >= dest_w /\ mHeight >= dest_h
  BY <1>1 DEF CutTypeOK, TooSmall
<1>2. /\ SrcSize \in Nat /\ DestSize \in Nat
      /\ horizontal_margin \in Nat /\ vertical_margin \in Nat
      /\ vertical_margin + dest_h <= mHeight
      /\ EvenMargin => dest_w + 2 * horizontal_margin = mWidth
  BY <1>0, CutSizeFacts
<1>3. copyed = cutRow * dest_w /\ copyed' = (cutRow + 1) * dest_w
  BY <1>1, NextMultiple DEF RowOffsets, CutTypeOK
<1>4. copyed' <= DestSize
  <2>1. (cutRow + 1) * dest_w <= dest_h * dest_w /\ dest_h * dest_w = dest_w * dest_h
    BY <1>0, ProductGrows
  <2> QED
    BY <1>0, <1>2, <1>3, <2>1, CutSizeFacts
<1>5. ASSUME EvenMargin
      PROVE  /\ src_off + dest_w <= SrcSize
             /\ src_off' = (vertical_margin + (cutRow + 1)) * mWidth + horizontal_margin
  <2> DEFINE r == vertical_margin + cutRow
  <2>1. r \in Nat /\ r + 1 <= mHeight
    BY <1>1, <1>2 DEF CutTypeOK
  <2>2. src_off = r * mWidth + horizontal_margin
    BY <1>1, <1>5 DEF RowOffsets
  <2>3. (r + 1) * mWidth = r * mWidth + mWidth /\ r * mWidth \in Nat
    BY <2>1, NextMultiple, ProductIsNatural DEF CutTypeOK
  <2>4. (r + 1) * mWidth <= mHeight * mWidth /\ mHeight * mWidth = SrcSize
    BY <2>1, ProductGrows DEF CutTypeOK, SrcSize
  <2>5. horizontal_margin + dest_w <= mWidth
    BY <1>2, <1>5 DEF CutTypeOK
  <2>6. src_off + dest_w <= SrcSize
    BY <1>0, <1>2, <2>2, <2>3, <2>4, <2>5
  <2>7. src_off' = (r + 1) * mWidth + horizontal_margin
    BY <1>0, <1>1, <1>2, <1>5, <2>2, <2>3
  <2>8. r + 1 = vertical_margin + (cutRow + 1)
    BY <1>1, <1>2
  <2> QED
    BY <2>6, <2>7, <2>8
<1>6. /\ bits' \in [0 .. DestSize - 1 -> {Old} \cup 0 .. SrcSize - 1]
      /\ cutFault' = "none" \/ cutFault' = "over_read"
      /\ EvenMargin => cutFault' = "none"
      /\ cutFault' = "none" =>
           \A k \in 0 .. DestSize - 1 :
             bits'[k] = IF k \in copyed .. copyed + dest_w - 1
                        THEN src_off + (k - copyed) ELSE bits[k]
  <2>1. Copy(copyed, src_off, dest_w) /\ UNCHANGED cutSizes
    BY DEF CopyRow
  <2>2. copyed \in Nat /\ src_off \in Nat /\ dest_w \in Nat
    BY DEF CutTypeOK
  <2> QED
    BY <1>1, <1>4, <1>5, <2>1, <2>2, CopyEffect
<1>7. CutTypeOK'
  <2>1. copyed' \in Nat /\ src_off' \in Nat /\ cutRow' \in 0 .. dest_h
    BY <1>1, <1>2 DEF CutTypeOK
  <2> QED
    BY <1>1, <1>6, <2>1 DEF CutTypeOK, SameCutSizes, cutSizes
<1>8. RowOffsets'
  BY <1>1, <1>3, <1>5 DEF RowOffsets, Begun, SameCutSizes, cutSizes
<1>9. ASSUME EvenMargin, bufferStride = dest_w, cutFault' = "none",
             NEW x \in 0 .. dest_w - 1, NEW y \in 0 .. cutRow
      PROVE  bits'[y * dest_w + x] = CentrePixel(x, y)
  <2>1. y * dest_w \in Nat /\ (y + 1) * dest_w = y * dest_w + dest_w
    BY <1>1, ProductIsNatural, NextMultiple DEF CutTypeOK
  <2>0. y \in Nat /\ y + 1 \in Nat /\ y + 1 <= cutRow + 1
    BY <1>0
  <2>2. (y + 1) * dest_w <= (cutRow + 1) * dest_w
    BY <1>0, <2>0, ProductGrows
  <2>3. y * dest_w + x \in 0 .. DestSize - 1
    BY <1>0, <1>1, <1>2, <1>3, <1>4, <2>1, <2>2
  <2>4. CASE y = cutRow
    <3>1. bits'[y * dest_w + x] = src_off + x
      BY <1>3, <1>6, <1>9, <2>1, <2>3, <2>4 DEF CutTypeOK
    <3>2. src_off = (vertical_margin + cutRow) * mWidth + horizontal_margin
      BY <1>1, <1>9 DEF RowOffsets
    <3> QED
      BY <2>4, <3>1, <3>2 DEF CentrePixel
  <2>5. CASE y # cutRow
    <3>1. y \in 0 .. cutRow - 1 /\ y + 1 <= cutRow
      BY <1>1, <2>5
    <3>2. (y + 1) * dest_w <= cutRow * dest_w
      BY <1>0, <2>0, <3>1, ProductGrows
    <3>3. y * dest_w + x < copyed
      BY <1>0, <1>3, <2>1, <3>2
    <3>4. bits'[y * dest_w + x] = bits[y * dest_w + x]
      BY <1>6, <1>9, <2>3, <3>3 DEF CutTypeOK
    <3> QED
      BY <1>1, <1>9, <3>1, <3>4 DEF RowsInPlace, RowsShown
  <2> QED
    BY <2>4, <2>5
<1>10. RowsInPlace'
  <2>1. cutRow' - 1 = cutRow
    BY <1>1
  <2> QED
    BY <1>1, <1>9, <2>1 DEF RowsInPlace, RowsShown, Begun, SameCutSizes, cutSizes, CentrePixel
<1> QED
  BY <1>1, <1>6, <1>7, <1>8, <1>10 DEF OverreadNeedsOddMargin, ShowsCentre, SameCutSizes

LEMMA EndRowsInv == ASSUME CutInv, cutFault = "none", EndRows PROVE CutInv'
<1> USE DEF CutInv
<1>1. /\ SameCutSizes /\ cutPc = "rows" /\ cutPc' = "done" /\ Begun /\ cutRow = dest_h
      /\ UNCHANGED <<cutRow, copyed, src_off, bits, cutFault>>
  BY CutSizesStay DEF EndRows, CutRowsLeft, Begun, CutTypeOK
<1>2. CutTypeOK'
  BY <1>1 DEF CutTypeOK, SameCutSizes, cutSizes
<1>3. ShowsCentre'
  BY <1>1 DEF ShowsCentre, RowsInPlace, RowsShown, SameCutSizes, cutSizes, CentrePixel
<1> QED
  BY <1>1, <1>2, <1>3 DEF RowOffsets, RowsInPlace, Begun, OverreadNeedsOddMargin, SameCutSizes

LEMMA RefuseInv == ASSUME CutInv, cutFault = "none", Refuse PROVE CutInv'
<1> USE DEF CutInv
<1>1. /\ SameCutSizes /\ TooSmall /\ cutPc' = "done"
      /\ UNCHANGED <<cutRow, copyed, src_off, bits, cutFault>>
  BY CutSizesStay DEF Refuse
<1>2. CutTypeOK'
  BY <1>1 DEF CutTypeOK, SameCutSizes, cutSizes
<1> QED
  BY <1>1, <1>2
     DEF RowOffsets, RowsInPlace, Begun, OverreadNeedsOddMargin, ShowsCentre, SameCutSizes

LEMMA CutInvNext == CutInv /\ [CutNext]_cutVars => CutInv'
<1> SUFFICES ASSUME CutInv, [CutNext]_cutVars PROVE CutInv'
  OBVIOUS
<1>1. CASE UNCHANGED cutVars
  <2>1. SameCutSizes /\ UNCHANGED <<cutSizes, cutPc, cutRow, copyed, src_off, bits, cutFault>>
    BY <1>1, CutSizesStay DEF cutVars
  <2> QED
    BY <2>1
       DEF CutInv, CutTypeOK, RowOffsets, RowsInPlace, RowsShown, Begun, OverreadNeedsOddMargin,
           ShowsCentre, CentrePixel, SameCutSizes, cutSizes
<1>2. CASE ~UNCHANGED cutVars
  BY <1>2, CopyWholeInv, BeginRowsInv, CopyRowInv, EndRowsInv, RefuseInv DEF CutNext
<1> QED
  BY <1>1, <1>2

-----------------------------------------------------------------------------
(***************************************************************************)
(* The inductive invariant of the row loop (copyFrameCenterGravity).       *)
(***************************************************************************)
THEOREM CutInvCorrect == CutSpec => []CutInv
  BY CutInvInit, CutInvNext, PTL DEF CutSpec

\* The cut of an encoder's picture keeps to the types of its variables.
THEOREM CopyTypeCorrect == CutSpec => []CutTypeOK
<1>1. CutInv => CutTypeOK
  BY DEF CutInv
<1> QED
  BY CutInvCorrect, <1>1, PTL

(***************************************************************************)
(* For every size: no write outside the window, and no read past the frame *)
(* unless the widths differ by an odd number.                              *)
(***************************************************************************)
THEOREM OverreadCorrect == CutSpec => []OverreadNeedsOddMargin
<1>1. CutInv => OverreadNeedsOddMargin
  BY DEF CutInv
<1> QED
  BY CutInvCorrect, <1>1, PTL

(***************************************************************************)
(* For every size with an even difference of the widths: the window shows  *)
(* the middle of the frame (copyFrameCenterGravity).                       *)
(***************************************************************************)
THEOREM CentreCorrect == CutSpec => []ShowsCentre
<1>1. CutInv => ShowsCentre
  BY DEF CutInv
<1> QED
  BY CutInvCorrect, <1>1, PTL

-----------------------------------------------------------------------------
(***************************************************************************)
(* ColorConversion.  ptr and pixPtr run on from row to row: they are the   *)
(* offsets of the next pixel in a frame of rows of 2 * HalfWidth pixels,   *)
(* and every pixel in front of pixPtr is made of the bytes at its place.   *)
(***************************************************************************)
PixelOf(k) == Pixel(LumaOf(k), CbOf(k), CrOf(k))

ShownRight(k) == 4 * (k \div 2) + 3 \in DOMAIN yvyu /\ rgbData[k] = PixelOf(k)

ColorPointers ==
  /\ ptr = 2 * pixPtr
  /\ pixPtr = line * (2 * HalfWidth) + 2 * column

ColorInv ==
  /\ mWidth \in Nat \ {0} /\ mHeight \in Nat \ {0}
  /\ \E n \in Nat : yvyu \in [0 .. n - 1 -> Byte]
  /\ ColorTypeOK
  /\ ColorPointers
  /\ OverreadNeedsSmallFrame
  /\ \A k \in Shown : ShownRight(k)

LEMMA ColorSizeFacts ==
  ASSUME mWidth \in Nat \ {0}, mHeight \in Nat \ {0}
  PROVE  /\ HalfWidth \in Nat /\ 2 * HalfWidth <= mWidth
         /\ Area \in Nat /\ 2 * mWidth * mHeight = 2 * Area
<1>1. HalfWidth \in Nat /\ 2 * HalfWidth <= mWidth
  BY DEF HalfWidth
<1>2. Area \in Nat
  BY ProductIsNatural DEF Area
<1>3. 2 * mWidth * mHeight = 2 * Area
  BY DEF Area
<1> QED
  BY <1>1, <1>2, <1>3

\* Where a turn of the loop is in the frame: its two pixels are inside.
LEMMA PixelPlace ==
  ASSUME mWidth \in Nat \ {0}, mHeight \in Nat \ {0},
         NEW l \in Nat, NEW c \in Nat, l + 1 <= mHeight, c + 1 <= HalfWidth
  PROVE  /\ l * HalfWidth + c \in Nat
         /\ l * (2 * HalfWidth) + 2 * c = 2 * (l * HalfWidth + c)
         /\ l * (2 * HalfWidth) + 2 * c + 2 <= Area
<1>1. HalfWidth \in Nat /\ 2 * HalfWidth <= mWidth /\ Area \in Nat
  BY ColorSizeFacts
<1>2. l * HalfWidth \in Nat /\ l * (2 * HalfWidth) = 2 * (l * HalfWidth)
  BY <1>1, ProductIsNatural
<1>3. (l + 1) * (2 * HalfWidth) = l * (2 * HalfWidth) + 2 * HalfWidth
  BY <1>1, NextMultiple
<1>4. (l + 1) * (2 * HalfWidth) <= Area
  <2>1. (l + 1) * (2 * HalfWidth) <= mHeight * (2 * HalfWidth)
    BY <1>1, ProductGrows
  <2>2. (2 * HalfWidth) * mHeight <= mWidth * mHeight
    BY <1>1, ProductGrows
  <2>3. /\ mHeight * (2 * HalfWidth) = (2 * HalfWidth) * mHeight
        /\ (2 * HalfWidth) * mHeight \in Nat /\ (l + 1) * (2 * HalfWidth) \in Nat
    BY <1>1, ProductIsNatural
  <2> QED
    BY <1>1, <2>1, <2>2, <2>3 DEF Area
<1> QED
  BY <1>1, <1>2, <1>3, <1>4

\* A byte less 128 is what Centred makes of it: the code's other branch is dead.
LEMMA CentredByte == \A b \in Byte : Centred(b) = b - 128
  BY DEF Centred, Byte

LEMMA ClampIsByte == \A x \in Int : Clamp(x) \in Byte
  BY DEF Clamp, Byte

Colours == Byte \X Byte \X Byte \X {255}

LEMMA PixelType == \A y, cb, cr \in Int : Pixel(y, cb, cr) \in Colours
<1> SUFFICES ASSUME NEW y \in Int, NEW cb \in Int, NEW cr \in Int
             PROVE  Pixel(y, cb, cr) \in Colours
  OBVIOUS
<1>1. y + RedDiff(cr) \in Int /\ y + GreenDiff(cb, cr) \in Int /\ y + BlueDiff(cb) \in Int
  BY DEF RedDiff, GreenDiff, BlueDiff
<1> QED
  BY <1>1, ClampIsByte DEF Pixel, Colours

LEMMA ColorInvInit == ColorInit => ColorInv
<1> SUFFICES ASSUME ColorInit PROVE ColorInv
  OBVIOUS
<1>1. mWidth \in Nat \ {0} /\ mHeight \in Nat \ {0}
  BY SizesAssumption DEF ColorInit
<1>2. \E n \in Nat : yvyu \in [0 .. n - 1 -> Byte]
  BY DeliveredAssumption DEF ColorInit
<1>3. HalfWidth \in Nat /\ Area \in Nat
  BY <1>1, ColorSizeFacts
<1>4. ColorTypeOK
  BY <1>1, <1>3 DEF ColorInit, ColorTypeOK, HalfWidth, Area
<1>5. ColorPointers
  BY <1>3 DEF ColorInit, ColorPointers
<1>6. Shown = {}
  BY DEF ColorInit, Shown
<1> QED
  BY <1>1, <1>2, <1>4, <1>5, <1>6 DEF ColorInit, ColorInv, OverreadNeedsSmallFrame

LEMMA ConvertInv == ASSUME ColorInv, colorFault = "none", Convert PROVE ColorInv'
<1> DEFINE q == line * HalfWidth + column
<1>1. PICK n \in Nat : yvyu \in [0 .. n - 1 -> Byte]
  BY DEF ColorInv
<1>2. /\ line \in Nat /\ column \in Nat /\ line + 1 <= mHeight /\ column + 1 <= HalfWidth
      /\ mWidth \in Nat \ {0} /\ mHeight \in Nat \ {0}
      /\ UNCHANGED <<mWidth, mHeight, yvyu, line, HalfWidth, Area>>
      /\ ptr' = ptr + 4 /\ pixPtr' = pixPtr + 2 /\ column' = column + 1
  BY DEF ColorInv, ColorTypeOK, Convert, LinesLeft, PixelsLeft, HalfWidth, Area
<1>3. HalfWidth \in Nat /\ Area \in Nat /\ 2 * mWidth * mHeight = 2 * Area
  BY <1>2, ColorSizeFacts
<1>4. /\ q \in Nat /\ pixPtr = 2 * q /\ ptr = 4 * q /\ pixPtr + 2 <= Area
      /\ line * (2 * HalfWidth) \in Nat
  <2>1. line * (2 * HalfWidth) \in Nat
    BY <1>2, <1>3, ProductIsNatural
  <2>2. ptr = 2 * pixPtr /\ pixPtr = line * (2 * HalfWidth) + 2 * column
    BY DEF ColorInv, ColorPointers
  <2>3. /\ q \in Nat /\ line * (2 * HalfWidth) + 2 * column = 2 * q
        /\ line * (2 * HalfWidth) + 2 * column + 2 <= Area
    BY <1>2, PixelPlace
  <2> HIDE DEF q
  <2> QED
    BY <2>1, <2>2, <2>3
<1> HIDE DEF q
<1>5. ColorPointers'
  <2>1. pixPtr = line * (2 * HalfWidth) + 2 * column
    BY DEF ColorInv, ColorPointers
  <2>2. pixPtr' = line * (2 * HalfWidth) + 2 * (column + 1)
    BY <1>2, <1>4, <2>1
  <2> QED
    BY <1>2, <1>4, <2>2 DEF ColorPointers
<1>6. CASE ptr + 3 \notin DOMAIN yvyu
  <2>1. colorFault' = "source_overread" /\ rgbData' = rgbData
    BY <1>6 DEF Convert
  <2>2. ColorTypeOK'
    BY <1>2, <1>3, <1>4, <2>1 DEF ColorInv, ColorTypeOK, HalfWidth, Area
  <2>3. ptr + 3 \in 0 .. 2 * Area - 1
    BY <1>3, <1>4
  <2>4. OverreadNeedsSmallFrame'
    BY <1>2, <1>3, <1>6, <2>3 DEF OverreadNeedsSmallFrame
  <2>5. Shown' = {}
    BY <2>1 DEF Shown
  <2> QED
    BY <1>1, <1>2, <1>5, <2>2, <2>4, <2>5 DEF ColorInv
<1>7. CASE ptr + 3 \in DOMAIN yvyu
  <2> DEFINE p0 == Pixel(yvyu[ptr], Centred(yvyu[ptr + 1]), Centred(yvyu[ptr + 3]))
             p1 == Pixel(yvyu[ptr + 2], Centred(yvyu[ptr + 1]), Centred(yvyu[ptr + 3]))
  <2>1. /\ colorFault' = "none"
        /\ rgbData' = [rgbData EXCEPT ![pixPtr] = p0, ![pixPtr + 1] = p1]
    BY <1>7 DEF Convert, SecondLuma
  <2>2. /\ yvyu[ptr] \in Byte /\ yvyu[ptr + 1] \in Byte
        /\ yvyu[ptr + 2] \in Byte /\ yvyu[ptr + 3] \in Byte
    <3>1. {ptr, ptr + 1, ptr + 2, ptr + 3} \subseteq 0 .. n - 1
      BY <1>1, <1>4, <1>7
    <3> QED
      BY <1>1, <3>1
  <2>3. p0 = PixelOf(pixPtr) /\ p1 = PixelOf(pixPtr + 1)
    <3>1. /\ 2 * pixPtr = ptr /\ 4 * (pixPtr \div 2) = ptr
          /\ 2 * (pixPtr + 1) = ptr + 2 /\ 4 * ((pixPtr + 1) \div 2) = ptr
      BY <1>4
    <3> QED
      BY <2>2, <3>1, CentredByte DEF PixelOf, LumaOf, CbOf, CrOf
  <2>4. {p0, p1} \subseteq Colours
    <3>1. Centred(yvyu[ptr + 1]) \in Int /\ Centred(yvyu[ptr + 3]) \in Int
      BY <2>2, CentredByte DEF Byte
    <3>2. yvyu[ptr] \in Int /\ yvyu[ptr + 2] \in Int
      BY <2>2 DEF Byte
    <3>3. p0 \in Colours
      BY <3>1, <3>2, PixelType
    <3>4. p1 \in Colours
      BY <3>1, <3>2, PixelType
    <3> HIDE DEF p0, p1
    <3> QED
      BY <3>3, <3>4
  <2> HIDE DEF p0, p1
  <2>5. rgbData \in [0 .. Area - 1 -> {Unwritten} \cup Colours]
    BY DEF ColorInv, ColorTypeOK, Area, Colours
  <2>6. /\ rgbData' \in [0 .. Area - 1 -> {Unwritten} \cup Colours]
        /\ \A k \in 0 .. Area - 1 :
             rgbData'[k] = IF k = pixPtr + 1 THEN p1 ELSE IF k = pixPtr THEN p0 ELSE rgbData[k]
    BY <1>3, <1>4, <2>1, <2>4, <2>5
  <2>7. ColorTypeOK'
    <3>1. ptr' \in Nat /\ pixPtr' \in 0 .. Area /\ column' \in 0 .. HalfWidth
      BY <1>2, <1>3, <1>4
    <3> QED
      BY <1>2, <2>1, <2>6, <3>1 DEF ColorInv, ColorTypeOK, HalfWidth, Area, Colours
  <2>8. ASSUME NEW k \in Shown'
         PROVE  4 * (k \div 2) + 3 \in DOMAIN yvyu /\ rgbData'[k] = PixelOf(k)
    <3>1. k \in 0 .. Area - 1 /\ (k \in 0 .. pixPtr - 1 \/ k = pixPtr \/ k = pixPtr + 1)
      BY <1>2, <1>3, <1>4 DEF Shown
    <3>2. k \in 0 .. pixPtr - 1 => ShownRight(k) /\ k # pixPtr /\ k # pixPtr + 1
      BY <1>4 DEF ColorInv, Shown
    <3>3. /\ pixPtr # pixPtr + 1
          /\ 4 * (pixPtr \div 2) + 3 = ptr + 3 /\ 4 * ((pixPtr + 1) \div 2) + 3 = ptr + 3
      BY <1>4
    <3> QED
      BY <1>7, <2>3, <2>6, <3>1, <3>2, <3>3 DEF ShownRight
  <2>9. ASSUME NEW k PROVE PixelOf(k)' = PixelOf(k)
    BY <1>2 DEF PixelOf, Pixel, LumaOf, CbOf, CrOf, Clamp, RedDiff, GreenDiff, BlueDiff
  <2>10. OverreadNeedsSmallFrame'
    BY <2>1 DEF OverreadNeedsSmallFrame
  <2> QED
    BY <1>1, <1>2, <1>5, <2>7, <2>8, <2>9, <2>10 DEF ColorInv, ShownRight
<1> QED
  BY <1>6, <1>7

LEMMA NextLineInv == ASSUME ColorInv, NextLine PROVE ColorInv'
<1>1. /\ line \in Nat /\ line + 1 <= mHeight /\ column = HalfWidth
      /\ mWidth \in Nat \ {0} /\ mHeight \in Nat \ {0}
      /\ UNCHANGED <<mWidth, mHeight, yvyu, ptr, pixPtr, rgbData, colorFault, HalfWidth>>
      /\ line' = line + 1 /\ column' = 0
  BY DEF ColorInv, ColorTypeOK, NextLine, LinesLeft, PixelsLeft, HalfWidth
<1>2. HalfWidth \in Nat
  BY <1>1, ColorSizeFacts
<1>3. line * (2 * HalfWidth) + 2 * column = (line + 1) * (2 * HalfWidth) + 2 * 0
  BY <1>1, <1>2, NextMultiple
<1>4. ColorPointers'
  BY <1>1, <1>3 DEF ColorInv, ColorPointers
<1>5. ColorTypeOK'
  BY <1>1, <1>2 DEF ColorInv, ColorTypeOK, HalfWidth
<1>6. Shown' = Shown
  BY <1>1 DEF Shown
<1>7. ASSUME NEW k PROVE PixelOf(k)' = PixelOf(k)
  BY <1>1 DEF PixelOf, Pixel, LumaOf, CbOf, CrOf, Clamp, RedDiff, GreenDiff, BlueDiff
<1> QED
  BY <1>1, <1>4, <1>5, <1>6, <1>7 DEF ColorInv, ShownRight, OverreadNeedsSmallFrame

LEMMA ColorInvNext == ColorInv /\ [ColorNext]_colorVars => ColorInv'
<1> SUFFICES ASSUME ColorInv, [ColorNext]_colorVars PROVE ColorInv'
  OBVIOUS
<1>1. CASE UNCHANGED colorVars
  <2>1. /\ UNCHANGED <<mWidth, mHeight, yvyu, column, line, ptr, pixPtr, rgbData, colorFault>>
        /\ UNCHANGED <<HalfWidth, Shown>>
    BY <1>1 DEF colorVars, HalfWidth, Shown
  <2>2. ASSUME NEW k PROVE PixelOf(k)' = PixelOf(k)
    BY <2>1 DEF PixelOf, Pixel, LumaOf, CbOf, CrOf, Clamp, RedDiff, GreenDiff, BlueDiff
  <2> QED
    BY <2>1, <2>2 DEF ColorInv, ShownRight, ColorTypeOK, ColorPointers, OverreadNeedsSmallFrame
<1>2. CASE ~UNCHANGED colorVars
  BY <1>2, ConvertInv, NextLineInv DEF ColorNext, Finished
<1> QED
  BY <1>1, <1>2

LEMMA ColorCorrect == ColorSpec => []ColorInv
  BY ColorInvInit, ColorInvNext, PTL DEF ColorSpec

(***************************************************************************)
(* For every size and every frame: Yvyu2RGBA reads past the frame only if  *)
(* the driver delivered less than mWidth x mHeight pixels of two bytes.    *)
(***************************************************************************)
THEOREM SmallFrameCorrect == ColorSpec => []OverreadNeedsSmallFrame
<1>1. ColorInv => OverreadNeedsSmallFrame
  BY DEF ColorInv
<1> QED
  BY ColorCorrect, <1>1, PTL

\* The bytes of a pixel that has been converted.
LEMMA ShownBytes ==
  ASSUME ColorInv, NEW k \in Shown
  PROVE  /\ k \in Nat /\ rgbData[k] = PixelOf(k)
         /\ yvyu[2 * k] \in Byte /\ yvyu[4 * (k \div 2) + 1] \in Byte
         /\ yvyu[4 * (k \div 2) + 3] \in Byte
<1>1. PICK n \in Nat : yvyu \in [0 .. n - 1 -> Byte]
  BY DEF ColorInv
<1>2. k \in Nat
  BY DEF Shown
<1>3. 4 * (k \div 2) + 3 \in 0 .. n - 1 /\ rgbData[k] = PixelOf(k)
  BY <1>1 DEF ColorInv, ShownRight
<1>4. 2 * k \in 0 .. n - 1 /\ 4 * (k \div 2) + 1 \in 0 .. n - 1
  BY <1>1, <1>2, <1>3
<1> QED
  BY <1>1, <1>2, <1>3, <1>4

\* When all lines are done every byte has been used, in a frame of even width.
LEMMA PixelsShown == ColorInv => PixelsInPlace
<1> SUFFICES ASSUME ColorInv, ~LinesLeft, colorFault = "none", mWidth % 2 = 0,
                    NEW x \in 0 .. mWidth - 1, NEW y \in 0 .. mHeight - 1
             PROVE  rgbData[y * mWidth + x] =
                      Pixel(Luma(x, y), Centred(Cb(x, y)), Centred(Cr(x, y)))
  BY DEF PixelsInPlace
<1> DEFINE q == y * HalfWidth + x \div 2
           k == y * mWidth + x
<1>1. /\ mWidth \in Nat \ {0} /\ mHeight \in Nat \ {0} /\ HalfWidth \in Nat /\ Area \in Nat
      /\ mWidth = 2 * HalfWidth
  BY ColorSizeFacts DEF ColorInv, HalfWidth
<1>2. line = mHeight /\ column \in Nat
  BY <1>1 DEF ColorInv, ColorTypeOK, LinesLeft
<1>3. pixPtr >= Area
  <2>1. pixPtr = mHeight * (2 * HalfWidth) + 2 * column
    BY <1>2 DEF ColorInv, ColorPointers
  <2>2. mHeight * (2 * HalfWidth) = Area
    BY <1>1 DEF Area
  <2> QED
    BY <1>1, <1>2, <2>1, <2>2
<1>4. y * mWidth = 2 * (y * HalfWidth) /\ y * HalfWidth \in Nat
  BY <1>1, ProductIsNatural
<1>5. k \in 0 .. Area - 1
  <2>1. (y + 1) * mWidth <= mHeight * mWidth /\ mHeight * mWidth = Area
    <3>1. y + 1 \in Nat /\ y + 1 <= mHeight
      BY <1>1
    <3> QED
      BY <1>1, <3>1, ProductGrows DEF Area
  <2>2. (y + 1) * mWidth = y * mWidth + mWidth
    BY <1>1, NextMultiple
  <2> QED
    BY <1>1, <1>4, <2>1, <2>2
<1>6. k \div 2 = q /\ q = (y * mWidth) \div 2 + x \div 2
  BY <1>1, <1>4
<1>7. k \in Shown
  BY <1>1, <1>3, <1>5 DEF ColorInv, ColorTypeOK, Shown
<1>8. rgbData[k] = Pixel(LumaOf(k), CbOf(k), CrOf(k))
  BY <1>7, ShownBytes DEF PixelOf
<1>9. LumaOf(k) = Luma(x, y) /\ CbOf(k) = Centred(Cb(x, y)) /\ CrOf(k) = Centred(Cr(x, y))
  <2>1. 2 * k = k * 2 /\ 4 * (k \div 2) = ((y * mWidth) \div 2 + x \div 2) * 4
    BY <1>5, <1>6
  <2>2. /\ LumaOf(k) = Luma(x, y)
        /\ CbOf(k) = Cb(x, y) - 128 /\ CrOf(k) = Cr(x, y) - 128
    BY <2>1 DEF LumaOf, CbOf, CrOf, Luma, Cb, Cr
  <2>3. Cb(x, y) \in Byte /\ Cr(x, y) \in Byte
    BY <1>7, ShownBytes, <2>1 DEF Cb, Cr
  <2> QED
    BY <2>2, <2>3, CentredByte
<1> QED
  BY <1>8, <1>9

(***************************************************************************)
(* For every even width, every height and every frame: each pixel of the   *)
(* encoders is made of the four bytes of its own place (Yvyu2RGBA).        *)
(***************************************************************************)
THEOREM PixelsCorrect == ColorSpec => []PixelsInPlace
  BY ColorCorrect, PixelsShown, PTL

-----------------------------------------------------------------------------
(***************************************************************************)
(* The colours.  The shifts drop what is behind the binary point of each   *)
(* summand; Clamp does not move two numbers further apart.                 *)
(***************************************************************************)
Cut(exact) == IF exact < 0 THEN 0 ELSE IF exact > 255000 THEN 255000 ELSE exact

LEMMA ClampNear ==
  \A a, b \in Int : Abs(1000 * Clamp(a) - Cut(b)) <= Abs(1000 * a - b)
  BY DEF Clamp, Cut, Abs

Chroma == -128 .. 127

LEMMA RedDiffNear ==
  \A c \in Chroma : 1000 * RedDiff(c) - 1403 * c \in -1000 * Loss(c, 3) .. 1000 * Loss(c, 3)
<1> SUFFICES ASSUME NEW c \in Chroma
             PROVE  1000 * RedDiff(c) - 1403 * c \in -1000 * Loss(c, 3) .. 1000 * Loss(c, 3)
  OBVIOUS
<1> DEFINE d == c \div 32
           r == c % 32
<1>1. c = 32 * d + r /\ d \in -4 .. 3 /\ r \in 0 .. 31
  BY DEF Chroma
<1>2. c \div 4 = 8 * d + r \div 4 /\ c \div 8 = 4 * d + r \div 8
  BY <1>1
<1> HIDE DEF d, r
<1>3. CASE c = 0
  BY <1>3 DEF RedDiff, Loss
<1>4. CASE c # 0
  <2>1. RedDiff(c) = 45 * d + r + r \div 4 + r \div 8
    BY <1>1, <1>2 DEF RedDiff, d
  <2> QED
    BY <1>1, <1>4, <2>1 DEF Loss
<1> QED
  BY <1>3, <1>4

LEMMA BlueDiffNear ==
  \A c \in Chroma : 1000 * BlueDiff(c) - 1770 * c \in -1000 * Loss(c, 3) .. 1000 * Loss(c, 3)
  BY DEF BlueDiff, Loss, Chroma

LEMMA GreenDiffNear ==
  \A cb, cr \in Chroma :
    16 * Abs(1000 * GreenDiff(cb, cr) + 344 * cb + 714 * cr) <=
      1000 * (3 * Abs(cb) + 7 * Abs(cr) + 16 * Loss(Abs(cb) + Abs(cr), 5))
  BY DEF GreenDiff, Loss, Chroma, Abs

LEMMA DiffType ==
  \A cb, cr \in Chroma : RedDiff(cr) \in Int /\ BlueDiff(cb) \in Int /\ GreenDiff(cb, cr) \in Int
  BY DEF RedDiff, BlueDiff, GreenDiff, Chroma

\* What is shown of a pixel, and where its numbers are.
LEMMA ShownPixel ==
  ASSUME ColorInv, NEW k \in Shown
  PROVE  /\ LumaOf(k) \in Int /\ CbOf(k) \in Chroma /\ CrOf(k) \in Chroma
         /\ rgbData[k][1] = Clamp(LumaOf(k) + RedDiff(CrOf(k)))
         /\ rgbData[k][2] = Clamp(LumaOf(k) + GreenDiff(CbOf(k), CrOf(k)))
         /\ rgbData[k][3] = Clamp(LumaOf(k) + BlueDiff(CbOf(k)))
<1>1. LumaOf(k) \in Int /\ CbOf(k) \in Chroma /\ CrOf(k) \in Chroma
  BY ShownBytes DEF LumaOf, CbOf, CrOf, Chroma, Byte
<1>2. rgbData[k] = Pixel(LumaOf(k), CbOf(k), CrOf(k))
  BY ShownBytes DEF PixelOf
<1> QED
  BY <1>1, <1>2 DEF Pixel

LEMMA ColourNear ==
  ASSUME NEW y \in Int, NEW diff \in Int, NEW c \in Int, NEW factor \in Int, NEW e \in Nat,
         1000 * diff - factor * c \in -1000 * e .. 1000 * e
  PROVE  Near(Clamp(y + diff), y, factor, c, e)
<1> DEFINE p == factor * c
<1>1. p \in Int /\ 1000 * diff - p \in -1000 * e .. 1000 * e
  OBVIOUS
<1> HIDE DEF p
<1>2. Abs(1000 * Clamp(y + diff) - Cut(1000 * y + p)) <= Abs(1000 * (y + diff) - (1000 * y + p))
  BY <1>1, ClampNear
<1>3. Abs(1000 * (y + diff) - (1000 * y + p)) <= 1000 * e
  BY <1>1 DEF Abs
<1>4. 1000 * Clamp(y + diff) - Cut(1000 * y + p) \in -1000 * e .. 1000 * e
  BY <1>1, <1>2, <1>3 DEF Abs, Clamp, Cut
<1> QED
  BY <1>4 DEF Near, Cut, p

(***************************************************************************)
(* For every byte of every frame: what the shifts lose of red and blue is  *)
(* at most three steps, nothing without colour (Yvyu2RGBA).                *)
(***************************************************************************)
THEOREM RedAndBlueCorrect == ColorSpec => []RedAndBlueAccurate
<1>1. ASSUME ColorInv, NEW k \in Shown
      PROVE  /\ Near(rgbData[k][1], LumaOf(k), 1403, CrOf(k), Loss(CrOf(k), 3))
             /\ Near(rgbData[k][3], LumaOf(k), 1770, CbOf(k), Loss(CbOf(k), 3))
  <2> DEFINE cb == CbOf(k)
             cr == CrOf(k)
  <2>1. /\ LumaOf(k) \in Int /\ cb \in Chroma /\ cr \in Chroma
        /\ rgbData[k][1] = Clamp(LumaOf(k) + RedDiff(cr))
        /\ rgbData[k][3] = Clamp(LumaOf(k) + BlueDiff(cb))
    BY <1>1, ShownPixel
  <2> HIDE DEF cb, cr
  <2>2. /\ RedDiff(cr) \in Int /\ BlueDiff(cb) \in Int /\ cb \in Int /\ cr \in Int
        /\ Loss(cr, 3) \in Nat /\ Loss(cb, 3) \in Nat
    <3>1. RedDiff(cr) \in Int /\ BlueDiff(cb) \in Int
      BY <2>1, DiffType
    <3>2. cb \in Int /\ cr \in Int
      BY <2>1 DEF Chroma
    <3>3. Loss(cr, 3) \in Nat /\ Loss(cb, 3) \in Nat
      BY DEF Loss
    <3> QED
      BY <3>1, <3>2, <3>3
  <2>3. 1000 * RedDiff(cr) - 1403 * cr \in -1000 * Loss(cr, 3) .. 1000 * Loss(cr, 3)
    BY <2>1, RedDiffNear
  <2>4. 1000 * BlueDiff(cb) - 1770 * cb \in -1000 * Loss(cb, 3) .. 1000 * Loss(cb, 3)
    BY <2>1, BlueDiffNear
  <2>5. Near(Clamp(LumaOf(k) + RedDiff(cr)), LumaOf(k), 1403, cr, Loss(cr, 3))
    BY <2>1, <2>2, <2>3, ColourNear
  <2>6. Near(Clamp(LumaOf(k) + BlueDiff(cb)), LumaOf(k), 1770, cb, Loss(cb, 3))
    BY <2>1, <2>2, <2>4, ColourNear
  <2> QED
    BY <2>1, <2>5, <2>6 DEF cb, cr
<1>2. ColorInv => RedAndBlueAccurate
  BY <1>1 DEF RedAndBlueAccurate
<1> QED
  BY ColorCorrect, <1>2, PTL

(***************************************************************************)
(* For every byte of every frame: how far green can be off (Yvyu2RGBA).    *)
(***************************************************************************)
THEOREM GreenCorrect == ColorSpec => []GreenOffByColour
<1>1. ASSUME ColorInv, NEW k \in Shown
      PROVE  16 * GreenError(k) <=
               1000 * (3 * Abs(CbOf(k)) + 7 * Abs(CrOf(k))
                       + 16 * Loss(Abs(CbOf(k)) + Abs(CrOf(k)), 5))
  <2> DEFINE y == LumaOf(k)
             cb == CbOf(k)
             cr == CrOf(k)
             exact == 1000 * y - 344 * cb - 714 * cr
             diff == GreenDiff(cb, cr)
             bound == 1000 * (3 * Abs(cb) + 7 * Abs(cr) + 16 * Loss(Abs(cb) + Abs(cr), 5))
  <2>1. /\ y \in Int /\ cb \in Chroma /\ cr \in Chroma
        /\ rgbData[k][2] = Clamp(y + diff)
    BY <1>1, ShownPixel
  <2>2. GreenError(k) = Abs(1000 * rgbData[k][2] - Cut(exact))
    BY DEF GreenError, Cut
  <2>3. 16 * Abs(1000 * diff + 344 * cb + 714 * cr) <= bound
    BY <2>1, GreenDiffNear
  <2>4. diff \in Int /\ cb \in Int /\ cr \in Int
    <3> HIDE DEF y, cb, cr
    <3>1. diff \in Int
      BY <2>1, DiffType
    <3>2. cb \in Int /\ cr \in Int
      BY <2>1 DEF Chroma
    <3> QED
      BY <3>1, <3>2
  <2> HIDE DEF y, cb, cr, diff
  <2>5. Abs(1000 * Clamp(y + diff) - Cut(exact)) <= Abs(1000 * (y + diff) - exact)
    BY <2>1, <2>4, ClampNear
  <2>6. 1000 * (y + diff) - exact = 1000 * diff + 344 * cb + 714 * cr
    BY <2>1, <2>4
  <2>7. bound \in Int
    BY <2>4 DEF Abs, Loss
  <2> HIDE DEF bound
  <2>8. 16 * GreenError(k) <= bound
    <3>1. GreenError(k) \in Int /\ Abs(1000 * diff + 344 * cb + 714 * cr) \in Int
      BY <2>1, <2>2, <2>4 DEF Abs, Clamp, Cut
    <3>2. GreenError(k) <= Abs(1000 * diff + 344 * cb + 714 * cr)
      BY <2>1, <2>2, <2>5, <2>6
    <3> QED
      BY <2>3, <2>7, <3>1, <3>2
  <2> QED
    BY <2>8 DEF bound, cb, cr
<1>2. ColorInv => GreenOffByColour
  BY <1>1 DEF GreenOffByColour
<1> QED
  BY ColorCorrect, <1>2, PTL

-----------------------------------------------------------------------------
(***************************************************************************)
(* FrameDrawing: drawPreviewSurface and the two parts of                   *)
(* drawEncoderSurface work on variables of their own, so a step of the     *)
(* frame is a step of one of them and a stutter of the others.             *)
(***************************************************************************)
LEMMA FrameStep ==
  [FrameNext]_frameVars => [Next]_vars /\ [ColorNext]_colorVars /\ [CutNext]_cutVars
<1> SUFFICES ASSUME [FrameNext]_frameVars
             PROVE  [Next]_vars /\ [ColorNext]_colorVars /\ [CutNext]_cutVars
  OBVIOUS
<1>1. CASE NoFault /\ DrawPreview
  BY <1>1 DEF NoFault, DrawPreview, Next
<1>2. CASE NoFault /\ ConvertFrame
  <2>1. ~Finished
    BY <1>2 DEF NoFault, ConvertFrame, Convert, NextLine, Finished
  <2> QED
    BY <1>2, <2>1 DEF NoFault, ConvertFrame, ColorNext
<1>3. CASE NoFault /\ DrawEncoder
  BY <1>3 DEF NoFault, DrawEncoder, CutNext
<1>4. CASE UNCHANGED frameVars
  BY <1>4 DEF frameVars
<1> QED
  BY <1>1, <1>2, <1>3, <1>4 DEF FrameNext

(***************************************************************************)
(* What is proved of the three parts holds of the frame that is drawn by   *)
(* all of them (startCapture calls drawPreviewSurface and then             *)
(* drawEncoderSurface).                                                    *)
(***************************************************************************)
THEOREM FrameParts == FrameSpec => Spec /\ ColorSpec /\ CutSpec
<1>1. FrameInit => Init /\ ColorInit /\ CutInit
  BY DEF FrameInit
<1> QED
  BY <1>1, FrameStep, PTL DEF FrameSpec, Spec, ColorSpec, CutSpec

(***************************************************************************)
(* The three invariants together, and the order of the encoders' parts:    *)
(* nothing is cut out of a frame that is not converted to the end.         *)
(***************************************************************************)
OrderInv == windows \subseteq Kinds /\ (cutPc # "compare" => ~LinesLeft)

LEMMA OrderInit == FrameInit => OrderInv
  BY DEF FrameInit, CutInit, OrderInv

LEMMA OrderNext == OrderInv /\ [FrameNext]_frameVars => OrderInv'
<1> SUFFICES ASSUME OrderInv, [FrameNext]_frameVars PROVE OrderInv'
  OBVIOUS
<1> USE DEF OrderInv, LinesLeft
<1>1. CASE DrawPreview
  BY <1>1 DEF DrawPreview, colorVars, cutVars
<1>2. CASE ConvertFrame
  BY <1>2 DEF ConvertFrame, Convert, NextLine, cutVars
<1>3. CASE DrawEncoder
  BY <1>3 DEF DrawEncoder, EncoderReady, colorVars
<1>4. CASE UNCHANGED frameVars
  BY <1>4 DEF frameVars, colorVars, cutVars
<1> QED
  BY <1>1, <1>2, <1>3, <1>4 DEF FrameNext

LEMMA OrderCorrect == FrameSpec => []OrderInv
  BY OrderInit, OrderNext, PTL DEF FrameSpec

(***************************************************************************)
(* Only bytes and pixels of the frame get into the windows                 *)
(* (drawPreviewSurface, drawEncoderSurface).                               *)
(***************************************************************************)
THEOREM FrameTypesCorrect == FrameSpec => []FrameTypeOK
<1>1. OrderInv /\ TypeOK /\ ColorInv /\ CutTypeOK => FrameTypeOK
  BY DEF OrderInv, ColorInv, FrameTypeOK
<1> QED
  BY <1>1, FrameParts, OrderCorrect, FrameTypeCorrect, ColorCorrect, CopyTypeCorrect, PTL

LEMMA Agreement ==
  OrderInv /\ CutTypeOK /\ ShowsPicture /\ ShowsCentre /\ PixelsInPlace => WindowsAgree
<1> SUFFICES ASSUME OrderInv, CutTypeOK, ShowsPicture, ShowsCentre, PixelsInPlace,
                    FrameDrawn, NoFault, windows = Kinds, Asked, EvenSize, Unpadded,
                    ~TooSmall, EvenMargin, bufferStride = dest_w,
                    NEW x \in 0 .. dest_w - 1, NEW y \in 0 .. dest_h - 1,
                    (vertical_margin + y) % 2 = 0
             PROVE  LET px == horizontal_margin + x
                        py == vertical_margin + y
                    IN  rgbData[bits[y * bufferStride + x]] =
                          Pixel(yvyu[dst[LumaAt(px, py)]], Centred(yvyu[dst[CbAt(px, py)]]),
                                Centred(yvyu[dst[CrAt(px, py)]]))
  BY DEF WindowsAgree
<1> DEFINE px == horizontal_margin + x
           py == vertical_margin + y
<1>1. pc = "done" /\ cutPc = "done" /\ ~LinesLeft /\ colorFault = "none"
  BY DEF OrderInv, FrameDrawn, PreviewDrawn, NoFault, Kinds
<1>2. px \in 0 .. mWidth - 1 /\ py \in 0 .. mHeight - 1 /\ py % 2 = 0
  <2>1. /\ mWidth \in Nat /\ mHeight \in Nat /\ dest_w \in Nat /\ dest_h \in Nat
        /\ mWidth >= dest_w /\ mHeight >= dest_h
    BY DEF CutTypeOK, TooSmall
  <2>2. /\ horizontal_margin \in Nat /\ dest_w + 2 * horizontal_margin = mWidth
        /\ vertical_margin \in Nat /\ vertical_margin + dest_h <= mHeight
    BY <2>1, CutSizeFacts
  <2> QED
    BY <2>1, <2>2
<1>3. bits[y * bufferStride + x] = py * mWidth + px
  <2>1. bits[y * bufferStride + x] = CentrePixel(x, y)
    BY <1>1 DEF ShowsCentre
  <2>2. (vertical_margin + y) * mWidth \in Int /\ horizontal_margin \in Int
    <3>1. py \in Nat /\ mWidth \in Nat /\ horizontal_margin \in Int
      BY <1>2, CutSizeFacts DEF CutTypeOK, TooSmall
    <3> QED
      BY <3>1, ProductIsNatural
  <2>3. CentrePixel(x, y) = py * mWidth + px
    BY <2>2 DEF CentrePixel
  <2> QED
    BY <2>1, <2>3
<1> HIDE DEF px, py
<1>4. rgbData[py * mWidth + px] =
        Pixel(Luma(px, py), Centred(Cb(px, py)), Centred(Cr(px, py)))
  BY <1>1, <1>2 DEF PixelsInPlace, EvenSize
<1>5. /\ dst[LumaAt(px, py)] = SourceLuma(px, py)
      /\ dst[CrAt(px, py)] = SourceCr(px, py)
      /\ dst[CbAt(px, py)] = SourceCb(px, py)
  <2>1. py - (py % 2) = py
    BY <1>2
  <2> QED
    BY <1>1, <1>2, <2>1 DEF ShowsPicture
<1>6. /\ yvyu[SourceLuma(px, py)] = Luma(px, py)
      /\ yvyu[SourceCb(px, py)] = Cb(px, py)
      /\ yvyu[SourceCr(px, py)] = Cr(px, py)
  BY DEF SourceLuma, SourceCb, SourceCr, Luma, Cb, Cr
<1> QED
  BY <1>3, <1>4, <1>5, <1>6 DEF px, py

(***************************************************************************)
(* For every even size, every frame and every window with even margins:    *)
(* both conversions and both copies agree on what a pixel is made of       *)
(* (drawPreviewSurface, drawEncoderSurface).                               *)
(***************************************************************************)
THEOREM WindowsCorrect == FrameSpec => []WindowsAgree
  BY Agreement, FrameParts, OrderCorrect, CopyTypeCorrect, PictureCorrect, CentreCorrect,
     PixelsCorrect, PTL

=============================================================================
