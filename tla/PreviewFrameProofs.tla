------------------------- MODULE PreviewFrameProofs --------------------------
(***************************************************************************)
(* Proofs about PreviewFrame for every size the application may ask for,   *)
(* every frame a driver may grant and every alignment.                     *)
(***************************************************************************)
EXTENDS PreviewFrame, TLAPS

(***************************************************************************)
(* Facts about products and halves that the provers have to be told.       *)
(***************************************************************************)
LEMMA ProductIsNatural == \A a, b \in Nat : a * b \in Nat
  OBVIOUS

LEMMA ProductGrows == \A a, b, c \in Nat : a <= b => a * c <= b * c
<1> SUFFICES ASSUME NEW a \in Nat, NEW b \in Nat, NEW c \in Nat, a <= b
             PROVE  a * c <= b * c
  OBVIOUS
<1>1. PICK d \in Nat : b = a + d
  <2>1. b - a \in Nat /\ b = a + (b - a)
    OBVIOUS
  <2> QED
    BY <2>1
<1>2. b * c = a * c + d * c
  BY <1>1
<1>3. a * c \in Nat /\ d * c \in Nat
  BY ProductIsNatural
<1> QED
  BY <1>2, <1>3

LEMMA EvenHalves == \A d \in Nat : d % 2 = 0 => 2 * ((d + 1) \div 2) = d
  OBVIOUS

LEMMA NextMultiple == \A a, c \in Nat : (a + 1) * c = a * c + c
  OBVIOUS

-----------------------------------------------------------------------------

HalfWidth == mWidth \div 2
Area == mWidth * mHeight

\* Rows whose chroma has been kept before row n.
KeptRows(n) == (n + 1) \div 2

KeptNow == IF KeepsChroma THEN j ELSE 0

(***************************************************************************)
(* Where the three pointers stand in the loop.                             *)
(***************************************************************************)
Pointers ==
  pc = "spread" /\ fault = "none" =>
    /\ Y = i * (2 * HalfWidth) + 2 * j
    /\ U = Area + KeptRows(i) * HalfWidth + KeptNow
    /\ V = Area + Area \div 4 + KeptRows(i) * HalfWidth + KeptNow

SizesOK ==
  /\ mWidth \in Nat \ {0} /\ mHeight \in Nat \ {0}
  /\ granted \in [w : Nat, h : Nat, bpp : Nat]
  /\ stride \in Nat

Inv ==
  /\ TypeOK /\ SizesOK /\ Pointers /\ FaultNeedsMismatch
  /\ pc = "alloc" => i = 0 /\ j = 0

-----------------------------------------------------------------------------
\* What the sizes alone imply.
LEMMA SizeFacts ==
  ASSUME SizesOK
  PROVE  /\ HalfWidth \in Nat /\ 2 * HalfWidth <= mWidth
         /\ Area \in Nat /\ StagingSize \in Nat /\ SourceSize \in Nat
         /\ Area <= StagingSize /\ Area + 2 * (Area \div 4) <= StagingSize
         /\ Area \div 4 \in Nat /\ 4 * (Area \div 4) <= Area
<1> USE DEF SizesOK
<1>1. HalfWidth \in Nat /\ 2 * HalfWidth <= mWidth
  BY DEF HalfWidth
<1>2. Area \in Nat
  BY ProductIsNatural DEF Area
<1>3. StagingSize = (3 * Area) \div 2
  BY <1>2 DEF StagingSize, Area
<1>4. SourceSize \in Nat
  BY ProductIsNatural DEF SourceSize
<1>5. /\ Area \div 4 \in Nat /\ 4 * (Area \div 4) <= Area
      /\ (3 * Area) \div 2 \in Nat /\ Area <= (3 * Area) \div 2
      /\ Area + 2 * (Area \div 4) <= (3 * Area) \div 2
  BY <1>2
<1> QED
  BY <1>1, <1>2, <1>3, <1>4, <1>5

(***************************************************************************)
(* One turn of the inner loop stays inside: what it reads in row i, what   *)
(* it writes to the luma plane, and, with an even height, to the others.   *)
(***************************************************************************)
LEMMA TurnFacts ==
  ASSUME SizesOK, i \in Nat, j \in Nat, i + 1 <= mHeight, j + 1 <= HalfWidth
  PROVE  /\ Macropixel \in Nat
         /\ Macropixel + 4 <= 2 * Area
         /\ i * (2 * HalfWidth) + 2 * j + 2 <= Area
         /\ mHeight % 2 = 0 /\ KeepsChroma =>
              KeptRows(i) * HalfWidth + j + 1 <= Area \div 4
<1>1. /\ HalfWidth \in Nat /\ 2 * HalfWidth <= mWidth /\ mWidth \in Nat /\ mHeight \in Nat
      /\ Area \in Nat /\ Area \div 4 \in Nat
  BY SizeFacts DEF SizesOK
<1>2. /\ i * mWidth \in Nat /\ (i + 1) * mWidth = i * mWidth + mWidth
      /\ (i + 1) * mWidth <= Area
  <2>1. i + 1 \in Nat /\ mHeight * mWidth = Area
    BY <1>1 DEF Area
  <2> QED
    BY <1>1, <2>1, ProductIsNatural, NextMultiple, ProductGrows
<1>3. Macropixel \in Nat /\ Macropixel + 4 <= 2 * Area
  <2>1. (i * mWidth) \div 2 \in Nat /\ 2 * ((i * mWidth) \div 2) <= i * mWidth
    BY <1>2
  <2> QED
    BY <1>1, <1>2, <2>1 DEF Macropixel
<1>4. i * (2 * HalfWidth) + 2 * j + 2 <= Area
  <2>1. i * (2 * HalfWidth) <= i * mWidth
    <3>1. (2 * HalfWidth) * i <= mWidth * i
      BY <1>1, ProductGrows
    <3> QED
      BY <1>1, <3>1
  <2>2. i * (2 * HalfWidth) \in Nat
    BY <1>1, ProductIsNatural
  <2> QED
    BY <1>1, <1>2, <2>1, <2>2
<1>5. ASSUME mHeight % 2 = 0, KeepsChroma
      PROVE  KeptRows(i) * HalfWidth + j + 1 <= Area \div 4
  <2> DEFINE k == KeptRows(i)
             m == mHeight \div 2
  <2>1. k \in Nat /\ k + 1 \in Nat /\ m \in Nat /\ mHeight = 2 * m /\ k + 1 <= m
    BY <1>1, <1>5 DEF KeepsChroma, KeptRows
  <2>2. (k + 1) * HalfWidth = k * HalfWidth + HalfWidth /\ k * HalfWidth \in Nat
    BY <1>1, <2>1, NextMultiple, ProductIsNatural
  <2>3. (k + 1) * HalfWidth <= m * HalfWidth
    BY <1>1, <2>1, ProductGrows
  <2>4. 4 * (m * HalfWidth) <= Area
    <3>1. (2 * HalfWidth) * mHeight <= mWidth * mHeight
      BY <1>1, ProductGrows
    <3>2. (2 * HalfWidth) * (2 * m) = 4 * (m * HalfWidth)
      BY <1>1, <2>1
    <3> QED
      BY <2>1, <3>1, <3>2 DEF Area
  <2>5. m * HalfWidth \in Nat
    BY <1>1, <2>1, ProductIsNatural
  <2>6. m * HalfWidth <= Area \div 4
    BY <1>1, <2>4, <2>5
  <2> HIDE DEF k, m
  <2>7. k * HalfWidth + j + 1 <= Area \div 4
    BY <1>1, <2>1, <2>2, <2>3, <2>5, <2>6
  <2> QED
    BY <2>7 DEF k
<1> QED
  BY <1>3, <1>4, <1>5

-----------------------------------------------------------------------------
(***************************************************************************)
(* The window: what is copied is what its planes need.                     *)
(***************************************************************************)
LEMMA EvenFacts ==
  ASSUME SizesOK, EvenSize
  PROVE  /\ mWidth = 2 * HalfWidth /\ HalfWidth \in Nat
         /\ bufHeight = mHeight
         /\ Area = 2 * (HalfWidth * mHeight) /\ HalfWidth * mHeight \in Nat
         /\ Area = 4 * (Area \div 4)
         /\ StagingSize = Area + 2 * (Area \div 4)
         /\ (HalfWidth * mHeight) \div 2 = Area \div 4
<1> DEFINE m == mHeight \div 2
           p == HalfWidth * m
<1>1. mWidth = 2 * HalfWidth /\ HalfWidth \in Nat /\ mHeight = 2 * m /\ m \in Nat
  BY DEF SizesOK, EvenSize, HalfWidth
<1>2. bufHeight = mHeight
  BY <1>1 DEF bufHeight
<1>3. p \in Nat /\ HalfWidth * mHeight = 2 * p
  <2>1. HalfWidth * (2 * m) = 2 * (HalfWidth * m)
    BY <1>1
  <2> QED
    BY <1>1, <2>1, ProductIsNatural
<1>4. Area = 2 * (HalfWidth * mHeight)
  <2>1. (2 * HalfWidth) * mHeight = 2 * (HalfWidth * mHeight)
    BY <1>1
  <2> QED
    BY <1>1, <2>1 DEF Area
<1>5. Area \div 4 = p
  BY <1>3, <1>4
<1>6. StagingSize = (3 * Area) \div 2
  BY <1>3, <1>4 DEF StagingSize, Area
<1> HIDE DEF p
<1>7. Area = 4 * p /\ StagingSize = 6 * p
  BY <1>3, <1>4, <1>6
<1> QED
  BY <1>1, <1>2, <1>3, <1>4, <1>5, <1>7

LEMMA UnpaddedFacts ==
  ASSUME SizesOK, EvenSize, Unpadded
  PROVE  /\ dst_y_size = Area /\ dst_c_size = Area \div 4
         /\ CopySize = StagingSize
<1>1. dst_y_size = Area
  BY EvenFacts DEF Unpadded, dst_y_size, Area
<1>2. dst_c_size = Area \div 4
  <2>1. dst_c_stride = HalfWidth /\ bufHeight = mHeight
    BY EvenFacts DEF Unpadded, HalfWidth
  <2> QED
    BY <2>1, EvenFacts DEF dst_c_size
<1> QED
  BY <1>1, <1>2, EvenFacts DEF CopySize

\* For a stride that is a natural number the size of the window is one.
LEMMA CopySizeIsNatural == ASSUME SizesOK PROVE CopySize \in Nat
<1>1. bufHeight \in Nat
  BY DEF SizesOK, bufHeight
<1>2. dst_y_size \in Nat
  BY <1>1, ProductIsNatural DEF SizesOK, dst_y_size
<1>3. dst_c_stride \in Nat
  <2>1. stride \div 2 + Align - 1 \in Nat
    BY AlignAssumption DEF SizesOK
  <2>2. (stride \div 2 + Align - 1) \div Align \in Nat
    BY <2>1, AlignAssumption
  <2> QED
    BY <2>2, AlignAssumption, ProductIsNatural DEF dst_c_stride, AlignUp
<1>4. dst_c_size \in Nat
  <2>1. dst_c_stride * bufHeight \in Nat
    BY <1>1, <1>3, ProductIsNatural
  <2> QED
    BY <2>1 DEF dst_c_size
<1> QED
  BY <1>2, <1>4 DEF CopySize

-----------------------------------------------------------------------------
LEMMA InvInit == Init => Inv
<1> SUFFICES ASSUME Init PROVE Inv
  OBVIOUS
<1>1. mWidth \in Nat \ {0} /\ mHeight \in Nat \ {0}
  BY SizesAssumption DEF Init
<1>2. granted \in [w : Nat, h : Nat, bpp : Nat]
  BY <1>1, FramesAssumption DEF Init
<1>3. AlignUp(bufWidth) \in Nat
  <2>1. bufWidth + Align - 1 \in Nat
    BY <1>1, AlignAssumption DEF bufWidth
  <2>2. (bufWidth + Align - 1) \div Align \in Nat
    BY <2>1, AlignAssumption
  <2> QED
    BY <2>2, AlignAssumption, ProductIsNatural DEF AlignUp
<1>4. stride \in Nat
  BY <1>3, AlignAssumption DEF Init
<1>5. TypeOK
  BY <1>1 DEF Init, TypeOK, Junk
<1> QED
  BY <1>1, <1>2, <1>4, <1>5 DEF Init, Inv, SizesOK, Pointers, FaultNeedsMismatch

SameSizes == UNCHANGED <<mWidth, mHeight, granted, stride, HalfWidth, Area, SourceSize, StagingSize,
                         CopySize, SizesOK, EvenSize, Unpadded, Asked>>

LEMMA SizesStay == UNCHANGED geometry => SameSizes
  BY DEF SameSizes, geometry, HalfWidth, Area, SourceSize, StagingSize, CopySize, SizesOK,
         EvenSize, Unpadded, Asked, dst_y_size, dst_c_size, dst_c_stride, bufHeight, AlignUp

LEMMA BeginSpreadInv == ASSUME Inv, fault = "none", BeginSpread PROVE Inv'
<1> USE DEF Inv
<1>1. /\ SameSizes /\ pc' = "spread" /\ i = 0 /\ j = 0
      /\ UNCHANGED <<i, j, mYuv420sp, dst, fault>>
      /\ Y' = 0 /\ U' = Area /\ V' = Area + Area \div 4
  BY SizesStay DEF BeginSpread, Planes, Area
<1>2. Area \in Nat /\ Area \div 4 \in Nat /\ HalfWidth \in Nat
  BY SizeFacts
<1>3. TypeOK'
  BY <1>1, <1>2 DEF TypeOK, SameSizes
<1>4. Pointers'
  <2>1. KeptRows(0) = 0 /\ 0 * HalfWidth = 0 /\ 0 * (2 * HalfWidth) = 0
    BY <1>2 DEF KeptRows
  <2>2. KeptNow' = 0
    BY <1>1 DEF KeptNow
  <2> QED
    BY <1>1, <1>2, <2>1, <2>2 DEF Pointers, SameSizes, KeptRows
<1> QED
  BY <1>1, <1>3, <1>4 DEF FaultNeedsMismatch, SameSizes

LEMMA SpreadInv == ASSUME Inv, fault = "none", Spread PROVE Inv'
<1> USE DEF Inv
<1>1. /\ SameSizes /\ pc = "spread" /\ pc' = "spread"
      /\ i \in Nat /\ j \in Nat /\ i + 1 <= mHeight /\ j + 1 <= HalfWidth
      /\ i' = i /\ j' = j + 1 /\ dst' = dst
      /\ Y' = Y + 2
      /\ U' = IF KeepsChroma THEN U + 1 ELSE U
      /\ V' = IF KeepsChroma THEN V + 1 ELSE V
  BY SizesStay DEF Spread, RowsLeft, ColumnsLeft, TypeOK, SizesOK, HalfWidth
<1>2. /\ Macropixel \in Nat /\ Macropixel + 4 <= 2 * Area
      /\ i * (2 * HalfWidth) + 2 * j + 2 <= Area
      /\ mHeight % 2 = 0 /\ KeepsChroma =>
           KeptRows(i) * HalfWidth + j + 1 <= Area \div 4
  BY <1>1, TurnFacts
<1>3. /\ HalfWidth \in Nat /\ Area \in Nat /\ SourceSize \in Nat /\ StagingSize \in Nat
      /\ Area <= StagingSize /\ Area + 2 * (Area \div 4) <= StagingSize /\ Area \div 4 \in Nat
  BY SizeFacts
<1>4. /\ Y = i * (2 * HalfWidth) + 2 * j
      /\ U = Area + KeptRows(i) * HalfWidth + KeptNow
      /\ V = Area + Area \div 4 + KeptRows(i) * HalfWidth + KeptNow
      /\ Y \in Nat /\ U \in Nat /\ V \in Nat
  BY <1>1 DEF Pointers, TypeOK
<1>5. KeptRows(i) * HalfWidth \in Nat
  <2>1. KeptRows(i) \in Nat
    BY <1>1 DEF KeptRows
  <2> QED
    BY <1>3, <2>1, ProductIsNatural
<1>6. mHeight % 2 = 0 => \A k \in Written : k < StagingSize
  <2>1. Y + 1 < StagingSize
    BY <1>1, <1>2, <1>3, <1>4
  <2>2. mHeight % 2 = 0 /\ KeepsChroma => U < StagingSize /\ V < StagingSize
    BY <1>1, <1>2, <1>3, <1>4, <1>5 DEF KeptNow
  <2> QED
    BY <1>3, <1>4, <2>1, <2>2 DEF Written
<1>7. /\ fault' \in {"none", "source_overread", "staging_overwrite"}
      /\ fault' = "source_overread" => Macropixel + 3 >= SourceSize
      /\ fault' = "staging_overwrite" => \E k \in Written : k >= StagingSize
  BY DEF Spread
<1>8. FaultNeedsMismatch'
  <2>1. fault' = "source_overread" => SourceSize < 2 * Area
    BY <1>2, <1>3, <1>7
  <2>2. fault' = "staging_overwrite" => mHeight % 2 # 0
    <3>1. \A k \in Written : k \in Nat
      BY <1>4 DEF Written
    <3> QED
      BY <1>3, <1>6, <1>7, <3>1
  <2>3. mHeight % 2 # 0 => mHeight % 2 = 1
    BY DEF SizesOK
  <2>4. 2 * mWidth * mHeight = 2 * Area
    BY DEF Area, SizesOK
  <2> QED
    BY <1>1, <1>7, <2>1, <2>2, <2>3, <2>4 DEF FaultNeedsMismatch, SameSizes
<1>9. TypeOK'
  <2>1. mYuv420sp' \in [0 .. StagingSize - 1 -> {Junk} \cup 0 .. SourceSize - 1]
    <3>1. CASE UNCHANGED mYuv420sp
      BY <3>1 DEF TypeOK
    <3>2. CASE ~UNCHANGED mYuv420sp
      <4>1. /\ ~(Macropixel + 3 >= SourceSize)
            /\ mYuv420sp' = [k \in DOMAIN mYuv420sp |->
                 IF KeepsChroma /\ k = V THEN Macropixel + 1
                 ELSE IF KeepsChroma /\ k = U THEN Macropixel + 3
                 ELSE IF k = Y + 1 THEN Macropixel + 2
                 ELSE IF k = Y THEN Macropixel
                 ELSE mYuv420sp[k]]
        BY <3>2 DEF Spread
      <4>2. {Macropixel, Macropixel + 1, Macropixel + 2, Macropixel + 3} \subseteq 0 .. SourceSize - 1
        BY <1>2, <1>3, <4>1
      <4> QED
        BY <4>1, <4>2 DEF TypeOK
    <3> QED
      BY <3>1, <3>2
  <2>2. {Y', U', V'} \subseteq Nat /\ j' \in 0 .. HalfWidth
    BY <1>1, <1>3, <1>4
  <2> QED
    BY <1>1, <1>7, <2>1, <2>2 DEF TypeOK, SameSizes, HalfWidth
<1>10. Pointers'
  <2>1. KeptNow' = IF KeepsChroma THEN j + 1 ELSE 0
    BY <1>1 DEF KeptNow, KeepsChroma
  <2>2. KeptNow' = IF KeepsChroma THEN KeptNow + 1 ELSE KeptNow
    BY <1>1, <2>1 DEF KeptNow
  <2>3. /\ Y' = i * (2 * HalfWidth) + 2 * j'
        /\ U' = Area + KeptRows(i) * HalfWidth + KeptNow'
        /\ V' = Area + Area \div 4 + KeptRows(i) * HalfWidth + KeptNow'
    <3>1. i * (2 * HalfWidth) \in Nat /\ KeptNow \in Nat
      BY <1>1, <1>3, ProductIsNatural DEF KeptNow
    <3> QED
      BY <1>1, <1>3, <1>4, <1>5, <2>2, <3>1
  <2> QED
    BY <1>1, <2>3 DEF Pointers, SameSizes, KeptRows
<1> QED
  BY <1>1, <1>8, <1>9, <1>10 DEF SameSizes

\* At the end of a row the pointers stand where the next row starts.
LEMMA NextRowInv == ASSUME Inv, fault = "none", NextRow PROVE Inv'
<1> USE DEF Inv
<1>1. /\ SameSizes /\ pc = "spread" /\ pc' = "spread"
      /\ i \in Nat /\ i + 1 <= mHeight /\ j = HalfWidth
      /\ i' = i + 1 /\ j' = 0
      /\ UNCHANGED <<Y, U, V, mYuv420sp, dst, fault>>
  BY SizesStay DEF NextRow, RowsLeft, ColumnsLeft, TypeOK, SizesOK, HalfWidth
<1>2. HalfWidth \in Nat
  BY SizeFacts
<1>3. TypeOK'
  BY <1>1, <1>2 DEF TypeOK, SameSizes, SizesOK, HalfWidth
<1>4. i * (2 * HalfWidth) + 2 * j = (i + 1) * (2 * HalfWidth) + 2 * 0
  BY <1>1, <1>2, NextMultiple
<1>5. KeptRows(i) * HalfWidth + KeptNow = KeptRows(i + 1) * HalfWidth
  <2>1. CASE KeepsChroma
    <3>1. KeptRows(i) \in Nat /\ KeptRows(i + 1) = KeptRows(i) + 1
      BY <1>1, <2>1 DEF KeepsChroma, KeptRows
    <3> QED
      BY <1>1, <1>2, <2>1, <3>1, NextMultiple DEF KeptNow
  <2>2. CASE ~KeepsChroma
    <3>1. KeptRows(i) \in Nat /\ KeptRows(i + 1) = KeptRows(i)
      BY <1>1, <2>2 DEF KeepsChroma, KeptRows
    <3>2. KeptRows(i) * HalfWidth \in Nat
      BY <1>2, <3>1, ProductIsNatural
    <3> QED
      BY <2>2, <3>1, <3>2 DEF KeptNow
  <2> QED
    BY <2>1, <2>2
<1>6. Pointers'
  <2>1. KeptNow' = 0 /\ KeptRows(i)' = KeptRows(i + 1)
    BY <1>1 DEF KeptNow, KeptRows
  <2>2. KeptRows(i + 1) * HalfWidth \in Nat /\ KeptRows(i) * HalfWidth \in Nat /\ KeptNow \in Nat
    <3>1. KeptRows(i + 1) \in Nat /\ KeptRows(i) \in Nat
      BY <1>1 DEF KeptRows
    <3> QED
      BY <1>1, <1>2, <3>1, ProductIsNatural DEF KeptNow
  <2>3. Area \in Nat /\ Area \div 4 \in Nat
    BY SizeFacts
  <2>4. /\ Y = i * (2 * HalfWidth) + 2 * j
        /\ U = Area + KeptRows(i) * HalfWidth + KeptNow
        /\ V = Area + Area \div 4 + KeptRows(i) * HalfWidth + KeptNow
    BY <1>1 DEF Pointers
  <2>5. U = Area + KeptRows(i + 1) * HalfWidth + 0
    BY <1>5, <2>2, <2>3, <2>4
  <2>6. V = Area + Area \div 4 + KeptRows(i + 1) * HalfWidth + 0
    BY <1>5, <2>2, <2>3, <2>4
  <2>7. Y = (i + 1) * (2 * HalfWidth) + 2 * 0
    BY <1>4, <2>4
  <2> QED
    BY <1>1, <2>1, <2>5, <2>6, <2>7 DEF Pointers, SameSizes, KeptRows
<1> QED
  BY <1>1, <1>3, <1>6 DEF FaultNeedsMismatch, SameSizes

LEMMA EndSpreadInv == ASSUME Inv, fault = "none", EndSpread PROVE Inv'
<1> USE DEF Inv
<1>1. SameSizes /\ pc' = "copy" /\ UNCHANGED <<loop, mYuv420sp, dst, fault>>
  BY SizesStay DEF EndSpread
<1>2. TypeOK'
  BY <1>1 DEF TypeOK, SameSizes, loop
<1> QED
  BY <1>1, <1>2 DEF Pointers, FaultNeedsMismatch, SameSizes

\* What fits is copied from inside mYuv420sp.
LEMMA CopyToWindowInv == ASSUME Inv, fault = "none", CopyToWindow PROVE Inv'
<1> USE DEF Inv
<1>1. SameSizes /\ pc' = "done" /\ UNCHANGED <<loop, mYuv420sp>>
  BY SizesStay DEF CopyToWindow
<1>2. /\ fault' \in {"none", "staging_overread"}
      /\ fault' = "staging_overread" => CopySize > StagingSize
  BY DEF CopyToWindow
<1>3. StagingSize \in Nat
  BY SizeFacts
<1>4. fault' = "staging_overread" => ~EvenSize \/ ~Unpadded
  BY <1>2, <1>3, UnpaddedFacts
<1>5. dst' \in [0 .. CopySize - 1 -> {Junk} \cup 0 .. SourceSize - 1]
  <2>1. CASE CopySize > StagingSize
    BY <2>1 DEF CopyToWindow, TypeOK
  <2>2. CASE ~(CopySize > StagingSize)
    <3>1. CopySize \in Int
      BY CopySizeIsNatural
    <3>2. \A k \in 0 .. CopySize - 1 : k \in 0 .. StagingSize - 1
      BY <1>3, <2>2, <3>1
    <3>3. dst' = [k \in 0 .. CopySize - 1 |-> mYuv420sp[k]]
      BY <2>2 DEF CopyToWindow, TypeOK
    <3> QED
      BY <3>2, <3>3 DEF TypeOK
  <2> QED
    BY <2>1, <2>2
<1>6. TypeOK'
  BY <1>1, <1>2, <1>5 DEF TypeOK, SameSizes, loop
<1> QED
  BY <1>1, <1>2, <1>4, <1>6 DEF Pointers, FaultNeedsMismatch, SameSizes

LEMMA InvNext == Inv /\ [Next]_vars => Inv'
<1> SUFFICES ASSUME Inv, [Next]_vars PROVE Inv'
  OBVIOUS
<1>1. CASE UNCHANGED vars
  <2>1. SameSizes /\ UNCHANGED <<pc, i, j, Y, U, V, mYuv420sp, dst, fault>>
    BY <1>1, SizesStay DEF vars, loop
  <2> QED
    BY <2>1 DEF Inv, TypeOK, Pointers, FaultNeedsMismatch, SameSizes, KeptNow, KeepsChroma, KeptRows
<1>2. CASE ~UNCHANGED vars
  BY <1>2, BeginSpreadInv, SpreadInv, NextRowInv, EndSpreadInv, CopyToWindowInv DEF Next
<1> QED
  BY <1>1, <1>2

-----------------------------------------------------------------------------
\* Every loop of the preview conversion stays where Inv says (Yvyu2Yuv420).
THEOREM PointersCorrect == Spec => []Inv
  BY InvInit, InvNext, PTL DEF Spec

\* The variables of PreviewFrame keep their types.
THEOREM FrameTypeCorrect == Spec => []TypeOK
<1>1. Inv => TypeOK
  BY DEF Inv
<1> QED
  BY PointersCorrect, <1>1, PTL

(***************************************************************************)
(* For every size, every frame granted and every alignment: an access      *)
(* outside the buffers needs a smaller frame than asked for, an odd height *)
(* or a padded window (Yvyu2Yuv420, drawPreviewSurface).                   *)
(***************************************************************************)
THEOREM FaultCorrect == Spec => []FaultNeedsMismatch
<1>1. Inv => FaultNeedsMismatch
  BY DEF Inv
<1> QED
  BY PointersCorrect, <1>1, PTL

-----------------------------------------------------------------------------
(***************************************************************************)
(* What mYuv420sp holds, for a frame as asked for and an even size: the    *)
(* first n lumas, and the chroma of some rows and of c columns of the next.*)
(***************************************************************************)
LumaFilled(n) == \A k \in 0 .. n - 1 : mYuv420sp[k] = 2 * k

ChromaAt(r, c) ==
  /\ mYuv420sp[Area + r * HalfWidth + c] = (r * mWidth + c) * 4 + 3
  /\ mYuv420sp[Area + Area \div 4 + r * HalfWidth + c] = (r * mWidth + c) * 4 + 1

ChromaFilled(rows, n) ==
  \A r \in Nat, c \in 0 .. HalfWidth - 1 : r < rows \/ (r = rows /\ c < n) => ChromaAt(r, c)

Filled ==
  fault = "none" /\ Asked /\ EvenSize =>
    /\ pc = "spread" => LumaFilled(Y) /\ ChromaFilled(KeptRows(i), KeptNow)
    /\ pc = "copy" => LumaFilled(Area) /\ ChromaFilled(mHeight \div 2, 0)

PictureInv == Inv /\ Filled /\ ShowsPicture

\* The places of a kept chroma row lie in its plane, before those of the next.
LEMMA ChromaPlace ==
  ASSUME SizesOK, EvenSize, NEW r \in Nat, NEW c \in 0 .. HalfWidth - 1, r < mHeight \div 2
  PROVE  /\ r * HalfWidth \in Nat
         /\ r * HalfWidth + c < Area \div 4
         /\ \A n \in Nat : r < n => r * HalfWidth + c < n * HalfWidth
<1> DEFINE m == mHeight \div 2
<1>1. /\ HalfWidth \in Nat /\ m \in Nat /\ mHeight = 2 * m
      /\ (HalfWidth * mHeight) \div 2 = Area \div 4
  BY EvenFacts DEF SizesOK, EvenSize
<1>2. HalfWidth * m = Area \div 4 /\ HalfWidth * m \in Nat
  <2>1. HalfWidth * (2 * m) = 2 * (HalfWidth * m) /\ HalfWidth * m \in Nat
    BY <1>1, ProductIsNatural
  <2> QED
    BY <1>1, <2>1
<1>3. r * HalfWidth \in Nat /\ (r + 1) * HalfWidth = r * HalfWidth + HalfWidth
  BY <1>1, ProductIsNatural, NextMultiple
<1>4. ASSUME NEW n \in Nat, r < n PROVE r * HalfWidth + c < n * HalfWidth
  <2>1. (r + 1) * HalfWidth <= n * HalfWidth
    BY <1>1, <1>4, ProductGrows
  <2>2. n * HalfWidth \in Nat
    BY <1>1, ProductIsNatural
  <2> QED
    BY <1>1, <1>3, <2>1, <2>2
<1>5. r * HalfWidth + c < m * HalfWidth
  BY <1>1, <1>4
<1>6. m * HalfWidth = HalfWidth * m
  BY <1>1
<1> QED
  BY <1>2, <1>3, <1>4, <1>5, <1>6

LEMMA SpreadFills ==
  ASSUME PictureInv, Inv', fault = "none", Spread, fault' = "none", Asked, EvenSize
  PROVE  LumaFilled(Y)' /\ ChromaFilled(KeptRows(i), KeptNow)'
<1> USE DEF PictureInv, Inv
<1>1. /\ SameSizes /\ pc = "spread"
      /\ i \in Nat /\ j \in Nat /\ i + 1 <= mHeight /\ j + 1 <= HalfWidth
      /\ i' = i /\ j' = j + 1
      /\ Y' = Y + 2
  BY SizesStay DEF Spread, RowsLeft, ColumnsLeft, TypeOK, SizesOK, HalfWidth
<1>2. /\ mWidth = 2 * HalfWidth /\ HalfWidth \in Nat
      /\ Area \in Nat /\ Area \div 4 \in Nat /\ StagingSize = Area + 2 * (Area \div 4)
      /\ mHeight % 2 = 0 /\ mWidth \in Nat /\ mHeight \in Nat
  BY EvenFacts, SizeFacts DEF EvenSize, SizesOK
<1>3. /\ Macropixel \in Nat
      /\ i * (2 * HalfWidth) + 2 * j + 2 <= Area
      /\ KeepsChroma => KeptRows(i) * HalfWidth + j + 1 <= Area \div 4
  BY <1>1, <1>2, TurnFacts
<1>4. /\ Y = i * (2 * HalfWidth) + 2 * j
      /\ U = Area + KeptRows(i) * HalfWidth + KeptNow
      /\ V = Area + Area \div 4 + KeptRows(i) * HalfWidth + KeptNow
      /\ Y \in Nat /\ U \in Nat /\ V \in Nat
  BY <1>1 DEF Pointers, TypeOK
<1>5. Y + 2 <= Area
  BY <1>3, <1>4
<1>6. \A k \in 0 .. StagingSize - 1 :
        mYuv420sp'[k] = IF KeepsChroma /\ k = V THEN Macropixel + 1
                        ELSE IF KeepsChroma /\ k = U THEN Macropixel + 3
                        ELSE IF k = Y + 1 THEN Macropixel + 2
                        ELSE IF k = Y THEN Macropixel
                        ELSE mYuv420sp[k]
  <2>1. \/ fault' # "none"
        \/ mYuv420sp' = [k \in DOMAIN mYuv420sp |->
             IF KeepsChroma /\ k = V THEN Macropixel + 1
             ELSE IF KeepsChroma /\ k = U THEN Macropixel + 3
             ELSE IF k = Y + 1 THEN Macropixel + 2
             ELSE IF k = Y THEN Macropixel
             ELSE mYuv420sp[k]]
    BY DEF Spread
  <2> QED
    BY <2>1 DEF TypeOK
<1>7. LumaFilled(Y) /\ ChromaFilled(KeptRows(i), KeptNow)
  BY <1>1 DEF Filled
<1>8. KeptRows(i) \in Nat /\ KeptRows(i) * HalfWidth \in Nat /\ KeptNow \in Nat
  <2>1. KeptRows(i) \in Nat
    BY <1>1 DEF KeptRows
  <2> QED
    BY <1>1, <1>2, <2>1, ProductIsNatural DEF KeptNow
<1>9. U >= Area /\ V >= Area
  BY <1>2, <1>4, <1>8
<1>10. 2 * Y = Macropixel
  <2>1. i * (2 * HalfWidth) = 2 * (i * HalfWidth) /\ i * HalfWidth \in Nat
    BY <1>1, <1>2, ProductIsNatural
  <2>2. (i * mWidth) \div 2 = i * HalfWidth
    BY <1>2, <2>1
  <2> QED
    BY <1>1, <1>4, <2>1, <2>2 DEF Macropixel
<1>11. LumaFilled(Y)'
  <2> SUFFICES ASSUME NEW k \in 0 .. Y + 1 PROVE mYuv420sp'[k] = 2 * k
    BY <1>1, <1>4 DEF LumaFilled
  <2>1. k \in 0 .. StagingSize - 1 /\ k # U /\ k # V
    BY <1>2, <1>4, <1>5, <1>9
  <2>2. k < Y => mYuv420sp[k] = 2 * k
    BY <1>4, <1>7 DEF LumaFilled
  <2> QED
    BY <1>3, <1>4, <1>6, <1>10, <2>1, <2>2
<1>12. ASSUME NEW r \in Nat, NEW c \in 0 .. HalfWidth - 1,
              r < KeptRows(i) \/ (r = KeptRows(i) /\ c < KeptNow')
       PROVE  ChromaAt(r, c)'
  <2> DEFINE u == Area + r * HalfWidth + c
             v == Area + Area \div 4 + r * HalfWidth + c
  <2>1. r < mHeight \div 2
    <3>1. KeptRows(i) <= mHeight \div 2
      BY <1>1, <1>2 DEF KeptRows
    <3>2. KeepsChroma => KeptRows(i) < mHeight \div 2
      BY <1>1, <1>2 DEF KeptRows, KeepsChroma
    <3>3. ~KeepsChroma => KeptNow' = 0
      BY <1>1 DEF KeptNow, KeepsChroma
    <3> QED
      BY <1>2, <1>8, <1>12, <3>1, <3>2, <3>3
  <2>2. /\ r * HalfWidth \in Nat /\ r * HalfWidth + c < Area \div 4
        /\ r < KeptRows(i) => r * HalfWidth + c < KeptRows(i) * HalfWidth
    BY <1>8, <2>1, ChromaPlace
  <2>3. /\ u \in 0 .. StagingSize - 1 /\ v \in 0 .. StagingSize - 1
        /\ u >= Area /\ u < Area + Area \div 4 /\ v >= Area + Area \div 4
    BY <1>2, <2>2
  <2>4. CASE r = KeptRows(i) /\ c = j /\ KeepsChroma
    <3>1. u = U /\ v = V /\ u # v
      BY <1>2, <1>4, <2>3, <2>4 DEF KeptNow
    <3>2. mYuv420sp'[u] = Macropixel + 3 /\ mYuv420sp'[v] = Macropixel + 1
      BY <1>6, <2>3, <2>4, <3>1
    <3>3. Macropixel = (r * mWidth + c) * 4
      <4>1. i = 2 * r
        BY <1>1, <2>4 DEF KeptRows, KeepsChroma
      <4>2. (2 * r) * mWidth = 2 * (r * mWidth) /\ r * mWidth \in Nat
        BY <1>2, ProductIsNatural
      <4>3. (i * mWidth) \div 2 = r * mWidth
        BY <4>1, <4>2
      <4> QED
        BY <2>4, <4>3 DEF Macropixel
    <3> QED
      BY <1>1, <3>2, <3>3 DEF ChromaAt, SameSizes
  <2>5. CASE ~(r = KeptRows(i) /\ c = j /\ KeepsChroma)
    <3>1. r < KeptRows(i) \/ (r = KeptRows(i) /\ c < KeptNow)
      <4>1. KeptNow' = IF KeepsChroma THEN j + 1 ELSE 0
        BY <1>1 DEF KeptNow, KeepsChroma
      <4> QED
        BY <1>1, <1>2, <1>8, <1>12, <2>5, <4>1 DEF KeptNow
    <3>2. ChromaAt(r, c)
      BY <1>7, <3>1 DEF ChromaFilled
    <3>3. r * HalfWidth + c < KeptRows(i) * HalfWidth + KeptNow
      BY <1>2, <1>8, <2>2, <3>1
    <3>4. /\ KeepsChroma => KeptRows(i) * HalfWidth + KeptNow < Area \div 4
      BY <1>1, <1>2, <1>3, <1>8 DEF KeptNow
    <3>5. /\ u # Y /\ u # Y + 1 /\ v # Y /\ v # Y + 1
          /\ u # U /\ v # V
          /\ v # U \/ ~KeepsChroma
          /\ u # V \/ ~KeepsChroma
      BY <1>2, <1>4, <1>5, <1>8, <2>2, <2>3, <3>3, <3>4
    <3>6. mYuv420sp'[u] = mYuv420sp[u] /\ mYuv420sp'[v] = mYuv420sp[v]
      BY <1>6, <2>3, <3>5
    <3> QED
      BY <1>1, <3>2, <3>6 DEF ChromaAt, SameSizes
  <2> QED
    BY <2>4, <2>5
<1>13. ChromaFilled(KeptRows(i), KeptNow)'
  BY <1>1, <1>12 DEF ChromaFilled, SameSizes, KeptRows
<1> QED
  BY <1>11, <1>13

LEMMA NextRowFills ==
  ASSUME PictureInv, fault = "none", NextRow, Asked, EvenSize
  PROVE  LumaFilled(Y)' /\ ChromaFilled(KeptRows(i), KeptNow)'
<1> USE DEF PictureInv, Inv
<1>1. /\ SameSizes /\ pc = "spread"
      /\ i \in Nat /\ j = HalfWidth /\ i' = i + 1 /\ j' = 0
      /\ UNCHANGED <<Y, mYuv420sp>>
  BY SizesStay DEF NextRow, RowsLeft, ColumnsLeft, TypeOK, SizesOK, HalfWidth
<1>2. LumaFilled(Y) /\ ChromaFilled(KeptRows(i), KeptNow)
  BY <1>1 DEF Filled
<1>3. KeptNow' = 0 /\ KeptRows(i)' = KeptRows(i + 1)
  BY <1>1 DEF KeptNow, KeptRows
<1>4. ASSUME NEW r \in Nat, NEW c \in 0 .. HalfWidth - 1, r < KeptRows(i + 1)
      PROVE  ChromaAt(r, c)
  <2>1. r < KeptRows(i) \/ (r = KeptRows(i) /\ c < KeptNow)
    <3>1. KeptRows(i + 1) = IF KeepsChroma THEN KeptRows(i) + 1 ELSE KeptRows(i)
      BY <1>1 DEF KeptRows, KeepsChroma
    <3>2. KeptRows(i) \in Nat
      BY <1>1 DEF KeptRows
    <3>3. HalfWidth \in Nat
      BY SizeFacts
    <3> QED
      BY <1>1, <1>4, <3>1, <3>2, <3>3 DEF KeptNow
  <2> QED
    BY <1>2, <2>1 DEF ChromaFilled
<1>5. ChromaFilled(KeptRows(i + 1), 0)
  BY <1>4 DEF ChromaFilled
<1> QED
  BY <1>1, <1>2, <1>3, <1>5 DEF LumaFilled, ChromaFilled, ChromaAt, SameSizes

LEMMA EndSpreadFills ==
  ASSUME PictureInv, fault = "none", EndSpread, Asked, EvenSize
  PROVE  LumaFilled(Area)' /\ ChromaFilled(mHeight \div 2, 0)'
<1> USE DEF PictureInv, Inv
<1>1. /\ SameSizes /\ pc = "spread" /\ i = mHeight /\ j \in Nat /\ UNCHANGED mYuv420sp
      /\ mHeight \in Nat /\ mHeight % 2 = 0
  BY SizesStay DEF EndSpread, RowsLeft, TypeOK, SizesOK, EvenSize
<1>2. LumaFilled(Y) /\ ChromaFilled(KeptRows(i), KeptNow)
  BY <1>1 DEF Filled
<1>3. LumaFilled(Area)
  <2>1. mWidth = 2 * HalfWidth /\ HalfWidth \in Nat /\ Area \in Nat
    BY EvenFacts, SizeFacts
  <2>2. mHeight * mWidth = Area
    BY <1>1, <2>1 DEF Area
  <2>3. Y = Area + 2 * j
    BY <1>1, <2>1, <2>2 DEF Pointers
  <2> QED
    BY <1>1, <1>2, <2>1, <2>3 DEF LumaFilled
<1>4. ChromaFilled(mHeight \div 2, 0)
  <2>1. KeptRows(i) = mHeight \div 2
    BY <1>1 DEF KeptRows
  <2> QED
    BY <1>2, <2>1, <1>1 DEF ChromaFilled
<1> QED
  BY <1>1, <1>3, <1>4 DEF LumaFilled, ChromaFilled, ChromaAt, SameSizes

\* The copy puts every plane where YV12 has it.
LEMMA CopyShows ==
  ASSUME PictureInv, fault = "none", CopyToWindow, Asked, EvenSize, Unpadded,
         NEW x \in 0 .. mWidth - 1, NEW y \in 0 .. mHeight - 1
  PROVE  /\ dst'[LumaAt(x, y)] = SourceLuma(x, y)
         /\ dst'[CrAt(x, y)] = SourceCr(x, y - (y % 2))
         /\ dst'[CbAt(x, y)] = SourceCb(x, y - (y % 2))
<1> USE DEF PictureInv, Inv
<1> DEFINE r == y \div 2
           c == x \div 2
<1>1. /\ dst_y_size = Area /\ dst_c_size = Area \div 4 /\ CopySize = StagingSize
      /\ stride = mWidth /\ dst_c_stride = HalfWidth
  BY UnpaddedFacts DEF Unpadded, HalfWidth
<1>2. /\ mWidth = 2 * HalfWidth /\ HalfWidth \in Nat /\ mWidth \in Nat /\ mHeight \in Nat
      /\ Area \in Nat /\ Area \div 4 \in Nat /\ StagingSize = Area + 2 * (Area \div 4)
      /\ mHeight % 2 = 0
  BY EvenFacts, SizeFacts DEF EvenSize, SizesOK
<1>3. dst' = [k \in 0 .. StagingSize - 1 |-> mYuv420sp[k]]
  BY <1>1, <1>2 DEF CopyToWindow, TypeOK
<1>4. LumaFilled(Area) /\ ChromaFilled(mHeight \div 2, 0)
  BY DEF Filled, CopyToWindow
<1>5. dst'[LumaAt(x, y)] = SourceLuma(x, y)
  <2>1. y * mWidth \in Nat /\ (y + 1) * mWidth = y * mWidth + mWidth
    BY <1>2, ProductIsNatural, NextMultiple
  <2>2. (y + 1) * mWidth <= mHeight * mWidth /\ mHeight * mWidth = Area
    <3>1. y + 1 \in Nat /\ y + 1 <= mHeight
      BY <1>2
    <3> QED
      BY <1>2, <3>1, ProductGrows DEF Area
  <2>3. y * mWidth + x \in 0 .. Area - 1 /\ y * mWidth + x \in 0 .. StagingSize - 1
    BY <1>2, <2>1, <2>2
  <2>4. mYuv420sp[y * mWidth + x] = 2 * (y * mWidth + x)
    BY <1>4, <2>3 DEF LumaFilled
  <2>5. dst'[y * mWidth + x] = 2 * (y * mWidth + x)
    BY <1>3, <2>3, <2>4
  <2> QED
    BY <1>1, <2>1, <2>5 DEF LumaAt, SourceLuma
<1>6. /\ r \in Nat /\ r < mHeight \div 2 /\ c \in 0 .. HalfWidth - 1 /\ y - (y % 2) = 2 * r
  BY <1>2
<1>7. ChromaAt(r, c)
  BY <1>4, <1>6 DEF ChromaFilled
<1>8. r * HalfWidth \in Nat /\ r * HalfWidth + c < Area \div 4
  BY <1>6, ChromaPlace
<1>9. ((2 * r) * mWidth) \div 2 = r * mWidth
  <2>1. (2 * r) * mWidth = 2 * (r * mWidth) /\ r * mWidth \in Nat
    BY <1>2, <1>6, ProductIsNatural
  <2> QED
    BY <2>1
<1>10. dst'[CrAt(x, y)] = SourceCr(x, y - (y % 2))
  <2>1. CrAt(x, y) = Area + r * HalfWidth + c
    BY <1>1 DEF CrAt
  <2>2. Area + r * HalfWidth + c \in 0 .. StagingSize - 1
    BY <1>2, <1>6, <1>8
  <2>3. dst'[CrAt(x, y)] = (r * mWidth + c) * 4 + 3
    BY <1>3, <1>7, <2>1, <2>2 DEF ChromaAt
  <2> QED
    BY <1>6, <1>9, <2>3 DEF SourceCr
<1>11. dst'[CbAt(x, y)] = SourceCb(x, y - (y % 2))
  <2>1. CbAt(x, y) = Area + Area \div 4 + r * HalfWidth + c
    BY <1>1, <1>2, <1>6, <1>8 DEF CbAt, CrAt
  <2>2. Area + Area \div 4 + r * HalfWidth + c \in 0 .. StagingSize - 1
    BY <1>2, <1>6, <1>8
  <2>3. dst'[CbAt(x, y)] = (r * mWidth + c) * 4 + 1
    BY <1>3, <1>7, <2>1, <2>2 DEF ChromaAt
  <2> QED
    BY <1>6, <1>9, <2>3 DEF SourceCb
<1> QED
  BY <1>5, <1>10, <1>11

LEMMA PictureInit == Init => PictureInv
  BY InvInit DEF PictureInv, Filled, ShowsPicture, Init

LEMMA PictureNext == PictureInv /\ [Next]_vars => PictureInv'
<1> SUFFICES ASSUME PictureInv, [Next]_vars PROVE PictureInv'
  OBVIOUS
<1>1. Inv'
  BY InvNext DEF PictureInv
<1>2. CASE UNCHANGED vars
  <2>1. SameSizes /\ UNCHANGED <<geometry, pc, i, j, Y, U, V, mYuv420sp, dst, fault>>
    BY <1>2, SizesStay DEF vars, loop
  <2> QED
    BY <1>1, <2>1 DEF PictureInv, Filled, ShowsPicture, LumaFilled, ChromaFilled, ChromaAt,
       LumaAt, CrAt, CbAt, SourceLuma, SourceCr, SourceCb, dst_y_size, dst_c_size, dst_c_stride,
       bufHeight, AlignUp, SameSizes, geometry, KeptRows, KeptNow, KeepsChroma
<1>3. CASE fault = "none" /\ BeginSpread
  <2>1. SameSizes /\ pc' = "spread" /\ Y' = 0 /\ KeptNow' = 0 /\ i' = 0
    BY <1>3, SizesStay DEF BeginSpread, PictureInv, Inv, KeptNow
  <2>2. KeptRows(i)' = 0
    BY <2>1 DEF KeptRows
  <2>3. LumaFilled(Y)' /\ ChromaFilled(KeptRows(i), KeptNow)'
    BY <2>1, <2>2 DEF LumaFilled, ChromaFilled
  <2> QED
    BY <1>1, <2>1, <2>3 DEF PictureInv, Filled, ShowsPicture
<1>4. CASE fault = "none" /\ Spread
  <2>1. SameSizes /\ pc' = "spread"
    BY <1>4, SizesStay DEF Spread
  <2> QED
    BY <1>1, <1>4, <2>1, SpreadFills DEF PictureInv, Filled, ShowsPicture, SameSizes
<1>5. CASE fault = "none" /\ NextRow
  <2>1. SameSizes /\ pc' = "spread"
    BY <1>5, SizesStay DEF NextRow
  <2> QED
    BY <1>1, <1>5, <2>1, NextRowFills DEF PictureInv, Filled, ShowsPicture, SameSizes
<1>6. CASE fault = "none" /\ EndSpread
  <2>1. SameSizes /\ pc' = "copy"
    BY <1>6, SizesStay DEF EndSpread
  <2> QED
    BY <1>1, <1>6, <2>1, EndSpreadFills DEF PictureInv, Filled, ShowsPicture, SameSizes
<1>7. CASE fault = "none" /\ CopyToWindow
  <2>1. SameSizes /\ pc' = "done" /\ UNCHANGED geometry
    BY <1>7, SizesStay DEF CopyToWindow
  <2>2. Asked /\ EvenSize /\ Unpadded =>
          \A x \in 0 .. mWidth - 1, y \in 0 .. mHeight - 1 :
            /\ dst'[LumaAt(x, y)] = SourceLuma(x, y)
            /\ dst'[CrAt(x, y)] = SourceCr(x, y - (y % 2))
            /\ dst'[CbAt(x, y)] = SourceCb(x, y - (y % 2))
    BY <1>7, CopyShows
  <2>3. ShowsPicture'
    BY <2>1, <2>2 DEF ShowsPicture, SameSizes, geometry, LumaAt, CrAt, CbAt, SourceLuma,
       SourceCr, SourceCb, dst_y_size, dst_c_size, dst_c_stride, bufHeight, AlignUp
  <2> QED
    BY <1>1, <2>1, <2>3 DEF PictureInv, Filled
<1> QED
  BY <1>2, <1>3, <1>4, <1>5, <1>6, <1>7 DEF Next

(***************************************************************************)
(* For every even size without padding: when the copy is done, the window  *)
(* holds the camera's picture (Yvyu2Yuv420, drawPreviewSurface).           *)
(***************************************************************************)
THEOREM PictureCorrect == Spec => []ShowsPicture
<1>1. Spec => []PictureInv
  BY PictureInit, PictureNext, PTL DEF Spec
<1>2. PictureInv => ShowsPicture
  BY DEF PictureInv
<1> QED
  BY <1>1, <1>2, PTL

=============================================================================
