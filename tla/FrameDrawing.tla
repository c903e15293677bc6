---------------------------- MODULE FrameDrawing -----------------------------
(***************************************************************************)
(* One frame of the capture thread: drawPreviewSurface, if a preview       *)
(* window is set, and then drawEncoderSurface, if there is an encoder      *)
(* window, show the bytes of one camera buffer.  Its first part makes all  *)
(* pixels (ColorConversion), its second copies them (CenterCopy).          *)
(*                                                                         *)
(* An access outside a buffer is where the model stops.                    *)
(***************************************************************************)
EXTENDS PreviewFrame, ColorConversion, CenterCopy

VARIABLE windows   \* which kinds of windows there are

frameVars == <<windows, vars, colorVars, cutVars>>

Kinds == {"preview", "encoder"}

-----------------------------------------------------------------------------
(***************************************************************************)
(* Slips one could make in this code.  No action uses them.                *)
(***************************************************************************)

\* The encoders get the frame before it is converted to the end.
EncoderReadyEarly == line > 0

-----------------------------------------------------------------------------
\* The buffer that has been dequeued is a frame of the granted size.
FrameInit ==
  /\ windows \in SUBSET Kinds
  /\ Init
  /\ ColorInit
  /\ DOMAIN yvyu = 0 .. SourceSize - 1
  /\ CutInit

PreviewDrawn == "preview" \in windows => pc = "done"

DrawPreview ==
  /\ ~PreviewDrawn
  /\ BeginSpread \/ Spread \/ NextRow \/ EndSpread \/ CopyToWindow
  /\ UNCHANGED <<windows, colorVars, cutVars>>

ConvertFrame ==
  /\ PreviewDrawn /\ "encoder" \in windows
  /\ Convert \/ NextLine
  /\ UNCHANGED <<windows, vars, cutVars>>

EncoderReady == ~LinesLeft

DrawEncoder ==
  /\ PreviewDrawn /\ "encoder" \in windows /\ EncoderReady
  /\ CopyWhole \/ Refuse \/ BeginRows \/ CopyRow \/ EndRows
  /\ UNCHANGED <<windows, vars, colorVars>>

NoFault == fault = "none" /\ colorFault = "none" /\ cutFault = "none"

FrameDrawn == PreviewDrawn /\ ("encoder" \in windows => cutPc = "done")

FrameNext ==
  \/ NoFault /\ (DrawPreview \/ ConvertFrame \/ DrawEncoder)
  \/ (FrameDrawn \/ ~NoFault) /\ UNCHANGED frameVars

FrameSpec == FrameInit /\ [][FrameNext]_frameVars

-----------------------------------------------------------------------------
(***************************************************************************)
(* Every variable of the three keeps its type: only bytes and pixels of    *)
(* the frame get into the windows, and nothing but bytes is a colour       *)
(* (drawPreviewSurface, drawEncoderSurface).                               *)
(***************************************************************************)
FrameTypeOK == windows \subseteq Kinds /\ TypeOK /\ ColorTypeOK /\ CutTypeOK

(***************************************************************************)
(* Preview and encoder show the same picture: in the middle of the even    *)
(* rows, whose chroma the preview keeps, a pixel of the encoder window is  *)
(* made of the luma, the Cb and the Cr that the preview window has at the  *)
(* same point.  Two conversions, written apart and with other names for    *)
(* the chroma bytes, and two copies must agree (drawPreviewSurface,        *)
(* drawEncoderSurface).                                                    *)
(***************************************************************************)
WindowsAgree ==
  /\ FrameDrawn /\ NoFault /\ windows = Kinds
  /\ Asked /\ EvenSize /\ Unpadded
  /\ ~TooSmall /\ EvenMargin /\ bufferStride = dest_w
  => \A x \in 0 .. dest_w - 1, y \in 0 .. dest_h - 1 :
       LET px == horizontal_margin + x
           py == vertical_margin + y
       IN  py % 2 = 0 =>
             rgbData[bits[y * bufferStride + x]] =
               Pixel(yvyu[dst[LumaAt(px, py)]], Centred(yvyu[dst[CbAt(px, py)]]),
                     Centred(yvyu[dst[CrAt(px, py)]]))

=============================================================================
