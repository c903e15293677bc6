----------------------------- MODULE FrameSizes ------------------------------
(***************************************************************************)
(* The size of the pictures that the application asks for: every copy of a *)
(* frame in Camera.cpp goes by mWidth and mHeight, whatever the driver     *)
(* granted.  They are set by the constructor and never change.             *)
(***************************************************************************)
EXTENDS Integers

CONSTANTS Widths, Heights

ASSUME SizesAssumption == Widths \subseteq Nat \ {0} /\ Heights \subseteq Nat \ {0}

VARIABLES mWidth, mHeight

=============================================================================
