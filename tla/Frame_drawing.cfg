SPECIFICATION MCSpec
CONSTANTS
  Widths = {1, 2, 3, 4, 5, 6, 8}
  Heights = {1, 2, 3, 4, 6}
  WindowSizes = {1, 2, 3, 4, 5, 6}
  Frames <- DriverFrames
  Align = 2
  Delivered <- FrameBytes
INVARIANTS
  FrameTypeOK FaultNeedsMismatch ShowsPicture
  OverreadNeedsSmallFrame PixelsInPlace RedAndBlueAccurate GreenOffByColour
  OverreadNeedsOddMargin ShowsCentre
  WindowsAgree
