SPECIFICATION Spec
CONSTANTS
  Widths = {16}
  Heights = {2}
  Frames = {}
  Align = 16
INVARIANT WindowIsYV12
