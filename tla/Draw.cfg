SPECIFICATION Spec
CONSTANTS
  Callers = {c1}
  Windows = {w1, w2}
  NoWindow = none
  Drained = {w1}
  Slots = 1
  ListBound = 2
INVARIANTS TypeOK FaultNeedsRace PreviewDrawsCurrent
PROPERTIES EncodersFixedWhileDrawn CallsReturn FramesGoOn
