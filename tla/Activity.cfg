\* Every order of callbacks, frames, errors and deaths, on a device that a
\* close gives back.
SPECIFICATION Spec
CONSTANTS
  MaxActivity = 2
  MaxSurface = 3
  Slots = 1
  MappingPinsFile = FALSE
INVARIANTS TypeOK   MixedNeedsReopen
PROPERTIES  RecordingReachesFile
\* The last activity of the bound may have died.
CHECK_DEADLOCK FALSE
