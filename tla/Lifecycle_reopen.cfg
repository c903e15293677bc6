SPECIFICATION Spec
CONSTANTS
  Apps = {a1}
  Threads = {t1}
  Fds = {1, 2}
  BUFFER_NR = 4
  MappingPinsFile = TRUE
INVARIANT ErrorFreesDevice
