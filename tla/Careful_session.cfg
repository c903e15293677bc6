SPECIFICATION CarefulSpec
CONSTANTS
  Apps = {a1, a2}
  Threads = {t1, t2}
  Fds = {1, 2}
  BUFFER_NR = 3
  MappingPinsFile = FALSE
PROPERTY ImplementsSession
