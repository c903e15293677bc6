SPECIFICATION OpeningSpec
CONSTANTS
  Apps = {a1}
  Threads = {t1, t2}
  Fds = {1, 2}
  BUFFER_NR = 3
  Granted = {1, 2, 3, 4, 5}
  MappingPinsFile = FALSE
INVARIANTS OverrunNeedsGrant SessionHasItsBuffers
PROPERTIES  StartReturns
