SPECIFICATION Spec
CONSTANTS
  Apps = {a1}
  Threads = {t1, t2}
  Fds = {1, 2, 3}
  BUFFER_NR = 3
  MappingPinsFile = FALSE
INVARIANTS FaultNeedsMisuse NoLostDescriptor AllQueuedWhenPolling SingleCapturer
PROPERTIES NoSilentEnd StopEndsSession
