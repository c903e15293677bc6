SPECIFICATION Spec
CONSTANTS
  Apps = {a1, a2}
  Threads = {t1}
  Fds = {1, 2}
  BUFFER_NR = 2
  MappingPinsFile = TRUE
SYMMETRY ThreadSymmetry
INVARIANT IInv
