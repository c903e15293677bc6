SPECIFICATION Spec
CONSTANTS
  Apps = {a1, a2}
  Caps = {t1}
  Clients = {e}
  Encoders = {e}
  Null = null
  Invalid = invalid
  ClientBound = 1
  LeakBound = 0
CHECK_DEADLOCK FALSE
PROPERTY CallsReturn
