SPECIFICATION Spec
CONSTANTS
  Apps = {a1}
  Caps = {t1}
  Clients = {p, q, e}
  Encoders = {e}
  Null = null
  Invalid = invalid
  ClientBound = 2
  LeakBound = 0
CHECK_DEADLOCK FALSE
INVARIANTS LockGivenBack NotificationSeesOneList AttachedIsRegistered RegisteredIsAttached
PROPERTY NotificationOutcome
