SPECIFICATION Spec
CONSTANTS
  Socket = {s1}
  Thread = {t1, t2}
  NoThread = NoThread
  HeldInCallbacks = TRUE
INVARIANTS
  NoCircularWait
CHECK_DEADLOCK FALSE
