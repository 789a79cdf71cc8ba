SPECIFICATION Spec
CONSTANTS
  Socket = {s1}
  Thread = {t1, t2, t3}
  NoThread = NoThread
  HeldInCallbacks = TRUE
INVARIANTS
  CirclesNeedTheSocketLock
CHECK_DEADLOCK FALSE
