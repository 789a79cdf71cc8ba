SPECIFICATION FairSpec
CONSTANTS
  Socket = {s1}
  ClientThread = {c1}
  InjectionThread = inj
  None = none
  MaxData = 1
  MaxEvents = 1
  SocketEvents <- AllEvents
INVARIANTS
  WindowRestored
PROPERTIES
  SenderWakesUp
  QueueDrains
  EventReturns
CHECK_DEADLOCK FALSE
