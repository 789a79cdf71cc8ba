SPECIFICATION Spec
CONSTANTS
  Socket = {s1}
  ClientThread = {c1}
  InjectionThread = inj
  None = none
  MaxData = 1
  MaxEvents = 0
  SocketEvents <- DetachOnly
PROPERTIES
  ResponseFindsItsPacket
CHECK_DEADLOCK FALSE
