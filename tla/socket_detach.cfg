SPECIFICATION Spec
CONSTANTS
  Socket = {s1}
  ClientThread = {c1}
  InjectionThread = inj
  None = none
  MaxData = 2
  MaxEvents = 0
  SocketEvents <- DetachOnly
INVARIANTS
  TypeOK
  UnreportedAtTail
  ReportingCountExact
  ReportNeverForgotten
  SleeperHasItsPacket
  PendingCountersExact
  QuietAfterDetach
PROPERTIES
  InjectedWithPermission
  InjectionInOrder
  ReportedInOrder
CHECK_DEADLOCK FALSE
