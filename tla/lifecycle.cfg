SPECIFICATION FairSpec
CONSTANTS
  Address = {a1}
  Caller = {r1}
  Deliverer = {d1}
  InjectionThread = injection
  None = None
  MaxObjects = 2
  MaxPending = 1
INVARIANTS
  TypeOK
  RetainCountExact
  NoUseAfterFree
  FreedWithNothingLeft
  NoPacketOutlivesDetach
  OneObjectPerSocket
  ResponseForItsSocket
PROPERTIES
  FreedForEver
  DetachedIsFreed
CHECK_DEADLOCK FALSE
