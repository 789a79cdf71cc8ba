SPECIFICATION FairSpec
CONSTANTS
  UserClient = {u1, u2, u3}
  Caller = {t1, t2}
  None = none
INVARIANTS
  TypeOK
  NoUseAfterRelease
  InvocationsExact
  PendingIsTemporary
PROPERTIES
  UnregisterReturns
CHECK_DEADLOCK FALSE
