SPECIFICATION Spec
CONSTANTS
  UserClient = {u1, u2}
  Caller = {}
  None = none
PROPERTIES
  RegistersAlone
CHECK_DEADLOCK FALSE
