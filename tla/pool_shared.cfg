SPECIFICATION Spec
CONSTANTS
  BuffersNumber = 2
  FltDataThread = {f1, f2}
  DeliverThread = {}
  ClientThread = {c1}
  MaxParts = 1
  Client = client
INVARIANTS
  BufferNotShared
