SPECIFICATION FairSpec
CONSTANTS
  BuffersNumber = 2
  FltDataThread = {f1}
  DeliverThread = {d1}
  ClientThread = {c1}
  MaxParts = 2
  Client = client
INVARIANTS
  TypeOK
  SharedOnlyAfterFault
  LostOnlyAfterFault
PROPERTIES
  ImplementsSocketBuffersUntilFault
  ReportReturns
CONSTRAINT UntilFault
