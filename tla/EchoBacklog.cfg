CONSTANTS
  Fd = {f1, f2, f3}
  SqEntries = 2
  AcceptDepth = 2
  MaxLen = 1
  CallErrors = {}
  RequestErrors = FALSE
SPECIFICATION Spec
INVARIANTS BacklogIsHandedOver
