\* One connection and a message of three units, which may go out in three parts.
\* Nothing fails and the queue has room for all that one connection pushes.
CONSTANTS
  Fd = {f1}
  SqEntries = 2
  AcceptDepth = 1
  MaxLen = 3
  CallErrors = {}
  RequestErrors = FALSE
SPECIFICATION Spec
INVARIANTS EchoIsComplete
