SPECIFICATION Spec
CONSTANTS
  w1 = w1  w2 = w2
  Workers = {w1}
  MaxSocket = 2
  Size = 2
  Purpose <- MCPurpose
  MaxId = 3
  MaxSend = 2
  MaxPipe = 1
INVARIANT CodeAssertions
CHECK_DEADLOCK FALSE
