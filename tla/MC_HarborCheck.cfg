SPECIFICATION HarborSpec
CONSTANTS
  HarborIds = {1, 2}
  Self = 1
  x1 = x1  x2 = x2
  Names = {x1, x2}
  Inbound <- MCInbound
  MaxFrame = 6
  MaxSends = 3
  MaxPiece = 12
INVARIANT QueueAfterCheck
CHECK_DEADLOCK FALSE
