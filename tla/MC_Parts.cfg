SPECIFICATION FairOneOf
CONSTANTS
  m1 = m1  m2 = m2
  Message = {m1, m2}
  NoMessage = NoMessage
  DefaultSize = 2
  Overload = 1
  MaxLength = 4
  t1 = t1  t2 = t2  t3 = t3
  Threads = {t1, t2, t3}
  d1 = d1  d2 = d2
  Timers = {d1, d2}
  NearBits = 1
  LevelBits = 1
  Levels = 4
  MaxDiff = 2
  v1 = v1
  PoolKeys = {1, 2, 3, 5}
  PoolValues = {v1}
  Blank = Blank
  BucketNum = 2
  MaxNode = 3
  HarborIds = {1, 2}
  Self = 1
  x1 = x1  x2 = x2
  Names = {x1, x2}
  Inbound <- MCInbound
  MaxFrame = 6
  MaxSends = 2
  MaxPiece = 12
INVARIANTS Exclusion NoneForgotten OrderKept FramesWhole
PROPERTIES IsFifo AlertsGrow WriterEnters KeepsPromise Fires IsMap
