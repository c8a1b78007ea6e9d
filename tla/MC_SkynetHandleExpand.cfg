SPECIFICATION Spec
CONSTANTS
  c1 = c1  c2 = c2  c3 = c3  t1 = t1  t2 = t2
  Contexts = {c1, c2, c3}
  Threads = {t1, t2}
  Launchers = {t1, t2}
  SlotSize = 2
  Mask = 7
  MaxIndex = 8
  Names = {}
  NULL = NULL
INVARIANT RegisterAssertions
