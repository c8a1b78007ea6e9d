SPECIFICATION Tables
CONSTANTS
  c1 = c1  c2 = c2  c3 = c3  t1 = t1  t2 = t2
  Contexts = {c1, c2, c3}
  Threads = {t1, t2}
  Launchers = {t1}
  SlotSize = 2
  Mask = 3
  MaxIndex = 4
  Names = {1, 2}
  NULL = NULL
  co1 = co1  co2 = co2  co3 = co3  s1 = s1
  Cos = {co1, co2, co3}
  Services = {s1}
  MaxSession = 3
  MaxDepth = 2
  NoCo = NoCo
SYMMETRY Blocks
INVARIANTS GrabFinds RetireAllComplete QueueExclusive WaitersKept StrandedOnlyByErrors
PROPERTIES FreshHandles NamesExact
