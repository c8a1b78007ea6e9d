SPECIFICATION Spec
CONSTANTS
  s1 = s1  s2 = s2   w1 = w1  w2 = w2  c1 = c1
  Services = {s1, s2}
  Boot = s1
  Workers = {w1, w2}
  Clients = {c1}
  Weight <- SameWeight
  MaxLen = 1
  NoOne = NoOne
INVARIANTS
  TypeOK ScheduledOnce FlagMeansPlaced NoLostWakeup OneDispatcher
  RefCountExact ContextSafe MailboxSafe CodeAssertions AbortMeansEmpty
PROPERTY ImplementsActors
SYMMETRY Alike
