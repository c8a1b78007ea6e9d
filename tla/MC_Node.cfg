SPECIFICATION FairNode
CONSTANTS
  s1 = s1  s2 = s2  w1 = w1  w2 = w2  c1 = c1
  Services = {s1, s2}
  Boot = s1
  Workers = {w1}
  Clients = {c1}
  Weight <- MCWeight
  MaxLen = 1
  NoOne = NoOne
  k1 = k1  k2 = k2
  Crew = {k1, k2}
  MaxReady = 2
  MaxTotal = 1
  Unlocked = Unlocked
INVARIANT SleepExact
PROPERTIES Served Reclaimed Woken Returns
