CONSTANTS
  event = event
  Events <- OneEvent
  EventOf <- SameEvent
  Sends = {s1, s2}
  Jobs = {j1}
  Releases = {r1, r2}
  NoRelease = NoRelease
  FirstRelease = r1
  Policies = {p1, p2}
  FirstPolicy = p1
  Requests = {q1}
  NoTask = NoTask
  MaxConcurrency = 2
  QueueCapacity = 2
  MaxTrouble = 2
SPECIFICATION Spec
INVARIANTS TypeOK OneCall DropsAreFounded FlightsBalance
PROPERTIES FinalWord
SYMMETRY SendSymmetry
CHECK_DEADLOCK FALSE
