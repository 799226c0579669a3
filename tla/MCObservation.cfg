CONSTANTS
  first = e1
  second = e2
  last = n3
  Events = {e1, e2}
  Notifies = {n1, n3}
  EventOf <- LastOfSecond
  None = None
  Addresses = {a1, a2}
  QueueSize = 2
  ShadowSize = 1
  Workers = {w1}
  MaxTroubles = 1
SPECIFICATION FairSpec
INVARIANTS TypeOK FactsAreAccounted ChainsAreTrue
PROPERTIES FactsAreSettled
CHECK_DEADLOCK FALSE
