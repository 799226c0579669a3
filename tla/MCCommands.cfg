SPECIFICATION Spec
CONSTANTS
  Requests = {r1, r2, r3}
  Keys = {k1, k2}
  Identities = {i1, i2}
  Retention = 2
  PruneLimit = 1
  None = None
  MaxTime = 4
  MaxFaults = 1
  MaxRestarts = 1
SYMMETRY Symmetry
CHECK_DEADLOCK FALSE
INVARIANTS TypeOK OncePerWindow RepeatsAreServed
PROPERTIES KeepsMemoryContract
