CONSTANTS
  Notifies = {n1}
  Replays = {q1, q2}
  Retries = {t1}
  MaxSegments = 2
  Outcomes = {"acknowledged", "nothing", "rejected"}
  MaxTrouble = 2
SPECIFICATION Spec
SYMMETRY ReplaySymmetry
INVARIANTS TypeOK NothingInvented ResultsReachTheirRow RetriesFollowFailures ReplayOnce
PROPERTIES TerminalStays
CHECK_DEADLOCK FALSE
