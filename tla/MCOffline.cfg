CONSTANTS
  m1 = m1
  m2 = m2
  Messages = {m1, m2}
  Size <- MCSize
  Callbacks = {w1, w2}
  QueueMax = 2
SPECIFICATION FairSpec
INVARIANTS TypeOK InOnePlace AnswersMatchTheWire
PROPERTIES OnlyAFlushGivesUp DrainsWhenWatched
CHECK_DEADLOCK FALSE
