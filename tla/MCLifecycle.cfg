CONSTANTS
  first = i1
  second = i2
  Ids = {i1, i2}
  NoId = NoId
  Lists <- NoneOrBoth
  Events = {e1, e2}
  NoEvent = NoEvent
  Dispatchers = {d1, d2}
  Groups = 1
  EventCap = 1
  NotifyCap = 1
  MsgLimit = 1
  MaxCommands = 1
  MaxPanics = 1
SPECIFICATION FairSpec
INVARIANTS TypeOK NothingAfterClose NotifiedOnce
PROPERTIES EveryIdIsPolled StopReturns
CHECK_DEADLOCK FALSE
