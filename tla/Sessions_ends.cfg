SPECIFICATION LiveSpec
CONSTANTS
  Tabs = {t1, t2}
  None = None
  History = 1
  MaxSessions = 1
  MaxRefresh = 2
  MaxEpoch = 1
  MaxLost = 1
  MaxOthers = 0
  MaxEvents = 1
CHECK_DEADLOCK FALSE
PROPERTIES DeadTabEnds
