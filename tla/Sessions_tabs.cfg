SPECIFICATION Spec
CONSTANTS
  Tabs = {t1, t2}
  None = None
  History = 1
  MaxSessions = 2
  MaxRefresh = 1
  MaxEpoch = 1
  MaxLost = 1
  MaxOthers = 1
  MaxEvents = 0
CHECK_DEADLOCK FALSE
SYMMETRY TabSymmetry
INVARIANTS TypeOK NoFalseAlarm TokenKept NoZombieTab EpochEndsAccess
PROPERTIES NoResurrection
