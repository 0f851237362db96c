SPECIFICATION ChannelSpec
CONSTANTS
  Writers = {w1}
  Readers = {d1}
  BlockNum = 2
  KMaxTryLockTimes = 5
  KBufLength = 4
  MaxDraws = 4
  MaxCrashes = 0
INVARIANTS DispatcherSurvives
CHECK_DEADLOCK FALSE
