SPECIFICATION FairChannelSpec
CONSTANTS
  Writers = {w1, w2}
  Readers = {d1}
  BlockNum = 2
  KMaxTryLockTimes = 1
  KBufLength = 2
  MaxDraws = 3
  MaxCrashes = 1
INVARIANTS NoTornRead DeliversAnnouncedOrNewer
PROPERTIES AnnouncementsTaken
CHECK_DEADLOCK FALSE
