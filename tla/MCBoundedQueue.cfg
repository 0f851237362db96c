SPECIFICATION FairSpec
CONSTANTS
  Producers = {p1, p2}
  Consumers = {c1, c2}
  Elements = {e1}
  Default = Default
  Torn = Torn
  Size = 2
  MaxCalls = 4
INVARIANTS SlotOwnership
PROPERTIES Linearizable RefusedMeansFullOrStale CallsReturn
