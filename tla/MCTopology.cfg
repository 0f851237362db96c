SPECIFICATION FairSpec
CONSTANTS
  Processes = {q1, q2}
  Publishers = {{q1, 1}}
  Subscribers = {{q1, 2}, {q2, 3}}
  MaxFaults = 1
  None = None
INVARIANTS CountsReaders
PROPERTIES DiscoveryConverges
CHECK_DEADLOCK FALSE
