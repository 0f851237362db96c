SPECIFICATION TransportSpec
CONSTANTS
  Notifiers = {n1, n2}
  Listeners = {d1}
  KBufLength = 2
  MaxSeq = 5
  MaxCrashes = 1
  Processes = {p1, p2}
  MessageSizes = {16, 40000}
  Indexes = {8, 512}
  MaxSegments = 3
  MaxAcquires = 2
  MaxFaults = 1
  Pollers = {l1, l2}
  MaxFiles = 3
  Senders = {"s", "t"}
  MaximumReservedCaches = 2
  OlderChanges = 1
  MaxSent = 4
  Callers = {c1, c2}
  Opposites = {o1}
  All = All
  Foreign = Foreign
  Nothing = Nothing
  MaxEnables = 3
INVARIANTS InfoNotOlder SegmentExact SocketsClosed ReportedIsKept ListenersServed
PROPERTIES SkipsOnlyWhenLapped
SYMMETRY Symmetry
CHECK_DEADLOCK FALSE
