SPECIFICATION NodeSpec
CONSTANTS
  Size = 2
  MaxMsgs = 7
  Pieces <- MCPieces
  MaxPieces = 4
  MaxUnsigned = 255
  MaxInteger = 127
  MaxExponent = 3
  Values <- MCValues
  Inputs <- MCInputs
  NoSubtype = NoSubtype
  Types <- MCTypes
  Sizes = {0, 2}
  MaxWrites = 2
  MaxRestarts = 2
  Data = {0, 1, 2, 3}
  Undefined = Undefined
  ClockWord = 64
  Cycles = {2, 3}
  MaxNow = 7
  MaxJumps = 2
  Loggers = {k1, k2}
  Levels = {0, 1}
  log_level = 1
  max_filestr = 1
  MaxLines = 2
  MaxSecond = 3
  Threads = {t1, t2}
  Contents <- MCContents
  Hosts <- MCHosts
  Groups = {"grp"}
  Word = 16
  Unset = Unset
  Absent = Absent
  BadFile = BadFile
  Nothing = Nothing
  Others = 2
  MaxFirst = 4
  MaxOther = 2
  Publishers = {p1}
  CallbackIds = {i1}
  Capacities = {0, 1}
  DefaultCapacity = 2
  MaxPublished = 2
  MaxBlockers = 2
  Callers = {a1, a2}
  NodeObjects = {m, n}
  Channels = {c}
  Remote = {w}
  Routine <- MCRoutine
  NameProcesses = {"q1", "q2"}
  JoinTimes = {1, 2, 3}
  HomeOf <- MCHomeOf
  Peers = {"p", "q"}
  PeerRoles <- MCPeerRoles
  MaxReports = 3
  FlowRoles <- MCFlowRoles
INVARIANTS WrittenReadsBack TextIsParsed LinesKept SchedulerConfigured BlockersOrderly SubscribersServed FlowExact
PROPERTIES FetchesInOrder FusionMovesForward KeepsThePace PeersTracked
CHECK_DEADLOCK FALSE
