SPECIFICATION Spec
CONSTANTS
  Processors = {p1, p2}
  NumRoutines = 2
  MAX_PRIO = 1
  Size = 1
  MaxMsgs = 2
INVARIANTS OneProcessor RemovedIsGone
CHECK_DEADLOCK FALSE
