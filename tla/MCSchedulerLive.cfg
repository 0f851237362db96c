SPECIFICATION SchedulerSpec
CONSTANTS
  Processors = {p1, p2}
  NumRoutines = 1
  MAX_PRIO = 2
  Size = 1
  MaxMsgs = 3
  Callers = {"t"}
  Names = {"a", "b"}
  MaxCoroutines = 2
  MaxPooled = 1
  MaxRemoves = 1
  CtxProcessors = {"p", "q"}
  CtxRoutines = {"s", "f"}
  CtxBody <- MCBodyOf
  NoRoutine = "nothing"
  Words = 12
  MaxNow = 3
INVARIANTS SwapsIntact
PROPERTIES AnnouncedIsHandled RemoveReturns ClearReturns
CHECK_DEADLOCK FALSE
