SPECIFICATION Spec
CONSTANTS
  Processes = {q1, q2}
  Publishers = {{q1, 1}}
  Subscribers = {{q1, 2}, {q2, 3}}
  MaxFaults = 0
  None = None
INVARIANTS MatchedCanTransmit
CHECK_DEADLOCK FALSE
