SPECIFICATION BaseSpec
CONSTANTS
  Workers = {w1, w2}
  Tasks = {t1, t2, t3}
  max_task_num = 2
  Strategies = {"Block", "Sleep", "Timeout"}
  None = None
  Threads = {r1, r2, r3}
  Users = {u1, u2}
  capacity = 3
  Nullptr = Nullptr
  MaxExchanges = 5
  Producers = {p1, p2}
  Addresses = {1, 2, 3}
  Nil = Nil
  MaxCalls = 3
  Callers = {c1, c2}
  Keys = {1, 2}
  NoEntry = NoEntry
  MaxEntries = 5
  MaxValues = 7
  Hash <- MCHash
  MaxRegistryCalls = 2
INVARIANTS LookupsAreSafe
CHECK_DEADLOCK FALSE
