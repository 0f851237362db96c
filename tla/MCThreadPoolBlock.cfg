SPECIFICATION Spec
CONSTANTS
  Workers = {w1, w2}
  Tasks = {t1, t2, t3}
  max_task_num = 2
  Strategies = {"Block"}
  None = None
PROPERTIES BlockedTaskRuns
CHECK_DEADLOCK FALSE
