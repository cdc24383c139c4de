CONSTANTS
  t1 = t1
  t2 = t2
  t3 = t3
  Tasks = {t1, t2}
  OffThread = {t1}
  DataTasks = {t1, t2}
  Latency = latency
  TaskMgmt = taskMgmt
  ZeroTag = t2
  QHead = qhead
  NoTask = noTask
  Faults = {"slowTarget", "earlyReuse", "lostConnection", "taskMgmt"}
  Window = 2
  MaxUses = 2
  MaxTaskMgmt = 1
SPECIFICATION FairSpec
PROPERTIES StartedTaskReturns
CHECK_DEADLOCK FALSE
