CONSTANTS
  t1 = t1
  t2 = t2
  t3 = t3
  Tasks = {t1, t2}
  OffThread = {t1}
  DataTasks = {}
  Latency = latency
  TaskMgmt = taskMgmt
  ZeroTag = zeroTag
  QHead = qhead
  NoTask = noTask
  Faults = {}
  Window = 1
  MaxUses = 1
  MaxTaskMgmt = 0
SPECIFICATION Spec
INVARIANTS NoLostWakeup
CHECK_DEADLOCK FALSE
