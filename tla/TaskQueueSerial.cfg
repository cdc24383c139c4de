CONSTANTS
  t1 = t1
  t2 = t2
  t3 = t3
  Tasks = {t1, t2, t3}
  OffThread = {}
  DataTasks = {t1, t2}
  Latency = latency
  TaskMgmt = taskMgmt
  ZeroTag = zeroTag
  QHead = qhead
  NoTask = noTask
  Faults = {"slowTarget", "lostConnection", "emptyDataIn"}
  Window = 2
  MaxUses = 2
  MaxTaskMgmt = 0
SPECIFICATION FairSpec
INVARIANTS InFlightIsHead NoLostWakeup TaskStaysQueued
PROPERTIES PopsOwnTask StatusIsOwn DeactivateRejectsAll EveryTaskReturns DeliversInOrder
CHECK_DEADLOCK FALSE
