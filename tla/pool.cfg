SPECIFICATION Spec
CONSTANTS
  w1 = w1
  w2 = w2
  c1 = c1
  c2 = c2
  k1 = k1
  k2 = k2
  k3 = k3
  Worker <- MCWorkers
  Client <- MCClients
  Task <- MCTasks
  Owner = c1
  QueueSize = 2
  NoThread = NoThread
  NoTask = NoTask
INVARIANTS TypeOK MutexHeld UnlocksNobody FifoOnce NoLostWakeup FreedLast
PROPERTIES Implements AcceptedIsRun DestroyReturns
CHECK_DEADLOCK FALSE
