\* A yield with no other task of the priority, next to semaphores.
SPECIFICATION Spec
CONSTANTS
  NVIC_PRIO_BITS = 4
  t1 = t1
  t2 = t2
  t3 = t3
  t4 = t4
  Idle = Idle
  NoTask = NoTask
  Tasks = {t1, t3}
  Priority <- PriorityTwoLevels
  MAX_NUM_TASKS = 4
  MAX_PRIORITY = 4
  Calls = {"yield", "wait", "post"}
  MAX_NUM_TIMERS = 1
  UINT32_MODULUS = 8
  Delays = {}
  Semaphores = {1}
  SEM_MAX = 1
  InitialCounts = {0, 1}
  Queues = {}
  NoQueue = NoQueue
  Messages = {}
  NoMessage = NoMessage
  QueueLengths = {}
  SlotSizes = {}
  Timeouts <- NoTimeout
  BlockedLists <- AllLists
INVARIANTS
  OneRunning
