\* A delay on the STM32F303, where writing 14 to BASEPRI masks nothing.
SPECIFICATION Spec
CONSTANTS
  NVIC_PRIO_BITS = 4
  t1 = t1
  t2 = t2
  t3 = t3
  t4 = t4
  Idle = Idle
  NoTask = NoTask
  Tasks = {t1, t3}
  Priority <- PriorityTwoLevels
  MAX_NUM_TASKS = 4
  MAX_PRIORITY = 4
  Calls = {"delay"}
  MAX_NUM_TIMERS = 2
  UINT32_MODULUS = 4
  Delays = {1, 2}
  Semaphores = {}
  SEM_MAX = 1
  InitialCounts = {0, 1}
  Queues = {}
  NoQueue = NoQueue
  Messages = {}
  NoMessage = NoMessage
  QueueLengths = {}
  SlotSizes = {}
  Timeouts <- NoTimeout
  BlockedLists <- AllLists
INVARIANTS
  BlockedIsLinked
