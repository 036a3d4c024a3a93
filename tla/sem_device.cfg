\* Semaphores on the STM32F303: four tasks of two priorities, two semaphores.
SPECIFICATION FairSpec
CONSTANTS
  NVIC_PRIO_BITS = 4
  t1 = t1
  t2 = t2
  t3 = t3
  t4 = t4
  Idle = Idle
  NoTask = NoTask
  Tasks = {t1, t2, t3, t4}
  Priority <- PriorityTwoLevels
  MAX_NUM_TASKS = 4
  MAX_PRIORITY = 4
  Calls = {"wait", "post"}
  MAX_NUM_TIMERS = 1
  UINT32_MODULUS = 8
  Delays = {}
  Semaphores = {1, 2}
  SEM_MAX = 2
  InitialCounts = {0, 1}
  Queues = {}
  NoQueue = NoQueue
  Messages = {}
  NoMessage = NoMessage
  QueueLengths = {}
  SlotSizes = {}
  Timeouts <- NoTimeout
  BlockedLists <- AllLists
INVARIANTS
  WaitersOrdered
  NoIdleTokens
  RunsHighest
  OneRunning
  PreemptedKeepsHead
  NoTaskLost
PROPERTIES
  TokenSpec
  NoOvertaking
  HighestGetsCPU
