\* A queue on the STM32F303: three tasks of two priorities send and receive.
SPECIFICATION FairSpec
CONSTANTS
  NVIC_PRIO_BITS = 4
  t1 = t1
  t2 = t2
  t3 = t3
  t4 = t4
  Idle = Idle
  NoTask = NoTask
  Tasks = {t1, t2, t3}
  Priority <- PriorityTwoLevels
  MAX_NUM_TASKS = 4
  MAX_PRIORITY = 4
  Calls = {"create", "send", "receive"}
  MAX_NUM_TIMERS = 1
  UINT32_MODULUS = 8
  Delays = {}
  Semaphores = {}
  SEM_MAX = 1
  InitialCounts = {0, 1}
  Queues = {1}
  NoQueue = NoQueue
  Messages = {"a", "b"}
  NoMessage = NoMessage
  QueueLengths = {1, 2, 3}
  SlotSizes = {1}
  Timeouts <- ZeroOrForever
  BlockedLists <- AllLists
INVARIANTS
  RingExact
  NoIdleWaiters
  WaitersDoNotRun
PROPERTIES
  FifoSpec
  NoOvertaking
  CallsEnd
