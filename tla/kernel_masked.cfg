\* Every call, on a device with eight priority bits, where the mask works.
\* The kernel may stop: nothing is modelled behind an access outside its object.
SPECIFICATION Spec
CONSTANTS
  NVIC_PRIO_BITS = 8
  t1 = t1
  t2 = t2
  t3 = t3
  t4 = t4
  Idle = Idle
  NoTask = NoTask
  Tasks = {t1, t3}
  Priority <- PriorityTwoLevels
  MAX_NUM_TASKS = 4
  MAX_PRIORITY = 4
  Calls = {"create", "yield", "yield_other", "delay", "post", "wait", "send", "receive"}
  MAX_NUM_TIMERS = 2
  UINT32_MODULUS = 3
  Delays = {0, 1, 2}
  Semaphores = {1}
  SEM_MAX = 1
  InitialCounts = {0, 1}
  Queues = {1}
  NoQueue = NoQueue
  Messages = {NoMessage}
  NoMessage = NoMessage
  QueueLengths = {1, 2}
  SlotSizes = {2}
  Timeouts <- AnyTimeout
  BlockedLists <- AllLists
CHECK_DEADLOCK FALSE
INVARIANTS
  TypeOK
  ReadyBitmapExact
  LinkedOnce
  BlockedIsLinked
PROPERTIES
  RemainingKept
