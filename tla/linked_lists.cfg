\* The pointers of four tasks and three timers.
SPECIFICATION Spec
CONSTANTS
  t1 = t1
  t2 = t2
  t3 = t3
  t4 = t4
  NULL = NULL
  Tasks = {t1, t2, t3, t4}
  Priority <- Levels
  MAX_NUM_TASKS = 2
  BlockedLists = {"wait_list"}
  MAX_NUM_TIMERS = 3
  UINT32_MODULUS = 3
  Delays = {1, 2}
SYMMETRY EqualTasks
INVARIANTS
  DoublyLinked
PROPERTIES
  ListsAreSequences
