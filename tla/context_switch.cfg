\* Two tasks and the idle task, switched at any time to any task.
SPECIFICATION Spec
CONSTANTS
  t1 = t1
  t2 = t2
  Idle = Idle
  NoTask = NoTask
  Tasks = {t1, t2, Idle}
  stack_addr <- StackAddr
  stack_size <- StackSize
  Generations <- Values
INVARIANTS
  SavesInOwnStack
PROPERTIES
  ContextSpec
