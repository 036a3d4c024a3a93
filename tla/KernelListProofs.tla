-------------------------- MODULE KernelListProofs --------------------------
(***************************************************************************)
(* The lists of list.c and what is blocked in them: the ready bitmap says  *)
(* which ready lists have a task, the links of a task serve one list, no   *)
(* token is kept from a waiter, and the lists of blocked tasks are served  *)
(* by priority and, among equals, in the order of arrival.  With that the  *)
(* semaphores implement CountingSemaphore.                                 *)
(***************************************************************************)
EXTENDS KernelTypeProofs

(* Most steps touch no list and leave no task blocked that was not.        *)

QuietStep ==
  /\ UNCHANGED <<ready_list, ready_bitmap, blocked_list, task_list>>
  /\ \A t \in Tasks : task_state'[t] \in BlockedState => task_state[t] = task_state'[t]

\* create_semaphore of a new semaphore, create_queue of any queue.
ListsEmptied ==
  /\ UNCHANGED <<listVars, task_list>>
  /\ \/ \E s \in Semaphores :
          /\ s \notin sem_list
          /\ blocked_list' = [blocked_list EXCEPT ![WaitList(s)] = <<>>]
     \/ \E q \in Queues :
          /\ QueueCreator
          /\ blocked_list' = [blocked_list EXCEPT ![SendList(q)] = <<>>,
                                                  ![ReceiveList(q)] = <<>>]

LEMMA EmptiedLists ==
  ASSUME TypeInv, ListsEmptied
  PROVE  \A l \in BlockedLists : blocked_list'[l] = blocked_list[l] \/ blocked_list'[l] = <<>>
BY WaitListKnown, QueueListsKnown DEF ListsEmptied, TypeInv, CommTypeInv

LEMMA ScheduleQuiet ==
  ASSUME TypeInv, NEW t \in Tasks, Schedule(t), UNCHANGED blocked_list
  PROVE  QuietStep
<1> USE DEF QuietStep, listVars
<1>1. CASE \/ SchedIndex(t) \/ SchedLoad(t) \/ SchedStore(t) \/ SchedCheck(t)
           \/ SchedCurrent(t) \/ SchedMatch(t) \/ SchedSwitch(t)
  BY <1>1 DEF SchedIndex, SchedLoad, SchedStore, SchedCheck, SchedCurrent, SchedMatch,
              SchedSwitch
<1>2. CASE SchedPreempt(t)
  BY <1>2 DEF SchedPreempt, PreemptCurrent, BlockedState, WaitingState, TypeInv, ListTypeInv
<1>3. CASE SchedCommit(t)
  BY <1>3 DEF SchedCommit, BlockedState, WaitingState, TypeInv, ListTypeInv
<1> QED
  BY <1>1, <1>2, <1>3 DEF Schedule

\* schedule() blocks nobody.
LEMMA ScheduleNowBlocksNobody ==
  ASSUME NEW states \in [Tasks \cup {Idle} -> TaskState], NEW curr, ScheduleNow(states, curr)
  PROVE  \A t \in Tasks : task_state'[t] \in BlockedState => states[t] = task_state'[t]
<1> PICK u \in TaskPtr :
      IF ready_to_running(states, curr, u, u)
      THEN task_state' = [PreemptCurrent(states, curr) EXCEPT ![u] = "RUNNING"]
      ELSE task_state' = states
  BY DEF ScheduleNow
<1>1. \A t \in Tasks : PreemptCurrent(states, curr)[t] \in BlockedState
                         => states[t] = PreemptCurrent(states, curr)[t]
  BY DEF PreemptCurrent, BlockedState, WaitingState
<1>2. PreemptCurrent(states, curr) \in [Tasks \cup {Idle} -> TaskState]
  BY DEF PreemptCurrent, TaskState
<1> QED
  BY <1>1, <1>2 DEF BlockedState, WaitingState

LEMMA StartKernelQuiet ==
  ASSUME TypeInv, StartKernel, UNCHANGED blocked_list
  PROVE  QuietStep
<1> DEFINE states == [task_state EXCEPT ![Idle] = "RUNNING"]
<1>1. states \in [Tasks \cup {Idle} -> TaskState]
  BY DEF TypeInv, ListTypeInv, TaskState
<1>2. \A t \in Tasks : task_state'[t] \in BlockedState => states[t] = task_state'[t]
  BY <1>1, ScheduleNowBlocksNobody DEF StartKernel
<1>3. \A t \in Tasks : states[t] = task_state[t]
  BY TasksAssumption DEF TypeInv, ListTypeInv
<1> QED
  BY <1>2, <1>3 DEF QuietStep, StartKernel

\* A step that leaves the lists and the states alone.
LEMMA IdleListsQuiet ==
  ASSUME UNCHANGED <<task_state, ready_list, ready_bitmap, blocked_list, task_list>>
  PROVE  QuietStep
BY DEF QuietStep

\* The end of a send or a receive, with or without somebody to wake.
LEMMA NotifyLists ==
  ASSUME NEW t, NEW l \in BlockedLists, Notify(t, l)
  PROVE  \/ QuietStep
         \/ blocked_list[l] # <<>> /\ WakeHead(l) /\ UNCHANGED task_list
<1>1. CASE Awaited(l) /\ Wakeable(l)
  BY <1>1 DEF Notify, Awaited
<1>2. CASE ~(Awaited(l) /\ Wakeable(l))
  BY <1>2, IdleListsQuiet DEF Notify
<1> QED
  BY <1>1, <1>2

LEMMA ReturnFalseQuiet ==
  ASSUME NEW t, ReturnFalse(t)
  PROVE  QuietStep
BY IdleListsQuiet DEF ReturnFalse, listVars

\* A task waits in one of the lists.
Blocks ==
  \E t \in Tasks, l \in BlockedLists, state \in WaitingState :
    Executing(t) /\ BlockIn(t, l, state) /\ UNCHANGED task_list

\* A task is woken out of one of the lists.
Wakes ==
  \E l \in BlockedLists : blocked_list[l] # <<>> /\ WakeHead(l) /\ UNCHANGED task_list

LEMMA SemaphoreListSteps ==
  ASSUME SemaphoreStep
  PROVE  QuietStep \/ ListsEmptied \/ Blocks \/ Wakes
<1> USE DEF listVars, schedVars
<1>1. ASSUME NEW s \in Semaphores, NEW v \in InitialCounts, CreateSemaphore(s, v)
      PROVE  ListsEmptied
  BY <1>1 DEF CreateSemaphore, ListsEmptied
<1>2. ASSUME NEW s \in Semaphores, CreateSemaphoreRefused(s) PROVE QuietStep
  BY <1>2, IdleListsQuiet DEF CreateSemaphoreRefused
<1>3. ASSUME NEW t \in Tasks, NEW s \in Semaphores,
             PostCount(t, s) \/ PostRefused(t, s) \/ WaitTake(t, s) \/ WaitRefused(t, s)
      PROVE  QuietStep
  BY <1>3, IdleListsQuiet DEF PostCount, PostRefused, WaitTake, WaitRefused
<1>4. ASSUME NEW t \in Tasks, NEW s \in Semaphores, PostWake(t, s)
      PROVE  Wakes
  BY <1>4, WaitListKnown DEF PostWake, Wakes
<1>5. ASSUME NEW t \in Tasks, NEW s \in Semaphores, WaitBlock(t, s)
      PROVE  Blocks
  BY <1>5, WaitListKnown DEF WaitBlock, Calling, At, Blocks, WaitingState
<1> QED
  BY <1>1, <1>2, <1>3, <1>4, <1>5 DEF SemaphoreStep

LEMMA QueueListSteps ==
  ASSUME QueueStep
  PROVE  QuietStep \/ ListsEmptied \/ Blocks \/ Wakes
<1> USE DEF listVars, schedVars
<1>1. ASSUME NEW q \in Queues, NEW length \in QueueLengths, NEW size \in SlotSizes,
             CreateQueue(q, length, size)
      PROVE  ListsEmptied
  BY <1>1 DEF CreateQueue, ListsEmptied
<1>2. CASE CreateQueueFails
  BY <1>2, IdleListsQuiet DEF CreateQueueFails
<1>3. ASSUME NEW t \in Tasks, NEW q \in Queues, NEW d, Push(t, q, d)
      PROVE  QuietStep \/ Wakes
  BY <1>3, NotifyLists, QueueListsKnown DEF Push, Wakes
<1>4. ASSUME NEW t \in Tasks, NEW q \in Queues, Pop(t, q)
      PROVE  QuietStep \/ Wakes
  BY <1>4, NotifyLists, QueueListsKnown DEF Pop, Wakes
<1>5. ASSUME NEW t \in Tasks, NEW q \in Queues, NEW ms, NEW d, SendWait(t, q, d, ms)
      PROVE  Blocks
  BY <1>5, QueueListsKnown
  DEF SendWait, SendCall, Calling, At, WaitInQueue, Blocks, WaitingState
<1>6. ASSUME NEW t \in Tasks, NEW q \in Queues, NEW ms, ReceiveWait(t, q, ms)
      PROVE  Blocks
  BY <1>6, QueueListsKnown
  DEF ReceiveWait, ReceiveCall, Calling, At, WaitInQueue, Blocks, WaitingState
<1>7. ASSUME NEW t \in Tasks, NEW q \in Queues, NEW ms,
             SendRefused(t, q, ms) \/ ReceiveRefused(t, q, ms)
      PROVE  QuietStep
  BY <1>7, ReturnFalseQuiet DEF SendRefused, ReceiveRefused
<1>8. ASSUME NEW t \in Tasks, NEW q \in Queues, SendResume(t, q) \/ ReceiveResume(t, q)
      PROVE  QuietStep \/ Wakes
  BY <1>3, <1>4, <1>8, ReturnFalseQuiet DEF SendResume, ReceiveResume
<1>9. ASSUME NEW t \in Tasks, QueueArm(t) \/ QueueExit(t)
      PROVE  QuietStep
  BY <1>9, ReturnFalseQuiet, IdleListsQuiet DEF QueueArm, QueueExit
<1>10. ASSUME NEW t \in Tasks, NEW q \in Queues, NEW d \in Messages, SendNow(t, q, d)
       PROVE  QuietStep \/ Wakes
  BY <1>3, <1>10 DEF SendNow
<1>11. ASSUME NEW t \in Tasks, NEW q \in Queues, ReceiveNow(t, q)
       PROVE  QuietStep \/ Wakes
  BY <1>4, <1>11 DEF ReceiveNow
<1> QED
  BY <1>1, <1>2, <1>5, <1>6, <1>7, <1>8, <1>9, <1>10, <1>11 DEF QueueStep

LEMMA ListSteps ==
  ASSUME TypeInv, [Next]_vars
  PROVE  \/ QuietStep
         \/ \E u \in Tasks : CreateTask(u) /\ UNCHANGED blocked_list
         \/ \E t, u \in Tasks : YieldTask(t, u) /\ UNCHANGED blocked_list
         \/ \E t \in Tasks : DelayBlock(t) /\ UNCHANGED blocked_list
         \/ TickExpire /\ UNCHANGED blocked_list
         \/ ListsEmptied
         \/ Blocks
         \/ Wakes
<1> USE DEF listVars, schedVars
<1>1. CASE SchedulerStep
  <2>0. UNCHANGED blocked_list
    BY <1>1 DEF SchedulerStep
  <2>1. ASSUME NEW u \in Tasks, CreateRefused(u) PROVE QuietStep
    BY <2>0, <2>1, IdleListsQuiet DEF CreateRefused
  <2>2. ASSUME NEW t \in Tasks, NEW u \in Tasks, YieldRefused(t, u) PROVE QuietStep
    BY <2>0, <2>2, IdleListsQuiet DEF YieldRefused
  <2>3. CASE PendSV
    BY <2>0, <2>3, IdleListsQuiet DEF PendSV
  <2> QED
    BY <1>1, <2>0, <2>1, <2>2, <2>3, ScheduleQuiet, StartKernelQuiet DEF SchedulerStep
<1>2. CASE TimerStep
  <2>0. UNCHANGED blocked_list
    BY <1>2 DEF TimerStep
  <2>1. ASSUME NEW t \in Tasks, NEW ms \in Delays, DelayTask(t, ms) \/ DelayRefused(t, ms)
        PROVE  QuietStep
    BY <2>0, <2>1, IdleListsQuiet DEF DelayTask, DelayRefused
  <2>2. ASSUME NEW t \in Tasks, DelayExit(t) PROVE QuietStep
    BY <2>0, <2>2, IdleListsQuiet DEF DelayExit
  <2>3. CASE TickIdle \/ TickCount
    BY <2>0, <2>3, IdleListsQuiet DEF TickIdle, TickCount
  <2> QED
    BY <1>2, <2>0, <2>1, <2>2, <2>3 DEF TimerStep
<1>3. CASE SemaphoreStep
  BY <1>3, SemaphoreListSteps
<1>4. CASE QueueStep
  BY <1>4, QueueListSteps
<1>5. CASE UNCHANGED vars
  BY <1>5, IdleListsQuiet DEF vars
<1> QED
  BY <1>1, <1>2, <1>3, <1>4, <1>5 DEF Next

-----------------------------------------------------------------------------
(* The elements of the lists.                                              *)

LEMMA ListsOfTasks ==
  ASSUME TypeInv
  PROVE  /\ \A p \in Priorities : ready_list[p] \in Seq(Tasks)
         /\ \A l \in BlockedLists : blocked_list[l] \in Seq(Tasks)
<1>1. Indexable \subseteq Tasks
  BY DEF Indexable
<1>2. ASSUME NEW p \in Priorities PROVE ready_list[p] \in Seq(Tasks)
  <2>1. ready_list[p] \in Seq(Indexable)
    BY DEF TypeInv, ListTypeInv
  <2> QED
    BY <1>1, <2>1, SeqMonotonic
<1>3. ASSUME NEW l \in BlockedLists PROVE blocked_list[l] \in Seq(Tasks)
  <2>1. blocked_list[l] \in Seq(Indexable)
    BY DEF TypeInv, CommTypeInv
  <2> QED
    BY <1>1, <2>1, SeqMonotonic
<1> QED
  BY <1>2, <1>3

LEMMA HeadWaiter ==
  ASSUME TypeInv, NEW l \in BlockedLists, blocked_list[l] # <<>>
  PROVE  Head(blocked_list[l]) \in Indexable /\ Head(blocked_list[l]) \in Tasks
<1>1. blocked_list[l] \in Seq(Indexable)
  BY DEF TypeInv, CommTypeInv
<1>2. Head(blocked_list[l]) \in Indexable
  BY <1>1, HeadTailProperties
<1> QED
  BY <1>2 DEF Indexable

LEMMA HeadTimer ==
  ASSUME TypeInv, delay_list # <<>>
  PROVE  Head(delay_list).task \in Indexable /\ Head(delay_list).task \in Tasks
<1>1. delay_list \in Seq(ArmedTimer)
  BY DEF TypeInv, TimerTypeInv
<1>2. Head(delay_list) \in ArmedTimer
  BY <1>1, HeadTailProperties
<1> QED
  BY <1>2 DEF ArmedTimer, Indexable

-----------------------------------------------------------------------------
(* The ready bitmap.                                                       *)

LEMMA InsertReadyBitmap ==
  ASSUME TypeInv, ReadyBitmapExact, NEW t \in Tasks, insert_into_ready_list(t)
  PROVE  ReadyBitmapExact'
<1>1. \A p \in Priorities : Append(ready_list[p], t) # <<>>
  BY ListsOfTasks, AppendProperties
<1> QED
  BY <1>1 DEF ReadyBitmapExact, insert_into_ready_list, TypeInv, ListTypeInv

LEMMA RemoveReadyBitmap ==
  ASSUME TypeInv, ReadyBitmapExact, NEW t \in Tasks, remove_from_ready_list(t)
  PROVE  ReadyBitmapExact'
BY DEF ReadyBitmapExact, remove_from_ready_list, TypeInv, ListTypeInv

LEMMA BitmapStep ==
  ASSUME TypeInv, ReadyBitmapExact, [Next]_vars
  PROVE  ReadyBitmapExact'
<1>1. ASSUME UNCHANGED <<ready_list, ready_bitmap>> PROVE ReadyBitmapExact'
  BY <1>1 DEF ReadyBitmapExact
<1>2. ASSUME NEW u \in Tasks, CreateTask(u) PROVE ReadyBitmapExact'
  BY <1>1, <1>2, InsertReadyBitmap DEF CreateTask
<1>3. ASSUME NEW t \in Tasks, NEW u \in Tasks, YieldTask(t, u) PROVE ReadyBitmapExact'
  <2>1. CASE UNCHANGED ready_list
    BY <1>1, <1>3, <2>1 DEF YieldTask
  <2>2. CASE \E i \in DOMAIN ready_list[Priority[u]] :
               /\ ready_list[Priority[u]][i] = u
               /\ ready_list' = [ready_list EXCEPT
                                   ![Priority[u]] = Append(RemoveAt(@, i), u)]
    <3> PICK i \in DOMAIN ready_list[Priority[u]] :
          ready_list' = [ready_list EXCEPT ![Priority[u]] = Append(RemoveAt(@, i), u)]
      BY <2>2
    <3>1. Priority[u] \in ready_bitmap /\ Priority[u] \in Priorities /\ UNCHANGED ready_bitmap
      BY <1>3 DEF YieldTask, is_task_yieldable, TypeInv, ListTypeInv
    <3>2. ready_list[Priority[u]] \in Seq(Tasks)
      BY <3>1, ListsOfTasks
    <3>3. RemoveAt(ready_list[Priority[u]], i) \in Seq(Tasks)
      BY <3>2, LenProperties, RemoveAtType
    <3>4. Append(RemoveAt(ready_list[Priority[u]], i), u) # <<>>
      BY <3>3, AppendProperties
    <3> QED
      BY <3>1, <3>4 DEF ReadyBitmapExact, TypeInv, ListTypeInv
  <2> QED
    BY <1>3, <2>1, <2>2 DEF YieldTask
<1>4. ASSUME NEW t \in Tasks, DelayBlock(t) PROVE ReadyBitmapExact'
  BY <1>1, <1>4, RemoveReadyBitmap DEF DelayBlock
<1>5. ASSUME TickExpire PROVE ReadyBitmapExact'
  BY <1>1, <1>5, HeadTimer, InsertReadyBitmap DEF TickExpire
<1>6. CASE Wakes
  BY <1>6, HeadWaiter, InsertReadyBitmap DEF Wakes, WakeHead
<1>7. CASE Blocks
  BY <1>7, RemoveReadyBitmap DEF Blocks, BlockIn
<1>8. CASE ListsEmptied
  BY <1>1, <1>8 DEF ListsEmptied, listVars
<1> QED
  BY <1>1, <1>2, <1>3, <1>4, <1>5, <1>6, <1>7, <1>8, ListSteps DEF QuietStep

\* schedule() may trust the bitmap: a bit is set exactly when its ready list
\* has a task, whatever the interleaving of calls, ticks and switches.
THEOREM BitmapCorrect == Spec => []ReadyBitmapExact
<1>1. Init => ReadyBitmapExact
  BY DEF Init, ListInit, ReadyBitmapExact
<1>2. TypeInv /\ ReadyBitmapExact /\ [Next]_vars => ReadyBitmapExact'
  BY BitmapStep
<1> QED
  BY <1>1, <1>2, TypeInvariance, PTL DEF Spec

-----------------------------------------------------------------------------
(***************************************************************************)
(* The links.  LinkedOnce is not inductive: that a task which is made      *)
(* ready is in no list yet follows from its state, so the invariant says   *)
(* where a task of a state is not.  It says nothing of the other states,   *)
(* which an interrupted schedule() may store for a task that has blocked.  *)
(***************************************************************************)

Waits(t) == \E l \in BlockedLists : WaitsFor(t, l)

ReadyLinked ==
  /\ \A p \in Priorities : IsInjective(ready_list[p])
  /\ \A p \in Priorities : \A t \in Range(ready_list[p]) : Priority[t] = p

WaitLinked ==
  /\ \A l \in BlockedLists : IsInjective(blocked_list[l])
  /\ \A l, m \in BlockedLists, t \in Tasks : WaitsFor(t, l) /\ WaitsFor(t, m) => l = m

StateLinked ==
  /\ \A t \in Tasks : t \notin task_list =>
       ~Ready(t) /\ ~Waits(t) /\ task_state[t] \notin BlockedState
  /\ \A t \in Tasks : task_state[t] = "DELAY" => ~Ready(t) /\ ~Waits(t)
  /\ \A t \in Tasks : task_state[t] \in WaitingState => ~Ready(t)
  /\ \A t \in Tasks : Waits(t) => ~Ready(t)

LinkInv == ReadyLinked /\ WaitLinked /\ StateLinked

LEMMA LinkInvImpliesLinkedOnce == LinkInv => LinkedOnce
BY DEF LinkInv, ReadyLinked, WaitLinked, StateLinked, Waits, LinkedOnce

LEMMA InsertReadyLinks ==
  ASSUME TypeInv, ReadyLinked, NEW u \in Indexable, ~Ready(u), insert_into_ready_list(u)
  PROVE  ReadyLinked' /\ \A t \in Tasks : Ready(t)' <=> Ready(t) \/ t = u
<1> DEFINE list == ready_list[Priority[u]]
           new == Append(list, u)
<1>1. Priority[u] \in Priorities /\ u \in Tasks
  BY DEF Indexable
<1>2. list \in Seq(Tasks) /\ u \notin Range(list)
  BY <1>1, ListsOfTasks DEF Ready
<1>3. Range(new) = Range(list) \cup {u} /\ IsInjective(new)
  BY <1>1, <1>2, AppendElements DEF ReadyLinked
<1>4. \A p \in Priorities : ready_list'[p] = IF p = Priority[u] THEN new ELSE ready_list[p]
  BY DEF insert_into_ready_list, TypeInv, ListTypeInv
<1> HIDE DEF new
<1>5. \A p \in Priorities : Range(ready_list'[p]) =
        IF p = Priority[u] THEN Range(ready_list[p]) \cup {u} ELSE Range(ready_list[p])
  BY <1>3, <1>4
<1>6. ReadyLinked'
  BY <1>1, <1>3, <1>4, <1>5 DEF ReadyLinked
<1> QED
  BY <1>1, <1>5, <1>6 DEF Ready

LEMMA RemoveReadyLinks ==
  ASSUME TypeInv, ReadyLinked, NEW u \in Indexable, Removable(u), remove_from_ready_list(u)
  PROVE  /\ ReadyLinked' /\ Ready(u)
         /\ \A t \in Tasks : Ready(t)' <=> Ready(t) /\ t # u
<1> DEFINE list == ready_list[Priority[u]]
           new == Tail(list)
<1>1. Priority[u] \in Priorities /\ u \in Tasks
  BY DEF Indexable
<1>2. list \in Seq(Tasks) /\ list # <<>> /\ Head(list) = u
  BY <1>1, ListsOfTasks, TasksAssumption DEF Removable, HeadOf
<1>3. Range(new) = Range(list) \ {u} /\ IsInjective(new) /\ u \in Range(list)
  BY <1>1, <1>2, TailElements DEF ReadyLinked
<1>4. \A p \in Priorities : ready_list'[p] = IF p = Priority[u] THEN new ELSE ready_list[p]
  BY DEF remove_from_ready_list, TypeInv, ListTypeInv
<1> HIDE DEF new
<1>5. \A p \in Priorities : Range(ready_list'[p]) =
        IF p = Priority[u] THEN Range(ready_list[p]) \ {u} ELSE Range(ready_list[p])
  BY <1>3, <1>4
<1>6. ReadyLinked'
  BY <1>1, <1>3, <1>4, <1>5 DEF ReadyLinked
<1>7. \A p \in Priorities : u \in Range(ready_list[p]) => p = Priority[u]
  BY DEF ReadyLinked
<1> QED
  BY <1>1, <1>3, <1>5, <1>6, <1>7 DEF Ready

LEMMA YieldLinks ==
  ASSUME TypeInv, ReadyLinked, NEW t \in Tasks, NEW u \in Tasks, YieldTask(t, u)
  PROVE  ReadyLinked' /\ \A v \in Tasks : Ready(v)' <=> Ready(v)
<1>1. CASE UNCHANGED ready_list
  BY <1>1 DEF ReadyLinked, Ready
<1>2. CASE \E i \in DOMAIN ready_list[Priority[u]] :
             /\ ready_list[Priority[u]][i] = u
             /\ ready_list' = [ready_list EXCEPT
                                 ![Priority[u]] = Append(RemoveAt(@, i), u)]
  <2> DEFINE list == ready_list[Priority[u]]
  <2> PICK i \in DOMAIN list :
        list[i] = u /\ ready_list' = [ready_list EXCEPT ![Priority[u]] = Append(RemoveAt(@, i), u)]
    BY <1>2
  <2> DEFINE new == Append(RemoveAt(list, i), list[i])
  <2>1. Priority[u] \in Priorities
    BY DEF YieldTask, is_task_yieldable, TypeInv, ListTypeInv
  <2>2. list \in Seq(Tasks) /\ i \in 1..Len(list) /\ IsInjective(list)
    BY <2>1, ListsOfTasks, LenProperties DEF ReadyLinked
  <2>3. Range(new) = Range(list) /\ IsInjective(new)
    BY <2>2, MoveToTailElements
  <2>4. \A p \in Priorities : ready_list'[p] = IF p = Priority[u] THEN new ELSE ready_list[p]
    BY DEF TypeInv, ListTypeInv
  <2> HIDE DEF new
  <2>5. \A p \in Priorities : Range(ready_list'[p]) = Range(ready_list[p])
    BY <2>3, <2>4
  <2>6. ReadyLinked'
    BY <2>1, <2>3, <2>4, <2>5 DEF ReadyLinked
  <2> QED
    BY <2>5, <2>6 DEF Ready
<1> QED
  BY <1>1, <1>2 DEF YieldTask

LEMMA LinkInit == Init => LinkInv
<1> SUFFICES ASSUME Init PROVE LinkInv
  OBVIOUS
<1>1. /\ \A p \in Priorities : ready_list[p] = <<>>
      /\ \A l \in BlockedLists : blocked_list[l] = <<>>
      /\ \A t \in Tasks : task_state[t] = "ABSENT"
  BY TasksAssumption DEF Init, ListInit
<1>2. Range(<<>>) = {} /\ IsInjective(<<>>)
  BY DEF Range, IsInjective
<1> QED
  BY <1>1, <1>2 DEF LinkInv, ReadyLinked, WaitLinked, StateLinked, Ready, Waits, WaitsFor,
                    BlockedState, WaitingState

\* Nothing is linked anew and nobody blocks.
LEMMA QuietLinks ==
  ASSUME LinkInv, UNCHANGED <<ready_list, blocked_list, task_list>>,
         \A t \in Tasks : task_state'[t] \in BlockedState => task_state[t] = task_state'[t]
  PROVE  LinkInv'
<1>1. /\ \A t \in Tasks : Ready(t)' <=> Ready(t)
      /\ \A t \in Tasks : Waits(t)' <=> Waits(t)
      /\ ReadyLinked' /\ WaitLinked'
  BY DEF Ready, Waits, WaitsFor, LinkInv, ReadyLinked, WaitLinked
<1> QED
  BY <1>1 DEF LinkInv, StateLinked, BlockedState, WaitingState

LEMMA CreateTaskLinks ==
  ASSUME TypeInv, LinkInv, NEW u \in Tasks, CreateTask(u), UNCHANGED blocked_list
  PROVE  LinkInv'
<1>1. UNCHANGED blocked_list /\ u \notin task_list /\ task_list' = task_list \cup {u}
  BY DEF CreateTask, is_task_createable
<1>2. WaitLinked' /\ \A t \in Tasks : Waits(t)' <=> Waits(t)
  BY <1>1 DEF LinkInv, WaitLinked, Waits, WaitsFor
<1>3. CASE Priority[u] \in Priorities
  <2>1. u \in Indexable /\ insert_into_ready_list(u) /\ ~Ready(u)
    BY <1>1, <1>3 DEF CreateTask, Indexable, LinkInv, StateLinked
  <2>2. ReadyLinked' /\ \A t \in Tasks : Ready(t)' <=> Ready(t) \/ t = u
    BY <2>1, InsertReadyLinks DEF LinkInv
  <2>3. \A t \in Tasks : task_state'[t] = IF t = u THEN "READY" ELSE task_state[t]
    BY <1>3 DEF CreateTask, TypeInv, ListTypeInv
  <2> QED
    BY <1>1, <1>2, <2>2, <2>3 DEF LinkInv, StateLinked, BlockedState, WaitingState
<1>4. CASE Priority[u] \notin Priorities
  <2>1. UNCHANGED <<task_state, ready_list>>
    BY <1>4 DEF CreateTask
  <2>2. ReadyLinked' /\ \A t \in Tasks : Ready(t)' <=> Ready(t)
    BY <2>1 DEF LinkInv, ReadyLinked, Ready
  <2> QED
    BY <1>1, <1>2, <2>1, <2>2 DEF LinkInv, StateLinked
<1> QED
  BY <1>3, <1>4

LEMMA YieldTaskLinks ==
  ASSUME TypeInv, LinkInv, NEW t \in Tasks, NEW u \in Tasks, YieldTask(t, u), UNCHANGED blocked_list
  PROVE  LinkInv'
<1>1. ReadyLinked' /\ \A v \in Tasks : Ready(v)' <=> Ready(v)
  BY YieldLinks DEF LinkInv
<1>2. UNCHANGED <<blocked_list, task_list>>
  BY DEF YieldTask
<1>3. WaitLinked' /\ \A v \in Tasks : Waits(v)' <=> Waits(v)
  BY <1>2 DEF LinkInv, WaitLinked, Waits, WaitsFor
<1>4. \A v \in Tasks : task_state'[v] = IF v = t THEN "READY" ELSE task_state[v]
  BY DEF YieldTask, TypeInv, ListTypeInv
<1> QED
  BY <1>1, <1>2, <1>3, <1>4 DEF LinkInv, StateLinked, BlockedState, WaitingState

LEMMA DelayBlockLinks ==
  ASSUME TypeInv, LinkInv, NEW t \in Tasks, DelayBlock(t), UNCHANGED blocked_list
  PROVE  LinkInv'
<1>1. UNCHANGED <<blocked_list, task_list>>
  BY DEF DelayBlock
<1>2. CASE BlocksDelayed(t)
  <2>1. t \in Indexable /\ Removable(t) /\ remove_from_ready_list(t)
    BY <1>2, ExecutingIndexable DEF DelayBlock, At, BlocksDelayed
  <2>2. /\ ReadyLinked' /\ Ready(t)
        /\ \A u \in Tasks : Ready(u)' <=> Ready(u) /\ u # t
    BY <2>1, RemoveReadyLinks DEF LinkInv
  <2>3. WaitLinked' /\ \A u \in Tasks : Waits(u)' <=> Waits(u)
    BY <1>1 DEF LinkInv, WaitLinked, Waits, WaitsFor
  <2>4. \A u \in Tasks : task_state'[u] = IF u = t THEN "DELAY" ELSE task_state[u]
    BY <1>2 DEF BlocksDelayed, TypeInv, ListTypeInv
  <2> QED
    BY <1>1, <2>2, <2>3, <2>4 DEF LinkInv, StateLinked
<1>3. CASE GivesTimerBack(t)
  <2>1. UNCHANGED <<ready_list, task_state>>
    BY <1>3 DEF GivesTimerBack
  <2> QED
    BY <1>1, <2>1, QuietLinks
<1> QED
  BY <1>2, <1>3, DelayBlockEnds

LEMMA TickExpireLinks ==
  ASSUME TypeInv, LinkInv, TickExpire, UNCHANGED blocked_list
  PROVE  LinkInv'
<1> DEFINE t == Head(delay_list).task
           states == IF task_state[t] = "DELAY" THEN [task_state EXCEPT ![t] = "READY"]
                                                ELSE task_state
<1>1. t \in Indexable /\ t \in Tasks
  BY HeadTimer DEF TickExpire
<1>2. UNCHANGED <<blocked_list, task_list>>
  BY DEF TickExpire, schedVars
<1>3. states \in [Tasks \cup {Idle} -> TaskState] /\ ScheduleNow(states, curr_task_ptr)
  BY <1>1 DEF TickExpire, TypeInv, ListTypeInv, TaskState
<1>4. \A u \in Tasks : task_state'[u] \in BlockedState => states[u] = task_state'[u]
  BY <1>3, ScheduleNowBlocksNobody
<1>5. CASE task_state[t] = "DELAY"
  <2>1. insert_into_ready_list(t)
    BY <1>5 DEF TickExpire
  <2>2. ~Ready(t) /\ ~Waits(t) /\ t \in task_list
    BY <1>1, <1>5 DEF LinkInv, StateLinked, BlockedState, WaitingState
  <2>3. ReadyLinked' /\ \A u \in Tasks : Ready(u)' <=> Ready(u) \/ u = t
    BY <1>1, <2>1, <2>2, InsertReadyLinks DEF LinkInv
  <2>4. WaitLinked' /\ \A u \in Tasks : Waits(u)' <=> Waits(u)
    BY <1>2 DEF LinkInv, WaitLinked, Waits, WaitsFor
  <2>5. \A u \in Tasks : states[u] = IF u = t THEN "READY" ELSE task_state[u]
    BY <1>1, <1>5 DEF TypeInv, ListTypeInv
  <2> HIDE DEF t, states
  <2>6. \A u \in Tasks : task_state'[u] \in BlockedState =>
          u # t /\ task_state'[u] = task_state[u]
    BY <1>4, <2>5 DEF BlockedState, WaitingState
  <2> QED
    BY <1>2, <2>2, <2>3, <2>4, <2>6 DEF LinkInv, StateLinked, BlockedState, WaitingState
<1>6. CASE task_state[t] # "DELAY"
  <2>1. UNCHANGED ready_list
    BY <1>6 DEF TickExpire
  <2> QED
    BY <1>2, <1>4, <1>6, <2>1, QuietLinks
<1> QED
  BY <1>5, <1>6

LEMMA EmptiedLinks ==
  ASSUME TypeInv, LinkInv, ListsEmptied
  PROVE  LinkInv'
<1>1. UNCHANGED <<ready_list, task_state, task_list>>
  BY DEF ListsEmptied, listVars
<1>2. \A l \in BlockedLists : blocked_list'[l] = blocked_list[l] \/ blocked_list'[l] = <<>>
  BY EmptiedLists
<1>3. Range(<<>>) = {} /\ IsInjective(<<>>)
  BY DEF Range, IsInjective
<1>4. \A t \in Tasks, l \in BlockedLists : WaitsFor(t, l)' => WaitsFor(t, l)
  BY <1>2, <1>3 DEF WaitsFor
<1>5. WaitLinked' /\ \A t \in Tasks : Waits(t)' => Waits(t)
  BY <1>2, <1>3, <1>4 DEF LinkInv, WaitLinked, Waits
<1>6. ReadyLinked' /\ \A t \in Tasks : Ready(t)' <=> Ready(t)
  BY <1>1 DEF LinkInv, ReadyLinked, Ready
<1> QED
  BY <1>1, <1>5, <1>6 DEF LinkInv, StateLinked

\* A waiter that change_task_state accepts waits in the list: one that is in
\* DELAY, which would stay in the list, is in none.
LEMMA WakeableWaits ==
  ASSUME TypeInv, LinkInv, NEW l \in BlockedLists, blocked_list[l] # <<>>, Wakeable(l)
  PROVE  LET waiter == Head(blocked_list[l])
         IN  /\ waiter \in Indexable /\ waiter \in Tasks
             /\ task_state[waiter] \in WaitingState /\ waiter \in task_list
             /\ ~Ready(waiter) /\ Waits(waiter)
             /\ \A m \in BlockedLists : WaitsFor(waiter, m) <=> m = l
<1> DEFINE waiter == Head(blocked_list[l])
<1>1. waiter \in Indexable /\ waiter \in Tasks
  BY HeadWaiter
<1>2. waiter \in Range(blocked_list[l])
  BY ListsOfTasks, TailElements DEF LinkInv, WaitLinked
<1>3. WaitsFor(waiter, l) /\ Waits(waiter)
  BY <1>2 DEF WaitsFor, Waits
<1>4. task_state[waiter] \in BlockedState
  BY DEF Wakeable
<1> HIDE DEF waiter
<1>5. task_state[waiter] \in WaitingState /\ ~Ready(waiter) /\ waiter \in task_list
  BY <1>1, <1>3, <1>4 DEF LinkInv, StateLinked, BlockedState, WaitingState
<1>6. \A m \in BlockedLists : WaitsFor(waiter, m) <=> m = l
  BY <1>1, <1>3 DEF LinkInv, WaitLinked
<1> QED
  BY <1>1, <1>3, <1>5, <1>6 DEF waiter

LEMMA WakeHeadLinks ==
  ASSUME TypeInv, LinkInv, NEW l \in BlockedLists, blocked_list[l] # <<>>, WakeHead(l),
         UNCHANGED task_list
  PROVE  LinkInv'
<1> DEFINE waiter == Head(blocked_list[l])
           rest == Tail(blocked_list[l])
<1>1. /\ waiter \in Indexable /\ waiter \in Tasks
      /\ task_state[waiter] \in WaitingState /\ waiter \in task_list
      /\ ~Ready(waiter)
      /\ \A m \in BlockedLists : WaitsFor(waiter, m) <=> m = l
  BY WakeableWaits DEF WakeHead
<1>2. Range(rest) = Range(blocked_list[l]) \ {waiter} /\ IsInjective(rest)
  BY ListsOfTasks, TailElements DEF LinkInv, WaitLinked
<1>3. task_state[waiter] # "DELAY"
  BY <1>1 DEF WaitingState
<1>4. /\ insert_into_ready_list(waiter)
      /\ task_state' = [task_state EXCEPT ![waiter] = "READY"]
      /\ blocked_list' = [blocked_list EXCEPT ![l] = rest]
  BY <1>3 DEF WakeHead, remove_from_blocked_list
<1>5. ReadyLinked' /\ \A u \in Tasks : Ready(u)' <=> Ready(u) \/ u = waiter
  BY <1>1, <1>4, InsertReadyLinks DEF LinkInv
<1>6. \A m \in BlockedLists : blocked_list'[m] = IF m = l THEN rest ELSE blocked_list[m]
  BY <1>4 DEF TypeInv, CommTypeInv
<1>7. \A u \in Tasks : task_state'[u] = IF u = waiter THEN "READY" ELSE task_state[u]
  BY <1>1, <1>4 DEF TypeInv, ListTypeInv
<1> HIDE DEF waiter, rest
<1>8. \A u \in Tasks, m \in BlockedLists : WaitsFor(u, m)' <=> WaitsFor(u, m) /\ u # waiter
  BY <1>1, <1>2, <1>6 DEF WaitsFor
<1>9. \A u \in Tasks : Waits(u)' <=> Waits(u) /\ u # waiter
  BY <1>8 DEF Waits
<1>10. WaitLinked'
  BY <1>2, <1>6, <1>8 DEF LinkInv, WaitLinked
<1> QED
  BY <1>1, <1>5, <1>7, <1>9, <1>10 DEF LinkInv, StateLinked, BlockedState, WaitingState

\* The task that blocks is linked in its ready list and nowhere else.
LEMMA BlockerReady ==
  ASSUME TypeInv, LinkInv, NEW t \in Tasks, Executing(t), NEW l, NEW state, BlockIn(t, l, state)
  PROVE  /\ t \in Indexable /\ t \in task_list
         /\ ReadyLinked' /\ \A u \in Tasks : Ready(u)' <=> Ready(u) /\ u # t
         /\ Ready(t) /\ ~Waits(t) /\ \A m \in BlockedLists : ~WaitsFor(t, m)
<1>1. t \in Indexable /\ Removable(t) /\ remove_from_ready_list(t)
  BY ExecutingIndexable DEF BlockIn
<1>2. /\ ReadyLinked' /\ Ready(t)
      /\ \A u \in Tasks : Ready(u)' <=> Ready(u) /\ u # t
  BY <1>1, RemoveReadyLinks DEF LinkInv
<1>3. ~Waits(t) /\ t \in task_list /\ \A m \in BlockedLists : ~WaitsFor(t, m)
  BY <1>2 DEF LinkInv, StateLinked, Waits
<1> QED
  BY <1>1, <1>2, <1>3

LEMMA BlockInLinks ==
  ASSUME TypeInv, LinkInv, NEW t \in Tasks, Executing(t), NEW l \in BlockedLists,
         NEW state \in WaitingState, BlockIn(t, l, state), UNCHANGED task_list
  PROVE  LinkInv'
<1>1. /\ t \in Indexable /\ t \in task_list
      /\ ReadyLinked' /\ \A u \in Tasks : Ready(u)' <=> Ready(u) /\ u # t
      /\ \A m \in BlockedLists : ~WaitsFor(t, m)
  BY BlockerReady
<1> PICK k \in 1..(Len(blocked_list[l]) + 1) :
      blocked_list' = [blocked_list EXCEPT ![l] = InsertAt(@, k, t)]
  BY DEF BlockIn
<1> DEFINE new == InsertAt(blocked_list[l], k, t)
<1>2. /\ blocked_list[l] \in Seq(Tasks) /\ IsInjective(blocked_list[l])
      /\ t \notin Range(blocked_list[l])
  BY <1>1, ListsOfTasks DEF LinkInv, WaitLinked, WaitsFor
<1>3. Range(new) = Range(blocked_list[l]) \cup {t} /\ IsInjective(new)
  BY <1>2, InsertAtRange
<1>4. \A m \in BlockedLists : blocked_list'[m] = IF m = l THEN new ELSE blocked_list[m]
  BY DEF TypeInv, CommTypeInv
<1>5. \A u \in Tasks : task_state'[u] = IF u = t THEN state ELSE task_state[u]
  BY DEF BlockIn, TypeInv, ListTypeInv
<1> HIDE DEF new
<1>6. \A u \in Tasks, m \in BlockedLists :
        WaitsFor(u, m)' <=> WaitsFor(u, m) \/ (u = t /\ m = l)
  BY <1>3, <1>4 DEF WaitsFor
<1>7. WaitLinked'
  BY <1>1, <1>3, <1>4, <1>6 DEF LinkInv, WaitLinked
<1>8. \A u \in Tasks : Waits(u)' <=> Waits(u) \/ u = t
  BY <1>6 DEF Waits
<1>9. state # "DELAY"
  BY DEF WaitingState
<1> QED
  BY <1>1, <1>5, <1>7, <1>8, <1>9 DEF LinkInv, StateLinked

LEMMA LinkStep == TypeInv /\ LinkInv /\ [Next]_vars => LinkInv'
BY ListSteps, QuietLinks, CreateTaskLinks, YieldTaskLinks, DelayBlockLinks, TickExpireLinks,
   EmptiedLinks, WakeHeadLinks, BlockInLinks DEF QuietStep, Blocks, Wakes

\* The inductive invariant behind LinksCorrect: besides what LinkedOnce says, a
\* task that is not registered is linked nowhere, nor is a blocked task linked
\* where its state says it is not.
THEOREM LinkInvariance == Spec => []LinkInv
BY LinkInit, LinkStep, TypeInvariance, PTL DEF Spec

\* A TCB has one pair of links: no interleaving of calls and ticks enters a task
\* in two lists, or twice in one.
THEOREM LinksCorrect == Spec => []LinkedOnce
BY LinkInvariance, LinkInvImpliesLinkedOnce, PTL

-----------------------------------------------------------------------------
(* The lists of semaphores and of queues are different ones.               *)

\* A task is woken out of, or waits in, list l, or all lists stay.
ListTouched(l) ==
  \A m \in BlockedLists : m # l => blocked_list'[m] = blocked_list[m]

LEMMA WakeTouches ==
  ASSUME NEW l, WakeHead(l)
  PROVE  ListTouched(l)
BY DEF WakeHead, ListTouched

LEMMA BlockTouches ==
  ASSUME TypeInv, NEW t, NEW l, NEW state, BlockIn(t, l, state)
  PROVE  ListTouched(l)
BY DEF BlockIn, ListTouched, TypeInv, CommTypeInv

LEMMA NotifyTouches ==
  ASSUME NEW t, NEW l, Notify(t, l)
  PROVE  ListTouched(l)
BY WakeTouches DEF Notify, ListTouched

LEMMA QueueKeepsWaitLists ==
  ASSUME TypeInv, QueueStep
  PROVE  \A s \in Semaphores : blocked_list'[WaitList(s)] = blocked_list[WaitList(s)]
<1>1. \A s, q : WaitList(s) # SendList(q) /\ WaitList(s) # ReceiveList(q)
  BY DEF WaitList, SendList, ReceiveList
<1>2. \A q : ListTouched(SendList(q)) \/ ListTouched(ReceiveList(q)) =>
        \A s \in Semaphores : blocked_list'[WaitList(s)] = blocked_list[WaitList(s)]
  BY <1>1, WaitListKnown DEF ListTouched
<1>3. ASSUME NEW q \in Queues, NEW length, NEW size, CreateQueue(q, length, size)
      PROVE  \A s \in Semaphores : blocked_list'[WaitList(s)] = blocked_list[WaitList(s)]
  <2>1. blocked_list' = [blocked_list EXCEPT ![SendList(q)] = <<>>,
                                             ![ReceiveList(q)] = <<>>]
    BY <1>3 DEF CreateQueue
  <2> QED
    BY <1>1, <2>1, WaitListKnown DEF TypeInv, CommTypeInv
<1>4. ASSUME UNCHANGED blocked_list
      PROVE  \A s \in Semaphores : blocked_list'[WaitList(s)] = blocked_list[WaitList(s)]
  BY <1>4
<1>5. ASSUME NEW t, NEW q, NEW d, Push(t, q, d) PROVE ListTouched(ReceiveList(q))
  BY <1>5, NotifyTouches DEF Push
<1>6. ASSUME NEW t, NEW q, Pop(t, q) PROVE ListTouched(SendList(q))
  BY <1>6, NotifyTouches DEF Pop
<1>7. ASSUME NEW t, NEW q, NEW d, NEW ms, SendWait(t, q, d, ms)
      PROVE  ListTouched(SendList(q))
  BY <1>7, BlockTouches DEF SendWait, WaitInQueue
<1>8. ASSUME NEW t, NEW q, NEW ms, ReceiveWait(t, q, ms)
      PROVE  ListTouched(ReceiveList(q))
  BY <1>8, BlockTouches DEF ReceiveWait, WaitInQueue
<1>9. ASSUME NEW t, NEW q, NEW ms,
             SendRefused(t, q, ms) \/ ReceiveRefused(t, q, ms) \/ QueueArm(t) \/ QueueExit(t)
      PROVE  UNCHANGED blocked_list
  BY <1>9 DEF SendRefused, ReceiveRefused, QueueArm, QueueExit, ReturnFalse
<1>10. ASSUME NEW t, NEW q, NEW d, SendNow(t, q, d)
       PROVE  ListTouched(ReceiveList(q))
  BY <1>5, <1>10 DEF SendNow
<1>11. ASSUME NEW t, NEW q, ReceiveNow(t, q)
       PROVE  ListTouched(SendList(q))
  BY <1>6, <1>11 DEF ReceiveNow
<1>12. ASSUME NEW t, NEW q, SendResume(t, q) \/ ReceiveResume(t, q)
       PROVE  \/ ListTouched(ReceiveList(q))
              \/ ListTouched(SendList(q))
              \/ UNCHANGED blocked_list
  BY <1>5, <1>6, <1>12 DEF SendResume, ReceiveResume, ReturnFalse
<1>13. CreateQueueFails => UNCHANGED blocked_list
  BY DEF CreateQueueFails
<1>14. ASSUME NEW t, QueueArm(t) \/ QueueExit(t)
       PROVE  UNCHANGED blocked_list
  BY <1>9, <1>14
<1> QED
  BY <1>2, <1>3, <1>4, <1>7, <1>8, <1>9, <1>10, <1>11, <1>12, <1>13, <1>14 DEF QueueStep

LEMMA SemaphoreSteps ==
  ASSUME TypeInv, [Next]_vars
  PROVE  \/ /\ UNCHANGED semVars
            /\ \A s \in Semaphores : blocked_list'[WaitList(s)] = blocked_list[WaitList(s)]
         \/ \E s \in Semaphores, v \in InitialCounts : CreateSemaphore(s, v)
         \/ \E t \in Tasks, s \in Semaphores :
              PostCount(t, s) \/ PostWake(t, s) \/ WaitTake(t, s) \/ WaitBlock(t, s)
<1>1. CASE SchedulerStep \/ TimerStep
  BY <1>1 DEF SchedulerStep, TimerStep
<1>2. CASE SemaphoreStep
  BY <1>2 DEF SemaphoreStep, CreateSemaphoreRefused, PostRefused, WaitRefused
<1>3. CASE QueueStep
  BY <1>3, QueueKeepsWaitLists DEF QueueStep
<1>4. CASE UNCHANGED vars
  BY <1>4 DEF vars
<1> QED
  BY <1>1, <1>2, <1>3, <1>4 DEF Next

-----------------------------------------------------------------------------
LEMMA WaitListsDiffer ==
  ASSUME NEW s, NEW r, WaitList(s) = WaitList(r)
  PROVE  s = r
BY DEF WaitList

LEMMA TokensStep ==
  ASSUME TypeInv, NoIdleTokens, [Next]_vars
  PROVE  NoIdleTokens'
<1> USE SemaphoresAssumption, WaitListKnown, WaitListsDiffer
    DEF TypeInv, CommTypeInv, NoIdleTokens
<1>1. ASSUME NEW s \in Semaphores, NEW v \in InitialCounts, CreateSemaphore(s, v)
      PROVE  NoIdleTokens'
  BY <1>1 DEF CreateSemaphore
<1>2. ASSUME NEW t \in Tasks, NEW s \in Semaphores, PostCount(t, s) PROVE NoIdleTokens'
  BY <1>2 DEF PostCount
<1>3. ASSUME NEW t \in Tasks, NEW s \in Semaphores, PostWake(t, s) PROVE NoIdleTokens'
  <2>1. ListTouched(WaitList(s)) /\ UNCHANGED sem_val /\ blocked_list[WaitList(s)] # <<>>
    BY <1>3, WakeTouches DEF PostWake, semVars
  <2> QED
    BY <2>1 DEF ListTouched
<1>4. ASSUME NEW t \in Tasks, NEW s \in Semaphores, WaitTake(t, s) PROVE NoIdleTokens'
  BY <1>4 DEF WaitTake, HasToken
<1>5. ASSUME NEW t \in Tasks, NEW s \in Semaphores, WaitBlock(t, s) PROVE NoIdleTokens'
  <2>1. ListTouched(WaitList(s)) /\ UNCHANGED sem_val
    BY <1>5, BlockTouches DEF WaitBlock, semVars
  <2>2. ~HasToken(s)
    BY <1>5 DEF WaitBlock
  <2> QED
    BY <2>1, <2>2 DEF ListTouched, HasToken
<1>6. CASE UNCHANGED semVars /\
           \A s \in Semaphores : blocked_list'[WaitList(s)] = blocked_list[WaitList(s)]
  BY <1>6 DEF semVars
<1> QED
  BY <1>1, <1>2, <1>3, <1>4, <1>5, <1>6, SemaphoreSteps

\* A post with a waiter hands its token over and a wait with a token takes it,
\* so that no task waits for a token that is there.
THEOREM TokensCorrect == Spec => []NoIdleTokens
<1>1. Init => NoIdleTokens
  BY WaitListKnown DEF Init, SemInit, ListInit, NoIdleTokens
<1>2. TypeInv /\ NoIdleTokens /\ [Next]_vars => NoIdleTokens'
  BY TokensStep
<1> QED
  BY <1>1, <1>2, TypeInvariance, PTL DEF Spec

-----------------------------------------------------------------------------
(* A wait list that a task enters at BlockedPlace, or that loses its head. *)

Ordered(list) ==
  \A i, j \in DOMAIN list : i < j => Priority[list[i]] >= Priority[list[j]]

LEMMA EnterOrdered ==
  ASSUME NEW list \in Seq(Tasks), Ordered(list), NEW t \in Tasks,
         NEW k \in 1..(Len(list) + 1), BlockedPlace(list, t, k)
  PROVE  /\ Ordered(InsertAt(list, k, t))
         /\ \A i \in DOMAIN list : Priority[list[i]] = Priority[t] => i < k
<1> DEFINE new == InsertAt(list, k, t)
<1>1. /\ Len(new) = Len(list) + 1
      /\ \A i \in 1..(Len(list) + 1) :
           new[i] = IF i < k THEN list[i] ELSE IF i = k THEN t ELSE list[i - 1]
  BY InsertAtElements
<1>2. new \in Seq(Tasks)
  BY InsertAtType
<1>3. /\ DOMAIN list = 1..Len(list) /\ DOMAIN new = 1..(Len(list) + 1)
      /\ Len(list) \in Nat
      /\ \A i \in DOMAIN list : Priority[list[i]] \in Nat
      /\ Priority[t] \in Nat
  BY <1>1, <1>2, LenProperties, ElementOfSeq, TasksAssumption
<1> HIDE DEF new
<1>4. \A i \in DOMAIN list : i < k => Priority[list[i]] >= Priority[t]
  BY <1>3 DEF BlockedPlace
<1>5. \A i \in DOMAIN list : i >= k => Priority[list[i]] < Priority[t]
  <2> SUFFICES ASSUME NEW i \in DOMAIN list, i >= k PROVE Priority[list[i]] < Priority[t]
    OBVIOUS
  <2>1. k \in DOMAIN list /\ Priority[t] > Priority[list[k]]
    BY <1>3 DEF BlockedPlace
  <2>2. Priority[list[k]] >= Priority[list[i]]
    BY <1>3, <2>1 DEF Ordered
  <2> QED
    BY <1>3, <2>1, <2>2
<1>6. Ordered(new)
  <2> SUFFICES ASSUME NEW i \in DOMAIN new, NEW j \in DOMAIN new, i < j
               PROVE  Priority[new[i]] >= Priority[new[j]]
    BY DEF Ordered
  <2>1. CASE j < k
    BY <1>1, <1>3, <2>1 DEF Ordered
  <2>2. CASE j = k
    BY <1>1, <1>3, <1>4, <2>2
  <2>3. CASE j > k
    <3>1. new[j] = list[j - 1] /\ j - 1 \in DOMAIN list /\ j - 1 >= k
      BY <1>1, <1>3, <2>3
    <3>2. CASE i = k
      BY <1>1, <1>3, <1>5, <3>1, <3>2
    <3>3. CASE i < k
      BY <1>1, <1>3, <3>1, <3>3 DEF Ordered
    <3>4. CASE i > k
      <4>1. new[i] = list[i - 1] /\ i - 1 \in DOMAIN list /\ i - 1 < j - 1
        BY <1>1, <1>3, <3>4
      <4> QED
        BY <3>1, <4>1 DEF Ordered
    <3> QED
      BY <1>3, <3>2, <3>3, <3>4
  <2> QED
    BY <1>3, <2>1, <2>2, <2>3
<1> QED
  BY <1>3, <1>5, <1>6 DEF new

LEMMA TailOrdered ==
  ASSUME NEW list \in Seq(Tasks), list # <<>>, Ordered(list)
  PROVE  Ordered(Tail(list))
<1> DEFINE rest == Tail(list)
<1>1. /\ rest \in Seq(Tasks) /\ Len(rest) = Len(list) - 1
      /\ \A i \in 1..Len(rest) : rest[i] = list[i + 1]
  BY HeadTailProperties
<1>2. DOMAIN list = 1..Len(list) /\ DOMAIN rest = 1..Len(rest) /\ Len(list) \in Nat
  BY <1>1, LenProperties
<1> HIDE DEF rest
<1>3. \A i \in DOMAIN rest : i + 1 \in DOMAIN list /\ rest[i] = list[i + 1]
  BY <1>1, <1>2
<1>4. \A i, j \in DOMAIN rest : i < j => i + 1 < j + 1
  BY <1>2
<1> QED
  BY <1>3, <1>4 DEF Ordered, rest

\* How a step changes a list of blocked tasks.
LEMMA BlockedListSteps ==
  ASSUME TypeInv, LinkInv, [Next]_vars, NEW l \in BlockedLists
  PROVE  \/ blocked_list'[l] = blocked_list[l]
         \/ blocked_list'[l] = <<>>
         \/ blocked_list[l] # <<>> /\ blocked_list'[l] = Tail(blocked_list[l])
         \/ \E t \in Tasks, k \in 1..(Len(blocked_list[l]) + 1) :
              /\ BlockedPlace(blocked_list[l], t, k)
              /\ t \notin Range(blocked_list[l])
              /\ blocked_list'[l] = InsertAt(blocked_list[l], k, t)
<1> USE DEF TypeInv, CommTypeInv
<1>1. CASE UNCHANGED blocked_list
  BY <1>1
<1>2. CASE ListsEmptied
  BY <1>2, EmptiedLists
<1>3. CASE Wakes
  BY <1>3 DEF Wakes, WakeHead, remove_from_blocked_list
<1>4. CASE Blocks
  <2> PICK t \in Tasks, m \in BlockedLists, state \in WaitingState :
        Executing(t) /\ BlockIn(t, m, state)
    BY <1>4 DEF Blocks
  <2>1. t \notin Range(blocked_list[m])
    BY BlockerReady DEF WaitsFor
  <2> PICK k \in 1..(Len(blocked_list[m]) + 1) :
        /\ BlockedPlace(blocked_list[m], t, k)
        /\ blocked_list' = [blocked_list EXCEPT ![m] = InsertAt(@, k, t)]
    BY DEF BlockIn
  <2>2. CASE m = l
    BY <2>1, <2>2
  <2>3. CASE m # l
    BY <2>3
  <2> QED
    BY <2>2, <2>3
<1> QED
  BY <1>1, <1>2, <1>3, <1>4, ListSteps DEF QuietStep

LEMMA OrderedStep ==
  ASSUME TypeInv, LinkInv, WaitersOrdered, [Next]_vars
  PROVE  WaitersOrdered'
<1>1. \A l \in BlockedLists : Ordered(blocked_list[l]) /\ blocked_list[l] \in Seq(Tasks)
  BY ListsOfTasks DEF WaitersOrdered, Ordered
<1>2. ASSUME NEW l \in BlockedLists PROVE Ordered(blocked_list'[l])
  <2>1. CASE blocked_list'[l] = <<>>
    BY <2>1 DEF Ordered
  <2>2. CASE blocked_list[l] # <<>> /\ blocked_list'[l] = Tail(blocked_list[l])
    BY <1>1, <2>2, TailOrdered
  <2>3. ASSUME NEW t \in Tasks, NEW k \in 1..(Len(blocked_list[l]) + 1),
               BlockedPlace(blocked_list[l], t, k), blocked_list'[l] = InsertAt(blocked_list[l], k, t)
        PROVE  Ordered(blocked_list'[l])
    BY <1>1, <2>3, EnterOrdered
  <2> QED
    BY <1>1, <2>1, <2>2, <2>3, BlockedListSteps
<1> QED
  BY <1>2 DEF WaitersOrdered, Ordered

\* The head of a list of blocked tasks, which is woken first, always is a waiter of the
\* highest priority.
THEOREM OrderCorrect == Spec => []WaitersOrdered
<1>1. Init => WaitersOrdered
  BY DEF Init, ListInit, WaitersOrdered
<1>2. TypeInv /\ LinkInv /\ WaitersOrdered /\ [Next]_vars => WaitersOrdered'
  BY OrderedStep
<1> QED
  BY <1>1, <1>2, TypeInvariance, LinkInvariance, PTL DEF Spec

-----------------------------------------------------------------------------
LEMMA EnterBefore ==
  ASSUME NEW list \in Seq(Tasks), Ordered(list), NEW w \in Tasks, w \notin Range(list),
         NEW k \in 1..(Len(list) + 1), BlockedPlace(list, w, k),
         NEW t \in Tasks, NEW u \in Tasks, Priority[t] = Priority[u], t \in Range(list),
         \/ Before(list, t, u)
         \/ u \notin Range(list) /\ u \in Range(InsertAt(list, k, w))
  PROVE  Before(InsertAt(list, k, w), t, u)
<1> DEFINE new == InsertAt(list, k, w)
<1>1. /\ Len(new) = Len(list) + 1
      /\ \A i \in 1..(Len(list) + 1) :
           new[i] = IF i < k THEN list[i] ELSE IF i = k THEN w ELSE list[i - 1]
  BY InsertAtElements
<1>2. new \in Seq(Tasks) /\ Range(new) = Range(list) \cup {w}
  BY InsertAtType, InsertAtRange
<1>3. DOMAIN list = 1..Len(list) /\ DOMAIN new = 1..(Len(list) + 1) /\ Len(list) \in Nat
  BY <1>1, <1>2, LenProperties
<1>4. \A i \in DOMAIN list : Priority[list[i]] = Priority[w] => i < k
  BY EnterOrdered
<1> HIDE DEF new
<1> DEFINE place(i) == IF i < k THEN i ELSE i + 1
<1>5. \A i \in DOMAIN list : place(i) \in DOMAIN new /\ new[place(i)] = list[i]
  BY <1>1, <1>3
<1>6. CASE Before(list, t, u)
  <2> PICK i \in DOMAIN list, j \in DOMAIN list : i < j /\ list[i] = t /\ list[j] = u
    BY <1>6 DEF Before
  <2>1. place(i) < place(j)
    BY <1>3
  <2> QED
    BY <1>5, <2>1 DEF Before, new
<1>7. CASE u \notin Range(list) /\ u \in Range(new)
  <2>1. u = w
    BY <1>2, <1>7
  <2> PICK i \in DOMAIN list : list[i] = t
    BY DEF Range
  <2>2. i < k
    BY <1>4, <2>1
  <2>3. i \in DOMAIN new /\ new[i] = t /\ k \in DOMAIN new /\ new[k] = u
    BY <1>1, <1>3, <2>1, <2>2
  <2> QED
    BY <2>2, <2>3 DEF Before, new
<1> QED
  BY <1>6, <1>7 DEF new

LEMMA TailBefore ==
  ASSUME NEW list \in Seq(Tasks), list # <<>>, IsInjective(list),
         NEW t \in Range(Tail(list)), NEW u \in Tasks,
         \/ Before(list, t, u)
         \/ u \notin Range(list) /\ u \in Range(Tail(list))
  PROVE  Before(Tail(list), t, u)
<1> DEFINE rest == Tail(list)
<1>1. /\ rest \in Seq(Tasks) /\ Len(rest) = Len(list) - 1
      /\ \A i \in 1..Len(rest) : rest[i] = list[i + 1]
      /\ Head(list) = list[1]
  BY HeadTailProperties
<1>2. DOMAIN list = 1..Len(list) /\ DOMAIN rest = 1..Len(rest) /\ Len(list) \in Nat
  BY <1>1, LenProperties
<1>3. Range(rest) = Range(list) \ {Head(list)}
  BY TailElements
<1> HIDE DEF rest
<1>4. Before(list, t, u)
  BY <1>3 DEF rest
<1> PICK i \in DOMAIN list, j \in DOMAIN list : i < j /\ list[i] = t /\ list[j] = u
  BY <1>4 DEF Before
<1>5. i # 1
  BY <1>1, <1>3 DEF rest
<1>6. /\ i - 1 \in DOMAIN rest /\ rest[i - 1] = t
      /\ j - 1 \in DOMAIN rest /\ rest[j - 1] = u
      /\ i - 1 < j - 1
  BY <1>1, <1>2, <1>5
<1> QED
  BY <1>6 DEF Before, rest

\* Nobody of the same priority overtakes a waiter or is served before it.
THEOREM FirstComeFirstServed == Spec => NoOvertaking
<1> DEFINE keeps == \A l \in BlockedLists : \A t, u \in Tasks :
             LET joins == ~WaitsFor(u, l) /\ WaitsFor(u, l)'
             IN  /\ Priority[t] = Priority[u]
                 /\ WaitsFor(t, l) /\ WaitsFor(t, l)'
                 /\ Before(blocked_list[l], t, u) \/ joins
                 => Before(blocked_list[l]', t, u)
<1>1. TypeInv /\ LinkInv /\ WaitersOrdered /\ [Next]_vars => [keeps]_vars
  <2> SUFFICES ASSUME TypeInv, LinkInv, WaitersOrdered, [Next]_vars,
                      NEW l \in BlockedLists, NEW t \in Tasks, NEW u \in Tasks,
                      Priority[t] = Priority[u], WaitsFor(t, l), WaitsFor(t, l)',
                      Before(blocked_list[l], t, u) \/ (~WaitsFor(u, l) /\ WaitsFor(u, l)')
               PROVE  Before(blocked_list'[l], t, u)
    OBVIOUS
  <2>1. /\ blocked_list[l] \in Seq(Tasks)
        /\ Ordered(blocked_list[l])
        /\ IsInjective(blocked_list[l])
        /\ t \in Range(blocked_list[l]) /\ t \in Range(blocked_list'[l])
        /\ \/ Before(blocked_list[l], t, u)
           \/ u \notin Range(blocked_list[l]) /\ u \in Range(blocked_list'[l])
    BY ListsOfTasks DEF WaitersOrdered, Ordered, LinkInv, WaitLinked, WaitsFor
  <2>2. CASE blocked_list'[l] = blocked_list[l]
    BY <2>1, <2>2
  <2>3. CASE blocked_list'[l] = <<>>
    BY <2>1, <2>3 DEF Range
  <2>4. CASE blocked_list[l] # <<>> /\ blocked_list'[l] = Tail(blocked_list[l])
    BY <2>1, <2>4, TailBefore
  <2>5. ASSUME NEW w \in Tasks, NEW k \in 1..(Len(blocked_list[l]) + 1),
               BlockedPlace(blocked_list[l], w, k), w \notin Range(blocked_list[l]),
               blocked_list'[l] = InsertAt(blocked_list[l], k, w)
        PROVE  Before(blocked_list'[l], t, u)
    BY <2>1, <2>5, EnterBefore
  <2> QED
    BY <2>2, <2>3, <2>4, <2>5, BlockedListSteps
<1>2. Spec => [][keeps]_vars
  BY <1>1, TypeInvariance, LinkInvariance, OrderCorrect, PTL DEF Spec
<1> QED
  BY <1>2 DEF NoOvertaking

-----------------------------------------------------------------------------
(* The abstract semaphore.                                                 *)

(* create_semaphore clears a wait list.  It takes nobody out of it because *)
(* a semaphore that does not exist has no waiters.                         *)

OnlyExistingAwaited ==
  \A s \in Semaphores : s \notin sem_list => blocked_list[WaitList(s)] = <<>>

LEMMA ExistingStep ==
  ASSUME TypeInv, OnlyExistingAwaited, [Next]_vars
  PROVE  OnlyExistingAwaited'
<1> USE WaitListKnown, WaitListsDiffer DEF TypeInv, CommTypeInv, OnlyExistingAwaited
<1>1. ASSUME NEW s \in Semaphores, NEW v \in InitialCounts, CreateSemaphore(s, v)
      PROVE  OnlyExistingAwaited'
  BY <1>1 DEF CreateSemaphore
<1>2. ASSUME NEW s \in Semaphores, s \in sem_list, ListTouched(WaitList(s)), UNCHANGED sem_list
      PROVE  OnlyExistingAwaited'
  BY <1>2 DEF ListTouched
<1>3. ASSUME NEW t \in Tasks, NEW s \in Semaphores, PostCount(t, s) \/ WaitTake(t, s)
      PROVE  OnlyExistingAwaited'
  BY <1>3 DEF PostCount, WaitTake
<1>4. ASSUME NEW t \in Tasks, NEW s \in Semaphores, PostWake(t, s)
      PROVE  OnlyExistingAwaited'
  BY <1>2, <1>4, WakeTouches DEF PostWake, semVars
<1>5. ASSUME NEW t \in Tasks, NEW s \in Semaphores, WaitBlock(t, s)
      PROVE  OnlyExistingAwaited'
  BY <1>2, <1>5, BlockTouches DEF WaitBlock, semVars
<1>6. CASE UNCHANGED semVars /\
           \A s \in Semaphores : blocked_list'[WaitList(s)] = blocked_list[WaitList(s)]
  BY <1>6 DEF semVars
<1> QED
  BY <1>1, <1>3, <1>4, <1>5, <1>6, SemaphoreSteps

-----------------------------------------------------------------------------
(* The steps of the abstract semaphore.  waiting is what TokenSpec has for  *)
(* the abstract variable.                                                  *)

waiting == [s \in Semaphores |-> Range(blocked_list[WaitList(s)])]

\* Only the waiters of s change.
LEMMA WaitingOf ==
  ASSUME TypeInv, NEW s \in Semaphores, ListTouched(WaitList(s)), NEW S,
         Range(blocked_list'[WaitList(s)]) = S
  PROVE  waiting' = [waiting EXCEPT ![s] = S]
<1>1. \A r \in Semaphores : r # s => blocked_list'[WaitList(r)] = blocked_list[WaitList(r)]
  BY WaitListKnown, WaitListsDiffer DEF ListTouched
<1>2. \A r \in Semaphores : Range(blocked_list'[WaitList(r)])
                              = IF r = s THEN S ELSE Range(blocked_list[WaitList(r)])
  BY <1>1
<1> QED
  BY <1>2 DEF waiting

LEMMA CreateMaps ==
  ASSUME TypeInv, OnlyExistingAwaited, NEW s \in Semaphores, NEW v \in InitialCounts,
         CreateSemaphore(s, v)
  PROVE  Tokens!Create(s)
<1>1. /\ s \notin sem_list /\ sem_list' = sem_list \cup {s}
      /\ sem_val' = [sem_val EXCEPT ![s] = v]
      /\ blocked_list' = [blocked_list EXCEPT ![WaitList(s)] = <<>>]
  BY DEF CreateSemaphore
<1>2. blocked_list' = blocked_list
  BY <1>1, WaitListKnown DEF OnlyExistingAwaited, TypeInv, CommTypeInv
<1>3. v \in 0..SEM_MAX
  BY SemaphoresAssumption
<1>4. waiting' = waiting
  BY <1>2 DEF waiting
<1> QED
  BY <1>1, <1>3, <1>4 DEF Tokens!Create, waiting

\* A post that nobody waits for; at SEM_MAX it is lost.
LEMMA PostMaps ==
  ASSUME TypeInv, NEW t \in Tasks, NEW s \in Semaphores, PostCount(t, s)
  PROVE  Tokens!Post(s) \/ UNCHANGED <<sem_list, sem_val, blocked_list>>
<1>1. /\ s \in sem_list /\ blocked_list[WaitList(s)] = <<>>
      /\ sem_val' = [sem_val EXCEPT ![s] = Incremented(@)]
      /\ UNCHANGED <<sem_list, blocked_list>>
  BY DEF PostCount
<1>2. waiting' = waiting /\ waiting[s] = {}
  BY <1>1 DEF waiting, Range
<1>3. CASE sem_val[s] < SEM_MAX
  BY <1>1, <1>2, <1>3 DEF Tokens!Post, waiting, Incremented
<1>4. CASE ~(sem_val[s] < SEM_MAX)
  BY <1>1, <1>4 DEF Incremented, TypeInv, CommTypeInv
<1> QED
  BY <1>3, <1>4

\* The head of the wait list is a waiter of the highest priority.
LEMMA WakeMaps ==
  ASSUME TypeInv, LinkInv, WaitersOrdered, NEW t \in Tasks, NEW s \in Semaphores,
         PostWake(t, s)
  PROVE  \E u \in Tasks : Tokens!HandOver(s, u)
<1> DEFINE list == blocked_list[WaitList(s)]
           waiter == Head(list)
<1>1. /\ s \in sem_list /\ list # <<>> /\ WakeHead(WaitList(s))
      /\ UNCHANGED <<sem_list, sem_val>>
  BY DEF PostWake, semVars
<1>2. ListTouched(WaitList(s)) /\ blocked_list'[WaitList(s)] = Tail(list)
  <2>1. ListTouched(WaitList(s))
    BY <1>1, WakeTouches
  <2>2. task_state[waiter] # "DELAY"
    BY <1>1, WakeableWaits, WaitListKnown DEF WakeHead, WaitingState
  <2>3. blocked_list' = [blocked_list EXCEPT ![WaitList(s)] = Tail(list)]
    BY <1>1, <2>2 DEF WakeHead, remove_from_blocked_list
  <2> QED
    BY <2>1, <2>3, WaitListKnown DEF TypeInv, CommTypeInv
<1>3. list \in Seq(Tasks) /\ IsInjective(list)
  BY WaitListKnown, ListsOfTasks DEF LinkInv, WaitLinked
<1>4. Range(Tail(list)) = Range(list) \ {waiter} /\ waiter \in Range(list) /\ waiter \in Tasks
  BY <1>1, <1>3, TailElements, HeadTailProperties
<1>5. \A u \in Range(list) : Priority[u] <= Priority[waiter]
  <2>1. \A i, j \in DOMAIN list : i < j => Priority[list[i]] >= Priority[list[j]]
    BY WaitListKnown DEF WaitersOrdered
  <2>2. waiter = list[1] /\ 1 \in DOMAIN list /\ DOMAIN list = 1..Len(list)
    BY <1>1, <1>3, HeadTailProperties
  <2>3. \A i \in DOMAIN list : list[i] \in Tasks /\ Priority[list[i]] \in Nat
    BY <1>3, TasksAssumption
  <2>4. \A i \in DOMAIN list : Priority[list[i]] <= Priority[waiter]
    BY <2>1, <2>2, <2>3
  <2> QED
    BY <2>4 DEF Range
<1>6. waiting' = [waiting EXCEPT ![s] = Range(list) \ {waiter}]
  BY <1>2, <1>4, WaitingOf
<1>7. waiting[s] = Range(list)
  BY DEF waiting
<1> HIDE DEF list, waiter
<1>8. Tokens!HandOver(s, waiter)
  BY <1>1, <1>4, <1>5, <1>6, <1>7 DEF Tokens!HandOver, waiting
<1> QED
  BY <1>4, <1>8

LEMMA TakeMaps ==
  ASSUME NEW t \in Tasks, NEW s \in Semaphores, WaitTake(t, s)
  PROVE  Tokens!Take(s)
<1>1. waiting' = waiting
  BY DEF WaitTake, waiting
<1> QED
  BY <1>1 DEF WaitTake, HasToken, Tokens!Take, waiting

\* A task that blocks runs, and so waits nowhere yet.
LEMMA BlockMaps ==
  ASSUME TypeInv, LinkInv, NoIdleTokens, NEW t \in Tasks, NEW s \in Semaphores,
         WaitBlock(t, s)
  PROVE  Tokens!Wait(s, t)
<1> DEFINE list == blocked_list[WaitList(s)]
<1>1. /\ s \in sem_list /\ ~HasToken(s) /\ BlockIn(t, WaitList(s), "WAITING_SEMA")
      /\ UNCHANGED <<sem_list, sem_val>> /\ Executing(t)
  BY DEF WaitBlock, semVars, Calling, At
<1>2. sem_val[s] = 0
  BY <1>1 DEF HasToken, NoIdleTokens, TypeInv, CommTypeInv
<1>3. \A r \in Semaphores : t \notin Range(blocked_list[WaitList(r)])
  BY <1>1, BlockerReady, WaitListKnown DEF WaitsFor
<1>4. list \in Seq(Tasks) /\ IsInjective(list)
  BY WaitListKnown, ListsOfTasks DEF LinkInv, WaitLinked
<1>5. Range(blocked_list'[WaitList(s)]) = Range(list) \cup {t}
  <2>1. PICK k \in 1..(Len(list) + 1) :
          blocked_list' = [blocked_list EXCEPT ![WaitList(s)] = InsertAt(@, k, t)]
    BY <1>1 DEF BlockIn
  <2>2. blocked_list'[WaitList(s)] = InsertAt(list, k, t)
    BY <2>1, WaitListKnown DEF TypeInv, CommTypeInv
  <2> HIDE DEF list
  <2>3. Range(InsertAt(list, k, t)) = Range(list) \cup {t}
    BY <1>4, InsertAtRange
  <2> QED
    BY <2>2, <2>3
<1>6. waiting' = [waiting EXCEPT ![s] = Range(list) \cup {t}]
  BY <1>1, <1>5, BlockTouches, WaitingOf
<1>7. waiting[s] = Range(list) /\ \A r \in Semaphores : t \notin waiting[r]
  BY <1>3 DEF waiting
<1> HIDE DEF list
<1> QED
  BY <1>1, <1>2, <1>6, <1>7 DEF Tokens!Wait, waiting

LEMMA TokenStep ==
  ASSUME TypeInv, LinkInv, WaitersOrdered, NoIdleTokens, OnlyExistingAwaited, [Next]_vars
  PROVE  Tokens!Next \/ UNCHANGED <<sem_list, sem_val, waiting>>
<1>1. ASSUME NEW s \in Semaphores, NEW v \in InitialCounts, CreateSemaphore(s, v)
      PROVE  Tokens!Next
  BY <1>1, CreateMaps DEF Tokens!Next
<1>2. ASSUME NEW t \in Tasks, NEW s \in Semaphores, PostCount(t, s)
      PROVE  Tokens!Next \/ UNCHANGED <<sem_list, sem_val, waiting>>
  BY <1>2, PostMaps DEF Tokens!Next, waiting
<1>3. ASSUME NEW t \in Tasks, NEW s \in Semaphores, PostWake(t, s)
      PROVE  Tokens!Next
  BY <1>3, WakeMaps DEF Tokens!Next
<1>4. ASSUME NEW t \in Tasks, NEW s \in Semaphores, WaitTake(t, s)
      PROVE  Tokens!Next
  BY <1>4, TakeMaps DEF Tokens!Next
<1>5. ASSUME NEW t \in Tasks, NEW s \in Semaphores, WaitBlock(t, s)
      PROVE  Tokens!Next
  BY <1>5, BlockMaps DEF Tokens!Next
<1>6. CASE UNCHANGED semVars /\
           \A s \in Semaphores : blocked_list'[WaitList(s)] = blocked_list[WaitList(s)]
  BY <1>6 DEF semVars, waiting
<1> QED
  BY <1>1, <1>2, <1>3, <1>4, <1>5, <1>6, SemaphoreSteps

LEMMA TokenInit == Init => Tokens!Init /\ OnlyExistingAwaited
BY WaitListKnown DEF Init, ListInit, SemInit, Tokens!Init, OnlyExistingAwaited, Range

\* semaphore.c implements the counting semaphore of CountingSemaphore: no token
\* is lost below SEM_MAX or given twice, a post serves a waiter of the highest
\* priority, and nobody waits while there is a token.
THEOREM TokensImplemented == Spec => TokenSpec
<1>1. TypeInv /\ OnlyExistingAwaited /\ [Next]_vars => OnlyExistingAwaited'
  BY ExistingStep
<1>2. Spec => []OnlyExistingAwaited
  BY <1>1, TokenInit, TypeInvariance, PTL DEF Spec
<1>3. TypeInv /\ LinkInv /\ WaitersOrdered /\ NoIdleTokens /\ OnlyExistingAwaited
        /\ [Next]_vars => [Tokens!Next]_<<sem_list, sem_val, waiting>>
  BY TokenStep
<1> QED
  BY <1>2, <1>3, TokenInit, TypeInvariance, LinkInvariance, OrderCorrect, TokensCorrect, PTL
  DEF Spec, TokenSpec, Tokens!Spec, waiting
=============================================================================
