---------------------------- MODULE TimerProofs ----------------------------
(***************************************************************************)
(* On every device where the number that disable_ctx_sw writes has an      *)
(* implemented bit: a task in a blocked state is linked, a task is lost in *)
(* one way only, no timer is lost or shared, and the delta list keeps the  *)
(* ticks that are left of every timer.                                     *)
(***************************************************************************)
EXTENDS KernelListProofs

\* From five bits on, 14 stays 8, 12 or 14 and is above both levels.
LEMMA MaskWorks ==
  ASSUME NVIC_PRIO_BITS >= 5, basepri = BASEPRI_MASK_PENDSV_SYSTICK
  PROVE  SysTickMasked /\ PendSVMasked
<1> USE DEF SysTickMasked, PendSVMasked, Masked, Implemented, SysTickPriority,
            PendSVPriority, BASEPRI_MASK_PENDSV_SYSTICK, PriorityStep
<1>1. CASE NVIC_PRIO_BITS = 5
  <2>1. PriorityStep = 8
    BY <1>1
  <2> QED
    BY <2>1
<1>2. CASE NVIC_PRIO_BITS = 6
  <2>1. PriorityStep = 4
    BY <1>2
  <2> QED
    BY <2>1
<1>3. CASE NVIC_PRIO_BITS = 7
  <2>1. PriorityStep = 2
    BY <1>3
  <2> QED
    BY <2>1
<1>4. CASE NVIC_PRIO_BITS = 8
  <2>1. PriorityStep = 1
    BY <1>4
  <2> QED
    BY <2>1
<1> QED
  BY <1>1, <1>2, <1>3, <1>4, PrioBitsAssumption

(***************************************************************************)
(* The critical section of set_timer: a task that has armed its timer and  *)
(* is not blocked yet runs with the mask set, and its timer stays armed.   *)
(* That the timers of tasks in DELAY are armed follows from it.            *)
(***************************************************************************)
Arming(t) == pc[t] = "delay_block"

ArmingMasked ==
  \A t \in Tasks : Arming(t) =>
    /\ boot = "kernel" /\ curr_task_ptr = t
    /\ basepri = BASEPRI_MASK_PENDSV_SYSTICK
    /\ Delayed(t)
    /\ armed[t].task = t

\* Where no task delays, none is in set_timer.
OnlyDelaysArm == "delay" \notin Calls => \A t \in Tasks : ~Arming(t)

DelayTimed == \A t \in Tasks : task_state[t] = "DELAY" => Delayed(t)

\* Who is WAITING is in a list; the list of a semaphore is used after
\* create_semaphore only, and no list before the kernel runs.
WaitListed ==
  /\ \A t \in Tasks : task_state[t] \in WaitingState => Waits(t)
  /\ boot = "main" => \A l \in BlockedLists : blocked_list[l] = <<>>

BlockInv == ArmingMasked /\ OnlyDelaysArm /\ DelayTimed /\ WaitListed /\ OnlyExistingAwaited

LEMMA BlockInvImpliesBlockedIsLinked == LinkInv /\ BlockInv => BlockedIsLinked
BY DEF LinkInv, StateLinked, BlockInv, DelayTimed, WaitListed, Waits, BlockedIsLinked

LEMMA BlockInit == Init => BlockInv
<1> SUFFICES ASSUME Init PROVE BlockInv
  OBVIOUS
<1>1. \A t \in Tasks : task_state[t] = "ABSENT" /\ pc[t] = "user"
  BY TasksAssumption DEF Init, ListInit, SchedInit
<1>2. \A l \in BlockedLists : blocked_list[l] = <<>>
  BY DEF Init, ListInit
<1> QED
  BY <1>1, <1>2, WaitListKnown
  DEF BlockInv, ArmingMasked, OnlyDelaysArm, Arming, DelayTimed, WaitListed,
      OnlyExistingAwaited, WaitingState

-----------------------------------------------------------------------------
(* Which steps matter.                                                     *)

\* While a task is in one of the two critical sections that span several steps,
\* nobody else takes a step.
LEMMA MaskedAlone ==
  ASSUME NVIC_PRIO_BITS >= 5, TypeInv, [Next]_vars,
         NEW t \in Tasks, pc[t] \in {"delay_block", "queue_arm"}, boot = "kernel",
         curr_task_ptr = t, basepri = BASEPRI_MASK_PENDSV_SYSTICK
  PROVE  DelayBlock(t) \/ QueueArm(t) \/ UNCHANGED vars
<1>1. /\ boot = "kernel" /\ curr_task_ptr = t /\ pc[t] \in {"delay_block", "queue_arm"}
      /\ SysTickMasked /\ PendSVMasked
  BY MaskWorks
<1>2. \A u \in Tasks, label \in PC : At(u, label) => u = t /\ label = pc[t]
  BY <1>1 DEF At, Executing
<1>3. \A u \in Tasks, call \in Calls : ~Calling(u, call)
  BY <1>1, <1>2 DEF Calling, PC
<1>4. ~Creator /\ ~Tick /\ ~PendSV /\ ~StartKernel
  BY <1>1, <1>3 DEF Creator, Calling, Tick, PendSV, StartKernel
<1>5. \A u \in Tasks : ~Schedule(u)
  BY <1>1, <1>2 DEF Schedule, SchedIndex, SchedLoad, SchedStore, SchedCheck, SchedCurrent,
              SchedMatch, SchedPreempt, SchedCommit, SchedSwitch, PC, SchedPC
<1>6. ~SchedulerStep
  BY <1>3, <1>4, <1>5 DEF SchedulerStep, CreateTask, CreateRefused, YieldTask, YieldRefused,
                          YieldCall, Calling
<1>7. ~SemaphoreStep
  BY <1>3, <1>4 DEF SemaphoreStep, CreateSemaphore, CreateSemaphoreRefused, PostCount,
                    PostWake, PostRefused, WaitTake, WaitBlock, WaitRefused, Calling
<1>8. ASSUME TimerStep PROVE DelayBlock(t)
  <2>1. \A u \in Tasks, ms \in Delays : ~DelayTask(u, ms) /\ ~DelayRefused(u, ms)
    BY <1>3 DEF DelayTask, DelayRefused, Calling
  <2>2. \A u \in Tasks : ~DelayExit(u) /\ (DelayBlock(u) => u = t)
    BY <1>1, <1>2 DEF DelayExit, DelayBlock, PC
  <2>3. ~TickIdle /\ ~TickCount /\ ~TickExpire
    BY <1>4 DEF TickIdle, TickCount, TickExpire
  <2> QED
    BY <1>8, <2>1, <2>2, <2>3 DEF TimerStep
<1>9. ASSUME QueueStep PROVE QueueArm(t)
  <2>1. ~QueueCreator
    BY <1>1, <1>3 DEF QueueCreator, Calling
  <2>2. ASSUME NEW u \in Tasks, NEW q \in Queues
        PROVE  ~SendCall(u, q) /\ ~ReceiveCall(u, q)
    BY <1>3 DEF SendCall, ReceiveCall, Calling
  <2>3. ASSUME NEW u \in Tasks, NEW q \in Queues
        PROVE  ~SendResume(u, q) /\ ~ReceiveResume(u, q)
    BY <1>1, <1>2 DEF SendResume, ReceiveResume, PC, QueuePC
  <2>4. ASSUME NEW u \in Tasks PROVE (QueueArm(u) => u = t) /\ ~QueueExit(u)
    BY <1>1, <1>2 DEF QueueArm, QueueExit, PC, QueuePC
  <2>5. \A u \in Tasks, q \in Queues, ms \in Timeouts :
          ~SendRefused(u, q, ms) /\ ~ReceiveWait(u, q, ms) /\ ~ReceiveRefused(u, q, ms)
    BY <2>2 DEF SendRefused, ReceiveWait, ReceiveRefused
  <2>6. \A u \in Tasks, q \in Queues, d \in Messages :
          ~SendNow(u, q, d) /\ \A ms \in Timeouts : ~SendWait(u, q, d, ms)
    BY <2>2 DEF SendNow, SendWait
  <2>7. \A u \in Tasks, q \in Queues : ~ReceiveNow(u, q)
    BY <2>2 DEF ReceiveNow
  <2> QED
    BY <1>9, <2>1, <2>3, <2>4, <2>5, <2>6, <2>7 DEF QueueStep, CreateQueue, CreateQueueFails
<1> QED
  BY <1>6, <1>7, <1>8, <1>9 DEF Next

LEMMA ArmingAlone ==
  ASSUME NVIC_PRIO_BITS >= 5, TypeInv, ArmingMasked, [Next]_vars,
         NEW t \in Tasks, Arming(t)
  PROVE  DelayBlock(t) \/ UNCHANGED vars
BY MaskedAlone DEF ArmingMasked, Arming, QueueArm, At

\* Where the two sections start.
Section == {"delay_block", "queue_arm"}

LEMMA ScheduleNotArming ==
  ASSUME TypeInv, NEW t \in Tasks, Schedule(t), NEW u \in Tasks, pc'[u] \in Section
  PROVE  pc'[u] = pc[u]
<1>1. \/ \E label \in SchedPC : Goto(t, label)
      \/ ReturnFromSchedule(t)
  BY DEF Schedule, SchedIndex, SchedLoad, SchedStore, SchedCheck, SchedCurrent, SchedMatch,
         SchedPreempt, SchedCommit, SchedSwitch, SchedPC
<1>2. ret[t] \notin Section
  BY DEF TypeInv, SchedTypeOK, ReturnPC, Section
<1> QED
  BY <1>1, <1>2 DEF Section, Goto, ReturnFromSchedule, SchedPC, TypeInv, SchedTypeOK

QueueWaits(t) ==
  \E q \in Queues, l \in BlockedLists, state \in WaitingState, ms \in Timeouts,
     resume \in ReturnPC :
    Executing(t) /\ ms > 0 /\ WaitInQueue(t, q, l, state, ms, resume)

\* Only a delay call, and a send or a receive with a time limit, start one.
LEMMA SectionSteps ==
  ASSUME TypeInv, [Next]_vars, NEW u \in Tasks, pc'[u] \in Section, pc'[u] # pc[u]
  PROVE  \/ \E ms \in Delays : DelayTask(u, ms)
         \/ QueueWaits(u)
<1> USE DEF TypeInv, SchedTypeOK
<1>1. ASSUME UNCHANGED pc PROVE FALSE
  BY <1>1
<1>2. ASSUME NEW t \in Tasks, NEW label \in PC \ Section, Goto(t, label) PROVE FALSE
  BY <1>2 DEF Goto
<1>3. CASE SchedulerStep
  <2>1. ASSUME NEW t \in Tasks, NEW v \in Tasks, YieldTask(t, v) \/ YieldRefused(t, v)
        PROVE  FALSE
    BY <2>1, <1>1, <1>2 DEF YieldTask, YieldRefused, schedVars, CallSchedule, PC, SchedPC, Section
  <2>2. ASSUME NEW v \in Tasks, CreateTask(v) \/ CreateRefused(v) PROVE FALSE
    BY <2>2, <1>1 DEF CreateTask, CreateRefused, schedVars
  <2> QED
    BY <1>1, <1>3, <2>1, <2>2, ScheduleNotArming DEF SchedulerStep, PendSV, StartKernel, schedVars
<1>4. CASE TimerStep
  <2>1. ASSUME NEW t \in Tasks, NEW ms \in Delays, DelayTask(t, ms) PROVE t = u
    BY <2>1 DEF DelayTask, Goto
  <2>2. ASSUME NEW t \in Tasks, NEW ms \in Delays, DelayRefused(t, ms) PROVE FALSE
    BY <2>2, <1>1 DEF DelayRefused, schedVars
  <2>3. ASSUME NEW t \in Tasks, DelayBlock(t) \/ DelayExit(t) PROVE FALSE
    BY <2>3, <1>2 DEF DelayBlock, DelayExit, CallSchedule, PC, SchedPC, Section
  <2>4. CASE TickIdle \/ TickCount \/ TickExpire
    BY <2>4, <1>1 DEF TickIdle, TickCount, TickExpire, schedVars
  <2> QED
    BY <1>4, <2>1, <2>2, <2>3, <2>4 DEF TimerStep
<1>5. CASE SemaphoreStep
  <2>1. ASSUME NEW r \in Semaphores, NEW v \in InitialCounts, CreateSemaphore(r, v)
        PROVE  FALSE
    BY <2>1, <1>1 DEF CreateSemaphore, schedVars
  <2>2. ASSUME NEW r \in Semaphores, CreateSemaphoreRefused(r) PROVE FALSE
    BY <2>2, <1>1 DEF CreateSemaphoreRefused, schedVars
  <2>3. ASSUME NEW t \in Tasks, NEW r \in Semaphores,
               \/ PostCount(t, r) \/ PostWake(t, r) \/ PostRefused(t, r)
               \/ WaitTake(t, r) \/ WaitBlock(t, r) \/ WaitRefused(t, r)
        PROVE  FALSE
    BY <2>3, <1>1, <1>2 DEF PostCount, PostWake, PostRefused, WaitTake, WaitBlock, WaitRefused,
       CallSchedule, schedVars, PC, SchedPC, Section
  <2> QED
    BY <1>5, <2>1, <2>2, <2>3 DEF SemaphoreStep
<1>6. CASE QueueStep
  <2>0. {"user", "sched_index"} \subseteq PC \ Section
    BY DEF PC, SchedPC, QueuePC, Section
  <2>1. ASSUME NEW t \in Tasks, NEW l, Notify(t, l) PROVE FALSE
    BY <2>0, <2>1, <1>2 DEF Notify, CallSchedule
  <2>2. ASSUME NEW t \in Tasks, ReturnFalse(t) \/ QueueArm(t) \/ QueueExit(t) PROVE FALSE
    BY <2>0, <2>2, <1>2 DEF ReturnFalse, QueueArm, QueueExit
  <2>3. ASSUME NEW t \in Tasks, NEW q, NEW l, NEW state, NEW ms, NEW resume,
               WaitInQueue(t, q, l, state, ms, resume)
        PROVE  t = u /\ ms > 0
    BY <2>0, <2>3, <1>2 DEF WaitInQueue, Goto
  <2>4. ASSUME NEW q, NEW length, NEW size, CreateQueue(q, length, size) \/ CreateQueueFails
        PROVE  FALSE
    BY <2>4, <1>1 DEF CreateQueue, CreateQueueFails, schedVars
  <2>5. ASSUME NEW t \in Tasks, NEW q, NEW d, Push(t, q, d) \/ Pop(t, q) PROVE FALSE
    BY <2>1, <2>5 DEF Push, Pop
  <2>6. ASSUME NEW t \in Tasks, NEW q \in Queues, NEW d, NEW ms \in Timeouts,
               SendWait(t, q, d, ms) \/ ReceiveWait(t, q, ms)
        PROVE  QueueWaits(u)
    BY <2>3, <2>6, QueueListsKnown
    DEF SendWait, ReceiveWait, SendCall, ReceiveCall, Calling, At, QueueWaits, WaitingState, ReturnPC
  <2> QED
    BY <1>6, <2>2, <2>4, <2>5, <2>6 DEF QueueStep, SendNow, SendRefused,
       SendResume, ReceiveNow, ReceiveRefused, ReceiveResume
<1> QED
  BY <1>1, <1>3, <1>4, <1>5, <1>6 DEF Next, vars, schedVars

LEMMA ArmingSteps ==
  ASSUME TypeInv, [Next]_vars, NEW u \in Tasks, Arming(u)', ~Arming(u)
  PROVE  \E ms \in Delays : DelayTask(u, ms)
<1>1. ~QueueWaits(u)
  BY DEF QueueWaits, WaitInQueue, Goto, Arming, TypeInv, SchedTypeOK
<1> QED
  BY <1>1, SectionSteps DEF Arming, Section

\* A task that is in DELAY after a step was before, or the step blocks it; the
\* task of the timer that expires is not.
LEMMA DelayStateSteps ==
  ASSUME TypeInv, [Next]_vars, NEW t \in Tasks, task_state'[t] = "DELAY"
  PROVE  \/ DelayBlock(t)
         \/ task_state[t] = "DELAY" /\ (TickExpire => t # Head(delay_list).task)
<1> USE DEF TypeInv, ListTypeInv
<1>1. ASSUME TickExpire
      PROVE  task_state[t] = "DELAY" /\ t # Head(delay_list).task
  <2> DEFINE u == Head(delay_list).task
             states == IF task_state[u] = "DELAY" THEN [task_state EXCEPT ![u] = "READY"]
                                                  ELSE task_state
  <2>1. u \in Tasks
    BY <1>1, HeadTimer DEF TickExpire
  <2>2. states \in [Tasks \cup {Idle} -> TaskState] /\ ScheduleNow(states, curr_task_ptr)
    BY <1>1, <2>1 DEF TickExpire, TaskState
  <2>3. states[t] = "DELAY"
    BY <2>2, ScheduleNowBlocksNobody DEF BlockedState, WaitingState
  <2> QED
    BY <2>1, <2>3
<1>2. ASSUME QuietStep PROVE task_state[t] = "DELAY"
  BY <1>2 DEF QuietStep, BlockedState, WaitingState
<1>3. ASSUME NEW u \in Tasks, CreateTask(u) PROVE task_state[t] = "DELAY"
  BY <1>3 DEF CreateTask
<1>4. ASSUME NEW u \in Tasks, NEW v \in Tasks, YieldTask(u, v) PROVE task_state[t] = "DELAY"
  BY <1>4 DEF YieldTask
<1>5. ASSUME NEW u \in Tasks, DelayBlock(u) PROVE u = t \/ task_state[t] = "DELAY"
  BY <1>5 DEF DelayBlock
<1>6. ASSUME ListsEmptied PROVE task_state[t] = "DELAY"
  BY <1>6 DEF ListsEmptied, listVars
<1>7. ASSUME Wakes \/ Blocks PROVE task_state[t] = "DELAY"
  BY <1>7 DEF Wakes, WakeHead, Blocks, BlockIn, WaitingState
<1> QED
  BY <1>1, <1>2, <1>3, <1>4, <1>5, <1>6, <1>7, ListSteps

-----------------------------------------------------------------------------
(* The tasks in the delay list.                                            *)

\* clear_timer of the task a send or a receive wakes.
TimerCleared ==
  \E l \in BlockedLists : /\ blocked_list[l] # <<>>
                          /\ WakeHead(l)
                          /\ clear_timer(Head(blocked_list[l]))

TimerArmed ==
  \E t \in Tasks, ms \in Int, id \in TimerIds :
    ArmTimer(t, ms, id) /\ (Calling(t, "delay") \/ pc[t] = "queue_arm")

LEMMA NotifyTimers ==
  ASSUME NEW t, NEW l \in BlockedLists, Notify(t, l)
  PROVE  TimerCleared \/ UNCHANGED delay_list
BY DEF Notify, TimerCleared, Awaited, timerVars

LEMMA DelayListSteps ==
  ASSUME TypeInv, [Next]_vars
  PROVE  \/ UNCHANGED delay_list
         \/ TimerArmed
         \/ TickCount
         \/ TickExpire
         \/ TimerCleared
<1>1. CASE SchedulerStep \/ SemaphoreStep \/ UNCHANGED vars
  BY <1>1 DEF SchedulerStep, SemaphoreStep, vars, timerVars
<1>2. CASE TimerStep
  <2>1. ASSUME NEW t \in Tasks, NEW ms \in Delays, DelayTask(t, ms) PROVE TimerArmed
    <3>1. ms \in Int
      BY TimersAssumption
    <3> QED
      BY <2>1, <3>1 DEF DelayTask, TimerArmed
  <2> QED
    BY <1>2, <2>1 DEF TimerStep, DelayRefused, DelayBlock, DelayExit, TickIdle, timerVars
<1>3. CASE QueueStep
  <2>1. ASSUME NEW t \in Tasks, QueueArm(t) PROVE TimerArmed \/ UNCHANGED delay_list
    <3>1. request[t].ms \in Int
      <4>1. request[t].ms \in Timeouts \cup {0}
        BY DEF TypeInv, CommTypeInv
      <4> QED
        BY <4>1, QueueArguments
    <3> QED
      BY <2>1, <3>1 DEF QueueArm, At, ReturnFalse, TimerArmed, timerVars
  <2>2. ASSUME NEW t \in Tasks, NEW q \in Queues, NEW d, Push(t, q, d) \/ Pop(t, q)
        PROVE  TimerCleared \/ UNCHANGED delay_list
    BY <2>2, NotifyTimers, QueueListsKnown DEF Push, Pop
  <2>3. ASSUME NEW t \in Tasks, NEW q, NEW d, NEW ms,
               \/ SendWait(t, q, d, ms) \/ ReceiveWait(t, q, ms)
               \/ SendRefused(t, q, ms) \/ ReceiveRefused(t, q, ms) \/ QueueExit(t)
        PROVE  UNCHANGED delay_list
    BY <2>3 DEF SendWait, ReceiveWait, WaitInQueue, SendRefused, ReceiveRefused,
                ReturnFalse, QueueExit, timerVars
  <2>4. ASSUME NEW q, NEW length, NEW size, CreateQueue(q, length, size) \/ CreateQueueFails
        PROVE  UNCHANGED delay_list
    BY <2>4 DEF CreateQueue, CreateQueueFails, timerVars
  <2>5. ASSUME NEW t \in Tasks, NEW q \in Queues,
               \/ \E d \in Messages : SendNow(t, q, d)
               \/ ReceiveNow(t, q) \/ SendResume(t, q) \/ ReceiveResume(t, q)
        PROVE  TimerCleared \/ UNCHANGED delay_list
    BY <2>2, <2>5 DEF SendNow, ReceiveNow, SendResume, ReceiveResume, ReturnFalse, timerVars
  <2>6. ASSUME NEW t \in Tasks, QueueExit(t) PROVE UNCHANGED delay_list
    BY <2>6 DEF QueueExit, timerVars
  <2> QED
    BY <1>3, <2>1, <2>3, <2>4, <2>5, <2>6 DEF QueueStep
<1> QED
  BY <1>1, <1>2, <1>3 DEF Next

\* The timers behind the new one move up by a place.
Inserted(k, timer) ==
  /\ delay_list' \in Seq([id : TimerIds, task : Tasks, delay : Int])
  /\ Len(delay_list') = Len(delay_list) + 1
  /\ delay_list'[k] = timer
  /\ \A i \in 1..Len(delay_list) :
       LET old == delay_list[i] IN
       /\ i < k => delay_list'[i] = old
       /\ i >= k => /\ delay_list'[i + 1].id = old.id
                    /\ delay_list'[i + 1].task = old.task
                    /\ delay_list'[i + 1].delay =
                         IF i = k THEN old.delay - timer.delay ELSE old.delay

LEMMA ArmTimerPlaces ==
  ASSUME TypeInv, NEW t \in Tasks, NEW ms \in Int, NEW id \in TimerIds, ArmTimer(t, ms, id)
  PROVE  \E k \in 1..(Len(delay_list) + 1), left \in 0..ms :
           /\ ScanStopsAt(ms, k, left)
           /\ Inserted(k, [id |-> id, task |-> t, delay |-> left])
<1> PICK k \in 1..(Len(delay_list) + 1), left \in 0..ms :
      ScanStopsAt(ms, k, left) /\ InsertTimer([id |-> id, task |-> t, delay |-> left], k)
  BY DEF ArmTimer
<1> DEFINE timer == [id |-> id, task |-> t, delay |-> left]
           later == [delay_list[k] EXCEPT !.delay = @ - timer.delay]
           rest == IF k <= Len(delay_list)
                     THEN [delay_list EXCEPT ![k].delay = @ - timer.delay]
                     ELSE delay_list
           E == [id : TimerIds, task : Tasks, delay : Int]
<1>1. delay_list \in Seq(ArmedTimer) /\ ArmedTimer \subseteq E
  BY DEF TypeInv, TimerTypeInv, ArmedTimer, Indexable, Ticks
<1>2. delay_list \in Seq(E) /\ Len(delay_list) \in Nat
  BY <1>1, SeqMonotonic, LenProperties
<1>3. timer \in E
  BY TimersAssumption DEF Ticks
<1> HIDE DEF timer, E
<1>4. /\ rest \in Seq(E) /\ Len(rest) = Len(delay_list)
      /\ \A i \in 1..Len(delay_list) : rest[i] = IF i = k THEN later ELSE delay_list[i]
  <2>1. CASE k <= Len(delay_list)
    <3>1. delay_list[k] \in E
      BY <1>2, <2>1, ElementOfSeq
    <3>2. later \in E
      BY <1>3, <3>1 DEF E
    <3>3. rest = [delay_list EXCEPT ![k] = later]
      BY <2>1
    <3> HIDE DEF later, rest
    <3> QED
      BY <1>2, <2>1, <3>2, <3>3, ExceptSeq
  <2>2. CASE ~(k <= Len(delay_list))
    BY <1>2, <2>2
  <2> QED
    BY <2>1, <2>2
<1>5. delay_list' = InsertAt(rest, k, timer)
  BY DEF InsertTimer, timer
<1> HIDE DEF rest, later
<1>6. /\ Len(delay_list') = Len(delay_list) + 1
      /\ \A i \in 1..(Len(delay_list) + 1) :
           delay_list'[i] = IF i < k THEN rest[i] ELSE IF i = k THEN timer ELSE rest[i - 1]
  BY <1>3, <1>4, <1>5, InsertAtElements
<1>7. delay_list' \in Seq(E)
  BY <1>3, <1>4, <1>5, InsertAtType
<1>8. delay_list'[k] = timer
  BY <1>2, <1>6
<1>9. ASSUME NEW i \in 1..Len(delay_list)
      PROVE  /\ i < k => delay_list'[i] = delay_list[i]
             /\ i > k => delay_list'[i + 1] = delay_list[i]
             /\ i = k => delay_list'[i + 1] = later
  <2>1. i < k => delay_list'[i] = rest[i]
    BY <1>2, <1>6
  <2>2. i >= k => delay_list'[i + 1] = rest[i]
    BY <1>2, <1>6
  <2> QED
    BY <1>2, <1>4, <2>1, <2>2
<1>10. k <= Len(delay_list) => /\ later.id = delay_list[k].id /\ later.task = delay_list[k].task
                               /\ later.delay = delay_list[k].delay - timer.delay
  <2>1. k <= Len(delay_list) => delay_list[k] \in E
    BY <1>2, ElementOfSeq
  <2> QED
    BY <2>1 DEF later, E
<1>11. ASSUME NEW i \in 1..Len(delay_list), i >= k
       PROVE  /\ delay_list'[i + 1].id = delay_list[i].id
              /\ delay_list'[i + 1].task = delay_list[i].task
              /\ delay_list'[i + 1].delay =
                   IF i = k THEN delay_list[i].delay - timer.delay ELSE delay_list[i].delay
  <2>1. CASE i = k
    BY <1>9, <1>10, <1>11, <2>1
  <2>2. CASE i > k
    BY <1>9, <2>2
  <2> QED
    BY <1>2, <1>11, <2>1, <2>2
<1>12. Inserted(k, timer)
  BY <1>6, <1>7, <1>8, <1>9, <1>11 DEF Inserted, E
<1> QED
  BY <1>12 DEF timer

LEMMA ArmTimerDelays ==
  ASSUME TypeInv, NEW t \in Tasks, NEW ms \in Int, NEW id \in TimerIds, ArmTimer(t, ms, id)
  PROVE  \A u \in Tasks : Delayed(u)' <=> Delayed(u) \/ u = t
<1> PICK k \in 1..(Len(delay_list) + 1), left \in 0..ms :
      Inserted(k, [id |-> id, task |-> t, delay |-> left])
  BY ArmTimerPlaces
<1>1. delay_list \in Seq(ArmedTimer)
  BY DEF TypeInv, TimerTypeInv
<1>2. /\ DOMAIN delay_list = 1..Len(delay_list) /\ Len(delay_list) \in Nat
      /\ DOMAIN delay_list' = 1..(Len(delay_list) + 1)
      /\ \A i \in 1..Len(delay_list) : delay_list[i] \in ArmedTimer
  BY <1>1, LenProperties, ElementOfSeq DEF Inserted
<1>3. ASSUME NEW i \in 1..Len(delay_list)
      PROVE  /\ i < k => delay_list'[i].task = delay_list[i].task
             /\ i >= k => delay_list'[i + 1].task = delay_list[i].task
  BY DEF Inserted
<1>4. k \in DOMAIN delay_list' /\ delay_list'[k].task = t
  BY <1>2 DEF Inserted
<1>5. ASSUME NEW i \in DOMAIN delay_list
      PROVE  \E j \in DOMAIN delay_list' : delay_list'[j].task = delay_list[i].task
  <2>1. i \in DOMAIN delay_list' /\ i + 1 \in DOMAIN delay_list' /\ (i < k \/ i >= k)
    BY <1>2
  <2> QED
    BY <1>2, <1>3, <2>1
<1>6. ASSUME NEW j \in DOMAIN delay_list', j # k
      PROVE  \E i \in DOMAIN delay_list : delay_list'[j].task = delay_list[i].task
  <2>1. CASE j < k
    <3>1. j \in DOMAIN delay_list
      BY <1>2, <2>1
    <3> QED
      BY <1>2, <1>3, <2>1, <3>1
  <2>2. CASE j > k
    <3>1. j - 1 \in DOMAIN delay_list /\ j - 1 >= k /\ (j - 1) + 1 = j
      BY <1>2, <2>2
    <3> QED
      BY <1>2, <1>3, <3>1
  <2> QED
    BY <1>2, <1>6, <2>1, <2>2
<1> QED
  BY <1>4, <1>5, <1>6 DEF Delayed

LEMMA TickCountPlaces ==
  ASSUME TypeInv, TickCount
  PROVE  /\ delay_list' \in Seq(ArmedTimer) /\ Len(delay_list') = Len(delay_list)
         /\ Len(delay_list) > 0
         /\ \A i \in 1..Len(delay_list) :
              delay_list'[i] = IF i = 1
                THEN [delay_list[i] EXCEPT !.delay = Decremented(@)] ELSE delay_list[i]
<1>1. delay_list \in Seq(ArmedTimer) /\ delay_list # <<>>
  BY DEF TypeInv, TimerTypeInv, TickCount
<1>2. 1 \in 1..Len(delay_list) /\ Len(delay_list) \in Nat
  BY <1>1, EmptySeq, LenProperties
<1>3. delay_list[1] \in ArmedTimer
  BY <1>1, <1>2, ElementOfSeq
<1> DEFINE head == [delay_list[1] EXCEPT !.delay = Decremented(@)]
<1>4. head \in ArmedTimer
  BY <1>3, DecrementedType DEF ArmedTimer
<1>5. delay_list' = [delay_list EXCEPT ![1] = head]
  BY DEF TickCount
<1> HIDE DEF head
<1>6. /\ delay_list' \in Seq(ArmedTimer) /\ Len(delay_list') = Len(delay_list)
      /\ \A i \in 1..Len(delay_list) : delay_list'[i] = IF i = 1 THEN head ELSE delay_list[i]
  BY <1>1, <1>2, <1>4, <1>5, ExceptSeq
<1> QED
  BY <1>2, <1>6 DEF head

LEMMA TickCountDelays ==
  ASSUME TypeInv, TickCount
  PROVE  \A u \in Tasks : Delayed(u)' <=> Delayed(u)
<1>1. delay_list \in Seq(ArmedTimer) /\ delay_list' \in Seq(ArmedTimer)
  BY TickCountPlaces DEF TypeInv, TimerTypeInv
<1>2. /\ DOMAIN delay_list = 1..Len(delay_list) /\ DOMAIN delay_list' = 1..Len(delay_list)
      /\ \A i \in 1..Len(delay_list) : delay_list[i] \in ArmedTimer
  BY <1>1, TickCountPlaces, LenProperties, ElementOfSeq
<1>3. \A i \in 1..Len(delay_list) : delay_list'[i].task = delay_list[i].task
  BY <1>2, TickCountPlaces DEF ArmedTimer
<1> QED
  BY <1>2, <1>3 DEF Delayed

LEMMA TickExpirePlaces ==
  ASSUME TypeInv, TickExpire
  PROVE  /\ delay_list' \in Seq(ArmedTimer) /\ Len(delay_list') = Len(delay_list) - 1
         /\ Len(delay_list) \in Nat \ {0} /\ Head(delay_list) = delay_list[1]
         /\ \A i \in 1..Len(delay_list) : i > 1 => delay_list'[i - 1] = delay_list[i]
<1>1. delay_list \in Seq(ArmedTimer) /\ delay_list # <<>> /\ delay_list' = Tail(delay_list)
  BY DEF TypeInv, TimerTypeInv, TickExpire
<1>2. /\ Head(delay_list) = delay_list[1]
      /\ delay_list' \in Seq(ArmedTimer) /\ Len(delay_list') = Len(delay_list) - 1
      /\ \A i \in 1..Len(delay_list') : delay_list'[i] = delay_list[i + 1]
  BY <1>1, HeadTailProperties
<1>3. Len(delay_list) \in Nat \ {0}
  BY <1>1, EmptySeq, LenProperties
<1> QED
  BY <1>2, <1>3

LEMMA TickExpireDelays ==
  ASSUME TypeInv, TickExpire
  PROVE  \A u \in Tasks : Delayed(u) /\ u # Head(delay_list).task => Delayed(u)'
<1>1. delay_list \in Seq(ArmedTimer)
  BY DEF TypeInv, TimerTypeInv
<1>2. DOMAIN delay_list = 1..Len(delay_list) /\ DOMAIN delay_list' = 1..(Len(delay_list) - 1)
  BY <1>1, TickExpirePlaces, LenProperties
<1>3. ASSUME NEW i \in DOMAIN delay_list, i # 1
      PROVE  i - 1 \in DOMAIN delay_list' /\ delay_list'[i - 1] = delay_list[i]
  BY <1>2, <1>3, TickExpirePlaces
<1> QED
  BY <1>3, TickExpirePlaces DEF Delayed

\* Taking a timer of w off the list.
LEMMA ClearTimerDelays ==
  ASSUME TypeInv, NEW w, clear_timer(w)
  PROVE  \A u \in Tasks : Delayed(u) /\ u # w => Delayed(u)'
<1>1. CASE ~HasTimer(w)
  BY <1>1 DEF clear_timer, Delayed, timerVars
<1>2. CASE HasTimer(w)
  <2> PICK k \in DOMAIN delay_list : delay_list[k].task = w /\ delay_list' = Unlinked(k)
    BY <1>2 DEF clear_timer
  <2> DEFINE rest == IF k < Len(delay_list)
                       THEN [delay_list EXCEPT ![k + 1].delay =
                               (@ + delay_list[k].delay) % UINT32_MODULUS]
                       ELSE delay_list
             E == [id : TimerIds, task : Tasks, delay : Int]
  <2>1. delay_list \in Seq(ArmedTimer) /\ ArmedTimer \subseteq E
    BY DEF TypeInv, TimerTypeInv, ArmedTimer, Indexable, Ticks
  <2>2. /\ delay_list \in Seq(E) /\ Len(delay_list) \in Nat
        /\ DOMAIN delay_list = 1..Len(delay_list)
    BY <2>1, SeqMonotonic, LenProperties
  <2>3. /\ rest \in Seq(E) /\ Len(rest) = Len(delay_list)
        /\ \A i \in 1..Len(delay_list) : rest[i].task = delay_list[i].task
    <3>1. CASE k < Len(delay_list)
      <4>1. delay_list[k] \in ArmedTimer /\ delay_list[k + 1] \in ArmedTimer
        BY <2>1, <2>2, <3>1, ElementOfSeq
      <4> DEFINE ticks == (delay_list[k + 1].delay + delay_list[k].delay) % UINT32_MODULUS
      <4>2. ticks \in Int
        <5>1. delay_list[k + 1].delay \in Nat /\ delay_list[k].delay \in Nat
          BY <4>1, TimersAssumption DEF ArmedTimer, Ticks
        <5> QED
          BY <5>1, TimersAssumption
      <4> DEFINE later == [delay_list[k + 1] EXCEPT !.delay = ticks]
      <4>3. rest = [delay_list EXCEPT ![k + 1] = later]
        BY <3>1
      <4> HIDE DEF ticks
      <4>4. later \in E /\ later.task = delay_list[k + 1].task
        BY <2>1, <4>1, <4>2 DEF E
      <4> HIDE DEF later, rest, E
      <4>5. \A i \in 1..Len(delay_list) :
              rest[i] = IF i = k + 1 THEN later ELSE delay_list[i]
        BY <2>2, <3>1, <4>3, <4>4, ExceptSeq
      <4>6. rest \in Seq(E) /\ Len(rest) = Len(delay_list)
        BY <2>2, <3>1, <4>3, <4>4, ExceptSeq
      <4> QED
        BY <4>4, <4>5, <4>6
    <3>2. CASE ~(k < Len(delay_list))
      BY <2>2, <3>2
    <3> QED
      BY <3>1, <3>2
  <2>4. delay_list' = RemoveAt(rest, k)
    BY DEF Unlinked
  <2> HIDE DEF rest, E
  <2>5. /\ Len(delay_list') = Len(delay_list) - 1
        /\ \A j \in 1..(Len(delay_list) - 1) :
             delay_list'[j] = IF j < k THEN rest[j] ELSE rest[j + 1]
    <3>1. k \in 1..Len(rest) /\ Len(rest) = Len(delay_list)
      BY <2>2, <2>3
    <3>2. /\ Len(RemoveAt(rest, k)) = Len(rest) - 1
          /\ \A j \in 1..(Len(rest) - 1) :
               RemoveAt(rest, k)[j] = IF j < k THEN rest[j] ELSE rest[j + 1]
      BY <2>3, <3>1, RemoveAtElements
    <3> QED
      BY <2>4, <3>1, <3>2
  <2>6. delay_list' \in Seq(E)
    BY <2>2, <2>3, <2>4, RemoveAtType
  <2>7. DOMAIN delay_list' = 1..(Len(delay_list) - 1)
    BY <2>5, <2>6, LenProperties
  <2>8. ASSUME NEW i \in DOMAIN delay_list, i # k
        PROVE  \E j \in DOMAIN delay_list' : delay_list'[j].task = delay_list[i].task
    <3>1. CASE i < k
      <4>1. i \in DOMAIN delay_list' /\ delay_list'[i] = rest[i]
        BY <2>2, <2>5, <2>7, <3>1
      <4> QED
        BY <2>2, <2>3, <4>1
    <3>2. CASE i > k
      <4>1. i - 1 \in DOMAIN delay_list' /\ delay_list'[i - 1] = rest[i]
        BY <2>2, <2>5, <2>7, <3>2
      <4> QED
        BY <2>2, <2>3, <4>1
    <3> QED
      BY <2>2, <2>8, <3>1, <3>2
  <2> QED
    BY <2>8 DEF Delayed
<1> QED
  BY <1>1, <1>2

-----------------------------------------------------------------------------
LEMMA ArmingStep ==
  ASSUME NVIC_PRIO_BITS >= 5, TypeInv, ArmingMasked, [Next]_vars
  PROVE  ArmingMasked'
<1>1. CASE \E t \in Tasks : Arming(t)
  <2> PICK t \in Tasks : Arming(t)
    BY <1>1
  <2>1. CASE DelayBlock(t)
    <3>1. \A u \in Tasks : ~Arming(u)'
      <4>1. ~Arming(t)'
        BY <2>1 DEF DelayBlock, CallSchedule, Goto, Arming, TypeInv, SchedTypeOK
      <4>2. \A u \in Tasks : u # t => pc'[u] = pc[u]
        BY <2>1 DEF DelayBlock, CallSchedule, Goto, TypeInv, SchedTypeOK
      <4>3. \A u \in Tasks : Arming(u) => u = t
        BY DEF ArmingMasked
      <4> QED
        BY <4>1, <4>2, <4>3 DEF Arming
    <3> QED
      BY <3>1 DEF ArmingMasked
  <2>2. CASE UNCHANGED vars
    BY <2>2 DEF vars, platformVars, listVars, schedVars, timerVars, ArmingMasked, Arming,
                    Delayed
  <2> QED
    BY <2>1, <2>2, ArmingAlone
<1>2. CASE \A t \in Tasks : ~Arming(t)
  <2> SUFFICES ASSUME NEW t \in Tasks, Arming(t)'
               PROVE  /\ boot' = "kernel" /\ curr_task_ptr' = t
                      /\ basepri' = BASEPRI_MASK_PENDSV_SYSTICK
                      /\ Delayed(t)' /\ armed'[t].task = t
    BY DEF ArmingMasked
  <2> PICK ms \in Delays : DelayTask(t, ms)
    BY <1>2, ArmingSteps
  <2> PICK id \in TimerIds :
        /\ ArmTimer(t, ms, id)
        /\ armed' = [Reassigned(id, t) EXCEPT ![t] = [id |-> id, task |-> t]]
    BY DEF DelayTask
  <2>1. ms \in Int
    BY TimersAssumption
  <2>2. armed'[t].task = t
    BY DEF Reassigned
  <2> QED
    BY <2>1, <2>2, ArmTimerDelays
    DEF DelayTask, Calling, At, Executing, Alive, disable_ctx_sw, listVars
<1> QED
  BY <1>1, <1>2

LEMMA OnlyDelaysArmStep ==
  ASSUME TypeInv, OnlyDelaysArm, [Next]_vars
  PROVE  OnlyDelaysArm'
BY ArmingSteps DEF OnlyDelaysArm, DelayTask, Calling

LEMMA DelayStep ==
  ASSUME TypeInv, ArmingMasked, DelayTimed, [Next]_vars
  PROVE  DelayTimed'
<1> SUFFICES ASSUME NEW t \in Tasks, task_state'[t] = "DELAY"
             PROVE  Delayed(t)'
  BY DEF DelayTimed
<1>1. /\ Delayed(t)
      /\ TickExpire => t # Head(delay_list).task \/ DelayBlock(t)
  BY DelayStateSteps DEF DelayTimed, DelayBlock, At, ArmingMasked, Arming
<1>2. CASE UNCHANGED delay_list
  BY <1>1, <1>2 DEF Delayed
<1>3. CASE TickExpire /\ ~UNCHANGED delay_list
  <2>1. ~DelayBlock(t)
    BY <1>3 DEF DelayBlock
  <2> QED
    BY <1>1, <1>3, <2>1, TickExpireDelays
<1>4. CASE TimerArmed
  BY <1>1, <1>4, ArmTimerDelays DEF TimerArmed
<1>5. CASE TimerCleared
  <2> PICK l \in BlockedLists : /\ blocked_list[l] # <<>>
                                /\ WakeHead(l)
                                /\ clear_timer(Head(blocked_list[l]))
    BY <1>5 DEF TimerCleared
  <2>1. t # Head(blocked_list[l])
    BY HeadWaiter DEF WakeHead, TypeInv, ListTypeInv
  <2> QED
    BY <1>1, <2>1, ClearTimerDelays
<1> QED
  BY <1>1, <1>2, <1>3, <1>4, <1>5, DelayListSteps, TickCountDelays

LEMMA BootSteps ==
  ASSUME [Next]_vars, boot' = "main"
  PROVE  boot = "main"
<1>1. CASE SchedulerStep
  <2>1. ASSUME NEW t \in Tasks, Schedule(t) PROVE boot = "main"
    BY <2>1 DEF Schedule, SchedIndex, SchedLoad, SchedStore, SchedCheck, SchedCurrent,
                SchedMatch, SchedPreempt, SchedCommit, SchedSwitch
  <2> QED
    BY <1>1, <2>1 DEF SchedulerStep, PendSV, CreateTask, CreateRefused, YieldTask,
                      YieldRefused, StartKernel, schedVars
<1>2. CASE TimerStep
  BY <1>2 DEF TimerStep, DelayTask, DelayRefused, DelayBlock, DelayExit, TickIdle, TickCount,
              TickExpire, schedVars
<1>3. CASE SemaphoreStep
  BY <1>3 DEF SemaphoreStep, CreateSemaphore, CreateSemaphoreRefused, PostCount, PostWake,
              PostRefused, WaitTake, WaitBlock, WaitRefused, schedVars
<1>4. CASE QueueStep
  BY <1>4 DEF QueueStep, CreateQueue, CreateQueueFails, SendNow, SendWait, SendRefused,
              SendResume, ReceiveNow, ReceiveWait, ReceiveRefused, ReceiveResume, QueueArm,
              QueueExit, Push, Pop, Notify, WaitInQueue, ReturnFalse, schedVars
<1>5. CASE UNCHANGED vars
  BY <1>5 DEF vars, schedVars
<1> QED
  BY <1>1, <1>2, <1>3, <1>4, <1>5 DEF Next

\* The list that create_semaphore or create_queue clears is empty: the semaphore
\* is new, and queues are created before the kernel runs.
LEMMA EmptiedNothing ==
  ASSUME TypeInv, WaitListed, OnlyExistingAwaited, "create_queue" \notin Calls, ListsEmptied
  PROVE  UNCHANGED blocked_list
<1> USE DEF TypeInv, CommTypeInv
<1>1. ASSUME NEW s \in Semaphores, s \notin sem_list,
             blocked_list' = [blocked_list EXCEPT ![WaitList(s)] = <<>>]
      PROVE  blocked_list' = blocked_list
  BY <1>1, WaitListKnown DEF OnlyExistingAwaited
<1>2. ASSUME NEW q \in Queues, QueueCreator,
             blocked_list' = [blocked_list EXCEPT ![SendList(q)] = <<>>,
                                                  ![ReceiveList(q)] = <<>>]
      PROVE  blocked_list' = blocked_list
  <2>1. boot = "main"
    BY <1>2 DEF QueueCreator, Calling
  <2> QED
    BY <1>2, <2>1, QueueListsKnown DEF WaitListed
<1> QED
  BY <1>1, <1>2 DEF ListsEmptied

LEMMA WaitStep ==
  ASSUME TypeInv, LinkInv, WaitListed, OnlyExistingAwaited, "create_queue" \notin Calls, [Next]_vars
  PROVE  WaitListed'
<1> USE DEF TypeInv, ListTypeInv, CommTypeInv
<1>1. boot' = "main" => boot = "main"
  BY BootSteps
<1>2. ASSUME UNCHANGED blocked_list,
             \A t \in Tasks : task_state'[t] \in WaitingState => task_state[t] \in WaitingState
      PROVE  WaitListed'
  BY <1>1, <1>2 DEF WaitListed, Waits, WaitsFor
<1>3. CASE QuietStep
  BY <1>2, <1>3 DEF QuietStep, BlockedState
<1>4. ASSUME NEW u \in Tasks, CreateTask(u), UNCHANGED blocked_list PROVE WaitListed'
  BY <1>2, <1>4 DEF CreateTask, WaitingState
<1>5. ASSUME NEW t \in Tasks, NEW u \in Tasks, YieldTask(t, u), UNCHANGED blocked_list
      PROVE  WaitListed'
  BY <1>2, <1>5 DEF YieldTask, WaitingState
<1>6. ASSUME NEW t \in Tasks, DelayBlock(t), UNCHANGED blocked_list PROVE WaitListed'
  BY <1>2, <1>6 DEF DelayBlock, WaitingState
<1>7. ASSUME TickExpire, UNCHANGED blocked_list PROVE WaitListed'
  <2> DEFINE u == Head(delay_list).task
             states == IF task_state[u] = "DELAY" THEN [task_state EXCEPT ![u] = "READY"]
                                                  ELSE task_state
  <2>1. u \in Tasks
    BY <1>7, HeadTimer DEF TickExpire
  <2>2. states \in [Tasks \cup {Idle} -> TaskState] /\ ScheduleNow(states, curr_task_ptr)
    BY <1>7, <2>1 DEF TickExpire, TaskState
  <2>3. \A t \in Tasks : task_state'[t] \in WaitingState => states[t] \in WaitingState
    BY <2>2, ScheduleNowBlocksNobody DEF BlockedState
  <2>4. \A t \in Tasks : states[t] \in WaitingState => task_state[t] \in WaitingState
    BY <2>1 DEF WaitingState
  <2> QED
    BY <1>2, <1>7, <2>3, <2>4
<1>8. CASE ListsEmptied
  BY <1>2, <1>8, EmptiedNothing DEF ListsEmptied, listVars
<1>9. CASE Wakes
  <2> PICK l \in BlockedLists : blocked_list[l] # <<>> /\ WakeHead(l)
    BY <1>9 DEF Wakes
  <2> DEFINE waiter == Head(blocked_list[l])
  <2>1. waiter \in Tasks
    BY HeadWaiter
  <2>2. Range(Tail(blocked_list[l])) = Range(blocked_list[l]) \ {waiter}
    BY ListsOfTasks, TailElements DEF LinkInv, WaitLinked
  <2>3. /\ task_state' = [task_state EXCEPT ![waiter] = "READY"]
        /\ blocked_list' = [blocked_list EXCEPT ![l] = remove_from_blocked_list(@)]
    BY DEF WakeHead
  <2> HIDE DEF waiter
  <2>4. \A u \in Tasks, m \in BlockedLists : WaitsFor(u, m) /\ u # waiter => WaitsFor(u, m)'
    BY <2>2, <2>3 DEF WaitsFor, remove_from_blocked_list
  <2>5. \A u \in Tasks : task_state'[u] \in WaitingState =>
                          u # waiter /\ task_state[u] \in WaitingState
    BY <2>1, <2>3 DEF WaitingState
  <2>6. \A u \in Tasks : task_state'[u] \in WaitingState => Waits(u)'
    BY <2>4, <2>5 DEF WaitListed, Waits
  <2> QED
    BY <1>1, <2>6 DEF WaitListed
<1>10. CASE Blocks
  <2> PICK t \in Tasks, l \in BlockedLists, state \in WaitingState :
        Executing(t) /\ BlockIn(t, l, state)
    BY <1>10 DEF Blocks
  <2> PICK k \in 1..(Len(blocked_list[l]) + 1) :
        blocked_list' = [blocked_list EXCEPT ![l] = InsertAt(@, k, t)]
    BY DEF BlockIn
  <2>1. Range(InsertAt(blocked_list[l], k, t)) = Range(blocked_list[l]) \cup {t}
    BY ListsOfTasks, InsertAtRange
  <2>2. \A u \in Tasks, m \in BlockedLists :
          WaitsFor(u, m) \/ (u = t /\ m = l) => WaitsFor(u, m)'
    BY <2>1 DEF WaitsFor
  <2>3. \A u \in Tasks : task_state'[u] \in WaitingState =>
                          u = t \/ task_state[u] \in WaitingState
    BY DEF BlockIn
  <2>4. \A u \in Tasks : task_state'[u] \in WaitingState => Waits(u)'
    BY <2>2, <2>3 DEF WaitListed, Waits
  <2>5. boot = "kernel"
    BY DEF Executing, Alive
  <2> QED
    BY <1>1, <2>4, <2>5 DEF WaitListed
<1> QED
  BY <1>3, <1>4, <1>5, <1>6, <1>7, <1>8, <1>9, <1>10, ListSteps

\* disable_ctx_sw keeps the tick out of delay_task, or nobody calls it.
DelaysMasked == NVIC_PRIO_BITS >= 5 \/ "delay" \notin Calls

LEMMA BlockStep ==
  ASSUME DelaysMasked, "create_queue" \notin Calls, TypeInv, LinkInv, BlockInv, [Next]_vars
  PROVE  BlockInv'
<1>1. OnlyDelaysArm'
  BY OnlyDelaysArmStep DEF BlockInv
<1>2. ArmingMasked'
  <2>1. CASE NVIC_PRIO_BITS >= 5
    BY <2>1, ArmingStep DEF BlockInv
  <2>2. CASE "delay" \notin Calls
    BY <1>1, <2>2 DEF OnlyDelaysArm, ArmingMasked
  <2> QED
    BY <2>1, <2>2 DEF DelaysMasked
<1> QED
  BY <1>1, <1>2, DelayStep, WaitStep, ExistingStep DEF BlockInv

LEMMA BlockInvariance ==
  ASSUME DelaysMasked, "create_queue" \notin Calls
  PROVE  Spec => []BlockInv
<1>1. TypeInv /\ LinkInv /\ BlockInv /\ [Next]_vars => BlockInv'
  BY BlockStep
<1> QED
  BY <1>1, BlockInit, TypeInvariance, LinkInvariance, PTL DEF Spec

\* A task in a blocked state is linked where it can be woken: one in DELAY has
\* an armed timer and one that is WAITING is in a list.  The mask has to work,
\* which takes five priority bits, or no task may delay (as on the STM32F303,
\* where lost_wakeup_device shows what happens otherwise), and no task may
\* create a queue, which may be one that is in use.
\* It speaks of the state of a task only, which a schedule() that the tick has
\* interrupted may overwrite; what becomes of such a task is LostByExpiry.
THEOREM BlockedCorrect ==
  ASSUME DelaysMasked, "create_queue" \notin Calls
  PROVE  Spec => []BlockedIsLinked
BY BlockInvariance, BlockInvImpliesBlockedIsLinked, LinkInvariance, PTL

-----------------------------------------------------------------------------
(***************************************************************************)
(* Who stays in a list.  A task leaves the ready list to delay, with its   *)
(* timer armed, or to wait, into a list; it leaves the list of a semaphore *)
(* or a queue to be ready, and the delay list to be ready if its state is  *)
(* still DELAY.                                                            *)
(***************************************************************************)

\* A task in a ready list or in a list of blocked tasks stays in one, unless it
\* delays.
LEMMA LinkedStep ==
  ASSUME TypeInv, LinkInv, WaitListed, OnlyExistingAwaited, "create_queue" \notin Calls,
         [Next]_vars, NEW u \in Tasks, Ready(u) \/ Waits(u), ~DelayBlock(u)
  PROVE  Ready(u)' \/ Waits(u)'
<1> USE DEF LinkInv
<1>1. ASSUME UNCHANGED blocked_list PROVE Waits(u) => Waits(u)'
  BY <1>1 DEF Waits, WaitsFor
<1>2. ASSUME UNCHANGED ready_list PROVE Ready(u) => Ready(u)'
  BY <1>2 DEF Ready
<1>3. CASE QuietStep
  BY <1>1, <1>2, <1>3 DEF QuietStep
<1>4. ASSUME NEW v \in Tasks, CreateTask(v), UNCHANGED blocked_list
      PROVE  Ready(u)' \/ Waits(u)'
  <2>1. CASE Priority[v] \in Priorities
    <3>1. v \in Indexable /\ ~Ready(v) /\ insert_into_ready_list(v)
      BY <1>4, <2>1 DEF CreateTask, is_task_createable, Indexable, StateLinked
    <3> QED
      BY <1>1, <1>4, <3>1, InsertReadyLinks
  <2>2. CASE Priority[v] \notin Priorities
    BY <1>1, <1>2, <1>4, <2>2 DEF CreateTask
  <2> QED
    BY <2>1, <2>2
<1>5. ASSUME NEW t \in Tasks, NEW v \in Tasks, YieldTask(t, v), UNCHANGED blocked_list
      PROVE  Ready(u)' \/ Waits(u)'
  BY <1>1, <1>5, YieldLinks
<1>6. ASSUME NEW t \in Tasks, DelayBlock(t), UNCHANGED blocked_list
      PROVE  Ready(u)' \/ Waits(u)'
  <2>1. t \in Indexable /\ t # u
    BY <1>6, ExecutingIndexable DEF DelayBlock, At
  <2>2. CASE BlocksDelayed(t)
    BY <1>1, <1>6, <2>1, <2>2, RemoveReadyLinks DEF BlocksDelayed
  <2>3. CASE GivesTimerBack(t)
    BY <1>1, <1>2, <1>6, <2>3 DEF GivesTimerBack
  <2> QED
    BY <1>6, <2>2, <2>3, DelayBlockEnds
<1>7. CASE TickExpire /\ UNCHANGED blocked_list
  <2> DEFINE t == Head(delay_list).task
  <2>1. t \in Indexable /\ t \in Tasks
    BY <1>7, HeadTimer DEF TickExpire
  <2>2. CASE task_state[t] = "DELAY"
    BY <1>1, <1>7, <2>1, <2>2, InsertReadyLinks DEF TickExpire, StateLinked
  <2>3. CASE task_state[t] # "DELAY"
    BY <1>1, <1>2, <1>7, <2>1, <2>3 DEF TickExpire
  <2> QED
    BY <2>2, <2>3
<1>8. CASE ListsEmptied
  BY <1>1, <1>2, <1>8, EmptiedNothing DEF ListsEmptied, listVars
<1>9. CASE Wakes
  <2> PICK l \in BlockedLists : blocked_list[l] # <<>> /\ WakeHead(l)
    BY <1>9 DEF Wakes
  <2> DEFINE waiter == Head(blocked_list[l])
  <2>1. waiter \in Indexable /\ waiter \in Tasks /\ ~Ready(waiter)
    BY WakeableWaits DEF WakeHead
  <2>2. \A v \in Tasks : Ready(v)' <=> Ready(v) \/ v = waiter
    BY <2>1, InsertReadyLinks DEF WakeHead
  <2>3. Range(Tail(blocked_list[l])) = Range(blocked_list[l]) \ {waiter}
    BY ListsOfTasks, TailElements DEF WaitLinked
  <2>4. blocked_list' = [blocked_list EXCEPT ![l] = remove_from_blocked_list(@)]
    BY DEF WakeHead
  <2> HIDE DEF waiter
  <2>5. Waits(u) /\ u # waiter => Waits(u)'
    BY <2>3, <2>4 DEF Waits, WaitsFor, remove_from_blocked_list, TypeInv, CommTypeInv
  <2> QED
    BY <2>2, <2>5
<1>10. CASE Blocks
  <2> PICK t \in Tasks, l \in BlockedLists, state \in WaitingState :
        Executing(t) /\ BlockIn(t, l, state)
    BY <1>10 DEF Blocks
  <2>1. \A v \in Tasks : Ready(v)' <=> Ready(v) /\ v # t
    BY BlockerReady
  <2> PICK k \in 1..(Len(blocked_list[l]) + 1) :
        blocked_list' = [blocked_list EXCEPT ![l] = InsertAt(@, k, t)]
    BY DEF BlockIn
  <2>2. Range(InsertAt(blocked_list[l], k, t)) = Range(blocked_list[l]) \cup {t}
    BY ListsOfTasks, InsertAtRange
  <2>3. Waits(u) \/ u = t => Waits(u)'
    BY <2>2 DEF Waits, WaitsFor, TypeInv, CommTypeInv
  <2> QED
    BY <2>1, <2>3
<1> QED
  BY <1>3, <1>4, <1>5, <1>6, <1>7, <1>8, <1>9, <1>10, ListSteps

\* A task with an armed timer keeps it or is made ready, unless its timer
\* expires and its state is not DELAY.
LEMMA DelayedStep ==
  ASSUME TypeInv, LinkInv, [Next]_vars, NEW u \in Tasks, Delayed(u),
         ~(TickExpire /\ u = Head(delay_list).task /\ task_state[u] # "DELAY")
  PROVE  Delayed(u)' \/ Ready(u)'
<1>1. CASE UNCHANGED delay_list
  BY <1>1 DEF Delayed
<1>2. CASE TimerArmed
  BY <1>2, ArmTimerDelays DEF TimerArmed
<1>3. CASE TickExpire
  <2>1. CASE u = Head(delay_list).task
    <3>1. task_state[u] = "DELAY" /\ insert_into_ready_list(u)
      BY <1>3, <2>1 DEF TickExpire
    <3>2. u \in Indexable /\ ~Ready(u)
      BY <1>3, <2>1, <3>1, HeadTimer DEF TickExpire, LinkInv, StateLinked
    <3> QED
      BY <3>1, <3>2, InsertReadyLinks DEF LinkInv
  <2>2. CASE u # Head(delay_list).task
    BY <1>3, <2>2, TickExpireDelays
  <2> QED
    BY <2>1, <2>2
<1>4. CASE TimerCleared
  <2> PICK l \in BlockedLists : /\ blocked_list[l] # <<>>
                                /\ WakeHead(l)
                                /\ clear_timer(Head(blocked_list[l]))
    BY <1>4 DEF TimerCleared
  <2> DEFINE waiter == Head(blocked_list[l])
  <2>1. waiter \in Indexable /\ waiter \in Tasks /\ ~Ready(waiter)
    BY WakeableWaits DEF WakeHead
  <2>2. \A t \in Tasks : Ready(t)' <=> Ready(t) \/ t = waiter
    BY <2>1, InsertReadyLinks DEF WakeHead, LinkInv
  <2>3. u # waiter => Delayed(u)'
    BY ClearTimerDelays
  <2> HIDE DEF waiter
  <2> QED
    BY <2>2, <2>3
<1> QED
  BY <1>1, <1>2, <1>3, <1>4, DelayListSteps, TickCountDelays

LEMMA HeldStep ==
  ASSUME TypeInv, LinkInv, BlockInv, "create_queue" \notin Calls, [Next]_vars,
         NEW u \in Tasks, Held(u), ~Held(u)'
  PROVE  TickExpire /\ u = Head(delay_list).task /\ task_state[u] # "DELAY"
<1>1. \A t \in Tasks : Held(t) <=> Ready(t) \/ Delayed(t) \/ Waits(t)
  BY DEF Held, Waits
<1>2. ~Ready(u)' /\ ~Delayed(u)' /\ ~Waits(u)'
  BY DEF Held, Waits
<1>3. CASE Delayed(u)
  BY <1>2, <1>3, DelayedStep
<1>4. CASE ~Delayed(u)
  <2>1. ~DelayBlock(u)
    BY <1>4 DEF DelayBlock, At, BlockInv, ArmingMasked, Arming
  <2> QED
    BY <1>1, <1>2, <1>4, <2>1, LinkedStep DEF BlockInv
<1> QED
  BY <1>3, <1>4

\* With the same assumptions there is one way only to lose a task: its timer
\* expires while its state is not DELAY, because an interrupted schedule() has
\* stored RUNNING for it.  No call loses its caller or the task it wakes, and
\* no tick another task than that of the timer that expires.
THEOREM LostByExpiry ==
  ASSUME DelaysMasked, "create_queue" \notin Calls
  PROVE  Spec => LostByExpiryOnly
<1> DEFINE expiryOnly ==
      \A t \in Tasks : Held(t) /\ ~Held(t)' =>
        /\ TickExpire
        /\ t = Head(delay_list).task
        /\ task_state[t] # "DELAY"
<1>1. TypeInv /\ LinkInv /\ BlockInv /\ [Next]_vars => [expiryOnly]_vars
  BY HeldStep
<1> QED
  BY <1>1, BlockInvariance, TypeInvariance, LinkInvariance, PTL DEF Spec, LostByExpiryOnly

-----------------------------------------------------------------------------
(* Where nobody asks for a timer, nobody is lost.                          *)

TimersUnused == "delay" \notin Calls /\ \A ms \in Timeouts : ms <= 0

NoTimerArmed == delay_list = <<>> /\ \A t \in Tasks : pc[t] \notin Section

LEMMA NoTimerArmedStep ==
  ASSUME TimersUnused, TypeInv, NoTimerArmed, [Next]_vars
  PROVE  NoTimerArmed'
<1>1. ASSUME NEW t \in Tasks PROVE pc'[t] \notin Section
  <2>1. \A ms \in Delays : ~DelayTask(t, ms)
    BY DEF DelayTask, Calling, TimersUnused
  <2>2. ~QueueWaits(t)
    <3>1. \A ms \in Timeouts : ~(ms > 0)
      BY QueuesAssumption DEF TimersUnused
    <3> QED
      BY <3>1 DEF QueueWaits
  <2> QED
    BY <2>1, <2>2, SectionSteps DEF NoTimerArmed
<1>2. ~TimerArmed /\ ~TickCount /\ ~TickExpire
  BY DEF TimerArmed, TickCount, TickExpire, Calling, NoTimerArmed, TimersUnused, Section
<1>3. TimerCleared => UNCHANGED delay_list
  BY DEF TimerCleared, clear_timer, HasTimer, NoTimerArmed, timerVars
<1> QED
  BY <1>1, <1>2, <1>3, DelayListSteps DEF NoTimerArmed

\* A task that create_task has just registered is in its ready list.
LEMMA NewTaskReady ==
  ASSUME TypeInv, LinkInv, [Next]_vars, NEW u \in Tasks, u \in task_list', u \notin task_list,
         Priority[u] \in Priorities
  PROVE  Ready(u)'
<1>1. CreateTask(u)
  <2>1. UNCHANGED task_list => FALSE
    OBVIOUS
  <2>2. ASSUME NEW t \in Tasks, NEW v \in Tasks, YieldTask(t, v) PROVE UNCHANGED task_list
    BY <2>2 DEF YieldTask
  <2>3. ASSUME NEW v \in Tasks, CreateTask(v) PROVE v = u
    BY <2>3 DEF CreateTask
  <2> QED
    BY <2>1, <2>2, <2>3, ListSteps
    DEF QuietStep, DelayBlock, TickExpire, ListsEmptied, Blocks, Wakes, schedVars
<1>2. u \in Indexable /\ ~Ready(u) /\ insert_into_ready_list(u)
  BY <1>1 DEF CreateTask, Indexable, LinkInv, StateLinked
<1> QED
  BY <1>2, InsertReadyLinks DEF LinkInv

\* No task is lost where nobody delays and nobody sends or receives with a time
\* limit, on every device: every task stays in a ready list or in the list of
\* a semaphore or a queue, whatever the tick interrupts.
THEOREM NobodyLost ==
  ASSUME TimersUnused, "create_queue" \notin Calls
  PROVE  Spec => []NoTaskLost
<1>1. Init => NoTimerArmed /\ NoTaskLost
  BY DEF Init, TimerInit, SchedInit, NoTimerArmed, NoTaskLost, Section
<1>2. TypeInv /\ NoTimerArmed /\ [Next]_vars => NoTimerArmed'
  BY NoTimerArmedStep
<1>3. TypeInv /\ TypeInv' /\ LinkInv /\ BlockInv /\ NoTimerArmed /\ NoTaskLost /\ [Next]_vars
        => NoTaskLost'
  <2> SUFFICES ASSUME TypeInv, TypeInv', LinkInv, BlockInv, NoTimerArmed, NoTaskLost,
                      [Next]_vars, NEW t \in Tasks, t \in task_list',
                      Priority[t] \in Priorities
               PROVE  Held(t)'
    BY DEF NoTaskLost, TypeInv, SchedTypeOK
  <2>1. CASE t \in task_list
    BY <2>1, HeldStep DEF NoTaskLost, TickExpire, NoTimerArmed
  <2>2. CASE t \notin task_list
    BY <2>2, NewTaskReady DEF Held
  <2> QED
    BY <2>1, <2>2
<1>4. DelaysMasked
  BY DEF DelaysMasked, TimersUnused
<1>5. Spec => []BlockInv
  BY <1>4, BlockInvariance
<1> QED
  BY <1>1, <1>2, <1>3, <1>5, TypeInvariance, LinkInvariance, PTL DEF Spec

-----------------------------------------------------------------------------
(***************************************************************************)
(* TimerPoolExact is not inductive: it needs that a task that asks for a   *)
(* timer has none, that clear_timer finds no timer, and that set_timer     *)
(* never has to give one back.  So the invariant says where a task with an *)
(* armed timer is: in set_timer, or in none of the ready and wait lists.   *)
(* Its state does not tell: an interrupted schedule() may store RUNNING    *)
(* for a task that has blocked.                                            *)
(***************************************************************************)
ArmingRemovable == \A t \in Tasks : Arming(t) => Removable(t)

DelayedUnlinked ==
  \A t \in Tasks : Delayed(t) =>
    t \in task_list /\ (Arming(t) \/ (~Ready(t) /\ ~Waits(t)))

\* A task that has blocked in a queue and asks for a timer, with the mask set.
QueueArming ==
  \A t \in Tasks : pc[t] = "queue_arm" =>
    /\ boot = "kernel" /\ curr_task_ptr = t
    /\ basepri = BASEPRI_MASK_PENDSV_SYSTICK
    /\ task_state[t] \in WaitingState

PoolInv ==
  TimerPoolExact /\ ArmingMasked /\ ArmingRemovable /\ DelayedUnlinked /\ QueueArming

LEMMA PoolInit == Init => PoolInv
<1> SUFFICES ASSUME Init PROVE PoolInv
  OBVIOUS
<1>1. delay_list = <<>> /\ timer_bitmap = TimerIds /\ \A t \in Tasks : pc[t] = "user"
  BY DEF Init, TimerInit, SchedInit
<1>2. DOMAIN delay_list = {}
  BY <1>1
<1> QED
  BY <1>1, <1>2 DEF PoolInv, TimerPoolExact, ArmingMasked, ArmingRemovable, Arming,
                    DelayedUnlinked, Delayed, QueueArming

-----------------------------------------------------------------------------
(* Which steps touch the timers.                                           *)

LEMMA RemovableReady ==
  ASSUME TypeInv, NEW t \in Tasks, Removable(t)
  PROVE  Ready(t)
<1>1. /\ ready_list[Priority[t]] # <<>> /\ t = Head(ready_list[Priority[t]])
      /\ curr_task_ptr = t
  BY TasksAssumption DEF Removable, HeadOf
<1>2. t \in Indexable
  BY <1>1, TasksAssumption DEF TypeInv, ListTypeInv, Pointer
<1>3. Priority[t] \in Priorities /\ ready_list[Priority[t]] \in Seq(Tasks)
  BY <1>2, ListsOfTasks DEF Indexable
<1>4. /\ 1 \in DOMAIN ready_list[Priority[t]]
      /\ ready_list[Priority[t]][1] = t
  BY <1>1, <1>3, EmptySeq, LenProperties, HeadTailProperties
<1> QED
  BY <1>3, <1>4 DEF Ready, Range

\* A waiter has no timer.
LEMMA WaiterUntimed ==
  ASSUME TypeInv, LinkInv, PoolInv, NEW t \in Tasks, Waits(t)
  PROVE  ~Delayed(t)
BY RemovableReady DEF PoolInv, DelayedUnlinked, ArmingRemovable, LinkInv, StateLinked

\* Nor has a task that may ask for one.
LEMMA CallerUntimed ==
  ASSUME TypeInv, PoolInv, NEW t \in Tasks, Removable(t), ~Arming(t)
  PROVE  ~Delayed(t) /\ Ready(t)
BY RemovableReady DEF PoolInv, DelayedUnlinked

LEMMA NotifyUntimed ==
  ASSUME TypeInv, LinkInv, PoolInv, NEW t, NEW l \in BlockedLists, Notify(t, l)
  PROVE  UNCHANGED <<delay_list, timer_bitmap>>
<1>1. CASE Awaited(l) /\ Wakeable(l)
  <2>1. ~Delayed(Head(blocked_list[l])) /\ clear_timer(Head(blocked_list[l]))
    BY <1>1, WakeableWaits, WaiterUntimed DEF Notify, Awaited
  <2> QED
    BY <2>1 DEF clear_timer, HasTimer, Delayed, timerVars
<1> QED
  BY <1>1 DEF Notify, timerVars

\* Timers are armed by delay calls and taken off the list by ticks only.
LEMMA TimerSteps ==
  ASSUME TypeInv, LinkInv, PoolInv, [Next]_vars
  PROVE  \/ UNCHANGED <<delay_list, timer_bitmap>>
         \/ \E t \in Tasks, ms \in Delays : DelayTask(t, ms)
         \/ TickCount
         \/ TickExpire
<1>1. CASE SchedulerStep \/ SemaphoreStep \/ UNCHANGED vars
  BY <1>1 DEF SchedulerStep, SemaphoreStep, vars, timerVars
<1>2. CASE TimerStep
  <2>1. ASSUME NEW t \in Tasks, DelayBlock(t) PROVE UNCHANGED <<delay_list, timer_bitmap>>
    <3>1. Removable(t) /\ armed[t].task = t
      BY <2>1 DEF DelayBlock, At, PoolInv, ArmingRemovable, ArmingMasked, Arming
    <3> QED
      BY <2>1, <3>1 DEF DelayBlock
  <2> QED
    BY <1>2, <2>1 DEF TimerStep, DelayRefused, DelayExit, TickIdle, timerVars
<1>3. CASE QueueStep
  <2>1. ASSUME NEW t \in Tasks, QueueArm(t) PROVE UNCHANGED timerVars
    <3>1. ~Removable(t)
      BY <2>1 DEF QueueArm, At, PoolInv, QueueArming, Removable, WaitingState
    <3> QED
      BY <2>1, <3>1 DEF QueueArm, is_task_delayable, ReturnFalse
  <2>2. ASSUME NEW t \in Tasks, NEW q \in Queues, NEW d, Push(t, q, d) \/ Pop(t, q)
        PROVE  UNCHANGED <<delay_list, timer_bitmap>>
    BY <2>2, NotifyUntimed, QueueListsKnown DEF Push, Pop
  <2>3. ASSUME NEW t \in Tasks, NEW q, NEW d, NEW ms,
               \/ SendWait(t, q, d, ms) \/ ReceiveWait(t, q, ms)
               \/ SendRefused(t, q, ms) \/ ReceiveRefused(t, q, ms)
        PROVE  UNCHANGED timerVars
    BY <2>3 DEF SendWait, ReceiveWait, WaitInQueue, SendRefused, ReceiveRefused, ReturnFalse
  <2>4. ASSUME NEW q, NEW length, NEW size, CreateQueue(q, length, size) \/ CreateQueueFails
        PROVE  UNCHANGED timerVars
    BY <2>4 DEF CreateQueue, CreateQueueFails
  <2>5. ASSUME NEW t \in Tasks, NEW q \in Queues,
               \/ \E d \in Messages : SendNow(t, q, d)
               \/ ReceiveNow(t, q) \/ SendResume(t, q) \/ ReceiveResume(t, q)
        PROVE  UNCHANGED <<delay_list, timer_bitmap>>
    BY <2>2, <2>5 DEF SendNow, ReceiveNow, SendResume, ReceiveResume, ReturnFalse, timerVars
  <2>6. ASSUME NEW t \in Tasks, QueueExit(t) PROVE UNCHANGED timerVars
    BY <2>6 DEF QueueExit
  <2> QED
    BY <1>3, <2>1, <2>3, <2>4, <2>5, <2>6 DEF QueueStep, timerVars
<1> QED
  BY <1>1, <1>2, <1>3 DEF Next

-----------------------------------------------------------------------------
(* Where the tasks with a timer are.                                       *)

\* A registered task that is in no ready and no wait list gets into one only
\* when its timer expires.
LEMMA UnlinkedStays ==
  ASSUME TypeInv, LinkInv, [Next]_vars, NEW u \in Tasks, u \in task_list,
         ~Ready(u), ~Waits(u), TickExpire => u # Head(delay_list).task
  PROVE  u \in task_list' /\ ~Ready(u)' /\ ~Waits(u)'
<1> USE DEF LinkInv
<1>1. ASSUME UNCHANGED blocked_list PROVE ~Waits(u)'
  BY <1>1 DEF Waits, WaitsFor
<1>2. ASSUME UNCHANGED ready_list PROVE ~Ready(u)'
  BY <1>2 DEF Ready
<1>3. CASE QuietStep
  BY <1>1, <1>2, <1>3 DEF QuietStep
<1>4. ASSUME NEW v \in Tasks, CreateTask(v), UNCHANGED blocked_list
      PROVE  u \in task_list' /\ ~Ready(u)' /\ ~Waits(u)'
  <2>1. u # v /\ u \in task_list'
    BY <1>4 DEF CreateTask, is_task_createable
  <2>2. CASE Priority[v] \in Priorities
    <3>1. v \in Indexable /\ ~Ready(v) /\ insert_into_ready_list(v)
      BY <1>4, <2>2 DEF CreateTask, is_task_createable, Indexable, StateLinked
    <3> QED
      BY <1>1, <1>4, <2>1, <3>1, InsertReadyLinks
  <2>3. CASE Priority[v] \notin Priorities
    BY <1>1, <1>2, <1>4, <2>1, <2>3 DEF CreateTask
  <2> QED
    BY <2>2, <2>3
<1>5. ASSUME NEW t \in Tasks, NEW v \in Tasks, YieldTask(t, v), UNCHANGED blocked_list
      PROVE  u \in task_list' /\ ~Ready(u)' /\ ~Waits(u)'
  BY <1>1, <1>5, YieldLinks DEF YieldTask
<1>6. ASSUME NEW t \in Tasks, DelayBlock(t), UNCHANGED blocked_list
      PROVE  u \in task_list' /\ ~Ready(u)' /\ ~Waits(u)'
  <2>1. t \in Indexable /\ UNCHANGED task_list
    BY <1>6, ExecutingIndexable DEF DelayBlock, At
  <2>2. CASE BlocksDelayed(t)
    BY <1>1, <1>6, <2>1, <2>2, RemoveReadyLinks DEF BlocksDelayed
  <2>3. CASE GivesTimerBack(t)
    BY <1>1, <1>2, <1>6, <2>1, <2>3 DEF GivesTimerBack
  <2> QED
    BY <1>6, <2>2, <2>3, DelayBlockEnds
<1>7. CASE TickExpire /\ UNCHANGED blocked_list
  <2> DEFINE t == Head(delay_list).task
  <2>1. t \in Indexable /\ t \in Tasks /\ u # t /\ UNCHANGED task_list
    BY <1>7, HeadTimer DEF TickExpire, schedVars
  <2>2. CASE task_state[t] = "DELAY"
    BY <1>1, <1>7, <2>1, <2>2, InsertReadyLinks DEF TickExpire, StateLinked
  <2>3. CASE task_state[t] # "DELAY"
    BY <1>1, <1>2, <1>7, <2>1, <2>3 DEF TickExpire
  <2> QED
    BY <2>2, <2>3
<1>8. CASE ListsEmptied
  <2>1. UNCHANGED <<ready_list, task_list>>
    BY <1>8 DEF ListsEmptied, listVars
  <2>2. ~Waits(u)'
    BY <1>8, EmptiedLists DEF Waits, WaitsFor, Range
  <2> QED
    BY <1>2, <2>1, <2>2
<1>9. CASE Wakes
  <2> PICK l \in BlockedLists :
        blocked_list[l] # <<>> /\ WakeHead(l) /\ UNCHANGED task_list
    BY <1>9 DEF Wakes
  <2> DEFINE waiter == Head(blocked_list[l])
  <2>1. waiter \in Indexable /\ ~Ready(waiter) /\ Waits(waiter)
    BY WakeableWaits DEF WakeHead
  <2>2. ~Ready(u)'
    BY <2>1, InsertReadyLinks DEF WakeHead
  <2>3. Range(Tail(blocked_list[l])) \subseteq Range(blocked_list[l])
    BY ListsOfTasks, TailElements DEF WaitLinked
  <2>4. blocked_list' = [blocked_list EXCEPT ![l] = remove_from_blocked_list(@)]
    BY DEF WakeHead
  <2>5. ~Waits(u)'
    BY <2>3, <2>4 DEF Waits, WaitsFor, remove_from_blocked_list, TypeInv, CommTypeInv
  <2> QED
    BY <2>2, <2>5
<1>10. CASE Blocks
  <2> PICK t \in Tasks, l \in BlockedLists, state \in WaitingState :
        Executing(t) /\ BlockIn(t, l, state) /\ UNCHANGED task_list
    BY <1>10 DEF Blocks
  <2>1. Ready(t) /\ \A v \in Tasks : Ready(v)' <=> Ready(v) /\ v # t
    BY BlockerReady
  <2> PICK k \in 1..(Len(blocked_list[l]) + 1) :
        blocked_list' = [blocked_list EXCEPT ![l] = InsertAt(@, k, t)]
    BY DEF BlockIn
  <2>2. Range(InsertAt(blocked_list[l], k, t)) = Range(blocked_list[l]) \cup {t}
    BY ListsOfTasks, InsertAtRange
  <2>3. ~Waits(u)'
    BY <2>1, <2>2 DEF Waits, WaitsFor, TypeInv, CommTypeInv
  <2> QED
    BY <2>1, <2>3
<1> QED
  BY <1>3, <1>4, <1>5, <1>6, <1>7, <1>8, <1>9, <1>10, ListSteps

LEMMA ArmingRemovableStep ==
  ASSUME NVIC_PRIO_BITS >= 5, TypeInv, PoolInv, [Next]_vars
  PROVE  ArmingRemovable'
<1> SUFFICES ASSUME NEW t \in Tasks, Arming(t)' PROVE Removable(t)'
  BY DEF ArmingRemovable
<1>1. CASE Arming(t)
  <2>1. ~DelayBlock(t)
    BY DEF Arming, DelayBlock, CallSchedule, Goto, TypeInv, SchedTypeOK
  <2>2. UNCHANGED vars
    BY <1>1, <2>1, ArmingAlone DEF PoolInv
  <2> QED
    BY <1>1, <2>2 DEF vars, listVars, PoolInv, ArmingRemovable, Removable
<1>2. CASE ~Arming(t)
  <2> PICK ms \in Delays : DelayTask(t, ms)
    BY <1>2, ArmingSteps
  <2>1. Removable(t) /\ UNCHANGED listVars
    BY DEF DelayTask, ArmTimer, is_task_delayable
  <2> QED
    BY <2>1 DEF listVars, Removable
<1> QED
  BY <1>1, <1>2

LEMMA QueueArmingStep ==
  ASSUME NVIC_PRIO_BITS >= 5, TypeInv, PoolInv, [Next]_vars
  PROVE  QueueArming'
<1> SUFFICES ASSUME NEW t \in Tasks, pc'[t] = "queue_arm"
             PROVE  /\ boot' = "kernel" /\ curr_task_ptr' = t
                    /\ basepri' = BASEPRI_MASK_PENDSV_SYSTICK
                    /\ task_state'[t] \in WaitingState
  BY DEF QueueArming
<1>1. CASE pc[t] = "queue_arm"
  <2>1. ~DelayBlock(t) /\ ~QueueArm(t)
    BY <1>1 DEF DelayBlock, At, QueueArm, ReturnFalse, Goto, TypeInv, SchedTypeOK
  <2>2. UNCHANGED vars
    BY <1>1, <2>1, MaskedAlone DEF PoolInv, QueueArming
  <2> QED
    BY <1>1, <2>2 DEF vars, platformVars, listVars, schedVars, PoolInv, QueueArming
<1>2. CASE pc[t] # "queue_arm"
  <2>1. \A ms \in Delays : ~DelayTask(t, ms)
    BY DEF DelayTask, Goto, TypeInv, SchedTypeOK
  <2> PICK q \in Queues, l \in BlockedLists, state \in WaitingState, ms \in Timeouts,
           resume \in ReturnPC :
        Executing(t) /\ ms > 0 /\ WaitInQueue(t, q, l, state, ms, resume)
    BY <1>2, <2>1, SectionSteps DEF Section, QueueWaits
  <2>2. /\ boot = "kernel" /\ curr_task_ptr = t
        /\ UNCHANGED <<boot, curr_task_ptr>> /\ disable_ctx_sw
    BY DEF Executing, Alive, WaitInQueue
  <2>3. task_state' = [task_state EXCEPT ![t] = state]
    BY DEF WaitInQueue, BlockIn
  <2> QED
    BY <2>2, <2>3 DEF disable_ctx_sw, TypeInv, ListTypeInv
<1> QED
  BY <1>1, <1>2

LEMMA TickExpireTakes ==
  ASSUME TypeInv, TimerPoolExact, TickExpire, NEW u \in Tasks, Delayed(u)'
  PROVE  Delayed(u) /\ u # Head(delay_list).task
<1>1. delay_list \in Seq(ArmedTimer) /\ delay_list' \in Seq(ArmedTimer)
  BY TickExpirePlaces DEF TypeInv, TimerTypeInv
<1>2. /\ DOMAIN delay_list = 1..Len(delay_list) /\ Len(delay_list) \in Nat \ {0}
      /\ DOMAIN delay_list' = 1..(Len(delay_list) - 1)
  BY <1>1, TickExpirePlaces, LenProperties
<1> PICK i \in DOMAIN delay_list' : delay_list'[i].task = u
  BY DEF Delayed
<1>3. 1 \in DOMAIN delay_list /\ i + 1 \in DOMAIN delay_list /\ i + 1 # 1
  BY <1>2
<1>4. delay_list'[i] = delay_list[i + 1] /\ Head(delay_list) = delay_list[1]
  <2>1. i + 1 \in 1..Len(delay_list) /\ i + 1 > 1 /\ (i + 1) - 1 = i
    BY <1>2
  <2> QED
    BY <2>1, TickExpirePlaces
<1>5. delay_list[i + 1].task = u
  BY <1>4
<1> QED
  BY <1>3, <1>4, <1>5 DEF TimerPoolExact, Delayed

LEMMA DelayedUnlinkedStep ==
  ASSUME NVIC_PRIO_BITS >= 5, TypeInv, LinkInv, PoolInv, [Next]_vars
  PROVE  DelayedUnlinked'
<1> SUFFICES ASSUME NEW u \in Tasks, Delayed(u)'
             PROVE  u \in task_list' /\ (Arming(u)' \/ (~Ready(u)' /\ ~Waits(u)'))
  BY DEF DelayedUnlinked
<1>1. ASSUME NEW t \in Tasks, Arming(t)
      PROVE  u \in task_list' /\ (Arming(u)' \/ (~Ready(u)' /\ ~Waits(u)'))
  <2>1. CASE UNCHANGED vars
    BY <2>1 DEF vars, listVars, schedVars, timerVars, PoolInv, DelayedUnlinked, Delayed,
                Arming, Ready, Waits, WaitsFor
  <2>2. CASE DelayBlock(t)
    <3>0. Removable(t) /\ armed[t].task = t
      BY <1>1 DEF PoolInv, ArmingRemovable, ArmingMasked
    <3>1. /\ Removable(t) /\ remove_from_ready_list(t) /\ t \in Indexable
          /\ UNCHANGED <<delay_list, task_list>>
      BY <2>2, <3>0, ExecutingIndexable DEF DelayBlock, At
    <3>2. UNCHANGED blocked_list
      <4>1. task_state' = [task_state EXCEPT ![t] = "DELAY"]
        BY <2>2, <3>0 DEF DelayBlock
      <4>2. task_state'[t] = "DELAY" /\ task_state[t] = "RUNNING"
        BY <3>1, <4>1 DEF Removable, TypeInv, ListTypeInv
      <4> QED
        BY <2>2, <3>1, <4>2, ListSteps DEF QuietStep, ListsEmptied, listVars, Wakes, Blocks,
           WakeHead, BlockIn, BlockedState, WaitingState, TypeInv, ListTypeInv
    <3>3. \A v \in Tasks : Ready(v)' <=> Ready(v) /\ v # t
      BY <3>1, RemoveReadyLinks DEF LinkInv
    <3>4. Waits(u)' <=> Waits(u)
      BY <3>2 DEF Waits, WaitsFor
    <3>5. Delayed(u)
      BY <3>1 DEF Delayed
    <3>6. CASE u = t
      BY <3>1, <3>3, <3>4, <3>5, <3>6, RemovableReady
      DEF PoolInv, DelayedUnlinked, LinkInv, StateLinked
    <3>7. CASE u # t
      <4>1. ~Arming(u)
        BY <1>1, <3>7 DEF PoolInv, ArmingMasked
      <4> QED
        BY <3>1, <3>3, <3>4, <3>5, <4>1 DEF PoolInv, DelayedUnlinked
    <3> QED
      BY <3>6, <3>7
  <2> QED
    BY <1>1, <2>1, <2>2, ArmingAlone DEF PoolInv
<1>2. CASE \A t \in Tasks : ~Arming(t)
  <2>1. Delayed(u) => u \in task_list /\ ~Ready(u) /\ ~Waits(u)
    BY <1>2 DEF PoolInv, DelayedUnlinked
  <2>2. ASSUME NEW t \in Tasks, NEW ms \in Delays, DelayTask(t, ms)
        PROVE  Delayed(u) \/ (u \in task_list' /\ Arming(u)')
    <3>1. Delayed(u) \/ u = t
      <4>1. ms \in Int
        BY TimersAssumption
      <4> QED
        BY <2>2, <4>1, ArmTimerDelays DEF DelayTask
    <3>2. Removable(t) /\ pc' = [pc EXCEPT ![t] = "delay_block"] /\ UNCHANGED task_list
      BY <2>2 DEF DelayTask, ArmTimer, is_task_delayable, Goto
    <3>3. t \in task_list
      BY <3>2, RemovableReady DEF LinkInv, StateLinked
    <3> QED
      BY <3>1, <3>2, <3>3 DEF Arming, TypeInv, SchedTypeOK
  <2>3. \/ Delayed(u) /\ (TickExpire => u # Head(delay_list).task)
        \/ u \in task_list' /\ Arming(u)'
    <3>1. CASE TickExpire
      BY <3>1, TickExpireTakes DEF PoolInv
    <3>2. CASE ~TickExpire
      BY <2>2, <3>2, TimerSteps, TickCountDelays DEF Delayed
    <3> QED
      BY <3>1, <3>2
  <2> QED
    BY <2>1, <2>3, UnlinkedStays
<1> QED
  BY <1>1, <1>2

-----------------------------------------------------------------------------
(* The pool.                                                               *)

\* The places of the delay list hold timers.
LEMMA DelayListPlaces ==
  ASSUME TypeInv
  PROVE  /\ Len(delay_list) \in Nat /\ DOMAIN delay_list = 1..Len(delay_list)
         /\ \A i \in 1..Len(delay_list) :
              delay_list[i].id \in TimerIds /\ delay_list[i].task \in Tasks
              /\ delay_list[i].delay \in Ticks
<1>1. delay_list \in Seq(ArmedTimer)
  BY DEF TypeInv, TimerTypeInv
<1>2. /\ Len(delay_list) \in Nat /\ DOMAIN delay_list = 1..Len(delay_list)
      /\ \A i \in 1..Len(delay_list) : delay_list[i] \in ArmedTimer
  BY <1>1, LenProperties, ElementOfSeq
<1> QED
  BY <1>2 DEF ArmedTimer, Indexable

LEMMA ArmedPool ==
  ASSUME TypeInv, TimerPoolExact, NEW t \in Tasks, ~Delayed(t), NEW ms \in Int,
         NEW id \in TimerIds, ArmTimer(t, ms, id)
  PROVE  TimerPoolExact'
<1> PICK k \in 1..(Len(delay_list) + 1), left \in 0..ms :
      Inserted(k, [id |-> id, task |-> t, delay |-> left])
  BY ArmTimerPlaces
<1>1. /\ Len(delay_list) \in Nat /\ DOMAIN delay_list = 1..Len(delay_list)
      /\ DOMAIN delay_list' = 1..(Len(delay_list) + 1)
  BY DelayListPlaces, LenProperties DEF Inserted
<1>2. id \in timer_bitmap /\ timer_bitmap' = timer_bitmap \ {id}
  BY DEF ArmTimer, get_timer_instance, get_highest_bitmap_idx
<1>3. \A i \in DOMAIN delay_list : delay_list[i].id # id /\ delay_list[i].task # t
  BY <1>2 DEF TimerPoolExact, Delayed
<1> DEFINE old(j) == IF j < k THEN j ELSE j - 1
<1>4. k \in DOMAIN delay_list' /\ delay_list'[k].id = id /\ delay_list'[k].task = t
  BY <1>1 DEF Inserted
<1>5. ASSUME NEW j \in DOMAIN delay_list', j # k
      PROVE  /\ old(j) \in DOMAIN delay_list
             /\ delay_list'[j].id = delay_list[old(j)].id
             /\ delay_list'[j].task = delay_list[old(j)].task
  <2>1. CASE j < k
    BY <1>1, <2>1 DEF Inserted
  <2>2. CASE j > k
    <3>1. j - 1 \in DOMAIN delay_list /\ j - 1 >= k /\ (j - 1) + 1 = j
      BY <1>1, <2>2
    <3> QED
      BY <1>1, <3>1 DEF Inserted
  <2> QED
    BY <1>1, <1>5, <2>1, <2>2
<1>6. ASSUME NEW i \in DOMAIN delay_list', NEW j \in DOMAIN delay_list',
             \/ delay_list'[i].id = delay_list'[j].id
             \/ delay_list'[i].task = delay_list'[j].task
      PROVE  i = j
  <2>1. CASE i = k \/ j = k
    BY <1>3, <1>4, <1>5, <1>6, <2>1
  <2>2. CASE i # k /\ j # k
    <3>1. old(i) = old(j)
      BY <1>5, <1>6, <2>2 DEF TimerPoolExact
    <3> QED
      BY <1>1, <2>2, <3>1
  <2> QED
    BY <2>1, <2>2
<1> DEFINE new(i) == IF i < k THEN i ELSE i + 1
<1>7. ASSUME NEW i \in DOMAIN delay_list
      PROVE  new(i) \in DOMAIN delay_list' /\ delay_list'[new(i)].id = delay_list[i].id
  BY <1>1 DEF Inserted
<1>8. ASSUME NEW n \in TimerIds
      PROVE  n \in timer_bitmap' <=> \A j \in DOMAIN delay_list' : delay_list'[j].id # n
  BY <1>2, <1>4, <1>5, <1>7 DEF TimerPoolExact
<1> QED
  BY <1>6, <1>8 DEF TimerPoolExact

LEMMA CountedPool ==
  ASSUME TypeInv, TimerPoolExact, TickCount
  PROVE  TimerPoolExact'
<1>1. /\ DOMAIN delay_list = 1..Len(delay_list) /\ DOMAIN delay_list' = 1..Len(delay_list)
      /\ \A i \in 1..Len(delay_list) : delay_list[i] \in ArmedTimer
  BY TickCountPlaces, LenProperties, ElementOfSeq DEF TypeInv, TimerTypeInv
<1>2. \A i \in 1..Len(delay_list) : /\ delay_list'[i].id = delay_list[i].id
                                    /\ delay_list'[i].task = delay_list[i].task
  BY <1>1, TickCountPlaces DEF ArmedTimer
<1>3. UNCHANGED timer_bitmap
  BY DEF TickCount
<1> QED
  BY <1>1, <1>2, <1>3 DEF TimerPoolExact

LEMMA ExpiredPool ==
  ASSUME TypeInv, TimerPoolExact, TickExpire
  PROVE  TimerPoolExact'
<1>1. /\ Len(delay_list) \in Nat \ {0} /\ DOMAIN delay_list = 1..Len(delay_list)
      /\ DOMAIN delay_list' = 1..(Len(delay_list) - 1)
  BY DelayListPlaces, TickExpirePlaces, LenProperties
<1>2. timer_bitmap' = timer_bitmap \cup {delay_list[1].id}
  BY TickExpirePlaces DEF TickExpire, return_timer_instance
<1>3. ASSUME NEW i \in DOMAIN delay_list'
      PROVE  i + 1 \in DOMAIN delay_list /\ i + 1 # 1 /\ delay_list'[i] = delay_list[i + 1]
  <2>1. i + 1 \in 1..Len(delay_list) /\ i + 1 > 1 /\ (i + 1) - 1 = i
    BY <1>1
  <2> QED
    BY <1>1, <2>1, TickExpirePlaces
<1>4. ASSUME NEW i \in DOMAIN delay_list, i # 1
      PROVE  i - 1 \in DOMAIN delay_list' /\ delay_list'[i - 1] = delay_list[i]
  BY <1>1, <1>4, TickExpirePlaces
<1>5. ASSUME NEW i \in DOMAIN delay_list', NEW j \in DOMAIN delay_list',
             \/ delay_list'[i].id = delay_list'[j].id
             \/ delay_list'[i].task = delay_list'[j].task
      PROVE  i = j
  <2>1. i + 1 = j + 1
    BY <1>3, <1>5 DEF TimerPoolExact
  <2> QED
    BY <1>1, <2>1
<1>6. ASSUME NEW n \in TimerIds
      PROVE  n \in timer_bitmap' <=> \A j \in DOMAIN delay_list' : delay_list'[j].id # n
  <2>1. 1 \in DOMAIN delay_list
    BY <1>1
  <2>2. CASE n = delay_list[1].id
    BY <1>2, <1>3, <2>1, <2>2 DEF TimerPoolExact
  <2>3. CASE n # delay_list[1].id
    BY <1>2, <1>3, <1>4, <2>1, <2>3 DEF TimerPoolExact
  <2> QED
    BY <2>2, <2>3
<1> QED
  BY <1>5, <1>6 DEF TimerPoolExact

LEMMA PoolStep ==
  ASSUME NVIC_PRIO_BITS >= 5, TypeInv, LinkInv, PoolInv, [Next]_vars
  PROVE  PoolInv'
<1>1. ASSUME NEW t \in Tasks, NEW ms \in Delays, DelayTask(t, ms) PROVE TimerPoolExact'
  <2>1. Removable(t) /\ ~Arming(t)
    BY <1>1 DEF DelayTask, ArmTimer, is_task_delayable, Calling, At, Arming
  <2>2. ms \in Int
    BY TimersAssumption
  <2> QED
    BY <1>1, <2>1, <2>2, CallerUntimed, ArmedPool DEF DelayTask, PoolInv
<1>2. TimerPoolExact'
  <2>1. CASE UNCHANGED <<delay_list, timer_bitmap>>
    BY <2>1 DEF PoolInv, TimerPoolExact
  <2> QED
    BY <1>1, <2>1, TimerSteps, CountedPool, ExpiredPool DEF PoolInv
<1>3. ArmingMasked'
  BY ArmingStep DEF PoolInv
<1> QED
  BY <1>2, <1>3, ArmingRemovableStep, DelayedUnlinkedStep, QueueArmingStep DEF PoolInv

LEMMA PoolInvariance ==
  ASSUME NVIC_PRIO_BITS >= 5
  PROVE  Spec => []PoolInv
<1>1. TypeInv /\ LinkInv /\ PoolInv /\ [Next]_vars => PoolInv'
  BY PoolStep
<1> QED
  BY <1>1, PoolInit, TypeInvariance, LinkInvariance, PTL DEF Spec

\* Where the mask works, which takes five priority bits, no timer is lost or in
\* the delay list twice, and no task has two: a delay that asks for the one a
\* task already has, a timer given back that stays in the list, and a wake-up
\* that takes the timer of another task do not happen.
THEOREM PoolCorrect ==
  ASSUME NVIC_PRIO_BITS >= 5
  PROVE  Spec => []TimerPoolExact
BY PoolInvariance, PTL DEF PoolInv

-----------------------------------------------------------------------------
(* The sums of the delays.                                                 *)

LEMMA TotalDelayEquation ==
  ASSUME NEW list, Len(list) \in Nat
  PROVE  /\ TotalDelay(list, 0) = 0
         /\ \A i \in 1..Len(list) : TotalDelay(list, i) = TotalDelay(list, i - 1) + list[i].delay
<1> DEFINE sum == CHOOSE f : f = [i \in 0..Len(list) |->
                                    IF i = 0 THEN 0 ELSE f[i - 1] + list[i].delay]
<1>1. sum = [i \in 0..Len(list) |-> IF i = 0 THEN 0 ELSE sum[i - 1] + list[i].delay]
  <2> DEFINE d == [i \in 1..Len(list) |-> list[i].delay]
  <2>1. \A i \in 0..Len(list) : i # 0 => d[i] = list[i].delay
    OBVIOUS
  <2> HIDE DEF d
  <2>2. PICK f : IsSum(f, Len(list), 0, d)
    BY SumExists
  <2>3. f = [i \in 0..Len(list) |-> IF i = 0 THEN 0 ELSE f[i - 1] + list[i].delay]
    BY <2>1, <2>2 DEF IsSum
  <2> QED
    BY <2>3
<1>2. \A k : TotalDelay(list, k) = sum[k]
  BY DEF TotalDelay
<1> HIDE DEF sum
<1>3. sum[0] = 0 /\ \A i \in 1..Len(list) : sum[i] = sum[i - 1] + list[i].delay
  BY <1>1
<1> QED
  BY <1>2, <1>3

\* The delays of a list are numbers.
Timed(list) ==
  Len(list) \in Nat /\ DOMAIN list = 1..Len(list) /\ \A i \in 1..Len(list) : list[i].delay \in Int

LEMMA TotalDelayInt ==
  ASSUME NEW list, Timed(list)
  PROVE  \A i \in 0..Len(list) : TotalDelay(list, i) \in Int
<1> DEFINE Good == {i \in 0..Len(list) : TotalDelay(list, i) \in Int}
<1>1. Len(list) \in Nat /\ 0 \in Good
  BY TotalDelayEquation DEF Timed
<1>2. ASSUME NEW i \in (0 + 1)..Len(list), i - 1 \in Good PROVE i \in Good
  <2>1. TotalDelay(list, i) = TotalDelay(list, i - 1) + list[i].delay
    BY <1>1, TotalDelayEquation
  <2> QED
    BY <1>2, <2>1 DEF Timed
<1>3. Good \in SUBSET (0..Len(list))
  OBVIOUS
<1> HIDE DEF Good
<1>4. 0..Len(list) \subseteq Good
  BY <1>1, <1>2, <1>3, UpTo
<1> QED
  BY <1>4 DEF Good

\* From place a on to b the delays of a list are those of another one d places
\* further, and at a the sums are c apart.
SameDelays(old, new, a, b, d, c) ==
  /\ Timed(old) /\ Timed(new)
  /\ a \in Nat /\ b \in Nat /\ d \in Int /\ c \in Int
  /\ b <= Len(old) /\ a + d >= 0 /\ b + d <= Len(new)
  /\ TotalDelay(new, a + d) = TotalDelay(old, a) + c
  /\ \A i \in (a + 1)..b : new[i + d].delay = old[i].delay

\* They stay as far apart as they are.
LEMMA SumsApart ==
  ASSUME NEW old, NEW new, NEW a, NEW b, NEW d, NEW c, SameDelays(old, new, a, b, d, c)
  PROVE  \A i \in a..b : TotalDelay(new, i + d) = TotalDelay(old, i) + c
<1> USE DEF SameDelays
<1> DEFINE Good == {i \in a..b : TotalDelay(new, i + d) = TotalDelay(old, i) + c}
<1>1. a <= b => a \in Good
  OBVIOUS
<1>2. ASSUME NEW i \in (a + 1)..b, i - 1 \in Good PROVE i \in Good
  <2>1. /\ i \in 1..Len(old) /\ i + d \in 1..Len(new) /\ (i - 1) + d = (i + d) - 1
        /\ i - 1 \in 0..Len(old) /\ i \in a..b
    BY DEF Timed
  <2>2. /\ TotalDelay(old, i) = TotalDelay(old, i - 1) + old[i].delay
        /\ TotalDelay(new, i + d) = TotalDelay(new, (i + d) - 1) + new[i + d].delay
    BY <2>1, TotalDelayEquation DEF Timed
  <2>3. TotalDelay(new, (i + d) - 1) = TotalDelay(old, i - 1) + c
    BY <1>2, <2>1
  <2>4. TotalDelay(old, i - 1) \in Int /\ old[i].delay \in Int /\ c \in Int
    BY <2>1, TotalDelayInt DEF Timed
  <2>5. new[i + d].delay = old[i].delay
    BY <2>1
  <2>6. TotalDelay(new, i + d) = (TotalDelay(old, i - 1) + c) + old[i].delay
    BY ONLY <2>2, <2>3, <2>5
  <2>7. TotalDelay(new, i + d) = TotalDelay(old, i) + c
    BY ONLY <2>2, <2>4, <2>6
  <2> QED
    BY <2>1, <2>7
<1>3. Good \in SUBSET (a..b)
  OBVIOUS
<1> HIDE DEF Good
<1>4. a..b \subseteq Good
  BY <1>1, <1>2, <1>3, UpTo
<1> QED
  BY <1>4 DEF Good

-----------------------------------------------------------------------------
(* The ticks left of the timers.                                           *)

LEMMA ArmedBefore == Armed = {ArmedAt(delay_list, i) : i \in DOMAIN delay_list}
BY DEF Armed, ArmedAt

LEMMA ArmedAfter == Armed' = {ArmedAt(delay_list', i) : i \in DOMAIN delay_list'}
BY DEF Armed, ArmedAt, TotalDelay

LEMMA DelayListTimed ==
  ASSUME TypeInv
  PROVE  Timed(delay_list)
BY DelayListPlaces, TimersAssumption DEF Timed, Ticks

LEMMA ArmedRemaining ==
  ASSUME TypeInv, NEW t \in Tasks, NEW ms \in Delays, NEW id \in TimerIds, ArmTimer(t, ms, id)
  PROVE  Arms(t, ms)
<1> PICK old, new : old = delay_list /\ new = delay_list'
  OBVIOUS
<1>1. ms \in Int
  BY TimersAssumption
<1> PICK k \in 1..(Len(delay_list) + 1), left \in 0..ms :
      ScanStopsAt(ms, k, left) /\ Inserted(k, [id |-> id, task |-> t, delay |-> left])
  BY <1>1, ArmTimerPlaces
<1> DEFINE n == Len(old)
<1>2. Timed(old) /\ n \in Nat /\ k \in 1..(n + 1) /\ left \in Int /\ DOMAIN old = 1..n
  BY <1>1, DelayListTimed DEF Timed
<1>3. /\ Len(new) = n + 1 /\ DOMAIN new = 1..(n + 1)
      /\ new[k].id = id /\ new[k].task = t /\ new[k].delay = left
      /\ \A i \in 1..n : i < k => new[i] = old[i]
      /\ \A i \in 1..n : i >= k => /\ new[i + 1].id = old[i].id
                                   /\ new[i + 1].task = old[i].task
                                   /\ new[i + 1].delay =
                                        IF i = k THEN old[i].delay - left ELSE old[i].delay
  BY LenProperties DEF Inserted
<1> HIDE DEF n
<1>4. Timed(new)
  <2>1. ASSUME NEW j \in 1..(n + 1) PROVE new[j].delay \in Int
    <3>1. CASE j < k
      BY <1>2, <1>3, <3>1 DEF Timed, n
    <3>2. CASE j = k
      BY <1>2, <1>3, <3>2
    <3>3. CASE j > k
      <4>1. j - 1 \in 1..n /\ j - 1 >= k /\ (j - 1) + 1 = j
        BY <1>2, <3>3
      <4>2. old[j - 1].delay \in Int
        BY <1>2, <4>1 DEF Timed, n
      <4>3. new[j].delay = IF j - 1 = k THEN old[j - 1].delay - left ELSE old[j - 1].delay
        BY <1>3, <4>1
      <4> QED
        BY <1>2, <4>2, <4>3
    <3> QED
      BY <1>2, <3>1, <3>2, <3>3
  <2> QED
    BY <1>2, <1>3, <2>1 DEF Timed
<1>5. \A i \in 0..(k - 1) : TotalDelay(new, i) = TotalDelay(old, i)
  <2>1. TotalDelay(new, 0) = 0 /\ TotalDelay(old, 0) = 0
    BY <1>2, <1>4, TotalDelayEquation DEF Timed
  <2> PICK a \in Nat, b \in Nat, d \in Int : a = 0 /\ b = k - 1 /\ d = 0
    BY <1>2
  <2>2. \A i \in (a + 1)..b : new[i + d].delay = old[i].delay
    BY <1>2, <1>3
  <2>3. /\ b <= Len(old) /\ a + d >= 0 /\ b + d <= Len(new)
        /\ TotalDelay(new, a + d) = TotalDelay(old, a) + d
    BY <1>2, <1>3, <2>1 DEF n
  <2>4. \A i \in a..b : TotalDelay(new, i + d) = TotalDelay(old, i) + d
    <3>1. SameDelays(old, new, a, b, d, d)
      BY <1>2, <1>4, <2>2, <2>3 DEF SameDelays
    <3> QED
      BY <3>1, SumsApart
  <2>5. \A i \in 0..(k - 1) : TotalDelay(old, i) \in Int
    BY <1>2, TotalDelayInt DEF n
  <2> QED
    BY <2>4, <2>5
<1>6. TotalDelay(new, k) = ms
  <2>1. left = ms - TotalDelay(old, k - 1)
    BY DEF ScanStopsAt
  <2>2. TotalDelay(new, k) = TotalDelay(new, k - 1) + left
    BY <1>2, <1>3, <1>4, TotalDelayEquation DEF Timed
  <2>3. TotalDelay(new, k - 1) = TotalDelay(old, k - 1) /\ TotalDelay(old, k - 1) \in Int
    BY <1>2, <1>5, TotalDelayInt DEF n
  <2> QED
    BY <1>1, <2>1, <2>2, <2>3
<1>7. \A i \in k..n : TotalDelay(new, i + 1) = TotalDelay(old, i)
  <2> SUFFICES ASSUME k <= n PROVE \A i \in k..n : TotalDelay(new, i + 1) = TotalDelay(old, i)
    BY <1>2
  <2>1. /\ TotalDelay(new, k + 1) = TotalDelay(new, (k + 1) - 1) + new[k + 1].delay
        /\ TotalDelay(old, k) = TotalDelay(old, k - 1) + old[k].delay
    <3>1. k + 1 \in 1..Len(new) /\ k \in 1..Len(old) /\ Len(new) \in Nat /\ Len(old) \in Nat
      BY <1>2, <1>3 DEF n
    <3> PICK m : m = k + 1
      OBVIOUS
    <3>2. TotalDelay(new, m) = TotalDelay(new, m - 1) + new[m].delay
      BY <3>1, TotalDelayEquation
    <3>3. TotalDelay(old, k) = TotalDelay(old, k - 1) + old[k].delay
      BY <3>1, TotalDelayEquation
    <3> QED
      BY <3>2, <3>3
  <2>2. new[k + 1].delay = old[k].delay - left /\ old[k].delay \in Int
    BY <1>2, <1>3 DEF Timed, n
  <2>3. left = ms - TotalDelay(old, k - 1) /\ TotalDelay(old, k - 1) \in Int
    BY <1>2, TotalDelayInt DEF ScanStopsAt, n
  <2>4. TotalDelay(new, (k + 1) - 1) = ms
    BY <1>2, <1>6
  <2> PICK d \in Int, c \in Int : d = 1 /\ c = 0
    OBVIOUS
  <2>5. TotalDelay(new, k + d) = TotalDelay(old, k) + c
    BY <1>1, <2>1, <2>2, <2>3, <2>4
  <2>6. \A i \in (k + 1)..n : new[i + d].delay = old[i].delay
    BY <1>2, <1>3
  <2>7. /\ k \in Nat /\ n <= Len(old) /\ k + d >= 0 /\ n + d <= Len(new)
    BY <1>2, <1>3 DEF n
  <2>8. \A i \in k..n : TotalDelay(new, i + d) = TotalDelay(old, i) + c
    <3>1. SameDelays(old, new, k, n, d, c)
      BY <1>2, <1>4, <2>5, <2>6, <2>7 DEF SameDelays
    <3> QED
      BY <3>1, SumsApart
  <2>9. \A i \in k..n : TotalDelay(old, i) \in Int
    BY <1>2, TotalDelayInt DEF n
  <2> QED
    BY <2>8, <2>9
<1>8. ArmedAt(new, k) = [id |-> id, task |-> t, left |-> ms] /\ k \in 1..(n + 1)
  BY <1>2, <1>3, <1>6 DEF ArmedAt
<1>9. ASSUME NEW i \in 1..n
      PROVE  \E j \in 1..(n + 1) : ArmedAt(new, j) = ArmedAt(old, i)
  <2>1. CASE i < k
    <3>1. i \in 1..(n + 1) /\ i \in 0..(k - 1)
      BY <1>2, <2>1
    <3> QED
      BY <1>3, <1>5, <2>1, <3>1 DEF ArmedAt
  <2>2. CASE i >= k
    <3>1. i + 1 \in 1..(n + 1) /\ i \in k..n
      BY <1>2, <2>2
    <3>2. ArmedAt(new, i + 1) = ArmedAt(old, i)
      BY <1>3, <1>7, <2>2, <3>1 DEF ArmedAt
    <3> QED
      BY <3>1, <3>2
  <2> QED
    BY <1>2, <2>1, <2>2
<1>10. ASSUME NEW j \in 1..(n + 1), j # k
       PROVE  \E i \in 1..n : ArmedAt(new, j) = ArmedAt(old, i)
  <2>1. CASE j < k
    <3>1. j \in 1..n /\ j \in 0..(k - 1)
      BY <1>2, <2>1
    <3> QED
      BY <1>3, <1>5, <2>1, <3>1 DEF ArmedAt
  <2>2. CASE j > k
    <3>1. j - 1 \in 1..n /\ j - 1 \in k..n /\ j - 1 >= k /\ (j - 1) + 1 = j
      BY <1>2, <2>2
    <3>2. ArmedAt(new, (j - 1) + 1) = ArmedAt(old, j - 1)
      BY <1>3, <1>7, <3>1 DEF ArmedAt
    <3> QED
      BY <3>1, <3>2
  <2> QED
    BY <1>2, <1>10, <2>1, <2>2
<1>11. Armed = {ArmedAt(old, i) : i \in 1..n} /\ Armed' = {ArmedAt(new, j) : j \in 1..(n + 1)}
  BY <1>2, <1>3, ArmedBefore, ArmedAfter
<1>12. Armed' = Armed \cup {[id |-> id, task |-> t, left |-> ms]}
  BY <1>8, <1>9, <1>10, <1>11
<1>13. id \in timer_bitmap
  BY DEF ArmTimer, get_timer_instance, get_highest_bitmap_idx
<1> QED
  BY <1>12, <1>13 DEF Arms

\* What a tick does to the time of a timer.
LEMMA OneLess ==
  ASSUME NEW id, NEW task, NEW left, NEW wrapped
  PROVE  [[id |-> id, task |-> task, left |-> left] EXCEPT !.left = @ - 1 + wrapped]
           = [id |-> id, task |-> task, left |-> left - 1 + wrapped]
OBVIOUS

\* The width of a delay field, if the decrement of d wraps.
Wrapped(d) == IF d = 0 THEN UINT32_MODULUS ELSE 0

LEMMA DecrementedByOne ==
  ASSUME NEW d \in Ticks
  PROVE  /\ Decremented(d) = d - 1 + Wrapped(d) /\ Wrapped(d) \in Int
         /\ Decremented(d) = 0 <=> d = 1
<1>1. UINT32_MODULUS \in Nat /\ UINT32_MODULUS >= 2
  BY TimersAssumption
<1>2. CASE d = 0
  <2>1. Decremented(d) = UINT32_MODULUS - 1
    BY <1>1, <1>2 DEF Decremented
  <2> QED
    BY <1>1, <1>2, <2>1 DEF Wrapped
<1>3. CASE d # 0
  <2>1. Decremented(d) = d - 1
    BY <1>1, <1>3 DEF Ticks, Decremented
  <2> QED
    BY <1>1, <1>3, <2>1 DEF Wrapped, Ticks
<1> QED
  BY <1>2, <1>3

LEMMA CountedRemaining ==
  ASSUME TypeInv, TickCount
  PROVE  Ticked
<1> PICK old, new : old = delay_list /\ new = delay_list'
  OBVIOUS
<1> PICK wrapped : wrapped = Wrapped(Head(delay_list).delay)
  OBVIOUS
<1> DEFINE n == Len(old)
<1>1. /\ n \in Nat /\ DOMAIN old = 1..n /\ Timed(old)
      /\ \A i \in 1..n : old[i] \in ArmedTimer
  BY DelayListTimed, LenProperties, ElementOfSeq DEF Timed, TypeInv, TimerTypeInv
<1>2. n > 0 /\ Len(new) = n /\ DOMAIN new = 1..n
  BY TickCountPlaces, LenProperties
<1>3. 1 \in 1..n /\ Head(old) = old[1]
  BY <1>1, <1>2, HeadTailProperties DEF TickCount, TypeInv, TimerTypeInv
<1>4. old[1].delay \in Ticks
  BY <1>1, <1>3 DEF ArmedTimer
<1>0. /\ Decremented(old[1].delay) = old[1].delay - 1 + wrapped /\ wrapped \in Int
      /\ Head(delay_list).delay # 1
  BY <1>3, <1>4, DecrementedByOne DEF TickCount
<1> HIDE DEF n
<1>5. \A i \in 1..n : /\ new[i].id = old[i].id /\ new[i].task = old[i].task
                      /\ new[i].delay =
                           IF i = 1 THEN old[1].delay - 1 + wrapped ELSE old[i].delay
  <2>1. \A i \in 1..n : new[i] = IF i = 1 THEN [old[i] EXCEPT !.delay = Decremented(@)] ELSE old[i]
    BY TickCountPlaces DEF n
  <2>2. /\ new[1].id = old[1].id /\ new[1].task = old[1].task
        /\ new[1].delay = Decremented(old[1].delay)
    BY <1>1, <1>3, <2>1 DEF ArmedTimer
  <2> QED
    BY <1>0, <2>1, <2>2
<1>6. Timed(new)
  BY <1>0, <1>1, <1>2, <1>5 DEF Timed, n
<1>7. \A i \in 1..n : TotalDelay(new, i) = TotalDelay(old, i) - 1 + wrapped
  <2>1. /\ TotalDelay(new, 1) = TotalDelay(new, 1 - 1) + new[1].delay
        /\ TotalDelay(old, 1) = TotalDelay(old, 1 - 1) + old[1].delay
        /\ TotalDelay(new, 0) = 0 /\ TotalDelay(old, 0) = 0
    BY <1>1, <1>2, <1>3, <1>6, TotalDelayEquation DEF Timed, n
  <2>2. new[1].delay = old[1].delay - 1 + wrapped /\ old[1].delay \in Int
    BY <1>1, <1>3, <1>5 DEF Timed, n
  <2> PICK a \in Nat, d \in Int, c \in Int : a = 1 /\ d = 0 /\ c = wrapped - 1
    BY <1>0
  <2>3. TotalDelay(new, a + d) = TotalDelay(old, a) + c
    BY <1>0, <2>1, <2>2
  <2>4. \A i \in (a + 1)..n : new[i + d].delay = old[i].delay
    BY <1>1, <1>5
  <2>5. n <= Len(old) /\ a + d >= 0 /\ n + d <= Len(new) /\ n \in Nat
    BY <1>1, <1>2 DEF n
  <2>6. \A i \in a..n : TotalDelay(new, i + d) = TotalDelay(old, i) + c
    <3>1. SameDelays(old, new, a, n, d, c)
      BY <1>1, <1>6, <2>3, <2>4, <2>5 DEF SameDelays
    <3> QED
      BY <3>1, SumsApart
  <2>7. \A i \in 1..n : TotalDelay(old, i) \in Int
    BY <1>1, TotalDelayInt DEF n
  <2> QED
    BY <1>0, <2>6, <2>7
<1>8. \A i \in 1..n : ArmedAt(new, i) = [ArmedAt(old, i) EXCEPT !.left = @ - 1 + wrapped]
  BY <1>5, <1>7, OneLess DEF ArmedAt
<1>9. Armed = {ArmedAt(old, i) : i \in 1..n} /\ Armed' = {ArmedAt(new, i) : i \in 1..n}
  BY <1>1, <1>2, ArmedBefore, ArmedAfter
<1>10. {[timer EXCEPT !.left = @ - 1 + wrapped] : timer \in Armed}
         = {[ArmedAt(old, i) EXCEPT !.left = @ - 1 + wrapped] : i \in 1..n}
  BY <1>9
<1>11. Armed' = {[timer EXCEPT !.left = @ - 1 + wrapped] : timer \in Armed}
  BY <1>8, <1>9, <1>10
<1> QED
  BY <1>0, <1>11 DEF Ticked, Wrapped

LEMMA ExpiredRemaining ==
  ASSUME TypeInv, TimerPoolExact, TickExpire
  PROVE  Ticked
<1> PICK old, new : old = delay_list /\ new = delay_list'
  OBVIOUS
<1> DEFINE n == Len(old)
<1>1. /\ n \in Nat \ {0} /\ DOMAIN old = 1..n /\ Timed(old)
      /\ Len(new) = n - 1 /\ DOMAIN new = 1..(n - 1)
      /\ Head(old) = old[1]
      /\ \A i \in 1..n : i > 1 => new[i - 1] = old[i]
  BY DelayListTimed, TickExpirePlaces, LenProperties DEF Timed
<1>2. 1 \in 1..n /\ old[1].delay = 1
  <2>1. 1 \in 1..n /\ old[1].delay \in Ticks
    BY <1>1, DelayListPlaces
  <2>2. Decremented(old[1].delay) = 0
    BY <1>1 DEF TickExpire
  <2> QED
    BY <2>1, <2>2, DecrementedByOne
<1>3. \A i \in 1..n : i # 1 => old[i].id # old[1].id
  BY <1>1, <1>2 DEF TimerPoolExact
<1> HIDE DEF n
<1>4. Timed(new)
  <2>1. ASSUME NEW i \in 1..(n - 1) PROVE new[i].delay \in Int
    <3>1. i + 1 \in 1..n /\ i + 1 > 1 /\ (i + 1) - 1 = i
      BY <1>1
    <3>2. new[i] = old[i + 1]
      BY <1>1, <3>1
    <3> QED
      BY <1>1, <3>1, <3>2 DEF Timed, n
  <2> QED
    BY <1>1, <2>1 DEF Timed
<1>5. TotalDelay(old, 1) = 1
  <2>1. TotalDelay(old, 1) = TotalDelay(old, 1 - 1) + old[1].delay /\ TotalDelay(old, 0) = 0
    BY <1>1, <1>2, TotalDelayEquation DEF Timed, n
  <2> QED
    BY <1>2, <2>1
<1>6. \A i \in 1..n : TotalDelay(new, i - 1) = TotalDelay(old, i) - 1
  <2> PICK a \in Nat, d \in Int : a = 1 /\ d = -1
    OBVIOUS
  <2>1. TotalDelay(new, a + d) = TotalDelay(old, a) + d
    BY <1>4, <1>5, TotalDelayEquation DEF Timed
  <2>2. \A i \in (a + 1)..n : new[i + d].delay = old[i].delay
    BY <1>1
  <2>3. n <= Len(old) /\ a + d >= 0 /\ n + d <= Len(new) /\ n \in Nat
    BY <1>1 DEF n
  <2>4. \A i \in a..n : TotalDelay(new, i + d) = TotalDelay(old, i) + d
    <3>1. SameDelays(old, new, a, n, d, d)
      BY <1>1, <1>4, <2>1, <2>2, <2>3 DEF SameDelays
    <3> QED
      BY <3>1, SumsApart
  <2>5. \A i \in 1..n : TotalDelay(old, i) \in Int
    BY <1>1, TotalDelayInt DEF n
  <2> QED
    BY <1>1, <2>4, <2>5
<1>7. \A i \in 2..n : ArmedAt(new, i - 1) = [ArmedAt(old, i) EXCEPT !.left = @ - 1 + 0]
  <2> SUFFICES ASSUME NEW i \in 2..n
               PROVE  ArmedAt(new, i - 1) = [ArmedAt(old, i) EXCEPT !.left = @ - 1 + 0]
    OBVIOUS
  <2>1. new[i - 1] = old[i] /\ TotalDelay(new, i - 1) = TotalDelay(old, i) - 1 + 0
    <3>1. i \in 1..n /\ TotalDelay(old, i) \in Int
      BY <1>1, TotalDelayInt DEF n
    <3> QED
      BY <1>1, <1>6, <3>1
  <2> QED
    BY <2>1, OneLess DEF ArmedAt
<1>8. /\ Armed = {ArmedAt(old, i) : i \in 1..n}
      /\ Armed' = {ArmedAt(new, i) : i \in 1..(n - 1)}
  BY <1>1, ArmedBefore, ArmedAfter
<1>9. Armed \ {ArmedAt(old, 1)} = {ArmedAt(old, i) : i \in 2..n}
  <2>2. \A i \in 2..n : i \in 1..n /\ ArmedAt(old, i) # ArmedAt(old, 1)
    <3>1. \A i \in 2..n : i \in 1..n /\ i # 1
      BY <1>1
    <3>2. \A i \in 1..n : ArmedAt(old, i).id = old[i].id
      BY DEF ArmedAt
    <3> QED
      BY <1>2, <1>3, <3>1, <3>2
  <2>3. \A i \in 1..n : i = 1 \/ i \in 2..n
    BY <1>1
  <2> QED
    BY <1>2, <1>8, <2>2, <2>3
<1>10. {ArmedAt(new, i) : i \in 1..(n - 1)} = {ArmedAt(new, i - 1) : i \in 2..n}
  <2>1. \A i \in 1..(n - 1) : i + 1 \in 2..n /\ (i + 1) - 1 = i
    BY <1>1
  <2>2. \A i \in 2..n : i - 1 \in 1..(n - 1)
    BY <1>1
  <2> QED
    BY <2>1, <2>2
<1>11. {[timer EXCEPT !.left = @ - 1 + 0] : timer \in {ArmedAt(old, i) : i \in 2..n}}
         = {[ArmedAt(old, i) EXCEPT !.left = @ - 1 + 0] : i \in 2..n}
  OBVIOUS
<1>12. Armed' = {[ArmedAt(old, i) EXCEPT !.left = @ - 1 + 0] : i \in 2..n}
  <2>1. {ArmedAt(new, i - 1) : i \in 2..n}
          = {[ArmedAt(old, i) EXCEPT !.left = @ - 1 + 0] : i \in 2..n}
    <3> DEFINE f(i) == ArmedAt(new, i - 1)
               g(i) == [ArmedAt(old, i) EXCEPT !.left = @ - 1 + 0]
    <3>1. \A i \in 2..n : f(i) = g(i)
      BY <1>7
    <3> HIDE DEF f, g
    <3>2. {f(i) : i \in 2..n} = {g(i) : i \in 2..n}
      BY <3>1
    <3> QED
      BY <3>2 DEF f, g
  <2> QED
    BY <1>8, <1>10, <2>1, Zenon
<1>13. Head(delay_list).delay = 1
  BY <1>1, <1>2
<1> QED
  BY <1>9, <1>11, <1>12, <1>13 DEF Ticked

\* Where the mask works the delta list is exact, whatever the tasks and the ticks
\* do: delay_task adds a timer with the ms of the call to go and leaves the time
\* of the others alone, a tick counts once for each of them, or puts all of them
\* off by 2^32 where it decrements a head that has no ticks left, and nothing
\* else changes the list.
THEOREM RemainingCorrect ==
  ASSUME NVIC_PRIO_BITS >= 5
  PROVE  Spec => RemainingKept
<1> DEFINE keeps ==
      /\ \A t \in Tasks, ms \in Delays : DelayTask(t, ms) => Arms(t, ms)
      /\ TickCount \/ TickExpire => Ticked
      /\ \/ TickCount \/ TickExpire
         \/ \E t \in Tasks, ms \in Delays : DelayTask(t, ms)
<1>1. TypeInv /\ LinkInv /\ PoolInv /\ [Next]_vars => [keeps]_delay_list
  <2> SUFFICES ASSUME TypeInv, LinkInv, PoolInv, [Next]_vars, delay_list' # delay_list
               PROVE  keeps
    BY Zenon
  <2>1. ASSUME NEW t \in Tasks, NEW ms \in Delays, DelayTask(t, ms) PROVE Arms(t, ms)
    BY <2>1, ArmedRemaining DEF DelayTask
  <2>2. TickCount \/ TickExpire => Ticked
    BY CountedRemaining, ExpiredRemaining DEF PoolInv
  <2> QED
    BY <2>1, <2>2, TimerSteps
<1> QED
  BY <1>1, PoolInvariance, TypeInvariance, LinkInvariance, PTL DEF Spec, RemainingKept
=============================================================================
